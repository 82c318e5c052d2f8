-------------------------- MODULE PermissionProofs -------------------------
(***************************************************************************)
(* Proofs about PermissionFlow, for any set of prompts and any number of    *)
(* threads that send decisions; and about PermissionUi, the screen as one of  *)
(* them, for any number of changes of the prompt.                            *)
(***************************************************************************)
EXTENDS PermissionUi, SequenceTheorems, TLAPS

\* The flags, and the rest of TypeOK.
FlagsOK == hasPrompt \in BOOLEAN /\ permissionSent \in BOOLEAN

StateOK ==
  /\ promptId \in Ids
  /\ approvals \in 0 .. StatLimit /\ denials \in 0 .. StatLimit
  /\ pc \in [Threads -> {"idle", "checked", "sending", "sent"}]
  /\ job \in [Threads -> Job]
  /\ epoch \in Nat /\ rememberedIn \in Nat
  /\ answers \in Seq(Answer)

\* The thread is sending, or has sent, the line with the id.
Copied(t) == pc[t] \in {"sending", "sent"}

\* No id was copied in an epoch that is still to come.
EpochsOrdered ==
  /\ \A i \in DOMAIN answers : answers[i].begun <= epoch
  /\ \A t \in Threads : Copied(t) => job[t].epoch <= epoch

\* The id that was copied in the epoch of now is that of the prompt.
CopiesName ==
  /\ \A i \in DOMAIN answers : answers[i].begun = epoch => answers[i].id = promptId
  /\ \A t \in Threads : Copied(t) /\ job[t].epoch = epoch => job[t].id = promptId

\* What a thread is about to send is its first decision for that prompt.
CheckedIsFirst ==
  \A t \in Threads : pc[t] = "checked" =>
     \A i \in DOMAIN answers :
        answers[i].thread = t => answers[i].begun # epoch

SendingIsFirst ==
  \A t \in Threads : pc[t] = "sending" =>
     \A i \in DOMAIN answers :
        answers[i].thread = t => answers[i].begun # job[t].epoch

\* The inductive invariant.  AnsweredBlocks is what lets a check pass only when
\* the decision is the thread's first (CheckedIsFirst, SendingIsFirst), which is
\* what keeps OncePerThread when the decision goes out; EpochsOrdered keeps both
\* when the prompt changes between the check and the copy of its id.
IInv ==
  /\ FlagsOK
  /\ StateOK
  /\ EpochsOrdered
  /\ CopiesName
  /\ CheckedIsFirst
  /\ SendingIsFirst
  /\ AnsweredBlocks
  /\ OncePerThread
  /\ FlagIsFresh

LEMMA InitIInv == Init => IInv
<1> SUFFICES ASSUME Init
             PROVE  IInv
  OBVIOUS
<1>1. FlagsOK /\ FlagIsFresh
  BY DEF Init, FlagsOK, FlagIsFresh
<1>2. StateOK
  <2>1. NoJob \in Job
    BY FlowAssumption DEF NoJob, Job, Ids, Decisions
  <2> QED
    BY <2>1, FlowAssumption DEF Init, StateOK, Ids
<1>3. DOMAIN answers = {}
  BY DEF Init
<1>4. EpochsOrdered /\ CopiesName /\ CheckedIsFirst /\ SendingIsFirst
  BY <1>3 DEF Init, EpochsOrdered, CopiesName, CheckedIsFirst, SendingIsFirst, Copied
<1>5. AnsweredBlocks /\ OncePerThread
  BY <1>3 DEF AnsweredBlocks, OncePerThread
<1> QED
  BY <1>1, <1>2, <1>4, <1>5 DEF IInv

\* A step of the host thread keeps the prompt and the flag, or clears when
\* there was no prompt, or begins an epoch; the last two lower the flag.
SamePrompt == UNCHANGED <<promptId, epoch, permissionSent>>
StillNone  == /\ promptId = EmptyId
              /\ UNCHANGED <<promptId, epoch>>
              /\ permissionSent' = FALSE
NewEpoch   == epoch' = epoch + 1 /\ permissionSent' = FALSE

LEMMA HostStepShape ==
  ASSUME IInv, HostStep
  PROVE  /\ UNCHANGED <<pc, job, rememberedIn, answers>>
         /\ SamePrompt \/ StillNone \/ NewEpoch
<1>1. CASE \E id \in Ids : SnapshotPrompt(id)
  <2>1. PICK id \in Ids : SnapshotPrompt(id)
    BY <1>1
  <2>2. CASE id = promptId
    BY <2>1, <2>2 DEF SnapshotPrompt, ShowPrompt, Enter, SamePrompt
  <2>3. CASE id # promptId
    BY <2>1, <2>3 DEF SnapshotPrompt, ShowPrompt, Enter, NewEpoch
  <2> QED
    BY <2>1, <2>2, <2>3 DEF SnapshotPrompt
<1>2. CASE SnapshotNoPrompt \/ FactoryReset
  BY <1>2 DEF SnapshotNoPrompt, FactoryReset, ClearPrompt, Enter, StillNone, NewEpoch
<1> QED
  BY <1>1, <1>2 DEF HostStep

LEMMA HostStepIInv == IInv /\ HostStep => IInv'
<1> SUFFICES ASSUME IInv, HostStep
             PROVE  IInv'
  OBVIOUS
<1>1. UNCHANGED <<pc, job, rememberedIn, answers>>
  BY HostStepShape
<1>2. SamePrompt \/ StillNone \/ NewEpoch
  BY HostStepShape
<1>3. FlagsOK'
  BY DEF HostStep, SnapshotPrompt, ShowPrompt, SnapshotNoPrompt, FactoryReset,
         ClearPrompt, IInv, FlagsOK
<1>4. StateOK'
  <2>1. \E id \in Ids : Enter(id)
    BY DEF HostStep, SnapshotPrompt, ShowPrompt, SnapshotNoPrompt, FactoryReset,
           ClearPrompt, Ids
  <2>3. promptId' \in Ids /\ epoch' \in Nat
    BY <2>1 DEF Enter, IInv, StateOK
  <2>2. approvals' \in 0 .. StatLimit /\ denials' \in 0 .. StatLimit
    BY FlowAssumption DEF HostStep, SnapshotPrompt, SnapshotNoPrompt, FactoryReset, IInv, StateOK
  <2> QED
    BY <1>1, <2>2, <2>3 DEF IInv, StateOK
<1>5. \A i \in DOMAIN answers : answers[i].begun \in Nat
  <2>1. \A i \in DOMAIN answers : answers[i] \in Answer
    BY DEF IInv, StateOK
  <2> QED
    BY <2>1 DEF Answer
<1>6. \A t \in Threads : job[t].epoch \in Nat
  BY DEF IInv, StateOK, Job
<1>7. SendingIsFirst' /\ OncePerThread'
  BY <1>1 DEF IInv, SendingIsFirst, OncePerThread
<1>8. CASE SamePrompt \/ StillNone
  <2>1. UNCHANGED <<promptId, epoch>>
    BY <1>8 DEF SamePrompt, StillNone
  <2>2. EpochsOrdered' /\ CopiesName' /\ CheckedIsFirst'
    BY <1>1, <2>1 DEF IInv, EpochsOrdered, CopiesName, CheckedIsFirst, Copied
  <2>3. AnsweredBlocks'
    BY <1>1, <1>8 DEF SamePrompt, StillNone, IInv, AnsweredBlocks
  <2>4. FlagIsFresh'
    BY <1>1, <1>8 DEF SamePrompt, StillNone, IInv, FlagIsFresh
  <2> QED
    BY <1>3, <1>4, <1>7, <2>2, <2>3, <2>4 DEF IInv
<1>9. CASE NewEpoch
  <2>1. epoch \in Nat /\ epoch' = epoch + 1
    BY <1>9 DEF NewEpoch, IInv, StateOK
  <2>2. \A i \in DOMAIN answers : /\ answers[i].begun <= epoch'
                                  /\ answers[i].begun # epoch'
    BY <1>5, <2>1 DEF IInv, EpochsOrdered
  <2>3. \A t \in Threads : Copied(t) => /\ job[t].epoch <= epoch'
                                        /\ job[t].epoch # epoch'
    BY <1>6, <2>1 DEF IInv, EpochsOrdered
  <2>4. EpochsOrdered' /\ CopiesName' /\ CheckedIsFirst'
    BY <1>1, <2>2, <2>3 DEF EpochsOrdered, CopiesName, CheckedIsFirst, Copied
  <2>5. AnsweredBlocks' /\ FlagIsFresh'
    BY <1>1, <1>9, <2>2 DEF NewEpoch, AnsweredBlocks, FlagIsFresh
  <2> QED
    BY <1>3, <1>4, <1>7, <2>4, <2>5 DEF IInv
<1> QED
  BY <1>2, <1>8, <1>9

\* The check of emit_permission: the decision it lets pass is the thread's first.
LEMMA BeginIInv ==
  ASSUME IInv, NEW t \in Threads, NEW d \in Decisions, Begin(t, d)
  PROVE  IInv'
<1>1. UNCHANGED <<hasPrompt, promptId, permissionSent, approvals, denials,
                  epoch, rememberedIn, answers>>
  BY DEF Begin
<1>2. FlagsOK' /\ OncePerThread' /\ FlagIsFresh'
  BY <1>1 DEF IInv, FlagsOK, OncePerThread, FlagIsFresh
<1>3. promptId # EmptyId /\ ~permissionSent
  BY DEF Begin, CanDecide
<1>4. pc' = [pc EXCEPT ![t] = "checked"] /\ pc[t] = "idle"
  BY DEF Begin
<1>5. /\ job \in [Threads -> Job]
      /\ job' = [job EXCEPT ![t].decision = d]
  BY DEF Begin, IInv, StateOK
<1>6. StateOK'
  <2>1. job' \in [Threads -> Job]
    BY <1>5 DEF Job
  <2> QED
    BY <1>1, <1>4, <2>1 DEF IInv, StateOK
<1>7. \A u \in Threads : /\ Copied(u)' => Copied(u)
                         /\ job'[u].id = job[u].id /\ job'[u].epoch = job[u].epoch
  BY <1>4, <1>5 DEF IInv, StateOK, Copied, Job
<1>8. EpochsOrdered' /\ CopiesName'
  BY <1>1, <1>7 DEF IInv, EpochsOrdered, CopiesName
<1>9. AnsweredBlocks'
  BY <1>1, <1>4 DEF IInv, StateOK, AnsweredBlocks, Answer
<1>10. SendingIsFirst'
  BY <1>1, <1>4, <1>7 DEF IInv, StateOK, SendingIsFirst
<1>11. CheckedIsFirst'
  <2>1. \A i \in DOMAIN answers : answers[i].thread = t => answers[i].begun # epoch
    BY <1>3, <1>4 DEF IInv, AnsweredBlocks
  <2> QED
    BY <1>1, <1>4, <2>1 DEF IInv, StateOK, CheckedIsFirst
<1> QED
  BY <1>2, <1>6, <1>8, <1>9, <1>10, <1>11 DEF IInv

\* The line takes the id of the prompt of now, whatever the check has seen.
LEMMA CopyIInv ==
  ASSUME IInv, NEW t \in Threads, Copy(t)
  PROVE  IInv'
<1>1. UNCHANGED <<hasPrompt, promptId, permissionSent, approvals, denials,
                  epoch, rememberedIn, answers>>
  BY DEF Copy
<1>2. FlagsOK' /\ OncePerThread' /\ FlagIsFresh'
  BY <1>1 DEF IInv, FlagsOK, OncePerThread, FlagIsFresh
<1>3. pc' = [pc EXCEPT ![t] = "sending"] /\ pc[t] = "checked"
  BY DEF Copy
<1>4. /\ job \in [Threads -> Job] /\ promptId \in Ids /\ epoch \in Nat
      /\ job' = [job EXCEPT ![t].id = promptId, ![t].epoch = epoch]
  BY DEF Copy, IInv, StateOK
<1>5. /\ job' \in [Threads -> Job]
      /\ job'[t].id = promptId /\ job'[t].epoch = epoch
      /\ \A u \in Threads \ {t} : job'[u] = job[u]
  BY <1>4 DEF Job
<1>6. StateOK'
  BY <1>1, <1>3, <1>5 DEF IInv, StateOK
<1>7. EpochsOrdered' /\ CopiesName'
  BY <1>1, <1>3, <1>4, <1>5 DEF IInv, StateOK, EpochsOrdered, CopiesName, Copied
<1>8. AnsweredBlocks'
  BY <1>1, <1>3 DEF IInv, StateOK, AnsweredBlocks, Answer
<1>9. CheckedIsFirst'
  BY <1>1, <1>3 DEF IInv, StateOK, CheckedIsFirst
<1>10. SendingIsFirst'
  BY <1>1, <1>3, <1>5 DEF IInv, StateOK, CheckedIsFirst, SendingIsFirst
<1> QED
  BY <1>2, <1>6, <1>7, <1>8, <1>9, <1>10 DEF IInv

\* A decision goes out.
LEMMA SendCompletesIInv ==
  ASSUME IInv, NEW t \in Threads, SendCompletes(t)
  PROVE  IInv'
<1> DEFINE new == [thread |-> t, id |-> job[t].id,
                   decision |-> job[t].decision,
                   begun |-> job[t].epoch]
<1>1. UNCHANGED <<hasPrompt, promptId, permissionSent, approvals, denials, job,
                  epoch, rememberedIn>>
  BY DEF SendCompletes
<1>2. FlagsOK' /\ FlagIsFresh'
  BY <1>1 DEF IInv, FlagsOK, FlagIsFresh
<1>3. pc' = [pc EXCEPT ![t] = "sent"] /\ pc[t] = "sending"
  BY DEF SendCompletes
<1>4. answers' = Append(answers, new)
  BY DEF SendCompletes
<1>5. new \in Answer
  BY DEF IInv, StateOK, Job, Answer
<1>6. StateOK'
  BY <1>1, <1>3, <1>4, <1>5 DEF IInv, StateOK
<1>7. /\ DOMAIN answers' = DOMAIN answers \cup {Len(answers) + 1}
      /\ Len(answers) + 1 \notin DOMAIN answers
      /\ answers'[Len(answers) + 1] = new
      /\ \A i \in DOMAIN answers : answers'[i] = answers[i]
  BY <1>4, <1>5 DEF IInv, StateOK
<1>8. new.thread = t /\ new.begun = job[t].epoch /\ new.id = job[t].id
  OBVIOUS
<1> HIDE DEF new
<1>9. EpochsOrdered'
  BY <1>1, <1>3, <1>7, <1>8 DEF IInv, StateOK, EpochsOrdered, Copied
<1>10. CopiesName'
  BY <1>1, <1>3, <1>7, <1>8 DEF IInv, StateOK, CopiesName, Copied
<1>11. SendingIsFirst' /\ CheckedIsFirst'
  BY <1>1, <1>3, <1>7, <1>8 DEF IInv, StateOK, SendingIsFirst, CheckedIsFirst
<1>12. AnsweredBlocks'
  BY <1>1, <1>3, <1>7, <1>8 DEF IInv, StateOK, AnsweredBlocks, Answer
<1>13. OncePerThread'
  BY <1>1, <1>3, <1>7, <1>8 DEF IInv, StateOK, SendingIsFirst, OncePerThread
<1> QED
  BY <1>2, <1>6, <1>9, <1>10, <1>11, <1>12, <1>13 DEF IInv

LEMMA NoJobTyped == NoJob \in Job
  BY DEF NoJob, Job, Ids, Decisions

\* A send that fails leaves everything but the thread as it was.
LEMMA SendFailsIInv ==
  ASSUME IInv, NEW t \in Threads, SendFails(t)
  PROVE  IInv'
<1>1. UNCHANGED <<hasPrompt, promptId, permissionSent, approvals, denials,
                  epoch, rememberedIn, answers>>
  BY DEF SendFails
<1>2. /\ pc' = [pc EXCEPT ![t] = "idle"] /\ pc[t] = "sending"
      /\ job' = [job EXCEPT ![t] = NoJob]
  BY DEF SendFails
<1>3. FlagsOK' /\ OncePerThread' /\ FlagIsFresh'
  BY <1>1 DEF IInv, FlagsOK, OncePerThread, FlagIsFresh
<1>4. StateOK'
  BY <1>1, <1>2, NoJobTyped DEF IInv, StateOK
<1>5. EpochsOrdered' /\ CopiesName' /\ CheckedIsFirst' /\ SendingIsFirst'
  BY <1>1, <1>2 DEF IInv, StateOK, EpochsOrdered, CopiesName, CheckedIsFirst,
                    SendingIsFirst, Copied
<1>6. AnsweredBlocks'
  BY <1>1, <1>2 DEF IInv, StateOK, AnsweredBlocks
<1> QED
  BY <1>3, <1>4, <1>5, <1>6 DEF IInv

\* The decision is remembered and counted.
LEMMA FinishIInv ==
  ASSUME IInv, NEW t \in Threads, Finish(t)
  PROVE  IInv'
<1>1. /\ UNCHANGED <<hasPrompt, promptId, epoch, answers>>
      /\ permissionSent' = TRUE /\ rememberedIn' = epoch
  BY DEF Finish, Remember
<1>2. /\ pc' = [pc EXCEPT ![t] = "idle"] /\ pc[t] = "sent"
      /\ job' = [job EXCEPT ![t] = NoJob]
  BY DEF Finish
<1>3. FlagsOK' /\ OncePerThread' /\ FlagIsFresh' /\ AnsweredBlocks'
  BY <1>1 DEF IInv, FlagsOK, OncePerThread, FlagIsFresh, AnsweredBlocks
<1>4. StateOK'
  <2>1. approvals' \in 0 .. StatLimit /\ denials' \in 0 .. StatLimit
    BY FlowAssumption DEF Finish, RecordApproval, RecordDenial, Counted, IInv, StateOK
  <2> QED
    BY <1>1, <1>2, <2>1, NoJobTyped DEF IInv, StateOK
<1>5. EpochsOrdered' /\ CopiesName' /\ CheckedIsFirst' /\ SendingIsFirst'
  BY <1>1, <1>2 DEF IInv, StateOK, EpochsOrdered, CopiesName, CheckedIsFirst,
                    SendingIsFirst, Copied
<1> QED
  BY <1>3, <1>4, <1>5 DEF IInv

LEMMA NextIInv == IInv /\ [Next]_flowVars => IInv'
<1> SUFFICES ASSUME IInv, [Next]_flowVars
             PROVE  IInv'
  OBVIOUS
<1>1. CASE HostStep
  BY <1>1, HostStepIInv
<1>2. ASSUME NEW t \in Threads, SendStep(t)
      PROVE  IInv'
  BY <1>2, CopyIInv, SendCompletesIInv, SendFailsIInv, FinishIInv DEF SendStep
<1>3. ASSUME NEW t \in Threads, NEW d \in Decisions, Begin(t, d)
      PROVE  IInv'
  BY <1>3, BeginIInv
<1>4. CASE UNCHANGED flowVars
  BY <1>4 DEF flowVars, IInv, FlagsOK, StateOK, EpochsOrdered,
              CopiesName, CheckedIsFirst, SendingIsFirst, Copied, AnsweredBlocks,
              OncePerThread, FlagIsFresh
<1> QED
  BY <1>1, <1>2, <1>3, <1>4 DEF Next

\* The inductive invariant holds in every behaviour.
THEOREM FlowInvariant == Spec => []IInv
  BY InitIInv, NextIInv, PTL DEF Spec

\* The variables keep their types.
THEOREM FlowTypeCorrect == Spec => []TypeOK
<1>1. IInv => TypeOK
  BY DEF IInv, FlagsOK, StateOK, TypeOK
<1> QED
  BY <1>1, FlowInvariant, PTL

\* No thread sends two decisions for one prompt, however many threads decide
\* and whenever the desktop replaces the prompt.
THEOREM OncePerThreadHolds == Spec => []OncePerThread
<1>1. IInv => OncePerThread
  BY DEF IInv
<1> QED
  BY <1>1, FlowInvariant, PTL

\* A decision that has been sent and returned from blocks the next one.
THEOREM AnsweredBlocksHolds == Spec => []AnsweredBlocks
<1>1. IInv => AnsweredBlocks
  BY DEF IInv
<1> QED
  BY <1>1, FlowInvariant, PTL

\* The flag is never older than the prompt it blocks.
THEOREM FlagIsFreshHolds == Spec => []FlagIsFresh
<1>1. IInv => FlagIsFresh
  BY DEF IInv
<1> QED
  BY <1>1, FlowInvariant, PTL

-----------------------------------------------------------------------------
(* The loop is a thread of PermissionFlow.                                   *)

LEMMA UiStepIsFlowStep == [UiNext]_vars => [Next]_flowVars
<1> SUFFICES ASSUME [UiNext]_vars
             PROVE  Next \/ UNCHANGED flowVars
  OBVIOUS
<1>1. CASE \E b \in Decisions : PressButton(b)
  BY <1>1 DEF PressButton
<1>2. CASE ReadFlag \/ ReadId \/ TakeActions \/ UiRefused \/ ReadAgain \/ Draw \/ SkipDraw
  BY <1>2 DEF ReadFlag, ReadId, TakeActions, UiRefused, ReadAgain, Draw, SkipDraw
<1>3. CASE UiBegin
  <2>1. NextDecision \in Decisions
    BY DEF NextDecision, Decisions
  <2> QED
    BY <1>3, <2>1, UiAssumption DEF UiBegin, Next
<1>4. CASE UiCopy \/ UiSendCompletes \/ UiSendFails \/ UiFinish
  BY <1>4, UiAssumption DEF UiCopy, UiSendCompletes, UiSendFails, UiFinish, SendStep, Next
<1>5. CASE Others
  BY <1>5 DEF Others, Next
<1>6. CASE UNCHANGED vars
  BY <1>6 DEF vars
<1> QED
  BY <1>1, <1>2, <1>3, <1>4, <1>5, <1>6 DEF UiNext, UiStep

-----------------------------------------------------------------------------
(* What the screen claims.                                                   *)

\* The last decision that the UI got out is d.
LastIs(d) == \E i \in OwnAnswers : /\ \A j \in OwnAnswers : j <= i
                                  /\ answers[i].decision = d

Claims(s) == /\ s = "approveSent" => LastIs("once")
             /\ s = "denySent" => LastIs("deny")

\* While the loop waits for its send, the decision under way is the button's;
\* when it has gone out, the claim on the screen is about the one before.
ClaimInv ==
  /\ uiPc = "sending" <=> pc[Ui] # "idle"
  /\ uiPc = "sending" => job[Ui].decision = NextDecision
  /\ pc[Ui] = "sent" => LastIs(job[Ui].decision)
  /\ pc[Ui] # "sent" => Claims(sDecision)

LEMMA LastOwnIsLast ==
  ASSUME IInv, NEW d, LastIs(d)
  PROVE  OwnAnswers # {} /\ answers[LastOwn].decision = d
<1>1. PICK i \in OwnAnswers : /\ \A j \in OwnAnswers : j <= i
                              /\ answers[i].decision = d
  BY DEF LastIs
<1>2. /\ LastOwn \in OwnAnswers
      /\ \A j \in OwnAnswers : j <= LastOwn
  BY <1>1 DEF LastOwn
<1>3. i \in Nat /\ LastOwn \in Nat
  BY <1>1, <1>2 DEF OwnAnswers, IInv, StateOK
<1>4. i = LastOwn
  BY <1>1, <1>2, <1>3
<1> QED
  BY <1>1, <1>4

LEMMA InitClaim == UiInit => ClaimInv
  BY UiAssumption
     DEF UiInit, Init, ClaimInv, Claims

\* One more answer of the UI is its last.
LEMMA OwnAnswerIsAppended ==
  ASSUME IInv, SendCompletes(Ui)
  PROVE  \E n \in OwnAnswers' : /\ \A j \in OwnAnswers' : j <= n /\ n \in Nat /\ j \in Nat
                                /\ answers'[n].decision = job[Ui].decision
                                /\ answers'[n].id = job[Ui].id
                                /\ answers'[n].begun = job[Ui].epoch
<1> DEFINE new == [thread |-> Ui, id |-> job[Ui].id, decision |-> job[Ui].decision,
                   begun |-> job[Ui].epoch]
<1>1. answers' = Append(answers, new) /\ job' = job
  BY DEF SendCompletes
<1>2. /\ new.thread = Ui /\ new.decision = job[Ui].decision
      /\ new.id = job[Ui].id /\ new.begun = job[Ui].epoch
  OBVIOUS
<1> HIDE DEF new
<1>3. answers \in Seq(Answer)
  BY DEF IInv, StateOK
<1>4. /\ Len(answers) \in Nat
      /\ DOMAIN answers = 1 .. Len(answers)
      /\ DOMAIN answers' = 1 .. Len(answers) + 1
      /\ answers'[Len(answers) + 1] = new
  BY <1>1, <1>3
<1>5. Len(answers) + 1 \in OwnAnswers'
  BY <1>2, <1>4 DEF OwnAnswers
<1>6. \A j \in OwnAnswers' : j <= Len(answers) + 1 /\ Len(answers) + 1 \in Nat /\ j \in Nat
  BY <1>4 DEF OwnAnswers
<1> QED
  BY <1>2, <1>4, <1>5, <1>6

LEMMA OwnAnswerIsLast ==
  ASSUME IInv, SendCompletes(Ui)
  PROVE  LastIs(job[Ui].decision)'
<1>1. job' = job
  BY DEF SendCompletes
<1> QED
  BY <1>1, OwnAnswerIsAppended DEF LastIs

\* An answer of another thread leaves those of the UI alone.
LEMMA OtherAnswer ==
  ASSUME IInv, NEW t \in Threads \ {Ui}, SendCompletes(t)
  PROVE  /\ OwnAnswers' = OwnAnswers
         /\ \A i \in OwnAnswers : answers'[i] = answers[i]
<1> DEFINE new == [thread |-> t, id |-> job[t].id, decision |-> job[t].decision,
                   begun |-> job[t].epoch]
<1>1. answers' = Append(answers, new)
  BY DEF SendCompletes
<1>2. new.thread # Ui
  OBVIOUS
<1> HIDE DEF new
<1>3. answers \in Seq(Answer)
  BY DEF IInv, StateOK
<1>4. /\ DOMAIN answers' = DOMAIN answers \cup {Len(answers) + 1}
      /\ answers'[Len(answers) + 1] = new
      /\ \A i \in DOMAIN answers : answers'[i] = answers[i]
  BY <1>1, <1>3
<1>5. OwnAnswers' = OwnAnswers
  BY <1>2, <1>4 DEF OwnAnswers
<1>6. \A i \in OwnAnswers : answers'[i] = answers[i]
  BY <1>4 DEF OwnAnswers
<1> QED
  BY <1>5, <1>6

LEMMA OtherAnswerKeepsLast ==
  ASSUME IInv, NEW t \in Threads \ {Ui}, SendCompletes(t), NEW d, LastIs(d)
  PROVE  LastIs(d)'
  BY OtherAnswer DEF LastIs

\* A refused or failed decision takes no claim back and makes none.
LEMMA FailureKeepsClaims ==
  ASSUME NEW d, Claims(sDecision)
  PROVE  Claims(DecisionAfter(d, FALSE))
  BY DEF Claims, DecisionAfter

\* What a step leaves alone keeps the claims.
LEMMA Untouched ==
  ASSUME ClaimInv, UNCHANGED <<answers, pc, job, todo>>,
         uiPc' = "sending" <=> uiPc = "sending",
         pc[Ui] # "sent" => Claims(sDecision')
  PROVE  ClaimInv'
<1>1. OwnAnswers' = OwnAnswers
  BY DEF OwnAnswers
<1>2. \A d : LastIs(d)' <=> LastIs(d)
  BY <1>1 DEF LastIs
<1>3. NextDecision' = NextDecision
  BY DEF NextDecision
<1>4. pc[Ui] # "sent" => Claims(sDecision)'
  BY <1>2 DEF Claims
<1> QED
  BY <1>2, <1>3, <1>4 DEF ClaimInv

LEMMA UiStepClaim ==
  ASSUME IInv, ClaimInv, UiStep
  PROVE  ClaimInv'
<1>1. CASE ReadFlag \/ Draw \/ SkipDraw
  BY <1>1, Untouched DEF ReadFlag, Draw, SkipDraw, flowVars, ClaimInv
<1>2. CASE ReadId
  <2>1. sDecision' \in {"none", sDecision}
    BY <1>2 DEF ReadId, UpdatePromptState
  <2>2. pc[Ui] # "sent" => Claims(sDecision')
    BY <2>1 DEF ClaimInv, Claims
  <2> QED
    BY <1>2, <2>2, Untouched DEF ReadId, flowVars
<1>3. CASE TakeActions \/ UiRefused \/ ReadAgain
  <2>1. /\ UNCHANGED <<answers, pc, job>>
        /\ uiPc # "sending" /\ uiPc' # "sending"
        /\ sDecision' \in {sDecision, DecisionAfter(NextDecision, FALSE)}
    BY <1>3 DEF TakeActions, UiRefused, ReadAgain, flowVars
  <2>2. OwnAnswers' = OwnAnswers
    BY <2>1 DEF OwnAnswers
  <2>3. \A d : LastIs(d)' <=> LastIs(d)
    BY <2>1, <2>2 DEF LastIs
  <2>4. pc[Ui] = "idle"
    BY <2>1 DEF ClaimInv
  <2>5. Claims(sDecision')
    BY <2>1, <2>4, FailureKeepsClaims DEF ClaimInv
  <2>6. Claims(sDecision)'
    BY <2>3, <2>5 DEF Claims
  <2> QED
    BY <2>1, <2>4, <2>6 DEF ClaimInv
<1>4. CASE UiBegin
  <2>1. /\ UNCHANGED <<answers, todo, sDecision>>
        /\ uiPc' = "sending" /\ pc[Ui] = "idle"
        /\ pc' = [pc EXCEPT ![Ui] = "checked"]
        /\ job' = [job EXCEPT ![Ui].decision = NextDecision]
    BY <1>4 DEF UiBegin, Begin
  <2>2. pc'[Ui] = "checked" /\ job'[Ui].decision = NextDecision
    BY <2>1, UiAssumption DEF IInv, StateOK, Job
  <2>3. OwnAnswers' = OwnAnswers /\ NextDecision' = NextDecision
    BY <2>1 DEF OwnAnswers, NextDecision
  <2>4. \A d : LastIs(d)' <=> LastIs(d)
    BY <2>1, <2>3 DEF LastIs
  <2>5. Claims(sDecision)'
    BY <2>1, <2>4 DEF ClaimInv, Claims
  <2> QED
    BY <2>1, <2>2, <2>3, <2>5 DEF ClaimInv
<1>5. CASE UiSendCompletes
  <2>1. /\ UNCHANGED <<job, todo, uiPc>> /\ pc[Ui] = "sending"
        /\ pc' = [pc EXCEPT ![Ui] = "sent"]
    BY <1>5 DEF UiSendCompletes, SendCompletes, uiVars
  <2>2. pc'[Ui] = "sent"
    BY <2>1, UiAssumption DEF IInv, StateOK
  <2>3. NextDecision' = NextDecision
    BY <2>1 DEF NextDecision
  <2>4. LastIs(job[Ui].decision)'
    BY <1>5, OwnAnswerIsLast DEF UiSendCompletes
  <2> QED
    BY <2>1, <2>2, <2>3, <2>4 DEF ClaimInv
<1>6. CASE UiSendFails \/ UiFinish
  <2>1. /\ UNCHANGED answers /\ uiPc = "sending" /\ uiPc' = "decide"
        /\ pc' = [pc EXCEPT ![Ui] = "idle"]
        /\ \/ /\ pc[Ui] = "sending"
              /\ sDecision' = DecisionAfter(NextDecision, FALSE)
           \/ /\ pc[Ui] = "sent"
              /\ sDecision' = DecisionAfter(NextDecision, TRUE)
    BY <1>6 DEF UiSendFails, UiFinish, SendFails, Finish, UiReturns
  <2>2. pc'[Ui] = "idle"
    BY <2>1, UiAssumption DEF IInv, StateOK
  <2>3. OwnAnswers' = OwnAnswers
    BY <2>1 DEF OwnAnswers
  <2>4. \A d : LastIs(d)' <=> LastIs(d)
    BY <2>1, <2>3 DEF LastIs
  <2>5. CASE pc[Ui] = "sending" /\ sDecision' = DecisionAfter(NextDecision, FALSE)
    <3>1. Claims(sDecision')
      BY <2>5, FailureKeepsClaims DEF ClaimInv
    <3>2. Claims(sDecision)'
      BY <2>4, <3>1 DEF Claims
    <3> QED
      BY <2>1, <2>2, <3>2 DEF ClaimInv
  <2>6. CASE pc[Ui] = "sent" /\ sDecision' = DecisionAfter(NextDecision, TRUE)
    <3>1. LastIs(NextDecision)
      BY <2>1, <2>6 DEF ClaimInv
    <3>2. Claims(sDecision')
      BY <2>6, <3>1 DEF DecisionAfter, NextDecision, Claims
    <3>3. Claims(sDecision)'
      BY <2>4, <3>2 DEF Claims
    <3> QED
      BY <2>1, <2>2, <3>3 DEF ClaimInv
  <2> QED
    BY <2>1, <2>5, <2>6
<1>7. CASE UiCopy
  <2>1. /\ UNCHANGED <<answers, todo, sDecision, uiPc>> /\ pc[Ui] = "checked"
        /\ pc' = [pc EXCEPT ![Ui] = "sending"]
        /\ job' = [job EXCEPT ![Ui].id = promptId, ![Ui].epoch = epoch]
    BY <1>7 DEF UiCopy, Copy, uiVars
  <2>2. pc'[Ui] = "sending" /\ job'[Ui].decision = job[Ui].decision
    BY <2>1, UiAssumption DEF IInv, StateOK, Job
  <2>3. OwnAnswers' = OwnAnswers /\ NextDecision' = NextDecision
    BY <2>1 DEF OwnAnswers, NextDecision
  <2>4. \A d : LastIs(d)' <=> LastIs(d)
    BY <2>1, <2>3 DEF LastIs
  <2>5. Claims(sDecision)'
    BY <2>1, <2>4 DEF ClaimInv, Claims
  <2> QED
    BY <2>1, <2>2, <2>3, <2>5 DEF ClaimInv
<1> QED
  BY <1>1, <1>2, <1>3, <1>4, <1>5, <1>6, <1>7 DEF UiStep

LEMMA OthersClaim ==
  ASSUME IInv, ClaimInv, Others
  PROVE  ClaimInv'
<1>1. UNCHANGED <<todo, uiPc, sDecision>>
  BY DEF Others, uiVars
<1>2. NextDecision' = NextDecision
  BY <1>1 DEF NextDecision
<1>3. CASE HostStep
  BY <1>1, <1>3, HostStepShape, Untouched DEF ClaimInv
<1>4. ASSUME NEW t \in Threads \ {Ui},
             Copy(t) \/ SendFails(t) \/ Finish(t) \/ \E d \in Decisions : Begin(t, d)
      PROVE  ClaimInv'
  <2>1. UNCHANGED answers /\ pc'[Ui] = pc[Ui] /\ job'[Ui] = job[Ui]
    BY <1>4, UiAssumption DEF Copy, SendFails, Finish, Begin, IInv, StateOK
  <2>2. OwnAnswers' = OwnAnswers
    BY <2>1 DEF OwnAnswers
  <2>3. \A d : LastIs(d)' <=> LastIs(d)
    BY <2>1, <2>2 DEF LastIs
  <2> QED
    BY <1>1, <1>2, <2>1, <2>3 DEF ClaimInv, Claims
<1>5. ASSUME NEW t \in Threads \ {Ui}, SendCompletes(t)
      PROVE  ClaimInv'
  <2>1. pc'[Ui] = pc[Ui] /\ job'[Ui] = job[Ui]
    BY <1>5, UiAssumption DEF SendCompletes, IInv, StateOK
  <2>2. \A d : LastIs(d) => LastIs(d)'
    BY <1>5, OtherAnswerKeepsLast
  <2> QED
    BY <1>1, <1>2, <2>1, <2>2 DEF ClaimInv, Claims
<1> QED
  BY <1>3, <1>4, <1>5 DEF Others, SendStep

LEMMA NextClaim == IInv /\ ClaimInv /\ [UiNext]_vars => ClaimInv'
<1> SUFFICES ASSUME IInv, ClaimInv, [UiNext]_vars
             PROVE  ClaimInv'
  OBVIOUS
<1>1. CASE \E b \in Decisions : PressButton(b)
  BY <1>1, Untouched DEF PressButton, flowVars, ClaimInv
<1>2. CASE UNCHANGED vars
  BY <1>2, Untouched DEF vars, flowVars, uiVars, ClaimInv
<1> QED
  BY <1>1, <1>2, UiStepClaim, OthersClaim DEF UiNext

\* The copies buddy_ui_refresh works with agree with what was sent in every
\* behaviour.
THEOREM UiInvariant == UiSpec => [](IInv /\ ClaimInv)
<1>1. UiInit => IInv /\ ClaimInv
  BY InitIInv, InitClaim DEF UiInit
<1>2. IInv /\ ClaimInv /\ [UiNext]_vars => (IInv /\ ClaimInv)'
  BY NextClaim, UiStepIsFlowStep, NextIInv
<1> QED
  BY <1>1, <1>2, PTL DEF UiSpec

\* What PermissionFlow promises of deciding threads holds with the main loop as one of
\* them: no thread decides a prompt twice, a decision that was sent blocks the next
\* one, and the flag is that of the prompt.
THEOREM LoopKeepsTheFlow == UiSpec => [](OncePerThread /\ AnsweredBlocks /\ FlagIsFresh)
<1>1. IInv => OncePerThread /\ AnsweredBlocks /\ FlagIsFresh
  BY DEF IInv
<1> QED
  BY <1>1, UiInvariant, PTL

\* "Approved" or "Denied" on the screen is what the UI got out last, for any number
\* of prompts, threads, failed sends and refused buttons.
THEOREM ClaimIsTrueHolds == UiSpec => []ClaimIsTrue
<1>1. ASSUME IInv, ClaimInv
      PROVE  ClaimIsTrue
  <2>1. sDecision \in {"approveSent", "denySent"} => OwnAnswers # {}
    BY <1>1, LastOwnIsLast DEF ClaimInv, Claims
  <2>2. uiPc # "sending" => Claims(sDecision)
    BY <1>1 DEF ClaimInv
  <2> QED
    BY <1>1, <2>1, <2>2, LastOwnIsLast DEF Claims, ClaimIsTrue
<1> QED
  BY <1>1, UiInvariant, PTL

-----------------------------------------------------------------------------
(* For which prompt it claims it.                                            *)

\* What the loop has read: the epochs in order, the id of the epoch it was read in,
\* and buttons that are acted on only with a prompt in the model.
ReadInv ==
  /\ firstRead \in Nat /\ readIn \in Nat /\ firstRead <= readIn /\ readIn <= epoch
  /\ readIn = epoch => model.promptId = promptId
  /\ uiPc \in {"act", "decide", "sending", "draw"} => sPromptId = View(model).promptId
  /\ uiPc = "act" => ~acted
  /\ uiPc \in {"decide", "sending"} => acted
  /\ todo # {} => uiPc \in {"decide", "sending"} /\ model.hasPrompt
  /\ uiPc = "sending" => todo # {}

LEMMA HostStepRead ==
  ASSUME IInv, ReadInv, HostStep, UNCHANGED uiVars
  PROVE  ReadInv'
<1>1. UNCHANGED <<uiPc, todo, acted, model, sPromptId, firstRead, readIn>>
  BY DEF uiVars, readVars
<1>2. CASE UNCHANGED <<promptId, epoch>>
  BY <1>1, <1>2 DEF ReadInv, View
<1>3. CASE epoch' = epoch + 1
  <2>1. readIn < epoch' /\ readIn \in Nat /\ epoch' \in Nat
    BY <1>3 DEF ReadInv, IInv, StateOK
  <2> QED
    BY <1>1, <2>1 DEF ReadInv, View
<1> QED
  BY <1>2, <1>3, HostStepShape DEF SamePrompt, StillNone, NewEpoch

LEMMA ReadIdRead ==
  ASSUME IInv, ReadInv, ReadId, model \in [hasPrompt : BOOLEAN, promptId : Ids]
  PROVE  /\ ReadInv'
         /\ readIn' = epoch
         /\ sPromptId' # sPromptId => sDecision' = "none"
         /\ sPromptId' = sPromptId => firstRead' = firstRead
         /\ sDecision' \in {"none", sDecision}
         /\ sDecision' # "none" => sPromptId' = promptId
<1>1. /\ uiPc = "readId" /\ uiPc' = (IF acted THEN "draw" ELSE "act")
      /\ model' = [model EXCEPT !.promptId = promptId]
      /\ UpdatePromptState(model')
      /\ readIn' = epoch
      /\ firstRead' = IF sPromptId' # sPromptId THEN epoch ELSE firstRead
      /\ UNCHANGED <<acted, todo, epoch, promptId>>
  BY DEF ReadId, flowVars
<1>2. model'.promptId = promptId /\ model'.hasPrompt = model.hasPrompt
  BY <1>1
<1>3. /\ sPromptId' = View(model').promptId
      /\ sPromptId' # sPromptId => sDecision' = "none"
      /\ sDecision' \in {"none", sDecision}
      /\ sDecision' # "none" => sPromptId' = promptId
  BY <1>1, <1>2 DEF UpdatePromptState, View, NoPrompt
<1>4. /\ firstRead' \in Nat /\ readIn' \in Nat
      /\ firstRead' <= readIn' /\ readIn' <= epoch'
  BY <1>1 DEF ReadInv, IInv, StateOK
<1>5. ReadInv'
  BY <1>1, <1>2, <1>3, <1>4 DEF ReadInv, View
<1> QED
  BY <1>1, <1>3, <1>5

ModelOK == model \in [hasPrompt : BOOLEAN, promptId : Ids]

LEMMA NextRead == IInv /\ ModelOK /\ ReadInv /\ [UiNext]_vars => ReadInv'
<1> SUFFICES ASSUME IInv, ModelOK, ReadInv, [UiNext]_vars
             PROVE  ReadInv'
  OBVIOUS
<1>1. CASE /\ UNCHANGED <<uiPc, todo, acted, model, sPromptId, firstRead, readIn>>
           /\ UNCHANGED <<promptId, epoch>>
  BY <1>1 DEF ReadInv, View
<1>2. CASE ReadFlag
  <2>1. /\ uiPc = "readFlag" /\ uiPc' = "readId"
        /\ model' = [model EXCEPT !.hasPrompt = hasPrompt]
        /\ UNCHANGED <<todo, acted, sPromptId, firstRead, readIn, promptId, epoch>>
    BY <1>2 DEF ReadFlag, flowVars, readVars
  <2>2. model'.promptId = model.promptId
    BY <2>1 DEF ModelOK
  <2> QED
    BY <2>1, <2>2 DEF ReadInv
<1>3. CASE ReadId
  BY <1>3, ReadIdRead DEF ModelOK
<1>4. CASE TakeActions \/ ReadAgain \/ Draw \/ SkipDraw
  <2>1. /\ UNCHANGED <<model, sPromptId, firstRead, readIn, promptId, epoch>>
        /\ \/ /\ uiPc = "act" /\ uiPc' \in {"draw", "decide"}
              /\ uiPc' = "decide" => acted'
              /\ todo' # {} => uiPc' = "decide" /\ model.hasPrompt
           \/ uiPc' = "readFlag" /\ todo' = todo /\ uiPc = "decide" /\ todo = {}
           \/ uiPc' = "readFlag" /\ todo' = todo /\ uiPc = "draw"
    BY <1>4 DEF TakeActions, ReadAgain, Draw, SkipDraw, flowVars, readVars
  <2> QED
    BY <2>1 DEF ReadInv, View
<1>5. CASE UiBegin \/ UiRefused \/ UiSendFails \/ UiFinish
  <2>1. /\ UNCHANGED <<model, acted, sPromptId, firstRead, readIn, promptId, epoch>>
        /\ uiPc \in {"decide", "sending"} /\ uiPc' \in {"decide", "sending"}
        /\ todo' # {} => todo # {}
        /\ uiPc' = "sending" => todo' # {}
    BY <1>5 DEF UiBegin, Begin, UiRefused, UiSendFails, SendFails, UiFinish, Finish,
                UiReturns, flowVars, readVars, Rest
  <2> QED
    BY <2>1 DEF ReadInv, View
<1>6. CASE UiCopy \/ UiSendCompletes
  BY <1>1, <1>6 DEF UiCopy, Copy, UiSendCompletes, SendCompletes, uiVars, readVars
<1>7. CASE Others
  <2>1. CASE HostStep
    BY <1>7, <2>1, HostStepRead DEF Others
  <2>2. ASSUME NEW t \in Threads, SendStep(t) \/ \E d \in Decisions : Begin(t, d)
        PROVE  ReadInv'
    BY <1>1, <1>7, <2>2
    DEF SendStep, Copy, SendCompletes, SendFails, Finish, Begin, Others, uiVars, readVars
  <2> QED
    BY <1>7, <2>1, <2>2 DEF Others
<1>8. CASE (\E b \in Decisions : PressButton(b)) \/ UNCHANGED vars
  BY <1>1, <1>8 DEF PressButton, vars, flowVars, uiVars, readVars
<1> QED
  BY <1>2, <1>3, <1>4, <1>5, <1>6, <1>7, <1>8 DEF UiNext, UiStep

\* i is the last decision that the UI got out.
IsLastOwn(i) == i \in OwnAnswers /\ \A j \in OwnAnswers : j <= i

Claiming == sDecision \in {"approveSent", "denySent"}

\* A decision is for the prompt whose id the UI keeps, or its id was copied after
\* that prompt had been replaced; once the UI has read again, before it read again.
Meant(i) == answers[i].id = sPromptId \/ firstRead < answers[i].begun
ReadSince(i) ==
  \/ answers[i].id = sPromptId
  \/ firstRead < answers[i].begun /\ answers[i].begun < readIn

\* A line that is under way was begun after the prompt of the model was read, and
\* with its id unless that prompt had gone by then.
MeantInv ==
  /\ Copied(Ui) => /\ readIn <= job[Ui].epoch
                   /\ job[Ui].epoch = readIn => job[Ui].id = model.promptId
  /\ pc[Ui] = "sent" =>
       \A i : IsLastOwn(i) =>
                answers[i].id = job[Ui].id /\ answers[i].begun = job[Ui].epoch
  /\ pc[Ui] # "sent" /\ Claiming => \A i : IsLastOwn(i) => Meant(i)
  /\ uiPc \in {"act", "draw"} /\ Claiming => \A i : IsLastOwn(i) => ReadSince(i)

\* A step that leaves the UI's own decisions and what was read alone.
LEMMA MeantKept ==
  ASSUME MeantInv,
         UNCHANGED <<sPromptId, firstRead, readIn, OwnAnswers>>,
         \A i \in OwnAnswers : answers'[i] = answers[i],
         model'.promptId = model.promptId,
         pc'[Ui] = pc[Ui], job'[Ui] = job[Ui],
         Claiming' => Claiming,
         uiPc' \in {"act", "draw"} => uiPc \in {"act", "draw"} \/ ~Claiming
  PROVE  MeantInv'
<1>1. \A i : /\ IsLastOwn(i)' <=> IsLastOwn(i)
             /\ IsLastOwn(i) => answers'[i] = answers[i]
             /\ IsLastOwn(i) => (Meant(i)' <=> Meant(i))
             /\ IsLastOwn(i) => (ReadSince(i)' <=> ReadSince(i))
  BY DEF IsLastOwn, Meant, ReadSince
<1> QED
  BY <1>1 DEF MeantInv, Copied

LEMMA FailedClaims ==
  ASSUME NEW d, sDecision' = DecisionAfter(d, FALSE)
  PROVE  Claiming' => Claiming
  BY DEF DecisionAfter, Claiming

LEMMA ReadIdMeant ==
  ASSUME IInv, ClaimInv, ModelOK, ReadInv, MeantInv, ReadId
  PROVE  MeantInv'
<1>1. /\ uiPc = "readId" /\ uiPc' \in {"act", "draw"}
      /\ UNCHANGED <<answers, pc, job, epoch, promptId>>
  BY DEF ReadId, flowVars
<1>2. pc[Ui] = "idle"
  BY <1>1 DEF ClaimInv
<1>3. SUFFICES ASSUME Claiming', NEW i, IsLastOwn(i)'
               PROVE  Meant(i)' /\ ReadSince(i)'
  BY <1>1, <1>2 DEF MeantInv, Copied
<1>4. IsLastOwn(i)
  BY <1>1, <1>3 DEF IsLastOwn, OwnAnswers
<1>5. sPromptId' = sPromptId /\ firstRead' = firstRead /\ sPromptId' = promptId
      /\ readIn' = epoch /\ Claiming
  BY <1>3, ReadIdRead DEF ModelOK, Claiming
<1>6. Meant(i)
  BY <1>2, <1>4, <1>5 DEF MeantInv
<1>7. i \in DOMAIN answers
  BY <1>4 DEF IsLastOwn, OwnAnswers
<1>8. /\ answers[i].begun \in Nat /\ epoch \in Nat
      /\ answers[i].begun <= epoch
      /\ answers[i].begun = epoch => answers[i].id = promptId
  <2>1. answers[i] \in Answer /\ epoch \in Nat
    BY <1>7 DEF IInv, StateOK
  <2> QED
    BY <1>7, <2>1 DEF IInv, Answer, EpochsOrdered, CopiesName
<1> QED
  BY <1>1, <1>5, <1>6, <1>8 DEF Meant, ReadSince

LEMMA SendMeant ==
  ASSUME IInv, ClaimInv, ReadInv, MeantInv,
         UiBegin \/ UiCopy \/ UiSendCompletes \/ UiSendFails \/ UiFinish
  PROVE  MeantInv'
<1>1. /\ UNCHANGED <<sPromptId, firstRead, readIn, model>>
      /\ uiPc' \notin {"act", "draw"}
  BY DEF UiBegin, UiCopy, UiSendCompletes, UiSendFails, UiFinish, UiReturns, uiVars,
         readVars, ClaimInv, Copy, SendCompletes
<1>2. CASE UiBegin
  <2>1. /\ UNCHANGED <<answers, sDecision>> /\ pc[Ui] = "idle"
        /\ pc' = [pc EXCEPT ![Ui] = "checked"]
    BY <1>2 DEF UiBegin, Begin
  <2>2. pc'[Ui] = "checked"
    BY <2>1, UiAssumption DEF IInv, StateOK
  <2> QED
    BY <1>1, <2>1, <2>2 DEF MeantInv, Copied, Claiming, IsLastOwn, OwnAnswers, Meant
<1>3. CASE UiCopy
  <2>1. /\ UNCHANGED <<answers, sDecision, epoch>> /\ pc[Ui] = "checked"
        /\ pc' = [pc EXCEPT ![Ui] = "sending"]
        /\ job' = [job EXCEPT ![Ui].id = promptId, ![Ui].epoch = epoch]
    BY <1>3 DEF UiCopy, Copy, uiVars
  <2>2. pc'[Ui] = "sending" /\ job'[Ui].id = promptId /\ job'[Ui].epoch = epoch
    BY <2>1, UiAssumption DEF IInv, StateOK, Job
  <2> QED
    BY <1>1, <2>1, <2>2
    DEF ReadInv, MeantInv, Copied, Claiming, IsLastOwn, OwnAnswers, Meant
<1>4. CASE UiSendCompletes
  <2>1. /\ UNCHANGED job /\ pc[Ui] = "sending" /\ pc' = [pc EXCEPT ![Ui] = "sent"]
    BY <1>4 DEF UiSendCompletes, SendCompletes
  <2>2. pc'[Ui] = "sent"
    BY <2>1, UiAssumption DEF IInv, StateOK
  <2>3. PICK n \in OwnAnswers' : /\ \A j \in OwnAnswers' : j <= n /\ n \in Nat /\ j \in Nat
                                 /\ answers'[n].id = job[Ui].id
                                 /\ answers'[n].begun = job[Ui].epoch
    BY <1>4, OwnAnswerIsAppended DEF UiSendCompletes
  <2>4. \A i : IsLastOwn(i)' => i = n
    BY <2>3 DEF IsLastOwn
  <2> QED
    BY <1>1, <2>1, <2>2, <2>3, <2>4 DEF MeantInv, Copied
<1>5. CASE UiSendFails
  <2>1. /\ UNCHANGED answers /\ pc[Ui] = "sending" /\ pc' = [pc EXCEPT ![Ui] = "idle"]
        /\ sDecision' = DecisionAfter(NextDecision, FALSE)
    BY <1>5 DEF UiSendFails, SendFails, UiReturns
  <2>2. pc'[Ui] = "idle" /\ (Claiming' => Claiming)
    BY <2>1, FailedClaims, UiAssumption DEF IInv, StateOK
  <2> QED
    BY <1>1, <2>1, <2>2 DEF MeantInv, Copied, IsLastOwn, OwnAnswers, Meant
<1>6. CASE UiFinish
  <2>1. /\ UNCHANGED answers /\ pc[Ui] = "sent" /\ pc' = [pc EXCEPT ![Ui] = "idle"]
        /\ uiPc = "sending"
    BY <1>6 DEF UiFinish, Finish, UiReturns
  <2>2. pc'[Ui] = "idle"
    BY <2>1, UiAssumption DEF IInv, StateOK
  <2>3. sPromptId = model.promptId /\ readIn \in Nat /\ firstRead \in Nat
        /\ firstRead <= readIn
    BY <2>1 DEF ReadInv, View
  <2>4. readIn <= job[Ui].epoch /\ (job[Ui].epoch = readIn => job[Ui].id = sPromptId)
        /\ job[Ui].epoch \in Nat
    BY <2>1, <2>3, UiAssumption DEF MeantInv, Copied, IInv, StateOK, Job
  <2>5. job[Ui].id = sPromptId \/ firstRead < job[Ui].epoch
    BY <2>3, <2>4
  <2>6. \A i : IsLastOwn(i) => Meant(i)
    BY <2>1, <2>5 DEF MeantInv, Meant
  <2>7. \A i : IsLastOwn(i)' => Meant(i)'
    BY <1>1, <2>1, <2>6 DEF IsLastOwn, OwnAnswers, Meant
  <2> QED
    BY <1>1, <2>2, <2>7 DEF MeantInv, Copied
<1> QED
  BY <1>2, <1>3, <1>4, <1>5, <1>6

LEMMA OthersMeant ==
  ASSUME IInv, MeantInv, Others
  PROVE  MeantInv'
<1>1. UNCHANGED <<uiPc, model, sPromptId, firstRead, readIn, sDecision>>
  BY DEF Others, uiVars, readVars
<1>2. CASE pc'[Ui] = pc[Ui] /\ job'[Ui] = job[Ui]
           /\ OwnAnswers' = OwnAnswers /\ \A i \in OwnAnswers : answers'[i] = answers[i]
  BY <1>1, <1>2, MeantKept DEF Claiming
<1>3. CASE HostStep
  BY <1>2, <1>3, HostStepShape DEF OwnAnswers
<1>4. ASSUME NEW t \in Threads \ {Ui}, SendCompletes(t)
      PROVE  MeantInv'
  BY <1>2, <1>4, OtherAnswer, UiAssumption DEF SendCompletes, IInv, StateOK
<1>5. ASSUME NEW t \in Threads \ {Ui},
             Copy(t) \/ SendFails(t) \/ Finish(t) \/ \E d \in Decisions : Begin(t, d)
      PROVE  MeantInv'
  <2>1. UNCHANGED answers /\ pc'[Ui] = pc[Ui] /\ job'[Ui] = job[Ui]
    BY <1>5, UiAssumption DEF Copy, SendFails, Finish, Begin, IInv, StateOK
  <2> QED
    BY <1>2, <2>1 DEF OwnAnswers
<1> QED
  BY <1>3, <1>4, <1>5 DEF Others, SendStep

LEMMA NextMeant ==
  IInv /\ ClaimInv /\ ModelOK /\ ReadInv /\ MeantInv /\ [UiNext]_vars => MeantInv'
<1> SUFFICES ASSUME IInv, ClaimInv, ModelOK, ReadInv, MeantInv, [UiNext]_vars
             PROVE  MeantInv'
  OBVIOUS
<1>1. CASE ReadFlag
  <2>1. model'.promptId = model.promptId
    BY <1>1 DEF ReadFlag, ModelOK
  <2> QED
    BY <1>1, <2>1, MeantKept DEF ReadFlag, flowVars, readVars, OwnAnswers, Claiming
<1>2. CASE UiRefused
  BY <1>2, MeantKept, FailedClaims DEF UiRefused, flowVars, readVars, OwnAnswers
<1>3. CASE TakeActions \/ ReadAgain \/ Draw \/ SkipDraw
  BY <1>3, MeantKept
  DEF TakeActions, ReadAgain, Draw, SkipDraw, flowVars, readVars, OwnAnswers, Claiming
<1>4. CASE (\E b \in Decisions : PressButton(b)) \/ UNCHANGED vars
  BY <1>4, MeantKept
  DEF PressButton, vars, flowVars, uiVars, readVars, OwnAnswers, Claiming
<1> QED
  BY <1>1, <1>2, <1>3, <1>4, ReadIdMeant, SendMeant, OthersMeant DEF UiNext, UiStep

-----------------------------------------------------------------------------
(* The types of the loop.                                                    *)

UiTypes ==
  /\ pending \subseteq Decisions /\ todo \subseteq Decisions
  /\ uiPc \in {"readFlag", "readId", "act", "decide", "sending", "draw"}
  /\ acted \in BOOLEAN
  /\ ModelOK
  /\ shown \in [hasPrompt : BOOLEAN, promptId : Ids]
  /\ sPromptId \in Ids
  /\ sDecision \in {"none", "approveSent", "denySent", "sendFailed"}

LEMMA NoPromptTyped == NoPrompt \in [hasPrompt : BOOLEAN, promptId : Ids]
  BY DEF NoPrompt, Ids

LEMMA DecisionAfterTyped ==
  ASSUME UiTypes, NEW d, NEW sent
  PROVE  DecisionAfter(d, sent) \in {"none", "approveSent", "denySent", "sendFailed"}
  BY DEF DecisionAfter, UiTypes

LEMMA NextUiTypes == IInv /\ UiTypes /\ [UiNext]_vars => UiTypes'
<1> SUFFICES ASSUME IInv, UiTypes, [UiNext]_vars
             PROVE  UiTypes'
  OBVIOUS
<1>1. CASE UNCHANGED uiVars
  BY <1>1 DEF uiVars, readVars, UiTypes, ModelOK
<1>2. CASE \E b \in Decisions : PressButton(b)
  BY <1>2 DEF PressButton, readVars, UiTypes, ModelOK
<1>3. CASE ReadFlag
  <2>1. model' \in [hasPrompt : BOOLEAN, promptId : Ids]
    BY <1>3 DEF ReadFlag, UiTypes, ModelOK, IInv, FlagsOK
  <2> QED
    BY <1>3, <2>1 DEF ReadFlag, readVars, UiTypes, ModelOK
<1>4. CASE ReadId
  <2>1. promptId \in Ids /\ EmptyId \in Ids
    BY DEF IInv, StateOK, Ids
  <2>2. model' \in [hasPrompt : BOOLEAN, promptId : Ids] /\ model'.promptId = promptId
    BY <1>4, <2>1 DEF ReadId, UiTypes, ModelOK
  <2>3. sPromptId' \in Ids /\ sDecision' \in {"none", sDecision}
    BY <1>4, <2>1, <2>2 DEF ReadId, UpdatePromptState
  <2> QED
    BY <1>4, <2>2, <2>3 DEF ReadId, UiTypes, ModelOK
<1>5. CASE TakeActions \/ ReadAgain \/ SkipDraw
  BY <1>5 DEF TakeActions, ReadAgain, SkipDraw, readVars, UiTypes, ModelOK
<1>6. CASE UiBegin
  BY <1>6 DEF UiBegin, readVars, UiTypes, ModelOK
<1>7. CASE UiRefused \/ UiSendFails \/ UiFinish
  BY <1>7, DecisionAfterTyped
  DEF UiRefused, UiSendFails, UiFinish, UiReturns, Rest, readVars, UiTypes, ModelOK
<1>8. CASE Draw
  <2>1. View(model) \in [hasPrompt : BOOLEAN, promptId : Ids]
    BY NoPromptTyped DEF View, UiTypes, ModelOK
  <2> QED
    BY <1>8, <2>1 DEF Draw, readVars, UiTypes, ModelOK
<1> QED
  BY <1>1, <1>2, <1>3, <1>4, <1>5, <1>6, <1>7, <1>8
  DEF UiNext, UiStep, UiCopy, UiSendCompletes, Others, vars

\* What the loop holds, and what holds of it in every behaviour.
LoopInv == UiTypes /\ ReadInv

LoopOK == IInv /\ ClaimInv /\ LoopInv /\ MeantInv

THEOREM LoopInvariant == UiSpec => []LoopOK
<1>1. UiInit => LoopOK
  <2> SUFFICES ASSUME UiInit
               PROVE  LoopOK
    OBVIOUS
  <2>1. IInv /\ ClaimInv
    BY InitIInv, InitClaim DEF UiInit
  <2>2. ReadInv
    BY DEF UiInit, Init, ReadInv, NoPrompt
  <2>3. EmptyId \in Ids
    BY DEF Ids
  <2>4. UiTypes
    BY <2>3, NoPromptTyped DEF UiInit, UiTypes, ModelOK
  <2>5. MeantInv
    BY UiAssumption DEF UiInit, Init, MeantInv, Copied, Claiming
  <2> QED
    BY <2>1, <2>2, <2>4, <2>5 DEF LoopOK, LoopInv
<1>2. LoopOK /\ [UiNext]_vars => LoopOK'
  <2> SUFFICES ASSUME LoopOK, [UiNext]_vars
               PROVE  LoopOK'
    OBVIOUS
  <2>1. IInv' /\ ClaimInv'
    BY NextClaim, UiStepIsFlowStep, NextIInv DEF LoopOK
  <2>2. ModelOK
    BY DEF LoopOK, LoopInv, UiTypes
  <2>3. UiTypes' /\ ReadInv' /\ MeantInv'
    BY <2>2, NextUiTypes, NextRead, NextMeant DEF LoopOK, LoopInv
  <2> QED
    BY <2>1, <2>3 DEF LoopOK, LoopInv
<1> QED
  BY <1>1, <1>2, PTL DEF UiSpec

\* A redraw claims no decision for a prompt that was sent for another one, for any
\* number of prompts, changes and threads, and also right after the press; but for
\* one sent while the prompt was away between two looks of the UI.
THEOREM DrawnClaimHolds == UiSpec => []DrawnClaimIsForPrompt
<1>1. LoopOK => DrawnClaimIsForPrompt
  <2> SUFFICES ASSUME LoopOK, uiPc = "draw", model.hasPrompt, Claiming
               PROVE  \/ answers[LastOwn].id = model.promptId
                      \/ firstRead < answers[LastOwn].begun /\ answers[LastOwn].begun < readIn
    BY DEF DrawnClaimIsForPrompt, Claiming
  <2>1. pc[Ui] # "sent" /\ sPromptId = model.promptId
    BY DEF LoopOK, ClaimInv, LoopInv, ReadInv, View
  <2>2. OwnAnswers # {} /\ \E d : LastIs(d)
    BY <2>1, LastOwnIsLast DEF LoopOK, ClaimInv, Claims, Claiming
  <2>3. IsLastOwn(LastOwn)
    BY <2>2 DEF LastIs, LastOwn, IsLastOwn
  <2> QED
    BY <2>1, <2>3 DEF LoopOK, MeantInv, ReadSince
<1> QED
  BY <1>1, LoopInvariant, PTL

\* The variables of the loop and of the protocol keep their types, and the loop
\* waits in the send exactly while its thread is there.
THEOREM UiTypeCorrect == UiSpec => []UiTypeOK
<1>1. LoopOK => UiTypeOK
  BY DEF LoopOK, IInv, FlagsOK, StateOK, TypeOK, ClaimInv, LoopInv, ReadInv, UiTypes,
         ModelOK, UiTypeOK
<1> QED
  BY <1>1, LoopInvariant, PTL

-----------------------------------------------------------------------------
(* The screen catches up.                                                    *)

\* What the loop has read of the prompt so far is the prompt of now.
Fresh ==
  /\ uiPc = "readId" => model.hasPrompt = hasPrompt
  /\ uiPc \in {"act", "decide", "sending", "draw"} => View(model) = PromptNow

CaughtUp == Fresh /\ shown = PromptNow

PromptStays == UNCHANGED <<hasPrompt, promptId>>

\* While the prompt stays, the loop keeps to it.
LEMMA FreshStays == LoopOK /\ Fresh /\ PromptStays /\ [UiNext]_vars => Fresh'
<1> SUFFICES ASSUME LoopOK, Fresh, PromptStays, [UiNext]_vars
             PROVE  Fresh'
  OBVIOUS
<1>1. PromptNow' = PromptNow
  BY DEF PromptStays, PromptNow
<1>2. model \in [hasPrompt : BOOLEAN, promptId : Ids]
  BY DEF LoopOK, LoopInv, ReadInv, UiTypes, ModelOK
<1>3. CASE ReadFlag
  <2>1. model' = [model EXCEPT !.hasPrompt = hasPrompt] /\ uiPc' = "readId"
        /\ hasPrompt' = hasPrompt
    BY <1>3 DEF ReadFlag, PromptStays
  <2>2. model'.hasPrompt = hasPrompt
    BY <1>2, <2>1
  <2> QED
    BY <2>1, <2>2 DEF Fresh
<1>4. CASE ReadId
  <2>1. model' = [model EXCEPT !.promptId = promptId] /\ uiPc' \in {"draw", "act"}
        /\ model.hasPrompt = hasPrompt
    BY <1>4 DEF ReadId, Fresh
  <2>2. model' = [hasPrompt |-> hasPrompt, promptId |-> promptId]
    BY <1>2, <2>1
  <2>3. hasPrompt \in BOOLEAN
    BY DEF LoopOK, IInv, FlagsOK
  <2>4. View(model') = PromptNow
    BY <2>2, <2>3 DEF View, PromptNow
  <2> QED
    BY <1>1, <2>1, <2>4 DEF Fresh, View
<1>5. CASE /\ UNCHANGED model /\ uiPc' # "readId"
           /\ uiPc' = "readFlag" \/ uiPc \in {"act", "decide", "sending", "draw"}
  BY <1>1, <1>5 DEF Fresh, View
<1>6. CASE UNCHANGED <<model, uiPc>>
  BY <1>1, <1>6 DEF Fresh, View, PromptStays
<1> QED
  BY <1>3, <1>4, <1>5, <1>6
  DEF UiNext, UiStep, TakeActions, UiBegin, UiRefused, UiCopy, UiSendCompletes, UiSendFails,
      UiFinish, UiReturns, ReadAgain, Draw, SkipDraw, Others, PressButton, vars, uiVars

\* Only a redraw changes the screen.
LEMMA OnlyDrawShows == [UiNext]_vars => Draw \/ UNCHANGED shown
  BY DEF UiNext, UiStep, ReadFlag, ReadId, TakeActions, UiBegin, UiRefused,
         UiCopy, UiSendCompletes, UiSendFails, UiFinish, UiReturns, ReadAgain, SkipDraw,
         Others, PressButton, vars, uiVars

\* While the prompt stays, a redraw leaves the loop with nothing read, and what the
\* one after it shows is the prompt.
LEMMA DrawCatchesUp ==
  /\ Draw => Fresh'
  /\ LoopOK /\ Fresh /\ PromptStays /\ Draw => CaughtUp'
  /\ LoopOK /\ CaughtUp /\ PromptStays /\ [UiNext]_vars => CaughtUp'
<1>1. PromptStays => PromptNow' = PromptNow
  BY DEF PromptStays, PromptNow
<1>2. Draw => Fresh'
  BY DEF Draw, Fresh
<1>3. LoopOK /\ Fresh /\ PromptStays /\ Draw => CaughtUp'
  BY <1>1, <1>2 DEF Fresh, Draw, CaughtUp
<1>4. LoopOK /\ CaughtUp /\ PromptStays /\ [UiNext]_vars => CaughtUp'
  BY <1>1, <1>3, FreshStays, OnlyDrawShows DEF CaughtUp
<1> QED
  BY <1>2, <1>3, <1>4

\* Two redraws after the prompt has stopped changing, the screen shows it for good,
\* or shows that there is none: whatever was half read, under way or throttled.
THEOREM RedrawsCatchUp == UiSpec /\ []<><<Draw>>_vars => ScreenCatchesUp
<1>1. <<Draw>>_vars => Fresh'
  BY DrawCatchesUp
<1>2. LoopOK /\ Fresh /\ [FALSE]_<<hasPrompt, promptId>> /\ [UiNext]_vars => Fresh'
  BY FreshStays DEF PromptStays
<1>3. LoopOK /\ Fresh /\ [FALSE]_<<hasPrompt, promptId>> /\ <<Draw>>_vars => CaughtUp'
  BY DrawCatchesUp DEF PromptStays
<1>4. LoopOK /\ CaughtUp /\ [FALSE]_<<hasPrompt, promptId>> /\ [UiNext]_vars => CaughtUp'
  BY DrawCatchesUp DEF PromptStays
<1>5. CaughtUp => shown = PromptNow
  BY DEF CaughtUp
<1> QED
  BY <1>1, <1>2, <1>3, <1>4, <1>5, LoopInvariant, PTL DEF UiSpec, ScreenCatchesUp

-----------------------------------------------------------------------------
(* The loop comes around.                                                    *)

\* How many steps of the loop are left, at most, until the redraw is due.  After a
\* button has been taken the loop reads the model once more and does not take
\* buttons again; of those taken each costs four steps.
Taken == (IF "once" \in todo THEN 1 ELSE 0) + (IF "deny" \in todo THEN 1 ELSE 0)

StepsLeft ==
  IF uiPc = "draw" THEN 0
  ELSE IF uiPc = "readId" THEN (IF acted THEN 1 ELSE 13)
  ELSE IF uiPc = "readFlag" THEN (IF acted THEN 2 ELSE 14)
  ELSE IF uiPc = "act" THEN 12
  ELSE IF uiPc = "decide" THEN 4 * Taken + 3
  ELSE IF pc[Ui] = "checked" THEN 4 * Taken + 2
  ELSE IF pc[Ui] = "sending" THEN 4 * Taken + 1
  ELSE 4 * Taken

Within(n) == StepsLeft <= n

\* A button is dealt with: one less is left.
LEMMA TakenFalls ==
  ASSUME UiTypes, todo # {}, todo' = Rest
  PROVE  Taken' = Taken - 1 /\ Taken \in 1 .. 2
<1>1. todo = {"once"} \/ todo = {"deny"} \/ todo = {"once", "deny"}
  BY DEF UiTypes, Decisions
<1>2. /\ todo = {"once"} => Rest = {}
      /\ todo = {"deny"} => Rest = {}
      /\ todo = {"once", "deny"} => Rest = {"deny"}
  BY DEF Rest, NextDecision
<1> QED
  BY <1>1, <1>2 DEF Taken

LEMMA StepsFall ==
  ASSUME LoopOK, uiPc # "draw", UiStep
  PROVE  StepsLeft \in 1 .. 14 /\ StepsLeft' \in 0 .. StepsLeft - 1
<1>1. Taken \in 0 .. 2 /\ Taken' \in 0 .. 2
  BY DEF Taken
<1>2. CASE ReadFlag \/ ReadId
  BY <1>2 DEF ReadFlag, ReadId, StepsLeft, LoopOK, LoopInv, ReadInv, UiTypes, ModelOK
<1>3. CASE TakeActions
  <2>1. uiPc = "act" /\ uiPc' \in {"draw", "decide"}
    BY <1>3 DEF TakeActions
  <2>2. StepsLeft = 12 /\ StepsLeft' \in {0, 4 * Taken' + 3}
    BY <2>1 DEF StepsLeft
  <2>3. \A k \in 0 .. 2 : 4 * k + 3 \in 0 .. 11
    OBVIOUS
  <2>4. 4 * Taken' + 3 \in 0 .. 11
    BY <1>1, <2>3
  <2> QED
    BY <2>2, <2>4
<1>4. CASE UiBegin
  <2>1. /\ uiPc = "decide" /\ uiPc' = "sending" /\ Taken' = Taken
        /\ pc' = [pc EXCEPT ![Ui] = "checked"]
    BY <1>4 DEF UiBegin, Begin, Taken
  <2>2. pc'[Ui] = "checked"
    BY <2>1, UiAssumption DEF LoopOK, IInv, StateOK
  <2> QED
    BY <1>1, <2>1, <2>2 DEF StepsLeft
<1>5. CASE UiRefused
  <2>1. uiPc = "decide" /\ uiPc' = "decide" /\ todo # {} /\ todo' = Rest
    BY <1>5 DEF UiRefused
  <2>2. Taken' = Taken - 1 /\ Taken \in 1 .. 2
    BY <2>1, TakenFalls DEF LoopOK, LoopInv, ReadInv
  <2> QED
    BY <2>1, <2>2 DEF StepsLeft
<1>6. CASE UiSendCompletes
  <2>1. /\ pc[Ui] = "sending" /\ uiPc' = uiPc /\ Taken' = Taken
        /\ pc' = [pc EXCEPT ![Ui] = "sent"]
    BY <1>6 DEF UiSendCompletes, SendCompletes, uiVars, Taken
  <2>2. pc'[Ui] = "sent" /\ uiPc = "sending"
    BY <2>1, UiAssumption DEF LoopOK, IInv, StateOK, ClaimInv
  <2> QED
    BY <1>1, <2>1, <2>2 DEF StepsLeft
<1>7. CASE UiSendFails \/ UiFinish
  <2>1. uiPc = "sending" /\ uiPc' = "decide" /\ todo' = Rest
    BY <1>7 DEF UiSendFails, UiFinish, UiReturns
  <2>2. Taken' = Taken - 1 /\ Taken \in 1 .. 2
    BY <2>1, TakenFalls DEF LoopOK, LoopInv, ReadInv
  <2> QED
    BY <2>1, <2>2 DEF StepsLeft
<1>8. CASE ReadAgain
  <2>1. uiPc = "decide" /\ uiPc' = "readFlag" /\ acted /\ acted' = acted /\ Taken = 0
    BY <1>8 DEF ReadAgain, LoopOK, LoopInv, ReadInv, Taken
  <2> QED
    BY <2>1 DEF StepsLeft
<1>9. CASE UiCopy
  <2>1. /\ pc[Ui] = "checked" /\ uiPc' = uiPc /\ Taken' = Taken
        /\ pc' = [pc EXCEPT ![Ui] = "sending"]
    BY <1>9 DEF UiCopy, Copy, uiVars, Taken
  <2>2. pc'[Ui] = "sending" /\ uiPc = "sending"
    BY <2>1, UiAssumption DEF LoopOK, IInv, StateOK, ClaimInv
  <2> QED
    BY <1>1, <2>1, <2>2 DEF StepsLeft
<1> QED
  BY <1>2, <1>3, <1>4, <1>5, <1>6, <1>7, <1>8, <1>9 DEF UiStep, Draw, SkipDraw

\* The host, the other threads and the buttons do not set the loop back.
LEMMA OthersKeepSteps ==
  ASSUME LoopOK, [UiNext]_vars, ~UiStep
  PROVE  StepsLeft' = StepsLeft /\ uiPc' = uiPc
<1>1. UNCHANGED <<uiPc, todo, acted>> /\ pc'[Ui] = pc[Ui]
  <2>1. CASE \E b \in Decisions : PressButton(b)
    BY <2>1 DEF PressButton, flowVars
  <2>2. CASE UNCHANGED vars
    BY <2>2 DEF vars, flowVars, uiVars
  <2>3. CASE HostStep /\ Others
    BY <2>3, HostStepShape DEF Others, LoopOK, uiVars
  <2>4. ASSUME NEW t \in Threads \ {Ui}, SendStep(t) \/ \E d \in Decisions : Begin(t, d),
               UNCHANGED uiVars
        PROVE  UNCHANGED <<uiPc, todo, acted>> /\ pc'[Ui] = pc[Ui]
    BY <2>4, UiAssumption
    DEF SendStep, Copy, SendCompletes, SendFails, Finish, Begin, LoopOK, IInv, StateOK, uiVars
  <2>5. CASE Others
    <3>1. UNCHANGED uiVars
      BY <2>5 DEF Others
    <3>2. CASE HostStep
      BY <2>3, <2>5, <3>2
    <3>3. CASE \E t \in Threads \ {Ui} : SendStep(t) \/ \E d \in Decisions : Begin(t, d)
      <4>1. PICK t \in Threads \ {Ui} : SendStep(t) \/ \E d \in Decisions : Begin(t, d)
        BY <3>3
      <4>2. UNCHANGED <<uiPc, todo, acted>> /\ pc'[Ui] = pc[Ui]
        BY <2>4, <3>1, <4>1
      <4> QED
        BY <4>2
    <3> QED
      BY <2>5, <3>2, <3>3 DEF Others
  <2> QED
    BY <2>1, <2>2, <2>5 DEF UiNext
<1>2. Taken' = Taken
  BY <1>1 DEF Taken
<1> QED
  BY <1>1, <1>2 DEF StepsLeft

\* No step takes the loop further away from the redraw, and its own take it closer.
LEMMA LoopComesCloser ==
  ASSUME NEW n \in 0 .. 13
  PROVE  /\ LoopOK /\ Within(n + 1) /\ [UiNext]_vars => Within(n + 1)' \/ uiPc = "draw"
         /\ LoopOK /\ Within(n + 1) /\ <<UiStep>>_vars => Within(n)' \/ uiPc = "draw"
<1>1. ASSUME LoopOK, uiPc # "draw", UiStep, Within(n + 1)
      PROVE  Within(n)' /\ Within(n + 1)'
  <2>1. StepsLeft \in 1 .. 14 /\ StepsLeft' \in 0 .. StepsLeft - 1 /\ StepsLeft <= n + 1
    BY <1>1, StepsFall DEF Within
  <2>2. \A a \in 1 .. 14 : \A b \in 0 .. a - 1 : a <= n + 1 => b <= n /\ b <= n + 1
    OBVIOUS
  <2> QED
    BY <2>1, <2>2 DEF Within
<1>2. ASSUME LoopOK, [UiNext]_vars, ~UiStep, Within(n + 1)
      PROVE  Within(n + 1)'
  BY <1>2, OthersKeepSteps DEF Within
<1> QED
  BY <1>1, <1>2

\* The loop comes to its redraw again and again, as long as it runs.
THEOREM LoopComesAround == UiSpec /\ []<><<UiStep>>_vars => []<>(uiPc = "draw")
<1>1. UiSpec /\ []<><<UiStep>>_vars => [](Within(14) => <>(Within(11) \/ uiPc = "draw"))
  <2>1. /\ LoopOK /\ Within(14) /\ [UiNext]_vars => Within(14)' \/ uiPc = "draw"
        /\ LoopOK /\ Within(14) /\ <<UiStep>>_vars => Within(13)' \/ uiPc = "draw"
    BY LoopComesCloser
  <2>2. /\ LoopOK /\ Within(13) /\ [UiNext]_vars => Within(13)' \/ uiPc = "draw"
        /\ LoopOK /\ Within(13) /\ <<UiStep>>_vars => Within(12)' \/ uiPc = "draw"
    BY LoopComesCloser
  <2>3. /\ LoopOK /\ Within(12) /\ [UiNext]_vars => Within(12)' \/ uiPc = "draw"
        /\ LoopOK /\ Within(12) /\ <<UiStep>>_vars => Within(11)' \/ uiPc = "draw"
    BY LoopComesCloser
  <2> QED
    BY <2>1, <2>2, <2>3, LoopInvariant, PTL DEF UiSpec
<1>2. UiSpec /\ []<><<UiStep>>_vars => [](Within(11) => <>(Within(8) \/ uiPc = "draw"))
  <2>1. /\ LoopOK /\ Within(11) /\ [UiNext]_vars => Within(11)' \/ uiPc = "draw"
        /\ LoopOK /\ Within(11) /\ <<UiStep>>_vars => Within(10)' \/ uiPc = "draw"
    BY LoopComesCloser
  <2>2. /\ LoopOK /\ Within(10) /\ [UiNext]_vars => Within(10)' \/ uiPc = "draw"
        /\ LoopOK /\ Within(10) /\ <<UiStep>>_vars => Within(9)' \/ uiPc = "draw"
    BY LoopComesCloser
  <2>3. /\ LoopOK /\ Within(9) /\ [UiNext]_vars => Within(9)' \/ uiPc = "draw"
        /\ LoopOK /\ Within(9) /\ <<UiStep>>_vars => Within(8)' \/ uiPc = "draw"
    BY LoopComesCloser
  <2> QED
    BY <2>1, <2>2, <2>3, LoopInvariant, PTL DEF UiSpec
<1>3. UiSpec /\ []<><<UiStep>>_vars => [](Within(8) => <>(Within(5) \/ uiPc = "draw"))
  <2>1. /\ LoopOK /\ Within(8) /\ [UiNext]_vars => Within(8)' \/ uiPc = "draw"
        /\ LoopOK /\ Within(8) /\ <<UiStep>>_vars => Within(7)' \/ uiPc = "draw"
    BY LoopComesCloser
  <2>2. /\ LoopOK /\ Within(7) /\ [UiNext]_vars => Within(7)' \/ uiPc = "draw"
        /\ LoopOK /\ Within(7) /\ <<UiStep>>_vars => Within(6)' \/ uiPc = "draw"
    BY LoopComesCloser
  <2>3. /\ LoopOK /\ Within(6) /\ [UiNext]_vars => Within(6)' \/ uiPc = "draw"
        /\ LoopOK /\ Within(6) /\ <<UiStep>>_vars => Within(5)' \/ uiPc = "draw"
    BY LoopComesCloser
  <2> QED
    BY <2>1, <2>2, <2>3, LoopInvariant, PTL DEF UiSpec
<1>4. UiSpec /\ []<><<UiStep>>_vars => [](Within(5) => <>(Within(2) \/ uiPc = "draw"))
  <2>1. /\ LoopOK /\ Within(5) /\ [UiNext]_vars => Within(5)' \/ uiPc = "draw"
        /\ LoopOK /\ Within(5) /\ <<UiStep>>_vars => Within(4)' \/ uiPc = "draw"
    BY LoopComesCloser
  <2>2. /\ LoopOK /\ Within(4) /\ [UiNext]_vars => Within(4)' \/ uiPc = "draw"
        /\ LoopOK /\ Within(4) /\ <<UiStep>>_vars => Within(3)' \/ uiPc = "draw"
    BY LoopComesCloser
  <2>3. /\ LoopOK /\ Within(3) /\ [UiNext]_vars => Within(3)' \/ uiPc = "draw"
        /\ LoopOK /\ Within(3) /\ <<UiStep>>_vars => Within(2)' \/ uiPc = "draw"
    BY LoopComesCloser
  <2> QED
    BY <2>1, <2>2, <2>3, LoopInvariant, PTL DEF UiSpec
<1>5. UiSpec /\ []<><<UiStep>>_vars => [](Within(2) => <>(Within(0) \/ uiPc = "draw"))
  <2>1. /\ LoopOK /\ Within(2) /\ [UiNext]_vars => Within(2)' \/ uiPc = "draw"
        /\ LoopOK /\ Within(2) /\ <<UiStep>>_vars => Within(1)' \/ uiPc = "draw"
    BY LoopComesCloser
  <2>2. /\ LoopOK /\ Within(1) /\ [UiNext]_vars => Within(1)' \/ uiPc = "draw"
        /\ LoopOK /\ Within(1) /\ <<UiStep>>_vars => Within(0)' \/ uiPc = "draw"
    BY LoopComesCloser
  <2> QED
    BY <2>1, <2>2, LoopInvariant, PTL DEF UiSpec
<1>6. LoopOK => Within(14)
  BY DEF LoopOK, LoopInv, ReadInv, Within, StepsLeft, Taken
<1>7. LoopOK /\ Within(0) => uiPc = "draw"
  <2>1. LoopOK => /\ Taken \in 0 .. 2
                  /\ uiPc = "sending" => Taken \in 1 .. 2
    <3>1. LoopOK /\ uiPc = "sending" => "once" \in todo \/ "deny" \in todo
      BY DEF LoopOK, LoopInv, ReadInv, UiTypes, Decisions
    <3> QED
      BY <3>1 DEF Taken
  <2>2. LoopOK => uiPc \in {"readFlag", "readId", "act", "decide", "sending", "draw"}
    BY DEF LoopOK, LoopInv, UiTypes
  <2> QED
    BY <2>1, <2>2 DEF Within, StepsLeft
<1> QED
  BY <1>1, <1>2, <1>3, <1>4, <1>5, <1>6, <1>7, LoopInvariant, PTL

\* The screen catches up (buddy_ui_refresh): under the fairness of the main loop the
\* prompt of the moment, once it stays, is shown for good.  ENABLED is beyond the
\* provers, so two facts that the guards of the steps show are hypotheses: the loop
\* always has a step to take, and a redraw that is due can be made.
THEOREM ScreenCatchesUpHolds ==
     /\ FairUiSpec
     /\ [](ENABLED <<UiStep>>_vars)
     /\ [](uiPc = "draw" => ENABLED <<Draw>>_vars)
  => ScreenCatchesUp
BY LoopComesAround, RedrawsCatchUp, PTL DEF FairUiSpec, Fairness
=============================================================================
