-------------------------- MODULE PermissionFlow ---------------------------
(***************************************************************************)
(* Permission prompts and the decisions sent for them                       *)
(* (src/app/src/core/BuddyProtocol.cpp).  The BLE host thread applies        *)
(* snapshots of the desktop, which set, keep, replace or remove the prompt.  *)
(* Any number of other threads (the UI loop, the shell command buddy_perm)   *)
(* send decisions for it.  Nothing locks the protocol object, and the BLE    *)
(* send sleeps between its notifications, so a decision takes four steps:    *)
(* check, copy the id into the line, send, remember that it was sent.        *)
(*                                                                           *)
(* handle_snapshot never sleeps between its accesses to the prompt, and the  *)
(* host thread is the one that serves the radio, so it is one step here.     *)
(***************************************************************************)
EXTENDS Naturals, Sequences

CONSTANTS Prompts,        \* the prompt ids of the desktop
          EmptyId,        \* the empty id: an id field that is "", or no prompt
          Threads,        \* the threads that call send_permission_*
          StatLimit,      \* the largest count the statistics hold (65535)
          MaxChanges      \* bound: changes of the prompt in a behaviour

ASSUME FlowAssumption ==
  /\ EmptyId \notin Prompts
  /\ StatLimit \in Nat
  /\ MaxChanges \in Nat

Decisions == {"once", "deny"}
Ids == Prompts \cup {EmptyId}

VARIABLES hasPrompt,      \* snapshot_.has_prompt
          promptId,       \* snapshot_.prompt_id
          permissionSent, \* permission_sent_
          approvals,      \* pet_stats_.approvals
          denials,        \* pet_stats_.denials
          pc,             \* where each thread is in emit_permission
          job,            \* the decision each thread is sending
          epoch,          \* history: how often the prompt id has changed
          rememberedIn,   \* history: the epoch permission_sent_ was last set in
          answers         \* history: the decisions that went out, in order

promptVars == <<hasPrompt, promptId>>
flowVars == <<hasPrompt, promptId, permissionSent, approvals, denials, pc, job,
              epoch, rememberedIn, answers>>

Job == [id : Ids, decision : Decisions, epoch : Nat]
Answer == [thread : Threads, id : Ids, decision : Decisions, begun : Nat]

NoJob == [id |-> EmptyId, decision |-> "deny", epoch |-> 0]

Init ==
  /\ hasPrompt = FALSE
  /\ promptId = EmptyId
  /\ permissionSent = FALSE
  /\ approvals = 0
  /\ denials = 0
  /\ pc = [t \in Threads |-> "idle"]
  /\ job = [t \in Threads |-> NoJob]
  /\ epoch = 0
  /\ rememberedIn = 0
  /\ answers = << >>

-----------------------------------------------------------------------------
(* The host thread.  As in JsonLineAssembler, a definition marked FAULT is   *)
(* a plausible bug of the one that follows it, not a part of the model.      *)

\* The id changes to the given one: a new epoch begins.
Enter(id) ==
  /\ promptId' = id
  /\ epoch' = IF id # promptId THEN epoch + 1 ELSE epoch

\* FAULT: the prompt is cleared, what was decided about it is not.
ClearPromptKeepingDecision ==
  /\ hasPrompt' = FALSE
  /\ Enter(EmptyId)
  /\ UNCHANGED permissionSent

ClearPrompt ==
  /\ hasPrompt' = FALSE
  /\ Enter(EmptyId)
  /\ permissionSent' = FALSE

\* FAULT: every snapshot that shows the prompt makes it answerable again.
ShowPromptAnew(id) ==
  /\ hasPrompt' = TRUE
  /\ Enter(id)
  /\ permissionSent' = FALSE

\* A snapshot with a prompt: the decision is forgotten when the id is new.
ShowPrompt(id) ==
  /\ hasPrompt' = TRUE
  /\ Enter(id)
  /\ permissionSent' = IF id # promptId THEN FALSE ELSE permissionSent

SnapshotPrompt(id) ==
  /\ epoch < MaxChanges \/ id = promptId
  /\ ShowPrompt(id)
  /\ UNCHANGED <<approvals, denials, pc, job, rememberedIn, answers>>

\* A snapshot without a prompt object, or with one that has no id.
SnapshotNoPrompt ==
  /\ epoch < MaxChanges \/ promptId = EmptyId
  /\ ClearPrompt
  /\ UNCHANGED <<approvals, denials, pc, job, rememberedIn, answers>>

\* The factory_reset command, when the platform could clear its storage: the
\* snapshot and the statistics start again.
FactoryReset ==
  /\ epoch < MaxChanges
  /\ ClearPrompt
  /\ approvals' = 0
  /\ denials' = 0
  /\ UNCHANGED <<pc, job, rememberedIn, answers>>

-----------------------------------------------------------------------------
(* A thread in emit_permission.                                             *)

CanDecide == hasPrompt /\ promptId # EmptyId /\ ~permissionSent

\* The check.
Begin(t, decision) ==
  /\ pc[t] = "idle"
  /\ CanDecide
  /\ pc' = [pc EXCEPT ![t] = "checked"]
  /\ job' = [job EXCEPT ![t].decision = decision]
  /\ UNCHANGED <<hasPrompt, promptId, permissionSent, approvals, denials,
                 epoch, rememberedIn, answers>>

\* The JSON text takes the id of this moment: of a later prompt than the check
\* has seen, or none, when the host thread has run in between.
Copy(t) ==
  /\ pc[t] = "checked"
  /\ pc' = [pc EXCEPT ![t] = "sending"]
  /\ job' = [job EXCEPT ![t].id = promptId, ![t].epoch = epoch]
  /\ UNCHANGED <<hasPrompt, promptId, permissionSent, approvals, denials,
                 epoch, rememberedIn, answers>>

\* The transport took the whole line; its last act is to sleep.
SendCompletes(t) ==
  /\ pc[t] = "sending"
  /\ pc' = [pc EXCEPT ![t] = "sent"]
  /\ answers' = Append(answers, [thread |-> t, id |-> job[t].id,
                                 decision |-> job[t].decision,
                                 begun |-> job[t].epoch])
  /\ UNCHANGED <<hasPrompt, promptId, permissionSent, approvals, denials, job,
                 epoch, rememberedIn>>

\* The transport took nothing or a part of the line: no link, notifications
\* off, or a notification refused twenty times.
SendFails(t) ==
  /\ pc[t] = "sending"
  /\ pc' = [pc EXCEPT ![t] = "idle"]
  /\ job' = [job EXCEPT ![t] = NoJob]
  /\ UNCHANGED <<hasPrompt, promptId, permissionSent, approvals, denials,
                 epoch, rememberedIn, answers>>

\* The counters are 16 bits wide and stop at their largest value.
Counted(n) == IF n < StatLimit THEN n + 1 ELSE n

RecordApproval == approvals' = Counted(approvals) /\ UNCHANGED denials
RecordDenial == denials' = Counted(denials) /\ UNCHANGED approvals

\* FAULT: a sent denial is not remembered.
RememberOnlyApproval(t) ==
  permissionSent' = (permissionSent \/ job[t].decision = "once")

Remember(t) == permissionSent' = TRUE

\* Back in emit_permission and its caller.
Finish(t) ==
  /\ pc[t] = "sent"
  /\ pc' = [pc EXCEPT ![t] = "idle"]
  /\ job' = [job EXCEPT ![t] = NoJob]
  /\ Remember(t)
  /\ IF job[t].decision = "once" THEN RecordApproval ELSE RecordDenial
  /\ rememberedIn' = epoch
  /\ UNCHANGED <<hasPrompt, promptId, epoch, answers>>

HostStep ==
  \/ \E id \in Ids : SnapshotPrompt(id)
  \/ SnapshotNoPrompt
  \/ FactoryReset

SendStep(t) == Copy(t) \/ SendCompletes(t) \/ SendFails(t) \/ Finish(t)

Next ==
  \/ HostStep
  \/ \E t \in Threads : SendStep(t) \/ \E d \in Decisions : Begin(t, d)

Spec == Init /\ [][Next]_flowVars

-----------------------------------------------------------------------------
(* Properties                                                               *)

TypeOK ==
  /\ hasPrompt \in BOOLEAN
  /\ promptId \in Ids
  /\ permissionSent \in BOOLEAN
  /\ approvals \in 0 .. StatLimit /\ denials \in 0 .. StatLimit
  /\ pc \in [Threads -> {"idle", "checked", "sending", "sent"}]
  /\ job \in [Threads -> Job]
  /\ epoch \in Nat /\ rememberedIn \in Nat
  /\ answers \in Seq(Answer)

\* However snapshots, resets and the threads interleave, no thread sends two
\* decisions for one prompt: between a snapshot that brings a prompt and the
\* one that replaces it, emit_permission succeeds once per thread at most.
OncePerThread ==
  \A i, j \in DOMAIN answers :
     i # j => \/ answers[i].thread # answers[j].thread
              \/ answers[i].begun # answers[j].begun

\* The reason: from the moment a thread has returned from sending a decision
\* for the prompt of now, the flag that blocks the next one is up.  (A decision
\* that took the empty id, since the prompt had gone after its check, blocks
\* until the next snapshot without a prompt; but then there is none to decide.)
AnsweredBlocks ==
  promptId # EmptyId => \A i \in DOMAIN answers :
     /\ answers[i].begun = epoch
     /\ pc[answers[i].thread] # "sent"
     => permissionSent

\* The flag that blocks decisions is never older than the prompt: it was
\* raised while this prompt, and no earlier one, was there.
FlagIsFresh == permissionSent => rememberedIn = epoch

\* docs/protocol.md: "When the prompt is removed or replaced, any pending
\* local decision state is cleared."  So a prompt whose decisions are blocked
\* is one that a decision was begun for.  The code does not keep this: the flag
\* is written after the send, and may hit the next prompt.
FlagMeansAnswered ==
  permissionSent => \E i \in DOMAIN answers : answers[i].begun = epoch
=============================================================================
