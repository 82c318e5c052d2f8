------------------------------- MODULE NusTx -------------------------------
(***************************************************************************)
(* Sending a line over the Nordic UART service                               *)
(* (src/app/src/transport/ble_nus_sifli.c).  buddy_ble_nus_send cuts the     *)
(* line into notifications, offers each to the stack again and again, and    *)
(* sleeps after each.  The BLE host thread answers commands with it and, when *)
(* it is not sending, runs the handlers of the link's events; other threads  *)
(* send the decisions of the user.  g_nus has no lock.                       *)
(***************************************************************************)
EXTENDS Integers, Sequences

CONSTANTS Host,           \* the BLE host thread
          Threads,        \* all threads that send
          MaxLine,        \* the longest line, in bytes with its newline
          Mtus,           \* what an MTU exchange may settle on
          DefaultMtu,     \* BUDDY_NUS_DEFAULT_MTU
          MaxNotify,      \* BUDDY_NUS_MAX_NOTIFY_CHUNK
          Retries,        \* how often a notification is offered
          MaxLines,       \* bound: lines sent
          MaxConnections  \* bound: connections

ASSUME TxAssumption ==
  /\ Host \in Threads
  /\ MaxLine \in Nat \ {0}
  /\ Mtus \subseteq Nat /\ DefaultMtu \in Mtus
  /\ MaxNotify \in Nat \ {0} /\ Retries \in Nat \ {0}
  /\ MaxLines \in Nat /\ MaxConnections \in Nat

VARIABLES connected, notify, mtu, \* of g_nus
          pc,             \* "idle" or "sending", for each thread
          job,            \* the locals of buddy_ble_nus_send, for each thread
          result,         \* what it returned last
          stream,         \* the bytes this connection has been given
          connection,     \* history: the number of the connection
          lines,          \* history: the number of lines begun
          disturbed       \* history: why a line of this connection may break

linkVars == <<connected, notify, mtu>>
txVars == <<linkVars, pc, job, result, stream, connection, lines, disturbed>>

\* A byte of a line: which line, and which byte of how many.
Byte == [line : 1 .. MaxLines, at : 1 .. MaxLine, of : 1 .. MaxLine]

\* on: the connection a line was begun on.
Job == [line : 0 .. MaxLines, len : 0 .. MaxLine, sent : 0 .. MaxLine,
        payload : 0 .. MaxNotify, retries : 0 .. Retries,
        on : 0 .. MaxConnections]
NoJob == [line |-> 0, len |-> 0, sent |-> 0, payload |-> 0, retries |-> 0,
          on |-> 0]

TxInit ==
  /\ connected = FALSE /\ notify = FALSE /\ mtu = DefaultMtu
  /\ pc = [t \in Threads |-> "idle"]
  /\ job = [t \in Threads |-> NoJob]
  /\ result = [t \in Threads |-> 0]
  /\ stream = << >>
  /\ connection = 0 /\ lines = 0
  /\ disturbed = {}

-----------------------------------------------------------------------------
(* The events of the link, handled on the host thread.                      *)

HostFree == pc[Host] = "idle"

Sending(t) == pc[t] = "sending"

Connect ==
  /\ HostFree /\ ~connected /\ connection < MaxConnections
  /\ connected' = TRUE /\ notify' = FALSE /\ mtu' = DefaultMtu
  /\ connection' = connection + 1
  /\ stream' = << >>
  /\ disturbed' = {}
  /\ UNCHANGED <<pc, job, result, lines>>

Disconnect ==
  /\ HostFree /\ connected
  /\ connected' = FALSE /\ notify' = FALSE /\ mtu' = DefaultMtu
  /\ UNCHANGED <<pc, job, result, stream, connection, lines, disturbed>>

\* The desktop writes the CCCD.
WriteCccd(on) ==
  /\ HostFree /\ connected
  /\ notify' = on
  /\ UNCHANGED <<connected, mtu, pc, job, result, stream, connection, lines,
                 disturbed>>

MtuExchange(m) ==
  /\ HostFree /\ connected
  /\ mtu' = m
  /\ UNCHANGED <<connected, notify, pc, job, result, stream, connection,
                 lines, disturbed>>

-----------------------------------------------------------------------------
(* buddy_ble_nus_send.                                                      *)

Least(a, b) == IF a < b THEN a ELSE b

Payload == Least(IF mtu <= 3 THEN 20 ELSE mtu - 3, MaxNotify)

SendBlocked(t) ==
  /\ pc[t] = "idle"
  /\ ~(connected /\ notify)
  /\ result' = [result EXCEPT ![t] = -1]
  /\ UNCHANGED <<linkVars, pc, job, stream, connection, lines, disturbed>>

SendBegins(t, len) ==
  /\ pc[t] = "idle"
  /\ connected /\ notify
  /\ lines < MaxLines
  /\ lines' = lines + 1
  /\ pc' = [pc EXCEPT ![t] = "sending"]
  /\ job' = [job EXCEPT ![t] = [line |-> lines', len |-> len, sent |-> 0,
                                payload |-> Payload, retries |-> Retries,
                                on |-> connection]]
  /\ UNCHANGED <<linkVars, result, stream, connection, disturbed>>

Chunk(t) == Least(job[t].len - job[t].sent, job[t].payload)

\* The next n bytes of the line.
Piece(t, n) == [i \in 1 .. n |-> [line |-> job[t].line, at |-> job[t].sent + i,
                                  of |-> job[t].len]]

\* History: what can break a line of this connection, noted when it happens: a
\* notification between those of another line, or of an earlier connection's
\* line.
Overlapping(t) ==
  \E u \in Threads \ {t} : Sending(u) /\ job[u].sent \in 1 .. job[u].len - 1

NoteChunk(t) ==
  disturbed' = disturbed
     \cup (IF Overlapping(t) THEN {"overlap"} ELSE {})
     \cup (IF job[t].on # connection THEN {"reconnect"} ELSE {})

\* FAULT: the offset does not move past a notification of full size.
AcceptsAgain(t) ==
  /\ Sending(t) /\ job[t].sent < job[t].len
  /\ connected
  /\ stream' = stream \o Piece(t, Chunk(t))
  /\ job' = [job EXCEPT ![t].sent = IF Chunk(t) < job[t].payload
                                   THEN @ + Chunk(t) ELSE @ + Chunk(t) - 1,
                        ![t].retries = Retries]
  /\ NoteChunk(t)
  /\ UNCHANGED <<linkVars, pc, result, connection, lines>>

\* The stack takes the notification, for the connection of now.
Accepts(t) ==
  /\ Sending(t) /\ job[t].sent < job[t].len
  /\ connected
  /\ stream' = stream \o Piece(t, Chunk(t))
  /\ job' = [job EXCEPT ![t].sent = @ + Chunk(t), ![t].retries = Retries]
  /\ NoteChunk(t)
  /\ UNCHANGED <<linkVars, pc, result, connection, lines>>

\* FAULT: the stack is offered the notification for ever.
RefusesForEver(t) ==
  /\ Sending(t) /\ job[t].sent < job[t].len
  /\ UNCHANGED txVars

\* FAULT: a refused notification is skipped.
RefusesAndSkips(t) ==
  /\ Sending(t) /\ job[t].sent < job[t].len
  /\ job[t].retries > 1
  /\ job' = [job EXCEPT ![t].sent = @ + Chunk(t)]
  /\ UNCHANGED <<linkVars, pc, result, stream, connection, lines, disturbed>>

\* It refuses: the buffers are full, or there is no connection.
Refuses(t) ==
  /\ Sending(t) /\ job[t].sent < job[t].len
  /\ job[t].retries > 1
  /\ job' = [job EXCEPT ![t].retries = @ - 1]
  /\ UNCHANGED <<linkVars, pc, result, stream, connection, lines, disturbed>>

\* FAULT: a line that broke off is reported as sent.
GivesUpQuietly(t) ==
  /\ Sending(t) /\ job[t].sent < job[t].len
  /\ job[t].retries = 1
  /\ pc' = [pc EXCEPT ![t] = "idle"]
  /\ job' = [job EXCEPT ![t].retries = 0]
  /\ result' = [result EXCEPT ![t] = job[t].len]
  /\ disturbed' = disturbed \cup {"cut"}
  /\ UNCHANGED <<linkVars, stream, connection, lines>>

\* It refuses for the last time.
GivesUp(t) ==
  /\ Sending(t) /\ job[t].sent < job[t].len
  /\ job[t].retries = 1
  /\ pc' = [pc EXCEPT ![t] = "idle"]
  /\ job' = [job EXCEPT ![t].retries = 0]
  /\ result' = [result EXCEPT ![t] = IF job[t].sent > 0 THEN job[t].sent ELSE -2]
  /\ disturbed' = IF job[t].sent > 0 /\ job[t].on = connection
                  THEN disturbed \cup {"cut"} ELSE disturbed
  /\ UNCHANGED <<linkVars, stream, connection, lines>>

\* After the sleep that follows the last notification.
SendReturns(t) ==
  /\ Sending(t) /\ job[t].sent = job[t].len
  /\ pc' = [pc EXCEPT ![t] = "idle"]
  /\ result' = [result EXCEPT ![t] = job[t].sent]
  /\ UNCHANGED <<linkVars, job, stream, connection, lines, disturbed>>

LinkStep ==
  \/ Connect \/ Disconnect
  \/ \E on \in BOOLEAN : WriteCccd(on)
  \/ \E m \in Mtus : MtuExchange(m)

SendStep(t) == Accepts(t) \/ Refuses(t) \/ GivesUp(t) \/ SendReturns(t)

TxNext ==
  \/ LinkStep
  \/ \E t \in Threads :
       \/ SendBlocked(t)
       \/ \E len \in 1 .. MaxLine : SendBegins(t, len)
       \/ SendStep(t)

TxSpec == TxInit /\ [][TxNext]_txVars

\* A thread in buddy_ble_nus_send goes on: its sleeps are timed.
FairSpec == TxSpec /\ \A t \in Threads : WF_txVars(SendStep(t))

-----------------------------------------------------------------------------
(* Properties                                                               *)

TxTypeOK ==
  /\ connected \in BOOLEAN /\ notify \in BOOLEAN /\ mtu \in Mtus
  /\ pc \in [Threads -> {"idle", "sending"}]
  /\ job \in [Threads -> Job]
  /\ result \in [Threads -> -2 .. MaxLine]
  /\ stream \in Seq(Byte)
  /\ connection \in 0 .. MaxConnections /\ lines \in 0 .. MaxLines
  /\ disturbed \subseteq {"overlap", "reconnect", "cut"}

\* However the sends interleave and however often notifications are refused,
\* of the bytes of a line that a connection sees, each later one is a later byte
\* of it, and none between two of them is left out.
SameLine(i, j) == stream[i].line = stream[j].line

BytesInOrder ==
  \A i, j \in DOMAIN stream : i < j /\ SameLine(i, j) =>
    /\ stream[i].at < stream[j].at
    /\ \E k \in i + 1 .. j : SameLine(i, k) /\ stream[k].at = stream[i].at + 1

\* The first n bytes of a line are there.
Received(line, n) ==
  \A a \in 1 .. n : \E i \in DOMAIN stream : stream[i].line = line /\ stream[i].at = a

\* A send that returns the length of its line has put all of it into one
\* connection, unless the link changed under it: then the caller believes in
\* an answer that no desktop has.
SentMeansAccepted ==
  [][\A t \in Threads :
       Sending(t) /\ pc'[t] = "idle" /\ result'[t] = job[t].len
         => Received(job[t].line, job[t].len) \/ job[t].on # connection]_txVars

\* What the desktop reads up to each newline.
WholeLine(s) ==
  \A i \in DOMAIN s : s[i] = [line |-> s[1].line, at |-> i, of |-> Len(s)]

IsNewline(b) == b.at = b.of

LinesAreWholeIn(s) ==
  \A j \in DOMAIN s : IsNewline(s[j]) =>
     \E i \in 1 .. j : /\ WholeLine(SubSeq(s, i, j))
                       /\ i > 1 => IsNewline(s[i - 1])

\* A connection on which no two sends overlapped, none was cut short and none
\* came from an earlier connection reads only whole lines.
UndisturbedLinesAreWhole == disturbed = {} => LinesAreWholeIn(stream)

\* docs/protocol.md: "Device TX responses are JSON objects with trailing
\* newlines."  The code does not keep this when two sends overlap, one is cut
\* short, or the link changes under one.
LinesAreWhole == LinesAreWholeIn(stream)

\* A thread that sends returns, whatever the link does.
EverySendReturns == \A t \in Threads : Sending(t) ~> ~Sending(t)
=============================================================================
