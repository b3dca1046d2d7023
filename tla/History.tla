------------------------------ MODULE History ------------------------------
(***************************************************************************)
(* The message histories of the accounts (msg_history.h) with add_message()*)
(* and get_historical_message() of account.h, called by the connection     *)
(* threads at the same time and without a lock.  A step makes at most one  *)
(* access to memory another thread can write; every expression that names  *)
(* msgcnt loads it again, as in JobQueue.  A string is allocated and       *)
(* copied in one step.  The accounts exist, and an account is its place in *)
(* accountinfo; the length of a string is named by the string.             *)
(***************************************************************************)
EXTENDS Naturals, Sequences, FiniteSets

CONSTANTS Writers, Readers,  \* the threads that add messages, and that read
          AccountCount,
          MAX_RECORD_COUNT,  \* 1000 in the code
          MaxAdded,          \* bound: the messages each writer adds
          Numbers,           \* how many messages a reader may ask for
          NULL               \* what is not there: a field not filled, no request

ASSUME HistoryAssumption ==
  /\ {AccountCount, MAX_RECORD_COUNT, MaxAdded} \subseteq Nat /\ Numbers \subseteq Nat
  /\ Writers \cap Readers = {}

Account == 0 .. AccountCount - 1
Thread  == Writers \cup Readers
Content == Writers \X (1 .. MaxAdded)
Message == [sender : Account, receiver : Account, content : Content]
Request == [username : Account, friend : Account, number : Numbers]

ASSUME NullAssumption == NULL \notin Account \cup Content \cup Message \cup Request

VARIABLES msgRecord, msgcnt, \* struct msg_history of each account
          pc,
          i,        \* each thread's index: of an account, or of a record
          reg,      \* the msgcnt each writer has loaded
          field,    \* the assignment of add_message0() it is at
          msg,      \* the message it adds
          sent,     \* how many it has begun to add
          request,  \* what each reader has asked for
          start,    \* its start_number
          line,     \* the parts of a line it has copied
          output    \* the lines it has copied, by the index of their records

history == <<msgRecord, msgcnt>>
writing == <<reg, field, msg, sent>>
reading == <<request, start, line, output>>
vars    == <<history, pc, i, writing, reading>>

\* The assignments of add_message0() in their order; the last one counts.
Field   == <<"sender", "receiver", "content", "sender_length", "content_length",
             "receiver_length">>
Counts  == Len(Field) + 1
Filled(m) == [sender |-> m.sender, receiver |-> m.receiver, content |-> m.content,
              sender_length |-> m.sender, content_length |-> m.content,
              receiver_length |-> m.receiver]

\* What get_historical_message0() reads of a record for a line.
Copied  == <<"sender", "sender_length", "content", "content_length">>
NoLine  == [sender |-> NULL, sender_length |-> NULL, content |-> NULL, content_length |-> NULL]
NoLines == [k \in {} |-> NULL]

Goto(t, from, to) == pc[t] = from /\ pc' = [pc EXCEPT ![t] = to]
Index(t, k)       == i' = [i EXCEPT ![t] = k]
-----------------------------------------------------------------------------
(* add_message(), add_message0(). *)

AddMessage(t) ==
  /\ sent[t] < MaxAdded /\ sent' = [sent EXCEPT ![t] = @ + 1]
  /\ \E from, to \in Account :
       msg' = [msg EXCEPT ![t] = [sender |-> from, receiver |-> to,
                                  content |-> <<t, sent[t] + 1>>]]
  /\ Goto(t, "idle", "scan") /\ Index(t, 0)
  /\ UNCHANGED <<history, reg, field, reading>>

Concerns(m, n) == n \in {m.sender, m.receiver}

NotConcerned(t) ==
  /\ pc[t] = "scan" /\ i[t] < AccountCount /\ ~Concerns(msg[t], i[t])
  /\ Index(t, i[t] + 1)
  /\ UNCHANGED <<history, pc, writing, reading>>

\* Mutant: a full history drops its newest message for another one.
FullDropsNewest(t) ==
  /\ Goto(t, "scan", "load") /\ field' = [field EXCEPT ![t] = 1]
  /\ i[t] < AccountCount /\ Concerns(msg[t], i[t])
  /\ msgcnt[i[t]] = MAX_RECORD_COUNT
  /\ msgcnt' = [msgcnt EXCEPT ![i[t]] = @ - 1]
  /\ UNCHANGED <<msgRecord, i, reg, msg, sent, reading>>

Full(t) ==
  /\ pc[t] = "scan" /\ i[t] < AccountCount /\ Concerns(msg[t], i[t])
  /\ msgcnt[i[t]] = MAX_RECORD_COUNT
  /\ Index(t, i[t] + 1)
  /\ UNCHANGED <<history, pc, writing, reading>>

\* Mutant: a full history is not noticed.
NotFullUnchecked(t) ==
  /\ Goto(t, "scan", "load") /\ field' = [field EXCEPT ![t] = 1]
  /\ i[t] < AccountCount /\ Concerns(msg[t], i[t])
  /\ UNCHANGED <<history, i, reg, msg, sent, reading>>

NotFull(t) ==
  /\ Goto(t, "scan", "load") /\ field' = [field EXCEPT ![t] = 1]
  /\ i[t] < AccountCount /\ Concerns(msg[t], i[t])
  /\ msgcnt[i[t]] # MAX_RECORD_COUNT
  /\ UNCHANGED <<history, i, reg, msg, sent, reading>>

\* Mutant: the names go where the last message is.
LoadCountBefore(t) ==
  /\ Goto(t, "load", "store")
  /\ reg' = [reg EXCEPT ![t] = LET n == msgcnt[i[t]]
                               IN  IF field[t] \in {1, 2} /\ n > 0 THEN n - 1 ELSE n]
  /\ UNCHANGED <<history, i, field, msg, sent, reading>>

LoadCount(t) ==
  /\ Goto(t, "load", "store")
  /\ reg' = [reg EXCEPT ![t] = msgcnt[i[t]]]
  /\ UNCHANGED <<history, i, field, msg, sent, reading>>

StoreField(t) ==
  /\ field[t] # Counts /\ Goto(t, "store", "load")
  /\ msgRecord' = [msgRecord EXCEPT ![i[t]][reg[t]][Field[field[t]]] = Filled(msg[t])[Field[field[t]]]]
  /\ field' = [field EXCEPT ![t] = @ + 1]
  /\ UNCHANGED <<msgcnt, i, reg, msg, sent, reading>>

StoreCount(t) ==
  /\ field[t] = Counts /\ Goto(t, "store", "scan")
  /\ msgcnt' = [msgcnt EXCEPT ![i[t]] = reg[t] + 1]
  /\ Index(t, i[t] + 1)
  /\ UNCHANGED <<msgRecord, writing, reading>>

Added(t) ==
  /\ Goto(t, "scan", "idle") /\ i[t] = AccountCount
  /\ Index(t, 0) /\ reg' = [reg EXCEPT ![t] = 0]
  /\ msg' = [msg EXCEPT ![t] = NULL]
  /\ UNCHANGED <<history, field, sent, reading>>
-----------------------------------------------------------------------------
(* get_historical_message(), get_historical_message0(). *)

Ask(t) == \E r \in Request :
  /\ Goto(t, "idle", "limit")
  /\ request' = [request EXCEPT ![t] = r]
  /\ output' = [output EXCEPT ![t] = NoLines]
  /\ UNCHANGED <<history, i, writing, start, line>>

Count(t)  == msgcnt[request[t].username]
Record(t) == msgRecord[request[t].username][i[t]]

ReadAll(t) ==
  /\ Goto(t, "limit", "bound") /\ request[t].number >= Count(t)
  /\ Index(t, 0) /\ start' = [start EXCEPT ![t] = 0]
  /\ UNCHANGED <<history, writing, request, line, output>>

ReadSome(t) ==
  /\ Goto(t, "limit", "start") /\ request[t].number < Count(t)
  /\ UNCHANGED <<history, i, writing, reading>>

\* Mutant: the oldest message asked for is left out.
StartLate(t) == LET k == Count(t) - request[t].number + 1 IN
  /\ Goto(t, "start", "bound") /\ Index(t, k) /\ start' = [start EXCEPT ![t] = k]
  /\ UNCHANGED <<history, writing, request, line, output>>

\* msgcnt is loaded once more.
Start(t) == LET k == Count(t) - request[t].number IN
  /\ Goto(t, "start", "bound") /\ Index(t, k) /\ start' = [start EXCEPT ![t] = k]
  /\ UNCHANGED <<history, writing, request, line, output>>

InBound(t) ==
  /\ Goto(t, "bound", "sender") /\ i[t] < Count(t)
  /\ UNCHANGED <<history, i, writing, reading>>

Matches(t) ==
  /\ \/ Goto(t, "sender", "copy") /\ Record(t).sender = request[t].friend
     \/ Goto(t, "receiver", "copy") /\ Record(t).receiver = request[t].friend
  /\ UNCHANGED <<history, i, writing, reading>>

SenderDiffers(t) ==
  /\ Goto(t, "sender", "receiver") /\ Record(t).sender # request[t].friend
  /\ UNCHANGED <<history, i, writing, reading>>

ReceiverDiffers(t) ==
  /\ Goto(t, "receiver", "bound") /\ Record(t).receiver # request[t].friend
  /\ Index(t, i[t] + 1)
  /\ UNCHANGED <<history, writing, reading>>

Copy(t) ==
  /\ pc[t] = "copy"
  /\ \E k \in DOMAIN Copied :
       /\ line[t][Copied[k]] = NULL /\ \A j \in 1 .. k - 1 : line[t][Copied[j]] # NULL
       /\ line' = [line EXCEPT ![t][Copied[k]] = Record(t)[Copied[k]]]
  /\ UNCHANGED <<history, pc, i, writing, request, start, output>>

LineCopied(t) ==
  /\ Goto(t, "copy", "bound") /\ \A k \in DOMAIN Copied : line[t][Copied[k]] # NULL
  /\ output' = [output EXCEPT ![t] = [k \in DOMAIN @ \cup {i[t]} |-> IF k = i[t] THEN line[t] ELSE @[k]]]
  /\ line' = [line EXCEPT ![t] = NoLine]
  /\ Index(t, i[t] + 1)
  /\ UNCHANGED <<history, writing, request, start>>

EndOfHistory(t) ==
  /\ Goto(t, "bound", "idle") /\ i[t] >= Count(t)
  /\ Index(t, 0) /\ start' = [start EXCEPT ![t] = 0]
  /\ UNCHANGED <<history, writing, request, line, output>>
-----------------------------------------------------------------------------
Unfilled == [sender |-> NULL, receiver |-> NULL, content |-> NULL, sender_length |-> NULL,
             content_length |-> NULL, receiver_length |-> NULL]

Init ==
  /\ msgRecord = [n \in Account |-> [k \in 0 .. MAX_RECORD_COUNT - 1 |-> Unfilled]]
  /\ msgcnt = [n \in Account |-> 0]
  /\ pc = [t \in Thread |-> "idle"] /\ i = [t \in Thread |-> 0]
  /\ reg = [t \in Writers |-> 0] /\ field = [t \in Writers |-> 1]
  /\ msg = [t \in Writers |-> NULL] /\ sent = [t \in Writers |-> 0]
  /\ request = [t \in Readers |-> NULL]
  /\ start = [t \in Readers |-> 0] /\ line = [t \in Readers |-> NoLine]
  /\ output = [t \in Readers |-> NoLines]

Writing(t) == \/ AddMessage(t) \/ NotConcerned(t) \/ Full(t) \/ NotFull(t) \/ LoadCount(t)
              \/ StoreField(t) \/ StoreCount(t) \/ Added(t)
Reading(t) == \/ Ask(t) \/ ReadAll(t) \/ ReadSome(t) \/ Start(t) \/ InBound(t) \/ Matches(t)
              \/ SenderDiffers(t) \/ ReceiverDiffers(t) \/ Copy(t) \/ LineCopied(t) \/ EndOfHistory(t)

Next == \/ \E t \in Writers : Writing(t)
        \/ \E t \in Readers : Reading(t)

Spec == Init /\ [][Next]_vars
-----------------------------------------------------------------------------
WriterPc == {"idle", "scan", "load", "store"}
ReaderPc == {"idle", "limit", "start", "bound", "sender", "receiver", "copy"}

Published(n) == 0 .. msgcnt[n] - 1

\* With one writer no index leaves msgRecord and every thread is at a known
\* place.
TypeOK ==
  /\ msgRecord \in [Account -> [0 .. MAX_RECORD_COUNT - 1 ->
       [sender : Account \cup {NULL}, receiver : Account \cup {NULL},
        content : Content \cup {NULL}, sender_length : Account \cup {NULL},
        content_length : Content \cup {NULL}, receiver_length : Account \cup {NULL}]]]
  /\ msgcnt \in [Account -> 0 .. MAX_RECORD_COUNT]
  /\ pc \in [Thread -> WriterPc \cup ReaderPc] /\ i \in [Thread -> Nat]
  /\ reg \in [Writers -> 0 .. MAX_RECORD_COUNT] /\ field \in [Writers -> 1 .. Counts]
  /\ msg \in [Writers -> Message \cup {NULL}] /\ sent \in [Writers -> 0 .. MaxAdded]
  /\ request \in [Readers -> Request \cup {NULL}]
  /\ start \in [Readers -> 0 .. MAX_RECORD_COUNT]
  /\ line \in [Readers -> [sender : Account \cup {NULL}, sender_length : Account \cup {NULL},
                          content : Content \cup {NULL}, content_length : Content \cup {NULL}]]
  /\ \A t \in Writers : /\ pc[t] \in WriterPc /\ i[t] <= AccountCount
                        /\ pc[t] # "idle" => msg[t] \in Message
                        /\ pc[t] \in {"load", "store"} => i[t] < AccountCount
  /\ \A t \in Readers : /\ pc[t] \in ReaderPc /\ i[t] <= MAX_RECORD_COUNT
                        /\ pc[t] # "idle" => request[t] \in Request

\* What has been recorded stays, although a full history and every message
\* that finds it full share the place where the count ends.
RecordsStay ==
  [][\A n \in Account : /\ msgcnt[n] <= msgcnt'[n]
                        /\ \A k \in Published(n) : msgRecord'[n][k] = msgRecord[n][k]]_vars

\* The messages recorded with an account, in order.
MessageOf(r) == [sender |-> r.sender, receiver |-> r.receiver, content |-> r.content]
Log(n)       == [k \in 1 .. msgcnt[n] |-> MessageOf(msgRecord[n][k - 1])]

\* Two accounts remember their conversation alike: what one has before a
\* message that both have, the other has before it too, although the two
\* histories are filled one after the other and need not be full together.
SameConversation ==
  \A n, m \in Account : \A j, k \in DOMAIN Log(n), l \in DOMAIN Log(m) :
    j < k /\ Log(n)[k] = Log(m)[l] /\ Concerns(Log(n)[j], m) =>
      \E h \in 1 .. l - 1 : Log(m)[h] = Log(n)[j]

\* An answer with fewer messages than asked for leaves out none with the friend:
\* it has "16 latest chatting records between Alice and Bob".
LatestBetween ==
  \A t \in Readers :
    /\ pc[t] = "bound" /\ i[t] >= Count(t)
    /\ Cardinality(DOMAIN output[t]) < request[t].number
    => \A k \in 0 .. start[t] - 1 :
         ~Concerns(msgRecord[request[t].username][k], request[t].friend)

\* A line is whole if its parts are as long as the code takes them to be.
Printed(l) == IF l.sender = l.sender_length /\ l.content = l.content_length
              THEN [sender |-> l.sender, content |-> l.content] ELSE NULL
Lines(t)   == [k \in {j + 1 : j \in DOMAIN output[t]} |-> Printed(output[t][k - 1])]
Missing(t) == IF pc[t] = "idle" THEN {} ELSE {n \in Account : i[t] <= n /\ Concerns(msg[t], n)}

ML == INSTANCE MessageLog WITH
  Capacity <- MAX_RECORD_COUNT,
  log <- [n \in Account |-> Log(n)], used <- UNION {{t} \X (1 .. sent[t]) : t \in Writers},
  adding <- msg, missing <- [t \in Writers |-> Missing(t)],
  asked <- [t \in Readers |-> IF pc[t] = "idle" THEN NULL ELSE request[t]],
  since <- [t \in Readers |-> IF pc[t] \in {"idle", "limit", "start"} THEN 0 ELSE start[t] + 1],
  answer <- [t \in Readers |-> IF pc[t] = "idle" THEN Lines(t) ELSE NoLines]

\* The histories keep what MessageLog promises: of every message a record
\* with both its accounts unless full, and answers that hold the whole tail.
ImplementsMessageLog == ML!Spec
=============================================================================
