---------------------------- MODULE HistoryProofs ----------------------------
(***************************************************************************)
(* Proofs about History, for any number of accounts, records and readers,  *)
(* when at most one thread calls add_message().                            *)
(***************************************************************************)
EXTENDS History, TLAPS

SingleWriter == \A s, t \in Writers : s = t

(***************************************************************************)
(* The inductive invariant.  A record below msgcnt is whole.  The writer   *)
(* fills the record at msgcnt, which no reader looks at.  A reader stays   *)
(* below msgcnt, has copied the lines of every record it has passed that   *)
(* concerns its friend, and the parts of the line it is copying are those  *)
(* of the record it is at.                                                 *)
(***************************************************************************)
Place == 0 .. MAX_RECORD_COUNT - 1

\* Record r has been filled from a message.
Whole(r) ==
  /\ r.sender \in Account /\ r.receiver \in Account /\ r.content \in Content
  /\ r.sender_length = r.sender /\ r.content_length = r.content
  /\ r.receiver_length = r.receiver

RecordsWhole == \A n \in Account : \A k \in Published(n) : Whole(msgRecord[n][k])

\* The first f - 1 assignments of add_message0() have been made to r.
FilledUpTo(r, m, f) ==
  /\ f > 1 => r.sender = m.sender
  /\ f > 2 => r.receiver = m.receiver
  /\ f > 3 => r.content = m.content
  /\ f > 4 => r.sender_length = m.sender
  /\ f > 5 => r.content_length = m.content
  /\ f > 6 => r.receiver_length = m.receiver

WriterInv(t) ==
  /\ pc[t] = "idle" => msg[t] = NULL /\ i[t] = 0
  /\ pc[t] # "idle" => msg[t].content = <<t, sent[t]>> /\ sent[t] > 0
  /\ pc[t] \in {"load", "store"} =>
       /\ i[t] \in Account /\ Concerns(msg[t], i[t]) /\ msgcnt[i[t]] < MAX_RECORD_COUNT
       /\ FilledUpTo(msgRecord[i[t]][msgcnt[i[t]]], msg[t], field[t])
  /\ pc[t] = "store" => reg[t] = msgcnt[i[t]]

\* The records of account n from the first one up to limit that have to do
\* with a friend.
With(n, first, limit, friend) == {k \in first .. limit - 1 : Concerns(msgRecord[n][k], friend)}
LineOf(r) == [sender |-> r.sender, sender_length |-> r.sender_length,
              content |-> r.content, content_length |-> r.content_length]

Walking == {"bound", "sender", "receiver", "copy"}

ReaderInv(t) ==
  /\ pc[t] = "idle" => start[t] = 0
  /\ pc[t] \in {"limit", "start"} => output[t] = NoLines
  /\ pc[t] = "start" => request[t].number < Count(t)
  /\ pc[t] # "copy" => line[t] = NoLine
  /\ pc[t] \in Walking =>
       LET n == request[t].username
           copied == With(n, start[t], i[t], request[t].friend)
       IN  /\ start[t] <= i[t] /\ i[t] <= msgcnt[n]
           /\ output[t] = [k \in copied |-> LineOf(msgRecord[n][k])]
  /\ pc[t] \in {"sender", "receiver", "copy"} => i[t] < Count(t)
  /\ pc[t] = "receiver" => Record(t).sender # request[t].friend
  /\ pc[t] = "copy" => /\ Concerns(Record(t), request[t].friend)
                       /\ \A k \in DOMAIN Copied : line[t][Copied[k]] \in {NULL, LineOf(Record(t))[Copied[k]]}

IInv == /\ TypeOK /\ RecordsWhole /\ DOMAIN output = Readers
        /\ \A t \in Writers : WriterInv(t)
        /\ \A t \in Readers : ReaderInv(t)

(***************************************************************************)
(* The order of the messages.  With one writer a message is known by its   *)
(* number.  An account that a message concerns keeps it, or is full of     *)
(* older ones, or is still to be reached by the writer.                    *)
(***************************************************************************)
Number(n, k) == msgRecord[n][k].content[2]

Ordered == \A n \in Account : \A j, k \in Published(n) : j < k => Number(n, j) < Number(n, k)

Keeps(n, m) == \/ \E k \in Published(n) : MessageOf(msgRecord[n][k]) = m
               \/ /\ msgcnt[n] = MAX_RECORD_COUNT
                  /\ \A k \in Published(n) : Number(n, k) < m.content[2]

Newest(t) == \A n \in Account : \A k \in Published(n) :
               /\ Number(n, k) <= sent[t]
               /\ pc[t] # "idle" /\ i[t] <= n => Number(n, k) < sent[t]

Passed(t) == pc[t] # "idle" => \A n \in Account : n < i[t] /\ Concerns(msg[t], n) => Keeps(n, msg[t])

Coming(n, m) == \E t \in Writers : pc[t] # "idle" /\ i[t] <= n /\ msg[t] = m

Shared == \A n, m \in Account : \A k \in Published(n) :
            Concerns(msgRecord[n][k], m) =>
              Keeps(m, MessageOf(msgRecord[n][k])) \/ Coming(m, MessageOf(msgRecord[n][k]))

OrderInv == Ordered /\ Shared /\ \A t \in Writers : Newest(t) /\ Passed(t)
-----------------------------------------------------------------------------
Slot == [sender : Account \cup {NULL}, receiver : Account \cup {NULL},
         content : Content \cup {NULL}, sender_length : Account \cup {NULL},
         content_length : Content \cup {NULL}, receiver_length : Account \cup {NULL}]

\* Once all the assignments of add_message0() are made, the record is whole.
LEMMA FilledIsWhole ==
  ASSUME NEW r \in Slot, NEW m \in Message, FilledUpTo(r, m, Counts)
  PROVE  Whole(r) /\ MessageOf(r) = m
<1>1. Counts = 7
  BY DEF Counts, Field
<1> QED BY <1>1 DEF FilledUpTo, Whole, MessageOf, Message, Slot

\* One assignment of add_message0() makes one more field the message's.
LEMMA Assigned ==
  ASSUME NEW r \in Slot, NEW m \in Message, NEW f \in 1 .. Counts, f # Counts, FilledUpTo(r, m, f)
  PROVE  LET s == [r EXCEPT ![Field[f]] = Filled(m)[Field[f]]]
         IN  s \in Slot /\ FilledUpTo(s, m, f + 1)
<1> DEFINE s == [r EXCEPT ![Field[f]] = Filled(m)[Field[f]]]
<1>1. f \in {1, 2, 3, 4, 5, 6}
  BY DEF Counts, Field
<1>2. /\ m.sender \in Account /\ m.receiver \in Account /\ m.content \in Content
      /\ Filled(m).sender = m.sender /\ Filled(m).receiver = m.receiver
      /\ Filled(m).content = m.content /\ Filled(m).sender_length = m.sender
      /\ Filled(m).content_length = m.content /\ Filled(m).receiver_length = m.receiver
  BY DEF Message, Filled
<1>3. CASE f = 1
  <2>1. s = [r EXCEPT !.sender = m.sender]
    BY <1>2, <1>3 DEF Field
  <2> QED BY <1>2, <1>3, <2>1 DEF FilledUpTo, Slot
<1>4. CASE f = 2
  <2>1. s = [r EXCEPT !.receiver = m.receiver]
    BY <1>2, <1>4 DEF Field
  <2> QED BY <1>2, <1>4, <2>1 DEF FilledUpTo, Slot
<1>5. CASE f = 3
  <2>1. s = [r EXCEPT !.content = m.content]
    BY <1>2, <1>5 DEF Field
  <2> QED BY <1>2, <1>5, <2>1 DEF FilledUpTo, Slot
<1>6. CASE f = 4
  <2>1. s = [r EXCEPT !.sender_length = m.sender]
    BY <1>2, <1>6 DEF Field
  <2> QED BY <1>2, <1>6, <2>1 DEF FilledUpTo, Slot
<1>7. CASE f = 5
  <2>1. s = [r EXCEPT !.content_length = m.content]
    BY <1>2, <1>7 DEF Field
  <2> QED BY <1>2, <1>7, <2>1 DEF FilledUpTo, Slot
<1>8. CASE f = 6
  <2>1. s = [r EXCEPT !.receiver_length = m.receiver]
    BY <1>2, <1>8 DEF Field
  <2> QED BY <1>2, <1>8, <2>1 DEF FilledUpTo, Slot
<1> QED BY <1>1, <1>3, <1>4, <1>5, <1>6, <1>7, <1>8

LEMMA InvInit == Init => IInv
<1> SUFFICES ASSUME Init PROVE IInv
  OBVIOUS
<1> USE DEF Init
<1>1. TypeOK
  <2>1. Unfilled \in Slot /\ NoLine \in [sender : Account \cup {NULL}, sender_length : Account \cup {NULL},
                          content : Content \cup {NULL}, content_length : Content \cup {NULL}]
    BY DEF Unfilled, Slot, NoLine
  <2>2. 1 \in 1 .. Counts /\ 0 \in 0 .. MAX_RECORD_COUNT /\ 0 \in 0 .. MaxAdded
    BY HistoryAssumption DEF Counts, Field
  <2>3. msgRecord \in [Account -> [Place -> Slot]]
    BY <2>1 DEF Place
  <2>4. 0 <= AccountCount /\ 0 <= MAX_RECORD_COUNT
    BY HistoryAssumption
  <2> QED BY <2>1, <2>2, <2>3, <2>4 DEF TypeOK, Slot, Place, Thread, WriterPc, ReaderPc
<1>2. RecordsWhole
  <2>1. \A n \in Account : Published(n) = {}
    BY DEF Published
  <2> QED BY <2>1 DEF RecordsWhole
<1>3. \A t \in Writers : WriterInv(t)
  BY DEF WriterInv, Thread
<1>4. \A t \in Readers : ReaderInv(t)
  BY DEF ReaderInv, Thread, Walking
<1>5. DOMAIN output = Readers
  OBVIOUS
<1> QED BY <1>1, <1>2, <1>3, <1>4, <1>5 DEF IInv

LEMMA Types ==
  ASSUME TypeOK
  PROVE  /\ msgRecord \in [Account -> [Place -> Slot]]
         /\ \A n \in Account : msgcnt[n] \in Nat /\ msgcnt[n] <= MAX_RECORD_COUNT
         /\ \A n \in Account : \A k \in Published(n) : k \in Place
         /\ \A t \in Thread : i[t] \in Nat
         /\ AccountCount \in Nat /\ MAX_RECORD_COUNT \in Nat /\ Counts = 7
         /\ Writers \cap Readers = {}
BY HistoryAssumption DEF TypeOK, Slot, Place, Published, Counts, Field

LEMMA MessageFields ==
  ASSUME NEW m \in Message
  PROVE  m.sender \in Account /\ m.receiver \in Account /\ m.content \in Content /\ m # NULL
BY NullAssumption DEF Message

LEMMA RequestFields ==
  ASSUME NEW r \in Request
  PROVE  r.username \in Account /\ r.friend \in Account /\ r.number \in Nat /\ r # NULL
BY NullAssumption, HistoryAssumption DEF Request
-----------------------------------------------------------------------------
(***************************************************************************)
(* The steps of the writer.                                                *)
(***************************************************************************)

\* An assignment of add_message0() changes the record where the count ends
\* and no other.
LEMMA StoredField ==
  ASSUME IInv, NEW t \in Writers, StoreField(t)
  PROVE  /\ i[t] \in Account /\ msgcnt[i[t]] \in Place
         /\ msgRecord' \in [Account -> [Place -> Slot]]
         /\ \A n \in Account, k \in Place :
              n # i[t] \/ k # msgcnt[i[t]] => msgRecord'[n][k] = msgRecord[n][k]
         /\ FilledUpTo(msgRecord'[i[t]][msgcnt[i[t]]], msg[t], field[t] + 1)
<1> DEFINE n == i[t]
           k == msgcnt[i[t]]
           f == field[t]
           slot == [msgRecord[n][k] EXCEPT ![Field[f]] = Filled(msg[t])[Field[f]]]
<1>1. pc[t] = "store" /\ f \in 1 .. Counts /\ f # Counts /\ msg[t] \in Message
  BY DEF IInv, TypeOK, StoreField, Goto
<1>2. n \in Account /\ k < MAX_RECORD_COUNT /\ FilledUpTo(msgRecord[n][k], msg[t], f) /\ reg[t] = k
  BY <1>1 DEF IInv, WriterInv
<1>3. k \in Place
  BY <1>2, Types DEF IInv, Place
<1>4. msgRecord[n][k] \in Slot
  BY <1>2, <1>3, Types DEF IInv
<1>5. slot \in Slot /\ FilledUpTo(slot, msg[t], f + 1)
  BY <1>1, <1>2, <1>4, Assigned
<1>6. msgRecord' = [msgRecord EXCEPT ![n] = [msgRecord[n] EXCEPT ![k] = slot]]
  BY <1>2 DEF StoreField
<1> HIDE DEF n, k, f, slot
<1>7. msgRecord \in [Account -> [Place -> Slot]]
  BY Types DEF IInv
<1>8. msgRecord' \in [Account -> [Place -> Slot]] /\ msgRecord'[n][k] = slot
  BY <1>2, <1>3, <1>5, <1>6, <1>7
<1>9. \A m \in Account, j \in Place : m # n \/ j # k => msgRecord'[m][j] = msgRecord[m][j]
  BY <1>2, <1>3, <1>6, <1>7
<1> QED BY <1>2, <1>3, <1>5, <1>8, <1>9 DEF n, k, f

\* What has been recorded is not touched.
RecordsKept == \A n \in Account : /\ msgcnt[n] <= msgcnt'[n]
                                  /\ \A k \in Published(n) : msgRecord'[n][k] = msgRecord[n][k]

LEMMA WriterKeepsRecords == ASSUME IInv, NEW t \in Writers, Writing(t) PROVE RecordsKept
<1> USE Types DEF IInv
<1>1. CASE StoreField(t)
  <2>1. msgcnt' = msgcnt
    BY <1>1 DEF StoreField
  <2>2. \A n \in Account : \A k \in Published(n) : k \in Place /\ (n # i[t] \/ k # msgcnt[i[t]])
    BY DEF Published
  <2>3. \A n \in Account, k \in Place :
          n # i[t] \/ k # msgcnt[i[t]] => msgRecord'[n][k] = msgRecord[n][k]
    BY <1>1, StoredField
  <2> QED BY <2>1, <2>2, <2>3 DEF RecordsKept
<1>2. CASE StoreCount(t)
  <2>1. pc[t] = "store" /\ reg[t] = msgcnt[i[t]] /\ i[t] \in Account
    BY <1>2 DEF StoreCount, Goto, WriterInv
  <2>2. msgcnt' = [msgcnt EXCEPT ![i[t]] = msgcnt[i[t]] + 1] /\ msgRecord' = msgRecord
    BY <1>2, <2>1 DEF StoreCount
  <2>3. msgcnt \in [Account -> 0 .. MAX_RECORD_COUNT]
    BY DEF TypeOK
  <2> QED BY <2>1, <2>2, <2>3 DEF RecordsKept
<1>3. CASE UNCHANGED history
  BY <1>3 DEF history, RecordsKept
<1> QED BY <1>1, <1>2, <1>3 DEF Writing, AddMessage, NotConcerned, Full, NotFull, LoadCount, Added, history

\* A step of the writer changes only what is its own, and the histories.
LEMMA WriterBeside ==
  ASSUME IInv, NEW t \in Writers, Writing(t)
  PROVE  /\ t \in Thread /\ t \notin Readers /\ UNCHANGED reading
         /\ pc' \in [Thread -> WriterPc \cup ReaderPc] /\ pc'[t] \in WriterPc
         /\ i' \in [Thread -> Nat] /\ i'[t] <= AccountCount
         /\ \A u \in Thread \ {t} : pc'[u] = pc[u] /\ i'[u] = i[u]
         /\ \A u \in Writers \ {t} : reg'[u] = reg[u] /\ field'[u] = field[u] /\ msg'[u] = msg[u] /\ sent'[u] = sent[u]
<1> USE Types DEF IInv
<1>1. t \in Thread /\ t \notin Readers
  BY DEF Thread
<1>2. UNCHANGED reading
  BY DEF Writing, AddMessage, NotConcerned, Full, NotFull, LoadCount, StoreField, StoreCount, Added, writing
<1>3. PICK to \in WriterPc : pc' = [pc EXCEPT ![t] = to]
  <2>1. pc[t] \in WriterPc /\ pc = [pc EXCEPT ![t] = pc[t]]
    BY <1>1 DEF TypeOK
  <2> QED BY <2>1 DEF Writing, AddMessage, NotConcerned, Full, NotFull, LoadCount, StoreField, StoreCount, Added,
                      Goto, WriterPc
<1>4. PICK k \in Nat : i' = [i EXCEPT ![t] = k] /\ k <= AccountCount
  <2>1. i[t] \in Nat /\ i[t] <= AccountCount /\ i = [i EXCEPT ![t] = i[t]]
    BY <1>1 DEF TypeOK
  <2>2. CASE AddMessage(t) \/ Added(t)
    BY <2>2 DEF AddMessage, Added, Index
  <2>3. CASE NotConcerned(t) \/ Full(t)
    <3>1. i' = [i EXCEPT ![t] = i[t] + 1] /\ i[t] < AccountCount
      BY <2>3 DEF NotConcerned, Full, Index
    <3>2. i[t] + 1 \in Nat /\ i[t] + 1 <= AccountCount
      BY <3>1, <2>1
    <3> QED BY <3>1, <3>2
  <2>4. CASE NotFull(t) \/ LoadCount(t) \/ StoreField(t)
    BY <2>1, <2>4 DEF NotFull, LoadCount, StoreField
  <2>5. CASE StoreCount(t)
    <3>1. i[t] \in Account
      BY <2>5 DEF StoreCount, Goto, WriterInv
    <3>2. i[t] + 1 \in Nat /\ i[t] + 1 <= AccountCount
      BY <3>1, <2>1 DEF Account
    <3> QED BY <3>2, <2>5 DEF StoreCount, Index
  <2> QED BY <2>2, <2>3, <2>4, <2>5 DEF Writing
<1>5. \A u \in Writers \ {t} : reg'[u] = reg[u] /\ field'[u] = field[u] /\ msg'[u] = msg[u] /\ sent'[u] = sent[u]
  BY DEF Writing, AddMessage, NotConcerned, Full, NotFull, LoadCount, StoreField, StoreCount, Added, writing, TypeOK
<1>6. pc \in [Thread -> WriterPc \cup ReaderPc] /\ i \in [Thread -> Nat]
  BY DEF TypeOK
<1> QED BY <1>1, <1>2, <1>3, <1>4, <1>5, <1>6

\* The message that add_message() is called with is a new one.
LEMMA NewMessage ==
  ASSUME IInv, NEW t \in Writers, AddMessage(t)
  PROVE  /\ sent[t] + 1 \in 1 .. MaxAdded /\ sent' = [sent EXCEPT ![t] = sent[t] + 1]
         /\ msg' \in [Writers -> Message \cup {NULL}] /\ msg'[t] \in Message
         /\ msg'[t].content = <<t, sent[t] + 1>>
<1>1. sent[t] + 1 \in 1 .. MaxAdded /\ sent' = [sent EXCEPT ![t] = sent[t] + 1]
  BY HistoryAssumption DEF AddMessage, IInv, TypeOK
<1>2. PICK from, to \in Account :
        msg' = [msg EXCEPT ![t] = [sender |-> from, receiver |-> to, content |-> <<t, sent[t] + 1>>]]
  BY DEF AddMessage
<1>3. [sender |-> from, receiver |-> to, content |-> <<t, sent[t] + 1>>] \in Message
  BY <1>1 DEF Message, Content
<1> QED BY <1>1, <1>2, <1>3 DEF IInv, TypeOK

\* The steps of the writer keep every variable within its type.
LEMMA WriterTypes == ASSUME IInv, NEW t \in Writers, Writing(t) PROVE TypeOK'
<1> USE Types DEF IInv
<1>1. msgRecord' \in [Account -> [Place -> Slot]]
  <2>1. CASE StoreField(t)
    BY <2>1, StoredField
  <2>2. CASE msgRecord' = msgRecord
    BY <2>2
  <2> QED BY <2>1, <2>2 DEF Writing, AddMessage, NotConcerned, Full, NotFull, LoadCount, StoreCount, Added, history
<1>2. msgcnt' \in [Account -> 0 .. MAX_RECORD_COUNT]
  <2>1. msgcnt \in [Account -> 0 .. MAX_RECORD_COUNT]
    BY DEF TypeOK
  <2>2. CASE StoreCount(t)
    <3>1. pc[t] = "store" /\ reg[t] = msgcnt[i[t]] /\ i[t] \in Account /\ msgcnt[i[t]] < MAX_RECORD_COUNT
      BY <2>2 DEF StoreCount, Goto, WriterInv
    <3> QED BY <2>1, <2>2, <3>1 DEF StoreCount
  <2>3. CASE msgcnt' = msgcnt
    BY <2>1, <2>3
  <2> QED BY <2>2, <2>3 DEF Writing, AddMessage, NotConcerned, Full, NotFull, LoadCount, StoreField, Added, history
<1>3. reg' \in [Writers -> 0 .. MAX_RECORD_COUNT]
  <2>1. reg \in [Writers -> 0 .. MAX_RECORD_COUNT]
    BY DEF TypeOK
  <2>2. CASE LoadCount(t)
    <3>1. i[t] \in Account
      BY <2>2 DEF LoadCount, Goto, WriterInv
    <3> QED BY <2>1, <2>2, <3>1 DEF LoadCount
  <2> QED BY <2>1, <2>2 DEF Writing, AddMessage, NotConcerned, Full, NotFull, StoreField, StoreCount, Added, writing
<1>4. field' \in [Writers -> 1 .. Counts]
  <2>1. field \in [Writers -> 1 .. Counts]
    BY DEF TypeOK
  <2>2. CASE NotFull(t)
    BY <2>1, <2>2 DEF NotFull
  <2>3. CASE StoreField(t)
    <3>1. field[t] \in 1 .. 7 /\ field[t] # 7
      BY <2>1, <2>3 DEF StoreField
    <3>2. field[t] + 1 \in 1 .. Counts
      <4> HIDE DEF IInv
      <4> QED BY <3>1 DEF Counts, Field
    <3> QED BY <2>1, <2>3, <3>2 DEF StoreField
  <2> QED BY <2>1, <2>2, <2>3 DEF Writing, AddMessage, NotConcerned, Full, LoadCount, StoreCount, Added, writing
<1>5. /\ sent' \in [Writers -> 0 .. MaxAdded]
      /\ msg' \in [Writers -> Message \cup {NULL}]
  <2>1. CASE AddMessage(t)
    <3>1. sent[t] + 1 \in 0 .. MaxAdded
      <4>1. sent[t] + 1 \in 1 .. MaxAdded /\ MaxAdded \in Nat
        BY <2>1, NewMessage, HistoryAssumption
      <4> QED BY <4>1
    <3>2. sent \in [Writers -> 0 .. MaxAdded] /\ sent' = [sent EXCEPT ![t] = sent[t] + 1]
      BY <2>1, NewMessage DEF TypeOK
    <3>3. msg' \in [Writers -> Message \cup {NULL}]
      BY <2>1, NewMessage
    <3> QED BY <3>1, <3>2, <3>3
  <2> QED BY <2>1 DEF Writing, NotConcerned, Full, NotFull, LoadCount, StoreField, StoreCount, Added, writing, TypeOK
<1>6. \A u \in Writers : /\ pc'[u] \in WriterPc /\ i'[u] <= AccountCount
                         /\ pc'[u] # "idle" => msg'[u] \in Message
                         /\ pc'[u] \in {"load", "store"} => i'[u] < AccountCount
  <2>1. \A u \in Writers \ {t} : pc'[u] = pc[u] /\ i'[u] = i[u] /\ msg'[u] = msg[u]
    BY WriterBeside DEF Thread
  <2>2. pc'[t] \in WriterPc /\ i'[t] <= AccountCount
    BY WriterBeside
  <2>3. pc'[t] # "idle" => msg'[t] \in Message
    <3>1. CASE AddMessage(t)
      BY <3>1, NewMessage
    <3>2. CASE Added(t)
      BY <3>2 DEF Added, Goto, TypeOK, Thread
    <3>3. CASE pc[t] # "idle" /\ msg' = msg
      BY <3>3 DEF TypeOK
    <3> QED BY <3>1, <3>2, <3>3
            DEF Writing, NotConcerned, Full, NotFull, LoadCount, StoreField, StoreCount, Goto, writing
  <2>4. pc'[t] \in {"load", "store"} => i'[t] < AccountCount
    <3>1. CASE NotFull(t) \/ LoadCount(t) \/ StoreField(t)
      <4>1. i' = i /\ i[t] < AccountCount
        BY <3>1 DEF NotFull, LoadCount, StoreField, Goto, TypeOK
      <4> QED BY <4>1
    <3>2. CASE pc'[t] \in {"idle", "scan"}
      BY <3>2
    <3>3. pc \in [Thread -> WriterPc \cup ReaderPc] /\ t \in Thread
      BY DEF TypeOK, Thread
    <3> QED BY <3>1, <3>2, <3>3 DEF Writing, AddMessage, NotConcerned, Full, StoreCount, Added, Goto
  <2>5. \A u \in Writers : /\ pc[u] \in WriterPc /\ i[u] <= AccountCount
                           /\ pc[u] # "idle" => msg[u] \in Message
                           /\ pc[u] \in {"load", "store"} => i[u] < AccountCount
    BY DEF TypeOK
  <2> QED BY <2>1, <2>2, <2>3, <2>4, <2>5
<1>7. \A u \in Readers : pc'[u] = pc[u] /\ i'[u] = i[u] /\ UNCHANGED <<request, start, line>>
  BY WriterBeside DEF Thread, reading
<1> QED BY <1>1, <1>2, <1>3, <1>4, <1>5, <1>6, <1>7, WriterBeside DEF TypeOK, Place, Slot, reading

\* What a reader has copied, and what it is about to copy, is recorded: the
\* steps of other threads leave it as it is.
LEMMA ReaderKeeps ==
  ASSUME IInv, TypeOK', RecordsKept, NEW u \in Readers,
         pc'[u] = pc[u], i'[u] = i[u], request'[u] = request[u], start'[u] = start[u],
         line'[u] = line[u], output'[u] = output[u]
  PROVE  ReaderInv(u)'
<1> USE Types DEF IInv
<1>1. request'[u] = request[u] /\ start'[u] = start[u] /\ line'[u] = line[u] /\ output'[u] = output[u]
  OBVIOUS
<1>2. ReaderInv(u) /\ u \in Thread
  BY DEF Thread
<1>3. ASSUME pc[u] # "idle"
      PROVE  /\ request[u].username \in Account /\ request[u].number \in Nat
             /\ Count(u) \in Nat /\ Count(u)' \in Nat /\ Count(u) <= Count(u)'
  <2>1. request[u].username \in Account /\ request[u].number \in Nat
    BY <1>3, RequestFields DEF TypeOK
  <2>2. msgcnt'[request[u].username] \in Nat
    BY <2>1 DEF TypeOK
  <2> QED BY <2>1, <2>2, <1>1 DEF Count, RecordsKept
<1>4. ASSUME pc[u] \in {"sender", "receiver", "copy"}
      PROVE  i[u] < Count(u)' /\ Record(u)' = Record(u)
  <2>1. i[u] < Count(u) /\ i[u] \in Nat
    BY <1>2, <1>4 DEF ReaderInv
  <2>2. i[u] \in Published(request[u].username) /\ request[u].username \in Account
    BY <2>1, <1>3, <1>4 DEF Published, Count
  <2> QED BY <2>1, <2>2, <1>1, <1>3, <1>4 DEF RecordsKept, Record
<1>5. ASSUME pc[u] \in Walking
      PROVE  LET n == request[u].username
                 copied == With(n, start[u], i[u], request[u].friend)
             IN  /\ start[u] <= i[u] /\ i[u] <= msgcnt'[n]
                 /\ With(n, start[u], i[u], request[u].friend)' = copied
                 /\ output[u] = [k \in copied |-> LineOf(msgRecord'[n][k])]
  <2> DEFINE n == request[u].username
             copied == With(n, start[u], i[u], request[u].friend)
  <2>1. /\ start[u] <= i[u] /\ i[u] <= msgcnt[n]
        /\ output[u] = [k \in copied |-> LineOf(msgRecord[n][k])]
    BY <1>2, <1>5 DEF ReaderInv
  <2>2. n \in Account /\ msgcnt[n] \in Nat /\ msgcnt'[n] \in Nat /\ msgcnt[n] <= msgcnt'[n]
        /\ i[u] \in Nat /\ start[u] \in Nat
    <3>1. n \in Account
      BY <1>3, <1>5 DEF Walking
    <3>2. msgcnt[n] \in Nat /\ msgcnt'[n] \in Nat /\ msgcnt[n] <= msgcnt'[n]
      BY <3>1 DEF RecordsKept, TypeOK
    <3>3. i[u] \in Nat /\ start[u] \in Nat
      BY <1>2 DEF TypeOK
    <3> QED BY <3>1, <3>2, <3>3
  <2>3. \A k \in start[u] .. i[u] - 1 : k \in Published(n)
    BY <2>1, <2>2 DEF Published
  <2>4. \A k \in start[u] .. i[u] - 1 : msgRecord'[n][k] = msgRecord[n][k]
    BY <2>2, <2>3 DEF RecordsKept
  <2>5. {k \in start[u] .. i[u] - 1 : Concerns(msgRecord'[n][k], request[u].friend)} = copied
    BY <2>4 DEF With
  <2>6. [k \in copied |-> LineOf(msgRecord[n][k])] = [k \in copied |-> LineOf(msgRecord'[n][k])]
    BY <2>4 DEF With
  <2>7. With(n, start[u], i[u], request[u].friend)' = copied
    BY <2>5, <1>1 DEF With
  <2>8. i[u] <= msgcnt'[n]
    BY <2>1, <2>2
  <2> QED BY <2>1, <2>6, <2>7, <2>8
<1>6. pc[u] = "start" => request[u].number < Count(u)'
  BY <1>2, <1>3 DEF ReaderInv
<1>7. pc[u] \in Walking =>
       LET n == request[u].username
           copied == With(n, start[u], i[u], request[u].friend)
       IN  (/\ start[u] <= i[u] /\ i[u] <= msgcnt[n]
            /\ output[u] = [k \in copied |-> LineOf(msgRecord[n][k])])'
  BY <1>1, <1>5
<1>8. pc[u] = "receiver" => (Record(u).sender # request[u].friend)'
  BY <1>1, <1>2, <1>4 DEF ReaderInv
<1>9. pc[u] = "copy" =>
        (/\ Concerns(Record(u), request[u].friend)
         /\ \A k \in DOMAIN Copied : line[u][Copied[k]] \in {NULL, LineOf(Record(u))[Copied[k]]})'
  BY <1>1, <1>2, <1>4 DEF ReaderInv
<1> QED BY <1>1, <1>2, <1>4, <1>6, <1>7, <1>8, <1>9 DEF ReaderInv

\* The writer publishes a record only when all its fields are the message's.
LEMMA PublishedRecord ==
  ASSUME IInv, NEW t \in Writers, StoreCount(t)
  PROVE  LET n == i[t]
             k == msgcnt[i[t]]
         IN  /\ n \in Account /\ k \in Place /\ msg[t] \in Message /\ msg' = msg /\ Concerns(msg[t], n)
             /\ msgcnt' = [msgcnt EXCEPT ![n] = k + 1] /\ msgRecord' = msgRecord
             /\ Whole(msgRecord[n][k]) /\ MessageOf(msgRecord[n][k]) = msg[t]
<1> USE Types DEF IInv
<1>1. pc[t] = "store" /\ field[t] = Counts /\ msg[t] \in Message /\ msg' = msg
  BY DEF StoreCount, Goto, TypeOK, writing
<1>2. /\ i[t] \in Account /\ Concerns(msg[t], i[t]) /\ msgcnt[i[t]] < MAX_RECORD_COUNT
      /\ FilledUpTo(msgRecord[i[t]][msgcnt[i[t]]], msg[t], Counts) /\ reg[t] = msgcnt[i[t]]
  BY <1>1 DEF WriterInv
<1>3. msgcnt[i[t]] \in Place
  BY <1>2 DEF Place
<1>4. msgRecord[i[t]][msgcnt[i[t]]] \in Slot
  BY <1>2, <1>3
<1>5. msgcnt' = [msgcnt EXCEPT ![i[t]] = msgcnt[i[t]] + 1] /\ msgRecord' = msgRecord
  BY <1>2 DEF StoreCount
<1> QED BY <1>1, <1>2, <1>3, <1>4, <1>5, FilledIsWhole

LEMMA WriterKeepsWhole == ASSUME IInv, NEW t \in Writers, Writing(t) PROVE RecordsWhole'
<1> USE Types DEF IInv
<1>1. CASE StoreCount(t)
  <2> DEFINE n == i[t]
             k == msgcnt[i[t]]
  <2>1. /\ n \in Account /\ k \in Nat /\ Whole(msgRecord[n][k])
        /\ msgcnt' = [msgcnt EXCEPT ![n] = k + 1] /\ msgRecord' = msgRecord
    BY <1>1, PublishedRecord
  <2>2. \A m \in Account : \A j \in Published(m)' : j \in Published(m) \/ (m = n /\ j = k)
    BY <2>1 DEF Published, TypeOK
  <2>3. \A m \in Account : \A j \in Published(m) : Whole(msgRecord[m][j])
    BY DEF RecordsWhole
  <2> HIDE DEF n, k
  <2> QED BY <2>1, <2>2, <2>3 DEF RecordsWhole
<1>2. CASE msgcnt' = msgcnt
  <2>1. \A n \in Account : \A k \in Published(n) : msgRecord'[n][k] = msgRecord[n][k]
    BY WriterKeepsRecords DEF RecordsKept
  <2>2. \A n \in Account : Published(n)' = Published(n)
    BY <1>2 DEF Published
  <2> QED BY <2>1, <2>2 DEF RecordsWhole
<1> QED BY <1>1, <1>2 DEF Writing, AddMessage, NotConcerned, Full, NotFull, LoadCount, StoreField, Added, history

\* The steps of add_message(), for the thread that makes them.
LEMMA WriterKeepsOwn == ASSUME IInv, NEW t \in Writers, Writing(t) PROVE WriterInv(t)'
<1> USE Types DEF IInv
<1>0. /\ pc \in [Thread -> WriterPc \cup ReaderPc] /\ i \in [Thread -> Nat] /\ t \in Thread
      /\ WriterInv(t)
  BY DEF TypeOK, Thread
<1>1. CASE AddMessage(t)
  <2>1. pc'[t] = "scan" /\ sent'[t] = sent[t] + 1 /\ sent[t] \in Nat
    BY <1>0, <1>1, NewMessage DEF AddMessage, Goto, TypeOK
  <2> QED BY <1>1, <2>1, NewMessage DEF WriterInv
<1>2. CASE NotConcerned(t) \/ Full(t)
  BY <1>0, <1>2 DEF NotConcerned, Full, WriterInv, writing
<1>3. CASE NotFull(t)
  <2>1. /\ pc'[t] = "load" /\ pc[t] = "scan" /\ field'[t] = 1 /\ UNCHANGED <<history, i, msg, sent>>
        /\ i[t] < AccountCount /\ Concerns(msg[t], i[t]) /\ msgcnt[i[t]] # MAX_RECORD_COUNT
    BY <1>0, <1>3 DEF NotFull, Goto, TypeOK
  <2>2. i[t] \in Account
    BY <1>0, <2>1 DEF Account
  <2>3. msgcnt[i[t]] < MAX_RECORD_COUNT
    <3>1. msgcnt[i[t]] \in Nat /\ msgcnt[i[t]] <= MAX_RECORD_COUNT /\ MAX_RECORD_COUNT \in Nat
      BY <2>2
    <3> HIDE DEF IInv
    <3> QED BY <2>1, <3>1
  <2>4. FilledUpTo(msgRecord[i[t]][msgcnt[i[t]]], msg[t], 1)
    BY DEF FilledUpTo
  <2> QED BY <1>0, <2>1, <2>2, <2>3, <2>4 DEF WriterInv, history
<1>4. CASE LoadCount(t)
  <2>1. /\ pc[t] = "load" /\ pc'[t] = "store" /\ reg'[t] = msgcnt[i[t]]
        /\ UNCHANGED <<history, i, field, msg, sent>>
    BY <1>0, <1>4 DEF LoadCount, Goto, TypeOK
  <2> QED BY <1>0, <2>1 DEF WriterInv, history
<1>5. CASE StoreField(t)
  <2>1. /\ pc[t] = "store" /\ pc'[t] = "load" /\ field'[t] = field[t] + 1
        /\ UNCHANGED <<msgcnt, i, msg, sent>>
    BY <1>0, <1>5 DEF StoreField, Goto, TypeOK
  <2>2. FilledUpTo(msgRecord'[i[t]][msgcnt[i[t]]], msg[t], field[t] + 1)
    BY <1>5, StoredField
  <2> QED BY <1>0, <2>1, <2>2 DEF WriterInv
<1>6. CASE StoreCount(t)
  <2>1. pc[t] = "store" /\ pc'[t] = "scan" /\ UNCHANGED <<msg, sent>>
    BY <1>0, <1>6 DEF StoreCount, Goto, writing
  <2> QED BY <1>0, <2>1 DEF WriterInv
<1>7. CASE Added(t)
  <2>1. pc'[t] = "idle" /\ msg'[t] = NULL /\ i'[t] = 0
    BY <1>0, <1>7 DEF Added, Goto, Index, TypeOK
  <2> QED BY <2>1 DEF WriterInv
<1> QED BY <1>1, <1>2, <1>3, <1>4, <1>5, <1>6, <1>7 DEF Writing

LEMMA WriterKeeps == ASSUME SingleWriter, IInv, NEW t \in Writers, Writing(t) PROVE IInv'
<1>1. \A u \in Writers : u = t
  BY DEF SingleWriter
<1>2. \A u \in Readers : pc'[u] = pc[u] /\ i'[u] = i[u]
  BY WriterBeside DEF Thread
<1>3. UNCHANGED reading
  BY WriterBeside
<1>4. TypeOK' /\ RecordsKept /\ RecordsWhole' /\ WriterInv(t)'
  BY WriterTypes, WriterKeepsRecords, WriterKeepsWhole, WriterKeepsOwn
<1>5. \A u \in Readers : ReaderInv(u)'
  BY <1>2, <1>3, <1>4, ReaderKeeps DEF reading
<1>6. DOMAIN output' = Readers
  BY <1>3 DEF reading, IInv
<1> QED BY <1>1, <1>4, <1>5, <1>6 DEF IInv
-----------------------------------------------------------------------------
(***************************************************************************)
(* The steps of a reader.                                                  *)
(***************************************************************************)

\* A step of a reader changes only what is its own.
LEMMA ReaderBeside ==
  ASSUME IInv, NEW t \in Readers, Reading(t)
  PROVE  /\ t \in Thread /\ t \notin Writers /\ UNCHANGED <<history, writing>>
         /\ pc' \in [Thread -> WriterPc \cup ReaderPc] /\ pc'[t] \in ReaderPc
         /\ \A u \in Thread \ {t} : pc'[u] = pc[u] /\ i'[u] = i[u]
         /\ \A u \in Readers \ {t} : /\ request'[u] = request[u] /\ start'[u] = start[u]
                                     /\ line'[u] = line[u] /\ output'[u] = output[u]
         /\ DOMAIN output' = Readers
<1> USE Types DEF IInv
<1>1. t \in Thread /\ t \notin Writers
  BY DEF Thread
<1>2. UNCHANGED <<history, writing>>
  BY DEF Reading, Ask, ReadAll, ReadSome, Start, InBound, Matches, SenderDiffers, ReceiverDiffers, Copy,
         LineCopied, EndOfHistory
<1>3. PICK to \in ReaderPc : pc' = [pc EXCEPT ![t] = to]
  <2>1. pc[t] \in ReaderPc /\ pc = [pc EXCEPT ![t] = pc[t]]
    BY <1>1 DEF TypeOK
  <2> QED BY <2>1 DEF Reading, Ask, ReadAll, ReadSome, Start, InBound, Matches, SenderDiffers, ReceiverDiffers,
                      Copy, LineCopied, EndOfHistory, Goto, ReaderPc
<1>4. \A u \in Thread \ {t} : i'[u] = i[u]
  BY DEF Reading, Ask, ReadAll, ReadSome, Start, InBound, Matches, SenderDiffers, ReceiverDiffers,
         Copy, LineCopied, EndOfHistory, Index, TypeOK
<1>5. \A u \in Readers \ {t} : /\ request'[u] = request[u] /\ start'[u] = start[u]
                              /\ line'[u] = line[u] /\ output'[u] = output[u]
  <2>1. CASE Ask(t)
    BY <2>1 DEF Ask, TypeOK
  <2>2. CASE ReadAll(t) \/ Start(t) \/ EndOfHistory(t)
    BY <2>2 DEF ReadAll, Start, EndOfHistory, TypeOK
  <2>3. CASE UNCHANGED reading
    BY <2>3 DEF reading
  <2>4. CASE Copy(t)
    BY <2>4 DEF Copy, TypeOK
  <2>5. CASE LineCopied(t)
    BY <2>5 DEF LineCopied, TypeOK
  <2> QED BY <2>1, <2>2, <2>3, <2>4, <2>5
          DEF Reading, ReadSome, InBound, Matches, SenderDiffers, ReceiverDiffers
<1>6. pc \in [Thread -> WriterPc \cup ReaderPc]
  BY DEF TypeOK
<1>7. DOMAIN output' = Readers
  BY DEF Reading, Ask, ReadAll, ReadSome, Start, InBound, Matches, SenderDiffers, ReceiverDiffers,
         Copy, LineCopied, EndOfHistory, reading
<1> QED BY <1>1, <1>2, <1>3, <1>4, <1>5, <1>6, <1>7

\* The account a reader looks at, and where it may be.
LEMMA ReaderFacts ==
  ASSUME IInv, NEW t \in Readers
  PROVE  /\ t \in Thread /\ i[t] \in Nat /\ start[t] \in Nat /\ ReaderInv(t) /\ MAX_RECORD_COUNT \in Nat
         /\ pc[t] # "idle" => /\ request[t] \in Request /\ request[t].username \in Account
                              /\ request[t].friend \in Account /\ request[t].number \in Nat
                              /\ Count(t) \in Nat /\ Count(t) <= MAX_RECORD_COUNT
         /\ pc[t] \in {"sender", "receiver", "copy"} =>
              /\ i[t] \in Published(request[t].username) /\ i[t] \in Place
              /\ Record(t) \in Slot /\ Whole(Record(t))
<1> USE Types DEF IInv
<1>1. t \in Thread /\ i[t] \in Nat /\ start[t] \in Nat /\ ReaderInv(t) /\ MAX_RECORD_COUNT \in Nat
  BY DEF Thread, TypeOK
<1>2. ASSUME pc[t] # "idle"
      PROVE  /\ request[t] \in Request /\ request[t].username \in Account
             /\ request[t].friend \in Account /\ request[t].number \in Nat
             /\ Count(t) \in Nat /\ Count(t) <= MAX_RECORD_COUNT
  <2>1. request[t] \in Request
    BY <1>2 DEF TypeOK
  <2> QED BY <2>1, RequestFields DEF Count
<1>3. ASSUME pc[t] \in {"sender", "receiver", "copy"}
      PROVE  /\ i[t] \in Published(request[t].username) /\ i[t] \in Place
             /\ Record(t) \in Slot /\ Whole(Record(t))
  <2>1. request[t].username \in Account /\ i[t] < Count(t)
    BY <1>1, <1>2, <1>3 DEF ReaderInv
  <2>2. i[t] \in Published(request[t].username)
    BY <2>1, <1>1, <1>2, <1>3 DEF Published, Count
  <2>3. i[t] \in Place
    BY <2>1, <2>2
  <2> QED BY <2>1, <2>2, <2>3 DEF RecordsWhole, Record
<1> QED BY <1>1, <1>2, <1>3

\* How the records that concern a friend grow as a reader goes on.
LEMMA WithNext ==
  ASSUME NEW n, NEW first \in Nat, NEW k \in Nat, NEW friend, first <= k
  PROVE  With(n, first, k + 1, friend) =
           With(n, first, k, friend) \cup (IF Concerns(msgRecord[n][k], friend) THEN {k} ELSE {})
<1>1. first .. (k + 1) - 1 = (first .. k - 1) \cup {k}
  OBVIOUS
<1> QED BY <1>1 DEF With

LEMMA WithNone == ASSUME NEW n, NEW k \in Nat, NEW friend PROVE With(n, k, k, friend) = {}
BY DEF With

\* The part of the reader's state that changes with its own steps, and the
\* values it may take.
ReaderTypes(t) ==
  /\ i \in [Thread -> Nat] /\ i[t] <= MAX_RECORD_COUNT
  /\ request \in [Readers -> Request \cup {NULL}] /\ (pc[t] # "idle" => request[t] \in Request)
  /\ start \in [Readers -> 0 .. MAX_RECORD_COUNT]
  /\ line \in [Readers -> [sender : Account \cup {NULL}, sender_length : Account \cup {NULL},
                           content : Content \cup {NULL}, content_length : Content \cup {NULL}]]

LEMMA ReaderTypesHold == ASSUME IInv, NEW t \in Readers PROVE ReaderTypes(t)
BY DEF IInv, TypeOK, ReaderTypes

\* What may be asked for is asked for; the answer is cleared.
LEMMA AskKeeps == ASSUME IInv, NEW t \in Readers, Ask(t) PROVE ReaderTypes(t)' /\ ReaderInv(t)'
<1>1. PICK r \in Request : request' = [request EXCEPT ![t] = r]
  BY DEF Ask
<1>2. /\ pc[t] = "idle" /\ pc'[t] = "limit" /\ output'[t] = NoLines
      /\ UNCHANGED <<i, start, line>>
  <2>1. pc[t] = "idle" /\ pc'[t] = "limit"
    BY ReaderFacts, ReaderBeside DEF Ask, Goto, IInv, TypeOK
  <2>2. output'[t] = NoLines
    BY DEF Ask, IInv
  <2> QED BY <2>1, <2>2 DEF Ask
<1>3. request'[t] = r /\ r \in Request /\ request' \in [Readers -> Request \cup {NULL}]
  BY <1>1 DEF IInv, TypeOK
<1>4. ReaderInv(t) /\ ReaderTypes(t)
  BY ReaderFacts, ReaderTypesHold
<1> QED BY <1>2, <1>3, <1>4 DEF ReaderInv, ReaderTypes, Walking

\* The reader begins with the message that the count and the number give.
LEMMA BeginKeeps ==
  ASSUME IInv, NEW t \in Readers, ReadAll(t) \/ ReadSome(t) \/ Start(t)
  PROVE  ReaderTypes(t)' /\ ReaderInv(t)'
<1>1. ReaderInv(t) /\ ReaderTypes(t) /\ t \in Thread
  BY ReaderFacts, ReaderTypesHold
<1>2. /\ pc[t] \in {"limit", "start"} /\ output[t] = NoLines /\ line[t] = NoLine
      /\ UNCHANGED <<history, request, line, output>>
  <2>1. pc[t] \in {"limit", "start"} /\ UNCHANGED <<history, request, line, output>>
    BY DEF ReadAll, ReadSome, Start, Goto, reading
  <2> QED BY <1>1, <2>1 DEF ReaderInv
<1>3. /\ request[t] \in Request /\ request[t].number \in Nat /\ request[t].username \in Account
      /\ Count(t) \in Nat /\ Count(t) <= MAX_RECORD_COUNT /\ MAX_RECORD_COUNT \in Nat
  BY <1>2, ReaderFacts
<1>4. CASE ReadSome(t)
  <2>1. pc'[t] = "start" /\ request[t].number < Count(t) /\ UNCHANGED <<i, start>>
    BY <1>1, <1>4 DEF ReadSome, Goto, IInv, TypeOK, reading
  <2> QED BY <1>1, <1>2, <1>3, <2>1 DEF ReaderInv, ReaderTypes, Count, history, Walking
<1>5. ASSUME NEW k \in Nat, k <= Count(t), pc'[t] = "bound", i' = [i EXCEPT ![t] = k],
             start' = [start EXCEPT ![t] = k]
      PROVE  ReaderTypes(t)' /\ ReaderInv(t)'
  <2>1. i'[t] = k /\ start'[t] = k /\ start \in [Readers -> 0 .. MAX_RECORD_COUNT] /\ i \in [Thread -> Nat]
    BY <1>1, <1>5 DEF ReaderTypes
  <2>2. k \in 0 .. MAX_RECORD_COUNT
    BY <1>3, <1>5
  <2>3. ReaderTypes(t)'
    BY <1>1, <1>2, <1>3, <1>5, <2>1, <2>2 DEF ReaderTypes
  <2>4. With(request[t].username, k, k, request[t].friend)' = {}
    BY <1>5 DEF With
  <2>5. With(request[t].username, start[t], i[t], request[t].friend)' = {}
    BY <2>1, <2>4
  <2>6. NoLines = [j \in {} |-> LineOf(msgRecord'[request[t].username][j])]
    BY DEF NoLines
  <2>7. output'[t] = NoLines /\ line'[t] = NoLine /\ k <= msgcnt'[request[t].username]
        /\ request'[t] = request[t]
    BY <1>2, <1>5 DEF Count, history
  <2> QED BY <1>5, <2>1, <2>3, <2>5, <2>6, <2>7 DEF ReaderInv
<1>6. CASE ReadAll(t)
  <2>1. pc'[t] = "bound" /\ i' = [i EXCEPT ![t] = 0] /\ start' = [start EXCEPT ![t] = 0]
    BY <1>1, <1>6 DEF ReadAll, Goto, Index, IInv, TypeOK
  <2>2. 0 \in Nat /\ 0 <= Count(t)
    BY <1>3
  <2> QED BY <1>5, <2>1, <2>2
<1>7. CASE Start(t)
  <2> DEFINE k == Count(t) - request[t].number
  <2>1. pc'[t] = "bound" /\ i' = [i EXCEPT ![t] = k] /\ start' = [start EXCEPT ![t] = k]
    BY <1>1, <1>7 DEF Start, Goto, Index, IInv, TypeOK
  <2>2. request[t].number < Count(t)
    BY <1>1, <1>7 DEF Start, Goto, ReaderInv
  <2>3. k \in Nat /\ k <= Count(t)
    BY <1>3, <2>2
  <2> HIDE DEF k
  <2> QED BY <1>5, <2>1, <2>3
<1> QED BY <1>4, <1>6, <1>7

\* A reader looks at a record that is not concerned, or finds it is.
LEMMA LookKeeps ==
  ASSUME IInv, NEW t \in Readers, InBound(t) \/ Matches(t) \/ SenderDiffers(t) \/ ReceiverDiffers(t)
  PROVE  ReaderTypes(t)' /\ ReaderInv(t)'
<1> DEFINE n == request[t].username
           friend == request[t].friend
<1>1. ReaderInv(t) /\ ReaderTypes(t) /\ t \in Thread /\ i[t] \in Nat /\ start[t] \in Nat
  BY ReaderFacts, ReaderTypesHold
<1>2. /\ pc[t] \in {"bound", "sender", "receiver"} /\ line[t] = NoLine
      /\ UNCHANGED <<history, request, start, line, output>>
  <2>1. pc[t] \in {"bound", "sender", "receiver"} /\ UNCHANGED <<history, request, start, line, output>>
    BY DEF InBound, Matches, SenderDiffers, ReceiverDiffers, Goto, reading
  <2> QED BY <1>1, <2>1 DEF ReaderInv
<1>3. /\ n \in Account /\ request[t] \in Request /\ Count(t) \in Nat /\ MAX_RECORD_COUNT \in Nat
      /\ Count(t) <= MAX_RECORD_COUNT /\ Count(t) = msgcnt[n]
  BY <1>2, ReaderFacts DEF Count
<1>4. /\ start[t] <= i[t] /\ i[t] <= msgcnt[n]
      /\ output[t] = [k \in With(n, start[t], i[t], friend) |-> LineOf(msgRecord[n][k])]
  BY <1>1, <1>2 DEF ReaderInv, Walking
<1>5. pc \in [Thread -> WriterPc \cup ReaderPc] /\ i \in [Thread -> Nat]
  BY DEF IInv, TypeOK
<1>6. ASSUME pc'[t] \in {"sender", "receiver", "copy"}, i' = i, i[t] < msgcnt[n],
             pc'[t] = "receiver" => Record(t).sender # friend,
             pc'[t] = "copy" => Concerns(Record(t), friend)
      PROVE  ReaderTypes(t)' /\ ReaderInv(t)'
  <2>1. ReaderTypes(t)'
    BY <1>1, <1>2, <1>3, <1>6 DEF ReaderTypes
  <2>2. \A k \in DOMAIN Copied : line[t][Copied[k]] = NULL
    BY <1>2 DEF Copied, NoLine
  <2>3. With(n, start[t], i[t], friend)' = With(n, start[t], i[t], friend)
    BY <1>2, <1>6 DEF With, history
  <2>4. Record(t)' = Record(t) /\ Count(t)' = msgcnt[n]
    BY <1>2, <1>6 DEF Record, Count, history
  <2>5. msgRecord' = msgRecord /\ msgcnt' = msgcnt
    BY <1>2 DEF history
  <2> QED BY <1>2, <1>4, <1>6, <2>1, <2>2, <2>3, <2>4, <2>5 DEF ReaderInv
<1>7. CASE InBound(t)
  <2>1. pc'[t] = "sender" /\ i' = i /\ i[t] < msgcnt[n]
    BY <1>3, <1>5, <1>1, <1>7 DEF InBound, Goto
  <2> QED BY <1>6, <2>1
<1>8. CASE Matches(t)
  <2>1. pc[t] \in {"sender", "receiver"} /\ pc'[t] = "copy" /\ i' = i
    BY <1>5, <1>1, <1>8 DEF Matches, Goto
  <2>2. i[t] < msgcnt[n]
    BY <1>1, <1>3, <2>1 DEF ReaderInv
  <2>3. Concerns(Record(t), friend)
    BY <1>8 DEF Matches, Concerns
  <2> QED BY <1>6, <2>1, <2>2, <2>3
<1>9. CASE SenderDiffers(t)
  <2>1. pc[t] = "sender" /\ pc'[t] = "receiver" /\ i' = i /\ Record(t).sender # friend
    BY <1>5, <1>1, <1>9 DEF SenderDiffers, Goto
  <2>2. i[t] < msgcnt[n]
    BY <1>1, <1>3, <2>1 DEF ReaderInv
  <2> QED BY <1>6, <2>1, <2>2
<1>10. CASE ReceiverDiffers(t)
  <2>1. /\ pc[t] = "receiver" /\ pc'[t] = "bound" /\ i' = [i EXCEPT ![t] = i[t] + 1]
        /\ Record(t).receiver # friend
    BY <1>5, <1>1, <1>10 DEF ReceiverDiffers, Goto, Index
  <2>2. i[t] < msgcnt[n] /\ ~Concerns(Record(t), friend)
    BY <1>1, <1>3, <2>1 DEF ReaderInv, Concerns
  <2>3. With(n, start[t], i[t] + 1, friend) = With(n, start[t], i[t], friend)
    <3>1. ~Concerns(msgRecord[n][i[t]], friend)
      BY <2>2 DEF Record
    <3>2. With(n, start[t], i[t] + 1, friend) =
            With(n, start[t], i[t], friend) \cup (IF Concerns(msgRecord[n][i[t]], friend) THEN {i[t]} ELSE {})
      BY <1>1, <1>4, WithNext
    <3> QED BY <3>1, <3>2
  <2>4. i'[t] = i[t] + 1 /\ i' \in [Thread -> Nat]
    BY <1>1, <1>5, <2>1
  <2>5. start[t] <= i[t] + 1 /\ i[t] + 1 <= msgcnt[n] /\ i[t] + 1 <= MAX_RECORD_COUNT
    BY <1>1, <1>3, <1>4, <2>2
  <2>6. ReaderTypes(t)'
    <3>1. request' = request /\ start' = start /\ line' = line
      BY <1>2
    <3> QED BY <1>1, <1>3, <2>4, <2>5, <3>1 DEF ReaderTypes
  <2>7. With(n, start[t], i[t], friend)' = With(n, start[t], i[t] + 1, friend)
    BY <1>2, <2>4 DEF With, history
  <2>8. msgRecord' = msgRecord /\ msgcnt' = msgcnt
    BY <1>2 DEF history
  <2> QED BY <1>2, <1>4, <2>1, <2>3, <2>4, <2>5, <2>6, <2>7, <2>8 DEF ReaderInv
<1> QED BY <1>7, <1>8, <1>9, <1>10

\* A part is copied from the record that the reader is at.
LEMMA CopyKeeps == ASSUME IInv, NEW t \in Readers, Copy(t) PROVE ReaderTypes(t)' /\ ReaderInv(t)'
<1>1. ReaderInv(t) /\ ReaderTypes(t) /\ t \in Thread /\ pc[t] = "copy"
  BY ReaderFacts, ReaderTypesHold DEF Copy
<1>2. UNCHANGED <<history, pc, i, request, start, output>>
  BY DEF Copy
<1>3. Record(t) \in Slot /\ Whole(Record(t)) /\ request[t] \in Request
  BY <1>1, ReaderFacts
<1>4. PICK k \in DOMAIN Copied : line' = [line EXCEPT ![t][Copied[k]] = Record(t)[Copied[k]]]
  BY DEF Copy
<1>5. /\ Copied[k] \in {"sender", "sender_length", "content", "content_length"}
      /\ LineOf(Record(t))[Copied[k]] = Record(t)[Copied[k]]
  BY <1>4 DEF Copied, LineOf
<1>6. LineOf(Record(t)) \in [sender : Account, sender_length : Account, content : Content, content_length : Content]
  BY <1>3 DEF Whole, LineOf
<1>7. line[t] \in [sender : Account \cup {NULL}, sender_length : Account \cup {NULL},
                   content : Content \cup {NULL}, content_length : Content \cup {NULL}]
  BY <1>1 DEF ReaderTypes
<1>8. line'[t] = [line[t] EXCEPT ![Copied[k]] = LineOf(Record(t))[Copied[k]]]
  BY <1>1, <1>4, <1>5 DEF ReaderTypes
<1>9. \A j \in DOMAIN Copied : line[t][Copied[j]] \in {NULL, LineOf(Record(t))[Copied[j]]}
  BY <1>1 DEF ReaderInv
<1>10. \A j \in DOMAIN Copied : Copied[j] \in {"sender", "sender_length", "content", "content_length"}
  BY DEF Copied
<1>11. \A j \in DOMAIN Copied : line'[t][Copied[j]] \in {NULL, LineOf(Record(t))[Copied[j]]}
  BY <1>4, <1>7, <1>8, <1>9, <1>10
<1>12. line'[t] \in [sender : Account \cup {NULL}, sender_length : Account \cup {NULL},
                     content : Content \cup {NULL}, content_length : Content \cup {NULL}]
  BY <1>5, <1>6, <1>7, <1>8
<1>13. line' \in [Readers -> [sender : Account \cup {NULL}, sender_length : Account \cup {NULL},
                              content : Content \cup {NULL}, content_length : Content \cup {NULL}]]
  <2>1. line' = [line EXCEPT ![t] = line'[t]]
    BY <1>1, <1>4, <1>8 DEF ReaderTypes
  <2> QED BY <1>1, <1>12, <2>1 DEF ReaderTypes
<1>14. /\ msgRecord' = msgRecord /\ msgcnt' = msgcnt /\ Record(t)' = Record(t) /\ Count(t)' = Count(t)
       /\ With(request[t].username, start[t], i[t], request[t].friend)'
            = With(request[t].username, start[t], i[t], request[t].friend)
  BY <1>2 DEF history, Record, Count, With
<1>15. ReaderTypes(t)'
  BY <1>1, <1>2, <1>13 DEF ReaderTypes
<1>16. ReaderInv(t)'
  BY <1>1, <1>2, <1>11, <1>14 DEF ReaderInv, Walking
<1> QED BY <1>15, <1>16

\* The line that is copied is the record's, and the reader goes on.
LEMMA LineKeeps == ASSUME IInv, NEW t \in Readers, LineCopied(t) PROVE ReaderTypes(t)' /\ ReaderInv(t)'
<1> DEFINE n == request[t].username
           friend == request[t].friend
           copied == With(n, start[t], i[t], friend)
<1>1. /\ ReaderInv(t) /\ ReaderTypes(t) /\ t \in Thread /\ i[t] \in Nat /\ start[t] \in Nat
      /\ pc[t] = "copy" /\ i[t] \in Place
  BY ReaderFacts, ReaderTypesHold DEF LineCopied, Goto
<1>2. /\ n \in Account /\ request[t] \in Request /\ Count(t) \in Nat /\ MAX_RECORD_COUNT \in Nat
      /\ Count(t) <= MAX_RECORD_COUNT /\ Count(t) = msgcnt[n]
  BY <1>1, ReaderFacts DEF Count
<1>3. /\ start[t] <= i[t] /\ i[t] < msgcnt[n] /\ Concerns(Record(t), friend)
      /\ output[t] = [k \in copied |-> LineOf(msgRecord[n][k])]
  BY <1>1, <1>2 DEF ReaderInv, Walking
<1>4. /\ msgRecord' = msgRecord /\ msgcnt' = msgcnt /\ request' = request /\ start' = start
      /\ pc'[t] = "bound" /\ i' = [i EXCEPT ![t] = i[t] + 1] /\ line' = [line EXCEPT ![t] = NoLine]
  BY <1>1 DEF LineCopied, Goto, Index, history, IInv, TypeOK
<1>5. line[t] = LineOf(msgRecord[n][i[t]])
  <2>1. line[t] \in [sender : Account \cup {NULL}, sender_length : Account \cup {NULL},
                     content : Content \cup {NULL}, content_length : Content \cup {NULL}]
    BY <1>1 DEF ReaderTypes
  <2>2. \A k \in DOMAIN Copied : line[t][Copied[k]] = LineOf(Record(t))[Copied[k]]
    <3>1. \A k \in DOMAIN Copied : line[t][Copied[k]] # NULL
      BY DEF LineCopied
    <3>2. \A k \in DOMAIN Copied : line[t][Copied[k]] \in {NULL, LineOf(Record(t))[Copied[k]]}
      BY <1>1 DEF ReaderInv
    <3> QED BY <3>1, <3>2
  <2>3. /\ line[t].sender = LineOf(Record(t)).sender
        /\ line[t].sender_length = LineOf(Record(t)).sender_length
        /\ line[t].content = LineOf(Record(t)).content
        /\ line[t].content_length = LineOf(Record(t)).content_length
    BY <2>2 DEF Copied
  <2> QED BY <2>1, <2>3 DEF LineOf, Record
<1>6. output'[t] = [k \in copied \cup {i[t]} |-> IF k = i[t] THEN line[t] ELSE output[t][k]]
  <2>1. DOMAIN output[t] = copied
    BY <1>3
  <2> QED BY <2>1 DEF LineCopied, IInv
<1>7. i[t] \notin copied
  BY <1>1 DEF With
<1>8. With(n, start[t], i[t] + 1, friend) = copied \cup {i[t]}
  BY <1>1, <1>3, WithNext DEF Record
<1>9. output'[t] = [k \in With(n, start[t], i[t] + 1, friend) |-> LineOf(msgRecord[n][k])]
  BY <1>3, <1>5, <1>6, <1>7, <1>8
<1>10. i'[t] = i[t] + 1 /\ i' \in [Thread -> Nat] /\ line'[t] = NoLine
  BY <1>1, <1>4 DEF ReaderTypes
<1>11. start[t] <= i[t] + 1 /\ i[t] + 1 <= msgcnt[n] /\ i[t] + 1 <= MAX_RECORD_COUNT
  BY <1>1, <1>2, <1>3
<1>12. ReaderTypes(t)'
  <2>1. NoLine \in [sender : Account \cup {NULL}, sender_length : Account \cup {NULL},
                     content : Content \cup {NULL}, content_length : Content \cup {NULL}]
    BY DEF NoLine
  <2>2. request[t] \in Request
    BY <1>2
  <2> HIDE DEF n, friend, copied
  <2> QED BY <1>1, <1>4, <1>10, <1>11, <2>1, <2>2 DEF ReaderTypes
<1>13. With(n, start[t], i[t], friend)' = With(n, start[t], i[t] + 1, friend)
  BY <1>4, <1>10 DEF With
<1> QED BY <1>4, <1>9, <1>10, <1>11, <1>12, <1>13 DEF ReaderInv

LEMMA EndKeeps == ASSUME IInv, NEW t \in Readers, EndOfHistory(t) PROVE ReaderTypes(t)' /\ ReaderInv(t)'
<1>1. ReaderInv(t) /\ ReaderTypes(t) /\ t \in Thread /\ pc[t] = "bound" /\ MAX_RECORD_COUNT \in Nat
  BY ReaderFacts, ReaderTypesHold DEF EndOfHistory, Goto
<1>2. /\ pc'[t] = "idle" /\ i' = [i EXCEPT ![t] = 0] /\ start' = [start EXCEPT ![t] = 0]
      /\ request' = request /\ line' = line
  BY <1>1 DEF EndOfHistory, Goto, Index, IInv, TypeOK
<1>3. 0 \in Nat /\ 0 \in 0 .. MAX_RECORD_COUNT /\ 0 <= MAX_RECORD_COUNT
  BY <1>1
<1>4. ReaderTypes(t)'
  BY <1>1, <1>2, <1>3 DEF ReaderTypes
<1>5. ReaderInv(t)'
  BY <1>1, <1>2 DEF ReaderInv, ReaderTypes, Walking
<1> QED BY <1>4, <1>5

LEMMA ReadingKeeps == ASSUME IInv, NEW t \in Readers, Reading(t) PROVE IInv'
<1>1. ReaderTypes(t)' /\ ReaderInv(t)'
  BY AskKeeps, BeginKeeps, LookKeeps, CopyKeeps, LineKeeps, EndKeeps DEF Reading
<1>2. /\ t \in Thread /\ t \notin Writers /\ UNCHANGED <<history, writing>>
      /\ pc' \in [Thread -> WriterPc \cup ReaderPc] /\ pc'[t] \in ReaderPc
      /\ \A u \in Thread \ {t} : pc'[u] = pc[u] /\ i'[u] = i[u]
      /\ \A u \in Readers \ {t} : /\ request'[u] = request[u] /\ start'[u] = start[u]
                                  /\ line'[u] = line[u] /\ output'[u] = output[u]
      /\ DOMAIN output' = Readers
  BY ReaderBeside
<1>3. /\ msgRecord' = msgRecord /\ msgcnt' = msgcnt /\ reg' = reg /\ field' = field /\ msg' = msg
      /\ sent' = sent
  BY <1>2 DEF history, writing
<1>4. /\ \A u \in Writers : u \in Thread /\ pc'[u] = pc[u] /\ i'[u] = i[u]
      /\ \A u \in Readers \ {t} : pc'[u] = pc[u] /\ i'[u] = i[u]
  BY <1>2 DEF Thread
<1>5. TypeOK'
  <2>1. TypeOK
    BY DEF IInv
  <2>2. \A u \in Writers : /\ pc'[u] \in WriterPc /\ i'[u] <= AccountCount
                           /\ pc'[u] # "idle" => msg'[u] \in Message
                           /\ pc'[u] \in {"load", "store"} => i'[u] < AccountCount
    BY <2>1, <1>3, <1>4 DEF TypeOK
  <2>3. \A u \in Readers : /\ pc'[u] \in ReaderPc /\ i'[u] <= MAX_RECORD_COUNT
                           /\ pc'[u] # "idle" => request'[u] \in Request
    BY <2>1, <1>1, <1>2, <1>4 DEF TypeOK, ReaderTypes
  <2> QED BY <2>1, <2>2, <2>3, <1>1, <1>2, <1>3 DEF TypeOK, ReaderTypes
<1>6. RecordsKept
  BY <1>3, Types DEF RecordsKept, IInv
<1>7. \A u \in Readers : ReaderInv(u)'
  BY <1>1, <1>2, <1>4, <1>5, <1>6, ReaderKeeps
<1>8. \A u \in Writers : WriterInv(u)'
  BY <1>3, <1>4 DEF IInv, WriterInv
<1>9. RecordsWhole'
  BY <1>3 DEF IInv, RecordsWhole, Published
<1> QED BY <1>2, <1>5, <1>7, <1>8, <1>9 DEF IInv
-----------------------------------------------------------------------------
LEMMA InvNext == SingleWriter /\ IInv /\ [Next]_vars => IInv'
<1> SUFFICES ASSUME SingleWriter, IInv, [Next]_vars PROVE IInv'
  OBVIOUS
<1>1. CASE UNCHANGED vars
  <2>1. UNCHANGED <<msgRecord, msgcnt, pc, i, reg, field, msg, sent, request, start, line, output>>
    BY <1>1 DEF vars, history, writing, reading
  <2>2. TypeOK' /\ RecordsWhole'
    BY <2>1 DEF IInv, TypeOK, RecordsWhole, Published
  <2>3. \A t \in Writers : WriterInv(t)'
    BY <2>1 DEF IInv, WriterInv
  <2>4. RecordsKept
    BY <2>1, Types DEF RecordsKept, IInv
  <2>5. \A t \in Readers : ReaderInv(t)'
    BY <2>1, <2>2, <2>4, ReaderKeeps
  <2> QED BY <2>1, <2>2, <2>3, <2>5 DEF IInv
<1> QED BY <1>1, WriterKeeps, ReadingKeeps DEF Next

LEMMA Inductive == ASSUME SingleWriter PROVE Spec => []IInv
BY InvInit, InvNext, PTL DEF Spec

\* With one writer, no index leaves the records and every thread is at a
\* known place, however the readers' steps fall between the writer's.
THEOREM TypeCorrect == ASSUME SingleWriter PROVE Spec => []TypeOK
<1>1. IInv => TypeOK
  BY DEF IInv
<1> QED BY <1>1, Inductive, PTL

\* With one writer, the count of a history never goes back and a recorded
\* message never changes.
THEOREM HistoryStays == ASSUME SingleWriter PROVE Spec => RecordsStay
<1>1. IInv /\ [Next]_vars => [RecordsKept]_vars
  <2> SUFFICES ASSUME IInv, Next PROVE RecordsKept
    OBVIOUS
  <2>1. ASSUME NEW t \in Readers, Reading(t) PROVE RecordsKept
    BY <2>1, ReaderBeside, Types DEF RecordsKept, IInv, history
  <2> QED BY <2>1, WriterKeepsRecords DEF Next
<1>2. IInv /\ [Next]_vars =>
        [\A n \in Account : /\ msgcnt[n] <= msgcnt'[n]
                            /\ \A k \in Published(n) : msgRecord'[n][k] = msgRecord[n][k]]_vars
  BY <1>1 DEF RecordsKept
<1> QED BY <1>2, Inductive, PTL DEF Spec, RecordsStay
-----------------------------------------------------------------------------
(***************************************************************************)
(* The two sides of a conversation remember it alike.                      *)
(***************************************************************************)
LEMMA StillPublished ==
  ASSUME IInv, IInv', RecordsKept, NEW n \in Account, NEW k \in Published(n)
  PROVE  k \in Published(n)' /\ msgRecord'[n][k] = msgRecord[n][k] /\ Number(n, k)' = Number(n, k)
<1>1. msgcnt[n] \in Nat /\ msgcnt'[n] \in Nat /\ msgcnt[n] <= msgcnt'[n]
  BY HistoryAssumption DEF IInv, TypeOK, RecordsKept
<1>2. k \in Published(n)'
  BY <1>1 DEF Published
<1>3. msgRecord'[n][k] = msgRecord[n][k]
  BY DEF RecordsKept
<1> QED BY <1>2, <1>3 DEF Number

LEMMA NumberIsNat ==
  ASSUME IInv, NEW n \in Account, NEW k \in Published(n)
  PROVE  /\ Number(n, k) \in Nat /\ MessageOf(msgRecord[n][k]) \in Message
         /\ MessageOf(msgRecord[n][k]).content[2] = Number(n, k)
<1>1. msgRecord[n][k].content \in Content /\ Whole(msgRecord[n][k])
  BY DEF IInv, RecordsWhole, Whole
<1> QED BY <1>1, HistoryAssumption DEF Number, Content, MessageOf, Message, Whole

\* What an account keeps, or is too full for, stays so.
LEMMA StillKeeps ==
  ASSUME IInv, IInv', RecordsKept, NEW n \in Account, NEW m, Keeps(n, m)
  PROVE  Keeps(n, m)'
<1>1. CASE \E k \in Published(n) : MessageOf(msgRecord[n][k]) = m
  <2>1. PICK k \in Published(n) : MessageOf(msgRecord[n][k]) = m
    BY <1>1
  <2>2. k \in Published(n)' /\ msgRecord'[n][k] = msgRecord[n][k]
    BY StillPublished
  <2>3. \E j \in Published(n)' : MessageOf(msgRecord'[n][j]) = m
    BY <2>1, <2>2
  <2> QED BY <2>3 DEF Keeps
<1>2. CASE msgcnt[n] = MAX_RECORD_COUNT /\ \A k \in Published(n) : Number(n, k) < m.content[2]
  <2>1. msgcnt'[n] = MAX_RECORD_COUNT
    <3>1. msgcnt[n] <= msgcnt'[n] /\ msgcnt'[n] <= MAX_RECORD_COUNT /\ msgcnt'[n] \in Nat
          /\ MAX_RECORD_COUNT \in Nat
      BY HistoryAssumption DEF IInv, TypeOK, RecordsKept
    <3> QED BY <3>1, <1>2
  <2>2. Published(n)' = Published(n)
    BY <2>1, <1>2 DEF Published
  <2>3. \A k \in Published(n) : Number(n, k)' = Number(n, k)
    BY StillPublished
  <2>4. \A k \in Published(n)' : Number(n, k)' < m.content[2]
    BY <1>2, <2>2, <2>3
  <2> QED BY <2>1, <2>4 DEF Keeps
<1> QED BY <1>1, <1>2 DEF Keeps

\* A step that publishes nothing leaves what has been published in order.
LEMMA OrderQuiet ==
  ASSUME IInv, IInv', RecordsKept, OrderInv, msgcnt' = msgcnt
  PROVE  /\ \A n \in Account : Published(n)' = Published(n)
         /\ \A n \in Account : \A k \in Published(n) :
              msgRecord'[n][k] = msgRecord[n][k] /\ Number(n, k)' = Number(n, k)
         /\ Ordered'
<1>1. \A n \in Account : Published(n)' = Published(n)
  BY DEF Published
<1>2. \A n \in Account : \A k \in Published(n) :
        msgRecord'[n][k] = msgRecord[n][k] /\ Number(n, k)' = Number(n, k)
  BY StillPublished
<1>3. Ordered'
  BY <1>1, <1>2 DEF OrderInv, Ordered
<1> QED BY <1>1, <1>2, <1>3

LEMMA OrderKept ==
  ASSUME SingleWriter, IInv, IInv', OrderInv, NEW t \in Writers, Writing(t), ~StoreCount(t)
  PROVE  OrderInv'
<1> USE Types DEF IInv
<1>1. RecordsKept /\ msgcnt' = msgcnt
  BY WriterKeepsRecords DEF Writing, AddMessage, NotConcerned, Full, NotFull, LoadCount, StoreField, Added, history
<1>2. /\ \A n \in Account : Published(n)' = Published(n)
      /\ \A n \in Account : \A k \in Published(n) :
           msgRecord'[n][k] = msgRecord[n][k] /\ Number(n, k)' = Number(n, k) /\ Number(n, k) \in Nat
      /\ Ordered'
  BY <1>1, OrderQuiet, NumberIsNat
<1>3. \A n \in Account : \A m : Keeps(n, m) => Keeps(n, m)'
  BY <1>1, StillKeeps
<1>4. /\ t \in Thread /\ i[t] \in Nat /\ i'[t] \in Nat /\ sent[t] \in Nat /\ \A u \in Writers : u = t
      /\ pc \in [Thread -> WriterPc \cup ReaderPc] /\ i \in [Thread -> Nat] /\ WriterInv(t)
  <2>1. \A u \in Writers : u = t
    BY DEF SingleWriter
  <2>2. t \in Thread /\ WriterInv(t)
    BY DEF Thread
  <2>3. pc \in [Thread -> WriterPc \cup ReaderPc] /\ i \in [Thread -> Nat] /\ i' \in [Thread -> Nat]
    BY DEF TypeOK
  <2>4. sent[t] \in Nat
    BY HistoryAssumption DEF TypeOK
  <2> QED BY <2>1, <2>2, <2>3, <2>4
<1>5. \A n \in Account : n \in Nat /\ n < AccountCount
  BY DEF Account
<1>6. CASE AddMessage(t)
  <2>1. pc[t] = "idle" /\ i'[t] = 0 /\ sent'[t] = sent[t] + 1
    BY <1>4, <1>6, NewMessage DEF AddMessage, Goto, Index, TypeOK
  <2>2. \A n \in Account : \A k \in Published(n) : Number(n, k) <= sent[t]
    BY DEF OrderInv, Newest
  <2>3. Newest(t)'
    BY <1>2, <1>4, <2>1, <2>2 DEF Newest
  <2>4. Passed(t)'
    BY <1>5, <2>1 DEF Passed
  <2>5. Shared'
    BY <1>2, <1>3, <1>4, <2>1 DEF OrderInv, Shared, Coming
  <2> QED BY <1>2, <1>4, <2>3, <2>4, <2>5 DEF OrderInv
<1>7. CASE NotConcerned(t) \/ Full(t)
  <2> DEFINE n == i[t]
  <2>1. /\ pc[t] = "scan" /\ pc' = pc /\ n \in Account /\ i'[t] = n + 1 /\ UNCHANGED <<msg, sent>>
        /\ \/ ~Concerns(msg[t], n)
           \/ msgcnt[n] = MAX_RECORD_COUNT
    BY <1>4, <1>7 DEF NotConcerned, Full, Index, writing, Account
  <2>2. \A m \in Account : n + 1 <= m => n <= m
    BY <1>5, <2>1
  <2>3. Newest(t)'
    BY <1>2, <2>1, <2>2 DEF OrderInv, Newest
  <2>4. Concerns(msg[t], n) => Keeps(n, msg[t])
    <3>1. msg[t].content[2] = sent[t]
      BY <1>4, <2>1 DEF WriterInv
    <3>2. \A k \in Published(n) : Number(n, k) < sent[t]
      BY <1>5, <2>1 DEF OrderInv, Newest
    <3> QED BY <2>1, <3>1, <3>2 DEF Keeps
  <2>5. \A m \in Account : m < n + 1 => m < n \/ m = n
    BY <1>5, <2>1
  <2>6. \A m \in Account : m < n + 1 /\ Concerns(msg[t], m) => Keeps(m, msg[t])
    BY <2>1, <2>4, <2>5 DEF OrderInv, Passed
  <2>7. Passed(t)'
    BY <1>3, <2>1, <2>6 DEF Passed
  <2>8. ASSUME NEW m \in Account, NEW x, x = msg[t], Concerns(x, m), n <= m
        PROVE  Keeps(m, x) \/ n + 1 <= m
    BY <1>5, <2>1, <2>4, <2>8
  <2>9. Shared'
    <3> SUFFICES ASSUME NEW l \in Account, NEW m \in Account, NEW k \in Published(l),
                        NEW x, x = MessageOf(msgRecord[l][k]), Concerns(x, m)
                 PROVE  Keeps(m, x)' \/ Coming(m, x)'
      BY <1>2 DEF Shared, Concerns, MessageOf
    <3>1. Keeps(m, x) \/ (x = msg[t] /\ n <= m)
      BY <1>4 DEF OrderInv, Shared, Coming, Concerns, MessageOf
    <3>2. Keeps(m, x) \/ (x = msg[t] /\ n + 1 <= m)
      BY <2>8, <3>1
    <3>3. CASE Keeps(m, x)
      BY <1>3, <3>3
    <3>4. CASE x = msg[t] /\ n + 1 <= m
      BY <1>4, <2>1, <3>4 DEF Coming
    <3> QED BY <3>2, <3>3, <3>4
  <2> QED BY <1>2, <1>4, <2>3, <2>7, <2>9 DEF OrderInv
<1>8. CASE NotFull(t) \/ LoadCount(t) \/ StoreField(t)
  <2>1. pc[t] # "idle" /\ pc'[t] # "idle" /\ UNCHANGED <<i, msg, sent>>
    BY <1>4, <1>8 DEF NotFull, LoadCount, StoreField, Goto
  <2>2. Newest(t)'
    BY <1>2, <2>1 DEF OrderInv, Newest
  <2>3. Passed(t)'
    BY <1>3, <2>1 DEF OrderInv, Passed
  <2>4. Shared'
    <3> SUFFICES ASSUME NEW l \in Account, NEW m \in Account, NEW k \in Published(l),
                        NEW x, x = MessageOf(msgRecord[l][k]), Concerns(x, m)
                 PROVE  Keeps(m, x)' \/ Coming(m, x)'
      BY <1>2 DEF Shared, Concerns, MessageOf
    <3>1. Keeps(m, x) \/ (x = msg[t] /\ i[t] <= m)
      BY <1>4 DEF OrderInv, Shared, Coming, Concerns, MessageOf
    <3> QED BY <1>3, <2>1, <3>1 DEF Coming
  <2> QED BY <1>2, <1>4, <2>2, <2>3, <2>4 DEF OrderInv
<1>9. CASE Added(t)
  <2>1. pc'[t] = "idle" /\ i[t] = AccountCount /\ sent' = sent
    BY <1>4, <1>9 DEF Added, Goto
  <2>2. Newest(t)'
    BY <1>2, <2>1 DEF OrderInv, Newest
  <2>3. Passed(t)'
    BY <2>1 DEF Passed
  <2>4. Shared'
    <3> SUFFICES ASSUME NEW l \in Account, NEW m \in Account, NEW k \in Published(l),
                        NEW x, x = MessageOf(msgRecord[l][k]), Concerns(x, m)
                 PROVE  Keeps(m, x)'
      BY <1>2 DEF Shared, Concerns, MessageOf
    <3>1. ~(i[t] <= m)
      BY <1>5, <2>1
    <3>2. Keeps(m, x)
      BY <1>4, <3>1 DEF OrderInv, Shared, Coming, Concerns, MessageOf
    <3> QED BY <1>3, <3>2
  <2> QED BY <1>2, <1>4, <2>2, <2>3, <2>4 DEF OrderInv
<1> QED BY <1>6, <1>7, <1>8, <1>9 DEF Writing

\* The message that is published is newer than those before it, and the
\* accounts passed already keep it.
LEMMA OrderPublished ==
  ASSUME SingleWriter, IInv, IInv', OrderInv, NEW t \in Writers, StoreCount(t)
  PROVE  OrderInv'
<1> DEFINE n == i[t]
           new == msgcnt[n]
<1> USE Types DEF IInv
<1>1. /\ t \in Thread /\ pc[t] = "store" /\ pc'[t] = "scan" /\ i'[t] = n + 1 /\ i[t] \in Nat
      /\ UNCHANGED <<msg, sent>> /\ sent[t] \in Nat
  BY HistoryAssumption DEF StoreCount, Goto, Index, writing, Thread, TypeOK
<1>2. /\ n \in Account /\ new \in Nat /\ msg[t] \in Message /\ Concerns(msg[t], n)
      /\ msgcnt' = [msgcnt EXCEPT ![n] = new + 1] /\ msgRecord' = msgRecord
      /\ MessageOf(msgRecord[n][new]) = msg[t]
  BY PublishedRecord
<1>3. \A u \in Writers : u = t
  BY DEF SingleWriter
<1>4. RecordsKept
  BY WriterKeepsRecords DEF Writing
<1>5. Number(n, new) = sent[t]
  <2>1. msg[t].content = <<t, sent[t]>>
    BY <1>1 DEF WriterInv
  <2>2. MessageOf(msgRecord[n][new]).content = msgRecord[n][new].content
    BY DEF MessageOf
  <2> HIDE DEF n, new
  <2> QED BY <1>2, <2>1, <2>2 DEF Number
<1>6. /\ \A m \in Account : \A k \in Published(m)' : k \in Published(m) \/ (m = n /\ k = new)
      /\ \A m \in Account : \A k \in Published(m) : k \in Published(m)'
      /\ \A m \in Account : m = n => new \in Published(m)'
      /\ \A k \in Published(n) : k < new
  <2> HIDE DEF n, new, IInv
  <2>1. msgcnt \in [Account -> Nat] /\ msgcnt[n] = new
    BY HistoryAssumption DEF IInv, TypeOK, n, new
  <2>2. msgcnt'[n] = new + 1 /\ \A m \in Account : m # n => msgcnt'[m] = msgcnt[m]
    BY <1>2, <2>1
  <2>3. \A m \in Account : msgcnt[m] \in Nat
    BY <2>1
  <2> QED BY <1>2, <2>1, <2>2, <2>3 DEF Published
<1>7. \A m \in Account : \A k \in Published(m)' : Number(m, k)' = Number(m, k) /\ k \in Nat
  BY <1>2 DEF Number, Published
<1>8. \A k \in Published(n) : Number(n, k) < sent[t]
  BY <1>1, <1>2 DEF OrderInv, Newest
<1>9. \A m \in Account : \A x : Keeps(m, x) => Keeps(m, x)'
  BY <1>4, StillKeeps
<1>10. \A m \in Account : m \in Nat
  BY DEF Account
<1> HIDE DEF n, new
<1>11. Ordered'
  <2> SUFFICES ASSUME NEW m \in Account, NEW j \in Published(m)', NEW k \in Published(m)', j < k
               PROVE  Number(m, j) < Number(m, k)
    BY <1>7 DEF Ordered
  <2>1. CASE k \in Published(m) /\ j \in Published(m)
    BY <2>1 DEF OrderInv, Ordered
  <2>2. CASE m = n /\ k = new /\ j \in Published(n)
    BY <1>5, <1>8, <2>2
  <2>3. ~(m = n /\ j = new)
    <3>1. k \in Nat /\ (k \in Published(n) => k < new)
      BY <1>6, <1>7
    <3> QED BY <1>2, <1>6, <3>1
  <2> QED BY <1>6, <2>1, <2>2, <2>3
<1>12. Newest(t)'
  <2>1. \A m \in Account : n + 1 <= m => n <= m /\ m # n
    BY <1>2, <1>10
  <2>2. \A m \in Account : \A k \in Published(m) :
          /\ Number(m, k) <= sent[t]
          /\ n <= m => Number(m, k) < sent[t]
    BY <1>1 DEF OrderInv, Newest, n
  <2>3. \A m \in Account : \A k \in Published(m)' :
          /\ Number(m, k) <= sent[t]
          /\ n + 1 <= m => Number(m, k) < sent[t]
    BY <1>1, <1>5, <1>6, <2>1, <2>2
  <2> QED BY <1>1, <1>7, <2>3 DEF Newest
<1>13. \A m \in Account : \A x : m = n /\ x = msg[t] => Keeps(m, x)'
  BY <1>1, <1>2, <1>6 DEF Keeps
<1>14. \A m \in Account : \A x : x = msg[t] /\ m <= n /\ Concerns(x, m) => Keeps(m, x)'
  <2>1. \A m \in Account : m < n /\ Concerns(msg[t], m) => Keeps(m, msg[t])
    BY <1>1 DEF OrderInv, Passed, n
  <2>2. \A m \in Account : m <= n => m < n \/ m = n
    BY <1>2, <1>10
  <2> QED BY <1>9, <1>13, <2>1, <2>2
<1>15. Passed(t)'
  <2>1. \A m \in Account : m < n + 1 => m <= n
    BY <1>2, <1>10
  <2> QED BY <1>1, <1>14, <2>1 DEF Passed
<1>16. Shared'
  <2> SUFFICES ASSUME NEW l \in Account, NEW m \in Account, NEW k \in Published(l)',
                      NEW x, x = MessageOf(msgRecord[l][k]), Concerns(x, m)
               PROVE  Keeps(m, x)' \/ Coming(m, x)'
    BY <1>2 DEF Shared, Concerns, MessageOf
  <2>1. Keeps(m, x) \/ (x = msg[t])
    <3>1. CASE k \in Published(l)
      BY <1>3, <3>1 DEF OrderInv, Shared, Coming, Concerns, MessageOf
    <3>2. CASE l = n /\ k = new
      BY <1>2, <3>2
    <3> QED BY <1>6, <3>1, <3>2
  <2>2. CASE Keeps(m, x)
    BY <1>9, <2>2
  <2>3. CASE x = msg[t] /\ m <= n
    BY <1>1, <1>14, <2>3
  <2>4. CASE x = msg[t] /\ ~(m <= n)
    <3>1. n + 1 <= m
      BY <1>2, <1>10, <2>4
    <3> QED BY <1>1, <2>4, <3>1 DEF Coming
  <2> QED BY <2>1, <2>2, <2>3, <2>4
<1> QED BY <1>3, <1>11, <1>12, <1>15, <1>16 DEF OrderInv

LEMMA OrderNext == SingleWriter /\ IInv /\ IInv' /\ OrderInv /\ [Next]_vars => OrderInv'
<1> SUFFICES ASSUME SingleWriter, IInv, IInv', OrderInv, [Next]_vars PROVE OrderInv'
  OBVIOUS
<1>1. ASSUME NEW t \in Writers, Writing(t) PROVE OrderInv'
  BY <1>1, OrderKept, OrderPublished
<1>2. ASSUME UNCHANGED history, UNCHANGED writing, \A t \in Writers : pc'[t] = pc[t] /\ i'[t] = i[t]
      PROVE  OrderInv'
  <2>1. UNCHANGED <<msgRecord, msgcnt, msg, sent>>
    BY <1>2 DEF history, writing
  <2>2. Ordered'
    BY <2>1 DEF OrderInv, Ordered, Published, Number
  <2>3. \A n \in Account : \A m : Keeps(n, m)' <=> Keeps(n, m)
    BY <2>1 DEF Keeps, Published, Number
  <2>4. \A n \in Account : \A m : Coming(n, m)' <=> Coming(n, m)
    BY <1>2, <2>1 DEF Coming
  <2>5. Shared'
    BY <2>1, <2>3, <2>4 DEF OrderInv, Shared, Published
  <2>6. \A t \in Writers : Newest(t)'
    BY <1>2, <2>1 DEF OrderInv, Newest, Published, Number
  <2>7. \A t \in Writers : Passed(t)'
    BY <1>2, <2>1, <2>3 DEF OrderInv, Passed
  <2> QED BY <2>2, <2>5, <2>6, <2>7 DEF OrderInv
<1>3. ASSUME NEW t \in Readers, Reading(t) PROVE OrderInv'
  <2>1. \A u \in Writers : pc'[u] = pc[u] /\ i'[u] = i[u]
    BY <1>3, ReaderBeside DEF Thread
  <2> QED BY <1>2, <1>3, <2>1, ReaderBeside
<1>4. CASE UNCHANGED vars
  BY <1>2, <1>4 DEF vars
<1> QED BY <1>1, <1>3, <1>4 DEF Next

LEMMA OrderInductive == ASSUME SingleWriter PROVE Spec => []OrderInv
<1>1. Init => OrderInv
  <2> SUFFICES ASSUME Init PROVE OrderInv
    OBVIOUS
  <2>1. \A n \in Account : Published(n) = {}
    BY DEF Init, Published
  <2>2. \A t \in Writers : pc[t] = "idle"
    BY DEF Init, Thread
  <2> QED BY <2>1, <2>2 DEF OrderInv, Ordered, Shared, Newest, Passed
<1> QED BY <1>1, OrderNext, Inductive, PTL DEF Spec

\* With one writer, two accounts remember their conversation alike: what one
\* has before a message of both, the other has before it too.
THEOREM ConversationIsShared == ASSUME SingleWriter PROVE Spec => []SameConversation
<1>1. IInv /\ OrderInv => SameConversation
  <2> SUFFICES ASSUME IInv, OrderInv, NEW n \in Account, NEW m \in Account,
                      NEW j \in DOMAIN Log(n), NEW k \in DOMAIN Log(n), NEW l \in DOMAIN Log(m),
                      j < k, Log(n)[k] = Log(m)[l], Concerns(Log(n)[j], m)
               PROVE  \E h \in 1 .. l - 1 : Log(m)[h] = Log(n)[j]
    BY DEF SameConversation
  <2> DEFINE Entry(a, b) == MessageOf(msgRecord[a][b])
             x == Entry(n, j - 1)
  <2>1. /\ \A a \in Account : msgcnt[a] \in Nat
        /\ j \in Nat /\ k \in Nat /\ l \in Nat
    BY HistoryAssumption DEF IInv, TypeOK, Log
  <2>2. /\ j - 1 \in Published(n) /\ k - 1 \in Published(n) /\ l - 1 \in Published(m)
        /\ Log(n)[j] = x /\ Log(n)[k] = Entry(n, k - 1) /\ Log(m)[l] = Entry(m, l - 1)
    BY <2>1 DEF Log, Published
  <2>3. Number(n, j - 1) < Number(n, k - 1)
    BY <2>1, <2>2 DEF OrderInv, Ordered
  <2>4. Number(m, l - 1) = Number(n, k - 1)
    <3>1. /\ Entry(m, l - 1).content[2] = Number(m, l - 1)
          /\ Entry(n, k - 1).content[2] = Number(n, k - 1)
      BY <2>2, NumberIsNat
    <3>2. Entry(m, l - 1) = Entry(n, k - 1)
      BY <2>2
    <3> QED BY <3>1, <3>2
  <2>5. Number(n, j - 1) \in Nat /\ Number(n, k - 1) \in Nat /\ x.content[2] = Number(n, j - 1)
    BY <2>2, NumberIsNat
  <2>6. Keeps(m, x)
    <3>1. Concerns(msgRecord[n][j - 1], m)
      BY <2>2 DEF Concerns, MessageOf
    <3>2. ASSUME NEW t \in Writers, msg[t] = x, pc[t] # "idle" PROVE FALSE
      <4>1. x.content[2] = sent[t] /\ sent[t] \in Nat
        BY <3>2, HistoryAssumption DEF IInv, WriterInv, TypeOK
      <4>2. Number(n, k - 1) <= sent[t]
        BY <2>2 DEF OrderInv, Newest
      <4> HIDE DEF x
      <4> QED BY <2>3, <2>5, <4>1, <4>2
    <3> QED BY <2>2, <3>1, <3>2 DEF OrderInv, Shared, Coming
  <2>7. PICK h \in Published(m) : Entry(m, h) = x
    <3>1. ~(Number(m, l - 1) < x.content[2])
      BY <2>3, <2>4, <2>5
    <3> QED BY <2>2, <2>6, <3>1 DEF Keeps
  <2>8. Number(m, h) = Number(n, j - 1) /\ h \in Nat
    BY <2>7 DEF Number, MessageOf, Published
  <2>9. h < l - 1
    <3>1. CASE l - 1 < h
      <4>1. Number(m, l - 1) < Number(m, h)
        BY <2>2, <2>7, <3>1 DEF OrderInv, Ordered
      <4> QED BY <2>3, <2>4, <2>5, <2>8, <4>1
    <3>2. CASE l - 1 = h
      BY <2>3, <2>4, <2>5, <2>8, <3>2
    <3> QED BY <2>1, <2>8, <3>1, <3>2
  <2>10. h + 1 \in 1 .. l - 1 /\ h + 1 \in DOMAIN Log(m) /\ Log(m)[h + 1] = Entry(m, h)
    BY <2>1, <2>7, <2>8, <2>9 DEF Log, Published
  <2> QED BY <2>2, <2>7, <2>10
<1> QED BY <1>1, Inductive, OrderInductive, PTL
-----------------------------------------------------------------------------
(***************************************************************************)
(* The histories implement MessageLog.  The names below are the values     *)
(* that History.tla gives to its variables.                                *)
(***************************************************************************)
Logs    == [n \in Account |-> Log(n)]
Used    == UNION {{t} \X (1 .. sent[t]) : t \in Writers}
Lacking == [t \in Writers |-> Missing(t)]
Asked   == [t \in Readers |-> IF pc[t] = "idle" THEN NULL ELSE request[t]]
Since   == [t \in Readers |-> IF pc[t] \in {"idle", "limit", "start"} THEN 0 ELSE start[t] + 1]
Answer  == [t \in Readers |-> IF pc[t] = "idle" THEN Lines(t) ELSE NoLines]

LEMMA LogIsSequence ==
  ASSUME IInv, NEW n \in Account
  PROVE  /\ Log(n) \in Seq(Message) /\ Len(Log(n)) = msgcnt[n] /\ msgcnt[n] \in Nat
         /\ \A k \in Published(n) : k + 1 \in 1 .. msgcnt[n] /\ Log(n)[k + 1] = MessageOf(msgRecord[n][k])
<1>1. msgcnt[n] \in Nat
  BY HistoryAssumption DEF IInv, TypeOK
<1>2. \A k \in 1 .. msgcnt[n] : k - 1 \in Published(n)
  BY <1>1 DEF Published
<1>3. \A k \in 1 .. msgcnt[n] : MessageOf(msgRecord[n][k - 1]) \in Message
  BY <1>2, NumberIsNat
<1>4. Log(n) \in [1 .. msgcnt[n] -> Message]
  BY <1>3 DEF Log
<1>5. Log(n) \in Seq(Message) /\ Len(Log(n)) = msgcnt[n]
  BY <1>1, <1>4
<1>6. \A k \in Published(n) : k + 1 \in 1 .. msgcnt[n] /\ (k + 1) - 1 = k
  BY <1>1 DEF Published
<1> QED BY <1>1, <1>5, <1>6 DEF Log

\* A step that publishes nothing leaves the logs as they are.
LEMMA SameLogs == ASSUME IInv, RecordsKept, msgcnt' = msgcnt PROVE Logs' = Logs
<1>1. \A n \in Account : \A k \in 1 .. msgcnt[n] : k - 1 \in Published(n)
  BY HistoryAssumption DEF Published, IInv, TypeOK
<1>2. \A n \in Account : \A k \in 1 .. msgcnt[n] : msgRecord'[n][k - 1] = msgRecord[n][k - 1]
  BY <1>1 DEF RecordsKept
<1>3. \A n \in Account : Log(n)' = Log(n)
  BY <1>2 DEF Log
<1> QED BY <1>3 DEF Logs

LEMMA WriterAnswersNothing ==
  ASSUME IInv, NEW t \in Writers, Writing(t)
  PROVE  UNCHANGED <<Asked, Since, Answer>>
<1>1. \A u \in Readers : pc'[u] = pc[u]
  BY WriterBeside DEF Thread
<1>2. request' = request /\ start' = start /\ output' = output
  BY WriterBeside DEF reading
<1>3. \A u \in Readers : Lines(u)' = Lines(u)
  BY <1>2 DEF Lines
<1> QED BY <1>1, <1>2, <1>3 DEF Asked, Since, Answer

LEMMA ReaderAddsNothing ==
  ASSUME IInv, NEW t \in Readers, Reading(t)
  PROVE  UNCHANGED <<Logs, Used, msg, Lacking>>
<1>1. UNCHANGED <<msgRecord, msgcnt, msg, sent>> /\ \A u \in Writers : pc'[u] = pc[u] /\ i'[u] = i[u]
  BY ReaderBeside DEF history, writing, Thread
<1>2. \A u \in Writers : Missing(u)' = Missing(u)
  BY <1>1 DEF Missing
<1>3. Logs' = Logs
  BY <1>1, SameLogs, Types DEF RecordsKept, IInv
<1> QED BY <1>1, <1>2, <1>3 DEF Lacking, Used

\* How add_message() is seen: it begins, reaches each account, and ends.
LEMMA WriterImplements ==
  ASSUME SingleWriter, IInv, IInv', NEW t \in Writers, Writing(t)
  PROVE  ML!Add(t) \/ ML!Record(t) \/ ML!Added(t) \/ UNCHANGED ML!vars
<1> USE Types DEF IInv
<1>1. UNCHANGED <<Asked, Since, Answer>>
  BY WriterAnswersNothing
<1>2. /\ t \in Thread /\ i[t] \in Nat /\ \A u \in Writers : u = t
      /\ pc \in [Thread -> WriterPc \cup ReaderPc] /\ i \in [Thread -> Nat] /\ WriterInv(t)
  <2>1. \A u \in Writers : u = t
    BY DEF SingleWriter
  <2> QED BY <2>1 DEF Thread, TypeOK
<1>3. ~StoreCount(t) => Logs' = Logs
  <2>1. ~StoreCount(t) => msgcnt' = msgcnt
    BY DEF Writing, AddMessage, NotConcerned, Full, NotFull, LoadCount, StoreField, Added, history
  <2> QED BY <2>1, SameLogs, WriterKeepsRecords
<1>4. \A n \in Account : n \in Nat /\ n < AccountCount
  BY DEF Account
<1>5. CASE AddMessage(t)
  <2>1. PICK m \in Message : msg' = [msg EXCEPT ![t] = m] /\ m.content = <<t, sent[t] + 1>>
    <3>1. msg' = [msg EXCEPT ![t] = msg'[t]]
      BY <1>5 DEF AddMessage, TypeOK
    <3>2. msg'[t] \in Message /\ msg'[t].content = <<t, sent[t] + 1>>
      BY <1>5, NewMessage
    <3> QED BY <3>1, <3>2
  <2>2. pc[t] = "idle" /\ pc'[t] = "scan" /\ i'[t] = 0 /\ msg[t] = NULL /\ sent[t] \in Nat
        /\ sent' = [sent EXCEPT ![t] = sent[t] + 1] /\ sent'[t] = sent[t] + 1
    <3>1. pc[t] = "idle" /\ pc'[t] = "scan" /\ i'[t] = 0
      BY <1>2, <1>5 DEF AddMessage, Goto, Index
    <3>2. sent \in [Writers -> 0 .. MaxAdded] /\ MaxAdded \in Nat
      BY HistoryAssumption DEF TypeOK
    <3>3. sent' = [sent EXCEPT ![t] = sent[t] + 1]
      BY <1>5, NewMessage
    <3> QED BY <1>2, <3>1, <3>2, <3>3 DEF WriterInv
  <2>3. m.content \notin Used
    <3>1. \A u \in Writers : <<t, sent[t] + 1>> \notin {u} \X (1 .. sent[u])
      BY <1>2, <2>2
    <3> QED BY <2>1, <3>1 DEF Used
  <2>4. Used' = Used \cup {m.content}
    <3>1. 1 .. sent[t] + 1 = (1 .. sent[t]) \cup {sent[t] + 1}
      <4> HIDE DEF IInv
      <4> QED BY <2>2
    <3>2. Writers = {t}
      BY <1>2
    <3>3. Used = {t} \X (1 .. sent[t]) /\ Used' = {t} \X (1 .. sent[t] + 1)
      BY <2>2, <3>2 DEF Used
    <3> QED BY <2>1, <3>1, <3>3
  <2>5. Missing(t)' = {m.sender, m.receiver}
    <3>1. m.sender \in Account /\ m.receiver \in Account /\ msg'[t] = m
      BY <2>1 DEF Message, TypeOK
    <3>2. \A n \in Account : 0 <= n
      BY <1>4
    <3> QED BY <2>2, <3>1, <3>2 DEF Missing, Concerns
  <2>6. Lacking' = [Lacking EXCEPT ![t] = {m.sender, m.receiver}]
    BY <1>2, <2>5 DEF Lacking
  <2> QED BY <1>1, <1>3, <1>5, <2>1, <2>2, <2>3, <2>4, <2>6
          DEF ML!Add, Logs, Used, Lacking, Asked, Since, Answer, StoreCount, Goto
<1>6. ASSUME NEW n \in Account, pc[t] # "idle", pc'[t] # "idle", i[t] = n, i'[t] = n + 1
      PROVE  Missing(t)' = {m \in Account : n + 1 <= m /\ Concerns(msg'[t], m)}
  BY <1>6 DEF Missing
<1>7. ASSUME NEW n \in Account, pc[t] # "idle", pc'[t] # "idle", i[t] = n, i'[t] = n + 1, msg' = msg
      PROVE  Missing(t)' = Missing(t) \ {n}
  <2>1. \A m \in Account : n + 1 <= m <=> n <= m /\ m # n
    BY <1>4
  <2>2. Missing(t) = {m \in Account : n <= m /\ Concerns(msg[t], m)}
    BY <1>7 DEF Missing
  <2> QED BY <1>6, <1>7, <2>1, <2>2
<1>8. CASE NotConcerned(t)
  <2>1. pc[t] = "scan" /\ pc'[t] = "scan" /\ i'[t] = i[t] + 1 /\ i[t] \in Account /\ ~Concerns(msg[t], i[t])
        /\ UNCHANGED <<msg, sent>>
    BY <1>2, <1>8 DEF NotConcerned, Index, writing, Account
  <2>2. Missing(t)' = Missing(t) \ {i[t]}
    BY <1>7, <2>1
  <2>3. i[t] \notin Missing(t)
    BY <2>1 DEF Missing
  <2>4. Lacking' = Lacking
    <3>1. Missing(t)' = Missing(t)
      BY <2>2, <2>3
    <3> QED BY <1>2, <3>1 DEF Lacking
  <2>5. Logs' = Logs /\ Used' = Used
    BY <1>3, <2>1 DEF Used, StoreCount, Goto
  <2> QED BY <1>1, <2>1, <2>4, <2>5 DEF ML!vars, Logs, Used, Lacking, Asked, Since, Answer
<1>9. CASE Full(t)
  <2>1. pc[t] = "scan" /\ pc'[t] = "scan" /\ i'[t] = i[t] + 1 /\ i[t] \in Account /\ Concerns(msg[t], i[t])
        /\ UNCHANGED <<msg, sent>> /\ msgcnt[i[t]] = MAX_RECORD_COUNT
    BY <1>2, <1>9 DEF Full, Index, writing, Account
  <2>2. Lacking' = [Lacking EXCEPT ![t] = Lacking[t] \ {i[t]}]
    <3>1. Missing(t)' = Missing(t) \ {i[t]}
      BY <1>7, <2>1
    <3> QED BY <1>2, <3>1 DEF Lacking
  <2>3. i[t] \in Lacking[t]
    BY <1>2, <2>1 DEF Missing, Lacking
  <2>4. Logs' = Logs /\ Used' = Used
    BY <1>3, <2>1 DEF Used, StoreCount, Goto
  <2>5. Len(Logs[i[t]]) = MAX_RECORD_COUNT
    BY <2>1, LogIsSequence DEF Logs
  <2>6. Logs' = [Logs EXCEPT ![i[t]] = IF Len(Logs[i[t]]) = MAX_RECORD_COUNT THEN Logs[i[t]]
                                       ELSE Append(Logs[i[t]], msg[t])]
    BY <2>4, <2>5 DEF Logs
  <2>7. ML!Record(t)
    BY <1>1, <2>1, <2>2, <2>3, <2>4, <2>6 DEF ML!Record, Logs, Used, Lacking, Asked, Since, Answer
  <2> QED BY <2>7
<1>10. CASE NotFull(t) \/ LoadCount(t) \/ StoreField(t)
  <2>1. pc[t] # "idle" /\ pc'[t] # "idle" /\ UNCHANGED <<i, msg, sent>> /\ ~StoreCount(t)
    BY <1>2, <1>10 DEF NotFull, LoadCount, StoreField, StoreCount, Goto
  <2>2. Lacking' = Lacking
    BY <1>2, <2>1 DEF Lacking, Missing
  <2>3. Logs' = Logs /\ Used' = Used
    BY <1>3, <2>1 DEF Used
  <2> QED BY <1>1, <2>1, <2>2, <2>3 DEF ML!vars, Logs, Used, Lacking, Asked, Since, Answer
<1>11. CASE StoreCount(t)
  <2> DEFINE n == i[t]
             new == msgcnt[n]
  <2>1. /\ pc[t] = "store" /\ pc'[t] = "scan" /\ i'[t] = n + 1 /\ UNCHANGED <<msg, sent>>
    BY <1>2, <1>11 DEF StoreCount, Goto, Index, writing
  <2>2. /\ n \in Account /\ new \in Nat /\ new < MAX_RECORD_COUNT /\ msg[t] \in Message
        /\ Concerns(msg[t], n) /\ MessageOf(msgRecord[n][new]) = msg[t]
        /\ msgcnt' = [msgcnt EXCEPT ![n] = new + 1] /\ msgRecord' = msgRecord
    BY <1>11, PublishedRecord DEF Place
  <2>3. Lacking' = [Lacking EXCEPT ![t] = Lacking[t] \ {n}]
    <3>1. Missing(t)' = Missing(t) \ {n}
      BY <1>7, <2>1, <2>2
    <3> QED BY <1>2, <3>1 DEF Lacking
  <2>4. n \in Lacking[t]
    BY <1>2, <2>1, <2>2 DEF Missing, Lacking
  <2>5. Len(Logs[n]) = new /\ Logs[n] = Log(n) /\ Log(n) \in Seq(Message)
    BY <2>2, LogIsSequence DEF Logs
  <2>6. msgcnt'[n] = new + 1 /\ \A m \in Account \ {n} : msgcnt'[m] = msgcnt[m]
    BY <2>2 DEF TypeOK
  <2>7. \A m \in Account \ {n} : Log(m)' = Log(m)
    BY <2>2, <2>6 DEF Log
  <2>8. ASSUME NEW m \in Account, m = n PROVE Log(m)' = Append(Log(m), msg[t])
    <3>1. Log(m)' = [k \in 1 .. new + 1 |-> MessageOf(msgRecord[m][k - 1])]
      BY <2>2, <2>6, <2>8 DEF Log
    <3>2. Log(m) = [k \in 1 .. new |-> MessageOf(msgRecord[m][k - 1])]
      BY <2>8 DEF Log
    <3>3. Len(Log(m)) = new /\ Log(m) \in Seq(Message)
      BY <2>5, <2>8
    <3> HIDE DEF n, new
    <3>4. Append(Log(m), msg[t]) = [k \in 1 .. new + 1 |-> IF k = new + 1 THEN msg[t] ELSE Log(m)[k]]
      BY <3>3, <2>2
    <3>5. \A k \in 1 .. new + 1 : MessageOf(msgRecord[m][k - 1]) = IF k = new + 1 THEN msg[t] ELSE Log(m)[k]
      <4>1. \A k \in 1 .. new + 1 : k = new + 1 \/ k \in 1 .. new
        BY <2>2
      <4>2. (new + 1) - 1 = new
        BY <2>2
      <4> QED BY <2>2, <2>8, <3>2, <4>1, <4>2
    <3> QED BY <3>1, <3>4, <3>5
  <2>9. Logs' = [Logs EXCEPT ![n] = IF Len(Logs[n]) = MAX_RECORD_COUNT THEN Logs[n]
                                    ELSE Append(Logs[n], msg[t])]
    <3>1. Len(Logs[n]) # MAX_RECORD_COUNT
      BY <2>2, <2>5
    <3>2. Logs' = [m \in Account |-> IF m = n THEN Append(Log(n), msg[t]) ELSE Log(m)]
      BY <2>7, <2>8 DEF Logs
    <3> HIDE DEF n, new
    <3> QED BY <2>2, <2>5, <3>1, <3>2 DEF Logs
  <2>10. Used' = Used
    BY <2>1 DEF Used
  <2>11. ML!Record(t)
    BY <1>1, <2>1, <2>3, <2>4, <2>9, <2>10 DEF ML!Record, Logs, Used, Lacking, Asked, Since, Answer
  <2> QED BY <2>11
<1>12. CASE Added(t)
  <2>1. pc[t] = "scan" /\ pc'[t] = "idle" /\ i[t] = AccountCount /\ sent' = sent
        /\ msg' = [msg EXCEPT ![t] = NULL]
    BY <1>2, <1>12 DEF Added, Goto
  <2>2. Missing(t) = {} /\ Missing(t)' = {}
    BY <1>4, <2>1 DEF Missing
  <2>3. Lacking' = Lacking /\ Lacking[t] = {}
    BY <1>2, <2>2 DEF Lacking
  <2>4. Logs' = Logs /\ Used' = Used
    BY <1>3, <2>1 DEF Used, StoreCount, Goto
  <2>5. msg[t] # NULL
    BY <2>1, MessageFields DEF TypeOK
  <2>6. ML!Added(t)
    BY <1>1, <2>1, <2>3, <2>4, <2>5 DEF ML!Added, Logs, Used, Lacking, Asked, Since, Answer
  <2> QED BY <2>6
<1> QED BY <1>5, <1>8, <1>9, <1>10, <1>11, <1>12 DEF Writing

\* The lines that get_historical_message() has written when it comes to the
\* end of the records are those that MessageLog's reader is given.
LEMMA AnswerIsTail ==
  ASSUME IInv, NEW t \in Readers, EndOfHistory(t)
  PROVE  LET n == request[t].username
         IN  Lines(t) = ML!LinesWith(Log(n), start[t] + 1, request[t].friend)
<1> DEFINE n == request[t].username
           friend == request[t].friend
           first == start[t] + 1
           copied == With(n, start[t], i[t], friend)
<1>1. /\ pc[t] = "bound" /\ i[t] >= msgcnt[n] /\ n \in Account /\ start[t] \in Nat /\ i[t] \in Nat
      /\ ReaderInv(t) /\ msgcnt[n] \in Nat
  BY ReaderFacts DEF EndOfHistory, Goto, Count
<1>2. start[t] <= i[t] /\ i[t] = msgcnt[n] /\ output[t] = [k \in copied |-> LineOf(msgRecord[n][k])]
  <2>1. start[t] <= i[t] /\ i[t] <= msgcnt[n] /\ output[t] = [k \in copied |-> LineOf(msgRecord[n][k])]
    BY <1>1 DEF ReaderInv, Walking
  <2> QED BY <1>1, <2>1
<1>3. \A k \in copied : /\ k \in Published(n) /\ Whole(msgRecord[n][k])
                        /\ Log(n)[k + 1] = MessageOf(msgRecord[n][k])
  <2>1. \A k \in copied : k \in Published(n)
    BY <1>1, <1>2 DEF With, Published
  <2> QED BY <1>1, <2>1, LogIsSequence DEF IInv, RecordsWhole
<1>4. {j + 1 : j \in copied} = {k \in first .. Len(Log(n)) : friend \in {Log(n)[k].sender, Log(n)[k].receiver}}
  <2>1. Len(Log(n)) = msgcnt[n]
    BY <1>1, LogIsSequence
  <2>2. \A j \in start[t] .. msgcnt[n] - 1 :
          /\ j + 1 \in first .. msgcnt[n]
          /\ Concerns(msgRecord[n][j], friend) <=> friend \in {Log(n)[j + 1].sender, Log(n)[j + 1].receiver}
    <3>1. \A j \in start[t] .. msgcnt[n] - 1 : j \in Published(n) /\ j + 1 \in first .. msgcnt[n]
      BY <1>1 DEF Published
    <3>2. \A j \in start[t] .. msgcnt[n] - 1 : Log(n)[j + 1] = MessageOf(msgRecord[n][j])
      BY <1>1, <3>1, LogIsSequence
    <3>3. \A r, f : Concerns(r, f) <=> f \in {MessageOf(r).sender, MessageOf(r).receiver}
      BY DEF MessageOf, Concerns
    <3> QED BY <3>1, <3>2, <3>3
  <2>3. \A k \in first .. msgcnt[n] : k - 1 \in start[t] .. msgcnt[n] - 1 /\ (k - 1) + 1 = k
    BY <1>1
  <2>4. copied = {j \in start[t] .. msgcnt[n] - 1 : Concerns(msgRecord[n][j], friend)}
    BY <1>2 DEF With
  <2> HIDE DEF n, friend, first, copied
  <2> QED BY <2>1, <2>2, <2>3, <2>4
<1>5. \A j \in copied : Printed(output[t][j]) = ML!Line(Log(n)[j + 1])
  <2>1. \A j \in copied : output[t][j] = LineOf(msgRecord[n][j])
    BY <1>2
  <2>2. \A r : Whole(r) => Printed(LineOf(r)) = ML!Line(MessageOf(r))
    BY DEF Printed, ML!Line, LineOf, Whole, MessageOf
  <2> QED BY <1>3, <2>1, <2>2
<1>6. \A k \in {j + 1 : j \in copied} : Printed(output[t][k - 1]) = ML!Line(Log(n)[k])
  <2>1. \A j \in copied : j \in Nat /\ (j + 1) - 1 = j
    BY <1>1 DEF With
  <2> HIDE DEF n, friend, first, copied
  <2> QED BY <1>5, <2>1
<1>7. DOMAIN output[t] = copied
  BY <1>2
<1>8. Lines(t) = [k \in {j + 1 : j \in copied} |-> Printed(output[t][k - 1])]
  BY <1>7 DEF Lines
<1>9. Lines(t) = [k \in {j + 1 : j \in copied} |-> ML!Line(Log(n)[k])]
  BY <1>6, <1>8
<1>10. Lines(t) = [k \in {j \in first .. Len(Log(n)) : friend \in {Log(n)[j].sender, Log(n)[j].receiver}}
                     |-> ML!Line(Log(n)[k])]
  BY <1>4, <1>9
<1> QED BY <1>10 DEF ML!LinesWith

\* How get_historical_message() is seen: it is asked, fixes where its answer
\* begins, and answers with all that is recorded when it ends.
LEMMA ReaderImplements ==
  ASSUME IInv, IInv', NEW t \in Readers, Reading(t)
  PROVE  ML!Ask(t) \/ ML!Begin(t) \/ ML!End(t) \/ UNCHANGED ML!vars
<1>1. UNCHANGED <<Logs, Used, msg, Lacking>>
  BY ReaderAddsNothing
<1>2. /\ t \in Thread /\ pc \in [Thread -> WriterPc \cup ReaderPc] /\ ReaderInv(t)
      /\ start \in [Readers -> 0 .. MAX_RECORD_COUNT] /\ request \in [Readers -> Request \cup {NULL}]
      /\ DOMAIN output = Readers
  BY ReaderFacts DEF IInv, TypeOK
<1>3. \A u \in Readers \ {t} : pc'[u] = pc[u] /\ request'[u] = request[u] /\ start'[u] = start[u]
                               /\ output'[u] = output[u]
  BY ReaderBeside DEF Thread
<1>4. \A u \in Readers \ {t} : Asked'[u] = Asked[u] /\ Since'[u] = Since[u] /\ Answer'[u] = Answer[u]
  BY <1>3 DEF Asked, Since, Answer, Lines
<1>5. /\ Asked' = [Asked EXCEPT ![t] = Asked'[t]]
      /\ Since' = [Since EXCEPT ![t] = Since'[t]]
      /\ Answer' = [Answer EXCEPT ![t] = Answer'[t]]
  <2>1. /\ DOMAIN Asked = Readers /\ DOMAIN Asked' = Readers
        /\ DOMAIN Since = Readers /\ DOMAIN Since' = Readers
        /\ DOMAIN Answer = Readers /\ DOMAIN Answer' = Readers
    BY DEF Asked, Since, Answer
  <2>2. Asked' = [u \in Readers |-> Asked'[u]] /\ Since' = [u \in Readers |-> Since'[u]]
        /\ Answer' = [u \in Readers |-> Answer'[u]]
    BY DEF Asked, Since, Answer
  <2>3. /\ [Asked EXCEPT ![t] = Asked'[t]] = [u \in Readers |-> IF u = t THEN Asked'[t] ELSE Asked[u]]
        /\ [Since EXCEPT ![t] = Since'[t]] = [u \in Readers |-> IF u = t THEN Since'[t] ELSE Since[u]]
        /\ [Answer EXCEPT ![t] = Answer'[t]] = [u \in Readers |-> IF u = t THEN Answer'[t] ELSE Answer[u]]
    BY <2>1
  <2> QED BY <1>4, <2>2, <2>3
<1>6. ASSUME Asked'[t] = Asked[t], Since'[t] = Since[t], Answer'[t] = Answer[t] PROVE UNCHANGED ML!vars
  <2>1. Asked' = Asked /\ Since' = Since /\ Answer' = Answer
    <3>1. /\ [Asked EXCEPT ![t] = Asked[t]] = Asked /\ [Since EXCEPT ![t] = Since[t]] = Since
          /\ [Answer EXCEPT ![t] = Answer[t]] = Answer
      BY DEF Asked, Since, Answer
    <3> QED BY <1>5, <1>6, <3>1
  <2> QED BY <1>1, <2>1 DEF ML!vars, Logs, Used, Lacking, Asked, Since, Answer
<1>7. /\ Asked[t] = IF pc[t] = "idle" THEN NULL ELSE request[t]
      /\ Since[t] = IF pc[t] \in {"idle", "limit", "start"} THEN 0 ELSE start[t] + 1
      /\ Answer[t] = IF pc[t] = "idle" THEN Lines(t) ELSE NoLines
      /\ Asked'[t] = IF pc'[t] = "idle" THEN NULL ELSE request'[t]
      /\ Since'[t] = IF pc'[t] \in {"idle", "limit", "start"} THEN 0 ELSE start'[t] + 1
      /\ Answer'[t] = IF pc'[t] = "idle" THEN Lines(t)' ELSE NoLines
  BY DEF Asked, Since, Answer
<1>8. CASE Ask(t)
  <2>1. PICK r \in Request : request' = [request EXCEPT ![t] = r]
    BY <1>8 DEF Ask
  <2>2. pc[t] = "idle" /\ pc'[t] = "limit" /\ request'[t] = r
    BY <1>2, <1>8, <2>1 DEF Ask, Goto
  <2>3. Asked[t] = NULL /\ Asked'[t] = r /\ Since'[t] = Since[t] /\ Answer'[t] = NoLines
    BY <1>7, <2>2
  <2>4. Since' = Since
    BY <1>5, <2>3 DEF Since
  <2>5. Asked' = [Asked EXCEPT ![t] = r] /\ Answer' = [Answer EXCEPT ![t] = NoLines]
    BY <1>5, <2>3
  <2>6. NoLines = ML!NoLines
    BY DEF NoLines, ML!NoLines
  <2>7. ML!Ask(t)
    BY <1>1, <2>3, <2>4, <2>5, <2>6 DEF ML!Ask, Logs, Used, Lacking, Asked, Since, Answer
  <2> QED BY <2>7
<1>9. ASSUME pc[t] # "idle", Asked'[t] = Asked[t], Answer'[t] = Answer[t], Since[t] = 0,
             Since'[t] = IF request[t].number < Count(t) THEN Count(t) - request[t].number + 1 ELSE 1
      PROVE  ML!Begin(t)
  <2>1. request[t] \in Request /\ request[t].username \in Account /\ request[t] # NULL /\ Asked[t] = request[t]
    BY <1>7, <1>9, ReaderFacts, RequestFields
  <2>2. Len(Logs[request[t].username]) = Count(t)
    <3>1. Len(Log(request[t].username)) = msgcnt[request[t].username]
      BY <2>1, LogIsSequence
    <3> QED BY <2>1, <3>1 DEF Logs, Count
  <2>3. Asked' = Asked /\ Answer' = Answer
    <3>1. [Asked EXCEPT ![t] = Asked[t]] = Asked /\ [Answer EXCEPT ![t] = Answer[t]] = Answer
      BY DEF Asked, Answer
    <3> QED BY <1>5, <1>9, <3>1
  <2>4. Since' = [Since EXCEPT ![t] = IF Asked[t].number < Len(Logs[Asked[t].username])
                                      THEN Len(Logs[Asked[t].username]) - Asked[t].number + 1 ELSE 1]
    BY <1>5, <1>9, <2>1, <2>2
  <2> QED BY <1>1, <1>9, <2>1, <2>3, <2>4 DEF ML!Begin, Logs, Used, Lacking, Asked, Since, Answer
<1>10. CASE ReadAll(t) \/ Start(t)
  <2>1. pc[t] \in {"limit", "start"} /\ pc'[t] = "bound" /\ request' = request
    BY <1>2, <1>10 DEF ReadAll, Start, Goto
  <2>2. Asked'[t] = Asked[t] /\ Answer'[t] = Answer[t] /\ Since[t] = 0 /\ Since'[t] = start'[t] + 1
    BY <1>7, <2>1
  <2>3. request[t].number \in Nat /\ Count(t) \in Nat
    BY <2>1, ReaderFacts
  <2>4. start'[t] = IF request[t].number < Count(t) THEN Count(t) - request[t].number ELSE 0
    <3>1. CASE ReadAll(t)
      <4>1. start'[t] = 0 /\ request[t].number >= Count(t)
        BY <1>2, <3>1 DEF ReadAll
      <4> QED BY <2>3, <4>1
    <3>2. CASE Start(t)
      <4>1. start'[t] = Count(t) - request[t].number /\ pc[t] = "start"
        BY <1>2, <3>2 DEF Start, Goto
      <4>2. request[t].number < Count(t)
        BY <1>2, <4>1 DEF ReaderInv
      <4> QED BY <4>1, <4>2
    <3> QED BY <1>10, <3>1, <3>2
  <2>5. Since'[t] = IF request[t].number < Count(t) THEN Count(t) - request[t].number + 1 ELSE 1
    BY <2>2, <2>3, <2>4
  <2> QED BY <1>9, <2>1, <2>2, <2>5
<1>11. CASE ReadSome(t)
  <2>1. pc[t] = "limit" /\ pc'[t] = "start" /\ UNCHANGED reading
    BY <1>2, <1>11 DEF ReadSome, Goto
  <2> QED BY <1>6, <1>7, <2>1 DEF reading
<1>12. CASE InBound(t) \/ Matches(t) \/ SenderDiffers(t) \/ ReceiverDiffers(t) \/ Copy(t) \/ LineCopied(t)
  <2>1. pc[t] \in Walking /\ pc'[t] \in Walking
    BY <1>2, <1>12 DEF InBound, Matches, SenderDiffers, ReceiverDiffers, Copy, LineCopied, Goto, Walking
  <2>2. request' = request /\ start' = start
    BY <1>12 DEF InBound, Matches, SenderDiffers, ReceiverDiffers, Copy, LineCopied, reading
  <2> QED BY <1>6, <1>7, <2>1, <2>2 DEF Walking
<1>13. CASE EndOfHistory(t)
  <2> DEFINE n == request[t].username
  <2>1. pc[t] = "bound" /\ pc'[t] = "idle" /\ UNCHANGED <<request, output>>
    BY <1>2, <1>13 DEF EndOfHistory, Goto
  <2>2. n \in Account /\ start[t] \in Nat /\ Asked[t] = request[t] /\ Since[t] = start[t] + 1
    BY <1>7, <2>1, ReaderFacts
  <2>3. Asked'[t] = NULL /\ Since'[t] = 0 /\ Answer'[t] = Lines(t)
    BY <1>7, <2>1 DEF Lines
  <2>4. Logs[n] = Log(n)
    BY <2>2 DEF Logs
  <2>5. Answer'[t] = ML!LinesWith(Logs[Asked[t].username], Since[t], Asked[t].friend)
    BY <1>13, <2>2, <2>3, <2>4, AnswerIsTail
  <2>6. Since[t] # 0
    BY <2>2
  <2>7. /\ Asked' = [Asked EXCEPT ![t] = NULL] /\ Since' = [Since EXCEPT ![t] = 0]
        /\ Answer' = [Answer EXCEPT ![t] = ML!LinesWith(Logs[Asked[t].username], Since[t], Asked[t].friend)]
    BY <1>5, <2>3, <2>5
  <2>8. ML!End(t)
    BY <1>1, <2>6, <2>7 DEF ML!End, Logs, Used, Lacking, Asked, Since, Answer
  <2> QED BY <2>8
<1> QED BY <1>8, <1>10, <1>11, <1>12, <1>13 DEF Reading

LEMMA InitImplements == Init => ML!Init
<1> SUFFICES ASSUME Init PROVE ML!Init
  OBVIOUS
<1> USE DEF Init
<1>1. \A n \in Account : Log(n) = <<>>
  BY DEF Log
<1>2. \A t \in Writers : sent[t] = 0 /\ Missing(t) = {} /\ msg[t] = NULL
  BY DEF Missing, Thread
<1>3. Used = {}
  BY <1>2 DEF Used
<1>4. \A t \in Readers : pc[t] = "idle" /\ Lines(t) = NoLines
  BY DEF Lines, NoLines, Thread
<1> QED BY <1>1, <1>2, <1>3, <1>4 DEF ML!Init, ML!NoLines, NoLines, Used

\* With one writer, the histories keep what MessageLog promises: both sides
\* of a message get it unless they are full, and an answer holds the friend's
\* part of all that was recorded from where it began until it ended.
THEOREM HistoryIsMessageLog == ASSUME SingleWriter PROVE Spec => ImplementsMessageLog
<1>1. IInv /\ IInv' /\ [Next]_vars => [ML!Next]_ML!vars
  <2> SUFFICES ASSUME IInv, IInv', [Next]_vars PROVE ML!Next \/ UNCHANGED ML!vars
    OBVIOUS
  <2>1. CASE UNCHANGED vars
    <3>1. UNCHANGED <<msgRecord, msgcnt, pc, i, reg, field, msg, sent, request, start, line, output>>
      BY <2>1 DEF vars, history, writing, reading
    <3>2. UNCHANGED <<Logs, Used, Lacking, Asked, Since, Answer>>
      BY <3>1 DEF Logs, Log, Used, Lacking, Missing, Asked, Since, Answer, Lines
    <3> QED BY <3>1, <3>2 DEF ML!vars, Logs, Used, Lacking, Asked, Since, Answer
  <2> QED BY <2>1, WriterImplements, ReaderImplements DEF Next, ML!Next
<1> QED BY <1>1, InitImplements, Inductive, PTL DEF Spec, ML!Spec, ImplementsMessageLog
=============================================================================
