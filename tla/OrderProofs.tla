----------------------------- MODULE OrderProofs -----------------------------
(***************************************************************************)
(* The order of messages, for any number of clients, accounts and messages *)
(* and wherever reads end, as long as the connections last: what a user    *)
(* types is recorded, and shown, in the order typed and at most once.      *)
(***************************************************************************)
EXTENDS SenderProofs

\* Connections last: nobody is killed, and in no list of files a longer file
\* that can be opened comes before a shorter one, of which the client would
\* die; so that a client that has typed something ends with the server.
Sorted(l) == \A j, k \in DOMAIN l : j < k => FileLength[l[j].filename] <= FileLength[l[k].filename]

Lasting == Killable = {} /\ \A l \in FileLists : Sorted(Inserted(l))

\* A list of which one segment of each file is sent in turn, p being next.
Round(l, p) ==
  /\ Sorted(l)
  /\ \A k \in DOMAIN l : /\ l[k].filename \in DOMAIN FileLength
                         /\ l[k].datagram_cnt \in 1 .. FileLength[l[k].filename] + 1
  /\ \A j, k \in DOMAIN l : j < k =>
       l[j].datagram_cnt = IF j < p /\ p <= k THEN l[k].datagram_cnt + 1 ELSE l[k].datagram_cnt

LastInv(c) ==
  /\ receiver[c].state = "failed" => crashed
  /\ state[c] \in InSession => receiver[c].state # "off"
  /\ Round(rf_list[c], rf_ptr[c]) /\ (state[c] = "remove" => rf_ptr[c] = 1)
  /\ typed[c] > 0 /\ state[c] = "exited" => crashed

\* Where messages are: read, sent, queued, recorded, on their way to a client,
\* and shown by it.
Jobs(n)   == [k \in DOMAIN queue[n] |-> queue[n][k][2]]
Notes(n)  == [k \in DOMAIN recorded[n] |-> Command("message", recorded[n][k].content)]
Screen(c) == [k \in DOMAIN shown[c] |-> Command("message", shown[c][k][2])]

Held(c)   == Texts(handler[c].todo)
Sent(c)   == Texts(toServer[c])
Queued(n) == Texts(Jobs(n))
Noted(n)  == Texts(Notes(n))
Coming(c) == Texts(toClient[c])
Seen(c)   == Texts(Screen(c))

\* Messages that wait to be taken by the server, and those it has taken.
Unread(c) == Held(c) \cup Sent(c)
Taken(n)  == Queued(n) \cup Noted(n)
Given(c)  == Coming(c) \cup Seen(c)
Passed    == (UNION {Taken(n) : n \in Name}) \cup (UNION {Given(c) : c \in Conn})

CountInv == /\ \A c \in Conn : \A m \in Unread(c) : m \in Text /\ m.n <= typed[c]
            /\ \A m \in Passed : m \in Text /\ m.n <= typed[m.by]

AheadInv == \A c \in Conn : Below(Passed, Unread(c))

UnreadInv(c) == Rises(handler[c].todo) /\ Rises(toServer[c]) /\ Below(Held(c), Sent(c))
AccountInv(n) == Rises(Jobs(n)) /\ Rises(Notes(n))
ShownInv(c)  == Rises(toClient[c]) /\ Rises(Screen(c)) /\ Below(Seen(c), Coming(c))

ListenerInv(c) == LET n == delivery[c].acc IN
  IF n = None THEN Coming(c) = {} /\ Seen(c) = {}
  ELSE Below(Coming(c) \cup Seen(c), Queued(n))

\* A message the server has taken is in one place.
OnceInv ==
  /\ \A m, n \in Name : m # n => Queued(m) \cap Queued(n) = {}
  /\ \A c \in Conn, n \in Name : Coming(c) \cap Queued(n) = {}
  /\ \A c, d \in Conn : c # d => Coming(c) \cap Coming(d) = {}

OrderInv == /\ CountInv /\ AheadInv /\ OnceInv
            /\ \A c \in Conn : UnreadInv(c) /\ ShownInv(c) /\ ListenerInv(c)
            /\ \A n \in Name : AccountInv(n)
-----------------------------------------------------------------------------
(* Connections that last. *)

LEMMA CrashStays ==
  ASSUME NEW c \in Conn, UserActs(c) \/ UserThread(c) \/ ReceiveThread(c) PROVE crashed' = crashed
BY DEF UserActs, AskSignUp, AskLogIn, Enter, Quit, AskFriend, Confirm, TypeMessage, EndMessage, LogOut, ChooseFiles,
       Kill, Knock, UserThread, Answered, FriendIs, Join, SendSegment, SendEnd, Segment, RemoveFile, FilesSent,
       RecvFails, SendFails, ReceiveThread, TakeSignal, TakeSource, ShowMessage, WriteFile, EndReceiving,
       ClientSends, ClientTakes, ClientCloses, wire

\* The rounds: a list begins with one, a segment sent leads to the next file,
\* and only the first file can be at its end.
LEMMA FirstRound == ASSUME Lasting, NEW f \in FileLists PROVE Round(Inserted(f), 1)
<1> DEFINE l == Inserted(f)
<1>1. l \in Seq(Unsent) /\ Sorted(l)
  BY ClientAssumption, InsertedUnsent DEF Lasting
<1>2. \A k \in DOMAIN l : k \in Nat \ {0} /\ l[k] \in Unsent
  BY <1>1, ElementOfSeq, LenProperties
<1>3. \A k \in DOMAIN l : /\ l[k].filename \in DOMAIN FileLength /\ l[k].datagram_cnt = 1
                         /\ FileLength[l[k].filename] \in Nat
  BY <1>2, ClientAssumption, WireAssumption DEF Unsent
<1> HIDE DEF l
<1>4. \A k \in DOMAIN l : l[k].datagram_cnt \in 1 .. FileLength[l[k].filename] + 1
  BY <1>3
<1>5. \A j, k \in DOMAIN l : j < k =>
        l[j].datagram_cnt = IF j < 1 /\ 1 <= k THEN l[k].datagram_cnt + 1 ELSE l[k].datagram_cnt
  <2> SUFFICES ASSUME NEW j \in DOMAIN l, NEW k \in DOMAIN l
               PROVE  l[j].datagram_cnt = IF j < 1 /\ 1 <= k THEN l[k].datagram_cnt + 1 ELSE l[k].datagram_cnt
    OBVIOUS
  <2>1. ~(j < 1) /\ l[j].datagram_cnt = 1 /\ l[k].datagram_cnt = 1
    BY <1>2, <1>3
  <2> QED BY <2>1
<1>6. Round(l, 1)
  BY <1>1, <1>3, <1>4, <1>5 DEF Round
<1> QED BY <1>6 DEF l

LEMMA NextRound ==
  ASSUME NEW l \in Seq([filename : File, datagram_cnt : Nat]), NEW p \in 1 .. Len(l), Round(l, p),
         l[p].datagram_cnt <= FileLength[l[p].filename]
  PROVE  Round([l EXCEPT ![p].datagram_cnt = @ + 1], IF p = Len(l) THEN 1 ELSE p + 1)
<1> DEFINE m == [l EXCEPT ![p].datagram_cnt = @ + 1]
           q == IF p = Len(l) THEN 1 ELSE p + 1
<1>1. /\ DOMAIN l = 1 .. Len(l) /\ Len(l) \in Nat /\ DOMAIN m = DOMAIN l
      /\ \A k \in DOMAIN l : l[k] \in [filename : File, datagram_cnt : Nat]
  BY ElementOfSeq, LenProperties
<1>2. \A k \in DOMAIN l : /\ m[k].filename = l[k].filename
                         /\ m[k].datagram_cnt = IF k = p THEN l[k].datagram_cnt + 1 ELSE l[k].datagram_cnt
  BY <1>1
<1>3. \A k \in DOMAIN l : /\ l[k].datagram_cnt \in Nat /\ l[k].filename \in DOMAIN FileLength
                         /\ FileLength[l[k].filename] \in Nat
                         /\ l[k].datagram_cnt \in 1 .. FileLength[l[k].filename] + 1
  BY <1>1, WireAssumption DEF Round
<1>4. \A j, k \in DOMAIN l : j < k =>
        l[j].datagram_cnt = IF j < p /\ p <= k THEN l[k].datagram_cnt + 1 ELSE l[k].datagram_cnt
  BY DEF Round
<1> HIDE DEF m
<1>5. Sorted(m)
  BY <1>1, <1>2 DEF Round, Sorted
<1>6. \A k \in DOMAIN m : /\ m[k].filename \in DOMAIN FileLength
                         /\ m[k].datagram_cnt \in 1 .. FileLength[m[k].filename] + 1
  BY <1>1, <1>2, <1>3
<1>7. ASSUME NEW j \in DOMAIN m, NEW k \in DOMAIN m, j < k
      PROVE  m[j].datagram_cnt = IF j < q /\ q <= k THEN m[k].datagram_cnt + 1 ELSE m[k].datagram_cnt
  <2> DEFINE cj == l[j].datagram_cnt
             ck == l[k].datagram_cnt
  <2>1. /\ j \in 1 .. Len(l) /\ k \in 1 .. Len(l) /\ cj \in Nat /\ ck \in Nat
        /\ m[j].datagram_cnt = (IF j = p THEN cj + 1 ELSE cj)
        /\ m[k].datagram_cnt = (IF k = p THEN ck + 1 ELSE ck)
        /\ cj = IF j < p /\ p <= k THEN ck + 1 ELSE ck
    BY <1>1, <1>2, <1>3, <1>4, <1>7
  <2>2. q = (IF p = Len(l) THEN 1 ELSE p + 1) /\ p \in 1 .. Len(l)
    OBVIOUS
  <2> HIDE DEF cj, ck, q
  <2>3. ASSUME NEW n \in Nat, NEW x \in Nat, NEW y \in Nat, NEW r \in 1 .. n, NEW s, NEW i \in 1 .. n, NEW h \in 1 .. n,
               s = (IF r = n THEN 1 ELSE r + 1), i < h, x = (IF i < r /\ r <= h THEN y + 1 ELSE y)
        PROVE  (IF i = r THEN x + 1 ELSE x) = (IF i < s /\ s <= h THEN (IF h = r THEN y + 1 ELSE y) + 1
                                                                   ELSE (IF h = r THEN y + 1 ELSE y))
    BY <2>3
  <2>4. (IF j = p THEN cj + 1 ELSE cj) = (IF j < q /\ q <= k THEN (IF k = p THEN ck + 1 ELSE ck) + 1
                                                             ELSE (IF k = p THEN ck + 1 ELSE ck))
    <3> DEFINE N == Len(l)
    <3>1. N \in Nat
      BY <1>1
    <3>3. p \in 1 .. N /\ q = (IF p = N THEN 1 ELSE p + 1)
      BY <2>2
    <3>4. j \in 1 .. N /\ k \in 1 .. N
      BY <2>1
    <3>2. cj \in Nat /\ ck \in Nat /\ j < k /\ cj = (IF j < p /\ p <= k THEN ck + 1 ELSE ck)
      BY <2>1, <1>7
    <3> HIDE DEF N
    <3> QED BY <3>1, <3>2, <3>3, <3>4, <2>3
  <2> QED BY <2>1, <2>4
<1> HIDE DEF q
<1>8. Round(m, q)
  BY <1>5, <1>6, <1>7 DEF Round
<1> QED BY <1>8 DEF m, q

LEMMA ShorterRound ==
  ASSUME NEW l \in Seq([filename : File, datagram_cnt : Nat]), Round(l, 1) PROVE Round(Tail(l), 1)
<1>1. CASE l = <<>>
  BY <1>1
<1>2. CASE l # <<>>
  <2>1. \A k \in DOMAIN Tail(l) : k + 1 \in DOMAIN l /\ k \in Nat /\ Tail(l)[k] = l[k + 1]
    BY <1>2, TailKeeps
  <2>2. DOMAIN Tail(l) \subseteq Nat \ {0}
    BY <1>2, HeadTailProperties, LenProperties
  <2>3. \A k \in DOMAIN l : l[k].datagram_cnt \in Nat
    <3>1. \A k \in DOMAIN l : l[k] \in [filename : File, datagram_cnt : Nat]
      BY ElementOfSeq, LenProperties
    <3> QED BY <3>1
  <2> DEFINE t == Tail(l)
  <2> HIDE DEF t
  <2>4. Sorted(t)
    BY <2>1 DEF t, Round, Sorted
  <2>5. \A k \in DOMAIN t : /\ t[k].filename \in DOMAIN FileLength
                           /\ t[k].datagram_cnt \in 1 .. FileLength[t[k].filename] + 1
    BY <2>1 DEF t, Round
  <2>6. ASSUME NEW j \in DOMAIN t, NEW k \in DOMAIN t, j < k
        PROVE  t[j].datagram_cnt = IF j < 1 /\ 1 <= k THEN t[k].datagram_cnt + 1 ELSE t[k].datagram_cnt
    <3>1. /\ j + 1 \in DOMAIN l /\ k + 1 \in DOMAIN l /\ j \in Nat \ {0} /\ k \in Nat \ {0}
          /\ t[j] = l[j + 1] /\ t[k] = l[k + 1] /\ j + 1 < k + 1
      BY <2>1, <2>2, <2>6 DEF t
    <3>2. l[j + 1].datagram_cnt = IF j + 1 < 1 /\ 1 <= k + 1 THEN l[k + 1].datagram_cnt + 1 ELSE l[k + 1].datagram_cnt
      BY <3>1 DEF Round
    <3>3. ~(j + 1 < 1) /\ l[j + 1].datagram_cnt = l[k + 1].datagram_cnt
      <4>1. ~(j + 1 < 1)
        BY <3>1
      <4> QED BY <4>1, <3>2
    <3>4. ~(j < 1)
      BY <3>1
    <3> QED BY <3>1, <3>3, <3>4
  <2> QED BY <2>4, <2>5, <2>6 DEF Round, t
<1> QED BY <1>1, <1>2

LEMMA FirstEnds ==
  ASSUME NEW l \in Seq([filename : File, datagram_cnt : Nat]), NEW p \in 1 .. Len(l), Round(l, p),
         l[p].datagram_cnt > FileLength[l[p].filename]
  PROVE  p = 1
<1> SUFFICES ASSUME 1 < p PROVE FALSE
  BY LenProperties
<1>1. 1 \in DOMAIN l /\ p \in DOMAIN l
  BY LenProperties
<1>2. l[1].datagram_cnt \in Nat /\ l[p].datagram_cnt \in Nat
  <2>1. l[1] \in [filename : File, datagram_cnt : Nat] /\ l[p] \in [filename : File, datagram_cnt : Nat]
    BY <1>1, ElementOfSeq, LenProperties
  <2> QED BY <2>1
<1>3. /\ FileLength[l[1].filename] \in Nat /\ FileLength[l[p].filename] \in Nat
      /\ l[1].datagram_cnt \in 1 .. FileLength[l[1].filename] + 1
      /\ FileLength[l[1].filename] <= FileLength[l[p].filename]
      /\ l[1].datagram_cnt = l[p].datagram_cnt + 1
  <2>1. /\ l[1].filename \in DOMAIN FileLength /\ l[p].filename \in DOMAIN FileLength
        /\ l[1].datagram_cnt \in 1 .. FileLength[l[1].filename] + 1
        /\ FileLength[l[1].filename] <= FileLength[l[p].filename]
    BY <1>1 DEF Round, Sorted
  <2>2. l[1].datagram_cnt = IF 1 < p /\ p <= p THEN l[p].datagram_cnt + 1 ELSE l[p].datagram_cnt
    BY <1>1 DEF Round
  <2>3. p <= p
    OBVIOUS
  <2> QED BY <2>1, <2>2, <2>3, WireAssumption
<1>4. ASSUME NEW x \in Nat, NEW y \in Nat, NEW v \in Nat, NEW w \in Nat,
             x <= v + 1, v <= w, x = y + 1, y > w
      PROVE  FALSE
  BY <1>4
<1>5. l[p].datagram_cnt > FileLength[l[p].filename]
  OBVIOUS
<1> QED BY <1>2, <1>3, <1>4, <1>5

\* What a client does with its list of files.
LEMMA ListNext ==
  ASSUME Lasting, NEW c \in Conn, Types, Round(rf_list[c], rf_ptr[c]), state[c] = "remove" => rf_ptr[c] = 1,
         UserActs(c) \/ UserThread(c) \/ ReceiveThread(c)
  PROVE  /\ Round(rf_list'[c], rf_ptr'[c]) /\ (state'[c] = "remove" => rf_ptr'[c] = 1)
         /\ \A d \in Conn \ {c} : rf_list'[d] = rf_list[d] /\ rf_ptr'[d] = rf_ptr[d]
<1> DEFINE l == rf_list[c]
           p == rf_ptr[c]
<1>1. /\ DOMAIN rf_list = Conn /\ DOMAIN rf_ptr = Conn /\ DOMAIN state = Conn
      /\ l \in Seq([filename : File, datagram_cnt : Nat]) /\ (l # <<>> => p \in 1 .. Len(l))
  BY DEF Types, FileTypes, UserTypes
<1>2. CASE ChooseFiles(c)
  <2>1. PICK f \in FileLists : rf_list' = [rf_list EXCEPT ![c] = Inserted(f)] /\ rf_ptr' = [rf_ptr EXCEPT ![c] = 1]
    BY <1>2 DEF ChooseFiles
  <2> QED BY <2>1, <1>1, FirstRound
<1>3. CASE SendSegment(c)
  <2>1. /\ rf_list' = [rf_list EXCEPT ![c][p].datagram_cnt = @ + 1]
        /\ rf_ptr' = [rf_ptr EXCEPT ![c] = IF p = Len(l) THEN 1 ELSE p + 1]
        /\ l # <<>> /\ l[p].datagram_cnt <= FileLength[l[p].filename] /\ state'[c] = "files"
    BY <1>3 DEF SendSegment
  <2>2. /\ rf_list'[c] = [l EXCEPT ![p].datagram_cnt = @ + 1] /\ rf_ptr'[c] = (IF p = Len(l) THEN 1 ELSE p + 1)
        /\ \A d \in Conn \ {c} : rf_list'[d] = rf_list[d] /\ rf_ptr'[d] = rf_ptr[d]
    BY <1>1, <2>1
  <2>3. Round([l EXCEPT ![p].datagram_cnt = @ + 1], IF p = Len(l) THEN 1 ELSE p + 1)
    <3> HIDE DEF l, p
    <3>1. Round(l, p) /\ p \in 1 .. Len(l)
      BY <1>1, <2>1 DEF l, p
    <3> QED BY <3>1, <1>1, <2>1, NextRound
  <2> HIDE DEF l, p
  <2> QED BY <2>1, <2>2, <2>3
<1>4. CASE SendEnd(c)
  <2>1. UNCHANGED files /\ l # <<>> /\ l[p].datagram_cnt > FileLength[l[p].filename]
    BY <1>4 DEF SendEnd
  <2>2. p = 1
    <3> HIDE DEF l, p
    <3>1. Round(l, p)
      BY DEF l, p
    <3> QED BY <3>1, <1>1, <2>1, FirstEnds
  <2> QED BY <2>1, <2>2 DEF files
<1>5. CASE RemoveFile(c)
  <2>1. rf_list' = [rf_list EXCEPT ![c] = Tail(@)] /\ rf_ptr' = rf_ptr /\ p = 1
    BY <1>5 DEF RemoveFile, Goto
  <2> QED BY <1>1, <2>1, ShorterRound
<1>6. CASE ~ChooseFiles(c) /\ ~SendSegment(c) /\ ~SendEnd(c) /\ ~RemoveFile(c)
  <2>1. UNCHANGED files
    <3>1. CASE UserActs(c)
      BY <1>6, <3>1 DEF UserActs, AskSignUp, AskLogIn, Quit, AskFriend, Confirm, TypeMessage, EndMessage,
                        LogOut, SendFails, Kill
    <3>2. CASE UserThread(c)
      BY <1>6, <3>2 DEF UserThread, Answered, FriendIs, Join, FilesSent, RecvFails, SendFails
    <3>3. CASE ReceiveThread(c)
      BY <3>3 DEF ReceiveThread, TakeSignal, TakeSource, ShowMessage, WriteFile, EndReceiving, files
    <3> QED BY <3>1, <3>2, <3>3
  <2>2. state'[c] = "remove" => state[c] = "remove"
    BY <1>1, <1>6
       DEF UserActs, AskSignUp, AskLogIn, Quit, AskFriend, Knock, Confirm, TypeMessage, EndMessage, LogOut,
           Kill, UserThread, Answered, FriendIs, Join, FilesSent, RecvFails, SendFails, Goto,
           ReceiveThread, TakeSignal, TakeSource, ShowMessage, WriteFile, EndReceiving
  <2> QED BY <2>1, <2>2 DEF files
<1> QED BY <1>2, <1>3, <1>4, <1>5, <1>6

LEMMA ClientLast ==
  ASSUME Lasting, NEW c \in Conn, Types, TypistInv(c), LastInv(c),
         UserActs(c) \/ UserThread(c) \/ ReceiveThread(c), UNCHANGED server
  PROVE  LastInv(c)'
<1>1. crashed' = crashed /\ Round(rf_list'[c], rf_ptr'[c]) /\ (state'[c] = "remove" => rf_ptr'[c] = 1)
  BY CrashStays, ListNext DEF LastInv
<1>2. /\ receiver \in [Conn -> [state : {"off", "on", "failed"}, src_usr : Person, open : SUBSET File]]
      /\ state \in [Conn -> Offered \cup InSession \cup {"exited"}] /\ typed[c] \in Nat
  BY DEF Types, InboxTypes, UserTypes
<1>3. CASE ReceiveThread(c)
  <2>1. state' = state /\ receiver[c].state = "on" /\ receiver'[c].state \in {"on", "failed"}
    BY <1>3, ReceivingTypes
  <2>2. typed' = typed /\ (receiver'[c].state = "failed" => crashed)
    <3>1. CASE EndReceiving(c)
      BY <3>1 DEF EndReceiving, counts
    <3>2. CASE TakeSignal(c) \/ TakeSource(c) \/ ShowMessage(c) \/ WriteFile(c)
      <4>1. typed' = typed
        BY <3>2 DEF TakeSignal, TakeSource, ShowMessage, WriteFile, counts
      <4>2. receiver'[c].state # "failed"
        BY <1>2, <2>1, <3>2 DEF TakeSignal, TakeSource, ShowMessage, WriteFile
      <4> QED BY <4>1, <4>2
    <3> QED BY <1>3, <3>1, <3>2 DEF ReceiveThread
  <2> QED BY <1>1, <2>1, <2>2 DEF LastInv
<1>4. CASE Ending(c)
  <2>1. state' = [state EXCEPT ![c] = "exited"] /\ receiver' = receiver /\ typed' = typed
    BY <1>4, EndingTypes DEF inbox, counts
  <2>2. typed[c] > 0 => crashed
    <3>1. CASE Quit(c)
      BY <3>1 DEF Quit, Goto, TypistInv, Offered
    <3>2. CASE RecvFails(c) \/ SendFails(c)
      BY <3>2 DEF RecvFails, SendFails
    <3>3. CASE Join(c)
      BY <3>3, <1>2 DEF Join, Goto, LastInv, InSession
    <3>4. ~(RemoveFile(c) /\ rf_ptr[c] # 1)
      BY DEF RemoveFile, Goto, LastInv
    <3> QED BY <1>4, <3>1, <3>2, <3>3, <3>4 DEF Ending, Kill, Lasting
  <2>3. state'[c] = "exited" /\ "exited" \notin InSession
    BY <1>2, <2>1 DEF InSession
  <2> QED BY <1>1, <2>1, <2>2, <2>3 DEF LastInv
<1>5. CASE Answered(c)
  <2>1. typed' = typed /\ \/ state'[c] = "offline" /\ receiver' = receiver
                          \/ state'[c] = "online" /\ receiver'[c].state = "on"
    BY <1>2, <1>5 DEF Answered, Goto, counts
  <2>2. "offline" \notin InSession \cup {"exited"} /\ "online" # "exited"
    BY DEF InSession
  <2> QED BY <1>1, <2>1, <2>2 DEF LastInv
<1>6. CASE AskSignUp(c) \/ AskLogIn(c)
  <2>1. receiver' = receiver /\ state'[c] \in {"signup", "login"}
    BY <1>2, <1>6, AskTypes
  <2>2. state'[c] \notin InSession \cup {"exited"}
    BY <2>1 DEF InSession
  <2> QED BY <1>1, <2>1, <2>2 DEF LastInv
<1>7. CASE Knocking(c) \/ Moving(c) \/ FriendIs(c)
  <2>1. receiver' = receiver /\ state[c] \in InSession /\ state'[c] \in InSession
    BY <1>2, <1>7, KnockingTypes, MovingTypes, FriendIsTypes DEF inbox, Quiet, InSession
  <2>2. state'[c] # "exited"
    BY <2>1 DEF InSession
  <2> QED BY <1>1, <2>1, <2>2 DEF LastInv
<1> QED BY <1>3, <1>4, <1>5, <1>6, <1>7, ClientSteps

LEMMA LastNext ==
  ASSUME Lasting, IInv, \A c \in Conn : TypistInv(c) /\ LastInv(c), [Next]_vars
  PROVE  \A c \in Conn : LastInv(c)'
<1>1. Types
  BY DEF IInv
<1>2. ASSUME NEW c \in Conn, ServerStep(c) PROVE \A d \in Conn : LastInv(d)'
  BY <1>2 DEF ServerStep, LastInv, client, files, counts, inbox
<1>3. ASSUME NEW c \in Conn, UserStep(c) \/ ThreadStep(c) PROVE \A d \in Conn : LastInv(d)'
  <2>1. (UserActs(c) \/ UserThread(c) \/ ReceiveThread(c)) /\ UNCHANGED server /\ crashed' = crashed
    BY <1>3, CrashStays DEF UserStep, ThreadStep
  <2>2. ASSUME NEW d \in Conn \ {c} PROVE LastInv(d)'
    <3>1. receiver'[d] = receiver[d] /\ typed'[d] = typed[d] /\ state'[d] = state[d]
      BY <1>1, <2>1, ClientBeside, ClientTakesTexts DEF Untouched
    <3>2. rf_list'[d] = rf_list[d] /\ rf_ptr'[d] = rf_ptr[d]
      BY <1>1, <2>1, ListNext DEF LastInv
    <3> QED BY <2>1, <3>1, <3>2 DEF LastInv
  <2> QED BY <1>1, <2>1, <2>2, ClientLast
<1>4. CASE UNCHANGED vars
  BY <1>4 DEF LastInv, vars, wire, client, files, counts, inbox
<1> QED BY <1>2, <1>3, <1>4 DEF Next
-----------------------------------------------------------------------------
(* Steps that take messages away, at most. *)

Fewer(t, s) == Texts(t) \subseteq Texts(s) /\ (Rises(s) => Rises(t))

Fades ==
  /\ typed' = typed
  /\ \A c \in Conn : /\ Fewer(handler'[c].todo, handler[c].todo) /\ Fewer(toServer'[c], toServer[c])
                     /\ Fewer(toClient'[c], toClient[c]) /\ shown'[c] = shown[c]
                     /\ delivery'[c].acc = delivery[c].acc \/ delivery[c].acc = None
  /\ \A n \in Name : Fewer(Jobs(n)', Jobs(n)) /\ Notes(n)' = Notes(n)

LEMMA NoTexts == ASSUME NEW s, NEW t, Texts(t) = {} PROVE Fewer(t, s)
<1>1. Rises(t)
  BY IsText DEF Rises
<1> QED BY <1>1 DEF Fewer

LEMMA InPassed ==
  /\ \A m : m \in Passed <=> (\E n \in Name : m \in Taken(n)) \/ \E c \in Conn : m \in Given(c)
  /\ \A m : m \in Passed' <=> (\E n \in Name : m \in Taken(n)') \/ \E c \in Conn : m \in Given(c)'
BY DEF Passed

LEMMA AheadFades ==
  ASSUME CountInv, AheadInv, typed' = typed, \A c \in Conn : Unread(c)' \subseteq Unread(c), Passed' \subseteq Passed
  PROVE  CountInv' /\ AheadInv'
BY DEF CountInv, AheadInv, Below

LEMMA Fading == ASSUME ThreadTypes, OrderInv, Fades PROVE OrderInv'
<1>1. \A c \in Conn : /\ Held(c)' \subseteq Held(c) /\ Sent(c)' \subseteq Sent(c)
                      /\ Coming(c)' \subseteq Coming(c) /\ Seen(c)' = Seen(c) /\ Screen(c)' = Screen(c)
  BY DEF Fades, Fewer, Held, Sent, Coming, Seen, Screen
<1>2. \A n \in Name : Queued(n)' \subseteq Queued(n) /\ Noted(n)' = Noted(n) /\ Notes(n)' = Notes(n)
  BY DEF Fades, Fewer, Queued, Noted
<1>3. CountInv' /\ AheadInv'
  <2>1. \A c \in Conn : Unread(c)' \subseteq Unread(c)
    BY <1>1 DEF Unread
  <2>2. Passed' \subseteq Passed
    BY <1>1, <1>2, InPassed DEF Taken, Given
  <2> QED BY <2>1, <2>2, AheadFades DEF OrderInv, Fades
<1>4. OnceInv'
  BY <1>1, <1>2 DEF OrderInv, OnceInv
<1>5. ASSUME NEW c \in Conn PROVE UnreadInv(c)' /\ ShownInv(c)' /\ ListenerInv(c)'
  <2>1. UnreadInv(c) /\ ShownInv(c) /\ ListenerInv(c)
    BY DEF OrderInv
  <2>2. UnreadInv(c)'
    BY <1>1, <2>1 DEF UnreadInv, Fades, Fewer, Below
  <2>3. ShownInv(c)'
    BY <1>1, <2>1 DEF ShownInv, Fades, Fewer, Below
  <2>4. ListenerInv(c)'
    <3>1. CASE delivery[c].acc = None
      <4>1. Coming(c)' = {} /\ Seen(c)' = {}
        BY <1>1, <2>1, <3>1 DEF ListenerInv
      <4> QED BY <4>1 DEF ListenerInv, Below
    <3>2. ASSUME NEW n \in Name, n = delivery[c].acc, n # None PROVE ListenerInv(c)'
      <4>1. delivery'[c].acc = n
        BY <3>2 DEF Fades
      <4>2. Queued(n)' \subseteq Queued(n)
        BY <1>2
      <4> QED BY <1>1, <2>1, <3>2, <4>1, <4>2 DEF ListenerInv, Below
    <3> QED BY <3>1, <3>2 DEF ThreadTypes, Person
  <2> QED BY <2>2, <2>3, <2>4
<1>6. \A n \in Name : AccountInv(n)'
  BY <1>2 DEF OrderInv, AccountInv, Fades, Fewer
<1> QED BY <1>3, <1>4, <1>5, <1>6 DEF OrderInv

LEMMA JobAdded ==
  ASSUME AccountTypes, NEW to, NEW from, NEW cmd, JobAssign(to, <<Command("username", from), cmd>>), NEW n \in Name
  PROVE  \/ Jobs(n)' = Jobs(n)
         \/ /\ n = to
            /\ cmd.tag # "message" => Fewer(Jobs(n)', Jobs(n))
            /\ cmd.tag = "message" =>
                 /\ Queued(n)' = Queued(n) \cup {cmd.arg}
                 /\ Rises(Jobs(n)) /\ Below(Queued(n), {cmd.arg}) => Rises(Jobs(n)')
<1> DEFINE job == <<Command("username", from), cmd>>
           p == Len(queue[n]) + 1
<1>1. /\ Len(queue[n]) \in Nat
      /\ \/ queue'[n] = queue[n]
         \/ /\ n = to /\ DOMAIN queue'[n] = DOMAIN queue[n] \cup {p} /\ queue'[n][p] = job
            /\ \A k \in DOMAIN queue[n] : k \in Int /\ k < p /\ queue'[n][k] = queue[n][k]
  BY AddedJob
<1>2. job[2] = cmd /\ p \in Int
  BY <1>1
<1> HIDE DEF job, p
<1>3. CASE queue'[n] = queue[n]
  BY <1>3 DEF Jobs
<1>4. CASE /\ n = to /\ DOMAIN queue'[n] = DOMAIN queue[n] \cup {p} /\ queue'[n][p] = job
           /\ \A k \in DOMAIN queue[n] : k \in Int /\ k < p /\ queue'[n][k] = queue[n][k]
  <2> DEFINE s == Jobs(n)
             t == [k \in DOMAIN queue'[n] |-> queue'[n][k][2]]
  <2>1. DOMAIN t = DOMAIN s \cup {p} /\ t[p] = cmd /\ \A k \in DOMAIN s : k \in Int /\ k < p /\ t[k] = s[k]
    BY <1>2, <1>4 DEF Jobs
  <2>2. t = Jobs(n)'
    BY DEF Jobs
  <2> HIDE DEF s, t
  <2>3. /\ t[p].tag = "message" =>
             Texts(t) = Texts(s) \cup {t[p].arg} /\ (Rises(s) /\ Below(Texts(s), {t[p].arg}) => Rises(t))
        /\ t[p].tag # "message" => Texts(t) = Texts(s) /\ (Rises(s) => Rises(t))
    BY <1>2, <2>1, AddedText
  <2>4. /\ Queued(n) = Texts(s) /\ Queued(n)' = Texts(t) /\ s = Jobs(n)
    BY <2>2 DEF Queued, s
  <2> QED BY <1>4, <2>1, <2>2, <2>3, <2>4 DEF Fewer
<1> QED BY <1>1, <1>3, <1>4

LEMMA NoteAdded ==
  ASSUME AccountTypes, NEW to, NEW from, NEW text, AddMessage(from, to, text), NEW n \in Name
  PROVE  \/ Notes(n)' = Notes(n)
         \/ /\ Noted(n)' = Noted(n) \cup {text}
            /\ Rises(Notes(n)) /\ Below(Noted(n), {text}) => Rises(Notes(n)')
<1> DEFINE note == [sender |-> from, receiver |-> to, content |-> text]
           h == recorded[n]
           r == Append(h, note)
           p == Len(h) + 1
<1>1. h \in Seq([sender : Person, receiver : Person, content : Text]) /\ Len(h) \in Nat
  BY LenProperties DEF AccountTypes
<1>2. recorded'[n] = h \/ recorded'[n] = r
  BY DEF AddMessage
<1>3. note.content = text
  OBVIOUS
<1> HIDE DEF note
<1>4. CASE recorded'[n] = h
  BY <1>4 DEF Notes
<1>5. CASE recorded'[n] = r
  <2> HIDE DEF h
  <2>1. h \in Seq([sender : Person, receiver : Person, content : Text] \cup {note})
    BY <1>1, SeqMonotonic
  <2>2. /\ r \in Seq([sender : Person, receiver : Person, content : Text] \cup {note}) /\ Len(r) = Len(h) + 1
        /\ (\A k \in 1 .. Len(h) : r[k] = h[k]) /\ r[Len(h) + 1] = note
    BY <2>1, AppendProperties
  <2> HIDE DEF r
  <2>3. DOMAIN r = 1 .. Len(h) + 1 /\ DOMAIN h = 1 .. Len(h)
    BY <2>1, <2>2, LenProperties
  <2>4. DOMAIN r = DOMAIN h \cup {p} /\ r[p] = note /\ p \in Int /\ \A k \in DOMAIN h : k \in Int /\ k < p /\ r[k] = h[k]
    BY <1>1, <2>2, <2>3
  <2> HIDE DEF p
  <2> DEFINE s == [k \in DOMAIN h |-> Command("message", h[k].content)]
             t == [k \in DOMAIN r |-> Command("message", r[k].content)]
  <2>5. DOMAIN t = DOMAIN s \cup {p} /\ t[p] = Command("message", text)
        /\ \A k \in DOMAIN s : k \in Int /\ k < p /\ t[k] = s[k]
    BY <1>3, <2>4
  <2>6. s = Notes(n) /\ t = Notes(n)'
    BY <1>5 DEF Notes, h
  <2> HIDE DEF s, t
  <2>7. t[p].tag = "message" /\ t[p].arg = text
    BY <2>5 DEF Command
  <2>8. t[p].tag = "message" =>
          Texts(t) = Texts(s) \cup {t[p].arg} /\ (Rises(s) /\ Below(Texts(s), {t[p].arg}) => Rises(t))
    BY <2>4, <2>5, AddedText
  <2>9. Noted(n) = Texts(s) /\ Noted(n)' = Texts(t)
    BY <2>6 DEF Noted
  <2> QED BY <2>6, <2>7, <2>8, <2>9
<1> QED BY <1>2, <1>4, <1>5

LEMMA ServerFades ==
  ASSUME NEW c \in Conn, Types, \A d \in Conn : StageInv(d), TypistInv(c), LastInv(c), ~crashed,
         ReadEnd(c) \/ StartDelivery(c) \/ (Taking(c) /\ ~TakeMessage(c)), UNCHANGED client
  PROVE  Fades
<1>1. typed' = typed /\ shown' = shown /\ \A s : Fewer(s, s)
  BY DEF client, counts, inbox, Fewer
<1>2. Handling(c) \/ Delivering(c)
  BY DEF Handling, Delivering, Taking
<1>3. \A d \in Conn \ {c} : /\ handler'[d] = handler[d] /\ toServer'[d] = toServer[d]
                            /\ toClient'[d] = toClient[d] /\ delivery'[d] = delivery[d]
  BY <1>2, ServerBeside DEF Untouched
<1>4. CASE ReadEnd(c)
  <2>1. toServer' = toServer /\ toClient' = toClient /\ UNCHANGED <<queue, recorded, delivery>>
    BY <1>4 DEF ReadEnd, wire, accounts
  <2>2. Texts(handler'[c].todo) \subseteq Texts(handler[c].buf) /\ c \in closed
    BY <1>4, ReadEndTexts
  <2>3. ~(typed[c] > 0)
    BY <2>2, Parts DEF LastInv
  <2>4. Texts(handler[c].buf) = {}
    BY <2>3 DEF TypistInv
  <2>5. Fewer(handler'[c].todo, handler[c].todo)
    BY <2>2, <2>4, NoTexts
  <2> QED BY <1>1, <1>3, <2>1, <2>5 DEF Fades, Jobs, Notes
<1>5. CASE StartDelivery(c)
  <2>1. toServer' = toServer /\ toClient' = toClient /\ UNCHANGED <<queue, recorded, handler>>
    BY <1>5 DEF StartDelivery, wire, accounts
  <2>2. delivery[c].acc = None
    BY <1>5 DEF StartDelivery, StageInv
  <2> QED BY <1>1, <1>3, <2>1, <2>2 DEF Fades, Jobs, Notes
<1>6. CASE Taking(c) /\ ~TakeMessage(c)
  <2>1. /\ handler[c].todo # <<>> /\ handler[c].todo \in Seq(Asked \cup {Escape})
        /\ handler'[c].todo = Tail(handler[c].todo) /\ toServer' = toServer
        /\ \A d \in Conn : delivery'[d].acc = delivery[d].acc
        /\ toClient'[c] = toClient[c] \/ \E t \in Answers : toClient'[c] = toClient[c] \o <<Tag(t)>>
        /\ TakeFileData(c) \/ UNCHANGED <<queue, recorded>>
    BY <1>6, TakingTexts
  <2>2. Fewer(handler'[c].todo, handler[c].todo)
    BY <2>1, TailTexts DEF Fewer
  <2>3. Fewer(toClient'[c], toClient[c])
    <3>1. ASSUME NEW t \in Answers PROVE Fewer(toClient[c] \o <<Tag(t)>>, toClient[c])
      <4>1. <<Tag(t)>> \in Seq({Tag(t)}) /\ Free(<<Tag(t)>>, {"message"})
        BY DEF Answers, Tag, Free
      <4>2. toClient[c] \in Seq(Told \cup [tag : Answers])
        BY Parts
      <4> QED BY <4>1, <4>2, Mute DEF Fewer
    <3> QED BY <2>1, <3>1, <1>1
  <2>4. \A n \in Name : Fewer(Jobs(n)', Jobs(n)) /\ Notes(n)' = Notes(n)
    <3>1. CASE TakeFileData(c)
      <4>1. /\ JobAssign(handler[c].toWhoseAcc, <<Command("username", handler[c].acc), Now(c)>>)
            /\ recorded' = recorded /\ Now(c).tag = "filedata"
        BY <3>1 DEF TakeFileData
      <4>2. AccountTypes
        BY DEF Types
      <4>3. \A n \in Name : Jobs(n)' = Jobs(n) \/ Fewer(Jobs(n)', Jobs(n))
        BY <4>1, <4>2, JobAdded
      <4> QED BY <4>1, <4>3, <1>1 DEF Notes
    <3>2. CASE UNCHANGED <<queue, recorded>>
      BY <3>2, <1>1 DEF Jobs, Notes
    <3> QED BY <2>1, <3>1, <3>2
  <2> QED BY <1>1, <1>3, <2>1, <2>2, <2>3, <2>4 DEF Fades
<1> QED BY <1>4, <1>5, <1>6

LEMMA ClientFades ==
  ASSUME NEW c \in Conn, Types, UserActs(c) \/ UserThread(c) \/ ReceiveThread(c), UNCHANGED server,
         ~TypeMessage(c), ~ShowMessage(c)
  PROVE  Fades
<1>1. \A s : Fewer(s, s)
  BY DEF Fewer
<1>2. handler' = handler /\ delivery' = delivery /\ queue' = queue /\ recorded' = recorded
  BY DEF server, accounts
<1>3. /\ typed' = typed /\ \A d \in Conn \ {c} : toServer'[d] = toServer[d]
      /\ Fewer(toServer'[c], toServer[c])
  BY ClientTexts DEF Fewer
<1>4. shown' = shown /\ \A d \in Conn \ {c} : toClient'[d] = toClient[d]
  BY ClientTakesTexts
<1>5. Fewer(toClient'[c], toClient[c])
  <2>1. \/ toClient'[c] = toClient[c] \/ toClient'[c] = <<>>
        \/ toClient[c] # <<>> /\ toClient'[c] = Tail(toClient[c])
    BY ClientTakesTexts
  <2>2. CASE toClient'[c] = <<>>
    <3>1. Texts(<<>>) = {}
      BY DEF Texts
    <3> QED BY <2>2, <3>1, NoTexts
  <2>3. CASE toClient[c] # <<>> /\ toClient'[c] = Tail(toClient[c])
    BY <2>3, Parts, TailTexts DEF Fewer
  <2> QED BY <1>1, <2>1, <2>2, <2>3
<1> QED BY <1>1, <1>2, <1>3, <1>4, <1>5 DEF Fades, Jobs, Notes
-----------------------------------------------------------------------------
(* Steps that move messages. *)

\* A message of a client is before those it has typed later, and no others.
LEMMA OwnTexts ==
  ASSUME \A d \in Conn : TypistInv(d), NEW c \in Conn, NEW m, m.by = c, NEW d \in Conn, d # c
  PROVE  Below({m}, Unread(d))
BY DEF TypistInv, Below, Unread, Held, Sent

LEMMA TakeMessageOrder ==
  ASSUME NEW c \in Conn, Types, \A d \in Conn : StageInv(d) /\ TypistInv(d), OrderInv,
         TakeMessage(c), UNCHANGED client
  PROVE  OrderInv'
<1> DEFINE m == Now(c).arg
           h == handler[c]
<1>1. /\ Now(c).tag = "message" /\ m \in Text /\ m \in Held(c) /\ m.by = c /\ m.n \in Nat
      /\ JobAssign(h.toWhoseAcc, <<Command("username", h.acc), Now(c)>>)
  BY TakenMessage DEF Held, Text
<1>2. /\ h.todo # <<>> /\ h.todo \in Seq(Asked \cup {Escape}) /\ handler'[c].todo = Tail(h.todo)
      /\ toServer' = toServer /\ \A d \in Conn : delivery'[d].acc = delivery[d].acc
      /\ \A d \in Conn \ {c} : handler'[d] = handler[d]
  BY TakingTexts DEF Taking
<1>3. UNCHANGED <<toClient, shown, typed>>
  BY DEF TakeMessage, wire, client, inbox, counts
<1>4. AccountTypes /\ \A n \in Name : Notes(n)' = Notes(n) \/ AddMessage(h.acc, h.toWhoseAcc, m)
  BY DEF TakeMessage, Types, Notes
<1>5. /\ CountInv /\ AheadInv /\ OnceInv
      /\ \A d \in Conn : UnreadInv(d) /\ ShownInv(d) /\ ListenerInv(d)
      /\ \A n \in Name : AccountInv(n)
  BY DEF OrderInv
<1> HIDE DEF m, h
<1>6. /\ Held(c)' \subseteq Held(c) /\ Rises(handler'[c].todo) /\ Below({m}, Held(c)')
  <2>1. Rises(h.todo) /\ Head(h.todo) = Now(c)
    BY <1>5 DEF UnreadInv, h, Now
  <2> QED BY <1>1, <1>2, <2>1, TailTexts DEF Held, h, m
<1>7. /\ \A d \in Conn : Sent(d)' = Sent(d) /\ Coming(d)' = Coming(d) /\ Seen(d)' = Seen(d)
      /\ \A d \in Conn \ {c} : Held(d)' = Held(d)
  BY <1>2, <1>3 DEF Sent, Coming, Seen, Screen, Held
<1>8. \A d \in Conn : Unread(d)' \subseteq Unread(d) /\ Below({m}, Unread(d)')
  <2>1. Unread(c)' \subseteq Unread(c) /\ Below({m}, Unread(c)')
    <3>1. Below({m}, Sent(c))
      BY <1>1, <1>5 DEF UnreadInv, Below
    <3> QED BY <3>1, <1>6, <1>7 DEF Unread, Below
  <2>2. \A d \in Conn \ {c} : Unread(d)' = Unread(d)
    BY <1>7 DEF Unread
  <2> QED BY <1>1, <2>1, <2>2, OwnTexts
<1>9. Below(Passed, {m}) /\ m \notin Passed
  <2>1. m \in Unread(c)
    BY <1>1 DEF Unread
  <2> QED BY <1>1, <1>5, <2>1 DEF AheadInv, Below
<1>10. \A n \in Name : /\ Queued(n) \subseteq Passed /\ Noted(n) \subseteq Passed
  BY InPassed DEF Taken
<1>11. \A d \in Conn : Coming(d) \subseteq Passed /\ Seen(d) \subseteq Passed
  BY InPassed DEF Given
<1>12. \A n \in Name : /\ Queued(n)' = Queued(n) \/ (n = h.toWhoseAcc /\ Queued(n)' = Queued(n) \cup {m})
                       /\ Rises(Jobs(n)')
  <2> SUFFICES ASSUME NEW n \in Name
               PROVE  /\ Queued(n)' = Queued(n) \/ (n = h.toWhoseAcc /\ Queued(n)' = Queued(n) \cup {m})
                      /\ Rises(Jobs(n)')
    OBVIOUS
  <2>1. Below(Queued(n), {m}) /\ Rises(Jobs(n))
    BY <1>5, <1>9, <1>10 DEF Below, AccountInv
  <2>2. \/ Jobs(n)' = Jobs(n)
        \/ /\ n = h.toWhoseAcc /\ Queued(n)' = Queued(n) \cup {m}
           /\ Rises(Jobs(n)) /\ Below(Queued(n), {m}) => Rises(Jobs(n)')
    BY <1>1, <1>4, JobAdded DEF m
  <2> QED BY <2>1, <2>2 DEF Queued
<1>13. \A n \in Name : Noted(n)' \subseteq Noted(n) \cup {m} /\ Rises(Notes(n)')
  <2> SUFFICES ASSUME NEW n \in Name PROVE Noted(n)' \subseteq Noted(n) \cup {m} /\ Rises(Notes(n)')
    OBVIOUS
  <2>1. Below(Noted(n), {m}) /\ Rises(Notes(n))
    BY <1>5, <1>9, <1>10 DEF Below, AccountInv
  <2>2. \/ Notes(n)' = Notes(n)
        \/ /\ Noted(n)' = Noted(n) \cup {m}
           /\ Rises(Notes(n)) /\ Below(Noted(n), {m}) => Rises(Notes(n)')
    BY <1>4, NoteAdded
  <2> QED BY <2>1, <2>2 DEF Noted
<1>14. Passed' \subseteq Passed \cup {m}
  BY <1>7, <1>12, <1>13, InPassed DEF Taken, Given
<1>15. CountInv'
  <2>1. m.n <= typed[m.by]
    BY <1>1, <1>5 DEF CountInv, Unread
  <2> QED BY <2>1, <1>1, <1>3, <1>5, <1>8, <1>14 DEF CountInv
<1>16. AheadInv'
  BY <1>5, <1>8, <1>14 DEF AheadInv, Below
<1>17. OnceInv'
  BY <1>5, <1>7, <1>9, <1>10, <1>11, <1>12 DEF OnceInv
<1>18. ASSUME NEW d \in Conn PROVE UnreadInv(d)' /\ ShownInv(d)' /\ ListenerInv(d)'
  <2>1. UnreadInv(d)'
    <3>1. CASE d = c
      BY <3>1, <1>2, <1>5, <1>6, <1>7 DEF UnreadInv, Below
    <3>2. CASE d # c
      BY <3>2, <1>2, <1>5, <1>7 DEF UnreadInv
    <3> QED BY <3>1, <3>2
  <2>2. ShownInv(d)'
    BY <1>3, <1>5, <1>7 DEF ShownInv, Screen
  <2>3. ListenerInv(d)'
    <3>1. CASE delivery[d].acc = None
      BY <3>1, <1>2, <1>5, <1>7 DEF ListenerInv
    <3>2. ASSUME NEW n \in Name, n = delivery[d].acc, n # None PROVE ListenerInv(d)'
      <4>1. Below(Coming(d) \cup Seen(d), Queued(n)) /\ delivery'[d].acc = n
        BY <3>2, <1>2, <1>5 DEF ListenerInv
      <4>2. Below(Coming(d) \cup Seen(d), {m})
        BY <1>9, <1>11 DEF Below
      <4>3. Queued(n)' \subseteq Queued(n) \cup {m}
        BY <1>12
      <4>4. Below(Coming(d)' \cup Seen(d)', Queued(n)')
        BY <4>1, <4>2, <4>3, <1>7 DEF Below
      <4> QED BY <3>2, <4>1, <4>4 DEF ListenerInv
    <3> QED BY <3>1, <3>2 DEF Types, ThreadTypes, Person
  <2> QED BY <2>1, <2>2, <2>3
<1>19. \A n \in Name : AccountInv(n)'
  BY <1>12, <1>13 DEF AccountInv
<1> QED BY <1>15, <1>16, <1>17, <1>18, <1>19 DEF OrderInv

\* What a job that is delivered takes out of the queue.
LEMMA HeadJob ==
  ASSUME NEW n \in Name, queue[n] \in Seq(Seq(Told)), queue[n] # <<>>, JobInv(n), queue'[n] = Tail(queue[n])
  PROVE  LET job == Head(queue[n]) IN
         /\ GoodJob(job) /\ Fewer(Jobs(n)', Jobs(n))
         /\ Rises(job) /\ Texts(job) \subseteq Queued(n)
         /\ Rises(Jobs(n)) => Below(Texts(job), Queued(n)')
<1> DEFINE job == Head(queue[n])
           q == queue[n]
           s == Jobs(n)
           t == [k \in DOMAIN Tail(q) |-> Tail(q)[k][2]]
<1>1. /\ job = q[1] /\ 1 \in DOMAIN q /\ Tail(q) \in Seq(Seq(Told))
      /\ \A k \in DOMAIN Tail(q) : k + 1 \in DOMAIN q /\ k \in Nat /\ Tail(q)[k] = q[k + 1]
  BY TailKeeps
<1>2. GoodJob(job)
  BY <1>1 DEF JobInv
<1>3. job \in Seq(Told)
  BY <1>1, ElementOfSeq, LenProperties
<1>4. t = Jobs(n)'
  BY DEF Jobs
<1>5. DOMAIN s = DOMAIN q /\ \A k \in DOMAIN q : s[k] = q[k][2]
  BY DEF Jobs
<1>6. DOMAIN t = DOMAIN Tail(q) /\ \A k \in DOMAIN t : k \in Int /\ k > 0 /\ k + 1 \in DOMAIN s /\ t[k] = s[k + 1]
  <2>1. DOMAIN Tail(q) = 1 .. Len(Tail(q)) /\ Len(Tail(q)) \in Nat
    BY <1>1, LenProperties
  <2> QED BY <2>1, <1>1, <1>5
<1>7. s[1] = job[2] /\ 1 \in DOMAIN s
  BY <1>1, <1>5
<1> HIDE DEF s, t, q, job
<1>8. Fewer(t, s)
  <2>1. DOMAIN t \subseteq Int /\ 1 \in Int
    BY <1>6
  <2> QED BY <2>1, <1>6, Shifted DEF Fewer
<1>9. DOMAIN job = {1, 2} /\ job[1].tag # "message"
  BY <1>2, <1>3, LenProperties DEF GoodJob, Source
<1>10. \A m \in Texts(job) : job[2].tag = "message" /\ m = job[2].arg
  BY <1>9, IsText
<1>11. Rises(job)
  BY <1>9 DEF Rises
<1>12. Texts(job) \subseteq Texts(s)
  BY <1>7, <1>10, IsText
<1>13. ASSUME Rises(s) PROVE Below(Texts(job), Texts(t))
  <2> SUFFICES ASSUME NEW m \in Texts(job), NEW x \in Texts(t), m.by = x.by PROVE m.n < x.n
    BY DEF Below
  <2>1. PICK k \in DOMAIN t : t[k].tag = "message" /\ t[k].arg = x
    BY IsText
  <2>2. k + 1 \in DOMAIN s /\ t[k] = s[k + 1] /\ 1 < k + 1
    BY <1>6
  <2>3. s[1].tag = "message" /\ s[1].arg = m
    BY <1>7, <1>10
  <2> QED BY <1>7, <1>13, <2>1, <2>2, <2>3 DEF Rises
<1>14. Texts(s) = Queued(n) /\ Texts(t) = Queued(n)' /\ s = Jobs(n)
  BY <1>4 DEF Queued, s
<1> QED BY <1>2, <1>4, <1>8, <1>11, <1>12, <1>13, <1>14 DEF job

LEMMA DeliverOrder ==
  ASSUME NEW c \in Conn, Types, StageInv(c), \A n \in Name : JobInv(n), OrderInv, Deliver(c), UNCHANGED client
  PROVE  OrderInv'
<1>0. delivery[c].acc \in Name
  BY Delivered
<1> SUFFICES ASSUME NEW n \in Name, n = delivery[c].acc PROVE OrderInv'
  BY <1>0
<1> DEFINE job == Head(queue[n])
<1>1. /\ queue[n] \in Seq(Seq(Told)) /\ queue[n] # <<>> /\ job \in Seq(Told)
      /\ queue' = [queue EXCEPT ![n] = Tail(queue[n])] /\ toServer' = toServer
      /\ \A d \in Conn \ {c} : toClient'[d] = toClient[d]
      /\ toClient' = toClient \/ toClient' = [toClient EXCEPT ![c] = @ \o job]
  BY Delivered
<1>2. toClient'[c] = toClient[c] \/ toClient'[c] = toClient[c] \o job
  BY <1>1 DEF Types, WireTypes
<1>3. queue'[n] = Tail(queue[n]) /\ \A k \in Name \ {n} : queue'[k] = queue[k]
  BY <1>1 DEF Types, AccountTypes
<1>4. UNCHANGED <<handler, delivery, recorded, shown, typed>> /\ n # None
  BY DEF Deliver, client, inbox, counts
<1>5. /\ CountInv /\ AheadInv /\ OnceInv
      /\ \A d \in Conn : UnreadInv(d) /\ ShownInv(d) /\ ListenerInv(d)
      /\ \A k \in Name : AccountInv(k)
  BY DEF OrderInv
<1> HIDE DEF job
<1>6. /\ Fewer(Jobs(n)', Jobs(n)) /\ Rises(job) /\ Texts(job) \subseteq Queued(n)
      /\ Rises(Jobs(n)) => Below(Texts(job), Queued(n)')
  BY <1>1, <1>3, HeadJob DEF job
<1>7. Queued(n)' \subseteq Queued(n) /\ Below(Texts(job), Queued(n)')
  BY <1>1, <1>5, <1>6 DEF AccountInv, Fewer, Queued
<1>8. \A k \in Name \ {n} : Jobs(k)' = Jobs(k) /\ Queued(k)' = Queued(k)
  BY <1>3 DEF Jobs, Queued
<1>9. \A k \in Name : Notes(k)' = Notes(k) /\ Noted(k)' = Noted(k)
  BY <1>4 DEF Notes, Noted
<1>10. /\ \A d \in Conn : Held(d)' = Held(d) /\ Sent(d)' = Sent(d) /\ Screen(d)' = Screen(d) /\ Seen(d)' = Seen(d)
       /\ \A d \in Conn \ {c} : Coming(d)' = Coming(d)
  BY <1>1, <1>4 DEF Held, Sent, Screen, Seen, Coming
<1>11. Below(Coming(c) \cup Seen(c), Queued(n))
  BY <1>4, <1>5 DEF ListenerInv
<1>12. /\ Coming(c)' \subseteq Coming(c) \cup Texts(job) /\ Rises(toClient'[c])
  <2>1. Rises(toClient[c]) /\ Below(Coming(c), Texts(job))
    BY <1>5, <1>6, <1>11 DEF ShownInv, Below
  <2>2. /\ Texts(toClient[c] \o job) = Texts(toClient[c]) \cup Texts(job)
        /\ Rises(toClient[c]) /\ Rises(job) /\ Below(Texts(toClient[c]), Texts(job)) => Rises(toClient[c] \o job)
    BY <1>1, Parts, JoinedTexts
  <2> QED BY <1>2, <1>6, <2>1, <2>2 DEF Coming
<1>13. CountInv' /\ AheadInv'
  <2>1. \A d \in Conn : Unread(d)' = Unread(d)
    BY <1>10 DEF Unread
  <2>2. \A k \in Name : Taken(k)' \subseteq Taken(k)
    BY <1>7, <1>8, <1>9 DEF Taken
  <2>3. Given(c)' \subseteq Given(c) \cup Taken(n) /\ \A d \in Conn \ {c} : Given(d)' = Given(d)
    BY <1>6, <1>10, <1>12 DEF Given, Taken
  <2>4. Passed' \subseteq Passed
    <3>1. ASSUME NEW m \in Passed' PROVE m \in Passed
      <4>1. CASE \E k \in Name : m \in Taken(k)'
        BY <2>2, <4>1, InPassed
      <4>2. CASE \E d \in Conn : m \in Given(d)'
        BY <2>3, <4>2, InPassed
      <4> QED BY <4>1, <4>2, InPassed
    <3> QED BY <3>1
  <2> QED BY <1>4, <1>5, <2>1, <2>4, AheadFades
<1>14. Texts(job) \cap Queued(n)' = {}
  <2> SUFFICES ASSUME NEW m \in Texts(job), m \in Queued(n)' PROVE FALSE
    OBVIOUS
  <2>1. m.n < m.n
    BY <1>7 DEF Below
  <2>2. m.n \in Nat
    <3>1. PICK k \in DOMAIN job : job[k].tag = "message" /\ job[k].arg = m
      BY IsText
    <3>2. job[k] \in Told \cup [tag : Answers]
      BY <1>1, <3>1, ElementOfSeq, LenProperties
    <3>3. m \in Text
      BY <3>1, <3>2, ToldParts
    <3> QED BY <3>3 DEF Text
  <2> QED BY <2>1, <2>2
<1>15. OnceInv'
  <2>1. \A k, l \in Name : k # l => Queued(k)' \cap Queued(l)' = {}
    BY <1>5, <1>7, <1>8 DEF OnceInv
  <2>2. \A d \in Conn, k \in Name : Coming(d)' \cap Queued(k)' = {}
    <3>1. \A k \in Name : Coming(c)' \cap Queued(k)' = {}
      <4>1. Coming(c)' \cap Queued(n)' = {}
        BY <1>5, <1>7, <1>12, <1>14 DEF OnceInv
      <4>2. \A k \in Name \ {n} : Coming(c)' \cap Queued(k)' = {}
        BY <1>5, <1>6, <1>8, <1>12 DEF OnceInv
      <4> QED BY <4>1, <4>2
    <3>2. \A d \in Conn \ {c}, k \in Name : Coming(d)' \cap Queued(k)' = {}
      BY <1>5, <1>7, <1>8, <1>10 DEF OnceInv
    <3> QED BY <3>1, <3>2
  <2>3. \A d \in Conn \ {c} : Coming(d)' \cap Coming(c)' = {}
    BY <1>1, <1>5, <1>6, <1>10, <1>12 DEF OnceInv
  <2>4. \A d, e \in Conn : d # e => Coming(d)' \cap Coming(e)' = {}
    BY <2>3, <1>5, <1>10 DEF OnceInv
  <2> QED BY <2>1, <2>2, <2>4 DEF OnceInv
<1>16. ASSUME NEW d \in Conn PROVE UnreadInv(d)' /\ ShownInv(d)' /\ ListenerInv(d)'
  <2>1. UnreadInv(d)'
    BY <1>1, <1>4, <1>5, <1>10 DEF UnreadInv
  <2>2. ShownInv(d)'
    <3>1. CASE d = c
      <4>1. Below(Seen(c), Coming(c)')
        BY <1>5, <1>6, <1>11, <1>12 DEF Below, ShownInv
      <4> QED BY <3>1, <4>1, <1>5, <1>10, <1>12 DEF ShownInv
    <3>2. CASE d # c
      BY <3>2, <1>1, <1>5, <1>10 DEF ShownInv
    <3> QED BY <3>1, <3>2
  <2>3. ListenerInv(d)'
    <3>1. CASE d = c
      <4>1. Below(Coming(c)' \cup Seen(c), Queued(n)')
        BY <1>7, <1>11, <1>12 DEF Below
      <4>2. n = delivery'[d].acc
        BY <3>1, <1>4
      <4> QED BY <3>1, <4>1, <4>2, <1>4, <1>10 DEF ListenerInv
    <3>2. CASE d # c /\ delivery[d].acc = None
      BY <3>2, <1>4, <1>5, <1>10 DEF ListenerInv
    <3>3. ASSUME d # c, NEW k \in Name, k = delivery[d].acc, k # None PROVE ListenerInv(d)'
      <4>1. Below(Coming(d) \cup Seen(d), Queued(k)) /\ delivery'[d].acc = k
        BY <3>3, <1>4, <1>5 DEF ListenerInv
      <4>2. Queued(k)' \subseteq Queued(k)
        BY <1>7, <1>8
      <4>3. Below(Coming(d)' \cup Seen(d)', Queued(k)')
        BY <3>3, <4>1, <4>2, <1>10 DEF Below
      <4> QED BY <3>3, <4>1, <4>3 DEF ListenerInv
    <3> QED BY <3>1, <3>2, <3>3 DEF Types, ThreadTypes, Person
  <2> QED BY <2>1, <2>2, <2>3
<1>17. \A k \in Name : AccountInv(k)'
  BY <1>5, <1>6, <1>8, <1>9 DEF AccountInv, Fewer
<1> QED BY <1>13, <1>15, <1>16, <1>17 DEF OrderInv

LEMMA ReadOrder ==
  ASSUME NEW c \in Conn, Types, OrderInv, Read(c), UNCHANGED client PROVE OrderInv'
<1>1. /\ handler[c].todo = <<>> /\ \A d \in Conn \ {c} : handler'[d] = handler[d] /\ toServer'[d] = toServer[d]
      /\ Held(c)' \subseteq Sent(c) /\ Sent(c)' \subseteq Sent(c)
      /\ Rises(toServer[c]) => Rises(handler'[c].todo) /\ Rises(toServer'[c]) /\ Below(Held(c)', Sent(c)')
  BY ReadTexts DEF Held, Sent
<1>2. UNCHANGED <<delivery, queue, recorded, toClient, shown, typed>>
  BY DEF Read, accounts, client, inbox, counts
<1>3. /\ \A d \in Conn : Coming(d)' = Coming(d) /\ Seen(d)' = Seen(d) /\ Screen(d)' = Screen(d)
      /\ \A n \in Name : /\ Queued(n)' = Queued(n) /\ Noted(n)' = Noted(n)
                         /\ Jobs(n)' = Jobs(n) /\ Notes(n)' = Notes(n)
  BY <1>2 DEF Coming, Seen, Screen, Queued, Noted, Jobs, Notes
<1>4. CountInv' /\ AheadInv'
  <2>1. Unread(c)' \subseteq Unread(c) /\ \A d \in Conn \ {c} : Unread(d)' = Unread(d)
    BY <1>1 DEF Unread, Held, Sent
  <2>2. Passed' = Passed
    BY <1>3 DEF Passed, Taken, Given
  <2> QED BY <1>2, <2>1, <2>2, AheadFades DEF OrderInv
<1>5. \A d \in Conn : UnreadInv(d)'
  <2>1. UnreadInv(c)'
    BY <1>1 DEF OrderInv, UnreadInv
  <2>2. \A d \in Conn \ {c} : UnreadInv(d)'
    BY <1>1 DEF OrderInv, UnreadInv, Held, Sent
  <2> QED BY <2>1, <2>2
<1>6. \A d \in Conn : ShownInv(d)' /\ ListenerInv(d)'
  <2>1. \A d \in Conn : ShownInv(d)'
    BY <1>2, <1>3 DEF OrderInv, ShownInv
  <2>2. \A d \in Conn : ListenerInv(d)'
    <3> SUFFICES ASSUME NEW d \in Conn PROVE ListenerInv(d)'
      OBVIOUS
    <3>1. CASE delivery[d].acc = None
      BY <3>1, <1>2, <1>3 DEF OrderInv, ListenerInv
    <3>2. ASSUME NEW n \in Name, n = delivery[d].acc, n # None PROVE ListenerInv(d)'
      BY <3>2, <1>2, <1>3 DEF OrderInv, ListenerInv
    <3> QED BY <3>1, <3>2 DEF Types, ThreadTypes, Person
  <2> QED BY <2>1, <2>2
<1>7. OnceInv' /\ \A n \in Name : AccountInv(n)'
  BY <1>3 DEF OrderInv, OnceInv, AccountInv
<1> QED BY <1>4, <1>5, <1>6, <1>7 DEF OrderInv

LEMMA TypeOrder ==
  ASSUME NEW c \in Conn, Types, \A d \in Conn : TypistInv(d), OrderInv, TypeMessage(c), UNCHANGED server
  PROVE  OrderInv'
<1> DEFINE m == Typed(c)
<1>1. /\ m \in Text /\ m.by = c /\ m.n = typed[c] + 1 /\ typed[c] \in Nat
      /\ typed' = [typed EXCEPT ![c] = @ + 1]
      /\ \A d \in Conn \ {c} : toServer'[d] = toServer[d]
      /\ Sent(c)' = Sent(c) \cup {m}
      /\ Rises(toServer[c]) /\ Below(Sent(c), {m}) => Rises(toServer'[c])
      /\ UNCHANGED <<toClient, shown>>
  BY TypedTexts DEF Typed, Sent
<1>2. typed'[c] = typed[c] + 1 /\ \A d \in Conn \ {c} : typed'[d] = typed[d]
  BY <1>1 DEF Types, UserTypes
<1>3. UNCHANGED <<handler, delivery, queue, recorded>>
  BY DEF server, accounts
<1>4. /\ \A d \in Conn : Coming(d)' = Coming(d) /\ Seen(d)' = Seen(d) /\ Screen(d)' = Screen(d) /\ Held(d)' = Held(d)
      /\ \A n \in Name : /\ Queued(n)' = Queued(n) /\ Noted(n)' = Noted(n)
                         /\ Jobs(n)' = Jobs(n) /\ Notes(n)' = Notes(n)
  BY <1>1, <1>3 DEF Coming, Seen, Screen, Held, Queued, Noted, Jobs, Notes
<1>5. /\ CountInv /\ AheadInv /\ OnceInv
      /\ \A d \in Conn : UnreadInv(d) /\ ShownInv(d) /\ ListenerInv(d)
      /\ \A n \in Name : AccountInv(n)
  BY DEF OrderInv
<1> HIDE DEF m
<1>6. Passed' = Passed
  BY <1>4 DEF Passed, Taken, Given
<1>7. Unread(c)' = Unread(c) \cup {m} /\ \A d \in Conn \ {c} : Unread(d)' = Unread(d)
  <2>1. Unread(c)' = Unread(c) \cup {m}
    BY <1>1, <1>4 DEF Unread
  <2>2. \A d \in Conn \ {c} : Sent(d)' = Sent(d)
    BY <1>1 DEF Sent
  <2> QED BY <2>1, <2>2, <1>4 DEF Unread
<1>8. (\A x \in Unread(c) : x.n \in Nat /\ x.n <= typed[c]) /\ \A x \in Passed : x.n \in Nat /\ x.by \in Conn
  BY <1>5 DEF CountInv, Text
<1>9. Below(Unread(c), {m})
  BY <1>1, <1>8 DEF Below
<1>10. CountInv'
  <2>1. \A d \in Conn : typed[d] \in Nat /\ typed'[d] \in Nat /\ typed'[d] >= typed[d]
    BY <1>1, <1>2 DEF Types, UserTypes
  <2>2. \A x \in Unread(c)' : x \in Text /\ x.n <= typed'[c]
    BY <1>1, <1>2, <1>5, <1>7, <1>8 DEF CountInv
  <2>3. \A d \in Conn \ {c} : \A x \in Unread(d)' : x \in Text /\ x.n <= typed'[d]
    BY <1>2, <1>5, <1>7 DEF CountInv
  <2>4. \A x \in Passed' : x \in Text /\ x.n <= typed'[x.by]
    <3> SUFFICES ASSUME NEW x \in Passed PROVE x \in Text /\ x.n <= typed'[x.by]
      BY <1>6
    <3>1. x \in Text /\ x.n <= typed[x.by] /\ x.n \in Nat /\ x.by \in Conn
      BY <1>5, <1>8 DEF CountInv
    <3>2. typed[x.by] \in Nat /\ typed'[x.by] \in Nat /\ typed'[x.by] >= typed[x.by]
      BY <2>1, <3>1
    <3> QED BY <3>1, <3>2
  <2> QED BY <2>2, <2>3, <2>4 DEF CountInv
<1>11. AheadInv'
  <2>1. Below(Passed, {m})
    BY <1>1, <1>5, <1>8 DEF CountInv, Below
  <2> QED BY <2>1, <1>5, <1>6, <1>7 DEF AheadInv, Below
<1>12. \A d \in Conn : UnreadInv(d)'
  <2>1. UnreadInv(c)'
    <3>1. Below(Sent(c), {m}) /\ Below(Held(c), {m})
      BY <1>9 DEF Below, Unread
    <3> QED BY <3>1, <1>1, <1>3, <1>4, <1>5 DEF UnreadInv, Below
  <2>2. \A d \in Conn \ {c} : UnreadInv(d)'
    BY <1>1, <1>3, <1>5 DEF UnreadInv, Held, Sent
  <2> QED BY <2>1, <2>2
<1>13. \A d \in Conn : ShownInv(d)'
  BY <1>1, <1>4, <1>5 DEF ShownInv
<1>14. \A d \in Conn : ListenerInv(d)'
  <2> SUFFICES ASSUME NEW d \in Conn PROVE ListenerInv(d)'
    OBVIOUS
  <2>1. CASE delivery[d].acc = None
    BY <2>1, <1>3, <1>4, <1>5 DEF ListenerInv
  <2>2. ASSUME NEW n \in Name, n = delivery[d].acc, n # None PROVE ListenerInv(d)'
    BY <2>2, <1>3, <1>4, <1>5 DEF ListenerInv
  <2> QED BY <2>1, <2>2 DEF Types, ThreadTypes, Person
<1>15. OnceInv' /\ \A n \in Name : AccountInv(n)'
  BY <1>4, <1>5 DEF OnceInv, AccountInv
<1> QED BY <1>10, <1>11, <1>12, <1>13, <1>14, <1>15 DEF OrderInv

LEMMA ShowOrder ==
  ASSUME NEW c \in Conn, Types, OrderInv, ShowMessage(c), UNCHANGED server PROVE OrderInv'
<1> DEFINE s == toClient[c]
           m == Head(s).arg
           entry == <<receiver[c].src_usr, m>>
<1>1. /\ s # <<>> /\ Head(s).tag = "message" /\ shown' = [shown EXCEPT ![c] = Append(@, entry)]
      /\ toClient' = [toClient EXCEPT ![c] = Tail(@)] /\ UNCHANGED <<toServer, typed>>
  BY DEF ShowMessage, Has, NextTag, ClientTakes, counts
<1>2. /\ shown \in [Conn -> Seq(Person \X Text)] /\ s \in Seq(Told \cup [tag : Answers])
      /\ toClient \in [Conn -> Seq(Told \cup [tag : Answers])]
  BY Parts DEF Types, InboxTypes, WireTypes
<1>3. /\ toClient'[c] = Tail(s) /\ shown'[c] = Append(shown[c], entry)
      /\ \A d \in Conn \ {c} : toClient'[d] = toClient[d] /\ shown'[d] = shown[d]
  BY <1>1, <1>2
<1>4. UNCHANGED <<handler, delivery, queue, recorded, toServer, typed>>
  BY <1>1 DEF server, accounts
<1>5. /\ CountInv /\ AheadInv /\ OnceInv
      /\ \A d \in Conn : UnreadInv(d) /\ ShownInv(d) /\ ListenerInv(d)
      /\ \A n \in Name : AccountInv(n)
  BY DEF OrderInv
<1>6. entry[2] = m
  OBVIOUS
<1> HIDE DEF m, entry
<1>7. /\ Coming(c)' \subseteq Coming(c) /\ m \in Coming(c) /\ Rises(toClient'[c]) /\ Below({m}, Coming(c)')
  <2>1. Rises(s)
    BY <1>5 DEF ShownInv
  <2>2. s # <<>> /\ Head(s).tag = "message" /\ toClient'[c] = Tail(s)
    BY <1>1, <1>3
  <2> HIDE DEF s
  <2>3. Texts(Tail(s)) \subseteq Texts(s) /\ Rises(Tail(s)) /\ m \in Texts(s) /\ Below({m}, Texts(Tail(s)))
    BY <1>2, <2>1, <2>2, TailTexts DEF m
  <2> QED BY <2>2, <2>3 DEF Coming, s
<1> HIDE DEF s
<1>8. Below(Seen(c), {m})
  BY <1>5, <1>7 DEF ShownInv, Below
<1>9. Seen(c)' = Seen(c) \cup {m} /\ Rises(Screen(c)')
  <2> DEFINE h == shown[c]
             r == Append(h, entry)
             p == Len(h) + 1
  <2>1. h \in Seq(Person \X Text) /\ h \in Seq((Person \X Text) \cup {entry}) /\ Len(h) \in Nat
    BY <1>2, SeqMonotonic, LenProperties
  <2>2. r = shown'[c]
    BY <1>3
  <2> HIDE DEF h
  <2>3. /\ r \in Seq((Person \X Text) \cup {entry}) /\ Len(r) = Len(h) + 1
        /\ (\A k \in 1 .. Len(h) : r[k] = h[k]) /\ r[Len(h) + 1] = entry
    BY <2>1, AppendProperties
  <2> HIDE DEF r
  <2>4. DOMAIN r = 1 .. Len(h) + 1 /\ DOMAIN h = 1 .. Len(h)
    BY <2>1, <2>3, LenProperties
  <2>5. DOMAIN r = DOMAIN h \cup {p} /\ r[p] = entry /\ p \in Int /\ \A k \in DOMAIN h : k \in Int /\ k < p /\ r[k] = h[k]
    BY <2>1, <2>3, <2>4
  <2> HIDE DEF p
  <2> DEFINE u == [k \in DOMAIN h |-> Command("message", h[k][2])]
             t == [k \in DOMAIN r |-> Command("message", r[k][2])]
  <2>6. DOMAIN t = DOMAIN u \cup {p} /\ t[p] = Command("message", m)
        /\ \A k \in DOMAIN u : k \in Int /\ k < p /\ t[k] = u[k]
    BY <1>6, <2>5
  <2>7. u = Screen(c) /\ t = Screen(c)'
    BY <2>2 DEF Screen, h
  <2> HIDE DEF u, t
  <2>8. t[p].tag = "message" /\ t[p].arg = m
    BY <2>6 DEF Command
  <2>9. t[p].tag = "message" =>
          Texts(t) = Texts(u) \cup {t[p].arg} /\ (Rises(u) /\ Below(Texts(u), {t[p].arg}) => Rises(t))
    BY <2>5, <2>6, AddedText
  <2>10. Seen(c) = Texts(u) /\ Seen(c)' = Texts(t) /\ Rises(u)
    BY <1>5, <2>7 DEF Seen, ShownInv
  <2> QED BY <1>8, <2>7, <2>8, <2>9, <2>10
<1>10. /\ \A d \in Conn : Held(d)' = Held(d) /\ Sent(d)' = Sent(d)
       /\ \A d \in Conn \ {c} : Coming(d)' = Coming(d) /\ Seen(d)' = Seen(d) /\ Screen(d)' = Screen(d)
       /\ \A n \in Name : /\ Queued(n)' = Queued(n) /\ Noted(n)' = Noted(n)
                          /\ Jobs(n)' = Jobs(n) /\ Notes(n)' = Notes(n)
  BY <1>3, <1>4 DEF Coming, Seen, Screen, Held, Sent, Queued, Noted, Jobs, Notes
<1>11. CountInv' /\ AheadInv'
  <2>1. \A d \in Conn : Unread(d)' = Unread(d)
    BY <1>10 DEF Unread
  <2>2. (\A n \in Name : Taken(n)' = Taken(n)) /\ \A d \in Conn : Given(d)' \subseteq Given(d)
    BY <1>7, <1>9, <1>10 DEF Taken, Given
  <2>3. Passed' \subseteq Passed
    BY <2>2, InPassed
  <2> QED BY <1>4, <1>5, <2>1, <2>3, AheadFades
<1>12. \A d \in Conn : UnreadInv(d)'
  BY <1>4, <1>5, <1>10 DEF UnreadInv
<1>13. \A d \in Conn : ShownInv(d)'
  <2>1. ShownInv(c)'
    <3>1. Below(Seen(c), Coming(c))
      BY <1>5 DEF ShownInv
    <3> QED BY <3>1, <1>7, <1>9 DEF ShownInv, Below
  <2>2. \A d \in Conn \ {c} : ShownInv(d)'
    BY <1>3, <1>5, <1>10 DEF ShownInv
  <2> QED BY <2>1, <2>2
<1>14. \A d \in Conn : ListenerInv(d)'
  <2> SUFFICES ASSUME NEW d \in Conn PROVE ListenerInv(d)'
    OBVIOUS
  <2>1. Coming(d)' \cup Seen(d)' \subseteq Coming(d) \cup Seen(d)
    BY <1>7, <1>9, <1>10
  <2>2. CASE delivery[d].acc = None
    BY <2>1, <2>2, <1>4, <1>5 DEF ListenerInv
  <2>3. ASSUME NEW n \in Name, n = delivery[d].acc, n # None PROVE ListenerInv(d)'
    <3>1. Below(Coming(d) \cup Seen(d), Queued(n)) /\ delivery'[d].acc = n
      BY <2>3, <1>4, <1>5 DEF ListenerInv
    <3>2. Below(Coming(d)' \cup Seen(d)', Queued(n)')
      BY <2>1, <3>1, <1>10 DEF Below
    <3> QED BY <2>3, <3>1, <3>2 DEF ListenerInv
  <2> QED BY <2>2, <2>3 DEF Types, ThreadTypes, Person
<1>15. OnceInv' /\ \A n \in Name : AccountInv(n)'
  BY <1>5, <1>7, <1>10 DEF OnceInv, AccountInv
<1> QED BY <1>11, <1>12, <1>13, <1>14, <1>15 DEF OrderInv

LEMMA OrderNext ==
  ASSUME Lasting, IInv, SignInv, \A c \in Conn : LastInv(c), OrderInv, [Next]_vars PROVE OrderInv'
<1>1. Types /\ ThreadTypes /\ (\A c \in Conn : StageInv(c) /\ TypistInv(c)) /\ \A n \in Name : JobInv(n)
  BY DEF IInv, ConnInv, SignInv, Types
<1>2. ASSUME NEW c \in Conn, ServerStep(c) PROVE OrderInv'
  <2>1. ~crashed /\ (Handling(c) \/ Delivering(c)) /\ UNCHANGED client
    BY <1>2 DEF ServerStep
  <2>2. CASE ReadEnd(c) \/ StartDelivery(c) \/ (Taking(c) /\ ~TakeMessage(c))
    BY <1>1, <2>1, <2>2, ServerFades, Fading
  <2> QED BY <1>1, <2>1, <2>2, ReadOrder, TakeMessageOrder, DeliverOrder DEF Handling, Delivering, Taking
<1>3. ASSUME NEW c \in Conn, UserStep(c) \/ ThreadStep(c) PROVE OrderInv'
  <2>1. (UserActs(c) \/ UserThread(c) \/ ReceiveThread(c)) /\ UNCHANGED server
    BY <1>3 DEF UserStep, ThreadStep
  <2>2. CASE ~TypeMessage(c) /\ ~ShowMessage(c)
    BY <1>1, <2>1, <2>2, ClientFades, Fading
  <2> QED BY <1>1, <2>1, <2>2, TypeOrder, ShowOrder
<1>4. CASE UNCHANGED vars
  <2>1. Fades
    BY <1>4 DEF vars, wire, server, accounts, client, inbox, counts, Fades, Fewer, Jobs, Notes
  <2> QED BY <1>1, <2>1, Fading
<1> QED BY <1>2, <1>3, <1>4 DEF Next

LEMMA OrderInit == ASSUME Init PROVE OrderInv /\ \A c \in Conn : LastInv(c)
<1>1. Init /\ \A s : DOMAIN s = {} => Texts(s) = {} /\ Rises(s)
  BY DEF Texts, Rises
<1>2. /\ \A c \in Conn : /\ toServer[c] = <<>> /\ toClient[c] = <<>> /\ handler[c].todo = <<>> /\ shown[c] = <<>>
                         /\ delivery[c].acc = None /\ rf_list[c] = <<>> /\ rf_ptr[c] = 1
                         /\ state[c] = "offline" /\ receiver[c].state = "off" /\ typed[c] = 0
      /\ \A n \in Name : queue[n] = <<>> /\ recorded[n] = <<>>
  BY DEF Init, WireInit, ServerInit, ClientInit
<1>3. DOMAIN <<>> = {} /\ Len(<<>>) = 0
  OBVIOUS
<1>4. /\ \A c \in Conn : /\ Held(c) = {} /\ Sent(c) = {} /\ Coming(c) = {} /\ Seen(c) = {} /\ Rises(toServer[c])
                         /\ Rises(handler[c].todo) /\ Rises(toClient[c]) /\ Rises(Screen(c))
      /\ \A n \in Name : Queued(n) = {} /\ Noted(n) = {} /\ Rises(Jobs(n)) /\ Rises(Notes(n))
  BY <1>1, <1>2, <1>3 DEF Held, Sent, Coming, Seen, Queued, Noted, Screen, Jobs, Notes
<1>5. Passed = {} /\ \A c \in Conn : Unread(c) = {}
  BY <1>4 DEF Passed, Taken, Given, Unread
<1>6. OrderInv
  BY <1>2, <1>4, <1>5 DEF OrderInv, CountInv, AheadInv, OnceInv, UnreadInv, ShownInv, ListenerInv, AccountInv, Below
<1>7. \A c \in Conn : LastInv(c)
  BY <1>2, <1>3 DEF LastInv, InSession, Round, Sorted
<1> QED BY <1>6, <1>7

LEMMA Ordered == ASSUME Lasting PROVE Spec => [](SignInv /\ OrderInv /\ \A c \in Conn : LastInv(c))
<1> DEFINE Inv == SignInv /\ OrderInv /\ \A c \in Conn : LastInv(c)
<1>1. Init => Inv
  BY OrderInit, SignInit
<1>2. IInv /\ Inv /\ [Next]_vars => Inv'
  BY SignNext, OrderNext, LastNext DEF SignInv
<1> QED BY <1>1, <1>2, Inductive, PTL DEF Spec

\* What one user types is shown in the order typed and at most once, although
\* handler, queue and delivery thread pass it on at their own pace and a read
\* may end in the middle of a command: then a message is lost, but neither
\* overtaken nor shown again.
THEOREM MessagesInOrder == ASSUME Lasting PROVE Spec => []ShownInOrder
<1>1. OrderInv => ShownInOrder
  <2> SUFFICES ASSUME OrderInv, NEW c \in Conn, NEW j \in DOMAIN shown[c], NEW k \in DOMAIN shown[c],
                      j < k, shown[c][j][2].by = shown[c][k][2].by
               PROVE  shown[c][j][2].n < shown[c][k][2].n
    BY DEF ShownInOrder
  <2>1. Rises(Screen(c)) /\ DOMAIN Screen(c) = DOMAIN shown[c]
    BY DEF OrderInv, ShownInv, Screen
  <2>2. \A i \in DOMAIN shown[c] : Screen(c)[i].tag = "message" /\ Screen(c)[i].arg = shown[c][i][2]
    BY DEF Screen, Command
  <2> QED BY <2>1, <2>2 DEF Rises
<1> QED BY <1>1, Ordered, PTL

\* add_message() is called once with a message, also when its typist has sent
\* it to the account it is using.
THEOREM RecordedOnce == ASSUME Lasting PROVE Spec => []NoMessageTwice
<1>1. IInv /\ OrderInv => NoMessageTwice
  <2> SUFFICES ASSUME IInv, OrderInv, NEW n \in Name, NEW j \in DOMAIN recorded[n], NEW k \in DOMAIN recorded[n],
                      recorded[n][j] = recorded[n][k], j < k
               PROVE  FALSE
    <3>1. \A n \in Name : DOMAIN recorded[n] = 1 .. Len(recorded[n])
      BY LenProperties DEF IInv, Types, AccountTypes
    <3> QED BY <3>1 DEF NoMessageTwice
  <2>1. recorded[n] \in Seq([sender : Person, receiver : Person, content : Text])
    BY DEF IInv, Types, AccountTypes
  <2>2. recorded[n][j] \in [sender : Person, receiver : Person, content : Text]
    BY <2>1, ElementOfSeq, LenProperties
  <2>6. recorded[n][j].content \in Text
    BY <2>2
  <2>3. Rises(Notes(n)) /\ DOMAIN Notes(n) = DOMAIN recorded[n]
    BY DEF OrderInv, AccountInv, Notes
  <2>4. \A i \in DOMAIN recorded[n] : Notes(n)[i].tag = "message" /\ Notes(n)[i].arg = recorded[n][i].content
    BY DEF Notes, Command
  <2>5. recorded[n][j].content.n < recorded[n][j].content.n
    BY <2>3, <2>4 DEF Rises
  <2> QED BY <2>6, <2>5 DEF Text
<1> QED BY <1>1, Inductive, Ordered, PTL

\* A client that sends files survives it, as long as the server does: of the
\* files that it sends segment by segment in turn the first of the list is
\* always the first that is at its end, so that remove_fl() finds it.
THEOREM SendersSurvive == ASSUME Lasting PROVE Spec /\ []~crashed => SendingSurvives
<1>1. ASSUME IInv, \A c \in Conn : LastInv(c), ~crashed, [Next]_vars, NEW c \in Conn, state[c] \in {"files", "remove"}
      PROVE  state'[c] # "exited"
  <2>1. Types
    BY <1>1 DEF IInv
  <2>2. ASSUME NEW d \in Conn, UserStep(d) \/ ThreadStep(d) PROVE state'[c] # "exited"
    <3>1. (UserActs(d) \/ UserThread(d) \/ ReceiveThread(d)) /\ UNCHANGED server
      BY <2>2 DEF UserStep, ThreadStep
    <3>2. CASE d # c
      <4>1. state'[c] = state[c]
        BY <2>1, <3>1, <3>2, ClientBeside DEF Untouched
      <4> QED BY <1>1, <4>1
    <3>3. CASE d = c
      <4>1. ~Ending(c)
        BY <1>1 DEF Ending, Quit, RecvFails, SendFails, Kill, Join, RemoveFile, Goto, Lasting, LastInv
      <4>2. ~AskSignUp(c) /\ ~AskLogIn(c) /\ ~Answered(c) /\ ~Knocking(c) /\ ~FriendIs(c)
        BY <1>1 DEF AskSignUp, AskLogIn, Answered, Knocking, AskFriend, EndMessage, FriendIs, Goto
      <4>3. CASE Moving(c)
        <5>1. state'[c] \in Quiet
          BY <2>1, <3>1, <3>3, <4>3, MovingTypes DEF Types, UserTypes
        <5> QED BY <5>1 DEF Quiet, InSession
      <4>4. CASE ReceiveThread(c)
        <5>1. state' = state
          BY <2>1, <3>1, <3>3, <4>4, ReceivingTypes
        <5> QED BY <1>1, <5>1
      <4> QED BY <3>1, <3>3, <4>1, <4>2, <4>3, <4>4, ClientSteps
    <3> QED BY <3>2, <3>3
  <2>3. CASE \E d \in Conn : ServerStep(d)
    BY <1>1, <2>3 DEF ServerStep, client
  <2>4. CASE UNCHANGED vars
    BY <1>1, <2>4 DEF vars, client
  <2> QED BY <1>1, <2>2, <2>3, <2>4 DEF Next
<1>2. IInv /\ (\A c \in Conn : LastInv(c)) /\ ~crashed /\ [Next]_vars =>
        [\A c \in Conn : state[c] \in {"files", "remove"} => state'[c] # "exited"]_vars
  BY <1>1
<1> QED BY <1>2, Inductive, Ordered, PTL DEF Spec, SendingSurvives
=============================================================================
