---------------------------- MODULE SessionProofs ----------------------------
(***************************************************************************)
(* What every client and its handler keep to, for any number of clients,   *)
(* accounts, messages and files, although reads end inside commands, users *)
(* leave at any moment and the server may die: the types, one answer for   *)
(* every request, a session that belongs to who was let in, and jobs that  *)
(* reach the user who listens.  All of it is within OneOfEach of Chat.tla. *)
(***************************************************************************)
EXTENDS Chat, WellFoundedInduction, SequenceTheorems, FiniteSetTheorems, TLAPS

(* What is on the wire. *)

Person  == Name \cup {None}
Text    == [by : Conn, to : Person, n : Nat]
Said    == [tag : {"message"}, arg : Text]
             \cup [tag : {"filedata"}, arg : Text \cup {None}, file : File, seg : Nat]
Source  == [tag : {"username"}, arg : Person]
Asked   == [tag : {"signup", "login", "logout", "rest"}] \cup Source
             \cup [tag : {"knock"}, arg : Person] \cup [tag : {"password"}, arg : Password] \cup Said
Escape  == Command("\\", None)
Told    == Source \cup Said

\* The answers, and the last command of each request that gets one.
Answers == {"signup-good", "signup-badU", "login-good", "login-badU", "login-badP",
            "user-online", "user-offline"}
Final   == {"password", "knock"}
Awaiting == {"signup", "login", "knock"}

HandlerType == [buf : Seq(Asked), todo : Seq(Asked \cup {Escape}),
                continuityIndex : {"none", "username", "password"}, islogin : Nat,
                istonextstage : BOOLEAN, acc : Person, toWhoseAcc : Person]

WireTypes ==
  /\ toServer \in [Conn -> Seq(Asked)] /\ toClient \in [Conn -> Seq(Told \cup [tag : Answers])]
  /\ closed = {c \in Conn : state[c] = "exited"} /\ reset \subseteq closed /\ crashed \in BOOLEAN

AccountTypes ==
  /\ DOMAIN account \subseteq Name /\ account \in [DOMAIN account -> Password]
  /\ IsFiniteSet(DOMAIN account) /\ Cardinality(DOMAIN account) <= MAX_ACCOUNT_CNT
  /\ online \subseteq DOMAIN account
  /\ queue \in [Name -> Seq(Seq(Told))]
  /\ recorded \in [Name -> Seq([sender : Person, receiver : Person, content : Text])]
  /\ \A n \in Name : Len(queue[n]) <= Capacity /\ Len(recorded[n]) <= MaxRecorded

ThreadTypes ==
  /\ handler \in [Conn -> HandlerType]
  /\ delivery \in [Conn -> [state : {"none", "starting", "on"}, intact : BOOLEAN, acc : Person]]

UserTypes ==
  /\ state \in [Conn -> Offered \cup InSession \cup {"exited"}]
  /\ username \in [Conn -> Person] /\ dst_usr \in [Conn -> Person]
  /\ password \in [Conn -> Password \cup {None}] /\ typed \in [Conn -> Nat]

FileTypes ==
  /\ rf_list \in [Conn -> Seq([filename : File, datagram_cnt : Nat])] /\ rf_ptr \in [Conn -> Nat]
  /\ \A c \in Conn : rf_ptr[c] \in 1 .. Len(rf_list[c]) \/ (rf_ptr[c] = 1 /\ rf_list[c] = <<>>)

InboxTypes ==
  /\ receiver \in [Conn -> [state : {"off", "on", "failed"}, src_usr : Person, open : SUBSET File]]
  /\ itsig \in [Conn -> Seq({"user-online", "user-offline"})]
  /\ shown \in [Conn -> Seq(Person \X Text)] /\ disk \in [Conn -> [File -> Seq(Text)]]

Types == WireTypes /\ AccountTypes /\ ThreadTypes /\ UserTypes /\ FileTypes /\ InboxTypes

\* The handler has a purpose for the password it waits for, and the delivery
\* thread is there for the account of the handler.
StageInv(c) == LET h == handler[c] IN
  /\ h.continuityIndex # "none" => h.islogin \in {0, 1} /\ ~h.istonextstage
  /\ h.continuityIndex = "password" \/ h.istonextstage => h.acc \in Name
  /\ delivery[c].state # "none" => h.istonextstage
  /\ delivery[c].acc # None => delivery[c].state = "on" /\ delivery[c].acc = h.acc

\* The final command of a request is the last one, nothing more is asked
\* before the answer, and there is one answer, as long as the client goes on.
Free(s, T)  == \A k \in DOMAIN s : s[k].tag \notin T
LastOnly(s) == \A k \in DOMAIN s : s[k].tag \in Final => k = Len(s)
OneOnly(s)  == \A j, k \in DOMAIN s : s[j].tag \in Answers /\ s[k].tag \in Answers => j = k

RequestInv(c) == state[c] # "exited" =>
  /\ LastOnly(toServer[c]) /\ LastOnly(handler[c].todo)
  /\ toServer[c] = <<>> \/ Free(handler[c].todo, Final)
  /\ OneOnly(toClient[c]) /\ Len(itsig[c]) <= 1
  /\ itsig[c] # <<>> => Free(toClient[c], Answers)
  /\ ~Free(toClient[c], Answers) \/ itsig[c] # <<>> =>
       Free(toServer[c], Final) /\ Free(handler[c].todo, Final)
  /\ state[c] \notin Awaiting =>
       /\ Free(toClient[c], Answers) /\ itsig[c] = <<>>
       /\ Free(toServer[c], Final) /\ Free(handler[c].todo, Final)

\* A knock is for the name the user has given last, and so is its answer.
KnockInv(c) == state[c] = "knock" =>
  /\ \A k \in DOMAIN toServer[c] :
       toServer[c][k].tag = "knock" => toServer[c][k].arg = dst_usr[c]
  /\ \A k \in DOMAIN handler[c].todo :
       handler[c].todo[k].tag = "knock" => handler[c].todo[k].arg = dst_usr[c]
  /\ ~Free(toClient[c], {"user-online"}) => dst_usr[c] \in online
  /\ itsig[c] # <<>> /\ itsig[c][1] = "user-online" => dst_usr[c] \in online

\* A client that is not yet let in has asked for what it has entered.
Owned(c) == /\ username[c] \in DOMAIN account /\ account[username[c]] = password[c]
            /\ handler[c].istonextstage /\ handler[c].acc = username[c]

Entered(c) == {Tag("signup"), Tag("login"), Rest, Escape,
               Command("username", username[c]), Command("password", password[c])}

Granted(c) == toClient[c][1] = Tag("login-good") /\ Owned(c)
Refused(c) == /\ ~handler[c].istonextstage /\ Len(toClient[c]) = 1
              /\ toClient[c][1].tag \in {"signup-good", "signup-badU", "login-badU", "login-badP"}

OfferInv(c) == LET h == handler[c] IN state[c] \in Offered =>
  /\ receiver[c].state = "off"
  /\ \A k \in DOMAIN toServer[c] : toServer[c][k] \in Entered(c)
  /\ \A k \in DOMAIN h.todo : h.todo[k] \in Entered(c)
  /\ h.continuityIndex = "password" => h.acc = username[c]
  /\ state[c] = "offline" =>
       toClient[c] = <<>> /\ toServer[c] = <<>> /\ h.todo = <<>> /\ h.continuityIndex = "none"
  /\ toClient[c] = <<>> => ~h.istonextstage
  /\ toClient[c] # <<>> => /\ toServer[c] = <<>> /\ h.todo = <<>> /\ h.continuityIndex = "none"
                           /\ Granted(c) \/ Refused(c)

SessionInv(c) == state[c] \in InSession => Owned(c)

ConnInv(c) == StageInv(c) /\ RequestInv(c) /\ KnockInv(c) /\ OfferInv(c) /\ SessionInv(c)

IInv == Types /\ \A c \in Conn : ConnInv(c)
-----------------------------------------------------------------------------
(* Numbers and sequences. *)

\* Every set of natural numbers that is not empty has a least element.
LEMMA Least == ASSUME NEW T \in SUBSET Nat, T # {} PROVE \E k \in T : \A l \in T : k <= l
<1>1. PICK k \in T : \A l \in T : ~ (<<l, k>> \in OpToRel(<, Nat))
  BY NatLessThanWellFounded, WFMin
<1>2. \A l \in T : ~(l < k)
  BY <1>1 DEF OpToRel
<1> QED BY <1>2

\* Induction, with a set in the place of the statement.
LEMMA Induction ==
  ASSUME NEW n \in Nat, NEW S, 0 \in S, \A m \in 0 .. n - 1 : m \in S => m + 1 \in S
  PROVE  \A m \in 0 .. n : m \in S
<1> DEFINE T == {m \in 0 .. n : m \notin S}
<1> SUFFICES ASSUME T # {} PROVE FALSE
  OBVIOUS
<1>1. T \in SUBSET Nat
  OBVIOUS
<1>2. PICK m \in T : \A k \in T : m <= k
  BY <1>1, Least
<1>3. m \in 1 .. n /\ m \notin S
  BY <1>2
<1>4. m - 1 \notin T
  BY <1>2, <1>3
<1> QED BY <1>3, <1>4

\* What inserts file by file makes a list of the files that can be opened, of
\* each of which the first segment is next.
Unsent == {[filename |-> x, datagram_cnt |-> 1] : x \in File \cap DOMAIN FileLength}

LEMMA InsertedUnsent == ASSUME NEW l \in Seq(File) PROVE Inserted(l) \in Seq(Unsent)
<1> DEFINE L == Seq(Unsent)
           n == Len(l)
<1>1. \A list \in L, k \in 1 .. n : Insert(list, l[k]) \in L
  <2> SUFFICES ASSUME NEW list \in L, NEW k \in 1 .. n PROVE Insert(list, l[k]) \in L
    OBVIOUS
  <2>1. CASE l[k] \in DOMAIN FileLength
    <3>1. [filename |-> l[k], datagram_cnt |-> 1] \in Unsent
      BY <2>1, ElementOfSeq DEF Unsent
    <3>2. Append(list, [filename |-> l[k], datagram_cnt |-> 1]) \in L
      BY <3>1, AppendProperties
    <3> QED BY <2>1, <3>2 DEF Insert
  <2>2. CASE l[k] \notin DOMAIN FileLength
    BY <2>2 DEF Insert
  <2> QED BY <2>1, <2>2
<1>2. n \in Nat
  BY LenProperties
<1>3. <<>> \in L
  BY EmptySeq
<1>4. Inserted(l) = LET upTo == CHOOSE f : f = [k \in 0 .. n |-> IF k = 0 THEN <<>> ELSE Insert(f[k - 1], l[k])]
                    IN  upTo[n]
  BY DEF Inserted
<1> HIDE DEF L, n
<1> DEFINE Body(f, k) == IF k = 0 THEN <<>> ELSE Insert(f[k - 1], l[k])
           Goes(g, m) == \A k \in 0 .. m : g[k] = Body(g, k)
           S == {m \in 0 .. n : \E g \in [0 .. m -> L] : Goes(g, m)}
<1>5. 0 \in S
  <2> DEFINE g == [k \in 0 .. 0 |-> <<>>]
  <2>1. g \in [0 .. 0 -> L] /\ Goes(g, 0)
    BY <1>3
  <2> HIDE DEF g, Goes
  <2> QED BY <2>1, <1>2
<1>6. ASSUME NEW m \in 0 .. n - 1, m \in S PROVE m + 1 \in S
  <2>1. PICK g \in [0 .. m -> L] : Goes(g, m)
    BY <1>6
  <2> DEFINE h == [k \in 0 .. m + 1 |-> IF k = m + 1 THEN Insert(g[m], l[m + 1]) ELSE g[k]]
  <2>2. Insert(g[m], l[m + 1]) \in L
    BY <1>1, <1>2
  <2>3. h \in [0 .. m + 1 -> L]
    BY <2>2
  <2>4. ASSUME NEW k \in 0 .. m + 1 PROVE h[k] = Body(h, k)
    <3>1. CASE k = m + 1
      <4>1. h[k - 1] = g[m] /\ h[k] = Insert(g[m], l[k]) /\ k # 0
        BY <3>1
      <4> QED BY <4>1
    <3>2. CASE k # m + 1
      <4>1. k \in 0 .. m /\ h[k] = g[k] /\ (k # 0 => h[k - 1] = g[k - 1])
        BY <3>2
      <4> QED BY <4>1, <2>1
    <3> QED BY <3>1, <3>2
  <2>5. Goes(h, m + 1)
    BY <2>4
  <2>6. m + 1 \in 0 .. n
    BY <1>2
  <2> HIDE DEF h, Goes
  <2> QED BY <2>3, <2>5, <2>6
<1>7. n \in S
  <2>1. \A m \in 0 .. n - 1 : m \in S => m + 1 \in S
    BY <1>6
  <2> HIDE DEF S
  <2>2. \A m \in 0 .. n : m \in S
    BY <1>2, <1>5, <2>1, Induction
  <2> QED BY <1>2, <2>2
<1>8. PICK g \in [0 .. n -> L] : Goes(g, n)
  BY <1>7
<1> DEFINE upTo == CHOOSE f : f = [k \in 0 .. n |-> Body(f, k)]
<1>9. g = [k \in 0 .. n |-> Body(g, k)]
  BY <1>8
<1>10. upTo = [k \in 0 .. n |-> Body(upTo, k)]
  BY <1>9
<1>11. Inserted(l) = upTo[n]
  BY <1>4
<1> HIDE DEF upTo
<1> DEFINE U == {k \in 0 .. n : upTo[k] \in L}
<1>12. 0 \in U
  BY <1>10, <1>2, <1>3
<1>13. ASSUME NEW m \in 0 .. n - 1, m \in U PROVE m + 1 \in U
  <2>1. m + 1 \in 0 .. n /\ m + 1 \in 1 .. n /\ m + 1 # 0 /\ (m + 1) - 1 = m
    BY <1>2
  <2>2. upTo[m + 1] = Insert(upTo[m], l[m + 1])
    BY <2>1, <1>10
  <2> QED BY <2>1, <2>2, <1>1, <1>13
<1>14. n \in U
  <2>1. \A m \in 0 .. n - 1 : m \in U => m + 1 \in U
    BY <1>13
  <2> HIDE DEF U
  <2>2. \A m \in 0 .. n : m \in U
    BY <1>2, <1>12, <2>1, Induction
  <2> QED BY <1>2, <2>2
<1> QED BY <1>11, <1>14 DEF L

LEMMA InsertedType ==
  ASSUME NEW l \in Seq(File)
  PROVE  Inserted(l) \in Seq([filename : File, datagram_cnt : Nat])
<1>1. Unsent \subseteq [filename : File, datagram_cnt : Nat]
  BY DEF Unsent
<1> QED BY <1>1, InsertedUnsent, SeqMonotonic

\* t is an end of s, but for what the cuts have made of commands.
Ends(t, s) ==
  /\ Len(t) <= Len(s)
  /\ \A k \in 1 .. Len(t) : t[k] \in {Rest, Escape} \/ t[k] = s[k + (Len(s) - Len(t))]

LEMMA ParsedEnds ==
  ASSUME NEW S, NEW s \in Seq(S)
  PROVE  Parsed(s) \in Seq(S \cup {Escape}) /\ Ends(Parsed(s), s)
<1>0. Len(s) \in Nat /\ \A k \in 1 .. Len(s) : s[k] \in S
  BY ElementOfSeq, LenProperties
<1>1. CASE s = <<>> \/ s[1] # Rest
  <2>1. Parsed(s) = s
    BY <1>1 DEF Parsed
  <2>2. s \in Seq(S \cup {Escape})
    BY SeqMonotonic
  <2> QED BY <2>1, <2>2, <1>0 DEF Ends
<1> DEFINE ends == {k \in 2 .. Len(s) : HasArgument(s[k])}
           k == CHOOSE k \in ends : \A l \in ends : k <= l
<1>2. CASE ~(s = <<>> \/ s[1] # Rest) /\ ends = {}
  <2>1. Parsed(s) = <<>>
    BY <1>2 DEF Parsed
  <2> QED BY <2>1, <1>0, EmptySeq DEF Ends
<1>3. CASE ~(s = <<>> \/ s[1] # Rest) /\ ends # {}
  <2>1. ends \in SUBSET Nat
    BY <1>0
  <2>2. k \in ends
    <3> HIDE DEF ends
    <3> QED BY <2>1, <1>3, Least
  <2>3. Parsed(s) = <<Escape>> \o SubSeq(s, k + 1, Len(s))
    BY <1>3 DEF Parsed, Escape
  <2>4. k \in 2 .. Len(s)
    BY <2>2
  <2> HIDE DEF k, ends
  <2> DEFINE r == SubSeq(s, k + 1, Len(s))
             t == <<Escape>> \o r
  <2>5. r \in Seq(S) /\ Len(r) = Len(s) - k /\ \A j \in 1 .. Len(r) : r[j] = s[k + j]
    <3>1. k + 1 \in Int /\ Len(s) \in Int /\ \A i \in k + 1 .. Len(s) : s[i] \in S
      BY <2>4, <1>0
    <3>2. /\ r \in Seq(S)
          /\ Len(r) = IF k + 1 <= Len(s) THEN Len(s) - (k + 1) + 1 ELSE 0
          /\ \A i \in 1 .. Len(s) - (k + 1) + 1 : r[i] = s[(k + 1) + i - 1]
      BY <3>1, SubSeqProperties
    <3> QED BY <3>2, <2>4, <1>0
  <2>6. <<Escape>> \in Seq(S \cup {Escape}) /\ Len(<<Escape>>) = 1 /\ <<Escape>>[1] = Escape
    OBVIOUS
  <2>7. r \in Seq(S \cup {Escape})
    BY <2>5, SeqMonotonic
  <2> HIDE DEF r
  <2>8. /\ t \in Seq(S \cup {Escape}) /\ Len(t) = 1 + Len(r)
        /\ \A i \in 1 .. 1 + Len(r) : t[i] = IF i <= 1 THEN <<Escape>>[i] ELSE r[i - 1]
    BY <2>6, <2>7, ConcatProperties
  <2> HIDE DEF t
  <2>9. ASSUME NEW i \in 1 .. Len(t) PROVE t[i] \in {Rest, Escape} \/ t[i] = s[i + (Len(s) - Len(t))]
    <3>1. CASE i = 1
      BY <3>1, <2>8, <2>6, <2>5, <2>4, <1>0
    <3>2. CASE i # 1
      <4>1. t[i] = r[i - 1] /\ i - 1 \in 1 .. Len(r)
        BY <3>2, <2>8, <2>5, <2>4, <1>0
      <4>2. r[i - 1] = s[k + (i - 1)]
        BY <4>1, <2>5
      <4>3. Len(t) = 1 + (Len(s) - k) /\ Len(s) \in Nat /\ i \in Int
        BY <2>5, <2>8, <1>0
      <4>4. k + (i - 1) = i + (Len(s) - Len(t))
        BY <4>3, <2>4
      <4> QED BY <4>1, <4>2, <4>4
    <3> QED BY <3>1, <3>2
  <2>10. Len(t) <= Len(s)
    BY <2>8, <2>5, <2>4, <1>0
  <2>11. Parsed(s) = t
    BY <2>3 DEF t, r
  <2> QED BY <2>8, <2>9, <2>10, <2>11 DEF Ends
<1> QED BY <1>1, <1>2, <1>3

\* What is left of s when k commands have been read.
LEMMA LeftEnds ==
  ASSUME NEW S, NEW s \in Seq(S), NEW k \in 0 .. Len(s)
  PROVE  LET t == SubSeq(s, k + 1, Len(s))
         IN  t \in Seq(S) /\ Len(t) = Len(s) - k /\ \A j \in 1 .. Len(t) : t[j] = s[j + k]
<1>0. Len(s) \in Nat /\ \A j \in 1 .. Len(s) : s[j] \in S
  BY ElementOfSeq, LenProperties
<1> DEFINE t == SubSeq(s, k + 1, Len(s))
<1>1. k + 1 \in Int /\ Len(s) \in Int /\ \A i \in k + 1 .. Len(s) : s[i] \in S
  BY <1>0
<1>2. /\ t \in Seq(S)
      /\ Len(t) = IF k + 1 <= Len(s) THEN Len(s) - (k + 1) + 1 ELSE 0
      /\ \A i \in 1 .. Len(s) - (k + 1) + 1 : t[i] = s[(k + 1) + i - 1]
  BY <1>1, SubSeqProperties
<1> QED BY <1>0, <1>2

\* The same, when the next command has been cut.
LEMMA CutEnds ==
  ASSUME NEW S, Rest \in S, NEW s \in Seq(S), NEW k \in 0 .. Len(s) - 1, NEW rest \in {<<>>, <<Rest>>}
  PROVE  LET t == rest \o SubSeq(s, k + 2, Len(s))
         IN  t \in Seq(S) /\ Len(t) <= Len(s) - k /\ Ends(t, s)
<1>0. Len(s) \in Nat /\ \A j \in 1 .. Len(s) : s[j] \in S
  BY ElementOfSeq, LenProperties
<1> DEFINE r == SubSeq(s, k + 2, Len(s))
           t == rest \o r
<1>1. k + 1 \in 0 .. Len(s) /\ (k + 1) + 1 = k + 2
  BY <1>0
<1>2. r \in Seq(S) /\ Len(r) = Len(s) - (k + 1) /\ \A j \in 1 .. Len(r) : r[j] = s[j + (k + 1)]
  BY <1>1, LeftEnds
<1>3. rest \in Seq(S) /\ Len(rest) \in 0 .. 1 /\ \A j \in 1 .. Len(rest) : rest[j] = Rest
  <2>1. CASE rest = <<>>
    BY <2>1, EmptySeq
  <2>2. CASE rest = <<Rest>>
    BY <2>2
  <2> QED BY <2>1, <2>2
<1> HIDE DEF r
<1>4. /\ t \in Seq(S) /\ Len(t) = Len(rest) + Len(r)
      /\ \A i \in 1 .. Len(rest) + Len(r) : t[i] = IF i <= Len(rest) THEN rest[i] ELSE r[i - Len(rest)]
  <2>1. rest \in Seq(S) /\ r \in Seq(S)
    BY <1>2, <1>3
  <2> QED BY <2>1, ConcatProperties
<1> HIDE DEF t
<1>5. ASSUME NEW i \in 1 .. Len(t) PROVE t[i] \in {Rest, Escape} \/ t[i] = s[i + (Len(s) - Len(t))]
  <2>1. CASE i <= Len(rest)
    BY <2>1, <1>3, <1>4
  <2>2. CASE i > Len(rest)
    <3>1. t[i] = r[i - Len(rest)] /\ i - Len(rest) \in 1 .. Len(r)
      BY <2>2, <1>2, <1>3, <1>4, <1>0
    <3>2. r[i - Len(rest)] = s[(i - Len(rest)) + (k + 1)]
      BY <3>1, <1>2
    <3>3. (i - Len(rest)) + (k + 1) = i + (Len(s) - Len(t))
      BY <1>2, <1>3, <1>4, <1>0
    <3> QED BY <3>1, <3>2, <3>3
  <2>3. i \in Int /\ Len(rest) \in Int
    BY <1>3, <1>4
  <2> QED BY <2>1, <2>2, <2>3
<1>6. Len(t) <= Len(s) - k /\ Len(t) <= Len(s)
  <2>1. Len(t) = Len(rest) + (Len(s) - (k + 1)) /\ Len(rest) \in 0 .. 1
    BY <1>2, <1>3, <1>4
  <2>2. Len(s) \in Nat
    BY <1>0
  <2>3. \A m \in Nat : \A l \in 0 .. 1, j \in 0 .. m - 1 : l + (m - (j + 1)) <= m - j /\ m - j <= m
    OBVIOUS
  <2>4. Len(t) <= Len(s) - k
    BY <2>1, <2>2, <2>3
  <2>5. Len(t) \in Int
    BY <2>1, <2>2
  <2> QED BY <2>2, <2>4, <2>5
<1>7. t \in Seq(S) /\ Len(t) <= Len(s) - k /\ Ends(t, s)
  BY <1>4, <1>5, <1>6 DEF Ends
<1> QED BY <1>7 DEF t, r
-----------------------------------------------------------------------------
(* The types. *)

LEMMA AskedParts ==
  ASSUME NEW cmd \in Asked \cup {Escape}
  PROVE  /\ cmd.tag \in {"username", "knock"} => cmd.arg \in Person
         /\ cmd.tag = "password" => cmd.arg \in Password
         /\ cmd.tag = "message" => cmd \in Said /\ cmd.arg \in Text
         /\ cmd.tag = "filedata" => cmd \in Said /\ cmd.seg \in Nat
<1>1. CASE cmd = Escape
  BY <1>1 DEF Escape, Command
<1>2. CASE cmd \in Asked
  BY <1>2 DEF Asked, Source, Said
<1> QED BY <1>1, <1>2

LEMMA ToldParts ==
  ASSUME NEW cmd \in Told \cup [tag : Answers]
  PROVE  /\ cmd.tag = "username" => cmd.arg \in Person
         /\ cmd.tag = "message" => cmd.arg \in Text
         /\ cmd.tag = "filedata" => cmd.arg \in Text \cup {None} /\ cmd.file \in File
         /\ cmd.tag \in Answers \cup {"username", "message", "filedata"}
         /\ cmd.tag \in Answers => cmd = Tag(cmd.tag)
         /\ cmd.tag # "logout-confirmed"
BY DEF Told, Source, Said, Answers, Tag

LEMMA NowType ==
  ASSUME ThreadTypes, NEW c \in Conn, handler[c].todo # <<>>
  PROVE  /\ handler[c] \in HandlerType /\ Now(c) \in Asked \cup {Escape}
         /\ Tail(handler[c].todo) \in Seq(Asked \cup {Escape})
<1>1. handler[c] \in HandlerType
  BY DEF ThreadTypes
<1>2. handler[c].todo \in Seq(Asked \cup {Escape})
  BY <1>1 DEF HandlerType
<1>3. Head(handler[c].todo) \in Asked \cup {Escape} /\ Tail(handler[c].todo) \in Seq(Asked \cup {Escape})
  BY <1>2, HeadTailProperties
<1> QED BY <1>1, <1>3 DEF Now

\* The handler goes on to the rest of its buffer.
LEMMA StepType ==
  ASSUME ThreadTypes, NEW c \in Conn, handler[c].todo # <<>>,
         NEW new \in HandlerType, new.todo = handler[c].todo, Step(c, new)
  PROVE  /\ handler' \in [Conn -> HandlerType]
         /\ handler' = [handler EXCEPT ![c] = [new EXCEPT !.todo = Tail(handler[c].todo)]]
         /\ handler'[c] = [new EXCEPT !.todo = Tail(handler[c].todo)]
         /\ \A d \in Conn \ {c} : handler'[d] = handler[d]
<1>1. handler \in [Conn -> HandlerType] /\ Tail(handler[c].todo) \in Seq(Asked \cup {Escape})
  BY NowType DEF ThreadTypes
<1>2. [new EXCEPT !.todo = Tail(handler[c].todo)] \in HandlerType
  BY <1>1 DEF HandlerType
<1>3. handler' = [handler EXCEPT ![c] = [new EXCEPT !.todo = Tail(handler[c].todo)]]
  BY DEF Step
<1> QED BY <1>1, <1>2, <1>3

\* What the server writes reaches the client, unless it has gone.
LEMMA Writes ==
  ASSUME WireTypes, NEW c \in Conn, NEW cmds \in Seq(Told \cup [tag : Answers]), ServerWrites(c, cmds)
  PROVE  /\ toClient' \in [Conn -> Seq(Told \cup [tag : Answers])]
         /\ closed' = closed /\ reset' \subseteq closed /\ crashed' \in BOOLEAN
         /\ c \notin closed => toClient' = [toClient EXCEPT ![c] = @ \o cmds]
         /\ c \in closed => toClient' = toClient
<1>1. toClient[c] \o cmds \in Seq(Told \cup [tag : Answers])
  BY ConcatProperties DEF WireTypes
<1>2. CASE c \notin closed /\ toClient' = [toClient EXCEPT ![c] = @ \o cmds] /\ UNCHANGED <<closed, reset, crashed>>
  BY <1>1, <1>2 DEF WireTypes
<1>3. CASE c \in closed \ reset /\ reset' \in {reset, reset \cup {c}} /\ UNCHANGED <<toClient, closed, crashed>>
  BY <1>3 DEF WireTypes
<1>4. CASE c \in reset /\ crashed' = TRUE /\ UNCHANGED <<toClient, closed, reset>>
  BY <1>4 DEF WireTypes
<1> QED BY <1>2, <1>3, <1>4 DEF ServerWrites

\* What a read makes of the commands of its connection.
LEMMA ReadSplits ==
  ASSUME WireTypes, ThreadTypes, NEW c \in Conn, Read(c)
  PROVE  \E k \in 0 .. Len(toServer[c]), got \in Seq(Asked), todo \in Seq(Asked \cup {Escape}),
            left \in Seq(Asked) :
           /\ got = SubSeq(toServer[c], 1, k) /\ Len(got) = k /\ todo = Parsed(got)
           /\ \A j \in 1 .. k : got[j] = toServer[c][j]
           /\ Ends(todo, got)
           /\ Len(left) <= Len(toServer[c]) - k /\ Ends(left, toServer[c])
           /\ handler' = [handler EXCEPT ![c] = [handler[c] EXCEPT !.buf = got, !.todo = todo]]
           /\ toServer' = [toServer EXCEPT ![c] = left]
<1> DEFINE s == toServer[c]
<1>1. s \in Seq(Asked) /\ Len(s) \in Nat /\ \A j \in 1 .. Len(s) : s[j] \in Asked
  BY ElementOfSeq, LenProperties DEF WireTypes
<1>2. PICK k \in 0 .. Len(s) :
        /\ handler' = [handler EXCEPT ![c].buf = SubSeq(s, 1, k), ![c].todo = Parsed(SubSeq(s, 1, k))]
        /\ \/ toServer' = [toServer EXCEPT ![c] = SubSeq(s, k + 1, Len(s))]
           \/ /\ k < Len(s)
              /\ \E rest \in RestOf(s[k + 1]) :
                   toServer' = [toServer EXCEPT ![c] = rest \o SubSeq(s, k + 2, Len(s))]
  BY DEF Read
<1> DEFINE got == SubSeq(s, 1, k)
<1>3. got \in Seq(Asked) /\ Len(got) = k /\ \A j \in 1 .. k : got[j] = s[j]
  <2>1. 1 \in Int /\ k \in Int /\ \A i \in 1 .. k : s[i] \in Asked
    BY <1>1
  <2>2. /\ got \in Seq(Asked) /\ Len(got) = IF 1 <= k THEN k - 1 + 1 ELSE 0
        /\ \A i \in 1 .. k - 1 + 1 : got[i] = s[1 + i - 1]
    BY <2>1, SubSeqProperties
  <2> QED BY <2>1, <2>2, <1>1
<1> HIDE DEF got
<1>4. Parsed(got) \in Seq(Asked \cup {Escape}) /\ Ends(Parsed(got), got)
  BY <1>3, ParsedEnds
<1>5. handler' = [handler EXCEPT ![c] = [handler[c] EXCEPT !.buf = got, !.todo = Parsed(got)]]
  BY <1>2 DEF ThreadTypes, got
<1>6. \E left \in Seq(Asked) : /\ Len(left) <= Len(s) - k /\ Ends(left, s)
                               /\ toServer' = [toServer EXCEPT ![c] = left]
  <2>1. CASE toServer' = [toServer EXCEPT ![c] = SubSeq(s, k + 1, Len(s))]
    <3> DEFINE t == SubSeq(s, k + 1, Len(s))
    <3>1. t \in Seq(Asked) /\ Len(t) = Len(s) - k /\ \A j \in 1 .. Len(t) : t[j] = s[j + k]
      BY <1>1, LeftEnds
    <3> HIDE DEF t
    <3>2. Len(t) <= Len(s) - k /\ Len(t) <= Len(s) /\ Len(s) - Len(t) = k
      BY <3>1, <1>1
    <3>3. Ends(t, s)
      BY <3>1, <3>2 DEF Ends
    <3> QED BY <2>1, <3>1, <3>2, <3>3 DEF t
  <2>2. CASE /\ k < Len(s)
             /\ \E rest \in RestOf(s[k + 1]) :
                  toServer' = [toServer EXCEPT ![c] = rest \o SubSeq(s, k + 2, Len(s))]
    <3>1. PICK rest \in RestOf(s[k + 1]) :
                 toServer' = [toServer EXCEPT ![c] = rest \o SubSeq(s, k + 2, Len(s))]
      BY <2>2
    <3>2. rest \in {<<>>, <<Rest>>} /\ k \in 0 .. Len(s) - 1 /\ Rest \in Asked
      BY <3>1, <2>2, <1>1 DEF RestOf, Asked, Rest, Tag
    <3> DEFINE t == rest \o SubSeq(s, k + 2, Len(s))
    <3>3. t \in Seq(Asked) /\ Len(t) <= Len(s) - k /\ Ends(t, s)
      BY <1>1, <3>2, CutEnds
    <3> QED BY <3>1, <3>3
  <2> QED BY <1>2, <2>1, <2>2
<1> QED BY <1>3, <1>4, <1>5, <1>6 DEF got

LEMMA InitTypes == Init => Types /\ \A c \in Conn : ConnInv(c)
<1> SUFFICES ASSUME Init PROVE Types /\ \A c \in Conn : ConnInv(c)
  OBVIOUS
<1> USE DEF Init, WireInit, ServerInit, ClientInit
<1>1. \A S : <<>> \in Seq(S) /\ Len(<<>>) = 0
  BY EmptySeq
<1>2. WireTypes
  BY <1>1 DEF WireTypes
<1>3. AccountTypes
  BY <1>1, ServerAssumption DEF AccountTypes
<1>4. ThreadTypes
  BY <1>1 DEF ThreadTypes, HandlerType, Person
<1>5. UserTypes
  BY DEF UserTypes, Offered, Person
<1>6. FileTypes
  BY <1>1 DEF FileTypes
<1>7. InboxTypes
  BY <1>1 DEF InboxTypes, Person
<1>8. ASSUME NEW c \in Conn PROVE ConnInv(c)
  <2>1. StageInv(c)
    BY DEF StageInv
  <2>2. RequestInv(c)
    BY <1>1 DEF RequestInv, LastOnly, OneOnly, Free, Awaiting
  <2>3. KnockInv(c) /\ OfferInv(c) /\ SessionInv(c)
    BY <1>1 DEF KnockInv, OfferInv, SessionInv, Offered, InSession
  <2> QED BY <2>1, <2>2, <2>3 DEF ConnInv
<1> QED BY <1>2, <1>3, <1>4, <1>5, <1>6, <1>7, <1>8 DEF Types

LEMMA ReadTypes == ASSUME Types, NEW c \in Conn, Read(c), UNCHANGED client PROVE Types'
<1> USE DEF Types
<1>1. PICK k \in 0 .. Len(toServer[c]), got \in Seq(Asked), todo \in Seq(Asked \cup {Escape}),
           left \in Seq(Asked) :
           /\ got = SubSeq(toServer[c], 1, k) /\ Len(got) = k /\ todo = Parsed(got)
           /\ \A j \in 1 .. k : got[j] = toServer[c][j]
           /\ Ends(todo, got)
           /\ Len(left) <= Len(toServer[c]) - k /\ Ends(left, toServer[c])
           /\ handler' = [handler EXCEPT ![c] = [handler[c] EXCEPT !.buf = got, !.todo = todo]]
           /\ toServer' = [toServer EXCEPT ![c] = left]
  BY ReadSplits
<1>2. UNCHANGED <<accounts, delivery, toClient, closed, reset, crashed>>
  BY DEF Read
<1>3. [handler[c] EXCEPT !.buf = got, !.todo = todo] \in HandlerType
  BY DEF ThreadTypes, HandlerType
<1>4. WireTypes'
  BY <1>1, <1>2 DEF WireTypes, client
<1>5. ThreadTypes'
  BY <1>1, <1>2, <1>3 DEF ThreadTypes
<1>6. AccountTypes'
  BY <1>2 DEF AccountTypes, accounts
<1> QED BY <1>4, <1>5, <1>6 DEF UserTypes, FileTypes, InboxTypes, client, user, files, counts, inbox

LEMMA ReadEndTypes == ASSUME Types, NEW c \in Conn, ReadEnd(c), UNCHANGED client PROVE Types'
<1> USE DEF Types
<1>1. handler' = [handler EXCEPT ![c] = [handler[c] EXCEPT !.todo = Parsed(handler[c].buf)]]
  BY DEF ReadEnd, ThreadTypes
<1>2. UNCHANGED <<accounts, delivery, wire>>
  BY DEF ReadEnd
<1>3. handler[c].buf \in Seq(Asked)
  BY DEF ThreadTypes, HandlerType
<1>4. Parsed(handler[c].buf) \in Seq(Asked \cup {Escape})
  BY <1>3, ParsedEnds
<1>5. [handler[c] EXCEPT !.todo = Parsed(handler[c].buf)] \in HandlerType
  BY <1>4 DEF ThreadTypes, HandlerType
<1>6. WireTypes'
  BY <1>2 DEF WireTypes, client, wire
<1>7. ThreadTypes'
  BY <1>1, <1>2, <1>5 DEF ThreadTypes
<1>8. AccountTypes'
  BY <1>2 DEF AccountTypes, accounts
<1> QED BY <1>6, <1>7, <1>8 DEF UserTypes, FileTypes, InboxTypes, client, user, files, counts, inbox

\* Each command moves the handler on, to a new record of its locals.
Taking(c) == \/ TakeTag(c) \/ TakeUnexpected(c) \/ TakeUsername(c)
             \/ SignUp(c) \/ LogIn(c) \/ RefuseLogin(c)
             \/ TakeTarget(c) \/ TakeMessage(c) \/ TakeFileData(c) \/ TakeKnock(c) \/ TakeOther(c)

LEMMA TakingStep ==
  ASSUME NEW c \in Conn, Types, StageInv(c), Taking(c)
  PROVE  /\ handler[c].todo # <<>>
         /\ \E new \in HandlerType : new.todo = handler[c].todo /\ new.buf = handler[c].buf /\ Step(c, new)
<1> DEFINE h == handler[c]
           Good(new) == new \in HandlerType /\ new.todo = h.todo /\ new.buf = h.buf
<1>1. h.todo # <<>>
  BY DEF Taking, TakeTag, TakeUnexpected, TakeUsername, SignUp, LogIn, RefuseLogin, TakeTarget,
         TakeMessage, TakeFileData, TakeKnock, TakeOther, Offline, Expected, Online
<1>2. h \in HandlerType /\ Now(c) \in Asked \cup {Escape}
  BY <1>1, NowType DEF Types
<1>3. ASSUME NEW new, Good(new), Step(c, new)
      PROVE  \E x \in HandlerType : x.todo = h.todo /\ x.buf = h.buf /\ Step(c, x)
  BY <1>3
<1> SUFFICES \E new : Good(new) /\ Step(c, new)
  BY <1>1
<1> HIDE DEF h
<1>4. CASE TakeTag(c)
  <2> DEFINE i == IF Now(c).tag = "login" THEN 1 ELSE 0
  <2>1. \/ Step(c, [h EXCEPT !.islogin = i, !.continuityIndex = "username"])
        \/ Step(c, [h EXCEPT !.islogin = 1126])
    BY <1>4 DEF TakeTag, h
  <2>2. i \in Nat
    OBVIOUS
  <2> HIDE DEF i
  <2>3. Good([h EXCEPT !.islogin = i, !.continuityIndex = "username"])
    BY <1>2, <2>2 DEF HandlerType
  <2>4. Good([h EXCEPT !.islogin = 1126])
    BY <1>2 DEF HandlerType
  <2> HIDE DEF Good
  <2> QED BY <2>1, <2>3, <2>4
<1>5. CASE TakeUnexpected(c)
  <2>1. ~Expected(c)
    BY <1>5 DEF TakeUnexpected, Expected, StageInv
  <2>2. Good([h EXCEPT !.continuityIndex = "none"])
    BY <1>2 DEF HandlerType
  <2>3. Step(c, [h EXCEPT !.continuityIndex = "none"])
    <3>1. h.continuityIndex # "stuck"
      BY <1>2 DEF HandlerType
    <3>2. Step(c, [h EXCEPT !.continuityIndex = IF h.continuityIndex = "stuck" \/ Expected(c)
                                                THEN "stuck" ELSE "none"])
      BY <1>5 DEF TakeUnexpected, h
    <3> QED BY <2>1, <3>1, <3>2
  <2> HIDE DEF Good
  <2> QED BY <2>2, <2>3
<1>6. CASE TakeUsername(c)
  <2>1. Good([h EXCEPT !.acc = Now(c).arg, !.continuityIndex = "password"])
    BY <1>2, <1>6, AskedParts DEF TakeUsername, HandlerType
  <2>2. Step(c, [h EXCEPT !.acc = Now(c).arg, !.continuityIndex = "password"])
    BY <1>6 DEF TakeUsername, h
  <2> HIDE DEF Good
  <2> QED BY <2>1, <2>2
<1>7. CASE SignUp(c)
  <2>1. Good([h EXCEPT !.continuityIndex = "none"])
    BY <1>2 DEF HandlerType
  <2>2. Step(c, [h EXCEPT !.continuityIndex = "none"])
    BY <1>7 DEF SignUp, h
  <2> HIDE DEF Good
  <2> QED BY <2>1, <2>2
<1>8. CASE LogIn(c)
  <2>1. Good([h EXCEPT !.continuityIndex = "none", !.islogin = 0, !.istonextstage = TRUE])
    BY <1>2 DEF HandlerType
  <2>2. Step(c, [h EXCEPT !.continuityIndex = "none", !.islogin = 0, !.istonextstage = TRUE])
    BY <1>8 DEF LogIn, h
  <2> HIDE DEF Good
  <2> QED BY <2>1, <2>2
<1>9. CASE RefuseLogin(c)
  <2>1. Good([h EXCEPT !.continuityIndex = "none", !.islogin = 0])
    BY <1>2 DEF HandlerType
  <2>2. Step(c, [h EXCEPT !.continuityIndex = "none", !.islogin = 0])
    BY <1>9 DEF RefuseLogin, h
  <2> HIDE DEF Good
  <2> QED BY <2>1, <2>2
<1>10. CASE TakeTarget(c)
  <2>1. Good([h EXCEPT !.toWhoseAcc = Now(c).arg])
    BY <1>2, <1>10, AskedParts DEF TakeTarget, HandlerType
  <2>2. Step(c, [h EXCEPT !.toWhoseAcc = Now(c).arg])
    BY <1>10 DEF TakeTarget, h
  <2> HIDE DEF Good
  <2> QED BY <2>1, <2>2
<1>11. CASE TakeFileData(c)
  <2>1. Good([h EXCEPT !.islogin = Now(c).seg, !.continuityIndex = "none"])
    BY <1>2, <1>11, AskedParts DEF TakeFileData, HandlerType
  <2>2. Step(c, [h EXCEPT !.islogin = Now(c).seg, !.continuityIndex = "none"])
    BY <1>11 DEF TakeFileData, h
  <2> HIDE DEF Good
  <2> QED BY <2>1, <2>2
<1>12. CASE TakeMessage(c) \/ TakeKnock(c) \/ TakeOther(c)
  <2>1. Step(c, h) /\ Good(h)
    BY <1>2, <1>12 DEF TakeMessage, TakeKnock, TakeOther, h
  <2> QED BY <2>1
<1> QED BY <1>4, <1>5, <1>6, <1>7, <1>8, <1>9, <1>10, <1>11, <1>12 DEF Taking

\* A job that is queued leaves the other queues alone.
LEMMA Assigned ==
  ASSUME AccountTypes, NEW to, NEW job \in Seq(Told), JobAssign(to, job)
  PROVE  /\ queue' \in [Name -> Seq(Seq(Told))]
         /\ \A n \in Name : Len(queue'[n]) <= Capacity /\ Len(queue'[n]) >= Len(queue[n])
<1>1. \A n \in Name : Len(queue[n]) \in Nat /\ queue[n] \in Seq(Seq(Told)) /\ Len(queue[n]) <= Capacity
  BY LenProperties DEF AccountTypes
<1>2. CASE to \in DOMAIN account /\ Len(queue[to]) < Capacity
  <2>1. to \in Name
    BY <1>2 DEF AccountTypes
  <2>2. Append(queue[to], job) \in Seq(Seq(Told)) /\ Len(Append(queue[to], job)) = Len(queue[to]) + 1
    BY <2>1, <1>1, AppendProperties
  <2>3. queue' = [queue EXCEPT ![to] = Append(queue[to], job)]
    BY <1>2 DEF JobAssign
  <2>4. ASSUME NEW n \in Name PROVE Len(queue'[n]) <= Capacity /\ Len(queue'[n]) >= Len(queue[n])
    <3>1. queue'[n] = IF n = to THEN Append(queue[to], job) ELSE queue[n]
      BY <2>3, <2>1 DEF AccountTypes
    <3> QED BY <3>1, <2>2, <1>1, <1>2, ServerAssumption
  <2> QED BY <2>1, <2>2, <2>3, <2>4 DEF AccountTypes
<1>3. CASE ~(to \in DOMAIN account /\ Len(queue[to]) < Capacity)
  <2>1. queue' = queue
    BY <1>3 DEF JobAssign
  <2> QED BY <2>1, <1>1 DEF AccountTypes
<1> QED BY <1>2, <1>3

LEMMA Recorded ==
  ASSUME AccountTypes, NEW from \in Person, NEW to \in Person, NEW text \in Text, AddMessage(from, to, text)
  PROVE  /\ recorded' \in [Name -> Seq([sender : Person, receiver : Person, content : Text])]
         /\ \A n \in Name : Len(recorded'[n]) <= MaxRecorded
<1> DEFINE R == [sender : Person, receiver : Person, content : Text]
           r == [sender |-> from, receiver |-> to, content |-> text]
<1>1. r \in R
  OBVIOUS
<1> HIDE DEF R, r
<1>2. \A n \in Name : recorded[n] \in Seq(R) /\ Len(recorded[n]) \in Nat /\ Len(recorded[n]) <= MaxRecorded
  BY LenProperties DEF AccountTypes, R
<1>3. \A n \in Name : Append(recorded[n], r) \in Seq(R) /\ Len(Append(recorded[n], r)) = Len(recorded[n]) + 1
  BY <1>1, <1>2, AppendProperties
<1>4. recorded' = [n \in Name |->
                    IF n \in {from, to} /\ n \in DOMAIN account /\ Len(recorded[n]) < MaxRecorded
                    THEN Append(recorded[n], r) ELSE recorded[n]]
  BY DEF AddMessage, r
<1>5. ASSUME NEW n \in Name PROVE recorded'[n] \in Seq(R) /\ Len(recorded'[n]) <= MaxRecorded
  <2>1. CASE recorded'[n] = Append(recorded[n], r) /\ Len(recorded[n]) < MaxRecorded
    BY <2>1, <1>2, <1>3, ServerAssumption
  <2>2. CASE recorded'[n] = recorded[n]
    BY <2>2, <1>2
  <2> QED BY <2>1, <2>2, <1>4
<1> QED BY <1>4, <1>5 DEF R

\* What one command does to the accounts.
LEMMA TakingAccounts ==
  ASSUME NEW c \in Conn, Types, StageInv(c), Taking(c)
  PROVE  /\ AccountTypes'
         /\ DOMAIN account \subseteq DOMAIN account' /\ online \subseteq online'
         /\ \A n \in DOMAIN account : account'[n] = account[n]
         /\ \A n \in Name : Len(queue'[n]) >= Len(queue[n])
<1> DEFINE Goal == /\ AccountTypes'
                   /\ DOMAIN account \subseteq DOMAIN account' /\ online \subseteq online'
                   /\ \A n \in DOMAIN account : account'[n] = account[n]
                   /\ \A n \in Name : Len(queue'[n]) >= Len(queue[n])
<1>0. AccountTypes
  BY DEF Types
<1>1. handler[c].todo # <<>>
  BY TakingStep
<1>2. /\ Now(c) \in Asked \cup {Escape} /\ handler[c] \in HandlerType
      /\ handler[c].acc \in Person /\ handler[c].toWhoseAcc \in Person
  BY <1>1, NowType DEF Types, HandlerType
<1>3. \A n \in Name : Len(queue[n]) \in Nat
  BY <1>0, LenProperties DEF AccountTypes
<1>4. CASE UNCHANGED accounts
  <2>1. account' = account /\ online' = online /\ queue' = queue /\ recorded' = recorded
    BY <1>4 DEF accounts
  <2>2. AccountTypes'
    BY <2>1, <1>0 DEF AccountTypes
  <2>3. \A n \in Name : Len(queue'[n]) >= Len(queue[n])
    BY <2>1, <1>3
  <2> QED BY <2>1, <2>2, <2>3
<1>5. CASE SignUp(c)
  <2> DEFINE n == handler[c].acc
  <2>1. UNCHANGED <<online, queue, recorded>>
    BY <1>5 DEF SignUp
  <2>2. CASE UNCHANGED account
    BY <2>1, <2>2, <1>4 DEF accounts
  <2>3. CASE /\ Cardinality(DOMAIN account) < MAX_ACCOUNT_CNT /\ n \notin DOMAIN account
             /\ account' = [m \in DOMAIN account \cup {n} |-> IF m = n THEN Now(c).arg ELSE account[m]]
    <3>1. n \in Name
      BY <1>5 DEF SignUp, Expected, StageInv
    <3>2. Now(c).arg \in Password
      BY <1>5, <1>2, AskedParts DEF SignUp
    <3>3. IsFiniteSet(DOMAIN account') /\ Cardinality(DOMAIN account') = Cardinality(DOMAIN account) + 1
      <4>1. DOMAIN account' = DOMAIN account \cup {n}
        BY <2>3
      <4>2. IsFiniteSet(DOMAIN account)
        BY <1>0 DEF AccountTypes
      <4> HIDE DEF n
      <4> QED BY <4>1, <4>2, <2>3, FS_AddElement
    <3>4. Cardinality(DOMAIN account) \in Nat
      BY <1>0, FS_CardinalityType DEF AccountTypes
    <3>5. Cardinality(DOMAIN account') <= MAX_ACCOUNT_CNT
      BY <3>3, <3>4, <2>3, ServerAssumption
    <3>6. AccountTypes'
      BY <2>1, <2>3, <3>1, <3>2, <3>3, <3>5, <1>0 DEF AccountTypes
    <3>7. \A m \in DOMAIN account : account'[m] = account[m]
      BY <2>3
    <3> QED BY <2>1, <2>3, <3>6, <3>7, <1>3
  <2> QED BY <1>5, <2>2, <2>3 DEF SignUp
<1>6. CASE LogIn(c)
  <2>1. UNCHANGED <<account, queue, recorded>> /\ online' = online \cup {handler[c].acc}
        /\ handler[c].acc \in DOMAIN account
    BY <1>6 DEF LogIn
  <2>2. AccountTypes'
    BY <2>1, <1>0 DEF AccountTypes
  <2>3. \A n \in Name : Len(queue'[n]) >= Len(queue[n])
    BY <2>1, <1>3
  <2> QED BY <2>1, <2>2, <2>3
<1>7. CASE TakeMessage(c)
  <2>1. Now(c) \in Said /\ Now(c).arg \in Text
    BY <1>7, <1>2, AskedParts DEF TakeMessage
  <2>2. Command("username", handler[c].acc) \in Told /\ Now(c) \in Told
    BY <2>1, <1>2 DEF Told, Source, Command
  <2>3. <<Command("username", handler[c].acc), Now(c)>> \in Seq(Told)
    BY <2>2
  <2>4. JobAssign(handler[c].toWhoseAcc, <<Command("username", handler[c].acc), Now(c)>>)
    BY <1>7 DEF TakeMessage
  <2>5. /\ queue' \in [Name -> Seq(Seq(Told))]
        /\ \A n \in Name : Len(queue'[n]) <= Capacity /\ Len(queue'[n]) >= Len(queue[n])
    BY <1>0, <2>3, <2>4, Assigned
  <2>6. UNCHANGED <<account, online>>
    BY <1>7 DEF TakeMessage
  <2>7. /\ recorded' \in [Name -> Seq([sender : Person, receiver : Person, content : Text])]
        /\ \A n \in Name : Len(recorded'[n]) <= MaxRecorded
    <3>1. CASE recorded' = recorded
      BY <3>1, <1>0 DEF AccountTypes
    <3>2. CASE AddMessage(handler[c].acc, handler[c].toWhoseAcc, Now(c).arg)
      BY <3>2, <1>0, <1>2, <2>1, Recorded
    <3> QED BY <1>7, <3>1, <3>2 DEF TakeMessage
  <2> QED BY <1>0, <2>5, <2>6, <2>7 DEF AccountTypes
<1>8. CASE TakeFileData(c)
  <2>1. Now(c) \in Said
    BY <1>8, <1>2, AskedParts DEF TakeFileData
  <2>2. Command("username", handler[c].acc) \in Told /\ Now(c) \in Told
    BY <2>1, <1>2 DEF Told, Source, Command
  <2>3. <<Command("username", handler[c].acc), Now(c)>> \in Seq(Told)
    BY <2>2
  <2>4. JobAssign(handler[c].toWhoseAcc, <<Command("username", handler[c].acc), Now(c)>>)
    BY <1>8 DEF TakeFileData
  <2>5. /\ queue' \in [Name -> Seq(Seq(Told))]
        /\ \A n \in Name : Len(queue'[n]) <= Capacity /\ Len(queue'[n]) >= Len(queue[n])
    BY <1>0, <2>3, <2>4, Assigned
  <2>6. UNCHANGED <<account, online, recorded>>
    BY <1>8 DEF TakeFileData
  <2> QED BY <1>0, <2>5, <2>6 DEF AccountTypes
<1> QED BY <1>4, <1>5, <1>6, <1>7, <1>8
    DEF Taking, TakeTag, TakeUnexpected, TakeUsername, RefuseLogin, TakeTarget, TakeKnock, TakeOther

\* What one command does to the wire: its handler may answer.
LEMMA TakingWire ==
  ASSUME NEW c \in Conn, Types, StageInv(c), Taking(c), UNCHANGED client
  PROVE  /\ WireTypes' /\ toServer' = toServer /\ closed' = closed
         /\ \A d \in Conn \ {c} : toClient'[d] = toClient[d]
<1>0. WireTypes
  BY DEF Types
<1>1. CASE UNCHANGED wire
  BY <1>1, <1>0 DEF WireTypes, wire, client
<1>2. ASSUME NEW t \in Answers, ServerWrites(c, <<Tag(t)>>), UNCHANGED toServer
      PROVE  WireTypes' /\ closed' = closed /\ \A d \in Conn \ {c} : toClient'[d] = toClient[d]
  <2>1. <<Tag(t)>> \in Seq(Told \cup [tag : Answers])
    BY DEF Tag
  <2>2. /\ toClient' \in [Conn -> Seq(Told \cup [tag : Answers])]
        /\ closed' = closed /\ reset' \subseteq closed /\ crashed' \in BOOLEAN
        /\ toClient' = toClient \/ toClient' = [toClient EXCEPT ![c] = @ \o <<Tag(t)>>]
    BY <2>1, <1>0, <1>2, Writes
  <2> QED BY <2>2, <1>0, <1>2 DEF WireTypes, client
<1>3. CASE SignUp(c)
  <2>1. \/ UNCHANGED <<toClient, closed, reset, crashed>>
        \/ \E t \in Answers : ServerWrites(c, <<Tag(t)>>)
    BY <1>3 DEF SignUp, Answers
  <2> QED BY <1>3, <2>1, <1>1, <1>2 DEF SignUp, wire
<1>4. CASE LogIn(c) \/ RefuseLogin(c) \/ TakeKnock(c)
  <2>1. \E t \in Answers : ServerWrites(c, <<Tag(t)>>)
    BY <1>4 DEF LogIn, RefuseLogin, TakeKnock, Answers
  <2>2. toServer' = toServer
    BY <1>4 DEF LogIn, RefuseLogin, TakeKnock, accounts
  <2> QED BY <2>1, <2>2, <1>2
<1> QED BY <1>0, <1>1, <1>3, <1>4
    DEF Taking, TakeTag, TakeUnexpected, TakeUsername, TakeTarget, TakeMessage, TakeFileData, TakeOther, wire

LEMMA TakingTypes ==
  ASSUME NEW c \in Conn, Types, StageInv(c), Taking(c), UNCHANGED client PROVE Types'
<1>1. handler' \in [Conn -> HandlerType]
  <2>1. PICK new \in HandlerType : new.todo = handler[c].todo /\ Step(c, new)
    BY TakingStep
  <2> QED BY <2>1, TakingStep, StepType DEF Types
<1>2. delivery' \in [Conn -> [state : {"none", "starting", "on"}, intact : BOOLEAN, acc : Person]]
  <2>1. \/ delivery' = delivery
        \/ delivery' = [delivery EXCEPT ![c].intact = FALSE]
        \/ delivery' = [delivery EXCEPT ![c] = [state |-> "starting", intact |-> TRUE, acc |-> None]]
    BY DEF Taking, TakeTag, TakeUnexpected, TakeUsername, SignUp, LogIn, RefuseLogin, TakeTarget,
           TakeMessage, TakeFileData, TakeKnock, TakeOther, Online
  <2>2. delivery \in [Conn -> [state : {"none", "starting", "on"}, intact : BOOLEAN, acc : Person]]
    BY DEF Types, ThreadTypes
  <2>3. None \in Person
    BY DEF Person
  <2>4. CASE delivery' = [delivery EXCEPT ![c].intact = FALSE]
    BY <2>2, <2>4
  <2>5. CASE delivery' = [delivery EXCEPT ![c] = [state |-> "starting", intact |-> TRUE, acc |-> None]]
    BY <2>2, <2>3, <2>5
  <2> QED BY <2>1, <2>2, <2>4, <2>5
<1>3. WireTypes' /\ AccountTypes'
  BY TakingWire, TakingAccounts
<1> QED BY <1>1, <1>2, <1>3
    DEF Types, ThreadTypes, UserTypes, FileTypes, InboxTypes, client, user, files, counts, inbox

\* A delivery thread takes the first job of its queue.
LEMMA Delivered ==
  ASSUME NEW c \in Conn, Types, Deliver(c), UNCHANGED client
  PROVE  LET n == delivery[c].acc IN
         /\ Types' /\ n \in Name /\ queue[n] \in Seq(Seq(Told)) /\ queue[n] # <<>> /\ Head(queue[n]) \in Seq(Told)
         /\ queue' = [queue EXCEPT ![n] = Tail(queue[n])]
         /\ toServer' = toServer /\ closed' = closed
         /\ \A d \in Conn \ {c} : toClient'[d] = toClient[d]
         /\ delivery[c].intact /\ c \notin closed => toClient' = [toClient EXCEPT ![c] = @ \o Head(queue[n])]
         /\ ~delivery[c].intact \/ c \in closed => toClient' = toClient
<1> USE DEF Types
<1> DEFINE n == delivery[c].acc
<1>1. n \in Name /\ queue[n] # <<>> /\ queue' = [queue EXCEPT ![n] = Tail(queue[n])]
  BY DEF Deliver, ThreadTypes, Person
<1>2. UNCHANGED <<account, online, recorded, handler, delivery, toServer>>
  BY DEF Deliver
<1>3. queue[n] \in Seq(Seq(Told)) /\ Len(queue[n]) \in Nat /\ Len(queue[n]) <= Capacity
  BY <1>1, LenProperties DEF AccountTypes
<1>4. /\ Head(queue[n]) \in Seq(Told) /\ Tail(queue[n]) \in Seq(Seq(Told))
      /\ Len(Tail(queue[n])) = Len(queue[n]) - 1
  BY <1>1, <1>3, HeadTailProperties
<1>5. AccountTypes'
  <2>1. queue' \in [Name -> Seq(Seq(Told))]
    BY <1>1, <1>4 DEF AccountTypes
  <2>2. ASSUME NEW m \in Name PROVE Len(queue'[m]) <= Capacity
    <3>1. CASE m = n
      <4>1. queue'[m] = Tail(queue[n])
        BY <3>1, <1>1 DEF AccountTypes
      <4>2. Len(Tail(queue[n])) <= Capacity
        BY <1>3, <1>4, ServerAssumption
      <4> QED BY <4>1, <4>2
    <3>2. CASE m # n
      BY <3>2, <1>1 DEF AccountTypes
    <3> QED BY <3>1, <3>2
  <2> QED BY <2>1, <2>2, <1>2 DEF AccountTypes
<1>6. Head(queue[n]) \in Seq(Told \cup [tag : Answers])
  BY <1>4, SeqMonotonic
<1>7. CASE delivery[c].intact
  <2>1. ServerWrites(c, Head(queue[n]))
    BY <1>7 DEF Deliver
  <2>2. /\ toClient' \in [Conn -> Seq(Told \cup [tag : Answers])]
        /\ closed' = closed /\ reset' \subseteq closed /\ crashed' \in BOOLEAN
        /\ c \notin closed => toClient' = [toClient EXCEPT ![c] = @ \o Head(queue[n])]
        /\ c \in closed => toClient' = toClient
    BY <2>1, <1>6, Writes
  <2>3. WireTypes'
    BY <2>2, <1>2 DEF WireTypes, client
  <2>4. \A d \in Conn \ {c} : toClient'[d] = toClient[d]
    BY <2>2 DEF WireTypes
  <2> QED BY <1>7, <2>2, <2>3, <2>4, <1>1, <1>2, <1>3, <1>4, <1>5
          DEF ThreadTypes, UserTypes, FileTypes, InboxTypes, client, user, files, counts, inbox
<1>8. CASE ~delivery[c].intact
  <2>1. UNCHANGED <<toClient, closed, reset, crashed>>
    BY <1>8 DEF Deliver
  <2>2. WireTypes'
    BY <2>1, <1>2 DEF WireTypes, client
  <2> QED BY <1>8, <2>1, <2>2, <1>1, <1>2, <1>3, <1>4, <1>5
          DEF ThreadTypes, UserTypes, FileTypes, InboxTypes, client, user, files, counts, inbox
<1> QED BY <1>7, <1>8

LEMMA StartTypes == ASSUME NEW c \in Conn, Types, StartDelivery(c), UNCHANGED client PROVE Types'
<1>1. UNCHANGED <<accounts, handler, wire>>
  BY DEF StartDelivery
<1>2. delivery' \in [Conn -> [state : {"none", "starting", "on"}, intact : BOOLEAN, acc : Person]]
  <2>1. handler[c].acc \in Person
    BY DEF Types, ThreadTypes, HandlerType
  <2>2. PICK x \in Person : delivery' = [delivery EXCEPT ![c].state = "on", ![c].acc = x]
    BY <2>1 DEF StartDelivery, Person
  <2>3. delivery \in [Conn -> [state : {"none", "starting", "on"}, intact : BOOLEAN, acc : Person]]
    BY DEF Types, ThreadTypes
  <2>4. [delivery[c] EXCEPT !.state = "on", !.acc = x]
          \in [state : {"none", "starting", "on"}, intact : BOOLEAN, acc : Person]
    BY <2>3
  <2>5. delivery' = [delivery EXCEPT ![c] = [delivery[c] EXCEPT !.state = "on", !.acc = x]]
    BY <2>2, <2>3
  <2> QED BY <2>3, <2>4, <2>5
<1> QED BY <1>1, <1>2
    DEF Types, WireTypes, AccountTypes, ThreadTypes, UserTypes, FileTypes, InboxTypes,
        client, user, files, counts, inbox, wire, accounts

LEMMA ServerTypes ==
  ASSUME NEW c \in Conn, Types, StageInv(c), Handling(c) \/ Delivering(c), UNCHANGED client PROVE Types'
BY ReadTypes, ReadEndTypes, TakingTypes, Delivered, StartTypes DEF Handling, Delivering, Taking
-----------------------------------------------------------------------------
(* The types and the clients. *)

LEMMA Sends ==
  ASSUME WireTypes, NEW c \in Conn, NEW cmds \in Seq(Asked), ClientSends(c, cmds)
  PROVE  /\ toServer' \in [Conn -> Seq(Asked)] /\ toServer' = [toServer EXCEPT ![c] = @ \o cmds]
         /\ toClient' = toClient /\ closed' = closed /\ reset' = reset /\ crashed' = crashed
<1>1. toServer[c] \o cmds \in Seq(Asked)
  BY ConcatProperties DEF WireTypes
<1> QED BY <1>1 DEF ClientSends, WireTypes

LEMMA Takes ==
  ASSUME WireTypes, NEW c \in Conn, Has(c), ClientTakes(c)
  PROVE  /\ toClient' \in [Conn -> Seq(Told \cup [tag : Answers])]
         /\ toClient' = [toClient EXCEPT ![c] = Tail(toClient[c])]
         /\ toServer' = toServer /\ closed' = closed /\ reset' = reset /\ crashed' = crashed
         /\ Head(toClient[c]) \in Told \cup [tag : Answers]
         /\ toClient[c] \in Seq(Told \cup [tag : Answers]) /\ toClient[c] # <<>>
<1>1. toClient[c] \in Seq(Told \cup [tag : Answers]) /\ toClient[c] # <<>>
  BY DEF WireTypes, Has
<1>2. Tail(toClient[c]) \in Seq(Told \cup [tag : Answers]) /\ Head(toClient[c]) \in Told \cup [tag : Answers]
  BY <1>1, HeadTailProperties
<1> QED BY <1>1, <1>2 DEF ClientTakes, WireTypes

LEMMA Closes ==
  ASSUME WireTypes, state \in [Conn -> Offered \cup InSession \cup {"exited"}],
         NEW c \in Conn, ClientCloses(c), state' = [state EXCEPT ![c] = "exited"]
  PROVE  /\ WireTypes' /\ toServer' = toServer
         /\ \A d \in Conn \ {c} : toClient'[d] = toClient[d]
<1>1. <<>> \in Seq(Told \cup [tag : Answers])
  BY EmptySeq
<1>2. closed' = {d \in Conn : state'[d] = "exited"}
  BY DEF ClientCloses, WireTypes
<1>3. reset' \subseteq closed'
  BY DEF ClientCloses, WireTypes
<1> QED BY <1>1, <1>2, <1>3 DEF ClientCloses, WireTypes

\* A client that goes on stays connected.
LEMMA Lives ==
  ASSUME WireTypes, state \in [Conn -> Offered \cup InSession \cup {"exited"}],
         NEW c \in Conn, NEW v, v # "exited", state[c] # "exited",
         state' = [state EXCEPT ![c] = v] \/ state' = state, closed' = closed
  PROVE  closed' = {d \in Conn : state'[d] = "exited"}
BY DEF WireTypes

\* The server is as it was, and so is what the lemma does not name.
LEMMA ServerStays ==
  ASSUME Types, UNCHANGED server PROVE AccountTypes' /\ ThreadTypes'
BY DEF Types, AccountTypes, ThreadTypes, server, accounts

LEMMA AskTypes ==
  ASSUME NEW c \in Conn, Types, AskSignUp(c) \/ AskLogIn(c), UNCHANGED server
  PROVE  /\ Types'
         /\ \E t \in {"signup", "login"}, n \in Name, w \in Password :
              /\ state' = [state EXCEPT ![c] = t]
              /\ username' = [username EXCEPT ![c] = n] /\ password' = [password EXCEPT ![c] = w]
              /\ toServer' = [toServer EXCEPT
                                ![c] = @ \o <<Tag(t), Command("username", n), Command("password", w)>>]
              /\ toClient' = toClient /\ dst_usr' = dst_usr
         /\ state[c] = "offline" /\ receiver' = receiver /\ itsig' = itsig
<1> USE DEF Types
<1>1. PICK t \in {"signup", "login"} : Goto(c, "offline", t) /\ Enter(c, t)
  BY DEF AskSignUp, AskLogIn
<1>2. UNCHANGED <<dst_usr, service, files, typed, inbox>>
  BY DEF AskSignUp, AskLogIn
<1>3. PICK n \in Enters[c], w \in Password :
        /\ username' = [username EXCEPT ![c] = n] /\ password' = [password EXCEPT ![c] = w]
        /\ ClientSends(c, <<Tag(t), Command("username", n), Command("password", w)>>)
  BY <1>1 DEF Enter
<1>4. n \in Name
  BY <1>3, ClientAssumption
<1>5. <<Tag(t), Command("username", n), Command("password", w)>> \in Seq(Asked)
  <2>1. Tag(t) \in Asked
    BY DEF Asked, Tag
  <2>2. Command("username", n) \in Asked
    BY <1>4 DEF Asked, Command, Source, Person
  <2>3. Command("password", w) \in Asked
    BY DEF Asked, Command
  <2> QED BY <2>1, <2>2, <2>3
<1>6. /\ toServer' \in [Conn -> Seq(Asked)]
      /\ toServer' = [toServer EXCEPT ![c] = @ \o <<Tag(t), Command("username", n), Command("password", w)>>]
      /\ toClient' = toClient /\ closed' = closed /\ reset' = reset /\ crashed' = crashed
  BY <1>3, <1>5, Sends
<1>7. state' = [state EXCEPT ![c] = t] /\ state[c] = "offline"
  BY <1>1 DEF Goto
<1>8. WireTypes'
  <2>1. closed' = {d \in Conn : state'[d] = "exited"}
    BY <1>6, <1>7, Lives DEF UserTypes
  <2> QED BY <2>1, <1>6 DEF WireTypes
<1>9. UserTypes'
  BY <1>2, <1>3, <1>4, <1>7 DEF UserTypes, Offered, Person
<1>10. FileTypes' /\ InboxTypes'
  BY <1>2 DEF FileTypes, InboxTypes, files, inbox
<1> QED BY <1>2, <1>3, <1>4, <1>6, <1>7, <1>8, <1>9, <1>10, ServerStays DEF inbox

LEMMA AnsweredTypes ==
  ASSUME NEW c \in Conn, Types, Answered(c), UNCHANGED server
  PROVE  /\ Types' /\ toClient[c] # <<>>
         /\ toClient' = [toClient EXCEPT ![c] = Tail(toClient[c])] /\ toServer' = toServer
         /\ UNCHANGED user /\ itsig' = itsig
         /\ \A d \in Conn \ {c} : receiver'[d] = receiver[d]
         /\ \/ /\ Head(toClient[c]).tag \in {"signup-good", "signup-badU", "login-badU", "login-badP"}
               /\ state[c] \in {"signup", "login"} /\ state' = [state EXCEPT ![c] = "offline"]
               /\ receiver' = receiver
            \/ /\ Head(toClient[c]).tag = "login-good"
               /\ state[c] = "login" /\ state' = [state EXCEPT ![c] = "online"]
<1> USE DEF Types
<1>1. /\ toClient' \in [Conn -> Seq(Told \cup [tag : Answers])]
      /\ toClient' = [toClient EXCEPT ![c] = Tail(toClient[c])]
      /\ toServer' = toServer /\ closed' = closed /\ reset' = reset /\ crashed' = crashed
      /\ toClient[c] # <<>>
  BY Takes DEF Answered
<1>2. UNCHANGED <<user, files, counts, itsig, shown, disk>>
  BY DEF Answered
<1>3. \/ /\ NextTag(c) \in {"signup-good", "signup-badU", "login-badU", "login-badP"}
         /\ state[c] \in {"signup", "login"} /\ state' = [state EXCEPT ![c] = "offline"]
         /\ receiver' = receiver
      \/ /\ NextTag(c) = "login-good"
         /\ state[c] = "login" /\ state' = [state EXCEPT ![c] = "online"]
         /\ receiver' = [receiver EXCEPT ![c].state = "on"]
  BY DEF Answered, Goto
<1>4. WireTypes'
  <2>1. closed' = {d \in Conn : state'[d] = "exited"}
    BY <1>1, <1>3, Lives DEF UserTypes
  <2> QED BY <2>1, <1>1 DEF WireTypes
<1>5. UserTypes'
  BY <1>2, <1>3 DEF UserTypes, Offered, InSession, user, counts
<1>6. InboxTypes' /\ \A d \in Conn \ {c} : receiver'[d] = receiver[d]
  <2>1. \/ receiver' = receiver
        \/ receiver' = [receiver EXCEPT ![c].state = "on"]
    BY <1>3
  <2>2. /\ receiver' \in [Conn -> [state : {"off", "on", "failed"}, src_usr : Person, open : SUBSET File]]
        /\ \A d \in Conn \ {c} : receiver'[d] = receiver[d]
    <3> DEFINE R == [state : {"off", "on", "failed"}, src_usr : Person, open : SUBSET File]
    <3>1. receiver \in [Conn -> R] /\ [receiver[c] EXCEPT !.state = "on"] \in R
      BY DEF InboxTypes
    <3>2. receiver' = receiver \/ receiver' = [receiver EXCEPT ![c] = [receiver[c] EXCEPT !.state = "on"]]
      BY <2>1, <3>1
    <3> HIDE DEF R
    <3>3. receiver' \in [Conn -> R] /\ \A d \in Conn \ {c} : receiver'[d] = receiver[d]
      BY <3>1, <3>2
    <3> QED BY <3>3 DEF R
  <2> QED BY <1>2, <2>2 DEF InboxTypes
<1>7. FileTypes'
  BY <1>2 DEF FileTypes, files
<1> QED BY <1>1, <1>2, <1>3, <1>4, <1>5, <1>6, <1>7, ServerStays DEF NextTag

\* The steps with which a client ends.
Ending(c) == Quit(c) \/ RecvFails(c) \/ SendFails(c) \/ Kill(c) \/ Join(c) \/ (RemoveFile(c) /\ rf_ptr[c] # 1)

LEMMA EndingTypes ==
  ASSUME NEW c \in Conn, Types, Ending(c), UNCHANGED server
  PROVE  /\ Types' /\ state' = [state EXCEPT ![c] = "exited"]
         /\ UNCHANGED <<user, inbox, counts, toServer>>
         /\ \A d \in Conn \ {c} : toClient'[d] = toClient[d]
<1> USE DEF Types
<1>1. state' = [state EXCEPT ![c] = "exited"] /\ ClientCloses(c)
  <2>1. CASE Join(c)
    <3>1. receiver[c].state # "done"
      BY DEF InboxTypes
    <3> QED BY <2>1, <3>1 DEF Join, Goto
  <2> QED BY <2>1 DEF Ending, Quit, RecvFails, SendFails, Kill, RemoveFile, Goto
<1>2. UNCHANGED <<user, files, counts, inbox>>
  BY DEF Ending, Quit, RecvFails, SendFails, Kill, Join, RemoveFile
<1>3. WireTypes' /\ toServer' = toServer /\ \A d \in Conn \ {c} : toClient'[d] = toClient[d]
  BY <1>1, Closes DEF UserTypes
<1>4. UserTypes'
  BY <1>1, <1>2 DEF UserTypes, user, counts
<1>5. FileTypes' /\ InboxTypes'
  BY <1>2 DEF FileTypes, InboxTypes, files, inbox
<1> QED BY <1>1, <1>2, <1>3, <1>4, <1>5, ServerStays

\* The steps with which a client knocks.
Knocking(c) == AskFriend(c) \/ (EndMessage(c) /\ StickyEOF)

LEMMA KnockingTypes ==
  ASSUME NEW c \in Conn, Types, Knocking(c), UNCHANGED server
  PROVE  /\ Types'
         /\ state[c] \in {"online", "typing"} /\ state' = [state EXCEPT ![c] = "knock"]
         /\ \E n \in Person : /\ dst_usr' = [dst_usr EXCEPT ![c] = n]
                              /\ toServer' = [toServer EXCEPT ![c] = @ \o <<Command("knock", n)>>]
         /\ UNCHANGED <<username, password, inbox, toClient>>
<1> USE DEF Types
<1>1. PICK n \in Person, s \in {"m", "f"} : Knock(c, n, s)
  BY ClientAssumption DEF Knocking, AskFriend, EndMessage, Person
<1>2. UNCHANGED <<username, password, files, inbox>> /\ state[c] \in {"online", "typing"}
      /\ (typed' = typed)
  BY DEF Knocking, AskFriend, EndMessage, counts
<1>3. <<Command("knock", n)>> \in Seq(Asked)
  <2>1. Command("knock", n) \in Asked
    BY DEF Asked, Command
  <2> QED BY <2>1
<1>4. /\ toServer' \in [Conn -> Seq(Asked)]
      /\ toServer' = [toServer EXCEPT ![c] = @ \o <<Command("knock", n)>>]
      /\ toClient' = toClient /\ closed' = closed /\ reset' = reset /\ crashed' = crashed
  BY <1>1, <1>3, Sends DEF Knock
<1>5. state' = [state EXCEPT ![c] = "knock"] /\ dst_usr' = [dst_usr EXCEPT ![c] = n]
  BY <1>1 DEF Knock
<1>6. WireTypes'
  <2>1. closed' = {d \in Conn : state'[d] = "exited"}
    BY <1>2, <1>4, <1>5, Lives DEF UserTypes
  <2> QED BY <2>1, <1>4 DEF WireTypes
<1>7. UserTypes'
  BY <1>2, <1>5 DEF UserTypes, InSession
<1>8. FileTypes' /\ InboxTypes'
  BY <1>2 DEF FileTypes, InboxTypes, files, inbox
<1> QED BY <1>2, <1>4, <1>5, <1>6, <1>7, <1>8, ServerStays

\* The other steps of a user thread in a session that do not wait for an
\* answer: they send what needs none.
Moving(c) == \/ Confirm(c) \/ TypeMessage(c) \/ (EndMessage(c) /\ ~StickyEOF) \/ LogOut(c) \/ ChooseFiles(c)
             \/ SendSegment(c) \/ SendEnd(c) \/ (RemoveFile(c) /\ rf_ptr[c] = 1) \/ FilesSent(c)

Quiet == InSession \ {"knock"}

LEMMA MovingFiles ==
  ASSUME NEW c \in Conn, Types, Moving(c) PROVE FileTypes'
<1> USE DEF Types
<1> DEFINE F == [filename : File, datagram_cnt : Nat]
           l == rf_list[c]
           k == rf_ptr[c]
<1>1. /\ l \in Seq(F) /\ Len(l) \in Nat /\ k \in Nat
      /\ k \in 1 .. Len(l) \/ (k = 1 /\ l = <<>>)
      /\ \A j \in 1 .. Len(l) : l[j] \in F
  BY ElementOfSeq, LenProperties DEF FileTypes
<1>2. ASSUME NEW m \in Seq(F), NEW p \in Nat, p \in 1 .. Len(m) \/ (p = 1 /\ m = <<>>),
             rf_list' = [rf_list EXCEPT ![c] = m], rf_ptr' = [rf_ptr EXCEPT ![c] = p]
      PROVE  FileTypes'
  BY <1>2 DEF FileTypes
<1>3. CASE UNCHANGED files
  BY <1>3 DEF FileTypes, files
<1>4. CASE ChooseFiles(c)
  <2>1. PICK f \in FileLists : /\ rf_list' = [rf_list EXCEPT ![c] = Inserted(f)]
                               /\ rf_ptr' = [rf_ptr EXCEPT ![c] = 1]
    BY <1>4 DEF ChooseFiles
  <2>2. Inserted(f) \in Seq(F)
    BY <2>1, ClientAssumption, InsertedType
  <2>3. Inserted(f) = <<>> \/ 1 \in 1 .. Len(Inserted(f))
    BY <2>2, EmptySeq
  <2> QED BY <2>1, <2>2, <2>3, <1>2
<1>5. CASE SendSegment(c)
  <2>1. k \in 1 .. Len(l)
    BY <1>1, <1>5 DEF SendSegment
  <2> DEFINE m == [l EXCEPT ![k].datagram_cnt = @ + 1]
             p == IF k = Len(l) THEN 1 ELSE k + 1
  <2>2. l[k] \in F
    BY <2>1, <1>1
  <2>3. [l[k] EXCEPT !.datagram_cnt = @ + 1] \in F
    BY <2>2
  <2>4. m \in Seq(F) /\ Len(m) = Len(l)
    BY <2>1, <2>3, <1>1, ExceptSeq
  <2>5. rf_list' = [rf_list EXCEPT ![c] = m] /\ rf_ptr' = [rf_ptr EXCEPT ![c] = p]
    BY <1>5 DEF SendSegment, FileTypes
  <2>6. p \in Nat /\ p \in 1 .. Len(l)
    BY <2>1, <1>1
  <2> HIDE DEF m, p, l
  <2> QED BY <2>4, <2>5, <2>6, <1>2
<1>6. CASE RemoveFile(c) /\ rf_ptr[c] = 1
  <2>1. rf_list' = [rf_list EXCEPT ![c] = Tail(l)] /\ rf_ptr' = rf_ptr /\ k = 1
    BY <1>6 DEF RemoveFile
  <2>2. rf_ptr' = [rf_ptr EXCEPT ![c] = 1]
    BY <2>1 DEF FileTypes
  <2>3. CASE l # <<>>
    <3>1. Tail(l) \in Seq(F)
      BY <2>3, <1>1, HeadTailProperties
    <3>2. Tail(l) = <<>> \/ 1 \in 1 .. Len(Tail(l))
      BY <3>1, EmptySeq
    <3> QED BY <2>1, <2>2, <3>1, <3>2, <1>2
  <2>4. CASE l = <<>>
    <3>1. Tail(l) = <<>> /\ Tail(l) \in Seq(F)
      BY <2>4, <1>1
    <3> QED BY <2>1, <2>2, <3>1, <1>2
  <2> QED BY <2>3, <2>4
<1> QED BY <1>3, <1>4, <1>5, <1>6
    DEF Moving, Confirm, TypeMessage, EndMessage, LogOut, SendEnd, FilesSent

\* What a segment of a file is sent as.
LEMMA SegmentType ==
  ASSUME NEW c \in Conn, Types, NEW f \in [filename : File, datagram_cnt : Nat], NEW k \in Nat,
         NEW text \in Text \cup {None}
  PROVE  /\ <<Command("username", dst_usr[c]), FileData(f.filename, k, text)>> \in Seq(Said \cup Source)
         /\ FileData(f.filename, k, text) \in Said
<1>1. Command("username", dst_usr[c]) \in Source
  BY DEF Types, UserTypes, Command, Source
<1>2. FileData(f.filename, k, text) \in Said
  BY DEF FileData, Said
<1> QED BY <1>1, <1>2

LEMMA MovingSends ==
  ASSUME NEW c \in Conn, Types, Moving(c)
  PROVE  \/ toServer' = toServer /\ UNCHANGED wire
         \/ \E cmds \in Seq(Said \cup Source \cup {Tag("logout")}) : ClientSends(c, cmds)
<1> USE DEF Types
<1>1. ASSUME NEW cmds \in Seq(Said \cup Source), ClientSends(c, cmds)
      PROVE  \E x \in Seq(Said \cup Source \cup {Tag("logout")}) : ClientSends(c, x)
  <2>1. cmds \in Seq(Said \cup Source \cup {Tag("logout")})
    BY SeqMonotonic
  <2> QED BY <2>1, <1>1
<1>2. dst_usr[c] \in Person /\ typed[c] \in Nat
  BY DEF UserTypes
<1>3. CASE TypeMessage(c)
  <2> DEFINE m == [by |-> c, to |-> dst_usr[c], n |-> typed[c] + 1]
  <2>1. m \in Text
    BY <1>2 DEF Text
  <2>2. Command("username", dst_usr[c]) \in Source /\ Command("message", m) \in Said
    BY <1>2, <2>1 DEF Command, Source, Said
  <2>3. <<Command("username", dst_usr[c]), Command("message", m)>> \in Seq(Said \cup Source)
    BY <2>2
  <2>4. ClientSends(c, <<Command("username", dst_usr[c]), Command("message", m)>>)
    BY <1>3 DEF TypeMessage
  <2> QED BY <2>3, <2>4, <1>1
<1>4. CASE LogOut(c)
  <2>1. <<Tag("logout")>> \in Seq(Said \cup Source \cup {Tag("logout")})
    OBVIOUS
  <2> QED BY <2>1, <1>4 DEF LogOut
<1>5. CASE SendSegment(c) \/ SendEnd(c)
  <2> DEFINE l == rf_list[c]
             f == l[rf_ptr[c]]
  <2>1. f \in [filename : File, datagram_cnt : Nat]
    <3>1. l \in Seq([filename : File, datagram_cnt : Nat]) /\ rf_ptr[c] \in 1 .. Len(l)
      BY <1>5 DEF FileTypes, SendSegment, SendEnd
    <3> QED BY <3>1, ElementOfSeq
  <2>2. CASE SendSegment(c)
    <3> DEFINE t == [by |-> c, to |-> dst_usr[c], n |-> f.datagram_cnt]
    <3>1. t \in Text /\ f.datagram_cnt \in Nat
      BY <2>1, <1>2 DEF Text
    <3>2. <<Command("username", dst_usr[c]), FileData(f.filename, f.datagram_cnt, t)>> \in Seq(Said \cup Source)
      BY <2>1, <3>1, SegmentType
    <3>3. ClientSends(c, <<Command("username", dst_usr[c]), FileData(f.filename, f.datagram_cnt, t)>>)
      BY <2>2 DEF SendSegment, Segment
    <3> QED BY <3>2, <3>3, <1>1
  <2>3. CASE SendEnd(c)
    <3>1. <<Command("username", dst_usr[c]), FileData(f.filename, 0, None)>> \in Seq(Said \cup Source)
      BY <2>1, SegmentType
    <3>2. ClientSends(c, <<Command("username", dst_usr[c]), FileData(f.filename, 0, None)>>)
      BY <2>3 DEF SendEnd, Segment
    <3> QED BY <3>1, <3>2, <1>1
  <2> QED BY <1>5, <2>2, <2>3
<1> QED BY <1>3, <1>4, <1>5
    DEF Moving, Confirm, EndMessage, ChooseFiles, RemoveFile, FilesSent, wire

LEMMA MovingTypes ==
  ASSUME NEW c \in Conn, Types, Moving(c), UNCHANGED server
  PROVE  /\ Types'
         /\ state[c] \in Quiet /\ \E v \in Quiet : state' = [state EXCEPT ![c] = v]
         /\ UNCHANGED <<user, inbox, toClient>>
         /\ \/ toServer' = toServer
            \/ \E cmds \in Seq(Said \cup Source \cup {Tag("logout")}) :
                 toServer' = [toServer EXCEPT ![c] = @ \o cmds]
<1>1. /\ WireTypes /\ UserTypes /\ FileTypes /\ InboxTypes
      /\ state \in [Conn -> Offered \cup InSession \cup {"exited"}]
  BY DEF Types, UserTypes
<1>2. state[c] \in Quiet /\ \E v \in Quiet : state' = [state EXCEPT ![c] = v]
  BY <1>1 DEF Moving, Confirm, TypeMessage, EndMessage, LogOut, ChooseFiles, SendSegment, SendEnd, RemoveFile,
              FilesSent, Goto, Quiet, InSession
<1>3. UNCHANGED <<user, inbox>> /\ typed' \in [Conn -> Nat]
  BY <1>1 DEF Moving, Confirm, TypeMessage, EndMessage, LogOut, ChooseFiles, SendSegment, SendEnd, RemoveFile,
              FilesSent, counts, user, UserTypes
<1>4. /\ toServer' \in [Conn -> Seq(Asked)]
      /\ toClient' = toClient /\ closed' = closed /\ reset' = reset /\ crashed' = crashed
      /\ \/ toServer' = toServer
         \/ \E cmds \in Seq(Said \cup Source \cup {Tag("logout")}) :
              toServer' = [toServer EXCEPT ![c] = @ \o cmds]
  <2>1. CASE toServer' = toServer /\ UNCHANGED wire
    BY <2>1, <1>1 DEF WireTypes, wire
  <2>2. ASSUME NEW cmds \in Seq(Said \cup Source \cup {Tag("logout")}), ClientSends(c, cmds)
        PROVE  /\ toServer' \in [Conn -> Seq(Asked)] /\ toServer' = [toServer EXCEPT ![c] = @ \o cmds]
               /\ toClient' = toClient /\ closed' = closed /\ reset' = reset /\ crashed' = crashed
    <3>1. Said \cup Source \cup {Tag("logout")} \subseteq Asked
      BY DEF Asked, Tag
    <3>2. cmds \in Seq(Asked)
      BY <3>1, SeqMonotonic
    <3> QED BY <3>2, <2>2, <1>1, Sends
  <2> QED BY <2>1, <2>2, MovingSends
<1>5. WireTypes'
  <2>1. "exited" \notin Quiet
    BY DEF Quiet, InSession
  <2>2. closed' = {d \in Conn : state'[d] = "exited"}
    BY <2>1, <1>1, <1>2, <1>4, Lives
  <2> QED BY <2>2, <1>1, <1>4 DEF WireTypes
<1>6. UserTypes'
  <2>1. state' \in [Conn -> Offered \cup InSession \cup {"exited"}]
    BY <1>1, <1>2 DEF Quiet
  <2> QED BY <2>1, <1>1, <1>3 DEF UserTypes, user
<1>7. FileTypes' /\ InboxTypes'
  BY <1>1, <1>3, MovingFiles DEF InboxTypes, inbox
<1> QED BY <1>2, <1>3, <1>4, <1>5, <1>6, <1>7, ServerStays DEF Types

LEMMA FriendIsTypes ==
  ASSUME NEW c \in Conn, Types, FriendIs(c), UNCHANGED server
  PROVE  /\ Types'
         /\ state[c] = "knock" /\ \E v \in Quiet : state' = [state EXCEPT ![c] = v]
         /\ itsig[c] # <<>> /\ itsig' = [itsig EXCEPT ![c] = Tail(itsig[c])]
         /\ UNCHANGED <<wire, user, receiver>>
<1> USE DEF Types
<1>1. /\ UNCHANGED <<wire, user, files, counts, receiver, shown, disk>>
      /\ itsig[c] # <<>> /\ itsig' = [itsig EXCEPT ![c] = Tail(itsig[c])]
      /\ state[c] = "knock" /\ \E v \in {"confirm", "choose"} : state' = [state EXCEPT ![c] = v]
  BY DEF FriendIs, Dequeue, Goto
<1>2. Tail(itsig[c]) \in Seq({"user-online", "user-offline"})
  BY <1>1, HeadTailProperties DEF InboxTypes
<1>3. InboxTypes'
  BY <1>1, <1>2 DEF InboxTypes
<1>4. WireTypes'
  <2>1. closed' = {d \in Conn : state'[d] = "exited"}
    BY <1>1, Lives DEF UserTypes, wire
  <2> QED BY <2>1, <1>1 DEF WireTypes, wire
<1>5. UserTypes'
  BY <1>1 DEF UserTypes, InSession, user, counts
<1>6. FileTypes'
  BY <1>1 DEF FileTypes, files
<1> QED BY <1>1, <1>3, <1>4, <1>5, <1>6, ServerStays DEF Quiet, InSession

LEMMA ReceivingTypes ==
  ASSUME NEW c \in Conn, Types, ReceiveThread(c), UNCHANGED server
  PROVE  /\ Types' /\ state' = state /\ UNCHANGED user /\ toServer' = toServer
         /\ receiver[c].state = "on" /\ receiver'[c].state \in {"on", "failed"}
         /\ \A d \in Conn \ {c} : receiver'[d] = receiver[d]
         /\ \/ toClient' = toClient /\ itsig' = itsig
            \/ /\ toClient[c] # <<>> /\ toClient' = [toClient EXCEPT ![c] = Tail(toClient[c])]
               /\ \/ itsig' = itsig
                  \/ /\ Head(toClient[c]).tag \in {"user-online", "user-offline"}
                     /\ itsig' = [itsig EXCEPT ![c] = Append(itsig[c], Head(toClient[c]).tag)]
<1> USE DEF Types
<1>1. /\ state' = state /\ UNCHANGED <<user, files, counts>> /\ UNCHANGED user
      /\ receiver[c].state = "on"
  BY DEF ReceiveThread, TakeSignal, TakeSource, ShowMessage, WriteFile, EndReceiving, Receiving
<1>2. UserTypes' /\ FileTypes'
  BY <1>1 DEF UserTypes, FileTypes, user, files, counts
<1>3. receiver[c] \in [state : {"off", "on", "failed"}, src_usr : Person, open : SUBSET File]
  BY DEF InboxTypes
<1>4. CASE EndReceiving(c)
  <2>1. UNCHANGED <<wire, itsig, shown, disk>> /\ receiver' = [receiver EXCEPT ![c].state = "failed"]
    BY <1>4 DEF EndReceiving
  <2>2. InboxTypes' /\ receiver'[c].state = "failed" /\ \A d \in Conn \ {c} : receiver'[d] = receiver[d]
    BY <2>1 DEF InboxTypes
  <2>3. WireTypes'
    BY <1>1, <2>1 DEF WireTypes, wire
  <2> QED BY <1>1, <1>2, <2>1, <2>2, <2>3, ServerStays DEF wire
<1>5. CASE TakeSignal(c) \/ TakeSource(c) \/ ShowMessage(c) \/ WriteFile(c)
  <2> DEFINE x == Head(toClient[c])
  <2>1. Has(c) /\ ClientTakes(c)
    BY <1>5 DEF TakeSignal, TakeSource, ShowMessage, WriteFile
  <2>2. /\ toClient' \in [Conn -> Seq(Told \cup [tag : Answers])]
        /\ toClient' = [toClient EXCEPT ![c] = Tail(toClient[c])]
        /\ toServer' = toServer /\ closed' = closed /\ reset' = reset /\ crashed' = crashed
        /\ x \in Told \cup [tag : Answers] /\ toClient[c] # <<>>
    BY <2>1, Takes
  <2>3. WireTypes'
    BY <1>1, <2>2 DEF WireTypes
  <2>4. CASE TakeSignal(c)
    <3>1. /\ UNCHANGED <<receiver, shown, disk>> /\ x.tag \in {"user-online", "user-offline"}
          /\ itsig' = [itsig EXCEPT ![c] = Append(itsig[c], x.tag)]
      BY <2>4 DEF TakeSignal, Enqueue, NextTag
    <3>2. Append(itsig[c], x.tag) \in Seq({"user-online", "user-offline"})
      BY <3>1, AppendProperties DEF InboxTypes
    <3>3. InboxTypes'
      BY <3>1, <3>2 DEF InboxTypes
    <3> QED BY <1>1, <1>2, <2>2, <2>3, <3>1, <3>3, ServerStays
  <2>5. CASE TakeSource(c)
    <3>1. UNCHANGED <<itsig, shown, disk>> /\ receiver' = [receiver EXCEPT ![c].src_usr = x.arg]
          /\ x.arg \in Person
      BY <2>5, <2>2, ToldParts DEF TakeSource, NextTag
    <3>2. InboxTypes' /\ receiver'[c].state = "on" /\ \A d \in Conn \ {c} : receiver'[d] = receiver[d]
      BY <1>1, <3>1 DEF InboxTypes
    <3> QED BY <1>1, <1>2, <2>2, <2>3, <3>1, <3>2, ServerStays
  <2>6. CASE ShowMessage(c)
    <3>1. UNCHANGED <<receiver, itsig, disk>> /\ x.arg \in Text
          /\ shown' = [shown EXCEPT ![c] = Append(shown[c], <<receiver[c].src_usr, x.arg>>)]
      BY <2>6, <2>2, ToldParts DEF ShowMessage, NextTag
    <3>2. <<receiver[c].src_usr, x.arg>> \in Person \X Text
      BY <3>1, <1>3
    <3>3. Append(shown[c], <<receiver[c].src_usr, x.arg>>) \in Seq(Person \X Text)
      BY <3>2, AppendProperties DEF InboxTypes
    <3>4. InboxTypes'
      BY <3>1, <3>3 DEF InboxTypes
    <3> QED BY <1>1, <1>2, <2>2, <2>3, <3>1, <3>4, ServerStays
  <2>7. CASE WriteFile(c)
    <3> DEFINE open == receiver[c].open
               old == IF x.file \in open THEN disk[c][x.file] ELSE <<>>
               new == IF x.arg = None THEN <<>> ELSE <<x.arg>>
    <3>1. /\ UNCHANGED <<itsig, shown>> /\ x.file \in File /\ x.arg \in Text \cup {None}
          /\ disk' = [disk EXCEPT ![c][x.file] = old \o new]
          /\ receiver' = [receiver EXCEPT ![c].open = IF x.seg = 0 THEN open \ {x.file}
                                                                   ELSE open \cup {x.file}]
      BY <2>7, <2>2, ToldParts DEF WriteFile, NextTag, InboxTypes
    <3>2. old \in Seq(Text)
      BY <3>1, EmptySeq DEF InboxTypes
    <3>3. new \in Seq(Text)
      <4>1. CASE x.arg = None
        BY <4>1, EmptySeq
      <4>2. CASE x.arg # None
        <5>1. x.arg \in Text
          BY <3>1, <4>2
        <5> HIDE DEF x
        <5> QED BY <4>2, <5>1
      <4> QED BY <4>1, <4>2
    <3>4. old \o new \in Seq(Text)
      <4> HIDE DEF old, new
      <4> QED BY <3>2, <3>3, ConcatProperties
    <3> HIDE DEF old, new
    <3>5. disk' \in [Conn -> [File -> Seq(Text)]]
      BY <3>1, <3>4 DEF InboxTypes
    <3>6. \E o \in SUBSET File : receiver' = [receiver EXCEPT ![c].open = o]
      BY <3>1, <1>3
    <3>7. /\ receiver' \in [Conn -> [state : {"off", "on", "failed"}, src_usr : Person, open : SUBSET File]]
          /\ receiver'[c].state = "on" /\ \A d \in Conn \ {c} : receiver'[d] = receiver[d]
      BY <3>6, <1>1 DEF InboxTypes
    <3>8. InboxTypes'
      BY <3>1, <3>5, <3>7 DEF InboxTypes
    <3> QED BY <1>1, <1>2, <2>2, <2>3, <3>1, <3>7, <3>8, ServerStays
  <2> QED BY <1>5, <2>4, <2>5, <2>6, <2>7
<1> QED BY <1>4, <1>5 DEF ReceiveThread

\* The steps of the client, by what they do.
LEMMA ClientSteps ==
  ASSUME NEW c \in Conn, UserActs(c) \/ UserThread(c) \/ ReceiveThread(c)
  PROVE  \/ AskSignUp(c) \/ AskLogIn(c) \/ Answered(c) \/ Ending(c) \/ Knocking(c)
         \/ Moving(c) \/ FriendIs(c) \/ ReceiveThread(c)
BY DEF UserActs, UserThread, Ending, Knocking, Moving

LEMMA ClientTypes ==
  ASSUME NEW c \in Conn, Types, UserActs(c) \/ UserThread(c) \/ ReceiveThread(c), UNCHANGED server
  PROVE  Types'
BY ClientSteps, AskTypes, AnsweredTypes, EndingTypes, KnockingTypes, MovingTypes, FriendIsTypes, ReceivingTypes
-----------------------------------------------------------------------------
(* Steps of other connections. *)

Grows == /\ DOMAIN account \subseteq DOMAIN account' /\ online \subseteq online'
         /\ \A n \in DOMAIN account : account'[n] = account[n]

Untouched(d) ==
  /\ toServer'[d] = toServer[d] /\ toClient'[d] = toClient[d]
  /\ handler'[d] = handler[d] /\ delivery'[d] = delivery[d]
  /\ state'[d] = state[d] /\ username'[d] = username[d] /\ password'[d] = password[d]
  /\ dst_usr'[d] = dst_usr[d] /\ itsig'[d] = itsig[d] /\ receiver'[d].state = receiver[d].state

LEMMA Beside == ASSUME NEW d \in Conn, Grows, Untouched(d), ConnInv(d) PROVE ConnInv(d)'
<1> USE DEF Untouched
<1>1. StageInv(d)'
  BY DEF ConnInv, StageInv
<1>2. RequestInv(d)'
  BY DEF ConnInv, RequestInv, Free, LastOnly, OneOnly
<1>3. KnockInv(d)'
  BY DEF ConnInv, KnockInv, Free, Grows
<1>4. Owned(d) => Owned(d)'
  BY DEF Owned, Grows
<1>5. OfferInv(d)'
  BY <1>4 DEF ConnInv, OfferInv, Entered, Granted, Refused
<1>6. SessionInv(d)'
  BY <1>4 DEF ConnInv, SessionInv
<1> QED BY <1>1, <1>2, <1>3, <1>5, <1>6 DEF ConnInv

LEMMA ServerBeside ==
  ASSUME NEW c \in Conn, Types, StageInv(c), Handling(c) \/ Delivering(c), UNCHANGED client
  PROVE  Grows /\ \A d \in Conn \ {c} : Untouched(d)
<1> DEFINE Goal == Grows /\ \A d \in Conn \ {c} : Untouched(d)
<1>1. UNCHANGED <<state, username, password, dst_usr, itsig, receiver>>
  BY DEF client, user, inbox
<1>2. ASSUME \A d \in Conn \ {c} : /\ toServer'[d] = toServer[d] /\ toClient'[d] = toClient[d]
                                   /\ handler'[d] = handler[d] /\ delivery'[d] = delivery[d]
      PROVE  \A d \in Conn \ {c} : Untouched(d)
  BY <1>1, <1>2 DEF Untouched
<1>3. /\ toServer \in [Conn -> Seq(Asked)] /\ handler \in [Conn -> HandlerType]
      /\ delivery \in [Conn -> [state : {"none", "starting", "on"}, intact : BOOLEAN, acc : Person]]
  BY DEF Types, WireTypes, ThreadTypes
<1>4. CASE Read(c)
  <2>1. UNCHANGED <<accounts, delivery, toClient>>
    BY <1>4 DEF Read
  <2>2. \A d \in Conn \ {c} : toServer'[d] = toServer[d] /\ handler'[d] = handler[d]
    BY <1>3, <1>4 DEF Read
  <2> QED BY <2>1, <2>2, <1>2 DEF accounts, Grows
<1>5. CASE ReadEnd(c)
  BY <1>2, <1>3, <1>5 DEF ReadEnd, accounts, wire, Grows
<1>6. CASE Taking(c)
  <2>1. \A d \in Conn \ {c} : handler'[d] = handler[d]
    <3>1. PICK new \in HandlerType : new.todo = handler[c].todo /\ Step(c, new)
      BY <1>6, TakingStep
    <3> QED BY <3>1, <1>3 DEF Step
  <2>2. \A d \in Conn \ {c} : delivery'[d] = delivery[d]
    <3>1. \/ delivery' = delivery
          \/ delivery' = [delivery EXCEPT ![c].intact = FALSE]
          \/ delivery' = [delivery EXCEPT ![c] = [state |-> "starting", intact |-> TRUE, acc |-> None]]
      BY <1>6 DEF Taking, TakeTag, TakeUnexpected, TakeUsername, SignUp, LogIn, RefuseLogin, TakeTarget,
                  TakeMessage, TakeFileData, TakeKnock, TakeOther, Online
    <3> QED BY <3>1, <1>3
  <2> QED BY <2>1, <2>2, <1>2, <1>6, TakingWire, TakingAccounts DEF Grows
<1>7. CASE StartDelivery(c)
  BY <1>2, <1>3, <1>7 DEF StartDelivery, accounts, wire, Grows
<1>8. CASE Deliver(c)
  <2>1. UNCHANGED <<account, online, handler, delivery, toServer>>
    BY <1>8 DEF Deliver
  <2> QED BY <2>1, <1>2, <1>8, Delivered DEF Grows
<1> QED BY <1>4, <1>5, <1>6, <1>7, <1>8 DEF Handling, Delivering, Taking

LEMMA ClientBeside ==
  ASSUME NEW c \in Conn, Types, UserActs(c) \/ UserThread(c) \/ ReceiveThread(c), UNCHANGED server
  PROVE  Grows /\ \A d \in Conn \ {c} : Untouched(d)
<1>1. Grows
  BY DEF Grows, server, accounts
<1>2. UNCHANGED <<handler, delivery>>
  BY DEF server
<1>3. /\ state \in [Conn -> Offered \cup InSession \cup {"exited"}]
      /\ username \in [Conn -> Person] /\ dst_usr \in [Conn -> Person]
      /\ password \in [Conn -> Password \cup {None}]
      /\ toServer \in [Conn -> Seq(Asked)] /\ toClient \in [Conn -> Seq(Told \cup [tag : Answers])]
      /\ itsig \in [Conn -> Seq({"user-online", "user-offline"})]
  BY DEF Types, UserTypes, WireTypes, InboxTypes
<1>4. ASSUME NEW d \in Conn \ {c},
             \/ AskSignUp(c) \/ AskLogIn(c) \/ Answered(c) \/ Ending(c)
             \/ Knocking(c) \/ Moving(c) \/ FriendIs(c) \/ ReceiveThread(c)
      PROVE  Untouched(d)
  <2>1. CASE AskSignUp(c) \/ AskLogIn(c)
    <3>1. \E t, n, w, x : /\ state' = [state EXCEPT ![c] = t] /\ username' = [username EXCEPT ![c] = n]
                          /\ password' = [password EXCEPT ![c] = w]
                          /\ toServer' = [toServer EXCEPT ![c] = x]
      <4>1. PICK t \in {"signup", "login"}, n \in Name, w \in Password :
              /\ state' = [state EXCEPT ![c] = t]
              /\ username' = [username EXCEPT ![c] = n] /\ password' = [password EXCEPT ![c] = w]
              /\ toServer' = [toServer EXCEPT
                                ![c] = @ \o <<Tag(t), Command("username", n), Command("password", w)>>]
              /\ toClient' = toClient /\ dst_usr' = dst_usr
        BY <2>1, AskTypes
      <4> QED BY <4>1
    <3>2. UNCHANGED <<toClient, dst_usr, receiver, itsig>>
      BY <2>1, AskTypes
    <3> QED BY <3>1, <3>2, <1>2, <1>3 DEF Untouched
  <2>2. CASE Answered(c)
    <3>1. /\ toClient' = [toClient EXCEPT ![c] = Tail(toClient[c])] /\ toServer' = toServer
          /\ UNCHANGED user /\ itsig' = itsig /\ receiver'[d] = receiver[d]
          /\ \E v : state' = [state EXCEPT ![c] = v]
      BY <2>2, AnsweredTypes
    <3> QED BY <3>1, <1>2, <1>3 DEF Untouched, user
  <2>3. CASE Ending(c)
    BY <2>3, <1>2, <1>3, EndingTypes DEF Untouched, user, inbox
  <2>4. CASE Knocking(c)
    <3>1. /\ \E n : dst_usr' = [dst_usr EXCEPT ![c] = n]
          /\ \E x : toServer' = [toServer EXCEPT ![c] = x]
      BY <2>4, KnockingTypes
    <3>2. state' = [state EXCEPT ![c] = "knock"] /\ UNCHANGED <<username, password, inbox, toClient>>
      BY <2>4, KnockingTypes
    <3>3. UNCHANGED <<itsig, receiver>>
      BY <3>2 DEF inbox
    <3> QED BY <3>1, <3>2, <3>3, <1>2, <1>3 DEF Untouched
  <2>5. CASE Moving(c)
    <3>1. toServer' = toServer \/ \E x : toServer' = [toServer EXCEPT ![c] = x]
      BY <2>5, MovingTypes
    <3>2. (\E v : state' = [state EXCEPT ![c] = v]) /\ UNCHANGED <<user, inbox, toClient>>
      BY <2>5, MovingTypes
    <3>3. UNCHANGED <<username, password, dst_usr, itsig, receiver>>
      BY <3>2 DEF user, inbox
    <3> QED BY <3>1, <3>2, <3>3, <1>2, <1>3 DEF Untouched
  <2>6. CASE FriendIs(c)
    BY <2>6, <1>2, <1>3, FriendIsTypes DEF Untouched, user, wire
  <2>7. CASE ReceiveThread(c)
    BY <2>7, <1>2, <1>3, ReceivingTypes DEF Untouched, user
  <2> QED BY <1>4, <2>1, <2>2, <2>3, <2>4, <2>5, <2>6, <2>7
<1> QED BY <1>1, <1>4, ClientSteps
-----------------------------------------------------------------------------
(* Requests. *)

LEMMA TailKeeps ==
  ASSUME NEW S, NEW s \in Seq(S), s # <<>>
  PROVE  /\ Tail(s) \in Seq(S) /\ Len(Tail(s)) = Len(s) - 1 /\ Len(s) \in Nat
         /\ Head(s) = s[1] /\ 1 \in DOMAIN s
         /\ \A k \in DOMAIN Tail(s) : k + 1 \in DOMAIN s /\ k \in Nat /\ Tail(s)[k] = s[k + 1]
         /\ LastOnly(s) => LastOnly(Tail(s)) /\ (Head(s).tag \in Final => Tail(s) = <<>>)
         /\ \A T : Free(s, T) => Free(Tail(s), T)
<1>1. /\ Tail(s) \in Seq(S) /\ Len(Tail(s)) = Len(s) - 1
      /\ \A k \in 1 .. Len(Tail(s)) : Tail(s)[k] = s[k + 1]
  BY HeadTailProperties
<1>2. Len(s) \in Nat \ {0} /\ DOMAIN s = 1 .. Len(s) /\ DOMAIN Tail(s) = 1 .. Len(Tail(s))
  BY <1>1, EmptySeq, LenProperties
<1>3. Head(s) = s[1] /\ 1 \in DOMAIN s
  BY <1>2
<1>4. \A k \in DOMAIN Tail(s) : k + 1 \in DOMAIN s /\ k \in Nat /\ Tail(s)[k] = s[k + 1]
  BY <1>1, <1>2
<1>5. ASSUME LastOnly(s) PROVE LastOnly(Tail(s))
  <2> SUFFICES ASSUME NEW k \in DOMAIN Tail(s), Tail(s)[k].tag \in Final PROVE k = Len(Tail(s))
    BY DEF LastOnly
  <2>1. k + 1 = Len(s)
    BY <1>4, <1>5 DEF LastOnly
  <2> QED BY <2>1, <1>1, <1>2, <1>4
<1>6. ASSUME LastOnly(s), Head(s).tag \in Final PROVE Tail(s) = <<>>
  <2>1. Len(s) = 1
    BY <1>3, <1>6 DEF LastOnly
  <2>2. Len(Tail(s)) = 0
    BY <2>1, <1>1
  <2> QED BY <2>2, <1>1, EmptySeq
<1>7. \A T : Free(s, T) => Free(Tail(s), T)
  BY <1>4 DEF Free
<1> QED BY <1>1, <1>2, <1>3, <1>4, <1>5, <1>6, <1>7

LEMMA EndsKeep ==
  ASSUME NEW S, NEW s \in Seq(S), NEW R, NEW t \in Seq(R), Ends(t, s)
  PROVE  /\ \A k \in DOMAIN t : \/ t[k] \in {Rest, Escape}
                                \/ \E j \in DOMAIN s : t[k] = s[j] /\ Len(s) - j = Len(t) - k
         /\ LastOnly(s) => LastOnly(t)
         /\ Free(s, Final) => Free(t, Final)
<1>1. /\ Len(s) \in Nat /\ DOMAIN s = 1 .. Len(s) /\ Len(t) \in Nat /\ DOMAIN t = 1 .. Len(t)
      /\ Len(t) <= Len(s)
  BY LenProperties DEF Ends
<1>2. ASSUME NEW k \in DOMAIN t, t[k] \notin {Rest, Escape}
      PROVE  \E j \in DOMAIN s : t[k] = s[j] /\ Len(s) - j = Len(t) - k
  <2> DEFINE j == k + (Len(s) - Len(t))
  <2>1. t[k] = s[j]
    BY <1>1, <1>2 DEF Ends
  <2>2. j \in DOMAIN s /\ Len(s) - j = Len(t) - k
    BY <1>1
  <2> QED BY <2>1, <2>2
<1>3. Rest.tag \notin Final /\ Escape.tag \notin Final
  BY DEF Rest, Escape, Tag, Command, Final
<1>4. ASSUME LastOnly(s) PROVE LastOnly(t)
  <2> SUFFICES ASSUME NEW k \in DOMAIN t, t[k].tag \in Final PROVE k = Len(t)
    BY DEF LastOnly
  <2>1. PICK j \in DOMAIN s : t[k] = s[j] /\ Len(s) - j = Len(t) - k
    BY <1>2, <1>3
  <2>2. j = Len(s)
    BY <2>1, <1>4 DEF LastOnly
  <2> QED BY <2>1, <2>2, <1>1
<1>5. ASSUME Free(s, Final) PROVE Free(t, Final)
  <2> SUFFICES ASSUME NEW k \in DOMAIN t, t[k].tag \in Final PROVE FALSE
    BY DEF Free
  <2>1. PICK j \in DOMAIN s : t[k] = s[j]
    BY <1>2, <1>3
  <2> QED BY <2>1, <1>5 DEF Free
<1> QED BY <1>2, <1>4, <1>5

LEMMA ConcatKeeps ==
  ASSUME NEW S, NEW s \in Seq(S), NEW R, NEW t \in Seq(R)
  PROVE  /\ s \o t \in Seq(S \cup R) /\ Len(s \o t) = Len(s) + Len(t) /\ Len(s) \in Nat /\ Len(t) \in Nat
         /\ DOMAIN (s \o t) = 1 .. Len(s) + Len(t)
         /\ \A k \in DOMAIN (s \o t) :
              \/ k \in DOMAIN s /\ (s \o t)[k] = s[k]
              \/ k > Len(s) /\ k - Len(s) \in DOMAIN t /\ (s \o t)[k] = t[k - Len(s)]
         /\ \A T : Free(s, T) /\ Free(t, T) => Free(s \o t, T)
         /\ Free(s, Final) /\ LastOnly(t) => LastOnly(s \o t)
<1>1. s \in Seq(S \cup R) /\ t \in Seq(S \cup R)
  BY SeqMonotonic
<1>2. /\ Len(s) \in Nat /\ DOMAIN s = 1 .. Len(s) /\ Len(t) \in Nat /\ DOMAIN t = 1 .. Len(t)
  BY LenProperties
<1>3. /\ s \o t \in Seq(S \cup R) /\ Len(s \o t) = Len(s) + Len(t)
      /\ \A k \in 1 .. Len(s) + Len(t) : (s \o t)[k] = IF k <= Len(s) THEN s[k] ELSE t[k - Len(s)]
  BY <1>1, ConcatProperties
<1>4. DOMAIN (s \o t) = 1 .. Len(s) + Len(t)
  BY <1>3, LenProperties
<1>5. ASSUME NEW k \in DOMAIN (s \o t)
      PROVE  \/ k \in DOMAIN s /\ (s \o t)[k] = s[k]
             \/ k > Len(s) /\ k - Len(s) \in DOMAIN t /\ (s \o t)[k] = t[k - Len(s)]
  <2>1. CASE k <= Len(s)
    BY <2>1, <1>2, <1>3, <1>4
  <2>2. CASE k > Len(s)
    <3>1. k - Len(s) \in 1 .. Len(t)
      BY <2>2, <1>2, <1>4
    <3>2. (s \o t)[k] = t[k - Len(s)]
      BY <2>2, <1>2, <1>3, <1>4
    <3> QED BY <3>1, <3>2, <2>2, <1>2
  <2> QED BY <2>1, <2>2, <1>2, <1>4
<1>6. \A T : Free(s, T) /\ Free(t, T) => Free(s \o t, T)
  BY <1>5 DEF Free
<1>7. ASSUME Free(s, Final), LastOnly(t) PROVE LastOnly(s \o t)
  <2> SUFFICES ASSUME NEW k \in DOMAIN (s \o t), (s \o t)[k].tag \in Final PROVE k = Len(s \o t)
    BY DEF LastOnly
  <2>1. k - Len(s) \in DOMAIN t /\ (s \o t)[k] = t[k - Len(s)]
    BY <1>5, <1>7 DEF Free
  <2>2. k - Len(s) = Len(t)
    BY <2>1, <1>7 DEF LastOnly
  <2> QED BY <2>2, <1>2, <1>3, <1>4
<1> QED BY <1>2, <1>3, <1>4, <1>5, <1>6, <1>7

\* The client takes the one answer there is.
LEMMA OneAnswer ==
  ASSUME NEW S, NEW s \in Seq(S), s # <<>>, OneOnly(s)
  PROVE  OneOnly(Tail(s)) /\ (Head(s).tag \in Answers => Free(Tail(s), Answers))
<1>1. Head(s) = s[1] /\ 1 \in DOMAIN s
  BY TailKeeps
<1>2. \A k \in DOMAIN Tail(s) : k + 1 \in DOMAIN s /\ k \in Nat /\ Tail(s)[k] = s[k + 1] /\ k # 0
  <2>1. Tail(s) \in Seq(S)
    BY TailKeeps
  <2>2. DOMAIN Tail(s) = 1 .. Len(Tail(s)) /\ Len(Tail(s)) \in Nat
    BY <2>1, LenProperties
  <2> QED BY <2>2, TailKeeps
<1>3. OneOnly(Tail(s))
  <2> SUFFICES ASSUME NEW j \in DOMAIN Tail(s), NEW k \in DOMAIN Tail(s),
                      Tail(s)[j].tag \in Answers, Tail(s)[k].tag \in Answers
               PROVE  j = k
    BY DEF OneOnly
  <2>1. j + 1 = k + 1
    BY <1>2 DEF OneOnly
  <2> QED BY <2>1, <1>2
<1>4. ASSUME Head(s).tag \in Answers PROVE Free(Tail(s), Answers)
  <2> SUFFICES ASSUME NEW k \in DOMAIN Tail(s), Tail(s)[k].tag \in Answers PROVE FALSE
    BY DEF Free
  <2>1. k + 1 = 1
    BY <1>1, <1>2, <1>4 DEF OneOnly
  <2> QED BY <2>1, <1>2
<1> QED BY <1>3, <1>4

\* What a connection has of the types.
LEMMA Parts ==
  ASSUME Types, NEW c \in Conn
  PROVE  /\ toServer[c] \in Seq(Asked) /\ toClient[c] \in Seq(Told \cup [tag : Answers])
         /\ handler[c] \in HandlerType /\ handler[c].todo \in Seq(Asked \cup {Escape})
         /\ handler[c].acc \in Person
         /\ itsig[c] \in Seq({"user-online", "user-offline"})
         /\ state[c] \in Offered \cup InSession \cup {"exited"}
         /\ c \in closed <=> state[c] = "exited"
BY DEF Types, WireTypes, ThreadTypes, UserTypes, InboxTypes, HandlerType

\* Of a client that has ended only its handler is left.
LEMMA Gone == ASSUME NEW c \in Conn, state[c] = "exited", StageInv(c) PROVE ConnInv(c)
BY DEF ConnInv, RequestInv, KnockInv, OfferInv, SessionInv, Offered, InSession

LEMMA GoneNext == ASSUME NEW c \in Conn, state'[c] = "exited", StageInv(c)' PROVE ConnInv(c)'
BY DEF ConnInv, RequestInv, KnockInv, OfferInv, SessionInv, Offered, InSession
-----------------------------------------------------------------------------
(* The handler of the connection. *)

LEMMA ReadConn ==
  ASSUME NEW c \in Conn, Types, ConnInv(c), Read(c), UNCHANGED client PROVE ConnInv(c)'
<1> DEFINE s == toServer[c]
<1>1. PICK k \in 0 .. Len(toServer[c]), got \in Seq(Asked), todo \in Seq(Asked \cup {Escape}),
           left \in Seq(Asked) :
           /\ got = SubSeq(toServer[c], 1, k) /\ Len(got) = k /\ todo = Parsed(got)
           /\ \A j \in 1 .. k : got[j] = toServer[c][j]
           /\ Ends(todo, got)
           /\ Len(left) <= Len(toServer[c]) - k /\ Ends(left, toServer[c])
           /\ handler' = [handler EXCEPT ![c] = [handler[c] EXCEPT !.buf = got, !.todo = todo]]
           /\ toServer' = [toServer EXCEPT ![c] = left]
  BY ReadSplits DEF Types
<1>2. UNCHANGED <<accounts, delivery, toClient>> /\ s # <<>> /\ handler[c].todo = <<>>
  BY DEF Read
<1>3. UNCHANGED <<state, username, password, dst_usr, receiver, itsig>>
  BY DEF client, user, inbox
<1>4. s \in Seq(Asked) /\ Len(s) \in Nat /\ DOMAIN s = 1 .. Len(s)
  BY Parts, LenProperties
<1>5. /\ toServer'[c] = left /\ handler'[c].todo = todo
      /\ handler'[c].continuityIndex = handler[c].continuityIndex
      /\ handler'[c].islogin = handler[c].islogin /\ handler'[c].acc = handler[c].acc
      /\ handler'[c].istonextstage = handler[c].istonextstage
  BY <1>1 DEF Types, WireTypes, ThreadTypes, HandlerType
<1>6. DOMAIN got = 1 .. k /\ \A j \in DOMAIN got : j \in DOMAIN s /\ got[j] = s[j]
  <2>1. DOMAIN got = 1 .. k
    BY <1>1, LenProperties
  <2> QED BY <2>1, <1>1, <1>4
<1>7. \A j \in DOMAIN todo : todo[j] \in {Rest, Escape} \/ \E i \in DOMAIN s : todo[j] = s[i]
  <2>0. got \in Seq(Asked) /\ todo \in Seq(Asked \cup {Escape}) /\ Ends(todo, got)
    BY <1>1
  <2>1. \A j \in DOMAIN todo :
          todo[j] \in {Rest, Escape} \/ \E i \in DOMAIN got : todo[j] = got[i] /\ Len(got) - i = Len(todo) - j
    BY <2>0, EndsKeep
  <2> HIDE DEF s
  <2> QED BY <2>1, <1>6
<1>8. \A j \in DOMAIN left : left[j] \in {Rest, Escape} \/ \E i \in DOMAIN s : left[j] = s[i]
  <2>1. s \in Seq(Asked) /\ left \in Seq(Asked) /\ Ends(left, s)
    BY <1>1, <1>4
  <2> HIDE DEF s
  <2>2. \A j \in DOMAIN left :
          left[j] \in {Rest, Escape} \/ \E i \in DOMAIN s : left[j] = s[i] /\ Len(s) - i = Len(left) - j
    BY <2>1, EndsKeep
  <2> QED BY <2>2
<1>9. Free(s, Final) => Free(left, Final) /\ Free(todo, Final)
  <2>1. Rest.tag \notin Final /\ Escape.tag \notin Final
    BY DEF Rest, Escape, Tag, Command, Final
  <2> QED BY <2>1, <1>7, <1>8 DEF Free
<1>10. StageInv(c)'
  BY <1>2, <1>5 DEF ConnInv, StageInv
<1>11. RequestInv(c)'
  <2> SUFFICES ASSUME state[c] # "exited" PROVE RequestInv(c)'
    BY <1>3 DEF RequestInv
  <2>1. LastOnly(s)
    BY DEF ConnInv, RequestInv
  <2>2. LastOnly(left)
    BY <2>1, <1>1, <1>4, EndsKeep
  <2>3. LastOnly(got) /\ (k < Len(s) => Free(got, Final))
    <3>1. ASSUME NEW j \in DOMAIN got, got[j].tag \in Final PROVE j = k /\ k = Len(s)
      <4>1. j = Len(s)
        BY <3>1, <2>1, <1>6 DEF LastOnly
      <4>2. j \in 1 .. k /\ k \in 0 .. Len(s)
        BY <1>6, <1>1
      <4> QED BY <4>1, <4>2, <1>4
    <3>2. LastOnly(got)
      BY <3>1, <1>1 DEF LastOnly
    <3>3. k < Len(s) => Free(got, Final)
      BY <3>1, <1>1, <1>4 DEF Free
    <3> QED BY <3>2, <3>3
  <2>4. LastOnly(todo) /\ (Free(got, Final) => Free(todo, Final))
    BY <2>3, <1>1, EndsKeep
  <2>5. left = <<>> \/ Free(todo, Final)
    <3>1. left # <<>> => Len(left) \in Nat /\ Len(left) # 0
      BY <1>1, EmptySeq, LenProperties
    <3>2. left # <<>> => k < Len(s)
      BY <3>1, <1>1, <1>4
    <3> QED BY <3>2, <2>3, <2>4
  <2> QED BY <2>2, <2>4, <2>5, <1>2, <1>3, <1>5, <1>9 DEF ConnInv, RequestInv
<1>12. Rest.tag # "knock" /\ Escape.tag # "knock" /\ {Rest, Escape} \subseteq Entered(c)
  BY DEF Rest, Escape, Tag, Command, Entered
<1>13. KnockInv(c)'
  <2>1. UNCHANGED online
    BY <1>2 DEF accounts
  <2> QED BY <2>1, <1>2, <1>3, <1>5, <1>7, <1>8, <1>12 DEF ConnInv, KnockInv
<1>14. OfferInv(c)'
  <2> SUFFICES ASSUME state[c] \in Offered PROVE OfferInv(c)'
    BY <1>3 DEF OfferInv
  <2>1. state[c] # "offline" /\ toClient[c] = <<>> /\ receiver[c].state = "off"
    BY <1>2 DEF ConnInv, OfferInv
  <2>2. Entered(c)' = Entered(c)
    BY <1>3 DEF Entered
  <2>3. /\ \A j \in DOMAIN left : left[j] \in Entered(c)
        /\ \A j \in DOMAIN todo : todo[j] \in Entered(c)
    BY <1>7, <1>8, <1>12 DEF ConnInv, OfferInv
  <2>4. ~handler[c].istonextstage /\ (handler[c].continuityIndex = "password" => handler[c].acc = username[c])
    BY <2>1 DEF ConnInv, OfferInv
  <2> QED BY <2>1, <2>2, <2>3, <2>4, <1>2, <1>3, <1>5 DEF OfferInv
<1>15. SessionInv(c)'
  BY <1>2, <1>3, <1>5 DEF ConnInv, SessionInv, Owned, accounts
<1> QED BY <1>10, <1>11, <1>13, <1>14, <1>15 DEF ConnInv

LEMMA ReadEndConn ==
  ASSUME NEW c \in Conn, Types, ConnInv(c), ReadEnd(c), UNCHANGED client PROVE ConnInv(c)'
<1>1. state'[c] = "exited"
  BY Parts DEF ReadEnd, client
<1>2. UNCHANGED delivery /\ handler' = [handler EXCEPT ![c].todo = Parsed(handler[c].buf)]
  BY DEF ReadEnd
<1>3. StageInv(c)'
  BY <1>2, Parts DEF ConnInv, StageInv, Types, ThreadTypes, HandlerType
<1> QED BY <1>1, <1>3, GoneNext

\* A command leaves the purpose of a handler and its delivery thread sound.
LEMMA TakingStage == ASSUME NEW c \in Conn, Types, StageInv(c), Taking(c) PROVE StageInv(c)'
<1> DEFINE h == handler[c]
<1>1. h.todo # <<>>
  BY TakingStep
<1>2. h \in HandlerType /\ Now(c) \in Asked \cup {Escape} /\ handler \in [Conn -> HandlerType]
  BY <1>1, NowType DEF Types, ThreadTypes
<1>3. delivery \in [Conn -> [state : {"none", "starting", "on"}, intact : BOOLEAN, acc : Person]]
  BY DEF Types, ThreadTypes
<1>4. delivery'[c] = delivery[c] \/ LogIn(c) \/ (h.istonextstage \/ Now(c).tag = "filedata")
  BY DEF Taking, TakeTag, TakeUnexpected, TakeUsername, SignUp, LogIn, RefuseLogin, TakeTarget,
         TakeMessage, TakeFileData, TakeKnock, TakeOther, Online
<1>5. \/ delivery'[c].state = delivery[c].state /\ delivery'[c].acc = delivery[c].acc
      \/ LogIn(c)
  BY <1>3 DEF Taking, TakeTag, TakeUnexpected, TakeUsername, SignUp, LogIn, RefuseLogin, TakeTarget,
              TakeMessage, TakeFileData, TakeKnock, TakeOther, Online
<1>6. CASE TakeTag(c)
  <2>1. /\ handler'[c].istonextstage = h.istonextstage /\ handler'[c].acc = h.acc /\ ~h.istonextstage
        /\ \/ handler'[c].continuityIndex = "username" /\ handler'[c].islogin \in {0, 1}
           \/ handler'[c].continuityIndex = "none"
    <3>1. ~h.istonextstage
      BY <1>6 DEF TakeTag, Offline
    <3>2. CASE Step(c, [h EXCEPT !.islogin = IF Now(c).tag = "login" THEN 1 ELSE 0,
                                 !.continuityIndex = "username"])
      BY <1>2, <3>1, <3>2 DEF Step, HandlerType
    <3>3. CASE Step(c, [h EXCEPT !.islogin = 1126]) /\ h.continuityIndex = "none"
      BY <1>2, <3>1, <3>3 DEF Step, HandlerType
    <3> QED BY <1>6, <3>2, <3>3 DEF TakeTag
  <2>2. ~LogIn(c)
    BY <1>6 DEF TakeTag, LogIn, Expected
  <2> QED BY <2>1, <2>2, <1>5 DEF StageInv
<1>7. CASE TakeUnexpected(c)
  <2>1. ~Expected(c)
    BY <1>7 DEF TakeUnexpected, Expected, StageInv
  <2>2. /\ handler'[c].istonextstage = h.istonextstage /\ handler'[c].acc = h.acc
        /\ handler'[c].continuityIndex = "none"
    BY <2>1, <1>2, <1>7 DEF TakeUnexpected, Step, HandlerType
  <2>3. ~LogIn(c)
    BY <2>1 DEF LogIn
  <2> QED BY <2>2, <2>3, <1>5 DEF StageInv
<1>8. CASE TakeUsername(c)
  <2>1. /\ handler'[c].istonextstage = h.istonextstage /\ handler'[c].acc = Now(c).arg /\ ~h.istonextstage
        /\ handler'[c].continuityIndex = "password" /\ handler'[c].islogin = h.islogin
        /\ h.continuityIndex = "username"
    BY <1>2, <1>8 DEF TakeUsername, Step, Expected, Offline, HandlerType
  <2>2. Now(c).arg \in Name
    BY <1>2, <1>8, AskedParts DEF TakeUsername, Expected, TwoArguments, Person
  <2>3. ~LogIn(c)
    BY <1>8 DEF TakeUsername, LogIn
  <2> QED BY <2>1, <2>2, <2>3, <1>5 DEF StageInv
<1>9. CASE SignUp(c) \/ RefuseLogin(c)
  <2>1. /\ handler'[c].istonextstage = h.istonextstage /\ handler'[c].acc = h.acc
        /\ handler'[c].continuityIndex = "none" /\ delivery' = delivery
    <3>1. delivery' = delivery
      BY <1>9 DEF SignUp, RefuseLogin
    <3>2. CASE Step(c, [h EXCEPT !.continuityIndex = "none"])
      BY <1>2, <3>1, <3>2 DEF Step, HandlerType
    <3>3. CASE Step(c, [h EXCEPT !.continuityIndex = "none", !.islogin = 0])
      BY <1>2, <3>1, <3>3 DEF Step, HandlerType
    <3> QED BY <1>9, <3>2, <3>3 DEF SignUp, RefuseLogin
  <2> QED BY <2>1 DEF StageInv
<1>10. CASE LogIn(c)
  <2>1. /\ handler'[c].istonextstage /\ handler'[c].acc = h.acc /\ handler'[c].continuityIndex = "none"
        /\ delivery'[c].acc = None /\ h.continuityIndex = "password"
    BY <1>2, <1>3, <1>10 DEF LogIn, Step, Expected, HandlerType
  <2> QED BY <2>1 DEF StageInv
<1>11. CASE TakeFileData(c)
  <2>1. /\ handler'[c].istonextstage = h.istonextstage /\ handler'[c].acc = h.acc
        /\ handler'[c].continuityIndex = "none"
    BY <1>2, <1>11 DEF TakeFileData, Step, HandlerType
  <2>2. ~LogIn(c)
    BY <1>11 DEF TakeFileData, LogIn
  <2> QED BY <2>1, <2>2, <1>5 DEF StageInv
<1>12. CASE TakeTarget(c) \/ TakeMessage(c) \/ TakeKnock(c) \/ TakeOther(c)
  <2>1. /\ handler'[c].istonextstage = h.istonextstage /\ handler'[c].acc = h.acc
        /\ handler'[c].continuityIndex = h.continuityIndex /\ handler'[c].islogin = h.islogin
    <3>1. CASE Step(c, h)
      BY <1>2, <3>1 DEF Step, HandlerType
    <3>2. CASE Step(c, [h EXCEPT !.toWhoseAcc = Now(c).arg])
      BY <1>2, <3>2 DEF Step, HandlerType
    <3> QED BY <1>12, <3>1, <3>2 DEF TakeTarget, TakeMessage, TakeKnock, TakeOther
  <2>2. h.istonextstage \/ Now(c).tag = "filedata"
    BY <1>12 DEF TakeTarget, TakeMessage, TakeKnock, TakeOther, Online
  <2>3. ~LogIn(c)
    BY <2>2 DEF LogIn, Expected, Offline
  <2> QED BY <2>1, <2>3, <1>5 DEF StageInv
<1> QED BY <1>6, <1>7, <1>8, <1>9, <1>10, <1>11, <1>12 DEF Taking

\* The answer to a command, if it has one.
Verdict == {"signup-good", "signup-badU", "login-good", "login-badU", "login-badP"}

LEMMA TakingAnswers ==
  ASSUME NEW c \in Conn, Types, StageInv(c), Taking(c), c \notin closed
  PROVE  \/ toClient' = toClient
         \/ \E t \in Answers :
              /\ toClient' = [toClient EXCEPT ![c] = @ \o <<Tag(t)>>]
              /\ \/ Now(c).tag = "password" /\ t \in Verdict
                 \/ /\ Now(c).tag = "knock" /\ online' = online
                    /\ t = IF Now(c).arg \in online THEN "user-online" ELSE "user-offline"
<1>1. ASSUME NEW t \in Answers, ServerWrites(c, <<Tag(t)>>)
      PROVE  toClient' = [toClient EXCEPT ![c] = @ \o <<Tag(t)>>]
  BY <1>1 DEF ServerWrites, Types, WireTypes
<1>2. CASE SignUp(c) \/ LogIn(c) \/ RefuseLogin(c)
  <2>1. Now(c).tag = "password" /\ (toClient' = toClient \/ \E t \in Verdict : ServerWrites(c, <<Tag(t)>>))
    BY <1>2 DEF SignUp, LogIn, RefuseLogin, Verdict
  <2> QED BY <2>1, <1>1 DEF Verdict, Answers
<1>3. CASE TakeKnock(c)
  <2> DEFINE t == IF Now(c).arg \in online THEN "user-online" ELSE "user-offline"
  <2>1. Now(c).tag = "knock" /\ online' = online /\ ServerWrites(c, <<Tag(t)>>) /\ t \in Answers
    BY <1>3 DEF TakeKnock, accounts, Answers
  <2> QED BY <2>1, <1>1
<1> QED BY <1>2, <1>3
    DEF Taking, TakeTag, TakeUnexpected, TakeUsername, TakeTarget, TakeMessage, TakeFileData, TakeOther, wire

LEMMA TakingRequest ==
  ASSUME NEW c \in Conn, Types, ConnInv(c), Taking(c), UNCHANGED client
  PROVE  RequestInv(c)' /\ KnockInv(c)'
<1> DEFINE todo == handler[c].todo
           old == toClient[c]
<1>1. UNCHANGED <<state, dst_usr, itsig>> /\ StageInv(c)
  BY DEF client, user, inbox, ConnInv
<1>2. todo # <<>> /\ todo \in Seq(Asked \cup {Escape}) /\ old \in Seq(Told \cup [tag : Answers])
  BY <1>1, TakingStep, Parts
<1>3. toServer' = toServer /\ online \subseteq online'
  BY <1>1, TakingWire, TakingAccounts
<1>4. handler'[c].todo = Tail(todo)
  <2>1. PICK new \in HandlerType : new.todo = handler[c].todo /\ new.buf = handler[c].buf /\ Step(c, new)
    BY <1>1, TakingStep
  <2>2. handler'[c] = [new EXCEPT !.todo = Tail(todo)]
    BY <1>2, <2>1, StepType DEF Types
  <2> QED BY <2>1, <2>2 DEF HandlerType
<1>5. /\ Now(c) = todo[1] /\ 1 \in DOMAIN todo
      /\ \A k \in DOMAIN Tail(todo) : k + 1 \in DOMAIN todo /\ Tail(todo)[k] = todo[k + 1]
      /\ LastOnly(todo) => LastOnly(Tail(todo)) /\ (Now(c).tag \in Final => Tail(todo) = <<>>)
      /\ Free(todo, Final) => Free(Tail(todo), Final)
  <2> HIDE DEF todo
  <2>1. Head(todo) = Now(c)
    BY DEF Now, todo
  <2> QED BY <1>2, <2>1, TailKeeps
<1> SUFFICES ASSUME state[c] # "exited" PROVE RequestInv(c)' /\ KnockInv(c)'
  BY <1>1 DEF RequestInv, KnockInv
<1>6. c \notin closed
  BY Parts
<1>7. RequestInv(c) /\ KnockInv(c)
  BY DEF ConnInv
<1> HIDE DEF todo, old
<1>8. CASE toClient' = toClient
  <2>1. RequestInv(c)'
    BY <1>1, <1>3, <1>4, <1>5, <1>7, <1>8 DEF RequestInv, todo
  <2>2. KnockInv(c)'
    BY <1>1, <1>3, <1>4, <1>5, <1>7, <1>8 DEF KnockInv, todo
  <2> QED BY <2>1, <2>2
<1>9. ASSUME NEW t \in Answers, toClient' = [toClient EXCEPT ![c] = @ \o <<Tag(t)>>],
             \/ Now(c).tag = "password" /\ t \in Verdict
             \/ /\ Now(c).tag = "knock" /\ online' = online
                /\ t = IF Now(c).arg \in online THEN "user-online" ELSE "user-offline"
      PROVE  RequestInv(c)' /\ KnockInv(c)'
  <2> DEFINE new == old \o <<Tag(t)>>
  <2>1. toClient'[c] = new
    BY <1>9 DEF Types, WireTypes, old
  <2>2. Now(c).tag \in Final
    BY <1>9 DEF Final
  <2>3. ~Free(todo, Final) /\ LastOnly(todo) /\ Tail(todo) = <<>>
    BY <1>5, <1>7, <2>2 DEF Free, RequestInv, todo
  <2>4. toServer[c] = <<>> /\ Free(old, Answers) /\ itsig[c] = <<>> /\ state[c] \in Awaiting
    BY <1>7, <2>3 DEF RequestInv, todo, old
  <2>5. <<Tag(t)>> \in Seq([tag : Answers]) /\ Len(<<Tag(t)>>) = 1 /\ <<Tag(t)>>[1] = Tag(t)
    BY DEF Tag
  <2>6. /\ DOMAIN new = 1 .. Len(old) + 1 /\ Len(old) \in Nat
        /\ \A k \in DOMAIN new : (k \in DOMAIN old /\ new[k] = old[k]) \/ (k = Len(old) + 1 /\ new[k] = Tag(t))
    <3>1. /\ DOMAIN new = 1 .. Len(old) + Len(<<Tag(t)>>) /\ Len(old) \in Nat
          /\ \A k \in DOMAIN new :
               \/ k \in DOMAIN old /\ new[k] = old[k]
               \/ k > Len(old) /\ k - Len(old) \in DOMAIN <<Tag(t)>> /\ new[k] = <<Tag(t)>>[k - Len(old)]
      BY <1>2, <2>5, ConcatKeeps
    <3>2. DOMAIN <<Tag(t)>> = {1}
      OBVIOUS
    <3>3. ASSUME NEW k \in DOMAIN new, k - Len(old) \in {1} PROVE k = Len(old) + 1
      BY <3>1, <3>3, <2>5
    <3> HIDE DEF new
    <3> QED BY <3>1, <3>2, <3>3, <2>5
  <2> HIDE DEF new
  <2>7. \A k \in DOMAIN new : new[k].tag \in Answers => k = Len(old) + 1 /\ new[k] = Tag(t)
    BY <2>4, <2>6 DEF Free
  <2>8. RequestInv(c)'
    <3>1. OneOnly(new)
      BY <2>7 DEF OneOnly
    <3>2. LastOnly(<<>>) /\ Free(<<>>, Final) /\ Len(<<>>) = 0
      BY DEF LastOnly, Free
    <3>3. itsig'[c] = <<>> /\ toServer'[c] = <<>> /\ handler'[c].todo = <<>> /\ state'[c] \in Awaiting
      BY <1>1, <1>3, <1>4, <2>3, <2>4
    <3> QED BY <2>1, <3>1, <3>2, <3>3 DEF RequestInv
  <2>9. KnockInv(c)'
    <3> SUFFICES ASSUME state[c] = "knock" PROVE KnockInv(c)'
      BY <1>1 DEF KnockInv
    <3>1. ASSUME NEW k \in DOMAIN new, new[k].tag = "user-online" PROVE dst_usr[c] \in online'
      <4>1. t = "user-online"
        BY <3>1, <2>7 DEF Answers, Tag
      <4>2. Now(c).tag = "knock" /\ Now(c).arg \in online
        BY <4>1, <1>9 DEF Verdict
      <4>3. Now(c).arg = dst_usr[c]
        BY <4>2, <1>5, <1>7 DEF KnockInv, todo
      <4> QED BY <4>2, <4>3, <1>3
    <3>2. ~Free(new, {"user-online"}) => dst_usr[c] \in online'
      BY <3>1 DEF Free
    <3>3. itsig'[c] = <<>> /\ toServer'[c] = <<>> /\ handler'[c].todo = <<>> /\ dst_usr'[c] = dst_usr[c]
      BY <1>1, <1>3, <1>4, <2>3, <2>4
    <3> QED BY <2>1, <3>2, <3>3 DEF KnockInv
  <2> QED BY <2>8, <2>9
<1> QED BY <1>1, <1>6, <1>8, <1>9, TakingAnswers

\* Once let in, a connection stays its account's.
LEMMA TakingOwned ==
  ASSUME NEW c \in Conn, Types, ConnInv(c), Taking(c), handler[c].istonextstage
  PROVE  handler'[c].istonextstage /\ handler'[c].acc = handler[c].acc
<1> DEFINE h == handler[c]
<1>1. h.todo # <<>> /\ StageInv(c)
  BY TakingStep DEF ConnInv
<1>2. h \in HandlerType /\ handler \in [Conn -> HandlerType]
  BY <1>1, NowType DEF Types, ThreadTypes
<1>3. TakeTarget(c) \/ TakeMessage(c) \/ TakeFileData(c) \/ TakeKnock(c) \/ TakeOther(c)
  BY DEF Taking, TakeTag, TakeUnexpected, TakeUsername, SignUp, LogIn, RefuseLogin, Expected, Offline
<1>4. CASE Step(c, h)
  BY <1>2, <1>4 DEF Step, HandlerType
<1>5. CASE TakeTarget(c)
  BY <1>2, <1>5 DEF TakeTarget, Step, HandlerType
<1>6. CASE TakeFileData(c)
  BY <1>2, <1>6 DEF TakeFileData, Step, HandlerType
<1> QED BY <1>3, <1>4, <1>5, <1>6 DEF TakeMessage, TakeKnock, TakeOther

\* The handler of a client that is not let in takes what the client entered.
LEMMA TakingOffer ==
  ASSUME NEW c \in Conn, Types, ConnInv(c), Taking(c), UNCHANGED client, state[c] \in Offered
  PROVE  OfferInv(c)'
<1> DEFINE h == handler[c]
<1>1. UNCHANGED <<state, username, password, receiver>> /\ StageInv(c) /\ OfferInv(c) /\ RequestInv(c)
  BY DEF client, user, inbox, ConnInv
<1>2. h.todo # <<>> /\ h.todo \in Seq(Asked \cup {Escape})
  BY <1>1, TakingStep, Parts
<1>3. h \in HandlerType /\ handler \in [Conn -> HandlerType]
  BY <1>2, NowType DEF Types, ThreadTypes
<1>4. toClient[c] = <<>> /\ ~h.istonextstage /\ state[c] # "offline" /\ receiver[c].state = "off"
  BY <1>1, <1>2 DEF OfferInv
<1>5. handler'[c].todo = Tail(h.todo)
  <2>1. PICK new \in HandlerType : new.todo = handler[c].todo /\ new.buf = handler[c].buf /\ Step(c, new)
    BY <1>1, TakingStep
  <2>2. handler'[c] = [new EXCEPT !.todo = Tail(h.todo)]
    BY <1>2, <2>1, StepType DEF Types
  <2> QED BY <2>1, <2>2 DEF HandlerType
<1>6. /\ Now(c) = h.todo[1] /\ 1 \in DOMAIN h.todo
      /\ \A k \in DOMAIN Tail(h.todo) : k + 1 \in DOMAIN h.todo /\ Tail(h.todo)[k] = h.todo[k + 1]
      /\ LastOnly(h.todo) => (Now(c).tag \in Final => Tail(h.todo) = <<>>)
  <2> DEFINE todo == h.todo
  <2>1. todo \in Seq(Asked \cup {Escape}) /\ todo # <<>> /\ Head(todo) = Now(c)
    BY <1>2 DEF Now
  <2> HIDE DEF todo
  <2>2. /\ Head(todo) = todo[1] /\ 1 \in DOMAIN todo
        /\ \A k \in DOMAIN Tail(todo) : k + 1 \in DOMAIN todo /\ Tail(todo)[k] = todo[k + 1]
        /\ LastOnly(todo) => (Head(todo).tag \in Final => Tail(todo) = <<>>)
    BY <2>1, TailKeeps
  <2> QED BY <2>1, <2>2 DEF todo
<1>7. Now(c) \in Entered(c) /\ Entered(c)' = Entered(c)
  BY <1>1, <1>6 DEF OfferInv, Entered
<1>8. /\ Now(c).tag # "filedata" /\ (Now(c).tag = "username" => Now(c).arg = username[c])
      /\ Now(c).tag = "password" => Now(c).arg = password[c]
  BY <1>7 DEF Entered, Tag, Command, Rest, Escape
<1>9. /\ toServer' = toServer
      /\ \A k \in DOMAIN toServer'[c] : toServer'[c][k] \in Entered(c)'
      /\ \A k \in DOMAIN handler'[c].todo : handler'[c].todo[k] \in Entered(c)'
  BY <1>1, <1>5, <1>6, <1>7, TakingWire DEF OfferInv
<1>10. c \notin closed /\ "exited" \notin Offered
  BY Parts DEF Offered, InSession
<1>11. Now(c).tag \in Final => toServer'[c] = <<>> /\ handler'[c].todo = <<>>
  BY <1>1, <1>5, <1>6, <1>9, <1>10 DEF RequestInv, Free
<1>12. CASE \/ toClient' = toClient /\ ~handler'[c].istonextstage
               /\ (handler'[c].continuityIndex = "password" => handler'[c].acc = username[c])
  BY <1>1, <1>4, <1>9, <1>12 DEF OfferInv
<1>13. ASSUME NEW t, toClient'[c] = <<Tag(t)>>, Now(c).tag \in Final, handler'[c].continuityIndex = "none",
              Granted(c)' \/ Refused(c)'
       PROVE  OfferInv(c)'
  BY <1>1, <1>4, <1>9, <1>11, <1>13 DEF OfferInv
<1>14. ASSUME NEW t, ServerWrites(c, <<Tag(t)>>) PROVE toClient'[c] = <<Tag(t)>>
  <2>1. toClient'[c] = <<>> \o <<Tag(t)>>
    BY <1>4, <1>10, <1>14 DEF ServerWrites, Types, WireTypes
  <2> QED BY <2>1
<1>15. CASE TakeTag(c)
  <2>1. toClient' = toClient
    BY <1>15 DEF TakeTag, wire
  <2>2. CASE Step(c, [h EXCEPT !.islogin = IF Now(c).tag = "login" THEN 1 ELSE 0,
                               !.continuityIndex = "username"])
    <3>1. ~handler'[c].istonextstage /\ handler'[c].continuityIndex = "username"
      BY <1>3, <1>4, <2>2 DEF Step, HandlerType
    <3> QED BY <3>1, <2>1, <1>12
  <2>3. CASE Step(c, [h EXCEPT !.islogin = 1126]) /\ h.continuityIndex = "none"
    <3>1. ~handler'[c].istonextstage /\ handler'[c].continuityIndex = "none"
      BY <1>3, <1>4, <2>3 DEF Step, HandlerType
    <3> QED BY <3>1, <2>1, <1>12
  <2> QED BY <1>15, <2>2, <2>3 DEF TakeTag
<1>16. CASE TakeUnexpected(c)
  <2>1. ~Expected(c)
    BY <1>1, <1>16 DEF TakeUnexpected, Expected, StageInv
  <2>2. Step(c, [h EXCEPT !.continuityIndex = "none"]) /\ toClient' = toClient
    <3>1. h.continuityIndex # "stuck"
      BY <1>3 DEF HandlerType
    <3>2. Step(c, [h EXCEPT !.continuityIndex = IF h.continuityIndex = "stuck" \/ Expected(c)
                                                THEN "stuck" ELSE "none"])
      BY <1>16 DEF TakeUnexpected
    <3> QED BY <1>16, <2>1, <3>1, <3>2 DEF TakeUnexpected, wire
  <2>3. ~handler'[c].istonextstage /\ handler'[c].continuityIndex = "none"
    BY <1>3, <1>4, <2>2 DEF Step, HandlerType
  <2> QED BY <2>2, <2>3, <1>12
<1>17. CASE TakeUsername(c)
  <2>1. /\ Step(c, [h EXCEPT !.acc = Now(c).arg, !.continuityIndex = "password"])
        /\ toClient' = toClient /\ Now(c).tag = "username"
    BY <1>17 DEF TakeUsername, wire
  <2>2. ~handler'[c].istonextstage /\ handler'[c].acc = username[c]
    BY <1>3, <1>4, <1>8, <2>1 DEF Step, HandlerType
  <2> QED BY <2>1, <2>2, <1>12
<1>18. CASE SignUp(c) \/ RefuseLogin(c)
  <2>1. ~handler'[c].istonextstage /\ handler'[c].continuityIndex = "none"
    <3>1. CASE Step(c, [h EXCEPT !.continuityIndex = "none"])
      BY <1>3, <1>4, <3>1 DEF Step, HandlerType
    <3>2. CASE Step(c, [h EXCEPT !.continuityIndex = "none", !.islogin = 0])
      BY <1>3, <1>4, <3>2 DEF Step, HandlerType
    <3> QED BY <1>18, <3>1, <3>2 DEF SignUp, RefuseLogin
  <2>2. /\ Now(c).tag \in Final
        /\ \/ toClient' = toClient
           \/ \E t \in {"signup-good", "signup-badU", "login-badU", "login-badP"} : ServerWrites(c, <<Tag(t)>>)
    BY <1>18 DEF SignUp, RefuseLogin, Final
  <2>3. ASSUME NEW t \in {"signup-good", "signup-badU", "login-badU", "login-badP"}, ServerWrites(c, <<Tag(t)>>)
        PROVE  OfferInv(c)'
    <3>1. toClient'[c] = <<Tag(t)>>
      BY <2>3, <1>14
    <3>2. Refused(c)'
      BY <2>1, <3>1 DEF Refused, Tag
    <3> QED BY <2>1, <2>2, <3>1, <3>2, <1>13
  <2> QED BY <2>1, <2>2, <2>3, <1>12
<1>19. CASE LogIn(c)
  <2>1. /\ Step(c, [h EXCEPT !.continuityIndex = "none", !.islogin = 0, !.istonextstage = TRUE])
        /\ ServerWrites(c, <<Tag("login-good")>>)
        /\ h.acc \in DOMAIN account /\ account[h.acc] = Now(c).arg /\ account' = account
        /\ Now(c).tag = "password" /\ h.continuityIndex = "password"
    BY <1>19 DEF LogIn, Expected
  <2>2. /\ handler'[c].istonextstage /\ handler'[c].continuityIndex = "none" /\ handler'[c].acc = h.acc
    BY <1>3, <2>1 DEF Step, HandlerType
  <2>3. h.acc = username[c]
    BY <2>1, <1>1 DEF OfferInv
  <2>4. toClient'[c] = <<Tag("login-good")>>
    BY <2>1, <1>14
  <2>5. Granted(c)'
    BY <2>1, <2>2, <2>3, <2>4, <1>1, <1>8 DEF Granted, Owned
  <2> QED BY <2>1, <2>2, <2>4, <2>5, <1>13 DEF Final
<1> QED BY <1>4, <1>8, <1>15, <1>16, <1>17, <1>18, <1>19
    DEF Taking, TakeTarget, TakeMessage, TakeFileData, TakeKnock, TakeOther, Online

LEMMA TakingConn ==
  ASSUME NEW c \in Conn, Types, ConnInv(c), Taking(c), UNCHANGED client PROVE ConnInv(c)'
<1>1. UNCHANGED <<state, username, password>> /\ StageInv(c)
  BY DEF client, user, ConnInv
<1>2. OfferInv(c)'
  BY <1>1, TakingOffer DEF OfferInv
<1>3. SessionInv(c)'
  <2> SUFFICES ASSUME state[c] \in InSession PROVE Owned(c)'
    BY <1>1 DEF SessionInv
  <2>1. Owned(c)
    BY DEF ConnInv, SessionInv
  <2>2. handler'[c].istonextstage /\ handler'[c].acc = handler[c].acc
    BY <2>1, TakingOwned DEF Owned
  <2>3. DOMAIN account \subseteq DOMAIN account' /\ \A n \in DOMAIN account : account'[n] = account[n]
    BY <1>1, TakingAccounts
  <2> QED BY <1>1, <2>1, <2>2, <2>3 DEF Owned
<1> QED BY <1>1, <1>2, <1>3, TakingStage, TakingRequest DEF ConnInv
-----------------------------------------------------------------------------
(* The delivery thread of the connection. *)

LEMMA StartConn ==
  ASSUME NEW c \in Conn, Types, ConnInv(c), StartDelivery(c), UNCHANGED client PROVE ConnInv(c)'
<1>1. UNCHANGED <<state, username, password, dst_usr, itsig, receiver, account, online, handler, toServer, toClient>>
  BY DEF StartDelivery, client, user, inbox, accounts, wire
<1>2. /\ delivery[c].state = "starting" /\ delivery'[c].state = "on"
      /\ delivery'[c].acc = handler[c].acc \/ delivery'[c].acc = None
  BY DEF StartDelivery, Types, ThreadTypes
<1>3. StageInv(c)'
  BY <1>1, <1>2 DEF ConnInv, StageInv
<1>4. RequestInv(c)' /\ KnockInv(c)'
  BY <1>1 DEF ConnInv, RequestInv, KnockInv
<1>5. OfferInv(c)' /\ SessionInv(c)'
  BY <1>1 DEF ConnInv, OfferInv, SessionInv, Entered, Granted, Refused, Owned
<1> QED BY <1>3, <1>4, <1>5 DEF ConnInv

\* A job is no answer, and reaches nobody who is not let in.
LEMMA DeliverConn ==
  ASSUME NEW c \in Conn, Types, ConnInv(c), Deliver(c), UNCHANGED client PROVE ConnInv(c)'
<1> DEFINE job == Head(queue[delivery[c].acc])
           old == toClient[c]
           new == old \o job
<1>1. UNCHANGED <<state, username, password, dst_usr, itsig, receiver, account, online, handler, delivery, toServer>>
  BY DEF Deliver, client, user, inbox
<1>2. StageInv(c)' /\ SessionInv(c)'
  BY <1>1 DEF ConnInv, StageInv, SessionInv, Owned
<1>3. CASE toClient' = toClient
  BY <1>1, <1>2, <1>3 DEF ConnInv, RequestInv, KnockInv, OfferInv, Entered, Granted, Refused, Owned
<1>4. CASE toClient' # toClient
  <2>1. job \in Seq(Told) /\ old \in Seq(Told \cup [tag : Answers]) /\ toClient'[c] = new
    <3>1. /\ job \in Seq(Told)
          /\ delivery[c].intact /\ c \notin closed => toClient' = [toClient EXCEPT ![c] = @ \o job]
          /\ ~delivery[c].intact \/ c \in closed => toClient' = toClient
      BY Delivered
    <3>2. toClient' = [toClient EXCEPT ![c] = @ \o job]
      BY <3>1, <1>4
    <3> HIDE DEF job
    <3>3. toClient'[c] = new
      BY <3>2 DEF Types, WireTypes
    <3> QED BY <3>1, <3>3, Parts
  <2> HIDE DEF job, old
  <2>2. \A k \in DOMAIN job : job[k].tag \notin Answers
    <3>1. \A k \in DOMAIN job : job[k] \in Told
      BY <2>1, ElementOfSeq
    <3> QED BY <3>1 DEF Told, Source, Said, Answers
  <2>3. /\ \A k \in DOMAIN new : \/ k \in DOMAIN old /\ new[k] = old[k]
                                 \/ k - Len(old) \in DOMAIN job /\ new[k] = job[k - Len(old)]
        /\ \A T : Free(old, T) /\ Free(job, T) => Free(new, T)
        /\ Len(new) = Len(old) + Len(job) /\ Len(old) \in Nat /\ Len(job) \in Nat
        /\ DOMAIN new = 1 .. Len(old) + Len(job)
    BY <2>1, ConcatKeeps
  <2> HIDE DEF new
  <2>4. \A k \in DOMAIN new : new[k].tag \in Answers => k \in DOMAIN old /\ new[k] = old[k]
    BY <2>2, <2>3
  <2>5. Free(job, Answers) /\ Free(job, {"user-online"})
    BY <2>2 DEF Free, Answers
  <2>6. /\ OneOnly(old) => OneOnly(new)
        /\ Free(old, Answers) <=> Free(new, Answers)
        /\ ~Free(new, {"user-online"}) => ~Free(old, {"user-online"})
    <3>1. OneOnly(old) => OneOnly(new)
      BY <2>4 DEF OneOnly
    <3>2. DOMAIN old = 1 .. Len(old)
      BY <2>1, LenProperties
    <3>3. \A k \in DOMAIN old : k \in DOMAIN new
      BY <3>2, <2>3
    <3>4. \A k \in DOMAIN old : new[k] = old[k]
      <4> SUFFICES ASSUME NEW k \in DOMAIN old PROVE new[k] = old[k]
        OBVIOUS
      <4>1. k - Len(old) \notin DOMAIN job
        <5>1. DOMAIN job = 1 .. Len(job)
          BY <2>1, LenProperties
        <5> QED BY <5>1, <3>2, <2>3
      <4> QED BY <4>1, <3>3, <2>3
    <3>5. Free(new, Answers) => Free(old, Answers)
      BY <3>3, <3>4 DEF Free
    <3> QED BY <3>1, <3>5, <2>3, <2>5
  <2>7. RequestInv(c)' /\ KnockInv(c)'
    BY <1>1, <2>1, <2>6 DEF ConnInv, RequestInv, KnockInv, old
  <2>8. OfferInv(c)'
    <3> SUFFICES ASSUME state[c] \in Offered PROVE OfferInv(c)'
      BY <1>1 DEF OfferInv
    <3>1. handler[c].istonextstage
      BY DEF Deliver, ConnInv, StageInv
    <3>2. OfferInv(c) /\ old # <<>> /\ Granted(c)
      BY <3>1 DEF ConnInv, OfferInv, Refused, old
    <3>3. new # <<>> /\ new[1] = old[1]
      <4>1. Len(old) # 0
        BY <3>2, <2>1, EmptySeq
      <4>2. 1 \in DOMAIN new /\ 1 - Len(old) \notin 1 .. Len(job)
        BY <4>1, <2>3
      <4>3. DOMAIN job = 1 .. Len(job)
        BY <2>1, LenProperties
      <4> QED BY <4>2, <4>3, <2>3
    <3>4. Granted(c)'
      BY <1>1, <2>1, <3>2, <3>3 DEF Granted, Owned, old
    <3> QED BY <1>1, <2>1, <3>2, <3>3, <3>4 DEF OfferInv, Entered, old
  <2> QED BY <1>2, <2>7, <2>8 DEF ConnInv
<1> QED BY <1>3, <1>4

LEMMA ServerConn ==
  ASSUME NEW c \in Conn, Types, ConnInv(c), Handling(c) \/ Delivering(c), UNCHANGED client PROVE ConnInv(c)'
BY ReadConn, ReadEndConn, TakingConn, StartConn, DeliverConn DEF Handling, Delivering, Taking
-----------------------------------------------------------------------------
(* The client of the connection. *)

\* Its handler and its delivery thread stay as they are.
LEMMA ClientStage ==
  ASSUME NEW c \in Conn, ConnInv(c), UNCHANGED server
  PROVE  /\ StageInv(c)' /\ handler' = handler
         /\ account' = account /\ online' = online /\ delivery' = delivery
BY DEF ConnInv, StageInv, server, accounts

LEMMA AskConn ==
  ASSUME NEW c \in Conn, Types, ConnInv(c), AskSignUp(c) \/ AskLogIn(c), UNCHANGED server PROVE ConnInv(c)'
<1>1. PICK t \in {"signup", "login"}, n \in Name, w \in Password :
        /\ state' = [state EXCEPT ![c] = t]
        /\ username' = [username EXCEPT ![c] = n] /\ password' = [password EXCEPT ![c] = w]
        /\ toServer' = [toServer EXCEPT ![c] = @ \o <<Tag(t), Command("username", n), Command("password", w)>>]
        /\ toClient' = toClient /\ dst_usr' = dst_usr
  BY AskTypes
<1>2. state[c] = "offline" /\ receiver' = receiver /\ itsig' = itsig
  BY AskTypes
<1>3. StageInv(c)' /\ handler' = handler
  BY ClientStage
<1>4. /\ toClient[c] = <<>> /\ toServer[c] = <<>> /\ handler[c].todo = <<>> /\ receiver[c].state = "off"
      /\ handler[c].continuityIndex = "none" /\ ~handler[c].istonextstage
  BY <1>2 DEF ConnInv, OfferInv, Offered
<1>5. itsig[c] = <<>>
  BY <1>2 DEF ConnInv, RequestInv, Awaiting
<1> DEFINE cmds == <<Tag(t), Command("username", n), Command("password", w)>>
<1>6. toServer'[c] = cmds
  <2>1. toServer'[c] = <<>> \o cmds
    BY <1>1, <1>4 DEF Types, WireTypes
  <2> QED BY <2>1
<1>7. state'[c] = t /\ username'[c] = n /\ password'[c] = w
  BY <1>1 DEF Types, UserTypes
<1>8. /\ DOMAIN cmds = 1 .. 3 /\ Len(cmds) = 3 /\ cmds[1] = Tag(t)
      /\ cmds[2] = Command("username", n) /\ cmds[3] = Command("password", w)
  OBVIOUS
<1> HIDE DEF cmds
<1>9. \A k \in DOMAIN cmds : k = 1 \/ k = 2 \/ k = 3
  BY <1>8
<1>10. LastOnly(cmds)
  <2>1. Tag(t).tag \notin Final /\ Command("username", n).tag \notin Final
    BY DEF Tag, Command, Final
  <2> QED BY <2>1, <1>8, <1>9 DEF LastOnly
<1>11. LastOnly(<<>>) /\ OneOnly(<<>>) /\ Len(<<>>) = 0 /\ \A T : Free(<<>>, T)
  BY DEF LastOnly, OneOnly, Free
<1>12. RequestInv(c)'
  BY <1>1, <1>2, <1>3, <1>4, <1>5, <1>6, <1>7, <1>10, <1>11 DEF RequestInv, Awaiting
<1>13. KnockInv(c)' /\ SessionInv(c)'
  BY <1>7 DEF KnockInv, SessionInv, InSession
<1>14. OfferInv(c)'
  <2>1. \A k \in DOMAIN cmds : cmds[k] \in Entered(c)'
    BY <1>7, <1>8, <1>9 DEF Entered
  <2> QED BY <2>1, <1>1, <1>2, <1>3, <1>4, <1>6, <1>7 DEF OfferInv
<1> QED BY <1>3, <1>12, <1>13, <1>14 DEF ConnInv

LEMMA AnsweredConn ==
  ASSUME NEW c \in Conn, Types, ConnInv(c), Answered(c), UNCHANGED server PROVE ConnInv(c)'
<1> DEFINE old == toClient[c]
<1>1. /\ old # <<>> /\ toClient' = [toClient EXCEPT ![c] = Tail(toClient[c])] /\ toServer' = toServer
      /\ UNCHANGED user /\ itsig' = itsig
      /\ \/ /\ Head(old).tag \in {"signup-good", "signup-badU", "login-badU", "login-badP"}
            /\ state[c] \in {"signup", "login"} /\ state' = [state EXCEPT ![c] = "offline"]
            /\ receiver' = receiver
         \/ /\ Head(old).tag = "login-good"
            /\ state[c] = "login" /\ state' = [state EXCEPT ![c] = "online"]
  BY AnsweredTypes
<1>2. StageInv(c)' /\ handler' = handler /\ account' = account
  BY ClientStage
<1>3. old \in Seq(Told \cup [tag : Answers]) /\ toClient'[c] = Tail(old)
      /\ UNCHANGED <<username, password>>
  BY <1>1, Parts DEF Types, WireTypes, user
<1> HIDE DEF old
<1>4. state[c] \in Offered /\ state[c] # "exited"
  BY <1>1 DEF Offered
<1>5. Head(old).tag \in Answers /\ Head(old) = old[1] /\ 1 \in DOMAIN old
  BY <1>1, <1>3, TailKeeps DEF Answers
<1>6. /\ toServer[c] = <<>> /\ handler[c].todo = <<>> /\ handler[c].continuityIndex = "none"
      /\ Granted(c) \/ Refused(c)
  BY <1>1, <1>4 DEF ConnInv, OfferInv, old
<1>7. OneOnly(Tail(old)) /\ Free(Tail(old), Answers) /\ itsig[c] = <<>>
  <2>1. OneOnly(old) /\ itsig[c] = <<>>
    BY <1>4, <1>5 DEF ConnInv, RequestInv, Free, old
  <2> QED BY <2>1, <1>1, <1>3, <1>5, OneAnswer
<1>8. LastOnly(<<>>) /\ Len(<<>>) = 0 /\ \A T : Free(<<>>, T)
  BY DEF LastOnly, Free
<1>9. RequestInv(c)'
  <2>1. handler'[c].todo = <<>> /\ toServer'[c] = <<>> /\ itsig'[c] = <<>> /\ toClient'[c] = Tail(old)
    BY <1>1, <1>2, <1>3, <1>6, <1>7
  <2> QED BY <2>1, <1>7, <1>8 DEF RequestInv
<1>10. CASE Head(old).tag = "login-good"
  <2>1. state'[c] = "online"
    BY <1>1, <1>10 DEF Types, UserTypes
  <2>2. Owned(c)
    BY <1>5, <1>6, <1>10 DEF Granted, Refused, old
  <2>3. SessionInv(c)'
    BY <2>2, <1>2, <1>3 DEF SessionInv, Owned
  <2> QED BY <2>1, <2>3, <1>2, <1>9 DEF ConnInv, KnockInv, OfferInv, Offered
<1>11. CASE Head(old).tag # "login-good"
  <2>1. state'[c] = "offline" /\ receiver' = receiver
    BY <1>1, <1>11 DEF Types, UserTypes
  <2>2. Refused(c)
    BY <1>5, <1>6, <1>11 DEF Granted, Tag, old
  <2>3. Tail(old) = <<>> /\ ~handler[c].istonextstage
    <3>1. Len(Tail(old)) = Len(old) - 1 /\ Tail(old) \in Seq(Told \cup [tag : Answers])
      BY <1>1, <1>3, TailKeeps
    <3>2. Len(old) = 1 /\ ~handler[c].istonextstage
      BY <2>2 DEF Refused, old
    <3>3. Len(Tail(old)) = 0
      BY <3>1, <3>2
    <3> QED BY <3>1, <3>2, <3>3, EmptySeq
  <2>4. receiver[c].state = "off"
    BY <1>4 DEF ConnInv, OfferInv
  <2>5. \A k \in DOMAIN <<>> : <<>>[k] \in Entered(c)'
    OBVIOUS
  <2>6. OfferInv(c)'
    BY <1>1, <1>2, <1>3, <1>6, <2>1, <2>3, <2>4, <2>5 DEF OfferInv
  <2> QED BY <2>1, <2>6, <1>2, <1>9 DEF ConnInv, KnockInv, SessionInv, InSession
<1> QED BY <1>10, <1>11

LEMMA EndingConn ==
  ASSUME NEW c \in Conn, Types, ConnInv(c), Ending(c), UNCHANGED server PROVE ConnInv(c)'
<1>1. state'[c] = "exited"
  BY EndingTypes DEF Types, UserTypes
<1> QED BY <1>1, ClientStage, GoneNext

LEMMA KnockingConn ==
  ASSUME NEW c \in Conn, Types, ConnInv(c), Knocking(c), UNCHANGED server PROVE ConnInv(c)'
<1> DEFINE s == toServer[c]
<1>1. /\ state[c] \in {"online", "typing"} /\ state' = [state EXCEPT ![c] = "knock"]
      /\ UNCHANGED <<username, password, inbox, toClient>>
  BY KnockingTypes
<1>2. PICK n \in Person : /\ dst_usr' = [dst_usr EXCEPT ![c] = n]
                          /\ toServer' = [toServer EXCEPT ![c] = @ \o <<Command("knock", n)>>]
  BY KnockingTypes
<1> DEFINE cmd == Command("knock", n)
           new == s \o <<cmd>>
<1>3. StageInv(c)' /\ handler' = handler /\ account' = account
  BY ClientStage
<1>4. s \in Seq(Asked) /\ toServer'[c] = new /\ state'[c] = "knock" /\ dst_usr'[c] = n /\ itsig' = itsig
  BY <1>1, <1>2, Parts DEF Types, WireTypes, UserTypes, inbox
<1> HIDE DEF s
<1>5. /\ Free(toClient[c], Answers) /\ itsig[c] = <<>> /\ OneOnly(toClient[c]) /\ Len(itsig[c]) <= 1
      /\ Free(s, Final) /\ Free(handler[c].todo, Final) /\ LastOnly(handler[c].todo)
  BY <1>1 DEF ConnInv, RequestInv, Awaiting, s
<1>6. <<cmd>> \in Seq({cmd}) /\ Len(<<cmd>>) = 1 /\ <<cmd>>[1] = cmd /\ DOMAIN <<cmd>> = {1}
  OBVIOUS
<1> HIDE DEF cmd
<1>7. LastOnly(<<cmd>>)
  BY <1>6 DEF LastOnly
<1>8. /\ Free(s, Final) /\ LastOnly(<<cmd>>) => LastOnly(new)
      /\ \A k \in DOMAIN new : \/ k \in DOMAIN s /\ new[k] = s[k]
                               \/ k - Len(s) \in DOMAIN <<cmd>> /\ new[k] = <<cmd>>[k - Len(s)]
  BY <1>4, <1>6, ConcatKeeps
<1>9. \A k \in DOMAIN new : (k \in DOMAIN s /\ new[k] = s[k]) \/ new[k] = cmd
  <2> HIDE DEF new
  <2> QED BY <1>6, <1>8
<1> HIDE DEF new
<1>10. RequestInv(c)'
  BY <1>1, <1>3, <1>4, <1>5, <1>7, <1>8 DEF RequestInv, Awaiting
<1>11. KnockInv(c)'
  <2>1. cmd.arg = n /\ "knock" \in Final
    BY DEF cmd, Command, Final
  <2>2. \A k \in DOMAIN new : new[k].tag = "knock" => new[k].arg = n
    BY <2>1, <1>5, <1>9 DEF Free
  <2>3. \A k \in DOMAIN handler[c].todo : handler[c].todo[k].tag # "knock"
    BY <2>1, <1>5 DEF Free
  <2>4. Free(toClient[c], {"user-online"})
    BY <1>5 DEF Free, Answers
  <2> QED BY <2>2, <2>3, <2>4, <1>1, <1>3, <1>4, <1>5 DEF KnockInv
<1>12. SessionInv(c)'
  BY <1>1, <1>3 DEF ConnInv, SessionInv, InSession, Owned
<1>13. OfferInv(c)'
  BY <1>4 DEF OfferInv, Offered
<1> QED BY <1>3, <1>10, <1>11, <1>12, <1>13 DEF ConnInv

LEMMA MovingConn ==
  ASSUME NEW c \in Conn, Types, ConnInv(c), Moving(c), UNCHANGED server PROVE ConnInv(c)'
<1> DEFINE s == toServer[c]
           C == Said \cup Source \cup {Tag("logout")}
<1>1. /\ state[c] \in Quiet /\ \E v \in Quiet : state' = [state EXCEPT ![c] = v]
      /\ UNCHANGED <<user, inbox, toClient>>
      /\ \/ toServer' = toServer
         \/ \E cmds \in Seq(C) : toServer' = [toServer EXCEPT ![c] = @ \o cmds]
  BY MovingTypes
<1>2. StageInv(c)' /\ handler' = handler /\ account' = account
  BY ClientStage
<1>3. state'[c] \in Quiet /\ UNCHANGED <<username, password, itsig, toClient>> /\ s \in Seq(Asked)
  BY <1>1, Parts DEF Types, UserTypes, user, inbox
<1>4. /\ Free(toClient[c], Answers) /\ itsig[c] = <<>> /\ OneOnly(toClient[c]) /\ Len(itsig[c]) <= 1
      /\ Free(s, Final) /\ LastOnly(s) /\ Free(handler[c].todo, Final) /\ LastOnly(handler[c].todo)
  BY <1>1 DEF ConnInv, RequestInv, Awaiting, Quiet, InSession
<1>5. Free(toServer'[c], Final)
  <2>1. ASSUME NEW cmds \in Seq(C), toServer' = [toServer EXCEPT ![c] = @ \o cmds]
        PROVE  Free(toServer'[c], Final)
    <3>1. toServer'[c] = s \o cmds
      BY <2>1 DEF Types, WireTypes
    <3>2. \A k \in DOMAIN cmds : cmds[k] \in C
      <4> HIDE DEF C
      <4> QED BY <2>1, ElementOfSeq
    <3>3. Free(cmds, Final)
      BY <3>2 DEF Said, Source, Tag, Free, Final
    <3> HIDE DEF s, C
    <3>4. Free(s \o cmds, Final)
      BY <1>3, <1>4, <2>1, <3>3, ConcatKeeps
    <3> QED BY <3>1, <3>4
  <2> QED BY <1>1, <1>4, <2>1
<1>6. LastOnly(toServer'[c])
  BY <1>5 DEF LastOnly, Free
<1> HIDE DEF s
<1>7. RequestInv(c)'
  BY <1>2, <1>3, <1>4, <1>5, <1>6 DEF RequestInv
<1>8. SessionInv(c)'
  BY <1>1, <1>2, <1>3 DEF ConnInv, SessionInv, Owned, Quiet
<1>9. KnockInv(c)' /\ OfferInv(c)'
  BY <1>3 DEF KnockInv, OfferInv, Quiet, InSession, Offered
<1> QED BY <1>2, <1>7, <1>8, <1>9 DEF ConnInv

LEMMA FriendIsConn ==
  ASSUME NEW c \in Conn, Types, ConnInv(c), FriendIs(c), UNCHANGED server PROVE ConnInv(c)'
<1>1. /\ state[c] = "knock" /\ \E v \in Quiet : state' = [state EXCEPT ![c] = v]
      /\ itsig[c] # <<>> /\ itsig' = [itsig EXCEPT ![c] = Tail(itsig[c])]
      /\ UNCHANGED <<wire, user, receiver>>
  BY FriendIsTypes
<1>2. StageInv(c)' /\ handler' = handler /\ account' = account
  BY ClientStage
<1>3. /\ state'[c] \in Quiet /\ UNCHANGED <<username, password, toServer, toClient>>
      /\ itsig'[c] = Tail(itsig[c]) /\ itsig[c] \in Seq({"user-online", "user-offline"})
  BY <1>1, Parts DEF Types, UserTypes, InboxTypes, user, wire
<1>4. /\ Free(toClient[c], Answers) /\ OneOnly(toClient[c]) /\ Len(itsig[c]) <= 1
      /\ Free(toServer[c], Final) /\ LastOnly(toServer[c])
      /\ Free(handler[c].todo, Final) /\ LastOnly(handler[c].todo)
  BY <1>1 DEF ConnInv, RequestInv
<1>5. itsig'[c] = <<>>
  <2> DEFINE q == itsig[c]
  <2>1. q # <<>> /\ Len(q) <= 1 /\ q \in Seq({"user-online", "user-offline"})
    BY <1>1, <1>3, <1>4
  <2> HIDE DEF q
  <2>2. Len(q) \in Nat /\ Len(Tail(q)) = Len(q) - 1 /\ Tail(q) \in Seq({"user-online", "user-offline"})
    BY <2>1, TailKeeps
  <2>3. Len(Tail(q)) \in Nat
    BY <2>2, LenProperties
  <2>4. Len(Tail(q)) = 0
    BY <2>1, <2>2, <2>3
  <2>5. Tail(q) = <<>>
    BY <2>2, <2>4, EmptySeq
  <2> QED BY <2>5, <1>3 DEF q
<1>6. Len(<<>>) = 0
  OBVIOUS
<1>7. RequestInv(c)'
  BY <1>2, <1>3, <1>4, <1>5, <1>6 DEF RequestInv
<1>8. SessionInv(c)'
  BY <1>1, <1>2, <1>3 DEF ConnInv, SessionInv, Owned, InSession
<1>9. KnockInv(c)' /\ OfferInv(c)'
  BY <1>3 DEF KnockInv, OfferInv, Quiet, InSession, Offered
<1> QED BY <1>2, <1>7, <1>8, <1>9 DEF ConnInv

LEMMA ReceivingConn ==
  ASSUME NEW c \in Conn, Types, ConnInv(c), ReceiveThread(c), UNCHANGED server PROVE ConnInv(c)'
<1> DEFINE old == toClient[c]
<1>1. /\ state' = state /\ UNCHANGED user /\ toServer' = toServer /\ receiver[c].state = "on"
      /\ \/ toClient' = toClient /\ itsig' = itsig
         \/ /\ old # <<>> /\ toClient' = [toClient EXCEPT ![c] = Tail(old)]
            /\ \/ itsig' = itsig
               \/ /\ Head(old).tag \in {"user-online", "user-offline"}
                  /\ itsig' = [itsig EXCEPT ![c] = Append(itsig[c], Head(old).tag)]
  BY ReceivingTypes
<1>2. StageInv(c)' /\ UNCHANGED <<handler, account, online>>
  BY ClientStage
<1>3. UNCHANGED <<username, password, dst_usr>> /\ old \in Seq(Told \cup [tag : Answers])
  BY <1>1, Parts DEF user
<1>4. OfferInv(c)' /\ SessionInv(c)'
  BY <1>1, <1>2, <1>3 DEF ConnInv, OfferInv, SessionInv, Owned
<1>5. CASE toClient' = toClient /\ itsig' = itsig
  BY <1>1, <1>2, <1>3, <1>4, <1>5 DEF ConnInv, RequestInv, KnockInv
<1>6. CASE old # <<>> /\ toClient' = [toClient EXCEPT ![c] = Tail(old)]
  <2>1. toClient'[c] = Tail(old)
    BY <1>6 DEF Types, WireTypes
  <2> HIDE DEF old
  <2>2. Head(old) = old[1] /\ 1 \in DOMAIN old /\ \A T : Free(old, T) => Free(Tail(old), T)
    BY <1>3, <1>6, TailKeeps
  <2>3. OneOnly(old) => OneOnly(Tail(old)) /\ (Head(old).tag \in Answers => Free(Tail(old), Answers))
    BY <1>3, <1>6, OneAnswer
  <2>4. CASE itsig' = itsig
    <3>1. RequestInv(c)'
      BY <1>1, <1>2, <2>1, <2>2, <2>3, <2>4 DEF ConnInv, RequestInv, old
    <3>2. KnockInv(c)'
      BY <1>1, <1>2, <1>3, <2>1, <2>2, <2>4 DEF ConnInv, KnockInv, old
    <3> QED BY <3>1, <3>2, <1>2, <1>4 DEF ConnInv
  <2>5. CASE /\ Head(old).tag \in {"user-online", "user-offline"}
             /\ itsig' = [itsig EXCEPT ![c] = Append(itsig[c], Head(old).tag)]
    <3> SUFFICES ASSUME state[c] # "exited" PROVE ConnInv(c)'
      BY <1>1, <1>2, GoneNext
    <3>1. Head(old).tag \in Answers /\ ~Free(old, Answers) /\ OneOnly(old)
      BY <2>2, <2>5 DEF Free, Answers, ConnInv, RequestInv, old
    <3>2. /\ itsig[c] = <<>> /\ state[c] \in Awaiting
          /\ Free(toServer[c], Final) /\ Free(handler[c].todo, Final)
          /\ LastOnly(toServer[c]) /\ LastOnly(handler[c].todo)
      BY <3>1 DEF ConnInv, RequestInv, old
    <3>3. itsig'[c] = <<Head(old).tag>>
      <4>1. itsig'[c] = Append(<<>>, Head(old).tag)
        BY <3>2, <2>5 DEF Types, InboxTypes
      <4> QED BY <4>1
    <3>4. Len(<<Head(old).tag>>) = 1 /\ <<Head(old).tag>>[1] = Head(old).tag
      OBVIOUS
    <3>5. RequestInv(c)'
      BY <1>1, <1>2, <2>1, <2>3, <3>1, <3>2, <3>3, <3>4 DEF RequestInv
    <3>6. KnockInv(c)'
      <4> SUFFICES ASSUME state[c] = "knock" PROVE KnockInv(c)'
        BY <1>1 DEF KnockInv
      <4>1. Head(old).tag = "user-online" => dst_usr[c] \in online
        BY <2>2 DEF ConnInv, KnockInv, Free, old
      <4>2. Free(toClient'[c], {"user-online"})
        BY <2>1, <2>3, <3>1 DEF Free, Answers
      <4> QED BY <4>1, <4>2, <1>1, <1>2, <1>3, <3>3, <3>4 DEF ConnInv, KnockInv
    <3> QED BY <3>5, <3>6, <1>2, <1>4 DEF ConnInv
  <2> QED BY <1>1, <2>4, <2>5, <1>6, <1>5 DEF old
<1> QED BY <1>1, <1>5, <1>6

LEMMA ClientConn ==
  ASSUME NEW c \in Conn, Types, ConnInv(c), UserActs(c) \/ UserThread(c) \/ ReceiveThread(c), UNCHANGED server
  PROVE  ConnInv(c)'
BY ClientSteps, AskConn, AnsweredConn, EndingConn, KnockingConn, MovingConn, FriendIsConn, ReceivingConn
-----------------------------------------------------------------------------
(* The theorems. *)

LEMMA InvNext == ASSUME IInv, [Next]_vars PROVE IInv'
<1>1. Types /\ \A c \in Conn : ConnInv(c)
  BY DEF IInv
<1>2. ASSUME NEW c \in Conn, ServerStep(c) PROVE IInv'
  <2>1. (Handling(c) \/ Delivering(c)) /\ UNCHANGED client /\ StageInv(c)
    BY <1>1, <1>2 DEF ServerStep, ConnInv
  <2>2. Types'
    BY <1>1, <2>1, ServerTypes
  <2>3. ConnInv(c)'
    BY <1>1, <2>1, ServerConn
  <2>4. \A d \in Conn \ {c} : ConnInv(d)'
    BY <1>1, <2>1, ServerBeside, Beside
  <2> QED BY <2>2, <2>3, <2>4 DEF IInv
<1>3. ASSUME NEW c \in Conn, UserStep(c) \/ ThreadStep(c) PROVE IInv'
  <2>1. (UserActs(c) \/ UserThread(c) \/ ReceiveThread(c)) /\ UNCHANGED server
    BY <1>3 DEF UserStep, ThreadStep
  <2>2. Types'
    BY <1>1, <2>1, ClientTypes
  <2>3. ConnInv(c)'
    BY <1>1, <2>1, ClientConn
  <2>4. \A d \in Conn \ {c} : ConnInv(d)'
    BY <1>1, <2>1, ClientBeside, Beside
  <2> QED BY <2>2, <2>3, <2>4 DEF IInv
<1>4. CASE UNCHANGED vars
  <2>1. Types'
    BY <1>1, <1>4
       DEF vars, wire, server, accounts, client, user, files, counts, inbox, Types, WireTypes, AccountTypes,
           ThreadTypes, UserTypes, FileTypes, InboxTypes
  <2>2. \A d \in Conn : Untouched(d)
    BY <1>4 DEF vars, wire, server, client, user, inbox, Untouched
  <2>3. Grows
    BY <1>4 DEF vars, server, accounts, Grows
  <2> QED BY <1>1, <2>1, <2>2, <2>3, Beside DEF IInv
<1> QED BY <1>2, <1>3, <1>4 DEF Next

LEMMA Inductive == Spec => []IInv
<1>1. Init => IInv
  BY InitTypes DEF IInv
<1>2. IInv /\ [Next]_vars => IInv'
  BY InvNext
<1> QED BY <1>1, <1>2, PTL DEF Spec

\* While one user signs up and every account has one connection and one that
\* writes to it (OneOfEach), the threads of the clients and of the server are
\* at the places the code knows, no handler waits for a command that does not
\* exist, the table and the queues keep to their room, and a client that sends
\* files is at one of them.
THEOREM TypeCorrect == Spec => []TypeOK
<1>1. IInv => TypeOK
  <2> SUFFICES ASSUME IInv PROVE TypeOK
    OBVIOUS
  <2>1. Types
    BY DEF IInv
  <2>2. closed \subseteq Conn /\ reset \subseteq closed /\ crashed \in BOOLEAN
    BY <2>1 DEF Types, WireTypes
  <2>3. /\ DOMAIN account \subseteq Name /\ online \subseteq DOMAIN account
        /\ \A n \in Name : Len(queue[n]) <= Capacity /\ Len(recorded[n]) <= MaxRecorded
        /\ Cardinality(DOMAIN account) <= MAX_ACCOUNT_CNT
    BY <2>1 DEF Types, AccountTypes
  <2>4. ASSUME NEW c \in Conn
        PROVE  /\ handler[c].continuityIndex \in {"none", "username", "password"}
               /\ handler[c].continuityIndex = "password" => handler[c].acc \in Name
               /\ handler[c].acc \in Name \cup {None} /\ handler[c].toWhoseAcc \in Name \cup {None}
               /\ delivery[c].state \in {"none", "starting", "on"}
               /\ delivery[c].acc \in Name \cup {None}
               /\ state[c] \in Offered \cup InSession \cup {"exited"}
               /\ receiver[c].state \in {"off", "on", "done", "failed"}
               /\ rf_ptr[c] \in 1 .. Len(rf_list[c]) + 1
    <3>1. StageInv(c)
      BY DEF IInv, ConnInv
    <3>2. /\ handler[c] \in HandlerType
          /\ delivery[c] \in [state : {"none", "starting", "on"}, intact : BOOLEAN, acc : Person]
      BY <2>1 DEF Types, ThreadTypes
    <3>3. /\ state[c] \in Offered \cup InSession \cup {"exited"}
          /\ receiver[c] \in [state : {"off", "on", "failed"}, src_usr : Person, open : SUBSET File]
      BY <2>1 DEF Types, UserTypes, InboxTypes
    <3>4. rf_ptr[c] \in 1 .. Len(rf_list[c]) + 1
      <4>1. /\ rf_list[c] \in Seq([filename : File, datagram_cnt : Nat])
            /\ rf_ptr[c] \in 1 .. Len(rf_list[c]) \/ (rf_ptr[c] = 1 /\ rf_list[c] = <<>>)
        BY <2>1 DEF Types, FileTypes
      <4>2. Len(rf_list[c]) \in Nat
        BY <4>1, LenProperties
      <4> QED BY <4>1, <4>2
    <3> QED BY <3>1, <3>2, <3>3, <3>4 DEF StageInv, HandlerType, Person
  <2> QED BY <2>2, <2>3, <2>4 DEF TypeOK
<1> QED BY <1>1, Inductive, PTL

\* While one user signs up (OneOfEach), a client is in a session only with the
\* password of its account, and its handler acts for that account, although the
\* password travels in a command of its own and a read may end in the middle of
\* it.
THEOREM SessionOwned == Spec => []SessionIsOwned
<1>1. IInv => SessionIsOwned
  BY DEF IInv, ConnInv, SessionInv, Owned, SessionIsOwned
<1> QED BY <1>1, Inductive, PTL

\* When a client is told that its friend is online, the friend it has knocked
\* for last has logged in: no answer is taken for that to another knock.
THEOREM KnocksAreTrue == Spec => KnockIsTrue
<1>1. IInv => (\A c \in Conn : state[c] = "knock" /\ itsig[c] # <<>> =>
                                 (Head(itsig[c]) = "user-online" => dst_usr[c] \in online))
  <2> SUFFICES ASSUME IInv, NEW c \in Conn, state[c] = "knock", itsig[c] # <<>>, Head(itsig[c]) = "user-online"
               PROVE  dst_usr[c] \in online
    OBVIOUS
  <2>1. itsig[c] \in Seq({"user-online", "user-offline"})
    BY Parts DEF IInv
  <2>2. Head(itsig[c]) = itsig[c][1]
    BY <2>1, TailKeeps
  <2> QED BY <2>2 DEF IInv, ConnInv, KnockInv
<1> QED BY <1>1, Inductive, PTL DEF KnockIsTrue
-----------------------------------------------------------------------------
(* Whose connection it is, and the argument of its delivery thread. *)

\* A handler acts for a name its user has entered, on this connection.
NamesEntered(s, c) == \A k \in DOMAIN s : s[k].tag = "username" => s[k].arg \in Enters[c]

EnteredInv(c) == LET h == handler[c] IN
  /\ h.continuityIndex = "password" \/ h.istonextstage => h.acc \in Enters[c]
  /\ h.istonextstage \/ \A s \in {toServer[c], h.todo, h.buf} : NamesEntered(s, c)

\* Who has only listened since the login has not sent a command that would
\* make the handler overwrite the argument.
KnockedInv(c) == state[c] \in InSession \ {"online", "join"} => knocks[c] > 0
JustListenInv(c) == JustListens(c, handler[c].acc) =>
                   toServer[c] = <<>> /\ handler[c].todo = <<>> /\ delivery[c].intact

LoginInv == /\ knocks \in [Conn -> Nat]
            /\ \A c \in Conn : EnteredInv(c) /\ KnockedInv(c) /\ JustListenInv(c)

LEMMA EndsEntered ==
  ASSUME NEW c \in Conn, NEW R, NEW s \in Seq(R), NamesEntered(s, c), NEW Q, NEW t \in Seq(Q), Ends(t, s)
  PROVE  NamesEntered(t, c)
<1> SUFFICES ASSUME NEW k \in DOMAIN t, t[k].tag = "username" PROVE t[k].arg \in Enters[c]
  BY DEF NamesEntered
<1>1. t[k] \notin {Rest, Escape}
  BY DEF Rest, Escape, Tag, Command
<1>2. \E j \in DOMAIN s : t[k] = s[j]
  BY <1>1, EndsKeep
<1> QED BY <1>2 DEF NamesEntered

LEMMA ReadNames ==
  ASSUME NEW c \in Conn, Types, Read(c), UNCHANGED client
  PROVE  /\ handler'[c].acc = handler[c].acc /\ handler'[c].istonextstage = handler[c].istonextstage
         /\ handler'[c].continuityIndex = handler[c].continuityIndex
         /\ NamesEntered(toServer[c], c) =>
              \A s \in {toServer'[c], handler'[c].todo, handler'[c].buf} : NamesEntered(s, c)
<1>1. PICK k \in 0 .. Len(toServer[c]), got \in Seq(Asked), todo \in Seq(Asked \cup {Escape}),
           left \in Seq(Asked) :
           /\ got = SubSeq(toServer[c], 1, k) /\ Len(got) = k /\ todo = Parsed(got)
           /\ \A j \in 1 .. k : got[j] = toServer[c][j]
           /\ Ends(todo, got)
           /\ Len(left) <= Len(toServer[c]) - k /\ Ends(left, toServer[c])
           /\ handler' = [handler EXCEPT ![c] = [handler[c] EXCEPT !.buf = got, !.todo = todo]]
           /\ toServer' = [toServer EXCEPT ![c] = left]
  BY ReadSplits DEF Types
<1>2. /\ toServer'[c] = left /\ handler'[c].todo = todo /\ handler'[c].buf = got
      /\ handler'[c].acc = handler[c].acc /\ handler'[c].istonextstage = handler[c].istonextstage
      /\ handler'[c].continuityIndex = handler[c].continuityIndex
  BY <1>1 DEF Types, ThreadTypes, WireTypes, HandlerType
<1>3. ASSUME NamesEntered(toServer[c], c)
      PROVE  NamesEntered(left, c) /\ NamesEntered(todo, c) /\ NamesEntered(got, c)
  <2>1. toServer[c] \in Seq(Asked)
    BY Parts
  <2>2. NamesEntered(left, c)
    BY <1>1, <1>3, <2>1, EndsEntered
  <2>3. NamesEntered(got, c)
    BY <1>1, <1>3, <2>1, LenProperties DEF NamesEntered
  <2>4. NamesEntered(todo, c)
    BY <1>1, <2>3, EndsEntered
  <2> QED BY <2>2, <2>3, <2>4
<1> QED BY <1>2, <1>3

LEMMA ReadEntered ==
  ASSUME NEW c \in Conn, Types, EnteredInv(c), Read(c), UNCHANGED client PROVE EnteredInv(c)'
BY ReadNames DEF EnteredInv, NamesEntered


LEMMA ReadEndEntered ==
  ASSUME NEW c \in Conn, Types, EnteredInv(c), ReadEnd(c) PROVE EnteredInv(c)'
<1>1. toServer' = toServer /\ handler' = [handler EXCEPT ![c].todo = Parsed(handler[c].buf)]
  BY DEF ReadEnd, wire
<1>2. /\ handler'[c].todo = Parsed(handler[c].buf) /\ handler'[c].buf = handler[c].buf
      /\ handler'[c].acc = handler[c].acc /\ handler'[c].istonextstage = handler[c].istonextstage
      /\ handler'[c].continuityIndex = handler[c].continuityIndex
  BY <1>1 DEF Types, ThreadTypes, HandlerType
<1>3. ASSUME NamesEntered(handler[c].buf, c) PROVE NamesEntered(Parsed(handler[c].buf), c)
  <2>1. handler[c].buf \in Seq(Asked)
    BY Parts DEF HandlerType
  <2>2. Parsed(handler[c].buf) \in Seq(Asked \cup {Escape}) /\ Ends(Parsed(handler[c].buf), handler[c].buf)
    BY <2>1, ParsedEnds
  <2> QED BY <1>3, <2>1, <2>2, EndsEntered
<1> QED BY <1>1, <1>2, <1>3 DEF EnteredInv, NamesEntered

LEMMA TakingEntered ==
  ASSUME NEW c \in Conn, Types, ConnInv(c), EnteredInv(c), Taking(c), UNCHANGED client PROVE EnteredInv(c)'
<1> DEFINE h == handler[c]
<1>1. StageInv(c) /\ h.todo # <<>> /\ h.todo \in Seq(Asked \cup {Escape})
  BY TakingStep, Parts DEF ConnInv
<1>2. h \in HandlerType /\ handler \in [Conn -> HandlerType]
  BY <1>1, NowType DEF Types, ThreadTypes
<1>3. toServer' = toServer /\ handler'[c].todo = Tail(h.todo) /\ handler'[c].buf = h.buf
  <2>1. PICK new \in HandlerType : new.todo = handler[c].todo /\ new.buf = handler[c].buf /\ Step(c, new)
    BY <1>1, TakingStep
  <2>2. handler'[c] = [new EXCEPT !.todo = Tail(h.todo)]
    BY <1>1, <2>1, StepType DEF Types
  <2> QED BY <1>1, <2>1, <2>2, TakingWire DEF HandlerType
<1>4. CASE h.istonextstage
  BY <1>2, <1>4, TakingOwned DEF EnteredInv, HandlerType
<1>5. CASE ~h.istonextstage
  <2>1. NamesEntered(toServer[c], c) /\ NamesEntered(h.todo, c) /\ NamesEntered(h.buf, c)
    BY <1>5 DEF EnteredInv
  <2>2. NamesEntered(Tail(h.todo), c) /\ (Now(c).tag = "username" => Now(c).arg \in Enters[c])
    <3> DEFINE todo == h.todo
    <3>1. todo \in Seq(Asked \cup {Escape}) /\ todo # <<>> /\ Head(todo) = Now(c) /\ NamesEntered(todo, c)
      BY <1>1, <2>1 DEF Now
    <3> HIDE DEF todo
    <3>2. /\ Head(todo) = todo[1] /\ 1 \in DOMAIN todo
          /\ \A k \in DOMAIN Tail(todo) : k + 1 \in DOMAIN todo /\ Tail(todo)[k] = todo[k + 1]
      BY <3>1, TailKeeps
    <3>3. NamesEntered(Tail(todo), c) /\ (Now(c).tag = "username" => Now(c).arg \in Enters[c])
      BY <3>1, <3>2 DEF NamesEntered
    <3> QED BY <3>3 DEF todo
  <2>3. handler'[c].continuityIndex = "password" \/ handler'[c].istonextstage => handler'[c].acc \in Enters[c]
    <3>1. CASE TakeTag(c)
      <4>1. CASE Step(c, [h EXCEPT !.islogin = IF Now(c).tag = "login" THEN 1 ELSE 0,
                                   !.continuityIndex = "username"])
        BY <1>2, <1>5, <4>1 DEF Step, HandlerType
      <4>2. CASE Step(c, [h EXCEPT !.islogin = 1126]) /\ h.continuityIndex = "none"
        BY <1>2, <1>5, <4>2 DEF Step, HandlerType
      <4> QED BY <3>1, <4>1, <4>2 DEF TakeTag
    <3>2. CASE TakeUnexpected(c)
      <4>1. PICK x \in {"stuck", "none"} : Step(c, [h EXCEPT !.continuityIndex = x])
        BY <3>2 DEF TakeUnexpected
      <4> QED BY <1>2, <1>5, <4>1 DEF Step, HandlerType
    <3>3. CASE TakeUsername(c)
      <4>1. Step(c, [h EXCEPT !.acc = Now(c).arg, !.continuityIndex = "password"]) /\ Now(c).tag = "username"
        BY <3>3 DEF TakeUsername
      <4> QED BY <1>2, <2>2, <4>1 DEF Step, HandlerType
    <3>4. CASE SignUp(c) \/ RefuseLogin(c)
      <4>1. CASE Step(c, [h EXCEPT !.continuityIndex = "none"])
        BY <1>2, <1>5, <4>1 DEF Step, HandlerType
      <4>2. CASE Step(c, [h EXCEPT !.continuityIndex = "none", !.islogin = 0])
        BY <1>2, <1>5, <4>2 DEF Step, HandlerType
      <4> QED BY <3>4, <4>1, <4>2 DEF SignUp, RefuseLogin
    <3>5. CASE LogIn(c)
      <4>1. /\ Step(c, [h EXCEPT !.continuityIndex = "none", !.islogin = 0, !.istonextstage = TRUE])
            /\ h.continuityIndex = "password"
        BY <3>5 DEF LogIn, Expected
      <4> QED BY <1>2, <4>1 DEF Step, HandlerType, EnteredInv
    <3>6. CASE TakeFileData(c)
      <4>1. Step(c, [h EXCEPT !.islogin = Now(c).seg, !.continuityIndex = "none"])
        BY <3>6 DEF TakeFileData
      <4> QED BY <1>2, <1>5, <4>1 DEF Step, HandlerType
    <3>7. ~(TakeTarget(c) \/ TakeMessage(c) \/ TakeKnock(c) \/ TakeOther(c))
      BY <1>5 DEF TakeTarget, TakeMessage, TakeKnock, TakeOther, Online
    <3> QED BY <3>1, <3>2, <3>3, <3>4, <3>5, <3>6, <3>7 DEF Taking
  <2> QED BY <1>3, <2>1, <2>2, <2>3 DEF EnteredInv, NamesEntered
<1> QED BY <1>4, <1>5

LEMMA ServerEntered ==
  ASSUME NEW c \in Conn, Types, ConnInv(c), EnteredInv(c), Handling(c) \/ Delivering(c), UNCHANGED client
  PROVE  EnteredInv(c)'
<1>1. CASE StartDelivery(c)
  BY <1>1 DEF StartDelivery, wire, EnteredInv, NamesEntered
<1>2. CASE Deliver(c)
  BY <1>2 DEF Deliver, EnteredInv, NamesEntered
<1> QED BY <1>1, <1>2, ReadEntered, ReadEndEntered, TakingEntered DEF Handling, Delivering, Taking

LEMMA ClientEntered ==
  ASSUME NEW c \in Conn, Types, ConnInv(c), EnteredInv(c), UNCHANGED server,
         UserActs(c) \/ UserThread(c) \/ ReceiveThread(c)
  PROVE  EnteredInv(c)'
<1>1. handler' = handler
  BY DEF server
<1>2. CASE handler[c].istonextstage
  BY <1>1, <1>2 DEF EnteredInv
<1>3. CASE ~handler[c].istonextstage
  <2>1. state[c] \notin InSession /\ NamesEntered(toServer[c], c)
    BY <1>3 DEF ConnInv, SessionInv, Owned, EnteredInv
  <2> SUFFICES NamesEntered(toServer'[c], c)
    BY <1>1, <1>3 DEF EnteredInv, NamesEntered
  <2>2. ASSUME toServer' = toServer PROVE NamesEntered(toServer'[c], c)
    BY <2>1, <2>2
  <2>3. CASE AskSignUp(c) \/ AskLogIn(c)
    <3>1. PICK t \in {"signup", "login"}, n \in Enters[c], w \in Password :
            ClientSends(c, <<Tag(t), Command("username", n), Command("password", w)>>)
      BY <2>3 DEF AskSignUp, AskLogIn, Enter
    <3> DEFINE cmds == <<Tag(t), Command("username", n), Command("password", w)>>
    <3>2. state[c] = "offline" /\ toServer[c] = <<>>
      BY <2>3, AskTypes DEF ConnInv, OfferInv, Offered
    <3>3. toServer'[c] = cmds
      <4>1. toServer'[c] = <<>> \o cmds
        BY <3>1, <3>2 DEF ClientSends, Types, WireTypes
      <4> QED BY <4>1
    <3>4. /\ DOMAIN cmds = 1 .. 3 /\ cmds[1] = Tag(t)
          /\ cmds[2] = Command("username", n) /\ cmds[3] = Command("password", w)
      OBVIOUS
    <3> HIDE DEF cmds
    <3>5. \A k \in DOMAIN cmds : k = 1 \/ k = 2 \/ k = 3
      BY <3>4
    <3> QED BY <3>3, <3>4, <3>5 DEF NamesEntered, Tag, Command
  <2>4. CASE Answered(c)
    BY <2>2, <2>4, AnsweredTypes
  <2>5. CASE Ending(c)
    BY <2>2, <2>5, EndingTypes
  <2>6. CASE ReceiveThread(c)
    BY <2>2, <2>6, ReceivingTypes
  <2>7. ~Knocking(c) /\ ~Moving(c) /\ ~FriendIs(c)
    BY <2>1, KnockingTypes, MovingTypes, FriendIsTypes DEF Quiet, InSession
  <2> QED BY <2>3, <2>4, <2>5, <2>6, <2>7, ClientSteps
<1> QED BY <1>2, <1>3

\* A user is where only a knock leads after a knock.
LEMMA ClientKnocks ==
  ASSUME NEW c \in Conn, Types, knocks \in [Conn -> Nat], KnockedInv(c), UNCHANGED server,
         UserActs(c) \/ UserThread(c) \/ ReceiveThread(c)
  PROVE  /\ knocks' \in [Conn -> Nat] /\ \A d \in Conn \ {c} : knocks'[d] = knocks[d]
         /\ KnockedInv(c)'
         /\ state'[c] \in {"login", "online"} /\ knocks'[c] = 0 =>
              /\ knocks[c] = 0
              /\ state[c] = "offline" \/ (state[c] \in {"login", "online"} /\ toServer' = toServer)
<1> DEFINE Goal == /\ knocks' \in [Conn -> Nat] /\ \A d \in Conn \ {c} : knocks'[d] = knocks[d]
                   /\ KnockedInv(c)'
                   /\ state'[c] \in {"login", "online"} /\ knocks'[c] = 0 =>
                        /\ knocks[c] = 0
                        /\ state[c] = "offline" \/ (state[c] \in {"login", "online"} /\ toServer' = toServer)
<1>1. state \in [Conn -> Offered \cup InSession \cup {"exited"}]
  BY DEF Types, UserTypes
<1>2. CASE AskSignUp(c) \/ AskLogIn(c)
  <2>1. knocks' = knocks /\ state[c] = "offline" /\ state'[c] \in {"signup", "login"}
    BY <1>1, <1>2 DEF AskSignUp, AskLogIn, Goto
  <2> QED BY <2>1 DEF KnockedInv, InSession
<1>3. CASE Answered(c)
  <2>1. knocks' = knocks /\ toServer' = toServer /\ state[c] \in {"signup", "login"}
        /\ (state'[c] = "offline" \/ (state'[c] = "online" /\ state[c] = "login"))
    BY <1>1, <1>3 DEF Answered, Goto, counts, ClientTakes
  <2> QED BY <2>1 DEF KnockedInv, InSession
<1>4. CASE Ending(c)
  <2>1. state'[c] = "exited" /\ UNCHANGED counts
    BY <1>1, <1>4, EndingTypes
  <2> QED BY <2>1 DEF KnockedInv, InSession, counts
<1>5. CASE Knocking(c)
  <2>1. state'[c] = "knock" /\ state[c] \in {"online", "typing"}
    BY <1>1, <1>5, KnockingTypes
  <2>2. CASE AskFriend(c)
    <3>1. knocks' = [knocks EXCEPT ![c] = @ + 1]
      BY <2>2 DEF AskFriend
    <3> QED BY <2>1, <3>1 DEF KnockedInv
  <2>3. CASE EndMessage(c)
    <3>1. knocks' = knocks /\ state[c] = "typing"
      BY <2>3 DEF EndMessage, counts
    <3> QED BY <2>1, <3>1 DEF KnockedInv, InSession
  <2> QED BY <1>5, <2>2, <2>3 DEF Knocking
<1>6. CASE Moving(c)
  <2>1. knocks' = knocks
    BY <1>6 DEF Moving, Confirm, TypeMessage, EndMessage, LogOut, ChooseFiles, SendSegment, SendEnd, RemoveFile,
                FilesSent, counts
  <2>2. state[c] \in InSession \ {"online", "join"} \/ (state[c] = "online" /\ state'[c] = "join")
    <3>1. CASE LogOut(c)
      BY <1>1, <3>1 DEF LogOut, Goto
    <3>2. CASE ~LogOut(c)
      BY <1>6, <3>2 DEF Moving, Confirm, TypeMessage, EndMessage, ChooseFiles, SendSegment, SendEnd, RemoveFile,
                        FilesSent, Goto, InSession
    <3> QED BY <3>1, <3>2
  <2> QED BY <2>1, <2>2 DEF KnockedInv
<1>7. CASE FriendIs(c)
  <2>1. knocks' = knocks /\ state[c] = "knock"
    BY <1>7 DEF FriendIs, Goto, counts
  <2> QED BY <2>1 DEF KnockedInv, InSession
<1>8. CASE ReceiveThread(c)
  <2>1. UNCHANGED counts /\ state' = state /\ toServer' = toServer
    <3>1. UNCHANGED counts
      BY <1>8 DEF ReceiveThread, TakeSignal, TakeSource, ShowMessage, WriteFile, EndReceiving
    <3> QED BY <1>8, <3>1, ReceivingTypes
  <2> QED BY <2>1 DEF KnockedInv, counts, InSession
<1> QED BY <1>2, <1>3, <1>4, <1>5, <1>6, <1>7, <1>8, ClientSteps

\* Only a login gets a handler to the next stage.
LEMMA TakingLogIn ==
  ASSUME NEW c \in Conn, Types, StageInv(c), Taking(c), ~handler[c].istonextstage, handler'[c].istonextstage
  PROVE  LogIn(c)
<1> DEFINE h == handler[c]
<1>1. h \in HandlerType /\ handler \in [Conn -> HandlerType]
  BY TakingStep, NowType DEF Types, ThreadTypes
<1>2. ~TakeTag(c)
  <2>1. ASSUME Step(c, [h EXCEPT !.islogin = IF Now(c).tag = "login" THEN 1 ELSE 0,
                                 !.continuityIndex = "username"])
        PROVE  FALSE
    BY <1>1, <2>1 DEF Step, HandlerType
  <2>2. ASSUME Step(c, [h EXCEPT !.islogin = 1126]) PROVE FALSE
    BY <1>1, <2>2 DEF Step, HandlerType
  <2> QED BY <2>1, <2>2 DEF TakeTag
<1>3. ~TakeUnexpected(c) /\ ~SignUp(c)
  <2>1. ASSUME NEW x, Step(c, [h EXCEPT !.continuityIndex = x]) PROVE FALSE
    BY <1>1, <2>1 DEF Step, HandlerType
  <2> QED BY <2>1 DEF TakeUnexpected, SignUp
<1>4. ~TakeUsername(c)
  <2>1. ASSUME NEW n, Step(c, [h EXCEPT !.acc = n, !.continuityIndex = "password"]) PROVE FALSE
    BY <1>1, <2>1 DEF Step, HandlerType
  <2> QED BY <2>1 DEF TakeUsername
<1>5. ~RefuseLogin(c)
  <2>1. ASSUME Step(c, [h EXCEPT !.continuityIndex = "none", !.islogin = 0]) PROVE FALSE
    BY <1>1, <2>1 DEF Step, HandlerType
  <2> QED BY <2>1 DEF RefuseLogin
<1>6. ~TakeFileData(c)
  <2>1. ASSUME Step(c, [h EXCEPT !.islogin = Now(c).seg, !.continuityIndex = "none"]) PROVE FALSE
    BY <1>1, <2>1 DEF Step, HandlerType
  <2> QED BY <2>1 DEF TakeFileData
<1>7. ~(TakeTarget(c) \/ TakeMessage(c) \/ TakeKnock(c) \/ TakeOther(c))
  BY DEF TakeTarget, TakeMessage, TakeKnock, TakeOther, Online
<1> QED BY <1>2, <1>3, <1>4, <1>5, <1>6, <1>7 DEF Taking

LEMMA ServerListens ==
  ASSUME NEW c \in Conn, Types, ConnInv(c), JustListenInv(c), Handling(c) \/ Delivering(c), UNCHANGED client
  PROVE  JustListenInv(c)'
<1>1. UNCHANGED <<state, knocks>>
  BY DEF client, counts
<1>2. /\ handler \in [Conn -> HandlerType]
      /\ delivery \in [Conn -> [state : {"none", "starting", "on"}, intact : BOOLEAN, acc : Person]]
  BY DEF Types, ThreadTypes
<1>3. CASE Read(c)
  <2>1. toServer[c] # <<>> /\ closed' = closed
    BY <1>3 DEF Read
  <2> QED BY <1>1, <1>3, <2>1, ReadNames DEF JustListenInv, JustListens
<1>4. CASE ReadEnd(c)
  <2>1. c \in closed'
    BY <1>4 DEF ReadEnd, wire
  <2> QED BY <2>1 DEF JustListenInv, JustListens
<1>5. CASE Taking(c)
  <2>1. closed' = closed /\ handler[c].todo # <<>> /\ StageInv(c)
    BY <1>5, TakingWire, TakingStep DEF ConnInv
  <2> SUFFICES ASSUME JustListens(c, handler[c].acc)'
               PROVE  toServer'[c] = <<>> /\ handler'[c].todo = <<>> /\ delivery'[c].intact
    BY DEF JustListenInv
  <2>2. ~handler[c].istonextstage
    <3> SUFFICES ASSUME handler[c].istonextstage PROVE FALSE
      OBVIOUS
    <3>1. handler'[c].istonextstage /\ handler'[c].acc = handler[c].acc
      BY <1>5, TakingOwned
    <3>2. JustListens(c, handler[c].acc)
      BY <1>1, <2>1, <3>1 DEF JustListens
    <3> QED BY <2>1, <3>2 DEF JustListenInv
  <2>3. LogIn(c) /\ handler'[c].istonextstage
    BY <1>5, <2>1, <2>2, TakingLogIn DEF JustListens
  <2>4. state[c] \in Offered
    BY <1>1, <2>2 DEF JustListens, ConnInv, SessionInv, Owned, InSession, Offered
  <2>5. OfferInv(c)'
    BY <1>5, <2>4, TakingOffer
  <2>6. delivery'[c].intact
    <3>1. delivery' = [delivery EXCEPT ![c] = [state |-> "starting", intact |-> TRUE, acc |-> None]]
      BY <2>3 DEF LogIn
    <3> QED BY <1>2, <3>1
  <2> QED BY <1>1, <2>3, <2>4, <2>5, <2>6 DEF OfferInv
<1>6. CASE StartDelivery(c)
  <2>1. /\ handler' = handler /\ toServer' = toServer /\ closed' = closed
        /\ delivery'[c].intact = delivery[c].intact
    BY <1>2, <1>6 DEF StartDelivery, wire
  <2> QED BY <1>1, <2>1 DEF JustListenInv, JustListens
<1>7. CASE Deliver(c)
  <2>1. closed' = closed /\ toServer' = toServer
    BY <1>7, Delivered
  <2>2. handler' = handler /\ delivery' = delivery
    BY <1>7 DEF Deliver
  <2> QED BY <1>1, <2>1, <2>2 DEF JustListenInv, JustListens
<1> QED BY <1>3, <1>4, <1>5, <1>6, <1>7 DEF Handling, Delivering, Taking

LEMMA ClientListens ==
  ASSUME NEW c \in Conn, Types, ConnInv(c), knocks \in [Conn -> Nat], KnockedInv(c), JustListenInv(c),
         UNCHANGED server, UserActs(c) \/ UserThread(c) \/ ReceiveThread(c)
  PROVE  JustListenInv(c)'
<1>1. handler' = handler /\ delivery' = delivery /\ Types'
  BY ClientTypes DEF server
<1> SUFFICES ASSUME JustListens(c, handler[c].acc)'
             PROVE  toServer'[c] = <<>> /\ handler[c].todo = <<>> /\ delivery[c].intact
  BY <1>1 DEF JustListenInv
<1>2. /\ knocks[c] = 0
      /\ state[c] = "offline" \/ (state[c] \in {"login", "online"} /\ toServer' = toServer)
  BY ClientKnocks DEF JustListens
<1>3. handler[c].istonextstage
  BY <1>1 DEF JustListens
<1>4. state[c] # "offline"
  BY <1>3 DEF ConnInv, OfferInv, Offered
<1>5. c \notin closed
  BY <1>2, Parts
<1>6. JustListens(c, handler[c].acc)
  BY <1>2, <1>3, <1>4, <1>5 DEF JustListens
<1> QED BY <1>2, <1>4, <1>6 DEF JustListenInv

\* Only a delivery thread makes a queue shorter.
LEMMA ShorterQueue ==
  ASSUME IInv, [Next]_vars, NEW n \in Name, Len(queue'[n]) < Len(queue[n])
  PROVE  \E c \in Conn : Deliver(c) /\ UNCHANGED client /\ delivery[c].acc = n
<1>1. Types /\ queue \in [Name -> Seq(Seq(Told))] /\ Len(queue[n]) \in Nat
  BY LenProperties DEF IInv, Types, AccountTypes
<1>2. queue'[n] # queue[n]
  BY <1>1
<1>3. PICK c \in Conn : (Handling(c) \/ Delivering(c)) /\ UNCHANGED client
  BY <1>2 DEF Next, ServerStep, UserStep, ThreadStep, server, accounts, vars
<1>4. ~Taking(c)
  <2> SUFFICES ASSUME Taking(c) PROVE FALSE
    OBVIOUS
  <2>1. AccountTypes' /\ Len(queue'[n]) >= Len(queue[n])
    BY <1>1, TakingAccounts DEF IInv, ConnInv
  <2>2. Len(queue'[n]) \in Nat
    BY <2>1, LenProperties DEF AccountTypes
  <2> QED BY <1>1, <2>1, <2>2
<1>5. Deliver(c)
  BY <1>2, <1>3, <1>4 DEF Handling, Delivering, Taking, Read, ReadEnd, StartDelivery, accounts
<1>6. delivery[c].acc = n
  BY <1>1, <1>2, <1>5 DEF Deliver
<1> QED BY <1>3, <1>5, <1>6

LEMMA LoginInit == Init => LoginInv
<1>1. ASSUME Init, NEW c \in Conn PROVE EnteredInv(c) /\ KnockedInv(c) /\ JustListenInv(c)
  <2>1. /\ ~handler[c].istonextstage /\ handler[c].continuityIndex = "none"
        /\ toServer[c] = <<>> /\ handler[c].todo = <<>> /\ handler[c].buf = <<>> /\ state[c] = "offline"
    BY <1>1 DEF Init, WireInit, ServerInit, ClientInit
  <2> QED BY <2>1 DEF EnteredInv, NamesEntered, KnockedInv, InSession, JustListenInv, JustListens
<1> QED BY <1>1 DEF Init, ClientInit, LoginInv

LEMMA LoginBeside ==
  ASSUME NEW d \in Conn, Untouched(d), knocks'[d] = knocks[d], d \in closed' <=> d \in closed,
         EnteredInv(d) /\ KnockedInv(d) /\ JustListenInv(d)
  PROVE  (EnteredInv(d) /\ KnockedInv(d) /\ JustListenInv(d))'
BY DEF Untouched, EnteredInv, NamesEntered, KnockedInv, JustListenInv, JustListens

LEMMA LoginNext == ASSUME IInv, LoginInv, [Next]_vars PROVE LoginInv'
<1>1. Types /\ Types' /\ knocks \in [Conn -> Nat]
  BY InvNext DEF IInv, LoginInv
<1>2. \A d \in Conn : state'[d] = state[d] => (d \in closed' <=> d \in closed)
  BY <1>1 DEF Types, WireTypes
<1>3. ASSUME NEW c \in Conn, ServerStep(c) PROVE LoginInv'
  <2>1. (Handling(c) \/ Delivering(c)) /\ UNCHANGED client /\ ConnInv(c) /\ StageInv(c)
    BY <1>3 DEF IInv, ConnInv, ServerStep
  <2>2. UNCHANGED <<state, knocks>>
    BY <2>1 DEF client, counts
  <2>3. EnteredInv(c)' /\ JustListenInv(c)'
    BY <1>1, <2>1, ServerEntered, ServerListens DEF LoginInv
  <2>4. KnockedInv(c)'
    BY <2>2 DEF LoginInv, KnockedInv
  <2>5. \A d \in Conn \ {c} : Untouched(d)
    BY <1>1, <2>1, ServerBeside
  <2>6. \A d \in Conn \ {c} : (EnteredInv(d) /\ KnockedInv(d) /\ JustListenInv(d))'
    BY <1>2, <2>2, <2>5, LoginBeside DEF LoginInv
  <2> QED BY <1>1, <2>2, <2>3, <2>4, <2>6 DEF LoginInv
<1>4. ASSUME NEW c \in Conn, UserStep(c) \/ ThreadStep(c) PROVE LoginInv'
  <2>1. (UserActs(c) \/ UserThread(c) \/ ReceiveThread(c)) /\ UNCHANGED server /\ ConnInv(c)
    BY <1>4 DEF IInv, UserStep, ThreadStep
  <2>2. /\ knocks' \in [Conn -> Nat] /\ \A d \in Conn \ {c} : knocks'[d] = knocks[d]
        /\ KnockedInv(c)'
    BY <1>1, <2>1, ClientKnocks DEF LoginInv
  <2>3. EnteredInv(c)' /\ JustListenInv(c)'
    BY <1>1, <2>1, ClientEntered, ClientListens DEF LoginInv
  <2>4. \A d \in Conn \ {c} : Untouched(d) /\ state'[d] = state[d]
    BY <1>1, <2>1, ClientBeside DEF Untouched
  <2>5. \A d \in Conn \ {c} : (EnteredInv(d) /\ KnockedInv(d) /\ JustListenInv(d))'
    BY <1>2, <2>2, <2>4, LoginBeside DEF LoginInv
  <2> QED BY <2>2, <2>3, <2>5 DEF LoginInv
<1>5. CASE UNCHANGED vars
  BY <1>5 DEF vars, wire, server, client, counts, LoginInv, EnteredInv, NamesEntered, KnockedInv,
              JustListenInv, JustListens
<1> QED BY <1>3, <1>4, <1>5 DEF Next

LEMMA LoginsAreApart == Spec => []LoginInv
<1>1. IInv /\ LoginInv /\ [Next]_vars => LoginInv'
  BY LoginNext
<1> QED BY <1>1, LoginInit, Inductive, PTL DEF Spec

\* An account has one connection.
LEMMA OneLogin ==
  ASSUME LoginInv, NEW c \in Conn, NEW d \in Conn, handler[c].istonextstage, handler[d].istonextstage,
         handler[c].acc = handler[d].acc
  PROVE  c = d
BY OneOfEach DEF LoginInv, EnteredInv

\* No job for a user who has only listened since the login is lost on its way
\* from the queue to the connection: the thread that takes it is the one of
\* this user's login, and no command has overwritten its argument.
THEOREM ListenersAreServed == Spec => TellsListeners
<1>1. IInv /\ LoginInv /\ [Next]_vars =>
        \A n \in Name, c \in Conn : Len(queue'[n]) < Len(queue[n]) /\ JustListens(c, n) =>
          toClient'[c] = toClient[c] \o Head(queue[n])
  <2> SUFFICES ASSUME IInv, LoginInv, [Next]_vars, NEW n \in Name, NEW c \in Conn,
                      Len(queue'[n]) < Len(queue[n]), JustListens(c, n)
               PROVE  toClient'[c] = toClient[c] \o Head(queue[n])
    OBVIOUS
  <2>1. PICK d \in Conn : Deliver(d) /\ UNCHANGED client /\ delivery[d].acc = n
    BY ShorterQueue
  <2>2. delivery[d].acc # None
    BY <2>1 DEF Deliver
  <2>3. handler[d].istonextstage /\ handler[d].acc = n
    BY <2>1, <2>2 DEF IInv, ConnInv, StageInv, Deliver
  <2>4. c = d
    BY <2>3, OneLogin DEF JustListens
  <2>5. delivery[c].intact /\ c \notin closed
    BY DEF LoginInv, JustListenInv, JustListens
  <2>6. toClient' = [toClient EXCEPT ![c] = @ \o Head(queue[n])]
    BY <2>1, <2>4, <2>5, Delivered DEF IInv
  <2> QED BY <2>6 DEF IInv, Types, WireTypes
<1> QED BY <1>1, Inductive, LoginsAreApart, PTL DEF Spec, TellsListeners
=============================================================================
