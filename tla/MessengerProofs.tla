--------------------------- MODULE MessengerProofs ---------------------------
(***************************************************************************)
(* The chat system is a messenger, for any number of clients, accounts and *)
(* messages, as long as the connections last and every read ends behind a  *)
(* command: what the server knows about the receiver of a message is what  *)
(* its typist meant, and every step of the system is one of Messenger.tla. *)
(***************************************************************************)
EXTENDS OrderProofs

\* Every read ends behind a command: no file has a segment that does not fit
\* into one.
WholeReads == ~Fragments /\ \A f \in DOMAIN FileLength : FileLength[f] <= 1

LEMMA NoneLong == ASSUME WholeReads, NEW cmd PROVE ~Long(cmd)
<1> SUFFICES ASSUME NEW f \in DOMAIN FileLength, cmd.seg \in 1 .. FileLength[f] - 1 PROVE FALSE
  BY DEF Long
<1>1. FileLength[f] \in Nat /\ FileLength[f] <= 1
  BY WireAssumption DEF WholeReads
<1> QED BY <1>1

\* The commands of a client that its handler has still to execute.
Ahead(c) == handler[c].todo \o toServer[c]

\* In s a message follows the name of its receiver, which is toWhoseAcc for
\* the first.
Aimed(s, toWhoseAcc) == \A k \in DOMAIN s : s[k].tag = "message" =>
  /\ s[k].arg.to \in Name
  /\ IF k = 1 THEN s[1].arg.to = toWhoseAcc ELSE s[k - 1] = Command("username", s[k].arg.to)

AimInv(c) == Free(toServer[c], {"rest"}) /\ Aimed(Ahead(c), handler[c].toWhoseAcc)

\* Only a knock for a name is answered, and only an answer lets the user type.
FriendInv(c) ==
  /\ state[c] \in {"confirm", "typing"} => dst_usr[c] \in Name
  /\ state[c] = "knock" /\ (itsig[c] # <<>> \/ ~Free(toClient[c], Answers)) => dst_usr[c] \in Name

\* What comes to a user is meant for the name the user has entered, and
\* nothing has come yet while that may change.
MeantInv(c) ==
  /\ \A m \in Coming(c) : m.to = username[c]
  /\ \A k \in DOMAIN shown[c] : shown[c][k][2].to = username[c]
  /\ state[c] \in Offered => shown[c] = <<>>

TargetInv == /\ \A c \in Conn : AimInv(c) /\ FriendInv(c) /\ MeantInv(c)
             /\ \A n \in Name : \A m \in Queued(n) : m.to = n
-----------------------------------------------------------------------------
(* Sequences of commands. *)

\* The first command is taken from the front of two sequences.
LEMMA TailJoin ==
  ASSUME NEW S, NEW s \in Seq(S), NEW t \in Seq(S), s # <<>>
  PROVE  s \o t # <<>> /\ Tail(s \o t) = Tail(s) \o t /\ Head(s \o t) = Head(s)
<1> DEFINE st == s \o t
           u == Tail(s) \o t
<1>1. /\ st \in Seq(S) /\ Len(st) = Len(s) + Len(t)
      /\ \A i \in 1 .. Len(s) + Len(t) : st[i] = IF i <= Len(s) THEN s[i] ELSE t[i - Len(s)]
  BY ConcatProperties
<1>2. /\ Len(s) \in Nat \ {0} /\ Len(t) \in Nat
  BY EmptySeq, LenProperties
<1>3. /\ Tail(s) \in Seq(S) /\ Len(Tail(s)) = Len(s) - 1 /\ Head(s) = s[1]
      /\ \A i \in 1 .. Len(Tail(s)) : Tail(s)[i] = s[i + 1]
  BY HeadTailProperties, TailKeeps
<1>4. /\ u \in Seq(S) /\ Len(u) = Len(Tail(s)) + Len(t)
      /\ \A i \in 1 .. Len(Tail(s)) + Len(t) :
           u[i] = IF i <= Len(Tail(s)) THEN Tail(s)[i] ELSE t[i - Len(Tail(s))]
  BY <1>3, ConcatProperties
<1>5. st # <<>>
  BY <1>2, ConcatEqualIffEmpty
<1>6. /\ Tail(st) \in Seq(S) /\ Len(Tail(st)) = Len(st) - 1 /\ Head(st) = st[1]
      /\ \A i \in 1 .. Len(Tail(st)) : Tail(st)[i] = st[i + 1]
  BY <1>1, <1>5, HeadTailProperties, TailKeeps
<1> HIDE DEF st, u
<1>7. Head(st) = s[1]
  BY <1>1, <1>2, <1>6
<1>8. ASSUME NEW i \in 1 .. Len(Tail(st)) PROVE Tail(st)[i] = u[i]
  <2>1. i \in Nat /\ i + 1 \in 1 .. Len(s) + Len(t) /\ i \in 1 .. Len(Tail(s)) + Len(t)
    BY <1>1, <1>2, <1>3, <1>6
  <2>2. Tail(st)[i] = st[i + 1]
    BY <1>6
  <2>3. CASE i <= Len(Tail(s))
    <3>1. i + 1 <= Len(s) /\ i \in 1 .. Len(Tail(s))
      BY <2>1, <2>3, <1>2, <1>3
    <3> QED BY <2>1, <2>2, <2>3, <3>1, <1>1, <1>3, <1>4
  <2>4. CASE ~(i <= Len(Tail(s)))
    <3>1. ~(i + 1 <= Len(s)) /\ i + 1 - Len(s) = i - Len(Tail(s))
      BY <2>1, <2>4, <1>2, <1>3
    <3> QED BY <2>1, <2>2, <2>4, <3>1, <1>1, <1>4
  <2> QED BY <2>3, <2>4
<1>9. Len(Tail(st)) = Len(u)
  BY <1>1, <1>2, <1>3, <1>4, <1>6
<1>10. Tail(st) = u
  BY <1>4, <1>6, <1>8, <1>9, SeqEqual
<1> QED BY <1>3, <1>5, <1>7, <1>10 DEF st, u

\* When a name of a receiver has been taken, the next message is for it.
LEMMA AimedTail ==
  ASSUME NEW S, NEW s \in Seq(S), s # <<>>, NEW old, NEW new, Aimed(s, old),
         Head(s).tag = "username" /\ Head(s).arg \in Name => new = Head(s).arg
  PROVE  Aimed(Tail(s), new) /\ (Head(s).tag = "message" => Head(s).arg.to = old)
<1>1. /\ Tail(s) \in Seq(S) /\ Head(s) = s[1] /\ 1 \in DOMAIN s
      /\ \A k \in DOMAIN Tail(s) : k + 1 \in DOMAIN s /\ k \in Nat /\ Tail(s)[k] = s[k + 1]
  BY TailKeeps
<1>2. DOMAIN Tail(s) = 1 .. Len(Tail(s)) /\ Len(Tail(s)) \in Nat
  BY <1>1, LenProperties
<1>3. Head(s).tag = "message" => Head(s).arg.to = old
  BY <1>1 DEF Aimed
<1> SUFFICES ASSUME NEW k \in DOMAIN Tail(s), Tail(s)[k].tag = "message"
             PROVE  /\ Tail(s)[k].arg.to \in Name
                    /\ IF k = 1 THEN Tail(s)[1].arg.to = new
                       ELSE Tail(s)[k - 1] = Command("username", Tail(s)[k].arg.to)
  BY <1>3 DEF Aimed
<1>4. k \in Nat /\ k >= 1 /\ k + 1 # 1 /\ (k + 1) - 1 = k /\ k + 1 \in DOMAIN s /\ Tail(s)[k] = s[k + 1]
  BY <1>1, <1>2
<1>5. s[k + 1].arg.to \in Name /\ s[k] = Command("username", s[k + 1].arg.to)
  BY <1>4 DEF Aimed
<1>6. CASE k = 1
  <2>1. Head(s).tag = "username" /\ Head(s).arg = Tail(s)[1].arg.to /\ Head(s).arg \in Name
    BY <1>1, <1>4, <1>5, <1>6 DEF Command
  <2> QED BY <2>1, <1>4, <1>5, <1>6
<1>7. CASE k # 1
  <2>1. k - 1 \in DOMAIN Tail(s) /\ (k - 1) + 1 = k
    BY <1>2, <1>4, <1>7
  <2>2. Tail(s)[k - 1] = s[k]
    BY <1>1, <2>1
  <2> QED BY <2>2, <1>4, <1>5, <1>7
<1> QED BY <1>6, <1>7

\* In t every message follows its receiver's name.
Follows(t) == \A k \in DOMAIN t : t[k].tag = "message" =>
  t[k].arg.to \in Name /\ k > 1 /\ t[k - 1] = Command("username", t[k].arg.to)

LEMMA AimedJoin ==
  ASSUME NEW S, NEW s \in Seq(S), NEW t \in Seq(S), NEW p, Aimed(s, p), Follows(t)
  PROVE  Aimed(s \o t, p)
<1> DEFINE st == s \o t
<1>1. /\ Len(s) \in Nat /\ Len(t) \in Nat /\ DOMAIN st = 1 .. Len(s) + Len(t)
      /\ DOMAIN s = 1 .. Len(s) /\ DOMAIN t = 1 .. Len(t)
  BY ConcatKeeps, LenProperties
<1>2. \A k \in 1 .. Len(s) + Len(t) : st[k] = IF k <= Len(s) THEN s[k] ELSE t[k - Len(s)]
  BY ConcatProperties
<1> HIDE DEF st
<1> SUFFICES ASSUME NEW k \in DOMAIN st, st[k].tag = "message"
             PROVE  /\ st[k].arg.to \in Name
                    /\ IF k = 1 THEN st[1].arg.to = p ELSE st[k - 1] = Command("username", st[k].arg.to)
  BY DEF Aimed, st
<1>3. CASE k <= Len(s)
  <2>1. k \in DOMAIN s /\ st[k] = s[k] /\ (k # 1 => st[k - 1] = s[k - 1])
    BY <1>1, <1>2, <1>3
  <2> QED BY <2>1 DEF Aimed
<1>4. CASE k > Len(s)
  <2> DEFINE j == k - Len(s)
  <2>1. j \in DOMAIN t /\ st[k] = t[j]
    BY <1>1, <1>2, <1>4
  <2>2. t[j].arg.to \in Name /\ j > 1 /\ t[j - 1] = Command("username", t[j].arg.to)
    BY <2>1, <1>4 DEF Follows
  <2>3. k # 1 /\ k - 1 \in 1 .. Len(s) + Len(t) /\ ~(k - 1 <= Len(s)) /\ (k - 1) - Len(s) = j - 1
    BY <2>2, <1>1
  <2>4. st[k - 1] = t[j - 1]
    BY <2>3, <1>2
  <2> HIDE DEF j
  <2> QED BY <2>1, <2>2, <2>3, <2>4
<1> QED BY <1>1, <1>3, <1>4

LEMMA NothingAimed == ASSUME NEW s, NEW p, Texts(s) = {} PROVE Aimed(s, p)
BY IsText DEF Aimed
-----------------------------------------------------------------------------
(* The server knows whom a message is for. *)

LEMMA AheadType ==
  ASSUME NEW c \in Conn, Types
  PROVE  /\ handler[c].todo \in Seq(Asked \cup {Escape}) /\ toServer[c] \in Seq(Asked \cup {Escape})
         /\ toServer[c] \in Seq(Asked) /\ Ahead(c) \in Seq(Asked \cup {Escape})
<1>1. handler[c].todo \in Seq(Asked \cup {Escape}) /\ toServer[c] \in Seq(Asked)
  BY Parts
<1>2. toServer[c] \in Seq(Asked \cup {Escape})
  BY <1>1, SeqMonotonic
<1> QED BY <1>1, <1>2, ConcatProperties DEF Ahead

\* A read takes whole commands, and no Rest is left to make an escape of.
LEMMA ReadAhead ==
  ASSUME WholeReads, NEW c \in Conn, Types, Free(toServer[c], {"rest"}), Read(c)
  PROVE  /\ Ahead(c)' = Ahead(c) /\ handler'[c].toWhoseAcc = handler[c].toWhoseAcc
         /\ Free(toServer'[c], {"rest"})
         /\ \A T : Free(Ahead(c), T) => Free(handler'[c].buf, T)
<1> DEFINE s == toServer[c]
<1>1. PICK k \in 1 .. Len(s) :
        /\ handler' = [handler EXCEPT ![c].buf = SubSeq(s, 1, k), ![c].todo = Parsed(SubSeq(s, 1, k))]
        /\ toServer' = [toServer EXCEPT ![c] = SubSeq(s, k + 1, Len(s))]
  <2>1. PICK k \in 0 .. Len(s) :
          /\ handler' = [handler EXCEPT ![c].buf = SubSeq(s, 1, k), ![c].todo = Parsed(SubSeq(s, 1, k))]
          /\ k > 0 /\ toServer' = [toServer EXCEPT ![c] = SubSeq(s, k + 1, Len(s))]
    BY NoneLong DEF Read, WholeReads
  <2>2. k \in 1 .. Len(s)
    <3>1. Len(s) \in Nat
      BY AheadType, LenProperties
    <3> QED BY <2>1, <3>1
  <2> QED BY <2>1, <2>2
<1> DEFINE got == SubSeq(s, 1, k)
           left == SubSeq(s, k + 1, Len(s))
<1>2. /\ s \in Seq(Asked) /\ Len(s) \in Nat /\ DOMAIN s = 1 .. Len(s)
      /\ \A j \in 1 .. Len(s) : s[j] \in Asked
  BY AheadType, LenProperties, ElementOfSeq
<1>3. got[1] = s[1] /\ \A i \in DOMAIN got : i \in DOMAIN s /\ got[i] = s[i]
  <2>1. 1 \in Int /\ k \in Int /\ \A i \in 1 .. k : s[i] \in Asked
    BY <1>2
  <2>2. /\ got \in Seq(Asked) /\ Len(got) = IF 1 <= k THEN k - 1 + 1 ELSE 0
        /\ \A i \in 1 .. k - 1 + 1 : got[i] = s[1 + i - 1]
    BY <2>1, SubSeqProperties
  <2>3. Len(got) = k /\ DOMAIN got = 1 .. k
    BY <2>2, LenProperties
  <2> HIDE DEF got
  <2> QED BY <2>2, <2>3, <1>2
<1>4. left \in Seq(Asked) /\ Len(left) = Len(s) - k /\ \A j \in 1 .. Len(left) : left[j] = s[j + k]
  BY <1>2, LeftEnds
<1>5. got \o left = s
  <2>1. 1 \in 1 .. Len(s) + 1 /\ k \in 1 - 1 .. Len(s) /\ Len(s) \in k .. Len(s)
    BY <1>2
  <2>2. got \o left = SubSeq(s, 1, Len(s))
    BY <2>1, <1>2, ConcatAdjacentSubSeq
  <2> QED BY <2>2, <1>2, SubSeqFull
<1>6. handler[c].todo = <<>> /\ handler \in [Conn -> HandlerType]
  BY DEF Read, Types, ThreadTypes
<1>7. /\ handler'[c].todo = Parsed(got) /\ handler'[c].buf = got
      /\ handler'[c].toWhoseAcc = handler[c].toWhoseAcc
  BY <1>1, <1>6 DEF HandlerType
<1>8. toServer'[c] = left
  BY <1>1 DEF Types, WireTypes
<1>9. Ahead(c) = s
  BY <1>2, <1>6, ConcatEmptySeq DEF Ahead
<1> HIDE DEF s, got, left
<1>10. Free(s, {"rest"})
  BY DEF s
<1>11. Parsed(got) = got
  <2>1. s[1].tag # "rest"
    BY <1>1, <1>2, <1>10 DEF Free
  <2>2. got[1] # Rest
    BY <2>1, <1>3 DEF Rest, Tag
  <2> QED BY <2>2 DEF Parsed
<1>12. Free(left, {"rest"})
  <2>1. DOMAIN left = 1 .. Len(left)
    BY <1>4, LenProperties
  <2>2. ASSUME NEW j \in DOMAIN left PROVE left[j].tag # "rest"
    <3>1. j \in 1 .. Len(left) /\ left[j] = s[j + k]
      BY <2>1, <1>4
    <3>2. j + k \in DOMAIN s
      BY <3>1, <1>2, <1>4
    <3> QED BY <3>1, <3>2, <1>10 DEF Free
  <2> QED BY <2>2 DEF Free
<1>13. Ahead(c)' = s
  BY <1>5, <1>7, <1>8, <1>11 DEF Ahead
<1>14. \A T : Free(s, T) => Free(got, T)
  BY <1>3 DEF Free
<1> QED BY <1>7, <1>8, <1>9, <1>12, <1>13, <1>14

LEMMA ReadAim ==
  ASSUME WholeReads, NEW c \in Conn, Types, AimInv(c), Read(c) PROVE AimInv(c)'
<1>1. /\ Ahead(c)' = Ahead(c) /\ handler'[c].toWhoseAcc = handler[c].toWhoseAcc
      /\ Free(toServer'[c], {"rest"})
  BY ReadAhead DEF AimInv
<1> QED BY <1>1 DEF AimInv

\* A command is taken from the front.
LEMMA TakingAhead ==
  ASSUME NEW c \in Conn, Types, StageInv(c), Taking(c), UNCHANGED client
  PROVE  Ahead(c) # <<>> /\ Ahead(c)' = Tail(Ahead(c)) /\ Now(c) = Head(Ahead(c))
<1> DEFINE h == handler[c]
<1>1. /\ h.todo # <<>> /\ h.todo \in Seq(Asked \cup {Escape}) /\ toServer[c] \in Seq(Asked \cup {Escape})
      /\ handler'[c].todo = Tail(h.todo) /\ toServer' = toServer
  BY TakingTexts, AheadType DEF Types
<1>2. Ahead(c)' = Tail(h.todo) \o toServer[c] /\ Ahead(c) = h.todo \o toServer[c] /\ Now(c) = Head(h.todo)
  BY <1>1 DEF Ahead, Now
<1> HIDE DEF h
<1> DEFINE t == h.todo
           u == toServer[c]
<1>3. t \in Seq(Asked \cup {Escape}) /\ u \in Seq(Asked \cup {Escape}) /\ t # <<>>
  BY <1>1
<1> HIDE DEF t, u
<1>4. t \o u # <<>> /\ Tail(t \o u) = Tail(t) \o u /\ Head(t \o u) = Head(t)
  BY <1>3, TailJoin
<1> QED BY <1>2, <1>4 DEF t, u

LEMMA TakingAim ==
  ASSUME NEW c \in Conn, Types, StageInv(c), TypistInv(c), AimInv(c), Taking(c), UNCHANGED client
  PROVE  /\ AimInv(c)'
         /\ TakeMessage(c) => Now(c).arg.to = handler[c].toWhoseAcc
<1> DEFINE h == handler[c]
<1>1. /\ h.todo # <<>> /\ h.todo \in Seq(Asked \cup {Escape}) /\ toServer[c] \in Seq(Asked \cup {Escape})
      /\ handler'[c].todo = Tail(h.todo) /\ toServer' = toServer /\ Now(c) \in Asked \cup {Escape}
  BY TakingTexts, AheadType, NowType DEF Types
<1>2. Ahead(c) # <<>> /\ Ahead(c)' = Tail(Ahead(c)) /\ Now(c) = Head(Ahead(c))
  BY TakingAhead
<1>3. Aimed(Ahead(c), h.toWhoseAcc) /\ Ahead(c) \in Seq(Asked \cup {Escape})
  BY AheadType DEF AimInv
<1>4. TakeMessage(c) => Now(c).arg.to = h.toWhoseAcc
  BY <1>2, <1>3, AimedTail DEF TakeMessage
<1>5. Aimed(Ahead(c)', handler'[c].toWhoseAcc)
  <2>1. CASE h.istonextstage
    <3>1. ASSUME Now(c).tag = "username", Now(c).arg \in Name PROVE handler'[c].toWhoseAcc = Now(c).arg
      <4>1. TwoArguments(Now(c))
        BY <3>1, WireAssumption DEF TwoArguments, HasArgument, TagOnly
      <4>2. TakeTarget(c)
        BY <2>1, <3>1, <4>1 DEF Taking, TakeTag, TakeUnexpected, TakeUsername, SignUp, LogIn, RefuseLogin, Expected,
                                Offline, TakeMessage, TakeFileData, TakeKnock, TakeOther
      <4>3. handler' = [handler EXCEPT ![c] = [[h EXCEPT !.toWhoseAcc = Now(c).arg] EXCEPT !.todo = Tail(@)]]
        BY <4>2 DEF TakeTarget, Step
      <4> QED BY <4>3 DEF Types, ThreadTypes, HandlerType
    <3> QED BY <3>1, <1>2, <1>3, AimedTail
  <2>2. CASE ~h.istonextstage
    <3>1. ~(typed[c] > 0)
      BY <2>2 DEF TypistInv
    <3>2. Texts(h.todo) = {} /\ Texts(toServer[c]) = {}
      BY <3>1 DEF TypistInv
    <3>3. Texts(Tail(h.todo)) = {}
      BY <1>1, <3>2, TailTexts
    <3>4. Texts(Tail(h.todo) \o toServer[c]) = {}
      <4>1. Tail(h.todo) \in Seq(Asked \cup {Escape})
        BY <1>1, TailKeeps
      <4>2. Texts(Tail(h.todo) \o toServer[c]) = Texts(Tail(h.todo)) \cup Texts(toServer[c])
        <5> HIDE DEF h
        <5> QED BY <1>1, <4>1, JoinedTexts
      <4> QED BY <3>2, <3>3, <4>2
    <3>5. Texts(Ahead(c)') = {}
      BY <1>1, <3>4 DEF Ahead
    <3> QED BY <3>5, NothingAimed
  <2> QED BY <2>1, <2>2
<1> QED BY <1>1, <1>4, <1>5 DEF AimInv

LEMMA ServerAim ==
  ASSUME WholeReads, NEW c \in Conn, Types, StageInv(c), TypistInv(c), LastInv(c), ~crashed, AimInv(c),
         Handling(c) \/ Delivering(c), UNCHANGED client
  PROVE  AimInv(c)'
<1>1. CASE ReadEnd(c)
  <2>1. Texts(handler'[c].todo) \subseteq Texts(handler[c].buf) /\ c \in closed
    BY <1>1, ReadEndTexts
  <2>2. ~(typed[c] > 0)
    BY <2>1, Parts DEF LastInv
  <2>3. Texts(handler'[c].todo) = {}
    BY <2>1, <2>2 DEF TypistInv
  <2>4. toServer[c] = <<>> /\ toServer' = toServer
    BY <1>1 DEF ReadEnd, wire
  <2>5. handler'[c].todo \in Seq(Asked \cup {Escape})
    <3>1. Types'
      BY <1>1, ReadEndTypes
    <3> QED BY <3>1 DEF Types, ThreadTypes, HandlerType
  <2>6. Ahead(c)' = handler'[c].todo
    BY <2>4, <2>5, ConcatEmptySeq DEF Ahead
  <2>7. Aimed(Ahead(c)', handler'[c].toWhoseAcc)
    BY <2>3, <2>6, NothingAimed
  <2> QED BY <2>4, <2>7 DEF AimInv
<1>2. CASE StartDelivery(c) \/ Deliver(c)
  <2>1. handler' = handler /\ toServer' = toServer
    BY <1>2 DEF StartDelivery, Deliver, wire
  <2> QED BY <2>1 DEF AimInv, Ahead
<1> QED BY <1>1, <1>2, ReadAim, TakingAim DEF Handling, Delivering, Taking

\* Whatever a client sends, a message comes behind its receiver's name.
LEMMA AheadSends ==
  ASSUME NEW c \in Conn, Types, AimInv(c), NEW R, NEW t \in Seq(R), Follows(t), Free(t, {"rest"}),
         toServer'[c] = toServer[c] \o t, handler' = handler
  PROVE  AimInv(c)'
<1> DEFINE S == Asked \cup {Escape} \cup R
           h == handler[c].todo
           s == toServer[c]
<1>1. h \in Seq(S) /\ s \in Seq(S) /\ t \in Seq(S)
  BY AheadType, SeqMonotonic
<1>2. Ahead(c) = h \o s /\ Ahead(c)' = h \o (s \o t) /\ toServer'[c] = s \o t
  BY DEF Ahead
<1>3. Aimed(h \o s, handler[c].toWhoseAcc) /\ Free(s, {"rest"})
  BY <1>2 DEF AimInv
<1> HIDE DEF S, h, s
<1>4. h \o s \in Seq(S) /\ (h \o s) \o t = h \o (s \o t)
  BY <1>1, ConcatProperties, ConcatAssociative
<1>5. Aimed((h \o s) \o t, handler[c].toWhoseAcc)
  BY <1>1, <1>3, <1>4, AimedJoin
<1>6. Free(s \o t, {"rest"})
  BY <1>1, <1>3, ConcatKeeps
<1> QED BY <1>2, <1>4, <1>5, <1>6 DEF AimInv

LEMMA ClientAim ==
  ASSUME NEW c \in Conn, Types, AimInv(c), FriendInv(c),
         UserActs(c) \/ UserThread(c) \/ ReceiveThread(c), UNCHANGED server
  PROVE  AimInv(c)'
<1>1. handler' = handler
  BY DEF server
<1>2. CASE TypeMessage(c)
  <2> DEFINE x == Command("username", dst_usr[c])
             y == Command("message", Typed(c))
  <2>1. state[c] = "typing" /\ toServer'[c] = toServer[c] \o <<x, y>>
    BY <1>2, TypedTexts
  <2>2. dst_usr[c] \in Name /\ Typed(c).to = dst_usr[c]
    BY <2>1 DEF FriendInv, Typed
  <2>3. <<x, y>> \in Seq({x, y}) /\ DOMAIN <<x, y>> = {1, 2}
    BY LenProperties
  <2>4. /\ x.tag = "username" /\ y.tag = "message" /\ y.arg = Typed(c)
        /\ x = Command("username", y.arg.to)
    BY <2>2 DEF Command
  <2> HIDE DEF x, y
  <2>5. Follows(<<x, y>>)
    BY <2>2, <2>3, <2>4 DEF Follows
  <2>6. Free(<<x, y>>, {"rest"})
    BY <2>3, <2>4 DEF Free
  <2> QED BY <1>1, <2>1, <2>3, <2>5, <2>6, AheadSends
<1>3. CASE ~TypeMessage(c)
  <2>1. CASE toServer' = toServer
    BY <1>1, <2>1 DEF AimInv, Ahead
  <2>2. ASSUME NEW R, NEW t \in Seq(R), Free(t, {"message", "rest"}), toServer'[c] = toServer[c] \o t
        PROVE  AimInv(c)'
    <3>1. Free(t, {"rest"}) /\ Follows(t)
      BY <2>2 DEF Free, Follows
    <3> QED BY <1>1, <2>2, <3>1, AheadSends
  <2> QED BY <1>3, <2>1, <2>2, ClientSays
<1> QED BY <1>2, <1>3
-----------------------------------------------------------------------------
(* Whom the user writes to. *)

LEMMA ServerFriend ==
  ASSUME NEW c \in Conn, Types, ConnInv(c), FriendInv(c), Handling(c) \/ Delivering(c), UNCHANGED client
  PROVE  FriendInv(c)'
<1>1. UNCHANGED <<state, dst_usr, itsig>>
  BY DEF client, user, inbox
<1>2. SUFFICES ASSUME state[c] = "knock", ~Free(toClient'[c], Answers), Free(toClient[c], Answers)
               PROVE  dst_usr[c] \in Name
  BY <1>1 DEF FriendInv
<1>3. "knock" \in InSession /\ "knock" # "exited"
  BY DEF InSession
<1>4. c \notin closed /\ handler[c].istonextstage
  BY <1>2, <1>3, Parts DEF ConnInv, SessionInv, Owned
<1>5. toClient[c] \in Seq(Told \cup [tag : Answers]) /\ toClient \in [Conn -> Seq(Told \cup [tag : Answers])]
  BY Parts DEF Types, WireTypes
<1>6. CASE Read(c) \/ ReadEnd(c) \/ StartDelivery(c)
  BY <1>2, <1>6 DEF Read, ReadEnd, StartDelivery, wire
<1>7. CASE Deliver(c)
  <2>1. PICK job \in Seq(Told) : toClient' = toClient \/ toClient' = [toClient EXCEPT ![c] = @ \o job]
    BY <1>7, Delivered
  <2>2. Free(job, Answers)
    <3>1. \A k \in DOMAIN job : job[k] \in Told
      BY <2>1, ElementOfSeq, LenProperties
    <3> QED BY <3>1 DEF Free, Told, Source, Said, Answers
  <2>3. toClient'[c] = toClient[c] \/ toClient'[c] = toClient[c] \o job
    BY <1>5, <2>1
  <2>4. Free(toClient[c] \o job, Answers)
    BY <1>2, <1>5, <2>1, <2>2, ConcatKeeps
  <2> QED BY <1>2, <2>3, <2>4
<1>8. CASE Taking(c)
  <2>1. handler[c].todo # <<>> /\ handler[c].todo \in Seq(Asked \cup {Escape}) /\ Now(c) \in Asked \cup {Escape}
    BY <1>8, TakingTexts, NowType DEF ConnInv, Types
  <2>2. TakeKnock(c)
    BY <1>2, <1>4, <1>8 DEF Taking, TakeTag, TakeUnexpected, TakeUsername, SignUp, LogIn, RefuseLogin, Expected,
                            Offline, TakeTarget, TakeMessage, TakeFileData, TakeOther, wire
  <2>3. Now(c).tag = "knock" /\ Now(c).arg # None /\ Now(c).arg \in Person
    BY <2>1, <2>2, AskedParts DEF TakeKnock, TwoArguments
  <2>4. Now(c) = handler[c].todo[1] /\ 1 \in DOMAIN handler[c].todo
    BY <2>1, TailKeeps DEF Now
  <2>5. Now(c).arg = dst_usr[c]
    BY <1>2, <2>3, <2>4 DEF ConnInv, KnockInv
  <2> QED BY <2>3, <2>5 DEF Person
<1> QED BY <1>6, <1>7, <1>8 DEF Handling, Delivering, Taking

LEMMA ClientFriend ==
  ASSUME NEW c \in Conn, Types, ConnInv(c), FriendInv(c),
         UserActs(c) \/ UserThread(c) \/ ReceiveThread(c), UNCHANGED server
  PROVE  FriendInv(c)'
<1>1. state \in [Conn -> Offered \cup InSession \cup {"exited"}] /\ toClient[c] \in Seq(Told \cup [tag : Answers])
  BY Parts DEF Types, UserTypes
<1>2. CASE AskSignUp(c) \/ AskLogIn(c) \/ Answered(c) \/ Ending(c)
  <2>1. state'[c] \in {"signup", "login", "offline", "online", "exited"}
    <3>1. CASE AskSignUp(c) \/ AskLogIn(c)
      BY <1>1, <3>1, AskTypes
    <3>2. CASE Answered(c)
      BY <1>1, <3>2, AnsweredTypes
    <3>3. CASE Ending(c)
      BY <1>1, <3>3, EndingTypes
    <3> QED BY <1>2, <3>1, <3>2, <3>3
  <2> QED BY <2>1 DEF FriendInv
<1>3. CASE Knocking(c)
  <2>1. state[c] \in {"online", "typing"} /\ state'[c] = "knock" /\ UNCHANGED <<itsig, toClient>>
    BY <1>1, <1>3, KnockingTypes DEF inbox
  <2>2. itsig[c] = <<>> /\ Free(toClient[c], Answers)
    BY <2>1 DEF ConnInv, RequestInv, Awaiting
  <2> QED BY <2>1, <2>2 DEF FriendInv
<1>4. CASE Moving(c)
  <2>1. state[c] \in Quiet /\ state'[c] \in Quiet /\ dst_usr' = dst_usr
    BY <1>1, <1>4, MovingTypes DEF user
  <2>2. state'[c] \in {"confirm", "typing"} => state[c] \in {"confirm", "typing"}
    BY <1>1, <1>4 DEF Moving, Confirm, TypeMessage, EndMessage, LogOut, ChooseFiles, SendSegment, SendEnd, RemoveFile,
                      FilesSent, Goto
  <2> QED BY <2>1, <2>2 DEF FriendInv, Quiet
<1>5. CASE FriendIs(c)
  <2>1. state[c] = "knock" /\ state'[c] \in Quiet /\ itsig[c] # <<>> /\ dst_usr' = dst_usr
    BY <1>1, <1>5, FriendIsTypes DEF user
  <2> QED BY <2>1 DEF FriendInv, Quiet
<1>6. CASE ReceiveThread(c)
  <2>1. /\ state' = state /\ dst_usr' = dst_usr
        /\ \/ toClient' = toClient /\ itsig' = itsig
           \/ /\ toClient[c] # <<>> /\ toClient' = [toClient EXCEPT ![c] = Tail(toClient[c])]
              /\ \/ itsig' = itsig
                 \/ Head(toClient[c]).tag \in {"user-online", "user-offline"}
    BY <1>6, ReceivingTypes DEF user
  <2>2. CASE toClient[c] # <<>> /\ toClient' = [toClient EXCEPT ![c] = Tail(toClient[c])]
    <3>1. toClient'[c] = Tail(toClient[c])
      BY <2>2 DEF Types, WireTypes
    <3>2. Free(toClient[c], Answers) => Free(toClient'[c], Answers)
      BY <1>1, <2>2, <3>1, TailKeeps
    <3>3. Head(toClient[c]).tag \in {"user-online", "user-offline"} => ~Free(toClient[c], Answers)
      <4>1. Head(toClient[c]) = toClient[c][1] /\ 1 \in DOMAIN toClient[c]
        BY <1>1, <2>2, TailKeeps
      <4> QED BY <4>1 DEF Free, Answers
    <3> QED BY <2>1, <3>2, <3>3 DEF FriendInv
  <2> QED BY <2>1, <2>2 DEF FriendInv
<1> QED BY <1>2, <1>3, <1>4, <1>5, <1>6, ClientSteps
-----------------------------------------------------------------------------
(* Messages come to whom they are meant for. *)

\* A delivery thread writes to a user of its account.
LEMMA Served ==
  ASSUME NEW c \in Conn, Types, ConnInv(c), delivery[c].acc # None, c \notin closed
  PROVE  username[c] = delivery[c].acc
<1>1. delivery[c].state # "none" /\ delivery[c].acc = handler[c].acc /\ handler[c].istonextstage
  BY DEF ConnInv, StageInv
<1>2. Owned(c)
  <2>1. state[c] \in Offered \/ state[c] \in InSession
    BY Parts
  <2> QED BY <1>1, <2>1 DEF ConnInv, OfferInv, SessionInv, Granted, Refused
<1> QED BY <1>1, <1>2 DEF Owned

LEMMA ServerMeant ==
  ASSUME NEW c \in Conn, Types, ConnInv(c), MeantInv(c),
         \A n \in Name : JobInv(n) /\ \A m \in Queued(n) : m.to = n,
         Handling(c) \/ Delivering(c), UNCHANGED client
  PROVE  MeantInv(c)'
<1>1. UNCHANGED <<state, username, shown>> /\ toClient[c] \in Seq(Told \cup [tag : Answers])
  BY Parts DEF client, user, inbox
<1> SUFFICES \A m \in Coming(c)' : m.to = username[c]
  BY <1>1 DEF MeantInv
<1>2. CASE Coming(c)' = Coming(c)
  BY <1>2 DEF MeantInv
<1>3. CASE Read(c) \/ ReadEnd(c) \/ StartDelivery(c)
  <2>1. toClient' = toClient
    BY <1>3 DEF Read, ReadEnd, StartDelivery, wire
  <2> QED BY <1>2, <2>1 DEF Coming
<1>4. CASE Taking(c)
  <2>1. toClient'[c] = toClient[c] \/ \E t \in Answers : toClient'[c] = toClient[c] \o <<Tag(t)>>
    BY <1>4, TakingTexts DEF ConnInv
  <2>2. ASSUME NEW t \in Answers, toClient'[c] = toClient[c] \o <<Tag(t)>>
        PROVE  Texts(toClient'[c]) = Texts(toClient[c])
    <3>1. <<Tag(t)>> \in Seq({Tag(t)}) /\ Free(<<Tag(t)>>, {"message"})
      BY DEF Answers, Tag, Free
    <3>2. Texts(toClient[c] \o <<Tag(t)>>) = Texts(toClient[c])
      BY <1>1, <3>1, Mute
    <3> QED BY <2>2, <3>2
  <2>3. Texts(toClient'[c]) = Texts(toClient[c])
    BY <2>1, <2>2
  <2> QED BY <1>2, <2>3 DEF Coming
<1>5. ASSUME Deliver(c), NEW n \in Name, n = delivery[c].acc PROVE \A m \in Coming(c)' : m.to = username[c]
  <2> DEFINE job == Head(queue[n])
  <2>1. /\ queue[n] \in Seq(Seq(Told)) /\ queue[n] # <<>> /\ job \in Seq(Told)
        /\ queue' = [queue EXCEPT ![n] = Tail(queue[n])]
        /\ \/ toClient' = toClient
           \/ c \notin closed /\ toClient' = [toClient EXCEPT ![c] = @ \o job]
    BY <1>5, Delivered
  <2>2. queue'[n] = Tail(queue[n])
    BY <2>1 DEF Types, AccountTypes
  <2>3. Texts(job) \subseteq Queued(n)
    BY <2>1, <2>2, HeadJob
  <2> HIDE DEF job
  <2>4. CASE toClient' = toClient
    BY <1>2, <2>4 DEF Coming
  <2>5. CASE c \notin closed /\ toClient' = [toClient EXCEPT ![c] = @ \o job]
    <3>1. toClient'[c] = toClient[c] \o job
      BY <2>5 DEF Types, WireTypes
    <3>2. Coming(c)' = Coming(c) \cup Texts(job)
      <4>1. Texts(toClient[c] \o job) = Texts(toClient[c]) \cup Texts(job)
        BY <1>1, <2>1, JoinedTexts
      <4> QED BY <3>1, <4>1 DEF Coming
    <3>3. n # None
      BY WireAssumption
    <3>4. username[c] = n
      BY <1>5, <2>5, <3>3, Served
    <3> QED BY <2>3, <3>2, <3>4 DEF MeantInv
  <2> QED BY <2>1, <2>4, <2>5
<1>6. CASE Deliver(c)
  <2>1. delivery[c].acc \in Name
    BY <1>6, Delivered
  <2> QED BY <1>5, <1>6, <2>1
<1> QED BY <1>3, <1>4, <1>6 DEF Handling, Delivering, Taking

LEMMA ServerQueued ==
  ASSUME NEW c \in Conn, Types, StageInv(c), TypistInv(c), AimInv(c),
         \A n \in Name : JobInv(n) /\ \A m \in Queued(n) : m.to = n,
         Handling(c) \/ Delivering(c), UNCHANGED client
  PROVE  \A n \in Name : \A m \in Queued(n)' : m.to = n
<1> SUFFICES ASSUME NEW n \in Name PROVE \A m \in Queued(n)' : m.to = n
  OBVIOUS
<1>1. CASE Queued(n)' \subseteq Queued(n)
  BY <1>1
<1>2. AccountTypes
  BY DEF Types
<1>3. CASE queue' = queue
  BY <1>1, <1>3 DEF Queued, Jobs
<1>4. CASE TakeMessage(c)
  <2>1. /\ JobAssign(handler[c].toWhoseAcc, <<Command("username", handler[c].acc), Now(c)>>)
        /\ Now(c).tag = "message" /\ Now(c).arg.to = handler[c].toWhoseAcc
    BY <1>4, TakenMessage, TakingAim DEF Taking
  <2> DEFINE to == handler[c].toWhoseAcc
             from == handler[c].acc
             cmd == Now(c)
  <2>2. JobAssign(to, <<Command("username", from), cmd>>) /\ cmd.tag = "message" /\ cmd.arg.to = to
    BY <2>1
  <2> HIDE DEF to, from, cmd
  <2>3. \/ Jobs(n)' = Jobs(n)
        \/ n = to /\ (cmd.tag = "message" => Queued(n)' = Queued(n) \cup {cmd.arg})
    BY <1>2, <2>2, JobAdded
  <2>4. CASE Jobs(n)' = Jobs(n)
    BY <1>1, <2>4 DEF Queued
  <2> QED BY <2>2, <2>3, <2>4
<1>5. CASE TakeFileData(c)
  <2>1. /\ JobAssign(handler[c].toWhoseAcc, <<Command("username", handler[c].acc), Now(c)>>)
        /\ Now(c).tag # "message"
    BY <1>5 DEF TakeFileData
  <2>2. Jobs(n)' = Jobs(n) \/ Fewer(Jobs(n)', Jobs(n))
    BY <1>2, <2>1, JobAdded
  <2> QED BY <1>1, <2>2 DEF Queued, Fewer
<1>6. CASE Deliver(c)
  <2>1. PICK k \in Name : queue[k] \in Seq(Seq(Told)) /\ queue[k] # <<>> /\ queue' = [queue EXCEPT ![k] = Tail(queue[k])]
    BY <1>6, Delivered
  <2>2. CASE n # k
    <3>1. queue'[n] = queue[n]
      BY <2>1, <2>2
    <3> QED BY <1>1, <3>1 DEF Queued, Jobs
  <2>3. CASE n = k
    <3>1. queue'[n] = Tail(queue[n])
      BY <2>1, <2>3, <1>2 DEF AccountTypes
    <3>2. Fewer(Jobs(n)', Jobs(n))
      BY <2>1, <2>3, <3>1, HeadJob
    <3> QED BY <1>1, <3>2 DEF Queued, Fewer
  <2> QED BY <2>2, <2>3
<1>7. CASE Taking(c) /\ ~TakeMessage(c) /\ ~TakeFileData(c)
  BY <1>3, <1>7, TakingTexts
<1>8. CASE Read(c) \/ ReadEnd(c) \/ StartDelivery(c)
  BY <1>3, <1>8 DEF Read, ReadEnd, StartDelivery, accounts
<1> QED BY <1>4, <1>5, <1>6, <1>7, <1>8 DEF Handling, Delivering, Taking

LEMMA ClientMeant ==
  ASSUME NEW c \in Conn, Types, ConnInv(c), MeantInv(c),
         UserActs(c) \/ UserThread(c) \/ ReceiveThread(c), UNCHANGED server
  PROVE  MeantInv(c)'
<1>1. /\ shown \in [Conn -> Seq(Person \X Text)] /\ toClient[c] \in Seq(Told \cup [tag : Answers])
      /\ state \in [Conn -> Offered \cup InSession \cup {"exited"}]
  BY Parts DEF Types, InboxTypes, UserTypes
<1>2. /\ ShowMessage(c) \/ shown' = shown
      /\ state[c] = "offline" \/ username' = username
      /\ \/ toClient'[c] = toClient[c]
         \/ toClient'[c] = <<>>
         \/ toClient[c] # <<>> /\ toClient'[c] = Tail(toClient[c])
  BY ClientTakesTexts
<1>3. Coming(c)' \subseteq Coming(c)
  <2>1. Texts(<<>>) = {}
    BY DEF Texts
  <2>2. toClient[c] # <<>> => Texts(Tail(toClient[c])) \subseteq Texts(toClient[c])
    BY <1>1, TailTexts
  <2> QED BY <1>2, <2>1, <2>2 DEF Coming
<1>4. CASE ShowMessage(c)
  <2> DEFINE entry == <<receiver[c].src_usr, Head(toClient[c]).arg>>
  <2>1. /\ toClient[c] # <<>> /\ Head(toClient[c]).tag = "message" /\ UNCHANGED <<state, username>>
        /\ shown' = [shown EXCEPT ![c] = Append(@, entry)] /\ receiver[c].state = "on"
    BY <1>4 DEF ShowMessage, Has, NextTag, Receiving, user
  <2>2. entry[2] \in Coming(c) /\ entry[2].to = username[c]
    <3>1. entry[2] \in Coming(c)
      BY <1>1, <2>1, TailTexts DEF Coming
    <3> QED BY <3>1 DEF MeantInv
  <2>3. shown'[c] = Append(shown[c], entry)
    BY <1>1, <2>1
  <2> HIDE DEF entry
  <2>4. \A k \in DOMAIN shown'[c] : shown'[c][k][2].to = username[c]
    <3>1. shown[c] \in Seq((Person \X Text) \cup {entry})
      BY <1>1, SeqMonotonic
    <3> DEFINE h == shown[c]
               r == Append(h, entry)
    <3>2. /\ r \in Seq((Person \X Text) \cup {entry}) /\ Len(r) = Len(h) + 1
          /\ (\A k \in 1 .. Len(h) : r[k] = h[k]) /\ r[Len(h) + 1] = entry
      BY <3>1, AppendProperties
    <3>3. DOMAIN h = 1 .. Len(h) /\ Len(h) \in Nat /\ DOMAIN r = 1 .. Len(r)
      BY <3>1, <3>2, LenProperties
    <3>4. \A k \in DOMAIN h : h[k][2].to = username[c]
      BY DEF MeantInv
    <3> HIDE DEF h, r
    <3>5. \A k \in DOMAIN r : (k \in DOMAIN h /\ r[k] = h[k]) \/ r[k] = entry
      BY <3>2, <3>3
    <3>6. \A k \in DOMAIN r : r[k][2].to = username[c]
      BY <2>2, <3>4, <3>5
    <3> QED BY <2>3, <3>6 DEF h, r
  <2>5. state[c] \notin Offered
    BY <2>1 DEF ConnInv, OfferInv
  <2> QED BY <1>3, <2>1, <2>4, <2>5 DEF MeantInv
<1>5. CASE shown' = shown /\ username' = username
  <2>1. state'[c] \in Offered => state[c] \in Offered
    <3>1. CASE AskSignUp(c) \/ AskLogIn(c)
      BY <3>1, AskTypes DEF Offered
    <3>2. CASE Answered(c)
      BY <3>2, AnsweredTypes DEF Offered
    <3>3. CASE Ending(c)
      BY <1>1, <3>3, EndingTypes DEF Offered
    <3>4. CASE Knocking(c)
      BY <1>1, <3>4, KnockingTypes DEF Offered
    <3>5. CASE Moving(c)
      BY <1>1, <3>5, MovingTypes DEF Offered, Quiet, InSession
    <3>6. CASE FriendIs(c)
      BY <1>1, <3>6, FriendIsTypes DEF Offered, Quiet, InSession
    <3>7. CASE ReceiveThread(c)
      BY <3>7, ReceivingTypes
    <3> QED BY <3>1, <3>2, <3>3, <3>4, <3>5, <3>6, <3>7, ClientSteps
  <2> QED BY <1>3, <1>5, <2>1 DEF MeantInv
<1>6. CASE state[c] = "offline" /\ shown' = shown
  <2>1. toClient[c] = <<>> /\ shown[c] = <<>>
    BY <1>6 DEF ConnInv, OfferInv, MeantInv, Offered
  <2>2. Coming(c)' = {}
    <3>1. Texts(<<>>) = {}
      BY DEF Texts
    <3> QED BY <1>3, <2>1, <3>1 DEF Coming
  <2>3. shown'[c] = <<>> /\ DOMAIN <<>> = {}
    BY <1>6, <2>1
  <2> QED BY <2>2, <2>3 DEF MeantInv
<1> QED BY <1>2, <1>4, <1>5, <1>6

LEMMA TargetNext ==
  ASSUME WholeReads, IInv, SignInv, \A c \in Conn : LastInv(c), TargetInv, [Next]_vars PROVE TargetInv'
<1>1. /\ Types /\ \A c \in Conn : /\ ConnInv(c) /\ StageInv(c) /\ TypistInv(c)
                                  /\ AimInv(c) /\ FriendInv(c) /\ MeantInv(c)
      /\ \A n \in Name : JobInv(n) /\ \A m \in Queued(n) : m.to = n
  BY DEF IInv, ConnInv, SignInv, TargetInv
<1>2. ASSUME NEW d \in Conn, Untouched(d), shown'[d] = shown[d] PROVE AimInv(d)' /\ FriendInv(d)' /\ MeantInv(d)'
  <2>1. AimInv(d)'
    BY <1>1, <1>2 DEF Untouched, AimInv, Ahead
  <2>2. FriendInv(d)'
    BY <1>1, <1>2 DEF Untouched, FriendInv
  <2>3. MeantInv(d)'
    BY <1>1, <1>2 DEF Untouched, MeantInv, Coming
  <2> QED BY <2>1, <2>2, <2>3
<1>3. ASSUME NEW c \in Conn, ServerStep(c) PROVE TargetInv'
  <2>1. ~crashed /\ (Handling(c) \/ Delivering(c)) /\ UNCHANGED client /\ shown' = shown
    BY <1>3 DEF ServerStep, client, inbox
  <2>2. \A d \in Conn \ {c} : Untouched(d)
    BY <1>1, <2>1, ServerBeside
  <2>3. AimInv(c)' /\ FriendInv(c)' /\ MeantInv(c)'
    BY <1>1, <2>1, ServerAim, ServerFriend, ServerMeant
  <2>4. \A n \in Name : \A m \in Queued(n)' : m.to = n
    BY <1>1, <2>1, ServerQueued
  <2> QED BY <1>2, <2>1, <2>2, <2>3, <2>4 DEF TargetInv
<1>4. ASSUME NEW c \in Conn, UserStep(c) \/ ThreadStep(c) PROVE TargetInv'
  <2>1. (UserActs(c) \/ UserThread(c) \/ ReceiveThread(c)) /\ UNCHANGED server /\ queue' = queue
    BY <1>4 DEF UserStep, ThreadStep, server, accounts
  <2>2. \A d \in Conn \ {c} : Untouched(d) /\ shown'[d] = shown[d]
    BY <1>1, <2>1, ClientBeside, ClientTakesTexts
  <2>3. AimInv(c)' /\ FriendInv(c)' /\ MeantInv(c)'
    BY <1>1, <2>1, ClientAim, ClientFriend, ClientMeant
  <2>4. \A n \in Name : Queued(n)' = Queued(n)
    BY <2>1 DEF Queued, Jobs
  <2> QED BY <1>1, <1>2, <2>2, <2>3, <2>4 DEF TargetInv
<1>5. CASE UNCHANGED vars
  <2>1. queue' = queue /\ \A d \in Conn : Untouched(d) /\ shown'[d] = shown[d]
    BY <1>5 DEF vars, wire, server, accounts, client, user, inbox, Untouched
  <2>2. \A n \in Name : Queued(n)' = Queued(n)
    BY <2>1 DEF Queued, Jobs
  <2> QED BY <1>1, <1>2, <2>1, <2>2 DEF TargetInv
<1> QED BY <1>3, <1>4, <1>5 DEF Next

LEMMA TargetInit == ASSUME Init PROVE TargetInv
<1>1. Init /\ \A s : DOMAIN s = {} => Texts(s) = {}
  BY DEF Texts
<1>2. /\ \A c \in Conn : /\ toServer[c] = <<>> /\ toClient[c] = <<>> /\ handler[c].todo = <<>> /\ shown[c] = <<>>
                         /\ state[c] = "offline"
      /\ \A n \in Name : queue[n] = <<>>
  BY DEF Init, WireInit, ServerInit, ClientInit
<1>3. DOMAIN <<>> = {} /\ <<>> \o <<>> = <<>>
  BY EmptySeq, ConcatEmptySeq
<1>4. /\ \A c \in Conn : Coming(c) = {} /\ Ahead(c) = <<>>
      /\ \A n \in Name : Queued(n) = {}
  BY <1>1, <1>2, <1>3 DEF Coming, Ahead, Queued, Jobs
<1>5. \A c \in Conn : AimInv(c) /\ FriendInv(c) /\ MeantInv(c)
  BY <1>2, <1>3, <1>4 DEF AimInv, Aimed, Free, FriendInv, MeantInv
<1> QED BY <1>4, <1>5 DEF TargetInv

LEMMA Targeted ==
  ASSUME Lasting, WholeReads
  PROVE  Spec => [](IInv /\ SignInv /\ OrderInv /\ TargetInv /\ \A c \in Conn : LastInv(c))
<1>1. Init => TargetInv
  BY TargetInit
<1>2. IInv /\ SignInv /\ (\A c \in Conn : LastInv(c)) /\ TargetInv /\ [Next]_vars => TargetInv'
  BY TargetNext
<1> QED BY <1>1, <1>2, Inductive, Ordered, PTL DEF Spec

\* A message is shown to the user its typist meant, although the name of the
\* receiver is a command of its own, which the handler may read long before
\* the message.
THEOREM ShownAsMeant == ASSUME Lasting, WholeReads PROVE Spec => []ShownAsTyped
<1>1. SignInv /\ TargetInv => ShownAsTyped
  BY DEF SignInv, SourceInv, Signed, TargetInv, MeantInv, ShownAsTyped
<1> QED BY <1>1, Targeted, PTL
-----------------------------------------------------------------------------
(* The system is a messenger. *)

\* The messages on their way, by the place they are at.
Way(m) == \/ \E c \in Conn : m \in Unread(c) \/ m \in Coming(c)
          \/ \E n \in Name : m \in Queued(n)

LEMMA ElementTexts == ASSUME NEW s, NEW m
  PROVE m \in Texts(s) <=> \E x \in Elements(s) : x.tag = "message" /\ x.arg = m
BY IsText DEF Elements

LEMMA JobTexts ==
  ASSUME AccountTypes, NEW n \in Name, JobInv(n), NEW m
  PROVE  m \in Queued(n) <=> \E job \in Elements(queue[n]) : \E x \in Elements(job) : x.tag = "message" /\ x.arg = m
<1>1. queue[n] \in Seq(Seq(Told))
  BY DEF AccountTypes
<1>2. ASSUME NEW k \in DOMAIN queue[n]
      PROVE  \A x : x \in Elements(queue[n][k]) /\ x.tag = "message" <=> x = queue[n][k][2] /\ x.tag = "message"
  <2> DEFINE job == queue[n][k]
  <2>1. job \in Seq(Told)
    BY <1>1, ElementOfSeq, LenProperties
  <2>2. GoodJob(job)
    BY DEF JobInv
  <2> HIDE DEF job
  <2>3. DOMAIN job = {1, 2} /\ job[1].tag # "message"
    BY <2>1, <2>2, LenProperties DEF GoodJob, Source
  <2>4. \A x : x \in Elements(job) <=> x = job[1] \/ x = job[2]
    BY <2>3 DEF Elements
  <2> QED BY <2>3, <2>4 DEF job
<1>3. m \in Queued(n) <=> \E k \in DOMAIN queue[n] : queue[n][k][2].tag = "message" /\ queue[n][k][2].arg = m
  <2>1. DOMAIN Jobs(n) = DOMAIN queue[n] /\ \A k \in DOMAIN queue[n] : Jobs(n)[k] = queue[n][k][2]
    BY DEF Jobs
  <2> QED BY <2>1, IsText DEF Queued
<1>4. \A job : job \in Elements(queue[n]) <=> \E k \in DOMAIN queue[n] : job = queue[n][k]
  BY DEF Elements
<1> QED BY <1>2, <1>3, <1>4

WayInv == \A m : m \in OnTheWay <=> Way(m)

LEMMA Ways == Types /\ (\A n \in Name : JobInv(n)) => WayInv
<1> SUFFICES ASSUME Types, \A n \in Name : JobInv(n) PROVE WayInv
  OBVIOUS
<1> DEFINE jobs == UNION {Elements(queue[n]) : n \in Name}
           cmds == UNION {Elements(toServer[c]) \cup Elements(handler[c].todo)
                            \cup Elements(toClient[c]) : c \in Conn}
           all  == cmds \cup UNION {Elements(job) : job \in jobs}
<1>1. OnTheWay = {cmd.arg : cmd \in {x \in all : x.tag = "message"}}
  BY DEF OnTheWay
<1>2. \A m : m \in OnTheWay <=> \E x \in all : x.tag = "message" /\ x.arg = m
  BY <1>1
<1>3. \A x : x \in all <=>
        \/ \E c \in Conn : x \in Elements(toServer[c]) \/ x \in Elements(handler[c].todo) \/ x \in Elements(toClient[c])
        \/ \E n \in Name : \E job \in Elements(queue[n]) : x \in Elements(job)
  OBVIOUS
<1> HIDE DEF jobs, cmds, all
<1>4. \A n \in Name : \A m : m \in Queued(n) <=>
        \E job \in Elements(queue[n]) : \E x \in Elements(job) : x.tag = "message" /\ x.arg = m
  BY JobTexts DEF Types
<1> QED BY <1>2, <1>3, <1>4, ElementTexts DEF WayInv, Way, Unread, Held, Sent, Coming

LEMMA WaysNext ==
  ASSUME IInv, SignInv, [Next]_vars PROVE WayInv /\ WayInv'
<1>1. Types' /\ (\A n \in Name : JobInv(n))' => WayInv'
  BY Ways, PTL
<1>2. IInv' /\ SignInv'
  BY InvNext, SignNext
<1> QED BY <1>1, <1>2, Ways DEF IInv, SignInv

\* A step of the threads between the users: messages go on, or get lost.
Carries == (\A m : Way(m)' => Way(m)) /\ UNCHANGED <<username, typed, shown>>

LEMMA FadesCarries == ASSUME Fades, UNCHANGED <<username, shown>> PROVE Carries
<1>1. \A d \in Conn : Unread(d)' \subseteq Unread(d) /\ Coming(d)' \subseteq Coming(d) /\ shown'[d] = shown[d]
  BY DEF Fades, Fewer, Unread, Held, Sent, Coming
<1>2. \A n \in Name : Queued(n)' \subseteq Queued(n)
  BY DEF Fades, Fewer, Queued
<1> QED BY <1>1, <1>2 DEF Carries, Way, Fades

LEMMA ReadCarries == ASSUME NEW c \in Conn, Types, Read(c), UNCHANGED client PROVE Carries
<1>1. /\ \A d \in Conn \ {c} : handler'[d] = handler[d] /\ toServer'[d] = toServer[d]
      /\ Held(c)' \subseteq Sent(c) /\ Sent(c)' \subseteq Sent(c)
  BY ReadTexts DEF Held, Sent
<1>2. UNCHANGED <<queue, toClient, shown, typed, username>>
  BY DEF Read, accounts, client, inbox, counts, user
<1>3. Unread(c)' \subseteq Unread(c) /\ \A d \in Conn \ {c} : Unread(d)' = Unread(d)
  BY <1>1 DEF Unread, Held, Sent
<1>4. (\A d \in Conn : Coming(d)' = Coming(d)) /\ \A n \in Name : Queued(n)' = Queued(n)
  BY <1>2 DEF Coming, Queued, Jobs
<1> QED BY <1>2, <1>3, <1>4 DEF Carries, Way

LEMMA TakeMessageCarries ==
  ASSUME NEW c \in Conn, Types, StageInv(c), TypistInv(c), TakeMessage(c), UNCHANGED client PROVE Carries
<1> DEFINE m == Now(c).arg
           h == handler[c]
<1>1. /\ Now(c).tag = "message" /\ m \in Held(c)
      /\ JobAssign(h.toWhoseAcc, <<Command("username", h.acc), Now(c)>>)
  BY TakenMessage DEF Held
<1>2. /\ h.todo # <<>> /\ h.todo \in Seq(Asked \cup {Escape}) /\ handler'[c].todo = Tail(h.todo)
      /\ toServer' = toServer /\ \A d \in Conn \ {c} : handler'[d] = handler[d]
  BY TakingTexts DEF Taking
<1>3. UNCHANGED <<toClient, shown, typed, username>>
  BY DEF TakeMessage, wire, client, inbox, counts, user
<1>4. Held(c)' \subseteq Held(c)
  BY <1>2, TailTexts DEF Held
<1>5. \A n \in Name : Queued(n)' \subseteq Queued(n) \cup {m}
  BY <1>1, JobAdded DEF Queued, Types
<1>6. \A d \in Conn : Sent(d)' = Sent(d) /\ Coming(d)' = Coming(d) /\ (d # c => Held(d)' = Held(d))
  BY <1>2, <1>3 DEF Sent, Coming, Held
<1> HIDE DEF m, h
<1> QED BY <1>1, <1>3, <1>4, <1>5, <1>6 DEF Carries, Way, Unread

LEMMA DeliverCarries ==
  ASSUME NEW c \in Conn, Types, \A n \in Name : JobInv(n), Deliver(c), UNCHANGED client PROVE Carries
<1>0. delivery[c].acc \in Name
  BY Delivered
<1> SUFFICES ASSUME NEW n \in Name, n = delivery[c].acc PROVE Carries
  BY <1>0
<1> DEFINE job == Head(queue[n])
<1>1. /\ queue[n] \in Seq(Seq(Told)) /\ queue[n] # <<>> /\ job \in Seq(Told)
      /\ queue' = [queue EXCEPT ![n] = Tail(queue[n])] /\ toServer' = toServer
      /\ \A d \in Conn \ {c} : toClient'[d] = toClient[d]
      /\ toClient' = toClient \/ toClient' = [toClient EXCEPT ![c] = @ \o job]
  BY Delivered
<1>2. toClient'[c] = toClient[c] \/ toClient'[c] = toClient[c] \o job
  BY <1>1 DEF Types, WireTypes
<1>3. queue'[n] = Tail(queue[n]) /\ \A k \in Name \ {n} : queue'[k] = queue[k]
  BY <1>1 DEF Types, AccountTypes
<1>4. UNCHANGED <<handler, shown, typed, username>>
  BY DEF Deliver, client, inbox, counts, user
<1> HIDE DEF job
<1>5. Fewer(Jobs(n)', Jobs(n)) /\ Texts(job) \subseteq Queued(n)
  BY <1>1, <1>3, HeadJob DEF job
<1>6. Texts(toClient[c] \o job) = Texts(toClient[c]) \cup Texts(job)
  BY <1>1, Parts, JoinedTexts
<1>7. Coming(c)' \subseteq Coming(c) \cup Queued(n) /\ \A d \in Conn \ {c} : Coming(d)' = Coming(d)
  BY <1>1, <1>2, <1>5, <1>6 DEF Coming
<1>8. Queued(n)' \subseteq Queued(n) /\ \A k \in Name \ {n} : Queued(k)' = Queued(k)
  BY <1>3, <1>5 DEF Queued, Fewer, Jobs
<1>9. \A d \in Conn : Unread(d)' = Unread(d)
  BY <1>1, <1>4 DEF Unread, Held, Sent
<1> QED BY <1>4, <1>7, <1>8, <1>9 DEF Carries, Way

LEMMA ServerCarries ==
  ASSUME NEW c \in Conn, Types, \A d \in Conn : StageInv(d) /\ TypistInv(d) /\ LastInv(d),
         \A n \in Name : JobInv(n), ~crashed, Handling(c) \/ Delivering(c), UNCHANGED client
  PROVE  Carries
<1>1. CASE ReadEnd(c) \/ StartDelivery(c) \/ (Taking(c) /\ ~TakeMessage(c))
  BY <1>1, ServerFades, FadesCarries DEF client, user, inbox
<1> QED BY <1>1, ReadCarries, TakeMessageCarries, DeliverCarries DEF Handling, Delivering, Taking

LEMMA ClientCarries ==
  ASSUME NEW c \in Conn, Types, UserActs(c) \/ UserThread(c) \/ ReceiveThread(c), UNCHANGED server,
         ~TypeMessage(c), ~ShowMessage(c), ~AskSignUp(c), ~AskLogIn(c)
  PROVE  Carries
<1>1. username' = username
  <2>1. CASE Ending(c)
    BY <2>1, EndingTypes DEF user
  <2>2. CASE ReceiveThread(c)
    BY <2>2 DEF ReceiveThread, TakeSignal, TakeSource, ShowMessage, WriteFile, EndReceiving, user
  <2>3. CASE Knocking(c)
    BY <2>3, KnockingTypes
  <2>4. CASE Moving(c) \/ Answered(c) \/ FriendIs(c)
    BY <2>4 DEF Moving, Confirm, TypeMessage, EndMessage, LogOut, ChooseFiles, SendSegment, SendEnd, RemoveFile,
                FilesSent, Answered, FriendIs, user
  <2> QED BY <2>1, <2>2, <2>3, <2>4 DEF UserActs, UserThread, Ending, Knocking, Moving
<1>2. shown' = shown
  BY ClientTakesTexts
<1> QED BY <1>1, <1>2, ClientFades, FadesCarries

LEMMA AskImplements ==
  ASSUME NEW c \in Conn, Types, TypistInv(c), WayInv, WayInv', AskSignUp(c) \/ AskLogIn(c), UNCHANGED server
  PROVE  MS!SignIn(c)
<1>1. /\ state[c] = "offline" /\ toClient' = toClient
      /\ \E n \in Name : username' = [username EXCEPT ![c] = n]
  BY AskTypes
<1>2. ~TypeMessage(c) /\ typed[c] = 0
  BY <1>1 DEF TypeMessage, TypistInv, Offered, Types, UserTypes
<1>3. /\ typed' = typed /\ \A d \in Conn \ {c} : toServer'[d] = toServer[d]
      /\ Texts(toServer'[c]) = Texts(toServer[c])
  BY <1>2, ClientTexts DEF UserActs
<1>4. UNCHANGED <<handler, queue, shown>>
  BY DEF server, accounts, AskSignUp, AskLogIn, inbox
<1>5. /\ \A d \in Conn : Held(d)' = Held(d) /\ Sent(d)' = Sent(d) /\ Coming(d)' = Coming(d)
      /\ \A n \in Name : Queued(n)' = Queued(n)
  BY <1>1, <1>3, <1>4 DEF Held, Sent, Coming, Queued, Jobs
<1>6. \A m : Way(m)' <=> Way(m)
  BY <1>5 DEF Way, Unread
<1>7. OnTheWay' = OnTheWay
  BY <1>6 DEF WayInv
<1> QED BY <1>1, <1>2, <1>3, <1>4, <1>7 DEF MS!SignIn

LEMMA TypeImplements ==
  ASSUME NEW c \in Conn, Types, SessionInv(c), WayInv, WayInv', TypeMessage(c), UNCHANGED server
  PROVE  MS!Type(c)
<1> DEFINE m == Typed(c)
<1>1. /\ typed' = [typed EXCEPT ![c] = @ + 1] /\ state[c] = "typing"
      /\ UNCHANGED <<username, toClient, shown>>
      /\ \A d \in Conn \ {c} : toServer'[d] = toServer[d]
      /\ Texts(toServer'[c]) = Texts(toServer[c]) \cup {m}
  BY TypedTexts
<1>2. username[c] # None
  BY <1>1, WireAssumption DEF SessionInv, InSession, Owned, Types, AccountTypes
<1>3. UNCHANGED <<handler, queue>>
  BY DEF server, accounts
<1>4. /\ \A d \in Conn : Held(d)' = Held(d) /\ Coming(d)' = Coming(d) /\ (d # c => Sent(d)' = Sent(d))
      /\ Sent(c)' = Sent(c) \cup {m} /\ \A n \in Name : Queued(n)' = Queued(n)
  BY <1>1, <1>3 DEF Held, Sent, Coming, Queued, Jobs
<1>5. m = [by |-> c, to |-> dst_usr[c], n |-> typed[c] + 1] /\ dst_usr[c] \in Name \cup {None}
  BY DEF Typed, Types, UserTypes, Person
<1> HIDE DEF m
<1>6. \A x : Way(x)' <=> Way(x) \/ x = m
  BY <1>4 DEF Way, Unread
<1>7. OnTheWay' = OnTheWay \cup {m}
  BY <1>6 DEF WayInv
<1> QED BY <1>1, <1>2, <1>5, <1>7 DEF MS!Type

LEMMA ShowImplements ==
  ASSUME NEW c \in Conn, Types, SourceInv(c), OrderInv, MeantInv(c), WayInv, WayInv',
         ShowMessage(c), UNCHANGED server
  PROVE  MS!Show(c)
<1> DEFINE s == toClient[c]
           m == Head(s).arg
<1>1. /\ s # <<>> /\ Head(s).tag = "message"
      /\ shown' = [shown EXCEPT ![c] = Append(@, <<receiver[c].src_usr, m>>)]
      /\ toClient' = [toClient EXCEPT ![c] = Tail(@)] /\ UNCHANGED <<toServer, typed, username>>
  BY DEF ShowMessage, Has, NextTag, ClientTakes, counts, user
<1>2. /\ s \in Seq(Told \cup [tag : Answers]) /\ toClient \in [Conn -> Seq(Told \cup [tag : Answers])]
      /\ shown[c] \in Seq(Person \X Text)
  BY Parts DEF Types, InboxTypes, WireTypes
<1>3. toClient'[c] = Tail(s) /\ \A d \in Conn \ {c} : toClient'[d] = toClient[d]
  BY <1>1, <1>2
<1>4. UNCHANGED <<handler, queue>>
  BY DEF server, accounts
<1>5. /\ CountInv /\ AheadInv /\ OnceInv /\ ShownInv(c)
  BY DEF OrderInv
<1> HIDE DEF m, s
<1>6. /\ Texts(Tail(s)) \subseteq Texts(s) /\ m \in Texts(s) /\ Below({m}, Texts(Tail(s)))
  BY <1>1, <1>2, <1>5, TailTexts DEF m, s, ShownInv
<1>7. m \in Text /\ m.n \in Nat
  BY <1>5, <1>6, InPassed DEF CountInv, Given, Coming, Text, s
<1>8. Signed(receiver[c].src_usr, m)
  BY <1>1, <1>2, SourcedTail DEF SourceInv, m, s
<1>9. m.to = username[c]
  BY <1>6 DEF MeantInv, Coming, s
<1>10. \A k \in DOMAIN shown[c] : shown[c][k][2].by = m.by => shown[c][k][2].n < m.n
  <2> SUFFICES ASSUME NEW k \in DOMAIN shown[c] PROVE shown[c][k][2] \in Seen(c)
    BY <1>5, <1>6 DEF ShownInv, Coming, s, Below
  <2>1. k \in DOMAIN Screen(c) /\ Screen(c)[k] = Command("message", shown[c][k][2])
    BY DEF Screen
  <2> QED BY <2>1, IsText DEF Seen, Command
<1>11. /\ \A d \in Conn : Unread(d)' = Unread(d) /\ (d # c => Coming(d)' = Coming(d))
       /\ \A n \in Name : Queued(n)' = Queued(n)
  BY <1>1, <1>3, <1>4 DEF Unread, Held, Sent, Coming, Queued, Jobs
<1>12. m \in Coming(c) /\ Coming(c)' \subseteq Coming(c) /\ m \notin Coming(c)'
  BY <1>3, <1>6, <1>7 DEF Coming, Below, s
<1>13. \A x \in Coming(c) : x # m => x \in Coming(c)'
  <2> SUFFICES ASSUME NEW x \in Texts(s), x # m PROVE x \in Texts(Tail(s))
    BY <1>3 DEF Coming, s
  <2>1. PICK k \in DOMAIN s : s[k].tag = "message" /\ s[k].arg = x
    BY IsText
  <2>2. s[1] = Head(s) /\ Tail(s) \in Seq(Told \cup [tag : Answers]) /\ DOMAIN s = 1 .. Len(s) /\ Len(s) \in Nat
        /\ DOMAIN Tail(s) = 1 .. Len(s) - 1 /\ \A j \in 1 .. Len(s) - 1 : Tail(s)[j] = s[j + 1]
    BY <1>1, <1>2, HeadTailProperties, LenProperties
  <2>3. k # 1
    BY <2>1, <2>2 DEF m
  <2>4. k - 1 \in DOMAIN Tail(s) /\ Tail(s)[k - 1] = s[k]
    BY <2>2, <2>3
  <2> QED BY <2>1, <2>4, IsText
<1>14. /\ \A d \in Conn : m \notin Unread(d) /\ (d # c => m \notin Coming(d))
       /\ \A n \in Name : m \notin Queued(n)
  <2>1. m \in Passed
    BY <1>12, InPassed DEF Given
  <2>2. \A d \in Conn : m \notin Unread(d)
    BY <1>5, <1>7, <2>1 DEF AheadInv, Below
  <2>3. /\ \A d \in Conn : d # c => m \notin Coming(d)
        /\ \A n \in Name : m \notin Queued(n)
    BY <1>5, <1>12 DEF OnceInv
  <2> QED BY <2>2, <2>3
<1>15. \A x : Way(x)' <=> Way(x) /\ x # m
  BY <1>11, <1>12, <1>13, <1>14 DEF Way
<1>16. OnTheWay' = OnTheWay \ {m} /\ m \in OnTheWay
  BY <1>12, <1>15 DEF WayInv, Way
<1>17. shown' = [shown EXCEPT ![c] = Append(@, <<username[m.by], m>>)]
  BY <1>1, <1>8 DEF Signed
<1> QED BY <1>1, <1>9, <1>10, <1>16, <1>17 DEF MS!Show

LEMMA StepImplements ==
  ASSUME Lasting, IInv, SignInv, OrderInv, TargetInv, \A c \in Conn : LastInv(c), [Next]_vars
  PROVE  [MS!Next]_MS!vars
<1>1. /\ Types /\ ThreadTypes /\ WayInv /\ WayInv' /\ \A n \in Name : JobInv(n)
      /\ \A c \in Conn : StageInv(c) /\ TypistInv(c) /\ LastInv(c) /\ SessionInv(c) /\ SourceInv(c) /\ MeantInv(c)
  BY WaysNext DEF IInv, ConnInv, SignInv, TargetInv, Types
<1>2. Carries => MS!Lose
  <2> SUFFICES ASSUME Carries PROVE OnTheWay' \subseteq OnTheWay
    BY DEF Carries, MS!Lose
  <2> QED BY <1>1 DEF Carries, WayInv
<1>3. ASSUME NEW c \in Conn, ServerStep(c) PROVE MS!Next
  <2>1. Carries
    BY <1>1, <1>3, ServerCarries DEF ServerStep
  <2> QED BY <1>2, <2>1 DEF MS!Next
<1>4. ASSUME NEW c \in Conn, UserStep(c) \/ ThreadStep(c) PROVE MS!Next
  <2>1. (UserActs(c) \/ UserThread(c) \/ ReceiveThread(c)) /\ UNCHANGED server
    BY <1>4 DEF UserStep, ThreadStep
  <2>2. CASE AskSignUp(c) \/ AskLogIn(c)
    BY <1>1, <2>1, <2>2, AskImplements DEF MS!Next
  <2>3. CASE TypeMessage(c)
    BY <1>1, <2>1, <2>3, TypeImplements DEF MS!Next
  <2>4. CASE ShowMessage(c)
    BY <1>1, <2>1, <2>4, ShowImplements DEF MS!Next
  <2>5. CASE ~TypeMessage(c) /\ ~ShowMessage(c) /\ ~AskSignUp(c) /\ ~AskLogIn(c)
    BY <1>1, <1>2, <2>1, <2>5, ClientCarries DEF MS!Next
  <2> QED BY <2>2, <2>3, <2>4, <2>5
<1>5. CASE UNCHANGED vars
  <2>1. UNCHANGED <<toServer, toClient, handler, queue, username, typed, shown>>
    BY <1>5 DEF vars, wire, server, accounts, client, user, counts, inbox
  <2>2. OnTheWay' = OnTheWay
    BY <2>1 DEF OnTheWay, Elements
  <2> QED BY <2>1, <2>2 DEF MS!vars
<1> QED BY <1>3, <1>4, <1>5 DEF Next

LEMMA InitImplements == ASSUME Init PROVE MS!Init
<1>1. /\ username = [c \in Conn |-> None] /\ typed = [c \in Conn |-> 0] /\ shown = [c \in Conn |-> <<>>]
      /\ \A c \in Conn : toServer[c] = <<>> /\ toClient[c] = <<>> /\ handler[c].todo = <<>>
      /\ \A n \in Name : queue[n] = <<>>
  BY DEF Init, WireInit, ServerInit, ClientInit
<1>2. Elements(<<>>) = {}
  BY DEF Elements
<1>3. OnTheWay = {}
  BY <1>1, <1>2 DEF OnTheWay
<1> QED BY <1>1, <1>3 DEF MS!Init

\* While the connections last and reads end behind commands, and every account
\* has one connection and one that writes to it (OneOfEach), the system is a
\* messenger: whatever the threads of the server and the clients do in between,
\* a message is shown to the user it is for, under its typist's name, once, and
\* behind the earlier messages of its typist.
THEOREM SystemIsMessenger == ASSUME Lasting, WholeReads PROVE Spec => ImplementsMessenger
<1>1. IInv /\ SignInv /\ OrderInv /\ TargetInv /\ (\A c \in Conn : LastInv(c)) /\ [Next]_vars => [MS!Next]_MS!vars
  BY StepImplements
<1>2. Init => MS!Init
  BY InitImplements
<1> QED BY <1>1, <1>2, Targeted, PTL DEF Spec, MS!Spec, ImplementsMessenger
=============================================================================
