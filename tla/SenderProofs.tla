---------------------------- MODULE SenderProofs ----------------------------
(***************************************************************************)
(* Who is named as the sender of a message, for any number of clients,     *)
(* accounts and messages, although name and message travel apart, reads    *)
(* end between them, and clients and server may end at any moment.         *)
(***************************************************************************)
EXTENDS SessionProofs

(* Sequences of commands, and the messages in them. *)

Texts(s) == {s[k].arg : k \in {j \in DOMAIN s : s[j].tag = "message"}}

Below(A, B) == \A a \in A, b \in B : a.by = b.by => a.n < b.n

Rises(s) == \A j, k \in DOMAIN s :
  j < k /\ s[j].tag = "message" /\ s[k].tag = "message" /\ s[j].arg.by = s[k].arg.by =>
    s[j].arg.n < s[k].arg.n

\* A message is taken by the handler of who typed it, as long as this one has
\* its account, which is from then on the one the user has entered.
TypistInv(c) == LET h == handler[c] IN
  /\ typed[c] > 0 => h.istonextstage /\ h.acc = username[c] /\ state[c] \notin Offered
  /\ \A m \in Texts(h.buf) \cup Texts(h.todo) \cup Texts(toServer[c]) : m.by = c /\ typed[c] > 0

\* The name of the typist is right ahead of every message.
Signed(name, m) == typed[m.by] > 0 /\ name = username[m.by]

GoodJob(job) == /\ Len(job) = 2 /\ job[1] \in Source /\ job[2] \in Said
                /\ job[2].tag = "message" => Signed(job[1].arg, job[2].arg)

JobInv(n) == \A k \in DOMAIN queue[n] : GoodJob(queue[n][k])

\* In s a message follows its typist's name, which for the first is src_usr.
Sourced(s, src_usr) == \A k \in DOMAIN s : s[k].tag = "message" =>
  IF k = 1 THEN Signed(src_usr, s[1].arg)
  ELSE s[k - 1].tag = "username" /\ Signed(s[k - 1].arg, s[k].arg)

SourceInv(c) == /\ Sourced(toClient[c], receiver[c].src_usr)
                /\ \A k \in DOMAIN shown[c] : Signed(shown[c][k][1], shown[c][k][2])

SignInv == (\A c \in Conn : TypistInv(c) /\ SourceInv(c)) /\ \A n \in Name : JobInv(n)

-----------------------------------------------------------------------------
(* Sequences of commands. *)

LEMMA IsText == ASSUME NEW s, NEW m PROVE m \in Texts(s) <=> \E k \in DOMAIN s : s[k].tag = "message" /\ s[k].arg = m
BY DEF Texts

\* Messages keep their order when commands are taken away around them.
LEMMA Shifted ==
  ASSUME NEW s, NEW t, NEW d \in Int, DOMAIN t \subseteq Int,
         \A k \in DOMAIN t : t[k].tag = "message" => k + d \in DOMAIN s /\ t[k] = s[k + d]
  PROVE  Texts(t) \subseteq Texts(s) /\ (Rises(s) => Rises(t))
<1>1. Texts(t) \subseteq Texts(s)
  <2> SUFFICES ASSUME NEW m \in Texts(t) PROVE m \in Texts(s)
    OBVIOUS
  <2>1. PICK k \in DOMAIN t : t[k].tag = "message" /\ t[k].arg = m
    BY IsText
  <2>2. k + d \in DOMAIN s /\ s[k + d].tag = "message" /\ s[k + d].arg = m
    BY <2>1
  <2> QED BY <2>2, IsText
<1>2. ASSUME Rises(s) PROVE Rises(t)
  <2> SUFFICES ASSUME NEW j \in DOMAIN t, NEW k \in DOMAIN t, j < k, t[j].tag = "message",
                      t[k].tag = "message", t[j].arg.by = t[k].arg.by
               PROVE  t[j].arg.n < t[k].arg.n
    BY DEF Rises
  <2>1. j + d \in DOMAIN s /\ k + d \in DOMAIN s /\ t[j] = s[j + d] /\ t[k] = s[k + d]
    OBVIOUS
  <2>2. j + d < k + d
    OBVIOUS
  <2> QED BY <1>2, <2>1, <2>2 DEF Rises
<1> QED BY <1>1, <1>2

LEMMA TailTexts ==
  ASSUME NEW S, NEW s \in Seq(S), s # <<>>
  PROVE  /\ Texts(Tail(s)) \subseteq Texts(s) /\ (Rises(s) => Rises(Tail(s)))
         /\ Head(s).tag = "message" =>
              /\ Head(s).arg \in Texts(s)
              /\ Rises(s) => Below({Head(s).arg}, Texts(Tail(s)))
<1>1. /\ Tail(s) \in Seq(S) /\ Head(s) = s[1] /\ 1 \in DOMAIN s
      /\ \A k \in DOMAIN Tail(s) : k + 1 \in DOMAIN s /\ k \in Nat /\ Tail(s)[k] = s[k + 1]
  BY TailKeeps
<1>2. DOMAIN Tail(s) = 1 .. Len(Tail(s)) /\ Len(Tail(s)) \in Nat
  BY <1>1, LenProperties
<1>3. DOMAIN Tail(s) \subseteq Int /\ 1 \in Int
  BY <1>1
<1>4. Texts(Tail(s)) \subseteq Texts(s) /\ (Rises(s) => Rises(Tail(s)))
  BY <1>1, <1>3, Shifted
<1>5. ASSUME Head(s).tag = "message" PROVE Head(s).arg \in Texts(s)
  BY <1>1, <1>5, IsText
<1>6. ASSUME Head(s).tag = "message", Rises(s) PROVE Below({Head(s).arg}, Texts(Tail(s)))
  <2> SUFFICES ASSUME NEW m \in Texts(Tail(s)), Head(s).arg.by = m.by PROVE Head(s).arg.n < m.n
    BY DEF Below
  <2>1. PICK k \in DOMAIN Tail(s) : Tail(s)[k].tag = "message" /\ Tail(s)[k].arg = m
    BY IsText
  <2>2. k + 1 \in DOMAIN s /\ s[k + 1] = Tail(s)[k] /\ 1 < k + 1
    BY <1>1, <1>2
  <2> QED BY <1>1, <1>6, <2>1, <2>2 DEF Rises
<1> QED BY <1>4, <1>5, <1>6

LEMMA JoinedTexts ==
  ASSUME NEW S, NEW s \in Seq(S), NEW R, NEW t \in Seq(R)
  PROVE  /\ Texts(s \o t) = Texts(s) \cup Texts(t)
         /\ Rises(s) /\ Rises(t) /\ Below(Texts(s), Texts(t)) => Rises(s \o t)
<1> DEFINE st == s \o t
<1>1. /\ Len(s) \in Nat /\ Len(t) \in Nat /\ DOMAIN st = 1 .. Len(s) + Len(t)
      /\ \A k \in DOMAIN st : \/ k \in DOMAIN s /\ st[k] = s[k]
                              \/ k > Len(s) /\ k - Len(s) \in DOMAIN t /\ st[k] = t[k - Len(s)]
  BY ConcatKeeps
<1>2. DOMAIN s = 1 .. Len(s) /\ DOMAIN t = 1 .. Len(t)
  BY LenProperties
<1>3. \A k \in 1 .. Len(s) + Len(t) : st[k] = IF k <= Len(s) THEN s[k] ELSE t[k - Len(s)]
  <2>1. s \in Seq(S \cup R) /\ t \in Seq(S \cup R)
    BY SeqMonotonic
  <2> QED BY <2>1, ConcatProperties
<1>4. \A k \in DOMAIN s : k \in DOMAIN st /\ st[k] = s[k]
  <2> HIDE DEF st
  <2> QED BY <1>1, <1>2, <1>3
<1>5. \A k \in DOMAIN t : k + Len(s) \in DOMAIN st /\ st[k + Len(s)] = t[k]
  <2> HIDE DEF st
  <2> SUFFICES ASSUME NEW k \in DOMAIN t PROVE k + Len(s) \in DOMAIN st /\ st[k + Len(s)] = t[k]
    OBVIOUS
  <2>1. k \in 1 .. Len(t) /\ k + Len(s) \in 1 .. Len(s) + Len(t) /\ ~(k + Len(s) <= Len(s))
        /\ (k + Len(s)) - Len(s) = k
    BY <1>1, <1>2
  <2> QED BY <2>1, <1>1, <1>3
<1> HIDE DEF st
<1>6. ASSUME NEW m PROVE m \in Texts(st) <=> m \in Texts(s) \/ m \in Texts(t)
  <2>1. m \in Texts(st) => m \in Texts(s) \/ m \in Texts(t)
    BY <1>1, IsText
  <2>2. m \in Texts(s) => m \in Texts(st)
    BY <1>4, IsText
  <2>3. m \in Texts(t) => m \in Texts(st)
    BY <1>5, IsText
  <2> QED BY <2>1, <2>2, <2>3
<1>7. ASSUME Rises(s), Rises(t), Below(Texts(s), Texts(t)) PROVE Rises(st)
  <2> SUFFICES ASSUME NEW j \in DOMAIN st, NEW k \in DOMAIN st, j < k, st[j].tag = "message",
                      st[k].tag = "message", st[j].arg.by = st[k].arg.by
               PROVE  st[j].arg.n < st[k].arg.n
    BY DEF Rises
  <2>1. CASE j \in DOMAIN s /\ st[j] = s[j] /\ k \in DOMAIN s /\ st[k] = s[k]
    BY <2>1, <1>7 DEF Rises
  <2>2. CASE j \in DOMAIN s /\ st[j] = s[j] /\ k - Len(s) \in DOMAIN t /\ st[k] = t[k - Len(s)]
    <3>1. st[j].arg \in Texts(s) /\ st[k].arg \in Texts(t)
      BY <2>2, IsText
    <3> QED BY <3>1, <1>7 DEF Below
  <2>3. CASE /\ j - Len(s) \in DOMAIN t /\ st[j] = t[j - Len(s)]
             /\ k - Len(s) \in DOMAIN t /\ st[k] = t[k - Len(s)]
    <3>1. j - Len(s) < k - Len(s)
      BY <1>1
    <3> QED BY <2>3, <3>1, <1>7 DEF Rises
  <2>4. CASE j > Len(s) /\ k \in DOMAIN s
    BY <2>4, <1>1, <1>2
  <2> QED BY <2>1, <2>2, <2>3, <2>4, <1>1
<1> QED BY <1>6, <1>7 DEF st

\* One more at the end.
LEMMA AddedText ==
  ASSUME NEW s, NEW t, NEW p \in Int, DOMAIN t = DOMAIN s \cup {p},
         \A k \in DOMAIN s : k \in Int /\ k < p /\ t[k] = s[k]
  PROVE  /\ Texts(s) \subseteq Texts(t)
         /\ t[p].tag = "message" =>
              Texts(t) = Texts(s) \cup {t[p].arg} /\ (Rises(s) /\ Below(Texts(s), {t[p].arg}) => Rises(t))
         /\ t[p].tag # "message" => Texts(t) = Texts(s) /\ (Rises(s) => Rises(t))
<1>1. Texts(s) \subseteq Texts(t)
  BY IsText
<1>2. \A m \in Texts(t) : m \in Texts(s) \/ (t[p].tag = "message" /\ m = t[p].arg)
  BY IsText
<1>3. t[p].tag = "message" => t[p].arg \in Texts(t)
  BY IsText
<1>4. ASSUME Rises(s), t[p].tag = "message" => Below(Texts(s), {t[p].arg}) PROVE Rises(t)
  <2> SUFFICES ASSUME NEW j \in DOMAIN t, NEW k \in DOMAIN t, j < k, t[j].tag = "message",
                      t[k].tag = "message", t[j].arg.by = t[k].arg.by
               PROVE  t[j].arg.n < t[k].arg.n
    BY DEF Rises
  <2>1. j \in DOMAIN s /\ t[j] = s[j]
    OBVIOUS
  <2>2. CASE k \in DOMAIN s
    BY <2>1, <2>2, <1>4 DEF Rises
  <2>3. CASE k = p
    <3>1. t[j].arg \in Texts(s)
      BY <2>1, IsText
    <3> QED BY <2>3, <3>1, <1>4 DEF Below
  <2> QED BY <2>2, <2>3
<1> QED BY <1>1, <1>2, <1>3, <1>4

\* Commands without a message among them.
LEMMA Mute ==
  ASSUME NEW S, NEW s \in Seq(S), NEW R, NEW t \in Seq(R), Free(t, {"message"})
  PROVE  Texts(t) = {} /\ Texts(s \o t) = Texts(s) /\ (Rises(s) => Rises(s \o t))
<1>1. Texts(t) = {}
  BY DEF Texts, Free
<1>2. Rises(t) /\ Below(Texts(s), Texts(t))
  BY <1>1 DEF Rises, Below, Free
<1>3. /\ Texts(s \o t) = Texts(s) \cup Texts(t)
      /\ Rises(s) /\ Rises(t) /\ Below(Texts(s), Texts(t)) => Rises(s \o t)
  BY JoinedTexts
<1> QED BY <1>1, <1>2, <1>3
-----------------------------------------------------------------------------
(* What a step does to the messages. *)

LEMMA ReadTexts ==
  ASSUME NEW c \in Conn, Types, Read(c)
  PROVE  /\ handler[c].todo = <<>> /\ \A d \in Conn \ {c} : handler'[d] = handler[d] /\ toServer'[d] = toServer[d]
         /\ handler'[c].acc = handler[c].acc /\ handler'[c].istonextstage = handler[c].istonextstage
         /\ handler'[c].toWhoseAcc = handler[c].toWhoseAcc
         /\ Texts(handler'[c].buf) \subseteq Texts(toServer[c])
         /\ Texts(handler'[c].todo) \subseteq Texts(toServer[c])
         /\ Texts(toServer'[c]) \subseteq Texts(toServer[c])
         /\ Rises(toServer[c]) => /\ Rises(handler'[c].todo) /\ Rises(toServer'[c])
                                  /\ Below(Texts(handler'[c].todo), Texts(toServer'[c]))
<1> DEFINE s == toServer[c]
<1>1. PICK k \in 0 .. Len(toServer[c]), got \in Seq(Asked), todo \in Seq(Asked \cup {Escape}),
           left \in Seq(Asked) :
           /\ got = SubSeq(toServer[c], 1, k) /\ Len(got) = k /\ todo = Parsed(got)
           /\ \A j \in 1 .. k : got[j] = toServer[c][j]
           /\ Ends(todo, got)
           /\ Len(left) <= Len(toServer[c]) - k /\ Ends(left, toServer[c])
           /\ handler' = [handler EXCEPT ![c] = [handler[c] EXCEPT !.buf = got, !.todo = todo]]
           /\ toServer' = [toServer EXCEPT ![c] = left]
  BY ReadSplits DEF Types
<1>2. /\ s \in Seq(Asked) /\ Len(s) \in Nat /\ DOMAIN s = 1 .. Len(s)
      /\ DOMAIN got = 1 .. k /\ DOMAIN todo = 1 .. Len(todo) /\ Len(todo) \in Nat
      /\ DOMAIN left = 1 .. Len(left) /\ Len(left) \in Nat /\ k \in Int
  BY <1>1, Parts, LenProperties
<1>3. /\ toServer'[c] = left /\ handler'[c].todo = todo /\ handler'[c].buf = got
      /\ handler'[c].acc = handler[c].acc /\ handler'[c].istonextstage = handler[c].istonextstage
      /\ handler'[c].toWhoseAcc = handler[c].toWhoseAcc
      /\ \A d \in Conn \ {c} : handler'[d] = handler[d] /\ toServer'[d] = toServer[d]
  BY <1>1 DEF Types, WireTypes, ThreadTypes, HandlerType
<1>4. Rest.tag # "message" /\ Escape.tag # "message"
  BY DEF Rest, Escape, Tag, Command
<1>5. \A j \in DOMAIN got : j \in DOMAIN s /\ got[j] = s[j]
  BY <1>1, <1>2
<1> HIDE DEF s
<1>6. \A j \in DOMAIN todo : todo[j].tag = "message" =>
        j + (Len(got) - Len(todo)) \in DOMAIN got /\ todo[j] = got[j + (Len(got) - Len(todo))]
  <2>1. Len(todo) <= Len(got)
    BY <1>1 DEF Ends
  <2>2. \A j \in 1 .. Len(todo) : todo[j] \in {Rest, Escape} \/ todo[j] = got[j + (Len(got) - Len(todo))]
    BY <1>1 DEF Ends
  <2>3. \A j \in 1 .. Len(todo) : j + (Len(got) - Len(todo)) \in 1 .. k
    BY <2>1, <1>1, <1>2
  <2> QED BY <2>2, <2>3, <1>2, <1>4
<1>7. \A j \in DOMAIN left : left[j].tag = "message" =>
        /\ j + (Len(s) - Len(left)) \in DOMAIN s /\ left[j] = s[j + (Len(s) - Len(left))]
        /\ j + (Len(s) - Len(left)) > k
  <2>1. Len(left) <= Len(s) - k /\ Len(left) <= Len(s)
    BY <1>1 DEF Ends, s
  <2>2. \A j \in 1 .. Len(left) : left[j] \in {Rest, Escape} \/ left[j] = s[j + (Len(s) - Len(left))]
    BY <1>1 DEF Ends, s
  <2>3. \A j \in 1 .. Len(left) : j + (Len(s) - Len(left)) \in 1 .. Len(s) /\ j + (Len(s) - Len(left)) > k
    BY <2>1, <1>2
  <2> QED BY <2>2, <2>3, <1>2, <1>4
<1>8. Texts(got) \subseteq Texts(s) /\ (Rises(s) => Rises(got))
  <2>1. DOMAIN got \subseteq Int /\ 0 \in Int
    BY <1>2
  <2>2. \A j \in DOMAIN got : got[j].tag = "message" => j + 0 \in DOMAIN s /\ got[j] = s[j + 0]
    BY <1>5, <2>1
  <2> QED BY <2>1, <2>2, Shifted
<1>9. Texts(todo) \subseteq Texts(got) /\ (Rises(got) => Rises(todo))
  <2>1. DOMAIN todo \subseteq Int /\ Len(got) - Len(todo) \in Int
    BY <1>1, <1>2
  <2> QED BY <2>1, <1>6, Shifted
<1>10. Texts(left) \subseteq Texts(s) /\ (Rises(s) => Rises(left))
  <2>1. DOMAIN left \subseteq Int /\ Len(s) - Len(left) \in Int
    BY <1>2
  <2> QED BY <2>1, <1>7, Shifted
<1>11. ASSUME Rises(s) PROVE Below(Texts(todo), Texts(left))
  <2> SUFFICES ASSUME NEW m \in Texts(todo), NEW x \in Texts(left), m.by = x.by PROVE m.n < x.n
    BY DEF Below
  <2>1. m \in Texts(got)
    BY <1>9
  <2>2. PICK j \in DOMAIN got : got[j].tag = "message" /\ got[j].arg = m
    BY <2>1, IsText
  <2>3. PICK i \in DOMAIN left : left[i].tag = "message" /\ left[i].arg = x
    BY IsText
  <2> DEFINE l == i + (Len(s) - Len(left))
  <2>4. l \in DOMAIN s /\ left[i] = s[l] /\ l > k
    BY <2>3, <1>7
  <2>5. j \in DOMAIN s /\ got[j] = s[j] /\ j <= k
    BY <2>2, <1>5, <1>2
  <2> HIDE DEF l
  <2>6. j < l
    BY <2>4, <2>5, <1>2
  <2> QED BY <2>2, <2>3, <2>4, <2>5, <2>6, <1>11 DEF Rises
<1>12. handler[c].todo = <<>>
  BY DEF Read
<1> QED BY <1>3, <1>8, <1>9, <1>10, <1>11, <1>12 DEF s

LEMMA ReadEndTexts ==
  ASSUME NEW c \in Conn, Types, ReadEnd(c)
  PROVE  /\ c \in closed /\ handler[c].todo = <<>> /\ \A d \in Conn \ {c} : handler'[d] = handler[d]
         /\ handler'[c].acc = handler[c].acc /\ handler'[c].istonextstage = handler[c].istonextstage
         /\ handler'[c].buf = handler[c].buf /\ Texts(handler'[c].todo) \subseteq Texts(handler[c].buf)
<1>1. handler' = [handler EXCEPT ![c].todo = Parsed(handler[c].buf)] /\ handler[c].todo = <<>> /\ c \in closed
  BY DEF ReadEnd
<1>2. handler \in [Conn -> HandlerType] /\ handler[c].buf \in Seq(Asked)
  BY DEF Types, ThreadTypes, HandlerType
<1> DEFINE t == Parsed(handler[c].buf)
           s == handler[c].buf
<1>3. /\ handler'[c].todo = t /\ handler'[c].acc = handler[c].acc /\ handler'[c].buf = handler[c].buf
      /\ handler'[c].istonextstage = handler[c].istonextstage
      /\ \A d \in Conn \ {c} : handler'[d] = handler[d]
  BY <1>1, <1>2 DEF HandlerType
<1>4. t \in Seq(Asked \cup {Escape}) /\ s \in Seq(Asked) /\ Ends(t, s)
  BY <1>2, ParsedEnds
<1> HIDE DEF t, s
<1>5. \A k \in DOMAIN t : t[k] \in {Rest, Escape} \/ \E j \in DOMAIN s : t[k] = s[j] /\ Len(s) - j = Len(t) - k
  BY <1>4, EndsKeep
<1>6. Rest.tag # "message" /\ Escape.tag # "message"
  BY DEF Rest, Escape, Tag, Command
<1>7. \A m \in Texts(t) : m \in Texts(s)
  BY <1>5, <1>6, IsText
<1> QED BY <1>1, <1>3, <1>7 DEF s

LEMMA TakingTexts ==
  ASSUME NEW c \in Conn, Types, StageInv(c), Taking(c), UNCHANGED client
  PROVE  /\ handler[c].todo # <<>> /\ handler[c].todo \in Seq(Asked \cup {Escape})
         /\ handler'[c].todo = Tail(handler[c].todo) /\ handler'[c].buf = handler[c].buf
         /\ toServer' = toServer /\ \A d \in Conn : delivery'[d].acc = delivery[d].acc
         /\ \A d \in Conn \ {c} : handler'[d] = handler[d] /\ toClient'[d] = toClient[d]
         /\ toClient'[c] = toClient[c] \/ \E t \in Answers : toClient'[c] = toClient[c] \o <<Tag(t)>>
         /\ TakeMessage(c) \/ TakeFileData(c) \/ UNCHANGED <<queue, recorded>>
<1>1. handler[c].todo # <<>> /\ handler[c].todo \in Seq(Asked \cup {Escape})
  BY TakingStep, Parts
<1>2. handler'[c].todo = Tail(handler[c].todo) /\ handler'[c].buf = handler[c].buf
  <2>1. PICK new \in HandlerType : new.todo = handler[c].todo /\ new.buf = handler[c].buf /\ Step(c, new)
    BY TakingStep
  <2>2. handler'[c] = [new EXCEPT !.todo = Tail(handler[c].todo)]
    BY <1>1, <2>1, StepType DEF Types
  <2> QED BY <2>1, <2>2 DEF HandlerType
<1>3. Handling(c)
  BY DEF Handling, Taking
<1>4. toServer' = toServer /\ \A d \in Conn \ {c} : Untouched(d)
  BY <1>3, TakingWire, ServerBeside
<1>5. delivery'[c].acc = delivery[c].acc
  <2>1. /\ delivery \in [Conn -> [state : {"none", "starting", "on"}, intact : BOOLEAN, acc : Person]]
    BY DEF Types, ThreadTypes
  <2>2. CASE delivery' = delivery \/ delivery' = [delivery EXCEPT ![c].intact = FALSE]
    BY <2>1, <2>2
  <2>3. CASE LogIn(c)
    <3>1. ~handler[c].istonextstage
      BY <2>3 DEF LogIn, Expected, Offline
    <3>2. delivery[c].acc = None
      BY <3>1 DEF StageInv
    <3> QED BY <2>1, <2>3, <3>2 DEF LogIn
  <2> QED BY <2>2, <2>3 DEF Taking, TakeTag, TakeUnexpected, TakeUsername, SignUp, RefuseLogin, TakeTarget,
             TakeMessage, TakeFileData, TakeKnock, TakeOther, Online
<1>6. toClient'[c] = toClient[c] \/ \E t \in Answers : toClient'[c] = toClient[c] \o <<Tag(t)>>
  <2>1. toClient \in [Conn -> Seq(Told \cup [tag : Answers])]
    BY DEF Types, WireTypes
  <2>2. ASSUME NEW t \in Answers, ServerWrites(c, <<Tag(t)>>)
        PROVE  toClient' = toClient \/ toClient'[c] = toClient[c] \o <<Tag(t)>>
    BY <2>1, <2>2 DEF ServerWrites
  <2>3. \/ toClient' = toClient
        \/ \E t \in Answers : ServerWrites(c, <<Tag(t)>>)
    BY DEF Taking, TakeTag, TakeUnexpected, TakeUsername, SignUp, LogIn, RefuseLogin, TakeTarget,
           TakeMessage, TakeFileData, TakeKnock, TakeOther, wire, Answers
  <2> QED BY <2>2, <2>3
<1>7. TakeMessage(c) \/ TakeFileData(c) \/ UNCHANGED <<queue, recorded>>
  BY DEF Taking, TakeTag, TakeUnexpected, TakeUsername, SignUp, LogIn, RefuseLogin, TakeTarget,
         TakeKnock, TakeOther, accounts
<1> QED BY <1>1, <1>2, <1>4, <1>5, <1>6, <1>7 DEF Untouched

\* A user who does not type sends no message, and no client a Rest.
LEMMA ClientSays ==
  ASSUME NEW c \in Conn, Types, UserActs(c) \/ UserThread(c) \/ ReceiveThread(c), ~TypeMessage(c)
  PROVE  /\ typed' = typed
         /\ \/ toServer' = toServer
            \/ \E R : \E t \in Seq(R) : Free(t, {"message", "rest"}) /\ toServer'[c] = toServer[c] \o t
<1>1. toServer \in [Conn -> Seq(Asked)]
  BY DEF Types, WireTypes
<1>2. ASSUME NEW R, NEW t \in Seq(R), Free(t, {"message", "rest"}), ClientSends(c, t)
      PROVE  \E Q : \E u \in Seq(Q) : Free(u, {"message", "rest"}) /\ toServer'[c] = toServer[c] \o u
  BY <1>1, <1>2 DEF ClientSends
<1>3. CASE AskSignUp(c) \/ AskLogIn(c)
  <2>1. PICK t \in {"signup", "login"} : Enter(c, t)
    BY <1>3 DEF AskSignUp, AskLogIn
  <2>2. PICK n \in Enters[c], w \in Password :
          ClientSends(c, <<Tag(t), Command("username", n), Command("password", w)>>)
    BY <2>1 DEF Enter
  <2> DEFINE s == <<Tag(t), Command("username", n), Command("password", w)>>
  <2>3. s \in Seq({Tag(t), Command("username", n), Command("password", w)}) /\ Free(s, {"message", "rest"})
    BY DEF Free, Tag, Command
  <2>4. typed' = typed
    BY <1>3 DEF AskSignUp, AskLogIn
  <2> QED BY <1>1, <1>2, <2>2, <2>3, <2>4
<1>4. CASE Knocking(c)
  <2>1. PICK n, s : Knock(c, n, s)
    BY <1>4 DEF Knocking, AskFriend, EndMessage
  <2>2. ClientSends(c, <<Command("knock", n)>>)
    BY <2>1 DEF Knock
  <2>3. <<Command("knock", n)>> \in Seq({Command("knock", n)}) /\ Free(<<Command("knock", n)>>, {"message", "rest"})
    BY DEF Free, Command
  <2>4. typed' = typed
    BY <1>4 DEF Knocking, AskFriend, EndMessage, counts
  <2> QED BY <1>1, <1>2, <2>2, <2>3, <2>4
<1>5. CASE LogOut(c)
  <2>1. <<Tag("logout")>> \in Seq({Tag("logout")}) /\ Free(<<Tag("logout")>>, {"message", "rest"})
    BY DEF Free, Tag
  <2> QED BY <1>1, <1>2, <1>5, <2>1 DEF LogOut, counts
<1>6. CASE SendSegment(c) \/ SendEnd(c)
  <2>1. PICK f, k, x : Segment(c, f, k, x)
    BY <1>6 DEF SendSegment, SendEnd
  <2> DEFINE s == <<Command("username", dst_usr[c]), FileData(f.filename, k, x)>>
  <2>2. s \in Seq({Command("username", dst_usr[c]), FileData(f.filename, k, x)}) /\ Free(s, {"message", "rest"})
    BY DEF Free, Command, FileData
  <2>3. ClientSends(c, s)
    BY <2>1 DEF Segment
  <2>4. typed' = typed
    BY <1>6 DEF SendSegment, SendEnd, counts
  <2> QED BY <1>1, <1>2, <2>2, <2>3, <2>4
<1>7. CASE ~(AskSignUp(c) \/ AskLogIn(c) \/ Knocking(c) \/ LogOut(c) \/ SendSegment(c) \/ SendEnd(c))
  <2>1. typed' = typed /\ toServer' = toServer
    <3>1. CASE UserActs(c) \/ UserThread(c)
      BY <3>1, <1>7
         DEF UserActs, UserThread, Quit, Confirm, EndMessage, ChooseFiles, Kill, Answered, FriendIs, Join,
             RemoveFile, FilesSent, RecvFails, SendFails, Knocking, ClientTakes, ClientCloses, counts, wire
    <3>2. CASE ReceiveThread(c)
      BY <3>2 DEF ReceiveThread, TakeSignal, TakeSource, ShowMessage, WriteFile, EndReceiving, ClientTakes,
                  counts, wire
    <3> QED BY <3>1, <3>2
  <2> QED BY <2>1
<1> QED BY <1>3, <1>4, <1>5, <1>6, <1>7

\* Only a message that is typed changes what the server is still to read.
LEMMA ClientTexts ==
  ASSUME NEW c \in Conn, Types, UserActs(c) \/ UserThread(c) \/ ReceiveThread(c), UNCHANGED server, ~TypeMessage(c)
  PROVE  /\ typed' = typed /\ \A d \in Conn \ {c} : toServer'[d] = toServer[d]
         /\ Texts(toServer'[c]) = Texts(toServer[c]) /\ (Rises(toServer[c]) => Rises(toServer'[c]))
<1>1. toServer[c] \in Seq(Asked) /\ \A d \in Conn \ {c} : toServer'[d] = toServer[d]
  BY ClientBeside, Parts DEF Untouched
<1>2. ASSUME NEW R, NEW t \in Seq(R), Free(t, {"message", "rest"}), toServer'[c] = toServer[c] \o t
      PROVE  Texts(toServer'[c]) = Texts(toServer[c]) /\ (Rises(toServer[c]) => Rises(toServer'[c]))
  <2>1. Free(t, {"message"})
    BY <1>2 DEF Free
  <2> QED BY <1>1, <1>2, <2>1, Mute
<1> QED BY <1>1, <1>2, ClientSays

\* What the client of a connection does with what it has been sent.
LEMMA ClientTakesTexts ==
  ASSUME NEW c \in Conn, Types, UserActs(c) \/ UserThread(c) \/ ReceiveThread(c), UNCHANGED server
  PROVE  /\ \A d \in Conn \ {c} : /\ toClient'[d] = toClient[d] /\ typed'[d] = typed[d]
                                  /\ shown'[d] = shown[d] /\ receiver'[d] = receiver[d]
         /\ ShowMessage(c) \/ shown' = shown
         /\ state[c] = "offline" \/ username' = username
         /\ \/ toClient'[c] = toClient[c] /\ receiver'[c].src_usr = receiver[c].src_usr
            \/ toClient'[c] = <<>>
            \/ /\ toClient[c] # <<>> /\ toClient'[c] = Tail(toClient[c])
               /\ receiver'[c].src_usr = IF Head(toClient[c]).tag = "username" THEN Head(toClient[c]).arg
                                         ELSE receiver[c].src_usr
<1>1. /\ toClient \in [Conn -> Seq(Told \cup [tag : Answers])] /\ typed \in [Conn -> Nat]
      /\ receiver \in [Conn -> [state : {"off", "on", "failed"}, src_usr : Person, open : SUBSET File]]
      /\ shown \in [Conn -> Seq(Person \X Text)]
  BY DEF Types, WireTypes, UserTypes, InboxTypes
<1>2. ShowMessage(c) \/ shown' = shown
  BY DEF UserActs, AskSignUp, AskLogIn, Quit, AskFriend, Confirm, TypeMessage, EndMessage, LogOut, ChooseFiles, Kill,
         UserThread, Answered, FriendIs, Join, SendSegment, SendEnd, RemoveFile, FilesSent, RecvFails, SendFails,
         ReceiveThread, TakeSignal, TakeSource, WriteFile, EndReceiving, inbox
<1>3. state[c] = "offline" \/ username' = username
  BY DEF UserActs, AskSignUp, AskLogIn, Quit, AskFriend, Confirm, TypeMessage, EndMessage, LogOut, ChooseFiles, Kill,
         UserThread, Answered, FriendIs, Join, SendSegment, SendEnd, RemoveFile, FilesSent, RecvFails, SendFails,
         ReceiveThread, TakeSignal, TakeSource, ShowMessage, WriteFile, EndReceiving, Goto, user
<1>4. \A d \in Conn \ {c} : typed'[d] = typed[d] /\ shown'[d] = shown[d]
  <2>1. CASE TypeMessage(c)
    BY <2>1, <1>1, <1>2 DEF TypeMessage, inbox, ShowMessage
  <2>2. CASE ~TypeMessage(c)
    <3>1. typed' = typed
      BY <2>2, ClientTexts
    <3> QED BY <3>1, <1>1, <1>2 DEF ShowMessage
  <2> QED BY <2>1, <2>2
<1>5. \A d \in Conn \ {c} : toClient'[d] = toClient[d]
  BY ClientBeside DEF Untouched
<1> DEFINE x == Head(toClient[c])
           Taken == /\ toClient[c] # <<>> /\ toClient'[c] = Tail(toClient[c])
                    /\ receiver'[c].src_usr = IF x.tag = "username" THEN x.arg ELSE receiver[c].src_usr
                    /\ \A d \in Conn \ {c} : receiver'[d] = receiver[d]
<1>6. CASE ReceiveThread(c)
  <2>1. CASE EndReceiving(c)
    BY <2>1, <1>1, <1>2, <1>3, <1>4, <1>5 DEF EndReceiving, wire
  <2>2. CASE ~EndReceiving(c)
    <3>1. Has(c) /\ ClientTakes(c)
      BY <1>6, <2>2 DEF ReceiveThread, TakeSignal, TakeSource, ShowMessage, WriteFile
    <3>2. toClient[c] # <<>> /\ toClient'[c] = Tail(toClient[c]) /\ x.tag # "logout-confirmed"
      <4>1. x \in Told \cup [tag : Answers]
        BY <3>1, Takes DEF Types
      <4>2. x.tag # "logout-confirmed"
        BY <4>1, ToldParts
      <4> QED BY <3>1, <4>2, <1>1 DEF ClientTakes, Has
    <3>3. CASE TakeSource(c)
      BY <3>2, <3>3, <1>1, <1>2, <1>3, <1>4, <1>5 DEF TakeSource, NextTag
    <3>4. CASE TakeSignal(c) \/ ShowMessage(c)
      BY <3>2, <3>4, <1>1, <1>2, <1>3, <1>4, <1>5 DEF TakeSignal, ShowMessage, NextTag
    <3>5. CASE WriteFile(c)
      <4>1. x.tag = "filedata" /\ \E o : receiver' = [receiver EXCEPT ![c].open = o]
        BY <3>5 DEF WriteFile, NextTag
      <4> QED BY <3>2, <4>1, <1>1, <1>2, <1>3, <1>4, <1>5
    <3> QED BY <1>6, <2>2, <3>3, <3>4, <3>5 DEF ReceiveThread
  <2> QED BY <2>1, <2>2
<1>7. CASE Answered(c)
  <2>1. toClient[c] # <<>> /\ toClient'[c] = Tail(toClient[c]) /\ x.tag # "username"
    BY <1>7, <1>1, AnsweredTypes
  <2>2. receiver' = receiver \/ receiver' = [receiver EXCEPT ![c].state = "on"]
    BY <1>7 DEF Answered
  <2> QED BY <2>1, <2>2, <1>1, <1>2, <1>3, <1>4, <1>5
<1>8. CASE Ending(c)
  <2>1. ClientCloses(c) \/ (Join(c) /\ receiver[c].state = "done")
    BY <1>8 DEF Ending, Quit, RecvFails, SendFails, Kill, Join, RemoveFile
  <2>2. toClient'[c] = <<>>
    BY <2>1, <1>1 DEF ClientCloses
  <2>3. receiver' = receiver
    BY <1>8, EndingTypes DEF inbox
  <2> QED BY <2>2, <2>3, <1>2, <1>3, <1>4, <1>5
<1>9. CASE AskSignUp(c) \/ AskLogIn(c) \/ Knocking(c) \/ Moving(c) \/ FriendIs(c)
  <2>1. toClient' = toClient /\ receiver' = receiver
    BY <1>9, AskTypes, KnockingTypes, MovingTypes, FriendIsTypes DEF inbox, wire
  <2> QED BY <2>1, <1>2, <1>3, <1>4, <1>5
<1> QED BY <1>6, <1>7, <1>8, <1>9, ClientSteps
-----------------------------------------------------------------------------
(* The typists. *)

LEMMA TypistBeside ==
  ASSUME NEW d \in Conn, Untouched(d), typed'[d] = typed[d], TypistInv(d) PROVE TypistInv(d)'
BY DEF TypistInv, Untouched

LEMMA ServerTypist ==
  ASSUME NEW c \in Conn, Types, ConnInv(c), TypistInv(c), Handling(c) \/ Delivering(c), UNCHANGED client
  PROVE  TypistInv(c)'
<1>1. typed' = typed /\ username' = username /\ state' = state
  BY DEF client, counts, user
<1>2. CASE Read(c)
  <2>1. /\ Texts(handler'[c].buf) \subseteq Texts(toServer[c]) /\ Texts(handler'[c].todo) \subseteq Texts(toServer[c])
        /\ Texts(toServer'[c]) \subseteq Texts(toServer[c])
        /\ handler'[c].acc = handler[c].acc /\ handler'[c].istonextstage = handler[c].istonextstage
    BY <1>2, ReadTexts
  <2> QED BY <2>1, <1>1 DEF TypistInv
<1>3. CASE ReadEnd(c)
  <2>1. /\ handler'[c].buf = handler[c].buf /\ Texts(handler'[c].todo) \subseteq Texts(handler[c].buf)
        /\ handler'[c].acc = handler[c].acc /\ handler'[c].istonextstage = handler[c].istonextstage
    BY <1>3, ReadEndTexts
  <2>2. toServer' = toServer
    BY <1>3 DEF ReadEnd, wire
  <2> QED BY <2>1, <2>2, <1>1 DEF TypistInv
<1>4. CASE Taking(c)
  <2>1. /\ handler[c].todo # <<>> /\ handler[c].todo \in Seq(Asked \cup {Escape})
        /\ handler'[c].todo = Tail(handler[c].todo) /\ handler'[c].buf = handler[c].buf
        /\ toServer' = toServer
    BY <1>4, TakingTexts DEF ConnInv
  <2>2. Texts(handler'[c].todo) \subseteq Texts(handler[c].todo)
    BY <2>1, TailTexts
  <2>3. handler[c].istonextstage => handler'[c].istonextstage /\ handler'[c].acc = handler[c].acc
    BY <1>4, TakingOwned
  <2> QED BY <2>1, <2>2, <2>3, <1>1 DEF TypistInv
<1>5. CASE Delivering(c)
  <2>1. handler' = handler /\ toServer' = toServer
    BY <1>5 DEF Delivering, StartDelivery, Deliver, wire
  <2> QED BY <2>1, <1>1 DEF TypistInv
<1> QED BY <1>2, <1>3, <1>4, <1>5 DEF Handling, Taking

\* The message that is typed.
Typed(c) == [by |-> c, to |-> dst_usr[c], n |-> typed[c] + 1]

LEMMA TypedTexts ==
  ASSUME NEW c \in Conn, Types, TypeMessage(c)
  PROVE  /\ Typed(c) \in Text /\ typed' = [typed EXCEPT ![c] = @ + 1] /\ typed[c] \in Nat
         /\ state[c] = "typing" /\ state' = state /\ username' = username /\ dst_usr' = dst_usr
         /\ toServer'[c] = toServer[c] \o <<Command("username", dst_usr[c]), Command("message", Typed(c))>>
         /\ \A d \in Conn \ {c} : toServer'[d] = toServer[d]
         /\ toClient' = toClient /\ shown' = shown /\ receiver' = receiver
         /\ Texts(toServer'[c]) = Texts(toServer[c]) \cup {Typed(c)}
         /\ Rises(toServer[c]) /\ Below(Texts(toServer[c]), {Typed(c)}) => Rises(toServer'[c])
<1>1. /\ typed \in [Conn -> Nat] /\ dst_usr[c] \in Person
      /\ toServer \in [Conn -> Seq(Asked)] /\ toServer[c] \in Seq(Asked)
  BY DEF Types, UserTypes, WireTypes
<1>2. Typed(c) \in Text
  BY <1>1 DEF Typed, Text
<1>3. /\ state[c] = "typing" /\ typed' = [typed EXCEPT ![c] = @ + 1]
      /\ ClientSends(c, <<Command("username", dst_usr[c]), Command("message", Typed(c))>>)
      /\ UNCHANGED <<state, user, inbox>>
  BY DEF TypeMessage, Typed
<1> DEFINE x == Command("username", dst_usr[c])
           y == Command("message", Typed(c))
           t == <<x, y>>
<1>4. toServer'[c] = toServer[c] \o t /\ \A d \in Conn \ {c} : toServer'[d] = toServer[d]
  BY <1>1, <1>3 DEF ClientSends
<1>5. x.tag = "username" /\ y.tag = "message" /\ y.arg = Typed(c)
  BY DEF Command
<1> HIDE DEF x, y
<1>6. t \in Seq({x, y}) /\ DOMAIN t = {1, 2} /\ t[1] = x /\ t[2] = y
  OBVIOUS
<1>7. Texts(t) = {Typed(c)}
  <2>1. \A m : m \in Texts(t) <=> m = Typed(c)
    BY <1>5, <1>6, IsText
  <2> QED BY <2>1
<1>8. Rises(t)
  BY <1>5, <1>6 DEF Rises
<1>9. /\ Texts(toServer[c] \o t) = Texts(toServer[c]) \cup Texts(t)
      /\ Rises(toServer[c]) /\ Rises(t) /\ Below(Texts(toServer[c]), Texts(t)) => Rises(toServer[c] \o t)
  BY <1>1, <1>6, JoinedTexts
<1>10. UNCHANGED <<username, dst_usr, toClient, shown, receiver>>
  BY <1>3 DEF user, inbox, ClientSends
<1> QED BY <1>1, <1>2, <1>3, <1>4, <1>7, <1>8, <1>9, <1>10 DEF x, y

LEMMA ClientTypist ==
  ASSUME NEW c \in Conn, Types, ConnInv(c), TypistInv(c),
         UserActs(c) \/ UserThread(c) \/ ReceiveThread(c), UNCHANGED server
  PROVE  TypistInv(c)'
<1>1. handler' = handler /\ typed[c] \in Nat
  BY DEF server, Types, UserTypes
<1>2. CASE TypeMessage(c)
  <2>1. /\ typed' = [typed EXCEPT ![c] = @ + 1] /\ typed \in [Conn -> Nat] /\ state[c] = "typing"
        /\ state' = state /\ username' = username /\ Texts(toServer'[c]) = Texts(toServer[c]) \cup {Typed(c)}
    BY <1>2, TypedTexts DEF Types, UserTypes
  <2>2. typed'[c] = typed[c] + 1 /\ typed'[c] > 0
    BY <2>1, <1>1
  <2>3. handler[c].istonextstage /\ handler[c].acc = username[c] /\ state[c] \notin Offered
    BY <2>1 DEF ConnInv, SessionInv, Owned, InSession, Offered
  <2>4. Typed(c).by = c
    BY DEF Typed
  <2> QED BY <1>1, <2>1, <2>2, <2>3, <2>4 DEF TypistInv
<1>3. CASE ~TypeMessage(c)
  <2>1. typed' = typed /\ Texts(toServer'[c]) = Texts(toServer[c])
    BY <1>3, ClientTexts
  <2>2. typed[c] > 0 => state'[c] \notin Offered
    <3> SUFFICES ASSUME typed[c] > 0, state'[c] \in Offered PROVE FALSE
      OBVIOUS
    <3>1. state[c] \notin Offered
      BY DEF TypistInv
    <3>2. state \in [Conn -> Offered \cup InSession \cup {"exited"}]
      BY DEF Types, UserTypes
    <3>3. ~(AskSignUp(c) \/ AskLogIn(c) \/ Answered(c))
      BY <3>1, AskTypes, AnsweredTypes DEF Offered
    <3>4. ~Ending(c) /\ ~Knocking(c)
      BY <3>2, EndingTypes, KnockingTypes DEF Offered
    <3>5. ~Moving(c) /\ ~FriendIs(c)
      <4>1. \A v \in Quiet : v \notin Offered
        BY DEF Quiet, InSession, Offered
      <4> QED BY <4>1, <3>2, MovingTypes, FriendIsTypes
    <3>6. ~ReceiveThread(c)
      BY <3>1, ReceivingTypes
    <3> QED BY <3>3, <3>4, <3>5, <3>6, ClientSteps
  <2>3. typed[c] > 0 => username' = username
    BY ClientTakesTexts DEF TypistInv, Offered
  <2> QED BY <1>1, <2>1, <2>2, <2>3 DEF TypistInv
<1> QED BY <1>2, <1>3

\* A user who has typed something keeps the name.
Lasts == \A d \in Conn : typed[d] > 0 => typed'[d] > 0 /\ username'[d] = username[d]

LEMMA NamesLast ==
  ASSUME IInv, \A c \in Conn : TypistInv(c), [Next]_vars PROVE Lasts
<1>1. CASE UNCHANGED client
  BY <1>1 DEF Lasts, client, user, counts
<1>2. ASSUME NEW c \in Conn, UserActs(c) \/ UserThread(c) \/ ReceiveThread(c), UNCHANGED server PROVE Lasts
  <2>1. Types /\ typed \in [Conn -> Nat]
    BY DEF IInv, Types, UserTypes
  <2>2. CASE TypeMessage(c)
    <3>1. typed' = [typed EXCEPT ![c] = @ + 1] /\ username' = username
      BY <2>1, <2>2, TypedTexts
    <3> QED BY <2>1, <3>1 DEF Lasts
  <2>3. CASE ~TypeMessage(c)
    <3>1. typed' = typed /\ (state[c] = "offline" \/ username' = username)
      BY <1>2, <2>1, <2>3, ClientTexts, ClientTakesTexts
    <3>2. typed[c] > 0 => username' = username
      BY <3>1 DEF TypistInv, Offered
    <3>3. \A d \in Conn \ {c} : username'[d] = username[d]
      BY <1>2, <2>1, ClientBeside DEF Untouched
    <3> QED BY <3>1, <3>2, <3>3 DEF Lasts
  <2> QED BY <2>2, <2>3
<1> QED BY <1>1, <1>2 DEF Next, ServerStep, UserStep, ThreadStep, vars

LEMMA TypistNext ==
  ASSUME IInv, \A c \in Conn : TypistInv(c), [Next]_vars PROVE \A c \in Conn : TypistInv(c)'
<1>1. Types /\ \A c \in Conn : ConnInv(c) /\ StageInv(c)
  BY DEF IInv, ConnInv
<1>2. ASSUME NEW c \in Conn, ServerStep(c) PROVE \A d \in Conn : TypistInv(d)'
  <2>1. (Handling(c) \/ Delivering(c)) /\ UNCHANGED client /\ typed' = typed
    BY <1>2 DEF ServerStep, client, counts
  <2>2. \A d \in Conn \ {c} : Untouched(d)
    BY <1>1, <2>1, ServerBeside
  <2>3. TypistInv(c)'
    BY <1>1, <2>1, ServerTypist
  <2> QED BY <2>1, <2>2, <2>3, TypistBeside
<1>3. ASSUME NEW c \in Conn, UserStep(c) \/ ThreadStep(c) PROVE \A d \in Conn : TypistInv(d)'
  <2>1. (UserActs(c) \/ UserThread(c) \/ ReceiveThread(c)) /\ UNCHANGED server
    BY <1>3 DEF UserStep, ThreadStep
  <2>2. \A d \in Conn \ {c} : Untouched(d) /\ typed'[d] = typed[d]
    BY <1>1, <2>1, ClientBeside, ClientTakesTexts
  <2>3. TypistInv(c)'
    BY <1>1, <2>1, ClientTypist
  <2> QED BY <2>2, <2>3, TypistBeside
<1>4. CASE UNCHANGED vars
  <2>1. \A d \in Conn : Untouched(d) /\ typed'[d] = typed[d]
    BY <1>4 DEF vars, wire, server, client, user, inbox, counts, Untouched
  <2> QED BY <2>1, TypistBeside
<1> QED BY <1>2, <1>3, <1>4 DEF Next
-----------------------------------------------------------------------------
(* The names on the messages. *)

\* In t every message follows its typist's name.
Headed(t) == \A k \in DOMAIN t :
  t[k].tag = "message" => k > 1 /\ t[k - 1].tag = "username" /\ Signed(t[k - 1].arg, t[k].arg)

LEMMA SourcedJoin ==
  ASSUME NEW S, NEW s \in Seq(S), NEW R, NEW t \in Seq(R), NEW src, Sourced(s, src), Headed(t)
  PROVE  Sourced(s \o t, src)
<1> DEFINE st == s \o t
<1>1. /\ Len(s) \in Nat /\ Len(t) \in Nat /\ DOMAIN st = 1 .. Len(s) + Len(t)
      /\ DOMAIN s = 1 .. Len(s) /\ DOMAIN t = 1 .. Len(t)
  BY ConcatKeeps, LenProperties
<1>2. \A k \in 1 .. Len(s) + Len(t) : st[k] = IF k <= Len(s) THEN s[k] ELSE t[k - Len(s)]
  <2>1. s \in Seq(S \cup R) /\ t \in Seq(S \cup R)
    BY SeqMonotonic
  <2> QED BY <2>1, ConcatProperties
<1> HIDE DEF st
<1> SUFFICES ASSUME NEW k \in DOMAIN st, st[k].tag = "message"
             PROVE  IF k = 1 THEN Signed(src, st[1].arg)
                    ELSE st[k - 1].tag = "username" /\ Signed(st[k - 1].arg, st[k].arg)
  BY DEF Sourced, st
<1>3. CASE k <= Len(s)
  <2>1. k \in DOMAIN s /\ st[k] = s[k] /\ (k # 1 => st[k - 1] = s[k - 1])
    BY <1>1, <1>2, <1>3
  <2> QED BY <2>1 DEF Sourced
<1>4. CASE k > Len(s)
  <2> DEFINE j == k - Len(s)
  <2>1. j \in DOMAIN t /\ st[k] = t[j]
    BY <1>1, <1>2, <1>4
  <2>2. j > 1 /\ t[j - 1].tag = "username" /\ Signed(t[j - 1].arg, t[j].arg)
    BY <2>1, <1>4 DEF Headed
  <2>3. k # 1 /\ k - 1 \in 1 .. Len(s) + Len(t) /\ ~(k - 1 <= Len(s)) /\ (k - 1) - Len(s) = j - 1
    BY <2>2, <1>1
  <2>4. st[k - 1] = t[j - 1]
    BY <2>3, <1>2
  <2> HIDE DEF j
  <2> QED BY <2>1, <2>2, <2>3, <2>4
<1> QED BY <1>1, <1>3, <1>4

LEMMA SourcedTail ==
  ASSUME NEW S, NEW s \in Seq(S), s # <<>>, NEW src, NEW new, Sourced(s, src),
         Head(s).tag = "username" => new = Head(s).arg
  PROVE  Sourced(Tail(s), new) /\ (Head(s).tag = "message" => Signed(src, Head(s).arg))
<1>1. /\ Tail(s) \in Seq(S) /\ Head(s) = s[1] /\ 1 \in DOMAIN s
      /\ \A k \in DOMAIN Tail(s) : k + 1 \in DOMAIN s /\ k \in Nat /\ Tail(s)[k] = s[k + 1]
  BY TailKeeps
<1>2. DOMAIN Tail(s) = 1 .. Len(Tail(s)) /\ Len(Tail(s)) \in Nat
  BY <1>1, LenProperties
<1>3. ASSUME NEW k \in DOMAIN Tail(s), Tail(s)[k].tag = "message"
      PROVE  IF k = 1 THEN Signed(new, Tail(s)[1].arg)
             ELSE Tail(s)[k - 1].tag = "username" /\ Signed(Tail(s)[k - 1].arg, Tail(s)[k].arg)
  <2>1. k + 1 \in DOMAIN s /\ k + 1 # 1 /\ (k + 1) - 1 = k /\ s[k + 1] = Tail(s)[k]
    BY <1>1, <1>2
  <2>2. s[k].tag = "username" /\ Signed(s[k].arg, Tail(s)[k].arg)
    BY <2>1, <1>3 DEF Sourced
  <2>3. k # 1 => k - 1 \in DOMAIN Tail(s) /\ Tail(s)[k - 1] = s[k]
    <3>1. k # 1 => k - 1 \in DOMAIN Tail(s) /\ (k - 1) + 1 = k
      BY <1>2
    <3> QED BY <3>1, <1>1
  <2> QED BY <2>2, <2>3, <1>1
<1>4. Sourced(Tail(s), new)
  BY <1>3 DEF Sourced
<1> QED BY <1>1, <1>4 DEF Sourced

\* A name once right stays right.
WillSign(name, m) == typed'[m.by] > 0 /\ name = username'[m.by]

WillSource(s, src_usr) == \A k \in DOMAIN s : s[k].tag = "message" =>
  IF k = 1 THEN WillSign(src_usr, s[1].arg)
  ELSE s[k - 1].tag = "username" /\ WillSign(s[k - 1].arg, s[k].arg)

LEMMA SignedLasts ==
  ASSUME Lasts, NEW name, NEW m, m.by \in Conn, Signed(name, m) PROVE WillSign(name, m)
BY DEF Lasts, Signed, WillSign

LEMMA SourcedLasts ==
  ASSUME Lasts, NEW src, NEW s, \A k \in DOMAIN s : s[k].tag = "message" => s[k].arg.by \in Conn, Sourced(s, src)
  PROVE  WillSource(s, src)
BY SignedLasts DEF Sourced, WillSource

LEMMA JobLasts ==
  ASSUME Lasts, NEW job, GoodJob(job)
  PROVE  /\ Len(job) = 2 /\ job[1] \in Source /\ job[2] \in Said
         /\ job[2].tag = "message" => WillSign(job[1].arg, job[2].arg)
<1>1. job[2].tag = "message" => job[2].arg.by \in Conn
  <2>1. job[2] \in Asked \cup {Escape}
    BY DEF GoodJob, Asked
  <2>2. job[2].tag = "message" => job[2].arg \in Text
    BY <2>1, AskedParts
  <2> QED BY <2>2 DEF Text
<1> QED BY <1>1, SignedLasts DEF GoodJob

\* The message a handler takes is signed with the handler's account.
LEMMA TakenMessage ==
  ASSUME NEW c \in Conn, Types, TypistInv(c), TakeMessage(c)
  PROVE  LET m == Now(c).arg IN
         /\ Now(c).tag = "message" /\ Now(c) \in Said /\ m \in Text /\ m \in Texts(handler[c].todo) /\ m.by = c
         /\ Signed(handler[c].acc, m) /\ handler[c].acc \in Person /\ handler[c].toWhoseAcc \in Person
         /\ JobAssign(handler[c].toWhoseAcc, <<Command("username", handler[c].acc), Now(c)>>)
<1>1. handler[c].todo # <<>> /\ Now(c).tag = "message"
      /\ JobAssign(handler[c].toWhoseAcc, <<Command("username", handler[c].acc), Now(c)>>)
  BY DEF TakeMessage, Online
<1>2. handler[c] \in HandlerType /\ Now(c) \in Asked \cup {Escape} /\ handler[c].todo \in Seq(Asked \cup {Escape})
  BY <1>1, NowType, Parts DEF Types
<1>3. Now(c) \in Said /\ Now(c).arg \in Text
  BY <1>1, <1>2, AskedParts
<1>4. Now(c).arg \in Texts(handler[c].todo)
  BY <1>1, <1>2, TailTexts DEF Now
<1>5. handler[c].acc \in Person /\ handler[c].toWhoseAcc \in Person
  BY <1>2 DEF HandlerType
<1> QED BY <1>1, <1>3, <1>4, <1>5 DEF TypistInv, Signed

\* The last job of a queue, if a command added one.
LEMMA AddedJob ==
  ASSUME AccountTypes, NEW to, NEW job, JobAssign(to, job), NEW n \in Name
  PROVE  /\ queue[n] \in Seq(Seq(Told)) /\ Len(queue[n]) \in Nat /\ DOMAIN queue[n] = 1 .. Len(queue[n])
         /\ \/ queue'[n] = queue[n]
            \/ /\ n = to /\ DOMAIN queue'[n] = DOMAIN queue[n] \cup {Len(queue[n]) + 1}
               /\ queue'[n][Len(queue[n]) + 1] = job
               /\ \A k \in DOMAIN queue[n] : k \in Int /\ k < Len(queue[n]) + 1 /\ queue'[n][k] = queue[n][k]
<1>1. /\ queue \in [Name -> Seq(Seq(Told))] /\ queue[n] \in Seq(Seq(Told))
      /\ Len(queue[n]) \in Nat /\ DOMAIN queue[n] = 1 .. Len(queue[n])
  BY LenProperties DEF AccountTypes
<1>2. CASE queue' = [queue EXCEPT ![to] = Append(@, job)] /\ n = to
  <2> DEFINE q == queue[n]
             r == Append(q, job)
  <2>1. queue'[n] = r
    BY <1>1, <1>2
  <2>2. q \in Seq(Seq(Told) \cup {job}) /\ job \in Seq(Told) \cup {job}
    BY <1>1, SeqMonotonic
  <2>3. /\ r \in Seq(Seq(Told) \cup {job}) /\ Len(r) = Len(q) + 1
        /\ \A k \in 1 .. Len(q) : r[k] = q[k]
        /\ r[Len(q) + 1] = job
    <3> HIDE DEF q
    <3> QED BY <2>2, AppendProperties
  <2>4. DOMAIN r = 1 .. Len(r)
    BY <2>3, LenProperties
  <2> HIDE DEF r
  <2>5. DOMAIN r = DOMAIN q \cup {Len(q) + 1}
    BY <2>3, <2>4, <1>1
  <2>6. \A k \in DOMAIN q : k \in Int /\ k < Len(q) + 1 /\ r[k] = q[k]
    <3>1. Len(q) \in Nat /\ DOMAIN q = 1 .. Len(q)
      BY <1>1
    <3> HIDE DEF q
    <3> QED BY <3>1, <2>3
  <2>7. Len(q) + 1 = Len(queue[n]) + 1 /\ r[Len(q) + 1] = job /\ q = queue[n]
    BY <2>3
  <2> HIDE DEF q
  <2>8. DOMAIN queue'[n] = DOMAIN queue[n] \cup {Len(queue[n]) + 1}
    BY <2>1, <2>5, <2>7
  <2>9. queue'[n][Len(queue[n]) + 1] = job
    BY <2>1, <2>7
  <2>10. \A k \in DOMAIN queue[n] : k \in Int /\ k < Len(queue[n]) + 1 /\ queue'[n][k] = queue[n][k]
    BY <2>1, <2>6, <2>7
  <2>11. n = to
    BY <1>2
  <2> QED BY <1>1, <2>8, <2>9, <2>10, <2>11
<1>3. CASE queue' = queue \/ n # to
  BY <1>1, <1>3 DEF JobAssign
<1> QED BY <1>2, <1>3 DEF JobAssign

LEMMA GoodJobs ==
  ASSUME NEW n \in Name, Lasts, \A k \in DOMAIN queue'[n] : GoodJob(queue'[n][k]) PROVE JobInv(n)'
<1> SUFFICES ASSUME NEW k \in DOMAIN queue'[n]
             PROVE  /\ Len(queue'[n][k]) = 2 /\ queue'[n][k][1] \in Source /\ queue'[n][k][2] \in Said
                    /\ queue'[n][k][2].tag = "message" => WillSign(queue'[n][k][1].arg, queue'[n][k][2].arg)
  BY DEF JobInv, GoodJob, Signed, WillSign
<1> QED BY JobLasts

LEMMA JobsBetter ==
  ASSUME AccountTypes, NEW n \in Name, JobInv(n), NEW from \in Person, NEW cmd \in Said, NEW to,
         cmd.tag = "message" => Signed(from, cmd.arg), JobAssign(to, <<Command("username", from), cmd>>)
  PROVE  \A k \in DOMAIN queue'[n] : GoodJob(queue'[n][k])
<1> DEFINE job == <<Command("username", from), cmd>>
<1>1. GoodJob(job)
  BY DEF GoodJob, Command, Source
<1>2. \/ queue'[n] = queue[n]
      \/ /\ DOMAIN queue'[n] = DOMAIN queue[n] \cup {Len(queue[n]) + 1}
         /\ queue'[n][Len(queue[n]) + 1] = job
         /\ \A k \in DOMAIN queue[n] : queue'[n][k] = queue[n][k]
  BY AddedJob
<1> HIDE DEF job
<1> QED BY <1>1, <1>2 DEF JobInv

LEMMA JobNext ==
  ASSUME IInv, Lasts, \A c \in Conn : TypistInv(c), NEW n \in Name, JobInv(n), [Next]_vars PROVE JobInv(n)'
<1>1. Types /\ AccountTypes /\ \A c \in Conn : StageInv(c)
  BY DEF IInv, ConnInv, Types
<1>2. CASE queue' = queue
  BY <1>2, GoodJobs DEF JobInv
<1>3. ASSUME NEW c \in Conn, Taking(c), UNCHANGED client PROVE JobInv(n)'
  <2>1. CASE TakeMessage(c)
    <3>1. /\ Now(c).tag = "message" /\ Now(c) \in Said /\ Signed(handler[c].acc, Now(c).arg)
          /\ handler[c].acc \in Person
          /\ JobAssign(handler[c].toWhoseAcc, <<Command("username", handler[c].acc), Now(c)>>)
      BY <1>1, <2>1, TakenMessage
    <3> QED BY <1>1, <3>1, JobsBetter, GoodJobs
  <2>2. CASE TakeFileData(c)
    <3>1. /\ handler[c].todo # <<>> /\ Now(c).tag = "filedata"
          /\ JobAssign(handler[c].toWhoseAcc, <<Command("username", handler[c].acc), Now(c)>>)
      BY <2>2 DEF TakeFileData, Online
    <3>2. Now(c) \in Said /\ handler[c].acc \in Person
      BY <1>1, <3>1, NowType, AskedParts DEF Types, HandlerType
    <3> QED BY <1>1, <3>1, <3>2, JobsBetter, GoodJobs
  <2>3. CASE queue' = queue
    BY <2>3, <1>2
  <2> QED BY <1>1, <1>3, <2>1, <2>2, <2>3, TakingTexts
<1>4. ASSUME NEW c \in Conn, Deliver(c), UNCHANGED client PROVE JobInv(n)'
  <2> DEFINE m == delivery[c].acc
             q == queue[m]
  <2>1. m \in Name /\ q \in Seq(Seq(Told)) /\ q # <<>> /\ queue' = [queue EXCEPT ![m] = Tail(q)]
    BY <1>1, <1>4, Delivered
  <2>2. CASE n = m
    <3>1. queue'[n] = Tail(q) /\ q = queue[n]
      BY <2>1, <2>2, <1>1 DEF AccountTypes
    <3>2. \A k \in DOMAIN Tail(q) : k + 1 \in DOMAIN q /\ Tail(q)[k] = q[k + 1]
      BY <2>1, TailKeeps
    <3> HIDE DEF q
    <3>3. \A k \in DOMAIN queue'[n] : GoodJob(queue'[n][k])
      BY <3>1, <3>2 DEF JobInv
    <3> QED BY <3>3, GoodJobs
  <2>3. CASE n # m
    <3>1. queue'[n] = queue[n]
      BY <2>1, <2>3
    <3>2. \A k \in DOMAIN queue'[n] : GoodJob(queue'[n][k])
      BY <3>1 DEF JobInv
    <3> QED BY <3>2, GoodJobs
  <2> QED BY <2>2, <2>3
<1>5. ASSUME NEW c \in Conn, Read(c) \/ ReadEnd(c) \/ StartDelivery(c) PROVE queue' = queue
  BY <1>5 DEF Read, ReadEnd, StartDelivery, accounts
<1>6. ASSUME NEW c \in Conn, ServerStep(c) PROVE JobInv(n)'
  BY <1>2, <1>3, <1>4, <1>5, <1>6 DEF ServerStep, Handling, Delivering, Taking
<1>7. CASE UNCHANGED server
  BY <1>7, <1>2 DEF server, accounts
<1> QED BY <1>6, <1>7 DEF Next, UserStep, ThreadStep, vars

\* What is shown and what is on its way to a client, before the names last.
Named(c) == /\ Sourced(toClient'[c], receiver'[c].src_usr)
            /\ \A k \in DOMAIN shown'[c] : Signed(shown'[c][k][1], shown'[c][k][2])

LEMMA NamedLasts ==
  ASSUME Lasts, NEW c \in Conn, toClient'[c] \in Seq(Told \cup [tag : Answers]),
         shown'[c] \in Seq(Person \X Text), Named(c)
  PROVE  SourceInv(c)'
<1>1. WillSource(toClient'[c], receiver'[c].src_usr)
  <2> SUFFICES ASSUME NEW k \in DOMAIN toClient'[c], toClient'[c][k].tag = "message"
               PROVE  toClient'[c][k].arg.by \in Conn
    BY SourcedLasts DEF Named
  <2>1. toClient'[c][k] \in Told \cup [tag : Answers]
    BY ElementOfSeq, LenProperties
  <2>2. toClient'[c][k].arg \in Text
    BY <2>1, ToldParts
  <2> QED BY <2>2 DEF Text
<1>2. \A k \in DOMAIN shown'[c] : WillSign(shown'[c][k][1], shown'[c][k][2])
  <2> SUFFICES ASSUME NEW k \in DOMAIN shown'[c] PROVE WillSign(shown'[c][k][1], shown'[c][k][2])
    OBVIOUS
  <2>1. shown'[c][k] \in Person \X Text
    BY ElementOfSeq, LenProperties
  <2>2. shown'[c][k][2].by \in Conn
    BY <2>1 DEF Text
  <2> QED BY <2>2, SignedLasts DEF Named
<1> QED BY <1>1, <1>2 DEF SourceInv, Sourced, WillSource, Signed, WillSign

LEMMA ServerNamed ==
  ASSUME NEW c \in Conn, Types, StageInv(c), SourceInv(c), \A n \in Name : JobInv(n),
         Handling(c) \/ Delivering(c), UNCHANGED client
  PROVE  Named(c)
<1>1. receiver' = receiver /\ shown' = shown /\ toClient[c] \in Seq(Told \cup [tag : Answers])
  BY Parts DEF client, inbox
<1>2. CASE toClient'[c] = toClient[c]
  BY <1>1, <1>2 DEF SourceInv, Named
<1>3. ASSUME NEW R, NEW t \in Seq(R), Headed(t), toClient'[c] = toClient[c] \o t PROVE Named(c)
  <2>1. Sourced(toClient[c] \o t, receiver[c].src_usr)
    BY <1>1, <1>3, SourcedJoin DEF SourceInv
  <2> QED BY <2>1, <1>1, <1>3 DEF SourceInv, Named
<1>4. CASE Taking(c)
  <2>1. ASSUME NEW t \in Answers, toClient'[c] = toClient[c] \o <<Tag(t)>> PROVE Named(c)
    <3>1. t # "message" /\ Tag(t).tag = t
      BY DEF Answers, Tag
    <3>2. <<Tag(t)>> \in Seq({Tag(t)}) /\ Headed(<<Tag(t)>>)
      BY <3>1 DEF Headed
    <3> QED BY <2>1, <3>2, <1>3
  <2> QED BY <2>1, <1>2, <1>4, TakingTexts
<1>5. CASE Deliver(c)
  <2> DEFINE n == delivery[c].acc
             job == Head(queue[n])
  <2>1. /\ n \in Name /\ queue[n] \in Seq(Seq(Told)) /\ queue[n] # <<>> /\ job \in Seq(Told)
        /\ toClient' = toClient \/ toClient' = [toClient EXCEPT ![c] = @ \o job]
    BY <1>5, Delivered
  <2>2. toClient'[c] = toClient[c] \/ toClient'[c] = toClient[c] \o job
    BY <2>1 DEF Types, WireTypes
  <2>3. job = queue[n][1] /\ 1 \in DOMAIN queue[n]
    BY <2>1, TailKeeps
  <2>4. GoodJob(job)
    BY <2>1, <2>3 DEF JobInv
  <2> HIDE DEF job
  <2>5. Headed(job)
    <3>1. DOMAIN job = {1, 2}
      BY <2>1, <2>4, LenProperties DEF GoodJob
    <3>2. job[1].tag = "username"
      BY <2>4 DEF GoodJob, Source
    <3> QED BY <3>1, <3>2, <2>4 DEF Headed, GoodJob
  <2> QED BY <2>1, <2>2, <2>5, <1>2, <1>3
<1>6. CASE Read(c) \/ ReadEnd(c) \/ StartDelivery(c)
  <2>1. toClient' = toClient
    BY <1>6 DEF Read, ReadEnd, StartDelivery, wire
  <2> QED BY <2>1, <1>2
<1> QED BY <1>4, <1>5, <1>6 DEF Handling, Delivering, Taking

LEMMA ClientNamed ==
  ASSUME NEW c \in Conn, Types, SourceInv(c), UserActs(c) \/ UserThread(c) \/ ReceiveThread(c), UNCHANGED server
  PROVE  Named(c)
<1> DEFINE s == toClient[c]
           src == receiver[c].src_usr
<1>1. s \in Seq(Told \cup [tag : Answers]) /\ shown \in [Conn -> Seq(Person \X Text)]
  BY Parts DEF Types, InboxTypes
<1>2. /\ ShowMessage(c) \/ shown' = shown
      /\ \/ toClient'[c] = s /\ receiver'[c].src_usr = src
         \/ toClient'[c] = <<>>
         \/ /\ s # <<>> /\ toClient'[c] = Tail(s)
            /\ receiver'[c].src_usr = IF Head(s).tag = "username" THEN Head(s).arg ELSE src
  BY ClientTakesTexts
<1>3. Sourced(s, src)
  BY DEF SourceInv
<1>4. Sourced(toClient'[c], receiver'[c].src_usr)
  <2>1. CASE toClient'[c] = <<>>
    BY <2>1 DEF Sourced
  <2>2. CASE /\ s # <<>> /\ toClient'[c] = Tail(s)
             /\ receiver'[c].src_usr = IF Head(s).tag = "username" THEN Head(s).arg ELSE src
    BY <1>1, <1>3, <2>2, SourcedTail
  <2> QED BY <1>2, <1>3, <2>1, <2>2
<1>5. CASE ShowMessage(c)
  <2> DEFINE entry == <<src, Head(s).arg>>
  <2>1. s # <<>> /\ Head(s).tag = "message" /\ shown'[c] = Append(shown[c], entry)
    BY <1>1, <1>5 DEF ShowMessage, Has, NextTag
  <2>2. Signed(src, Head(s).arg)
    BY <1>1, <1>3, <2>1, SourcedTail
  <2>3. Signed(entry[1], entry[2])
    BY <2>2
  <2> HIDE DEF entry, s, src
  <2>4. \A k \in DOMAIN shown'[c] : shown'[c][k] = entry \/ (k \in DOMAIN shown[c] /\ shown'[c][k] = shown[c][k])
    <3>1. shown[c] \in Seq((Person \X Text) \cup {entry}) /\ Len(shown[c]) \in Nat
      BY <1>1, SeqMonotonic, LenProperties
    <3>2. DOMAIN Append(shown[c], entry) = 1 .. Len(shown[c]) + 1 /\ DOMAIN shown[c] = 1 .. Len(shown[c])
      BY <3>1, AppendProperties, LenProperties
    <3>3. /\ \A k \in 1 .. Len(shown[c]) : Append(shown[c], entry)[k] = shown[c][k]
          /\ Append(shown[c], entry)[Len(shown[c]) + 1] = entry
      BY <3>1, AppendProperties
    <3> QED BY <2>1, <3>1, <3>2, <3>3
  <2> QED BY <1>4, <2>3, <2>4 DEF Named, SourceInv
<1>6. CASE shown' = shown
  BY <1>4, <1>6 DEF Named, SourceInv
<1> QED BY <1>2, <1>5, <1>6

LEMMA SignNext == ASSUME IInv, SignInv, [Next]_vars PROVE SignInv'
<1>1. Types /\ (\A c \in Conn : StageInv(c) /\ TypistInv(c) /\ SourceInv(c)) /\ \A n \in Name : JobInv(n)
  BY DEF IInv, ConnInv, SignInv
<1>2. Lasts
  BY <1>1, NamesLast
<1>3. \A c \in Conn : TypistInv(c)'
  BY <1>1, TypistNext
<1>4. \A n \in Name : JobInv(n)'
  BY <1>1, <1>2, JobNext
<1>5. ASSUME NEW c \in Conn, toClient'[c] = toClient[c], receiver'[c].src_usr = receiver[c].src_usr, shown'[c] = shown[c]
      PROVE  Named(c)
  BY <1>1, <1>5 DEF Named, SourceInv
<1>6. \A d \in Conn : Named(d)
  <2>1. ASSUME NEW c \in Conn, ServerStep(c) PROVE \A d \in Conn : Named(d)
    <3>1. (Handling(c) \/ Delivering(c)) /\ UNCHANGED client /\ receiver' = receiver /\ shown' = shown
      BY <2>1 DEF ServerStep, client, inbox
    <3>2. \A d \in Conn \ {c} : toClient'[d] = toClient[d]
      BY <1>1, <3>1, ServerBeside DEF Untouched
    <3> QED BY <1>1, <1>5, <3>1, <3>2, ServerNamed
  <2>2. ASSUME NEW c \in Conn, UserStep(c) \/ ThreadStep(c) PROVE \A d \in Conn : Named(d)
    <3>1. (UserActs(c) \/ UserThread(c) \/ ReceiveThread(c)) /\ UNCHANGED server
      BY <2>2 DEF UserStep, ThreadStep
    <3>2. \A d \in Conn \ {c} : toClient'[d] = toClient[d] /\ shown'[d] = shown[d] /\ receiver'[d] = receiver[d]
      BY <1>1, <3>1, ClientTakesTexts
    <3> QED BY <1>1, <1>5, <3>1, <3>2, ClientNamed
  <2>3. CASE UNCHANGED vars
    BY <1>5, <2>3 DEF vars, wire, client, inbox
  <2> QED BY <2>1, <2>2, <2>3 DEF Next
<1>7. IInv'
  BY InvNext
<1>8. \A c \in Conn : SourceInv(c)'
  <2>1. /\ toClient' \in [Conn -> Seq(Told \cup [tag : Answers])]
        /\ shown' \in [Conn -> Seq(Person \X Text)]
    BY <1>7 DEF IInv, Types, WireTypes, InboxTypes
  <2> QED BY <1>2, <1>6, <2>1, NamedLasts
<1> QED BY <1>3, <1>4, <1>8 DEF SignInv

LEMMA SignInit == Init => SignInv
BY DEF Init, WireInit, ServerInit, ClientInit, SignInv, TypistInv, SourceInv, JobInv, Sourced, Texts

\* Every message that is shown is shown under the name of who typed it, although
\* name and message are commands of their own, answers to knocks come in between
\* the jobs, and a read of the server may end between the two.
THEOREM SendersAreShown == Spec => []ShownBySender
<1>1. Init => SignInv
  BY SignInit
<1>2. IInv /\ SignInv /\ [Next]_vars => SignInv'
  BY SignNext
<1>3. SignInv => ShownBySender
  BY DEF SignInv, SourceInv, Signed, ShownBySender
<1> QED BY <1>1, <1>2, <1>3, Inductive, PTL DEF Spec
=============================================================================
