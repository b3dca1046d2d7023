----------------------------- MODULE FileProofs -----------------------------
(***************************************************************************)
(* Files arrive whole, for any number of clients, accounts and files, as   *)
(* long as connections last, reads end behind commands and no queue is     *)
(* full: the segments of a file that wait in the four places between the   *)
(* list of its sender and the disk of its receiver follow on each other,   *)
(* from the segment written last to the segment sent next.                 *)
(***************************************************************************)
EXTENDS MessengerProofs

\* The segment sent after the k-th of a file x; the last one is numbered 0.
After(x, k) == IF k = FileLength[x] THEN 0 ELSE k + 1

\* Of the commands s those at X are segments of x, which lead from its a-th to
\* its b-th, one after the other.
Leads(s, X, x, a, b) == \E p \in [0 .. Len(s) -> Nat] :
  /\ p[0] = a /\ p[Len(s)] = b
  /\ \A j \in 1 .. Len(s) : IF j \in X THEN p[j] = s[j].seg /\ p[j] = After(x, p[j - 1])
                                       ELSE p[j] = p[j - 1]
-----------------------------------------------------------------------------
(* Segments that lead from one to another. *)

LEMMA LeadsNumbers ==
  ASSUME NEW s, NEW X, NEW x, NEW a, NEW b, Len(s) \in Nat, Leads(s, X, x, a, b)
  PROVE  a \in Nat /\ b \in Nat
<1>1. PICK p \in [0 .. Len(s) -> Nat] : p[0] = a /\ p[Len(s)] = b
  BY DEF Leads
<1> QED BY <1>1

\* No commands lead from a segment to itself, and nowhere else.
LEMMA LeadsNowhere ==
  ASSUME NEW s, NEW X, NEW x, NEW a \in Nat, NEW b, Len(s) = 0
  PROVE  Leads(s, X, x, a, b) <=> a = b
<1>1. ASSUME Leads(s, X, x, a, b) PROVE a = b
  BY <1>1 DEF Leads
<1>2. ASSUME a = b PROVE Leads(s, X, x, a, b)
  <2> DEFINE p == [j \in 0 .. 0 |-> a]
  <2>1. p \in [0 .. Len(s) -> Nat] /\ p[0] = a /\ p[Len(s)] = b /\ 1 .. Len(s) = {}
    BY <1>2
  <2> HIDE DEF p
  <2> QED BY <2>1 DEF Leads
<1> QED BY <1>1, <1>2

\* Other commands may come behind.
LEMMA LeadsOn ==
  ASSUME NEW s, NEW u, NEW X, NEW Y, NEW x, NEW a, NEW b, Len(s) \in Nat, Len(u) \in Nat, Len(s) <= Len(u),
         \A j \in 1 .. Len(s) : (j \in Y <=> j \in X) /\ (j \in X => u[j].seg = s[j].seg),
         \A j \in Len(s) + 1 .. Len(u) : j \notin Y,
         Leads(s, X, x, a, b)
  PROVE  Leads(u, Y, x, a, b)
<1>1. PICK p \in [0 .. Len(s) -> Nat] :
        /\ p[0] = a /\ p[Len(s)] = b
        /\ \A j \in 1 .. Len(s) : IF j \in X THEN p[j] = s[j].seg /\ p[j] = After(x, p[j - 1])
                                             ELSE p[j] = p[j - 1]
  BY DEF Leads
<1> DEFINE q == [j \in 0 .. Len(u) |-> IF j <= Len(s) THEN p[j] ELSE p[Len(s)]]
<1>2. q \in [0 .. Len(u) -> Nat] /\ q[0] = a /\ q[Len(u)] = b
  BY <1>1
<1>3. ASSUME NEW j \in 1 .. Len(u)
      PROVE  IF j \in Y THEN q[j] = u[j].seg /\ q[j] = After(x, q[j - 1]) ELSE q[j] = q[j - 1]
  <2>1. CASE j <= Len(s)
    <3>1. j \in 1 .. Len(s) /\ q[j] = p[j] /\ q[j - 1] = p[j - 1]
      BY <2>1
    <3> QED BY <3>1, <1>1
  <2>2. CASE j > Len(s)
    <3>1. q[j] = p[Len(s)] /\ q[j - 1] = p[Len(s)] /\ j \notin Y
      BY <2>2
    <3> QED BY <3>1
  <2> QED BY <2>1, <2>2
<1> HIDE DEF q
<1> QED BY <1>2, <1>3 DEF Leads

\* The next segment may come behind.
LEMMA LeadsTo ==
  ASSUME NEW s, NEW u, NEW X, NEW Y, NEW x, NEW a, NEW b, Len(s) \in Nat, Len(u) \in Nat, Len(s) < Len(u),
         \A j \in 1 .. Len(s) : (j \in Y <=> j \in X) /\ (j \in X => u[j].seg = s[j].seg),
         \A j \in Len(s) + 1 .. Len(u) : j \in Y <=> j = Len(u),
         u[Len(u)].seg = After(x, b), After(x, b) \in Nat,
         Leads(s, X, x, a, b)
  PROVE  Leads(u, Y, x, a, After(x, b))
<1>1. PICK p \in [0 .. Len(s) -> Nat] :
        /\ p[0] = a /\ p[Len(s)] = b
        /\ \A j \in 1 .. Len(s) : IF j \in X THEN p[j] = s[j].seg /\ p[j] = After(x, p[j - 1])
                                             ELSE p[j] = p[j - 1]
  BY DEF Leads
<1> DEFINE q == [j \in 0 .. Len(u) |-> IF j <= Len(s) THEN p[j] ELSE IF j < Len(u) THEN p[Len(s)] ELSE After(x, b)]
<1>2. q \in [0 .. Len(u) -> Nat] /\ q[0] = a /\ q[Len(u)] = After(x, b)
  BY <1>1
<1>3. ASSUME NEW j \in 1 .. Len(u)
      PROVE  IF j \in Y THEN q[j] = u[j].seg /\ q[j] = After(x, q[j - 1]) ELSE q[j] = q[j - 1]
  <2>1. CASE j <= Len(s)
    <3>1. j \in 1 .. Len(s) /\ q[j] = p[j] /\ q[j - 1] = p[j - 1]
      BY <2>1
    <3> QED BY <3>1, <1>1
  <2>2. CASE j > Len(s) /\ j < Len(u)
    <3>1. q[j] = p[Len(s)] /\ q[j - 1] = p[Len(s)] /\ j \notin Y
      BY <2>2
    <3> QED BY <3>1
  <2>3. CASE j = Len(u)
    <3>1. j \in Y /\ q[j - 1] = p[Len(s)] /\ q[j] = After(x, b)
      BY <2>3
    <3> QED BY <3>1, <2>3, <1>1
  <2> QED BY <2>1, <2>2, <2>3
<1> HIDE DEF q
<1> QED BY <1>2, <1>3 DEF Leads

\* The first command may be taken away: if it is a segment, it is the one after
\* the a-th, and the others go on from there.
LEMMA LeadsFrom ==
  ASSUME NEW s, NEW u, NEW X, NEW Y, NEW x, NEW a, NEW b, Len(u) \in Nat, Len(s) = Len(u) + 1,
         \A j \in 1 .. Len(u) : (j \in Y <=> j + 1 \in X) /\ (j \in Y => u[j].seg = s[j + 1].seg),
         Leads(s, X, x, a, b)
  PROVE  IF 1 \in X THEN s[1].seg = After(x, a) /\ Leads(u, Y, x, After(x, a), b) ELSE Leads(u, Y, x, a, b)
<1>1. PICK p \in [0 .. Len(s) -> Nat] :
        /\ p[0] = a /\ p[Len(s)] = b
        /\ \A j \in 1 .. Len(s) : IF j \in X THEN p[j] = s[j].seg /\ p[j] = After(x, p[j - 1])
                                             ELSE p[j] = p[j - 1]
  BY DEF Leads
<1> DEFINE q == [j \in 0 .. Len(u) |-> p[j + 1]]
<1>2. q \in [0 .. Len(u) -> Nat] /\ q[0] = p[1] /\ q[Len(u)] = b
  BY <1>1
<1>3. ASSUME NEW j \in 1 .. Len(u)
      PROVE  IF j \in Y THEN q[j] = u[j].seg /\ q[j] = After(x, q[j - 1]) ELSE q[j] = q[j - 1]
  <2>1. j + 1 \in 1 .. Len(s) /\ q[j] = p[j + 1] /\ q[j - 1] = p[(j + 1) - 1]
    OBVIOUS
  <2> HIDE DEF q
  <2> QED BY <2>1, <1>1
<1>4. 1 \in 1 .. Len(s) /\ 1 - 1 = 0
  OBVIOUS
<1>5. IF 1 \in X THEN p[1] = s[1].seg /\ p[1] = After(x, a) ELSE p[1] = a
  BY <1>1, <1>4
<1> HIDE DEF q
<1>6. Leads(u, Y, x, p[1], b)
  BY <1>2, <1>3 DEF Leads
<1> QED BY <1>5, <1>6
-----------------------------------------------------------------------------
(* The segments of a file among commands. *)

\* The commands that are segments of x, and those of them that are for n: in
\* what a client sends, a segment is for the name right ahead of it, or for p.
Of(s, x) == {k \in DOMAIN s : s[k].tag = "filedata" /\ s[k].file = x}

Target(s, p, k) == IF k = 1 THEN p ELSE s[k - 1].arg

For(s, p, n, x) == {k \in Of(s, x) : Target(s, p, k) = n}

LEMMA Joined ==
  ASSUME NEW S, NEW s \in Seq(S), NEW T, NEW t \in Seq(T), NEW r, r = s \o t
  PROVE  /\ Len(s) \in Nat /\ Len(t) \in Nat /\ Len(r) = Len(s) + Len(t)
         /\ DOMAIN s = 1 .. Len(s) /\ DOMAIN t = 1 .. Len(t) /\ DOMAIN r = 1 .. Len(r)
         /\ \A k \in 1 .. Len(s) : r[k] = s[k]
         /\ \A k \in Len(s) + 1 .. Len(r) : r[k] = t[k - Len(s)]
<1>1. s \in Seq(S \cup T) /\ t \in Seq(S \cup T)
  BY SeqMonotonic
<1>2. /\ Len(s) \in Nat /\ DOMAIN s = 1 .. Len(s) /\ Len(t) \in Nat /\ DOMAIN t = 1 .. Len(t)
  BY LenProperties
<1>3. /\ s \o t \in Seq(S \cup T) /\ Len(s \o t) = Len(s) + Len(t)
      /\ \A k \in 1 .. Len(s) + Len(t) : (s \o t)[k] = IF k <= Len(s) THEN s[k] ELSE t[k - Len(s)]
  BY <1>1, ConcatProperties
<1>4. DOMAIN r = 1 .. Len(r)
  BY <1>3, LenProperties
<1> QED BY <1>2, <1>3, <1>4

LEMMA OfOn ==
  ASSUME NEW S, NEW s \in Seq(S), NEW T, NEW t \in Seq(T), NEW r, r = s \o t,
         NEW x, NEW a, NEW b, Of(t, x) = {}, Leads(s, Of(s, x), x, a, b)
  PROVE  Leads(r, Of(r, x), x, a, b)
<1>1. /\ Len(s) \in Nat /\ Len(t) \in Nat /\ Len(r) = Len(s) + Len(t)
      /\ DOMAIN s = 1 .. Len(s) /\ DOMAIN t = 1 .. Len(t) /\ DOMAIN r = 1 .. Len(r)
      /\ \A k \in 1 .. Len(s) : r[k] = s[k]
      /\ \A k \in Len(s) + 1 .. Len(r) : r[k] = t[k - Len(s)]
  BY Joined
<1>2. \A k \in 1 .. Len(s) : (k \in Of(r, x) <=> k \in Of(s, x)) /\ (k \in Of(s, x) => r[k].seg = s[k].seg)
  BY <1>1 DEF Of
<1>3. ASSUME NEW k \in Len(s) + 1 .. Len(r) PROVE k \notin Of(r, x)
  <2>1. k - Len(s) \in DOMAIN t
    BY <1>1
  <2>2. r[k] = t[k - Len(s)] /\ k - Len(s) \notin Of(t, x)
    BY <1>1
  <2> QED BY <2>1, <2>2 DEF Of
<1>4. Len(r) \in Nat /\ Len(s) <= Len(r)
  BY <1>1
<1> QED BY <1>1, <1>2, <1>3, <1>4, LeadsOn

LEMMA OfTo ==
  ASSUME NEW S, NEW s \in Seq(S), NEW T, NEW t \in Seq(T), NEW r, r = s \o t,
         NEW x, NEW a, NEW b, Len(t) # 0, Of(t, x) = {Len(t)}, t[Len(t)].seg = After(x, b), After(x, b) \in Nat,
         Leads(s, Of(s, x), x, a, b)
  PROVE  Leads(r, Of(r, x), x, a, After(x, b))
<1>1. /\ Len(s) \in Nat /\ Len(t) \in Nat /\ Len(r) = Len(s) + Len(t)
      /\ DOMAIN s = 1 .. Len(s) /\ DOMAIN t = 1 .. Len(t) /\ DOMAIN r = 1 .. Len(r)
      /\ \A k \in 1 .. Len(s) : r[k] = s[k]
      /\ \A k \in Len(s) + 1 .. Len(r) : r[k] = t[k - Len(s)]
  BY Joined
<1>2. \A k \in 1 .. Len(s) : (k \in Of(r, x) <=> k \in Of(s, x)) /\ (k \in Of(s, x) => r[k].seg = s[k].seg)
  BY <1>1 DEF Of
<1>3. ASSUME NEW k \in Len(s) + 1 .. Len(r) PROVE k \in Of(r, x) <=> k = Len(r)
  <2>1. k - Len(s) \in DOMAIN t /\ (k - Len(s) = Len(t) <=> k = Len(r)) /\ k \in DOMAIN r
    BY <1>1
  <2>2. r[k] = t[k - Len(s)] /\ (k - Len(s) \in Of(t, x) <=> k - Len(s) = Len(t))
    BY <1>1
  <2> QED BY <2>1, <2>2 DEF Of
<1>4. Len(r) \in Nat /\ Len(s) < Len(r) /\ Len(r) \in Len(s) + 1 .. Len(r) /\ Len(r) - Len(s) = Len(t)
  BY <1>1
<1>5. r[Len(r)].seg = After(x, b)
  BY <1>1, <1>4
<1> QED BY <1>1, <1>2, <1>3, <1>4, <1>5, LeadsTo

LEMMA OfFrom ==
  ASSUME NEW S, NEW s \in Seq(S), s # <<>>, NEW x, NEW a, NEW b, Leads(s, Of(s, x), x, a, b)
  PROVE  IF Head(s).tag = "filedata" /\ Head(s).file = x
         THEN Head(s).seg = After(x, a) /\ Leads(Tail(s), Of(Tail(s), x), x, After(x, a), b)
         ELSE Leads(Tail(s), Of(Tail(s), x), x, a, b)
<1> DEFINE u == Tail(s)
<1>1. /\ u \in Seq(S) /\ Len(u) = Len(s) - 1 /\ Len(s) \in Nat /\ Head(s) = s[1] /\ 1 \in DOMAIN s
      /\ \A k \in DOMAIN u : k + 1 \in DOMAIN s /\ k \in Nat /\ u[k] = s[k + 1]
  BY TailKeeps
<1>2. DOMAIN u = 1 .. Len(u) /\ Len(u) \in Nat
  BY <1>1, LenProperties
<1> HIDE DEF u
<1>3. \A k \in 1 .. Len(u) : (k \in Of(u, x) <=> k + 1 \in Of(s, x)) /\ (k \in Of(u, x) => u[k].seg = s[k + 1].seg)
  BY <1>1, <1>2 DEF Of
<1>4. Len(s) = Len(u) + 1 /\ (1 \in Of(s, x) <=> Head(s).tag = "filedata" /\ Head(s).file = x)
  BY <1>1, <1>2 DEF Of
<1>5. IF 1 \in Of(s, x) THEN s[1].seg = After(x, a) /\ Leads(u, Of(u, x), x, After(x, a), b)
                        ELSE Leads(u, Of(u, x), x, a, b)
  BY <1>2, <1>3, <1>4, LeadsFrom
<1> QED BY <1>1, <1>4, <1>5 DEF u

LEMMA ForOn ==
  ASSUME NEW S, NEW s \in Seq(S), NEW T, NEW t \in Seq(T), NEW r, r = s \o t,
         NEW p, NEW n, NEW x, NEW a, NEW b, \A k \in Of(t, x) : k > 1 /\ t[k - 1].arg # n,
         Leads(s, For(s, p, n, x), x, a, b)
  PROVE  Leads(r, For(r, p, n, x), x, a, b)
<1>1. /\ Len(s) \in Nat /\ Len(t) \in Nat /\ Len(r) = Len(s) + Len(t)
      /\ DOMAIN s = 1 .. Len(s) /\ DOMAIN t = 1 .. Len(t) /\ DOMAIN r = 1 .. Len(r)
      /\ \A k \in 1 .. Len(s) : r[k] = s[k]
      /\ \A k \in Len(s) + 1 .. Len(r) : r[k] = t[k - Len(s)]
  BY Joined
<1>2. ASSUME NEW k \in 1 .. Len(s)
      PROVE  (k \in For(r, p, n, x) <=> k \in For(s, p, n, x)) /\ (k \in For(s, p, n, x) => r[k].seg = s[k].seg)
  <2>1. k # 1 => r[k - 1] = s[k - 1]
    BY <1>1
  <2> QED BY <1>1, <2>1 DEF For, Of, Target
<1>3. ASSUME NEW k \in Len(s) + 1 .. Len(r), k \in For(r, p, n, x) PROVE FALSE
  <2>1. k - Len(s) \in DOMAIN t /\ r[k] = t[k - Len(s)] /\ k \in Of(r, x) /\ Target(r, p, k) = n
    BY <1>1, <1>3 DEF For
  <2>2. k - Len(s) \in Of(t, x)
    BY <2>1 DEF Of
  <2>3. k - Len(s) > 1 /\ t[(k - Len(s)) - 1].arg # n
    BY <2>2
  <2>4. k # 1 /\ k - 1 \in Len(s) + 1 .. Len(r) /\ (k - 1) - Len(s) = (k - Len(s)) - 1
    BY <2>3, <1>1
  <2>5. r[k - 1] = t[(k - Len(s)) - 1]
    BY <2>4, <1>1
  <2> QED BY <2>1, <2>3, <2>4, <2>5 DEF Target
<1>4. Len(r) \in Nat /\ Len(s) <= Len(r)
  BY <1>1
<1> QED BY <1>1, <1>2, <1>3, <1>4, LeadsOn

\* One segment, the k-th of x, for n.
Sending(t, n, x, k) == /\ Len(t) = 2 /\ t[1].tag # "filedata" /\ t[1].arg = n
                       /\ t[2].tag = "filedata" /\ t[2].file = x /\ t[2].seg = k

LEMMA ForTo ==
  ASSUME NEW S, NEW s \in Seq(S), NEW T, NEW t \in Seq(T), NEW r, r = s \o t,
         NEW p, NEW n, NEW x, NEW a, NEW b, Sending(t, n, x, After(x, b)), After(x, b) \in Nat,
         Leads(s, For(s, p, n, x), x, a, b)
  PROVE  Leads(r, For(r, p, n, x), x, a, After(x, b))
<1>0. /\ Len(s) \in Nat /\ Len(t) \in Nat /\ Len(r) = Len(s) + Len(t)
      /\ DOMAIN s = 1 .. Len(s) /\ DOMAIN t = 1 .. Len(t) /\ DOMAIN r = 1 .. Len(r)
      /\ \A k \in 1 .. Len(s) : r[k] = s[k]
      /\ \A k \in Len(s) + 1 .. Len(r) : r[k] = t[k - Len(s)]
  BY Joined
<1>s. /\ Len(t) = 2 /\ t[1].tag # "filedata" /\ t[1].arg = n
      /\ t[2].tag = "filedata" /\ t[2].file = x /\ t[2].seg = After(x, b)
  BY DEF Sending
<1>1. /\ Len(s) \in Nat /\ Len(r) = Len(s) + 2
      /\ DOMAIN s = 1 .. Len(s) /\ DOMAIN r = 1 .. Len(r)
      /\ \A k \in 1 .. Len(s) : r[k] = s[k]
      /\ \A k \in Len(s) + 1 .. Len(r) : r[k] = t[k - Len(s)]
  BY <1>0, <1>s
<1>2. ASSUME NEW k \in 1 .. Len(s)
      PROVE  (k \in For(r, p, n, x) <=> k \in For(s, p, n, x)) /\ (k \in For(s, p, n, x) => r[k].seg = s[k].seg)
  <2>1. k # 1 => r[k - 1] = s[k - 1]
    BY <1>1
  <2> QED BY <1>1, <2>1 DEF For, Of, Target
<1>3. r[Len(s) + 1] = t[1] /\ r[Len(s) + 2] = t[2]
  <2>1. /\ Len(s) + 1 \in Len(s) + 1 .. Len(r) /\ Len(s) + 2 \in Len(s) + 1 .. Len(r)
        /\ (Len(s) + 1) - Len(s) = 1 /\ (Len(s) + 2) - Len(s) = 2
    BY <1>1
  <2> QED BY <1>1, <2>1
<1>4. Len(s) + 1 \notin For(r, p, n, x)
  BY <1>s, <1>3 DEF For, Of
<1>5. Len(s) + 2 \in For(r, p, n, x)
  <2>1. Len(s) + 2 \in DOMAIN r /\ Len(s) + 2 # 1 /\ (Len(s) + 2) - 1 = Len(s) + 1
    BY <1>1
  <2> QED BY <1>s, <1>3, <2>1 DEF For, Of, Target
<1>6. \A k \in Len(s) + 1 .. Len(r) : k = Len(s) + 1 \/ k = Len(s) + 2
  <2>1. ASSUME NEW l \in Nat, NEW k \in l + 1 .. l + 2 PROVE k = l + 1 \/ k = l + 2
    OBVIOUS
  <2>2. Len(s) \in Nat /\ Len(r) = Len(s) + 2
    BY <1>1
  <2> QED BY <2>1, <2>2
<1>7. \A k \in Len(s) + 1 .. Len(r) : k \in For(r, p, n, x) <=> k = Len(r)
  BY <1>1, <1>4, <1>5, <1>6
<1>8. Len(r) \in Nat /\ Len(s) < Len(r) /\ r[Len(r)].seg = After(x, b)
  BY <1>s, <1>1, <1>3
<1>9. \A k \in 1 .. Len(s) : (k \in For(r, p, n, x) <=> k \in For(s, p, n, x)) /\ (k \in For(s, p, n, x) => r[k].seg = s[k].seg)
  BY <1>2
<1> DEFINE X == For(s, p, n, x)
           Y == For(r, p, n, x)
<1>10. Leads(s, X, x, a, b)
  OBVIOUS
<1> HIDE DEF X, Y
<1>11. /\ Len(s) \in Nat /\ Len(r) \in Nat /\ Len(s) < Len(r)
       /\ \A k \in 1 .. Len(s) : (k \in Y <=> k \in X) /\ (k \in X => r[k].seg = s[k].seg)
       /\ \A k \in Len(s) + 1 .. Len(r) : k \in Y <=> k = Len(r)
       /\ r[Len(r)].seg = After(x, b) /\ After(x, b) \in Nat
  BY <1>1, <1>7, <1>8, <1>9 DEF X, Y
<1>12. Leads(r, Y, x, a, After(x, b))
  BY <1>10, <1>11, LeadsTo
<1> QED BY <1>12 DEF Y

LEMMA ForFrom ==
  ASSUME NEW S, NEW s \in Seq(S), s # <<>>, NEW p, NEW q, NEW n, NEW x, NEW a, NEW b,
         2 \in Of(s, x) => q = s[1].arg, Leads(s, For(s, p, n, x), x, a, b)
  PROVE  IF Head(s).tag = "filedata" /\ Head(s).file = x /\ p = n
         THEN Head(s).seg = After(x, a) /\ Leads(Tail(s), For(Tail(s), q, n, x), x, After(x, a), b)
         ELSE Leads(Tail(s), For(Tail(s), q, n, x), x, a, b)
<1> DEFINE u == Tail(s)
<1>1. /\ u \in Seq(S) /\ Len(u) = Len(s) - 1 /\ Len(s) \in Nat /\ Head(s) = s[1] /\ 1 \in DOMAIN s
      /\ \A k \in DOMAIN u : k + 1 \in DOMAIN s /\ k \in Nat /\ u[k] = s[k + 1]
  BY TailKeeps
<1>2. DOMAIN u = 1 .. Len(u) /\ Len(u) \in Nat
  BY <1>1, LenProperties
<1> HIDE DEF u
<1>3. ASSUME NEW k \in 1 .. Len(u)
      PROVE  (k \in For(u, q, n, x) <=> k + 1 \in For(s, p, n, x)) /\ (k \in For(u, q, n, x) => u[k].seg = s[k + 1].seg)
  <2>1. k \in Of(u, x) <=> k + 1 \in Of(s, x)
    BY <1>1, <1>2 DEF Of
  <2>2. k \in Of(u, x) => Target(u, q, k) = Target(s, p, k + 1)
    <3>1. CASE k = 1
      BY <2>1, <3>1 DEF Target
    <3>2. CASE k # 1
      <4>1. k - 1 \in DOMAIN u /\ (k - 1) + 1 = k /\ (k + 1) - 1 = k /\ k + 1 # 1
        BY <3>2, <1>2
      <4>2. u[k - 1] = s[k]
        BY <4>1, <1>1
      <4> QED BY <4>1, <4>2, <3>2 DEF Target
    <3> QED BY <3>1, <3>2
  <2>3. u[k].seg = s[k + 1].seg
    BY <1>1, <1>2
  <2> QED BY <2>1, <2>2, <2>3 DEF For
<1>4. Len(s) = Len(u) + 1
  BY <1>1, <1>2
<1>5. 1 \in For(s, p, n, x) <=> Head(s).tag = "filedata" /\ Head(s).file = x /\ p = n
  BY <1>1 DEF For, Of, Target
<1>6. IF 1 \in For(s, p, n, x) THEN s[1].seg = After(x, a) /\ Leads(u, For(u, q, n, x), x, After(x, a), b)
                               ELSE Leads(u, For(u, q, n, x), x, a, b)
  BY <1>2, <1>3, <1>4, LeadsFrom
<1> QED BY <1>1, <1>5, <1>6 DEF u
-----------------------------------------------------------------------------
(* The invariant. *)

\* Nobody writes to an account that is not there yet, and in no list a file is
\* named twice: segments do not tell in which transfer they were sent.
Distinct(l) == \A j, k \in DOMAIN l : l[j].filename = l[k].filename => j = k

Apart == /\ \A c \in Conn : Knocks[c] \subseteq DOMAIN Registered
         /\ \A l \in FileLists : Distinct(Inserted(l))

\* What a client is to send goes to somebody it may knock for.
AskInv(c) ==
  /\ service[c] \in {"m", "f"} /\ (service[c] = "f" => dst_usr[c] \in Knocks[c])
  /\ state[c] \in {"choose", "files", "remove"} => service[c] = "f"
  /\ Distinct(rf_list[c])

\* Who is in no session has no segments under way.
HeldInv(c) == \/ state[c] \in InSession
              \/ Free(handler[c].buf, {"filedata"}) /\ Free(Ahead(c), {"filedata"})

\* A segment as s sends it to n.
Whole(e, s, n) == /\ e.file \in DOMAIN FileLength
                  /\ e.arg = IF e.seg = 0 THEN None ELSE [by |-> s, to |-> n, n |-> e.seg]

Posted(s, p, c) == \A k \in DOMAIN s : s[k].tag = "filedata" =>
  /\ k > 1 => s[k - 1].tag = "username"
  /\ Target(s, p, k) \in Knocks[c] /\ Whole(s[k], c, Target(s, p, k))

PostInv(c) == Posted(Ahead(c), handler[c].toWhoseAcc, c)

\* A segment for n, on its way from the server.
Fine(e, n) == e.tag = "filedata" => \E s \in Conn : n \in Knocks[s] /\ Whole(e, s, n)

QueueInv(n) == \A k \in DOMAIN Jobs(n) : Fine(Jobs(n)[k], n)

InboxInv(c) ==
  /\ \A k \in DOMAIN toClient[c] : Fine(toClient[c][k], username[c])
  /\ ~handler[c].istonextstage => Free(toClient[c], {"filedata"})
  /\ ~handler[c].istonextstage \/ state[c] \in Offered => \A x \in File : disk[c][x] = <<>>

\* The files that can be sent.
Openable == File \cap DOMAIN FileLength

\* The connection is the only one of its account.
Alone(c) == \A d \in Conn \ {c} : handler[d].istonextstage => handler[d].acc # handler[c].acc

\* A file as far as it has been written, and the whole of it once it is closed.
Grown(d, n) == \A j \in DOMAIN d : \E s \in Conn : n \in Knocks[s] /\ d[j] = [by |-> s, to |-> n, n |-> j]

DiskInv(c) == Alone(c) => \A x \in File :
  /\ Grown(disk[c][x], username[c])
  /\ disk[c][x] # <<>> => x \in DOMAIN FileLength /\ (x \in receiver[c].open \/ Len(disk[c][x]) = FileLength[x])

\* The segments of x on their way to a client, from the one it wrote last.
Pos(c, x)      == IF x \in receiver[c].open THEN Len(disk[c][x]) ELSE 0
Shows(c, x, k) == Leads(toClient[c], Of(toClient[c], x), x, Pos(c, x), k)

ComingInv(c) == Alone(c) /\ c \notin closed => \A x \in Openable : \E k : Shows(c, x, k)

\* The last segment of x that c has sent to n in this transfer, or 0.
Unended(c, n, x) == {k \in DOMAIN rf_list[c] :
  /\ rf_list[c][k].filename = x /\ dst_usr[c] = n
  /\ state[c] = "files" \/ (state[c] = "remove" /\ k # rf_ptr[c])}

At(c, n, x, b) == IF Unended(c, n, x) = {} THEN b = 0
                  ELSE \E k \in Unended(c, n, x) : b = rf_list[c][k].datagram_cnt - 1

\* Those that wait in the queue of n, and those that s has sent there before.
Back(n, x, a, b)     == Leads(Jobs(n), Of(Jobs(n), x), x, a, b)
Front(s, n, x, a, b) == Leads(Ahead(s), For(Ahead(s), handler[s].toWhoseAcc, n, x), x, a, b)
Follow(s, n, x, a)   == \E k, b : Back(n, x, a, k) /\ Front(s, n, x, k, b) /\ At(s, n, x, b)

Listens(c, n) == handler[c].istonextstage /\ handler[c].acc = n

PipeInv(s, n, x) == ~crashed =>
  /\ (\A c \in Conn : ~Listens(c, n)) => Follow(s, n, x, 0)
  /\ \A c \in Conn : /\ Listens(c, n) /\ (\A d \in Conn \ {c} : ~Listens(d, n))
                     /\ c \notin closed /\ delivery[c].intact
                     => \E k : Shows(c, x, k) /\ Follow(s, n, x, k)

SendInv(c) == AskInv(c) /\ HeldInv(c) /\ PostInv(c)

ServiceType == service \in [Conn -> {"m", "f"}]

FileInv ==
  /\ ServiceType /\ DOMAIN Registered \subseteq DOMAIN account
  /\ \A c \in Conn : (crashed \/ SendInv(c)) /\ InboxInv(c) /\ DiskInv(c) /\ ComingInv(c)
  /\ \A n \in Name : QueueInv(n)
  /\ \A s \in Conn : \A n \in Knocks[s], x \in Openable : PipeInv(s, n, x)
-----------------------------------------------------------------------------
(* What is ahead of a handler. *)

\* Commands may be taken from the front, if what follows keeps its name.
LEMMA PostedTail ==
  ASSUME NEW S, NEW s \in Seq(S), s # <<>>, NEW p, NEW q, NEW c, Posted(s, p, c),
         Head(s).tag = "username" /\ Head(s).arg \in Knocks[c] => q = Head(s).arg
  PROVE  /\ Posted(Tail(s), q, c)
         /\ Head(s).tag = "filedata" => p \in Knocks[c] /\ Whole(Head(s), c, p)
         /\ \A x : 2 \in Of(s, x) => q = s[1].arg
<1> DEFINE u == Tail(s)
<1>1. /\ u \in Seq(S) /\ Len(u) = Len(s) - 1 /\ Len(s) \in Nat /\ Head(s) = s[1] /\ 1 \in DOMAIN s
      /\ \A k \in DOMAIN u : k + 1 \in DOMAIN s /\ k \in Nat /\ u[k] = s[k + 1]
  BY TailKeeps
<1>2. DOMAIN u = 1 .. Len(u) /\ Len(u) \in Nat
  BY <1>1, LenProperties
<1> HIDE DEF u
<1>3. 2 \in DOMAIN s /\ s[2].tag = "filedata" => q = s[1].arg
  <2>1. ASSUME 2 \in DOMAIN s, s[2].tag = "filedata" PROVE s[1].tag = "username" /\ s[1].arg \in Knocks[c]
    <3>1. 2 > 1 => s[2 - 1].tag = "username"
      BY <2>1 DEF Posted
    <3>2. Target(s, p, 2) \in Knocks[c] /\ 2 - 1 = 1
      BY <2>1 DEF Posted
    <3>3. Target(s, p, 2) = s[1].arg
      BY <3>2 DEF Target
    <3> QED BY <3>1, <3>2, <3>3
  <2> QED BY <2>1, <1>1
<1>4. ASSUME NEW k \in DOMAIN u, u[k].tag = "filedata"
      PROVE  /\ k > 1 => u[k - 1].tag = "username"
             /\ Target(u, q, k) \in Knocks[c] /\ Whole(u[k], c, Target(u, q, k))
  <2>1. /\ k + 1 \in DOMAIN s /\ u[k] = s[k + 1] /\ k \in Nat /\ k >= 1
        /\ k > 1 => k - 1 \in DOMAIN u /\ (k + 1) - 1 = k /\ (k - 1) + 1 = k
    BY <1>1, <1>2
  <2>2. k > 1 => u[k - 1] = s[(k + 1) - 1]
    BY <2>1, <1>1
  <2>3. /\ k + 1 > 1 => s[(k + 1) - 1].tag = "username"
        /\ Target(s, p, k + 1) \in Knocks[c] /\ Whole(s[k + 1], c, Target(s, p, k + 1))
    BY <2>1, <1>4 DEF Posted
  <2>4. Target(u, q, k) = Target(s, p, k + 1)
    <3>1. CASE k = 1
      <4>1. Target(u, q, k) = q /\ Target(s, p, k + 1) = s[1].arg
        BY <3>1 DEF Target
      <4>2. 2 \in DOMAIN s /\ s[2].tag = "filedata"
        BY <3>1, <2>1, <1>4
      <4> QED BY <4>1, <4>2, <1>3
    <3>2. CASE k > 1
      <4>1. k # 1 /\ k + 1 # 1
        <5>1. k \in Nat
          BY <2>1
        <5> QED BY <5>1, <3>2
      <4>2. Target(u, q, k) = u[k - 1].arg /\ Target(s, p, k + 1) = s[(k + 1) - 1].arg
        BY <4>1 DEF Target
      <4> QED BY <4>2, <3>2, <2>2
    <3> QED BY <3>1, <3>2, <2>1
  <2> QED BY <2>1, <2>2, <2>3, <2>4
<1>5. ASSUME Head(s).tag = "filedata" PROVE p \in Knocks[c] /\ Whole(Head(s), c, p)
  <2>1. Target(s, p, 1) = p
    BY DEF Target
  <2> QED BY <2>1, <1>1, <1>5 DEF Posted
<1>6. \A x : 2 \in Of(s, x) => q = s[1].arg
  BY <1>3 DEF Of
<1> QED BY <1>4, <1>5, <1>6 DEF Posted, u

LEMMA PostedJoin ==
  ASSUME NEW S, NEW s \in Seq(S), NEW T, NEW t \in Seq(T), NEW r, r = s \o t, NEW p, NEW c, Posted(s, p, c),
         \A k \in DOMAIN t : t[k].tag = "filedata" =>
           k > 1 /\ t[k - 1].tag = "username" /\ t[k - 1].arg \in Knocks[c] /\ Whole(t[k], c, t[k - 1].arg)
  PROVE  Posted(r, p, c)
<1>1. /\ Len(s) \in Nat /\ Len(t) \in Nat /\ Len(r) = Len(s) + Len(t)
      /\ DOMAIN s = 1 .. Len(s) /\ DOMAIN t = 1 .. Len(t) /\ DOMAIN r = 1 .. Len(r)
      /\ \A k \in 1 .. Len(s) : r[k] = s[k]
      /\ \A k \in Len(s) + 1 .. Len(r) : r[k] = t[k - Len(s)]
  BY Joined
<1>2. ASSUME NEW k \in DOMAIN r, r[k].tag = "filedata"
      PROVE  /\ k > 1 => r[k - 1].tag = "username"
             /\ Target(r, p, k) \in Knocks[c] /\ Whole(r[k], c, Target(r, p, k))
  <2>1. CASE k <= Len(s)
    <3>1. k \in DOMAIN s /\ r[k] = s[k] /\ (k # 1 => k > 1 /\ r[k - 1] = s[k - 1])
      BY <1>1, <2>1
    <3>2. Target(r, p, k) = Target(s, p, k)
      BY <3>1 DEF Target
    <3>3. /\ k > 1 => s[k - 1].tag = "username"
          /\ Target(s, p, k) \in Knocks[c] /\ Whole(s[k], c, Target(s, p, k))
      BY <3>1, <1>2 DEF Posted
    <3> QED BY <3>1, <3>2, <3>3, <1>1
  <2>2. CASE k > Len(s)
    <3> DEFINE j == k - Len(s)
    <3>1. j \in DOMAIN t /\ r[k] = t[j]
      BY <1>1, <2>2
    <3>2. j > 1 /\ t[j - 1].tag = "username" /\ t[j - 1].arg \in Knocks[c] /\ Whole(t[j], c, t[j - 1].arg)
      BY <3>1, <1>2
    <3>3. k # 1 /\ k - 1 \in Len(s) + 1 .. Len(r) /\ (k - 1) - Len(s) = j - 1
      BY <3>2, <1>1
    <3>4. r[k - 1] = t[j - 1]
      BY <3>3, <1>1
    <3>5. Target(r, p, k) = t[j - 1].arg
      BY <3>3, <3>4 DEF Target
    <3> HIDE DEF j
    <3> QED BY <3>1, <3>2, <3>4, <3>5
  <2> QED BY <2>1, <2>2, <1>1
<1> QED BY <1>2 DEF Posted

LEMMA NothingPosted == ASSUME NEW s, NEW p, NEW c, Free(s, {"filedata"}) PROVE Posted(s, p, c)
BY DEF Free, Posted

\* Nothing leads on where there are no segments, but from a number to itself.
LEMMA NothingFor ==
  ASSUME NEW S, NEW s \in Seq(S), NEW t, NEW T, t \in Seq(T), NEW p, NEW q, NEW n, NEW x, NEW a, NEW b,
         Free(s, {"filedata"}), Free(t, {"filedata"}), Leads(s, For(s, p, n, x), x, a, b)
  PROVE  Leads(t, For(t, q, n, x), x, a, b)
<1>1. For(s, p, n, x) = {} /\ For(t, q, n, x) = {}
  BY DEF For, Of, Free
<1>2. Len(s) \in Nat /\ Len(t) \in Nat
  BY LenProperties
<1>3. PICK u \in [0 .. Len(s) -> Nat] :
        /\ u[0] = a /\ u[Len(s)] = b
        /\ \A j \in 1 .. Len(s) : IF j \in For(s, p, n, x) THEN u[j] = s[j].seg /\ u[j] = After(x, u[j - 1])
                                                           ELSE u[j] = u[j - 1]
  BY DEF Leads
<1>4. a \in Nat /\ a = b
  <2> DEFINE E == {j \in 0 .. Len(s) : u[j] = a}
  <2>1. 0 \in E
    BY <1>2, <1>3
  <2>2. ASSUME NEW m \in 0 .. Len(s) - 1, m \in E PROVE m + 1 \in E
    <3>1. m + 1 \in 1 .. Len(s) /\ (m + 1) - 1 = m /\ m + 1 \in 0 .. Len(s)
      BY <1>2
    <3>2. u[m + 1] = u[m]
      BY <3>1, <1>1, <1>3
    <3> QED BY <3>1, <3>2, <2>2
  <2> HIDE DEF E
  <2>3. \A m \in 0 .. Len(s) : m \in E
    BY <2>1, <2>2, <1>2, Induction
  <2>4. Len(s) \in E
    BY <2>3, <1>2
  <2> QED BY <2>4, <1>2, <1>3 DEF E
<1>5. Leads(t, {}, x, a, b)
  <2> DEFINE v == [j \in 0 .. Len(t) |-> a]
  <2>1. v \in [0 .. Len(t) -> Nat] /\ v[0] = a /\ v[Len(t)] = b /\ \A j \in 1 .. Len(t) : v[j] = v[j - 1]
    BY <1>2, <1>4
  <2> HIDE DEF v
  <2> QED BY <2>1 DEF Leads
<1> QED BY <1>1, <1>5
-----------------------------------------------------------------------------
(* The handler and the segments ahead of it. *)

LEMMA TakingSend ==
  ASSUME NEW c \in Conn, Types, ConnInv(c), HeldInv(c), PostInv(c), ~crashed, Taking(c), UNCHANGED client
  PROVE  /\ HeldInv(c)' /\ PostInv(c)'
         /\ \A x : 2 \in Of(Ahead(c), x) => handler'[c].toWhoseAcc = Ahead(c)[1].arg
         /\ Now(c).tag = "filedata" => /\ handler[c].toWhoseAcc \in Knocks[c]
                                       /\ Whole(Now(c), c, handler[c].toWhoseAcc)
<1> DEFINE h == handler[c]
           s == Ahead(c)
           q == handler'[c].toWhoseAcc
<1>1. s # <<>> /\ s \in Seq(Asked \cup {Escape}) /\ Ahead(c)' = Tail(s) /\ Now(c) = Head(s) /\ StageInv(c)
  BY TakingAhead, AheadType DEF ConnInv
<1>2. handler'[c].buf = h.buf /\ state' = state
  <2>1. handler'[c].buf = h.buf
    BY <1>1, TakingTexts
  <2> QED BY <2>1 DEF client
<1>3. h.istonextstage \/ Free(s, {"filedata"})
  BY DEF HeldInv, ConnInv, SessionInv, Owned
<1>4. Posted(s, h.toWhoseAcc, c)
  BY DEF PostInv
<1>5. ASSUME h.istonextstage, Now(c).tag = "username", Now(c).arg \in Knocks[c] PROVE q = Now(c).arg
  <2>1. Now(c).arg \in Name
    BY <1>5, ClientAssumption, WireAssumption
  <2>2. TwoArguments(Now(c))
    BY <2>1, <1>5, WireAssumption DEF TwoArguments, HasArgument, TagOnly
  <2>3. TakeTarget(c)
    BY <1>5, <2>2 DEF Taking, TakeTag, TakeUnexpected, TakeUsername, SignUp, LogIn, RefuseLogin, Expected,
                            Offline, TakeMessage, TakeFileData, TakeKnock, TakeOther
  <2>4. handler' = [handler EXCEPT ![c] = [[h EXCEPT !.toWhoseAcc = Now(c).arg] EXCEPT !.todo = Tail(@)]]
    BY <2>3 DEF TakeTarget, Step
  <2> QED BY <2>4 DEF Types, ThreadTypes, HandlerType
<1> HIDE DEF h, s, q
<1>6. Free(s, {"filedata"}) => Free(Tail(s), {"filedata"})
  BY <1>1, TailKeeps
<1>7. HeldInv(c)'
  BY <1>1, <1>2, <1>6 DEF HeldInv, h, s
<1>8. CASE h.istonextstage
  <2>1. /\ Posted(Tail(s), q, c)
        /\ Head(s).tag = "filedata" => h.toWhoseAcc \in Knocks[c] /\ Whole(Head(s), c, h.toWhoseAcc)
        /\ \A x : 2 \in Of(s, x) => q = s[1].arg
    BY <1>1, <1>4, <1>5, <1>8, PostedTail
  <2> QED BY <2>1, <1>1, <1>7 DEF PostInv, h, s, q
<1>9. CASE Free(s, {"filedata"})
  <2>1. Posted(Tail(s), q, c)
    BY <1>6, <1>9, NothingPosted
  <2>2. \A x : Of(s, x) = {}
    BY <1>9 DEF Of, Free
  <2>3. Head(s).tag # "filedata"
    BY <1>1, <1>9, TailKeeps DEF Free
  <2> QED BY <2>1, <2>2, <2>3, <1>1, <1>7 DEF PostInv, h, s, q
<1> QED BY <1>3, <1>8, <1>9

LEMMA TakingFront ==
  ASSUME NEW c \in Conn, Types, ConnInv(c), HeldInv(c), PostInv(c), ~crashed, Taking(c), UNCHANGED client,
         NEW n, NEW x, NEW a, NEW b, Front(c, n, x, a, b)
  PROVE  IF Now(c).tag = "filedata" /\ Now(c).file = x /\ handler[c].toWhoseAcc = n
         THEN Now(c).seg = After(x, a) /\ Front(c, n, x, After(x, a), b)'
         ELSE Front(c, n, x, a, b)'
<1> DEFINE s == Ahead(c)
           p == handler[c].toWhoseAcc
           q == handler'[c].toWhoseAcc
<1>1. s # <<>> /\ s \in Seq(Asked \cup {Escape}) /\ Ahead(c)' = Tail(s) /\ Now(c) = Head(s)
  BY TakingAhead, AheadType DEF ConnInv
<1>2. 2 \in Of(s, x) => q = s[1].arg
  BY TakingSend
<1>3. Leads(s, For(s, p, n, x), x, a, b)
  BY DEF Front
<1> HIDE DEF s, p, q
<1>4. IF Head(s).tag = "filedata" /\ Head(s).file = x /\ p = n
      THEN Head(s).seg = After(x, a) /\ Leads(Tail(s), For(Tail(s), q, n, x), x, After(x, a), b)
      ELSE Leads(Tail(s), For(Tail(s), q, n, x), x, a, b)
  BY <1>1, <1>2, <1>3, ForFrom
<1>5. \A k : Front(c, n, x, k, b)' <=> Leads(Tail(s), For(Tail(s), q, n, x), x, k, b)
  BY <1>1 DEF Front, After, Leads, For, Of, Target, q
<1> QED BY <1>1, <1>4, <1>5 DEF p

LEMMA ReadEndSend ==
  ASSUME NEW c \in Conn, Types, HeldInv(c), ~crashed, ReadEnd(c), UNCHANGED client
  PROVE  /\ HeldInv(c)' /\ PostInv(c)' /\ Free(Ahead(c), {"filedata"}) /\ Free(Ahead(c)', {"filedata"})
         /\ Ahead(c)' \in Seq(Asked \cup {Escape})
<1>1. c \in closed /\ handler'[c].buf = handler[c].buf
  BY ReadEndTexts
<1>2. Free(handler[c].buf, {"filedata"}) /\ Free(Ahead(c), {"filedata"})
  <2>1. state[c] = "exited"
    BY <1>1, Parts
  <2> QED BY <2>1 DEF HeldInv, InSession
<1>3. handler'[c].todo = Parsed(handler[c].buf) /\ toServer[c] = <<>> /\ toServer' = toServer
  BY DEF ReadEnd, wire, Types, ThreadTypes, HandlerType
<1> DEFINE s == handler[c].buf
           t == handler'[c].todo
<1>4. s \in Seq(Asked)
  BY DEF Types, ThreadTypes, HandlerType
<1>5. t \in Seq(Asked \cup {Escape}) /\ Ends(t, s)
  <2> HIDE DEF s
  <2> QED BY <1>3, <1>4, ParsedEnds DEF s
<1>6. Free(t, {"filedata"})
  <2> HIDE DEF s, t
  <2>1. \A k \in DOMAIN t : t[k] \in {Rest, Escape} \/ \E j \in DOMAIN s : t[k] = s[j] /\ Len(s) - j = Len(t) - k
    BY <1>4, <1>5, EndsKeep
  <2>2. Rest.tag # "filedata" /\ Escape.tag # "filedata"
    BY DEF Rest, Escape, Tag, Command
  <2>3. \A j \in DOMAIN s : s[j].tag # "filedata"
    BY <1>2 DEF Free, s
  <2>4. \A k \in DOMAIN t : t[k].tag # "filedata"
    BY <2>1, <2>2, <2>3
  <2> QED BY <2>4 DEF Free
<1>7. Ahead(c)' = t
  BY <1>3, <1>5, ConcatEmptySeq DEF Ahead
<1>8. HeldInv(c)'
  BY <1>1, <1>2, <1>6, <1>7 DEF HeldInv, client
<1>9. PostInv(c)'
  BY <1>6, <1>7, NothingPosted DEF PostInv
<1> QED BY <1>2, <1>5, <1>6, <1>7, <1>8, <1>9

\* A read and the steps of the delivery thread leave alone what is ahead.
LEMMA OtherSend ==
  ASSUME WholeReads, NEW c \in Conn, Types, AimInv(c), HeldInv(c), PostInv(c), ~crashed,
         Read(c) \/ StartDelivery(c) \/ Deliver(c), UNCHANGED client
  PROVE  /\ HeldInv(c)' /\ PostInv(c)'
         /\ Ahead(c)' = Ahead(c) /\ handler'[c].toWhoseAcc = handler[c].toWhoseAcc
<1>1. CASE Read(c)
  <2>1. /\ Ahead(c)' = Ahead(c) /\ handler'[c].toWhoseAcc = handler[c].toWhoseAcc
        /\ \A T : Free(Ahead(c), T) => Free(handler'[c].buf, T)
    BY <1>1, ReadAhead DEF AimInv
  <2>2. HeldInv(c)'
    BY <2>1 DEF HeldInv, client
  <2> QED BY <2>1, <2>2 DEF PostInv
<1>2. CASE StartDelivery(c) \/ Deliver(c)
  <2>1. handler' = handler /\ toServer' = toServer
    BY <1>2 DEF StartDelivery, Deliver, wire
  <2> QED BY <2>1 DEF HeldInv, PostInv, Ahead, client
<1> QED BY <1>1, <1>2

\* What the server does for a connection to the segments its client has sent:
\* What a handler has ahead of it leads where it did.
LEMMA FrontStays ==
  ASSUME NEW d \in Conn, Ahead(d)' = Ahead(d), handler'[d].toWhoseAcc = handler[d].toWhoseAcc,
         NEW n, NEW x, NEW a, NEW b, Front(d, n, x, a, b)
  PROVE  Front(d, n, x, a, b)'
<1> DEFINE s == Ahead(d)
           t == Ahead(d)'
           p == handler[d].toWhoseAcc
           q == handler'[d].toWhoseAcc
<1>1. Leads(s, For(s, p, n, x), x, a, b) /\ t = s /\ q = p
  BY DEF Front
<1>2. Front(d, n, x, a, b)' <=> Leads(t, For(t, q, n, x), x, a, b)
  BY DEF Front, After, Leads, For, Of, Target
<1> HIDE DEF s, t, p, q
<1> QED BY <1>1, <1>2

\* only taking one moves it.
LEMMA ServerSend ==
  ASSUME WholeReads, NEW c \in Conn, Types, ConnInv(c), AimInv(c), SendInv(c), ~crashed,
         Handling(c) \/ Delivering(c), UNCHANGED client
  PROVE  /\ SendInv(c)'
         /\ ~TakeFileData(c) =>
              \A n, x, a, b : Front(c, n, x, a, b) => Front(c, n, x, a, b)'
<1>1. AskInv(c)'
  BY DEF SendInv, AskInv, client, user, files
<1>2. HeldInv(c) /\ PostInv(c)
  BY DEF SendInv
<1>3. CASE Taking(c)
  <2>1. HeldInv(c)' /\ PostInv(c)'
    BY <1>2, <1>3, TakingSend
  <2>2. ASSUME ~TakeFileData(c) PROVE Now(c).tag # "filedata"
    BY <1>3, <2>2 DEF Taking, TakeTag, TakeUnexpected, TakeUsername, SignUp, LogIn, RefuseLogin, Expected,
                      Offline, TakeTarget, TakeMessage, TakeKnock, TakeOther
  <2>3. ASSUME ~TakeFileData(c), NEW n, NEW x, NEW a, NEW b, Front(c, n, x, a, b) PROVE Front(c, n, x, a, b)'
    BY <1>2, <1>3, <2>2, <2>3, TakingFront
  <2> QED BY <1>1, <2>1, <2>3 DEF SendInv
<1>4. CASE ReadEnd(c)
  <2>1. /\ HeldInv(c)' /\ PostInv(c)' /\ Free(Ahead(c), {"filedata"}) /\ Free(Ahead(c)', {"filedata"})
        /\ Ahead(c)' \in Seq(Asked \cup {Escape}) /\ Ahead(c) \in Seq(Asked \cup {Escape})
    BY <1>2, <1>4, ReadEndSend, AheadType
  <2>2. ASSUME NEW n, NEW x, NEW a, NEW b, Front(c, n, x, a, b) PROVE Front(c, n, x, a, b)'
    <3> DEFINE s == Ahead(c)
               t == Ahead(c)'
               p == handler[c].toWhoseAcc
               q == handler'[c].toWhoseAcc
    <3>1. Leads(s, For(s, p, n, x), x, a, b)
      BY <2>2 DEF Front
    <3> HIDE DEF s, t, p, q
    <3>2. Leads(t, For(t, q, n, x), x, a, b)
      BY <3>1, <2>1, NothingFor DEF s, t
    <3>3. Front(c, n, x, a, b)' <=> Leads(t, For(t, q, n, x), x, a, b)
      BY DEF Front, After, Leads, For, Of, Target, q, t
    <3> QED BY <3>2, <3>3
  <2> QED BY <1>1, <2>1, <2>2 DEF SendInv
<1>5. CASE Read(c) \/ StartDelivery(c) \/ Deliver(c)
  <2>1. HeldInv(c)' /\ PostInv(c)' /\ Ahead(c)' = Ahead(c) /\ handler'[c].toWhoseAcc = handler[c].toWhoseAcc
    BY <1>2, <1>5, OtherSend
  <2>2. ASSUME NEW n, NEW x, NEW a, NEW b, Front(c, n, x, a, b) PROVE Front(c, n, x, a, b)'
    BY <2>1, <2>2, FrontStays
  <2> QED BY <1>1, <2>1, <2>2 DEF SendInv
<1> QED BY <1>3, <1>4, <1>5 DEF Handling, Delivering, Taking

\* Nobody else's segments move.
LEMMA BesideSend ==
  ASSUME NEW d \in Conn, Untouched(d), service'[d] = service[d], rf_list'[d] = rf_list[d], SendInv(d)
  PROVE  SendInv(d)' /\ \A n, x, a, b : Front(d, n, x, a, b) => Front(d, n, x, a, b)'
<1>1. Ahead(d)' = Ahead(d) /\ handler'[d] = handler[d] /\ state'[d] = state[d] /\ dst_usr'[d] = dst_usr[d]
  BY DEF Ahead, Untouched
<1>2. SendInv(d)'
  BY <1>1 DEF SendInv, AskInv, HeldInv, PostInv, Posted, Target, Whole
<1>3. Ahead(d)' = Ahead(d) /\ handler'[d].toWhoseAcc = handler[d].toWhoseAcc
  BY <1>1
<1>4. ASSUME NEW n, NEW x, NEW a, NEW b, Front(d, n, x, a, b) PROVE Front(d, n, x, a, b)'
  BY <1>3, <1>4, FrontStays
<1> QED BY <1>2, <1>4
-----------------------------------------------------------------------------
(* The queues. *)

LEMMA JobsType ==
  ASSUME NEW n \in Name, AccountTypes, JobInv(n)
  PROVE  /\ Jobs(n) \in Seq(Said) /\ Len(Jobs(n)) = Len(queue[n]) /\ queue[n] \in Seq(Seq(Told))
         /\ \A k \in DOMAIN queue[n] : Jobs(n)[k] = queue[n][k][2]
<1> DEFINE q == queue[n]
<1>1. q \in Seq(Seq(Told)) /\ Len(q) \in Nat /\ DOMAIN q = 1 .. Len(q)
  BY LenProperties DEF AccountTypes
<1>2. \A k \in DOMAIN q : q[k][2] \in Said
  BY DEF JobInv, GoodJob
<1>3. Jobs(n) = [k \in 1 .. Len(q) |-> q[k][2]]
  BY <1>1 DEF Jobs
<1> HIDE DEF q
<1>4. Jobs(n) \in [1 .. Len(q) -> Said]
  BY <1>1, <1>2, <1>3
<1> DEFINE s == Jobs(n)
<1>5. s \in Seq(Said)
  <2>1. s \in [1 .. Len(q) -> Said] /\ Len(q) \in Nat
    BY <1>1, <1>4
  <2> HIDE DEF s
  <2> QED BY <2>1
<1>6. Len(Jobs(n)) = Len(q)
  BY <1>1, <1>4, <1>5, LenProperties
<1> QED BY <1>1, <1>3, <1>5, <1>6 DEF q

\* A job is queued where it is for, if there is room.
LEMMA JobQueued ==
  ASSUME AccountTypes, \A n \in Name : JobInv(n), NEW to, NEW from, NEW cmd \in Told,
         JobAssign(to, <<Command("username", from), cmd>>), NEW n \in Name
  PROVE  /\ Jobs(n)' = Jobs(n) \/ Jobs(n)' = Jobs(n) \o <<cmd>>
         /\ n # to => Jobs(n)' = Jobs(n)
         /\ n = to /\ n \in DOMAIN account /\ Len(queue[n]) < Capacity => Jobs(n)' = Jobs(n) \o <<cmd>>
<1> DEFINE job == <<Command("username", from), cmd>>
<1>1. /\ Jobs(n) \in Seq(Said) /\ Len(Jobs(n)) = Len(queue[n]) /\ queue[n] \in Seq(Seq(Told))
      /\ \A k \in DOMAIN queue[n] : Jobs(n)[k] = queue[n][k][2]
  BY JobsType
<1>2. queue'[n] = IF n = to /\ n \in DOMAIN account /\ Len(queue[n]) < Capacity THEN Append(queue[n], job) ELSE queue[n]
  BY DEF JobAssign, AccountTypes
<1>3. ASSUME queue'[n] = queue[n] PROVE Jobs(n)' = Jobs(n)
  BY <1>3 DEF Jobs
<1>4. ASSUME queue'[n] = Append(queue[n], job) PROVE Jobs(n)' = Jobs(n) \o <<cmd>>
  <2> DEFINE q == queue[n]
             u == queue'[n]
             s == Jobs(n)
             r == s \o <<cmd>>
  <2>1. job[2] = cmd
    OBVIOUS
  <2>2. <<cmd>> \in Seq(Told) /\ Len(<<cmd>>) = 1 /\ <<cmd>>[1] = cmd
    OBVIOUS
  <2> HIDE DEF job
  <2>3. /\ Len(u) = Len(q) + 1 /\ DOMAIN u = 1 .. Len(q) + 1 /\ Len(q) \in Nat /\ DOMAIN q = 1 .. Len(q)
        /\ \A k \in 1 .. Len(q) : u[k] = q[k]
        /\ u[Len(q) + 1] = job
    <3>1. u = Append(q, job) /\ q \in Seq(Seq(Told) \cup {job})
      BY <1>1, <1>4, SeqMonotonic
    <3> HIDE DEF u, q
    <3>2. Append(q, job) \in Seq(Seq(Told) \cup {job}) /\ Len(Append(q, job)) = Len(q) + 1
      BY <3>1, AppendProperties
    <3> QED BY <3>1, <3>2, AppendProperties, LenProperties
  <2>4. s \in Seq(Said) /\ Len(s) = Len(q) /\ \A k \in 1 .. Len(q) : s[k] = q[k][2]
    BY <1>1, <2>3
  <2>5. Jobs(n)' = [k \in 1 .. Len(q) + 1 |-> u[k][2]]
    BY <2>3 DEF Jobs
  <2> HIDE DEF q, u, s
  <2>6. /\ Len(r) = Len(s) + 1 /\ DOMAIN r = 1 .. Len(r)
        /\ \A k \in 1 .. Len(s) : r[k] = s[k]
        /\ \A k \in Len(s) + 1 .. Len(r) : r[k] = <<cmd>>[k - Len(s)]
    BY <2>2, <2>4, Joined
  <2>7. r[Len(s) + 1] = cmd
    <3>1. Len(s) + 1 \in Len(s) + 1 .. Len(r) /\ (Len(s) + 1) - Len(s) = 1
      BY <2>3, <2>4, <2>6
    <3> QED BY <3>1, <2>2, <2>6
  <2>8. r \in Seq(Said \cup Told)
    <3>1. s \in Seq(Said \cup Told) /\ <<cmd>> \in Seq(Said \cup Told)
      BY <2>2, <2>4, SeqMonotonic
    <3> QED BY <3>1, ConcatProperties
  <2> HIDE DEF r
  <2>9. r = [k \in 1 .. Len(q) + 1 |-> r[k]]
    BY <2>4, <2>6, <2>8
  <2>10. \A k \in 1 .. Len(q) + 1 : r[k] = u[k][2]
    BY <2>1, <2>3, <2>4, <2>6, <2>7
  <2>11. Jobs(n)' = r
    BY <2>5, <2>9, <2>10
  <2> QED BY <2>11 DEF r, s
<1> QED BY <1>2, <1>3, <1>4

\* A job that is delivered was the first.
LEMMA JobTaken ==
  ASSUME NEW n \in Name, AccountTypes, JobInv(n), queue[n] # <<>>, queue'[n] = Tail(queue[n])
  PROVE  Jobs(n) # <<>> /\ Jobs(n)' = Tail(Jobs(n)) /\ Head(Jobs(n)) = Head(queue[n])[2]
<1> DEFINE q == queue[n]
           s == Jobs(n)
           u == Tail(q)
           v == Tail(s)
<1>1. s \in Seq(Said) /\ Len(s) = Len(q) /\ q \in Seq(Seq(Told)) /\ \A k \in DOMAIN q : s[k] = q[k][2]
  BY JobsType
<1>2. q # <<>> /\ queue'[n] = u
  OBVIOUS
<1>3. Jobs(n)' = [k \in DOMAIN u |-> u[k][2]]
  BY <1>2 DEF Jobs
<1> HIDE DEF q, s, u, v
<1>4. /\ u \in Seq(Seq(Told)) /\ Len(u) = Len(q) - 1 /\ Len(q) \in Nat /\ Head(q) = q[1] /\ 1 \in DOMAIN q
      /\ \A k \in DOMAIN u : k + 1 \in DOMAIN q /\ k \in Nat /\ u[k] = q[k + 1]
  BY <1>1, <1>2, TailKeeps DEF u
<1>5. s # <<>>
  BY <1>1, <1>2, <1>4, EmptySeq
<1>6. /\ v \in Seq(Said) /\ Len(v) = Len(s) - 1 /\ Len(s) \in Nat /\ Head(s) = s[1] /\ 1 \in DOMAIN s
      /\ \A k \in DOMAIN v : k + 1 \in DOMAIN s /\ k \in Nat /\ v[k] = s[k + 1]
  BY <1>1, <1>5, TailKeeps DEF v
<1>7. DOMAIN v = 1 .. Len(v) /\ DOMAIN u = 1 .. Len(u) /\ Len(u) = Len(v)
  BY <1>1, <1>4, <1>6, LenProperties
<1>8. v = [k \in DOMAIN u |-> v[k]]
  BY <1>6, <1>7
<1>9. \A k \in DOMAIN u : v[k] = u[k][2]
  BY <1>1, <1>4, <1>6, <1>7
<1>10. [k \in DOMAIN u |-> u[k][2]] = v
  BY <1>8, <1>9
<1>11. Head(s) = Head(q)[2]
  BY <1>1, <1>4, <1>6
<1> QED BY <1>3, <1>5, <1>10, <1>11 DEF q, s, v

\* A segment that is taken goes to the queue it is for; nothing else a command
\* puts in a queue is a segment.
LEMMA TakingQueue ==
  ASSUME NEW c \in Conn, Types, ConnInv(c), \A n \in Name : JobInv(n) /\ Len(queue[n]) < Capacity,
         HeldInv(c), PostInv(c), ~crashed, Knocks[c] \subseteq DOMAIN account, Taking(c), UNCHANGED client,
         NEW n \in Name
  PROVE  /\ Jobs(n) \in Seq(Said)
         /\ TakeFileData(c) => Now(c).tag = "filedata" /\ Now(c) \in Said /\
              Jobs(n)' = IF n = handler[c].toWhoseAcc THEN Jobs(n) \o <<Now(c)>> ELSE Jobs(n)
         /\ ~TakeFileData(c) => Jobs(n)' = Jobs(n) \/
              (Now(c).tag = "message" /\ Now(c) \in Said /\ Jobs(n)' = Jobs(n) \o <<Now(c)>>)
<1> DEFINE h == handler[c]
<1>1. AccountTypes /\ StageInv(c) /\ Jobs(n) \in Seq(Said)
  <2>1. AccountTypes /\ StageInv(c)
    BY DEF Types, ConnInv
  <2> QED BY <2>1, JobsType
<1>2. Now(c) \in Asked \cup {Escape}
  <2>1. h.todo # <<>>
    BY <1>1, TakingTexts
  <2> QED BY <2>1, NowType DEF Types
<1>3. CASE TakeFileData(c)
  <2>1. /\ Now(c).tag = "filedata" /\ Now(c) \in Said
        /\ JobAssign(h.toWhoseAcc, <<Command("username", h.acc), Now(c)>>)
    BY <1>2, <1>3, AskedParts DEF TakeFileData
  <2>2. h.toWhoseAcc \in DOMAIN account
    BY <2>1, <1>3, TakingSend
  <2>3. Now(c) \in Told
    BY <2>1 DEF Told
  <2>4. /\ n # h.toWhoseAcc => Jobs(n)' = Jobs(n)
        /\ n = h.toWhoseAcc /\ n \in DOMAIN account /\ Len(queue[n]) < Capacity => Jobs(n)' = Jobs(n) \o <<Now(c)>>
    <3> HIDE DEF h
    <3> QED BY <2>1, <2>3, <1>1, JobQueued
  <2> QED BY <1>1, <1>3, <2>1, <2>2, <2>4
<1>4. CASE TakeMessage(c)
  <2>1. /\ Now(c).tag = "message" /\ Now(c) \in Said
        /\ JobAssign(h.toWhoseAcc, <<Command("username", h.acc), Now(c)>>)
    BY <1>2, <1>4, AskedParts DEF TakeMessage
  <2>2. Now(c) \in Told
    BY <2>1 DEF Told
  <2>3. Jobs(n)' = Jobs(n) \/ Jobs(n)' = Jobs(n) \o <<Now(c)>>
    <3> HIDE DEF h
    <3> QED BY <2>1, <2>2, <1>1, JobQueued
  <2>4. ~TakeFileData(c)
    BY <2>1 DEF TakeFileData
  <2> QED BY <1>1, <2>1, <2>3, <2>4
<1>5. CASE ~TakeFileData(c) /\ ~TakeMessage(c)
  <2>1. queue' = queue
    BY <1>1, <1>5, TakingTexts
  <2> QED BY <1>1, <1>5, <2>1 DEF Jobs
<1> QED BY <1>3, <1>4, <1>5

LEMMA BackOn ==
  ASSUME NEW n, Jobs(n) \in Seq(Said), NEW cmd \in Said, Jobs(n)' = Jobs(n) \o <<cmd>>,
         NEW x, ~(cmd.tag = "filedata" /\ cmd.file = x), NEW a, NEW b, Back(n, x, a, b)
  PROVE  Back(n, x, a, b)'
<1> DEFINE s == Jobs(n)
           t == <<cmd>>
           r == Jobs(n)'
<1>1. s \in Seq(Said) /\ t \in Seq(Said) /\ r = s \o t
  OBVIOUS
<1>2. Of(t, x) = {}
  BY DEF Of
<1>3. Leads(s, Of(s, x), x, a, b)
  BY DEF Back
<1>4. Back(n, x, a, b)' <=> Leads(r, Of(r, x), x, a, b)
  BY DEF Back, Leads, Of, After
<1> HIDE DEF s, t, r
<1> QED BY <1>1, <1>2, <1>3, <1>4, OfOn

LEMMA BackTo ==
  ASSUME NEW n, Jobs(n) \in Seq(Said), NEW cmd \in Said, Jobs(n)' = Jobs(n) \o <<cmd>>,
         NEW x, NEW a, NEW b, cmd.tag = "filedata", cmd.file = x, cmd.seg = After(x, b), Back(n, x, a, b)
  PROVE  Back(n, x, a, After(x, b))'
<1> DEFINE s == Jobs(n)
           t == <<cmd>>
           r == Jobs(n)'
           k == After(x, b)
<1>1. s \in Seq(Said) /\ t \in Seq(Said) /\ r = s \o t
  OBVIOUS
<1>2. Len(t) # 0 /\ Len(t) = 1 /\ t[Len(t)] = cmd /\ Of(t, x) = {Len(t)}
  BY DEF Of
<1>3. k \in Nat
  <2>1. cmd \in [tag : {"filedata"}, arg : Text \cup {None}, file : File, seg : Nat]
    BY DEF Said
  <2> QED BY <2>1
<1>4. Leads(s, Of(s, x), x, a, b)
  BY DEF Back
<1>5. \A j : Back(n, x, a, j)' <=> Leads(r, Of(r, x), x, a, j)
  BY DEF Back, Leads, Of, After
<1> HIDE DEF s, t, r
<1>6. Leads(r, Of(r, x), x, a, k)
  BY <1>1, <1>2, <1>3, <1>4, OfTo
<1> QED BY <1>5, <1>6

LEMMA TakingFollow ==
  ASSUME WholeReads, Apart, NEW c \in Conn, Types, ConnInv(c), AimInv(c), \A d \in Conn : SendInv(d),
         \A n \in Name : JobInv(n) /\ Len(queue[n]) < Capacity, ~crashed, DOMAIN Registered \subseteq DOMAIN account,
         Taking(c), UNCHANGED client, NEW s \in Conn, NEW n \in Knocks[s], NEW x, NEW a, Follow(s, n, x, a)
  PROVE  Follow(s, n, x, a)'
<1>1. PICK k, b : Back(n, x, a, k) /\ Front(s, n, x, k, b) /\ At(s, n, x, b)
  BY DEF Follow
<1>2. At(s, n, x, b)'
  BY <1>1 DEF At, Unended, client, user, files
<1>3. SUFFICES \E j : Back(n, x, a, j)' /\ Front(s, n, x, j, b)'
  BY <1>2 DEF Follow
<1>4. /\ n \in Name /\ HeldInv(c) /\ PostInv(c) /\ StageInv(c) /\ Handling(c)
      /\ Knocks[c] \subseteq DOMAIN account
  BY ClientAssumption DEF SendInv, ConnInv, Apart, Taking, Handling
<1>5. /\ Jobs(n) \in Seq(Said)
      /\ TakeFileData(c) => Now(c).tag = "filedata" /\ Now(c) \in Said /\
           Jobs(n)' = IF n = handler[c].toWhoseAcc THEN Jobs(n) \o <<Now(c)>> ELSE Jobs(n)
      /\ ~TakeFileData(c) => Jobs(n)' = Jobs(n) \/
           (Now(c).tag = "message" /\ Now(c) \in Said /\ Jobs(n)' = Jobs(n) \o <<Now(c)>>)
  BY <1>4, TakingQueue
<1>6. ASSUME Jobs(n)' = Jobs(n) PROVE Back(n, x, a, k)'
  BY <1>1, <1>6 DEF Back, Leads, Of, After
<1>7. ASSUME s # c PROVE Front(s, n, x, k, b)'
  <2>1. Untouched(s)
    BY <1>4, <1>7, ServerBeside
  <2>2. service'[s] = service[s] /\ rf_list'[s] = rf_list[s]
    BY DEF client, user, files
  <2>3. crashed => crashed'
    OBVIOUS
  <2> QED BY <1>1, <2>1, <2>2, <2>3, BesideSend
<1>8. CASE ~TakeFileData(c)
  <2>1. Front(s, n, x, k, b)'
    <3>1. CASE s = c
      BY <1>1, <1>4, <1>8, <3>1, ServerSend
    <3> QED BY <1>7, <3>1
  <2>2. Back(n, x, a, k)'
    <3>1. CASE Now(c).tag = "message" /\ Now(c) \in Said /\ Jobs(n)' = Jobs(n) \o <<Now(c)>>
      BY <1>1, <1>5, <3>1, BackOn
    <3> QED BY <1>5, <1>6, <1>8, <3>1
  <2> QED BY <2>1, <2>2
<1>9. CASE TakeFileData(c) /\ s # c
  <2>1. handler[c].toWhoseAcc \in Knocks[c]
    BY <1>4, <1>5, <1>9, TakingSend
  <2>2. n # handler[c].toWhoseAcc
    BY <2>1, <1>9, OneOfEach
  <2> QED BY <1>5, <1>6, <1>7, <1>9, <2>2
<1>10. CASE TakeFileData(c) /\ s = c
  <2>1. IF Now(c).tag = "filedata" /\ Now(c).file = x /\ handler[c].toWhoseAcc = n
        THEN Now(c).seg = After(x, k) /\ Front(c, n, x, After(x, k), b)'
        ELSE Front(c, n, x, k, b)'
    BY <1>1, <1>4, <1>10, TakingFront
  <2>2. CASE Now(c).file = x /\ handler[c].toWhoseAcc = n
    <3>1. /\ Now(c).tag = "filedata" /\ Now(c) \in Said /\ Now(c).seg = After(x, k)
          /\ Front(s, n, x, After(x, k), b)' /\ Jobs(n)' = Jobs(n) \o <<Now(c)>>
      BY <1>5, <1>10, <2>1, <2>2
    <3>2. Back(n, x, a, After(x, k))'
      BY <1>1, <1>5, <2>2, <3>1, BackTo
    <3> QED BY <3>1, <3>2
  <2>3. CASE ~(Now(c).file = x /\ handler[c].toWhoseAcc = n)
    <3>1. Front(s, n, x, k, b)' /\ Now(c) \in Said
      BY <1>5, <1>10, <2>1, <2>3
    <3>2. CASE handler[c].toWhoseAcc = n
      <4>1. Now(c).file # x /\ Jobs(n)' = Jobs(n) \o <<Now(c)>>
        BY <1>5, <1>10, <2>3, <3>2
      <4>2. Back(n, x, a, k)'
        BY <1>1, <1>5, <3>1, <4>1, BackOn
      <4> QED BY <3>1, <4>2
    <3>3. CASE handler[c].toWhoseAcc # n
      BY <1>5, <1>6, <1>10, <3>1, <3>3
    <3> QED BY <3>2, <3>3
  <2> QED BY <2>2, <2>3
<1> QED BY <1>8, <1>9, <1>10

\* Queues hold segments for their account, of who may write to it.
LEMMA TakingFine ==
  ASSUME NEW c \in Conn, Types, ConnInv(c), \A n \in Name : JobInv(n) /\ Len(queue[n]) < Capacity,
         HeldInv(c), PostInv(c), ~crashed, Knocks[c] \subseteq DOMAIN account, Taking(c), UNCHANGED client,
         NEW n \in Name, QueueInv(n)
  PROVE  QueueInv(n)'
<1>1. /\ Jobs(n) \in Seq(Said)
      /\ TakeFileData(c) => Now(c).tag = "filedata" /\ Now(c) \in Said /\
           Jobs(n)' = IF n = handler[c].toWhoseAcc THEN Jobs(n) \o <<Now(c)>> ELSE Jobs(n)
      /\ ~TakeFileData(c) => Jobs(n)' = Jobs(n) \/
           (Now(c).tag = "message" /\ Now(c) \in Said /\ Jobs(n)' = Jobs(n) \o <<Now(c)>>)
  BY TakingQueue
<1>2. ASSUME Jobs(n)' = Jobs(n) PROVE QueueInv(n)'
  BY <1>2 DEF QueueInv, Fine, Whole
<1>3. ASSUME NEW cmd \in Said, Jobs(n)' = Jobs(n) \o <<cmd>>, Fine(cmd, n) PROVE QueueInv(n)'
  <2> DEFINE s == Jobs(n)
             t == <<cmd>>
             r == Jobs(n)'
  <2>1. s \in Seq(Said) /\ t \in Seq(Said) /\ r = s \o t /\ DOMAIN t = {1} /\ t[1] = cmd
    BY <1>1, <1>3
  <2>2. \A k \in DOMAIN s : Fine(s[k], n)
    BY DEF QueueInv
  <2> HIDE DEF s, t, r
  <2>3. \A k \in DOMAIN (s \o t) : \/ k \in DOMAIN s /\ (s \o t)[k] = s[k]
                                   \/ k > Len(s) /\ k - Len(s) \in DOMAIN t /\ (s \o t)[k] = t[k - Len(s)]
    BY <2>1, ConcatKeeps
  <2>4. \A k \in DOMAIN r : Fine(r[k], n)
    BY <2>1, <2>2, <2>3, <1>3
  <2> QED BY <2>4 DEF QueueInv, Fine, Whole, r
<1>4. CASE TakeFileData(c)
  <2>1. /\ Now(c).tag = "filedata" /\ Now(c) \in Said
        /\ Jobs(n)' = IF n = handler[c].toWhoseAcc THEN Jobs(n) \o <<Now(c)>> ELSE Jobs(n)
    BY <1>1, <1>4
  <2>2. handler[c].toWhoseAcc \in Knocks[c] /\ Whole(Now(c), c, handler[c].toWhoseAcc)
    BY <2>1, <1>4, TakingSend
  <2>3. n = handler[c].toWhoseAcc => Fine(Now(c), n)
    BY <2>2 DEF Fine
  <2> QED BY <2>1, <2>3, <1>2, <1>3
<1>5. CASE ~TakeFileData(c)
  <2>1. Now(c).tag = "message" => Fine(Now(c), n)
    BY DEF Fine
  <2> QED BY <2>1, <1>1, <1>2, <1>3, <1>5
<1> QED BY <1>4, <1>5
-----------------------------------------------------------------------------
(* Who is let in. *)

\* A connection keeps the account it has been let in to.
LEMMA StagesStay ==
  ASSUME NEW c \in Conn, Types, ConnInv(c), Handling(c) \/ Delivering(c), UNCHANGED client
  PROVE  /\ \A d \in Conn : handler[d].istonextstage => handler'[d].istonextstage /\ handler'[d].acc = handler[d].acc
         /\ handler[c].istonextstage => (delivery'[c].intact => delivery[c].intact)
<1>1. ASSUME handler[c].istonextstage
      PROVE  /\ handler'[c].istonextstage /\ handler'[c].acc = handler[c].acc
             /\ delivery'[c].intact => delivery[c].intact
  <2>1. CASE Taking(c)
    <3>1. handler'[c].istonextstage /\ handler'[c].acc = handler[c].acc
      BY <1>1, <2>1, TakingOwned
    <3>2. delivery'[c].intact => delivery[c].intact
      BY <1>1, <2>1 DEF Taking, TakeTag, TakeUnexpected, TakeUsername, SignUp, LogIn, RefuseLogin, Expected, Offline,
                        Online, TakeTarget, TakeMessage, TakeFileData, TakeKnock, TakeOther, Types, ThreadTypes
    <3> QED BY <3>1, <3>2
  <2>2. CASE Read(c)
    BY <1>1, <2>2, ReadTexts DEF Read
  <2>3. CASE ReadEnd(c)
    BY <1>1, <2>3, ReadEndTexts DEF ReadEnd
  <2>4. CASE StartDelivery(c) \/ Deliver(c)
    BY <1>1, <2>4 DEF StartDelivery, Deliver, Types, ThreadTypes
  <2> QED BY <2>1, <2>2, <2>3, <2>4 DEF Handling, Delivering, Taking
<1>2. \A d \in Conn \ {c} : handler'[d] = handler[d]
  <2>1. StageInv(c)
    BY DEF ConnInv
  <2> QED BY <2>1, ServerBeside DEF Untouched
<1> QED BY <1>1, <1>2

LEMMA AloneStays ==
  ASSUME NEW c \in Conn, handler[c].istonextstage, Alone(c)',
         \A d \in Conn : handler[d].istonextstage => handler'[d].istonextstage /\ handler'[d].acc = handler[d].acc
  PROVE  Alone(c)
BY DEF Alone
-----------------------------------------------------------------------------
(* What is on its way to a client. *)

\* What the server does but deliver puts no segment there.
LEMMA Answering ==
  ASSUME NEW c \in Conn, Types, ConnInv(c), InboxInv(c),
         Handling(c) \/ StartDelivery(c), UNCHANGED client
  PROVE  InboxInv(c)' /\ \A x, k : Shows(c, x, k) => Shows(c, x, k)'
<1>1. StageInv(c) /\ (Handling(c) \/ Delivering(c))
  BY DEF ConnInv, Delivering
<1>2. handler[c].istonextstage => handler'[c].istonextstage
  BY <1>1, StagesStay
<1>3. toClient[c] \in Seq(Told \cup [tag : Answers]) /\ UNCHANGED <<username, state, disk, receiver>>
  BY Parts DEF client, user, inbox
<1>4. ASSUME toClient'[c] = toClient[c] PROVE InboxInv(c)' /\ \A x, k : Shows(c, x, k) => Shows(c, x, k)'
  BY <1>2, <1>3, <1>4 DEF InboxInv, Fine, Whole, Free, Shows, Leads, Of, After, Pos
<1>5. ASSUME NEW a \in Answers, toClient'[c] = toClient[c] \o <<Tag(a)>>
      PROVE  InboxInv(c)' /\ \A x, k : Shows(c, x, k) => Shows(c, x, k)'
  <2> DEFINE s == toClient[c]
             t == <<Tag(a)>>
             r == toClient'[c]
  <2>1. t \in Seq({Tag(a)}) /\ r = s \o t /\ s \in Seq(Told \cup [tag : Answers])
    BY <1>3, <1>5
  <2>2. DOMAIN t = {1} /\ t[1].tag = a /\ a # "filedata"
    BY DEF Tag, Answers
  <2>3. \A n : Fine(t[1], n)
    BY <2>2 DEF Fine
  <2>4. Free(t, {"filedata"}) /\ \A x : Of(t, x) = {}
    BY <2>2 DEF Free, Of
  <2> HIDE DEF s, t, r
  <2>5. \A k \in DOMAIN (s \o t) : \/ k \in DOMAIN s /\ (s \o t)[k] = s[k]
                                   \/ k > Len(s) /\ k - Len(s) \in DOMAIN t /\ (s \o t)[k] = t[k - Len(s)]
    BY <2>1, ConcatKeeps
  <2>f. Free(s, {"filedata"}) /\ Free(t, {"filedata"}) => Free(s \o t, {"filedata"})
    BY <2>1, ConcatKeeps
  <2>6. \A k \in DOMAIN s : Fine(s[k], username[c])
    BY DEF InboxInv, s
  <2>7. \A k \in DOMAIN r : Fine(r[k], username[c])
    BY <2>1, <2>2, <2>3, <2>5, <2>6
  <2>8. Free(s, {"filedata"}) => Free(r, {"filedata"})
    BY <2>1, <2>4, <2>f
  <2>9. InboxInv(c)'
    BY <2>7, <2>8, <1>2, <1>3 DEF InboxInv, Fine, Whole, Free, r, s
  <2>10. ASSUME NEW x, NEW k, Shows(c, x, k) PROVE Shows(c, x, k)'
    <3>1. Leads(s, Of(s, x), x, Pos(c, x), k)
      BY <2>10 DEF Shows, s
    <3>2. Leads(r, Of(r, x), x, Pos(c, x), k)
      BY <3>1, <2>1, <2>4, OfOn
    <3> QED BY <3>2, <1>3 DEF Shows, Leads, Of, After, Pos, r
  <2> QED BY <2>9, <2>10
<1>6. toClient'[c] = toClient[c] \/ \E a \in Answers : toClient'[c] = toClient[c] \o <<Tag(a)>>
  <2>1. CASE Taking(c)
    <3>1. StageInv(c)
      BY DEF ConnInv
    <3> QED BY <2>1, <3>1, TakingTexts
  <2>2. CASE Read(c) \/ ReadEnd(c) \/ StartDelivery(c)
    BY <2>2 DEF Read, ReadEnd, StartDelivery, wire
  <2> QED BY <2>1, <2>2 DEF Handling, Taking
<1> QED BY <1>4, <1>5, <1>6

\* A connection nobody has been let in at yet shows no segment.
LEMMA NothingShown ==
  ASSUME NEW c \in Conn, Types, InboxInv(c), ~handler[c].istonextstage, NEW x \in File
  PROVE  Shows(c, x, 0)
<1>1. toClient[c] \in Seq(Told \cup [tag : Answers]) /\ <<>> \in Seq(Told \cup [tag : Answers])
  BY Parts
<1>2. Pos(c, x) = 0
  BY DEF InboxInv, Pos
<1>3. Free(toClient[c], {"filedata"}) /\ Free(<<>>, {"filedata"})
  BY DEF InboxInv, Free
<1>4. Leads(<<>>, {}, x, 0, 0)
  <2>1. Len(<<>>) = 0
    OBVIOUS
  <2> QED BY <2>1, LeadsNowhere
<1>5. Of(toClient[c], x) = {}
  BY <1>3 DEF Of, Free
<1>6. Leads(toClient[c], {}, x, 0, 0)
  <2> DEFINE s == toClient[c]
  <2>1. Len(s) \in Nat /\ Len(<<>>) = 0
    BY <1>1, LenProperties
  <2> HIDE DEF s
  <2>2. Leads(s, {}, x, 0, 0)
    BY <2>1, <1>4, LeadsOn
  <2> QED BY <2>2 DEF s
<1> QED BY <1>2, <1>5, <1>6 DEF Shows

\* A job that is delivered goes from the front of the queue to the client, if
\* the thread has its argument and the client is there.
LEMMA Moved ==
  ASSUME NEW c \in Conn, Types, ConnInv(c), \A m \in Name : JobInv(m), Deliver(c), UNCHANGED client,
         NEW n, n = delivery[c].acc
  PROVE  /\ n \in Name /\ Listens(c, n) /\ handler' = handler /\ delivery' = delivery /\ toServer' = toServer
         /\ closed' = closed
         /\ Jobs(n) \in Seq(Said) /\ Jobs(n) # <<>> /\ Jobs(n)' = Tail(Jobs(n))
         /\ \A m \in Name \ {n} : Jobs(m)' = Jobs(m)
         /\ \A d \in Conn \ {c} : toClient'[d] = toClient[d]
         /\ IF delivery[c].intact /\ c \notin closed
            THEN /\ n = username[c]
                 /\ \E job \in Seq(Told) : /\ Len(job) = 2 /\ job[1].tag = "username" /\ job[2] = Head(Jobs(n))
                                           /\ toClient'[c] = toClient[c] \o job
            ELSE toClient' = toClient
<1> DEFINE job == Head(queue[n])
<1>1. /\ n \in Name /\ queue[n] \in Seq(Seq(Told)) /\ queue[n] # <<>> /\ job \in Seq(Told)
      /\ queue' = [queue EXCEPT ![n] = Tail(queue[n])]
      /\ toServer' = toServer /\ closed' = closed
      /\ \A d \in Conn \ {c} : toClient'[d] = toClient[d]
      /\ delivery[c].intact /\ c \notin closed => toClient' = [toClient EXCEPT ![c] = @ \o job]
      /\ ~delivery[c].intact \/ c \in closed => toClient' = toClient
  BY Delivered
<1>2. handler' = handler /\ delivery' = delivery /\ AccountTypes
  BY DEF Deliver, Types
<1>3. n # None /\ Listens(c, n)
  BY <1>1, WireAssumption DEF ConnInv, StageInv, Listens
<1>4. queue'[n] = Tail(queue[n]) /\ \A m \in Name \ {n} : queue'[m] = queue[m]
  BY <1>1, <1>2 DEF AccountTypes
<1>5. Jobs(n) # <<>> /\ Jobs(n)' = Tail(Jobs(n)) /\ Head(Jobs(n)) = job[2]
  BY <1>1, <1>2, <1>4, JobTaken
<1>6. \A m \in Name \ {n} : Jobs(m)' = Jobs(m)
  BY <1>4 DEF Jobs
<1>7. Len(job) = 2 /\ job[1].tag = "username"
  <2>1. GoodJob(job)
    BY <1>1, <1>4, HeadJob
  <2> QED BY <2>1 DEF GoodJob, Source
<1>8. Jobs(n) \in Seq(Said)
  BY <1>1, <1>2, JobsType
<1>9. ASSUME delivery[c].intact, c \notin closed PROVE n = username[c] /\ toClient'[c] = toClient[c] \o job
  <2>1. n = username[c]
    BY <1>3, <1>9, Served
  <2> QED BY <2>1, <1>1, <1>9 DEF Types, WireTypes
<1> HIDE DEF job
<1> QED BY <1>1, <1>2, <1>3, <1>5, <1>6, <1>7, <1>8, <1>9

LEMMA MovedQueue ==
  ASSUME NEW c \in Conn, Types, ConnInv(c), \A m \in Name : JobInv(m), Deliver(c), UNCHANGED client,
         NEW n \in Name, QueueInv(n)
  PROVE  QueueInv(n)' /\ (n = delivery[c].acc => Fine(Head(Jobs(n)), n))
<1>1. CASE n # delivery[c].acc
  <2>1. Jobs(n)' = Jobs(n)
    BY <1>1, Moved
  <2> QED BY <1>1, <2>1 DEF QueueInv, Fine, Whole
<1>2. CASE n = delivery[c].acc
  <2> DEFINE s == Jobs(n)
  <2>1. s \in Seq(Said) /\ s # <<>> /\ Jobs(n)' = Tail(s)
    BY <1>2, Moved
  <2>2. \A k \in DOMAIN s : Fine(s[k], n)
    BY DEF QueueInv
  <2> HIDE DEF s
  <2>3. /\ Head(s) = s[1] /\ 1 \in DOMAIN s
        /\ \A k \in DOMAIN Tail(s) : k + 1 \in DOMAIN s /\ k \in Nat /\ Tail(s)[k] = s[k + 1]
    BY <2>1, TailKeeps
  <2>4. \A k \in DOMAIN Tail(s) : Fine(Tail(s)[k], n)
    BY <2>2, <2>3
  <2> QED BY <2>1, <2>2, <2>3, <2>4 DEF QueueInv, Fine, Whole, s
<1> QED BY <1>1, <1>2

LEMMA MovedFollow ==
  ASSUME NEW c \in Conn, Types, ConnInv(c), \A m \in Name : JobInv(m), Deliver(c), UNCHANGED client,
         NEW s \in Conn, NEW n \in Name, NEW x, NEW a, Follow(s, n, x, a)
  PROVE  LET e == Head(Jobs(n)) IN
         IF n = delivery[c].acc /\ e.tag = "filedata" /\ e.file = x
         THEN e.seg = After(x, a) /\ Follow(s, n, x, After(x, a))'
         ELSE Follow(s, n, x, a)'
<1> DEFINE e == Head(Jobs(n))
<1>1. PICK k, b : Back(n, x, a, k) /\ Front(s, n, x, k, b) /\ At(s, n, x, b)
  BY DEF Follow
<1>2. At(s, n, x, b)'
  BY <1>1 DEF At, Unended, client, user, files
<1>3. Front(s, n, x, k, b)'
  <2>1. handler' = handler /\ toServer' = toServer
    BY Moved
  <2>2. Ahead(s)' = Ahead(s) /\ handler'[s] = handler[s]
    BY <2>1 DEF Ahead
  <2> QED BY <1>1, <2>2, FrontStays
<1>4. ASSUME NEW j, Back(n, x, j, k)' PROVE Follow(s, n, x, j)'
  BY <1>2, <1>3, <1>4 DEF Follow
<1>5. CASE n # delivery[c].acc
  <2>1. Jobs(n)' = Jobs(n)
    BY <1>5, Moved
  <2>2. Back(n, x, a, k)'
    BY <1>1, <2>1 DEF Back, Leads, Of, After
  <2> QED BY <1>4, <1>5, <2>2
<1>6. CASE n = delivery[c].acc
  <2> DEFINE q == Jobs(n)
  <2>1. q \in Seq(Said) /\ q # <<>> /\ Jobs(n)' = Tail(q)
    BY <1>6, Moved
  <2>2. Leads(q, Of(q, x), x, a, k)
    BY <1>1 DEF Back
  <2> HIDE DEF q
  <2>3. IF Head(q).tag = "filedata" /\ Head(q).file = x
        THEN Head(q).seg = After(x, a) /\ Leads(Tail(q), Of(Tail(q), x), x, After(x, a), k)
        ELSE Leads(Tail(q), Of(Tail(q), x), x, a, k)
    BY <2>1, <2>2, OfFrom
  <2>4. \A j : Back(n, x, j, k)' <=> Leads(Tail(q), Of(Tail(q), x), x, j, k)
    BY <2>1 DEF Back, Leads, Of, After
  <2> QED BY <1>4, <1>6, <2>3, <2>4 DEF q
<1> QED BY <1>5, <1>6

\* The client gets the job as the next in its inbox.
LEMMA MovedShows ==
  ASSUME NEW c \in Conn, Types, ConnInv(c), \A m \in Name : JobInv(m) /\ QueueInv(m), InboxInv(c),
         Deliver(c), UNCHANGED client, delivery[c].intact, c \notin closed, NEW n, n = delivery[c].acc
  PROVE  LET e == Head(Jobs(n)) IN
         /\ InboxInv(c)'
         /\ \A x, k : Shows(c, x, k) =>
              IF e.tag = "filedata" /\ e.file = x
              THEN e.seg = After(x, k) => Shows(c, x, After(x, k))'
              ELSE Shows(c, x, k)'
<1> DEFINE e == Head(Jobs(n))
<1>1. /\ n \in Name /\ n = username[c] /\ handler' = handler /\ Jobs(n) \in Seq(Said) /\ Jobs(n) # <<>>
      /\ handler[c].istonextstage
  BY Moved DEF Listens
<1>2. PICK job \in Seq(Told) : /\ Len(job) = 2 /\ job[1].tag = "username" /\ job[2] = e
                               /\ toClient'[c] = toClient[c] \o job
  BY Moved
<1>3. toClient[c] \in Seq(Told \cup [tag : Answers]) /\ UNCHANGED <<username, state, disk, receiver>>
  BY Parts DEF client, user, inbox
<1>4. e \in Said /\ Fine(e, n)
  <2>1. Fine(e, n)
    BY <1>1, MovedQueue
  <2> QED BY <2>1, <1>1
<1> DEFINE s == toClient[c]
           r == toClient'[c]
<1>5. DOMAIN job = {1, 2} /\ Fine(job[1], n) /\ Fine(job[2], n)
  BY <1>2, <1>4, LenProperties DEF Fine
<1>6. s \in Seq(Told \cup [tag : Answers]) /\ r = s \o job
  BY <1>2, <1>3
<1> HIDE DEF s, r, e
<1>7. \A k \in DOMAIN (s \o job) : \/ k \in DOMAIN s /\ (s \o job)[k] = s[k]
                                   \/ k > Len(s) /\ k - Len(s) \in DOMAIN job /\ (s \o job)[k] = job[k - Len(s)]
  BY <1>6, ConcatKeeps
<1>8. \A k \in DOMAIN s : Fine(s[k], n)
  BY <1>1 DEF InboxInv, s
<1>9. \A k \in DOMAIN r : Fine(r[k], n)
  BY <1>5, <1>6, <1>7, <1>8
<1>10. InboxInv(c)'
  BY <1>1, <1>3, <1>9 DEF InboxInv, Fine, Whole, Free, r
<1>11. ASSUME NEW x, NEW k, Shows(c, x, k)
       PROVE  IF e.tag = "filedata" /\ e.file = x
              THEN e.seg = After(x, k) => Shows(c, x, After(x, k))'
              ELSE Shows(c, x, k)'
  <2>1. Leads(s, Of(s, x), x, Pos(c, x), k)
    BY <1>11 DEF Shows, s
  <2>2. \A j : Shows(c, x, j)' <=> Leads(r, Of(r, x), x, Pos(c, x), j)
    BY <1>3 DEF Shows, Leads, Of, After, Pos, r
  <2>3. CASE e.tag = "filedata" /\ e.file = x
    <3>1. ASSUME e.seg = After(x, k) PROVE Leads(r, Of(r, x), x, Pos(c, x), After(x, k))
      <4>1. Of(job, x) = {Len(job)} /\ job[Len(job)].seg = After(x, k) /\ Len(job) # 0
        BY <1>2, <1>5, <2>3, <3>1 DEF Of
      <4>2. After(x, k) \in Nat
        <5>1. e \in [tag : {"filedata"}, arg : Text \cup {None}, file : File, seg : Nat]
          BY <1>4, <2>3 DEF Said
        <5> QED BY <5>1, <3>1
      <4> QED BY <4>1, <4>2, <1>6, <2>1, OfTo
    <3> QED BY <2>2, <2>3, <3>1
  <2>4. CASE ~(e.tag = "filedata" /\ e.file = x)
    <3>1. Of(job, x) = {}
      BY <1>2, <1>5, <2>4 DEF Of
    <3>2. Leads(r, Of(r, x), x, Pos(c, x), k)
      BY <3>1, <1>6, <2>1, OfOn
    <3> QED BY <2>2, <2>4, <3>2
  <2> QED BY <2>3, <2>4
<1> QED BY <1>10, <1>11 DEF e
-----------------------------------------------------------------------------
(* The steps of the server. *)

LEMMA ServerBesideSend ==
  ASSUME NEW c \in Conn, Types, ConnInv(c), Handling(c) \/ Delivering(c), UNCHANGED client, ~crashed,
         NEW d \in Conn \ {c}, SendInv(d)
  PROVE  SendInv(d)' /\ \A n, x, a, b : Front(d, n, x, a, b) => Front(d, n, x, a, b)'
<1>1. Untouched(d)
  BY ServerBeside DEF ConnInv
<1>2. service'[d] = service[d] /\ rf_list'[d] = rf_list[d]
  BY DEF client, user, files
<1> QED BY <1>1, <1>2, BesideSend

\* But for those that are delivered the segments for an account stay in line.
LEMMA ServerFollow ==
  ASSUME WholeReads, Apart, NEW c \in Conn, Types, ConnInv(c), AimInv(c), \A d \in Conn : SendInv(d),
         \A n \in Name : JobInv(n) /\ Len(queue[n]) < Capacity, ~crashed, DOMAIN Registered \subseteq DOMAIN account,
         Handling(c) \/ StartDelivery(c), UNCHANGED client,
         NEW s \in Conn, NEW n \in Knocks[s], NEW x, NEW a, Follow(s, n, x, a)
  PROVE  Follow(s, n, x, a)'
<1>1. CASE Taking(c)
  BY <1>1, TakingFollow
<1>2. CASE Read(c) \/ ReadEnd(c) \/ StartDelivery(c)
  <2>1. PICK k, b : Back(n, x, a, k) /\ Front(s, n, x, k, b) /\ At(s, n, x, b)
    BY DEF Follow
  <2>2. At(s, n, x, b)'
    BY <2>1 DEF At, Unended, client, user, files
  <2>3. queue' = queue /\ ~TakeFileData(c)
    <3>1. queue' = queue
      BY <1>2 DEF Read, ReadEnd, StartDelivery, accounts
    <3>2. handler[c].todo = <<>> \/ handler' = handler
      BY <1>2 DEF Read, ReadEnd, StartDelivery
    <3>3. ASSUME TakeFileData(c) PROVE FALSE
      <4>1. Taking(c) /\ StageInv(c)
        BY <3>3 DEF Taking, ConnInv
      <4>2. handler[c].todo # <<>> /\ handler[c].todo \in Seq(Asked \cup {Escape}) /\ handler'[c].todo = Tail(handler[c].todo)
        BY <4>1, TakingTexts
      <4> DEFINE l == handler[c].todo
      <4>3. l \in Seq(Asked \cup {Escape}) /\ l # <<>> /\ Tail(l) = l
        BY <4>2, <3>2
      <4> HIDE DEF l
      <4>4. Len(Tail(l)) = Len(l) - 1 /\ Len(l) \in Nat
        BY <4>3, TailKeeps
      <4> QED BY <4>3, <4>4
    <3> QED BY <3>1, <3>3
  <2>4. Back(n, x, a, k)'
    <3>1. Jobs(n)' = Jobs(n)
      BY <2>3 DEF Jobs
    <3> QED BY <2>1, <3>1 DEF Back, Leads, Of, After
  <2>5. Front(s, n, x, k, b)'
    <3>0. Handling(c) \/ Delivering(c)
      BY DEF Delivering
    <3>1. CASE s = c
      BY <2>1, <2>3, <3>0, <3>1, ServerSend
    <3>2. CASE s # c
      BY <2>1, <3>0, <3>2, ServerBesideSend
    <3> QED BY <3>1, <3>2
  <2> QED BY <2>2, <2>4, <2>5 DEF Follow
<1> QED BY <1>1, <1>2 DEF Handling, Taking

LEMMA ServerInbox ==
  ASSUME NEW c \in Conn, Types, ConnInv(c), \A m \in Name : JobInv(m) /\ QueueInv(m), \A d \in Conn : InboxInv(d),
         Handling(c) \/ Delivering(c), UNCHANGED client
  PROVE  \A d \in Conn : InboxInv(d)'
<1>1. ASSUME NEW d \in Conn \ {c} PROVE InboxInv(d)'
  <2>1. Untouched(d)
    BY ServerBeside DEF ConnInv
  <2>2. disk'[d] = disk[d] /\ InboxInv(d)
    BY DEF client, inbox
  <2> QED BY <2>1, <2>2 DEF InboxInv, Untouched, Fine, Whole, Free
<1>2. InboxInv(c)'
  <2>1. CASE Handling(c) \/ StartDelivery(c)
    BY <2>1, Answering
  <2>2. CASE Deliver(c) /\ delivery[c].intact /\ c \notin closed
    BY <2>2, MovedShows
  <2>3. CASE Deliver(c) /\ ~(delivery[c].intact /\ c \notin closed)
    <3>1. handler' = handler /\ toClient' = toClient
      BY <2>3, Moved
    <3>2. UNCHANGED <<username, state, disk>>
      BY DEF client, user, inbox
    <3> QED BY <3>1, <3>2 DEF InboxInv, Fine, Whole, Free
  <2> QED BY <2>1, <2>2, <2>3 DEF Delivering
<1> QED BY <1>1, <1>2

LEMMA ServerDisk ==
  ASSUME NEW c \in Conn, Types, ConnInv(c), Handling(c) \/ Delivering(c), UNCHANGED client,
         NEW d \in Conn, InboxInv(d), DiskInv(d)
  PROVE  DiskInv(d)'
<1>1. username' = username /\ disk' = disk /\ receiver' = receiver
  BY DEF client, user, inbox
<1>2. CASE handler[d].istonextstage
  <2>1. \A e \in Conn : handler[e].istonextstage => handler'[e].istonextstage /\ handler'[e].acc = handler[e].acc
    BY StagesStay
  <2>2. ASSUME Alone(d)' PROVE Alone(d)
    BY <1>2, <2>1, <2>2, AloneStays
  <2>3. DiskInv(d)' <=> (Alone(d)' => \A x \in File :
          /\ Grown(disk[d][x], username[d])
          /\ disk[d][x] # <<>> => x \in DOMAIN FileLength /\ (x \in receiver[d].open \/ Len(disk[d][x]) = FileLength[x]))
    BY <1>1 DEF DiskInv, Grown
  <2> QED BY <2>2, <2>3 DEF DiskInv
<1>3. CASE ~handler[d].istonextstage
  BY <1>1, <1>3 DEF InboxInv, DiskInv, Grown
<1> QED BY <1>2, <1>3

LEMMA ServerClosed ==
  ASSUME NEW c \in Conn, Types, ConnInv(c), Handling(c) \/ Delivering(c), UNCHANGED client
  PROVE  closed' = closed
<1>1. StageInv(c)
  BY DEF ConnInv
<1>2. Types'
  BY <1>1, ServerTypes
<1> QED BY <1>2 DEF Types, WireTypes, client

\* Only what is delivered to a client changes the segments it is shown.
LEMMA ServerShows ==
  ASSUME NEW c \in Conn, Types, ConnInv(c), \A m \in Name : JobInv(m), InboxInv(c),
         Handling(c) \/ Delivering(c), UNCHANGED client, NEW d \in Conn,
         ~(d = c /\ Deliver(c) /\ delivery[c].intact /\ c \notin closed)
  PROVE  \A x, k : Shows(d, x, k) => Shows(d, x, k)'
<1>1. receiver' = receiver /\ disk' = disk
  BY DEF client, inbox
<1>2. ASSUME toClient'[d] = toClient[d] PROVE \A x, k : Shows(d, x, k) => Shows(d, x, k)'
  BY <1>1, <1>2 DEF Shows, Leads, Of, After, Pos
<1>3. CASE d # c
  <2>1. Untouched(d)
    BY <1>3, ServerBeside DEF ConnInv
  <2> QED BY <1>2, <2>1 DEF Untouched
<1>4. CASE d = c /\ (Handling(c) \/ StartDelivery(c))
  BY <1>4, Answering
<1>5. CASE d = c /\ Deliver(c)
  <2>1. toClient' = toClient
    BY <1>5, Moved
  <2> QED BY <1>2, <2>1
<1> QED BY <1>3, <1>4, <1>5 DEF Delivering

LEMMA ServerComing ==
  ASSUME NEW c \in Conn, Types, ConnInv(c), ~crashed, \A m \in Name : JobInv(m) /\ QueueInv(m),
         \A d \in Conn : InboxInv(d), \A s \in Conn : \A n \in Knocks[s], x \in Openable : PipeInv(s, n, x),
         Handling(c) \/ Delivering(c), UNCHANGED client, NEW d \in Conn, ComingInv(d)
  PROVE  ComingInv(d)'
<1> SUFFICES ASSUME Alone(d)', d \notin closed', NEW x \in Openable PROVE \E k : Shows(d, x, k)'
  BY DEF ComingInv
<1>1. d \notin closed /\ x \in File
  BY ServerClosed DEF Openable
<1>2. \E k : Shows(d, x, k)
  <2>1. CASE handler[d].istonextstage
    <3>1. \A e \in Conn : handler[e].istonextstage => handler'[e].istonextstage /\ handler'[e].acc = handler[e].acc
      BY StagesStay
    <3>2. Alone(d)
      BY <2>1, <3>1, AloneStays
    <3> QED BY <1>1, <3>2 DEF ComingInv
  <2>2. CASE ~handler[d].istonextstage
    BY <2>2, <1>1, NothingShown
  <2> QED BY <2>1, <2>2
<1>3. CASE ~(d = c /\ Deliver(c) /\ delivery[c].intact /\ c \notin closed)
  BY <1>2, <1>3, ServerShows
<1>4. CASE d = c /\ Deliver(c) /\ delivery[c].intact /\ c \notin closed
  <2>1. PICK n \in Name : n = delivery[c].acc /\ Listens(c, n)
    BY <1>4, Moved
  <2> DEFINE e == Head(Jobs(n))
  <2>2. Fine(e, n)
    BY <1>4, <2>1, MovedQueue
  <2>3. \A y, k : Shows(c, y, k) =>
          IF e.tag = "filedata" /\ e.file = y
          THEN e.seg = After(y, k) => Shows(c, y, After(y, k))'
          ELSE Shows(c, y, k)'
    BY <1>4, <2>1, MovedShows
  <2>4. CASE e.tag = "filedata" /\ e.file = x
    <3>1. PICK s \in Conn : n \in Knocks[s]
      BY <2>2, <2>4 DEF Fine
    <3>2. \A f \in Conn \ {c} : ~Listens(f, n)
      <4>1. \A e1 \in Conn : handler[e1].istonextstage => handler'[e1].istonextstage /\ handler'[e1].acc = handler[e1].acc
        BY StagesStay
      <4>2. Alone(c)
        BY <1>4, <2>1, <4>1, AloneStays DEF Listens
      <4> QED BY <2>1, <4>2 DEF Alone, Listens
    <3>3. PICK k : Shows(c, x, k) /\ Follow(s, n, x, k)
      BY <1>4, <2>1, <3>1, <3>2 DEF PipeInv
    <3>4. e.seg = After(x, k)
      <4>1. n = delivery[c].acc /\ Deliver(c) /\ Follow(s, n, x, k) /\ n \in Name
        BY <1>4, <2>1, <3>3
      <4>0. \A m \in Name : JobInv(m)
        OBVIOUS
      <4> HIDE DEF e
      <4>2. LET h == Head(Jobs(n)) IN
            IF n = delivery[c].acc /\ h.tag = "filedata" /\ h.file = x
            THEN h.seg = After(x, k) /\ Follow(s, n, x, After(x, k))'
            ELSE Follow(s, n, x, k)'
        BY <4>1, <4>0, MovedFollow
      <4> QED BY <4>1, <4>2, <2>4 DEF e
    <3>5. Shows(c, x, After(x, k))'
      BY <2>3, <2>4, <3>3, <3>4
    <3> QED BY <1>4, <3>5
  <2>5. CASE ~(e.tag = "filedata" /\ e.file = x)
    BY <1>2, <1>4, <2>3, <2>5
  <2> QED BY <2>4, <2>5
<1> QED BY <1>3, <1>4

LEMMA ServerPipe ==
  ASSUME WholeReads, Apart, NEW c \in Conn, Types, ConnInv(c), AimInv(c), \A d \in Conn : SendInv(d) /\ InboxInv(d),
         \A n \in Name : JobInv(n) /\ Len(queue[n]) < Capacity /\ QueueInv(n), ~crashed,
         DOMAIN Registered \subseteq DOMAIN account, Handling(c) \/ Delivering(c), UNCHANGED client,
         NEW s \in Conn, NEW n \in Knocks[s], NEW x \in Openable, PipeInv(s, n, x)
  PROVE  PipeInv(s, n, x)'
<1>1. /\ n \in Name /\ x \in File
      /\ \A m \in Name : JobInv(m) /\ QueueInv(m)
      /\ closed' = closed
  BY ClientAssumption, WireAssumption, ServerClosed DEF Openable
<1>2. \A d \in Conn : handler[d].istonextstage => handler'[d].istonextstage /\ handler'[d].acc = handler[d].acc
  BY StagesStay
<1>3. \A d \in Conn : Listens(d, n) => Listens(d, n)'
  BY <1>2 DEF Listens
<1>4. ASSUME Handling(c) \/ StartDelivery(c), ~crashed' PROVE PipeInv(s, n, x)'
  <2>1. \A a : Follow(s, n, x, a) => Follow(s, n, x, a)'
    BY <1>4, ServerFollow
  <2>2. \A d \in Conn : \A y, k : Shows(d, y, k) => Shows(d, y, k)'
    <3>1. Handling(c) \/ Delivering(c)
      OBVIOUS
    <3>2. ASSUME NEW d \in Conn \ {c} PROVE \A y, k : Shows(d, y, k) => Shows(d, y, k)'
      BY <1>1, <3>1, ServerShows
    <3> QED BY <1>1, <1>4, <3>2, Answering
  <2>3. (\A d \in Conn : ~Listens(d, n)') => Follow(s, n, x, 0)'
    BY <1>3, <2>1 DEF PipeInv
  <2>4. ASSUME NEW e \in Conn, Listens(e, n)', \A d \in Conn \ {e} : ~Listens(d, n)', e \notin closed', delivery'[e].intact
        PROVE  \E k : Shows(e, x, k)' /\ Follow(s, n, x, k)'
    <3>1. \A d \in Conn \ {e} : ~Listens(d, n)
      BY <1>3, <2>4
    <3>2. CASE Listens(e, n)
      <4>1. delivery[e].intact
        <5>1. CASE e = c
          BY <2>4, <3>2, <5>1, StagesStay DEF Listens
        <5>2. CASE e # c
          <6>1. Untouched(e)
            BY <5>2, ServerBeside DEF ConnInv
          <6> QED BY <2>4, <6>1 DEF Untouched
        <5> QED BY <5>1, <5>2
      <4>2. \E k : Shows(e, x, k) /\ Follow(s, n, x, k)
        BY <1>1, <2>4, <3>1, <3>2, <4>1 DEF PipeInv
      <4> QED BY <2>1, <2>2, <4>2
    <3>3. CASE ~Listens(e, n)
      <4>1. ~handler[e].istonextstage
        BY <1>2, <2>4, <3>3 DEF Listens
      <4>2. Shows(e, x, 0)
        BY <1>1, <4>1, NothingShown
      <4>3. Follow(s, n, x, 0)
        BY <3>1, <3>3 DEF PipeInv
      <4> QED BY <2>1, <2>2, <4>2, <4>3
    <3> QED BY <3>2, <3>3
  <2> QED BY <2>3, <2>4 DEF PipeInv
<1>5. ASSUME Deliver(c) PROVE PipeInv(s, n, x)'
  <2>1. PICK m \in Name : m = delivery[c].acc /\ Listens(c, m) /\ handler' = handler /\ delivery' = delivery
    BY <1>1, <1>5, Moved
  <2>2. \A d \in Conn : Listens(d, n)' <=> Listens(d, n)
    BY <2>1 DEF Listens
  <2>3. \A a : Follow(s, n, x, a) =>
          LET e == Head(Jobs(n)) IN
          IF n = delivery[c].acc /\ e.tag = "filedata" /\ e.file = x
          THEN e.seg = After(x, a) /\ Follow(s, n, x, After(x, a))'
          ELSE Follow(s, n, x, a)'
    BY <1>1, <1>5, MovedFollow
  <2>4. CASE n # m
    <3>1. \A a : Follow(s, n, x, a) => Follow(s, n, x, a)'
      BY <2>1, <2>3, <2>4
    <3>2. ~Listens(c, n)
      BY <2>1, <2>4 DEF Listens
    <3>3. \A d \in Conn \ {c} : \A k : Shows(d, x, k) => Shows(d, x, k)'
      BY <1>1, ServerShows
    <3> QED BY <1>1, <2>1, <2>2, <3>1, <3>2, <3>3 DEF PipeInv
  <2>5. CASE n = m
    <3>1. ASSUME delivery[c].intact, c \notin closed, NEW k, Shows(c, x, k), Follow(s, n, x, k)
          PROVE  \E j : Shows(c, x, j)' /\ Follow(s, n, x, j)'
      <4> DEFINE e == Head(Jobs(n))
      <4>1. IF e.tag = "filedata" /\ e.file = x
            THEN e.seg = After(x, k) /\ Follow(s, n, x, After(x, k))'
            ELSE Follow(s, n, x, k)'
        BY <2>1, <2>3, <2>5, <3>1
      <4>2. IF e.tag = "filedata" /\ e.file = x
            THEN e.seg = After(x, k) => Shows(c, x, After(x, k))'
            ELSE Shows(c, x, k)'
        BY <1>1, <1>5, <2>1, <2>5, <3>1, MovedShows
      <4> QED BY <4>1, <4>2
    <3> QED BY <1>1, <2>1, <2>2, <2>5, <3>1 DEF PipeInv
  <2> QED BY <2>4, <2>5
<1> QED BY <1>4, <1>5 DEF Delivering, PipeInv

\* No queue is at its limit, where a job would be dropped.
Room == \A n \in Name : Len(queue[n]) < Capacity

LEMMA ServerFile ==
  ASSUME WholeReads, Apart, IInv, SignInv, TargetInv, FileInv, Room, ~crashed,
         NEW c \in Conn, Handling(c) \/ Delivering(c), UNCHANGED client
  PROVE  FileInv'
<1>0. ServiceType'
  BY DEF ServiceType, FileInv, client, user
<1>1. /\ Types /\ ConnInv(c) /\ StageInv(c) /\ AimInv(c) /\ Knocks[c] \subseteq DOMAIN account
      /\ \A n \in Name : JobInv(n) /\ Len(queue[n]) < Capacity /\ QueueInv(n)
      /\ \A d \in Conn : SendInv(d) /\ InboxInv(d) /\ DiskInv(d) /\ ComingInv(d)
      /\ DOMAIN Registered \subseteq DOMAIN account
      /\ \A s \in Conn : \A n \in Knocks[s], x \in Openable : PipeInv(s, n, x)
  BY DEF IInv, SignInv, TargetInv, FileInv, Room, ConnInv, Apart
<1>2. DOMAIN Registered \subseteq DOMAIN account'
  BY <1>1, ServerBeside DEF Grows
<1>3. ASSUME NEW d \in Conn PROVE SendInv(d)'
  BY <1>1, ServerSend, ServerBesideSend
<1>4. ASSUME NEW d \in Conn PROVE InboxInv(d)' /\ DiskInv(d)'
  BY <1>1, ServerInbox, ServerDisk
<1>5. ASSUME NEW d \in Conn PROVE ComingInv(d)'
  BY <1>1, ServerComing
<1>6. ASSUME NEW n \in Name PROVE QueueInv(n)'
  <2>1. CASE Taking(c)
    BY <1>1, <2>1, TakingFine DEF SendInv
  <2>2. CASE Deliver(c)
    BY <1>1, <2>2, MovedQueue
  <2>3. CASE Read(c) \/ ReadEnd(c) \/ StartDelivery(c)
    <3>1. Jobs(n)' = Jobs(n)
      BY <2>3 DEF Read, ReadEnd, StartDelivery, accounts, Jobs
    <3> QED BY <1>1, <3>1 DEF QueueInv, Fine, Whole
  <2> QED BY <2>1, <2>2, <2>3 DEF Handling, Delivering, Taking
<1>7. ASSUME NEW s \in Conn, NEW n \in Knocks[s], NEW x \in Openable PROVE PipeInv(s, n, x)'
  BY <1>1, ServerPipe
<1> QED BY <1>0, <1>2, <1>3, <1>4, <1>5, <1>6, <1>7 DEF FileInv
-----------------------------------------------------------------------------
(* What a client sends. *)

\* The segments of x from s to n that are on their way to the queue of n.
Stream(s, n, x, a) == \E b : Front(s, n, x, a, b) /\ At(s, n, x, b)

LEMMA SaysNothing ==
  ASSUME NEW c \in Conn, PostInv(c), handler' = handler, toServer'[c] = toServer[c]
  PROVE  /\ PostInv(c)' /\ Ahead(c)' = Ahead(c)
         /\ \A n, x, a, b : Front(c, n, x, a, b) => Front(c, n, x, a, b)'
<1>1. Ahead(c)' = Ahead(c) /\ handler'[c].toWhoseAcc = handler[c].toWhoseAcc
  BY DEF Ahead
<1>2. PostInv(c)'
  BY <1>1 DEF PostInv, Posted, Target, Whole
<1>3. ASSUME NEW n, NEW x, NEW a, NEW b, Front(c, n, x, a, b) PROVE Front(c, n, x, a, b)'
  BY <1>1, <1>3 DEF Front, After, Leads, For, Of, Target
<1> QED BY <1>1, <1>2, <1>3

\* What is sent comes behind all that waits to be taken.
LEMMA Says ==
  ASSUME NEW c \in Conn, Types, NEW T, NEW t \in Seq(T), handler' = handler, toServer'[c] = toServer[c] \o t
  PROVE  Ahead(c)' = Ahead(c) \o t
<1> DEFINE s == handler[c].todo
           u == toServer[c]
<1>1. s \in Seq(Asked \cup {Escape} \cup T) /\ u \in Seq(Asked \cup {Escape} \cup T) /\ t \in Seq(Asked \cup {Escape} \cup T)
  <2>1. s \in Seq(Asked \cup {Escape}) /\ u \in Seq(Asked \cup {Escape})
    BY AheadType
  <2> HIDE DEF s, u
  <2> QED BY <2>1, SeqMonotonic
<1>2. Ahead(c)' = s \o (u \o t) /\ Ahead(c) = s \o u
  BY DEF Ahead
<1> HIDE DEF s, u
<1>3. s \o (u \o t) = (s \o u) \o t
  BY <1>1, ConcatAssociative
<1> QED BY <1>2, <1>3

LEMMA SaysOther ==
  ASSUME NEW c \in Conn, Types, PostInv(c), NEW T, NEW t \in Seq(T), Free(t, {"filedata"}),
         handler' = handler, toServer'[c] = toServer[c] \o t
  PROVE  /\ PostInv(c)' /\ (Free(Ahead(c), {"filedata"}) => Free(Ahead(c)', {"filedata"}))
         /\ \A n, x, a, b : Front(c, n, x, a, b) => Front(c, n, x, a, b)'
<1> DEFINE s == Ahead(c)
           r == Ahead(c)'
           p == handler[c].toWhoseAcc
<1>1. r = s \o t /\ s \in Seq(Asked \cup {Escape}) /\ handler'[c].toWhoseAcc = p
  BY Says, AheadType
<1>2. Posted(s, p, c)
  BY DEF PostInv
<1> HIDE DEF s, r, p
<1>3. Posted(r, p, c)
  <2>1. \A k \in DOMAIN t : t[k].tag = "filedata" =>
          k > 1 /\ t[k - 1].tag = "username" /\ t[k - 1].arg \in Knocks[c] /\ Whole(t[k], c, t[k - 1].arg)
    BY DEF Free
  <2> QED BY <1>1, <1>2, <2>1, PostedJoin
<1>4. PostInv(c)'
  BY <1>1, <1>3 DEF PostInv, Posted, Target, Whole, r
<1>5. Free(s, {"filedata"}) => Free(r, {"filedata"})
  <2>1. Free(s, {"filedata"}) /\ Free(t, {"filedata"}) => Free(s \o t, {"filedata"})
    BY <1>1, ConcatKeeps
  <2> QED BY <1>1, <2>1
<1>6. ASSUME NEW n, NEW x, NEW a, NEW b, Front(c, n, x, a, b) PROVE Front(c, n, x, a, b)'
  <2>1. Leads(s, For(s, p, n, x), x, a, b)
    BY <1>6 DEF Front, s, p
  <2>2. Of(t, x) = {}
    BY DEF Free, Of
  <2>3. Leads(r, For(r, p, n, x), x, a, b)
    BY <1>1, <2>1, <2>2, ForOn
  <2>4. Front(c, n, x, a, b)' <=> Leads(r, For(r, p, n, x), x, a, b)
    BY <1>1 DEF Front, After, Leads, For, Of, Target, r
  <2> QED BY <2>3, <2>4
<1> QED BY <1>4, <1>5, <1>6 DEF r, s

\* Who is sending no files has none that is not at its end.
LEMMA NothingUnended ==
  ASSUME NEW c \in Conn, state[c] \notin {"files", "remove"}, state'[c] \notin {"files", "remove"},
         NEW n, NEW x, NEW b
  PROVE  (At(c, n, x, b) <=> b = 0) /\ (At(c, n, x, b)' <=> b = 0)
<1>1. Unended(c, n, x) = {} /\ Unended(c, n, x)' = {}
  BY DEF Unended
<1> QED BY <1>1 DEF At

\* The steps of a client that have nothing to do with the files it sends.
Talking(c) == \/ AskSignUp(c) \/ AskLogIn(c) \/ Answered(c) \/ Ending(c) \/ Knocking(c) \/ FriendIs(c)
              \/ Confirm(c) \/ TypeMessage(c) \/ (EndMessage(c) /\ ~StickyEOF) \/ LogOut(c)

LEMMA TalkingSays ==
  ASSUME NEW c \in Conn, Types, Talking(c), UNCHANGED server
  PROVE  \/ toServer'[c] = toServer[c]
         \/ \E T : \E t \in Seq(T) : Free(t, {"filedata"}) /\ toServer'[c] = toServer[c] \o t
<1>1. toServer \in [Conn -> Seq(Asked)]
  BY DEF Types, WireTypes
<1>2. CASE AskSignUp(c) \/ AskLogIn(c)
  <2>1. PICK g \in {"signup", "login"}, n \in Name, w \in Password :
          /\ state' = [state EXCEPT ![c] = g]
          /\ username' = [username EXCEPT ![c] = n] /\ password' = [password EXCEPT ![c] = w]
          /\ toServer' = [toServer EXCEPT
                            ![c] = @ \o <<Tag(g), Command("username", n), Command("password", w)>>]
          /\ toClient' = toClient /\ dst_usr' = dst_usr
    BY <1>2, AskTypes
  <2> DEFINE t == <<Tag(g), Command("username", n), Command("password", w)>>
             T == {Tag(g), Command("username", n), Command("password", w)}
  <2>2. t \in Seq(T) /\ Free(t, {"filedata"})
    BY DEF Free, Tag, Command
  <2>3. toServer'[c] = toServer[c] \o t
    BY <1>1, <2>1
  <2> QED BY <2>2, <2>3
<1>3. CASE Knocking(c)
  <2>1. PICK n \in Person : toServer' = [toServer EXCEPT ![c] = @ \o <<Command("knock", n)>>]
    BY <1>3, KnockingTypes
  <2> DEFINE t == <<Command("knock", n)>>
  <2>2. t \in Seq({Command("knock", n)}) /\ Free(t, {"filedata"})
    BY DEF Free, Command
  <2>3. toServer'[c] = toServer[c] \o t
    BY <1>1, <2>1
  <2> QED BY <2>2, <2>3
<1>4. CASE TypeMessage(c)
  <2> DEFINE u == Command("username", dst_usr[c])
             m == Command("message", Typed(c))
             t == <<u, m>>
  <2>1. t \in Seq({u, m}) /\ Free(t, {"filedata"})
    BY DEF Free, Command
  <2>2. toServer'[c] = toServer[c] \o t
    BY <1>4, TypedTexts
  <2> QED BY <2>1, <2>2
<1>5. CASE LogOut(c)
  <2> DEFINE t == <<Tag("logout")>>
  <2>1. t \in Seq({Tag("logout")}) /\ Free(t, {"filedata"})
    BY DEF Free, Tag
  <2>2. toServer'[c] = toServer[c] \o t
    BY <1>1, <1>5 DEF LogOut, ClientSends
  <2> QED BY <2>1, <2>2
<1>6. CASE Answered(c) \/ Ending(c) \/ FriendIs(c) \/ Confirm(c) \/ (EndMessage(c) /\ ~StickyEOF)
  <2>1. CASE Answered(c)
    BY <2>1, AnsweredTypes
  <2>2. CASE Ending(c)
    BY <2>2, EndingTypes
  <2>3. CASE FriendIs(c)
    BY <2>3, FriendIsTypes DEF wire
  <2>4. CASE Confirm(c) \/ (EndMessage(c) /\ ~StickyEOF)
    BY <2>4 DEF Confirm, EndMessage, wire
  <2> QED BY <1>6, <2>1, <2>2, <2>3, <2>4
<1> QED BY <1>2, <1>3, <1>4, <1>5, <1>6 DEF Talking

LEMMA TalkingAsk ==
  ASSUME Lasting, NEW c \in Conn, Types, ServiceType, AskInv(c), LastInv(c), ~crashed, Talking(c), UNCHANGED server
  PROVE  /\ AskInv(c)' /\ state[c] \notin {"files", "remove"} /\ state'[c] \notin {"files", "remove"}
         /\ state[c] \in InSession => state'[c] \in InSession
<1>1. state \in [Conn -> Offered \cup InSession \cup {"exited"}] /\ dst_usr \in [Conn -> Person]
  BY DEF Types, UserTypes
<1>2. CASE AskSignUp(c) \/ AskLogIn(c)
  <2>1. state[c] = "offline" /\ state'[c] \in {"signup", "login"}
    BY <1>1, <1>2, AskTypes
  <2>2. UNCHANGED <<dst_usr, service, rf_list>>
    BY <1>2 DEF AskSignUp, AskLogIn, files
  <2> QED BY <2>1, <2>2 DEF AskInv, Distinct, InSession
<1>3. CASE Answered(c)
  <2>1. state[c] \in {"signup", "login"} /\ state'[c] \in {"offline", "online"}
    BY <1>1, <1>3, AnsweredTypes
  <2>2. UNCHANGED <<dst_usr, service, rf_list>>
    BY <1>3 DEF Answered, files, user
  <2> QED BY <2>1, <2>2 DEF AskInv, Distinct, InSession
<1>4. CASE Ending(c)
  <2>1. state'[c] = "exited" /\ UNCHANGED <<dst_usr, service>>
    BY <1>1, <1>4, EndingTypes DEF user
  <2>2. UNCHANGED rf_list
    BY <1>4 DEF Ending, Quit, RecvFails, SendFails, Kill, Join, RemoveFile, files
  <2>3. state[c] = "offline"
    <3>1. CASE Quit(c)
      BY <3>1 DEF Quit, Goto
    <3>2. CASE RecvFails(c) \/ SendFails(c)
      BY <3>2 DEF RecvFails, SendFails
    <3>3. CASE Kill(c)
      BY <3>3 DEF Kill, Lasting
    <3>4. CASE Join(c)
      BY <3>4 DEF Join, Goto, LastInv, InSession, Types, InboxTypes
    <3>5. CASE RemoveFile(c) /\ rf_ptr[c] # 1
      BY <3>5 DEF RemoveFile, Goto, LastInv
    <3> QED BY <1>4, <3>1, <3>2, <3>3, <3>4, <3>5 DEF Ending
  <2> QED BY <2>1, <2>2, <2>3 DEF AskInv, Distinct, InSession
<1>5. CASE Knocking(c)
  <2>1. state[c] \in {"online", "typing"} /\ state'[c] = "knock"
    BY <1>1, <1>5, KnockingTypes
  <2>2. UNCHANGED rf_list
    BY <1>5 DEF Knocking, AskFriend, EndMessage, files
  <2>3. service'[c] \in {"m", "f"} /\ (service'[c] = "f" => dst_usr'[c] \in Knocks[c])
    <3>1. CASE AskFriend(c)
      <4>1. PICK n \in Knocks[c], v \in {"m", "f"} : dst_usr' = [dst_usr EXCEPT ![c] = n] /\ service' = [service EXCEPT ![c] = v]
        BY <3>1 DEF AskFriend, Knock
      <4> QED BY <4>1, <1>1 DEF ServiceType
    <3>2. CASE EndMessage(c) /\ StickyEOF
      <4>1. service' = [service EXCEPT ![c] = "m"]
        BY <3>2 DEF EndMessage, Knock
      <4> QED BY <4>1 DEF ServiceType
    <3> QED BY <1>5, <3>1, <3>2 DEF Knocking
  <2> QED BY <2>1, <2>2, <2>3 DEF AskInv, Distinct, InSession
<1>6. CASE FriendIs(c)
  <2>1. state[c] = "knock" /\ state'[c] = IF service[c] = "m" THEN "confirm" ELSE "choose"
    BY <1>1, <1>6 DEF FriendIs, Goto
  <2>2. UNCHANGED <<dst_usr, service, rf_list>>
    BY <1>6 DEF FriendIs, files, user
  <2> QED BY <2>1, <2>2 DEF AskInv, Distinct, InSession
<1>7. CASE Confirm(c) \/ TypeMessage(c) \/ (EndMessage(c) /\ ~StickyEOF) \/ LogOut(c)
  <2>1. UNCHANGED <<dst_usr, service, rf_list>>
    BY <1>7 DEF Confirm, TypeMessage, EndMessage, LogOut, files, user
  <2>2. state[c] \in {"confirm", "typing", "online"} /\ state'[c] \in {"typing", "online", "join"}
    BY <1>1, <1>7 DEF Confirm, TypeMessage, EndMessage, LogOut, Goto
  <2> QED BY <2>1, <2>2 DEF AskInv, Distinct, InSession
<1> QED BY <1>2, <1>3, <1>4, <1>5, <1>6, <1>7 DEF Talking

LEMMA TalkingSend ==
  ASSUME Lasting, NEW c \in Conn, Types, ServiceType, SendInv(c), LastInv(c), ~crashed, Talking(c), UNCHANGED server
  PROVE  SendInv(c)' /\ \A n, x, a : Stream(c, n, x, a) => Stream(c, n, x, a)'
<1>1. /\ AskInv(c)' /\ state[c] \notin {"files", "remove"} /\ state'[c] \notin {"files", "remove"}
      /\ state[c] \in InSession => state'[c] \in InSession
  BY TalkingAsk DEF SendInv
<1>2. handler' = handler /\ PostInv(c) /\ HeldInv(c)
  BY DEF server, SendInv
<1>3. /\ PostInv(c)' /\ (Free(Ahead(c), {"filedata"}) => Free(Ahead(c)', {"filedata"}))
      /\ \A n, x, a, b : Front(c, n, x, a, b) => Front(c, n, x, a, b)'
  <2>1. CASE toServer'[c] = toServer[c]
    BY <1>2, <2>1, SaysNothing
  <2>2. CASE \E T : \E t \in Seq(T) : Free(t, {"filedata"}) /\ toServer'[c] = toServer[c] \o t
    BY <1>2, <2>2, SaysOther
  <2> QED BY <2>1, <2>2, TalkingSays
<1>4. HeldInv(c)'
  BY <1>1, <1>2, <1>3 DEF HeldInv
<1>5. ASSUME NEW n, NEW x, NEW a, Stream(c, n, x, a) PROVE Stream(c, n, x, a)'
  BY <1>1, <1>3, <1>5, NothingUnended DEF Stream
<1> QED BY <1>1, <1>3, <1>4, <1>5 DEF SendInv

\* The list of files is made, has come to its end, or loses its first file.
LEMMA ListSend ==
  ASSUME Lasting, Apart, NEW c \in Conn, Types, SendInv(c), LastInv(c), UNCHANGED server,
         ChooseFiles(c) \/ FilesSent(c) \/ (RemoveFile(c) /\ rf_ptr[c] = 1)
  PROVE  SendInv(c)' /\ \A n, x, a : Stream(c, n, x, a) => Stream(c, n, x, a)'
<1> DEFINE l == rf_list[c]
           m == rf_list'[c]
<1>1. /\ DOMAIN rf_list = Conn /\ DOMAIN rf_ptr = Conn /\ DOMAIN state = Conn /\ handler' = handler
      /\ l \in Seq([filename : File, datagram_cnt : Nat])
  BY DEF Types, FileTypes, UserTypes, server
<1>2. UNCHANGED <<wire, user>> /\ state[c] \in {"choose", "files", "remove"} /\ state'[c] \in {"files", "online"}
  BY <1>1 DEF ChooseFiles, FilesSent, RemoveFile, Goto
<1>3. ASSUME ChooseFiles(c)
      PROVE  Distinct(m) /\ \A n, x, b : At(c, n, x, b) => At(c, n, x, b)'
  <2>1. PICK f \in FileLists : rf_list' = [rf_list EXCEPT ![c] = Inserted(f)]
    BY <1>3 DEF ChooseFiles
  <2>2. state[c] = "choose" /\ state'[c] = "files" /\ m = Inserted(f)
    BY <1>1, <1>3, <2>1 DEF ChooseFiles, Goto
  <2>3. Distinct(m) /\ m \in Seq(Unsent)
    BY <2>2, ClientAssumption, WireAssumption, InsertedUnsent DEF Apart
  <2>4. \A k \in DOMAIN m : m[k].datagram_cnt = 1
    <3>1. \A k \in DOMAIN m : m[k] \in Unsent
      <4> HIDE DEF m
      <4> QED BY <2>3, ElementOfSeq, LenProperties
    <3> QED BY <3>1 DEF Unsent
  <2>5. ASSUME NEW n, NEW x, NEW b, At(c, n, x, b) PROVE At(c, n, x, b)'
    <3>1. b = 0
      BY <2>2, <2>5 DEF At, Unended
    <3>2. Unended(c, n, x)' \subseteq DOMAIN m
      BY DEF Unended
    <3>3. CASE Unended(c, n, x)' = {}
      BY <3>1, <3>3 DEF At
    <3>4. CASE Unended(c, n, x)' # {}
      <4>1. PICK k \in Unended(c, n, x)' : TRUE
        BY <3>4
      <4>2. b = m[k].datagram_cnt - 1
        BY <2>4, <3>1, <3>2, <4>1
      <4> QED BY <3>4, <4>1, <4>2 DEF At
    <3> QED BY <3>3, <3>4
  <2> QED BY <2>3, <2>5
<1>4. ASSUME FilesSent(c)
      PROVE  Distinct(m) /\ \A n, x, b : At(c, n, x, b) => At(c, n, x, b)'
  <2>1. l = <<>> /\ m = l /\ state'[c] = "online"
    BY <1>1, <1>4 DEF FilesSent, Goto, files
  <2>2. \A n, x : Unended(c, n, x) = {} /\ Unended(c, n, x)' = {}
    BY <2>1 DEF Unended
  <2> QED BY <2>1, <2>2 DEF At, SendInv, AskInv
<1>5. ASSUME RemoveFile(c), rf_ptr[c] = 1
      PROVE  Distinct(m) /\ \A n, x, b : At(c, n, x, b) => At(c, n, x, b)'
  <2>1. m = Tail(l) /\ state[c] = "remove" /\ state'[c] = "files" /\ dst_usr' = dst_usr
    BY <1>1, <1>2, <1>5 DEF RemoveFile, Goto, user
  <2>2. CASE l = <<>>
    <3>1. m = <<>>
      BY <2>1, <2>2
    <3>2. \A n, x : Unended(c, n, x) = {} /\ Unended(c, n, x)' = {}
      BY <2>2, <3>1 DEF Unended
    <3> QED BY <3>1, <3>2 DEF At, Distinct
  <2>3. CASE l # <<>>
    <3> DEFINE s == rf_list[c]
    <3>1. /\ \A k \in DOMAIN m : k + 1 \in DOMAIN s /\ k \in Nat /\ m[k] = s[k + 1]
          /\ DOMAIN m = 1 .. Len(s) - 1 /\ DOMAIN s = 1 .. Len(s) /\ Len(s) \in Nat
      <4> HIDE DEF s
      <4>1. s \in Seq([filename : File, datagram_cnt : Nat]) /\ s # <<>> /\ m = Tail(s)
        BY <1>1, <2>1, <2>3 DEF s
      <4> HIDE DEF m
      <4>2. /\ Tail(s) \in Seq([filename : File, datagram_cnt : Nat]) /\ Len(Tail(s)) = Len(s) - 1
            /\ \A k \in DOMAIN Tail(s) : k + 1 \in DOMAIN s /\ k \in Nat /\ Tail(s)[k] = s[k + 1]
        BY <4>1, TailKeeps
      <4> QED BY <4>1, <4>2, LenProperties
    <3>2. Distinct(s)
      BY DEF SendInv, AskInv
    <3>3. Distinct(m)
      <4> HIDE DEF s, m
      <4> QED BY <3>1, <3>2 DEF Distinct
    <3>4. ASSUME NEW n, NEW x, NEW b, At(c, n, x, b) PROVE At(c, n, x, b)'
      <4>1. /\ Unended(c, n, x) = {k \in DOMAIN s : s[k].filename = x /\ dst_usr[c] = n /\ k # 1}
            /\ Unended(c, n, x)' = {k \in DOMAIN m : m[k].filename = x /\ dst_usr[c] = n}
        BY <1>5, <2>1 DEF Unended
      <4>2. /\ \A k \in Unended(c, n, x) : k - 1 \in Unended(c, n, x)' /\ m[k - 1].datagram_cnt = s[k].datagram_cnt
            /\ \A k \in Unended(c, n, x)' : k + 1 \in Unended(c, n, x)
        <5> HIDE DEF s, m
        <5>1. \A k \in DOMAIN s : k # 1 => k - 1 \in DOMAIN m /\ (k - 1) + 1 = k
          BY <3>1
        <5>2. \A k \in DOMAIN m : k + 1 # 1
          BY <3>1
        <5> QED BY <3>1, <4>1, <5>1, <5>2
      <4>3. CASE Unended(c, n, x) = {}
        <5>1. Unended(c, n, x)' = {}
          BY <4>2, <4>3
        <5> QED BY <3>4, <4>3, <5>1 DEF At
      <4>4. CASE Unended(c, n, x) # {}
        <5>1. PICK k \in Unended(c, n, x) : b = s[k].datagram_cnt - 1
          BY <3>4, <4>4 DEF At
        <5>2. k - 1 \in Unended(c, n, x)' /\ b = m[k - 1].datagram_cnt - 1
          BY <4>2, <5>1
        <5> QED BY <5>2 DEF At
      <4> QED BY <4>3, <4>4
    <3> QED BY <3>3, <3>4
  <2> QED BY <2>2, <2>3
<1>6. AskInv(c)'
  <2>1. Distinct(m)
    BY <1>3, <1>4, <1>5
  <2>2. UNCHANGED <<service, dst_usr>>
    BY <1>2 DEF user
  <2>3. Distinct(rf_list[c])'
    BY <2>1 DEF Distinct
  <2> QED BY <1>2, <2>2, <2>3 DEF AskInv, SendInv
<1>7. PostInv(c)' /\ \A n, x, a, b : Front(c, n, x, a, b) => Front(c, n, x, a, b)'
  <2>1. toServer'[c] = toServer[c] /\ PostInv(c)
    BY <1>2 DEF wire, SendInv
  <2> QED BY <1>1, <2>1, SaysNothing
<1>8. HeldInv(c)'
  BY <1>2 DEF HeldInv, InSession
<1>9. ASSUME NEW n, NEW x, NEW a, Stream(c, n, x, a) PROVE Stream(c, n, x, a)'
  BY <1>3, <1>4, <1>5, <1>7, <1>9 DEF Stream
<1> QED BY <1>6, <1>7, <1>8, <1>9 DEF SendInv

\* A segment comes behind those its client has sent.
LEMMA SegmentSays ==
  ASSUME NEW c \in Conn, Types, PostInv(c), NEW p \in Knocks[c], NEW f, NEW k \in Nat, NEW text,
         Whole(FileData(f, k, text), c, p), handler' = handler,
         toServer'[c] = toServer[c] \o <<Command("username", p), FileData(f, k, text)>>
  PROVE  /\ PostInv(c)'
         /\ \A n, x, a, b : Front(c, n, x, a, b) =>
              IF n = p /\ x = f THEN k = After(x, b) => Front(c, n, x, a, k)' ELSE Front(c, n, x, a, b)'
<1> DEFINE u == Command("username", p)
           g == FileData(f, k, text)
           t == <<u, g>>
           s == Ahead(c)
           r == Ahead(c)'
           q == handler[c].toWhoseAcc
<1>1. t \in Seq({u, g}) /\ Len(t) = 2 /\ DOMAIN t = {1, 2} /\ t[1] = u /\ t[2] = g
  <2>1. t \in Seq({u, g}) /\ Len(t) = 2 /\ t[1] = u /\ t[2] = g
    OBVIOUS
  <2> HIDE DEF t
  <2>2. DOMAIN t = 1 .. 2
    BY <2>1, LenProperties
  <2> QED BY <2>1, <2>2
<1>2. u.tag = "username" /\ u.arg = p /\ g.tag = "filedata" /\ g.file = f /\ g.seg = k /\ Whole(g, c, p)
  BY DEF Command, FileData
<1>3. r = s \o t /\ s \in Seq(Asked \cup {Escape}) /\ handler'[c].toWhoseAcc = q
  <2>1. toServer'[c] = toServer[c] \o t
    OBVIOUS
  <2> HIDE DEF t
  <2> QED BY <1>1, <2>1, Says, AheadType
<1>4. Posted(s, q, c)
  BY DEF PostInv
<1> HIDE DEF s, r, q, t, u, g
<1>5. PostInv(c)'
  <2>1. \A j \in DOMAIN t : t[j].tag = "filedata" =>
          j > 1 /\ t[j - 1].tag = "username" /\ t[j - 1].arg \in Knocks[c] /\ Whole(t[j], c, t[j - 1].arg)
    <3>1. t[1].tag = "username" /\ t[1].arg = p /\ Whole(t[2], c, p)
      BY <1>1, <1>2
    <3>2. ASSUME NEW j \in {1, 2}, t[j].tag = "filedata" PROVE j = 2 /\ j > 1 /\ j - 1 = 1
      BY <3>1, <3>2
    <3> QED BY <1>1, <3>1, <3>2
  <2>2. Posted(r, q, c)
    BY <1>1, <1>3, <1>4, <2>1, PostedJoin
  <2> QED BY <1>3, <2>2 DEF PostInv, Posted, Target, Whole, r
<1>6. ASSUME NEW n, NEW x, NEW a, NEW b, Front(c, n, x, a, b)
      PROVE  IF n = p /\ x = f THEN k = After(x, b) => Front(c, n, x, a, k)' ELSE Front(c, n, x, a, b)'
  <2>1. Leads(s, For(s, q, n, x), x, a, b)
    BY <1>6 DEF Front, s, q
  <2>2. \A d : Front(c, n, x, a, d)' <=> Leads(r, For(r, q, n, x), x, a, d)
    BY <1>3 DEF Front, After, Leads, For, Of, Target, r
  <2>3. CASE n = p /\ x = f
    <3>1. ASSUME k = After(x, b) PROVE Leads(r, For(r, q, n, x), x, a, After(x, b))
      <4>1. Sending(t, n, x, After(x, b)) /\ After(x, b) \in Nat
        BY <1>1, <1>2, <2>3, <3>1 DEF Sending
      <4> QED BY <1>1, <1>3, <2>1, <4>1, ForTo
    <3> QED BY <2>2, <2>3, <3>1
  <2>4. CASE ~(n = p /\ x = f)
    <3>1. \A j \in Of(t, x) : j > 1 /\ t[j - 1].arg # n
      <4>1. \A j \in Of(t, x) : j = 2 /\ x = f
        BY <1>1, <1>2 DEF Of
      <4> QED BY <1>1, <1>2, <2>4, <4>1
    <3>2. t \in Seq({u, g}) /\ s \in Seq(Asked \cup {Escape}) /\ r = s \o t
      BY <1>1, <1>3
    <3>3. Leads(r, For(r, q, n, x), x, a, b)
      BY <2>1, <3>1, <3>2, ForOn
    <3> QED BY <2>2, <2>4, <3>3
  <2> QED BY <2>3, <2>4
<1> QED BY <1>5, <1>6

LEMMA SegmentSend ==
  ASSUME Lasting, NEW c \in Conn, Types, SendInv(c), LastInv(c), UNCHANGED server, SendSegment(c) \/ SendEnd(c)
  PROVE  SendInv(c)' /\ \A n, x, a : Stream(c, n, x, a) => Stream(c, n, x, a)'
<1>1. /\ DOMAIN rf_list = Conn /\ DOMAIN state = Conn /\ toServer \in [Conn -> Seq(Asked)] /\ handler' = handler
      /\ rf_list[c] \in Seq([filename : File, datagram_cnt : Nat]) /\ state[c] = "files" /\ rf_list[c] # <<>>
      /\ rf_ptr[c] \in 1 .. Len(rf_list[c]) /\ UNCHANGED user
  BY DEF Types, FileTypes, UserTypes, WireTypes, server, SendSegment, SendEnd, Goto
<1>2. PICK l, i, p : l = rf_list[c] /\ i = rf_ptr[c] /\ p = dst_usr[c]
  OBVIOUS
<1> DEFINE f == l[i].filename
           v == l[i].datagram_cnt
           m == rf_list'[c]
<1>3. /\ i \in DOMAIN l /\ f \in DOMAIN FileLength /\ FileLength[f] \in Nat
      /\ v \in Nat /\ v >= 1 /\ v <= FileLength[f] + 1
  <2>1. i \in DOMAIN l
    BY <1>1, <1>2, LenProperties
  <2>2. l[i] \in [filename : File, datagram_cnt : Nat]
    BY <1>1, <1>2, <2>1, ElementOfSeq, LenProperties
  <2>3. f \in DOMAIN FileLength /\ v \in 1 .. FileLength[f] + 1
    BY <1>2, <2>1 DEF LastInv, Round
  <2> QED BY <2>1, <2>2, <2>3, ClientAssumption, WireAssumption
<1>4. p \in Knocks[c] /\ Distinct(l) /\ PostInv(c)
  BY <1>1, <1>2 DEF SendInv, AskInv
<1>5. ASSUME NEW k \in Nat, NEW text, Whole(FileData(f, k, text), c, p),
             ClientSends(c, <<Command("username", p), FileData(f, k, text)>>)
      PROVE  /\ PostInv(c)'
             /\ \A n, x, a, b : Front(c, n, x, a, b) =>
                  IF n = p /\ x = f THEN k = After(x, b) => Front(c, n, x, a, k)' ELSE Front(c, n, x, a, b)'
  <2>1. toServer'[c] = toServer[c] \o <<Command("username", p), FileData(f, k, text)>>
    BY <1>1, <1>5 DEF ClientSends
  <2> HIDE DEF f
  <2> QED BY <1>1, <1>4, <1>5, <2>1, SegmentSays
<1>6. \A j \in DOMAIN l : l[j].filename = f => j = i
  BY <1>3, <1>4 DEF Distinct
<1>7. CASE SendSegment(c)
  <2>1. /\ v <= FileLength[f] /\ ClientSends(c, <<Command("username", p), FileData(f, v, [by |-> c, to |-> p, n |-> v])>>)
        /\ m = [l EXCEPT ![i].datagram_cnt = @ + 1] /\ state' = state
    BY <1>1, <1>2, <1>7 DEF SendSegment, Segment
  <2>2. /\ DOMAIN m = DOMAIN l /\ m[i].datagram_cnt = v + 1
        /\ \A j \in DOMAIN l : m[j].filename = l[j].filename /\ (j # i => m[j] = l[j])
    <3>1. l[i] \in [filename : File, datagram_cnt : Nat]
      BY <1>1, <1>2, <1>3, ElementOfSeq, LenProperties
    <3> QED BY <1>3, <2>1, <3>1
  <2>3. Whole(FileData(f, v, [by |-> c, to |-> p, n |-> v]), c, p)
    BY <1>3 DEF Whole, FileData
  <2>4. \A n, x : /\ Unended(c, n, x) = {j \in DOMAIN l : l[j].filename = x /\ p = n}
                  /\ Unended(c, n, x)' = {j \in DOMAIN m : m[j].filename = x /\ p = n}
    BY <1>1, <1>2, <2>1 DEF Unended, user
  <2>5. \A n, x : Unended(c, n, x)' = Unended(c, n, x)
    <3> HIDE DEF m
    <3> SUFFICES ASSUME NEW n, NEW x PROVE Unended(c, n, x)' = Unended(c, n, x)
      OBVIOUS
    <3>1. {j \in DOMAIN l : l[j].filename = x /\ p = n} = {j \in DOMAIN m : m[j].filename = x /\ p = n}
      BY <2>2
    <3>2. /\ Unended(c, n, x) = {j \in DOMAIN l : l[j].filename = x /\ p = n}
          /\ Unended(c, n, x)' = {j \in DOMAIN m : m[j].filename = x /\ p = n}
      BY <2>4
    <3> QED BY <3>1, <3>2
  <2>6. ASSUME NEW n, NEW x, NEW b, At(c, n, x, b)
        PROVE  IF n = p /\ x = f THEN v = After(x, b) /\ At(c, n, x, v)' ELSE At(c, n, x, b)'
    <3>1. CASE n = p /\ x = f
      <4>1. Unended(c, n, x) = {i}
        BY <1>3, <1>6, <2>4, <3>1
      <4>2. b = v - 1
        BY <1>2, <2>6, <4>1 DEF At
      <4>3. v = After(x, b)
        <5> HIDE DEF v, f
        <5>1. b # FileLength[f] /\ v = b + 1
          BY <1>3, <2>1, <4>2
        <5> QED BY <3>1, <5>1 DEF After
      <4>4. v = m[i].datagram_cnt - 1
        BY <1>3, <2>2
      <4>5. At(c, n, x, v)'
        BY <2>5, <4>1, <4>4 DEF At
      <4> QED BY <3>1, <4>3, <4>5
    <3>2. CASE ~(n = p /\ x = f)
      <4>1. \A j \in Unended(c, n, x) : m[j] = l[j]
        BY <2>2, <2>4, <3>2
      <4> QED BY <1>2, <2>5, <2>6, <3>2, <4>1 DEF At
    <3> QED BY <3>1, <3>2
  <2>7. /\ PostInv(c)'
        /\ \A n, x, a, b : Front(c, n, x, a, b) =>
             IF n = p /\ x = f THEN v = After(x, b) => Front(c, n, x, a, v)' ELSE Front(c, n, x, a, b)'
    BY <1>3, <1>5, <2>1, <2>3
  <2>8. ASSUME NEW n, NEW x, NEW a, Stream(c, n, x, a) PROVE Stream(c, n, x, a)'
    BY <2>6, <2>7, <2>8 DEF Stream
  <2>9. HeldInv(c)'
    BY <1>1, <2>1 DEF HeldInv, InSession
  <2>10. AskInv(c)'
    <3>1. Distinct(m)
      <4> HIDE DEF m
      <4> QED BY <1>4, <2>2 DEF Distinct
    <3>2. Distinct(rf_list[c])'
      BY <3>1 DEF Distinct
    <3> QED BY <1>1, <2>1, <3>2 DEF AskInv, SendInv, user
  <2> QED BY <2>7, <2>8, <2>9, <2>10 DEF SendInv
<1>8. CASE SendEnd(c)
  <2>1. /\ v > FileLength[f] /\ ClientSends(c, <<Command("username", p), FileData(f, 0, None)>>)
        /\ rf_list' = rf_list /\ rf_ptr' = rf_ptr /\ state'[c] = "remove"
    BY <1>1, <1>2, <1>8 DEF SendEnd, Segment, Goto, files
  <2>2. v = FileLength[f] + 1
    <3> HIDE DEF v, f
    <3> QED BY <1>3, <2>1
  <2>3. Whole(FileData(f, 0, None), c, p)
    BY <1>3 DEF Whole, FileData
  <2>4. \A n, x : /\ Unended(c, n, x) = {j \in DOMAIN l : l[j].filename = x /\ p = n}
                  /\ Unended(c, n, x)' = {j \in DOMAIN l : l[j].filename = x /\ p = n /\ j # i}
    BY <1>1, <1>2, <2>1 DEF Unended, user
  <2>5. ASSUME NEW n, NEW x, NEW b, At(c, n, x, b)
        PROVE  IF n = p /\ x = f THEN 0 = After(x, b) /\ At(c, n, x, 0)' ELSE At(c, n, x, b)'
    <3>1. CASE n = p /\ x = f
      <4>1. Unended(c, n, x) = {i} /\ Unended(c, n, x)' = {}
        BY <1>3, <1>6, <2>4, <3>1
      <4>2. b = v - 1
        BY <1>2, <2>5, <4>1 DEF At
      <4>3. b = FileLength[f]
        <5> HIDE DEF v, f
        <5> QED BY <1>3, <2>2, <4>2
      <4> QED BY <3>1, <4>1, <4>3 DEF At, After
    <3>2. CASE ~(n = p /\ x = f)
      <4>1. Unended(c, n, x)' = Unended(c, n, x)
        BY <1>6, <2>4, <3>2
      <4> QED BY <2>1, <2>5, <3>2, <4>1 DEF At
    <3> QED BY <3>1, <3>2
  <2>6. /\ PostInv(c)'
        /\ \A n, x, a, b : Front(c, n, x, a, b) =>
             IF n = p /\ x = f THEN 0 = After(x, b) => Front(c, n, x, a, 0)' ELSE Front(c, n, x, a, b)'
    BY <1>5, <2>1, <2>3
  <2>7. ASSUME NEW n, NEW x, NEW a, Stream(c, n, x, a) PROVE Stream(c, n, x, a)'
    BY <2>5, <2>6, <2>7 DEF Stream
  <2>8. HeldInv(c)'
    BY <2>1 DEF HeldInv, InSession
  <2>9. AskInv(c)'
    BY <1>1, <2>1 DEF AskInv, SendInv, user, Distinct
  <2> QED BY <2>6, <2>7, <2>8, <2>9 DEF SendInv
<1> QED BY <1>7, <1>8

LEMMA ReceivingSend ==
  ASSUME NEW c \in Conn, Types, SendInv(c), ReceiveThread(c), UNCHANGED server
  PROVE  SendInv(c)' /\ \A n, x, a : Stream(c, n, x, a) => Stream(c, n, x, a)'
<1>1. UNCHANGED <<state, user, files, toServer, handler>>
  <2>1. UNCHANGED <<state, user, toServer>> /\ handler' = handler
    BY ReceivingTypes DEF server
  <2>2. UNCHANGED files
    BY DEF ReceiveThread, TakeSignal, TakeSource, ShowMessage, WriteFile, EndReceiving
  <2> QED BY <2>1, <2>2
<1>2. /\ PostInv(c)' /\ Ahead(c)' = Ahead(c)
      /\ \A n, x, a, b : Front(c, n, x, a, b) => Front(c, n, x, a, b)'
  BY <1>1, SaysNothing DEF SendInv
<1>3. ASSUME NEW n, NEW x, NEW a, Stream(c, n, x, a) PROVE Stream(c, n, x, a)'
  <2>1. \A b : At(c, n, x, b) => At(c, n, x, b)'
    BY <1>1 DEF At, Unended, user, files
  <2> QED BY <1>2, <1>3, <2>1 DEF Stream
<1>4. AskInv(c)' /\ HeldInv(c)'
  BY <1>1, <1>2 DEF SendInv, AskInv, HeldInv, Distinct, user, files
<1> QED BY <1>2, <1>3, <1>4 DEF SendInv

LEMMA ClientSend ==
  ASSUME Lasting, Apart, NEW c \in Conn, Types, ServiceType, SendInv(c), LastInv(c), ~crashed,
         UserActs(c) \/ UserThread(c) \/ ReceiveThread(c), UNCHANGED server
  PROVE  SendInv(c)' /\ \A n, x, a : Stream(c, n, x, a) => Stream(c, n, x, a)'
<1>1. CASE Talking(c)
  BY <1>1, TalkingSend
<1>2. CASE ChooseFiles(c) \/ FilesSent(c) \/ (RemoveFile(c) /\ rf_ptr[c] = 1)
  BY <1>2, ListSend
<1>3. CASE SendSegment(c) \/ SendEnd(c)
  BY <1>3, SegmentSend
<1>4. CASE ReceiveThread(c)
  BY <1>4, ReceivingSend
<1> QED BY <1>1, <1>2, <1>3, <1>4, ClientSteps DEF Talking, Moving
-----------------------------------------------------------------------------
(* What a client receives. *)

\* Only a segment that is written changes the files.
LEMMA DiskKeeps ==
  ASSUME NEW c \in Conn, Types, UserActs(c) \/ UserThread(c) \/ ReceiveThread(c), UNCHANGED server, ~WriteFile(c)
  PROVE  disk' = disk /\ \A d \in Conn : receiver'[d].open = receiver[d].open
<1>1. disk' = disk
  <2>1. CASE AskSignUp(c) \/ AskLogIn(c) \/ Knocking(c)
    BY <2>1 DEF AskSignUp, AskLogIn, Knocking, AskFriend, EndMessage, inbox
  <2>2. CASE Answered(c) \/ FriendIs(c)
    BY <2>2 DEF Answered, FriendIs
  <2>3. CASE Ending(c)
    BY <2>3, EndingTypes DEF inbox
  <2>4. CASE Moving(c)
    BY <2>4, MovingTypes DEF inbox
  <2>5. CASE ReceiveThread(c)
    BY <2>5 DEF ReceiveThread, TakeSignal, TakeSource, ShowMessage, EndReceiving
  <2> QED BY <2>1, <2>2, <2>3, <2>4, <2>5, ClientSteps
<1>2. DOMAIN receiver = Conn /\ \A d \in Conn : receiver[d] \in [state : {"off", "on", "failed"}, src_usr : Person, open : SUBSET File]
  BY DEF Types, InboxTypes
<1>3. \A d \in Conn : receiver'[d].open = receiver[d].open
  <2>1. CASE Answered(c)
    BY <1>2, <2>1 DEF Answered
  <2>2. CASE ReceiveThread(c)
    BY <1>2, <2>2 DEF ReceiveThread, TakeSignal, TakeSource, ShowMessage, EndReceiving
  <2>3. CASE AskSignUp(c) \/ AskLogIn(c) \/ Knocking(c)
    BY <2>3 DEF AskSignUp, AskLogIn, Knocking, AskFriend, EndMessage, inbox
  <2>4. CASE Ending(c)
    BY <2>4, EndingTypes DEF inbox
  <2>5. CASE Moving(c)
    BY <2>5, MovingTypes DEF inbox
  <2>6. CASE FriendIs(c)
    BY <2>6 DEF FriendIs
  <2> QED BY <2>1, <2>2, <2>3, <2>4, <2>5, <2>6, ClientSteps
<1> QED BY <1>1, <1>3

LEMMA ClientAside ==
  ASSUME Lasting, NEW c \in Conn, Types, ServiceType, LastInv(c),
         UserActs(c) \/ UserThread(c) \/ ReceiveThread(c), UNCHANGED server
  PROVE  /\ ServiceType' /\ closed \subseteq closed' /\ crashed' = crashed
         /\ \A d \in Conn \ {c} :
              /\ Untouched(d) /\ receiver'[d] = receiver[d] /\ disk'[d] = disk[d]
              /\ rf_list'[d] = rf_list[d] /\ rf_ptr'[d] = rf_ptr[d] /\ service'[d] = service[d]
              /\ d \in closed' <=> d \in closed
<1>1. ServiceType' /\ \A d \in Conn \ {c} : service'[d] = service[d]
  <2>1. CASE service' = service
    BY <2>1 DEF ServiceType
  <2>2. CASE \E v \in {"m", "f"} : service' = [service EXCEPT ![c] = v]
    BY <2>2 DEF ServiceType
  <2>3. service' = service \/ \E v \in {"m", "f"} : service' = [service EXCEPT ![c] = v]
    <3>1. CASE Knocking(c)
      BY <3>1 DEF Knocking, AskFriend, EndMessage, Knock
    <3>2. CASE AskSignUp(c) \/ AskLogIn(c)
      BY <3>2 DEF AskSignUp, AskLogIn
    <3>3. CASE Answered(c)
      BY <3>3, AnsweredTypes DEF user
    <3>4. CASE Ending(c)
      BY <3>4, EndingTypes DEF user
    <3>5. CASE Moving(c)
      BY <3>5, MovingTypes DEF user
    <3>6. CASE FriendIs(c)
      BY <3>6, FriendIsTypes DEF user
    <3>7. CASE ReceiveThread(c)
      BY <3>7, ReceivingTypes DEF user
    <3> QED BY <3>1, <3>2, <3>3, <3>4, <3>5, <3>6, <3>7, ClientSteps
  <2> QED BY <2>1, <2>2, <2>3
<1>2. \A d \in Conn \ {c} : Untouched(d) /\ receiver'[d] = receiver[d]
  BY ClientBeside, ClientTakesTexts
<1>3. \A d \in Conn \ {c} : rf_list'[d] = rf_list[d] /\ rf_ptr'[d] = rf_ptr[d]
  BY ListNext DEF LastInv
<1>4. \A d \in Conn \ {c} : disk'[d] = disk[d]
  <2>1. CASE WriteFile(c)
    BY <2>1 DEF WriteFile, Types, InboxTypes
  <2>2. CASE ~WriteFile(c)
    BY <2>2, DiskKeeps
  <2> QED BY <2>1, <2>2
<1>5. closed = {d \in Conn : state[d] = "exited"} /\ closed' = {d \in Conn : state'[d] = "exited"}
  <2>1. Types'
    BY ClientTypes
  <2> QED BY <2>1 DEF Types, WireTypes
<1>6. state[c] = "exited" => state'[c] = "exited"
  <2>1. CASE ReceiveThread(c)
    BY <2>1, ReceivingTypes
  <2>2. CASE Ending(c)
    BY <2>2, EndingTypes DEF Types, UserTypes
  <2>3. CASE AskSignUp(c) \/ AskLogIn(c)
    BY <2>3, AskTypes
  <2>4. CASE Answered(c)
    BY <2>4, AnsweredTypes
  <2>5. CASE Knocking(c)
    BY <2>5, KnockingTypes
  <2>6. CASE Moving(c)
    BY <2>6, MovingTypes DEF Quiet, InSession
  <2>7. CASE FriendIs(c)
    BY <2>7, FriendIsTypes
  <2> QED BY <2>1, <2>2, <2>3, <2>4, <2>5, <2>6, <2>7, ClientSteps
<1>7. \A d \in Conn \ {c} : d \in closed' <=> d \in closed
  BY <1>2, <1>5 DEF Untouched
<1>8. closed \subseteq closed'
  BY <1>5, <1>6, <1>7
<1> QED BY <1>1, <1>2, <1>3, <1>4, <1>7, <1>8, CrashStays

\* What a file is when the next segment is written, and how much of it there is.
Base(c, x) == IF x \in receiver[c].open THEN disk[c][x] ELSE <<>>

\* A segment that is not the last one, as somebody sends it to n.
SignedFor(e, n) == \E s \in Conn : n \in Knocks[s] /\ e.arg = [by |-> s, to |-> n, n |-> e.seg]

LEMMA WritesFile ==
  ASSUME NEW c \in Conn, Types, WriteFile(c)
  PROVE  Head(toClient[c]).file \in File
<1> DEFINE s == toClient[c]
<1>1. s \in Seq(Told \cup [tag : Answers])
  BY DEF Types, WireTypes
<1>2. s # <<>> /\ Head(s).tag = "filedata"
  BY DEF WriteFile, Receiving, Has, NextTag
<1>3. Head(s) \in Told \cup [tag : Answers]
  <2> HIDE DEF s
  <2> QED BY <1>1, <1>2, HeadTailProperties
<1> QED BY <1>2, <1>3 DEF Told, Said, Source, Answers

LEMMA Written ==
  ASSUME NEW c \in Conn, Types, ConnInv(c), InboxInv(c), WriteFile(c),
         NEW e, e = Head(toClient[c]), NEW x \in File
  PROVE  /\ c \notin closed /\ toClient[c] # <<>> /\ toClient'[c] = Tail(toClient[c])
         /\ handler[c].istonextstage /\ state[c] \notin Offered
         /\ UNCHANGED <<state, username>>
         /\ e.tag = "filedata" /\ e.file \in Openable /\ e.seg \in Nat
         /\ Base(c, x) \in Seq(Text) /\ Pos(c, x) = Len(Base(c, x)) /\ Pos(c, x) \in Nat
         /\ x # e.file => disk'[c][x] = disk[c][x] /\ (x \in receiver'[c].open <=> x \in receiver[c].open)
         /\ x = e.file /\ e.seg = 0 => disk'[c][x] = Base(c, x) /\ x \notin receiver'[c].open
         /\ x = e.file /\ e.seg # 0 =>
              /\ x \in receiver'[c].open /\ disk'[c][x] = Base(c, x) \o <<e.arg>> /\ e.arg \in Text
              /\ SignedFor(e, username[c])
<1>1. /\ DOMAIN toClient = Conn /\ toClient[c] \in Seq(Told \cup [tag : Answers])
      /\ disk \in [Conn -> [File -> Seq(Text)]] /\ disk[c][x] \in Seq(Text)
      /\ receiver \in [Conn -> [state : {"off", "on", "failed"}, src_usr : Person, open : SUBSET File]]
  BY DEF Types, WireTypes, InboxTypes
<1>2. /\ c \notin closed /\ receiver[c].state = "on" /\ toClient[c] # <<>> /\ e.tag = "filedata"
      /\ toClient'[c] = Tail(toClient[c]) /\ UNCHANGED <<state, username>>
  BY <1>1 DEF WriteFile, Receiving, Has, NextTag, ClientTakes, user
<1>3. handler[c].istonextstage /\ state[c] \notin Offered
  <2>1. 1 \in DOMAIN toClient[c] /\ toClient[c][1] = e
    <3> DEFINE s == toClient[c]
    <3>1. s \in Seq(Told \cup [tag : Answers]) /\ s # <<>> /\ e = Head(s)
      BY <1>1, <1>2
    <3> HIDE DEF s
    <3>2. Head(s) = s[1] /\ 1 \in DOMAIN s
      BY <3>1, TailKeeps
    <3> QED BY <3>1, <3>2 DEF s
  <2>2. handler[c].istonextstage
    BY <1>2, <2>1 DEF InboxInv, Free
  <2>3. state[c] \notin Offered
    BY <1>2 DEF ConnInv, OfferInv
  <2> QED BY <2>2, <2>3
<1>4. e \in [tag : {"filedata"}, arg : Text \cup {None}, file : File, seg : Nat]
  <2>1. e \in Told \cup [tag : Answers]
    <3> DEFINE s == toClient[c]
    <3>1. s \in Seq(Told \cup [tag : Answers]) /\ s # <<>> /\ e = Head(s)
      BY <1>1, <1>2
    <3> HIDE DEF s
    <3> QED BY <3>1, HeadTailProperties
  <2> QED BY <1>2, <2>1 DEF Told, Said, Source, Answers
<1>5. PICK s \in Conn : username[c] \in Knocks[s] /\ Whole(e, s, username[c])
  <2>1. 1 \in DOMAIN toClient[c] /\ toClient[c][1] = e
    <3> DEFINE s == toClient[c]
    <3>1. s \in Seq(Told \cup [tag : Answers]) /\ s # <<>> /\ e = Head(s)
      BY <1>1, <1>2
    <3> HIDE DEF s
    <3>2. Head(s) = s[1] /\ 1 \in DOMAIN s
      BY <3>1, TailKeeps
    <3> QED BY <3>1, <3>2 DEF s
  <2> QED BY <1>2, <2>1 DEF InboxInv, Fine
<1>6. /\ e.file \in Openable /\ e.seg \in Nat
      /\ e.arg = IF e.seg = 0 THEN None ELSE [by |-> s, to |-> username[c], n |-> e.seg]
  BY <1>4, <1>5 DEF Whole, Openable
<1>7. e.arg = None <=> e.seg = 0
  <2>1. username[c] \in Name
    BY <1>5, ClientAssumption, WireAssumption
  <2>2. [by |-> s, to |-> username[c], n |-> e.seg] \in [by : Conn, to : Name, n : Nat]
    BY <1>6, <2>1
  <2> QED BY <1>6, <2>2, ClientAssumption, WireAssumption
<1>8. Base(c, x) \in Seq(Text) /\ Pos(c, x) = Len(Base(c, x)) /\ Pos(c, x) \in Nat
  <2>1. Base(c, x) \in Seq(Text)
    BY <1>1, EmptySeq DEF Base
  <2>2. Pos(c, x) = Len(Base(c, x))
    BY DEF Base, Pos
  <2>3. Len(Base(c, x)) \in Nat
    BY <2>1, LenProperties
  <2> QED BY <2>1, <2>2, <2>3
<1>9. /\ disk' = [disk EXCEPT ![c][e.file] =
                    (IF e.file \in receiver[c].open THEN @ ELSE <<>>) \o (IF e.arg = None THEN <<>> ELSE <<e.arg>>)]
      /\ receiver' = [receiver EXCEPT ![c].open = IF e.seg = 0 THEN receiver[c].open \ {e.file}
                                                               ELSE receiver[c].open \cup {e.file}]
  BY DEF WriteFile
<1>10. receiver'[c].open = IF e.seg = 0 THEN receiver[c].open \ {e.file} ELSE receiver[c].open \cup {e.file}
  BY <1>1, <1>9
<1>11. ASSUME x # e.file PROVE disk'[c][x] = disk[c][x]
  BY <1>1, <1>9, <1>11
<1>12. ASSUME x = e.file
       PROVE  disk'[c][x] = Base(c, x) \o (IF e.arg = None THEN <<>> ELSE <<e.arg>>)
  <2> DEFINE v == (IF e.file \in receiver[c].open THEN disk[c][e.file] ELSE <<>>)
                    \o (IF e.arg = None THEN <<>> ELSE <<e.arg>>)
  <2>1. disk' = [disk EXCEPT ![c][e.file] = v]
    BY <1>9
  <2>2. v = Base(c, x) \o (IF e.arg = None THEN <<>> ELSE <<e.arg>>)
    BY <1>12 DEF Base
  <2> HIDE DEF v
  <2>3. disk'[c][x] = v
    BY <1>1, <1>12, <2>1
  <2> QED BY <2>2, <2>3
<1>13. ASSUME x = e.file, e.seg = 0 PROVE disk'[c][x] = Base(c, x)
  <2> DEFINE b == Base(c, x)
  <2>1. disk'[c][x] = b \o <<>> /\ b \in Seq(Text)
    BY <1>7, <1>8, <1>12, <1>13
  <2> HIDE DEF b
  <2>2. b \o <<>> = b
    BY <2>1, ConcatEmptySeq
  <2> QED BY <2>1, <2>2 DEF b
<1>14. ASSUME x = e.file, e.seg # 0
       PROVE  disk'[c][x] = Base(c, x) \o <<e.arg>> /\ e.arg \in Text
  BY <1>4, <1>7, <1>12, <1>14
<1>15. e.seg # 0 => SignedFor(e, username[c])
  BY <1>5, <1>6 DEF SignedFor
<1> QED BY <1>2, <1>3, <1>6, <1>8, <1>10, <1>11, <1>13, <1>14, <1>15

\* A segment that is written is the one after those that are.
LEMMA WrittenShows ==
  ASSUME NEW c \in Conn, Types, ConnInv(c), InboxInv(c), WriteFile(c),
         NEW x \in File, NEW k, Shows(c, x, k)
  PROVE  /\ Shows(c, x, k)'
         /\ x = Head(toClient[c]).file => Head(toClient[c]).seg = After(x, Pos(c, x))
<1>1. PICK e : e = Head(toClient[c])
  OBVIOUS
<1>2. PICK p : p = Pos(c, x)
  OBVIOUS
<1> DEFINE s == toClient[c]
<1>3. /\ toClient'[c] = Tail(s) /\ s # <<>> /\ s \in Seq(Told \cup [tag : Answers])
      /\ e.tag = "filedata" /\ e.seg \in Nat /\ p \in Nat /\ p = Len(Base(c, x)) /\ Base(c, x) \in Seq(Text)
      /\ x # e.file => disk'[c][x] = disk[c][x] /\ (x \in receiver'[c].open <=> x \in receiver[c].open)
      /\ x = e.file /\ e.seg = 0 => disk'[c][x] = Base(c, x) /\ x \notin receiver'[c].open
      /\ x = e.file /\ e.seg # 0 =>
           x \in receiver'[c].open /\ disk'[c][x] = Base(c, x) \o <<e.arg>> /\ e.arg \in Text
  BY <1>1, <1>2, Written, Parts
<1>4. IF e.file = x THEN e.seg = After(x, p) /\ Leads(Tail(s), Of(Tail(s), x), x, After(x, p), k)
      ELSE Leads(Tail(s), Of(Tail(s), x), x, p, k)
  <2>1. Leads(s, Of(s, x), x, p, k)
    BY <1>2 DEF Shows
  <2>2. e = Head(s)
    BY <1>1
  <2> HIDE DEF s
  <2> QED BY <1>3, <2>1, <2>2, OfFrom
<1>5. \A q : q = Pos(c, x)' /\ Leads(Tail(s), Of(Tail(s), x), x, q, k) => Shows(c, x, k)'
  <2>1. \A q : q = Pos(c, x)' => (Shows(c, x, k)' <=> Leads(Tail(s), Of(Tail(s), x), x, q, k))
    BY <1>3 DEF Shows, Leads, Of, After
  <2> QED BY <2>1
<1>6. CASE e.file # x
  <2>1. Pos(c, x)' = p
    BY <1>2, <1>3, <1>6 DEF Pos
  <2> QED BY <1>1, <1>4, <1>5, <1>6, <2>1
<1>7. CASE e.file = x
  <2>1. Pos(c, x)' = e.seg
    <3>1. CASE e.seg = 0
      BY <1>3, <1>7, <3>1 DEF Pos
    <3>2. CASE e.seg # 0
      <4>1. PICK b : b = Base(c, x)
        OBVIOUS
      <4>2. b \in Seq(Text) /\ <<e.arg>> \in Seq(Text) /\ Len(b) = p /\ disk'[c][x] = b \o <<e.arg>> /\ x \in receiver'[c].open
        BY <1>3, <1>7, <3>2, <4>1
      <4>3. Len(b \o <<e.arg>>) = p + 1
        <5>1. Len(<<e.arg>>) = 1
          OBVIOUS
        <5> QED BY <4>2, <5>1, ConcatProperties
      <4>4. e.seg = p + 1
        BY <1>4, <1>7, <3>2 DEF After
      <4> QED BY <4>2, <4>3, <4>4 DEF Pos
    <3> QED BY <3>1, <3>2
  <2> QED BY <1>1, <1>2, <1>4, <1>5, <1>7, <2>1
<1> QED BY <1>6, <1>7

LEMMA WrittenDisk ==
  ASSUME NEW c \in Conn, Types, ConnInv(c), InboxInv(c), DiskInv(c), ComingInv(c), WriteFile(c), UNCHANGED server
  PROVE  InboxInv(c)' /\ DiskInv(c)'
<1>1. PICK e, n : e = Head(toClient[c]) /\ n = username[c]
  OBVIOUS
<1>2. /\ c \notin closed /\ toClient[c] # <<>> /\ toClient'[c] = Tail(toClient[c])
      /\ handler[c].istonextstage /\ state[c] \notin Offered
      /\ UNCHANGED <<state, username, handler>> /\ e.file \in Openable
  <2>1. PICK x \in File : x = e.file
    BY <1>1, WritesFile
  <2>2. /\ c \notin closed /\ toClient[c] # <<>> /\ toClient'[c] = Tail(toClient[c])
        /\ handler[c].istonextstage /\ state[c] \notin Offered
        /\ UNCHANGED <<state, username>>
        /\ e.tag = "filedata" /\ e.file \in Openable /\ e.seg \in Nat
    BY <1>1, Written
  <2>3. handler' = handler
    BY DEF server
  <2> QED BY <2>2, <2>3
<1>3. InboxInv(c)'
  <2> DEFINE s == toClient[c]
  <2>1. s \in Seq(Told \cup [tag : Answers]) /\ s # <<>> /\ toClient'[c] = Tail(s)
    BY <1>2, Parts
  <2>2. \A k \in DOMAIN s : Fine(s[k], n)
    BY <1>1 DEF InboxInv
  <2> HIDE DEF s
  <2>3. \A k \in DOMAIN Tail(s) : k + 1 \in DOMAIN s /\ Tail(s)[k] = s[k + 1]
    BY <2>1, TailKeeps
  <2>4. \A k \in DOMAIN Tail(s) : Fine(Tail(s)[k], n)
    BY <2>2, <2>3
  <2> QED BY <1>1, <1>2, <2>1, <2>4 DEF InboxInv, Fine, Whole
<1>4. ASSUME Alone(c)', NEW x \in File
      PROVE  /\ Grown(disk'[c][x], n)
             /\ disk'[c][x] # <<>> => x \in DOMAIN FileLength /\ (x \in receiver'[c].open \/ Len(disk'[c][x]) = FileLength[x])
  <2>1. Alone(c)
    BY <1>2, <1>4 DEF Alone
  <2>2. /\ Grown(disk[c][x], n)
        /\ disk[c][x] # <<>> => x \in DOMAIN FileLength /\ (x \in receiver[c].open \/ Len(disk[c][x]) = FileLength[x])
    BY <1>1, <2>1 DEF DiskInv
  <2>3. PICK b : b = Base(c, x)
    OBVIOUS
  <2>4. /\ b \in Seq(Text) /\ Pos(c, x) = Len(b) /\ Len(b) \in Nat /\ e.seg \in Nat
        /\ x # e.file => disk'[c][x] = disk[c][x] /\ (x \in receiver'[c].open <=> x \in receiver[c].open)
        /\ x = e.file /\ e.seg = 0 => disk'[c][x] = b /\ x \notin receiver'[c].open
        /\ x = e.file /\ e.seg # 0 =>
             /\ x \in receiver'[c].open /\ disk'[c][x] = b \o <<e.arg>> /\ e.arg \in Text
             /\ SignedFor(e, n)
    <3>1. e = Head(toClient[c])
      BY <1>1
    <3>2. /\ e.seg \in Nat /\ Base(c, x) \in Seq(Text) /\ Pos(c, x) = Len(Base(c, x)) /\ Pos(c, x) \in Nat
          /\ x # e.file => disk'[c][x] = disk[c][x] /\ (x \in receiver'[c].open <=> x \in receiver[c].open)
          /\ x = e.file /\ e.seg = 0 => disk'[c][x] = Base(c, x) /\ x \notin receiver'[c].open
          /\ x = e.file /\ e.seg # 0 =>
               /\ x \in receiver'[c].open /\ disk'[c][x] = Base(c, x) \o <<e.arg>> /\ e.arg \in Text
               /\ SignedFor(e, username[c])
      BY <3>1, Written
    <3> QED BY <1>1, <2>3, <3>2
  <2>5. Grown(b, n)
    BY <2>2, <2>3 DEF Base, Grown
  <2>6. CASE x # e.file
    BY <2>2, <2>4, <2>6
  <2>7. CASE x = e.file
    <3>1. x \in DOMAIN FileLength
      BY <1>2, <2>7 DEF Openable
    <3>2. e.seg = After(x, Len(b))
      <4>1. PICK k : Shows(c, x, k)
        BY <1>2, <2>1, <2>7 DEF ComingInv
      <4> QED BY <1>1, <2>4, <2>7, <4>1, WrittenShows
    <3>3. CASE e.seg = 0
      <4>1. Len(b) = FileLength[x]
        BY <2>4, <3>2, <3>3 DEF After
      <4> QED BY <2>4, <2>5, <2>7, <3>1, <3>3, <4>1
    <3>4. CASE e.seg # 0
      <4>1. e.seg = Len(b) + 1
        BY <3>2, <3>4 DEF After
      <4>2. PICK d : d = disk'[c][x]
        OBVIOUS
      <4>3. d = b \o <<e.arg>> /\ b \in Seq(Text) /\ <<e.arg>> \in Seq(Text) /\ x \in receiver'[c].open
        BY <2>4, <2>7, <3>4, <4>2
      <4>4. DOMAIN d = 1 .. Len(b) + 1 /\ d[Len(b) + 1] = e.arg /\ \A j \in 1 .. Len(b) : d[j] = b[j]
        <5>1. Len(<<e.arg>>) = 1 /\ <<e.arg>>[1] = e.arg
          OBVIOUS
        <5> DEFINE t == <<e.arg>>
        <5>2. t \in Seq(Text) /\ d = b \o t /\ Len(t) = 1 /\ t[1] = e.arg
          BY <4>3, <5>1
        <5> HIDE DEF t
        <5>3. /\ DOMAIN d = 1 .. Len(b) + Len(t)
              /\ \A j \in 1 .. Len(b) : d[j] = b[j]
              /\ \A j \in Len(b) + 1 .. Len(d) : d[j] = t[j - Len(b)]
          BY <4>3, <5>2, Joined
        <5>4. Len(d) = Len(b) + 1
          BY <4>3, <5>2, ConcatProperties
        <5>5. (Len(b) + 1) - Len(b) = 1 /\ Len(b) + 1 \in Len(b) + 1 .. Len(d)
          BY <2>4, <5>4
        <5> QED BY <5>2, <5>3, <5>5
      <4>5. PICK s \in Conn : n \in Knocks[s] /\ e.arg = [by |-> s, to |-> n, n |-> e.seg]
        BY <2>4, <2>7, <3>4 DEF SignedFor
      <4>6. DOMAIN b = 1 .. Len(b)
        BY <2>4, LenProperties
      <4>7. Grown(d, n)
        <5>1. \A j \in 1 .. Len(b) + 1 : j \in 1 .. Len(b) \/ j = Len(b) + 1
          BY <2>4
        <5>2. ASSUME NEW j \in 1 .. Len(b) PROVE \E r \in Conn : n \in Knocks[r] /\ d[j] = [by |-> r, to |-> n, n |-> j]
          BY <2>5, <4>4, <4>6 DEF Grown
        <5>3. n \in Knocks[s] /\ d[Len(b) + 1] = [by |-> s, to |-> n, n |-> Len(b) + 1]
          BY <4>1, <4>4, <4>5
        <5> QED BY <4>4, <5>1, <5>2, <5>3 DEF Grown
      <4> QED BY <3>1, <4>2, <4>3, <4>7
    <3> QED BY <3>3, <3>4
  <2> QED BY <2>6, <2>7
<1>5. DiskInv(c)'
  <2>1. DiskInv(c)' <=> (Alone(c)' => \A x \in File :
          /\ Grown(disk'[c][x], n)
          /\ disk'[c][x] # <<>> =>
               x \in DOMAIN FileLength /\ (x \in receiver'[c].open \/ Len(disk'[c][x]) = FileLength[x]))
    BY <1>1, <1>2 DEF DiskInv, Grown
  <2> QED BY <1>4, <2>1
<1> QED BY <1>3, <1>5

\* Of what else a client takes nothing is a segment; nobody signs up or logs in
\* again.
LEMMA TakesOther ==
  ASSUME NEW c \in Conn, Types, UserActs(c) \/ UserThread(c) \/ ReceiveThread(c), ~WriteFile(c), UNCHANGED server
  PROVE  /\ \/ toClient'[c] = toClient[c]
            \/ toClient'[c] = <<>> /\ c \in closed'
            \/ /\ toClient[c] # <<>> /\ toClient'[c] = Tail(toClient[c])
               /\ Head(toClient[c]).tag # "filedata"
         /\ state'[c] \in Offered => state[c] \in Offered
<1>1. DOMAIN toClient = Conn /\ DOMAIN state = Conn
  BY DEF Types, WireTypes, UserTypes
<1>2. CASE AskSignUp(c) \/ AskLogIn(c)
  BY <1>1, <1>2, AskTypes DEF Offered
<1>3. CASE Answered(c)
  <2>1. /\ toClient[c] # <<>> /\ toClient' = [toClient EXCEPT ![c] = Tail(toClient[c])]
        /\ state[c] \in {"signup", "login"}
        /\ Head(toClient[c]).tag \in {"signup-good", "signup-badU", "login-badU", "login-badP", "login-good"}
    BY <1>3, AnsweredTypes
  <2> QED BY <1>1, <2>1 DEF Offered
<1>4. CASE Ending(c)
  <2>1. toClient'[c] = toClient[c] \/ toClient'[c] = <<>>
    <3>1. ClientCloses(c) \/ toClient' = toClient
      BY <1>4 DEF Ending, Quit, Join, RemoveFile, RecvFails, SendFails, Kill, wire
    <3> QED BY <1>1, <3>1 DEF ClientCloses
  <2>2. state'[c] = "exited" /\ Types'
    BY <1>1, <1>4, EndingTypes
  <2>3. c \in closed'
    BY <2>2 DEF Types, WireTypes
  <2> QED BY <2>1, <2>2, <2>3 DEF Offered
<1>5. CASE Knocking(c)
  BY <1>1, <1>5, KnockingTypes DEF Offered
<1>6. CASE Moving(c)
  BY <1>1, <1>6, MovingTypes DEF Quiet, InSession, Offered
<1>7. CASE FriendIs(c)
  BY <1>1, <1>7, FriendIsTypes DEF Quiet, InSession, Offered, wire
<1>8. CASE ReceiveThread(c)
  <2>1. state' = state
    BY <1>8, ReceivingTypes
  <2>2. CASE EndReceiving(c)
    BY <2>1, <2>2 DEF EndReceiving, wire
  <2>3. CASE TakeSignal(c) \/ TakeSource(c) \/ ShowMessage(c)
    <3>1. Has(c) /\ NextTag(c) # "filedata" /\ ClientTakes(c)
      BY <2>3 DEF TakeSignal, TakeSource, ShowMessage
    <3> QED BY <1>1, <2>1, <3>1 DEF Has, NextTag, ClientTakes
  <2> QED BY <1>8, <2>2, <2>3 DEF ReceiveThread
<1> QED BY <1>2, <1>3, <1>4, <1>5, <1>6, <1>7, <1>8, ClientSteps

LEMMA OtherShows ==
  ASSUME NEW c \in Conn, Types, UserActs(c) \/ UserThread(c) \/ ReceiveThread(c), ~WriteFile(c), UNCHANGED server,
         c \notin closed', NEW x, NEW k, Shows(c, x, k)
  PROVE  Shows(c, x, k)'
<1>1. PICK p : p = Pos(c, x)
  OBVIOUS
<1>2. disk'[c] = disk[c] /\ receiver'[c].open = receiver[c].open
  BY DiskKeeps
<1>3. \A s : s = toClient'[c] /\ Leads(s, Of(s, x), x, p, k) => Shows(c, x, k)'
  <2>1. Pos(c, x)' = p
    BY <1>1, <1>2 DEF Pos
  <2>2. \A s : s = toClient'[c] => (Shows(c, x, k)' <=> Leads(s, Of(s, x), x, p, k))
    BY <2>1 DEF Shows, Leads, Of, After
  <2> QED BY <2>2
<1>4. PICK s : s = toClient[c]
  OBVIOUS
<1>5. s \in Seq(Told \cup [tag : Answers]) /\ Leads(s, Of(s, x), x, p, k)
  BY <1>1, <1>4, Parts DEF Shows
<1>6. CASE toClient'[c] = s
  BY <1>3, <1>5, <1>6
<1>7. CASE s # <<>> /\ toClient'[c] = Tail(s) /\ Head(s).tag # "filedata"
  <2>1. Leads(Tail(s), Of(Tail(s), x), x, p, k)
    BY <1>5, <1>7, OfFrom
  <2> QED BY <1>3, <1>7, <2>1
<1> QED BY <1>4, <1>6, <1>7, TakesOther

LEMMA OtherDisk ==
  ASSUME NEW c \in Conn, Types, ConnInv(c), InboxInv(c), DiskInv(c),
         UserActs(c) \/ UserThread(c) \/ ReceiveThread(c), ~WriteFile(c), UNCHANGED server
  PROVE  InboxInv(c)' /\ DiskInv(c)'
<1>1. handler' = handler /\ disk'[c] = disk[c] /\ receiver'[c].open = receiver[c].open
  BY DiskKeeps DEF server
<1>2. state'[c] \in Offered => state[c] \in Offered
  BY TakesOther
<1>3. PICK s, u : s = toClient[c] /\ u = toClient'[c]
  OBVIOUS
<1>4. s \in Seq(Told \cup [tag : Answers])
  BY <1>3, Parts
<1>5. u = s \/ u = <<>> \/ (s # <<>> /\ u = Tail(s))
  BY <1>3, TakesOther
<1>6. \A k \in DOMAIN u : \E j \in DOMAIN s : u[k] = s[j]
  <2>1. CASE u = <<>>
    BY <2>1, EmptySeq
  <2>2. CASE s # <<>> /\ u = Tail(s)
    BY <1>4, <2>2, TailKeeps
  <2> QED BY <1>5, <2>1, <2>2
<1>7. username'[c] = username[c] \/ (u = <<>> /\ \A x \in File : disk[c][x] = <<>>)
  <2>1. CASE state[c] = "offline"
    <3>1. s = <<>> /\ \A x \in File : disk[c][x] = <<>>
      BY <1>3, <2>1 DEF ConnInv, OfferInv, InboxInv, Offered
    <3> QED BY <1>5, <3>1
  <2>2. CASE username' = username
    BY <2>2
  <2> QED BY <2>1, <2>2, ClientTakesTexts
<1>8. \A k \in DOMAIN u : Fine(u[k], username'[c])
  <2>1. CASE u = <<>>
    BY <2>1, EmptySeq
  <2>2. CASE username'[c] = username[c]
    BY <1>3, <1>6, <2>2 DEF InboxInv
  <2> QED BY <1>7, <2>1, <2>2
<1>9. InboxInv(c)'
  <2>1. \A n : n = username'[c] => \A k \in DOMAIN u : Fine(u[k], n)
    BY <1>8
  <2>2. ~handler[c].istonextstage => Free(u, {"filedata"})
    BY <1>3, <1>6 DEF InboxInv, Free
  <2>3. ~handler[c].istonextstage \/ state'[c] \in Offered => \A x \in File : disk[c][x] = <<>>
    BY <1>2 DEF InboxInv
  <2>4. PICK n : n = username'[c]
    OBVIOUS
  <2>5. \A e : Fine(e, n)' <=> Fine(e, n)
    BY DEF Fine, Whole
  <2>6. \A k \in DOMAIN u : Fine(u[k], n)'
    BY <2>1, <2>4, <2>5
  <2> QED BY <1>1, <1>3, <2>2, <2>3, <2>4, <2>6 DEF InboxInv, Free, Fine, Whole
<1>10. DiskInv(c)'
  <2>1. PICK n : n = username'[c]
    OBVIOUS
  <2>2. DiskInv(c)' <=> (Alone(c) => \A x \in File :
          /\ Grown(disk[c][x], n)
          /\ disk[c][x] # <<>> => x \in DOMAIN FileLength /\ (x \in receiver[c].open \/ Len(disk[c][x]) = FileLength[x]))
    BY <1>1, <2>1 DEF DiskInv, Alone, Grown
  <2>3. CASE username'[c] = username[c]
    BY <2>1, <2>2, <2>3 DEF DiskInv
  <2>4. CASE \A x \in File : disk[c][x] = <<>>
    <3>1. Grown(<<>>, n)
      BY EmptySeq DEF Grown
    <3> QED BY <2>2, <2>4, <3>1
  <2> QED BY <1>7, <2>3, <2>4
<1> QED BY <1>9, <1>10

LEMMA ClientShows ==
  ASSUME Lasting, NEW c \in Conn, Types, ServiceType, LastInv(c), ConnInv(c), InboxInv(c),
         UserActs(c) \/ UserThread(c) \/ ReceiveThread(c), UNCHANGED server,
         NEW d \in Conn, d \notin closed', NEW x \in File, NEW k, Shows(d, x, k)
  PROVE  Shows(d, x, k)'
<1>1. CASE d # c
  <2>1. toClient'[d] = toClient[d] /\ receiver'[d] = receiver[d] /\ disk'[d] = disk[d]
    BY <1>1, ClientAside DEF Untouched
  <2> QED BY <2>1 DEF Shows, Leads, Of, After, Pos
<1>2. CASE d = c /\ WriteFile(c)
  BY <1>2, WrittenShows
<1>3. CASE d = c /\ ~WriteFile(c)
  BY <1>3, OtherShows
<1> QED BY <1>1, <1>2, <1>3

LEMMA ClientInbox ==
  ASSUME Lasting, NEW c \in Conn, Types, ServiceType, LastInv(c), ConnInv(c),
         UserActs(c) \/ UserThread(c) \/ ReceiveThread(c), UNCHANGED server, ComingInv(c),
         NEW d \in Conn, InboxInv(c), DiskInv(c), InboxInv(d), DiskInv(d)
  PROVE  InboxInv(d)' /\ DiskInv(d)'
<1>1. CASE d # c
  <2>1. handler' = handler
    BY DEF server
  <2>2. /\ toClient'[d] = toClient[d] /\ receiver'[d] = receiver[d] /\ disk'[d] = disk[d]
        /\ username'[d] = username[d] /\ state'[d] = state[d]
    BY <1>1, ClientAside DEF Untouched
  <2>3. InboxInv(d)'
    <3>1. InboxInv(d)' <=> InboxInv(d)
      BY <2>1, <2>2 DEF InboxInv, Fine, Whole, Free
    <3> QED BY <3>1
  <2>4. DiskInv(d)'
    BY <2>1, <2>2 DEF DiskInv, Alone, Grown
  <2> QED BY <2>3, <2>4
<1>2. CASE d = c /\ WriteFile(c)
  BY <1>2, WrittenDisk
<1>3. CASE d = c /\ ~WriteFile(c)
  BY <1>3, OtherDisk
<1> QED BY <1>1, <1>2, <1>3

LEMMA ClientComing ==
  ASSUME Lasting, NEW c \in Conn, Types, ServiceType, LastInv(c), ConnInv(c), InboxInv(c),
         UserActs(c) \/ UserThread(c) \/ ReceiveThread(c), UNCHANGED server,
         NEW d \in Conn, ComingInv(d)
  PROVE  ComingInv(d)'
<1> SUFFICES ASSUME Alone(d)', d \notin closed', NEW x \in Openable PROVE \E k : Shows(d, x, k)'
  BY DEF ComingInv
<1>1. d \notin closed
  BY ClientAside
<1>2. Alone(d) /\ x \in File
  BY DEF Alone, server, Openable
<1>3. PICK k : Shows(d, x, k)
  BY <1>1, <1>2 DEF ComingInv
<1> QED BY <1>2, <1>3, ClientShows

\* What another client has under way stays where it is.
LEMMA BesideStream ==
  ASSUME NEW d \in Conn, Untouched(d), service'[d] = service[d], rf_list'[d] = rf_list[d], rf_ptr'[d] = rf_ptr[d],
         SendInv(d), NEW n, NEW x, NEW a, Stream(d, n, x, a)
  PROVE  Stream(d, n, x, a)'
<1>1. PICK b : Front(d, n, x, a, b) /\ At(d, n, x, b)
  BY DEF Stream
<1>2. Front(d, n, x, a, b)'
  BY <1>1, BesideSend
<1>3. At(d, n, x, b)'
  <2>1. dst_usr'[d] = dst_usr[d] /\ state'[d] = state[d]
    BY DEF Untouched
  <2>2. Unended(d, n, x)' = Unended(d, n, x)
    BY <2>1 DEF Unended
  <2> QED BY <1>1, <2>2 DEF At
<1> QED BY <1>2, <1>3 DEF Stream

LEMMA ClientPipe ==
  ASSUME Lasting, Apart, NEW c \in Conn, Types, ServiceType, LastInv(c), ConnInv(c), InboxInv(c),
         UserActs(c) \/ UserThread(c) \/ ReceiveThread(c), UNCHANGED server,
         NEW s \in Conn, crashed \/ SendInv(s), NEW n \in Knocks[s], NEW x \in Openable, PipeInv(s, n, x)
  PROVE  PipeInv(s, n, x)'
<1>1. /\ handler' = handler /\ delivery' = delivery /\ queue' = queue /\ x \in File
      /\ closed \subseteq closed' /\ crashed' = crashed
  BY ClientAside DEF server, accounts, Openable
<1> SUFFICES ASSUME ~crashed PROVE PipeInv(s, n, x)'
  BY <1>1 DEF PipeInv
<1>2. \A a : Stream(s, n, x, a) => Stream(s, n, x, a)'
  <2>1. CASE s = c
    BY <2>1, ClientSend
  <2>2. CASE s # c
    <3>1. Untouched(s) /\ service'[s] = service[s] /\ rf_list'[s] = rf_list[s] /\ rf_ptr'[s] = rf_ptr[s]
      BY <2>2, ClientAside
    <3> QED BY <3>1, BesideStream
  <2> QED BY <2>1, <2>2
<1>3. \A a, b : Back(n, x, a, b) => Back(n, x, a, b)'
  <2>1. Jobs(n)' = Jobs(n)
    BY <1>1 DEF Jobs
  <2> QED BY <2>1 DEF Back, Leads, Of, After
<1>4. ASSUME NEW a, Follow(s, n, x, a) PROVE Follow(s, n, x, a)'
  <2>1. PICK k, b : Back(n, x, a, k) /\ Front(s, n, x, k, b) /\ At(s, n, x, b)
    BY <1>4 DEF Follow
  <2>2. Stream(s, n, x, k)'
    BY <1>2, <2>1 DEF Stream
  <2>3. PICK e : Front(s, n, x, k, e)' /\ At(s, n, x, e)'
    BY <2>2 DEF Stream
  <2> QED BY <1>3, <2>1, <2>3 DEF Follow
<1>5. \A d \in Conn : Listens(d, n)' <=> Listens(d, n)
  BY <1>1 DEF Listens
<1>6. ASSUME NEW d \in Conn, d \notin closed', NEW k, Shows(d, x, k) PROVE Shows(d, x, k)'
  BY <1>1, <1>6, ClientShows
<1> QED BY <1>1, <1>4, <1>5, <1>6 DEF PipeInv

LEMMA ClientFile ==
  ASSUME Lasting, Apart, IInv, FileInv, \A c \in Conn : LastInv(c),
         NEW c \in Conn, UserActs(c) \/ UserThread(c) \/ ReceiveThread(c), UNCHANGED server
  PROVE  FileInv'
<1>1. /\ Types /\ ConnInv(c) /\ LastInv(c) /\ ServiceType
      /\ \A n \in Name : QueueInv(n)
      /\ \A d \in Conn : (crashed \/ SendInv(d)) /\ InboxInv(d) /\ DiskInv(d) /\ ComingInv(d)
      /\ DOMAIN Registered \subseteq DOMAIN account
      /\ \A s \in Conn : \A n \in Knocks[s], x \in Openable : PipeInv(s, n, x)
  BY DEF IInv, FileInv
<1>2. ServiceType' /\ crashed' = crashed /\ account' = account /\ queue' = queue
  BY <1>1, ClientAside DEF server, accounts
<1>3. ASSUME NEW d \in Conn, ~crashed PROVE SendInv(d)'
  <2>1. CASE d = c
    BY <1>1, <1>3, <2>1, ClientSend
  <2>2. CASE d # c
    <3>1. Untouched(d) /\ service'[d] = service[d] /\ rf_list'[d] = rf_list[d]
      BY <1>1, <2>2, ClientAside
    <3> QED BY <1>1, <1>3, <3>1, BesideSend
  <2> QED BY <2>1, <2>2
<1>4. ASSUME NEW d \in Conn PROVE InboxInv(d)' /\ DiskInv(d)'
  BY <1>1, ClientInbox
<1>5. ASSUME NEW d \in Conn PROVE ComingInv(d)'
  BY <1>1, ClientComing
<1>6. ASSUME NEW n \in Name PROVE QueueInv(n)'
  <2>1. Jobs(n)' = Jobs(n)
    BY <1>2 DEF Jobs
  <2> QED BY <1>1, <2>1 DEF QueueInv, Fine, Whole
<1>7. ASSUME NEW s \in Conn, NEW n \in Knocks[s], NEW x \in Openable PROVE PipeInv(s, n, x)'
  <2>1. (crashed \/ SendInv(s)) /\ InboxInv(c) /\ PipeInv(s, n, x)
    BY <1>1
  <2> QED BY <1>1, <2>1, ClientPipe
<1> QED BY <1>1, <1>2, <1>3, <1>4, <1>5, <1>6, <1>7 DEF FileInv
-----------------------------------------------------------------------------
(* Files arrive whole. *)

LEMMA FileInit == ASSUME Init PROVE FileInv
<1>1. /\ service = [c \in Conn |-> "m"] /\ account = Registered
      /\ \A c \in Conn : /\ handler[c].buf = <<>> /\ Ahead(c) = <<>> /\ ~handler[c].istonextstage
                         /\ toClient[c] = <<>> /\ state[c] = "offline" /\ service[c] = "m" /\ rf_list[c] = <<>>
                         /\ receiver[c].open = {} /\ \A x \in File : disk[c][x] = <<>>
      /\ \A n \in Name : queue[n] = <<>>
  <2>1. <<>> \o <<>> = <<>>
    BY ConcatEmptySeq, EmptySeq
  <2> QED BY <2>1 DEF Init, WireInit, ServerInit, ClientInit, Ahead
<1>2. DOMAIN <<>> = {} /\ Len(<<>>) = 0
  OBVIOUS
<1>3. \A n \in Name : Jobs(n) = <<>>
  BY <1>1, <1>2 DEF Jobs
<1>4. \A X, x : Leads(<<>>, X, x, 0, 0)
  BY <1>2, LeadsNowhere
<1>5. ASSUME NEW c \in Conn PROVE SendInv(c) /\ InboxInv(c) /\ DiskInv(c) /\ ComingInv(c)
  <2>1. SendInv(c)
    BY <1>1, <1>2 DEF SendInv, AskInv, HeldInv, PostInv, Posted, Free, Distinct
  <2>2. InboxInv(c) /\ DiskInv(c)
    BY <1>1, <1>2 DEF InboxInv, DiskInv, Free, Grown
  <2>3. ComingInv(c)
    BY <1>1, <1>4 DEF ComingInv, Shows, Pos
  <2> QED BY <2>1, <2>2, <2>3
<1>6. ASSUME NEW s \in Conn, NEW n \in Knocks[s], NEW x \in Openable PROVE PipeInv(s, n, x)
  <2>1. n \in Name
    BY ClientAssumption, WireAssumption
  <2>2. Back(n, x, 0, 0) /\ Front(s, n, x, 0, 0)
    BY <1>1, <1>3, <1>4, <2>1 DEF Back, Front
  <2>3. At(s, n, x, 0)
    BY <1>1 DEF At, Unended
  <2> QED BY <1>1, <2>2, <2>3 DEF PipeInv, Listens, Follow
<1> QED BY <1>1, <1>2, <1>3, <1>5, <1>6 DEF FileInv, ServiceType, QueueInv

LEMMA FileNext ==
  ASSUME Lasting, WholeReads, Apart, IInv, SignInv, TargetInv, \A c \in Conn : LastInv(c), FileInv, Room, [Next]_vars
  PROVE  FileInv'
<1>1. ASSUME NEW c \in Conn, ServerStep(c) PROVE FileInv'
  BY <1>1, ServerFile DEF ServerStep
<1>2. ASSUME NEW c \in Conn, UserStep(c) \/ ThreadStep(c) PROVE FileInv'
  BY <1>2, ClientFile DEF UserStep, ThreadStep
<1>3. CASE UNCHANGED vars
  <2>1. UNCHANGED <<toServer, toClient, closed, crashed, account, queue, handler, delivery, state, username, dst_usr,
                    service, rf_list, rf_ptr, receiver, disk>>
    BY <1>3 DEF vars, wire, server, accounts, client, user, files, inbox
  <2>2. ServiceType' /\ DOMAIN Registered \subseteq DOMAIN account'
    BY <2>1 DEF FileInv, ServiceType
  <2>3. /\ \A n : Jobs(n)' = Jobs(n) /\ \A c : Ahead(c)' = Ahead(c) /\ Listens(c, n)' = Listens(c, n)
        /\ \A c, x, k : Shows(c, x, k)' <=> Shows(c, x, k)
        /\ \A c : Alone(c)' <=> Alone(c)
    BY <2>1 DEF Jobs, Ahead, Listens, Shows, Pos, Leads, Of, After, Alone
  <2>4. ASSUME NEW d \in Conn
        PROVE  /\ (crashed \/ SendInv(d))' /\ InboxInv(d)' /\ DiskInv(d)' /\ ComingInv(d)'
               /\ \A n, x, a : SendInv(d) /\ Stream(d, n, x, a) => Stream(d, n, x, a)'
    <3>1. Untouched(d) /\ service'[d] = service[d] /\ rf_list'[d] = rf_list[d] /\ rf_ptr'[d] = rf_ptr[d]
      BY <1>3 DEF Untouched, vars, wire, server, client, user, files, inbox
    <3>2. (crashed \/ SendInv(d)) /\ InboxInv(d) /\ DiskInv(d) /\ ComingInv(d)
      BY DEF FileInv
    <3>3. InboxInv(d)' <=> InboxInv(d)
      BY <2>1 DEF InboxInv, Fine, Whole, Free
    <3>4. DiskInv(d)' <=> DiskInv(d)
      BY <2>1, <2>3 DEF DiskInv, Grown
    <3>5. ComingInv(d)'
      BY <2>1, <2>3, <3>2 DEF ComingInv
    <3> QED BY <2>1, <3>1, <3>2, <3>3, <3>4, <3>5, BesideSend, BesideStream
  <2>5. ASSUME NEW n \in Name PROVE QueueInv(n)'
    BY <2>3 DEF FileInv, QueueInv, Fine, Whole
  <2>6. ASSUME NEW s \in Conn, NEW n \in Knocks[s], NEW x \in Openable PROVE PipeInv(s, n, x)'
    <3> SUFFICES ASSUME ~crashed PROVE PipeInv(s, n, x)'
      BY <2>1 DEF PipeInv
    <3>1. PipeInv(s, n, x) /\ SendInv(s)
      BY DEF FileInv
    <3>2. \A a, b : Back(n, x, a, b) => Back(n, x, a, b)'
      BY <2>3 DEF Back, Leads, Of, After
    <3>3. ASSUME NEW a, Follow(s, n, x, a) PROVE Follow(s, n, x, a)'
      <4>1. PICK k, b : Back(n, x, a, k) /\ Front(s, n, x, k, b) /\ At(s, n, x, b)
        BY <3>3 DEF Follow
      <4>2. Stream(s, n, x, k)'
        BY <2>4, <3>1, <4>1 DEF Stream
      <4>3. PICK e : Front(s, n, x, k, e)' /\ At(s, n, x, e)'
        BY <4>2 DEF Stream
      <4> QED BY <3>2, <4>1, <4>3 DEF Follow
    <3> QED BY <2>1, <2>3, <3>1, <3>3 DEF PipeInv
  <2> QED BY <2>2, <2>4, <2>5, <2>6 DEF FileInv
<1> QED BY <1>1, <1>2, <1>3 DEF Next

\* What is closed has been sent by one client, from the first text to the last.
LEMMA ClosedIsWhole ==
  ASSUME Types, LoginInv, FileInv, NEW c \in Conn, ConnInv(c), NEW x \in File, ClosesFile(c, x)
  PROVE  \E s \in Conn : disk'[c][x] =
           [k \in 1 .. FileLength[x] |-> [by |-> s, to |-> username[c], n |-> k]]
<1> DEFINE n == username[c]
<1>1. InboxInv(c) /\ DiskInv(c) /\ ComingInv(c)
  BY DEF FileInv
<1>2. PICK e : e = Head(toClient[c])
  OBVIOUS
<1>3. WriteFile(c) /\ e.file = x /\ e.seg = 0
  BY <1>2 DEF ClosesFile
<1>4. PICK d : d = Base(c, x)
  OBVIOUS
<1>5. /\ c \notin closed /\ handler[c].istonextstage /\ x \in Openable
      /\ d \in Seq(Text) /\ Pos(c, x) = Len(d) /\ disk'[c][x] = d
  <2>1. /\ c \notin closed /\ handler[c].istonextstage /\ e.file \in Openable
        /\ Base(c, x) \in Seq(Text) /\ Pos(c, x) = Len(Base(c, x))
        /\ x = e.file /\ e.seg = 0 => disk'[c][x] = Base(c, x)
    BY <1>1, <1>2, <1>3, Written
  <2> QED BY <1>3, <1>4, <2>1
<1>6. Alone(c)
  BY <1>5, OneLogin DEF Alone
<1>7. Grown(d, n)
  BY <1>1, <1>4, <1>6 DEF DiskInv, Base, Grown
<1>8. Len(d) = FileLength[x] /\ Len(d) \in Nat
  <2>1. PICK k : Shows(c, x, k)
    BY <1>1, <1>5, <1>6 DEF ComingInv
  <2>2. e.seg = After(x, Pos(c, x))
    BY <1>1, <1>2, <1>3, <2>1, WrittenShows
  <2>3. Len(d) \in Nat
    BY <1>5, LenProperties
  <2> QED BY <1>3, <1>5, <2>2, <2>3 DEF After
<1>9. DOMAIN d = 1 .. Len(d) /\ d = [k \in DOMAIN d |-> d[k]]
  BY <1>5, LenProperties, SeqDef
<1>10. PICK s \in Conn : \A j \in DOMAIN d : d[j] = [by |-> s, to |-> n, n |-> j]
  <2>1. CASE DOMAIN d = {}
    BY <2>1
  <2>2. CASE DOMAIN d # {}
    <3>1. PICK i \in DOMAIN d : TRUE
      BY <2>2
    <3>2. PICK s \in Conn : n \in Knocks[s] /\ d[i] = [by |-> s, to |-> n, n |-> i]
      BY <1>7 DEF Grown
    <3>3. ASSUME NEW j \in DOMAIN d PROVE d[j] = [by |-> s, to |-> n, n |-> j]
      <4>1. PICK r \in Conn : n \in Knocks[r] /\ d[j] = [by |-> r, to |-> n, n |-> j]
        BY <1>7 DEF Grown
      <4>2. r = s
        BY <3>2, <4>1, OneOfEach
      <4> QED BY <4>1, <4>2
    <3> QED BY <3>3
  <2> QED BY <2>1, <2>2
<1>11. d = [k \in 1 .. FileLength[x] |-> [by |-> s, to |-> n, n |-> k]]
  BY <1>8, <1>9, <1>10
<1> QED BY <1>5, <1>11

\* A file that is closed as complete is the whole of what one client sent, its
\* segments in order and none missing: as long as no user kills a client and no
\* client ends in the middle of its list (Lasting), read() returns whole
\* commands, which it does for files of one short segment only (WholeReads), a
\* list names no file twice (Apart), and no queue is ever full (Room).
THEOREM FilesWhole ==
  ASSUME Lasting, WholeReads, Apart PROVE Spec /\ []Room => FilesAreWhole
<1>1. Init => FileInv
  BY FileInit
<1>2. /\ IInv /\ SignInv /\ TargetInv /\ (\A c \in Conn : LastInv(c))
      /\ FileInv /\ Room /\ [Next]_vars
      => FileInv'
  BY FileNext
<1>3. IInv /\ LoginInv /\ FileInv
      => \A c \in Conn, x \in File : ClosesFile(c, x) =>
           \E s \in Conn : disk'[c][x] =
             [k \in 1 .. FileLength[x] |-> [by |-> s, to |-> username[c], n |-> k]]
  BY ClosedIsWhole DEF IInv
<1> QED BY <1>1, <1>2, <1>3, LoginsAreApart, Targeted, PTL DEF Spec, FilesAreWhole
=============================================================================
