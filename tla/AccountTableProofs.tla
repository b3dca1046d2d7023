------------------------- MODULE AccountTableProofs -------------------------
(***************************************************************************)
(* Proofs about AccountTable, for any number of threads, accounts, names   *)
(* and passwords, when at most one thread calls create_account() and no    *)
(* string has exactly the length of the limit.                             *)
(***************************************************************************)
EXTENDS AccountTable, FiniteSetTheorems, TLAPS

Proviso == /\ \A s, t \in Creators : s = t
           /\ Brimful = {}

(***************************************************************************)
(* The inductive invariant.  An entry below accountcnt is final.  A thread *)
(* that scans has passed no entry with its name; one that has found an     *)
(* entry is at a final one; the creator fills the entry at accountcnt,     *)
(* which nobody else touches, and the name it fills in is new.             *)
(***************************************************************************)
Filling  == {"load_username", "username", "load_password", "password", "load_isOnline",
             "isOnline", "load_unused", "unused", "load_accountcnt", "accountcnt"}
Acts     == {"authenticate", "is_online", "logout_account", "job_assign"}

Entries ==
  /\ \A k \in Published : username[k] \in Name /\ password[k] \in Password
  /\ UniqueNames

\* The name of thread t is not in the first entries up to limit.
Absent(t, limit) == \A k \in 0 .. limit - 1 : username[k] # request[t].name

Calling(t) ==
  /\ request[t] \in Request
  /\ request[t].op = "create_account" => t \in Creators
  /\ answer[t] # Pending => request[t].op = "logout_account" /\ answer[t] = 0
  /\ pc[t] \in Filling \cup {"limits"} => request[t].op = "create_account"
  /\ pc[t] \in Acts => pc[t] = request[t].op
  /\ pc[t] = "set_online" => request[t].op = "authenticate"
  /\ pc[t] \in {"limits", "authenticate", "set_online", "is_online", "job_assign"}
       => answer[t] = Pending

Searching(t) ==
  /\ pc[t] \in {"bound", "compare"} => /\ i[t] <= accountcnt
                                       /\ answer[t] = Pending => Absent(t, i[t])
                                       /\ request[t].op = "create_account" => accountcnt < MAX_ACCOUNT_CNT
  /\ pc[t] = "compare" => i[t] < accountcnt
  /\ pc[t] \in Acts \cup {"set_online"} => i[t] < accountcnt /\ username[i[t]] = request[t].name
  /\ pc[t] = "set_online" => password[i[t]] = request[t].password
  /\ answer[t] # Pending => \E k \in Published : k < i[t] /\ username[k] = request[t].name

Fills(t) ==
  /\ accountcnt < MAX_ACCOUNT_CNT /\ Absent(t, accountcnt)
  /\ pc[t] \in {"username", "password", "isOnline", "unused", "accountcnt"} => reg[t] = accountcnt
  /\ pc[t] \notin {"load_username", "username"} => username[accountcnt] = request[t].name
  /\ pc[t] \notin {"load_username", "username", "load_password", "password"} =>
       password[accountcnt] = request[t].password
  /\ pc[t] \in {"load_unused", "unused", "load_accountcnt", "accountcnt"} => isOnline[accountcnt] = 0
  /\ pc[t] \in {"load_accountcnt", "accountcnt"} => unused[accountcnt] = TRUE

ThreadInv(t) ==
  /\ pc[t] = "idle" => request[t] = None /\ answer[t] # Pending
  /\ pc[t] \in {"idle", "limits"} => i[t] = 0
  /\ pc[t] # "idle" => Calling(t) /\ Searching(t)
  /\ pc[t] \in Filling => Fills(t)

IInv == TypeOK /\ Entries /\ \A t \in Threads : ThreadInv(t)
-----------------------------------------------------------------------------
LEMMA RequestFields ==
  ASSUME NEW r \in Request
  PROVE  /\ r.name \in Name
         /\ r.op \in {"create_account", "authenticate", "is_online", "logout_account", "job_assign"}
         /\ r.op \in {"create_account", "authenticate"} => r.password \in Password
BY DEF Request

\* Without brimful strings an entry reads as it was written.
LEMMA ReadsBack == Proviso => \A k \in Index : ReadName(k) = username[k] /\ ReadPassword(k) = password[k]
BY DEF Proviso, ReadName, ReadPassword

LEMMA InvInit == Init => IInv
BY TableAssumption DEF Init, IInv, TypeOK, Entries, UniqueNames, Published, ThreadInv, Index, Filling

(***************************************************************************)
(* What a step of t leaves alone: everything the threads beside t hold,    *)
(* the final entries and, unless t is the creator, the entry being filled. *)
(***************************************************************************)
Beside(t) ==
  /\ \A u \in Threads \ {t} : /\ pc'[u] = pc[u] /\ i'[u] = i[u] /\ reg'[u] = reg[u]
                              /\ request'[u] = request[u] /\ answer'[u] = answer[u]
  /\ accountcnt <= accountcnt'
  /\ \A k \in Published : username'[k] = username[k] /\ password'[k] = password[k]
  /\ t \notin Creators =>
       /\ accountcnt' = accountcnt /\ username' = username /\ password' = password
       /\ accountcnt < MAX_ACCOUNT_CNT => /\ isOnline'[accountcnt] = isOnline[accountcnt]
                                          /\ unused'[accountcnt] = unused[accountcnt]

LEMMA OthersKeep ==
  ASSUME Proviso, IInv, TypeOK', NEW t \in Threads, Beside(t), NEW u \in Threads \ {t}
  PROVE  ThreadInv(u)'
<1> USE DEF IInv
<1>1. /\ accountcnt \in Nat /\ accountcnt' \in Nat /\ accountcnt <= accountcnt'
      /\ i[u] \in Nat /\ accountcnt <= MAX_ACCOUNT_CNT /\ accountcnt' <= MAX_ACCOUNT_CNT
  BY TableAssumption DEF Beside, TypeOK
<1>2. /\ pc'[u] = pc[u] /\ i'[u] = i[u] /\ reg'[u] = reg[u]
      /\ request'[u] = request[u] /\ answer'[u] = answer[u]
  BY DEF Beside
<1>3. ThreadInv(u)
  OBVIOUS
<1>4. pc[u] # "idle" => Calling(u)'
  BY <1>2, <1>3 DEF ThreadInv, Calling
<1>5. ASSUME pc[u] # "idle", request[u].op = "create_account" PROVE t \notin Creators
  BY <1>3, <1>5 DEF ThreadInv, Calling, Proviso
<1>6. ASSUME pc[u] # "idle" PROVE Searching(u)'
  <2>1. Searching(u) /\ Calling(u)
    BY <1>3, <1>6 DEF ThreadInv
  <2>2. pc[u] \in {"bound", "compare"} =>
          /\ i[u] <= accountcnt'
          /\ answer[u] = Pending => \A k \in 0 .. i[u] - 1 : username'[k] # request[u].name
    <3>1. ASSUME i[u] <= accountcnt, Absent(u, i[u]), NEW k \in 0 .. i[u] - 1
          PROVE  username'[k] # request[u].name
      BY <3>1, <1>1 DEF Absent, Beside, Published
    <3> QED BY <3>1, <2>1, <1>1 DEF Searching
  <2>3. request[u].op = "create_account" => accountcnt' = accountcnt
    BY <1>5, <1>6 DEF Beside
  <2>4. \A k \in Published : k \in Published' /\ username'[k] = username[k] /\ password'[k] = password[k]
    BY <1>1 DEF Beside, Published
  <2>5. pc[u] \in Acts \cup {"set_online"} => i[u] \in Published
    BY <2>1, <1>1 DEF Searching, Published
  <2>6. pc[u] \in Acts \cup {"set_online"} => i[u] < accountcnt' /\ username'[i[u]] = request[u].name
    BY <2>1, <2>4, <2>5, <1>1 DEF Searching
  <2>7. pc[u] = "set_online" => password'[i[u]] = request[u].password
    BY <2>1, <2>4, <2>5 DEF Searching
  <2>8. answer[u] # Pending => \E k \in Published' : k < i[u] /\ username'[k] = request[u].name
    BY <2>1, <2>4 DEF Searching
  <2>9. pc[u] = "compare" => i[u] < accountcnt'
    BY <2>1, <1>1 DEF Searching
  <2>10. pc[u] \in {"bound", "compare"} /\ request[u].op = "create_account" => accountcnt' < MAX_ACCOUNT_CNT
    BY <2>1, <2>3 DEF Searching
  <2> QED BY <2>2, <2>6, <2>7, <2>8, <2>9, <2>10, <1>2 DEF Searching, Absent
<1>7. ASSUME pc[u] \in Filling PROVE Fills(u)'
  <2>1. Fills(u) /\ t \notin Creators
    BY <1>3, <1>5, <1>7 DEF ThreadInv, Calling, Filling
  <2> QED BY <2>1, <1>2 DEF Fills, Beside, Absent
<1> QED BY <1>2, <1>3, <1>4, <1>6, <1>7 DEF ThreadInv

\* A step of t that only moves its own locals.
LEMMA ReadsOnly ==
  ASSUME TypeOK, NEW t \in Threads, UNCHANGED table,
         \A u \in Threads \ {t} : /\ pc'[u] = pc[u] /\ i'[u] = i[u] /\ reg'[u] = reg[u]
                                /\ request'[u] = request[u] /\ answer'[u] = answer[u]
  PROVE  Beside(t)
BY TableAssumption DEF Beside, table, TypeOK

LEMMA CallKeeps ==
  ASSUME Proviso, IInv, NEW t \in Threads, Call(t)
  PROVE  TypeOK' /\ Beside(t) /\ ThreadInv(t)'
<1> USE DEF IInv
<1>1. PICK r \in Request :
        /\ r.op = "create_account" => t \in Creators
        /\ request' = [request EXCEPT ![t] = r]
        /\ pc' = [pc EXCEPT ![t] = IF r.op = "create_account" THEN "limits" ELSE "bound"]
  BY DEF Call
<1>2. /\ pc[t] = "idle" /\ answer' = [answer EXCEPT ![t] = Pending] /\ UNCHANGED <<table, i, reg, created>>
  BY DEF Call
<1>3. TypeOK'
  BY <1>1, <1>2 DEF TypeOK, table
<1>4. Beside(t)
  <2>1. \A u \in Threads \ {t} : /\ pc'[u] = pc[u] /\ i'[u] = i[u] /\ reg'[u] = reg[u]
                                /\ request'[u] = request[u] /\ answer'[u] = answer[u]
    BY <1>1, <1>2 DEF TypeOK
  <2> QED BY <2>1, <1>2, ReadsOnly
<1>5. i[t] = 0
  BY <1>2 DEF ThreadInv
<1>6. /\ request'[t] = r /\ answer'[t] = Pending /\ i'[t] = 0
      /\ pc'[t] = IF r.op = "create_account" THEN "limits" ELSE "bound"
  BY <1>1, <1>2, <1>5 DEF TypeOK
<1> QED BY <1>1, <1>3, <1>4, <1>6, TableAssumption
        DEF ThreadInv, Calling, Searching, Filling, Acts, Absent, TypeOK, table

\* A thread that returns is as it was before its call.
LEMMA Returns ==
  ASSUME TypeOK, NEW t \in Threads, NEW v \in -2 .. 4, Return(t, v)
  PROVE  /\ ThreadInv(t)'
         /\ pc' \in [Threads -> {"idle"} \cup {pc[u] : u \in Threads}]
         /\ i' \in [Threads -> 0 .. MAX_ACCOUNT_CNT] /\ reg' \in [Threads -> 0 .. MAX_ACCOUNT_CNT]
         /\ request' \in [Threads -> Request \cup {None}]
         /\ answer' \in [Threads -> -2 .. 4 \cup {Pending}]
         /\ \A u \in Threads \ {t} : /\ pc'[u] = pc[u] /\ i'[u] = i[u] /\ reg'[u] = reg[u]
                                    /\ request'[u] = request[u] /\ answer'[u] = answer[u]
<1> USE DEF Return, TypeOK
<1>1. ThreadInv(t)'
  BY TableAssumption DEF ThreadInv, Filling
<1>2. pc' \in [Threads -> {"idle"} \cup {pc[u] : u \in Threads}]
  OBVIOUS
<1>3. 0 \in 0 .. MAX_ACCOUNT_CNT
  BY TableAssumption
<1> QED BY <1>1, <1>2, <1>3

\* The steps that return without having changed the table.
LEMMA ReturnKeeps ==
  ASSUME Proviso, IInv, NEW t \in Threads,
         EndOfTable(t) \/ NameTaken(t) \/ PasswordDiffers(t) \/ IsOnline(t) \/ Refuse(t)
  PROVE  TypeOK' /\ Beside(t) /\ ThreadInv(t)'
<1> USE DEF IInv
<1>1. UNCHANGED <<table, created>>
  BY DEF EndOfTable, NameTaken, PasswordDiffers, IsOnline, Refuse
<1>2. \E v \in -2 .. 4 : Return(t, v)
  <2>1. CASE EndOfTable(t)
    <3>1. pc[t] = "bound" /\ request[t].op # "create_account" /\ Return(t, NoMatch[request[t].op])
      BY <2>1 DEF EndOfTable
    <3>2. request[t] \in Request
      BY <3>1 DEF ThreadInv, Calling
    <3>3. request[t].op \in Acts
      BY <3>1, <3>2, RequestFields DEF Acts
    <3>4. NoMatch[request[t].op] \in -2 .. 4
      BY <3>3 DEF NoMatch, Acts
    <3> QED BY <3>1, <3>4
  <2>2. CASE NameTaken(t)
    BY <2>2 DEF NameTaken
  <2>3. CASE PasswordDiffers(t)
    BY <2>3 DEF PasswordDiffers
  <2>4. CASE IsOnline(t)
    <3>1. i[t] < accountcnt /\ pc[t] = "is_online"
      BY <2>4 DEF IsOnline, ThreadInv, Searching, Acts
    <3>2. isOnline[i[t]] \in {0, 1}
      BY <3>1, TableAssumption DEF TypeOK, Index
    <3> QED BY <2>4, <3>2 DEF IsOnline
  <2>5. CASE Refuse(t)
    BY <2>5 DEF Refuse
  <2> QED BY <2>1, <2>2, <2>3, <2>4, <2>5
<1>3. PICK v \in -2 .. 4 : Return(t, v)
  BY <1>2
<1>4. ThreadInv(t)' /\ Beside(t)
  BY <1>1, <1>3, Returns, ReadsOnly
<1>5. TypeOK'
  BY <1>1, <1>3, Returns DEF TypeOK, table
<1> QED BY <1>4, <1>5

\* The steps that look at the table and go on.
LEMMA GoOnKeeps ==
  ASSUME Proviso, IInv, NEW t \in Threads,
         \/ InBound(t) \/ NameIsFree(t) \/ NameDiffers(t) \/ NameFound(t)
         \/ PasswordMatches(t) \/ WithinLimits(t) \/ LoadCount(t)
  PROVE  TypeOK' /\ Beside(t) /\ ThreadInv(t)'
<1> USE DEF IInv
<1>1. UNCHANGED <<table, created, request, answer>>
  BY DEF InBound, NameIsFree, NameDiffers, NameFound, PasswordMatches, WithinLimits, LoadCount
<1>2. /\ accountcnt \in 0 .. MAX_ACCOUNT_CNT /\ i[t] \in 0 .. MAX_ACCOUNT_CNT /\ MAX_ACCOUNT_CNT \in Nat
      /\ pc[t] # "idle" /\ Calling(t) /\ Searching(t) /\ request[t] \in Request
  BY TableAssumption DEF InBound, NameIsFree, NameDiffers, NameFound, PasswordMatches, WithinLimits,
                         LoadCount, Goto, TypeOK, ThreadInv, Calling
<1>3. pc[t] = "compare" => ReadName(i[t]) = username[i[t]]
  BY <1>2, ReadsBack DEF Searching, Index
<1>4. pc[t] = "authenticate" => ReadPassword(i[t]) = password[i[t]]
  BY <1>2, ReadsBack DEF Searching, Index, Acts
<1>5. TypeOK' /\ Beside(t)
  <2>1. /\ \A u \in Threads \ {t} : pc'[u] = pc[u] /\ i'[u] = i[u] /\ reg'[u] = reg[u]
        /\ i' \in [Threads -> 0 .. MAX_ACCOUNT_CNT]
        /\ reg' \in [Threads -> 0 .. MAX_ACCOUNT_CNT]
    <3>1. CASE NameDiffers(t)
      <4>1. i[t] + 1 \in 0 .. MAX_ACCOUNT_CNT
        BY <1>2, <3>1 DEF NameDiffers, Goto, Searching
      <4> QED BY <3>1, <4>1 DEF NameDiffers, Goto, TypeOK
    <3>2. CASE LoadCount(t)
      BY <3>2, <1>2 DEF LoadCount, Goto, TypeOK
    <3>3. CASE InBound(t) \/ NameIsFree(t) \/ NameFound(t) \/ PasswordMatches(t) \/ WithinLimits(t)
      BY <3>3 DEF InBound, NameIsFree, NameFound, PasswordMatches, WithinLimits, Goto, TypeOK
    <3> QED BY <3>1, <3>2, <3>3
  <2>2. \E p \in Filling \cup Acts \cup {"bound", "compare", "set_online"} : pc' = [pc EXCEPT ![t] = p]
    <3>1. CASE NameFound(t)
      <4>1. request[t].op \in Acts
        BY <3>1, <1>2, RequestFields DEF NameFound, Acts
      <4> QED BY <3>1, <4>1 DEF NameFound, Goto
    <3>2. CASE ~NameFound(t)
      BY <3>2 DEF InBound, NameIsFree, NameDiffers, PasswordMatches, WithinLimits, LoadCount, Goto, Filling
    <3> QED BY <3>1, <3>2
  <2>3. TypeOK'
    BY <1>1, <2>1, <2>2 DEF TypeOK, table, Filling, Acts
  <2> QED BY <1>1, <2>1, <2>3, ReadsOnly
<1>6. ThreadInv(t)'
  <2> USE <1>1, <1>2, <1>3, <1>4 DEF ThreadInv, Goto, table
  <2>1. CASE InBound(t)
    <3>1. i[t] < accountcnt /\ pc[t] = "bound" /\ pc'[t] = "compare" /\ i' = i
      BY <2>1 DEF InBound, TypeOK
    <3>2. Calling(t)'
      BY <3>1 DEF Calling, Filling, Acts
    <3>3. Searching(t)'
      BY <3>1 DEF Searching, Acts, Absent, Published
    <3> QED BY <3>1, <3>2, <3>3 DEF Filling
  <2>2. CASE NameIsFree(t)
    BY <2>2 DEF NameIsFree, Calling, Searching, Fills, Filling, Acts, Absent, TypeOK
  <2>3. CASE NameDiffers(t)
    <3>1. /\ pc[t] = "compare" /\ pc'[t] = "bound" /\ i'[t] = i[t] + 1
          /\ username[i[t]] # request[t].name
      BY <2>3 DEF NameDiffers, TypeOK
    <3>2. Calling(t)'
      BY <3>1 DEF Calling, Filling, Acts
    <3>3. answer[t] = Pending => \A k \in 0 .. i'[t] - 1 : username[k] # request[t].name
      BY <3>1 DEF Searching, Absent
    <3>4. Searching(t)'
      BY <3>1, <3>3 DEF Searching, Acts, Absent, Published
    <3> QED BY <3>1, <3>2, <3>4 DEF Filling
  <2>4. CASE NameFound(t)
    <3>1. /\ pc[t] = "compare" /\ pc'[t] = request[t].op /\ i' = i
          /\ username[i[t]] = request[t].name /\ request[t].op # "create_account"
      BY <2>4 DEF NameFound, TypeOK
    <3>2. request[t].op \in Acts
      BY <3>1, RequestFields DEF Acts
    <3>3. i[t] < accountcnt /\ (answer[t] = Pending => Absent(t, i[t]))
      BY <3>1 DEF Searching
    <3>4. answer[t] = Pending \/ request[t].op = "logout_account"
      BY DEF Calling
    <3>5. Calling(t)'
      BY <3>1, <3>2, <3>4 DEF Calling, Filling, Acts
    <3>6. Searching(t)'
      BY <3>1, <3>2, <3>3 DEF Searching, Acts, Published
    <3> QED BY <3>1, <3>2, <3>5, <3>6 DEF Filling, Acts
  <2>5. CASE PasswordMatches(t)
    BY <2>5 DEF PasswordMatches, Calling, Searching, Filling, Acts, Absent, TypeOK
  <2>6. CASE WithinLimits(t)
    <3>1. /\ pc[t] = "limits" /\ pc'[t] = "bound" /\ i' = i /\ accountcnt < MAX_ACCOUNT_CNT
      BY <2>6 DEF WithinLimits, TypeOK
    <3>2. i[t] = 0
      BY <3>1
    <3>3. Calling(t)' /\ Searching(t)'
      BY <3>1, <3>2 DEF Calling, Searching, Filling, Acts, Absent, Published
    <3> QED BY <3>1, <3>3 DEF Filling
  <2>7. CASE LoadCount(t)
    BY <2>7 DEF LoadCount, Calling, Searching, Fills, Filling, Acts, Absent, TypeOK
  <2> QED BY <2>1, <2>2, <2>3, <2>4, <2>5, <2>6, <2>7
<1> QED BY <1>5, <1>6

\* The steps that write to an entry they have found.
LEMMA ActKeeps ==
  ASSUME Proviso, IInv, NEW t \in Threads, SetOnline(t) \/ SetOffline(t) \/ JobAssign(t)
  PROVE  TypeOK' /\ Beside(t) /\ ThreadInv(t)' /\ UNCHANGED <<username, password, accountcnt>>
<1> USE DEF IInv
<1>1. UNCHANGED <<username, password, accountcnt, created>>
  BY DEF SetOnline, SetOffline, JobAssign
<1>2. /\ accountcnt \in 0 .. MAX_ACCOUNT_CNT /\ i[t] \in 0 .. MAX_ACCOUNT_CNT /\ MAX_ACCOUNT_CNT \in Nat
      /\ i[t] < accountcnt /\ i[t] \in Index /\ i[t] # accountcnt
      /\ pc[t] # "idle" /\ Calling(t) /\ Searching(t)
  BY TableAssumption DEF SetOnline, SetOffline, JobAssign, Goto, TypeOK, Index, ThreadInv, Searching, Acts
<1>3. /\ isOnline' \in [Index -> {0, 1}] /\ unused' \in [Index -> BOOLEAN]
      /\ accountcnt < MAX_ACCOUNT_CNT => /\ isOnline'[accountcnt] = isOnline[accountcnt]
                                         /\ unused'[accountcnt] = unused[accountcnt]
  <2>1. /\ isOnline' = isOnline \/ \E v \in {0, 1} : isOnline' = [isOnline EXCEPT ![i[t]] = v]
        /\ unused' = unused \/ unused' = [unused EXCEPT ![i[t]] = FALSE]
    BY DEF SetOnline, SetOffline, JobAssign
  <2>2. isOnline' \in [Index -> {0, 1}] /\ unused' \in [Index -> BOOLEAN]
    BY <2>1 DEF TypeOK
  <2>3. accountcnt < MAX_ACCOUNT_CNT => accountcnt \in Index
    BY <1>2 DEF Index
  <2> QED BY <1>2, <2>1, <2>2, <2>3 DEF TypeOK
<1>4. CASE SetOnline(t) \/ JobAssign(t)
  <2>1. Return(t, 0)
    BY <1>4 DEF SetOnline, JobAssign
  <2>2. ThreadInv(t)' /\ TypeOK'
    BY <1>1, <1>3, <2>1, Returns DEF TypeOK
  <2>3. Beside(t)
    BY <1>1, <1>2, <1>3, <2>1, Returns DEF Beside
  <2> QED BY <1>1, <2>2, <2>3
<1>5. CASE SetOffline(t)
  <2>1. /\ pc[t] = "logout_account" /\ pc' = [pc EXCEPT ![t] = "bound"]
        /\ i' = [i EXCEPT ![t] = @ + 1] /\ answer' = [answer EXCEPT ![t] = 0]
        /\ UNCHANGED <<reg, request>>
    BY <1>5 DEF SetOffline, Goto
  <2>2. i[t] + 1 \in 0 .. MAX_ACCOUNT_CNT
    BY <1>2
  <2>3. TypeOK'
    BY <1>1, <1>3, <2>1, <2>2 DEF TypeOK
  <2>4. Beside(t)
    BY <1>1, <1>2, <1>3, <2>1 DEF Beside, TypeOK
  <2>5. /\ pc'[t] = "bound" /\ i'[t] = i[t] + 1 /\ answer'[t] = 0 /\ answer'[t] # Pending
        /\ request[t].op = "logout_account" /\ username[i[t]] = request[t].name
        /\ i[t] \in Published
    BY <1>2, <2>1, TableAssumption DEF TypeOK, Calling, Searching, Acts, Published
  <2>6. Calling(t)'
    BY <1>2, <2>1, <2>5 DEF Calling, Filling, Acts
  <2>7. Searching(t)'
    BY <1>1, <1>2, <2>1, <2>5 DEF Searching, Acts, Published
  <2>8. ThreadInv(t)'
    BY <2>5, <2>6, <2>7 DEF ThreadInv, Filling
  <2> QED BY <1>1, <2>3, <2>4, <2>8
<1> QED BY <1>4, <1>5

\* The steps that fill the entry at accountcnt.
LEMMA FillKeeps ==
  ASSUME Proviso, IInv, NEW t \in Threads,
         StoreName(t) \/ StorePassword(t) \/ StoreOffline(t) \/ StoreUnused(t)
  PROVE  /\ TypeOK' /\ Beside(t) /\ ThreadInv(t)' /\ UNCHANGED accountcnt /\ t \in Creators
         /\ \A k \in Published : isOnline'[k] = isOnline[k] /\ unused'[k] = unused[k]
<1> USE DEF IInv
<1>1. UNCHANGED <<accountcnt, i, reg, request, answer, created>>
  BY DEF StoreName, StorePassword, StoreOffline, StoreUnused
<1>2. /\ pc[t] \in Filling /\ reg[t] = accountcnt /\ accountcnt \in Index /\ t \in Creators
      /\ Calling(t) /\ Searching(t) /\ Fills(t)
      /\ request[t].name \in Name /\ request[t].password \in Password
  <2>1. pc[t] \in {"username", "password", "isOnline", "unused"}
    BY DEF StoreName, StorePassword, StoreOffline, StoreUnused, Goto
  <2>2. Calling(t) /\ Searching(t) /\ Fills(t)
    BY <2>1 DEF ThreadInv, Filling
  <2>3. request[t] \in Request /\ request[t].op = "create_account" /\ t \in Creators
    BY <2>1, <2>2 DEF Calling, Filling
  <2> QED BY <2>1, <2>2, <2>3, RequestFields, TableAssumption DEF Fills, Filling, TypeOK, Index
<1>3. /\ TypeOK'
      /\ \A u \in Threads \ {t} : pc'[u] = pc[u]
      /\ pc'[t] # "idle" /\ pc'[t] # "limits" /\ pc'[t] \in Filling
  BY <1>1, <1>2 DEF StoreName, StorePassword, StoreOffline, StoreUnused, Goto, TypeOK, Filling
<1>4. \A k \in Published : /\ username'[k] = username[k] /\ password'[k] = password[k]
                           /\ isOnline'[k] = isOnline[k] /\ unused'[k] = unused[k]
  <2>1. \A k \in Published : k \in Index /\ k # accountcnt
    BY <1>2, TableAssumption DEF Published, Index
  <2> QED BY <1>2, <2>1 DEF StoreName, StorePassword, StoreOffline, StoreUnused, TypeOK
<1>5. Beside(t)
  BY <1>1, <1>2, <1>3, <1>4 DEF Beside, TypeOK
<1>6. Calling(t)'
  BY <1>1, <1>2, <1>3 DEF Calling, Filling, Acts
<1>7. Searching(t)'
  <2>1. answer[t] = Pending
    BY <1>2 DEF Calling, Filling
  <2> QED BY <1>1, <1>3, <2>1 DEF Searching, Filling, Acts
<1>8. Absent(t, accountcnt)'
  <2>1. \A k \in 0 .. accountcnt - 1 : username'[k] = username[k]
    BY <1>4 DEF Published
  <2> QED BY <1>1, <1>2, <2>1 DEF Fills, Absent
<1>9. Fills(t)'
  <2> USE <1>1, <1>2, <1>3, <1>8 DEF Fills, Goto, TypeOK
  <2>1. CASE StoreName(t)
    BY <2>1 DEF StoreName
  <2>2. CASE StorePassword(t)
    BY <2>2 DEF StorePassword
  <2>3. CASE StoreOffline(t)
    BY <2>3 DEF StoreOffline
  <2>4. CASE StoreUnused(t)
    BY <2>4 DEF StoreUnused
  <2> QED BY <2>1, <2>2, <2>3, <2>4
<1> QED BY <1>1, <1>2, <1>3, <1>4, <1>5, <1>6, <1>7, <1>9 DEF ThreadInv

\* The step that makes the filled entry the last one of the table.
LEMMA PublishKeeps ==
  ASSUME Proviso, IInv, NEW t \in Threads, Publish(t)
  PROVE  /\ TypeOK' /\ Beside(t) /\ ThreadInv(t)' /\ Entries'
         /\ t \in Creators /\ Fills(t) /\ request[t].name \in Name /\ request[t].password \in Password
         /\ accountcnt' = accountcnt + 1 /\ answer[t] = Pending
         /\ request[t] \in Request /\ request[t].op = "create_account"
<1> USE DEF IInv
<1>1. /\ pc[t] = "accountcnt" /\ accountcnt' = reg[t] + 1 /\ created' = created \cup {request[t]}
      /\ Return(t, 0) /\ UNCHANGED <<username, password, isOnline, unused>>
  BY DEF Publish
<1>2. /\ Fills(t) /\ Calling(t) /\ reg[t] = accountcnt /\ answer[t] = Pending
      /\ request[t] \in Request /\ request[t].op = "create_account" /\ t \in Creators
  BY <1>1 DEF ThreadInv, Filling, Calling, Fills
<1>3. request[t].name \in Name /\ request[t].password \in Password
  BY <1>2, RequestFields
<1>4. /\ accountcnt' = accountcnt + 1 /\ accountcnt \in Nat /\ accountcnt < MAX_ACCOUNT_CNT
      /\ MAX_ACCOUNT_CNT \in Nat /\ accountcnt' \in 0 .. MAX_ACCOUNT_CNT
  BY <1>1, <1>2, TableAssumption DEF Fills, TypeOK
<1>5. TypeOK' /\ ThreadInv(t)'
  BY <1>1, <1>2, <1>4, Returns DEF TypeOK
<1>6. Beside(t)
  BY <1>1, <1>2, <1>4, Returns DEF Beside
<1>7. Entries'
  <2>1. /\ Published' = Published \cup {accountcnt}
        /\ username[accountcnt] = request[t].name /\ password[accountcnt] = request[t].password
        /\ \A k \in Published : username[k] # request[t].name
    BY <1>1, <1>2, <1>4 DEF Published, Fills, Absent
  <2> QED BY <1>1, <1>3, <2>1 DEF Entries, UniqueNames
<1> QED BY <1>2, <1>3, <1>4, <1>5, <1>6, <1>7

LEMMA EntriesKept ==
  ASSUME Entries, NEW t \in Threads, Beside(t), UNCHANGED accountcnt
  PROVE  Entries'
BY DEF Entries, UniqueNames, Beside, Published

LEMMA InvNext == Proviso /\ IInv /\ [Next]_vars => IInv'
<1> SUFFICES ASSUME Proviso, IInv, [Next]_vars PROVE IInv'
  OBVIOUS
<1>1. CASE UNCHANGED vars
  BY <1>1 DEF IInv, TypeOK, Entries, UniqueNames, Published, ThreadInv, Calling, Searching, Fills, Absent,
              vars, table, calls
<1>2. ASSUME NEW t \in Threads, Call(t) \/ Running(t)
      PROVE  TypeOK' /\ Beside(t) /\ ThreadInv(t)' /\ Entries'
  <2>1. CASE Call(t)
    BY <2>1, CallKeeps, EntriesKept DEF Call, table, IInv
  <2>2. CASE EndOfTable(t) \/ NameTaken(t) \/ PasswordDiffers(t) \/ IsOnline(t) \/ Refuse(t)
    <3>1. UNCHANGED accountcnt
      BY <2>2 DEF EndOfTable, NameTaken, PasswordDiffers, IsOnline, Refuse, table
    <3> QED BY <2>2, <3>1, ReturnKeeps, EntriesKept DEF IInv
  <2>3. CASE \/ InBound(t) \/ NameIsFree(t) \/ NameDiffers(t) \/ NameFound(t)
             \/ PasswordMatches(t) \/ WithinLimits(t) \/ LoadCount(t)
    <3>1. UNCHANGED accountcnt
      BY <2>3 DEF InBound, NameIsFree, NameDiffers, NameFound, PasswordMatches, WithinLimits, LoadCount, table
    <3> QED BY <2>3, <3>1, GoOnKeeps, EntriesKept DEF IInv
  <2>4. CASE SetOnline(t) \/ SetOffline(t) \/ JobAssign(t)
    BY <2>4, ActKeeps, EntriesKept DEF IInv
  <2>5. CASE StoreName(t) \/ StorePassword(t) \/ StoreOffline(t) \/ StoreUnused(t)
    BY <2>5, FillKeeps, EntriesKept DEF IInv
  <2>6. CASE Publish(t)
    BY <2>6, PublishKeeps
  <2> QED BY <1>2, <2>1, <2>2, <2>3, <2>4, <2>5, <2>6 DEF Running, Scanning, Acting, Creating
<1>3. ASSUME NEW t \in Threads, Call(t) \/ Running(t) PROVE IInv'
  BY <1>2, <1>3, OthersKeep DEF IInv
<1> QED BY <1>1, <1>3 DEF Next

LEMMA Inductive == ASSUME Proviso PROVE Spec => []IInv
BY InvInit, InvNext, PTL DEF Spec

\* With one creator and no brimful string, an index never leaves accountinfo.
THEOREM TypeCorrect == ASSUME Proviso PROVE Spec => []TypeOK
<1>1. IInv => TypeOK
  BY DEF IInv
<1> QED BY <1>1, Inductive, PTL

\* With one creator and no brimful string, a name has one entry, whatever
\* the other threads do meanwhile.
THEOREM NamesAreUnique == ASSUME Proviso PROVE Spec => []UniqueNames
<1>1. IInv => UniqueNames
  BY DEF IInv, Entries
<1> QED BY <1>1, Inductive, PTL
-----------------------------------------------------------------------------
(* The directory the table implements. *)

\* An entry is the only one of its name, so the directory reads as the table.
LEMMA Directories ==
  ASSUME IInv
  PROVE  /\ \A k \in Published : Slot(username[k]) = k
         /\ DOMAIN Accounts = {username[k] : k \in Published}
         /\ \A k \in Published : Accounts[username[k]] = password[k]
         /\ \A k \in Published : username[k] \in Online <=> isOnline[k] = 1
<1>1. ASSUME NEW k \in Published PROVE Slot(username[k]) = k
  <2>1. Slot(username[k]) \in Published /\ username[Slot(username[k])] = username[k]
    BY DEF Slot
  <2> QED BY <2>1 DEF IInv, Entries, UniqueNames
<1>2. DOMAIN Accounts = {username[k] : k \in Published}
  BY DEF Accounts, NamesOf
<1>3. ASSUME NEW k \in Published PROVE Accounts[username[k]] = password[k]
  <2>1. username[k] \in NamesOf(Published)
    BY DEF NamesOf
  <2> QED BY <1>1, <2>1 DEF Accounts
<1>4. ASSUME NEW k \in Published PROVE username[k] \in Online <=> isOnline[k] = 1
  BY DEF Online, NamesOf, IInv, Entries, UniqueNames
<1> QED BY <1>1, <1>2, <1>3, <1>4

\* The directory has as many names as there are entries.
LEMMA SameCardinality == ASSUME NEW S PROVE Dir!Cardinality(S) = Cardinality(S)
BY DEF Cardinality, Dir!Cardinality

LEMMA CountsEntries == ASSUME IInv PROVE Dir!Cardinality(Dir!Known) = accountcnt
<1>1. accountcnt \in Nat
  BY TableAssumption DEF IInv, TypeOK
<1>2. Dir!Known = {username[k] : k \in Published}
  BY Directories DEF Dir!Known
<1> DEFINE f == [k \in Published |-> username[k]]
<1>3. f \in Bijection(Published, Dir!Known)
  <2>1. f \in [Published -> Dir!Known] /\ \A n \in Dir!Known : \E k \in Published : f[k] = n
    BY <1>2
  <2>2. \A j, k \in Published : f[j] = f[k] => j = k
    BY DEF IInv, Entries, UniqueNames
  <2> QED BY <2>1, <2>2 DEF Bijection, Injection, Surjection, IsInjective
<1>4. IsFiniteSet(Published) /\ Cardinality(Published) = accountcnt
  BY <1>1, FS_Interval DEF Published
<1> QED BY <1>3, <1>4, FS_Bijection, SameCardinality DEF ExistsBijection

\* Entries, published ones unchanged, are the same directory.
LEMMA SameDirectory ==
  ASSUME IInv, IInv', UNCHANGED accountcnt,
         \A k \in Published : /\ username'[k] = username[k] /\ password'[k] = password[k]
                              /\ isOnline'[k] = isOnline[k] /\ unused'[k] = unused[k]
  PROVE  UNCHANGED <<Accounts, Online, Mail>>
<1>1. Published' = Published
  BY DEF Published
<1>2. Online' = Online /\ Mail' = Mail
  BY <1>1 DEF Online, Mail, NamesOf
<1>3. \A k \in Published : Slot(username[k]) = k /\ Slot(username[k])' = k
  BY <1>1 DEF Slot, IInv, Entries, UniqueNames
<1>4. NamesOf(Published)' = NamesOf(Published)
  BY <1>1 DEF NamesOf
<1>5. \A n \in NamesOf(Published) : password'[Slot(n)'] = password[Slot(n)]
  <2>1. ASSUME NEW k \in Published PROVE password'[Slot(username[k])'] = password[Slot(username[k])]
    BY <1>3
  <2> QED BY <2>1, <1>1 DEF NamesOf
<1>6. Accounts' = Accounts
  BY <1>4, <1>5 DEF Accounts
<1> QED BY <1>2, <1>6

\* A return of the code is an answer of the directory.
LEMMA Answers ==
  ASSUME IInv, NEW t \in Threads, NEW v \in -2 .. 4, pc[t] # "idle", answer[t] = Pending, Return(t, v)
  PROVE  Dir!Answer(t, request[t].op, v) /\ Asked[t] = request[t] /\ request[t] \in Request
<1>1. request[t] \in Request /\ request[t] # None
  BY TableAssumption DEF IInv, ThreadInv, Calling
<1>2. Asked[t] = request[t]
  BY DEF Asked
<1>3. answer' = [answer EXCEPT ![t] = v] /\ request' = [request EXCEPT ![t] = None] /\ v # Pending
  BY TableAssumption DEF Return
<1>4. Asked' = [Asked EXCEPT ![t] = None]
  BY <1>3 DEF Asked, IInv, TypeOK
<1> QED BY <1>1, <1>2, <1>3, <1>4 DEF Dir!Answer

\* A name the scan has not met is not in the directory.
LEMMA NotKnown ==
  ASSUME IInv, NEW t \in Threads, Absent(t, accountcnt)
  PROVE  request[t].name \notin Dir!Known /\ request[t].name \notin Online
BY Directories DEF Dir!Known, Absent, Published, Online, NamesOf

LEMMA ReturnImplements ==
  ASSUME Proviso, IInv, IInv', NEW t \in Threads,
         EndOfTable(t) \/ NameTaken(t) \/ PasswordDiffers(t) \/ IsOnline(t) \/ Refuse(t)
  PROVE  Dir!Next \/ UNCHANGED Dir!vars
<1> USE DEF IInv
<1>1. UNCHANGED table
  BY DEF EndOfTable, NameTaken, PasswordDiffers, IsOnline, Refuse
<1>2. UNCHANGED <<Accounts, Online, Mail>>
  BY <1>1, SameDirectory DEF table
<1>3. pc[t] # "idle" /\ Calling(t) /\ Searching(t)
  BY DEF EndOfTable, NameTaken, PasswordDiffers, IsOnline, Refuse, ThreadInv
<1>4. /\ accountcnt \in Nat /\ accountcnt <= MAX_ACCOUNT_CNT /\ i[t] \in Nat
      /\ i[t] < accountcnt => i[t] \in Published /\ i[t] \in Index
  BY TableAssumption DEF TypeOK, Published, Index
<1>5. CASE EndOfTable(t) /\ answer[t] = Pending
  <2>1. pc[t] = "bound" /\ i[t] >= accountcnt /\ request[t].op # "create_account"
        /\ Return(t, NoMatch[request[t].op])
    BY <1>5 DEF EndOfTable
  <2>2. request[t] \in Request /\ request[t].op \in Acts
    BY <1>3, <2>1, RequestFields DEF Calling, Acts
  <2>3. NoMatch[request[t].op] \in -2 .. 4
    BY <2>2 DEF NoMatch, Acts
  <2>4. Dir!Answer(t, request[t].op, NoMatch[request[t].op]) /\ Asked[t] = request[t]
    BY <1>3, <1>5, <2>1, <2>3, Answers
  <2>5. Absent(t, i[t]) /\ i[t] <= accountcnt
    BY <1>3, <1>5, <2>1 DEF Searching
  <2>6. i[t] = accountcnt
    BY <1>4, <2>1, <2>5
  <2>7. request[t].name \notin Dir!Known /\ request[t].name \notin Online
    BY <2>5, <2>6, NotKnown
  <2>8. CASE request[t].op = "authenticate"
    BY <2>4, <2>7, <2>8, <1>2 DEF NoMatch, Dir!Next, Dir!Authenticate
  <2>9. CASE request[t].op = "is_online"
    BY <2>4, <2>7, <2>9, <1>2 DEF NoMatch, Dir!Next, Dir!IsOnline
  <2>10. CASE request[t].op = "logout_account"
    <3>1. Online' = Online \ {request[t].name}
      BY <1>2, <2>7
    <3> QED BY <2>4, <2>10, <1>2, <3>1 DEF NoMatch, Dir!Next, Dir!Logout
  <2>11. CASE request[t].op = "job_assign"
    BY <2>4, <2>7, <2>11, <1>2 DEF NoMatch, Dir!Next, Dir!Assign
  <2> QED BY <2>2, <2>8, <2>9, <2>10, <2>11 DEF Acts
<1>6. CASE EndOfTable(t) /\ answer[t] # Pending
  <2>1. answer[t] = 0 /\ Return(t, 0)
    BY <1>3, <1>6 DEF EndOfTable, Calling, NoMatch
  <2>2. answer' = answer /\ Asked' = Asked
    BY <2>1, <1>6, TableAssumption DEF Return, TypeOK, Asked
  <2> QED BY <1>2, <2>2 DEF Dir!vars
<1>7. CASE NameTaken(t)
  <2>1. pc[t] = "compare" /\ request[t].op = "create_account" /\ Return(t, 1)
        /\ ReadName(i[t]) = request[t].name
    BY <1>7 DEF NameTaken
  <2>2. answer[t] = Pending /\ i[t] < accountcnt
    BY <1>3, <2>1 DEF Calling, Searching
  <2>3. username[i[t]] = request[t].name
    BY <1>4, <2>1, <2>2, ReadsBack
  <2>4. Dir!Answer(t, "create_account", 1) /\ Asked[t] = request[t]
    BY <1>3, <2>1, <2>2, Answers
  <2>5. request[t].name \in Dir!Known
    BY <1>4, <2>2, <2>3, Directories DEF Dir!Known
  <2> QED BY <1>2, <2>4, <2>5 DEF Dir!Next, Dir!Create
<1>8. CASE PasswordDiffers(t)
  <2>1. pc[t] = "authenticate" /\ Return(t, 1) /\ ReadPassword(i[t]) # request[t].password
    BY <1>8 DEF PasswordDiffers
  <2>2. /\ answer[t] = Pending /\ request[t].op = "authenticate"
        /\ i[t] < accountcnt /\ username[i[t]] = request[t].name
    BY <1>3, <2>1 DEF Calling, Searching, Acts
  <2>3. Dir!Answer(t, "authenticate", 1) /\ Asked[t] = request[t]
    BY <1>3, <2>1, <2>2, Answers
  <2>4. request[t].name \in Dir!Known /\ Accounts[request[t].name] # request[t].password
    BY <1>4, <2>1, <2>2, Directories, ReadsBack DEF Dir!Known
  <2> QED BY <1>2, <2>3, <2>4 DEF Dir!Next, Dir!Authenticate
<1>9. CASE IsOnline(t)
  <2>1. pc[t] = "is_online" /\ Return(t, isOnline[i[t]])
    BY <1>9 DEF IsOnline
  <2>2. /\ answer[t] = Pending /\ request[t].op = "is_online"
        /\ i[t] < accountcnt /\ username[i[t]] = request[t].name
    BY <1>3, <2>1 DEF Calling, Searching, Acts
  <2>3. isOnline[i[t]] \in {0, 1}
    BY <1>4, <2>2 DEF TypeOK
  <2>4. Dir!Answer(t, "is_online", isOnline[i[t]]) /\ Asked[t] = request[t]
    BY <1>3, <2>1, <2>2, <2>3, Answers
  <2>5. request[t].name \in Dir!Known /\ (request[t].name \in Online <=> isOnline[i[t]] = 1)
    BY <1>4, <2>2, Directories DEF Dir!Known
  <2> QED BY <1>2, <2>3, <2>4, <2>5 DEF Dir!Next, Dir!IsOnline
<1>10. CASE Refuse(t)
  <2>1. pc[t] = "limits" /\ answer[t] = Pending /\ request[t].op = "create_account"
    BY <1>3, <1>10 DEF Refuse, Calling
  <2>2. PICK v \in 2 .. 4 : /\ Return(t, v)
                            /\ v = 2 => accountcnt >= MAX_ACCOUNT_CNT
                            /\ v = 3 => request[t].name \in TooLong
                            /\ v = 4 => request[t].password \in TooLong
    BY <1>10 DEF Refuse
  <2>3. Dir!Answer(t, "create_account", v) /\ Asked[t] = request[t]
    BY <1>3, <2>1, <2>2, Answers
  <2>4. CASE v = 2
    BY <1>2, <2>2, <2>3, <2>4, CountsEntries DEF Dir!Next, Dir!Create
  <2>5. CASE v = 3
    BY <1>2, <2>2, <2>3, <2>5 DEF Dir!Next, Dir!Create
  <2>6. CASE v = 4
    BY <1>2, <2>2, <2>3, <2>6 DEF Dir!Next, Dir!Create
  <2> QED BY <2>4, <2>5, <2>6
<1> QED BY <1>5, <1>6, <1>7, <1>8, <1>9, <1>10

LEMMA ActImplements ==
  ASSUME Proviso, IInv, IInv', NEW t \in Threads, SetOnline(t) \/ SetOffline(t) \/ JobAssign(t)
  PROVE  Dir!Next
<1> USE DEF IInv
<1>1. pc[t] # "idle" /\ Calling(t) /\ Searching(t) /\ UNCHANGED <<username, password, accountcnt>>
  BY DEF SetOnline, SetOffline, JobAssign, Goto, ThreadInv
<1>2. /\ accountcnt \in Nat /\ i[t] \in Published /\ i[t] \in Index /\ Published' = Published
      /\ username[i[t]] = request[t].name /\ request[t].name \in Dir!Known
  <2>1. i[t] < accountcnt /\ username[i[t]] = request[t].name
    BY <1>1 DEF SetOnline, SetOffline, JobAssign, Goto, Searching, Acts
  <2>2. i[t] \in Published /\ i[t] \in Index /\ accountcnt \in Nat
    BY <2>1, TableAssumption DEF TypeOK, Published, Index
  <2> QED BY <1>1, <2>1, <2>2, Directories DEF Dir!Known, Published
<1>3. Accounts' = Accounts
  BY <1>1, <1>2 DEF Accounts, NamesOf, Slot
<1>4. \A k \in Published : k \in Index /\ (username[k] = request[t].name <=> k = i[t])
  <2>1. \A k \in Published : k \in Index
    BY TableAssumption DEF Published, Index, TypeOK
  <2>2. \A k \in Published : username[k] = request[t].name => k = i[t]
    BY <1>2 DEF Entries, UniqueNames
  <2> QED BY <1>2, <2>1, <2>2
<1>5. CASE SetOnline(t)
  <2>1. pc[t] = "set_online" /\ Return(t, 0) /\ isOnline' = [isOnline EXCEPT ![i[t]] = 1] /\ unused' = unused
    BY <1>5 DEF SetOnline
  <2>2. answer[t] = Pending /\ request[t].op = "authenticate" /\ password[i[t]] = request[t].password
    BY <1>1, <2>1 DEF Calling, Searching
  <2>3. Dir!Answer(t, "authenticate", 0) /\ Asked[t] = request[t]
    BY <1>1, <2>1, <2>2, Answers
  <2>4. Online' = Online \cup {request[t].name}
    BY <1>1, <1>2, <1>4, <2>1 DEF Online, NamesOf, TypeOK
  <2>5. Mail' = Mail
    BY <1>1, <1>2, <2>1 DEF Mail, NamesOf
  <2>6. Accounts[request[t].name] = request[t].password
    BY <1>2, <2>2, Directories
  <2> QED BY <1>2, <1>3, <2>3, <2>4, <2>5, <2>6 DEF Dir!Next, Dir!Authenticate
<1>6. CASE SetOffline(t)
  <2>1. /\ pc[t] = "logout_account" /\ isOnline' = [isOnline EXCEPT ![i[t]] = 0] /\ unused' = unused
        /\ answer' = [answer EXCEPT ![t] = 0] /\ request' = request
    BY <1>6 DEF SetOffline, Goto
  <2>2. request[t].op = "logout_account" /\ request[t] # None
    BY <1>1, <2>1, TableAssumption DEF Calling, Acts
  <2>3. answer[t] = Pending
    BY <1>1, <1>4 DEF Searching, TypeOK
  <2>4. Asked[t] = request[t] /\ Asked' = [Asked EXCEPT ![t] = None]
    <3>1. answer'[t] # Pending /\ \A u \in Threads \ {t} : answer'[u] = answer[u]
      BY <2>1, TableAssumption DEF TypeOK
    <3> QED BY <2>1, <2>3, <3>1 DEF Asked
  <2>5. Dir!Answer(t, "logout_account", 0)
    BY <2>1, <2>2, <2>4 DEF Dir!Answer
  <2>6. Online' = Online \ {request[t].name}
    BY <1>1, <1>2, <1>4, <2>1 DEF Online, NamesOf, TypeOK
  <2>7. Mail' = Mail
    BY <1>1, <1>2, <2>1 DEF Mail, NamesOf
  <2> QED BY <1>3, <2>4, <2>5, <2>6, <2>7 DEF Dir!Next, Dir!Logout
<1>7. CASE JobAssign(t)
  <2>1. pc[t] = "job_assign" /\ Return(t, 0) /\ unused' = [unused EXCEPT ![i[t]] = FALSE] /\ isOnline' = isOnline
    BY <1>7 DEF JobAssign
  <2>2. answer[t] = Pending /\ request[t].op = "job_assign"
    BY <1>1, <2>1 DEF Calling, Acts
  <2>3. Dir!Answer(t, "job_assign", 0) /\ Asked[t] = request[t]
    BY <1>1, <2>1, <2>2, Answers
  <2>4. Mail' = Mail \cup {request[t].name}
    BY <1>1, <1>2, <1>4, <2>1 DEF Mail, NamesOf, TypeOK
  <2>5. Online' = Online
    BY <1>1, <1>2, <2>1 DEF Online, NamesOf
  <2> QED BY <1>2, <1>3, <2>3, <2>4, <2>5 DEF Dir!Next, Dir!Assign
<1> QED BY <1>5, <1>6, <1>7

LEMMA PublishImplements ==
  ASSUME Proviso, IInv, IInv', NEW t \in Threads, Publish(t)
  PROVE  Dir!Next
<1> USE DEF IInv
<1> DEFINE r == request[t]
<1>1. /\ pc[t] = "accountcnt" /\ Return(t, 0) /\ UNCHANGED <<username, password, isOnline, unused>>
  BY DEF Publish
<1>2. /\ Fills(t) /\ accountcnt' = accountcnt + 1 /\ answer[t] = Pending /\ r.op = "create_account"
  BY PublishKeeps
<1>3. /\ accountcnt \in Nat /\ accountcnt < MAX_ACCOUNT_CNT /\ Absent(t, accountcnt)
      /\ username[accountcnt] = r.name /\ password[accountcnt] = r.password
      /\ isOnline[accountcnt] = 0 /\ unused[accountcnt] = TRUE
  BY <1>1, <1>2, TableAssumption DEF Fills, TypeOK
<1>4. Published' = Published \cup {accountcnt} /\ accountcnt \notin Published
  BY <1>2, <1>3 DEF Published
<1>5. Dir!Answer(t, "create_account", 0) /\ Asked[t] = r
  BY <1>1, <1>2, Answers
<1>6. r.name \notin Dir!Known /\ Dir!Cardinality(Dir!Known) < MAX_ACCOUNT_CNT
  BY <1>3, NotKnown, CountsEntries
<1>7. Online' = Online /\ Mail' = Mail
  BY <1>1, <1>3, <1>4 DEF Online, Mail, NamesOf
<1>8. NamesOf(Published)' = Dir!Known \cup {r.name}
  BY <1>1, <1>3, <1>4, Directories DEF NamesOf, Dir!Known
<1>9. \A k \in Published' : Accounts'[username'[k]] = password'[k]
  <2>1. \A k \in Published' : Slot(username[k])' = k
    BY DEF Slot, Entries, UniqueNames
  <2> QED BY <2>1 DEF Accounts, NamesOf
<1>10. Accounts'[r.name] = r.password /\ \A k \in Published : Accounts'[username[k]] = Accounts[username[k]]
  BY <1>1, <1>3, <1>4, <1>9, Directories
<1>11. Accounts' = [n \in Dir!Known \cup {r.name} |-> IF n = r.name THEN r.password ELSE Accounts[n]]
  <2>1. \A n \in Dir!Known : Accounts'[n] = Accounts[n]
    BY <1>10, Directories DEF Dir!Known
  <2>2. Accounts' = [n \in Dir!Known \cup {r.name} |-> Accounts'[n]]
    BY <1>8 DEF Accounts
  <2> QED BY <1>6, <1>10, <2>1, <2>2
<1> QED BY <1>5, <1>6, <1>7, <1>11 DEF Dir!Next, Dir!Create

\* The step of the directory that a step of the table is.
LEMMA StepImplements ==
  ASSUME Proviso, IInv, IInv', [Next]_vars
  PROVE  [Dir!Next]_(Dir!vars)
<1>1. CASE UNCHANGED vars
  BY <1>1 DEF vars, table, calls, Dir!vars, Accounts, Online, Mail, Asked, NamesOf, Slot, Published
<1>2. ASSUME NEW t \in Threads, Call(t) PROVE Dir!Next
  <2>1. PICK r \in Request : request' = [request EXCEPT ![t] = r]
    BY <1>2 DEF Call
  <2>2. pc[t] = "idle" /\ answer' = [answer EXCEPT ![t] = Pending] /\ UNCHANGED table
    BY <1>2 DEF Call
  <2>3. Asked[t] = None /\ Asked' = [Asked EXCEPT ![t] = r]
    BY <2>1, <2>2 DEF Asked, IInv, TypeOK, ThreadInv
  <2>4. UNCHANGED <<Accounts, Online, Mail>>
    BY <2>2, SameDirectory DEF table
  <2> QED BY <2>2, <2>3, <2>4 DEF Dir!Next, Dir!Call
<1>3. ASSUME NEW t \in Threads,
             \/ InBound(t) \/ NameIsFree(t) \/ NameDiffers(t) \/ NameFound(t)
             \/ PasswordMatches(t) \/ WithinLimits(t) \/ LoadCount(t)
      PROVE  UNCHANGED Dir!vars
  <2>1. UNCHANGED <<table, request, answer>>
    BY <1>3 DEF InBound, NameIsFree, NameDiffers, NameFound, PasswordMatches, WithinLimits, LoadCount
  <2>2. UNCHANGED <<Accounts, Online, Mail>>
    BY <2>1, SameDirectory DEF table
  <2> QED BY <2>1, <2>2 DEF Dir!vars, Asked
<1>4. ASSUME NEW t \in Threads, StoreName(t) \/ StorePassword(t) \/ StoreOffline(t) \/ StoreUnused(t)
      PROVE  UNCHANGED Dir!vars
  <2>1. UNCHANGED <<accountcnt, request, answer>>
    BY <1>4 DEF StoreName, StorePassword, StoreOffline, StoreUnused
  <2>2. UNCHANGED <<Accounts, Online, Mail>>
    BY <1>4, <2>1, FillKeeps, SameDirectory DEF Beside
  <2> QED BY <2>1, <2>2 DEF Dir!vars, Asked
<1>5. ASSUME NEW t \in Threads, Call(t) \/ Running(t) PROVE Dir!Next \/ UNCHANGED Dir!vars
  BY <1>2, <1>3, <1>4, <1>5, ReturnImplements, ActImplements, PublishImplements
     DEF Running, Scanning, Acting, Creating
<1> QED BY <1>1, <1>5 DEF Next

\* With one creator and no brimful string, the calls of account.h, made by
\* any number of threads without a lock, act and answer as if each were one
\* step on a directory of accounts.
THEOREM TableIsDirectory == ASSUME Proviso PROVE Spec => ImplementsDirectory
<1>1. Init => Dir!Init
  <2> SUFFICES ASSUME Init PROVE Dir!Init
    OBVIOUS
  <2>1. Published = {}
    BY DEF Init, Published
  <2>2. Asked = [t \in Threads |-> None] /\ answer = [t \in Threads |-> 0]
    BY TableAssumption DEF Init, Asked
  <2>3. Accounts = [n \in {} |-> Pending] /\ Online = {} /\ Mail = {}
    BY <2>1 DEF Accounts, Online, Mail, NamesOf
  <2> QED BY <2>2, <2>3 DEF Dir!Init
<1> QED BY <1>1, Inductive, StepImplements, PTL DEF Spec, Dir!Spec, ImplementsDirectory

LEMMA EntriesStayNext ==
  ASSUME Proviso, IInv, [Next]_vars
  PROVE  accountcnt <= accountcnt' /\ \A k \in Published : EntryStays(k)
<1>1. ASSUME NEW k \in Published
      PROVE  EntryStays(k)
  <2> USE <1>1 DEF IInv
  <2>1. k \in Index /\ accountcnt \in Nat /\ isOnline[k] \in {0, 1}
    BY TableAssumption DEF Published, Index, TypeOK
  <2>2. CASE UNCHANGED table
    BY <2>1, <2>2 DEF table, EntryStays
  <2>3. ASSUME NEW t \in Threads, SetOnline(t) \/ SetOffline(t) \/ JobAssign(t)
        PROVE  EntryStays(k)
    <3>1. UNCHANGED <<username, password, accountcnt>>
      BY <2>3, ActKeeps
    <3>2. CASE SetOnline(t)
      BY <2>1, <3>1, <3>2 DEF SetOnline, TypeOK, EntryStays
    <3>3. CASE SetOffline(t)
      <4>1. request[t] \in Request /\ request[t].op = "logout_account" /\ username[i[t]] = request[t].name
        BY <3>3 DEF SetOffline, Goto, ThreadInv, Calling, Searching, Acts
      <4>2. request[t] = [op |-> "logout_account", name |-> username[i[t]]]
        BY <4>1 DEF Request
      <4>3. isOnline'[k] < isOnline[k] => k = i[t]
        BY <2>1, <3>3 DEF SetOffline, TypeOK
      <4> QED BY <2>1, <3>1, <3>3, <4>2, <4>3 DEF SetOffline, EntryStays
    <3>4. CASE JobAssign(t)
      BY <2>1, <3>1, <3>4 DEF JobAssign, TypeOK, EntryStays
    <3> QED BY <2>3, <3>2, <3>3, <3>4
  <2>4. ASSUME NEW t \in Threads, StoreName(t) \/ StorePassword(t) \/ StoreOffline(t) \/ StoreUnused(t)
        PROVE  EntryStays(k)
    BY <2>1, <2>4, FillKeeps DEF Beside, EntryStays
  <2>5. ASSUME NEW t \in Threads, Publish(t)
        PROVE  EntryStays(k)
    BY <2>1, <2>5, PublishKeeps DEF Beside, Publish, EntryStays
  <2>6. ASSUME NEW t \in Threads, Call(t) \/ Running(t)
        PROVE  EntryStays(k)
    BY <2>2, <2>3, <2>4, <2>5, <2>6
       DEF Call, Running, Scanning, Acting, Creating, InBound, NameIsFree, EndOfTable, NameDiffers, NameTaken,
           NameFound, PasswordMatches, PasswordDiffers, IsOnline, Refuse, WithinLimits, LoadCount
  <2> QED BY <2>2, <2>6 DEF Next, vars
<1>2. CASE accountcnt' = accountcnt
  BY <1>1, <1>2, TableAssumption DEF IInv, TypeOK
<1>3. CASE accountcnt' # accountcnt
  <2>1. PICK t \in Threads : Publish(t)
    BY <1>3 DEF Next, Call, Running, Scanning, Acting, Creating, InBound, NameIsFree, EndOfTable, NameDiffers,
       NameTaken, NameFound, PasswordMatches, PasswordDiffers, IsOnline, Refuse, WithinLimits, LoadCount,
       SetOnline, SetOffline, JobAssign, StoreName, StorePassword, StoreOffline, StoreUnused, vars, table
  <2> QED BY <1>1, <2>1, PublishKeeps DEF Beside
<1> QED BY <1>2, <1>3

\* With one creator and no brimful string, a published entry keeps its name,
\* its password and what was sent to it, and only a logout takes it offline.
THEOREM EntriesAreFinal == ASSUME Proviso PROVE Spec => EntriesStay
<1>1. IInv /\ [Next]_vars => [accountcnt <= accountcnt' /\ \A k \in Published : EntryStays(k)]_vars
  BY EntriesStayNext
<1> QED BY <1>1, Inductive, PTL DEF Spec, EntriesStay
-----------------------------------------------------------------------------
(* Whoever has been signed up is let in. *)

\* What create_account() has answered 0 for is in the table.
CreatedInv ==
  \A r \in created : \E k \in Published : username[k] = r.name /\ password[k] = r.password

\* A table that grows keeps the indices it had.
LEMMA Below == ASSUME NEW m \in Nat, NEW n \in Nat, m <= n PROVE 0 .. m - 1 \subseteq 0 .. n - 1
OBVIOUS

LEMMA CreatedNext ==
  ASSUME Proviso, IInv, CreatedInv, [Next]_vars
  PROVE  CreatedInv'
<1>1. \A k \in Published : /\ k \in Published'
                          /\ username'[k] = username[k] /\ password'[k] = password[k]
  <2>1. accountcnt \in Nat /\ accountcnt' \in Nat
    BY InvNext, TableAssumption DEF IInv, TypeOK
  <2>2. accountcnt <= accountcnt'
    BY EntriesStayNext
  <2>3. Published' = 0 .. accountcnt' - 1
    BY DEF Published
  <2>4. Published \subseteq Published'
    <3>1. 0 .. accountcnt - 1 \subseteq 0 .. accountcnt' - 1
      BY <2>1, <2>2, Below, Zenon
    <3> QED BY <2>3, <3>1, Zenon DEF Published
  <2>5. ASSUME NEW k \in Published PROVE username'[k] = username[k] /\ password'[k] = password[k]
    <3>1. EntryStays(k)
      BY EntriesStayNext
    <3> QED BY <3>1 DEF EntryStays
  <2> QED BY <2>4, <2>5
<1>2. CASE created' = created
  BY <1>1, <1>2 DEF CreatedInv
<1>3. ASSUME NEW t \in Threads, Publish(t)
      PROVE  CreatedInv'
  <2>1. /\ accountcnt \in Published' /\ created' = created \cup {request[t]}
        /\ username'[accountcnt] = request[t].name /\ password'[accountcnt] = request[t].password
    <3>1. accountcnt \in Nat /\ accountcnt' = accountcnt + 1
      BY <1>3, PublishKeeps, TableAssumption DEF IInv, TypeOK
    <3>2. username[accountcnt] = request[t].name /\ password[accountcnt] = request[t].password
      BY <1>3, PublishKeeps DEF Fills, Publish
    <3> QED BY <1>3, <3>1, <3>2 DEF Publish, Published
  <2> QED BY <1>1, <2>1 DEF CreatedInv
<1>4. created' = created \/ \E t \in Threads : Publish(t)
  BY DEF Next, Call, Running, Scanning, Acting, Creating, InBound, NameIsFree, EndOfTable, NameDiffers,
     NameTaken, NameFound, PasswordMatches, PasswordDiffers, IsOnline, Refuse, WithinLimits, LoadCount,
     SetOnline, SetOffline, JobAssign, StoreName, StorePassword, StoreOffline, StoreUnused, vars
<1> QED BY <1>2, <1>3, <1>4

\* A thread that returns from authenticate() with another answer than 0 has
\* seen the whole table, or the one entry of its name.
LEMMA RefusedIsUnknown ==
  ASSUME Proviso, IInv, CreatedInv, [Next]_vars,
         NEW t \in Threads, answer[t] = Pending, answer'[t] # Pending, answer'[t] # 0,
         request[t].op = "authenticate",
         NEW r \in created
  PROVE  r.name # request[t].name \/ r.password # request[t].password
<1> USE DEF IInv
<1>1. PICK k \in Published : username[k] = r.name /\ password[k] = r.password
  BY DEF CreatedInv
<1>2. accountcnt \in 0 .. MAX_ACCOUNT_CNT /\ k \in Index /\ i[t] \in Nat
  BY <1>1, TableAssumption DEF TypeOK, Published, Index
<1>3. CASE EndOfTable(t)
  <2>1. i[t] >= accountcnt /\ Absent(t, i[t])
    BY <1>3 DEF EndOfTable, ThreadInv, Searching
  <2> QED BY <1>1, <1>2, <2>1 DEF Absent, Published
<1>4. CASE PasswordDiffers(t)
  <2>1. i[t] \in Published /\ username[i[t]] = request[t].name
    BY <1>2, <1>4 DEF PasswordDiffers, ThreadInv, Searching, Published, Acts
  <2>2. password[i[t]] # request[t].password
    BY <1>2, <1>4, <2>1, ReadsBack, TableAssumption DEF PasswordDiffers, Published, Index
  <2> QED BY <1>1, <2>1, <2>2 DEF Entries, UniqueNames
<1>5. EndOfTable(t) \/ PasswordDiffers(t)
  <2>1. PICK u \in Threads : Call(u) \/ Running(u)
    BY DEF Next, vars, calls
  <2>2. \/ answer' = answer
        \/ \E v : answer' = [answer EXCEPT ![u] = v]
    BY <2>1 DEF Call, Running, Scanning, Acting, Creating, InBound, NameIsFree, EndOfTable, NameDiffers,
       NameTaken, NameFound, PasswordMatches, PasswordDiffers, IsOnline, Refuse, WithinLimits, LoadCount,
       SetOnline, SetOffline, JobAssign, StoreName, StorePassword, StoreOffline, StoreUnused, Publish,
       Return
  <2>3. u = t
    BY <2>2 DEF TypeOK
  <2>4. pc[t] # "idle" /\ Calling(t)
    BY DEF ThreadInv
  <2>5. ~Call(t) /\ answer' # answer
    BY <2>4 DEF Call
  <2>6. \/ EndOfTable(t) \/ PasswordDiffers(t)
        \/ NameTaken(t) \/ Refuse(t) \/ Publish(t) \/ IsOnline(t) \/ SetOffline(t) \/ JobAssign(t)
        \/ SetOnline(t)
    BY <2>1, <2>3, <2>5 DEF Running, Scanning, Acting, Creating, InBound, NameIsFree, NameDiffers, NameFound,
       PasswordMatches, WithinLimits, LoadCount, StoreName, StorePassword, StoreOffline, StoreUnused
  <2>7. ~SetOnline(t)
    BY DEF SetOnline, Return, TypeOK
  <2>8. ~NameTaken(t) /\ ~Refuse(t) /\ ~Publish(t) /\ ~IsOnline(t) /\ ~SetOffline(t) /\ ~JobAssign(t)
    BY <2>4 DEF NameTaken, Refuse, Publish, IsOnline, SetOffline, JobAssign, Goto, Calling, Filling, Acts
  <2> QED BY <2>6, <2>7, <2>8
<1> QED BY <1>3, <1>4, <1>5

\* With one creator and no brimful string, authenticate() lets in whoever
\* gives a name and password that create_account() has answered 0 for.
THEOREM SignedUpIsLetIn == ASSUME Proviso PROVE Spec => CreatedIsLetIn
<1>1. Init => CreatedInv
  BY DEF Init, CreatedInv
<1>2. Spec => []CreatedInv
  BY <1>1, CreatedNext, Inductive, PTL DEF Spec
<1>3. IInv /\ CreatedInv /\ [Next]_vars =>
        [\A t \in Threads :
           answer[t] = Pending /\ answer'[t] # Pending /\ request[t].op = "authenticate"
             => answer'[t] = 0 \/ \A r \in created : \/ r.name # request[t].name
                                                  \/ r.password # request[t].password]_vars
  BY RefusedIsUnknown
<1> QED BY <1>2, <1>3, Inductive, PTL DEF Spec, CreatedIsLetIn
=============================================================================
