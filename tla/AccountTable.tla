---------------------------- MODULE AccountTable ----------------------------
(***************************************************************************)
(* The account table of account.h, called by the connection threads of     *)
(* server.c without a lock.  A step makes at most one access to memory     *)
(* that another thread can write: each `i<accountcnt', each strcmp and     *)
(* each assignment of create_account() is a step, and so is each load of   *)
(* the index accountcnt inside one.  A string is copied or compared in     *)
(* one step.                                                               *)
(*                                                                         *)
(* A string of exactly USERNAME_LIMIT_LEN or PASSWORD_LIMIT_LEN bytes      *)
(* passes the test on its length but leaves no room for its terminator.    *)
(***************************************************************************)
EXTENDS Integers, FiniteSets

CONSTANTS Threads,
          Creators,          \* the threads that call create_account()
          Name, Password,
          Brimful, TooLong,  \* strings of exactly, and above, the limit
          MAX_ACCOUNT_CNT,   \* 100 in the code
          Empty,             \* the empty string
          RunOn,             \* what an unterminated string reads as
          Pending,           \* the answer of a call in progress
          None               \* the request of a thread that is calling nothing

Index   == 0 .. MAX_ACCOUNT_CNT - 1
Request == [op : {"create_account", "authenticate"}, name : Name, password : Password]
             \cup [op : {"is_online", "logout_account", "job_assign"}, name : Name]

\* What each function returns when no entry matches (logout_account() is void).
NoMatch == [authenticate |-> 2, is_online |-> -1, logout_account |-> 0, job_assign |-> -2]

ASSUME TableAssumption ==
  /\ MAX_ACCOUNT_CNT \in Nat
  /\ Creators \subseteq Threads
  /\ Brimful \cap TooLong = {}
  /\ Empty \notin Name \cup Password /\ RunOn \notin Name \cup Password /\ Empty # RunOn
  /\ Pending \notin -2 .. 4 /\ None \notin Request

VARIABLES username, password, isOnline, \* accountinfo[]
          unused,      \* its job queue and message history are as created
          accountcnt,
          pc, i,       \* where each thread is, and its loop index
          reg,         \* the value of accountcnt each thread has loaded
          request, answer, \* what each thread has called and got back
          created      \* the calls of create_account() that have returned 0

table == <<username, password, isOnline, unused, accountcnt>>
calls == <<pc, i, reg, request, answer>>
vars  == <<table, calls, created>>

\* Copying the password fills the byte where a brimful name would have ended.
ReadName(k) == IF username[k] \in Brimful /\ password[k] # Empty THEN RunOn ELSE username[k]

\* A brimful password ends in the first byte of isOnline.
ReadPassword(k) == IF password[k] \in Brimful /\ isOnline[k] = 1 THEN RunOn ELSE password[k]

Goto(t, from, to) == pc[t] = from /\ pc' = [pc EXCEPT ![t] = to]

\* The function returns and its locals are gone.
Return(t, value) == /\ pc' = [pc EXCEPT ![t] = "idle"]
                    /\ answer' = [answer EXCEPT ![t] = value]
                    /\ i' = [i EXCEPT ![t] = 0] /\ reg' = [reg EXCEPT ![t] = 0]
                    /\ request' = [request EXCEPT ![t] = None]
-----------------------------------------------------------------------------
Call(t) ==
  /\ pc[t] = "idle"
  /\ \E r \in Request :
       /\ r.op = "create_account" => t \in Creators
       /\ request' = [request EXCEPT ![t] = r]
       /\ pc' = [pc EXCEPT ![t] = IF r.op = "create_account" THEN "limits" ELSE "bound"]
  /\ answer' = [answer EXCEPT ![t] = Pending]
  /\ UNCHANGED <<table, i, reg, created>>

\* The tests at the start of create_account().
Refuse(t) ==
  /\ pc[t] = "limits"
  /\ \/ request[t].name \in TooLong /\ Return(t, 3)
     \/ request[t].name \notin TooLong /\ request[t].password \in TooLong /\ Return(t, 4)
     \/ /\ {request[t].name, request[t].password} \cap TooLong = {}
        /\ accountcnt >= MAX_ACCOUNT_CNT
        /\ Return(t, 2)
  /\ UNCHANGED <<table, created>>

\* Mutant: the limits are not tested.
WithinLimitsUntested(t) ==
  /\ Goto(t, "limits", "bound")
  /\ UNCHANGED <<table, i, reg, request, answer, created>>

WithinLimits(t) ==
  /\ Goto(t, "limits", "bound")
  /\ {request[t].name, request[t].password} \cap TooLong = {}
  /\ accountcnt < MAX_ACCOUNT_CNT
  /\ UNCHANGED <<table, i, reg, request, answer, created>>

InBound(t) ==
  /\ Goto(t, "bound", "compare")
  /\ i[t] < accountcnt
  /\ UNCHANGED <<table, i, reg, request, answer, created>>

\* Mutant: the last entry is not compared.
NameIsFreeEarly(t) ==
  /\ Goto(t, "bound", "load_username")
  /\ i[t] + 1 >= accountcnt /\ request[t].op = "create_account"
  /\ UNCHANGED <<table, i, reg, request, answer, created>>

\* create_account() has found its name free.
NameIsFree(t) ==
  /\ Goto(t, "bound", "load_username")
  /\ i[t] >= accountcnt /\ request[t].op = "create_account"
  /\ UNCHANGED <<table, i, reg, request, answer, created>>

EndOfTable(t) ==
  /\ pc[t] = "bound"
  /\ i[t] >= accountcnt /\ request[t].op # "create_account"
  /\ Return(t, NoMatch[request[t].op])
  /\ UNCHANGED <<table, created>>

\* Mutant: the loop does not advance.
NameDiffersStays(t) ==
  /\ Goto(t, "compare", "bound")
  /\ ReadName(i[t]) # request[t].name
  /\ UNCHANGED <<table, i, reg, request, answer, created>>

NameDiffers(t) ==
  /\ Goto(t, "compare", "bound")
  /\ ReadName(i[t]) # request[t].name
  /\ i' = [i EXCEPT ![t] = @ + 1]
  /\ UNCHANGED <<table, reg, request, answer, created>>

NameTaken(t) ==
  /\ pc[t] = "compare"
  /\ ReadName(i[t]) = request[t].name /\ request[t].op = "create_account"
  /\ Return(t, 1)
  /\ UNCHANGED <<table, created>>

NameFound(t) ==
  /\ Goto(t, "compare", request[t].op)
  /\ ReadName(i[t]) = request[t].name /\ request[t].op # "create_account"
  /\ UNCHANGED <<table, i, reg, request, answer, created>>

\* Mutant: the password is not compared.
PasswordUnchecked(t) ==
  /\ Goto(t, "authenticate", "set_online")
  /\ UNCHANGED <<table, i, reg, request, answer, created>>

\* What each function does with the entry it has found.
PasswordMatches(t) ==
  /\ Goto(t, "authenticate", "set_online")
  /\ ReadPassword(i[t]) = request[t].password
  /\ UNCHANGED <<table, i, reg, request, answer, created>>

PasswordDiffers(t) ==
  /\ pc[t] = "authenticate"
  /\ ReadPassword(i[t]) # request[t].password
  /\ Return(t, 1)
  /\ UNCHANGED <<table, created>>

SetOnline(t) ==
  /\ pc[t] = "set_online"
  /\ isOnline' = [isOnline EXCEPT ![i[t]] = 1]
  /\ Return(t, 0)
  /\ UNCHANGED <<username, password, unused, accountcnt, created>>

IsOnline(t) ==
  /\ pc[t] = "is_online"
  /\ Return(t, isOnline[i[t]])
  /\ UNCHANGED <<table, created>>

\* logout_account() has no answer and goes on with the loop.
SetOffline(t) ==
  /\ Goto(t, "logout_account", "bound")
  /\ isOnline' = [isOnline EXCEPT ![i[t]] = 0]
  /\ i' = [i EXCEPT ![t] = @ + 1]
  /\ answer' = [answer EXCEPT ![t] = 0]
  /\ UNCHANGED <<username, password, unused, accountcnt, reg, request, created>>

\* job_assign() records the message and queues the job (JobQueue).
JobAssign(t) ==
  /\ pc[t] = "job_assign"
  /\ unused' = [unused EXCEPT ![i[t]] = FALSE]
  /\ Return(t, 0)
  /\ UNCHANGED <<username, password, isOnline, accountcnt, created>>

\* Mutant: after the name, the entry before is filled.
LoadCountBefore(t) ==
  /\ \/ Goto(t, "load_username", "username") /\ reg' = [reg EXCEPT ![t] = accountcnt]
     \/ /\ \/ Goto(t, "load_password", "password")
           \/ Goto(t, "load_isOnline", "isOnline")
           \/ Goto(t, "load_unused", "unused")
           \/ Goto(t, "load_accountcnt", "accountcnt")
        /\ reg' = [reg EXCEPT ![t] = IF accountcnt = 0 THEN 0 ELSE accountcnt - 1]
  /\ UNCHANGED <<table, i, request, answer, created>>

\* create_account() fills the slot it loads anew for every assignment.
LoadCount(t) ==
  /\ \/ Goto(t, "load_username", "username")
     \/ Goto(t, "load_password", "password")
     \/ Goto(t, "load_isOnline", "isOnline")
     \/ Goto(t, "load_unused", "unused")
     \/ Goto(t, "load_accountcnt", "accountcnt")
  /\ reg' = [reg EXCEPT ![t] = accountcnt]
  /\ UNCHANGED <<table, i, request, answer, created>>

StoreName(t) ==
  /\ Goto(t, "username", "load_password")
  /\ username' = [username EXCEPT ![reg[t]] = request[t].name]
  /\ UNCHANGED <<password, isOnline, unused, accountcnt, i, reg, request, answer, created>>

StorePassword(t) ==
  /\ Goto(t, "password", "load_isOnline")
  /\ password' = [password EXCEPT ![reg[t]] = request[t].password]
  /\ UNCHANGED <<username, isOnline, unused, accountcnt, i, reg, request, answer, created>>

StoreOffline(t) ==
  /\ Goto(t, "isOnline", "load_unused")
  /\ isOnline' = [isOnline EXCEPT ![reg[t]] = 0]
  /\ UNCHANGED <<username, password, unused, accountcnt, i, reg, request, answer, created>>

StoreUnused(t) ==
  /\ Goto(t, "unused", "load_accountcnt")
  /\ unused' = [unused EXCEPT ![reg[t]] = TRUE]
  /\ UNCHANGED <<username, password, isOnline, accountcnt, i, reg, request, answer, created>>

Publish(t) ==
  /\ pc[t] = "accountcnt"
  /\ accountcnt' = reg[t] + 1
  /\ created' = created \cup {request[t]}
  /\ Return(t, 0)
  /\ UNCHANGED <<username, password, isOnline, unused>>
-----------------------------------------------------------------------------
\* The table is zeroed memory; nothing is called yet.
Init ==
  /\ username = [k \in Index |-> Empty] /\ password = [k \in Index |-> Empty]
  /\ isOnline = [k \in Index |-> 0] /\ unused = [k \in Index |-> TRUE]
  /\ accountcnt = 0
  /\ pc = [t \in Threads |-> "idle"]
  /\ i = [t \in Threads |-> 0] /\ reg = [t \in Threads |-> 0]
  /\ request = [t \in Threads |-> None]
  /\ answer = [t \in Threads |-> 0]
  /\ created = {}

Scanning(t) == \/ InBound(t) \/ NameIsFree(t) \/ EndOfTable(t)
               \/ NameDiffers(t) \/ NameTaken(t) \/ NameFound(t)
Acting(t)   == \/ PasswordMatches(t) \/ PasswordDiffers(t) \/ SetOnline(t) \/ IsOnline(t)
               \/ SetOffline(t) \/ JobAssign(t)
Creating(t) == \/ Refuse(t) \/ WithinLimits(t) \/ LoadCount(t) \/ StoreName(t) \/ StorePassword(t)
               \/ StoreOffline(t) \/ StoreUnused(t) \/ Publish(t)
Running(t)  == Scanning(t) \/ Acting(t) \/ Creating(t)

Next == \E t \in Threads : Call(t) \/ Running(t)

Spec == Init /\ [][Next]_vars

\* The operating system runs every thread that has not returned.
FairSpec == Spec /\ \A t \in Threads : WF_vars(Running(t))
-----------------------------------------------------------------------------
Published == 0 .. accountcnt - 1

\* With one creator every index stays inside accountinfo and every thread
\* is at a known place.
TypeOK ==
  /\ username \in [Index -> Name \cup {Empty}]
  /\ password \in [Index -> Password \cup {Empty}]
  /\ isOnline \in [Index -> {0, 1}] /\ unused \in [Index -> BOOLEAN]
  /\ accountcnt \in 0 .. MAX_ACCOUNT_CNT
  /\ pc \in [Threads -> {"idle", "limits", "bound", "compare", "authenticate", "set_online",
                         "is_online", "logout_account", "job_assign", "load_username",
                         "username", "load_password", "password", "load_isOnline", "isOnline",
                         "load_unused", "unused", "load_accountcnt", "accountcnt"}]
  /\ i \in [Threads -> 0 .. MAX_ACCOUNT_CNT] /\ reg \in [Threads -> 0 .. MAX_ACCOUNT_CNT]
  /\ request \in [Threads -> Request \cup {None}]
  /\ answer \in [Threads -> -2 .. 4 \cup {Pending}]
  /\ created \subseteq Request

\* A name has one entry: create_account() has answered 0 for it at most once.
UniqueNames == \A j, k \in Published : username[j] = username[k] => j = k

\* Once published, an entry keeps its name and password, what has been sent
\* to it is not wiped, and it goes offline only by a logout of that name.
EntryStays(k) ==
  /\ username'[k] = username[k] /\ password'[k] = password[k]
  /\ ~unused[k] => ~unused'[k]
  /\ isOnline'[k] < isOnline[k] =>
       \E t \in Threads : request[t] = [op |-> "logout_account", name |-> username[k]]

EntriesStay == [][accountcnt <= accountcnt' /\ \A k \in Published : EntryStays(k)]_vars

\* authenticate() lets in whoever gives a name and password with which
\* create_account() has answered 0, whatever has been stored since.
CreatedIsLetIn ==
  [][\A t \in Threads :
       answer[t] = Pending /\ answer'[t] # Pending /\ request[t].op = "authenticate"
         => answer'[t] = 0 \/ \A r \in created : \/ r.name # request[t].name
                                              \/ r.password # request[t].password]_vars

\* The directory that the published entries are.
NamesOf(S) == {username[k] : k \in S}
Slot(n)    == CHOOSE k \in Published : username[k] = n
Accounts   == [n \in NamesOf(Published) |-> password[Slot(n)]]
Online     == NamesOf({k \in Published : isOnline[k] = 1})
Mail       == NamesOf({k \in Published : ~unused[k]})
Asked      == [t \in Threads |-> IF answer[t] = Pending THEN request[t] ELSE None]

Dir == INSTANCE Directory WITH MaxAccounts <- MAX_ACCOUNT_CNT, account <- Accounts,
                               online <- Online, mail <- Mail, request <- Asked

\* The calls act as if each happened at one moment on that directory, and
\* answer accordingly.
ImplementsDirectory == Dir!Spec

\* Every call returns, however the other threads run.
CallsReturn == \A t \in Threads : pc[t] # "idle" ~> pc[t] = "idle"
=============================================================================
