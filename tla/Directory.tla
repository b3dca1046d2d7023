----------------------------- MODULE Directory -----------------------------
(***************************************************************************)
(* What the account functions of account.h promise to the threads that     *)
(* call them at the same time: every call acts on one directory of         *)
(* accounts at one moment between its start and its return, and answers    *)
(* with the value its comments give.  AccountTable.tla is the code.        *)
(***************************************************************************)
EXTENDS Integers, FiniteSets

CONSTANTS Threads, Request,
          TooLong,      \* names and passwords above the limit
          MaxAccounts,
          Pending,      \* the answer of a call in progress
          None          \* what a thread asks that has its answer

VARIABLES account,  \* the password of each name created
          online,   \* the names logged in
          mail,     \* the names something has been sent to
          request,  \* the call each thread has in progress
          answer    \* what its last call returned

vars  == <<account, online, mail, request, answer>>
Known == DOMAIN account

Init == /\ account = [n \in {} |-> Pending] /\ online = {} /\ mail = {}
        /\ request = [t \in Threads |-> None]
        /\ answer = [t \in Threads |-> 0]

Call(t) == \E r \in Request :
  /\ request[t] = None
  /\ request' = [request EXCEPT ![t] = r]
  /\ answer' = [answer EXCEPT ![t] = Pending]
  /\ UNCHANGED <<account, online, mail>>

Answer(t, op, value) ==
  /\ request[t] # None /\ request[t].op = op
  /\ answer' = [answer EXCEPT ![t] = value]
  /\ request' = [request EXCEPT ![t] = None]

Create(t) == LET r == request[t] IN
  \/ /\ Answer(t, "create_account", 0)
     /\ r.name \notin Known /\ Cardinality(Known) < MaxAccounts
     /\ account' = [n \in Known \cup {r.name} |->
                      IF n = r.name THEN r.password ELSE account[n]]
     /\ UNCHANGED <<online, mail>>
  \/ /\ \/ Answer(t, "create_account", 1) /\ r.name \in Known
        \/ Answer(t, "create_account", 2) /\ Cardinality(Known) >= MaxAccounts
        \/ Answer(t, "create_account", 3) /\ r.name \in TooLong
        \/ Answer(t, "create_account", 4) /\ r.password \in TooLong
     /\ UNCHANGED <<account, online, mail>>

Authenticate(t) == LET r == request[t] IN
  \/ /\ Answer(t, "authenticate", 0)
     /\ r.name \in Known /\ account[r.name] = r.password
     /\ online' = online \cup {r.name}
     /\ UNCHANGED <<account, mail>>
  \/ /\ \/ Answer(t, "authenticate", 1) /\ r.name \in Known /\ account[r.name] # r.password
        \/ Answer(t, "authenticate", 2) /\ r.name \notin Known
     /\ UNCHANGED <<account, online, mail>>

IsOnline(t) == LET r == request[t] IN
  /\ \/ Answer(t, "is_online", 1) /\ r.name \in online
     \/ Answer(t, "is_online", 0) /\ r.name \in Known \ online
     \/ Answer(t, "is_online", -1) /\ r.name \notin Known
  /\ UNCHANGED <<account, online, mail>>

Logout(t) ==
  /\ Answer(t, "logout_account", 0)
  /\ online' = online \ {request[t].name}
  /\ UNCHANGED <<account, mail>>

Assign(t) == LET r == request[t] IN
  \/ /\ Answer(t, "job_assign", 0) /\ r.name \in Known
     /\ mail' = mail \cup {r.name}
     /\ UNCHANGED <<account, online>>
  \/ /\ Answer(t, "job_assign", -2) /\ r.name \notin Known
     /\ UNCHANGED <<account, online, mail>>

Next == \E t \in Threads : \/ Call(t) \/ Create(t) \/ Authenticate(t)
                           \/ IsOnline(t) \/ Logout(t) \/ Assign(t)

Spec == Init /\ [][Next]_vars
=============================================================================
