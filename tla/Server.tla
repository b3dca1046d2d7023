------------------------------- MODULE Server -------------------------------
(***************************************************************************)
(* The threads of server.c: for every connection a handler thread          *)
(* (threadAnothSrv) that reads, parses and executes commands, and, after   *)
(* its login, a delivery thread (threadSecondSrv) that sends the account   *)
(* its jobs.  They share the accounts of account.h.                        *)
(*                                                                         *)
(* A call into account.h is one step here, with the effect Directory.tla   *)
(* and Mailbox.tla give it.  AccountTable.tla shows that the code keeps to *)
(* the first if one thread creates accounts, JobQueue.tla to the second if *)
(* one thread sends to an account and one delivers to it; with more of     *)
(* them it does not.  Chat.tla is within that scope (OneOfEach).           *)
(***************************************************************************)
EXTENDS Wire, FiniteSets

CONSTANTS MAX_ACCOUNT_CNT,
          Capacity,      \* jobs a queue holds, MAX_QUEUE_SIZE - 1 in the code
          Registered,    \* the passwords of the accounts signed up earlier
          Fragments,     \* whether a read may end inside any command
          MaxRecorded    \* bound: the calls of add_message() remembered

ASSUME ServerAssumption ==
  /\ {MAX_ACCOUNT_CNT, MaxRecorded, Capacity} \subseteq Nat
  /\ Fragments \in BOOLEAN
  /\ DOMAIN Registered \subseteq Name /\ Registered \in [DOMAIN Registered -> Password]
  /\ IsFiniteSet(DOMAIN Registered) /\ Cardinality(DOMAIN Registered) <= MAX_ACCOUNT_CNT

VARIABLES account,  \* the password of each account
          online,   \* the accounts whose isOnline is set
          queue,    \* the jobs waiting for each account
          recorded, \* what add_message() has been called with, for each account
          handler,  \* the locals of each handler thread, and its buffer
          delivery  \* each delivery thread, with what it finds in its argument

accounts == <<account, online, queue, recorded>>
server   == <<accounts, handler, delivery>>

Now(c)     == Head(handler[c].todo)

\* The loop goes on with the rest of the buffer.
Step(c, new) == handler' = [handler EXCEPT ![c] = [new EXCEPT !.todo = Tail(@)]]
-----------------------------------------------------------------------------
(* Reading: handle_read() and the parse() loop. *)

\* read() returns at most 512 bytes, and all segments of a file but its last
\* have 1000: no read() returns the whole of one.
Long(cmd) == \E f \in DOMAIN FileLength : /\ cmd.tag = "filedata" /\ cmd.file = f
                                         /\ cmd.seg \in 1 .. FileLength[f] - 1

\* One read() replaces the buffer: an incomplete command at its end is lost,
\* with or without the rest of it that the next read() returns.
Read(c) ==
  /\ handler[c].todo = <<>> /\ toServer[c] # <<>>
  /\ \E k \in 0 .. Len(toServer[c]) :
       LET s   == toServer[c]
           got == SubSeq(s, 1, k)
       IN  /\ \A j \in 1 .. k : ~Long(s[j])
           /\ handler' = [handler EXCEPT ![c].buf = got, ![c].todo = Parsed(got)]
           /\ \/ /\ k > 0
                 /\ toServer' = [toServer EXCEPT ![c] = SubSeq(s, k + 1, Len(s))]
              \/ /\ k < Len(s) /\ (Fragments \/ Long(s[k + 1]))
                 /\ \E rest \in RestOf(s[k + 1]) :
                      toServer' = [toServer EXCEPT ![c] = rest \o SubSeq(s, k + 2, Len(s))]
  /\ UNCHANGED <<accounts, delivery, toClient, closed, reset, crashed>>

\* Mutant: nothing to read is taken for the end of the stream.
ReadNothing(c) ==
  /\ handler[c].todo = <<>> /\ toServer[c] = <<>>
  /\ handler' = [handler EXCEPT ![c].todo = Parsed(handler[c].buf)]
  /\ UNCHANGED <<accounts, delivery, wire>>

\* At the end of the stream read() returns 0, which the loop does not test:
\* it parses the same buffer again.
ReadEnd(c) ==
  /\ handler[c].todo = <<>> /\ toServer[c] = <<>> /\ c \in closed
  /\ handler' = [handler EXCEPT ![c].todo = Parsed(handler[c].buf)]
  /\ UNCHANGED <<accounts, delivery, wire>>
-----------------------------------------------------------------------------
(* Signing up and logging in: dealwithLoginout().  continuityIndex names *)
(* the command it expects next. *)

TwoArguments(cmd) == HasArgument(cmd) /\ cmd.arg # None

\* filedata never gets here, whatever the stage.
Offline(c) == /\ handler[c].todo # <<>> /\ Now(c).tag # "filedata"
              /\ ~handler[c].istonextstage

Expected(c) == /\ Offline(c)
               /\ Now(c).tag = handler[c].continuityIndex /\ TwoArguments(Now(c))

TakeTag(c) ==
  /\ Offline(c) /\ handler[c].continuityIndex = "none"
  /\ \/ /\ Now(c).tag \in {"login", "signup"}
        /\ Step(c, [handler[c] EXCEPT !.islogin = IF Now(c).tag = "login" THEN 1 ELSE 0,
                                      !.continuityIndex = "username"])
     \/ /\ Now(c).tag \notin {"login", "signup"}
        /\ Step(c, [handler[c] EXCEPT !.islogin = 1126])
  /\ UNCHANGED <<accounts, delivery, wire>>

\* Another command than the expected one starts all over.  Without a purpose
\* for the password the index is -1126, "stuck", and no command changes that.
TakeUnexpected(c) ==
  /\ Offline(c) /\ handler[c].continuityIndex # "none"
  /\ Expected(c) => Now(c).tag = "password" /\ handler[c].islogin \notin {0, 1}
  /\ Step(c, [handler[c] EXCEPT !.continuityIndex =
                 IF @ = "stuck" \/ Expected(c) THEN "stuck" ELSE "none"])
  /\ UNCHANGED <<accounts, delivery, wire>>

TakeUsername(c) ==
  /\ Expected(c) /\ Now(c).tag = "username"
  /\ Step(c, [handler[c] EXCEPT !.acc = Now(c).arg, !.continuityIndex = "password"])
  /\ UNCHANGED <<accounts, delivery, wire>>

\* create_account() gives no answer when its table is full.
SignUp(c) == LET n == handler[c].acc IN
  /\ Expected(c) /\ Now(c).tag = "password" /\ handler[c].islogin = 0
  /\ Step(c, [handler[c] EXCEPT !.continuityIndex = "none"])
  /\ \/ /\ Cardinality(DOMAIN account) >= MAX_ACCOUNT_CNT
        /\ UNCHANGED <<account, toClient, closed, reset, crashed>>
     \/ /\ Cardinality(DOMAIN account) < MAX_ACCOUNT_CNT
        /\ \/ /\ n \in DOMAIN account
              /\ ServerWrites(c, <<Tag("signup-badU")>>)
              /\ UNCHANGED account
           \/ /\ n \notin DOMAIN account
              /\ ServerWrites(c, <<Tag("signup-good")>>)
              /\ account' = [m \in DOMAIN account \cup {n} |->
                               IF m = n THEN Now(c).arg ELSE account[m]]
  /\ UNCHANGED <<online, queue, recorded, delivery, toServer>>

\* Mutant: any password will do.
LogInUnchecked(c) == LET n == handler[c].acc IN
  /\ Expected(c) /\ Now(c).tag = "password" /\ handler[c].islogin = 1
  /\ n \in DOMAIN account
  /\ online' = online \cup {n}
  /\ ServerWrites(c, <<Tag("login-good")>>)
  /\ Step(c, [handler[c] EXCEPT !.continuityIndex = "none", !.islogin = 0,
                                !.istonextstage = TRUE])
  /\ delivery' = [delivery EXCEPT ![c] = [state |-> "starting", intact |-> TRUE, acc |-> None]]
  /\ UNCHANGED <<account, queue, recorded, toServer>>

\* Mutant: a good login is not answered.
LogInSilent(c) == LET n == handler[c].acc IN
  /\ Expected(c) /\ Now(c).tag = "password" /\ handler[c].islogin = 1
  /\ n \in DOMAIN account /\ account[n] = Now(c).arg
  /\ online' = online \cup {n}
  /\ Step(c, [handler[c] EXCEPT !.continuityIndex = "none", !.islogin = 0,
                                !.istonextstage = TRUE])
  /\ delivery' = [delivery EXCEPT ![c] = [state |-> "starting", intact |-> TRUE, acc |-> None]]
  /\ UNCHANGED <<account, queue, recorded, wire>>

\* authenticate() sets isOnline; the reply comes before the delivery thread.
LogIn(c) == LET n == handler[c].acc IN
  /\ Expected(c) /\ Now(c).tag = "password" /\ handler[c].islogin = 1
  /\ n \in DOMAIN account /\ account[n] = Now(c).arg
  /\ online' = online \cup {n}
  /\ ServerWrites(c, <<Tag("login-good")>>)
  /\ Step(c, [handler[c] EXCEPT !.continuityIndex = "none", !.islogin = 0,
                                !.istonextstage = TRUE])
  /\ delivery' = [delivery EXCEPT ![c] = [state |-> "starting", intact |-> TRUE, acc |-> None]]
  /\ UNCHANGED <<account, queue, recorded, toServer>>

\* Mutant: whoever tries to log in counts as online.
RefuseLoginOnline(c) == LET n == handler[c].acc IN
  /\ Expected(c) /\ Now(c).tag = "password" /\ handler[c].islogin = 1
  /\ \/ n \notin DOMAIN account /\ ServerWrites(c, <<Tag("login-badU")>>)
     \/ n \in DOMAIN account /\ account[n] # Now(c).arg /\ ServerWrites(c, <<Tag("login-badP")>>)
  /\ online' = online \cup {n}
  /\ Step(c, [handler[c] EXCEPT !.continuityIndex = "none", !.islogin = 0])
  /\ UNCHANGED <<account, queue, recorded, delivery, toServer>>

RefuseLogin(c) == LET n == handler[c].acc IN
  /\ Expected(c) /\ Now(c).tag = "password" /\ handler[c].islogin = 1
  /\ \/ n \notin DOMAIN account /\ ServerWrites(c, <<Tag("login-badU")>>)
     \/ n \in DOMAIN account /\ account[n] # Now(c).arg /\ ServerWrites(c, <<Tag("login-badP")>>)
  /\ Step(c, [handler[c] EXCEPT !.continuityIndex = "none", !.islogin = 0])
  /\ UNCHANGED <<accounts, delivery, toServer>>
-----------------------------------------------------------------------------
(* Knocks, messages and files: KnockMtransFiletrans(), whose frame takes *)
(* the place of the one that dealwithLoginout() left to the delivery     *)
(* thread: clearing its buffers may clear that thread's argument, which  *)
(* depends on where the compiler has put them.                           *)

\* Mutant: the argument lives in memory that all handlers share.
OnlineShared(c) ==
  /\ handler[c].todo # <<>>
  /\ handler[c].istonextstage \/ Now(c).tag = "filedata"
  /\ delivery' = [d \in Conn |-> [delivery[d] EXCEPT !.intact = FALSE]]

Online(c) == /\ handler[c].todo # <<>>
             /\ handler[c].istonextstage \/ Now(c).tag = "filedata"
             /\ \/ UNCHANGED delivery
                \/ delivery' = [delivery EXCEPT ![c].intact = FALSE]

\* add_message() is called to record the message with sender and receiver.
\* What comes of that in a history with several writers, or a full one, is
\* for History.tla to say: nothing here depends on it.
AddMessage(from, to, text) ==
  recorded' = [n \in Name |->
                IF n \in {from, to} /\ n \in DOMAIN account /\ Len(recorded[n]) < MaxRecorded
                THEN Append(recorded[n], [sender |-> from, receiver |-> to, content |-> text])
                ELSE recorded[n]]

\* The queue takes the job if it has room; the caller's client is not told.
JobAssign(to, job) ==
  queue' = IF to \in DOMAIN account /\ Len(queue[to]) < Capacity
           THEN [queue EXCEPT ![to] = Append(@, job)] ELSE queue

TakeTarget(c) ==
  /\ Online(c) /\ Now(c).tag = "username" /\ TwoArguments(Now(c))
  /\ Step(c, [handler[c] EXCEPT !.toWhoseAcc = Now(c).arg])
  /\ UNCHANGED <<accounts, wire>>

\* Mutant: sender and receiver are swapped.
TakeMessageSwapped(c) == LET h == handler[c] IN
  /\ Online(c) /\ Now(c).tag = "message" /\ TwoArguments(Now(c))
  /\ JobAssign(h.acc, <<Command("username", h.toWhoseAcc), Now(c)>>)
  /\ Step(c, h)
  /\ UNCHANGED <<account, online, recorded, wire>>

TakeMessage(c) == LET h == handler[c] IN
  /\ Online(c) /\ Now(c).tag = "message" /\ TwoArguments(Now(c))
  /\ IF h.toWhoseAcc \in DOMAIN account
     THEN AddMessage(h.acc, h.toWhoseAcc, Now(c).arg)
     ELSE UNCHANGED recorded
  /\ JobAssign(h.toWhoseAcc, <<Command("username", h.acc), Now(c)>>)
  /\ Step(c, h)
  /\ UNCHANGED <<account, online, wire>>

\* islogin doubles as the segment number.
TakeFileData(c) == LET h == handler[c] IN
  /\ Online(c) /\ Now(c).tag = "filedata"
  /\ JobAssign(h.toWhoseAcc, <<Command("username", h.acc), Now(c)>>)
  /\ Step(c, [h EXCEPT !.islogin = Now(c).seg, !.continuityIndex = "none"])
  /\ UNCHANGED <<account, online, recorded, wire>>

\* Mutant: every account that exists is online.
TakeKnockExists(c) ==
  /\ Online(c) /\ Now(c).tag = "knock" /\ TwoArguments(Now(c))
  /\ ServerWrites(c, <<Tag(IF Now(c).arg \in DOMAIN account
                           THEN "user-online" ELSE "user-offline")>>)
  /\ Step(c, handler[c])
  /\ UNCHANGED <<accounts, toServer>>

\* Mutant: only an online friend is answered for.
TakeKnockOnline(c) ==
  /\ Online(c) /\ Now(c).tag = "knock" /\ TwoArguments(Now(c))
  /\ IF Now(c).arg \in online
     THEN ServerWrites(c, <<Tag("user-online")>>)
     ELSE UNCHANGED <<toClient, closed, reset, crashed>>
  /\ Step(c, handler[c])
  /\ UNCHANGED <<accounts, toServer>>

TakeKnock(c) ==
  /\ Online(c) /\ Now(c).tag = "knock" /\ TwoArguments(Now(c))
  /\ ServerWrites(c, <<Tag(IF Now(c).arg \in online THEN "user-online" ELSE "user-offline")>>)
  /\ Step(c, handler[c])
  /\ UNCHANGED <<accounts, toServer>>

\* Everything else, <logout> among it, has no effect.
TakeOther(c) ==
  /\ Online(c)
  /\ Now(c).tag # "filedata"
  /\ Now(c).tag \in {"username", "message", "knock"} => ~TwoArguments(Now(c))
  /\ Step(c, handler[c])
  /\ UNCHANGED <<accounts, wire>>
-----------------------------------------------------------------------------
(* The delivery thread: threadSecondSrv(). *)

\* Mutant: the name is copied from what the handler leaves behind.
StartDeliveryLate(c) ==
  /\ delivery[c].state = "starting"
  /\ delivery' = [delivery EXCEPT ![c].state = "on", ![c].acc = handler[c].toWhoseAcc]
  /\ UNCHANGED <<accounts, handler, wire>>

\* It copies the account's name from its argument, if that is still there.
StartDelivery(c) ==
  /\ delivery[c].state = "starting"
  /\ delivery' = [delivery EXCEPT ![c].state = "on",
                    ![c].acc = IF delivery[c].intact THEN handler[c].acc ELSE None]
  /\ UNCHANGED <<accounts, handler, wire>>

\* Mutant: the newest job is taken first.
DeliverNewest(c) == LET n == delivery[c].acc IN
  /\ delivery[c].state = "on" /\ n # None
  /\ queue[n] # <<>>
  /\ queue' = [queue EXCEPT ![n] = SubSeq(@, 1, Len(@) - 1)]
  /\ IF delivery[c].intact THEN ServerWrites(c, queue[n][Len(queue[n])])
                           ELSE UNCHANGED <<toClient, closed, reset, crashed>>
  /\ UNCHANGED <<account, online, recorded, handler, delivery, toServer>>

\* Mutant: the job stays in the queue.
DeliverAgain(c) == LET n == delivery[c].acc IN
  /\ delivery[c].state = "on" /\ n # None
  /\ queue[n] # <<>>
  /\ IF delivery[c].intact THEN ServerWrites(c, Head(queue[n]))
                           ELSE UNCHANGED <<toClient, closed, reset, crashed>>
  /\ UNCHANGED <<accounts, handler, delivery, toServer>>

\* job_get(), write() and job_free(): the socket is read from the argument
\* anew, and is 0, the standard input, once that is cleared.
Deliver(c) == LET n == delivery[c].acc IN
  /\ delivery[c].state = "on" /\ n # None
  /\ queue[n] # <<>>
  /\ queue' = [queue EXCEPT ![n] = Tail(@)]
  /\ IF delivery[c].intact THEN ServerWrites(c, Head(queue[n]))
                           ELSE UNCHANGED <<toClient, closed, reset, crashed>>
  /\ UNCHANGED <<account, online, recorded, handler, delivery, toServer>>
-----------------------------------------------------------------------------
ServerInit ==
  /\ account = Registered /\ online = {}
  /\ queue = [n \in Name |-> <<>>] /\ recorded = [n \in Name |-> <<>>]
  /\ handler = [c \in Conn |-> [buf |-> <<>>, todo |-> <<>>, continuityIndex |-> "none",
                                islogin |-> 0, istonextstage |-> FALSE,
                                acc |-> None, toWhoseAcc |-> None]]
  /\ delivery = [c \in Conn |-> [state |-> "none", intact |-> FALSE, acc |-> None]]

Handling(c) ==
  \/ Read(c) \/ ReadEnd(c)
  \/ TakeTag(c) \/ TakeUnexpected(c) \/ TakeUsername(c)
  \/ SignUp(c) \/ LogIn(c) \/ RefuseLogin(c)
  \/ TakeTarget(c) \/ TakeMessage(c) \/ TakeFileData(c) \/ TakeKnock(c) \/ TakeOther(c)

Delivering(c) == StartDelivery(c) \/ Deliver(c)
=============================================================================
