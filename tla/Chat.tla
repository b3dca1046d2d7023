-------------------------------- MODULE Chat --------------------------------
(***************************************************************************)
(* The chat system: the server and one client program on each connection.  *)
(***************************************************************************)
EXTENDS Server, Client

\* Server.tla may take calls of account.h as steps: no two connections log in
\* to one account or send to one account, and only one signs users up.  (A
\* handler keeps to what its client enters, and a client logs in once, as it
\* is never let out again.)
ASSUME OneOfEach == \A c, d \in Conn : c # d =>
  /\ Enters[c] \cap Enters[d] = {} /\ Knocks[c] \cap Knocks[d] = {}
  /\ MaxSignUps[c] = 0 \/ MaxSignUps[d] = 0

vars == <<wire, server, client>>

Init == WireInit /\ ServerInit /\ ClientInit

ServerStep(c) == ~crashed /\ (Handling(c) \/ Delivering(c)) /\ UNCHANGED client
UserStep(c)   == UserActs(c) /\ UNCHANGED server
ThreadStep(c) == (UserThread(c) \/ ReceiveThread(c)) /\ UNCHANGED server

Next == \E c \in Conn : ServerStep(c) \/ UserStep(c) \/ ThreadStep(c)

Spec == Init /\ [][Next]_vars

\* The operating systems run every thread that can go on, and TCP carries
\* every byte; a user need do nothing, but does not hold up the program.
Fairness == \A c \in Conn :
  /\ WF_vars(~crashed /\ Handling(c) /\ UNCHANGED client)
  /\ WF_vars(~crashed /\ Delivering(c) /\ UNCHANGED client)
  /\ WF_vars(UserThread(c) /\ UNCHANGED server)
  /\ WF_vars(ReceiveThread(c) /\ UNCHANGED server)

FairSpec == Spec /\ Fairness
-----------------------------------------------------------------------------
Offered   == {"offline", "signup", "login"}
InSession == {"online", "knock", "confirm", "typing", "choose", "files", "remove", "join"}

Message == UNION {[by : {c}, to : Name, n : 1 .. MaxMessages[c]] : c \in Conn}

\* The threads are at known places, and no handler is stuck where it would
\* wait for a command that does not exist.
TypeOK ==
  /\ closed \subseteq Conn /\ reset \subseteq closed /\ crashed \in BOOLEAN
  /\ DOMAIN account \subseteq Name /\ online \subseteq DOMAIN account
  /\ \A n \in Name : Len(queue[n]) <= Capacity /\ Len(recorded[n]) <= MaxRecorded
  /\ Cardinality(DOMAIN account) <= MAX_ACCOUNT_CNT
  /\ \A c \in Conn :
       /\ handler[c].continuityIndex \in {"none", "username", "password"}
       /\ handler[c].continuityIndex = "password" => handler[c].acc \in Name
       /\ handler[c].acc \in Name \cup {None} /\ handler[c].toWhoseAcc \in Name \cup {None}
       /\ delivery[c].state \in {"none", "starting", "on"}
       /\ delivery[c].acc \in Name \cup {None}
       /\ state[c] \in Offered \cup InSession \cup {"exited"}
       /\ receiver[c].state \in {"off", "on", "done", "failed"}
       /\ rf_ptr[c] \in 1 .. Len(rf_list[c]) + 1

\* A user is let in only with the password of the account, and the server
\* takes what then comes from this connection as this account's.
SessionIsOwned ==
  \A c \in Conn : state[c] \in InSession =>
    /\ username[c] \in DOMAIN account /\ account[username[c]] = password[c]
    /\ handler[c].istonextstage /\ handler[c].acc = username[c]

\* A message is shown to the user it was typed for, under the name of the
\* user who typed it, although replies to knocks are written by another thread.
ShownAsTyped ==
  \A c \in Conn : \A k \in DOMAIN shown[c] :
    LET m == shown[c][k][2] IN m.to = username[c] /\ shown[c][k][1] = username[m.by]

\* Even when reads end inside commands, a message has its typist's name on it.
ShownBySender ==
  \A c \in Conn : \A k \in DOMAIN shown[c] : shown[c][k][1] = username[shown[c][k][2].by]

\* One sender's messages are shown in the order typed and at most once.
ShownInOrder ==
  \A c \in Conn : \A j, k \in DOMAIN shown[c] :
    j < k /\ shown[c][j][2].by = shown[c][k][2].by => shown[c][j][2].n < shown[c][k][2].n

\* add_message() is called with a message once.
NoMessageTwice == \A n \in Name : \A j, k \in DOMAIN recorded[n] :
  recorded[n][j] = recorded[n][k] => j = k

\* The messages that are on their way: sent, read, queued or delivered.
Elements(s) == {s[k] : k \in DOMAIN s}
OnTheWay ==
  LET jobs == UNION {Elements(queue[n]) : n \in Name}
      cmds == UNION {Elements(toServer[c]) \cup Elements(handler[c].todo)
                       \cup Elements(toClient[c]) : c \in Conn}
  IN  {cmd.arg : cmd \in {x \in cmds \cup UNION {Elements(job) : job \in jobs} : x.tag = "message"}}

MS == INSTANCE Messenger WITH flying <- OnTheWay

\* While every connection lasts and every read ends behind a command, the
\* system is a messenger: however the threads of server and clients take
\* turns, a message is shown at most once, to whom it is for, in its place.
ImplementsMessenger == MS!Spec

\* A friend is shown as online only if the friend has logged in, although
\* the answer may have been given long before.  (Nobody goes offline here.)
KnockIsTrue ==
  [][\A c \in Conn : state[c] = "knock" /\ itsig[c] # <<>> =>
       (Head(itsig[c]) = "user-online" => dst_usr[c] \in online)]_vars

\* Every job taken from an account's queue is written to a connection that
\* has logged in to the account.
TellsTheUser ==
  [][\A n \in Name : Len(queue'[n]) < Len(queue[n]) =>
       \E c \in Conn : /\ handler[c].istonextstage /\ handler[c].acc = n
                       /\ \/ c \in closed
                          \/ toClient'[c] = toClient[c] \o Head(queue[n])]_vars

\* A job taken from the queue of a user who has only listened since the login
\* is written to this user's connection, although the name and the socket
\* come from the frame that the handler has left.
JustListens(c, n) ==
  /\ handler[c].istonextstage /\ handler[c].acc = n /\ c \notin closed
  /\ state[c] \in {"login", "online"} /\ knocks[c] = 0
TellsListeners ==
  [][\A n \in Name, c \in Conn : Len(queue'[n]) < Len(queue[n]) /\ JustListens(c, n) =>
       toClient'[c] = toClient[c] \o Head(queue[n])]_vars

\* With room for all segments, a file that write_file() closes as complete is
\* then the whole of the file somebody sent.
ClosesFile(c, x) ==
  WriteFile(c) /\ Head(toClient[c]).file = x /\ Head(toClient[c]).seg = 0
FilesAreWhole ==
  [][\A c \in Conn, x \in File : ClosesFile(c, x) =>
       \E s \in Conn : disk'[c][x] =
         [k \in 1 .. FileLength[x] |-> [by |-> s, to |-> username[c], n |-> k]]]_vars

\* A client that sends files survives it, if no list has a longer file that
\* can be opened before a shorter one.
SendingSurvives ==
  [][\A c \in Conn : state[c] \in {"files", "remove"} => state'[c] # "exited"]_vars

\* Sign-ups and logins are answered, while the table has room.
RepliesCome == \A c \in Conn : state[c] \in {"signup", "login"} ~> state[c] \notin {"signup", "login"}

\* A knock is answered, unless the server has died.
KnocksAreAnswered == \A c \in Conn : state[c] = "knock" ~> state[c] # "knock" \/ crashed

\* A message waiting for a user who has logged in is shown, as long as every
\* delivery thread of this account still has its argument.
Waiting(n) ==
  {queue[n][k][2].arg : k \in {j \in DOMAIN queue[n] : queue[n][j][2].tag = "message"}}
ShownTo(c) == {shown[c][k][2] : k \in DOMAIN shown[c]}
Disturbed(n) == \E c \in Conn : /\ handler[c].istonextstage /\ handler[c].acc = n
                               /\ ~delivery[c].intact
ListenersAreTold == \A m \in Message :
  m.to \in online /\ m \in Waiting(m.to)
    ~> Disturbed(m.to) \/ \E c \in Conn : m \in ShownTo(c)

\* When the server has died, no client waits for ever for a reply to a sign-up
\* or login, nor for the end of its receiving thread.  (One that has knocked
\* does, and one that waits for its user notices nothing.)
ServerDeathIsNoticed ==
  \A c \in Conn : /\ crashed /\ state[c] \in {"signup", "login"} ~> state[c] \notin {"signup", "login"}
                 /\ crashed /\ state[c] = "join" ~> state[c] = "exited"
=============================================================================
