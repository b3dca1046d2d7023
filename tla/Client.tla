------------------------------- MODULE Client -------------------------------
(***************************************************************************)
(* The client program of client-state.c: the thread that talks to the user *)
(* and, from a login on, the thread that receives (s_online_recv).  The    *)
(* receiving thread keeps an incomplete command at the end of its buffer   *)
(* for the next recv(), so it takes the commands one by one, and whole.    *)
(***************************************************************************)
EXTENDS Wire

CONSTANTS Enters,       \* bounds: the names each user signs up or logs in with,
          Knocks,       \* the names each user knocks for,
          MaxSignUps,   \* how often each user signs up,
          MaxLogIns,    \* tries to log in,
          MaxKnocks,    \* begins a message or a file transfer,
          MaxMessages,  \* and types a line
          FileLists,    \* the lists of files a user may choose
          Killable,     \* the clients whose user may kill them
          StickyEOF     \* whether the end of a message ends stdin for good

ASSUME ClientAssumption ==
  /\ \A c \in Conn : Enters[c] \subseteq Name /\ Knocks[c] \subseteq Name
  /\ FileLists \subseteq Seq(File) /\ StickyEOF \in BOOLEAN
  /\ None \notin [by : Conn, to : Name, n : Nat] \* None is no text.

VARIABLES state,    \* which function the user thread is in
          username, password, dst_usr, \* its locals
          service,  \* what it does after a knock: "m" or "f"
          rf_list, rf_ptr, \* the files it is sending, and the one it is at
          signups, logins, knocks, typed, \* how often the user has done each
          receiver, \* the receiving thread: its state, src_usr and open files
          itsig,    \* the queue of _itsig_enqueue() and _itsig_dequeue()
          shown,    \* the messages printed: <<src_usr, message>>
          disk      \* the files written

user   == <<username, password, dst_usr, service>>
files  == <<rf_list, rf_ptr>>
counts == <<signups, logins, knocks, typed>>
inbox  == <<receiver, itsig, shown, disk>>
client == <<state, user, files, counts, inbox>>

Goto(c, from, to) == state[c] = from /\ state' = [state EXCEPT ![c] = to]
Has(c)            == toClient[c] # <<>>
NextTag(c)        == Head(toClient[c]).tag

\* _itsig_enqueue(), _itsig_dequeue(), under their lock.
Enqueue(c, signal) == itsig' = [itsig EXCEPT ![c] = Append(@, signal)]
Dequeue(c)         == itsig' = [itsig EXCEPT ![c] = Tail(@)]
-----------------------------------------------------------------------------
(* Offline: s_offline_general(), s_offline_signup(), s_offline_login(). *)

Enter(c, tag) == \E n \in Enters[c], w \in Password :
  /\ username' = [username EXCEPT ![c] = n] /\ password' = [password EXCEPT ![c] = w]
  /\ ClientSends(c, <<Tag(tag), Command("username", n), Command("password", w)>>)

AskSignUp(c) ==
  /\ Goto(c, "offline", "signup")
  /\ Enter(c, "signup")
  /\ signups[c] < MaxSignUps[c] /\ signups' = [signups EXCEPT ![c] = @ + 1]
  /\ UNCHANGED <<dst_usr, service, files, logins, knocks, typed, inbox>>

AskLogIn(c) ==
  /\ Goto(c, "offline", "login")
  /\ Enter(c, "login")
  /\ logins[c] < MaxLogIns[c] /\ logins' = [logins EXCEPT ![c] = @ + 1]
  /\ UNCHANGED <<dst_usr, service, files, signups, knocks, typed, inbox>>

\* A good reply to a login starts the receiving thread.
Answered(c) ==
  /\ Has(c)
  /\ \/ /\ \/ Goto(c, "signup", "offline") /\ NextTag(c) \in {"signup-good", "signup-badU"}
           \/ Goto(c, "login", "offline") /\ NextTag(c) \in {"login-badU", "login-badP"}
        /\ UNCHANGED receiver
     \/ /\ Goto(c, "login", "online") /\ NextTag(c) = "login-good"
        /\ receiver' = [receiver EXCEPT ![c].state = "on"]
  /\ ClientTakes(c)
  /\ UNCHANGED <<user, files, counts, itsig, shown, disk>>

Quit(c) ==
  /\ Goto(c, "offline", "exited")
  /\ ClientCloses(c)
  /\ UNCHANGED <<user, files, counts, inbox>>
-----------------------------------------------------------------------------
(* Online: s_online_general(), s_online_knock(), s_online_msg(). *)

Knock(c, n, s) ==
  /\ state' = [state EXCEPT ![c] = "knock"]
  /\ dst_usr' = [dst_usr EXCEPT ![c] = n] /\ service' = [service EXCEPT ![c] = s]
  /\ ClientSends(c, <<Command("knock", n)>>)

AskFriend(c) ==
  /\ state[c] = "online"
  /\ knocks[c] < MaxKnocks[c] /\ knocks' = [knocks EXCEPT ![c] = @ + 1]
  /\ \E n \in Knocks[c], s \in {"m", "f"} : (s = "f" => FileLists # {}) /\ Knock(c, n, s)
  /\ UNCHANGED <<username, password, files, signups, logins, typed, inbox>>

\* The busy loop ends with the first signal in the queue.
FriendIs(c) ==
  /\ itsig[c] # <<>>
  /\ Goto(c, "knock", IF service[c] = "m" THEN "confirm" ELSE "choose")
  /\ Dequeue(c)
  /\ UNCHANGED <<wire, user, files, counts, receiver, shown, disk>>

Confirm(c) ==
  /\ Goto(c, "confirm", "typing") \/ Goto(c, "confirm", "online")
  /\ UNCHANGED <<wire, user, files, counts, inbox>>

\* What the user means by a message is part of it.
TypeMessage(c) ==
  /\ state[c] = "typing"
  /\ typed[c] < MaxMessages[c] /\ typed' = [typed EXCEPT ![c] = @ + 1]
  /\ ClientSends(c, <<Command("username", dst_usr[c]),
                      Command("message", [by |-> c, to |-> dst_usr[c], n |-> typed[c] + 1])>>)
  /\ UNCHANGED <<state, user, files, signups, logins, knocks, inbox>>

\* The user ends the message with an end-of-file.  Where stdio keeps that
\* mark, nothing more can be read: the menu repeats its last choice and the
\* knock goes to the empty name.
EndMessage(c) ==
  /\ state[c] = "typing"
  /\ IF StickyEOF
     THEN Knock(c, None, "m")
     ELSE Goto(c, "typing", "online") /\ UNCHANGED <<dst_usr, service, wire>>
  /\ UNCHANGED <<username, password, files, counts, inbox>>

\* <logout>, then pthread_join(): only "logout-confirmed" ends the receiving
\* thread well.
LogOut(c) ==
  /\ Goto(c, "online", "join")
  /\ ClientSends(c, <<Tag("logout")>>)
  /\ UNCHANGED <<user, files, counts, inbox>>

\* Mutant: a receiving thread that failed is waited for.
JoinDone(c) ==
  /\ receiver[c].state = "done"
  /\ Goto(c, "join", "offline")
  /\ UNCHANGED <<wire, user, files, counts, inbox>>

Join(c) ==
  /\ receiver[c].state # "on"
  /\ Goto(c, "join", IF receiver[c].state = "done" THEN "offline" ELSE "exited")
  /\ IF receiver[c].state = "done" THEN UNCHANGED wire ELSE ClientCloses(c)
  /\ UNCHANGED <<user, files, counts, inbox>>
-----------------------------------------------------------------------------
(* Sending files: s_online_ftp(), insert_fl(), remove_fl(). *)

\* Mutant: the segments are numbered from 0.
InsertFromZero(list, path) ==
  IF path \in DOMAIN FileLength THEN Append(list, [filename |-> path, datagram_cnt |-> 0]) ELSE list

\* A file that cannot be opened is left out.
Insert(list, path) ==
  IF path \in DOMAIN FileLength THEN Append(list, [filename |-> path, datagram_cnt |-> 1]) ELSE list

Inserted(l) ==
  LET upTo[k \in 0 .. Len(l)] == IF k = 0 THEN <<>> ELSE Insert(upTo[k - 1], l[k])
  IN  upTo[Len(l)]

ChooseFiles(c) == \E l \in FileLists :
  /\ Goto(c, "choose", "files")
  /\ rf_list' = [rf_list EXCEPT ![c] = Inserted(l)]
  /\ rf_ptr' = [rf_ptr EXCEPT ![c] = 1]
  /\ UNCHANGED <<wire, user, counts, inbox>>

Segment(c, f, k, text) ==
  ClientSends(c, <<Command("username", dst_usr[c]), FileData(f.filename, k, text)>>)

\* Each turn of the loop sends the next segment of the next file.
SendSegment(c) == LET k == rf_ptr[c]  f == rf_list[c][k] IN
  /\ state[c] = "files" /\ rf_list[c] # <<>>
  /\ f.datagram_cnt <= FileLength[f.filename]
  /\ Segment(c, f, f.datagram_cnt, [by |-> c, to |-> dst_usr[c], n |-> f.datagram_cnt])
  /\ rf_list' = [rf_list EXCEPT ![c][k].datagram_cnt = @ + 1]
  /\ rf_ptr' = [rf_ptr EXCEPT ![c] = IF k = Len(rf_list[c]) THEN 1 ELSE k + 1]
  /\ UNCHANGED <<state, user, counts, inbox>>

SendEnd(c) == LET f == rf_list[c][rf_ptr[c]] IN
  /\ rf_list[c] # <<>> /\ Goto(c, "files", "remove")
  /\ f.datagram_cnt > FileLength[f.filename]
  /\ Segment(c, f, 0, None)
  /\ UNCHANGED <<user, files, counts, inbox>>

\* Mutant: the comparison of the paths is inverted.
RemoveFileInverted(c) ==
  \/ /\ rf_ptr[c] # 1 /\ Goto(c, "remove", "files")
     /\ rf_list' = [rf_list EXCEPT ![c] = Tail(@)]
     /\ UNCHANGED <<wire, user, rf_ptr, counts, inbox>>
  \/ /\ rf_ptr[c] = 1 /\ Goto(c, "remove", "exited")
     /\ ClientCloses(c)
     /\ UNCHANGED <<user, files, counts, inbox>>

\* remove_fl() calls itself with the list it was given: unless the file is
\* the first one, the recursion ends with the stack, and so does the client.
RemoveFile(c) ==
  \/ /\ rf_ptr[c] = 1 /\ Goto(c, "remove", "files")
     /\ rf_list' = [rf_list EXCEPT ![c] = Tail(@)]
     /\ UNCHANGED <<wire, user, rf_ptr, counts, inbox>>
  \/ /\ rf_ptr[c] # 1 /\ Goto(c, "remove", "exited")
     /\ ClientCloses(c)
     /\ UNCHANGED <<user, files, counts, inbox>>

FilesSent(c) ==
  /\ rf_list[c] = <<>> /\ Goto(c, "files", "online")
  /\ UNCHANGED <<wire, user, files, counts, inbox>>
-----------------------------------------------------------------------------
(* The receiving thread: s_online_recv(), write_file(). *)

Receiving(c) == receiver[c].state = "on" /\ c \notin closed

TakeSignal(c) ==
  /\ Receiving(c) /\ Has(c) /\ NextTag(c) \in {"user-online", "user-offline"}
  /\ Enqueue(c, NextTag(c))
  /\ ClientTakes(c)
  /\ UNCHANGED <<state, user, files, counts, receiver, shown, disk>>

\* The sender of what follows, or the word that ends the thread.
TakeSource(c) ==
  /\ Receiving(c) /\ Has(c) /\ NextTag(c) \in {"username", "logout-confirmed"}
  /\ receiver' = IF NextTag(c) = "username"
                 THEN [receiver EXCEPT ![c].src_usr = Head(toClient[c]).arg]
                 ELSE [receiver EXCEPT ![c].state = "done"]
  /\ ClientTakes(c)
  /\ UNCHANGED <<state, user, files, counts, itsig, shown, disk>>

ShowMessage(c) ==
  /\ Receiving(c) /\ Has(c) /\ NextTag(c) = "message"
  /\ shown' = [shown EXCEPT ![c] = Append(@, <<receiver[c].src_usr, Head(toClient[c]).arg>>)]
  /\ ClientTakes(c)
  /\ UNCHANGED <<state, user, files, counts, receiver, itsig, disk>>

\* A file not open is truncated; the segment numbered 0 closes it.
WriteFile(c) == LET d == Head(toClient[c])  open == receiver[c].open IN
  /\ Receiving(c) /\ Has(c) /\ NextTag(c) = "filedata"
  /\ disk' = [disk EXCEPT ![c][d.file] =
                (IF d.file \in open THEN @ ELSE <<>>) \o (IF d.arg = None THEN <<>> ELSE <<d.arg>>)]
  /\ receiver' = [receiver EXCEPT ![c].open = IF d.seg = 0 THEN open \ {d.file}
                                                           ELSE open \cup {d.file}]
  /\ ClientTakes(c)
  /\ UNCHANGED <<state, user, files, counts, itsig, shown>>

EndReceiving(c) ==
  /\ Receiving(c) /\ crashed /\ ~Has(c)
  /\ receiver' = [receiver EXCEPT ![c].state = "failed"]
  /\ UNCHANGED <<wire, state, user, files, counts, itsig, shown, disk>>
-----------------------------------------------------------------------------
(* The server is gone. *)

\* A user thread that waits for the reply to a sign-up or login has recv() fail.
RecvFails(c) ==
  /\ crashed /\ ~Has(c)
  /\ Goto(c, "signup", "exited") \/ Goto(c, "login", "exited")
  /\ ClientCloses(c)
  /\ UNCHANGED <<user, files, counts, inbox>>

\* What is sent may go nowhere, or send() fails and the client gives up; where
\* s_online_ftp() ignores that, the SIGPIPE of the next send() ends it.
SendFails(c) ==
  /\ crashed /\ state[c] \in {"offline", "online", "typing", "files"}
  /\ state' = [state EXCEPT ![c] = "exited"]
  /\ ClientCloses(c)
  /\ UNCHANGED <<user, files, counts, inbox>>

Kill(c) ==
  /\ c \in Killable /\ state[c] # "exited"
  /\ state' = [state EXCEPT ![c] = "exited"]
  /\ ClientCloses(c)
  /\ UNCHANGED <<user, files, counts, inbox>>

ClientInit ==
  /\ state = [c \in Conn |-> "offline"]
  /\ username = [c \in Conn |-> None] /\ password = [c \in Conn |-> None]
  /\ dst_usr = [c \in Conn |-> None] /\ service = [c \in Conn |-> "m"]
  /\ rf_list = [c \in Conn |-> <<>>] /\ rf_ptr = [c \in Conn |-> 1]
  /\ signups = [c \in Conn |-> 0] /\ logins = [c \in Conn |-> 0]
  /\ knocks = [c \in Conn |-> 0] /\ typed = [c \in Conn |-> 0]
  /\ receiver = [c \in Conn |-> [state |-> "off", src_usr |-> None, open |-> {}]]
  /\ itsig = [c \in Conn |-> <<>>] /\ shown = [c \in Conn |-> <<>>]
  /\ disk = [c \in Conn |-> [f \in File |-> <<>>]]

\* What waits for the user's input, or need not happen.
UserActs(c) == AskSignUp(c) \/ AskLogIn(c) \/ Quit(c) \/ AskFriend(c) \/ Confirm(c)
                 \/ TypeMessage(c) \/ EndMessage(c) \/ LogOut(c) \/ ChooseFiles(c)
                 \/ SendFails(c) \/ Kill(c)

UserThread(c) == Answered(c) \/ FriendIs(c) \/ Join(c) \/ SendSegment(c) \/ SendEnd(c)
                   \/ RemoveFile(c) \/ FilesSent(c) \/ RecvFails(c)

ReceiveThread(c) == TakeSignal(c) \/ TakeSource(c) \/ ShowMessage(c) \/ WriteFile(c)
                      \/ EndReceiving(c)
=============================================================================
