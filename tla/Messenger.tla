----------------------------- MODULE Messenger -----------------------------
(***************************************************************************)
(* What the chat system promises to its users, whatever the threads, queues*)
(* and sockets between them do: a message may get lost, but what is shown  *)
(* was typed for who sees it, is shown under the name of who typed it, on  *)
(* one screen and once, and after the earlier messages of that user.       *)
(* Chat.tla is the system that is meant to keep this.                      *)
(***************************************************************************)
EXTENDS Naturals, Sequences

CONSTANTS Conn, Name,
          None       \* no name

VARIABLES username,  \* the name each user has entered last
          typed,     \* how many messages each user has typed
          flying,    \* the messages on their way
          shown      \* what each user has been shown: <<name, message>>

vars == <<username, typed, flying, shown>>

Init == /\ username = [c \in Conn |-> None] /\ typed = [c \in Conn |-> 0]
        /\ flying = {} /\ shown = [c \in Conn |-> <<>>]

\* A user who has begun to write keeps the name.
SignIn(c) == \E n \in Name :
  /\ typed[c] = 0 /\ username' = [username EXCEPT ![c] = n]
  /\ UNCHANGED <<typed, flying, shown>>

Type(c) == \E n \in Name \cup {None} :
  /\ username[c] # None /\ typed' = [typed EXCEPT ![c] = @ + 1]
  /\ flying' = flying \cup {[by |-> c, to |-> n, n |-> typed[c] + 1]}
  /\ UNCHANGED <<username, shown>>

Show(c) == \E m \in flying :
  /\ m.to = username[c]
  /\ \A k \in DOMAIN shown[c] : shown[c][k][2].by = m.by => shown[c][k][2].n < m.n
  /\ shown' = [shown EXCEPT ![c] = Append(@, <<username[m.by], m>>)]
  /\ flying' = flying \ {m}
  /\ UNCHANGED <<username, typed>>

Lose == flying' \subseteq flying /\ UNCHANGED <<username, typed, shown>>

Next == Lose \/ \E c \in Conn : SignIn(c) \/ Type(c) \/ Show(c)

Spec == Init /\ [][Next]_vars
=============================================================================
