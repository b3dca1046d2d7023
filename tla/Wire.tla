-------------------------------- MODULE Wire --------------------------------
(***************************************************************************)
(* The TCP connections between the clients (Client.tla) and the server     *)
(* (Server.tla).  The bytes of a direction are the commands they spell.    *)
(***************************************************************************)
EXTENDS Commands

CONSTANTS Conn,     \* the connections, each with one client program
          Name,     \* user names
          Password,
          File,     \* names of files
          FileLength  \* the segments each file has that can be opened

ASSUME WireAssumption ==
  None \notin Name /\ \A x \in DOMAIN FileLength : FileLength[x] \in Nat

VARIABLES toServer, toClient, \* commands on their way, per connection
          closed,   \* the clients that have closed their socket, or died
          reset,    \* the closed connections the server's next write fails on
          crashed   \* the server process has died

wire == <<toServer, toClient, closed, reset, crashed>>

WireInit == /\ toServer = [c \in Conn |-> <<>>] /\ toClient = [c \in Conn |-> <<>>]
            /\ closed = {} /\ reset = {} /\ crashed = FALSE

ClientSends(c, cmds) ==
  /\ toServer' = [toServer EXCEPT ![c] = @ \o cmds]
  /\ UNCHANGED <<toClient, closed, reset, crashed>>

ClientTakes(c) ==
  /\ toClient' = [toClient EXCEPT ![c] = Tail(@)]
  /\ UNCHANGED <<toServer, closed, reset, crashed>>

\* Closing a socket with unread bytes resets the connection at once.
ClientCloses(c) ==
  /\ closed' = closed \cup {c}
  /\ reset' = IF toClient[c] = <<>> THEN reset ELSE reset \cup {c}
  /\ toClient' = [toClient EXCEPT ![c] = <<>>]
  /\ UNCHANGED <<toServer, crashed>>

\* The first write to a closed connection succeeds and is answered with a
\* reset, after which a write raises SIGPIPE, which the server leaves fatal.
ServerWrites(c, cmds) ==
  \/ /\ c \notin closed
     /\ toClient' = [toClient EXCEPT ![c] = @ \o cmds]
     /\ UNCHANGED <<closed, reset, crashed>>
  \/ /\ c \in closed \ reset
     /\ reset' \in {reset, reset \cup {c}}
     /\ UNCHANGED <<toClient, closed, crashed>>
  \/ /\ c \in reset
     /\ crashed' = TRUE
     /\ UNCHANGED <<toClient, closed, reset>>
=============================================================================
