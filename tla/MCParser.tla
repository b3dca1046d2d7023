------------------------------ MODULE MCParser ------------------------------
(* Values of the constants of Parser for TLC. *)
EXTENDS Parser

Texts  == {Command("username", "a"), Command("message", "m"), FileData("f", 10, "x")}
MCSent == [server |-> Texts \cup {Tag("login")},
           client |-> Texts \cup {Tag("user-online"), FileData("f", 0, None)}]

\* Less than two of the longest commands.
MCBufferSize == [server |-> 20, client |-> 14]
=============================================================================
