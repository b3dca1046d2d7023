------------------------------- MODULE MCChat -------------------------------
(* Values of the constants of Chat for TLC. *)
EXTENDS Chat

CONSTANTS c1, a, b, p, f1, f2, f3

AllAccounts == [n \in Name |-> p]
JustA       == [n \in {a} |-> p]
JustB       == [n \in {b} |-> p]
NoFiles     == {}
EmptyFirst  == {<<f2, f3, f1>>}
Backwards   == {<<f2, f1>>}
NoLength    == <<>>
FShort      == [x \in File |-> IF x = f1 THEN 0 ELSE 2]
FEmpty      == [x \in File \ {f3} |-> IF x = f1 THEN 1 ELSE 0]

\* Bounds per connection.
AAndB   == [c \in Conn |-> IF c = c1 THEN {a} ELSE {b}]
BAndA   == [c \in Conn |-> IF c = c1 THEN {b} ELSE {a}]
C1ToB   == [c \in Conn |-> IF c = c1 THEN {b} ELSE {}]
TwoOne  == [c \in Conn |-> IF c = c1 THEN 2 ELSE 1]
Never   == [c \in Conn |-> 0]
Once    == [c \in Conn |-> 1]
OnlyC1  == [c \in Conn |-> IF c = c1 THEN 1 ELSE 0]
C2Two   == [c \in Conn |-> IF c = c1 THEN 0 ELSE 2]
C1Two   == [c \in Conn |-> IF c = c1 THEN 2 ELSE 0]
=============================================================================
