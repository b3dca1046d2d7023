----------------------------- MODULE MessageLog -----------------------------
(***************************************************************************)
(* What the message histories of account.h promise: every message is       *)
(* recorded with its sender and its receiver, each of which keeps the      *)
(* first Capacity messages in order; a reader is given, of the messages    *)
(* recorded from `number' before the moment it began to the moment it      *)
(* ended, those with its friend.  History.tla is the code.                 *)
(***************************************************************************)
EXTENDS Naturals, Sequences

CONSTANTS Account, Writers, Readers, Message,
          Request,   \* an account, its friend, and how many messages to look at
          Capacity,
          NULL       \* no message, no request

VARIABLES log,       \* the messages recorded with each account
          used,      \* the contents add_message() has been called with
          adding,    \* the message of each writer
          missing,   \* the accounts it has still to be recorded with
          asked,     \* what each reader has asked for
          since,     \* the message its answer begins with, 0 before it begins
          answer     \* its lines, by the position of their messages

vars == <<log, used, adding, missing, asked, since, answer>>

Line(m) == [sender |-> m.sender, content |-> m.content]

\* The lines of l[from], l[from + 1], ... that are from or for a friend.
LinesWith(l, from, friend) ==
  [k \in {j \in from .. Len(l) : friend \in {l[j].sender, l[j].receiver}} |-> Line(l[k])]
NoLines == [k \in {} |-> NULL]

Init == /\ log = [n \in Account |-> <<>>] /\ used = {}
        /\ adding = [t \in Writers |-> NULL] /\ missing = [t \in Writers |-> {}]
        /\ asked = [t \in Readers |-> NULL] /\ since = [t \in Readers |-> 0]
        /\ answer = [t \in Readers |-> NoLines]

Add(t) == \E m \in Message :
  /\ adding[t] = NULL /\ adding' = [adding EXCEPT ![t] = m]
  /\ m.content \notin used /\ used' = used \cup {m.content}
  /\ missing' = [missing EXCEPT ![t] = {m.sender, m.receiver}]
  /\ UNCHANGED <<log, asked, since, answer>>

Record(t) == \E n \in missing[t] :
  /\ log' = [log EXCEPT ![n] = IF Len(@) = Capacity THEN @ ELSE Append(@, adding[t])]
  /\ missing' = [missing EXCEPT ![t] = @ \ {n}]
  /\ UNCHANGED <<used, adding, asked, since, answer>>

Added(t) ==
  /\ adding[t] # NULL /\ missing[t] = {}
  /\ adding' = [adding EXCEPT ![t] = NULL]
  /\ UNCHANGED <<log, used, missing, asked, since, answer>>

Ask(t) == \E r \in Request :
  /\ asked[t] = NULL /\ asked' = [asked EXCEPT ![t] = r]
  /\ answer' = [answer EXCEPT ![t] = NoLines]
  /\ UNCHANGED <<log, used, adding, missing, since>>

Begin(t) == LET n == Len(log[asked[t].username]) IN
  /\ asked[t] # NULL /\ since[t] = 0
  /\ since' = [since EXCEPT ![t] = IF asked[t].number < n THEN n - asked[t].number + 1 ELSE 1]
  /\ UNCHANGED <<log, used, adding, missing, asked, answer>>

End(t) ==
  /\ since[t] # 0 /\ since' = [since EXCEPT ![t] = 0]
  /\ answer' = [answer EXCEPT ![t] = LinesWith(log[asked[t].username], since[t], asked[t].friend)]
  /\ asked' = [asked EXCEPT ![t] = NULL]
  /\ UNCHANGED <<log, used, adding, missing>>

Next == \/ \E t \in Writers : Add(t) \/ Record(t) \/ Added(t)
        \/ \E t \in Readers : Ask(t) \/ Begin(t) \/ End(t)

Spec == Init /\ [][Next]_vars
=============================================================================
