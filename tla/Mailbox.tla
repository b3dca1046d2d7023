------------------------------ MODULE Mailbox ------------------------------
(***************************************************************************)
(* What the job queue of one account promises to the threads of the        *)
(* server: a bounded first-in first-out mailbox.  A job handed to          *)
(* job_assign() is accepted or, only when the mailbox is full, refused;    *)
(* job_get() takes the accepted jobs one by one, each once, in the order   *)
(* of acceptance.  JobQueue.tla is the code that is meant to keep this.    *)
(***************************************************************************)
EXTENDS Naturals, Sequences

CONSTANTS Job,      \* what can be queued
          Capacity  \* how many accepted jobs may wait

VARIABLES accepted, \* the jobs accepted so far, in order
          taken,    \* the jobs taken so far, in order
          refused   \* the jobs turned away

vars == <<accepted, taken, refused>>

Waiting == Len(accepted) - Len(taken)

\* Every job is offered once.
Fresh(j) == j \notin refused /\ \A i \in DOMAIN accepted : accepted[i] # j

Init == accepted = <<>> /\ taken = <<>> /\ refused = {}

Accept(j) == /\ Fresh(j) /\ Waiting < Capacity
             /\ accepted' = Append(accepted, j)
             /\ UNCHANGED <<taken, refused>>

Refuse(j) == /\ Fresh(j) /\ Waiting = Capacity
             /\ refused' = refused \cup {j}
             /\ UNCHANGED <<accepted, taken>>

Take == /\ Waiting > 0
        /\ taken' = Append(taken, accepted[Len(taken) + 1])
        /\ UNCHANGED <<accepted, refused>>

Next == Take \/ \E j \in Job : Accept(j) \/ Refuse(j)

Spec == Init /\ [][Next]_vars
=============================================================================
