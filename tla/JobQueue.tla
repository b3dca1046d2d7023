------------------------------ MODULE JobQueue ------------------------------
(***************************************************************************)
(* The job queue of one account (cqueue.h) with the threads of server.c    *)
(* that use it at the same time and without a lock:                        *)
(*                                                                         *)
(*   Senders    connection threads (threadAnothSrv) that call job_assign() *)
(*              for this account, then print the queue for debugging;      *)
(*   Receivers  delivery threads (threadSecondSrv), one per login to the   *)
(*              account, that call job_get(), write the job to their       *)
(*              socket and free it.                                        *)
(*                                                                         *)
(* A step makes at most one access to memory another thread can write.     *)
(* The code is built without optimisation (Makefile:9), so every           *)
(* expression that names cq->head or cq->tail loads it again.              *)
(* accepted, taken and refused are history variables.                      *)
(***************************************************************************)
EXTENDS Naturals, Sequences

CONSTANTS Senders, Receivers,
          MAX_QUEUE_SIZE,   \* slots of the ring, 100 in the code
          MaxSent,          \* bound: jobs each sender offers
          NULL              \* what a slot holds before its first job

ASSUME QueueAssumption ==
  /\ MAX_QUEUE_SIZE \in Nat \ {0}
  /\ MaxSent \in Nat
  /\ Senders \cap Receivers = {}

Index  == 0 .. MAX_QUEUE_SIZE - 1
Thread == Senders \cup Receivers
Job    == [src_usr : Senders, seq : 1 .. MaxSent, jobtype : {"m", "f"}]

ASSUME NullAssumption == NULL \notin Job

VARIABLES head, tail, jobarray, \* struct cqueue
          pc,                   \* where each thread is
          reg,                  \* the index each thread has loaded
          job,                  \* the job each thread holds (jb, jptr)
          sent,                 \* calls of job_assign each sender has begun
          freed,                \* jobs given to job_free()
          delivered,            \* what each receiver has written to its socket
          accepted, taken, refused

queue   == <<head, tail, jobarray>>
history == <<accepted, taken, refused>>
vars    == <<queue, pc, reg, job, sent, freed, delivered, history>>

\* Mutant: the index does not wrap around at the end of the ring.
SuccUnbounded(i) == i + 1

Succ(i) == (i + 1) % MAX_QUEUE_SIZE

Goto(t, from, to) == pc[t] = from /\ pc' = [pc EXCEPT ![t] = to]

Load(t, i) == reg' = [reg EXCEPT ![t] = i]
-----------------------------------------------------------------------------
(* The connection thread: job_assign(), enqueue(), print_queue(). *)

\* job_assign(): allocate and fill a job; the account is found.
Assign(s) ==
  /\ sent[s] < MaxSent
  /\ Goto(s, "idle", "full_load")
  /\ sent' = [sent EXCEPT ![s] = @ + 1]
  /\ \E type \in {"m", "f"} :
       job' = [job EXCEPT ![s] = [src_usr |-> s, seq |-> sent[s] + 1, jobtype |-> type]]
  /\ UNCHANGED <<queue, reg, freed, delivered, history>>

\* Each expression of enqueue() that names cq->tail loads it.
LoadTail(s) ==
  /\ \/ Goto(s, "full_load", "full")
     \/ Goto(s, "slot_load", "slot")
     \/ Goto(s, "tail_load", "tail")
  /\ Load(s, tail)
  /\ UNCHANGED <<queue, job, sent, freed, delivered, history>>

\* A message is followed by the debugging print-out of the first four
\* accounts' queues, which may or may not include this one.
Return(s) == \/ pc' = [pc EXCEPT ![s] = "idle"]
             \/ job[s].jobtype = "m" /\ pc' = [pc EXCEPT ![s] = "print_load"]

\* Mutant: a job is refused when one more would have fitted.
FullEarly(s) ==
  /\ pc[s] = "full"
  /\ head \in {Succ(reg[s]), Succ(Succ(reg[s]))}
  /\ refused' = refused \cup {job[s]}
  /\ Return(s)
  /\ UNCHANGED <<queue, reg, job, sent, freed, delivered, accepted, taken>>

Full(s) ==
  /\ pc[s] = "full"
  /\ head = Succ(reg[s])
  /\ refused' = refused \cup {job[s]}
  /\ Return(s)
  /\ UNCHANGED <<queue, reg, job, sent, freed, delivered, accepted, taken>>

\* Mutant: a full queue is not noticed.
NotFullUnchecked(s) ==
  /\ Goto(s, "full", "slot_load")
  /\ UNCHANGED <<queue, reg, job, sent, freed, delivered, history>>

NotFull(s) ==
  /\ Goto(s, "full", "slot_load")
  /\ head # Succ(reg[s])
  /\ UNCHANGED <<queue, reg, job, sent, freed, delivered, history>>

StoreSlot(s) ==
  /\ Goto(s, "slot", "tail_load")
  /\ jobarray' = [jobarray EXCEPT ![reg[s]] = job[s]]
  /\ UNCHANGED <<head, tail, reg, job, sent, freed, delivered, history>>

StoreTail(s) ==
  /\ pc[s] = "tail"
  /\ tail' = Succ(reg[s])
  /\ accepted' = Append(accepted, job[s])
  /\ Return(s)
  /\ UNCHANGED <<head, jobarray, reg, job, sent, freed, delivered, taken, refused>>

\* print_queue(): the cursor starts at head and runs to tail.
PrintBegin(s) ==
  /\ Goto(s, "print_load", "print")
  /\ Load(s, head)
  /\ UNCHANGED <<queue, job, sent, freed, delivered, history>>

PrintNext(s) ==
  /\ Goto(s, "print", "print")
  /\ reg[s] # tail
  /\ Load(s, Succ(reg[s]))
  /\ UNCHANGED <<queue, job, sent, freed, delivered, history>>

PrintEnd(s) ==
  /\ Goto(s, "print", "idle")
  /\ reg[s] = tail
  /\ UNCHANGED <<queue, reg, job, sent, freed, delivered, history>>
-----------------------------------------------------------------------------
(* The delivery thread: job_get(), dequeue(), write(), job_free(). *)

\* Each expression of dequeue() that names cq->head loads it.
LoadHead(r) ==
  /\ \/ Goto(r, "poll", "empty")
     \/ Goto(r, "fetch_load", "fetch")
     \/ Goto(r, "head_load", "head")
  /\ Load(r, head)
  /\ UNCHANGED <<queue, job, sent, freed, delivered, history>>

\* An empty queue: sleep, then poll again.
Empty(r) ==
  /\ Goto(r, "empty", "poll")
  /\ reg[r] = tail
  /\ UNCHANGED <<queue, reg, job, sent, freed, delivered, history>>

\* Mutant: an empty queue is not noticed.
NotEmptyUnchecked(r) ==
  /\ Goto(r, "empty", "fetch_load")
  /\ UNCHANGED <<queue, reg, job, sent, freed, delivered, history>>

NotEmpty(r) ==
  /\ Goto(r, "empty", "fetch_load")
  /\ reg[r] # tail
  /\ UNCHANGED <<queue, reg, job, sent, freed, delivered, history>>

Fetch(r) ==
  /\ Goto(r, "fetch", "head_load")
  /\ job' = [job EXCEPT ![r] = jobarray[reg[r]]]
  /\ UNCHANGED <<queue, reg, sent, freed, delivered, history>>

StoreHead(r) ==
  /\ Goto(r, "head", "write")
  /\ head' = Succ(reg[r])
  /\ taken' = Append(taken, job[r])
  /\ UNCHANGED <<tail, jobarray, reg, job, sent, freed, delivered, accepted, refused>>

\* The job is dereferenced: a thread that holds NULL gets no further.
Write(r) ==
  /\ job[r] # NULL
  /\ Goto(r, "write", "free")
  /\ delivered' = [delivered EXCEPT ![r] = Append(@, job[r])]
  /\ UNCHANGED <<queue, reg, job, sent, freed, history>>

\* Mutant: the delivery thread stops after a job.
FreeAndStop(r) ==
  /\ Goto(r, "free", "free")
  /\ freed' = freed \cup {job[r]}
  /\ UNCHANGED <<queue, reg, job, sent, delivered, history>>

Free(r) ==
  /\ Goto(r, "free", "poll")
  /\ freed' = freed \cup {job[r]}
  /\ UNCHANGED <<queue, reg, job, sent, delivered, history>>
-----------------------------------------------------------------------------
\* create_account() has emptied the queue, the receivers have logged in.
Init ==
  /\ head = 0 /\ tail = 0
  /\ jobarray = [i \in Index |-> NULL]
  /\ pc = [t \in Thread |-> IF t \in Senders THEN "idle" ELSE "poll"]
  /\ reg = [t \in Thread |-> 0]
  /\ job = [t \in Thread |-> NULL]
  /\ sent = [s \in Senders |-> 0]
  /\ freed = {}
  /\ delivered = [r \in Receivers |-> <<>>]
  /\ accepted = <<>> /\ taken = <<>> /\ refused = {}

\* What a sender does once a command has made it call job_assign().
Calling(s) == \/ LoadTail(s) \/ Full(s) \/ NotFull(s) \/ StoreSlot(s) \/ StoreTail(s)
              \/ PrintBegin(s) \/ PrintNext(s) \/ PrintEnd(s)

Delivering(r) == \/ LoadHead(r) \/ Empty(r) \/ NotEmpty(r) \/ Fetch(r) \/ StoreHead(r)
                 \/ Write(r) \/ Free(r)

Next == \/ \E s \in Senders : Assign(s) \/ Calling(s)
        \/ \E r \in Receivers : Delivering(r)

Spec == Init /\ [][Next]_vars

\* The operating system runs every thread that can run; nobody has to send.
Fairness == /\ \A s \in Senders : WF_vars(Calling(s))
            /\ \A r \in Receivers : WF_vars(Delivering(r))

FairSpec == Spec /\ Fairness
-----------------------------------------------------------------------------
SenderPc   == {"idle", "full_load", "full", "slot_load", "slot", "tail_load", "tail",
               "print_load", "print"}
ReceiverPc == {"poll", "empty", "fetch_load", "fetch", "head_load", "head", "write", "free"}

\* Every index stays inside jobarray and every thread is at a known place,
\* however the threads interleave.
TypeOK ==
  /\ head \in Index /\ tail \in Index
  /\ jobarray \in [Index -> Job \cup {NULL}]
  /\ pc \in [Thread -> SenderPc \cup ReceiverPc]
  /\ \A s \in Senders : pc[s] \in SenderPc
  /\ \A r \in Receivers : pc[r] \in ReceiverPc
  /\ reg \in [Thread -> Index]
  /\ job \in [Thread -> Job \cup {NULL}]
  /\ \A s \in Senders : pc[s] # "idle" => job[s] \in Job /\ job[s].src_usr = s
  /\ sent \in [Senders -> 0 .. MaxSent]
  /\ freed \subseteq Job
  /\ delivered \in [Receivers -> Seq(Job)]
  /\ \A r \in Receivers : pc[r] = "free" => job[r] \in Job
  /\ accepted \in Seq(Job)
  /\ taken \in Seq(Job \cup {NULL})
  /\ refused \subseteq Job

\* Jobs that dequeue() can still return.
Queued == {jobarray[i] : i \in {j \in Index : IF head <= tail THEN head <= j /\ j < tail
                                                              ELSE head <= j \/ j < tail}}

Range(f) == {f[i] : i \in DOMAIN f}

\* The jobs written to the account's only socket are the first ones that
\* job_assign() accepted, in that order: none is lost, repeated or overtaken.
DeliveredInOrder ==
  \A r \in Receivers :
    /\ Len(delivered[r]) <= Len(accepted)
    /\ \A i \in DOMAIN delivered[r] : delivered[r][i] = accepted[i]

\* A delivery thread uses, and frees, a job that nobody has freed before.
\* (Two logins to one account would take the same job.)
HoldsLiveJob ==
  \A r \in Receivers : pc[r] \in {"write", "free"} => job[r] \in Job \ freed

\* job_assign() returned 0: the job is in the queue or has been taken from it.
\* (Two senders that store into one slot would lose a job.)
AcceptedIsKept == Range(accepted) \subseteq Range(taken) \cup Queued

\* The queue keeps what Mailbox promises: capacity MAX_QUEUE_SIZE - 1, a
\* job refused only when that many wait, taken in order of acceptance.
MB == INSTANCE Mailbox WITH Capacity <- MAX_QUEUE_SIZE - 1
ImplementsMailbox == MB!Spec

\* Every accepted job reaches the account's socket.
AcceptedIsDelivered ==
  \A j \in Job : j \in Range(accepted) ~> \E r \in Receivers : j \in Range(delivered[r])
=============================================================================
