--------------------------- MODULE JobQueueProofs ---------------------------
(***************************************************************************)
(* Proofs about JobQueue, for every ring size, number of jobs and          *)
(* interleaving.  TypeCorrect holds for any threads.  The others are about *)
(* the one configuration in which cqueue.h is a queue: at most one         *)
(* connection thread that sends and one delivery thread that receives.     *)
(***************************************************************************)
EXTENDS JobQueue, TLAPS

M == MAX_QUEUE_SIZE

\* The index arithmetic of cqueue.h: one step around the ring.
LEMMA SuccWraps ==
  ASSUME NEW i \in Index
  PROVE  Succ(i) \in Index /\ Succ(i) = IF i = M - 1 THEN 0 ELSE i + 1
<1>1. CASE i = M - 1
  BY <1>1, QueueAssumption DEF Index, Succ, M
<1>2. CASE i # M - 1
  BY <1>2, QueueAssumption DEF Index, Succ, M
<1> QED BY <1>1, <1>2
-----------------------------------------------------------------------------
(* Type correctness. *)

LEMMA TypeInit == Init => TypeOK
BY QueueAssumption DEF Init, TypeOK, Index, Thread, SenderPc, ReceiverPc

LEMMA TypeSender ==
  ASSUME TypeOK, NEW s \in Senders, Assign(s) \/ Calling(s)
  PROVE  TypeOK'
<1> USE QueueAssumption, SuccWraps DEF TypeOK, Thread, Goto, Load, queue, history, SenderPc, ReceiverPc
<1>1. CASE Assign(s)
  <2> PICK type \in {"m", "f"} :
        job' = [job EXCEPT ![s] = [src_usr |-> s, seq |-> sent[s] + 1, jobtype |-> type]]
    BY <1>1 DEF Assign
  <2> DEFINE j == [src_usr |-> s, seq |-> sent[s] + 1, jobtype |-> type]
  <2>1. sent[s] + 1 \in 1 .. MaxSent
    BY <1>1 DEF Assign
  <2>2. j \in Job /\ j.src_usr = s
    BY <2>1 DEF Job
  <2> HIDE DEF j
  <2>3. job' = [job EXCEPT ![s] = j]
    BY DEF j
  <2> QED BY <1>1, <2>1, <2>2, <2>3 DEF Assign
<1>2. CASE LoadTail(s)
  <2>1. pc' \in [Thread -> SenderPc \cup ReceiverPc] /\ \A t \in Senders : pc'[t] \in SenderPc
    BY <1>2 DEF LoadTail
  <2>2. \A r \in Receivers : pc'[r] = pc[r]
    BY <1>2 DEF LoadTail
  <2>3. \A t \in Senders : pc'[t] # "idle" => pc[t] # "idle"
    BY <1>2 DEF LoadTail
  <2>4. reg' \in [Thread -> Index]
    BY <1>2 DEF LoadTail
  <2> QED BY <1>2, <2>1, <2>2, <2>3, <2>4 DEF LoadTail
<1>3. CASE Full(s)
  <2>1. pc' \in [Thread -> SenderPc \cup ReceiverPc] /\ \A t \in Senders : pc'[t] \in SenderPc
    BY <1>3 DEF Full, Return
  <2>2. \A r \in Receivers : pc'[r] = pc[r]
    BY <1>3 DEF Full, Return
  <2>3. \A t \in Senders : pc'[t] # "idle" => pc[t] # "idle"
    BY <1>3 DEF Full, Return
  <2>4. job[s] \in Job
    BY <1>3 DEF Full
  <2> QED BY <1>3, <2>1, <2>2, <2>3, <2>4 DEF Full
<1>4. CASE NotFull(s)
  BY <1>4 DEF NotFull
<1>5. CASE StoreSlot(s)
  BY <1>5 DEF StoreSlot
<1>6. CASE StoreTail(s)
  <2>1. job[s] \in Job /\ accepted' \in Seq(Job)
    BY <1>6 DEF StoreTail
  <2>2. pc' \in [Thread -> SenderPc \cup ReceiverPc] /\ \A t \in Senders : pc'[t] \in SenderPc
    BY <1>6 DEF StoreTail, Return
  <2>3. \A r \in Receivers : pc'[r] = pc[r]
    BY <1>6 DEF StoreTail, Return
  <2>4. \A t \in Senders : pc'[t] # "idle" => pc[t] # "idle"
    BY <1>6 DEF StoreTail, Return
  <2> QED BY <1>6, <2>1, <2>2, <2>3, <2>4 DEF StoreTail
<1>7. CASE PrintBegin(s)
  BY <1>7 DEF PrintBegin
<1>8. CASE PrintNext(s)
  BY <1>8 DEF PrintNext
<1>9. CASE PrintEnd(s)
  BY <1>9 DEF PrintEnd
<1> QED BY <1>1, <1>2, <1>3, <1>4, <1>5, <1>6, <1>7, <1>8, <1>9 DEF Calling

LEMMA TypeReceiver ==
  ASSUME TypeOK, NEW r \in Receivers, Delivering(r)
  PROVE  TypeOK'
<1> USE QueueAssumption, SuccWraps DEF TypeOK, Thread, Goto, Load, queue, history, SenderPc, ReceiverPc
<1>1. CASE LoadHead(r)
  <2>1. pc' \in [Thread -> SenderPc \cup ReceiverPc] /\ \A t \in Receivers : pc'[t] \in ReceiverPc
    BY <1>1 DEF LoadHead
  <2>2. \A s \in Senders : pc'[s] = pc[s]
    BY <1>1 DEF LoadHead
  <2>3. \A t \in Receivers : pc'[t] = "free" => pc[t] = "free"
    BY <1>1 DEF LoadHead
  <2>4. reg' \in [Thread -> Index]
    BY <1>1 DEF LoadHead
  <2> QED BY <1>1, <2>1, <2>2, <2>3, <2>4 DEF LoadHead
<1>2. CASE Empty(r)
  BY <1>2 DEF Empty
<1>3. CASE NotEmpty(r)
  BY <1>3 DEF NotEmpty
<1>4. CASE Fetch(r)
  BY <1>4 DEF Fetch
<1>5. CASE StoreHead(r)
  BY <1>5 DEF StoreHead
<1>6. CASE Write(r)
  BY <1>6 DEF Write
<1>7. CASE Free(r)
  BY <1>7 DEF Free
<1> QED BY <1>1, <1>2, <1>3, <1>4, <1>5, <1>6, <1>7 DEF Delivering

\* Whatever the threads do, an index never leaves jobarray and a thread is
\* at a known place of its code.
THEOREM TypeCorrect == Spec => []TypeOK
<1>1. TypeOK /\ [Next]_vars => TypeOK'
  <2> SUFFICES ASSUME TypeOK, [Next]_vars PROVE TypeOK'
    OBVIOUS
  <2>1. CASE UNCHANGED vars
    BY <2>1 DEF TypeOK, vars, queue, history
  <2> QED BY <2>1, TypeSender, TypeReceiver DEF Next
<1> QED BY <1>1, TypeInit, PTL DEF Spec
-----------------------------------------------------------------------------
(***************************************************************************)
(* One sender, one receiver: the inductive invariant.  The conjuncts say,  *)
(* in turn, what the ring holds, what the loaded indices still mean while  *)
(* the other thread moves, and that jobs are told apart by their number.   *)
(***************************************************************************)
SingleThreads == /\ \A s, t \in Senders : s = t
                 /\ \A r, t \in Receivers : r = t

Size == IF head <= tail THEN tail - head ELSE tail - head + M

\* The slot of the k-th waiting job, counted from 0.
Slot(k) == IF head + k < M THEN head + k ELSE head + k - M

RingInv ==
  /\ Len(accepted) = Len(taken) + Size
  /\ \A k \in 0 .. Size - 1 : jobarray[Slot(k)] = accepted[Len(taken) + k + 1]
  /\ \A i \in 1 .. Len(taken) : taken[i] = accepted[i]

SenderInv ==
  \A s \in Senders :
    /\ pc[s] \in {"full", "slot", "tail"} => reg[s] = tail
    /\ pc[s] \in {"slot_load", "slot", "tail_load", "tail"} => head # Succ(tail)
    /\ pc[s] \in {"tail_load", "tail"} => jobarray[tail] = job[s]

ReceiverInv ==
  \A r \in Receivers :
    /\ pc[r] \in {"empty", "fetch", "head"} => reg[r] = head
    /\ pc[r] \in {"fetch_load", "fetch", "head_load", "head"} => head # tail
    /\ pc[r] \in {"head_load", "head"} => job[r] = jobarray[head]

\* How far the receiver's socket, and job_free(), lag behind job_get().
DeliveryInv ==
  \A r \in Receivers :
    /\ pc[r] = "write" => taken = Append(delivered[r], job[r])
    /\ pc[r] # "write" => taken = delivered[r]
    /\ pc[r] = "free" => Len(taken) > 0 /\ job[r] = taken[Len(taken)]
    /\ \A j \in freed : \E i \in 1 .. Len(taken) :
          j = taken[i] /\ (pc[r] \in {"write", "free"} => i < Len(taken))

\* A sender numbers its jobs; the one it is still offering is the newest.
Offering(s) == pc[s] \in {"full_load", "full", "slot_load", "slot", "tail_load", "tail"}

FreshInv ==
  /\ \A s \in Senders :
       /\ Offering(s) => job[s].seq = sent[s]
       /\ \A i \in 1 .. Len(accepted) :
            accepted[i].seq <= sent[s] /\ (Offering(s) => accepted[i].seq < sent[s])
       /\ \A j \in refused : j.seq <= sent[s] /\ (Offering(s) => j.seq < sent[s])
  /\ \A i, k \in 1 .. Len(accepted) : i < k => accepted[i].seq < accepted[k].seq

IInv == TypeOK /\ RingInv /\ SenderInv /\ ReceiverInv /\ DeliveryInv /\ FreshInv

LEMMA InvInit == Init => IInv
<1> SUFFICES ASSUME Init PROVE IInv
  OBVIOUS
<1>1. TypeOK
  BY TypeInit
<1>2. Size = 0
  BY DEF Init, Size
<1>3. \A r \in Receivers : pc[r] = "poll"
  BY QueueAssumption DEF Init, Thread
<1>4. \A s \in Senders : pc[s] = "idle"
  BY DEF Init, Thread
<1>5. RingInv
  BY <1>2 DEF Init, RingInv
<1>6. SenderInv /\ ReceiverInv /\ DeliveryInv
  BY <1>3, <1>4 DEF Init, SenderInv, ReceiverInv, DeliveryInv
<1>7. FreshInv
  <2>1. 1 .. Len(accepted) = {} /\ refused = {}
    BY DEF Init
  <2>2. \A s \in Senders : ~Offering(s)
    BY <1>4 DEF Offering
  <2> QED BY <2>1, <2>2 DEF FreshInv
<1> QED BY <1>1, <1>5, <1>6, <1>7 DEF IInv

\* Steps that leave the ring and the histories alone.
LEMMA QuietSender ==
  ASSUME IInv, SingleThreads, NEW s \in Senders,
         LoadTail(s) \/ NotFull(s) \/ PrintBegin(s) \/ PrintNext(s) \/ PrintEnd(s)
  PROVE  IInv'
<1> USE DEF IInv, queue, history
<1>1. TypeOK'
  BY TypeSender DEF Calling
<1>2. /\ UNCHANGED <<queue, history, job, sent, freed, delivered>>
      /\ \A r \in Receivers : pc'[r] = pc[r] /\ reg'[r] = reg[r]
  BY QueueAssumption DEF LoadTail, NotFull, PrintBegin, PrintNext, PrintEnd, Goto, Load, TypeOK, Thread
<1>3. RingInv'
  BY <1>2 DEF RingInv, Size, Slot
<1>4. SenderInv'
  BY <1>2 DEF LoadTail, NotFull, PrintBegin, PrintNext, PrintEnd, Goto, Load,
              TypeOK, Thread, SenderInv, SingleThreads
<1>5. ReceiverInv' /\ DeliveryInv'
  BY <1>2 DEF ReceiverInv, DeliveryInv
<1>6. FreshInv'
  <2>1. \A t \in Senders : Offering(t)' => Offering(t)
    BY DEF LoadTail, NotFull, PrintBegin, PrintNext, PrintEnd, Goto, Load,
           TypeOK, Thread, SingleThreads, Offering
  <2> QED BY <1>2, <2>1 DEF FreshInv
<1> QED BY <1>1, <1>3, <1>4, <1>5, <1>6

LEMMA QuietReceiver ==
  ASSUME IInv, SingleThreads, NEW r \in Receivers,
         LoadHead(r) \/ Empty(r) \/ NotEmpty(r) \/ Fetch(r)
  PROVE  IInv'
<1> USE DEF IInv, queue, history
<1>1. TypeOK'
  BY TypeReceiver DEF Delivering
<1>2. /\ UNCHANGED <<queue, history, sent, freed, delivered>>
      /\ \A s \in Senders : pc'[s] = pc[s] /\ reg'[s] = reg[s] /\ job'[s] = job[s]
  BY QueueAssumption DEF LoadHead, Empty, NotEmpty, Fetch, Goto, Load, TypeOK, Thread
<1>3. RingInv'
  BY <1>2 DEF RingInv, Size, Slot
<1>4. SenderInv' /\ FreshInv'
  BY <1>2 DEF SenderInv, FreshInv, Offering
<1>5. ReceiverInv'
  BY <1>2 DEF LoadHead, Empty, NotEmpty, Fetch, Goto, Load,
              TypeOK, Thread, ReceiverInv, SingleThreads
<1>6. DeliveryInv'
  BY <1>2 DEF LoadHead, Empty, NotEmpty, Fetch, Goto, Load,
              TypeOK, Thread, DeliveryInv, SingleThreads
<1> QED BY <1>1, <1>3, <1>4, <1>5, <1>6

\* Arithmetic of the ring: how many jobs wait, and in which slots.
LEMMA RingArithmetic ==
  ASSUME TypeOK
  PROVE  /\ Size \in 0 .. M - 1
         /\ head = tail <=> Size = 0
         /\ head # Succ(tail) <=> Size < M - 1
         /\ \A k \in 0 .. Size - 1 : Slot(k) \in Index /\ Slot(k) # tail
         /\ Slot(0) = head /\ Slot(Size) = tail
<1>1. M \in Nat /\ M > 0 /\ head \in 0 .. M - 1 /\ tail \in 0 .. M - 1
  BY QueueAssumption DEF TypeOK, Index, M
<1>2. Succ(tail) = IF tail = M - 1 THEN 0 ELSE tail + 1
  BY SuccWraps DEF TypeOK
<1>3. Size \in 0 .. M - 1 /\ (head = tail <=> Size = 0) /\ (head # Succ(tail) <=> Size < M - 1)
  BY <1>1, <1>2 DEF Size
<1>4. \A k \in 0 .. Size - 1 : Slot(k) \in 0 .. M - 1 /\ Slot(k) # tail
  BY <1>1 DEF Size, Slot
<1>5. Slot(0) = head /\ Slot(Size) = tail
  BY <1>1 DEF Size, Slot
<1> QED BY <1>3, <1>4, <1>5 DEF Index, M

\* The histories hold jobs, and jobs are numbered.
LEMMA Numbered ==
  ASSUME TypeOK
  PROVE  /\ Len(accepted) \in Nat /\ Len(taken) \in Nat
         /\ \A i \in 1 .. Len(accepted) : accepted[i] \in Job /\ accepted[i].seq \in Nat
         /\ \A j \in refused : j.seq \in Nat
         /\ \A s \in Senders : sent[s] \in Nat
<1>1. \A j \in Job : j.seq \in Nat
  BY QueueAssumption DEF Job
<1>2. \A i \in 1 .. Len(accepted) : accepted[i] \in Job
  BY DEF TypeOK
<1>3. Len(accepted) \in Nat /\ Len(taken) \in Nat
  BY DEF TypeOK
<1>4. \A s \in Senders : sent[s] \in Nat
  <2>1. sent \in [Senders -> 0 .. MaxSent]
    BY DEF TypeOK
  <2> QED BY <2>1, QueueAssumption
<1> QED BY <1>1, <1>2, <1>3, <1>4 DEF TypeOK

LEMMA AssignKeeps ==
  ASSUME IInv, SingleThreads, NEW s \in Senders, Assign(s)
  PROVE  IInv'
<1> USE DEF IInv, queue, history
<1>1. TypeOK'
  BY TypeSender
<1>2. /\ UNCHANGED <<queue, history, reg, freed, delivered>>
      /\ pc[s] = "idle" /\ pc' = [pc EXCEPT ![s] = "full_load"]
      /\ sent' = [sent EXCEPT ![s] = sent[s] + 1]
      /\ \A r \in Receivers : pc'[r] = pc[r] /\ job'[r] = job[r]
  BY QueueAssumption DEF Assign, Goto, TypeOK, Thread
<1>3. RingInv'
  BY <1>2 DEF RingInv, Size, Slot
<1>4. SenderInv'
  BY <1>2 DEF TypeOK, Thread, SenderInv, SingleThreads
<1>5. ReceiverInv' /\ DeliveryInv'
  BY <1>2 DEF ReceiverInv, DeliveryInv
<1>6. FreshInv'
  <2>1. job'[s].seq = sent'[s] /\ sent'[s] = sent[s] + 1
    <3>1. PICK type \in {"m", "f"} :
            job' = [job EXCEPT ![s] = [src_usr |-> s, seq |-> sent[s] + 1, jobtype |-> type]]
      BY DEF Assign
    <3>2. job'[s] = [src_usr |-> s, seq |-> sent[s] + 1, jobtype |-> type]
      BY <3>1 DEF TypeOK, Thread
    <3> QED BY <1>2, <3>2 DEF TypeOK
  <2>2. \A i \in 1 .. Len(accepted) : accepted[i].seq <= sent[s] /\ accepted[i].seq \in Nat
    BY Numbered DEF FreshInv
  <2>3. \A j \in refused : j.seq <= sent[s] /\ j.seq \in Nat
    BY Numbered DEF FreshInv
  <2>4. sent[s] \in Nat
    BY Numbered
  <2>5. \A i \in 1 .. Len(accepted) : accepted[i].seq <= sent'[s] /\ accepted[i].seq < sent'[s]
    BY <2>1, <2>2, <2>4
  <2>6. \A j \in refused : j.seq <= sent'[s] /\ j.seq < sent'[s]
    BY <2>1, <2>3, <2>4
  <2> QED BY <1>2, <2>1, <2>5, <2>6 DEF FreshInv, SingleThreads
<1> QED BY <1>1, <1>3, <1>4, <1>5, <1>6

LEMMA FullKeeps ==
  ASSUME IInv, SingleThreads, NEW s \in Senders, Full(s)
  PROVE  IInv'
<1> USE DEF IInv, queue, history
<1>1. TypeOK'
  BY TypeSender DEF Calling
<1>2. /\ UNCHANGED <<queue, accepted, taken, job, sent, reg, freed, delivered>>
      /\ refused' = refused \cup {job[s]}
      /\ pc[s] = "full" /\ pc'[s] \in {"idle", "print_load"}
      /\ \A r \in Receivers : pc'[r] = pc[r]
  BY QueueAssumption DEF Full, Return, TypeOK, Thread
<1>3. RingInv'
  BY <1>2 DEF RingInv, Size, Slot
<1>4. SenderInv'
  BY <1>2 DEF SenderInv, SingleThreads
<1>5. ReceiverInv' /\ DeliveryInv'
  BY <1>2 DEF ReceiverInv, DeliveryInv
<1>6. FreshInv'
  <2>1. ~Offering(s)' /\ job[s].seq = sent[s] /\ sent[s] \in Nat
    BY <1>2 DEF FreshInv, Offering, TypeOK
  <2> QED BY <1>2, <2>1 DEF FreshInv, SingleThreads
<1> QED BY <1>1, <1>3, <1>4, <1>5, <1>6

LEMMA StoreSlotKeeps ==
  ASSUME IInv, SingleThreads, NEW s \in Senders, StoreSlot(s)
  PROVE  IInv'
<1> USE DEF IInv, queue, history
<1>1. TypeOK'
  BY TypeSender DEF Calling
<1>2. /\ UNCHANGED <<head, tail, history, job, sent, reg, freed, delivered>>
      /\ jobarray' = [jobarray EXCEPT ![tail] = job[s]]
      /\ pc[s] = "slot" /\ pc'[s] = "tail_load" /\ head # Succ(tail)
      /\ \A r \in Receivers : pc'[r] = pc[r]
  BY QueueAssumption DEF StoreSlot, Goto, TypeOK, Thread, SenderInv
<1>3. \A i \in Index : i # tail => jobarray'[i] = jobarray[i]
  BY <1>2 DEF TypeOK
<1>4. RingInv'
  <2>1. Size' = Size /\ \A k : Slot(k)' = Slot(k)
    BY <1>2 DEF Size, Slot
  <2> QED BY <1>2, <1>3, <2>1, RingArithmetic DEF RingInv
<1>5. SenderInv'
  BY <1>2 DEF SenderInv, SingleThreads, TypeOK
<1>6. ReceiverInv' /\ DeliveryInv'
  BY <1>2, <1>3 DEF ReceiverInv, DeliveryInv, TypeOK
<1>7. FreshInv'
  BY <1>2 DEF FreshInv, Offering, SingleThreads
<1> QED BY <1>1, <1>4, <1>5, <1>6, <1>7

LEMMA StoreTailKeeps ==
  ASSUME IInv, SingleThreads, NEW s \in Senders, StoreTail(s)
  PROVE  IInv'
<1> USE DEF IInv, queue, history
<1>1. TypeOK'
  BY TypeSender DEF Calling
<1>2. /\ UNCHANGED <<head, jobarray, taken, refused, job, sent, reg, freed, delivered>>
      /\ tail' = Succ(tail) /\ accepted' = Append(accepted, job[s])
      /\ pc[s] = "tail" /\ pc'[s] \in {"idle", "print_load"}
      /\ head # Succ(tail) /\ jobarray[tail] = job[s]
      /\ \A r \in Receivers : pc'[r] = pc[r]
  BY QueueAssumption DEF StoreTail, Return, TypeOK, Thread, SenderInv
<1>3. job[s] \in Job /\ job[s].seq = sent[s] /\ sent[s] \in Nat
  BY <1>2 DEF TypeOK, FreshInv, Offering
<1>4. /\ Len(accepted') = Len(accepted) + 1
      /\ accepted'[Len(accepted) + 1] = job[s]
      /\ \A i \in 1 .. Len(accepted) : accepted'[i] = accepted[i]
  BY <1>2, <1>3 DEF TypeOK
<1>5. RingInv'
  <2>1. Size' = Size + 1 /\ \A k : Slot(k)' = Slot(k)
    <3>1. M \in Nat /\ M > 0 /\ head \in 0 .. M - 1 /\ tail \in 0 .. M - 1
      BY QueueAssumption DEF TypeOK, Index, M
    <3>2. tail' = IF tail = M - 1 THEN 0 ELSE tail + 1
      BY <1>2, SuccWraps DEF TypeOK
    <3>3. \A k : Slot(k)' = Slot(k)
      BY <1>2 DEF Slot, M
    <3>4. head' = head /\ head # tail'
      BY <1>2
    <3>5. Size' = IF head <= tail' THEN tail' - head ELSE tail' - head + M
      BY <3>4 DEF Size, M
    <3>6. Size' = Size + 1
      BY <3>1, <3>2, <3>4, <3>5 DEF Size
    <3> QED BY <3>3, <3>6
  <2>2. Size \in Nat /\ Slot(Size) = tail /\ Len(taken) \in Nat /\ Len(accepted) \in Nat
    BY RingArithmetic, QueueAssumption DEF M, TypeOK
  <2>3. Len(accepted)' = Len(taken)' + Size'
    BY <1>2, <1>4, <2>1, <2>2 DEF RingInv
  <2>4. ASSUME NEW k \in 0 .. Size' - 1
        PROVE  jobarray'[Slot(k)'] = accepted'[Len(taken') + k + 1]
    <3>1. CASE k = Size
      BY <1>2, <1>4, <2>1, <2>2, <3>1 DEF RingInv
    <3>2. CASE k # Size
      <4>1. k \in 0 .. Size - 1 /\ Len(taken) + k + 1 \in 1 .. Len(accepted)
        BY <2>1, <2>2, <2>4, <3>2 DEF RingInv
      <4> QED BY <1>2, <1>4, <2>1, <4>1 DEF RingInv
    <3> QED BY <3>1, <3>2
  <2>5. \A i \in 1 .. Len(taken) : taken[i] = accepted'[i]
    BY <1>4, <2>2 DEF RingInv
  <2> QED BY <1>2, <2>3, <2>4, <2>5 DEF RingInv
<1>6. SenderInv'
  BY <1>2 DEF SenderInv, SingleThreads
<1>7. ReceiverInv' /\ DeliveryInv'
  <2>1. head # tail'
    BY <1>2
  <2>2. ReceiverInv'
    BY <1>2, <2>1 DEF ReceiverInv
  <2>3. DeliveryInv'
    BY <1>2 DEF DeliveryInv
  <2> QED BY <2>2, <2>3
<1>8. FreshInv'
  <2>1. \A i \in 1 .. Len(accepted) : accepted[i].seq < sent[s] /\ accepted[i].seq \in Nat
    BY <1>2, Numbered DEF FreshInv, Offering
  <2>2. ~Offering(s)'
    BY <1>2 DEF Offering
  <2>3. \A i \in 1 .. Len(accepted') : accepted'[i].seq <= sent[s]
    <3> SUFFICES ASSUME NEW i \in 1 .. Len(accepted') PROVE accepted'[i].seq <= sent[s]
      OBVIOUS
    <3>1. Len(accepted) \in Nat /\ sent[s] \in Nat
      BY Numbered DEF TypeOK
    <3>2. i = Len(accepted) + 1 \/ i \in 1 .. Len(accepted)
      BY <1>4, <3>1
    <3>3. CASE i = Len(accepted) + 1
      BY <1>3, <1>4, <3>1, <3>3
    <3>4. CASE i \in 1 .. Len(accepted)
      BY <1>4, <2>1, <3>1, <3>4
    <3> QED BY <3>2, <3>3, <3>4
  <2>4. \A i, k \in 1 .. Len(accepted') : i < k => accepted'[i].seq < accepted'[k].seq
    <3> SUFFICES ASSUME NEW i \in 1 .. Len(accepted'), NEW k \in 1 .. Len(accepted'), i < k
                 PROVE  accepted'[i].seq < accepted'[k].seq
      OBVIOUS
    <3>1. i \in 1 .. Len(accepted) /\ accepted'[i] = accepted[i]
      BY <1>4, Numbered
    <3>2. CASE k = Len(accepted) + 1
      BY <1>3, <1>4, <2>1, <3>1, <3>2
    <3>3. CASE k \in 1 .. Len(accepted)
      BY <1>4, <3>1, <3>3 DEF FreshInv
    <3>4. Len(accepted) \in Nat /\ Len(accepted') = Len(accepted) + 1
      BY <1>4, Numbered
    <3>5. k = Len(accepted) + 1 \/ k \in 1 .. Len(accepted)
      BY <3>4
    <3> QED BY <3>2, <3>3, <3>5
  <2> QED BY <1>2, <2>2, <2>3, <2>4 DEF FreshInv, SingleThreads
<1> QED BY <1>1, <1>5, <1>6, <1>7, <1>8

LEMMA StoreHeadKeeps ==
  ASSUME IInv, SingleThreads, NEW r \in Receivers, StoreHead(r)
  PROVE  IInv'
<1> USE DEF IInv, queue, history
<1>1. TypeOK'
  BY TypeReceiver DEF Delivering
<1>2. /\ UNCHANGED <<tail, jobarray, accepted, refused, job, sent, reg, freed, delivered>>
      /\ head' = Succ(head) /\ taken' = Append(taken, job[r])
      /\ pc[r] = "head" /\ pc'[r] = "write"
      /\ head # tail /\ job[r] = jobarray[head] /\ taken = delivered[r]
      /\ \A s \in Senders : pc'[s] = pc[s]
  BY QueueAssumption DEF StoreHead, Goto, TypeOK, Thread, ReceiverInv, DeliveryInv
<1>3. /\ Len(taken') = Len(taken) + 1
      /\ taken'[Len(taken) + 1] = job[r]
      /\ \A i \in 1 .. Len(taken) : taken'[i] = taken[i]
  BY <1>2 DEF TypeOK, Thread
<1>4. Size' = Size - 1 /\ \A k \in 0 .. Size - 2 : Slot(k)' = Slot(k + 1)
  <2>1. M \in Nat /\ M > 0 /\ head \in 0 .. M - 1 /\ tail \in 0 .. M - 1 /\ head # tail
    BY <1>2, QueueAssumption DEF TypeOK, Index, M
  <2>2. head' = IF head = M - 1 THEN 0 ELSE head + 1
    BY <1>2, SuccWraps DEF TypeOK
  <2>3. Size' = IF head' <= tail THEN tail - head' ELSE tail - head' + M
    BY <1>2 DEF Size, M
  <2>4. \A k \in 0 .. Size - 2 : Slot(k)' = IF head' + k < M THEN head' + k ELSE head' + k - M
    BY DEF Slot, M
  <2>5. Size' = Size - 1
    BY <2>1, <2>2, <2>3 DEF Size
  <2>6. \A k \in 0 .. Size - 2 : Slot(k)' = Slot(k + 1)
    BY <2>1, <2>2, <2>4 DEF Size, Slot
  <2> QED BY <2>5, <2>6
<1>5. RingInv'
  <2>1. Size \in Nat /\ Size > 0 /\ Slot(0) = head /\ Len(taken) \in Nat /\ Len(accepted) \in Nat
    BY <1>2, RingArithmetic, Numbered, QueueAssumption DEF M
  <2>2. Len(accepted)' = Len(taken)' + Size'
    BY <1>2, <1>3, <1>4, <2>1 DEF RingInv
  <2>3. ASSUME NEW k \in 0 .. Size' - 1
        PROVE  jobarray'[Slot(k)'] = accepted'[Len(taken') + k + 1]
    <3>1. k \in 0 .. Size - 2 /\ k + 1 \in 0 .. Size - 1
      BY <1>4, <2>1
    <3>2. Len(taken') + k + 1 = Len(taken) + (k + 1) + 1
      BY <1>3, <2>1, <3>1
    <3> QED BY <1>2, <1>4, <3>1, <3>2 DEF RingInv
  <2>4. job[r] = accepted[Len(taken) + 1]
    BY <1>2, <2>1 DEF RingInv
  <2>5. \A i \in 1 .. Len(taken') : taken'[i] = accepted'[i]
    BY <1>2, <1>3, <2>1, <2>4 DEF RingInv
  <2> QED BY <2>2, <2>3, <2>5 DEF RingInv
<1>6. SenderInv'
  <2>1. ASSUME head # Succ(tail) PROVE head' # Succ(tail)
    <3>1. M \in Nat /\ M > 0 /\ head \in 0 .. M - 1 /\ tail \in 0 .. M - 1 /\ head # tail
      BY <1>2, QueueAssumption DEF TypeOK, Index, M
    <3>2. head' = IF head = M - 1 THEN 0 ELSE head + 1
      BY <1>2, SuccWraps DEF TypeOK
    <3>3. Succ(tail) = IF tail = M - 1 THEN 0 ELSE tail + 1
      BY SuccWraps DEF TypeOK
    <3> QED BY <3>1, <3>2, <3>3
  <2> QED BY <1>2, <2>1 DEF SenderInv
<1>7. ReceiverInv'
  BY <1>2 DEF ReceiverInv, SingleThreads
<1>8. DeliveryInv'
  <2>1. \A j \in freed : \E i \in 1 .. Len(taken) : j = taken[i]
    BY DEF DeliveryInv
  <2>2. \A j \in freed : \E i \in 1 .. Len(taken') : j = taken'[i] /\ i < Len(taken')
    BY <1>3, <2>1, Numbered
  <2> QED BY <1>2, <2>2 DEF DeliveryInv, SingleThreads
<1>9. FreshInv'
  BY <1>2 DEF FreshInv, Offering
<1> QED BY <1>1, <1>5, <1>6, <1>7, <1>8, <1>9

LEMMA WriteKeeps ==
  ASSUME IInv, SingleThreads, NEW r \in Receivers, Write(r)
  PROVE  IInv'
<1> USE DEF IInv, queue, history
<1>1. TypeOK'
  BY TypeReceiver DEF Delivering
<1>2. /\ UNCHANGED <<queue, history, job, sent, reg, freed>>
      /\ delivered'[r] = Append(delivered[r], job[r])
      /\ pc[r] = "write" /\ pc'[r] = "free" /\ job[r] \in Job
      /\ \A s \in Senders : pc'[s] = pc[s]
  BY QueueAssumption DEF Write, Goto, TypeOK, Thread
<1>3. RingInv'
  BY <1>2 DEF RingInv, Size, Slot
<1>4. SenderInv' /\ FreshInv'
  BY <1>2 DEF SenderInv, FreshInv, Offering
<1>5. ReceiverInv'
  BY <1>2 DEF ReceiverInv, SingleThreads
<1>6. DeliveryInv'
  <2>1. taken = Append(delivered[r], job[r]) /\ delivered[r] \in Seq(Job)
    BY <1>2 DEF DeliveryInv, TypeOK
  <2>2. Len(taken) > 0 /\ job[r] = taken[Len(taken)]
    BY <1>2, <2>1
  <2> QED BY <1>2, <2>1, <2>2 DEF DeliveryInv, SingleThreads
<1> QED BY <1>1, <1>3, <1>4, <1>5, <1>6

LEMMA FreeKeeps ==
  ASSUME IInv, SingleThreads, NEW r \in Receivers, Free(r)
  PROVE  IInv'
<1> USE DEF IInv, queue, history
<1>1. TypeOK'
  BY TypeReceiver DEF Delivering
<1>2. /\ UNCHANGED <<queue, history, job, sent, reg, delivered>>
      /\ freed' = freed \cup {job[r]}
      /\ pc[r] = "free" /\ pc'[r] = "poll"
      /\ \A s \in Senders : pc'[s] = pc[s]
  BY QueueAssumption DEF Free, Goto, TypeOK, Thread
<1>3. RingInv'
  BY <1>2 DEF RingInv, Size, Slot
<1>4. SenderInv' /\ FreshInv'
  BY <1>2 DEF SenderInv, FreshInv, Offering
<1>5. ReceiverInv'
  BY <1>2 DEF ReceiverInv, SingleThreads
<1>6. DeliveryInv'
  <2>1. Len(taken) \in 1 .. Len(taken) /\ job[r] = taken[Len(taken)]
    BY <1>2, Numbered DEF DeliveryInv
  <2> QED BY <1>2, <2>1 DEF DeliveryInv, SingleThreads
<1> QED BY <1>1, <1>3, <1>4, <1>5, <1>6

LEMMA InvNext == ASSUME SingleThreads, IInv, [Next]_vars PROVE IInv'
<1>1. CASE UNCHANGED vars
  BY <1>1 DEF IInv, TypeOK, RingInv, SenderInv, ReceiverInv, DeliveryInv, FreshInv, Offering,
              Size, Slot, vars, queue, history
<1>2. ASSUME NEW s \in Senders, Assign(s) \/ Calling(s) PROVE IInv'
  BY <1>2, AssignKeeps, FullKeeps, StoreSlotKeeps, StoreTailKeeps, QuietSender DEF Calling
<1>3. ASSUME NEW r \in Receivers, Delivering(r) PROVE IInv'
  BY <1>3, StoreHeadKeeps, WriteKeeps, FreeKeeps, QuietReceiver DEF Delivering
<1> QED BY <1>1, <1>2, <1>3 DEF Next

LEMMA Inductive == ASSUME SingleThreads PROVE Spec => []IInv
BY InvInit, InvNext, PTL DEF Spec
-----------------------------------------------------------------------------
(* What follows from the invariant. *)

\* With one sender and one receiver, what has been written to the account's
\* socket is a prefix of what job_assign() accepted.
THEOREM InOrder == ASSUME SingleThreads PROVE Spec => []DeliveredInOrder
<1>1. IInv => DeliveredInOrder
  <2> SUFFICES ASSUME IInv, NEW r \in Receivers
               PROVE  /\ Len(delivered[r]) <= Len(accepted)
                      /\ \A i \in 1 .. Len(delivered[r]) : delivered[r][i] = accepted[i]
    <3>1. IInv => \A r \in Receivers : DOMAIN delivered[r] = 1 .. Len(delivered[r])
      BY DEF IInv, TypeOK
    <3> QED BY <3>1 DEF DeliveredInOrder
  <2> USE DEF IInv
  <2>1. Size \in Nat /\ Len(taken) \in Nat /\ Len(accepted) = Len(taken) + Size
    BY RingArithmetic, Numbered DEF RingInv
  <2>2. delivered[r] \in Seq(Job) /\ taken \in Seq(Job \cup {NULL})
    BY DEF TypeOK
  <2>3. /\ Len(delivered[r]) <= Len(taken)
        /\ \A i \in 1 .. Len(delivered[r]) : delivered[r][i] = taken[i]
    <3>1. CASE pc[r] = "write"
      <4>1. taken = Append(delivered[r], job[r])
        BY <3>1 DEF DeliveryInv
      <4> QED BY <4>1, <2>2
    <3>2. CASE pc[r] # "write"
      BY <3>2, <2>2 DEF DeliveryInv
    <3> QED BY <3>1, <3>2
  <2> QED BY <2>1, <2>2, <2>3 DEF RingInv
<1> QED BY <1>1, Inductive, PTL

\* With one sender and one receiver, the receiver never holds, and so never
\* frees, a job that has been freed before.
THEOREM LiveJob == ASSUME SingleThreads PROVE Spec => []HoldsLiveJob
<1>1. IInv => HoldsLiveJob
  <2> SUFFICES ASSUME IInv, NEW r \in Receivers, pc[r] \in {"write", "free"}
               PROVE  job[r] \in Job \ freed
    BY DEF HoldsLiveJob
  <2> USE DEF IInv
  <2>1. /\ Len(taken) > 0 /\ job[r] = taken[Len(taken)]
    <3>1. CASE pc[r] = "write"
      <4>1. taken = Append(delivered[r], job[r]) /\ delivered[r] \in Seq(Job)
        BY <3>1 DEF DeliveryInv, TypeOK
      <4> QED BY <4>1
    <3>2. CASE pc[r] = "free"
      BY <3>2 DEF DeliveryInv
    <3> QED BY <3>1, <3>2
  <2>2. Len(taken) \in 1 .. Len(accepted) /\ job[r] = accepted[Len(taken)]
    BY <2>1, RingArithmetic, Numbered DEF RingInv
  <2>3. job[r] \in Job
    BY <2>2 DEF TypeOK
  <2>4. ASSUME job[r] \in freed PROVE FALSE
    <3>1. PICK i \in 1 .. Len(taken) : job[r] = taken[i] /\ i < Len(taken)
      BY <2>4 DEF DeliveryInv
    <3>2. i \in 1 .. Len(accepted) /\ job[r] = accepted[i]
      <4>1. job[r] = accepted[i]
        BY <3>1 DEF RingInv
      <4> QED BY <4>1, <3>1, <2>2, Numbered
    <3>3. accepted[i].seq < accepted[Len(taken)].seq
      BY <3>1, <3>2, <2>2 DEF FreshInv
    <3> QED BY <3>2, <3>3, <2>2, <2>3 DEF Job
  <2> QED BY <2>3, <2>4
<1> QED BY <1>1, Inductive, PTL

\* With one sender and one receiver, a job for which job_assign() returned 0
\* has been taken or is in a slot between head and tail, never overwritten.
THEOREM KeptJob == ASSUME SingleThreads PROVE Spec => []AcceptedIsKept
<1>1. IInv => AcceptedIsKept
  <2> SUFFICES ASSUME IInv, NEW i \in 1 .. Len(accepted)
               PROVE  accepted[i] \in Range(taken) \cup Queued
    <3>1. IInv => DOMAIN accepted = 1 .. Len(accepted)
      BY DEF IInv, TypeOK
    <3> QED BY <3>1 DEF AcceptedIsKept, Range
  <2> USE DEF IInv
  <2>1. Size \in Nat /\ Len(taken) \in Nat /\ Len(accepted) = Len(taken) + Size
    BY RingArithmetic, Numbered DEF RingInv
  <2>2. CASE i <= Len(taken)
    <3>1. i \in 1 .. Len(taken) /\ i \in DOMAIN taken
      BY <2>1, <2>2 DEF TypeOK
    <3>2. accepted[i] = taken[i]
      BY <3>1 DEF RingInv
    <3> QED BY <3>1, <3>2 DEF Range
  <2>3. CASE i > Len(taken)
    <3> DEFINE k == i - Len(taken) - 1
    <3>1. k \in 0 .. Size - 1 /\ i = Len(taken) + k + 1
      BY <2>1, <2>3
    <3> HIDE DEF k
    <3>2. jobarray[Slot(k)] = accepted[i]
      BY <3>1 DEF RingInv
    <3>3. /\ Slot(k) \in Index
          /\ IF head <= tail THEN head <= Slot(k) /\ Slot(k) < tail
                             ELSE head <= Slot(k) \/ Slot(k) < tail
      BY <3>1, QueueAssumption DEF TypeOK, Index, Slot, Size, M
    <3> QED BY <3>2, <3>3 DEF Queued
  <2> QED BY <2>1, <2>2, <2>3
<1> QED BY <1>1, Inductive, PTL

\* The step of the mailbox that a step of the queue is.
LEMMA StepImplements ==
  ASSUME SingleThreads, IInv, IInv', [Next]_vars
  PROVE  [MB!Next]_(MB!vars)
<1> USE DEF IInv
<1>0. /\ Size \in Nat /\ Len(taken) \in Nat /\ Len(accepted) \in Nat
      /\ Len(accepted) = Len(taken) + Size /\ MB!Waiting = Size
  BY RingArithmetic, Numbered DEF RingInv, MB!Waiting
<1>1. CASE UNCHANGED history
  BY <1>1 DEF MB!vars, history
<1>2. ASSUME NEW s \in Senders, Full(s) PROVE MB!Next
  <2>1. job[s] \in Job /\ Size = M - 1
    <3>1. job[s] \in Job /\ head = Succ(tail)
      BY <1>2 DEF Full, TypeOK, SenderInv
    <3> QED BY <3>1, RingArithmetic, QueueAssumption DEF M
  <2>2. MB!Fresh(job[s])
    BY <1>2, <2>1, QueueAssumption DEF MB!Fresh, Full, FreshInv, Offering, TypeOK, Job
  <2> QED BY <1>2, <2>1, <2>2, <1>0 DEF MB!Next, MB!Refuse, Full, M
<1>3. ASSUME NEW s \in Senders, StoreTail(s) PROVE MB!Next
  <2>1. job[s] \in Job /\ Size < M - 1
    BY <1>3, RingArithmetic DEF StoreTail, TypeOK, SenderInv
  <2>2. MB!Fresh(job[s])
    BY <1>3, <2>1, QueueAssumption DEF MB!Fresh, StoreTail, FreshInv, Offering, TypeOK, Job
  <2> QED BY <1>3, <2>1, <2>2, <1>0 DEF MB!Next, MB!Accept, StoreTail, M
<1>4. ASSUME NEW r \in Receivers, StoreHead(r) PROVE MB!Next
  <2>1. Size > 0 /\ Slot(0) = head
    BY <1>4, RingArithmetic DEF StoreHead, Goto, ReceiverInv
  <2>2. job[r] = jobarray[head]
    BY <1>4 DEF StoreHead, Goto, ReceiverInv
  <2>3. job[r] = accepted[Len(taken) + 1]
    BY <2>1, <2>2, <1>0 DEF RingInv
  <2> QED BY <1>4, <2>1, <2>3, <1>0 DEF MB!Next, MB!Take, StoreHead
<1>5. ASSUME NEW s \in Senders, Assign(s) \/ Calling(s)
      PROVE  Full(s) \/ StoreTail(s) \/ UNCHANGED history
  BY <1>5 DEF Assign, Calling, LoadTail, NotFull, StoreSlot, PrintBegin, PrintNext, PrintEnd
<1>6. ASSUME NEW r \in Receivers, Delivering(r)
      PROVE  StoreHead(r) \/ UNCHANGED history
  BY <1>6 DEF Delivering, LoadHead, Empty, NotEmpty, Fetch, Write, Free
<1>7. CASE UNCHANGED vars
  BY <1>7, <1>1 DEF vars
<1> QED BY <1>1, <1>2, <1>3, <1>4, <1>5, <1>6, <1>7 DEF Next

\* With one sender and one receiver the ring of cqueue.h is the abstract
\* mailbox: it refuses a job exactly when MAX_QUEUE_SIZE - 1 wait, and it
\* hands out the accepted ones in order.
THEOREM QueueIsMailbox == ASSUME SingleThreads PROVE Spec => ImplementsMailbox
<1>1. Init => MB!Init
  BY DEF Init, MB!Init
<1> QED BY <1>1, Inductive, StepImplements, PTL DEF Spec, MB!Spec, ImplementsMailbox
=============================================================================
