------------------------ MODULE LocalStreamQueueProofs ------------------------
(***************************************************************************)
(* The safety properties of LocalStreamQueue for every set of requests and *)
(* every number of permits, and the step simulation by which it implements *)
(* Admission.                                                              *)
(***************************************************************************)
EXTENDS LocalStreamQueue, LineProofs, FiniteSetTheorems, TLAPS

(* The stands of a request, as the provers need them: all at once. *)
LEMMA PcValues ==
  Pc = {"new", "locking", "unwinding",
        "probing", "selfcancel", "waiting", "relock",
        "running", "releasing",
        "cancelled", "timed_out", "unavailable", "finished", "aborted"}
BY DEF Pc, LoopPc, StreamPc, EndPc

(* notify_all() moves the coroutines in condition.wait() and nobody else. *)
LEMMA NotifyAllProperties ==
  ASSUME TypeOK
  PROVE  /\ NotifyAll(pc) \in [Task -> Pc]
         /\ \A u \in Task :
              /\ pc[u] = "waiting" => NotifyAll(pc)[u] = "relock"
              /\ pc[u] # "waiting" => NotifyAll(pc)[u] = pc[u]
BY PcValues DEF TypeOK, NotifyAll

(* A grant under the bound keeps the bound. *)
LEMMA GrantBounded ==
  ASSUME NEW S, IsFiniteSet(S), Cardinality(S) < MaxConcurrent, NEW t
  PROVE  IsFiniteSet(S \cup {t}) /\ Cardinality(S \cup {t}) <= MaxConcurrent
<1>1. Cardinality(S) \in Nat
  BY FS_CardinalityType
<1>2. IsFiniteSet(S \cup {t})
  BY FS_AddElement
<1>3. Cardinality(S \cup {t}) = Cardinality(S) \/ Cardinality(S \cup {t}) = Cardinality(S) + 1
  BY FS_AddElement
<1>. QED BY <1>1, <1>2, <1>3, MaxConcurrentAssumption

(* Permits given back keep the bound. *)
LEMMA ReturnBounded ==
  ASSUME NEW S, IsFiniteSet(S), Cardinality(S) <= MaxConcurrent, NEW t
  PROVE  IsFiniteSet(S \ {t}) /\ Cardinality(S \ {t}) <= MaxConcurrent
<1>1. Cardinality(S) \in Nat
  BY FS_CardinalityType
<1>2. IsFiniteSet(S \ {t}) /\ Cardinality(S \ {t}) <= Cardinality(S)
  <2>1. S \ {t} \in SUBSET S
    OBVIOUS
  <2>. QED BY <2>1, FS_Subset
<1>3. Cardinality(S \ {t}) \in Nat
  BY <1>2, FS_CardinalityType
<1>. QED BY <1>1, <1>2, <1>3, MaxConcurrentAssumption

(* The initial state satisfies the inductive invariant. *)
LEMMA InitInvariant == Init => IInv
<1> SUFFICES ASSUME Init PROVE IInv
  OBVIOUS
<1> USE DEF Init
<1>1. TypeOK
  BY PcValues, EmptySeq DEF TypeOK, IsInjective
<1>2. IsFiniteSet(active) /\ Cardinality(active) = 0
  BY FS_EmptySet
<1>3. AdmissionBound
  BY <1>2, MaxConcurrentAssumption DEF AdmissionBound
<1>4. \A t : ~ Contains(waiting, t)
  BY DEF Contains
<1>5. StreamsHoldPermits /\ NoLeakedPermit /\ UninterruptedWaitersLive /\ InLineUnlessCancelled
  BY <1>4 DEF StreamsHoldPermits, NoLeakedPermit, UninterruptedWaitersLive,
              InLineUnlessCancelled, LoopPc, StreamPc
<1>6. LockDiscipline /\ LockFreeWhenClosed /\ NewcomersOutside /\ FlagBeforeRemoval
  BY <1>4, NoTaskAssumption DEF LockDiscipline, LockFreeWhenClosed, NewcomersOutside,
                                FlagBeforeRemoval
<1>. QED BY <1>1, <1>2, <1>3, <1>5, <1>6 DEF IInv

(***************************************************************************)
(* A request t that holds the lock, or has just taken it, answers without  *)
(* a permit.  q is the deque it stands in.                                 *)
(***************************************************************************)
LEMMA RefuseInvariant ==
  ASSUME IInv, NEW t \in Task, NEW q, NEW answer \in {"cancelled", "timed_out", "unavailable"},
         pc[t] \in {"locking", "relock", "probing"},
         lock \in {t, NoTask},
         \/ q = waiting
         \/ pc[t] = "locking" /\ q = Append(waiting, t),
         Refuse(t, q, answer),
         UNCHANGED <<active, cancelled, cancelling, expired, gone, service>>
  PROVE  IInv'
<1>1. /\ waiting' \in Seq(Task) /\ IsInjective(waiting')
      /\ \A u : Contains(waiting', u) <=> Contains(waiting, u) /\ u # t
  <2>1. CASE q = waiting
    BY <2>1, WithoutProperties DEF IInv, TypeOK, Refuse
  <2>2. CASE pc[t] = "locking" /\ q = Append(waiting, t)
    <3>1. ~ Contains(waiting, t)
      BY <2>2 DEF IInv, NewcomersOutside
    <3>2. waiting' = waiting
      BY <2>2, <3>1, WithoutNewcomer DEF IInv, TypeOK, Refuse
    <3>. QED BY <3>1, <3>2 DEF IInv, TypeOK
  <2>. QED BY <2>1, <2>2
<1>2. /\ pc' \in [Task -> Pc]
      /\ pc'[t] = answer
      /\ \A u \in Task \ {t} : /\ pc[u] = "waiting" => pc'[u] = "relock"
                               /\ pc[u] # "waiting" => pc'[u] = pc[u]
  BY NotifyAllProperties, PcValues DEF IInv, Refuse
<1>3. lock' = NoTask
  BY DEF Refuse
<1>4. TypeOK' /\ IsFiniteSet(active)' /\ AdmissionBound'
  BY <1>1, <1>2, <1>3 DEF IInv, TypeOK, AdmissionBound
<1>5. StreamsHoldPermits' /\ NoLeakedPermit'
  BY <1>2 DEF IInv, TypeOK, StreamsHoldPermits, NoLeakedPermit, StreamPc
<1>6. UninterruptedWaitersLive' /\ InLineUnlessCancelled'
  BY <1>1, <1>2 DEF IInv, UninterruptedWaitersLive, InLineUnlessCancelled, LoopPc
<1>7. LockDiscipline' /\ LockFreeWhenClosed'
  BY <1>2, <1>3, NoTaskAssumption DEF IInv, TypeOK, LockDiscipline, LockFreeWhenClosed
<1>8. NewcomersOutside' /\ FlagBeforeRemoval'
  BY <1>1, <1>2 DEF IInv, NewcomersOutside, FlagBeforeRemoval
<1>. QED BY <1>4, <1>5, <1>6, <1>7, <1>8 DEF IInv

(* A round of the loop, entered with the lock free. *)
LEMMA IterateInvariant ==
  ASSUME IInv, NEW t \in Task, NEW q,
         lock = NoTask,
         \/ pc[t] = "relock" /\ q = waiting
         \/ pc[t] = "locking" /\ q = Append(waiting, t),
         Iterate(t, q)
  PROVE  IInv'
<1>1. CASE Refuse(t, q, "unavailable") \/ Refuse(t, q, "cancelled")
  BY <1>1, RefuseInvariant DEF Iterate
<1>2. CASE /\ service = "open"
           /\ t \notin cancelled
           /\ pc' = [pc EXCEPT ![t] = "probing"]
           /\ lock' = t
           /\ waiting' = q
  <2>0. UNCHANGED <<active, cancelled, cancelling, expired, gone, service>>
    BY DEF Iterate
  <2>1. /\ waiting' \in Seq(Task) /\ IsInjective(waiting')
        /\ \A u : Contains(waiting', u) <=> Contains(waiting, u) \/ u = t
    <3>1. CASE pc[t] = "relock" /\ q = waiting
      <4>1. Contains(waiting, t)
        BY <1>2, <3>1 DEF IInv, InLineUnlessCancelled, LoopPc
      <4>. QED BY <1>2, <3>1, <4>1 DEF IInv, TypeOK
    <3>2. CASE pc[t] = "locking" /\ q = Append(waiting, t)
      <4>1. ~ Contains(waiting, t)
        BY <3>2 DEF IInv, NewcomersOutside
      <4>. QED BY <1>2, <3>2, <4>1, JoinProperties DEF IInv, TypeOK
    <3>. QED BY <3>1, <3>2
  <2>2. pc' \in [Task -> Pc] /\ pc'[t] = "probing" /\ \A u \in Task \ {t} : pc'[u] = pc[u]
    BY <1>2, PcValues DEF IInv, TypeOK
  <2>3. TypeOK' /\ IsFiniteSet(active)' /\ AdmissionBound'
    BY <1>2, <2>0, <2>1, <2>2 DEF IInv, TypeOK, AdmissionBound
  <2>4. StreamsHoldPermits' /\ NoLeakedPermit'
    BY <2>0, <2>2 DEF IInv, TypeOK, StreamsHoldPermits, NoLeakedPermit, StreamPc
  <2>5. UninterruptedWaitersLive' /\ InLineUnlessCancelled'
    BY <2>0, <2>1, <2>2 DEF IInv, UninterruptedWaitersLive, InLineUnlessCancelled, LoopPc
  <2>6. LockDiscipline' /\ LockFreeWhenClosed'
    BY <1>2, <2>0, <2>2, NoTaskAssumption DEF IInv, TypeOK, LockDiscipline, LockFreeWhenClosed
  <2>7. NewcomersOutside' /\ FlagBeforeRemoval'
    BY <2>0, <2>1, <2>2 DEF IInv, NewcomersOutside, FlagBeforeRemoval
  <2>. QED BY <2>3, <2>4, <2>5, <2>6, <2>7 DEF IInv
<1>. QED BY <1>1, <1>2 DEF Iterate

(***************************************************************************)
(* A step that moves the coroutine of t to p and touches neither the deque *)
(* nor the permits nor shutdown.                                           *)
(***************************************************************************)
LEMMA MoveInvariant ==
  ASSUME IInv, NEW t \in Task, NEW p \in Pc,
         pc' = [pc EXCEPT ![t] = p],
         UNCHANGED <<waiting, active, service>>,
         expired' \subseteq Task, gone' \subseteq Task,
         cancelled' \subseteq Task, cancelling' \subseteq cancelled',
         \A u \in Task \ {t} : u \in cancelled' <=> u \in cancelled,
         p \in StreamPc => t \in active,
         t \notin Interruptible /\ t \in active => p \in StreamPc,
         t \notin Interruptible /\ Contains(waiting, t) => p \in LoopPc,
         p \in LoopPc /\ t \notin cancelled' => Contains(waiting, t),
         p \in {"new", "locking"} => ~ Contains(waiting, t) /\ t \notin active,
         \/ lock' = lock /\ (p \in {"probing", "selfcancel"} <=> lock = t)
         \/ lock = t /\ lock' = NoTask /\ p \notin {"probing", "selfcancel"}
  PROVE  IInv'
<1>1. pc' \in [Task -> Pc] /\ pc'[t] = p /\ \A u \in Task \ {t} : pc'[u] = pc[u]
  BY DEF IInv, TypeOK
<1>2. TypeOK' /\ IsFiniteSet(active)' /\ AdmissionBound'
  BY <1>1, NoTaskAssumption DEF IInv, TypeOK, AdmissionBound
<1>3. StreamsHoldPermits' /\ NoLeakedPermit'
  BY <1>1 DEF IInv, TypeOK, StreamsHoldPermits, NoLeakedPermit
<1>4. UninterruptedWaitersLive' /\ InLineUnlessCancelled'
  BY <1>1 DEF IInv, UninterruptedWaitersLive, InLineUnlessCancelled
<1>5. LockDiscipline' /\ LockFreeWhenClosed'
  BY <1>1, NoTaskAssumption DEF IInv, TypeOK, LockDiscipline, LockFreeWhenClosed
<1>6. NewcomersOutside' /\ FlagBeforeRemoval'
  BY <1>1 DEF IInv, NewcomersOutside, FlagBeforeRemoval
<1>. QED BY <1>2, <1>3, <1>4, <1>5, <1>6 DEF IInv

(* The steps that MoveInvariant covers. *)
LEMMA MovesInvariant ==
  ASSUME IInv, NEW t \in Task,
         \/ Arrive(t) \/ Poll(t) \/ Wait(t) \/ Finish(t) \/ Expire(t) \/ Disconnect(t)
         \/ Interrupt(t) \/ Unwind(t) \/ Recycle(t) \/ Cancel(t)
  PROVE  IInv'
<1> USE DEF IInv
<1>a. pc \in [Task -> Pc] /\ pc = [pc EXCEPT ![t] = pc[t]]
  BY DEF TypeOK
<1>b. /\ pc[t] \in StreamPc => t \in active
      /\ t \notin Interruptible /\ t \in active => pc[t] \in StreamPc
      /\ t \notin Interruptible /\ Contains(waiting, t) => pc[t] \in LoopPc
      /\ pc[t] \in LoopPc /\ t \notin cancelled => Contains(waiting, t)
      /\ pc[t] \in {"new", "locking"} => ~ Contains(waiting, t) /\ t \notin active
      /\ pc[t] \in {"probing", "selfcancel"} <=> lock = t
  BY DEF StreamsHoldPermits, NoLeakedPermit, UninterruptedWaitersLive, InLineUnlessCancelled,
         NewcomersOutside, LockDiscipline, TypeOK
<1>c. cancelling \subseteq cancelled /\ cancelled \subseteq Task
      /\ expired \subseteq Task /\ gone \subseteq Task
  BY DEF FlagBeforeRemoval, TypeOK
<1> USE DEF LoopPc, StreamPc
<1>1. CASE Arrive(t)
  BY <1>1, <1>b, <1>c, MoveInvariant, PcValues DEF Arrive
<1>2. CASE Poll(t)
  BY <1>2, <1>b, <1>c, MoveInvariant, PcValues DEF Poll
<1>3. CASE Wait(t)
  BY <1>3, <1>b, <1>c, MoveInvariant, PcValues DEF Wait
<1>4. CASE Finish(t)
  BY <1>4, <1>b, <1>c, MoveInvariant, PcValues DEF Finish
<1>5. CASE Expire(t) \/ Disconnect(t) \/ Cancel(t)
  BY <1>5, <1>a, <1>b, <1>c, MoveInvariant DEF Expire, Disconnect, Cancel
<1>6. CASE Interrupt(t)
  BY <1>6, <1>b, <1>c, MoveInvariant, PcValues DEF Interrupt
<1>7. CASE Unwind(t)
  BY <1>7, <1>b, <1>c, MoveInvariant, PcValues DEF Unwind
<1>8. CASE Recycle(t)
  BY <1>8, <1>b, <1>c, MoveInvariant, PcValues DEF Recycle, EndPc
<1>. QED BY <1>1, <1>2, <1>3, <1>4, <1>5, <1>6, <1>7, <1>8

(* A grant: the first of the deque becomes one more permit. *)
LEMMA AdmitInvariant ==
  ASSUME IInv, NEW t \in Task, Admit(t)
  PROVE  IInv'
<1> USE DEF IInv, Admit, Admissible
<1>1. /\ waiting' \in Seq(Task) /\ IsInjective(waiting')
      /\ \A u : Contains(waiting', u) <=> Contains(waiting, u) /\ u # t
  BY PopProperties DEF TypeOK
<1>2. pc' \in [Task -> Pc] /\ pc'[t] = "running" /\ \A u \in Task \ {t} : pc'[u] = pc[u]
  BY PcValues DEF TypeOK
<1>3. IsFiniteSet(active)' /\ AdmissionBound'
  <2>1. IsFiniteSet(active) /\ Cardinality(active) < MaxConcurrent /\ active' = active \cup {t}
    OBVIOUS
  <2>2. IsFiniteSet(active \cup {t}) /\ Cardinality(active \cup {t}) <= MaxConcurrent
    BY ONLY <2>1, GrantBounded
  <2>. QED BY ONLY <2>1, <2>2 DEF AdmissionBound
<1>4. TypeOK'
  BY <1>1, <1>2, NoTaskAssumption DEF TypeOK
<1>5. StreamsHoldPermits' /\ NoLeakedPermit'
  BY <1>2 DEF TypeOK, StreamsHoldPermits, NoLeakedPermit, StreamPc
<1>6. UninterruptedWaitersLive' /\ InLineUnlessCancelled'
  BY <1>1, <1>2 DEF UninterruptedWaitersLive, InLineUnlessCancelled, LoopPc
<1>7. LockDiscipline' /\ LockFreeWhenClosed'
  BY <1>2, NoTaskAssumption DEF TypeOK, LockDiscipline, LockFreeWhenClosed
<1>8. NewcomersOutside' /\ FlagBeforeRemoval'
  BY <1>1, <1>2 DEF NewcomersOutside, FlagBeforeRemoval
<1>. QED BY <1>3, <1>4, <1>5, <1>6, <1>7, <1>8

(* A release: the permit goes back and the waiters are notified. *)
LEMMA ReleaseInvariant ==
  ASSUME IInv, NEW t \in Task, Release(t)
  PROVE  IInv'
<1> USE DEF IInv, Release
<1>1. /\ pc' \in [Task -> Pc] /\ pc'[t] = "finished"
      /\ \A u \in Task \ {t} : /\ pc[u] = "waiting" => pc'[u] = "relock"
                               /\ pc[u] # "waiting" => pc'[u] = pc[u]
  BY NotifyAllProperties, PcValues
<1>2. IsFiniteSet(active)' /\ AdmissionBound'
  <2>1. IsFiniteSet(active) /\ Cardinality(active) <= MaxConcurrent /\ active' = active \ {t}
    BY DEF AdmissionBound
  <2>2. IsFiniteSet(active \ {t}) /\ Cardinality(active \ {t}) <= MaxConcurrent
    BY ONLY <2>1, ReturnBounded
  <2>. QED BY ONLY <2>1, <2>2 DEF AdmissionBound
<1>3. TypeOK'
  BY <1>1 DEF TypeOK
<1>4. StreamsHoldPermits' /\ NoLeakedPermit'
  BY <1>1 DEF TypeOK, StreamsHoldPermits, NoLeakedPermit, StreamPc
<1>5. UninterruptedWaitersLive' /\ InLineUnlessCancelled'
  BY <1>1 DEF UninterruptedWaitersLive, InLineUnlessCancelled, LoopPc
<1>6. LockDiscipline' /\ LockFreeWhenClosed'
  BY <1>1, NoTaskAssumption DEF TypeOK, LockDiscipline, LockFreeWhenClosed
<1>7. NewcomersOutside' /\ FlagBeforeRemoval'
  BY <1>1 DEF NewcomersOutside, FlagBeforeRemoval
<1>. QED BY <1>2, <1>3, <1>4, <1>5, <1>6, <1>7

(* StreamQueueLimiter.cancel takes off the deque only whom the flag has reached. *)
LEMMA CancelWaiterInvariant ==
  ASSUME IInv, NEW t \in Task, CancelWaiter(t)
  PROVE  IInv'
<1> USE DEF IInv, CancelWaiter
<1>1. /\ waiting' \in Seq(Task) /\ IsInjective(waiting')
      /\ \A u : Contains(waiting', u) <=> Contains(waiting, u) /\ u # t
  BY WithoutProperties DEF TypeOK
<1>2. /\ pc' \in [Task -> Pc]
      /\ \A u \in Task : /\ pc[u] = "waiting" => pc'[u] = "relock"
                         /\ pc[u] # "waiting" => \/ pc'[u] = pc[u]
                                                 \/ /\ u = t /\ pc[u] = "selfcancel"
                                                    /\ pc'[u] = "cancelled"
  BY NotifyAllProperties, PcValues
<1>3. pc[t] # "selfcancel"
  BY NoTaskAssumption DEF LockDiscipline
<1>4. t \in cancelled
  BY DEF FlagBeforeRemoval
<1>5. TypeOK' /\ IsFiniteSet(active)' /\ AdmissionBound'
  BY <1>1, <1>2 DEF TypeOK, AdmissionBound
<1>6. StreamsHoldPermits' /\ NoLeakedPermit'
  BY <1>2, <1>3 DEF TypeOK, StreamsHoldPermits, NoLeakedPermit, StreamPc
<1>7. UninterruptedWaitersLive' /\ InLineUnlessCancelled'
  BY <1>1, <1>2, <1>3, <1>4 DEF UninterruptedWaitersLive, InLineUnlessCancelled, LoopPc
<1>8. LockDiscipline' /\ LockFreeWhenClosed'
  BY <1>2, <1>3, NoTaskAssumption DEF TypeOK, LockDiscipline, LockFreeWhenClosed
<1>9. NewcomersOutside' /\ FlagBeforeRemoval'
  BY <1>1, <1>2, <1>3 DEF NewcomersOutside, FlagBeforeRemoval
<1>. QED BY <1>5, <1>6, <1>7, <1>8, <1>9

(* The two halves of close(). *)
LEMMA CloseInvariant ==
  ASSUME IInv, Close \/ CloseNotify
  PROVE  IInv'
<1> USE DEF IInv
<1>1. /\ pc' \in [Task -> Pc]
      /\ \A u \in Task : \/ pc'[u] = pc[u]
                         \/ pc[u] = "waiting" /\ pc'[u] = "relock"
  BY NotifyAllProperties DEF Close, CloseNotify, TypeOK
<1>2. UNCHANGED <<lock, waiting, active, cancelled, cancelling, expired, gone>>
  BY DEF Close, CloseNotify
<1>3. TypeOK' /\ IsFiniteSet(active)' /\ AdmissionBound'
  BY <1>1, <1>2 DEF TypeOK, AdmissionBound, Close, CloseNotify
<1>4. StreamsHoldPermits' /\ NoLeakedPermit'
  BY <1>1, <1>2 DEF TypeOK, StreamsHoldPermits, NoLeakedPermit, StreamPc
<1>5. UninterruptedWaitersLive' /\ InLineUnlessCancelled'
  BY <1>1, <1>2 DEF UninterruptedWaitersLive, InLineUnlessCancelled, LoopPc
<1>6. LockDiscipline' /\ LockFreeWhenClosed'
  BY <1>1, <1>2 DEF LockDiscipline, LockFreeWhenClosed, Close, CloseNotify
<1>7. NewcomersOutside' /\ FlagBeforeRemoval'
  BY <1>1, <1>2 DEF NewcomersOutside, FlagBeforeRemoval
<1>. QED BY <1>3, <1>4, <1>5, <1>6, <1>7

(* Every step preserves the inductive invariant. *)
LEMMA NextInvariant == IInv /\ [Next]_vars => IInv'
<1> SUFFICES ASSUME IInv, [Next]_vars PROVE IInv'
  OBVIOUS
<1>1. ASSUME NEW t \in Task, Enter(t) PROVE IInv'
  BY <1>1, IterateInvariant DEF Enter
<1>2. ASSUME NEW t \in Task, Resume(t) PROVE IInv'
  BY <1>2, IterateInvariant DEF Resume
<1>3. ASSUME NEW t \in Task, TimeOut(t) PROVE IInv'
  <2>1. lock = t
    BY <1>3 DEF TimeOut, IInv, LockDiscipline
  <2>. QED BY <1>3, <2>1, RefuseInvariant DEF TimeOut
<1>4. ASSUME NEW t \in Task, DetectDisconnect(t) PROVE IInv'
  <2>1. lock = t /\ pc[t] = "probing"
    BY <1>4 DEF DetectDisconnect, IInv, LockDiscipline
  <2>2. CASE t \in cancelled
    BY <1>4, <2>1, <2>2, RefuseInvariant DEF DetectDisconnect
  <2>3. CASE t \notin cancelled
    <3>1. /\ Contains(waiting, t)
          /\ t \notin Interruptible => t \notin active
          /\ cancelling \subseteq cancelled /\ cancelled \subseteq Task
          /\ expired \subseteq Task /\ gone \subseteq Task
      BY <2>1, <2>3 DEF IInv, TypeOK, InLineUnlessCancelled, NoLeakedPermit, FlagBeforeRemoval,
                        LoopPc, StreamPc
    <3>. QED BY <1>4, <2>1, <2>3, <3>1, MoveInvariant, PcValues
             DEF DetectDisconnect, LoopPc, StreamPc
  <2>. QED BY <2>2, <2>3
<1>5. ASSUME NEW t \in Task, Admit(t) \/ Release(t) \/ CancelWaiter(t) PROVE IInv'
  BY <1>5, AdmitInvariant, ReleaseInvariant, CancelWaiterInvariant
<1>6. ASSUME NEW t \in Task,
             \/ Arrive(t) \/ Poll(t) \/ Wait(t) \/ Finish(t) \/ Expire(t) \/ Disconnect(t)
             \/ Interrupt(t) \/ Unwind(t) \/ Recycle(t) \/ Cancel(t)
      PROVE  IInv'
  BY <1>6, MovesInvariant
<1>7. CASE Close \/ CloseNotify
  BY <1>7, CloseInvariant
<1>8. CASE UNCHANGED vars
  BY <1>8 DEF vars, IInv, TypeOK, AdmissionBound, StreamsHoldPermits, NoLeakedPermit,
              UninterruptedWaitersLive, InLineUnlessCancelled, LockDiscipline,
              LockFreeWhenClosed, NewcomersOutside, FlagBeforeRemoval
<1>. QED BY <1>1, <1>2, <1>3, <1>4, <1>5, <1>6, <1>7, <1>8 DEF Next

(***************************************************************************)
(* The inductive invariant: the pc of a request, the deque, the permits,   *)
(* the flags and the owner of the lock always fit each other.              *)
(***************************************************************************)
THEOREM Invariance == Spec => []IInv
BY InitInvariant, NextInvariant, PTL DEF Spec

(* Every variable keeps its type; no request stands in the deque twice. *)
THEOREM TypeCorrect == Spec => []TypeOK
<1>1. IInv => TypeOK
  BY DEF IInv
<1>. QED BY <1>1, Invariance, PTL

(* The limiter never hands out more than max_concurrent permits, whatever  *)
(* is cancelled, interrupted, disconnected or closed in between.           *)
THEOREM Bounded == Spec => []AdmissionBound
<1>1. IInv => AdmissionBound
  BY DEF IInv
<1>. QED BY <1>1, Invariance, PTL

(* Active work keeps its permit: nothing but its own release takes it back. *)
THEOREM PermitsKept == Spec => []StreamsHoldPermits
<1>1. IInv => StreamsHoldPermits
  BY DEF IInv
<1>. QED BY <1>1, Invariance, PTL

(* No permit outlives the stream it was given to, unless the coroutine was *)
(* interrupted.                                                            *)
THEOREM NoPermitLeaks == Spec => []NoLeakedPermit
<1>1. IInv => NoLeakedPermit
  BY DEF IInv
<1>. QED BY <1>1, Invariance, PTL

(* A request that left acquire's loop left the deque with it, unless its   *)
(* coroutine was interrupted.                                              *)
THEOREM WaitersLive == Spec => []UninterruptedWaitersLive
<1>1. IInv => UninterruptedWaitersLive
  BY DEF IInv
<1>. QED BY <1>1, Invariance, PTL

(* Where no coroutine is interrupted nobody dead stands in the deque: a     *)
(* CancelledError in the wait is the one way to leave a waiter behind.     *)
THEOREM OnlyInterruptsAbandon == Interruptible = {} => (Spec => []NoAbandonedWaiter)
<1>1. Interruptible = {} /\ IInv => NoAbandonedWaiter
  BY DEF IInv, UninterruptedWaitersLive, NoAbandonedWaiter
<1>2. SUFFICES ASSUME Interruptible = {} PROVE Spec => []NoAbandonedWaiter
  OBVIOUS
<1>3. IInv => NoAbandonedWaiter
  BY <1>1, <1>2
<1>. QED BY <1>3, Invariance, PTL

(* A request in the loop of acquire keeps its place until it is cancelled. *)
THEOREM PlacesKept == Spec => []InLineUnlessCancelled
<1>1. IInv => InLineUnlessCancelled
  BY DEF IInv
<1>. QED BY <1>1, Invariance, PTL

-----------------------------------------------------------------------------
(* After shutdown.                                                         *)

(* With the queue closed nobody is between should_cancel() and a grant. *)
LEMMA NobodyProbesWhenClosed ==
  ASSUME IInv, service = "closed", NEW t \in Task
  PROVE  pc[t] \notin {"probing", "selfcancel"}
BY NoTaskAssumption DEF IInv, LockDiscipline, LockFreeWhenClosed

(* One step of a closed queue admits nobody and sends nobody to wait. *)
LEMMA ClosedStep ==
  ASSUME IInv, [Next]_vars, service = "closed"
  PROVE  /\ active' \subseteq active
         /\ \A t \in Task : pc'[t] = "waiting" => pc[t] = "waiting"
<1>0. pc \in [Task -> Pc]
  BY DEF IInv, TypeOK
<1> DEFINE Drains == /\ active' \subseteq active
                     /\ \A u \in Task : pc'[u] = "waiting" => pc[u] = "waiting"
<1>1. ASSUME NEW t \in Task, NEW p, p # "waiting", active' \subseteq active,
             pc' = [pc EXCEPT ![t] = p] \/ pc' = [NotifyAll(pc) EXCEPT ![t] = p]
      PROVE  Drains
  BY <1>0, <1>1 DEF NotifyAll
<1>2. ASSUME NEW t \in Task, Enter(t) \/ Resume(t) PROVE Drains
  BY <1>1, <1>2 DEF Enter, Resume, Iterate, Refuse
<1>3. ASSUME NEW t \in Task, Admit(t) \/ TimeOut(t) \/ Wait(t) \/ DetectDisconnect(t)
      PROVE  Drains
  BY <1>3, NobodyProbesWhenClosed DEF Admit, TimeOut, Wait, DetectDisconnect
<1>4. ASSUME NEW t \in Task,
             \/ Arrive(t) \/ Poll(t) \/ Finish(t) \/ Release(t)
             \/ Interrupt(t) \/ Unwind(t) \/ Recycle(t)
      PROVE  Drains
  BY <1>1, <1>4 DEF Arrive, Poll, Finish, Release, Interrupt, Unwind, Recycle
<1>5. ASSUME NEW t \in Task, Expire(t) \/ Disconnect(t) \/ Cancel(t) PROVE Drains
  BY <1>5 DEF Expire, Disconnect, Cancel
<1>6. ASSUME NEW t \in Task, CancelWaiter(t) PROVE Drains
  BY <1>0, <1>6 DEF CancelWaiter, NotifyAll
<1>7. CASE Close \/ CloseNotify \/ UNCHANGED vars
  BY <1>7 DEF Close, CloseNotify, vars
<1>. QED BY <1>2, <1>3, <1>4, <1>5, <1>6, <1>7 DEF Next

(***************************************************************************)
(* Shutdown is final: a request that was in the middle of its round when   *)
(* close() raised the flag holds the lock, so close() has waited for it.   *)
(***************************************************************************)
THEOREM ShutdownFinal == Spec => ClosedQueueDrains
<1>1. IInv /\ [Next]_vars =>
        [service = "closed" =>
           /\ active' \subseteq active
           /\ \A t \in Task : pc'[t] = "waiting" => pc[t] = "waiting"]_vars
  BY ClosedStep
<1>. QED BY <1>1, Invariance, PTL DEF Spec, ClosedQueueDrains

-----------------------------------------------------------------------------
(* LocalStreamQueue implements Admission.                                  *)

(***************************************************************************)
(* The instance of Admission has its own copies of the operators on lines  *)
(* and sets; they are those of the limiter.                                *)
(***************************************************************************)
LEMMA PromiseContains == \A q, t : Promise!Contains(q, t) <=> Contains(q, t)
BY DEF Contains, Promise!Contains

LEMMA PromiseWithout == \A q, t : Promise!Without(q, t) = Without(q, t)
BY DEF Without, RemoveFirst, RemoveAt, SelectInSeq, Min,
       Promise!Without, Promise!RemoveFirst, Promise!RemoveAt, Promise!SelectInSeq, Promise!Min

LEMMA PromiseCardinality == \A S : Promise!Cardinality(S) = Cardinality(S)
BY DEF Cardinality, Promise!Cardinality

(* The initial state of the limiter is an initial state of Admission. *)
LEMMA InitRefines == Init => Promise!AdmissionInit
BY DEF Init, Promise!AdmissionInit

(***************************************************************************)
(* A request turned away leaves the line, or is not seen to have been in   *)
(* it at all.                                                              *)
(***************************************************************************)
LEMMA RefuseRefines ==
  ASSUME IInv, NEW t \in Task, NEW q, NEW answer,
         \/ q = waiting
         \/ pc[t] = "locking" /\ q = Append(waiting, t),
         Refuse(t, q, answer),
         UNCHANGED <<active, service>>
  PROVE  Promise!Quit(t) \/ UNCHANGED Promise!admissionVars
<1>1. CASE q = waiting
  BY <1>1, PromiseContains, PromiseWithout DEF Refuse, Without, RemoveFirst, Contains, Promise!Quit, Promise!admissionVars
<1>2. CASE pc[t] = "locking" /\ q = Append(waiting, t)
  <2>1. waiting' = waiting
    BY <1>2, WithoutNewcomer DEF Refuse, IInv, TypeOK, NewcomersOutside
  <2>. QED BY <2>1 DEF Promise!admissionVars
<1>. QED BY <1>1, <1>2

(* Every step of the limiter is a step of Admission or leaves it alone. *)
LEMMA StepRefines == IInv /\ [Next]_vars => [Promise!AdmissionNext]_(Promise!admissionVars)
<1> SUFFICES ASSUME IInv, [Next]_vars
             PROVE  Promise!AdmissionNext \/ UNCHANGED Promise!admissionVars
  OBVIOUS
<1> DEFINE Refines == Promise!AdmissionNext \/ UNCHANGED Promise!admissionVars
<1>1. ASSUME NEW t \in Task, Enter(t) PROVE Refines
  <2>1. CASE \/ Refuse(t, Append(waiting, t), "unavailable")
             \/ Refuse(t, Append(waiting, t), "cancelled")
    BY <1>1, <2>1, RefuseRefines DEF Enter, Iterate, Promise!AdmissionNext
  <2>2. CASE waiting' = Append(waiting, t)
    BY <1>1, <2>2, PromiseContains DEF Enter, Iterate, IInv, NewcomersOutside,
                      Promise!AdmissionNext, Promise!Join
  <2>. QED BY <1>1, <2>1, <2>2 DEF Enter, Iterate
<1>2. ASSUME NEW t \in Task, Resume(t) PROVE Refines
  <2>1. CASE Refuse(t, waiting, "unavailable") \/ Refuse(t, waiting, "cancelled")
    BY <1>2, <2>1, RefuseRefines DEF Resume, Iterate, Promise!AdmissionNext
  <2>2. CASE waiting' = waiting
    BY <1>2, <2>2 DEF Resume, Iterate, Promise!admissionVars
  <2>. QED BY <1>2, <2>1, <2>2 DEF Resume, Iterate
<1>3. ASSUME NEW t \in Task, Admit(t) PROVE Refines
  <2>1. service # "closed"
    BY <1>3, NobodyProbesWhenClosed DEF Admit
  <2>. QED BY <1>3, <2>1, PromiseCardinality DEF Admit, Admissible, Promise!AdmissionNext, Promise!Grant
<1>4. ASSUME NEW t \in Task, TimeOut(t) PROVE Refines
  BY <1>4, RefuseRefines DEF TimeOut, Promise!AdmissionNext
<1>5. ASSUME NEW t \in Task, DetectDisconnect(t) PROVE Refines
  <2>1. CASE Refuse(t, waiting, "cancelled")
    BY <1>5, <2>1, RefuseRefines DEF DetectDisconnect, Promise!AdmissionNext
  <2>2. CASE waiting' = waiting
    BY <1>5, <2>2 DEF DetectDisconnect, Promise!admissionVars
  <2>. QED BY <1>5, <2>1, <2>2 DEF DetectDisconnect
<1>6. ASSUME NEW t \in Task, Release(t) PROVE Refines
  BY <1>6 DEF Release, IInv, StreamsHoldPermits, StreamPc,
              Promise!AdmissionNext, Promise!GiveBack
<1>7. ASSUME NEW t \in Task, CancelWaiter(t) PROVE Refines
  <2>1. CASE Contains(waiting, t)
    BY <1>7, <2>1, PromiseContains, PromiseWithout DEF CancelWaiter, Promise!AdmissionNext, Promise!Quit
  <2>2. CASE ~ Contains(waiting, t)
    BY <1>7, <2>2 DEF CancelWaiter, Without, RemoveFirst, Contains, Promise!admissionVars
  <2>. QED BY <2>1, <2>2
<1>8. ASSUME NEW t \in Task,
             \/ Arrive(t) \/ Poll(t) \/ Wait(t) \/ Finish(t) \/ Expire(t) \/ Disconnect(t)
             \/ Interrupt(t) \/ Unwind(t) \/ Recycle(t) \/ Cancel(t)
      PROVE  Refines
  BY <1>8 DEF Arrive, Poll, Wait, Finish, Expire, Disconnect, Interrupt, Unwind, Recycle,
              Cancel, Promise!admissionVars
<1>9. CASE Close \/ UNCHANGED vars
  BY <1>9 DEF Close, vars, Promise!admissionVars
<1>10. CASE CloseNotify
  BY <1>10 DEF CloseNotify, Promise!AdmissionNext, Promise!ShutDown
<1>. QED BY <1>1, <1>2, <1>3, <1>4, <1>5, <1>6, <1>7, <1>8, <1>9, <1>10 DEF Next

(***************************************************************************)
(* The in-process limiter is an admission control: first come, first       *)
(* served, at most max_concurrent at a time, closed for good by close().   *)
(***************************************************************************)
THEOREM Refinement == Spec => ImplementsAdmission
BY InitRefines, StepRefines, Invariance, PTL
   DEF Spec, ImplementsAdmission, Promise!AdmissionSpec

-----------------------------------------------------------------------------
(* And so it implements LeasedAdmission, which the Redis mode implements.  *)

(* Admission again, with what is proved about it. *)
Kept ==
  INSTANCE AdmissionProofs WITH line <- waiting, permits <- active, open <- service # "closed"

LEMMA KeptContains == \A q, t : Kept!Contains(q, t) <=> Promise!Contains(q, t)
BY DEF Promise!Contains, Kept!Contains

LEMMA KeptWithout == \A q, t : Kept!Without(q, t) = Promise!Without(q, t)
BY DEF Kept!Without, Kept!RemoveFirst, Kept!RemoveAt, Kept!SelectInSeq, Kept!Min,
       Promise!Without, Promise!RemoveFirst, Promise!RemoveAt, Promise!SelectInSeq, Promise!Min

LEMMA KeptCardinality == \A S : Kept!Cardinality(S) = Promise!Cardinality(S)
BY DEF Kept!Cardinality, Promise!Cardinality

(* Both instances take the same steps. *)
LEMMA KeptSteps ==
  /\ Promise!AdmissionInit => Kept!AdmissionInit
  /\ [Promise!AdmissionNext]_(Promise!admissionVars) => [Kept!AdmissionNext]_(Kept!admissionVars)
BY KeptContains, KeptWithout, KeptCardinality
   DEF Promise!AdmissionInit, Promise!AdmissionNext, Promise!admissionVars,
       Promise!Join, Promise!Grant, Promise!Quit, Promise!GiveBack, Promise!ShutDown,
       Kept!AdmissionInit, Kept!AdmissionNext, Kept!admissionVars,
       Kept!Join, Kept!Grant, Kept!Quit, Kept!GiveBack, Kept!ShutDown

(* The in-process limiter promises all that the Redis mode promises: its   *)
(* callers need not know in which mode it runs.                            *)
THEOREM SharedRefinement == Spec => Kept!ImplementsLeasedAdmission
BY Refinement, Kept!LeasedRefinement, KeptSteps, MaxConcurrentAssumption, PTL
   DEF ImplementsAdmission, Promise!AdmissionSpec, Kept!AdmissionSpec

=============================================================================
