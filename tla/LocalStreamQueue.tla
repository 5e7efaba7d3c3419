--------------------------- MODULE LocalStreamQueue ---------------------------
(***************************************************************************)
(* StreamQueueLimiter in its in-process mode (no Redis), as StreamChat-    *)
(* Service drives it.  Every request coroutine goes through                *)
(* _acquire_local, streams, and calls release; StreamChatService.cancel    *)
(* and StreamQueueLimiter.close run beside them on the same event loop.    *)
(*                                                                         *)
(* asyncio switches coroutines only at an await that really suspends, so   *)
(* one action is the code between two such awaits.  There are four of      *)
(* them: taking the condition's lock, should_cancel's is_disconnected()    *)
(* (which is awaited WHILE the lock is held), condition.wait(), and the    *)
(* stream itself.  The lock of an asyncio.Condition has no owner and is    *)
(* not reentrant.                                                          *)
(***************************************************************************)
EXTENDS Naturals, Sequences, FiniteSets, SequencesExt, Line

CONSTANTS
  Task,            \* identities of stream requests
  MaxConcurrent,   \* STREAM_QUEUE_MAX_CONCURRENT
  Disconnecting,   \* requests whose client may go away (is_disconnected() turns TRUE)
  Interruptible,   \* requests whose coroutine may be cancelled from outside, as the
                   \* ASGI server does when the connection drops
  Reused,          \* ids under which a later stream may come
  NoTask           \* nobody holds the lock

ASSUME MaxConcurrentAssumption == MaxConcurrent \in Nat \ {0}
ASSUME EnvironmentAssumption ==
  /\ Disconnecting \subseteq Task
  /\ Interruptible \subseteq Task
  /\ Reused \subseteq Task
ASSUME NoTaskAssumption == NoTask \notin Task

VARIABLES
  pc,          \* where each request's coroutine stands
  lock,        \* the request that holds _local_condition across an await, or NoTask
  waiting,     \* _local_waiting
  active,      \* _local_active: the requests that hold a permit
  cancelled,   \* StreamTaskInfo.cancelled of the registered requests
  cancelling,  \* requests for which StreamQueueLimiter.cancel awaits the lock
  expired,     \* requests whose deadline has passed
  gone,        \* requests whose client has disconnected
  service      \* "open", "closing" (close() awaits the lock), "closed"

vars == <<pc, lock, waiting, active, cancelled, cancelling, expired, gone, service>>

(* The requests inside the loop of _acquire_local, after they joined the deque. *)
LoopPc == {"probing", "selfcancel", "waiting", "relock"}

(* The requests that are admitted: their stream runs, or awaits the lock in release. *)
StreamPc == {"running", "releasing"}

(***************************************************************************)
(* The ends of a request: the answer of acquire when it is not GRANTED,    *)
(* "finished" after release, "aborted" when CancelledError leaves the      *)
(* coroutine.                                                              *)
(***************************************************************************)
EndPc == {"cancelled", "timed_out", "unavailable", "finished", "aborted"}

(***************************************************************************)
(* new: not registered; locking: awaits the lock on entry to               *)
(* _acquire_local; probing: holds the lock and awaits should_cancel();     *)
(* selfcancel: holds the lock and awaits it once more, inside the cancel() *)
(* that should_cancel() made; waiting: in condition.wait(); relock: woken, *)
(* awaits the lock; unwinding: cancelled in condition.wait(), awaits the   *)
(* lock before the CancelledError may go on.                               *)
(***************************************************************************)
Pc == {"new", "locking", "unwinding"} \cup LoopPc \cup StreamPc \cup EndPc

Registered(t) == pc[t] \notin {"new"} \cup EndPc

TypeOK ==
  /\ pc \in [Task -> Pc]
  /\ lock \in Task \cup {NoTask}
  /\ waiting \in Seq(Task) /\ IsInjective(waiting)
  /\ active \subseteq Task
  /\ cancelled \subseteq Task
  /\ cancelling \subseteq Task
  /\ expired \subseteq Task
  /\ gone \subseteq Task
  /\ service \in {"open", "closing", "closed"}

Init ==
  /\ pc = [t \in Task |-> "new"]
  /\ lock = NoTask
  /\ waiting = <<>>
  /\ active = {}
  /\ cancelled = {}
  /\ cancelling = {}
  /\ expired = {}
  /\ gone = {}
  /\ service = "open"

-----------------------------------------------------------------------------
(* The loop of _acquire_local.  q is the deque the request finds.          *)

(* notify_all(): every coroutine in condition.wait() goes on to take the lock. *)
NotifyAll(p) ==
  [t \in Task |-> IF p[t] = "waiting" THEN "relock" ELSE p[t]]

(* acquire answers without a permit: off the deque, notify_all, lock released. *)
Refuse(t, q, answer) ==
  /\ waiting' = Without(q, t)
  /\ pc' = [NotifyAll(pc) EXCEPT ![t] = answer]
  /\ lock' = NoTask

(* The top of the loop, up to the await of is_disconnected() in should_cancel(). *)
Iterate(t, q) ==
  /\ \/ /\ service # "open"
        /\ Refuse(t, q, "unavailable")
     \/ /\ service = "open"
        /\ t \in cancelled
        /\ Refuse(t, q, "cancelled")
     \/ /\ service = "open"
        /\ t \notin cancelled
        /\ pc' = [pc EXCEPT ![t] = "probing"]
        /\ lock' = t
        /\ waiting' = q
  /\ UNCHANGED <<active, cancelled, cancelling, expired, gone, service>>

(* The stream registers and calls acquire; a closing limiter turns it away at once. *)
Arrive(t) ==
  /\ pc[t] = "new"
  /\ pc' = [pc EXCEPT ![t] = IF service = "open" THEN "locking" ELSE "unavailable"]
  /\ UNCHANGED <<lock, waiting, active, cancelled, cancelling, expired, gone, service>>

(* The request has the lock: it joins the deque and enters the loop. *)
Enter(t) ==
  /\ pc[t] = "locking"
  /\ lock = NoTask
  /\ Iterate(t, Append(waiting, t))

(* Faulty variant: the append is inside the loop. *)
ResumeJoinsAgain(t) ==
  /\ pc[t] = "relock"
  /\ lock = NoTask
  /\ Iterate(t, Append(waiting, t))

(* Woken in condition.wait(), the request has the lock again: next round. *)
Resume(t) ==
  /\ pc[t] = "relock"
  /\ lock = NoTask
  /\ Iterate(t, waiting)

(* Faulty variant: condition.wait() without the wait_for around it. *)
PollNever(t) ==
  /\ pc[t] = "waiting" /\ pc[t] = "relock"
  /\ UNCHANGED vars

(* The wait_for around condition.wait() gives up after the poll interval. *)
Poll(t) ==
  /\ pc[t] = "waiting"
  /\ pc' = [pc EXCEPT ![t] = "relock"]
  /\ UNCHANGED <<lock, waiting, active, cancelled, cancelling, expired, gone, service>>

(* Faulty variant: any waiter may go, and whoever is first is popped. *)
AdmissibleUnordered(t) ==
  /\ Contains(waiting, t)
  /\ Cardinality(active) < MaxConcurrent

(* The request is the first of the deque and a permit is free. *)
Admissible(t) ==
  /\ waiting # <<>> /\ Head(waiting) = t
  /\ Cardinality(active) < MaxConcurrent

(***************************************************************************)
(* should_cancel() returned FALSE.  From here to the next await the loop   *)
(* runs without a break: grant, or time out, or wait.                      *)
(***************************************************************************)
Admit(t) ==
  /\ pc[t] = "probing"
  /\ t \notin gone
  /\ Admissible(t)
  /\ waiting' = Tail(waiting)
  /\ active' = active \cup {t}
  /\ pc' = [pc EXCEPT ![t] = "running"]
  /\ lock' = NoTask
  /\ UNCHANGED <<cancelled, cancelling, expired, gone, service>>

(* Faulty variant: the waiter that timed out stays in the deque. *)
TimeOutStaysInLine(t) ==
  /\ pc[t] = "probing"
  /\ t \notin gone
  /\ ~ Admissible(t)
  /\ t \in expired
  /\ pc' = [NotifyAll(pc) EXCEPT ![t] = "timed_out"]
  /\ lock' = NoTask
  /\ UNCHANGED <<waiting, active, cancelled, cancelling, expired, gone, service>>

TimeOut(t) ==
  /\ pc[t] = "probing"
  /\ t \notin gone
  /\ ~ Admissible(t)
  /\ t \in expired
  /\ Refuse(t, waiting, "timed_out")
  /\ UNCHANGED <<active, cancelled, cancelling, expired, gone, service>>

Wait(t) ==
  /\ pc[t] = "probing"
  /\ t \notin gone
  /\ ~ Admissible(t)
  /\ t \notin expired
  /\ pc' = [pc EXCEPT ![t] = "waiting"]
  /\ lock' = NoTask
  /\ UNCHANGED <<waiting, active, cancelled, cancelling, expired, gone, service>>

(***************************************************************************)
(* is_disconnected() returned TRUE.  should_cancel() then calls            *)
(* StreamChatService.cancel.  If somebody has cancelled the task in the    *)
(* meantime, StreamTaskManager.cancel returns FALSE and that is all;       *)
(* otherwise StreamQueueLimiter.cancel goes for the lock that this very    *)
(* request holds.                                                          *)
(***************************************************************************)
DetectDisconnect(t) ==
  /\ pc[t] = "probing"
  /\ t \in gone
  /\ \/ /\ t \in cancelled
        /\ Refuse(t, waiting, "cancelled")
        /\ UNCHANGED <<cancelled, cancelling>>
     \/ /\ t \notin cancelled
        /\ cancelled' = cancelled \cup {t}
        /\ cancelling' = cancelling \cup {t}
        /\ pc' = [pc EXCEPT ![t] = "selfcancel"]
        /\ UNCHANGED <<lock, waiting>>
  /\ UNCHANGED <<active, expired, gone, service>>

-----------------------------------------------------------------------------
(* The rest of a request's life.                                           *)

(* Faulty variant: a cancelled stream returns without release. *)
FinishKeepsPermit(t) ==
  /\ pc[t] = "running"
  /\ pc' = [pc EXCEPT ![t] = IF t \in cancelled THEN "finished" ELSE "releasing"]
  /\ UNCHANGED <<lock, waiting, active, cancelled, cancelling, expired, gone, service>>

(* The stream ends, for whatever reason, and its finally block calls release. *)
Finish(t) ==
  /\ pc[t] = "running"
  /\ pc' = [pc EXCEPT ![t] = "releasing"]
  /\ UNCHANGED <<lock, waiting, active, cancelled, cancelling, expired, gone, service>>

(* release has the lock: the permit goes back and everybody is notified. *)
Release(t) ==
  /\ pc[t] = "releasing"
  /\ lock = NoTask
  /\ active' = active \ {t}
  /\ pc' = [NotifyAll(pc) EXCEPT ![t] = "finished"]
  /\ UNCHANGED <<lock, waiting, cancelled, cancelling, expired, gone, service>>

(* The deadline of a request passes while it is in acquire. *)
Expire(t) ==
  /\ pc[t] \in {"locking"} \cup LoopPc
  /\ t \notin expired
  /\ expired' = expired \cup {t}
  /\ UNCHANGED <<pc, lock, waiting, active, cancelled, cancelling, gone, service>>

Disconnect(t) ==
  /\ t \in Disconnecting
  /\ Registered(t)
  /\ t \notin gone
  /\ gone' = gone \cup {t}
  /\ UNCHANGED <<pc, lock, waiting, active, cancelled, cancelling, expired, service>>

(***************************************************************************)
(* CancelledError in the request's coroutine.  Outside the condition's     *)
(* own code the `async with` releases the lock if it is held, and nothing  *)
(* in _acquire_local takes the waiter off the deque.  condition.wait()     *)
(* takes the lock again before it lets the error through.  In release the  *)
(* error comes while the lock is awaited: the permit is not given back.    *)
(* An interrupted stream runs its finally block: that is Finish.           *)
(***************************************************************************)
Interrupt(t) ==
  /\ t \in Interruptible
  /\ \/ /\ pc[t] \in {"locking", "releasing"}
        /\ pc' = [pc EXCEPT ![t] = "aborted"]
        /\ UNCHANGED <<lock, cancelling>>
     \/ /\ pc[t] \in {"probing", "selfcancel"}
        /\ pc' = [pc EXCEPT ![t] = "aborted"]
        /\ lock' = NoTask
        /\ cancelling' = IF pc[t] = "selfcancel" THEN cancelling \ {t} ELSE cancelling
     \/ /\ pc[t] \in {"waiting", "relock"}
        /\ pc' = [pc EXCEPT ![t] = "unwinding"]
        /\ UNCHANGED <<lock, cancelling>>
  /\ UNCHANGED <<waiting, active, cancelled, expired, gone, service>>

(* condition.wait() has the lock again and raises; `async with` releases it. *)
Unwind(t) ==
  /\ pc[t] = "unwinding"
  /\ lock = NoTask
  /\ pc' = [pc EXCEPT ![t] = "aborted"]
  /\ UNCHANGED <<lock, waiting, active, cancelled, cancelling, expired, gone, service>>

(***************************************************************************)
(* A later stream under the same id, once nothing refers to the earlier    *)
(* one.  It stands for the unbounded supply of fresh task ids.             *)
(***************************************************************************)
Recycle(t) ==
  /\ t \in Reused
  /\ pc[t] \in EndPc
  /\ ~ Contains(waiting, t)
  /\ t \notin active \cup cancelling
  /\ pc' = [pc EXCEPT ![t] = "new"]
  /\ cancelled' = cancelled \ {t}
  /\ expired' = expired \ {t}
  /\ gone' = gone \ {t}
  /\ UNCHANGED <<lock, waiting, active, cancelling, service>>

-----------------------------------------------------------------------------
(* The other callers.                                                      *)

(* Faulty variant: the limiter is told before the task manager's flag is up. *)
CancelWithoutFlag(t) ==
  /\ Registered(t)
  /\ t \notin cancelled
  /\ cancelling' = cancelling \cup {t}
  /\ UNCHANGED <<pc, lock, waiting, active, cancelled, expired, gone, service>>

(***************************************************************************)
(* The cancellation endpoint: StreamTaskManager.cancel raises the flag of  *)
(* a registered task that is not cancelled yet, and only then does         *)
(* StreamChatService.cancel go on to the limiter.                          *)
(***************************************************************************)
Cancel(t) ==
  /\ Registered(t)
  /\ t \notin cancelled
  /\ cancelled' = cancelled \cup {t}
  /\ cancelling' = cancelling \cup {t}
  /\ UNCHANGED <<pc, lock, waiting, active, expired, gone, service>>

(***************************************************************************)
(* StreamQueueLimiter.cancel has the lock: off the deque, notify_all.  A   *)
(* request that called it from should_cancel() goes on and answers.        *)
(***************************************************************************)
CancelWaiter(t) ==
  /\ t \in cancelling
  /\ lock = NoTask
  /\ cancelling' = cancelling \ {t}
  /\ waiting' = Without(waiting, t)
  /\ pc' = [NotifyAll(pc) EXCEPT ![t] = IF @ = "selfcancel" THEN "cancelled" ELSE @]
  /\ UNCHANGED <<lock, active, cancelled, expired, gone, service>>

(* close(): the flag first, then the lock. *)
Close ==
  /\ service = "open"
  /\ service' = "closing"
  /\ UNCHANGED <<pc, lock, waiting, active, cancelled, cancelling, expired, gone>>

(* Faulty variant: close() notifies without waiting for the lock. *)
CloseNotifyUnlocked ==
  /\ service = "closing"
  /\ service' = "closed"
  /\ pc' = NotifyAll(pc)
  /\ UNCHANGED <<lock, waiting, active, cancelled, cancelling, expired, gone>>

(* Faulty variant: close() takes the permits back from running streams. *)
CloseNotifyRevokes ==
  /\ service = "closing"
  /\ lock = NoTask
  /\ service' = "closed"
  /\ pc' = NotifyAll(pc)
  /\ active' = {}
  /\ UNCHANGED <<lock, waiting, cancelled, cancelling, expired, gone>>

CloseNotify ==
  /\ service = "closing"
  /\ lock = NoTask
  /\ service' = "closed"
  /\ pc' = NotifyAll(pc)
  /\ UNCHANGED <<lock, waiting, active, cancelled, cancelling, expired, gone>>

-----------------------------------------------------------------------------

Next ==
  \/ \E t \in Task :
       \/ Arrive(t) \/ Enter(t) \/ Resume(t) \/ Poll(t)
       \/ Admit(t) \/ TimeOut(t) \/ Wait(t) \/ DetectDisconnect(t)
       \/ Finish(t) \/ Release(t) \/ Expire(t) \/ Disconnect(t)
       \/ Interrupt(t) \/ Unwind(t) \/ Recycle(t)
       \/ Cancel(t) \/ CancelWaiter(t)
  \/ Close
  \/ CloseNotify

Spec == Init /\ [][Next]_vars

(***************************************************************************)
(* Fairness.  The event loop runs every coroutine that can run (weak       *)
(* fairness); asyncio.Lock serves its waiters first in, first out, so a    *)
(* coroutine that awaits the lock again and again finds it free gets it    *)
(* (strong fairness); the poll timer and the deadline come (weak           *)
(* fairness).  Nothing is assumed of clients, of the callers of cancel and *)
(* close, or of how long an admitted stream runs.                          *)
(***************************************************************************)
LockStep(t) == Enter(t) \/ Resume(t) \/ Release(t) \/ Unwind(t)

ProbeStep(t) == Admit(t) \/ TimeOut(t) \/ Wait(t) \/ DetectDisconnect(t)

Fairness ==
  \A t \in Task :
    /\ SF_vars(LockStep(t))
    /\ WF_vars(ProbeStep(t))
    /\ WF_vars(Poll(t))
    /\ WF_vars(Expire(t))

FairSpec == Spec /\ Fairness

-----------------------------------------------------------------------------
(* Properties.                                                             *)

(* At most max_concurrent permits are out (`len(self._local_active) <      *)
(* self._max_concurrent`), whatever is cancelled, interrupted or closed.   *)
AdmissionBound == Cardinality(active) <= MaxConcurrent

(* Every stream that runs, or has yet to give its permit back, holds one:  *)
(* no cancellation, time-out or shutdown revokes the permit of a stream.   *)
StreamsHoldPermits == \A t \in Task : pc[t] \in StreamPc => t \in active

(* A permit is held by a stream that runs: none is lost with its stream.   *)
(* An interrupt that hits release before it has the lock loses one, so     *)
(* this is claimed of requests that are not interrupted.                   *)
NoLeakedPermit ==
  \A t \in active : t \notin Interruptible => pc[t] \in StreamPc

(* Whoever stands in the deque still runs the loop that can leave it.      *)
NoAbandonedWaiter ==
  \A t \in Task : Contains(waiting, t) => pc[t] \in LoopPc

(* NoAbandonedWaiter for the requests that are not interrupted.            *)
UninterruptedWaitersLive ==
  \A t \in Task \ Interruptible : Contains(waiting, t) => pc[t] \in LoopPc

(* A request in the loop stands in the deque until somebody has raised its *)
(* cancellation flag: StreamQueueLimiter.cancel never takes a request off  *)
(* the deque that the next round would not answer with CANCELLED, which    *)
(* would leave it waiting, never first, until its deadline.                *)
InLineUnlessCancelled ==
  \A t \in Task : pc[t] \in LoopPc /\ t \notin cancelled => Contains(waiting, t)

(* The lock is held exactly by the request that is between two awaits of   *)
(* its round of the loop; the code after should_cancel() relies on it.     *)
LockDiscipline ==
  \A t \in Task : pc[t] \in {"probing", "selfcancel"} <=> lock = t

(* Once close() has gone through the lock, no request is admitted and none *)
(* goes back to wait: _closing is read at the top of every later round.    *)
ClosedQueueDrains ==
  [][service = "closed" =>
       /\ active' \subseteq active
       /\ \A t \in Task : pc'[t] = "waiting" => pc[t] = "waiting"]_vars

(* Every request that calls acquire gets an answer, be it because of the   *)
(* deadline, even if no admitted stream ever ends.                         *)
EveryRequestAnswered ==
  \A t \in Task : (pc[t] \in {"locking"} \cup LoopPc) ~> (pc[t] \in StreamPc \cup EndPc)

(* A free permit and a waiting request do not stay side by side: polling   *)
(* makes up for the notifications a grant does not send.                   *)
FreePermitServed ==
  (waiting # <<>> /\ Cardinality(active) < MaxConcurrent)
     ~> (waiting = <<>> \/ Cardinality(active) >= MaxConcurrent)

(* "A queued task can still be cancelled immediately": a request in the    *)
(* queue whose cancellation flag is up gets out of acquire.                *)
CancellationAnswered ==
  \A t \in Task :
    (t \in cancelled /\ pc[t] \in {"locking"} \cup LoopPc)
       ~> (pc[t] \in StreamPc \cup EndPc)

(***************************************************************************)
(* The inductive invariant behind the safety properties.  Besides them it  *)
(* says where a request is that has not joined the deque yet, that the     *)
(* lock is free once close() has had it, and that whoever awaits the lock  *)
(* in StreamQueueLimiter.cancel has raised the flag before.                *)
(***************************************************************************)
NewcomersOutside ==
  \A t \in Task : pc[t] \in {"new", "locking"} => ~ Contains(waiting, t) /\ t \notin active

LockFreeWhenClosed == service = "closed" => lock = NoTask

FlagBeforeRemoval == cancelling \subseteq cancelled

IInv ==
  /\ TypeOK
  /\ IsFiniteSet(active)
  /\ AdmissionBound
  /\ StreamsHoldPermits
  /\ NoLeakedPermit
  /\ UninterruptedWaitersLive
  /\ InLineUnlessCancelled
  /\ LockDiscipline
  /\ LockFreeWhenClosed
  /\ NewcomersOutside
  /\ FlagBeforeRemoval

(* The limiter keeps the promise of Admission: permits in the order of the *)
(* deque, bounded, none after shutdown.                                    *)
Promise ==
  INSTANCE Admission WITH line <- waiting, permits <- active, open <- service # "closed"

ImplementsAdmission == Promise!AdmissionSpec

=============================================================================
