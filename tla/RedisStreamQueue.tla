--------------------------- MODULE RedisStreamQueue ---------------------------
(***************************************************************************)
(* StreamQueueLimiter in its Redis mode.  Several processes share a        *)
(* waiting line, an entry key with a TTL for each request in it, and a set *)
(* of permits with leases.  The two Lua scripts are atomic; everything     *)
(* else is one Redis command at a time, and between two commands           *)
(* requests, cancellations, shutdowns and crashes interleave.              *)
(*                                                                         *)
(* One action is a command (or script) as Redis runs it, together with the *)
(* code of the caller up to its next await.  A call that raises, or whose  *)
(* coroutine is cancelled, may have been run by Redis or not.              *)
(*                                                                         *)
(* The waiting ZSET is the set of its members with, for each, those of     *)
(* lower score: the script gives each new member the highest score yet.    *)
(* A permit is named by its request, because permit ids are fresh.  The    *)
(* wake-up tokens only shorten the poll interval and the claim lock only   *)
(* queues the claims of one process, so neither has a variable.            *)
(***************************************************************************)
EXTENDS Naturals, FiniteSets

CONSTANTS
  Task,            \* identities of stream requests
  Node,            \* processes
  Home,            \* the process of each request
  MaxConcurrent,   \* STREAM_QUEUE_MAX_CONCURRENT
  ScanLimit,       \* last index the claim script looks at for dead entries
  Mortal,          \* processes that may crash
  Stopping,        \* processes that may be shut down
  Unlucky,         \* requests whose Redis calls may raise
  Interruptible,   \* requests whose coroutine may be cancelled from outside
  Cancellable,     \* requests that somebody cancels
  Hasty,           \* requests whose deadline may pass before they are served
  Slow,            \* streams whose renewal may come after the end of the lease
  Deaf,            \* requests whose process may miss the broadcast of their cancellation
  Reused           \* ids under which a later request may come

ASSUME LimitAssumption == MaxConcurrent \in Nat \ {0} /\ ScanLimit \in Nat
ASSUME HomeAssumption == Home \in [Task -> Node]
ASSUME EnvironmentAssumption ==
  /\ Mortal \subseteq Node
  /\ Stopping \subseteq Node
  /\ Unlucky \subseteq Task
  /\ Interruptible \subseteq Task
  /\ Cancellable \subseteq Task
  /\ Hasty \subseteq Task
  /\ Slow \subseteq Task
  /\ Deaf \subseteq Task
  /\ Reused \subseteq Task

VARIABLES
  line,        \* Redis: the members of the waiting ZSET
  ahead,       \* Redis: for each member of the ZSET, those before it
  entries,     \* Redis: the requests whose entry key exists
  permits,     \* Redis: the permit ZSET
  lapsed,      \* Redis: the permits whose lease has ended
  pc,          \* where each request's coroutine stands
  expired,     \* requests whose deadline has passed
  cancelled,   \* requests whose process has raised their cancellation flag
  removing,    \* the next command of StreamQueueLimiter.cancel for a request, or "none"
  tracked,     \* _distributed_waiting of all processes together
  service,     \* the phase of each process
  clearing     \* the requests close() is removing, for each process

vars == <<line, ahead, entries, permits, lapsed, pc, expired, cancelled,
          removing, tracked, service, clearing>>

queue == <<line, ahead>>
leases == <<permits, lapsed>>
redis == <<line, ahead, entries, permits, lapsed>>
control == <<pc, expired, cancelled>>
others == <<removing, service, clearing>>

LoopPc == {"check", "claim"}

LeavePc == {"zrem", "del"}

(***************************************************************************)
(* new: not registered; enqueue, claim: the script is on its way; check:   *)
(* before the top of the loop, where it waits, but for the first time, for *)
(* a token or the poll interval; zrem, del: in                             *)
(* _remove_distributed_waiter; running: has a permit, up to the end of     *)
(* release; ended: answered, finished, interrupted or crashed, which       *)
(* nothing in Redis tells apart.                                           *)
(***************************************************************************)
Pc == {"new", "enqueue", "running", "ended"} \cup LoopPc \cup LeavePc

(* stopping: close() has done with the line but still has its client. *)
Phase == {"open", "clearing", "deleting", "stopping", "closed", "down"}

Open(t) == service[Home[t]] = "open"

(* The limiter of t's process still has its Redis client. *)
Connected(t) == service[Home[t]] \notin {"closed", "down"}

(* _distributed of t's process: StreamQueueLimiter.cancel goes to Redis. *)
Distributed(t) == service[Home[t]] \in {"open", "clearing", "deleting"}

Init ==
  /\ line = {}
  /\ ahead = [t \in Task |-> {}]
  /\ entries = {}
  /\ permits = {}
  /\ lapsed = {}
  /\ pc = [t \in Task |-> "new"]
  /\ expired = {}
  /\ cancelled = {}
  /\ removing = [t \in Task |-> "none"]
  /\ tracked = {}
  /\ service = [n \in Node |-> "open"]
  /\ clearing = [n \in Node |-> {}]

(* t goes on at place; its deadline and its flag go with the code that reads them. *)
Goto(t, place) ==
  /\ pc' = [pc EXCEPT ![t] = place]
  /\ expired' = IF place \in {"enqueue"} \cup LoopPc THEN expired ELSE expired \ {t}
  /\ cancelled' = IF place = "ended" THEN cancelled \ {t} ELSE cancelled

-----------------------------------------------------------------------------
(* The scripts and the keys.                                               *)

(* ZREM of the members of X. *)
TakeOut(X) ==
  /\ line' = line \ X
  /\ ahead' = [u \in Task |-> IF u \in X THEN {} ELSE ahead[u] \ X]

(* Faulty variant: the line is a list, and an id that still stands in it gets a second place. *)
EnqueueScriptSecondPlace(t) ==
  /\ entries' = entries \cup {t}
  /\ line' = line \cup {t}
  /\ ahead' = [ahead EXCEPT ![t] = line]
  /\ UNCHANGED leases

(* _ENQUEUE_SCRIPT for an id that has no entry key: the last place in the line. *)
EnqueueScript(t) ==
  /\ entries' = entries \cup {t}
  /\ line' = line \cup {t}
  /\ ahead' = [u \in Task |-> IF u = t THEN line \ {t} ELSE ahead[u] \ {t}]
  /\ UNCHANGED leases

(* Faulty variant: dead entries keep their places. *)
NoneDead == {}

(* What the claim script removes: those among the first of the line that have no entry key. *)
Dead == {u \in line \ entries : Cardinality(ahead[u]) <= ScanLimit}

(* Faulty variant: one place too many. *)
InWideWindow(t) ==
  /\ t \in line \ Dead
  /\ Cardinality(ahead[t] \ Dead) <= MaxConcurrent

(* The rank of t is below max_concurrent. *)
InWindow(t) ==
  /\ t \in line \ Dead
  /\ Cardinality(ahead[t] \ Dead) < MaxConcurrent

(* Faulty variant: one permit too many. *)
ClaimableOffByOne(t) ==
  /\ InWindow(t)
  /\ Cardinality(permits \ lapsed) <= MaxConcurrent

Claimable(t) ==
  /\ InWindow(t)
  /\ Cardinality(permits \ lapsed) < MaxConcurrent

(* _CLAIM_SCRIPT answers 1. *)
Grant(t) ==
  /\ Claimable(t)
  /\ TakeOut(Dead \cup {t})
  /\ entries' = entries \ {t}
  /\ permits' = (permits \ lapsed) \cup {t}
  /\ lapsed' = {}

(* _CLAIM_SCRIPT answers 0. *)
Deny(t) ==
  /\ ~ Claimable(t)
  /\ TakeOut(Dead)
  /\ permits' = permits \ lapsed
  /\ lapsed' = {}
  /\ UNCHANGED entries

(* The TTL of an entry key is longer than the wait of the request that set it. *)
EntryExpires(t) ==
  /\ t \in entries
  /\ t \in expired \/ pc[t] \notin LoopPc
  /\ entries' = entries \ {t}
  /\ UNCHANGED <<queue, permits, lapsed, control, tracked, others>>

(* A lease ends if nobody renews it, or not in time. *)
LeaseEnds(t) ==
  /\ t \in permits \ lapsed
  /\ pc[t] # "running" \/ t \in Slow
  /\ lapsed' = lapsed \cup {t}
  /\ UNCHANGED <<queue, entries, permits, control, tracked, others>>

-----------------------------------------------------------------------------
(* _acquire_distributed.                                                   *)

(* acquire, up to the call of the enqueue script. *)
Arrive(t) ==
  /\ pc[t] = "new"
  /\ service[Home[t]] # "down"
  /\ \/ /\ Open(t)
        /\ Goto(t, "enqueue")
        /\ tracked' = tracked \cup {t}
     \/ /\ ~ Open(t)
        /\ Goto(t, "ended")
        /\ UNCHANGED tracked
  /\ UNCHANGED <<redis, others>>

(* An entry key is left over if the client comes again under the id of a lost request. *)
Enqueue(t) ==
  /\ pc[t] = "enqueue"
  /\ \/ /\ t \notin entries
        /\ EnqueueScript(t)
        /\ Goto(t, "check")
        /\ UNCHANGED tracked
     \/ /\ t \in entries
        /\ Goto(t, "ended")
        /\ tracked' = tracked \ {t}
        /\ UNCHANGED redis
  /\ UNCHANGED others

(* The request takes itself off the line before it answers. *)
Leave(t) ==
  /\ tracked' = tracked \ {t}
  /\ Goto(t, IF Connected(t) THEN "zrem" ELSE "ended")

(* Faulty variant: a request that timed out just answers. *)
CheckForgets(t) ==
  /\ pc[t] = "check"
  /\ \/ /\ ~ Open(t) \/ t \in cancelled
        /\ Leave(t)
     \/ /\ Open(t) /\ t \notin cancelled /\ t \in expired
        /\ Goto(t, "ended")
        /\ tracked' = tracked \ {t}
     \/ /\ Open(t) /\ t \notin cancelled \cup expired
        /\ Goto(t, "claim")
        /\ UNCHANGED tracked
  /\ UNCHANGED <<redis, others>>

(***************************************************************************)
(* A round of the loop, up to the claim.  A disconnection that             *)
(* should_cancel() detects is a Cancel that the request itself calls.      *)
(***************************************************************************)
Check(t) ==
  /\ pc[t] = "check"
  /\ \/ /\ ~ Open(t) \/ t \in cancelled \cup expired
        /\ Leave(t)
     \/ /\ Open(t) /\ t \notin cancelled \cup expired
        /\ Goto(t, "claim")
        /\ UNCHANGED tracked
  /\ UNCHANGED <<redis, others>>

Claim(t) ==
  /\ pc[t] = "claim"
  /\ \/ /\ Grant(t)
        /\ Goto(t, "running")
        /\ tracked' = tracked \ {t}
     \/ /\ Deny(t)
        /\ Goto(t, "check")
        /\ UNCHANGED tracked
  /\ UNCHANGED others

(* _remove_distributed_waiter: two commands, whose errors are swallowed. *)
LeaveLine(t) ==
  /\ pc[t] = "zrem"
  /\ TakeOut({t})
  /\ Goto(t, "del")
  /\ UNCHANGED <<entries, leases, tracked, others>>

LeaveEntry(t) ==
  /\ pc[t] = "del"
  /\ entries' = entries \ {t}
  /\ Goto(t, "ended")
  /\ UNCHANGED <<queue, leases, tracked, others>>

-----------------------------------------------------------------------------
(* The stream that has been admitted.                                      *)

(* The stream ends and release gives the permit back; after close() it does nothing. *)
Release(t) ==
  /\ pc[t] = "running"
  /\ Goto(t, "ended")
  /\ \/ /\ Connected(t)
        /\ permits' = permits \ {t}
        /\ lapsed' = lapsed \ {t}
     \/ /\ ~ Connected(t)
        /\ UNCHANGED leases
  /\ UNCHANGED <<queue, entries, tracked, others>>

-----------------------------------------------------------------------------
(* Deadlines, cancellations, failures.                                     *)

Expire(t) ==
  /\ t \in Hasty
  /\ pc[t] \in {"enqueue"} \cup LoopPc
  /\ t \notin expired
  /\ expired' = expired \cup {t}
  /\ UNCHANGED <<redis, pc, cancelled, removing, tracked, service, clearing>>

(***************************************************************************)
(* StreamChatService.cancel, in any process.  The flag goes up in the      *)
(* request's own process unless that misses the broadcast; the limiter of  *)
(* the process that cancels, whose _distributed_waiting may have the       *)
(* request or not, then removes it from the line, unless it has closed.    *)
(***************************************************************************)
BeginRemoval(t) ==
  /\ removing[t] = "none"
  /\ removing' = [removing EXCEPT ![t] = "zrem"]
  /\ tracked' \in {tracked, tracked \ {t}}

Cancel(t) ==
  /\ t \in Cancellable
  /\ pc[t] \notin {"new", "ended"}
  /\ t \notin cancelled
  /\ \/ cancelled' = cancelled \cup {t}
     \/ t \in Deaf /\ UNCHANGED cancelled
  /\ \/ BeginRemoval(t)
     \/ ~ Distributed(t) /\ UNCHANGED <<removing, tracked>>
  /\ UNCHANGED <<redis, pc, expired, service, clearing>>

(***************************************************************************)
(* The lease task.  A permit that is still in the ZSET gets a new lease,   *)
(* be it that the old one has ended.  A stream whose permit is gone, whose *)
(* renewal raised, or whose limiter is closed, is cancelled.               *)
(***************************************************************************)
Renew(t) ==
  /\ pc[t] = "running"
  /\ \/ /\ Connected(t)
        /\ t \in permits
        /\ lapsed' = lapsed \ {t}
        /\ UNCHANGED <<cancelled, removing, tracked>>
     \/ /\ ~ Connected(t) \/ t \notin permits \/ t \in Unlucky
        /\ t \notin cancelled
        /\ cancelled' = cancelled \cup {t}
        /\ UNCHANGED lapsed
        /\ \/ Distributed(t) /\ BeginRemoval(t)
           \/ ~ Distributed(t) /\ UNCHANGED <<removing, tracked>>
  /\ UNCHANGED <<queue, entries, permits, pc, expired, service, clearing>>

(* Faulty variant: cancel frees the permit of an active stream as well. *)
RemoveLineAndPermit(t) ==
  /\ removing[t] = "zrem"
  /\ removing' = [removing EXCEPT ![t] = "del"]
  /\ TakeOut({t})
  /\ permits' = permits \ {t}
  /\ lapsed' = lapsed \ {t}
  /\ UNCHANGED <<entries, control, tracked, service, clearing>>

RemoveLine(t) ==
  /\ removing[t] = "zrem"
  /\ removing' = [removing EXCEPT ![t] = "del"]
  /\ TakeOut({t})
  /\ UNCHANGED <<entries, leases, control, tracked, service, clearing>>

RemoveEntry(t) ==
  /\ removing[t] = "del"
  /\ removing' = [removing EXCEPT ![t] = "none"]
  /\ entries' = entries \ {t}
  /\ UNCHANGED <<queue, leases, control, tracked, service, clearing>>

(* What Redis may have done for a call of t that ends badly. *)
Perhaps(t) ==
  \/ UNCHANGED redis
  \/ pc[t] = "enqueue" /\ t \notin entries /\ EnqueueScript(t)
  \/ pc[t] = "claim" /\ (Grant(t) \/ Deny(t))
  \/ pc[t] = "zrem" /\ TakeOut({t}) /\ UNCHANGED <<entries, leases>>
  \/ pc[t] = "del" /\ entries' = entries \ {t} /\ UNCHANGED <<queue, leases>>
  \/ /\ pc[t] = "running"
     /\ permits' = permits \ {t}
     /\ lapsed' = lapsed \ {t}
     /\ UNCHANGED <<queue, entries>>

(* A Redis call of a request raises. *)
CallFails(t) ==
  /\ t \in Unlucky \/ ~ Connected(t)
  /\ Perhaps(t)
  /\ \/ /\ pc[t] = "enqueue"
        /\ Goto(t, "ended")
        /\ tracked' = tracked \ {t}
     \/ /\ pc[t] = "claim"
        /\ Leave(t)
     \/ /\ pc[t] \in LeavePc
        /\ Goto(t, "ended")
        /\ UNCHANGED tracked
     \/ /\ pc[t] = "running"
        /\ Goto(t, "ended")
        /\ UNCHANGED tracked
  /\ UNCHANGED others

(* The call of a cancellation raises: the rest of the removal is left out. *)
RemovalFails(t) ==
  /\ t \in Unlucky \/ ~ Connected(t)
  /\ removing[t] # "none"
  /\ removing' = [removing EXCEPT ![t] = "none"]
  /\ UNCHANGED <<redis, control, tracked, service, clearing>>

(***************************************************************************)
(* CancelledError.  In the loop the request still leaves the line; while   *)
(* it enqueues it does not; while it leaves it starts again, or, if that   *)
(* was on account of an earlier CancelledError, stops.  In release the     *)
(* permit may stay.                                                        *)
(***************************************************************************)
Interrupt(t) ==
  /\ t \in Interruptible
  /\ Perhaps(t)
  /\ \/ /\ pc[t] \in LoopPc \cup LeavePc
        /\ Leave(t)
     \/ /\ pc[t] \in {"enqueue", "running"} \cup LeavePc
        /\ Goto(t, "ended")
        /\ UNCHANGED tracked
  /\ UNCHANGED others

-----------------------------------------------------------------------------
(* Processes.                                                              *)

(* close(): the flag goes up and the requests to remove are noted. *)
Close(n) ==
  /\ n \in Stopping
  /\ service[n] = "open"
  /\ LET waiting == {t \in tracked : Home[t] = n}
     IN  /\ service' = [service EXCEPT ![n] = IF waiting = {} THEN "stopping" ELSE "clearing"]
         /\ clearing' = [clearing EXCEPT ![n] = waiting]
         /\ tracked' = tracked \ waiting
  /\ UNCHANGED <<redis, control, removing>>

CloseLine(n) ==
  /\ service[n] = "clearing"
  /\ service' = [service EXCEPT ![n] = "deleting"]
  /\ TakeOut(clearing[n])
  /\ UNCHANGED <<entries, leases, control, removing, tracked, clearing>>

CloseEntries(n) ==
  /\ service[n] = "deleting"
  /\ service' = [service EXCEPT ![n] = "stopping"]
  /\ entries' = entries \ clearing[n]
  /\ clearing' = [clearing EXCEPT ![n] = {}]
  /\ UNCHANGED <<queue, leases, control, removing, tracked>>

(* The client is given up. *)
CloseClient(n) ==
  /\ service[n] = "stopping"
  /\ service' = [service EXCEPT ![n] = "closed"]
  /\ UNCHANGED <<redis, control, removing, tracked, clearing>>

(* All coroutines of the process are gone; Redis keeps what they had. *)
Crash(n) ==
  /\ n \in Mortal
  /\ service[n] # "down"
  /\ LET lost == {t \in Task : Home[t] = n /\ pc[t] # "new"}
     IN  /\ pc' = [t \in Task |-> IF t \in lost THEN "ended" ELSE pc[t]]
         /\ expired' = expired \ lost
         /\ cancelled' = cancelled \ lost
         /\ tracked' = tracked \ lost
  /\ service' = [service EXCEPT ![n] = "down"]
  /\ clearing' = [clearing EXCEPT ![n] = {}]
  /\ UNCHANGED <<redis, removing>>

Restart(n) ==
  /\ service[n] \in {"closed", "down"}
  /\ \A t \in Task : Home[t] = n => pc[t] \in {"new", "ended"}
  /\ service' = [service EXCEPT ![n] = "open"]
  /\ UNCHANGED <<redis, control, removing, tracked, clearing>>

(* A later request under the same id; what an earlier one lost may still be in Redis. *)
Recycle(t) ==
  /\ t \in Reused
  /\ pc[t] = "ended"
  /\ Open(t)
  /\ t \notin permits \cup tracked
  /\ removing[t] = "none"
  /\ Goto(t, "new")
  /\ UNCHANGED <<redis, tracked, others>>

-----------------------------------------------------------------------------

Next ==
  \/ \E t \in Task :
       \/ EntryExpires(t) \/ LeaseEnds(t)
       \/ Arrive(t) \/ Enqueue(t) \/ Check(t) \/ Claim(t)
       \/ LeaveLine(t) \/ LeaveEntry(t) \/ Release(t) \/ Renew(t)
       \/ Expire(t) \/ Cancel(t) \/ RemoveLine(t) \/ RemoveEntry(t)
       \/ CallFails(t) \/ RemovalFails(t) \/ Interrupt(t) \/ Recycle(t)
  \/ \E n \in Node :
       \/ Close(n) \/ CloseLine(n) \/ CloseEntries(n) \/ CloseClient(n)
       \/ Crash(n) \/ Restart(n)

Spec == Init /\ [][Next]_vars

(***************************************************************************)
(* Fairness.  Redis and the event loops go on (weak fairness of every      *)
(* command and of the poll timer), TTLs and leases end, streams end (the   *)
(* model clients have time-outs).  Deadlines are NOT assumed to come: the  *)
(* liveness claimed below must not hold because everybody gives up.        *)
(***************************************************************************)
Fairness ==
  /\ \A t \in Task :
       /\ WF_vars(Enqueue(t)) /\ WF_vars(Check(t)) /\ WF_vars(Claim(t))
       /\ WF_vars(LeaveLine(t)) /\ WF_vars(LeaveEntry(t))
       /\ WF_vars(RemoveLine(t)) /\ WF_vars(RemoveEntry(t))
       /\ WF_vars(EntryExpires(t)) /\ WF_vars(LeaseEnds(t)) /\ WF_vars(Release(t))
  /\ \A n \in Node : WF_vars(CloseLine(n)) /\ WF_vars(CloseEntries(n))

FairSpec == Spec /\ Fairness

-----------------------------------------------------------------------------
(* Properties.                                                             *)

(* The places of the ZSET: a strict total order of its members. *)
Ordered ==
  /\ \A t \in Task \ line : ahead[t] = {}
  /\ \A t \in line : t \notin ahead[t]
  /\ \A t, u \in line : t # u => (t \in ahead[u] <=> u \notin ahead[t])
  /\ \A t, u \in line : u \in ahead[t] => ahead[u] \subseteq ahead[t]

(* Every variable has its type, and the line is in order: an id that comes *)
(* back while an earlier request's place is still there has one place.     *)
TypeOK ==
  /\ line \subseteq Task
  /\ ahead \in [Task -> SUBSET line] /\ Ordered
  /\ entries \subseteq Task
  /\ permits \subseteq Task
  /\ lapsed \subseteq permits
  /\ pc \in [Task -> Pc]
  /\ expired \subseteq Task
  /\ cancelled \subseteq Task
  /\ removing \in [Task -> {"none"} \cup LeavePc]
  /\ tracked \subseteq Task
  /\ service \in [Node -> Phase]
  /\ clearing \in [Node -> SUBSET Task]

(* The permit ZSET never holds more than max_concurrent members, over all  *)
(* processes, crashes, lost replies and renewals of leases that had ended. *)
PermitsBounded == Cardinality(permits) <= MaxConcurrent

(* A stream whose lease is renewed in time has a live permit until it      *)
(* ends: no cancellation, sweep or shutdown of anybody gives it away.      *)
(* With PermitsBounded, at most max_concurrent such streams run.           *)
StreamsHoldLeases ==
  \A t \in Task \ Slow : pc[t] = "running" => t \in permits \ lapsed

(* A request whose Redis calls, process and coroutine did not fail has     *)
(* left nothing in Redis when it has answered, be it cancelled, timed out  *)
(* or finished, even while a cancellation of it is still under way.        *)
NothingLeftBehind ==
  \A t \in Task \ (Unlucky \cup Interruptible) :
    pc[t] = "ended" /\ Home[t] \notin Mortal \cup Stopping =>
      t \notin line \cup entries \cup permits

(* A permit is given to one of the first max_concurrent live requests of   *)
(* the line: fewer than that stand before it.                              *)
GrantsInWindow ==
  [][\A t \in permits' \ permits : Cardinality(ahead[t] \cap entries) < MaxConcurrent]_vars

(* Nobody waits for ever, whatever crashes, fails or shuts down before     *)
(* them in the line: the dead entries and the lost permits are recovered.  *)
(* Only a request that missed its own cancellation waits for its deadline. *)
EveryoneServed ==
  \A t \in Task \ Deaf : pc[t] \in LoopPc ~> pc[t] \notin LoopPc

(* The Redis mode keeps the promise of LeasedAdmission, whatever crashes,  *)
(* fails, is lost or shut down: one line in the order of joining, permits  *)
(* for the first max_concurrent that wait, and no permit twice.            *)
Shared == INSTANCE LeasedAdmission WITH alive <- entries

ImplementsLeasedAdmission == Shared!LeasedSpec

=============================================================================
