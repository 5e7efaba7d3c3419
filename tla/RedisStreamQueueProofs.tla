------------------------ MODULE RedisStreamQueueProofs ------------------------
(***************************************************************************)
(* The safety properties of RedisStreamQueue for every set of requests and *)
(* processes, every number of permits and every distribution of failures.  *)
(*                                                                         *)
(* The argument goes in three parts: what each command does to the line,   *)
(* what it does to the permits, and which coroutine may issue it.          *)
(***************************************************************************)
EXTENDS RedisStreamQueue, FiniteSetTheorems, TLAPS

(* The waiting ZSET is finite and in order. *)
QueueOK ==
  /\ line \subseteq Task /\ IsFiniteSet(line)
  /\ ahead \in [Task -> SUBSET line] /\ Ordered

(* The permit ZSET keeps the bound. *)
LeasesOK ==
  /\ permits \subseteq Task /\ IsFiniteSet(permits)
  /\ lapsed \subseteq permits
  /\ PermitsBounded

(* The coroutines and the processes. *)
ControlOK ==
  /\ pc \in [Task -> Pc]
  /\ expired \subseteq Task
  /\ cancelled \subseteq Task
  /\ removing \in [Task -> {"none"} \cup LeavePc]
  /\ tracked \subseteq Task
  /\ service \in [Node -> Phase]
  /\ clearing \in [Node -> SUBSET Task]

(* Nothing of what may go wrong goes wrong for t. *)
Reliable(t) == t \notin Unlucky \cup Interruptible /\ Home[t] \notin Mortal \cup Stopping

(* What such a request has in Redis, by where its coroutine stands. *)
TracesOf(t) ==
  /\ service[Home[t]] = "open"
  /\ pc[t] \in {"new", "enqueue", "running", "ended"} => t \notin line \cup entries
  /\ pc[t] = "del" => t \notin line
  /\ pc[t] # "running" => t \notin permits

Traces == \A t \in Task : Reliable(t) => TracesOf(t)

IInv ==
  /\ QueueOK
  /\ entries \subseteq Task
  /\ LeasesOK
  /\ ControlOK
  /\ StreamsHoldLeases
  /\ Traces

-----------------------------------------------------------------------------
(* The line.                                                               *)

(* What ZREM leaves is in order. *)
LEMMA TakeOutOrdered ==
  ASSUME QueueOK, NEW X, TakeOut(X)
  PROVE  QueueOK'
<1> USE DEF QueueOK, TakeOut
<1>1. line' \subseteq Task /\ line' \subseteq line
  OBVIOUS
<1>2. IsFiniteSet(line')
  BY <1>1, FS_Subset
<1>3. ahead' \in [Task -> SUBSET line']
  OBVIOUS
<1>4. Ordered'
  BY <1>1 DEF Ordered
<1>. QED BY <1>1, <1>2, <1>3, <1>4

(* The enqueue script puts its id last, wherever it stood. *)
LEMMA EnqueueOrdered ==
  ASSUME QueueOK, NEW t \in Task, EnqueueScript(t)
  PROVE  QueueOK'
<1> USE DEF QueueOK, EnqueueScript
<1>1. line' \subseteq Task
  OBVIOUS
<1>2. IsFiniteSet(line')
  BY FS_AddElement
<1>3. ahead' \in [Task -> SUBSET line']
  OBVIOUS
<1>4. Ordered'
  BY DEF Ordered
<1>. QED BY <1>1, <1>2, <1>3, <1>4

(* A step that leaves the ZSET alone leaves it in order. *)
LEMMA QueueUnchanged == QueueOK /\ UNCHANGED queue => QueueOK'
BY DEF QueueOK, Ordered, queue

-----------------------------------------------------------------------------
(* The permits.                                                            *)

(* Fewer permits keep the bound. *)
LEMMA FewerBounded ==
  ASSUME NEW S, IsFiniteSet(S), Cardinality(S) <= MaxConcurrent, NEW R \in SUBSET S
  PROVE  IsFiniteSet(R) /\ Cardinality(R) <= MaxConcurrent
<1>1. IsFiniteSet(R) /\ Cardinality(R) <= Cardinality(S)
  BY FS_Subset
<1>2. Cardinality(R) \in Nat /\ Cardinality(S) \in Nat
  BY <1>1, FS_CardinalityType
<1>. QED BY <1>1, <1>2, LimitAssumption

(* Permits that are swept, given back or renewed keep the bound. *)
LEMMA LeasesShrink ==
  ASSUME LeasesOK, permits' \subseteq permits, lapsed' \subseteq permits'
  PROVE  LeasesOK'
<1>1. IsFiniteSet(permits') /\ Cardinality(permits') <= MaxConcurrent
  BY FewerBounded DEF LeasesOK, PermitsBounded
<1>. QED BY <1>1 DEF LeasesOK, PermitsBounded

(* The claim script never exceeds the limit: it sweeps the ended leases and counts the rest. *)
LEMMA GrantBounded ==
  ASSUME LeasesOK, NEW t \in Task, Grant(t)
  PROVE  LeasesOK'
<1> DEFINE R == permits \ lapsed
<1>1. IsFiniteSet(R) /\ Cardinality(R) < MaxConcurrent
  BY FewerBounded DEF LeasesOK, PermitsBounded, Grant, Claimable
<1>2. Cardinality(R) \in Nat
  BY <1>1, FS_CardinalityType
<1>3. IsFiniteSet(R \cup {t})
  BY <1>1, FS_AddElement
<1>4. Cardinality(R \cup {t}) = Cardinality(R) \/ Cardinality(R \cup {t}) = Cardinality(R) + 1
  BY <1>1, FS_AddElement
<1>5. Cardinality(R \cup {t}) <= MaxConcurrent
  BY <1>1, <1>2, <1>4, LimitAssumption
<1>. QED BY <1>3, <1>5 DEF LeasesOK, PermitsBounded, Grant

-----------------------------------------------------------------------------
(* What a call that ends badly may have done is harmless.                  *)

RedisOK == QueueOK /\ entries \subseteq Task /\ LeasesOK

(* The enqueue script keeps what Redis holds in order. *)
LEMMA EnqueueScriptKeeps ==
  ASSUME RedisOK, NEW t \in Task, EnqueueScript(t)
  PROVE  RedisOK'
<1>1. QueueOK'
  BY EnqueueOrdered DEF RedisOK
<1>2. LeasesOK'
  BY LeasesShrink DEF RedisOK, LeasesOK, EnqueueScript, leases
<1>. QED BY <1>1, <1>2 DEF RedisOK, EnqueueScript

(* So does the claim script, whatever it answers. *)
LEMMA ClaimScriptKeeps ==
  ASSUME RedisOK, NEW t \in Task, Grant(t) \/ Deny(t)
  PROVE  RedisOK'
<1>1. CASE Grant(t)
  <2>1. QueueOK'
    BY <1>1, TakeOutOrdered DEF RedisOK, Grant
  <2>2. LeasesOK'
    BY <1>1, GrantBounded DEF RedisOK
  <2>. QED BY <1>1, <2>1, <2>2 DEF RedisOK, Grant
<1>2. CASE Deny(t)
  <2>1. QueueOK'
    BY <1>2, TakeOutOrdered DEF RedisOK, Deny
  <2>2. LeasesOK'
    BY <1>2, LeasesShrink DEF RedisOK, Deny
  <2>. QED BY <1>2, <2>1, <2>2 DEF RedisOK, Deny
<1>. QED BY <1>1, <1>2

(* So does a command that takes members out of the line. *)
LEMMA TakeOutKeeps ==
  ASSUME RedisOK, NEW X, TakeOut(X), UNCHANGED <<entries, leases>>
  PROVE  RedisOK'
<1>1. QueueOK'
  BY TakeOutOrdered DEF RedisOK
<1>2. LeasesOK'
  BY LeasesShrink DEF RedisOK, LeasesOK, leases
<1>. QED BY <1>1, <1>2 DEF RedisOK

(* So does any step that leaves the line alone and at most takes from the rest. *)
LEMMA FewerKeeps ==
  ASSUME RedisOK, UNCHANGED queue, entries' \subseteq entries,
         permits' \subseteq permits, lapsed' \subseteq permits'
  PROVE  RedisOK'
<1>1. QueueOK'
  BY QueueUnchanged DEF RedisOK
<1>2. LeasesOK'
  BY LeasesShrink DEF RedisOK
<1>. QED BY <1>1, <1>2 DEF RedisOK

(* Whether Redis has run the call or not. *)
LEMMA PerhapsKeeps ==
  ASSUME RedisOK, NEW t \in Task, Perhaps(t)
  PROVE  RedisOK'
<1>1. CASE UNCHANGED redis
  BY <1>1, FewerKeeps DEF RedisOK, LeasesOK, redis, queue
<1>2. CASE EnqueueScript(t)
  BY <1>2, EnqueueScriptKeeps
<1>3. CASE Grant(t) \/ Deny(t)
  BY <1>3, ClaimScriptKeeps
<1>4. CASE TakeOut({t}) /\ UNCHANGED <<entries, leases>>
  BY <1>4, TakeOutKeeps
<1>5. CASE entries' = entries \ {t} /\ UNCHANGED <<queue, leases>>
  BY <1>5, FewerKeeps DEF RedisOK, LeasesOK, leases
<1>6. CASE /\ permits' = permits \ {t}
           /\ lapsed' = lapsed \ {t}
           /\ UNCHANGED <<queue, entries>>
  BY <1>6, FewerKeeps DEF RedisOK, LeasesOK
<1>. QED BY <1>1, <1>2, <1>3, <1>4, <1>5, <1>6 DEF Perhaps

-----------------------------------------------------------------------------
(* Each part of the invariant in turn.                                     *)

(* The keys in Redis stay in order, whoever does what. *)
LEMMA NextKeepsRedis == RedisOK /\ [Next]_vars => RedisOK'
<1> SUFFICES ASSUME RedisOK, [Next]_vars PROVE RedisOK'
  OBVIOUS
<1> USE DEF redis, queue, leases
<1>0. CASE UNCHANGED redis
  BY <1>0, FewerKeeps DEF RedisOK, LeasesOK
<1>1. ASSUME NEW t \in Task, EntryExpires(t) PROVE RedisOK'
  BY <1>1, FewerKeeps DEF RedisOK, LeasesOK, EntryExpires
<1>2. ASSUME NEW t \in Task, LeaseEnds(t) PROVE RedisOK'
  BY <1>2, FewerKeeps DEF RedisOK, LeasesOK, LeaseEnds
<1>3. ASSUME NEW t \in Task, Enqueue(t) PROVE RedisOK'
  BY <1>0, <1>3, EnqueueScriptKeeps DEF Enqueue
<1>4. ASSUME NEW t \in Task, Claim(t) PROVE RedisOK'
  BY <1>4, ClaimScriptKeeps DEF Claim
<1>5. ASSUME NEW t \in Task, LeaveLine(t) \/ RemoveLine(t) PROVE RedisOK'
  BY <1>5, TakeOutKeeps DEF LeaveLine, RemoveLine
<1>6. ASSUME NEW t \in Task, LeaveEntry(t) \/ RemoveEntry(t) PROVE RedisOK'
  BY <1>6, FewerKeeps DEF RedisOK, LeasesOK, LeaveEntry, RemoveEntry
<1>7. ASSUME NEW t \in Task, Release(t) PROVE RedisOK'
  BY <1>7, FewerKeeps DEF RedisOK, LeasesOK, Release
<1>8. ASSUME NEW t \in Task, Renew(t) PROVE RedisOK'
  BY <1>8, FewerKeeps DEF RedisOK, LeasesOK, Renew
<1>9. ASSUME NEW t \in Task, CallFails(t) \/ Interrupt(t) PROVE RedisOK'
  BY <1>9, PerhapsKeeps DEF CallFails, Interrupt
<1>10. ASSUME NEW t \in Task,
              \/ Arrive(t) \/ Check(t) \/ Expire(t) \/ Cancel(t)
              \/ RemovalFails(t) \/ Recycle(t)
       PROVE  RedisOK'
  BY <1>0, <1>10 DEF Arrive, Check, Expire, Cancel, RemovalFails, Recycle
<1>11. ASSUME NEW n \in Node, CloseLine(n) PROVE RedisOK'
  BY <1>11, TakeOutKeeps DEF CloseLine
<1>12. ASSUME NEW n \in Node, CloseEntries(n) PROVE RedisOK'
  BY <1>12, FewerKeeps DEF RedisOK, LeasesOK, CloseEntries
<1>13. ASSUME NEW n \in Node, Close(n) \/ CloseClient(n) \/ Crash(n) \/ Restart(n)
       PROVE  RedisOK'
  BY <1>0, <1>13 DEF Close, CloseClient, Crash, Restart
<1>. QED
  BY <1>0, <1>1, <1>2, <1>3, <1>4, <1>5, <1>6, <1>7, <1>8, <1>9, <1>10, <1>11, <1>12, <1>13
     DEF Next, vars

(* Where a coroutine may stand, all at once. *)
LEMMA PcValues ==
  Pc = {"new", "enqueue", "running", "ended", "check", "claim", "zrem", "del"}
BY DEF Pc, LoopPc, LeavePc

(* A coroutine that goes on does so within its type. *)
LEMMA GotoTyped ==
  ASSUME ControlOK, NEW t \in Task, NEW place \in Pc, Goto(t, place)
  PROVE  /\ pc' \in [Task -> Pc]
         /\ expired' \subseteq Task
         /\ cancelled' \subseteq Task
         /\ pc'[t] = place
         /\ \A u \in Task \ {t} : pc'[u] = pc[u]
BY DEF ControlOK, Goto

(* Coroutines and processes keep their types. *)
LEMMA NextKeepsControl == ControlOK /\ [Next]_vars => ControlOK'
<1> SUFFICES ASSUME ControlOK, [Next]_vars PROVE ControlOK'
  OBVIOUS
<1> USE DEF control, others
<1>0. CASE UNCHANGED <<control, others, tracked>>
  BY <1>0 DEF ControlOK
<1>1. ASSUME NEW t \in Task, NEW place \in Pc, Goto(t, place),
             tracked' \in SUBSET Task, UNCHANGED others
      PROVE  ControlOK'
  BY <1>1, GotoTyped DEF ControlOK
<1>2. ASSUME NEW t \in Task, Arrive(t) PROVE ControlOK'
  BY <1>1, <1>2, PcValues DEF Arrive, ControlOK
<1>3. ASSUME NEW t \in Task, Enqueue(t) PROVE ControlOK'
  BY <1>1, <1>3, PcValues DEF Enqueue, ControlOK
<1>4. ASSUME NEW t \in Task, Leave(t), UNCHANGED others PROVE ControlOK'
  BY <1>1, <1>4, PcValues DEF Leave, ControlOK
<1>5. ASSUME NEW t \in Task, Check(t) PROVE ControlOK'
  BY <1>1, <1>4, <1>5, PcValues DEF Check, ControlOK
<1>6. ASSUME NEW t \in Task, Claim(t) PROVE ControlOK'
  BY <1>1, <1>6, PcValues DEF Claim, ControlOK
<1>7. ASSUME NEW t \in Task, LeaveLine(t) \/ LeaveEntry(t) \/ Release(t) \/ Recycle(t)
      PROVE  ControlOK'
  BY <1>1, <1>7, PcValues DEF LeaveLine, LeaveEntry, Release, Recycle, ControlOK
<1>8. ASSUME NEW t \in Task, CallFails(t) PROVE ControlOK'
  BY <1>1, <1>4, <1>8, PcValues DEF CallFails, ControlOK
<1>9. ASSUME NEW t \in Task, Interrupt(t) PROVE ControlOK'
  BY <1>1, <1>4, <1>9, PcValues DEF Interrupt, ControlOK
<1>10. ASSUME NEW t \in Task, Expire(t) PROVE ControlOK'
  BY <1>10 DEF Expire, ControlOK
<1>11. ASSUME NEW t \in Task, Cancel(t) PROVE ControlOK'
  BY <1>11 DEF Cancel, BeginRemoval, ControlOK, LeavePc
<1>12. ASSUME NEW t \in Task, Renew(t) PROVE ControlOK'
  BY <1>12 DEF Renew, BeginRemoval, ControlOK, LeavePc
<1>13. ASSUME NEW t \in Task, RemoveLine(t) \/ RemoveEntry(t) \/ RemovalFails(t)
       PROVE  ControlOK'
  BY <1>13 DEF RemoveLine, RemoveEntry, RemovalFails, ControlOK, LeavePc
<1>14. ASSUME NEW t \in Task, EntryExpires(t) \/ LeaseEnds(t) PROVE ControlOK'
  BY <1>0, <1>14 DEF EntryExpires, LeaseEnds
<1>15. ASSUME NEW n \in Node, Close(n) \/ CloseLine(n) \/ CloseEntries(n) \/ CloseClient(n)
       PROVE  ControlOK'
  BY <1>15 DEF Close, CloseLine, CloseEntries, CloseClient, ControlOK, Phase
<1>16. ASSUME NEW n \in Node, Crash(n) \/ Restart(n) PROVE ControlOK'
  BY <1>16, PcValues DEF Crash, Restart, ControlOK, Phase
<1>. QED
  BY <1>0, <1>2, <1>3, <1>5, <1>6, <1>7, <1>8, <1>9, <1>10, <1>11, <1>12, <1>13, <1>14,
     <1>15, <1>16 DEF Next, vars

(* A request that leaves moves to the clean-up, or has answered. *)
LEMMA LeaveMoves ==
  ASSUME ControlOK, NEW t \in Task, Leave(t)
  PROVE  /\ pc'[t] = IF Connected(t) THEN "zrem" ELSE "ended"
         /\ \A u \in Task \ {t} : pc'[u] = pc[u]
<1>1. (IF Connected(t) THEN "zrem" ELSE "ended") \in Pc
  BY PcValues
<1>. QED BY <1>1, GotoTyped DEF Leave

(* A call that ends badly takes away only the permit of a stream that releases it. *)
LEMMA PerhapsSpares ==
  ASSUME LeasesOK, NEW t \in Task, Perhaps(t), NEW u \in Task,
         u # t \/ pc[t] # "running", u \in permits \ lapsed
  PROVE  (u \in permits \ lapsed)'
BY DEF LeasesOK, Perhaps, EnqueueScript, Grant, Deny, redis, leases

(* Nobody takes the permit of a stream that renews its lease. *)
LEMMA NextKeepsLeases ==
  ASSUME LeasesOK, ControlOK, StreamsHoldLeases, [Next]_vars
  PROVE  StreamsHoldLeases'
<1> SUFFICES ASSUME NEW u \in Task \ Slow, pc'[u] = "running"
             PROVE  (u \in permits \ lapsed)'
  BY DEF StreamsHoldLeases
<1> USE DEF StreamsHoldLeases, redis, leases, control, others
<1>0. CASE UNCHANGED <<pc, leases>>
  BY <1>0
<1>1. ASSUME NEW t \in Task, EntryExpires(t) \/ RemoveLine(t) \/ RemoveEntry(t) \/ RemovalFails(t)
      PROVE  (u \in permits \ lapsed)'
  BY <1>0, <1>1 DEF EntryExpires, RemoveLine, RemoveEntry, RemovalFails
<1>2. ASSUME NEW t \in Task, LeaseEnds(t) PROVE (u \in permits \ lapsed)'
  BY <1>2 DEF LeaseEnds
<1>3. ASSUME NEW t \in Task, NEW place \in Pc \ {"running"}, Goto(t, place), UNCHANGED leases
      PROVE  (u \in permits \ lapsed)'
  BY <1>3, GotoTyped
<1>4. ASSUME NEW t \in Task, Arrive(t) \/ LeaveLine(t) \/ LeaveEntry(t) \/ Recycle(t)
      PROVE  (u \in permits \ lapsed)'
  BY <1>3, <1>4, PcValues DEF Arrive, LeaveLine, LeaveEntry, Recycle
<1>5. ASSUME NEW t \in Task, Enqueue(t) PROVE (u \in permits \ lapsed)'
  BY <1>3, <1>5, PcValues DEF Enqueue, EnqueueScript
<1>6. ASSUME NEW t \in Task, Check(t) PROVE (u \in permits \ lapsed)'
  BY <1>3, <1>6, PcValues DEF Check, Leave
<1>7. ASSUME NEW t \in Task, Claim(t) PROVE (u \in permits \ lapsed)'
  <2>1. CASE Grant(t) /\ Goto(t, "running")
    BY <2>1, GotoTyped, PcValues DEF Grant
  <2>2. CASE Deny(t) /\ Goto(t, "check")
    BY <2>2, GotoTyped, PcValues DEF Deny
  <2>. QED BY <1>7, <2>1, <2>2 DEF Claim
<1>8. ASSUME NEW t \in Task, Release(t) PROVE (u \in permits \ lapsed)'
  BY <1>8, GotoTyped, PcValues DEF Release
<1>9. ASSUME NEW t \in Task, Expire(t) \/ Cancel(t) PROVE (u \in permits \ lapsed)'
  BY <1>0, <1>9 DEF Expire, Cancel
<1>10. ASSUME NEW t \in Task, Renew(t) PROVE (u \in permits \ lapsed)'
  BY <1>10 DEF Renew
<1>11. ASSUME NEW t \in Task, NEW place \in Pc \ {"running"}, Goto(t, place), Perhaps(t)
       PROVE  (u \in permits \ lapsed)'
  <2>1. u # t /\ pc[u] = "running"
    BY <1>11, GotoTyped
  <2>. QED BY <1>11, <2>1, PerhapsSpares
<1>12. ASSUME NEW t \in Task, CallFails(t) \/ Interrupt(t) PROVE (u \in permits \ lapsed)'
  BY <1>11, <1>12, PcValues DEF CallFails, Interrupt, Leave
<1>13. ASSUME NEW n \in Node, Crash(n) PROVE (u \in permits \ lapsed)'
  BY <1>13 DEF Crash, ControlOK
<1>14. ASSUME NEW n \in Node,
              Close(n) \/ CloseLine(n) \/ CloseEntries(n) \/ CloseClient(n) \/ Restart(n)
       PROVE  (u \in permits \ lapsed)'
  BY <1>0, <1>14 DEF Close, CloseLine, CloseEntries, CloseClient, Restart
<1>. QED
  BY <1>0, <1>1, <1>2, <1>4, <1>5, <1>6, <1>7, <1>8, <1>9, <1>10, <1>12, <1>13, <1>14
     DEF Next, vars

(* The call of one request never gives another one anything. *)
LEMMA PerhapsIsOwn ==
  ASSUME RedisOK, NEW t \in Task, Perhaps(t), NEW u \in Task, u # t
  PROVE  /\ u \in line' => u \in line
         /\ u \in entries' => u \in entries
         /\ u \in permits' => u \in permits
BY DEF Perhaps, EnqueueScript, Grant, Deny, TakeOut, redis, leases, queue

(* Each request without failures removes what it has put into Redis. *)
LEMMA NextKeepsTraces ==
  ASSUME RedisOK, ControlOK, Traces, [Next]_vars
  PROVE  Traces'
<1> SUFFICES ASSUME NEW u \in Task, Reliable(u)
             PROVE  TracesOf(u)'
  BY DEF Traces, Reliable
<1>a. /\ TracesOf(u)
      /\ Home[u] \in Node \ (Mortal \cup Stopping)
      /\ Open(u) /\ Connected(u)
  BY HomeAssumption DEF Traces, TracesOf, Reliable, Open, Connected
<1> USE DEF redis, queue, leases, control, others
<1>0. CASE UNCHANGED <<redis, pc, service>>
  BY <1>0, <1>a DEF TracesOf
<1>1. ASSUME NEW t \in Task, EntryExpires(t) \/ LeaseEnds(t)
             \/ RemoveLine(t) \/ RemoveEntry(t) \/ Renew(t)
      PROVE  TracesOf(u)'
  BY <1>1, <1>a DEF TracesOf, EntryExpires, LeaseEnds, RemoveLine, RemoveEntry, Renew, TakeOut
<1>2. ASSUME NEW t \in Task, Expire(t) \/ Cancel(t) \/ RemovalFails(t) PROVE TracesOf(u)'
  BY <1>0, <1>2 DEF Expire, Cancel, RemovalFails
<1>3. ASSUME NEW t \in Task, t # u, NEW place \in Pc, Goto(t, place), Perhaps(t), UNCHANGED others
      PROVE  TracesOf(u)'
  <2>1. pc'[u] = pc[u]
    BY <1>3, GotoTyped
  <2>2. /\ u \in line' => u \in line
        /\ u \in entries' => u \in entries
        /\ u \in permits' => u \in permits
    BY <1>3, PerhapsIsOwn
  <2>. QED BY <1>3, <1>a, <2>1, <2>2 DEF TracesOf
<1>4. ASSUME NEW t \in Task, CallFails(t) \/ Interrupt(t) PROVE TracesOf(u)'
  <2>1. t # u
    BY <1>4, <1>a DEF CallFails, Interrupt, Reliable
  <2>2. \E place \in Pc : Goto(t, place)
    BY <1>4, PcValues DEF CallFails, Interrupt, Leave
  <2>. QED BY <1>3, <1>4, <2>1, <2>2 DEF CallFails, Interrupt
<1>5. ASSUME NEW t \in Task, Arrive(t) \/ Recycle(t) PROVE TracesOf(u)'
  <2>1. PICK place \in {"new", "enqueue", "ended"} :
          Goto(t, place) /\ pc[t] \in {"new", "ended"}
    BY <1>5 DEF Arrive, Recycle
  <2>2. UNCHANGED <<redis, service>>
    BY <1>5 DEF Arrive, Recycle
  <2>. QED BY <2>1, <2>2, <1>a, GotoTyped, PcValues DEF TracesOf
<1>6. ASSUME NEW t \in Task, Enqueue(t) PROVE TracesOf(u)'
  <2>1. CASE t # u
    BY <1>6, <2>1, <1>a, GotoTyped, PcValues DEF Enqueue, EnqueueScript, TracesOf
  <2>2. CASE t = u
    <3>1. t \notin entries /\ EnqueueScript(t) /\ Goto(t, "check") /\ UNCHANGED service
      BY <1>6, <2>2, <1>a DEF Enqueue, TracesOf
    <3>. QED BY <1>6, <2>2, <3>1, <1>a, GotoTyped, PcValues DEF Enqueue, EnqueueScript, TracesOf
  <2>. QED BY <2>1, <2>2
<1>7. ASSUME NEW t \in Task, Check(t) PROVE TracesOf(u)'
  <2>1. PICK place \in Pc : Goto(t, place) /\ (t = u => place \in {"zrem", "claim"})
    BY <1>7, <1>a, PcValues DEF Check, Leave
  <2>2. pc[t] = "check" /\ UNCHANGED <<redis, service>>
    BY <1>7 DEF Check
  <2>. QED BY <2>1, <2>2, <1>a, GotoTyped DEF TracesOf
<1>8. ASSUME NEW t \in Task, Claim(t) PROVE TracesOf(u)'
  <2>1. CASE Grant(t) /\ Goto(t, "running")
    BY <1>8, <2>1, <1>a, GotoTyped, PcValues DEF Claim, Grant, TakeOut, TracesOf
  <2>2. CASE Deny(t) /\ Goto(t, "check")
    BY <1>8, <2>2, <1>a, GotoTyped, PcValues DEF Claim, Deny, TakeOut, TracesOf
  <2>. QED BY <1>8, <2>1, <2>2 DEF Claim
<1>9. ASSUME NEW t \in Task, LeaveLine(t) PROVE TracesOf(u)'
  BY <1>9, <1>a, GotoTyped, PcValues DEF LeaveLine, TakeOut, TracesOf
<1>10. ASSUME NEW t \in Task, LeaveEntry(t) PROVE TracesOf(u)'
  BY <1>10, <1>a, GotoTyped, PcValues DEF LeaveEntry, TracesOf
<1>11. ASSUME NEW t \in Task, Release(t) PROVE TracesOf(u)'
  BY <1>11, <1>a, GotoTyped, PcValues DEF Release, TracesOf
<1>12. ASSUME NEW n \in Node, Close(n) \/ CloseLine(n) \/ CloseEntries(n) \/ CloseClient(n)
       PROVE  TracesOf(u)'
  <2>1. n # Home[u]
    BY <1>12, <1>a DEF Close, CloseLine, CloseEntries, CloseClient, TracesOf
  <2>. QED BY <1>12, <2>1, <1>a
           DEF Close, CloseLine, CloseEntries, CloseClient, TakeOut, TracesOf, ControlOK
<1>13. ASSUME NEW n \in Node, Crash(n) PROVE TracesOf(u)'
  BY <1>13, <1>a DEF Crash, TracesOf, ControlOK
<1>14. ASSUME NEW n \in Node, Restart(n) PROVE TracesOf(u)'
  BY <1>14, <1>a DEF Restart, TracesOf, ControlOK
<1>. QED
  BY <1>0, <1>1, <1>2, <1>4, <1>5, <1>6, <1>7, <1>8, <1>9, <1>10, <1>11, <1>12, <1>13, <1>14
     DEF Next, vars

-----------------------------------------------------------------------------
(* The invariant and what it gives.                                        *)

(* Redis starts empty. *)
LEMMA InitInvariant == Init => IInv
<1> SUFFICES ASSUME Init PROVE IInv
  OBVIOUS
<1> USE DEF Init
<1>1. QueueOK
  BY FS_EmptySet DEF QueueOK, Ordered
<1>2. LeasesOK
  BY FS_EmptySet, LimitAssumption DEF LeasesOK, PermitsBounded
<1>3. ControlOK
  BY PcValues DEF ControlOK, Phase
<1>4. StreamsHoldLeases
  BY DEF StreamsHoldLeases
<1>5. Traces
  BY HomeAssumption DEF Traces, TracesOf
<1>. QED BY <1>1, <1>2, <1>3, <1>4, <1>5 DEF IInv

(* Every step of the system preserves the invariant. *)
LEMMA NextInvariant == IInv /\ [Next]_vars => IInv'
<1> SUFFICES ASSUME IInv, [Next]_vars PROVE IInv'
  OBVIOUS
<1>1. RedisOK'
  BY NextKeepsRedis DEF IInv, RedisOK
<1>2. ControlOK'
  BY NextKeepsControl DEF IInv
<1>3. StreamsHoldLeases'
  BY NextKeepsLeases DEF IInv
<1>4. Traces'
  BY NextKeepsTraces DEF IInv, RedisOK
<1>. QED BY <1>1, <1>2, <1>3, <1>4 DEF IInv, RedisOK

(* The inductive invariant holds in every reachable state. *)
THEOREM Invariance == Spec => []IInv
<1>. QED BY InitInvariant, NextInvariant, PTL DEF Spec

(* Types and the order of the line: an id that comes back never stands in  *)
(* the waiting ZSET twice.                                                 *)
THEOREM TypeCorrect == Spec => []TypeOK
<1>1. IInv => TypeOK
  BY DEF IInv, TypeOK, QueueOK, LeasesOK, ControlOK
<1>. QED BY <1>1, Invariance, PTL

(* The permit ZSET never exceeds max_concurrent, over all processes, lost  *)
(* replies, crashes, late renewals and shutdowns.                          *)
THEOREM Bounded == Spec => []PermitsBounded
<1>1. IInv => PermitsBounded
  BY DEF IInv, LeasesOK
<1>. QED BY <1>1, Invariance, PTL

(* A stream that renews in time keeps a live permit until its release.     *)
THEOREM LeasesKept == Spec => []StreamsHoldLeases
<1>1. IInv => StreamsHoldLeases
  BY DEF IInv
<1>. QED BY <1>1, Invariance, PTL

(* A request without failures leaves no place, key or permit behind.       *)
THEOREM NothingStays == Spec => []NothingLeftBehind
<1>1. IInv => NothingLeftBehind
  BY DEF IInv, Traces, TracesOf, NothingLeftBehind, Reliable
<1>. QED BY <1>1, Invariance, PTL

(* The claim script serves one of the first max_concurrent live requests.  *)
LEMMA GrantFromWindow ==
  ASSUME QueueOK, NEW t \in Task, Grant(t)
  PROVE  \A u \in permits' \ permits : Cardinality(ahead[u] \cap entries) < MaxConcurrent
<1> DEFINE before == ahead[t] \ Dead
<1>1. ahead[t] \subseteq line
  BY DEF QueueOK
<1>2. IsFiniteSet(before) /\ Cardinality(before) < MaxConcurrent
  BY <1>1, FS_Subset DEF QueueOK, Grant, Claimable, InWindow
<1>3. ahead[t] \cap entries \subseteq before
  BY DEF Dead
<1>4. /\ IsFiniteSet(ahead[t] \cap entries)
      /\ Cardinality(ahead[t] \cap entries) <= Cardinality(before)
  BY <1>2, <1>3, FS_Subset
<1>5. Cardinality(ahead[t] \cap entries) \in Nat /\ Cardinality(before) \in Nat
  BY <1>2, <1>4, FS_CardinalityType
<1>6. Cardinality(ahead[t] \cap entries) < MaxConcurrent
  BY <1>2, <1>4, <1>5, LimitAssumption
<1>7. \A u \in permits' \ permits : u = t
  BY DEF Grant
<1>. QED BY <1>6, <1>7

(* Nothing but the claim script gives a permit. *)
LEMMA PermitsFromGrants ==
  ASSUME [Next]_vars
  PROVE  permits' \subseteq permits \/ \E t \in Task : Grant(t)
<1> USE DEF redis, queue, leases, others, control
<1>1. ASSUME NEW t \in Task, Perhaps(t)
      PROVE  permits' \subseteq permits \/ Grant(t)
  BY <1>1 DEF Perhaps, EnqueueScript, Deny
<1>2. ASSUME NEW t \in Task,
             \/ EntryExpires(t) \/ LeaseEnds(t) \/ Arrive(t) \/ Enqueue(t) \/ Check(t) \/ Claim(t)
             \/ LeaveLine(t) \/ LeaveEntry(t) \/ Release(t) \/ Renew(t)
      PROVE  permits' \subseteq permits \/ Grant(t)
  BY <1>2 DEF EntryExpires, LeaseEnds, Arrive, Enqueue, EnqueueScript, Check, Claim, Deny,
              LeaveLine, LeaveEntry, Release, Renew
<1>3. ASSUME NEW t \in Task,
             \/ Expire(t) \/ Cancel(t) \/ RemoveLine(t) \/ RemoveEntry(t)
             \/ CallFails(t) \/ RemovalFails(t) \/ Interrupt(t) \/ Recycle(t)
      PROVE  permits' \subseteq permits \/ Grant(t)
  BY <1>1, <1>3 DEF Expire, Cancel, RemoveLine, RemoveEntry, CallFails, RemovalFails, Interrupt, Recycle
<1>4. ASSUME NEW n \in Node,
             \/ Close(n) \/ CloseLine(n) \/ CloseEntries(n) \/ CloseClient(n)
             \/ Crash(n) \/ Restart(n)
      PROVE  permits' \subseteq permits
  BY <1>4 DEF Close, CloseLine, CloseEntries, CloseClient, Crash, Restart
<1>. QED BY <1>2, <1>3, <1>4 DEF Next, vars

(* Order within the window, whoever crashed or timed out before: the       *)
(* requests ahead of the one served and alive are fewer than the permits.  *)
THEOREM WindowKept == Spec => GrantsInWindow
<1> DEFINE InOrder == \A t \in permits' \ permits : Cardinality(ahead[t] \cap entries) < MaxConcurrent
<1>1. IInv /\ [Next]_vars => [InOrder]_vars
  BY GrantFromWindow, PermitsFromGrants DEF IInv
<1>. QED BY <1>1, Invariance, PTL DEF Spec, GrantsInWindow

-----------------------------------------------------------------------------
(* RedisStreamQueue implements LeasedAdmission.                            *)

(* A request that has not been served has no permit, so the claim script never gives it two. *)
Unserved ==
  \A t \in Task : pc[t] \in {"new", "enqueue"} \cup LoopPc => t \notin permits

(* The instance has its own copy of Cardinality. *)
LEMMA SharedCardinality == \A S : Shared!Cardinality(S) = Cardinality(S)
BY DEF Cardinality, Shared!Cardinality

(* Redis starts as LeasedAdmission does. *)
LEMMA InitShared == Init => Shared!LeasedInit /\ Unserved
BY DEF Init, Shared!LeasedInit, Unserved

(* Every step keeps the unserved without permits. *)
LEMMA NextKeepsUnserved == IInv /\ Unserved /\ [Next]_vars => Unserved'
<1> SUFFICES ASSUME IInv, Unserved, [Next]_vars,
                    NEW u \in Task, pc'[u] \in {"new", "enqueue"} \cup LoopPc
             PROVE  u \notin permits'
  BY DEF Unserved
<1> DEFINE Free == u \notin permits'
<1>a. ControlOK /\ RedisOK /\ lapsed \subseteq permits
  BY DEF IInv, RedisOK, LeasesOK
<1>b. pc[u] \in {"new", "enqueue"} \cup LoopPc => u \notin permits
  BY DEF Unserved
<1> USE DEF redis, queue, leases, control, others, LoopPc, LeavePc
<1>0. CASE pc' = pc /\ permits' \subseteq permits
  BY <1>0, <1>b
<1>1. ASSUME NEW t \in Task, NEW place \in Pc, Goto(t, place), permits' \subseteq permits,
             \/ place \in {"running", "zrem", "del", "ended"}
             \/ t \notin permits
      PROVE  Free
  BY <1>a, <1>b, <1>1, GotoTyped
<1>2. ASSUME NEW t \in Task, NEW place \in {"running", "zrem", "ended"}, Goto(t, place),
             Perhaps(t)
      PROVE  Free
  <2>1. u # t /\ pc'[u] = pc[u]
    BY <1>a, <1>2, GotoTyped, PcValues
  <2>. QED BY <1>a, <1>b, <1>2, <2>1, PerhapsIsOwn
<1>3. ASSUME NEW t \in Task, Arrive(t) \/ Check(t) PROVE Free
  <2>1. t \notin permits /\ permits' = permits
    BY <1>3 DEF Arrive, Check, Unserved
  <2>. QED BY <1>1, <1>3, <2>1, PcValues DEF Arrive, Check, Leave
<1>4. ASSUME NEW t \in Task, Enqueue(t) PROVE Free
  <2>1. t \notin permits /\ permits' = permits
    BY <1>4 DEF Enqueue, EnqueueScript, Unserved
  <2>. QED BY <1>1, <1>4, <2>1, PcValues DEF Enqueue
<1>5. ASSUME NEW t \in Task, Claim(t) PROVE Free
  <2>0. t \notin permits
    BY <1>5 DEF Claim, Unserved
  <2>1. CASE Grant(t) /\ Goto(t, "running")
    <3>1. u # t /\ pc'[u] = pc[u]
      BY <1>a, <2>1, GotoTyped, PcValues
    <3>. QED BY <1>b, <2>1, <3>1 DEF Grant
  <2>2. CASE Deny(t) /\ Goto(t, "check")
    BY <1>1, <2>0, <2>2, PcValues DEF Deny
  <2>. QED BY <1>5, <2>1, <2>2 DEF Claim
<1>6. ASSUME NEW t \in Task, LeaveLine(t) \/ LeaveEntry(t) \/ Release(t) PROVE Free
  BY <1>1, <1>6, PcValues DEF LeaveLine, LeaveEntry, Release
<1>7. ASSUME NEW t \in Task, Recycle(t) PROVE Free
  BY <1>1, <1>7, PcValues DEF Recycle
<1>8. ASSUME NEW t \in Task, CallFails(t) \/ Interrupt(t) PROVE Free
  BY <1>2, <1>8 DEF CallFails, Interrupt, Leave
<1>9. ASSUME NEW t \in Task,
             \/ EntryExpires(t) \/ LeaseEnds(t) \/ Renew(t) \/ Expire(t) \/ Cancel(t)
             \/ RemoveLine(t) \/ RemoveEntry(t) \/ RemovalFails(t)
      PROVE  Free
  BY <1>0, <1>9 DEF EntryExpires, LeaseEnds, Renew, Expire, Cancel, RemoveLine, RemoveEntry,
                    RemovalFails
<1>10. ASSUME NEW n \in Node, Crash(n) PROVE Free
  BY <1>a, <1>b, <1>10 DEF Crash
<1>11. ASSUME NEW n \in Node,
              Close(n) \/ CloseLine(n) \/ CloseEntries(n) \/ CloseClient(n) \/ Restart(n)
       PROVE  Free
  BY <1>0, <1>11 DEF Close, CloseLine, CloseEntries, CloseClient, Restart
<1>12. CASE UNCHANGED vars
  BY <1>0, <1>12 DEF vars
<1>. QED
  BY <1>3, <1>4, <1>5, <1>6, <1>7, <1>8, <1>9, <1>10, <1>11, <1>12 DEF Next

(* The claim script that serves a request is the grant, with the dead and the lapsed it clears. *)
LEMMA GrantShared ==
  ASSUME IInv, NEW t \in Task, t \notin permits, Grant(t)
  PROVE  Shared!Grant(t)
<1>1. Cardinality(ahead[t] \cap entries) < MaxConcurrent
  BY GrantFromWindow DEF IInv, Grant
<1>2. Dead \in SUBSET (line \ entries) /\ Shared!Vacate(Dead \cup {t}) /\ t \in line
  BY DEF Dead, Grant, Claimable, InWindow, TakeOut, Shared!Vacate
<1>. QED BY <1>1, <1>2, SharedCardinality DEF Grant, Claimable, Shared!Grant

(* The claim script that serves nobody sweeps. *)
LEMMA DenyShared ==
  ASSUME NEW t \in Task, Deny(t)
  PROVE  Shared!Sweep
<1>1. Dead \in SUBSET (line \ entries) /\ Shared!Vacate(Dead)
  BY DEF Dead, Deny, TakeOut, Shared!Vacate
<1>. QED BY <1>1 DEF Deny, Shared!Sweep

(* The enqueue script of an unserved request is the way to the last place. *)
LEMMA EnqueueShared ==
  ASSUME NEW t \in Task, t \notin entries \cup permits, EnqueueScript(t)
  PROVE  Shared!Join(t)
BY DEF EnqueueScript, Shared!Join, leases

(* ZREM vacates places, and leaves the entry keys to the next command. *)
LEMMA TakeOutShared ==
  ASSUME NEW X \in SUBSET Task, TakeOut(X), UNCHANGED <<entries, leases>>
  PROVE  Shared!Leave(X)
BY DEF TakeOut, leases, Shared!Leave, Shared!Vacate

(* Every step of the Redis mode is a step of LeasedAdmission or leaves it alone. *)
LEMMA StepShared == IInv /\ Unserved /\ [Next]_vars => [Shared!LeasedNext]_(Shared!leasedVars)
<1> SUFFICES ASSUME IInv, Unserved, [Next]_vars
             PROVE  Shared!LeasedNext \/ UNCHANGED Shared!leasedVars
  OBVIOUS
<1> DEFINE Refines == Shared!LeasedNext \/ UNCHANGED Shared!leasedVars
<1>a. ControlOK /\ lapsed \subseteq permits
  BY DEF IInv, LeasesOK
<1> USE DEF redis, queue, leases, control, others
<1>0. CASE UNCHANGED redis
  BY <1>0 DEF Shared!leasedVars
<1>1. ASSUME NEW t \in Task, \/ t \notin permits /\ (Grant(t) \/ Deny(t))
                             \/ t \notin entries \cup permits /\ EnqueueScript(t)
      PROVE  Refines
  BY <1>1, GrantShared, DenyShared, EnqueueShared DEF Shared!LeasedNext
<1>2. ASSUME NEW X \in SUBSET Task, TakeOut(X), UNCHANGED <<entries, leases>> PROVE Refines
  BY <1>2, TakeOutShared DEF Shared!LeasedNext
<1>3. ASSUME NEW X \in SUBSET Task, entries' = entries \ X, UNCHANGED <<queue, leases>>
      PROVE  Refines
  BY <1>3 DEF Shared!LeasedNext, Shared!Fade
<1>4. ASSUME NEW t \in Task, permits' = permits \ {t}, lapsed' = lapsed \ {t},
             UNCHANGED <<queue, entries>>
      PROVE  Refines
  <2>1. CASE t \in permits
    BY <1>4, <2>1 DEF Shared!LeasedNext, Shared!GiveBack
  <2>2. CASE t \notin permits
    BY <1>4, <2>2, <1>a DEF Shared!leasedVars
  <2>. QED BY <2>1, <2>2
<1>5. ASSUME NEW t \in Task, Perhaps(t) PROVE Refines
  <2>1. pc[t] \in {"enqueue", "claim"} => t \notin permits
    BY DEF Unserved, LoopPc
  <2>. QED BY <1>0, <1>1, <1>2, <1>3, <1>4, <1>5, <2>1 DEF Perhaps
<1>6. ASSUME NEW t \in Task, CallFails(t) \/ Interrupt(t) PROVE Refines
  BY <1>5, <1>6 DEF CallFails, Interrupt
<1>7. ASSUME NEW t \in Task, Enqueue(t) \/ Claim(t) PROVE Refines
  <2>1. t \notin permits
    BY <1>7 DEF Enqueue, Claim, Unserved, LoopPc
  <2>. QED BY <1>0, <1>1, <1>7, <2>1 DEF Enqueue, Claim
<1>8. ASSUME NEW t \in Task, LeaveLine(t) \/ RemoveLine(t) PROVE Refines
  BY <1>2, <1>8 DEF LeaveLine, RemoveLine
<1>9. ASSUME NEW t \in Task, EntryExpires(t) \/ LeaveEntry(t) \/ RemoveEntry(t) PROVE Refines
  BY <1>3, <1>9 DEF EntryExpires, LeaveEntry, RemoveEntry
<1>10. ASSUME NEW t \in Task, LeaseEnds(t) PROVE Refines
  BY <1>10 DEF LeaseEnds, Shared!LeasedNext, Shared!Lease
<1>11. ASSUME NEW t \in Task, Renew(t) PROVE Refines
  BY <1>11 DEF Renew, Shared!LeasedNext, Shared!Lease, Shared!leasedVars
<1>12. ASSUME NEW t \in Task, Release(t) PROVE Refines
  BY <1>0, <1>4, <1>12 DEF Release
<1>13. ASSUME NEW t \in Task,
              \/ Arrive(t) \/ Check(t) \/ Expire(t) \/ Cancel(t)
              \/ RemovalFails(t) \/ Recycle(t)
       PROVE  Refines
  BY <1>0, <1>13 DEF Arrive, Check, Expire, Cancel, RemovalFails, Recycle
<1>14. ASSUME NEW n \in Node, CloseLine(n) PROVE Refines
  BY <1>2, <1>14, <1>a DEF CloseLine, ControlOK
<1>15. ASSUME NEW n \in Node, CloseEntries(n) PROVE Refines
  BY <1>3, <1>15, <1>a DEF CloseEntries, ControlOK
<1>16. ASSUME NEW n \in Node, Close(n) \/ CloseClient(n) \/ Crash(n) \/ Restart(n)
       PROVE  Refines
  BY <1>0, <1>16 DEF Close, CloseClient, Crash, Restart
<1>. QED
  BY <1>0, <1>6, <1>7, <1>8, <1>9, <1>10, <1>11, <1>12, <1>13, <1>14, <1>15, <1>16
     DEF Next, vars

(* The Redis mode is a leased admission control: every command, of every   *)
(* process, request or cancellation, whether its reply arrives or not, is  *)
(* one step of it, and crashes and shutdowns of processes are none.        *)
THEOREM SharedRefinement == Spec => ImplementsLeasedAdmission
<1>1. IInv /\ Unserved /\ [Next]_vars =>
        Unserved' /\ [Shared!LeasedNext]_(Shared!leasedVars)
  BY NextKeepsUnserved, StepShared
<1>. QED BY <1>1, InitShared, Invariance, PTL
         DEF Spec, ImplementsLeasedAdmission, Shared!LeasedSpec

=============================================================================
