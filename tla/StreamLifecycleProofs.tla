------------------------- MODULE StreamLifecycleProofs -------------------------
(***************************************************************************)
(* The safety properties of StreamLifecycle for every set of streams and   *)
(* every capacity of the callback's queue.                                 *)
(*                                                                         *)
(* The argument follows one stream that the server does not interrupt:     *)
(* where its coroutine stands says what it holds (Stage), which of its     *)
(* jobs may still be at work (Jobs), and what has been told and saved      *)
(* (Outcome).  The steps of the other streams leave all of it alone.  Seen *)
(* as StreamContract sees it every step is then one of the contract.       *)
(***************************************************************************)
EXTENDS StreamLifecycle, TLAPS

(* Up to the answer of the admission control. *)
Before == {"new", "owner", "marker", "registered", "acquiring", "rejecting"}

(* With a permit, on the way to the answer or relaying it. *)
Held == {"granted", "preparing", "prepared", "starting", "relaying", "awaiting", "hangup",
         "broadcast", "saving"}

Leaving == {"interrupting", "hanging", "closing", "releasing"}

(* What the stream holds. *)
Stage(t) ==
  /\ pc[t] \in Before \cup Over => t \notin permits
  /\ pc[t] \in Held => t \in permits
  /\ pc[t] = "new" => entry[t] = "none"
  /\ pc[t] \in Over => entry[t] # "live"
  /\ pc[t] \notin Over \cup {"new"} => entry[t] # "none"
  /\ pc[t] \in Before => t \notin heard
  /\ pc[t] \in {"interrupting", "hanging"} => Flagged(t) /\ t \in permits

(* The last event of the model is among those that wait. *)
Stopped(t) == \E i \in 1 .. Len(events[t]) : events[t][i] \in {"complete", "error"}

(* What works for it. *)
Jobs(t) ==
  /\ pc[t] \in Before \cup {"granted"} => prep[t] = "none"
  /\ pc[t] \in Before \cup {"granted", "preparing", "prepared"} => start[t] = "none"
  /\ prep[t] = "running" => pc[t] = "preparing"
  /\ start[t] = "running" => pc[t] = "starting"
  /\ start[t] \in {"none", "failed"} => model[t] = "none"
  /\ start[t] = "cancelled" => model[t] # "running"
  /\ model[t] = "running" => pc[t] = "starting" \/ t \in bound
  /\ t \in bound => start[t] = "ready"
  /\ t \notin Tardy /\ pc[t] \in Leaving \cup Over \cup {"saving"} => model[t] # "running"
  /\ Flagged(t) => prep[t] # "running" /\ start[t] # "running" /\ (t \in bound => model[t] # "running")
  /\ t \in overflowed \cap bound => model[t] # "running"
  /\ t \notin Tardy /\ Stopped(t) => model[t] \notin {"none", "running"}

(* What has been told and saved. *)
Outcome(t) ==
  /\ pc[t] \in Before \cup Held \cup {"interrupting", "hanging"} => told[t] = <<>> /\ saved[t] = <<>>
  /\ \/ saved[t] = <<>> /\ told[t] \in {<<>>, <<"reject">>, <<"error">>, <<"cancel">>}
     \/ saved[t] = <<"full">> /\ told[t] = <<"finish">>
     \/ saved[t] = <<"rejection">> /\ told[t] = <<"reject">>
     \/ saved[t] = <<"part">> /\ told[t] \in {<<>>, <<"cancel">>}

IInv == TypeOK /\ \A t \in Task \ Interruptible : Stage(t) /\ Jobs(t) /\ Outcome(t)

-----------------------------------------------------------------------------

(* The invariant holds at first. *)
LEMMA InitInv == Init => IInv
<1> SUFFICES ASSUME Init PROVE IInv
  OBVIOUS
<1> USE DEF Init
<1>1. TypeOK
  BY CapacityAssumption, TroubleAssumption DEF TypeOK, Pc, Job, AwaitPc, YieldPc, FinalPc
<1>2. ASSUME NEW t \in Task PROVE Stage(t) /\ Jobs(t) /\ Outcome(t)
  BY DEF Stage, Jobs, Outcome, Before, Held, Over, Leaving, Flagged, Stopped
<1>. QED BY <1>1, <1>2 DEF IInv

(* What may go wrong is chosen once. *)
LEMMA ProneStays ==
  [Next]_vars => prone' = prone /\ Interruptible' = Interruptible /\ Tardy' = Tardy /\ Regular' = Regular
<1>1. [Next]_vars => prone' = prone
  <2> USE DEF cancelling
  <2>1. UNCHANGED vars => prone' = prone
    BY DEF vars
  <2>2. ASSUME NEW t \in Task, StreamStep(t) PROVE prone' = prone
    BY <2>2 DEF StreamStep, RegisterOwner, ReadMarker, Begin, Acquire, Reject, Prepare, AwaitPreparation,
       StartModel, AwaitStart, Loop, NextEvent, HangUpMark, HangUp, Save, SavePart, Leave, Release,
       ClearMarker, ClearOwner
  <2>3. ASSUME NEW t \in Task,
               \/ Register(t) \/ Forget(t) \/ PreparationEnds(t) \/ Speak(t) \/ ModelEnds(t) \/ Relapse(t)
               \/ StartEnds(t) \/ Ask(t) \/ Mark(t) \/ Publish(t) \/ Listen(t) \/ Interrupt(t)
        PROVE  prone' = prone
    BY <2>3 DEF Register, Forget, PreparationEnds, Speak, ModelEnds, Relapse, StartEnds, Ask, Mark,
       Publish, Listen, Interrupt
  <2>. QED BY <2>1, <2>2, <2>3 DEF Next
<1>. QED BY <1>1 DEF Interruptible, Tardy, Regular

-----------------------------------------------------------------------------
(* How a stream ends.                                                      *)

(* Whoever ends u leaves the others alone and keeps the types. *)
Ends(u) ==
  /\ told' \in [Task -> Seq(Ending)] /\ pc' \in [Task -> Pc]
  /\ \A v \in Task : v # u => told'[v] = told[v] /\ pc'[v] = pc[v]

(* The terminal event. *)
LEMMA TellFacts ==
  ASSUME TypeOK, NEW u \in Task, NEW how \in Ending, Tell(u, how)
  PROVE  Ends(u) /\ pc'[u] = "closing" /\ (told[u] = <<>> => told'[u] = <<how>>)
<1>1. told \in [Task -> Seq(Ending)] /\ pc \in [Task -> Pc] /\ "closing" \in Pc
  BY DEF TypeOK, Pc, FinalPc
<1>2. Append(told[u], how) \in Seq(Ending)
  BY <1>1
<1>3. told' = [told EXCEPT ![u] = Append(told[u], how)] /\ pc' = [pc EXCEPT ![u] = "closing"]
  BY DEF Tell, Goto
<1>4. told[u] = <<>> => Append(told[u], how) = <<how>>
  OBVIOUS
<1>. QED BY <1>1, <1>2, <1>3, <1>4 DEF Ends

(* The end of a cancelled stream, at once or after saving. *)
LEMMA EndCancelledFacts ==
  ASSUME TypeOK, NEW u \in Task, EndCancelled(u)
  PROVE  /\ Ends(u)
         /\ told[u] = <<>> => \/ pc'[u] = "interrupting" /\ told'[u] = <<>>
                              \/ pc'[u] = "closing" /\ told'[u] = <<"cancel">>
<1>1. CASE Tell(u, "cancel")
  BY <1>1, TellFacts DEF Ending
<1>2. CASE Goto(u, "interrupting") /\ UNCHANGED told
  BY <1>2 DEF Goto, TypeOK, Ends, Pc, AwaitPc
<1>. QED BY <1>1, <1>2 DEF EndCancelled

(* The end of a stream that fails. *)
LEMMA EndFailedFacts ==
  ASSUME TypeOK, NEW u \in Task, EndFailed(u)
  PROVE  /\ Ends(u)
         /\ told[u] = <<>> => \/ pc'[u] = "interrupting" /\ told'[u] = <<>>
                              \/ pc'[u] = "closing" /\ told'[u] \in {<<"cancel">>, <<"error">>}
<1>1. CASE Tell(u, "error")
  BY <1>1, TellFacts DEF Ending
<1>2. CASE EndCancelled(u)
  BY <1>2, EndCancelledFacts
<1>. QED BY <1>1, <1>2 DEF EndFailed

(* What is saved. *)
LEMMA SaveFacts ==
  ASSUME TypeOK, NEW u \in Task, NEW kind \in {"full", "part", "rejection"},
         saved' = [saved EXCEPT ![u] = Append(@, kind)]
  PROVE  /\ saved' \in [Task -> Seq({"full", "part", "rejection"})]
         /\ \A v \in Task : v # u => saved'[v] = saved[v]
         /\ saved[u] = <<>> => saved'[u] = <<kind>>
<1>1. saved \in [Task -> Seq({"full", "part", "rejection"})]
  BY DEF TypeOK
<1>2. Append(saved[u], kind) \in Seq({"full", "part", "rejection"})
  BY <1>1
<1>3. saved[u] = <<>> => Append(saved[u], kind) = <<kind>>
  OBVIOUS
<1>. QED BY <1>1, <1>2, <1>3

(* What _push does to the queue. *)
LEMMA PushFacts ==
  ASSUME TypeOK, NEW u \in Task, NEW event \in {"thinking", "content", "complete", "error"}, Push(u, event)
  PROVE  /\ events' \in [Task -> Seq({"thinking", "content", "complete", "error"})]
         /\ \A v \in Task : Len(events'[v]) <= Capacity
         /\ overflowed' \subseteq Task /\ overflowed' \ {u} = overflowed \ {u} /\ overflowed \subseteq overflowed'
         /\ \A v \in Task : v # u => events'[v] = events[v]
         /\ Stopped(u)' => Stopped(u) \/ event \in {"complete", "error"}
<1>1. events \in [Task -> Seq({"thinking", "content", "complete", "error"})] /\ Len(events[u]) \in Nat
  BY DEF TypeOK
<1>2. CASE UNCHANGED events
  BY <1>2 DEF TypeOK, Push, queue, Stopped
<1>3. CASE /\ events' = [events EXCEPT ![u] = Append(@, event)]
           /\ Len(events[u]) < Capacity
           /\ UNCHANGED overflowed
  <2>1. /\ Append(events[u], event) \in Seq({"thinking", "content", "complete", "error"})
        /\ Len(Append(events[u], event)) = Len(events[u]) + 1
    BY <1>1
  <2>2. events'[u] = Append(events[u], event) /\ \A v \in Task : v # u => events'[v] = events[v]
    BY <1>1, <1>3
  <2>3. \A i \in 1 .. Len(events[u]) + 1 :
           Append(events[u], event)[i] = IF i = Len(events[u]) + 1 THEN event ELSE events[u][i]
    BY <1>1
  <2>4. Stopped(u)' => Stopped(u) \/ event \in {"complete", "error"}
    <3>1. SUFFICES ASSUME NEW i \in 1 .. Len(events[u]) + 1, Append(events[u], event)[i] \in {"complete", "error"},
                          event \notin {"complete", "error"}
                   PROVE  \E j \in 1 .. Len(events[u]) : events[u][j] \in {"complete", "error"}
      BY <2>1, <2>2 DEF Stopped
    <3>2. i # Len(events[u]) + 1
      BY <2>3, <3>1
    <3>3. i \in 1 .. Len(events[u])
      BY <1>1, <3>2
    <3>. QED BY <2>3, <3>1, <3>2, <3>3
  <2>5. \A v \in Task : Len(events'[v]) <= Capacity
    BY <1>1, <1>3, <2>1, <2>2, CapacityAssumption DEF TypeOK
  <2>6. events' \in [Task -> Seq({"thinking", "content", "complete", "error"})]
    BY <1>1, <1>3, <2>1
  <2>. QED BY <1>3, <2>2, <2>4, <2>5, <2>6 DEF TypeOK
<1>. QED BY <1>2, <1>3 DEF Push, queue

(* What the stream takes from the queue. *)
LEMMA TakeFacts ==
  ASSUME TypeOK, NEW u \in Task, events[u] # <<>>, events' = [events EXCEPT ![u] = Tail(@)]
  PROVE  /\ events' \in [Task -> Seq({"thinking", "content", "complete", "error"})]
         /\ \A v \in Task : Len(events'[v]) <= Capacity
         /\ \A v \in Task : v # u => events'[v] = events[v]
         /\ Head(events[u]) \in {"thinking", "content", "complete", "error"}
         /\ Head(events[u]) \in {"complete", "error"} => Stopped(u)
         /\ Stopped(u)' => Stopped(u)
<1>1. events \in [Task -> Seq({"thinking", "content", "complete", "error"})] /\ events[u] # <<>>
  BY DEF TypeOK
<1>2. /\ Tail(events[u]) \in Seq({"thinking", "content", "complete", "error"})
      /\ Head(events[u]) \in {"thinking", "content", "complete", "error"}
      /\ Len(Tail(events[u])) = Len(events[u]) - 1
      /\ Len(events[u]) \in Nat \ {0}
      /\ Head(events[u]) = events[u][1]
  BY <1>1
<1>3. events'[u] = Tail(events[u]) /\ \A v \in Task : v # u => events'[v] = events[v]
  BY <1>1
<1>4. \A i \in 1 .. Len(events[u]) - 1 : Tail(events[u])[i] = events[u][i + 1]
  BY <1>1
<1>5. Stopped(u)' => Stopped(u)
  <2>1. SUFFICES ASSUME NEW i \in 1 .. Len(events[u]) - 1, Tail(events[u])[i] \in {"complete", "error"}
                 PROVE  \E j \in 1 .. Len(events[u]) : events[u][j] \in {"complete", "error"}
    BY <1>2, <1>3 DEF Stopped
  <2>2. i + 1 \in 1 .. Len(events[u])
    BY <1>2
  <2>. QED BY <1>4, <2>1, <2>2
<1>6. Head(events[u]) \in {"complete", "error"} => Stopped(u)
  <2>1. 1 \in 1 .. Len(events[u])
    BY <1>2
  <2>. QED BY <1>2, <2>1 DEF Stopped
<1>7. \A v \in Task : Len(events'[v]) <= Capacity
  BY <1>2, <1>3, CapacityAssumption DEF TypeOK
<1>8. events' \in [Task -> Seq({"thinking", "content", "complete", "error"})]
  BY <1>1, <1>2
<1>. QED BY <1>2, <1>3, <1>5, <1>6, <1>7, <1>8

(* The terminal events. *)
LEMMA EndingKinds == "reject" \in Ending /\ "error" \in Ending /\ "cancel" \in Ending /\ "finish" \in Ending
BY DEF Ending

(* One element, or none. *)
LEMMA LengthOfOne == Len(<<>>) = 0 /\ (\A x : Len(<<x>>) = 1 /\ <<x>> # <<>>)
OBVIOUS

(* What an interrupted stream may have saved. *)
LEMMA SavingKinds == \A p \in DOMAIN Saving : Saving[p] \in {"full", "part", "rejection"}
BY DEF Saving

(* register() refuses the stream. *)
LEMMA RefuseFacts ==
  ASSUME TypeOK, NEW u \in Task, told' = [told EXCEPT ![u] = Append(@, "error")]
  PROVE  /\ told' \in [Task -> Seq(Ending)]
         /\ \A v \in Task : v # u => told'[v] = told[v]
         /\ told[u] = <<>> => told'[u] = <<"error">>
<1>1. told \in [Task -> Seq(Ending)] /\ Append(told[u], "error") \in Seq(Ending)
  BY EndingKinds DEF TypeOK
<1>2. told[u] = <<>> => Append(told[u], "error") = <<"error">>
  OBVIOUS
<1>. QED BY <1>1, <1>2

-----------------------------------------------------------------------------
(* The invariant is inductive.                                             *)

(* A step keeps the types. *)
LEMMA TypeStep ==
  ASSUME TypeOK, [Next]_vars
  PROVE  TypeOK'
<1> USE DEF TypeOK, Pc, Job, AwaitPc, YieldPc, FinalPc, Trouble,
           Goto, Cancelled, Flagged, work, queue, outcome, redis, cancelling
<1>1. CASE UNCHANGED vars
  BY <1>1 DEF vars
<1>2. ASSUME NEW u \in Task, Register(u) PROVE TypeOK'
  <2>1. told' \in [Task -> Seq(Ending)] /\ pc' \in [Task -> Pc]
    BY <1>2, RefuseFacts DEF Register, Ends
  <2>. QED BY <1>2, <2>1 DEF Register
<1>3. ASSUME NEW u \in Task, RegisterOwner(u) PROVE TypeOK'
  <2>1. told' \in [Task -> Seq(Ending)] /\ pc' \in [Task -> Pc]
    BY <1>3, RefuseFacts DEF RegisterOwner, Ends
  <2>. QED BY <1>3, <2>1 DEF RegisterOwner
<1>4. ASSUME NEW u \in Task, ReadMarker(u) PROVE TypeOK'
  BY <1>4 DEF ReadMarker, CancelLocal, CancelHandle
<1>5. ASSUME NEW u \in Task, Begin(u) PROVE TypeOK'
  <2>1. told' \in [Task -> Seq(Ending)] /\ pc' \in [Task -> Pc]
    BY <1>5, EndCancelledFacts DEF Begin, Ends
  <2>. QED BY <1>5, <2>1 DEF Begin
<1>6. ASSUME NEW u \in Task, Acquire(u) PROVE TypeOK'
  <2>1. told' \in [Task -> Seq(Ending)] /\ pc' \in [Task -> Pc]
    BY <1>6, EndingKinds, TellFacts, EndCancelledFacts DEF Acquire, Ends
  <2>. QED BY <1>6, <2>1 DEF Acquire
<1>7. ASSUME NEW u \in Task, Reject(u) PROVE TypeOK'
  <2>1. told' \in [Task -> Seq(Ending)] /\ pc' \in [Task -> Pc]
    BY <1>7, EndingKinds, TellFacts DEF Reject, Ends
  <2>2. saved' \in [Task -> Seq({"full", "part", "rejection"})]
    BY <1>7, SaveFacts DEF Reject
  <2>. QED BY <1>7, <2>1, <2>2 DEF Reject
<1>8. ASSUME NEW u \in Task, Prepare(u) PROVE TypeOK'
  <2>1. told' \in [Task -> Seq(Ending)] /\ pc' \in [Task -> Pc]
    BY <1>8, EndCancelledFacts DEF Prepare, Ends
  <2>. QED BY <1>8, <2>1 DEF Prepare
<1>9. ASSUME NEW u \in Task, AwaitPreparation(u) PROVE TypeOK'
  <2>1. told' \in [Task -> Seq(Ending)] /\ pc' \in [Task -> Pc]
    BY <1>9, EndCancelledFacts, EndFailedFacts DEF AwaitPreparation, Ends
  <2>. QED BY <1>9, <2>1 DEF AwaitPreparation
<1>10. ASSUME NEW u \in Task, StartModel(u) PROVE TypeOK'
  <2>1. told' \in [Task -> Seq(Ending)] /\ pc' \in [Task -> Pc]
    BY <1>10, EndCancelledFacts DEF StartModel, Ends
  <2>. QED BY <1>10, <2>1 DEF StartModel
<1>11. ASSUME NEW u \in Task, AwaitStart(u) PROVE TypeOK'
  <2>1. told' \in [Task -> Seq(Ending)] /\ pc' \in [Task -> Pc]
    BY <1>11, EndCancelledFacts, EndFailedFacts DEF AwaitStart, Ends
  <2>. QED BY <1>11, <2>1 DEF AwaitStart
<1>12. ASSUME NEW u \in Task, Loop(u) PROVE TypeOK'
  <2>1. told' \in [Task -> Seq(Ending)] /\ pc' \in [Task -> Pc]
    BY <1>12, EndingKinds, TellFacts, EndCancelledFacts DEF Loop, Ends
  <2>. QED BY <1>12, <2>1 DEF Loop
<1>13. ASSUME NEW u \in Task, NextEvent(u) PROVE TypeOK'
  <2>1. told' \in [Task -> Seq(Ending)] /\ pc' \in [Task -> Pc]
    BY <1>13, EndingKinds, TellFacts, EndFailedFacts DEF NextEvent, Ends
  <2>2. events' \in [Task -> Seq({"thinking", "content", "complete", "error"})] /\ \A v \in Task : Len(events'[v]) <= Capacity
    BY <1>13, TakeFacts DEF NextEvent
  <2>. QED BY <1>13, <2>1, <2>2 DEF NextEvent
<1>14. ASSUME NEW u \in Task, HangUpMark(u) PROVE TypeOK'
  BY <1>14 DEF HangUpMark, MarkerSet
<1>15. ASSUME NEW u \in Task, HangUp(u) PROVE TypeOK'
  BY <1>15 DEF HangUp, CancelLocal, CancelHandle, MessageSent
<1>16. ASSUME NEW u \in Task, Save(u) PROVE TypeOK'
  <2>1. told' \in [Task -> Seq(Ending)] /\ pc' \in [Task -> Pc]
    BY <1>16, EndingKinds, TellFacts, EndFailedFacts DEF Save, Ends
  <2>2. saved' \in [Task -> Seq({"full", "part", "rejection"})]
    BY <1>16, SaveFacts DEF Save
  <2>. QED BY <1>16, <2>1, <2>2 DEF Save
<1>17. ASSUME NEW u \in Task, SavePart(u) PROVE TypeOK'
  <2>1. told' \in [Task -> Seq(Ending)] /\ pc' \in [Task -> Pc]
    BY <1>17, EndingKinds, TellFacts DEF SavePart, Ends
  <2>2. saved' \in [Task -> Seq({"full", "part", "rejection"})]
    BY <1>17, SaveFacts DEF SavePart
  <2>. QED BY <1>17, <2>1, <2>2 DEF SavePart
<1>18. ASSUME NEW u \in Task, Leave(u) PROVE TypeOK'
  BY <1>18 DEF Leave
<1>19. ASSUME NEW u \in Task, Release(u) PROVE TypeOK'
  BY <1>19 DEF Release
<1>20. ASSUME NEW u \in Task, ClearMarker(u) PROVE TypeOK'
  BY <1>20 DEF ClearMarker
<1>21. ASSUME NEW u \in Task, ClearOwner(u) PROVE TypeOK'
  BY <1>21 DEF ClearOwner
<1>22. ASSUME NEW u \in Task, Forget(u) PROVE TypeOK'
  BY <1>22 DEF Forget
<1>23. ASSUME NEW u \in Task, PreparationEnds(u) PROVE TypeOK'
  BY <1>23 DEF PreparationEnds
<1>24. ASSUME NEW u \in Task, Speak(u) PROVE TypeOK'
  <2>1. /\ events' \in [Task -> Seq({"thinking", "content", "complete", "error"})]
        /\ \A v \in Task : Len(events'[v]) <= Capacity
        /\ overflowed' \subseteq Task
    BY <1>24, PushFacts DEF Speak
  <2>. QED BY <1>24, <2>1 DEF Speak
<1>25. ASSUME NEW u \in Task, ModelEnds(u) PROVE TypeOK'
  <2>1. /\ events' \in [Task -> Seq({"thinking", "content", "complete", "error"})]
        /\ \A v \in Task : Len(events'[v]) <= Capacity
        /\ overflowed' \subseteq Task
    BY <1>25, PushFacts DEF ModelEnds
  <2>. QED BY <1>25, <2>1 DEF ModelEnds
<1>26. ASSUME NEW u \in Task, StartEnds(u) PROVE TypeOK'
  BY <1>26 DEF StartEnds
<1>27. ASSUME NEW u \in Task, Ask(u) PROVE TypeOK'
  BY <1>27 DEF Ask
<1>28. ASSUME NEW u \in Task, Mark(u) PROVE TypeOK'
  BY <1>28 DEF Mark, MarkerSet
<1>29. ASSUME NEW u \in Task, Publish(u) PROVE TypeOK'
  BY <1>29 DEF Publish, CancelLocal, CancelHandle, MessageSent
<1>30. ASSUME NEW u \in Task, Listen(u) PROVE TypeOK'
  BY <1>30 DEF Listen, CancelLocal, CancelHandle
<1>32. ASSUME NEW u \in Task, Relapse(u) PROVE TypeOK'
  BY <1>32 DEF Relapse
<1>31. ASSUME NEW u \in Task, Interrupt(u) PROVE TypeOK'
  <2>1. told' \in [Task -> Seq(Ending)] /\ pc' \in [Task -> Pc]
    BY <1>31, EndingKinds, TellFacts, EndCancelledFacts DEF Interrupt, Ends
  <2>2. saved' \in [Task -> Seq({"full", "part", "rejection"})]
    <3>1. CASE UNCHANGED saved
      BY <3>1
    <3>2. CASE pc[u] \in DOMAIN Saving /\ saved' = [saved EXCEPT ![u] = Append(saved[u], Saving[pc[u]])]
      BY <3>2, SaveFacts, SavingKinds
    <3>3. InterruptSaving(u)
      BY <1>31 DEF Interrupt
    <3>. QED BY <3>1, <3>2, <3>3 DEF InterruptSaving
  <2>3. prep' \in [Task -> Job] /\ start' \in [Task -> Job] /\ model' \in [Task -> Job] /\ bound' \subseteq Task
    <3>1. InterruptJobs(u)
      BY <1>31 DEF Interrupt
    <3>. QED BY <3>1 DEF InterruptJobs
  <2>4. marker' \subseteq Task /\ owners' \subseteq Task /\ messages' \subseteq Task
    <3>1. InterruptRedis(u)
      BY <1>31 DEF Interrupt
    <3>. QED BY <3>1 DEF InterruptRedis
  <2>. QED BY <1>31, <2>1, <2>2, <2>3, <2>4 DEF Interrupt
<1>. QED BY <1>1, <1>2, <1>3, <1>4, <1>5, <1>6, <1>7, <1>8, <1>9, <1>10, <1>11, <1>12, <1>13, <1>14,
          <1>15, <1>16, <1>17, <1>18, <1>19, <1>20, <1>21, <1>22, <1>23, <1>24, <1>25, <1>26, <1>27,
          <1>28, <1>29, <1>30, <1>31, <1>32 DEF Next, StreamStep

(* A step keeps Stage. *)
LEMMA StageStep ==
  ASSUME TypeOK, NEW t \in Task \ Interruptible, Stage(t), [Next]_vars
  PROVE  Stage(t)'
<1> USE DEF TypeOK, Stage, Before, Held, Over, Leaving, AwaitPc, YieldPc,
           Goto, Tell, EndCancelled, EndFailed, Cancelled, Flagged, work, queue, outcome, redis, cancelling
<1>1. CASE UNCHANGED vars
  BY <1>1 DEF vars
<1>2. ASSUME NEW u \in Task, Register(u) PROVE Stage(t)'
  BY <1>2 DEF Register
<1>3. ASSUME NEW u \in Task, RegisterOwner(u) PROVE Stage(t)'
  BY <1>3 DEF RegisterOwner
<1>4. ASSUME NEW u \in Task, ReadMarker(u) PROVE Stage(t)'
  BY <1>4 DEF ReadMarker, CancelLocal, CancelHandle
<1>5. ASSUME NEW u \in Task, Begin(u) PROVE Stage(t)'
  BY <1>5 DEF Begin
<1>6. ASSUME NEW u \in Task, Acquire(u) PROVE Stage(t)'
  BY <1>6 DEF Acquire
<1>7. ASSUME NEW u \in Task, Reject(u) PROVE Stage(t)'
  BY <1>7 DEF Reject
<1>8. ASSUME NEW u \in Task, Prepare(u) PROVE Stage(t)'
  BY <1>8 DEF Prepare
<1>9. ASSUME NEW u \in Task, AwaitPreparation(u) PROVE Stage(t)'
  BY <1>9 DEF AwaitPreparation
<1>10. ASSUME NEW u \in Task, StartModel(u) PROVE Stage(t)'
  BY <1>10 DEF StartModel
<1>11. ASSUME NEW u \in Task, AwaitStart(u) PROVE Stage(t)'
  BY <1>11 DEF AwaitStart
<1>12. ASSUME NEW u \in Task, Loop(u) PROVE Stage(t)'
  BY <1>12 DEF Loop
<1>13. ASSUME NEW u \in Task, NextEvent(u) PROVE Stage(t)'
  BY <1>13 DEF NextEvent
<1>14. ASSUME NEW u \in Task, HangUpMark(u) PROVE Stage(t)'
  BY <1>14 DEF HangUpMark, MarkerSet
<1>15. ASSUME NEW u \in Task, HangUp(u) PROVE Stage(t)'
  BY <1>15 DEF HangUp, CancelLocal, CancelHandle, MessageSent
<1>16. ASSUME NEW u \in Task, Save(u) PROVE Stage(t)'
  BY <1>16 DEF Save
<1>17. ASSUME NEW u \in Task, SavePart(u) PROVE Stage(t)'
  BY <1>17 DEF SavePart
<1>18. ASSUME NEW u \in Task, Leave(u) PROVE Stage(t)'
  BY <1>18 DEF Leave
<1>19. ASSUME NEW u \in Task, Release(u) PROVE Stage(t)'
  BY <1>19 DEF Release
<1>20. ASSUME NEW u \in Task, ClearMarker(u) PROVE Stage(t)'
  BY <1>20 DEF ClearMarker
<1>21. ASSUME NEW u \in Task, ClearOwner(u) PROVE Stage(t)'
  BY <1>21 DEF ClearOwner
<1>22. ASSUME NEW u \in Task, Forget(u) PROVE Stage(t)'
  BY <1>22 DEF Forget
<1>23. ASSUME NEW u \in Task, PreparationEnds(u) PROVE Stage(t)'
  BY <1>23 DEF PreparationEnds
<1>24. ASSUME NEW u \in Task, Speak(u) PROVE Stage(t)'
  BY <1>24 DEF Speak, Push
<1>25. ASSUME NEW u \in Task, ModelEnds(u) PROVE Stage(t)'
  BY <1>25 DEF ModelEnds, Push
<1>26. ASSUME NEW u \in Task, StartEnds(u) PROVE Stage(t)'
  BY <1>26 DEF StartEnds
<1>27. ASSUME NEW u \in Task, Ask(u) PROVE Stage(t)'
  BY <1>27 DEF Ask
<1>28. ASSUME NEW u \in Task, Mark(u) PROVE Stage(t)'
  BY <1>28 DEF Mark, MarkerSet
<1>29. ASSUME NEW u \in Task, Publish(u) PROVE Stage(t)'
  BY <1>29 DEF Publish, CancelLocal, CancelHandle, MessageSent
<1>30. ASSUME NEW u \in Task, Listen(u) PROVE Stage(t)'
  BY <1>30 DEF Listen, CancelLocal, CancelHandle
<1>32. ASSUME NEW u \in Task, Relapse(u) PROVE Stage(t)'
  BY <1>32 DEF Relapse
<1>31. ASSUME NEW u \in Task, Interrupt(u) PROVE Stage(t)'
  BY <1>31 DEF Interrupt, InterruptJobs, InterruptRedis, InterruptSaving, Saving
<1>. QED BY <1>1, <1>2, <1>3, <1>4, <1>5, <1>6, <1>7, <1>8, <1>9, <1>10, <1>11, <1>12, <1>13, <1>14,
          <1>15, <1>16, <1>17, <1>18, <1>19, <1>20, <1>21, <1>22, <1>23, <1>24, <1>25, <1>26, <1>27,
          <1>28, <1>29, <1>30, <1>31, <1>32 DEF Next, StreamStep

(* A step keeps Jobs: whoever ends a stream has stopped what works for it. *)
LEMMA JobsStep ==
  ASSUME TypeOK, NEW t \in Task \ Interruptible, Stage(t), Jobs(t), [Next]_vars
  PROVE  Jobs(t)'
<1> Tardy' = Tardy
  BY ProneStays
<1> USE DEF TypeOK, Stage, Jobs, Stopped, Before, Held, Over, Leaving,
           Goto, Tell, EndCancelled, EndFailed, Cancelled, Flagged, work, queue, outcome, redis, cancelling
<1>1. CASE UNCHANGED vars
  BY <1>1 DEF vars
<1>2. ASSUME NEW u \in Task, Register(u) PROVE Jobs(t)'
  BY <1>2 DEF Register
<1>3. ASSUME NEW u \in Task, RegisterOwner(u) PROVE Jobs(t)'
  BY <1>3 DEF RegisterOwner
<1>4. ASSUME NEW u \in Task, ReadMarker(u) PROVE Jobs(t)'
  BY <1>4 DEF ReadMarker, CancelLocal, CancelHandle
<1>5. ASSUME NEW u \in Task, Begin(u) PROVE Jobs(t)'
  BY <1>5 DEF Begin
<1>6. ASSUME NEW u \in Task, Acquire(u) PROVE Jobs(t)'
  BY <1>6 DEF Acquire
<1>7. ASSUME NEW u \in Task, Reject(u) PROVE Jobs(t)'
  BY <1>7 DEF Reject
<1>8. ASSUME NEW u \in Task, Prepare(u) PROVE Jobs(t)'
  BY <1>8 DEF Prepare
<1>9. ASSUME NEW u \in Task, AwaitPreparation(u) PROVE Jobs(t)'
  BY <1>9 DEF AwaitPreparation
<1>10. ASSUME NEW u \in Task, StartModel(u) PROVE Jobs(t)'
  BY <1>10 DEF StartModel
<1>11. ASSUME NEW u \in Task, AwaitStart(u) PROVE Jobs(t)'
  BY <1>11 DEF AwaitStart
<1>12. ASSUME NEW u \in Task, Loop(u) PROVE Jobs(t)'
  BY <1>12 DEF Loop
<1>13. ASSUME NEW u \in Task, NextEvent(u) PROVE Jobs(t)'
  <2> HIDE DEF Stopped
  <2>1. Stopped(t)' => Stopped(t)
    BY <1>13, TakeFacts DEF NextEvent, Stopped
  <2>2. u = t /\ events[u] # <<>> /\ Head(events[u]) \in {"complete", "error"} => Stopped(t)
    BY <1>13, TakeFacts DEF NextEvent
  <2>3. u = t => (events[u] # <<>> /\ Head(events[u]) \in {"complete", "error"}) \/ pc'[t] = "relaying"
    BY <1>13, TakeFacts DEF NextEvent
  <2>. QED BY <1>13, <2>1, <2>2, <2>3 DEF NextEvent
<1>14. ASSUME NEW u \in Task, HangUpMark(u) PROVE Jobs(t)'
  BY <1>14 DEF HangUpMark, MarkerSet
<1>15. ASSUME NEW u \in Task, HangUp(u) PROVE Jobs(t)'
  BY <1>15 DEF HangUp, CancelLocal, CancelHandle, MessageSent
<1>16. ASSUME NEW u \in Task, Save(u) PROVE Jobs(t)'
  BY <1>16 DEF Save
<1>17. ASSUME NEW u \in Task, SavePart(u) PROVE Jobs(t)'
  BY <1>17 DEF SavePart
<1>18. ASSUME NEW u \in Task, Leave(u) PROVE Jobs(t)'
  BY <1>18 DEF Leave
<1>19. ASSUME NEW u \in Task, Release(u) PROVE Jobs(t)'
  BY <1>19 DEF Release
<1>20. ASSUME NEW u \in Task, ClearMarker(u) PROVE Jobs(t)'
  BY <1>20 DEF ClearMarker
<1>21. ASSUME NEW u \in Task, ClearOwner(u) PROVE Jobs(t)'
  BY <1>21 DEF ClearOwner
<1>22. ASSUME NEW u \in Task, Forget(u) PROVE Jobs(t)'
  BY <1>22 DEF Forget
<1>23. ASSUME NEW u \in Task, PreparationEnds(u) PROVE Jobs(t)'
  BY <1>23 DEF PreparationEnds
<1>24. ASSUME NEW u \in Task, Speak(u) PROVE Jobs(t)'
  <2> HIDE DEF Stopped
  <2>1. u # t => (Stopped(t)' <=> Stopped(t))
    BY <1>24, PushFacts DEF Speak, Stopped
  <2>2. u = t => (Stopped(t)' => Stopped(t))
    BY <1>24, PushFacts DEF Speak
  <2>3. \A v \in Task : v # u => (v \in overflowed' <=> v \in overflowed)
    BY <1>24, PushFacts DEF Speak
  <2>. QED BY <1>24, <2>1, <2>2, <2>3 DEF Speak
<1>25. ASSUME NEW u \in Task, ModelEnds(u) PROVE Jobs(t)'
  <2> HIDE DEF Stopped
  <2>1. u # t => (Stopped(t)' <=> Stopped(t))
    BY <1>25, PushFacts DEF ModelEnds, Stopped
  <2>2. \A v \in Task : v # u => (v \in overflowed' <=> v \in overflowed)
    BY <1>25, PushFacts DEF ModelEnds
  <2>. QED BY <1>25, <2>1, <2>2 DEF ModelEnds
<1>26. ASSUME NEW u \in Task, StartEnds(u) PROVE Jobs(t)'
  BY <1>26 DEF StartEnds
<1>27. ASSUME NEW u \in Task, Ask(u) PROVE Jobs(t)'
  BY <1>27 DEF Ask
<1>28. ASSUME NEW u \in Task, Mark(u) PROVE Jobs(t)'
  BY <1>28 DEF Mark, MarkerSet
<1>29. ASSUME NEW u \in Task, Publish(u) PROVE Jobs(t)'
  BY <1>29 DEF Publish, CancelLocal, CancelHandle, MessageSent
<1>30. ASSUME NEW u \in Task, Listen(u) PROVE Jobs(t)'
  BY <1>30 DEF Listen, CancelLocal, CancelHandle
<1>32. ASSUME NEW u \in Task, Relapse(u) PROVE Jobs(t)'
  BY <1>32 DEF Relapse
<1>31. ASSUME NEW u \in Task, Interrupt(u) PROVE Jobs(t)'
  BY <1>31 DEF Interrupt, InterruptJobs, InterruptRedis, InterruptSaving, Saving
<1>. QED BY <1>1, <1>2, <1>3, <1>4, <1>5, <1>6, <1>7, <1>8, <1>9, <1>10, <1>11, <1>12, <1>13, <1>14,
          <1>15, <1>16, <1>17, <1>18, <1>19, <1>20, <1>21, <1>22, <1>23, <1>24, <1>25, <1>26, <1>27,
          <1>28, <1>29, <1>30, <1>31, <1>32 DEF Next, StreamStep

(* A step keeps Outcome: what is saved is what is told next. *)
LEMMA OutcomeStep ==
  ASSUME TypeOK, NEW t \in Task \ Interruptible, Stage(t), Outcome(t), [Next]_vars
  PROVE  Outcome(t)'
<1> USE DEF TypeOK, Outcome, Before, Held, Over, Leaving,
           Goto, Cancelled, Flagged, work, queue, outcome, redis, cancelling
<1>1. CASE UNCHANGED vars
  BY <1>1 DEF vars
<1>2. ASSUME NEW u \in Task, Register(u) PROVE Outcome(t)'
  <2>1. CASE u # t
    BY <1>2, <2>1, RefuseFacts DEF Register, Ends
  <2>2. CASE u = t
    BY <1>2, <2>2, RefuseFacts DEF Register
  <2>. QED BY <2>1, <2>2
<1>3. ASSUME NEW u \in Task, RegisterOwner(u) PROVE Outcome(t)'
  <2>1. CASE u # t
    BY <1>3, <2>1, RefuseFacts DEF RegisterOwner, Ends
  <2>2. CASE u = t
    BY <1>3, <2>2, RefuseFacts DEF RegisterOwner
  <2>. QED BY <2>1, <2>2
<1>4. ASSUME NEW u \in Task, ReadMarker(u) PROVE Outcome(t)'
  BY <1>4 DEF ReadMarker, CancelLocal, CancelHandle
<1>5. ASSUME NEW u \in Task, Begin(u) PROVE Outcome(t)'
  <2>1. CASE u # t
    BY <1>5, <2>1, EndCancelledFacts DEF Begin, Ends
  <2>2. CASE u = t
    BY <1>5, <2>2, EndCancelledFacts DEF Begin
  <2>. QED BY <2>1, <2>2
<1>6. ASSUME NEW u \in Task, Acquire(u) PROVE Outcome(t)'
  <2>1. CASE u # t
    BY <1>6, <2>1, EndingKinds, TellFacts, EndCancelledFacts DEF Acquire, Ends
  <2>2. CASE u = t
    BY <1>6, <2>2, EndingKinds, TellFacts, EndCancelledFacts DEF Acquire
  <2>. QED BY <2>1, <2>2
<1>7. ASSUME NEW u \in Task, Reject(u) PROVE Outcome(t)'
  <2>1. CASE u # t
    BY <1>7, <2>1, EndingKinds, TellFacts, SaveFacts DEF Reject, Ends
  <2>2. CASE u = t
    BY <1>7, <2>2, EndingKinds, TellFacts, SaveFacts DEF Reject
  <2>. QED BY <2>1, <2>2
<1>8. ASSUME NEW u \in Task, Prepare(u) PROVE Outcome(t)'
  <2>1. CASE u # t
    BY <1>8, <2>1, EndCancelledFacts DEF Prepare, Ends
  <2>2. CASE u = t
    BY <1>8, <2>2, EndCancelledFacts DEF Prepare
  <2>. QED BY <2>1, <2>2
<1>9. ASSUME NEW u \in Task, AwaitPreparation(u) PROVE Outcome(t)'
  <2>1. CASE u # t
    BY <1>9, <2>1, EndCancelledFacts, EndFailedFacts DEF AwaitPreparation, Ends
  <2>2. CASE u = t
    BY <1>9, <2>2, EndCancelledFacts, EndFailedFacts DEF AwaitPreparation
  <2>. QED BY <2>1, <2>2
<1>10. ASSUME NEW u \in Task, StartModel(u) PROVE Outcome(t)'
  <2>1. CASE u # t
    BY <1>10, <2>1, EndCancelledFacts DEF StartModel, Ends
  <2>2. CASE u = t
    BY <1>10, <2>2, EndCancelledFacts DEF StartModel
  <2>. QED BY <2>1, <2>2
<1>11. ASSUME NEW u \in Task, AwaitStart(u) PROVE Outcome(t)'
  <2>1. CASE u # t
    BY <1>11, <2>1, EndCancelledFacts, EndFailedFacts DEF AwaitStart, Ends
  <2>2. CASE u = t
    BY <1>11, <2>2, EndCancelledFacts, EndFailedFacts DEF AwaitStart
  <2>. QED BY <2>1, <2>2
<1>12. ASSUME NEW u \in Task, Loop(u) PROVE Outcome(t)'
  <2>1. CASE u # t
    BY <1>12, <2>1, EndingKinds, TellFacts, EndCancelledFacts DEF Loop, Ends
  <2>2. CASE u = t
    BY <1>12, <2>2, EndingKinds, TellFacts, EndCancelledFacts DEF Loop
  <2>. QED BY <2>1, <2>2
<1>13. ASSUME NEW u \in Task, NextEvent(u) PROVE Outcome(t)'
  <2>1. CASE u # t
    BY <1>13, <2>1, EndingKinds, TellFacts, EndFailedFacts DEF NextEvent, Ends
  <2>2. CASE u = t
    BY <1>13, <2>2, EndingKinds, TellFacts, EndFailedFacts DEF NextEvent
  <2>. QED BY <2>1, <2>2
<1>14. ASSUME NEW u \in Task, HangUpMark(u) PROVE Outcome(t)'
  BY <1>14 DEF HangUpMark, MarkerSet
<1>15. ASSUME NEW u \in Task, HangUp(u) PROVE Outcome(t)'
  BY <1>15 DEF HangUp, CancelLocal, CancelHandle, MessageSent
<1>16. ASSUME NEW u \in Task, Save(u) PROVE Outcome(t)'
  <2>1. CASE u # t
    BY <1>16, <2>1, EndingKinds, TellFacts, EndFailedFacts, SaveFacts DEF Save, Ends
  <2>2. CASE u = t
    BY <1>16, <2>2, EndingKinds, TellFacts, EndFailedFacts, SaveFacts DEF Save
  <2>. QED BY <2>1, <2>2
<1>17. ASSUME NEW u \in Task, SavePart(u) PROVE Outcome(t)'
  <2>1. CASE u # t
    BY <1>17, <2>1, EndingKinds, TellFacts, SaveFacts DEF SavePart, Ends
  <2>2. CASE u = t
    BY <1>17, <2>2, EndingKinds, TellFacts, SaveFacts DEF SavePart
  <2>. QED BY <2>1, <2>2
<1>18. ASSUME NEW u \in Task, Leave(u) PROVE Outcome(t)'
  BY <1>18 DEF Leave
<1>19. ASSUME NEW u \in Task, Release(u) PROVE Outcome(t)'
  BY <1>19 DEF Release
<1>20. ASSUME NEW u \in Task, ClearMarker(u) PROVE Outcome(t)'
  BY <1>20 DEF ClearMarker
<1>21. ASSUME NEW u \in Task, ClearOwner(u) PROVE Outcome(t)'
  BY <1>21 DEF ClearOwner
<1>22. ASSUME NEW u \in Task, Forget(u) PROVE Outcome(t)'
  BY <1>22 DEF Forget
<1>23. ASSUME NEW u \in Task, PreparationEnds(u) PROVE Outcome(t)'
  BY <1>23 DEF PreparationEnds
<1>24. ASSUME NEW u \in Task, Speak(u) PROVE Outcome(t)'
  BY <1>24 DEF Speak, Push
<1>25. ASSUME NEW u \in Task, ModelEnds(u) PROVE Outcome(t)'
  BY <1>25 DEF ModelEnds, Push
<1>26. ASSUME NEW u \in Task, StartEnds(u) PROVE Outcome(t)'
  BY <1>26 DEF StartEnds
<1>27. ASSUME NEW u \in Task, Ask(u) PROVE Outcome(t)'
  BY <1>27 DEF Ask
<1>28. ASSUME NEW u \in Task, Mark(u) PROVE Outcome(t)'
  BY <1>28 DEF Mark, MarkerSet
<1>29. ASSUME NEW u \in Task, Publish(u) PROVE Outcome(t)'
  BY <1>29 DEF Publish, CancelLocal, CancelHandle, MessageSent
<1>30. ASSUME NEW u \in Task, Listen(u) PROVE Outcome(t)'
  BY <1>30 DEF Listen, CancelLocal, CancelHandle
<1>32. ASSUME NEW u \in Task, Relapse(u) PROVE Outcome(t)'
  BY <1>32 DEF Relapse
<1>31. ASSUME NEW u \in Task, Interrupt(u) PROVE Outcome(t)'
  <2>1. u # t
    BY <1>31 DEF Interrupt, Interruptible
  <2>. QED BY <1>31, <2>1, EndingKinds, TellFacts, EndCancelledFacts, SaveFacts DEF Interrupt, InterruptSaving, Saving, Ends
<1>. QED BY <1>1, <1>2, <1>3, <1>4, <1>5, <1>6, <1>7, <1>8, <1>9, <1>10, <1>11, <1>12, <1>13, <1>14,
          <1>15, <1>16, <1>17, <1>18, <1>19, <1>20, <1>21, <1>22, <1>23, <1>24, <1>25, <1>26, <1>27,
          <1>28, <1>29, <1>30, <1>31, <1>32 DEF Next, StreamStep

-----------------------------------------------------------------------------
(* The theorems.                                                           *)

(* The inductive invariant. *)
THEOREM Invariance == Spec => []IInv
<1>1. Init => IInv
  BY InitInv
<1>2. IInv /\ [Next]_vars => IInv'
  BY TypeStep, StageStep, JobsStep, OutcomeStep, ProneStays DEF IInv
<1>. QED BY <1>1, <1>2, PTL DEF Spec

(* Every variable has its type, and the callback's queue is bounded. *)
THEOREM TypeCorrect == Spec => []TypeOK
<1>1. IInv => TypeOK
  BY DEF IInv
<1>. QED BY <1>1, Invariance, PTL

(* Nothing works for a regular stream that does not hold a permit. *)
THEOREM PermitCoversWork == Spec => []WorkUnderPermit
<1>1. IInv => WorkUnderPermit
  <2> SUFFICES ASSUME IInv, NEW t \in Regular, AtWork(t) PROVE t \in permits
    BY DEF WorkUnderPermit
  <2>1. TypeOK /\ Stage(t) /\ Jobs(t) /\ t \in Task /\ t \notin Tardy
    BY DEF IInv, Regular
  <2>2. pc[t] \in Pc
    BY <2>1 DEF TypeOK
  <2>. QED BY <2>1, <2>2 DEF Stage, Jobs, AtWork, Before, Held, Over, Leaving, Pc, AwaitPc, YieldPc, FinalPc
<1>. QED BY <1>1, Invariance, PTL

(* A cancellation stops what works for the stream. *)
THEOREM CancellationStopsWork == Spec => []CancelledWorkStops
<1>1. IInv => CancelledWorkStops
  BY DEF IInv, Jobs, CancelledWorkStops, AtWork
<1>. QED BY <1>1, Invariance, PTL

(* The client is told once how the stream ended, and that is what was saved. *)
THEOREM ToldWhatIsSaved == Spec => []ToldAsSaved
<1>1. IInv => ToldAsSaved
  <2> SUFFICES ASSUME IInv, NEW t \in Task \ Interruptible
               PROVE  /\ Len(told[t]) <= 1 /\ Len(saved[t]) <= 1
                      /\ told[t] # <<>> \/ pc[t] = "ended" =>
                           \/ saved[t] = <<>> /\ told[t] # <<"finish">>
                           \/ saved[t] = <<"full">> /\ told[t] = <<"finish">>
                           \/ saved[t] = <<"rejection">> /\ told[t] = <<"reject">>
                           \/ saved[t] = <<"part">> /\ told[t] \in {<<>>, <<"cancel">>}
    BY DEF ToldAsSaved
  <2>1. \/ saved[t] = <<>> /\ told[t] \in {<<>>, <<"reject">>, <<"error">>, <<"cancel">>}
        \/ saved[t] = <<"full">> /\ told[t] = <<"finish">>
        \/ saved[t] = <<"rejection">> /\ told[t] = <<"reject">>
        \/ saved[t] = <<"part">> /\ told[t] \in {<<>>, <<"cancel">>}
    BY DEF IInv, Outcome
  <2>2. Len(told[t]) \in {0, 1} /\ Len(saved[t]) \in {0, 1}
    <3>1. /\ Len(<<>>) = 0 /\ Len(<<"reject">>) = 1 /\ Len(<<"error">>) = 1 /\ Len(<<"cancel">>) = 1
          /\ Len(<<"finish">>) = 1 /\ Len(<<"full">>) = 1 /\ Len(<<"rejection">>) = 1 /\ Len(<<"part">>) = 1
      BY LengthOfOne
    <3>2. CASE saved[t] = <<>> /\ told[t] \in {<<>>, <<"reject">>, <<"error">>, <<"cancel">>}
      BY <3>1, <3>2, Zenon
    <3>3. CASE saved[t] = <<"full">> /\ told[t] = <<"finish">>
      BY <3>1, <3>3, Zenon
    <3>4. CASE saved[t] = <<"rejection">> /\ told[t] = <<"reject">>
      BY <3>1, <3>4, Zenon
    <3>5. CASE saved[t] = <<"part">> /\ told[t] \in {<<>>, <<"cancel">>}
      BY <3>1, <3>5, Zenon
    <3>. QED BY <2>1, <3>2, <3>3, <3>4, <3>5, Zenon
  <2>3. Len(told[t]) <= 1 /\ Len(saved[t]) <= 1
    <3>1. \A n \in {0, 1} : n <= 1
      OBVIOUS
    <3>. QED BY <2>2, <3>1, Zenon
  <2>4. <<>> # <<"finish">> /\ <<"reject">> # <<"finish">> /\ <<"error">> # <<"finish">>
          /\ <<"cancel">> # <<"finish">>
    OBVIOUS
  <2>. QED BY <2>1, <2>3, <2>4, Zenon
<1>. QED BY <1>1, Invariance, PTL

(* A stream that has ended holds neither a permit nor a live entry. *)
THEOREM EndedHoldsNothing == Spec => []NothingHeld
<1>1. IInv => NothingHeld
  BY DEF IInv, Stage, NothingHeld, Over
<1>. QED BY <1>1, Invariance, PTL


-----------------------------------------------------------------------------
(* What a stream owes.  A step of a stream is seen by the contract as one  *)
(* of its actions: what it does to this stream is said pointwise (Seen),   *)
(* what it does to the others is nothing (Alone).                          *)

(* A step of t, or of what stands beside it. *)
Moves(t) ==
  \/ Register(t) \/ StreamStep(t) \/ Forget(t)
  \/ PreparationEnds(t) \/ Speak(t) \/ ModelEnds(t) \/ Relapse(t) \/ StartEnds(t)
  \/ Ask(t) \/ Mark(t) \/ Publish(t) \/ Listen(t)
  \/ Interrupt(t)

(* Nothing that the contract sees of another stream changes. *)
Alone(u) ==
  \A v \in Task \ {u} :
    /\ pc'[v] = pc[v] /\ entry'[v] = entry[v]
    /\ prep'[v] = prep[v] /\ start'[v] = start[v] /\ model'[v] = model[v]
    /\ v \in permits' <=> v \in permits
    /\ told'[v] = told[v] /\ saved'[v] = saved[v]

(* What stays of u. *)
SameStage(u) == StageOf(u)' = StageOf(u)

SamePermit(u) == u \in permits' <=> u \in permits

SameFlag(u) == Flagged(u)' <=> Flagged(u)

SameWork(u) == AtWork(u)' <=> AtWork(u)

NoNewWork(u) == AtWork(u)' => AtWork(u)

SameOutcome(u) == told'[u] = told[u] /\ saved'[u] = saved[u]

(* The actions of the contract, pointwise. *)
SeenIdle(u) == SameStage(u) /\ SamePermit(u) /\ SameFlag(u) /\ NoNewWork(u) /\ SameOutcome(u)

SeenEnter(u) ==
  /\ StageOf(u) = "new" /\ StageOf(u)' = "queued"
  /\ SamePermit(u) /\ SameFlag(u) /\ SameWork(u) /\ SameOutcome(u)

SeenRefuse(u) ==
  /\ StageOf(u) \in {"new", "queued"} /\ StageOf(u)' = "ended" /\ ~ Flagged(u)'
  /\ told'[u] = <<"error">> /\ saved'[u] = saved[u]
  /\ SamePermit(u) /\ SameWork(u)

SeenAdmit(u) ==
  /\ StageOf(u) = "queued" /\ StageOf(u)' = "admitted" /\ u \in permits'
  /\ SameFlag(u) /\ SameWork(u) /\ SameOutcome(u)

SeenBeginWork(u) ==
  /\ StageOf(u) = "admitted" /\ u \in permits /\ ~ Flagged(u) /\ AtWork(u)'
  /\ SameStage(u) /\ SamePermit(u) /\ SameFlag(u) /\ SameOutcome(u)

SeenCancel(u) ==
  /\ StageOf(u) \in {"queued", "admitted", "concluded"} /\ Flagged(u)'
  /\ SameStage(u) /\ SamePermit(u) /\ NoNewWork(u) /\ SameOutcome(u)

SeenConclude(u, how, replies) ==
  /\ StageOf(u)' = "concluded" /\ ~ AtWork(u)'
  /\ told'[u] = how /\ saved'[u] \in replies
  /\ SamePermit(u)

SeenEnd(u) ==
  \/ SeenConclude(u, <<"reject">>, {<<>>, <<"rejection">>}) /\ StageOf(u) = "queued" /\ SameFlag(u)
  \/ SeenConclude(u, <<"error">>, {<<>>}) /\ StageOf(u) \in {"queued", "admitted"} /\ SameFlag(u)
  \/ SeenConclude(u, <<"finish">>, {<<"full">>}) /\ StageOf(u) = "admitted" /\ SameFlag(u)
  \/ SeenConclude(u, <<"cancel">>, {<<>>}) /\ StageOf(u) = "queued" /\ Flagged(u) /\ SameFlag(u)
  \/ SeenConclude(u, <<"cancel">>, {<<>>, <<"part">>}) /\ StageOf(u) = "admitted" /\ Flagged(u) /\ SameFlag(u)
  \/ SeenConclude(u, <<>>, {<<>>, <<"part">>}) /\ StageOf(u) = "admitted" /\ Flagged(u)'

SeenRelease(u) ==
  /\ StageOf(u) = "concluded" /\ StageOf(u)' = "ended" /\ u \notin permits'
  /\ SameFlag(u) /\ SameWork(u) /\ SameOutcome(u)

SeenForget(u) ==
  /\ StageOf(u) = "ended" /\ ~ Flagged(u)'
  /\ SameStage(u) /\ SamePermit(u) /\ SameWork(u) /\ SameOutcome(u)

Seen(u) ==
  \/ SeenIdle(u) \/ SeenEnter(u) \/ SeenRefuse(u) \/ SeenAdmit(u) \/ SeenBeginWork(u)
  \/ SeenCancel(u) \/ SeenEnd(u) \/ SeenRelease(u) \/ SeenForget(u)

(* Where a stream stands in its contract. *)
LEMMA StageFacts ==
  ASSUME TypeOK, prone' = prone, NEW u \in Regular
  PROVE  /\ pc[u] = "new" => StageOf(u) = "new"
         /\ pc[u] \in Queued => StageOf(u) = "queued"
         /\ pc[u] \in Held \cup {"interrupting", "hanging"} => StageOf(u) = "admitted"
         /\ pc[u] \in {"closing", "releasing"} => StageOf(u) = "concluded"
         /\ pc[u] \in Over => StageOf(u) = "ended"
         /\ pc'[u] \in Queued => StageOf(u)' = "queued"
         /\ pc'[u] \in Held \cup {"interrupting", "hanging"} => StageOf(u)' = "admitted"
         /\ pc'[u] \in {"closing", "releasing"} => StageOf(u)' = "concluded"
         /\ pc'[u] \in Over => StageOf(u)' = "ended"
         /\ pc'[u] = pc[u] => StageOf(u)' = StageOf(u)
<1>1. u \in Regular'
  BY DEF Regular, Interruptible, Tardy
<1>. QED BY <1>1 DEF StageOf, Queued, Held, Over

(* A step of one stream leaves the others alone. *)
LEMMA OneMoves ==
  ASSUME TypeOK, NEW u \in Task, Moves(u)
  PROVE  Alone(u)
<1> USE DEF TypeOK, Alone, Goto, Tell, EndCancelled, EndFailed, Cancelled, CancelLocal, CancelHandle,
           work, queue, outcome, redis, cancelling
<1>1. CASE Register(u)
  BY <1>1 DEF Register
<1>2. CASE RegisterOwner(u)
  BY <1>2 DEF RegisterOwner
<1>3. CASE ReadMarker(u)
  BY <1>3 DEF ReadMarker
<1>4. CASE Begin(u)
  BY <1>4 DEF Begin
<1>5. CASE Acquire(u)
  BY <1>5 DEF Acquire
<1>6. CASE Reject(u)
  BY <1>6 DEF Reject
<1>7. CASE Prepare(u)
  BY <1>7 DEF Prepare
<1>8. CASE AwaitPreparation(u)
  BY <1>8 DEF AwaitPreparation
<1>9. CASE StartModel(u)
  BY <1>9 DEF StartModel
<1>10. CASE AwaitStart(u)
  BY <1>10 DEF AwaitStart
<1>11. CASE Loop(u)
  BY <1>11 DEF Loop
<1>12. CASE NextEvent(u)
  BY <1>12 DEF NextEvent
<1>13. CASE HangUpMark(u)
  BY <1>13 DEF HangUpMark
<1>14. CASE HangUp(u)
  BY <1>14 DEF HangUp
<1>15. CASE Save(u)
  BY <1>15 DEF Save
<1>16. CASE SavePart(u)
  BY <1>16 DEF SavePart
<1>17. CASE Leave(u) \/ Release(u) \/ ClearMarker(u) \/ ClearOwner(u)
  BY <1>17 DEF Leave, Release, ClearMarker, ClearOwner
<1>18. CASE Forget(u) \/ PreparationEnds(u) \/ Speak(u) \/ ModelEnds(u) \/ Relapse(u) \/ StartEnds(u) \/ Ask(u) \/ Mark(u)
  BY <1>18 DEF Forget, PreparationEnds, Speak, ModelEnds, Relapse, StartEnds, Ask, Mark
<1>19. CASE Publish(u) \/ Listen(u)
  BY <1>19 DEF Publish, Listen
<1>20. CASE Interrupt(u)
  BY <1>20 DEF Interrupt, InterruptJobs, InterruptSaving
<1>. QED BY <1>1, <1>2, <1>3, <1>4, <1>5, <1>6, <1>7, <1>8, <1>9, <1>10, <1>11, <1>12, <1>13, <1>14,
          <1>15, <1>16, <1>17, <1>18, <1>19, <1>20 DEF Moves, StreamStep


(* A cancellation that reaches the registry is one for the contract, or nothing. *)
LEMMA CancelLocalSeen ==
  ASSUME NEW u \in Task, Stage(u), pc[u] # "new", TypeOK, CancelLocal(u)
  PROVE  /\ NoNewWork(u)
         /\ SameFlag(u) \/ (Flagged(u)' /\ pc[u] \notin Over)
         /\ pc[u] \notin Over => Flagged(u)'
BY DEF Stage, TypeOK, CancelLocal, CancelHandle, Cancelled, NoNewWork, AtWork, SameFlag, Flagged, work, Over

(* A stream that holds a permit fails, or ends as cancelled. *)
LEMMA EndSeen ==
  ASSUME TypeOK, prone' = prone, NEW u \in Regular, pc[u] \in Held,
         Outcome(u), Jobs(u)', NoNewWork(u), UNCHANGED <<entry, permits, saved>>,
         \/ Flagged(u) /\ EndCancelled(u)
         \/ EndFailed(u)
         \/ Tell(u, "error")
  PROVE  Seen(u)
<1>1. u \in Task /\ told[u] = <<>> /\ saved[u] = <<>> /\ StageOf(u) = "admitted"
  BY StageFacts DEF Regular, Outcome
<1>2. SameFlag(u) /\ SamePermit(u)
  BY DEF SameFlag, SamePermit, Flagged
<1>3. \/ pc'[u] = "interrupting" /\ told'[u] = <<>>
      \/ pc'[u] = "closing" /\ told'[u] = <<"cancel">> /\ Flagged(u)
      \/ pc'[u] = "closing" /\ told'[u] = <<"error">>
  <2>1. CASE EndCancelled(u) /\ Flagged(u)
    BY <1>1, <2>1, EndCancelledFacts
  <2>2. CASE Tell(u, "error")
    BY <1>1, <2>2, TellFacts, EndingKinds
  <2>. QED BY <2>1, <2>2 DEF EndFailed
<1>4. ~ AtWork(u)'
  <2>1. u \notin Tardy'
    BY DEF Regular, Tardy
  <2>. QED BY <1>3, <2>1 DEF Jobs, AtWork, Leaving
<1>5. CASE pc'[u] = "interrupting" /\ told'[u] = <<>>
  <2>1. SeenIdle(u)
    BY <1>1, <1>2, <1>5, StageFacts DEF SeenIdle, SameStage, SameOutcome
  <2>. QED BY <2>1 DEF Seen
<1>6. CASE pc'[u] = "closing" /\ told'[u] = <<"cancel">> /\ Flagged(u)
  <2>1. SeenEnd(u)
    BY <1>1, <1>2, <1>4, <1>6, StageFacts DEF SeenEnd, SeenConclude
  <2>. QED BY <2>1 DEF Seen
<1>7. CASE pc'[u] = "closing" /\ told'[u] = <<"error">>
  <2>1. SeenEnd(u)
    BY <1>1, <1>2, <1>4, <1>7, StageFacts DEF SeenEnd, SeenConclude
  <2>. QED BY <2>1 DEF Seen
<1>. QED BY <1>3, <1>5, <1>6, <1>7

(* What the contract sees of a step of u. *)
LEMMA SeenMoves ==
  ASSUME TypeOK, prone' = prone, NEW u \in Regular,
         Stage(u), Jobs(u), Outcome(u), Jobs(u)', Moves(u)
  PROVE  Seen(u)
<1> USE DEF SameStage, SamePermit, SameFlag, SameWork, NoNewWork, SameOutcome, Goto, Flagged,
           work, queue, outcome, redis, cancelling
<1> u \in Task /\ u \notin Interruptible /\ u \notin Tardy /\ u \notin Tardy'
  BY DEF Regular, Tardy
<1>1. CASE Register(u)
  <2>1. pc[u] = "new" /\ told[u] = <<>> /\ entry[u] = "none"
    BY <1>1 DEF Register, Stage, Outcome, Before
  <2>2. CASE /\ told' = [told EXCEPT ![u] = Append(@, "error")]
             /\ pc' = [pc EXCEPT ![u] = "ended"]
             /\ UNCHANGED entry
    <3>1. SeenRefuse(u)
      BY <1>1, <2>1, <2>2, RefuseFacts, StageFacts DEF SeenRefuse, Register, TypeOK, AtWork, Over
    <3>. QED BY <3>1 DEF Seen
  <2>3. CASE /\ entry' = [entry EXCEPT ![u] = "live"]
             /\ pc' = [pc EXCEPT ![u] = "owner"]
             /\ UNCHANGED told
    <3>1. SeenEnter(u)
      BY <1>1, <2>1, <2>3, StageFacts DEF SeenEnter, Register, TypeOK, AtWork, Queued
    <3>. QED BY <3>1 DEF Seen
  <2>. QED BY <1>1, <2>2, <2>3 DEF Register
<1>2. CASE RegisterOwner(u)
  <2>1. pc[u] = "owner" /\ told[u] = <<>>
    BY <1>2 DEF RegisterOwner, Outcome, Before
  <2>2. CASE pc' = [pc EXCEPT ![u] = "marker"] /\ UNCHANGED <<entry, told>>
    <3>1. SeenIdle(u)
      BY <1>2, <2>1, <2>2, StageFacts DEF SeenIdle, RegisterOwner, TypeOK, AtWork, Queued
    <3>. QED BY <3>1 DEF Seen
  <2>3. CASE /\ entry' = [entry EXCEPT ![u] = "none"]
             /\ told' = [told EXCEPT ![u] = Append(@, "error")]
             /\ pc' = [pc EXCEPT ![u] = "ended"]
    <3>1. SeenRefuse(u)
      BY <1>2, <2>1, <2>3, RefuseFacts, StageFacts DEF SeenRefuse, RegisterOwner, TypeOK, AtWork, Queued, Over
    <3>. QED BY <3>1 DEF Seen
  <2>. QED BY <1>2, <2>2, <2>3 DEF RegisterOwner
<1>3. CASE ReadMarker(u)
  <2>1. pc[u] = "marker" /\ pc'[u] = "registered" /\ StageOf(u) = "queued" /\ StageOf(u)' = "queued"
    BY <1>3, StageFacts DEF ReadMarker, TypeOK, Queued
  <2>2. SeenIdle(u) \/ SeenCancel(u)
    BY <1>3, <2>1, CancelLocalSeen DEF SeenIdle, SeenCancel, ReadMarker, AtWork
  <2>. QED BY <2>2 DEF Seen
<1>4. CASE Begin(u)
  <2>1. pc[u] = "registered" /\ told[u] = <<>> /\ saved[u] = <<>> /\ u \notin heard /\ StageOf(u) = "queued"
    BY <1>4, StageFacts DEF Begin, Outcome, Before, Stage, Queued
  <2>2. CASE Flagged(u) /\ EndCancelled(u)
    <3>1. pc'[u] = "closing" /\ told'[u] = <<"cancel">>
      BY <2>1, <2>2, TellFacts, EndingKinds DEF EndCancelled
    <3>2. SeenEnd(u)
      BY <1>4, <2>1, <2>2, <3>1, StageFacts DEF SeenEnd, SeenConclude, Begin, AtWork, Jobs, Before
    <3>. QED BY <3>2 DEF Seen
  <2>3. CASE pc' = [pc EXCEPT ![u] = "acquiring"] /\ UNCHANGED told
    <3>1. SeenIdle(u)
      BY <1>4, <2>1, <2>3, StageFacts DEF SeenIdle, Begin, TypeOK, AtWork, Queued
    <3>. QED BY <3>1 DEF Seen
  <2>. QED BY <1>4, <2>2, <2>3 DEF Begin
<1>5. CASE Acquire(u)
  <2>1. /\ pc[u] = "acquiring" /\ told[u] = <<>> /\ saved[u] = <<>> /\ u \notin heard /\ u \notin permits
        /\ StageOf(u) = "queued" /\ ~ AtWork(u)
    BY <1>5, StageFacts DEF Acquire, Outcome, Before, Stage, Queued, Jobs, AtWork
  <2>2. UNCHANGED <<entry, work, saved>>
    BY <1>5 DEF Acquire
  <2>3. CASE permits' = permits \cup {u} /\ pc' = [pc EXCEPT ![u] = "granted"] /\ UNCHANGED told
    <3>1. SeenAdmit(u)
      BY <2>1, <2>2, <2>3, StageFacts DEF SeenAdmit, TypeOK, AtWork, Held
    <3>. QED BY <3>1 DEF Seen
  <2>4. CASE Flagged(u) /\ EndCancelled(u) /\ UNCHANGED permits
    <3>1. pc'[u] = "closing" /\ told'[u] = <<"cancel">>
      BY <2>1, <2>4, TellFacts, EndingKinds DEF EndCancelled
    <3>2. SeenEnd(u)
      BY <2>1, <2>2, <2>4, <3>1, StageFacts DEF SeenEnd, SeenConclude, AtWork
    <3>. QED BY <3>2 DEF Seen
  <2>5. CASE pc' = [pc EXCEPT ![u] = "rejecting"] /\ UNCHANGED <<permits, told>>
    <3>1. SeenIdle(u)
      BY <2>1, <2>2, <2>5, StageFacts DEF SeenIdle, TypeOK, AtWork, Queued
    <3>. QED BY <3>1 DEF Seen
  <2>6. CASE Tell(u, "error") /\ UNCHANGED permits
    <3>1. pc'[u] = "closing" /\ told'[u] = <<"error">>
      BY <2>1, <2>6, TellFacts, EndingKinds
    <3>2. SeenEnd(u)
      BY <2>1, <2>2, <2>6, <3>1, StageFacts DEF SeenEnd, SeenConclude, AtWork
    <3>. QED BY <3>2 DEF Seen
  <2>. QED BY <1>5, <2>3, <2>4, <2>5, <2>6 DEF Acquire
<1>6. CASE Reject(u)
  <2>1. pc[u] = "rejecting" /\ told[u] = <<>> /\ saved[u] = <<>> /\ StageOf(u) = "queued" /\ ~ AtWork(u)
    BY <1>6, StageFacts DEF Reject, Outcome, Before, Queued, Jobs, AtWork
  <2>2. pc'[u] = "closing" /\ told'[u] = <<"reject">>
    BY <1>6, <2>1, TellFacts, EndingKinds DEF Reject
  <2>3. saved'[u] \in {<<>>, <<"rejection">>}
    BY <1>6, <2>1, SaveFacts DEF Reject
  <2>4. SeenEnd(u)
    BY <1>6, <2>1, <2>2, <2>3, StageFacts DEF SeenEnd, SeenConclude, Reject, AtWork
  <2>. QED BY <2>4 DEF Seen
<1>7. CASE Prepare(u)
  <2>1. pc[u] = "granted" /\ pc[u] \in Held /\ StageOf(u) = "admitted" /\ u \in permits
    BY <1>7, StageFacts DEF Prepare, Held, Stage
  <2>2. CASE Flagged(u) /\ prep' = [prep EXCEPT ![u] = "cancelled"] /\ EndCancelled(u)
    <3>1. NoNewWork(u)
      BY <1>7, <2>2 DEF Prepare, TypeOK, AtWork
    <3>. QED BY <1>7, <2>1, <2>2, <3>1, EndSeen DEF Prepare
  <2>3. CASE /\ ~ Flagged(u)
             /\ prep' = [prep EXCEPT ![u] = "running"]
             /\ pc' = [pc EXCEPT ![u] = "preparing"] /\ UNCHANGED told
    <3>1. SeenBeginWork(u)
      BY <1>7, <2>1, <2>3, StageFacts DEF SeenBeginWork, Prepare, TypeOK, AtWork, Held
    <3>. QED BY <3>1 DEF Seen
  <2>. QED BY <1>7, <2>2, <2>3 DEF Prepare
<1>8. CASE AwaitPreparation(u)
  <2>1. /\ pc[u] = "preparing" /\ pc[u] \in Held /\ StageOf(u) = "admitted" /\ NoNewWork(u)
        /\ UNCHANGED <<entry, work, permits, saved>>
    BY <1>8, StageFacts DEF AwaitPreparation, Held, AtWork
  <2>2. CASE (Flagged(u) /\ EndCancelled(u)) \/ EndFailed(u)
    BY <2>1, <2>2, EndSeen
  <2>3. CASE pc' = [pc EXCEPT ![u] = "prepared"] /\ UNCHANGED told
    <3>1. SeenIdle(u)
      BY <2>1, <2>3, StageFacts DEF SeenIdle, TypeOK, Held
    <3>. QED BY <3>1 DEF Seen
  <2>. QED BY <1>8, <2>2, <2>3 DEF AwaitPreparation
<1>9. CASE StartModel(u)
  <2>1. pc[u] = "prepared" /\ pc[u] \in Held /\ StageOf(u) = "admitted" /\ u \in permits
    BY <1>9, StageFacts DEF StartModel, Held, Stage
  <2>2. CASE Flagged(u) /\ start' = [start EXCEPT ![u] = "cancelled"] /\ EndCancelled(u)
    <3>1. NoNewWork(u)
      BY <1>9, <2>2 DEF StartModel, TypeOK, AtWork
    <3>. QED BY <1>9, <2>1, <2>2, <3>1, EndSeen DEF StartModel
  <2>3. CASE /\ ~ Flagged(u)
             /\ start' = [start EXCEPT ![u] = "running"]
             /\ pc' = [pc EXCEPT ![u] = "starting"] /\ UNCHANGED told
    <3>1. SeenBeginWork(u)
      BY <1>9, <2>1, <2>3, StageFacts DEF SeenBeginWork, StartModel, TypeOK, AtWork, Held
    <3>. QED BY <3>1 DEF Seen
  <2>. QED BY <1>9, <2>2, <2>3 DEF StartModel
<1>10. CASE AwaitStart(u)
  <2>1. /\ pc[u] = "starting" /\ pc[u] \in Held /\ StageOf(u) = "admitted" /\ NoNewWork(u)
        /\ UNCHANGED <<entry, permits, saved>>
    BY <1>10, StageFacts DEF AwaitStart, Held, AtWork, Cancelled, TypeOK
  <2>2. CASE (Flagged(u) /\ EndCancelled(u)) \/ EndFailed(u)
    BY <2>1, <2>2, EndSeen
  <2>3. CASE pc' = [pc EXCEPT ![u] = "relaying"] /\ UNCHANGED told
    <3>1. SeenIdle(u)
      BY <2>1, <2>3, StageFacts DEF SeenIdle, TypeOK, Held
    <3>. QED BY <3>1 DEF Seen
  <2>. QED BY <1>10, <2>2, <2>3 DEF AwaitStart
<1>11. CASE Loop(u)
  <2>1. /\ pc[u] = "relaying" /\ pc[u] \in Held /\ StageOf(u) = "admitted" /\ NoNewWork(u)
        /\ UNCHANGED <<entry, permits, saved>>
    BY <1>11, StageFacts DEF Loop, Held, AtWork, Cancelled, TypeOK
  <2>2. CASE (Flagged(u) /\ EndCancelled(u)) \/ Tell(u, "error")
    BY <2>1, <2>2, EndSeen
  <2>3. CASE \E place \in {"hangup", "awaiting"} : pc' = [pc EXCEPT ![u] = place] /\ UNCHANGED told
    <3>1. SeenIdle(u)
      BY <2>1, <2>3, StageFacts DEF SeenIdle, TypeOK, Held
    <3>. QED BY <3>1 DEF Seen
  <2>. QED BY <1>11, <2>2, <2>3 DEF Loop
<1>12. CASE NextEvent(u)
  <2>1. /\ pc[u] = "awaiting" /\ pc[u] \in Held /\ StageOf(u) = "admitted" /\ NoNewWork(u)
        /\ UNCHANGED <<entry, permits, saved>>
    BY <1>12, StageFacts DEF NextEvent, Held, AtWork
  <2>2. CASE EndFailed(u) \/ Tell(u, "error")
    BY <2>1, <2>2, EndSeen
  <2>3. CASE \E place \in {"relaying", "saving"} : pc' = [pc EXCEPT ![u] = place] /\ UNCHANGED told
    <3>1. SeenIdle(u)
      BY <2>1, <2>3, StageFacts DEF SeenIdle, TypeOK, Held
    <3>. QED BY <3>1 DEF Seen
  <2>. QED BY <1>12, <2>2, <2>3 DEF NextEvent
<1>13. CASE HangUpMark(u)
  <2>1. SeenIdle(u)
    BY <1>13, StageFacts DEF SeenIdle, HangUpMark, TypeOK, Held, AtWork
  <2>. QED BY <2>1 DEF Seen
<1>14. CASE HangUp(u)
  <2>1. /\ pc[u] = "broadcast" /\ StageOf(u) = "admitted" /\ told[u] = <<>> /\ saved[u] = <<>>
        /\ UNCHANGED <<permits, outcome>>
    BY <1>14, StageFacts DEF HangUp, Held, Outcome
  <2>2. Flagged(u)' /\ NoNewWork(u)
    BY <1>14, <2>1, CancelLocalSeen DEF HangUp, Over
  <2>3. CASE u \in heard
    <3>1. pc'[u] = "hanging"
      BY <1>14, <2>3 DEF HangUp, TypeOK
    <3>2. SeenCancel(u)
      BY <2>1, <2>2, <3>1, StageFacts DEF SeenCancel
    <3>. QED BY <3>2 DEF Seen
  <2>4. CASE u \notin heard
    <3>1. pc'[u] = "closing"
      BY <1>14, <2>4 DEF HangUp, TypeOK
    <3>2. ~ AtWork(u)'
      BY <3>1 DEF Jobs, AtWork, Leaving
    <3>3. SeenEnd(u)
      BY <2>1, <2>2, <3>1, <3>2, StageFacts DEF SeenEnd, SeenConclude
    <3>. QED BY <3>3 DEF Seen
  <2>. QED BY <2>3, <2>4
<1>15. CASE Save(u)
  <2>1. /\ pc[u] = "saving" /\ pc[u] \in Held /\ StageOf(u) = "admitted" /\ NoNewWork(u)
        /\ told[u] = <<>> /\ saved[u] = <<>> /\ UNCHANGED <<entry, permits>>
    BY <1>15, StageFacts DEF Save, Held, AtWork, Outcome
  <2>2. CASE UNCHANGED saved /\ EndFailed(u)
    BY <2>1, <2>2, EndSeen
  <2>3. CASE saved' = [saved EXCEPT ![u] = Append(@, "full")] /\ Tell(u, "finish")
    <3>1. pc'[u] = "closing" /\ told'[u] = <<"finish">> /\ saved'[u] = <<"full">>
      BY <2>1, <2>3, TellFacts, EndingKinds, SaveFacts
    <3>2. ~ AtWork(u)'
      BY <3>1 DEF Jobs, AtWork, Leaving
    <3>3. SeenEnd(u)
      BY <2>1, <3>1, <3>2, StageFacts DEF SeenEnd, SeenConclude
    <3>. QED BY <3>3 DEF Seen
  <2>. QED BY <1>15, <2>2, <2>3 DEF Save
<1>16. CASE SavePart(u)
  <2>1. /\ pc[u] \in {"interrupting", "hanging"} /\ StageOf(u) = "admitted" /\ Flagged(u)
        /\ told[u] = <<>> /\ saved[u] = <<>> /\ UNCHANGED <<entry, permits>>
    BY <1>16, StageFacts DEF SavePart, Stage, Outcome
  <2>2. saved'[u] \in {<<>>, <<"part">>}
    BY <1>16, <2>1, SaveFacts DEF SavePart
  <2>3. pc'[u] = "closing" /\ told'[u] \in {<<>>, <<"cancel">>}
    BY <1>16, <2>1, TellFacts, EndingKinds DEF SavePart, TypeOK
  <2>4. ~ AtWork(u)'
    BY <2>3 DEF Jobs, AtWork, Leaving
  <2>5. SeenEnd(u)
    BY <2>1, <2>2, <2>3, <2>4, StageFacts DEF SeenEnd, SeenConclude
  <2>. QED BY <2>5 DEF Seen
<1>17. CASE Leave(u)
  <2>1. SeenIdle(u)
    BY <1>17, StageFacts DEF SeenIdle, Leave, TypeOK, AtWork, Cancelled
  <2>. QED BY <2>1 DEF Seen
<1>18. CASE Release(u)
  <2>1. /\ pc[u] = "releasing" /\ pc'[u] \in Over /\ u \notin permits' /\ SameFlag(u)
        /\ UNCHANGED <<work, outcome>>
    BY <1>18 DEF Release, TypeOK, Over
  <2>2. SeenRelease(u)
    BY <2>1, StageFacts DEF SeenRelease, AtWork
  <2>. QED BY <2>2 DEF Seen
<1>19. CASE ClearMarker(u) \/ ClearOwner(u)
  <2>1. SeenIdle(u)
    BY <1>19, StageFacts DEF SeenIdle, ClearMarker, ClearOwner, TypeOK, AtWork, Over
  <2>. QED BY <2>1 DEF Seen
<1>20. CASE Forget(u)
  <2>1. SeenForget(u)
    BY <1>20, StageFacts DEF SeenForget, Forget, TypeOK, AtWork, Over
  <2>. QED BY <2>1 DEF Seen
<1>21. CASE PreparationEnds(u) \/ Speak(u) \/ ModelEnds(u) \/ Relapse(u) \/ StartEnds(u) \/ Ask(u) \/ Mark(u)
  <2>1. UNCHANGED <<pc, entry, permits, outcome>>
    BY <1>21 DEF PreparationEnds, Speak, ModelEnds, Relapse, StartEnds, Ask, Mark
  <2>2. NoNewWork(u)
    BY <1>21 DEF PreparationEnds, Speak, ModelEnds, Relapse, StartEnds, Ask, Mark, TypeOK, AtWork
  <2>3. SeenIdle(u)
    BY <2>1, <2>2, StageFacts DEF SeenIdle
  <2>. QED BY <2>3 DEF Seen
<1>22. CASE Publish(u) \/ Listen(u)
  <2>1. UNCHANGED <<pc, permits, outcome>>
    BY <1>22 DEF Publish, Listen
  <2>2. CASE UNCHANGED <<entry, work>>
    <3>1. SeenIdle(u)
      BY <2>1, <2>2, StageFacts DEF SeenIdle, AtWork
    <3>. QED BY <3>1 DEF Seen
  <2>3. CASE CancelLocal(u) /\ entry[u] = "live"
    <3>1. Flagged(u)' /\ NoNewWork(u) /\ pc[u] \notin Over \cup {"new"}
      BY <2>3 DEF CancelLocal, CancelHandle, Cancelled, TypeOK, AtWork, Stage
    <3>2. StageOf(u) \in {"queued", "admitted", "concluded"}
      BY <3>1, StageFacts DEF TypeOK, Pc, AwaitPc, YieldPc, FinalPc, Queued, Held, Over
    <3>3. SeenCancel(u)
      BY <2>1, <3>1, <3>2, StageFacts DEF SeenCancel
    <3>. QED BY <3>3 DEF Seen
  <2>. QED BY <1>22, <2>2, <2>3 DEF Publish, Listen, CancelLocal
<1>23. ~ Interrupt(u)
  BY DEF Interrupt
<1>. QED BY <1>1, <1>2, <1>3, <1>4, <1>5, <1>6, <1>7, <1>8, <1>9, <1>10, <1>11, <1>12, <1>13, <1>14,
          <1>15, <1>16, <1>17, <1>18, <1>19, <1>20, <1>21, <1>22, <1>23 DEF Moves, StreamStep


(* The contract's view. *)
StageView == [t \in Task |-> StageOf(t)]

PermitView == permits \cap Regular

WorkView == {t \in Regular : AtWork(t)}

FlagView == {t \in Regular : Flagged(t)}

ToldView == [t \in Task |-> IF t \in Regular THEN told[t] ELSE <<>>]

SavedView == [t \in Task |-> IF t \in Regular THEN saved[t] ELSE <<>>]

(* What becomes of the view when one stream moves. *)
LEMMA ViewFacts ==
  ASSUME prone' = prone, NEW u \in Regular, Alone(u)
  PROVE  /\ StageView' = [StageView EXCEPT ![u] = StageOf(u)']
         /\ SameStage(u) => StageView' = StageView
         /\ PermitView' = IF u \in permits' THEN PermitView \cup {u} ELSE PermitView \ {u}
         /\ SamePermit(u) => PermitView' = PermitView
         /\ WorkView' = IF AtWork(u)' THEN WorkView \cup {u} ELSE WorkView \ {u}
         /\ SameWork(u) => WorkView' = WorkView
         /\ FlagView' = IF Flagged(u)' THEN FlagView \cup {u} ELSE FlagView \ {u}
         /\ SameFlag(u) => FlagView' = FlagView
         /\ ToldView' = [ToldView EXCEPT ![u] = told'[u]]
         /\ told'[u] = told[u] => ToldView' = ToldView
         /\ SavedView' = [SavedView EXCEPT ![u] = saved'[u]]
         /\ saved'[u] = saved[u] => SavedView' = SavedView
<1>1. Regular' = Regular /\ u \in Task
  BY DEF Regular, Interruptible, Tardy
<1>2. \A v \in Task \ {u} : /\ StageOf(v)' = StageOf(v)
                            /\ AtWork(v)' <=> AtWork(v)
                            /\ Flagged(v)' <=> Flagged(v)
                            /\ v \in permits' <=> v \in permits
                            /\ told'[v] = told[v] /\ saved'[v] = saved[v]
  BY <1>1 DEF Alone, StageOf, AtWork, Flagged
<1>3. StageView' = [t \in Task |-> StageOf(t)']
  BY DEF StageView
<1>4. /\ StageView' = [StageView EXCEPT ![u] = StageOf(u)']
      /\ SameStage(u) => StageView' = StageView
  BY <1>1, <1>2, <1>3 DEF StageView, SameStage
<1>5. /\ PermitView' = IF u \in permits' THEN PermitView \cup {u} ELSE PermitView \ {u}
      /\ SamePermit(u) => PermitView' = PermitView
  BY <1>1, <1>2 DEF PermitView, SamePermit, Regular
<1>6. /\ WorkView' = IF AtWork(u)' THEN WorkView \cup {u} ELSE WorkView \ {u}
      /\ SameWork(u) => WorkView' = WorkView
  BY <1>1, <1>2 DEF WorkView, SameWork, Regular
<1>7. /\ FlagView' = IF Flagged(u)' THEN FlagView \cup {u} ELSE FlagView \ {u}
      /\ SameFlag(u) => FlagView' = FlagView
  BY <1>1, <1>2 DEF FlagView, SameFlag, Regular
<1>8. /\ ToldView' = [ToldView EXCEPT ![u] = told'[u]]
      /\ told'[u] = told[u] => ToldView' = ToldView
  BY <1>1, <1>2 DEF ToldView
<1>9. /\ SavedView' = [SavedView EXCEPT ![u] = saved'[u]]
      /\ saved'[u] = saved[u] => SavedView' = SavedView
  BY <1>1, <1>2 DEF SavedView
<1>. QED BY <1>4, <1>5, <1>6, <1>7, <1>8, <1>9

(* What is seen of a stream is an action of the contract, or nothing. *)
LEMMA SeenIsContract ==
  ASSUME prone' = prone, NEW u \in Regular, Alone(u), Seen(u)
  PROVE  Contract!ContractStep(u) \/ UNCHANGED Contract!contractVars
<1> USE DEF StageView, PermitView, WorkView, FlagView, ToldView, SavedView
<1>0. /\ u \in Task
      /\ StageView[u] = StageOf(u)
      /\ u \in PermitView <=> u \in permits
      /\ u \in WorkView <=> AtWork(u)
      /\ u \in FlagView <=> Flagged(u)
  BY DEF Regular
<1> HIDE DEF StageView, PermitView, WorkView, FlagView, ToldView, SavedView
<1>1. CASE SeenIdle(u)
  <2>1. CASE SameWork(u)
    <3>1. UNCHANGED <<StageView, PermitView, WorkView, FlagView, ToldView, SavedView>>
      BY <1>1, <2>1, ViewFacts DEF SeenIdle, SameOutcome
    <3>. QED BY <3>1 DEF Contract!contractVars, StageView, PermitView, WorkView, FlagView, ToldView, SavedView
  <2>2. CASE ~ SameWork(u)
    <3>1. WorkView' = WorkView \ {u} /\ UNCHANGED <<StageView, PermitView, FlagView, ToldView, SavedView>>
      BY <1>1, <2>2, ViewFacts DEF SeenIdle, SameOutcome, NoNewWork, SameWork
    <3>2. Contract!EndWork(u)
      BY <3>1 DEF Contract!EndWork, StageView, PermitView, WorkView, FlagView, ToldView, SavedView
    <3>. QED BY <3>2 DEF Contract!ContractStep
  <2>. QED BY <2>1, <2>2
<1>2. CASE SeenEnter(u)
  <2>1. /\ StageView[u] = "new" /\ StageView' = [StageView EXCEPT ![u] = "queued"]
        /\ UNCHANGED <<PermitView, WorkView, FlagView, ToldView, SavedView>>
    BY <1>0, <1>2, ViewFacts DEF SeenEnter, SameOutcome
  <2>2. Contract!Enter(u)
    BY <2>1 DEF Contract!Enter, Contract!Reach, StageView, PermitView, WorkView, FlagView, ToldView, SavedView
  <2>. QED BY <2>2 DEF Contract!ContractStep
<1>3. CASE SeenRefuse(u)
  <2>1. /\ StageView[u] \in {"new", "queued"} /\ StageView' = [StageView EXCEPT ![u] = "ended"]
        /\ ToldView' = [ToldView EXCEPT ![u] = <<"error">>] /\ FlagView' = FlagView \ {u}
        /\ UNCHANGED <<PermitView, WorkView, SavedView>>
    BY <1>0, <1>3, ViewFacts DEF SeenRefuse
  <2>2. Contract!Refuse(u)
    BY <2>1 DEF Contract!Refuse, Contract!Reach, StageView, PermitView, WorkView, FlagView, ToldView, SavedView
  <2>. QED BY <2>2 DEF Contract!ContractStep
<1>4. CASE SeenAdmit(u)
  <2>1. /\ StageView[u] = "queued" /\ StageView' = [StageView EXCEPT ![u] = "admitted"]
        /\ PermitView' = PermitView \cup {u}
        /\ UNCHANGED <<WorkView, FlagView, ToldView, SavedView>>
    BY <1>0, <1>4, ViewFacts DEF SeenAdmit, SameOutcome
  <2>2. Contract!Admit(u)
    BY <2>1 DEF Contract!Admit, Contract!Reach, StageView, PermitView, WorkView, FlagView, ToldView, SavedView
  <2>. QED BY <2>2 DEF Contract!ContractStep
<1>5. CASE SeenBeginWork(u)
  <2>1. /\ StageView[u] = "admitted" /\ u \in PermitView \ FlagView /\ WorkView' = WorkView \cup {u}
        /\ UNCHANGED <<StageView, PermitView, FlagView, ToldView, SavedView>>
    BY <1>0, <1>5, ViewFacts DEF SeenBeginWork, SameOutcome
  <2>2. Contract!BeginWork(u)
    BY <2>1 DEF Contract!BeginWork, StageView, PermitView, WorkView, FlagView, ToldView, SavedView
  <2>. QED BY <2>2 DEF Contract!ContractStep
<1>6. CASE SeenCancel(u)
  <2>1. /\ StageView[u] \in {"queued", "admitted", "concluded"} /\ FlagView' = FlagView \cup {u}
        /\ WorkView' \in {WorkView, WorkView \ {u}}
        /\ UNCHANGED <<StageView, PermitView, ToldView, SavedView>>
    BY <1>0, <1>6, ViewFacts DEF SeenCancel, SameOutcome, NoNewWork, SameWork
  <2>2. Contract!Cancel(u)
    BY <2>1 DEF Contract!Cancel, StageView, PermitView, WorkView, FlagView, ToldView, SavedView
  <2>. QED BY <2>2 DEF Contract!ContractStep
<1>7. CASE SeenEnd(u)
  <2>1. ASSUME NEW how, NEW replies, SeenConclude(u, how, replies)
        PROVE  \E reply \in replies : Contract!Conclude(u, how, reply)
    <3>1. /\ StageView' = [StageView EXCEPT ![u] = "concluded"] /\ WorkView' = WorkView \ {u}
          /\ ToldView' = [ToldView EXCEPT ![u] = how] /\ SavedView' = [SavedView EXCEPT ![u] = saved'[u]]
          /\ PermitView' = PermitView
      BY <2>1, ViewFacts DEF SeenConclude
    <3>2. ASSUME NEW reply, reply = saved'[u] PROVE Contract!Conclude(u, how, reply)
      BY <3>1, <3>2 DEF Contract!Conclude, Contract!Reach, StageView, PermitView, WorkView, ToldView, SavedView
    <3>3. \E reply \in replies : reply = saved'[u]
      BY <2>1 DEF SeenConclude
    <3>. QED BY <3>2, <3>3
  <2>2. SameFlag(u) => FlagView' = FlagView
    BY ViewFacts
  <2>3. CASE SeenConclude(u, <<"reject">>, {<<>>, <<"rejection">>}) /\ StageOf(u) = "queued" /\ SameFlag(u)
    <3>1. Contract!Reject(u)
      BY <1>0, <2>1, <2>2, <2>3 DEF Contract!Reject, StageView, FlagView
    <3>. QED BY <3>1 DEF Contract!ContractStep
  <2>4. CASE /\ SeenConclude(u, <<"error">>, {<<>>}) /\ StageOf(u) \in {"queued", "admitted"} /\ SameFlag(u)
    <3>1. Contract!Fail(u)
      BY <1>0, <2>1, <2>2, <2>4 DEF Contract!Fail, StageView, FlagView
    <3>. QED BY <3>1 DEF Contract!ContractStep
  <2>5. CASE SeenConclude(u, <<"finish">>, {<<"full">>}) /\ StageOf(u) = "admitted" /\ SameFlag(u)
    <3>1. Contract!Finish(u)
      BY <1>0, <2>1, <2>2, <2>5 DEF Contract!Finish, StageView, FlagView
    <3>. QED BY <3>1 DEF Contract!ContractStep
  <2>6. CASE SeenConclude(u, <<"cancel">>, {<<>>}) /\ StageOf(u) = "queued" /\ Flagged(u) /\ SameFlag(u)
    <3>1. Contract!Stop(u)
      BY <1>0, <2>1, <2>2, <2>6 DEF Contract!Stop, StageView, FlagView
    <3>. QED BY <3>1 DEF Contract!ContractStep
  <2>7. CASE /\ SeenConclude(u, <<"cancel">>, {<<>>, <<"part">>}) /\ StageOf(u) = "admitted"
             /\ Flagged(u) /\ SameFlag(u)
    <3>1. Contract!Stop(u)
      BY <1>0, <2>1, <2>2, <2>7 DEF Contract!Stop, StageView, FlagView
    <3>. QED BY <3>1 DEF Contract!ContractStep
  <2>8. CASE SeenConclude(u, <<>>, {<<>>, <<"part">>}) /\ StageOf(u) = "admitted" /\ Flagged(u)'
    <3>1. FlagView' = FlagView \cup {u}
      BY <2>8, ViewFacts
    <3>2. Contract!HangUp(u)
      BY <1>0, <2>1, <2>8, <3>1 DEF Contract!HangUp, StageView, FlagView
    <3>. QED BY <3>2 DEF Contract!ContractStep
  <2>. QED BY <1>7, <2>3, <2>4, <2>5, <2>6, <2>7, <2>8 DEF SeenEnd
<1>8. CASE SeenRelease(u)
  <2>1. /\ StageView[u] = "concluded" /\ StageView' = [StageView EXCEPT ![u] = "ended"]
        /\ PermitView' = PermitView \ {u}
        /\ UNCHANGED <<WorkView, FlagView, ToldView, SavedView>>
    BY <1>0, <1>8, ViewFacts DEF SeenRelease, SameOutcome
  <2>2. Contract!Release(u)
    BY <2>1 DEF Contract!Release, Contract!Reach, StageView, PermitView, WorkView, FlagView, ToldView, SavedView
  <2>. QED BY <2>2 DEF Contract!ContractStep
<1>9. CASE SeenForget(u)
  <2>1. /\ StageView[u] = "ended" /\ FlagView' = FlagView \ {u}
        /\ UNCHANGED <<StageView, PermitView, WorkView, ToldView, SavedView>>
    BY <1>0, <1>9, ViewFacts DEF SeenForget, SameOutcome
  <2>2. Contract!Forget(u)
    BY <2>1 DEF Contract!Forget, StageView, PermitView, WorkView, FlagView, ToldView, SavedView
  <2>. QED BY <2>2 DEF Contract!ContractStep
<1>. QED BY <1>1, <1>2, <1>3, <1>4, <1>5, <1>6, <1>7, <1>8, <1>9 DEF Seen

(* The contract sees nothing of the other streams. *)
LEMMA Unseen ==
  ASSUME prone' = prone, NEW u \in Task \ Regular, Alone(u)
  PROVE  UNCHANGED Contract!contractVars
<1>1. Regular' = Regular /\ \A v \in Regular : v \in Task \ {u}
  BY DEF Regular, Interruptible, Tardy
<1>2. \A v \in Task : StageOf(v)' = StageOf(v)
  BY <1>1 DEF Alone, StageOf
<1>3. \A v \in Regular : /\ AtWork(v)' <=> AtWork(v)
                         /\ Flagged(v)' <=> Flagged(v)
                         /\ v \in permits' <=> v \in permits
                         /\ told'[v] = told[v] /\ saved'[v] = saved[v]
  BY <1>1 DEF Alone, AtWork, Flagged
<1>4. UNCHANGED <<StageView, PermitView, WorkView, FlagView>>
  BY <1>1, <1>2, <1>3 DEF StageView, PermitView, WorkView, FlagView
<1>5. UNCHANGED <<ToldView, SavedView>>
  BY <1>1, <1>3 DEF ToldView, SavedView
<1>. QED BY <1>4, <1>5 DEF Contract!contractVars, StageView, PermitView, WorkView, FlagView, ToldView, SavedView

(* A stream keeps its contract: see ImplementsContract. *)
THEOREM ContractRefinement == Spec => ImplementsContract
<1>1. Init => Contract!ContractInit
  <2> SUFFICES ASSUME Init PROVE Contract!ContractInit
    OBVIOUS
  <2>1. \A t \in Task : pc[t] = "new" /\ ~ Flagged(t) /\ ~ AtWork(t) /\ told[t] = <<>> /\ saved[t] = <<>>
    BY DEF Init, Flagged, AtWork
  <2>2. StageView = [t \in Task |-> "new"]
    <3>1. \A t \in Task : StageOf(t) = "new"
      BY <2>1 DEF StageOf, Queued, Over
    <3>. QED BY <3>1 DEF StageView
  <2>3. PermitView = {} /\ WorkView = {} /\ FlagView = {}
    BY <2>1 DEF Init, PermitView, WorkView, FlagView, Regular
  <2>4. ToldView = [t \in Task |-> <<>>] /\ SavedView = [t \in Task |-> <<>>]
    BY <2>1 DEF ToldView, SavedView
  <2>. QED BY <2>2, <2>3, <2>4 DEF Contract!ContractInit, StageView, PermitView, WorkView, FlagView, ToldView, SavedView
<1>2. IInv /\ IInv' /\ [Next]_vars => [Contract!ContractNext]_Contract!contractVars
  <2> SUFFICES ASSUME IInv, IInv', [Next]_vars
               PROVE  Contract!ContractNext \/ UNCHANGED Contract!contractVars
    OBVIOUS
  <2>1. TypeOK /\ prone' = prone
    BY ProneStays DEF IInv
  <2>2. CASE UNCHANGED vars
    BY <2>2 DEF vars, work, queue, outcome, redis, cancelling,
       Contract!contractVars, StageOf, Regular, Interruptible, Tardy, AtWork, Flagged
  <2>3. ASSUME NEW u \in Task, Moves(u)
        PROVE  Contract!ContractNext \/ UNCHANGED Contract!contractVars
    <3>1. Alone(u)
      BY <2>1, <2>3, OneMoves
    <3>2. CASE u \notin Regular
      BY <2>1, <3>1, <3>2, Unseen
    <3>3. CASE u \in Regular
      <4>1. u \in Regular /\ Stage(u) /\ Jobs(u) /\ Outcome(u) /\ Jobs(u)'
        BY <2>1, <3>3 DEF IInv, Regular, Interruptible
      <4>2. Seen(u)
        BY <2>1, <2>3, <4>1, SeenMoves
      <4>3. Contract!ContractStep(u) \/ UNCHANGED Contract!contractVars
        BY <2>1, <3>1, <4>1, <4>2, SeenIsContract
      <4>. QED BY <4>3 DEF Contract!ContractNext
    <3>. QED BY <3>2, <3>3
  <2>. QED BY <2>2, <2>3 DEF Next, Moves
<1>. QED BY <1>1, <1>2, Invariance, PTL DEF Spec, ImplementsContract, Contract!ContractSpec

(* A preparation that outlives its stream is one of a stream that the      *)
(* server has interrupted: where none is, DisconnectStopsPreparation holds. *)
THEOREM OnlyInterruptsLeavePreparation ==
  /\ Spec => [](\A t \in Task : pc[t] = "ended" /\ prep[t] = "running" => t \in Interruptible)
  /\ Spec => [](Interruptible = {} => DisconnectStopsPreparation)
<1>1. IInv => \A t \in Task : pc[t] = "ended" /\ prep[t] = "running" => t \in Interruptible
  BY DEF IInv, Jobs
<1>2. IInv => (Interruptible = {} => DisconnectStopsPreparation)
  BY DEF IInv, Jobs, DisconnectStopsPreparation
<1>3. Spec => [](\A t \in Task : pc[t] = "ended" /\ prep[t] = "running" => t \in Interruptible)
  BY <1>1, Invariance, PTL
<1>4. Spec => [](Interruptible = {} => DisconnectStopsPreparation)
  BY <1>2, Invariance, PTL
<1>. QED BY <1>3, <1>4

=============================================================================
