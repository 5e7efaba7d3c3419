---------------------------- MODULE StreamLifecycle ----------------------------
(***************************************************************************)
(* A stream from its registration to its finalization: StreamChatService,  *)
(* StreamTaskManager with its Redis backend, and the bounded queue between *)
(* the model's callbacks and the stream.                                   *)
(*                                                                         *)
(* One action is the code between two awaits that suspend, or between two  *)
(* events handed to the client: at a yield the coroutine stands until the  *)
(* client has taken the event.  Beside it run the preparation task, the    *)
(* task that starts the model, the model's client task, the cancellations  *)
(* of any process, and the listener that hears of them.                    *)
(*                                                                         *)
(* Of a reply only its kind is seen (reasoning, text, how it ends).        *)
(***************************************************************************)
EXTENDS Naturals, Sequences

CONSTANTS
  Task,            \* streams of one process; every stream has a task id of its own
  Capacity,        \* STREAM_CALLBACK_QUEUE_MAX_EVENTS
  Troubles         \* the sets of troubles that may come together in one stream

(***************************************************************************)
(* redis: calls to Redis may fail; deaf: the listener may miss the         *)
(* cancellation; interrupt: the server may cancel the coroutine, or close  *)
(* the generator; late: a first token may come as late as the time-out.    *)
(***************************************************************************)
Trouble == {"redis", "deaf", "interrupt", "late"}

ASSUME CapacityAssumption == Capacity \in Nat \ {0}
ASSUME TroubleAssumption == Troubles \subseteq SUBSET Trouble

VARIABLES
  pc,          \* where each stream's coroutine stands
  entry,       \* _tasks of the registry: no entry, a live one, a cancelled one
  prep,        \* the preparation task
  start,       \* the task that starts the model
  model,       \* the client task of the model
  bound,       \* streams that have the model's handle
  events,      \* the queue of each stream
  overflowed,  \* streams whose queue has overflowed
  heard,       \* streams that have relayed text
  permits,     \* streams that hold an admission permit
  told,        \* how the client has been told that the stream ends
  saved,       \* the replies saved for each stream
  marker,      \* Redis: cancellation markers
  owners,      \* Redis: owner keys
  messages,    \* Redis: cancellations on their way to the listener
  canceller,   \* the progress of a cancellation of each stream
  here,        \* cancellations that come in at the stream's own process
  prone        \* what may go wrong for each stream; it never changes

vars == <<pc, entry, prep, start, model, bound, events, overflowed, heard, permits,
          told, saved, marker, owners, messages, canceller, here, prone>>

work == <<prep, start, model, bound>>
queue == <<events, overflowed>>
outcome == <<told, saved>>
redis == <<marker, owners, messages>>
cancelling == <<canceller, here, prone>>

(* Awaits in stream() and register(). *)
AwaitPc == {"acquiring", "rejecting", "preparing", "starting", "relaying", "awaiting",
            "hangup", "broadcast", "saving", "interrupting", "hanging"}

(* Yields; relaying is the top of the loop, after a yield or a time-out. *)
YieldPc == {"registered", "granted", "prepared", "relaying"}

(* The finally block and finalize(); closing is the yield of the last events. *)
FinalPc == {"closing", "releasing", "clearing", "disowning"}

Pc == {"new", "owner", "marker", "ended"} \cup AwaitPc \cup YieldPc \cup FinalPc

Job == {"none", "running", "ready", "failed", "cancelled"}

Ending == {"reject", "error", "cancel", "finish"}

Unlucky == {t \in Task : "redis" \in prone[t]}

Deaf == {t \in Task : "deaf" \in prone[t]}

Interruptible == {t \in Task : "interrupt" \in prone[t]}

Tardy == {t \in Task : "late" \in prone[t]}

Flagged(t) == entry[t] = "cancelled"

Init ==
  /\ pc = [t \in Task |-> "new"]
  /\ entry = [t \in Task |-> "none"]
  /\ prep = [t \in Task |-> "none"]
  /\ start = [t \in Task |-> "none"]
  /\ model = [t \in Task |-> "none"]
  /\ bound = {}
  /\ events = [t \in Task |-> <<>>]
  /\ overflowed = {}
  /\ heard = {}
  /\ permits = {}
  /\ told = [t \in Task |-> <<>>]
  /\ saved = [t \in Task |-> <<>>]
  /\ marker = {}
  /\ owners = {}
  /\ messages = {}
  /\ canceller = [t \in Task |-> "idle"]
  /\ here = {}
  /\ prone \in [Task -> Troubles]

-----------------------------------------------------------------------------
(* Helpers.                                                                *)

Goto(t, place) == pc' = [pc EXCEPT ![t] = place]

(* The terminal event and done. *)
Tell(t, how) ==
  /\ told' = [told EXCEPT ![t] = Append(@, how)]
  /\ Goto(t, "closing")

(* A job that runs is cancelled if the condition holds. *)
Cancelled(job, t, condition) ==
  [job EXCEPT ![t] = IF condition /\ @ = "running" THEN "cancelled" ELSE @]

(* handle.cancel(), whichever handle the registry has. *)
CancelHandle(t) ==
  /\ prep' = Cancelled(prep, t, TRUE)
  /\ start' = Cancelled(start, t, TRUE)
  /\ model' = Cancelled(model, t, t \in bound \/ start[t] = "running")
  /\ UNCHANGED bound

(* StreamTaskManager.cancel_local, which forgets those it does not know. *)
CancelLocal(t) ==
  \/ /\ entry[t] = "live"
     /\ entry' = [entry EXCEPT ![t] = "cancelled"]
     /\ CancelHandle(t)
  \/ /\ entry[t] # "live"
     /\ UNCHANGED <<entry, work>>

(* mark_cancelled and publish_cancel, which Redis may fail. *)
MarkerSet(t) == marker' \in {marker \cup {t}} \cup (IF t \in Unlucky THEN {marker} ELSE {})

MessageSent(t) == messages' \in {messages \cup {t}} \cup (IF t \in Unlucky THEN {messages} ELSE {})

(* The stream ends as cancelled: what has been relayed is saved first. *)
EndCancelled(t) ==
  \/ t \in heard /\ Goto(t, "interrupting") /\ UNCHANGED told
  \/ t \notin heard /\ Tell(t, "cancel")

(* except Exception *)
EndFailed(t) ==
  \/ Flagged(t) /\ EndCancelled(t)
  \/ ~ Flagged(t) /\ Tell(t, "error")

-----------------------------------------------------------------------------
(* StreamTaskManager.register.                                             *)

(* The registry may be full of other streams. *)
Register(t) ==
  /\ pc[t] = "new"
  /\ \/ /\ told' = [told EXCEPT ![t] = Append(@, "error")]
        /\ Goto(t, "ended")
        /\ UNCHANGED entry
     \/ /\ entry' = [entry EXCEPT ![t] = "live"]
        /\ Goto(t, "owner")
        /\ UNCHANGED told
  /\ UNCHANGED <<work, queue, heard, permits, saved, redis, cancelling>>

RegisterOwner(t) ==
  /\ pc[t] = "owner"
  /\ \/ /\ owners' = owners \cup {t}
        /\ Goto(t, "marker")
        /\ UNCHANGED <<entry, told>>
     \/ /\ t \in Unlucky
        /\ owners' \in {owners, owners \cup {t}}
        /\ entry' = [entry EXCEPT ![t] = "none"]
        /\ told' = [told EXCEPT ![t] = Append(@, "error")]
        /\ Goto(t, "ended")
  /\ UNCHANGED <<work, queue, heard, permits, saved, marker, messages, cancelling>>

(* A read that fails counts as no marker. *)
ReadMarker(t) ==
  /\ pc[t] = "marker"
  /\ Goto(t, "registered")
  /\ \/ t \in marker /\ CancelLocal(t)
     \/ (t \notin marker \/ t \in Unlucky) /\ UNCHANGED <<entry, work>>
  /\ UNCHANGED <<queue, heard, permits, outcome, redis, cancelling>>

-----------------------------------------------------------------------------
(* StreamChatService.stream, up to the answer.                             *)

Begin(t) ==
  /\ pc[t] = "registered"
  /\ \/ Flagged(t) /\ EndCancelled(t)
     \/ ~ Flagged(t) /\ Goto(t, "acquiring") /\ UNCHANGED told
  /\ UNCHANGED <<entry, work, queue, heard, permits, saved, redis, cancelling>>

(* What acquire answers; a permit may still come after the flag is up. *)
Acquire(t) ==
  /\ pc[t] = "acquiring"
  /\ \/ permits' = permits \cup {t} /\ Goto(t, "granted") /\ UNCHANGED told
     \/ Flagged(t) /\ EndCancelled(t) /\ UNCHANGED permits
     \/ Goto(t, "rejecting") /\ UNCHANGED <<permits, told>>
     \/ Tell(t, "error") /\ UNCHANGED permits
  /\ UNCHANGED <<entry, work, queue, heard, saved, redis, cancelling>>

(* The rejection is saved as a turn of the conversation, if that works. *)
Reject(t) ==
  /\ pc[t] = "rejecting"
  /\ \/ saved' = [saved EXCEPT ![t] = Append(@, "rejection")]
     \/ UNCHANGED saved
  /\ Tell(t, "reject")
  /\ UNCHANGED <<entry, work, queue, heard, permits, redis, cancelling>>

(* The preparation task is created and bound. *)
Prepare(t) ==
  /\ pc[t] = "granted"
  /\ \/ Flagged(t) /\ prep' = [prep EXCEPT ![t] = "cancelled"] /\ EndCancelled(t)
     \/ /\ ~ Flagged(t)
        /\ prep' = [prep EXCEPT ![t] = "running"]
        /\ Goto(t, "preparing") /\ UNCHANGED told
  /\ UNCHANGED <<entry, start, model, bound, queue, heard, permits, saved, redis, cancelling>>

(* _await_preparation and the check after it; a disconnection it notices is *)
(* a cancellation that comes in here (Ask), as one noticed by acquire is.   *)
AwaitPreparation(t) ==
  /\ pc[t] = "preparing"
  /\ \/ prep[t] \in {"ready", "cancelled"} /\ Flagged(t) /\ EndCancelled(t)
     \/ prep[t] = "ready" /\ ~ Flagged(t) /\ Goto(t, "prepared") /\ UNCHANGED told
     \/ prep[t] = "failed" /\ EndFailed(t)
  /\ UNCHANGED <<entry, work, queue, heard, permits, saved, redis, cancelling>>

(* The start task is created and bound. *)
StartModel(t) ==
  /\ pc[t] = "prepared"
  /\ \/ Flagged(t) /\ start' = [start EXCEPT ![t] = "cancelled"] /\ EndCancelled(t)
     \/ /\ ~ Flagged(t)
        /\ start' = [start EXCEPT ![t] = "running"]
        /\ Goto(t, "starting") /\ UNCHANGED told
  /\ UNCHANGED <<entry, prep, model, bound, queue, heard, permits, saved, redis, cancelling>>

(* Faulty variant: nobody looks at the flag when the handle is bound. *)
AwaitStartUnchecked(t) ==
  /\ pc[t] = "starting"
  /\ \/ /\ start[t] = "ready"
        /\ bound' = bound \cup {t}
        /\ model' = Cancelled(model, t, t \in overflowed)
        /\ Goto(t, "relaying") /\ UNCHANGED told
     \/ /\ \/ start[t] = "failed" /\ EndFailed(t)
           \/ start[t] = "cancelled" /\ Flagged(t) /\ EndCancelled(t)
        /\ UNCHANGED <<model, bound>>
  /\ UNCHANGED <<entry, prep, start, queue, heard, permits, saved, redis, cancelling>>

(* The model's handle is bound, and cancelled if the flag is up or the      *)
(* queue has overflowed already.                                            *)
AwaitStart(t) ==
  /\ pc[t] = "starting"
  /\ \/ /\ start[t] = "ready"
        /\ bound' = bound \cup {t}
        /\ model' = Cancelled(model, t, t \in overflowed \/ Flagged(t))
        /\ \/ Flagged(t) /\ EndCancelled(t)
           \/ ~ Flagged(t) /\ Goto(t, "relaying") /\ UNCHANGED told
     \/ /\ \/ start[t] = "failed" /\ EndFailed(t)
           \/ start[t] = "cancelled" /\ Flagged(t) /\ EndCancelled(t)
        /\ UNCHANGED <<model, bound>>
  /\ UNCHANGED <<entry, prep, start, queue, heard, permits, saved, redis, cancelling>>

-----------------------------------------------------------------------------
(* The loop that relays the answer.                                        *)

(* The checks at its top, in their order; the client may turn out to have gone. *)
Loop(t) ==
  /\ pc[t] = "relaying"
  /\ \/ /\ t \in overflowed
        /\ model' = Cancelled(model, t, TRUE)
        /\ Tell(t, "error")
     \/ /\ t \notin overflowed
        /\ UNCHANGED model
        /\ \/ Goto(t, "hangup") /\ UNCHANGED told
           \/ Flagged(t) /\ EndCancelled(t)
           \/ ~ Flagged(t) /\ Goto(t, "awaiting") /\ UNCHANGED told
  /\ UNCHANGED <<entry, prep, start, bound, queue, heard, permits, saved, redis, cancelling>>

(* Faulty variant: the loop waits for the next event as long as it takes. *)
NextEventNoTimeout(t) ==
  /\ pc[t] = "awaiting"
  /\ events[t] # <<>>
  /\ events' = [events EXCEPT ![t] = Tail(@)]
  /\ LET event == Head(events[t])
     IN  /\ heard' = IF event = "content" THEN heard \cup {t} ELSE heard
         /\ \/ event \in {"thinking", "content"} /\ Goto(t, "relaying") /\ UNCHANGED told
            \/ event = "error" /\ EndFailed(t)
            \/ event = "complete" /\ t \in heard /\ Goto(t, "saving") /\ UNCHANGED told
            \/ event = "complete" /\ t \notin heard /\ Tell(t, "error")
  /\ UNCHANGED <<entry, work, overflowed, permits, saved, redis, cancelling>>

(* The next event of the queue, or a time-out when there is none. *)
NextEvent(t) ==
  /\ pc[t] = "awaiting"
  /\ \/ /\ events[t] = <<>>
        /\ Goto(t, "relaying")
        /\ UNCHANGED <<events, heard, told>>
     \/ /\ events[t] # <<>>
        /\ events' = [events EXCEPT ![t] = Tail(@)]
        /\ LET event == Head(events[t])
           IN  /\ heard' = IF event = "content" THEN heard \cup {t} ELSE heard
               /\ \/ event \in {"thinking", "content"} /\ Goto(t, "relaying") /\ UNCHANGED told
                  \/ event = "error" /\ EndFailed(t)
                  \/ event = "complete" /\ t \in heard /\ Goto(t, "saving") /\ UNCHANGED told
                  \/ event = "complete" /\ t \notin heard /\ Tell(t, "error")
  /\ UNCHANGED <<entry, work, overflowed, permits, saved, redis, cancelling>>

(* The client is gone: the stream cancels itself as anybody would. *)
HangUpMark(t) ==
  /\ pc[t] = "hangup"
  /\ MarkerSet(t)
  /\ Goto(t, "broadcast")
  /\ UNCHANGED <<entry, work, queue, heard, permits, outcome, owners, messages, cancelling>>

(* Faulty variant: a stream whose client is gone just returns. *)
HangUpUnheard(t) ==
  /\ pc[t] = "broadcast"
  /\ Goto(t, IF t \in heard THEN "hanging" ELSE "closing")
  /\ UNCHANGED <<entry, work, queue, heard, permits, outcome, redis, cancelling>>

HangUp(t) ==
  /\ pc[t] = "broadcast"
  /\ MessageSent(t)
  /\ CancelLocal(t)
  /\ Goto(t, IF t \in heard THEN "hanging" ELSE "closing")
  /\ UNCHANGED <<queue, heard, permits, outcome, marker, owners, cancelling>>

(* Faulty variant: the client is told of an answer that could not be saved. *)
SaveUnchecked(t) ==
  /\ pc[t] = "saving"
  /\ saved' \in {saved, [saved EXCEPT ![t] = Append(@, "full")]}
  /\ Tell(t, "finish")
  /\ UNCHANGED <<entry, work, queue, heard, permits, redis, cancelling>>

(* The answer is saved, and the client told; a flag that comes up meanwhile is too late. *)
Save(t) ==
  /\ pc[t] = "saving"
  /\ \/ saved' = [saved EXCEPT ![t] = Append(@, "full")] /\ Tell(t, "finish")
     \/ UNCHANGED saved /\ EndFailed(t)
  /\ UNCHANGED <<entry, work, queue, heard, permits, redis, cancelling>>

(* cancelled_payload saves the part that has been relayed, if that works. *)
SavePart(t) ==
  /\ saved' \in {saved, [saved EXCEPT ![t] = Append(@, "part")]}
  /\ \/ pc[t] = "interrupting" /\ Tell(t, "cancel")
     \/ pc[t] = "hanging" /\ Goto(t, "closing") /\ UNCHANGED told
  /\ UNCHANGED <<entry, work, queue, heard, permits, redis, cancelling>>

-----------------------------------------------------------------------------
(* The finally block and StreamTaskManager.finalize.                       *)

Leave(t) ==
  /\ pc[t] = "closing"
  /\ start' = Cancelled(start, t, TRUE)
  /\ model' = Cancelled(model, t, start[t] = "running" \/ (t \in bound /\ Flagged(t)))
  /\ Goto(t, "releasing")
  /\ UNCHANGED <<entry, prep, bound, queue, heard, permits, outcome, redis, cancelling>>

(* Faulty variant: a stream without a permit is not finalized. *)
ReleaseHasty(t) ==
  /\ pc[t] = "releasing"
  /\ permits' = permits \ {t}
  /\ \/ t \notin permits /\ Goto(t, "ended") /\ UNCHANGED entry
     \/ t \in permits /\ Flagged(t) /\ Goto(t, "ended") /\ UNCHANGED entry
     \/ /\ t \in permits /\ ~ Flagged(t)
        /\ entry' = [entry EXCEPT ![t] = "none"]
        /\ Goto(t, "clearing")
  /\ UNCHANGED <<work, queue, heard, outcome, redis, cancelling>>

(* The permit is back; the entry of a cancelled stream stays as a tombstone. *)
Release(t) ==
  /\ pc[t] = "releasing"
  /\ permits' = permits \ {t}
  /\ \/ /\ Flagged(t)
        /\ Goto(t, "ended")
        /\ UNCHANGED entry
     \/ /\ ~ Flagged(t)
        /\ entry' = [entry EXCEPT ![t] = "none"]
        /\ Goto(t, "clearing")
  /\ UNCHANGED <<work, queue, heard, outcome, redis, cancelling>>

ClearMarker(t) ==
  /\ pc[t] = "clearing"
  /\ marker' \in {marker \ {t}} \cup (IF t \in Unlucky THEN {marker} ELSE {})
  /\ Goto(t, "disowning")
  /\ UNCHANGED <<entry, work, queue, heard, permits, outcome, owners, messages, cancelling>>

ClearOwner(t) ==
  /\ pc[t] = "disowning"
  /\ owners' \in {owners \ {t}} \cup (IF t \in Unlucky THEN {owners} ELSE {})
  /\ Goto(t, "ended")
  /\ UNCHANGED <<entry, work, queue, heard, permits, outcome, marker, messages, cancelling>>

(* Tombstone, marker and owner key outlive the stream by one TTL. *)
Forget(t) ==
  /\ pc[t] = "ended"
  /\ Flagged(t) \/ t \in marker \cup owners
  /\ entry' = [entry EXCEPT ![t] = IF Flagged(t) THEN "none" ELSE @]
  /\ marker' = marker \ {t}
  /\ owners' = owners \ {t}
  /\ UNCHANGED <<pc, work, queue, heard, permits, outcome, messages, cancelling>>

-----------------------------------------------------------------------------
(* The tasks beside the stream.                                            *)

PreparationEnds(t) ==
  /\ prep[t] = "running"
  /\ \E how \in {"ready", "failed"} : prep' = [prep EXCEPT ![t] = how]
  /\ UNCHANGED <<pc, entry, start, model, bound, queue, heard, permits, outcome, redis, cancelling>>

(* Faulty variant: an event for which there is no place is dropped. *)
PushLossy(t, event) ==
  /\ events' = IF Len(events[t]) < Capacity THEN [events EXCEPT ![t] = Append(@, event)] ELSE events
  /\ UNCHANGED overflowed

(* Faulty variant: the queue has one place more. *)
PushBeyond(t, event) ==
  /\ events' = IF Len(events[t]) <= Capacity THEN [events EXCEPT ![t] = Append(@, event)] ELSE events
  /\ overflowed' = IF Len(events[t]) <= Capacity THEN overflowed ELSE overflowed \cup {t}

(* _QueueStreamCallback._push: nothing is taken after an overflow. *)
Push(t, event) ==
  \/ t \in overflowed /\ UNCHANGED queue
  \/ /\ t \notin overflowed
     /\ Len(events[t]) < Capacity
     /\ events' = [events EXCEPT ![t] = Append(@, event)]
     /\ UNCHANGED overflowed
  \/ /\ t \notin overflowed
     /\ Len(events[t]) = Capacity
     /\ overflowed' = overflowed \cup {t}
     /\ UNCHANGED events

(* The model speaks, perhaps before start() has returned; an overflow cancels it once bound. *)
Speak(t) ==
  /\ model[t] = "running" \/ (start[t] = "running" /\ model[t] = "none")
  /\ \E event \in {"thinking", "content"} : Push(t, event)
  /\ model' = [model EXCEPT ![t] = IF t \in overflowed' \cap bound THEN "cancelled" ELSE "running"]
  /\ UNCHANGED <<pc, entry, prep, start, bound, heard, permits, outcome, redis, cancelling>>

ModelEnds(t) ==
  /\ model[t] = "running"
  /\ \E event \in {"complete", "error"} : Push(t, event)
  /\ model' = [model EXCEPT ![t] = "ready"]
  /\ UNCHANGED <<pc, entry, prep, start, bound, heard, permits, outcome, redis, cancelling>>

(***************************************************************************)
(* The time-out and the first token come together: what the model said has *)
(* been pushed, and start() leaves it all the same.  It is silenced, and   *)
(* start() waits for the next one, or fails if there is none.              *)
(***************************************************************************)
Relapse(t) ==
  /\ t \in Tardy
  /\ start[t] = "running" /\ model[t] # "none"
  /\ model' = [model EXCEPT ![t] = "none"]
  /\ \E how \in {"running", "failed"} : start' = [start EXCEPT ![t] = how]
  /\ UNCHANGED <<pc, entry, prep, bound, queue, heard, permits, outcome, redis, cancelling>>

(* start() returns after the first token, or fails without one. *)
StartEnds(t) ==
  /\ start[t] = "running"
  /\ start' = [start EXCEPT ![t] = IF model[t] = "none" THEN "failed" ELSE "ready"]
  /\ UNCHANGED <<pc, entry, prep, model, bound, queue, heard, permits, outcome, redis, cancelling>>

-----------------------------------------------------------------------------
(* StreamTaskManager.cancel, on the stream's process or on another one.    *)

(* The owner is known at the stream's own process, and read from Redis elsewhere. *)
Ask(t) ==
  /\ canceller[t] = "idle"
  /\ canceller' = [canceller EXCEPT ![t] = "marking"]
  /\ \/ entry[t] # "none" /\ here' = here \cup {t}
     \/ t \in owners /\ UNCHANGED here
  /\ UNCHANGED <<pc, entry, work, queue, heard, permits, outcome, redis, prone>>

Mark(t) ==
  /\ canceller[t] = "marking"
  /\ canceller' = [canceller EXCEPT ![t] = "publishing"]
  /\ MarkerSet(t)
  /\ UNCHANGED <<pc, entry, work, queue, heard, permits, outcome, owners, messages, here, prone>>

Publish(t) ==
  /\ canceller[t] = "publishing"
  /\ canceller' = [canceller EXCEPT ![t] = "idle"]
  /\ here' = here \ {t}
  /\ MessageSent(t)
  /\ \/ t \in here /\ CancelLocal(t)
     \/ t \notin here /\ UNCHANGED <<entry, work>>
  /\ UNCHANGED <<pc, queue, heard, permits, outcome, marker, owners, prone>>

(* The listener of the stream's process; what comes while it reconnects is lost. *)
Listen(t) ==
  /\ t \in messages
  /\ messages' = messages \ {t}
  /\ \/ CancelLocal(t)
     \/ t \in Deaf /\ UNCHANGED <<entry, work>>
  /\ UNCHANGED <<pc, queue, heard, permits, outcome, marker, owners, cancelling>>

-----------------------------------------------------------------------------
(* The server cancels the coroutine (at an await) or closes the generator  *)
(* (at a yield), as it does when the client has gone.                      *)

(* The start task is awaited directly, and cancelled with the stream. *)
InterruptJobs(t) ==
  IF pc[t] = "starting"
  THEN /\ start' = Cancelled(start, t, TRUE)
       /\ model' = Cancelled(model, t, start[t] = "running")
       /\ UNCHANGED <<prep, bound>>
  ELSE UNCHANGED work

(* The call that is interrupted may have been run. *)
InterruptRedis(t) ==
  \/ UNCHANGED redis
  \/ pc[t] = "owner" /\ owners' = owners \cup {t} /\ UNCHANGED <<marker, messages>>
  \/ pc[t] = "hangup" /\ marker' = marker \cup {t} /\ UNCHANGED <<owners, messages>>
  \/ pc[t] = "broadcast" /\ messages' = messages \cup {t} /\ UNCHANGED <<marker, owners>>
  \/ pc[t] = "clearing" /\ marker' = marker \ {t} /\ UNCHANGED <<owners, messages>>
  \/ pc[t] = "disowning" /\ owners' = owners \ {t} /\ UNCHANGED <<marker, messages>>

(* What is being saved where the stream stands. *)
Saving == [saving |-> "full", interrupting |-> "part", hanging |-> "part", rejecting |-> "rejection"]

InterruptSaving(t) ==
  \/ UNCHANGED saved
  \/ pc[t] \in DOMAIN Saving /\ saved' = [saved EXCEPT ![t] = Append(@, Saving[pc[t]])]

(* A part is saved once; the client may not be told if the stream was failing. *)
Interrupt(t) ==
  /\ t \in Interruptible
  /\ \/ /\ pc[t] \in AwaitPc \ {"interrupting", "hanging"}
        /\ \/ Flagged(t) /\ EndCancelled(t)
           \/ ~ Flagged(t) /\ Goto(t, "closing") /\ UNCHANGED told
     \/ pc[t] \in {"interrupting", "hanging"} /\ Tell(t, "cancel")
     \/ pc[t] \in YieldPc \cup {"interrupting"} /\ Goto(t, "closing") /\ UNCHANGED told
     \/ pc[t] \in ({"owner", "marker"} \cup FinalPc) \ {"closing"} /\ Goto(t, "ended") /\ UNCHANGED told
  /\ InterruptJobs(t)
  /\ InterruptRedis(t)
  /\ InterruptSaving(t)
  /\ UNCHANGED <<entry, queue, heard, permits, cancelling>>

-----------------------------------------------------------------------------

(* The stream's own coroutine. *)
StreamStep(t) ==
  \/ RegisterOwner(t) \/ ReadMarker(t) \/ Begin(t) \/ Acquire(t) \/ Reject(t)
  \/ Prepare(t) \/ AwaitPreparation(t) \/ StartModel(t) \/ AwaitStart(t)
  \/ Loop(t) \/ NextEvent(t) \/ HangUpMark(t) \/ HangUp(t) \/ Save(t) \/ SavePart(t)
  \/ Leave(t) \/ Release(t) \/ ClearMarker(t) \/ ClearOwner(t)

Next ==
  \E t \in Task :
    \/ Register(t) \/ StreamStep(t) \/ Forget(t)
    \/ PreparationEnds(t) \/ Speak(t) \/ ModelEnds(t) \/ Relapse(t) \/ StartEnds(t)
    \/ Ask(t) \/ Mark(t) \/ Publish(t) \/ Listen(t)
    \/ Interrupt(t)

Spec == Init /\ [][Next]_vars

(***************************************************************************)
(* Fairness.  The coroutine of a stream goes on when what it awaits has    *)
(* come: Redis and the admission answer, and the client takes the events   *)
(* it is sent.  Cancellations go on, and the listener listens.  Nothing is *)
(* assumed of the preparation, of the model or of who cancels.             *)
(***************************************************************************)
Fairness ==
  \A t \in Task :
    WF_vars(StreamStep(t)) /\ WF_vars(Mark(t)) /\ WF_vars(Publish(t)) /\ WF_vars(Listen(t))

FairSpec == Spec /\ Fairness

-----------------------------------------------------------------------------
(* Properties.                                                             *)

(* Every variable has its type, and the callback's queue never has more    *)
(* than Capacity events.                                                   *)
TypeOK ==
  /\ pc \in [Task -> Pc]
  /\ entry \in [Task -> {"none", "live", "cancelled"}]
  /\ prep \in [Task -> Job] /\ start \in [Task -> Job] /\ model \in [Task -> Job]
  /\ bound \subseteq Task
  /\ events \in [Task -> Seq({"thinking", "content", "complete", "error"})]
  /\ \A t \in Task : Len(events[t]) <= Capacity
  /\ overflowed \subseteq Task
  /\ heard \subseteq Task
  /\ permits \subseteq Task
  /\ told \in [Task -> Seq(Ending)]
  /\ saved \in [Task -> Seq({"full", "part", "rejection"})]
  /\ marker \subseteq Task /\ owners \subseteq Task /\ messages \subseteq Task
  /\ canceller \in [Task -> {"idle", "marking", "publishing"}]
  /\ here \subseteq Task
  /\ prone \in [Task -> SUBSET Trouble]

(* Something works for t. *)
AtWork(t) == "running" \in {prep[t], start[t], model[t]}

(* The streams that are not interrupted, and whose models are not late.    *)
Regular == Task \ (Interruptible \cup Tardy)

(* Nothing works for a stream that does not hold a permit: the limit on    *)
(* streams is a limit on preparations and models, whatever ends a stream.  *)
(* The last event of a model that was left late ends its stream while the  *)
(* next model works on, and nobody cancels that one.                       *)
WorkUnderPermit == \A t \in Regular : AtWork(t) => t \in permits

(* Once the flag is up nothing works for the stream any more, whichever    *)
(* handle was bound when it came, except a model whose handle start() has  *)
(* just returned and the stream has not yet received.                      *)
CancelledWorkStops ==
  \A t \in Task \ Interruptible : Flagged(t) /\ pc[t] # "starting" => ~ AtWork(t)

(* The client is told once how the stream ended, and that is what was      *)
(* saved: a whole answer, a part or nothing, a rejection or nothing.       *)
ToldAsSaved ==
  \A t \in Task \ Interruptible :
    /\ Len(told[t]) <= 1 /\ Len(saved[t]) <= 1
    /\ told[t] # <<>> \/ pc[t] = "ended" =>
         \/ saved[t] = <<>> /\ told[t] # <<"finish">>
         \/ saved[t] = <<"full">> /\ told[t] = <<"finish">>
         \/ saved[t] = <<"rejection">> /\ told[t] = <<"reject">>
         \/ saved[t] = <<"part">> /\ told[t] \in {<<>>, <<"cancel">>}

(* A stream that has ended holds no permit, and in the registry at most a  *)
(* tombstone, which has an end; a live entry would stay for ever.          *)
NothingHeld ==
  \A t \in Task \ Interruptible :
    pc[t] = "ended" => entry[t] # "live" /\ t \notin permits

(* A cancellation that has been published ends its stream, whatever it is  *)
(* doing and on whichever process the cancellation came in.                *)
CancellationEffective ==
  \A t \in Task :
    canceller[t] = "publishing" /\ t \notin Deaf \cup Unlucky ~> pc[t] = "ended"

(* A stream whose model has stopped ends: its last event is never lost, or *)
(* the overflow that lost it ends the stream.                              *)
StoppedModelEndsStream ==
  \A t \in Task :
    pc[t] \in {"relaying", "awaiting"} /\ model[t] # "running" ~> pc[t] = "ended"

(* A client that goes away cancels the work that precedes the answer.      *)
DisconnectStopsPreparation ==
  \A t \in Task : pc[t] = "ended" => prep[t] # "running"

(***************************************************************************)
(* What a stream owes, as StreamContract states it.  The contract is kept  *)
(* with the regular streams; the others are not seen in it.                *)
(***************************************************************************)
Queued == {"owner", "marker", "registered", "acquiring", "rejecting"}

Over == {"clearing", "disowning", "ended"}

StageOf(t) ==
  CASE t \notin Regular \/ pc[t] = "new" -> "new"
    [] t \in Regular /\ pc[t] \in Queued -> "queued"
    [] t \in Regular /\ pc[t] \in {"closing", "releasing"} -> "concluded"
    [] t \in Regular /\ pc[t] \in Over -> "ended"
    [] OTHER -> "admitted"

Contract ==
  INSTANCE StreamContract WITH
    stage <- [t \in Task |-> StageOf(t)],
    permits <- permits \cap Regular,
    working <- {t \in Regular : AtWork(t)},
    cancelled <- {t \in Regular : Flagged(t)},
    told <- [t \in Task |-> IF t \in Regular THEN told[t] ELSE <<>>],
    saved <- [t \in Task |-> IF t \in Regular THEN saved[t] ELSE <<>>]

(* A stream keeps its contract: work only under a permit and none begun    *)
(* after a cancellation, one ending, the reply saved that it announces,    *)
(* "cancel" told only of a stream that was cancelled.                      *)
ImplementsContract == Contract!ContractSpec

=============================================================================
