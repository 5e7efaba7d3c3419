----------------------------- MODULE ModelRouting -----------------------------
(***************************************************************************)
(* How a model is chosen, given up and returned to: the circuit breaker    *)
(* of ModelHealthStore under its two kinds of users.  Calls (tools, RAG,   *)
(* embedding, rerank) go through ModelRoutingExecutor, which asks          *)
(* allow_call before each attempt.  Streams go through StreamLLMService,   *)
(* which waits for the first token of a candidate, moves on to the next if *)
(* none comes, and asks nobody.  All of them share one store.              *)
(*                                                                         *)
(* One action is the code between two awaits that suspend: the attempt of  *)
(* a call, await_first_packet of a stream, and every callback that the     *)
(* client task of a candidate makes into _FirstTokenStreamCallback.        *)
(*                                                                         *)
(* The clock is abstracted to "has open_seconds passed since the circuit   *)
(* was opened last", failure_count to the values at which it differs       *)
(* from the threshold.  Candidates without a client are skipped by both    *)
(* users without any effect and are not in Model.                          *)
(***************************************************************************)
EXTENDS Naturals, Sequences, FiniteSets, SequencesExt

CONSTANTS
  Model,           \* model ids
  Orders,          \* the candidate lists _filter_and_sort_candidates returns, one for
                   \* each kind of request (tools, deep thinking, capability)
  Threshold,       \* AI_CIRCUIT_FAILURE_THRESHOLD
  HalfOpenMax,     \* AI_CIRCUIT_HALF_OPEN_MAX_IN_FLIGHT
  Call,            \* callers of execute_with_fallback, one call each at a time
  Interruptible,   \* callers whose coroutine may be cancelled during an attempt
  Stream,          \* callers of StreamLLMService.start, one stream each at a time
  Unconfigured,    \* models whose do_stream_chat raises before it opens a connection
  Late             \* models whose first token may come as late as the time-out

ASSUME ThresholdAssumption == Threshold \in Nat \ {0} /\ HalfOpenMax \in Nat \ {0}
ASSUME OrdersAssumption == \A p \in Orders : p \in Seq(Model) /\ IsInjective(p)
ASSUME CallerAssumption ==
  /\ IsFiniteSet(Call)
  /\ Interruptible \subseteq Call
  /\ Unconfigured \subseteq Model
  /\ Late \subseteq Model

VARIABLES
  health,      \* _health_by_id
  attempts,    \* for each call: the targets it has left; the first is being tried
  phase,       \* for each stream: "idle", "waiting" (in await_first_packet), "returned",
               \* "failed" (no candidate left), "cancelled" (CancelledError)
  candidates,  \* for each stream: the targets it has left; the first is the current one
  feed,        \* for each stream and model: the client task of that candidate
  fired,       \* for each stream: the first-token time-out has cancelled the wait
  delivered    \* for each stream: the models whose output has reached the user

vars == <<health, attempts, phase, candidates, feed, fired, delivered>>

storeUsers == <<attempts, phase, candidates, feed, fired, delivered>>

(***************************************************************************)
(* The client task of a candidate, with what its callback has recorded:    *)
(* silent: no packet yet; flowing: first token forwarded; empty, broken:   *)
(* ended without output; completed, failed: ended after output; off:       *)
(* suppressed and cancelled, it will never call back again.                *)
(***************************************************************************)
Live == {"silent", "flowing"}
Feed == Live \cup {"none", "empty", "broken", "completed", "failed", "off"}

-----------------------------------------------------------------------------
(* ModelHealthStore.                                                       *)

State == {"closed", "open", "half_open"}

Health == [state : State, failures : 0 .. Threshold, cooling : BOOLEAN, inFlight : Nat]

(* ModelHealth(): the initial record, and what record_success leaves. *)
Healthy == [state |-> "closed", failures |-> 0, cooling |-> FALSE, inFlight |-> 0]

(***************************************************************************)
(* is_unavailable, which is also when allow_call refuses: the circuit is   *)
(* open and not yet cooled, or half open with all its probes out.          *)
(***************************************************************************)
Unavailable(h) ==
  \/ h.state = "open" /\ h.cooling
  \/ h.state = "half_open" /\ h.inFlight >= HalfOpenMax

(* allow_call lets a call through: a cooled circuit becomes half open. *)
Admitted(h) ==
  CASE h.state = "closed"    -> h
    [] h.state = "open"      -> [h EXCEPT !.state = "half_open", !.inFlight = 1]
    [] h.state = "half_open" -> [h EXCEPT !.inFlight = @ + 1]

(* Faulty variant: opening the circuit starts the count of failures again. *)
OpenedAfresh(h) ==
  [h EXCEPT !.state = "open", !.cooling = TRUE, !.inFlight = 0, !.failures = 0]

(* _open: the circuit opens, or open_seconds start again. *)
Opened(h) == [h EXCEPT !.state = "open", !.cooling = TRUE, !.inFlight = 0]

Counted(h) == [h EXCEPT !.failures = IF @ < Threshold THEN @ + 1 ELSE @]

(* Faulty variant: only a closed circuit takes note of a failure. *)
FailureRecordedIfClosed(h) ==
  CASE h.state # "closed" -> h
    [] h.state = "closed" /\ Counted(h).failures < Threshold -> Counted(h)
    [] h.state = "closed" /\ Counted(h).failures = Threshold -> Opened(Counted(h))

(* record_failure *)
FailureRecorded(h) ==
  CASE h.state = "half_open" -> Opened(h)
    [] h.state # "half_open" /\ Counted(h).failures < Threshold -> Counted(h)
    [] h.state # "half_open" /\ Counted(h).failures = Threshold -> Opened(Counted(h))

(* open_seconds have passed since the circuit was opened last. *)
Cool(m) ==
  /\ health[m].cooling
  /\ health' = [health EXCEPT ![m].cooling = FALSE]
  /\ UNCHANGED storeUsers

(* The targets ModelSelector builds of a list of candidates: those that    *)
(* are available, in the order of the list.                                *)
Selected(p) ==
  {q \in SetToSeqs({m \in ToSet(p) : ~ Unavailable(health[m])}) :
     \A i, j \in DOMAIN q :
       i < j => \E k, l \in DOMAIN p : k < l /\ q[i] = p[k] /\ q[j] = p[l]}

-----------------------------------------------------------------------------
(* ModelRoutingExecutor.execute_with_fallback.                             *)

(***************************************************************************)
(* The loop goes on to the first of the targets that allow_call lets       *)
(* through, and awaits the attempt; without one it raises                  *)
(* ModelUnavailableError.  store is the store the loop finds.              *)
(***************************************************************************)
Attempt(c, store, targets) ==
  LET i == SelectInSeq(targets, LAMBDA m : ~ Unavailable(store[m]))
  IN  \/ /\ i = 0
         /\ attempts' = [attempts EXCEPT ![c] = <<>>]
         /\ health' = store
      \/ /\ i # 0
         /\ attempts' = [attempts EXCEPT ![c] = SubSeq(targets, i, Len(targets))]
         /\ health' = [store EXCEPT ![targets[i]] = Admitted(@)]

(* A service selects its targets and calls the executor, without an await in between. *)
BeginCall(c) ==
  /\ attempts[c] = <<>>
  /\ \E p \in Orders : \E q \in Selected(p) : Attempt(c, health, q)
  /\ UNCHANGED <<phase, candidates, feed, fired, delivered>>

(* Faulty variant: a success only gives its probe back. *)
CallSucceedsGivesBack(c) ==
  /\ attempts[c] # <<>>
  /\ health' = [health EXCEPT ![Head(attempts[c])] =
                  [@ EXCEPT !.state = "closed", !.failures = 0, !.inFlight = @ - 1]]
  /\ attempts' = [attempts EXCEPT ![c] = <<>>]
  /\ UNCHANGED <<phase, candidates, feed, fired, delivered>>

(* The attempt returns: record_success, and the call is answered. *)
CallSucceeds(c) ==
  /\ attempts[c] # <<>>
  /\ health' = [health EXCEPT ![Head(attempts[c])] = Healthy]
  /\ attempts' = [attempts EXCEPT ![c] = <<>>]
  /\ UNCHANGED <<phase, candidates, feed, fired, delivered>>

(* The attempt raises: record_failure, and on to the next target. *)
CallFails(c) ==
  /\ attempts[c] # <<>>
  /\ Attempt(c, [health EXCEPT ![Head(attempts[c])] = FailureRecorded(@)], Tail(attempts[c]))
  /\ UNCHANGED <<phase, candidates, feed, fired, delivered>>

(***************************************************************************)
(* CancelledError in the attempt.  It is no Exception: it passes the       *)
(* executor's handler, and the store hears nothing of the attempt.         *)
(***************************************************************************)
CallInterrupted(c) ==
  /\ c \in Interruptible
  /\ attempts[c] # <<>>
  /\ attempts' = [attempts EXCEPT ![c] = <<>>]
  /\ UNCHANGED <<health, phase, candidates, feed, fired, delivered>>

-----------------------------------------------------------------------------
(* StreamLLMService.start.                                                 *)

(* suppress() and handle.cancel(): a client task that still runs is silenced. *)
Silenced(f) == IF f \in Live THEN "off" ELSE f

(***************************************************************************)
(* The loop goes on to the first of the targets whose client opens a       *)
(* stream, records a failure of those before it, and awaits its first      *)
(* packet; without one it raises ModelUnavailableError.  store and feeds   *)
(* are the store and the client tasks the loop finds.                      *)
(***************************************************************************)
Candidate(s, store, feeds, targets) ==
  LET i == SelectInSeq(targets, LAMBDA m : m \notin Unconfigured)
      refused == IF i = 0 THEN ToSet(targets) ELSE ToSet(SubSeq(targets, 1, i - 1))
  IN  /\ health' = [m \in Model |-> IF m \in refused THEN FailureRecorded(store[m]) ELSE store[m]]
      /\ fired' = [fired EXCEPT ![s] = FALSE]
      /\ \/ /\ i = 0
            /\ phase' = [phase EXCEPT ![s] = "failed"]
            /\ candidates' = [candidates EXCEPT ![s] = <<>>]
            /\ feed' = [feed EXCEPT ![s] = feeds]
         \/ /\ i # 0
            /\ phase' = [phase EXCEPT ![s] = "waiting"]
            /\ candidates' = [candidates EXCEPT ![s] = SubSeq(targets, i, Len(targets))]
            /\ feed' = [feed EXCEPT ![s] = [feeds EXCEPT ![targets[i]] = "silent"]]

Current(s) == Head(candidates[s])

BeginStream(s) ==
  /\ phase[s] = "idle"
  /\ \E p \in Orders : \E q \in Selected(p) : Candidate(s, health, feed[s], q)
  /\ UNCHANGED <<attempts, delivered>>

(* The first content or thinking of a candidate goes to the user; more of it changes nothing. *)
FirstToken(s, m) ==
  /\ feed[s][m] = "silent"
  /\ feed' = [feed EXCEPT ![s][m] = "flowing"]
  /\ delivered' = [delivered EXCEPT ![s] = @ \cup {m}]
  /\ UNCHANGED <<health, attempts, phase, candidates, fired>>

(* on_complete *)
FeedCompletes(s, m) ==
  /\ feed[s][m] \in Live
  /\ feed' = [feed EXCEPT ![s][m] = IF @ = "silent" THEN "empty" ELSE "completed"]
  /\ UNCHANGED <<health, attempts, phase, candidates, fired, delivered>>

(* on_error: after the first token the callback itself records the failure. *)
FeedFails(s, m) ==
  /\ \/ /\ feed[s][m] = "silent"
        /\ feed' = [feed EXCEPT ![s][m] = "broken"]
        /\ UNCHANGED health
     \/ /\ feed[s][m] = "flowing"
        /\ feed' = [feed EXCEPT ![s][m] = "failed"]
        /\ health' = [health EXCEPT ![m] = FailureRecorded(@)]
  /\ UNCHANGED <<attempts, phase, candidates, fired, delivered>>

(***************************************************************************)
(* The time-out of await_first_packet cancels the wait.  start() runs only *)
(* in a later round of the event loop: until then a first token still goes *)
(* through, and one that has set the event already does not undo the       *)
(* time-out.                                                               *)
(***************************************************************************)
TimeOut(s) ==
  /\ phase[s] = "waiting"
  /\ Current(s) \in Late
  /\ ~ fired[s]
  /\ fired' = [fired EXCEPT ![s] = TRUE]
  /\ UNCHANGED <<health, attempts, phase, candidates, feed, delivered>>

(* Faulty variant: the candidates share one event for the first packet. *)
ReturnOnAnyToken(s) ==
  /\ phase[s] = "waiting"
  /\ ~ fired[s]
  /\ delivered[s] # {}
  /\ phase' = [phase EXCEPT ![s] = "returned"]
  /\ health' = IF feed[s][Current(s)] = "failed" THEN health
               ELSE [health EXCEPT ![Current(s)] = Healthy]
  /\ UNCHANGED <<attempts, candidates, feed, fired, delivered>>

(* The first packet was a token: start() returns the handle. *)
Return(s) ==
  /\ phase[s] = "waiting"
  /\ ~ fired[s]
  /\ feed[s][Current(s)] \in {"flowing", "completed", "failed"}
  /\ phase' = [phase EXCEPT ![s] = "returned"]
  /\ health' = IF feed[s][Current(s)] = "failed" THEN health
               ELSE [health EXCEPT ![Current(s)] = Healthy]
  /\ UNCHANGED <<attempts, candidates, feed, fired, delivered>>

(* Silence the candidate, record its failure, try the next. *)
NextCandidate(s) ==
  Candidate(s, [health EXCEPT ![Current(s)] = FailureRecorded(@)],
            [feed[s] EXCEPT ![Current(s)] = Silenced(@)], Tail(candidates[s]))

(* Faulty variant: an error is an error, whether output came before it or not. *)
FallBackOnAnyError(s) ==
  /\ phase[s] = "waiting"
  /\ fired[s] \/ feed[s][Current(s)] \in {"empty", "broken", "failed"}
  /\ NextCandidate(s)
  /\ UNCHANGED <<attempts, delivered>>

(* Faulty variant: the same candidate is tried again. *)
FallBackToSame(s) ==
  /\ phase[s] = "waiting"
  /\ fired[s] \/ feed[s][Current(s)] \in {"empty", "broken"}
  /\ Candidate(s, [health EXCEPT ![Current(s)] = FailureRecorded(@)],
               [feed[s] EXCEPT ![Current(s)] = Silenced(@)], candidates[s])
  /\ UNCHANGED <<attempts, delivered>>

(* No first token: the stream ended without one, or the time-out came. *)
FallBack(s) ==
  /\ phase[s] = "waiting"
  /\ fired[s] \/ feed[s][Current(s)] \in {"empty", "broken"}
  /\ NextCandidate(s)
  /\ UNCHANGED <<attempts, delivered>>

(* CancelledError while start() waits: the user stopped the stream, or is gone. *)
Abort(s) ==
  /\ phase[s] = "waiting"
  /\ phase' = [phase EXCEPT ![s] = "cancelled"]
  /\ feed' = [feed EXCEPT ![s][Current(s)] = Silenced(@)]
  /\ UNCHANGED <<health, attempts, candidates, fired, delivered>>

(* StreamChatService cancels the handle it was given. *)
Stop(s) ==
  /\ phase[s] = "returned"
  /\ feed[s][Current(s)] \in Live
  /\ feed' = [feed EXCEPT ![s][Current(s)] = "off"]
  /\ UNCHANGED <<health, attempts, phase, candidates, fired, delivered>>

(* A later stream of the same caller. *)
NextStream(s) ==
  /\ phase[s] \in {"returned", "failed", "cancelled"}
  /\ \A m \in Model : feed[s][m] \notin Live
  /\ phase' = [phase EXCEPT ![s] = "idle"]
  /\ candidates' = [candidates EXCEPT ![s] = <<>>]
  /\ feed' = [feed EXCEPT ![s] = [m \in Model |-> "none"]]
  /\ fired' = [fired EXCEPT ![s] = FALSE]
  /\ delivered' = [delivered EXCEPT ![s] = {}]
  /\ UNCHANGED <<health, attempts>>

-----------------------------------------------------------------------------

TypeOK ==
  /\ health \in [Model -> Health]
  /\ attempts \in [Call -> Seq(Model)]
  /\ phase \in [Stream -> {"idle", "waiting", "returned", "failed", "cancelled"}]
  /\ candidates \in [Stream -> Seq(Model)]
  /\ feed \in [Stream -> [Model -> Feed]]
  /\ fired \in [Stream -> BOOLEAN]
  /\ delivered \in [Stream -> SUBSET Model]

Init ==
  /\ health = [m \in Model |-> Healthy]
  /\ attempts = [c \in Call |-> <<>>]
  /\ phase = [s \in Stream |-> "idle"]
  /\ candidates = [s \in Stream |-> <<>>]
  /\ feed = [s \in Stream |-> [m \in Model |-> "none"]]
  /\ fired = [s \in Stream |-> FALSE]
  /\ delivered = [s \in Stream |-> {}]

Next ==
  \/ \E m \in Model : Cool(m)
  \/ \E c \in Call : BeginCall(c) \/ CallSucceeds(c) \/ CallFails(c) \/ CallInterrupted(c)
  \/ \E s \in Stream :
       \/ BeginStream(s) \/ TimeOut(s) \/ Return(s) \/ FallBack(s)
       \/ Abort(s) \/ Stop(s) \/ NextStream(s)
       \/ \E m \in Model : FirstToken(s, m) \/ FeedCompletes(s, m) \/ FeedFails(s, m)

Spec == Init /\ [][Next]_vars

(***************************************************************************)
(* Fairness: an attempt ends (every client has a time-out); the clock      *)
(* runs; the event loop resumes start(); the first-token time-out comes;   *)
(* a model that is not Late sends its first packet, if only an error, in   *)
(* time.                                                                   *)
(***************************************************************************)
Fairness ==
  /\ \A m \in Model : WF_vars(Cool(m))
  /\ \A c \in Call : WF_vars(CallSucceeds(c) \/ CallFails(c))
  /\ \A s \in Stream :
       /\ WF_vars(Return(s) \/ FallBack(s))
       /\ WF_vars(TimeOut(s))
       /\ \A m \in Model \ Late :
            WF_vars(FirstToken(s, m) \/ FeedCompletes(s, m) \/ FeedFails(s, m))

FairSpec == Spec /\ Fairness

-----------------------------------------------------------------------------
(* Properties.                                                             *)

(* A circuit that is not closed still knows that the threshold was         *)
(* reached: whatever late failures, probes and restarts of open_seconds    *)
(* came since, one failure more, even of a stream that never asked         *)
(* allow_call, opens it again.                                             *)
FailuresRemembered ==
  \A m \in Model : health[m].state # "closed" => health[m].failures = Threshold

(* The probes the store counts against a half-open circuit are attempts    *)
(* that still run and will report: half_open_in_flight never outlives      *)
(* them.  An interrupted attempt does not report, so this is claimed for   *)
(* callers that are not interrupted.                                       *)
ProbesAccounted ==
  Interruptible = {} =>
    \A m \in Model :
      health[m].inFlight <= Cardinality({c \in Call : attempts[c] # <<>> /\ Head(attempts[c]) = m})

(* At most one model works for a stream, and none once start() has given   *)
(* up or was cancelled: no request goes on "consuming tokens in the        *)
(* background".                                                            *)
OneLiveFeed ==
  \A s \in Stream : \A m \in Model :
    feed[s][m] \in Live => phase[s] \in {"waiting", "returned"} /\ m = Current(s)

(* Once a model that is not Late has spoken, no other model is started for *)
(* the stream.                                                             *)
FirstTokenFinal ==
  \A s \in Stream : \A m \in delivered[s] \ Late : candidates[s] # <<>> /\ m = Current(s)

(* "Continuing with a second model would create one mixed answer": the     *)
(* output that reaches the user is that of one model.                      *)
NoMixedOutput ==
  \A s \in Stream : \A m, n \in delivered[s] : m = n

(* What ModelStart sees of a stream. *)
Tried(s) == IF candidates[s] = <<>> THEN {} ELSE {Current(s)}

Working(s) == {m \in Model : feed[s][m] \in Live}

Start ==
  INSTANCE ModelStart WITH
    stage <- phase,
    chosen <- [s \in Stream |-> Tried(s)],
    working <- [s \in Stream |-> Working(s)],
    heard <- delivered

(* Whatever errors, time-outs and cancellations a stream meets, start()    *)
(* does what ModelStart allows: it answers for the model that was heard,   *)
(* leaves none that must be kept, and nobody it left works on.             *)
ImplementsModelStart == Start!StartSpec

(* No model is lost for good: again and again its circuit lets a call      *)
(* through, however the failures, probes and streams fall.                 *)
ModelComesBack ==
  \A m \in Model : []<> ~ Unavailable(health[m])

(* start() comes to an end, with a handle, an error or a cancellation,     *)
(* even if no model ever answers.                                          *)
StartSettles ==
  \A s \in Stream : phase[s] = "waiting" ~> phase[s] # "waiting"

=============================================================================
