-------------------------- MODULE ModelRoutingProofs --------------------------
(***************************************************************************)
(* The safety properties of ModelRouting for every set of models, callers  *)
(* and streams, every list of candidates and every threshold.              *)
(*                                                                         *)
(* Two facts carry the argument.  Of the store (Known): a circuit that is  *)
(* not closed has counted Threshold failures, and only a half-open one has *)
(* probes out.  Of a stream (Candidacy): what its current candidate has    *)
(* not said yet, the user has not seen.  With the converse (Told) every    *)
(* step of a stream is one of ModelStart.                                  *)
(***************************************************************************)
EXTENDS ModelRouting, FiniteSetTheorems, SequenceTheorems, WellFoundedInduction, TLAPS

Known(h) ==
  /\ h.state # "closed" => h.failures = Threshold
  /\ h.state # "half_open" => h.inFlight = 0

(* The models that have been heard and may not be left again. *)
Settled(s) == delivered[s] \ Late

Candidacy(s) ==
  /\ phase[s] \in {"idle", "failed"} => candidates[s] = <<>>
  /\ phase[s] \in {"waiting", "returned"} => candidates[s] # <<>>
  /\ phase[s] = "waiting" /\ fired[s] => Current(s) \in Late
  /\ feed[s][Current(s)] \in {"silent", "empty", "broken"} => Current(s) \notin Settled(s)
  /\ \A m \in Model : feed[s][m] \in Live => phase[s] \in {"waiting", "returned"} /\ m = Current(s)
  /\ \A m \in Settled(s) : candidates[s] # <<>> /\ m = Current(s)

(* The calls that probe a model. *)
Probes(m) == {c \in Call : attempts[c] # <<>> /\ Head(attempts[c]) = m}

IInv ==
  /\ TypeOK
  /\ \A m \in Model : Known(health[m])
  /\ \A s \in Stream : Candidacy(s)
  /\ ProbesAccounted

-----------------------------------------------------------------------------
(* The circuit breaker.                                                    *)

(* Counting a failure keeps a record a record, and its probes are gone. *)
LEMMA FailureFacts ==
  ASSUME NEW h \in Health, Known(h)
  PROVE  /\ FailureRecorded(h) \in Health
         /\ Known(FailureRecorded(h))
         /\ FailureRecorded(h).inFlight = 0
<1> USE ThresholdAssumption DEF Health, State, Known
<1>1. /\ Counted(h) \in Health
      /\ Counted(h).state = h.state /\ Counted(h).inFlight = h.inFlight
      /\ h.failures = Threshold => Counted(h).failures = Threshold
  BY DEF Counted
<1>2. \A g \in Health : /\ Opened(g) \in Health
                        /\ Opened(g).state = "open"
                        /\ Opened(g).inFlight = 0
                        /\ Opened(g).failures = g.failures
  BY DEF Opened
<1>3. CASE h.state = "half_open"
  BY <1>2, <1>3 DEF FailureRecorded
<1>4. CASE h.state # "half_open" /\ Counted(h).failures < Threshold
  BY <1>1, <1>4 DEF FailureRecorded
<1>5. CASE h.state # "half_open" /\ Counted(h).failures = Threshold
  BY <1>1, <1>2, <1>5 DEF FailureRecorded
<1>6. Counted(h).failures < Threshold \/ Counted(h).failures = Threshold
  BY <1>1
<1>. QED BY <1>3, <1>4, <1>5, <1>6

(* A probe that is let through is the one more that is counted. *)
LEMMA AdmissionFacts ==
  ASSUME NEW h \in Health, Known(h), ~ Unavailable(h)
  PROVE  /\ Admitted(h) \in Health
         /\ Known(Admitted(h))
         /\ Admitted(h).inFlight <= h.inFlight + 1
<1> USE ThresholdAssumption DEF Health, State, Known, Admitted
<1>1. CASE h.state = "closed"
  BY <1>1
<1>2. CASE h.state = "open"
  <2>1. Admitted(h) = [h EXCEPT !.state = "half_open", !.inFlight = 1]
    BY <1>2
  <2>2. h.failures = Threshold /\ h.inFlight = 0
    BY <1>2
  <2>3. [h EXCEPT !.state = "half_open", !.inFlight = 1] \in Health
    OBVIOUS
  <2> HIDE DEF Admitted, Health
  <2>4. Admitted(h).state = "half_open" /\ Admitted(h).failures = Threshold /\ Admitted(h).inFlight = 1
    BY <2>1, <2>2 DEF Health
  <2>. QED BY <2>1, <2>2, <2>3, <2>4
<1>3. CASE h.state = "half_open"
  BY <1>3
<1>. QED BY <1>1, <1>2, <1>3

LEMMA HealthyFacts == Healthy \in Health /\ Known(Healthy) /\ Healthy.inFlight = 0
BY ThresholdAssumption DEF Healthy, Health, State, Known

-----------------------------------------------------------------------------
(* The loops over the targets.                                             *)

(* A set of indices that is not empty has a least one. *)
LEMMA LeastIsIn ==
  ASSUME NEW I, I \subseteq Nat, I # {}
  PROVE  Min(I) \in I
<1> DEFINE R == OpToRel(<, Nat)
<1>1. IsWellFoundedOn(R, Nat)
  BY NatLessThanWellFounded
<1>2. PICK x \in I : \A y \in I : ~ (<<y, x>> \in R)
  <2> HIDE DEF R
  <2>. QED BY <1>1, WFMin
<1>3. \A y \in I : ~ (y < x)
  BY <1>2 DEF OpToRel
<1>4. \A y \in I : x =< y
  BY <1>3
<1>. QED BY <1>4 DEF Min

(* What is left of the targets from the i-th on. *)
LEMMA RestFacts ==
  ASSUME NEW q \in Seq(Model), NEW i \in 1 .. Len(q)
  PROVE  /\ SubSeq(q, i, Len(q)) \in Seq(Model)
         /\ SubSeq(q, i, Len(q)) # <<>>
         /\ Head(SubSeq(q, i, Len(q))) = q[i]
         /\ q[i] \in Model
<1>1. i \in Int /\ Len(q) \in Int /\ i <= Len(q) /\ \A j \in i .. Len(q) : q[j] \in Model
  OBVIOUS
<1>2. /\ SubSeq(q, i, Len(q)) \in Seq(Model)
      /\ Len(SubSeq(q, i, Len(q))) = Len(q) - i + 1
      /\ \A j \in 1 .. Len(q) - i + 1 : SubSeq(q, i, Len(q))[j] = q[i + j - 1]
  BY <1>1, SubSeqProperties
<1> DEFINE r == SubSeq(q, i, Len(q))
<1>3. r \in Seq(Model) /\ Len(r) >= 1 /\ r[1] = q[i]
  <2>1. Len(q) - i + 1 >= 1 /\ 1 \in 1 .. Len(q) - i + 1 /\ i + 1 - 1 = i
    BY <1>1
  <2>. QED BY <1>2, <2>1
<1> HIDE DEF r
<1>4. r # <<>> /\ Head(r) = r[1]
  BY <1>3
<1>5. q[i] \in Model
  OBVIOUS
<1>. QED BY <1>3, <1>4, <1>5 DEF r

(* The executor's loop ends without an attempt, or one is let through. *)
LEMMA AttemptFacts ==
  ASSUME NEW c, NEW store, NEW q \in Seq(Model), Attempt(c, store, q)
  PROVE  \/ attempts' = [attempts EXCEPT ![c] = <<>>] /\ health' = store
         \/ \E m \in Model : \E r \in Seq(Model) :
              /\ r # <<>> /\ Head(r) = m /\ ~ Unavailable(store[m])
              /\ attempts' = [attempts EXCEPT ![c] = r]
              /\ health' = [store EXCEPT ![m] = Admitted(@)]
<1> DEFINE I == {i \in 1 .. Len(q) : ~ Unavailable(store[q[i]])}
<1> DEFINE k == IF I # {} THEN Min(I) ELSE 0
<1>1. \/ k = 0 /\ attempts' = [attempts EXCEPT ![c] = <<>>] /\ health' = store
      \/ /\ k # 0
         /\ attempts' = [attempts EXCEPT ![c] = SubSeq(q, k, Len(q))]
         /\ health' = [store EXCEPT ![q[k]] = Admitted(@)]
  BY DEF Attempt, SelectInSeq
<1>2. k # 0 => k \in I
  <2>1. I \subseteq Nat
    OBVIOUS
  <2> HIDE DEF I
  <2>. QED BY <2>1, LeastIsIn
<1>3. k # 0 => k \in 1 .. Len(q) /\ ~ Unavailable(store[q[k]])
  BY <1>2
<1> HIDE DEF k
<1>. QED BY <1>1, <1>3, RestFacts

(* start() begins the wait afresh. *)
LEMMA CandidateFired ==
  ASSUME NEW s, NEW store, NEW feeds, NEW q, Candidate(s, store, feeds, q)
  PROVE  fired' = [fired EXCEPT ![s] = FALSE]
BY DEF Candidate

(* start() has no candidate left. *)
GivenUp(s, feeds) ==
  /\ phase' = [phase EXCEPT ![s] = "failed"]
  /\ candidates' = [candidates EXCEPT ![s] = <<>>]
  /\ feed' = [feed EXCEPT ![s] = feeds]

(* start() waits for m, the first of the targets r. *)
Chosen(s, feeds, m, r) ==
  /\ r # <<>> /\ Head(r) = m
  /\ phase' = [phase EXCEPT ![s] = "waiting"]
  /\ candidates' = [candidates EXCEPT ![s] = r]
  /\ feed' = [feed EXCEPT ![s] = [feeds EXCEPT ![m] = "silent"]]

(* start() goes on to no candidate, or to one. *)
LEMMA CandidateFacts ==
  ASSUME NEW s, NEW store, NEW feeds, NEW q \in Seq(Model), Candidate(s, store, feeds, q)
  PROVE  \/ GivenUp(s, feeds)
         \/ \E m \in Model : \E r \in Seq(Model) : Chosen(s, feeds, m, r)
<1> DEFINE I == {i \in 1 .. Len(q) : q[i] \notin Unconfigured}
<1> DEFINE k == IF I # {} THEN Min(I) ELSE 0
<1>1. \/ k = 0 /\ GivenUp(s, feeds)
      \/ /\ k # 0
         /\ phase' = [phase EXCEPT ![s] = "waiting"]
         /\ candidates' = [candidates EXCEPT ![s] = SubSeq(q, k, Len(q))]
         /\ feed' = [feed EXCEPT ![s] = [feeds EXCEPT ![q[k]] = "silent"]]
  BY DEF Candidate, SelectInSeq, GivenUp
<1>2. k # 0 => k \in I
  <2>1. I \subseteq Nat
    OBVIOUS
  <2> HIDE DEF I
  <2>. QED BY <2>1, LeastIsIn
<1>3. k # 0 => k \in 1 .. Len(q)
  BY <1>2
<1> HIDE DEF k
<1>4. CASE k # 0
  <2>1. Chosen(s, feeds, q[k], SubSeq(q, k, Len(q)))
    BY <1>1, <1>3, <1>4, RestFacts DEF Chosen
  <2>2. q[k] \in Model /\ SubSeq(q, k, Len(q)) \in Seq(Model)
    BY <1>3, <1>4, RestFacts
  <2>. QED BY <2>1, <2>2, Zenon
<1>. QED BY <1>1, <1>4

(* The targets selected of a list of candidates. *)
LEMMA SelectedTyped ==
  ASSUME NEW p \in Orders, NEW q \in Selected(p)
  PROVE  q \in Seq(Model)
<1> DEFINE S == {m \in ToSet(p) : ~ Unavailable(health[m])}
<1>1. p \in Seq(Model)
  BY OrdersAssumption
<1>2. ToSet(p) \subseteq Model /\ IsFiniteSet(ToSet(p))
  <2>1. DOMAIN p = 1 .. Len(p) /\ IsFiniteSet(1 .. Len(p))
    BY <1>1, FS_Interval
  <2>2. ToSet(p) = {p[i] : i \in 1 .. Len(p)}
    BY <2>1 DEF ToSet
  <2>3. ToSet(p) \subseteq Model
    BY <1>1, <2>2
  <2>4. IsFiniteSet(ToSet(p))
    <3>1. p \in Surjection(1 .. Len(p), ToSet(p))
      BY <1>1, <2>2 DEF Surjection
    <3>. QED BY <2>1, <3>1, FS_Surjection DEF ExistsSurjection
  <2>. QED BY <2>3, <2>4
<1>3. IsFiniteSet(S) /\ S \subseteq Model
  BY <1>2, FS_Subset
<1>4. Cardinality(S) \in Nat
  BY <1>3, FS_CardinalityType
<1>5. q \in [1 .. Cardinality(S) -> S]
  BY DEF Selected, SetToSeqs
<1> HIDE DEF S
<1>. QED BY <1>3, <1>4, <1>5

(* Candidates leave the store typed and known, with no more probes. *)
LEMMA CandidateStore ==
  ASSUME NEW s, NEW store \in [Model -> Health], NEW feeds, NEW q \in Seq(Model),
         Candidate(s, store, feeds, q), \A m \in Model : Known(store[m])
  PROVE  /\ health' \in [Model -> Health]
         /\ \A m \in Model : Known(health'[m]) /\ health'[m].inFlight <= store[m].inFlight
<1> DEFINE I == {i \in 1 .. Len(q) : q[i] \notin Unconfigured}
<1> DEFINE k == IF I # {} THEN Min(I) ELSE 0
<1> DEFINE refused == IF k = 0 THEN ToSet(q) ELSE ToSet(SubSeq(q, 1, k - 1))
<1>1. health' = [m \in Model |-> IF m \in refused THEN FailureRecorded(store[m]) ELSE store[m]]
  BY DEF Candidate, SelectInSeq
<1> HIDE DEF refused
<1>2. ASSUME NEW m \in Model
      PROVE  health'[m] \in Health /\ Known(health'[m]) /\ health'[m].inFlight <= store[m].inFlight
  <2>1. store[m] \in Health /\ Known(store[m]) /\ store[m].inFlight \in Nat
    BY DEF Health
  <2>2. CASE m \in refused
    BY <1>1, <2>1, <2>2, FailureFacts
  <2>3. CASE m \notin refused
    BY <1>1, <2>1, <2>3
  <2>. QED BY <2>2, <2>3
<1>. QED BY <1>1, <1>2

(* A failure of one model on top of the store. *)
LEMMA FailureOf ==
  ASSUME NEW store \in [Model -> Health], NEW n \in Model, \A m \in Model : Known(store[m])
  PROVE  LET g == [store EXCEPT ![n] = FailureRecorded(@)]
         IN  /\ g \in [Model -> Health]
             /\ \A m \in Model : Known(g[m]) /\ g[m].inFlight <= store[m].inFlight
             /\ g[n].inFlight = 0
<1>1. /\ FailureRecorded(store[n]) \in Health /\ Known(FailureRecorded(store[n]))
      /\ FailureRecorded(store[n]).inFlight = 0
  BY FailureFacts
<1>2. \A m \in Model : store[m].inFlight \in Nat
  BY DEF Health
<1>. QED BY <1>1, <1>2

(* An attempt that is let through on top of the store. *)
LEMMA AdmissionOf ==
  ASSUME NEW store \in [Model -> Health], NEW n \in Model, \A m \in Model : Known(store[m]),
         ~ Unavailable(store[n])
  PROVE  LET g == [store EXCEPT ![n] = Admitted(@)]
         IN  /\ g \in [Model -> Health]
             /\ \A m \in Model : Known(g[m]) /\ (m # n => g[m] = store[m])
             /\ g[n].inFlight <= store[n].inFlight + 1
<1>1. /\ Admitted(store[n]) \in Health /\ Known(Admitted(store[n]))
      /\ Admitted(store[n]).inFlight <= store[n].inFlight + 1
  BY AdmissionFacts
<1>. QED BY <1>1

(* What an attempt makes of the calls and of the store. *)
LEMMA AttemptTyped ==
  ASSUME NEW c \in Call, NEW store \in [Model -> Health], NEW q \in Seq(Model),
         Attempt(c, store, q), \A m \in Model : Known(store[m]), attempts \in [Call -> Seq(Model)]
  PROVE  /\ attempts' \in [Call -> Seq(Model)] /\ health' \in [Model -> Health]
         /\ \A m \in Model : Known(health'[m])
<1>1. CASE attempts' = [attempts EXCEPT ![c] = <<>>] /\ health' = store
  <2>1. <<>> \in Seq(Model)
    OBVIOUS
  <2>. QED BY <1>1, <2>1
<1>2. CASE \E m \in Model : \E r \in Seq(Model) :
              /\ r # <<>> /\ Head(r) = m /\ ~ Unavailable(store[m])
              /\ attempts' = [attempts EXCEPT ![c] = r]
              /\ health' = [store EXCEPT ![m] = Admitted(@)]
  <2>1. PICK m \in Model : \E r \in Seq(Model) :
              /\ r # <<>> /\ Head(r) = m /\ ~ Unavailable(store[m])
              /\ attempts' = [attempts EXCEPT ![c] = r]
              /\ health' = [store EXCEPT ![m] = Admitted(@)]
    BY <1>2
  <2>2. PICK r \in Seq(Model) :
              /\ ~ Unavailable(store[m])
              /\ attempts' = [attempts EXCEPT ![c] = r]
              /\ health' = [store EXCEPT ![m] = Admitted(@)]
    BY <2>1
  <2>3. attempts' \in [Call -> Seq(Model)]
    BY <2>2
  <2>4. health' \in [Model -> Health] /\ \A k \in Model : Known(health'[k])
    BY <2>2, AdmissionOf
  <2>. QED BY <2>3, <2>4
<1>. QED BY <1>1, <1>2, AttemptFacts

-----------------------------------------------------------------------------
(* The types.                                                              *)

(* The head and the rest of a list that is not empty. *)
LEMMA HeadTail ==
  ASSUME NEW q \in Seq(Model), q # <<>>
  PROVE  Head(q) \in Model /\ Tail(q) \in Seq(Model)
OBVIOUS

LEMMA InitInv == Init => IInv
<1> SUFFICES ASSUME Init PROVE IInv
  OBVIOUS
<1>1. TypeOK
  BY HealthyFacts DEF Init, TypeOK, Feed, Live
<1>2. \A m \in Model : Known(health[m])
  BY HealthyFacts DEF Init
<1>3. ASSUME NEW s \in Stream PROVE Candidacy(s)
  BY <1>3 DEF Init, Candidacy, Live, Settled
<1>4. ProbesAccounted
  <2> SUFFICES ASSUME NEW m \in Model PROVE health[m].inFlight <= Cardinality(Probes(m))
    BY DEF ProbesAccounted, Probes
  <2>1. Probes(m) \subseteq Call /\ IsFiniteSet(Call)
    BY CallerAssumption DEF Probes
  <2>2. Cardinality(Probes(m)) \in Nat
    BY <2>1, FS_Subset, FS_CardinalityType
  <2>3. health[m].inFlight = 0
    BY HealthyFacts DEF Init
  <2> HIDE DEF Probes
  <2>. QED BY <2>2, <2>3
<1>. QED BY <1>1, <1>2, <1>3, <1>4 DEF IInv

(* The store stays typed and known, and the calls typed. *)
LEMMA StoreStep ==
  ASSUME IInv, [Next]_vars
  PROVE  /\ attempts' \in [Call -> Seq(Model)] /\ health' \in [Model -> Health]
         /\ \A m \in Model : Known(health'[m])
<1> DEFINE Goal == /\ attempts' \in [Call -> Seq(Model)] /\ health' \in [Model -> Health]
                   /\ \A m \in Model : Known(health'[m])
<1>0. /\ attempts \in [Call -> Seq(Model)] /\ health \in [Model -> Health]
      /\ \A m \in Model : Known(health[m])
  BY DEF IInv, TypeOK
<1>90. <<>> \in Seq(Model)
  OBVIOUS
<1>1. CASE UNCHANGED vars
  BY <1>1, <1>0 DEF vars
<1>2. ASSUME NEW n \in Model, Cool(n) PROVE Goal
  <2>1. [health[n] EXCEPT !.cooling = FALSE] \in Health /\ Known([health[n] EXCEPT !.cooling = FALSE])
    <3>1. health[n] \in Health /\ Known(health[n])
      BY <1>0
    <3>. QED BY <3>1 DEF Health, Known
  <2>2. attempts' = attempts /\ health' = [health EXCEPT ![n] = [health[n] EXCEPT !.cooling = FALSE]]
    BY <1>2 DEF Cool, storeUsers
  <2>. QED BY <1>0, <2>1, <2>2
<1>3. ASSUME NEW c \in Call, BeginCall(c) PROVE Goal
  <2>1. PICK p \in Orders : \E q \in Selected(p) : Attempt(c, health, q)
    BY <1>3 DEF BeginCall
  <2>2. PICK q \in Selected(p) : Attempt(c, health, q)
    BY <2>1
  <2>. QED BY <1>0, <2>2, SelectedTyped, AttemptTyped
<1>4. ASSUME NEW c \in Call, CallSucceeds(c) PROVE Goal
  BY <1>4, <1>0, <1>90, HealthyFacts DEF CallSucceeds
<1>5. ASSUME NEW c \in Call, CallFails(c) PROVE Goal
  <2>1. Head(attempts[c]) \in Model /\ Tail(attempts[c]) \in Seq(Model)
    BY <1>5, <1>0, HeadTail DEF CallFails
  <2>2. Attempt(c, [health EXCEPT ![Head(attempts[c])] = FailureRecorded(@)], Tail(attempts[c]))
    BY <1>5 DEF CallFails
  <2>. QED BY <1>0, <2>1, <2>2, FailureOf, AttemptTyped
<1>6. ASSUME NEW c \in Call, CallInterrupted(c) PROVE Goal
  BY <1>6, <1>0, <1>90 DEF CallInterrupted
<1>7. ASSUME NEW u \in Stream, BeginStream(u) PROVE Goal
  <2>1. PICK p \in Orders : \E q \in Selected(p) : Candidate(u, health, feed[u], q)
    BY <1>7 DEF BeginStream
  <2>2. PICK q \in Selected(p) : Candidate(u, health, feed[u], q)
    BY <2>1
  <2>3. attempts' = attempts
    BY <1>7 DEF BeginStream
  <2>. QED BY <1>0, <2>2, <2>3, SelectedTyped, CandidateStore
<1>8. ASSUME NEW u \in Stream, TimeOut(u) PROVE Goal
  BY <1>8, <1>0 DEF TimeOut
<1>9. ASSUME NEW u \in Stream, Return(u) PROVE Goal
  <2>1. attempts' = attempts /\ (health' = health \/ health' = [health EXCEPT ![Current(u)] = Healthy])
    BY <1>9 DEF Return
  <2>. QED BY <1>0, <2>1, HealthyFacts
<1>10. ASSUME NEW u \in Stream, FallBack(u) PROVE Goal
  <2>1. Current(u) \in Model /\ Tail(candidates[u]) \in Seq(Model)
    BY <1>10, HeadTail DEF FallBack, IInv, TypeOK, Candidacy, Current
  <2>2. attempts' = attempts
    BY <1>10 DEF FallBack
  <2>3. Candidate(u, [health EXCEPT ![Current(u)] = FailureRecorded(@)],
                  [feed[u] EXCEPT ![Current(u)] = Silenced(@)], Tail(candidates[u]))
    BY <1>10 DEF FallBack, NextCandidate
  <2>. QED BY <1>0, <2>1, <2>2, <2>3, FailureOf, CandidateStore
<1>11. ASSUME NEW u \in Stream, Abort(u) PROVE Goal
  BY <1>11, <1>0 DEF Abort
<1>12. ASSUME NEW u \in Stream, Stop(u) PROVE Goal
  BY <1>12, <1>0 DEF Stop
<1>13. ASSUME NEW u \in Stream, NextStream(u) PROVE Goal
  BY <1>13, <1>0 DEF NextStream
<1>14. ASSUME NEW u \in Stream, NEW n \in Model, FirstToken(u, n) PROVE Goal
  BY <1>14, <1>0 DEF FirstToken
<1>15. ASSUME NEW u \in Stream, NEW n \in Model, FeedCompletes(u, n) PROVE Goal
  BY <1>15, <1>0 DEF FeedCompletes
<1>16. ASSUME NEW u \in Stream, NEW n \in Model, FeedFails(u, n) PROVE Goal
  <2>1. attempts' = attempts
    BY <1>16 DEF FeedFails
  <2>2. health' = health \/ health' = [health EXCEPT ![n] = FailureRecorded(@)]
    BY <1>16 DEF FeedFails
  <2>. QED BY <1>0, <2>1, <2>2, FailureOf
<1>. QED BY <1>1, <1>2, <1>3, <1>4, <1>5, <1>6, <1>7, <1>8, <1>9, <1>10, <1>11, <1>12,
          <1>13, <1>14, <1>15, <1>16 DEF Next

(* What start() makes of its stream keeps the types. *)
LEMMA CandidateTyped ==
  ASSUME TypeOK, NEW s \in Stream, NEW store, NEW feeds \in [Model -> Feed], NEW q \in Seq(Model),
         Candidate(s, store, feeds, q)
  PROVE  /\ phase' \in [Stream -> {"idle", "waiting", "returned", "failed", "cancelled"}]
         /\ candidates' \in [Stream -> Seq(Model)]
         /\ feed' \in [Stream -> [Model -> Feed]]
         /\ fired' \in [Stream -> BOOLEAN]
<1>1. fired' = [fired EXCEPT ![s] = FALSE]
  BY CandidateFired DEF TypeOK
<1>2. CASE GivenUp(s, feeds)
  <2>1. <<>> \in Seq(Model)
    OBVIOUS
  <2>. QED BY <1>1, <1>2, <2>1 DEF TypeOK, GivenUp
<1>3. ASSUME NEW m \in Model, NEW r \in Seq(Model), Chosen(s, feeds, m, r)
      PROVE  /\ phase' \in [Stream -> {"idle", "waiting", "returned", "failed", "cancelled"}]
             /\ candidates' \in [Stream -> Seq(Model)]
             /\ feed' \in [Stream -> [Model -> Feed]]
             /\ fired' \in [Stream -> BOOLEAN]
  <2>1. [feeds EXCEPT ![m] = "silent"] \in [Model -> Feed]
    BY DEF Feed, Live
  <2> HIDE DEF Feed
  <2>. QED BY <1>1, <1>3, <2>1 DEF TypeOK, Chosen
<1>. QED BY <1>2, <1>3, CandidateFacts

(* The streams keep their types. *)
LEMMA StreamTypeStep ==
  ASSUME IInv, [Next]_vars
  PROVE  /\ phase' \in [Stream -> {"idle", "waiting", "returned", "failed", "cancelled"}]
         /\ candidates' \in [Stream -> Seq(Model)]
         /\ feed' \in [Stream -> [Model -> Feed]]
         /\ fired' \in [Stream -> BOOLEAN]
         /\ delivered' \in [Stream -> SUBSET Model]
<1> DEFINE Goal == /\ phase' \in [Stream -> {"idle", "waiting", "returned", "failed", "cancelled"}]
                   /\ candidates' \in [Stream -> Seq(Model)]
                   /\ feed' \in [Stream -> [Model -> Feed]]
                   /\ fired' \in [Stream -> BOOLEAN]
                   /\ delivered' \in [Stream -> SUBSET Model]
<1>0. /\ phase \in [Stream -> {"idle", "waiting", "returned", "failed", "cancelled"}]
      /\ candidates \in [Stream -> Seq(Model)]
      /\ feed \in [Stream -> [Model -> Feed]]
      /\ fired \in [Stream -> BOOLEAN]
      /\ delivered \in [Stream -> SUBSET Model]
      /\ TypeOK
  BY DEF IInv, TypeOK
<1>89. \A s \in Stream : candidates[s] # <<>> => Current(s) \in Model /\ Tail(candidates[s]) \in Seq(Model)
  BY <1>0, HeadTail DEF Current
<1>90. <<>> \in Seq(Model)
  OBVIOUS
<1>1. CASE UNCHANGED vars
  BY <1>1, <1>0 DEF vars
<1>2. ASSUME NEW n \in Model, Cool(n) PROVE Goal
  BY <1>2, <1>0 DEF Cool, storeUsers
<1>3. ASSUME NEW c \in Call, BeginCall(c) PROVE Goal
  BY <1>3, <1>0 DEF BeginCall
<1>4. ASSUME NEW c \in Call, CallSucceeds(c) PROVE Goal
  BY <1>4, <1>0 DEF CallSucceeds
<1>5. ASSUME NEW c \in Call, CallFails(c) PROVE Goal
  BY <1>5, <1>0 DEF CallFails
<1>6. ASSUME NEW c \in Call, CallInterrupted(c) PROVE Goal
  BY <1>6, <1>0 DEF CallInterrupted
<1>7. ASSUME NEW u \in Stream, BeginStream(u) PROVE Goal
  <2>1. PICK p \in Orders : \E q \in Selected(p) : Candidate(u, health, feed[u], q)
    BY <1>7 DEF BeginStream
  <2>2. PICK q \in Selected(p) : Candidate(u, health, feed[u], q)
    BY <2>1
  <2>3. delivered' = delivered
    BY <1>7 DEF BeginStream
  <2>4. feed[u] \in [Model -> Feed] /\ q \in Seq(Model)
    BY <1>0, SelectedTyped
  <2>. QED BY <1>0, <2>2, <2>3, <2>4, CandidateTyped
<1>8. ASSUME NEW u \in Stream, TimeOut(u) PROVE Goal
  BY <1>8, <1>0 DEF TimeOut
<1>9. ASSUME NEW u \in Stream, Return(u) PROVE Goal
  BY <1>9, <1>0 DEF Return
<1>10. ASSUME NEW u \in Stream, FallBack(u) PROVE Goal
  <2>1. Current(u) \in Model /\ Tail(candidates[u]) \in Seq(Model)
    BY <1>10, <1>89 DEF FallBack, IInv, Candidacy
  <2>2. delivered' = delivered
    BY <1>10 DEF FallBack
  <2>3. Candidate(u, [health EXCEPT ![Current(u)] = FailureRecorded(@)],
                  [feed[u] EXCEPT ![Current(u)] = Silenced(@)], Tail(candidates[u]))
    BY <1>10 DEF FallBack, NextCandidate
  <2>4. [feed[u] EXCEPT ![Current(u)] = Silenced(@)] \in [Model -> Feed]
    BY <1>0, <2>1 DEF Silenced, Feed, Live
  <2>. QED BY <1>0, <2>1, <2>2, <2>3, <2>4, CandidateTyped
<1>11. ASSUME NEW u \in Stream, Abort(u) PROVE Goal
  <2>1. Silenced(feed[u][Current(u)]) \in Feed
    <3>1. Current(u) \in Model
      BY <1>11, <1>89 DEF Abort, IInv, Candidacy
    <3>. QED BY <1>0, <3>1 DEF Silenced, Feed, Live
  <2>. QED BY <1>11, <1>0, <2>1 DEF Abort
<1>12. ASSUME NEW u \in Stream, Stop(u) PROVE Goal
  BY <1>12, <1>0 DEF Stop, Feed, Live
<1>13. ASSUME NEW u \in Stream, NextStream(u) PROVE Goal
  BY <1>13, <1>0, <1>90 DEF NextStream, Feed, Live
<1>14. ASSUME NEW u \in Stream, NEW n \in Model, FirstToken(u, n) PROVE Goal
  BY <1>14, <1>0 DEF FirstToken, Feed, Live
<1>15. ASSUME NEW u \in Stream, NEW n \in Model, FeedCompletes(u, n) PROVE Goal
  BY <1>15, <1>0 DEF FeedCompletes, Feed, Live
<1>16. ASSUME NEW u \in Stream, NEW n \in Model, FeedFails(u, n) PROVE Goal
  <2>1. feed' = [feed EXCEPT ![u][n] = "broken"] \/ feed' = [feed EXCEPT ![u][n] = "failed"]
    BY <1>16 DEF FeedFails
  <2>2. feed' \in [Stream -> [Model -> Feed]]
    <3>1. CASE feed' = [feed EXCEPT ![u][n] = "broken"]
      BY <1>0, <3>1 DEF Feed, Live
    <3>2. CASE feed' = [feed EXCEPT ![u][n] = "failed"]
      BY <1>0, <3>2 DEF Feed, Live
    <3>. QED BY <2>1, <3>1, <3>2
  <2>. QED BY <1>16, <1>0, <2>2 DEF FeedFails
<1>. QED BY <1>1, <1>2, <1>3, <1>4, <1>5, <1>6, <1>7, <1>8, <1>9, <1>10, <1>11, <1>12,
          <1>13, <1>14, <1>15, <1>16 DEF Next

LEMMA TypeStep == IInv /\ [Next]_vars => TypeOK'
BY StoreStep, StreamTypeStep DEF TypeOK

-----------------------------------------------------------------------------
(* The streams.                                                            *)

(* start() takes a candidate for a stream whose output is not settled. *)
LEMMA CandidateCandidacy ==
  ASSUME TypeOK, NEW s \in Stream, NEW store, NEW feeds \in [Model -> Feed], NEW q \in Seq(Model),
         Candidate(s, store, feeds, q), delivered' = delivered,
         Settled(s) = {}, \A m \in Model : feeds[m] \notin Live
  PROVE  Candidacy(s)'
<1> USE DEF TypeOK
<1>1. fired'[s] = FALSE
  BY CandidateFired DEF TypeOK
<1>2. Settled(s)' = {}
  BY DEF Settled
<1>3. CASE GivenUp(s, feeds)
  BY <1>1, <1>2, <1>3 DEF Candidacy, GivenUp
<1>4. ASSUME NEW m \in Model, NEW r \in Seq(Model), Chosen(s, feeds, m, r)
      PROVE  Candidacy(s)'
  <2>1. phase'[s] = "waiting" /\ candidates'[s] # <<>> /\ Current(s)' = m
    BY <1>4 DEF Current, Chosen
  <2>2. \A n \in Model : n # m => feed'[s][n] \notin Live
    BY <1>4 DEF Chosen
  <2>. QED BY <1>1, <1>2, <2>1, <2>2 DEF Candidacy
<1>. QED BY <1>3, <1>4, CandidateFacts

(* It leaves the other streams alone. *)
LEMMA CandidateElsewhere ==
  ASSUME NEW s, NEW store, NEW feeds, NEW q \in Seq(Model), Candidate(s, store, feeds, q),
         TypeOK, NEW t \in Stream, t # s
  PROVE  /\ phase'[t] = phase[t] /\ candidates'[t] = candidates[t]
         /\ feed'[t] = feed[t] /\ fired'[t] = fired[t]
<1>1. fired'[t] = fired[t]
  BY CandidateFired DEF TypeOK
<1>2. CASE GivenUp(s, feeds)
  BY <1>1, <1>2 DEF TypeOK, GivenUp
<1>3. ASSUME NEW m \in Model, NEW r \in Seq(Model), Chosen(s, feeds, m, r)
      PROVE  phase'[t] = phase[t] /\ candidates'[t] = candidates[t] /\ feed'[t] = feed[t]
  BY <1>3 DEF TypeOK, Chosen
<1>. QED BY <1>1, <1>2, <1>3, CandidateFacts

(* What is known of a stream is known after every step. *)
LEMMA CandidacyStep ==
  ASSUME IInv, [Next]_vars, NEW t \in Stream
  PROVE  Candidacy(t)'
<1>0. /\ phase \in [Stream -> {"idle", "waiting", "returned", "failed", "cancelled"}]
      /\ candidates \in [Stream -> Seq(Model)]
      /\ feed \in [Stream -> [Model -> Feed]]
      /\ fired \in [Stream -> BOOLEAN]
      /\ delivered \in [Stream -> SUBSET Model]
      /\ TypeOK /\ Candidacy(t)
  BY DEF IInv, TypeOK
<1>88. ASSUME phase'[t] = phase[t], candidates'[t] = candidates[t], feed'[t] = feed[t],
              fired'[t] = fired[t], delivered'[t] = delivered[t]
       PROVE  Candidacy(t)'
  BY <1>0, <1>88 DEF Candidacy, Current, Settled
<1>89. candidates[t] # <<>> => Current(t) \in Model /\ Tail(candidates[t]) \in Seq(Model)
  BY <1>0, HeadTail DEF Current
<1>1. CASE UNCHANGED vars
  BY <1>1, <1>88 DEF vars
<1>2. ASSUME NEW n \in Model, Cool(n) PROVE Candidacy(t)'
  BY <1>2, <1>88 DEF Cool, storeUsers
<1>3. ASSUME NEW c \in Call, BeginCall(c) PROVE Candidacy(t)'
  BY <1>3, <1>88 DEF BeginCall
<1>4. ASSUME NEW c \in Call, CallSucceeds(c) PROVE Candidacy(t)'
  BY <1>4, <1>88 DEF CallSucceeds
<1>5. ASSUME NEW c \in Call, CallFails(c) PROVE Candidacy(t)'
  BY <1>5, <1>88 DEF CallFails
<1>6. ASSUME NEW c \in Call, CallInterrupted(c) PROVE Candidacy(t)'
  BY <1>6, <1>88 DEF CallInterrupted
<1>7. ASSUME NEW u \in Stream, BeginStream(u) PROVE Candidacy(t)'
  <2>0. PICK p \in Orders : \E q \in Selected(p) : Candidate(u, health, feed[u], q)
    BY <1>7 DEF BeginStream
  <2>1. PICK q \in Selected(p) : Candidate(u, health, feed[u], q)
    BY <2>0
  <2>2. q \in Seq(Model) /\ feed[u] \in [Model -> Feed]
    BY <1>0, SelectedTyped
  <2>3. CASE u # t
    <3>1. delivered'[t] = delivered[t]
      BY <1>7 DEF BeginStream
    <3>2. /\ phase'[t] = phase[t] /\ candidates'[t] = candidates[t]
          /\ feed'[t] = feed[t] /\ fired'[t] = fired[t]
      BY <1>0, <2>1, <2>2, <2>3, CandidateElsewhere
    <3>. QED BY <1>88, <3>1, <3>2
  <2>4. CASE u = t
    <3>1. delivered' = delivered
      BY <1>7 DEF BeginStream
    <3>2. phase[t] = "idle"
      BY <1>7, <2>4 DEF BeginStream
    <3>3. Settled(t) = {} /\ \A m \in Model : feed[t][m] \notin Live
      BY <1>0, <3>2 DEF Candidacy
    <3>. QED BY <1>0, <2>1, <2>2, <2>4, <3>1, <3>2, <3>3, CandidateCandidacy
  <2>. QED BY <2>3, <2>4
<1>8. ASSUME NEW u \in Stream, TimeOut(u) PROVE Candidacy(t)'
  <2>1. CASE u # t
    BY <1>8, <1>0, <1>88, <2>1 DEF TimeOut
  <2>2. CASE u = t
    BY <1>8, <1>0, <2>2 DEF TimeOut, Candidacy, Current, Settled, Live
  <2>. QED BY <2>1, <2>2
<1>9. ASSUME NEW u \in Stream, Return(u) PROVE Candidacy(t)'
  <2>1. CASE u # t
    BY <1>9, <1>0, <1>88, <2>1 DEF Return
  <2>2. CASE u = t
    BY <1>9, <1>0, <2>2 DEF Return, Candidacy, Current, Settled, Live
  <2>. QED BY <2>1, <2>2
<1>10. ASSUME NEW u \in Stream, FallBack(u) PROVE Candidacy(t)'
  <2> DEFINE store == [health EXCEPT ![Current(u)] = FailureRecorded(@)]
  <2> DEFINE feeds == [feed[u] EXCEPT ![Current(u)] = Silenced(@)]
  <2> DEFINE rest == Tail(candidates[u])
  <2>1. Candidate(u, store, feeds, rest)
    BY <1>10 DEF FallBack, NextCandidate
  <2>0. Candidacy(u) /\ phase[u] = "waiting" /\ candidates[u] # <<>>
    BY <1>10 DEF FallBack, IInv, Candidacy
  <2>9. Current(u) \in Model /\ Tail(candidates[u]) \in Seq(Model)
    BY <1>0, <2>0, HeadTail DEF Current
  <2>2. /\ rest \in Seq(Model)
        /\ feeds \in [Model -> Feed]
    BY <1>0, <2>9 DEF Silenced, Feed, Live
  <2>3. CASE u # t
    <3>1. delivered'[t] = delivered[t]
      BY <1>10 DEF FallBack
    <3>2. /\ phase'[t] = phase[t] /\ candidates'[t] = candidates[t]
          /\ feed'[t] = feed[t] /\ fired'[t] = fired[t]
      <4> HIDE DEF store, feeds, rest
      <4>. QED BY <1>0, <2>1, <2>2, <2>3, CandidateElsewhere
    <3>. QED BY <1>88, <3>1, <3>2
  <2>4. CASE u = t
    <3>1. delivered' = delivered
      BY <1>10 DEF FallBack
    <3>2. Settled(t) = {}
      <4>1. Current(t) \notin Settled(t)
        BY <1>10, <2>0, <2>4 DEF FallBack, Candidacy, Settled
      <4>. QED BY <1>0, <4>1 DEF Candidacy
    <3>3. \A m \in Model : feeds[m] \notin Live
      <4>1. \A m \in Model : m # Current(t) => feed[t][m] \notin Live
        BY <1>0 DEF Candidacy
      <4>2. \A f : Silenced(f) \notin Live
        BY DEF Silenced, Live
      <4>. QED BY <1>0, <2>4, <4>1, <4>2
    <3> HIDE DEF store, feeds, rest
    <3>. QED BY <1>0, <2>1, <2>2, <2>4, <3>1, <3>2, <3>3, CandidateCandidacy
  <2>. QED BY <2>3, <2>4
<1>11. ASSUME NEW u \in Stream, Abort(u) PROVE Candidacy(t)'
  <2>1. CASE u # t
    BY <1>11, <1>0, <1>88, <2>1 DEF Abort
  <2>2. CASE u = t
    BY <1>11, <1>0, <1>89, <2>2 DEF Abort, Silenced, Candidacy, Current, Settled, Live
  <2>. QED BY <2>1, <2>2
<1>12. ASSUME NEW u \in Stream, Stop(u) PROVE Candidacy(t)'
  <2>1. CASE u # t
    BY <1>12, <1>0, <1>88, <2>1 DEF Stop
  <2>2. CASE u = t
    BY <1>12, <1>0, <2>2 DEF Stop, Candidacy, Current, Settled, Live
  <2>. QED BY <2>1, <2>2
<1>13. ASSUME NEW u \in Stream, NextStream(u) PROVE Candidacy(t)'
  <2>1. CASE u # t
    BY <1>13, <1>0, <1>88, <2>1 DEF NextStream
  <2>2. CASE u = t
    BY <1>13, <1>0, <2>2 DEF NextStream, Candidacy, Current, Settled, Live
  <2>. QED BY <2>1, <2>2
<1>14. ASSUME NEW u \in Stream, NEW n \in Model, FirstToken(u, n) PROVE Candidacy(t)'
  <2>1. CASE u # t
    BY <1>14, <1>0, <1>88, <2>1 DEF FirstToken
  <2>2. CASE u = t
    BY <1>14, <1>0, <2>2 DEF FirstToken, Candidacy, Current, Settled, Live
  <2>. QED BY <2>1, <2>2
<1>15. ASSUME NEW u \in Stream, NEW n \in Model, FeedCompletes(u, n) PROVE Candidacy(t)'
  <2>1. CASE u # t
    BY <1>15, <1>0, <1>88, <2>1 DEF FeedCompletes
  <2>2. CASE u = t
    BY <1>15, <1>0, <2>2 DEF FeedCompletes, Candidacy, Current, Settled, Live
  <2>. QED BY <2>1, <2>2
<1>16. ASSUME NEW u \in Stream, NEW n \in Model, FeedFails(u, n) PROVE Candidacy(t)'
  <2>1. CASE u # t
    BY <1>16, <1>0, <1>88, <2>1 DEF FeedFails
  <2>2. CASE u = t
    BY <1>16, <1>0, <2>2 DEF FeedFails, Candidacy, Current, Settled, Live
  <2>. QED BY <2>1, <2>2
<1>. QED BY <1>1, <1>2, <1>3, <1>4, <1>5, <1>6, <1>7, <1>8, <1>9, <1>10, <1>11, <1>12,
          <1>13, <1>14, <1>15, <1>16 DEF Next

-----------------------------------------------------------------------------
(* The probes.                                                             *)

(* The calls that probe a model can be counted, and more calls are more. *)
LEMMA ProbesFinite ==
  ASSUME NEW S, NEW T, S \subseteq Call, T \subseteq S
  PROVE  Cardinality(T) <= Cardinality(S) /\ Cardinality(T) \in Nat /\ Cardinality(S) \in Nat
<1>1. IsFiniteSet(S) /\ IsFiniteSet(T)
  BY CallerAssumption, FS_Subset
<1>. QED BY <1>1, FS_Subset, FS_CardinalityType

(* One call more that probes a model. *)
LEMMA ProbesWith ==
  ASSUME NEW S, NEW c \in Call, S \subseteq Call, c \notin S
  PROVE  Cardinality(S \cup {c}) = Cardinality(S) + 1
BY CallerAssumption, FS_Subset, FS_AddElement

(* The attempt of a call that probed nothing else of the store is accounted for. *)
LEMMA AttemptAccounted ==
  ASSUME TypeOK, NEW c \in Call, NEW store \in [Model -> Health], NEW q \in Seq(Model),
         Attempt(c, store, q), \A n \in Model : Known(store[n]),
         \A n \in Model : store[n].inFlight <= Cardinality(Probes(n) \ {c}),
         NEW m \in Model
  PROVE  health'[m].inFlight <= Cardinality(Probes(m)')
<1>0. attempts \in [Call -> Seq(Model)]
  BY DEF TypeOK
<1>1. Probes(m) \ {c} \subseteq Call /\ Probes(m) \subseteq Call /\ Probes(m)' \subseteq Call
  BY DEF Probes
<1>2. store[m].inFlight <= Cardinality(Probes(m) \ {c}) /\ store[m].inFlight \in Nat
  BY DEF Health
<1>3. CASE attempts' = [attempts EXCEPT ![c] = <<>>] /\ health' = store
  <2>1. Probes(m) \ {c} \subseteq Probes(m)'
    BY <1>0, <1>3 DEF Probes
  <2>2. /\ Cardinality(Probes(m) \ {c}) <= Cardinality(Probes(m)')
        /\ Cardinality(Probes(m) \ {c}) \in Nat /\ Cardinality(Probes(m)') \in Nat
    BY <1>1, <2>1, ProbesFinite
  <2>. QED BY <1>2, <1>3, <2>2
<1>4. ASSUME NEW n \in Model, NEW r \in Seq(Model), r # <<>>, Head(r) = n,
             ~ Unavailable(store[n]),
             attempts' = [attempts EXCEPT ![c] = r],
             health' = [store EXCEPT ![n] = Admitted(@)]
      PROVE  health'[m].inFlight <= Cardinality(Probes(m)')
  <2>1. Probes(m) \ {c} \subseteq Probes(m)' /\ (m = n => Probes(m)' = (Probes(m) \ {c}) \cup {c})
    BY <1>0, <1>4 DEF Probes
  <2>2. /\ Cardinality(Probes(m) \ {c}) <= Cardinality(Probes(m)')
        /\ Cardinality(Probes(m) \ {c}) \in Nat /\ Cardinality(Probes(m)') \in Nat
    BY <1>1, <2>1, ProbesFinite
  <2>3. CASE m = n
    <3>1. Cardinality(Probes(m)') = Cardinality(Probes(m) \ {c}) + 1
      BY <1>1, <2>1, <2>3, ProbesWith
    <3>2. Admitted(store[n]) \in Health /\ Admitted(store[n]).inFlight <= store[n].inFlight + 1
      BY <1>4, AdmissionFacts
    <3>3. health'[m].inFlight = Admitted(store[n]).inFlight /\ Admitted(store[n]).inFlight \in Nat
      BY <1>4, <2>3, <3>2 DEF Health
    <3>. QED BY <1>2, <2>2, <2>3, <3>1, <3>2, <3>3
  <2>4. CASE m # n
    <3>1. health'[m] = store[m]
      BY <1>4, <2>4
    <3>. QED BY <1>2, <2>2, <3>1
  <2>. QED BY <2>3, <2>4
<1>. QED BY <1>3, <1>4, AttemptFacts

(* The probes stay accounted for, as long as no call is interrupted. *)
LEMMA ProbesStep ==
  ASSUME IInv, [Next]_vars, Interruptible = {}, NEW m \in Model
  PROVE  health'[m].inFlight <= Cardinality(Probes(m)')
<1>0. /\ attempts \in [Call -> Seq(Model)] /\ health \in [Model -> Health] /\ TypeOK
      /\ \A n \in Model : Known(health[n])
      /\ \A n \in Model : health[n].inFlight <= Cardinality(Probes(n))
  BY DEF IInv, TypeOK, ProbesAccounted, Probes
<1>88. ASSUME attempts' = attempts, health'[m].inFlight <= health[m].inFlight,
              health'[m].inFlight \in Nat
       PROVE  health'[m].inFlight <= Cardinality(Probes(m)')
  <2>1. Probes(m)' = Probes(m) /\ Probes(m) \subseteq Call
    BY <1>88 DEF Probes
  <2>2. Cardinality(Probes(m)) \in Nat
    BY <2>1, ProbesFinite
  <2>3. health[m].inFlight <= Cardinality(Probes(m)) /\ health[m].inFlight \in Nat
    BY <1>0 DEF Health
  <2>. QED BY <1>88, <2>1, <2>2, <2>3
<1>89. health'[m].inFlight \in Nat /\ health[m].inFlight \in Nat
  BY <1>0, StoreStep DEF Health
<1>90. \A n \in Model : health[n].inFlight \in Nat
  BY <1>0 DEF Health
<1>1. CASE UNCHANGED vars
  BY <1>1, <1>88, <1>89 DEF vars
<1>2. ASSUME NEW n \in Model, Cool(n) PROVE health'[m].inFlight <= Cardinality(Probes(m)')
  BY <1>2, <1>0, <1>88, <1>89 DEF Cool, storeUsers, Health
<1>3. ASSUME NEW c \in Call, BeginCall(c) PROVE health'[m].inFlight <= Cardinality(Probes(m)')
  <2>1. PICK p \in Orders : \E q \in Selected(p) : Attempt(c, health, q)
    BY <1>3 DEF BeginCall
  <2>2. PICK q \in Selected(p) : Attempt(c, health, q)
    BY <2>1
  <2>3. \A n \in Model : Probes(n) \ {c} = Probes(n)
    BY <1>3 DEF BeginCall, Probes
  <2>. QED BY <1>0, <2>2, <2>3, SelectedTyped, AttemptAccounted
<1>4. ASSUME NEW c \in Call, CallSucceeds(c) PROVE health'[m].inFlight <= Cardinality(Probes(m)')
  <2>1. CASE m = Head(attempts[c])
    <3>1. health'[m].inFlight = 0
      BY <1>4, <1>0, <2>1, HealthyFacts DEF CallSucceeds
    <3>2. Probes(m)' \subseteq Call
      BY DEF Probes
    <3>3. Cardinality(Probes(m)') \in Nat
      BY <3>2, ProbesFinite
    <3>. QED BY <3>1, <3>3
  <2>2. CASE m # Head(attempts[c])
    <3>1. health'[m] = health[m]
      BY <1>4, <1>0, <2>2 DEF CallSucceeds
    <3>2. Probes(m)' = Probes(m)
      BY <1>4, <1>0, <2>2 DEF CallSucceeds, Probes
    <3>. QED BY <1>0, <3>1, <3>2
  <2>. QED BY <2>1, <2>2
<1>5. ASSUME NEW c \in Call, CallFails(c) PROVE health'[m].inFlight <= Cardinality(Probes(m)')
  <2> DEFINE store == [health EXCEPT ![Head(attempts[c])] = FailureRecorded(@)]
  <2>1. Head(attempts[c]) \in Model /\ Tail(attempts[c]) \in Seq(Model)
    BY <1>5, <1>0, HeadTail DEF CallFails
  <2>2. Attempt(c, store, Tail(attempts[c]))
    BY <1>5 DEF CallFails
  <2>3. /\ store \in [Model -> Health]
        /\ \A n \in Model : Known(store[n])
        /\ store[Head(attempts[c])].inFlight = 0
        /\ \A n \in Model : n # Head(attempts[c]) => store[n] = health[n]
    BY <1>0, <2>1, FailureOf
  <2> HIDE DEF store
  <2>4. ASSUME NEW n \in Model PROVE store[n].inFlight <= Cardinality(Probes(n) \ {c})
    <3>1. CASE n = Head(attempts[c])
      <4>1. Probes(n) \ {c} \subseteq Call
        BY DEF Probes
      <4>2. Cardinality(Probes(n) \ {c}) \in Nat
        BY <4>1, ProbesFinite
      <4>. QED BY <2>3, <3>1, <4>2
    <3>2. CASE n # Head(attempts[c])
      <4>1. Probes(n) \ {c} = Probes(n)
        BY <3>2 DEF Probes
      <4>. QED BY <1>0, <2>3, <3>2, <4>1
    <3>. QED BY <3>1, <3>2
  <2>5. Tail(attempts[c]) \in Seq(Model)
    BY <2>1
  <2> DEFINE rest == Tail(attempts[c])
  <2> HIDE DEF rest
  <2>6. Attempt(c, store, rest) /\ rest \in Seq(Model)
    BY <2>2, <2>5 DEF rest
  <2>. QED BY <1>0, <2>3, <2>4, <2>6, AttemptAccounted
<1>6. ASSUME NEW c \in Call, CallInterrupted(c) PROVE health'[m].inFlight <= Cardinality(Probes(m)')
  BY <1>6 DEF CallInterrupted
<1>7. ASSUME NEW u \in Stream, BeginStream(u) PROVE health'[m].inFlight <= Cardinality(Probes(m)')
  <2>1. PICK p \in Orders : \E q \in Selected(p) : Candidate(u, health, feed[u], q)
    BY <1>7 DEF BeginStream
  <2>2. PICK q \in Selected(p) : Candidate(u, health, feed[u], q)
    BY <2>1
  <2>3. attempts' = attempts
    BY <1>7 DEF BeginStream
  <2>4. health'[m].inFlight <= health[m].inFlight
    BY <1>0, <2>2, SelectedTyped, CandidateStore
  <2>. QED BY <1>88, <1>89, <2>3, <2>4
<1>8. ASSUME NEW u \in Stream, TimeOut(u) PROVE health'[m].inFlight <= Cardinality(Probes(m)')
  BY <1>8, <1>88, <1>89 DEF TimeOut
<1>9. ASSUME NEW u \in Stream, Return(u) PROVE health'[m].inFlight <= Cardinality(Probes(m)')
  <2>1. attempts' = attempts /\ (health' = health \/ health' = [health EXCEPT ![Current(u)] = Healthy])
    BY <1>9 DEF Return
  <2>2. health'[m].inFlight <= health[m].inFlight
    BY <1>0, <1>89, <2>1, HealthyFacts
  <2>. QED BY <1>88, <1>89, <2>1, <2>2
<1>10. ASSUME NEW u \in Stream, FallBack(u) PROVE health'[m].inFlight <= Cardinality(Probes(m)')
  <2> DEFINE store == [health EXCEPT ![Current(u)] = FailureRecorded(@)]
  <2> DEFINE feeds == [feed[u] EXCEPT ![Current(u)] = Silenced(@)]
  <2> DEFINE rest == Tail(candidates[u])
  <2>1. Current(u) \in Model /\ rest \in Seq(Model)
    BY <1>10, HeadTail DEF FallBack, IInv, TypeOK, Candidacy, Current
  <2>2. attempts' = attempts
    BY <1>10 DEF FallBack
  <2>3. Candidate(u, store, feeds, rest)
    BY <1>10 DEF FallBack, NextCandidate
  <2>4. /\ store \in [Model -> Health] /\ \A n \in Model : Known(store[n])
        /\ store[m].inFlight <= health[m].inFlight
    BY <1>0, <2>1, FailureOf
  <2> HIDE DEF store, feeds, rest
  <2>5. health'[m].inFlight <= store[m].inFlight
    BY <2>1, <2>3, <2>4, CandidateStore
  <2>6. store[m].inFlight \in Nat
    BY <2>4 DEF Health
  <2>. QED BY <1>88, <1>89, <2>2, <2>4, <2>5, <2>6
<1>11. ASSUME NEW u \in Stream, Abort(u) PROVE health'[m].inFlight <= Cardinality(Probes(m)')
  BY <1>11, <1>88, <1>89 DEF Abort
<1>12. ASSUME NEW u \in Stream, Stop(u) PROVE health'[m].inFlight <= Cardinality(Probes(m)')
  BY <1>12, <1>88, <1>89 DEF Stop
<1>13. ASSUME NEW u \in Stream, NextStream(u) PROVE health'[m].inFlight <= Cardinality(Probes(m)')
  BY <1>13, <1>88, <1>89 DEF NextStream
<1>14. ASSUME NEW u \in Stream, NEW n \in Model, FirstToken(u, n) PROVE health'[m].inFlight <= Cardinality(Probes(m)')
  BY <1>14, <1>88, <1>89 DEF FirstToken
<1>15. ASSUME NEW u \in Stream, NEW n \in Model, FeedCompletes(u, n) PROVE health'[m].inFlight <= Cardinality(Probes(m)')
  BY <1>15, <1>88, <1>89 DEF FeedCompletes
<1>16. ASSUME NEW u \in Stream, NEW n \in Model, FeedFails(u, n) PROVE health'[m].inFlight <= Cardinality(Probes(m)')
  <2>1. attempts' = attempts
    BY <1>16 DEF FeedFails
  <2>2. health' = health \/ health' = [health EXCEPT ![n] = FailureRecorded(@)]
    BY <1>16 DEF FeedFails
  <2>3. health'[m].inFlight <= health[m].inFlight
    BY <1>0, <1>90, <2>2, FailureOf
  <2>. QED BY <1>88, <1>89, <2>1, <2>3
<1>. QED BY <1>1, <1>2, <1>3, <1>4, <1>5, <1>6, <1>7, <1>8, <1>9, <1>10, <1>11, <1>12,
          <1>13, <1>14, <1>15, <1>16 DEF Next

-----------------------------------------------------------------------------
(* The theorems.                                                           *)

(* The inductive invariant. *)
THEOREM Invariance == Spec => []IInv
<1>1. Init => IInv
  BY InitInv
<1>2. ASSUME IInv, [Next]_vars PROVE IInv'
  <2>1. TypeOK' /\ (\A m \in Model : Known(health'[m])) /\ (\A s \in Stream : Candidacy(s)')
    BY <1>2, TypeStep, StoreStep, CandidacyStep
  <2>2. ProbesAccounted'
    BY <1>2, ProbesStep DEF ProbesAccounted, Probes
  <2>. QED BY <2>1, <2>2 DEF IInv
<1>. QED BY <1>1, <1>2, PTL DEF Spec

(* Every variable has its type: failure_count stays within the threshold. *)
THEOREM TypeCorrect == Spec => []TypeOK
<1>1. IInv => TypeOK
  BY DEF IInv
<1>. QED BY <1>1, Invariance, PTL

(* A circuit that is not closed has not forgotten the failures that opened it. *)
THEOREM OpenRemembers == Spec => []FailuresRemembered
<1>1. IInv => FailuresRemembered
  BY DEF IInv, Known, FailuresRemembered
<1>. QED BY <1>1, Invariance, PTL

(* At most one model works for a stream, whatever errors and time-outs it meets. *)
THEOREM OneModelAtWork == Spec => []OneLiveFeed
<1>1. IInv => OneLiveFeed
  BY DEF IInv, Candidacy, OneLiveFeed
<1>. QED BY <1>1, Invariance, PTL

(* A stream does not leave a model that has spoken, unless it is one that may be Late. *)
THEOREM SpokenIsKept == Spec => []FirstTokenFinal
<1>1. IInv => FirstTokenFinal
  BY DEF IInv, Candidacy, Settled, FirstTokenFinal
<1>. QED BY <1>1, Invariance, PTL

(* half_open_in_flight counts attempts that still run and will report. *)
THEOREM ProbesReport == Spec => []ProbesAccounted
<1>1. IInv => ProbesAccounted
  BY DEF IInv
<1>. QED BY <1>1, Invariance, PTL

(* Two models in one answer is the doing of a model whose first token may  *)
(* come as late as the time-out: of two that are heard one is Late, and    *)
(* where none is, the answer is never mixed.                               *)
THEOREM OnlyLateMix ==
  /\ Spec => [](\A s \in Stream : \A m, n \in delivered[s] : m = n \/ {m, n} \cap Late # {})
  /\ Late = {} => (Spec => []NoMixedOutput)
<1> DEFINE Blamed == \A s \in Stream : \A m, n \in delivered[s] : m = n \/ {m, n} \cap Late # {}
<1>1. IInv => Blamed
  BY DEF IInv, Candidacy, Settled
<1>2. ASSUME Late = {} PROVE Blamed => NoMixedOutput
  BY <1>2 DEF NoMixedOutput
<1> HIDE DEF Blamed
<1>3. Spec => []Blamed
  BY <1>1, Invariance, PTL
<1>4. ASSUME Late = {} PROVE Spec => []NoMixedOutput
  <2>1. Blamed => NoMixedOutput
    BY <1>2, <1>4
  <2>. QED BY <1>3, <2>1, PTL
<1>. QED BY <1>3, <1>4 DEF Blamed

-----------------------------------------------------------------------------
(* The steps of ModelStart.                                                *)

TriedView == [s \in Stream |-> Tried(s)]

WorkingView == [s \in Stream |-> Working(s)]

(* What a model has said the user has heard, and start() returned for one that spoke. *)
Told(s) ==
  /\ \A m \in Model : feed[s][m] \in {"flowing", "completed", "failed"} => m \in delivered[s]
  /\ phase[s] = "returned" => feed[s][Current(s)] # "silent"

(* A step of one stream is seen at that stream alone. *)
LEMMA ViewStep ==
  ASSUME NEW u \in Stream,
         \A t \in Stream : t # u => candidates'[t] = candidates[t] /\ feed'[t] = feed[t]
  PROVE  /\ TriedView' = [TriedView EXCEPT ![u] = Tried(u)']
         /\ WorkingView' = [WorkingView EXCEPT ![u] = Working(u)']
<1>1. \A t \in Stream : t # u => Tried(t)' = Tried(t) /\ Working(t)' = Working(t)
  BY DEF Tried, Working, Current
<1>. QED BY <1>1 DEF TriedView, WorkingView

(* A stream whose candidates stay is seen to try the same model. *)
LEMMA SameTried ==
  ASSUME NEW u \in Stream, candidates' = candidates
  PROVE  TriedView' = TriedView
BY DEF TriedView, Tried, Current

(* start() gives up, or goes on to a model. *)
LEMMA CandidateStarts ==
  ASSUME TypeOK, NEW s \in Stream, NEW store, NEW feeds \in [Model -> Feed], NEW q \in Seq(Model),
         Candidate(s, store, feeds, q), delivered' = delivered,
         Start!Open(s), \A m \in Model : feeds[m] \notin Live
  PROVE  Start!GiveUp(s) \/ \E m \in Model : Start!Choose(s, m)
<1>1. \A t \in Stream : t # s => candidates'[t] = candidates[t] /\ feed'[t] = feed[t]
  BY CandidateElsewhere
<1>2. /\ TriedView' = [TriedView EXCEPT ![s] = Tried(s)']
      /\ WorkingView' = [WorkingView EXCEPT ![s] = Working(s)']
  BY <1>1, ViewStep
<1>3. CASE GivenUp(s, feeds)
  <2>1. Tried(s)' = {} /\ Working(s)' = {}
    BY <1>3 DEF GivenUp, Tried, Working, TypeOK
  <2>2. phase' = [phase EXCEPT ![s] = "failed"]
    BY <1>3 DEF GivenUp
  <2>. QED BY <1>2, <2>1, <2>2 DEF Start!GiveUp, TriedView, WorkingView
<1>4. ASSUME NEW m \in Model, NEW r \in Seq(Model), Chosen(s, feeds, m, r)
      PROVE  Start!Choose(s, m)
  <2>1. Tried(s)' = {m}
    BY <1>4 DEF Chosen, Tried, Current, TypeOK
  <2>2. Working(s)' = {m}
    BY <1>4 DEF Chosen, Working, Live, TypeOK
  <2>3. phase' = [phase EXCEPT ![s] = "waiting"]
    BY <1>4 DEF Chosen
  <2>. QED BY <1>2, <2>1, <2>2, <2>3 DEF Start!Choose, TriedView, WorkingView
<1>. QED BY <1>3, <1>4, CandidateFacts

(* start() keeps Told: a candidate begins silent. *)
LEMMA CandidateTold ==
  ASSUME TypeOK, NEW s \in Stream, NEW store, NEW feeds \in [Model -> Feed], NEW q \in Seq(Model),
         Candidate(s, store, feeds, q), delivered' = delivered,
         \A m \in Model : feeds[m] \in {"flowing", "completed", "failed"} => m \in delivered[s]
  PROVE  Told(s)'
<1>1. CASE GivenUp(s, feeds)
  BY <1>1 DEF GivenUp, Told, TypeOK
<1>2. ASSUME NEW m \in Model, NEW r \in Seq(Model), Chosen(s, feeds, m, r)
      PROVE  Told(s)'
  BY <1>2 DEF Chosen, Told, TypeOK
<1>. QED BY <1>1, <1>2, CandidateFacts

(* The two ways into the loop over the candidates. *)
LEMMA BeginStreamLoops ==
  ASSUME IInv, NEW u \in Stream, BeginStream(u)
  PROVE  /\ \E q \in Seq(Model) : Candidate(u, health, feed[u], q)
         /\ feed[u] \in [Model -> Feed] /\ \A m \in Model : feed[u][m] \notin Live
         /\ Start!Open(u) /\ delivered' = delivered
<1>1. PICK p \in Orders : \E q \in Selected(p) : Candidate(u, health, feed[u], q)
  BY DEF BeginStream
<1>2. PICK q \in Selected(p) : Candidate(u, health, feed[u], q)
  BY <1>1
<1>3. q \in Seq(Model)
  BY SelectedTyped
<1>4. phase[u] = "idle" /\ delivered' = delivered
  BY DEF BeginStream
<1>5. \A m \in Model : feed[u][m] \notin Live
  BY <1>4 DEF IInv, Candidacy
<1>. QED BY <1>2, <1>3, <1>4, <1>5 DEF IInv, TypeOK, Start!Open

LEMMA FallBackLoops ==
  ASSUME IInv, NEW u \in Stream, FallBack(u)
  PROVE  \E store : \E feeds \in [Model -> Feed] : \E q \in Seq(Model) :
           /\ Candidate(u, store, feeds, q)
           /\ \A m \in Model : feeds[m] \notin Live
           /\ \A m \in Model : feeds[m] \in {"flowing", "completed", "failed"} => feeds[m] = feed[u][m]
           /\ Start!Open(u) /\ delivered' = delivered
<1> DEFINE store == [health EXCEPT ![Current(u)] = FailureRecorded(@)]
<1> DEFINE feeds == [feed[u] EXCEPT ![Current(u)] = Silenced(@)]
<1> DEFINE rest == Tail(candidates[u])
<1>1. Candidate(u, store, feeds, rest) /\ delivered' = delivered /\ phase[u] = "waiting"
  BY DEF FallBack, NextCandidate
<1>2. Candidacy(u) /\ TypeOK /\ candidates[u] # <<>>
  BY <1>1 DEF IInv, Candidacy
<1>3. Current(u) \in Model /\ rest \in Seq(Model)
  BY <1>2, HeadTail DEF Current, TypeOK
<1>4. feed[u] \in [Model -> Feed]
  BY <1>2 DEF TypeOK
<1>5. feeds \in [Model -> Feed]
  BY <1>3, <1>4 DEF Silenced, Feed, Live
<1>6. \A m \in Model : feeds[m] \notin Live
  <2>1. \A m \in Model : m # Current(u) => feed[u][m] \notin Live
    BY <1>2 DEF Candidacy
  <2>2. \A f : Silenced(f) \notin Live
    BY DEF Silenced, Live
  <2>. QED BY <1>4, <2>1, <2>2
<1>7. \A m \in Model : feeds[m] \in {"flowing", "completed", "failed"} => feeds[m] = feed[u][m]
  <2>1. \A f : Silenced(f) \in {"flowing", "completed", "failed"} => Silenced(f) = f
    BY DEF Silenced
  <2>. QED BY <1>4, <2>1
<1>8. delivered[u] \subseteq Late
  <2>1. Current(u) \notin Settled(u)
    BY <1>2 DEF FallBack, Candidacy, Settled
  <2>2. Settled(u) = {}
    BY <1>2, <2>1 DEF Candidacy
  <2>. QED BY <2>2 DEF Settled
<1>9. Start!Open(u)
  BY <1>1, <1>8 DEF Start!Open
<1> HIDE DEF store, feeds, rest
<1>. QED BY <1>1, <1>3, <1>5, <1>6, <1>7, <1>9

(* Told is kept. *)
LEMMA ToldStep ==
  ASSUME IInv, \A s \in Stream : Told(s), [Next]_vars, NEW t \in Stream
  PROVE  Told(t)'
<1>0. /\ phase \in [Stream -> {"idle", "waiting", "returned", "failed", "cancelled"}]
      /\ feed \in [Stream -> [Model -> Feed]] /\ delivered \in [Stream -> SUBSET Model]
      /\ candidates \in [Stream -> Seq(Model)]
      /\ TypeOK /\ Told(t)
  BY DEF IInv, TypeOK
<1>1. ASSUME phase'[t] = phase[t], candidates'[t] = candidates[t], feed'[t] = feed[t],
             delivered'[t] = delivered[t]
      PROVE  Told(t)'
  BY <1>0, <1>1 DEF Told, Current
<1>2. CASE UNCHANGED <<phase, candidates, feed, delivered>>
  BY <1>1, <1>2
<1>3. ASSUME NEW u \in Stream, BeginStream(u) PROVE Told(t)'
  <2>1. PICK q \in Seq(Model) : Candidate(u, health, feed[u], q)
    BY <1>3, BeginStreamLoops
  <2>2. feed[u] \in [Model -> Feed] /\ delivered' = delivered
    BY <1>3, BeginStreamLoops
  <2>3. CASE u # t
    BY <1>0, <1>1, <2>1, <2>2, <2>3, CandidateElsewhere
  <2>4. CASE u = t
    BY <1>0, <2>1, <2>2, <2>4, CandidateTold DEF Told
  <2>. QED BY <2>3, <2>4
<1>4. ASSUME NEW u \in Stream, FallBack(u) PROVE Told(t)'
  <2>1. PICK store : \E feeds \in [Model -> Feed] : \E q \in Seq(Model) :
           /\ Candidate(u, store, feeds, q)
           /\ \A m \in Model : feeds[m] \in {"flowing", "completed", "failed"} => feeds[m] = feed[u][m]
           /\ delivered' = delivered
    BY <1>4, FallBackLoops
  <2>2. PICK feeds \in [Model -> Feed] : \E q \in Seq(Model) :
           /\ Candidate(u, store, feeds, q)
           /\ \A m \in Model : feeds[m] \in {"flowing", "completed", "failed"} => feeds[m] = feed[u][m]
           /\ delivered' = delivered
    BY <2>1
  <2>3. PICK q \in Seq(Model) : Candidate(u, store, feeds, q)
    BY <2>2
  <2>4. CASE u # t
    BY <1>0, <1>1, <2>2, <2>3, <2>4, CandidateElsewhere
  <2>5. CASE u = t
    <3>1. \A m \in Model : feeds[m] \in {"flowing", "completed", "failed"} => m \in delivered[t]
      BY <1>0, <2>2, <2>5 DEF Told
    <3>. QED BY <1>0, <2>2, <2>3, <2>5, <3>1, CandidateTold
  <2>. QED BY <2>4, <2>5
<1>5. ASSUME NEW u \in Stream, Return(u) \/ Abort(u) \/ Stop(u) \/ NextStream(u) PROVE Told(t)'
  <2>1. CASE u # t
    BY <1>0, <1>1, <1>5, <2>1 DEF Return, Abort, Stop, NextStream
  <2>2. CASE u = t
    <3>1. CASE Return(t)
      BY <1>0, <3>1 DEF Return, Told, Current
    <3>2. CASE Abort(t)
      BY <1>0, <3>2 DEF Abort, Told, Current, Silenced
    <3>3. CASE Stop(t)
      BY <1>0, <3>3 DEF Stop, Told, Current
    <3>4. CASE NextStream(t)
      BY <1>0, <3>4 DEF NextStream, Told
    <3>. QED BY <1>5, <2>2, <3>1, <3>2, <3>3, <3>4
  <2>. QED BY <2>1, <2>2
<1>6. ASSUME NEW u \in Stream, NEW n \in Model, FirstToken(u, n) PROVE Told(t)'
  <2>1. CASE u # t
    BY <1>0, <1>1, <1>6, <2>1 DEF FirstToken
  <2>2. CASE u = t
    BY <1>0, <1>6, <2>2 DEF FirstToken, Told, Current
  <2>. QED BY <2>1, <2>2
<1>7. ASSUME NEW u \in Stream, NEW n \in Model, FeedCompletes(u, n) \/ FeedFails(u, n) PROVE Told(t)'
  <2>1. CASE u # t
    BY <1>0, <1>1, <1>7, <2>1 DEF FeedCompletes, FeedFails
  <2>2. CASE u = t
    <3>1. \E f \in {"empty", "broken", "completed", "failed"} :
            /\ feed' = [feed EXCEPT ![t][n] = f]
            /\ f \in {"completed", "failed"} => feed[t][n] = "flowing"
      BY <1>0, <1>7, <2>2 DEF FeedCompletes, FeedFails, Live
    <3>2. phase' = phase /\ candidates' = candidates /\ delivered' = delivered
      BY <1>7 DEF FeedCompletes, FeedFails
    <3>. QED BY <1>0, <3>1, <3>2 DEF Told, Current
  <2>. QED BY <2>1, <2>2
<1>. QED BY <1>2, <1>3, <1>4, <1>5, <1>6, <1>7
     DEF Next, vars, Cool, storeUsers, BeginCall, CallSucceeds, CallFails, CallInterrupted, TimeOut

LEMMA Telling == Spec => [](IInv /\ \A s \in Stream : Told(s))
<1> DEFINE AllTold == \A s \in Stream : Told(s)
<1>1. Init => AllTold
  BY DEF Init, Told
<1>2. IInv /\ AllTold /\ [Next]_vars => AllTold'
  BY ToldStep
<1> HIDE DEF AllTold
<1>3. Spec => [](IInv /\ AllTold)
  BY <1>1, <1>2, Invariance, PTL DEF Spec
<1>. QED BY <1>3 DEF AllTold

(* The client task of a model speaks and ends while start() waits for it, or after. *)
LEMMA FeedSteps ==
  ASSUME IInv, NEW u \in Stream, Told(u), NEW n \in Model,
         FirstToken(u, n) \/ FeedCompletes(u, n) \/ FeedFails(u, n)
  PROVE  Start!Speak(u, n) \/ Start!End(u)
<1>0. /\ feed \in [Stream -> [Model -> Feed]] /\ delivered \in [Stream -> SUBSET Model]
      /\ Candidacy(u) /\ candidates' = candidates
  BY DEF IInv, TypeOK, FirstToken, FeedCompletes, FeedFails
<1>1. phase[u] \in {"waiting", "returned"} /\ n = Current(u) /\ feed[u][n] \in Live
  BY <1>0 DEF Candidacy, FirstToken, FeedCompletes, FeedFails, Live
<1>2. TriedView' = TriedView
  BY <1>0, SameTried
<1>3. CASE FirstToken(u, n)
  <2>1. phase[u] = "waiting" /\ n \in Working(u)
    BY <1>1, <1>3 DEF FirstToken, Told, Working
  <2>2. WorkingView' = WorkingView
    <3>1. \A s \in Stream : Working(s)' = Working(s)
      BY <1>0, <1>3 DEF FirstToken, Working, Live
    <3>. QED BY <3>1 DEF WorkingView
  <2>3. phase' = phase /\ delivered' = [delivered EXCEPT ![u] = @ \cup {n}]
    BY <1>3 DEF FirstToken
  <2>. QED BY <1>2, <2>1, <2>2, <2>3 DEF Start!Speak, TriedView, WorkingView
<1>4. CASE FeedCompletes(u, n) \/ FeedFails(u, n)
  <2>1. Working(u)' = {}
    <3>1. feed'[u][n] \notin Live /\ \A m \in Model : m # n => feed'[u][m] = feed[u][m]
      BY <1>0, <1>4 DEF FeedCompletes, FeedFails, Live
    <3>. QED BY <1>0, <1>1, <3>1 DEF Candidacy, Working
  <2>2. \A s \in Stream : s # u => candidates'[s] = candidates[s] /\ feed'[s] = feed[s]
    BY <1>0, <1>4 DEF FeedCompletes, FeedFails
  <2>3. WorkingView' = [WorkingView EXCEPT ![u] = {}]
    BY <2>1, <2>2, ViewStep
  <2>4. phase' = phase /\ delivered' = delivered
    BY <1>4 DEF FeedCompletes, FeedFails
  <2>. QED BY <1>1, <1>2, <2>3, <2>4 DEF Start!End, TriedView, WorkingView
<1>. QED BY <1>3, <1>4

(* What start() and its caller do. *)
LEMMA CallerSteps ==
  ASSUME IInv, NEW u \in Stream, Told(u),
         Return(u) \/ Abort(u) \/ Stop(u) \/ NextStream(u)
  PROVE  Start!Answer(u) \/ Start!Cancel(u) \/ Start!End(u) \/ Start!Again(u)
<1>0. /\ feed \in [Stream -> [Model -> Feed]] /\ delivered \in [Stream -> SUBSET Model]
      /\ candidates \in [Stream -> Seq(Model)] /\ Candidacy(u)
  BY DEF IInv, TypeOK
<1>1. candidates[u] # <<>> => Current(u) \in Model
  BY <1>0, HeadTail DEF Current
<1>2. CASE Return(u)
  <2>1. Tried(u) = {Current(u)} /\ Current(u) \in delivered[u]
    BY <1>0, <1>1, <1>2 DEF Return, Candidacy, Tried, Told
  <2>2. TriedView[u] = Tried(u)
    BY DEF TriedView
  <2>3. TriedView' = TriedView /\ WorkingView' = WorkingView
    BY <1>2, SameTried DEF Return, WorkingView, Working
  <2>4. phase[u] = "waiting" /\ phase' = [phase EXCEPT ![u] = "returned"] /\ delivered' = delivered
    BY <1>2 DEF Return
  <2>. QED BY <2>1, <2>2, <2>3, <2>4 DEF Start!Answer, TriedView, WorkingView
<1>3. CASE Abort(u) \/ Stop(u)
  <2>1. phase[u] \in {"waiting", "returned"} /\ Current(u) \in Model
    BY <1>0, <1>1, <1>3 DEF Abort, Stop, Candidacy
  <2>2. Working(u)' = {}
    <3>1. feed'[u][Current(u)] \notin Live /\ \A m \in Model : m # Current(u) => feed'[u][m] = feed[u][m]
      BY <1>0, <1>3, <2>1 DEF Abort, Stop, Live, Silenced
    <3>. QED BY <1>0, <3>1 DEF Candidacy, Working
  <2>3. \A s \in Stream : s # u => candidates'[s] = candidates[s] /\ feed'[s] = feed[s]
    BY <1>0, <1>3 DEF Abort, Stop
  <2>4. WorkingView' = [WorkingView EXCEPT ![u] = {}]
    BY <2>2, <2>3, ViewStep
  <2>5. TriedView' = TriedView /\ delivered' = delivered
    BY <1>3, SameTried DEF Abort, Stop
  <2>6. CASE Abort(u)
    BY <2>4, <2>5, <2>6 DEF Abort, Start!Cancel, TriedView, WorkingView
  <2>7. CASE Stop(u)
    BY <2>4, <2>5, <2>7 DEF Stop, Start!End, TriedView, WorkingView
  <2>. QED BY <1>3, <2>6, <2>7
<1>4. CASE NextStream(u)
  <2>1. Working(u) = {} /\ Working(u)' = {} /\ Tried(u)' = {}
    BY <1>0, <1>4 DEF NextStream, Working, Tried, Live
  <2>2. \A s \in Stream : s # u => candidates'[s] = candidates[s] /\ feed'[s] = feed[s]
    BY <1>0, <1>4 DEF NextStream
  <2>3. /\ WorkingView' = [WorkingView EXCEPT ![u] = {}] /\ WorkingView[u] = {}
        /\ TriedView' = [TriedView EXCEPT ![u] = {}]
    BY <2>1, <2>2, ViewStep DEF WorkingView
  <2>4. WorkingView' = WorkingView
    BY <2>3 DEF WorkingView
  <2>. QED BY <1>4, <2>3, <2>4 DEF NextStream, Start!Again, TriedView, WorkingView
<1>. QED BY <1>2, <1>3, <1>4

(* Every step is one of ModelStart, or is not seen in it. *)
LEMMA StepStart ==
  ASSUME IInv, \A s \in Stream : Told(s), [Next]_vars
  PROVE  [Start!StartNext]_(Start!startVars)
<1>1. CASE UNCHANGED <<phase, candidates, feed, delivered>>
  BY <1>1 DEF Start!startVars, Tried, Working, Current
<1>2. ASSUME NEW u \in Stream, BeginStream(u) PROVE Start!StartNext
  <2>1. PICK q \in Seq(Model) : Candidate(u, health, feed[u], q)
    BY <1>2, BeginStreamLoops
  <2>2. Start!GiveUp(u) \/ \E m \in Model : Start!Choose(u, m)
    BY <1>2, <2>1, BeginStreamLoops, CandidateStarts DEF IInv
  <2>. QED BY <2>2 DEF Start!StartNext
<1>3. ASSUME NEW u \in Stream, FallBack(u) PROVE Start!StartNext
  <2>1. PICK store : \E feeds \in [Model -> Feed] : \E q \in Seq(Model) :
           /\ Candidate(u, store, feeds, q)
           /\ \A m \in Model : feeds[m] \notin Live
           /\ Start!Open(u) /\ delivered' = delivered
    BY <1>3, FallBackLoops
  <2>2. Start!GiveUp(u) \/ \E m \in Model : Start!Choose(u, m)
    BY <2>1, CandidateStarts DEF IInv
  <2>. QED BY <2>2 DEF Start!StartNext
<1>4. ASSUME NEW u \in Stream, Return(u) \/ Abort(u) \/ Stop(u) \/ NextStream(u)
      PROVE  Start!StartNext
  BY <1>4, CallerSteps DEF Start!StartNext
<1>5. ASSUME NEW u \in Stream, NEW n \in Model, FirstToken(u, n) \/ FeedCompletes(u, n) \/ FeedFails(u, n)
      PROVE  Start!StartNext
  BY <1>5, FeedSteps DEF Start!StartNext
<1>. QED BY <1>1, <1>2, <1>3, <1>4, <1>5
     DEF Next, vars, Cool, storeUsers, BeginCall, CallSucceeds, CallFails, CallInterrupted, TimeOut

(* start() does what ModelStart allows, for every set of models, streams and callers,   *)
(* whatever the store has come to: one model at a time, and no other after the answer.  *)
THEOREM StartRefinement == Spec => ImplementsModelStart
<1> DEFINE AllTold == \A s \in Stream : Told(s)
<1>1. Init => Start!StartInit
  BY DEF Init, Start!StartInit, Tried, Working, Live
<1>2. IInv /\ AllTold /\ [Next]_vars => [Start!StartNext]_(Start!startVars)
  BY StepStart
<1>3. Spec => [](IInv /\ AllTold)
  BY Telling
<1> HIDE DEF AllTold
<1>. QED BY <1>1, <1>2, <1>3, PTL DEF Spec, ImplementsModelStart, Start!StartSpec


=============================================================================
