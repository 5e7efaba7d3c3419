--------------------------- MODULE AdmissionProofs ---------------------------
(***************************************************************************)
(* Admission keeps the promise of LeasedAdmission: what the two modes of   *)
(* StreamQueueLimiter have in common, whatever the number of permits.      *)
(***************************************************************************)
EXTENDS Admission, LineProofs, FiniteSetTheorems

(* Nobody stands in the line twice, and nobody waits with a permit. *)
WellFormed ==
  /\ line \in Seq(Task) /\ IsInjective(line)
  /\ permits \subseteq Task
  /\ \A t \in permits : ~ Contains(line, t)

(* The members of a line are those it contains. *)
LEMMA Members ==
  ASSUME NEW S, NEW q \in Seq(S)
  PROVE  /\ ToSet(q) \subseteq S
         /\ \A t : t \in ToSet(q) <=> Contains(q, t)
<1>1. DOMAIN q = 1 .. Len(q) /\ \A i \in 1 .. Len(q) : q[i] \in S
  BY LenProperties, ElementOfSeq
<1>. QED BY <1>1 DEF ToSet, Contains

(* A newcomer stands behind everybody, and before nobody. *)
LEMMA PrecedingJoin ==
  ASSUME NEW S, NEW q \in Seq(S), NEW t \in S, ~ Contains(q, t), NEW u
  PROVE  Preceding(Append(q, t), u) = IF u = t THEN ToSet(q) ELSE Preceding(q, u) \ {t}
<1> DEFINE r == Append(q, t)
<1>1. /\ r \in Seq(S) /\ Len(q) \in Nat /\ Len(r) = Len(q) + 1 /\ r[Len(q) + 1] = t
      /\ \A i \in 1 .. Len(q) : r[i] = q[i]
  BY AppendProperties, LenProperties
<1> HIDE DEF r
<1>2. /\ \A v : v \in ToSet(q) <=> \E i \in 1 .. Len(q) : q[i] = v
      /\ \A v : v \in ToSet(r) <=> \E i \in 1 .. Len(r) : r[i] = v
      /\ \A i \in 1 .. Len(q) : q[i] # t
  BY <1>1, Members DEF Contains
<1>3. ASSUME NEW v, v \in Preceding(r, u) PROVE v \in IF u = t THEN ToSet(q) ELSE Preceding(q, u) \ {t}
  <2>1. PICK i \in 1 .. Len(r), j \in 1 .. Len(r) : i < j /\ r[i] = v /\ r[j] = u
    BY <1>3 DEF Preceding
  <2>2. i \in 1 .. Len(q) /\ q[i] = v /\ v \in ToSet(q) /\ v # t
    BY <1>1, <1>2, <2>1
  <2>3. CASE u = t
    BY <2>2, <2>3
  <2>4. CASE u # t
    <3>1. j \in 1 .. Len(q) /\ q[j] = u
      BY <1>1, <2>1, <2>4
    <3>. QED BY <2>1, <2>2, <2>4, <3>1 DEF Preceding
  <2>. QED BY <2>3, <2>4
<1>4. ASSUME NEW v, v \in IF u = t THEN ToSet(q) ELSE Preceding(q, u) \ {t} PROVE v \in Preceding(r, u)
  <2>1. CASE u = t
    <3>1. PICK i \in 1 .. Len(q) : q[i] = v
      BY <1>2, <1>4, <2>1
    <3>2. i \in 1 .. Len(r) /\ Len(q) + 1 \in 1 .. Len(r) /\ i < Len(q) + 1 /\ r[i] = v
      BY <1>1, <3>1
    <3>. QED BY <1>1, <1>2, <2>1, <3>2 DEF Preceding
  <2>2. CASE u # t
    <3>1. PICK i \in 1 .. Len(q), j \in 1 .. Len(q) : i < j /\ q[i] = v /\ q[j] = u
      BY <1>4, <2>2 DEF Preceding
    <3>2. i \in 1 .. Len(r) /\ j \in 1 .. Len(r) /\ r[i] = v /\ r[j] = u
      BY <1>1, <3>1
    <3>. QED BY <1>2, <3>1, <3>2 DEF Preceding
  <2>. QED BY <2>1, <2>2
<1>. QED BY <1>3, <1>4 DEF r

(* Taking out the k-th of the line changes the order of nobody else. *)
LEMMA PrecedingTaken ==
  ASSUME NEW S, NEW q \in Seq(S), IsInjective(q), NEW k \in 1 .. Len(q),
         NEW r \in Seq(S), Len(r) = Len(q) - 1,
         \A i \in 1 .. Len(q) - 1 : r[i] = IF i < k THEN q[i] ELSE q[i + 1]
  PROVE  /\ ToSet(r) = ToSet(q) \ {q[k]}
         /\ \A u : Preceding(r, u) = IF u = q[k] THEN {} ELSE Preceding(q, u) \ {q[k]}
<1> DEFINE f(i) == IF i < k THEN i ELSE i + 1
           g(i) == IF i < k THEN i ELSE i - 1
<1>0. Len(q) \in Nat /\ DOMAIN q = 1 .. Len(q)
  BY LenProperties
<1>1. \A i \in 1 .. Len(r) : f(i) \in 1 .. Len(q) /\ f(i) # k /\ r[i] = q[f(i)]
  BY <1>0
<1>2. \A i \in 1 .. Len(q) : i # k => g(i) \in 1 .. Len(r) /\ r[g(i)] = q[i]
  <2> SUFFICES ASSUME NEW i \in 1 .. Len(q), i # k
               PROVE  g(i) \in 1 .. Len(r) /\ r[g(i)] = q[i]
    OBVIOUS
  <2>1. CASE i < k
    BY <1>0, <2>1
  <2>2. CASE ~ (i < k)
    <3>1. i - 1 \in 1 .. Len(q) - 1 /\ ~ (i - 1 < k) /\ (i - 1) + 1 = i
      BY <1>0, <2>2
    <3>. QED BY <2>2, <3>1
  <2>. QED BY <2>1, <2>2
<1>3. /\ \A i, j \in 1 .. Len(r) : i < j => f(i) < f(j)
      /\ \A i, j \in 1 .. Len(q) : i < j /\ i # k /\ j # k => g(i) < g(j)
  BY <1>0
<1>4. \A i, j \in 1 .. Len(q) : q[i] = q[j] => i = j
  BY <1>0 DEF IsInjective
<1>5. /\ \A v : v \in ToSet(q) <=> \E i \in 1 .. Len(q) : q[i] = v
      /\ \A v : v \in ToSet(r) <=> \E i \in 1 .. Len(r) : r[i] = v
  BY Members DEF Contains
<1> HIDE DEF f, g
<1>6. ToSet(r) = ToSet(q) \ {q[k]}
  <2>1. ASSUME NEW v \in ToSet(r) PROVE v \in ToSet(q) /\ v # q[k]
    <3>1. PICK i \in 1 .. Len(r) : r[i] = v
      BY <1>5
    <3>. QED BY <1>1, <1>4, <1>5, <3>1
  <2>2. ASSUME NEW v \in ToSet(q), v # q[k] PROVE v \in ToSet(r)
    <3>1. PICK i \in 1 .. Len(q) : q[i] = v /\ i # k
      BY <1>5, <2>2
    <3>. QED BY <1>2, <1>5, <3>1
  <2>. QED BY <2>1, <2>2
<1>7. ASSUME NEW u, NEW v, v \in Preceding(r, u) PROVE u # q[k] /\ v \in Preceding(q, u) /\ v # q[k]
  <2>1. PICK i \in 1 .. Len(r), j \in 1 .. Len(r) : i < j /\ r[i] = v /\ r[j] = u
    BY <1>7 DEF Preceding
  <2>2. /\ f(i) \in 1 .. Len(q) /\ f(j) \in 1 .. Len(q) /\ f(i) < f(j)
        /\ q[f(i)] = v /\ q[f(j)] = u
        /\ f(i) # k /\ f(j) # k
    BY <1>1, <1>3, <2>1
  <2>. QED BY <1>4, <1>5, <2>2 DEF Preceding
<1>8. ASSUME NEW u, u # q[k], NEW v, v \in Preceding(q, u), v # q[k] PROVE v \in Preceding(r, u)
  <2>1. PICK i \in 1 .. Len(q), j \in 1 .. Len(q) : i < j /\ q[i] = v /\ q[j] = u
    BY <1>8 DEF Preceding
  <2>2. i # k /\ j # k
    BY <1>8, <2>1
  <2>3. /\ g(i) \in 1 .. Len(r) /\ g(j) \in 1 .. Len(r) /\ g(i) < g(j)
        /\ r[g(i)] = v /\ r[g(j)] = u
    BY <1>2, <1>3, <2>1, <2>2
  <2>. QED BY <1>5, <2>3 DEF Preceding
<1>. QED BY <1>6, <1>7, <1>8

(* So does taking t out, wherever it stands. *)
LEMMA PrecedingWithout ==
  ASSUME NEW S, NEW q \in Seq(S), IsInjective(q), NEW t, Contains(q, t)
  PROVE  /\ ToSet(Without(q, t)) = ToSet(q) \ {t}
         /\ \A u : Preceding(Without(q, t), u) = IF u = t THEN {} ELSE Preceding(q, u) \ {t}
<1>1. PICK k \in 1 .. Len(q) : q[k] = t /\ Without(q, t) = RemoveAt(q, k)
  BY RemovedPosition
<1> DEFINE r == RemoveAt(q, k)
<1>2. /\ r \in Seq(S) /\ Len(r) = Len(q) - 1
      /\ \A i \in 1 .. Len(q) - 1 : r[i] = IF i < k THEN q[i] ELSE q[i + 1]
  BY RemoveAtElements
<1> HIDE DEF r
<1>3. /\ ToSet(r) = ToSet(q) \ {q[k]}
      /\ \A u : Preceding(r, u) = IF u = q[k] THEN {} ELSE Preceding(q, u) \ {q[k]}
  BY <1>2, PrecedingTaken
<1>. QED BY <1>1, <1>3 DEF r

(* And so does popping the first, who stood behind nobody. *)
LEMMA PrecedingPop ==
  ASSUME NEW S, NEW q \in Seq(S), IsInjective(q), q # <<>>
  PROVE  /\ ToSet(Tail(q)) = ToSet(q) \ {Head(q)}
         /\ Preceding(q, Head(q)) = {}
         /\ \A u : Preceding(Tail(q), u) = IF u = Head(q) THEN {} ELSE Preceding(q, u) \ {Head(q)}
<1>1. /\ Tail(q) \in Seq(S) /\ Len(q) \in Nat /\ 1 \in 1 .. Len(q) /\ DOMAIN q = 1 .. Len(q)
      /\ Len(Tail(q)) = Len(q) - 1 /\ Head(q) = q[1]
      /\ \A i \in 1 .. Len(q) - 1 : Tail(q)[i] = q[i + 1]
  OBVIOUS
<1> DEFINE r == Tail(q)
<1>2. /\ r \in Seq(S) /\ Len(r) = Len(q) - 1
      /\ \A i \in 1 .. Len(q) - 1 : r[i] = IF i < 1 THEN q[i] ELSE q[i + 1]
  <2>1. \A i \in 1 .. Len(q) - 1 : ~ (i < 1)
    BY <1>1
  <2>. QED BY <1>1, <2>1
<1> HIDE DEF r
<1>3. \A i, j \in 1 .. Len(q) : i < j => q[j] # q[1]
  BY <1>1 DEF IsInjective
<1>4. Preceding(q, Head(q)) = {}
  BY <1>1, <1>3 DEF Preceding
<1>5. /\ ToSet(r) = ToSet(q) \ {q[1]}
      /\ \A u : Preceding(r, u) = IF u = q[1] THEN {} ELSE Preceding(q, u) \ {q[1]}
  BY <1>1, <1>2, PrecedingTaken
<1>. QED BY <1>1, <1>4, <1>5 DEF r

-----------------------------------------------------------------------------

(* The line starts empty. *)
LEMMA InitWellFormed == AdmissionInit => WellFormed
BY DEF AdmissionInit, WellFormed, Contains, IsInjective

(* Nobody gets a second place or waits with a permit. *)
LEMMA NextWellFormed == WellFormed /\ [AdmissionNext]_admissionVars => WellFormed'
<1> SUFFICES ASSUME WellFormed, [AdmissionNext]_admissionVars PROVE WellFormed'
  OBVIOUS
<1> USE DEF WellFormed
<1>1. ASSUME NEW t \in Task, Join(t) PROVE WellFormed'
  BY <1>1, JoinProperties DEF Join
<1>2. ASSUME NEW t \in Task, Grant(t) PROVE WellFormed'
  BY <1>2, PopProperties DEF Grant
<1>3. ASSUME NEW t \in Task, Quit(t) PROVE WellFormed'
  BY <1>3, WithoutProperties DEF Quit
<1>4. ASSUME NEW t \in Task, GiveBack(t) PROVE WellFormed'
  BY <1>4 DEF GiveBack
<1>5. CASE ShutDown \/ UNCHANGED admissionVars
  BY <1>5 DEF ShutDown, admissionVars
<1>. QED BY <1>1, <1>2, <1>3, <1>4, <1>5 DEF AdmissionNext

(* The instance has its own copies of these. *)
LEMMA LeasedCardinality == \A S : Leased!Cardinality(S) = Cardinality(S)
BY DEF Cardinality, Leased!Cardinality

(* An empty line has an empty order. *)
LEMMA InitLeased == AdmissionInit => Leased!LeasedInit
BY DEF AdmissionInit, Leased!LeasedInit, ToSet, Preceding

(* Every step of Admission is a step of LeasedAdmission or leaves it alone. *)
LEMMA StepLeased ==
  ASSUME MaxConcurrent \in Nat \ {0}, WellFormed, [AdmissionNext]_admissionVars
  PROVE  [Leased!LeasedNext]_(Leased!leasedVars)
<1> DEFINE Refines == Leased!LeasedNext \/ UNCHANGED Leased!leasedVars
<1> USE DEF WellFormed
<1>0. ToSet(line) \subseteq Task /\ \A t : t \in ToSet(line) <=> Contains(line, t)
  BY Members
<1>1. ASSUME NEW t \in Task, Join(t) PROVE Refines
  <2>1. ~ Contains(line, t) /\ t \notin permits /\ line' = Append(line, t) /\ permits' = permits
    BY <1>1 DEF Join
  <2>2. \A u : Preceding(line', u) = IF u = t THEN ToSet(line) ELSE Preceding(line, u) \ {t}
    BY <2>1, PrecedingJoin
  <2>3. ToSet(line') = ToSet(line) \cup {t}
    <3>1. Append(line, t) \in Seq(Task)
      BY AppendProperties
    <3>2. \A u : Contains(Append(line, t), u) <=> Contains(line, u) \/ u = t
      BY <2>1, JoinProperties
    <3>3. \A u : u \in ToSet(Append(line, t)) <=> Contains(Append(line, t), u)
      BY <3>1, Members
    <3>. QED BY <1>0, <2>1, <3>2, <3>3
  <2>4. t \notin ToSet(line)
    BY <1>0, <2>1
  <2>5. [u \in Task |-> Preceding(line', u)] =
          [u \in Task |-> IF u = t THEN ToSet(line) \ {t}
                          ELSE [v \in Task |-> Preceding(line, v)][u] \ {t}]
    BY <2>2, <2>4
  <2>6. Leased!Join(t)
    BY <2>1, <2>3, <2>4, <2>5 DEF Leased!Join
  <2>. QED BY <2>6 DEF Leased!LeasedNext
<1>2. ASSUME NEW t \in Task, NEW X, X = {t},
             ToSet(line') = ToSet(line) \ {t},
             \A u : Preceding(line', u) = IF u = t THEN {} ELSE Preceding(line, u) \ {t}
      PROVE  Leased!Vacate(X)
  <2>1. [u \in Task |-> Preceding(line', u)] =
          [u \in Task |-> IF u \in X THEN {} ELSE [v \in Task |-> Preceding(line, v)][u] \ X]
    BY <1>2
  <2>. QED BY <1>2, <2>1 DEF Leased!Vacate
<1>3. ASSUME NEW t \in Task, Grant(t) PROVE Refines
  <2>1. /\ line # <<>> /\ Head(line) = t /\ line' = Tail(line)
        /\ Cardinality(permits) < MaxConcurrent /\ permits' = permits \cup {t}
    BY <1>3 DEF Grant
  <2>2. /\ ToSet(line') = ToSet(line) \ {t}
        /\ Preceding(line, t) = {}
        /\ \A u : Preceding(line', u) = IF u = t THEN {} ELSE Preceding(line, u) \ {t}
    BY <2>1, PrecedingPop
  <2>3. Contains(line, t) /\ t \in ToSet(line) /\ t \notin permits
    BY <1>0, <2>1, PopProperties
  <2>4. Leased!Vacate({} \cup {t})
    BY <1>2, <2>2
  <2>5. Cardinality([u \in Task |-> Preceding(line, u)][t] \cap ToSet(line)) < MaxConcurrent
    <3> DEFINE before == [u \in Task |-> Preceding(line, u)][t] \cap ToSet(line)
    <3>1. before = {}
      BY <2>2
    <3> HIDE DEF before
    <3>2. Cardinality(before) = 0
      BY <3>1, FS_EmptySet
    <3>3. Cardinality(before) < MaxConcurrent
      BY <3>2
    <3>. QED BY <3>3 DEF before
  <2>6. Leased!Grant(t)
    BY <2>1, <2>2, <2>3, <2>4, <2>5, LeasedCardinality DEF Leased!Grant
  <2>. QED BY <2>6 DEF Leased!LeasedNext
<1>4. ASSUME NEW t \in Task, Quit(t) PROVE Refines
  <2>1. Contains(line, t) /\ line' = Without(line, t) /\ permits' = permits
    BY <1>4 DEF Quit
  <2>2. /\ ToSet(line') = ToSet(line) \ {t}
        /\ \A u : Preceding(line', u) = IF u = t THEN {} ELSE Preceding(line, u) \ {t}
    BY <2>1, PrecedingWithout
  <2>3. Leased!Leave({t})
    BY <1>2, <2>1, <2>2 DEF Leased!Leave
  <2>. QED BY <2>3 DEF Leased!LeasedNext
<1>5. ASSUME NEW t \in Task, GiveBack(t) PROVE Refines
  BY <1>5 DEF GiveBack, Leased!LeasedNext, Leased!GiveBack
<1>6. CASE ShutDown \/ UNCHANGED admissionVars
  BY <1>6 DEF ShutDown, admissionVars, Leased!leasedVars
<1>. QED BY <1>1, <1>3, <1>4, <1>5, <1>6 DEF AdmissionNext

(* What the in-process mode promises is more than what the Redis mode      *)
(* promises: a caller that relies on LeasedAdmission may run on either.    *)
THEOREM LeasedRefinement ==
  MaxConcurrent \in Nat \ {0} => (AdmissionSpec => ImplementsLeasedAdmission)
<1>1. SUFFICES ASSUME MaxConcurrent \in Nat \ {0}
               PROVE  AdmissionSpec => ImplementsLeasedAdmission
  OBVIOUS
<1>2. WellFormed /\ [AdmissionNext]_admissionVars => [Leased!LeasedNext]_(Leased!leasedVars)
  BY <1>1, StepLeased
<1>. QED BY <1>2, InitWellFormed, NextWellFormed, InitLeased, PTL
         DEF AdmissionSpec, ImplementsLeasedAdmission, Leased!LeasedSpec

=============================================================================
