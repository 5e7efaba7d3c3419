------------------------------ MODULE LineProofs ------------------------------
(***************************************************************************)
(* What removing, appending and popping do to the members of a line.       *)
(***************************************************************************)
EXTENDS Line, SequenceTheorems, WellFoundedInduction, TLAPS

(* Removing t takes out one position at which t stands. *)
LEMMA RemovedPosition ==
  ASSUME NEW S, NEW q \in Seq(S), NEW t, Contains(q, t)
  PROVE  \E k \in 1 .. Len(q) : q[k] = t /\ Without(q, t) = RemoveAt(q, k)
<1> DEFINE I == {i \in 1 .. Len(q) : q[i] = t}
           Less == OpToRel(<, Nat)
<1>1. I # {} /\ I \subseteq Nat
  BY LenProperties DEF Contains
<1>2. PICK k \in I : \A i \in I : <<i, k>> \notin Less
  BY <1>1, NatLessThanWellFounded, WFMin
<1>3. \A i \in I : k <= i
  <2>1. ASSUME NEW i \in Nat, NEW j \in Nat, i < j PROVE <<i, j>> \in Less
    <3>1. <<i, j>> \in Nat \X Nat /\ <<i, j>>[1] = i /\ <<i, j>>[2] = j
      OBVIOUS
    <3>. QED BY <2>1, <3>1, Zenon DEF OpToRel
  <2> HIDE DEF Less, I
  <2> SUFFICES ASSUME NEW i \in I PROVE k <= i
    OBVIOUS
  <2>2. i \in Nat /\ k \in Nat /\ <<i, k>> \notin Less
    BY <1>1, <1>2
  <2>3. ~ (i < k)
    BY <2>1, <2>2
  <2>. QED BY <2>2, <2>3
<1>4. Min(I) \in I
  BY <1>2, <1>3 DEF Min
<1>5. Without(q, t) = RemoveAt(q, Min(I))
  BY <1>1, <1>2 DEF Without, RemoveFirst, SelectInSeq
<1>. QED BY <1>4, <1>5

(* RemoveAt, element by element. *)
LEMMA RemoveAtElements ==
  ASSUME NEW S, NEW q \in Seq(S), NEW k \in 1 .. Len(q)
  PROVE  /\ RemoveAt(q, k) \in Seq(S)
         /\ Len(RemoveAt(q, k)) = Len(q) - 1
         /\ \A i \in 1 .. Len(q) - 1 :
              RemoveAt(q, k)[i] = IF i < k THEN q[i] ELSE q[i + 1]
<1> DEFINE a == SubSeq(q, 1, k - 1)
           b == SubSeq(q, k + 1, Len(q))
<1>0. Len(q) \in Nat /\ \A i \in 1 .. Len(q) : q[i] \in S
  BY ElementOfSeq, LenProperties
<1>1. a \in Seq(S) /\ Len(a) = k - 1 /\ \A i \in 1 .. k - 1 : a[i] = q[i]
  <2>1. \A i \in 1 .. k - 1 : q[i] \in S
    BY <1>0
  <2>. QED BY <1>0, <2>1, SubSeqProperties
<1>2. b \in Seq(S) /\ Len(b) = Len(q) - k /\ \A i \in 1 .. Len(q) - k : b[i] = q[k + i]
  <2>1. \A i \in k + 1 .. Len(q) : q[i] \in S
    BY <1>0
  <2>. QED BY <1>0, <2>1, SubSeqProperties
<1>3. RemoveAt(q, k) = a \o b
  BY DEF RemoveAt
<1> HIDE DEF a, b
<1>4. /\ a \o b \in Seq(S) /\ Len(a \o b) = Len(a) + Len(b)
      /\ \A i \in 1 .. Len(a) + Len(b) :
           (a \o b)[i] = IF i <= Len(a) THEN a[i] ELSE b[i - Len(a)]
  BY <1>1, <1>2, ConcatProperties
<1>5. ASSUME NEW i \in 1 .. Len(q) - 1
      PROVE  (a \o b)[i] = IF i < k THEN q[i] ELSE q[i + 1]
  <2>1. CASE i < k
    BY <2>1, <1>0, <1>1, <1>2, <1>4
  <2>2. CASE ~ (i < k)
    <3>1. i - (k - 1) \in 1 .. Len(q) - k
      BY <2>2, <1>0
    <3>2. (a \o b)[i] = b[i - (k - 1)]
      BY <2>2, <1>0, <1>1, <1>2, <1>4
    <3>3. b[i - (k - 1)] = q[i + 1]
      <4>1. b[i - (k - 1)] = q[k + (i - (k - 1))]
        BY <3>1, <1>2
      <4>2. k + (i - (k - 1)) = i + 1
        BY <1>0
      <4>. QED BY <4>1, <4>2
    <3>. QED BY <3>2, <3>3, <2>2
  <2>. QED BY <2>1, <2>2
<1>6. Len(a \o b) = Len(q) - 1
  BY <1>0, <1>1, <1>2, <1>4
<1>. QED BY <1>3, <1>4, <1>5, <1>6

(* Removing t from a line without duplicates takes out t and nothing else. *)
LEMMA WithoutProperties ==
  ASSUME NEW S, NEW q \in Seq(S), NEW t, IsInjective(q)
  PROVE  /\ Without(q, t) \in Seq(S)
         /\ IsInjective(Without(q, t))
         /\ \A u : Contains(Without(q, t), u) <=> Contains(q, u) /\ u # t
<1>1. CASE ~ Contains(q, t)
  BY <1>1 DEF Without, RemoveFirst, Contains
<1>2. CASE Contains(q, t)
  <2>1. PICK k \in 1 .. Len(q) : q[k] = t /\ Without(q, t) = RemoveAt(q, k)
    BY <1>2, RemovedPosition
  <2> DEFINE r == RemoveAt(q, k)
  <2>2. /\ r \in Seq(S) /\ Len(r) = Len(q) - 1
        /\ \A i \in 1 .. Len(q) - 1 : r[i] = IF i < k THEN q[i] ELSE q[i + 1]
    BY <2>1, RemoveAtElements
  <2>3. Without(q, t) = r
    BY <2>1
  <2> HIDE DEF r
  <2>4. IsInjective(r)
    <3> SUFFICES ASSUME NEW i \in 1 .. Len(r), NEW j \in 1 .. Len(r), r[i] = r[j]
                 PROVE  i = j
      BY DEF IsInjective
    <3> DEFINE f(n) == IF n < k THEN n ELSE n + 1
    <3>0. r[i] = q[f(i)] /\ r[j] = q[f(j)]
      BY <2>2
    <3>1. Len(q) \in Nat /\ i \in 1 .. Len(q) - 1 /\ j \in 1 .. Len(q) - 1
      BY <2>2, LenProperties
    <3>2. f(i) \in 1 .. Len(q) /\ f(j) \in 1 .. Len(q)
      BY <3>1
    <3>3. f(i) = f(j)
      <4> HIDE DEF f
      <4>1. q[f(i)] = q[f(j)]
        BY <3>0
      <4>2. DOMAIN q = 1 .. Len(q)
        BY LenProperties
      <4>. QED BY <3>2, <4>1, <4>2 DEF IsInjective
    <3>. QED BY <3>1, <3>3
  <2>5. ASSUME NEW u, Contains(r, u)
        PROVE  Contains(q, u) /\ u # t
    <3>1. PICK i \in 1 .. Len(r) : r[i] = u
      BY <2>5 DEF Contains
    <3> DEFINE j == IF i < k THEN i ELSE i + 1
    <3>2. j \in 1 .. Len(q) /\ q[j] = u /\ j # k
      BY <3>1, <2>1, <2>2
    <3>. QED BY <3>2, <2>1 DEF Contains, IsInjective
  <2>6. ASSUME NEW u, Contains(q, u), u # t
        PROVE  Contains(r, u)
    <3>1. PICK j \in 1 .. Len(q) : q[j] = u
      BY <2>6 DEF Contains
    <3>2. j # k
      BY <3>1, <2>1, <2>6
    <3> DEFINE i == IF j < k THEN j ELSE j - 1
    <3>3. i \in 1 .. Len(r) /\ r[i] = u
      BY <3>1, <3>2, <2>1, <2>2
    <3>. QED BY <3>3 DEF Contains
  <2>. QED BY <2>2, <2>3, <2>4, <2>5, <2>6
<1>. QED BY <1>1, <1>2

(* A newcomer stands at the end, once. *)
LEMMA JoinProperties ==
  ASSUME NEW S, NEW q \in Seq(S), NEW t \in S, IsInjective(q), ~ Contains(q, t)
  PROVE  /\ Append(q, t) \in Seq(S)
         /\ IsInjective(Append(q, t))
         /\ \A u : Contains(Append(q, t), u) <=> Contains(q, u) \/ u = t
<1>1. /\ Append(q, t) \in Seq(S)
      /\ Len(q) \in Nat
      /\ Len(Append(q, t)) = Len(q) + 1
      /\ Append(q, t)[Len(q) + 1] = t
      /\ \A i \in 1 .. Len(q) : Append(q, t)[i] = q[i]
  BY AppendProperties, LenProperties
<1>2. IsInjective(Append(q, t))
  BY <1>1 DEF IsInjective, Contains
<1>3. ASSUME NEW u PROVE Contains(Append(q, t), u) <=> Contains(q, u) \/ u = t
  BY <1>1 DEF Contains
<1>. QED BY <1>1, <1>2, <1>3

(* Popping the first takes out the first and nobody else. *)
LEMMA PopProperties ==
  ASSUME NEW S, NEW q \in Seq(S), q # <<>>, IsInjective(q)
  PROVE  /\ Tail(q) \in Seq(S)
         /\ IsInjective(Tail(q))
         /\ Contains(q, Head(q))
         /\ \A u : Contains(Tail(q), u) <=> Contains(q, u) /\ u # Head(q)
<1>1. /\ Tail(q) \in Seq(S) /\ Len(q) >= 1 /\ Len(q) \in Nat
      /\ Len(Tail(q)) = Len(q) - 1
      /\ \A i \in 1 .. Len(q) - 1 : Tail(q)[i] = q[i + 1]
      /\ Head(q) = q[1]
  OBVIOUS
<1>2. IsInjective(Tail(q))
  <2> SUFFICES ASSUME NEW i \in 1 .. Len(Tail(q)), NEW j \in 1 .. Len(Tail(q)),
                      Tail(q)[i] = Tail(q)[j]
               PROVE  i = j
    BY DEF IsInjective
  <2>1. i + 1 \in 1 .. Len(q) /\ j + 1 \in 1 .. Len(q) /\ q[i + 1] = q[j + 1]
    BY <1>1
  <2>. QED BY <2>1, <1>1 DEF IsInjective
<1>3. ASSUME NEW u, Contains(Tail(q), u)
      PROVE  Contains(q, u) /\ u # Head(q)
  <2>1. PICK i \in 1 .. Len(Tail(q)) : Tail(q)[i] = u
    BY <1>3 DEF Contains
  <2>2. i + 1 \in 1 .. Len(q) /\ q[i + 1] = u /\ i + 1 # 1
    BY <2>1, <1>1
  <2>. QED BY <2>2, <1>1 DEF Contains, IsInjective
<1>4. ASSUME NEW u, Contains(q, u), u # Head(q)
      PROVE  Contains(Tail(q), u)
  <2>1. PICK i \in 1 .. Len(q) : q[i] = u
    BY <1>4 DEF Contains
  <2>2. i # 1
    BY <2>1, <1>1, <1>4
  <2>3. i - 1 \in 1 .. Len(Tail(q)) /\ Tail(q)[i - 1] = u
    BY <2>1, <2>2, <1>1
  <2>. QED BY <2>3 DEF Contains
<1>5. Contains(q, Head(q))
  BY <1>1 DEF Contains
<1>. QED BY <1>1, <1>2, <1>3, <1>4, <1>5

(* A request that joins and is turned away at once leaves no trace. *)
LEMMA WithoutNewcomer ==
  ASSUME NEW S, NEW q \in Seq(S), NEW t \in S, ~ Contains(q, t)
  PROVE  Without(Append(q, t), t) = q
<1> DEFINE r == Append(q, t)
<1>1. /\ r \in Seq(S) /\ Len(q) \in Nat /\ Len(r) = Len(q) + 1 /\ r[Len(q) + 1] = t
      /\ \A i \in 1 .. Len(q) : r[i] = q[i]
  BY AppendProperties, LenProperties
<1>2. Contains(r, t)
  BY <1>1 DEF Contains
<1> HIDE DEF r
<1>3. PICK k \in 1 .. Len(r) : r[k] = t /\ Without(r, t) = RemoveAt(r, k)
  BY <1>1, <1>2, RemovedPosition
<1>4. k = Len(q) + 1
  BY <1>1, <1>3 DEF Contains
<1>5. /\ RemoveAt(r, k) \in Seq(S) /\ Len(RemoveAt(r, k)) = Len(q)
      /\ \A i \in 1 .. Len(q) : RemoveAt(r, k)[i] = q[i]
  <2>1. k \in 1 .. Len(r) /\ Len(r) - 1 = Len(q)
    BY <1>1, <1>4
  <2>2. /\ RemoveAt(r, k) \in Seq(S) /\ Len(RemoveAt(r, k)) = Len(r) - 1
        /\ \A i \in 1 .. Len(r) - 1 :
             RemoveAt(r, k)[i] = IF i < k THEN r[i] ELSE r[i + 1]
    BY <1>1, <2>1, RemoveAtElements
  <2>. QED BY <1>1, <1>4, <2>1, <2>2
<1>6. RemoveAt(r, k) = q
  BY <1>5, SeqEqual
<1>. QED BY <1>3, <1>6 DEF r

=============================================================================
