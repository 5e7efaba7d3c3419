----------------------- MODULE ConversationMemoryProofs -----------------------
(***************************************************************************)
(* The safety properties of ConversationMemory for every set of turns,     *)
(* every batch size and every set of troubles.                             *)
(*                                                                         *)
(* Three arguments are independent of each other: a summary, wherever it   *)
(* is kept, accounts for everything up to its last message (NoUserTurnLost *)
(* does not need the lock); it covers visible messages only; and the       *)
(* holder of the lock works on the summary that is stored.  Together they  *)
(* give what load shows and the refinement of CondensedMemory.             *)
(***************************************************************************)
EXTENDS ConversationMemory, Integers, FiniteSetTheorems, WellFoundedInduction, TLAPS

(* What the message s was made of: all the user's messages up to the last one. *)
Accounted(s) ==
  s.live => /\ s.last \in visible
            /\ \A u \in users \cap visible : u <= s.last => u \in s.covers

(* An insert under way has its time and its conversation. *)
Begun == \A t \in Turn : at[t] \in Inserting => stamp[t] \in 1 .. clock /\ conversation # "none"

(* A turn that does not load or compress has read nothing, one that does not compress drafted nothing. *)
LocalsOK ==
  \A t \in Turn :
    /\ at[t] \notin Compressing \cup {"loading"} => base[t] = NoSummary
    /\ at[t] \notin Compressing => draft[t] = NoSummary

(* A message that is about to be inserted will be the last one. *)
InsertsInOrder ==
  "late" \notin prone =>
    \A t \in Turn : at[t] \in Inserting =>
      /\ \A m \in visible : m < stamp[t]
      /\ \A u \in Turn : at[u] \in Inserting => u = t

(* Whatever summary there is, in the database or in a turn, accounts for its part. *)
AllAccounted ==
  prone \cap {"late", "deletion"} = {} =>
    /\ Accounted(summary)
    /\ \A t \in Turn : Accounted(base[t]) /\ Accounted(draft[t])

(* No summary covers what is not there. *)
AllVisible ==
  "deletion" \notin prone =>
    /\ summary.covers \subseteq visible
    /\ \A t \in Turn : base[t].covers \subseteq visible /\ draft[t].covers \subseteq visible

(* Only the holder of the lock compresses, and it has read the summary that is stored. *)
HolderAlone ==
  prone \cap {"lapse", "redis"} = {} =>
    \A t \in Turn :
      /\ at[t] \in Compressing => lock = {t}
      /\ at[t] \in {"listing", "summarizing", "writing"} /\ summary.live => base[t] = summary
      /\ at[t] \in {"summarizing", "writing"} /\ base[t].live =>
           draft[t].last > base[t].last /\ base[t].covers \subseteq draft[t].covers

IInv == TypeOK /\ Begun /\ LocalsOK /\ InsertsInOrder /\ AllAccounted /\ AllVisible /\ HolderAlone

-----------------------------------------------------------------------------
(* The last of a set of messages.                                          *)

(* There is a last message in every set of messages that is not empty. *)
LEMMA LastOfIsLast ==
  ASSUME NEW c \in Nat, NEW M, M \subseteq 1 .. c, M # {}
  PROVE  LastOf(M) \in M /\ \A n \in M : n <= LastOf(M)
<1> DEFINE G == {c - m : m \in M}
<1> DEFINE R == OpToRel(<, Nat)
<1>1. \A m \in M : m \in Nat /\ m <= c /\ c - m \in Nat
  <2> SUFFICES ASSUME NEW m \in 1 .. c PROVE m \in Nat /\ m <= c /\ c - m \in Nat
    OBVIOUS
  <2>. QED OBVIOUS
<1>2. G \subseteq Nat /\ G # {}
  <2> HIDE DEF R
  <2>. QED BY <1>1
<1>3. IsWellFoundedOn(R, Nat)
  BY NatLessThanWellFounded
<1>4. PICK x \in G : \A y \in G : ~ (<<y, x>> \in R)
  <2> HIDE DEF G, R
  <2>. QED BY <1>2, <1>3, WFMin
<1>5. \A y \in G : ~ (y < x)
  BY <1>2, <1>4 DEF OpToRel
<1>6. PICK m \in M : x = c - m
  OBVIOUS
<1>7. \A n \in M : n <= m
  <2> SUFFICES ASSUME NEW n \in M PROVE n <= m
    OBVIOUS
  <2>1. ~ (c - n < c - m)
    BY <1>5, <1>6
  <2> HIDE DEF R, G
  <2>. QED BY <1>1, <2>1
<1>. QED BY <1>7 DEF LastOf

(* What ListPending drafts from the summary it has read. *)
DraftOf(s) ==
  [live |-> TRUE, last |-> LastOf(Pending(s)), covers |-> s.covers \cup (Pending(s) \cap users)]

(* The draft is a summary, later than the one read and containing it. *)
LEMMA DraftAdvances ==
  ASSUME TypeOK, NEW s \in Summary, Cardinality(Pending(s) \cap users) >= Batch
  PROVE  /\ DraftOf(s) \in Summary
         /\ DraftOf(s).last \in visible
         /\ s.live => DraftOf(s).last > s.last
         /\ \A m \in Pending(s) : m <= DraftOf(s).last
<1>1. Pending(s) # {}
  <2>1. SUFFICES ASSUME Pending(s) = {} PROVE FALSE
    OBVIOUS
  <2>2. Pending(s) \cap users = {}
    BY <2>1
  <2>3. Cardinality(Pending(s) \cap users) = 0
    BY <2>2, FS_EmptySet
  <2>. QED BY <2>3, BatchAssumption
<1>2. Pending(s) \subseteq After(s) /\ After(s) \subseteq visible
  BY DEF Pending, Normalized, After
<1>3. visible \subseteq 1 .. clock /\ clock \in Nat /\ users \subseteq 1 .. clock
  BY DEF TypeOK
<1>4. LastOf(Pending(s)) \in Pending(s) /\ \A m \in Pending(s) : m <= LastOf(Pending(s))
  BY <1>1, <1>2, <1>3, LastOfIsLast
<1>5. s.live => LastOf(Pending(s)) > s.last
  BY <1>2, <1>4 DEF After
<1>6. LastOf(Pending(s)) \in Nat /\ s.covers \cup (Pending(s) \cap users) \in SUBSET Nat
  <2>1. Pending(s) \subseteq Nat
    <3>1. \A m \in 1 .. clock : m \in Nat
      BY <1>3
    <3>. QED BY <1>2, <1>3, <3>1
  <2>2. s.covers \in SUBSET Nat
    BY DEF Summary
  <2>. QED BY <1>4, <2>1, <2>2
<1>. QED BY <1>2, <1>4, <1>5, <1>6 DEF DraftOf, Summary

(* If the summary read accounts for its part, so does the draft. *)
LEMMA DraftAccounted ==
  ASSUME TypeOK, NEW s \in Summary, Accounted(s), Cardinality(Pending(s) \cap users) >= Batch
  PROVE  Accounted(DraftOf(s))
<1>1. SUFFICES ASSUME NEW u \in users \cap visible, u <= DraftOf(s).last
               PROVE  u \in DraftOf(s).covers
  BY DraftAdvances DEF Accounted
<1>2. u \in Nat /\ s.last \in Nat
  BY DEF TypeOK, Summary
<1>3. CASE u \in After(s)
  BY <1>2, <1>3 DEF Pending, Normalized, DraftOf
<1>4. CASE u \notin After(s)
  <2>1. s.live /\ s.last \in visible /\ u <= s.last
    BY <1>2, <1>4 DEF After, Accounted
  <2>. QED BY <2>1 DEF Accounted, DraftOf
<1>. QED BY <1>3, <1>4

-----------------------------------------------------------------------------
(* Types.                                                                  *)

(* No summary is one, for typing. *)
LEMMA EmptySummary == NoSummary \in Summary
BY DEF NoSummary, Summary

(* The invariant holds at first. *)
LEMMA InitInv == Init => IInv
<1> SUFFICES ASSUME Init PROVE IInv
  OBVIOUS
<1> USE EmptySummary DEF Init
<1>1. TypeOK
  BY TroubleAssumption DEF TypeOK
<1>2. Begun /\ LocalsOK /\ InsertsInOrder
  BY DEF Begun, LocalsOK, InsertsInOrder, Inserting, Compressing
<1>3. AllAccounted /\ AllVisible /\ HolderAlone
  BY DEF AllAccounted, AllVisible, HolderAlone, Accounted, NoSummary, Compressing
<1>. QED BY <1>1, <1>2, <1>3 DEF IInv

(* A turn has drafted a summary, whatever it has read. *)
LEMMA ListPendingDrafts ==
  ASSUME NEW t \in Turn, ListPending(t), TypeOK
  PROVE  \/ /\ Cardinality(Pending(base[t]) \cap users) >= Batch
            /\ draft' = [draft EXCEPT ![t] = DraftOf(base[t])]
            /\ at' = [at EXCEPT ![t] = "summarizing"]
         \/ /\ UNCHANGED draft
            /\ at' = [at EXCEPT ![t] = "releasing"]
BY DEF ListPending, DraftOf, Move

(* A step keeps the types. *)
LEMMA TypeStep ==
  ASSUME TypeOK, Begun, [Next]_vars
  PROVE  TypeOK'
<1> USE EmptySummary DEF TypeOK, Move, Inserting, Compressing, messages, locking, compression
<1>1. CASE UNCHANGED vars
  BY <1>1 DEF vars
<1>0. ASSUME NEW t \in Turn, LoadSummary(t) PROVE TypeOK'
  BY <1>0 DEF LoadSummary
<1>2. ASSUME NEW t \in Turn, BeginAppend(t) PROVE TypeOK'
  <2>1. clock' \in Nat /\ \A m : (m \in 1 .. clock => m \in 1 .. clock') /\ (m \in 0 .. clock => m \in 0 .. clock')
    BY <1>2 DEF BeginAppend, Forget
  <2>2. stamp' \in [Turn -> 0 .. clock']
    BY <1>2, <2>1 DEF BeginAppend, Forget
  <2>3. users' \subseteq 1 .. clock' /\ visible' \subseteq 1 .. clock'
    BY <1>2, <2>1 DEF BeginAppend, Forget
  <2>. QED BY <1>2, <2>1, <2>2, <2>3 DEF BeginAppend, Forget
<1>3. ASSUME NEW t \in Turn, EndAppend(t) PROVE TypeOK'
  BY <1>3 DEF EndAppend, Begun
<1>4. ASSUME NEW t \in Turn, EndTurn(t) PROVE TypeOK'
  BY <1>4 DEF EndTurn, Forget
<1>5. ASSUME NEW t \in Turn, Acquire(t) PROVE TypeOK'
  BY <1>5 DEF Acquire
<1>6. ASSUME NEW t \in Turn, Release(t) PROVE TypeOK'
  BY <1>6 DEF Release, Forget
<1>7. ASSUME NEW t \in Turn, ReadSummary(t) PROVE TypeOK'
  BY <1>7 DEF ReadSummary
<1>8. ASSUME NEW t \in Turn, ListPending(t) PROVE TypeOK'
  <2>1. base[t] \in Summary
    OBVIOUS
  <2>2. draft' \in [Turn -> Summary] /\ at' \in [Turn -> {"summarizing", "releasing"} \cup
          {"idle", "loading", "waiting", "saved", "over"} \cup Inserting \cup Compressing]
    BY <1>8, <2>1, ListPendingDrafts, DraftAdvances
  <2>. QED BY <1>8, <2>2 DEF ListPending
<1>9. ASSUME NEW t \in Turn, Summarize(t) PROVE TypeOK'
  BY <1>9 DEF Summarize
<1>10. ASSUME NEW t \in Turn, WriteSummary(t) PROVE TypeOK'
  BY <1>10 DEF WriteSummary
<1>11. ASSUME NEW t \in Turn, ReadFails(t) PROVE TypeOK'
  BY <1>11 DEF ReadFails
<1>12. ASSUME NEW t \in Turn, Crash(t) PROVE TypeOK'
  BY <1>12 DEF Crash, Forget
<1>13. CASE Expire
  BY <1>13 DEF Expire
<1>14. CASE Delete
  BY <1>14 DEF Delete
<1>. QED BY <1>0, <1>1, <1>2, <1>3, <1>4, <1>5, <1>6, <1>7, <1>8, <1>9, <1>10, <1>11, <1>12, <1>13, <1>14 DEF Next

-----------------------------------------------------------------------------
(* What an insert under way and a compression have to themselves.          *)

(* A step keeps Begun. *)
LEMMA BegunStep ==
  ASSUME TypeOK, Begun, [Next]_vars
  PROVE  Begun'
<1> USE DEF TypeOK, Begun, Move, Inserting, Compressing, messages, locking, compression
<1>1. CASE UNCHANGED vars
  BY <1>1 DEF vars
<1>0. ASSUME NEW t \in Turn, LoadSummary(t) PROVE Begun'
  BY <1>0 DEF LoadSummary
<1>2. ASSUME NEW t \in Turn, BeginAppend(t) PROVE Begun'
  <2>1. clock' \in 1 .. clock' /\ \A m : m \in 1 .. clock => m \in 1 .. clock'
    BY <1>2 DEF BeginAppend, Forget
  <2>. QED BY <1>2, <2>1 DEF BeginAppend, Forget
<1>3. ASSUME NEW t \in Turn, EndAppend(t) PROVE Begun'
  BY <1>3 DEF EndAppend
<1>4. ASSUME NEW t \in Turn, EndTurn(t) PROVE Begun'
  BY <1>4 DEF EndTurn, Forget
<1>5. ASSUME NEW t \in Turn, Acquire(t) PROVE Begun'
  BY <1>5 DEF Acquire
<1>6. ASSUME NEW t \in Turn, Release(t) PROVE Begun'
  BY <1>6 DEF Release, Forget
<1>7. ASSUME NEW t \in Turn, ReadSummary(t) PROVE Begun'
  BY <1>7 DEF ReadSummary
<1>8. ASSUME NEW t \in Turn, ListPending(t) PROVE Begun'
  BY <1>8 DEF ListPending
<1>9. ASSUME NEW t \in Turn, Summarize(t) PROVE Begun'
  BY <1>9 DEF Summarize
<1>10. ASSUME NEW t \in Turn, WriteSummary(t) PROVE Begun'
  BY <1>10 DEF WriteSummary
<1>11. ASSUME NEW t \in Turn, ReadFails(t) PROVE Begun'
  BY <1>11 DEF ReadFails
<1>12. ASSUME NEW t \in Turn, Crash(t) PROVE Begun'
  BY <1>12 DEF Crash, Forget
<1>13. CASE Expire
  BY <1>13 DEF Expire
<1>14. CASE Delete
  BY <1>14 DEF Delete
<1>. QED BY <1>0, <1>1, <1>2, <1>3, <1>4, <1>5, <1>6, <1>7, <1>8, <1>9, <1>10, <1>11, <1>12, <1>13, <1>14 DEF Next

(* A step keeps LocalsOK: the locals end with the compression. *)
LEMMA LocalsStep ==
  ASSUME TypeOK, LocalsOK, [Next]_vars
  PROVE  LocalsOK'
<1> USE DEF TypeOK, LocalsOK, Move, Inserting, Compressing, messages, locking, compression
<1>1. CASE UNCHANGED vars
  BY <1>1 DEF vars
<1>0. ASSUME NEW t \in Turn, LoadSummary(t) PROVE LocalsOK'
  BY <1>0 DEF LoadSummary
<1>2. ASSUME NEW t \in Turn, BeginAppend(t) PROVE LocalsOK'
  BY <1>2 DEF BeginAppend, Forget
<1>3. ASSUME NEW t \in Turn, EndAppend(t) PROVE LocalsOK'
  BY <1>3 DEF EndAppend
<1>4. ASSUME NEW t \in Turn, EndTurn(t) PROVE LocalsOK'
  BY <1>4 DEF EndTurn, Forget
<1>5. ASSUME NEW t \in Turn, Acquire(t) PROVE LocalsOK'
  BY <1>5 DEF Acquire
<1>6. ASSUME NEW t \in Turn, Release(t) PROVE LocalsOK'
  BY <1>6 DEF Release, Forget
<1>7. ASSUME NEW t \in Turn, ReadSummary(t) PROVE LocalsOK'
  BY <1>7 DEF ReadSummary
<1>8. ASSUME NEW t \in Turn, ListPending(t) PROVE LocalsOK'
  BY <1>8 DEF ListPending
<1>9. ASSUME NEW t \in Turn, Summarize(t) PROVE LocalsOK'
  BY <1>9 DEF Summarize
<1>10. ASSUME NEW t \in Turn, WriteSummary(t) PROVE LocalsOK'
  BY <1>10 DEF WriteSummary
<1>11. ASSUME NEW t \in Turn, ReadFails(t) PROVE LocalsOK'
  BY <1>11 DEF ReadFails
<1>12. ASSUME NEW t \in Turn, Crash(t) PROVE LocalsOK'
  BY <1>12 DEF Crash, Forget
<1>13. CASE Expire
  BY <1>13 DEF Expire
<1>14. CASE Delete
  BY <1>14 DEF Delete
<1>. QED BY <1>0, <1>1, <1>2, <1>3, <1>4, <1>5, <1>6, <1>7, <1>8, <1>9, <1>10, <1>11, <1>12, <1>13, <1>14 DEF Next

(* A step keeps InsertsInOrder: one insert at a time, and each gets a later time. *)
LEMMA OrderStep ==
  ASSUME TypeOK, Begun, InsertsInOrder, [Next]_vars
  PROVE  InsertsInOrder'
<1> USE DEF TypeOK, Begun, InsertsInOrder, Move, Inserting, Compressing, messages, locking, compression
<1>1. CASE UNCHANGED vars
  BY <1>1 DEF vars
<1>0. ASSUME NEW t \in Turn, LoadSummary(t) PROVE InsertsInOrder'
  BY <1>0 DEF LoadSummary
<1>2. ASSUME NEW t \in Turn, BeginAppend(t) PROVE InsertsInOrder'
  <2>1. \A m \in visible : m < clock + 1
    OBVIOUS
  <2>. QED BY <1>2, <2>1 DEF BeginAppend, Forget
<1>3. ASSUME NEW t \in Turn, EndAppend(t) PROVE InsertsInOrder'
  BY <1>3 DEF EndAppend
<1>4. ASSUME NEW t \in Turn, EndTurn(t) PROVE InsertsInOrder'
  BY <1>4 DEF EndTurn, Forget
<1>5. ASSUME NEW t \in Turn, Acquire(t) PROVE InsertsInOrder'
  BY <1>5 DEF Acquire
<1>6. ASSUME NEW t \in Turn, Release(t) PROVE InsertsInOrder'
  BY <1>6 DEF Release, Forget
<1>7. ASSUME NEW t \in Turn, ReadSummary(t) PROVE InsertsInOrder'
  BY <1>7 DEF ReadSummary
<1>8. ASSUME NEW t \in Turn, ListPending(t) PROVE InsertsInOrder'
  BY <1>8 DEF ListPending
<1>9. ASSUME NEW t \in Turn, Summarize(t) PROVE InsertsInOrder'
  BY <1>9 DEF Summarize
<1>10. ASSUME NEW t \in Turn, WriteSummary(t) PROVE InsertsInOrder'
  BY <1>10 DEF WriteSummary
<1>11. ASSUME NEW t \in Turn, ReadFails(t) PROVE InsertsInOrder'
  BY <1>11 DEF ReadFails
<1>12. ASSUME NEW t \in Turn, Crash(t) PROVE InsertsInOrder'
  BY <1>12 DEF Crash, Forget
<1>13. CASE Expire
  BY <1>13 DEF Expire
<1>14. CASE Delete
  BY <1>14 DEF Delete
<1>. QED BY <1>0, <1>1, <1>2, <1>3, <1>4, <1>5, <1>6, <1>7, <1>8, <1>9, <1>10, <1>11, <1>12, <1>13, <1>14 DEF Next

-----------------------------------------------------------------------------
(* What summaries account for.                                             *)

(* A new message is later than all that a summary accounts for. *)
LEMMA AppendAccounted ==
  ASSUME TypeOK, Begun, InsertsInOrder, "late" \notin prone,
         NEW t \in Turn, EndAppend(t), NEW s \in Summary, Accounted(s)
  PROVE  s.live => /\ s.last \in visible'
                   /\ \A u \in users' \cap visible' : u <= s.last => u \in s.covers
<1>1. SUFFICES ASSUME s.live, NEW u \in users' \cap visible', u <= s.last
               PROVE  u \in s.covers
  BY DEF EndAppend, Accounted
<1>2. s.last \in visible /\ s.last \in Nat
  BY <1>1 DEF Accounted, Summary
<1>3. stamp[t] \in Nat /\ s.last < stamp[t]
  <2>1. at[t] \in Inserting /\ stamp[t] \in 0 .. clock
    BY DEF EndAppend, TypeOK
  <2>2. clock \in Nat
    BY DEF TypeOK
  <2>. QED BY <1>2, <2>1, <2>2 DEF InsertsInOrder
<1>4. u # stamp[t]
  BY <1>1, <1>2, <1>3
<1>5. u \in visible
  BY <1>4 DEF EndAppend
<1>6. u \in users \/ u \in users' \ users
  OBVIOUS
<1>7. u \in users
  BY <1>4, <1>6 DEF EndAppend
<1>. QED BY <1>1, <1>5, <1>7 DEF Accounted

(* A step keeps AllAccounted. *)
LEMMA AccountedStep ==
  ASSUME TypeOK, Begun, LocalsOK, InsertsInOrder, AllAccounted, [Next]_vars
  PROVE  AllAccounted'
<1> SUFFICES ASSUME prone' \cap {"late", "deletion"} = {} PROVE AllAccounted'
  BY DEF AllAccounted
<1>b. prone' = prone
  BY DEF Next, vars, LoadSummary, BeginAppend, EndAppend, EndTurn, Acquire, Release, Expire, ReadSummary, ListPending,
         Summarize, WriteSummary, ReadFails, Crash, Delete
<1>a. "late" \notin prone /\ "deletion" \notin prone /\ prone \cap {"late", "deletion"} = {}
  BY <1>b
<1> USE <1>a DEF TypeOK, AllAccounted, Move, messages, locking, compression
<1>1. CASE UNCHANGED vars
  BY <1>1 DEF vars, Accounted
<1>0. ASSUME NEW t \in Turn, LoadSummary(t) PROVE AllAccounted'
  BY <1>0 DEF LoadSummary, Accounted
<1>2. ASSUME NEW t \in Turn, BeginAppend(t) PROVE AllAccounted'
  BY <1>2 DEF BeginAppend, Accounted, Forget, NoSummary
<1>3. ASSUME NEW t \in Turn, EndAppend(t) PROVE AllAccounted'
  <2>1. Accounted(summary)'
    BY <1>3, AppendAccounted DEF EndAppend, Accounted
  <2>2. ASSUME NEW u \in Turn PROVE Accounted(base[u])' /\ Accounted(draft[u])'
    BY <1>3, AppendAccounted DEF EndAppend, Accounted
  <2>. QED BY <2>1, <2>2
<1>4. ASSUME NEW t \in Turn, EndTurn(t) PROVE AllAccounted'
  BY <1>4 DEF EndTurn, Accounted, Forget, NoSummary
<1>5. ASSUME NEW t \in Turn, Acquire(t) PROVE AllAccounted'
  BY <1>5 DEF Acquire, Accounted
<1>6. ASSUME NEW t \in Turn, Release(t) PROVE AllAccounted'
  BY <1>6 DEF Release, Accounted, Forget, NoSummary
<1>7. ASSUME NEW t \in Turn, ReadSummary(t) PROVE AllAccounted'
  BY <1>7 DEF ReadSummary, Accounted
<1>8. ASSUME NEW t \in Turn, ListPending(t) PROVE AllAccounted'
  <2>1. ASSUME NEW u \in Turn PROVE Accounted(draft'[u])
    <3>1. base[t] \in Summary /\ Accounted(base[t])
      OBVIOUS
    <3>2. CASE Cardinality(Pending(base[t]) \cap users) >= Batch /\ u = t /\ draft'[t] = DraftOf(base[t])
      BY <3>1, <3>2, DraftAccounted
    <3>3. CASE draft'[u] = draft[u]
      BY <3>3
    <3>. QED BY <1>8, <3>2, <3>3, ListPendingDrafts
  <2>. QED BY <1>8, <2>1 DEF ListPending, Accounted
<1>9. ASSUME NEW t \in Turn, Summarize(t) PROVE AllAccounted'
  BY <1>9 DEF Summarize, Accounted
<1>10. ASSUME NEW t \in Turn, WriteSummary(t) PROVE AllAccounted'
  BY <1>10 DEF WriteSummary, Accounted
<1>11. ASSUME NEW t \in Turn, ReadFails(t) PROVE AllAccounted'
  BY <1>11 DEF ReadFails, Accounted
<1>12. ASSUME NEW t \in Turn, Crash(t) PROVE AllAccounted'
  BY <1>12 DEF Crash, Accounted, Forget, NoSummary
<1>13. CASE Expire
  BY <1>13 DEF Expire, Accounted
<1>14. CASE Delete
  <2>1. \A u \in Turn : base[u] = NoSummary /\ draft[u] = NoSummary
    BY <1>14 DEF Delete, LocalsOK, Compressing
  <2>. QED BY <1>14, <2>1 DEF Delete, Accounted, NoSummary
<1>. QED BY <1>0, <1>1, <1>2, <1>3, <1>4, <1>5, <1>6, <1>7, <1>8, <1>9, <1>10, <1>11, <1>12, <1>13, <1>14 DEF Next

(* A step keeps AllVisible: a deletion takes the stored summary, and nobody has another. *)
LEMMA VisibleStep ==
  ASSUME TypeOK, LocalsOK, AllVisible, [Next]_vars
  PROVE  AllVisible'
<1> USE DEF TypeOK, AllVisible, Move, messages, locking, compression
<1>1. CASE UNCHANGED vars
  BY <1>1 DEF vars
<1>0. ASSUME NEW t \in Turn, LoadSummary(t) PROVE AllVisible'
  BY <1>0 DEF LoadSummary
<1>2. ASSUME NEW t \in Turn, BeginAppend(t) PROVE AllVisible'
  BY <1>2 DEF BeginAppend, Forget, NoSummary
<1>3. ASSUME NEW t \in Turn, EndAppend(t) PROVE AllVisible'
  BY <1>3 DEF EndAppend
<1>4. ASSUME NEW t \in Turn, EndTurn(t) PROVE AllVisible'
  BY <1>4 DEF EndTurn, Forget, NoSummary
<1>5. ASSUME NEW t \in Turn, Acquire(t) PROVE AllVisible'
  BY <1>5 DEF Acquire
<1>6. ASSUME NEW t \in Turn, Release(t) PROVE AllVisible'
  BY <1>6 DEF Release, Forget, NoSummary
<1>7. ASSUME NEW t \in Turn, ReadSummary(t) PROVE AllVisible'
  BY <1>7 DEF ReadSummary
<1>8. ASSUME NEW t \in Turn, ListPending(t) PROVE AllVisible'
  <2>1. Pending(base[t]) \subseteq visible
    BY DEF Pending, Normalized, After
  <2>2. ASSUME "deletion" \notin prone, NEW u \in Turn PROVE draft'[u].covers \subseteq visible
    <3>1. DraftOf(base[t]).covers \subseteq visible
      BY <2>1, <2>2 DEF DraftOf
    <3>. QED BY <1>8, <2>2, <3>1, ListPendingDrafts
  <2>. QED BY <1>8, <2>2 DEF ListPending
<1>9. ASSUME NEW t \in Turn, Summarize(t) PROVE AllVisible'
  BY <1>9 DEF Summarize
<1>10. ASSUME NEW t \in Turn, WriteSummary(t) PROVE AllVisible'
  BY <1>10 DEF WriteSummary
<1>11. ASSUME NEW t \in Turn, ReadFails(t) PROVE AllVisible'
  BY <1>11 DEF ReadFails
<1>12. ASSUME NEW t \in Turn, Crash(t) PROVE AllVisible'
  BY <1>12 DEF Crash, Forget, NoSummary
<1>13. CASE Expire
  BY <1>13 DEF Expire
<1>14. CASE Delete
  <2>1. "deletion" \notin prone => \A u \in Turn : base[u] = NoSummary /\ draft[u] = NoSummary
    BY <1>14 DEF Delete, LocalsOK, Compressing
  <2>. QED BY <1>14, <2>1 DEF Delete, NoSummary
<1>. QED BY <1>0, <1>1, <1>2, <1>3, <1>4, <1>5, <1>6, <1>7, <1>8, <1>9, <1>10, <1>11, <1>12, <1>13, <1>14 DEF Next

-----------------------------------------------------------------------------
(* The holder of the lock.                                                 *)

(* A step keeps HolderAlone. *)
LEMMA HolderStep ==
  ASSUME TypeOK, HolderAlone, [Next]_vars
  PROVE  HolderAlone'
<1> SUFFICES ASSUME prone' \cap {"lapse", "redis"} = {} PROVE HolderAlone'
  BY DEF HolderAlone
<1>b. prone' = prone
  BY DEF Next, vars, LoadSummary, BeginAppend, EndAppend, EndTurn, Acquire, Release, Expire, ReadSummary, ListPending,
         Summarize, WriteSummary, ReadFails, Crash, Delete
<1>a. "lapse" \notin prone /\ "redis" \notin prone /\ prone \cap {"lapse", "redis"} = {}
  BY <1>b
<1> USE <1>a DEF TypeOK, HolderAlone, Move, Inserting, Compressing, messages, locking, compression
<1>1. CASE UNCHANGED vars
  BY <1>1 DEF vars
<1>0. ASSUME NEW t \in Turn, LoadSummary(t) PROVE HolderAlone'
  BY <1>0 DEF LoadSummary
<1>2. ASSUME NEW t \in Turn, BeginAppend(t) PROVE HolderAlone'
  BY <1>2 DEF BeginAppend, Forget
<1>3. ASSUME NEW t \in Turn, EndAppend(t) PROVE HolderAlone'
  BY <1>3 DEF EndAppend
<1>4. ASSUME NEW t \in Turn, EndTurn(t) PROVE HolderAlone'
  BY <1>4 DEF EndTurn, Forget
<1>5. ASSUME NEW t \in Turn, Acquire(t) PROVE HolderAlone'
  BY <1>5 DEF Acquire
<1>6. ASSUME NEW t \in Turn, Release(t) PROVE HolderAlone'
  BY <1>6 DEF Release, Forget
<1>7. ASSUME NEW t \in Turn, ReadSummary(t) PROVE HolderAlone'
  BY <1>7 DEF ReadSummary
<1>8. ASSUME NEW t \in Turn, ListPending(t) PROVE HolderAlone'
  <2>1. base[t] \in Summary
    OBVIOUS
  <2>2. Cardinality(Pending(base[t]) \cap users) >= Batch =>
          /\ base[t].live => DraftOf(base[t]).last > base[t].last
          /\ base[t].covers \subseteq DraftOf(base[t]).covers
    BY <2>1, DraftAdvances DEF DraftOf
  <2>. QED BY <1>8, <2>2, ListPendingDrafts DEF ListPending
<1>9. ASSUME NEW t \in Turn, Summarize(t) PROVE HolderAlone'
  BY <1>9 DEF Summarize
<1>10. ASSUME NEW t \in Turn, WriteSummary(t) PROVE HolderAlone'
  BY <1>10 DEF WriteSummary
<1>11. ASSUME NEW t \in Turn, ReadFails(t) PROVE HolderAlone'
  BY <1>11 DEF ReadFails
<1>12. ASSUME NEW t \in Turn, Crash(t) PROVE HolderAlone'
  BY <1>12 DEF Crash, Forget
<1>13. CASE Expire
  BY <1>13 DEF Expire
<1>14. CASE Delete
  BY <1>14 DEF Delete, NoSummary
<1>. QED BY <1>0, <1>1, <1>2, <1>3, <1>4, <1>5, <1>6, <1>7, <1>8, <1>9, <1>10, <1>11, <1>12, <1>13, <1>14 DEF Next

-----------------------------------------------------------------------------
(* The theorems.                                                           *)

(* The inductive invariant. *)
THEOREM Invariance == Spec => []IInv
<1>1. Init => IInv
  BY InitInv
<1>2. IInv /\ [Next]_vars => IInv'
  BY TypeStep, BegunStep, LocalsStep, OrderStep, AccountedStep, VisibleStep, HolderStep DEF IInv
<1>. QED BY <1>1, <1>2, PTL DEF Spec

(* Every variable has its type, one turn at most has its token in Redis, and no *)
(* message is in a conversation without a row. *)
THEOREM TypeCorrect == Spec => []TypeOK
<1>1. IInv => TypeOK
  BY DEF IInv
<1>. QED BY <1>1, Invariance, PTL

(* What the user has said is in the summary or among the messages after it, with or without *)
(* the lock. *)
THEOREM NothingForgotten == Spec => []NoUserTurnLost
<1>1. IInv => NoUserTurnLost
  BY DEF IInv, AllAccounted, Accounted, NoUserTurnLost, Regular, After, TypeOK, Summary
<1>. QED BY <1>1, Invariance, PTL

(* A summary never covers what has been deleted. *)
THEOREM DeletionIsFinal == Spec => []DeletedStaysGone
<1>1. IInv => DeletedStaysGone
  BY DEF IInv, AllVisible, DeletedStaysGone
<1>. QED BY <1>1, Invariance, PTL

(* With the lock a summary is only replaced by one that goes on from it. *)
THEOREM LockedSummariesAdvance == Spec => SummaryAdvances
<1> DEFINE Advance == prone \cap {"lapse", "redis"} = {} /\ summary.live /\ summary'.live /\ summary' # summary =>
                        /\ summary'.last > summary.last
                        /\ summary.covers \subseteq summary'.covers
<1>1. IInv /\ [Next]_vars => [Advance]_vars
  <2> SUFFICES ASSUME IInv, Next, prone \cap {"lapse", "redis"} = {}, summary.live, summary'.live,
                      summary' # summary
               PROVE  Advance
    OBVIOUS
  <2>0. ~ Delete
    BY DEF Delete, NoSummary
  <2>1. PICK t \in Turn : WriteSummary(t)
    BY <2>0 DEF Next, LoadSummary, BeginAppend, EndAppend, EndTurn, Acquire, Release, Expire, ReadSummary, ListPending,
           Summarize, ReadFails, Crash, compression
  <2>2. summary' = draft[t] /\ at[t] = "writing"
    BY <2>1 DEF WriteSummary
  <2>3. base[t] = summary /\ draft[t].last > base[t].last /\ base[t].covers \subseteq draft[t].covers
    BY <2>2 DEF IInv, HolderAlone
  <2>. QED BY <2>2, <2>3
<1>. QED BY <1>1, Invariance, PTL DEF Spec, SummaryAdvances

-----------------------------------------------------------------------------
(* What CondensedMemory sees.                                              *)

(* A summary contains what the user has said up to its last message, nothing else. *)
Inside(s) ==
  /\ s.covers \subseteq users
  /\ \A u \in s.covers : u <= s.last
  /\ ~ s.live => s.covers = {}

(* A draft has a batch more than the summary it was made from. *)
Batched ==
  \A t \in Turn : at[t] \in {"summarizing", "writing"} =>
    draft[t].live /\ Cardinality(draft[t].covers \ base[t].covers) >= Batch

(* An insert under way is of a message later than any of the user's, deleted or not. *)
Newest ==
  "late" \notin prone =>
    \A t \in Turn : at[t] \in Inserting => \A u \in users : u < stamp[t]

Divided ==
  /\ Inside(summary)
  /\ \A t \in Turn : Inside(base[t]) /\ Inside(draft[t])
  /\ Batched
  /\ Newest

(* If the summary read is inside, so is the draft, and it has a batch more. *)
LEMMA DraftInside ==
  ASSUME TypeOK, NEW s \in Summary, Inside(s), Cardinality(Pending(s) \cap users) >= Batch
  PROVE  /\ Inside(DraftOf(s))
         /\ DraftOf(s).live
         /\ Cardinality(DraftOf(s).covers \ s.covers) >= Batch
<1>1. /\ DraftOf(s).covers = s.covers \cup (Pending(s) \cap users)
      /\ DraftOf(s).last = LastOf(Pending(s)) /\ DraftOf(s).live
  BY DEF DraftOf
<1>2. /\ s.live => DraftOf(s).last > s.last
      /\ \A m \in Pending(s) : m <= DraftOf(s).last
      /\ DraftOf(s).last \in Nat /\ s.last \in Nat /\ s.covers \subseteq Nat
  BY DraftAdvances DEF Summary
<1>3. \A u \in s.covers : u <= DraftOf(s).last
  BY <1>2 DEF Inside
<1>4. \A m \in Pending(s) : m \notin s.covers
  <2> SUFFICES ASSUME NEW m \in Pending(s), m \in s.covers PROVE FALSE
    OBVIOUS
  <2>1. s.live /\ m <= s.last /\ m > s.last
    BY DEF Inside, Pending, Normalized, After
  <2>. QED BY <1>2, <2>1
<1>5. DraftOf(s).covers \ s.covers = Pending(s) \cap users
  BY <1>1, <1>4
<1>. QED BY <1>1, <1>2, <1>3, <1>5 DEF Inside

(* A step keeps the summaries inside: the user's messages are never taken away. *)
LEMMA InsideStep ==
  ASSUME TypeOK, Divided, [Next]_vars
  PROVE  /\ Inside(summary)'
         /\ \A t \in Turn : Inside(base[t])' /\ Inside(draft[t])'
<1>1. users \subseteq users'
  BY DEF Next, vars, messages, compression, LoadSummary, BeginAppend, EndAppend, EndTurn, Acquire, Release, Expire,
         ReadSummary, ListPending, Summarize, WriteSummary, ReadFails, Crash, Delete
<1>2. \A s : Inside(s) => /\ s.covers \subseteq users'
                          /\ \A u \in s.covers : u <= s.last
                          /\ ~ s.live => s.covers = {}
  BY <1>1 DEF Inside
<1>3. Inside(NoSummary)
  BY DEF Inside, NoSummary
<1>4. summary' = summary \/ summary' = NoSummary \/ \E t \in Turn : summary' = draft[t]
  BY DEF Next, vars, messages, compression, LoadSummary, BeginAppend, EndAppend, EndTurn, Acquire, Release, Expire,
         ReadSummary, ListPending, Summarize, WriteSummary, ReadFails, Crash, Delete
<1>5. ASSUME NEW t \in Turn PROVE base'[t] \in {base[t], summary, NoSummary}
  BY DEF Next, vars, messages, compression, LoadSummary, BeginAppend, EndAppend, EndTurn, Acquire, Release, Expire,
         ReadSummary, ListPending, Summarize, WriteSummary, ReadFails, Crash, Delete, Forget, TypeOK
<1>6. ASSUME NEW t \in Turn PROVE Inside(draft'[t])
  <2>1. CASE \E u \in Turn : ListPending(u)
    <3>1. PICK u \in Turn : ListPending(u)
      BY <2>1
    <3>2. base[u] \in Summary /\ Inside(base[u])
      BY DEF TypeOK, Divided
    <3>3. draft' = draft \/ (Inside(DraftOf(base[u])) /\ draft' = [draft EXCEPT ![u] = DraftOf(base[u])])
      BY <3>1, <3>2, ListPendingDrafts, DraftInside
    <3>. QED BY <3>3 DEF Divided, TypeOK
  <2>2. CASE ~ \E u \in Turn : ListPending(u)
    <3>1. draft'[t] \in {draft[t], NoSummary}
      BY <2>2 DEF Next, vars, messages, compression, LoadSummary, BeginAppend, EndAppend, EndTurn, Acquire, Release,
             Expire, ReadSummary, Summarize, WriteSummary, ReadFails, Crash, Delete, Forget, TypeOK
    <3>. QED BY <1>3, <3>1 DEF Divided
  <2>. QED BY <2>1, <2>2
<1>7. Inside(summary') /\ \A t \in Turn : Inside(base'[t])
  BY <1>3, <1>4, <1>5 DEF Divided
<1>. QED BY <1>2, <1>6, <1>7 DEF Inside

(* A step keeps Batched: only ListPending drafts, and nothing is read afterwards. *)
LEMMA BatchedStep ==
  ASSUME TypeOK, Divided, [Next]_vars
  PROVE  Batched'
<1> SUFFICES ASSUME NEW t \in Turn, at'[t] \in {"summarizing", "writing"}
             PROVE  draft'[t].live /\ Cardinality(draft'[t].covers \ base'[t].covers) >= Batch
  BY DEF Batched
<1>1. CASE ListPending(t)
  <2>1. base[t] \in Summary /\ Inside(base[t])
    BY DEF TypeOK, Divided
  <2>2. /\ Cardinality(Pending(base[t]) \cap users) >= Batch
        /\ draft'[t] = DraftOf(base[t])
    BY <1>1, ListPendingDrafts DEF TypeOK
  <2>3. base'[t] = base[t]
    BY <1>1 DEF ListPending
  <2>. QED BY <2>1, <2>2, <2>3, DraftInside
<1>2. CASE ~ ListPending(t)
  <2>1. at[t] \in {"summarizing", "writing"} /\ base'[t] = base[t] /\ draft'[t] = draft[t]
    <3>1. CASE \E u \in Turn : ListPending(u)
      <4>1. PICK u \in Turn : ListPending(u)
        BY <3>1
      <4>2. u # t /\ base' = base
        BY <1>2, <4>1 DEF ListPending
      <4>. QED BY <4>1, <4>2, ListPendingDrafts DEF TypeOK
    <3>2. CASE Delete \/ UNCHANGED vars \/ Expire
      BY <3>2 DEF Delete, vars, Expire, compression
    <3>3. CASE \E u \in Turn : LoadSummary(u) \/ BeginAppend(u) \/ EndAppend(u) \/ EndTurn(u) \/ Acquire(u)
      BY <3>3 DEF LoadSummary, BeginAppend, EndAppend, EndTurn, Acquire, Forget, compression, TypeOK, Move
    <3>4. CASE \E u \in Turn : Summarize(u) \/ WriteSummary(u) \/ ReadFails(u) \/ ReadSummary(u)
      BY <3>4 DEF Summarize, WriteSummary, ReadFails, ReadSummary, compression, TypeOK, Move
    <3>5. CASE \E u \in Turn : Release(u) \/ Crash(u)
      BY <3>5 DEF Release, Crash, Forget, TypeOK, Move
    <3>. QED BY <3>1, <3>2, <3>3, <3>4, <3>5 DEF Next
  <2>. QED BY <2>1 DEF Divided, Batched
<1>. QED BY <1>1, <1>2

(* A step keeps Newest: a message gets its time when its insert begins. *)
LEMMA NewestStep ==
  ASSUME TypeOK, InsertsInOrder, Divided, [Next]_vars
  PROVE  Newest'
<1> SUFFICES ASSUME "late" \notin prone', NEW t \in Turn, at'[t] \in Inserting, NEW u \in users'
             PROVE  u < stamp'[t]
  BY DEF Newest
<1>1. prone' = prone
  BY DEF Next, vars, LoadSummary, BeginAppend, EndAppend, EndTurn, Acquire, Release, Expire, ReadSummary, ListPending,
         Summarize, WriteSummary, ReadFails, Crash, Delete
<1>2. CASE \E v \in Turn : BeginAppend(v)
  <2>1. PICK v \in Turn : BeginAppend(v)
    BY <1>2
  <2>2. v = t /\ stamp'[t] = clock + 1 /\ users' = users
    BY <1>1, <2>1 DEF BeginAppend, Move, TypeOK
  <2>3. \A n \in 1 .. clock : n < clock + 1
    BY DEF TypeOK
  <2>. QED BY <2>2, <2>3 DEF TypeOK
<1>3. CASE \E v \in Turn : EndAppend(v)
  <2>1. PICK v \in Turn : EndAppend(v)
    BY <1>3
  <2>2. v # t /\ at[t] \in Inserting /\ at[v] \in Inserting
    BY <2>1 DEF EndAppend, Move, TypeOK, Inserting
  <2>. QED BY <1>1, <2>2 DEF InsertsInOrder
<1>4. CASE ~ (\E v \in Turn : BeginAppend(v) \/ EndAppend(v))
  <2>1. at[t] \in Inserting /\ stamp' = stamp /\ users' = users
    BY <1>4 DEF Next, vars, messages, compression, LoadSummary, EndTurn, Acquire, Release, Expire, ReadSummary,
           ListPending, Summarize, WriteSummary, ReadFails, Crash, Delete, TypeOK, Move, Inserting
  <2>. QED BY <1>1, <2>1 DEF Divided, Newest
<1>. QED BY <1>2, <1>3, <1>4

(* Summaries stay inside what was said, by batches. *)
LEMMA Division == Spec => [](IInv /\ Divided)
<1>1. Init => Divided
  BY DEF Init, Divided, Inside, Batched, Newest, NoSummary, Inserting
<1>2. IInv /\ Divided /\ [Next]_vars => Divided'
  BY InsideStep, BatchedStep, NewestStep DEF Divided, IInv
<1>. QED BY <1>1, <1>2, Invariance, PTL DEF Spec

-----------------------------------------------------------------------------
(* The steps of CondensedMemory.                                           *)

SaidView == IF Regular THEN users \cap visible ELSE {}

GistView == IF Regular THEN summary.covers ELSE {}

PendingView == IF Regular THEN users \cap After(summary) ELSE {}

SerialView == prone \cap {"lapse", "redis"} = {}

(* Where a summary cuts what has been said. *)
LEMMA CutFacts ==
  ASSUME TypeOK, Regular, NEW s \in Summary, Accounted(s), Inside(s), s.covers \subseteq visible
  PROVE  /\ users \cap After(s) = (users \cap visible) \ s.covers
         /\ s.covers \subseteq users \cap visible
         /\ \A m \in s.covers, n \in users \cap After(s) : m < n
<1>1. s.last \in Nat /\ \A m \in users \cup visible : m \in Nat
  BY DEF TypeOK, Summary
<1>2. CASE s.live
  <2>1. After(s) = {m \in visible : m > s.last}
    BY <1>2 DEF After, Accounted
  <2>2. \A u \in users \cap visible : u <= s.last <=> u \in s.covers
    BY <1>2 DEF Accounted, Inside
  <2>3. \A u \in users \cap visible : u > s.last <=> u \notin s.covers
    BY <1>1, <2>2
  <2>4. \A m \in s.covers, n \in users \cap After(s) : m < n
    <3> SUFFICES ASSUME NEW m \in s.covers, NEW n \in users \cap After(s) PROVE m < n
      OBVIOUS
    <3>1. m \in Nat /\ n \in Nat /\ m <= s.last /\ n > s.last
      BY <1>1, <2>1 DEF Inside
    <3>. QED BY <1>1, <3>1
  <2>. QED BY <2>1, <2>3, <2>4 DEF Inside
<1>3. CASE ~ s.live
  BY <1>3 DEF After, Inside
<1>. QED BY <1>2, <1>3

(* Trimming leaves out messages of the user only where it must, and then only the oldest. *)
LEMMA TrimmedKeepsNewest ==
  ASSUME TypeOK, NEW M, M \subseteq visible
  PROVE  /\ Trimmed(M) \subseteq M
         /\ \A u \in (users \cap M) \ Trimmed(M) :
              /\ {n \in M : n >= u} \notin Short
              /\ \A m \in Trimmed(M) : u < m
              /\ Trimmed(M) \cap users # {}
<1> DEFINE N == Normalized(M)
           From(m) == {n \in N : n >= m}
           S == {m \in N : m = LastOf(N) \/ From(m) \in Short}
           K == Normalized(S)
<1>1. Trimmed(M) = IF K = {} /\ N # {} THEN {LastOf(users \cap N)} ELSE K
  BY DEF Trimmed
<1>2. N \subseteq M /\ S \subseteq N /\ K \subseteq S /\ users \cap N \subseteq N
  BY DEF Normalized
<1>3. N \subseteq 1 .. clock /\ clock \in Nat /\ \A m \in N : m \in Nat
  <2>1. \A m \in 1 .. clock : m \in Nat
    BY DEF TypeOK
  <2>. QED BY <1>2, <2>1 DEF TypeOK
<1>4. N # {} => LastOf(N) \in N /\ \A n \in N : n <= LastOf(N)
  BY <1>3, LastOfIsLast
<1>5. users \cap N # {} => LastOf(users \cap N) \in users \cap N /\ \A n \in users \cap N : n <= LastOf(users \cap N)
  <2>1. users \cap N \subseteq 1 .. clock
    BY <1>3
  <2> HIDE DEF N
  <2>. QED BY <1>3, <2>1, LastOfIsLast
<1>6. N # {} => users \cap N # {}
  <2> SUFFICES ASSUME NEW m \in N PROVE users \cap N # {}
    OBVIOUS
  <2>1. PICK u \in users \cap M : u <= m
    BY DEF Normalized
  <2>2. u \in Nat
    BY DEF TypeOK
  <2>. QED BY <2>1, <2>2 DEF Normalized
<1>7. \A v \in users \cap S : v \in K
  <2>1. \A v \in S : v <= v
    BY <1>2, <1>3
  <2>. QED BY <2>1 DEF Normalized
<1>8. Trimmed(M) \subseteq M
  <2>1. K \subseteq M
    BY <1>2
  <2> HIDE DEF K, S, N
  <2>. QED BY <1>1, <1>2, <1>5, <1>6, <2>1
<1>9. ASSUME NEW u \in (users \cap M) \ Trimmed(M)
      PROVE  /\ {n \in M : n >= u} \notin Short
             /\ \A m \in Trimmed(M) : u < m
             /\ Trimmed(M) \cap users # {}
  <2>1. u \in N /\ u \in Nat /\ {n \in M : n >= u} = From(u)
    <3>1. \A n \in M : n \in Nat
      BY DEF TypeOK
    <3>2. u <= u /\ \A n \in M : n >= u => u <= n
      BY <3>1
    <3>. QED BY <3>1, <3>2 DEF Normalized
  <2>2. u \notin S
    <3> SUFFICES ASSUME u \in S PROVE FALSE
      OBVIOUS
    <3>1. u \in K
      BY <1>7
    <3>. QED BY <1>1, <3>1
  <2>3. u # LastOf(N) /\ From(u) \notin Short
    BY <2>1, <2>2
  <2>4. ASSUME NEW m \in S PROVE u < m
    <3>1. m \in Nat /\ m \in N
      BY <1>2, <1>3
    <3>2. CASE m = LastOf(N)
      BY <1>4, <2>1, <2>3, <3>1, <3>2
    <3>3. CASE From(m) \in Short
      <4> SUFFICES ASSUME m <= u PROVE FALSE
        BY <2>1, <3>1
      <4>1. From(u) \subseteq From(m)
        BY <1>3, <2>1, <3>1
      <4>. QED BY <2>3, <3>3, <4>1, ShortAssumption
    <3>. QED BY <3>2, <3>3
  <2>5. CASE K # {}
    <3>1. Trimmed(M) = K
      BY <1>1, <2>5
    <3>2. PICK v \in users \cap S : TRUE
      BY <2>5 DEF Normalized
    <3>3. v \in K
      BY <1>7
    <3>. QED BY <1>2, <2>1, <2>3, <2>4, <3>1, <3>3
  <2>6. CASE K = {}
    <3>1. Trimmed(M) = {LastOf(users \cap N)}
      BY <1>1, <2>1, <2>6
    <3>2. u <= LastOf(users \cap N) /\ LastOf(users \cap N) \in users \cap N /\ u # LastOf(users \cap N)
      BY <1>5, <2>1, <3>1
    <3>3. LastOf(users \cap N) \in Nat
      BY <1>3, <3>2
    <3>4. u < LastOf(users \cap N)
      BY <2>1, <3>2, <3>3
    <3>. QED BY <2>1, <2>3, <3>1, <3>2, <3>4
  <2>. QED BY <2>5, <2>6
<1>. QED BY <1>8, <1>9

(* However summaries are written between its two reads, load shows what is not in the summary *)
(* it has read, from the newest message of the user as far back as fits.                      *)
THEOREM LoadShowsTheRest == Spec => []LoadHasNoGap
<1>1. IInv /\ Divided => LoadHasNoGap
  <2> SUFFICES ASSUME IInv, Divided, Regular, NEW t \in Turn, at[t] = "loading"
               PROVE  /\ Context(t) \cap base[t].covers = {}
                      /\ \A u \in (users \cap visible) \ (base[t].covers \cup Context(t)) :
                           /\ {m \in visible : m >= u} \notin Short
                           /\ \A m \in Context(t) : u < m
                           /\ Context(t) \cap users # {}
    BY DEF LoadHasNoGap
  <2>1. /\ TypeOK /\ base[t] \in Summary /\ Accounted(base[t]) /\ Inside(base[t])
        /\ base[t].covers \subseteq visible
    BY DEF IInv, Divided, TypeOK, AllAccounted, AllVisible, Regular
  <2>2. /\ users \cap After(base[t]) = (users \cap visible) \ base[t].covers
        /\ base[t].covers \subseteq users
    BY <2>1, CutFacts
  <2>3. After(base[t]) \subseteq visible
    BY DEF After
  <2>4. /\ Context(t) \subseteq After(base[t])
        /\ \A u \in (users \cap After(base[t])) \ Context(t) :
             /\ {n \in After(base[t]) : n >= u} \notin Short
             /\ \A m \in Context(t) : u < m
             /\ Context(t) \cap users # {}
    BY <2>1, <2>3, TrimmedKeepsNewest DEF Context
  <2>5. ASSUME NEW u \in users \cap After(base[t])
        PROVE  {m \in visible : m >= u} = {m \in After(base[t]) : m >= u}
    <3>1. \A m \in visible : m \in Nat
      BY <2>1 DEF TypeOK
    <3>2. u \in Nat /\ base[t].last \in Nat
      BY <2>1 DEF TypeOK, Summary
    <3>. QED BY <3>1, <3>2 DEF After
  <2>. QED BY <2>2, <2>4, <2>5
<1>. QED BY <1>1, Division, PTL

(* In a regular behaviour gist and pending messages are what has been said, the gist first. *)
LEMMA Halves ==
  ASSUME IInv, Divided, Regular
  PROVE  /\ SaidView = users \cap visible
         /\ GistView = summary.covers
         /\ GistView \subseteq users \cap visible
         /\ PendingView = (users \cap visible) \ GistView
         /\ \A m \in GistView, n \in PendingView : m < n
<1>1. Accounted(summary) /\ summary.covers \subseteq visible /\ summary \in Summary
  BY DEF IInv, AllAccounted, AllVisible, Regular, TypeOK
<1>. QED BY <1>1, CutFacts DEF IInv, Divided, SaidView, GistView, PendingView

(* The same after a step. *)
LEMMA HalvesNext ==
  (IInv /\ Divided /\ Regular =>
     /\ SaidView = users \cap visible
     /\ GistView = summary.covers
     /\ GistView \subseteq users \cap visible
     /\ PendingView = (users \cap visible) \ GistView
     /\ \A m \in GistView, n \in PendingView : m < n)'
<1>1. IInv /\ Divided /\ Regular =>
        /\ SaidView = users \cap visible
        /\ GistView = summary.covers
        /\ GistView \subseteq users \cap visible
        /\ PendingView = (users \cap visible) \ GistView
        /\ \A m \in GistView, n \in PendingView : m < n
  BY Halves
<1>. QED BY <1>1, PTL

(* The user's message joins what has been said, later than all of it. *)
LEMMA AskingSays ==
  ASSUME IInv, Divided, IInv', Divided', Regular, Regular', SerialView' = SerialView,
         NEW t \in Turn, EndAppend(t), at[t] = "asking"
  PROVE  Condensed!Say
<1>1. "late" \notin prone
  BY DEF Regular
<1>2. /\ users' \cap visible' = (users \cap visible) \cup {stamp[t]}
      /\ summary' = summary
      /\ \A m \in users : m < stamp[t]
      /\ stamp[t] \notin users
  <2>1. \A m \in users : m < stamp[t]
    BY <1>1 DEF Divided, Newest, Inserting
  <2>2. stamp[t] \notin users
    <3>1. stamp[t] \in Nat
      BY DEF IInv, TypeOK
    <3>. QED BY <2>1, <3>1
  <2>3. \A m \in visible : m # stamp[t]
    <3>1. stamp[t] \in Nat /\ \A m \in visible : m < stamp[t]
      BY <1>1 DEF IInv, TypeOK, InsertsInOrder, Inserting
    <3>. QED BY <3>1
  <2>4. users' = users \cup {stamp[t]} /\ visible' = visible \cup {stamp[t]} /\ summary' = summary
    BY DEF EndAppend, compression
  <2>. QED BY <2>1, <2>2, <2>3, <2>4
<1>3. /\ GistView' = GistView /\ PendingView' = PendingView \cup {stamp[t]}
      /\ SaidView' = SaidView \cup {stamp[t]} /\ SaidView = users \cap visible
  <2>1. /\ SaidView = users \cap visible
        /\ GistView = summary.covers /\ GistView \subseteq users \cap visible
        /\ PendingView = (users \cap visible) \ GistView
    BY Halves
  <2>2. /\ SaidView' = users' \cap visible'
        /\ GistView' = summary'.covers /\ PendingView' = (users' \cap visible') \ GistView'
    BY HalvesNext
  <2>. QED BY <1>2, <2>1, <2>2
<1>. QED BY <1>2, <1>3 DEF Condensed!Say, SaidView, GistView, PendingView, SerialView

LEMMA CondensedCardinality == \A S : Condensed!Cardinality(S) = Cardinality(S)
BY DEF Cardinality, Condensed!Cardinality

(* A summary that is written condenses what has been said; under the lock it goes on *)
(* from the one before.                                                              *)
LEMMA WritingCondenses ==
  ASSUME IInv, Divided, IInv', Divided', Regular, Regular', SerialView' = SerialView,
         NEW t \in Turn, WriteSummary(t), summary' = draft[t]
  PROVE  Condensed!Condense
<1>1. /\ SaidView = users \cap visible
      /\ GistView = summary.covers /\ GistView \subseteq users \cap visible
      /\ PendingView = (users \cap visible) \ GistView
  BY Halves
<1>2. /\ SaidView' = users' \cap visible'
      /\ GistView' = summary'.covers /\ GistView' \subseteq users' \cap visible'
      /\ PendingView' = (users' \cap visible') \ GistView'
      /\ \A m \in GistView', n \in PendingView' : m < n
  BY HalvesNext
<1>3. users' = users /\ visible' = visible /\ at[t] = "writing"
  BY DEF WriteSummary, messages
<1>4. Cardinality(draft[t].covers \ base[t].covers) >= Batch
  BY <1>3 DEF Divided, Batched
<1>5. IsFiniteSet(draft[t].covers)
  <2>1. draft[t].covers \subseteq 1 .. clock /\ clock \in Nat
    BY DEF Divided, Inside, IInv, TypeOK
  <2>2. IsFiniteSet(1 .. clock)
    BY <2>1, FS_Interval
  <2>. QED BY <2>1, <2>2, FS_Subset
<1>6. ASSUME NEW S, draft[t].covers \ base[t].covers \subseteq S, S \subseteq draft[t].covers
      PROVE  Cardinality(S) >= Batch
  <2>1. IsFiniteSet(S)
    BY <1>5, <1>6, FS_Subset
  <2>2. /\ Cardinality(draft[t].covers \ base[t].covers) <= Cardinality(S)
        /\ Cardinality(draft[t].covers \ base[t].covers) \in Nat /\ Cardinality(S) \in Nat
    BY <1>5, <1>6, <2>1, FS_Subset, FS_CardinalityType
  <2>. QED BY <1>4, <2>2, BatchAssumption
<1>7. Cardinality(GistView') >= Batch
  BY <1>2, <1>6
<1>8. SerialView => GistView \subseteq GistView' /\ Cardinality(GistView' \ GistView) >= Batch
  <2> SUFFICES ASSUME SerialView
               PROVE  GistView \subseteq GistView' /\ Cardinality(GistView' \ GistView) >= Batch
    OBVIOUS
  <2>1. CASE summary.live
    <3>1. base[t] = summary /\ base[t].covers \subseteq draft[t].covers
      BY <1>3, <2>1 DEF IInv, HolderAlone, SerialView
    <3>2. GistView' \ GistView = draft[t].covers \ base[t].covers
      BY <1>1, <1>2, <3>1
    <3>. QED BY <1>1, <1>2, <1>4, <3>1, <3>2
  <2>2. CASE ~ summary.live
    <3>1. GistView = {} /\ GistView' \ GistView = GistView'
      BY <1>1, <2>2 DEF Divided, Inside
    <3>. QED BY <1>7, <3>1
  <2>. QED BY <2>1, <2>2
<1>9. SaidView' = SaidView /\ GistView' \subseteq SaidView /\ PendingView' = SaidView \ GistView'
  BY <1>1, <1>2, <1>3
<1>10. /\ GistView' \subseteq SaidView
       /\ PendingView' = SaidView \ GistView'
       /\ \A m \in GistView', n \in PendingView' : m < n
       /\ Condensed!Cardinality(GistView') >= Batch
       /\ SerialView => /\ GistView \subseteq GistView'
                        /\ Condensed!Cardinality(GistView' \ GistView) >= Batch
       /\ SaidView' = SaidView /\ SerialView' = SerialView
  BY <1>2, <1>7, <1>8, <1>9, CondensedCardinality
<1>. QED BY <1>10 DEF Condensed!Condense, SaidView, GistView, PendingView, SerialView

(* A deletion between turns clears the memory. *)
LEMMA DeletionClears ==
  ASSUME IInv', Divided', Regular', SerialView' = SerialView, Delete
  PROVE  Condensed!Clear
<1>1. visible' = {}
  BY DEF Delete
<1>2. SaidView' = {} /\ GistView' = {} /\ PendingView' = {}
  BY <1>1, HalvesNext
<1>. QED BY <1>2 DEF Condensed!Clear, SaidView, GistView, PendingView, SerialView

(* What neither says nor writes nor deletes leaves what has been said and the summary alone. *)
LEMMA OthersLeave ==
  ASSUME IInv, Divided, Regular, [Next]_vars, ~ Delete,
         \A t \in Turn : ~ (EndAppend(t) /\ at[t] = "asking"),
         \A t \in Turn : WriteSummary(t) => summary' = summary
  PROVE  users' \cap visible' = users \cap visible /\ summary' = summary
<1>1. CASE \E t \in Turn : EndAppend(t)
  <2>1. PICK t \in Turn : EndAppend(t) /\ at[t] # "asking"
    BY <1>1
  <2>2. users' = users /\ visible' = visible \cup {stamp[t]} /\ summary' = summary
    BY <2>1 DEF EndAppend, compression
  <2>3. \A m \in users : m < stamp[t]
    BY <2>1 DEF Regular, Divided, Newest, EndAppend
  <2>4. stamp[t] \in Nat
    BY DEF IInv, TypeOK
  <2>5. stamp[t] \notin users
    BY <2>3, <2>4
  <2>. QED BY <2>2, <2>5
<1>2. CASE ~ \E t \in Turn : EndAppend(t)
  <2>1. users' = users /\ visible' = visible /\ summary' = summary
    BY <1>2 DEF Next, vars, messages, compression, LoadSummary, BeginAppend, EndTurn, Acquire, Release, Expire,
           ReadSummary, ListPending, Summarize, WriteSummary, ReadFails, Crash
  <2>. QED BY <2>1
<1>. QED BY <1>1, <1>2

(* Every step is one of CondensedMemory, or is not seen in it. *)
LEMMA StepCondensed ==
  ASSUME IInv, Divided, IInv', Divided', [Next]_vars
  PROVE  [Condensed!MemoryNext]_(Condensed!memoryVars)
<1>1. prone' = prone
  BY DEF Next, vars, LoadSummary, BeginAppend, EndAppend, EndTurn, Acquire, Release, Expire, ReadSummary, ListPending,
         Summarize, WriteSummary, ReadFails, Crash, Delete
<1>2. SerialView' = SerialView /\ Regular' = Regular
  BY <1>1 DEF SerialView, Regular
<1>3. SUFFICES Condensed!MemoryNext \/ UNCHANGED <<SaidView, GistView, PendingView>>
  BY <1>2 DEF Condensed!memoryVars, SaidView, GistView, PendingView, SerialView
<1>4. CASE ~ Regular
  BY <1>2, <1>4 DEF SaidView, GistView, PendingView
<1>5. CASE Regular
  <2>1. CASE \E t \in Turn : EndAppend(t) /\ at[t] = "asking"
    BY <1>2, <1>5, <2>1, AskingSays DEF Condensed!MemoryNext
  <2>2. CASE \E t \in Turn : WriteSummary(t) /\ summary' # summary
    <3>1. PICK t \in Turn : WriteSummary(t) /\ summary' = draft[t]
      BY <2>2 DEF WriteSummary
    <3>. QED BY <1>2, <1>5, <3>1, WritingCondenses DEF Condensed!MemoryNext
  <2>3. CASE Delete
    BY <1>2, <1>5, <2>3, DeletionClears DEF Condensed!MemoryNext
  <2>4. CASE /\ ~ Delete
             /\ ~ \E t \in Turn : EndAppend(t) /\ at[t] = "asking"
             /\ ~ \E t \in Turn : WriteSummary(t) /\ summary' # summary
    <3>1. users' \cap visible' = users \cap visible /\ summary' = summary
      BY <1>5, <2>4, OthersLeave
    <3>2. SaidView = users \cap visible /\ GistView = summary.covers /\ PendingView = (users \cap visible) \ GistView
      BY <1>5, Halves
    <3>3. /\ SaidView' = users' \cap visible'
          /\ GistView' = summary'.covers /\ PendingView' = (users' \cap visible') \ GistView'
      BY <1>2, <1>5, HalvesNext
    <3>. QED BY <3>1, <3>2, <3>3
  <2>. QED BY <2>1, <2>2, <2>3, <2>4
<1>. QED BY <1>4, <1>5

(* What the user has said is in the gist or pending for the next compression, cut at one  *)
(* point, and with the lock that point moves on by batches: for every number of turns and *)
(* every batch.                                                                           *)
THEOREM MemoryRefinement == Spec => ImplementsCondensed
<1>1. Init => Condensed!MemoryInit
  BY DEF Init, Condensed!MemoryInit, NoSummary, After
<1>2. IInv /\ Divided /\ (IInv /\ Divided)' /\ [Next]_vars => [Condensed!MemoryNext]_(Condensed!memoryVars)
  BY StepCondensed
<1>. QED BY <1>1, <1>2, Division, PTL DEF Spec, ImplementsCondensed, Condensed!MemorySpec


=============================================================================
