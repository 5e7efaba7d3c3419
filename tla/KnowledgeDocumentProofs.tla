----------------------- MODULE KnowledgeDocumentProofs ------------------------
(***************************************************************************)
(* The safety properties of KnowledgeDocument for every set of requests,   *)
(* runs, changes and removals and every set of troubles.                   *)
(*                                                                         *)
(* The argument: a document becomes RUNNING once, with one message behind  *)
(* it (Fate); therefore at most one run works on it (Solo), which leaves   *)
(* what is achieved alone (Taken); users who do not overlap stay out of    *)
(* its way (Apart), and so chunks and vectors stay those of one run        *)
(* (Whole) or are gone (Gone).  What a search finds is counted from there. *)
(***************************************************************************)
EXTENDS KnowledgeDocument, FiniteSetTheorems, TLAPS

(* Before the row is inserted nothing has happened. *)
Fresh ==
  status = "none" =>
    /\ ~ live /\ chunks = {} /\ vectors = {} /\ half = {} /\ queue = {}
    /\ \A s \in Request : phase[s] = "idle"
    /\ \A r \in Run : at[r] = "idle"
    /\ \A c \in Change : change[c] = "idle"
    /\ \A d \in Removal : removal[d] = "idle"

(* A change has sources only while it embeds them. *)
SourcesOK == \A c \in Change : change[c] # "embedding" => sources[c] = {}

(* The message that brings a RUNNING document on is there until the work is done. *)
Committed == {s \in Request : phase[s] = "committed"}

Fate ==
  "reply" \notin prone =>
    /\ status = "PENDING" => queue = {} /\ Committed = {} /\ \A r \in Run : at[r] = "idle"
    /\ \A s \in Request : phase[s] \in Up => s \in half
    /\ \A s, u \in queue \cup Committed : s = u
    /\ \A r \in Run : at[r] \in {"persisted", "answering"} \/ (at[r] = "over" /\ r \notin Weak) =>
         ~ (live /\ status = "RUNNING")
    /\ live /\ status = "RUNNING" => queue \cup Committed # {}

(* One run works, on a message that is not acknowledged. *)
Solo ==
  Exclusive =>
    \A r \in Run : at[r] \in Working =>
      /\ serving[r] # {} /\ serving[r] \subseteq queue
      /\ \A q \in Run : at[q] \in Working => q = r

(* What a run works on is still RUNNING. *)
Unfinished == {"found", "logged", "embedded", "dropped", "cut", "failing", "marking"}

Taken ==
  Exclusive /\ "database" \notin prone =>
    \A r \in Run : at[r] \in Unfinished /\ live => status = "RUNNING"

(* Users act one after the other, and not while the document is RUNNING. *)
Changing(c) == change[c] \in {"checked", "embedding"}
Removing(d) == removal[d] \in {"checked", "dropped"}

Apart ==
  /\ \A d \in Removal : removal[d] = "removed" => ~ live /\ status # "none"
  /\ "overlap" \notin prone =>
       /\ \A c \in Change : Changing(c) =>
            /\ live /\ status # "RUNNING"
            /\ \A b \in Change : Changing(b) => b = c
            /\ \A d \in Removal : ~ Removing(d)
       /\ \A d \in Removal : Removing(d) =>
            /\ live /\ status # "RUNNING"
            /\ \A e \in Removal : Removing(e) => e = d

(* A change wants what is not. *)
Wishes == "overlap" \notin prone => \A c \in Change : Changing(c) => wish[c] # enabled

(* A document that is there has chunks of one run at most, and one vector for each. *)
Found == chunks \subseteq shown /\ {v[1] : v \in vectors} = chunks /\ \A v, w \in vectors : v = w

Whole ==
  Exclusive /\ "overlap" \notin prone /\ live =>
    /\ status \in {"PENDING", "RUNNING"} => chunks = {} /\ vectors = {}
    /\ \A g, h \in chunks : g = h
    /\ \A r \in Run :
         /\ at[r] \in {"found", "logged", "embedded", "dropped", "cut"} =>
              chunks \subseteq {r} /\ (status # "RUNNING" => chunks = {r})
         /\ at[r] \in {"dropped", "cut"} => seenChunks[r] = chunks
         /\ at[r] = "cut" => vectors \subseteq seenVectors[r]
    /\ \A c \in Change : change[c] = "embedding" => sources[c] = chunks
    /\ enabled => Found

(* A document that is deleted is gone but for its object, and that goes too. *)
Gone ==
  Regular =>
    /\ \A r \in Run : at[r] \in Unfinished => live
    /\ \A d \in Removal : removal[d] = "dropped" => seenChunks[d] = chunks
    /\ status # "none" /\ ~ live =>
         /\ chunks = {} /\ vectors = {}
         /\ \A r \in Run : log[r] = "none"
         /\ object /\ "storage" \notin prone => \E d \in Removal : removal[d] = "removed"

ObjectOK == live => object

IInv ==
  /\ TypeOK /\ Fresh /\ SourcesOK /\ Fate /\ Solo /\ Taken /\ Apart /\ Wishes /\ Whole /\ Gone
  /\ ObjectOK

-----------------------------------------------------------------------------

(* The invariant holds at first. *)
LEMMA InitInv == Init => IInv
<1> SUFFICES ASSUME Init PROVE IInv
  OBVIOUS
<1> USE DEF Init
<1>1. TypeOK
  BY TroubleAssumption DEF TypeOK
<1>2. Fresh /\ SourcesOK /\ Fate /\ Solo /\ Taken
  BY DEF Fresh, SourcesOK, Fate, Committed, Solo, Taken, Unfinished, Working, Up
<1>3. Apart /\ Wishes /\ Whole /\ Gone /\ ObjectOK
  BY DEF Apart, Wishes, Changing, Removing, Whole, Gone, Unfinished, ObjectOK
<1>. QED BY <1>1, <1>2, <1>3 DEF IInv

(* Some run neither crashes nor meets a failing database. *)
LEMMA StrongRun == \E r \in Run : r \notin Weak
BY RunAssumption

(* Every chunk has a vector and every vector a chunk. *)
LEMMA VectorsMatch ==
  ASSUME NEW V, NEW C, \A g \in C : \E v \in V : v[1] = g, \A v \in V : v[1] \in C
  PROVE  {v[1] : v \in V} = C
OBVIOUS

(* The troubles are chosen once. *)
LEMMA ProneStays == [Next]_vars => prone' = prone
BY DEF Next, RunStep, vars, StoreObject, InsertDocument, SendHalf, LocalTransaction, EndTransaction,
   CheckBack, DeadLetter, Deliver, InsertLog, Embed, DropChunks, DropVectors, Replace, ReplaceFails,
   LogSuccess, Answer, LogFailure, MarkFailed, Crash, CheckChange, ListSources, WriteChange,
   ChangeFails, CheckRemoval, RemoveChunks, Remove, RemoveObject, RemovalFails

(* A step keeps the types. *)
LEMMA TypeStep ==
  ASSUME TypeOK, [Next]_vars
  PROVE  TypeOK'
<1> USE DEF TypeOK, Working, Up, Move, row, content, messages, runs, toggling
<1>1. CASE UNCHANGED vars
  BY <1>1 DEF vars
<1>2. CASE StoreObject
  BY <1>2 DEF StoreObject
<1>3. CASE InsertDocument
  BY <1>3 DEF InsertDocument
<1>4. ASSUME NEW s \in Request, SendHalf(s) PROVE TypeOK'
  BY <1>4 DEF SendHalf
<1>5. ASSUME NEW s \in Request, LocalTransaction(s) PROVE TypeOK'
  BY <1>5 DEF LocalTransaction
<1>6. ASSUME NEW s \in Request, EndTransaction(s) PROVE TypeOK'
  BY <1>6 DEF EndTransaction, Resolve
<1>7. ASSUME NEW s \in Request, CheckBack(s) PROVE TypeOK'
  BY <1>7 DEF CheckBack, Resolve
<1>8. ASSUME NEW s \in Request, DeadLetter(s) PROVE TypeOK'
  BY <1>8 DEF DeadLetter
<1>9. ASSUME NEW s \in Request, NEW r \in Run, Deliver(r, s) PROVE TypeOK'
  BY <1>9 DEF Deliver
<1>10. ASSUME NEW r \in Run, InsertLog(r) PROVE TypeOK'
  BY <1>10 DEF InsertLog
<1>11. ASSUME NEW r \in Run, Embed(r) PROVE TypeOK'
  BY <1>11 DEF Embed
<1>12. ASSUME NEW r \in Run, DropChunks(r) PROVE TypeOK'
  BY <1>12 DEF DropChunks
<1>13. ASSUME NEW r \in Run, DropVectors(r) PROVE TypeOK'
  BY <1>13 DEF DropVectors
<1>14. ASSUME NEW r \in Run, Replace(r) PROVE TypeOK'
  BY <1>14 DEF Replace, Close
<1>15. ASSUME NEW r \in Run, ReplaceFails(r) PROVE TypeOK'
  BY <1>15 DEF ReplaceFails, Close
<1>16. ASSUME NEW r \in Run, LogSuccess(r) PROVE TypeOK'
  BY <1>16 DEF LogSuccess, LogAs
<1>17. ASSUME NEW r \in Run, Answer(r) PROVE TypeOK'
  BY <1>17 DEF Answer
<1>18. ASSUME NEW r \in Run, LogFailure(r) PROVE TypeOK'
  BY <1>18 DEF LogFailure, LogAs
<1>19. ASSUME NEW r \in Run, MarkFailed(r) PROVE TypeOK'
  BY <1>19 DEF MarkFailed
<1>20. ASSUME NEW r \in Run, Crash(r) PROVE TypeOK'
  BY <1>20 DEF Crash, Close
<1>21. ASSUME NEW c \in Change, CheckChange(c) PROVE TypeOK'
  BY <1>21 DEF CheckChange
<1>22. ASSUME NEW c \in Change, ListSources(c) PROVE TypeOK'
  BY <1>22 DEF ListSources
<1>23. ASSUME NEW c \in Change, WriteChange(c) PROVE TypeOK'
  <2>1. \A g \in sources[c] : <<g, c>> \in Run \X (Run \cup Change)
    OBVIOUS
  <2>2. vectors' \subseteq Run \X (Run \cup Change)
    BY <1>23, <2>1 DEF WriteChange
  <2>. QED BY <1>23, <2>2 DEF WriteChange, EndChange
<1>24. ASSUME NEW c \in Change, ChangeFails(c) PROVE TypeOK'
  BY <1>24 DEF ChangeFails, EndChange
<1>25. ASSUME NEW d \in Removal, CheckRemoval(d) PROVE TypeOK'
  BY <1>25 DEF CheckRemoval
<1>26. ASSUME NEW d \in Removal, RemoveChunks(d) PROVE TypeOK'
  BY <1>26, DisjointAssumption DEF RemoveChunks
<1>27. ASSUME NEW d \in Removal, Remove(d) PROVE TypeOK'
  BY <1>27 DEF Remove
<1>28. ASSUME NEW d \in Removal, RemoveObject(d) PROVE TypeOK'
  BY <1>28 DEF RemoveObject
<1>29. ASSUME NEW d \in Removal, RemovalFails(d) PROVE TypeOK'
  BY <1>29 DEF RemovalFails
<1>. QED BY <1>1, <1>2, <1>3, <1>4, <1>5, <1>6, <1>7, <1>8, <1>9, <1>10, <1>11, <1>12, <1>13, <1>14,
          <1>15, <1>16, <1>17, <1>18, <1>19, <1>20, <1>21, <1>22, <1>23, <1>24, <1>25, <1>26, <1>27,
          <1>28, <1>29 DEF Next, RunStep

(* A step keeps Fresh: the first one is the insertion of the row. *)
LEMMA FreshStep ==
  ASSUME TypeOK, Fresh, ObjectOK, [Next]_vars
  PROVE  Fresh'
<1> USE DEF TypeOK, Fresh, Up, Working, Move, row, content, messages, runs, toggling
<1>1. CASE UNCHANGED vars
  BY <1>1 DEF vars
<1>2. CASE StoreObject
  BY <1>2 DEF StoreObject
<1>3. CASE InsertDocument
  BY <1>3 DEF InsertDocument
<1>4. ASSUME NEW s \in Request, SendHalf(s) PROVE Fresh'
  BY <1>4 DEF SendHalf
<1>5. ASSUME NEW s \in Request, LocalTransaction(s) PROVE Fresh'
  BY <1>5 DEF LocalTransaction
<1>6. ASSUME NEW s \in Request, EndTransaction(s) PROVE Fresh'
  BY <1>6 DEF EndTransaction, Resolve
<1>7. ASSUME NEW s \in Request, CheckBack(s) PROVE Fresh'
  BY <1>7 DEF CheckBack, Resolve
<1>8. ASSUME NEW s \in Request, DeadLetter(s) PROVE Fresh'
  BY <1>8 DEF DeadLetter
<1>9. ASSUME NEW s \in Request, NEW r \in Run, Deliver(r, s) PROVE Fresh'
  BY <1>9 DEF Deliver
<1>10. ASSUME NEW r \in Run, InsertLog(r) PROVE Fresh'
  BY <1>10 DEF InsertLog
<1>11. ASSUME NEW r \in Run, Embed(r) PROVE Fresh'
  BY <1>11 DEF Embed
<1>12. ASSUME NEW r \in Run, DropChunks(r) PROVE Fresh'
  BY <1>12 DEF DropChunks
<1>13. ASSUME NEW r \in Run, DropVectors(r) PROVE Fresh'
  BY <1>13 DEF DropVectors
<1>14. ASSUME NEW r \in Run, Replace(r) PROVE Fresh'
  BY <1>14 DEF Replace, Close
<1>15. ASSUME NEW r \in Run, ReplaceFails(r) PROVE Fresh'
  BY <1>15 DEF ReplaceFails, Close
<1>16. ASSUME NEW r \in Run, LogSuccess(r) PROVE Fresh'
  BY <1>16 DEF LogSuccess, LogAs
<1>17. ASSUME NEW r \in Run, Answer(r) PROVE Fresh'
  BY <1>17 DEF Answer
<1>18. ASSUME NEW r \in Run, LogFailure(r) PROVE Fresh'
  BY <1>18 DEF LogFailure, LogAs
<1>19. ASSUME NEW r \in Run, MarkFailed(r) PROVE Fresh'
  BY <1>19 DEF MarkFailed
<1>20. ASSUME NEW r \in Run, Crash(r) PROVE Fresh'
  BY <1>20 DEF Crash, Close
<1>21. ASSUME NEW c \in Change, CheckChange(c) PROVE Fresh'
  BY <1>21 DEF CheckChange
<1>22. ASSUME NEW c \in Change, ListSources(c) PROVE Fresh'
  BY <1>22 DEF ListSources
<1>23. ASSUME NEW c \in Change, WriteChange(c) PROVE Fresh'
  BY <1>23 DEF WriteChange, EndChange
<1>24. ASSUME NEW c \in Change, ChangeFails(c) PROVE Fresh'
  BY <1>24 DEF ChangeFails, EndChange
<1>25. ASSUME NEW d \in Removal, CheckRemoval(d) PROVE Fresh'
  BY <1>25 DEF CheckRemoval
<1>26. ASSUME NEW d \in Removal, RemoveChunks(d) PROVE Fresh'
  BY <1>26 DEF RemoveChunks
<1>27. ASSUME NEW d \in Removal, Remove(d) PROVE Fresh'
  BY <1>27 DEF Remove
<1>28. ASSUME NEW d \in Removal, RemoveObject(d) PROVE Fresh'
  BY <1>28 DEF RemoveObject
<1>29. ASSUME NEW d \in Removal, RemovalFails(d) PROVE Fresh'
  BY <1>29 DEF RemovalFails
<1>. QED BY <1>1, <1>2, <1>3, <1>4, <1>5, <1>6, <1>7, <1>8, <1>9, <1>10, <1>11, <1>12, <1>13, <1>14,
          <1>15, <1>16, <1>17, <1>18, <1>19, <1>20, <1>21, <1>22, <1>23, <1>24, <1>25, <1>26, <1>27,
          <1>28, <1>29 DEF Next, RunStep

(* A step keeps SourcesOK. *)
LEMMA SourcesStep ==
  ASSUME TypeOK, SourcesOK, [Next]_vars
  PROVE  SourcesOK'
<1> USE DEF TypeOK, SourcesOK, Move, row, content, messages, runs, toggling
<1>1. CASE UNCHANGED vars
  BY <1>1 DEF vars
<1>2. CASE StoreObject
  BY <1>2 DEF StoreObject
<1>3. CASE InsertDocument
  BY <1>3 DEF InsertDocument
<1>4. ASSUME NEW s \in Request, SendHalf(s) PROVE SourcesOK'
  BY <1>4 DEF SendHalf
<1>5. ASSUME NEW s \in Request, LocalTransaction(s) PROVE SourcesOK'
  BY <1>5 DEF LocalTransaction
<1>6. ASSUME NEW s \in Request, EndTransaction(s) PROVE SourcesOK'
  BY <1>6 DEF EndTransaction, Resolve
<1>7. ASSUME NEW s \in Request, CheckBack(s) PROVE SourcesOK'
  BY <1>7 DEF CheckBack, Resolve
<1>8. ASSUME NEW s \in Request, DeadLetter(s) PROVE SourcesOK'
  BY <1>8 DEF DeadLetter
<1>9. ASSUME NEW s \in Request, NEW r \in Run, Deliver(r, s) PROVE SourcesOK'
  BY <1>9 DEF Deliver
<1>10. ASSUME NEW r \in Run, InsertLog(r) PROVE SourcesOK'
  BY <1>10 DEF InsertLog
<1>11. ASSUME NEW r \in Run, Embed(r) PROVE SourcesOK'
  BY <1>11 DEF Embed
<1>12. ASSUME NEW r \in Run, DropChunks(r) PROVE SourcesOK'
  BY <1>12 DEF DropChunks
<1>13. ASSUME NEW r \in Run, DropVectors(r) PROVE SourcesOK'
  BY <1>13 DEF DropVectors
<1>14. ASSUME NEW r \in Run, Replace(r) PROVE SourcesOK'
  BY <1>14 DEF Replace, Close
<1>15. ASSUME NEW r \in Run, ReplaceFails(r) PROVE SourcesOK'
  BY <1>15 DEF ReplaceFails, Close
<1>16. ASSUME NEW r \in Run, LogSuccess(r) PROVE SourcesOK'
  BY <1>16 DEF LogSuccess, LogAs
<1>17. ASSUME NEW r \in Run, Answer(r) PROVE SourcesOK'
  BY <1>17 DEF Answer
<1>18. ASSUME NEW r \in Run, LogFailure(r) PROVE SourcesOK'
  BY <1>18 DEF LogFailure, LogAs
<1>19. ASSUME NEW r \in Run, MarkFailed(r) PROVE SourcesOK'
  BY <1>19 DEF MarkFailed
<1>20. ASSUME NEW r \in Run, Crash(r) PROVE SourcesOK'
  BY <1>20 DEF Crash, Close
<1>21. ASSUME NEW c \in Change, CheckChange(c) PROVE SourcesOK'
  BY <1>21 DEF CheckChange
<1>22. ASSUME NEW c \in Change, ListSources(c) PROVE SourcesOK'
  BY <1>22 DEF ListSources
<1>23. ASSUME NEW c \in Change, WriteChange(c) PROVE SourcesOK'
  BY <1>23 DEF WriteChange, EndChange
<1>24. ASSUME NEW c \in Change, ChangeFails(c) PROVE SourcesOK'
  BY <1>24 DEF ChangeFails, EndChange
<1>25. ASSUME NEW d \in Removal, CheckRemoval(d) PROVE SourcesOK'
  BY <1>25 DEF CheckRemoval
<1>26. ASSUME NEW d \in Removal, RemoveChunks(d) PROVE SourcesOK'
  BY <1>26 DEF RemoveChunks
<1>27. ASSUME NEW d \in Removal, Remove(d) PROVE SourcesOK'
  BY <1>27 DEF Remove
<1>28. ASSUME NEW d \in Removal, RemoveObject(d) PROVE SourcesOK'
  BY <1>28 DEF RemoveObject
<1>29. ASSUME NEW d \in Removal, RemovalFails(d) PROVE SourcesOK'
  BY <1>29 DEF RemovalFails
<1>. QED BY <1>1, <1>2, <1>3, <1>4, <1>5, <1>6, <1>7, <1>8, <1>9, <1>10, <1>11, <1>12, <1>13, <1>14,
          <1>15, <1>16, <1>17, <1>18, <1>19, <1>20, <1>21, <1>22, <1>23, <1>24, <1>25, <1>26, <1>27,
          <1>28, <1>29 DEF Next, RunStep

(* A step keeps Fate: a message goes only when a run has ended RUNNING. *)
LEMMA FateStep ==
  ASSUME TypeOK, Fresh, Fate, ObjectOK, [Next]_vars
  PROVE  Fate'
<1> USE DEF TypeOK, Fresh, Fate, Committed, Up, Working, Failing, Move, row, content, messages, runs, toggling
<1>1. CASE UNCHANGED vars
  BY <1>1 DEF vars
<1>2. CASE StoreObject
  BY <1>2 DEF StoreObject
<1>3. CASE InsertDocument
  BY <1>3 DEF InsertDocument
<1>4. ASSUME NEW s \in Request, SendHalf(s) PROVE Fate'
  BY <1>4 DEF SendHalf
<1>5. ASSUME NEW s \in Request, LocalTransaction(s) PROVE Fate'
  BY <1>5 DEF LocalTransaction
<1>6. ASSUME NEW s \in Request, EndTransaction(s) PROVE Fate'
  BY <1>6 DEF EndTransaction, Resolve
<1>7. ASSUME NEW s \in Request, CheckBack(s) PROVE Fate'
  BY <1>7 DEF CheckBack, Resolve
<1>8. ASSUME NEW s \in Request, DeadLetter(s) PROVE Fate'
  <2>1. PICK r \in Run : r \notin Weak
    BY StrongRun
  <2>. QED BY <1>8, <2>1 DEF DeadLetter
<1>9. ASSUME NEW s \in Request, NEW r \in Run, Deliver(r, s) PROVE Fate'
  BY <1>9 DEF Deliver
<1>10. ASSUME NEW r \in Run, InsertLog(r) PROVE Fate'
  BY <1>10 DEF InsertLog
<1>11. ASSUME NEW r \in Run, Embed(r) PROVE Fate'
  BY <1>11 DEF Embed
<1>12. ASSUME NEW r \in Run, DropChunks(r) PROVE Fate'
  BY <1>12 DEF DropChunks
<1>13. ASSUME NEW r \in Run, DropVectors(r) PROVE Fate'
  BY <1>13 DEF DropVectors
<1>14. ASSUME NEW r \in Run, Replace(r) PROVE Fate'
  BY <1>14 DEF Replace, Close
<1>15. ASSUME NEW r \in Run, ReplaceFails(r) PROVE Fate'
  BY <1>15 DEF ReplaceFails, Close
<1>16. ASSUME NEW r \in Run, LogSuccess(r) PROVE Fate'
  BY <1>16 DEF LogSuccess, LogAs
<1>17. ASSUME NEW r \in Run, Answer(r) PROVE Fate'
  BY <1>17 DEF Answer
<1>18. ASSUME NEW r \in Run, LogFailure(r) PROVE Fate'
  BY <1>18 DEF LogFailure, LogAs
<1>19. ASSUME NEW r \in Run, MarkFailed(r) PROVE Fate'
  BY <1>19 DEF MarkFailed
<1>20. ASSUME NEW r \in Run, Crash(r) PROVE Fate'
  BY <1>20 DEF Crash, Close
<1>21. ASSUME NEW c \in Change, CheckChange(c) PROVE Fate'
  BY <1>21 DEF CheckChange
<1>22. ASSUME NEW c \in Change, ListSources(c) PROVE Fate'
  BY <1>22 DEF ListSources
<1>23. ASSUME NEW c \in Change, WriteChange(c) PROVE Fate'
  BY <1>23 DEF WriteChange, EndChange
<1>24. ASSUME NEW c \in Change, ChangeFails(c) PROVE Fate'
  BY <1>24 DEF ChangeFails, EndChange
<1>25. ASSUME NEW d \in Removal, CheckRemoval(d) PROVE Fate'
  BY <1>25 DEF CheckRemoval
<1>26. ASSUME NEW d \in Removal, RemoveChunks(d) PROVE Fate'
  BY <1>26 DEF RemoveChunks
<1>27. ASSUME NEW d \in Removal, Remove(d) PROVE Fate'
  BY <1>27 DEF Remove
<1>28. ASSUME NEW d \in Removal, RemoveObject(d) PROVE Fate'
  BY <1>28 DEF RemoveObject
<1>29. ASSUME NEW d \in Removal, RemovalFails(d) PROVE Fate'
  BY <1>29 DEF RemovalFails
<1>. QED BY <1>1, <1>2, <1>3, <1>4, <1>5, <1>6, <1>7, <1>8, <1>9, <1>10, <1>11, <1>12, <1>13, <1>14,
          <1>15, <1>16, <1>17, <1>18, <1>19, <1>20, <1>21, <1>22, <1>23, <1>24, <1>25, <1>26, <1>27,
          <1>28, <1>29 DEF Next, RunStep

(* A step keeps Solo: a message that is worked on is not delivered. *)
LEMMA SoloStep ==
  ASSUME TypeOK, Fate, Solo, [Next]_vars
  PROVE  Solo'
<1> USE DEF TypeOK, Fate, Committed, Solo, Exclusive, Working, Move, row, content, messages, runs, toggling
<1>1. CASE UNCHANGED vars
  BY <1>1 DEF vars
<1>2. CASE StoreObject
  BY <1>2 DEF StoreObject
<1>3. CASE InsertDocument
  BY <1>3 DEF InsertDocument
<1>4. ASSUME NEW s \in Request, SendHalf(s) PROVE Solo'
  BY <1>4 DEF SendHalf
<1>5. ASSUME NEW s \in Request, LocalTransaction(s) PROVE Solo'
  BY <1>5 DEF LocalTransaction
<1>6. ASSUME NEW s \in Request, EndTransaction(s) PROVE Solo'
  BY <1>6 DEF EndTransaction, Resolve
<1>7. ASSUME NEW s \in Request, CheckBack(s) PROVE Solo'
  BY <1>7 DEF CheckBack, Resolve
<1>8. ASSUME NEW s \in Request, DeadLetter(s) PROVE Solo'
  BY <1>8 DEF DeadLetter
<1>9. ASSUME NEW s \in Request, NEW r \in Run, Deliver(r, s) PROVE Solo'
  BY <1>9 DEF Deliver
<1>10. ASSUME NEW r \in Run, InsertLog(r) PROVE Solo'
  BY <1>10 DEF InsertLog
<1>11. ASSUME NEW r \in Run, Embed(r) PROVE Solo'
  BY <1>11 DEF Embed
<1>12. ASSUME NEW r \in Run, DropChunks(r) PROVE Solo'
  BY <1>12 DEF DropChunks
<1>13. ASSUME NEW r \in Run, DropVectors(r) PROVE Solo'
  BY <1>13 DEF DropVectors
<1>14. ASSUME NEW r \in Run, Replace(r) PROVE Solo'
  BY <1>14 DEF Replace, Close
<1>15. ASSUME NEW r \in Run, ReplaceFails(r) PROVE Solo'
  BY <1>15 DEF ReplaceFails, Close
<1>16. ASSUME NEW r \in Run, LogSuccess(r) PROVE Solo'
  BY <1>16 DEF LogSuccess, LogAs
<1>17. ASSUME NEW r \in Run, Answer(r) PROVE Solo'
  BY <1>17 DEF Answer
<1>18. ASSUME NEW r \in Run, LogFailure(r) PROVE Solo'
  BY <1>18 DEF LogFailure, LogAs
<1>19. ASSUME NEW r \in Run, MarkFailed(r) PROVE Solo'
  BY <1>19 DEF MarkFailed
<1>20. ASSUME NEW r \in Run, Crash(r) PROVE Solo'
  BY <1>20 DEF Crash, Close
<1>21. ASSUME NEW c \in Change, CheckChange(c) PROVE Solo'
  BY <1>21 DEF CheckChange
<1>22. ASSUME NEW c \in Change, ListSources(c) PROVE Solo'
  BY <1>22 DEF ListSources
<1>23. ASSUME NEW c \in Change, WriteChange(c) PROVE Solo'
  BY <1>23 DEF WriteChange, EndChange
<1>24. ASSUME NEW c \in Change, ChangeFails(c) PROVE Solo'
  BY <1>24 DEF ChangeFails, EndChange
<1>25. ASSUME NEW d \in Removal, CheckRemoval(d) PROVE Solo'
  BY <1>25 DEF CheckRemoval
<1>26. ASSUME NEW d \in Removal, RemoveChunks(d) PROVE Solo'
  BY <1>26 DEF RemoveChunks
<1>27. ASSUME NEW d \in Removal, Remove(d) PROVE Solo'
  BY <1>27 DEF Remove
<1>28. ASSUME NEW d \in Removal, RemoveObject(d) PROVE Solo'
  BY <1>28 DEF RemoveObject
<1>29. ASSUME NEW d \in Removal, RemovalFails(d) PROVE Solo'
  BY <1>29 DEF RemovalFails
<1>. QED BY <1>1, <1>2, <1>3, <1>4, <1>5, <1>6, <1>7, <1>8, <1>9, <1>10, <1>11, <1>12, <1>13, <1>14,
          <1>15, <1>16, <1>17, <1>18, <1>19, <1>20, <1>21, <1>22, <1>23, <1>24, <1>25, <1>26, <1>27,
          <1>28, <1>29 DEF Next, RunStep

(* A step keeps Taken: nobody else ends RUNNING. *)
LEMMA TakenStep ==
  ASSUME TypeOK, Fresh, Fate, Solo, Taken, [Next]_vars
  PROVE  Taken'
<1> USE DEF TypeOK, Fresh, Fate, Solo, Taken, Unfinished, Exclusive, Working, Failing, Move, row, content, messages, runs, toggling
<1>1. CASE UNCHANGED vars
  BY <1>1 DEF vars
<1>2. CASE StoreObject
  BY <1>2 DEF StoreObject
<1>3. CASE InsertDocument
  BY <1>3 DEF InsertDocument
<1>4. ASSUME NEW s \in Request, SendHalf(s) PROVE Taken'
  BY <1>4 DEF SendHalf
<1>5. ASSUME NEW s \in Request, LocalTransaction(s) PROVE Taken'
  BY <1>5 DEF LocalTransaction
<1>6. ASSUME NEW s \in Request, EndTransaction(s) PROVE Taken'
  BY <1>6 DEF EndTransaction, Resolve
<1>7. ASSUME NEW s \in Request, CheckBack(s) PROVE Taken'
  BY <1>7 DEF CheckBack, Resolve
<1>8. ASSUME NEW s \in Request, DeadLetter(s) PROVE Taken'
  BY <1>8 DEF DeadLetter
<1>9. ASSUME NEW s \in Request, NEW r \in Run, Deliver(r, s) PROVE Taken'
  BY <1>9 DEF Deliver
<1>10. ASSUME NEW r \in Run, InsertLog(r) PROVE Taken'
  BY <1>10 DEF InsertLog
<1>11. ASSUME NEW r \in Run, Embed(r) PROVE Taken'
  BY <1>11 DEF Embed
<1>12. ASSUME NEW r \in Run, DropChunks(r) PROVE Taken'
  BY <1>12 DEF DropChunks
<1>13. ASSUME NEW r \in Run, DropVectors(r) PROVE Taken'
  BY <1>13 DEF DropVectors
<1>14. ASSUME NEW r \in Run, Replace(r) PROVE Taken'
  BY <1>14 DEF Replace, Close
<1>15. ASSUME NEW r \in Run, ReplaceFails(r) PROVE Taken'
  BY <1>15 DEF ReplaceFails, Close
<1>16. ASSUME NEW r \in Run, LogSuccess(r) PROVE Taken'
  BY <1>16 DEF LogSuccess, LogAs
<1>17. ASSUME NEW r \in Run, Answer(r) PROVE Taken'
  BY <1>17 DEF Answer
<1>18. ASSUME NEW r \in Run, LogFailure(r) PROVE Taken'
  BY <1>18 DEF LogFailure, LogAs
<1>19. ASSUME NEW r \in Run, MarkFailed(r) PROVE Taken'
  BY <1>19 DEF MarkFailed
<1>20. ASSUME NEW r \in Run, Crash(r) PROVE Taken'
  BY <1>20 DEF Crash, Close
<1>21. ASSUME NEW c \in Change, CheckChange(c) PROVE Taken'
  BY <1>21 DEF CheckChange
<1>22. ASSUME NEW c \in Change, ListSources(c) PROVE Taken'
  BY <1>22 DEF ListSources
<1>23. ASSUME NEW c \in Change, WriteChange(c) PROVE Taken'
  BY <1>23 DEF WriteChange, EndChange
<1>24. ASSUME NEW c \in Change, ChangeFails(c) PROVE Taken'
  BY <1>24 DEF ChangeFails, EndChange
<1>25. ASSUME NEW d \in Removal, CheckRemoval(d) PROVE Taken'
  BY <1>25 DEF CheckRemoval
<1>26. ASSUME NEW d \in Removal, RemoveChunks(d) PROVE Taken'
  BY <1>26 DEF RemoveChunks
<1>27. ASSUME NEW d \in Removal, Remove(d) PROVE Taken'
  BY <1>27 DEF Remove
<1>28. ASSUME NEW d \in Removal, RemoveObject(d) PROVE Taken'
  BY <1>28 DEF RemoveObject
<1>29. ASSUME NEW d \in Removal, RemovalFails(d) PROVE Taken'
  BY <1>29 DEF RemovalFails
<1>. QED BY <1>1, <1>2, <1>3, <1>4, <1>5, <1>6, <1>7, <1>8, <1>9, <1>10, <1>11, <1>12, <1>13, <1>14,
          <1>15, <1>16, <1>17, <1>18, <1>19, <1>20, <1>21, <1>22, <1>23, <1>24, <1>25, <1>26, <1>27,
          <1>28, <1>29 DEF Next, RunStep

(* A step keeps Apart. *)
LEMMA ApartStep ==
  ASSUME TypeOK, Fresh, Apart, ObjectOK, [Next]_vars
  PROVE  Apart'
<1> USE DEF TypeOK, Fresh, Apart, Changing, Removing, Alone, Move, row, content, messages, runs, toggling
<1>1. CASE UNCHANGED vars
  BY <1>1 DEF vars
<1>2. CASE StoreObject
  BY <1>2 DEF StoreObject
<1>3. CASE InsertDocument
  BY <1>3 DEF InsertDocument
<1>4. ASSUME NEW s \in Request, SendHalf(s) PROVE Apart'
  BY <1>4 DEF SendHalf
<1>5. ASSUME NEW s \in Request, LocalTransaction(s) PROVE Apart'
  BY <1>5 DEF LocalTransaction
<1>6. ASSUME NEW s \in Request, EndTransaction(s) PROVE Apart'
  BY <1>6 DEF EndTransaction, Resolve
<1>7. ASSUME NEW s \in Request, CheckBack(s) PROVE Apart'
  BY <1>7 DEF CheckBack, Resolve
<1>8. ASSUME NEW s \in Request, DeadLetter(s) PROVE Apart'
  BY <1>8 DEF DeadLetter
<1>9. ASSUME NEW s \in Request, NEW r \in Run, Deliver(r, s) PROVE Apart'
  BY <1>9 DEF Deliver
<1>10. ASSUME NEW r \in Run, InsertLog(r) PROVE Apart'
  BY <1>10 DEF InsertLog
<1>11. ASSUME NEW r \in Run, Embed(r) PROVE Apart'
  BY <1>11 DEF Embed
<1>12. ASSUME NEW r \in Run, DropChunks(r) PROVE Apart'
  BY <1>12 DEF DropChunks
<1>13. ASSUME NEW r \in Run, DropVectors(r) PROVE Apart'
  BY <1>13 DEF DropVectors
<1>14. ASSUME NEW r \in Run, Replace(r) PROVE Apart'
  BY <1>14 DEF Replace, Close
<1>15. ASSUME NEW r \in Run, ReplaceFails(r) PROVE Apart'
  BY <1>15 DEF ReplaceFails, Close
<1>16. ASSUME NEW r \in Run, LogSuccess(r) PROVE Apart'
  BY <1>16 DEF LogSuccess, LogAs
<1>17. ASSUME NEW r \in Run, Answer(r) PROVE Apart'
  BY <1>17 DEF Answer
<1>18. ASSUME NEW r \in Run, LogFailure(r) PROVE Apart'
  BY <1>18 DEF LogFailure, LogAs
<1>19. ASSUME NEW r \in Run, MarkFailed(r) PROVE Apart'
  BY <1>19 DEF MarkFailed
<1>20. ASSUME NEW r \in Run, Crash(r) PROVE Apart'
  BY <1>20 DEF Crash, Close
<1>21. ASSUME NEW c \in Change, CheckChange(c) PROVE Apart'
  BY <1>21 DEF CheckChange
<1>22. ASSUME NEW c \in Change, ListSources(c) PROVE Apart'
  BY <1>22 DEF ListSources
<1>23. ASSUME NEW c \in Change, WriteChange(c) PROVE Apart'
  BY <1>23 DEF WriteChange, EndChange
<1>24. ASSUME NEW c \in Change, ChangeFails(c) PROVE Apart'
  BY <1>24 DEF ChangeFails, EndChange
<1>25. ASSUME NEW d \in Removal, CheckRemoval(d) PROVE Apart'
  BY <1>25 DEF CheckRemoval
<1>26. ASSUME NEW d \in Removal, RemoveChunks(d) PROVE Apart'
  BY <1>26 DEF RemoveChunks
<1>27. ASSUME NEW d \in Removal, Remove(d) PROVE Apart'
  BY <1>27 DEF Remove
<1>28. ASSUME NEW d \in Removal, RemoveObject(d) PROVE Apart'
  BY <1>28 DEF RemoveObject
<1>29. ASSUME NEW d \in Removal, RemovalFails(d) PROVE Apart'
  BY <1>29 DEF RemovalFails
<1>. QED BY <1>1, <1>2, <1>3, <1>4, <1>5, <1>6, <1>7, <1>8, <1>9, <1>10, <1>11, <1>12, <1>13, <1>14,
          <1>15, <1>16, <1>17, <1>18, <1>19, <1>20, <1>21, <1>22, <1>23, <1>24, <1>25, <1>26, <1>27,
          <1>28, <1>29 DEF Next, RunStep

(* A step keeps Wishes: nobody else changes the state in between. *)
LEMMA WishesStep ==
  ASSUME TypeOK, Fresh, Apart, Wishes, [Next]_vars
  PROVE  Wishes'
<1> USE DEF TypeOK, Fresh, Apart, Wishes, Changing, Removing, Alone, Move, row, content, messages, runs, toggling
<1>1. CASE UNCHANGED vars
  BY <1>1 DEF vars
<1>2. CASE StoreObject
  BY <1>2 DEF StoreObject
<1>3. CASE InsertDocument
  BY <1>3 DEF InsertDocument
<1>4. ASSUME NEW s \in Request, SendHalf(s) PROVE Wishes'
  BY <1>4 DEF SendHalf
<1>5. ASSUME NEW s \in Request, LocalTransaction(s) PROVE Wishes'
  BY <1>5 DEF LocalTransaction
<1>6. ASSUME NEW s \in Request, EndTransaction(s) PROVE Wishes'
  BY <1>6 DEF EndTransaction, Resolve
<1>7. ASSUME NEW s \in Request, CheckBack(s) PROVE Wishes'
  BY <1>7 DEF CheckBack, Resolve
<1>8. ASSUME NEW s \in Request, DeadLetter(s) PROVE Wishes'
  BY <1>8 DEF DeadLetter
<1>9. ASSUME NEW s \in Request, NEW r \in Run, Deliver(r, s) PROVE Wishes'
  BY <1>9 DEF Deliver
<1>10. ASSUME NEW r \in Run, InsertLog(r) PROVE Wishes'
  BY <1>10 DEF InsertLog
<1>11. ASSUME NEW r \in Run, Embed(r) PROVE Wishes'
  BY <1>11 DEF Embed
<1>12. ASSUME NEW r \in Run, DropChunks(r) PROVE Wishes'
  BY <1>12 DEF DropChunks
<1>13. ASSUME NEW r \in Run, DropVectors(r) PROVE Wishes'
  BY <1>13 DEF DropVectors
<1>14. ASSUME NEW r \in Run, Replace(r) PROVE Wishes'
  BY <1>14 DEF Replace, Close
<1>15. ASSUME NEW r \in Run, ReplaceFails(r) PROVE Wishes'
  BY <1>15 DEF ReplaceFails, Close
<1>16. ASSUME NEW r \in Run, LogSuccess(r) PROVE Wishes'
  BY <1>16 DEF LogSuccess, LogAs
<1>17. ASSUME NEW r \in Run, Answer(r) PROVE Wishes'
  BY <1>17 DEF Answer
<1>18. ASSUME NEW r \in Run, LogFailure(r) PROVE Wishes'
  BY <1>18 DEF LogFailure, LogAs
<1>19. ASSUME NEW r \in Run, MarkFailed(r) PROVE Wishes'
  BY <1>19 DEF MarkFailed
<1>20. ASSUME NEW r \in Run, Crash(r) PROVE Wishes'
  BY <1>20 DEF Crash, Close
<1>21. ASSUME NEW c \in Change, CheckChange(c) PROVE Wishes'
  BY <1>21 DEF CheckChange
<1>22. ASSUME NEW c \in Change, ListSources(c) PROVE Wishes'
  BY <1>22 DEF ListSources
<1>23. ASSUME NEW c \in Change, WriteChange(c) PROVE Wishes'
  BY <1>23 DEF WriteChange, EndChange
<1>24. ASSUME NEW c \in Change, ChangeFails(c) PROVE Wishes'
  BY <1>24 DEF ChangeFails, EndChange
<1>25. ASSUME NEW d \in Removal, CheckRemoval(d) PROVE Wishes'
  BY <1>25 DEF CheckRemoval
<1>26. ASSUME NEW d \in Removal, RemoveChunks(d) PROVE Wishes'
  BY <1>26 DEF RemoveChunks
<1>27. ASSUME NEW d \in Removal, Remove(d) PROVE Wishes'
  BY <1>27 DEF Remove
<1>28. ASSUME NEW d \in Removal, RemoveObject(d) PROVE Wishes'
  BY <1>28 DEF RemoveObject
<1>29. ASSUME NEW d \in Removal, RemovalFails(d) PROVE Wishes'
  BY <1>29 DEF RemovalFails
<1>. QED BY <1>1, <1>2, <1>3, <1>4, <1>5, <1>6, <1>7, <1>8, <1>9, <1>10, <1>11, <1>12, <1>13, <1>14,
          <1>15, <1>16, <1>17, <1>18, <1>19, <1>20, <1>21, <1>22, <1>23, <1>24, <1>25, <1>26, <1>27,
          <1>28, <1>29 DEF Next, RunStep

(* A step keeps Whole: no change is written into a run's transaction. *)
LEMMA WholeStep ==
  ASSUME TypeOK, Fresh, SourcesOK, Fate, Solo, Apart, Whole, [Next]_vars
  PROVE  Whole'
<1> USE DEF TypeOK, Fresh, SourcesOK, Solo, Apart, Changing, Removing, Whole, Found, Exclusive, Working, Move, row, content, messages, runs, toggling
<1>1. CASE UNCHANGED vars
  BY <1>1 DEF vars
<1>2. CASE StoreObject
  BY <1>2 DEF StoreObject
<1>3. CASE InsertDocument
  BY <1>3 DEF InsertDocument
<1>4. ASSUME NEW s \in Request, SendHalf(s) PROVE Whole'
  BY <1>4 DEF SendHalf
<1>5. ASSUME NEW s \in Request, LocalTransaction(s) PROVE Whole'
  BY <1>5 DEF LocalTransaction
<1>6. ASSUME NEW s \in Request, EndTransaction(s) PROVE Whole'
  BY <1>6 DEF EndTransaction, Resolve
<1>7. ASSUME NEW s \in Request, CheckBack(s) PROVE Whole'
  BY <1>7 DEF CheckBack, Resolve
<1>8. ASSUME NEW s \in Request, DeadLetter(s) PROVE Whole'
  BY <1>8 DEF DeadLetter
<1>9. ASSUME NEW s \in Request, NEW r \in Run, Deliver(r, s) PROVE Whole'
  BY <1>9 DEF Deliver
<1>10. ASSUME NEW r \in Run, InsertLog(r) PROVE Whole'
  BY <1>10 DEF InsertLog
<1>11. ASSUME NEW r \in Run, Embed(r) PROVE Whole'
  BY <1>11 DEF Embed
<1>12. ASSUME NEW r \in Run, DropChunks(r) PROVE Whole'
  BY <1>12 DEF DropChunks
<1>13. ASSUME NEW r \in Run, DropVectors(r) PROVE Whole'
  BY <1>13 DEF DropVectors
<1>14. ASSUME NEW r \in Run, Replace(r) PROVE Whole'
  <2>1. SUFFICES ASSUME Exclusive, "overlap" \notin prone, live PROVE Whole'
    BY <1>14 DEF Replace, Exclusive
  <2>2. chunks \subseteq {r} /\ seenChunks[r] = chunks /\ vectors \subseteq seenVectors[r]
    BY <1>14, <2>1 DEF Replace
  <2>3. chunks' = {r} /\ r \in shown' /\ vectors' = {<<r, r>>} /\ status' = "SUCCESS" /\ live'
    BY <1>14, <2>1, <2>2 DEF Replace
  <2>4. \A q \in Run : at'[q] \in Working => q = r
    BY <1>14, <2>1 DEF Replace
  <2>5. at'[r] \notin {"dropped", "cut"}
    BY <1>14 DEF Replace
  <2>6. \A c \in Change : change'[c] = "embedding" => sources'[c] = chunks'
    <3>1. SUFFICES ASSUME NEW c \in Change, change[c] = "embedding" PROVE sources[c] = chunks'
      BY <1>14 DEF Replace
    <3>2. sources[c] = chunks /\ status # "RUNNING" /\ status # "PENDING"
      BY <1>14, <2>1, <3>1 DEF Replace, Fate
    <3>3. chunks = {r}
      BY <1>14, <2>1, <2>2, <3>2 DEF Replace
    <3>. QED BY <2>3, <3>2, <3>3
  <2>7. Found'
    BY <2>3
  <2>. QED BY <2>3, <2>4, <2>5, <2>6, <2>7
<1>15. ASSUME NEW r \in Run, ReplaceFails(r) PROVE Whole'
  BY <1>15 DEF ReplaceFails, Close
<1>16. ASSUME NEW r \in Run, LogSuccess(r) PROVE Whole'
  BY <1>16 DEF LogSuccess, LogAs
<1>17. ASSUME NEW r \in Run, Answer(r) PROVE Whole'
  BY <1>17 DEF Answer
<1>18. ASSUME NEW r \in Run, LogFailure(r) PROVE Whole'
  BY <1>18 DEF LogFailure, LogAs
<1>19. ASSUME NEW r \in Run, MarkFailed(r) PROVE Whole'
  BY <1>19 DEF MarkFailed
<1>20. ASSUME NEW r \in Run, Crash(r) PROVE Whole'
  BY <1>20 DEF Crash, Close
<1>21. ASSUME NEW c \in Change, CheckChange(c) PROVE Whole'
  BY <1>21 DEF CheckChange
<1>22. ASSUME NEW c \in Change, ListSources(c) PROVE Whole'
  BY <1>22 DEF ListSources
<1>23. ASSUME NEW c \in Change, WriteChange(c) PROVE Whole'
  <2>1. SUFFICES ASSUME Exclusive, "overlap" \notin prone, live PROVE Whole'
    BY <1>23 DEF WriteChange, Exclusive
  <2>2. Changing(c) /\ status # "RUNNING"
    BY <1>23, <2>1 DEF WriteChange
  <2>3. \A b \in Change : change'[b] # "embedding"
    BY <1>23, <2>1, <2>2 DEF WriteChange, EndChange
  <2>4. chunks = {} => vectors' = {}
    BY <1>23, <2>1 DEF WriteChange
  <2>5. \A r \in Run : at[r] = "cut" => chunks = {}
    BY <1>23, <2>1 DEF WriteChange, Locked
  <2>6. enabled' => Found'
    <3>1. SUFFICES ASSUME enabled' PROVE Found'
      OBVIOUS
    <3>2. wish[c] /\ change[c] = "embedding" /\ sources[c] = chunks
      BY <1>23, <2>1, <3>1 DEF WriteChange
    <3>3. shown' = chunks /\ chunks' = chunks /\ vectors' = {<<g, c>> : g \in chunks}
      BY <1>23, <3>2 DEF WriteChange
    <3>4. {v[1] : v \in vectors'} = chunks
      <4>1. \A g \in chunks : <<g, c>> \in vectors' /\ <<g, c>>[1] = g
        BY <3>3
      <4>2. \A v \in vectors' : v[1] \in chunks
        BY <3>3
      <4>3. \A g \in chunks : \E v \in vectors' : v[1] = g
        BY <4>1, Zenon
      <4> HIDE DEF Found, Whole
      <4>. QED BY <4>2, <4>3, VectorsMatch, Zenon
    <3>5. \A v, w \in vectors' : v = w
      BY <2>1, <3>3
    <3>. QED BY <3>3, <3>4, <3>5
  <2>. QED BY <1>23, <2>1, <2>3, <2>4, <2>5, <2>6 DEF WriteChange
<1>24. ASSUME NEW c \in Change, ChangeFails(c) PROVE Whole'
  BY <1>24 DEF ChangeFails, EndChange
<1>25. ASSUME NEW d \in Removal, CheckRemoval(d) PROVE Whole'
  BY <1>25 DEF CheckRemoval
<1>26. ASSUME NEW d \in Removal, RemoveChunks(d) PROVE Whole'
  BY <1>26 DEF RemoveChunks
<1>27. ASSUME NEW d \in Removal, Remove(d) PROVE Whole'
  BY <1>27 DEF Remove
<1>28. ASSUME NEW d \in Removal, RemoveObject(d) PROVE Whole'
  BY <1>28 DEF RemoveObject
<1>29. ASSUME NEW d \in Removal, RemovalFails(d) PROVE Whole'
  BY <1>29, DisjointAssumption DEF RemovalFails
<1>. QED BY <1>1, <1>2, <1>3, <1>4, <1>5, <1>6, <1>7, <1>8, <1>9, <1>10, <1>11, <1>12, <1>13, <1>14,
          <1>15, <1>16, <1>17, <1>18, <1>19, <1>20, <1>21, <1>22, <1>23, <1>24, <1>25, <1>26, <1>27,
          <1>28, <1>29 DEF Next, RunStep

(* A step keeps Gone: no run is at work while a document is deleted. *)
LEMMA GoneStep ==
  ASSUME TypeOK, Fresh, Fate, Solo, Taken, Apart, Gone, [Next]_vars
  PROVE  Gone'
<1> USE DEF TypeOK, Fresh, Solo, Taken, Apart, Changing, Removing, Gone, Unfinished, Exclusive, Regular, Working, Failing, Move, row, content, messages, runs, toggling
<1>1. CASE UNCHANGED vars
  BY <1>1 DEF vars
<1>2. CASE StoreObject
  BY <1>2 DEF StoreObject
<1>3. CASE InsertDocument
  BY <1>3 DEF InsertDocument
<1>4. ASSUME NEW s \in Request, SendHalf(s) PROVE Gone'
  BY <1>4 DEF SendHalf
<1>5. ASSUME NEW s \in Request, LocalTransaction(s) PROVE Gone'
  BY <1>5 DEF LocalTransaction
<1>6. ASSUME NEW s \in Request, EndTransaction(s) PROVE Gone'
  BY <1>6 DEF EndTransaction, Resolve
<1>7. ASSUME NEW s \in Request, CheckBack(s) PROVE Gone'
  BY <1>7 DEF CheckBack, Resolve
<1>8. ASSUME NEW s \in Request, DeadLetter(s) PROVE Gone'
  BY <1>8 DEF DeadLetter
<1>9. ASSUME NEW s \in Request, NEW r \in Run, Deliver(r, s) PROVE Gone'
  BY <1>9 DEF Deliver
<1>10. ASSUME NEW r \in Run, InsertLog(r) PROVE Gone'
  BY <1>10 DEF InsertLog
<1>11. ASSUME NEW r \in Run, Embed(r) PROVE Gone'
  BY <1>11 DEF Embed
<1>12. ASSUME NEW r \in Run, DropChunks(r) PROVE Gone'
  BY <1>12 DEF DropChunks
<1>13. ASSUME NEW r \in Run, DropVectors(r) PROVE Gone'
  BY <1>13 DEF DropVectors
<1>14. ASSUME NEW r \in Run, Replace(r) PROVE Gone'
  BY <1>14 DEF Replace, Close
<1>15. ASSUME NEW r \in Run, ReplaceFails(r) PROVE Gone'
  BY <1>15 DEF ReplaceFails, Close
<1>16. ASSUME NEW r \in Run, LogSuccess(r) PROVE Gone'
  BY <1>16 DEF LogSuccess, LogAs
<1>17. ASSUME NEW r \in Run, Answer(r) PROVE Gone'
  BY <1>17 DEF Answer
<1>18. ASSUME NEW r \in Run, LogFailure(r) PROVE Gone'
  BY <1>18 DEF LogFailure, LogAs
<1>19. ASSUME NEW r \in Run, MarkFailed(r) PROVE Gone'
  BY <1>19 DEF MarkFailed
<1>20. ASSUME NEW r \in Run, Crash(r) PROVE Gone'
  BY <1>20 DEF Crash, Close
<1>21. ASSUME NEW c \in Change, CheckChange(c) PROVE Gone'
  BY <1>21 DEF CheckChange
<1>22. ASSUME NEW c \in Change, ListSources(c) PROVE Gone'
  BY <1>22 DEF ListSources
<1>23. ASSUME NEW c \in Change, WriteChange(c) PROVE Gone'
  BY <1>23 DEF WriteChange, EndChange
<1>24. ASSUME NEW c \in Change, ChangeFails(c) PROVE Gone'
  BY <1>24 DEF ChangeFails, EndChange
<1>25. ASSUME NEW d \in Removal, CheckRemoval(d) PROVE Gone'
  BY <1>25 DEF CheckRemoval
<1>26. ASSUME NEW d \in Removal, RemoveChunks(d) PROVE Gone'
  BY <1>26 DEF RemoveChunks
<1>27. ASSUME NEW d \in Removal, Remove(d) PROVE Gone'
  BY <1>27 DEF Remove
<1>28. ASSUME NEW d \in Removal, RemoveObject(d) PROVE Gone'
  <2>1. "storage" \notin prone => ~ object'
    BY <1>28 DEF RemoveObject
  <2>. QED BY <1>28, <2>1 DEF RemoveObject
<1>29. ASSUME NEW d \in Removal, RemovalFails(d) PROVE Gone'
  BY <1>29 DEF RemovalFails
<1>. QED BY <1>1, <1>2, <1>3, <1>4, <1>5, <1>6, <1>7, <1>8, <1>9, <1>10, <1>11, <1>12, <1>13, <1>14,
          <1>15, <1>16, <1>17, <1>18, <1>19, <1>20, <1>21, <1>22, <1>23, <1>24, <1>25, <1>26, <1>27,
          <1>28, <1>29 DEF Next, RunStep

(* A step keeps the object of a document that is there. *)
LEMMA ObjectStep ==
  ASSUME TypeOK, Fresh, Apart, ObjectOK, [Next]_vars
  PROVE  ObjectOK'
<1> USE DEF TypeOK, Fresh, Apart, ObjectOK, Move, row, content, messages, runs, toggling
<1>1. CASE UNCHANGED vars
  BY <1>1 DEF vars
<1>2. CASE StoreObject
  BY <1>2 DEF StoreObject
<1>3. CASE InsertDocument
  BY <1>3 DEF InsertDocument
<1>4. ASSUME NEW s \in Request, SendHalf(s) PROVE ObjectOK'
  BY <1>4 DEF SendHalf
<1>5. ASSUME NEW s \in Request, LocalTransaction(s) PROVE ObjectOK'
  BY <1>5 DEF LocalTransaction
<1>6. ASSUME NEW s \in Request, EndTransaction(s) PROVE ObjectOK'
  BY <1>6 DEF EndTransaction, Resolve
<1>7. ASSUME NEW s \in Request, CheckBack(s) PROVE ObjectOK'
  BY <1>7 DEF CheckBack, Resolve
<1>8. ASSUME NEW s \in Request, DeadLetter(s) PROVE ObjectOK'
  BY <1>8 DEF DeadLetter
<1>9. ASSUME NEW s \in Request, NEW r \in Run, Deliver(r, s) PROVE ObjectOK'
  BY <1>9 DEF Deliver
<1>10. ASSUME NEW r \in Run, InsertLog(r) PROVE ObjectOK'
  BY <1>10 DEF InsertLog
<1>11. ASSUME NEW r \in Run, Embed(r) PROVE ObjectOK'
  BY <1>11 DEF Embed
<1>12. ASSUME NEW r \in Run, DropChunks(r) PROVE ObjectOK'
  BY <1>12 DEF DropChunks
<1>13. ASSUME NEW r \in Run, DropVectors(r) PROVE ObjectOK'
  BY <1>13 DEF DropVectors
<1>14. ASSUME NEW r \in Run, Replace(r) PROVE ObjectOK'
  BY <1>14 DEF Replace, Close
<1>15. ASSUME NEW r \in Run, ReplaceFails(r) PROVE ObjectOK'
  BY <1>15 DEF ReplaceFails, Close
<1>16. ASSUME NEW r \in Run, LogSuccess(r) PROVE ObjectOK'
  BY <1>16 DEF LogSuccess, LogAs
<1>17. ASSUME NEW r \in Run, Answer(r) PROVE ObjectOK'
  BY <1>17 DEF Answer
<1>18. ASSUME NEW r \in Run, LogFailure(r) PROVE ObjectOK'
  BY <1>18 DEF LogFailure, LogAs
<1>19. ASSUME NEW r \in Run, MarkFailed(r) PROVE ObjectOK'
  BY <1>19 DEF MarkFailed
<1>20. ASSUME NEW r \in Run, Crash(r) PROVE ObjectOK'
  BY <1>20 DEF Crash, Close
<1>21. ASSUME NEW c \in Change, CheckChange(c) PROVE ObjectOK'
  BY <1>21 DEF CheckChange
<1>22. ASSUME NEW c \in Change, ListSources(c) PROVE ObjectOK'
  BY <1>22 DEF ListSources
<1>23. ASSUME NEW c \in Change, WriteChange(c) PROVE ObjectOK'
  BY <1>23 DEF WriteChange, EndChange
<1>24. ASSUME NEW c \in Change, ChangeFails(c) PROVE ObjectOK'
  BY <1>24 DEF ChangeFails, EndChange
<1>25. ASSUME NEW d \in Removal, CheckRemoval(d) PROVE ObjectOK'
  BY <1>25 DEF CheckRemoval
<1>26. ASSUME NEW d \in Removal, RemoveChunks(d) PROVE ObjectOK'
  BY <1>26 DEF RemoveChunks
<1>27. ASSUME NEW d \in Removal, Remove(d) PROVE ObjectOK'
  BY <1>27 DEF Remove
<1>28. ASSUME NEW d \in Removal, RemoveObject(d) PROVE ObjectOK'
  BY <1>28 DEF RemoveObject
<1>29. ASSUME NEW d \in Removal, RemovalFails(d) PROVE ObjectOK'
  BY <1>29 DEF RemovalFails
<1>. QED BY <1>1, <1>2, <1>3, <1>4, <1>5, <1>6, <1>7, <1>8, <1>9, <1>10, <1>11, <1>12, <1>13, <1>14,
          <1>15, <1>16, <1>17, <1>18, <1>19, <1>20, <1>21, <1>22, <1>23, <1>24, <1>25, <1>26, <1>27,
          <1>28, <1>29 DEF Next, RunStep

-----------------------------------------------------------------------------
(* The theorems.                                                           *)

(* The inductive invariant. *)
THEOREM Invariance == Spec => []IInv
<1>1. Init => IInv
  BY InitInv
<1>2. IInv /\ [Next]_vars => IInv'
  BY TypeStep, FreshStep, SourcesStep, FateStep, SoloStep, TakenStep, ApartStep, WishesStep, WholeStep, GoneStep,
     ObjectStep DEF IInv
<1>. QED BY <1>1, <1>2, PTL DEF Spec

(* Every variable has its type, and a run outside of its transaction holds no rows. *)
THEOREM TypeCorrect == Spec => []TypeOK
<1>1. IInv => TypeOK
  BY DEF IInv
<1>. QED BY <1>1, Invariance, PTL

(* A RUNNING document has a message that will bring it on, as long as the broker gets its answers. *)
THEOREM RunningHasMessage == Spec => []MessageBehindRunning
<1>1. IInv => MessageBehindRunning
  BY DEF IInv, Fate, Committed, MessageBehindRunning, Up
<1>. QED BY <1>1, Invariance, PTL

(* A chunked and enabled document is found once and as a whole. *)
THEOREM FoundAsAWhole == Spec => []EnabledIsFound
<1>1. IInv => EnabledIsFound
  BY DEF IInv, Whole, Found, EnabledIsFound
<1>. QED BY <1>1, Invariance, PTL

(* What belongs to a document comes and goes with it. *)
THEOREM ComesAndGoesTogether == Spec => []AllOrNothing
<1>1. IInv => AllOrNothing
  <2> SUFFICES ASSUME IInv PROVE AllOrNothing
    OBVIOUS
  <2>1. live => object
    BY DEF IInv, ObjectOK
  <2>2. ASSUME status # "none", ~ live, \A d \in Removal : removal[d] \in {"idle", "over"},
               Exclusive, prone \cap {"overlap", "storage", "database"} = {}
        PROVE  chunks = {} /\ vectors = {} /\ ~ object /\ \A r \in Run : log[r] = "none"
    BY <2>2 DEF IInv, Gone, Regular
  <2>. QED BY <2>1, <2>2 DEF AllOrNothing
<1>. QED BY <1>1, Invariance, PTL

(* Without a failing database SUCCESS and FAILED are final. *)
THEOREM EndedIsFinal == Spec => EndedStays
<1> DEFINE Stay == Exclusive /\ "database" \notin prone /\ status \in {"SUCCESS", "FAILED"} => status' = status
<1>1. IInv /\ [Next]_vars => [Stay]_vars
  <2> SUFFICES ASSUME IInv, Next, Exclusive, "database" \notin prone, status \in {"SUCCESS", "FAILED"}
               PROVE  status' = status
    OBVIOUS
  <2>1. ASSUME NEW r \in Run, RunStep(r) PROVE status' = status
    <3>1. CASE Replace(r)
      BY <3>1 DEF IInv, Taken, Unfinished, Replace
    <3>2. CASE MarkFailed(r)
      BY <3>2 DEF IInv, Taken, Unfinished, MarkFailed, Failing
    <3>. QED BY <2>1, <3>1, <3>2 DEF RunStep, row, InsertLog, Embed, DropChunks, DropVectors,
                ReplaceFails, LogSuccess, Answer, LogFailure
  <2>2. ASSUME NEW s \in Request, LocalTransaction(s) PROVE status' = status
    BY <2>2 DEF LocalTransaction
  <2>. QED BY <2>1, <2>2 DEF Next, row, StoreObject, InsertDocument, SendHalf, EndTransaction, CheckBack,
              DeadLetter, Deliver, Crash, CheckChange, ListSources, WriteChange, ChangeFails,
              CheckRemoval, RemoveChunks, Remove, RemoveObject, RemovalFails
<1>. QED BY <1>1, Invariance, PTL DEF Spec, EndedStays

-----------------------------------------------------------------------------
(* What the owner of a document is promised.                               *)

OfferView == Regular /\ enabled

TextView == IF Regular THEN chunks ELSE {}

HitsView == [g \in Run |-> IF Regular THEN Cardinality({v \in Selected : v[1] = g}) ELSE 0]

(* At every moment a search finds the document once and as a whole, or not at all. *)
LEMMA HitsWhole == IInv => HitsView = Searchable!Whole(StageOf, OfferView, TextView)
<1> SUFFICES ASSUME IInv, NEW g \in Run
             PROVE  (IF Regular THEN Cardinality({v \in Selected : v[1] = g}) ELSE 0)
                      = IF StageOf = "SUCCESS" /\ OfferView /\ g \in TextView THEN 1 ELSE 0
  BY DEF HitsView, Searchable!Whole
<1>1. CASE ~ Regular
  BY <1>1 DEF StageOf
<1>2. CASE Regular /\ ~ (live /\ status = "SUCCESS" /\ enabled)
  <2>1. {v \in Selected : v[1] = g} = {}
    BY <1>2 DEF Selected
  <2>2. ~ (StageOf = "SUCCESS" /\ OfferView)
    BY <1>2 DEF StageOf, OfferView
  <2>. QED BY <1>2, <2>1, <2>2, FS_EmptySet
<1>3. CASE Regular /\ live /\ status = "SUCCESS" /\ enabled
  <2>1. Found
    BY <1>3 DEF IInv, Whole, Regular
  <2>2. StageOf = "SUCCESS" /\ OfferView /\ TextView = chunks
    BY <1>3 DEF StageOf, OfferView, TextView
  <2>3. Selected = vectors
    BY <1>3, <2>1 DEF Selected, Found
  <2>4. CASE g \in chunks
    <3>1. PICK w \in vectors : w[1] = g
      BY <2>1, <2>4 DEF Found
    <3>2. {v \in Selected : v[1] = g} = {w}
      BY <2>1, <2>3, <3>1 DEF Found
    <3>. QED BY <1>3, <2>2, <2>4, <3>2, FS_Singleton
  <2>5. CASE g \notin chunks
    <3>1. {v \in Selected : v[1] = g} = {}
      BY <2>1, <2>3, <2>5 DEF Found
    <3>. QED BY <1>3, <2>2, <2>5, <3>1, FS_EmptySet
  <2>. QED BY <2>4, <2>5
<1>. QED BY <1>1, <1>2, <1>3

(* The same after a step. *)
LEMMA HitsWholeNext == IInv' => HitsView' = Searchable!Whole(StageOf', OfferView', TextView')
<1>1. IInv => HitsView = Searchable!Whole(StageOf, OfferView, TextView)
  BY HitsWhole
<1>2. (IInv => HitsView = Searchable!Whole(StageOf, OfferView, TextView))'
  BY <1>1, PTL
<1>. QED BY <1>2

(* A step that leaves the row and the chunks alone is not seen. *)
LEMMA NotSeen ==
  ASSUME IInv, IInv', prone' = prone, UNCHANGED <<row, chunks>>
  PROVE  UNCHANGED Searchable!documentVars
<1>1. UNCHANGED <<StageOf, OfferView, TextView>>
  BY DEF StageOf, OfferView, TextView, Regular, Exclusive, row
<1>2. HitsView' = HitsView
  BY <1>1, HitsWhole, HitsWholeNext
<1>. QED BY <1>1, <1>2 DEF Searchable!documentVars, OfferView, TextView, HitsView

(* What a regular document shows, before and after. *)
LEMMA Shown ==
  ASSUME Regular, prone' = prone
  PROVE  /\ Regular'
         /\ status = "none" => StageOf = "none"
         /\ status # "none" /\ live => StageOf = status
         /\ status' # "none" /\ live' => StageOf' = status'
         /\ status' # "none" /\ ~ live' => StageOf' = "deleted"
         /\ (OfferView <=> enabled) /\ (OfferView' <=> enabled')
         /\ TextView = chunks /\ TextView' = chunks'
BY DEF StageOf, OfferView, TextView, Regular, Exclusive

(* Every step is one of the document, or is not seen. *)
LEMMA StepSearchable ==
  ASSUME IInv, IInv', [Next]_vars
  PROVE  [Searchable!DocumentNext]_Searchable!documentVars
<1>0. prone' = prone
  BY ProneStays
<1>1. CASE UNCHANGED <<row, chunks>>
  BY <1>0, <1>1, NotSeen
<1>2. CASE ~ Regular
  <2>1. UNCHANGED <<StageOf, OfferView, TextView, HitsView>>
    BY <1>0, <1>2 DEF StageOf, OfferView, TextView, HitsView, Regular, Exclusive
  <2>. QED BY <2>1 DEF Searchable!documentVars, OfferView, TextView, HitsView
<1>3. ASSUME Regular, \/ InsertDocument \/ \E s \in Request : LocalTransaction(s)
                      \/ \E r \in Run : Replace(r) \/ MarkFailed(r)
                      \/ \E c \in Change : WriteChange(c)
                      \/ \E d \in Removal : Remove(d)
      PROVE  [Searchable!DocumentNext]_Searchable!documentVars
  <2> Searchable!Refound
    BY HitsWholeNext DEF Searchable!Refound, OfferView, TextView, HitsView
  <2> USE <1>0, <1>3, Shown
  <2>1. CASE InsertDocument
    <3>1. StageOf = "none" /\ StageOf' = "PENDING" /\ OfferView' /\ TextView' = TextView
      BY <2>1 DEF InsertDocument, content
    <3>2. Searchable!Upload
      BY <3>1 DEF Searchable!Upload, OfferView, TextView
    <3>. QED BY <3>2 DEF Searchable!DocumentNext
  <2>2. ASSUME NEW s \in Request, LocalTransaction(s), status' # status PROVE Searchable!DocumentNext
    <3>1. StageOf = "PENDING" /\ StageOf' = "RUNNING" /\ (OfferView' <=> OfferView) /\ TextView' = TextView
      BY <2>2 DEF LocalTransaction, content
    <3>2. Searchable!Start
      BY <3>1 DEF Searchable!Start, OfferView, TextView
    <3>. QED BY <3>2 DEF Searchable!DocumentNext
  <2>3. ASSUME NEW r \in Run, Replace(r) PROVE Searchable!DocumentNext
    <3>1. live /\ status = "RUNNING" /\ chunks = {}
      BY <2>3 DEF IInv, Gone, Taken, Unfinished, Whole, Regular, Replace
    <3>2. StageOf = "RUNNING" /\ StageOf' = "SUCCESS" /\ (OfferView' <=> OfferView) /\ TextView' = {r}
      BY <2>3, <3>1 DEF Replace
    <3>3. Searchable!Finish
      BY <3>2 DEF Searchable!Finish, OfferView, TextView
    <3>. QED BY <3>3 DEF Searchable!DocumentNext
  <2>4. ASSUME NEW r \in Run, MarkFailed(r) PROVE Searchable!DocumentNext
    <3>1. live /\ status = "RUNNING" /\ status' = "FAILED"
      BY <2>4 DEF IInv, Gone, Taken, Unfinished, Regular, MarkFailed, Failing
    <3>2. StageOf = "RUNNING" /\ StageOf' = "FAILED" /\ (OfferView' <=> OfferView) /\ TextView' = TextView
      BY <2>4, <3>1 DEF MarkFailed, content
    <3>3. Searchable!Fail
      BY <3>2 DEF Searchable!Fail, OfferView, TextView
    <3>. QED BY <3>3 DEF Searchable!DocumentNext
  <2>5. ASSUME NEW c \in Change, WriteChange(c) PROVE Searchable!DocumentNext
    <3>1. live /\ status # "RUNNING" /\ wish[c] # enabled /\ wish[c] \in BOOLEAN /\ enabled \in BOOLEAN
      BY <2>5 DEF IInv, TypeOK, Apart, Changing, Wishes, Regular, WriteChange
    <3>2. status \in {"PENDING", "SUCCESS", "FAILED"}
      BY <2>5, <3>1 DEF IInv, TypeOK, Fresh
    <3>3. StageOf \in {"PENDING", "SUCCESS", "FAILED"} /\ StageOf' = StageOf /\ TextView' = TextView
      BY <2>5, <3>1, <3>2 DEF WriteChange
    <3>4. OfferView' <=> ~ OfferView
      BY <2>5, <3>1 DEF WriteChange
    <3>5. Searchable!Toggle
      BY <3>3, <3>4 DEF Searchable!Toggle, Searchable!AtRest, OfferView, TextView
    <3>. QED BY <3>5 DEF Searchable!DocumentNext
  <2>6. ASSUME NEW d \in Removal, Remove(d) PROVE Searchable!DocumentNext
    <3>1. live /\ status # "RUNNING" /\ seenChunks[d] = chunks
      BY <2>6 DEF IInv, Apart, Removing, Gone, Regular, Remove
    <3>2. status \in {"PENDING", "SUCCESS", "FAILED"}
      BY <2>6, <3>1 DEF IInv, TypeOK, Fresh
    <3>3. StageOf \in {"PENDING", "SUCCESS", "FAILED"} /\ StageOf' = "deleted" /\ TextView' = {}
      BY <2>6, <3>1, <3>2 DEF Remove
    <3>4. OfferView' <=> OfferView
      BY <2>6 DEF Remove
    <3>5. Searchable!Delete
      BY <3>3, <3>4 DEF Searchable!Delete, Searchable!AtRest, OfferView, TextView
    <3>. QED BY <3>5 DEF Searchable!DocumentNext
  <2>7. ASSUME NEW s \in Request, LocalTransaction(s), status' = status
        PROVE  UNCHANGED Searchable!documentVars
    <3>1. UNCHANGED <<row, chunks>>
      BY <2>7 DEF LocalTransaction, row, content
    <3>. QED BY <3>1, NotSeen
  <2>. QED BY <1>3, <2>1, <2>2, <2>3, <2>4, <2>5, <2>6, <2>7
<1>4. \/ UNCHANGED <<row, chunks>>
      \/ InsertDocument \/ \E s \in Request : LocalTransaction(s)
      \/ \E r \in Run : Replace(r) \/ MarkFailed(r)
      \/ \E c \in Change : WriteChange(c)
      \/ \E d \in Removal : Remove(d)
  BY DEF Next, RunStep, vars, row, content, StoreObject, SendHalf, EndTransaction,
     CheckBack, DeadLetter, Deliver, InsertLog, Embed, DropChunks, DropVectors, ReplaceFails,
     LogSuccess, Answer, LogFailure, Crash, CheckChange, ListSources,
     ChangeFails, CheckRemoval, RemoveChunks, RemoveObject, RemovalFails
<1>. QED BY <1>1, <1>2, <1>3, <1>4

(* The document is found once and as a whole, or not at all: see ImplementsSearchable. *)
THEOREM DocumentRefinement == Spec => ImplementsSearchable
<1>1. Init => Searchable!DocumentInit
  <2> SUFFICES ASSUME Init PROVE Searchable!DocumentInit
    OBVIOUS
  <2>1. StageOf = "none" /\ ~ OfferView /\ TextView = {}
    BY DEF Init, StageOf, OfferView, TextView
  <2>2. HitsView = Searchable!Whole(StageOf, OfferView, TextView)
    BY InitInv, HitsWhole
  <2>. QED BY <2>1, <2>2 DEF Searchable!DocumentInit, OfferView, TextView, HitsView
<1>2. IInv /\ IInv' /\ [Next]_vars => [Searchable!DocumentNext]_Searchable!documentVars
  BY StepSearchable
<1>. QED BY <1>1, <1>2, Invariance, PTL DEF Spec, ImplementsSearchable, Searchable!DocumentSpec


=============================================================================
