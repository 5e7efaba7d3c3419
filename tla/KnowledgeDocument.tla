--------------------------- MODULE KnowledgeDocument ---------------------------
(***************************************************************************)
(* The life of one knowledge document: upload, start of chunking with a    *)
(* RocketMQ transactional message, the chunk pipeline of the consumers,    *)
(* enabling, disabling and deletion, over one database and one object      *)
(* store.  Every statement of the code names one document, so one is       *)
(* enough; producers that send for other documents appear only where the   *)
(* broker asks them about this one.                                        *)
(*                                                                         *)
(* One action is one statement or transaction, except that a transaction   *)
(* that deletes before it inserts is cut where another may commit in       *)
(* between (READ COMMITTED): its deletions take only the rows that were    *)
(* committed when they began.  The chunks of one run of the pipeline have  *)
(* fresh ids; they are one generation, named by the run.                   *)
(***************************************************************************)
EXTENDS Naturals, FiniteSets

CONSTANTS
  Request,     \* calls of start_chunking
  Run,         \* deliveries of a message to a consumer: its bound on redeliveries
  Weak,        \* runs that may crash or meet a failing database: not all of them
  Change,      \* calls of set_document_enabled
  Removal,     \* calls of delete_document
  Strangers,   \* what check callbacks of producers for other documents answer
  Troubles     \* the sets of troubles that are considered together

(***************************************************************************)
(* reply: between the local transaction and the broker anything may go     *)
(* wrong, so that the broker asks; duplicate: a message is delivered again *)
(* while a run works on it; overlap: a user acts on the document while     *)
(* another request on it is under way; crash, database: see Weak; storage: *)
(* the object cannot be deleted.                                           *)
(***************************************************************************)
Trouble == {"reply", "duplicate", "overlap", "crash", "database", "storage"}

ASSUME RunAssumption == Weak \subseteq Run /\ Weak # Run
ASSUME DisjointAssumption == Run \cap (Change \cup Removal) = {}
ASSUME TroubleAssumption == Strangers \subseteq BOOLEAN /\ Troubles \subseteq SUBSET Trouble

VARIABLES
  status,        \* status of the row; "none" before it is inserted
  live,          \* the row is there and not deleted
  enabled,       \* enabled of the row
  object,        \* the object is in the store
  chunks,        \* generations in t_knowledge_chunk
  shown,         \* those of them that are enabled
  vectors,       \* t_knowledge_vector: <<generation, who wrote its vectors>>
  log,           \* t_knowledge_document_chunk_log: status of the row of each run
  phase,         \* progress of each start_chunking
  half,          \* half messages the broker holds
  queue,         \* committed messages that are not acknowledged
  at,            \* progress of each run
  serving,       \* the message each run works on
  seenChunks,    \* generations an open transaction has deleted, for runs and removals
  seenVectors,   \* vectors a run's open transaction has deleted
  change,        \* progress of each set_document_enabled
  wish,          \* the state it wants
  sources,       \* generations whose vectors it has computed
  removal,       \* progress of each delete_document
  prone          \* the troubles of this behaviour; it never changes

vars == <<status, live, enabled, object, chunks, shown, vectors, log, phase, half, queue,
          at, serving, seenChunks, seenVectors, change, wish, sources, removal, prone>>

row == <<status, live, enabled>>
content == <<chunks, shown, vectors>>
messages == <<phase, half, queue>>
runs == <<at, serving, seenVectors>>
toggling == <<change, wish, sources>>

(* What a run may be at; over: its callback has returned, or its process is gone. *)
Working == {"found", "logged", "embedded", "dropped", "cut", "persisted", "failing", "marking",
            "answering"}

(* The producer of a request is up. *)
Up == {"sent", "committed", "refused"}

Init ==
  /\ status = "none" /\ live = FALSE /\ enabled = FALSE
  /\ object = FALSE
  /\ chunks = {} /\ shown = {} /\ vectors = {}
  /\ log = [r \in Run |-> "none"]
  /\ phase = [s \in Request |-> "idle"]
  /\ half = {} /\ queue = {}
  /\ at = [r \in Run |-> "idle"]
  /\ serving = [r \in Run |-> {}]
  /\ seenChunks = [x \in Run \cup Removal |-> {}]
  /\ seenVectors = [r \in Run |-> {}]
  /\ change = [c \in Change |-> "idle"]
  /\ wish = [c \in Change |-> FALSE]
  /\ sources = [c \in Change |-> {}]
  /\ removal = [d \in Removal |-> "idle"]
  /\ prone \in Troubles

Move(r, place) == at' = [at EXCEPT ![r] = place]

(* The transaction of a run has been committed or rolled back. *)
Close(r) ==
  /\ seenChunks' = [seenChunks EXCEPT ![r] = {}]
  /\ seenVectors' = [seenVectors EXCEPT ![r] = {}]

(* The database fails the statement of a weak run. *)
Failing(r) == "database" \in prone /\ r \in Weak

(* No other request on the document is between its check and its write. *)
Alone ==
  \/ "overlap" \in prone
  \/ /\ \A c \in Change : change[c] \in {"idle", "over"}
     /\ \A d \in Removal : removal[d] \in {"idle", "removed", "over"}

-----------------------------------------------------------------------------
(* upload_file and upload_url: the object first, then the row.             *)

StoreObject ==
  /\ status = "none"
  /\ ~ object
  /\ object' = TRUE
  /\ UNCHANGED <<row, content, log, messages, runs, seenChunks, toggling, removal, prone>>

InsertDocument ==
  /\ status = "none"
  /\ object
  /\ status' = "PENDING" /\ live' = TRUE /\ enabled' = TRUE
  /\ UNCHANGED <<object, content, log, messages, runs, seenChunks, toggling, removal, prone>>

-----------------------------------------------------------------------------
(* start_chunking and the transactional message.                           *)

SendHalf(s) ==
  /\ status # "none"
  /\ phase[s] = "idle"
  /\ phase' = [phase EXCEPT ![s] = "sent"]
  /\ half' = half \cup {s}
  /\ UNCHANGED <<row, object, content, log, queue, runs, seenChunks, toggling, removal, prone>>

(***************************************************************************)
(* local_execute: the compare-and-set of the status.  An exception is a    *)
(* refusal, also one that hides that the update has been committed.        *)
(***************************************************************************)
LocalTransaction(s) ==
  /\ phase[s] = "sent"
  /\ Alone
  /\ \/ /\ live /\ status = "PENDING"
        /\ status' = "RUNNING"
        /\ phase' \in {[phase EXCEPT ![s] = "committed"]} \cup
                      (IF "reply" \in prone THEN {[phase EXCEPT ![s] = "refused"]} ELSE {})
     \/ /\ ~ (live /\ status = "PENDING")
        /\ phase' = [phase EXCEPT ![s] = "refused"]
        /\ UNCHANGED status
  /\ UNCHANGED <<live, enabled, object, content, log, half, queue, runs, seenChunks, toggling,
                 removal, prone>>

(* What the broker does with a half message when it has an answer. *)
Resolve(s, commit) ==
  /\ half' = half \ {s}
  /\ queue' = IF commit /\ s \in half THEN queue \cup {s} ELSE queue

(* The answer reaches the broker, or does not; the producer shuts down, or dies. *)
EndTransaction(s) ==
  /\ \/ phase[s] \in Up \ {"sent"} /\ Resolve(s, phase[s] = "committed")
     \/ phase[s] \in Up /\ "reply" \in prone /\ UNCHANGED <<half, queue>>
  /\ phase' = [phase EXCEPT ![s] = "over"]
  /\ UNCHANGED <<row, object, content, log, runs, seenChunks, toggling, removal, prone>>

(***************************************************************************)
(* The broker has no answer and asks a producer of the group, whichever:   *)
(* check_callback looks at what its own send has recorded, not at the      *)
(* message.  A broker that has asked in vain for too long rolls back.      *)
(***************************************************************************)
CheckBack(s) ==
  /\ "reply" \in prone
  /\ s \in half
  /\ \E commit \in {phase[p] = "committed" : p \in {q \in Request : phase[q] \in Up}}
                   \cup Strangers \cup {FALSE} : Resolve(s, commit)
  /\ UNCHANGED <<row, object, content, log, phase, runs, seenChunks, toggling, removal, prone>>

-----------------------------------------------------------------------------
(* The consumer's callback and KnowledgeChunkPipeline.process_message.     *)

(* Faulty variant: the pipeline takes up any document that is there. *)
DeliverAny(r, m) ==
  /\ at[r] = "idle"
  /\ m \in queue
  /\ "duplicate" \in prone \/ \A q \in Run : at[q] \in Working => m \notin serving[q]
  /\ serving' = [serving EXCEPT ![r] = {m}]
  /\ Move(r, IF live THEN "found" ELSE "over")
  /\ UNCHANGED <<row, object, content, log, messages, seenChunks, seenVectors, toggling, removal,
                 prone>>

(* Only a document that is RUNNING is taken up; SUCCESS is acknowledged at  *)
(* once, anything else raises, and the message will come again.            *)
Deliver(r, m) ==
  /\ at[r] = "idle"
  /\ m \in queue
  /\ "duplicate" \in prone \/ \A q \in Run : at[q] \in Working => m \notin serving[q]
  /\ serving' = [serving EXCEPT ![r] = {m}]
  /\ Move(r, CASE live /\ status = "RUNNING" -> "found"
               [] live /\ status = "SUCCESS" -> "answering"
               [] OTHER -> "over")
  /\ UNCHANGED <<row, object, content, log, messages, seenChunks, seenVectors, toggling, removal,
                 prone>>

(* Faulty variant: the message is acknowledged before the work is done. *)
InsertLogAndAnswer(r) ==
  /\ at[r] = "found"
  /\ log' = [log EXCEPT ![r] = "RUNNING"]
  /\ Move(r, "logged")
  /\ queue' = queue \ serving[r]
  /\ UNCHANGED <<row, object, content, phase, half, serving, seenChunks, seenVectors, toggling,
                 removal, prone>>

(* insert_chunk_log, outside the try block: nothing is marked when it fails. *)
InsertLog(r) ==
  /\ at[r] = "found"
  /\ \/ log' = [log EXCEPT ![r] = "RUNNING"] /\ Move(r, "logged")
     \/ Failing(r) /\ Move(r, "over") /\ UNCHANGED log
  /\ UNCHANGED <<row, object, content, messages, serving, seenChunks, seenVectors, toggling,
                 removal, prone>>

(* Object, text, chunks and vectors, each with its retries. *)
Embed(r) ==
  /\ at[r] = "logged"
  /\ \/ object /\ Move(r, "embedded")
     \/ Move(r, "failing")
  /\ UNCHANGED <<row, object, content, log, messages, serving, seenChunks, seenVectors, toggling,
                 removal, prone>>

(***************************************************************************)
(* replace_chunks_and_vectors_atomic: DELETE of the chunks, DELETE of the  *)
(* vectors, the rest.  The second waits while another transaction has      *)
(* deleted the same chunks.                                                *)
(***************************************************************************)
DropChunks(r) ==
  /\ at[r] = "embedded"
  /\ seenChunks' = [seenChunks EXCEPT ![r] = chunks]
  /\ Move(r, "dropped")
  /\ UNCHANGED <<row, object, content, log, messages, serving, seenVectors, toggling, removal, prone>>

(* A transaction of a run holds the rows of some of these generations. *)
Locked(generations) ==
  \E r \in Run : at[r] = "cut" /\ seenChunks[r] \cap generations \cap chunks # {}

DropVectors(r) ==
  /\ at[r] = "dropped"
  /\ ~ Locked(seenChunks[r])
  /\ seenVectors' = [seenVectors EXCEPT ![r] = vectors]
  /\ Move(r, "cut")
  /\ UNCHANGED <<row, object, content, log, messages, serving, seenChunks, toggling, removal, prone>>

(***************************************************************************)
(* The INSERTs, the status and the commit; an empty text has failed        *)
(* before.  A commit whose answer is lost is tried again as a whole, with  *)
(* the same chunks, or fails.  (A retry after a rollback is a first        *)
(* attempt that comes later.)                                              *)
(***************************************************************************)
Replace(r) ==
  /\ at[r] = "cut"
  /\ chunks' = (chunks \ seenChunks[r]) \cup {r}
  /\ shown' = (shown \ seenChunks[r]) \cup {r}
  /\ vectors' = (vectors \ seenVectors[r]) \cup {<<r, r>>}
  /\ status' = IF live THEN "SUCCESS" ELSE status
  /\ \E place \in {"persisted"} \cup (IF Failing(r) THEN {"embedded", "failing"} ELSE {}) :
       Move(r, place)
  /\ Close(r)
  /\ UNCHANGED <<live, enabled, object, log, messages, serving, toggling, removal, prone>>

(* Faulty variant: a transaction that fails is left open. *)
ReplaceFailsOpen(r) ==
  /\ at[r] \in {"dropped", "cut"}
  /\ Move(r, "failing")
  /\ UNCHANGED <<row, object, content, log, messages, serving, seenChunks, seenVectors, toggling,
                 removal, prone>>

(* The transaction is rolled back, and the retries come to an end. *)
ReplaceFails(r) ==
  /\ at[r] \in {"dropped", "cut"}
  /\ Move(r, "failing")
  /\ Close(r)
  /\ UNCHANGED <<row, object, content, log, messages, serving, toggling, removal, prone>>

(* An UPDATE of the log finds no row after a deletion. *)
LogAs(r, result) == log' = [log EXCEPT ![r] = IF @ = "none" THEN "none" ELSE result]

LogSuccess(r) ==
  /\ at[r] = "persisted"
  /\ \/ LogAs(r, "SUCCESS") /\ Move(r, "answering")
     \/ Failing(r) /\ Move(r, "failing") /\ UNCHANGED log
  /\ UNCHANGED <<row, object, content, messages, serving, seenChunks, seenVectors, toggling,
                 removal, prone>>

(* CONSUME_SUCCESS. *)
Answer(r) ==
  /\ at[r] = "answering"
  /\ queue' = queue \ serving[r]
  /\ Move(r, "over")
  /\ UNCHANGED <<row, object, content, log, phase, half, serving, seenChunks, seenVectors,
                 toggling, removal, prone>>

(* Faulty variant: a run that has failed starts over. *)
StartOver(r) ==
  /\ at[r] = "failing"
  /\ Move(r, "logged")
  /\ UNCHANGED <<row, object, content, log, messages, serving, seenChunks, seenVectors, toggling,
                 removal, prone>>

(* mark_chunk_log_failed; when it fails, the document is not marked. *)
LogFailure(r) ==
  /\ at[r] = "failing"
  /\ \/ LogAs(r, "FAILED") /\ Move(r, "marking")
     \/ Failing(r) /\ Move(r, "over") /\ UNCHANGED log
  /\ UNCHANGED <<row, object, content, messages, serving, seenChunks, seenVectors, toggling,
                 removal, prone>>

(* mark_document_failed, and RECONSUME_LATER: the message stays. *)
MarkFailed(r) ==
  /\ at[r] = "marking"
  /\ status' \in {IF live THEN "FAILED" ELSE status} \cup (IF Failing(r) THEN {status} ELSE {})
  /\ Move(r, "over")
  /\ UNCHANGED <<live, enabled, object, content, log, messages, serving, seenChunks, seenVectors,
                 toggling, removal, prone>>

(* The consumer dies; its transaction is rolled back, its message stays. *)
Crash(r) ==
  /\ "crash" \in prone
  /\ r \in Weak
  /\ at[r] \in Working
  /\ Move(r, "over")
  /\ Close(r)
  /\ UNCHANGED <<row, object, content, log, messages, serving, toggling, removal, prone>>

(* The broker has delivered the message often enough. *)
DeadLetter(m) ==
  /\ m \in queue
  /\ \A r \in Run : at[r] = "over"
  /\ queue' = queue \ {m}
  /\ UNCHANGED <<row, object, content, log, phase, half, runs, seenChunks, toggling, removal, prone>>

-----------------------------------------------------------------------------
(* set_document_enabled.                                                   *)

(* Faulty variant: a document may be toggled while it is being chunked. *)
CheckChangeOnly(c) ==
  /\ change[c] = "idle"
  /\ Alone
  /\ live
  /\ wish' = [wish EXCEPT ![c] = ~ enabled]
  /\ change' = [change EXCEPT ![c] = "checked"]
  /\ UNCHANGED <<row, object, content, log, messages, runs, seenChunks, sources, removal, prone>>

(* A call that changes nothing, or that is refused, is none. *)
CheckChange(c) ==
  /\ change[c] = "idle"
  /\ Alone
  /\ live /\ status # "RUNNING"
  /\ wish' = [wish EXCEPT ![c] = ~ enabled]
  /\ change' = [change EXCEPT ![c] = "checked"]
  /\ UNCHANGED <<row, object, content, log, messages, runs, seenChunks, sources, removal, prone>>

(* list_vector_chunk_sources; the embedding is awaited after it. *)
ListSources(c) ==
  /\ change[c] = "checked"
  /\ wish[c]
  /\ sources' = [sources EXCEPT ![c] = chunks]
  /\ change' = [change EXCEPT ![c] = "embedding"]
  /\ UNCHANGED <<row, object, content, log, messages, runs, seenChunks, wish, removal, prone>>

EndChange(c) ==
  /\ change' = [change EXCEPT ![c] = "over"]
  /\ wish' = [wish EXCEPT ![c] = FALSE]
  /\ sources' = [sources EXCEPT ![c] = {}]

(* set_document_enabled_atomic: its first statement locks the row of the document. *)
WriteChange(c) ==
  /\ \/ change[c] = "embedding"
     \/ change[c] = "checked" /\ ~ wish[c]
  /\ ~ Locked(chunks)
  /\ enabled' = IF live THEN wish[c] ELSE enabled
  /\ shown' = IF wish[c] THEN chunks ELSE {}
  /\ vectors' = {<<g, c>> : g \in sources[c]}
  /\ EndChange(c)
  /\ UNCHANGED <<status, live, object, chunks, log, messages, runs, seenChunks, removal, prone>>

(* The embedding or the database fails. *)
ChangeFails(c) ==
  /\ change[c] \in {"checked", "embedding"}
  /\ EndChange(c)
  /\ UNCHANGED <<row, object, content, log, messages, runs, seenChunks, removal, prone>>

-----------------------------------------------------------------------------
(* delete_document.                                                        *)

(* Faulty variant: a document may be deleted while it is being chunked. *)
CheckRemovalOnly(d) ==
  /\ removal[d] = "idle"
  /\ Alone
  /\ live
  /\ removal' = [removal EXCEPT ![d] = "checked"]
  /\ UNCHANGED <<row, object, content, log, messages, runs, seenChunks, toggling, prone>>

CheckRemoval(d) ==
  /\ removal[d] = "idle"
  /\ Alone
  /\ live /\ status # "RUNNING"
  /\ removal' = [removal EXCEPT ![d] = "checked"]
  /\ UNCHANGED <<row, object, content, log, messages, runs, seenChunks, toggling, prone>>

(* delete_document_atomic: DELETE of the chunks, then the rest. *)
RemoveChunks(d) ==
  /\ removal[d] = "checked"
  /\ seenChunks' = [seenChunks EXCEPT ![d] = chunks]
  /\ removal' = [removal EXCEPT ![d] = "dropped"]
  /\ UNCHANGED <<row, object, content, log, messages, runs, toggling, prone>>

Remove(d) ==
  /\ removal[d] = "dropped"
  /\ ~ Locked(seenChunks[d])
  /\ live' = FALSE
  /\ chunks' = chunks \ seenChunks[d]
  /\ shown' = shown \ seenChunks[d]
  /\ vectors' = {}
  /\ log' = [r \in Run |-> "none"]
  /\ seenChunks' = [seenChunks EXCEPT ![d] = {}]
  /\ removal' = [removal EXCEPT ![d] = "removed"]
  /\ UNCHANGED <<status, enabled, object, messages, runs, toggling, prone>>

RemoveObject(d) ==
  /\ removal[d] = "removed"
  /\ object' \in {FALSE} \cup (IF "storage" \in prone THEN {object} ELSE {})
  /\ removal' = [removal EXCEPT ![d] = "over"]
  /\ UNCHANGED <<row, content, log, messages, runs, seenChunks, toggling, prone>>

(* The transaction is rolled back. *)
RemovalFails(d) ==
  /\ removal[d] \in {"checked", "dropped"}
  /\ removal' = [removal EXCEPT ![d] = "over"]
  /\ seenChunks' = [seenChunks EXCEPT ![d] = {}]
  /\ UNCHANGED <<row, object, content, log, messages, runs, toggling, prone>>

-----------------------------------------------------------------------------

(* A callback at work. *)
RunStep(r) ==
  \/ InsertLog(r) \/ Embed(r) \/ DropChunks(r) \/ DropVectors(r) \/ Replace(r) \/ ReplaceFails(r)
  \/ LogSuccess(r) \/ Answer(r) \/ LogFailure(r) \/ MarkFailed(r)

Next ==
  \/ StoreObject \/ InsertDocument
  \/ \E s \in Request :
       \/ SendHalf(s) \/ LocalTransaction(s) \/ EndTransaction(s) \/ CheckBack(s) \/ DeadLetter(s)
       \/ \E r \in Run : Deliver(r, s)
  \/ \E r \in Run : RunStep(r) \/ Crash(r)
  \/ \E c \in Change : CheckChange(c) \/ ListSources(c) \/ WriteChange(c) \/ ChangeFails(c)
  \/ \E d \in Removal :
       CheckRemoval(d) \/ RemoveChunks(d) \/ Remove(d) \/ RemoveObject(d) \/ RemovalFails(d)

Spec == Init /\ [][Next]_vars

(***************************************************************************)
(* Fairness.  A producer that has sent goes on, the broker delivers, and a *)
(* callback goes on (its calls have time-outs).  Users owe nothing.        *)
(***************************************************************************)
Fairness ==
  /\ \A s \in Request : WF_vars(LocalTransaction(s)) /\ WF_vars(EndTransaction(s))
  /\ WF_vars(\E r \in Run, s \in Request : Deliver(r, s))
  /\ \A r \in Run : WF_vars(RunStep(r))

FairSpec == Spec /\ Fairness

-----------------------------------------------------------------------------
(* Properties.                                                             *)

(* Every variable has its type, and a run that is not in a transaction     *)
(* holds no rows.                                                          *)
TypeOK ==
  /\ status \in {"none", "PENDING", "RUNNING", "SUCCESS", "FAILED"}
  /\ live \in BOOLEAN /\ enabled \in BOOLEAN /\ object \in BOOLEAN
  /\ chunks \subseteq Run /\ shown \subseteq Run
  /\ vectors \subseteq Run \X (Run \cup Change)
  /\ log \in [Run -> {"none", "RUNNING", "SUCCESS", "FAILED"}]
  /\ phase \in [Request -> {"idle", "over"} \cup Up]
  /\ half \subseteq Request /\ queue \subseteq Request
  /\ at \in [Run -> {"idle", "over"} \cup Working]
  /\ serving \in [Run -> SUBSET Request]
  /\ seenChunks \in [Run \cup Removal -> SUBSET Run]
  /\ seenVectors \in [Run -> SUBSET (Run \X (Run \cup Change))]
  /\ \A r \in Run : at[r] \notin {"dropped", "cut"} => seenChunks[r] = {} /\ seenVectors[r] = {}
  /\ change \in [Change -> {"idle", "checked", "embedding", "over"}]
  /\ wish \in [Change -> BOOLEAN]
  /\ sources \in [Change -> SUBSET Run]
  /\ removal \in [Removal -> {"idle", "checked", "dropped", "removed", "over"}]
  /\ prone \in SUBSET Trouble

(* Nobody but one run at a time works on the document. *)
Exclusive == prone \cap {"reply", "duplicate"} = {}

(***************************************************************************)
(* A document that is RUNNING has a message that will bring it on: one the *)
(* broker is about to get an answer for, or one that is not acknowledged.  *)
(* Otherwise it would be refused to everybody for ever: neither a start    *)
(* nor a change nor a deletion takes a RUNNING document.                   *)
(***************************************************************************)
MessageBehindRunning ==
  live /\ status = "RUNNING" /\ "reply" \notin prone =>
    \/ queue # {}
    \/ \E s \in half : phase[s] = "committed"

(***************************************************************************)
(* A document that is chunked and enabled is found, once and as a whole:   *)
(* its chunks are of one run, they are enabled, and each has one vector.   *)
(***************************************************************************)
EnabledIsFound ==
  live /\ status = "SUCCESS" /\ enabled /\ Exclusive /\ "overlap" \notin prone =>
    /\ \A g, h \in chunks : g = h
    /\ chunks \subseteq shown
    /\ {v[1] : v \in vectors} = chunks
    /\ \A v, w \in vectors : v = w

(***************************************************************************)
(* What a run has achieved or given up is final: redeliveries, starts and  *)
(* crashes do not undo it, nor a failure that comes late.                  *)
(***************************************************************************)
EndedStays ==
  [][Exclusive /\ "database" \notin prone /\ status \in {"SUCCESS", "FAILED"} =>
       status' = status]_vars

(***************************************************************************)
(* A document and what belongs to it come and go together: as long as it   *)
(* is there its object is; once it is deleted nothing remains, neither     *)
(* content nor log nor object.                                             *)
(***************************************************************************)
AllOrNothing ==
  /\ live => object
  /\ /\ status # "none" /\ ~ live
     /\ \A d \in Removal : removal[d] \in {"idle", "over"}
     /\ Exclusive /\ prone \cap {"overlap", "storage", "database"} = {}
     => /\ chunks = {} /\ vectors = {} /\ ~ object
        /\ \A r \in Run : log[r] = "none"

(* Chunking comes to an end, also when a consumer dies or fails. *)
RunningEnds ==
  live /\ status = "RUNNING" /\ "reply" \notin prone ~> ~ (live /\ status = "RUNNING")

(***************************************************************************)
(* What the owner of the document is promised, as SearchableDocument       *)
(* states it.  It is kept where nobody but one run at a time works on the  *)
(* document, users do not overlap, and the database does not fail a run;   *)
(* consumers may crash, objects may stay, and embeddings fail.  Any other  *)
(* behaviour is not seen in it.                                            *)
(***************************************************************************)
Regular == Exclusive /\ prone \cap {"overlap", "database"} = {}

(* The vectors that PgvectorKnowledgeRepository.search selects. *)
Selected ==
  {v \in vectors : live /\ enabled /\ status = "SUCCESS" /\ v[1] \in chunks \cap shown}

StageOf ==
  CASE ~ Regular \/ status = "none" -> "none"
    [] Regular /\ status # "none" /\ live -> status
    [] Regular /\ status # "none" /\ ~ live -> "deleted"

Searchable ==
  INSTANCE SearchableDocument WITH
    Text <- Run,
    stage <- StageOf,
    offered <- Regular /\ enabled,
    text <- IF Regular THEN chunks ELSE {},
    hits <- [g \in Run |-> IF Regular THEN Cardinality({v \in Selected : v[1] = g}) ELSE 0]

(* The statements and transactions of the pipeline, of the users and of    *)
(* the consumers that crash amount to steps of a document that is cut once *)
(* and found as a whole or not at all.                                     *)
ImplementsSearchable == Searchable!DocumentSpec

=============================================================================
