# HEYEE-AGENT: a verification project in TLA+

The repository is a Python service (`src/agent_service`, FastAPI on asyncio) that answers
chat requests as streams of tokens, with retrieval over uploaded documents (RAG), tools over
MCP, conversation memory and model fallback. This directory holds TLA+ modules translated
from that code, TLC runs on small instances of them, and TLAPS proofs about them for every
instance. All paths below are under `src/agent_service` unless they start with `src/`.

## 1. Inventory

### What runs concurrently

One process is one asyncio event loop: coroutines interleave only at awaits that suspend.
Requests, client tasks of streaming models, lease and Pub/Sub listeners are coroutines of
the same loop; several processes share Redis (permits, cancellation markers, compression
locks, upload leases), PostgreSQL and RocketMQ. Document processing runs in a consumer
process of its own.

### Components

| Component | State | Operations | Hard behaviour | What makes it correct |
|---|---|---|---|---|
| Stream admission, in process (`services/stream_queue_limiter.py`) | deque of waiters, permits, condition lock, closing flag | acquire, cancel, release, close | awaits under the lock, deadline, disconnection, cancellation of the coroutine, shutdown | bounded, in order of arrival, no permit or place lost, every request answered |
| Stream admission, Redis (same file) | waiting ZSET, permit ZSET with leases, entry keys with a TTL | claim and enqueue scripts, renew, release, Pub/Sub listener | lost replies, crashes, leases that end, several processes | bounded while leases hold, order within the window, recovery after a crash |
| Task registry (`services/stream_task_manager.py`) | local tasks with flag, handle and expiry; markers and owners in Redis | register, bind, cancel, finalize, purge, listener | cancel before register, on another node, after finalize | a cancellation that was accepted stops the stream; an id is used once |
| Stream life cycle (`services/stream_chat_service.py`) | task, permit, model handle, bounded event queue | stream, cancel, lease renewal | a cancellation at every phase, overflow, failures | one terminal event, one saved answer, handle cancelled, permit back |
| Model health and routing (`infra_ai/health_store.py`, `routing_executor.py`, `selector.py`) | circuit of each model | select, allow_call, record_success, record_failure | late results, probes, interrupted attempts | an ill model is left alone, a healed one comes back |
| First-token fallback (`services/stream_llm_service.py`, `infra_ai/clients.py`) | candidate, first-packet event, suppression | start, callbacks, cancel | time-out racing the first token, cancellation before the handle is returned | one model speaks, none works unheard, start() settles |
| Chat orchestration (`services/chat_service.py` and helpers) | none beyond the request | prepare, complete | sequential | token budget kept |
| Function calling, tools, MCP (`services/function_call_service.py`, `mcp/`) | MCP session | tool loop, initialize, call, parameter repair | expired session, retry | bounded number of rounds, one retry |
| RAG pipeline (`rag/`) | intent tree cache | rewrite, classify, cap, retrieve, merge, pack | boundaries of the caps | limits kept, no duplicate |
| Knowledge documents (`services/knowledge_document_service.py`, `repositories/`) | document status, chunks, stored object | upload, start chunking, enable, update, delete | check and write around an await, compare-and-set | status and chunks agree |
| Chunking (`services/rocketmq_transaction_producer.py`, `knowledge_chunk_pipeline.py`) | transactional message, status | local transaction, check-back, process, retry | crash between database and broker, redelivery | RUNNING ends in SUCCESS or FAILED |
| Conversation memory (`memory/`) | messages, summary, compression lock | load, append, compress, delete | model call between read and write, lock that ends early | summary covers a prefix, the rest is pending, load shows the newest of it, deleted means gone |
| Upload limit (`middleware/upload_rate_limit.py`) | leased permits in Redis | acquire, release | lost reply, lease that ends | at most the limit, none lost for ever |
| Embedding and rerank services | none | batch calls through the router | sequential | one vector for each text |
| Object storage, Tika, API, configuration, schemas, frontend, SQL, scripts | - | - | I/O and wiring | not modelled |

### Interactions

`StreamChatService.stream` registers its task id with the task registry, acquires a permit
(passing a `should_cancel` callback that itself may call `StreamChatService.cancel`), prepares
the answer, calls `StreamLLMService.start`, relays the events of the model's client task
through a bounded queue, and in its `finally` block releases the permit and finalizes the
task. `StreamChatService.cancel` goes to the registry first and, if that accepts, to the
limiter. `ModelRoutingExecutor` (tools, RAG, embedding, rerank) and `StreamLLMService` share
one `ModelHealthStore`. Documents go API -> CAS on the status inside a RocketMQ transaction ->
consumer -> pipeline -> status.

The hazards of each component, with the line where they bite, are listed in `PROJECT.json`.

## 2. What is modelled

| Module | Models |
|---|---|
| `Line` | removal from a waiting line |
| `Admission` | an abstract specification: one line, permits given to the first of it only, none after shutdown. It is what is promised, not a translation of code |
| `LeasedAdmission` | an abstract specification of the limiter of several processes: places and permits may be lost, permits go to the first `MaxConcurrent` that are alive, a lease may end |
| `AdmissionProofs` | `Admission` implements `LeasedAdmission` |
| `LocalStreamQueue` | `StreamQueueLimiter` without Redis, with its callers |
| `MCLocalStreamQueue` | its instances for TLC |
| `LineProofs`, `LocalStreamQueueProofs` | lemmas and theorems about it |
| `RedisStreamQueue` | `StreamQueueLimiter` with Redis: its scripts, leases and keys, its requests in several processes, their failures |
| `MCRedisStreamQueue` | its instance for TLC |
| `RedisStreamQueueProofs` | lemmas and theorems about it |
| `ModelStart` | an abstract specification of what `StreamLLMService.start` promises: one model at a time, and an answer for one that was heard |
| `ModelRouting` | `ModelHealthStore`, `ModelRoutingExecutor`, `ModelSelector`, `StreamLLMService.start` and `_FirstTokenStreamCallback` |
| `MCModelRouting` | its instances for TLC |
| `ModelRoutingProofs` | theorems about it |
| `StreamContract` | an abstract specification of what a stream owes to its client, to the conversation, to the admission control and to whoever cancels it |
| `StreamLifecycle` | `StreamChatService.stream` and `cancel`, `_QueueStreamCallback`, `StreamTaskManager` with `RedisCancellationBackend` |
| `MCStreamLifecycle` | its instance for TLC |
| `StreamLifecycleProofs` | theorems about it |
| `SearchableDocument` | an abstract specification of a document as its owner sees it: cut once, found as a whole or not at all |
| `KnowledgeDocument` | `KnowledgeDocumentService` and its repositories, `RocketMqTransactionProducer`, the consumer and `KnowledgeChunkPipeline`, for one document |
| `MCKnowledgeDocument` | its instance for TLC |
| `KnowledgeDocumentProofs` | theorems about it |
| `CondensedMemory` | an abstract specification of what a conversation keeps of what was said: the older part in the gist, the newer part pending for the next compression |
| `ConversationMemory` | `ConversationMemoryService`, its repository and `RedisSummaryCompressionLock`, for one conversation |
| `MCConversationMemory` | its instance for TLC |
| `ConversationMemoryProofs` | theorems about it |

### LocalStreamQueue

One action is the code between two awaits that really suspend. In `_acquire_local` these are
the lock of the condition, `is_disconnected()` (awaited by `should_cancel()` while the lock is
held) and `condition.wait()`. `pc` says at which of them a request stands; `waiting` is
`_local_waiting`, `active` is `_local_active` (a permit is named by its request: permit ids
are fresh), `lock` is the lock of `_local_condition` across awaits, `cancelled` the flags of
the task registry, `cancelling` the calls of `StreamQueueLimiter.cancel` that await the lock,
`service` the phases of `close()`.

* `Arrive`, `Enter`, `Resume`: entry, and a round of the loop up to `should_cancel()`;
  `Admit`, `TimeOut`, `Wait`, `DetectDisconnect`: the rest of the round;
  `Poll`: the poll interval; `NotifyAll`: `notify_all()`.
* `Finish`, `Release`: the `finally` block of the stream. `Cancel`, `CancelWaiter`: the
  registry's flag, then the limiter. `Close`, `CloseNotify`: flag, then lock.
* `Interrupt`, `Unwind`: `CancelledError` in the request's coroutine at each await.
* `Expire`, `Disconnect`: deadline and client. `Recycle`: a later stream under the same id; it
  stands for the unbounded supply of ids (the service makes a UUID for each stream, so none really returns).

Abstracted: the deadline is a flag; `is_disconnected()` may suspend or not, and the model has
an await there in every round (fewer interleavings if it does not); the waiting line is one
entry an id, because the registry refuses an id in use. A later stream under an id needs the
earlier one out of the deque and without a permit; a dead entry (see below) so stays where
it is, as an entry under an id that is never used again does.

### RedisStreamQueue

One action is one Redis command, or one of the two Lua scripts, with the caller's code up to
its next await. `line` with `ahead` is the waiting ZSET (a member, and those of lower score),
`entries` the entry keys, `permits` the permit ZSET (a permit is named by its request), of
which `lapsed` have a score in the past. `tracked` is `_distributed_waiting`, `removing` the
progress of `StreamQueueLimiter.cancel` in whatever process calls it, `service` and
`clearing` the progress of `close()`.

* `Arrive`, `Enqueue`, `Check`, `Claim`: `_acquire_distributed`; `Grant` and `Deny` are the two
  answers of the claim script, `Dead` what it removes. `LeaveLine`, `LeaveEntry`: the two
  commands of `_remove_distributed_waiter` before the request answers; `RemoveLine`,
  `RemoveEntry`: the same for a cancellation.
* `Renew`: the lease task, which cancels its stream when the permit is gone; `LeaseEnds`,
  `EntryExpires`: the clock of Redis.
* `CallFails`, `Interrupt`: the call of a request raises or its coroutine is cancelled; `Perhaps`
  is what Redis may have done by then. `Crash`, `Restart`, `Close` to `CloseClient`: processes.

Abstracted: the wake-up tokens and the claim lock (a round of the loop may come at any time),
the sequence number (only the order of the scores is seen), and the clocks (a deadline, a
TTL and a lease are flags; a TTL is longer than the wait that set it, as `_entry_ttl_seconds`
has it, and only a `Slow` stream renews late). `_unavailable` is raised only by a failed
`start()`, which then closes the limiter: a process that stays `closed`. The check for it in the loop
(`services/stream_queue_limiter.py:369`) is never true once a request is in the line, whatever its comment says
of the listener.

`Shared` maps this state to `LeasedAdmission`: `alive` is `entries`, everything else has its own name. A
claim is a `Grant` or a `Sweep`; the two commands of a removal are a `Leave` and a `Fade`, whoever sends
them and in whichever order with the request's own steps; a crash is no step at all, because in Redis it is
none.

### ModelRouting

`health` is `_health_by_id`; `failures` stops counting at the threshold, the only value the code
tells apart, and `cooling` says that `open_until` has not come. `attempts` is the rest of the
target list of each call of `execute_with_fallback`; its head is being awaited.
`phase`, `candidates` and `fired` are the state of each `StreamLLMService.start`, `feed` the client
task of each candidate with what its callback recorded, `delivered` the models whose output
was forwarded. The order of the candidates (`Orders`) is a constant: it depends on the kind of
request only. `Selected` is a set with one member, the part of the order that is available, so that a
selection is a choice from it. `Unconfigured` models raise in `do_stream_chat`. `TimeOut` is the moment at which the time-out of
`wait_for` cancels the wait; `FallBack` and `Return` are the moment, one or more rounds of the
event loop later, at which `start()` runs again. In between the client task may still forward
a token: `wait_for` answers with the time-out all the same.
`Late` names the models that can come that close to the time-out.

`Start` reads this state as `ModelStart`, which knows nothing of the store, of candidate lists and of the
stages of a client task: `chosen` is the head of `candidates`, `working` the models whose client task is
live, `heard` is `delivered`. A candidate that opens is a `Choose`, an empty list a `GiveUp`, `Return` an `Answer`.

### StreamLifecycle

One action is the code of `stream()` between two awaits that suspend or two yields: at a yield
the coroutine stands until the client has taken the event. `pc` says where; `entry` is the
stream's place in `_tasks` (`"cancelled"` is the flag, and after the end the tombstone); `prep`,
`start` and `model` are the preparation task, the task of `StreamLLMService.start` and the model's client
task, of which the registry's handle is always the latest one bound; `events` and `overflowed` are
`_QueueStreamCallback` and its queue, `heard` says that `response_parts` is not blank, `permits` is
`queue_permit`, `told` the terminal event, `saved` what was persisted; `marker`, `owners` and `messages`
are the keys and the channel in Redis; `canceller` is the progress of a call of
`StreamTaskManager.cancel`, `here` whether it came in at the stream's process.

* `Register`, `RegisterOwner`, `ReadMarker`: `register()`. `Begin` to `AwaitStart`: `stream()` up to
  the loop; `Loop`, `NextEvent`, `HangUpMark`, `HangUp`, `Save`, `SavePart`: the loop and
  `cancelled_payload`; `Leave`: the `finally` block; `Release`, `ClearMarker`, `ClearOwner`, `Forget`:
  release, `finalize()`, TTLs.
* `PreparationEnds`, `Speak`, `ModelEnds`, `StartEnds`: the tasks beside the stream; `Relapse`: `start()`
  leaves a model although its text was pushed, because the time-out came with it. `Ask`, `Mark`,
  `Publish`, `Listen`: a cancellation and the listener that hears of it; one that the stream
  makes itself while it awaits its permit or the preparation is one that comes in here.
* `Interrupt`: `CancelledError` at an await or `GeneratorExit` at a yield.

Abstracted: what `acquire` answers is free (`LocalStreamQueue` and `RedisStreamQueue` say when), and so
is what the preparation and the model do; `register()` may be refused because other streams
fill the registry; a task id is used once, for each stream gets a UUID; tombstone, marker and owner key outlive the
stream, as their TTL is meant to. An event is in the queue at once, although
`call_soon_threadsafe` puts it there a round of the event loop later. `prone` names what may go wrong
for a stream: Redis fails, the broadcast is missed, the coroutine is interrupted, a first token comes as late
as the time-out (`Tardy`); `Troubles` says which of them may come together.

`Contract` maps this state to `StreamContract`: the stage is read off `pc` (`StageOf`), a stream works when its
preparation, its model or the start of its model does (`AtWork`), and is cancelled when the registry has it flagged
(`Flagged`). One step of the code may be two things at once, a cancellation that stops the work or an end that
tells, saves and stops; every await in between is a stutter. Streams that are interrupted or `Tardy`
are not seen: they break the contract, which is the fourth finding and a part of the third.

### KnowledgeDocument

One action is one statement of SQL, or one transaction, with the code around it. A transaction
that deletes rows and inserts others is cut after each DELETE: under READ COMMITTED a DELETE takes only what
was committed when it began, so two such transactions that overlap do not see each other's rows.
`status`, `live` (not `deleted`) and `enabled` are columns of the document's row, `object` the stored
file; `chunks`, `shown` (the enabled ones) and `vectors` the content; `log` the rows of the
chunk log. The chunks of one run of the pipeline are one generation, named by the run, because
their ids are fresh; a vector is a generation and who embedded it.

* `StoreObject`, `InsertDocument`: `upload_file` and `upload_url`.
* `SendHalf`, `LocalTransaction`, `EndTransaction`: `start_chunking`, whose `local_execute` is the
  compare-and-set of the status; `CheckBack`: `check_callback`, asked of any producer of the group;
  `half` and `queue` are what the broker has.
* `Deliver` to `Answer`: `process_message` with the status check, the log row, the work outside the
  database, `replace_chunks_and_vectors_atomic` in its three cuts, and CONSUME_SUCCESS;
  `LogFailure`, `MarkFailed`: its `except` block; `Crash`, `DeadLetter`: the consumer's process and
  the end of redeliveries.
* `CheckChange`, `ListSources`, `WriteChange`, `ChangeFails`: `set_document_enabled`, with the
  embedding awaited between the second and the third.
* `CheckRemoval`, `RemoveChunks`, `Remove`, `RemoveObject`, `RemovalFails`: `delete_document`.

Abstracted: other documents (no statement names two), except that a producer that sends for
another one may be asked about this one (`Strangers`); texts and vectors; a retry after a rollback, which
is a first attempt that comes later. `prone` is the set of troubles of a behaviour. `Weak` names the runs
that troubles of the database and crashes may hit: not all of them, since a message of which every
delivery dies leaves the document RUNNING, whatever the code does.

`Searchable` maps this state to `SearchableDocument`: the stage is status and `live`, the text the
generation of chunks, and the hits are counted from `Selected`, the rows that the query of
`rag/pgvector_retriever.py` joins. A transaction of the pipeline, cut into three here, is one `Finish`, namely when the
status commits; what it has deleted and inserted before is not found, because the query asks for the
status. The mapping sees `Regular` behaviours, in which deliveries and users do not overlap, and the database
does not fail a run (`prone` without `reply`, `duplicate`, `overlap` and `database`); crashes, redeliveries after
them, failing storage and failing embeddings are among them.

### ConversationMemory

One action is one statement, transaction or command of Redis. A message is its `create_time`, by
which the code orders and compares messages; `users` are those of the user, `visible` the rows
that are committed and not deleted. `summary` is the row of `t_conversation_summary` with its last
message and, as a history variable, the user's messages that went into it. `lock` is the key of
`RedisSummaryCompressionLock`, `token` what its instances remember: `get_chat_service` makes a
service, and with it a lock object, for each request, so a turn knows its own token only.

* `LoadSummary`: the first read of `load`. `Context` is what `load` shows beside it if it lists the messages now:
  those after the summary, trimmed by `Trimmed` to `memory_context_max_chars`. It goes into the prompt and is
  not written anywhere, so it is an operator and the second read not an action; properties
  speak of it at every moment at which that read may take place.
* `BeginAppend`, `EndAppend`: `append`, two transactions, of which the second has the time it began at;
  `EndTurn`: a turn whose load or insert fails, which `ChatService.prepare` raises again, or one without a reply.
* `Acquire`, `Release`, `Expire`: the lock; a failing Redis grants it.
* `ReadSummary`, `ListPending`, `Summarize`, `WriteSummary`, `ReadFails`: `compress_if_needed`, with the
  call of the model between reading and writing. `After` is `list_messages_after`; a compression works on all
  of it, `load` on what `Trimmed` leaves.
* `Delete`: `delete_conversation` and `clear_conversations`. `Crash`: a process.

`Condensed` reads this state as `CondensedMemory`: `gist` is what the summary covers, `pending` what the user said
after it, which is in the database word for word and which the next compression reads, `said` the user's visible
messages. An insert of the user's is a `Say`, a
written summary a `Condense`, a deletion a `Clear`, everything else is not seen. It claims nothing of behaviours with
late inserts or with deletions under way (`Regular`), for which the next section says what is lost.

Abstracted: contents (of their lengths `Short` says which messages fit together), titles, other
conversations, the mode without summaries.

## 3. Runs

| Run | Instance | Shows |
|---|---|---|
| `local_queue_safety` | 3 requests, 2 permits, all may disconnect, one may be interrupted, ids used again | type, permits, places, no leak, shutdown, and that the limiter implements `Admission`, whose permits are bounded and go in the order of arrival |
| `local_queue_liveness` | 3 requests, 2 permits, one id used again | every request is answered; a free permit does not stay beside a waiter |
| `local_queue_disconnect` (violation) | 2 requests, 1 permit, one may disconnect | `CancellationAnswered` fails |
| `local_queue_interrupt` (violation) | 2 requests, 1 permit, one may be interrupted | `NoAbandonedWaiter` fails |
| `redis_queue` | 3 requests in 2 processes, 1 permit; one process with one request crashes, shuts down, loses replies, is interrupted, renews late; another request times out or is cancelled, perhaps unheard | bound, leases of streams, nothing left behind, nobody waits for ever, and that the limiter implements `LeasedAdmission`, whose permits go to the first in the line |
| `model_routing_safety` | 3 models in two orders, 2 calls (one interruptible), 1 stream, threshold 2, 1 probe | type, the count behind an open circuit, no fallback after a first token in time, and that `start()` implements `ModelStart`: one working model, an answer for the model that was heard |
| `model_routing_liveness` | 2 models, 3 calls, 1 stream, threshold 2, 2 probes | probes are accounted for, circuits come back, `start()` settles |
| `model_routing_mixed` (violation) | 2 models, 1 stream | `NoMixedOutput` fails |
| `stream_lifecycle` | 1 stream with any of the 8 combinations of Redis failing, a deaf listener and interruptions, or late first tokens with and without Redis failing, a queue of 3 events, any number of cancellations | a cancellation stops the work and ends the stream, the client hears what was saved, nothing is held in the end, and the stream keeps `StreamContract`: work only under the permit, one ending |
| `stream_lifecycle_interrupt` (violation) | the same | `DisconnectStopsPreparation` fails |
| `knowledge_document` | 2 starts, 2 deliveries (one `Weak`), 2 toggles, 1 deletion; no trouble, each trouble alone, crashes with a failing database or with overlapping users | a RUNNING document has a message behind it and ends, an enabled one is found once and as a whole, results are final, document, object and content come and go together, and the document implements `SearchableDocument` |
| `conversation_memory` | 3 turns, every message of the user compressed, two short messages or one long one fit into what is loaded, no trouble, each one, each pair | under the lock a summary only advances; the memory implements `CondensedMemory`: nothing the user said is lost between the summary and what the next compression reads, or is in both; and `load` has no hole between its summary and what it shows, except for messages too long to fit (`LoadHasNoGap`) |

The bounds. Three requests for two permits are the least that has a waiter behind a full
house, a waiter behind a waiter, and a permit that comes free while another is held; one
permit would hide the second grant that only polling finds. In the Redis mode one permit is enough,
because the window and the permits have the same size, and the index up to which a claim looks for
dead entries is 0 instead of `max_concurrent + 16`: with three requests the latter would always reach the
end of the line. The failures are shared out (`Mortal`, `Unlucky`, `Slow`, ...) so that every property has
requests that do not fail beside some that do in every way. Reuse of ids makes histories
unbounded without a counter, so no action has a bound in its guard. For the circuits, a
threshold of two separates the first failure from the one that opens; one probe shows the
refusal of a second caller, two probes the late result of one beside the other (hence three
calls); two orders let two users meet at a model from different positions.
Streams share nothing in `StreamLifecycle` but the size of the registry, so one stream is enough; what
competes are its own tasks, the cancellations and the listener. A queue of three events can be empty,
hold a text, the ending of a model that was left late and a text of the next one, and overflow; with
two, a stream never ends on the former while the latter works. A late first token is combined with
failures of Redis only: the other two need no model to go wrong. `stream_lifecycle` does not check for deadlock because
the stream ends.
For a document two deliveries are the least in which one crashes or fails and another follows, or two
overlap; two toggles switch it off and on again, or overlap; one deletion is all a document can
have. For the memory three turns give a summary, its replacement and a third compression that may meet
either of them, and with `Batch` 1 each of them may compress. Messages are of length 1 and 2 in turn and a budget of 2,
so that a load finds all of them fitting, the oldest not, or only a reply. Both bound nothing else: each request,
delivery and turn is used once, so behaviours end, and the two runs do not check for deadlock. The turns are
symmetric, and that run checks no liveness.
`local_queue_safety` and `local_queue_disconnect` do not check for deadlock: with
disconnections the code can stop, which is the finding of the latter. Symmetry is used only in
`local_queue_safety`, among the requests that cannot be interrupted, and there no liveness is
checked.

### Fairness

In `LocalStreamQueue` every coroutine that can run does run (weak fairness of the steps after
`should_cancel()`, of the poll timer and of the deadline), and asyncio's lock is first in,
first out, so whoever awaits it again and again gets it (strong fairness of the steps that
take the lock). Nothing is assumed of clients, of the callers of `cancel` and `close`, or of
the end of a stream: `EveryRequestAnswered` holds although an admitted stream may run for
ever. In `RedisStreamQueue` Redis and
the event loops go on, TTLs and leases end, and streams end (their clients have time-outs);
deadlines are not assumed to come, so that `EveryoneServed` does not hold because everybody
gives up. In `ModelRouting` an attempt ends (clients have time-outs), the clock runs, `start()` is
resumed, the first-token time-out comes, and a model that is not `Late` sends a
first packet in time, if only an error. In `StreamLifecycle` the coroutine goes on when what it awaits
has come (Redis and the admission answer, the client takes its events: otherwise the server
interrupts it), a cancellation that has begun goes on, and the listener listens. Nothing is assumed of the
preparation or the model: `CancellationEffective` ends a stream whose model is silent for ever,
and `StoppedModelEndsStream` speaks of a model that has stopped. In `KnowledgeDocument` a producer
that has sent goes on, the broker delivers what is not acknowledged as long as deliveries are left, and a
callback goes on, because its calls have time-outs; users owe nothing, and a crash or a failure is never
owed. `ConversationMemory` states no fairness: compression is best effort.

### What the runs found

1. **A disconnected request in the local queue stops the queue**
   (`local_queue_disconnect`). `should_cancel()` is awaited under the condition's lock; when it
   sees the disconnection it calls `StreamChatService.cancel`, which awaits the same lock.
   `src/README.md:170` promises that a queued task can be cancelled immediately, and
   `src/README.md:522-523` that disconnection and the queue are covered. If the server also
   cancels the coroutine on disconnection, the lock is freed and the second finding applies.
2. **A cancelled coroutine leaves its entry in the local queue**
   (`local_queue_interrupt`). The Redis path has `except CancelledError`
   (`services/stream_queue_limiter.py:412-414`), the local one has nothing. A dead entry
   at the head makes all later requests time out.
3. **Two models can answer one stream** (`model_routing_mixed`). If the first-token time-out
   fires in the round of the event loop in which the token is forwarded, the fallback
   goes on, against the docstring at `services/stream_llm_service.py:170-171`. If the first model had
   pushed its last event as well, the stream may end on it and give its permit back while the second model
   works on, which nobody cancels: with `Tardy` streams `WorkUnderPermit` fails, so it is claimed of the others.
4. **A preparation outlives its stream** (`stream_lifecycle_interrupt`). `_await_preparation` shields
   the preparation from the cancellation of its own coroutine, and the `finally` block cancels
   the start of the model and the lease task only. When the server cancels the coroutine of a client that has
   gone, retrieval and its model calls go on after the permit is back, against the docstring at
   `services/stream_chat_service.py:447`. A disconnection that the code's own poll
   sees first does cancel the preparation.

Seen while modelling and kept out of the properties by naming the requests they are claimed
of: a stream cancelled while `release` awaits the lock loses its permit (`NoLeakedPermit`
excludes `Interruptible`), and an interrupted probe is counted in `half_open_in_flight` for
ever, which refuses its model for good (`ProbesAccounted` and `ModelComesBack` are run without
interrupted calls).

In the Redis mode: an enqueue that reaches Redis after `close()` has removed its request leaves a
place and an entry until the TTL ends (`NothingLeftBehind` excludes the `Stopping` processes);
after `close()` a stream that still runs is cancelled by its lease task or ends without giving
its permit back, which then stays until the lease ends, although `src/README.md:174-175` says
that active work retains its permit until its normal release; a request whose process misses the
broadcast of its cancellation waits for its deadline, because markers are read only at
registration (`EveryoneServed` excludes the `Deaf` requests), although the docstring at
`services/stream_task_manager.py:183` says that markers cover missed events; and with two permits
or more a request of rank 1 may overtake the first one any number of times, as the window
promises no more.

In the life of a stream (the properties exclude `Interruptible` streams, `CancellationEffective` also
those for which Redis fails or the listener is deaf): an interruption of `register()`, which is awaited outside
the `try` block (`services/stream_chat_service.py:67`), leaves a live entry that never expires; an
interrupted stream whose flag is down leaves its model working until the queue overflows,
because the `finally` block cancels the handle only of a cancelled stream (line 364); an
interruption during the save of a flagged stream may save the answer twice, once whole and once as a part.

In the life of a document (the properties name the troubles they exclude):

* The broker may ask any producer of the group about a half message, and `check_callback`
  (`services/rocketmq_transaction_producer.py:82`) answers from what its own send has recorded. After a lost
  reply it may commit a message whose compare-and-set failed, although `src/README.md:325`
  says that such a message is not delivered (the pipeline then refuses it by its status), or roll back
  one whose document is RUNNING. Such a document stays RUNNING for ever: it can neither be
  started, toggled nor deleted. Hence `"reply" \notin prone` in `MessageBehindRunning` and `RunningEnds`.
* FAILED is final for the user too: a start takes PENDING only, a redelivery RUNNING only. A start that
  RocketMQ rolls back raises a KeyError where the code means to answer 409: `transaction_state["target"]`
  (`services/knowledge_document_service.py:247`) is read although the callback has not set it.
* Two deliveries of one message that overlap may both insert their chunks, and a late failure
  of one turns the other's SUCCESS into FAILED (`Exclusive`). A single delivery does the same to itself when
  `mark_chunk_log_success` fails after the content is committed (`"database"` in `EndedStays`).
* A toggle that was checked at PENDING and written after SUCCESS writes the vectors of the chunks it
  saw, none (`"overlap"` in `EnabledIsFound`). A replacement whose commit lost its reply is
  tried again, after a deletion too, and its chunks come back (`"database"` in `AllOrNothing`).
* A failed insert or a failed removal leaves an object without a document. `AllOrNothing` speaks of
  documents that were inserted, and excludes `"storage"`.

In the memory of a conversation: a summary drafted before a deletion and written after it brings the deleted
words back, and because its last message is deleted `list_messages_after` compares with NULL: no later
message is loaded from then on (`"deletion"` in `NoUserTurnLost`, `LoadHasNoGap` and `DeletedStaysGone`). An
insert that commits late may be passed over by a summary (`"late"`). When the lock ends early or Redis fails, a
summary may be replaced by one that contains less, which loses nothing, for the rest is
pending again (`SummaryAdvances` excludes them, `NoUserTurnLost` does not). What is pending is not all shown:
messages that do not fit into `memory_context_max_chars` are in neither the summary nor the prompt until a compression
has a batch to read, as `test_load_trims_context_to_budget_and_keeps_user_start` has it; the promise is of what is kept,
and `LoadHasNoGap` says which part of it a turn sees. A conversation that was deleted stays
unlisted although new messages are added to it: ON CONFLICT does not reset its flag.

## 4. Proofs

`LineProofs` has the lemmas on the line: what remains when an element is removed, joins or is popped.
`LocalStreamQueueProofs` proves, for every finite or infinite `Task` and every positive
`MaxConcurrent` (assumptions `MaxConcurrentAssumption`, `EnvironmentAssumption`,
`NoTaskAssumption`):

| Theorem | States |
|---|---|
| `Invariance` | `Spec => []IInv` |
| `TypeCorrect`, `Bounded`, `PermitsKept`, `NoPermitLeaks`, `WaitersLive`, `PlacesKept` | the invariants of `local_queue_safety` |
| `ShutdownFinal` | `ClosedQueueDrains` |
| `Refinement` | `Spec` implements `Admission` |
| `SharedRefinement` | `Spec` implements `LeasedAdmission` |
| `OnlyInterruptsAbandon` | if no request is interrupted, `NoAbandonedWaiter` |

The argument. None of the safety properties is inductive alone. That a permit goes to a
request that does not hold one needs that whoever stands in the deque runs the loop
(`UninterruptedWaitersLive`) and that newcomers are outside (`NewcomersOutside`); that the
deque holds nobody twice needs the same. `InLineUnlessCancelled` needs that whoever awaits the
lock in `cancel` has raised the flag (`FlagBeforeRemoval`). `ClosedQueueDrains` needs that
nobody is between two awaits of a round when `close()` gets the lock (`LockDiscipline`,
`LockFreeWhenClosed`): every later round reads `_closing` at its top. `IInv` is the
conjunction; the proof has one step for each action. The refinement maps `line` to
`waiting`, `permits` to `active` and `open` to `service # "closed"`: a grant in the model takes
the head of the deque with a permit free, everything else is a join, a departure, a
return, the shutdown or a stutter. A request that cannot join the deque because
the service is closed joins and leaves in one step of the code, which is a stutter.

`RedisStreamQueueProofs` proves, for every `Task`, `Node`, `Home`, `ScanLimit`, positive
`MaxConcurrent` and every distribution of the failures (assumptions `LimitAssumption`,
`HomeAssumption`, `EnvironmentAssumption`):

| Theorem | States |
|---|---|
| `Invariance` | `Spec => []IInv` |
| `TypeCorrect`, `Bounded`, `LeasesKept`, `NothingStays` | the invariants of `redis_queue` |
| `WindowKept` | `GrantsInWindow`, which the next one implies |
| `SharedRefinement` | `Spec` implements `LeasedAdmission` |

The argument goes command by command: `TakeOutOrdered`, `EnqueueOrdered` (the ZSET stays in
order), `GrantBounded`, `LeasesShrink` (the bound), `PerhapsKeeps` (a call that ends badly may have
been run or not). The bound is inductive once the permits are known to be finite and to include the
lapsed ones: the claim script sweeps before it counts. `NothingLeftBehind` is not inductive: one
has to know at every place of the coroutine what the request may have in Redis, namely
nothing before it enqueues, no place once the ZREM has been answered, and a permit only
while the stream runs (`Traces`); and that no other request's call gives it anything
(`PerhapsIsOwn`). `GrantsInWindow` needs that the ZSET is finite, which follows because every
member was enqueued by a step of its own. For the refinement each command is shown to be one step of
`LeasedAdmission`; what makes it hold is again `Traces`, for `Join` wants a request that has neither an entry nor a
permit, and that dead places are all a claim removes beside its own.

`AdmissionProofs` proves that `Admission` implements `LeasedAdmission`, for every `Task` and positive `MaxConcurrent`: the
head of the line has nobody before it, and lemmas on what precedes whom in a sequence (`PrecedingJoin` and its
companions) say what joining, leaving and popping do to the order. With `Refinement` it gives
`SharedRefinement` of the in-process limiter: both modes of `StreamQueueLimiter`
keep one promise, which is what `StreamChatService` relies on when it calls either.

`ModelRoutingProofs` proves, for every set of models, streams and orders, every finite set of calls, every positive
threshold and limit on probes (assumptions `ThresholdAssumption`, `OrdersAssumption`,
`CallerAssumption`):

| Theorem | States |
|---|---|
| `Invariance` | `Spec => []IInv` |
| `TypeCorrect`, `OpenRemembers`, `SpokenIsKept`, `ProbesReport` | the invariants of `model_routing_safety`, and `ProbesAccounted` |
| `OneModelAtWork` | `OneLiveFeed`: at most one model works for a stream, the current candidate |
| `StartRefinement` | `Spec` implements `ModelStart` |
| `OnlyLateMix` | if no model is `Late`, `NoMixedOutput` |

Any caller may report a late result into any state of a circuit, so what a circuit remembers is
inductive only together with what it does not count (`Known`: not closed means threshold reached, not half open
means no probe counted). For a stream (`Candidacy`) only the current candidate can have a live client
task; as long as that one has not spoken the user has not heard it, and once a model that is not late has been heard it is
the current one for good. `ProbesAccounted` counts attempts, so its proof moves
one call in or out of a finite set at a time.

The refinement needs the converse of what `Candidacy` says (`Told`): a client task that is past its first token has
been heard, and the one `start()` returned for is not silent. The loop over the candidates is met twice, in `BeginStream`
and in `FallBack`; `CandidateStarts` treats it once, for any store and any client tasks that are not live.

`StreamLifecycleProofs` proves, for every set of streams, every positive capacity of the callback queue
(assumption `CapacityAssumption`), any number of cancellations and every choice of the troubles that may come
together (`TroubleAssumption`):

| Theorem | States |
|---|---|
| `Invariance` | `Spec => []IInv` |
| `TypeCorrect`, `CancellationStopsWork`, `ToldWhatIsSaved`, `EndedHoldsNothing` | the invariants of `stream_lifecycle` |
| `PermitCoversWork` | `WorkUnderPermit`, which the next one implies |
| `ContractRefinement` | `Spec` implements `StreamContract` |
| `OnlyInterruptsLeavePreparation` | a preparation that outlives its stream is that of an interrupted stream |

`pc` decides nearly everything: `Stage` says which permit, entry and owner a stream has at each place,
`Jobs` which of its tasks may work there and what binding and flag have done to them, `Outcome`
what may have been told and saved. All three are claimed of streams that are not interrupted. Of `Tardy` streams
`Jobs` does not claim that the last event in the queue is the last one of the model at work, nor that the model
has stopped when the stream leaves; nothing else is lost, so a cancellation stops their work too, they are told
what was saved, and they hold nothing in the end.

The refinement needs more of `Stage` than the invariants did: that a stream that has not yet asked for the answer has
heard nothing, so that a rejection saves no part, and that one that is hanging up is flagged already.
`ViewFacts` says what the mapping makes of one stream; `OneMoves`, that a step of the code moves only
one stream in that view, the stream's own or the one that a cancellation names; `StageFacts`, what a place of
the coroutine amounts to. A step of a regular stream is then one step of the contract (`SeenIsContract`), and
anything else is not seen (`Unseen`).

`KnowledgeDocumentProofs` proves, for every number of starts, deliveries, toggles and removals
and every choice of troubles (assumptions `RunAssumption`, `DisjointAssumption`,
`TroubleAssumption`):

| Theorem | States |
|---|---|
| `Invariance` | `Spec => []IInv` |
| `TypeCorrect`, `RunningHasMessage`, `FoundAsAWhole`, `ComesAndGoesTogether` | the invariants of `knowledge_document` |
| `EndedIsFinal` | `EndedStays` |
| `DocumentRefinement` | `Spec` implements `SearchableDocument` |

The argument. Without lost replies one start at most has taken the document, and its message is
with the broker until the run that works on it has decided the status (`Fate`, `Taken`). In an
`Exclusive` behaviour one run works at a time and only while the document is RUNNING (`Solo`), so it meets
neither a toggle nor a removal (`Apart`), unless users overlap. What a transaction has deleted is then all there
was when it inserts (`Fresh`, `SourcesOK`), which gives `Whole`, and `Gone` for a deleted document.

The refinement needs two things besides. A toggle writes the wish it was given when it was checked, so a regular
document must still have the other one then (`Wishes`); and a document of which a run has just inserted
chunks is not found before the status commits, because `Selected` asks for SUCCESS. `HitsWhole` turns
the inductive invariant into the number of hits: one vector for every chunk that is shown, and none else.

`ConversationMemoryProofs` proves, for every number of turns, every positive `Batch`, all lengths of messages and
every choice of troubles (assumptions `BatchAssumption`, `TroubleAssumption`, and `ShortAssumption`: part of what fits, fits):

| Theorem | States |
|---|---|
| `Invariance` | `Spec => []IInv` |
| `TypeCorrect` | the type invariant |
| `DeletionIsFinal` | `DeletedStaysGone`: a deletion between turns is final, also with late inserts (`ImplementsCondensed` says it of regular behaviours, and is what the run checks) |
| `LockedSummariesAdvance` | `SummaryAdvances` |
| `NothingForgotten` | `NoUserTurnLost`: what the user said is in the summary or among the messages after it, which the next compression reads |
| `LoadShowsTheRest` | `LoadHasNoGap`: `load` shows what its summary does not cover, from the newest as far back as fits |
| `MemoryRefinement` | it implements `CondensedMemory` |

A summary that is written is one that was drafted, and a draft is what was read and what was listed
then. So one fact is claimed of all three, the written, the read and the drafted one: it covers
what the user said up to its last message (`AllAccounted`), and nothing that is deleted (`AllVisible`). It survives
every interleaving because messages arrive only after all others (`InsertsInOrder`). `SummaryAdvances` needs
besides that only the holder of the lock compresses and that the summary has not changed since it was
read (`HolderAlone`).

The refinement needs the other direction too: a summary covers nothing later than its last message, or the
cut would not be one (`Inside`), a draft is a batch more than what it was made from (`Batched`), and an
insert under way is later than all the user ever said, deleted messages included (`Newest`). `Halves`
then says that gist and pending messages are what was said, the gist first. `LoadHasNoGap` is the same cut (`CutFacts`), made at
the summary that `load` has read, which accounts for its part however old it is by now; `TrimmedKeepsNewest` then says
what the trim takes away. That a `Condense` keeps the gist and adds a
batch to it is `HolderAlone` again: the draft was made from the summary it replaces.

Only model-checked: all liveness (`EveryRequestAnswered`, `FreePermitServed`, `EveryoneServed`,
`ModelComesBack`, `StartSettles`, `CancellationEffective`, `StoppedModelEndsStream`, `RunningEnds`), since
fairness and ENABLED are out of the prover's reach, and the four violations. Of three of the violated properties it
is proved instead what they depend on: `NoAbandonedWaiter`, `NoMixedOutput` and `DisconnectStopsPreparation` hold wherever
no request is interrupted, no model comes as late as the time-out, and no stream is interrupted.

## 5. Not modelled

The rest of section 1, with its reasons in `PROJECT.json`. `StreamLifecycle` does not compose the
modules of the limiter and of the routing, it has their answers instead. Of the knowledge base, changing a document's name and splitting options is
left out, which no modelled step reads, and so are knowledge bases and listings; of the
memory, `list_recent_turn_messages`. The wording of events and prompts, request bodies,
SQL text and object storage are I/O.

`src/frontend` has five pages that call the API, and libraries for them. Its JavaScript files, `js/vue.js`,
`js/marked.umd.js` and `js/element.js` among them, are the distributed bundles of Vue, marked and Element,
third-party code that this repository does not write: they are no part of the system and no module is
about them. The modules translate the Python service, where all of the repository's own logic is.

## 6. Plan

In this order; each module gets its runs, its mutants and, where noted, its theorems.

1. `Admission`, `LocalStreamQueue` - done, proved, with `LeasedAdmission` as the promise of both modes.
2. `ModelRouting` - done, safety proved, and that it implements `ModelStart`.
3. `RedisStreamQueue` - done, safety proved, and that it implements `LeasedAdmission`.
4. `StreamLifecycle` - done, with the task registry in it, safety proved, and that it implements `StreamContract`.
5. `KnowledgeDocument` - done, safety proved, and that it implements `SearchableDocument`.
6. `ConversationMemory` - done, safety proved, and that it implements `CondensedMemory`.
7. `UploadLimiter`: leased permits of uploads, another instance of the abstract leased semaphore.
8. Pure algorithms against reference definitions in one MC module: capping of intents,
   merging of channels, fixed-size splitting, trimming to the budget, sorting of candidates.
9. Composition of `StreamLifecycle` with the limiter, in place of the free answers.

Runs stay on instances of two or three of each kind of actor and end within minutes;
each run answers one question, and safety is separated from liveness except where one instance
serves both.
