-------------------------- MODULE ConversationMemory --------------------------
(***************************************************************************)
(* The memory of one conversation: turns that load the memory and store    *)
(* the user's message and the reply, the compression of older messages     *)
(* into a summary that runs in the background under a lock in Redis, and   *)
(* the deletion of the conversation.                                       *)
(*                                                                         *)
(* Every request has a ChatService, and with it a lock object, of its own, *)
(* so a turn knows no token but its own; the turns run in processes of     *)
(* their own, which is the most that can interleave.  One action is one    *)
(* statement, transaction or call of Redis.  A message is its create_time: *)
(* messages of one conversation are only ever ordered and compared by it.  *)
(* Of their contents only the length matters, and only to load: whether    *)
(* some messages are together within the characters that it may show.      *)
(***************************************************************************)
EXTENDS Naturals, FiniteSets

CONSTANTS
  Turn,       \* requests of the user in this conversation
  Batch,      \* memory_summary_batch_size
  Short,      \* the sets of messages that are within memory_context_max_chars
  Troubles    \* the sets of troubles that are considered together

(***************************************************************************)
(* late: an insert commits after one that has begun later; deletion: the   *)
(* conversation is deleted while a turn is under way; lapse: a turn works  *)
(* longer than the time-to-live of its lock; redis: calls of Redis fail;   *)
(* crash: a process dies.                                                  *)
(***************************************************************************)
Trouble == {"late", "deletion", "lapse", "redis", "crash"}

ASSUME BatchAssumption == Batch \in Nat \ {0}
ASSUME ShortAssumption == \A M \in Short : SUBSET M \subseteq Short
ASSUME TroubleAssumption == Troubles \subseteq SUBSET Trouble

VARIABLES
  clock,         \* the last create_time
  conversation,  \* row of t_conversation: "none", "listed" or "deleted"
  users,         \* messages of the user, deleted ones too
  visible,       \* rows of t_message that are committed and not deleted
  summary,       \* the row of t_conversation_summary that is not deleted
  lock,          \* the turn whose token is in Redis, if any
  token,         \* turns that remember their token
  at,            \* progress of each turn
  stamp,         \* create_time of the message a turn inserts
  base,          \* the summary a load or a compression has read
  draft,         \* the summary it is going to write
  prone          \* the troubles of this behaviour; it never changes

vars == <<clock, conversation, users, visible, summary, lock, token, at, stamp, base, draft, prone>>

messages == <<clock, conversation, users, visible, stamp>>
locking == <<lock, token>>
compression == <<summary, base, draft>>

(* covers: the user's messages that went into the content. *)
Summary == [live : BOOLEAN, last : Nat, covers : SUBSET Nat]

NoSummary == [live |-> FALSE, last |-> 0, covers |-> {}]

Inserting == {"asking", "replying"}
Compressing == {"reading", "listing", "summarizing", "writing", "releasing"}

Init ==
  /\ clock = 0
  /\ conversation = "none"
  /\ users = {} /\ visible = {}
  /\ summary = NoSummary
  /\ lock = {} /\ token = {}
  /\ at = [t \in Turn |-> "idle"]
  /\ stamp = [t \in Turn |-> 0]
  /\ base = [t \in Turn |-> NoSummary]
  /\ draft = [t \in Turn |-> NoSummary]
  /\ prone \in Troubles

Move(t, place) == at' = [at EXCEPT ![t] = place]

(***************************************************************************)
(* list_messages_after: all messages without a summary; those later than   *)
(* the last one it contains; none when that one is deleted, for then the   *)
(* time they are compared with is NULL.                                    *)
(***************************************************************************)
After(s) ==
  IF s.live THEN {m \in visible : s.last \in visible /\ m > s.last} ELSE visible

(* normalize_history: replies before the first message of the user are dropped. *)
Normalized(M) == {m \in M : \E u \in users \cap M : u <= m}

Pending(s) == Normalized(After(s))

LastOf(M) == CHOOSE m \in M : \A n \in M : n <= m

(***************************************************************************)
(* _trim_messages_to_budget: the newest message, and as many before it as  *)
(* fit with it, from a message of the user on.  If these are replies only, *)
(* it is the user's newest message instead, of whatever length.            *)
(***************************************************************************)
Trimmed(M) ==
  LET normalized == Normalized(M)
      selected == {m \in normalized : m = LastOf(normalized) \/ {n \in normalized : n >= m} \in Short}
      trimmed == Normalized(selected)
  IN IF trimmed = {} /\ normalized # {} THEN {LastOf(users \cap normalized)} ELSE trimmed

(* Faulty variant: the messages after the summary that is stored by now. *)
ContextOfStored(t) == Trimmed(After(summary))

(***************************************************************************)
(* What load shows beside the summary it has read, if it lists the         *)
(* messages now.  It is read once, for the prompt, and changes nothing.    *)
(***************************************************************************)
Context(t) == Trimmed(After(base[t]))

(* The locals of load and of compress_if_needed end with them. *)
Forget(t) ==
  /\ base' = [base EXCEPT ![t] = NoSummary]
  /\ draft' = [draft EXCEPT ![t] = NoSummary]

-----------------------------------------------------------------------------
(* load_and_append: load reads the summary, and then lists the messages,   *)
(* which is Context.                                                       *)

LoadSummary(t) ==
  /\ at[t] = "idle"
  /\ base' = [base EXCEPT ![t] = summary]
  /\ Move(t, "loading")
  /\ UNCHANGED <<messages, summary, draft, locking, prone>>

(* append, for the user's message and for the reply: the conversation's    *)
(* row in a transaction of its own, then the message in another.           *)

(* Faulty variant: only a reply makes sure that the conversation has a row. *)
BeginAppendUnlisted(t) ==
  /\ at[t] \in {"loading", "waiting"}
  /\ "late" \in prone \/ \A u \in Turn : at[u] \notin Inserting
  /\ clock' = clock + 1
  /\ stamp' = [stamp EXCEPT ![t] = clock + 1]
  /\ conversation' = IF conversation = "none" /\ at[t] = "waiting" THEN "listed" ELSE conversation
  /\ Move(t, IF at[t] = "loading" THEN "asking" ELSE "replying")
  /\ Forget(t)
  /\ UNCHANGED <<users, visible, summary, locking, prone>>

BeginAppend(t) ==
  /\ at[t] \in {"loading", "waiting"}
  /\ "late" \in prone \/ \A u \in Turn : at[u] \notin Inserting
  /\ clock' = clock + 1
  /\ stamp' = [stamp EXCEPT ![t] = clock + 1]
  /\ conversation' = IF conversation = "none" THEN "listed" ELSE conversation
  /\ Move(t, IF at[t] = "loading" THEN "asking" ELSE "replying")
  /\ Forget(t)
  /\ UNCHANGED <<users, visible, summary, locking, prone>>

EndAppend(t) ==
  /\ at[t] \in Inserting
  /\ visible' = visible \cup {stamp[t]}
  /\ users' = IF at[t] = "asking" THEN users \cup {stamp[t]} ELSE users
  /\ Move(t, IF at[t] = "asking" THEN "waiting" ELSE "saved")
  /\ UNCHANGED <<clock, conversation, stamp, compression, locking, prone>>

(***************************************************************************)
(* The memory cannot be loaded or a message not be inserted: the failure   *)
(* is raised again and ends the request (that of a request which the queue *)
(* rejects is only logged), and nothing is compressed.  Or there is no     *)
(* reply to insert.                                                        *)
(***************************************************************************)
EndTurn(t) ==
  /\ at[t] \in Inserting \cup {"loading", "waiting"}
  /\ Move(t, "over")
  /\ Forget(t)
  /\ UNCHANGED <<messages, summary, locking, prone>>

-----------------------------------------------------------------------------
(* RedisSummaryCompressionLock.                                            *)

(* Faulty variant: SET without NX. *)
AcquireAnyway(t) ==
  /\ at[t] = "saved"
  /\ lock' = {t} /\ token' = token \cup {t}
  /\ Move(t, "reading")
  /\ UNCHANGED <<messages, compression, prone>>

(* A call of Redis that fails grants the lock, and leaves no token. *)
Acquire(t) ==
  /\ at[t] = "saved"
  /\ \/ lock = {} /\ lock' = {t} /\ token' = token \cup {t} /\ Move(t, "reading")
     \/ lock # {} /\ Move(t, "over") /\ UNCHANGED locking
     \/ /\ "redis" \in prone
        /\ lock' \in {lock} \cup (IF lock = {} THEN {{t}} ELSE {})
        /\ Move(t, "reading") /\ UNCHANGED token
  /\ UNCHANGED <<messages, compression, prone>>

(* The script deletes the key only if it holds this turn's token. *)
Release(t) ==
  /\ at[t] = "releasing"
  /\ lock' \in {IF t \in token THEN lock \ {t} ELSE lock} \cup
               (IF "redis" \in prone THEN {lock} ELSE {})
  /\ token' = token \ {t}
  /\ Move(t, "over")
  /\ Forget(t)
  /\ UNCHANGED <<messages, summary, prone>>

(* The time-to-live of the key is over. *)
Expire ==
  /\ lock # {}
  /\ "lapse" \in prone \/ \A t \in lock : at[t] \notin Compressing
  /\ lock' = {}
  /\ UNCHANGED <<messages, compression, token, at, prone>>

-----------------------------------------------------------------------------
(* compress_if_needed.                                                     *)

ReadSummary(t) ==
  /\ at[t] = "reading"
  /\ base' = [base EXCEPT ![t] = summary]
  /\ Move(t, "listing")
  /\ UNCHANGED <<messages, summary, draft, locking, prone>>

ListPending(t) ==
  /\ at[t] = "listing"
  /\ LET pending == Pending(base[t])
         asked == pending \cap users
     IN IF Cardinality(asked) >= Batch
        THEN /\ draft' = [draft EXCEPT ![t] = [live |-> TRUE, last |-> LastOf(pending),
                                               covers |-> base[t].covers \cup asked]]
             /\ Move(t, "summarizing")
        ELSE /\ Move(t, "releasing")
             /\ UNCHANGED draft
  /\ UNCHANGED <<messages, summary, base, locking, prone>>

(* The model's answer is awaited; a failure or an empty answer writes nothing. *)
Summarize(t) ==
  /\ at[t] = "summarizing"
  /\ \E place \in {"writing", "releasing"} : Move(t, place)
  /\ UNCHANGED <<messages, compression, locking, prone>>

(* Faulty variant: the summary is dated when it is written. *)
WriteSummaryUpToNow(t) ==
  /\ at[t] = "writing"
  /\ summary' = IF visible = {} THEN draft[t] ELSE [draft[t] EXCEPT !.last = LastOf(visible)]
  /\ Move(t, "releasing")
  /\ UNCHANGED <<messages, base, draft, locking, prone>>

(***************************************************************************)
(* upsert_summary: UPDATE of the row that is not deleted, or INSERT.  It   *)
(* does not look at what it replaces.  It fails on the unique index if two *)
(* insert at once.                                                         *)
(***************************************************************************)
WriteSummary(t) ==
  /\ at[t] = "writing"
  /\ summary' \in {draft[t], summary}
  /\ Move(t, "releasing")
  /\ UNCHANGED <<messages, base, draft, locking, prone>>

(* A read of the database fails. *)
ReadFails(t) ==
  /\ at[t] \in {"reading", "listing"}
  /\ Move(t, "releasing")
  /\ UNCHANGED <<messages, compression, locking, prone>>

(* The process dies, also before the background task has begun. *)
Crash(t) ==
  /\ "crash" \in prone
  /\ at[t] \in Inserting \cup Compressing \cup {"loading", "waiting", "saved"}
  /\ token' = token \ {t}
  /\ Move(t, "over")
  /\ Forget(t)
  /\ UNCHANGED <<messages, summary, lock, prone>>

-----------------------------------------------------------------------------
(* delete_conversation and clear_conversations, one transaction.           *)

Delete ==
  /\ visible # {}
  /\ "deletion" \in prone \/ \A t \in Turn : at[t] \in {"idle", "over"}
  /\ conversation' = "deleted"
  /\ visible' = {}
  /\ summary' = NoSummary
  /\ UNCHANGED <<clock, users, stamp, base, draft, locking, at, prone>>

-----------------------------------------------------------------------------

Next ==
  \/ \E t \in Turn :
       \/ LoadSummary(t) \/ BeginAppend(t) \/ EndAppend(t) \/ EndTurn(t)
       \/ Acquire(t) \/ Release(t)
       \/ ReadSummary(t) \/ ListPending(t) \/ Summarize(t) \/ WriteSummary(t) \/ ReadFails(t)
       \/ Crash(t)
  \/ Expire \/ Delete

Spec == Init /\ [][Next]_vars

-----------------------------------------------------------------------------
(* Properties.                                                             *)

(* Every variable has its type; one turn at most has its token in Redis,   *)
(* and a message is in a conversation that has a row.                      *)
TypeOK ==
  /\ clock \in Nat
  /\ conversation \in {"none", "listed", "deleted"}
  /\ users \subseteq 1 .. clock /\ visible \subseteq 1 .. clock
  /\ summary \in Summary
  /\ lock \subseteq Turn /\ token \subseteq Turn
  /\ \A t, u \in lock : t = u
  /\ at \in [Turn -> {"idle", "loading", "waiting", "saved", "over"} \cup Inserting \cup Compressing]
  /\ stamp \in [Turn -> 0 .. clock]
  /\ base \in [Turn -> Summary]
  /\ draft \in [Turn -> Summary]
  /\ prone \in SUBSET Trouble
  /\ visible # {} => conversation # "none"

(***************************************************************************)
(* What the user is promised is claimed where inserts commit in their      *)
(* order and nobody deletes the conversation while a turn is under way.    *)
(***************************************************************************)
Regular == prone \cap {"late", "deletion"} = {}

(***************************************************************************)
(* compress_if_needed: what the user has said is in the summary, or among  *)
(* the messages after it, of which load shows the newest and the next      *)
(* compression reads all; whoever compresses, however often and with or    *)
(* without the lock.                                                       *)
(***************************************************************************)
NoUserTurnLost == Regular => users \cap visible \subseteq After(summary) \cup summary.covers

(***************************************************************************)
(* load: although the summary and the messages are read one after the      *)
(* other, and compressions write in between, a turn is shown everything    *)
(* the user has said, once, except what is too long to be shown with all   *)
(* that is newer; and of that it is still shown a newer message.           *)
(***************************************************************************)
LoadHasNoGap ==
  Regular =>
    \A t \in Turn : at[t] = "loading" =>
      /\ Context(t) \cap base[t].covers = {}
      /\ \A u \in (users \cap visible) \ (base[t].covers \cup Context(t)) :
           /\ {m \in visible : m >= u} \notin Short
           /\ \A m \in Context(t) : u < m
           /\ Context(t) \cap users # {}

(***************************************************************************)
(* After a deletion nothing of what was deleted comes back in a summary.   *)
(***************************************************************************)
DeletedStaysGone ==
  "deletion" \notin prone => summary.covers \subseteq visible

(***************************************************************************)
(* The lock keeps compressions apart: a summary is never replaced by one   *)
(* that contains less of the conversation, nor is it made twice.           *)
(***************************************************************************)
SummaryAdvances ==
  [][prone \cap {"lapse", "redis"} = {} /\ summary.live /\ summary'.live /\ summary' # summary =>
       /\ summary'.last > summary.last
       /\ summary.covers \subseteq summary'.covers]_vars

(***************************************************************************)
(* The state as CondensedMemory sees it; behaviours that are not regular   *)
(* are not seen in it.                                                     *)
(***************************************************************************)
Condensed ==
  INSTANCE CondensedMemory WITH
    said <- IF Regular THEN users \cap visible ELSE {},
    gist <- IF Regular THEN summary.covers ELSE {},
    pending <- IF Regular THEN users \cap After(summary) ELSE {},
    serial <- prone \cap {"lapse", "redis"} = {}

(* Whatever turns, compressions, failures and crashes come together, the   *)
(* summary and the messages that the next compression reads are everything *)
(* the user has said, cut at one point, and under the lock that point      *)
(* moves by batches.                                                       *)
ImplementsCondensed == Condensed!MemorySpec

=============================================================================
