---------------------------- MODULE StreamContract ----------------------------
(***************************************************************************)
(* What a stream owes: to its client one ending, to the conversation the   *)
(* reply that this ending announces, to the admission control a permit     *)
(* that covers all its work, and to whoever cancels it that nothing is     *)
(* begun any more.                                                         *)
(***************************************************************************)
CONSTANT Task   \* streams

VARIABLES
  stage,      \* "new", "queued", "admitted", "concluded", "ended"
  permits,    \* the streams that hold a permit
  working,    \* the streams for which a preparation or a model is at work
  cancelled,  \* the streams whose cancellation has been taken note of
  told,       \* the endings the client has been told of
  saved       \* the replies saved

contractVars == <<stage, permits, working, cancelled, told, saved>>

-----------------------------------------------------------------------------

ContractInit ==
  /\ stage = [t \in Task |-> "new"]
  /\ permits = {}
  /\ working = {}
  /\ cancelled = {}
  /\ told = [t \in Task |-> <<>>]
  /\ saved = [t \in Task |-> <<>>]

Reach(t, there) == stage' = [stage EXCEPT ![t] = there]

Enter(t) ==
  /\ stage[t] = "new"
  /\ Reach(t, "queued")
  /\ UNCHANGED <<permits, working, cancelled, told, saved>>

(* A stream that is not accepted is told so, and forgotten with its cancellation. *)
Refuse(t) ==
  /\ stage[t] \in {"new", "queued"}
  /\ Reach(t, "ended")
  /\ told' = [told EXCEPT ![t] = <<"error">>]
  /\ cancelled' = cancelled \ {t}
  /\ UNCHANGED <<permits, working, saved>>

Admit(t) ==
  /\ stage[t] = "queued"
  /\ Reach(t, "admitted")
  /\ permits' = permits \cup {t}
  /\ UNCHANGED <<working, cancelled, told, saved>>

(* Work begins under a permit, and not after a cancellation. *)
BeginWork(t) ==
  /\ stage[t] = "admitted"
  /\ t \in permits \ cancelled
  /\ working' = working \cup {t}
  /\ UNCHANGED <<stage, permits, cancelled, told, saved>>

EndWork(t) ==
  /\ working' = working \ {t}
  /\ UNCHANGED <<stage, permits, cancelled, told, saved>>

(* A cancellation is taken note of, and stops the work if it can be reached. *)
Cancel(t) ==
  /\ stage[t] \in {"queued", "admitted", "concluded"}
  /\ cancelled' = cancelled \cup {t}
  /\ working' \in {working, working \ {t}}
  /\ UNCHANGED <<stage, permits, told, saved>>

(* The stream comes to its end: nothing works for it, the client is told how it ended, *)
(* and the reply is saved, all at once and once for all.                               *)
Conclude(t, how, reply) ==
  /\ Reach(t, "concluded")
  /\ working' = working \ {t}
  /\ told' = [told EXCEPT ![t] = how]
  /\ saved' = [saved EXCEPT ![t] = reply]
  /\ UNCHANGED permits

Reject(t) ==
  /\ stage[t] = "queued"
  /\ \E reply \in {<<>>, <<"rejection">>} : Conclude(t, <<"reject">>, reply)
  /\ UNCHANGED cancelled

Fail(t) ==
  /\ stage[t] \in {"queued", "admitted"}
  /\ Conclude(t, <<"error">>, <<>>)
  /\ UNCHANGED cancelled

Finish(t) ==
  /\ stage[t] = "admitted"
  /\ Conclude(t, <<"finish">>, <<"full">>)
  /\ UNCHANGED cancelled

(* What has been relayed of a cancelled answer is saved, if that works. *)
Stop(t) ==
  /\ t \in cancelled
  /\ \/ stage[t] = "queued" /\ Conclude(t, <<"cancel">>, <<>>)
     \/ stage[t] = "admitted" /\ \E reply \in {<<>>, <<"part">>} : Conclude(t, <<"cancel">>, reply)
  /\ UNCHANGED cancelled

(* A client that has gone is told nothing; its stream counts as cancelled. *)
HangUp(t) ==
  /\ stage[t] = "admitted"
  /\ \E reply \in {<<>>, <<"part">>} : Conclude(t, <<>>, reply)
  /\ cancelled' = cancelled \cup {t}

(* The permit goes back when all is said and done. *)
Release(t) ==
  /\ stage[t] = "concluded"
  /\ Reach(t, "ended")
  /\ permits' = permits \ {t}
  /\ UNCHANGED <<working, cancelled, told, saved>>

Forget(t) ==
  /\ stage[t] = "ended"
  /\ cancelled' = cancelled \ {t}
  /\ UNCHANGED <<stage, permits, working, told, saved>>

ContractStep(t) ==
  \/ Enter(t) \/ Refuse(t) \/ Admit(t) \/ BeginWork(t) \/ EndWork(t) \/ Cancel(t)
  \/ Reject(t) \/ Fail(t) \/ Finish(t) \/ Stop(t) \/ HangUp(t)
  \/ Release(t) \/ Forget(t)

ContractNext == \E t \in Task : ContractStep(t)

ContractSpec == ContractInit /\ [][ContractNext]_contractVars

=============================================================================
