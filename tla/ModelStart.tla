------------------------------ MODULE ModelStart ------------------------------
(***************************************************************************)
(* What StreamLLMService.start promises of each stream.  One model at a    *)
(* time works for it.  start() answers on account of a model that has been *)
(* heard, and from then on no other model is.  Before that it may leave a  *)
(* model for another, or give up, but not one that has been heard, unless  *)
(* it may be as late as the time-out.  Whoever is left, whoever start()    *)
(* gives up or is cancelled with, works no more.                           *)
(***************************************************************************)
CONSTANTS
  Model,
  Stream,
  Late       \* models whose first token may come as late as the time-out

VARIABLES
  stage,     \* for each stream: "idle", "waiting" (in start()), "returned", "failed", "cancelled"
  chosen,    \* for each stream: the model that was chosen last, if any
  working,   \* for each stream: the models that work for it
  heard      \* for each stream: the models whose output has reached the user

startVars == <<stage, chosen, working, heard>>

-----------------------------------------------------------------------------

StartInit ==
  /\ stage = [s \in Stream |-> "idle"]
  /\ chosen = [s \in Stream |-> {}]
  /\ working = [s \in Stream |-> {}]
  /\ heard = [s \in Stream |-> {}]

(* The stream begins, or nobody has been heard who must be kept. *)
Open(s) ==
  \/ stage[s] = "idle"
  \/ stage[s] = "waiting" /\ heard[s] \subseteq Late

Choose(s, m) ==
  /\ Open(s)
  /\ stage' = [stage EXCEPT ![s] = "waiting"]
  /\ chosen' = [chosen EXCEPT ![s] = {m}]
  /\ working' = [working EXCEPT ![s] = {m}]
  /\ UNCHANGED heard

GiveUp(s) ==
  /\ Open(s)
  /\ stage' = [stage EXCEPT ![s] = "failed"]
  /\ chosen' = [chosen EXCEPT ![s] = {}]
  /\ working' = [working EXCEPT ![s] = {}]
  /\ UNCHANGED heard

Speak(s, m) ==
  /\ stage[s] = "waiting" /\ m \in working[s]
  /\ heard' = [heard EXCEPT ![s] = @ \cup {m}]
  /\ UNCHANGED <<stage, chosen, working>>

(* The model ends, or is stopped by who was given its handle. *)
End(s) ==
  /\ stage[s] \in {"waiting", "returned"}
  /\ working' = [working EXCEPT ![s] = {}]
  /\ UNCHANGED <<stage, chosen, heard>>

Answer(s) ==
  /\ stage[s] = "waiting"
  /\ \E m \in heard[s] : chosen[s] = {m}
  /\ stage' = [stage EXCEPT ![s] = "returned"]
  /\ UNCHANGED <<chosen, working, heard>>

Cancel(s) ==
  /\ stage[s] = "waiting"
  /\ stage' = [stage EXCEPT ![s] = "cancelled"]
  /\ working' = [working EXCEPT ![s] = {}]
  /\ UNCHANGED <<chosen, heard>>

(* A later stream of the same caller. *)
Again(s) ==
  /\ stage[s] \in {"returned", "failed", "cancelled"} /\ working[s] = {}
  /\ stage' = [stage EXCEPT ![s] = "idle"]
  /\ chosen' = [chosen EXCEPT ![s] = {}]
  /\ heard' = [heard EXCEPT ![s] = {}]
  /\ UNCHANGED working

StartNext ==
  \E s \in Stream :
    \/ GiveUp(s) \/ End(s) \/ Answer(s) \/ Cancel(s) \/ Again(s)
    \/ \E m \in Model : Choose(s, m) \/ Speak(s, m)

StartSpec == StartInit /\ [][StartNext]_startVars

=============================================================================
