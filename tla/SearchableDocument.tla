--------------------------- MODULE SearchableDocument ---------------------------
(***************************************************************************)
(* What the owner of a document is promised: its text is cut as a whole or *)
(* not at all, nobody touches it meanwhile, and at every moment a search   *)
(* finds all of a cut and enabled document once, and of any other nothing. *)
(***************************************************************************)
EXTENDS Naturals

CONSTANT Text   \* the texts that a document can be cut into

VARIABLES
  stage,     \* "none", "PENDING", "RUNNING", "SUCCESS", "FAILED", "deleted"
  offered,   \* the owner wants it to be found
  text,      \* what it has been cut into: one text, or nothing yet
  hits       \* how often a search for each text finds it

documentVars == <<stage, offered, text, hits>>

-----------------------------------------------------------------------------

(* All of it once, or nothing. *)
Whole(place, wanted, texts) ==
  [x \in Text |-> IF place = "SUCCESS" /\ wanted /\ x \in texts THEN 1 ELSE 0]

(* A search finds what is there after the step. *)
Refound == hits' = Whole(stage', offered', text')

DocumentInit ==
  /\ stage = "none"
  /\ offered = FALSE
  /\ text = {}
  /\ hits = Whole(stage, offered, text)

Upload ==
  /\ stage = "none"
  /\ stage' = "PENDING"
  /\ offered' = TRUE
  /\ UNCHANGED text

Start ==
  /\ stage = "PENDING"
  /\ stage' = "RUNNING"
  /\ UNCHANGED <<offered, text>>

Finish ==
  /\ stage = "RUNNING"
  /\ stage' = "SUCCESS"
  /\ \E x \in Text : text' = {x}
  /\ UNCHANGED offered

Fail ==
  /\ stage = "RUNNING"
  /\ stage' = "FAILED"
  /\ UNCHANGED <<offered, text>>

(* A document that is being cut belongs to nobody else. *)
AtRest == stage \in {"PENDING", "SUCCESS", "FAILED"}

Toggle ==
  /\ AtRest
  /\ offered' = ~ offered
  /\ UNCHANGED <<stage, text>>

Delete ==
  /\ AtRest
  /\ stage' = "deleted"
  /\ text' = {}
  /\ UNCHANGED offered

DocumentNext ==
  /\ \/ Upload \/ Start \/ Finish \/ Fail \/ Toggle \/ Delete
  /\ Refound

DocumentSpec == DocumentInit /\ [][DocumentNext]_documentVars

=============================================================================
