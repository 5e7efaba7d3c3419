-------------------------- MODULE MCKnowledgeDocument --------------------------
(***************************************************************************)
(* One document: no trouble, each trouble alone, and crashes together with *)
(* a failing database or with users that overlap.                          *)
(***************************************************************************)
EXTENDS KnowledgeDocument, TLC

CONSTANTS s1, s2, r1, r2, c1, c2, d1

Cases == {{t} : t \in Trouble} \cup {{}, {"crash", "database"}, {"crash", "overlap"}}

=============================================================================
