---------------------------- MODULE MCModelRouting ----------------------------
(***************************************************************************)
(* Small instances of ModelRouting.  Requests of different kinds prefer    *)
(* the models in different orders; m3 has no API key.                      *)
(***************************************************************************)
EXTENDS ModelRouting, TLC

CONSTANTS m1, m2, m3

TwoKinds == {<<m3, m1, m2>>, <<m2, m1>>}

OneKind == {<<m1, m2>>}

=============================================================================
