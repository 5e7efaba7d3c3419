--------------------------- MODULE MCStreamLifecycle ---------------------------
(***************************************************************************)
(* One stream: streams share nothing but the size of the registry.  The    *)
(* queue has place for a text, the ending of a model that was left late,   *)
(* and a text of the next one.                                             *)
(***************************************************************************)
EXTENDS StreamLifecycle, TLC

CONSTANTS t1

Cases == SUBSET {"redis", "deaf", "interrupt"} \cup {{"late"}, {"late", "redis"}}

=============================================================================
