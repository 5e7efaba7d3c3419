--------------------------------- MODULE Line ---------------------------------
(***************************************************************************)
(* Removal from a waiting line that holds every element at most once       *)
(* (IsInjective).                                                          *)
(***************************************************************************)
EXTENDS Sequences, SequencesExt

(***************************************************************************)
(* The line q without t.  The code filters its deque by task id; an id     *)
(* stands in the deque at most once, because StreamTaskManager.register    *)
(* refuses an id that is in use, so one occurrence is all there is.        *)
(***************************************************************************)
Without(q, t) == RemoveFirst(q, t)

=============================================================================
