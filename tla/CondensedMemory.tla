---------------------------- MODULE CondensedMemory ----------------------------
(***************************************************************************)
(* What the memory of a conversation promises: everything the user has     *)
(* said is in the gist or still pending, the older part in the gist, and   *)
(* nothing in both.  Where one compression follows the other the gist only *)
(* grows, by a batch at a time; where they overlap it may fall back, and   *)
(* what it loses is pending again.  How much of what is pending is shown   *)
(* to the model is not said here.                                          *)
(***************************************************************************)
EXTENDS Naturals, FiniteSets

CONSTANT Batch   \* memory_summary_batch_size

VARIABLES
  said,     \* what the user has said and not deleted, by its time
  gist,     \* what of it the summary contains
  pending,  \* what of it is kept word for word for the next compression
  serial    \* compressions do not overlap; it never changes

memoryVars == <<said, gist, pending, serial>>

-----------------------------------------------------------------------------

MemoryInit ==
  /\ said = {}
  /\ gist = {}
  /\ pending = {}
  /\ serial \in BOOLEAN

(* The user says something, later than all before. *)
Say ==
  /\ \E m \in said' \ said :
       /\ said' = said \cup {m}
       /\ pending' = pending \cup {m}
       /\ \A n \in said : n < m
  /\ UNCHANGED <<gist, serial>>

(* The gist is made anew, of all that has been said up to some moment. *)
Condense ==
  /\ gist' \subseteq said
  /\ pending' = said \ gist'
  /\ \A m \in gist', n \in pending' : m < n
  /\ Cardinality(gist') >= Batch
  /\ serial => gist \subseteq gist' /\ Cardinality(gist' \ gist) >= Batch
  /\ UNCHANGED <<said, serial>>

Clear ==
  /\ said' = {}
  /\ gist' = {}
  /\ pending' = {}
  /\ UNCHANGED serial

MemoryNext == Say \/ Condense \/ Clear

MemorySpec == MemoryInit /\ [][MemoryNext]_memoryVars

=============================================================================
