--------------------------- MODULE LeasedAdmission ---------------------------
(***************************************************************************)
(* What stream admission control promises when the line and the permits    *)
(* are shared by processes that may die.  A request may die without giving *)
(* anything back: its place then counts for nobody, and its permit counts  *)
(* until its lease ends.  The line is in the order of joining, and every   *)
(* permit goes to one of the first MaxConcurrent that are alive.           *)
(***************************************************************************)
EXTENDS Naturals, FiniteSets

CONSTANTS
  Task,           \* identities of stream requests
  MaxConcurrent   \* STREAM_QUEUE_MAX_CONCURRENT

VARIABLES
  line,      \* the requests that have a place
  ahead,     \* for each of them, those that joined before it
  alive,     \* the requests that are known to wait
  permits,   \* the permits given and not taken back
  lapsed     \* those of them whose lease has ended

leasedVars == <<line, ahead, alive, permits, lapsed>>

-----------------------------------------------------------------------------

LeasedInit ==
  /\ line = {}
  /\ ahead = [t \in Task |-> {}]
  /\ alive = {}
  /\ permits = {}
  /\ lapsed = {}

(* The requests of X lose their places; everybody else keeps the order. *)
Vacate(X) ==
  /\ line' = line \ X
  /\ ahead' = [t \in Task |-> IF t \in X THEN {} ELSE ahead[t] \ X]

(* A request that neither waits nor has a permit takes the last place, be it that an *)
(* earlier request of the same name has left one in the middle.                      *)
Join(t) ==
  /\ t \notin alive \cup permits
  /\ line' = line \cup {t}
  /\ ahead' = [u \in Task |-> IF u = t THEN line \ {t} ELSE ahead[u] \ {t}]
  /\ alive' = alive \cup {t}
  /\ UNCHANGED <<permits, lapsed>>

(* A request gets one of MaxConcurrent permits if fewer than MaxConcurrent stand before *)
(* it.  With the grant, places of the dead and permits without a lease may be cleared.  *)
Grant(t) ==
  /\ t \in line
  /\ t \notin permits
  /\ Cardinality(ahead[t] \cap alive) < MaxConcurrent
  /\ Cardinality(permits \ lapsed) < MaxConcurrent
  /\ \E X \in SUBSET (line \ alive) : Vacate(X \cup {t})
  /\ alive' = alive \ {t}
  /\ permits' = (permits \ lapsed) \cup {t}
  /\ lapsed' = {}

(* Places of the dead and permits without a lease are cleared. *)
Sweep ==
  /\ \E X \in SUBSET (line \ alive) : Vacate(X)
  /\ permits' = permits \ lapsed
  /\ lapsed' = {}
  /\ UNCHANGED alive

(* Requests leave the line, at once or in two steps, by themselves or taken out by others. *)
Leave(X) ==
  /\ Vacate(X)
  /\ alive' \in {alive, alive \ X}
  /\ UNCHANGED <<permits, lapsed>>

(* Requests are no longer known to wait. *)
Fade(X) ==
  /\ alive' = alive \ X
  /\ UNCHANGED <<line, ahead, permits, lapsed>>

(* The lease of a permit ends, or is renewed in spite of that, as long as nobody swept it. *)
Lease(t) ==
  /\ t \in permits
  /\ lapsed' \in {lapsed \cup {t}, lapsed \ {t}}
  /\ UNCHANGED <<line, ahead, alive, permits>>

GiveBack(t) ==
  /\ t \in permits
  /\ permits' = permits \ {t}
  /\ lapsed' = lapsed \ {t}
  /\ UNCHANGED <<line, ahead, alive>>

LeasedNext ==
  \/ \E t \in Task : Join(t) \/ Grant(t) \/ Lease(t) \/ GiveBack(t)
  \/ \E X \in SUBSET Task : Leave(X) \/ Fade(X)
  \/ Sweep

LeasedSpec == LeasedInit /\ [][LeasedNext]_leasedVars

=============================================================================
