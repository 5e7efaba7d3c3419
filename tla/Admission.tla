------------------------------ MODULE Admission ------------------------------
(***************************************************************************)
(* What stream admission control promises its callers, whatever its        *)
(* implementation: requests stand in one line, only the first of the line  *)
(* may be given one of MaxConcurrent permits, anybody may leave the line   *)
(* at any time, and a closed service gives no permit any more.             *)
(***************************************************************************)
EXTENDS Naturals, Sequences, FiniteSets, SequencesExt, Line

CONSTANTS
  Task,           \* identities of stream requests
  MaxConcurrent   \* STREAM_QUEUE_MAX_CONCURRENT

VARIABLES
  line,      \* the requests that wait, in the order in which they joined
  permits,   \* the requests that hold a permit
  open       \* FALSE once shutdown has gone through

admissionVars == <<line, permits, open>>

-----------------------------------------------------------------------------

AdmissionInit ==
  /\ line = <<>>
  /\ permits = {}
  /\ open = TRUE

(* A request that is not in the line joins its end. *)
Join(t) ==
  /\ ~ Contains(line, t)
  /\ t \notin permits
  /\ line' = Append(line, t)
  /\ UNCHANGED <<permits, open>>

(* The first of the line gets a permit, if one is free. *)
Grant(t) ==
  /\ open
  /\ line # <<>> /\ Head(line) = t
  /\ Cardinality(permits) < MaxConcurrent
  /\ line' = Tail(line)
  /\ permits' = permits \cup {t}
  /\ UNCHANGED open

(* A request leaves the line: cancelled, timed out or turned away. *)
Quit(t) ==
  /\ Contains(line, t)
  /\ line' = Without(line, t)
  /\ UNCHANGED <<permits, open>>

(* A stream gives its permit back. *)
GiveBack(t) ==
  /\ t \in permits
  /\ permits' = permits \ {t}
  /\ UNCHANGED <<line, open>>

ShutDown ==
  /\ open
  /\ open' = FALSE
  /\ UNCHANGED <<line, permits>>

AdmissionNext ==
  \/ \E t \in Task : Join(t) \/ Grant(t) \/ Quit(t) \/ GiveBack(t)
  \/ ShutDown

AdmissionSpec == AdmissionInit /\ [][AdmissionNext]_admissionVars

-----------------------------------------------------------------------------
(* The promise that the Redis mode shares.                                 *)

(* The requests that stand before t. *)
Preceding(q, t) ==
  {u \in ToSet(q) : \E i, j \in 1 .. Len(q) : i < j /\ q[i] = u /\ q[j] = t}

(* First come, first served is more than LeasedAdmission asks: in one      *)
(* process everybody in the line is alive, and no lease ends.              *)
Leased ==
  INSTANCE LeasedAdmission WITH
    line <- ToSet(line),
    ahead <- [t \in Task |-> Preceding(line, t)],
    alive <- ToSet(line),
    lapsed <- {}

ImplementsLeasedAdmission == Leased!LeasedSpec

=============================================================================
