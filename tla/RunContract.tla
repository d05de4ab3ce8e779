----------------------------- MODULE RunContract -----------------------------
(* What one run of the monitor promises, whatever the order it reads the host   *)
(* in.  The host has faults; a run sees some of them for part of the time.  Its *)
(* verdict is sandwiched: it may blame the host only for a fault the host had   *)
(* at some time in the run, and it must blame it for a fault that it watched    *)
(* throughout the run.  A fault that comes or goes meanwhile may fall either    *)
(* way.                                                                         *)
CONSTANTS
  Severe           \* the faults that make a verdict CRITICAL

VARIABLES
  seen,            \* faults that were present at some time in this run
  steady,          \* faults watched and present throughout this run, so far
  verdict          \* "none" until the run concludes

vars == <<seen, steady, verdict>>

Supported(v, faults) ==
  /\ v # "HEALTHY" => faults # {}
  /\ v = "CRITICAL" => faults \cap Severe # {}

Covers(v, faults) ==
  /\ faults # {} => v # "HEALTHY"
  /\ faults \cap Severe # {} => v = "CRITICAL"

Init == verdict = "none" /\ steady \subseteq seen

\* A new run starts over with the faults of that moment.
Begin == verdict' = "none" /\ steady' \subseteq seen'

\* The host changes, or a read fails: more may have been seen, less is steady.
Observe ==
  /\ verdict = "none" /\ verdict' = "none"
  /\ seen \subseteq seen' /\ steady' \subseteq steady

Conclude ==
  /\ verdict = "none" /\ verdict' \in {"HEALTHY", "WARNING", "CRITICAL"}
  /\ seen \subseteq seen' /\ steady' \subseteq steady
  /\ Supported(verdict', seen') /\ Covers(verdict', steady')

Next == Begin \/ Observe \/ Conclude

Spec == Init /\ [][Next]_vars
=============================================================================
