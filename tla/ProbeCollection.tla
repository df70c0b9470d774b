--------------------------- MODULE ProbeCollection ---------------------------
(***************************************************************************)
(* The collector with the probe of this repository: expertflow-router-probe*)
(* accepts and writes what ProbeCommand says.                              *)
(***************************************************************************)
EXTENDS ProbeCommand

CONSTANTS None, Corpus, MaxFaults

VARIABLES
    faults, calls, disk, spoiled, orphans, manifest, summary, exitCode,
    at, conv, report, passed, failed, skipped, exits

Accepts(options) == Accepted(options, ModeOf(options))

Collection == INSTANCE TraceCollection WITH Fields <- TokenFields

vars == <<faults, calls, disk, spoiled, orphans, manifest, summary, exitCode,
          at, conv, report, passed, failed, skipped, exits>>

Spec == Collection!Init /\ [][Collection!Next]_vars

(* An attempt that nothing disturbed has passed: see TraceCollection. *)
UndisturbedPasses == Collection!UndisturbedPasses
=============================================================================
