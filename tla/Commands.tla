------------------------------- MODULE Commands -------------------------------
(***************************************************************************)
(* The commands of MCComponents: their variables, and the instances of     *)
(* their modules.                                                          *)
(***************************************************************************)
EXTENDS Integers, Sequences, FiniteSets, NoValue

CONSTANTS
    Placements, Rates, Repeats, Pairs, MaxCompiles,     \* Phase3Pipeline
    Corpus, MaxFaults,                                  \* TraceCollection
    Size, MaxNetFaults,                                 \* RuntimeInstall
    Parts                                               \* StreamDeadline

(* One default candidate and one with the experts on the CPU. *)
Matrix == <<FALSE, TRUE>>

(* A probe that takes what the collector gives and writes what it reads. *)
AnyCommand(options) == TRUE
ReadFields == {"schema_version", "prompt_token_ids", "generated_token_ids"}

VARIABLES
    (* Phase3Pipeline *)
    compiles, returned, replayed, step, mode, slot, reps, warm, placed, measured,
    floor, pairs, pairTokens, status, sealed, replay, explanation, pending, plan, summaries,
    (* TraceCollection *)
    faults, calls, disk, spoiled, orphans, manifest, summary, exitCode,
    at, conv, report, passed, failed, skipped, exits,
    (* RuntimeInstall *)
    netFaults, genuine, part, archive, installed, where, attempt, sent, source, staged,
    answer, clean, began,
    (* MeasurementRun; its status and result are runStatus and runResult *)
    server, listener, gpu, lag, mpc, runStatus, raising, completed, forced, terminated, settled,
    record, runResult, active, stop, lock, samples, errors, spc, phase,
    (* StreamDeadline *)
    kind, pc, sock, owned, expired, timer, parts, final, cut, result

Pipeline   == INSTANCE Phase3Pipeline
Collection == INSTANCE TraceCollection WITH Accepts <- AnyCommand, Fields <- ReadFields
Install    == INSTANCE RuntimeInstall
Run        == INSTANCE MeasurementRun WITH status <- runStatus, result <- runResult
Stream     == INSTANCE StreamDeadline

compileVars == <<compiles, returned, replayed, step, mode, slot, reps, warm, placed, measured,
                 floor, pairs, pairTokens, status, sealed, replay, explanation, pending, plan,
                 summaries>>
collectVars == <<faults, calls, disk, spoiled, orphans, manifest, summary, exitCode,
                 at, conv, report, passed, failed, skipped, exits>>
installVars == <<netFaults, genuine, part, archive, installed, where, attempt, sent, source,
                 staged, answer, clean, began>>
runVars     == <<server, listener, gpu, lag, mpc, runStatus, raising, completed, forced,
                 terminated, settled, record, runResult, active, stop, lock, samples, errors,
                 spc, phase>>
streamVars  == <<kind, pc, sock, owned, expired, timer, parts, final, cut, result>>
===============================================================================
