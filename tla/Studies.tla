-------------------------------- MODULE Studies -------------------------------
(***************************************************************************)
(* The two studies of MCComponents: their variables, and the instances of  *)
(* their modules.                                                          *)
(***************************************************************************)
EXTENDS Integers, Sequences, FiniteSets, NoValue

CONSTANTS
    BlockRuns, RawRuns, MaxDrifts,                                      \* RepeatabilityStudy
    Cases, ReferenceRuns, ScreeningRuns, ConfirmationRuns, MaxShifts    \* CoverageStudy

VARIABLES
    (* RepeatabilityStudy *)
    drift, drifts, studyPhase, studyStep, rows, got, raised, outer, inner, opened, frozen, blocks,
    verdicts, accepted, consumers, utility, studySummary, studyFinal,
    (* CoverageStudy *)
    shifted, shifts, caseLate, late, stage, case, section, made, returnedRun, undisturbed, attempts,
    reports, rates, products, frozenOn, selected, published, consumed, results, totals, verdict

Study      == INSTANCE RepeatabilityStudy WITH
                phase <- studyPhase, step <- studyStep, summary <- studySummary, final <- studyFinal
Coverage   == INSTANCE CoverageStudy WITH
                MaxDrifts <- MaxShifts, drift <- shifted, drifts <- shifts, at <- stage,
                phase <- section, got <- returnedRun, files <- reports, frozen <- frozenOn,
                accepted <- published, consumers <- consumed, status <- verdict

studyVars   == <<drift, drifts, studyPhase, studyStep, rows, got, raised, outer, inner, opened,
                 frozen, blocks, verdicts, accepted, consumers, utility, studySummary, studyFinal>>
coverVars   == <<shifted, shifts, caseLate, late, stage, case, section, made, returnedRun, undisturbed,
                 attempts, reports, rates, products, frozenOn, selected, published, consumed, results,
                 totals, verdict>>
===============================================================================
