---------------------------- MODULE MCExperiments ----------------------------
(***************************************************************************)
(* Small instances of the programs that measure a model on its host: the   *)
(* setups that make a profile, the benchmark job and the tuning job that   *)
(* start from one, of the product, and the stock experiments of the        *)
(* compiler.  `experiment' says which one a behaviour is about; the        *)
(* variables of the others keep their first values.                        *)
(***************************************************************************)
EXTENDS StockSearch

CONSTANTS
    Partial, ThreadCounts, SearchRates, PairRates, Tokens, Budget, Spacing,
    Preparations, Durations, Oversleep, Setups, MaxDeaths, MaxRemovals, Replies, MaxSamples, MaxMishaps

VARIABLES
    experiment,
    (* TuneJob; the others of its names begin with "job" here *)
    clock, jobPc, lastEnd, attempts, search, pairs, half, winner, jobStatus, retained, chosen,
    began, got, journal, launches, receipts, jobReport, selected,
    (* ProfileStore *)
    path, backups, temps, setupPc, draft, copied, proven, stood, raced, removed,
    (* ProductBenchmark; its outcome is benched *)
    mishaps, altered, benchAt, unwinding, child, lines, thread, stopping, telemetry, benched,
    stored, saved, filed, outlived, recaptured

Job == INSTANCE TuneJob WITH
           Candidates <- ThreadCounts, pc <- jobPc, status <- jobStatus, report <- jobReport
Store == INSTANCE ProfileStore WITH pc <- setupPc
Local == INSTANCE ProductBenchmark WITH outcome <- benched

ASSUME ExperimentsAssumption ==
    Job!TuneJobAssumption /\ Store!ProfileStoreAssumption /\ Local!ProductBenchmarkAssumption

OneCandidate  == <<8>>
OneChallenger == <<1>>
ThereAndBack  == <<"first", "second", "first">>

jobVars == <<clock, jobPc, lastEnd, attempts, search, pairs, half, winner, jobStatus, retained,
             chosen, began, got, journal, launches, receipts, jobReport, selected>>
setupVars == <<path, backups, temps, setupPc, draft, copied, proven, stood, raced, removed>>
localVars == <<mishaps, altered, benchAt, unwinding, child, lines, thread, stopping, telemetry,
               benched, stored, saved, filed, outlived, recaptured>>
stockVars == <<edited, productVars, searchVars, consumerVars>>
experimentVars == <<experiment, host, jobVars, setupVars, localVars, stockVars>>

MCInit ==
    /\ experiment \in {"setup", "bench", "tune", "stock"}
    /\ Init /\ Job!Init /\ Store!Init /\ Local!Init
    /\ experiment # "setup" => path = None

InSetup == experiment = "setup" /\ UNCHANGED <<experiment, host, jobVars, localVars, stockVars>>
InBench == experiment = "bench" /\ UNCHANGED <<experiment, host, jobVars, setupVars, stockVars>>
InTune  == experiment = "tune" /\ UNCHANGED <<experiment, setupVars, localVars, stockVars>>
InStock == experiment = "stock" /\ UNCHANGED <<experiment, setupVars, localVars, jobVars>>

MCNext ==
    \/ InSetup /\ Store!Next
    \/ InBench /\ Local!Next
    \/ InTune /\ Job!Next
    \/ InStock /\ Next

(***************************************************************************)
(* The fairness that each module states.  The search takes no step before  *)
(* the product's experiment is over, and one condition serves them all.    *)
(***************************************************************************)
Measure ==
    \/ InSetup /\ \E s \in Setups : Store!Setup(s)
    \/ InBench /\ Local!Runs
    \/ InTune /\ Job!Step
    \/ InStock /\ ProductStep /\ UNCHANGED <<searchVars, consumerVars>>
    \/ InStock /\ SearchStep

MCSpec == MCInit /\ [][MCNext]_experimentVars /\ WF_experimentVars(Measure)

-----------------------------------------------------------------------------
(* The variables of the one in motion are what its module says. *)
TypesAreRight ==
    CASE experiment = "setup" -> Store!TypeOK
      [] experiment = "bench" -> Local!TypeOK
      [] experiment = "tune"  -> Job!TypeOK
      [] experiment = "stock" -> TypeOK

(***************************************************************************)
(* A profile says what its own setup found, and no replacement, failed     *)
(* save or dead setup loses the profile that was there: see ProfileStore.  *)
(***************************************************************************)
ProfilesAreKept == experiment = "setup" => Store!ProfileIsTrue /\ Store!NothingIsLost

(***************************************************************************)
(* The report of a tuning or a benchmark job can be reconstructed, what it *)
(* selects or measured was earned on one host, and no launch is missing    *)
(* from the journal of a tuning job: see TuneJob and ProductBenchmark.     *)
(***************************************************************************)
ReportIsReconstructible ==
    /\ experiment = "tune" => Job!ReportIsReconstructible
    /\ experiment = "bench" => Local!MeasuredIsVerifiable
SelectedIsEarned ==
    /\ experiment = "tune" => Job!SelectedIsEarned
    /\ experiment = "bench" => Local!VerifiedIsEarned
JournalCovers == experiment = "tune" => Job!JournalCovers

(* The processes of a job are apart and start within its budget: see TuneJob. *)
Paced == Job!Paced

(***************************************************************************)
(* Setups, a benchmark and a tuning job end, and so do the stock           *)
(* experiments, whatever fails or changes.                                 *)
(***************************************************************************)
MeasurementsEnd == []<>
    CASE experiment = "setup" -> Store!Done
      [] experiment = "bench" -> Local!Done
      [] experiment = "tune"  -> jobPc \in {"done", "dead"}
      [] experiment = "stock" -> pc \in {"done", "dead"} /\ spc \in {"idle", "done", "dead"}
=============================================================================
