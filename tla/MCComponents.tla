------------------------------ MODULE MCComponents ------------------------------
(***************************************************************************)
(* The components whose instances are small, each by itself: `component'   *)
(* says which one a behaviour is about, and the variables of the others    *)
(* keep their first values.                                                *)
(***************************************************************************)
EXTENDS Commands, Studies, Devices

VARIABLE component

ASSUME ComponentsAssumption ==
    /\ Pipeline!Phase3PipelineAssumption /\ Collection!TraceCollectionAssumption
    /\ Install!RuntimeInstallAssumption /\ Stream!StreamDeadlineAssumption
    /\ Simulation!CacheSimulationAssumption /\ Transfer!CudaTransferAssumption
    /\ Study!RepeatabilityStudyAssumption /\ Coverage!CoverageStudyAssumption
    /\ Probe!RouterProbeAssumption /\ Static!ExpertIslandAssumption

oneVars     == <<compileVars, collectVars, installVars>>
twoVars     == <<runVars, streamVars, cacheVars>>
threeVars   == <<cudaVars, studyVars, coverVars, probeVars, islandVars>>
vars == <<component, oneVars, twoVars, threeVars>>

(* One component is started; the others are in some first state of theirs. *)
Init ==
    /\ component \in {"compile", "collect", "install", "measure", "stream", "simulate",
                      "transfer", "study", "coverage", "probe", "island"}
    /\ Pipeline!Init /\ Collection!Init
    /\ Install!Init /\ (component # "install" => genuine)
    /\ Run!Init /\ (component # "measure" => ~lag)
    /\ Stream!Init /\ (component # "stream" => kind = "http")
    /\ Simulation!Init /\ (component # "simulate" => simulation = "lru")
    /\ Transfer!Init /\ (component # "transfer" => benchmarks = Transfer!Transfers)
    /\ Study!Init /\ Coverage!Init
    /\ Probe!Init /\ (component # "probe" => argv = {} /\ tracing = "full")
    /\ Static!Init /\ (component # "island" => setting = <<>>)

InCompile == component = "compile"
    /\ UNCHANGED <<component, collectVars, installVars, twoVars, threeVars>>
InCollect == component = "collect"
    /\ UNCHANGED <<component, compileVars, installVars, twoVars, threeVars>>
InInstall == component = "install"
    /\ UNCHANGED <<component, compileVars, collectVars, twoVars, threeVars>>
InRun == component = "measure"
    /\ UNCHANGED <<component, oneVars, streamVars, cacheVars, threeVars>>
InStream == component = "stream"
    /\ UNCHANGED <<component, oneVars, runVars, cacheVars, threeVars>>
InSimulation == component = "simulate"
    /\ UNCHANGED <<component, oneVars, runVars, streamVars, threeVars>>
InTransfer == component = "transfer"
    /\ UNCHANGED <<component, oneVars, twoVars, studyVars, coverVars, probeVars, islandVars>>
InStudy == component = "study"
    /\ UNCHANGED <<component, oneVars, twoVars, cudaVars, coverVars, probeVars, islandVars>>
InCoverage == component = "coverage"
    /\ UNCHANGED <<component, oneVars, twoVars, cudaVars, studyVars, probeVars, islandVars>>
InProbe == component = "probe"
    /\ UNCHANGED <<component, oneVars, twoVars, cudaVars, studyVars, coverVars, islandVars>>
InIsland == component = "island"
    /\ UNCHANGED <<component, oneVars, twoVars, cudaVars, studyVars, coverVars, probeVars>>

Next ==
    \/ InCompile /\ Pipeline!Next
    \/ InCollect /\ Collection!Next
    \/ InInstall /\ Install!Next
    \/ InRun /\ Run!Next
    \/ InStream /\ Stream!Next
    \/ InSimulation /\ Simulation!Next
    \/ InTransfer /\ Transfer!Next
    \/ InStudy /\ Study!Next
    \/ InCoverage /\ Coverage!Next
    \/ InProbe /\ Probe!Next
    \/ InIsland /\ Static!Next

(***************************************************************************)
(* The fairness that each module states.  As only one component is in      *)
(* motion, one condition serves a fair action of each of them.             *)
(***************************************************************************)
Call ==
    \/ InCompile /\ Pipeline!Compile
    \/ InCollect /\ Collection!Collect
    \/ InInstall /\ Install!Call
    \/ InRun /\ Run!Main
    \/ InStream /\ Stream!Caller
    \/ InTransfer /\ Transfer!Benchmark
    \/ InStudy /\ Study!Study
    \/ InCoverage /\ Coverage!Sequence
    \/ InProbe /\ Probe!Probe
    \/ InIsland /\ Static!Scheduler
Companion ==
    \/ InCollect /\ Collection!OrphanWrites
    \/ InRun /\ Run!Monitor
    \/ InStream /\ Stream!Timer
    \/ InTransfer /\ Transfer!DeviceStep
    \/ InIsland /\ Static!DeviceStep
CutReads == InStream /\ Stream!Reads /\ sock = "shut"
GrantLock == InRun /\ Run!MainAcquires

Spec ==
    /\ Init /\ [][Next]_vars
    /\ WF_vars(Call) /\ WF_vars(Companion) /\ WF_vars(CutReads) /\ SF_vars(GrantLock)

-----------------------------------------------------------------------------
(* The properties of the components *)

(* The variables of every component are what its module says. *)
TypeOK ==
    /\ Pipeline!TypeOK /\ Collection!TypeOK /\ Install!TypeOK
    /\ Run!TypeOK /\ Stream!TypeOK /\ Simulation!TypeOK
    /\ Transfer!TypeOK /\ Study!TypeOK /\ Coverage!TypeOK /\ Probe!TypeOK
    /\ Static!TypeOK

(***************************************************************************)
(* A published plan is the strongest candidate, confirmed and replayed,    *)
(* and passes a sealed run only so; the explanation beside it says that it *)
(* was sealed, whatever failed or died since: see Phase3Pipeline.          *)
(***************************************************************************)
PublishedPlanIsTrue == Pipeline!PlanIsEarned /\ Pipeline!PlanIsClaimed

(***************************************************************************)
(* The files of a recorded attempt stay what was recorded, a passed one    *)
(* compared two probes of one call, and the counts of a finished call      *)
(* agree with its attempts: see TraceCollection.                           *)
(***************************************************************************)
AttemptsAreTrue ==
    Collection!ArtifactsAreKept /\ Collection!PassedIsOnePair /\ Collection!SummaryIsTrue

(***************************************************************************)
(* No later call removes or changes what an earlier one published or       *)
(* recorded: the plan of a compilation, the attempts of a collection, an   *)
(* installed runtime.                                                      *)
(***************************************************************************)
RecordsAreKept == Pipeline!PlanIsFinal /\ Collection!HistoryIsKept /\ Install!InstalledIsKept

(***************************************************************************)
(* An installed runtime is the whole of the requested archive, and a       *)
(* download that stopped midway is resumed by the next call: see           *)
(* RuntimeInstall.                                                         *)
(***************************************************************************)
InstallIsSound == Install!InstallIsSound

(***************************************************************************)
(* Evidence is about the launched server, nothing that it attests can      *)
(* still change, and run_once returns an outcome only when its child is    *)
(* gone: see MeasurementRun.                                               *)
(***************************************************************************)
RunIsTrue == Run!RunIsTrue

(* A returned response is whole, one cut where the call looks is a timeout: see StreamDeadline. *)
ResultIsTrue == Stream!ResultIsTrue

(***************************************************************************)
(* The simulated cache is least recently used, and a static hotset is the  *)
(* best choice for the trace it was chosen from: see CacheSimulation.      *)
(***************************************************************************)
CacheIsSound == Simulation!CacheIsRecent /\ Simulation!ResidentsAreBest

(* A transfer never evicts what its step demands: see CacheSimulation. *)
TransfersSpareDemand == Simulation!TransfersSpareDemand

(***************************************************************************)
(* A timed sample covers the copies it is divided by, and memory outlives  *)
(* the copies the device has still to execute; every expert is multiplied  *)
(* with its own weights, an island's weights are copied once, and too many *)
(* of them end the runtime when it starts: see CudaTransfer and            *)
(* ExpertIsland.                                                           *)
(***************************************************************************)
TransfersAreSound ==
    /\ Transfer!SamplesAreTheirRounds /\ Transfer!BuffersOutliveCopies
    /\ Static!OperandsAreWhole /\ Static!IslandsAreLoadedOnce /\ Static!AbortsAtStart

(* Either study stops at its first failure: see RepeatabilityStudy and     *)
(* CoverageStudy.                                                          *)
NoRetry == Study!NoRetry /\ Coverage!NoRetry

(***************************************************************************)
(* A phase of a study is entered through every gate before it, the next    *)
(* case only after a verdict within the budget, and a pass or a gain is    *)
(* complete: see RepeatabilityStudy and CoverageStudy.                     *)
(***************************************************************************)
StudyIsEarned ==
    /\ Study!GatesHold /\ Study!PassIsComplete
    /\ Coverage!GatesHold /\ Coverage!GainIsComplete

(***************************************************************************)
(* The audit of a study accepts the status it ended with when nothing      *)
(* disturbed it, and no other, but for a block of a sequence that has all  *)
(* its rows and no statistics; a sequence counts every attempt of every    *)
(* case: see RepeatabilityStudy and CoverageStudy.                         *)
(***************************************************************************)
AuditIsExact ==
    /\ Study!QuietStopsAreAudited /\ Study!LabelsAreBinding
    /\ Coverage!OrderlyStopsAreAudited /\ Coverage!SequenceLabelIsBinding
    /\ Coverage!CountsAreTrue

(***************************************************************************)
(* A successful run of the router probe leaves a whole trace, counts every *)
(* event, and tells the temporal predictor each decode in its turn: see    *)
(* RouterProbe.                                                            *)
(***************************************************************************)
ProbeIsFaithful == Probe!TraceIsWhole /\ Probe!EventsAreCounted /\ Probe!IdentitiesRise

(***************************************************************************)
(* Every compilation, installation, measured run, streaming call, transfer *)
(* benchmark, study, probe and graph ends, again and again where calls     *)
(* follow each other; and resuming a collection completes it.              *)
(***************************************************************************)
Ended ==
    /\ Pipeline!Idle /\ Install!Idle
    /\ component = "measure" => Run!Done
    /\ component = "stream" => Stream!Done
    /\ component = "transfer" => Transfer!Done
    /\ component = "study" => Study!Done
    /\ component = "coverage" => Coverage!Done
    /\ component = "probe" => Probe!Done
    /\ component = "island" => Static!Done

ComponentsEnd ==
    /\ []<>Ended
    /\ component = "collect" => Collection!CollectionCompletes
=============================================================================
