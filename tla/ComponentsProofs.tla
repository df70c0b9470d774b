-------------------------- MODULE ComponentsProofs --------------------------
(***************************************************************************)
(* Proofs about MCComponents: what the run `components' checks on small    *)
(* instances holds for every value of their constants.  A step of the      *)
(* composition is a step, or a stutter, of each component, which keeps the *)
(* inductive invariants of CommandProofs, CollectionProofs, StudyProofs    *)
(* and DeviceProofs.                                                       *)
(***************************************************************************)
EXTENDS MCComponents, CommandProofs, CollectionProofs, StudyProofs, DeviceProofs

-----------------------------------------------------------------------------
(* The steps of one component *)

LEMMA RunMoves == [Next]_vars => Run!Next \/ UNCHANGED runVars
  BY DEF Next, InCompile, InCollect, InInstall, InRun, InStream, InSimulation, InTransfer,
         InStudy, InCoverage, InProbe, InIsland, vars, twoVars

LEMMA StreamMoves == [Next]_vars => Stream!Next \/ UNCHANGED streamVars
  BY DEF Next, InCompile, InCollect, InInstall, InRun, InStream, InSimulation, InTransfer,
         InStudy, InCoverage, InProbe, InIsland, vars, twoVars

LEMMA InstallMoves == [Next]_vars => Install!Next \/ UNCHANGED installVars
  BY DEF Next, InCompile, InCollect, InInstall, InRun, InStream, InSimulation, InTransfer,
         InStudy, InCoverage, InProbe, InIsland, vars, oneVars

LEMMA PipelineMoves == [Next]_vars => Pipeline!Next \/ UNCHANGED compileVars
  BY DEF Next, InCompile, InCollect, InInstall, InRun, InStream, InSimulation, InTransfer,
         InStudy, InCoverage, InProbe, InIsland, vars, oneVars

LEMMA CollectionMoves == [Next]_vars => Collection!Next \/ UNCHANGED collectVars
  BY DEF Next, InCompile, InCollect, InInstall, InRun, InStream, InSimulation, InTransfer,
         InStudy, InCoverage, InProbe, InIsland, vars, oneVars

LEMMA StudyMoves == [Next]_vars => Study!Next \/ UNCHANGED studyVars
  BY DEF Next, InCompile, InCollect, InInstall, InRun, InStream, InSimulation, InTransfer,
         InStudy, InCoverage, InProbe, InIsland, vars, threeVars

LEMMA CoverageMoves == [Next]_vars => Coverage!Next \/ UNCHANGED coverVars
  BY DEF Next, InCompile, InCollect, InInstall, InRun, InStream, InSimulation, InTransfer,
         InStudy, InCoverage, InProbe, InIsland, vars, threeVars

LEMMA ProbeMoves == [Next]_vars => Probe!Next \/ UNCHANGED probeVars
  BY DEF Next, InCompile, InCollect, InInstall, InRun, InStream, InSimulation, InTransfer,
         InStudy, InCoverage, InProbe, InIsland, vars, threeVars

LEMMA SimulationMoves == [Next]_vars => Simulation!Next \/ UNCHANGED cacheVars
  BY DEF Next, InCompile, InCollect, InInstall, InRun, InStream, InSimulation, InTransfer,
         InStudy, InCoverage, InProbe, InIsland, vars, twoVars

LEMMA TransferMoves == [Next]_vars => Transfer!Next \/ UNCHANGED cudaVars
  BY DEF Next, InCompile, InCollect, InInstall, InRun, InStream, InSimulation, InTransfer,
         InStudy, InCoverage, InProbe, InIsland, vars, threeVars

LEMMA IslandMoves == [Next]_vars => Static!Next \/ UNCHANGED islandVars
  BY DEF Next, InCompile, InCollect, InInstall, InRun, InStream, InSimulation, InTransfer,
         InStudy, InCoverage, InProbe, InIsland, vars, threeVars

-----------------------------------------------------------------------------
(* A measured run, a streaming call, an installation, a compilation *)

(***************************************************************************)
(* Whenever the threads of run_once switch and whatever dies: a record is  *)
(* about the launched server, nothing it attests can change any more, and  *)
(* run_once returns an outcome only when its child is gone.                *)
(***************************************************************************)
THEOREM RunCorrect == Spec => []RunIsTrue
<1>1. Init => RunInv
  BY RunInit DEF Init
<1>2. RunInv /\ [Next]_vars => RunInv'
  BY RunMoves, RunStep
<1>3. RunInv => RunIsTrue
  BY RunInvIsTrue DEF RunIsTrue
<1> QED
  BY <1>1, <1>2, <1>3, PTL DEF Spec

(***************************************************************************)
(* What a call to the server returns is a whole response, wherever between *)
(* two steps of the caller the timer sets the event and shuts the socket;  *)
(* and a response the timer cut is reported as a timeout by _http, and by  *)
(* a stream that was cut between two lines.                                *)
(***************************************************************************)
THEOREM ResultCorrect == Spec => []ResultIsTrue
<1>1. Init => StreamInv
  BY ComponentsAssumption, StreamInit DEF Init
<1>2. StreamInv /\ [Next]_vars => StreamInv'
  BY ComponentsAssumption, StreamMoves, StreamStep
<1>3. StreamInv => ResultIsTrue
  BY StreamInvIsTrue DEF ResultIsTrue
<1> QED
  BY <1>1, <1>2, <1>3, PTL DEF Spec

(***************************************************************************)
(* What stands at the destination is the whole of the requested archive,   *)
(* and a call that meets no fault and found a beginning of it does not     *)
(* fail, however often calls were killed and downloads damaged before.     *)
(***************************************************************************)
THEOREM InstallCorrect == Spec => []InstallIsSound
<1>1. Init => InstallInv
  BY ComponentsAssumption, InstallInit DEF Init
<1>2. InstallInv /\ [Next]_vars => InstallInv'
  BY ComponentsAssumption, InstallMoves, InstallStep
<1>3. InstallInv => InstallIsSound
  BY InstallInvIsSound DEF InstallIsSound
<1> QED
  BY <1>1, <1>2, <1>3, PTL DEF Spec

(***************************************************************************)
(* A published plan is made of the strongest candidate that was measured,  *)
(* confirmed by every pair with the same tokens and replayed; a compiler   *)
(* that claims a pass left the plan, a sealed explanation and both         *)
(* summaries, whatever failed or died in the compilations before.          *)
(***************************************************************************)
THEOREM PlanCorrect == Spec => []PublishedPlanIsTrue
<1>1. Init => PlanInv
  BY ComponentsAssumption, PlanInit DEF Init
<1>2. PlanInv /\ [Next]_vars => PlanInv'
  BY ComponentsAssumption, PipelineMoves, PlanStep
<1>3. PlanInv => PublishedPlanIsTrue
  BY DEF PlanInv, PublishedPlanIsTrue
<1> QED
  BY <1>1, <1>2, <1>3, PTL DEF Spec

-----------------------------------------------------------------------------
(* A collection, and what commands leave for later ones *)

(***************************************************************************)
(* However often a collection is resumed, and whatever its collectors and  *)
(* orphaned probes do: the files of a recorded attempt stay what was       *)
(* recorded, a passed one compared the two probes of one call, and the     *)
(* counts of a finished call cover the corpus and agree with its attempts. *)
(***************************************************************************)
THEOREM AttemptsCorrect == Spec => []AttemptsAreTrue
<1>1. Init => CollectInv
  BY ComponentsAssumption, CollectInit DEF Init
<1>2. CollectInv /\ [Next]_vars => CollectInv'
  BY ComponentsAssumption, CollectionMoves, CollectStep
<1>3. CollectInv => AttemptsAreTrue
  BY DEF CollectInv, AttemptsAreTrue
<1> QED
  BY <1>1, <1>2, <1>3, PTL DEF Spec

(* A plan is published only where there is none. *)
LEMMA PlanIsNotReplaced ==
  ASSUME PlanInv, Pipeline!Next \/ UNCHANGED compileVars
  PROVE  Pipeline!PlanStays
<1> SUFFICES ASSUME plan' # plan PROVE plan = None
  BY DEF Pipeline!PlanStays
<1>1. Pipeline!Publish
  BY ZenonT(60) DEF Pipeline!Next, Pipeline!Compile, Pipeline!Start, Pipeline!Load, Pipeline!Recorded,
         Pipeline!Warmup, Pipeline!Measure, Pipeline!Select, Pipeline!Equivalence, Pipeline!Confirm,
         Pipeline!Gate, Pipeline!Pend, Pipeline!Replay, Pipeline!Explain, Pipeline!Summarise,
         Pipeline!Final, Pipeline!Die, Pipeline!RunPlan, Pipeline!Blocked, Pipeline!Stopped,
         Pipeline!Caught, Pipeline!Over, Pipeline!outputs, compileVars
<1> QED
  BY <1>1 DEF Pipeline!Publish, PlanInv, PlanIsKept, Past

(* A runtime is renamed into place only where there is none. *)
LEMMA InstalledIsNotReplaced ==
  ASSUME InstallInv, Install!Next \/ UNCHANGED installVars
  PROVE  Install!KeepsInstalled
<1> SUFFICES ASSUME installed' # installed PROVE installed = None
  BY DEF Install!KeepsInstalled
<1>1. Install!Rename
  BY DEF Install!Next, Install!Call, Install!Fails, Install!Start, Install!Look, Install!Again,
         Install!Respond, Install!RequestFails, Install!Read, Install!EndOfBody, Install!ReadFails,
         Install!Check, Install!Place, Install!Stage, Install!Extract, Install!ExtractFails,
         Install!Die, Install!Republish, Install!Damage, Install!diskFiles, installVars
<1> QED
  BY <1>1 DEF Install!Rename, InstallInv, CheckedStays

(***************************************************************************)
(* No later call removes or changes a published plan, a recorded attempt   *)
(* or an installed runtime.                                                *)
(***************************************************************************)
THEOREM RecordsStay == Spec => RecordsAreKept
<1>1. Init => PlanInv /\ CollectInv /\ InstallInv
  BY ComponentsAssumption, PlanInit, CollectInit, InstallInit DEF Init
<1>2. PlanInv /\ CollectInv /\ InstallInv /\ [Next]_vars => (PlanInv /\ CollectInv /\ InstallInv)'
  BY ComponentsAssumption, PipelineMoves, CollectionMoves, InstallMoves, PlanStep, CollectStep,
     InstallStep
<1>3. PlanInv /\ [Next]_vars => [Pipeline!PlanStays]_(Pipeline!pipelineVars)
  BY PipelineMoves, PlanIsNotReplaced
<1>4. CollectInv /\ [Next]_vars => [Collection!HistoryGrows]_(Collection!collectionVars)
  BY ComponentsAssumption, CollectionMoves, HistoryStep
<1>5. InstallInv /\ [Next]_vars => [Install!KeepsInstalled]_installed
  BY InstallMoves, InstalledIsNotReplaced
<1> QED
  BY <1>1, <1>2, <1>3, <1>4, <1>5, PTL
     DEF Spec, RecordsAreKept, Pipeline!PlanIsFinal, Collection!HistoryIsKept, Install!InstalledIsKept

-----------------------------------------------------------------------------
(* The two studies *)

(***************************************************************************)
(* Neither study makes an attempt once one of its attempts has failed: a   *)
(* failed run is never repeated until it passes, and the wider study does  *)
(* not turn to another case instead.                                       *)
(***************************************************************************)
THEOREM NoRetryCorrect == Spec => NoRetry
<1>1. Init => StudyInv /\ CoverInv
  BY ComponentsAssumption, StudyInit, CoverInit DEF Init, CoverBounds
<1>2. StudyInv /\ CoverInv /\ [Next]_vars => (StudyInv /\ CoverInv)'
  BY ComponentsAssumption, StudyMoves, CoverageMoves, StudyStep, CoverStep DEF CoverBounds
<1>3. StudyInv /\ [Next]_vars => [~Study!Retries]_(Study!studyVars)
  BY StudyMoves, StudyDoesNotRetry
<1>4. CoverInv /\ [Next]_vars => [~Coverage!Retries]_(Coverage!coverageVars)
  BY CoverageMoves, CoverDoesNotRetry
<1> QED
  BY <1>1, <1>2, <1>3, <1>4, PTL DEF Spec, NoRetry, Study!NoRetry, Coverage!NoRetry

(***************************************************************************)
(* However the host changes and wherever a study stops: an attempt of a    *)
(* phase has all that the gates before it ask for, the next case is begun  *)
(* only after every earlier one reached a verdict within the budget, and a *)
(* pass or a gain has behind it every run it is a statement about.         *)
(***************************************************************************)
THEOREM StudyCorrect == Spec => []StudyIsEarned
<1>1. Init => StudyInv /\ CoverInv
  BY ComponentsAssumption, StudyInit, CoverInit DEF Init, CoverBounds
<1>2. StudyInv /\ CoverInv /\ [Next]_vars => (StudyInv /\ CoverInv)'
  BY ComponentsAssumption, StudyMoves, CoverageMoves, StudyStep, CoverStep DEF CoverBounds
<1>3. StudyInv => Study!GatesHold /\ Study!PassIsComplete
  BY DEF StudyInv, GatesWerePassed, PassWasEarned
<1>4. CoverInv => Coverage!GatesHold /\ Coverage!GainIsComplete
  BY ComponentsAssumption, CoverGatesHold DEF CoverBounds, CoverInv
<1>5. StudyInv /\ CoverInv => StudyIsEarned
  BY <1>3, <1>4 DEF StudyIsEarned
<1> QED
  BY <1>1, <1>2, <1>5, PTL DEF Spec

(***************************************************************************)
(* Wherever a case of the wider study fails and however the host changes:  *)
(* what failed in an orderly way is reconstructed and not called an        *)
(* identity failure, unless it is a block whose sources had changed before *)
(* its statistics were computed; validate_sequence accepts a finished      *)
(* sequence under its own status and under no other, and every attempt and *)
(* every process of every case is counted.  What is orderly is listed      *)
(* beside OrderlyStopsAreAudited.                                          *)
(***************************************************************************)
THEOREM SequenceAuditCorrect ==
    Spec => []( /\ Coverage!OrderlyStopsAreAudited /\ Coverage!SequenceLabelIsBinding
                /\ Coverage!CountsAreTrue)
<1> DEFINE Inv == CoverInv /\ AuditInv /\ shifted \in BOOLEAN
<1>1. Init => Inv
  BY ComponentsAssumption, CoverInit, AuditInit DEF Init, CoverBounds
<1>2. Inv /\ [Next]_vars => Inv'
  BY ComponentsAssumption, CoverageMoves, CoverStep, AuditStep, ShiftIsBoolean DEF CoverBounds
<1>3. Inv => Coverage!OrderlyStopsAreAudited /\ Coverage!SequenceLabelIsBinding /\ Coverage!CountsAreTrue
  BY ComponentsAssumption, SequenceIsAudited DEF CoverBounds, AuditInv
<1> HIDE DEF Inv
<1> QED
  BY <1>1, <1>2, <1>3, PTL DEF Spec

-----------------------------------------------------------------------------
(* The router probe *)

(***************************************************************************)
(* For prompts, generations and models of every size, in every mode and    *)
(* wherever a decode, an observation or a file fails: a run that exits     *)
(* with 0 leaves a line for every layer of every forward, under the right  *)
(* forward, token and phase, and has counted them all; and the temporal    *)
(* predictor is told each decode at most once, in order.                   *)
(***************************************************************************)
THEOREM ProbeCorrect == Spec => []ProbeIsFaithful
<1>1. Init => ProbeInv
  BY ComponentsAssumption, ProbeInit DEF Init, ProbeBounds
<1>2. ProbeInv /\ [Next]_vars => ProbeInv'
  BY ComponentsAssumption, ProbeMoves, RouterProbeStep DEF ProbeBounds
<1>3. ProbeInv => ProbeIsFaithful
  BY ComponentsAssumption, ProbeInvIsFaithful DEF ProbeIsFaithful, ProbeBounds
<1> QED
  BY <1>1, <1>2, <1>3, PTL DEF Spec

-----------------------------------------------------------------------------
(* The programs of the device: the expert island, the transfer benchmarks *)

(***************************************************************************)
(* Whatever graphs follow each other and wherever one of them stops: the   *)
(* GPU multiplies every expert that the router chose with its own weights, *)
(* the weights of an island cross the bus once, and a setting that needs   *)
(* too many shadows ends the runtime before its first graph.  Whenever the *)
(* device gets to what the host enqueued and whichever call fails: a timed *)
(* sample covers the copies it is divided by, all of its own round, and no *)
(* buffer is released under a copy that uses it.                           *)
(***************************************************************************)
THEOREM TransfersCorrect == Spec => []TransfersAreSound
<1>1. Init => IslandInv /\ TransferInv
  BY ComponentsAssumption, IslandInit, TransferStarts DEF Init, IslandBounds
<1>2. CallsAreSound
  BY ComponentsAssumption, CallsHold DEF TransferBounds
<1>3. IslandInv /\ TransferInv /\ [Next]_vars => (IslandInv /\ TransferInv)'
  BY ComponentsAssumption, IslandMoves, IslandStep, TransferMoves, <1>2, TransferStep DEF IslandBounds
<1>4. IslandInv /\ TransferInv => TransfersAreSound
  BY ComponentsAssumption, IslandInvIsSound, TransferIsSound DEF IslandBounds, TransfersAreSound
<1> QED
  BY <1>1, <1>3, <1>4, PTL DEF Spec

-----------------------------------------------------------------------------
(* The simulated cache *)

LEMMA CacheStarts == Init => CacheInv
  BY ComponentsAssumption, CacheInit DEF Init

LEMMA CacheStays == CacheInv /\ [Next]_vars => CacheInv'
  BY SimulationMoves, CacheStep

(***************************************************************************)
(* For every number of experts, slots and events: an expert that is in the *)
(* cache was used no earlier than any expert outside it, in whatever order *)
(* an event named its experts; and no set of experts that fits would have  *)
(* had more hits than the static residents.                                *)
(***************************************************************************)
THEOREM CacheCorrect == Spec => []CacheIsSound
<1>1. CacheInv => CacheIsSound
  BY CacheInvIsRecent, CacheInvIsBest DEF CacheIsSound
<1> QED
  BY <1>1, CacheStarts, CacheStays, PTL DEF Spec

(***************************************************************************)
(* Whatever the transfers of a step load and in whatever share of the      *)
(* step's transfers: no expert that the step demands loses its slot.       *)
(***************************************************************************)
THEOREM SparingCorrect == Spec => TransfersSpareDemand
<1>1. CacheInv /\ [Next]_vars => [Simulation!SparesDemand]_<<cache, queue>>
  BY SimulationMoves, CacheSparesDemand DEF cacheVars
<1> QED
  BY <1>1, CacheStarts, CacheStays, PTL DEF Spec, TransfersSpareDemand, Simulation!TransfersSpareDemand
=============================================================================
