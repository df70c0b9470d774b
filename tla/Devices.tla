-------------------------------- MODULE Devices -------------------------------
(***************************************************************************)
(* The programs of MCComponents that run on a device, or simulate one:     *)
(* their variables, and the instances of their modules.                    *)
(***************************************************************************)
EXTENDS Integers, Sequences, FiniteSets, NoValue

CONSTANTS
    Experts, Capacity, TopK, MaxTransfers, StepEvents, MaxCount,        \* CacheSimulation
    Slots, Rounds, Warmups,                                             \* CudaTransfer
    Prompt, Predict, Depth, Captures, Target,                           \* RouterProbe
    ModelLayers, Weights, Bank, MaxLayers, MaxShadows, MaxGraphs        \* ExpertIsland

VARIABLES
    (* CacheSimulation *)
    simulation, cache, counts, queue, issued, useful, fresher, missed, wouldMiss,
    (* CudaTransfer *)
    benchmarks, doing, round, next, failing, held, stream, done, stamp, begun, timings,
    (* RouterProbe *)
    argv, tracing, captureAt, probePc, position, layer, forwardId, decodeId, order, good, refused,
    captured, count, lost, identity, seen, sampled, trace, files, probeExit,
    (* ExpertIsland *)
    setting, host, graphs, graph, todo, shadows, routed, known, work, resident, staging, place, loads,
    wrong

Simulation == INSTANCE CacheSimulation
Transfer   == INSTANCE CudaTransfer WITH calls <- benchmarks, at <- doing, samples <- timings
Probe      == INSTANCE RouterProbe WITH
                Tokens <- Captures, mode <- tracing, target <- captureAt, pc <- probePc,
                exitCode <- probeExit
Static     == INSTANCE ExpertIsland WITH stream <- work

cacheVars   == <<simulation, cache, counts, queue, issued, useful, fresher, missed, wouldMiss>>
cudaVars    == <<benchmarks, doing, round, next, failing, held, stream, done, stamp, begun, timings>>
probeVars   == <<argv, tracing, captureAt, probePc, position, layer, forwardId, decodeId, order, good,
                 refused, captured, count, lost, identity, seen, sampled, trace, files, probeExit>>
islandVars  == <<setting, host, graphs, graph, todo, shadows, routed, known, work, resident, staging,
                 place, loads, wrong>>
===============================================================================
