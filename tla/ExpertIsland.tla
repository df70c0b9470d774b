----------------------------- MODULE ExpertIsland -----------------------------
(***************************************************************************)
(* The scheduler of the patched runtime (ggml-backend.cpp) and its static  *)
(* expert island: the expert weights of some layers, which stay on the     *)
(* host, get shadows on the GPU that are filled once; those of the other   *)
(* layers are copied for every graph that the GPU computes, and only for   *)
(* the experts that the router chose.  Copies and multiplications are only *)
(* enqueued: the device executes them in order, later.                     *)
(*                                                                         *)
(* One GPU, one copy of every input (n_copies = 1, so that there are no    *)
(* events), every expert tensor the first source of a node that opens its  *)
(* split.  The split profile, a diagnostic, is left out.                   *)
(***************************************************************************)
EXTENDS Integers, SequencesExt

CONSTANTS
    None,           \* no value
    ModelLayers,    \* layers of the model
    Weights,        \* expert tensors of a layer
    Bank,           \* experts of a tensor
    MaxLayers,      \* EXPERTFLOW_STATIC_ISLAND_MAX_LAYERS, 12 in the code
    MaxShadows,     \* EXPERTFLOW_STATIC_ISLAND_MAX_SHADOWS, 48 in the code
    MaxGraphs       \* bound: graphs that the scheduler computes

ExpertIslandAssumption ==
    /\ {ModelLayers, Weights, Bank, MaxLayers, MaxShadows} \subseteq Nat \ {0} /\ MaxGraphs \in Nat
    /\ None \notin 1..ModelLayers

VARIABLES
    setting,        \* LLAMA_EXPERTFLOW_STATIC_ISLAND_LAYER, entry by entry; 0 is not a layer
    host,           \* where the host is
    graphs,         \* graphs submitted
    graph,          \* the graph: its kind and whether it is allocated
    todo,           \* the tensors of the splits to compute
    shadows,        \* the table: the source tensor of each shadow, and `loaded'
    routed,         \* what the router chose in the layer that is being computed
    known,          \* ids_tensor as the host last read it: its layer and the experts
    stream,         \* what the GPU has still to execute
    resident,       \* GPU memory: the tensors whose shadow holds their weights,
    staging,        \*   the tensor whose weights each slot of the copy holds,
    place,          \*   and where the copy is allocated
    loads,          \* history: how often each tensor was loaded into a shadow
    wrong           \* history: a multiplication read weights that were not there

queueVars  == <<graph, todo, routed, known>>
deviceVars == <<stream, resident, staging, wrong>>
islandVars == <<setting, host, graphs, queueVars, shadows, deviceVars, place, loads>>

BankSlots == 0..(Bank - 1)
Pieces == (1..ModelLayers) \X (1..Weights)
Island == Range(setting)
Nothing == [layer |-> None, ids |-> {}]
Empty  == [s \in BankSlots |-> None]

Init ==
    /\ setting \in SeqOf(0..ModelLayers, MaxLayers + 1)
    /\ host = "new" /\ graphs = 0 /\ graph = [kind |-> "prompt", allocated |-> FALSE] /\ todo = <<>>
    /\ shadows = <<>> /\ routed = Nothing /\ known = Nothing
    /\ stream = <<>> /\ resident = {} /\ staging = Empty /\ place = 0
    /\ loads = [t \in Pieces |-> 0] /\ wrong = FALSE

-----------------------------------------------------------------------------
(* Creation and reservation, once *)

(* Too many entries, an entry that is no layer, or one that stands twice. *)
Configure ==
    /\ host = "new"
    /\ host' = IF Len(setting) > MaxLayers \/ 0 \in Island \/ ~IsInjective(setting)
               THEN "aborted" ELSE "created"
    /\ UNCHANGED <<setting, graphs, queueVars, shadows, deviceVars, place, loads>>

(* Tensors in the order of the graph. *)
InOrder(tensors) ==
    CHOOSE s \in [1..Cardinality(tensors) -> tensors] :
        \A i, j \in DOMAIN s : i < j => s[i][1] < s[j][1] \/ (s[i][1] = s[j][1] /\ s[i][2] < s[j][2])

(* The expert tensors that the GPU multiplies with: the island's, which    *)
(* the patched llama-context assigns to it, and in a prompt, which is      *)
(* worth offloading, all.                                                  *)
OnIsland == {t \in Pieces : t[1] \in Island}
Pulled(kind) == InOrder(IF kind = "prompt" THEN Pieces ELSE OnIsland)

(* expertflow_static_island_get_shadow, for every input of the graph. *)
Sources == {shadows[i].source : i \in DOMAIN shadows}
Missing == InOrder(OnIsland \ Sources)
Shadowed ==
    /\ Len(shadows) + Len(Missing) <= MaxShadows
    /\ shadows' = shadows \o [i \in DOMAIN Missing |-> [source |-> Missing[i], loaded |-> FALSE]]

(* Faulty: reserving creates no shadows. *)
Unreserved == UNCHANGED shadows
Reserved == Shadowed

Reserve ==
    /\ host = "created"
    /\ \/ Reserved /\ host' = "idle"
       \/ host' \in {"aborted", "failed"} /\ UNCHANGED shadows      \* memory for shadows, for the graph
    /\ UNCHANGED <<setting, graphs, queueVars, deviceVars, place, loads>>

-----------------------------------------------------------------------------
(* A graph *)

(* The caller brings a graph of the kind it had, or resets the scheduler.  *)
Submit ==
    /\ host = "idle" /\ graphs < MaxGraphs /\ graphs' = graphs + 1
    /\ \E kind \in {"prompt", "decode"}, same \in BOOLEAN :
         /\ same => graph = [kind |-> kind, allocated |-> TRUE]
         /\ graph' = [kind |-> kind, allocated |-> same]
         /\ host' = IF same THEN "begin" ELSE "split"
    /\ UNCHANGED <<setting, todo, routed, known, shadows, deviceVars, place, loads>>

Split ==
    /\ host = "split"
    /\ \/ Shadowed /\ host' = "alloc"
       \/ Len(shadows) + Len(Missing) > MaxShadows /\ host' = "aborted" /\ UNCHANGED shadows
    /\ UNCHANGED <<setting, graphs, queueVars, deviceVars, place, loads>>

(* The graph fits into the memory there is; or the host waits for the      *)
(* device, and the memory is freed and allocated anew.                     *)
Fits  == graph' = [graph EXCEPT !.allocated = TRUE] /\ host' = "begin" /\ UNCHANGED <<place, staging>>
Drained == stream = <<>>
(* Faulty: memory is freed under what the device has still to execute. *)
MovedUnderway == place' = place + 1 /\ staging' = Empty
Moved == Drained /\ place' = place + 1 /\ staging' = Empty
Alloc ==
    /\ host = "alloc"
    /\ \/ Fits
       \/ Moved /\ graph' = [graph EXCEPT !.allocated = TRUE] /\ host' = "begin"
       \/ Drained /\ host' = "idle" /\ UNCHANGED <<graph, place, staging>>      \* ALLOC_FAILED
    /\ UNCHANGED <<setting, graphs, todo, routed, known, shadows, stream, resident, loads, wrong>>

Begin ==
    /\ host = "begin"
    /\ todo' = Pulled(graph.kind) /\ routed' = Nothing /\ known' = Nothing
    /\ host' = IF todo' = <<>> THEN "idle" ELSE "input"
    /\ UNCHANGED <<setting, graphs, graph, shadows, deviceVars, place, loads>>

(* The layer's router, before its first expert split. *)
Route ==
    /\ host = "input" /\ routed.layer # Head(todo)[1]
    /\ \E ids \in SUBSET BankSlots \ {{}} : routed' = [layer |-> Head(todo)[1], ids |-> ids]
    /\ UNCHANGED <<setting, host, graphs, graph, todo, known, shadows, deviceVars, place, loads>>

(* The whole tensor, the first time. *)
Entry == CHOOSE i \in DOMAIN shadows : shadows[i].source = Head(todo)
Enqueue(ops) == stream' = stream \o ops
(* Faulty: a shadow is not remembered as loaded. *)
LoadedAgain == shadows
LoadedNow == [shadows EXCEPT ![Entry].loaded = TRUE]
Preload ==
    /\ Head(todo)[1] \in Island
    /\ IF shadows[Entry].loaded THEN UNCHANGED <<shadows, stream, loads>>
       ELSE /\ Enqueue(<<[op |-> "load", of |-> Head(todo)]>>)
            /\ shadows' = LoadedNow /\ loads' = [loads EXCEPT ![Head(todo)] = @ + 1]
    /\ UNCHANGED known

(* The ids are read from the device unless they are those of the last      *)
(* tensor; then every run of consecutive experts is copied, with a piece   *)
(* of the expert after it.                                                 *)
(* Faulty: ids that were read in this graph are not read again. *)
ReadBefore(layer) == known # Nothing
Read(layer) == known.layer = layer
Runs(ids) == {r \in BankSlots \X BankSlots : r[1]..r[2] # {} /\ r[1]..r[2] \subseteq ids
                                       /\ r[1] - 1 \notin ids /\ r[2] + 1 \notin ids}
(* Faulty: the run that the loop ends in is not copied. *)
AllButLast(ids) == {r \in Runs(ids) : \E i \in ids : i > r[2]}
Groups(ids) == Runs(ids)
CopyUsed ==
    /\ Head(todo)[1] \notin Island
    /\ known' = IF Read(Head(todo)[1]) THEN known ELSE routed
    /\ Enqueue(SetToSeq({[op |-> "copy", of |-> Head(todo), run |-> r, at |-> place] : r \in Groups(known'.ids)}))
    /\ UNCHANGED <<shadows, loads>>

(* The host waits until the device is done with the copy it may overwrite. *)
Input ==
    /\ host = "input" /\ routed.layer = Head(todo)[1] /\ Drained
    /\ Preload \/ CopyUsed
    /\ host' = "launch"
    /\ UNCHANGED <<setting, graphs, graph, todo, routed, resident, staging, place, wrong>>

(* The split is enqueued; when that fails the rest of the graph is dropped. *)
Launch ==
    /\ host = "launch"
    /\ \/ /\ Enqueue(<<[op |-> "multiply", of |-> Head(todo), ids |-> routed.ids, at |-> place]>>)
          /\ todo' = Tail(todo) /\ host' = IF todo' = <<>> THEN "idle" ELSE "input"
       \/ todo' = <<>> /\ host' = "idle" /\ UNCHANGED stream
    /\ UNCHANGED <<setting, graphs, graph, routed, known, shadows, resident, staging, place, loads, wrong>>

-----------------------------------------------------------------------------
(* The device *)

Holds(o) ==
    IF o.of[1] \in Island THEN o.of \in resident
    ELSE o.at = place /\ \A s \in o.ids : staging[s] = o.of

(* After the multiplication other tensors of the graph may use the memory. *)
DeviceStep ==
    /\ stream # <<>> /\ stream' = Tail(stream)
    /\ LET o == Head(stream) IN
       /\ resident' = IF o.op = "load" THEN resident \cup {o.of} ELSE resident
       /\ staging' = CASE o.op = "copy" -> [s \in BankSlots |-> IF s \in o.run[1]..o.run[2] THEN o.of
                                                             ELSE IF s = o.run[2] + 1 THEN None
                                                             ELSE staging[s]]
                       [] o.op = "multiply" /\ o.of[1] \notin Island -> Empty
                       [] OTHER -> staging
       /\ wrong' = (wrong \/ (o.op = "multiply" /\ ~Holds(o)))
    /\ UNCHANGED <<setting, host, graphs, queueVars, shadows, place, loads>>

Scheduler == Configure \/ Reserve \/ Split \/ Alloc \/ Begin \/ Route \/ Input \/ Launch
Next == Submit \/ Scheduler \/ DeviceStep
Spec == Init /\ [][Next]_islandVars /\ WF_islandVars(Scheduler) /\ WF_islandVars(DeviceStep)

Done == host \in {"idle", "aborted", "failed"}

-----------------------------------------------------------------------------
TypeOK ==
    /\ host \in {"new", "created", "idle", "split", "alloc", "begin", "input", "launch", "aborted", "failed"}
    /\ graphs \in 0..MaxGraphs /\ place \in 0..graphs /\ loads \in [Pieces -> Nat]
    /\ resident \subseteq Pieces /\ staging \in [BankSlots -> Pieces \cup {None}] /\ wrong \in BOOLEAN
    /\ Len(shadows) <= MaxShadows /\ IsInjective([i \in DOMAIN shadows |-> shadows[i].source])
    /\ known.layer # None => known = routed \/ routed.layer # known.layer

(* Whatever graphs follow each other and wherever one of them stops, every *)
(* expert that the router chose is multiplied with its own weights         *)
(* (expertflow_static_island_preload, ggml_backend_sched_compute_splits).  *)
OperandsAreWhole == ~wrong

(* The weights of an island cross the bus once in the life of the          *)
(* scheduler (expertflow_static_island_preload).                           *)
IslandsAreLoadedOnce == \A t \in Pieces : loads[t] <= 1 /\ (loads[t] = 1 => t[1] \in Island)

(* A setting or a model that needs too many shadows ends the runtime when  *)
(* it starts, never in the middle of a request (ggml_backend_sched_reserve). *)
AbortsAtStart == host = "aborted" => graphs = 0
=============================================================================
