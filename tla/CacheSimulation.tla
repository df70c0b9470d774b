--------------------------- MODULE CacheSimulation ---------------------------
(***************************************************************************)
(* The expert cache as the analyses simulate it, for one layer: the LRU    *)
(* policy of policy_outcomes, and simulate_concurrent_prefetch, where the  *)
(* conversations of one step first have experts transferred and then       *)
(* consume their demands in turn.  Layers have caches and counts of their  *)
(* own and share a step's transfers only, so a layer may get any part of   *)
(* them.                                                                   *)
(*                                                                         *)
(* A cache is the sequence of its experts, the one used last at the end.   *)
(***************************************************************************)
EXTENDS Integers, Sequences, FiniteSets, Functions

CONSTANTS
    Experts,        \* expert ids of the layer
    Capacity,       \* capacity_per_layer
    TopK,           \* selected_expert_ids of an event are at most so many
    MaxTransfers,   \* max_transfers_per_step
    StepEvents,     \* bound: events of one step
    MaxCount        \* bound: how often an expert is demanded, where demands are counted

CacheSimulationAssumption ==
    /\ Experts \subseteq Nat /\ IsFiniteSet(Experts)
    /\ TopK \in 1..Capacity                 \* _validated_trace, _validated_inputs
    /\ {Capacity, MaxTransfers, StepEvents, MaxCount} \subseteq Nat

VARIABLES
    simulation,     \* "lru" or "static_hotset", or the prediction of the prefetching one
    cache,
    counts,         \* how often the trace has demanded each expert, for who counts it
    queue,          \* the demands of the running step that are not consumed yet
    issued,         \* experts transferred for this step
    useful,         \* counted_ready
    (* history, for the properties *)
    fresher,        \* of every expert used so far: those whose last use is of a later event
    missed,         \* misses of the running step
    wouldMiss       \* misses it would have had without transfers

cacheVars == <<simulation, cache, counts, queue, issued, useful, fresher, missed, wouldMiss>>

Predictions == {"none", "oracle", "frequency"}
Demands == {s \in UNION {[1..k -> Experts] : k \in 1..TopK} : IsInjective(s)}
Wanted(events) == UNION {Range(events[i]) : i \in DOMAIN events}

Init ==
    /\ simulation \in {"lru", "static_hotset"} \cup Predictions
    /\ cache = <<>> /\ counts = [e \in Experts |-> 0]
    /\ queue = <<>> /\ issued = {} /\ useful = {}
    /\ fresher = <<>> /\ missed = 0 /\ wouldMiss = 0

-----------------------------------------------------------------------------
(* The operations of an OrderedDict *)

Delete(c, k) == [i \in 1..(Len(c) - 1) |-> IF i < k THEN c[i] ELSE c[i + 1]]
MoveToEnd(c, e) == Append(Delete(c, CHOOSE k \in DOMAIN c : c[k] = e), e)

(* The place of the expert that makes room: of those not to be kept, the   *)
(* one used least recently.                                                *)
Victim(c, keep) == CHOOSE k \in DOMAIN c : c[k] \notin keep /\ \A i \in 1..(k - 1) : c[i] \in keep

(* Faulty: the most recent one makes room. *)
LoadOverLast(c, e, keep) ==
    Append(IF Len(c) < Capacity THEN c
           ELSE Delete(c, CHOOSE k \in DOMAIN c :
                              c[k] \notin keep /\ \A i \in (k + 1)..Len(c) : c[i] \in keep), e)

Load(c, e, keep) == Append(IF Len(c) < Capacity THEN c ELSE Delete(c, Victim(c, keep)), e)

Blocking(c, demand) == Range(demand) \ Range(c)

(* policy_outcomes: all hits are moved before the first miss is loaded. *)
AfterPolicy(c, demand) ==
    LET moved[n \in 0..Len(demand)] ==
            IF n = 0 THEN c
            ELSE IF demand[n] \in Range(c) THEN MoveToEnd(moved[n - 1], demand[n]) ELSE moved[n - 1]
        loaded[n \in 0..Len(demand)] ==
            IF n = 0 THEN moved[Len(demand)]
            ELSE IF demand[n] \in Blocking(c, demand)
                 THEN Load(loaded[n - 1], demand[n], Range(demand)) ELSE loaded[n - 1]
    IN  loaded[Len(demand)]

(* _consume_demand: hits and misses in the order of the demand. *)
AfterDemand(c, demand) ==
    LET after[n \in 0..Len(demand)] ==
            IF n = 0 THEN c
            ELSE IF demand[n] \in Range(after[n - 1]) THEN MoveToEnd(after[n - 1], demand[n])
                 ELSE Load(after[n - 1], demand[n], Range(demand))
    IN  after[Len(demand)]

-----------------------------------------------------------------------------

Count(demand) == counts' = [e \in Experts |-> IF e \in Range(demand) THEN counts[e] + 1 ELSE counts[e]]

Use(demand) ==
    fresher' = [e \in DOMAIN fresher \cup Range(demand) |->
                    IF e \in Range(demand) THEN {} ELSE fresher[e] \cup Range(demand)]

LruEvent ==
    /\ simulation = "lru"
    /\ \E demand \in Demands : cache' = AfterPolicy(cache, demand) /\ Use(demand)
    /\ UNCHANGED <<simulation, counts, queue, issued, useful, missed, wouldMiss>>

(* The hotset's residents are chosen from the counts of the whole trace. *)
CountEvent ==
    /\ simulation = "static_hotset"
    /\ \E demand \in Demands : Count(demand) /\ \A e \in Experts : counts'[e] <= MaxCount
    /\ UNCHANGED <<simulation, cache, queue, issued, useful, fresher, missed, wouldMiss>>

(* The candidates of a step, in the order in which they are transferred. *)
Score(events) ==
    CASE simulation = "none"      -> [e \in Experts |-> 0]
      [] simulation = "frequency" -> counts
      [] simulation = "oracle"    ->
            [e \in Experts |-> Cardinality({i \in DOMAIN events : e \in Range(events[i])})]

Ahead(score, d, e) == score[d] > score[e] \/ (score[d] = score[e] /\ d < e)
Rank(score, e, S) == Cardinality({d \in S : Ahead(score, d, e)})

Ranked(events) ==
    LET score == Score(events)
        S == {e \in Experts : score[e] > 0 /\ e \notin Range(cache)}
    IN  [n \in 1..Cardinality(S) |-> CHOOSE e \in S : Rank(score, e, S) = n - 1]

(* Faulty: what the step demands may make room. *)
TransferUnprotected(s, e, wanted) ==
    IF s.budget = 0 THEN s
    ELSE [cache |-> Load(s.cache, e, s.sent), sent |-> s.sent \cup {e}, budget |-> s.budget - 1]

(* One candidate: it needs a slot that neither this step's demands nor its *)
(* transfers hold.                                                         *)
Transfer(s, e, wanted) ==
    IF \/ s.budget = 0 \/ e \in Range(s.cache)
       \/ Len(s.cache) >= Capacity /\ Range(s.cache) \subseteq s.sent \cup wanted
    THEN s
    ELSE [cache |-> Load(s.cache, e, s.sent \cup wanted), sent |-> s.sent \cup {e},
          budget |-> s.budget - 1]

AfterTransfers(share, ranked, wanted) ==
    LET after[n \in 0..Len(ranked)] ==
            IF n = 0 THEN [cache |-> cache, sent |-> {}, budget |-> share]
            ELSE Transfer(after[n - 1], ranked[n], wanted)
    IN  after[Len(ranked)]

(* What the demands of a step miss, consumed in turn from a cache. *)
Misses(c, events) ==
    LET after[n \in 0..Len(events)] ==
            IF n = 0 THEN c ELSE AfterDemand(after[n - 1], events[n])
    IN  Cardinality(UNION {{n} \X Blocking(after[n - 1], events[n]) : n \in DOMAIN events})

Prefetch ==
    /\ simulation \in Predictions /\ queue = <<>>
    /\ \E events \in UNION {[1..n -> Demands] : n \in 1..StepEvents}, share \in 0..MaxTransfers :
          LET after == AfterTransfers(share, Ranked(events), Wanted(events))
          IN  /\ queue' = events
              /\ cache' = after.cache /\ issued' = after.sent
              /\ wouldMiss' = Misses(cache, events)
    /\ useful' = {} /\ missed' = 0
    /\ UNCHANGED <<simulation, counts, fresher>>

Consume ==
    /\ queue # <<>>
    /\ LET demand == Head(queue) IN
          /\ cache' = AfterDemand(cache, demand)
          /\ useful' = useful \cup (issued \cap Range(cache) \cap Range(demand))
          /\ missed' = missed + Cardinality(Blocking(cache, demand))
          /\ IF simulation = "frequency"
             THEN Count(demand) /\ \A e \in Experts : counts'[e] <= MaxCount
             ELSE UNCHANGED counts
          /\ IF simulation = "none" THEN Use(demand) ELSE UNCHANGED fresher
    /\ queue' = Tail(queue)
    /\ UNCHANGED <<simulation, issued, wouldMiss>>

Next == LruEvent \/ CountEvent \/ Prefetch \/ Consume

Spec == Init /\ [][Next]_cacheVars

-----------------------------------------------------------------------------
(* Static residents *)

Demanded == {e \in Experts : counts[e] > 0}

(* Faulty: the rarest experts. *)
ResidentsRarest ==
    {e \in Demanded : Cardinality({d \in Demanded : Ahead(counts, e, d)}) < Capacity}

(* _static_residents, of the trace so far *)
Residents == {e \in Demanded : Rank(counts, e, Demanded) < Capacity}

-----------------------------------------------------------------------------
(* Correctness properties *)

(* Kinds of values; a cache holds each expert once and fits. *)
TypeOK ==
    /\ simulation \in {"lru", "static_hotset"} \cup Predictions
    /\ cache \in Seq(Experts) /\ IsInjective(cache) /\ Len(cache) <= Capacity
    /\ counts \in [Experts -> 0..MaxCount] /\ queue \in Seq(Demands)
    /\ issued \subseteq Experts /\ useful \subseteq issued /\ Cardinality(issued) <= MaxTransfers
    /\ DOMAIN fresher \subseteq Experts /\ fresher \in [DOMAIN fresher -> SUBSET DOMAIN fresher]
    /\ missed \in Nat /\ wouldMiss \in Nat

(***************************************************************************)
(* Least recently used: without transfers, an expert in the cache was used *)
(* no earlier than any expert outside, whatever the order inside an event; *)
(* and the last event's experts are all there.                             *)
(***************************************************************************)
CacheIsRecent ==
    \A e \in DOMAIN fresher :
        /\ fresher[e] = {} => e \in Range(cache)
        /\ e \in Range(cache) => fresher[e] \subseteq Range(cache)

(***************************************************************************)
(* The transfers of a step never take the slot of an expert that the step  *)
(* demands: what was ready stays ready.                                    *)
(***************************************************************************)
SparesDemand ==
    queue = <<>> /\ queue' # <<>> => Range(cache) \cap Wanted(queue') \subseteq Range(cache')
TransfersSpareDemand == [][SparesDemand]_<<cache, queue>>

(***************************************************************************)
(* "The oracle is an upper bound"                                          *)
(* (docs/research/original-project-specification.md:3185): the transfers   *)
(* never cost the step that they are for, which misses no more than it     *)
(* would have without them.                                                *)
(***************************************************************************)
OracleIsUpperBound == simulation = "oracle" /\ queue = <<>> => missed <= wouldMiss

(***************************************************************************)
(* No other set of residents of that size would have had more hits in the  *)
(* trace that they were chosen from.                                       *)
(***************************************************************************)
HitsOf(S) == Cardinality(UNION {{e} \X (1..counts[e]) : e \in S})
ResidentsAreBest ==
    simulation = "static_hotset" =>
        \A S \in SUBSET Experts : Cardinality(S) <= Capacity => HitsOf(S) <= HitsOf(Residents)
=============================================================================
