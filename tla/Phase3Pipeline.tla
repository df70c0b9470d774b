---------------------------- MODULE Phase3Pipeline ----------------------------
(***************************************************************************)
(* `expertflow compile': the stock candidates are warmed up and measured,  *)
(* the strongest one is confirmed, sealed into a pending plan, replayed    *)
(* from that file and published; every step may fail, and the process may  *)
(* die between any two of them.  Compilations of one output directory      *)
(* follow each other; the last actor is `expertflow run --plan'.           *)
(*                                                                         *)
(* A run's tokens are the "same" as those it is compared with, or "other". *)
(* The number of a candidate stands for the order of the candidate ids.    *)
(***************************************************************************)
EXTENDS Integers, Sequences, FiniteSets

CONSTANTS
    None,
    Matrix,         \* stock_candidate_matrix: the cpu_moe setting of each candidate
    Placements,     \* placements a runtime may report it resolved
    Rates,          \* decode rates a candidate may show
    Repeats,        \* workload.measured_runs
    Pairs,          \* workload.confirmation_pairs
    MaxCompiles     \* bound: compilations of one output directory

Measurements == [cand : 1..Len(Matrix), moe : BOOLEAN, rate : Rates, fits : BOOLEAN]
Plans == [made : {"live", "recorded"}, of : Measurements, confirmed : 0..Pairs,
          tokens : SUBSET {"same", "other"}]
Statuses == {None, "ENVIRONMENT-BLOCKED", "VALIDATION-STOP", "RECORDED-DIAGNOSTIC", "INCONCLUSIVE",
             "PASS-STOCK-FALLBACK"}
Replays  == {None, "within", "outside"}
Explanations == [status : Statuses, sealed : BOOLEAN, replay : Replays]

Phase3PipelineAssumption ==
    /\ Matrix \in Seq(BOOLEAN) /\ Matrix # <<>> /\ Rates \subseteq Nat
    /\ Repeats \in Nat \ {0} /\ Pairs \in Nat \ {0} /\ MaxCompiles \in Nat
    /\ None \notin Placements \cup Measurements \cup Plans \cup Explanations
    /\ None # "PASS-STOCK-FALLBACK"

VARIABLES
    compiles,       \* compilations started so far
    returned,       \* how the last one ended
    replayed,       \* what the last `run --plan' answered
    (* one compilation *)
    step,           \* where it is
    mode,           \* "live" or "recorded"
    slot,           \* the candidate at hand
    reps,           \* its measured repetitions so far
    warm,           \* the placement its warmup resolved
    placed,         \* placements already represented
    measured,       \* the imported stock measurements
    floor,          \* stock_floor
    pairs,          \* confirmation runs so far
    pairTokens,     \* the tokens they returned
    status, sealed, replay,     \* these fields of the report
    (* the output directory *)
    explanation,    \* explanation.json: None or [status, sealed, replay]
    pending,        \* execution-plan.pending.json: None or a plan
    plan,           \* execution-plan.json: None or a plan
    summaries       \* which of stock-floor.json and static-plan.json exist

searching == <<slot, reps, warm, placed, measured>>
confirming == <<floor, pairs, pairTokens>>
verdict   == <<status, sealed, replay>>
local     == <<mode, searching, confirming, verdict>>
outputs   == <<explanation, pending, plan, summaries>>
pipelineVars == <<compiles, returned, replayed, step, local, outputs>>

Fresh ==
    /\ slot = 1 /\ reps = 0 /\ warm = None /\ placed = {} /\ measured = {}
    /\ floor = None /\ pairs = 0 /\ pairTokens = {}
    /\ status = None /\ sealed = FALSE /\ replay = None

Init ==
    /\ compiles = 0 /\ returned = None /\ replayed = None
    /\ step = "idle" /\ mode = None /\ Fresh
    /\ explanation = None /\ pending = None /\ plan = None /\ summaries = {}

Goto(s) == step' = s /\ UNCHANGED <<compiles, returned, replayed, mode>>

(* compile_phase3 returns, raises or dies: its variables are gone. *)
Over(r) ==
    /\ step' = "idle" /\ returned' = r /\ mode' = None
    /\ slot' = 1 /\ reps' = 0 /\ warm' = None /\ placed' = {} /\ measured' = {}
    /\ floor' = None /\ pairs' = 0 /\ pairTokens' = {}
    /\ status' = None /\ sealed' = FALSE /\ replay' = None
    /\ UNCHANGED <<compiles, replayed>>

(* The two except clauses.  The report of a live compilation keeps what it *)
(* says of sealing; that of a recorded one is not this report.             *)
Caught(st) ==
    /\ status' = st /\ sealed' = (sealed /\ mode = "live") /\ Goto("final")
    /\ UNCHANGED <<searching, confirming, replay, outputs>>
Blocked == Caught("ENVIRONMENT-BLOCKED")
Stopped == Caught("VALIDATION-STOP")

-----------------------------------------------------------------------------
(* Faulty: a directory that holds a plan is compiled into once more. *)
StartAnyway ==
    /\ step = "idle" /\ compiles < MaxCompiles
    /\ compiles' = compiles + 1
    /\ step' = "load" /\ mode' \in {"live", "recorded"} /\ returned' = None
    /\ UNCHANGED <<replayed, searching, confirming, verdict, outputs>>

(* A directory that holds a plan is refused, before anything else. *)
Start ==
    /\ step = "idle" /\ compiles < MaxCompiles
    /\ compiles' = compiles + 1
    /\ \/ /\ plan # None /\ returned' = "refused" /\ UNCHANGED <<step, mode>>
       \/ /\ plan = None /\ step' = "load" /\ mode' \in {"live", "recorded"} /\ returned' = None
    /\ UNCHANGED <<replayed, searching, confirming, verdict, outputs>>

(* load_compiler_inputs, and the memory sampler of a live compilation. *)
Load ==
    /\ step = "load"
    /\ \/ Blocked
       \/ Stopped
       \/ /\ Goto(IF mode = "live" THEN "warmup" ELSE "recorded")
          /\ UNCHANGED <<searching, confirming, verdict, outputs>>

Measurement(c, r, f) == [cand |-> c, moe |-> Matrix[c], rate |-> r, fits |-> f]

(* select_strongest_stock: among those that fit the memory and vary little. *)
Eligible(ms)  == {m \in ms : m.fits}
Strongest(ms) == CHOOSE m \in Eligible(ms) : \A n \in Eligible(ms) :
                    n.rate < m.rate \/ (n.rate = m.rate /\ m.cand <= n.cand)

Plan(m, n, tokens) == [made |-> mode, of |-> m, confirmed |-> n, tokens |-> tokens]

(* _recorded_report: committed evidence without records is diagnostic only; *)
(* with records of a candidate a plan is sealed from them.  They may be     *)
(* the confirmations of an earlier compilation.                             *)
(* Bound: the records are about one candidate.                              *)
Recorded ==
    /\ step = "recorded"
    /\ \/ Stopped
       \/ /\ Goto("explain") /\ status' = "RECORDED-DIAGNOSTIC"
          /\ UNCHANGED <<searching, confirming, sealed, replay, outputs>>
       \/ /\ \E c \in 1..Len(Matrix), r \in Rates : floor' = Measurement(c, r, TRUE)
          /\ measured' = {floor'}
          /\ pairs' \in {0, Pairs} /\ pairTokens' = {"same"}
          /\ Goto("explain") /\ status' = "RECORDED-DIAGNOSTIC" /\ sealed' = TRUE
          /\ UNCHANGED <<slot, reps, warm, placed, replay, outputs>>

-----------------------------------------------------------------------------
(* The stock matrix *)

(* Faulty: a rejected candidate is tried again. *)
NextCandidateSame ==
    /\ slot' = slot
    /\ reps' = 0 /\ warm' = None
    /\ Goto(IF slot = Len(Matrix) THEN "select" ELSE "warmup")

NextCandidate ==
    /\ slot' = slot + 1
    /\ reps' = 0 /\ warm' = None
    /\ Goto(IF slot = Len(Matrix) THEN "select" ELSE "warmup")

(* Out of memory or over the reserve: rejected; any other failure blocks.   *)
(* A placement that a measured candidate already resolved is not measured.  *)
Warmup ==
    /\ step = "warmup"
    /\ \/ Blocked
       \/ /\ NextCandidate
          /\ UNCHANGED <<placed, measured, confirming, verdict, outputs>>
       \/ \E p \in (Placements \ placed) \cup {None} :
            /\ warm' = p /\ Goto("measure")
            /\ UNCHANGED <<slot, reps, placed, measured, confirming, verdict, outputs>>

(* One measured repetition; other tokens than the warmup's stop it all. *)
Measure ==
    /\ step = "measure"
    /\ \/ Blocked
       \/ Stopped
       \/ /\ NextCandidate                               \* the reserve was violated
          /\ UNCHANGED <<placed, measured, confirming, verdict, outputs>>
       \/ /\ reps + 1 < Repeats /\ reps' = reps + 1
          /\ UNCHANGED <<step, compiles, returned, replayed, mode>>
          /\ UNCHANGED <<slot, warm, placed, measured, confirming, verdict, outputs>>
       \/ /\ reps + 1 = Repeats
          /\ \E r \in Rates, f \in BOOLEAN : measured' = measured \cup {Measurement(slot, r, f)}
          /\ placed' = placed \cup ({warm} \ {None})
          /\ NextCandidate
          /\ UNCHANGED <<confirming, verdict, outputs>>

(* Faulty: the fastest candidate is taken, whatever its memory and variance. *)
SelectFastest ==
    /\ step = "select" /\ measured # {}
    /\ floor' = (CHOOSE m \in measured : \A n \in measured : n.rate <= m.rate)
    /\ Goto("equivalence")
    /\ UNCHANGED <<searching, pairs, pairTokens, verdict, outputs>>

Select ==
    /\ step = "select"
    /\ \/ /\ Eligible(measured) = {} /\ status' = "INCONCLUSIVE" /\ Goto("explain")
          /\ UNCHANGED <<floor, sealed, replay>>
       \/ /\ Eligible(measured) # {} /\ floor' = Strongest(measured) /\ Goto("equivalence")
          /\ UNCHANGED verdict
    /\ UNCHANGED <<searching, pairs, pairTokens, outputs>>

(* The fork with its features off must return the tokens of a measured      *)
(* CPU-MoE candidate; then StaticPlacementPass, which rejects all it finds. *)
Equivalence ==
    /\ step = "equivalence"
    /\ \/ Blocked
       \/ Stopped
       \/ /\ \E m \in measured : m.moe
          /\ Goto("confirm")
          /\ UNCHANGED <<searching, confirming, verdict, outputs>>

-----------------------------------------------------------------------------
(* Confirmation, sealing and replay *)

(* Faulty: the tokens of a confirmation are not compared with the floor's. *)
ConfirmUnchecked ==
    /\ step = "confirm" /\ pairs < Pairs
    /\ \/ Blocked
       \/ Stopped
       \/ /\ pairs' = pairs + 1 /\ pairTokens' \in {pairTokens \cup {t} : t \in {"same", "other"}}
          /\ UNCHANGED <<step, compiles, returned, replayed, mode>>
          /\ UNCHANGED <<searching, floor, verdict, outputs>>

(* Other tokens than those of the floor are one more reason to stop. *)
Confirm ==
    /\ step = "confirm" /\ pairs < Pairs
    /\ \/ Blocked
       \/ Stopped
       \/ /\ pairs' = pairs + 1 /\ pairTokens' = pairTokens \cup {"same"}
          /\ UNCHANGED <<step, compiles, returned, replayed, mode>>
          /\ UNCHANGED <<searching, floor, verdict, outputs>>

(* The confirmations are imported; they may vary too much. *)
Gate ==
    /\ step = "confirm" /\ pairs = Pairs
    /\ \/ Stopped
       \/ /\ status' = "INCONCLUSIVE" /\ Goto("explain")
          /\ UNCHANGED <<searching, confirming, sealed, replay, outputs>>
       \/ /\ Goto("pend")
          /\ UNCHANGED <<searching, confirming, verdict, outputs>>

(* seal_candidate, and the pending file. *)
Pend ==
    /\ step = "pend"
    /\ \/ Stopped
       \/ /\ pending' = Plan(floor, pairs, pairTokens)
          /\ Goto("replay")
          /\ UNCHANGED <<searching, confirming, verdict, explanation, plan, summaries>>

(* replay_sealed_plan refuses a plan without its confirmations. *)
Replayable(p) == p.confirmed >= Pairs

(* Faulty: the tolerance is not applied. *)
ReplayTolerant ==
    /\ step = "replay"
    /\ \E d \in {"within", "outside"} : replay' = d
    /\ status' = "PASS-STOCK-FALLBACK" /\ sealed' = TRUE /\ Goto("explain")
    /\ UNCHANGED <<searching, confirming, outputs>>

(* A run of the pending file: it fails, returns other tokens, or its rate is *)
(* within the tolerance of the confirmations or outside.                     *)
Replay ==
    /\ step = "replay"
    /\ \/ Stopped
       \/ /\ Replayable(pending)
          /\ \/ status' \in {"ENVIRONMENT-BLOCKED", "VALIDATION-STOP"} /\ UNCHANGED <<sealed, replay>>
             \/ replay' = "outside" /\ status' = "VALIDATION-STOP" /\ UNCHANGED sealed
             \/ replay' = "within" /\ status' = "PASS-STOCK-FALLBACK" /\ sealed' = TRUE
          /\ Goto("explain")
          /\ UNCHANGED <<searching, confirming, outputs>>

-----------------------------------------------------------------------------
(* The output directory: each file is replaced at once, or an OSError stops it *)

Report == [status |-> status, sealed |-> sealed, replay |-> replay]

(* Faulty: the plan is published before the explanation that claims it. *)
ExplainLast ==
    /\ step = "explain"
    /\ IF sealed
       THEN /\ plan' = IF mode = "live" THEN pending ELSE Plan(floor, pairs, pairTokens)
            /\ step' = "final" /\ UNCHANGED <<compiles, returned, replayed, local, explanation, pending, summaries>>
       ELSE explanation' = Report /\ Over(status) /\ UNCHANGED <<pending, plan, summaries>>

Explain ==
    /\ step = "explain"
    /\ \/ Stopped
       \/ /\ explanation' = Report
          /\ \/ sealed /\ Goto("publish") /\ UNCHANGED <<searching, confirming, verdict>>
             \/ ~sealed /\ Over(status)
          /\ UNCHANGED <<pending, plan, summaries>>

Publish ==
    /\ step = "publish"
    /\ \/ Stopped
       \/ /\ plan' = IF mode = "live" THEN pending ELSE Plan(floor, pairs, pairTokens)
          /\ \/ mode = "live" /\ Goto("floor") /\ UNCHANGED <<searching, confirming, verdict>>
             \/ mode = "recorded" /\ Over("RECORDED-REPLAY")
          /\ UNCHANGED <<explanation, pending, summaries>>

Summarise ==
    /\ step \in {"floor", "static"}
    /\ \/ Stopped
       \/ /\ summaries' = summaries \cup {step}
          /\ \/ step = "floor" /\ Goto("static") /\ UNCHANGED <<searching, confirming, verdict>>
             \/ step = "static" /\ Over(status)
          /\ UNCHANGED <<explanation, pending, plan>>

(* After an except clause; here an OSError is the caller's. *)
Final ==
    /\ step = "final"
    /\ \/ explanation' = Report /\ Over(status)
       \/ Over("raised") /\ UNCHANGED explanation
    /\ UNCHANGED <<pending, plan, summaries>>

(* An interrupt, an exception nobody catches, or the end of the process. *)
Die ==
    /\ step # "idle"
    /\ Over("died") /\ UNCHANGED outputs

(* `expertflow run --plan' on the published file. *)
RunPlan ==
    /\ step = "idle" /\ plan # None
    /\ \/ replayed' \in {"refused", "VALIDATION-STOP"}
       \/ Replayable(plan) /\ replayed' = "PASS-STOCK-FALLBACK"
    /\ UNCHANGED <<compiles, returned, step, local, outputs>>

Compile ==
    \/ Load \/ Recorded \/ Warmup \/ Measure \/ Select \/ Equivalence \/ Confirm \/ Gate
    \/ Pend \/ Replay \/ Explain \/ Publish \/ Summarise \/ Final

Next == Start \/ Compile \/ Die \/ RunPlan

Spec == Init /\ [][Next]_pipelineVars

(* A compilation runs on: each of its runs has deadlines of its own. *)
FairSpec == Spec /\ WF_pipelineVars(Compile)

-----------------------------------------------------------------------------
(* Correctness properties *)

TypeOK ==
    /\ compiles \in 0..MaxCompiles
    /\ step \in {"idle", "load", "recorded", "warmup", "measure", "select", "equivalence", "confirm",
                 "pend", "replay", "explain", "publish", "floor", "static", "final"}
    /\ slot \in 1..(Len(Matrix) + 1) /\ reps \in 0..(Repeats - 1)
    /\ warm \in Placements \cup {None} /\ placed \subseteq Placements
    /\ measured \subseteq Measurements /\ floor \in Measurements \cup {None}
    /\ pairs \in 0..Pairs /\ pairTokens \subseteq {"same", "other"}
    /\ status \in Statuses /\ sealed \in BOOLEAN /\ replay \in Replays
    /\ step \in {"confirm", "pend", "replay"} => floor # None
    /\ step = "idle" => Fresh

(***************************************************************************)
(* What is confirmed is the fastest candidate that fits, and a plan that a *)
(* live compilation published was confirmed Pairs times with its tokens    *)
(* and replayed from its file within the tolerance.  What a sealed run     *)
(* passed is the plan still in the directory, and its evidence is          *)
(* confirmations, whether it was compiled live or from recorded evidence.  *)
(***************************************************************************)
PlanIsEarned ==
    /\ floor # None =>
          /\ floor \in Eligible(measured)
          /\ \A m \in Eligible(measured) : m.rate <= floor.rate
    /\ plan # None /\ plan.made = "live" =>
          /\ plan.of.fits /\ plan.confirmed = Pairs /\ plan.tokens = {"same"}
          /\ explanation # None /\ explanation.replay = "within"
    /\ replayed = "PASS-STOCK-FALLBACK" =>
          plan # None /\ plan.confirmed >= Pairs /\ plan.tokens = {"same"}

(***************************************************************************)
(* Whatever fails or dies after a plan was published, the explanation      *)
(* beside it says that it was sealed; a compilation that returned PASS     *)
(* left the plan and both summaries.                                       *)
(***************************************************************************)
PlanIsClaimed ==
    /\ plan # None => explanation # None /\ explanation.sealed
    /\ returned = "PASS-STOCK-FALLBACK" => plan # None /\ summaries = {"floor", "static"}

(* A published plan stays as it is, however often the directory is reused. *)
PlanStays == plan # None => plan' = plan
PlanIsFinal == [][PlanStays]_pipelineVars

(* No compilation runs: under FairSpec that is so again and again. *)
Idle == step = "idle"
=============================================================================
