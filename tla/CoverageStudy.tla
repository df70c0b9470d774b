---------------------------- MODULE CoverageStudy ----------------------------
(***************************************************************************)
(* The wider stock utility study: run_sequence measures several registered *)
(* cases, each a whole utility search with its product and its consumer,   *)
(* under a wall budget per case and one for the sequence.  Every case is   *)
(* reconstructed from its files as soon as it ends; only a complete one    *)
(* within its budget lets the next one start.  validate_sequence later     *)
(* does the same from the files alone.                                     *)
(*                                                                         *)
(* `drift' is TRUE while the host or a source file differs from what was   *)
(* registered: a host may change and change back.  A budget that is        *)
(* exhausted stays so.  A failure to write a report is not modelled.       *)
(***************************************************************************)
EXTENDS Integers, SequencesExt

CONSTANTS
    None,               \* no value
    Cases,              \* number of registered cases, 4 in the code
    ReferenceRuns,      \* bounds: runs of each stage of a case, 10,
    ScreeningRuns,      \* 36,
    ConfirmationRuns,   \* 40
    BlockRuns,          \* and 20 in the code
    MaxDrifts           \* bound: how often the host or the sources change

(* The statuses of a case, of its product and of the sequence *)
GAIN    == "PASS-STOCK-UTILITY"
PRODUCT == "PASS-STOCK-UTILITY-PRODUCT"
NoGain  == {"NO-UTILITY-GAIN", "MANUAL-BASELINE-STOP", "TUNING-COST-STOP"}
StatisticalStops == NoGain \cup {"VARIANCE-STOP", "PRODUCT-VALIDATION-STOP"}
Failures == {"VALIDATION-STOP", "ENVIRONMENT-BLOCKED", "RESOURCE-BUDGET-STOP"}
COMPLETE == "COMPLETE-STOCK-COVERAGE"
PairVerdicts == {"PASS-MEASUREMENT", "INCONCLUSIVE", "VALIDATION-STOP"}

(* An outcome of run_once, report.json of a case and of its product *)
Ends      == [status : {"measured", "environment_blocked", "validation_stop"}, mid : {"none", "valid", "invalid"}]
CaseFiles == [status : {"RUNNING", PRODUCT} \cup StatisticalStops \cup Failures, rows : Nat, tail : Seq(Ends),
              picked : BOOLEAN, stats : NoGain \cup {"VARIANCE-STOP", GAIN, None}]
PairFiles == [status : {"RUNNING", "PASS-STOCK-FALLBACK"} \cup PairVerdicts \cup Failures, rows : Nat, tail : Seq(Ends),
              evaluated : BOOLEAN]        \* the statistics of the pairs are in the report

CoverageStudyAssumption ==
    /\ {Cases, ReferenceRuns, ScreeningRuns, ConfirmationRuns, BlockRuns} \subseteq Nat \ {0}
    /\ MaxDrifts \in Nat
    /\ None \notin BOOLEAN /\ None \notin Ends /\ None \notin CaseFiles /\ None \notin PairFiles

VARIABLES
    drift, drifts,
    caseLate, late,     \* the wall budget of the case, of the sequence, is exhausted
    at, case, phase,    \* where run_sequence is
    made,               \* rows of the phase
    got,                \* the outcome run_once has just returned
    undisturbed,        \* history: none of what OrderlyStopsAreAudited leaves out has happened
    attempts,           \* attempts of each case, in its report
    files,              \* report.json of each case: None or its content
    rates,              \* what the measured rates of each case say
    products,           \* product/report.json of each case: None or its content
    frozen,             \* product/frozen-protocol.json: None or `drift' at that time
    selected, accepted, \* cases with a sealed selected plan, with a published product
    consumers,          \* the `consumer' entry of each report
    results,            \* the cases of the sequence's report
    totals,             \* its counts of attempts and native processes
    status              \* its status

world   == <<drift, drifts, caseLate, late>>
where   == <<at, case, phase, made>>
evidence == <<attempts, files, rates, products, frozen, selected, accepted, consumers>>
verdict == <<results, totals, status>>
coverageVars == <<world, where, got, undisturbed, evidence, verdict>>

All == 1..Cases
Picked      == ReferenceRuns + ScreeningRuns            \* rows that choose the winners, 46
UtilityRuns == Picked + ConfirmationRuns                \* 86
CaseBudget  == UtilityRuns + BlockRuns + 1              \* 107

NotRun == [status |-> "NOT-RUN", verified |-> FALSE, attempts |-> 0, native |-> 0]

Init ==
    /\ drift = FALSE /\ drifts = 0 /\ caseLate = FALSE /\ late = FALSE
    /\ at = "capture" /\ case = 0 /\ phase = "raw" /\ made = 0 /\ got = None /\ undisturbed = TRUE
    /\ attempts = [i \in All |-> <<>>] /\ files = [i \in All |-> None]
    /\ rates = [i \in All |-> [stable |-> None, utility |-> None, product |-> None]]
    /\ products = [i \in All |-> None] /\ frozen = [i \in All |-> None]
    /\ selected = {} /\ accepted = {} /\ consumers = [i \in All |-> None]
    /\ results = [i \in All |-> NotRun] /\ totals = [attempts |-> 0, native |-> 0] /\ status = "PREFLIGHT"

(* The host, the sources and the clock *)
Drift ==
    /\ drifts < MaxDrifts /\ drift' = ~drift /\ drifts' = drifts + 1
    /\ UNCHANGED <<caseLate, late, where, got, undisturbed, evidence, verdict>>
Expire ==
    /\ at # "over" /\ caseLate' \in {caseLate, TRUE} /\ late' \in {late, TRUE}
    /\ <<caseLate, late>>' # <<caseLate, late>>
    /\ UNCHANGED <<drift, drifts, where, got, undisturbed, evidence, verdict>>
Expired == caseLate \/ late

-----------------------------------------------------------------------------
(* How a case and a sequence end *)

SequenceEnds(s) == at' = "count" /\ status' = s
Goto(l) == at' = l /\ UNCHANGED status

(* A report of pairs whose statistics were not computed. *)
Unevaluated(s, rows, tail) == [status |-> s, rows |-> rows, tail |-> tail, evaluated |-> FALSE]

(* execute_case's finally: a frozen product that wrote no report gets one. *)
CaseEnds(s, outcome) ==
    /\ files' = [files EXCEPT ![case].status = s, ![case].tail = outcome]
    /\ products' = IF frozen[case] # None /\ products[case] = None
                   THEN [products EXCEPT ![case] = Unevaluated("RUNNING", 0, <<>>)]
                   ELSE products
    /\ Goto("validate")
Tail0 == files[case].tail

(* execute_stock_product returned the report b. *)
ProductEnds(b) ==
    /\ products' = [products EXCEPT ![case] = b]
    /\ files' = [files EXCEPT ![case].status =
                   IF b.rows = BlockRuns /\ rates'[case].product # "PASS-MEASUREMENT"
                   THEN "PRODUCT-VALIDATION-STOP" ELSE b.status]
    /\ Goto("validate")

(* An exception: execute_pairs catches a ValueError, not a ResourceStop.   *)
Raise(why, tail) ==
    IF phase = "product" /\ why = "value"
    THEN ProductEnds(Unevaluated("VALIDATION-STOP", made, tail))
    ELSE CaseEnds(IF why = "budget" THEN "RESOURCE-BUDGET-STOP" ELSE "VALIDATION-STOP",
                  IF phase = "raw" THEN tail ELSE Tail0)

(* A look at the budgets, n attempts having been made, and at the sources   *)
(* and the host: what it raises, if anything.                               *)
Objections(n) ==
    (IF Expired \/ n >= CaseBudget THEN {"budget"} ELSE {}) \cup (IF drift THEN {"value"} ELSE {})
Quiet(b) == undisturbed' = (undisturbed /\ b)

-----------------------------------------------------------------------------
(* run_sequence before and between the cases *)

Capture ==
    /\ at = "capture"
    /\ IF drift THEN SequenceEnds("IDENTITY-STOP") ELSE Goto("load")
    /\ Quiet(~drift)
    /\ UNCHANGED <<world, case, phase, made, got, evidence, results, totals>>

(* The inputs of every case are loaded and checked, then all is frozen. *)
Load ==
    /\ at = "load"
    /\ \/ Expired /\ SequenceEnds("RESOURCE-BUDGET-STOP") /\ UNCHANGED <<case, undisturbed>>
       \/ SequenceEnds("IDENTITY-STOP") /\ undisturbed' = FALSE /\ UNCHANGED case
       \/ ~drift /\ ~Expired /\ at' = "next" /\ status' = "RUNNING" /\ case' = 1 /\ UNCHANGED undisturbed
    /\ UNCHANGED <<world, phase, made, got, evidence, results, totals>>

NextCase ==
    /\ at = "next"
    /\ CASE case > Cases -> SequenceEnds(COMPLETE)
         [] case <= Cases /\ late -> SequenceEnds("RESOURCE-BUDGET-STOP")
         [] OTHER -> Goto("open")
    /\ UNCHANGED <<world, case, phase, made, got, undisturbed, evidence, results, totals>>

(* execute_case until its `try': the registered inputs, the frozen         *)
(* manifest and the first report.  The budget of the case starts here.     *)
OpenCase ==
    /\ at = "open"
    /\ caseLate' = FALSE /\ phase' = "raw" /\ made' = 0
    /\ \/ /\ files' = [files EXCEPT ![case] = [status |-> "RUNNING", rows |-> 0, tail |-> <<>>,
                                               picked |-> FALSE, stats |-> None]]
          /\ Goto("run") /\ UNCHANGED undisturbed
       \/ SequenceEnds("IDENTITY-STOP") /\ undisturbed' = FALSE /\ UNCHANGED files
    /\ UNCHANGED <<drift, drifts, late, case, got, attempts, rates, products, frozen, selected, accepted,
                   consumers, results, totals>>

-----------------------------------------------------------------------------
(* One native run through PacedRunner *)

Runs(p) == CASE p = "raw" -> UtilityRuns [] p = "product" -> BlockRuns [] p = "consumer" -> 1
Attempt == [phase |-> phase, status |-> "waiting", mid |-> "none", started |-> FALSE,
            late |-> FALSE, clean |-> TRUE]
Latest  == attempts[case][Len(attempts[case])]
Log(a)  == attempts' = [attempts EXCEPT ![case] = [@ EXCEPT ![Len(@)] = a]]
Failed  == [Latest EXCEPT !.status = "exception"]
Ended(o, clean) == [Latest EXCEPT !.status = o.status, !.mid = o.mid, !.clean = clean]

(* execute_pairs and run_accepted_stock_plan compare the host with the one *)
(* the product was frozen on.                                              *)
Check ==
    /\ at = "run" /\ phase # "raw" /\ made < Runs(phase)
    /\ IF drift # frozen[case] THEN Raise("value", <<>>) ELSE Goto("guard") /\ UNCHANGED <<files, products>>
    /\ UNCHANGED <<world, case, phase, made, got, undisturbed, attempts, rates, frozen, selected, accepted,
                   consumers, results, totals>>

(* The guard, before the attempt is recorded. *)
Guard ==
    /\ at = (IF phase = "raw" THEN "run" ELSE "guard") /\ made < Runs(phase)
    /\ \/ \E why \in Objections(Len(attempts[case])) : Raise(why, <<>>) /\ UNCHANGED attempts
       \/ /\ Objections(Len(attempts[case])) = {} /\ Goto("wait") /\ UNCHANGED <<files, products>>
          /\ attempts' = [attempts EXCEPT ![case] = Append(@, Attempt)]
    /\ UNCHANGED <<world, case, phase, made, got, undisturbed, rates, frozen, selected, accepted, consumers, results, totals>>

LastLook == Objections(Len(attempts[case]) - 1)

(* After the wait: the clock and the host, the bytes of the model and of   *)
(* the runtime.                                                            *)
Wait ==
    /\ at = "wait"
    /\ \/ \E why \in LastLook \cup {"value"} : Raise(why, <<>>) /\ Log(Failed)
       \/ LastLook = {} /\ Goto("spawn") /\ Log([Latest EXCEPT !.status = "attempting"]) /\ UNCHANGED <<files, products>>
    /\ UNCHANGED <<world, case, phase, made, got, undisturbed, rates, frozen, selected, accepted, consumers, results, totals>>

(* run_once up to the process: it may stop before, its factory looks at    *)
(* everything again, and the objection outlives the outcome that run_once  *)
(* made of it.  Time passes between that look and the start.               *)
Unstarted == [status : {"environment_blocked", "validation_stop"}, mid : {"none"}]
Spawn ==
    /\ at = "spawn"
    /\ \/ \E why \in LastLook \cup {"value"} : Raise(why, <<>>) /\ Log(Failed) /\ UNCHANGED got
       \/ \E o \in Unstarted : got' = o /\ Log(Ended(o, TRUE)) /\ Goto("collect") /\ UNCHANGED <<files, products>>
       \/ LastLook = {} /\ Goto("start") /\ UNCHANGED <<files, products, attempts, got>>
    /\ UNCHANGED <<world, case, phase, made, undisturbed, rates, frozen, selected, accepted, consumers, results, totals>>
Start ==
    /\ at = "start"
    /\ Log([Latest EXCEPT !.started = TRUE, !.late = Expired]) /\ Goto("native") /\ Quiet(~Expired)
    /\ UNCHANGED <<world, case, phase, made, got, files, rates, products, frozen, selected, accepted,
                   consumers, results, totals>>

(* What the started process comes to: a measurement, one that does not     *)
(* verify, a stop whose cleanup is or is not proved, or an exception.      *)
Native ==
    /\ at = "native"
    /\ \/ /\ got' \in {[status |-> "measured", mid |-> "valid"],
                       [status |-> "validation_stop", mid |-> "invalid"]} \cup Unstarted
          /\ \E clean \in {TRUE} \cup {got'.mid # "none"} :
                Log(Ended(got', clean)) /\ Quiet(clean /\ got'.mid # "invalid")
          /\ Goto("collect") /\ UNCHANGED <<files, products>>
       \/ \E why \in {"value", "other"} : Raise(why, <<>>) /\ Log([Failed EXCEPT !.clean = FALSE])
          /\ Quiet(FALSE) /\ UNCHANGED got
    /\ UNCHANGED <<world, case, phase, made, rates, frozen, selected, accepted, consumers, results, totals>>

-----------------------------------------------------------------------------
(* What is made of an outcome *)

Label(o) == IF o.status = "validation_stop" THEN "VALIDATION-STOP" ELSE "ENVIRONMENT-BLOCKED"

Stopped ==
    /\ got.status # "measured"
    /\ CASE phase = "raw" -> CaseEnds(Label(got), <<got>>) /\ UNCHANGED consumers
         [] phase = "product" -> ProductEnds(Unevaluated(Label(got), made, <<got>>))
                                 /\ UNCHANGED consumers
         [] phase = "consumer" -> CaseEnds(Label(got), Tail0) /\ consumers' = [consumers EXCEPT ![case] = got]
    /\ UNCHANGED <<made, rates>>

(* The measurement does not agree with the reference. *)
Differs == got.status = "measured" /\ Raise("value", <<got>>) /\ UNCHANGED <<made, rates, consumers>>

(* A row; the last reference run decides whether the references are stable. *)
RowAdded ==
    /\ got.status = "measured" /\ phase = "raw"
    /\ made' = made + 1
    /\ \E stable \in (IF made + 1 = ReferenceRuns THEN BOOLEAN ELSE {rates[case].stable}) :
         LET f == [files[case] EXCEPT !.rows = made + 1, !.picked = made + 1 >= Picked] IN
         /\ rates' = [rates EXCEPT ![case].stable = stable]
         /\ IF stable = FALSE
            THEN files' = [files EXCEPT ![case] = [f EXCEPT !.status = "VARIANCE-STOP"]] /\ Goto("validate")
            ELSE files' = [files EXCEPT ![case] = f] /\ Goto("run")
    /\ UNCHANGED <<products, consumers>>
PairRowAdded ==
    /\ got.status = "measured" /\ phase = "product"
    /\ made' = made + 1 /\ Goto("run")
    /\ products' = [products EXCEPT ![case] = Unevaluated("RUNNING", made + 1, <<>>)]
    /\ UNCHANGED <<files, rates, consumers>>
(* run_accepted_stock_plan looks at the host once more. *)
Consumed ==
    /\ got.status = "measured" /\ phase = "consumer"
    /\ IF drift # frozen[case] THEN Raise("value", <<>>) /\ UNCHANGED consumers
       ELSE CaseEnds(PRODUCT, Tail0) /\ consumers' = [consumers EXCEPT ![case] = got]
    /\ UNCHANGED <<made, rates>>

Collect ==
    /\ at = "collect"
    /\ Stopped \/ Differs \/ RowAdded \/ PairRowAdded \/ Consumed
    /\ Quiet(phase = "consumer" /\ got.status = "measured" => files'[case].status = PRODUCT)
    /\ UNCHANGED <<world, case, phase, got, attempts, frozen, selected, accepted, results, totals>>

(* The intervals of a complete search; a gain is sealed as a plan. *)
Evaluate ==
    /\ at = "run" /\ phase = "raw" /\ made = UtilityRuns
    /\ \E v \in NoGain \cup {"VARIANCE-STOP", GAIN}, sealed \in BOOLEAN :
         /\ rates' = [rates EXCEPT ![case].utility = v]
         /\ selected' = IF v = GAIN /\ sealed THEN selected \cup {case} ELSE selected
         /\ files' = [files EXCEPT ![case].stats = v,
                                   ![case].status = CASE v # GAIN -> v
                                                      [] v = GAIN /\ sealed -> "RUNNING"
                                                      [] OTHER -> "VALIDATION-STOP"]
         /\ Goto(IF v = GAIN /\ sealed THEN "freeze" ELSE "validate")
    /\ UNCHANGED <<world, case, phase, made, got, undisturbed, attempts, products, frozen, accepted,
                   consumers, results, totals>>

(* execute_pairs freezes the protocol of the product on the host it finds. *)
Freeze ==
    /\ at = "freeze"
    /\ phase' = "product" /\ made' = 0 /\ Quiet(~drift)
    /\ \/ frozen' = [frozen EXCEPT ![case] = drift] /\ Goto("run") /\ UNCHANGED files
       \/ files' = [files EXCEPT ![case].status = "VALIDATION-STOP"] /\ Goto("validate") /\ UNCHANGED frozen
    /\ UNCHANGED <<world, case, got, attempts, rates, products, selected, accepted, consumers, results, totals>>

(* A last look at the sources, the verdict of the pairs, and a last look   *)
(* at the host: what differs in the first leaves the report no statistics, *)
(* from which execute_case all the same takes the verdict of its rows.     *)
EvaluatePairs ==
    /\ at = "run" /\ phase = "product" /\ made = BlockRuns
    /\ \E v \in PairVerdicts :
         /\ rates' = [rates EXCEPT ![case].product = v]
         /\ \/ /\ drift # frozen[case]
               /\ \E sourcesHold \in BOOLEAN :
                     ProductEnds([Unevaluated("VALIDATION-STOP", made, <<>>) EXCEPT !.evaluated = sourcesHold])
            \/ /\ drift = frozen[case] /\ v # "PASS-MEASUREMENT"
               /\ ProductEnds([Unevaluated(v, made, <<>>) EXCEPT !.evaluated = TRUE])
            \/ /\ drift = frozen[case] /\ v = "PASS-MEASUREMENT"
               /\ products' = [products EXCEPT ![case].status = v, ![case].evaluated = TRUE]
               /\ Goto("publish") /\ UNCHANGED files
    /\ UNCHANGED <<world, case, phase, made, got, undisturbed, attempts, frozen, selected, accepted, consumers, results, totals>>

(* publish_stock_product; a failure other than a ValueError, an OSError, a *)
(* KeyError or a TypeError leaves the verdict of the pairs in the report.  *)
Publish ==
    /\ at = "publish"
    /\ \/ /\ drift = frozen[case] /\ accepted' = accepted \cup {case}
          /\ products' = [products EXCEPT ![case].status = "PASS-STOCK-FALLBACK"]
          /\ phase' = "consumer" /\ made' = 0 /\ Goto("run") /\ UNCHANGED <<files, undisturbed>>
       \/ /\ products' = [products EXCEPT ![case].status = "VALIDATION-STOP"]
          /\ files' = [files EXCEPT ![case].status = "VALIDATION-STOP"]
          /\ Goto("validate") /\ UNCHANGED <<accepted, phase, made, undisturbed>>
       \/ /\ files' = [files EXCEPT ![case].status = "VALIDATION-STOP"]
          /\ Goto("validate") /\ Quiet(FALSE) /\ UNCHANGED <<accepted, phase, made, products>>
    /\ UNCHANGED <<world, case, got, attempts, rates, frozen, selected, consumers, results, totals>>

-----------------------------------------------------------------------------
(* reconstruct_case: what the files of case i must say.  The host must be  *)
(* the registered one while it runs.                                       *)

(* The attempts of a phase, in their order. *)
Made(i, p) == {k \in DOMAIN attempts[i] : attempts[i][k].phase = p}
Of(i, p) ==
    [n \in 1..Cardinality(Made(i, p)) |->
        attempts[i][CHOOSE k \in Made(i, p) : Cardinality({j \in Made(i, p) : j < k}) = n - 1]]
Valid(a) == a.status = "measured" /\ a.mid = "valid"

AttemptVerifies(a) ==
    /\ a.started => ~a.late
    /\ a.mid # "none" \/ a.status = "measured" => Valid(a)
    /\ a.started /\ a.mid = "none" => a.clean

(* The first n attempts made the rows, at most one more was made, and the  *)
(* outcome that made no row, if it was recorded, is that of this attempt.  *)
PrefixVerifies(n, tail, entries) ==
    /\ n + Len(tail) <= Len(entries) /\ Len(entries) <= n + 1
    /\ \A k \in 1..n : Valid(entries[k])
    /\ tail # <<>> => entries[n + 1].status = tail[1].status /\ entries[n + 1].mid = tail[1].mid

(* Faulty: a failed publication is taken for a block that was not evaluated. *)
NoPublicationStop(i) == FALSE

(* A publication that failed is verified as the block it would have published. *)
BlockPasses(i) == products[i].status \in {"PASS-MEASUREMENT", "PASS-STOCK-FALLBACK"}
PublicationStop(i) == products[i].rows = BlockRuns /\ products[i].status = "VALIDATION-STOP"

BlockVerifies(i) ==
    LET b == products[i] IN
    /\ frozen[i] = FALSE
    /\ PrefixVerifies(b.rows, b.tail, Of(i, "product"))
    /\ Len(Of(i, "product")) > b.rows /\ Of(i, "product")[b.rows + 1].status = "measured"
            => b.status \in {"VALIDATION-STOP", "RUNNING"}
    /\ IF b.rows = BlockRuns
       THEN /\ b.evaluated
            /\ \/ PublicationStop(i) \/ b.status = rates[i].product
               \/ b.status = "PASS-STOCK-FALLBACK" /\ rates[i].product = "PASS-MEASUREMENT"
       ELSE b.status \in {"RUNNING", "VALIDATION-STOP", "ENVIRONMENT-BLOCKED"}

ConsumerVerifies(i) ==
    LET a == Of(i, "consumer")[1]
        passed == consumers[i] # None /\ consumers[i].status = "measured" IN
    /\ consumers[i] # None => a.status = consumers[i].status /\ a.mid = consumers[i].mid
    /\ (a.status = "measured") = passed
    /\ files[i].status = PRODUCT => passed

ProductVerifies(i) ==
    LET s == files[i].status
        rest == Of(i, "product") \o Of(i, "consumer") IN
    IF i \notin selected \/ products[i] = None
    THEN s \in {"RESOURCE-BUDGET-STOP", "VALIDATION-STOP"} /\ rest = <<>>
    ELSE /\ BlockVerifies(i)
         /\ s = PRODUCT => Len(rest) > BlockRuns
         /\ CASE s = "PRODUCT-VALIDATION-STOP" ->
                    /\ ~BlockPasses(i) /\ Len(rest) = BlockRuns
                    /\ rates[i].product # "PASS-MEASUREMENT"
              [] s # "PRODUCT-VALIDATION-STOP" /\ (~BlockPasses(i) \/ PublicationStop(i)) -> s \in Failures
              [] OTHER -> /\ i \in accepted
                          /\ IF Len(rest) = BlockRuns + 1 THEN ConsumerVerifies(i)
                             ELSE s \in {"VALIDATION-STOP", "RESOURCE-BUDGET-STOP"}

CaseVerifies(i) ==
    LET f == files[i]  n == files[i].rows  entries == attempts[i]  raw == Of(i, "raw") IN
    /\ Len(entries) <= CaseBudget /\ \A k \in DOMAIN entries : AttemptVerifies(entries[k])
    /\ PrefixVerifies(n, f.tail, raw) /\ (n < UtilityRuns => raw = entries)
    /\ rates[i].stable = FALSE => Len(entries) = ReferenceRuns
    /\ f.picked = (n >= Picked)
    /\ f.stats = IF n = UtilityRuns THEN rates[i].utility ELSE None
    /\ CASE n < UtilityRuns -> f.status \in Failures \cup (IF rates[i].stable = FALSE THEN {"VARIANCE-STOP"} ELSE {})
         [] n = UtilityRuns /\ f.stats # GAIN -> f.status = f.stats /\ Len(entries) = UtilityRuns
         [] OTHER -> ProductVerifies(i)

Started(i) == Cardinality({k \in DOMAIN attempts[i] : attempts[i][k].started})
Measured(i) == \A k \in DOMAIN attempts[i] : attempts[i][k].status = "measured"
Reconstructed(i, inBudget) ==
    [status |-> files[i].status, verified |-> TRUE, attempts |-> Len(attempts[i]), native |-> Started(i),
     measured |-> Measured(i), inBudget |-> inBudget, gain |-> files[i].status = PRODUCT /\ inBudget]

(* Faulty: the wall budget of a case does not hold the sequence up. *)
ContinuesLate(r) == r.verified /\ r.measured /\ r.status \in StatisticalStops \cup {PRODUCT}

(* can_continue, and the resource gate beside it *)
Continues(r) == r.verified /\ r.measured /\ r.inBudget /\ r.status \in StatisticalStops \cup {PRODUCT}

Validate ==
    /\ at = "validate"
    /\ IF drift \/ ~CaseVerifies(case)
       THEN SequenceEnds("IDENTITY-STOP") /\ UNCHANGED <<results, case>>
       ELSE LET r == Reconstructed(case, ~Expired) IN
            /\ results' = [results EXCEPT ![case] = r]
            /\ IF Continues(r) THEN Goto("next") /\ case' = case + 1
               ELSE SequenceEnds("SEQUENCE-STOP") /\ UNCHANGED case
    /\ Quiet(~drift)
    /\ UNCHANGED <<world, phase, made, got, evidence, totals>>

(* Faulty: a case that could not be reconstructed is not counted. *)
RetainedUncounted(i) == results[i]

(* run_sequence's finally: a case that could not be reconstructed is       *)
(* counted from its files.                                                 *)
Retained(i) ==
    IF results[i].status = "NOT-RUN" /\ files[i] # None
    THEN [status |-> files[i].status, verified |-> FALSE, attempts |-> Len(attempts[i]), native |-> Started(i)]
    ELSE results[i]

Total(f) == FoldFunction(+, 0, f)
Count ==
    /\ at = "count" /\ at' = "over"
    /\ results' = [i \in All |-> Retained(i)]
    /\ totals' = [attempts |-> Total([i \in All |-> Retained(i).attempts]),
                  native |-> Total([i \in All |-> Retained(i).native])]
    /\ UNCHANGED <<world, case, phase, made, got, undisturbed, evidence, status>>

Sequence ==
    \/ Capture \/ Load \/ NextCase \/ OpenCase \/ Check \/ Guard \/ Wait \/ Spawn \/ Start \/ Native
    \/ Collect \/ Evaluate \/ Freeze \/ EvaluatePairs \/ Publish \/ Validate \/ Count
Done == at = "over"

Next == Drift \/ Expire \/ Sequence
Spec == Init /\ [][Next]_coverageVars /\ WF_coverageVars(Sequence)

-----------------------------------------------------------------------------
(* validate_sequence: whether it accepts the report with status s, on the  *)
(* registered host.                                                        *)
Ran(i) == files[i] # None
Accepts(s) ==
    /\ case > 0
    /\ \A i \in All :
         IF Ran(i)
         THEN /\ CaseVerifies(i) /\ results[i].verified
              /\ results[i] = Reconstructed(i, results[i].inBudget)
              /\ \A j \in 1..(i - 1) : Ran(j) => Continues(results[j])
         ELSE results[i].status = "NOT-RUN" /\ s # COMPLETE
    /\ s = IF \E i \in All : Ran(i) /\ ~Continues(results[i]) THEN "SEQUENCE-STOP" ELSE COMPLETE


-----------------------------------------------------------------------------
Entries == [phase : {"raw", "product", "consumer"},
            status : {"waiting", "attempting", "measured", "environment_blocked", "validation_stop", "exception"},
            mid : {"none", "valid", "invalid"}, started : BOOLEAN, late : BOOLEAN, clean : BOOLEAN]
TypeOK ==
    /\ {drift, caseLate, late, undisturbed} \subseteq BOOLEAN /\ drifts \in 0..MaxDrifts
    /\ case \in 0..(Cases + 1) /\ phase \in {"raw", "product", "consumer"} /\ made \in 0..Runs(phase)
    /\ \A i \in All : Len(attempts[i]) <= CaseBudget /\ \A k \in DOMAIN attempts[i] : attempts[i][k] \in Entries
    /\ accepted \subseteq selected /\ selected \subseteq All
    /\ \A i \in All : frozen[i] \in BOOLEAN \cup {None} /\ (products[i] # None => frozen[i] # None)
    /\ status \in {"PREFLIGHT", "RUNNING", "IDENTITY-STOP", "RESOURCE-BUDGET-STOP", "SEQUENCE-STOP", COMPLETE}

(* No attempt of any case follows one that failed (PacedRunner, run_sequence). *)
Retries ==
    /\ \E i \in All : Len(attempts'[i]) > Len(attempts[i])
    /\ \E i \in All : \E k \in DOMAIN attempts[i] : ~Valid(attempts[i][k])
NoRetry == [][~Retries]_coverageVars

(* What a case must have shown before the next one may start.              *)
MeasuredRuns(i, p) == Cardinality({k \in Made(i, p) : Valid(attempts[i][k])})
Concluded(i) ==
    \/ rates[i].stable = FALSE /\ MeasuredRuns(i, "raw") = ReferenceRuns
    \/ rates[i].utility \in NoGain \cup {"VARIANCE-STOP"} /\ MeasuredRuns(i, "raw") = UtilityRuns
    \/ rates[i].product \in PairVerdicts \ {"PASS-MEASUREMENT"} /\ MeasuredRuns(i, "product") = BlockRuns
    \/ MeasuredRuns(i, "consumer") = 1

(* A stage makes attempts only when the gates before it were passed, and a *)
(* case only when every case before it reached a verdict within its        *)
(* budget, whichever runner, caller or guard saw a failure (execute_case,  *)
(* run_sequence).                                                          *)
GatesHold ==
    \A i \in All :
        /\ Len(attempts[i]) > ReferenceRuns => rates[i].stable = TRUE
        /\ Made(i, "product") # {} => /\ rates[i].utility = GAIN /\ MeasuredRuns(i, "raw") = UtilityRuns
        /\ Made(i, "consumer") # {} => /\ rates[i].product = "PASS-MEASUREMENT" /\ i \in accepted
                                      /\ MeasuredRuns(i, "product") = BlockRuns
        /\ attempts[i] # <<>> => \A j \in 1..(i - 1) : Concluded(j) /\ results[j].inBudget

(* A gain is claimed only for a case with its whole budget of measured     *)
(* runs, all started in time, and a published product (apply_resource_gate). *)
GainIsComplete ==
    \A i \in All : results[i].verified /\ results[i].gain =>
        /\ Len(attempts[i]) = CaseBudget /\ i \in accepted /\ frozen[i] = FALSE
        /\ \A k \in DOMAIN attempts[i] : Valid(attempts[i][k]) /\ ~attempts[i][k].late

(* However a sequence ends, it counts every attempt and every process that *)
(* was started, those of a case it could not reconstruct too.              *)
CountsAreTrue ==
    Done => totals = [attempts |-> Total([i \in All |-> Len(attempts[i])]),
                      native   |-> Total([i \in All |-> Started(i)])]

(* All the pairs of a case were run and their statistics never computed. *)
LacksStatistics(i) == products[i] # None /\ products[i].rows = BlockRuns /\ ~products[i].evaluated

(* A case that stopped in an orderly way is reconstructed and not called   *)
(* an identity failure, but for the one that has all the rows of its pairs *)
(* and no statistics of them, since a source had changed when they were to *)
(* be computed; and validate_sequence accepts the report of a finished     *)
(* sequence with the status that it has and with no other                  *)
(* (reconstruct_case, validate_sequence).  Not orderly are: a host or      *)
(* source that differs when it is captured, frozen or reconstructed,       *)
(* inputs that cannot be loaded, a process that is started late, raises,   *)
(* or whose cleanup or record is not valid, a consumer that is measured    *)
(* and then refused, and a publication that fails with an exception that   *)
(* execute_stock_product does not catch.                                   *)
OrderlyStopsAreAudited ==
    /\ undisturbed /\ status = "IDENTITY-STOP" => case \in All /\ LacksStatistics(case)
    /\ Done /\ undisturbed /\ status \in {"SEQUENCE-STOP", COMPLETE} => Accepts(status)
SequenceLabelIsBinding ==
    Done => \A s \in {"SEQUENCE-STOP", COMPLETE} : Accepts(s) => s = status
=============================================================================
