-------------------------- MODULE RepeatabilityStudy --------------------------
(***************************************************************************)
(* The bounded repeatability study: run_followup measures two acceptance   *)
(* blocks, publishes the second, runs it once as a consumer and then       *)
(* repeats the whole utility study on another workload.  Two runners are   *)
(* stacked around every native run of the latter, each with a journal and  *)
(* guards of its own; an exception passes through both before some caller  *)
(* turns it into a status.  validate_followup later decides from the files *)
(* alone whether it believes the status.                                   *)
(*                                                                         *)
(* `drift' is TRUE while the host or a source file differs from what the   *)
(* study froze: a host may change and change back.  A failure to write a   *)
(* report is not modelled.                                                 *)
(***************************************************************************)
EXTENDS Integers, SequencesExt

CONSTANTS
    None,           \* no value
    BlockRuns,      \* bound: runs of a block, 20 in the code
    RawRuns,        \* bound: runs of the utility search and its pairs, 86 in the code
    MaxDrifts       \* bound: how often the host or the sources change

RepeatabilityStudyAssumption == BlockRuns \in Nat \ {0} /\ RawRuns \in Nat \ {0} /\ MaxDrifts \in Nat

VARIABLES
    drift, drifts,
    phase,          \* the phase that is running, or "end"
    step,           \* where it is
    rows,           \* complete rows of the phase
    got,            \* the outcome run_once has just returned
    raised,         \* history: what raised an exception: "no", a "guard" or another "fault"
    outer,          \* attempts of GuardedRunner
    inner,          \* attempts of FrozenRunner: those of the transfer
    opened,         \* phases whose directory exists
    frozen,         \* what a phase froze: None, or drift at that time
    blocks,         \* report.json of a block: None or its content
    verdicts,       \* what the rates of a complete phase say
    accepted,       \* blocks that are published
    consumers,      \* the `consumer' entries of the two reports
    utility,        \* the transfer's report.json: None or its content
    summary,        \* the outer report's statuses of the blocks and of the transfer
    final           \* the outer report's status

world   == <<drift, drifts>>
where   == <<phase, step, rows, raised>>
results == <<opened, frozen, verdicts, accepted, consumers>>
reports == <<blocks, utility, summary, final>>
studyVars == <<world, where, got, outer, inner, results, reports>>

Blocks    == {"block-a", "block-b", "product"}
Nested    == {"raw", "product", "transfer-consumer"}    \* execute_utility's
Consumers == {"consumer", "transfer-consumer"}
Phases    == Blocks \cup Nested \cup Consumers
Runs(p)   == IF p \in Blocks THEN BlockRuns ELSE IF p = "raw" THEN RawRuns ELSE 1
Budget    == 3 * BlockRuns + RawRuns + 2                \* MAXIMUM_NATIVE_PROCESSES

(* The phase whose frozen host a phase compares with: consumers load a receipt. *)
Reference(p) == CASE p = "consumer" -> "block-b" [] p = "transfer-consumer" -> "product" [] OTHER -> p
Changed(p)   == drift # frozen[p]

PASS    == "PASS-STOCK-REPEATABILITY-TRANSFER"
UTILITY == "PASS-STOCK-UTILITY"
PRODUCT == "PASS-STOCK-UTILITY-PRODUCT"
Stops   == {"REPEATABILITY-STOP", "CONSUMER-VALIDATION-STOP", "TRANSFER-VALIDATION-STOP", "VALIDATION-STOP"}

Init ==
    /\ drift = FALSE /\ drifts = 0
    /\ phase = "block-a" /\ step = "open" /\ rows = 0 /\ got = None /\ raised = "no"
    /\ outer = <<>> /\ inner = <<>> /\ opened = {} /\ frozen = [p \in Blocks \cup {"raw"} |-> None]
    /\ blocks = [p \in Blocks |-> None] /\ verdicts = [p \in Blocks \cup {"raw"} |-> None]
    /\ accepted = {} /\ consumers = [p \in Consumers |-> None] /\ utility = None
    /\ summary = [blocks |-> <<>>, transfer |-> None] /\ final = "RUNNING"

Drift ==
    /\ drifts < MaxDrifts /\ drift' = ~drift /\ drifts' = drifts + 1
    /\ UNCHANGED <<where, got, outer, inner, results, reports>>

-----------------------------------------------------------------------------
(* How a phase ends *)

StudyEnds(s) == phase' = "end" /\ step' = "over" /\ final' = s
Enter(p)     == phase' = p /\ step' = "open" /\ rows' = 0
Stays        == UNCHANGED <<phase, rows, raised, reports>>

(* execute_utility returns its report, and run_followup looks at its status. *)
UtilityEnds(s) ==
    /\ utility' = [utility EXCEPT !.status = s]
    /\ summary' = [summary EXCEPT !.transfer = s]
    /\ IF s = PRODUCT THEN phase' = "end" /\ step' = "reconstruct" /\ UNCHANGED final
                      ELSE StudyEnds("TRANSFER-VALIDATION-STOP")

(* An exception that the phase itself does not catch. *)
Escape ==
    /\ IF phase \in Nested THEN UtilityEnds("VALIDATION-STOP")
       ELSE StudyEnds("VALIDATION-STOP") /\ UNCHANGED <<utility, summary>>
    /\ UNCHANGED <<rows, blocks>>

(* execute_pairs returns; `tail' is the outcome of a run that made no row. *)
BlockEnds(s, tail, evaluated) ==
    /\ blocks' = [blocks EXCEPT ![phase] =
                    [status |-> s, rows |-> rows, tail |-> tail, evaluated |-> evaluated]]
    /\ CASE phase = "product" /\ s # "PASS-MEASUREMENT" -> UtilityEnds("PRODUCT-VALIDATION-STOP")
         [] phase = "product" /\ s = "PASS-MEASUREMENT" ->
                step' = "publish" /\ UNCHANGED <<phase, utility, summary, final>>
         [] OTHER ->
                /\ summary' = [summary EXCEPT !.blocks = Append(@, s)]
                /\ CASE s # "PASS-MEASUREMENT" -> StudyEnds("REPEATABILITY-STOP")
                     [] s = "PASS-MEASUREMENT" /\ phase = "block-a" ->
                            phase' = "block-b" /\ step' = "open" /\ UNCHANGED final
                     [] OTHER -> step' = "publish" /\ UNCHANGED <<phase, final>>
                /\ UNCHANGED utility
    /\ rows' = 0

(* An exception within a phase: execute_pairs catches a ValueError, an     *)
(* OSError, a KeyError and a TypeError; execute_utility every one.         *)
Raise(why, caught, tail) ==
    /\ raised' = why
    /\ IF phase \in Blocks /\ caught THEN BlockEnds("VALIDATION-STOP", tail, FALSE) ELSE Escape
GuardFails == Raise("guard", TRUE, <<>>)

(* Freezing: mkdir, checks of the source plan, then the protocol; for the  *)
(* transfer the database is primed after that.  Consumers have no such step. *)
Open ==
    /\ step = "open" /\ phase \in DOMAIN frozen
    /\ \/ /\ opened' = opened \cup {phase} /\ frozen' = [frozen EXCEPT ![phase] = drift] /\ step' = "check"
          /\ utility' = IF phase = "raw" THEN [status |-> "RUNNING", rows |-> 0, evaluated |-> FALSE] ELSE utility
          /\ UNCHANGED <<phase, rows, raised, blocks, summary, final>>
       \/ /\ opened' = opened \cup {phase} /\ raised' = "fault"
          /\ IF phase = "raw"
             THEN frozen' = [frozen EXCEPT ![phase] = drift] /\ StudyEnds("VALIDATION-STOP")
                  /\ UNCHANGED <<rows, blocks, utility, summary>>
             ELSE Escape /\ UNCHANGED frozen
    /\ UNCHANGED <<world, got, outer, inner, verdicts, accepted, consumers>>

-----------------------------------------------------------------------------
(* One native run, through one or both runners *)

Attempt(s)    == [phase |-> phase, status |-> s, mid |-> "none", started |-> FALSE]
SetLast(s, o) == [s EXCEPT ![Len(s)] = [@ EXCEPT !.status = o.status, !.mid = o.mid, !.started = o.started]]
Marked(s, status) == [s EXCEPT ![Len(s)].status = status]
Failed(started)   == [status |-> "exception", mid |-> "none", started |-> started]
InnerIs(o)    == inner' = IF phase \in Nested THEN SetLast(inner, o) ELSE inner

(* execute_pairs, collect and run_accepted_stock_plan look at the host. *)
Check ==
    /\ step = "check" /\ rows < Runs(phase)
    /\ IF Changed(Reference(phase)) THEN GuardFails
       ELSE step' = (IF phase \in Nested THEN "inner" ELSE "outer") /\ Stays
    /\ UNCHANGED <<world, got, outer, inner, results>>

(* FrozenRunner: guard, then journal. *)
EnterInner ==
    /\ step = "inner"
    /\ IF Changed("raw") THEN GuardFails /\ UNCHANGED inner
       ELSE inner' = Append(inner, Attempt("attempting")) /\ step' = "outer" /\ Stays
    /\ UNCHANGED <<world, got, outer, results>>

(* GuardedRunner: guard, journal, wait, guard again. *)
EnterOuter ==
    /\ step = "outer"
    /\ IF drift THEN GuardFails /\ InnerIs(Failed(FALSE)) /\ UNCHANGED outer
       ELSE outer' = Append(outer, Attempt("waiting")) /\ step' = "wait" /\ Stays /\ UNCHANGED inner
    /\ UNCHANGED <<world, got, results>>
Wait ==
    /\ step = "wait"
    /\ IF drift THEN GuardFails /\ InnerIs(Failed(FALSE)) /\ outer' = Marked(outer, "exception")
       ELSE outer' = Marked(outer, "attempting") /\ step' = "native" /\ Stays /\ UNCHANGED inner
    /\ UNCHANGED <<world, got, results>>

(* run_once of the measuring runner: a verified measurement, a stop with   *)
(* none or with one that did not verify, or an exception.                  *)
Outcomes ==
    {[status |-> "measured", mid |-> "valid", started |-> TRUE],
     [status |-> "validation_stop", mid |-> "invalid", started |-> TRUE]} \cup
    [status : {"environment_blocked", "validation_stop"}, mid : {"none"}, started : BOOLEAN]
Label(o) == IF o.status = "validation_stop" THEN "VALIDATION-STOP" ELSE "ENVIRONMENT-BLOCKED"
Native ==
    /\ step = "native"
    /\ \/ \E o \in Outcomes : outer' = SetLast(outer, o) /\ got' = o
          /\ step' = "returned" /\ Stays /\ UNCHANGED inner
       \/ \E caught, started \in BOOLEAN :
             /\ Raise("fault", caught, <<>>) /\ InnerIs(Failed(started))
             /\ outer' = SetLast(outer, Failed(started)) /\ UNCHANGED got
    /\ UNCHANGED <<world, results>>

(* GuardedRunner's last guard; the measurement stays in its own journal only. *)
Returned ==
    /\ step = "returned"
    /\ IF drift
       THEN GuardFails /\ outer' = Marked(outer, "exception") /\ InnerIs(Failed(got.started))
       ELSE InnerIs(got) /\ step' = "collect" /\ Stays /\ UNCHANGED outer
    /\ UNCHANGED <<world, got, results>>

-----------------------------------------------------------------------------
(* What is made of an outcome *)

(* Faulty: a stopped run of the transfer is made again. *)
StoppedAgain ==
    /\ got.status # "measured" /\ step' = "check"
    /\ UNCHANGED <<phase, rows, raised, blocks, consumers, utility, summary, final>>

Stopped ==
    /\ got.status # "measured"
    /\ CASE phase \in Blocks -> BlockEnds(Label(got), <<got>>, FALSE) /\ UNCHANGED consumers
         [] phase = "raw" -> UtilityEnds(Label(got)) /\ UNCHANGED <<rows, blocks, consumers>>
         [] OTHER ->
              /\ consumers' = [consumers EXCEPT ![phase] = got]
              /\ IF phase = "consumer"
                 THEN StudyEnds("CONSUMER-VALIDATION-STOP") /\ UNCHANGED <<utility, summary>>
                 ELSE UtilityEnds("CONSUMER-VALIDATION-STOP")
              /\ UNCHANGED <<rows, blocks>>
    /\ UNCHANGED raised

(* A row: the measurement verifies and agrees with the reference. *)
RowAdded ==
    /\ got.status = "measured" /\ phase \notin Consumers
    /\ rows' = rows + 1 /\ step' = "check"
    /\ blocks' = IF phase \in Blocks
                 THEN [blocks EXCEPT ![phase] = [status |-> "RUNNING", rows |-> rows + 1, tail |-> <<>>,
                                                 evaluated |-> FALSE]]
                 ELSE blocks
    /\ utility' = IF phase = "raw" THEN [utility EXCEPT !.rows = rows + 1] ELSE utility
    /\ UNCHANGED <<phase, raised, consumers, summary, final>>

(* validate_result looks at the host once more after the nested consumer. *)
Consumed ==
    /\ got.status = "measured" /\ phase \in Consumers /\ ~Changed(Reference(phase))
    /\ consumers' = [consumers EXCEPT ![phase] = got]
    /\ CASE phase = "consumer" -> Enter("raw") /\ UNCHANGED <<raised, reports>>
         [] phase # "consumer" /\ Changed("raw") -> Raise("guard", TRUE, <<>>)
         [] OTHER -> UtilityEnds(PRODUCT) /\ UNCHANGED <<rows, raised, blocks>>

Collect ==
    /\ step = "collect"
    /\ \/ Stopped
       \/ RowAdded
       \/ Consumed
       \/ got.status = "measured" /\ Raise("fault", TRUE, <<got>>) /\ UNCHANGED consumers
       \/ /\ got.status = "measured" /\ phase \in Consumers /\ Changed(Reference(phase))
          /\ GuardFails /\ UNCHANGED consumers
    /\ UNCHANGED <<world, got, outer, inner, opened, frozen, verdicts, accepted>>

(* The statistics of a complete block, between two looks at the sources and the host. *)
EvaluateBlock ==
    /\ step = "check" /\ phase \in Blocks /\ rows = Runs(phase)
    /\ \E v \in {"PASS-MEASUREMENT", "INCONCLUSIVE"} :
         /\ verdicts' = [verdicts EXCEPT ![phase] = v]
         /\ IF Changed(phase)
            THEN \E evaluated \in BOOLEAN : BlockEnds("VALIDATION-STOP", <<>>, evaluated) /\ raised' = "guard"
            ELSE BlockEnds(v, <<>>, TRUE) /\ UNCHANGED raised
    /\ UNCHANGED <<world, got, outer, inner, opened, frozen, accepted, consumers>>

(* The references of the transfer may be unstable before its runs are complete. *)
Unstable ==
    /\ step = "check" /\ phase = "raw" /\ 0 < rows /\ rows < RawRuns
    /\ Raise("fault", TRUE, <<>>)
    /\ UNCHANGED <<world, got, outer, inner, results>>

UtilityVerdicts == {UTILITY, "NO-UTILITY-GAIN", "VARIANCE-STOP", "MANUAL-BASELINE-STOP"}
EvaluateUtility ==
    /\ step = "check" /\ phase = "raw" /\ rows = RawRuns
    /\ \E v \in UtilityVerdicts :
         /\ verdicts' = [verdicts EXCEPT !.raw = v]
         /\ LET evaluated == [utility EXCEPT !.evaluated = TRUE] IN
            CASE Changed("raw") ->
                    /\ utility' = [evaluated EXCEPT !.status = "VALIDATION-STOP"] /\ raised' = "guard"
                    /\ summary' = [summary EXCEPT !.transfer = "VALIDATION-STOP"]
                    /\ StudyEnds("TRANSFER-VALIDATION-STOP") /\ UNCHANGED rows
              [] ~Changed("raw") /\ v # UTILITY ->
                    /\ utility' = [evaluated EXCEPT !.status = v]
                    /\ summary' = [summary EXCEPT !.transfer = v]
                    /\ StudyEnds("TRANSFER-VALIDATION-STOP") /\ UNCHANGED <<rows, raised>>
              [] OTHER ->
                    /\ utility' = [evaluated EXCEPT !.status = v]
                    /\ Enter("product") /\ UNCHANGED <<raised, summary, final>>
    /\ UNCHANGED <<world, got, outer, inner, opened, frozen, accepted, consumers, blocks>>

(* publish_stock_product, called by run_followup and by execute_stock_product. *)
Publish ==
    /\ step = "publish"
    /\ \/ /\ ~Changed(phase) /\ accepted' = accepted \cup {phase}
          /\ step' = "check" /\ rows' = 0
          /\ IF phase = "product"
             THEN phase' = "transfer-consumer" /\ blocks' = [blocks EXCEPT !.product.status = "PASS-STOCK-FALLBACK"]
             ELSE phase' = "consumer" /\ UNCHANGED blocks
          /\ UNCHANGED <<raised, utility, summary, final>>
       \/ \E why \in {"guard", "fault"}, caught \in BOOLEAN :
          /\ (why = "guard" => Changed(phase)) /\ raised' = why
          /\ IF phase = "product" /\ caught
             THEN /\ UtilityEnds("PRODUCT-VALIDATION-STOP") /\ UNCHANGED rows
                  /\ blocks' = [blocks EXCEPT !.product.status = "VALIDATION-STOP"]
             ELSE Escape
          /\ UNCHANGED accepted
    /\ UNCHANGED <<world, got, outer, inner, opened, frozen, verdicts, consumers>>

-----------------------------------------------------------------------------
(* validate_followup: what it checks of a report whose status is s.  The   *)
(* host must be the frozen one when it runs.                               *)

Of(p)  == SelectSeq(outer, LAMBDA a : a.phase = p)
Within == SelectSeq(outer, LAMBDA a : a.phase \in Nested)

AttemptsVerify ==
    \A i \in DOMAIN outer : /\ outer[i].mid # "invalid"
                            /\ outer[i].status = "measured" => outer[i].mid = "valid"

(* A block that wrote no report yet counts as one with no rows. *)
BlockFile(p) ==
    IF blocks[p] # None THEN blocks[p]
    ELSE [status |-> "RUNNING", rows |-> 0, tail |-> <<>>, evaluated |-> FALSE]
Passed(p)      == BlockFile(p).status \in {"PASS-MEASUREMENT", "PASS-STOCK-FALLBACK"}
(* Faulty: a phase may have frozen any host. *)
AnyHost(p) == frozen[p] # None
FrozenHost(p) == frozen[p] = FALSE
Complete(p, b) ==
    /\ b.evaluated
    /\ IF b.status = "PASS-STOCK-FALLBACK" THEN verdicts[p] = "PASS-MEASUREMENT" ELSE b.status = verdicts[p]

(* Faulty: there is no room for an attempt that made no row. *)
RowsMatch(n, entries) ==
    /\ n = Len(entries)
    /\ \A i \in 1..n : entries[i].status = "measured" /\ entries[i].mid = "valid"

(* Every row is a measured attempt, and at most one attempt made no row. *)
PrefixMatches(n, entries) ==
    /\ n <= Len(entries) /\ Len(entries) <= n + 1
    /\ \A i \in 1..n : entries[i].status = "measured" /\ entries[i].mid = "valid"

BlockVerifies(p) ==
    LET b == BlockFile(p)  entries == Of(p) IN
    /\ FrozenHost(p) /\ PrefixMatches(b.rows, entries)
    /\ b.tail # <<>> => /\ Len(entries) = b.rows + 1
                        /\ entries[b.rows + 1].status = b.tail[1].status
                        /\ entries[b.rows + 1].mid = b.tail[1].mid
    /\ Len(entries) > b.rows /\ entries[Len(entries)].status = "measured"
            => b.status \in {"VALIDATION-STOP", "RUNNING"}
    /\ IF b.rows = BlockRuns THEN Complete(p, b)
       ELSE b.status \in {"RUNNING", "VALIDATION-STOP", "ENVIRONMENT-BLOCKED"}

(* verify_consumer returns whether the consumer passed, or raises. *)
ConsumerPassed(p) == consumers[p] # None /\ consumers[p].status = "measured"
ConsumerVerifies(p, entry) ==
    /\ consumers[p] # None => entry.status = consumers[p].status /\ entry.mid = consumers[p].mid
    /\ (entry.status = "measured") = ConsumerPassed(p)

ProductVerifies ==
    LET entries == Of("transfer-consumer") IN
    IF "product" \notin opened THEN entries = <<>>
    ELSE /\ utility.rows = RawRuns /\ verdicts.raw = UTILITY
         /\ frozen.product # None /\ BlockVerifies("product")
         /\ IF Passed("product")
            THEN /\ "product" \in accepted
                 /\ IF entries = <<>> THEN utility.status # PRODUCT
                    ELSE \/ /\ Len(entries) = 1 /\ ConsumerVerifies("transfer-consumer", entries[1])
                            /\ ConsumerPassed("transfer-consumer")
                         \/ utility.status \in {"CONSUMER-VALIDATION-STOP", "VALIDATION-STOP"}
            ELSE "product" \notin accepted /\ entries = <<>>

(* validate_result, for the transfer of a study *)
ResultVerifies ==
    /\ utility.evaluated
    /\ IF verdicts.raw # UTILITY THEN utility.status = verdicts.raw
       ELSE utility.status \in {UTILITY, PRODUCT, "PRODUCT-VALIDATION-STOP", "CONSUMER-VALIDATION-STOP"}
    /\ utility.status = PRODUCT =>
        /\ "product" \in accepted /\ ConsumerPassed("transfer-consumer")
        /\ Len(inner) = RawRuns + BlockRuns + 1

TransferVerifies(s) ==
    /\ utility # None /\ FrozenHost("raw")
    /\ Len(Within) = Len(inner)
    /\ \A i \in DOMAIN inner : /\ Within[i].status = inner[i].status /\ Within[i].mid = inner[i].mid
                              /\ Within[i].started = inner[i].started
    /\ PrefixMatches(utility.rows, Of("raw"))
    /\ IF utility.rows = RawRuns THEN ResultVerifies
       ELSE utility.status \in {"VALIDATION-STOP", "ENVIRONMENT-BLOCKED"}
    /\ ProductVerifies
    /\ IF summary.transfer = None THEN s = "VALIDATION-STOP" ELSE summary.transfer = utility.status

(* A main block: its summary, its files, and what its failure allows. *)
MainVerifies(p, i, s) ==
    /\ IF Len(summary.blocks) >= i THEN blocks[p] # None /\ summary.blocks[i] = blocks[p].status
       ELSE s = "VALIDATION-STOP"
    /\ BlockVerifies(p)
    /\ ~Passed(p) => s \in {"REPEATABILITY-STOP", "VALIDATION-STOP"}
BlocksVerify(s) ==
    /\ IF frozen["block-a"] = None THEN "block-a" \notin opened /\ summary.blocks = <<>>
       ELSE MainVerifies("block-a", 1, s)
    /\ IF Passed("block-a")
       THEN IF frozen["block-b"] = None THEN "block-b" \notin opened /\ Len(summary.blocks) <= 1
            ELSE MainVerifies("block-b", 2, s)
       ELSE "block-b" \notin opened

ConsumerTransferVerify(s) ==
    LET entries == Of("consumer") IN
    /\ Len(entries) <= 1 /\ (consumers["consumer"] # None => entries # <<>>)
    /\ entries # <<>> => ConsumerVerifies("consumer", entries[1])
    /\ IF ConsumerPassed("consumer")
       THEN IF frozen.raw # None THEN TransferVerifies(s) ELSE s = "VALIDATION-STOP"
       ELSE "raw" \notin opened /\ summary.transfer = None

BothPassed == Passed("block-a") /\ Passed("block-b")
Expected ==
    CASE ~BothPassed -> "REPEATABILITY-STOP"
      [] BothPassed /\ ~ConsumerPassed("consumer") -> "CONSUMER-VALIDATION-STOP"
      [] OTHER -> IF utility # None /\ utility.status = PRODUCT THEN PASS ELSE "TRANSFER-VALIDATION-STOP"

Accepts(s) ==
    /\ ~drift /\ AttemptsVerify /\ BlocksVerify(s)
    /\ IF BothPassed /\ "block-b" \in accepted THEN ConsumerTransferVerify(s)
       ELSE /\ "block-b" \notin accepted /\ "raw" \notin opened /\ Of("consumer") = <<>>
            /\ consumers["consumer"] = None /\ summary.transfer = None
    /\ s \in {Expected, "VALIDATION-STOP"}
    /\ s = "REPEATABILITY-STOP" => \E p \in {"block-a", "block-b"} : frozen[p] # None /\ ~Passed(p)
    /\ s = "CONSUMER-VALIDATION-STOP" => consumers["consumer"] # None
    /\ s = PASS => Len(outer) = Budget /\ \A i \in DOMAIN outer : outer[i].started

(* A pass is claimed only after the reconstruction. *)
Reconstruct ==
    /\ step = "reconstruct"
    /\ StudyEnds(IF Accepts(PASS) THEN PASS ELSE "VALIDATION-STOP")
    /\ UNCHANGED <<world, rows, raised, got, outer, inner, results, blocks, utility, summary>>

Study ==
    \/ Open \/ Check \/ EnterInner \/ EnterOuter \/ Wait \/ Native \/ Returned \/ Collect
    \/ EvaluateBlock \/ Unstable \/ EvaluateUtility \/ Publish \/ Reconstruct

Next == Drift \/ Study
Spec == Init /\ [][Next]_studyVars /\ WF_studyVars(Study)

-----------------------------------------------------------------------------
Entries  == [phase : Phases, status : {"waiting", "attempting", "measured", "environment_blocked",
                                       "validation_stop", "exception"},
             mid : {"none", "valid", "invalid"}, started : BOOLEAN]
TypeOK ==
    /\ drift \in BOOLEAN /\ drifts \in 0..MaxDrifts
    /\ phase \in Phases \cup {"end"} /\ rows \in 0..(BlockRuns + RawRuns)
    /\ raised \in {"no", "guard", "fault"}
    /\ Len(outer) <= Budget /\ \A i \in DOMAIN outer : outer[i] \in Entries
    /\ Len(inner) <= RawRuns + BlockRuns + 1 /\ \A i \in DOMAIN inner : inner[i] \in Entries
    /\ opened \subseteq DOMAIN frozen /\ accepted \subseteq Blocks
    /\ \A p \in DOMAIN frozen : frozen[p] \in BOOLEAN \cup {None}
    /\ final \in Stops \cup {PASS, "RUNNING"}

(* No attempt follows one that was not measured, or an exception: there    *)
(* are no retries, whichever of the two runners or callers saw the failure *)
(* (run_followup, execute_utility, execute_pairs).                         *)
Retries == Len(outer') > Len(outer) /\ (raised # "no" \/ \E i \in DOMAIN outer : outer[i].status # "measured")
NoRetry == [][~Retries]_studyVars

(* A phase makes attempts only when every gate before it was passed, by    *)
(* as many measured runs as it takes (run_followup, execute_utility).      *)
MeasuredRuns(p) == Cardinality({i \in DOMAIN outer :
                                  outer[i].phase = p /\ outer[i].status = "measured" /\ outer[i].mid = "valid"})
Gate(p) ==
    CASE p = "block-a" -> TRUE
      [] p \in {"block-b", "consumer", "transfer-consumer"} ->
            LET b == CASE p = "block-b" -> "block-a" [] p = "consumer" -> "block-b" [] OTHER -> "product" IN
            /\ verdicts[b] = "PASS-MEASUREMENT" /\ MeasuredRuns(b) = BlockRuns
            /\ p # "block-b" => b \in accepted
      [] p = "raw" -> "block-b" \in accepted /\ MeasuredRuns("consumer") = 1
      [] p = "product" -> verdicts.raw = UTILITY /\ MeasuredRuns("raw") = RawRuns
GatesHold == \A i \in DOMAIN outer : Gate(outer[i].phase)

(* A study passes only with its whole budget of measured runs, both        *)
(* publications, and every phase frozen on the study's own host, however   *)
(* the host changed back and forth meanwhile (validate_followup).          *)
PassIsComplete ==
    final = PASS =>
        /\ Len(outer) = Budget /\ \A i \in DOMAIN outer : outer[i].status = "measured" /\ outer[i].mid = "valid"
        /\ accepted = {"block-b", "product"}
        /\ \A p \in DOMAIN frozen : frozen[p] = FALSE

(* The status of a study that no exception and no change of the host       *)
(* disturbed is reconstructed from its files (validate_followup).          *)
QuietStopsAreAudited ==
    phase = "end" /\ final # "RUNNING" /\ raised = "no" /\ drifts = 0 /\ AttemptsVerify => Accepts(final)

(* Nobody can relabel an ended study: of the statuses other than           *)
(* VALIDATION-STOP the audit accepts the study's own, or that of a         *)
(* complete study whose reconstruction came while the host was changed.    *)
LabelsAreBinding ==
    \A s \in (Stops \cup {PASS}) \ {"VALIDATION-STOP", final} :
        phase = "end" /\ Accepts(s) => s = PASS /\ MeasuredRuns("transfer-consumer") = 1

(* A study that is over. *)
Done == phase = "end" /\ step = "over"

(***************************************************************************)
(* docs/research/protocols/specs/2026-10-04-stock-repeatability.md:        *)
(* "Reconstruction covers negative/partial prefixes"; a host change is one *)
(* of the stops it lists.  A study that a guard ended, with its phases     *)
(* frozen on its own host and every native record sound, is accepted once  *)
(* the host is back.                                                       *)
(***************************************************************************)
GuardStopsAreAudited ==
    /\ phase = "end" /\ step = "over" /\ raised = "guard" /\ ~drift /\ AttemptsVerify
    /\ \A p \in DOMAIN frozen : frozen[p] # TRUE
    => Accepts(final)
=============================================================================
