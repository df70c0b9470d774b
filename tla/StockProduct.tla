----------------------------- MODULE StockProduct -----------------------------
(***************************************************************************)
(* A stock product: a sealed plan is measured again in ten balanced pairs  *)
(* of direct and sealed arms, the report is evaluated, reconstructed from  *)
(* the evidence and published as one directory "accepted", and a consumer  *)
(* later loads and runs it.  Meanwhile the host may change, files may be   *)
(* edited, runs may fail and the process may die.                          *)
(*                                                                         *)
(* A run is level with the direct arm or 5 percent slower; for these rates *)
(* evaluate_pairs depends on the number of slow sealed runs only, as       *)
(* Verdict says.                                                           *)
(***************************************************************************)
EXTENDS Integers, Sequences, FiniteSets

CONSTANTS
    None,       \* no value
    Hosts,      \* the environments the host goes through, one after the other
    MaxEdits    \* bound: how many files are edited

PAIRS == 10
Runs  == 2 * PAIRS

(* Bound: slow runs are counted as far as Verdict tells them apart. *)
SlowCap == 2

(* Pairs of balanced_schedule that begin with the sealed arm. *)
SealedFirst == {0, 1, 3, 7, 8}
Sealed(run) == (run % 2 = 0) = (run \div 2 \in SealedFirst)

(* What anyone may edit: the compiler's sources and protocol, the source plan *)
(* file, the source database, retained artifacts and weights, and what the    *)
(* experiments published.                                                      *)
Files == {"sources", "plan", "database", "artifacts", "accepted", "recommended"}

(* What a protocol freezes, and what is published. *)
Freezes == [host : {Hosts[i] : i \in 1..Len(Hosts)}, edited : SUBSET Files]
Publications ==
    [freeze : Freezes, rows : 0..Runs, slow : 0..SlowCap,
     ranOn : SUBSET {Hosts[i] : i \in 1..Len(Hosts)}, files : {{"plan", "receipt"}}]

ASSUME StockProductAssumption ==
    /\ Len(Hosts) \in Nat \ {0} /\ MaxEdits \in Nat
    /\ None \notin Publications

VARIABLES
    (* environment *)
    host,       \* position in Hosts: what capture_host_environment would return
    edited,     \* files edited so far
    (* execute_stock_product *)
    pc,         \* where the experiment is
    frozen,     \* host and edited files when the protocol was frozen
    rows,       \* complete rows
    slow,       \* slow sealed runs among them, up to SlowCap
    ranOn,      \* hosts its runs were launched on
    status,     \* report["status"]
    live,       \* report["live_validated_product"]
    (* its output directory *)
    report,     \* report.json: None or its content
    pending,    \* files in .pending-acceptance-*, or None
    accepted    \* accepted/: None or its content

envVars     == <<host, edited>>
tally       == <<rows, slow, ranOn>>
verdict     == <<status, live>>
outputFiles == <<report, pending, accepted>>
productVars == <<pc, frozen, tally, verdict, outputFiles>>

Host == Hosts[host]
Intact == "artifacts" \notin edited
Snapshot == [host |-> Host, edited |-> edited]

(* The file is what it was at the freeze. *)
Same(file, freeze) == file \in edited <=> file \in freeze.edited

ProductInit ==
    /\ pc = "capture" /\ frozen = None
    /\ rows = 0 /\ slow = 0 /\ ranOn = {}
    /\ status = "RUNNING" /\ live = FALSE
    /\ report = None /\ pending = None /\ accepted = None

EnvInit == host = 1 /\ edited = {}

-----------------------------------------------------------------------------
(* execute_pairs *)

(* The function returns or the process dies: its variables are gone. *)
Over(at) ==
    /\ pc' = at /\ frozen' = None
    /\ rows' = 0 /\ slow' = 0 /\ ranOn' = {}
    /\ status' = "RUNNING" /\ live' = FALSE

(* ValueError, OSError, KeyError or TypeError in the try block. *)
Stop == status' = "VALIDATION-STOP" /\ pc' = "report" /\ UNCHANGED live

Capture ==
    /\ pc = "capture"
    /\ frozen' = Snapshot /\ pc' = "freeze"
    /\ UNCHANGED <<envVars, tally, verdict, outputFiles>>

(* The source plan is verified against its evidence, its rows are imported and *)
(* files are hashed; an error here is raised before the try.                   *)
Freeze ==
    /\ pc = "freeze"
    /\ \/ /\ Intact
          /\ frozen' = [frozen EXCEPT !.edited = edited] /\ pc' = "check"
          /\ UNCHANGED <<tally, verdict>>
       \/ Over("dead")
    /\ UNCHANGED <<envVars, outputFiles>>

RowChecks == Host = frozen.host /\ Same("plan", frozen) /\ Same("sources", frozen)

(* Faulty: waits until the host is the frozen one again. *)
CheckRowWaits ==
    /\ pc = "check" /\ rows < Runs /\ RowChecks
    /\ pc' = "launch"
    /\ UNCHANGED <<envVars, frozen, verdict, tally, outputFiles>>

CheckRow ==
    /\ pc = "check" /\ rows < Runs
    /\ IF RowChecks THEN pc' = "launch" /\ UNCHANGED verdict ELSE Stop
    /\ UNCHANGED <<envVars, frozen, tally, outputFiles>>

(* Faulty: run_once does not capture the host. *)
LaunchUnbound ==
    /\ pc = "launch"
    /\ \/ Stop /\ UNCHANGED tally
       \/ /\ ranOn' = ranOn \cup {Host}
          /\ pc' = "collect" /\ UNCHANGED <<rows, slow, verdict>>
    /\ UNCHANGED <<envVars, frozen, outputFiles>>

(* run_once captures the host again, then launches; it may return without a *)
(* measurement, which ends the experiment with that outcome's status.       *)
Launch ==
    /\ pc = "launch"
    /\ \/ Host # frozen.host /\ Stop /\ UNCHANGED tally
       \/ /\ Host = frozen.host
          /\ ranOn' = ranOn \cup {Host}
          /\ \/ pc' = "collect" /\ UNCHANGED verdict
             \/ status' = "NO-MEASUREMENT" /\ pc' = "report" /\ UNCHANGED live
          /\ UNCHANGED <<rows, slow>>
    /\ UNCHANGED <<envVars, frozen, outputFiles>>

(* The measurement is verified and bound to its arm, its tokens are compared *)
(* with the source's; then the row is reported.                              *)
Collect ==
    /\ pc = "collect"
    /\ \/ Stop /\ UNCHANGED <<tally, report>>
       \/ /\ rows' = rows + 1
          /\ slow' \in {slow, IF Sealed(rows) /\ slow < SlowCap THEN slow + 1 ELSE slow}
          /\ report' = [status |-> "RUNNING", rows |-> rows', live |-> FALSE]
          /\ pc' = "check" /\ UNCHANGED <<ranOn, verdict>>
    /\ UNCHANGED <<envVars, frozen, pending, accepted>>

(* evaluate_pairs; INCONCLUSIVE and VALIDATION-STOP are not told apart. *)
Verdict(n) == IF n <= 1 THEN "PASS-MEASUREMENT" ELSE "NOT-PASSED"

Evaluate ==
    /\ pc = "check" /\ rows = Runs
    /\ IF Same("sources", frozen)
       THEN status' = Verdict(slow) /\ pc' = "validate" /\ UNCHANGED live
       ELSE Stop
    /\ UNCHANGED <<envVars, frozen, tally, outputFiles>>

Validate ==
    /\ pc = "validate"
    /\ IF Host = frozen.host /\ Same("database", frozen)
       THEN pc' = "report" /\ UNCHANGED verdict
       ELSE Stop
    /\ UNCHANGED <<envVars, frozen, tally, outputFiles>>

Report == [status |-> status, rows |-> rows, live |-> live]

WriteReport ==
    /\ pc = "report"
    /\ report' = Report
    /\ pc' = IF status = "PASS-MEASUREMENT" THEN "reconstruct" ELSE "final"
    /\ UNCHANGED <<envVars, frozen, tally, verdict, pending, accepted>>

-----------------------------------------------------------------------------
(* publish_stock_product and the rest of execute_stock_product *)

(* reconstruct_product, on an experiment frozen at f, for a host h. *)
Reconstructs(f, h, n, k) ==
    /\ Same("sources", f) /\ h = f.host
    /\ Intact
    /\ n = Runs /\ Verdict(k) = "PASS-MEASUREMENT"

Fail == status' = "VALIDATION-STOP" /\ live' = FALSE /\ pc' = "final"

(* Faulty: the publication trusts the host of the report. *)
ReconstructAnyHost ==
    /\ pc = "reconstruct"
    /\ IF Reconstructs(frozen, frozen.host, rows, slow)
       THEN pc' = "pend" /\ frozen' = [frozen EXCEPT !.host = Host] /\ UNCHANGED verdict
       ELSE Fail /\ UNCHANGED frozen
    /\ UNCHANGED <<envVars, tally, outputFiles>>

Reconstruct ==
    /\ pc = "reconstruct"
    /\ IF Reconstructs(frozen, Host, rows, slow) THEN pc' = "pend" /\ UNCHANGED verdict ELSE Fail
    /\ UNCHANGED <<envVars, frozen, tally, outputFiles>>

(* The candidate is sealed on its twenty rows; a pending directory is made. *)
Pend ==
    /\ pc = "pend"
    /\ \/ accepted = None /\ pending' = {} /\ pc' = "fill" /\ UNCHANGED verdict
       \/ Fail /\ UNCHANGED pending
    /\ UNCHANGED <<envVars, frozen, tally, report, accepted>>

(* Faulty: no finally clause. *)
FillLeavesPending ==
    /\ pc = "fill" /\ pending # {"plan", "receipt"}
    /\ \/ pending' = (IF pending = {} THEN {"plan"} ELSE {"plan", "receipt"}) /\ UNCHANGED <<pc, verdict>>
       \/ Fail /\ UNCHANGED pending
    /\ UNCHANGED <<envVars, frozen, tally, report, accepted>>

(* First the plan, then the receipt; the finally clause removes what is pending. *)
Fill ==
    /\ pc = "fill" /\ pending # {"plan", "receipt"}
    /\ \/ pending' = (IF pending = {} THEN {"plan"} ELSE {"plan", "receipt"}) /\ UNCHANGED <<pc, verdict>>
       \/ Fail /\ pending' = None
    /\ UNCHANGED <<envVars, frozen, tally, report, accepted>>

Published == [freeze |-> frozen, rows |-> rows, slow |-> slow, ranOn |-> ranOn, files |-> pending]

(* Faulty: an error of the rename is not noticed. *)
RenameUnnoticed ==
    /\ pc = "fill" /\ pending = {"plan", "receipt"}
    /\ pending' = None /\ pc' = "claim"
    /\ accepted' \in {Published, accepted}
    /\ UNCHANGED <<envVars, frozen, tally, verdict, report>>

Rename ==
    /\ pc = "fill" /\ pending = {"plan", "receipt"}
    /\ pending' = None
    /\ \/ accepted' = Published /\ pc' = "claim" /\ UNCHANGED verdict
       \/ Fail /\ UNCHANGED accepted
    /\ UNCHANGED <<envVars, frozen, tally, report>>

Claim ==
    /\ pc = "claim"
    /\ status' = "PASS-STOCK-FALLBACK" /\ live' = TRUE /\ pc' = "final"
    /\ UNCHANGED <<envVars, frozen, tally, outputFiles>>

Final ==
    /\ pc = "final"
    /\ report' = Report /\ Over("done")
    /\ UNCHANGED <<envVars, pending, accepted>>

(* Killed, or interrupted: then the finally clause still runs. *)
Die ==
    /\ pc \notin {"done", "dead"}
    /\ Over("dead") /\ pending' \in {pending, None}
    /\ UNCHANGED <<envVars, report, accepted>>

ProductStep ==
    \/ Capture \/ Freeze \/ CheckRow \/ Launch \/ Collect \/ Evaluate \/ Validate \/ WriteReport
    \/ Reconstruct \/ Pend \/ Fill \/ Rename \/ Claim \/ Final

-----------------------------------------------------------------------------
(* The environment *)

HostChanges ==
    /\ host < Len(Hosts) /\ host' = host + 1
    /\ UNCHANGED <<edited, productVars>>

Edit ==
    /\ Cardinality(edited) < MaxEdits
    /\ \E f \in Files \ edited : edited' = edited \cup {f}
    /\ UNCHANGED <<host, productVars>>

(* load_validated_stock_plan, for a consumer on host h. *)
Loads(h) ==
    /\ accepted # None /\ accepted.files = {"plan", "receipt"} /\ "accepted" \notin edited
    /\ Reconstructs(accepted.freeze, h, accepted.rows, accepted.slow)

-----------------------------------------------------------------------------
(* Correctness properties *)

ProductTypeOK ==
    /\ host \in 1..Len(Hosts) /\ edited \subseteq Files
    /\ pc \in {"capture", "freeze", "check", "launch", "collect", "validate", "report",
               "reconstruct", "pend", "fill", "claim", "final", "done", "dead"}
    /\ rows \in 0..Runs /\ slow \in 0..SlowCap /\ live \in BOOLEAN
    /\ pending \in {None, {}, {"plan"}, {"plan", "receipt"}}
    /\ pending # None => pc \in {"fill", "dead"}

(***************************************************************************)
(* An accepted product rests on twenty runs, every one launched on the     *)
(* host that the protocol froze.                                           *)
(***************************************************************************)
AcceptedIsEarned ==
    accepted # None => accepted.rows = Runs /\ accepted.ranOn = {accepted.freeze.host}

(***************************************************************************)
(* What is published can be loaded: on the frozen host, with the frozen    *)
(* sources and untouched files, a consumer's reconstruction succeeds; and  *)
(* report.json claims a validated product only if one was published.       *)
(***************************************************************************)
PublicationIsTrue ==
    /\ /\ accepted # None /\ edited \cap {"artifacts", "accepted"} = {}
       /\ Same("sources", accepted.freeze) /\ Host \in accepted.ranOn
       => Loads(Host)
    /\ report # None /\ report.live => accepted # None
=============================================================================
