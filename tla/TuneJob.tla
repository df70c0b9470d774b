------------------------------- MODULE TuneJob -------------------------------
(***************************************************************************)
(* One "local tune" job: a search over thread counts, five held-out pairs  *)
(* in alternating order, a decision, and the files it leaves.  Every       *)
(* measurement is paced and stays inside a wall budget; the host may       *)
(* change, the user may interrupt and the process may die at any point;    *)
(* verify_job later reads whatever is on disk.                             *)
(*                                                                         *)
(* A decode rate is relative to a baseline of 100.  Each pair's gain is    *)
(* 0 or 20 percent; for these gains the code's bootstrap and noise limit   *)
(* depend on the number of gains only, as Decide says.                     *)
(***************************************************************************)
EXTENDS Integers, Sequences, FiniteSets

CONSTANTS
    None, Partial,  \* no value; a file that is being written
    Candidates,     \* eligible_threads of a reviewed model
    SearchRates,    \* rates a candidate may show in the search
    PairRates,      \* rates a candidate may show in a pair: 100 or 120
    Tokens,         \* token sequences a measurement may return
    Hosts,          \* the environments the host goes through, one after the other
    Budget,         \* budget_seconds
    Spacing,        \* interprocess_spacing_seconds
    Preparations,   \* how long an attempt may take before it creates its process
    Durations,      \* how long a measurement may take
    Oversleep       \* how much longer than asked a sleep may last

(* What a measurement returns, and what a report says. *)
Measurements == [threads : Nat \cup {None}, rate : Nat, tokens : Tokens,
                 host : {Hosts[i] : i \in 1..Len(Hosts)}]
Pairs        == [baseline : Measurements, candidate : Measurements]
Statuses     == {"INCONCLUSIVE", "UNSUPPORTED", "NO-MEASURABLE-GAIN", "VERIFIED-IMPROVEMENT"}
Reports      == [status : Statuses, retained : BOOLEAN, chosen : Nat \cup {None},
                 search : Seq(Measurements), pairs : Seq(Pairs), launches : Nat]

TuneJobAssumption ==
    /\ Candidates \in Seq(Nat \ {0})
    /\ \A i, j \in 1..Len(Candidates) : Candidates[i] = Candidates[j] => i = j
    /\ SearchRates \subseteq Nat /\ PairRates \subseteq {100, 120}
    /\ "same" \in Tokens /\ Len(Hosts) \in Nat \ {0}
    /\ Budget \in Nat \ {0} /\ Spacing \in Nat
    /\ Preparations \subseteq Nat /\ Durations \subseteq Nat /\ Oversleep \subseteq Nat
    /\ None # Partial /\ {None, Partial} \cap (Nat \cup Reports) = {}

VARIABLES
    (* environment *)
    clock,      \* time.monotonic() since the start of the job
    host,       \* position in Hosts: what capture_performance_host would return now
    (* the job *)
    pc,         \* where tune_profile is
    lastEnd,    \* last_end
    attempts,   \* result["model_processes"] before the finally block
    search,     \* result["search"]
    pairs,      \* result["pairs"]
    half,       \* the first measurement of the current pair
    winner,     \* threads of the fastest candidate
    status,     \* result["status"]
    retained,   \* result["baseline_retained"]
    chosen,     \* result["selected_settings"]
    began,      \* host captured at the start of the running measurement
    got,        \* the measurement just returned
    (* files in the job directory *)
    journal,    \* journal.json: None, Partial or the attempts it records
    launches,   \* number of launch.json files
    receipts,   \* complete measurements, by directory name
    report,     \* report.json: None, Partial or its content
    selected    \* selected-profile.json: None, Partial or its content

progress == <<lastEnd, attempts, search, pairs, half, winner>>
outcome  == <<status, retained, chosen>>
running  == <<began, got>>
jobFiles == <<journal, launches, receipts>>
resultFiles == <<report, selected>>
vars == <<clock, host, pc, progress, outcome, running, jobFiles, resultFiles>>

Default == 0        \* the baseline's threads: the runtime's own default
Baseline == 100     \* the baseline's rate

MaxProcesses == 1 + Len(Candidates) + 10

(* The directory and the threads of the next measurement. *)
Confirming == Len(search) = 1 + Len(Candidates)
Role(n) == IF (Len(pairs) + n) % 2 = 0 THEN "baseline" ELSE "candidate"
NextRole == IF Confirming THEN Role(Len(half)) ELSE "search"
ThreadsOf(role) ==
    CASE role = "search"    -> IF search = <<>> THEN Default ELSE Candidates[Len(search)]
      [] role = "baseline"  -> Default
      [] role = "candidate" -> winner
Directory == [role |-> NextRole, index |-> IF Confirming THEN Len(pairs) ELSE ThreadsOf("search")]

Init ==
    /\ clock = 0 /\ host = 1
    /\ pc = "register" /\ lastEnd = None /\ attempts = 0
    /\ search = <<>> /\ pairs = <<>> /\ half = <<>> /\ winner = None
    /\ status = "INCONCLUSIVE" /\ retained = TRUE /\ chosen = None
    /\ began = None /\ got = None
    /\ journal = None /\ launches = 0 /\ receipts = {}
    /\ report = None /\ selected = None

-----------------------------------------------------------------------------
(* The try block *)

Conclude(st) == pc' = "report" /\ status' = st

(* An exception of the try block: the except clause. *)
Raise == Conclude("INCONCLUSIVE") /\ UNCHANGED <<retained, chosen>>

(* The registration; explicit threads or an unreviewed model cannot be tuned. *)
Register ==
    /\ pc = "register"
    /\ \/ Conclude("UNSUPPORTED")
       \/ pc' = "pace" /\ UNCHANGED status
    /\ UNCHANGED <<clock, host, progress, retained, chosen, running, jobFiles, resultFiles>>

Wait == IF lastEnd = None \/ clock - lastEnd >= Spacing THEN 0 ELSE Spacing - (clock - lastEnd)

(* Faulty: a pause the budget cannot fund is waited for. *)
PaceHangs ==
    /\ pc = "pace"
    /\ lastEnd # None => clock + Wait < Budget
    /\ pc' = "start"
    /\ clock' \in {clock + Wait + o : o \in IF lastEnd = None THEN {0} ELSE Oversleep}
    /\ UNCHANGED <<host, progress, outcome, running, jobFiles, resultFiles>>

(* measure: pause so that processes are Spacing apart, if the budget allows. *)
Pace ==
    /\ pc = "pace"
    /\ IF lastEnd # None /\ clock + Wait >= Budget
       THEN Raise /\ UNCHANGED clock
       ELSE /\ pc' = "start" /\ UNCHANGED outcome
            /\ clock' \in {clock + Wait + o : o \in IF lastEnd = None THEN {0} ELSE Oversleep}
    /\ UNCHANGED <<host, progress, running, jobFiles, resultFiles>>

(* The deadline once more, then the attempt is counted and its journal begun. *)
Start ==
    /\ pc = "start"
    /\ IF clock >= Budget
       THEN Raise /\ UNCHANGED <<attempts, journal>>
       ELSE /\ pc' = "journal" /\ attempts' = attempts + 1 /\ journal' = Partial
            /\ UNCHANGED outcome
    /\ UNCHANGED <<clock, host, lastEnd, search, pairs, half, winner, running,
                   launches, receipts, resultFiles>>

(* Faulty: the attempt is counted when the measurement has returned. *)
EndJournalLate ==
    /\ pc = "journal"
    /\ journal' = attempts - 1 /\ pc' = "launch"
    /\ UNCHANGED <<outcome, clock, host, progress, running, launches, receipts, resultFiles>>

(* write_json truncates journal.json and writes it anew. *)
EndJournal ==
    /\ pc = "journal"
    /\ journal' = attempts /\ pc' = "launch"
    /\ UNCHANGED <<outcome, clock, host, progress, running, launches, receipts, resultFiles>>

(* Faulty: the deadline is not checked after the preparations. *)
LaunchLate ==
    /\ pc = "launch"
    /\ \E d \in Preparations : clock' = clock + d
    /\ \/ Raise /\ lastEnd' = clock' /\ UNCHANGED <<began, launches>>
       \/ /\ began' = Hosts[host] /\ launches' = launches + 1
          /\ pc' = "measure" /\ UNCHANGED <<outcome, lastEnd>>
    /\ UNCHANGED <<host, attempts, search, pairs, half, winner, got, journal, receipts, resultFiles>>

(* The deadline is looked at after the host's capture, before and after the *)
(* profile's verification, and last where the process is created.           *)
InTime == clock' < Budget

(***************************************************************************)
(* measure_profile up to launch.json: capture the host, verify the profile *)
(* (both take their time) and launch an owned server, if there is still    *)
(* time to.  Any of these may fail before launch.json is written.          *)
(***************************************************************************)
Launch ==
    /\ pc = "launch"
    /\ \E d \in Preparations : clock' = clock + d
    /\ \/ Raise /\ lastEnd' = clock' /\ UNCHANGED <<began, launches>>
       \/ /\ InTime
          /\ began' = Hosts[host] /\ launches' = launches + 1
          /\ pc' = "measure" /\ UNCHANGED <<outcome, lastEnd>>
    /\ UNCHANGED <<host, attempts, search, pairs, half, winner, got, journal, receipts, resultFiles>>

Rates == IF NextRole = "search" THEN (IF search = <<>> THEN {Baseline} ELSE SearchRates)
         ELSE IF NextRole = "baseline" THEN {Baseline} ELSE PairRates

(* Bound: at most one measurement of a job returns other tokens. *)
Diverged == \E c \in receipts : c.m.tokens # "same"

Measured == {[threads |-> ThreadsOf(NextRole), rate |-> r, tokens |-> t, host |-> began] :
                r \in Rates, t \in IF search = <<>> \/ Diverged THEN {"same"} ELSE Tokens}

(* capture_performance_host again: identity, free memory, idleness and controls. *)
SameHost == Hosts[host] = began

(* The requests, teardown and second capture of the host.  Requests end by the *)
(* deadline; any failure leaves a receipt that is not complete.                *)
Measure ==
    /\ pc = "measure"
    /\ \E d \in Durations : clock' = clock + d
    /\ lastEnd' = clock'
    /\ \/ Raise /\ UNCHANGED <<got, receipts>>
       \/ \E m \in Measured :
            /\ clock' < Budget /\ SameHost
            /\ got' = m /\ receipts' = receipts \cup {[dir |-> Directory, m |-> m]}
            /\ pc' = "collect" /\ UNCHANGED outcome
    /\ UNCHANGED <<host, attempts, search, pairs, half, winner, began, journal, launches, resultFiles>>

Best == IF winner = None THEN Baseline
        ELSE CHOOSE r \in SearchRates : \E i \in 2..Len(search) :
                search[i].threads = winner /\ search[i].rate = r

(* Faulty: the tokens of a search measurement are not compared. *)
CollectSearchUnchecked ==
    /\ pc = "collect" /\ ~Confirming
    /\ search' = Append(search, got)
    /\ winner' = IF search # <<>> /\ got.rate > Best THEN got.threads ELSE winner
    /\ pc' = IF Len(search') = 1 + Len(Candidates) THEN "gate" ELSE "pace"
    /\ got' = None /\ began' = None
    /\ UNCHANGED <<outcome, clock, host, lastEnd, attempts, pairs, half, jobFiles, resultFiles>>

(* Faulty: a measurement as fast as the baseline wins over it. *)
CollectSearchTies ==
    /\ pc = "collect" /\ ~Confirming
    /\ search' = Append(search, got)
    /\ winner' = IF got.rate >= Best THEN got.threads ELSE winner
    /\ pc' = IF Len(search') = 1 + Len(Candidates) THEN "gate" ELSE "pace"
    /\ got' = None /\ began' = None
    /\ UNCHANGED <<outcome, clock, host, lastEnd, attempts, pairs, half, jobFiles, resultFiles>>

(* A search measurement: same host, same tokens; the fastest is remembered. *)
CollectSearch ==
    /\ pc = "collect" /\ ~Confirming
    /\ IF search # <<>> /\ (got.host # search[1].host \/ got.tokens # search[1].tokens)
       THEN Raise /\ UNCHANGED <<search, winner>>
       ELSE /\ search' = Append(search, got)
            /\ winner' = IF search # <<>> /\ got.rate > Best THEN got.threads ELSE winner
            /\ pc' = IF Len(search') = 1 + Len(Candidates) THEN "gate" ELSE "pace"
            /\ UNCHANGED outcome
    /\ got' = None /\ began' = None
    /\ UNCHANGED <<clock, host, lastEnd, attempts, pairs, half, jobFiles, resultFiles>>

(* At least 5% apparent gain, or no confirmation is launched. *)
Gate ==
    /\ pc = "gate"
    /\ IF winner = None \/ Best * 100 < Baseline * 105
       THEN Conclude("NO-MEASURABLE-GAIN")
       ELSE pc' = "pace" /\ UNCHANGED status
    /\ UNCHANGED <<clock, host, progress, retained, chosen, running, jobFiles, resultFiles>>

(* A confirmation measurement: baseline first in even pairs, second in odd ones. *)
CollectPair ==
    /\ pc = "collect" /\ Confirming
    /\ IF got.host # search[1].host
       THEN Raise /\ UNCHANGED <<pairs, half>>
       ELSE IF Len(half) = 0
       THEN half' = <<got>> /\ UNCHANGED pairs /\ pc' = "pace" /\ UNCHANGED outcome
       ELSE /\ half' = <<>>
            /\ pairs' = Append(pairs, IF Role(0) = "baseline"
                                      THEN [baseline |-> half[1], candidate |-> got]
                                      ELSE [baseline |-> got, candidate |-> half[1]])
            /\ pc' = IF Len(pairs') = 5 THEN "decide" ELSE "pace"
            /\ UNCHANGED outcome
    /\ got' = None /\ began' = None
    /\ UNCHANGED <<clock, host, lastEnd, attempts, search, winner, jobFiles, resultFiles>>

Gains(ps) == Cardinality({i \in 1..Len(ps) : ps[i].candidate.rate > ps[i].baseline.rate})

(* Faulty: three faster pairs of five are taken for an improvement. *)
DecideNoisy(ps) ==
    IF Len(ps) # 5 \/ \E i \in 1..5 : ps[i].baseline.tokens # ps[i].candidate.tokens THEN "INCONCLUSIVE"
    ELSE IF Gains(ps) >= 3 THEN "VERIFIED-IMPROVEMENT" ELSE "NO-MEASURABLE-GAIN"

(* decide_pairs *)
Decide(ps) ==
    IF Len(ps) # 5 THEN "INCONCLUSIVE"
    ELSE IF \E i \in 1..5 : ps[i].baseline.tokens # ps[i].candidate.tokens THEN "INCONCLUSIVE"
    ELSE IF Gains(ps) >= 4 THEN "VERIFIED-IMPROVEMENT"
    ELSE IF Gains(ps) <= 1 THEN "NO-MEASURABLE-GAIN"
    ELSE "INCONCLUSIVE"                                \* noisy

DecideJob ==
    /\ pc = "decide"
    /\ status' = Decide(pairs)
    /\ pc' = IF status' = "VERIFIED-IMPROVEMENT" THEN "accept" ELSE "report"
    /\ UNCHANGED <<clock, host, progress, retained, chosen, running, jobFiles, resultFiles>>

Accept ==
    /\ pc = "accept"
    /\ retained' = FALSE /\ chosen' = winner
    /\ pc' = "evidence"
    /\ UNCHANGED <<clock, host, progress, status, running, jobFiles, resultFiles>>

(* The winner's evidence entry and the break-even estimate. *)
Evidence ==
    /\ pc = "evidence"
    /\ pc' = "report"
    /\ UNCHANGED <<clock, host, progress, outcome, running, jobFiles, resultFiles>>

Trying == {"pace", "start", "journal", "launch", "measure", "collect", "gate", "decide", "accept", "evidence"}

(* An interrupt, or a file of the job that cannot be written: the except clause. *)
Interrupt ==
    /\ pc \in Trying
    /\ Raise
    /\ UNCHANGED <<clock, host, progress, running, jobFiles, resultFiles>>

-----------------------------------------------------------------------------
(* The finally block: a file being written is partial until it is complete *)

Result == [status |-> status, retained |-> retained, chosen |-> chosen,
           search |-> search, pairs |-> pairs, launches |-> launches]

BeginReport ==
    /\ pc = "report"
    /\ report' = Partial /\ pc' = "reporting"
    /\ UNCHANGED <<clock, host, progress, outcome, running, jobFiles, selected>>

EndReport ==
    /\ pc = "reporting"
    /\ report' = Result
    /\ pc' = IF status = "VERIFIED-IMPROVEMENT" THEN "select" ELSE "done"
    /\ UNCHANGED <<clock, host, progress, outcome, running, jobFiles, selected>>

BeginSelect ==
    /\ pc = "select"
    /\ selected' = Partial /\ pc' = "selecting"
    /\ UNCHANGED <<clock, host, progress, outcome, running, jobFiles, report>>

(* The winner's profile, with the digest of the report. *)
EndSelect ==
    /\ pc = "selecting"
    /\ selected' = [threads |-> winner, digest |-> report]
    /\ pc' = "done"
    /\ UNCHANGED <<clock, host, progress, outcome, running, jobFiles, report>>

(* The process is killed, or interrupted where nothing catches it. *)
Crash ==
    /\ pc \notin {"done", "dead"}
    /\ pc' = "dead"
    /\ UNCHANGED <<clock, host, progress, outcome, running, jobFiles, resultFiles>>

HostChanges ==
    /\ host < Len(Hosts) /\ host' = host + 1
    /\ UNCHANGED <<clock, pc, progress, outcome, running, jobFiles, resultFiles>>

Step ==
    \/ Register \/ Pace \/ Start \/ EndJournal \/ Launch \/ Measure \/ CollectSearch \/ Gate
    \/ CollectPair \/ DecideJob \/ Accept \/ Evidence \/ BeginReport \/ EndReport \/ BeginSelect \/ EndSelect

Next == Step \/ Interrupt \/ Crash \/ HostChanges

Spec == Init /\ [][Next]_vars

(* The job runs on: every call it makes has a deadline. *)
FairSpec == Spec /\ WF_vars(Step)

-----------------------------------------------------------------------------
(* reports.verify_job, on the files as they are *)

Received(role, i, m) == [dir |-> [role |-> role, index |-> i], m |-> m] \in receipts

SearchReceipts(r) ==
    /\ r.search # <<>>
    /\ \A i \in 1..Len(r.search) :
        /\ Received("search", r.search[i].threads, r.search[i])
        /\ r.search[i].host = r.search[1].host /\ r.search[i].tokens = r.search[1].tokens

PairReceipts(r) ==
    \A i \in 1..Len(r.pairs) : \A role \in {"baseline", "candidate"} :
        /\ Received(role, i - 1, r.pairs[i][role])
        /\ r.pairs[i][role].host = r.search[1].host

Reconstructed(r) ==
    IF r.pairs # <<>> THEN r.status = Decide(r.pairs)
    ELSE /\ r.status = "NO-MEASURABLE-GAIN"
         /\ \A i \in 1..Len(r.search) : r.search[i].rate * 100 < r.search[1].rate * 105

VerifyJob ==
    IF report \in {None, Partial} \/ launches > MaxProcesses THEN "error"
    ELSE IF report.status \in {"INCONCLUSIVE", "UNSUPPORTED"} THEN "PARTIAL"
    ELSE IF /\ SearchReceipts(report) /\ PairReceipts(report) /\ Reconstructed(report)
            /\ launches = Len(report.search) + 2 * Len(report.pairs)
    THEN "VERIFIED-RECEIPTS" ELSE "error"

-----------------------------------------------------------------------------
(* Correctness properties *)

(* The position of the job, its counters and its files are of their kinds. *)
TypeOK ==
    /\ clock \in Nat /\ host \in 1..Len(Hosts)
    /\ pc \in Trying \cup {"register", "report", "reporting", "select", "selecting", "done", "dead"}
    /\ lastEnd \in Nat \cup {None} /\ attempts \in 0..MaxProcesses
    /\ Len(search) <= 1 + Len(Candidates) /\ Len(pairs) <= 5 /\ Len(half) <= 1
    /\ winner \in {Candidates[i] : i \in 1..Len(Candidates)} \cup {None}
    /\ status \in Statuses
    /\ retained \in BOOLEAN /\ launches \in 0..MaxProcesses
    /\ journal \in 0..MaxProcesses \cup {None, Partial}

(***************************************************************************)
(* Whatever the interruption, a complete report is one that verify_job     *)
(* accepts from the files: a claim is reconstructed from its receipts, the *)
(* process count included, and nothing else is more than partial.          *)
(***************************************************************************)
ReportIsReconstructible ==
    report \notin {None, Partial} =>
        VerifyJob = IF report.status \in {"INCONCLUSIVE", "UNSUPPORTED"}
                    THEN "PARTIAL" ELSE "VERIFIED-RECEIPTS"

(***************************************************************************)
(* A selected profile exists only behind a complete report that earned it: *)
(* at least four of five pairs faster with the same tokens, the threads    *)
(* those of the report, and every measurement on one host.                 *)
(***************************************************************************)
SelectedIsEarned ==
    selected # None =>
        /\ report \notin {None, Partial} /\ report.status = "VERIFIED-IMPROVEMENT"
        /\ Len(report.pairs) = 5 /\ Gains(report.pairs) >= 4
        /\ \A i \in 1..5 : report.pairs[i].baseline.tokens = report.pairs[i].candidate.tokens
        /\ \A i \in 1..5 : report.pairs[i].candidate.threads = report.chosen
        /\ \A c \in receipts : c.m.host = report.search[1].host
        /\ selected # Partial => selected = [threads |-> report.chosen, digest |-> report]

(***************************************************************************)
(* A journal that can be read has counted every process that was launched, *)
(* and at most one more that was not.  It cannot be read where the job     *)
(* ended while it was written, which it does only with all the processes   *)
(* of the earlier attempts launched and none of the last; and no process   *)
(* is launched, runs or is measured unless the journal is whole and counts *)
(* it.                                                                     *)
(***************************************************************************)
JournalCovers ==
    /\ journal = None => launches = 0
    /\ journal \in Nat => launches <= journal /\ journal <= launches + 1
    /\ journal = Partial =>
          /\ attempts = launches + 1
          /\ pc \in {"journal", "report", "reporting", "done", "dead"} /\ status = "INCONCLUSIVE"
    /\ pc \in {"launch", "measure", "collect"} => journal = attempts

(***************************************************************************)
(* No process is launched at or after the deadline, however long its       *)
(* preparations took, or sooner after the end of the previous one than the *)
(* registered spacing.                                                     *)
(***************************************************************************)
StartsAreTimely ==
    launches' # launches =>
        /\ clock' < Budget
        /\ lastEnd # None => clock' - lastEnd >= Spacing

Paced == [][StartsAreTimely]_vars

(* "Negative or inconclusive outcomes keep the original profile." *)
InconclusiveKeepsBaseline ==
    report \notin {None, Partial} /\ report.status # "VERIFIED-IMPROVEMENT" => report.retained

(* The job ends. *)
JobEnds == <>(pc \in {"done", "dead"})
=============================================================================
