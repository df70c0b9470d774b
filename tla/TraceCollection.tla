---------------------------- MODULE TraceCollection ----------------------------
(***************************************************************************)
(* `expertflow collect-pairs': for every conversation of a corpus the      *)
(* probe runs twice, plain and instrumented; the attempt is hashed, its    *)
(* tokens are compared and it is appended to collection-manifest.json.  A  *)
(* later call resumes: it skips the conversations whose last attempt is    *)
(* recorded as passed and still hashes to what was recorded.               *)
(*                                                                         *)
(* The files of an attempt stand for the calls that wrote them: content n  *)
(* is what the probes of call n leave behind.                              *)
(***************************************************************************)
EXTENDS Integers, FiniteSets, SequencesExt

CONSTANTS
    None,           \* no file, no counts
    Corpus,         \* number of conversations
    Accepts(_),     \* does the probe accept a command line with these options?
    Fields,         \* the fields of the token file it writes
    MaxFaults       \* bound: crashes, failures and foreign changes in all

(* None is no exit code. *)
TraceCollectionAssumption == Corpus \in Nat \ {0} /\ MaxFaults \in Nat /\ None \notin {0, 1}

Conversations == 1..Corpus

(* The options the probes are given, and the fields that load_token_sequence expects. *)
Argv(which) ==
    {"-m", "-n", "-ngl", "--threads", "--tokens"}
        \cup (IF which = "baseline" THEN {"--no-trace"} ELSE {"--trace"})
ReaderFields == {"schema_version", "prompt_token_ids", "generated_token_ids"}

VARIABLES
    faults,         \* faults so far
    calls,          \* calls of collect_trace_pairs so far
    disk,           \* [Conversations -> Seq(files)]: the attempt directories
    spoiled,        \* directories something else than their collector wrote to
    orphans,        \* probes of dead collectors: they still write their files
    manifest,       \* the attempts recorded in collection-manifest.json
    summary,        \* and its counts
    exitCode,       \* of the last call: 0, 1 for failed shards, 2 if it raised or died
    (* the running call *)
    at,             \* where it is
    conv,           \* the conversation at hand
    report,         \* the attempts of its copy of the manifest
    passed, failed, skipped,
    exits           \* the return codes of the two probes

tally == <<passed, failed, skipped>>
callVars == <<at, conv, report, tally, exits>>
collectionVars == <<faults, calls, disk, spoiled, orphans, manifest, summary, exitCode, callVars>>

Files(b, i) == [baseline |-> b, instrumented |-> i]
Attempt(fs, st) == [files |-> fs, status |-> st]
Counts == [passed |-> passed, failed |-> failed, skipped |-> skipped]

Init ==
    /\ faults = 0 /\ calls = 0
    /\ disk = [c \in Conversations |-> <<>>] /\ spoiled = {} /\ orphans = {}
    /\ manifest = [c \in Conversations |-> <<>>] /\ summary = None /\ exitCode = None
    /\ at = "idle" /\ conv = 1 /\ report = [c \in Conversations |-> <<>>]
    /\ passed = 0 /\ failed = 0 /\ skipped = 0 /\ exits = <<>>

(* Faulty: every attempt is made in the shard's own directory. *)
IndexFromZero(c, as) == 1

(* The directory an attempt is made in: its number is the attempts before it. *)
Index(c, as) == Len(as[c]) + 1

Goto(a) == at' = a /\ UNCHANGED calls
Fault   == faults < MaxFaults /\ faults' = faults + 1

(* The call returns, raises or dies: what it has in memory is gone. *)
Leave(code) ==
    /\ Goto("idle") /\ exitCode' = code
    /\ conv' = 1 /\ report' = [c \in Conversations |-> <<>>]
    /\ passed' = 0 /\ failed' = 0 /\ skipped' = 0 /\ exits' = <<>>

-----------------------------------------------------------------------------
(* Faulty: a shard recorded as passed is not hashed again. *)
ValidAsRecorded(c, as) == as[c] # <<>> /\ Last(as[c]).status = "passed"

(* _attempt_is_valid *)
Valid(c, as) ==
    /\ as[c] # <<>> /\ Last(as[c]).status = "passed"
    /\ disk[c][Len(as[c])] = Last(as[c]).files

Complete == \A c \in Conversations : Valid(c, manifest)

(* The inputs are checked and the manifest is read, if its identity agrees. *)
(* Bound: nobody resumes a collection that is complete.                     *)
Start ==
    /\ at = "idle" /\ ~Complete
    /\ \/ Fault /\ exitCode' = 2 /\ UNCHANGED <<calls, callVars>>     \* inputs differ or are missing
       \/ /\ calls' = calls + 1 /\ at' = "next" /\ exitCode' = None
          /\ report' = manifest
          /\ UNCHANGED <<faults, conv, tally, exits>>
    /\ UNCHANGED <<disk, spoiled, orphans, manifest, summary>>

(* Skip a valid shard, or make the directory of the next attempt. *)
NextConversation ==
    /\ at = "next" /\ conv <= Corpus
    /\ IF Valid(conv, report)
       THEN /\ passed' = passed + 1 /\ skipped' = skipped + 1 /\ conv' = conv + 1
            /\ UNCHANGED <<at, calls, disk, failed, report, exits>>
       ELSE /\ disk' = IF Len(disk[conv]) >= Index(conv, report) THEN disk
                       ELSE [disk EXCEPT ![conv] = Append(@, Files(None, None))]
            /\ Goto("baseline")
            /\ UNCHANGED <<conv, report, tally, exits>>
    /\ UNCHANGED <<faults, spoiled, orphans, manifest, summary, exitCode>>

(* A probe that exits with 0 has written its files; a failed one may leave *)
(* those of a collector that died here before; one that refuses its        *)
(* command line does nothing.                                              *)
Probe(which) ==
    /\ at = which
    /\ \/ /\ Fault /\ exits' = Append(exits, 1)
          /\ disk' \in {disk, [disk EXCEPT ![conv][Index(conv, report)][which] = calls]}
       \/ ~Accepts(Argv(which)) /\ UNCHANGED <<faults, disk>> /\ exits' = Append(exits, 2)
       \/ /\ Accepts(Argv(which)) /\ UNCHANGED faults /\ exits' = Append(exits, 0)
          /\ disk' = [disk EXCEPT ![conv][Index(conv, report)][which] = calls]
    /\ Goto(IF which = "baseline" THEN "instrumented" ELSE "append")
    /\ UNCHANGED <<spoiled, orphans, manifest, summary, exitCode, conv, report, tally>>

Baseline     == Probe("baseline")
Instrumented == Probe("instrumented")

(* Faulty: the files decide, whatever the probes returned. *)
StatusByFiles ==
    LET fs == disk[conv][Index(conv, report)]
    IN  IF fs.baseline # None /\ fs.instrumented # None
        THEN {"passed", "parity_failed"} ELSE {"process_failed"}

(* Both probes succeeded and left their files: the tokens are compared. *)
Status ==
    LET fs == disk[conv][Index(conv, report)]
    IN  IF exits = <<0, 0>> /\ fs.baseline # None /\ fs.instrumented # None
        THEN {"passed", "parity_failed"} ELSE {"process_failed"}

(* Faulty: the attempt takes the place of the one before it. *)
AppendOver(as, attempt) == IF as = <<>> THEN <<attempt>> ELSE [as EXCEPT ![Len(as)] = attempt]

AppendAttempt(as, attempt) == Append(as, attempt)

(* The artifacts are hashed and compared, the attempt is appended and the     *)
(* manifest replaced.  Malformed tokens or trace, or an OSError, end the call *)
(* before the manifest is touched; so do tokens with fields it does not know. *)
Compared == Status # {"process_failed"}
Record ==
    /\ at = "append"
    /\ \/ Fault /\ Leave(2) /\ UNCHANGED <<manifest, summary>>
       \/ /\ Compared /\ Fields # ReaderFields
          /\ Leave(2) /\ UNCHANGED <<faults, manifest, summary>>
       \/ \E st \in Status :
            /\ Compared => Fields = ReaderFields
            /\ IF st = "parity_failed" THEN Fault ELSE UNCHANGED faults
            /\ report' = [report EXCEPT ![conv] =
                             AppendAttempt(@, Attempt(disk[conv][Index(conv, report)], st))]
            /\ passed' = (IF st = "passed" THEN passed + 1 ELSE passed)
            /\ failed' = (IF st = "passed" THEN failed ELSE failed + 1)
            /\ UNCHANGED skipped
            /\ manifest' = report' /\ summary' = Counts'
            /\ conv' = conv + 1 /\ exits' = <<>> /\ Goto("next") /\ UNCHANGED exitCode
    /\ UNCHANGED <<disk, spoiled, orphans>>

ExitCode == IF failed > 0 THEN 1 ELSE 0

(* Faulty: the call is judged by the shards it skipped or passed. *)
FinishLeniently ==
    /\ at = "next" /\ conv > Corpus
    /\ manifest' = report /\ summary' = Counts
    /\ Leave(IF passed = 0 THEN 1 ELSE 0)
    /\ UNCHANGED <<faults, disk, spoiled, orphans>>

Finish ==
    /\ at = "next" /\ conv > Corpus
    /\ manifest' = report /\ summary' = Counts
    /\ Leave(ExitCode)
    /\ UNCHANGED <<faults, disk, spoiled, orphans>>

(* The collector dies; the probe it waited for may outlive it. *)
Die ==
    /\ at # "idle" /\ Fault
    /\ Leave(2)
    /\ \/ UNCHANGED orphans
       \/ /\ at \in {"baseline", "instrumented"}
          /\ orphans' = orphans \cup {[conv |-> conv, index |-> Index(conv, report), which |-> at, call |-> calls]}
    /\ UNCHANGED <<disk, spoiled, manifest, summary>>

(* An orphan ends and leaves its files where a later attempt may have its own. *)
OrphanWrites ==
    /\ \E o \in orphans :
        /\ orphans' = orphans \ {o}
        /\ disk' = [disk EXCEPT ![o.conv][o.index][o.which] = o.call]
        /\ spoiled' = spoiled \cup {<<o.conv, o.index>>}
    /\ UNCHANGED <<faults, calls, manifest, summary, exitCode, callVars>>

(* A file of an attempt is changed or removed by something else. *)
Damage ==
    /\ Fault
    /\ \E c \in Conversations : \E k \in 1..Len(disk[c]), which \in {"baseline", "instrumented"} :
        /\ disk[c][k][which] # None
        /\ disk' = [disk EXCEPT ![c][k][which] = None]
        /\ spoiled' = spoiled \cup {<<c, k>>}
    /\ UNCHANGED <<calls, orphans, manifest, summary, exitCode, callVars>>

Collect == Start \/ NextConversation \/ Baseline \/ Instrumented \/ Record \/ Finish

Next == Collect \/ Die \/ OrphanWrites \/ Damage

Spec == Init /\ [][Next]_collectionVars

(* The user resumes until the collection is complete, and a probe ends. *)
FairSpec == Spec /\ WF_collectionVars(Collect) /\ WF_collectionVars(OrphanWrites)

-----------------------------------------------------------------------------
(* Correctness properties *)

Statuses == {"passed", "parity_failed", "process_failed"}

TypeOK ==
    /\ faults \in 0..MaxFaults
    /\ at \in {"idle", "next", "baseline", "instrumented", "append"}
    /\ conv \in 1..(Corpus + 1)
    /\ \A c \in Conversations :
          /\ \A k \in 1..Len(manifest[c]) : manifest[c][k].status \in Statuses
          /\ Len(manifest[c]) <= Len(disk[c]) /\ Len(disk[c]) <= Len(manifest[c]) + 1
    /\ at = "append" => Len(exits) = 2
    /\ at # "idle" => report = manifest

(***************************************************************************)
(* The attempt history is append-only: no call, however it ends, removes   *)
(* or changes an attempt that an earlier one recorded.                     *)
(***************************************************************************)
HistoryGrows  == \A c \in Conversations : IsPrefix(manifest[c], manifest'[c])
HistoryIsKept == [][HistoryGrows]_collectionVars

(***************************************************************************)
(* The files of every recorded attempt, failed ones included, stay what    *)
(* was recorded: no later attempt is made in their directory.              *)
(***************************************************************************)
ArtifactsAreKept ==
    \A c \in Conversations : \A k \in 1..Len(manifest[c]) :
        <<c, k>> \notin spoiled => disk[c][k] = manifest[c][k].files

(***************************************************************************)
(* A shard passes on the tokens of two probes of one call, never on a file *)
(* that a collector which died in the same directory left behind.          *)
(***************************************************************************)
PassedIsOnePair ==
    \A c \in Conversations : \A k \in 1..Len(manifest[c]) :
        LET attempt == manifest[c][k]
        IN  attempt.status = "passed" /\ <<c, k>> \notin spoiled =>
                /\ attempt.files.baseline # None
                /\ attempt.files.instrumented = attempt.files.baseline

(***************************************************************************)
(* The counts a finished call leaves cover the corpus, as many shards      *)
(* stand in the manifest as passed, and it exits with 0 only when all do.  *)
(***************************************************************************)
RecordedPassed == {c \in Conversations : ValidAsRecorded(c, manifest)}

SummaryIsTrue ==
    /\ exitCode \in {0, 1} =>
          /\ summary.passed + summary.failed = Corpus
          /\ summary.passed = Cardinality(RecordedPassed)
    /\ exitCode = 0 => RecordedPassed = Conversations

(***************************************************************************)
(* An attempt that nothing disturbed has passed: the collector and its     *)
(* probe agree on the command line and on the files between them.          *)
(***************************************************************************)
UndisturbedPasses ==
    faults = 0 => \A c \in Conversations : \A k \in 1..Len(manifest[c]) : manifest[c][k].status = "passed"

(* Resuming gets there: every shard is passed with its files intact. *)
Intact(c) ==
    /\ manifest[c] # <<>> /\ Last(manifest[c]).status = "passed"
    /\ disk[c][Len(manifest[c])] = Last(manifest[c]).files

CollectionCompletes == <>[](\A c \in Conversations : Intact(c))
=============================================================================
