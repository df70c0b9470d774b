--------------------------- MODULE ProductBenchmark ---------------------------
(***************************************************************************)
(* `local bench': bench_profile registers a job and measures one profile   *)
(* once; measure_profile starts a server, watches its memory from a        *)
(* thread, asks for every response, and in its `finally' hashes what it    *)
(* has written; verify_job later decides from the files alone.             *)
(*                                                                         *)
(* The thread shares two lists with the result: what it appends after the  *)
(* result was judged is still in the result.  Starting and stopping the    *)
(* server, a step each here, are OwnedServer's business; while the server  *)
(* runs it writes to a log that is hashed too.  `altered' is TRUE while    *)
(* the host differs from what it was.                                      *)
(***************************************************************************)
EXTENDS Integers

CONSTANTS
    None,           \* no file, no value
    Replies,        \* repeats times prompts
    MaxSamples,     \* bound: samples of the thread, and lines of the log
    MaxMishaps      \* bound: failures, interrupts, deaths and alterations in all

(* The values of the variables below. *)
Stores   == [responses: 0 .. Replies, launched: BOOLEAN, receipt: BOOLEAN \cup {None}]
Lists    == [samples: 0 .. MaxSamples, failed: BOOLEAN]
Outcomes == [status: {"INCONCLUSIVE", "MEASURED"}, cleanup: BOOLEAN, records: 0 .. Replies,
             host: BOOLEAN \cup {None}, watched: BOOLEAN,
             hashed: {None} \cup [stored: Stores, lines: 0 .. MaxSamples]]
Results  == [outcome: Outcomes, memory: Lists \cup {None}]

ProductBenchmarkAssumption ==
    /\ Replies \in Nat \ {0} /\ {MaxSamples, MaxMishaps} \subseteq Nat
    /\ None \notin Lists /\ None \notin Results

VARIABLES
    mishaps, altered,
    benchAt,        \* where the program is
    unwinding,      \* an exception is under way
    child,          \* the entered session's server: "none", "running" or "gone"
    lines,          \* lines of server.log
    thread,         \* the monitor: "none", "waiting", "sampling" or "ended"
    stopping,       \* its event
    telemetry,      \* the lists of the monitor: the number of samples, any error
    outcome,        \* result: its status, cleanup, records, host and memory, and what was hashed
    stored,         \* files of the measurement: responses, launch.json, process-receipt.json
    saved,          \* measurement.json: None, Torn, or what it holds
    filed,          \* report.json of the job
    outlived,       \* history: the thread outlived the wait for it
    recaptured      \* history: the host as it was captured again

(* A file that was written in part. *)
Torn == [status |-> "torn"]

world    == <<mishaps, altered>>
serving  == <<child, lines>>
watching == <<thread, stopping, telemetry>>
history  == <<outlived, recaptured>>
results  == <<stored, saved, filed, history>>
benchVars == <<world, benchAt, unwinding, serving, watching, outcome, results>>

Init ==
    /\ mishaps = 0 /\ altered = FALSE
    /\ benchAt = "register" /\ unwinding = FALSE /\ child = "none" /\ lines = 0
    /\ thread = "none" /\ stopping = FALSE /\ telemetry = [samples |-> 0, failed |-> FALSE]
    /\ outcome = [status |-> "INCONCLUSIVE", cleanup |-> FALSE, records |-> 0, host |-> None,
                  watched |-> FALSE, hashed |-> None]
    /\ stored = [responses |-> 0, launched |-> FALSE, receipt |-> None]
    /\ saved = None /\ filed = None /\ outlived = FALSE /\ recaptured = None

Mishap == mishaps < MaxMishaps /\ mishaps' = mishaps + 1 /\ UNCHANGED altered
Goto(where) == benchAt' = where
Quiet == UNCHANGED <<mishaps, altered, unwinding>>

(* Where an exception of a step is seen next: the exits of the `with'      *)
(* blocks that are open, then the `finally', then bench_profile.           *)
Handler ==
    CASE benchAt = "register" -> "over"
      [] benchAt \in {"prepare", "write", "hash"} -> "caught"
      [] benchAt = "return" -> "interrupted"
      [] benchAt \in {"warmup", "measure", "settle"} -> "leave"
      [] benchAt \in {"leave", "watch"} -> "teardown"
      [] OTHER -> "hash"
Raise == Mishap /\ unwinding' = TRUE /\ Goto(Handler)

-----------------------------------------------------------------------------
(* measure_profile *)

(* The output directory, the frozen sources, registration.json. *)
Register ==
    /\ benchAt = "register" /\ Goto("prepare") /\ Quiet
    /\ UNCHANGED <<serving, watching, outcome, results>>

Prepare ==
    /\ benchAt = "prepare" /\ Goto("host") /\ Quiet
    /\ UNCHANGED <<serving, watching, outcome, results>>

CaptureHost ==
    /\ benchAt = "host" /\ Goto("launch") /\ Quiet
    /\ outcome' = [outcome EXCEPT !.host = altered]
    /\ UNCHANGED <<serving, watching, results>>

(* ServerSession.__enter__ returns, or has stopped what it started. *)
Launch ==
    /\ benchAt = "launch"
    /\ \/ Goto("watch") /\ Quiet /\ child' = "running" /\ stored' = [stored EXCEPT !.launched = TRUE]
       \/ Raise /\ UNCHANGED child /\ stored' = [stored EXCEPT !.launched = TRUE, !.receipt = TRUE]
    /\ UNCHANGED <<lines, watching, outcome, saved, filed, history>>

StartMonitor ==
    /\ benchAt = "watch" /\ Goto("warmup") /\ Quiet
    /\ thread' = "waiting"
    /\ UNCHANGED <<serving, stopping, telemetry, outcome, results>>

Warmup ==
    /\ benchAt = "warmup" /\ child = "running" /\ Goto("measure") /\ Quiet
    /\ UNCHANGED <<serving, watching, outcome, results>>

(* A response is written before it is parsed, which may fail. *)
Measure ==
    /\ benchAt = "measure" /\ child = "running"
    /\ stored' = [stored EXCEPT !.responses = @ + 1]
    /\ \/ /\ Quiet /\ outcome' = [outcome EXCEPT !.records = @ + 1]
          /\ Goto(IF outcome'.records = Replies THEN "settle" ELSE "measure")
       \/ Raise /\ UNCHANGED outcome
    /\ UNCHANGED <<serving, watching, saved, filed, history>>

Settle ==
    /\ benchAt = "settle" /\ Goto("leave") /\ Quiet
    /\ UNCHANGED <<serving, watching, outcome, results>>

(* MemoryMonitor.__exit__: the event is set, and the thread is waited for, *)
(* but not for ever.  Then the result gets the monitor's own lists.        *)
LeaveMonitor ==
    /\ benchAt = "leave" /\ stopping' = TRUE /\ Quiet
    /\ \/ ~stopping /\ Goto("leave") /\ UNCHANGED <<outcome, outlived>>
       \/ /\ stopping /\ thread \in {"ended", "sampling"} /\ Goto("teardown")
          /\ outcome' = [outcome EXCEPT !.watched = ~unwinding]
          /\ outlived' = (thread # "ended")
    /\ UNCHANGED <<serving, thread, telemetry, stored, saved, filed, recaptured>>

(* Faulty: a server that survives is not an exception. *)
TeardownQuietly ==
    /\ benchAt = "teardown" /\ Goto(IF unwinding THEN "hash" ELSE "recheck")
    /\ UNCHANGED <<altered, unwinding>>
    /\ \/ UNCHANGED mishaps /\ child' = "gone" /\ stored' = [stored EXCEPT !.receipt = TRUE]
       \/ /\ mishaps < MaxMishaps /\ mishaps' = mishaps + 1 /\ UNCHANGED child
          /\ stored' = [stored EXCEPT !.receipt = FALSE]
    /\ UNCHANGED <<lines, watching, outcome, saved, filed, history>>

(* ServerSession.__exit__: the receipt is written even when the server     *)
(* survives, which is an exception.                                        *)
Teardown ==
    /\ benchAt = "teardown"
    /\ \/ /\ child' = "gone" /\ stored' = [stored EXCEPT !.receipt = TRUE]
          /\ Goto(IF unwinding THEN "hash" ELSE "recheck") /\ Quiet
       \/ /\ child = "running" /\ Raise
          /\ stored' = [stored EXCEPT !.receipt = FALSE] /\ UNCHANGED child
    /\ UNCHANGED <<lines, watching, outcome, saved, filed, history>>

(* Faulty: the host is captured again, but not compared. *)
AnyHost == outcome.host # None
SameHost == altered = outcome.host
(* Faulty: telemetry may have failed. *)
AnyTelemetry == telemetry.samples >= 0
TelemetryHolds == ~telemetry.failed
Recheck ==
    /\ benchAt = "recheck" /\ Quiet /\ UNCHANGED <<serving, watching, stored, saved, filed, outlived>>
    /\ outcome' = [outcome EXCEPT !.cleanup = (child = "gone")]
    /\ recaptured' = altered
    /\ IF SameHost THEN Goto("judge") ELSE Goto("refuse")

(* That a sample saw the process and its reserve, on Windows, may fail too. *)
Judge ==
    /\ benchAt = "judge" /\ Quiet /\ UNCHANGED <<serving, watching, results>>
    /\ IF TelemetryHolds THEN Goto("hash") /\ outcome' = [outcome EXCEPT !.status = "MEASURED"]
       ELSE Goto("refuse") /\ UNCHANGED outcome

(* raise ValueError *)
Refuse ==
    /\ benchAt = "refuse" /\ unwinding' = TRUE /\ Goto("hash")
    /\ UNCHANGED <<world, serving, watching, outcome, results>>

(* The `except' and the `finally': every file of the measurement is        *)
(* hashed, then measurement.json is written.                               *)
Files == [stored |-> stored, lines |-> lines]
Hash ==
    /\ benchAt = "hash" /\ Goto("write") /\ Quiet
    /\ outcome' = [outcome EXCEPT !.hashed = Files,
                                  !.cleanup = IF unwinding /\ child # "none" THEN child = "gone" ELSE @]
    /\ UNCHANGED <<serving, watching, results>>

Held == [outcome |-> outcome, memory |-> IF outcome.watched THEN telemetry ELSE None]
Write ==
    /\ benchAt = "write"
    /\ \/ saved' = Held /\ Goto(IF unwinding THEN "caught" ELSE "return") /\ Quiet
       \/ saved' = Torn /\ Raise
    /\ UNCHANGED <<serving, watching, outcome, stored, filed, history>>

-----------------------------------------------------------------------------
(* bench_profile *)

(* report.json: the `finally' runs whatever was raised. *)
Report(status, measurement) ==
    \/ filed' = [status |-> status, measurement |-> measurement] /\ Goto("over") /\ Quiet
    \/ filed' = Torn /\ Mishap /\ unwinding' = TRUE /\ Goto("over")

Return ==
    /\ benchAt = "return" /\ Report("MEASURED", Held)
    /\ UNCHANGED <<serving, watching, outcome, stored, saved, history>>

(* Interrupted after measure_profile returned, the result may have what it *)
(* gets.                                                                   *)
Caught ==
    /\ \/ benchAt \in {"caught", "interrupted"} /\ Report("INCONCLUSIVE", None)
       \/ benchAt = "interrupted" /\ \E status \in {"INCONCLUSIVE", "MEASURED"} : Report(status, Held)
    /\ UNCHANGED <<serving, watching, outcome, stored, saved, history>>

-----------------------------------------------------------------------------
(* Around the program *)

(* An interrupt, or a request, a probe or a file that fails, at any step.  *)
Fail ==
    /\ benchAt \notin {"over", "caught", "interrupted", "refuse"} /\ Raise
    /\ UNCHANGED <<serving, watching, outcome, results>>

(* The process dies: its thread with it, its server perhaps not. *)
Die ==
    /\ benchAt # "over" /\ Mishap /\ Goto("over") /\ thread' = "ended"
    /\ UNCHANGED <<unwinding, serving, stopping, telemetry, outcome, results>>

Sample ==
    /\ \/ thread = "waiting" /\ ~stopping /\ thread' = "sampling" /\ UNCHANGED <<telemetry, mishaps>>
       \/ /\ thread = "sampling" /\ thread' = "waiting"
          /\ \/ UNCHANGED mishaps /\ telemetry' =
                    [telemetry EXCEPT !.samples = IF @ < MaxSamples THEN @ + 1 ELSE @]
             \/ mishaps < MaxMishaps /\ mishaps' = mishaps + 1
                /\ telemetry' = [telemetry EXCEPT !.failed = TRUE]
    /\ UNCHANGED <<altered, benchAt, unwinding, serving, stopping, outcome, results>>

(* A thread that waits for the event is woken by it. *)
Wake ==
    /\ thread = "waiting" /\ stopping /\ thread' = "ended"
    /\ UNCHANGED <<world, benchAt, unwinding, serving, stopping, telemetry, outcome, results>>

Serve ==
    /\ child = "running"
    /\ \/ lines < MaxSamples /\ lines' = lines + 1 /\ UNCHANGED <<child, mishaps>>
       \/ mishaps < MaxMishaps /\ mishaps' = mishaps + 1 /\ child' = "gone" /\ UNCHANGED lines
    /\ UNCHANGED <<altered, benchAt, unwinding, watching, outcome, results>>

Alter ==
    /\ mishaps < MaxMishaps /\ mishaps' = mishaps + 1 /\ altered' = ~altered
    /\ UNCHANGED <<benchAt, unwinding, serving, watching, outcome, results>>

(* A request to a server that is gone fails, whatever else does. *)
LostServer ==
    /\ benchAt \in {"warmup", "measure"} /\ child = "gone" /\ unwinding' = TRUE /\ Goto("leave")
    /\ UNCHANGED <<world, serving, watching, outcome, results>>

Bench ==
    \/ Register \/ Prepare \/ CaptureHost \/ Launch \/ StartMonitor \/ Warmup \/ Measure
    \/ LostServer \/ Settle \/ LeaveMonitor \/ Teardown \/ Recheck \/ Judge \/ Refuse
    \/ Hash \/ Write \/ Return \/ Caught

Next == Bench \/ Fail \/ Die \/ Sample \/ Wake \/ Serve \/ Alter

(***************************************************************************)
(* A thread is woken once, so one condition does for both.  A thread that  *)
(* is never done with a sample is not waited for.                          *)
(***************************************************************************)
Runs == Bench \/ Wake
Spec == Init /\ [][Next]_benchVars /\ WF_benchVars(Runs)

Done == benchAt = "over"

-----------------------------------------------------------------------------
(* _measurement and verify_job: what the files of the job say. *)
Verifies ==
    /\ saved \notin {None, Torn} /\ filed \notin {None, Torn}
    /\ saved.outcome.hashed = Files
    /\ saved.outcome.status = "MEASURED" /\ saved.outcome.cleanup
    /\ stored.responses = Replies /\ saved.outcome.records = Replies
    /\ stored.receipt = TRUE /\ stored.launched
    /\ filed.status = "MEASURED" /\ filed.measurement = saved

-----------------------------------------------------------------------------
(* The properties *)

TypeOK ==
    /\ mishaps \in 0 .. MaxMishaps /\ {altered, unwinding, stopping, outlived} \subseteq BOOLEAN
    /\ benchAt \in {"register", "prepare", "host", "launch", "watch", "warmup", "measure", "settle",
                    "leave", "teardown", "recheck", "judge", "refuse", "hash", "write", "return",
                    "caught", "interrupted", "over"}
    /\ child \in {"none", "running", "gone"} /\ lines \in 0 .. MaxSamples
    /\ thread \in {"none", "waiting", "sampling", "ended"} /\ telemetry \in Lists
    /\ outcome \in Outcomes /\ stored \in Stores /\ saved \in Results \cup {None, Torn}
    /\ \/ filed \in {None, Torn}
       \/ filed.status \in {"INCONCLUSIVE", "MEASURED"} /\ filed.measurement \in Results \cup {None}
    /\ recaptured \in BOOLEAN \cup {None}

(***************************************************************************)
(* A report that says MEASURED is confirmed by verify_job for as long as   *)
(* its files are left alone, whatever else failed, unless the monitor      *)
(* thread outlived the wait for it: what is hashed in the `finally' was    *)
(* written before, and the two copies of the measurement agree.            *)
(***************************************************************************)
MeasuredIsVerifiable ==
    filed \notin {None, Torn} /\ ~outlived => (filed.status = "MEASURED" => Verifies)

(***************************************************************************)
(* What verify_job confirms was earned: the server is gone and said every  *)
(* reply, the host at the end was the host at the start, and none of the   *)
(* samples failed, not even those taken while the thread was waited for.   *)
(***************************************************************************)
VerifiedIsEarned ==
    Verifies =>
        /\ child = "gone" /\ outcome.records = Replies
        /\ recaptured = saved.outcome.host
        /\ saved.memory # None /\ (~outlived => ~telemetry.failed)
=============================================================================
