--------------------------- MODULE MeasurementRun ---------------------------
(***************************************************************************)
(* One ServerMeasurementRunner.run_once: the main thread that launches,    *)
(* probes, measures and tears down an owned server, and the monitor thread *)
(* that samples the server's device memory under sampling_lock until it is *)
(* told to stop.  The measurement becomes evidence only if the run is      *)
(* clean.  A server that crashes frees its port for any other program.     *)
(***************************************************************************)
EXTENDS Naturals

VARIABLES
    (* environment *)
    server,     \* the child: "none", "running", "dead"
    listener,   \* who listens on the reserved port: "none", "child", "foreign"
    gpu,        \* the child's dedicated memory: "absent" or "allocated"
    lag,        \* on this machine device memory may outlive the process that owned it
    (* main thread *)
    mpc,        \* position in run_once
    status,     \* status
    raising,    \* a BaseException is passing through the finally block
    completed,  \* request_completed, as the program that answered: "none", "child", "foreign"
    forced,     \* forced_kill
    terminated, \* process.terminate() was called on a running child
    settled,    \* settled
    record,     \* the evidence: "none", "appended", "verified"
    result,     \* how run_once returns: "none", a status, or "raised"
    (* shared by the two threads *)
    active, stop,   \* the two events
    lock,           \* sampling_lock: "free", "main", "monitor"
    samples,        \* samples is not empty
    errors,         \* sample_errors is not empty
    (* monitor thread *)
    spc,        \* "off", "check", "sampling", "exited"
    phase       \* phase read by the monitor's current sample_once

envVars  == <<server, listener, gpu, lag>>
runVars  == <<status, raising, completed, forced, terminated, settled, record, result>>
sampVars == <<active, stop, lock, samples, errors>>
monVars  == <<spc, phase>>
vars     == <<envVars, mpc, runVars, sampVars, monVars>>

Trying  == {"spawn", "health", "activate", "lock1", "sample1", "tokenize", "complete",
            "lock2", "sample2"}                                 \* inside the try
Closing == {"stop", "join", "terminate", "wait", "killwait", "settle"}   \* the finally
Label   == {"prepare"} \cup Trying \cup Closing \cup {"attest", "append", "verify", "done"}
Status  == {"measured", "validation_stop", "environment_blocked"}

Init ==
    /\ server = "none" /\ listener = "none" /\ gpu = "absent" /\ lag \in BOOLEAN
    /\ mpc = "prepare" /\ status = "measured" /\ raising = FALSE
    /\ completed = "none" /\ forced = FALSE /\ terminated = FALSE /\ settled = FALSE
    /\ record = "none" /\ result = "none"
    /\ active = FALSE /\ stop = FALSE /\ lock = "free" /\ samples = FALSE /\ errors = FALSE
    /\ spc = "off" /\ phase = "startup"

-----------------------------------------------------------------------------
(* The server, other programs and the device *)

Load ==
    /\ server = "running" /\ gpu = "absent"
    /\ gpu' = "allocated"
    /\ UNCHANGED <<server, listener, lag, mpc, runVars, sampVars, monVars>>

Listen ==
    /\ listener = "none"
    /\ \/ server = "running" /\ listener' = "child"
       \/ listener' = "foreign"
    /\ UNCHANGED <<server, gpu, lag, mpc, runVars, sampVars, monVars>>

ForeignLeaves ==
    /\ listener = "foreign"
    /\ listener' = "none"
    /\ UNCHANGED <<server, gpu, lag, mpc, runVars, sampVars, monVars>>

(* Exit, by itself or after a signal: the socket closes, memory goes at once or later. *)
ServerDies ==
    /\ server = "running"
    /\ server' = "dead"
    /\ listener' = IF listener = "child" THEN "none" ELSE listener
    /\ gpu' \in (IF lag THEN {gpu, "absent"} ELSE {"absent"})
    /\ UNCHANGED <<lag, mpc, runVars, sampVars, monVars>>

DeviceReleases ==
    /\ server = "dead" /\ gpu = "allocated"
    /\ gpu' = "absent"
    /\ UNCHANGED <<server, listener, lag, mpc, runVars, sampVars, monVars>>

-----------------------------------------------------------------------------
(* sample_once, by either thread *)

(* What one reading of the process's counter adds, for a sample taken in phase p. *)
Observe(p) ==
    \/ gpu = "allocated" /\ samples' = TRUE /\ UNCHANGED errors
    \/ gpu = "absent" /\ p = "startup" /\ UNCHANGED <<samples, errors>>
    \/ gpu = "absent" /\ p = "measurement" /\ errors' = TRUE /\ UNCHANGED samples
    \/ errors' = TRUE /\ UNCHANGED samples                 \* counter unavailable

MonitorAcquires ==
    /\ spc = "check" /\ ~stop /\ lock = "free"
    /\ lock' = "monitor" /\ spc' = "sampling"
    /\ phase' = IF active THEN "measurement" ELSE "startup"
    /\ UNCHANGED <<envVars, mpc, runVars, active, stop, samples, errors>>

MonitorSamples ==
    /\ spc = "sampling"
    /\ Observe(phase)
    /\ lock' = "free" /\ spc' = "check"
    /\ UNCHANGED <<envVars, mpc, runVars, active, stop, phase>>

MonitorExits ==
    /\ spc = "check" /\ stop
    /\ spc' = "exited"
    /\ UNCHANGED <<envVars, mpc, runVars, sampVars, phase>>

-----------------------------------------------------------------------------
(* The try block *)

(* An exception caught by one of the two handlers; the finally block follows. *)
Fail(st) ==
    /\ status' = st
    /\ mpc' = "stop"

AnyFailure == \E st \in {"validation_stop", "environment_blocked"} : Fail(st)

Proceed(l) == mpc' = l /\ UNCHANGED status

(* mkdir, port reservation, launch.json: an error here is raised before the try. *)
Prepare ==
    /\ mpc = "prepare"
    /\ \/ mpc' = "spawn" /\ UNCHANGED result
       \/ mpc' = "done" /\ result' = "raised"
    /\ UNCHANGED <<envVars, status, raising, completed, forced, terminated, settled, record, sampVars, monVars>>

(* Binding and idle checks, Popen, the birth record, then the monitor thread. *)
Spawn ==
    /\ mpc = "spawn"
    /\ \/ AnyFailure /\ UNCHANGED <<server, spc>>
       \/ Fail("environment_blocked") /\ server' = "running" /\ UNCHANGED spc
       \/ Proceed("health") /\ server' = "running" /\ spc' = "check"
    /\ UNCHANGED <<listener, gpu, lag, raising, completed, forced, terminated, settled, record, result, sampVars, phase>>

(* Faulty: the health loop has no deadline. *)
HealthTurnForever ==
    /\ mpc = "health"
    /\ \/ server = "dead" /\ Fail("environment_blocked")
       \/ server = "running" /\ listener = "child" /\ (Proceed("activate") \/ Fail("validation_stop"))
    /\ UNCHANGED <<envVars, raising, completed, forced, terminated, settled, record, result, sampVars, monVars>>

HealthTurn ==
    /\ mpc = "health"
    /\ \/ server = "dead" /\ Fail("environment_blocked")
       \/ server = "running" /\ listener = "child" /\ (Proceed("activate") \/ Fail("validation_stop"))
       \/ Fail("environment_blocked")                                \* deadline
    /\ UNCHANGED <<envVars, raising, completed, forced, terminated, settled, record, result, sampVars, monVars>>

Activate ==
    /\ mpc = "activate"
    /\ active' = TRUE /\ Proceed("lock1")
    /\ UNCHANGED <<envVars, raising, completed, forced, terminated, settled, record, result,
                   stop, lock, samples, errors, monVars>>

MainAcquires ==
    /\ mpc \in {"lock1", "lock2"} /\ lock = "free"
    /\ lock' = "main" /\ Proceed(IF mpc = "lock1" THEN "sample1" ELSE "sample2")
    /\ UNCHANGED <<envVars, raising, completed, forced, terminated, settled, record, result,
                   active, stop, samples, errors, monVars>>

(* Faulty: an observation that fails leaves the lock taken. *)
MainSamplesKeepsLock ==
    /\ mpc \in {"sample1", "sample2"}
    /\ Observe("measurement")
    /\ lock' = (IF errors' THEN "main" ELSE "free")
    /\ Proceed(IF mpc = "sample1" THEN "tokenize" ELSE "stop")
    /\ UNCHANGED <<envVars, raising, completed, forced, terminated, settled, record, result,
                   active, stop, monVars>>

MainSamples ==
    /\ mpc \in {"sample1", "sample2"}
    /\ Observe("measurement")
    /\ lock' = "free" /\ Proceed(IF mpc = "sample1" THEN "tokenize" ELSE "stop")
    /\ UNCHANGED <<envVars, raising, completed, forced, terminated, settled, record, result,
                   active, stop, monVars>>

Tokenize ==
    /\ mpc = "tokenize"
    /\ \/ listener # "none" /\ Proceed("complete")
       \/ AnyFailure
    /\ UNCHANGED <<envVars, raising, completed, forced, terminated, settled, record, result, sampVars, monVars>>

(* Faulty: no sample after the response. *)
CompleteUnsampled ==
    /\ mpc = "complete"
    /\ \/ listener # "none" /\ completed' = listener /\ Proceed("stop")
       \/ AnyFailure /\ UNCHANGED completed
    /\ UNCHANGED <<envVars, raising, forced, terminated, settled, record, result, sampVars, monVars>>

(* The completion request, its wall clock, completion.json, request_completed. *)
Complete ==
    /\ mpc = "complete"
    /\ \/ listener # "none" /\ completed' = listener /\ Proceed("lock2")
       \/ AnyFailure /\ UNCHANGED completed
    /\ UNCHANGED <<envVars, raising, forced, terminated, settled, record, result, sampVars, monVars>>

(* KeyboardInterrupt: no handler catches it.  In the try the finally block   *)
(* follows (and "with" releases the lock); anywhere else run_once ends there. *)
Interrupt ==
    /\ mpc # "done"
    /\ IF mpc \in Trying
       THEN raising' = TRUE /\ mpc' = "stop" /\ UNCHANGED result
       ELSE result' = "raised" /\ mpc' = "done" /\ UNCHANGED raising
    /\ lock' = IF lock = "main" THEN "free" ELSE lock
    /\ UNCHANGED <<envVars, status, completed, forced, terminated, settled, record,
                   active, stop, samples, errors, monVars>>

-----------------------------------------------------------------------------
(* The finally block *)

SetStop ==
    /\ mpc = "stop"
    /\ stop' = TRUE /\ Proceed("join")
    /\ UNCHANGED <<envVars, raising, completed, forced, terminated, settled, record, result,
                   active, lock, samples, errors, monVars>>

(* Faulty: a monitor that outlives the join is not noticed. *)
JoinUnchecked ==
    /\ mpc = "join"
    /\ Proceed("terminate")
    /\ UNCHANGED <<envVars, raising, completed, forced, terminated, settled, record, result, sampVars, monVars>>

(* join(timeout=10); a monitor still in its reading afterwards blocks the run. *)
Join ==
    /\ mpc = "join"
    /\ \/ spc \in {"off", "exited"} /\ Proceed("terminate")
       \/ spc \in {"check", "sampling"} /\ mpc' = "terminate" /\ status' = "environment_blocked"
    /\ UNCHANGED <<envVars, raising, completed, forced, terminated, settled, record, result, sampVars, monVars>>

Terminate ==
    /\ mpc = "terminate"
    /\ \/ server # "running" /\ Proceed("settle") /\ UNCHANGED terminated
       \/ server = "running" /\ Proceed("wait") /\ terminated' = TRUE
    /\ UNCHANGED <<envVars, raising, completed, forced, settled, record, result, sampVars, monVars>>

(* wait(30), kill, wait(30): the second timeout leaves run_once by an exception. *)
Wait ==
    /\ mpc = "wait"
    /\ \/ server = "dead" /\ Proceed("settle") /\ UNCHANGED forced
       \/ server = "running" /\ Proceed("killwait") /\ forced' = TRUE
    /\ UNCHANGED <<envVars, raising, completed, terminated, settled, record, result, sampVars, monVars>>

(* Faulty: the second timeout is swallowed. *)
KillWaitSwallowed ==
    /\ mpc = "killwait"
    /\ Proceed("settle")
    /\ UNCHANGED <<envVars, raising, completed, forced, terminated, settled, record, result, sampVars, monVars>>

KillWait ==
    /\ mpc = "killwait"
    /\ \/ server = "dead" /\ Proceed("settle") /\ UNCHANGED result
       \/ server = "running" /\ Proceed("done") /\ result' = "raised"
    /\ UNCHANGED <<envVars, raising, completed, forced, terminated, settled, record, sampVars, monVars>>

(* Faulty: an exited process is taken for released memory. *)
SettleOnExit ==
    /\ mpc = "settle"
    /\ settled' = (server = "dead") /\ Proceed("attest")
    /\ UNCHANGED <<envVars, raising, completed, forced, terminated, record, result, sampVars, monVars>>

(* Poll the counter until it reads absent or the teardown deadline passes, *)
(* then write memory.json, phase-timing.json and process.json.             *)
Settle ==
    /\ mpc = "settle"
    /\ \/ server # "none" /\ gpu = "absent" /\ settled' = TRUE
       \/ UNCHANGED settled
    /\ Proceed("attest")
    /\ UNCHANGED <<envVars, raising, completed, forced, terminated, record, result, sampVars, monVars>>

(* process.json *)
Cleanup         == server = "dead" /\ ~forced /\ settled
OwnedTermination == completed # "none" /\ Cleanup

-----------------------------------------------------------------------------
(* After the finally block *)

Return(st) ==
    /\ status' = st /\ result' = st
    /\ mpc' = "done"

(* Faulty: the observations are not consulted. *)
AttestUnchecked ==
    /\ mpc = "attest"
    /\ \/ raising /\ Proceed("done") /\ result' = "raised"
       \/ ~raising /\ status # "measured" /\ Return(status)
       \/ ~raising /\ status = "measured" /\ Proceed("append") /\ UNCHANGED result
    /\ UNCHANGED <<envVars, raising, completed, forced, terminated, settled, record, sampVars, monVars>>

Attest ==
    /\ mpc = "attest"
    /\ \/ raising /\ Proceed("done") /\ result' = "raised"
       \/ ~raising /\ status # "measured" /\ Return(status)
       \/ /\ ~raising /\ status = "measured"
          /\ IF ~samples \/ errors \/ ~settled
             THEN Return("environment_blocked")
             ELSE Proceed("append") /\ UNCHANGED result
    /\ UNCHANGED <<envVars, raising, completed, forced, terminated, settled, record, sampVars, monVars>>

(* Malformed timings, or a duplicate owned run, stop the run without a record. *)
Append ==
    /\ mpc = "append"
    /\ \/ Return("validation_stop") /\ UNCHANGED record
       \/ record' = "appended" /\ Proceed("verify") /\ UNCHANGED result
    /\ UNCHANGED <<envVars, raising, completed, forced, terminated, settled, sampVars, monVars>>

(* verify_measurement rereads the artifacts: process.json must report a clean exit. *)
Verify ==
    /\ mpc = "verify"
    /\ \/ Return("validation_stop") /\ UNCHANGED record
       \/ OwnedTermination /\ Return("measured") /\ record' = "verified"
    /\ UNCHANGED <<envVars, raising, completed, forced, terminated, settled, sampVars, monVars>>

Environment == Load \/ Listen \/ ForeignLeaves \/ ServerDies \/ DeviceReleases

Monitor == MonitorAcquires \/ MonitorSamples \/ MonitorExits

Main ==
    \/ Prepare \/ Spawn \/ HealthTurn \/ Activate \/ MainAcquires \/ MainSamples
    \/ Tokenize \/ Complete \/ SetStop \/ Join \/ Terminate \/ Wait \/ KillWait
    \/ Settle \/ Attest \/ Append \/ Verify

Next == Environment \/ Monitor \/ Main \/ Interrupt

Spec == Init /\ [][Next]_vars

(***************************************************************************)
(* Both threads run.  Every wait of the main thread has a timeout except   *)
(* the acquisition of sampling_lock: the monitor may take the lock again   *)
(* at once when a reading lasts longer than the interval, so the main      *)
(* thread needs the lock to be granted to a waiter eventually (strong      *)
(* fairness), and a reading must return.                                   *)
(***************************************************************************)
FairSpec == Spec /\ WF_vars(Main) /\ WF_vars(Monitor) /\ SF_vars(MainAcquires)

-----------------------------------------------------------------------------
(* Correctness properties *)

(* Every variable holds a value of its kind; the lock is held by who samples. *)
TypeOK ==
    /\ server \in {"none", "running", "dead"}
    /\ listener \in {"none", "child", "foreign"}
    /\ gpu \in {"absent", "allocated"}
    /\ mpc \in Label /\ status \in Status
    /\ raising \in BOOLEAN /\ forced \in BOOLEAN /\ terminated \in BOOLEAN /\ settled \in BOOLEAN
    /\ completed \in {"none", "child", "foreign"}
    /\ record \in {"none", "appended", "verified"}
    /\ result \in Status \cup {"none", "raised"}
    /\ active \in BOOLEAN /\ stop \in BOOLEAN /\ samples \in BOOLEAN /\ errors \in BOOLEAN
    /\ lock \in {"free", "main", "monitor"}
    /\ spc \in {"off", "check", "sampling", "exited"} /\ phase \in {"startup", "measurement"}
    /\ lock = "main" <=> mpc \in {"sample1", "sample2"}
    /\ lock = "monitor" <=> spc = "sampling"

(***************************************************************************)
(* Evidence is about the launched server: when the process's memory        *)
(* disappears with it, a completion answered by a program that took over   *)
(* the port of a crashed server is never appended.                         *)
(***************************************************************************)
EvidenceIsOwn == ~lag /\ record # "none" => completed = "child"

(***************************************************************************)
(* Evidence is final: when a record is appended no thread can still change *)
(* the samples it attests, no observation of the run failed, and the child *)
(* neither lives nor holds device memory nor had to be killed.             *)
(***************************************************************************)
EvidenceIsFinal ==
    record # "none" =>
        /\ spc \in {"off", "exited"}
        /\ samples /\ ~errors
        /\ server = "dead" /\ gpu = "absent"
        /\ record = "verified" => ~forced

(***************************************************************************)
(* run_once returns an outcome only when its child is gone; a child that   *)
(* survives the kill makes it raise.  It returns "measured" exactly for a  *)
(* run whose evidence was verified.                                        *)
(***************************************************************************)
OutcomeMeansGone ==
    /\ result \in Status => server # "running"
    /\ result = "measured" <=> record = "verified"

RunIsTrue == EvidenceIsOwn /\ EvidenceIsFinal /\ OutcomeMeansGone

(* "child process did not exit cleanly" is refused: the runner ended the child. *)
TerminationIsOwned == record = "verified" => terminated

(* The run has ended, as under FairSpec it always does. *)
Done == mpc = "done"
=============================================================================
