---------------------------- MODULE OwnedServer ----------------------------
(***************************************************************************)
(* The life of one owned llama-server per launcher: ServerSession around   *)
(* OwnedProcess (with its Windows job object), and the `local status' and  *)
(* `local stop' commands that reach a running server from another process  *)
(* through the identity saved in session-state.json.                       *)
(*                                                                         *)
(* A process is named by its identity, that is by its (pid, birth, image): *)
(* an element of Procs is born at most once.  Its pid is an attribute that *)
(* the operating system may hand to another process once it is free.       *)
(***************************************************************************)
EXTENDS Integers, FiniteSets

CONSTANTS
    Sessions,     \* launcher processes, one ServerSession each
    Procs,        \* process identities the machine can ever create
    Pids,         \* process numbers, reused once free
    Ports,        \* loopback TCP ports
    Controllers,  \* `local status' / `local stop' invocations
    Budgeted,     \* the sessions that carry an absolute job deadline
    Systems,      \* the operating systems to consider
    MaxSigint,    \* bound on the Ctrl+C interrupts a run may contain
    NoProc, NoPid, NoPort

ASSUME OwnedServerAssumption ==
    /\ Budgeted \subseteq Sessions
    /\ Systems \subseteq {"windows", "linux"}
    /\ MaxSigint \in Nat
    /\ NoProc \notin Procs
    /\ NoPid \notin Pids
    /\ NoPort \notin Ports

VARIABLES
    (* operating system *)
    pst,        \* [Procs -> ProcState]
    ppid,       \* [Procs -> Pids \cup {NoPid}]
    sig,        \* [Procs -> SignalState]: the strongest signal delivered
    listener,   \* [Ports -> Procs \cup {NoProc}]: who listens on the port
    (* launcher *)
    pc,         \* [Sessions -> Label]: position in __enter__ / body / __exit__
    child,      \* [Sessions -> Procs \cup {NoProc}]: OwnedProcess.process
    polled,     \* the sessions whose Popen.returncode is known
    port,       \* [Sessions -> Ports \cup {NoPort}]
    job,        \* [Sessions -> JobState]: the job object handle
    assigned,   \* the sessions whose AssignProcessToJobObject succeeded
    launch,     \* [Sessions -> Procs \cup {NoProc}]: identity in launch.json
    saved,      \* [Sessions -> Procs \cup {NoProc}]: session-state.json
    receipt,    \* [Sessions -> ReceiptState]: process-receipt.json
    late,       \* the sessions whose deadline in force has passed
    outcome,    \* [Sessions -> Outcome]: how main() returns
    sigints,    \* interrupts delivered so far, to all launchers
    (* status / stop commands *)
    system,     \* the machine's operating system, which never changes
    cop,        \* [Controllers -> {"status", "stop"}]
    cpc,        \* [Controllers -> CtlLabel]
    target,     \* [Controllers -> Procs \cup {NoProc}]: identity _read_state returned
    handle,     \* [Controllers -> Procs \cup {NoProc}]: process handle or pidfd
    answer      \* [Controllers -> Answer]

osVars   == <<pst, ppid, sig, listener>>
docVars  == <<launch, saved, receipt>>
sesVars  == <<pc, child, polled, port, job, assigned, docVars, late, outcome, sigints>>
ctlVars  == <<system, cop, cpc, target, handle, answer>>
vars     == <<osVars, sesVars, ctlVars>>

Windows == system = "windows"    \* os.name == "nt"

ProcState    == {"unborn", "suspended", "running", "dead", "reaped"}
SignalState  == {"none", "term", "kill"}
JobState     == {"none", "open", "closed"}
ReceiptState == {"none", "clean", "unclean"}
Outcome      == {"none", "served", "failed", "unwritten", "cancelled", "crashed"}
Answer       == {"none", "running", "stopped", "refused"}
CtlLabel     == {"read", "open", "verify", "act", "wait", "done"}

Before  == {"init", "verify", "open"}               \* nothing owned yet
Enter   == {"spawn", "assign", "resume", "record"}  \* inside OwnedProcess.__enter__'s try
Loading == {"health", "owns", "props"}              \* inside ServerSession.__enter__'s try
Exiting == {"close", "signal", "wait10", "wait5"}   \* inside OwnedProcess.__exit__'s try
Label   == Before \cup Enter \cup {"gap"} \cup Loading \cup {"serving"}
             \cup Exiting \cup {"final", "ended", "gone"}

Alive(i)   == pst[i] \in {"suspended", "running"}
Held(i)    == pst[i] \in {"suspended", "running", "dead"}    \* it keeps its pid
Holders(p) == {i \in Procs : Held(i) /\ ppid[i] = p}

(* The effect of delivering signal k to the processes in S. *)
Deliver(S, k) ==
    sig' = [i \in Procs |-> IF i \in S /\ Alive(i) /\ sig[i] # "kill" THEN k ELSE sig[i]]

Init ==
    /\ pst = [i \in Procs |-> "unborn"]
    /\ ppid = [i \in Procs |-> NoPid]
    /\ sig = [i \in Procs |-> "none"]
    /\ listener = [p \in Ports |-> NoProc]
    /\ pc = [s \in Sessions |-> "init"]
    /\ child = [s \in Sessions |-> NoProc]
    /\ polled = {}
    /\ port = [s \in Sessions |-> NoPort]
    /\ job = [s \in Sessions |-> "none"]
    /\ assigned = {}
    /\ launch = [s \in Sessions |-> NoProc]
    /\ saved = [s \in Sessions |-> NoProc]
    /\ receipt = [s \in Sessions |-> "none"]
    /\ late = {}
    /\ outcome = [s \in Sessions |-> "none"]
    /\ sigints = 0
    /\ system \in Systems
    /\ cop \in [Controllers -> {"status", "stop"}]
    /\ cpc = [c \in Controllers |-> "read"]
    /\ target = [c \in Controllers |-> NoProc]
    /\ handle = [c \in Controllers |-> NoProc]
    /\ answer = [c \in Controllers |-> "none"]

-----------------------------------------------------------------------------
(* Operating system and other programs *)

(* A process number no live, exited-but-unreaped or suspended process holds. *)
FreePid(p) == Holders(p) = {}

ForeignStart(i, p) ==
    /\ pst[i] = "unborn" /\ FreePid(p)
    /\ pst' = [pst EXCEPT ![i] = "running"]
    /\ ppid' = [ppid EXCEPT ![i] = p]
    /\ UNCHANGED <<sig, listener, sesVars, ctlVars>>

OwnerOf(i) == {s \in Sessions : child[s] = i}

(* A server binds the port it was given; a foreign program binds any port. *)
Bind(i, q) ==
    /\ pst[i] = "running" /\ listener[q] = NoProc
    /\ \A s \in OwnerOf(i) : port[s] = q
    /\ listener' = [listener EXCEPT ![q] = i]
    /\ UNCHANGED <<pst, ppid, sig, sesVars, ctlVars>>

Die(i) ==
    /\ pst' = [pst EXCEPT ![i] = "dead"]
    /\ listener' = [q \in Ports |-> IF listener[q] = i THEN NoProc ELSE listener[q]]
    /\ UNCHANGED <<ppid, sig, sesVars, ctlVars>>

(* A running program exits by itself, or because it honours SIGTERM. *)
Quit(i) == pst[i] = "running" /\ Die(i)

(* The kernel ends a process that was killed. *)
KillTakes(i) == Alive(i) /\ sig[i] = "kill" /\ Die(i)

(* A dead process leaves the table when no living parent or open handle keeps it. *)
Reap(i) ==
    /\ pst[i] = "dead"
    /\ \A s \in OwnerOf(i) : pc[s] = "gone"
    /\ Windows => \A c \in Controllers : handle[c] # i
    /\ pst' = [pst EXCEPT ![i] = "reaped"]
    /\ UNCHANGED <<ppid, sig, listener, sesVars, ctlVars>>

-----------------------------------------------------------------------------
(* ServerSession.__enter__ *)

Goto(s, l) == pc' = [pc EXCEPT ![s] = l]

End(s, o, l) ==
    /\ Goto(s, l)
    /\ outcome' = [outcome EXCEPT ![s] = o]

(* Faulty: the automatic port is not read back from the probe socket. *)
ProbePortForgets(s) ==
    /\ pc[s] = "init"
    /\ \/ s \in late /\ End(s, "failed", "ended")
       \/ \E q \in Ports : s \notin late /\ listener[q] = NoProc /\ Goto(s, "verify") /\ UNCHANGED outcome
    /\ UNCHANGED <<osVars, port, child, polled, job, assigned, docVars, late, sigints, ctlVars>>

(* check_budget(), then bind a probe socket to the port and close it again. *)
ProbePort(s) ==
    /\ pc[s] = "init"
    /\ \/ s \in late /\ End(s, "failed", "ended") /\ UNCHANGED port
       \/ \E q \in Ports :
            /\ s \notin late
            /\ port' = [port EXCEPT ![s] = q]
            /\ \/ listener[q] = NoProc /\ Goto(s, "verify") /\ UNCHANGED outcome
               \/ listener[q] # NoProc /\ End(s, "failed", "ended")
    /\ UNCHANGED <<osVars, child, polled, job, assigned, docVars, late, sigints, ctlVars>>

(* verify_profile re-hashes the model and runtime; check_budget follows it. *)
VerifyProfile(s) ==
    /\ pc[s] = "verify"
    /\ \/ End(s, "failed", "ended")
       \/ s \notin late /\ Goto(s, "open") /\ UNCHANGED outcome
    /\ UNCHANGED <<osVars, child, polled, port, job, assigned, docVars, late, sigints, ctlVars>>

(* The log is opened exclusively, outside the try; then the deadline is checked. *)
OpenLog(s) ==
    /\ pc[s] = "open"
    /\ \/ End(s, "failed", "ended")
       \/ s \in late /\ End(s, "failed", "close")
       \/ s \notin late /\ Goto(s, "spawn") /\ UNCHANGED outcome
    /\ UNCHANGED <<osVars, child, polled, port, job, assigned, docVars, late, sigints, ctlVars>>

SpawnFails(s) ==
    /\ pc[s] = "spawn"
    /\ \E j \in {"none"} \cup (IF Windows THEN {"open"} ELSE {}) :
         job' = [job EXCEPT ![s] = j]
    /\ End(s, "failed", "close")
    /\ UNCHANGED <<osVars, child, polled, port, assigned, docVars, late, sigints, ctlVars>>

(* Faulty: the child is created without CREATE_SUSPENDED. *)
BornRunning == "running"

(* WindowsJob(), then Popen: suspended on Windows, running at once on Linux. *)
BornAs == IF Windows THEN "suspended" ELSE "running"

Spawn(s, i, p) ==
    /\ pc[s] = "spawn"
    /\ pst[i] = "unborn" /\ FreePid(p)
    /\ pst' = [pst EXCEPT ![i] = BornAs]
    /\ ppid' = [ppid EXCEPT ![i] = p]
    /\ child' = [child EXCEPT ![s] = i]
    /\ job' = [job EXCEPT ![s] = IF Windows THEN "open" ELSE "none"]
    /\ Goto(s, IF Windows THEN "assign" ELSE "record")
    /\ UNCHANGED <<sig, listener, polled, port, assigned, docVars, late, outcome, sigints, ctlVars>>

Assign(s) ==
    /\ pc[s] = "assign"
    /\ \/ End(s, "failed", "close") /\ UNCHANGED assigned
       \/ /\ Alive(child[s])
          /\ assigned' = assigned \cup {s}
          /\ Goto(s, "resume") /\ UNCHANGED outcome
    /\ UNCHANGED <<osVars, child, polled, port, job, docVars, late, sigints, ctlVars>>

(* Find the suspended primary thread, check the deadline, resume it. *)
Resume(s) ==
    /\ pc[s] = "resume"
    /\ \/ End(s, "failed", "close") /\ UNCHANGED pst
       \/ /\ s \notin late /\ pst[child[s]] = "suspended"
          /\ pst' = [pst EXCEPT ![child[s]] = "running"]
          /\ Goto(s, "record") /\ UNCHANGED outcome
    /\ UNCHANGED <<ppid, sig, listener, child, polled, port, job, assigned, docVars, late, sigints, ctlVars>>

(* _process_creation reads the identity of a child that cannot have been reaped. *)
RecordLaunch(s) ==
    /\ pc[s] = "record"
    /\ \/ End(s, "failed", "close") /\ UNCHANGED launch
       \/ /\ launch' = [launch EXCEPT ![s] = child[s]]
          /\ Goto(s, "gap") /\ UNCHANGED outcome
    /\ UNCHANGED <<osVars, child, polled, port, job, assigned, saved, receipt, late, sigints, ctlVars>>

(* From OwnedProcess.__enter__'s return to the try: the deadline is computed. *)
EnterHealth(s) ==
    /\ pc[s] = "gap"
    /\ Goto(s, "health")
    /\ UNCHANGED <<osVars, child, polled, port, job, assigned, docVars, late, outcome, sigints, ctlVars>>

(* Popen.poll() on a dead child records the exit code; on Linux it reaps it. *)
Poll(s) ==
    /\ polled' = polled \cup {s}
    /\ pst' = IF Windows THEN pst ELSE [pst EXCEPT ![child[s]] = "reaped"]

(* Faulty: the health loop ignores its deadline. *)
HealthTurnForever(s) ==
    /\ pc[s] = "health"
    /\ \/ pst[child[s]] = "dead" /\ Poll(s) /\ End(s, "failed", "close")
       \/ /\ pst[child[s]] # "dead" /\ listener[port[s]] # NoProc
          /\ Goto(s, "owns") /\ UNCHANGED <<outcome, pst, polled>>
    /\ UNCHANGED <<ppid, sig, listener, child, port, job, assigned, docVars, late, sigints, ctlVars>>

(* One turn of the health loop; a request nobody answers leaves it unchanged. *)
HealthTurn(s) ==
    /\ pc[s] = "health"
    /\ \/ s \in late /\ End(s, "failed", "close") /\ UNCHANGED <<pst, polled>>
       \/ s \notin late /\ pst[child[s]] = "dead" /\ Poll(s) /\ End(s, "failed", "close")
       \/ /\ s \notin late /\ pst[child[s]] # "dead" /\ listener[port[s]] # NoProc
          /\ \/ Goto(s, "owns") /\ UNCHANGED outcome     \* {"status": "ok"}
             \/ End(s, "failed", "close")                 \* an error body
          /\ UNCHANGED <<pst, polled>>
    /\ UNCHANGED <<ppid, sig, listener, child, port, job, assigned, docVars, late, sigints, ctlVars>>

OwnsPort(s) == listener[port[s]] = child[s]

(* Faulty: whoever answers /health is taken for the launched server. *)
CheckOwnerTrusts(s) ==
    /\ pc[s] = "owns"
    /\ Goto(s, IF s \in late THEN "health" ELSE "props")
    /\ UNCHANGED <<outcome, osVars, child, polled, port, job, assigned, docVars, late, sigints, ctlVars>>

(* _owns_port; for a dead child its fd table may also be unreadable. *)
CheckOwner(s) ==
    /\ pc[s] = "owns"
    /\ \/ OwnsPort(s) /\ s \notin late /\ Goto(s, "props") /\ UNCHANGED outcome
       \/ OwnsPort(s) /\ s \in late /\ Goto(s, "health") /\ UNCHANGED outcome
       \/ ~Alive(child[s]) /\ Goto(s, "health") /\ UNCHANGED outcome
       \/ ~OwnsPort(s) /\ End(s, "failed", "close")
    /\ UNCHANGED <<osVars, child, polled, port, job, assigned, docVars, late, sigints, ctlVars>>

(* /props, the context check, and session-state.json from launch.json. *)
ReadProps(s) ==
    /\ pc[s] = "props"
    /\ \/ Goto(s, "health") /\ UNCHANGED <<saved, outcome>>
       \/ /\ listener[port[s]] # NoProc
          /\ \/ End(s, "failed", "close") /\ UNCHANGED saved
             \/ /\ saved' = [saved EXCEPT ![s] = launch[s]]
                /\ Goto(s, "serving") /\ UNCHANGED outcome
    /\ UNCHANGED <<osVars, child, polled, port, job, assigned, launch, receipt, late, sigints, ctlVars>>

(* The body: it returns, it raises, or the serve loop sees the server exit. *)
EndBody(s) ==
    /\ pc[s] = "serving"
    /\ \E o \in {"served", "failed"} : End(s, o, "close")
    /\ \/ UNCHANGED <<pst, polled>>
       \/ pst[child[s]] = "dead" /\ Poll(s)
    /\ UNCHANGED <<ppid, sig, listener, child, port, job, assigned, docVars, late, sigints, ctlVars>>

-----------------------------------------------------------------------------
(* OwnedProcess.__exit__ *)

(* Closing the last handle of a kill-on-close job kills what is in the job. *)
JobMembers(s) == IF job[s] = "open" /\ s \in assigned THEN {child[s]} ELSE {}

CloseJob(s) ==
    /\ pc[s] = "close"
    /\ job' = [job EXCEPT ![s] = IF job[s] = "open" THEN "closed" ELSE job[s]]
    /\ Deliver(JobMembers(s), "kill")
    /\ Goto(s, IF child[s] = NoProc THEN "final" ELSE "signal")
    /\ UNCHANGED <<pst, ppid, listener, child, polled, port, assigned, docVars, late, outcome, sigints, ctlVars>>

(* Popen.kill() uses the retained handle on Windows; killpg uses the pid. *)
Signalled(s) == IF Windows THEN {child[s]} ELSE Holders(ppid[child[s]])

(* Faulty: the process group is signalled without asking poll() first. *)
SignalChildBlindly(s) ==
    /\ pc[s] = "signal"
    /\ Deliver(Signalled(s), IF Windows THEN "kill" ELSE "term")
    /\ Goto(s, IF Alive(child[s]) THEN "wait10" ELSE "final")
    /\ UNCHANGED <<pst, polled, ppid, listener, child, port, job, assigned, docVars, late, outcome, sigints, ctlVars>>

SignalChild(s) ==
    /\ pc[s] = "signal"
    /\ \/ /\ s \in polled /\ Goto(s, "final")
          /\ UNCHANGED <<pst, polled, sig>>
       \/ /\ s \notin polled /\ pst[child[s]] = "dead"
          /\ Poll(s) /\ Goto(s, "final") /\ UNCHANGED sig
       \/ /\ s \notin polled /\ Alive(child[s])
          /\ Deliver(Signalled(s), IF Windows THEN "kill" ELSE "term")
          /\ Goto(s, "wait10") /\ UNCHANGED <<pst, polled>>
    /\ UNCHANGED <<ppid, listener, child, port, job, assigned, docVars, late, outcome, sigints, ctlVars>>

(* Faulty: the TimeoutExpired of the second wait skips the finally block. *)
Wait5NoFinally(s) ==
    /\ pc[s] = "wait5"
    /\ \/ pst[child[s]] = "dead" /\ Poll(s) /\ Goto(s, "final") /\ UNCHANGED outcome
       \/ Alive(child[s]) /\ End(s, "failed", "ended") /\ UNCHANGED <<pst, polled>>
    /\ UNCHANGED <<ppid, sig, listener, child, port, job, assigned, docVars, late, sigints, ctlVars>>

(* Faulty: wait() without a timeout. *)
Wait10Unbounded(s) ==
    /\ pc[s] = "wait10"
    /\ pst[child[s]] = "dead" /\ Poll(s) /\ Goto(s, "final") /\ UNCHANGED sig
    /\ UNCHANGED <<ppid, listener, child, port, job, assigned, docVars, late, outcome, sigints, ctlVars>>

Wait10(s) ==
    /\ pc[s] = "wait10"
    /\ \/ pst[child[s]] = "dead" /\ Poll(s) /\ Goto(s, "final") /\ UNCHANGED sig
       \/ /\ Alive(child[s])            \* TimeoutExpired
          /\ Deliver(Signalled(s), "kill")
          /\ Goto(s, "wait5") /\ UNCHANGED <<pst, polled>>
    /\ UNCHANGED <<ppid, listener, child, port, job, assigned, docVars, late, outcome, sigints, ctlVars>>

Wait5(s) ==
    /\ pc[s] = "wait5"
    /\ \/ pst[child[s]] = "dead" /\ Poll(s) /\ Goto(s, "final") /\ UNCHANGED outcome
       \/ Alive(child[s]) /\ End(s, "failed", "final") /\ UNCHANGED <<pst, polled>>
    /\ UNCHANGED <<ppid, sig, listener, child, port, job, assigned, docVars, late, sigints, ctlVars>>

(* Faulty: the receipt claims the cleanup instead of asking poll(). *)
WriteReceiptUnasked(s) ==
    /\ pc[s] = "final"
    /\ Goto(s, "ended")
    /\ receipt' = [receipt EXCEPT ![s] = IF child[s] = NoProc THEN "none" ELSE "clean"]
    /\ UNCHANGED <<pst, polled, ppid, sig, listener, child, port, job, assigned, launch, saved, late, outcome, sigints, ctlVars>>

(* The finally block: process-receipt.json carries what poll() says now. *)
(* Closing the log or writing the file may raise, and that error replaces *)
(* the one on its way; what is left of the file, if anything, is no JSON. *)
WriteReceipt(s) ==
    /\ pc[s] = "final"
    /\ \/ child[s] = NoProc /\ Goto(s, "ended") /\ UNCHANGED <<pst, polled, receipt, outcome>>
       \/ /\ child[s] # NoProc /\ Goto(s, "ended") /\ UNCHANGED outcome
          /\ receipt' = [receipt EXCEPT ![s] =
               IF s \in polled \/ pst[child[s]] = "dead" THEN "clean" ELSE "unclean"]
          /\ IF pst[child[s]] = "dead" THEN Poll(s) ELSE UNCHANGED <<pst, polled>>
       \/ /\ child[s] # NoProc /\ End(s, "unwritten", "ended") /\ UNCHANGED receipt
          /\ \/ UNCHANGED <<pst, polled>>
             \/ pst[child[s]] = "dead" /\ Poll(s)
    /\ UNCHANGED <<ppid, sig, listener, child, port, job, assigned, launch, saved, late, sigints, ctlVars>>

-----------------------------------------------------------------------------
(* The launcher's own end, its interrupts, and time *)

(* The process ends; the kernel closes its handles, the job's among them. *)
ReleaseHandles(s) ==
    /\ job' = [job EXCEPT ![s] = IF job[s] = "open" THEN "closed" ELSE job[s]]
    /\ Deliver(JobMembers(s), "kill")
    /\ UNCHANGED <<pst, ppid, listener, child, polled, port, assigned, docVars, late, sigints, ctlVars>>

LauncherExit(s) ==
    /\ pc[s] = "ended"
    /\ Goto(s, "gone") /\ UNCHANGED outcome
    /\ ReleaseHandles(s)

Crash(s) ==
    /\ pc[s] \notin {"init", "ended", "gone"}
    /\ End(s, "crashed", "gone")
    /\ ReleaseHandles(s)

(* Where a KeyboardInterrupt raised at each position lands. *)
UnwindTo(l) ==
    CASE l \in Before \cup {"gap", "final"}              -> "ended"
      [] l \in Enter \cup Loading \cup {"serving"}       -> "close"
      [] l \in Exiting                                    -> "final"

Interrupt(s) ==
    /\ pc[s] \notin {"ended", "gone"} /\ sigints < MaxSigint
    /\ sigints' = sigints + 1
    /\ End(s, "cancelled", UnwindTo(pc[s]))
    /\ UNCHANGED <<osVars, child, polled, port, job, assigned, docVars, late, ctlVars>>

(* The job budget runs out, or in the health loop the shorter of it and the timeout. *)
HealthExpires(s) ==
    /\ pc[s] \in Loading /\ s \notin late
    /\ late' = late \cup {s}
    /\ UNCHANGED <<osVars, pc, child, polled, port, job, assigned, docVars, outcome, sigints, ctlVars>>

BudgetExpires(s) ==
    /\ s \in Budgeted /\ pc[s] \in Before \cup Enter \cup {"gap"} /\ s \notin late
    /\ late' = late \cup {s}
    /\ UNCHANGED <<osVars, pc, child, polled, port, job, assigned, docVars, outcome, sigints, ctlVars>>

-----------------------------------------------------------------------------
(* `local status' and `local stop' *)

Conclude(c, a) ==
    /\ answer' = [answer EXCEPT ![c] = a]
    /\ cpc' = [cpc EXCEPT ![c] = "done"]

(* _read_state: a missing or malformed session-state.json is an error. *)
ReadState(c, s) ==
    /\ cpc[c] = "read"
    /\ \/ saved[s] = NoProc /\ Conclude(c, "refused") /\ UNCHANGED target
       \/ /\ saved[s] # NoProc
          /\ target' = [target EXCEPT ![c] = saved[s]]
          /\ cpc' = [cpc EXCEPT ![c] = "open"] /\ UNCHANGED answer
    /\ UNCHANGED <<osVars, sesVars, system, cop, handle>>

(* OpenProcess or pidfd_open: whoever holds the saved pid now. *)
OpenTarget(c) ==
    /\ cpc[c] = "open"
    /\ \/ FreePid(ppid[target[c]]) /\ Conclude(c, "stopped") /\ UNCHANGED handle
       \/ \E h \in Holders(ppid[target[c]]) :
            /\ handle' = [handle EXCEPT ![c] = h]
            /\ cpc' = [cpc EXCEPT ![c] = "verify"] /\ UNCHANGED answer
    /\ UNCHANGED <<osVars, sesVars, system, cop, target>>

(* Faulty: the pid alone is trusted, whatever process was born under it. *)
VerifyTargetByPid(c) ==
    /\ cpc[c] = "verify"
    /\ cpc' = [cpc EXCEPT ![c] = "act"] /\ UNCHANGED answer
    /\ UNCHANGED <<osVars, sesVars, system, cop, target, handle>>

(* Windows asks the handle; Linux reads /proc/<pid>, whoever that is by now. *)
IdentityRead(c) == IF Windows THEN {handle[c]} ELSE Holders(ppid[target[c]])

VerifyTarget(c) ==
    /\ cpc[c] = "verify"
    /\ \/ IdentityRead(c) # {target[c]} /\ Conclude(c, "refused")
       \/ /\ IdentityRead(c) = {target[c]} /\ ~Alive(target[c])
          /\ Conclude(c, IF Windows THEN "stopped" ELSE "refused")
       \/ /\ IdentityRead(c) = {target[c]} /\ Alive(target[c])
          /\ cpc' = [cpc EXCEPT ![c] = "act"] /\ UNCHANGED answer
    /\ UNCHANGED <<osVars, sesVars, system, cop, target, handle>>

ReportRunning(c) ==
    /\ cpc[c] = "act" /\ cop[c] = "status"
    /\ Conclude(c, "running")
    /\ UNCHANGED <<osVars, sesVars, system, cop, target, handle>>

(* Faulty: TerminateProcess without waiting for the process object. *)
StopTargetNoWait(c) ==
    /\ cpc[c] = "act" /\ cop[c] = "stop"
    /\ Deliver({handle[c]}, "kill") /\ Conclude(c, "stopped")
    /\ UNCHANGED <<pst, ppid, listener, sesVars, system, cop, target, handle>>

(* TerminateProcess then a bounded wait; pidfd_send_signal and no wait. *)
StopTarget(c) ==
    /\ cpc[c] = "act" /\ cop[c] = "stop"
    /\ \/ /\ Windows /\ Alive(handle[c]) /\ Deliver({handle[c]}, "kill")
          /\ cpc' = [cpc EXCEPT ![c] = "wait"] /\ UNCHANGED answer
       \/ Windows /\ ~Alive(handle[c]) /\ Conclude(c, "refused") /\ UNCHANGED sig
       \/ ~Windows /\ pst[handle[c]] = "reaped" /\ Conclude(c, "refused") /\ UNCHANGED sig
       \/ /\ ~Windows /\ pst[handle[c]] # "reaped"
          /\ Deliver({handle[c]}, "term") /\ Conclude(c, "stopped")
    /\ UNCHANGED <<pst, ppid, listener, sesVars, system, cop, target, handle>>

AwaitTarget(c) ==
    /\ cpc[c] = "wait"
    /\ Conclude(c, IF Alive(handle[c]) THEN "refused" ELSE "stopped")
    /\ UNCHANGED <<osVars, sesVars, system, cop, target, handle>>

(* The command returns and its handle or descriptor is closed. *)
CloseTarget(c) ==
    /\ cpc[c] = "done" /\ handle[c] # NoProc
    /\ handle' = [handle EXCEPT ![c] = NoProc]
    /\ UNCHANGED <<osVars, sesVars, system, cop, cpc, target, answer>>

-----------------------------------------------------------------------------
EnterStep(s) ==
    \/ ProbePort(s) \/ VerifyProfile(s) \/ OpenLog(s) \/ SpawnFails(s)
    \/ \E i \in Procs, p \in Pids : Spawn(s, i, p)
    \/ Assign(s) \/ Resume(s) \/ RecordLaunch(s) \/ EnterHealth(s)
    \/ HealthTurn(s) \/ CheckOwner(s) \/ ReadProps(s)

ExitStep(s) ==
    \/ CloseJob(s) \/ SignalChild(s) \/ Wait10(s) \/ Wait5(s)
    \/ WriteReceipt(s) \/ LauncherExit(s)

ControlStep(c) ==
    \/ \E s \in Sessions : ReadState(c, s)
    \/ OpenTarget(c) \/ VerifyTarget(c) \/ ReportRunning(c)
    \/ StopTarget(c) \/ AwaitTarget(c) \/ CloseTarget(c)

OsStep ==
    \E i \in Procs :
        \/ \E p \in Pids : ForeignStart(i, p)
        \/ \E q \in Ports : Bind(i, q)
        \/ Quit(i) \/ KillTakes(i) \/ Reap(i)

Next ==
    \/ OsStep
    \/ \E s \in Sessions :
         \/ EnterStep(s) \/ EndBody(s) \/ ExitStep(s)
         \/ Crash(s) \/ Interrupt(s) \/ HealthExpires(s) \/ BudgetExpires(s)
    \/ \E c \in Controllers : ControlStep(c)

Spec == Init /\ [][Next]_vars

(***************************************************************************)
(* Fairness.  The launcher's code runs and every wait in it is bounded, so *)
(* its own steps are weakly fair; the health deadline passes; the kernel   *)
(* ends what was killed.  Nothing forces a server to bind, to answer or to *)
(* honour SIGTERM, nor a body to finish.                                   *)
(***************************************************************************)
Fairness ==
    /\ \A s \in Sessions : WF_vars(EnterStep(s)) /\ WF_vars(ExitStep(s)) /\ WF_vars(HealthExpires(s))
    /\ \A i \in Procs : WF_vars(KillTakes(i))

FairSpec == Spec /\ Fairness

-----------------------------------------------------------------------------
(* Correctness properties *)

(***************************************************************************)
(* Every variable holds a value of its kind; a launcher past the probe     *)
(* knows its port, and one past Popen or a command past _read_state knows  *)
(* its process.                                                            *)
(***************************************************************************)
TypeOK ==
    /\ pst \in [Procs -> ProcState]
    /\ ppid \in [Procs -> Pids \cup {NoPid}]
    /\ sig \in [Procs -> SignalState]
    /\ listener \in [Ports -> Procs \cup {NoProc}]
    /\ pc \in [Sessions -> Label]
    /\ child \in [Sessions -> Procs \cup {NoProc}]
    /\ polled \subseteq Sessions
    /\ port \in [Sessions -> Ports \cup {NoPort}]
    /\ job \in [Sessions -> JobState]
    /\ assigned \subseteq Sessions
    /\ launch \in [Sessions -> Procs \cup {NoProc}]
    /\ saved \in [Sessions -> Procs \cup {NoProc}]
    /\ receipt \in [Sessions -> ReceiptState]
    /\ late \subseteq Sessions
    /\ outcome \in [Sessions -> Outcome]
    /\ sigints \in 0..MaxSigint
    /\ system \in Systems
    /\ cop \in [Controllers -> {"status", "stop"}]
    /\ cpc \in [Controllers -> CtlLabel]
    /\ target \in [Controllers -> Procs \cup {NoProc}]
    /\ handle \in [Controllers -> Procs \cup {NoProc}]
    /\ answer \in [Controllers -> Answer]
    /\ \A s \in Sessions :
         /\ pc[s] \in {"assign", "resume", "record", "gap", "serving", "signal", "wait10", "wait5"}
                      \cup Loading => child[s] \in Procs
         /\ pc[s] \notin {"init", "ended", "gone"} => port[s] \in Ports
    /\ \A c \in Controllers :
         /\ cpc[c] \in {"open", "verify", "act", "wait"} => target[c] \in Procs
         /\ cpc[c] \in {"verify", "act", "wait"} => handle[c] \in Procs

(***************************************************************************)
(* A signal reaches a process only from the launcher that started it,      *)
(* while that launcher is cleaning up or ending, or from a `stop' whose    *)
(* session file names that very process: never another program that now    *)
(* holds its pid, nor another launcher's server.                           *)
(***************************************************************************)
MaySignal(i) ==
    \/ \E s \in OwnerOf(i) : pc[s] \in {"close", "signal", "wait10"} \/ pc'[s] = "gone"
    \/ \E c \in Controllers : target[c] = i /\ cop[c] = "stop"

SignalsAreOwned == \A i \in Procs : sig'[i] # sig[i] => MaySignal(i)

SignalsStayInCustody == [][SignalsAreOwned]_vars

(***************************************************************************)
(* A session that is handed to its caller talks to its own server: while   *)
(* that server lives it is the listener on the session's port, although    *)
(* the port was free for anyone between the probe and the server's bind.   *)
(***************************************************************************)
ReadyMeansOwnListener ==
    \A s \in Sessions :
        pc[s] = "serving" /\ Alive(child[s]) => OwnsPort(s)

(***************************************************************************)
(* On Windows a launcher that is gone, even killed between two steps of    *)
(* the launch, leaves no server that runs: it is dead, it is being killed, *)
(* or it was never resumed.                                                *)
(***************************************************************************)
NoRunawayOnWindows ==
    Windows => \A s \in Sessions :
        pc[s] = "gone" /\ child[s] # NoProc /\ pst[child[s]] = "running"
            => sig[child[s]] = "kill"

(***************************************************************************)
(* process-receipt.json tells the truth: "cleanup": true is written only   *)
(* for a server that is dead, and a launcher that returns without being    *)
(* cancelled or killed, and could write its receipt, has written one: a    *)
(* server it leaves alive is on record.                                    *)
(***************************************************************************)
ReceiptIsTrue ==
    \A s \in Sessions :
        /\ receipt[s] = "clean" => ~Alive(child[s])
        /\ /\ pc[s] \in {"ended", "gone"} /\ outcome[s] \in {"served", "failed"}
           /\ child[s] # NoProc
           => receipt[s] # "none"

(***************************************************************************)
(* `local stop' answers STOPPED only when the saved server is not alive.    *)
(***************************************************************************)
StopReportIsTrue ==
    \A c \in Controllers :
        cop[c] = "stop" /\ answer[c] = "stopped" => ~Alive(target[c])

(* On Windows, where it waits for the process it terminated, it does. *)
StopWaitsOnWindows == Windows => StopReportIsTrue

(***************************************************************************)
(* main() answers an interrupt with "Cancelled; owned server stopped".     *)
(***************************************************************************)
CancelledMeansStopped ==
    \A s \in Sessions :
        pc[s] = "ended" /\ outcome[s] = "cancelled" /\ child[s] # NoProc => ~Alive(child[s])

(* Every launch settles: the caller gets its server or the launcher ends. *)
LaunchSettles ==
    \A s \in Sessions :
        pc[s] \in Enter \cup {"gap"} \cup Loading ~> pc[s] \in {"serving", "ended", "gone"}

(* A launcher that starts to clean up finishes, whatever the server does. *)
CleanupTerminates ==
    \A s \in Sessions : pc[s] \in Exiting \cup {"final"} ~> pc[s] = "gone"

(* Neither entering nor leaving a session lasts for ever. *)
SessionEnds == LaunchSettles /\ CleanupTerminates

=============================================================================
