------------------------- MODULE OwnedServerProofs -------------------------
(***************************************************************************)
(* TLAPS proofs of the safety properties of OwnedServer, for any number of *)
(* launchers, programs, pids, ports and commands, on both platforms.       *)
(***************************************************************************)
EXTENDS OwnedServer, TLAPS

(* The initial state has the right types. *)
LEMMA TypeInit == Init => TypeOK
BY OwnedServerAssumption DEF Init, TypeOK, ProcState, SignalState, JobState, ReceiptState, Outcome, Answer, CtlLabel, Label, Before, Enter, Loading, Exiting

(* Every action keeps them. *)
LEMMA TypeStep == TypeOK /\ [Next]_vars => TypeOK'
<1> SUFFICES ASSUME TypeOK, [Next]_vars PROVE TypeOK'
  OBVIOUS
<1> USE OwnedServerAssumption DEF Windows, TypeOK, ProcState, SignalState, JobState, ReceiptState, Outcome, Answer, CtlLabel, Label, Before, Enter, Loading, Exiting
<1>1. ASSUME OsStep
     PROVE  TypeOK'
  BY <1>1 DEF OsStep, ForeignStart, Bind, Quit, KillTakes, Reap, Die, FreePid,
     Holders, Held, sesVars, docVars, ctlVars
<1>2. ASSUME NEW s \in Sessions, EnterStep(s)
     PROVE  TypeOK'
  BY <1>2, SMTT(60) DEF EnterStep, ProbePort, VerifyProfile, OpenLog, SpawnFails, Spawn,
     Assign, Resume, RecordLaunch, EnterHealth, HealthTurn, CheckOwner,
     ReadProps, Goto, End, Poll, FreePid, BornAs, OwnsPort, Holders, Held,
     osVars, docVars, ctlVars
<1>3. ASSUME NEW s \in Sessions, ExitStep(s)
     PROVE  TypeOK'
  BY <1>3 DEF ExitStep, CloseJob, SignalChild, Wait10, Wait5, WriteReceipt,
     LauncherExit, Goto, End, Poll, Deliver, ReleaseHandles, JobMembers,
     Signalled, Holders, Held, docVars, ctlVars
<1>4. ASSUME NEW s \in Sessions,
            EndBody(s) \/ Crash(s) \/ Interrupt(s) \/ HealthExpires(s)
            \/ BudgetExpires(s)
     PROVE  TypeOK'
  BY <1>4 DEF EndBody, Crash, Interrupt, HealthExpires, BudgetExpires, Goto,
     End, Poll, Deliver, ReleaseHandles, UnwindTo, JobMembers, osVars,
     docVars, ctlVars
<1>5. ASSUME NEW c \in Controllers, ControlStep(c)
     PROVE  TypeOK'
  BY <1>5 DEF ControlStep, ReadState, OpenTarget, VerifyTarget, ReportRunning,
     StopTarget, AwaitTarget, CloseTarget, Conclude, Deliver, FreePid,
     IdentityRead, Holders, Held, osVars, sesVars, docVars
<1>6. CASE UNCHANGED vars
  BY <1>6 DEF vars, osVars, sesVars, docVars, ctlVars
<1>. QED
  BY <1>1, <1>2, <1>3, <1>4, <1>5, <1>6 DEF Next

(* Every reachable state of OwnedServer is well typed. *)
THEOREM TypeCorrect == Spec => []TypeOK
<1>1. Init => TypeOK
  BY TypeInit
<1>2. TypeOK /\ [Next]_vars => TypeOK'
  BY TypeStep
<1>3. QED
  BY <1>1, <1>2, PTL DEF Spec

-----------------------------------------------------------------------------
(***************************************************************************)
(* What a step can do to a process: it is born once, keeps the pid it was  *)
(* born with, never comes back to life or regains its pid, and a kill that *)
(* was delivered stays delivered.                                          *)
(***************************************************************************)
Ages(i) ==
    /\ pst[i] # "unborn" => pst'[i] # "unborn" /\ ppid'[i] = ppid[i]
    /\ pst[i] \in {"dead", "reaped"} => pst'[i] \in {"dead", "reaped"}
    /\ pst[i] = "reaped" => pst'[i] = "reaped"
    /\ sig[i] = "kill" => sig'[i] = "kill"

LEMMA ProcessesAge ==
  ASSUME TypeOK, [Next]_vars
  PROVE  \A i \in Procs : Ages(i)
<1> SUFFICES ASSUME NEW x \in Procs PROVE Ages(x)
  OBVIOUS
<1> USE OwnedServerAssumption DEF Windows, TypeOK, Ages, ProcState, SignalState, JobState, ReceiptState, Outcome, Answer, CtlLabel, Label, Before, Enter, Loading, Exiting
<1>1. ASSUME OsStep
     PROVE  Ages(x)
  BY <1>1 DEF OsStep, ForeignStart, Bind, Quit, KillTakes, Reap, Die, FreePid,
     Holders, Held, Alive, sesVars, docVars, ctlVars
<1>2. ASSUME NEW s \in Sessions, EnterStep(s)
     PROVE  Ages(x)
  BY <1>2 DEF EnterStep, ProbePort, VerifyProfile, OpenLog, SpawnFails, Spawn,
     Assign, Resume, RecordLaunch, EnterHealth, HealthTurn, CheckOwner,
     ReadProps, Goto, End, Poll, FreePid, BornAs, OwnsPort, Holders, Held,
     Alive, osVars, docVars, ctlVars
<1>3. ASSUME NEW s \in Sessions, ExitStep(s)
     PROVE  Ages(x)
  BY <1>3 DEF ExitStep, CloseJob, SignalChild, Wait10, Wait5, WriteReceipt,
     LauncherExit, Goto, End, Poll, Deliver, ReleaseHandles, JobMembers,
     Signalled, Holders, Held, Alive, docVars, ctlVars
<1>4. ASSUME NEW s \in Sessions,
            EndBody(s) \/ Crash(s) \/ Interrupt(s) \/ HealthExpires(s)
            \/ BudgetExpires(s)
     PROVE  Ages(x)
  BY <1>4 DEF EndBody, Crash, Interrupt, HealthExpires, BudgetExpires, Goto,
     End, Poll, Deliver, ReleaseHandles, UnwindTo, JobMembers, Alive, osVars,
     docVars, ctlVars
<1>5. ASSUME NEW c \in Controllers, ControlStep(c)
     PROVE  Ages(x)
  BY <1>5 DEF ControlStep, ReadState, OpenTarget, VerifyTarget, ReportRunning,
     StopTarget, AwaitTarget, CloseTarget, Conclude, Deliver, FreePid,
     IdentityRead, Holders, Held, Alive, osVars, sesVars, docVars
<1>6. CASE UNCHANGED vars
  BY <1>6 DEF vars, osVars, sesVars, docVars, ctlVars
<1>. QED
  BY <1>1, <1>2, <1>3, <1>4, <1>5, <1>6 DEF Next


-----------------------------------------------------------------------------
(* The inductive invariant. *)

(* No two processes in the table share a pid. *)
PidsDistinct ==
    \A i, j \in Procs : Held(i) /\ Held(j) /\ ppid[i] = ppid[j] => i = j

(* A Popen object, a file or a command only ever names a process that was born. *)
NamesAreBorn ==
    /\ \A s \in Sessions :
         /\ child[s] \in Procs => pst[child[s]] # "unborn"
         /\ launch[s] \in Procs => pst[launch[s]] # "unborn"
         /\ saved[s] \in Procs => pst[saved[s]] # "unborn"
    /\ \A c \in Controllers : target[c] \in Procs => pst[target[c]] # "unborn"

(* A server has one launcher; there is none before Popen; poll() saw it dead. *)
Parenthood ==
    /\ \A s, t \in Sessions : child[s] \in Procs /\ child[s] = child[t] => s = t
    /\ \A s \in Sessions :
         /\ pc[s] \in Before \cup {"spawn"} => child[s] = NoProc
         /\ s \in polled => child[s] \in Procs /\ ~Alive(child[s])
         /\ receipt[s] # "none" => child[s] \in Procs /\ pc[s] \in {"ended", "gone"}

(* From the ownership check on, a live server is its port's listener. *)
PortHeld ==
    \A s \in Sessions :
        pc[s] \in {"props", "serving"} /\ Alive(child[s]) => OwnsPort(s)

(* On Windows a server that runs is in an open kill-on-close job, or killed. *)
JobCustody ==
    Windows => \A s \in Sessions :
        /\ pc[s] = "assign" => job[s] = "open"
        /\ pc[s] = "resume" => job[s] = "open" /\ s \in assigned
        /\ pc[s] = "gone" => job[s] # "open"
        /\ child[s] \in Procs /\ pst[child[s]] = "running" =>
             sig[child[s]] = "kill" \/ (job[s] = "open" /\ s \in assigned)

(* The process a command is about to signal is the one its file names. *)
HandleIsTarget ==
    \A c \in Controllers :
        /\ cpc[c] \in {"act", "wait"} => handle[c] = target[c]
        /\ cpc[c] = "verify" => handle[c] = target[c] \/ pst[target[c]] = "reaped"

(* On Windows a command that reports STOPPED saw the saved process dead. *)
StoppedIsDead ==
    Windows => \A c \in Controllers :
        answer[c] = "stopped" => cpc[c] = "done" /\ target[c] \in Procs /\ ~Alive(target[c])

IInv ==
    /\ TypeOK
    /\ PidsDistinct
    /\ NamesAreBorn
    /\ Parenthood
    /\ PortHeld
    /\ JobCustody
    /\ HandleIsTarget
    /\ StoppedIsDead
    /\ ReceiptIsTrue

LEMMA InvInit == Init => IInv
<1> SUFFICES ASSUME Init PROVE IInv
  OBVIOUS
<1>1. TypeOK
  BY TypeInit
<1>2. QED
  BY <1>1, OwnedServerAssumption DEF Init, IInv, PidsDistinct, NamesAreBorn, Parenthood, PortHeld,
     JobCustody, HandleIsTarget, StoppedIsDead, ReceiptIsTrue, Held, Alive, Before

(* Pids are handed out only when free and freed only at the end. *)
LEMMA PidsStep ==
  ASSUME IInv, [Next]_vars
  PROVE  PidsDistinct'
<1>a. TypeOK /\ TypeOK' /\ \A i \in Procs : Ages(i)
  BY TypeStep, ProcessesAge DEF IInv
<1> USE <1>a, OwnedServerAssumption DEF Windows, TypeOK, Ages, IInv, PidsDistinct, Held
<1>1. ASSUME OsStep
     PROVE  PidsDistinct'
  BY <1>1 DEF OsStep, ForeignStart, Bind, Quit, KillTakes, Reap, Die, FreePid,
     Holders, Held, Alive, sesVars, docVars, ctlVars
<1>2. ASSUME NEW s \in Sessions, EnterStep(s)
     PROVE  PidsDistinct'
  BY <1>2 DEF EnterStep, ProbePort, VerifyProfile, OpenLog, SpawnFails, Spawn,
     Assign, Resume, RecordLaunch, EnterHealth, HealthTurn, CheckOwner,
     ReadProps, Goto, End, Poll, FreePid, BornAs, OwnsPort, Holders, Held,
     Alive, osVars, docVars, ctlVars
<1>3. ASSUME NEW s \in Sessions, ExitStep(s)
     PROVE  PidsDistinct'
  BY <1>3 DEF ExitStep, CloseJob, SignalChild, Wait10, Wait5, WriteReceipt,
     LauncherExit, Goto, End, Poll, Deliver, ReleaseHandles, JobMembers,
     Signalled, Holders, Held, Alive, docVars, ctlVars
<1>4. ASSUME NEW s \in Sessions,
            EndBody(s) \/ Crash(s) \/ Interrupt(s) \/ HealthExpires(s)
            \/ BudgetExpires(s)
     PROVE  PidsDistinct'
  BY <1>4 DEF EndBody, Crash, Interrupt, HealthExpires, BudgetExpires, Goto,
     End, Poll, Deliver, ReleaseHandles, UnwindTo, JobMembers, Alive, osVars,
     docVars, ctlVars
<1>5. ASSUME NEW c \in Controllers, ControlStep(c)
     PROVE  PidsDistinct'
  BY <1>5 DEF ControlStep, ReadState, OpenTarget, VerifyTarget, ReportRunning,
     StopTarget, AwaitTarget, CloseTarget, Conclude, Deliver, FreePid,
     IdentityRead, Holders, Held, Alive, osVars, sesVars, docVars
<1>6. CASE UNCHANGED vars
  BY <1>6 DEF vars, osVars, sesVars, docVars, ctlVars
<1>. QED
  BY <1>1, <1>2, <1>3, <1>4, <1>5, <1>6 DEF Next

(* Names are taken from living processes. *)
LEMMA NamesStep ==
  ASSUME IInv, [Next]_vars
  PROVE  NamesAreBorn'
<1>a. TypeOK /\ TypeOK' /\ \A i \in Procs : Ages(i)
  BY TypeStep, ProcessesAge DEF IInv
<1> USE <1>a, OwnedServerAssumption DEF Windows, TypeOK, Ages, IInv, NamesAreBorn
<1>1. ASSUME OsStep
     PROVE  NamesAreBorn'
  BY <1>1 DEF OsStep, ForeignStart, Bind, Quit, KillTakes, Reap, Die, FreePid,
     Holders, Held, Alive, sesVars, docVars, ctlVars
<1>2. ASSUME NEW s \in Sessions, EnterStep(s)
     PROVE  NamesAreBorn'
  BY <1>2 DEF EnterStep, ProbePort, VerifyProfile, OpenLog, SpawnFails, Spawn,
     Assign, Resume, RecordLaunch, EnterHealth, HealthTurn, CheckOwner,
     ReadProps, Goto, End, Poll, FreePid, BornAs, OwnsPort, Holders, Held,
     Alive, osVars, docVars, ctlVars
<1>3. ASSUME NEW s \in Sessions, ExitStep(s)
     PROVE  NamesAreBorn'
  BY <1>3 DEF ExitStep, CloseJob, SignalChild, Wait10, Wait5, WriteReceipt,
     LauncherExit, Goto, End, Poll, Deliver, ReleaseHandles, JobMembers,
     Signalled, Holders, Held, Alive, docVars, ctlVars
<1>4. ASSUME NEW s \in Sessions,
            EndBody(s) \/ Crash(s) \/ Interrupt(s) \/ HealthExpires(s)
            \/ BudgetExpires(s)
     PROVE  NamesAreBorn'
  BY <1>4 DEF EndBody, Crash, Interrupt, HealthExpires, BudgetExpires, Goto,
     End, Poll, Deliver, ReleaseHandles, UnwindTo, JobMembers, Alive, osVars,
     docVars, ctlVars
<1>5. ASSUME NEW c \in Controllers, ControlStep(c)
     PROVE  NamesAreBorn'
  BY <1>5 DEF ControlStep, ReadState, OpenTarget, VerifyTarget, ReportRunning,
     StopTarget, AwaitTarget, CloseTarget, Conclude, Deliver, FreePid,
     IdentityRead, Holders, Held, Alive, osVars, sesVars, docVars
<1>6. CASE UNCHANGED vars
  BY <1>6 DEF vars, osVars, sesVars, docVars, ctlVars
<1>. QED
  BY <1>1, <1>2, <1>3, <1>4, <1>5, <1>6 DEF Next

(* Popen is called once, and poll() answers for the dead. *)
LEMMA ParentStep ==
  ASSUME IInv, [Next]_vars
  PROVE  Parenthood'
<1>a. TypeOK /\ TypeOK' /\ \A i \in Procs : Ages(i)
  BY TypeStep, ProcessesAge DEF IInv
<1> USE <1>a, OwnedServerAssumption DEF Windows, TypeOK, Ages, IInv, Parenthood, NamesAreBorn, Alive, Label, Before, Enter, Loading, Exiting
<1>1. ASSUME OsStep
     PROVE  Parenthood'
  BY <1>1 DEF OsStep, ForeignStart, Bind, Quit, KillTakes, Reap, Die, FreePid,
     Holders, Held, Alive, sesVars, docVars, ctlVars
<1>2. ASSUME NEW s \in Sessions, EnterStep(s)
     PROVE  Parenthood'
  BY <1>2, SMTT(60) DEF EnterStep, ProbePort, VerifyProfile, OpenLog, SpawnFails, Spawn,
     Assign, Resume, RecordLaunch, EnterHealth, HealthTurn, CheckOwner,
     ReadProps, Goto, End, Poll, FreePid, BornAs, OwnsPort, Holders, Held,
     Alive, osVars, docVars, ctlVars
<1>3. ASSUME NEW s \in Sessions, ExitStep(s)
     PROVE  Parenthood'
  BY <1>3, SMTT(60) DEF ExitStep, CloseJob, SignalChild, Wait10, Wait5, WriteReceipt,
     LauncherExit, Goto, End, Poll, Deliver, ReleaseHandles, JobMembers,
     Signalled, Holders, Held, Alive, docVars, ctlVars
<1>4. ASSUME NEW s \in Sessions,
            EndBody(s) \/ Crash(s) \/ Interrupt(s) \/ HealthExpires(s)
            \/ BudgetExpires(s)
     PROVE  Parenthood'
  BY <1>4 DEF EndBody, Crash, Interrupt, HealthExpires, BudgetExpires, Goto,
     End, Poll, Deliver, ReleaseHandles, UnwindTo, JobMembers, Alive, osVars,
     docVars, ctlVars
<1>5. ASSUME NEW c \in Controllers, ControlStep(c)
     PROVE  Parenthood'
  BY <1>5 DEF ControlStep, ReadState, OpenTarget, VerifyTarget, ReportRunning,
     StopTarget, AwaitTarget, CloseTarget, Conclude, Deliver, FreePid,
     IdentityRead, Holders, Held, Alive, osVars, sesVars, docVars
<1>6. CASE UNCHANGED vars
  BY <1>6 DEF vars, osVars, sesVars, docVars, ctlVars
<1>. QED
  BY <1>1, <1>2, <1>3, <1>4, <1>5, <1>6 DEF Next

(* A listener gives up its port only by dying. *)
LEMMA PortStep ==
  ASSUME IInv, [Next]_vars
  PROVE  PortHeld'
<1>a. TypeOK /\ TypeOK' /\ \A i \in Procs : Ages(i)
  BY TypeStep, ProcessesAge DEF IInv
<1> USE <1>a, OwnedServerAssumption DEF Windows, TypeOK, Ages, IInv, PortHeld, NamesAreBorn, Parenthood, Alive, OwnsPort, Label, Before, Enter, Loading, Exiting
<1>1. ASSUME OsStep
     PROVE  PortHeld'
  BY <1>1 DEF OsStep, ForeignStart, Bind, Quit, KillTakes, Reap, Die, FreePid,
     Holders, Held, Alive, sesVars, docVars, ctlVars
<1>2. ASSUME NEW s \in Sessions, EnterStep(s)
     PROVE  PortHeld'
  BY <1>2, SMTT(60) DEF EnterStep, ProbePort, VerifyProfile, OpenLog, SpawnFails, Spawn,
     Assign, Resume, RecordLaunch, EnterHealth, HealthTurn, CheckOwner,
     ReadProps, Goto, End, Poll, FreePid, BornAs, OwnsPort, Holders, Held,
     Alive, osVars, docVars, ctlVars
<1>3. ASSUME NEW s \in Sessions, ExitStep(s)
     PROVE  PortHeld'
  BY <1>3 DEF ExitStep, CloseJob, SignalChild, Wait10, Wait5, WriteReceipt,
     LauncherExit, Goto, End, Poll, Deliver, ReleaseHandles, JobMembers,
     Signalled, Holders, Held, Alive, docVars, ctlVars
<1>4. ASSUME NEW s \in Sessions,
            EndBody(s) \/ Crash(s) \/ Interrupt(s) \/ HealthExpires(s)
            \/ BudgetExpires(s)
     PROVE  PortHeld'
  BY <1>4 DEF EndBody, Crash, Interrupt, HealthExpires, BudgetExpires, Goto,
     End, Poll, Deliver, ReleaseHandles, UnwindTo, JobMembers, Alive, osVars,
     docVars, ctlVars
<1>5. ASSUME NEW c \in Controllers, ControlStep(c)
     PROVE  PortHeld'
  BY <1>5, SMTT(60) DEF ControlStep, ReadState, OpenTarget, VerifyTarget, ReportRunning,
     StopTarget, AwaitTarget, CloseTarget, Conclude, Deliver, FreePid,
     IdentityRead, Holders, Held, Alive, osVars, sesVars, docVars
<1>6. CASE UNCHANGED vars
  BY <1>6 DEF vars, osVars, sesVars, docVars, ctlVars
<1>. QED
  BY <1>1, <1>2, <1>3, <1>4, <1>5, <1>6 DEF Next

(* The job exists before the server runs and closes with a kill. *)
LEMMA JobStep ==
  ASSUME IInv, [Next]_vars
  PROVE  JobCustody'
<1>a. TypeOK /\ TypeOK' /\ \A i \in Procs : Ages(i)
  BY TypeStep, ProcessesAge DEF IInv
<1> USE <1>a, OwnedServerAssumption DEF Windows, TypeOK, Ages, IInv, JobCustody, NamesAreBorn, Parenthood, Alive, Label, Before, Enter, Loading, Exiting
<1>1. ASSUME OsStep
     PROVE  JobCustody'
  BY <1>1 DEF OsStep, ForeignStart, Bind, Quit, KillTakes, Reap, Die, FreePid,
     Holders, Held, Alive, sesVars, docVars, ctlVars
<1>2. ASSUME NEW s \in Sessions, EnterStep(s)
     PROVE  JobCustody'
  BY <1>2, SMTT(60) DEF EnterStep, ProbePort, VerifyProfile, OpenLog, SpawnFails, Spawn,
     Assign, Resume, RecordLaunch, EnterHealth, HealthTurn, CheckOwner,
     ReadProps, Goto, End, Poll, FreePid, BornAs, OwnsPort, Holders, Held,
     Alive, osVars, docVars, ctlVars
<1>3. ASSUME NEW s \in Sessions, ExitStep(s)
     PROVE  JobCustody'
  BY <1>3, SMTT(60) DEF ExitStep, CloseJob, SignalChild, Wait10, Wait5, WriteReceipt,
     LauncherExit, Goto, End, Poll, Deliver, ReleaseHandles, JobMembers,
     Signalled, Holders, Held, Alive, docVars, ctlVars
<1>4. ASSUME NEW s \in Sessions,
            EndBody(s) \/ Crash(s) \/ Interrupt(s) \/ HealthExpires(s)
            \/ BudgetExpires(s)
     PROVE  JobCustody'
  BY <1>4 DEF EndBody, Crash, Interrupt, HealthExpires, BudgetExpires, Goto,
     End, Poll, Deliver, ReleaseHandles, UnwindTo, JobMembers, Alive, osVars,
     docVars, ctlVars
<1>5. ASSUME NEW c \in Controllers, ControlStep(c)
     PROVE  JobCustody'
  BY <1>5, SMTT(60) DEF ControlStep, ReadState, OpenTarget, VerifyTarget, ReportRunning,
     StopTarget, AwaitTarget, CloseTarget, Conclude, Deliver, FreePid,
     IdentityRead, Holders, Held, Alive, osVars, sesVars, docVars
<1>6. CASE UNCHANGED vars
  BY <1>6 DEF vars, osVars, sesVars, docVars, ctlVars
<1>. QED
  BY <1>1, <1>2, <1>3, <1>4, <1>5, <1>6 DEF Next

(* Between opening and reading the identity the saved process cannot regain its pid. *)
LEMMA HandleStep ==
  ASSUME IInv, [Next]_vars
  PROVE  HandleIsTarget'
<1>a. TypeOK /\ TypeOK' /\ \A i \in Procs : Ages(i)
  BY TypeStep, ProcessesAge DEF IInv
<1> USE <1>a, OwnedServerAssumption DEF Windows, TypeOK, Ages, IInv, HandleIsTarget, NamesAreBorn, PidsDistinct, Held, Alive
<1>1. ASSUME OsStep
     PROVE  HandleIsTarget'
  BY <1>1 DEF OsStep, ForeignStart, Bind, Quit, KillTakes, Reap, Die, FreePid,
     Holders, Held, Alive, sesVars, docVars, ctlVars
<1>2. ASSUME NEW s \in Sessions, EnterStep(s)
     PROVE  HandleIsTarget'
  BY <1>2, SMTT(60) DEF EnterStep, ProbePort, VerifyProfile, OpenLog, SpawnFails, Spawn,
     Assign, Resume, RecordLaunch, EnterHealth, HealthTurn, CheckOwner,
     ReadProps, Goto, End, Poll, FreePid, BornAs, OwnsPort, Holders, Held,
     Alive, osVars, docVars, ctlVars
<1>3. ASSUME NEW s \in Sessions, ExitStep(s)
     PROVE  HandleIsTarget'
  BY <1>3, SMTT(60) DEF ExitStep, CloseJob, SignalChild, Wait10, Wait5, WriteReceipt,
     LauncherExit, Goto, End, Poll, Deliver, ReleaseHandles, JobMembers,
     Signalled, Holders, Held, Alive, docVars, ctlVars
<1>4. ASSUME NEW s \in Sessions,
            EndBody(s) \/ Crash(s) \/ Interrupt(s) \/ HealthExpires(s)
            \/ BudgetExpires(s)
     PROVE  HandleIsTarget'
  BY <1>4 DEF EndBody, Crash, Interrupt, HealthExpires, BudgetExpires, Goto,
     End, Poll, Deliver, ReleaseHandles, UnwindTo, JobMembers, Alive, osVars,
     docVars, ctlVars
<1>5. ASSUME NEW c \in Controllers, OpenTarget(c)
     PROVE  HandleIsTarget'
  <2>1. CASE FreePid(ppid[target[c]])
    BY <2>1, <1>5 DEF OpenTarget, Conclude, FreePid, Holders, osVars, sesVars, docVars
  <2>2. ASSUME NEW h \in Holders(ppid[target[c]]),
               handle' = [handle EXCEPT ![c] = h],
               cpc' = [cpc EXCEPT ![c] = "verify"]
        PROVE  HandleIsTarget'
    <3>1. target[c] \in Procs /\ pst[target[c]] # "unborn"
      BY <1>5 DEF OpenTarget
    <3>2. h \in Procs /\ Held(h) /\ ppid[h] = ppid[target[c]]
      BY DEF Holders
    <3>3. h = target[c] \/ pst[target[c]] = "reaped"
      BY <3>1, <3>2 DEF ProcState
    <3>. QED
      BY <1>5, <2>2, <3>3 DEF OpenTarget, osVars, sesVars, docVars
  <2>. QED
    BY <1>5, <2>1, <2>2 DEF OpenTarget, Conclude, osVars, sesVars, docVars
<1>6. ASSUME NEW c \in Controllers,
            (\E s \in Sessions : ReadState(c, s)) \/ VerifyTarget(c)
            \/ ReportRunning(c) \/ StopTarget(c) \/ AwaitTarget(c)
            \/ CloseTarget(c)
     PROVE  HandleIsTarget'
  BY <1>6 DEF ReadState, VerifyTarget, ReportRunning, StopTarget, AwaitTarget,
     CloseTarget, Conclude, Deliver, IdentityRead, Holders, Held, Alive,
     osVars, sesVars, docVars
<1>7. CASE UNCHANGED vars
  BY <1>7 DEF vars, osVars, sesVars, docVars, ctlVars
<1>. QED
  BY <1>1, <1>2, <1>3, <1>4, <1>5, <1>6, <1>7 DEF Next, ControlStep

(* The receipt is written from poll() on every path that is not a cancellation or a crash. *)
LEMMA ReceiptStep ==
  ASSUME IInv, [Next]_vars
  PROVE  ReceiptIsTrue'
<1>a. TypeOK /\ TypeOK' /\ \A i \in Procs : Ages(i)
  BY TypeStep, ProcessesAge DEF IInv
<1> USE <1>a, OwnedServerAssumption DEF Windows, TypeOK, Ages, IInv, ReceiptIsTrue, NamesAreBorn, Parenthood, Alive, Label, Before, Enter, Loading, Exiting
<1>1. ASSUME OsStep
     PROVE  ReceiptIsTrue'
  BY <1>1 DEF OsStep, ForeignStart, Bind, Quit, KillTakes, Reap, Die, FreePid,
     Holders, Held, Alive, sesVars, docVars, ctlVars
<1>2. ASSUME NEW s \in Sessions, EnterStep(s)
     PROVE  ReceiptIsTrue'
  BY <1>2 DEF EnterStep, ProbePort, VerifyProfile, OpenLog, SpawnFails, Spawn,
     Assign, Resume, RecordLaunch, EnterHealth, HealthTurn, CheckOwner,
     ReadProps, Goto, End, Poll, FreePid, BornAs, OwnsPort, Holders, Held,
     Alive, osVars, docVars, ctlVars
<1>3. ASSUME NEW s \in Sessions, ExitStep(s)
     PROVE  ReceiptIsTrue'
  BY <1>3 DEF ExitStep, CloseJob, SignalChild, Wait10, Wait5, WriteReceipt,
     LauncherExit, Goto, End, Poll, Deliver, ReleaseHandles, JobMembers,
     Signalled, Holders, Held, Alive, docVars, ctlVars
<1>4. ASSUME NEW s \in Sessions,
            EndBody(s) \/ Crash(s) \/ Interrupt(s) \/ HealthExpires(s)
            \/ BudgetExpires(s)
     PROVE  ReceiptIsTrue'
  BY <1>4 DEF EndBody, Crash, Interrupt, HealthExpires, BudgetExpires, Goto,
     End, Poll, Deliver, ReleaseHandles, UnwindTo, JobMembers, Alive, osVars,
     docVars, ctlVars
<1>5. ASSUME NEW c \in Controllers, ControlStep(c)
     PROVE  ReceiptIsTrue'
  BY <1>5 DEF ControlStep, ReadState, OpenTarget, VerifyTarget, ReportRunning,
     StopTarget, AwaitTarget, CloseTarget, Conclude, Deliver, FreePid,
     IdentityRead, Holders, Held, Alive, osVars, sesVars, docVars
<1>6. CASE UNCHANGED vars
  BY <1>6 DEF vars, osVars, sesVars, docVars, ctlVars
<1>. QED
  BY <1>1, <1>2, <1>3, <1>4, <1>5, <1>6 DEF Next

(* STOPPED is answered for a free pid, a dead process or one that was waited for. *)
LEMMA StoppedStep ==
  ASSUME IInv, [Next]_vars
  PROVE  StoppedIsDead'
<1>a. TypeOK /\ TypeOK' /\ \A i \in Procs : Ages(i)
  BY TypeStep, ProcessesAge DEF IInv
<1> USE <1>a, OwnedServerAssumption DEF Windows, TypeOK, Ages, IInv, StoppedIsDead, NamesAreBorn, HandleIsTarget, Held, Alive
<1>1. ASSUME OsStep
     PROVE  StoppedIsDead'
  BY <1>1 DEF OsStep, ForeignStart, Bind, Quit, KillTakes, Reap, Die, FreePid,
     Holders, Held, Alive, sesVars, docVars, ctlVars
<1>2. ASSUME NEW s \in Sessions, EnterStep(s)
     PROVE  StoppedIsDead'
  BY <1>2 DEF EnterStep, ProbePort, VerifyProfile, OpenLog, SpawnFails, Spawn,
     Assign, Resume, RecordLaunch, EnterHealth, HealthTurn, CheckOwner,
     ReadProps, Goto, End, Poll, FreePid, BornAs, OwnsPort, Holders, Held,
     Alive, osVars, docVars, ctlVars
<1>3. ASSUME NEW s \in Sessions, ExitStep(s)
     PROVE  StoppedIsDead'
  BY <1>3 DEF ExitStep, CloseJob, SignalChild, Wait10, Wait5, WriteReceipt,
     LauncherExit, Goto, End, Poll, Deliver, ReleaseHandles, JobMembers,
     Signalled, Holders, Held, Alive, docVars, ctlVars
<1>4. ASSUME NEW s \in Sessions,
            EndBody(s) \/ Crash(s) \/ Interrupt(s) \/ HealthExpires(s)
            \/ BudgetExpires(s)
     PROVE  StoppedIsDead'
  BY <1>4 DEF EndBody, Crash, Interrupt, HealthExpires, BudgetExpires, Goto,
     End, Poll, Deliver, ReleaseHandles, UnwindTo, JobMembers, Alive, osVars,
     docVars, ctlVars
<1>5. ASSUME NEW c \in Controllers, ControlStep(c)
     PROVE  StoppedIsDead'
  BY <1>5 DEF ControlStep, ReadState, OpenTarget, VerifyTarget, ReportRunning,
     StopTarget, AwaitTarget, CloseTarget, Conclude, Deliver, FreePid,
     IdentityRead, Holders, Held, Alive, osVars, sesVars, docVars
<1>6. CASE UNCHANGED vars
  BY <1>6 DEF vars, osVars, sesVars, docVars, ctlVars
<1>. QED
  BY <1>1, <1>2, <1>3, <1>4, <1>5, <1>6 DEF Next

-----------------------------------------------------------------------------
(* IInv holds of every reachable state. *)
THEOREM InvCorrect == Spec => []IInv
<1>1. Init => IInv
  BY InvInit
<1>2. IInv /\ [Next]_vars => IInv'
  <2> SUFFICES ASSUME IInv, [Next]_vars PROVE IInv'
    OBVIOUS
  <2>1. TypeOK'
    BY TypeStep DEF IInv
  <2>2. PidsDistinct' /\ NamesAreBorn' /\ Parenthood'
    BY PidsStep, NamesStep, ParentStep
  <2>3. PortHeld' /\ JobCustody' /\ HandleIsTarget' /\ StoppedIsDead' /\ ReceiptIsTrue'
    BY PortStep, JobStep, HandleStep, StoppedStep, ReceiptStep
  <2>. QED
    BY <2>1, <2>2, <2>3 DEF IInv
<1>3. QED
  BY <1>1, <1>2, PTL DEF Spec

(***************************************************************************)
(* The port race: whoever binds the port between the probe and the server, *)
(* a session that its caller receives has its own server as the listener.  *)
(***************************************************************************)
THEOREM ReadyCorrect == Spec => []ReadyMeansOwnListener
<1>1. IInv => ReadyMeansOwnListener
  BY DEF IInv, PortHeld, ReadyMeansOwnListener
<1>2. QED
  BY <1>1, InvCorrect, PTL

(***************************************************************************)
(* Kill-on-close: on Windows a launcher that ended or was killed at any    *)
(* step leaves no running server that is not being killed.                 *)
(***************************************************************************)
THEOREM NoRunawayCorrect == Spec => []NoRunawayOnWindows
<1>1. IInv => NoRunawayOnWindows
  BY DEF IInv, JobCustody, NoRunawayOnWindows, TypeOK
<1>2. QED
  BY <1>1, InvCorrect, PTL

(* The cleanup receipt never claims that a live server is gone. *)
THEOREM ReceiptCorrect == Spec => []ReceiptIsTrue
<1>1. IInv => ReceiptIsTrue
  BY DEF IInv
<1>2. QED
  BY <1>1, InvCorrect, PTL

(* On Windows `local stop' answers STOPPED only of a server that is dead. *)
THEOREM StopReportCorrect == Spec => []StopWaitsOnWindows
<1>1. IInv => StopWaitsOnWindows
  BY DEF IInv, StoppedIsDead, StopReportIsTrue, StopWaitsOnWindows
<1>2. QED
  BY <1>1, InvCorrect, PTL

(***************************************************************************)
(* No launcher and no `stop' ever signals a process other than its own     *)
(* server, although both Linux paths reach it through a reusable pid.      *)
(***************************************************************************)
THEOREM CustodyCorrect == Spec => SignalsStayInCustody
<1>1. IInv /\ [Next]_vars => [SignalsAreOwned]_vars
  <2> SUFFICES ASSUME IInv, [Next]_vars, NEW x \in Procs, sig'[x] # sig[x]
               PROVE  MaySignal(x)
    BY DEF SignalsAreOwned
  <2> USE OwnedServerAssumption DEF Windows, TypeOK, IInv, MaySignal, OwnerOf
  <2>1. ASSUME OsStep
       PROVE  MaySignal(x)
    BY <2>1 DEF OsStep, ForeignStart, Bind, Quit, KillTakes, Reap, Die,
       FreePid, Holders, Held, Alive, sesVars, docVars, ctlVars, PidsDistinct,
       HandleIsTarget
  <2>2. ASSUME NEW s \in Sessions, EnterStep(s)
       PROVE  MaySignal(x)
    BY <2>2 DEF EnterStep, ProbePort, VerifyProfile, OpenLog, SpawnFails,
       Spawn, Assign, Resume, RecordLaunch, EnterHealth, HealthTurn,
       CheckOwner, ReadProps, Goto, End, Poll, FreePid, BornAs, OwnsPort,
       Holders, Held, Alive, osVars, docVars, ctlVars, PidsDistinct,
       HandleIsTarget
  <2>3. ASSUME NEW s \in Sessions, CloseJob(s)
       PROVE  MaySignal(x)
    BY <2>3 DEF CloseJob, Goto, Deliver, JobMembers, Alive, docVars, ctlVars,
       PidsDistinct, HandleIsTarget
  <2>4. ASSUME NEW s \in Sessions, SignalChild(s)
       PROVE  MaySignal(x)
    BY <2>4 DEF SignalChild, Goto, Poll, Deliver, Signalled, Holders, Held,
       Alive, docVars, ctlVars, PidsDistinct, HandleIsTarget
  <2>5. ASSUME NEW s \in Sessions, Wait10(s)
       PROVE  MaySignal(x)
    BY <2>5 DEF Wait10, Goto, Poll, Deliver, Signalled, Holders, Held, Alive,
       docVars, ctlVars, PidsDistinct, HandleIsTarget
  <2>6. ASSUME NEW s \in Sessions, LauncherExit(s)
       PROVE  MaySignal(x)
    BY <2>6 DEF LauncherExit, Goto, Deliver, ReleaseHandles, JobMembers,
       Alive, docVars, ctlVars, PidsDistinct, HandleIsTarget
  <2>7. ASSUME NEW s \in Sessions,
              Wait5(s) \/ WriteReceipt(s)
       PROVE  MaySignal(x)
    BY <2>7 DEF Wait5, WriteReceipt, Goto, End, Poll, Alive, docVars, ctlVars,
       PidsDistinct, HandleIsTarget
  <2>8. ASSUME NEW s \in Sessions, Crash(s)
       PROVE  MaySignal(x)
    BY <2>8 DEF Crash, Goto, End, Deliver, ReleaseHandles, JobMembers, Alive,
       docVars, ctlVars, PidsDistinct, HandleIsTarget
  <2>9. ASSUME NEW s \in Sessions,
              EndBody(s) \/ Interrupt(s) \/ HealthExpires(s)
              \/ BudgetExpires(s)
       PROVE  MaySignal(x)
    BY <2>9 DEF EndBody, Interrupt, HealthExpires, BudgetExpires, Goto, End,
       Poll, UnwindTo, osVars, docVars, ctlVars, PidsDistinct, HandleIsTarget
  <2>10. ASSUME NEW c \in Controllers, StopTarget(c)
       PROVE  MaySignal(x)
    BY <2>10 DEF StopTarget, Conclude, Deliver, Alive, sesVars, docVars,
       PidsDistinct, HandleIsTarget
  <2>11. ASSUME NEW c \in Controllers,
              (\E s \in Sessions : ReadState(c, s)) \/ OpenTarget(c)
              \/ VerifyTarget(c) \/ ReportRunning(c) \/ AwaitTarget(c)
              \/ CloseTarget(c)
       PROVE  MaySignal(x)
    BY <2>11 DEF ReadState, OpenTarget, VerifyTarget, ReportRunning,
       AwaitTarget, CloseTarget, Conclude, FreePid, IdentityRead, Holders,
       Held, Alive, osVars, sesVars, docVars, PidsDistinct, HandleIsTarget
  <2>12. CASE UNCHANGED vars
    BY <2>12 DEF vars, osVars, sesVars, docVars, ctlVars, PidsDistinct,
       HandleIsTarget
  <2>. QED
    BY <2>1, <2>2, <2>3, <2>4, <2>5, <2>6, <2>7, <2>8, <2>9, <2>10, <2>11,
       <2>12 DEF Next, ExitStep, ControlStep
<1>2. QED
  BY <1>1, InvCorrect, PTL DEF Spec, SignalsStayInCustody

=============================================================================
