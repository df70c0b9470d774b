----------------------------- MODULE CommandProofs -----------------------------
(***************************************************************************)
(* Proofs about the commands of MCComponents: the inductive invariants of  *)
(* a measured run, a streaming call, an installation and a compilation,    *)
(* for every value of their constants and any number of calls.             *)
(***************************************************************************)
EXTENDS Commands, SequenceTheorems, WellFoundedInduction, TLAPS

-----------------------------------------------------------------------------
(* One measured run *)


Serving   == {"activate", "lock1", "sample1", "tokenize", "complete", "lock2", "sample2"}
Attesting == {"attest", "append", "verify"}

-----------------------------------------------------------------------------
(* The inductive invariant *)

(* Nothing is started before the try block. *)
NothingYet == mpc \in {"prepare", "spawn"} => server = "none" /\ completed = "none" /\ spc = "off"

(* Once the child answered the health check it keeps the port while it lives. *)
ChildServes == mpc \in Serving => server # "none" /\ (server = "running" => listener = "child")

(* Another program answers only for a dead child. *)
ForeignMeansDead == completed = "foreign" => server = "dead"

(* Without lag, memory is seen only of a child that lives. *)
MemoryMeansAlive == ~lag /\ gpu = "allocated" => server = "running"

(* A run that is still clean completed its request and sampled the child afterwards. *)
CleanMeansSampled ==
    /\ mpc \in {"lock2", "sample2"} => completed # "none"
    /\ mpc \in Run!Closing \cup Attesting /\ runStatus = "measured" /\ ~raising =>
          completed # "none" /\ (~lag /\ ~errors => completed = "child")

(* ... has a monitor that is gone after the join, and a child that is gone after the wait. *)
CleanMeansStopped ==
    mpc \in {"terminate", "wait", "killwait", "settle"} \cup Attesting /\ runStatus = "measured" =>
        spc \in {"off", "exited"}
WaitedMeansGone  == mpc \in {"settle"} \cup Attesting => server # "running"
SettledMeansGone == settled => server = "dead" /\ gpu = "absent"

(* A record is written by a run that was clean when it looked. *)
RecordIsClean ==
    /\ mpc \in {"append", "verify"} => runStatus = "measured" /\ ~raising /\ samples /\ ~errors /\ settled
    /\ record # "none" =>
          /\ mpc \in {"verify", "done"}
          /\ spc \in {"off", "exited"} /\ samples /\ ~errors /\ settled
          /\ ~lag => completed = "child"
    /\ record = "verified" => ~forced /\ runResult = "measured" /\ mpc = "done"

ReturnIsLast ==
    /\ runResult # "none" <=> mpc = "done"
    /\ runResult \in Run!Status => server # "running"
    /\ runResult = "measured" => record = "verified"

RunInv ==
    /\ Run!TypeOK /\ NothingYet /\ ChildServes /\ ForeignMeansDead /\ MemoryMeansAlive
    /\ CleanMeansSampled /\ CleanMeansStopped /\ WaitedMeansGone /\ SettledMeansGone
    /\ RecordIsClean /\ ReturnIsLast

-----------------------------------------------------------------------------
LEMMA RunInit == ASSUME Run!Init PROVE RunInv
  BY DEF Run!Init, RunInv, Run!TypeOK, NothingYet, ChildServes, ForeignMeansDead, MemoryMeansAlive,
         CleanMeansSampled, CleanMeansStopped, WaitedMeansGone, SettledMeansGone, RecordIsClean,
         ReturnIsLast, Run!Label, Run!Trying, Run!Closing, Run!Status, Serving, Attesting

LEMMA RunStep == ASSUME RunInv, Run!Next \/ UNCHANGED runVars PROVE RunInv'
<1> USE DEF RunInv, Run!TypeOK, NothingYet, ChildServes, ForeignMeansDead, MemoryMeansAlive,
            CleanMeansSampled, CleanMeansStopped, WaitedMeansGone, SettledMeansGone, RecordIsClean,
            ReturnIsLast, Run!Label, Run!Trying, Run!Closing, Run!Status, Serving, Attesting,
            Run!envVars, Run!runVars, Run!sampVars, Run!monVars
<1>1. CASE Run!Load
  BY <1>1 DEF Run!Load
<1>2. CASE Run!Listen
  BY <1>2 DEF Run!Listen
<1>3. CASE Run!ForeignLeaves
  BY <1>3 DEF Run!ForeignLeaves
<1>4. CASE Run!ServerDies
  BY <1>4 DEF Run!ServerDies
<1>5. CASE Run!DeviceReleases
  BY <1>5 DEF Run!DeviceReleases
<1>6. CASE Run!MonitorAcquires
  BY <1>6 DEF Run!MonitorAcquires
<1>7. CASE Run!MonitorSamples
  <2>1. samples' \in BOOLEAN /\ errors' \in BOOLEAN
    BY <1>7, Zenon DEF Run!MonitorSamples, Run!Observe
  <2> QED
    BY <1>7, <2>1 DEF Run!MonitorSamples, Run!Observe
<1>8. CASE Run!MonitorExits
  BY <1>8 DEF Run!MonitorExits
<1>9. CASE Run!Prepare
  BY <1>9 DEF Run!Prepare
<1>10. CASE Run!Spawn
  BY <1>10 DEF Run!Spawn, Run!AnyFailure, Run!Fail, Run!Proceed
<1>11. CASE Run!HealthTurn
  BY <1>11 DEF Run!HealthTurn, Run!Fail, Run!Proceed
<1>12. CASE Run!Activate
  BY <1>12 DEF Run!Activate, Run!Proceed
<1>13. CASE Run!MainAcquires
  BY <1>13 DEF Run!MainAcquires, Run!Proceed
<1>14. CASE Run!MainSamples
  <2>1. samples' \in BOOLEAN /\ errors' \in BOOLEAN
    BY <1>14, Zenon DEF Run!MainSamples, Run!Observe, Run!Proceed
  <2> QED
    BY <1>14, <2>1 DEF Run!MainSamples, Run!Observe, Run!Proceed
<1>15. CASE Run!Tokenize
  BY <1>15 DEF Run!Tokenize, Run!AnyFailure, Run!Fail, Run!Proceed
<1>16. CASE Run!Complete
  BY <1>16 DEF Run!Complete, Run!AnyFailure, Run!Fail, Run!Proceed
<1>17. CASE Run!SetStop
  BY <1>17 DEF Run!SetStop, Run!Proceed
<1>18. CASE Run!Join
  BY <1>18 DEF Run!Join, Run!Proceed
<1>19. CASE Run!Terminate
  <2>1. terminated' \in BOOLEAN
    BY <1>19, Zenon DEF Run!Terminate, Run!Proceed
  <2> QED
    BY <1>19, <2>1 DEF Run!Terminate, Run!Proceed
<1>20. CASE Run!Wait
  <2>1. forced' \in BOOLEAN
    BY <1>20, Zenon DEF Run!Wait, Run!Proceed
  <2> QED
    BY <1>20, <2>1 DEF Run!Wait, Run!Proceed
<1>21. CASE Run!KillWait
  BY <1>21 DEF Run!KillWait, Run!Proceed
<1>22. CASE Run!Settle
  <2>1. settled' \in BOOLEAN
    BY <1>22, Zenon DEF Run!Settle, Run!Proceed
  <2> QED
    BY <1>22, <2>1 DEF Run!Settle, Run!Proceed
<1>23. CASE Run!Attest
  BY <1>23 DEF Run!Attest, Run!Proceed, Run!Return
<1>24. CASE Run!Append
  BY <1>24 DEF Run!Append, Run!Proceed, Run!Return
<1>25. CASE Run!Verify
  BY <1>25 DEF Run!Verify, Run!Return, Run!OwnedTermination, Run!Cleanup
<1>26. CASE Run!Interrupt
  <2>1. raising' \in BOOLEAN
    BY <1>26, Zenon DEF Run!Interrupt
  <2> QED
    BY <1>26, <2>1 DEF Run!Interrupt
<1>27. CASE UNCHANGED runVars
  BY <1>27 DEF runVars
<1> QED
  BY <1>1, <1>2, <1>3, <1>4, <1>5, <1>6, <1>7, <1>8, <1>9, <1>10, <1>11, <1>12, <1>13, <1>14, <1>15, <1>16, <1>17, <1>18, <1>19, <1>20, <1>21, <1>22, <1>23, <1>24, <1>25, <1>26, <1>27
     DEF Run!Next, Run!Environment, Run!Monitor, Run!Main

LEMMA RunInvIsTrue == RunInv => Run!RunIsTrue
<1> SUFFICES ASSUME RunInv PROVE Run!RunIsTrue
  OBVIOUS
<1>1. Run!EvidenceIsOwn
  BY DEF RunInv, RecordIsClean, Run!EvidenceIsOwn
<1>2. Run!EvidenceIsFinal
  BY DEF RunInv, RecordIsClean, SettledMeansGone, Run!EvidenceIsFinal
<1>3. Run!OutcomeMeansGone
  BY DEF RunInv, RecordIsClean, ReturnIsLast, Run!OutcomeMeansGone
<1> QED
  BY <1>1, <1>2, <1>3 DEF Run!RunIsTrue


-----------------------------------------------------------------------------
(* One streaming call *)


-----------------------------------------------------------------------------
(* The inductive invariant *)

(* A socket is shut, and a read cut, only after the event is set. *)
ShutMeansExpired == (sock = "shut" \/ cut # "no" \/ timer = "firing") => expired

(* Where a cut leads: between two lines to the verdict, anywhere else to the handler. *)
CutIsHandled ==
    /\ cut = "body" => pc \in {"verdict", "close", "done"} /\ result \in {"none", "timeout"}
    /\ cut \in {"headers", "line"} =>
          /\ pc \in {"except", "close", "done"}
          /\ result \in {"none", "error", "timeout"}
          /\ kind = "http" => result \in {"none", "timeout"}

(* A verdict of "returned" has seen the final event. *)
ReturnedIsFinal == result = "returned" => final /\ cut = "no"
FinalIsLast     == final <=> parts = Parts
ResultIsLast    == result # "none" <=> pc \in {"close", "done"}

StreamInv ==
    Stream!TypeOK /\ ShutMeansExpired /\ CutIsHandled /\ ReturnedIsFinal /\ FinalIsLast /\ ResultIsLast

LEMMA StreamInit == ASSUME Stream!StreamDeadlineAssumption, Stream!Init PROVE StreamInv
<1>1. final \in BOOLEAN /\ ~final /\ owned \in BOOLEAN /\ expired \in BOOLEAN
  BY Zenon DEF Stream!Init
<1>2. Stream!TypeOK
  BY <1>1 DEF Stream!Init, Stream!StreamDeadlineAssumption, Stream!TypeOK
<1>3. FinalIsLast
  BY <1>1 DEF Stream!Init, Stream!StreamDeadlineAssumption, FinalIsLast
<1> QED
  BY <1>2, <1>3 DEF Stream!Init, StreamInv, ShutMeansExpired, CutIsHandled, ReturnedIsFinal, ResultIsLast

LEMMA StreamStep == ASSUME Stream!StreamDeadlineAssumption, StreamInv, Stream!Next \/ UNCHANGED streamVars PROVE StreamInv'
<1> USE DEF Stream!StreamDeadlineAssumption, StreamInv, Stream!TypeOK, ShutMeansExpired, CutIsHandled,
            ReturnedIsFinal, FinalIsLast, ResultIsLast, Stream!Goto, Stream!Finish
<1>1. CASE Stream!Fire
  BY <1>1 DEF Stream!Fire
<1>2. CASE Stream!Shut
  BY <1>2 DEF Stream!Shut
<1>3. CASE Stream!Connect
  BY <1>3 DEF Stream!Connect
<1>4. CASE Stream!Own
  BY <1>4 DEF Stream!Own
<1>5. CASE Stream!Check
  BY <1>5 DEF Stream!Check
<1>6. CASE Stream!Headers
  BY <1>6 DEF Stream!Headers
<1>7. CASE Stream!Turn
  BY <1>7 DEF Stream!Turn
<1>8. CASE Stream!Part
  <2>1. parts' \in 0..Parts
    BY <1>8 DEF Stream!Part
  <2>2. final' \in BOOLEAN /\ (final' <=> parts' = Parts)
    BY <1>8, Zenon DEF Stream!Part
  <2> QED
    BY <1>8, <2>1, <2>2 DEF Stream!Part
<1>9. CASE Stream!Drip
  BY <1>9 DEF Stream!Drip
<1>10. CASE Stream!EndOfBody
  BY <1>10 DEF Stream!EndOfBody
<1>11. CASE Stream!Verdict
  BY <1>11 DEF Stream!Verdict
<1>12. CASE Stream!Except
  BY <1>12 DEF Stream!Except
<1>13. CASE Stream!Close
  BY <1>13 DEF Stream!Close
<1>14. CASE UNCHANGED streamVars
  BY <1>14 DEF streamVars
<1> QED
  BY <1>1, <1>2, <1>3, <1>4, <1>5, <1>6, <1>7, <1>8, <1>9, <1>10, <1>11, <1>12, <1>13, <1>14
     DEF Stream!Next, Stream!Timer, Stream!Caller, Stream!Reads

LEMMA StreamInvIsTrue == StreamInv => Stream!ResultIsTrue
  BY DEF StreamInv, Stream!TypeOK, CutIsHandled, ReturnedIsFinal, FinalIsLast, ResultIsLast,
         Stream!ResultIsTrue, Stream!ReturnedIsWhole, Stream!CutIsTimeout


-----------------------------------------------------------------------------
(* An installation *)


-----------------------------------------------------------------------------
(* The inductive invariant *)

(* Files are sequences of blocks, and a call counts in numbers. *)
FilesAreBlocks ==
    /\ part = None \/ (part \in Seq(BOOLEAN) /\ Len(part) <= Size)
    /\ archive = None \/ (archive \in Seq(BOOLEAN) /\ Len(archive) = Size)
    /\ where \in {"read", "check"} => part # None
    /\ where = "read" => sent = Len(part)
    /\ attempt \in Nat /\ sent \in 0..Size /\ began \in Nat
    /\ where \in {"idle", "look"} => attempt = 0

(* s is some first blocks of the requested archive. *)
Partial(s) == s \in Seq(BOOLEAN) /\ Len(s) <= Size /\ \A i \in 1..Len(s) : s[i]

(* A step past a check still has what was checked. *)
CheckedStays ==
    /\ where = "place" => part = Install!Whole
    /\ where \in {"stage", "extract"} => archive = Install!Whole
    /\ where = "extract" => installed = None /\ Partial(staged)

(* A call that met no fault, from a beginning of the archive, is still on its way. *)
CleanCall ==
    clean /\ where # "idle" =>
        /\ genuine /\ installed = None /\ archive \in {None, Install!Whole}
        /\ part = None \/ Partial(part)
        /\ where \in {"look", "request"} /\ attempt = 0 => began = Install!Offset
        /\ where = "read" => source
        /\ where = "check" => part = Install!Whole
        /\ began < Size => attempt = 0 /\ where # "again"

CleanAnswer == (clean /\ began < Size => answer # "raised") /\ (where # "idle" => answer = "none")

InstallInv ==
    FilesAreBlocks /\ CheckedStays /\ CleanCall /\ CleanAnswer /\ Install!InstalledIsVerified

-----------------------------------------------------------------------------
(* Sequences of blocks *)

LEMMA WholeIsPartial ==
  ASSUME Install!RuntimeInstallAssumption
  PROVE  Partial(Install!Whole) /\ Len(Install!Whole) = Size /\ \A i \in 1..Size : Install!Whole[i] = TRUE
  BY DEF Partial, Install!Whole, Install!RuntimeInstallAssumption

LEMMA PartialIsWhole ==
  ASSUME Install!RuntimeInstallAssumption, NEW s, Partial(s), Len(s) = Size
  PROVE  s = Install!Whole
<1>1. \A i \in 1..Len(s) : s[i] = Install!Whole[i]
  BY WholeIsPartial, ElementOfSeq DEF Partial
<1> QED
  BY <1>1, WholeIsPartial, SeqEqual DEF Partial

LEMMA PrefixIsPartial ==
  ASSUME Install!RuntimeInstallAssumption, NEW s \in Seq(BOOLEAN), Install!IsPrefix(s, Install!Whole)
  PROVE  Partial(s)
<1>1. Len(s) \in Nat /\ Len(s) <= Size /\ s = SubSeq(Install!Whole, 1, Len(s))
  BY WholeIsPartial, SubSeqFull DEF Install!IsPrefix
<1>2. \A i \in 1..Len(s) : s[i] = Install!Whole[i]
  BY <1>1, WholeIsPartial, SubSeqProperties, ElementOfSeq DEF Partial, Install!RuntimeInstallAssumption
<1> QED
  BY <1>1, <1>2, WholeIsPartial DEF Partial, Install!RuntimeInstallAssumption

LEMMA PartialGrows ==
  ASSUME Install!RuntimeInstallAssumption, NEW s, Partial(s), Len(s) < Size, NEW b, b = TRUE
  PROVE  Partial(Append(s, b))
  BY DEF Partial, Install!RuntimeInstallAssumption

LEMMA DamagedIsSeq ==
  ASSUME NEW s \in Seq(BOOLEAN), Len(s) > 0
  PROVE  [s EXCEPT ![1] = FALSE] \in Seq(BOOLEAN) /\ Len([s EXCEPT ![1] = FALSE]) = Len(s)
  BY ExceptSeq

(* A response appends to the file it resumes, or begins a new one. *)
LEMMA OpenedPart ==
  ASSUME Install!RuntimeInstallAssumption, part = None \/ (part \in Seq(BOOLEAN) /\ Len(part) <= Size),
         NEW from \in {0, Install!Offset}, Install!Open(from)
  PROVE  /\ part' = <<>> \/ (part # None /\ part' = part)
         /\ part' \in Seq(BOOLEAN) /\ from = Len(part') /\ from \in 0..Size
<1>1. CASE from = 0
  BY <1>1 DEF Install!Open, Install!RuntimeInstallAssumption
<1>2. CASE from # 0
  <2>1. part # None /\ part \in Seq(BOOLEAN) /\ from = Len(part) /\ from \in 0..Size
    BY <1>2, LenProperties DEF Install!Offset, Install!RuntimeInstallAssumption
  <2>2. part' = part
    BY <1>2, <2>1 DEF Install!Open
  <2> QED
    BY <2>1, <2>2
<1> QED
  BY <1>1, <1>2

-----------------------------------------------------------------------------
LEMMA InstallInit == ASSUME Install!RuntimeInstallAssumption, Install!Init PROVE InstallInv
  BY DEF Install!Init, Install!RuntimeInstallAssumption, InstallInv, FilesAreBlocks, CheckedStays, CleanCall,
         CleanAnswer, Install!InstalledIsVerified

LEMMA InstallStep ==
  ASSUME Install!RuntimeInstallAssumption, InstallInv, Install!Next \/ UNCHANGED installVars
  PROVE  InstallInv'
<1> USE DEF Install!RuntimeInstallAssumption, InstallInv, FilesAreBlocks, CheckedStays, CleanCall,
            CleanAnswer, Install!InstalledIsVerified, Install!diskFiles, Install!transfer, Install!history, Install!Goto, Install!Return, Install!Fault, Install!Offset
<1>1. CASE Install!Start
  <2>1. clean' => /\ genuine /\ installed = None
                  /\ archive \in {None, Install!Whole} /\ (part = None \/ Install!IsPrefix(part, Install!Whole))
    BY <1>1, Zenon DEF Install!Start
  <2>2. part # None /\ Install!IsPrefix(part, Install!Whole) => Partial(part)
    BY PrefixIsPartial
  <2> QED
    BY <1>1, <2>1, <2>2 DEF Install!Start, Partial
<1>2. CASE Install!Look
  BY <1>2, WholeIsPartial DEF Install!Look
<1>3. CASE Install!Again
  BY <1>3, WholeIsPartial DEF Install!Again
<1>4. CASE Install!Respond
  <2>1. CASE Install!Offset = Size /\ Install!Goto("again") /\ UNCHANGED <<part, Install!transfer>>
    <3>1. clean => began >= Size
      BY <1>4, <2>1 DEF Install!Respond
    <3> QED
      BY <1>4, <2>1, <3>1 DEF Install!Respond
  <2>2. ASSUME NEW from \in {0, Install!Offset} \ {Size},
               Install!Open(from), sent' = from, source' = genuine, Install!Goto("read"), UNCHANGED attempt
        PROVE  InstallInv'
    <3>1. /\ part' = <<>> \/ (part # None /\ part' = part)
          /\ part' \in Seq(BOOLEAN) /\ from = Len(part') /\ from \in 0..Size
      BY <2>2, OpenedPart
    <3>2. Partial(<<>>)
      BY DEF Partial
    <3>3. clean => Partial(part')
      BY <1>4, <3>1, <3>2 DEF Install!Respond, Partial
    <3> QED
      BY <1>4, <2>2, <3>1, <3>3 DEF Install!Respond, Partial
  <2> QED
    BY <1>4, <2>1, <2>2 DEF Install!Respond
<1>5. CASE Install!RequestFails
  BY <1>5, WholeIsPartial DEF Install!RequestFails
<1>6. CASE Install!Read
  <2>1. part' \in Seq(BOOLEAN) /\ Len(part') = Len(part) + 1 /\ sent' \in 0..Size
    BY <1>6 DEF Install!Read
  <2>2. ASSUME clean PROVE Partial(part)'
    <3>1. Partial(part) /\ sent = Len(part) /\ sent < Size /\ source
      BY <1>6, <2>2 DEF Install!Read, Partial
    <3>2. Partial(Append(part, source /\ sent = Len(part)))
      BY <3>1, PartialGrows
    <3>3. part' = Append(part, source /\ sent = Len(part))
      BY <1>6 DEF Install!Read
    <3> QED
      BY <3>2, <3>3 DEF Partial
  <2>3. FilesAreBlocks'
    <3>1. UNCHANGED <<archive, began, where, attempt>> /\ sent' = sent + 1 /\ sent = Len(part) /\ part # None
      BY <1>6 DEF Install!Read
    <3> QED
      BY <1>6, <2>1, <3>1
  <2>4. CheckedStays' /\ CleanCall' /\ CleanAnswer' /\ Install!InstalledIsVerified'
    BY <1>6, <2>1, <2>2 DEF Install!Read
  <2> QED
    BY <2>3, <2>4
<1>7. CASE Install!EndOfBody
  <2>1. ASSUME clean PROVE part = Install!Whole
    BY <1>7, <2>1, PartialIsWhole DEF Install!EndOfBody, Partial
  <2> QED
    BY <1>7, <2>1, WholeIsPartial DEF Install!EndOfBody
<1>8. CASE Install!ReadFails
  BY <1>8, WholeIsPartial DEF Install!ReadFails
<1>9. CASE Install!Check
  BY <1>9, WholeIsPartial DEF Install!Check
<1>10. CASE Install!Place
  BY <1>10, WholeIsPartial DEF Install!Place
<1>11. CASE Install!Stage
  <2>1. Partial(<<>>)
    BY DEF Partial
  <2> QED
    BY <1>11, <2>1 DEF Install!Stage
<1>12. CASE Install!Extract
  <2>1. /\ Partial(staged) /\ Len(staged) < Size
        /\ staged' = Append(staged, Install!Whole[Len(staged) + 1])
    BY <1>12, WholeIsPartial DEF Install!Extract
  <2>2. Install!Whole[Len(staged) + 1] = TRUE
    BY <2>1, WholeIsPartial DEF Partial
  <2>3. Partial(staged')
    BY <2>1, <2>2, PartialGrows
  <2> QED
    BY <1>12, <2>3 DEF Install!Extract, Partial
<1>13. CASE Install!ExtractFails
  BY <1>13, WholeIsPartial DEF Install!ExtractFails
<1>14. CASE Install!Rename
  <2>1. staged = Install!Whole
    BY <1>14, WholeIsPartial, PartialIsWhole DEF Install!Rename
  <2>3. FilesAreBlocks'
    <3>1. UNCHANGED <<part, archive, began>> /\ where' = "idle" /\ attempt' = 0 /\ sent' = 0
      BY <1>14 DEF Install!Rename
    <3> QED
      BY <3>1
  <2>4. CheckedStays' /\ CleanCall' /\ CleanAnswer' /\ Install!InstalledIsVerified'
    BY <1>14, <2>1 DEF Install!Rename
  <2> QED
    BY <2>3, <2>4
<1>15. CASE Install!Die
  BY <1>15, WholeIsPartial DEF Install!Die
<1>16. CASE Install!Republish
  BY <1>16, WholeIsPartial DEF Install!Republish
<1>17. CASE Install!Damage
  <2>1. CASE Install!Offset > 0 /\ part' = [part EXCEPT ![1] = FALSE] /\ UNCHANGED archive
    <3>1. part' \in Seq(BOOLEAN) /\ Len(part') <= Size
      BY <2>1, DamagedIsSeq
    <3> QED
      BY <1>17, <2>1, <3>1 DEF Install!Damage
  <2>2. CASE archive # None /\ archive' = [archive EXCEPT ![1] = FALSE] /\ UNCHANGED part
    <3>1. archive' \in Seq(BOOLEAN) /\ Len(archive') = Size
      BY <2>2, DamagedIsSeq
    <3> QED
      BY <1>17, <2>2, <3>1 DEF Install!Damage
  <2> QED
    BY <1>17, <2>1, <2>2 DEF Install!Damage
<1>18. CASE UNCHANGED installVars
  BY <1>18 DEF installVars
<1> QED
  BY <1>1, <1>2, <1>3, <1>4, <1>5, <1>6, <1>7, <1>8, <1>9, <1>10, <1>11, <1>12, <1>13, <1>14, <1>15, <1>16, <1>17, <1>18
     DEF Install!Next, Install!Call, Install!Fails

LEMMA InstallInvIsSound == InstallInv => Install!InstallIsSound
  BY DEF InstallInv, CleanAnswer, Install!InstallIsSound, Install!PrefixResumes, Install!ResumeSucceeds


-----------------------------------------------------------------------------
(* A compilation and its plan *)

LEMMA LeastNatural ==
  ASSUME NEW S, S \subseteq Nat, S # {}
  PROVE  \E m \in S : \A n \in S : m <= n
<1> DEFINE Less == {ss \in Nat \X Nat : ss[1] < ss[2]}
<1>1. IsWellFoundedOn(Less, Nat)
  BY NatLessThanWellFounded DEF OpToRel
<1>2. PICK m \in S : \A n \in S : <<n, m>> \notin Less
  <2> HIDE DEF Less
  <2> QED
    BY <1>1, WFMin
<1>3. \A n \in S : ~(n < m)
  BY <1>2
<1> QED
  BY <1>3

(* The rates measured so far have a bound: among finitely many, one is the greatest. *)
Bounded(ms) == \E b \in Nat : \A m \in ms : m.rate <= b

LEMMA OneMoreIsBounded ==
  ASSUME NEW ms, NEW m, Bounded(ms), m.rate \in Nat, \A n \in ms : n.rate \in Nat
  PROVE  Bounded(ms \cup {m})
<1>1. PICK b \in Nat : \A n \in ms : n.rate <= b
  BY DEF Bounded
<1>2. \A n \in ms \cup {m} : n.rate <= b + m.rate
  BY <1>1
<1> QED
  BY <1>2 DEF Bounded

LEMMA StrongestIsBest ==
  ASSUME Pipeline!Phase3PipelineAssumption, NEW ms, ms \subseteq Pipeline!Measurements, Bounded(ms),
         Pipeline!Eligible(ms) # {}
  PROVE  /\ Pipeline!Strongest(ms) \in Pipeline!Eligible(ms)
         /\ \A m \in Pipeline!Eligible(ms) : m.rate <= Pipeline!Strongest(ms).rate
<1> DEFINE E == Pipeline!Eligible(ms)
           Bounds == {b \in Nat : \A m \in E : m.rate <= b}
<1>1. E \subseteq ms /\ \A m \in E : m.rate \in Nat /\ m.cand \in Nat
  <2>1. Rates \subseteq Nat /\ Len(Matrix) \in Nat
    BY DEF Pipeline!Phase3PipelineAssumption
  <2>2. \A m \in Pipeline!Measurements : m.rate \in Rates /\ m.cand \in 1..Len(Matrix)
    BY DEF Pipeline!Measurements
  <2>3. E \subseteq Pipeline!Measurements /\ E \subseteq ms
    BY DEF Pipeline!Eligible
  <2> HIDE DEF E
  <2>4. \A m \in E : m.rate \in Nat
    BY <2>1, <2>2, <2>3
  <2>5. \A m \in E : m.cand \in Nat
    BY <2>1, <2>2, <2>3
  <2> QED
    BY <2>3, <2>4, <2>5
<1>2. PICK b \in Bounds : \A c \in Bounds : b <= c
  BY <1>1, LeastNatural DEF Bounded
<1> DEFINE Best == {m \in E : m.rate = b}
<1>3. Best # {}
  <2> SUFFICES ASSUME Best = {} PROVE FALSE
    OBVIOUS
  <2>1. \A m \in E : m.rate < b
    BY <1>1
  <2>2. b - 1 \in Bounds
    BY <1>1, <2>1
  <2> QED
    BY <1>2, <2>2
<1> DEFINE Cands == {m.cand : m \in Best}
<1>4. PICK c \in Cands : \A d \in Cands : c <= d
  <2>1. Cands \subseteq Nat /\ Cands # {}
    BY <1>1, <1>3
  <2> HIDE DEF Cands
  <2> QED
    BY <2>1, LeastNatural
<1>5. PICK m \in Best : m.cand = c
  BY <1>4
<1>6. \A n \in E : n.rate < m.rate \/ (n.rate = m.rate /\ m.cand <= n.cand)
  BY <1>1, <1>4, <1>5
<1>7. /\ Pipeline!Strongest(ms) \in E
      /\ \A n \in E : \/ n.rate < Pipeline!Strongest(ms).rate
                      \/ n.rate = Pipeline!Strongest(ms).rate
  BY <1>5, <1>6 DEF Pipeline!Strongest
<1> QED
  BY <1>1, <1>7

(* The first steps of a compilation know no strongest candidate, and no plan *)
(* exists before the steps that follow its publication.                      *)
Early == {"idle", "load", "recorded", "warmup", "measure", "select"}
Past  == {"floor", "static"}

SearchIsOpen ==
    /\ step \in Early => floor = None /\ ~sealed /\ pairs = 0 /\ pairTokens = {}
    /\ step \in {"equivalence", "confirm", "pend", "replay"} => floor # None /\ ~sealed
    /\ step \in {"warmup", "measure"} => slot <= Len(Matrix)
    /\ step = "load" => slot = 1
    /\ Bounded(measured)
    /\ floor # None => floor \in Pipeline!Eligible(measured)
                       /\ \A m \in Pipeline!Eligible(measured) : m.rate <= floor.rate

(* The confirmations agreed, and those a plan needs are complete. *)
ConfirmedAreSame ==
    /\ pairTokens \subseteq {"same"} /\ (pairs # 0 => pairTokens = {"same"})
    /\ step \in {"pend", "replay"} => pairs = Pairs
    /\ step \notin {"idle", "load", "recorded", "explain", "publish", "final"} => mode = "live"
    /\ step # "idle" => mode \in {"live", "recorded"}
    /\ step = "recorded" => mode = "recorded"

(* A live plan that was confirmed and, when it is sealed, replayed. *)
Confirmed(p) ==
    p \in Pipeline!Plans /\ p.made = "live" /\ p.of.fits /\ p.confirmed = Pairs /\ p.tokens = {"same"}

SealedIsReplayed ==
    /\ step = "replay" => Confirmed(pending)
    /\ sealed /\ mode = "live" => Confirmed(pending) /\ replay = "within"
    /\ sealed /\ mode = "recorded" => floor # None /\ pairTokens = {"same"}
    /\ step \in {"publish"} \cup Past => sealed
    /\ step = "publish" => explanation = Pipeline!Report
    /\ status = "PASS-STOCK-FALLBACK" => sealed /\ mode = "live"
                                         /\ step \in {"explain", "publish"} \cup Past
    /\ step = "static" => "floor" \in summaries
    /\ summaries \subseteq Past

PlanIsKept ==
    /\ step \notin {"idle", "final"} \cup Past => plan = None
    /\ step \in Past \/ (step = "final" /\ plan # None) => plan # None /\ sealed /\ mode = "live"
    /\ plan # None => plan \in Pipeline!Plans /\ plan.tokens = {"same"}
                      /\ (plan.made = "live" => Confirmed(plan))

PlanInv ==
    /\ Pipeline!TypeOK /\ SearchIsOpen /\ ConfirmedAreSame /\ SealedIsReplayed /\ PlanIsKept
    /\ Pipeline!PlanIsEarned /\ Pipeline!PlanIsClaimed

LEMMA ReportIsKnown == ASSUME Pipeline!Phase3PipelineAssumption, Pipeline!TypeOK PROVE Pipeline!Report # None
<1>1. Pipeline!Report \in Pipeline!Explanations
  BY DEF Pipeline!TypeOK, Pipeline!Report, Pipeline!Explanations
<1> QED
  BY <1>1 DEF Pipeline!Phase3PipelineAssumption, Pipeline!Phase3PipelineAssumption

LEMMA PlanInit == ASSUME Pipeline!Phase3PipelineAssumption, Pipeline!Init PROVE PlanInv
<1>1. Bounded({})
  BY DEF Bounded
<1> USE DEF Pipeline!Fresh, Early, Past, Pipeline!Init, Pipeline!Report
<1>0. /\ Repeats \in Nat \ {0} /\ Pairs \in Nat \ {0} /\ MaxCompiles \in Nat
      /\ Len(Matrix) \in Nat \ {0} /\ None # "PASS-STOCK-FALLBACK"
  BY DEF Pipeline!Phase3PipelineAssumption
<1>s. sealed \in BOOLEAN
  BY Zenon
<1>2. Pipeline!TypeOK
  BY <1>0, <1>s DEF Pipeline!TypeOK, Pipeline!Statuses, Pipeline!Replays
<1>3. SearchIsOpen
  BY <1>0, <1>1 DEF SearchIsOpen
<1>4. ConfirmedAreSame
  BY <1>0 DEF ConfirmedAreSame
<1>5. SealedIsReplayed
  BY <1>0 DEF SealedIsReplayed
<1>6. PlanIsKept /\ Pipeline!PlanIsEarned /\ Pipeline!PlanIsClaimed
  BY <1>0 DEF PlanIsKept, Pipeline!PlanIsEarned, Pipeline!PlanIsClaimed
<1> QED
  BY <1>2, <1>3, <1>4, <1>5, <1>6 DEF PlanInv

LEMMA MeasurementIsTyped ==
  ASSUME Pipeline!Phase3PipelineAssumption, NEW c \in 1..Len(Matrix), NEW r \in Rates, NEW f \in BOOLEAN
  PROVE  LET m == Pipeline!Measurement(c, r, f) IN
           m \in Pipeline!Measurements /\ m.fits = f /\ m.rate = r
<1>1. Matrix[c] \in BOOLEAN
  BY DEF Pipeline!Phase3PipelineAssumption
<1> QED
  BY <1>1 DEF Pipeline!Measurement, Pipeline!Measurements

LEMMA PlanIsTyped ==
  ASSUME mode \in {"live", "recorded"}, NEW m \in Pipeline!Measurements,
         NEW n \in 0..Pairs, NEW tokens \in SUBSET {"same", "other"}
  PROVE  LET p == Pipeline!Plan(m, n, tokens) IN
           p \in Pipeline!Plans /\ p.made = mode /\ p.of = m /\ p.confirmed = n /\ p.tokens = tokens
  BY DEF Pipeline!Plan, Pipeline!Plans

LEMMA PlanStep ==
  ASSUME Pipeline!Phase3PipelineAssumption, PlanInv, Pipeline!Next \/ UNCHANGED compileVars
  PROVE  PlanInv'
<1> USE DEF PlanInv, Pipeline!TypeOK, SearchIsOpen, ConfirmedAreSame, SealedIsReplayed,
     PlanIsKept, Pipeline!PlanIsEarned, Pipeline!PlanIsClaimed, Pipeline!Fresh, Early, Past,
     Pipeline!Statuses, Pipeline!Replays, Pipeline!searching, Pipeline!confirming, Pipeline!verdict, Pipeline!local, Pipeline!outputs,
     Pipeline!Goto, Pipeline!Over, Pipeline!Report, Confirmed
<1>0. /\ Repeats \in Nat \ {0} /\ Pairs \in Nat \ {0} /\ MaxCompiles \in Nat /\ Rates \subseteq Nat
      /\ Len(Matrix) \in Nat \ {0}
      /\ None \notin Placements /\ None \notin Pipeline!Measurements /\ None \notin Pipeline!Plans
      /\ None # "PASS-STOCK-FALLBACK"
  BY DEF Pipeline!Phase3PipelineAssumption, Matrix
<1>b. Bounded({})
  BY DEF Bounded
<1>r. Pipeline!Report # None
  BY ReportIsKnown
<1>1. CASE UNCHANGED compileVars
  <2>1. Pipeline!TypeOK'
    BY <1>0, <1>b, <1>r, <1>1 DEF compileVars
  <2>2. SearchIsOpen'
    BY <1>0, <1>b, <1>r, <1>1 DEF compileVars
  <2>3. ConfirmedAreSame'
    BY <1>0, <1>b, <1>r, <1>1 DEF compileVars
  <2>4. SealedIsReplayed'
    BY <1>0, <1>b, <1>r, <1>1 DEF compileVars
  <2>5. PlanIsKept'
    BY <1>0, <1>b, <1>r, <1>1 DEF compileVars
  <2>6. Pipeline!PlanIsEarned'
    BY <1>0, <1>b, <1>r, <1>1 DEF compileVars
  <2>7. Pipeline!PlanIsClaimed'
    BY <1>0, <1>b, <1>r, <1>1 DEF compileVars
  <2> QED
    BY <2>1, <2>2, <2>3, <2>4, <2>5, <2>6, <2>7
<1>2. CASE Pipeline!Start
  <2>1. Pipeline!TypeOK'
    BY <1>0, <1>b, <1>r, <1>2 DEF Pipeline!Start
  <2>2. SearchIsOpen'
    BY <1>0, <1>b, <1>r, <1>2 DEF Pipeline!Start
  <2>3. ConfirmedAreSame'
    BY <1>0, <1>b, <1>r, <1>2 DEF Pipeline!Start
  <2>4. SealedIsReplayed'
    BY <1>0, <1>b, <1>r, <1>2 DEF Pipeline!Start
  <2>5. PlanIsKept'
    BY <1>0, <1>b, <1>r, <1>2 DEF Pipeline!Start
  <2>6. Pipeline!PlanIsEarned'
    BY <1>0, <1>b, <1>r, <1>2 DEF Pipeline!Start
  <2>7. Pipeline!PlanIsClaimed'
    BY <1>0, <1>b, <1>r, <1>2 DEF Pipeline!Start
  <2> QED
    BY <2>1, <2>2, <2>3, <2>4, <2>5, <2>6, <2>7
<1>3. CASE Pipeline!Load
  <2>1. Pipeline!TypeOK'
    BY <1>0, <1>b, <1>r, <1>3 DEF Pipeline!Load, Pipeline!Blocked, Pipeline!Stopped, Pipeline!Caught
  <2>2. SearchIsOpen'
    BY <1>0, <1>b, <1>r, <1>3 DEF Pipeline!Load, Pipeline!Blocked, Pipeline!Stopped, Pipeline!Caught
  <2>3. ConfirmedAreSame'
    BY <1>0, <1>b, <1>r, <1>3 DEF Pipeline!Load, Pipeline!Blocked, Pipeline!Stopped, Pipeline!Caught
  <2>4. SealedIsReplayed'
    BY <1>0, <1>b, <1>r, <1>3 DEF Pipeline!Load, Pipeline!Blocked, Pipeline!Stopped, Pipeline!Caught
  <2>5. PlanIsKept'
    BY <1>0, <1>b, <1>r, <1>3 DEF Pipeline!Load, Pipeline!Blocked, Pipeline!Stopped, Pipeline!Caught
  <2>6. Pipeline!PlanIsEarned'
    BY <1>0, <1>b, <1>r, <1>3 DEF Pipeline!Load, Pipeline!Blocked, Pipeline!Stopped, Pipeline!Caught
  <2>7. Pipeline!PlanIsClaimed'
    BY <1>0, <1>b, <1>r, <1>3 DEF Pipeline!Load, Pipeline!Blocked, Pipeline!Stopped, Pipeline!Caught
  <2> QED
    BY <2>1, <2>2, <2>3, <2>4, <2>5, <2>6, <2>7
<1>4. CASE Pipeline!Recorded
  <2>0. sealed' \in BOOLEAN
    BY <1>4, Zenon DEF Pipeline!Recorded, Pipeline!Measurement, Pipeline!Stopped, Pipeline!Caught
  <2>e. \A m : m.fits => Pipeline!Eligible({m}) = {m}
    BY DEF Pipeline!Eligible
  <2>f. \/ /\ floor' \in Pipeline!Measurements /\ floor'.fits /\ measured' = {floor'}
           /\ Pipeline!Eligible(measured') = {floor'} /\ floor' # None
           /\ floor'.rate <= floor'.rate /\ Bounded(measured')
        \/ UNCHANGED <<floor, measured>> /\ ~(sealed' /\ mode = "recorded")
    <3>1. CASE \E c \in 1..Len(Matrix), r \in Rates : floor' = Pipeline!Measurement(c, r, TRUE)
                                                     /\ measured' = {floor'}
      <4>0. PICK c \in 1..Len(Matrix), r \in Rates :
              floor' = Pipeline!Measurement(c, r, TRUE) /\ measured' = {floor'}
        BY <3>1
      <4> DEFINE m == Pipeline!Measurement(c, r, TRUE)
      <4>1. m \in Pipeline!Measurements /\ m.fits /\ m.rate \in Nat
        BY <1>0, MeasurementIsTyped, ZenonT(60)
      <4> HIDE DEF m
      <4>2. Bounded({m})
        <5>1. \A n \in {m} : n.rate <= m.rate
          BY <4>1
        <5> QED
          BY <4>1, <5>1 DEF Bounded
      <4>3. floor' = m /\ measured' = {m}
        BY <4>0 DEF m
      <4> QED
        BY <1>0, <2>e, <4>1, <4>2, <4>3
    <3>2. CASE UNCHANGED <<floor, measured>> /\ ~(sealed' /\ mode = "recorded")
      BY <3>2
    <3> QED
      BY <1>4, <3>1, <3>2 DEF Pipeline!Recorded, Pipeline!Stopped, Pipeline!Caught
  <2>1. CASE Pipeline!Stopped
    <3>1. Pipeline!TypeOK'
      BY <1>0, <1>4, <2>0, <2>1 DEF Pipeline!Recorded, Pipeline!Stopped, Pipeline!Caught
    <3>2. SearchIsOpen'
      BY <1>0, <1>4, <2>0, <2>1 DEF Pipeline!Recorded, Pipeline!Stopped, Pipeline!Caught
    <3>3. ConfirmedAreSame'
      BY <1>0, <1>4, <2>0, <2>1 DEF Pipeline!Recorded, Pipeline!Stopped, Pipeline!Caught
    <3>4. SealedIsReplayed'
      BY <1>0, <1>4, <2>0, <2>1 DEF Pipeline!Recorded, Pipeline!Stopped, Pipeline!Caught
    <3>5. PlanIsKept'
      BY <1>0, <1>4, <2>0, <2>1 DEF Pipeline!Recorded, Pipeline!Stopped, Pipeline!Caught
    <3>6. Pipeline!PlanIsEarned'
      BY <1>0, <1>4, <2>0, <2>1 DEF Pipeline!Recorded, Pipeline!Stopped, Pipeline!Caught
    <3>7. Pipeline!PlanIsClaimed'
      BY <1>0, <1>4, <2>0, <2>1 DEF Pipeline!Recorded, Pipeline!Stopped, Pipeline!Caught
    <3> QED
      BY <3>1, <3>2, <3>3, <3>4, <3>5, <3>6, <3>7
  <2>2. CASE /\ step = "recorded" /\ Pipeline!Goto("explain") /\ status' = "RECORDED-DIAGNOSTIC"
             /\ UNCHANGED <<Pipeline!searching, Pipeline!confirming, sealed, replay, Pipeline!outputs>>
    <3>1. Pipeline!TypeOK'
      BY <1>0, <2>2 DEF Pipeline!Recorded
    <3>2. SearchIsOpen'
      BY <1>0, <2>2 DEF Pipeline!Recorded
    <3>3. ConfirmedAreSame'
      BY <1>0, <2>2 DEF Pipeline!Recorded
    <3>4. SealedIsReplayed'
      BY <1>0, <2>2 DEF Pipeline!Recorded
    <3>5. PlanIsKept'
      BY <1>0, <2>2 DEF Pipeline!Recorded
    <3>6. Pipeline!PlanIsEarned'
      BY <1>0, <2>2 DEF Pipeline!Recorded
    <3>7. Pipeline!PlanIsClaimed'
      BY <1>0, <2>2 DEF Pipeline!Recorded
    <3> QED
      BY <3>1, <3>2, <3>3, <3>4, <3>5, <3>6, <3>7
  <2>3. CASE /\ step = "recorded" /\ Pipeline!Goto("explain") /\ status' = "RECORDED-DIAGNOSTIC"
             /\ floor' # floor /\ sealed' = TRUE /\ pairs' \in {0, Pairs} /\ pairTokens' = {"same"}
             /\ UNCHANGED <<slot, reps, warm, placed, replay, Pipeline!outputs>>
    <3>1. Pipeline!TypeOK'
      BY <1>0, <2>f, <2>0, <2>3 DEF Pipeline!Recorded
    <3>2. SearchIsOpen'
      BY <1>0, <2>f, <2>0, <2>3 DEF Pipeline!Recorded
    <3>3. ConfirmedAreSame'
      BY <1>0, <2>f, <2>0, <2>3 DEF Pipeline!Recorded
    <3>4. SealedIsReplayed'
      BY <1>0, <2>f, <2>0, <2>3 DEF Pipeline!Recorded
    <3>5. PlanIsKept'
      BY <1>0, <2>f, <2>0, <2>3 DEF Pipeline!Recorded
    <3>6. Pipeline!PlanIsEarned'
      BY <1>0, <2>f, <2>0, <2>3 DEF Pipeline!Recorded
    <3>7. Pipeline!PlanIsClaimed'
      BY <1>0, <2>f, <2>0, <2>3 DEF Pipeline!Recorded
    <3> QED
      BY <3>1, <3>2, <3>3, <3>4, <3>5, <3>6, <3>7
  <2> QED
    BY <1>4, <2>f, <2>1, <2>2, <2>3 DEF Pipeline!Recorded
<1>5. CASE Pipeline!Die
  <2>0. sealed' \in BOOLEAN
    BY <1>5, Zenon DEF Pipeline!Die
  <2>1. Pipeline!TypeOK'
    BY <1>0, <1>b, <1>r, <1>5, <2>0 DEF Pipeline!Die
  <2>2. SearchIsOpen'
    BY <1>0, <1>b, <1>r, <1>5, <2>0 DEF Pipeline!Die
  <2>3. ConfirmedAreSame'
    BY <1>0, <1>b, <1>r, <1>5, <2>0 DEF Pipeline!Die
  <2>4. SealedIsReplayed'
    BY <1>0, <1>b, <1>r, <1>5, <2>0 DEF Pipeline!Die
  <2>5. PlanIsKept'
    BY <1>0, <1>b, <1>r, <1>5, <2>0 DEF Pipeline!Die
  <2>6. Pipeline!PlanIsEarned'
    BY <1>0, <1>b, <1>r, <1>5, <2>0 DEF Pipeline!Die
  <2>7. Pipeline!PlanIsClaimed'
    BY <1>0, <1>b, <1>r, <1>5, <2>0 DEF Pipeline!Die
  <2> QED
    BY <2>1, <2>2, <2>3, <2>4, <2>5, <2>6, <2>7
<1>6. CASE Pipeline!RunPlan
  <2>1. Pipeline!TypeOK'
    BY <1>0, <1>b, <1>r, <1>6 DEF Pipeline!RunPlan, Pipeline!Replayable
  <2>2. SearchIsOpen'
    BY <1>0, <1>b, <1>r, <1>6 DEF Pipeline!RunPlan, Pipeline!Replayable
  <2>3. ConfirmedAreSame'
    BY <1>0, <1>b, <1>r, <1>6 DEF Pipeline!RunPlan, Pipeline!Replayable
  <2>4. SealedIsReplayed'
    BY <1>0, <1>b, <1>r, <1>6 DEF Pipeline!RunPlan, Pipeline!Replayable
  <2>5. PlanIsKept'
    BY <1>0, <1>b, <1>r, <1>6 DEF Pipeline!RunPlan, Pipeline!Replayable
  <2>6. Pipeline!PlanIsEarned'
    BY <1>0, <1>b, <1>r, <1>6 DEF Pipeline!RunPlan, Pipeline!Replayable
  <2>7. Pipeline!PlanIsClaimed'
    BY <1>0, <1>b, <1>r, <1>6 DEF Pipeline!RunPlan, Pipeline!Replayable
  <2> QED
    BY <2>1, <2>2, <2>3, <2>4, <2>5, <2>6, <2>7
<1>7. CASE Pipeline!Final
  <2>0. sealed' \in BOOLEAN
    BY <1>7, Zenon DEF Pipeline!Final
  <2>1. Pipeline!TypeOK'
    BY <1>0, <1>b, <1>r, <1>7, <2>0 DEF Pipeline!Final
  <2>2. SearchIsOpen'
    BY <1>0, <1>b, <1>r, <1>7, <2>0 DEF Pipeline!Final
  <2>3. ConfirmedAreSame'
    BY <1>0, <1>b, <1>r, <1>7, <2>0 DEF Pipeline!Final
  <2>4. SealedIsReplayed'
    BY <1>0, <1>b, <1>r, <1>7, <2>0 DEF Pipeline!Final
  <2>5. PlanIsKept'
    BY <1>0, <1>b, <1>r, <1>7, <2>0 DEF Pipeline!Final
  <2>6. Pipeline!PlanIsEarned'
    BY <1>0, <1>b, <1>r, <1>7, <2>0 DEF Pipeline!Final
  <2>7. Pipeline!PlanIsClaimed'
    BY <1>0, <1>b, <1>r, <1>7, <2>0 DEF Pipeline!Final
  <2> QED
    BY <2>1, <2>2, <2>3, <2>4, <2>5, <2>6, <2>7
<1>8. CASE Pipeline!Warmup
  <2>1. Pipeline!TypeOK'
    BY <1>0, <1>b, <1>r, <1>8 DEF Pipeline!Warmup, Pipeline!NextCandidate, Pipeline!Blocked, Pipeline!Caught
  <2>2. SearchIsOpen'
    BY <1>0, <1>b, <1>r, <1>8 DEF Pipeline!Warmup, Pipeline!NextCandidate, Pipeline!Blocked, Pipeline!Caught
  <2>3. ConfirmedAreSame'
    BY <1>0, <1>b, <1>r, <1>8 DEF Pipeline!Warmup, Pipeline!NextCandidate, Pipeline!Blocked, Pipeline!Caught
  <2>4. SealedIsReplayed'
    BY <1>0, <1>b, <1>r, <1>8 DEF Pipeline!Warmup, Pipeline!NextCandidate, Pipeline!Blocked, Pipeline!Caught
  <2>5. PlanIsKept'
    BY <1>0, <1>b, <1>r, <1>8 DEF Pipeline!Warmup, Pipeline!NextCandidate, Pipeline!Blocked, Pipeline!Caught
  <2>6. Pipeline!PlanIsEarned'
    BY <1>0, <1>b, <1>r, <1>8 DEF Pipeline!Warmup, Pipeline!NextCandidate, Pipeline!Blocked, Pipeline!Caught
  <2>7. Pipeline!PlanIsClaimed'
    BY <1>0, <1>b, <1>r, <1>8 DEF Pipeline!Warmup, Pipeline!NextCandidate, Pipeline!Blocked, Pipeline!Caught
  <2> QED
    BY <2>1, <2>2, <2>3, <2>4, <2>5, <2>6, <2>7
<1>9. CASE Pipeline!Measure
  <2>f. \/ /\ measured' \subseteq Pipeline!Measurements /\ Bounded(measured')
           /\ reps' = 0 /\ slot' = slot + 1 /\ warm' = None /\ placed' \subseteq Placements
           /\ slot' \in 1..(Len(Matrix) + 1) /\ (step' = "warmup" => slot' <= Len(Matrix))
           /\ step' \in {"select", "warmup"} /\ floor' = floor
        \/ UNCHANGED <<measured, slot>> /\ warm' = warm /\ placed' = placed
           /\ reps' \in 0..(Repeats - 1) /\ floor' = floor
    <3>1. CASE Pipeline!NextCandidate /\ step = "measure"
               /\ UNCHANGED <<placed, measured, Pipeline!confirming>>
      BY <1>0, <3>1 DEF Pipeline!NextCandidate
    <3>2. CASE \E r \in Rates, f \in BOOLEAN :
                 /\ measured' = measured \cup {Pipeline!Measurement(slot, r, f)}
                 /\ placed' = placed \cup ({warm} \ {None}) /\ step = "measure"
                 /\ Pipeline!NextCandidate /\ UNCHANGED Pipeline!confirming
      <4>1. PICK r \in Rates, f \in BOOLEAN :
              measured' = measured \cup {Pipeline!Measurement(slot, r, f)}
        BY <3>2
      <4> DEFINE m == Pipeline!Measurement(slot, r, f)
      <4>2. m \in Pipeline!Measurements /\ m.rate \in Nat
        BY <1>0, <3>2, MeasurementIsTyped
      <4>3. \A n \in measured : n.rate \in Nat
        BY <1>0 DEF Pipeline!Measurements
      <4> HIDE DEF m
      <4>4. Bounded(measured \cup {m}) /\ measured \cup {m} \subseteq Pipeline!Measurements
        BY <4>2, <4>3, OneMoreIsBounded
      <4>5. measured' = measured \cup {m}
        BY <4>1 DEF m
      <4>6. measured' \subseteq Pipeline!Measurements /\ Bounded(measured')
        BY <4>4, <4>5
      <4>7. placed' \subseteq Placements /\ floor' = floor
        BY <3>2
      <4> QED
        BY <1>0, <3>2, <4>6, <4>7 DEF Pipeline!NextCandidate
    <3>3. CASE reps' \in 0..(Repeats - 1) /\ UNCHANGED <<slot, warm, placed, measured, floor>>
      BY <3>3
    <3> QED
      BY <1>0, <1>9, <3>1, <3>2, <3>3
         DEF Pipeline!Measure, Pipeline!Blocked, Pipeline!Stopped, Pipeline!Caught
  <2>1. Pipeline!TypeOK'
    BY SMTT(30), <1>0, <1>b, <1>r, <1>9, <2>f DEF Pipeline!Measure, Pipeline!NextCandidate, Pipeline!Blocked, Pipeline!Stopped, Pipeline!Caught
  <2>2. SearchIsOpen'
    BY <1>0, <1>b, <1>r, <1>9, <2>f DEF Pipeline!Measure, Pipeline!NextCandidate, Pipeline!Blocked, Pipeline!Stopped, Pipeline!Caught
  <2>3. ConfirmedAreSame'
    BY <1>0, <1>b, <1>r, <1>9, <2>f DEF Pipeline!Measure, Pipeline!NextCandidate, Pipeline!Blocked, Pipeline!Stopped, Pipeline!Caught
  <2>4. SealedIsReplayed'
    BY <1>0, <1>b, <1>r, <1>9, <2>f DEF Pipeline!Measure, Pipeline!NextCandidate, Pipeline!Blocked, Pipeline!Stopped, Pipeline!Caught
  <2>5. PlanIsKept'
    BY <1>0, <1>b, <1>r, <1>9, <2>f DEF Pipeline!Measure, Pipeline!NextCandidate, Pipeline!Blocked, Pipeline!Stopped, Pipeline!Caught
  <2>6. Pipeline!PlanIsEarned'
    BY <1>0, <1>b, <1>r, <1>9, <2>f DEF Pipeline!Measure, Pipeline!NextCandidate, Pipeline!Blocked, Pipeline!Stopped, Pipeline!Caught
  <2>7. Pipeline!PlanIsClaimed'
    BY <1>0, <1>b, <1>r, <1>9, <2>f DEF Pipeline!Measure, Pipeline!NextCandidate, Pipeline!Blocked, Pipeline!Stopped, Pipeline!Caught
  <2> QED
    BY <2>1, <2>2, <2>3, <2>4, <2>5, <2>6, <2>7
<1>10. CASE Pipeline!Select
  <2>f. Pipeline!Eligible(measured) # {} =>
           /\ Pipeline!Strongest(measured) \in Pipeline!Eligible(measured)
           /\ Pipeline!Strongest(measured) \in Pipeline!Measurements
           /\ \A m \in Pipeline!Eligible(measured) : m.rate <= Pipeline!Strongest(measured).rate
    <3>1. Pipeline!Eligible(measured) \subseteq measured
      BY DEF Pipeline!Eligible
    <3> QED
      BY <3>1, StrongestIsBest
  <2>1. Pipeline!TypeOK'
    BY <1>0, <1>b, <1>r, <1>10, <2>f DEF Pipeline!Select
  <2>2. SearchIsOpen'
    BY <1>0, <1>b, <1>r, <1>10, <2>f DEF Pipeline!Select
  <2>3. ConfirmedAreSame'
    BY <1>0, <1>b, <1>r, <1>10, <2>f DEF Pipeline!Select
  <2>4. SealedIsReplayed'
    BY <1>0, <1>b, <1>r, <1>10, <2>f DEF Pipeline!Select
  <2>5. PlanIsKept'
    BY <1>0, <1>b, <1>r, <1>10, <2>f DEF Pipeline!Select
  <2>6. Pipeline!PlanIsEarned'
    BY <1>0, <1>b, <1>r, <1>10, <2>f DEF Pipeline!Select
  <2>7. Pipeline!PlanIsClaimed'
    BY <1>0, <1>b, <1>r, <1>10, <2>f DEF Pipeline!Select
  <2> QED
    BY <2>1, <2>2, <2>3, <2>4, <2>5, <2>6, <2>7
<1>11. CASE Pipeline!Equivalence
  <2>1. Pipeline!TypeOK'
    BY <1>0, <1>b, <1>r, <1>11 DEF Pipeline!Equivalence, Pipeline!Blocked, Pipeline!Stopped, Pipeline!Caught
  <2>2. SearchIsOpen'
    BY <1>0, <1>b, <1>r, <1>11 DEF Pipeline!Equivalence, Pipeline!Blocked, Pipeline!Stopped, Pipeline!Caught
  <2>3. ConfirmedAreSame'
    BY <1>0, <1>b, <1>r, <1>11 DEF Pipeline!Equivalence, Pipeline!Blocked, Pipeline!Stopped, Pipeline!Caught
  <2>4. SealedIsReplayed'
    BY <1>0, <1>b, <1>r, <1>11 DEF Pipeline!Equivalence, Pipeline!Blocked, Pipeline!Stopped, Pipeline!Caught
  <2>5. PlanIsKept'
    BY <1>0, <1>b, <1>r, <1>11 DEF Pipeline!Equivalence, Pipeline!Blocked, Pipeline!Stopped, Pipeline!Caught
  <2>6. Pipeline!PlanIsEarned'
    BY <1>0, <1>b, <1>r, <1>11 DEF Pipeline!Equivalence, Pipeline!Blocked, Pipeline!Stopped, Pipeline!Caught
  <2>7. Pipeline!PlanIsClaimed'
    BY <1>0, <1>b, <1>r, <1>11 DEF Pipeline!Equivalence, Pipeline!Blocked, Pipeline!Stopped, Pipeline!Caught
  <2> QED
    BY <2>1, <2>2, <2>3, <2>4, <2>5, <2>6, <2>7
<1>12. CASE Pipeline!Confirm
  <2>1. Pipeline!TypeOK'
    BY <1>0, <1>b, <1>r, <1>12 DEF Pipeline!Confirm, Pipeline!Blocked, Pipeline!Stopped, Pipeline!Caught
  <2>2. SearchIsOpen'
    BY <1>0, <1>b, <1>r, <1>12 DEF Pipeline!Confirm, Pipeline!Blocked, Pipeline!Stopped, Pipeline!Caught
  <2>3. ConfirmedAreSame'
    BY <1>0, <1>b, <1>r, <1>12 DEF Pipeline!Confirm, Pipeline!Blocked, Pipeline!Stopped, Pipeline!Caught
  <2>4. SealedIsReplayed'
    BY <1>0, <1>b, <1>r, <1>12 DEF Pipeline!Confirm, Pipeline!Blocked, Pipeline!Stopped, Pipeline!Caught
  <2>5. PlanIsKept'
    BY <1>0, <1>b, <1>r, <1>12 DEF Pipeline!Confirm, Pipeline!Blocked, Pipeline!Stopped, Pipeline!Caught
  <2>6. Pipeline!PlanIsEarned'
    BY <1>0, <1>b, <1>r, <1>12 DEF Pipeline!Confirm, Pipeline!Blocked, Pipeline!Stopped, Pipeline!Caught
  <2>7. Pipeline!PlanIsClaimed'
    BY <1>0, <1>b, <1>r, <1>12 DEF Pipeline!Confirm, Pipeline!Blocked, Pipeline!Stopped, Pipeline!Caught
  <2> QED
    BY <2>1, <2>2, <2>3, <2>4, <2>5, <2>6, <2>7
<1>13. CASE Pipeline!Gate
  <2>1. Pipeline!TypeOK'
    BY <1>0, <1>b, <1>r, <1>13 DEF Pipeline!Gate, Pipeline!Stopped, Pipeline!Caught
  <2>2. SearchIsOpen'
    BY <1>0, <1>b, <1>r, <1>13 DEF Pipeline!Gate, Pipeline!Stopped, Pipeline!Caught
  <2>3. ConfirmedAreSame'
    BY <1>0, <1>b, <1>r, <1>13 DEF Pipeline!Gate, Pipeline!Stopped, Pipeline!Caught
  <2>4. SealedIsReplayed'
    BY <1>0, <1>b, <1>r, <1>13 DEF Pipeline!Gate, Pipeline!Stopped, Pipeline!Caught
  <2>5. PlanIsKept'
    BY <1>0, <1>b, <1>r, <1>13 DEF Pipeline!Gate, Pipeline!Stopped, Pipeline!Caught
  <2>6. Pipeline!PlanIsEarned'
    BY <1>0, <1>b, <1>r, <1>13 DEF Pipeline!Gate, Pipeline!Stopped, Pipeline!Caught
  <2>7. Pipeline!PlanIsClaimed'
    BY <1>0, <1>b, <1>r, <1>13 DEF Pipeline!Gate, Pipeline!Stopped, Pipeline!Caught
  <2> QED
    BY <2>1, <2>2, <2>3, <2>4, <2>5, <2>6, <2>7
<1>14. CASE Pipeline!Pend
  <2>f. floor # None /\ mode = "live" /\ pairs = Pairs /\ step = "pend" =>
           Confirmed(Pipeline!Plan(floor, pairs, pairTokens))
    BY <1>0, PlanIsTyped DEF Pipeline!Eligible
  <2>1. Pipeline!TypeOK'
    BY <1>0, <1>b, <1>r, <1>14, <2>f DEF Pipeline!Pend, Pipeline!Stopped, Pipeline!Caught
  <2>2. SearchIsOpen'
    BY <1>0, <1>b, <1>r, <1>14, <2>f DEF Pipeline!Pend, Pipeline!Stopped, Pipeline!Caught
  <2>3. ConfirmedAreSame'
    BY <1>0, <1>b, <1>r, <1>14, <2>f DEF Pipeline!Pend, Pipeline!Stopped, Pipeline!Caught
  <2>4. SealedIsReplayed'
    BY <1>0, <1>b, <1>r, <1>14, <2>f DEF Pipeline!Pend, Pipeline!Stopped, Pipeline!Caught
  <2>5. PlanIsKept'
    BY <1>0, <1>b, <1>r, <1>14, <2>f DEF Pipeline!Pend, Pipeline!Stopped, Pipeline!Caught
  <2>6. Pipeline!PlanIsEarned'
    BY <1>0, <1>b, <1>r, <1>14, <2>f DEF Pipeline!Pend, Pipeline!Stopped, Pipeline!Caught
  <2>7. Pipeline!PlanIsClaimed'
    BY <1>0, <1>b, <1>r, <1>14, <2>f DEF Pipeline!Pend, Pipeline!Stopped, Pipeline!Caught
  <2> QED
    BY <2>1, <2>2, <2>3, <2>4, <2>5, <2>6, <2>7
<1>15. CASE Pipeline!Replay
  <2>1. Pipeline!TypeOK'
    BY <1>0, <1>b, <1>r, <1>15 DEF Pipeline!Replay, Pipeline!Replayable, Pipeline!Stopped, Pipeline!Caught
  <2>2. SearchIsOpen'
    BY <1>0, <1>b, <1>r, <1>15 DEF Pipeline!Replay, Pipeline!Replayable, Pipeline!Stopped, Pipeline!Caught
  <2>3. ConfirmedAreSame'
    BY <1>0, <1>b, <1>r, <1>15 DEF Pipeline!Replay, Pipeline!Replayable, Pipeline!Stopped, Pipeline!Caught
  <2>4. SealedIsReplayed'
    BY <1>0, <1>b, <1>r, <1>15 DEF Pipeline!Replay, Pipeline!Replayable, Pipeline!Stopped, Pipeline!Caught
  <2>5. PlanIsKept'
    BY <1>0, <1>b, <1>r, <1>15 DEF Pipeline!Replay, Pipeline!Replayable, Pipeline!Stopped, Pipeline!Caught
  <2>6. Pipeline!PlanIsEarned'
    BY <1>0, <1>b, <1>r, <1>15 DEF Pipeline!Replay, Pipeline!Replayable, Pipeline!Stopped, Pipeline!Caught
  <2>7. Pipeline!PlanIsClaimed'
    BY <1>0, <1>b, <1>r, <1>15 DEF Pipeline!Replay, Pipeline!Replayable, Pipeline!Stopped, Pipeline!Caught
  <2> QED
    BY <2>1, <2>2, <2>3, <2>4, <2>5, <2>6, <2>7
<1>16. CASE Pipeline!Explain
  <2>0. sealed' \in BOOLEAN
    BY <1>16, Zenon DEF Pipeline!Explain, Pipeline!Stopped, Pipeline!Caught
  <2>1. Pipeline!TypeOK'
    BY <1>0, <1>b, <1>r, <1>16, <2>0 DEF Pipeline!Explain, Pipeline!Stopped, Pipeline!Caught
  <2>2. SearchIsOpen'
    BY <1>0, <1>b, <1>r, <1>16, <2>0 DEF Pipeline!Explain, Pipeline!Stopped, Pipeline!Caught
  <2>3. ConfirmedAreSame'
    BY <1>0, <1>b, <1>r, <1>16, <2>0 DEF Pipeline!Explain, Pipeline!Stopped, Pipeline!Caught
  <2>4. SealedIsReplayed'
    BY <1>0, <1>b, <1>r, <1>16, <2>0 DEF Pipeline!Explain, Pipeline!Stopped, Pipeline!Caught
  <2>5. PlanIsKept'
    BY <1>0, <1>b, <1>r, <1>16, <2>0 DEF Pipeline!Explain, Pipeline!Stopped, Pipeline!Caught
  <2>6. Pipeline!PlanIsEarned'
    BY <1>0, <1>b, <1>r, <1>16, <2>0 DEF Pipeline!Explain, Pipeline!Stopped, Pipeline!Caught
  <2>7. Pipeline!PlanIsClaimed'
    BY <1>0, <1>b, <1>r, <1>16, <2>0 DEF Pipeline!Explain, Pipeline!Stopped, Pipeline!Caught
  <2> QED
    BY <2>1, <2>2, <2>3, <2>4, <2>5, <2>6, <2>7
<1>17. CASE Pipeline!Publish
  <2>0. step = "publish" /\ sealed = TRUE /\ sealed' \in BOOLEAN
    BY <1>17, Zenon DEF Pipeline!Publish, Pipeline!Stopped, Pipeline!Caught
  <2>g. explanation # None /\ explanation.sealed = TRUE /\ explanation.replay = replay
    <3>1. explanation = Pipeline!Report
      BY <2>0
    <3>2. explanation.sealed = TRUE /\ explanation.replay = replay
      BY <2>0, <3>1, Zenon
    <3> QED
      BY <1>r, <3>1, <3>2
  <2>1. CASE Pipeline!Stopped
    <3>1. Pipeline!TypeOK'
      BY <1>0, <1>17, <2>0, <2>g, <2>1 DEF Pipeline!Stopped, Pipeline!Caught
    <3>2. SearchIsOpen'
      BY <1>0, <1>17, <2>0, <2>g, <2>1 DEF Pipeline!Stopped, Pipeline!Caught
    <3>3. ConfirmedAreSame'
      BY <1>0, <1>17, <2>0, <2>g, <2>1 DEF Pipeline!Stopped, Pipeline!Caught
    <3>4. SealedIsReplayed'
      BY <1>0, <1>17, <2>0, <2>g, <2>1 DEF Pipeline!Stopped, Pipeline!Caught
    <3>5. PlanIsKept'
      BY <1>0, <1>17, <2>0, <2>g, <2>1 DEF Pipeline!Stopped, Pipeline!Caught
    <3>6. Pipeline!PlanIsEarned'
      BY <1>0, <1>17, <2>0, <2>g, <2>1 DEF Pipeline!Stopped, Pipeline!Caught
    <3>7. Pipeline!PlanIsClaimed'
      BY <1>0, <1>17, <2>0, <2>g, <2>1 DEF Pipeline!Stopped, Pipeline!Caught
    <3> QED
      BY <3>1, <3>2, <3>3, <3>4, <3>5, <3>6, <3>7
  <2>2. CASE mode = "live" /\ plan' = pending /\ UNCHANGED <<explanation, pending, summaries>>
             /\ Pipeline!Goto("floor") /\ UNCHANGED <<Pipeline!searching, Pipeline!confirming, Pipeline!verdict>>
    <3>1. Pipeline!TypeOK'
      BY <1>0, <2>0, <2>g, <2>2 DEF Pipeline!Publish
    <3>2. SearchIsOpen'
      BY <1>0, <2>0, <2>g, <2>2 DEF Pipeline!Publish
    <3>3. ConfirmedAreSame'
      BY <1>0, <2>0, <2>g, <2>2 DEF Pipeline!Publish
    <3>4. SealedIsReplayed'
      BY <1>0, <2>0, <2>g, <2>2 DEF Pipeline!Publish
    <3>5. PlanIsKept'
      BY <1>0, <2>0, <2>g, <2>2 DEF Pipeline!Publish
    <3>6. Pipeline!PlanIsEarned'
      BY <1>0, <2>0, <2>g, <2>2 DEF Pipeline!Publish
    <3>7. Pipeline!PlanIsClaimed'
      BY <1>0, <2>0, <2>g, <2>2 DEF Pipeline!Publish
    <3> QED
      BY <3>1, <3>2, <3>3, <3>4, <3>5, <3>6, <3>7
  <2>3. CASE mode = "recorded" /\ plan' = Pipeline!Plan(floor, pairs, pairTokens)
             /\ UNCHANGED <<explanation, pending, summaries>> /\ Pipeline!Over("RECORDED-REPLAY")
    <3>p. plan' \in Pipeline!Plans /\ plan'.tokens = {"same"} /\ plan'.made # "live" /\ plan' # None
      BY <1>0, <2>0, <2>3, PlanIsTyped
    <3>1. Pipeline!TypeOK'
      BY <1>0, <1>b, <2>0, <2>g, <2>3, <3>p DEF Pipeline!Publish
    <3>2. SearchIsOpen'
      BY <1>0, <1>b, <2>0, <2>g, <2>3, <3>p DEF Pipeline!Publish
    <3>3. ConfirmedAreSame'
      BY <1>0, <1>b, <2>0, <2>g, <2>3, <3>p DEF Pipeline!Publish
    <3>4. SealedIsReplayed'
      BY <1>0, <1>b, <2>0, <2>g, <2>3, <3>p DEF Pipeline!Publish
    <3>5. PlanIsKept'
      BY <1>0, <1>b, <2>0, <2>g, <2>3, <3>p DEF Pipeline!Publish
    <3>6. Pipeline!PlanIsEarned'
      BY <1>0, <1>b, <2>0, <2>g, <2>3, <3>p DEF Pipeline!Publish
    <3>7. Pipeline!PlanIsClaimed'
      BY <1>0, <1>b, <2>0, <2>g, <2>3, <3>p DEF Pipeline!Publish
    <3> QED
      BY <3>1, <3>2, <3>3, <3>4, <3>5, <3>6, <3>7
  <2> QED
    BY <1>17, <2>1, <2>2, <2>3 DEF Pipeline!Publish
<1>18. CASE Pipeline!Summarise
  <2>0. sealed' \in BOOLEAN
    BY <1>18, Zenon DEF Pipeline!Summarise, Pipeline!Stopped, Pipeline!Caught
  <2>1. Pipeline!TypeOK'
    BY <1>0, <1>b, <1>r, <1>18, <2>0 DEF Pipeline!Summarise, Pipeline!Stopped, Pipeline!Caught
  <2>2. SearchIsOpen'
    BY <1>0, <1>b, <1>r, <1>18, <2>0 DEF Pipeline!Summarise, Pipeline!Stopped, Pipeline!Caught
  <2>3. ConfirmedAreSame'
    BY <1>0, <1>b, <1>r, <1>18, <2>0 DEF Pipeline!Summarise, Pipeline!Stopped, Pipeline!Caught
  <2>4. SealedIsReplayed'
    BY <1>0, <1>b, <1>r, <1>18, <2>0 DEF Pipeline!Summarise, Pipeline!Stopped, Pipeline!Caught
  <2>5. PlanIsKept'
    BY <1>0, <1>b, <1>r, <1>18, <2>0 DEF Pipeline!Summarise, Pipeline!Stopped, Pipeline!Caught
  <2>6. Pipeline!PlanIsEarned'
    BY <1>0, <1>b, <1>r, <1>18, <2>0 DEF Pipeline!Summarise, Pipeline!Stopped, Pipeline!Caught
  <2>7. Pipeline!PlanIsClaimed'
    BY <1>0, <1>b, <1>r, <1>18, <2>0 DEF Pipeline!Summarise, Pipeline!Stopped, Pipeline!Caught
  <2> QED
    BY <2>1, <2>2, <2>3, <2>4, <2>5, <2>6, <2>7
<1> QED
  BY <1>1, <1>2, <1>3, <1>4, <1>5, <1>6, <1>7, <1>8, <1>9, <1>10, <1>11, <1>12, <1>13, <1>14, <1>15, <1>16, <1>17, <1>18
     DEF Pipeline!Next, Pipeline!Compile

===============================================================================
