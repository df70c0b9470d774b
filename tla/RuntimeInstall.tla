---------------------------- MODULE RuntimeInstall ----------------------------
(***************************************************************************)
(* `expertflow local install-runtime': an archive is downloaded block by   *)
(* block into a .part file, resumed by later attempts and later calls,     *)
(* checked against its digest, renamed to .download, extracted into a      *)
(* staging directory and renamed to the destination.  The network may      *)
(* fail, the asset may be published again, files may be damaged between    *)
(* calls, and a call may be killed between any two steps.                  *)
(*                                                                         *)
(* The content of a file is the sequence of its blocks: TRUE is the block  *)
(* the requested archive has at that place, FALSE is any other.  The calls *)
(* for one destination follow each other.                                  *)
(***************************************************************************)
EXTENDS Integers, SequencesExt

CONSTANTS
    None,           \* no file
    Size,           \* number of blocks of the archive
    MaxNetFaults    \* bound: failures, kills and changes by others in all

RuntimeInstallAssumption ==
    /\ Size \in Nat \ {0} /\ MaxNetFaults \in Nat
    /\ None \notin Seq(BOOLEAN)

Attempts == 3

VARIABLES
    (* environment *)
    netFaults,      \* faults so far
    genuine,        \* the URL serves the requested archive
    (* disk *)
    part,           \* .download.part: None or its blocks
    archive,        \* .download: None or its blocks
    installed,      \* the destination directory: None or the blocks it came from
    (* the running call *)
    where,          \* where it is
    attempt,        \* attempts of the loop that are over
    sent,           \* blocks of the archive the response has passed
    source,         \* genuine when the response began
    staged,         \* the staging directory: None or the blocks extracted
    answer,         \* of the last call: "none", "installed", "raised", "killed"
    (* history of the call, for the properties *)
    clean,          \* no fault since it began, on files that are what it would have left
    began           \* length of the .part it found

diskFiles == <<part, archive, installed>>
transfer == <<attempt, sent, source>>
history == <<clean, began>>
installVars == <<netFaults, genuine, diskFiles, where, transfer, staged, answer, history>>

Whole == [i \in 1..Size |-> TRUE]
Offset == IF part = None THEN 0 ELSE Len(part)

Init ==
    /\ netFaults = 0 /\ genuine \in BOOLEAN
    /\ part = None /\ archive = None /\ installed = None
    /\ where = "idle" /\ attempt = 0 /\ sent = 0 /\ source = TRUE /\ staged = None
    /\ answer = "none" /\ clean = FALSE /\ began = 0

Fault ==
    /\ netFaults < MaxNetFaults
    /\ netFaults' = netFaults + 1

(* The call is over: its variables are gone, its staging directory is left behind. *)
Return(a) ==
    /\ where' = "idle" /\ answer' = a
    /\ attempt' = 0 /\ sent' = 0 /\ source' = TRUE /\ staged' = None

Goto(l) == where' = l /\ UNCHANGED <<staged, answer>>

Start ==
    /\ where = "idle"
    /\ where' = "look" /\ answer' = "none"
    /\ began' = Offset
    /\ clean' = /\ genuine /\ installed = None
                /\ archive \in {None, Whole} /\ (part = None \/ IsPrefix(part, Whole))
    /\ UNCHANGED <<netFaults, genuine, diskFiles, transfer, staged>>

-----------------------------------------------------------------------------
(* download_archive *)

(* Faulty: a file that has the archive's name is the archive. *)
LookByName ==
    /\ where = "look"
    /\ IF archive = None THEN Goto("request") ELSE Goto("stage")
    /\ UNCHANGED <<netFaults, genuine, diskFiles, transfer, history>>

Look ==
    /\ where = "look"
    /\ \/ archive = None /\ Goto("request") /\ UNCHANGED transfer
       \/ archive = Whole /\ Goto("stage") /\ UNCHANGED transfer
       \/ archive \notin {None, Whole} /\ Return("raised")
    /\ UNCHANGED <<netFaults, genuine, diskFiles, history>>

(* The attempts of the loop are counted by the handler of URLError and OSError. *)
(* Faulty: they are not.                                                         *)
AttemptForever ==
    /\ where = "again"
    /\ Goto("request") /\ UNCHANGED transfer
    /\ UNCHANGED <<netFaults, genuine, diskFiles, history>>

Again ==
    /\ where = "again"
    /\ IF attempt = Attempts - 1 THEN Return("raised")
       ELSE attempt' = attempt + 1 /\ Goto("request") /\ UNCHANGED <<sent, source>>
    /\ UNCHANGED <<netFaults, genuine, diskFiles, history>>

(* Faulty: it is opened "wb" for every response. *)
OpenTruncates(from) == part' = <<>>

(* The .part file is opened "ab" for a response that resumes and "wb" otherwise. *)
Open(from) == part' = IF from > 0 THEN part ELSE <<>>

(* A server that honours Range has nothing to send past the end: it answers 416. *)
Respond ==
    /\ where = "request"
    /\ \/ Offset = Size /\ Goto("again") /\ UNCHANGED <<part, transfer>>
       \/ \E from \in {0, Offset} \ {Size} :
             /\ Open(from) /\ sent' = from /\ source' = genuine
             /\ Goto("read") /\ UNCHANGED attempt
    /\ UNCHANGED <<netFaults, genuine, archive, installed, history>>

(* No connection, an error status, or a range that was not asked for. *)
RequestFails ==
    /\ where = "request" /\ Fault /\ clean' = FALSE
    /\ \/ Goto("again") /\ UNCHANGED transfer
       \/ Offset > 0 /\ Return("raised")
    /\ UNCHANGED <<genuine, diskFiles, began>>

Read ==
    /\ where = "read" /\ sent < Size
    /\ part' = Append(part, source /\ sent = Len(part))
    /\ sent' = sent + 1
    /\ UNCHANGED <<netFaults, genuine, archive, installed, where, attempt, source, staged,
                   answer, history>>

EndOfBody ==
    /\ where = "read" /\ sent = Size
    /\ Goto("check")
    /\ UNCHANGED <<netFaults, genuine, diskFiles, transfer, history>>

(* A body that is cut: the read times out, or returns nothing more, or raises an *)
(* error that the handler does not know.  The disk may be full.                  *)
ReadFails ==
    /\ where = "read" /\ Fault /\ clean' = FALSE
    /\ \/ Goto("again") /\ UNCHANGED transfer
       \/ Goto("check") /\ UNCHANGED transfer
       \/ Return("raised")
    /\ UNCHANGED <<genuine, diskFiles, began>>

(* Faulty: the digest is not compared. *)
CheckLength ==
    /\ where = "check"
    /\ IF Len(part) = Size THEN Goto("place") /\ UNCHANGED transfer ELSE Return("raised")
    /\ UNCHANGED <<netFaults, genuine, diskFiles, history>>

Check ==
    /\ where = "check"
    /\ IF part = Whole THEN Goto("place") /\ UNCHANGED transfer ELSE Return("raised")
    /\ UNCHANGED <<netFaults, genuine, diskFiles, history>>

Place ==
    /\ where = "place"
    /\ archive' = part /\ part' = None
    /\ Goto("stage")
    /\ UNCHANGED <<netFaults, genuine, installed, transfer, history>>

-----------------------------------------------------------------------------
(* install_archive *)

Stage ==
    /\ where = "stage"
    /\ IF installed # None THEN Return("raised")
       ELSE /\ staged' = <<>> /\ where' = "extract"
            /\ UNCHANGED <<answer, transfer>>
    /\ UNCHANGED <<netFaults, genuine, diskFiles, history>>

(* Faulty: the archive is extracted where it is to be installed. *)
ExtractInPlace ==
    /\ where = "extract" /\ Len(staged) < Len(archive)
    /\ staged' = Append(staged, archive[Len(staged) + 1]) /\ installed' = staged'
    /\ UNCHANGED <<netFaults, genuine, part, archive, where, transfer, answer, history>>

Extract ==
    /\ where = "extract" /\ Len(staged) < Len(archive)
    /\ staged' = Append(staged, archive[Len(staged) + 1])
    /\ UNCHANGED <<netFaults, genuine, diskFiles, where, transfer, answer, history>>

(* The disk is full, or an entry or the directory is not what is expected. *)
ExtractFails ==
    /\ where = "extract" /\ Fault /\ clean' = FALSE
    /\ Return("raised")
    /\ UNCHANGED <<genuine, diskFiles, began>>

Rename ==
    /\ where = "extract" /\ Len(staged) = Len(archive)
    /\ installed' = staged
    /\ Return("installed")
    /\ UNCHANGED <<netFaults, genuine, part, archive, history>>

-----------------------------------------------------------------------------
(* The environment *)

Die ==
    /\ where # "idle" /\ Fault
    /\ Return("killed") /\ clean' = FALSE
    /\ UNCHANGED <<genuine, diskFiles, began>>

(* Another archive is published under the URL. *)
Republish ==
    /\ Fault
    /\ genuine' = ~genuine /\ clean' = FALSE
    /\ UNCHANGED <<diskFiles, where, transfer, staged, answer, began>>

(* A file of the download is damaged, between two calls. *)
Damage ==
    /\ where = "idle" /\ Fault
    /\ \/ Offset > 0 /\ part' = [part EXCEPT ![1] = FALSE] /\ UNCHANGED archive
       \/ archive # None /\ archive' = [archive EXCEPT ![1] = FALSE] /\ UNCHANGED part
    /\ UNCHANGED <<genuine, installed, where, transfer, staged, answer, history>>

Call ==
    \/ Look \/ Again \/ Respond \/ Read \/ EndOfBody \/ Check \/ Place
    \/ Stage \/ Extract \/ Rename
Fails == RequestFails \/ ReadFails \/ ExtractFails

Next == Start \/ Call \/ Fails \/ Die \/ Republish \/ Damage

Spec == Init /\ [][Next]_installVars

(* A call goes on until it returns: connecting and reading have a timeout. *)
FairSpec == Spec /\ WF_installVars(Call)

-----------------------------------------------------------------------------
(* Correctness properties *)

Blocks == {None} \cup UNION {[1..n -> BOOLEAN] : n \in 0..Size}

(* Kinds of values; a staging directory and a transfer belong to a call. *)
TypeOK ==
    /\ netFaults \in 0..MaxNetFaults /\ genuine \in BOOLEAN
    /\ part \in Blocks /\ archive \in Blocks /\ installed \in Blocks
    /\ where \in {"idle", "look", "request", "again", "read", "check", "place", "stage", "extract"}
    /\ attempt \in 0..Attempts - 1 /\ sent \in 0..Size /\ source \in BOOLEAN
    /\ answer \in {"none", "installed", "raised", "killed"}
    /\ clean \in BOOLEAN /\ began \in 0..Size
    /\ staged \in Blocks /\ (staged # None <=> where = "extract")
    /\ where \in {"read", "check", "place"} => part # None
    /\ where \in {"idle", "look"} => attempt = 0 /\ sent = 0

(***************************************************************************)
(* What stands at the destination is the whole of the requested archive,   *)
(* whatever was resumed, served, damaged or killed before.                 *)
(***************************************************************************)
InstalledIsVerified == installed \in {None, Whole}

(***************************************************************************)
(* "Downloads are resumable" (docs/local-quickstart.md:58): a call that    *)
(* meets no fault and begins with the beginning of the archive in .part    *)
(* does not fail.                                                          *)
(***************************************************************************)
ResumeSucceeds == clean => answer # "raised"

(* It does not, as long as the .part file it found was not complete. *)
PrefixResumes == began < Size => ResumeSucceeds

InstallIsSound == InstalledIsVerified /\ PrefixResumes

(* What was installed is never removed or replaced by a later call. *)
KeepsInstalled == installed # None => installed' = installed
InstalledIsKept == [][KeepsInstalled]_installed

(* No call runs: under FairSpec that is so again and again. *)
Idle == where = "idle"
=============================================================================
