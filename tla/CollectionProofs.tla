--------------------------- MODULE CollectionProofs ---------------------------
(***************************************************************************)
(* Proofs about the collections of MCComponents: however often one is      *)
(* resumed, and whatever its collectors and probes leave behind, the       *)
(* recorded attempts stay and the counts agree with them.                  *)
(***************************************************************************)
EXTENDS Commands, SequenceTheorems, FiniteSetTheorems, TLAPS

-----------------------------------------------------------------------------
(* The inductive invariant *)

Contents  == Nat \cup {None}
FilePairs == [baseline : Contents, instrumented : Contents]
Recorded  == [files : FilePairs, status : Collection!Statuses]
Histories == [Collection!Conversations -> Seq(Recorded)]

(* What is recorded, and what the directories hold; a call works on its own copy. *)
HistoriesAreTyped ==
    /\ disk \in [Collection!Conversations -> Seq(FilePairs)]
    /\ manifest \in Histories /\ report \in Histories
    /\ faults \in Nat /\ calls \in Nat /\ conv \in 1..(Corpus + 1)
    /\ at \in {"idle", "next", "baseline", "instrumented", "append"}
    /\ at # "idle" => report = manifest
    /\ at = "idle" => conv = 1 /\ passed = 0 /\ failed = 0

(* A conversation has at most one directory that is not recorded yet: the one *)
(* that the attempt at hand, or a later one, is made in.                      *)
OneIsUnrecorded ==
    /\ \A c \in Collection!Conversations :
          Len(manifest[c]) <= Len(disk[c]) /\ Len(disk[c]) <= Len(manifest[c]) + 1
    /\ at \in {"baseline", "instrumented", "append"} =>
          conv \in Collection!Conversations /\ Len(disk[conv]) = Len(manifest[conv]) + 1
    /\ \A o \in orphans : /\ o.conv \in Collection!Conversations
                          /\ o.index \in 1..Len(disk[o.conv])
                          /\ o.which \in {"baseline", "instrumented"} /\ o.call \in Nat

(* The files of the attempt at hand are those of this call, as far as its     *)
(* probes ended well and nothing else wrote them.                             *)
AtHand == Len(manifest[conv]) + 1

FilesAreOfThisCall ==
    /\ at \in {"idle", "next", "baseline"} => exits = <<>>
    /\ at = "instrumented" => exits \in {<<0>>, <<1>>, <<2>>}
    /\ at = "instrumented" /\ exits = <<0>> /\ <<conv, AtHand>> \notin spoiled =>
          disk[conv][AtHand].baseline = calls
    /\ at = "append" => exits \in {<<i, j>> : i \in 0..2, j \in 0..2}
    /\ at = "append" /\ exits = <<0, 0>> /\ <<conv, AtHand>> \notin spoiled =>
          disk[conv][AtHand].baseline = calls /\ disk[conv][AtHand].instrumented = calls

(* The counts of a call are those of the conversations it is through with. *)
PassedBefore(n) == {c \in 1..(n - 1) : Collection!ValidAsRecorded(c, manifest)}

CountsAreSoFar ==
    at # "idle" =>
        /\ exitCode = None
        /\ passed \in Nat /\ failed \in Nat /\ passed + failed = conv - 1
        /\ passed = Cardinality(PassedBefore(conv))
        /\ failed = 0 => PassedBefore(conv) = 1..(conv - 1)

CollectInv ==
    /\ HistoriesAreTyped /\ OneIsUnrecorded /\ FilesAreOfThisCall /\ CountsAreSoFar
    /\ Collection!ArtifactsAreKept /\ Collection!PassedIsOnePair /\ Collection!SummaryIsTrue
-----------------------------------------------------------------------------
(* Files, attempts and counts *)

Written(c, k, which, n) == disk' = [disk EXCEPT ![c][k][which] = n]

LEMMA FileIsWritten ==
  ASSUME disk \in [Collection!Conversations -> Seq(FilePairs)],
         NEW c \in Collection!Conversations, NEW k \in 1..Len(disk[c]),
         NEW which \in {"baseline", "instrumented"}, NEW n \in Contents,
         Written(c, k, which, n)
  PROVE  /\ disk' \in [Collection!Conversations -> Seq(FilePairs)]
         /\ \A x \in Collection!Conversations : Len(disk'[x]) = Len(disk[x])
         /\ \A x \in Collection!Conversations : \A i \in 1..Len(disk[x]) :
               x # c \/ i # k => disk'[x][i] = disk[x][i]
         /\ disk'[c][k] = [disk[c][k] EXCEPT ![which] = n]
<1> DEFINE f == [disk[c][k] EXCEPT ![which] = n]
<1>1. disk[c] \in Seq(FilePairs) /\ disk[c][k] \in FilePairs
  BY ElementOfSeq
<1>2. f \in FilePairs
  BY <1>1 DEF FilePairs
<1>3. /\ [disk[c] EXCEPT ![k] = f] \in Seq(FilePairs)
      /\ Len([disk[c] EXCEPT ![k] = f]) = Len(disk[c])
      /\ \A i \in 1..Len(disk[c]) : [disk[c] EXCEPT ![k] = f][i] = IF i = k THEN f ELSE disk[c][i]
  BY <1>1, <1>2, ExceptSeq
<1>4. disk' = [disk EXCEPT ![c] = [disk[c] EXCEPT ![k] = f]]
  BY DEF Written
<1> QED
  BY <1>1, <1>3, <1>4

LEMMA OneMore == ASSUME NEW m, NEW n PROVE Append(<<m>>, n) = <<m, n>>
<1>1. <<m>> \in Seq({m, n}) /\ <<m, n>> \in Seq({m, n})
  OBVIOUS
<1>2. /\ Append(<<m>>, n) \in Seq({m, n}) /\ Len(Append(<<m>>, n)) = 2
      /\ Append(<<m>>, n)[1] = m /\ Append(<<m>>, n)[2] = n
  BY <1>1, AppendProperties
<1>3. \A i \in 1..2 : Append(<<m>>, n)[i] = <<m, n>>[i]
  BY <1>2
<1> QED
  BY <1>1, <1>2, <1>3, SeqEqual

LEMMA AppendTo ==
  ASSUME NEW S, NEW h \in [Collection!Conversations -> Seq(S)],
         NEW c \in Collection!Conversations, NEW x \in S
  PROVE  LET e == [h EXCEPT ![c] = Append(@, x)]
         IN  /\ e \in [Collection!Conversations -> Seq(S)]
             /\ Len(e[c]) = Len(h[c]) + 1 /\ e[c][Len(h[c]) + 1] = x
             /\ \A i \in 1..Len(h[c]) : e[c][i] = h[c][i]
             /\ \A y \in Collection!Conversations : y # c => e[y] = h[y]
<1>1. h[c] \in Seq(S)
  OBVIOUS
<1>2. /\ Append(h[c], x) \in Seq(S) /\ Len(Append(h[c], x)) = Len(h[c]) + 1
      /\ Append(h[c], x)[Len(h[c]) + 1] = x
      /\ \A i \in 1..Len(h[c]) : Append(h[c], x)[i] = h[c][i]
  BY <1>1, AppendProperties
<1> QED
  BY <1>2
-----------------------------------------------------------------------------
(* Every step keeps the invariant *)

LEMMA SameCardinality == \A S : Collection!Cardinality(S) = Cardinality(S)
  BY DEF Collection!Cardinality, Cardinality

LEMMA CollectInit == ASSUME Collection!TraceCollectionAssumption, Collection!Init PROVE CollectInv
<1> USE DEF Collection!TraceCollectionAssumption, Collection!Init, Collection!Conversations
<1>1. HistoriesAreTyped
  BY DEF HistoriesAreTyped, Histories
<1>2. OneIsUnrecorded /\ FilesAreOfThisCall /\ CountsAreSoFar
  BY DEF OneIsUnrecorded, FilesAreOfThisCall, CountsAreSoFar
<1>3. Collection!ArtifactsAreKept /\ Collection!PassedIsOnePair /\ Collection!SummaryIsTrue
  BY DEF Collection!ArtifactsAreKept, Collection!PassedIsOnePair, Collection!SummaryIsTrue
<1> QED
  BY <1>1, <1>2, <1>3 DEF CollectInv

(* The records stand when nothing but a spoiled directory of them changes. *)
LEMMA RecordsStand ==
  ASSUME CollectInv, manifest' = manifest, spoiled \subseteq spoiled',
         \A c \in Collection!Conversations : \A k \in 1..Len(manifest[c]) :
            <<c, k>> \notin spoiled' => disk'[c][k] = disk[c][k]
  PROVE  Collection!ArtifactsAreKept' /\ Collection!PassedIsOnePair'
<1>1. Collection!ArtifactsAreKept'
  BY DEF CollectInv, Collection!ArtifactsAreKept
<1>2. Collection!PassedIsOnePair'
  <2> SUFFICES ASSUME NEW c \in Collection!Conversations, NEW k \in 1..Len(manifest[c]),
                      manifest[c][k].status = "passed", <<c, k>> \notin spoiled'
               PROVE  /\ manifest[c][k].files.baseline # None
                      /\ manifest[c][k].files.instrumented = manifest[c][k].files.baseline
    BY DEF Collection!PassedIsOnePair
  <2> QED
    BY DEF CollectInv, Collection!PassedIsOnePair
<1> QED
  BY <1>1, <1>2

LEMMA SummaryStands ==
  ASSUME Collection!TraceCollectionAssumption, CollectInv, manifest' = manifest, summary' = summary,
         exitCode' \in {exitCode, None, 2}
  PROVE  Collection!SummaryIsTrue'
<1>1. Collection!RecordedPassed' = Collection!RecordedPassed
  BY DEF Collection!RecordedPassed, Collection!ValidAsRecorded
<1> QED
  BY <1>1 DEF CollectInv, Collection!SummaryIsTrue, Collection!TraceCollectionAssumption

(* A call that leaves forgets what it had in memory. *)
LEMMA CallLeaves ==
  ASSUME Collection!TraceCollectionAssumption, CollectInv, NEW code, Collection!Leave(code),
         manifest' = manifest, faults' \in Nat, disk' = disk,
         \/ orphans' = orphans
         \/ /\ at \in {"baseline", "instrumented"}
            /\ orphans' = orphans \cup {[conv |-> conv, index |-> Collection!Index(conv, report),
                                         which |-> at, call |-> calls]}
  PROVE  HistoriesAreTyped' /\ OneIsUnrecorded' /\ FilesAreOfThisCall' /\ CountsAreSoFar'
<1> USE DEF Collection!Leave, Collection!Goto
<1>1. HistoriesAreTyped'
  BY EmptySeq DEF CollectInv, HistoriesAreTyped, Histories, Collection!TraceCollectionAssumption
<1>2. OneIsUnrecorded'
  <2>1. at' = "idle" /\ \A c \in Collection!Conversations : Len(manifest[c]) \in Nat
    BY LenProperties DEF CollectInv, HistoriesAreTyped, Histories
  <2>2. ASSUME at \in {"baseline", "instrumented"}
        PROVE  /\ conv \in Collection!Conversations /\ calls \in Nat
               /\ Collection!Index(conv, report) = Len(manifest[conv]) + 1
               /\ Len(disk[conv]) = Len(manifest[conv]) + 1
    BY <2>2 DEF CollectInv, HistoriesAreTyped, OneIsUnrecorded, Collection!Index
  <2> QED
    BY <2>1, <2>2 DEF CollectInv, OneIsUnrecorded
<1>3. FilesAreOfThisCall' /\ CountsAreSoFar'
  BY DEF FilesAreOfThisCall, CountsAreSoFar
<1> QED
  BY <1>1, <1>2, <1>3

-----------------------------------------------------------------------------
(* Every step keeps the invariant *)

LEMMA StartStep ==
  ASSUME Collection!TraceCollectionAssumption, CollectInv, Collection!Start
  PROVE  CollectInv'
<1> USE DEF Collection!Start, Collection!Fault
<1>1. HistoriesAreTyped'
  BY DEF CollectInv, HistoriesAreTyped, Collection!callVars, Collection!tally
<1>2. OneIsUnrecorded'
  BY DEF CollectInv, OneIsUnrecorded, Collection!callVars
<1>3. FilesAreOfThisCall'
  BY DEF CollectInv, HistoriesAreTyped, FilesAreOfThisCall, Collection!callVars
<1>4. CountsAreSoFar'
  <2>1. CASE at' = "idle"
    BY <2>1 DEF CountsAreSoFar
  <2>2. CASE at' # "idle"
    <3>1. conv' = 1 /\ passed' = 0 /\ failed' = 0 /\ exitCode' = None
      BY <2>2 DEF CollectInv, HistoriesAreTyped, Collection!callVars, Collection!tally
    <3>2. PassedBefore(1)' = {}
      BY DEF PassedBefore
    <3> QED
      BY <3>1, <3>2, FS_EmptySet DEF CountsAreSoFar
  <2> QED
    BY <2>1, <2>2
<1>5. Collection!ArtifactsAreKept' /\ Collection!PassedIsOnePair'
  BY RecordsStand
<1>6. Collection!SummaryIsTrue'
  BY SummaryStands
<1> QED
  BY <1>1, <1>2, <1>3, <1>4, <1>5, <1>6 DEF CollectInv

LEMMA NextConversationStep ==
  ASSUME Collection!TraceCollectionAssumption, CollectInv, Collection!NextConversation
  PROVE  CollectInv'
<1>0. /\ conv \in Collection!Conversations /\ report = manifest /\ at = "next" /\ exitCode' = exitCode
      /\ manifest' = manifest /\ spoiled' = spoiled /\ orphans' = orphans /\ summary' = summary
      /\ faults' = faults
  BY DEF CollectInv, HistoriesAreTyped, Collection!NextConversation, Collection!Conversations,
         Collection!TraceCollectionAssumption
<1>1. CASE Collection!Valid(conv, report)
  <2>1. /\ passed' = passed + 1 /\ conv' = conv + 1 /\ at' = at /\ calls' = calls /\ disk' = disk
        /\ failed' = failed /\ report' = report /\ exits' = exits
    BY <1>1 DEF Collection!NextConversation
  <2>2. HistoriesAreTyped'
    BY <1>0, <2>1 DEF CollectInv, HistoriesAreTyped, Collection!Conversations,
                      Collection!TraceCollectionAssumption
  <2>3. OneIsUnrecorded' /\ FilesAreOfThisCall'
    BY <1>0, <2>1 DEF CollectInv, OneIsUnrecorded, FilesAreOfThisCall
  <2>4. CountsAreSoFar'
    <3>1. Collection!ValidAsRecorded(conv, manifest)
      BY <1>0, <1>1 DEF Collection!Valid, Collection!ValidAsRecorded
    <3>2. PassedBefore(conv)' = PassedBefore(conv) \cup {conv}
      BY <1>0, <2>1, <3>1 DEF PassedBefore, Collection!ValidAsRecorded, Collection!Conversations
    <3>3. CountsAreSoFar' <=>
             /\ passed' = Cardinality(PassedBefore(conv)')
             /\ failed = 0 => PassedBefore(conv)' = 1..conv
      BY <1>0, <2>1 DEF CountsAreSoFar, CollectInv, Collection!Conversations
    <3>4. IsFiniteSet(PassedBefore(conv)) /\ conv \notin PassedBefore(conv)
      BY <1>0, FS_Interval, FS_Subset DEF PassedBefore, Collection!Conversations
    <3>5. Cardinality(PassedBefore(conv) \cup {conv}) = Cardinality(PassedBefore(conv)) + 1
      BY <3>4, FS_AddElement
    <3>6. 1..conv = 1..(conv - 1) \cup {conv}
      BY <1>0 DEF Collection!Conversations
    <3>7. passed = Cardinality(PassedBefore(conv)) /\ (failed = 0 => PassedBefore(conv) = 1..(conv - 1))
      BY <1>0 DEF CollectInv, CountsAreSoFar
    <3> QED
      BY <2>1, <3>2, <3>3, <3>5, <3>6, <3>7
  <2> QED
    BY <1>0, <2>1, <2>2, <2>3, <2>4, RecordsStand, SummaryStands DEF CollectInv
<1>2. CASE ~Collection!Valid(conv, report)
  <2>1. /\ at' = "baseline" /\ calls' = calls /\ conv' = conv /\ report' = report
        /\ passed' = passed /\ failed' = failed /\ exits' = exits
        /\ disk' = IF Len(disk[conv]) >= Len(manifest[conv]) + 1 THEN disk
                   ELSE [disk EXCEPT ![conv] = Append(@, Collection!Files(None, None))]
    BY <1>0, <1>2 DEF Collection!NextConversation, Collection!Goto, Collection!Index, Collection!tally
  <2>2. Collection!Files(None, None) \in FilePairs
    BY DEF Collection!Files, FilePairs, Contents
  <2>3. /\ disk \in [Collection!Conversations -> Seq(FilePairs)]
        /\ \A c \in Collection!Conversations :
              Len(disk[c]) \in Nat /\ Len(manifest[c]) \in Nat
              /\ Len(manifest[c]) <= Len(disk[c]) /\ Len(disk[c]) <= Len(manifest[c]) + 1
    BY LenProperties DEF CollectInv, HistoriesAreTyped, Histories, OneIsUnrecorded
  <2>4. /\ disk' \in [Collection!Conversations -> Seq(FilePairs)]
        /\ Len(disk'[conv]) = Len(manifest[conv]) + 1
        /\ \A c \in Collection!Conversations :
              Len(disk[c]) <= Len(disk'[c]) /\ (c # conv => Len(disk'[c]) = Len(disk[c]))
        /\ \A c \in Collection!Conversations : \A k \in 1..Len(disk[c]) : disk'[c][k] = disk[c][k]
    <3>1. CASE Len(disk[conv]) >= Len(manifest[conv]) + 1
      <4>1. disk' = disk /\ Len(disk[conv]) = Len(manifest[conv]) + 1
        BY <1>0, <2>1, <2>3, <3>1
      <4> QED
        BY <2>3, <4>1
    <3>2. CASE ~(Len(disk[conv]) >= Len(manifest[conv]) + 1)
      <4>1. disk' = [disk EXCEPT ![conv] = Append(@, Collection!Files(None, None))]
        BY <2>1, <3>2
      <4>2. /\ disk' \in [Collection!Conversations -> Seq(FilePairs)]
            /\ Len(disk'[conv]) = Len(disk[conv]) + 1
            /\ \A k \in 1..Len(disk[conv]) : disk'[conv][k] = disk[conv][k]
            /\ \A c \in Collection!Conversations : c # conv => disk'[c] = disk[c]
        BY <1>0, <2>2, <2>3, <4>1, AppendTo
      <4>3. Len(disk[conv]) = Len(manifest[conv])
        BY <1>0, <2>3, <3>2
      <4>4. Len(disk'[conv]) = Len(manifest[conv]) + 1
        BY <4>2, <4>3
      <4>5. \A c \in Collection!Conversations :
               Len(disk[c]) <= Len(disk'[c]) /\ (c # conv => Len(disk'[c]) = Len(disk[c]))
        <5> TAKE c \in Collection!Conversations
        <5>1. Len(disk[c]) \in Nat
          BY <2>3
        <5> QED
          BY <4>2, <5>1
      <4>6. \A c \in Collection!Conversations : \A k \in 1..Len(disk[c]) : disk'[c][k] = disk[c][k]
        <5> TAKE c \in Collection!Conversations
        <5>1. CASE c = conv
          BY <4>2, <5>1
        <5>2. CASE c # conv
          BY <4>2, <5>2
        <5> QED
          BY <5>1, <5>2
      <4> QED
        BY <4>2, <4>4, <4>5, <4>6
    <3> QED
      BY <3>1, <3>2
  <2>5. HistoriesAreTyped'
    BY <1>0, <2>1, <2>4 DEF CollectInv, HistoriesAreTyped
  <2>6. OneIsUnrecorded'
    BY <1>0, <2>1, <2>3, <2>4 DEF CollectInv, OneIsUnrecorded
  <2>7. FilesAreOfThisCall'
    BY <1>0, <2>1 DEF CollectInv, HistoriesAreTyped, FilesAreOfThisCall
  <2>8. CountsAreSoFar'
    BY <1>0, <2>1 DEF CollectInv, CountsAreSoFar, PassedBefore, Collection!ValidAsRecorded
  <2>9. Collection!ArtifactsAreKept' /\ Collection!PassedIsOnePair'
    <3>1. \A c \in Collection!Conversations : \A k \in 1..Len(manifest[c]) : disk'[c][k] = disk[c][k]
      BY <2>3, <2>4
    <3> QED
      BY <1>0, <3>1, RecordsStand
  <2> QED
    BY <1>0, <2>5, <2>6, <2>7, <2>8, <2>9, SummaryStands DEF CollectInv
<1> QED
  BY <1>1, <1>2

(* A probe writes only the unrecorded directory of its attempt. *)
LEMMA ProbeStep ==
  ASSUME Collection!TraceCollectionAssumption, CollectInv,
         NEW which \in {"baseline", "instrumented"}, Collection!Probe(which)
  PROVE  CollectInv'
<1>0. /\ at = which /\ conv \in Collection!Conversations /\ report = manifest /\ conv' = conv
      /\ manifest' = manifest /\ report' = report /\ spoiled' = spoiled /\ orphans' = orphans
      /\ summary' = summary /\ exitCode' = exitCode /\ passed' = passed /\ failed' = failed
      /\ calls' = calls /\ faults' \in Nat /\ calls \in Nat
      /\ at' = IF which = "baseline" THEN "instrumented" ELSE "append"
  BY DEF CollectInv, HistoriesAreTyped, OneIsUnrecorded, Collection!Probe, Collection!Goto,
         Collection!Fault, Collection!tally
<1> DEFINE k == Len(manifest[conv]) + 1
           Wrote == Written(conv, k, which, calls)
<1>1. /\ disk' = disk \/ Wrote
      /\ \E n \in 0..2 : exits' = Append(exits, n) /\ (n = 0 => Wrote)
  BY <1>0 DEF Collection!Probe, Collection!Index, Written
<1>2. /\ disk \in [Collection!Conversations -> Seq(FilePairs)]
      /\ \A c \in Collection!Conversations :
            Len(disk[c]) \in Nat /\ Len(manifest[c]) \in Nat
            /\ Len(manifest[c]) <= Len(disk[c]) /\ Len(disk[c]) <= Len(manifest[c]) + 1
      /\ Len(disk[conv]) = k /\ k \in 1..Len(disk[conv])
  BY <1>0, LenProperties DEF CollectInv, HistoriesAreTyped, Histories, OneIsUnrecorded
<1>3. disk[conv][k] \in FilePairs
  BY <1>0, <1>2, ElementOfSeq
<1>4. ASSUME Wrote
      PROVE  /\ disk' \in [Collection!Conversations -> Seq(FilePairs)]
             /\ \A x \in Collection!Conversations : Len(disk'[x]) = Len(disk[x])
             /\ \A x \in Collection!Conversations : \A i \in 1..Len(disk[x]) :
                   x # conv \/ i # k => disk'[x][i] = disk[x][i]
             /\ disk'[conv][k] = [disk[conv][k] EXCEPT ![which] = calls]
  <2>1. /\ disk \in [Collection!Conversations -> Seq(FilePairs)] /\ conv \in Collection!Conversations
        /\ k \in 1..Len(disk[conv]) /\ calls \in Contents
    BY <1>0, <1>2 DEF Contents
  <2> QED
    BY <1>4, <2>1, FileIsWritten, SMTT(60)
<1>5. /\ disk' \in [Collection!Conversations -> Seq(FilePairs)]
      /\ \A x \in Collection!Conversations : Len(disk'[x]) = Len(disk[x])
      /\ \A x \in Collection!Conversations : \A i \in 1..Len(manifest[x]) : disk'[x][i] = disk[x][i]
  <2>1. \A x \in Collection!Conversations : \A i \in 1..Len(manifest[x]) :
           i \in 1..Len(disk[x]) /\ (x # conv \/ i # k)
    BY <1>2
  <2> QED
    BY <1>1, <1>2, <1>4, <2>1
<1>6. HistoriesAreTyped'
  BY <1>0, <1>5 DEF CollectInv, HistoriesAreTyped
<1>7. OneIsUnrecorded'
  BY <1>0, <1>2, <1>5 DEF CollectInv, OneIsUnrecorded
<1>8. FilesAreOfThisCall'
  <2>1. PICK n \in 0..2 : exits' = Append(exits, n) /\ (n = 0 => Wrote)
    BY <1>1
  <2>2. CASE which = "baseline"
    <3>1. exits' = <<n>>
      BY <1>0, <2>1, <2>2 DEF CollectInv, FilesAreOfThisCall
    <3>2. exits' = <<0>> => disk'[conv][k].baseline = calls
      BY <1>3, <1>4, <2>1, <2>2, <3>1 DEF FilePairs
    <3> QED
      BY <1>0, <2>2, <3>1, <3>2 DEF FilesAreOfThisCall, AtHand
  <2>3. CASE which = "instrumented"
    <3>1. PICK m \in 0..2 : exits = <<m>>
      BY <1>0, <2>3 DEF CollectInv, FilesAreOfThisCall
    <3>2. exits' = <<m, n>>
      BY <2>1, <3>1, OneMore
    <3>3. m = 0 /\ <<conv, k>> \notin spoiled => disk[conv][k].baseline = calls
      BY <1>0, <2>3, <3>1 DEF CollectInv, FilesAreOfThisCall, AtHand
    <3>4. m = 0 /\ n = 0 /\ <<conv, k>> \notin spoiled =>
             disk'[conv][k].baseline = calls /\ disk'[conv][k].instrumented = calls
      BY <1>3, <1>4, <2>1, <2>3, <3>3 DEF FilePairs
    <3>5. exits' = <<0, 0>> => m = 0 /\ n = 0
      BY <3>2
    <3>6. exits' \in {<<i, j>> : i \in 0..2, j \in 0..2}
      BY <3>2
    <3> QED
      BY <1>0, <2>3, <3>4, <3>5, <3>6 DEF FilesAreOfThisCall, AtHand
  <2> QED
    BY <2>2, <2>3
<1>9. CountsAreSoFar'
  BY <1>0 DEF CollectInv, CountsAreSoFar, PassedBefore, Collection!ValidAsRecorded
<1>10. Collection!ArtifactsAreKept' /\ Collection!PassedIsOnePair' /\ Collection!SummaryIsTrue'
  BY <1>0, <1>5, RecordsStand, SummaryStands
<1> QED
  BY <1>6, <1>7, <1>8, <1>9, <1>10 DEF CollectInv

(* What an orphan or something else writes, it spoils. *)
LEMMA ForeignWrite ==
  ASSUME Collection!TraceCollectionAssumption, CollectInv,
         NEW shard \in Collection!Conversations, NEW index \in 1..Len(disk[shard]),
         NEW name \in {"baseline", "instrumented"}, NEW content \in Contents,
         Written(shard, index, name, content), spoiled' = spoiled \cup {<<shard, index>>},
         orphans' \subseteq orphans, faults' \in Nat,
         UNCHANGED <<calls, manifest, summary, exitCode, Collection!callVars>>
  PROVE  CollectInv'
<1>0. /\ at' = at /\ conv' = conv /\ report' = report /\ passed' = passed /\ failed' = failed
      /\ exits' = exits
  BY DEF Collection!callVars, Collection!tally
<1>1. /\ disk \in [Collection!Conversations -> Seq(FilePairs)]
      /\ \A x \in Collection!Conversations : Len(disk[x]) \in Nat /\ Len(manifest[x]) \in Nat
                                             /\ Len(manifest[x]) <= Len(disk[x])
      /\ \A x \in Collection!Conversations : x = conv /\ at \in {"baseline", "instrumented", "append"} =>
            AtHand \in 1..Len(disk[x])
      /\ at \in {"baseline", "instrumented", "append"} => conv \in Collection!Conversations
  BY LenProperties DEF CollectInv, HistoriesAreTyped, Histories, OneIsUnrecorded, AtHand
<1>2. /\ disk' \in [Collection!Conversations -> Seq(FilePairs)]
      /\ \A x \in Collection!Conversations :
            /\ Len(disk'[x]) = Len(disk[x])
            /\ \A i \in 1..Len(disk[x]) : <<x, i>> \notin spoiled' => disk'[x][i] = disk[x][i]
  <2>1. /\ disk' \in [Collection!Conversations -> Seq(FilePairs)]
        /\ \A x \in Collection!Conversations : Len(disk'[x]) = Len(disk[x])
        /\ \A x \in Collection!Conversations : \A i \in 1..Len(disk[x]) :
              x # shard \/ i # index => disk'[x][i] = disk[x][i]
        /\ disk'[shard][index] = [disk[shard][index] EXCEPT ![name] = content]
    <3>1. disk \in [Collection!Conversations -> Seq(FilePairs)]
      BY <1>1
    <3> QED
      BY <3>1, FileIsWritten, SMT
  <2> QED
    BY <2>1
<1>3. HistoriesAreTyped'
  BY <1>0, <1>2 DEF CollectInv, HistoriesAreTyped
<1>4. OneIsUnrecorded'
  BY <1>0, <1>2 DEF CollectInv, OneIsUnrecorded
<1>5. FilesAreOfThisCall'
  BY <1>0, <1>1, <1>2 DEF CollectInv, FilesAreOfThisCall, AtHand
<1>6. CountsAreSoFar'
  BY <1>0 DEF CollectInv, CountsAreSoFar, PassedBefore, Collection!ValidAsRecorded
<1>7. Collection!ArtifactsAreKept' /\ Collection!PassedIsOnePair' /\ Collection!SummaryIsTrue'
  BY <1>1, <1>2, RecordsStand, SummaryStands
<1> QED
  BY <1>3, <1>4, <1>5, <1>6, <1>7 DEF CollectInv

LEMMA RecordStep ==
  ASSUME Collection!TraceCollectionAssumption, CollectInv, Collection!Record
  PROVE  CollectInv'
<1>0. /\ at = "append" /\ conv \in Collection!Conversations /\ report = manifest
      /\ disk' = disk /\ spoiled' = spoiled /\ orphans' = orphans
  BY DEF CollectInv, HistoriesAreTyped, OneIsUnrecorded, Collection!Record
<1>1. CASE Collection!Leave(2) /\ manifest' = manifest /\ summary' = summary /\ faults' \in Nat
  <2>1. HistoriesAreTyped' /\ OneIsUnrecorded' /\ FilesAreOfThisCall' /\ CountsAreSoFar'
    BY <1>0, <1>1, CallLeaves
  <2>2. Collection!ArtifactsAreKept' /\ Collection!PassedIsOnePair'
    BY <1>0, <1>1, RecordsStand
  <2>3. Collection!SummaryIsTrue'
    BY <1>1, SummaryStands DEF Collection!Leave
  <2> QED
    BY <2>1, <2>2, <2>3 DEF CollectInv
<1>2. ASSUME NEW st \in Collection!Status, faults' \in Nat,
             report' = [report EXCEPT ![conv] = Append(@, Collection!Attempt(disk[conv][AtHand], st))],
             passed' = (IF st = "passed" THEN passed + 1 ELSE passed),
             failed' = (IF st = "passed" THEN failed ELSE failed + 1),
             manifest' = report', conv' = conv + 1, exits' = <<>>, at' = "next", calls' = calls,
             exitCode' = exitCode
      PROVE  CollectInv'
  <2> DEFINE k == AtHand
             a == Collection!Attempt(disk[conv][AtHand], st)
  <2>1. /\ manifest \in Histories /\ k = Len(manifest[conv]) + 1 /\ Len(disk[conv]) = k
        /\ \A c \in Collection!Conversations : Len(manifest[c]) \in Nat /\ Len(disk[c]) \in Nat
        /\ disk[conv][k] \in FilePairs
    BY <1>0, LenProperties, ElementOfSeq
       DEF CollectInv, HistoriesAreTyped, Histories, OneIsUnrecorded, AtHand
  <2>2. st \in Collection!Statuses
    BY DEF Collection!Status, Collection!Statuses
  <2>3. a \in Recorded /\ a.files = disk[conv][k] /\ a.status = st
    BY <2>1, <2>2 DEF Recorded, Collection!Attempt
  <2>4. /\ manifest' \in Histories /\ Len(manifest'[conv]) = k /\ manifest'[conv][k] = a
        /\ \A i \in 1..Len(manifest[conv]) : manifest'[conv][i] = manifest[conv][i]
        /\ \A c \in Collection!Conversations : c # conv => manifest'[c] = manifest[c]
    <3> HIDE DEF a
    <3>1. manifest' = [manifest EXCEPT ![conv] = Append(@, a)]
      BY <1>0, <1>2 DEF a
    <3> QED
      BY <1>0, <2>1, <2>3, <3>1, AppendTo DEF Histories
  <2> HIDE DEF a
  <2>5. HistoriesAreTyped'
    BY <1>0, <1>2, <2>4 DEF CollectInv, HistoriesAreTyped, Collection!Conversations,
                            Collection!TraceCollectionAssumption
  <2>6. OneIsUnrecorded'
    BY <1>0, <1>2, <2>1, <2>4 DEF CollectInv, OneIsUnrecorded
  <2>7. FilesAreOfThisCall'
    BY <1>2 DEF FilesAreOfThisCall
  <2>8. st = "passed" => /\ disk[conv][k].baseline # None
                         /\ exits = <<0, 0>>
    BY <1>0, <1>2, <2>1 DEF Collection!Status, Collection!Index
  <2>9. Collection!ArtifactsAreKept'
    <3> SUFFICES ASSUME NEW c \in Collection!Conversations, NEW i \in 1..Len(manifest'[c]),
                        <<c, i>> \notin spoiled
                 PROVE  disk[c][i] = manifest'[c][i].files
      BY <1>0 DEF Collection!ArtifactsAreKept
    <3>1. CASE c = conv /\ i = k
      BY <2>3, <2>4, <3>1
    <3>2. CASE ~(c = conv /\ i = k)
      <4>1. i \in 1..Len(manifest[c]) /\ manifest'[c][i] = manifest[c][i]
        BY <2>1, <2>4, <3>2, SMTT(30)
      <4> QED
        BY <4>1 DEF CollectInv, Collection!ArtifactsAreKept
    <3> QED
      BY <3>1, <3>2
  <2>10. Collection!PassedIsOnePair'
    <3> SUFFICES ASSUME NEW c \in Collection!Conversations, NEW i \in 1..Len(manifest'[c]),
                        manifest'[c][i].status = "passed", <<c, i>> \notin spoiled
                 PROVE  /\ manifest'[c][i].files.baseline # None
                        /\ manifest'[c][i].files.instrumented = manifest'[c][i].files.baseline
      BY <1>0 DEF Collection!PassedIsOnePair
    <3>1. CASE c = conv /\ i = k
      <4>1. st = "passed" /\ manifest'[c][i].files = disk[conv][k]
        BY <2>3, <2>4, <3>1
      <4>2. disk[conv][k].baseline = calls /\ disk[conv][k].instrumented = calls
        BY <1>0, <2>8, <3>1, <4>1 DEF CollectInv, FilesAreOfThisCall
      <4> QED
        BY <2>8, <4>1, <4>2
    <3>2. CASE ~(c = conv /\ i = k)
      <4>1. i \in 1..Len(manifest[c]) /\ manifest'[c][i] = manifest[c][i]
        BY <2>1, <2>4, <3>2, SMTT(30)
      <4> QED
        BY <4>1 DEF CollectInv, Collection!PassedIsOnePair
    <3> QED
      BY <3>1, <3>2
  <2>11. CountsAreSoFar'
    <3>1. PassedBefore(conv)' = IF st = "passed" THEN PassedBefore(conv) \cup {conv}
                                ELSE PassedBefore(conv)
      <4>1. Collection!ValidAsRecorded(conv, manifest') <=> st = "passed"
        BY <1>0, <2>1, <2>3, <2>4, EmptySeq DEF Collection!ValidAsRecorded, Collection!Last
      <4>2. \A c \in 1..(conv - 1) :
               Collection!ValidAsRecorded(c, manifest') <=> Collection!ValidAsRecorded(c, manifest)
        BY <1>0, <2>4 DEF Collection!ValidAsRecorded, Collection!Conversations,
                          Collection!TraceCollectionAssumption
      <4>3. PassedBefore(conv)' = {c \in 1..conv : Collection!ValidAsRecorded(c, manifest')}
        BY <1>0, <1>2 DEF PassedBefore, Collection!ValidAsRecorded, Collection!Conversations
      <4>4. 1..conv = 1..(conv - 1) \cup {conv} /\ conv \notin 1..(conv - 1)
        BY <1>0 DEF Collection!Conversations
      <4> QED
        BY <4>1, <4>2, <4>3, <4>4 DEF PassedBefore
    <3>2. IsFiniteSet(PassedBefore(conv)) /\ conv \notin PassedBefore(conv)
      BY <1>0, FS_Interval, FS_Subset DEF PassedBefore, Collection!Conversations
    <3>3. Cardinality(PassedBefore(conv) \cup {conv}) = Cardinality(PassedBefore(conv)) + 1
      BY <3>2, FS_AddElement
    <3>4. 1..conv = 1..(conv - 1) \cup {conv} /\ conv' - 1 = conv
      BY <1>0, <1>2 DEF Collection!Conversations
    <3>5. /\ exitCode = None /\ passed \in Nat /\ failed \in Nat /\ passed + failed = conv - 1
          /\ passed = Cardinality(PassedBefore(conv))
          /\ failed = 0 => PassedBefore(conv) = 1..(conv - 1)
      BY <1>0 DEF CollectInv, CountsAreSoFar
    <3>6. CountsAreSoFar' <=>
             /\ exitCode' = None
             /\ passed' \in Nat /\ failed' \in Nat /\ passed' + failed' = conv' - 1
             /\ passed' = Cardinality(PassedBefore(conv)')
             /\ failed' = 0 => PassedBefore(conv)' = 1..(conv' - 1)
      BY <1>2 DEF CountsAreSoFar
    <3>7. CASE st = "passed"
      <4>1. passed' = passed + 1 /\ failed' = failed
        BY <1>2, <3>7
      <4>2. PassedBefore(conv)' = PassedBefore(conv) \cup {conv}
        BY <3>1, <3>7
      <4>3. passed' = Cardinality(PassedBefore(conv)')
        BY <3>3, <3>5, <4>1, <4>2
      <4>4. failed' = 0 => PassedBefore(conv)' = 1..(conv' - 1)
        BY <3>4, <3>5, <4>1, <4>2
      <4>5. passed' \in Nat /\ failed' \in Nat /\ passed' + failed' = conv' - 1 /\ exitCode' = None
        BY <1>0, <1>2, <3>5, <4>1 DEF Collection!Conversations
      <4> QED
        BY <3>6, <4>3, <4>4, <4>5
    <3>8. CASE st # "passed"
      <4>1. passed' = passed /\ failed' = failed + 1 /\ PassedBefore(conv)' = PassedBefore(conv)
        BY <1>2, <3>1, <3>8
      <4> QED
        BY <1>0, <1>2, <3>4, <3>5, <3>6, <4>1 DEF Collection!Conversations
    <3> QED
      BY <3>7, <3>8
  <2>12. Collection!SummaryIsTrue'
    BY <1>0, <1>2 DEF CollectInv, CountsAreSoFar, Collection!SummaryIsTrue, Collection!TraceCollectionAssumption
  <2> QED
    BY <2>5, <2>6, <2>7, <2>9, <2>10, <2>11, <2>12 DEF CollectInv
<1>3. faults \in Nat /\ (Collection!Fault => faults' \in Nat)
  BY DEF CollectInv, HistoriesAreTyped, Collection!Fault
<1> QED
  BY <1>0, <1>1, <1>2, <1>3
     DEF Collection!Record, Collection!Goto, Collection!AppendAttempt, Collection!Index, AtHand

LEMMA FinishStep ==
  ASSUME Collection!TraceCollectionAssumption, CollectInv, Collection!Finish
  PROVE  CollectInv'
<1>0. /\ at = "next" /\ manifest' = manifest /\ faults' \in Nat /\ disk' = disk /\ orphans' = orphans
      /\ spoiled' = spoiled /\ Collection!Leave(Collection!ExitCode)
      /\ summary'.passed = passed /\ summary'.failed = failed /\ conv = Corpus + 1
  BY DEF CollectInv, HistoriesAreTyped, Collection!Finish, Collection!Counts,
         Collection!TraceCollectionAssumption
<1>1. HistoriesAreTyped' /\ OneIsUnrecorded' /\ FilesAreOfThisCall' /\ CountsAreSoFar'
  BY <1>0, CallLeaves
<1>2. Collection!ArtifactsAreKept' /\ Collection!PassedIsOnePair'
  BY <1>0, RecordsStand
<1>3. Collection!SummaryIsTrue'
  <2>1. Collection!RecordedPassed' = PassedBefore(conv)
    BY <1>0 DEF Collection!RecordedPassed, PassedBefore, Collection!ValidAsRecorded,
                Collection!Conversations, Collection!TraceCollectionAssumption
  <2>2. /\ passed + failed = Corpus /\ passed = Cardinality(PassedBefore(conv))
        /\ failed \in Nat /\ (failed = 0 => PassedBefore(conv) = 1..Corpus)
    BY <1>0 DEF CollectInv, CountsAreSoFar, Collection!TraceCollectionAssumption
  <2>3. exitCode' = IF failed > 0 THEN 1 ELSE 0
    BY <1>0 DEF Collection!Leave, Collection!ExitCode
  <2>4. summary'.passed + summary'.failed = Corpus
    BY <1>0, <2>2
  <2>5. summary'.passed = Cardinality(Collection!RecordedPassed')
    BY <1>0, <2>1, <2>2
  <2>6. exitCode' = 0 => Collection!RecordedPassed' = Collection!Conversations
    BY <2>1, <2>2, <2>3 DEF Collection!Conversations
  <2> QED
    BY <2>4, <2>5, <2>6, SameCardinality DEF Collection!SummaryIsTrue
<1> QED
  BY <1>1, <1>2, <1>3 DEF CollectInv

LEMMA DieStep ==
  ASSUME Collection!TraceCollectionAssumption, CollectInv, Collection!Die
  PROVE  CollectInv'
<1>0. /\ faults' \in Nat /\ Collection!Leave(2) /\ manifest' = manifest /\ summary' = summary
      /\ disk' = disk /\ spoiled' = spoiled
      /\ \/ orphans' = orphans
         \/ /\ at \in {"baseline", "instrumented"}
            /\ orphans' = orphans \cup {[conv |-> conv, index |-> Collection!Index(conv, report),
                                         which |-> at, call |-> calls]}
  BY DEF CollectInv, HistoriesAreTyped, Collection!Die, Collection!Fault
<1>1. HistoriesAreTyped' /\ OneIsUnrecorded' /\ FilesAreOfThisCall' /\ CountsAreSoFar'
  BY <1>0, CallLeaves
<1>2. Collection!ArtifactsAreKept' /\ Collection!PassedIsOnePair'
  BY <1>0, RecordsStand
<1>3. Collection!SummaryIsTrue'
  BY <1>0, SummaryStands DEF Collection!Leave
<1> QED
  BY <1>1, <1>2, <1>3 DEF CollectInv

LEMMA OrphanStep ==
  ASSUME Collection!TraceCollectionAssumption, CollectInv, Collection!OrphanWrites
  PROVE  CollectInv'
<1>1. PICK o \in orphans :
         /\ orphans' = orphans \ {o}
         /\ disk' = [disk EXCEPT ![o.conv][o.index][o.which] = o.call]
         /\ spoiled' = spoiled \cup {<<o.conv, o.index>>}
  BY DEF Collection!OrphanWrites
<1>2. /\ o.conv \in Collection!Conversations /\ o.index \in 1..Len(disk[o.conv])
      /\ o.which \in {"baseline", "instrumented"} /\ o.call \in Contents
  BY DEF CollectInv, OneIsUnrecorded, Contents
<1>3. /\ faults' \in Nat /\ orphans' \subseteq orphans
      /\ UNCHANGED <<calls, manifest, summary, exitCode, Collection!callVars>>
  BY <1>1 DEF CollectInv, HistoriesAreTyped, Collection!OrphanWrites
<1>4. Written(o.conv, o.index, o.which, o.call)
  BY <1>1 DEF Written
<1> QED
  BY <1>1, <1>2, <1>3, <1>4, ForeignWrite

LEMMA DamageStep ==
  ASSUME Collection!TraceCollectionAssumption, CollectInv, Collection!Damage
  PROVE  CollectInv'
<1>1. PICK c \in Collection!Conversations : \E k \in 1..Len(disk[c]), which \in {"baseline", "instrumented"} :
         Written(c, k, which, None) /\ spoiled' = spoiled \cup {<<c, k>>}
  BY DEF Collection!Damage, Written
<1>d. PICK k \in 1..Len(disk[c]), which \in {"baseline", "instrumented"} :
         Written(c, k, which, None) /\ spoiled' = spoiled \cup {<<c, k>>}
  BY <1>1
<1>2. /\ faults' \in Nat /\ orphans' \subseteq orphans /\ None \in Contents
      /\ UNCHANGED <<calls, manifest, summary, exitCode, Collection!callVars>>
  BY DEF CollectInv, HistoriesAreTyped, Collection!Damage, Collection!Fault, Contents
<1> QED
  BY <1>d, <1>2, ForeignWrite

LEMMA CollectStep ==
  ASSUME Collection!TraceCollectionAssumption, CollectInv, Collection!Next \/ UNCHANGED collectVars
  PROVE  CollectInv'
<1>1. CASE UNCHANGED collectVars
  <2> USE <1>1 DEF collectVars
  <2>1. HistoriesAreTyped' /\ OneIsUnrecorded'
    BY DEF CollectInv, HistoriesAreTyped, OneIsUnrecorded
  <2>2. FilesAreOfThisCall' /\ CountsAreSoFar'
    BY DEF CollectInv, FilesAreOfThisCall, AtHand, CountsAreSoFar, PassedBefore,
           Collection!ValidAsRecorded
  <2>3. Collection!ArtifactsAreKept' /\ Collection!PassedIsOnePair'
    BY RecordsStand
  <2>4. Collection!SummaryIsTrue'
    BY SummaryStands
  <2> QED
    BY <2>1, <2>2, <2>3, <2>4 DEF CollectInv
<1>2. CASE Collection!Collect
  BY <1>2, StartStep, NextConversationStep, ProbeStep, RecordStep, FinishStep
     DEF Collection!Collect, Collection!Baseline, Collection!Instrumented
<1> QED
  BY <1>1, <1>2, DieStep, OrphanStep, DamageStep DEF Collection!Next
LEMMA BeginningOfAppend ==
  ASSUME NEW S, NEW s \in Seq(S), NEW x \in S
  PROVE  Len(Append(s, x)) = Len(s) + 1 /\ SubSeq(Append(s, x), 1, Len(s)) = s
<1>1. /\ Append(s, x) \in Seq(S) /\ Len(Append(s, x)) = Len(s) + 1 /\ Len(s) \in Nat
      /\ \A i \in 1..Len(s) : Append(s, x)[i] = s[i]
  BY AppendProperties, LenProperties
<1>2. /\ SubSeq(Append(s, x), 1, Len(s)) \in Seq(S) /\ Len(SubSeq(Append(s, x), 1, Len(s))) = Len(s)
      /\ \A i \in 1..Len(s) : SubSeq(Append(s, x), 1, Len(s))[i] = Append(s, x)[i]
  BY <1>1
<1> QED
  BY <1>1, <1>2, SeqEqual

(* The attempts of a manifest grow at their end. *)
LEMMA HistoryStep ==
  ASSUME Collection!TraceCollectionAssumption, CollectInv, Collection!Next \/ UNCHANGED collectVars
  PROVE  Collection!HistoryGrows
<1>1. manifest \in Histories
  BY DEF CollectInv, HistoriesAreTyped
<1>2. CASE manifest' = manifest
  BY <1>1, <1>2, SubSeqFull, LenProperties DEF Histories, Collection!HistoryGrows, Collection!IsPrefix
<1>3. CASE manifest' # manifest
  <2>1. Collection!Record
    BY <1>3 DEF CollectInv, HistoriesAreTyped, Collection!Next, Collection!Collect, Collection!Start,
                Collection!NextConversation, Collection!Baseline, Collection!Instrumented,
                Collection!Probe, Collection!Finish, Collection!Die, Collection!OrphanWrites,
                Collection!Damage, collectVars
  <2>2. conv \in Collection!Conversations /\ report = manifest
    BY <2>1 DEF CollectInv, HistoriesAreTyped, OneIsUnrecorded, Collection!Record
  <2>3. PICK a : manifest' = [manifest EXCEPT ![conv] = Append(@, a)]
    BY <1>3, <2>1, <2>2 DEF Collection!Record, Collection!AppendAttempt
  <2> SUFFICES ASSUME NEW c \in Collection!Conversations
               PROVE  Collection!IsPrefix(manifest[c], manifest'[c])
    BY DEF Collection!HistoryGrows
  <2>4. manifest[c] \in Seq(Recorded \cup {a})
    BY <1>1 DEF Histories
  <2>5. manifest'[c] = manifest[c] \/ manifest'[c] = Append(manifest[c], a)
    BY <1>1, <2>2, <2>3 DEF Histories
  <2>6. SubSeq(manifest[c], 1, Len(manifest[c])) = manifest[c]
    BY <2>4, SubSeqFull
  <2>7. /\ Len(Append(manifest[c], a)) = Len(manifest[c]) + 1
        /\ SubSeq(Append(manifest[c], a), 1, Len(manifest[c])) = manifest[c]
    BY <2>4, BeginningOfAppend
  <2> QED
    BY <2>4, <2>5, <2>6, <2>7, LenProperties DEF Collection!IsPrefix
<1> QED
  BY <1>2, <1>3
=============================================================================
