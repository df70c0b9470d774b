------------------------------ MODULE StudyProofs ------------------------------
(***************************************************************************)
(* Proofs about the two studies of MCComponents: however the host changes  *)
(* and whatever fails, nothing is measured after a failure, and a phase, a *)
(* case or a pass has behind it all that it needs.                         *)
(***************************************************************************)
EXTENDS Studies, SequenceTheorems, FiniteSetTheorems, TLAPS

-----------------------------------------------------------------------------
(* The repeatability study: its inductive invariant *)

(* The order in which the phases are entered. *)
Rank(p) == CASE p = "block-a" -> 1 [] p = "block-b" -> 2 [] p = "consumer" -> 3
             [] p = "raw" -> 4 [] p = "product" -> 5 [] p = "transfer-consumer" -> 6
             [] OTHER -> 7

Freezing == Study!Blocks \cup {"raw"}
Underway == {"wait", "native", "returned", "collect"}
Between  == {"open", "check", "inner", "outer"}

StudyIsTyped ==
    /\ studyPhase \in Study!Phases \cup {"end"}
    /\ studyStep \in Between \cup Underway \cup {"publish", "reconstruct", "over"}
    /\ (studyPhase = "end") = (studyStep \in {"reconstruct", "over"})
    /\ rows \in Nat /\ outer \in Seq(Study!Entries)
    /\ studyStep \in {"returned", "collect"} => got \in Study!Outcomes
    /\ DOMAIN verdicts = Freezing /\ DOMAIN frozen = Freezing
    /\ accepted \subseteq {"block-b", "product"}

(* Only the attempt that is being made may come to anything but a valid    *)
(* measurement, unless the study is over; so is a study that saw an error. *)
AttemptsAreMeasured ==
    /\ raised # "no" => studyStep = "over"
    /\ \A i \in 1..Len(outer) : outer[i].status = "measured" => outer[i].mid = "valid"
    /\ studyStep # "over" => \A i \in 1..Len(outer) : i < Len(outer) => outer[i].status = "measured"
    /\ studyStep \notin Underway \cup {"over"} => \A i \in 1..Len(outer) : outer[i].status = "measured"
    /\ studyStep \in Underway => Len(outer) > 0 /\ outer[Len(outer)].phase = studyPhase
    /\ studyStep \in {"wait", "native"} => outer[Len(outer)].status # "measured"
    /\ studyStep \in {"returned", "collect"} => outer[Len(outer)].status = got.status

(* The rows of a phase are its measured runs. *)
RowsAreCounted ==
    /\ studyStep = "open" \/ studyPhase \in Study!Consumers => rows = 0
    /\ studyStep \in Between \cup {"wait", "native"} => Study!MeasuredRuns(studyPhase) = rows
    /\ studyStep \in {"returned", "collect"} =>
          Study!MeasuredRuns(studyPhase) = IF got.status = "measured" THEN rows + 1 ELSE rows
    /\ studyStep = "publish" => /\ studyPhase \in {"block-b", "product"}
                                /\ verdicts[studyPhase] = "PASS-MEASUREMENT"
                                /\ Study!MeasuredRuns(studyPhase) = BlockRuns

(* No phase is ahead of the one that is running, and this one has its gate. *)
GatesWerePassed ==
    /\ studyPhase # "end" => Study!Gate(studyPhase)
    /\ studyPhase # "end" => \A i \in 1..Len(outer) : Rank(outer[i].phase) <= Rank(studyPhase)
    /\ Study!GatesHold

(* The phases before the running one, and this one when it runs, were opened. *)
PhasesWereOpened ==
    /\ \A p \in Freezing : Rank(p) < Rank(studyPhase) /\ studyStep # "over" => p \in opened
    /\ studyStep \notin {"open", "over"} /\ studyPhase \in Freezing => studyPhase \in opened

PassWasEarned ==
    /\ studyFinal = Study!PASS => studyStep = "over"
    /\ Study!PassIsComplete

StudyInv ==
    /\ StudyIsTyped /\ AttemptsAreMeasured /\ RowsAreCounted /\ GatesWerePassed
    /\ PhasesWereOpened /\ PassWasEarned
-----------------------------------------------------------------------------
(* Attempts, counts and gates *)

MadeIn(p) == {i \in DOMAIN outer : outer[i].phase = p /\ outer[i].status = "measured" /\ outer[i].mid = "valid"}

LEMMA StudyCardinality == \A S : Study!Cardinality(S) = Cardinality(S)
  BY DEF Study!Cardinality, Cardinality

LEMMA MadeInIsFinite == ASSUME outer \in Seq(Study!Entries), NEW p PROVE IsFiniteSet(MadeIn(p)) /\ Cardinality(MadeIn(p)) \in Nat
<1>1. IsFiniteSet(1..Len(outer))
  BY FS_Interval
<1>2. MadeIn(p) \in SUBSET (1..Len(outer))
  BY DEF MadeIn
<1> QED
  BY <1>1, <1>2, FS_Subset, FS_CardinalityType

LEMMA RunsAreMade == \A p : Study!MeasuredRuns(p) = Cardinality(MadeIn(p))
  BY StudyCardinality DEF Study!MeasuredRuns, MadeIn

(* A new attempt counts for no phase. *)
Appends(a) == outer' = Append(outer, a)

LEMMA AttemptIsAppended ==
  ASSUME outer \in Seq(Study!Entries), NEW a \in Study!Entries, a.status # "measured", Appends(a)
  PROVE  /\ outer' \in Seq(Study!Entries) /\ Len(outer') = Len(outer) + 1
         /\ \A i \in 1..Len(outer) : outer'[i] = outer[i]
         /\ outer'[Len(outer')] = a
         /\ \A p : Study!MeasuredRuns(p)' = Study!MeasuredRuns(p)
<1>1. /\ outer' \in Seq(Study!Entries) /\ Len(outer') = Len(outer) + 1
      /\ \A i \in 1..Len(outer) : outer'[i] = outer[i]
      /\ outer'[Len(outer) + 1] = a
  BY AppendProperties DEF Appends
<1>2. ASSUME NEW p PROVE MadeIn(p)' = MadeIn(p)
  BY <1>1 DEF MadeIn
<1> QED
  BY <1>1, <1>2, RunsAreMade, StudyCardinality DEF Study!MeasuredRuns, MadeIn

(* An attempt that comes to an end counts for its own phase at most. *)
Becomes(e) == outer' = [outer EXCEPT ![Len(outer)] = e]

LEMMA AttemptBecomes ==
  ASSUME outer \in Seq(Study!Entries), Len(outer) > 0, NEW e \in Study!Entries, Becomes(e),
         e.phase = outer[Len(outer)].phase
  PROVE  /\ outer' \in Seq(Study!Entries) /\ Len(outer') = Len(outer)
         /\ \A i \in 1..Len(outer) : outer'[i] = IF i = Len(outer) THEN e ELSE outer[i]
         /\ \A p : p # e.phase => Study!MeasuredRuns(p)' = Study!MeasuredRuns(p)
         /\ outer[Len(outer)].status # "measured" =>
               Study!MeasuredRuns(e.phase)' = IF e.status = "measured" /\ e.mid = "valid"
                                              THEN Study!MeasuredRuns(e.phase) + 1
                                              ELSE Study!MeasuredRuns(e.phase)
<1>1. /\ outer' \in Seq(Study!Entries) /\ Len(outer') = Len(outer)
      /\ \A i \in 1..Len(outer) : outer'[i] = IF i = Len(outer) THEN e ELSE outer[i]
  BY ExceptSeq DEF Becomes
<1>2. ASSUME NEW p, p # e.phase PROVE MadeIn(p)' = MadeIn(p)
  BY <1>1, <1>2 DEF MadeIn
<1>3. ASSUME outer[Len(outer)].status # "measured"
      PROVE  MadeIn(e.phase)' = IF e.status = "measured" /\ e.mid = "valid"
                                THEN MadeIn(e.phase) \cup {Len(outer)} ELSE MadeIn(e.phase)
  BY <1>1, <1>3 DEF MadeIn
<1>4. \A p : Study!MeasuredRuns(p)' = Cardinality(MadeIn(p)')
  BY StudyCardinality DEF Study!MeasuredRuns, MadeIn
<1>5. ASSUME outer[Len(outer)].status # "measured"
      PROVE  Cardinality(MadeIn(e.phase)') = IF e.status = "measured" /\ e.mid = "valid"
                                             THEN Cardinality(MadeIn(e.phase)) + 1
                                             ELSE Cardinality(MadeIn(e.phase))
  <2>1. Len(outer) \notin MadeIn(e.phase)
    BY <1>5 DEF MadeIn
  <2>2. Cardinality(MadeIn(e.phase) \cup {Len(outer)}) = Cardinality(MadeIn(e.phase)) + 1
    BY <2>1, MadeInIsFinite, FS_AddElement
  <2> QED
    BY <1>3, <1>5, <2>2
<1> QED
  BY <1>1, <1>2, <1>4, <1>5, RunsAreMade

(* A gate looks at the phases before it only. *)
LEMMA GateStays ==
  ASSUME NEW q \in Study!Phases, NEW p \in Study!Phases, Rank(q) <= Rank(p),
         Study!Gate(q), accepted \subseteq accepted',
         \A b \in Freezing : b # p => verdicts'[b] = verdicts[b],
         \A b : b # p => Study!MeasuredRuns(b)' = Study!MeasuredRuns(b)
  PROVE  Study!Gate(q)'
<1> USE DEF Study!Phases, Study!Blocks, Study!Nested, Study!Consumers, Rank, Freezing
<1>1. CASE q = "block-a"
  BY <1>1 DEF Study!Gate
<1>2. CASE q = "block-b"
  BY <1>2 DEF Study!Gate
<1>3. CASE q = "consumer"
  BY <1>3 DEF Study!Gate
<1>4. CASE q = "raw"
  BY <1>4 DEF Study!Gate
<1>5. CASE q = "product"
  BY <1>5 DEF Study!Gate
<1>6. CASE q = "transfer-consumer"
  BY <1>6 DEF Study!Gate
<1> QED
  BY <1>1, <1>2, <1>3, <1>4, <1>5, <1>6

(* What a step may do to the evidence while a phase is running: its own    *)
(* attempt, its own verdict, another publication.                          *)
EvidenceGrows ==
    /\ outer' \in Seq(Study!Entries) /\ Len(outer) <= Len(outer')
    /\ \A i \in 1..Len(outer') :
          outer'[i].phase = studyPhase \/ (i <= Len(outer) /\ outer'[i].phase = outer[i].phase)
    /\ \A i \in 1..Len(outer) : i < Len(outer) => outer'[i] = outer[i]
    /\ \A b : b # studyPhase => Study!MeasuredRuns(b)' = Study!MeasuredRuns(b)
    /\ \A b \in Freezing : b # studyPhase => verdicts'[b] = verdicts[b]
    /\ \A i \in 1..Len(outer') : outer'[i].status = "measured" => outer'[i].mid = "valid"
    /\ accepted \subseteq accepted' /\ DOMAIN verdicts' = Freezing

LEMMA GatesStay ==
  ASSUME StudyInv, studyPhase # "end", EvidenceGrows, studyPhase' \in {studyPhase, "end"}
  PROVE  GatesWerePassed'
<1>1. studyPhase \in Study!Phases /\ outer \in Seq(Study!Entries) /\ outer' \in Seq(Study!Entries)
  BY DEF StudyInv, StudyIsTyped, EvidenceGrows
<1>2. \A q \in Study!Phases : Rank(q) <= Rank(studyPhase) /\ Study!Gate(q) => Study!Gate(q)'
  BY <1>1, GateStays DEF EvidenceGrows
<1>3. Study!Gate(studyPhase) /\ \A i \in 1..Len(outer) : Study!Gate(outer[i].phase) /\ Rank(outer[i].phase) <= Rank(studyPhase)
  BY <1>1 DEF StudyInv, GatesWerePassed, Study!GatesHold
<1>4. Rank(studyPhase) <= Rank(studyPhase)
  BY <1>1 DEF Rank, Study!Phases, Study!Blocks, Study!Nested, Study!Consumers
<1>5. \A i \in 1..Len(outer) : outer[i] \in Study!Entries
  BY <1>1
<1>6. \A i \in 1..Len(outer) : outer[i].phase \in Study!Phases
  BY <1>5 DEF Study!Entries
<1>7. ASSUME NEW i \in 1..Len(outer'), NEW q, q = outer'[i].phase
      PROVE  Study!Gate(q)' /\ Rank(q) <= Rank(studyPhase)
  <2>1. CASE q = studyPhase
    BY <1>1, <1>2, <1>3, <1>4, <2>1
  <2>2. CASE i \in 1..Len(outer) /\ q = outer[i].phase
    BY <1>1, <1>2, <1>3, <1>6, <2>2
  <2> QED
    BY <1>1, <1>7, <2>1, <2>2 DEF EvidenceGrows
<1>8. Study!GatesHold'
  BY <1>1, <1>7 DEF Study!GatesHold
<1>9. studyPhase' # "end" => \A i \in 1..Len(outer') : Rank(outer'[i].phase) <= Rank(studyPhase')
  BY <1>7
<1>10. studyPhase' # "end" => Study!Gate(studyPhase)'
  BY <1>1, <1>2, <1>3, <1>4
<1> QED
  BY <1>8, <1>9, <1>10 DEF GatesWerePassed

-----------------------------------------------------------------------------
(* The study's steps *)

Over == /\ studyPhase' = "end" /\ studyStep' = "over" /\ studyFinal' # Study!PASS /\ rows' \in Nat

LEMMA StudyIsOver ==
  ASSUME StudyInv, studyPhase # "end", EvidenceGrows, Over,
         DOMAIN frozen' = Freezing, accepted' \subseteq {"block-b", "product"}
  PROVE  StudyInv'
<1>1. StudyIsTyped'
  BY DEF StudyInv, StudyIsTyped, EvidenceGrows, Over
<1>2. AttemptsAreMeasured'
  BY DEF AttemptsAreMeasured, EvidenceGrows, Over, Underway
<1>3. RowsAreCounted'
  BY DEF RowsAreCounted, Over, Between, Study!Consumers
<1>4. GatesWerePassed'
  BY GatesStay DEF Over
<1>5. PhasesWereOpened'
  BY DEF PhasesWereOpened, Over
<1>6. PassWasEarned'
  BY DEF PassWasEarned, Over, Study!PassIsComplete
<1> QED
  BY <1>1, <1>2, <1>3, <1>4, <1>5, <1>6 DEF StudyInv

LEMMA UtilityIsOver == ASSUME NEW s, s # Study!PRODUCT, Study!UtilityEnds(s) PROVE rows' \in Nat => Over
  BY DEF Study!UtilityEnds, Study!StudyEnds, Over, Study!PASS

LEMMA EscapeIsOver == ASSUME StudyIsTyped, Study!Escape PROVE Over
  BY UtilityIsOver DEF Study!Escape, Study!StudyEnds, Over, Study!PASS, Study!PRODUCT, StudyIsTyped

LEMMA BlockIsOver ==
  ASSUME NEW s, s # "PASS-MEASUREMENT", NEW tail, NEW evaluated, Study!BlockEnds(s, tail, evaluated)
  PROVE  Over
<1>1. CASE studyPhase = "product"
  BY <1>1, UtilityIsOver DEF Study!BlockEnds, Study!PRODUCT
<1>2. CASE studyPhase # "product"
  BY <1>2 DEF Study!BlockEnds, Study!StudyEnds, Over, Study!PASS
<1> QED
  BY <1>1, <1>2

LEMMA RaiseIsOver ==
  ASSUME StudyIsTyped, NEW why, NEW caught, NEW tail, Study!Raise(why, caught, tail) PROVE Over
<1>1. CASE studyPhase \in Study!Blocks /\ caught
  BY <1>1, BlockIsOver DEF Study!Raise
<1>2. CASE ~(studyPhase \in Study!Blocks /\ caught)
  BY <1>2, EscapeIsOver DEF Study!Raise
<1> QED
  BY <1>1, <1>2

(* Steps that leave the evidence alone. *)
LEMMA EvidenceStays ==
  ASSUME StudyInv, outer' = outer, verdicts' = verdicts, accepted' = accepted PROVE EvidenceGrows
<1>1. \A b : Study!MeasuredRuns(b)' = Study!MeasuredRuns(b)
  BY DEF Study!MeasuredRuns
<1> QED
  BY <1>1 DEF EvidenceGrows, StudyInv, StudyIsTyped, AttemptsAreMeasured

LEMMA OpenStep == ASSUME StudyInv, Study!Open PROVE StudyInv'
<1>1. EvidenceGrows /\ studyPhase # "end" /\ studyPhase \in Freezing /\ accepted' = accepted
  BY EvidenceStays DEF Study!Open, StudyInv, StudyIsTyped, Between
<1>2. DOMAIN frozen' = Freezing
  BY DEF Study!Open, StudyInv, StudyIsTyped
<1>3. CASE studyStep' = "check" /\ studyPhase' = studyPhase /\ opened' = opened \cup {studyPhase}
           /\ rows' = rows /\ raised' = raised /\ studyFinal' = studyFinal
  <2>1. /\ outer' = outer /\ verdicts' = verdicts /\ accepted' = accepted
        /\ Study!MeasuredRuns(studyPhase)' = Study!MeasuredRuns(studyPhase) /\ studyStep = "open"
    BY <1>3 DEF Study!Open, Study!MeasuredRuns
  <2>2. StudyIsTyped' /\ AttemptsAreMeasured'
    BY <1>2, <1>3, <2>1 DEF StudyInv, StudyIsTyped, AttemptsAreMeasured, Between, Underway
  <2>3. RowsAreCounted'
    BY <1>3, <2>1 DEF StudyInv, StudyIsTyped, RowsAreCounted, Between, Underway
  <2>4. PhasesWereOpened'
    BY <1>3, <2>1 DEF StudyInv, PhasesWereOpened
  <2>5. PassWasEarned'
    BY <1>3, <2>1 DEF StudyInv, PassWasEarned, Study!PassIsComplete
  <2> QED
    BY <1>1, <1>3, <2>2, <2>3, <2>4, <2>5, GatesStay DEF StudyInv
<1>4. CASE Over
  BY <1>1, <1>2, <1>4, StudyIsOver DEF StudyInv, StudyIsTyped
<1>5. CASE Study!Escape
  BY <1>4, <1>5, EscapeIsOver DEF StudyInv
<1>6. CASE Study!StudyEnds("VALIDATION-STOP") /\ rows' = rows
  BY <1>4, <1>6 DEF Study!StudyEnds, Over, Study!PASS, StudyInv, StudyIsTyped
<1> QED
  BY <1>3, <1>5, <1>6 DEF Study!Open

(* The run's own steps either end the study or keep the phase. *)
Continues == /\ studyPhase' = studyPhase /\ rows' = rows /\ raised' = raised /\ studyFinal' = studyFinal

LEMMA PhaseContinues ==
  ASSUME StudyInv, studyPhase # "end", EvidenceGrows, Continues,
         studyStep \in {"check", "inner", "outer", "wait", "native", "returned"},
         studyStep' \in {"check", "inner", "outer", "wait", "native", "returned", "collect"},
         frozen' = frozen, accepted' = accepted, opened' = opened,
         studyStep' \in {"returned", "collect"} => got' \in Study!Outcomes,
         AttemptsAreMeasured', RowsAreCounted'
  PROVE  StudyInv'
<1>1. StudyIsTyped'
  BY DEF StudyInv, StudyIsTyped, EvidenceGrows, Continues, Between, Underway
<1>2. GatesWerePassed'
  BY GatesStay DEF Continues
<1>3. PhasesWereOpened'
  BY DEF StudyInv, PhasesWereOpened, Continues
<1>4. PassWasEarned'
  BY DEF StudyInv, PassWasEarned, Study!PassIsComplete, Continues
<1> QED
  BY <1>1, <1>2, <1>3, <1>4 DEF StudyInv

LEMMA CheckStep == ASSUME StudyInv, Study!Check \/ Study!EnterInner PROVE StudyInv'
<1>1. /\ EvidenceGrows /\ studyPhase # "end" /\ accepted' = accepted /\ frozen' = frozen /\ opened' = opened
      /\ outer' = outer /\ studyStep \in {"check", "inner"}
  BY EvidenceStays DEF Study!Check, Study!EnterInner, StudyInv, StudyIsTyped, Study!results
<1>2. CASE Over
  BY <1>1, <1>2, StudyIsOver DEF StudyInv, StudyIsTyped
<1>3. CASE Study!GuardFails
  BY <1>2, <1>3, RaiseIsOver DEF StudyInv, Study!GuardFails
<1>4. CASE Continues /\ studyStep' \in {"inner", "outer"}
  <2>1. Study!MeasuredRuns(studyPhase)' = Study!MeasuredRuns(studyPhase)
    BY <1>1, <1>4 DEF Study!MeasuredRuns, Continues
  <2>2. AttemptsAreMeasured' /\ RowsAreCounted'
    BY <1>1, <1>4, <2>1 DEF StudyInv, AttemptsAreMeasured, RowsAreCounted, Continues, Between, Underway
  <2> QED
    BY <1>1, <1>4, <2>2, PhaseContinues
<1> QED
  BY <1>3, <1>4 DEF Study!Check, Study!EnterInner, Study!Stays, Study!reports, Continues

LEMMA EnterOuterStep == ASSUME StudyInv, Study!EnterOuter PROVE StudyInv'
<1>1. /\ studyPhase \in Study!Phases /\ studyPhase # "end" /\ studyStep = "outer" /\ outer \in Seq(Study!Entries)
      /\ accepted' = accepted /\ frozen' = frozen /\ opened' = opened /\ verdicts' = verdicts
  BY DEF Study!EnterOuter, StudyInv, StudyIsTyped, Study!results
<1>2. CASE Study!GuardFails /\ outer' = outer
  BY <1>1, <1>2, EvidenceStays, RaiseIsOver, StudyIsOver DEF StudyInv, StudyIsTyped, Study!GuardFails
<1>3. CASE Appends(Study!Attempt("waiting")) /\ Continues /\ studyStep' = "wait"
  <2> DEFINE a == Study!Attempt("waiting")
  <2>1. a \in Study!Entries /\ a.status = "waiting" /\ a.phase = studyPhase
    BY <1>1 DEF Study!Attempt, Study!Entries
  <2> HIDE DEF a
  <2>2. /\ outer' \in Seq(Study!Entries) /\ Len(outer') = Len(outer) + 1
        /\ \A i \in 1..Len(outer) : outer'[i] = outer[i]
        /\ outer'[Len(outer')] = a
        /\ \A p : Study!MeasuredRuns(p)' = Study!MeasuredRuns(p)
    BY <1>1, <1>3, <2>1, AttemptIsAppended DEF a
  <2>3. AttemptsAreMeasured'
    BY <1>1, <1>3, <2>1, <2>2 DEF StudyInv, AttemptsAreMeasured, Underway, Continues
  <2>4. RowsAreCounted'
    BY <1>1, <1>3, <2>2 DEF StudyInv, RowsAreCounted, Between, Continues
  <2>5. EvidenceGrows
    BY <1>1, <2>1, <2>2, <2>3 DEF EvidenceGrows, StudyInv, StudyIsTyped, AttemptsAreMeasured
  <2> QED
    BY <1>1, <1>3, <2>3, <2>4, <2>5, PhaseContinues
<1> QED
  BY <1>2, <1>3 DEF Study!EnterOuter, Study!Stays, Study!reports, Continues, Appends

(* What becomes of the attempt under way. *)
LEMMA EvidenceOfAttempt ==
  ASSUME StudyInv, studyStep \in Underway, NEW e \in Study!Entries, Becomes(e), e.phase = studyPhase,
         e.status = "measured" => e.mid = "valid", verdicts' = verdicts, accepted' = accepted
  PROVE  /\ EvidenceGrows /\ Len(outer') = Len(outer)
         /\ \A i \in 1..Len(outer) : outer'[i] = IF i = Len(outer) THEN e ELSE outer[i]
         /\ outer[Len(outer)].status # "measured" =>
               Study!MeasuredRuns(e.phase)' = IF e.status = "measured" THEN Study!MeasuredRuns(e.phase) + 1
                                              ELSE Study!MeasuredRuns(e.phase)
<1>1. outer \in Seq(Study!Entries) /\ Len(outer) \in Nat \ {0} /\ outer[Len(outer)].phase = studyPhase
  BY DEF StudyInv, StudyIsTyped, AttemptsAreMeasured
<1>2. /\ outer' \in Seq(Study!Entries) /\ Len(outer') = Len(outer)
      /\ \A i \in 1..Len(outer) : outer'[i] = IF i = Len(outer) THEN e ELSE outer[i]
      /\ \A p : p # e.phase => Study!MeasuredRuns(p)' = Study!MeasuredRuns(p)
      /\ outer[Len(outer)].status # "measured" =>
               Study!MeasuredRuns(e.phase)' = IF e.status = "measured" /\ e.mid = "valid"
                                              THEN Study!MeasuredRuns(e.phase) + 1
                                              ELSE Study!MeasuredRuns(e.phase)
  BY <1>1, AttemptBecomes
<1>3. EvidenceGrows
  BY <1>1, <1>2 DEF EvidenceGrows, StudyInv, StudyIsTyped, AttemptsAreMeasured
<1> QED
  BY <1>2, <1>3

LEMMA AttemptFails ==
  ASSUME StudyInv, studyStep \in Underway, NEW e \in Study!Entries, Becomes(e), e.phase = studyPhase,
         e.status # "measured", Over, verdicts' = verdicts, accepted' = accepted, frozen' = frozen
  PROVE  StudyInv'
<1>1. EvidenceGrows
  BY EvidenceOfAttempt
<1> QED
  BY <1>1, StudyIsOver DEF StudyInv, StudyIsTyped, Underway

LEMMA AttemptContinues ==
  ASSUME StudyInv, NEW e \in Study!Entries, Becomes(e), e.phase = studyPhase,
         e.status = "measured" => e.mid = "valid", Continues,
         verdicts' = verdicts, accepted' = accepted, frozen' = frozen, opened' = opened,
         \/ studyStep = "wait" /\ studyStep' = "native" /\ e.status # "measured"
         \/ studyStep = "native" /\ studyStep' = "returned" /\ got' \in Study!Outcomes /\ e.status = got'.status
  PROVE  StudyInv'
<1>1. /\ EvidenceGrows /\ Len(outer') = Len(outer)
      /\ \A i \in 1..Len(outer) : outer'[i] = IF i = Len(outer) THEN e ELSE outer[i]
      /\ outer[Len(outer)].status # "measured" =>
               Study!MeasuredRuns(studyPhase)' = IF e.status = "measured" THEN Study!MeasuredRuns(studyPhase) + 1
                                                 ELSE Study!MeasuredRuns(studyPhase)
  BY EvidenceOfAttempt DEF Underway, Continues
<1>2. outer[Len(outer)].status # "measured" /\ Len(outer) \in Nat \ {0}
  BY DEF StudyInv, StudyIsTyped, AttemptsAreMeasured, Underway
<1>3. AttemptsAreMeasured'
  BY <1>1, <1>2 DEF StudyInv, AttemptsAreMeasured, Underway, Continues
<1>4. RowsAreCounted'
  BY <1>1, <1>2 DEF StudyInv, StudyIsTyped, RowsAreCounted, Between, Underway, Continues
<1> QED
  BY <1>1, <1>3, <1>4, PhaseContinues DEF StudyInv, StudyIsTyped

LEMMA WaitStep == ASSUME StudyInv, Study!Wait PROVE StudyInv'
<1>1. /\ studyStep = "wait" /\ outer \in Seq(Study!Entries) /\ Len(outer) \in Nat \ {0}
      /\ outer[Len(outer)] \in Study!Entries /\ outer[Len(outer)].phase = studyPhase
      /\ accepted' = accepted /\ frozen' = frozen /\ opened' = opened /\ verdicts' = verdicts
  BY DEF Study!Wait, StudyInv, StudyIsTyped, AttemptsAreMeasured, Underway, Study!results
<1> DEFINE e(status) == [outer[Len(outer)] EXCEPT !.status = status]
<1>2. \A status \in {"exception", "attempting"} :
         e(status) \in Study!Entries /\ e(status).phase = studyPhase /\ e(status).status = status
  BY <1>1 DEF Study!Entries
<1>3. CASE Study!GuardFails /\ outer' = Study!Marked(outer, "exception")
  <2>1. Becomes(e("exception"))
    BY <1>3 DEF Study!Marked, Becomes
  <2>2. Over
    BY <1>3, RaiseIsOver DEF StudyInv, Study!GuardFails
  <2> HIDE DEF e
  <2> QED
    BY <1>1, <1>2, <2>1, <2>2, AttemptFails DEF Underway
<1>4. CASE outer' = Study!Marked(outer, "attempting") /\ Continues /\ studyStep' = "native"
  <2>1. Becomes(e("attempting"))
    BY <1>4 DEF Study!Marked, Becomes
  <2> HIDE DEF e
  <2> QED
    BY <1>1, <1>2, <1>4, <2>1, AttemptContinues
<1> QED
  BY <1>3, <1>4 DEF Study!Wait, Study!Stays, Study!reports, Continues

LEMMA OutcomesAreRecords ==
  ASSUME NEW o \in Study!Outcomes
  PROVE  /\ o.status \in {"measured", "validation_stop", "environment_blocked"} /\ o.started \in BOOLEAN
         /\ o.mid \in {"none", "valid", "invalid"}
         /\ o.status = "measured" => o.mid = "valid"
<1>1. CASE o = [status |-> "measured", mid |-> "valid", started |-> TRUE]
  BY <1>1
<1>2. CASE o = [status |-> "validation_stop", mid |-> "invalid", started |-> TRUE]
  BY <1>2
<1>3. CASE o \in [status : {"environment_blocked", "validation_stop"}, mid : {"none"}, started : BOOLEAN]
  BY <1>3
<1> QED
  BY <1>1, <1>2, <1>3 DEF Study!Outcomes

LEMMA NativeStep == ASSUME StudyInv, Study!Native PROVE StudyInv'
<1>1. /\ studyStep = "native" /\ outer \in Seq(Study!Entries) /\ Len(outer) \in Nat \ {0}
      /\ outer[Len(outer)] \in Study!Entries /\ outer[Len(outer)].phase = studyPhase
      /\ accepted' = accepted /\ frozen' = frozen /\ opened' = opened /\ verdicts' = verdicts
  BY DEF Study!Native, StudyInv, StudyIsTyped, AttemptsAreMeasured, Underway, Study!results
<1> DEFINE e(o) == [outer[Len(outer)] EXCEPT !.status = o.status, !.mid = o.mid, !.started = o.started]
<1>2. ASSUME NEW o \in Study!Outcomes, outer' = Study!SetLast(outer, o), got' = o, studyStep' = "returned", Continues
      PROVE  StudyInv'
  <2>1. /\ o.status \in {"measured", "validation_stop", "environment_blocked"} /\ o.started \in BOOLEAN
        /\ o.mid \in {"none", "valid", "invalid"}
        /\ o.status = "measured" => o.mid = "valid"
    BY OutcomesAreRecords
  <2>2. /\ e(o) \in Study!Entries /\ e(o).phase = studyPhase /\ e(o).status = o.status
        /\ e(o).mid = o.mid
    BY <1>1, <2>1 DEF Study!Entries
  <2>3. Becomes(e(o))
    BY <1>2 DEF Study!SetLast, Becomes
  <2> HIDE DEF e
  <2> QED
    BY <1>1, <1>2, <2>1, <2>2, <2>3, AttemptContinues
<1>3. ASSUME NEW caught \in BOOLEAN, NEW started \in BOOLEAN, Study!Raise("fault", caught, <<>>),
             outer' = Study!SetLast(outer, Study!Failed(started))
      PROVE  StudyInv'
  <2> DEFINE o == Study!Failed(started)
  <2>1. e(o) \in Study!Entries /\ e(o).phase = studyPhase /\ e(o).status = "exception"
    BY <1>1 DEF Study!Entries, Study!Failed
  <2>2. Becomes(e(o))
    BY <1>3 DEF Study!SetLast, Becomes
  <2>3. Over
    BY <1>3, RaiseIsOver DEF StudyInv
  <2> HIDE DEF e, o
  <2> QED
    BY <1>1, <2>1, <2>2, <2>3, AttemptFails DEF Underway
<1> QED
  BY <1>2, <1>3 DEF Study!Native, Study!Stays, Study!reports, Continues

LEMMA ReturnedStep == ASSUME StudyInv, Study!Returned PROVE StudyInv'
<1>1. /\ studyStep = "returned" /\ outer \in Seq(Study!Entries) /\ Len(outer) \in Nat \ {0}
      /\ outer[Len(outer)] \in Study!Entries /\ outer[Len(outer)].phase = studyPhase /\ got' = got
      /\ accepted' = accepted /\ frozen' = frozen /\ opened' = opened /\ verdicts' = verdicts
  BY DEF Study!Returned, StudyInv, StudyIsTyped, AttemptsAreMeasured, Underway, Study!results
<1>2. CASE Study!GuardFails /\ outer' = Study!Marked(outer, "exception")
  <2> DEFINE e == [outer[Len(outer)] EXCEPT !.status = "exception"]
  <2>1. e \in Study!Entries /\ e.phase = studyPhase /\ e.status = "exception"
    BY <1>1 DEF Study!Entries
  <2>2. Becomes(e)
    BY <1>2 DEF Study!Marked, Becomes
  <2>3. Over
    BY <1>2, RaiseIsOver DEF StudyInv, Study!GuardFails
  <2> HIDE DEF e
  <2> QED
    BY <1>1, <2>1, <2>2, <2>3, AttemptFails DEF Underway
<1>3. CASE outer' = outer /\ Continues /\ studyStep' = "collect"
  <2>1. EvidenceGrows /\ Study!MeasuredRuns(studyPhase)' = Study!MeasuredRuns(studyPhase)
    BY <1>1, <1>3, EvidenceStays DEF Study!MeasuredRuns, Continues
  <2>2. AttemptsAreMeasured' /\ RowsAreCounted'
    BY <1>1, <1>3, <2>1 DEF StudyInv, AttemptsAreMeasured, RowsAreCounted, Continues, Between, Underway
  <2> QED
    BY <1>1, <1>3, <2>1, <2>2, PhaseContinues DEF StudyInv, StudyIsTyped
<1> QED
  BY <1>2, <1>3 DEF Study!Returned, Study!Stays, Study!reports, Continues

(* The next phase is entered through its gate, without attempts of its own. *)
AllMeasured == \A i \in 1..Len(outer) : outer[i].status = "measured"

LEMMA PhaseIsEntered ==
  ASSUME StudyInv, studyPhase \in Study!Phases, EvidenceGrows, outer' = outer, AllMeasured,
         NEW q \in Study!Phases, studyPhase' = q, Rank(q) = Rank(studyPhase) + 1, Study!Gate(q)',
         studyStep # "open", studyStep' = "open" \/ (studyStep' = "check" /\ q \in Study!Consumers),
         rows' = 0, raised' = raised, studyFinal' = studyFinal,
         frozen' = frozen, opened' = opened, accepted' \subseteq {"block-b", "product"}
  PROVE  StudyInv'
<1>1. studyPhase # "end" /\ studyStep \notin {"over", "reconstruct"} /\ outer \in Seq(Study!Entries)
  BY DEF StudyInv, StudyIsTyped, Study!Phases, Study!Blocks, Study!Nested, Study!Consumers
<1>2. \A i \in 1..Len(outer) : Rank(outer[i].phase) <= Rank(studyPhase)
  BY <1>1 DEF StudyInv, GatesWerePassed
<1>3. \A p \in Study!Phases : Rank(p) \in Nat
  BY DEF Rank, Study!Phases, Study!Blocks, Study!Nested, Study!Consumers
<1>4. \A i \in 1..Len(outer) : outer[i] \in Study!Entries
  BY <1>1
<1>5. \A i \in 1..Len(outer) : outer[i].phase \in Study!Phases
  BY <1>4 DEF Study!Entries
<1>6. \A i \in 1..Len(outer) : outer[i].phase # q /\ Rank(outer[i].phase) <= Rank(q)
  BY <1>2, <1>3, <1>5
<1>7. MadeIn(q) = {}
  BY <1>6 DEF MadeIn
<1>8. Study!MeasuredRuns(q)' = 0
  <2>1. Study!MeasuredRuns(q)' = Study!MeasuredRuns(q)
    BY DEF Study!MeasuredRuns
  <2> QED
    BY <1>7, <2>1, RunsAreMade, FS_EmptySet
<1>9. StudyIsTyped'
  BY <1>1 DEF StudyInv, StudyIsTyped, EvidenceGrows, Between, Study!Phases, Study!Blocks, Study!Nested, Study!Consumers
<1>10. AttemptsAreMeasured'
  BY <1>1 DEF StudyInv, AttemptsAreMeasured, AllMeasured, Underway
<1>11. RowsAreCounted'
  BY <1>8 DEF RowsAreCounted, Between, Underway
<1>12. GatesWerePassed'
  <2>1. \A x \in Study!Phases : Rank(x) <= Rank(studyPhase) /\ Study!Gate(x) => Study!Gate(x)'
    BY GateStays DEF EvidenceGrows
  <2>2. \A i \in 1..Len(outer) : Study!Gate(outer[i].phase)
    BY <1>1 DEF StudyInv, GatesWerePassed, Study!GatesHold
  <2>3. ASSUME NEW i \in 1..Len(outer), NEW x, x = outer[i].phase PROVE Study!Gate(x)'
    BY <1>2, <1>5, <2>1, <2>2, <2>3
  <2>4. Study!GatesHold'
    BY <1>1, <2>3 DEF Study!GatesHold
  <2>5. Study!Gate(studyPhase)'
    OBVIOUS
  <2> QED
    BY <1>6, <2>4, <2>5 DEF GatesWerePassed
<1>13. PhasesWereOpened'
  <2>1. \A p \in Freezing : Rank(p) < Rank(q) => p = studyPhase \/ Rank(p) < Rank(studyPhase)
    BY DEF Rank, Freezing, Study!Phases, Study!Blocks, Study!Nested, Study!Consumers
  <2>2. \A p \in Freezing : Rank(p) < Rank(q) => p \in opened
    BY <1>1, <2>1 DEF StudyInv, PhasesWereOpened
  <2> QED
    BY <2>2 DEF PhasesWereOpened, Freezing, Study!Consumers, Study!Blocks
<1>14. PassWasEarned'
  BY <1>1 DEF StudyInv, PassWasEarned, Study!PassIsComplete
<1> QED
  BY <1>9, <1>10, <1>11, <1>12, <1>13, <1>14 DEF StudyInv

LEMMA CollectStudyStep == ASSUME StudyInv, Study!Collect PROVE StudyInv'
<1> USE DEF Study!Collect
<1>1. /\ studyPhase \in Study!Phases /\ studyPhase # "end" /\ studyStep = "collect" /\ EvidenceGrows
      /\ outer' = outer /\ verdicts' = verdicts /\ opened' = opened
      /\ accepted' = accepted /\ frozen' = frozen /\ got \in Study!Outcomes
  BY EvidenceStays DEF StudyInv, StudyIsTyped
<1>2. CASE Over
  BY <1>1, <1>2, StudyIsOver DEF StudyInv, StudyIsTyped
<1>3. CASE Study!Stopped
  <2>1. Study!Label(got) \in {"VALIDATION-STOP", "ENVIRONMENT-BLOCKED"}
    BY DEF Study!Label
  <2>2. CASE studyPhase \in Study!Blocks
    <3>1. Study!BlockEnds(Study!Label(got), <<got>>, FALSE)
      BY <1>3, <2>2 DEF Study!Stopped, Study!Blocks
    <3> QED
      BY <1>2, <2>1, <3>1, BlockIsOver
  <2>3. CASE studyPhase = "raw"
    <3>1. Study!UtilityEnds(Study!Label(got)) /\ rows' = rows
      BY <1>3, <2>3 DEF Study!Stopped, Study!Blocks
    <3> QED
      BY <1>2, <2>1, <3>1, UtilityIsOver DEF Study!PRODUCT, StudyInv, StudyIsTyped
  <2>4. CASE studyPhase \in Study!Consumers
    <3>1. /\ rows' = rows
          /\ Study!StudyEnds("CONSUMER-VALIDATION-STOP") \/ Study!UtilityEnds("CONSUMER-VALIDATION-STOP")
      BY <1>3, <2>4 DEF Study!Stopped, Study!Blocks, Study!Consumers
    <3> QED
      BY <1>2, <3>1, UtilityIsOver DEF Study!PRODUCT, Study!PASS, Study!StudyEnds, Over, StudyInv, StudyIsTyped
  <2> QED
    BY <1>1, <2>2, <2>3, <2>4 DEF Study!Phases, Study!Nested, Study!Blocks, Study!Consumers
<1>4. ASSUME got.status = "measured" PROVE AllMeasured
  BY <1>1, <1>4 DEF AllMeasured, StudyInv, StudyIsTyped, AttemptsAreMeasured, Underway
<1>5. CASE Study!RowAdded
  <2>1. /\ studyPhase' = studyPhase /\ studyPhase \notin Study!Consumers /\ rows' = rows + 1
        /\ studyStep' = "check" /\ raised' = raised /\ studyFinal' = studyFinal /\ AllMeasured
    BY <1>4, <1>5 DEF Study!RowAdded
  <2>2. Study!MeasuredRuns(studyPhase)' = Study!MeasuredRuns(studyPhase)
    BY <1>1, <2>1 DEF Study!MeasuredRuns
  <2>3. StudyIsTyped'
    BY <1>1, <2>1 DEF StudyInv, StudyIsTyped, Between
  <2>4. AttemptsAreMeasured'
    BY <1>1, <2>1 DEF StudyInv, AttemptsAreMeasured, AllMeasured, Underway
  <2>5. RowsAreCounted'
    BY <1>1, <1>5, <2>1, <2>2 DEF Study!RowAdded, StudyInv, RowsAreCounted, Between, Underway
  <2>6. GatesWerePassed'
    BY <1>1, <2>1, GatesStay
  <2>7. PhasesWereOpened' /\ PassWasEarned'
    BY <1>1, <2>1 DEF StudyInv, PhasesWereOpened, PassWasEarned, Study!PassIsComplete
  <2> QED
    BY <2>3, <2>4, <2>5, <2>6, <2>7 DEF StudyInv
<1>6. CASE Study!Consumed
  <2>1. studyPhase \in Study!Consumers /\ AllMeasured /\ got.status = "measured"
    BY <1>4, <1>6 DEF Study!Consumed
  <2>2. CASE studyPhase = "consumer"
    <3>1. studyPhase' = "raw" /\ studyStep' = "open" /\ rows' = 0 /\ raised' = raised /\ studyFinal' = studyFinal
      BY <1>6, <2>2 DEF Study!Consumed, Study!Enter, Study!reports
    <3>2. Study!MeasuredRuns("consumer") = 1 /\ "block-b" \in accepted
      BY <1>1, <2>1, <2>2 DEF StudyInv, RowsAreCounted, GatesWerePassed, Study!Gate
    <3>3. Study!MeasuredRuns("consumer")' = Study!MeasuredRuns("consumer")
      BY <1>1 DEF Study!MeasuredRuns
    <3>4. Study!Gate("raw")'
      BY <1>1, <3>2, <3>3 DEF Study!Gate
    <3>5. Rank("raw") = Rank(studyPhase) + 1 /\ "raw" \in Study!Phases
      BY <2>2 DEF Rank, Study!Phases, Study!Nested
    <3> QED
      BY <1>1, <2>1, <3>1, <3>4, <3>5, PhaseIsEntered DEF StudyInv, StudyIsTyped
  <2>3. CASE Study!Raise("guard", TRUE, <<>>)
    BY <1>2, <2>3, RaiseIsOver DEF StudyInv
  <2>4. CASE studyPhase = "transfer-consumer" /\ Study!UtilityEnds(Study!PRODUCT) /\ UNCHANGED <<rows, raised>>
    <3>1. studyPhase' = "end" /\ studyStep' = "reconstruct" /\ studyFinal' = studyFinal
      BY <2>4 DEF Study!UtilityEnds
    <3>2. StudyIsTyped' /\ AttemptsAreMeasured'
      BY <1>1, <2>1, <2>4, <3>1 DEF StudyInv, StudyIsTyped, AttemptsAreMeasured, AllMeasured, Between, Underway
    <3>3. RowsAreCounted'
      BY <3>1 DEF RowsAreCounted, Between, Study!Consumers
    <3>4. PhasesWereOpened'
      BY <1>1, <2>4, <3>1 DEF StudyInv, PhasesWereOpened, Freezing, Study!Blocks, Rank
    <3>5. PassWasEarned'
      BY <1>1, <3>1 DEF StudyInv, PassWasEarned, Study!PassIsComplete
    <3> QED
      BY <1>1, <3>1, <3>2, <3>3, <3>4, <3>5, GatesStay DEF StudyInv
  <2> QED
    BY <1>6, <2>1, <2>2, <2>3, <2>4 DEF Study!Consumed, Study!Consumers
<1>7. CASE Study!Raise("fault", TRUE, <<got>>) \/ Study!GuardFails
  BY <1>2, <1>7, RaiseIsOver DEF StudyInv, Study!GuardFails
<1> QED
  BY <1>3, <1>5, <1>6, <1>7

LEMMA EvaluateBlockStep ==
  ASSUME Study!RepeatabilityStudyAssumption, StudyInv, Study!EvaluateBlock PROVE StudyInv'
<1> USE DEF Study!EvaluateBlock
<1>1. /\ studyPhase \in Study!Blocks /\ studyPhase # "end" /\ studyStep = "check" /\ rows = BlockRuns
      /\ outer' = outer /\ opened' = opened /\ accepted' = accepted /\ frozen' = frozen
      /\ AllMeasured /\ studyPhase \in Study!Phases
  BY DEF StudyInv, StudyIsTyped, AttemptsAreMeasured, AllMeasured, Study!Runs, Study!Blocks, Study!Phases, Underway
<1>2. PICK v \in {"PASS-MEASUREMENT", "INCONCLUSIVE"} :
        /\ verdicts' = [verdicts EXCEPT ![studyPhase] = v]
        /\ IF Study!Changed(studyPhase)
           THEN \E evaluated \in BOOLEAN :
                   Study!BlockEnds("VALIDATION-STOP", <<>>, evaluated) /\ raised' = "guard"
           ELSE Study!BlockEnds(v, <<>>, TRUE) /\ UNCHANGED raised
  OBVIOUS
<1>3. \A b : Study!MeasuredRuns(b)' = Study!MeasuredRuns(b)
  BY <1>1 DEF Study!MeasuredRuns
<1>4. EvidenceGrows
  BY <1>1, <1>2, <1>3 DEF EvidenceGrows, StudyInv, StudyIsTyped, AttemptsAreMeasured
<1>5. CASE Over
  BY <1>1, <1>4, <1>5, StudyIsOver DEF StudyInv, StudyIsTyped
<1>6. CASE v = "PASS-MEASUREMENT" /\ Study!BlockEnds(v, <<>>, TRUE) /\ raised' = raised
  <2>1. verdicts'[studyPhase] = "PASS-MEASUREMENT" /\ Study!MeasuredRuns(studyPhase) = BlockRuns
    BY <1>1, <1>2, <1>6 DEF StudyInv, StudyIsTyped, RowsAreCounted, Between, Freezing
  <2>2. CASE studyPhase = "block-a"
    <3>1. studyPhase' = "block-b" /\ studyStep' = "open" /\ rows' = 0 /\ studyFinal' = studyFinal
      BY <1>6, <2>2 DEF Study!BlockEnds
    <3>2. Study!Gate("block-b")'
      BY <1>3, <2>1, <2>2 DEF Study!Gate
    <3>3. Rank("block-b") = Rank(studyPhase) + 1 /\ "block-b" \in Study!Phases
      BY <2>2 DEF Rank, Study!Phases, Study!Blocks
    <3> QED
      BY <1>1, <1>4, <1>6, <3>1, <3>2, <3>3, PhaseIsEntered DEF StudyInv, StudyIsTyped
  <2>3. CASE studyPhase \in {"block-b", "product"}
    <3>1. studyPhase' = studyPhase /\ studyStep' = "publish" /\ rows' = 0 /\ studyFinal' = studyFinal
      BY <1>6, <2>3 DEF Study!BlockEnds
    <3>2. StudyIsTyped'
      BY <1>1, <1>4, <3>1 DEF StudyInv, StudyIsTyped, EvidenceGrows
    <3>3. AttemptsAreMeasured'
      BY <1>1, <1>6, <3>1 DEF StudyInv, AttemptsAreMeasured, AllMeasured, Underway
    <3>4. RowsAreCounted'
      BY <1>1, <1>3, <2>1, <2>3, <3>1 DEF RowsAreCounted, Between, Underway, Study!Consumers
    <3>5. PhasesWereOpened' /\ PassWasEarned'
      BY <1>1, <3>1 DEF StudyInv, PhasesWereOpened, PassWasEarned, Study!PassIsComplete
    <3> QED
      BY <1>1, <1>4, <3>1, <3>2, <3>3, <3>4, <3>5, GatesStay DEF StudyInv
  <2> QED
    BY <1>1, <2>2, <2>3 DEF Study!Blocks
<1>7. CASE \E evaluated : Study!BlockEnds("VALIDATION-STOP", <<>>, evaluated)
  BY <1>5, <1>7, BlockIsOver
<1>8. CASE v # "PASS-MEASUREMENT" /\ Study!BlockEnds(v, <<>>, TRUE)
  BY <1>5, <1>8, BlockIsOver
<1> QED
  BY <1>2, <1>6, <1>7, <1>8

LEMMA UtilityStep == ASSUME StudyInv, Study!Unstable \/ Study!EvaluateUtility PROVE StudyInv'
<1>1. /\ studyPhase = "raw" /\ studyStep = "check" /\ outer' = outer /\ opened' = opened
      /\ accepted' = accepted /\ frozen' = frozen /\ AllMeasured /\ studyPhase \in Study!Phases
  BY DEF Study!Unstable, Study!EvaluateUtility, Study!results, StudyInv, StudyIsTyped, AttemptsAreMeasured,
         AllMeasured, Study!Phases, Study!Nested, Underway
<1>2. \A b : Study!MeasuredRuns(b)' = Study!MeasuredRuns(b)
  BY <1>1 DEF Study!MeasuredRuns
<1>3. verdicts' = verdicts \/ \E v : verdicts' = [verdicts EXCEPT !.raw = v]
  BY DEF Study!Unstable, Study!EvaluateUtility, Study!results
<1>4. EvidenceGrows
  BY <1>1, <1>2, <1>3 DEF EvidenceGrows, StudyInv, StudyIsTyped, AttemptsAreMeasured
<1>5. CASE Over
  BY <1>1, <1>4, <1>5, StudyIsOver DEF StudyInv, StudyIsTyped
<1>6. CASE Study!Unstable
  BY <1>5, <1>6, RaiseIsOver DEF Study!Unstable, StudyInv
<1>7. CASE Study!EvaluateUtility
  <2>1. PICK v \in Study!UtilityVerdicts :
          /\ verdicts' = [verdicts EXCEPT !.raw = v]
          /\ \/ Study!StudyEnds("TRANSFER-VALIDATION-STOP") /\ rows' = rows
             \/ v = Study!UTILITY /\ Study!Enter("product") /\ UNCHANGED <<raised, studyFinal>>
    BY <1>7 DEF Study!EvaluateUtility
  <2>2. CASE Study!StudyEnds("TRANSFER-VALIDATION-STOP") /\ rows' = rows
    BY <1>5, <2>2 DEF Study!StudyEnds, Over, Study!PASS, StudyInv, StudyIsTyped
  <2>3. CASE v = Study!UTILITY /\ Study!Enter("product") /\ UNCHANGED <<raised, studyFinal>>
    <3>1. studyPhase' = "product" /\ studyStep' = "open" /\ rows' = 0
      BY <2>3 DEF Study!Enter
    <3>2. Study!MeasuredRuns("raw") = RawRuns
      BY <1>1, <1>7 DEF Study!EvaluateUtility, StudyInv, RowsAreCounted, Between
    <3>3. verdicts'["raw"] = Study!UTILITY
      BY <2>1, <2>3 DEF StudyInv, StudyIsTyped, Freezing
    <3>4. Study!Gate("product")'
      BY <1>2, <3>2, <3>3 DEF Study!Gate
    <3>5. Rank("product") = Rank(studyPhase) + 1 /\ "product" \in Study!Phases
      BY <1>1 DEF Rank, Study!Phases, Study!Blocks
    <3> QED
      BY <1>1, <1>4, <2>3, <3>1, <3>4, <3>5, PhaseIsEntered DEF StudyInv, StudyIsTyped
  <2> QED
    BY <2>1, <2>2, <2>3
<1> QED
  BY <1>6, <1>7

LEMMA PublishStep == ASSUME StudyInv, Study!Publish PROVE StudyInv'
<1> USE DEF Study!Publish
<1>1. /\ studyPhase \in {"block-b", "product"} /\ studyPhase # "end" /\ studyStep = "publish" /\ outer' = outer
      /\ opened' = opened /\ frozen' = frozen /\ AllMeasured /\ studyPhase \in Study!Phases
      /\ verdicts' = verdicts /\ verdicts[studyPhase] = "PASS-MEASUREMENT"
      /\ Study!MeasuredRuns(studyPhase) = BlockRuns
  BY DEF StudyInv, StudyIsTyped, AttemptsAreMeasured, AllMeasured, RowsAreCounted,
         Study!Phases, Study!Blocks, Study!Nested, Underway
<1>2. \A b : Study!MeasuredRuns(b)' = Study!MeasuredRuns(b)
  BY <1>1 DEF Study!MeasuredRuns
<1>3. accepted \subseteq accepted' /\ accepted' \subseteq {"block-b", "product"}
  BY <1>1 DEF StudyInv, StudyIsTyped
<1>4. EvidenceGrows
  BY <1>1, <1>2, <1>3 DEF EvidenceGrows, StudyInv, StudyIsTyped, AttemptsAreMeasured
<1>5. CASE Over
  BY <1>1, <1>3, <1>4, <1>5, StudyIsOver DEF StudyInv, StudyIsTyped
<1>6. CASE accepted' = accepted \cup {studyPhase} /\ studyStep' = "check" /\ rows' = 0
           /\ studyPhase' = (IF studyPhase = "product" THEN "transfer-consumer" ELSE "consumer")
           /\ UNCHANGED <<raised, studyFinal>>
  <2> DEFINE q == IF studyPhase = "product" THEN "transfer-consumer" ELSE "consumer"
  <2>1. q \in Study!Consumers /\ q \in Study!Phases /\ Rank(q) = Rank(studyPhase) + 1
    BY <1>1 DEF Rank, Study!Phases, Study!Consumers
  <2>2. ASSUME NEW x, x = q PROVE Study!Gate(x)'
    BY <1>1, <1>2, <1>6, <2>2 DEF Study!Gate
  <2> HIDE DEF q
  <2>3. studyPhase' = q
    BY <1>6 DEF q
  <2>4. PICK x : x = q
    OBVIOUS
  <2> QED
    BY <1>1, <1>3, <1>4, <1>6, <2>1, <2>2, <2>3, <2>4, PhaseIsEntered
<1>7. CASE Study!Escape
  BY <1>5, <1>7, EscapeIsOver DEF StudyInv
<1>8. CASE Study!UtilityEnds("PRODUCT-VALIDATION-STOP") /\ rows' = rows
  BY <1>5, <1>8, UtilityIsOver DEF Study!PRODUCT, StudyInv, StudyIsTyped
<1> QED
  BY <1>6, <1>7, <1>8

(* A study whose audit accepts a pass is complete. *)
LEMMA AcceptedIsComplete ==
  ASSUME StudyInv, studyStep = "reconstruct", Study!Accepts(Study!PASS)
  PROVE  /\ Len(outer) = Study!Budget
         /\ \A i \in 1..Len(outer) : outer[i].status = "measured" /\ outer[i].mid = "valid"
         /\ accepted = {"block-b", "product"}
         /\ \A p \in Freezing : frozen[p] = FALSE
<1>1. /\ studyPhase = "end" /\ accepted \subseteq {"block-b", "product"}
      /\ \A p \in Freezing : p \in opened
  BY DEF StudyInv, StudyIsTyped, PhasesWereOpened, Rank, Freezing, Study!Blocks
<1>2. Len(outer) = Study!Budget
  BY DEF Study!Accepts
<1>3. \A i \in 1..Len(outer) : outer[i].status = "measured" /\ outer[i].mid = "valid"
  BY DEF StudyInv, AttemptsAreMeasured, Underway
<1>4. Study!Expected = Study!PASS
  BY DEF Study!Accepts, Study!PASS
<1>5. Study!BothPassed /\ Study!ConsumerPassed("consumer") /\ utility.status = Study!PRODUCT
  BY <1>4 DEF Study!Expected, Study!PASS
<1>6. "block-b" \in accepted /\ Study!ConsumerTransferVerify(Study!PASS)
  BY <1>5 DEF Study!Accepts, Study!ConsumerPassed
<1>7. Study!TransferVerifies(Study!PASS)
  BY <1>5, <1>6 DEF Study!ConsumerTransferVerify, Study!PASS
<1>8. Study!FrozenHost("raw") /\ Study!ResultVerifies /\ Study!ProductVerifies
  BY <1>5, <1>7 DEF Study!TransferVerifies, Study!PRODUCT
<1>9. "product" \in accepted
  BY <1>5, <1>8 DEF Study!ResultVerifies
<1>10. Study!FrozenHost("product")
  BY <1>1, <1>8 DEF Study!ProductVerifies, Study!BlockVerifies, Freezing, Study!Blocks
<1>11. Study!BlocksVerify(Study!PASS)
  BY DEF Study!Accepts
<1>12. Study!FrozenHost("block-a") /\ Study!FrozenHost("block-b")
  BY <1>1, <1>5, <1>11 DEF Study!BlocksVerify, Study!BothPassed, Study!MainVerifies, Study!BlockVerifies,
     Freezing, Study!Blocks
<1> QED
  BY <1>1, <1>2, <1>3, <1>6, <1>8, <1>9, <1>10, <1>12 DEF Study!FrozenHost, Freezing, Study!Blocks

LEMMA ReconstructStep == ASSUME StudyInv, Study!Reconstruct PROVE StudyInv'
<1>1. /\ studyStep = "reconstruct" /\ studyPhase = "end" /\ outer' = outer /\ outer \in Seq(Study!Entries)
      /\ studyPhase' = "end" /\ studyStep' = "over" /\ rows' = rows /\ verdicts' = verdicts
      /\ accepted' = accepted /\ frozen' = frozen
      /\ studyFinal' = IF Study!Accepts(Study!PASS) THEN Study!PASS ELSE "VALIDATION-STOP"
  BY DEF Study!Reconstruct, Study!StudyEnds, Study!results, StudyInv, StudyIsTyped
<1>2. \A b : Study!MeasuredRuns(b)' = Study!MeasuredRuns(b)
  BY <1>1 DEF Study!MeasuredRuns
<1>3. StudyIsTyped'
  BY <1>1 DEF StudyInv, StudyIsTyped
<1>4. AttemptsAreMeasured'
  BY <1>1 DEF StudyInv, AttemptsAreMeasured, Underway
<1>5. RowsAreCounted'
  BY <1>1 DEF StudyInv, RowsAreCounted, Between, Study!Consumers
<1>6. GatesWerePassed'
  <2>1. ASSUME NEW q, Study!Gate(q) PROVE Study!Gate(q)'
    BY <1>1, <1>2, <2>1 DEF Study!Gate
  <2>2. \A i \in 1..Len(outer) : Study!Gate(outer[i].phase)
    BY <1>1 DEF StudyInv, GatesWerePassed, Study!GatesHold
  <2>3. ASSUME NEW i \in 1..Len(outer), NEW q, q = outer[i].phase PROVE Study!Gate(q)'
    BY <2>1, <2>2, <2>3
  <2>4. Study!GatesHold'
    BY <1>1, <2>3 DEF Study!GatesHold
  <2> QED
    BY <1>1, <2>4 DEF GatesWerePassed
<1>7. PhasesWereOpened'
  BY <1>1 DEF PhasesWereOpened
<1>8. PassWasEarned'
  <2>1. CASE Study!Accepts(Study!PASS)
    <3>1. /\ Len(outer) = Study!Budget
          /\ \A i \in 1..Len(outer) : outer[i].status = "measured" /\ outer[i].mid = "valid"
          /\ accepted = {"block-b", "product"}
          /\ \A p \in Freezing : frozen[p] = FALSE
      BY <1>1, <2>1, AcceptedIsComplete
    <3>2. DOMAIN frozen = Freezing /\ DOMAIN outer = 1..Len(outer)
      BY <1>1 DEF StudyInv, StudyIsTyped
    <3>3. Study!PassIsComplete'
      BY <1>1, <3>1, <3>2 DEF Study!PassIsComplete
    <3> QED
      BY <1>1, <3>3 DEF PassWasEarned
  <2>2. CASE ~Study!Accepts(Study!PASS)
    BY <1>1, <2>2 DEF PassWasEarned, Study!PassIsComplete, Study!PASS
  <2> QED
    BY <2>1, <2>2
<1> QED
  BY <1>3, <1>4, <1>5, <1>6, <1>7, <1>8 DEF StudyInv

(* The host may change at any time, and nothing else does then. *)
LEMMA DriftStep == ASSUME StudyInv, Study!Drift \/ UNCHANGED studyVars PROVE StudyInv'
<1>1. /\ outer' = outer /\ studyPhase' = studyPhase /\ studyStep' = studyStep /\ rows' = rows
      /\ raised' = raised /\ got' = got /\ opened' = opened /\ verdicts' = verdicts
      /\ accepted' = accepted /\ frozen' = frozen /\ studyFinal' = studyFinal
  BY DEF Study!Drift, Study!where, Study!results, Study!reports, studyVars
<1>2. \A b : Study!MeasuredRuns(b)' = Study!MeasuredRuns(b)
  BY <1>1 DEF Study!MeasuredRuns
<1>3. StudyIsTyped' /\ AttemptsAreMeasured'
  BY <1>1 DEF StudyInv, StudyIsTyped, AttemptsAreMeasured
<1>4. RowsAreCounted'
  BY <1>1, <1>2 DEF StudyInv, RowsAreCounted
<1>5. GatesWerePassed'
  <2>1. ASSUME NEW q, Study!Gate(q) PROVE Study!Gate(q)'
    BY <1>1, <1>2, <2>1 DEF Study!Gate
  <2>2. ASSUME NEW i \in DOMAIN outer, NEW q, q = outer[i].phase PROVE Study!Gate(q)'
    BY <2>1, <2>2 DEF StudyInv, GatesWerePassed, Study!GatesHold
  <2>3. Study!GatesHold'
    BY <1>1, <2>2 DEF Study!GatesHold
  <2>4. ASSUME studyPhase' # "end" PROVE Study!Gate(studyPhase)'
    <3>1. PICK q : q = studyPhase
      OBVIOUS
    <3>2. Study!Gate(q)'
      BY <1>1, <2>1, <2>4, <3>1 DEF StudyInv, GatesWerePassed
    <3> QED
      BY <1>1, <3>1, <3>2
  <2> QED
    BY <1>1, <2>3, <2>4 DEF StudyInv, GatesWerePassed
<1>6. PhasesWereOpened' /\ PassWasEarned'
  BY <1>1 DEF StudyInv, PhasesWereOpened, PassWasEarned, Study!PassIsComplete
<1> QED
  BY <1>3, <1>4, <1>5, <1>6 DEF StudyInv

LEMMA StudyStep ==
  ASSUME Study!RepeatabilityStudyAssumption, StudyInv, Study!Next \/ UNCHANGED studyVars PROVE StudyInv'
  BY OpenStep, CheckStep, EnterOuterStep, WaitStep, NativeStep, ReturnedStep, CollectStudyStep,
     EvaluateBlockStep, UtilityStep, PublishStep, ReconstructStep, DriftStep DEF Study!Next, Study!Study

LEMMA StudyInit == ASSUME Study!RepeatabilityStudyAssumption, Study!Init PROVE StudyInv
<1> USE DEF Study!Init
<1>1. MadeIn("block-a") = {} /\ Study!MeasuredRuns("block-a") = 0
  <2>1. MadeIn("block-a") = {}
    BY DEF MadeIn
  <2> QED
    BY <2>1, RunsAreMade, FS_EmptySet
<1>2. StudyIsTyped /\ AttemptsAreMeasured
  BY DEF StudyIsTyped, AttemptsAreMeasured, Between, Underway, Freezing, Study!Phases, Study!Blocks
<1>3. RowsAreCounted
  BY <1>1 DEF RowsAreCounted, Between, Underway, Study!Consumers
<1>4. GatesWerePassed
  BY DEF GatesWerePassed, Study!Gate, Study!GatesHold
<1>5. PhasesWereOpened /\ PassWasEarned
  BY DEF PhasesWereOpened, PassWasEarned, Study!PassIsComplete, Study!PASS, Rank, Freezing, Study!Blocks
<1> QED
  BY <1>2, <1>3, <1>4, <1>5 DEF StudyInv

(* Only GuardedRunner makes an attempt, and it makes none after a failure. *)
LEMMA StudyDoesNotRetry ==
  ASSUME StudyInv, Study!Next \/ UNCHANGED studyVars PROVE ~Study!Retries
<1> SUFFICES ASSUME Len(outer') > Len(outer) PROVE raised = "no" /\ \A i \in DOMAIN outer : outer[i].status = "measured"
  BY DEF Study!Retries
<1>1. outer \in Seq(Study!Entries) /\ Len(outer) \in Nat
  BY DEF StudyInv, StudyIsTyped
<1>2. \A o : Len(Study!SetLast(outer, o)) = Len(outer) /\ Len(Study!Marked(outer, o)) = Len(outer)
  BY <1>1 DEF Study!SetLast, Study!Marked
<1>3. outer' # outer
  BY <1>1
<1>4. ~(Study!Wait \/ Study!Native \/ Study!Returned)
  <2>1. Study!Wait => \E o : outer' = Study!Marked(outer, o)
    BY DEF Study!Wait
  <2>2. Study!Native => \E o : outer' = Study!SetLast(outer, o)
    BY DEF Study!Native
  <2>3. Study!Returned => outer' = outer \/ \E o : outer' = Study!Marked(outer, o)
    BY DEF Study!Returned
  <2> QED
    BY <1>1, <1>2, <2>1, <2>2, <2>3
<1>5. ~(Study!Drift \/ Study!Open \/ Study!Check \/ Study!EnterInner \/ UNCHANGED studyVars)
  BY <1>3 DEF Study!Drift, Study!Open, Study!Check, Study!EnterInner, studyVars
<1>6. ~(Study!Collect \/ Study!EvaluateBlock \/ Study!Unstable \/ Study!EvaluateUtility)
  BY <1>3 DEF Study!Collect, Study!EvaluateBlock, Study!Unstable, Study!EvaluateUtility
<1>7. ~(Study!Publish \/ Study!Reconstruct)
  BY <1>3 DEF Study!Publish, Study!Reconstruct
<1>8. Study!EnterOuter
  BY <1>4, <1>5, <1>6, <1>7 DEF Study!Next, Study!Study
<1> QED
  BY <1>1, <1>8 DEF Study!EnterOuter, StudyInv, StudyIsTyped, AttemptsAreMeasured, Underway

-----------------------------------------------------------------------------
(* The wider study: its inductive invariant *)

Attempting == {"wait", "spawn", "start", "native", "collect"}
Running    == Attempting \cup {"run", "guard", "freeze", "publish"}
Ending     == {"count", "over"}
Stages     == {"capture", "load", "next", "open", "validate"} \cup Running \cup Ending

Tries(i)     == Len(attempts[i])
Varies(i)    == rates[i].stable = FALSE
Steady(i)    == rates[i].stable = TRUE
PhaseAt(k)   == IF k <= Coverage!UtilityRuns THEN "raw"
                ELSE IF k <= Coverage!UtilityRuns + BlockRuns THEN "product" ELSE "consumer"
RunsBefore(p) ==
    CASE p = "raw" -> 0 [] p = "product" -> Coverage!UtilityRuns
      [] p = "consumer" -> Coverage!UtilityRuns + BlockRuns
AllValid(i)  == \A k \in 1..Tries(i) : Coverage!Valid(attempts[i][k])

VerdictRecords ==
    [stable  : BOOLEAN \cup {None},
     utility : Coverage!NoGain \cup {"VARIANCE-STOP", Coverage!GAIN, None},
     product : Coverage!PairVerdicts \cup {None}]

CoverIsTyped ==
    /\ stage \in Stages /\ section \in {"raw", "product", "consumer"} /\ made \in Nat
    /\ case \in 0..(Cases + 1) /\ (stage \in {"capture", "load"} => case = 0)
    /\ stage = "next" => case # 0
    /\ stage \in {"open", "validate"} \cup Running => case \in Coverage!All
    /\ attempts \in [Coverage!All -> Seq(Coverage!Entries)]
    /\ rates \in [Coverage!All -> VerdictRecords]
    /\ DOMAIN reports = Coverage!All /\ DOMAIN results = Coverage!All /\ DOMAIN frozenOn = Coverage!All
    /\ stage \in Running \cup {"validate"} => DOMAIN reports[case] = {"status", "rows", "tail", "picked", "stats"}

(* Attempts are made in the order of the phases, and only the last one of  *)
(* a case, while it is made or when the case is over, may have failed.     *)
Placed(i) ==
    \A k \in 1..Tries(i) :
        /\ attempts[i][k].phase = PhaseAt(k)
        /\ attempts[i][k].late => attempts[i][k].started
        /\ \/ Coverage!Valid(attempts[i][k])
           \/ k = Tries(i) /\ (stage \in Ending \/ (i = case /\ stage \in Attempting \cup {"validate"}))
AttemptsArePlaced ==
    /\ \A i \in Coverage!All : Placed(i)
    /\ stage = "collect" /\ returnedRun.status = "measured" => Coverage!Valid(Coverage!Latest)

(* A case that let the next one start. *)
Settled(i) ==
    /\ AllValid(i) /\ results[i].inBudget /\ results[i].status # "NOT-RUN"
    /\ \/ Varies(i) /\ Tries(i) = ReferenceRuns
       \/ rates[i].utility \in Coverage!NoGain \cup {"VARIANCE-STOP"} /\ Tries(i) = Coverage!UtilityRuns
       \/ /\ rates[i].product \in Coverage!PairVerdicts \ {"PASS-MEASUREMENT"}
          /\ Tries(i) = Coverage!UtilityRuns + BlockRuns
       \/ Tries(i) = Coverage!CaseBudget

CasesAreInOrder ==
    /\ \A i \in Coverage!All : i < case => Settled(i)
    /\ \A i \in Coverage!All :
          i > case \/ (i = case /\ stage \notin Running \cup {"validate"} \cup Ending)
              => Tries(i) = 0 /\ ~Varies(i)
    /\ \A i \in Coverage!All : i >= case /\ stage \notin Ending => ~results[i].verified

(* The rows of a case are its attempts but for the one that is being made. *)
RowsAreAttempts ==
    /\ stage \in Running =>
          /\ Tries(case) = RunsBefore(section) + made + (IF stage \in Attempting THEN 1 ELSE 0)
          /\ made <= Coverage!Runs(section)
          /\ reports[case].rows = IF section = "raw" THEN made ELSE Coverage!UtilityRuns
          /\ section = "raw" /\ made >= ReferenceRuns => Steady(case)
          /\ ~Varies(case)
          /\ section # "raw" \/ stage = "freeze" =>
                rates[case].utility = Coverage!GAIN /\ reports[case].stats = Coverage!GAIN
          /\ section = "consumer" \/ stage = "publish" => rates[case].product = "PASS-MEASUREMENT"
          /\ section = "consumer" => case \in published
    /\ stage \in Attempting \cup {"guard"} => made < Coverage!Runs(section)
    /\ stage = "guard" => section # "raw"
    /\ stage = "freeze" => section = "raw" /\ made = Coverage!UtilityRuns
    /\ stage = "publish" => section = "product" /\ made = BlockRuns

(* What a case needs for the attempts that it has. *)
Backed(i) ==
    /\ Tries(i) > ReferenceRuns => Steady(i)
    /\ Tries(i) > Coverage!UtilityRuns => rates[i].utility = Coverage!GAIN
    /\ Tries(i) > Coverage!UtilityRuns + BlockRuns =>
          rates[i].product = "PASS-MEASUREMENT" /\ i \in published

(* The status with which a case ends says how far it came. *)
StatusesAreEarned ==
    stage = "validate" =>
        /\ reports[case].status \in Coverage!NoGain =>
              rates[case].utility \in Coverage!NoGain /\ Tries(case) = Coverage!UtilityRuns
        /\ reports[case].status = "VARIANCE-STOP" =>
              \/ Varies(case) /\ Tries(case) = ReferenceRuns
              \/ rates[case].utility = "VARIANCE-STOP" /\ Tries(case) = Coverage!UtilityRuns
        /\ reports[case].status = "PRODUCT-VALIDATION-STOP" =>
              /\ rates[case].product \in Coverage!PairVerdicts \ {"PASS-MEASUREMENT"}
              /\ Tries(case) = Coverage!UtilityRuns + BlockRuns
        /\ reports[case].status = Coverage!PRODUCT =>
              /\ Tries(case) = Coverage!CaseBudget /\ AllValid(case) /\ case \in published
              /\ reports[case].rows = Coverage!UtilityRuns /\ reports[case].stats = Coverage!GAIN

CoverInv ==
    /\ CoverIsTyped /\ AttemptsArePlaced /\ CasesAreInOrder /\ RowsAreAttempts
    /\ (\A i \in Coverage!All : Backed(i)) /\ StatusesAreEarned /\ Coverage!GainIsComplete

-----------------------------------------------------------------------------
(* The cases that are not running *)

CoverBounds == Coverage!CoverageStudyAssumption

LEMMA CoverNumbers ==
  ASSUME CoverBounds
  PROVE  /\ Cases \in Nat \ {0} /\ ReferenceRuns \in Nat \ {0} /\ BlockRuns \in Nat \ {0}
         /\ Coverage!UtilityRuns \in Nat /\ Coverage!UtilityRuns > ReferenceRuns
         /\ Coverage!CaseBudget = Coverage!UtilityRuns + BlockRuns + 1
         /\ None # FALSE /\ None # TRUE
<1>1. {Cases, ReferenceRuns, ScreeningRuns, ConfirmationRuns, BlockRuns} \subseteq Nat \ {0}
  BY DEF CoverBounds, Coverage!CoverageStudyAssumption
<1>2. /\ Cases \in Nat \ {0} /\ ReferenceRuns \in Nat \ {0} /\ BlockRuns \in Nat \ {0}
      /\ ScreeningRuns \in Nat \ {0} /\ ConfirmationRuns \in Nat \ {0}
  BY <1>1
<1>3. Coverage!UtilityRuns = ReferenceRuns + ScreeningRuns + ConfirmationRuns
  BY DEF Coverage!UtilityRuns, Coverage!Picked
<1>4. Coverage!UtilityRuns \in Nat /\ Coverage!UtilityRuns > ReferenceRuns
  BY <1>2, <1>3
<1>5. Coverage!CaseBudget = Coverage!UtilityRuns + BlockRuns + 1
  BY DEF Coverage!CaseBudget
<1>6. None # FALSE /\ None # TRUE
  BY DEF CoverBounds, Coverage!CoverageStudyAssumption
<1> QED
  BY <1>2, <1>4, <1>5, <1>6

(* A step of a case touches nothing of the others. *)
OthersStay ==
    /\ case' = case /\ results' = results /\ DOMAIN frozenOn' = Coverage!All /\ published \subseteq published'
    /\ \A i \in Coverage!All : i # case =>
          attempts'[i] = attempts[i] /\ rates'[i] = rates[i] /\ frozenOn'[i] = frozenOn[i]

LEMMA CaseProceeds ==
  ASSUME CoverInv, stage \in Running, stage' \in Running \cup {"validate"}, OthersStay,
         CoverIsTyped', RowsAreAttempts', StatusesAreEarned', NEW c, c = case, Placed(c)', Backed(c)',
         stage' = "collect" /\ returnedRun'.status = "measured" => Coverage!Valid(Coverage!Latest)'
  PROVE  CoverInv'
<1>1. /\ \A i \in Coverage!All : i # c => attempts'[i] = attempts[i] /\ rates'[i] = rates[i] /\ frozenOn'[i] = frozenOn[i]
      /\ c \in Coverage!All /\ case' = c /\ results' = results /\ published \subseteq published'
      /\ Coverage!All' = Coverage!All
  BY DEF OthersStay, CoverInv, CoverIsTyped, Coverage!All
<1>2. stage \notin Ending /\ stage' \notin Ending
  BY DEF Running, Attempting, Ending
<1>3. \A i \in Coverage!All : i # c => Placed(i)' /\ Backed(i)'
  BY <1>1, <1>2 DEF CoverInv, AttemptsArePlaced, Placed, Backed, Tries, Varies, Steady
<1>4. AttemptsArePlaced'
  BY <1>1, <1>3 DEF AttemptsArePlaced
<1>5. CasesAreInOrder'
  <2>1. \A i \in Coverage!All : i < c => i # c
    BY DEF CoverInv, CoverIsTyped, Coverage!All
  <2>2. \A i \in Coverage!All : i < c => Settled(i)'
    BY <1>1, <2>1 DEF CoverInv, CasesAreInOrder, Settled, AllValid, Tries, Varies
  <2>3. \A i \in Coverage!All : i > c => Tries(i)' = 0 /\ ~Varies(i)'
    <3>1. ASSUME NEW i \in Coverage!All, i > c PROVE i # c /\ Tries(i) = 0 /\ ~Varies(i)
      BY <1>1, <3>1 DEF CoverInv, CasesAreInOrder, Coverage!All
    <3> QED
      BY <1>1, <3>1 DEF Tries, Varies
  <2>4. \A i \in Coverage!All : i >= c => ~results'[i].verified
    BY <1>1, <1>2 DEF CoverInv, CasesAreInOrder
  <2> QED
    BY <1>1, <2>2, <2>3, <2>4 DEF CasesAreInOrder
<1>6. Coverage!GainIsComplete'
  <2>1. ~results[c].verified
    BY <1>1, <1>2 DEF CoverInv, CoverIsTyped, CasesAreInOrder, Coverage!All
  <2> QED
    BY <1>1, <2>1 DEF CoverInv, Coverage!GainIsComplete
<1> QED
  BY <1>1, <1>3, <1>4, <1>5, <1>6 DEF CoverInv

(* What a failed step does to the attempts of its case: nothing, or it     *)
(* says how the one under way ended.                                       *)
Logged(e) == attempts' = [attempts EXCEPT ![case] = [@ EXCEPT ![Len(@)] = e]]

LEMMA AttemptIsLogged ==
  ASSUME CoverInv, stage \in Attempting, CoverBounds, NEW e \in Coverage!Entries, Logged(e),
         e.phase = Coverage!Latest.phase, e.late => e.started
  PROVE  /\ attempts' \in [Coverage!All -> Seq(Coverage!Entries)]
         /\ \A i \in Coverage!All : i # case => attempts'[i] = attempts[i]
         /\ Len(attempts'[case]) = Tries(case) /\ Tries(case) \in Nat \ {0}
         /\ \A k \in 1..Tries(case) : attempts'[case][k] = IF k = Tries(case) THEN e ELSE attempts[case][k]
         /\ \A k \in 1..Tries(case) : attempts'[case][k].phase = PhaseAt(k)
         /\ \A k \in 1..Tries(case) : attempts'[case][k].late => attempts'[case][k].started
         /\ \A k \in 1..Tries(case) : k # Tries(case) => Coverage!Valid(attempts'[case][k])
<1>1. /\ case \in Coverage!All /\ attempts \in [Coverage!All -> Seq(Coverage!Entries)]
      /\ attempts[case] \in Seq(Coverage!Entries) /\ Tries(case) \in Nat
  BY DEF CoverInv, CoverIsTyped, Running, Tries
<1>2. Tries(case) > 0
  <2>1. RunsBefore(section) \in Nat /\ made \in Nat
    BY CoverNumbers DEF CoverInv, CoverIsTyped, RunsBefore
  <2> QED
    BY <2>1 DEF CoverInv, RowsAreAttempts, Running
<1>3. [attempts[case] EXCEPT ![Len(attempts[case])] = e] \in Seq(Coverage!Entries)
  BY <1>1, <1>2 DEF Tries
<1>4. /\ attempts' \in [Coverage!All -> Seq(Coverage!Entries)]
      /\ \A i \in Coverage!All : i # case => attempts'[i] = attempts[i]
      /\ attempts'[case] = [attempts[case] EXCEPT ![Len(attempts[case])] = e]
  BY <1>1, <1>3 DEF Logged
<1>5. /\ Len(attempts'[case]) = Tries(case)
      /\ \A k \in 1..Tries(case) : attempts'[case][k] = IF k = Tries(case) THEN e ELSE attempts[case][k]
  BY <1>1, <1>2, <1>4 DEF Tries
<1>6. Placed(case)
  BY <1>1 DEF CoverInv, AttemptsArePlaced
<1>7. \A k \in 1..Tries(case) : k # Tries(case) => Coverage!Valid(attempts[case][k])
  BY <1>6 DEF Placed
<1>8. \A k \in 1..Tries(case) : attempts[case][k].phase = PhaseAt(k) /\ (attempts[case][k].late => attempts[case][k].started)
  BY <1>6 DEF Placed
<1>9. e.phase = PhaseAt(Tries(case))
  BY <1>2, <1>1, <1>8 DEF Coverage!Latest, Tries
<1>10. \A k \in 1..Tries(case) : k # Tries(case) => attempts'[case][k] = attempts[case][k]
  BY <1>5
<1>11. attempts'[case][Tries(case)] = e
  BY <1>1, <1>2, <1>5
<1>12. \A k \in 1..Tries(case) : /\ attempts'[case][k].phase = PhaseAt(k)
                                 /\ attempts'[case][k].late => attempts'[case][k].started
                                 /\ k # Tries(case) => Coverage!Valid(attempts'[case][k])
  <2>1. ASSUME NEW k \in 1..Tries(case), k # Tries(case)
        PROVE  /\ attempts'[case][k].phase = PhaseAt(k)
               /\ attempts'[case][k].late => attempts'[case][k].started
               /\ Coverage!Valid(attempts'[case][k])
    BY <1>7, <1>8, <1>10, <2>1
  <2> QED
    BY <1>9, <1>11, <2>1
<1>13. Tries(case) \in Nat \ {0}
  BY <1>1, <1>2
<1> QED
  BY <1>4, <1>5, <1>12, <1>13, Zenon
(* The attempts of the case stay those that were made, however the last ended. *)
AttemptsStay ==
    /\ attempts' \in [Coverage!All -> Seq(Coverage!Entries)]
    /\ \A i \in Coverage!All : i # case => attempts'[i] = attempts[i]
    /\ Len(attempts'[case]) = Tries(case)
    /\ \A k \in 1..Tries(case) : /\ attempts'[case][k].phase = PhaseAt(k)
                                 /\ attempts'[case][k].late => attempts'[case][k].started
                                 /\ k # Tries(case) => Coverage!Valid(attempts'[case][k])

LEMMA SameAttempts == ASSUME CoverInv, stage \in Running, attempts' = attempts PROVE AttemptsStay
<1>1. case \in Coverage!All /\ attempts \in [Coverage!All -> Seq(Coverage!Entries)]
  BY DEF CoverInv, CoverIsTyped
<1>2. Placed(case)
  BY <1>1 DEF CoverInv, AttemptsArePlaced
<1> QED
  BY <1>1, <1>2 DEF AttemptsStay, Placed, Tries

LEMMA LoggedAttempts ==
  ASSUME CoverInv, stage \in Attempting, CoverBounds, NEW e \in Coverage!Entries, Logged(e),
         e.phase = Coverage!Latest.phase, e.late => e.started
  PROVE  AttemptsStay
<1>1. /\ attempts' \in [Coverage!All -> Seq(Coverage!Entries)]
      /\ \A i \in Coverage!All : i # case => attempts'[i] = attempts[i]
      /\ Len(attempts'[case]) = Tries(case)
      /\ \A k \in 1..Tries(case) : attempts'[case][k].phase = PhaseAt(k)
      /\ \A k \in 1..Tries(case) : attempts'[case][k].late => attempts'[case][k].started
      /\ \A k \in 1..Tries(case) : k # Tries(case) => Coverage!Valid(attempts'[case][k])
  BY AttemptIsLogged
<1> QED
  BY <1>1 DEF AttemptsStay

(* A case that failed has nothing to show. *)
CaseHas(s) ==
    /\ stage' = "validate" /\ section' \in {"raw", "product", "consumer"} /\ made' \in Nat
    /\ DOMAIN reports' = Coverage!All
    /\ DOMAIN reports'[case] = {"status", "rows", "tail", "picked", "stats"} /\ reports'[case].status = s

LEMMA CaseIsTyped ==
  ASSUME CoverInv, stage \in Running, AttemptsStay, NEW s, CaseHas(s),
         rates' \in [Coverage!All -> VerdictRecords], OthersStay
  PROVE  CoverIsTyped' /\ RowsAreAttempts'
<1>1. CoverIsTyped'
  BY DEF CoverInv, CoverIsTyped, Stages, Running, Attempting, AttemptsStay, CaseHas, OthersStay, Coverage!All
<1>2. RowsAreAttempts'
  BY DEF RowsAreAttempts, CaseHas, Running, Attempting
<1> QED
  BY <1>1, <1>2

LEMMA CaseFails ==
  ASSUME CoverInv, CoverBounds, stage \in Running, AttemptsStay, OthersStay, rates' = rates,
         NEW s \in Coverage!Failures, CaseHas(s)
  PROVE  CoverInv'
<1>1. CoverIsTyped' /\ RowsAreAttempts'
  BY CaseIsTyped DEF CoverInv, CoverIsTyped
<1>2. StatusesAreEarned'
  BY DEF StatusesAreEarned, CaseHas, OthersStay, Coverage!Failures, Coverage!NoGain, Coverage!PRODUCT
<1>3. PICK c : c = case
  OBVIOUS
<1>4. c \in Coverage!All /\ case' = c /\ Backed(c) /\ stage' = "validate" /\ published \subseteq published'
  BY <1>3 DEF CoverInv, CoverIsTyped, OthersStay, CaseHas
<1>5. Placed(c)'
  BY <1>3, <1>4 DEF AttemptsStay, Placed, Tries
<1>6. Backed(c)'
  BY <1>3, <1>4 DEF AttemptsStay, Backed, Tries, Steady
<1> QED
  BY <1>1, <1>2, <1>3, <1>4, <1>5, <1>6, CaseProceeds

(* An exception is a failure, wherever it is raised. *)
LEMMA RaiseIsFailure ==
  ASSUME CoverInv, CoverBounds, stage \in Running, NEW why, NEW tail, Coverage!Raise(why, tail),
         section' = section, made' = made, section = "product" => made # BlockRuns
  PROVE  \E s \in Coverage!Failures : CaseHas(s)
<1> DEFINE Fields == {"status", "rows", "tail", "picked", "stats"}
<1>1. /\ case \in Coverage!All /\ DOMAIN reports = Coverage!All /\ DOMAIN reports[case] = Fields
      /\ section \in {"raw", "product", "consumer"} /\ made \in Nat
  BY DEF CoverInv, CoverIsTyped
<1>2. ASSUME NEW s \in {"RESOURCE-BUDGET-STOP", "VALIDATION-STOP"}, NEW t, Coverage!CaseEnds(s, t) PROVE CaseHas(s)
  BY <1>1, <1>2 DEF Coverage!CaseEnds, Coverage!Goto, CaseHas
<1>3. ASSUME Coverage!ProductEnds(Coverage!Unevaluated("VALIDATION-STOP", made, tail)), made # BlockRuns
      PROVE  CaseHas("VALIDATION-STOP")
  BY <1>1, <1>3 DEF Coverage!ProductEnds, Coverage!Unevaluated, Coverage!Goto, CaseHas
<1>4. CASE section = "product" /\ why = "value"
  BY <1>3, <1>4 DEF Coverage!Raise, Coverage!Failures
<1>5. CASE ~(section = "product" /\ why = "value")
  BY <1>2, <1>5 DEF Coverage!Raise, Coverage!Failures
<1> QED
  BY <1>4, <1>5

LEMMA RaiseStep ==
  ASSUME CoverInv, CoverBounds, stage \in Running, NEW why, NEW tail, Coverage!Raise(why, tail),
         section' = section, made' = made, section = "product" => made # BlockRuns,
         AttemptsStay, case' = case, results' = results, frozenOn' = frozenOn, published' = published,
         rates' = rates
  PROVE  CoverInv'
<1>1. OthersStay
  BY DEF OthersStay, AttemptsStay, CoverInv, CoverIsTyped
<1>2. PICK s \in Coverage!Failures : CaseHas(s)
  BY RaiseIsFailure
<1> QED
  BY <1>1, <1>2, CaseFails
-----------------------------------------------------------------------------
(* Before and between the cases *)

LEMMA WorldStep ==
  ASSUME CoverInv, Coverage!Drift \/ Coverage!Expire \/ UNCHANGED coverVars PROVE CoverInv'
<1>1. /\ stage' = stage /\ section' = section /\ made' = made /\ case' = case /\ attempts' = attempts
      /\ rates' = rates /\ reports' = reports /\ results' = results /\ frozenOn' = frozenOn
      /\ returnedRun' = returnedRun /\ published' = published
  BY DEF Coverage!Drift, Coverage!Expire, Coverage!where, Coverage!evidence, Coverage!verdict, coverVars
<1>2. CoverIsTyped'
  BY <1>1 DEF CoverInv, CoverIsTyped
<1>3. AttemptsArePlaced' /\ CasesAreInOrder'
  BY <1>1 DEF CoverInv, AttemptsArePlaced, Placed, CasesAreInOrder, Settled, AllValid, Tries, Varies, Coverage!Latest
<1>4. RowsAreAttempts' /\ (\A i \in Coverage!All : Backed(i))'
  BY <1>1 DEF CoverInv, RowsAreAttempts, Backed, Tries, Varies, Steady
<1>5. StatusesAreEarned' /\ Coverage!GainIsComplete'
  BY <1>1 DEF CoverInv, StatusesAreEarned, AllValid, Tries, Varies, Coverage!GainIsComplete
<1> QED
  BY <1>2, <1>3, <1>4, <1>5 DEF CoverInv

(* No case is running, before the step and after it. *)
LEMMA NoCaseRuns ==
  ASSUME CoverInv, CoverIsTyped', stage \in {"capture", "load", "next", "open"},
         stage' \in {"capture", "load", "next", "open", "count"}, case' = case \/ (case = 0 /\ case' = 1),
         attempts' = attempts, rates' = rates, results' = results, frozenOn' = frozenOn, published' = published
  PROVE  CoverInv'
<1>1. stage \notin Running \cup {"validate"} \cup Ending /\ case \in Int /\ case' \in Int
  BY DEF Running, Attempting, Ending, CoverInv, CoverIsTyped
<1>2. stage' \notin Running \cup {"validate"}
  BY DEF Running, Attempting
<1>3. AttemptsArePlaced'
  <2>1. ASSUME NEW i \in Coverage!All PROVE Placed(i)'
    <3>1. \A k \in 1..Tries(i) : Coverage!Valid(attempts[i][k])
      BY <1>1 DEF CoverInv, AttemptsArePlaced, Placed, Running
    <3> QED
      BY <3>1 DEF CoverInv, AttemptsArePlaced, Placed, Tries
  <2> QED
    BY <2>1 DEF AttemptsArePlaced
<1>4. CasesAreInOrder'
  <2>1. ASSUME NEW i \in Coverage!All PROVE i \in Int
    BY DEF Coverage!All
  <2>2. ASSUME NEW i \in Coverage!All, i < case' PROVE Settled(i)'
    <3>1. i < case
      BY <1>1, <2>1, <2>2 DEF Coverage!All
    <3> QED
      BY <3>1 DEF CoverInv, CasesAreInOrder, Settled, AllValid, Tries, Varies
  <2>3. ASSUME NEW i \in Coverage!All, i >= case' PROVE Tries(i)' = 0 /\ ~Varies(i)' /\ ~results'[i].verified
    <3>1. i > case \/ i = case
      BY <1>1, <2>1, <2>3
    <3> QED
      BY <1>1, <3>1, <2>1 DEF CoverInv, CasesAreInOrder, Tries, Varies
  <2> QED
    BY <1>1, <2>1, <2>2, <2>3 DEF CasesAreInOrder
<1>5. RowsAreAttempts' /\ StatusesAreEarned'
  BY <1>2 DEF RowsAreAttempts, StatusesAreEarned, Running, Attempting
<1>6. (\A i \in Coverage!All : Backed(i))' /\ Coverage!GainIsComplete'
  BY DEF CoverInv, Backed, Tries, Steady, Coverage!GainIsComplete
<1> QED
  BY <1>3, <1>4, <1>5, <1>6 DEF CoverInv

LEMMA BetweenCases ==
  ASSUME CoverInv, CoverBounds, Coverage!Capture \/ Coverage!Load \/ Coverage!NextCase PROVE CoverInv'
<1>1. /\ stage \in {"capture", "load", "next"} /\ section' = section /\ made' = made
      /\ attempts' = attempts /\ rates' = rates /\ results' = results /\ frozenOn' = frozenOn
      /\ published' = published /\ reports' = reports
  BY DEF Coverage!Capture, Coverage!Load, Coverage!NextCase, Coverage!evidence
<1>2. CASE Coverage!Capture
  <2>1. stage = "capture" /\ stage' \in {"load", "count"} /\ case' = case
    BY <1>2 DEF Coverage!Capture, Coverage!SequenceEnds, Coverage!Goto
  <2>2. CoverIsTyped'
    BY <1>1, <2>1 DEF CoverInv, CoverIsTyped, Stages, Running, Attempting, Ending, Coverage!All
  <2> QED
    BY <1>1, <2>1, <2>2, NoCaseRuns
<1>3. CASE Coverage!Load
  <2>1. stage = "load" /\ \/ stage' = "count" /\ case' = case
                          \/ stage' = "next" /\ case' = 1
    BY <1>3 DEF Coverage!Load, Coverage!SequenceEnds
  <2>2. CoverIsTyped' /\ case = 0
    BY <1>1, <2>1, CoverNumbers DEF CoverInv, CoverIsTyped, Stages, Running, Attempting, Ending, Coverage!All
  <2> QED
    BY <1>1, <2>1, <2>2, NoCaseRuns
<1>4. CASE Coverage!NextCase
  <2>1. /\ stage = "next" /\ case' = case
        /\ stage' = "count" \/ (stage' = "open" /\ ~(case > Cases))
    BY <1>4 DEF Coverage!NextCase, Coverage!SequenceEnds, Coverage!Goto
  <2>2. CoverIsTyped'
    BY <1>1, <2>1, CoverNumbers DEF CoverInv, CoverIsTyped, Stages, Running, Attempting, Ending, Coverage!All
  <2> QED
    BY <1>1, <2>1, <2>2, NoCaseRuns
<1> QED
  BY <1>2, <1>3, <1>4

LEMMA OpenCaseStep == ASSUME CoverInv, CoverBounds, Coverage!OpenCase PROVE CoverInv'
<1>1. /\ stage = "open" /\ section' = "raw" /\ made' = 0 /\ case' = case /\ case \in Coverage!All
      /\ attempts' = attempts /\ rates' = rates /\ results' = results /\ frozenOn' = frozenOn
      /\ published' = published
  BY DEF Coverage!OpenCase, CoverInv, CoverIsTyped
<1>2. CASE stage' = "count" /\ reports' = reports
  <2>1. CoverIsTyped'
    BY <1>1, <1>2 DEF CoverInv, CoverIsTyped, Stages, Running, Attempting, Ending, Coverage!All
  <2> QED
    BY <1>1, <1>2, <2>1, NoCaseRuns
<1>3. CASE /\ stage' = "run"
           /\ reports' = [reports EXCEPT ![case] = [status |-> "RUNNING", rows |-> 0, tail |-> <<>>,
                                                    picked |-> FALSE, stats |-> None]]
  <2>1. CoverIsTyped' /\ reports'[case].rows = 0
    BY <1>1, <1>3 DEF CoverInv, CoverIsTyped, Stages, Running, Attempting, Ending
  <2>2. /\ stage \notin Running \cup {"validate"} \cup Ending /\ stage' \notin Attempting \cup Ending
        /\ stage' # "collect" /\ stage' # "validate"
    BY <1>1, <1>3 DEF Running, Attempting, Ending
  <2>3. Tries(case) = 0 /\ ~Varies(case)
    BY <1>1, <2>2 DEF CoverInv, CasesAreInOrder
  <2>4. AttemptsArePlaced'
    BY <1>1, <2>2 DEF CoverInv, AttemptsArePlaced, Placed, Tries, Running
  <2>5. CasesAreInOrder'
    BY <1>1, <2>2 DEF CoverInv, CasesAreInOrder, Settled, AllValid, Tries, Varies
  <2>6. RowsAreAttempts'
    <3>1. Tries(case)' = 0 /\ ~Varies(case)'
      BY <1>1, <2>3 DEF Tries, Varies
    <3>2. RunsBefore("raw") = 0 /\ Coverage!Runs("raw") = Coverage!UtilityRuns
      BY DEF RunsBefore, Coverage!Runs
    <3> QED
      BY <1>1, <1>3, <2>1, <2>2, <3>1, <3>2, CoverNumbers DEF RowsAreAttempts
  <2>7. (\A i \in Coverage!All : Backed(i))' /\ Coverage!GainIsComplete' /\ StatusesAreEarned'
    BY <1>1, <2>2 DEF CoverInv, Backed, Tries, Steady, Coverage!GainIsComplete, StatusesAreEarned
  <2> QED
    BY <2>1, <2>4, <2>5, <2>6, <2>7 DEF CoverInv
<1> QED
  BY <1>2, <1>3 DEF Coverage!OpenCase, Coverage!SequenceEnds, Coverage!Goto
-----------------------------------------------------------------------------
(* A case that is over *)

(* A case whose files verify and say that its product was published has    *)
(* all its runs, and the host it was frozen on.                            *)
LEMMA GainIsEarned ==
  ASSUME CoverInv, CoverBounds, stage = "validate", NEW c, c = case, Coverage!CaseVerifies(c),
         reports[c].status = Coverage!PRODUCT
  PROVE  /\ Len(attempts[c]) = Coverage!CaseBudget /\ c \in published /\ frozenOn[c] = FALSE
         /\ \A k \in 1..Len(attempts[c]) : Coverage!Valid(attempts[c][k]) /\ ~attempts[c][k].late
<1>1. /\ c \in Coverage!All /\ Len(attempts[c]) = Coverage!CaseBudget /\ c \in published /\ AllValid(c)
      /\ reports[c].rows = Coverage!UtilityRuns /\ reports[c].stats = Coverage!GAIN
  BY DEF CoverInv, CoverIsTyped, StatusesAreEarned, Tries
<1>2. attempts[c] \in Seq(Coverage!Entries) /\ Placed(c)
  BY <1>1 DEF CoverInv, CoverIsTyped, AttemptsArePlaced
<1>3. \A k \in 1..Len(attempts[c]) : Coverage!AttemptVerifies(attempts[c][k])
  BY <1>2 DEF Coverage!CaseVerifies
<1>4. \A k \in 1..Len(attempts[c]) : Coverage!Valid(attempts[c][k]) /\ ~attempts[c][k].late
  BY <1>1, <1>2, <1>3 DEF Placed, AllValid, Tries, Coverage!AttemptVerifies
<1>5. Coverage!UtilityRuns \in Nat
  BY CoverNumbers
<1>6. Coverage!ProductVerifies(c)
  BY <1>1, <1>5 DEF Coverage!CaseVerifies
<1>7. Coverage!BlockVerifies(c)
  BY <1>6 DEF Coverage!ProductVerifies, Coverage!PRODUCT
<1>8. frozenOn[c] = FALSE
  BY <1>7 DEF Coverage!BlockVerifies
<1> QED
  BY <1>1, <1>4, <1>8

(* A case that lets the next one start. *)
LEMMA CaseIsSettled ==
  ASSUME CoverInv, CoverBounds, stage = "validate", NEW c, c = case, Coverage!CaseVerifies(c),
         NEW inBudget, Coverage!Continues(Coverage!Reconstructed(c, inBudget)),
         attempts' = attempts, rates' = rates, results'[c] = Coverage!Reconstructed(c, inBudget)
  PROVE  Settled(c)'
<1>1. /\ c \in Coverage!All /\ attempts[c] \in Seq(Coverage!Entries)
      /\ DOMAIN attempts[c] = 1..Tries(c)
  BY DEF CoverInv, CoverIsTyped, Tries
<1>2. /\ results'[c].inBudget /\ results'[c].status = reports[c].status
      /\ reports[c].status \in Coverage!StatisticalStops \cup {Coverage!PRODUCT}
      /\ Coverage!Measured(c)
  BY DEF Coverage!Continues, Coverage!Reconstructed
<1>3. AllValid(c)
  <2>1. \A k \in 1..Tries(c) : Coverage!AttemptVerifies(attempts[c][k])
    BY <1>1 DEF Coverage!CaseVerifies
  <2>2. \A k \in 1..Tries(c) : attempts[c][k].status = "measured"
    BY <1>1, <1>2 DEF Coverage!Measured
  <2> QED
    BY <2>1, <2>2 DEF AllValid, Coverage!AttemptVerifies
<1>4. \/ Varies(c) /\ Tries(c) = ReferenceRuns
      \/ rates[c].utility \in Coverage!NoGain \cup {"VARIANCE-STOP"} /\ Tries(c) = Coverage!UtilityRuns
      \/ /\ rates[c].product \in Coverage!PairVerdicts \ {"PASS-MEASUREMENT"}
         /\ Tries(c) = Coverage!UtilityRuns + BlockRuns
      \/ Tries(c) = Coverage!CaseBudget
  <2> DEFINE s == reports[c].status
  <2>1. s \in Coverage!NoGain \/ s \in {"VARIANCE-STOP", "PRODUCT-VALIDATION-STOP", Coverage!PRODUCT}
    BY <1>2 DEF Coverage!StatisticalStops
  <2> QED
    BY <2>1 DEF CoverInv, StatusesAreEarned
<1>5. results'[c].status # "NOT-RUN"
  BY <1>2 DEF Coverage!StatisticalStops, Coverage!NoGain, Coverage!PRODUCT
<1> QED
  BY <1>2, <1>3, <1>4, <1>5 DEF Settled, AllValid, Tries, Varies

LEMMA ValidateStep == ASSUME CoverInv, CoverBounds, Coverage!Validate PROVE CoverInv'
<1> PICK c, inBudget : c = case /\ inBudget = ~Coverage!Expired
  OBVIOUS
<1> DEFINE r == Coverage!Reconstructed(c, inBudget)
<1>1. /\ stage = "validate" /\ section' = section /\ made' = made /\ attempts' = attempts
      /\ rates' = rates /\ frozenOn' = frozenOn /\ published' = published /\ reports' = reports
      /\ c \in Coverage!All /\ c \in Int /\ c >= 1 /\ c <= Cases /\ DOMAIN results = Coverage!All
  BY DEF Coverage!Validate, Coverage!evidence, CoverInv, CoverIsTyped, Coverage!All
<1>2. \/ /\ Coverage!CaseVerifies(c) /\ Coverage!Continues(r) /\ stage' = "next" /\ case' = c + 1
         /\ results' = [results EXCEPT ![c] = r]
      \/ /\ stage' = "count" /\ case' = c
         /\ results' = results \/ (Coverage!CaseVerifies(c) /\ results' = [results EXCEPT ![c] = r])
  BY DEF Coverage!Validate, Coverage!SequenceEnds, Coverage!Goto
<1>3. r.gain => reports[c].status = Coverage!PRODUCT
  BY DEF Coverage!Reconstructed
<1> HIDE DEF r
<1>4. /\ \A i \in Coverage!All : i # c => results'[i] = results[i]
      /\ results'[c] = results[c] \/ (Coverage!CaseVerifies(c) /\ results'[c] = r)
  BY <1>1, <1>2
<1>5. ~results[c].verified
  BY <1>1 DEF CoverInv, CasesAreInOrder, Ending
<1>6. CoverIsTyped'
  BY <1>1, <1>2, CoverNumbers DEF CoverInv, CoverIsTyped, Stages, Running, Attempting, Ending, Coverage!All
<1>7. Coverage!GainIsComplete'
  <2>1. ASSUME NEW i \in Coverage!All, i # c, results'[i].verified, results'[i].gain
        PROVE  /\ Len(attempts[i]) = Coverage!CaseBudget /\ i \in published /\ frozenOn[i] = FALSE
               /\ \A k \in DOMAIN attempts[i] : Coverage!Valid(attempts[i][k]) /\ ~attempts[i][k].late
    BY <1>4, <2>1 DEF CoverInv, Coverage!GainIsComplete
  <2>2. ASSUME results'[c].verified, results'[c].gain
        PROVE  /\ Len(attempts[c]) = Coverage!CaseBudget /\ c \in published /\ frozenOn[c] = FALSE
               /\ \A k \in DOMAIN attempts[c] : Coverage!Valid(attempts[c][k]) /\ ~attempts[c][k].late
    <3>1. Coverage!CaseVerifies(c) /\ reports[c].status = Coverage!PRODUCT
      BY <1>3, <1>4, <1>5, <2>2
    <3>2. attempts[c] \in Seq(Coverage!Entries) /\ DOMAIN attempts[c] = 1..Len(attempts[c])
      BY <1>1 DEF CoverInv, CoverIsTyped
    <3>3. /\ Len(attempts[c]) = Coverage!CaseBudget /\ c \in published /\ frozenOn[c] = FALSE
          /\ \A k \in 1..Len(attempts[c]) : Coverage!Valid(attempts[c][k]) /\ ~attempts[c][k].late
      BY <1>1, <3>1, GainIsEarned
    <3> QED
      BY <3>2, <3>3, Zenon
  <2> QED
    BY <1>1, <2>1, <2>2 DEF Coverage!GainIsComplete
<1>8. RowsAreAttempts' /\ StatusesAreEarned' /\ (\A i \in Coverage!All : Backed(i))'
  BY <1>1, <1>2 DEF RowsAreAttempts, StatusesAreEarned, Running, Attempting, CoverInv, Backed, Tries, Steady
<1>9. \A i \in Coverage!All : i < c => Settled(i)'
  <2>1. \A i \in Coverage!All : i < c => i # c
    BY <1>1 DEF Coverage!All
  <2> QED
    BY <1>1, <1>4, <2>1 DEF CoverInv, CasesAreInOrder, Settled, AllValid, Tries, Varies
<1>10. \A i \in Coverage!All : i > c => Tries(i)' = 0 /\ ~Varies(i)' /\ ~results'[i].verified
  <2>1. ASSUME NEW i \in Coverage!All, i > c PROVE i # c /\ i >= c /\ Tries(i) = 0 /\ ~Varies(i) /\ ~results[i].verified
    BY <1>1, <2>1 DEF CoverInv, CasesAreInOrder, Ending, Coverage!All
  <2> QED
    BY <1>1, <1>4, <2>1 DEF Tries, Varies
<1>11. CASE stage' = "count"
  <2>1. AttemptsArePlaced'
    BY <1>1, <1>11 DEF CoverInv, AttemptsArePlaced, Placed, Tries, Ending
  <2>2. CasesAreInOrder'
    BY <1>1, <1>2, <1>9, <1>10, <1>11 DEF CasesAreInOrder, Ending
  <2> QED
    BY <1>6, <1>7, <1>8, <2>1, <2>2 DEF CoverInv
<1>12. CASE stage' = "next"
  <2>1. Coverage!CaseVerifies(c) /\ Coverage!Continues(r) /\ case' = c + 1 /\ results'[c] = r
    BY <1>1, <1>2, <1>12
  <2>2. Settled(c)'
    BY <1>1, <2>1, CaseIsSettled DEF r
  <2>3. AllValid(c)
    BY <1>1, <2>2 DEF Settled, AllValid, Tries
  <2>4. ASSUME NEW i \in Coverage!All PROVE Placed(i)'
    <3>1. \A k \in 1..Tries(i) : Coverage!Valid(attempts[i][k])
      <4>1. CASE i = c
        BY <2>3, <4>1 DEF AllValid
      <4>2. CASE i # c
        BY <1>1, <4>2 DEF CoverInv, AttemptsArePlaced, Placed, Ending
      <4> QED
        BY <4>1, <4>2
    <3> QED
      BY <1>1, <3>1 DEF CoverInv, AttemptsArePlaced, Placed, Tries
  <2>5. AttemptsArePlaced'
    BY <1>1, <1>12, <2>4 DEF AttemptsArePlaced
  <2>6. CasesAreInOrder'
    <3>1. \A i \in Coverage!All : (i < c + 1 => i < c \/ i = c) /\ (i >= c + 1 => i > c) /\ (i > c + 1 \/ i = c + 1 => i > c)
      BY <1>1 DEF Coverage!All
    <3> QED
      BY <1>9, <1>10, <2>1, <2>2, <3>1 DEF CasesAreInOrder
  <2> QED
    BY <1>6, <1>7, <1>8, <2>5, <2>6 DEF CoverInv
<1> QED
  BY <1>2, <1>11, <1>12

(* run_sequence's report keeps what was reconstructed. *)
LEMMA CountStep == ASSUME CoverInv, CoverBounds, Coverage!Count PROVE CoverInv'
<1>1. /\ stage = "count" /\ stage' = "over" /\ section' = section /\ made' = made /\ attempts' = attempts
      /\ rates' = rates /\ frozenOn' = frozenOn /\ published' = published /\ reports' = reports
      /\ case' = case /\ results' = [i \in Coverage!All |-> Coverage!Retained(i)]
  BY DEF Coverage!Count, Coverage!evidence
<1>2. ASSUME NEW i \in Coverage!All
      PROVE  \/ results'[i] = results[i]
             \/ results[i].status = "NOT-RUN" /\ ~results'[i].verified
  <2>1. results'[i] = Coverage!Retained(i)
    BY <1>1, Zenon
  <2>2. CASE results[i].status = "NOT-RUN" /\ reports[i] # None
    BY <2>1, <2>2 DEF Coverage!Retained
  <2>3. CASE ~(results[i].status = "NOT-RUN" /\ reports[i] # None)
    BY <2>1, <2>3 DEF Coverage!Retained
  <2> QED
    BY <2>2, <2>3
<1>3. CoverIsTyped'
  BY <1>1 DEF CoverInv, CoverIsTyped, Stages, Running, Attempting, Ending
<1>4. AttemptsArePlaced'
  BY <1>1 DEF CoverInv, AttemptsArePlaced, Placed, Tries, Ending
<1>5. CasesAreInOrder'
  <2>1. \A i \in Coverage!All : i < case => Settled(i)'
    BY <1>1, <1>2 DEF CoverInv, CasesAreInOrder, Settled, AllValid, Tries, Varies
  <2> QED
    BY <1>1, <2>1 DEF CoverInv, CasesAreInOrder, Ending, Tries, Varies
<1>6. RowsAreAttempts' /\ StatusesAreEarned' /\ (\A i \in Coverage!All : Backed(i))'
  BY <1>1 DEF RowsAreAttempts, StatusesAreEarned, Running, Attempting, CoverInv, Backed, Tries, Steady
<1>7. Coverage!GainIsComplete'
  BY <1>1, <1>2 DEF CoverInv, Coverage!GainIsComplete
<1> QED
  BY <1>3, <1>4, <1>5, <1>6, <1>7 DEF CoverInv
-----------------------------------------------------------------------------
(* One native run of a case *)

(* The attempt that is being made, and what a step of it may leave behind. *)
LEMMA LatestIsEntry ==
  ASSUME CoverInv, CoverBounds, stage \in Attempting
  PROVE  /\ Coverage!Latest \in Coverage!Entries /\ (Coverage!Latest.late => Coverage!Latest.started)
         /\ made # Coverage!Runs(section) /\ (section = "product" => made # BlockRuns)
<1>1. /\ case \in Coverage!All /\ attempts[case] \in Seq(Coverage!Entries) /\ Tries(case) \in Nat
      /\ section \in {"raw", "product", "consumer"} /\ made \in Nat
  BY DEF CoverInv, CoverIsTyped, Running, Tries
<1>2. RunsBefore(section) \in Nat
  BY <1>1, CoverNumbers DEF RunsBefore
<1>3. Tries(case) > 0
  BY <1>1, <1>2 DEF CoverInv, RowsAreAttempts, Running
<1>4. Placed(case)
  BY <1>1 DEF CoverInv, AttemptsArePlaced
<1>5. made < Coverage!Runs(section) /\ Coverage!Runs("product") = BlockRuns
  BY DEF CoverInv, RowsAreAttempts, Coverage!Runs
<1>6. made # Coverage!Runs(section) /\ (section = "product" => made # BlockRuns)
  BY <1>1, <1>5, CoverNumbers DEF Coverage!Runs
<1>7. Coverage!Latest \in Coverage!Entries /\ (Coverage!Latest.late => Coverage!Latest.started)
  BY <1>1, <1>3, <1>4 DEF Placed, Tries, Coverage!Latest
<1> QED
  BY <1>6, <1>7

CaseWaits ==
    /\ case' = case /\ section' = section /\ made' = made /\ results' = results
    /\ frozenOn' = frozenOn /\ published' = published /\ rates' = rates

LEMMA OthersWait == ASSUME CoverInv, AttemptsStay, CaseWaits PROVE OthersStay
  BY DEF OthersStay, AttemptsStay, CaseWaits, CoverInv, CoverIsTyped

LEMMA AttemptRaises ==
  ASSUME CoverInv, CoverBounds, stage \in Attempting, NEW why, NEW tail, Coverage!Raise(why, tail),
         AttemptsStay, CaseWaits
  PROVE  CoverInv'
<1>1. stage \in Running
  BY DEF Running
<1> QED
  BY <1>1, LatestIsEntry, RaiseStep DEF CaseWaits

LEMMA AttemptMoves ==
  ASSUME CoverInv, CoverBounds, stage \in Attempting, stage' \in Attempting, AttemptsStay, CaseWaits,
         reports' = reports,
         stage' = "collect" /\ returnedRun'.status = "measured" => Coverage!Valid(Coverage!Latest)'
  PROVE  CoverInv'
<1>1. /\ stage \in Running /\ stage' \in Running /\ stage' # "validate"
      /\ stage' \notin {"guard", "freeze", "publish"} /\ stage \notin {"freeze", "publish"}
  BY DEF Running, Attempting
<1>2. PICK c : c = case
  OBVIOUS
<1>3. /\ c \in Coverage!All /\ case' = c /\ Backed(c) /\ published' = published
      /\ Tries(c)' = Tries(c)
  BY <1>1, <1>2 DEF CoverInv, CoverIsTyped, CaseWaits, AttemptsStay, Tries
<1>4. CoverIsTyped'
  <2>1. attempts' \in [Coverage!All -> Seq(Coverage!Entries)] /\ DOMAIN reports'[case'] = DOMAIN reports[case]
    BY DEF AttemptsStay, CaseWaits
  <2>2. stage' \in Stages /\ stage' \notin {"capture", "load", "next", "open", "validate"}
    BY <1>1 DEF Stages, Running, Attempting
  <2> QED
    BY <1>1, <2>1, <2>2 DEF CoverInv, CoverIsTyped, CaseWaits
<1>5. RowsAreAttempts'
  BY <1>1, <1>2, <1>3 DEF CoverInv, RowsAreAttempts, CaseWaits, Varies, Steady
<1>6. StatusesAreEarned'
  BY <1>1 DEF StatusesAreEarned
<1>7. Placed(c)'
  BY <1>2, <1>3 DEF AttemptsStay, Placed, Tries
<1>8. Backed(c)'
  BY <1>3 DEF Backed, Steady, CaseWaits
<1> QED
  BY <1>1, <1>2, <1>4, <1>5, <1>6, <1>7, <1>8, OthersWait, CaseProceeds

LEMMA PacedStep ==
  ASSUME CoverInv, CoverBounds, Coverage!Wait \/ Coverage!Spawn \/ Coverage!Start \/ Coverage!Native
  PROVE  CoverInv'
<1>1. stage \in {"wait", "spawn", "start", "native"} /\ stage \in Attempting /\ stage \in Running /\ CaseWaits
  BY DEF Coverage!Wait, Coverage!Spawn, Coverage!Start, Coverage!Native, Attempting, Running, CaseWaits
<1>2. /\ Coverage!Latest \in Coverage!Entries /\ (Coverage!Latest.late => Coverage!Latest.started)
      /\ case \in Coverage!All
  BY <1>1, LatestIsEntry DEF CoverInv, CoverIsTyped
<1>3. ASSUME NEW e, Coverage!Log(e) PROVE Logged(e)
  BY <1>3 DEF Coverage!Log, Logged
<1>4. ASSUME NEW e \in Coverage!Entries, Coverage!Log(e), e.phase = Coverage!Latest.phase, e.late => e.started
      PROVE  AttemptsStay
  BY <1>1, <1>3, <1>4, LoggedAttempts
<1>5. ASSUME NEW e, Coverage!Log(e), NEW status \in {"exception", "attempting"},
             e = [Coverage!Latest EXCEPT !.status = status]
                \/ e = [[Coverage!Latest EXCEPT !.status = status] EXCEPT !.clean = FALSE]
      PROVE  AttemptsStay
  <2>1. e \in Coverage!Entries /\ e.phase = Coverage!Latest.phase /\ (e.late => e.started)
    BY <1>2, <1>5 DEF Coverage!Entries
  <2> QED
    BY <1>4, <1>5, <2>1
<1>6. ASSUME NEW o, o \in Coverage!Unstarted \/ o = [status |-> "measured", mid |-> "valid"]
                        \/ o = [status |-> "validation_stop", mid |-> "invalid"],
             NEW clean \in BOOLEAN, Coverage!Log(Coverage!Ended(o, clean))
      PROVE  AttemptsStay /\ (o.status = "measured" => Coverage!Valid(Coverage!Latest)')
  <2> DEFINE e == Coverage!Ended(o, clean)
  <2>1. /\ o.status \in {"measured", "validation_stop", "environment_blocked"}
        /\ o.mid \in {"none", "valid", "invalid"} /\ (o.status = "measured" => o.mid = "valid")
    BY <1>6 DEF Coverage!Unstarted
  <2>2. /\ e \in Coverage!Entries /\ e.phase = Coverage!Latest.phase /\ (e.late => e.started)
        /\ e.status = o.status /\ e.mid = o.mid
    BY <1>2, <2>1 DEF Coverage!Entries, Coverage!Ended
  <2> HIDE DEF e
  <2>3. AttemptsStay /\ Logged(e)
    BY <1>3, <1>4, <1>6, <2>2 DEF e
  <2>4. /\ Len(attempts'[case]) = Tries(case) /\ Tries(case) \in Nat \ {0}
        /\ \A k \in 1..Tries(case) : attempts'[case][k] = IF k = Tries(case) THEN e ELSE attempts[case][k]
    BY <1>1, <2>2, <2>3, AttemptIsLogged
  <2>5. Coverage!Latest' = e
    BY <1>1, <2>4 DEF Coverage!Latest, CaseWaits
  <2> QED
    BY <2>1, <2>2, <2>3, <2>5 DEF Coverage!Valid
<1>7. CASE Coverage!Wait
  <2>1. ASSUME NEW why, Coverage!Raise(why, <<>>), Coverage!Log(Coverage!Failed) PROVE CoverInv'
    <3>1. AttemptsStay
      BY <1>5, <2>1 DEF Coverage!Failed
    <3> QED
      BY <1>1, <2>1, <3>1, AttemptRaises
  <2>2. ASSUME Coverage!Goto("spawn"), Coverage!Log([Coverage!Latest EXCEPT !.status = "attempting"]),
               reports' = reports
        PROVE  CoverInv'
    <3>1. AttemptsStay /\ stage' = "spawn"
      BY <1>5, <2>2 DEF Coverage!Goto
    <3> QED
      BY <1>1, <2>2, <3>1, AttemptMoves DEF Attempting
  <2> QED
    BY <1>7, <2>1, <2>2 DEF Coverage!Wait
<1>8. CASE Coverage!Spawn
  <2>1. ASSUME NEW why, Coverage!Raise(why, <<>>), Coverage!Log(Coverage!Failed) PROVE CoverInv'
    <3>1. AttemptsStay
      BY <1>5, <2>1 DEF Coverage!Failed
    <3> QED
      BY <1>1, <2>1, <3>1, AttemptRaises
  <2>2. ASSUME NEW o \in Coverage!Unstarted, returnedRun' = o, Coverage!Log(Coverage!Ended(o, TRUE)),
               Coverage!Goto("collect"), reports' = reports
        PROVE  CoverInv'
    <3>1. AttemptsStay /\ stage' = "collect" /\ (o.status = "measured" => Coverage!Valid(Coverage!Latest)')
      BY <1>6, <2>2 DEF Coverage!Goto
    <3> QED
      BY <1>1, <2>2, <3>1, AttemptMoves DEF Attempting
  <2>3. ASSUME Coverage!Goto("start"), reports' = reports, attempts' = attempts PROVE CoverInv'
    <3>1. AttemptsStay /\ stage' = "start"
      BY <1>1, <2>3, SameAttempts DEF Coverage!Goto
    <3> QED
      BY <1>1, <2>3, <3>1, AttemptMoves DEF Attempting
  <2> QED
    BY <1>8, <2>1, <2>2, <2>3 DEF Coverage!Spawn
<1>9. CASE Coverage!Start
  <2> DEFINE e == [Coverage!Latest EXCEPT !.started = TRUE, !.late = Coverage!Expired]
  <2>1. e \in Coverage!Entries /\ e.phase = Coverage!Latest.phase /\ (e.late => e.started)
    BY <1>2 DEF Coverage!Entries, Coverage!Expired
  <2>2. Coverage!Log(e) /\ stage' = "native" /\ reports' = reports
    BY <1>9 DEF Coverage!Start, Coverage!Goto
  <2> HIDE DEF e
  <2>3. AttemptsStay
    BY <1>4, <2>1, <2>2
  <2> QED
    BY <1>1, <2>2, <2>3, AttemptMoves DEF Attempting
<1>10. CASE Coverage!Native
  <2>1. ASSUME NEW why, Coverage!Raise(why, <<>>), Coverage!Log([Coverage!Failed EXCEPT !.clean = FALSE]) PROVE CoverInv'
    <3>1. AttemptsStay
      BY <1>5, <2>1 DEF Coverage!Failed
    <3> QED
      BY <1>1, <2>1, <3>1, AttemptRaises
  <2>2. ASSUME NEW o, o = returnedRun',
               o \in {[status |-> "measured", mid |-> "valid"],
                      [status |-> "validation_stop", mid |-> "invalid"]} \cup Coverage!Unstarted,
               NEW clean \in BOOLEAN, Coverage!Log(Coverage!Ended(o, clean)),
               Coverage!Goto("collect"), reports' = reports
        PROVE  CoverInv'
    <3>1. AttemptsStay /\ stage' = "collect" /\ (o.status = "measured" => Coverage!Valid(Coverage!Latest)')
      BY <1>6, <2>2 DEF Coverage!Goto
    <3> QED
      BY <1>1, <2>2, <3>1, AttemptMoves DEF Attempting
  <2> QED
    BY <1>10, <2>1, <2>2 DEF Coverage!Native
<1> QED
  BY <1>7, <1>8, <1>9, <1>10
(* While no attempt is being made, a running case has valid ones only. *)
LEMMA QuietIsValid ==
  ASSUME CoverInv, stage \in Running \ Attempting, NEW i \in Coverage!All PROVE AllValid(i)
<1>1. Placed(i) /\ stage \notin Attempting \cup {"validate"} \cup Ending
  BY DEF CoverInv, AttemptsArePlaced, Running, Attempting, Ending
<1> QED
  BY <1>1 DEF Placed, AllValid

LEMMA CheckCaseStep == ASSUME CoverInv, CoverBounds, Coverage!Check PROVE CoverInv'
<1>1. /\ stage = "run" /\ stage \in Running /\ CaseWaits /\ attempts' = attempts /\ section # "raw"
      /\ made < Coverage!Runs(section) /\ made \in Nat
  BY DEF Coverage!Check, Running, CaseWaits, CoverInv, CoverIsTyped
<1>2. AttemptsStay /\ OthersStay
  BY <1>1, SameAttempts, OthersWait
<1>3. ASSUME Coverage!Raise("value", <<>>) PROVE CoverInv'
  <2>1. section = "product" => made # BlockRuns
    BY <1>1, CoverNumbers DEF Coverage!Runs
  <2> QED
    BY <1>1, <1>2, <1>3, <2>1, RaiseStep DEF CaseWaits
<1>4. ASSUME Coverage!Goto("guard"), reports' = reports PROVE CoverInv'
  <2>1. /\ stage' = "guard" /\ stage' \in Running /\ stage' \notin Attempting /\ stage \notin Attempting
    BY <1>1, <1>4 DEF Coverage!Goto, Running, Attempting
  <2>2. PICK c : c = case
    OBVIOUS
  <2>3. /\ c \in Coverage!All /\ case' = c /\ Backed(c) /\ published' = published
        /\ Tries(c)' = Tries(c)
    BY <1>1, <2>2 DEF CoverInv, CoverIsTyped, CaseWaits, Tries
  <2>4. CoverIsTyped'
    BY <1>1, <1>4, <2>1 DEF CoverInv, CoverIsTyped, Stages, CaseWaits
  <2>5. RowsAreAttempts'
    BY <1>1, <1>4, <2>1, <2>2, <2>3 DEF CoverInv, RowsAreAttempts, CaseWaits, Varies, Steady
  <2>6. StatusesAreEarned'
    BY <2>1 DEF StatusesAreEarned
  <2>7. Placed(c)'
    <3>1. AllValid(c) /\ Placed(c)
      BY <1>1, <2>1, <2>3, QuietIsValid DEF CoverInv, AttemptsArePlaced
    <3> QED
      BY <1>1, <3>1 DEF AllValid, Placed, Tries
  <2>8. Backed(c)'
    BY <1>1, <2>3 DEF Backed, Steady, CaseWaits
  <2> QED
    BY <1>1, <1>2, <2>1, <2>2, <2>4, <2>5, <2>6, <2>7, <2>8, CaseProceeds
<1> QED
  BY <1>3, <1>4 DEF Coverage!Check

(* A new attempt: the rows behind it are those of its phase and of the     *)
(* phases before.                                                          *)
LEMMA GuardStep == ASSUME CoverInv, CoverBounds, Coverage!Guard PROVE CoverInv'
<1>1. /\ stage \in {"run", "guard"} /\ stage \in Running /\ stage \notin Attempting /\ CaseWaits
      /\ made < Coverage!Runs(section) /\ made \in Nat /\ section \in {"raw", "product", "consumer"}
  BY DEF Coverage!Guard, Running, Attempting, CaseWaits, CoverInv, CoverIsTyped
<1>2. ASSUME NEW why, Coverage!Raise(why, <<>>), attempts' = attempts PROVE CoverInv'
  <2>1. section = "product" => made # BlockRuns
    BY <1>1, CoverNumbers DEF Coverage!Runs
  <2> QED
    BY <1>1, <1>2, <2>1, SameAttempts, RaiseStep DEF CaseWaits
<1>3. ASSUME Coverage!Goto("wait"), reports' = reports,
             attempts' = [attempts EXCEPT ![case] = Append(@, Coverage!Attempt)]
      PROVE  CoverInv'
  <2> DEFINE a == Coverage!Attempt
  <2>1. a \in Coverage!Entries /\ a.phase = section /\ (a.late => a.started)
    BY <1>1 DEF Coverage!Attempt, Coverage!Entries
  <2>2. PICK c : c = case
    OBVIOUS
  <2> DEFINE n == Tries(c)
  <2>3. /\ c \in Coverage!All /\ case' = c /\ Backed(c) /\ Placed(c) /\ AllValid(c)
        /\ published' = published /\ attempts \in [Coverage!All -> Seq(Coverage!Entries)]
        /\ attempts[c] \in Seq(Coverage!Entries) /\ n \in Nat
    BY <1>1, <2>2, QuietIsValid DEF CoverInv, CoverIsTyped, AttemptsArePlaced, CaseWaits, Tries
  <2> HIDE DEF a
  <2>4. /\ Append(attempts[c], a) \in Seq(Coverage!Entries) /\ Len(Append(attempts[c], a)) = n + 1
        /\ \A k \in 1..n : Append(attempts[c], a)[k] = attempts[c][k]
        /\ Append(attempts[c], a)[n + 1] = a
    BY <2>1, <2>3, AppendProperties DEF Tries
  <2>5. /\ attempts' \in [Coverage!All -> Seq(Coverage!Entries)]
        /\ \A i \in Coverage!All : i # c => attempts'[i] = attempts[i]
        /\ attempts'[c] = Append(attempts[c], a)
    BY <1>3, <2>2, <2>3, <2>4 DEF a
  <2>6. Tries(c)' = n + 1
    BY <2>4, <2>5 DEF Tries
  <2> HIDE DEF n
  <2>7. /\ stage' = "wait" /\ stage' \in Running /\ stage' \in Attempting
    BY <1>3 DEF Coverage!Goto, Running, Attempting
  <2>8. OthersStay
    BY <1>1, <2>2, <2>5 DEF OthersStay, CaseWaits, CoverInv, CoverIsTyped
  <2>9. CoverIsTyped'
    BY <1>1, <1>3, <2>5, <2>7 DEF CoverInv, CoverIsTyped, Stages, CaseWaits
  <2>10. n = RunsBefore(section) + made /\ RunsBefore(section) \in Nat
    BY <1>1, <2>2, CoverNumbers DEF CoverInv, RowsAreAttempts, RunsBefore, n
  <2>11. RowsAreAttempts'
    BY <1>1, <1>3, <2>2, <2>3, <2>6, <2>7, <2>10 DEF CoverInv, RowsAreAttempts, CaseWaits, Varies, Steady
  <2>12. StatusesAreEarned'
    BY <2>7 DEF StatusesAreEarned
  <2>13. PhaseAt(n + 1) = section
    BY <1>1, <2>10, CoverNumbers DEF PhaseAt, RunsBefore, Coverage!Runs
  <2>14. Placed(c)'
    <3>1. \A k \in 1..n : /\ attempts[c][k].phase = PhaseAt(k)
                          /\ attempts[c][k].late => attempts[c][k].started
                          /\ Coverage!Valid(attempts[c][k])
      BY <2>3 DEF Placed, AllValid, n
    <3>2. ASSUME NEW k \in 1..(n + 1)
          PROVE  /\ attempts'[c][k].phase = PhaseAt(k) /\ (attempts'[c][k].late => attempts'[c][k].started)
                 /\ Coverage!Valid(attempts'[c][k]) \/ k = n + 1
      <4>1. CASE k \in 1..n
        BY <2>4, <2>5, <3>1, <4>1
      <4>2. CASE k = n + 1
        BY <2>1, <2>4, <2>5, <2>13, <4>2
      <4> QED
        BY <2>3, <4>1, <4>2 DEF n
    <3> QED
      BY <2>3, <2>6, <2>7, <3>2 DEF Placed
  <2>15. Backed(c)'
    <3>1. /\ section # "raw" => rates[c].utility = Coverage!GAIN
          /\ section = "consumer" => rates[c].product = "PASS-MEASUREMENT" /\ c \in published
          /\ section = "raw" /\ made >= ReferenceRuns => Steady(c)
          /\ n > ReferenceRuns => Steady(c)
      BY <1>1, <2>2, <2>3 DEF CoverInv, RowsAreAttempts, Backed, n
    <3>2. n + 1 > ReferenceRuns => Steady(c)
      BY <1>1, <2>10, <3>1, CoverNumbers DEF RunsBefore
    <3>3. n + 1 > Coverage!UtilityRuns => section # "raw"
      BY <1>1, <2>10, CoverNumbers DEF RunsBefore, Coverage!Runs
    <3>4. n + 1 > Coverage!UtilityRuns + BlockRuns => section = "consumer"
      BY <1>1, <2>10, CoverNumbers DEF RunsBefore, Coverage!Runs
    <3> QED
      BY <1>1, <2>3, <2>6, <3>1, <3>2, <3>3, <3>4 DEF Backed, Steady, CaseWaits
  <2> QED
    BY <1>1, <2>2, <2>7, <2>8, <2>9, <2>11, <2>12, <2>14, <2>15, CaseProceeds
<1> QED
  BY <1>2, <1>3 DEF Coverage!Guard
-----------------------------------------------------------------------------
(* What is made of an outcome *)

(* The attempts of the case are there, and all of them are measurements. *)
CaseIsMeasured(c) ==
    /\ c = case /\ c \in Coverage!All /\ AllValid(c) /\ attempts' = attempts /\ OthersStay
    /\ stage \in Running /\ stage' \in (Running \ Attempting) \cup {"validate"}

LEMMA MeasuredCaseProceeds ==
  ASSUME CoverInv, NEW c, CaseIsMeasured(c), CoverIsTyped', RowsAreAttempts', StatusesAreEarned', Backed(c)'
  PROVE  CoverInv'
<1>1. Placed(c)
  BY DEF CaseIsMeasured, CoverInv, AttemptsArePlaced
<1>2. Placed(c)'
  BY <1>1 DEF CaseIsMeasured, Placed, AllValid, Tries
<1>3. stage' # "collect" /\ stage' \in Running \cup {"validate"}
  BY DEF CaseIsMeasured, Running, Attempting
<1> QED
  BY <1>2, <1>3, CaseProceeds DEF CaseIsMeasured

LEMMA RowIsAdded ==
  ASSUME CoverInv, CoverBounds, stage = "collect", NEW c, CaseIsMeasured(c), section' = section,
         Coverage!RowAdded
  PROVE  CoverInv'
<1>1. /\ section = "raw" /\ made' = made + 1 /\ made \in Nat /\ made < Coverage!UtilityRuns
      /\ c = case /\ case' = case /\ Tries(c) = made + 1 /\ Tries(c)' = Tries(c) /\ Backed(c) /\ ~Varies(c)
      /\ rates \in [Coverage!All -> VerdictRecords] /\ rates[c] \in VerdictRecords
      /\ DOMAIN reports = Coverage!All /\ published \subseteq published'
      /\ DOMAIN reports[c] = {"status", "rows", "tail", "picked", "stats"}
      /\ made >= ReferenceRuns => Steady(c)
  BY DEF Coverage!RowAdded, CaseIsMeasured, OthersStay, CoverInv, CoverIsTyped, RowsAreAttempts, RunsBefore,
     Coverage!Runs, Running, Attempting, Tries
<1>2. PICK stable \in (IF made + 1 = ReferenceRuns THEN BOOLEAN ELSE {rates[c].stable}) :
        LET f == [reports[c] EXCEPT !.rows = made + 1, !.picked = made + 1 >= Coverage!Picked] IN
        /\ rates' = [rates EXCEPT ![c].stable = stable]
        /\ IF stable = FALSE
           THEN reports' = [reports EXCEPT ![c] = [f EXCEPT !.status = "VARIANCE-STOP"]] /\ Coverage!Goto("validate")
           ELSE reports' = [reports EXCEPT ![c] = f] /\ Coverage!Goto("run")
  BY <1>1 DEF Coverage!RowAdded
<1>3. /\ rates' \in [Coverage!All -> VerdictRecords] /\ rates'[c].stable = stable
      /\ rates'[c].utility = rates[c].utility /\ rates'[c].product = rates[c].product
  BY <1>1, <1>2 DEF CaseIsMeasured, VerdictRecords
<1>4. made + 1 # ReferenceRuns => Varies(c)' = Varies(c) /\ Steady(c)' = Steady(c)
  BY <1>2, <1>3 DEF Varies, Steady
<1>5. CASE stable = FALSE
  <2>1. Varies(c)'
    BY <1>3, <1>5 DEF Varies
  <2>2. Tries(c)' = ReferenceRuns
    BY <1>1, <1>4, <2>1
  <2>3. /\ stage' = "validate" /\ DOMAIN reports' = Coverage!All /\ reports'[c].status = "VARIANCE-STOP"
        /\ DOMAIN reports'[c] = {"status", "rows", "tail", "picked", "stats"}
    <3> DEFINE f == [reports[c] EXCEPT !.rows = made + 1, !.picked = made + 1 >= Coverage!Picked]
               g == [f EXCEPT !.status = "VARIANCE-STOP"]
    <3>1. reports' = [reports EXCEPT ![c] = g] /\ Coverage!Goto("validate")
      BY <1>2, <1>5
    <3>2. DOMAIN f = {"status", "rows", "tail", "picked", "stats"}
      BY <1>1
    <3> HIDE DEF f
    <3>3. g.status = "VARIANCE-STOP" /\ DOMAIN g = {"status", "rows", "tail", "picked", "stats"}
      BY <3>2
    <3> HIDE DEF g
    <3>4. DOMAIN reports' = Coverage!All /\ reports'[c] = g
      BY <1>1, <3>1 DEF CaseIsMeasured
    <3> QED
      BY <3>1, <3>3, <3>4 DEF Coverage!Goto
  <2>4. CoverIsTyped' /\ RowsAreAttempts'
    BY <1>1, <1>3, <2>3, SameAttempts, CaseIsTyped DEF CaseIsMeasured, CaseHas, CoverInv, CoverIsTyped
  <2>5. StatusesAreEarned'
    BY <1>1, <2>1, <2>2, <2>3 DEF StatusesAreEarned, Coverage!NoGain, Coverage!PRODUCT
  <2>6. Backed(c)'
    BY <2>2, CoverNumbers DEF Backed
  <2> QED
    BY <2>4, <2>5, <2>6, MeasuredCaseProceeds
<1>6. CASE stable # FALSE
  <2>1. ~Varies(c)'
    BY <1>3, <1>6 DEF Varies
  <2>2. made + 1 >= ReferenceRuns => Steady(c)'
    <3>1. CASE made + 1 = ReferenceRuns
      BY <1>2, <1>3, <1>6, <3>1 DEF Steady
    <3>2. CASE made + 1 # ReferenceRuns
      BY <1>1, <1>4, <3>2, CoverNumbers
    <3> QED
      BY <3>1, <3>2
  <2>3. /\ stage' = "run" /\ DOMAIN reports' = Coverage!All /\ reports'[c].rows = made + 1
        /\ DOMAIN reports'[c] = {"status", "rows", "tail", "picked", "stats"}
    <3> DEFINE f == [reports[c] EXCEPT !.rows = made + 1, !.picked = made + 1 >= Coverage!Picked]
    <3>1. reports' = [reports EXCEPT ![c] = f] /\ Coverage!Goto("run")
      BY <1>2, <1>6
    <3>2. f.rows = made + 1 /\ DOMAIN f = {"status", "rows", "tail", "picked", "stats"}
      BY <1>1
    <3> HIDE DEF f
    <3>3. DOMAIN reports' = Coverage!All /\ reports'[c] = f
      BY <1>1, <3>1 DEF CaseIsMeasured
    <3> QED
      BY <3>1, <3>2, <3>3 DEF Coverage!Goto
  <2>4. CoverIsTyped'
    BY <1>1, <1>3, <2>3 DEF CaseIsMeasured, OthersStay, CoverInv, CoverIsTyped, Stages, Running, Attempting
  <2>5. RowsAreAttempts'
    BY <1>1, <2>1, <2>2, <2>3, CoverNumbers DEF RowsAreAttempts, RunsBefore, Coverage!Runs, Running, Attempting
  <2>6. StatusesAreEarned'
    BY <2>3 DEF StatusesAreEarned
  <2>7. Backed(c)'
    BY <1>1, <2>2, CoverNumbers DEF Backed
  <2> QED
    BY <2>4, <2>5, <2>6, <2>7, MeasuredCaseProceeds
<1> QED
  BY <1>5, <1>6

LEMMA CollectCaseStep == ASSUME CoverInv, CoverBounds, Coverage!Collect PROVE CoverInv'
<1>1. /\ stage = "collect" /\ stage \in Running /\ stage \in Attempting /\ case' = case /\ section' = section
      /\ attempts' = attempts /\ frozenOn' = frozenOn /\ published' = published /\ results' = results
      /\ section \in {"raw", "product", "consumer"} /\ made \in Nat
  BY DEF Coverage!Collect, Running, Attempting, CoverInv, CoverIsTyped
<1>2. AttemptsStay
  BY <1>1, SameAttempts
<1>3. made < Coverage!Runs(section) /\ (section = "product" => made # BlockRuns)
  BY <1>1, LatestIsEntry DEF CoverInv, RowsAreAttempts
<1>4. ASSUME NEW why, NEW tail, Coverage!Raise(why, tail), made' = made, rates' = rates PROVE CoverInv'
  BY <1>1, <1>2, <1>3, <1>4, RaiseStep
<1>5. ASSUME rates' = rates, made' = made, NEW s, s \in Coverage!Failures, CaseHas(s) PROVE CoverInv'
  <2>1. OthersStay
    BY <1>1, <1>2, <1>5, OthersWait DEF CaseWaits
  <2> QED
    BY <1>1, <1>2, <1>5, <2>1, CaseFails
<1>6. ASSUME NEW s, NEW t, Coverage!CaseEnds(s, t), made' = made PROVE CaseHas(s)
  BY <1>1, <1>6 DEF Coverage!CaseEnds, Coverage!Goto, CaseHas, CoverInv, CoverIsTyped
<1>7. ASSUME returnedRun.status = "measured" PROVE AllValid(case) /\ case \in Coverage!All
  <2>1. Placed(case) /\ Coverage!Valid(Coverage!Latest) /\ case \in Coverage!All
    BY <1>1, <1>7 DEF CoverInv, CoverIsTyped, AttemptsArePlaced
  <2> QED
    BY <2>1 DEF Placed, AllValid, Coverage!Latest, Tries
<1>8. CASE Coverage!Stopped
  <2>1. Coverage!Label(returnedRun) \in {"VALIDATION-STOP", "ENVIRONMENT-BLOCKED"}
    BY DEF Coverage!Label
  <2>2. made' = made /\ rates' = rates
    BY <1>8 DEF Coverage!Stopped
  <2>3. CASE section = "product"
    <3>1. Coverage!ProductEnds(Coverage!Unevaluated(Coverage!Label(returnedRun), made, <<returnedRun>>))
      BY <1>8, <2>3 DEF Coverage!Stopped
    <3>2. CaseHas(Coverage!Label(returnedRun))
      BY <1>1, <1>3, <2>2, <2>3, <3>1
         DEF Coverage!ProductEnds, Coverage!Unevaluated, Coverage!Goto, CaseHas, CoverInv, CoverIsTyped
    <3> QED
      BY <1>5, <2>1, <2>2, <3>2 DEF Coverage!Failures
  <2>4. CASE section # "product"
    <3>1. \E t : Coverage!CaseEnds(Coverage!Label(returnedRun), t)
      BY <1>1, <1>8, <2>4 DEF Coverage!Stopped
    <3> QED
      BY <1>5, <1>6, <2>1, <2>2, <3>1 DEF Coverage!Failures
  <2> QED
    BY <2>3, <2>4
<1>9. CASE Coverage!Differs
  BY <1>4, <1>9 DEF Coverage!Differs
<1>10. CASE Coverage!RowAdded
  <2>1. stage' \in {"run", "validate"} /\ \A i \in Coverage!All : i # case => rates'[i] = rates[i]
    BY <1>10 DEF Coverage!RowAdded, Coverage!Goto, CoverInv, CoverIsTyped
  <2>2. PICK c : c = case
    OBVIOUS
  <2>3. CaseIsMeasured(c)
    BY <1>1, <1>7, <1>10, <2>1, <2>2
       DEF CaseIsMeasured, OthersStay, CoverInv, CoverIsTyped, Coverage!RowAdded, Running, Attempting
  <2> QED
    BY <1>1, <1>10, <2>3, RowIsAdded
<1>11. CASE Coverage!PairRowAdded
  <2>1. /\ stage' = "run" /\ made' = made + 1 /\ rates' = rates /\ reports' = reports /\ section = "product"
        /\ returnedRun.status = "measured"
    BY <1>11 DEF Coverage!PairRowAdded, Coverage!Goto
  <2>2. PICK c : c = case
    OBVIOUS
  <2>3. CaseIsMeasured(c)
    BY <1>1, <1>7, <2>1, <2>2 DEF CaseIsMeasured, OthersStay, CoverInv, CoverIsTyped, Running, Attempting
  <2>4. CoverIsTyped'
    BY <1>1, <2>1 DEF CoverInv, CoverIsTyped, Stages, Running, Attempting
  <2>5. RowsAreAttempts'
    <3>1. /\ Tries(case)' = Tries(case) /\ (Varies(case)' = Varies(case)) /\ (Steady(case)' = Steady(case))
      BY <1>1, <2>1 DEF Tries, Varies, Steady
    <3>2. Coverage!Runs("product") = BlockRuns /\ RunsBefore("product") = Coverage!UtilityRuns
      BY DEF Coverage!Runs, RunsBefore
    <3> QED
      BY <1>1, <1>3, <2>1, <3>1, <3>2, CoverNumbers DEF CoverInv, RowsAreAttempts, Running, Attempting
  <2>6. StatusesAreEarned' /\ Backed(c)'
    BY <1>1, <1>7, <2>1, <2>2 DEF StatusesAreEarned, CoverInv, Backed, Tries, Steady
  <2> QED
    BY <2>3, <2>4, <2>5, <2>6, MeasuredCaseProceeds
<1>12. CASE Coverage!Consumed
  <2>1. made' = made /\ rates' = rates /\ section = "consumer" /\ returnedRun.status = "measured"
    BY <1>12 DEF Coverage!Consumed
  <2>2. CASE Coverage!Raise("value", <<>>)
    BY <1>4, <2>1, <2>2
  <2>3. CASE Coverage!CaseEnds(Coverage!PRODUCT, Coverage!Tail0)
    <3>1. CaseHas(Coverage!PRODUCT)
      BY <1>6, <2>1, <2>3
    <3>2. PICK c : c = case
      OBVIOUS
    <3>3. CaseIsMeasured(c)
      BY <1>1, <1>7, <2>1, <3>1, <3>2 DEF CaseIsMeasured, OthersStay, CaseHas, CoverInv, CoverIsTyped
    <3>4. CoverIsTyped' /\ RowsAreAttempts'
      BY <1>1, <1>2, <2>1, <3>1, <3>3, CaseIsTyped DEF CaseIsMeasured, CoverInv, CoverIsTyped
    <3>5. /\ Tries(c) = Coverage!CaseBudget /\ c \in published
          /\ reports[c].rows = Coverage!UtilityRuns /\ reports[c].stats = Coverage!GAIN
      BY <1>1, <1>3, <2>1, <3>2, CoverNumbers DEF CoverInv, RowsAreAttempts, RunsBefore, Coverage!Runs
    <3>6. reports'[c].rows = reports[c].rows /\ reports'[c].stats = reports[c].stats
      BY <1>1, <2>3, <3>2 DEF Coverage!CaseEnds, CoverInv, CoverIsTyped
    <3>7. StatusesAreEarned'
      BY <1>1, <3>1, <3>2, <3>3, <3>5, <3>6
         DEF StatusesAreEarned, CaseHas, CaseIsMeasured, AllValid, Tries, Coverage!NoGain, Coverage!PRODUCT
    <3>8. Backed(c)'
      BY <1>1, <1>7, <2>1, <3>2 DEF CoverInv, Backed, Tries, Steady
    <3> QED
      BY <3>3, <3>4, <3>7, <3>8, MeasuredCaseProceeds
  <2> QED
    BY <1>12, <2>2, <2>3 DEF Coverage!Consumed
<1> QED
  BY <1>8, <1>9, <1>10, <1>11, <1>12 DEF Coverage!Collect
LEMMA EvaluateStep == ASSUME CoverInv, CoverBounds, Coverage!Evaluate PROVE CoverInv'
<1>1. /\ stage = "run" /\ stage \in Running \ Attempting /\ case' = case /\ section' = section /\ made' = made
      /\ section = "raw" /\ made = Coverage!UtilityRuns /\ made \in Nat
      /\ attempts' = attempts /\ frozenOn' = frozenOn /\ published' = published /\ results' = results
  BY DEF Coverage!Evaluate, Running, Attempting, CoverInv, CoverIsTyped
<1>2. PICK c : c = case
  OBVIOUS
<1>3. PICK v \in Coverage!NoGain \cup {"VARIANCE-STOP", Coverage!GAIN}, sealed \in BOOLEAN :
        /\ rates' = [rates EXCEPT ![c].utility = v]
        /\ reports' = [reports EXCEPT ![c].stats = v,
                                      ![c].status = CASE v # Coverage!GAIN -> v
                                                      [] v = Coverage!GAIN /\ sealed -> "RUNNING"
                                                      [] OTHER -> "VALIDATION-STOP"]
        /\ Coverage!Goto(IF v = Coverage!GAIN /\ sealed THEN "freeze" ELSE "validate")
  BY <1>2 DEF Coverage!Evaluate
<1>4. /\ c \in Coverage!All /\ Backed(c) /\ Tries(c) = made /\ Tries(c)' = Tries(c) /\ AllValid(c)
      /\ rates \in [Coverage!All -> VerdictRecords] /\ DOMAIN reports = Coverage!All
      /\ DOMAIN reports[c] = {"status", "rows", "tail", "picked", "stats"}
      /\ reports[c].rows = made /\ ~Varies(c) /\ Steady(c)
  BY <1>1, <1>2, QuietIsValid, CoverNumbers
     DEF CoverInv, CoverIsTyped, RowsAreAttempts, RunsBefore, Running, Attempting, Tries
<1>5. /\ rates' \in [Coverage!All -> VerdictRecords] /\ rates'[c].stable = rates[c].stable
      /\ rates'[c].utility = v /\ \A i \in Coverage!All : i # c => rates'[i] = rates[i]
  BY <1>3, <1>4 DEF VerdictRecords
<1>6. /\ DOMAIN reports' = Coverage!All /\ reports'[c].stats = v /\ reports'[c].rows = made
      /\ DOMAIN reports'[c] = {"status", "rows", "tail", "picked", "stats"}
      /\ reports'[c].status = CASE v # Coverage!GAIN -> v
                                [] v = Coverage!GAIN /\ sealed -> "RUNNING"
                                [] OTHER -> "VALIDATION-STOP"
  BY <1>3, <1>4
<1>7. stage' = IF v = Coverage!GAIN /\ sealed THEN "freeze" ELSE "validate"
  BY <1>3 DEF Coverage!Goto
<1>8. ~Varies(c)' /\ Steady(c)'
  BY <1>4, <1>5 DEF Varies, Steady
<1>9. CaseIsMeasured(c) /\ Backed(c)'
  <2>1. CaseIsMeasured(c)
    BY <1>1, <1>2, <1>4, <1>5, <1>7
       DEF CaseIsMeasured, OthersStay, CoverInv, CoverIsTyped, Running, Attempting
  <2>2. Backed(c)'
    BY <1>1, <1>4, <1>8, CoverNumbers DEF Backed
  <2> QED
    BY <2>1, <2>2
<1>10. CASE v = Coverage!GAIN /\ sealed
  <2>1. CoverIsTyped'
    BY <1>1, <1>2, <1>5, <1>6, <1>7, <1>10
       DEF CoverInv, CoverIsTyped, Stages, Running, Attempting
  <2>2. RowsAreAttempts'
    BY <1>1, <1>2, <1>4, <1>5, <1>6, <1>7, <1>8, <1>10, CoverNumbers
       DEF RowsAreAttempts, RunsBefore, Coverage!Runs, Running, Attempting
  <2>3. StatusesAreEarned'
    BY <1>7, <1>10 DEF StatusesAreEarned
  <2> QED
    BY <1>9, <2>1, <2>2, <2>3, MeasuredCaseProceeds
<1>11. CASE ~(v = Coverage!GAIN /\ sealed)
  <2>1. stage' = "validate" /\ reports'[c].status = (IF v # Coverage!GAIN THEN v ELSE "VALIDATION-STOP")
    BY <1>6, <1>7, <1>11
  <2>2. CaseHas(reports'[c].status)
    BY <1>1, <1>2, <1>6, <2>1 DEF CaseHas
  <2>3. CoverIsTyped' /\ RowsAreAttempts'
    BY <1>1, <1>5, <1>9, <2>2, SameAttempts, CaseIsTyped DEF CaseIsMeasured, CoverInv, CoverIsTyped
  <2>4. StatusesAreEarned'
    BY <1>1, <1>2, <1>4, <1>5, <2>1
       DEF StatusesAreEarned, Coverage!NoGain, Coverage!PRODUCT, Coverage!GAIN
  <2> QED
    BY <1>9, <2>3, <2>4, MeasuredCaseProceeds
<1> QED
  BY <1>10, <1>11

LEMMA FreezeStep == ASSUME CoverInv, CoverBounds, Coverage!Freeze PROVE CoverInv'
<1>1. /\ stage = "freeze" /\ stage \in Running \ Attempting /\ case' = case /\ section' = "product" /\ made' = 0
      /\ attempts' = attempts /\ published' = published /\ results' = results /\ rates' = rates
  BY DEF Coverage!Freeze, Running, Attempting
<1>2. PICK c : c = case
  OBVIOUS
<1>3. /\ c \in Coverage!All /\ Backed(c) /\ Tries(c) = Coverage!UtilityRuns /\ Tries(c)' = Tries(c) /\ AllValid(c)
      /\ DOMAIN reports = Coverage!All /\ DOMAIN reports[c] = {"status", "rows", "tail", "picked", "stats"}
      /\ reports[c].rows = Coverage!UtilityRuns /\ ~Varies(c) /\ DOMAIN frozenOn = Coverage!All
      /\ rates[c].utility = Coverage!GAIN /\ reports[c].stats = Coverage!GAIN
  BY <1>1, <1>2, QuietIsValid, CoverNumbers
     DEF CoverInv, CoverIsTyped, RowsAreAttempts, RunsBefore, Running, Attempting, Tries
<1>4. ~Varies(c)' /\ Backed(c)'
  BY <1>1, <1>3 DEF Varies, Steady, Backed
<1>5. CASE /\ stage' = "run" /\ reports' = reports
           /\ frozenOn' = [frozenOn EXCEPT ![case] = shifted]
  <2>1. CaseIsMeasured(c)
    BY <1>1, <1>2, <1>3, <1>5 DEF CaseIsMeasured, OthersStay, CoverInv, CoverIsTyped, Running, Attempting
  <2>2. CoverIsTyped'
    BY <1>1, <1>2, <1>3, <1>5 DEF CoverInv, CoverIsTyped, Stages, Running, Attempting
  <2>3. RowsAreAttempts'
    BY <1>1, <1>2, <1>3, <1>4, <1>5, CoverNumbers
       DEF RowsAreAttempts, RunsBefore, Coverage!Runs, Running, Attempting
  <2>4. StatusesAreEarned'
    BY <1>5 DEF StatusesAreEarned
  <2> QED
    BY <1>4, <2>1, <2>2, <2>3, <2>4, MeasuredCaseProceeds
<1>6. CASE /\ reports' = [reports EXCEPT ![case].status = "VALIDATION-STOP"] /\ stage' = "validate"
           /\ frozenOn' = frozenOn
  <2>1. CaseHas("VALIDATION-STOP")
    BY <1>1, <1>2, <1>3, <1>6 DEF CaseHas
  <2>2. OthersStay
    BY <1>1, <1>6 DEF OthersStay, CoverInv, CoverIsTyped
  <2> QED
    BY <1>1, <2>1, <2>2, SameAttempts, CaseFails DEF Coverage!Failures
<1> QED
  BY <1>5, <1>6 DEF Coverage!Freeze, Coverage!Goto

(* A report of n pairs, and whether it has the statistics of all of them. *)
PairsOf(status, n, e) == [status |-> status, rows |-> n, tail |-> <<>>, evaluated |-> e]

(* What rewriting one field of it gives. *)
LEMMA PairsAreRewritten ==
  ASSUME NEW s, NEW t, NEW n, NEW d, NEW e
  PROVE  /\ [Coverage!Unevaluated(s, n, <<>>) EXCEPT !.evaluated = e] = PairsOf(s, n, e)
         /\ [PairsOf(s, n, e) EXCEPT !.status = t] = PairsOf(t, n, e)
         /\ [PairsOf(s, n, d) EXCEPT !.evaluated = e] = PairsOf(s, n, e)
<1>1. [Coverage!Unevaluated(s, n, <<>>) EXCEPT !.evaluated = e] = PairsOf(s, n, e)
  BY DEF Coverage!Unevaluated, PairsOf
<1>2. \A u, f : [PairsOf(u, n, f) EXCEPT !.evaluated = e] = PairsOf(u, n, e)
  BY DEF PairsOf
<1>3. \A u, f : [PairsOf(u, n, f) EXCEPT !.status = t] = PairsOf(t, n, f)
  BY DEF PairsOf
<1> QED
  BY <1>1, <1>2, <1>3, Zenon

(* Complete pairs end in one of three ways: the sources or the host no longer *)
(* match, the verdict is a stop, or it is a pass and publication follows.     *)
LEMMA PairsAreJudged ==
  ASSUME Coverage!EvaluatePairs
  PROVE  \E v \in Coverage!PairVerdicts :
           /\ rates' = [rates EXCEPT ![case].product = v]
           /\ \/ \E e \in BOOLEAN : Coverage!ProductEnds(PairsOf("VALIDATION-STOP", made, e))
              \/ v # "PASS-MEASUREMENT" /\ Coverage!ProductEnds(PairsOf(v, made, TRUE))
              \/ /\ v = "PASS-MEASUREMENT"
                 /\ products' = [products EXCEPT ![case].status = v, ![case].evaluated = TRUE]
                 /\ Coverage!Goto("publish") /\ reports' = reports
<1>1. PICK v \in Coverage!PairVerdicts :
        /\ rates' = [rates EXCEPT ![case].product = v]
        /\ \/ \E e \in BOOLEAN :
                Coverage!ProductEnds([Coverage!Unevaluated("VALIDATION-STOP", made, <<>>) EXCEPT !.evaluated = e])
           \/ /\ v # "PASS-MEASUREMENT"
              /\ Coverage!ProductEnds([Coverage!Unevaluated(v, made, <<>>) EXCEPT !.evaluated = TRUE])
           \/ /\ v = "PASS-MEASUREMENT"
              /\ products' = [products EXCEPT ![case].status = v, ![case].evaluated = TRUE]
              /\ Coverage!Goto("publish") /\ reports' = reports
  BY Zenon DEF Coverage!EvaluatePairs
<1>2. \A s, e : [Coverage!Unevaluated(s, made, <<>>) EXCEPT !.evaluated = e] = PairsOf(s, made, e)
  BY PairsAreRewritten
<1>3. CASE \E e \in BOOLEAN :
             Coverage!ProductEnds([Coverage!Unevaluated("VALIDATION-STOP", made, <<>>) EXCEPT !.evaluated = e])
  <2>1. \E e \in BOOLEAN : Coverage!ProductEnds(PairsOf("VALIDATION-STOP", made, e))
    BY <1>2, <1>3, Zenon
  <2> QED
    BY <1>1, <2>1, Zenon
<1>4. CASE v # "PASS-MEASUREMENT" /\ Coverage!ProductEnds([Coverage!Unevaluated(v, made, <<>>) EXCEPT !.evaluated = TRUE])
  <2>1. Coverage!ProductEnds(PairsOf(v, made, TRUE))
    BY <1>2, <1>4, Zenon
  <2> QED
    BY <1>1, <1>4, <2>1, Zenon
<1> QED
  BY <1>1, <1>3, <1>4, Zenon

LEMMA EvaluatePairsStep == ASSUME CoverInv, CoverBounds, Coverage!EvaluatePairs PROVE CoverInv'
<1>1. /\ stage = "run" /\ stage \in Running \ Attempting /\ case' = case /\ section' = section /\ made' = made
      /\ section = "product" /\ made = BlockRuns /\ made \in Nat
      /\ attempts' = attempts /\ frozenOn' = frozenOn /\ published' = published /\ results' = results
  BY DEF Coverage!EvaluatePairs, Running, Attempting, CoverInv, CoverIsTyped
<1>2. PICK c : c = case
  OBVIOUS
<1>3. PICK v \in Coverage!PairVerdicts :
        /\ rates' = [rates EXCEPT ![c].product = v]
        /\ \/ \E e \in BOOLEAN : Coverage!ProductEnds(PairsOf("VALIDATION-STOP", made, e))
           \/ v # "PASS-MEASUREMENT" /\ Coverage!ProductEnds(PairsOf(v, made, TRUE))
           \/ v = "PASS-MEASUREMENT" /\ stage' = "publish" /\ reports' = reports
  BY <1>2, PairsAreJudged, Zenon DEF Coverage!Goto
<1>4. /\ c \in Coverage!All /\ Backed(c) /\ Tries(c) = Coverage!UtilityRuns + BlockRuns /\ Tries(c)' = Tries(c)
      /\ AllValid(c) /\ ~Varies(c) /\ rates \in [Coverage!All -> VerdictRecords] /\ DOMAIN reports = Coverage!All
      /\ DOMAIN reports[c] = {"status", "rows", "tail", "picked", "stats"}
      /\ reports[c].rows = Coverage!UtilityRuns
      /\ rates[c].utility = Coverage!GAIN /\ reports[c].stats = Coverage!GAIN
  BY <1>1, <1>2, QuietIsValid, CoverNumbers
     DEF CoverInv, CoverIsTyped, RowsAreAttempts, RunsBefore, Running, Attempting, Tries
<1>5. /\ rates' \in [Coverage!All -> VerdictRecords] /\ rates'[c].stable = rates[c].stable
      /\ rates'[c].utility = rates[c].utility /\ rates'[c].product = v
      /\ \A i \in Coverage!All : i # c => rates'[i] = rates[i]
  BY <1>3, <1>4 DEF VerdictRecords
<1>6. ~Varies(c)' /\ Backed(c)'
  <2>1. Varies(c)' = Varies(c) /\ Steady(c)' = Steady(c)
    BY <1>5 DEF Varies, Steady
  <2>2. Tries(c) = Coverage!UtilityRuns + BlockRuns /\ ~(Tries(c) > Coverage!UtilityRuns + BlockRuns)
    BY <1>4, CoverNumbers
  <2> QED
    BY <1>1, <1>4, <1>5, <2>1, <2>2 DEF Backed
<1>7. ASSUME stage' \in {"publish", "validate"} PROVE CaseIsMeasured(c)
  BY <1>1, <1>2, <1>4, <1>5, <1>7 DEF CaseIsMeasured, OthersStay, CoverInv, CoverIsTyped, Running, Attempting
<1>8. CASE v = "PASS-MEASUREMENT" /\ stage' = "publish" /\ reports' = reports
  <2>1. CoverIsTyped'
    BY <1>1, <1>5, <1>8 DEF CoverInv, CoverIsTyped, Stages, Running, Attempting
  <2>2. RowsAreAttempts'
    BY <1>1, <1>2, <1>4, <1>5, <1>6, <1>8, CoverNumbers
       DEF RowsAreAttempts, RunsBefore, Coverage!Runs, Running, Attempting
  <2>3. StatusesAreEarned'
    BY <1>8 DEF StatusesAreEarned
  <2> QED
    BY <1>6, <1>7, <1>8, <2>1, <2>2, <2>3, MeasuredCaseProceeds
<1>9. ASSUME NEW s, s = "VALIDATION-STOP" \/ (s = v /\ v # "PASS-MEASUREMENT"),
             NEW e, Coverage!ProductEnds(PairsOf(s, made, e))
      PROVE  CoverInv'
  <2> DEFINE t == IF v # "PASS-MEASUREMENT" THEN "PRODUCT-VALIDATION-STOP" ELSE "VALIDATION-STOP"
  <2>1. reports' = [reports EXCEPT ![c].status = t] /\ stage' = "validate"
    BY <1>1, <1>2, <1>5, <1>9 DEF Coverage!ProductEnds, Coverage!Goto, PairsOf
  <2>2. (t = "PRODUCT-VALIDATION-STOP" /\ v # "PASS-MEASUREMENT") \/ t = "VALIDATION-STOP"
    OBVIOUS
  <2> HIDE DEF t
  <2>3. CaseHas(t)
    BY <1>1, <1>2, <1>4, <2>1 DEF CaseHas, CoverInv, CoverIsTyped
  <2>4. CoverIsTyped' /\ RowsAreAttempts'
    BY <1>1, <1>5, <1>7, <2>1, <2>3, SameAttempts, CaseIsTyped DEF CaseIsMeasured
  <2>5. StatusesAreEarned'
    BY <1>1, <1>2, <1>4, <1>5, <2>2, <2>3
       DEF StatusesAreEarned, CaseHas, Coverage!NoGain, Coverage!PRODUCT, Coverage!PairVerdicts
  <2> QED
    BY <1>6, <1>7, <2>1, <2>4, <2>5, MeasuredCaseProceeds
<1> QED
  BY <1>3, <1>8, <1>9

LEMMA PublishCaseStep == ASSUME CoverInv, CoverBounds, Coverage!Publish PROVE CoverInv'
<1>1. /\ stage = "publish" /\ stage \in Running \ Attempting /\ case' = case
      /\ attempts' = attempts /\ frozenOn' = frozenOn /\ results' = results /\ rates' = rates
  BY DEF Coverage!Publish, Running, Attempting
<1>2. PICK c : c = case
  OBVIOUS
<1>3. /\ c \in Coverage!All /\ Backed(c) /\ Tries(c) = Coverage!UtilityRuns + BlockRuns /\ Tries(c)' = Tries(c)
      /\ AllValid(c) /\ ~Varies(c) /\ DOMAIN reports = Coverage!All /\ made \in Nat
      /\ section \in {"raw", "product", "consumer"}
      /\ DOMAIN reports[c] = {"status", "rows", "tail", "picked", "stats"}
      /\ reports[c].rows = Coverage!UtilityRuns /\ rates[c].product = "PASS-MEASUREMENT"
      /\ rates[c].utility = Coverage!GAIN /\ reports[c].stats = Coverage!GAIN
  BY <1>1, <1>2, QuietIsValid, CoverNumbers
     DEF CoverInv, CoverIsTyped, RowsAreAttempts, RunsBefore, Running, Attempting, Tries
<1>4. CASE /\ published' = published \cup {case} /\ section' = "consumer" /\ made' = 0 /\ stage' = "run"
           /\ reports' = reports
  <2>1. CaseIsMeasured(c)
    BY <1>1, <1>2, <1>3, <1>4 DEF CaseIsMeasured, OthersStay, CoverInv, CoverIsTyped, Running, Attempting
  <2>2. CoverIsTyped'
    BY <1>1, <1>4 DEF CoverInv, CoverIsTyped, Stages, Running, Attempting
  <2>3. ~Varies(c)' /\ Backed(c)'
    BY <1>1, <1>3, <1>4 DEF Varies, Steady, Backed
  <2>4. RowsAreAttempts'
    BY <1>1, <1>2, <1>3, <1>4, <2>3, CoverNumbers
       DEF RowsAreAttempts, RunsBefore, Coverage!Runs, Running, Attempting
  <2>5. StatusesAreEarned'
    BY <1>4 DEF StatusesAreEarned
  <2> QED
    BY <2>1, <2>2, <2>3, <2>4, <2>5, MeasuredCaseProceeds
<1>5. CASE /\ reports' = [reports EXCEPT ![case].status = "VALIDATION-STOP"] /\ stage' = "validate"
           /\ published' = published /\ section' = section /\ made' = made
  <2>1. CaseHas("VALIDATION-STOP")
    BY <1>1, <1>2, <1>3, <1>5 DEF CaseHas
  <2>2. OthersStay
    BY <1>1, <1>5 DEF OthersStay, CoverInv, CoverIsTyped
  <2> QED
    BY <1>1, <2>1, <2>2, SameAttempts, CaseFails DEF Coverage!Failures
<1> QED
  BY <1>4, <1>5 DEF Coverage!Publish, Coverage!Goto

-----------------------------------------------------------------------------
(* The invariant, and what it is for *)

LEMMA CoverStep ==
  ASSUME CoverBounds, CoverInv, Coverage!Next \/ UNCHANGED coverVars PROVE CoverInv'
  BY WorldStep, BetweenCases, OpenCaseStep, CheckCaseStep, GuardStep, PacedStep, CollectCaseStep, EvaluateStep,
     FreezeStep, EvaluatePairsStep, PublishCaseStep, ValidateStep, CountStep DEF Coverage!Next, Coverage!Sequence

LEMMA CoverInit == ASSUME CoverBounds, Coverage!Init PROVE CoverInv
<1> USE DEF Coverage!Init
<1>1. CoverIsTyped
  <2>1. /\ attempts \in [Coverage!All -> Seq(Coverage!Entries)]
        /\ rates \in [Coverage!All -> VerdictRecords]
    BY DEF VerdictRecords
  <2>2. case \in 0..(Cases + 1) /\ stage \in Stages /\ stage \notin Running
    BY CoverNumbers DEF Stages, Running, Attempting
  <2> QED
    BY <2>1, <2>2 DEF CoverIsTyped
<1>2. \A i \in Coverage!All : Tries(i) = 0 /\ ~Varies(i) /\ ~results[i].verified /\ i > 0
  <2>1. ASSUME NEW i \in Coverage!All PROVE Tries(i) = 0 /\ i > 0
    BY DEF Tries, Coverage!All
  <2>2. ASSUME NEW i \in Coverage!All PROVE ~Varies(i)
    BY CoverNumbers DEF Varies
  <2>3. ASSUME NEW i \in Coverage!All PROVE ~results[i].verified
    BY DEF Coverage!NotRun
  <2> QED
    BY <2>1, <2>2, <2>3
<1>3. AttemptsArePlaced
  BY <1>2 DEF AttemptsArePlaced, Placed
<1>4. CasesAreInOrder
  BY <1>2 DEF CasesAreInOrder, Coverage!All
<1>5. RowsAreAttempts /\ StatusesAreEarned
  BY DEF RowsAreAttempts, StatusesAreEarned, Running, Attempting
<1>6. \A i \in Coverage!All : Backed(i)
  BY <1>2, CoverNumbers DEF Backed
<1>7. Coverage!GainIsComplete
  BY <1>2 DEF Coverage!GainIsComplete
<1> QED
  BY <1>1, <1>3, <1>4, <1>5, <1>6, <1>7 DEF CoverInv
LEMMA CoverageCardinality == \A S : Coverage!Cardinality(S) = Cardinality(S)
  BY DEF Coverage!Cardinality, Cardinality

(* A phase of a case has as many measured runs as it has valid attempts. *)
LEMMA PhaseIsMeasured ==
  ASSUME CoverInv, NEW i \in Coverage!All, NEW p, NEW a \in Nat, NEW b \in Nat, a <= b, b <= Tries(i),
         \A k \in 1..Tries(i) : (PhaseAt(k) = p) <=> (a < k /\ k <= b),
         \A k \in 1..Tries(i) : a < k /\ k <= b => Coverage!Valid(attempts[i][k])
  PROVE  Coverage!MeasuredRuns(i, p) = b - a
<1>1. Placed(i) /\ DOMAIN attempts[i] = 1..Tries(i) /\ Tries(i) \in Nat
  BY DEF CoverInv, CoverIsTyped, AttemptsArePlaced, Tries
<1>2. {k \in Coverage!Made(i, p) : Coverage!Valid(attempts[i][k])} = (a + 1)..b
  BY <1>1 DEF Coverage!Made, Placed
<1>3. a + 1 \in Int /\ b \in Int
  OBVIOUS
<1>4. Cardinality((a + 1)..b) = IF a + 1 > b THEN 0 ELSE b - (a + 1) + 1
  BY <1>3, FS_Interval
<1>5. (IF a + 1 > b THEN 0 ELSE b - (a + 1) + 1) = b - a
  OBVIOUS
<1> QED
  BY <1>2, <1>4, <1>5, CoverageCardinality DEF Coverage!MeasuredRuns

LEMMA SettledIsConcluded ==
  ASSUME CoverInv, CoverBounds, NEW i \in Coverage!All, Settled(i) PROVE Coverage!Concluded(i)
<1>1. \A k \in 1..Tries(i) : Coverage!Valid(attempts[i][k])
  BY DEF Settled, AllValid
<1> DEFINE U == Coverage!UtilityRuns
<1>2. /\ U \in Nat /\ U > ReferenceRuns /\ BlockRuns \in Nat \ {0} /\ ReferenceRuns \in Nat \ {0}
      /\ Coverage!CaseBudget = U + BlockRuns + 1
  BY CoverNumbers
<1> HIDE DEF U
<1>3. \A k \in Nat : PhaseAt(k) = IF k <= U THEN "raw" ELSE IF k <= U + BlockRuns THEN "product" ELSE "consumer"
  BY DEF PhaseAt, U
<1>4. CASE Varies(i) /\ Tries(i) = ReferenceRuns
  <2>1. \A k \in 1..Tries(i) : (PhaseAt(k) = "raw") <=> (0 < k /\ k <= ReferenceRuns)
    BY <1>2, <1>3, <1>4
  <2> ReferenceRuns \in Nat /\ 0 \in Nat /\ 0 <= ReferenceRuns /\ ReferenceRuns <= Tries(i)
    BY <1>2, <1>4
  <2>2. Coverage!MeasuredRuns(i, "raw") = ReferenceRuns - 0
    BY <1>1, <2>1, PhaseIsMeasured
  <2> QED
    BY <1>2, <1>4, <2>2 DEF Coverage!Concluded, Varies
<1>5. CASE rates[i].utility \in Coverage!NoGain \cup {"VARIANCE-STOP"} /\ Tries(i) = U
  <2>1. \A k \in 1..Tries(i) : (PhaseAt(k) = "raw") <=> (0 < k /\ k <= U)
    BY <1>2, <1>3, <1>5
  <2>2. Coverage!MeasuredRuns(i, "raw") = U - 0
    BY <1>1, <1>2, <1>5, <2>1, PhaseIsMeasured
  <2> QED
    BY <1>2, <1>5, <2>2 DEF Coverage!Concluded, U
<1>6. CASE rates[i].product \in Coverage!PairVerdicts \ {"PASS-MEASUREMENT"} /\ Tries(i) = U + BlockRuns
  <2>1. \A k \in 1..Tries(i) : (PhaseAt(k) = "product") <=> (U < k /\ k <= U + BlockRuns)
    BY <1>2, <1>3, <1>6
  <2>2. Coverage!MeasuredRuns(i, "product") = U + BlockRuns - U
    BY <1>1, <1>2, <1>6, <2>1, PhaseIsMeasured
  <2> QED
    BY <1>2, <1>6, <2>2 DEF Coverage!Concluded
<1>7. CASE Tries(i) = Coverage!CaseBudget
  <2>1. \A k \in 1..Tries(i) : (PhaseAt(k) = "consumer") <=> (U + BlockRuns < k /\ k <= U + BlockRuns + 1)
    BY <1>2, <1>3, <1>7
  <2> /\ U + BlockRuns \in Nat /\ U + BlockRuns + 1 \in Nat /\ U + BlockRuns <= U + BlockRuns + 1
      /\ U + BlockRuns + 1 <= Tries(i)
    BY <1>2, <1>7
  <2>2. Coverage!MeasuredRuns(i, "consumer") = U + BlockRuns + 1 - (U + BlockRuns)
    BY <1>1, <2>1, PhaseIsMeasured
  <2> QED
    BY <1>2, <2>2 DEF Coverage!Concluded
<1> QED
  BY <1>4, <1>5, <1>6, <1>7 DEF Settled, U

LEMMA CoverGatesHold == ASSUME CoverInv, CoverBounds PROVE Coverage!GatesHold
<1> SUFFICES ASSUME NEW i \in Coverage!All
             PROVE  /\ Len(attempts[i]) > ReferenceRuns => rates[i].stable = TRUE
                    /\ Coverage!Made(i, "product") # {} =>
                          rates[i].utility = Coverage!GAIN /\ Coverage!MeasuredRuns(i, "raw") = Coverage!UtilityRuns
                    /\ Coverage!Made(i, "consumer") # {} =>
                          /\ rates[i].product = "PASS-MEASUREMENT" /\ i \in published
                          /\ Coverage!MeasuredRuns(i, "product") = BlockRuns
                    /\ attempts[i] # <<>> => \A j \in 1..(i - 1) : Coverage!Concluded(j) /\ results[j].inBudget
  BY DEF Coverage!GatesHold
<1> DEFINE U == Coverage!UtilityRuns
<1>1. /\ U \in Nat /\ U > ReferenceRuns /\ BlockRuns \in Nat \ {0} /\ ReferenceRuns \in Nat \ {0}
      /\ Cases \in Nat
  BY CoverNumbers
<1> HIDE DEF U
<1>2. \A k \in Nat : PhaseAt(k) = IF k <= U THEN "raw" ELSE IF k <= U + BlockRuns THEN "product" ELSE "consumer"
  BY DEF PhaseAt, U
<1>3. /\ Placed(i) /\ Backed(i) /\ DOMAIN attempts[i] = 1..Tries(i) /\ Tries(i) \in Nat
      /\ attempts[i] \in Seq(Coverage!Entries)
  BY DEF CoverInv, CoverIsTyped, AttemptsArePlaced, Tries
<1>4. Len(attempts[i]) > ReferenceRuns => rates[i].stable = TRUE
  BY <1>3 DEF Backed, Steady, Tries
<1>5. \A k \in 1..Tries(i) : k < Tries(i) => Coverage!Valid(attempts[i][k])
  BY <1>3 DEF Placed
<1>6. ASSUME Coverage!Made(i, "product") # {}
      PROVE  rates[i].utility = Coverage!GAIN /\ Coverage!MeasuredRuns(i, "raw") = U
  <2>1. PICK m \in 1..Tries(i) : PhaseAt(m) = "product"
    BY <1>3, <1>6 DEF Coverage!Made, Placed
  <2>2. Tries(i) > U
    BY <1>1, <1>2, <1>3, <2>1
  <2>3. \A k \in 1..Tries(i) : (PhaseAt(k) = "raw") <=> (0 < k /\ k <= U)
    BY <1>1, <1>2, <1>3
  <2>4. \A k \in 1..Tries(i) : 0 < k /\ k <= U => Coverage!Valid(attempts[i][k])
    BY <1>1, <1>3, <1>5, <2>2
  <2> U \in Nat /\ 0 \in Nat /\ 0 <= U /\ U <= Tries(i)
    BY <1>1, <1>3, <2>2
  <2>5. Coverage!MeasuredRuns(i, "raw") = U - 0
    BY <2>3, <2>4, PhaseIsMeasured
  <2> QED
    BY <1>1, <1>3, <2>2, <2>5 DEF Backed, U
<1>7. ASSUME Coverage!Made(i, "consumer") # {}
      PROVE  /\ rates[i].product = "PASS-MEASUREMENT" /\ i \in published
             /\ Coverage!MeasuredRuns(i, "product") = BlockRuns
  <2>1. PICK m \in 1..Tries(i) : PhaseAt(m) = "consumer"
    BY <1>3, <1>7 DEF Coverage!Made, Placed
  <2>2. Tries(i) > U + BlockRuns
    BY <1>1, <1>2, <1>3, <2>1
  <2>3. \A k \in 1..Tries(i) : (PhaseAt(k) = "product") <=> (U < k /\ k <= U + BlockRuns)
    BY <1>1, <1>2, <1>3
  <2>4. \A k \in 1..Tries(i) : U < k /\ k <= U + BlockRuns => Coverage!Valid(attempts[i][k])
    BY <1>1, <1>3, <1>5, <2>2
  <2> U \in Nat /\ U + BlockRuns \in Nat /\ U <= U + BlockRuns /\ U + BlockRuns <= Tries(i)
    BY <1>1, <1>3, <2>2
  <2>5. Coverage!MeasuredRuns(i, "product") = BlockRuns
    <3> DEFINE b == U + BlockRuns
    <3>1. b \in Nat /\ U <= b /\ b <= Tries(i)
      OBVIOUS
    <3>2. /\ \A k \in 1..Tries(i) : (PhaseAt(k) = "product") <=> (U < k /\ k <= b)
          /\ \A k \in 1..Tries(i) : U < k /\ k <= b => Coverage!Valid(attempts[i][k])
      BY <2>3, <2>4
    <3> HIDE DEF b
    <3>3. Coverage!MeasuredRuns(i, "product") = b - U
      BY <3>1, <3>2, PhaseIsMeasured
    <3>4. b - U = BlockRuns
      BY <1>1 DEF b
    <3> QED
      BY <3>3, <3>4, Zenon
  <2> QED
    BY <1>1, <1>3, <2>2, <2>5 DEF Backed, U
<1>8. ASSUME attempts[i] # <<>>, NEW j \in 1..(i - 1) PROVE Coverage!Concluded(j) /\ results[j].inBudget
  <2>1. Tries(i) # 0
    BY <1>3, <1>8 DEF Tries
  <2>2. case \in Int /\ ~(i > case)
    BY <2>1 DEF CoverInv, CoverIsTyped, CasesAreInOrder
  <2>3. j \in Coverage!All /\ j < case
    BY <1>1, <2>2 DEF Coverage!All
  <2>4. Settled(j)
    BY <2>3 DEF CoverInv, CasesAreInOrder
  <2> QED
    BY <2>3, <2>4, SettledIsConcluded DEF Settled
<1> QED
  BY <1>4, <1>6, <1>7, <1>8 DEF U

(* Only PacedRunner makes an attempt, and none of any case failed then. *)
LEMMA CoverDoesNotRetry ==
  ASSUME CoverInv, Coverage!Next \/ UNCHANGED coverVars PROVE ~Coverage!Retries
<1> SUFFICES ASSUME NEW j \in Coverage!All, Len(attempts'[j]) > Len(attempts[j]),
                    NEW i \in Coverage!All, NEW k \in DOMAIN attempts[i], ~Coverage!Valid(attempts[i][k])
             PROVE  FALSE
  BY DEF Coverage!Retries
<1>1. attempts \in [Coverage!All -> Seq(Coverage!Entries)] /\ DOMAIN attempts[i] = 1..Tries(i)
  BY DEF CoverInv, CoverIsTyped, Tries
<1>2. attempts' # attempts
  BY <1>1
<1>3. ASSUME NEW e, Coverage!Log(e) PROVE FALSE
  <2>1. Len([attempts[j] EXCEPT ![Len(attempts[j])] = e]) = Len(attempts[j])
    BY <1>1
  <2>2. attempts'[j] \in {attempts[j], [attempts[j] EXCEPT ![Len(attempts[j])] = e]}
    BY <1>1, <1>3 DEF Coverage!Log
  <2> QED
    BY <1>1, <2>1, <2>2
<1>4. ~(Coverage!Wait \/ Coverage!Spawn \/ Coverage!Start \/ Coverage!Native)
  BY <1>2, <1>3 DEF Coverage!Wait, Coverage!Spawn, Coverage!Start, Coverage!Native
<1>5. ~(Coverage!Drift \/ Coverage!Expire \/ Coverage!Capture \/ Coverage!Load \/ Coverage!NextCase
        \/ Coverage!OpenCase \/ Coverage!Check \/ UNCHANGED coverVars)
  BY <1>2 DEF Coverage!Drift, Coverage!Expire, Coverage!Capture, Coverage!Load, Coverage!NextCase,
     Coverage!OpenCase, Coverage!Check, Coverage!evidence, coverVars
<1>6. ~(Coverage!Collect \/ Coverage!Evaluate \/ Coverage!Freeze \/ Coverage!EvaluatePairs \/ Coverage!Publish
        \/ Coverage!Validate \/ Coverage!Count)
  BY <1>2 DEF Coverage!Collect, Coverage!Evaluate, Coverage!Freeze, Coverage!EvaluatePairs, Coverage!Publish,
     Coverage!Validate, Coverage!Count, Coverage!evidence
<1>7. Coverage!Guard
  BY <1>4, <1>5, <1>6 DEF Coverage!Next, Coverage!Sequence
<1>8. stage \in Running \ Attempting
  BY <1>7 DEF Coverage!Guard, Running, Attempting
<1> QED
  BY <1>1, <1>8, QuietIsValid DEF AllValid

-----------------------------------------------------------------------------
(* The audit of the wider study: its inductive invariant *)

(* What the audit asks of a single attempt is missing only where something *)
(* happened that it must not overlook.                                     *)
EntriesVerify ==
    undisturbed => \A i \in Coverage!All : \A k \in 1..Tries(i) : Coverage!AttemptVerifies(attempts[i][k])

(* A case that has not been opened. *)
Untouched(i) ==
    /\ reports[i] = None /\ products[i] = None /\ frozenOn[i] = None /\ consumed[i] = None
    /\ results[i] = Coverage!NotRun /\ Tries(i) = 0

(* While a case runs, its files say exactly how far it is. *)
ReportOf(n, stats) ==
    [status |-> "RUNNING", rows |-> n, tail |-> <<>>, picked |-> n >= Coverage!Picked, stats |-> stats]
Gaining == section # "raw" \/ stage = "freeze"
FilesFollow ==
    /\ reports[case] = ReportOf(IF section = "raw" THEN made ELSE Coverage!UtilityRuns,
                                IF Gaining THEN Coverage!GAIN ELSE None)
    /\ Gaining => case \in selected
    /\ section = "raw" => frozenOn[case] = None
    /\ section # "raw" => frozenOn[case] \in BOOLEAN /\ (undisturbed => frozenOn[case] = FALSE)
    /\ products[case] =
          CASE section = "consumer" -> PairsOf("PASS-STOCK-FALLBACK", BlockRuns, TRUE)
            [] stage = "publish" -> PairsOf("PASS-MEASUREMENT", BlockRuns, TRUE)
            [] section = "product" /\ stage # "publish" /\ made > 0 -> PairsOf("RUNNING", made, FALSE)
            [] OTHER -> None
    /\ consumed[case] = None

(* The attempt that is being made, and the outcome it came to. *)
LatestFollows ==
    /\ stage \in Attempting \ {"collect"} =>
          /\ Coverage!Latest.status \in {"waiting", "attempting"} /\ Coverage!Latest.mid = "none"
          /\ Coverage!Latest.clean
    /\ stage \in {"wait", "spawn", "start"} => ~Coverage!Latest.started
    /\ stage = "collect" => /\ returnedRun \in Coverage!Ends
                            /\ Coverage!Latest.status = returnedRun.status
                            /\ Coverage!Latest.mid = returnedRun.mid

(* How the outcome that made no row stands in a report of n rows. *)
TailIs(i, tail, first, n) ==
    \/ tail = <<>>
    \/ /\ Tries(i) = first + n + 1 /\ tail \in Seq(Coverage!Ends) /\ Len(tail) = 1
       /\ tail[1].status = attempts[i][first + n + 1].status /\ tail[1].mid = attempts[i][first + n + 1].mid

RowsAreValid(i, n) == \A k \in 1..n : Coverage!Valid(attempts[i][k])

(* A case that is over can be reconstructed from its files, at whatever    *)
(* step it failed: in the search, at its verdict, before the pairs, in     *)
(* them, at their verdict (if they have one) or in the consumer.           *)
SearchStopped(i) ==
    LET f == reports[i] IN
    /\ f.rows \in 0..(Coverage!UtilityRuns - 1) /\ Tries(i) \in {f.rows, f.rows + 1}
    /\ f.stats = None /\ TailIs(i, f.tail, 0, f.rows) /\ RowsAreValid(i, f.rows)
    /\ \/ f.status \in Coverage!Failures /\ ~Varies(i)
       \/ f.status = "VARIANCE-STOP" /\ Varies(i) /\ Tries(i) = ReferenceRuns
SearchEnded(i) ==
    LET f == reports[i] IN
    /\ f.rows = Coverage!UtilityRuns /\ Tries(i) = Coverage!UtilityRuns /\ f.tail = <<>>
    /\ f.stats = rates[i].utility /\ f.stats # Coverage!GAIN /\ f.status = f.stats /\ ~Varies(i)
    /\ RowsAreValid(i, Coverage!UtilityRuns)
Won(i) ==
    LET f == reports[i] IN
    /\ f.rows = Coverage!UtilityRuns /\ f.tail = <<>> /\ ~Varies(i)
    /\ f.stats = Coverage!GAIN /\ rates[i].utility = Coverage!GAIN
    /\ RowsAreValid(i, Coverage!UtilityRuns)
NotPaired(i) ==
    /\ i \notin selected \/ products[i] = None
    /\ Tries(i) = Coverage!UtilityRuns
    /\ reports[i].status \in {"VALIDATION-STOP", "RESOURCE-BUDGET-STOP"}
PairsFrozen(i) == i \in selected /\ frozenOn[i] = FALSE /\ products[i] \in Coverage!PairFiles
PairsStopped(i) ==
    LET b == products[i] IN
    /\ b.rows \in 0..(BlockRuns - 1)
    /\ Tries(i) \in {Coverage!UtilityRuns + b.rows, Coverage!UtilityRuns + b.rows + 1}
    /\ TailIs(i, b.tail, Coverage!UtilityRuns, b.rows)
    /\ RowsAreValid(i, Coverage!UtilityRuns + b.rows)
    /\ b.status \in {"RUNNING", "VALIDATION-STOP", "ENVIRONMENT-BLOCKED"}
    /\ b.status = "ENVIRONMENT-BLOCKED" =>
          attempts[i][Coverage!UtilityRuns + b.rows + 1].status # "measured"
    /\ reports[i].status \in Coverage!Failures
PairsEnded(i) ==
    LET b == products[i] IN
    /\ b.rows = BlockRuns /\ Tries(i) = Coverage!UtilityRuns + BlockRuns /\ b.tail = <<>>
    /\ rates[i].product \in Coverage!PairVerdicts /\ RowsAreValid(i, Coverage!UtilityRuns + BlockRuns)
    /\ IF rates[i].product = "PASS-MEASUREMENT"
       THEN b.status = "VALIDATION-STOP" /\ reports[i].status = "VALIDATION-STOP"
       ELSE b.status \in {rates[i].product, "VALIDATION-STOP"} /\ reports[i].status = "PRODUCT-VALIDATION-STOP"
Published(i) ==
    LET b == products[i]  s == reports[i].status  n == Coverage!CaseBudget IN
    /\ b = PairsOf("PASS-STOCK-FALLBACK", BlockRuns, TRUE) /\ rates[i].product = "PASS-MEASUREMENT"
    /\ i \in published /\ s # "PRODUCT-VALIDATION-STOP" /\ RowsAreValid(i, n - 1)
    /\ \/ /\ Tries(i) = n - 1 /\ s \in {"VALIDATION-STOP", "RESOURCE-BUDGET-STOP"}
       \/ /\ Tries(i) = n /\ consumed[i] = None /\ s # Coverage!PRODUCT
          /\ attempts[i][n].status # "measured"
       \/ /\ Tries(i) = n /\ consumed[i] \in Coverage!Ends
          /\ attempts[i][n].status = consumed[i].status /\ attempts[i][n].mid = consumed[i].mid
          /\ s = Coverage!PRODUCT => consumed[i].status = "measured"
CaseIsSound(i) ==
    /\ reports[i].picked = (reports[i].rows >= Coverage!Picked)
    /\ \/ SearchStopped(i)
       \/ SearchEnded(i)
       \/ /\ Won(i)
          /\ \/ NotPaired(i)
             \/ PairsFrozen(i) /\ (PairsStopped(i) \/ PairsEnded(i) \/ Published(i))

(* A case that was reconstructed, and what became of the sequence. *)
Told(i) ==
    /\ results[i].verified /\ Coverage!CaseVerifies(i)
    /\ results[i] = Coverage!Reconstructed(i, results[i].inBudget)
    /\ results[i].inBudget \in BOOLEAN
CasesAreTold ==
    /\ DOMAIN reports = Coverage!All /\ DOMAIN products = Coverage!All /\ DOMAIN consumed = Coverage!All
    /\ \A i \in Coverage!All : reports[i] # None => reports[i].status # "NOT-RUN"
    /\ \A i \in Coverage!All : i < case => reports[i] # None /\ Told(i) /\ Coverage!Continues(results[i])
    /\ \A i \in Coverage!All :
          i > case \/ (i = case /\ stage \in {"capture", "load", "next", "open"}) => Untouched(i)
    /\ stage \in Running \cup {"validate"} => reports[case] # None /\ results[case] = Coverage!NotRun

EndIsTold ==
    /\ stage \notin Ending => verdict \in {"PREFLIGHT", "RUNNING"}
    /\ verdict = "IDENTITY-STOP" /\ undisturbed => case \in Coverage!All /\ Coverage!LacksStatistics(case)
    /\ stage \in Ending =>
          \/ case = Cases + 1 /\ verdict = Coverage!COMPLETE
          \/ /\ case \in Coverage!All /\ Untouched(case) /\ verdict \in {"IDENTITY-STOP", "RESOURCE-BUDGET-STOP"}
          \/ /\ case \in Coverage!All /\ reports[case] # None /\ Told(case)
             /\ ~Coverage!Continues(results[case]) /\ verdict = "SEQUENCE-STOP"
          \/ /\ case \in Coverage!All /\ reports[case] # None /\ ~results[case].verified
             /\ results[case].status = "NOT-RUN" <=> stage = "count"
             /\ stage = "count" => results[case] = Coverage!NotRun
             /\ verdict = "IDENTITY-STOP"
          \/ case = 0 /\ verdict \in {"IDENTITY-STOP", "RESOURCE-BUDGET-STOP"}

AuditInv ==
    /\ EntriesVerify
    /\ stage \in Running => FilesFollow /\ LatestFollows
    /\ stage = "validate" /\ undisturbed => CaseIsSound(case)
    /\ CasesAreTold /\ EndIsTold /\ Coverage!CountsAreTrue
    /\ undisturbed \in BOOLEAN /\ selected \subseteq Coverage!All

-----------------------------------------------------------------------------
(* The attempts of a phase are an interval of those of the case *)

LEMMA IntervalIsPicked ==
  ASSUME NEW a \in Nat, NEW b \in Nat, a <= b
  PROVE  /\ Cardinality((a + 1)..b) = b - a
         /\ \A n \in 1..(b - a), k \in (a + 1)..b :
               Cardinality({j \in (a + 1)..b : j < k}) = n - 1 <=> k = a + n
<1>1. \A x, y \in Nat : x <= y => Cardinality((x + 1)..y) = y - x
  <2> SUFFICES ASSUME NEW x \in Nat, NEW y \in Nat, x <= y PROVE Cardinality((x + 1)..y) = y - x
    OBVIOUS
  <2>1. Cardinality((x + 1)..y) = IF x + 1 <= y THEN y - (x + 1) + 1 ELSE 0
    BY FS_Interval
  <2> QED
    BY <2>1
<1>2. \A k \in (a + 1)..b : Cardinality({j \in (a + 1)..b : j < k}) = k - a - 1
  <2> TAKE k \in (a + 1)..b
  <2>1. {j \in (a + 1)..b : j < k} = (a + 1)..(k - 1)
    OBVIOUS
  <2>2. k - 1 \in Nat /\ a <= k - 1 /\ (k - 1) - a = k - a - 1
    OBVIOUS
  <2>3. Cardinality((a + 1)..(k - 1)) = (k - 1) - a
    BY <1>1, <2>2
  <2> QED
    BY <2>1, <2>2, <2>3
<1> QED
  BY <1>1, <1>2

PicksInterval(c, p, a, b) ==
    /\ Coverage!Of(c, p) \in Seq(Coverage!Entries) /\ Len(Coverage!Of(c, p)) = b - a
    /\ \A n \in 1..(b - a) : Coverage!Of(c, p)[n] = attempts[c][a + n]

LEMMA PhaseIsPicked ==
  ASSUME NEW c, attempts[c] \in Seq(Coverage!Entries), NEW p,
         NEW a \in Nat, NEW b \in Nat, a <= b, b <= Tries(c), Coverage!Made(c, p) = (a + 1)..b
  PROVE  PicksInterval(c, p, a, b)
<1> DEFINE M == Coverage!Made(c, p)
           s == [n \in 1..(b - a) |-> attempts[c][a + n]]
           at(n) == CHOOSE k \in M : Coverage!Cardinality({j \in M : j < k}) = n - 1
<1>1. Coverage!Cardinality(M) = b - a
  BY IntervalIsPicked, CoverageCardinality
<1>2. ASSUME NEW n \in 1..(b - a) PROVE at(n) = a + n
  <2>1. a + n \in M
    OBVIOUS
  <2>2. \A k \in (a + 1)..b : Cardinality({j \in (a + 1)..b : j < k}) = n - 1 <=> k = a + n
    BY IntervalIsPicked
  <2>3. \A k \in M : Cardinality({j \in M : j < k}) = n - 1 <=> k = a + n
    BY <2>2
  <2> HIDE DEF M
  <2>4. \A k \in M : Coverage!Cardinality({j \in M : j < k}) = n - 1 <=> k = a + n
    <3> TAKE k \in M
    <3>1. Coverage!Cardinality({j \in M : j < k}) = Cardinality({j \in M : j < k})
      BY CoverageCardinality, Zenon
    <3> QED
      BY <2>3, <3>1
  <2> QED
    BY <2>1, <2>4
<1>3. Coverage!Of(c, p) = s
  <2>1. Coverage!Of(c, p) = [n \in 1..Coverage!Cardinality(M) |-> attempts[c][at(n)]]
    BY DEF Coverage!Of
  <2> QED
    BY <1>1, <1>2, <2>1
<1>4. b - a \in Nat /\ \A n \in 1..(b - a) : s[n] \in Coverage!Entries
  BY DEF Tries
<1>5. s \in Seq(Coverage!Entries) /\ Len(s) = b - a
  BY <1>4
<1> HIDE DEF s
<1>6. \A n \in 1..(b - a) : s[n] = attempts[c][a + n]
  BY DEF s
<1> QED
  BY <1>3, <1>5, <1>6 DEF PicksInterval

(* Which interval that is, from the number of attempts. *)
PhasesAre(c) ==
    LET U == Coverage!UtilityRuns  B == BlockRuns  n == Tries(c)
        raw == Coverage!Of(c, "raw")  pairs == Coverage!Of(c, "product")
        last == Coverage!Of(c, "consumer") IN
    /\ raw \in Seq(Coverage!Entries) /\ pairs \in Seq(Coverage!Entries) /\ last \in Seq(Coverage!Entries)
    /\ n <= U => raw = attempts[c] /\ Len(pairs) = 0 /\ Len(last) = 0
    /\ n >= U => Len(raw) = U
    /\ \A k \in 1..U : k <= n => raw[k] = attempts[c][k]
    /\ n >= U /\ n <= U + B => Len(pairs) = n - U /\ Len(last) = 0
    /\ n = U + B + 1 => Len(pairs) = B /\ Len(last) = 1 /\ last[1] = attempts[c][U + B + 1]
    /\ \A k \in 1..B : U + k <= n => pairs[k] = attempts[c][U + k]

LEMMA PhasesArePicked ==
  ASSUME CoverBounds, NEW c, attempts[c] \in Seq(Coverage!Entries), Tries(c) <= Coverage!CaseBudget,
         \A k \in 1..Tries(c) : attempts[c][k].phase = PhaseAt(k)
  PROVE  PhasesAre(c)
<1> DEFINE U == Coverage!UtilityRuns
           B == BlockRuns
           n == Tries(c)
<1>1. U \in Nat /\ B \in Nat \ {0} /\ n \in Nat /\ n <= U + B + 1 /\ DOMAIN attempts[c] = 1..n
  BY CoverNumbers DEF Tries
<1>2. \A k \in 1..n : attempts[c][k].phase = IF k <= U THEN "raw" ELSE IF k <= U + B THEN "product" ELSE "consumer"
  BY DEF PhaseAt
<1>3. PICK r \in Nat : r = IF n <= U THEN n ELSE U
  BY <1>1
<1>4. PICK q \in Nat : q = IF n <= U THEN r ELSE IF n <= U + B THEN n ELSE U + B
  BY <1>1, <1>3
<1> HIDE DEF U, B, n
<1>5. r <= q /\ q <= n /\ (n > U => r = U) /\ (q < n => q = U + B)
  BY <1>1, <1>3, <1>4
<1>6. Coverage!Made(c, "raw") = (0 + 1)..r
  BY <1>1, <1>2, <1>3 DEF Coverage!Made
<1>7. Coverage!Made(c, "product") = (r + 1)..q
  BY <1>1, <1>2, <1>3, <1>4 DEF Coverage!Made
<1>8. Coverage!Made(c, "consumer") = (q + 1)..n
  BY <1>1, <1>2, <1>3, <1>4 DEF Coverage!Made
<1>9. PicksInterval(c, "raw", 0, r)
  BY <1>1, <1>5, <1>6, PhaseIsPicked DEF n
<1>10. PicksInterval(c, "product", r, q)
  BY <1>1, <1>5, <1>7, PhaseIsPicked DEF n
<1>11. PicksInterval(c, "consumer", q, n)
  BY <1>1, <1>5, <1>8, PhaseIsPicked DEF n
<1> DEFINE raw == Coverage!Of(c, "raw")
           pairs == Coverage!Of(c, "product")
           last == Coverage!Of(c, "consumer")
<1>12. /\ raw \in Seq(Coverage!Entries) /\ Len(raw) = r /\ \A k \in 1..r : raw[k] = attempts[c][k]
       /\ pairs \in Seq(Coverage!Entries) /\ Len(pairs) = q - r
       /\ \A k \in 1..(q - r) : pairs[k] = attempts[c][r + k]
       /\ last \in Seq(Coverage!Entries) /\ Len(last) = n - q
       /\ \A k \in 1..(n - q) : last[k] = attempts[c][q + k]
  BY <1>9, <1>10, <1>11 DEF PicksInterval
<1> HIDE DEF raw, pairs, last
<1>13. n <= U => raw = attempts[c] /\ Len(pairs) = 0 /\ Len(last) = 0
  BY <1>1, <1>3, <1>4, <1>12 DEF n, Tries
<1>14. /\ n >= U => Len(raw) = U
       /\ \A k \in 1..U : k <= n => raw[k] = attempts[c][k]
       /\ n >= U /\ n <= U + B => Len(pairs) = n - U /\ Len(last) = 0
       /\ \A k \in 1..B : U + k <= n => pairs[k] = attempts[c][U + k]
  BY <1>1, <1>3, <1>4, <1>12
<1>15. n = U + B + 1 => Len(pairs) = B /\ Len(last) = 1 /\ last[1] = attempts[c][U + B + 1]
  BY <1>1, <1>3, <1>4, <1>12
<1> QED
  BY <1>12, <1>13, <1>14, <1>15 DEF PhasesAre, raw, pairs, last, n, U, B

-----------------------------------------------------------------------------
(* The files of a sound case say what reconstruct_case wants *)

LEMMA PrefixIsVerified ==
  ASSUME NEW s \in Seq(Coverage!Entries), NEW n \in Nat, Len(s) \in {n, n + 1}, NEW tail,
         \A k \in 1..n : Coverage!Valid(s[k]),
         \/ tail = <<>>
         \/ /\ tail \in Seq(Coverage!Ends) /\ Len(tail) = 1 /\ Len(s) = n + 1
            /\ tail[1].status = s[n + 1].status /\ tail[1].mid = s[n + 1].mid
  PROVE  Coverage!PrefixVerifies(n, tail, s)
<1>1. Len(s) \in Nat
  OBVIOUS
<1>2. CASE tail = <<>>
  <2>1. Len(tail) = 0 /\ n + 0 <= Len(s) /\ Len(s) <= n + 1
    BY <1>1, <1>2
  <2> QED
    BY <1>2, <2>1 DEF Coverage!PrefixVerifies
<1>3. CASE tail # <<>>
  <2>1. Len(tail) = 1 /\ Len(s) = n + 1 /\ n + 1 <= Len(s) /\ Len(s) <= n + 1
    BY <1>1, <1>3
  <2> QED
    BY <1>3, <2>1 DEF Coverage!PrefixVerifies
<1> QED
  BY <1>2, <1>3

(* What is known of the attempts of a case that is over. *)
Examined(c) ==
    /\ attempts[c] \in Seq(Coverage!Entries) /\ PhasesAre(c) /\ rates[c] \in VerdictRecords
    /\ \A k \in 1..Tries(c) : Coverage!AttemptVerifies(attempts[c][k])
    /\ reports[c].picked = (reports[c].rows >= Coverage!Picked)

LEMMA ExaminedNumbers ==
  ASSUME CoverBounds, NEW c, Examined(c)
  PROVE  /\ Coverage!UtilityRuns \in Nat /\ BlockRuns \in Nat \ {0} /\ ReferenceRuns \in Nat \ {0}
         /\ Coverage!UtilityRuns > ReferenceRuns
         /\ Coverage!CaseBudget = Coverage!UtilityRuns + BlockRuns + 1
         /\ Tries(c) \in Nat /\ DOMAIN attempts[c] = 1..Tries(c)
  BY CoverNumbers DEF Examined, Tries

LEMMA StoppedSearchVerifies ==
  ASSUME CoverBounds, NEW c, Examined(c), SearchStopped(c) PROVE Coverage!CaseVerifies(c)
<1> DEFINE f == reports[c]
           raw == Coverage!Of(c, "raw")
           U == Coverage!UtilityRuns
<1>1. /\ U \in Nat /\ ReferenceRuns \in Nat /\ U > ReferenceRuns /\ Coverage!CaseBudget > U
      /\ Tries(c) \in Nat /\ DOMAIN attempts[c] = 1..Tries(c) /\ Len(attempts[c]) = Tries(c)
  BY ExaminedNumbers DEF Tries
<1>2. /\ f.rows \in Nat /\ f.rows < U /\ Tries(c) \in {f.rows, f.rows + 1} /\ Tries(c) <= U
      /\ f.stats = None /\ f.picked = (f.rows >= Coverage!Picked)
  BY <1>1 DEF SearchStopped, Examined
<1>3. raw = attempts[c] /\ raw \in Seq(Coverage!Entries)
  BY <1>2 DEF Examined, PhasesAre
<1>4. Coverage!PrefixVerifies(f.rows, f.tail, raw)
  <2>1. Len(raw) \in {f.rows, f.rows + 1} /\ \A k \in 1..f.rows : Coverage!Valid(raw[k])
    BY <1>1, <1>2, <1>3 DEF SearchStopped, RowsAreValid
  <2>2. TailIs(c, f.tail, 0, f.rows) /\ 0 + f.rows + 1 = f.rows + 1
    BY <1>2 DEF SearchStopped
  <2>3. f.tail # <<>> => /\ f.tail \in Seq(Coverage!Ends) /\ Len(f.tail) = 1 /\ Len(raw) = f.rows + 1
                         /\ f.tail[1].status = raw[f.rows + 1].status /\ f.tail[1].mid = raw[f.rows + 1].mid
    BY <1>1, <1>3, <2>2 DEF TailIs
  <2> HIDE DEF f, raw
  <2> QED
    BY <1>2, <1>3, <2>1, <2>3, PrefixIsVerified
<1>5. \A k \in DOMAIN attempts[c] : Coverage!AttemptVerifies(attempts[c][k])
  BY <1>1 DEF Examined
<1>6. /\ rates[c].stable = FALSE => Tries(c) = ReferenceRuns
      /\ f.status \in Coverage!Failures \cup (IF rates[c].stable = FALSE THEN {"VARIANCE-STOP"} ELSE {})
  BY DEF SearchStopped, Varies
<1>7. f.rows # U /\ Len(attempts[c]) <= Coverage!CaseBudget
  <2> HIDE DEF f, raw, U
  <2>1. Coverage!CaseBudget \in Nat
    BY <1>1, ExaminedNumbers DEF U
  <2> QED
    BY <1>1, <1>2, <2>1
<1> HIDE DEF f, raw, U
<1> QED
  BY <1>1, <1>2, <1>3, <1>4, <1>5, <1>6, <1>7 DEF Coverage!CaseVerifies, f, raw, U

LEMMA CompleteSearchVerifies ==
  ASSUME CoverBounds, NEW c, Examined(c), Tries(c) >= Coverage!UtilityRuns, Tries(c) <= Coverage!CaseBudget,
         reports[c].rows = Coverage!UtilityRuns, reports[c].tail = <<>>, ~Varies(c),
         reports[c].stats = rates[c].utility, RowsAreValid(c, Coverage!UtilityRuns),
         IF reports[c].stats # Coverage!GAIN
         THEN reports[c].status = reports[c].stats /\ Tries(c) = Coverage!UtilityRuns
         ELSE Coverage!ProductVerifies(c)
  PROVE  Coverage!CaseVerifies(c)
<1> DEFINE f == reports[c]
           raw == Coverage!Of(c, "raw")
           U == Coverage!UtilityRuns
<1>1. /\ U \in Nat /\ Tries(c) \in Nat /\ DOMAIN attempts[c] = 1..Tries(c) /\ Len(attempts[c]) = Tries(c)
  BY ExaminedNumbers DEF Tries
<1>2. raw \in Seq(Coverage!Entries) /\ Len(raw) = U /\ \A k \in 1..U : raw[k] = attempts[c][k]
  BY <1>1 DEF Examined, PhasesAre
<1>3. Coverage!PrefixVerifies(U, f.tail, raw)
  BY <1>1, <1>2, PrefixIsVerified DEF RowsAreValid
<1>4. \A k \in DOMAIN attempts[c] : Coverage!AttemptVerifies(attempts[c][k])
  BY <1>1 DEF Examined
<1>5. rates[c].stable # FALSE /\ f.picked = (f.rows >= Coverage!Picked)
  BY DEF Varies, Examined
<1> HIDE DEF f, raw, U
<1>6. ~(U < U)
  BY <1>1
<1> QED
  BY <1>1, <1>3, <1>4, <1>5, <1>6 DEF Coverage!CaseVerifies, f, raw, U

LEMMA BlockIsVerified ==
  ASSUME CoverBounds, NEW c, Examined(c), frozenOn[c] = FALSE,
         NEW b, b = products[c], b.rows \in 0..BlockRuns,
         Tries(c) >= Coverage!UtilityRuns + b.rows, Tries(c) <= Coverage!CaseBudget,
         b.rows < BlockRuns => Tries(c) <= Coverage!UtilityRuns + b.rows + 1,
         TailIs(c, b.tail, Coverage!UtilityRuns, b.rows), b.rows = BlockRuns => b.tail = <<>> /\ b.evaluated = TRUE,
         RowsAreValid(c, Coverage!UtilityRuns + b.rows),
         /\ b.rows < BlockRuns =>
               b.status \in {"RUNNING", "VALIDATION-STOP", "ENVIRONMENT-BLOCKED"}
         /\ b.rows < BlockRuns /\ b.status = "ENVIRONMENT-BLOCKED" =>
               attempts[c][Coverage!UtilityRuns + b.rows + 1].status # "measured"
         /\ b.rows = BlockRuns => \/ b.status \in {rates[c].product, "VALIDATION-STOP"}
                                  \/ b.status = "PASS-STOCK-FALLBACK" /\ rates[c].product = "PASS-MEASUREMENT"
  PROVE  Coverage!BlockVerifies(c)
<1> DEFINE pairs == Coverage!Of(c, "product")
           U == Coverage!UtilityRuns
           n == Tries(c)
           r == b.rows
<1>1. /\ U \in Nat /\ BlockRuns \in Nat \ {0} /\ n \in Nat
      /\ Coverage!CaseBudget = U + BlockRuns + 1 /\ r \in Nat /\ r <= BlockRuns
  BY ExaminedNumbers
<1>2. /\ n >= U + r /\ n <= U + BlockRuns + 1 /\ (r < BlockRuns => n <= U + r + 1)
      /\ U + r + 1 = U + (r + 1)
  BY <1>1
<1>3. /\ pairs \in Seq(Coverage!Entries)
      /\ n >= U /\ n <= U + BlockRuns => Len(pairs) = n - U
      /\ n = U + BlockRuns + 1 => Len(pairs) = BlockRuns
      /\ \A k \in 1..BlockRuns : U + k <= n => pairs[k] = attempts[c][U + k]
  BY DEF Examined, PhasesAre
<1>4. /\ TailIs(c, b.tail, U, r) /\ (r = BlockRuns => b.tail = <<>>)
      /\ \A k \in 1..(U + r) : Coverage!Valid(attempts[c][k])
  BY DEF RowsAreValid
<1>5. b.tail # <<>> => /\ b.tail \in Seq(Coverage!Ends) /\ Len(b.tail) = 1 /\ n = U + r + 1
                       /\ b.tail[1].status = attempts[c][U + r + 1].status
                       /\ b.tail[1].mid = attempts[c][U + r + 1].mid
  BY <1>4 DEF TailIs
<1> HIDE DEF pairs, U, n, r
<1>6. Len(pairs) \in {r, r + 1} /\ (r = BlockRuns => Len(pairs) = r) /\ (n = U + r + 1 /\ r < BlockRuns => Len(pairs) = r + 1)
  <2>1. CASE r < BlockRuns
    <3>1. n >= U /\ n <= U + BlockRuns /\ n - U \in {r, r + 1} /\ (n = U + r + 1 => n - U = r + 1)
      BY <1>1, <1>2, <2>1
    <3>2. r # BlockRuns
      BY <1>1, <2>1
    <3> QED
      BY <1>3, <3>1, <3>2
  <2>2. CASE r = BlockRuns
    <3>1. ~(r < BlockRuns) /\ (n = U + BlockRuns \/ n = U + BlockRuns + 1)
      BY <1>1, <1>2, <2>2
    <3>2. CASE n = U + BlockRuns
      <4>1. n >= U /\ n <= U + BlockRuns /\ n - U = r
        BY <1>1, <2>2, <3>2
      <4> QED
        BY <1>3, <3>1, <4>1
    <3> QED
      BY <1>3, <2>2, <3>1, <3>2
  <2> QED
    BY <1>1, <2>1, <2>2
<1>7. \A k \in 1..r : Coverage!Valid(pairs[k])
  <2> TAKE k \in 1..r
  <2>1. k \in 1..BlockRuns /\ U + k <= n /\ U + k \in 1..(U + r)
    BY <1>1, <1>2
  <2> QED
    BY <1>3, <1>4, <2>1
<1>8. Len(pairs) > r => r < BlockRuns /\ pairs[r + 1] = attempts[c][U + r + 1]
  <2> HAVE Len(pairs) > r
  <2>1. r < BlockRuns /\ Len(pairs) = r + 1 /\ n = U + r + 1
    BY <1>1, <1>2, <1>3, <1>6
  <2>2. r + 1 \in 1..BlockRuns /\ U + (r + 1) <= n
    BY <1>1, <1>2, <2>1
  <2> QED
    BY <1>2, <1>3, <2>1, <2>2
<1>9. Coverage!PrefixVerifies(r, b.tail, pairs)
  <2>1. b.tail # <<>> => /\ b.tail \in Seq(Coverage!Ends) /\ Len(b.tail) = 1 /\ Len(pairs) = r + 1
                         /\ b.tail[1].status = pairs[r + 1].status /\ b.tail[1].mid = pairs[r + 1].mid
    BY <1>1, <1>2, <1>4, <1>5, <1>6, <1>8
  <2> QED
    BY <1>1, <1>3, <1>6, <1>7, <2>1, PrefixIsVerified
<1>10. Len(pairs) > r /\ pairs[r + 1].status = "measured" => b.status \in {"VALIDATION-STOP", "RUNNING"}
  BY <1>8 DEF r, U
<1>11. r # BlockRuns => r < BlockRuns
  BY <1>1
<1> QED
  BY <1>9, <1>10, <1>11 DEF Coverage!BlockVerifies, Coverage!PublicationStop, pairs, r

LEMMA NothingIsPaired ==
  ASSUME CoverBounds, NEW c, Examined(c), NotPaired(c) PROVE Coverage!ProductVerifies(c)
<1> DEFINE pairs == Coverage!Of(c, "product")
           last == Coverage!Of(c, "consumer")
<1>1. pairs \in Seq(Coverage!Entries) /\ last \in Seq(Coverage!Entries) /\ Len(pairs) = 0 /\ Len(last) = 0
  BY ExaminedNumbers DEF Examined, PhasesAre, NotPaired
<1> HIDE DEF pairs, last
<1>2. pairs \o last = <<>>
  BY <1>1
<1> QED
  BY <1>2 DEF NotPaired, Coverage!ProductVerifies, pairs, last

(* The product of a case that was frozen on its own host. *)
LEMMA PairsAreRecords ==
  ASSUME CoverBounds, NEW c, PairsFrozen(c)
  PROVE  c \in selected /\ products[c] # None /\ frozenOn[c] = FALSE /\ products[c].rows \in Nat
<1>1. products[c] \in Coverage!PairFiles /\ None \notin Coverage!PairFiles
  BY DEF PairsFrozen, CoverBounds, Coverage!CoverageStudyAssumption
<1>2. products[c].rows \in Nat
  BY <1>1 DEF Coverage!PairFiles
<1> QED
  BY <1>1, <1>2 DEF PairsFrozen

LEMMA StoppedPairsVerify ==
  ASSUME CoverBounds, NEW c, Examined(c), PairsFrozen(c), PairsStopped(c) PROVE Coverage!ProductVerifies(c)
<1>1. c \in selected /\ products[c] # None /\ frozenOn[c] = FALSE
  BY PairsAreRecords
<1> DEFINE b == products[c]
<1>2. /\ b.rows \in 0..(BlockRuns - 1) /\ b.rows \in 0..BlockRuns /\ b.rows < BlockRuns
      /\ Tries(c) >= Coverage!UtilityRuns + b.rows /\ Tries(c) <= Coverage!UtilityRuns + b.rows + 1
      /\ Tries(c) <= Coverage!CaseBudget /\ b.rows # BlockRuns
  BY ExaminedNumbers DEF PairsStopped
<1>3. /\ TailIs(c, b.tail, Coverage!UtilityRuns, b.rows) /\ RowsAreValid(c, Coverage!UtilityRuns + b.rows)
      /\ b.status \in {"RUNNING", "VALIDATION-STOP", "ENVIRONMENT-BLOCKED"}
      /\ b.status = "ENVIRONMENT-BLOCKED" =>
               attempts[c][Coverage!UtilityRuns + b.rows + 1].status # "measured"
      /\ reports[c].status \in Coverage!Failures
  BY DEF PairsStopped
<1>4. Coverage!BlockVerifies(c)
  BY <1>1, <1>2, <1>3, BlockIsVerified
<1>5. /\ ~Coverage!BlockPasses(c) /\ reports[c].status # "PRODUCT-VALIDATION-STOP"
      /\ reports[c].status # Coverage!PRODUCT
  BY <1>3 DEF Coverage!BlockPasses, Coverage!Failures, Coverage!PRODUCT
<1> HIDE DEF b
<1> QED
  BY <1>1, <1>3, <1>4, <1>5 DEF Coverage!ProductVerifies

LEMMA EndedPairsVerify ==
  ASSUME CoverBounds, NEW c, Examined(c), PairsFrozen(c), PairsEnded(c), ~Coverage!LacksStatistics(c)
  PROVE  Coverage!ProductVerifies(c)
<1>1. c \in selected /\ products[c] # None /\ frozenOn[c] = FALSE
  BY PairsAreRecords
<1> DEFINE b == products[c]
           pairs == Coverage!Of(c, "product")
           last == Coverage!Of(c, "consumer")
<1>2. /\ b.rows = BlockRuns /\ b.rows \in 0..BlockRuns /\ ~(b.rows < BlockRuns)
      /\ Tries(c) = Coverage!UtilityRuns + b.rows /\ Tries(c) >= Coverage!UtilityRuns + b.rows
      /\ Tries(c) <= Coverage!CaseBudget /\ b.tail = <<>>
      /\ RowsAreValid(c, Coverage!UtilityRuns + b.rows)
      /\ TailIs(c, b.tail, Coverage!UtilityRuns, b.rows)
  BY ExaminedNumbers DEF PairsEnded, TailIs
<1>3. /\ rates[c].product \in Coverage!PairVerdicts
      /\ b.status \in {rates[c].product, "VALIDATION-STOP"}
      /\ rates[c].product = "PASS-MEASUREMENT" => b.status = "VALIDATION-STOP" /\ reports[c].status = "VALIDATION-STOP"
      /\ rates[c].product # "PASS-MEASUREMENT" => reports[c].status = "PRODUCT-VALIDATION-STOP"
  BY DEF PairsEnded
<1>0. b.evaluated = TRUE
  <2>1. b.evaluated \in BOOLEAN
    BY DEF PairsFrozen, Coverage!PairFiles
  <2>2. b.evaluated
    BY <1>1, <1>2, Zenon DEF Coverage!LacksStatistics
  <2> QED
    BY <2>1, <2>2, Zenon
<1>4. Coverage!BlockVerifies(c)
  BY <1>0, <1>1, <1>2, <1>3, ExaminedNumbers, BlockIsVerified
<1>5. Len(pairs \o last) = BlockRuns
  <2>1. pairs \in Seq(Coverage!Entries) /\ last \in Seq(Coverage!Entries)
    BY DEF Examined, PhasesAre
  <2>2. Len(pairs) = BlockRuns /\ Len(last) = 0
    BY <1>2, ExaminedNumbers DEF Examined, PhasesAre
  <2> HIDE DEF pairs, last
  <2> QED
    BY <2>1, <2>2, ExaminedNumbers
<1>6. /\ ~Coverage!BlockPasses(c)
      /\ reports[c].status # Coverage!PRODUCT
  BY <1>3 DEF Coverage!BlockPasses, Coverage!PairVerdicts, Coverage!PRODUCT
<1> HIDE DEF b, pairs, last
<1> QED
  BY <1>1, <1>3, <1>4, <1>5, <1>6 DEF Coverage!ProductVerifies, Coverage!Failures, pairs, last

LEMMA PublishedVerifies ==
  ASSUME CoverBounds, NEW c, Examined(c), PairsFrozen(c), Published(c) PROVE Coverage!ProductVerifies(c)
<1>1. c \in selected /\ products[c] # None /\ frozenOn[c] = FALSE
  BY PairsAreRecords
<1> DEFINE b == products[c]
           s == reports[c].status
           n == Coverage!CaseBudget
           pairs == Coverage!Of(c, "product")
           last == Coverage!Of(c, "consumer")
<1>2. /\ b.rows = BlockRuns /\ b.tail = <<>> /\ b.status = "PASS-STOCK-FALLBACK" /\ b.evaluated = TRUE
      /\ rates[c].product = "PASS-MEASUREMENT" /\ c \in published
      /\ s # "PRODUCT-VALIDATION-STOP" /\ RowsAreValid(c, n - 1) /\ Tries(c) \in {n - 1, n}
  BY DEF Published, PairsOf
<1>3. /\ b.rows \in 0..BlockRuns /\ ~(b.rows < BlockRuns) /\ n - 1 = Coverage!UtilityRuns + b.rows
      /\ Tries(c) >= Coverage!UtilityRuns + b.rows /\ Tries(c) <= n
      /\ TailIs(c, b.tail, Coverage!UtilityRuns, b.rows)
  BY <1>2, ExaminedNumbers DEF TailIs
<1>4. Coverage!BlockVerifies(c)
  BY <1>1, <1>2, <1>3, BlockIsVerified
<1>5. /\ pairs \in Seq(Coverage!Entries) /\ last \in Seq(Coverage!Entries) /\ Len(pairs) = BlockRuns
      /\ Tries(c) = n - 1 => Len(last) = 0
      /\ Tries(c) = n => Len(last) = 1 /\ last[1] = attempts[c][n]
  <2>1. n = Coverage!UtilityRuns + BlockRuns + 1 /\ Coverage!UtilityRuns \in Nat /\ BlockRuns \in Nat
    BY ExaminedNumbers
  <2> HIDE DEF n
  <2> QED
    BY <1>2, <2>1 DEF Examined, PhasesAre
<1>6. /\ Tries(c) = n - 1 => Len(pairs \o last) = BlockRuns
      /\ Tries(c) = n => Len(pairs \o last) = BlockRuns + 1
  <2> HIDE DEF pairs, last, n
  <2>1. Len(pairs \o last) = Len(pairs) + Len(last)
    BY <1>5
  <2>2. BlockRuns \in Nat
    BY ExaminedNumbers
  <2>3. (Len(last) = 0 => Len(pairs \o last) = BlockRuns) /\ (Len(last) = 1 => Len(pairs \o last) = BlockRuns + 1)
    <3>1. Len(pairs) = BlockRuns
      BY <1>5
    <3>2. Len(pairs \o last) = BlockRuns + Len(last)
      BY <2>1, <3>1, Zenon
    <3>3. BlockRuns + 0 = BlockRuns
      BY <2>2
    <3> QED
      BY <3>2, <3>3, Zenon
  <2> QED
    BY <1>5, <2>3, Zenon
<1>7. /\ Coverage!BlockPasses(c) /\ ~Coverage!PublicationStop(c)
      /\ BlockRuns + 1 > BlockRuns /\ BlockRuns # BlockRuns + 1 /\ n # n - 1
  BY <1>2, ExaminedNumbers DEF Coverage!BlockPasses, Coverage!PublicationStop
<1>8. CASE Tries(c) = n - 1
  <2>1. s \in {"VALIDATION-STOP", "RESOURCE-BUDGET-STOP"} /\ s # Coverage!PRODUCT
    BY <1>7, <1>8 DEF Published, Coverage!PRODUCT
  <2> HIDE DEF pairs, last, n, b
  <2> QED
    BY <1>1, <1>2, <1>4, <1>6, <1>7, <1>8, <2>1 DEF Coverage!ProductVerifies, pairs, last
<1>9. CASE Tries(c) = n
  <2>1. Coverage!ConsumerVerifies(c)
    <3>1. last[1] = attempts[c][n]
      BY <1>5, <1>9
    <3>2. CASE consumed[c] = None
      <4>1. attempts[c][n].status # "measured" /\ s # Coverage!PRODUCT
        <5>1. None \notin Coverage!Ends
          BY DEF CoverBounds, Coverage!CoverageStudyAssumption
        <5> QED
          BY <1>7, <1>9, <3>2, <5>1 DEF Published
      <4> QED
        BY <3>1, <3>2, <4>1 DEF Coverage!ConsumerVerifies
    <3>3. CASE consumed[c] # None
      <4>1. /\ attempts[c][n].status = consumed[c].status /\ attempts[c][n].mid = consumed[c].mid
            /\ s = Coverage!PRODUCT => consumed[c].status = "measured"
        BY <1>7, <1>9, <3>3 DEF Published
      <4> QED
        BY <3>1, <3>3, <4>1 DEF Coverage!ConsumerVerifies
    <3> QED
      BY <3>2, <3>3
  <2> HIDE DEF pairs, last, n, b
  <2> QED
    BY <1>1, <1>2, <1>4, <1>6, <1>7, <1>9, <2>1 DEF Coverage!ProductVerifies, pairs, last
<1> QED
  BY <1>2, <1>8, <1>9

LEMMA SoundCaseVerifies ==
  ASSUME CoverInv, CoverBounds, NEW c \in Coverage!All, CaseIsSound(c), ~Coverage!LacksStatistics(c),
         \A k \in 1..Tries(c) : Coverage!AttemptVerifies(attempts[c][k])
  PROVE  Coverage!CaseVerifies(c)
<1>1. Tries(c) <= Coverage!CaseBudget
  <2>1. Coverage!UtilityRuns \in Nat /\ BlockRuns \in Nat /\ Coverage!CaseBudget = Coverage!UtilityRuns + BlockRuns + 1
    BY CoverNumbers
  <2>2. SearchStopped(c) => Tries(c) <= Coverage!CaseBudget
    BY <2>1 DEF SearchStopped
  <2>3. SearchEnded(c) \/ NotPaired(c) \/ PairsEnded(c) => Tries(c) <= Coverage!CaseBudget
    BY <2>1 DEF SearchEnded, NotPaired, PairsEnded
  <2>4. PairsStopped(c) => Tries(c) <= Coverage!CaseBudget
    BY <2>1 DEF PairsStopped
  <2>5. Published(c) => Tries(c) <= Coverage!CaseBudget
    BY <2>1 DEF Published
  <2> QED
    BY <2>2, <2>3, <2>4, <2>5 DEF CaseIsSound
<1>2. Examined(c)
  <2>1. attempts[c] \in Seq(Coverage!Entries) /\ rates[c] \in VerdictRecords /\ Placed(c)
    BY DEF CoverInv, CoverIsTyped, AttemptsArePlaced
  <2>2. \A k \in 1..Tries(c) : attempts[c][k].phase = PhaseAt(k)
    BY <2>1 DEF Placed
  <2>3. PhasesAre(c)
    BY <1>1, <2>1, <2>2, PhasesArePicked
  <2> QED
    BY <2>1, <2>3 DEF Examined, CaseIsSound
<1>3. CASE SearchStopped(c)
  BY <1>2, <1>3, StoppedSearchVerifies
<1>4. CASE SearchEnded(c)
  <2>1. Tries(c) = Coverage!UtilityRuns /\ Tries(c) >= Coverage!UtilityRuns
    BY <1>4, CoverNumbers DEF SearchEnded
  <2> QED
    BY <1>1, <1>2, <1>4, <2>1, CompleteSearchVerifies DEF SearchEnded
<1>5. CASE /\ Won(c)
           /\ \/ NotPaired(c)
              \/ PairsFrozen(c) /\ (PairsStopped(c) \/ PairsEnded(c) \/ Published(c))
  <2>1. Coverage!ProductVerifies(c)
    BY <1>2, <1>5, NothingIsPaired, StoppedPairsVerify, EndedPairsVerify, PublishedVerifies
  <2>2. Tries(c) >= Coverage!UtilityRuns
    <3>1. /\ Coverage!UtilityRuns \in Nat /\ BlockRuns \in Nat
          /\ Coverage!CaseBudget = Coverage!UtilityRuns + BlockRuns + 1
      BY CoverNumbers
    <3>2. NotPaired(c) \/ PairsEnded(c) => Tries(c) >= Coverage!UtilityRuns
      BY <3>1 DEF NotPaired, PairsEnded
    <3>3. PairsStopped(c) => Tries(c) >= Coverage!UtilityRuns
      BY <3>1 DEF PairsStopped
    <3>4. Published(c) => Tries(c) >= Coverage!UtilityRuns
      BY <3>1 DEF Published
    <3> QED
      BY <1>5, <3>2, <3>3, <3>4
  <2>3. /\ reports[c].rows = Coverage!UtilityRuns /\ reports[c].tail = <<>> /\ ~Varies(c)
        /\ reports[c].stats = rates[c].utility /\ reports[c].stats = Coverage!GAIN
        /\ RowsAreValid(c, Coverage!UtilityRuns)
    BY <1>5 DEF Won
  <2> QED
    BY <1>1, <1>2, <2>1, <2>2, <2>3, CompleteSearchVerifies
<1> QED
  BY <1>3, <1>4, <1>5, Zenon DEF CaseIsSound

-----------------------------------------------------------------------------
(* What the files say of a case stays as long as the files do *)

FilesStay(i) ==
    /\ attempts'[i] = attempts[i] /\ reports'[i] = reports[i] /\ rates'[i] = rates[i]
    /\ products'[i] = products[i] /\ frozenOn'[i] = frozenOn[i] /\ consumed'[i] = consumed[i]
    /\ i \in selected' <=> i \in selected
    /\ i \in published' <=> i \in published

LEMMA PhaseStays == ASSUME NEW i, NEW p, attempts'[i] = attempts[i] PROVE Coverage!Of(i, p)' = Coverage!Of(i, p)
<1>1. Coverage!Made(i, p)' = Coverage!Made(i, p)
  BY DEF Coverage!Made
<1> QED
  BY <1>1 DEF Coverage!Of

LEMMA VerificationStays ==
  ASSUME NEW i, FilesStay(i) PROVE Coverage!CaseVerifies(i)' <=> Coverage!CaseVerifies(i)
<1>1. /\ attempts'[i] = attempts[i] /\ reports'[i] = reports[i] /\ rates'[i] = rates[i]
      /\ products'[i] = products[i] /\ frozenOn'[i] = frozenOn[i] /\ consumed'[i] = consumed[i]
      /\ i \in selected' <=> i \in selected
      /\ i \in published' <=> i \in published
  BY DEF FilesStay
<1>2. /\ Coverage!Of(i, "raw")' = Coverage!Of(i, "raw") /\ Coverage!Of(i, "product")' = Coverage!Of(i, "product")
      /\ Coverage!Of(i, "consumer")' = Coverage!Of(i, "consumer")
  BY <1>1, PhaseStays
<1>3. Coverage!BlockVerifies(i)' <=> Coverage!BlockVerifies(i)
  BY <1>1, <1>2 DEF Coverage!BlockVerifies, Coverage!PublicationStop
<1>4. Coverage!ConsumerVerifies(i)' <=> Coverage!ConsumerVerifies(i)
  BY <1>1, <1>2 DEF Coverage!ConsumerVerifies
<1>5. /\ Coverage!BlockPasses(i)' <=> Coverage!BlockPasses(i)
      /\ Coverage!PublicationStop(i)' <=> Coverage!PublicationStop(i)
  BY <1>1 DEF Coverage!BlockPasses, Coverage!PublicationStop
<1>6. Coverage!ProductVerifies(i)' <=> Coverage!ProductVerifies(i)
  BY <1>1, <1>2, <1>3, <1>4, <1>5 DEF Coverage!ProductVerifies
<1> QED
  BY <1>1, <1>2, <1>6 DEF Coverage!CaseVerifies

LEMMA ReconstructionStays ==
  ASSUME NEW i, FilesStay(i), NEW b
  PROVE  /\ Coverage!Reconstructed(i, b)' = Coverage!Reconstructed(i, b)
         /\ Coverage!Started(i)' = Coverage!Started(i)
<1>1. attempts'[i] = attempts[i] /\ reports'[i] = reports[i]
  BY DEF FilesStay
<1>2. Coverage!Started(i)' = Coverage!Started(i)
  BY <1>1 DEF Coverage!Started
<1>3. Coverage!Measured(i)' = Coverage!Measured(i)
  BY <1>1 DEF Coverage!Measured
<1> QED
  BY <1>1, <1>2, <1>3 DEF Coverage!Reconstructed

LEMMA CaseStaysTold ==
  ASSUME NEW i, FilesStay(i), results'[i] = results[i]
  PROVE  /\ Told(i) => Told(i)'
         /\ Untouched(i) => Untouched(i)'
<1>1. ASSUME Told(i) PROVE Told(i)'
  <2> PICK b : b = results[i].inBudget
    OBVIOUS
  <2>1. Coverage!Reconstructed(i, b)' = Coverage!Reconstructed(i, b)
    BY ReconstructionStays
  <2>2. results'[i] = Coverage!Reconstructed(i, b)'
    BY <1>1, <2>1 DEF Told
  <2> QED
    BY <1>1, <2>2, VerificationStays DEF Told
<1>2. Untouched(i) => Untouched(i)'
  BY DEF Untouched, FilesStay, Tries
<1> QED
  BY <1>1, <1>2

(* A step of the case that runs. *)
FilesRemain ==
    /\ case' = case /\ results' = results /\ verdict' = verdict
    /\ DOMAIN reports' = Coverage!All /\ DOMAIN products' = Coverage!All /\ DOMAIN consumed' = Coverage!All
    /\ selected' \subseteq Coverage!All
    /\ \A i \in Coverage!All : i # case => FilesStay(i)
    /\ undisturbed' \in BOOLEAN /\ (undisturbed' => undisturbed)

LEMMA AuditProceeds ==
  ASSUME CoverInv, AuditInv, stage \in Running, stage' \in Running \cup {"validate"}, FilesRemain,
         reports'[case] # None, reports'[case].status # "NOT-RUN",
         undisturbed' => \A k \in 1..Len(attempts'[case]) : Coverage!AttemptVerifies(attempts'[case][k]),
         stage' \in Running => FilesFollow' /\ LatestFollows',
         stage' = "validate" /\ undisturbed' => CaseIsSound(case)'
  PROVE  AuditInv'
<1>1. /\ case \in Coverage!All /\ stage \notin Ending /\ stage' \notin Ending /\ Coverage!All' = Coverage!All
      /\ stage \notin {"capture", "load", "next", "open"} /\ stage' \notin {"capture", "load", "next", "open"}
      /\ case' = case /\ results' = results /\ verdict' = verdict
  BY DEF CoverInv, CoverIsTyped, FilesRemain, Running, Attempting, Ending, Coverage!All
<1>2. \A i \in Coverage!All : i # case => FilesStay(i) /\ results'[i] = results[i]
  BY <1>1 DEF FilesRemain
<1>3. EntriesVerify'
  <2>1. ASSUME undisturbed', NEW i \in Coverage!All, NEW k \in 1..Len(attempts'[i])
        PROVE  Coverage!AttemptVerifies(attempts'[i][k])
    <3>1. CASE i = case
      BY <2>1, <3>1
    <3>2. CASE i # case
      <4>1. attempts'[i] = attempts[i] /\ undisturbed
        BY <1>2, <2>1, <3>2 DEF FilesStay, FilesRemain
      <4> QED
        BY <2>1, <4>1 DEF AuditInv, EntriesVerify, Tries
    <3> QED
      BY <3>1, <3>2
  <2>2. ASSUME NEW e PROVE Coverage!AttemptVerifies(e)' <=> Coverage!AttemptVerifies(e)
    BY DEF Coverage!AttemptVerifies, Coverage!Valid
  <2> QED
    BY <1>1, <2>1 DEF EntriesVerify, Tries
<1>4. CasesAreTold'
  <2>1. \A i \in Coverage!All : i < case => i # case
    BY <1>1 DEF Coverage!All
  <2>2. \A i \in Coverage!All : i > case => i # case
    BY <1>1 DEF Coverage!All
  <2>3. \A i \in Coverage!All : i < case => reports'[i] # None /\ Told(i)' /\ Coverage!Continues(results'[i])
    BY <1>1, <1>2, <2>1, CaseStaysTold DEF FilesStay, AuditInv, CasesAreTold
  <2>4. \A i \in Coverage!All : i > case => Untouched(i)'
    BY <1>2, <2>2, CaseStaysTold DEF AuditInv, CasesAreTold
  <2>5. \A i \in Coverage!All : reports'[i] # None => reports'[i].status # "NOT-RUN"
    BY <1>2 DEF FilesStay, AuditInv, CasesAreTold
  <2>6. results'[case] = Coverage!NotRun
    BY <1>1 DEF AuditInv, CasesAreTold
  <2> QED
    BY <1>1, <2>3, <2>4, <2>5, <2>6 DEF CasesAreTold, FilesRemain, Coverage!Continues
<1>5. EndIsTold'
  <2>1. verdict \in {"PREFLIGHT", "RUNNING"}
    BY <1>1 DEF AuditInv, EndIsTold
  <2> QED
    BY <1>1, <2>1 DEF EndIsTold
<1>6. Coverage!CountsAreTrue'
  BY <1>1 DEF Coverage!CountsAreTrue, Coverage!Done, Ending
<1> QED
  BY <1>1, <1>3, <1>4, <1>5, <1>6 DEF AuditInv, FilesRemain

-----------------------------------------------------------------------------
(* A case that fails leaves files that are sound *)

CaseStatuses == {"RUNNING", Coverage!PRODUCT} \cup Coverage!StatisticalStops \cup Coverage!Failures
PairStatuses == {"RUNNING", "PASS-STOCK-FALLBACK"} \cup Coverage!PairVerdicts \cup Coverage!Failures

LEMMA RunningFiles ==
  ASSUME CoverInv, CoverBounds, AuditInv, stage \in Running
  PROVE  /\ case \in Coverage!All /\ FilesFollow /\ LatestFollows /\ ~Varies(case)
         /\ DOMAIN reports = Coverage!All /\ DOMAIN products = Coverage!All /\ DOMAIN consumed = Coverage!All
         /\ section \in {"raw", "product", "consumer"} /\ made \in Nat /\ made <= Coverage!Runs(section)
         /\ RunsBefore(section) + made \in Nat
         /\ attempts \in [Coverage!All -> Seq(Coverage!Entries)]
         /\ consumed[case] = None
<1>1. RunsBefore(section) + made \in Nat
  BY CoverNumbers DEF CoverInv, CoverIsTyped, RunsBefore
<1> QED
  BY <1>1 DEF CoverInv, CoverIsTyped, RowsAreAttempts, AuditInv, CasesAreTold, FilesFollow

LEMMA PickedIsNat == ASSUME CoverBounds PROVE Coverage!Picked \in Nat /\ Coverage!Picked <= Coverage!UtilityRuns
<1>1. {ReferenceRuns, ScreeningRuns, ConfirmationRuns} \subseteq Nat
  BY DEF CoverBounds, Coverage!CoverageStudyAssumption
<1> QED
  BY <1>1 DEF Coverage!Picked, Coverage!UtilityRuns

LEMMA ReportIsFile ==
  ASSUME CoverBounds, NEW n \in Nat, NEW stats \in {None, Coverage!GAIN}
  PROVE  /\ ReportOf(n, stats) \in Coverage!CaseFiles
         /\ ReportOf(n, stats).status = "RUNNING" /\ ReportOf(n, stats).rows = n /\ ReportOf(n, stats).tail = <<>>
         /\ ReportOf(n, stats).picked = (n >= Coverage!Picked) /\ ReportOf(n, stats).stats = stats
<1> DEFINE f == ReportOf(n, stats)
<1>1. <<>> \in Seq(Coverage!Ends)
  OBVIOUS
<1>2. f = [status |-> "RUNNING", rows |-> n, tail |-> <<>>, picked |-> f.picked, stats |-> stats]
  BY DEF ReportOf
<1>3. f.picked \in BOOLEAN
  BY SMT DEF ReportOf
<1>4. f.picked = (n >= Coverage!Picked)
  BY Zenon DEF ReportOf
<1>5. f.status = "RUNNING" /\ f.rows = n /\ f.tail = <<>> /\ f.stats = stats
  BY DEF ReportOf
<1> HIDE DEF f
<1>6. f \in Coverage!CaseFiles
  <2>1. \A p \in BOOLEAN : [status |-> "RUNNING", rows |-> n, tail |-> <<>>, picked |-> p, stats |-> stats]
                              \in Coverage!CaseFiles
    BY <1>1 DEF Coverage!CaseFiles
  <2> QED
    BY <1>2, <1>3, <2>1
<1> QED
  BY <1>4, <1>5, <1>6 DEF f

LEMMA ReportIsEdited ==
  ASSUME CoverBounds, NEW f \in Coverage!CaseFiles, NEW s \in CaseStatuses, NEW tail \in Seq(Coverage!Ends),
         NEW stats \in Coverage!NoGain \cup {"VARIANCE-STOP", Coverage!GAIN, None}, NEW n \in Nat, NEW p \in BOOLEAN, NEW g,
         g = [f EXCEPT !.status = s, !.rows = n, !.tail = tail, !.picked = p, !.stats = stats]
  PROVE  /\ g \in Coverage!CaseFiles /\ g # None
         /\ g.status = s /\ g.tail = tail /\ g.rows = n /\ g.picked = p /\ g.stats = stats
<1>1. g \in Coverage!CaseFiles
  BY DEF Coverage!CaseFiles, CaseStatuses
<1>2. None \notin Coverage!CaseFiles
  BY DEF CoverBounds, Coverage!CoverageStudyAssumption
<1>3. g.status = s /\ g.tail = tail /\ g.rows = n /\ g.picked = p /\ g.stats = stats
  BY DEF Coverage!CaseFiles, CaseStatuses
<1> QED
  BY <1>1, <1>2, <1>3

LEMMA PairsAreFile ==
  ASSUME CoverBounds, NEW s \in PairStatuses, NEW n \in Nat, NEW tail \in Seq(Coverage!Ends)
  PROVE  /\ Coverage!Unevaluated(s, n, tail) \in Coverage!PairFiles
         /\ \A e \in BOOLEAN : [status |-> s, rows |-> n, tail |-> tail, evaluated |-> e] \in Coverage!PairFiles
         /\ Coverage!Unevaluated(s, n, tail) # None
<1>1. \A e \in BOOLEAN : [status |-> s, rows |-> n, tail |-> tail, evaluated |-> e] \in Coverage!PairFiles
  BY DEF Coverage!PairFiles, PairStatuses
<1>2. Coverage!Unevaluated(s, n, tail) \in Coverage!PairFiles
  BY <1>1 DEF Coverage!Unevaluated
<1> QED
  BY <1>1, <1>2 DEF CoverBounds, Coverage!CoverageStudyAssumption

LEMMA PairsOfAreFile ==
  ASSUME CoverBounds, NEW s \in PairStatuses, NEW n \in Nat, NEW e \in BOOLEAN
  PROVE  PairsOf(s, n, e) \in Coverage!PairFiles /\ PairsOf(s, n, e) # None
<1>1. <<>> \in Seq(Coverage!Ends)
  OBVIOUS
<1>2. PairsOf(s, n, e) \in Coverage!PairFiles
  BY <1>1, PairsAreFile DEF PairsOf
<1> QED
  BY <1>2 DEF CoverBounds, Coverage!CoverageStudyAssumption

(* The attempts behind the rows stay valid. *)
AttemptsRemain == AttemptsStay /\ (stage \notin Attempting => attempts' = attempts)

LEMMA RowsStayValid ==
  ASSUME CoverInv, CoverBounds, stage \in Running, AttemptsRemain, NEW n, n = RunsBefore(section) + made
  PROVE  /\ n \in Nat /\ Len(attempts'[case]) = IF stage \in Attempting THEN n + 1 ELSE n
         /\ \A k \in 1..n : Coverage!Valid(attempts'[case][k])
<1>1. /\ case \in Coverage!All /\ n \in Nat /\ Len(attempts'[case]) = Tries(case)
      /\ Tries(case) = IF stage \in Attempting THEN n + 1 ELSE n
  BY CoverNumbers DEF CoverInv, CoverIsTyped, RunsBefore, RowsAreAttempts, AttemptsRemain, AttemptsStay
<1>2. CASE stage \in Attempting
  <2>1. \A k \in 1..n : k \in 1..Tries(case) /\ k # Tries(case)
    BY <1>1, <1>2
  <2> QED
    BY <1>1, <1>2, <2>1 DEF AttemptsRemain, AttemptsStay
<1>3. CASE stage \notin Attempting
  <2>1. AllValid(case) /\ attempts' = attempts
    BY <1>1, <1>3, QuietIsValid DEF AttemptsRemain
  <2> QED
    BY <1>1, <1>3, <2>1 DEF AllValid
<1> QED
  BY <1>1, <1>2, <1>3

(* The outcome that made no row is that of the last attempt. *)
TailFollows(tail) ==
    \/ tail = <<>>
    \/ stage = "collect" /\ tail = <<returnedRun>> /\ attempts' = attempts

LEMMA TailIsLatest ==
  ASSUME CoverInv, CoverBounds, AuditInv, stage \in Running, AttemptsRemain, NEW tail, TailFollows(tail),
         NEW n, n = RunsBefore(section) + made, tail # <<>>
  PROVE  /\ Len(attempts'[case]) = n + 1 /\ tail \in Seq(Coverage!Ends) /\ Len(tail) = 1
         /\ tail[1].status = attempts'[case][n + 1].status /\ tail[1].mid = attempts'[case][n + 1].mid
         /\ tail[1] = returnedRun /\ stage = "collect"
<1>1. stage = "collect" /\ tail = <<returnedRun>> /\ attempts' = attempts
  BY DEF TailFollows
<1>2. Len(attempts'[case]) = n + 1
  BY <1>1, RowsStayValid DEF Attempting
<1>3. /\ returnedRun \in Coverage!Ends /\ Coverage!Latest.status = returnedRun.status
      /\ Coverage!Latest.mid = returnedRun.mid
  BY <1>1, RunningFiles DEF LatestFollows
<1>4. Coverage!Latest = attempts'[case][n + 1]
  BY <1>1, <1>2 DEF Coverage!Latest
<1> QED
  BY <1>1, <1>2, <1>3, <1>4

LEMMA TailIsOutcomes ==
  ASSUME CoverInv, CoverBounds, AuditInv, stage \in Running, NEW tail, TailFollows(tail)
  PROVE  tail \in Seq(Coverage!Ends)
<1>1. <<>> \in Seq(Coverage!Ends)
  OBVIOUS
<1>2. ASSUME stage = "collect" PROVE <<returnedRun>> \in Seq(Coverage!Ends)
  <2>1. returnedRun \in Coverage!Ends
    BY <1>2, RunningFiles DEF LatestFollows
  <2> QED
    BY <2>1
<1> QED
  BY <1>1, <1>2 DEF TailFollows

(* The report of a case whose status and last outcome are written. *)
Rewritten(c, s, tail) == reports'[c] = [reports[c] EXCEPT !.status = s, !.tail = tail]
ReportEnds(c, s, tail) ==
    /\ reports'[c] # None /\ reports'[c].status # "NOT-RUN"
    /\ reports'[c].status = s /\ reports'[c].tail = tail
    /\ reports'[c].rows = reports[c].rows /\ reports'[c].picked = reports[c].picked
    /\ reports'[c].stats = reports[c].stats
    /\ reports[c].picked = (reports[c].rows >= Coverage!Picked) /\ reports[c].tail = <<>>
    /\ reports[c].rows = (IF section = "raw" THEN made ELSE Coverage!UtilityRuns)
    /\ reports[c].stats = (IF Gaining THEN Coverage!GAIN ELSE None)
LEMMA ReportIsEnded ==
  ASSUME CoverInv, CoverBounds, AuditInv, stage \in Running, NEW s \in CaseStatuses,
         NEW tail \in Seq(Coverage!Ends), NEW c, c = case, Rewritten(c, s, tail)
  PROVE  ReportEnds(c, s, tail)
<1> PICK n, stats : /\ n = (IF section = "raw" THEN made ELSE Coverage!UtilityRuns)
                    /\ stats = (IF Gaining THEN Coverage!GAIN ELSE None)
  OBVIOUS
<1>1. n \in Nat /\ stats \in {None, Coverage!GAIN} /\ reports[c] = ReportOf(n, stats)
  BY RunningFiles, CoverNumbers DEF FilesFollow
<1> DEFINE f == reports[c]
<1>2. /\ f \in Coverage!CaseFiles /\ f.rows = n /\ f.tail = <<>> /\ f.picked = (n >= Coverage!Picked)
      /\ f.stats = stats
  BY <1>1, ReportIsFile
<1> DEFINE g == reports'[c]
<1>3. g = [f EXCEPT !.status = s, !.tail = tail]
  BY DEF Rewritten
<1> HIDE DEF f, g, ReportEnds
<1>4. g \in Coverage!CaseFiles /\ None \notin Coverage!CaseFiles
  BY <1>2, <1>3 DEF Coverage!CaseFiles, CaseStatuses, CoverBounds, Coverage!CoverageStudyAssumption
<1>6. s # "NOT-RUN"
  BY DEF CaseStatuses, Coverage!StatisticalStops, Coverage!NoGain, Coverage!Failures, Coverage!PRODUCT
<1>5. g.status = s /\ g.tail = tail /\ g.rows = f.rows /\ g.picked = f.picked /\ g.stats = f.stats
  BY <1>2, <1>3 DEF Coverage!CaseFiles, CaseStatuses
<1> QED
  BY <1>2, <1>4, <1>5, <1>6 DEF f, g, ReportEnds

LEMMA SearchFails ==
  ASSUME CoverInv, CoverBounds, AuditInv, stage \in Running, section = "raw", stage # "freeze", AttemptsRemain,
         made < Coverage!UtilityRuns, rates' = rates, NEW c, c = case, NEW s \in Coverage!Failures, NEW tail, TailFollows(tail),
         Coverage!CaseEnds(s, tail)
  PROVE  /\ CaseIsSound(c)' /\ products' = products
         /\ reports'[c] # None /\ reports'[c].status # "NOT-RUN"
<1> PICK r : r = made
  OBVIOUS
<1>1. /\ c \in Coverage!All /\ frozenOn[c] = None /\ ~Varies(c) /\ ~Gaining
      /\ DOMAIN reports = Coverage!All /\ r \in Nat
  BY RunningFiles DEF FilesFollow, Gaining
<1>2. reports'[c] = [reports[c] EXCEPT !.status = s, !.tail = tail] /\ products' = products
  BY <1>1 DEF Coverage!CaseEnds
<1>3. s \in CaseStatuses /\ tail \in Seq(Coverage!Ends)
  BY TailIsOutcomes DEF CaseStatuses
<1> PICK f : f = reports'[c]
  OBVIOUS
<1>4. /\ f.status = s /\ f.tail = tail /\ f.rows = r /\ f.picked = (r >= Coverage!Picked) /\ f.stats = None
      /\ f # None /\ f.status # "NOT-RUN"
  <2>1. /\ f # None /\ f.status # "NOT-RUN" /\ f.status = s /\ f.tail = tail
        /\ f.rows = reports[c].rows /\ f.picked = reports[c].picked /\ f.stats = reports[c].stats
        /\ reports[c].picked = (reports[c].rows >= Coverage!Picked)
        /\ reports[c].rows = (IF section = "raw" THEN made ELSE Coverage!UtilityRuns)
        /\ reports[c].stats = (IF Gaining THEN Coverage!GAIN ELSE None)
    <3>1. Rewritten(c, s, tail)
      BY <1>2 DEF Rewritten
    <3> QED
      BY <1>3, <3>1, ReportIsEnded DEF ReportEnds
  <2> QED
    BY <1>1, <2>1
<1>5. /\ Len(attempts'[c]) = (IF stage \in Attempting THEN r + 1 ELSE r)
      /\ \A k \in 1..r : Coverage!Valid(attempts'[c][k])
      /\ tail # <<>> => /\ Len(attempts'[c]) = r + 1 /\ tail \in Seq(Coverage!Ends) /\ Len(tail) = 1
                        /\ tail[1].status = attempts'[c][r + 1].status /\ tail[1].mid = attempts'[c][r + 1].mid
  <2>1. RunsBefore(section) + made = r
    BY <1>1 DEF RunsBefore
  <2> QED
    BY <2>1, RowsStayValid, TailIsLatest
<1>6. Coverage!UtilityRuns \in Nat /\ r \in 0..(Coverage!UtilityRuns - 1) /\ 0 + r + 1 = r + 1
  BY <1>1, CoverNumbers
<1>7. TailIs(c, tail, 0, r)'
  BY <1>5, <1>6 DEF TailIs, Tries
<1>8. RowsAreValid(c, r)'
  BY <1>5 DEF RowsAreValid, Coverage!Valid
<1>9. SearchStopped(c)'
  <2>1. Len(attempts'[c]) \in {f.rows, f.rows + 1} /\ f.rows \in 0..(Coverage!UtilityRuns - 1)
    BY <1>4, <1>5, <1>6
  <2>2. TailIs(c, f.tail, 0, f.rows)' /\ RowsAreValid(c, f.rows)'
    BY <1>4, <1>7, <1>8
  <2>3. rates'[c].stable # FALSE
    BY <1>1 DEF Varies
  <2> QED
    BY <1>4, <2>1, <2>2, <2>3 DEF SearchStopped, Tries, Varies, Coverage!UtilityRuns, Coverage!Picked, Coverage!Failures
<1>10. CaseIsSound(c)'
  BY <1>4, <1>9 DEF CaseIsSound, Coverage!Picked
<1> QED
  BY <1>2, <1>4, <1>10

(* The product of a case that stops before its last row. *)
LEMMA PairsFail ==
  ASSUME CoverInv, CoverBounds, AuditInv, stage \in Running, section = "product", stage # "publish", AttemptsRemain,
         made < BlockRuns, rates' = rates, frozenOn' = frozenOn, selected' = selected, undisturbed, NEW c, c = case,
         NEW s \in Coverage!Failures, Rewritten(c, s, <<>>),
         NEW t \in {"RUNNING", "VALIDATION-STOP", "ENVIRONMENT-BLOCKED"}, NEW tail, TailFollows(tail),
         t = "ENVIRONMENT-BLOCKED" => tail # <<>> /\ returnedRun.status # "measured",
         products'[c] = Coverage!Unevaluated(t, made, tail)
  PROVE  CaseIsSound(c)' /\ ReportEnds(c, s, <<>>)
<1> PICK r, U : r = made /\ U = Coverage!UtilityRuns
  OBVIOUS
<1>1. /\ c \in Coverage!All /\ frozenOn[c] = FALSE /\ ~Varies(c) /\ Gaining /\ r \in Nat /\ c \in selected
      /\ rates[c].utility = Coverage!GAIN
  BY RunningFiles DEF FilesFollow, Gaining, CoverInv, RowsAreAttempts
<1>2. s \in CaseStatuses /\ <<>> \in Seq(Coverage!Ends)
  BY DEF CaseStatuses
<1>3. ReportEnds(c, s, <<>>)
  BY <1>2, ReportIsEnded
<1>4. /\ U \in Nat /\ BlockRuns \in Nat /\ r \in 0..(BlockRuns - 1) /\ RunsBefore(section) + made = U + r
      /\ U = Coverage!UtilityRuns' /\ U + r + 1 = (U + r) + 1
  BY <1>1, CoverNumbers DEF RunsBefore, Coverage!UtilityRuns, Coverage!Picked
<1>5. /\ Len(attempts'[c]) = (IF stage \in Attempting THEN U + r + 1 ELSE U + r)
      /\ \A k \in 1..(U + r) : Coverage!Valid(attempts'[c][k])
  BY <1>4, RowsStayValid
<1>6. tail # <<>> => /\ Len(attempts'[c]) = U + r + 1 /\ tail \in Seq(Coverage!Ends) /\ Len(tail) = 1
                     /\ tail[1].status = attempts'[c][U + r + 1].status /\ tail[1].mid = attempts'[c][U + r + 1].mid
                     /\ tail[1] = returnedRun
  BY <1>4, TailIsLatest
<1>7. TailIs(c, tail, U, r)'
  BY <1>6 DEF TailIs, Tries
<1>8. RowsAreValid(c, U + r)' /\ RowsAreValid(c, U)'
  <2>1. \A k \in 1..U : k \in 1..(U + r)
    BY <1>4
  <2>2. \A k \in 1..U : Coverage!Valid(attempts'[c][k])
    BY <1>5, <2>1
  <2>3. RowsAreValid(c, U + r)'
    BY <1>5 DEF RowsAreValid, Coverage!Valid
  <2>4. RowsAreValid(c, U)'
    BY <2>2 DEF RowsAreValid, Coverage!Valid
  <2> QED
    BY <2>3, <2>4
<1> PICK b : b = products'[c]
  OBVIOUS
<1>9. b.status = t /\ b.rows = r /\ b.tail = tail /\ b \in Coverage!PairFiles
  <2>1. tail \in Seq(Coverage!Ends)
    BY TailIsOutcomes
  <2>2. t \in PairStatuses
    BY DEF PairStatuses, Coverage!Failures
  <2>3. b \in Coverage!PairFiles
    BY <1>1, <2>1, <2>2, PairsAreFile
  <2> QED
    BY <2>3 DEF Coverage!Unevaluated
<1>10. PairsFrozen(c)'
  BY <1>1, <1>9 DEF PairsFrozen, Coverage!PairFiles, Coverage!Ends, Coverage!PairVerdicts, Coverage!Failures
<1>11. PairsStopped(c)'
  <2>1. TailIs(c, b.tail, U, b.rows)' /\ RowsAreValid(c, U + b.rows)'
    BY <1>7, <1>8, <1>9
  <2>2. Len(attempts'[c]) \in {U + b.rows, U + b.rows + 1} /\ b.rows \in 0..(BlockRuns - 1)
    BY <1>4, <1>5, <1>9
  <2>3. b.status = "ENVIRONMENT-BLOCKED" => attempts'[c][U + b.rows + 1].status # "measured"
    BY <1>6, <1>9
  <2>4. reports'[c].status \in Coverage!Failures
    BY <1>3 DEF ReportEnds
  <2> QED
    BY <1>4, <1>9, <2>1, <2>2, <2>3, <2>4 DEF PairsStopped, Tries, Coverage!Failures
<1>12. Won(c)'
  <2>1. /\ reports'[c].rows = U /\ reports'[c].tail = <<>> /\ reports'[c].stats = Coverage!GAIN
        /\ rates'[c].stable # FALSE /\ rates'[c].utility = Coverage!GAIN
    BY <1>1, <1>3 DEF ReportEnds, Varies
  <2> QED
    BY <1>4, <1>8, <2>1 DEF Won, Varies, Coverage!GAIN
<1>13. reports'[c].picked = (reports'[c].rows >= Coverage!Picked)
  BY <1>3 DEF ReportEnds
<1> QED
  BY <1>3, <1>10, <1>11, <1>12, <1>13 DEF CaseIsSound, Coverage!Picked

(* A case that stops in its consumer, or after it. *)
LEMMA ConsumerEnds ==
  ASSUME CoverInv, CoverBounds, AuditInv, stage \in Running, section = "consumer", AttemptsRemain,
         rates' = rates, frozenOn' = frozenOn, selected' = selected, published' = published, products' = products,
         undisturbed, NEW c, c = case,
         NEW s \in Coverage!Failures \cup {Coverage!PRODUCT}, Rewritten(c, s, <<>>), made < Coverage!Runs(section),
         IF stage \in Attempting
         THEN \/ /\ consumed'[c] = None /\ s # Coverage!PRODUCT
                 /\ attempts'[c][Len(attempts'[c])].status # "measured"
              \/ /\ stage = "collect" /\ consumed'[c] = returnedRun /\ attempts' = attempts
                 /\ s = Coverage!PRODUCT => returnedRun.status = "measured"
         ELSE s \in {"VALIDATION-STOP", "RESOURCE-BUDGET-STOP"}
  PROVE  CaseIsSound(c)' /\ ReportEnds(c, s, <<>>)
<1> PICK n, U : n = Coverage!CaseBudget /\ U = Coverage!UtilityRuns
  OBVIOUS
<1>1. /\ c \in Coverage!All /\ frozenOn[c] = FALSE /\ ~Varies(c) /\ Gaining /\ c \in selected
      /\ rates[c].utility = Coverage!GAIN /\ rates[c].product = "PASS-MEASUREMENT" /\ c \in published
      /\ products[c] = PairsOf("PASS-STOCK-FALLBACK", BlockRuns, TRUE)
  BY RunningFiles DEF FilesFollow, Gaining, CoverInv, RowsAreAttempts
<1>2. s \in CaseStatuses /\ <<>> \in Seq(Coverage!Ends) /\ s # "PRODUCT-VALIDATION-STOP"
  BY DEF CaseStatuses, Coverage!Failures, Coverage!PRODUCT
<1>3. ReportEnds(c, s, <<>>)
  BY <1>2, ReportIsEnded
<1>4. /\ U \in Nat /\ BlockRuns \in Nat /\ n = U + BlockRuns + 1 /\ RunsBefore(section) + made = n - 1 /\ made = 0
      /\ U = Coverage!UtilityRuns' /\ n = Coverage!CaseBudget' /\ (n - 1) + 1 = n
  <2>1. made \in Nat /\ Coverage!Runs(section) = 1
    BY RunningFiles DEF Coverage!Runs
  <2> QED
    BY <2>1, CoverNumbers DEF RunsBefore, Coverage!UtilityRuns, Coverage!Picked, Coverage!CaseBudget
<1>5. /\ Len(attempts'[c]) = (IF stage \in Attempting THEN n ELSE n - 1)
      /\ \A k \in 1..(n - 1) : Coverage!Valid(attempts'[c][k])
  BY <1>4, RowsStayValid
<1>6. RowsAreValid(c, n - 1)' /\ RowsAreValid(c, U)'
  BY <1>4, <1>5 DEF RowsAreValid, Coverage!Valid
<1>7. PairsFrozen(c)'
  <2>1. PairsOf("PASS-STOCK-FALLBACK", BlockRuns, TRUE) \in Coverage!PairFiles
    BY <1>2, <1>4, PairsOfAreFile DEF PairStatuses
  <2> QED
    BY <1>1, <2>1 DEF PairsFrozen, Coverage!PairFiles, Coverage!Ends, Coverage!PairVerdicts, Coverage!Failures
<1>8. Published(c)'
  <2>1. /\ products'[c] = PairsOf("PASS-STOCK-FALLBACK", BlockRuns, TRUE) /\ rates'[c].product = "PASS-MEASUREMENT"
        /\ c \in published' /\ reports'[c].status = s
    BY <1>1, <1>3 DEF ReportEnds
  <2>2. CASE stage \notin Attempting
    <3>1. Len(attempts'[c]) = n - 1 /\ s \in {"VALIDATION-STOP", "RESOURCE-BUDGET-STOP"}
      BY <1>5, <2>2
    <3> QED
      BY <1>2, <1>4, <1>6, <2>1, <3>1 DEF Published, Tries, PairsOf
  <2>3. CASE stage \in Attempting /\ consumed'[c] = None /\ s # Coverage!PRODUCT /\ attempts'[c][Len(attempts'[c])].status # "measured"
    <3>1. Len(attempts'[c]) = n /\ attempts'[c][n].status # "measured"
      BY <1>5, <2>3
    <3> QED
      BY <1>2, <1>4, <1>6, <2>1, <2>3, <3>1 DEF Published, Tries, PairsOf, Coverage!PRODUCT
  <2>4. CASE /\ stage = "collect" /\ consumed'[c] = returnedRun /\ attempts' = attempts
             /\ s = Coverage!PRODUCT => returnedRun.status = "measured"
    <3>1. Len(attempts'[c]) = n
      BY <1>5, <2>4 DEF Attempting
    <3>2. /\ returnedRun \in Coverage!Ends /\ Coverage!Latest.status = returnedRun.status
          /\ Coverage!Latest.mid = returnedRun.mid /\ Coverage!Latest = attempts'[c][n]
      BY <2>4, <3>1, RunningFiles DEF LatestFollows, Coverage!Latest
    <3> QED
      BY <1>2, <1>4, <1>6, <2>1, <2>4, <3>1, <3>2 DEF Published, Tries, PairsOf, Coverage!PRODUCT, Coverage!Ends
  <2> QED
    BY <2>2, <2>3, <2>4
<1>9. Won(c)'
  <2>1. /\ reports'[c].rows = U /\ reports'[c].tail = <<>> /\ reports'[c].stats = Coverage!GAIN
        /\ rates'[c].stable # FALSE /\ rates'[c].utility = Coverage!GAIN
    BY <1>1, <1>3 DEF ReportEnds, Varies
  <2> QED
    BY <1>4, <1>6, <2>1 DEF Won, Varies, Coverage!GAIN
<1>10. reports'[c].picked = (reports'[c].rows >= Coverage!Picked)
  BY <1>3 DEF ReportEnds
<1> QED
  BY <1>3, <1>7, <1>8, <1>9, <1>10 DEF CaseIsSound, Coverage!Picked

(* The files after a failure, by the function that wrote them. *)
LEMMA CaseEndsSo ==
  ASSUME CoverInv, CoverBounds, AuditInv, stage \in Running, NEW c, c = case, NEW s, NEW tail,
         Coverage!CaseEnds(s, tail)
  PROVE  /\ stage' = "validate" /\ verdict' = verdict /\ DOMAIN reports' = Coverage!All /\ DOMAIN products' = Coverage!All
         /\ \A i \in Coverage!All : i # c => reports'[i] = reports[i] /\ products'[i] = products[i]
         /\ Rewritten(c, s, tail)
         /\ products'[c] = IF frozenOn[c] # None /\ products[c] = None
                           THEN Coverage!Unevaluated("RUNNING", 0, <<>>) ELSE products[c]
<1>1. c \in Coverage!All /\ DOMAIN reports = Coverage!All /\ DOMAIN products = Coverage!All
  BY RunningFiles
<1>2. stage' = "validate" /\ verdict' = verdict
  BY DEF Coverage!CaseEnds, Coverage!Goto
<1>3. /\ DOMAIN reports' = Coverage!All /\ (\A i \in Coverage!All : i # c => reports'[i] = reports[i])
      /\ Rewritten(c, s, tail)
  BY <1>1 DEF Coverage!CaseEnds, Rewritten
<1>4. /\ DOMAIN products' = Coverage!All /\ (\A i \in Coverage!All : i # c => products'[i] = products[i])
      /\ products'[c] = IF frozenOn[c] # None /\ products[c] = None
                        THEN Coverage!Unevaluated("RUNNING", 0, <<>>) ELSE products[c]
  BY <1>1 DEF Coverage!CaseEnds
<1> QED
  BY <1>2, <1>3, <1>4

LEMMA StatusIsRewritten ==
  ASSUME CoverInv, CoverBounds, AuditInv, stage \in Running, NEW c, c = case, NEW s,
         reports' = [reports EXCEPT ![case].status = s]
  PROVE  /\ Rewritten(c, s, <<>>) /\ reports[c].tail = <<>> /\ DOMAIN reports' = Coverage!All
         /\ \A i \in Coverage!All : i # c => reports'[i] = reports[i]
<1>1. c \in Coverage!All /\ DOMAIN reports = Coverage!All
  BY RunningFiles
<1> PICK n, stats : /\ n = (IF section = "raw" THEN made ELSE Coverage!UtilityRuns)
                    /\ stats = (IF Gaining THEN Coverage!GAIN ELSE None)
  OBVIOUS
<1>2. n \in Nat /\ stats \in {None, Coverage!GAIN} /\ reports[c] = ReportOf(n, stats)
  BY RunningFiles, CoverNumbers DEF FilesFollow
<1> PICK f : f = reports[c]
  OBVIOUS
<1>3. f \in Coverage!CaseFiles /\ f.tail = <<>>
  BY <1>2, ReportIsFile
<1>4. [f EXCEPT !.status = s] = [f EXCEPT !.status = s, !.tail = <<>>]
  BY <1>3 DEF Coverage!CaseFiles
<1>5. reports'[c] = [f EXCEPT !.status = s]
  BY <1>1
<1> QED
  BY <1>1, <1>3, <1>4, <1>5 DEF Rewritten

LEMMA ProductEndsSo ==
  ASSUME CoverInv, CoverBounds, AuditInv, stage \in Running, NEW c, c = case, NEW b, Coverage!ProductEnds(b)
  PROVE  /\ stage' = "validate" /\ verdict' = verdict /\ DOMAIN reports' = Coverage!All /\ DOMAIN products' = Coverage!All
         /\ \A i \in Coverage!All : i # c => reports'[i] = reports[i] /\ products'[i] = products[i]
         /\ Rewritten(c, IF b.rows = BlockRuns /\ rates'[c].product # "PASS-MEASUREMENT"
                         THEN "PRODUCT-VALIDATION-STOP" ELSE b.status, <<>>)
         /\ products'[c] = b
<1> PICK s : s = IF b.rows = BlockRuns /\ rates'[c].product # "PASS-MEASUREMENT" THEN "PRODUCT-VALIDATION-STOP" ELSE b.status
  OBVIOUS
<1>1. c \in Coverage!All /\ DOMAIN products = Coverage!All
  BY RunningFiles
<1>2. /\ stage' = "validate" /\ verdict' = verdict /\ products' = [products EXCEPT ![case] = b]
      /\ reports' = [reports EXCEPT ![case].status = s]
  BY DEF Coverage!ProductEnds, Coverage!Goto
<1>3. /\ DOMAIN products' = Coverage!All /\ (\A i \in Coverage!All : i # c => products'[i] = products[i])
      /\ products'[c] = b
  BY <1>1, <1>2
<1>4. /\ Rewritten(c, s, <<>>) /\ DOMAIN reports' = Coverage!All
      /\ \A i \in Coverage!All : i # c => reports'[i] = reports[i]
  BY <1>2, StatusIsRewritten
<1> QED
  BY <1>2, <1>3, <1>4

(* A step that ends a case or goes on with it, and what it leaves alone. *)
CaseRests ==
    /\ AttemptsRemain /\ case' = case /\ results' = results /\ selected' = selected
    /\ published' = published /\ frozenOn' = frozenOn
    /\ DOMAIN consumed' = Coverage!All
    /\ \A i \in Coverage!All : i # case => rates'[i] = rates[i] /\ consumed'[i] = consumed[i]
    /\ undisturbed' \in BOOLEAN /\ (undisturbed' => undisturbed)
    /\ undisturbed' => \A k \in 1..Len(attempts'[case]) : Coverage!AttemptVerifies(attempts'[case][k])

LEMMA CaseIsOver ==
  ASSUME CoverInv, CoverBounds, AuditInv, stage \in Running, CaseRests, NEW c, c = case,
         stage' = "validate", verdict' = verdict, DOMAIN reports' = Coverage!All, DOMAIN products' = Coverage!All,
         \A i \in Coverage!All : i # c => reports'[i] = reports[i] /\ products'[i] = products[i],
         NEW s \in CaseStatuses, NEW tail \in Seq(Coverage!Ends), Rewritten(c, s, tail),
         undisturbed' => CaseIsSound(c)'
  PROVE  AuditInv'
<1>1. ReportEnds(c, s, tail)
  BY ReportIsEnded
<1>2. reports'[c] # None /\ reports'[c].status # "NOT-RUN"
  BY <1>1 DEF ReportEnds
<1>3. FilesRemain
  BY DEF FilesRemain, FilesStay, CaseRests, AttemptsRemain, AttemptsStay, AuditInv
<1>4. stage' \notin Running
  BY DEF Running, Attempting
<1>5. CaseIsSound(case)' <=> CaseIsSound(c)'
  BY DEF CaseRests
<1> QED
  BY <1>2, <1>3, <1>4, <1>5, AuditProceeds DEF CaseRests

LEMMA RaiseIsSound ==
  ASSUME CoverInv, CoverBounds, AuditInv, stage \in Running, stage \notin {"freeze", "publish"}, CaseRests,
         made < Coverage!Runs(section), rates' = rates, consumed' = consumed,
         NEW why, NEW tail, TailFollows(tail), Coverage!Raise(why, tail),
         undisturbed' /\ section = "consumer" /\ stage \in Attempting
            => attempts'[case][Len(attempts'[case])].status # "measured"
  PROVE  AuditInv'
<1> PICK c : c = case
  OBVIOUS
<1>1. /\ section \in {"raw", "product", "consumer"} /\ c \in Coverage!All /\ AttemptsRemain
      /\ frozenOn' = frozenOn /\ selected' = selected /\ published' = published /\ tail \in Seq(Coverage!Ends)
      /\ <<>> \in Seq(Coverage!Ends) /\ TailFollows(<<>>)
      /\ undisturbed' => undisturbed
  BY RunningFiles, TailIsOutcomes DEF CaseRests, TailFollows
<1>2. PICK s : s = IF why = "budget" THEN "RESOURCE-BUDGET-STOP" ELSE "VALIDATION-STOP"
  OBVIOUS
<1>3. s \in {"RESOURCE-BUDGET-STOP", "VALIDATION-STOP"} /\ s \in Coverage!Failures /\ s \in CaseStatuses
  BY <1>2 DEF Coverage!Failures, CaseStatuses
<1>4. CASE section = "raw"
  <2>1. Coverage!CaseEnds(s, tail)
    BY <1>2, <1>4 DEF Coverage!Raise
  <2>2. made < Coverage!UtilityRuns
    BY <1>4 DEF Coverage!Runs
  <2>3. CaseIsSound(c)'
    BY <1>1, <1>3, <1>4, <2>1, <2>2, SearchFails
  <2> QED
    BY <1>1, <1>3, <2>1, <2>3, CaseEndsSo, CaseIsOver
<1>5. CASE section = "product"
  <2>1. /\ made < BlockRuns /\ made # BlockRuns /\ made \in Nat /\ reports[c].tail = <<>>
        /\ products[c] = (IF made > 0 THEN Coverage!Unevaluated("RUNNING", made, <<>>) ELSE None)
        /\ frozenOn[c] # None
    <3>1. made < BlockRuns /\ made # BlockRuns /\ made \in Nat
      BY <1>5, RunningFiles, CoverNumbers DEF Coverage!Runs
    <3>2. products[c] = (IF made > 0 THEN Coverage!Unevaluated("RUNNING", made, <<>>) ELSE None)
      <4>1. FilesFollow /\ section # "consumer" /\ stage # "publish"
        BY <1>5, RunningFiles
      <4>2. CASE made > 0
        BY <1>5, <4>1, <4>2 DEF FilesFollow, PairsOf, Coverage!Unevaluated
      <4>3. CASE ~(made > 0)
        BY <1>5, <4>1, <4>3 DEF FilesFollow, PairsOf
      <4> QED
        BY <4>2, <4>3
    <3>3. reports[c].tail = <<>> /\ frozenOn[c] # None
      <4>1. reports[c] = ReportOf(Coverage!UtilityRuns, Coverage!GAIN) /\ frozenOn[c] \in BOOLEAN
        BY <1>5, RunningFiles DEF FilesFollow, Gaining
      <4>2. reports[c].tail = <<>>
        BY <4>1 DEF ReportOf
      <4>3. None \notin BOOLEAN
        BY DEF CoverBounds, Coverage!CoverageStudyAssumption
      <4> QED
        BY <4>1, <4>2, <4>3
    <3> QED
      BY <3>1, <3>2, <3>3
  <2>2. CASE why = "value"
    <3>1. Coverage!ProductEnds(Coverage!Unevaluated("VALIDATION-STOP", made, tail))
      BY <1>5, <2>2 DEF Coverage!Raise
    <3>2. /\ stage' = "validate" /\ verdict' = verdict /\ DOMAIN reports' = Coverage!All /\ DOMAIN products' = Coverage!All
          /\ \A i \in Coverage!All : i # c => reports'[i] = reports[i] /\ products'[i] = products[i]
          /\ Rewritten(c, "VALIDATION-STOP", <<>>)
          /\ products'[c] = Coverage!Unevaluated("VALIDATION-STOP", made, tail)
      BY <2>1, <3>1, ProductEndsSo DEF Coverage!Unevaluated
    <3>3. "VALIDATION-STOP" \in Coverage!Failures /\ "VALIDATION-STOP" \in CaseStatuses
      BY DEF Coverage!Failures, CaseStatuses
    <3>4. undisturbed' => CaseIsSound(c)'
      BY <1>1, <1>5, <2>1, <3>2, <3>3, PairsFail
    <3> QED
      BY <1>1, <3>2, <3>3, <3>4, CaseIsOver
  <2>3. CASE why # "value"
    <3>1. Coverage!CaseEnds(s, <<>>)
      BY <1>2, <1>5, <2>1, <2>3 DEF Coverage!Raise, Coverage!Tail0
    <3>2. /\ stage' = "validate" /\ verdict' = verdict /\ DOMAIN reports' = Coverage!All /\ DOMAIN products' = Coverage!All
          /\ \A i \in Coverage!All : i # c => reports'[i] = reports[i] /\ products'[i] = products[i]
          /\ Rewritten(c, s, <<>>)
          /\ products'[c] = IF frozenOn[c] # None /\ products[c] = None
                            THEN Coverage!Unevaluated("RUNNING", 0, <<>>) ELSE products[c]
      BY <3>1, CaseEndsSo
    <3>3. products'[c] = Coverage!Unevaluated("RUNNING", made, <<>>)
      <4>1. CASE made > 0
        <5>1. products[c] # None
          BY <1>1, <2>1, <4>1, PairsAreFile DEF PairStatuses
        <5> QED
          BY <2>1, <3>2, <4>1, <5>1
      <4>2. CASE made = 0
        BY <2>1, <3>2, <4>2
      <4> QED
        BY <2>1, <4>1, <4>2
    <3>4. undisturbed' => CaseIsSound(c)'
      BY <1>1, <1>3, <1>5, <2>1, <3>2, <3>3, PairsFail
    <3> QED
      BY <1>1, <1>3, <3>2, <3>4, CaseIsOver
  <2> QED
    BY <2>2, <2>3
<1>6. CASE section = "consumer"
  <2>1. reports[c].tail = <<>> /\ products[c] # None /\ consumed[c] = None
    <3>1. /\ reports[c] = ReportOf(Coverage!UtilityRuns, Coverage!GAIN)
          /\ products[c] = PairsOf("PASS-STOCK-FALLBACK", BlockRuns, TRUE) /\ consumed[c] = None
      BY <1>6, RunningFiles DEF FilesFollow, Gaining
    <3>2. reports[c].tail = <<>>
      BY <3>1 DEF ReportOf
    <3>3. BlockRuns \in Nat /\ "PASS-STOCK-FALLBACK" \in PairStatuses
      BY CoverNumbers DEF PairStatuses
    <3>4. products[c] # None
      BY <1>1, <3>1, <3>3, PairsOfAreFile
    <3> QED
      BY <3>1, <3>2, <3>4
  <2>2. Coverage!CaseEnds(s, <<>>)
    BY <1>2, <1>6, <2>1 DEF Coverage!Raise, Coverage!Tail0
  <2>3. /\ stage' = "validate" /\ verdict' = verdict /\ DOMAIN reports' = Coverage!All /\ DOMAIN products' = Coverage!All
        /\ \A i \in Coverage!All : i # c => reports'[i] = reports[i] /\ products'[i] = products[i]
        /\ Rewritten(c, s, <<>>)
        /\ products'[c] = products[c]
    BY <2>1, <2>2, CaseEndsSo
  <2>4. products' = products
    <3>1. frozenOn[case] # None /\ products[case] = None => FALSE
      BY <2>1
    <3> QED
      BY <2>2, <3>1 DEF Coverage!CaseEnds
  <2>5. s # Coverage!PRODUCT /\ consumed'[c] = None
    BY <1>3, <2>1 DEF Coverage!PRODUCT
  <2>6. undisturbed' => CaseIsSound(c)'
    <3> HAVE undisturbed'
    <3> QED
      BY <1>1, <1>3, <1>6, <2>3, <2>4, <2>5, ConsumerEnds
  <2> QED
    BY <1>1, <1>3, <2>3, <2>6, CaseIsOver
<1> QED
  BY <1>1, <1>4, <1>5, <1>6

-----------------------------------------------------------------------------
(* One native run leaves files that are sound *)

LEMMA EntriesStayVerified ==
  ASSUME CoverInv, AuditInv, stage \in Running, attempts' = attempts, undisturbed
  PROVE  \A k \in 1..Len(attempts'[case]) : Coverage!AttemptVerifies(attempts'[case][k])
  BY RunningFiles DEF AuditInv, EntriesVerify, Tries, CoverInv, CoverIsTyped

LEMMA EntryIsLogged ==
  ASSUME CoverInv, CoverBounds, AuditInv, stage \in Attempting, NEW e \in Coverage!Entries, Coverage!Log(e),
         e.phase = Coverage!Latest.phase, e.late => e.started, case' = case
  PROVE  /\ AttemptsRemain /\ Coverage!Latest' = e /\ attempts'[case][Len(attempts'[case])] = e
         /\ undisturbed /\ Coverage!AttemptVerifies(e) =>
               \A k \in 1..Len(attempts'[case]) : Coverage!AttemptVerifies(attempts'[case][k])
<1>1. Logged(e) /\ case \in Coverage!All
  BY DEF Coverage!Log, Logged, CoverInv, CoverIsTyped, Running
<1>2. /\ Len(attempts'[case]) = Tries(case) /\ Tries(case) \in Nat \ {0}
      /\ \A k \in 1..Tries(case) : attempts'[case][k] = IF k = Tries(case) THEN e ELSE attempts[case][k]
  BY <1>1, AttemptIsLogged
<1>3. AttemptsStay
  BY <1>1, LoggedAttempts
<1>4. Tries(case) \in 1..Tries(case) /\ attempts'[case][Tries(case)] = e
  BY <1>2
<1>5. Coverage!Latest' = e
  BY <1>2, <1>4 DEF Coverage!Latest
<1>6. ASSUME undisturbed, Coverage!AttemptVerifies(e), NEW k \in 1..Tries(case)
      PROVE  Coverage!AttemptVerifies(attempts'[case][k])
  <2>1. Coverage!AttemptVerifies(attempts[case][k])
    BY <1>1, <1>6 DEF AuditInv, EntriesVerify
  <2>2. CASE k = Tries(case)
    BY <1>4, <1>6, <2>2
  <2>3. CASE k # Tries(case)
    <3>1. attempts'[case][k] = attempts[case][k]
      BY <1>2, <2>3
    <3> QED
      BY <2>1, <3>1
  <2> QED
    BY <2>2, <2>3
<1> QED
  BY <1>2, <1>3, <1>4, <1>5, <1>6 DEF AttemptsRemain

(* The files are those before the step. *)
FilesWait ==
    /\ case' = case /\ section' = section /\ made' = made /\ results' = results /\ verdict' = verdict
    /\ reports' = reports /\ products' = products /\ consumed' = consumed /\ rates' = rates
    /\ selected' = selected /\ published' = published /\ frozenOn' = frozenOn
    /\ undisturbed' \in BOOLEAN /\ (undisturbed' => undisturbed)

LEMMA AttemptGoesOn ==
  ASSUME CoverInv, CoverBounds, AuditInv, stage \in Running, stage' \in Running,
         stage \notin {"freeze", "publish"}, stage' \notin {"freeze", "publish"}, FilesWait,
         \A i \in Coverage!All : i # case => attempts'[i] = attempts[i],
         undisturbed' => \A k \in 1..Len(attempts'[case]) : Coverage!AttemptVerifies(attempts'[case][k]),
         LatestFollows'
  PROVE  AuditInv'
<1>1. FilesRemain
  BY RunningFiles DEF FilesRemain, FilesStay, FilesWait, AuditInv
<1>2. FilesFollow'
  <2>1. FilesFollow
    BY RunningFiles
  <2>2. Gaining' <=> Gaining
    BY DEF Gaining, FilesWait
  <2>3. reports'[case'] = ReportOf(IF section = "raw" THEN made ELSE Coverage!UtilityRuns, IF Gaining THEN Coverage!GAIN ELSE None)
    BY <2>1 DEF FilesFollow, FilesWait
  <2>4. \A n, s : ReportOf(n, s)' = ReportOf(n, s)
    BY DEF ReportOf, Coverage!Picked
  <2>5. \A n, s, e : PairsOf(s, n, e)' = PairsOf(s, n, e)
    BY DEF PairsOf
  <2> QED
    BY <2>1, <2>2 DEF FilesFollow, FilesWait, PairsOf, ReportOf, Coverage!Picked, Coverage!UtilityRuns, Coverage!GAIN
<1>3. /\ reports'[case] # None /\ reports'[case].status # "NOT-RUN" /\ stage' # "validate"
  <2>1. stage' # "validate"
    BY DEF Running, Attempting
  <2> QED
    BY <2>1, RunningFiles DEF FilesWait, AuditInv, CasesAreTold
<1> QED
  BY <1>1, <1>2, <1>3, AuditProceeds

LEMMA CheckIsSound == ASSUME CoverInv, CoverBounds, AuditInv, Coverage!Check PROVE AuditInv'
<1>1. /\ stage = "run" /\ stage \in Running /\ made < Coverage!Runs(section) /\ attempts' = attempts
      /\ undisturbed' = undisturbed
  BY DEF Coverage!Check, Running
<1>2. undisturbed' => \A k \in 1..Len(attempts'[case]) : Coverage!AttemptVerifies(attempts'[case][k])
  BY <1>1, EntriesStayVerified
<1>3. CASE Coverage!Raise("value", <<>>)
  <2>1. CaseRests
    BY <1>1, <1>2, SameAttempts, RunningFiles DEF CaseRests, AttemptsRemain, Coverage!Check, AuditInv
  <2>2. stage \notin Attempting /\ stage \notin {"freeze", "publish"} /\ TailFollows(<<>>)
    BY <1>1 DEF Attempting, TailFollows
  <2>3. rates' = rates /\ consumed' = consumed
    BY DEF Coverage!Check
  <2> QED
    BY <1>1, <1>3, <2>1, <2>2, <2>3, RaiseIsSound
<1>4. CASE Coverage!Goto("guard") /\ reports' = reports /\ products' = products
  <2>1. stage' = "guard" /\ FilesWait
    BY <1>1, <1>4 DEF Coverage!Goto, FilesWait, Coverage!Check, AuditInv
  <2>2. stage' \in Running /\ LatestFollows'
    BY <2>1 DEF Running, LatestFollows, Attempting
  <2> QED
    BY <1>1, <1>2, <2>1, <2>2, AttemptGoesOn
<1> QED
  BY <1>3, <1>4 DEF Coverage!Check

LEMMA GuardIsSound == ASSUME CoverInv, CoverBounds, AuditInv, Coverage!Guard PROVE AuditInv'
<1>1. /\ stage \in {"run", "guard"} /\ stage \in Running /\ made < Coverage!Runs(section)
      /\ undisturbed' = undisturbed
  BY DEF Coverage!Guard, Running
<1>2. ASSUME NEW why, Coverage!Raise(why, <<>>), attempts' = attempts PROVE AuditInv'
  <2>1. CaseRests
    BY <1>1, <1>2, SameAttempts, EntriesStayVerified, RunningFiles DEF CaseRests, AttemptsRemain, Coverage!Guard, AuditInv
  <2>2. stage \notin Attempting /\ stage \notin {"freeze", "publish"} /\ TailFollows(<<>>)
    BY <1>1 DEF Attempting, TailFollows
  <2>3. rates' = rates /\ consumed' = consumed
    BY DEF Coverage!Guard
  <2> QED
    BY <1>1, <1>2, <2>1, <2>2, <2>3, RaiseIsSound
<1>3. CASE /\ Coverage!Goto("wait") /\ reports' = reports /\ products' = products
           /\ attempts' = [attempts EXCEPT ![case] = Append(@, Coverage!Attempt)]
  <2>1. stage' = "wait" /\ FilesWait /\ stage' \in Running
    BY <1>1, <1>3 DEF Coverage!Goto, FilesWait, Coverage!Guard, AuditInv, Running, Attempting
  <2>2. case \in Coverage!All /\ attempts \in [Coverage!All -> Seq(Coverage!Entries)] /\ Tries(case) \in Nat
    BY <1>1, RunningFiles DEF Tries
  <2> PICK a : a = Coverage!Attempt
    OBVIOUS
  <2>3. /\ attempts'[case] = Append(attempts[case], a)
        /\ \A i \in Coverage!All : i # case => attempts'[i] = attempts[i]
    BY <1>3, <2>2
  <2>4. /\ a.status = "waiting" /\ a.mid = "none" /\ ~a.started /\ a.clean
    BY DEF Coverage!Attempt
  <2>5. a \in Coverage!Entries
    BY <1>1, RunningFiles DEF Coverage!Attempt, Coverage!Entries
  <2>6. /\ Len(attempts'[case]) = Tries(case) + 1 /\ attempts'[case][Tries(case) + 1] = a
        /\ \A k \in 1..Tries(case) : attempts'[case][k] = attempts[case][k]
    BY <2>2, <2>3, <2>5 DEF Tries
  <2>7. ASSUME undisturbed', NEW k \in 1..Len(attempts'[case])
        PROVE  Coverage!AttemptVerifies(attempts'[case][k])
    <3>1. CASE k \in 1..Tries(case)
      <4>1. Coverage!AttemptVerifies(attempts[case][k])
        BY <1>1, <2>2, <2>7, <3>1 DEF AuditInv, EntriesVerify
      <4> QED
        BY <2>6, <3>1, <4>1
    <3>2. CASE k = Tries(case) + 1
      BY <2>4, <2>6, <3>2 DEF Coverage!AttemptVerifies
    <3> QED
      BY <2>2, <2>6, <3>1, <3>2
  <2>8. LatestFollows'
    <3>1. Coverage!Latest' = a
      BY <2>1, <2>6 DEF Coverage!Latest, FilesWait
    <3> QED
      BY <2>1, <2>4, <3>1 DEF LatestFollows
  <2> QED
    BY <1>1, <2>1, <2>3, <2>7, <2>8, AttemptGoesOn
<1> QED
  BY <1>2, <1>3 DEF Coverage!Guard

(* The entry of an attempt, and what its end makes of it. *)
LEMMA EntryIsMade ==
  ASSUME CoverInv, CoverBounds, AuditInv, stage \in Attempting, stage # "collect"
  PROVE  /\ Coverage!Latest \in Coverage!Entries /\ (Coverage!Latest.late => Coverage!Latest.started)
         /\ Coverage!Latest.mid = "none" /\ Coverage!Latest.clean /\ Coverage!Latest.status # "measured"
         /\ Coverage!Latest.status \in {"waiting", "attempting"}
         /\ stage # "native" => ~Coverage!Latest.started
         /\ undisturbed /\ Coverage!Latest.started => ~Coverage!Latest.late
<1>1. stage \in Running /\ stage \in Attempting \ {"collect"} /\ (stage # "native" => stage \in {"wait", "spawn", "start"})
  BY DEF Running, Attempting
<1>2. LatestFollows /\ case \in Coverage!All
  BY <1>1, RunningFiles
<1>3. Coverage!Latest \in Coverage!Entries /\ (Coverage!Latest.late => Coverage!Latest.started)
  BY LatestIsEntry
<1>4. ASSUME undisturbed PROVE Coverage!AttemptVerifies(Coverage!Latest)
  <2>1. Tries(case) \in 1..Tries(case)
    <3>1. Tries(case) \in Nat
      BY <1>2 DEF CoverInv, CoverIsTyped, Tries
    <3>2. RunsBefore(section) + made \in Nat
      BY <1>1, RunningFiles
    <3> QED
      BY <1>1, <3>1, <3>2 DEF CoverInv, RowsAreAttempts
  <2> QED
    BY <1>2, <1>4, <2>1 DEF AuditInv, EntriesVerify, Coverage!Latest, Tries
<1> QED
  BY <1>1, <1>2, <1>3, <1>4 DEF LatestFollows, Coverage!AttemptVerifies

LEMMA EntryFails ==
  ASSUME CoverInv, CoverBounds, AuditInv, stage \in Attempting, stage # "collect", case' = case,
         NEW e, e = Coverage!Failed \/ e = [Coverage!Failed EXCEPT !.clean = FALSE], Coverage!Log(e)
  PROVE  /\ AttemptsRemain /\ attempts'[case][Len(attempts'[case])].status # "measured"
         /\ undisturbed /\ e = Coverage!Failed =>
               \A k \in 1..Len(attempts'[case]) : Coverage!AttemptVerifies(attempts'[case][k])
<1> PICK a : a = Coverage!Latest
  OBVIOUS
<1>1. /\ a \in Coverage!Entries /\ (a.late => a.started) /\ a.mid = "none" /\ a.clean
      /\ undisturbed /\ a.started => ~a.late
  BY EntryIsMade
<1>2. e = [a EXCEPT !.status = "exception"] \/ e = [a EXCEPT !.status = "exception", !.clean = FALSE]
  BY <1>1 DEF Coverage!Failed, Coverage!Entries
<1>3. e \in Coverage!Entries /\ e.phase = a.phase /\ (e.late => e.started) /\ e.status = "exception"
  BY <1>1, <1>2 DEF Coverage!Entries
<1>4. ASSUME undisturbed, e = Coverage!Failed PROVE Coverage!AttemptVerifies(e)
  <2>1. e = [a EXCEPT !.status = "exception"]
    BY <1>4 DEF Coverage!Failed
  <2>2. e.started = a.started /\ e.late = a.late /\ e.mid = a.mid /\ e.clean = a.clean
    BY <1>1, <2>1 DEF Coverage!Entries
  <2> QED
    BY <1>1, <1>3, <1>4, <2>2 DEF Coverage!AttemptVerifies
<1>5. e.phase = Coverage!Latest.phase
  BY <1>3
<1> HIDE DEF Attempting
<1> QED
  BY <1>3, <1>4, <1>5, EntryIsLogged

LEMMA EntryEnds ==
  ASSUME CoverInv, CoverBounds, AuditInv, stage \in Attempting, stage # "collect", case' = case,
         NEW o, o \in Coverage!Unstarted \/ o = [status |-> "measured", mid |-> "valid"]
                   \/ o = [status |-> "validation_stop", mid |-> "invalid"],
         NEW clean \in BOOLEAN, Coverage!Log(Coverage!Ended(o, clean)), returnedRun' = o, stage' = "collect"
  PROVE  /\ AttemptsRemain /\ LatestFollows'
         /\ undisturbed /\ clean /\ o.mid # "invalid" =>
               \A k \in 1..Len(attempts'[case]) : Coverage!AttemptVerifies(attempts'[case][k])
<1> PICK a : a = Coverage!Latest
  OBVIOUS
<1> PICK e : e = Coverage!Ended(o, clean)
  OBVIOUS
<1>1. /\ a \in Coverage!Entries /\ (a.late => a.started) /\ a.mid = "none" /\ a.clean
      /\ undisturbed /\ a.started => ~a.late
  BY EntryIsMade
<1>2. /\ o.status \in {"measured", "validation_stop", "environment_blocked"}
      /\ o.mid \in {"none", "valid", "invalid"} /\ (o.status = "measured" => o.mid = "valid")
      /\ o.mid = "valid" => o.status = "measured"
      /\ o \in Coverage!Ends
  BY DEF Coverage!Unstarted, Coverage!Ends
<1>3. /\ e \in Coverage!Entries /\ e.phase = a.phase /\ (e.late => e.started) /\ e.status = o.status /\ e.mid = o.mid
      /\ e.started = a.started /\ e.late = a.late /\ e.clean = clean
  BY <1>1, <1>2 DEF Coverage!Entries, Coverage!Ended
<1>4. undisturbed /\ clean /\ o.mid # "invalid" => Coverage!AttemptVerifies(e)
  BY <1>1, <1>2, <1>3 DEF Coverage!AttemptVerifies, Coverage!Valid
<1>5. Coverage!Log(e) /\ e.phase = Coverage!Latest.phase
  BY <1>3
<1>6. /\ AttemptsRemain /\ Coverage!Latest' = e
      /\ undisturbed /\ Coverage!AttemptVerifies(e) =>
               \A k \in 1..Len(attempts'[case]) : Coverage!AttemptVerifies(attempts'[case][k])
  BY <1>3, <1>5, EntryIsLogged
<1>7. LatestFollows'
  <2>1. returnedRun' \in Coverage!Ends' /\ Coverage!Ends' = Coverage!Ends
    BY <1>2 DEF Coverage!Ends
  <2> QED
    BY <1>3, <1>6, <2>1 DEF LatestFollows
<1> QED
  BY <1>4, <1>6, <1>7

LEMMA AttemptRaisesSoundly ==
  ASSUME CoverInv, CoverBounds, AuditInv, stage \in Attempting, AttemptsRemain, case' = case,
         section' = section, made' = made, results' = results, rates' = rates, consumed' = consumed, selected' = selected,
         published' = published, frozenOn' = frozenOn, undisturbed' \in BOOLEAN, undisturbed' => undisturbed,
         NEW why, NEW tail, TailFollows(tail), Coverage!Raise(why, tail),
         undisturbed' => \A k \in 1..Len(attempts'[case]) : Coverage!AttemptVerifies(attempts'[case][k]),
         undisturbed' /\ section = "consumer" => attempts'[case][Len(attempts'[case])].status # "measured"
  PROVE  AuditInv'
<1>1. stage \in Running /\ stage \notin {"freeze", "publish"}
  BY DEF Running, Attempting
<1>2. made < Coverage!Runs(section)
  BY DEF CoverInv, RowsAreAttempts
<1>3. CaseRests
  BY <1>1, RunningFiles DEF CaseRests
<1> QED
  BY <1>1, <1>2, <1>3, RaiseIsSound

LEMMA AttemptAdvances ==
  ASSUME CoverInv, CoverBounds, AuditInv, stage \in Attempting, stage' \in Attempting, AttemptsRemain, FilesWait,
         undisturbed' => \A k \in 1..Len(attempts'[case]) : Coverage!AttemptVerifies(attempts'[case][k]),
         LatestFollows'
  PROVE  AuditInv'
<1>1. /\ stage \in Running /\ stage' \in Running /\ stage \notin {"freeze", "publish"}
      /\ stage' \notin {"freeze", "publish"}
  BY DEF Running, Attempting
<1>2. \A i \in Coverage!All : i # case => attempts'[i] = attempts[i]
  BY DEF AttemptsRemain, AttemptsStay
<1> QED
  BY <1>1, <1>2, AttemptGoesOn

LEMMA WaitIsSound == ASSUME CoverInv, CoverBounds, AuditInv, Coverage!Wait PROVE AuditInv'
<1>1. /\ stage \in Attempting /\ stage # "collect" /\ stage = "wait" /\ case' = case /\ section' = section
      /\ made' = made /\ results' = results /\ rates' = rates /\ consumed' = consumed /\ selected' = selected
      /\ published' = published /\ frozenOn' = frozenOn /\ undisturbed' = undisturbed /\ undisturbed' \in BOOLEAN
  BY DEF Coverage!Wait, Attempting, AuditInv
<1>2. ASSUME NEW why, Coverage!Raise(why, <<>>), Coverage!Log(Coverage!Failed) PROVE AuditInv'
  <2>1. /\ AttemptsRemain /\ attempts'[case][Len(attempts'[case])].status # "measured"
        /\ undisturbed => \A k \in 1..Len(attempts'[case]) : Coverage!AttemptVerifies(attempts'[case][k])
    BY <1>1, <1>2, EntryFails
  <2>2. TailFollows(<<>>)
    BY DEF TailFollows
  <2> QED
    BY <1>1, <1>2, <2>1, <2>2, AttemptRaisesSoundly
<1>3. ASSUME Coverage!Goto("spawn"), Coverage!Log([Coverage!Latest EXCEPT !.status = "attempting"]),
             reports' = reports, products' = products
      PROVE  AuditInv'
  <2> PICK a : a = Coverage!Latest
    OBVIOUS
  <2> PICK e : e = [a EXCEPT !.status = "attempting"]
    OBVIOUS
  <2>1. a \in Coverage!Entries /\ a.mid = "none" /\ a.clean /\ ~a.started /\ (a.late => a.started)
    BY <1>1, EntryIsMade
  <2>2. /\ e \in Coverage!Entries /\ e.phase = a.phase /\ ~e.started /\ ~e.late /\ e.mid = "none" /\ e.clean
        /\ e.status = "attempting"
    BY <2>1 DEF Coverage!Entries
  <2>3. Coverage!AttemptVerifies(e)
    BY <2>2 DEF Coverage!AttemptVerifies
  <2>4. Coverage!Log(e) /\ e.phase = Coverage!Latest.phase /\ (e.late => e.started)
    BY <1>3, <2>2
  <2>5. /\ AttemptsRemain /\ Coverage!Latest' = e
        /\ undisturbed => \A k \in 1..Len(attempts'[case]) : Coverage!AttemptVerifies(attempts'[case][k])
    BY <1>1, <2>2, <2>3, <2>4, EntryIsLogged
  <2>6. stage' = "spawn" /\ FilesWait
    BY <1>1, <1>3 DEF Coverage!Goto, FilesWait
  <2>7. LatestFollows' /\ stage' \in Attempting
    BY <2>2, <2>5, <2>6 DEF LatestFollows, Attempting
  <2> QED
    BY <1>1, <2>5, <2>6, <2>7, AttemptAdvances
<1> QED
  BY <1>2, <1>3 DEF Coverage!Wait

LEMMA SpawnIsSound == ASSUME CoverInv, CoverBounds, AuditInv, Coverage!Spawn PROVE AuditInv'
<1>1. /\ stage \in Attempting /\ stage # "collect" /\ stage = "spawn" /\ case' = case /\ section' = section
      /\ made' = made /\ results' = results /\ rates' = rates /\ consumed' = consumed /\ selected' = selected
      /\ published' = published /\ frozenOn' = frozenOn /\ undisturbed' = undisturbed /\ undisturbed' \in BOOLEAN
  BY DEF Coverage!Spawn, Attempting, AuditInv
<1>2. ASSUME NEW why, Coverage!Raise(why, <<>>), Coverage!Log(Coverage!Failed) PROVE AuditInv'
  <2>1. /\ AttemptsRemain /\ attempts'[case][Len(attempts'[case])].status # "measured"
        /\ undisturbed => \A k \in 1..Len(attempts'[case]) : Coverage!AttemptVerifies(attempts'[case][k])
    BY <1>1, <1>2, EntryFails
  <2>2. TailFollows(<<>>)
    BY DEF TailFollows
  <2> QED
    BY <1>1, <1>2, <2>1, <2>2, AttemptRaisesSoundly
<1>3. ASSUME NEW o \in Coverage!Unstarted, returnedRun' = o, Coverage!Log(Coverage!Ended(o, TRUE)),
             Coverage!Goto("collect"), reports' = reports, products' = products
      PROVE  AuditInv'
  <2>1. stage' = "collect" /\ FilesWait /\ stage' \in Attempting
    BY <1>1, <1>3 DEF Coverage!Goto, FilesWait, Attempting
  <2>2. o.mid # "invalid"
    BY DEF Coverage!Unstarted
  <2>3. /\ AttemptsRemain /\ LatestFollows'
        /\ undisturbed => \A k \in 1..Len(attempts'[case]) : Coverage!AttemptVerifies(attempts'[case][k])
    BY <1>1, <1>3, <2>1, <2>2, EntryEnds
  <2> QED
    BY <1>1, <2>1, <2>3, AttemptAdvances
<1>4. ASSUME Coverage!Goto("start"), reports' = reports, products' = products, attempts' = attempts PROVE AuditInv'
  <2>1. stage' = "start" /\ FilesWait /\ stage' \in Attempting /\ stage \in Running
    BY <1>1, <1>4 DEF Coverage!Goto, FilesWait, Attempting, Running
  <2>2. AttemptsRemain
    BY <1>4, <2>1, SameAttempts DEF AttemptsRemain
  <2>3. undisturbed' => \A k \in 1..Len(attempts'[case]) : Coverage!AttemptVerifies(attempts'[case][k])
    BY <1>1, <1>4, <2>1, EntriesStayVerified
  <2>4. LatestFollows'
    <3>1. Coverage!Latest' = Coverage!Latest
      BY <1>1, <1>4 DEF Coverage!Latest
    <3>2. ~Coverage!Latest.started /\ Coverage!Latest.mid = "none" /\ Coverage!Latest.clean /\ Coverage!Latest.status \in {"waiting", "attempting"}
      BY <1>1, EntryIsMade
    <3> QED
      BY <2>1, <3>1, <3>2 DEF LatestFollows
  <2> QED
    BY <1>1, <2>1, <2>2, <2>3, <2>4, AttemptAdvances
<1> QED
  BY <1>2, <1>3, <1>4 DEF Coverage!Spawn

LEMMA StartIsSound == ASSUME CoverInv, CoverBounds, AuditInv, Coverage!Start PROVE AuditInv'
<1>1. /\ stage \in Attempting /\ stage # "collect" /\ stage = "start" /\ stage' = "native" /\ stage' \in Attempting
      /\ case' = case
  BY DEF Coverage!Start, Attempting, Coverage!Goto
<1>2. undisturbed' \in BOOLEAN /\ (undisturbed' => undisturbed /\ ~Coverage!Expired)
  <2>1. undisturbed' = (undisturbed /\ ~Coverage!Expired)
    BY DEF Coverage!Start, Coverage!Quiet
  <2> QED
    BY <2>1, Zenon
<1>3. FilesWait
  BY <1>1, <1>2 DEF Coverage!Start, Coverage!Goto, FilesWait
<1> PICK a : a = Coverage!Latest
  OBVIOUS
<1> PICK e : e = [a EXCEPT !.started = TRUE, !.late = Coverage!Expired]
  OBVIOUS
<1>4. /\ a \in Coverage!Entries /\ a.mid = "none" /\ a.clean /\ a.status \in {"waiting", "attempting"}
  BY <1>1, EntryIsMade
<1>5. Coverage!Expired \in BOOLEAN
  BY Zenon DEF Coverage!Expired
<1>6. /\ e \in Coverage!Entries /\ e.phase = a.phase /\ e.started /\ e.late = Coverage!Expired /\ e.mid = "none" /\ e.clean
      /\ e.status = a.status
  BY <1>4, <1>5 DEF Coverage!Entries
<1>7. ~Coverage!Expired => Coverage!AttemptVerifies(e)
  BY <1>4, <1>6 DEF Coverage!AttemptVerifies
<1>8. Coverage!Log(e) /\ e.phase = Coverage!Latest.phase /\ (e.late => e.started)
  BY <1>6 DEF Coverage!Start
<1>9. /\ AttemptsRemain /\ Coverage!Latest' = e
      /\ undisturbed' => \A k \in 1..Len(attempts'[case]) : Coverage!AttemptVerifies(attempts'[case][k])
  BY <1>1, <1>2, <1>6, <1>7, <1>8, EntryIsLogged
<1>10. LatestFollows'
  BY <1>1, <1>4, <1>6, <1>9 DEF LatestFollows
<1> QED
  BY <1>1, <1>3, <1>9, <1>10, AttemptAdvances

LEMMA NativeIsSound == ASSUME CoverInv, CoverBounds, AuditInv, Coverage!Native PROVE AuditInv'
<1>1. /\ stage \in Attempting /\ stage # "collect" /\ stage = "native" /\ case' = case /\ section' = section
      /\ made' = made /\ results' = results /\ rates' = rates /\ consumed' = consumed /\ selected' = selected
      /\ published' = published /\ frozenOn' = frozenOn
  BY DEF Coverage!Native, Attempting
<1>2. ASSUME NEW why, Coverage!Raise(why, <<>>), Coverage!Log([Coverage!Failed EXCEPT !.clean = FALSE]),
             Coverage!Quiet(FALSE)
      PROVE  AuditInv'
  <2>1. AttemptsRemain
    BY <1>1, <1>2, EntryFails
  <2>2. undisturbed' = FALSE
    BY <1>2, Zenon DEF Coverage!Quiet
  <2>3. TailFollows(<<>>)
    BY DEF TailFollows
  <2>4. undisturbed' \in BOOLEAN /\ ~undisturbed'
    BY <2>2, Zenon
  <2> QED
    BY <1>1, <1>2, <2>1, <2>3, <2>4, AttemptRaisesSoundly
<1>3. ASSUME NEW o, o = returnedRun',
             o \in {[status |-> "measured", mid |-> "valid"],
                    [status |-> "validation_stop", mid |-> "invalid"]} \cup Coverage!Unstarted,
             NEW clean \in BOOLEAN, Coverage!Log(Coverage!Ended(o, clean)),
             Coverage!Quiet(clean /\ o.mid # "invalid"),
             Coverage!Goto("collect"), reports' = reports, products' = products
      PROVE  AuditInv'
  <2>1. undisturbed' \in BOOLEAN /\ (undisturbed' => undisturbed /\ clean /\ o.mid # "invalid")
    <3>1. undisturbed' = (undisturbed /\ (clean /\ o.mid # "invalid"))
      BY <1>3 DEF Coverage!Quiet
    <3> QED
      BY <3>1, Zenon
  <2>2. stage' = "collect" /\ FilesWait /\ stage' \in Attempting
    BY <1>1, <1>3, <2>1 DEF Coverage!Goto, FilesWait, Attempting
  <2>3. /\ AttemptsRemain /\ LatestFollows'
        /\ undisturbed' => \A k \in 1..Len(attempts'[case]) : Coverage!AttemptVerifies(attempts'[case][k])
    BY <1>1, <1>3, <2>1, <2>2, EntryEnds
  <2> QED
    BY <1>1, <2>2, <2>3, AttemptAdvances
<1> QED
  BY <1>1, <1>2, <1>3 DEF Coverage!Native

-----------------------------------------------------------------------------
(* What is made of an outcome leaves files that are sound *)

LEMMA CollectRests ==
  ASSUME CoverInv, CoverBounds, AuditInv, Coverage!Collect
  PROVE  /\ stage = "collect" /\ stage \in Running /\ stage \in Attempting /\ stage \notin {"freeze", "publish"}
         /\ case' = case /\ section' = section /\ attempts' = attempts /\ frozenOn' = frozenOn
         /\ selected' = selected /\ published' = published /\ results' = results
         /\ AttemptsRemain /\ made < Coverage!Runs(section)
         /\ undisturbed' \in BOOLEAN /\ (undisturbed' => undisturbed)
         /\ undisturbed' /\ section = "consumer" /\ returnedRun.status = "measured"
               => reports'[case].status = Coverage!PRODUCT
         /\ undisturbed' => \A k \in 1..Len(attempts'[case]) : Coverage!AttemptVerifies(attempts'[case][k])
         /\ returnedRun \in Coverage!Ends
<1>1. /\ stage = "collect" /\ stage \in Running /\ stage \in Attempting /\ stage \notin {"freeze", "publish"}
      /\ case' = case /\ section' = section /\ attempts' = attempts /\ frozenOn' = frozenOn
      /\ selected' = selected /\ published' = published /\ results' = results
  BY DEF Coverage!Collect, Running, Attempting
<1>2. AttemptsRemain /\ made < Coverage!Runs(section)
  BY <1>1, SameAttempts DEF AttemptsRemain, CoverInv, RowsAreAttempts
<1>3. /\ undisturbed' \in BOOLEAN /\ (undisturbed' => undisturbed)
      /\ undisturbed' /\ section = "consumer" /\ returnedRun.status = "measured"
               => reports'[case].status = Coverage!PRODUCT
  <2>1. undisturbed' = (undisturbed /\ (section = "consumer" /\ returnedRun.status = "measured" =>
                                          reports'[case].status = Coverage!PRODUCT))
    BY DEF Coverage!Collect, Coverage!Quiet
  <2> QED
    BY <2>1, Zenon
<1>4. undisturbed' => \A k \in 1..Len(attempts'[case]) : Coverage!AttemptVerifies(attempts'[case][k])
  BY <1>1, <1>3, EntriesStayVerified
<1>5. returnedRun \in Coverage!Ends
  BY <1>1, RunningFiles DEF LatestFollows
<1> QED
  BY <1>1, <1>2, <1>3, <1>4, <1>5

(* The files of a case whose consumer runs, and what its end makes of them. *)
LEMMA ConsumerFiles ==
  ASSUME CoverInv, CoverBounds, AuditInv, stage \in Running, section = "consumer", NEW c, c = case, NEW s,
         Coverage!CaseEnds(s, Coverage!Tail0)
  PROVE  /\ stage' = "validate" /\ verdict' = verdict /\ DOMAIN reports' = Coverage!All /\ DOMAIN products' = Coverage!All
         /\ \A i \in Coverage!All : i # c => reports'[i] = reports[i] /\ products'[i] = products[i]
         /\ Rewritten(c, s, <<>>) /\ products' = products
<1>1. /\ reports[c] = ReportOf(Coverage!UtilityRuns, Coverage!GAIN)
      /\ products[c] = PairsOf("PASS-STOCK-FALLBACK", BlockRuns, TRUE)
  <2>1. FilesFollow
    BY RunningFiles
  <2>2. reports[c] = ReportOf(Coverage!UtilityRuns, Coverage!GAIN)
    BY <2>1 DEF FilesFollow, Gaining
  <2>3. stage # "publish"
    BY DEF CoverInv, RowsAreAttempts
  <2>4. products[c] = PairsOf("PASS-STOCK-FALLBACK", BlockRuns, TRUE)
    BY <2>1, <2>3 DEF FilesFollow
  <2> QED
    BY <2>2, <2>4
<1>2. reports[c].tail = <<>>
  BY <1>1 DEF ReportOf
<1>3. BlockRuns \in Nat /\ "PASS-STOCK-FALLBACK" \in PairStatuses /\ <<>> \in Seq(Coverage!Ends)
  BY CoverNumbers DEF PairStatuses
<1>4. products[c] # None
  BY <1>1, <1>3, PairsOfAreFile
<1>5. Coverage!CaseEnds(s, <<>>)
  BY <1>2 DEF Coverage!Tail0
<1>6. products' = products
  BY <1>4, <1>5 DEF Coverage!CaseEnds
<1> QED
  BY <1>5, <1>6, CaseEndsSo

LEMMA StoppedIsSound ==
  ASSUME CoverInv, CoverBounds, AuditInv, Coverage!Collect, Coverage!Stopped PROVE AuditInv'
<1> PICK c : c = case
  OBVIOUS
<1> PICK s : s = Coverage!Label(returnedRun)
  OBVIOUS
<1>1. /\ stage = "collect" /\ stage \in Running /\ stage \in Attempting /\ stage # "publish" /\ stage # "freeze" /\ AttemptsRemain
      /\ case' = case /\ section' = section /\ attempts' = attempts /\ frozenOn' = frozenOn
      /\ selected' = selected /\ published' = published /\ results' = results /\ made < Coverage!Runs(section)
      /\ undisturbed' \in BOOLEAN /\ (undisturbed' => undisturbed) /\ returnedRun \in Coverage!Ends
      /\ undisturbed' => \A k \in 1..Len(attempts'[case]) : Coverage!AttemptVerifies(attempts'[case][k])
  BY CollectRests
<1>2. /\ returnedRun.status # "measured" /\ made' = made /\ rates' = rates
      /\ s \in {"VALIDATION-STOP", "ENVIRONMENT-BLOCKED"}
      /\ s \in Coverage!Failures /\ s \in CaseStatuses /\ s # Coverage!PRODUCT
  BY DEF Coverage!Stopped, Coverage!Label, Coverage!Failures, CaseStatuses, Coverage!PRODUCT
<1>3. /\ section \in {"raw", "product", "consumer"} /\ DOMAIN consumed = Coverage!All /\ c \in Coverage!All
      /\ <<returnedRun>> \in Seq(Coverage!Ends) /\ <<>> \in Seq(Coverage!Ends) /\ TailFollows(<<returnedRun>>)
      /\ <<returnedRun>> # <<>> /\ made \in Nat /\ TailFollows(<<>>)
  BY <1>1, RunningFiles DEF TailFollows
<1>4. CASE section = "raw"
  <2>1. Coverage!CaseEnds(s, <<returnedRun>>) /\ consumed' = consumed
    BY <1>4 DEF Coverage!Stopped
  <2>2. made < Coverage!UtilityRuns
    BY <1>1, <1>4 DEF Coverage!Runs
  <2>3. CaseRests
    BY <1>1, <1>2, <1>3, <2>1 DEF CaseRests
  <2>4. CaseIsSound(c)'
    BY <1>1, <1>2, <1>3, <1>4, <2>1, <2>2, SearchFails
  <2> QED
    BY <1>1, <1>2, <1>3, <2>1, <2>3, <2>4, CaseEndsSo, CaseIsOver
<1>5. CASE section = "product"
  <2> PICK b : b = Coverage!Unevaluated(s, made, <<returnedRun>>)
    OBVIOUS
  <2>1. Coverage!ProductEnds(b) /\ consumed' = consumed
    BY <1>5 DEF Coverage!Stopped
  <2>2. made < BlockRuns /\ b.rows # BlockRuns /\ b.status = s
    BY <1>1, <1>3, <1>5, CoverNumbers DEF Coverage!Runs, Coverage!Unevaluated
  <2>3. CaseRests
    BY <1>1, <1>2, <1>3, <2>1 DEF CaseRests
  <2>4. /\ stage' = "validate" /\ verdict' = verdict /\ DOMAIN reports' = Coverage!All /\ DOMAIN products' = Coverage!All
        /\ \A i \in Coverage!All : i # c => reports'[i] = reports[i] /\ products'[i] = products[i]
        /\ Rewritten(c, s, <<>>) /\ products'[c] = Coverage!Unevaluated(s, made, <<returnedRun>>)
    BY <1>1, <2>1, <2>2, ProductEndsSo
  <2>5. s \in {"RUNNING", "VALIDATION-STOP", "ENVIRONMENT-BLOCKED"}
    BY <1>2
  <2>6. undisturbed' => CaseIsSound(c)'
    BY <1>1, <1>2, <1>3, <1>5, <2>2, <2>4, <2>5, PairsFail
  <2> QED
    BY <1>1, <1>2, <1>3, <2>3, <2>4, <2>6, CaseIsOver
<1>6. CASE section = "consumer"
  <2>1. Coverage!CaseEnds(s, Coverage!Tail0) /\ consumed' = [consumed EXCEPT ![case] = returnedRun]
    BY <1>6 DEF Coverage!Stopped
  <2>2. /\ consumed'[c] = returnedRun /\ DOMAIN consumed' = Coverage!All
        /\ \A i \in Coverage!All : i # c => consumed'[i] = consumed[i]
    BY <1>3, <2>1
  <2>3. CaseRests
    BY <1>1, <1>2, <1>3, <2>2 DEF CaseRests
  <2>4. /\ stage' = "validate" /\ verdict' = verdict /\ DOMAIN reports' = Coverage!All /\ DOMAIN products' = Coverage!All
        /\ \A i \in Coverage!All : i # c => reports'[i] = reports[i] /\ products'[i] = products[i]
        /\ Rewritten(c, s, <<>>) /\ products' = products
    BY <1>1, <1>6, <2>1, ConsumerFiles
  <2>5. undisturbed' => CaseIsSound(c)'
    BY <1>1, <1>2, <1>6, <2>2, <2>4, ConsumerEnds
  <2> QED
    BY <1>1, <1>2, <1>3, <2>3, <2>4, <2>5, CaseIsOver
<1> QED
  BY <1>3, <1>4, <1>5, <1>6

LEMMA DiffersIsSound ==
  ASSUME CoverInv, CoverBounds, AuditInv, Coverage!Collect, NEW tail, TailFollows(tail),
         Coverage!Raise("value", tail), returnedRun.status = "measured",
         made' = made, rates' = rates, consumed' = consumed
  PROVE  AuditInv'
<1>1. /\ stage \in Attempting /\ AttemptsRemain /\ case' = case /\ section' = section
      /\ selected' = selected /\ published' = published /\ results' = results /\ frozenOn' = frozenOn
      /\ undisturbed' \in BOOLEAN /\ (undisturbed' => undisturbed) /\ stage \in Running
      /\ undisturbed' /\ section = "consumer" => reports'[case].status = Coverage!PRODUCT
      /\ undisturbed' => \A k \in 1..Len(attempts'[case]) : Coverage!AttemptVerifies(attempts'[case][k])
  BY CollectRests
<1>2. ASSUME section = "consumer" PROVE ~undisturbed'
  <2> PICK c : c = case
    OBVIOUS
  <2>1. Coverage!CaseEnds("VALIDATION-STOP", Coverage!Tail0)
    BY <1>2 DEF Coverage!Raise
  <2>2. Rewritten(c, "VALIDATION-STOP", <<>>)
    BY <1>1, <1>2, <2>1, ConsumerFiles
  <2>3. "VALIDATION-STOP" \in CaseStatuses /\ <<>> \in Seq(Coverage!Ends)
    BY DEF CaseStatuses, Coverage!Failures
  <2>4. reports'[c].status = "VALIDATION-STOP"
    <3>1. ReportEnds(c, "VALIDATION-STOP", <<>>)
      BY <1>1, <2>2, <2>3, ReportIsEnded
    <3> QED
      BY <3>1 DEF ReportEnds
  <2> QED
    BY <1>1, <1>2, <2>4 DEF Coverage!PRODUCT
<1> QED
  BY <1>1, <1>2, AttemptRaisesSoundly

LEMMA ConsumedIsSound ==
  ASSUME CoverInv, CoverBounds, AuditInv, Coverage!Collect, Coverage!Consumed PROVE AuditInv'
<1> PICK c : c = case
  OBVIOUS
<1>1. /\ stage = "collect" /\ stage \in Running /\ stage \in Attempting /\ AttemptsRemain
      /\ case' = case /\ section' = section /\ attempts' = attempts /\ frozenOn' = frozenOn
      /\ selected' = selected /\ published' = published /\ results' = results /\ made < Coverage!Runs(section)
      /\ undisturbed' \in BOOLEAN /\ (undisturbed' => undisturbed)
      /\ undisturbed' => \A k \in 1..Len(attempts'[case]) : Coverage!AttemptVerifies(attempts'[case][k])
  BY CollectRests
<1>2. section = "consumer" /\ returnedRun.status = "measured" /\ made' = made /\ rates' = rates
  BY DEF Coverage!Consumed
<1>3. CASE Coverage!Raise("value", <<>>) /\ consumed' = consumed
  <2>1. TailFollows(<<>>)
    BY DEF TailFollows
  <2> QED
    BY <1>2, <1>3, <2>1, DiffersIsSound
<1>4. CASE Coverage!CaseEnds(Coverage!PRODUCT, Coverage!Tail0) /\ consumed' = [consumed EXCEPT ![case] = returnedRun]
  <2>1. DOMAIN consumed = Coverage!All /\ c \in Coverage!All /\ <<>> \in Seq(Coverage!Ends)
    BY <1>1, RunningFiles
  <2>2. /\ consumed'[c] = returnedRun /\ DOMAIN consumed' = Coverage!All
        /\ \A i \in Coverage!All : i # c => consumed'[i] = consumed[i]
    BY <1>4, <2>1
  <2>3. CaseRests
    BY <1>1, <1>2, <2>2 DEF CaseRests
  <2>4. /\ stage' = "validate" /\ verdict' = verdict /\ DOMAIN reports' = Coverage!All /\ DOMAIN products' = Coverage!All
        /\ \A i \in Coverage!All : i # c => reports'[i] = reports[i] /\ products'[i] = products[i]
        /\ Rewritten(c, Coverage!PRODUCT, <<>>) /\ products' = products
    BY <1>1, <1>2, <1>4, ConsumerFiles
  <2>5. Coverage!PRODUCT \in CaseStatuses
    BY DEF CaseStatuses
  <2>6. undisturbed' => CaseIsSound(c)'
    BY <1>1, <1>2, <2>2, <2>4, ConsumerEnds
  <2> QED
    BY <1>1, <2>1, <2>3, <2>4, <2>5, <2>6, CaseIsOver
<1> QED
  BY <1>3, <1>4 DEF Coverage!Consumed

(* The files of a search, and of its pairs. *)
LEMMA SearchFiles ==
  ASSUME CoverInv, CoverBounds, AuditInv, stage \in Running, section = "raw", stage # "freeze"
  PROVE  /\ reports[case] = ReportOf(made, None) /\ products[case] = None /\ frozenOn[case] = None
         /\ consumed[case] = None /\ ~Gaining
<1>1. FilesFollow /\ ~Gaining
  BY RunningFiles DEF Gaining
<1>2. stage # "publish"
  BY DEF CoverInv, RowsAreAttempts
<1>3. reports[case] = ReportOf(made, None) /\ frozenOn[case] = None /\ consumed[case] = None
  BY <1>1 DEF FilesFollow
<1>4. products[case] = None
  BY <1>1, <1>2 DEF FilesFollow
<1> QED
  BY <1>1, <1>3, <1>4

LEMMA PairingFiles ==
  ASSUME CoverInv, CoverBounds, AuditInv, stage \in Running, section = "product"
  PROVE  /\ reports[case] = ReportOf(Coverage!UtilityRuns, Coverage!GAIN) /\ case \in selected
         /\ frozenOn[case] \in BOOLEAN /\ (undisturbed => frozenOn[case] = FALSE) /\ consumed[case] = None
         /\ stage = "publish" => products[case] = PairsOf("PASS-MEASUREMENT", BlockRuns, TRUE)
         /\ stage # "publish" => products[case] = IF made > 0 THEN PairsOf("RUNNING", made, FALSE) ELSE None
<1>1. FilesFollow
  BY RunningFiles
<1>2. /\ reports[case] = ReportOf(Coverage!UtilityRuns, Coverage!GAIN) /\ case \in selected
      /\ frozenOn[case] \in BOOLEAN /\ (undisturbed => frozenOn[case] = FALSE) /\ consumed[case] = None
  BY <1>1 DEF FilesFollow, Gaining
<1>3. stage = "publish" => products[case] = PairsOf("PASS-MEASUREMENT", BlockRuns, TRUE)
  BY <1>1 DEF FilesFollow
<1>4. CASE made > 0
  BY <1>1, <1>2, <1>3, <1>4 DEF FilesFollow
<1>5. CASE ~(made > 0)
  BY <1>1, <1>2, <1>3, <1>5 DEF FilesFollow
<1> QED
  BY <1>4, <1>5

(* A row more in the report of a search. *)
Counted(f, n) == [f EXCEPT !.rows = n, !.picked = n >= Coverage!Picked]
LEMMA RowIsCounted ==
  ASSUME CoverBounds, NEW n \in Nat, NEW m \in Nat
  PROVE  Counted(ReportOf(n, None), m) = ReportOf(m, None)
<1> PICK f : f = ReportOf(n, None)
  OBVIOUS
<1> PICK h : h = ReportOf(m, None)
  OBVIOUS
<1>1. /\ f \in Coverage!CaseFiles /\ f.status = "RUNNING" /\ f.tail = <<>> /\ f.stats = None
      /\ h \in Coverage!CaseFiles /\ h.status = "RUNNING" /\ h.tail = <<>> /\ h.stats = None /\ h.rows = m
      /\ h.picked = (m >= Coverage!Picked)
  BY ReportIsFile
<1>2. Counted(f, m) = [f EXCEPT !.rows = m, !.picked = h.picked]
  BY <1>1, Zenon DEF Counted
<1>3. h.picked \in BOOLEAN
  BY <1>1 DEF Coverage!CaseFiles
<1> PICK q : q = h.picked
  OBVIOUS
<1>4. ASSUME NEW p \in BOOLEAN, NEW g, g = [f EXCEPT !.rows = m, !.picked = p], h.picked = p
      PROVE  g = h
  <2> HIDE <1>2, <1>3
  <2>1. f \in Coverage!CaseFiles /\ h \in Coverage!CaseFiles /\ f.status = h.status /\ f.tail = h.tail /\ f.stats = h.stats /\ h.rows = m
    BY <1>1, Zenon
  <2> HIDE <1>1
  <2>2. g \in Coverage!CaseFiles
    BY <1>4, <2>1 DEF Coverage!CaseFiles
  <2>3. g.rows = h.rows /\ g.picked = h.picked /\ g.status = h.status /\ g.tail = h.tail /\ g.stats = h.stats
    BY <1>4, <2>1 DEF Coverage!CaseFiles
  <2> QED
    BY <2>1, <2>2, <2>3 DEF Coverage!CaseFiles
<1> QED
  BY <1>2, <1>3, <1>4

(* The files follow the step. *)
LEMMA FilesFollowOn ==
  ASSUME NEW c, c = case', NEW p, p = section', NEW n, n = (IF p = "raw" THEN made' ELSE Coverage!UtilityRuns),
         NEW s, s = (IF p # "raw" \/ stage' = "freeze" THEN Coverage!GAIN ELSE None),
         reports'[c] = ReportOf(n, s), p # "raw" \/ stage' = "freeze" => c \in selected',
         p = "raw" => frozenOn'[c] = None /\ stage' # "publish" /\ products'[c] = None,
         p # "raw" => frozenOn'[c] \in BOOLEAN /\ (undisturbed' => frozenOn'[c] = FALSE),
         p = "consumer" => stage' # "publish" /\ products'[c] = PairsOf("PASS-STOCK-FALLBACK", BlockRuns, TRUE),
         p = "product" => products'[c] = (IF stage' = "publish" THEN PairsOf("PASS-MEASUREMENT", BlockRuns, TRUE)
                                          ELSE IF made' > 0 THEN PairsOf("RUNNING", made', FALSE) ELSE None),
         p \in {"raw", "product", "consumer"}, consumed'[c] = None
  PROVE  FilesFollow'
<1>1. reports'[c] = ReportOf(IF section = "raw" THEN made ELSE Coverage!UtilityRuns, IF Gaining THEN Coverage!GAIN ELSE None)'
  BY DEF ReportOf, Gaining, Coverage!Picked, Coverage!UtilityRuns, Coverage!GAIN
<1>2. /\ Gaining' => c \in selected'
      /\ section' = "raw" => frozenOn'[c] = None
      /\ section' # "raw" => frozenOn'[c] \in BOOLEAN /\ (undisturbed' => frozenOn'[c] = FALSE)
      /\ consumed'[c] = None
  BY DEF Gaining
<1>3. products'[c] = (CASE section = "consumer" -> PairsOf("PASS-STOCK-FALLBACK", BlockRuns, TRUE)
                       [] stage = "publish" -> PairsOf("PASS-MEASUREMENT", BlockRuns, TRUE)
                       [] section = "product" /\ stage # "publish" /\ made > 0 -> PairsOf("RUNNING", made, FALSE)
                       [] OTHER -> None)'
  <2>1. CASE p = "raw"
    BY <2>1
  <2>2. CASE p = "consumer"
    BY <2>2 DEF PairsOf
  <2>3. CASE p = "product" /\ stage' = "publish"
    BY <2>3 DEF PairsOf
  <2>4. CASE p = "product" /\ stage' # "publish" /\ made' > 0
    BY <2>4 DEF PairsOf
  <2>5. CASE p = "product" /\ stage' # "publish" /\ ~(made' > 0)
    BY <2>5
  <2> QED
    BY <2>1, <2>2, <2>3, <2>4, <2>5
<1> QED
  BY <1>1, <1>2, <1>3 DEF FilesFollow

LEMMA RowIsSound ==
  ASSUME CoverInv, CoverBounds, AuditInv, Coverage!Collect, Coverage!RowAdded PROVE AuditInv'
<1> PICK c, n : c = case /\ n = made + 1
  OBVIOUS
<1>1. /\ stage = "collect" /\ stage \in Running /\ stage \in Attempting /\ stage # "freeze" /\ AttemptsRemain
      /\ case' = case /\ section' = section /\ attempts' = attempts /\ frozenOn' = frozenOn
      /\ selected' = selected /\ published' = published /\ results' = results /\ made < Coverage!Runs(section)
      /\ undisturbed' \in BOOLEAN /\ (undisturbed' => undisturbed)
      /\ undisturbed' => \A k \in 1..Len(attempts'[case]) : Coverage!AttemptVerifies(attempts'[case][k])
  BY CollectRests
<1>2. /\ section = "raw" /\ returnedRun.status = "measured" /\ made' = n /\ products' = products /\ consumed' = consumed
  BY DEF Coverage!RowAdded
<1>3. /\ c \in Coverage!All /\ DOMAIN reports = Coverage!All /\ DOMAIN products = Coverage!All /\ made \in Nat
      /\ DOMAIN consumed = Coverage!All /\ ~Varies(c) /\ n \in Nat /\ n <= Coverage!UtilityRuns
      /\ made < Coverage!UtilityRuns
      /\ rates \in [Coverage!All -> VerdictRecords] /\ verdict' = verdict
  <2>1. made \in Nat /\ made < Coverage!UtilityRuns
    BY <1>1, <1>2, RunningFiles DEF Coverage!Runs
  <2>2. verdict' = verdict
    BY DEF Coverage!RowAdded, Coverage!Goto
  <2> QED
    BY <1>1, <2>1, <2>2, RunningFiles, CoverNumbers DEF CoverInv, CoverIsTyped
<1>4. PICK stable \in (IF n = ReferenceRuns THEN BOOLEAN ELSE {rates[c].stable}) :
        /\ rates' = [rates EXCEPT ![c].stable = stable]
        /\ IF stable = FALSE
           THEN reports' = [reports EXCEPT ![c] = [Counted(reports[c], n) EXCEPT !.status = "VARIANCE-STOP"]]
                /\ Coverage!Goto("validate")
           ELSE reports' = [reports EXCEPT ![c] = Counted(reports[c], n)] /\ Coverage!Goto("run")
  BY DEF Coverage!RowAdded, Counted
<1>5. /\ rates'[c].stable = stable /\ \A i \in Coverage!All : i # c => rates'[i] = rates[i]
  BY <1>3, <1>4 DEF VerdictRecords
<1>6. /\ reports[c] = ReportOf(made, None) /\ products[c] = None /\ frozenOn[c] = None
      /\ consumed[c] = None
  BY <1>1, <1>2, SearchFiles
<1>7. Counted(reports[c], n) = ReportOf(n, None)
  BY <1>3, <1>6, RowIsCounted
<1>8. CaseRests
  BY <1>1, <1>2, <1>3, <1>5 DEF CaseRests
<1>9. /\ Len(attempts'[c]) = n /\ \A k \in 1..n : Coverage!Valid(attempts'[c][k])
  <2>1. RunsBefore(section) + made = made /\ Len(attempts'[c]) = n
    BY <1>1, <1>2, <1>3, RowsStayValid DEF RunsBefore
  <2>2. Coverage!Valid(Coverage!Latest)
    BY <1>1, <1>2 DEF CoverInv, AttemptsArePlaced
  <2>3. Coverage!Valid(attempts'[c][n])
    BY <1>1, <2>1, <2>2 DEF Coverage!Latest
  <2>4. \A k \in 1..made : Coverage!Valid(attempts'[c][k])
    BY <1>1, <2>1, RowsStayValid
  <2> QED
    BY <1>3, <2>1, <2>3, <2>4
<1>10. CASE stable = FALSE
  <2> PICK g : g = reports'[c]
    OBVIOUS
  <2>1. /\ stage' = "validate" /\ DOMAIN reports' = Coverage!All /\ g = [ReportOf(n, None) EXCEPT !.status = "VARIANCE-STOP"]
        /\ \A i \in Coverage!All : i # c => reports'[i] = reports[i]
    BY <1>3, <1>4, <1>7, <1>10 DEF Coverage!Goto
  <2> PICK f : f = ReportOf(n, None)
    OBVIOUS
  <2>2. /\ f \in Coverage!CaseFiles /\ f.rows = n /\ f.tail = <<>> /\ f.picked = (n >= Coverage!Picked) /\ f.stats = None
    BY <1>3, ReportIsFile
  <2>3. g = [f EXCEPT !.status = "VARIANCE-STOP"] /\ "VARIANCE-STOP" \in CaseStatuses
    BY <2>1 DEF CaseStatuses, Coverage!StatisticalStops
  <2>4. g \in Coverage!CaseFiles /\ g.status = "VARIANCE-STOP" /\ g.rows = f.rows /\ g.tail = f.tail
        /\ g.picked = f.picked /\ g.stats = f.stats
    BY <2>2, <2>3 DEF Coverage!CaseFiles, CaseStatuses
  <2>5. g # None
    BY <2>4 DEF CoverBounds, Coverage!CoverageStudyAssumption
  <2>6. n = ReferenceRuns
    BY <1>3, <1>4, <1>10 DEF Varies
  <2>7. SearchStopped(c)'
    <3>1. Varies(c)' /\ n \in 0..(Coverage!UtilityRuns - 1) /\ Coverage!UtilityRuns' = Coverage!UtilityRuns
      BY <1>3, <1>5, <1>10, <2>6, CoverNumbers DEF Varies, Coverage!UtilityRuns, Coverage!Picked
    <3>2. RowsAreValid(c, n)'
      BY <1>9 DEF RowsAreValid, Coverage!Valid
    <3>3. TailIs(c, g.tail, 0, n)'
      BY <2>2, <2>4 DEF TailIs
    <3> QED
      BY <1>3, <1>9, <2>2, <2>4, <2>6, <3>1, <3>2, <3>3 DEF SearchStopped, Tries
  <2>8. CaseIsSound(c)'
    BY <2>2, <2>4, <2>7 DEF CaseIsSound, Coverage!Picked
  <2>9. FilesRemain
    BY <1>1, <1>2, <1>3, <1>8, <2>1 DEF FilesRemain, FilesStay, CaseRests, AttemptsRemain, AttemptsStay, AuditInv
  <2>10. stage' \notin Running
    BY <2>1 DEF Running, Attempting
  <2>11. CaseIsSound(case)'
    BY <1>1, <2>8
  <2> QED
    BY <1>1, <2>1, <2>4, <2>5, <2>9, <2>10, <2>11, AuditProceeds
<1>11. CASE stable # FALSE
  <2>1. /\ stage' = "run" /\ DOMAIN reports' = Coverage!All /\ reports'[c] = ReportOf(n, None)
        /\ \A i \in Coverage!All : i # c => reports'[i] = reports[i]
    BY <1>3, <1>4, <1>7, <1>11 DEF Coverage!Goto
  <2>2. FilesRemain
    BY <1>1, <1>2, <1>3, <1>8, <2>1 DEF FilesRemain, FilesStay, CaseRests, AttemptsRemain, AttemptsStay, AuditInv
  <2>3. stage' \in Running /\ LatestFollows' /\ stage' # "validate"
    BY <2>1 DEF Running, Attempting, LatestFollows
  <2>4. FilesFollow'
    <3>1. section' = "raw" /\ stage' # "publish" /\ stage' # "freeze" /\ c = case' /\ made' = n
      BY <1>1, <1>2, <2>1
    <3>2. products'[c] = None /\ frozenOn'[c] = None /\ consumed'[c] = None
      BY <1>1, <1>2, <1>6
    <3> QED
      BY <2>1, <3>1, <3>2, FilesFollowOn
  <2>5. reports'[case] # None /\ reports'[case].status # "NOT-RUN"
    <3>1. ReportOf(n, None) \in Coverage!CaseFiles /\ ReportOf(n, None).status = "RUNNING"
      BY <1>3, ReportIsFile
    <3> QED
      BY <2>1, <3>1 DEF CoverBounds, Coverage!CoverageStudyAssumption
  <2> QED
    BY <1>1, <2>2, <2>3, <2>4, <2>5, AuditProceeds
<1> QED
  BY <1>10, <1>11

LEMMA PairRowIsSound ==
  ASSUME CoverInv, CoverBounds, AuditInv, Coverage!Collect, Coverage!PairRowAdded PROVE AuditInv'
<1> PICK c, n : c = case /\ n = made + 1
  OBVIOUS
<1>1. /\ stage = "collect" /\ stage \in Running /\ stage # "publish" /\ AttemptsRemain
      /\ case' = case /\ section' = section /\ attempts' = attempts /\ frozenOn' = frozenOn
      /\ selected' = selected /\ published' = published /\ results' = results
      /\ undisturbed' \in BOOLEAN /\ (undisturbed' => undisturbed)
      /\ undisturbed' => \A k \in 1..Len(attempts'[case]) : Coverage!AttemptVerifies(attempts'[case][k])
  BY CollectRests
<1>2. /\ section = "product" /\ made' = n /\ reports' = reports /\ rates' = rates /\ consumed' = consumed
      /\ products' = [products EXCEPT ![case] = PairsOf("RUNNING", n, FALSE)] /\ stage' = "run" /\ verdict' = verdict
  BY DEF Coverage!PairRowAdded, Coverage!Unevaluated, PairsOf, Coverage!Goto
<1>3. /\ c \in Coverage!All /\ DOMAIN reports = Coverage!All /\ DOMAIN products = Coverage!All /\ made \in Nat
      /\ DOMAIN consumed = Coverage!All /\ n \in Nat /\ n > 0
  BY <1>1, RunningFiles
<1>4. /\ DOMAIN products' = Coverage!All /\ products'[c] = PairsOf("RUNNING", n, FALSE)
      /\ \A i \in Coverage!All : i # c => products'[i] = products[i]
  BY <1>2, <1>3
<1>5. FilesRemain
  BY <1>1, <1>2, <1>3, <1>4 DEF FilesRemain, FilesStay, AuditInv
<1>6. stage' \in Running /\ LatestFollows' /\ stage' # "validate"
  BY <1>2 DEF Running, Attempting, LatestFollows
<1>7. FilesFollow'
  <2>1. /\ reports[case] = ReportOf(Coverage!UtilityRuns, Coverage!GAIN) /\ case \in selected
        /\ frozenOn[case] \in BOOLEAN /\ (undisturbed => frozenOn[case] = FALSE) /\ consumed[case] = None
    BY <1>1, <1>2, PairingFiles
  <2>2. /\ section' = "product" /\ stage' # "publish" /\ c = case' /\ made' = n /\ c \in selected'
        /\ frozenOn'[c] \in BOOLEAN /\ (undisturbed' => frozenOn'[c] = FALSE) /\ consumed'[c] = None
        /\ reports'[c] = ReportOf(Coverage!UtilityRuns, Coverage!GAIN)
    BY <1>1, <1>2, <2>1
  <2>3. products'[c] = (IF stage' = "publish" THEN PairsOf("PASS-MEASUREMENT", BlockRuns, TRUE)
                        ELSE IF made' > 0 THEN PairsOf("RUNNING", made', FALSE) ELSE None)
    BY <1>3, <1>4, <2>2
  <2> QED
    BY <2>2, <2>3, FilesFollowOn
<1>8. reports'[case] # None /\ reports'[case].status # "NOT-RUN"
  BY <1>1, <1>2, RunningFiles DEF AuditInv, CasesAreTold
<1> QED
  BY <1>1, <1>5, <1>6, <1>7, <1>8, AuditProceeds

LEMMA CollectIsSound == ASSUME CoverInv, CoverBounds, AuditInv, Coverage!Collect PROVE AuditInv'
<1>1. CASE Coverage!Differs
  <2>1. TailFollows(<<returnedRun>>)
    BY CollectRests DEF TailFollows
  <2>2. /\ Coverage!Raise("value", <<returnedRun>>) /\ returnedRun.status = "measured"
        /\ made' = made /\ rates' = rates /\ consumed' = consumed
    BY <1>1 DEF Coverage!Differs
  <2> QED
    BY <2>1, <2>2, DiffersIsSound
<1> QED
  BY <1>1, StoppedIsSound, RowIsSound, PairRowIsSound, ConsumedIsSound DEF Coverage!Collect

-----------------------------------------------------------------------------
(* The verdicts leave files that are sound *)

(* A running case at a step that makes no attempt. *)
LEMMA QuietFiles ==
  ASSUME CoverInv, CoverBounds, AuditInv, stage \in Running \ Attempting, attempts' = attempts, NEW c, c = case
  PROVE  /\ stage \in Running /\ c \in Coverage!All /\ AttemptsRemain /\ ~Varies(c) /\ made \in Nat
         /\ DOMAIN reports = Coverage!All /\ DOMAIN products = Coverage!All /\ DOMAIN consumed = Coverage!All
         /\ rates \in [Coverage!All -> VerdictRecords] /\ consumed[c] = None /\ undisturbed \in BOOLEAN
         /\ selected \subseteq Coverage!All /\ DOMAIN frozenOn = Coverage!All
         /\ undisturbed => \A k \in 1..Len(attempts'[case]) : Coverage!AttemptVerifies(attempts'[case][k])
         /\ Len(attempts'[c]) = RunsBefore(section) + made
         /\ \A k \in 1..(RunsBefore(section) + made) : Coverage!Valid(attempts'[c][k])
<1>1. stage \in Running /\ stage \notin Attempting
  OBVIOUS
<1>2. AttemptsRemain
  BY <1>1, SameAttempts DEF AttemptsRemain
<1>3. /\ Len(attempts'[c]) = RunsBefore(section) + made
      /\ \A k \in 1..(RunsBefore(section) + made) : Coverage!Valid(attempts'[c][k])
  BY <1>1, <1>2, RowsStayValid
<1>4. undisturbed => \A k \in 1..Len(attempts'[case]) : Coverage!AttemptVerifies(attempts'[case][k])
  BY <1>1, EntriesStayVerified
<1> QED
  BY <1>1, <1>2, <1>3, <1>4, RunningFiles DEF CoverInv, CoverIsTyped, AuditInv

LEMMA EvaluateIsSound == ASSUME CoverInv, CoverBounds, AuditInv, Coverage!Evaluate PROVE AuditInv'
<1> PICK c : c = case
  OBVIOUS
<1> PICK U : U = Coverage!UtilityRuns
  OBVIOUS
<1>1. /\ stage = "run" /\ stage \in Running \ Attempting /\ section = "raw" /\ made = U /\ attempts' = attempts
      /\ case' = case /\ section' = section /\ made' = made /\ results' = results /\ undisturbed' = undisturbed
      /\ products' = products /\ frozenOn' = frozenOn /\ published' = published /\ consumed' = consumed
  BY DEF Coverage!Evaluate, Running, Attempting
<1>2. PICK v \in Coverage!NoGain \cup {"VARIANCE-STOP", Coverage!GAIN}, sealed \in BOOLEAN :
        /\ rates' = [rates EXCEPT ![c].utility = v]
        /\ selected' = IF v = Coverage!GAIN /\ sealed THEN selected \cup {c} ELSE selected
        /\ reports' = [reports EXCEPT ![c].stats = v,
                                      ![c].status = CASE v # Coverage!GAIN -> v
                                                      [] v = Coverage!GAIN /\ sealed -> "RUNNING"
                                                      [] OTHER -> "VALIDATION-STOP"]
        /\ Coverage!Goto(IF v = Coverage!GAIN /\ sealed THEN "freeze" ELSE "validate")
  BY DEF Coverage!Evaluate
<1>3. /\ stage \in Running /\ c \in Coverage!All /\ AttemptsRemain /\ ~Varies(c) /\ made \in Nat
      /\ DOMAIN reports = Coverage!All /\ DOMAIN products = Coverage!All /\ DOMAIN consumed = Coverage!All
      /\ rates \in [Coverage!All -> VerdictRecords] /\ consumed[c] = None /\ undisturbed \in BOOLEAN
      /\ selected \subseteq Coverage!All
      /\ undisturbed' => \A k \in 1..Len(attempts'[case]) : Coverage!AttemptVerifies(attempts'[case][k])
      /\ Len(attempts'[c]) = U /\ \A k \in 1..U : Coverage!Valid(attempts'[c][k])
  BY <1>1, QuietFiles DEF RunsBefore
<1>4. reports[c] = ReportOf(U, None) /\ products[c] = None /\ frozenOn[c] = None
  BY <1>1, <1>3, SearchFiles
<1> PICK f : f = ReportOf(U, None)
  OBVIOUS
<1>5. /\ f \in Coverage!CaseFiles /\ f.status = "RUNNING" /\ f.rows = U /\ f.tail = <<>>
      /\ f.picked = (U >= Coverage!Picked) /\ f.stats = None
  BY <1>1, <1>3, ReportIsFile
<1> PICK s : s = CASE v # Coverage!GAIN -> v
                   [] v = Coverage!GAIN /\ sealed -> "RUNNING"
                   [] OTHER -> "VALIDATION-STOP"
  OBVIOUS
<1>6. /\ v # Coverage!GAIN => s = v
      /\ v = Coverage!GAIN /\ sealed => s = "RUNNING"
      /\ v = Coverage!GAIN /\ ~sealed => s = "VALIDATION-STOP"
  OBVIOUS
<1>7. s \in CaseStatuses /\ s # "NOT-RUN"
  BY <1>6 DEF CaseStatuses, Coverage!StatisticalStops, Coverage!Failures, Coverage!NoGain, Coverage!PRODUCT
<1> PICK g : g = reports'[c]
  OBVIOUS
<1>8. /\ DOMAIN reports' = Coverage!All /\ \A i \in Coverage!All : i # c => reports'[i] = reports[i]
      /\ g = [[f EXCEPT !.stats = v] EXCEPT !.status = s]
  BY <1>2, <1>3, <1>4
<1>9. /\ g \in Coverage!CaseFiles /\ g.status = s /\ g.rows = U /\ g.tail = <<>> /\ g.picked = f.picked /\ g.stats = v
  <2>1. [f EXCEPT !.stats = v] \in Coverage!CaseFiles
    BY <1>5 DEF Coverage!CaseFiles
  <2> PICK h : h = [f EXCEPT !.stats = v]
    OBVIOUS
  <2>2. h.rows = U /\ h.tail = <<>> /\ h.picked = f.picked /\ h.stats = v
    BY <1>5 DEF Coverage!CaseFiles
  <2>3. g = [h EXCEPT !.status = s]
    BY <1>8
  <2> QED
    BY <1>7, <2>1, <2>2, <2>3 DEF Coverage!CaseFiles, CaseStatuses
<1>10. g # None
  BY <1>9 DEF CoverBounds, Coverage!CoverageStudyAssumption
<1>11. /\ rates'[c].utility = v /\ rates'[c].stable = rates[c].stable
       /\ \A i \in Coverage!All : i # c => rates'[i] = rates[i]
  BY <1>2, <1>3 DEF VerdictRecords
<1>12. ~Varies(c)' /\ RowsAreValid(c, U)' /\ U = Coverage!UtilityRuns' /\ Len(attempts'[c]) = U
  BY <1>3, <1>11 DEF Varies, RowsAreValid, Coverage!Valid, Coverage!UtilityRuns, Coverage!Picked
<1>13. verdict' = verdict /\ stage' = IF v = Coverage!GAIN /\ sealed THEN "freeze" ELSE "validate"
  BY <1>2 DEF Coverage!Goto
<1>14. FilesRemain
  <2>1. /\ selected' \subseteq Coverage!All
        /\ \A i \in Coverage!All : i # case => (i \in selected' <=> i \in selected)
    BY <1>2, <1>3
  <2>2. undisturbed' \in BOOLEAN /\ (undisturbed' => undisturbed)
    BY <1>1, <1>3
  <2> QED
    BY <1>1, <1>3, <1>8, <1>11, <1>13, <2>1, <2>2 DEF FilesRemain, FilesStay
<1>15. CASE ~(v = Coverage!GAIN /\ sealed)
  <2>1. stage' = "validate" /\ stage' \notin Running
    BY <1>13, <1>15 DEF Running, Attempting
  <2>2. CaseIsSound(c)'
    <3>1. g.picked = (g.rows >= Coverage!Picked)
      BY <1>5, <1>9
    <3>2. CASE v # Coverage!GAIN
      <4>1. SearchEnded(c)'
        BY <1>6, <1>9, <1>11, <1>12, <3>2 DEF SearchEnded, Tries, Coverage!GAIN
      <4> QED
        BY <3>1, <4>1 DEF CaseIsSound, Coverage!Picked
    <3>3. CASE v = Coverage!GAIN
      <4>1. Won(c)'
        BY <1>9, <1>11, <1>12, <3>3 DEF Won, Coverage!GAIN
      <4>2. NotPaired(c)'
        BY <1>1, <1>4, <1>6, <1>9, <1>12, <1>15, <3>3 DEF NotPaired, Tries
      <4> QED
        BY <3>1, <4>1, <4>2 DEF CaseIsSound, Coverage!Picked
    <3> QED
      BY <3>2, <3>3
  <2>3. CaseIsSound(case)'
    BY <1>1, <2>2
  <2> QED
    BY <1>3, <1>7, <1>9, <1>10, <1>14, <2>1, <2>3, AuditProceeds
<1>16. CASE v = Coverage!GAIN /\ sealed
  <2>1. stage' = "freeze" /\ stage' \in Running /\ stage' # "validate" /\ LatestFollows' /\ c \in selected'
    BY <1>2, <1>13, <1>16 DEF Running, Attempting, LatestFollows
  <2>2. g = ReportOf(U, Coverage!GAIN)
    <3> PICK h : h = ReportOf(U, Coverage!GAIN)
      OBVIOUS
    <3>1. /\ h \in Coverage!CaseFiles /\ h.status = "RUNNING" /\ h.rows = U /\ h.tail = <<>>
          /\ h.picked = (U >= Coverage!Picked) /\ h.stats = Coverage!GAIN
      BY <1>1, <1>3, ReportIsFile
    <3>2. h.picked = g.picked
      BY <1>5, <1>9, <3>1, Zenon
    <3>3. g.status = h.status /\ g.rows = h.rows /\ g.tail = h.tail /\ g.stats = h.stats /\ g \in Coverage!CaseFiles
      BY <1>6, <1>9, <1>16, <3>1
    <3>4. h \in Coverage!CaseFiles
      BY <3>1
    <3> HIDE <1>5, <1>9, <3>1
    <3> QED
      BY <3>2, <3>3, <3>4 DEF Coverage!CaseFiles
  <2>3. FilesFollow'
    <3>1. c = case' /\ section' = "raw" /\ made' = U /\ products'[c] = None /\ frozenOn'[c] = None /\ consumed'[c] = None
      BY <1>1, <1>3, <1>4
    <3> QED
      BY <2>1, <2>2, <3>1, FilesFollowOn
  <2> QED
    BY <1>3, <1>7, <1>9, <1>10, <1>14, <2>1, <2>3, AuditProceeds
<1> QED
  BY <1>15, <1>16

LEMMA FreezeIsSound ==
  ASSUME CoverInv, CoverBounds, AuditInv, shifted \in BOOLEAN, Coverage!Freeze PROVE AuditInv'
<1> PICK c : c = case
  OBVIOUS
<1> PICK U : U = Coverage!UtilityRuns
  OBVIOUS
<1>1. /\ stage = "freeze" /\ stage \in Running \ Attempting /\ attempts' = attempts /\ section' = "product" /\ made' = 0
      /\ case' = case /\ results' = results /\ rates' = rates /\ selected' = selected
      /\ products' = products /\ published' = published /\ consumed' = consumed
  BY DEF Coverage!Freeze, Running, Attempting
<1>2. section = "raw" /\ made = U /\ rates[c].utility = Coverage!GAIN
  BY <1>1 DEF CoverInv, RowsAreAttempts
<1>3. /\ stage \in Running /\ c \in Coverage!All /\ AttemptsRemain /\ ~Varies(c) /\ made \in Nat
      /\ DOMAIN reports = Coverage!All /\ DOMAIN products = Coverage!All /\ DOMAIN consumed = Coverage!All
      /\ consumed[c] = None /\ undisturbed \in BOOLEAN
      /\ selected \subseteq Coverage!All /\ DOMAIN frozenOn = Coverage!All
      /\ undisturbed => \A k \in 1..Len(attempts'[case]) : Coverage!AttemptVerifies(attempts'[case][k])
      /\ Len(attempts'[c]) = U /\ \A k \in 1..U : Coverage!Valid(attempts'[c][k])
  BY <1>1, <1>2, QuietFiles DEF RunsBefore
<1>4. /\ reports[c] = ReportOf(U, Coverage!GAIN) /\ products[c] = None /\ frozenOn[c] = None /\ c \in selected
  <2>1. FilesFollow /\ Gaining
    BY <1>1, <1>3, RunningFiles DEF Gaining
  <2>2. reports[c] = ReportOf(U, Coverage!GAIN) /\ frozenOn[c] = None /\ c \in selected
    BY <1>2, <2>1 DEF FilesFollow
  <2>3. products[c] = None
    BY <1>1, <1>2, <2>1 DEF FilesFollow
  <2> QED
    BY <2>2, <2>3
<1>5. undisturbed' \in BOOLEAN /\ (undisturbed' => undisturbed /\ ~shifted)
  <2>1. undisturbed' = (undisturbed /\ ~shifted)
    BY DEF Coverage!Freeze, Coverage!Quiet
  <2> QED
    BY <2>1, Zenon
<1>6. RowsAreValid(c, U)' /\ U = Coverage!UtilityRuns'
  BY <1>3 DEF RowsAreValid, Coverage!Valid, Coverage!UtilityRuns, Coverage!Picked
<1>7. undisturbed' => \A k \in 1..Len(attempts'[case]) : Coverage!AttemptVerifies(attempts'[case][k])
  BY <1>3, <1>5
<1>8. CASE frozenOn' = [frozenOn EXCEPT ![case] = shifted] /\ Coverage!Goto("run") /\ reports' = reports
  <2>1. stage' = "run" /\ verdict' = verdict /\ stage' \in Running /\ stage' # "validate" /\ stage' # "publish" /\ LatestFollows'
    BY <1>8 DEF Coverage!Goto, Running, Attempting, LatestFollows
  <2>2. frozenOn'[c] = shifted /\ \A i \in Coverage!All : i # c => frozenOn'[i] = frozenOn[i]
    BY <1>3, <1>8
  <2>3. FilesRemain
    BY <1>1, <1>3, <1>5, <1>8, <2>1, <2>2 DEF FilesRemain, FilesStay
  <2>4. frozenOn'[c] \in BOOLEAN /\ (undisturbed' => frozenOn'[c] = FALSE)
    BY <1>5, <2>2
  <2>5. FilesFollow'
    <3>1. /\ c = case' /\ section' = "product" /\ reports'[c] = ReportOf(U, Coverage!GAIN) /\ c \in selected'
          /\ consumed'[c] = None
      BY <1>1, <1>3, <1>4, <1>8
    <3>2. products'[c] = (IF stage' = "publish" THEN PairsOf("PASS-MEASUREMENT", BlockRuns, TRUE)
                          ELSE IF made' > 0 THEN PairsOf("RUNNING", made', FALSE) ELSE None)
      BY <1>1, <1>4, <2>1
    <3> QED
      BY <1>6, <2>4, <3>1, <3>2, FilesFollowOn
  <2>6. reports'[case] # None /\ reports'[case].status # "NOT-RUN"
    BY <1>3, <1>8, RunningFiles DEF AuditInv, CasesAreTold
  <2> QED
    BY <1>3, <1>7, <2>1, <2>3, <2>5, <2>6, AuditProceeds
<1>9. CASE /\ reports' = [reports EXCEPT ![case].status = "VALIDATION-STOP"] /\ Coverage!Goto("validate")
           /\ frozenOn' = frozenOn
  <2>1. /\ Rewritten(c, "VALIDATION-STOP", <<>>) /\ DOMAIN reports' = Coverage!All
        /\ \A i \in Coverage!All : i # c => reports'[i] = reports[i]
    BY <1>3, <1>9, StatusIsRewritten
  <2>2. "VALIDATION-STOP" \in CaseStatuses /\ <<>> \in Seq(Coverage!Ends)
    BY DEF CaseStatuses, Coverage!Failures
  <2>3. ReportEnds(c, "VALIDATION-STOP", <<>>)
    BY <1>3, <2>1, <2>2, ReportIsEnded
  <2>4. CaseIsSound(c)'
    <3>1. /\ reports'[c].rows = U /\ reports'[c].tail = <<>> /\ reports'[c].stats = Coverage!GAIN
          /\ reports'[c].status = "VALIDATION-STOP" /\ reports'[c].picked = (reports'[c].rows >= Coverage!Picked)
      BY <1>1, <1>2, <2>3 DEF ReportEnds, Gaining
    <3>2. Won(c)'
      BY <1>1, <1>2, <1>3, <1>6, <3>1 DEF Won, Varies, Coverage!GAIN
    <3>3. NotPaired(c)'
      BY <1>1, <1>3, <1>4, <1>6, <3>1 DEF NotPaired, Tries
    <3> QED
      BY <3>1, <3>2, <3>3 DEF CaseIsSound, Coverage!Picked
  <2>5. CaseRests /\ stage' = "validate" /\ verdict' = verdict /\ DOMAIN products' = Coverage!All
        /\ \A i \in Coverage!All : i # c => products'[i] = products[i]
    BY <1>1, <1>3, <1>5, <1>7, <1>9 DEF CaseRests, Coverage!Goto
  <2> QED
    BY <1>3, <2>1, <2>2, <2>4, <2>5, CaseIsOver
<1> QED
  BY <1>8, <1>9 DEF Coverage!Freeze

(* The product of a case whose pairs are complete, and that stops there. *)
LEMMA PairsAreOver ==
  ASSUME CoverInv, CoverBounds, AuditInv, stage \in Running \ Attempting, section = "product", made = BlockRuns,
         attempts' = attempts, frozenOn' = frozenOn, selected' = selected, undisturbed, NEW c, c = case,
         NEW s, s \in CaseStatuses, Rewritten(c, s, <<>>),
         NEW t \in PairStatuses, NEW e \in BOOLEAN, products'[c] = PairsOf(t, made, e),
         rates'[c].stable = rates[c].stable, rates'[c].utility = rates[c].utility,
         rates'[c].product \in Coverage!PairVerdicts,
         IF rates'[c].product = "PASS-MEASUREMENT"
         THEN t = "VALIDATION-STOP" /\ s = "VALIDATION-STOP"
         ELSE t \in {rates'[c].product, "VALIDATION-STOP"} /\ s = "PRODUCT-VALIDATION-STOP"
  PROVE  CaseIsSound(c)'
<1> PICK U : U = Coverage!UtilityRuns
  OBVIOUS
<1>1. /\ stage \in Running /\ c \in Coverage!All /\ ~Varies(c) /\ Gaining /\ rates[c].utility = Coverage!GAIN
      /\ Len(attempts'[c]) = U + BlockRuns /\ \A k \in 1..(U + BlockRuns) : Coverage!Valid(attempts'[c][k])
      /\ U \in Nat /\ BlockRuns \in Nat
  <2>1. RunsBefore(section) + made = U + BlockRuns
    BY DEF RunsBefore
  <2> QED
    BY <2>1, QuietFiles, CoverNumbers DEF Gaining, CoverInv, RowsAreAttempts
<1>2. c \in selected /\ frozenOn[c] = FALSE
  BY <1>1, PairingFiles
<1>3. <<>> \in Seq(Coverage!Ends)
  OBVIOUS
<1>4. /\ reports'[c].rows = U /\ reports'[c].tail = <<>> /\ reports'[c].stats = Coverage!GAIN /\ reports'[c].status = s
      /\ reports'[c].picked = (reports'[c].rows >= Coverage!Picked)
  <2>1. ReportEnds(c, s, <<>>)
    BY <1>1, <1>3, ReportIsEnded
  <2> QED
    BY <1>1, <2>1 DEF ReportEnds
<1>5. RowsAreValid(c, U)' /\ RowsAreValid(c, U + BlockRuns)' /\ U = Coverage!UtilityRuns'
  <2>1. \A k \in 1..U : k \in 1..(U + BlockRuns)
    BY <1>1
  <2>2. \A k \in 1..U : Coverage!Valid(attempts'[c][k])
    BY <1>1, <2>1
  <2>3. RowsAreValid(c, U)'
    BY <2>2 DEF RowsAreValid, Coverage!Valid
  <2>4. RowsAreValid(c, U + BlockRuns)'
    BY <1>1 DEF RowsAreValid, Coverage!Valid
  <2> QED
    BY <2>3, <2>4 DEF Coverage!UtilityRuns, Coverage!Picked
<1>6. Won(c)'
  BY <1>1, <1>4, <1>5 DEF Won, Varies, Coverage!GAIN
<1> PICK b : b = products'[c]
  OBVIOUS
<1>7. b \in Coverage!PairFiles /\ b.status = t /\ b.rows = BlockRuns /\ b.tail = <<>>
  <2>1. b = [status |-> t, rows |-> BlockRuns, tail |-> <<>>, evaluated |-> e]
    BY DEF PairsOf
  <2>2. b \in Coverage!PairFiles
    BY <1>1, <1>3, <2>1, PairsAreFile
  <2>3. b.status = t /\ b.rows = BlockRuns /\ b.tail = <<>>
    BY <2>1
  <2> QED
    BY <2>2, <2>3
<1>8. PairsFrozen(c)'
  BY <1>2, <1>7 DEF PairsFrozen, Coverage!PairFiles, Coverage!Ends, Coverage!PairVerdicts, Coverage!Failures
<1>9. PairsEnded(c)'
  BY <1>1, <1>4, <1>5, <1>7 DEF PairsEnded, Tries, Coverage!PairVerdicts
<1> QED
  BY <1>4, <1>6, <1>8, <1>9 DEF CaseIsSound, Coverage!Picked

LEMMA EvaluatePairsIsSound ==
  ASSUME CoverInv, CoverBounds, AuditInv, Coverage!EvaluatePairs PROVE AuditInv'
<1> PICK c : c = case
  OBVIOUS
<1>1. /\ stage = "run" /\ stage \in Running \ Attempting /\ stage # "publish" /\ section = "product" /\ made = BlockRuns
      /\ attempts' = attempts /\ case' = case /\ section' = section /\ made' = made /\ results' = results
      /\ undisturbed' = undisturbed /\ frozenOn' = frozenOn /\ selected' = selected
      /\ published' = published /\ consumed' = consumed
  BY DEF Coverage!EvaluatePairs, Running, Attempting
<1>2. PICK v \in Coverage!PairVerdicts :
        /\ rates' = [rates EXCEPT ![c].product = v]
        /\ \/ \E e \in BOOLEAN : Coverage!ProductEnds(PairsOf("VALIDATION-STOP", made, e))
           \/ v # "PASS-MEASUREMENT" /\ Coverage!ProductEnds(PairsOf(v, made, TRUE))
           \/ /\ v = "PASS-MEASUREMENT"
              /\ products' = [products EXCEPT ![c].status = v, ![c].evaluated = TRUE]
              /\ Coverage!Goto("publish") /\ reports' = reports
  BY PairsAreJudged, Zenon
<1>3. /\ stage \in Running /\ c \in Coverage!All /\ AttemptsRemain
      /\ DOMAIN reports = Coverage!All /\ DOMAIN products = Coverage!All /\ DOMAIN consumed = Coverage!All
      /\ rates \in [Coverage!All -> VerdictRecords] /\ consumed[c] = None /\ undisturbed \in BOOLEAN
      /\ selected \subseteq Coverage!All
      /\ undisturbed' => \A k \in 1..Len(attempts'[case]) : Coverage!AttemptVerifies(attempts'[case][k])
  BY <1>1, QuietFiles
<1>4. /\ rates'[c].product = v /\ rates'[c].utility = rates[c].utility /\ rates'[c].stable = rates[c].stable
      /\ \A i \in Coverage!All : i # c => rates'[i] = rates[i]
  BY <1>2, <1>3 DEF VerdictRecords
<1>5. BlockRuns \in Nat \ {0} /\ BlockRuns > 0
  BY CoverNumbers
<1>6. CaseRests
  BY <1>1, <1>3, <1>4 DEF CaseRests
<1>7. ASSUME NEW t \in {v, "VALIDATION-STOP"}, v = "PASS-MEASUREMENT" => t = "VALIDATION-STOP",
             NEW e \in BOOLEAN, Coverage!ProductEnds(PairsOf(t, made, e))
      PROVE  AuditInv'
  <2> PICK s : s = IF v # "PASS-MEASUREMENT" THEN "PRODUCT-VALIDATION-STOP" ELSE t
    OBVIOUS
  <2> PICK b : b = PairsOf(t, made, e)
    OBVIOUS
  <2>1. b.rows = BlockRuns /\ b.status = t /\ Coverage!ProductEnds(b)
    BY <1>1, <1>7 DEF PairsOf
  <2>2. /\ stage' = "validate" /\ verdict' = verdict /\ DOMAIN reports' = Coverage!All /\ DOMAIN products' = Coverage!All
        /\ \A i \in Coverage!All : i # c => reports'[i] = reports[i] /\ products'[i] = products[i]
        /\ Rewritten(c, s, <<>>)
        /\ products'[c] = b
    BY <1>3, <1>4, <2>1, ProductEndsSo
  <2>3. s \in CaseStatuses /\ t \in PairStatuses /\ <<>> \in Seq(Coverage!Ends)
    BY <1>7 DEF CaseStatuses, PairStatuses, Coverage!StatisticalStops, Coverage!Failures, Coverage!PairVerdicts
  <2>4. undisturbed => CaseIsSound(c)'
    BY <1>1, <1>4, <1>7, <2>2, <2>3, PairsAreOver
  <2> QED
    BY <1>1, <1>3, <1>6, <2>2, <2>3, <2>4, CaseIsOver
<1>8. ASSUME v = "PASS-MEASUREMENT", products' = [products EXCEPT ![c].status = v, ![c].evaluated = TRUE],
             Coverage!Goto("publish"), reports' = reports
      PROVE  AuditInv'
  <2>1. stage' = "publish" /\ verdict' = verdict /\ stage' \in Running /\ stage' # "validate" /\ LatestFollows'
    BY <1>8 DEF Coverage!Goto, Running, Attempting, LatestFollows
  <2>2. /\ reports[c] = ReportOf(Coverage!UtilityRuns, Coverage!GAIN) /\ c \in selected
        /\ frozenOn[c] \in BOOLEAN /\ (undisturbed => frozenOn[c] = FALSE)
        /\ products[c] = PairsOf("RUNNING", BlockRuns, FALSE)
    BY <1>1, <1>3, <1>5, PairingFiles
  <2>3. /\ [PairsOf("RUNNING", BlockRuns, FALSE) EXCEPT !.status = v] = PairsOf(v, BlockRuns, FALSE)
        /\ [PairsOf(v, BlockRuns, FALSE) EXCEPT !.evaluated = TRUE] = PairsOf(v, BlockRuns, TRUE)
    <3>1. \A e \in BOOLEAN : [PairsOf("RUNNING", BlockRuns, e) EXCEPT !.status = v] = PairsOf(v, BlockRuns, e)
      BY PairsAreRewritten
    <3>2. \A d, e \in BOOLEAN : [PairsOf(v, BlockRuns, d) EXCEPT !.evaluated = e] = PairsOf(v, BlockRuns, e)
      BY PairsAreRewritten
    <3>3. [PairsOf("RUNNING", BlockRuns, FALSE) EXCEPT !.status = v] = PairsOf(v, BlockRuns, FALSE)
      BY <3>1, Zenon
    <3>4. [PairsOf(v, BlockRuns, FALSE) EXCEPT !.evaluated = TRUE] = PairsOf(v, BlockRuns, TRUE)
      BY <3>2, Zenon
    <3> QED
      BY <3>3, <3>4
  <2>4. /\ DOMAIN products' = Coverage!All /\ products'[c] = PairsOf("PASS-MEASUREMENT", BlockRuns, TRUE)
        /\ \A i \in Coverage!All : i # c => products'[i] = products[i]
    <3> PICK w : w = [products EXCEPT ![c].status = v]
      OBVIOUS
    <3>1. /\ DOMAIN w = Coverage!All /\ w[c] = PairsOf(v, BlockRuns, FALSE)
          /\ \A i \in Coverage!All : i # c => w[i] = products[i]
      BY <1>3, <2>2, <2>3
    <3>2. products' = [w EXCEPT ![c].evaluated = TRUE]
      BY <1>8
    <3> QED
      BY <1>3, <1>8, <2>3, <3>1, <3>2
  <2>5. FilesRemain
    BY <1>1, <1>3, <1>4, <1>8, <2>1, <2>4 DEF FilesRemain, FilesStay
  <2>6. FilesFollow'
    <3>1. /\ c = case' /\ section' = "product" /\ reports'[c] = ReportOf(Coverage!UtilityRuns', Coverage!GAIN)
          /\ c \in selected' /\ consumed'[c] = None /\ frozenOn'[c] \in BOOLEAN /\ (undisturbed' => frozenOn'[c] = FALSE)
      BY <1>1, <1>3, <1>8, <2>2 DEF Coverage!UtilityRuns, Coverage!Picked
    <3> QED
      BY <2>1, <2>4, <3>1, FilesFollowOn
  <2>7. reports'[case] # None /\ reports'[case].status # "NOT-RUN"
    BY <1>3, <1>8, RunningFiles DEF AuditInv, CasesAreTold
  <2> QED
    BY <1>3, <2>1, <2>5, <2>6, <2>7, AuditProceeds
<1>9. CASE \E e \in BOOLEAN : Coverage!ProductEnds(PairsOf("VALIDATION-STOP", made, e))
  BY <1>7, <1>9
<1>10. CASE v # "PASS-MEASUREMENT" /\ Coverage!ProductEnds(PairsOf(v, made, TRUE))
  BY <1>7, <1>10
<1> QED
  BY <1>2, <1>8, <1>9, <1>10

LEMMA PublishIsSound ==
  ASSUME CoverInv, CoverBounds, AuditInv, Coverage!Publish PROVE AuditInv'
<1> PICK c : c = case
  OBVIOUS
<1>1. /\ stage = "publish" /\ stage \in Running \ Attempting /\ attempts' = attempts /\ case' = case
      /\ results' = results /\ rates' = rates /\ frozenOn' = frozenOn /\ selected' = selected /\ consumed' = consumed
  BY DEF Coverage!Publish, Running, Attempting
<1>2. section = "product" /\ made = BlockRuns /\ rates[c].product = "PASS-MEASUREMENT"
  BY <1>1 DEF CoverInv, RowsAreAttempts
<1>3. /\ stage \in Running /\ c \in Coverage!All /\ AttemptsRemain
      /\ DOMAIN reports = Coverage!All /\ DOMAIN products = Coverage!All /\ DOMAIN consumed = Coverage!All
      /\ rates \in [Coverage!All -> VerdictRecords] /\ consumed[c] = None /\ undisturbed \in BOOLEAN
      /\ selected \subseteq Coverage!All
      /\ undisturbed => \A k \in 1..Len(attempts'[case]) : Coverage!AttemptVerifies(attempts'[case][k])
  BY <1>1, QuietFiles
<1>4. /\ reports[c] = ReportOf(Coverage!UtilityRuns, Coverage!GAIN) /\ c \in selected
      /\ frozenOn[c] \in BOOLEAN /\ (undisturbed => frozenOn[c] = FALSE)
      /\ products[c] = PairsOf("PASS-MEASUREMENT", BlockRuns, TRUE)
  BY <1>1, <1>2, <1>3, PairingFiles
<1>5. ASSUME NEW t, products' = [products EXCEPT ![case].status = t]
      PROVE  /\ DOMAIN products' = Coverage!All /\ products'[c] = PairsOf(t, BlockRuns, TRUE)
             /\ \A i \in Coverage!All : i # c => products'[i] = products[i]
  <2>1. [PairsOf("PASS-MEASUREMENT", BlockRuns, TRUE) EXCEPT !.status = t] = PairsOf(t, BlockRuns, TRUE)
    <3>1. \A e \in BOOLEAN : [PairsOf("PASS-MEASUREMENT", BlockRuns, e) EXCEPT !.status = t] = PairsOf(t, BlockRuns, e)
      BY PairsAreRewritten
    <3> QED
      BY <3>1, Zenon
  <2> QED
    BY <1>3, <1>4, <1>5, <2>1
<1>6. "VALIDATION-STOP" \in CaseStatuses /\ "VALIDATION-STOP" \in PairStatuses /\ <<>> \in Seq(Coverage!Ends)
  BY DEF CaseStatuses, PairStatuses, Coverage!Failures
<1>7. ASSUME reports' = [reports EXCEPT ![case].status = "VALIDATION-STOP"], Coverage!Goto("validate")
      PROVE  /\ Rewritten(c, "VALIDATION-STOP", <<>>) /\ DOMAIN reports' = Coverage!All
             /\ \A i \in Coverage!All : i # c => reports'[i] = reports[i]
             /\ stage' = "validate" /\ verdict' = verdict
  BY <1>3, <1>7, StatusIsRewritten DEF Coverage!Goto
<1>8. ASSUME published' = published \cup {case}, products' = [products EXCEPT ![case].status = "PASS-STOCK-FALLBACK"],
             section' = "consumer", made' = 0, Coverage!Goto("run"), reports' = reports, undisturbed' = undisturbed
      PROVE  AuditInv'
  <2>1. stage' = "run" /\ verdict' = verdict /\ stage' \in Running /\ stage' # "validate" /\ stage' # "publish" /\ LatestFollows'
    BY <1>8 DEF Coverage!Goto, Running, Attempting, LatestFollows
  <2>2. /\ DOMAIN products' = Coverage!All /\ products'[c] = PairsOf("PASS-STOCK-FALLBACK", BlockRuns, TRUE)
        /\ \A i \in Coverage!All : i # c => products'[i] = products[i]
    BY <1>5, <1>8
  <2>3. FilesRemain
    BY <1>1, <1>3, <1>8, <2>1, <2>2 DEF FilesRemain, FilesStay
  <2>4. FilesFollow'
    <3>1. /\ c = case' /\ reports'[c] = ReportOf(Coverage!UtilityRuns', Coverage!GAIN)
          /\ c \in selected' /\ consumed'[c] = None /\ frozenOn'[c] \in BOOLEAN /\ (undisturbed' => frozenOn'[c] = FALSE)
      BY <1>1, <1>3, <1>4, <1>8 DEF Coverage!UtilityRuns, Coverage!Picked
    <3> QED
      BY <1>8, <2>1, <2>2, <3>1, FilesFollowOn
  <2>5. reports'[case] # None /\ reports'[case].status # "NOT-RUN"
    BY <1>3, <1>8, RunningFiles DEF AuditInv, CasesAreTold
  <2> QED
    BY <1>3, <1>8, <2>1, <2>3, <2>4, <2>5, AuditProceeds
<1>9. ASSUME products' = [products EXCEPT ![case].status = "VALIDATION-STOP"], published' = published,
             reports' = [reports EXCEPT ![case].status = "VALIDATION-STOP"], Coverage!Goto("validate"),
             undisturbed' = undisturbed
      PROVE  AuditInv'
  <2>1. /\ DOMAIN products' = Coverage!All
        /\ products'[c] = PairsOf("VALIDATION-STOP", made, TRUE)
        /\ \A i \in Coverage!All : i # c => products'[i] = products[i]
    BY <1>2, <1>5, <1>9 DEF PairsOf
  <2>2. CaseRests
    BY <1>1, <1>3, <1>9 DEF CaseRests
  <2>3. /\ rates'[c].stable = rates[c].stable /\ rates'[c].utility = rates[c].utility
        /\ rates'[c].product = "PASS-MEASUREMENT" /\ rates'[c].product \in Coverage!PairVerdicts
    BY <1>1, <1>2 DEF Coverage!PairVerdicts
  <2>4. undisturbed => CaseIsSound(c)'
    BY <1>1, <1>2, <1>6, <1>7, <1>9, <2>1, <2>3, PairsAreOver
  <2> QED
    BY <1>3, <1>6, <1>7, <1>9, <2>1, <2>2, <2>4, CaseIsOver
<1>10. ASSUME reports' = [reports EXCEPT ![case].status = "VALIDATION-STOP"], Coverage!Goto("validate"),
              Coverage!Quiet(FALSE), published' = published, products' = products
       PROVE  AuditInv'
  <2>1. undisturbed' \in BOOLEAN /\ ~undisturbed'
    <3>1. undisturbed' = FALSE
      BY <1>10, Zenon DEF Coverage!Quiet
    <3> QED
      BY <3>1, Zenon
  <2>2. CaseRests /\ DOMAIN products' = Coverage!All /\ \A i \in Coverage!All : i # c => products'[i] = products[i]
    BY <1>1, <1>3, <1>10, <2>1 DEF CaseRests
  <2> QED
    BY <1>3, <1>6, <1>7, <1>10, <2>1, <2>2, CaseIsOver
<1> QED
  BY <1>8, <1>9, <1>10 DEF Coverage!Publish

-----------------------------------------------------------------------------
(* Before and between the cases *)

EvidenceRests ==
    /\ attempts' = attempts /\ reports' = reports /\ rates' = rates /\ products' = products
    /\ frozenOn' = frozenOn /\ selected' = selected /\ published' = published /\ consumed' = consumed

LEMMA EvidenceIsFiles == ASSUME EvidenceRests PROVE \A i : FilesStay(i)
  BY DEF EvidenceRests, FilesStay

LEMMA EntriesRest ==
  ASSUME AuditInv, attempts' = attempts, undisturbed' => undisturbed PROVE EntriesVerify'
<1>1. Coverage!All' = Coverage!All
  BY DEF Coverage!All
<1> QED
  BY <1>1 DEF AuditInv, EntriesVerify, Tries, Coverage!AttemptVerifies, Coverage!Valid

LEMMA SequenceProceeds ==
  ASSUME AuditInv, EvidenceRests, undisturbed' \in BOOLEAN, undisturbed' => undisturbed,
         stage' \in {"next", "load", "open"} \cup {"count"}, CasesAreTold', EndIsTold'
  PROVE  AuditInv'
<1>1. stage' \notin Running /\ stage' # "validate" /\ ~Coverage!Done'
  BY DEF Running, Attempting, Coverage!Done
<1>2. EntriesVerify'
  BY EntriesRest DEF EvidenceRests
<1>3. selected' \subseteq Coverage!All'
  BY DEF AuditInv, EvidenceRests, Coverage!All
<1> QED
  BY <1>1, <1>2, <1>3 DEF AuditInv, Coverage!CountsAreTrue

(* The cases before the one that comes next are told, those after it untouched. *)
LEMMA ToldSoFar ==
  ASSUME CoverInv, AuditInv, EvidenceRests, NEW n, n = case',
         \A i \in Coverage!All : i < n => Told(i)' /\ Coverage!Continues(results'[i]) /\ reports[i] # None,
         \A i \in Coverage!All : i > n \/ (i = n /\ stage' # "count") => Untouched(i)',
         stage' \in {"next", "load", "open"} \cup {"count"}
  PROVE  CasesAreTold'
<1>1. stage' \notin Running \cup {"validate"}
  BY DEF Running, Attempting
<1>2. Coverage!All' = Coverage!All
  BY DEF Coverage!All
<1>3. /\ DOMAIN reports' = Coverage!All /\ DOMAIN products' = Coverage!All /\ DOMAIN consumed' = Coverage!All
      /\ \A i \in Coverage!All : reports'[i] # None => reports'[i].status # "NOT-RUN"
  BY DEF AuditInv, CasesAreTold, EvidenceRests
<1>4. \A i \in Coverage!All : i < n => reports'[i] # None
  BY DEF EvidenceRests
<1>5. /\ \A i \in Coverage!All : i < n => reports'[i] # None /\ Told(i)' /\ Coverage!Continues(results'[i])
      /\ \A i \in Coverage!All : i > n \/ (i = n /\ stage' \in {"capture", "load", "next", "open"}) => Untouched(i)'
  BY <1>4
<1> QED
  BY <1>1, <1>2, <1>3, <1>5 DEF CasesAreTold, Coverage!Continues

LEMMA ToldStays ==
  ASSUME CoverInv, AuditInv, EvidenceRests, results' = results
  PROVE  /\ \A i \in Coverage!All : i < case => Told(i)' /\ Coverage!Continues(results'[i]) /\ reports[i] # None
         /\ \A i \in Coverage!All : i > case \/ (i = case /\ stage \in {"capture", "load", "next", "open"})
                => Untouched(i)'
<1>1. \A i : FilesStay(i) /\ results'[i] = results[i]
  BY EvidenceIsFiles
<1>2. \A i : (Told(i) => Told(i)') /\ (Untouched(i) => Untouched(i)')
  BY <1>1, CaseStaysTold
<1> QED
  BY <1>1, <1>2 DEF AuditInv, CasesAreTold

LEMMA CaptureIsSound == ASSUME CoverInv, CoverBounds, AuditInv, Coverage!Capture PROVE AuditInv'
<1>1. /\ stage = "capture" /\ case = 0 /\ case' = case /\ results' = results /\ EvidenceRests
      /\ \A i \in Coverage!All : i > 0
  BY DEF Coverage!Capture, CoverInv, CoverIsTyped, EvidenceRests, Coverage!evidence, Coverage!All
<1>2. undisturbed' \in BOOLEAN /\ (undisturbed' => undisturbed /\ ~shifted)
  <2>1. undisturbed' = (undisturbed /\ ~shifted)
    BY DEF Coverage!Capture, Coverage!Quiet
  <2> QED
    BY <2>1, Zenon
<1>3. CASE shifted
  <2>1. stage' = "count" /\ verdict' = "IDENTITY-STOP" /\ ~undisturbed'
    BY <1>2, <1>3 DEF Coverage!Capture, Coverage!SequenceEnds
  <2>2. CasesAreTold'
    <3>1. \A i \in Coverage!All : i < case' => Told(i)' /\ Coverage!Continues(results'[i]) /\ reports[i] # None
      BY <1>1, ToldStays
    <3>2. \A i \in Coverage!All : i > case' \/ (i = case' /\ stage' # "count") => Untouched(i)'
      BY <1>1, ToldStays
    <3> PICK n : n = case'
      OBVIOUS
    <3> QED
      BY <1>1, <2>1, <3>1, <3>2, ToldSoFar
  <2>3. EndIsTold'
    BY <1>1, <2>1 DEF EndIsTold, Ending
  <2> QED
    BY <1>1, <1>2, <2>1, <2>2, <2>3, SequenceProceeds
<1>4. CASE ~shifted
  <2>1. stage' = "load" /\ verdict' = verdict
    BY <1>4 DEF Coverage!Capture, Coverage!Goto
  <2>2. CasesAreTold'
    <3>1. \A i \in Coverage!All : i < case' => Told(i)' /\ Coverage!Continues(results'[i]) /\ reports[i] # None
      BY <1>1, ToldStays
    <3>2. \A i \in Coverage!All : i > case' \/ (i = case' /\ stage' # "count") => Untouched(i)'
      BY <1>1, ToldStays
    <3> PICK n : n = case'
      OBVIOUS
    <3> QED
      BY <1>1, <2>1, <3>1, <3>2, ToldSoFar
  <2>3. EndIsTold'
    BY <1>1, <2>1 DEF EndIsTold, Ending, AuditInv
  <2> QED
    BY <1>1, <1>2, <2>1, <2>2, <2>3, SequenceProceeds
<1> QED
  BY <1>3, <1>4

LEMMA LoadIsSound == ASSUME CoverInv, CoverBounds, AuditInv, Coverage!Load PROVE AuditInv'
<1>1. /\ stage = "load" /\ case = 0 /\ results' = results /\ EvidenceRests /\ undisturbed \in BOOLEAN
      /\ \A i \in Coverage!All : i > 0 /\ i \in Nat
  BY DEF Coverage!Load, CoverInv, CoverIsTyped, EvidenceRests, Coverage!evidence, Coverage!All, AuditInv
<1>2. \A i \in Coverage!All : Untouched(i)'
  BY <1>1, ToldStays
<1>3. PICK n : n = case'
  OBVIOUS
<1>4. ASSUME stage' = "count", verdict' \in {"IDENTITY-STOP", "RESOURCE-BUDGET-STOP"}, case' = case,
             undisturbed' \in BOOLEAN, undisturbed' => undisturbed, verdict' = "IDENTITY-STOP" => ~undisturbed'
      PROVE  AuditInv'
  <2>1. n = 0 /\ \A i \in Coverage!All : ~(i < n)
    BY <1>1, <1>3, <1>4
  <2>2. CasesAreTold'
    BY <1>1, <1>2, <1>3, <1>4, <2>1, ToldSoFar
  <2>3. EndIsTold'
    BY <1>1, <1>4 DEF EndIsTold, Ending
  <2> QED
    BY <1>1, <1>4, <2>2, <2>3, SequenceProceeds
<1>5. CASE Coverage!SequenceEnds("RESOURCE-BUDGET-STOP") /\ case' = case /\ undisturbed' = undisturbed
  BY <1>1, <1>4, <1>5 DEF Coverage!SequenceEnds
<1>6. CASE Coverage!SequenceEnds("IDENTITY-STOP") /\ case' = case /\ undisturbed' = FALSE
  <2>1. undisturbed' \in BOOLEAN /\ ~undisturbed'
    BY <1>6, Zenon
  <2>2. stage' = "count" /\ verdict' = "IDENTITY-STOP"
    BY <1>6 DEF Coverage!SequenceEnds
  <2> QED
    BY <1>4, <1>6, <2>1, <2>2
<1>7. CASE stage' = "next" /\ verdict' = "RUNNING" /\ case' = 1 /\ undisturbed' = undisturbed
  <2>1. \A i \in Coverage!All : ~(i < n)
    BY <1>1, <1>3, <1>7
  <2>2. CasesAreTold'
    BY <1>1, <1>2, <1>3, <1>7, <2>1, ToldSoFar
  <2>3. EndIsTold'
    BY <1>7 DEF EndIsTold, Ending
  <2> QED
    BY <1>1, <1>7, <2>2, <2>3, SequenceProceeds
<1> QED
  BY <1>5, <1>6, <1>7 DEF Coverage!Load

LEMMA NextCaseIsSound == ASSUME CoverInv, CoverBounds, AuditInv, Coverage!NextCase PROVE AuditInv'
<1>1. /\ stage = "next" /\ results' = results /\ EvidenceRests /\ undisturbed \in BOOLEAN /\ case' = case
      /\ undisturbed' = undisturbed /\ case \in 0..(Cases + 1) /\ case # 0 /\ Cases \in Nat
  BY CoverNumbers DEF Coverage!NextCase, CoverInv, CoverIsTyped, EvidenceRests, Coverage!evidence, AuditInv
<1>2. PICK n : n = case'
  OBVIOUS
<1>3. /\ \A i \in Coverage!All : i < n => Told(i)' /\ Coverage!Continues(results'[i]) /\ reports[i] # None
      /\ \A i \in Coverage!All : i > n \/ (i = n /\ stage' # "count") => Untouched(i)'
      /\ n \in Coverage!All => Untouched(n)'
  BY <1>1, <1>2, ToldStays
<1>4. ASSUME stage' \in {"open", "count"} PROVE CasesAreTold'
  BY <1>1, <1>2, <1>3, <1>4, ToldSoFar
<1>5. CASE case > Cases
  <2>1. stage' = "count" /\ verdict' = Coverage!COMPLETE /\ case = Cases + 1
    BY <1>1, <1>5 DEF Coverage!NextCase, Coverage!SequenceEnds
  <2>2. EndIsTold'
    BY <1>1, <2>1 DEF EndIsTold, Ending, Coverage!COMPLETE
  <2> QED
    BY <1>1, <1>4, <2>1, <2>2, SequenceProceeds
<1>6. CASE case <= Cases /\ late
  <2>1. stage' = "count" /\ verdict' = "RESOURCE-BUDGET-STOP" /\ n \in Coverage!All
    BY <1>1, <1>2, <1>6 DEF Coverage!NextCase, Coverage!SequenceEnds, Coverage!All
  <2>2. EndIsTold'
    <3>1. n \in Coverage!All' /\ Untouched(n)'
      BY <1>3, <2>1 DEF Coverage!All
    <3> QED
      BY <1>2, <2>1, <3>1 DEF EndIsTold, Ending, Untouched, Tries
  <2> QED
    BY <1>1, <1>4, <2>1, <2>2, SequenceProceeds
<1>7. CASE case <= Cases /\ ~late
  <2>1. stage' = "open" /\ verdict' = verdict
    BY <1>1, <1>7 DEF Coverage!NextCase, Coverage!Goto
  <2>2. EndIsTold'
    BY <1>1, <2>1 DEF EndIsTold, Ending, AuditInv
  <2> QED
    BY <1>1, <1>4, <2>1, <2>2, SequenceProceeds
<1> QED
  BY <1>1, <1>5, <1>6, <1>7

LEMMA OpenCaseIsSound == ASSUME CoverInv, CoverBounds, AuditInv, Coverage!OpenCase PROVE AuditInv'
<1>1. /\ stage = "open" /\ results' = results /\ case' = case /\ case \in Coverage!All /\ undisturbed \in BOOLEAN
      /\ attempts' = attempts /\ rates' = rates /\ products' = products /\ frozenOn' = frozenOn
      /\ selected' = selected /\ published' = published /\ consumed' = consumed
      /\ section' = "raw" /\ made' = 0
  BY DEF Coverage!OpenCase, CoverInv, CoverIsTyped, AuditInv
<1>2. PICK c : c = case
  OBVIOUS
<1>3. /\ Untouched(c) /\ DOMAIN reports = Coverage!All /\ selected \subseteq Coverage!All
      /\ DOMAIN products = Coverage!All /\ DOMAIN consumed = Coverage!All
      /\ verdict \in {"PREFLIGHT", "RUNNING"}
  BY <1>1, <1>2 DEF AuditInv, CasesAreTold, EndIsTold, Ending
<1>4. CASE /\ Coverage!Goto("run") /\ undisturbed' = undisturbed
           /\ reports' = [reports EXCEPT ![case] = [status |-> "RUNNING", rows |-> 0, tail |-> <<>>,
                                                    picked |-> FALSE, stats |-> None]]
  <2>1. stage' = "run" /\ verdict' = verdict /\ stage' \in Running /\ stage' # "validate" /\ stage' \notin Ending /\ stage' # "publish"
        /\ stage' # "freeze" /\ stage' \notin {"capture", "load", "next", "open"} /\ LatestFollows'
    BY <1>4 DEF Coverage!Goto, Running, Attempting, Ending, LatestFollows
  <2>2. /\ DOMAIN reports' = Coverage!All /\ \A i \in Coverage!All : i # c => reports'[i] = reports[i]
        /\ reports'[c] = ReportOf(0, None)
    <3>1. (0 >= Coverage!Picked) = FALSE
      <4>1. {ReferenceRuns, ScreeningRuns} \subseteq Nat \ {0}
        BY DEF CoverBounds, Coverage!CoverageStudyAssumption
      <4> QED
        BY <4>1 DEF Coverage!Picked
    <3>2. ReportOf(0, None) = [status |-> "RUNNING", rows |-> 0, tail |-> <<>>, picked |-> FALSE, stats |-> None]
      BY <3>1, Zenon DEF ReportOf
    <3> QED
      BY <1>1, <1>2, <1>3, <1>4, <3>2
  <2>3. reports'[c] # None /\ reports'[c].status # "NOT-RUN"
    <3>1. ReportOf(0, None) \in Coverage!CaseFiles /\ ReportOf(0, None).status = "RUNNING"
      BY ReportIsFile
    <3> QED
      BY <2>2, <3>1 DEF CoverBounds, Coverage!CoverageStudyAssumption
  <2>4. \A i \in Coverage!All : i # c => FilesStay(i) /\ results'[i] = results[i]
    BY <1>1, <2>2 DEF FilesStay
  <2>5. \A i \in Coverage!All : i # c => (Told(i) => Told(i)') /\ (Untouched(i) => Untouched(i)')
    BY <2>4, CaseStaysTold
  <2>6. CasesAreTold'
    <3>1. \A i \in Coverage!All : i < c => i # c
      BY DEF Coverage!All
    <3>2. \A i \in Coverage!All : i > c => i # c
      BY DEF Coverage!All
    <3>3. \A i \in Coverage!All : i < c => reports'[i] # None /\ Told(i)' /\ Coverage!Continues(results'[i])
      BY <1>1, <1>2, <2>4, <2>5, <3>1 DEF FilesStay, AuditInv, CasesAreTold
    <3>4. \A i \in Coverage!All : i > c => Untouched(i)'
      BY <1>2, <2>5, <3>2 DEF AuditInv, CasesAreTold
    <3>5. \A i \in Coverage!All : reports'[i] # None => reports'[i].status # "NOT-RUN"
      BY <2>3, <2>4 DEF FilesStay, AuditInv, CasesAreTold
    <3>6. results'[c] = Coverage!NotRun
      BY <1>1, <1>3 DEF Untouched
    <3>7. /\ DOMAIN products' = Coverage!All /\ DOMAIN consumed' = Coverage!All /\ Coverage!All' = Coverage!All /\ case' = c
      BY <1>1, <1>2, <1>3 DEF Coverage!All
    <3> QED
      BY <2>1, <2>2, <2>3, <3>3, <3>4, <3>5, <3>6, <3>7 DEF CasesAreTold, Coverage!Continues
  <2>7. EndIsTold'
    BY <1>3, <2>1 DEF EndIsTold
  <2>8. EntriesVerify'
    BY <1>1, <1>4, EntriesRest
  <2>9. FilesFollow'
    <3>1. c = case' /\ products'[c] = None /\ frozenOn'[c] = None /\ consumed'[c] = None
      BY <1>1, <1>2, <1>3 DEF Untouched
    <3> QED
      BY <1>1, <2>1, <2>2, <3>1, FilesFollowOn
  <2>10. ~Coverage!Done'
    BY <2>1 DEF Coverage!Done
  <2>11. undisturbed' \in BOOLEAN /\ selected' \subseteq Coverage!All'
    BY <1>1, <1>3, <1>4 DEF Coverage!All
  <2> QED
    BY <2>1, <2>6, <2>7, <2>8, <2>9, <2>10, <2>11 DEF AuditInv, Coverage!CountsAreTrue
<1>5. CASE Coverage!SequenceEnds("IDENTITY-STOP") /\ undisturbed' = FALSE /\ reports' = reports
  <2>1. stage' = "count" /\ verdict' = "IDENTITY-STOP" /\ EvidenceRests
    BY <1>1, <1>5 DEF Coverage!SequenceEnds, EvidenceRests
  <2>2. undisturbed' \in BOOLEAN /\ ~undisturbed'
    BY <1>5, Zenon
  <2>3. PICK n : n = case'
    OBVIOUS
  <2>4. /\ \A i \in Coverage!All : i < n => Told(i)' /\ Coverage!Continues(results'[i]) /\ reports[i] # None
        /\ \A i \in Coverage!All : i > n \/ (i = n /\ stage' # "count") => Untouched(i)'
        /\ Untouched(n)' /\ n \in Coverage!All
    BY <1>1, <2>1, <2>3, ToldStays
  <2>5. CasesAreTold'
    BY <2>1, <2>3, <2>4, ToldSoFar
  <2>6. EndIsTold'
    <3>1. n \in Coverage!All' /\ Untouched(n)'
      BY <2>4 DEF Coverage!All
    <3> QED
      BY <2>1, <2>2, <2>3, <3>1 DEF EndIsTold, Ending, Untouched, Tries
  <2> QED
    BY <2>1, <2>2, <2>5, <2>6, SequenceProceeds
<1> QED
  BY <1>4, <1>5 DEF Coverage!OpenCase

LEMMA ValidateIsSound ==
  ASSUME CoverInv, CoverBounds, AuditInv, shifted \in BOOLEAN, Coverage!Validate PROVE AuditInv'
<1>1. PICK c, r : c = case /\ r = Coverage!Reconstructed(case, ~Coverage!Expired)
  OBVIOUS
<1>2. /\ stage = "validate" /\ c \in Coverage!All /\ EvidenceRests /\ undisturbed \in BOOLEAN
      /\ DOMAIN results = Coverage!All /\ c \in Nat
  BY <1>1 DEF Coverage!Validate, Coverage!evidence, EvidenceRests, CoverInv, CoverIsTyped, AuditInv, Coverage!All
<1>3. undisturbed' \in BOOLEAN /\ (undisturbed' => undisturbed /\ ~shifted)
  <2>1. undisturbed' = (undisturbed /\ ~shifted)
    BY DEF Coverage!Validate, Coverage!Quiet
  <2> QED
    BY <2>1, Zenon
<1>4. reports[c] # None /\ results[c] = Coverage!NotRun
  BY <1>1, <1>2 DEF AuditInv, CasesAreTold
<1>5. ASSUME undisturbed, ~Coverage!LacksStatistics(c) PROVE Coverage!CaseVerifies(c)
  <2>1. CaseIsSound(c)
    BY <1>1, <1>2, <1>5 DEF AuditInv
  <2>2. \A k \in 1..Tries(c) : Coverage!AttemptVerifies(attempts[c][k])
    BY <1>2, <1>5 DEF AuditInv, EntriesVerify
  <2> QED
    BY <1>1, <1>2, <1>5, <2>1, <2>2, SoundCaseVerifies
<1>6. CASE shifted \/ ~Coverage!CaseVerifies(c)
  <2>1. stage' = "count" /\ verdict' = "IDENTITY-STOP" /\ results' = results /\ case' = c
    BY <1>1, <1>6 DEF Coverage!Validate, Coverage!SequenceEnds
  <2>2. undisturbed' => Coverage!LacksStatistics(case)'
    <3>1. undisturbed' => Coverage!LacksStatistics(c)
      BY <1>3, <1>5, <1>6
    <3> QED
      BY <1>2, <2>1, <3>1 DEF Coverage!LacksStatistics, EvidenceRests
  <2>3. CasesAreTold'
    <3>1. /\ \A i \in Coverage!All : i < c => Told(i)' /\ Coverage!Continues(results'[i]) /\ reports[i] # None
          /\ \A i \in Coverage!All : i > c \/ (i = c /\ stage' # "count") => Untouched(i)'
      BY <1>1, <1>2, <2>1, ToldStays
    <3> QED
      BY <1>2, <2>1, <3>1, ToldSoFar
  <2>4. EndIsTold'
    <3>1. /\ case' \in Coverage!All' /\ reports'[case'] # None /\ ~results'[case'].verified
          /\ results'[case'].status = "NOT-RUN" /\ results'[case'] = Coverage!NotRun'
      BY <1>2, <1>4, <2>1 DEF Coverage!All, EvidenceRests, Coverage!NotRun
    <3> QED
      BY <2>1, <2>2, <3>1 DEF EndIsTold, Ending
  <2> QED
    BY <1>2, <1>3, <2>1, <2>3, <2>4, SequenceProceeds
<1>7. CASE ~shifted /\ Coverage!CaseVerifies(c)
  <2>1. /\ results' = [results EXCEPT ![c] = r]
        /\ IF Coverage!Continues(r) THEN Coverage!Goto("next") /\ case' = c + 1
           ELSE Coverage!SequenceEnds("SEQUENCE-STOP") /\ case' = c
    BY <1>1, <1>7 DEF Coverage!Validate
  <2>2. results'[c] = r /\ \A i \in Coverage!All : i # c => results'[i] = results[i]
    BY <1>2, <2>1
  <2>3. \A i : FilesStay(i)
    BY <1>2, EvidenceIsFiles
  <2>4. \A i \in Coverage!All : i # c => (Told(i) => Told(i)') /\ (Untouched(i) => Untouched(i)')
    BY <2>2, <2>3, CaseStaysTold
  <2>5. Told(c)'
    <3>1. PICK b : b = ~Coverage!Expired
      OBVIOUS
    <3>2. r = Coverage!Reconstructed(c, b)
      BY <1>1, <3>1, Zenon
    <3>3. b \in BOOLEAN
      BY <3>1, Zenon
    <3>4. r.verified /\ r.inBudget = b
      BY <3>2 DEF Coverage!Reconstructed
    <3>5. Coverage!Reconstructed(c, b)' = r
      BY <2>3, <3>2, ReconstructionStays
    <3>6. Coverage!CaseVerifies(c)'
      BY <1>7, <2>3, VerificationStays
    <3>7. results'[c].verified /\ b = results'[c].inBudget /\ results'[c] = Coverage!Reconstructed(c, b)'
      BY <2>2, <3>4, <3>5
    <3> QED
      BY <3>3, <3>6, <3>7 DEF Told
  <2>6. \A i \in Coverage!All : i < c => Told(i)' /\ Coverage!Continues(results'[i]) /\ reports[i] # None
    <3>1. \A i \in Coverage!All : i < c => i # c
      BY <1>2 DEF Coverage!All
    <3> QED
      BY <1>1, <2>2, <2>4, <3>1 DEF AuditInv, CasesAreTold
  <2>7. \A i \in Coverage!All : i > c => Untouched(i)'
    <3>1. \A i \in Coverage!All : i > c => i # c
      BY <1>2 DEF Coverage!All
    <3> QED
      BY <1>1, <2>4, <3>1 DEF AuditInv, CasesAreTold
  <2>8. CASE Coverage!Continues(r)
    <3>1. stage' = "next" /\ verdict' = verdict /\ case' = c + 1
      BY <2>1, <2>8 DEF Coverage!Goto
    <3>2. PICK n : n = case'
      OBVIOUS
    <3>3. \A i \in Coverage!All : i < n => i < c \/ i = c
      BY <1>2, <3>1, <3>2 DEF Coverage!All
    <3>4. \A i \in Coverage!All : i > n \/ i = n => i > c
      BY <1>2, <3>1, <3>2 DEF Coverage!All
    <3>5. \A i \in Coverage!All : i < n => Told(i)' /\ Coverage!Continues(results'[i]) /\ reports[i] # None
      BY <1>4, <2>2, <2>5, <2>6, <2>8, <3>3
    <3>6. \A i \in Coverage!All : i > n \/ (i = n /\ stage' # "count") => Untouched(i)'
      BY <2>7, <3>4
    <3>7. CasesAreTold'
      BY <1>2, <3>1, <3>2, <3>5, <3>6, ToldSoFar
    <3>8. EndIsTold'
      BY <1>2, <3>1 DEF EndIsTold, Ending, AuditInv
    <3> QED
      BY <1>2, <1>3, <3>1, <3>7, <3>8, SequenceProceeds
  <2>9. CASE ~Coverage!Continues(r)
    <3>1. stage' = "count" /\ verdict' = "SEQUENCE-STOP" /\ case' = c
      BY <2>1, <2>9 DEF Coverage!SequenceEnds
    <3>2. CasesAreTold'
      BY <1>2, <2>6, <2>7, <3>1, ToldSoFar
    <3>3. EndIsTold'
      <4>1. /\ c \in Coverage!All' /\ reports'[c] # None /\ Told(c)' /\ ~Coverage!Continues(results'[c])
        BY <1>2, <1>4, <2>2, <2>5, <2>9 DEF Coverage!All, EvidenceRests
      <4>2. /\ case' \in Coverage!All' /\ reports'[case'] # None /\ Told(case)' /\ ~Coverage!Continues(results[case])'
        <5>1. Told(case)' <=> Told(c)'
          BY <3>1
        <5> QED
          BY <3>1, <4>1, <5>1 DEF Coverage!Continues
      <4> QED
        BY <3>1, <4>2 DEF EndIsTold, Ending
    <3> QED
      BY <1>2, <1>3, <3>1, <3>2, <3>3, SequenceProceeds
  <2> QED
    BY <2>8, <2>9
<1> QED
  BY <1>6, <1>7

-----------------------------------------------------------------------------
(* The end of the sequence *)

(* A case as the finally of run_sequence finds it. *)
Failing(i) == i = case /\ reports[i] # None /\ results[i] = Coverage!NotRun

LEMMA CasesAtTheEnd ==
  ASSUME CoverInv, CoverBounds, AuditInv, stage = "count", NEW i \in Coverage!All
  PROVE  Told(i) \/ Untouched(i) \/ Failing(i)
<1>1. case \in 0..(Cases + 1) /\ i \in Int /\ i >= 1 /\ i <= Cases /\ Cases \in Int
  BY CoverNumbers DEF CoverInv, CoverIsTyped, Coverage!All
<1>2. (i < case => Told(i)) /\ (i > case => Untouched(i))
  BY DEF AuditInv, CasesAreTold
<1>3. ASSUME i = case PROVE Told(case) \/ Untouched(case) \/ Failing(case)
  <2>1. case # 0 /\ case # Cases + 1 /\ stage \in Ending
    BY <1>1, <1>3 DEF Ending
  <2> QED
    BY <2>1 DEF AuditInv, EndIsTold, Failing
<1> QED
  BY <1>1, <1>2, <1>3

LEMMA CaseIsRetained ==
  ASSUME CoverInv, AuditInv, NEW i \in Coverage!All
  PROVE  /\ Told(i) \/ Untouched(i) => Coverage!Retained(i) = results[i]
         /\ Told(i) \/ Untouched(i) \/ Failing(i) =>
               Coverage!Retained(i).attempts = Tries(i) /\ Coverage!Retained(i).native = Coverage!Started(i)
<1>1. ASSUME Told(i)
      PROVE  /\ Coverage!Retained(i) = results[i] /\ results[i].attempts = Tries(i)
             /\ results[i].native = Coverage!Started(i)
  <2>1. /\ results[i].status = reports[i].status /\ results[i].attempts = Tries(i)
        /\ results[i].native = Coverage!Started(i)
    BY <1>1 DEF Told, Coverage!Reconstructed, Tries
  <2>2. ~(results[i].status = "NOT-RUN" /\ reports[i] # None)
    BY <2>1 DEF AuditInv, CasesAreTold
  <2> QED
    BY <2>1, <2>2 DEF Coverage!Retained
<1>2. ASSUME Untouched(i)
      PROVE  /\ Coverage!Retained(i) = results[i] /\ results[i].attempts = Tries(i)
             /\ results[i].native = Coverage!Started(i)
  <2>1. Coverage!Retained(i) = results[i] /\ results[i].attempts = 0 /\ results[i].native = 0 /\ Tries(i) = 0
    BY <1>2 DEF Untouched, Coverage!Retained, Coverage!NotRun
  <2>2. attempts[i] \in Seq(Coverage!Entries)
    BY DEF CoverInv, CoverIsTyped
  <2>3. {k \in DOMAIN attempts[i] : attempts[i][k].started} = {}
    BY <2>1, <2>2 DEF Tries
  <2>4. Coverage!Started(i) = Cardinality({})
    BY <2>3, CoverageCardinality DEF Coverage!Started
  <2> QED
    BY <2>1, <2>4, FS_EmptySet
<1>3. ASSUME Failing(i)
      PROVE  Coverage!Retained(i).attempts = Tries(i) /\ Coverage!Retained(i).native = Coverage!Started(i)
  BY <1>3 DEF Failing, Coverage!NotRun, Coverage!Retained, Tries
<1> QED
  BY <1>1, <1>2, <1>3

LEMMA CountIsTrue ==
  ASSUME CoverInv, CoverBounds, AuditInv, Coverage!Count PROVE Coverage!CountsAreTrue'
<1>1. /\ stage = "count" /\ attempts' = attempts
      /\ totals' = [attempts |-> Coverage!Total([i \in Coverage!All |-> Coverage!Retained(i).attempts]),
                    native |-> Coverage!Total([i \in Coverage!All |-> Coverage!Retained(i).native])]
  BY DEF Coverage!Count, Coverage!evidence
<1>2. \A i \in Coverage!All :
          Coverage!Retained(i).attempts = Len(attempts[i]) /\ Coverage!Retained(i).native = Coverage!Started(i)
  BY <1>1, CasesAtTheEnd, CaseIsRetained DEF Tries
<1>3. /\ [i \in Coverage!All |-> Coverage!Retained(i).attempts] = [i \in Coverage!All |-> Len(attempts[i])]
      /\ [i \in Coverage!All |-> Coverage!Retained(i).native] = [i \in Coverage!All |-> Coverage!Started(i)]
  BY <1>2, Zenon
<1>4. Coverage!All' = Coverage!All /\ \A i : Coverage!Started(i)' = Coverage!Started(i)
  BY <1>1 DEF Coverage!All, Coverage!Started
<1>5. totals' = [attempts |-> Coverage!Total([i \in Coverage!All |-> Len(attempts[i])]),
                 native |-> Coverage!Total([i \in Coverage!All |-> Coverage!Started(i)])]
  BY <1>1, <1>3
<1>6. /\ [i \in Coverage!All |-> Len(attempts[i])]' = [i \in Coverage!All |-> Len(attempts[i])]
      /\ [i \in Coverage!All |-> Coverage!Started(i)]' = [i \in Coverage!All |-> Coverage!Started(i)]
  BY <1>1, <1>4, Zenon
<1>7. /\ Coverage!Total([i \in Coverage!All |-> Len(attempts[i])])' = Coverage!Total([i \in Coverage!All |-> Len(attempts[i])])
      /\ Coverage!Total([i \in Coverage!All |-> Coverage!Started(i)])' = Coverage!Total([i \in Coverage!All |-> Coverage!Started(i)])
  BY <1>6, Zenon
<1> QED
  BY <1>5, <1>7 DEF Coverage!CountsAreTrue

LEMMA CountIsSound == ASSUME CoverInv, CoverBounds, AuditInv, Coverage!Count PROVE AuditInv'
<1>1. /\ stage = "count" /\ stage' = "over" /\ EvidenceRests /\ case' = case /\ verdict' = verdict
      /\ undisturbed' = undisturbed /\ undisturbed \in BOOLEAN /\ Coverage!All' = Coverage!All
      /\ \A i \in Coverage!All : results'[i] = Coverage!Retained(i)
  BY DEF Coverage!Count, Coverage!evidence, EvidenceRests, AuditInv, Coverage!All
<1>2. \A i \in Coverage!All :
          /\ Told(i) => Told(i)' /\ results'[i] = results[i]
          /\ Untouched(i) => Untouched(i)'
  <2> TAKE i \in Coverage!All
  <2>1. Told(i) \/ Untouched(i) => results'[i] = results[i]
    BY <1>1, CaseIsRetained
  <2> QED
    BY <1>1, <2>1, EvidenceIsFiles, CaseStaysTold
<1>3. CasesAreTold'
  <2>1. stage' \notin {"capture", "load", "next", "open"} /\ stage' \notin Running \cup {"validate"}
    BY <1>1 DEF Running, Attempting
  <2>2. \A i \in Coverage!All : i < case => reports'[i] # None /\ Told(i)' /\ Coverage!Continues(results'[i])
    BY <1>1, <1>2 DEF EvidenceRests, AuditInv, CasesAreTold
  <2>3. \A i \in Coverage!All : i > case => Untouched(i)'
    BY <1>2 DEF AuditInv, CasesAreTold
  <2>4. /\ DOMAIN reports' = Coverage!All /\ DOMAIN products' = Coverage!All /\ DOMAIN consumed' = Coverage!All
        /\ \A i \in Coverage!All : reports'[i] # None => reports'[i].status # "NOT-RUN"
    BY <1>1 DEF EvidenceRests, AuditInv, CasesAreTold
  <2> QED
    BY <1>1, <2>1, <2>2, <2>3, <2>4 DEF CasesAreTold, Coverage!Continues
<1>4. EndIsTold'
  <2>1. stage \in Ending /\ stage' \in Ending
    BY <1>1 DEF Ending
  <2>2. verdict' = "IDENTITY-STOP" /\ undisturbed' => case' \in Coverage!All' /\ Coverage!LacksStatistics(case)'
    BY <1>1 DEF AuditInv, EndIsTold, Coverage!LacksStatistics, EvidenceRests
  <2>3. PICK c : c = case
    OBVIOUS
  <2>4. CASE \/ case = Cases + 1 /\ verdict = Coverage!COMPLETE
             \/ case = 0 /\ verdict \in {"IDENTITY-STOP", "RESOURCE-BUDGET-STOP"}
    BY <1>1, <2>1, <2>2, <2>4 DEF EndIsTold, Coverage!COMPLETE
  <2>5. CASE c \in Coverage!All /\ Untouched(c) /\ verdict \in {"IDENTITY-STOP", "RESOURCE-BUDGET-STOP"}
    <3>1. case' \in Coverage!All' /\ Untouched(case)'
      BY <1>1, <1>2, <2>3, <2>5 DEF Untouched, Tries
    <3> QED
      BY <1>1, <2>1, <2>2, <2>5, <3>1 DEF EndIsTold
  <2>6. CASE c \in Coverage!All /\ reports[c] # None /\ Told(c) /\ ~Coverage!Continues(results[c]) /\ verdict = "SEQUENCE-STOP"
    <3>1. c \in Coverage!All' /\ reports'[c] # None /\ Told(c)' /\ ~Coverage!Continues(results'[c])
      BY <1>1, <1>2, <2>6 DEF EvidenceRests
    <3>2. Told(case)' <=> Told(c)'
      BY <1>1, <2>3
    <3>3. case' \in Coverage!All' /\ reports'[case'] # None /\ Told(case)' /\ ~Coverage!Continues(results[case])'
      BY <1>1, <2>3, <3>1, <3>2 DEF Coverage!Continues
    <3> QED
      BY <1>1, <2>1, <2>2, <2>6, <3>3 DEF EndIsTold
  <2>7. CASE c \in Coverage!All /\ reports[c] # None /\ ~results[c].verified /\ results[c] = Coverage!NotRun /\ verdict = "IDENTITY-STOP"
    <3>1. results'[c] = [status |-> reports[c].status, verified |-> FALSE, attempts |-> Len(attempts[c]),
                         native |-> Coverage!Started(c)]
      BY <1>1, <2>7 DEF Coverage!Retained, Coverage!NotRun
    <3>2. reports[c].status # "NOT-RUN"
      BY <2>7 DEF AuditInv, CasesAreTold
    <3>3. ~results'[c].verified /\ results'[c].status # "NOT-RUN"
      BY <3>1, <3>2
    <3>4. /\ case' \in Coverage!All' /\ reports'[case'] # None /\ ~results'[case'].verified
          /\ results'[case'].status # "NOT-RUN"
      BY <1>1, <2>3, <2>7, <3>3 DEF EvidenceRests
    <3> QED
      BY <1>1, <2>1, <2>2, <2>7, <3>4 DEF EndIsTold
  <2> QED
    BY <1>1, <2>1, <2>3, <2>4, <2>5, <2>6, <2>7 DEF AuditInv, EndIsTold
<1>5. EntriesVerify'
  BY <1>1, EntriesRest DEF EvidenceRests
<1>6. stage' \notin Running /\ stage' # "validate" /\ selected' \subseteq Coverage!All'
  BY <1>1 DEF Running, Attempting, EvidenceRests, AuditInv
<1> QED
  BY <1>1, <1>3, <1>4, <1>5, <1>6, CountIsTrue DEF AuditInv

-----------------------------------------------------------------------------
(* The audit of the wider study, in every step *)

LEMMA WorldIsSound ==
  ASSUME AuditInv, Coverage!Drift \/ Coverage!Expire \/ UNCHANGED coverVars PROVE AuditInv'
<1>1. /\ stage' = stage /\ section' = section /\ made' = made /\ case' = case /\ returnedRun' = returnedRun
      /\ undisturbed' = undisturbed /\ results' = results /\ totals' = totals /\ verdict' = verdict
      /\ EvidenceRests
  BY DEF Coverage!Drift, Coverage!Expire, Coverage!where, Coverage!evidence, Coverage!verdict, coverVars, EvidenceRests
<1>2. Coverage!All' = Coverage!All
  BY DEF Coverage!All
<1>3. \A i : FilesStay(i) /\ results'[i] = results[i]
  BY <1>1, EvidenceIsFiles
<1>4. \A i : (Told(i) => Told(i)') /\ (Untouched(i) => Untouched(i)')
  BY <1>3, CaseStaysTold
<1>5. PICK c : c = case
  OBVIOUS
<1>6. EntriesVerify' /\ undisturbed' \in BOOLEAN /\ selected' \subseteq Coverage!All'
  BY <1>1, <1>2, EntriesRest DEF EvidenceRests, AuditInv
<1>7. stage' \in Running => FilesFollow' /\ LatestFollows'
  BY <1>1 DEF AuditInv, FilesFollow, LatestFollows, Gaining, EvidenceRests, Coverage!Latest
<1>8. stage' = "validate" /\ undisturbed' => CaseIsSound(case)'
  <2>1. CaseIsSound(case) => CaseIsSound(case)'
    BY <1>1 DEF CaseIsSound, SearchStopped, SearchEnded, Won, NotPaired, PairsFrozen, PairsStopped, PairsEnded,
                Published, TailIs, RowsAreValid, Tries, Varies, EvidenceRests
  <2> QED
    BY <1>1, <2>1 DEF AuditInv
<1>9. CasesAreTold'
  <2>1. \A i \in Coverage!All : i < case => reports'[i] # None /\ Told(i)' /\ Coverage!Continues(results'[i])
    BY <1>1, <1>4 DEF AuditInv, CasesAreTold, EvidenceRests
  <2>2. \A i \in Coverage!All : i > case \/ (i = case /\ stage \in {"capture", "load", "next", "open"}) => Untouched(i)'
    BY <1>4 DEF AuditInv, CasesAreTold
  <2> QED
    BY <1>1, <1>2, <2>1, <2>2 DEF AuditInv, CasesAreTold, EvidenceRests, Coverage!Continues
<1>10. EndIsTold'
  <2>1. /\ (Told(case) => Told(case)') /\ (Untouched(case) => Untouched(case)')
    <3>1. (Told(c)' <=> Told(case)') /\ (Untouched(c)' <=> Untouched(case)')
      BY <1>1, <1>5
    <3> QED
      BY <1>4, <1>5, <3>1
  <2>2. verdict' = "IDENTITY-STOP" /\ undisturbed' => case' \in Coverage!All' /\ Coverage!LacksStatistics(case)'
    BY <1>1, <1>2 DEF AuditInv, EndIsTold, Coverage!LacksStatistics, EvidenceRests
  <2> QED
    BY <1>1, <1>2, <2>1, <2>2 DEF AuditInv, EndIsTold, EvidenceRests, Coverage!Continues
<1>11. Coverage!CountsAreTrue'
  <2>1. /\ [i \in Coverage!All |-> Len(attempts[i])]' = [i \in Coverage!All |-> Len(attempts[i])]
        /\ [i \in Coverage!All |-> Coverage!Started(i)]' = [i \in Coverage!All |-> Coverage!Started(i)]
    <3>1. attempts' = attempts /\ \A i : Coverage!Started(i)' = Coverage!Started(i)
      BY <1>1 DEF EvidenceRests, Coverage!Started
    <3> QED
      BY <1>2, <3>1, Zenon
  <2>2. /\ Coverage!Total([i \in Coverage!All |-> Len(attempts[i])])' = Coverage!Total([i \in Coverage!All |-> Len(attempts[i])])
        /\ Coverage!Total([i \in Coverage!All |-> Coverage!Started(i)])' = Coverage!Total([i \in Coverage!All |-> Coverage!Started(i)])
    BY <2>1, Zenon
  <2> QED
    BY <1>1, <2>2 DEF AuditInv, Coverage!CountsAreTrue, Coverage!Done
<1> QED
  BY <1>6, <1>7, <1>8, <1>9, <1>10, <1>11 DEF AuditInv

LEMMA ShiftIsBoolean ==
  ASSUME shifted \in BOOLEAN, Coverage!Next \/ UNCHANGED coverVars PROVE shifted' \in BOOLEAN
<1>1. CASE Coverage!Drift
  <2>1. shifted' = ~shifted
    BY <1>1 DEF Coverage!Drift
  <2> QED
    BY <2>1, Zenon
<1>2. CASE Coverage!Expire \/ UNCHANGED coverVars
  BY <1>2 DEF Coverage!Expire, coverVars
<1>3. CASE Coverage!Sequence
  <2>1. shifted' = shifted
    BY <1>3 DEF Coverage!Sequence, Coverage!world, Coverage!Capture, Coverage!Load, Coverage!NextCase, Coverage!OpenCase,
                Coverage!Check, Coverage!Guard, Coverage!Wait, Coverage!Spawn, Coverage!Start, Coverage!Native,
                Coverage!Collect, Coverage!Evaluate, Coverage!Freeze, Coverage!EvaluatePairs, Coverage!Publish,
                Coverage!Validate, Coverage!Count
  <2> QED
    BY <2>1
<1> QED
  BY <1>1, <1>2, <1>3 DEF Coverage!Next

LEMMA AuditInit == ASSUME CoverBounds, Coverage!Init PROVE AuditInv /\ shifted \in BOOLEAN
<1> USE DEF Coverage!Init
<1>1. \A i \in Coverage!All : Untouched(i) /\ i > 0
  BY DEF Untouched, Tries, Coverage!All
<1>2. stage = "capture" /\ stage \notin Running /\ stage \notin Ending /\ case = 0
  BY DEF Running, Attempting, Ending
<1>3. EntriesVerify
  BY <1>1 DEF EntriesVerify, Untouched
<1>4. CasesAreTold
  BY <1>1, <1>2 DEF CasesAreTold, Coverage!All, Untouched
<1>5. EndIsTold
  BY <1>2 DEF EndIsTold
<1> QED
  BY <1>2, <1>3, <1>4, <1>5 DEF AuditInv, Coverage!CountsAreTrue, Coverage!Done

LEMMA AuditStep ==
  ASSUME CoverBounds, CoverInv, AuditInv, shifted \in BOOLEAN, Coverage!Next \/ UNCHANGED coverVars PROVE AuditInv'
  BY WorldIsSound, CaptureIsSound, LoadIsSound, NextCaseIsSound, OpenCaseIsSound, CheckIsSound, GuardIsSound,
     WaitIsSound, SpawnIsSound, StartIsSound, NativeIsSound, CollectIsSound, EvaluateIsSound, FreezeIsSound,
     EvaluatePairsIsSound, PublishIsSound, ValidateIsSound, CountIsSound DEF Coverage!Next, Coverage!Sequence

-----------------------------------------------------------------------------
(* What the invariant of the audit says of validate_sequence *)

LEMMA SequenceIsAudited ==
  ASSUME CoverInv, CoverBounds, AuditInv
  PROVE  Coverage!OrderlyStopsAreAudited /\ Coverage!SequenceLabelIsBinding
<1> DEFINE All == Coverage!All
           Fails == \E i \in All : Coverage!Ran(i) /\ ~Coverage!Continues(results[i])
<1>1. Cases \in Nat \ {0} /\ case \in 0..(Cases + 1) /\ \A i \in All : i \in Int /\ i >= 1 /\ i <= Cases
  BY CoverNumbers DEF CoverInv, CoverIsTyped, Coverage!All
<1>2. /\ \A i \in All : i < case => Coverage!Ran(i) /\ Told(i) /\ Coverage!Continues(results[i])
      /\ \A i \in All : i > case => Untouched(i)
  BY DEF AuditInv, CasesAreTold, Coverage!Ran
<1>3. \A i \in All : Untouched(i) => ~Coverage!Ran(i) /\ results[i].status = "NOT-RUN"
  BY DEF Untouched, Coverage!Ran, Coverage!NotRun
<1>4. \A i \in All : Told(i) => /\ Coverage!CaseVerifies(i) /\ results[i].verified
                                /\ results[i] = Coverage!Reconstructed(i, results[i].inBudget)
  BY DEF Told
<1>5. ASSUME NEW i \in All PROVE 1..(i - 1) \subseteq All /\ \A j \in 1..(i - 1) : j < i
  BY <1>1 DEF Coverage!All
<1> HIDE DEF All
<1>6. PICK c : c = case
  OBVIOUS
<1>7. ASSUME Coverage!Done
      PROVE  \/ c = Cases + 1 /\ verdict = Coverage!COMPLETE
             \/ c \in All /\ Untouched(c) /\ verdict \in {"IDENTITY-STOP", "RESOURCE-BUDGET-STOP"}
             \/ c \in All /\ Coverage!Ran(c) /\ Told(c) /\ ~Coverage!Continues(results[c]) /\ verdict = "SEQUENCE-STOP"
             \/ c \in All /\ Coverage!Ran(c) /\ ~results[c].verified /\ verdict = "IDENTITY-STOP"
             \/ c = 0 /\ verdict \in {"IDENTITY-STOP", "RESOURCE-BUDGET-STOP"}
  <2>1. stage \in Ending
    BY <1>7 DEF Coverage!Done, Ending
  <2> QED
    BY <1>6, <2>1 DEF AuditInv, EndIsTold, Coverage!Ran, All
(* A report that is accepted names the case that did not continue. *)
<1>8. ASSUME Coverage!Done, c \in All => Untouched(c) PROVE ~Fails
  BY <1>1, <1>2, <1>3, <1>6, <1>8
<1>9. ASSUME Coverage!Done, c = Cases + 1 PROVE Coverage!Accepts(Coverage!COMPLETE)
  <2>1. \A i \in All : i < case /\ ~(c \in All)
    BY <1>1, <1>6, <1>9
  <2>2. ~Fails
    BY <1>8, <1>9, <2>1, <1>1
  <2>3. \A i \in All : /\ Coverage!Ran(i) /\ Coverage!CaseVerifies(i) /\ results[i].verified
                       /\ results[i] = Coverage!Reconstructed(i, results[i].inBudget)
                       /\ \A j \in 1..(i - 1) : Coverage!Ran(j) => Coverage!Continues(results[j])
    BY <1>2, <1>4, <1>5, <2>1
  <2> QED
    BY <1>1, <1>6, <1>9, <2>2, <2>3 DEF Coverage!Accepts, All
<1>10. ASSUME Coverage!Done, c \in All, Coverage!Ran(c), Told(c), ~Coverage!Continues(results[c])
       PROVE  Coverage!Accepts("SEQUENCE-STOP")
  <2>1. ASSUME NEW i \in All, Coverage!Ran(i)
        PROVE  /\ Coverage!CaseVerifies(i) /\ results[i].verified
               /\ results[i] = Coverage!Reconstructed(i, results[i].inBudget)
               /\ \A j \in 1..(i - 1) : Coverage!Ran(j) => Coverage!Continues(results[j])
    <3>1. i <= case
      BY <1>1, <1>2, <1>3, <2>1
    <3>2. Told(i)
      BY <1>1, <1>2, <1>6, <1>10, <3>1
    <3>3. \A j \in 1..(i - 1) : j \in All /\ j < case
      BY <1>1, <1>5, <3>1
    <3> QED
      BY <1>2, <1>4, <3>2, <3>3
  <2>2. ASSUME NEW i \in All, ~Coverage!Ran(i) PROVE results[i].status = "NOT-RUN"
    BY <1>1, <1>2, <1>3, <1>6, <1>10, <2>2
  <2>3. case > 0 /\ "SEQUENCE-STOP" # Coverage!COMPLETE /\ Fails
    BY <1>1, <1>6, <1>10 DEF Coverage!COMPLETE
  <2> QED
    BY <2>1, <2>2, <2>3 DEF Coverage!Accepts, All
<1>11. Coverage!OrderlyStopsAreAudited
  <2>1. undisturbed /\ verdict = "IDENTITY-STOP" => case \in Coverage!All /\ Coverage!LacksStatistics(case)
    BY DEF AuditInv, EndIsTold
  <2>2. ASSUME Coverage!Done, verdict \in {"SEQUENCE-STOP", Coverage!COMPLETE} PROVE Coverage!Accepts(verdict)
    BY <1>7, <1>9, <1>10, <2>2 DEF Coverage!COMPLETE
  <2> QED
    BY <2>1, <2>2 DEF Coverage!OrderlyStopsAreAudited
<1>12. Coverage!SequenceLabelIsBinding
  <2> SUFFICES ASSUME Coverage!Done, NEW s \in {"SEQUENCE-STOP", Coverage!COMPLETE}, Coverage!Accepts(s)
               PROVE  s = verdict
    BY DEF Coverage!SequenceLabelIsBinding
  <2>1. /\ case > 0 /\ (s = IF Fails THEN "SEQUENCE-STOP" ELSE Coverage!COMPLETE)
        /\ \A i \in All : Coverage!Ran(i) => results[i].verified
        /\ \A i \in All : ~Coverage!Ran(i) => s # Coverage!COMPLETE
    BY DEF Coverage!Accepts, All
  <2>2. CASE c = Cases + 1 /\ verdict = Coverage!COMPLETE
    <3>1. ~(c \in All)
      BY <1>1, <2>2
    <3>2. ~Fails
      BY <1>8, <3>1
    <3> QED
      BY <2>1, <2>2, <3>2
  <2>3. CASE c \in All /\ Untouched(c)
    BY <1>3, <1>8, <2>1, <2>3
  <2>4. CASE c \in All /\ Coverage!Ran(c) /\ ~Coverage!Continues(results[c]) /\ verdict = "SEQUENCE-STOP"
    BY <2>1, <2>4
  <2>5. CASE (c \in All /\ Coverage!Ran(c) /\ ~results[c].verified) \/ c = 0
    BY <1>6, <2>1, <2>5
  <2> QED
    BY <1>7, <2>2, <2>3, <2>4, <2>5
<1> QED
  BY <1>11, <1>12
=============================================================================
