-------------------------- MODULE ExperimentsProofs --------------------------
(***************************************************************************)
(* Proofs about the programs of MCExperiments.  Of the stock experiments:  *)
(* what is accepted was earned and can be loaded, a recommended challenger *)
(* was confirmed, and a measured consumer ran on the host and the files it *)
(* relies on.  Setups save and replace profiles without losing one; a      *)
(* tuning job journals and paces what it launches, and its report is one   *)
(* that can be verified, as is that of a benchmark.  They hold for any     *)
(* hosts, challengers, edits, setups, removals and deaths, and for any     *)
(* budget, spacing and candidates.                                         *)
(***************************************************************************)
EXTENDS MCExperiments, SequenceTheorems, WellFoundedInduction, TLAPS

-----------------------------------------------------------------------------
(* The stock experiments *)

Closed == {"done", "dead"}

-----------------------------------------------------------------------------
(* The inductive invariant: the product *)

EnvOK == host \in 1..Len(Hosts) /\ edited \subseteq Files

TallyOK ==
    /\ rows \in 0..Runs /\ slow \in 0..SlowCap
    /\ pc \in {"launch", "collect"} => rows < Runs

(* No run of the experiment was launched elsewhere than on the frozen host. *)
RunsAreOnFrozenHost ==
    /\ pc \in {"capture"} \cup Closed => rows = 0 /\ ranOn = {}
    /\ pc \notin {"capture"} \cup Closed =>
          /\ frozen \in Freezes /\ ranOn \subseteq {frozen.host}
          /\ rows > 0 \/ pc = "collect" => ranOn = {frozen.host}

(* Nothing is published that did not pass the reconstruction. *)
PublishedIsPassed ==
    /\ pc \in {"pend", "fill"} => rows = Runs /\ Verdict(slow) = "PASS-MEASUREMENT"
    /\ accepted # None =>
          /\ accepted.rows = Runs /\ Verdict(accepted.slow) = "PASS-MEASUREMENT"
          /\ accepted.ranOn = {accepted.freeze.host}
          /\ accepted.files = {"plan", "receipt"}

ClaimIsTrue == pc = "claim" \/ live \/ (report # None /\ report.live) => accepted # None

ProductInv == EnvOK /\ TallyOK /\ RunsAreOnFrozenHost /\ PublishedIsPassed /\ ClaimIsTrue

-----------------------------------------------------------------------------
(* The search *)

(* A search starts when the product is accepted, and publishes once. *)
SearchFollows ==
    /\ spc # "idle" => pc \in Closed /\ accepted # None
    /\ recommended # None => spc \in Closed

ScoreOK == screened \in Nat /\ score \in [Candidates -> Nat] /\ \A c \in Candidates : score[c] <= screened

RunsAreOnManifestHost ==
    /\ spc \in {"idle", "prepare"} \cup Closed => screened = 0 /\ searchRanOn = {}
    /\ spc \notin {"idle"} \cup Closed =>
          /\ manifest \in Freezes /\ searchRanOn \subseteq {manifest.host}
          /\ screened > 0 \/ spc = "collect" => searchRanOn = {manifest.host}

(* A finalist other than the incumbent was ahead after the whole screening. *)
FinalistIsAhead ==
    /\ finalist # None =>
          /\ screened >= Screening /\ finalist \in Candidates
          /\ finalist # Incumbent => score[finalist] > 0
    /\ spc \in {"rank", "publish", "rename"} => screened >= Screening
    /\ spc \in {"publish", "rename"} => finalist # None

SearchInv ==
    SearchFollows /\ ScoreOK /\ RunsAreOnManifestHost /\ FinalistIsAhead /\ ChallengerIsEarned

-----------------------------------------------------------------------------
(* The consumer *)

ConsumerFollows ==
    /\ cpc # "idle" =>
          /\ pc \in Closed /\ accepted # None /\ kind \in {"accepted", "recommended"}
          /\ kind = "recommended" => recommended # None
    /\ result = "measured" => cpc = "done"

(* What a consumer loaded is what it pinned, and its run saw no less. *)
LoadedIsPinned ==
    cpc \in {"run", "conclude"} =>
        /\ accepted.freeze.host = taken.host
        /\ kind = "recommended" =>
              /\ recommended.freeze.host = taken.host /\ "recommended" \notin taken.edited
              /\ "sources" \in recommended.freeze.edited =>
                    "sources" \in (IF cpc = "run" THEN edited ELSE ranWith.edited)
        /\ cpc = "conclude" => ranWith.host = taken.host /\ ranWith.edited \subseteq edited

ConsumerInv == ConsumerFollows /\ LoadedIsPinned /\ ConsumerIsBound

Inv == ProductInv /\ SearchInv /\ ConsumerInv

-----------------------------------------------------------------------------
(* The product's experiment *)

(* A set of numbers has a least one. *)
LEMMA LeastNatural ==
  ASSUME NEW S, S \subseteq Nat, S # {}
  PROVE  \E m \in S : \A n \in S : m <= n
<1> DEFINE Less == {ss \in Nat \X Nat : ss[1] < ss[2]}
<1>1. IsWellFoundedOn(Less, Nat)
  BY NatLessThanWellFounded DEF OpToRel
<1>2. PICK m \in S : \A n \in S : <<n, m>> \notin Less
  <2> HIDE DEF Less
  <2> QED
    BY <1>1, WFMin
<1>3. \A n \in S : ~(n < m)
  BY <1>2
<1> QED
  BY <1>3

LEMMA ProductBegins == ASSUME EnvInit, ProductInit PROVE ProductInv
  BY StockProductAssumption
     DEF EnvInit, ProductInit, ProductInv, EnvOK, TallyOK, RunsAreOnFrozenHost, PublishedIsPassed,
         ClaimIsTrue, Closed, Runs, PAIRS, SlowCap

LEMMA SnapshotIsFreeze == ASSUME EnvOK PROVE Snapshot \in Freezes /\ Snapshot.edited = edited /\ Snapshot.host = Host
  BY DEF EnvOK, Snapshot, Freezes, Host

LEMMA ProductSteps == ASSUME ProductInv, ProductStep \/ Die PROVE ProductInv'
<1> USE DEF ProductInv, EnvOK, TallyOK, RunsAreOnFrozenHost, PublishedIsPassed, ClaimIsTrue, Closed,
            envVars, tally, verdict, outputFiles, Over, Stop, Fail, SlowCap, Runs, PAIRS
<1>1. CASE Capture
  BY <1>1, SnapshotIsFreeze DEF Capture
<1>2. CASE Freeze
  <2>1. CASE frozen' = [frozen EXCEPT !.edited = edited] /\ pc' = "check" /\ UNCHANGED <<tally, verdict>>
    <3>1. frozen' \in Freezes /\ frozen'.host = frozen.host
      BY <1>2, <2>1 DEF Freeze, Freezes
    <3> QED
      BY <1>2, <2>1, <3>1 DEF Freeze
  <2>2. CASE Over("dead")
    BY <1>2, <2>2 DEF Freeze
  <2> QED
    BY <1>2, <2>1, <2>2 DEF Freeze
<1>3. CASE CheckRow
  BY <1>3 DEF CheckRow
<1>4. CASE Launch
  <2>1. CASE ranOn' = ranOn \cup {Host} /\ Host = frozen.host
    <3>1. ranOn' = {frozen.host}
      BY <1>4, <2>1 DEF Launch
    <3> QED
      BY <1>4, <2>1, <3>1 DEF Launch
  <2>2. CASE Stop /\ UNCHANGED tally
    BY <1>4, <2>2 DEF Launch
  <2> QED
    BY <1>4, <2>1, <2>2 DEF Launch
<1>5. CASE Collect
  <2>1. CASE Stop /\ UNCHANGED <<tally, report>>
    BY <1>5, <2>1 DEF Collect
  <2>2. CASE rows' = rows + 1
    <3>1. report'.live = FALSE /\ slow' \in 0..SlowCap /\ pc' = "check" /\ UNCHANGED <<ranOn, live, accepted, frozen, host, edited>>
      BY <1>5, <2>2 DEF Collect
    <3> QED
      BY <1>5, <2>2, <3>1 DEF Collect
  <2> QED
    BY <1>5, <2>1, <2>2 DEF Collect
<1>6. CASE Evaluate
  BY <1>6 DEF Evaluate
<1>7. CASE Validate
  BY <1>7 DEF Validate
<1>8. CASE WriteReport
  <2>1. report'.live = live
    BY <1>8 DEF WriteReport, Report
  <2> QED
    BY <1>8, <2>1 DEF WriteReport
<1>9. CASE Reconstruct
  <2>1. pc' = "pend" => rows = Runs /\ Verdict(slow) = "PASS-MEASUREMENT"
    BY <1>9 DEF Reconstruct, Reconstructs
  <2> QED
    BY <1>9, <2>1 DEF Reconstruct
<1>10. CASE Pend
  BY <1>10 DEF Pend
<1>11. CASE Fill
  BY <1>11 DEF Fill
<1>12. CASE Rename
  <2>1. CASE accepted' = Published /\ pc' = "claim" /\ UNCHANGED verdict
    <3>1. /\ accepted'.rows = Runs /\ accepted'.slow = slow /\ accepted'.files = {"plan", "receipt"}
          /\ accepted'.freeze = frozen /\ accepted'.ranOn = {frozen.host}
      BY <1>12, <2>1 DEF Rename, Published
    <3>2. accepted' \in Publications
      BY <1>12, <2>1, <3>1 DEF Rename, Published, Publications, Freezes
    <3> QED
      BY <1>12, <2>1, <3>1, <3>2, StockProductAssumption DEF Rename
  <2>2. CASE Fail /\ UNCHANGED accepted
    BY <1>12, <2>2 DEF Rename
  <2> QED
    BY <1>12, <2>1, <2>2 DEF Rename
<1>13. CASE Claim
  BY <1>13 DEF Claim
<1>14. CASE Final
  <2>1. report'.live = live
    BY <1>14 DEF Final, Report
  <2> QED
    BY <1>14, <2>1 DEF Final
<1>15. CASE Die
  BY <1>15 DEF Die
<1> QED
  BY <1>1, <1>2, <1>3, <1>4, <1>5, <1>6, <1>7, <1>8, <1>9, <1>10, <1>11, <1>12, <1>13, <1>14, <1>15 DEF ProductStep

LEMMA ProductStays == ASSUME ProductInv, UNCHANGED <<envVars, productVars>> PROVE ProductInv'
  BY DEF ProductInv, EnvOK, TallyOK, RunsAreOnFrozenHost, PublishedIsPassed, ClaimIsTrue,
         envVars, productVars, tally, verdict, outputFiles

LEMMA WorldMoves == ASSUME ProductInv, HostChanges \/ Edit PROVE ProductInv'
<1> USE DEF ProductInv, EnvOK, TallyOK, RunsAreOnFrozenHost, PublishedIsPassed, ClaimIsTrue,
            productVars, tally, verdict, outputFiles
<1>1. CASE HostChanges
  BY <1>1, StockProductAssumption DEF HostChanges
<1>2. CASE Edit
  BY <1>2 DEF Edit
<1> QED
  BY <1>1, <1>2

-----------------------------------------------------------------------------
(* The search *)

(* rank_screening has a winner, and it was ahead of the incumbent unless it is it. *)
LEMMA BestIsAhead ==
  ASSUME ScoreOK
  PROVE  Best \in Candidates /\ (Best # Incumbent => score[Best] > 0)
<1>1. Candidates \subseteq Nat /\ Incumbent \in Candidates
  BY StockSearchAssumption, ElementOfSeq DEF Candidates, Incumbent
<1>2. PICK top \in Candidates : \A d \in Candidates : score[d] <= score[top]
  <2> DEFINE Gap(c) == screened - score[c]
             Gaps   == {Gap(c) : c \in Candidates}
  <2>a. \A c \in Candidates : Gap(c) \in Nat
    BY <1>1 DEF ScoreOK
  <2>b. Gaps # {}
    BY <1>1
  <2>1. Gaps \subseteq Nat /\ Gaps # {}
    BY <2>a, <2>b
  <2>2. PICK g \in Gaps : \A h \in Gaps : g <= h
    BY <2>1, LeastNatural
  <2>3. PICK c \in Candidates : g = Gap(c)
    BY <2>2
  <2>4. \A d \in Candidates : Gap(c) <= Gap(d)
    BY <2>2, <2>3
  <2> QED
    BY <2>4, <1>1 DEF ScoreOK
<1> DEFINE Tops == {c \in Candidates : score[c] = score[top]}
<1>3. PICK b \in Tops : \A c \in Tops : b <= c
  BY <1>1, <1>2, LeastNatural
<1>4. \A d \in Candidates : score[d] < score[b] \/ (score[d] = score[b] /\ b <= d)
  BY <1>1, <1>2, <1>3 DEF ScoreOK
<1>5. Best \in Candidates /\ \A d \in Candidates :
         score[d] < score[Best] \/ (score[d] = score[Best] /\ Best <= d)
  BY <1>3, <1>4 DEF Best
<1> QED
  BY <1>1, <1>5 DEF ScoreOK, Incumbent

LEMMA SearchBegins == ASSUME Init PROVE SearchInv
<1>1. Candidates # {} /\ score \in [Candidates -> Nat] /\ \A c \in Candidates : score[c] <= 0
  BY DEF Init, Candidates
<1> QED
  BY <1>1 DEF Init, SearchInv, SearchFollows, ScoreOK, RunsAreOnManifestHost, FinalistIsAhead,
              ChallengerIsEarned, Closed

(* The product's experiment is over before a search, and stays over. *)
LEMMA OverIsOver == ASSUME ProductStep \/ Die PROVE pc \notin Closed
  BY DEF ProductStep, Capture, Freeze, CheckRow, Launch, Collect, Evaluate, Validate, WriteReport,
         Reconstruct, Pend, Fill, Rename, Claim, Final, Die, Closed

LEMMA SearchStays ==
  ASSUME SearchInv, UNCHANGED searchVars, ProductStep \/ Die \/ UNCHANGED <<pc, accepted>>
  PROVE  SearchInv'
<1>1. spc # "idle" => UNCHANGED <<pc, accepted>>
  BY OverIsOver DEF SearchInv, SearchFollows
<1>2. UNCHANGED <<spc, manifest, screened, score, finalist, searchRanOn, recommended>>
  BY DEF searchVars, searchTally
<1> QED
  BY <1>1, <1>2 DEF SearchInv, SearchFollows, ScoreOK, RunsAreOnManifestHost, FinalistIsAhead,
                    ChallengerIsEarned

LEMMA ScreeningIsPositive == Screening \in Nat /\ Screening > 0
  BY StockSearchAssumption, LenProperties DEF Screening

LEMMA SearchSteps == ASSUME ProductInv, SearchInv, SearchStep \/ SearchDie PROVE SearchInv'
<1> USE DEF ProductInv, SearchInv, SearchFollows, ScoreOK, RunsAreOnManifestHost, FinalistIsAhead,
            ChallengerIsEarned, Closed, envVars, productVars, tally, verdict, outputFiles, searchTally,
            SearchOver, SearchEnds, SearchStop
<1>1. CASE SearchCapture
  BY <1>1, SnapshotIsFreeze DEF SearchCapture
<1>2. CASE Prepare
  <2>1. CASE manifest' = [manifest EXCEPT !.edited = edited] /\ spc' = "check" /\ UNCHANGED searchTally
    <3>1. manifest' \in Freezes /\ manifest'.host = manifest.host
      BY <1>2, <2>1 DEF Prepare, Freezes, EnvOK
    <3> QED
      BY <1>2, <2>1, <3>1 DEF Prepare
  <2>2. CASE SearchOver("dead")
    BY <1>2, <2>2 DEF Prepare
  <2> QED
    BY <1>2, <2>1, <2>2 DEF Prepare
<1>3. CASE SearchCheck
  BY <1>3 DEF SearchCheck
<1>4. CASE SearchLaunch
  BY <1>4 DEF SearchLaunch
<1>5. CASE SearchCollect
  <2>1. CASE SearchStop
    BY <1>5, <2>1 DEF SearchCollect
  <2>2. ASSUME screened < Screening, screened' = screened + 1,
               NEW gain \in {0, 1}, score' = [score EXCEPT ![NextScreened] = @ + gain],
               spc' = (IF screened' = Screening THEN "rank" ELSE "check"),
               UNCHANGED <<manifest, finalist, searchRanOn>>
        PROVE  SearchInv'
    <3>1. finalist = None
      BY <2>2, ScreeningIsPositive
    <3>2. ScoreOK'
      <4>1. PICK next : next = NextScreened
        OBVIOUS
      <4>2. \A c \in Candidates : score'[c] = IF c = next THEN score[c] + gain ELSE score[c]
        BY <2>2, <4>1
      <4>3. screened' = screened + 1 /\ screened' \in Nat
        BY <2>2
      <4>4. \A c \in Candidates : score'[c] \in Nat /\ score'[c] <= screened'
        BY <4>2, <4>3
      <4>5. score' \in [Candidates -> Nat]
        BY <2>2, <4>1, <4>4
      <4> QED
        BY <4>3, <4>4, <4>5
    <3>3. RunsAreOnManifestHost'
      BY <1>5, <2>2 DEF SearchCollect
    <3>4. FinalistIsAhead'
      BY <2>2, <3>1, ScreeningIsPositive
    <3> QED
      BY <1>5, <2>2, <3>2, <3>3, <3>4 DEF SearchCollect
  <2>3. CASE screened = Screening /\ spc' = "check" /\ UNCHANGED <<manifest, screened, score, finalist, searchRanOn>>
    BY <1>5, <2>3 DEF SearchCollect
  <2> QED
    BY <1>5, <2>1, <2>2, <2>3 DEF SearchCollect
<1>6. CASE Rank
  BY <1>6, BestIsAhead DEF Rank
<1>7. CASE Decide
  BY <1>7 DEF Decide
<1>8. CASE SearchPend
  BY <1>8 DEF SearchPend
<1>9. CASE SearchRename
  <2>1. CASE UNCHANGED recommended
    BY <1>9, <2>1 DEF SearchRename
  <2>2. CASE recommended' = [freeze |-> manifest, id |-> Recommendation, finalist |-> finalist,
                             screening |-> score, fast |-> fast, rows |-> confirmed,
                             ranOn |-> searchRanOn]
    <3>1. searchRanOn = {manifest.host}
      BY <1>9, ScreeningIsPositive DEF SearchRename
    <3>2. Recommendation # Incumbent =>
              Recommendation = finalist /\ score[finalist] > 0 /\ confirmed = Runs /\ fast >= FastCap
      BY <1>9 DEF SearchRename, Recommendation, Confirmed
    <3>3. ChallengerIsEarned'
      BY <2>2, <3>1, <3>2
    <3> QED
      BY <1>9, <3>3 DEF SearchRename
  <2> QED
    BY <1>9, <2>1, <2>2 DEF SearchRename
<1>10. CASE SearchDie
  BY <1>10 DEF SearchDie
<1> QED
  BY <1>1, <1>2, <1>3, <1>4, <1>5, <1>6, <1>7, <1>8, <1>9, <1>10 DEF SearchStep

-----------------------------------------------------------------------------
(* The consumer *)

LEMMA ConsumerBegins == ASSUME Init PROVE ConsumerInv
  BY StockSearchAssumption
     DEF Init, ConsumerInv, ConsumerFollows, LoadedIsPinned, ConsumerIsBound

(* Nothing that a consumer relies on is published anew while it runs. *)
LEMMA ConsumerStays ==
  ASSUME SearchInv, ConsumerInv, edited \subseteq edited', UNCHANGED consumerVars,
         \/ ProductStep \/ Die
         \/ UNCHANGED <<pc, accepted>>,
         recommended' = recommended \/ spc \notin Closed
  PROVE  ConsumerInv'
<1>1. cpc # "idle" =>
         UNCHANGED <<pc, accepted>> /\ (kind = "recommended" => UNCHANGED recommended)
  BY OverIsOver DEF SearchInv, SearchFollows, ConsumerInv, ConsumerFollows
<1>2. UNCHANGED <<cpc, kind, taken, ranWith, result>>
  BY DEF consumerVars
<1>3. ConsumerFollows'
  BY <1>1, <1>2 DEF ConsumerInv, ConsumerFollows
<1>4. LoadedIsPinned'
  BY <1>1, <1>2 DEF ConsumerInv, ConsumerFollows, LoadedIsPinned
<1>5. ConsumerIsBound'
  BY <1>1, <1>2 DEF ConsumerInv, ConsumerFollows, ConsumerIsBound
<1> QED
  BY <1>3, <1>4, <1>5 DEF ConsumerInv

LEMMA ConsumerSteps == ASSUME ProductInv, SearchInv, ConsumerInv, ConsumerStep PROVE ConsumerInv'
<1> USE DEF ConsumerInv, ConsumerFollows, LoadedIsPinned, ConsumerIsBound, envVars, productVars,
            tally, verdict, outputFiles, searchVars, searchTally, Refuse, Closed
<1>1. CASE Pin
  BY <1>1 DEF Pin, SearchInv, SearchFollows
<1>2. CASE Load
  BY <1>2 DEF Load, Loads, LoadsSearch, SearchReconstructs, Reconstructs, Same
<1>3. CASE Run
  BY <1>3 DEF Run, Snapshot
<1>4. CASE Conclude
  BY <1>4 DEF Conclude, Same, ProductInv, PublishedIsPassed, SearchInv, ChallengerIsEarned
<1> QED
  BY <1>1, <1>2, <1>3, <1>4 DEF ConsumerStep

-----------------------------------------------------------------------------
(* The theorems *)

LEMMA InvBegins == ASSUME Init PROVE Inv
  BY ProductBegins, SearchBegins, ConsumerBegins DEF Init, Inv

LEMMA WorldStays ==
  ASSUME Inv, HostChanges \/ Edit, UNCHANGED <<searchVars, consumerVars>> PROVE Inv'
<1>1. UNCHANGED <<pc, accepted, recommended>> /\ edited \subseteq edited'
  BY DEF HostChanges, Edit, productVars, outputFiles, searchVars
<1> QED
  BY <1>1, WorldMoves, SearchStays, ConsumerStays DEF Inv

LEMMA InvStays == ASSUME Inv, [Next]_vars PROVE Inv'
<1>1. ProductInv /\ SearchInv /\ ConsumerInv
  BY DEF Inv
<1>2. CASE (ProductStep \/ Die) /\ UNCHANGED <<searchVars, consumerVars>>
  <2>1. edited' = edited /\ recommended' = recommended
    BY <1>2 DEF ProductStep, Capture, Freeze, CheckRow, Launch, Collect, Evaluate, Validate, WriteReport,
                Reconstruct, Pend, Fill, Rename, Claim, Final, Die, envVars, searchVars
  <2> QED
    BY <1>1, <1>2, <2>1, ProductSteps, SearchStays, ConsumerStays DEF Inv
<1>3. CASE (HostChanges \/ Edit) /\ UNCHANGED <<searchVars, consumerVars>>
  BY <1>3, WorldStays
<1>4. CASE SearchStep \/ SearchDie
  <2>1. UNCHANGED <<envVars, productVars, consumerVars>>
    BY <1>4 DEF SearchStep, SearchCapture, Prepare, SearchCheck, SearchLaunch, SearchCollect, Rank,
                Decide, SearchPend, SearchRename, SearchDie
  <2>2. recommended' = recommended \/ spc \notin Closed
    BY <1>4 DEF SearchStep, SearchCapture, Prepare, SearchCheck, SearchLaunch, SearchCollect, Rank,
                Decide, SearchPend, SearchRename, SearchDie, Closed
  <2>3. UNCHANGED <<pc, accepted>> /\ edited \subseteq edited'
    BY <2>1 DEF envVars, productVars, outputFiles
  <2> QED
    BY <1>1, <1>4, <2>1, <2>2, <2>3, ProductStays, SearchSteps, ConsumerStays DEF Inv
<1>5. CASE ConsumerStep
  <2>1. UNCHANGED <<envVars, productVars, searchVars>>
    BY <1>5 DEF ConsumerStep, Pin, Load, Run, Conclude
  <2>2. UNCHANGED <<pc, accepted>>
    BY <2>1 DEF productVars, outputFiles
  <2> QED
    BY <1>1, <1>5, <2>1, <2>2, ProductStays, SearchStays, ConsumerSteps DEF Inv
<1>6. CASE UNCHANGED vars
  <2>1. UNCHANGED <<envVars, productVars, searchVars, consumerVars>>
    BY <1>6 DEF vars
  <2>2. UNCHANGED <<pc, accepted, recommended>> /\ edited \subseteq edited'
    BY <2>1 DEF envVars, productVars, outputFiles, searchVars
  <2> QED
    BY <1>1, <2>1, <2>2, ProductStays, SearchStays, ConsumerStays DEF Inv
<1> QED
  BY <1>2, <1>3, <1>4, <1>5, <1>6 DEF Next

(* The invariant of the two experiments and a consumer. *)
THEOREM InvCorrect == Spec => []Inv
<1>1. Init => Inv
  BY InvBegins
<1>2. Inv /\ [Next]_vars => Inv'
  BY InvStays
<1> QED
  BY <1>1, <1>2, PTL DEF Spec

(* An accepted product passed twenty runs on the host its protocol froze,  *)
(* whatever was edited or died meanwhile (execute_stock_product).          *)
THEOREM AcceptedCorrect == Spec => []AcceptedIsEarned
<1>1. Inv => AcceptedIsEarned
  BY DEF Inv, ProductInv, PublishedIsPassed, AcceptedIsEarned
<1> QED
  BY <1>1, InvCorrect, PTL

(* The report claims a product only where there is one that loads on the   *)
(* host of its protocol while nothing it pins is edited (_publish).        *)
THEOREM PublicationCorrect == Spec => []PublicationIsTrue
<1>1. Inv => PublicationIsTrue
  BY DEF Inv, ProductInv, PublishedIsPassed, ClaimIsTrue, PublicationIsTrue, Loads, Reconstructs,
         Intact
<1> QED
  BY <1>1, InvCorrect, PTL

(* A recommended challenger won the screening and the confirmation, all on *)
(* the manifest's host (execute_stock_search).                             *)
THEOREM ChallengerCorrect == Spec => []ChallengerIsEarned
<1>1. Inv => ChallengerIsEarned
  BY DEF Inv, SearchInv
<1> QED
  BY <1>1, InvCorrect, PTL

(* A measured consumer ran on the host and the files of what it relies on  *)
(* (run_accepted_stock_plan, run_search_recommendation).                   *)
THEOREM ConsumerCorrect == Spec => []ConsumerIsBound
<1>1. Inv => ConsumerIsBound
  BY DEF Inv, ConsumerInv
<1> QED
  BY <1>1, InvCorrect, PTL

-----------------------------------------------------------------------------
(* The inductive invariant: the profile file *)

Places == {"inspect", "probe"} \cup Store!Saving \cup Store!Finished

SetupsAreTyped ==
    /\ setupPc \in [Setups -> Places] /\ temps \subseteq Setups
    /\ path \in Store!Profiles \cup {None} /\ None \notin stood
    /\ draft \in [Setups -> Store!Profiles] /\ copied \in [Setups -> Store!Profiles \cup {None}]
    /\ \A s \in Setups : draft[s].setup = s

(* A runnable draft was proven. *)
DraftsAreProven ==
    /\ \A s \in Setups : Store!Is(s, "RUNNABLE-UNTUNED") => s \in proven
    /\ \A p \in stood : p.status = "RUNNABLE-UNTUNED" => p.setup \in proven \cup {None}

(* The last profile of a setup says how the setup ended. *)
LastSaysHow ==
    \A s \in Setups :
        /\ Store!Profile(s, "RUNNABLE-UNTUNED") \in stood => setupPc[s] = "done"
        /\ Store!Profile(s, "ENVIRONMENT-BLOCKED") \in stood => setupPc[s] = "raised"
        /\ setupPc[s] = "done" => draft[s] \in stood /\ ~Store!Is(s, "ENVIRONMENT-BLOCKED")

(* What a save is about to replace was backed up, or put there meanwhile. *)
ReplacedIsBackedUp ==
    \A s \in Setups : path # None =>
        /\ setupPc[s] = "revise" => path \in raced \cup {copied[s]}
        /\ setupPc[s] = "replace" => path \in raced \cup backups

StoreInv ==
    SetupsAreTyped /\ DraftsAreProven /\ LastSaysHow /\ ReplacedIsBackedUp /\ Store!NothingIsLost

-----------------------------------------------------------------------------
(* The inductive invariant: the tuning job *)

Counting ==
    /\ jobPc \in Job!Trying \cup {"register", "report", "reporting", "select", "selecting", "done", "dead"}
    /\ attempts \in Nat /\ launches \in Nat

(* Every attempt but the last one was launched. *)
AttemptsAreLaunched ==
    /\ launches <= attempts /\ attempts <= launches + 1
    /\ jobPc \in {"register"} \cup (Job!Trying \ {"journal", "launch"}) => launches = attempts
    /\ jobPc \in {"journal", "launch"} => attempts = launches + 1

(* The journal is torn while it is written, and left so only by the job's end. *)
AttemptsAreJournalled ==
    /\ journal \in {attempts, None, Partial} /\ (journal = None => attempts = 0)
    /\ jobPc \in {"launch", "measure", "collect"} => journal = attempts
    /\ journal = Partial =>
          /\ attempts = launches + 1 /\ jobStatus = "INCONCLUSIVE"
          /\ jobPc \in {"journal", "report", "reporting", "done", "dead"}
    /\ jobPc \in {"register"} \cup (Job!Trying \ {"accept", "evidence"}) => jobStatus = "INCONCLUSIVE"

PausesAreKept ==
    /\ clock \in Nat /\ lastEnd \in Nat \cup {None}
    /\ jobPc \in {"start", "journal", "launch"} /\ lastEnd # None => clock - lastEnd >= Spacing

JobInv == Counting /\ AttemptsAreLaunched /\ AttemptsAreJournalled /\ PausesAreKept

-----------------------------------------------------------------------------
(* The inductive invariant: the tuning job's report *)

Early    == {"register"} \cup Job!Trying
Choosing == {"pace", "start", "journal", "launch"}
Claims   == {"NO-MEASURABLE-GAIN", "VERIFIED-IMPROVEMENT"}

ProgressIsTyped ==
    /\ host \in 1..Len(Hosts)
    /\ search \in Seq(Job!Measurements) /\ pairs \in Seq(Job!Pairs) /\ half \in Seq(Job!Measurements)
    /\ {winner, chosen} \subseteq Nat \cup {None} /\ jobStatus \in Job!Statuses /\ retained \in BOOLEAN
    /\ jobPc = "measure" => began \in {Hosts[i] : i \in 1..Len(Hosts)}
    /\ jobPc = "collect" => got \in Job!Measurements

(* A position of the job says how much has been measured. *)
PhasesAreOrdered ==
    /\ Len(search) <= 1 + Len(ThreadCounts) /\ Len(pairs) <= 5 /\ Len(half) <= 1
    /\ ~Job!Confirming => pairs = <<>> /\ half = <<>>
    /\ jobPc = "register" => search = <<>>
    /\ jobPc \in Choosing \cup {"measure", "collect"} => Len(pairs) < 5
    /\ jobPc = "gate" => Job!Confirming /\ pairs = <<>> /\ half = <<>>
    /\ jobPc = "decide" => Len(pairs) = 5 /\ half = <<>>

Collected == Len(search) + 2 * Len(pairs) + Len(half)

(* Every launched process is collected, but the one under way or the one that failed. *)
LaunchesAreCollected ==
    /\ jobPc \in Early \ {"measure", "collect"} => launches = Collected
    /\ jobPc \in {"measure", "collect"} => launches = Collected + 1
    /\ launches <= Job!MaxProcesses
    /\ jobStatus \in Claims => launches = Collected /\ half = <<>>

(* What is collected has its receipt, on the host of the first one. *)
SearchIsReceived ==
    \A i \in 1..Len(search) :
        /\ search[i].host = search[1].host /\ search[i].tokens = search[1].tokens
        /\ Job!Received("search", search[i].threads, search[i])
        /\ IF i = 1 THEN search[i].rate = Job!Baseline
           ELSE search[i].threads = ThreadCounts[i - 1] /\ search[i].rate \in SearchRates

PairsAreReceived ==
    \A i \in 1..Len(pairs) :
        /\ pairs[i].candidate.threads = winner
        /\ \A role \in {"baseline", "candidate"} :
               Job!Received(role, i - 1, pairs[i][role]) /\ pairs[i][role].host = search[1].host

HalfIsReceived ==
    half # <<>> =>
        /\ Job!Role(0) = "candidate" => half[1].threads = winner
        /\ Job!Received(Job!Role(0), Len(pairs), half[1]) /\ half[1].host = search[1].host

GotIsReceived ==
    jobPc = "collect" =>
        /\ got.threads = Job!ThreadsOf(Job!NextRole)
        /\ [dir |-> Job!Directory, m |-> got] \in receipts
        /\ ~Job!Confirming => got.rate \in (IF search = <<>> THEN {Job!Baseline} ELSE SearchRates)

ReceiptsAreOfOneHost ==
    \/ jobPc \notin Early /\ jobStatus \notin Claims
    \/ \A c \in receipts :
          \/ jobPc = "collect" /\ c.m = got
          \/ search # <<>> /\ c.m.host = search[1].host

(* The winner is the fastest of the search. *)
WinnerIsBest ==
    IF winner = None THEN \A i \in 1..Len(search) : search[i].rate <= Job!Baseline
    ELSE \E i \in 2..Len(search) :
            search[i].threads = winner /\ \A j \in 1..Len(search) : search[j].rate <= search[i].rate

(* A status claims what was measured. *)
StatusIsEarned ==
    /\ jobPc \in Early => jobStatus =
           IF jobPc \in {"accept", "evidence"} THEN "VERIFIED-IMPROVEMENT" ELSE "INCONCLUSIVE"
    /\ jobStatus \in Claims =>
          /\ search # <<>>
          /\ IF pairs # <<>> THEN jobStatus = Job!Decide(pairs)
             ELSE /\ jobStatus = "NO-MEASURABLE-GAIN"
                  /\ \A i \in 1..Len(search) : search[i].rate * 100 < search[1].rate * 105
    /\ jobStatus = "VERIFIED-IMPROVEMENT" /\ jobPc \notin {"accept", "dead"} => chosen = winner

FilesAreTrue ==
    /\ jobReport \notin {None, Partial} =>
          jobReport = Job!Result /\ jobPc \in {"select", "selecting", "done", "dead"}
    /\ jobPc \in {"select", "selecting"} \/ selected # None =>
          /\ jobReport = Job!Result /\ jobStatus = "VERIFIED-IMPROVEMENT" /\ chosen = winner
    /\ selected # None =>
          /\ jobPc \in {"selecting", "done", "dead"}
          /\ selected # Partial => selected = [threads |-> winner, digest |-> jobReport]

ResultInv ==
    /\ ProgressIsTyped /\ PhasesAreOrdered /\ LaunchesAreCollected /\ SearchIsReceived
    /\ PairsAreReceived /\ HalfIsReceived /\ GotIsReceived /\ ReceiptsAreOfOneHost
    /\ WinnerIsBest /\ StatusIsEarned /\ FilesAreTrue

-----------------------------------------------------------------------------
(* The inductive invariant: the benchmark *)

(* What the program reached by then, step by step. *)
Answered == stored.launched /\ stored.responses = Replies /\ benched.records = Replies
Left     == Answered /\ benched.watched /\ (outlived \/ thread = "ended")
Gone     == Left /\ child = "gone" /\ stored.receipt = TRUE
Compared == Gone /\ benched.cleanup /\ recaptured = benched.host
Judged   == Compared /\ benched.status = "MEASURED" /\ (outlived \/ ~telemetry.failed)
Hashed   == Judged /\ benched.hashed = Local!Files
Kept     == /\ Hashed /\ saved \notin {None, Local!Torn} /\ saved.outcome = benched
            /\ saved.memory # None /\ (outlived \/ saved = Local!Held)

RecordsAreTyped ==
    /\ benched \in Local!Outcomes /\ stored \in Local!Stores /\ telemetry \in Local!Lists
    /\ altered \in BOOLEAN /\ lines \in 0..MaxSamples

Unwound == {"return", "interrupted", "over"}

StepsAreTaken ==
    /\ benchAt \in {"register", "prepare", "host", "launch"} => benched.records = 0 /\ stored.responses = 0
    /\ benchAt \in {"watch", "warmup", "measure"} =>
          stored.launched /\ stored.responses = benched.records /\ benched.records < Replies
    /\ unwinding => benchAt \in {"leave", "teardown", "hash", "write", "caught"} \cup Unwound
    /\ ~unwinding =>
          /\ benchAt \in {"settle", "leave", "teardown"} => Answered
          /\ benchAt = "teardown" => Left
          /\ benchAt \in {"recheck", "refuse"} => Gone
          /\ benchAt = "judge" => Compared
          /\ benchAt = "hash" => Judged
          /\ benchAt = "write" => Hashed
    /\ benchAt \in {"return", "interrupted"} => Kept

FiledIsKept ==
    /\ filed # None => benchAt = "over"
    /\ filed \notin {None, Local!Torn} /\ filed.status = "MEASURED" =>
          Kept /\ (outlived \/ filed.measurement = saved)

BenchInv == RecordsAreTyped /\ StepsAreTaken /\ FiledIsKept

-----------------------------------------------------------------------------
(* The types of what the invariants above leave out *)

(* What is written to a backup was read from the path. *)
ProfilesAreTyped ==
    /\ backups \subseteq Store!Profiles /\ proven \subseteq Setups
    /\ stood \cup raced \cup removed \subseteq Store!Profiles
    /\ \A s \in Setups : setupPc[s] = "revise" => copied[s] \in Store!Profiles

(* An attempt is made for a measurement that is still to be collected. *)
AttemptsAreBounded == attempts <= Job!MaxProcesses

SignalsAreTyped == {unwinding, stopping, outlived} \subseteq BOOLEAN

PlacesAreTyped ==
    /\ mishaps \in 0..MaxMishaps
    /\ benchAt \in {"register", "prepare", "host", "launch", "watch", "warmup", "measure", "settle",
                    "leave", "teardown", "recheck", "judge", "refuse", "hash", "write", "return",
                    "caught", "interrupted", "over"}
    /\ child \in {"none", "running", "gone"}
    /\ thread \in {"none", "waiting", "sampling", "ended"} /\ recaptured \in BOOLEAN \cup {None}

FilesAreTyped ==
    /\ saved \in Local!Results \cup {None, Local!Torn}
    /\ \/ filed \in {None, Local!Torn}
       \/ filed.status \in {"INCONCLUSIVE", "MEASURED"} /\ filed.measurement \in Local!Results \cup {None}

ProductIsTyped ==
    /\ pc \in {"capture", "freeze", "check", "launch", "collect", "validate", "report",
               "reconstruct", "pend", "fill", "claim", "final", "done", "dead"}
    /\ live \in BOOLEAN
    /\ pending \in {None, {}, {"plan"}, {"plan", "receipt"}}
    /\ pending # None => pc \in {"fill", "dead"}

(* Every block of the screening runs each candidate once, so that after b  *)
(* blocks and the first k candidates of the next no challenger has won     *)
(* more than its own runs.                                                 *)
BlocksAreCounted ==
    \E b \in 0..3, k \in 0..Len(Challengers) :
        /\ screened = b * (1 + Len(Challengers)) + k /\ (b = 3 => k = 0)
        /\ score[Incumbent] = 0
        /\ \A i \in 1..Len(Challengers) : score[Challengers[i]] <= IF i < k THEN b + 1 ELSE b

SearchIsTyped ==
    /\ spc \in {"idle", "prepare", "check", "launch", "collect", "rank", "publish", "rename",
                "done", "dead"}
    /\ confirmed \in 0..Runs /\ fast \in 0..FastCap
    /\ spc \in {"launch", "collect"} => More
    /\ searchPending => spc \in {"rename", "dead"}

ConsumerIsTyped ==
    cpc \in {"idle", "load", "run", "conclude", "done"} /\ result \in {None, "refused", "measured"}

TypesInv ==
    /\ experiment \in {"setup", "bench", "tune", "stock"}
    /\ ProfilesAreTyped /\ (experiment = "tune" => AttemptsAreBounded) /\ SignalsAreTyped /\ PlacesAreTyped
    /\ FilesAreTyped /\ ProductIsTyped /\ BlocksAreCounted /\ SearchIsTyped /\ ConsumerIsTyped

-----------------------------------------------------------------------------
(* The profile file *)

LEMMA NoneIsApart == None \notin Setups /\ None \notin Store!Profiles
  BY ExperimentsAssumption DEF Store!ProfileStoreAssumption

LEMMA StoreBegins == ASSUME MCInit PROVE StoreInv
<1> USE DEF MCInit, Store!Init, Store!Profiles, Store!Profile, Store!Statuses
<1>1. SetupsAreTyped
  BY DEF SetupsAreTyped, Places, Store!Earlier
<1>2. None \notin Setups /\ stood \subseteq {Store!Earlier}
  BY NoneIsApart
<1>3. DraftsAreProven
  BY DEF DraftsAreProven, Store!Is, Store!Earlier
<1>4. LastSaysHow
  BY <1>2 DEF LastSaysHow, Store!Earlier
<1>5. ReplacedIsBackedUp
  BY DEF ReplacedIsBackedUp
<1>6. Store!NothingIsLost
  BY DEF Store!NothingIsLost
<1> QED
  BY <1>1, <1>3, <1>4, <1>5, <1>6 DEF StoreInv

(* A step of one setup leaves the others where they are. *)
OthersStay(s) == \A o \in Setups \ {s} : UNCHANGED <<setupPc[o], draft[o], copied[o]>>

LEMMA StoreSteps == ASSUME StoreInv, Store!Next PROVE StoreInv'
<1> USE DEF StoreInv, OthersStay, Places, Store!Saving, Store!Finished, Store!Exposed,
            Store!Goto, Store!Is, Store!SaveAs, Store!Saved, Store!Raises
<1>1. ASSUME NEW s \in Setups, Store!Inspect(s) PROVE StoreInv'
  <2> USE <1>1 DEF Store!Inspect
  <2>1. SetupsAreTyped' /\ OthersStay(s)
    BY NoneIsApart DEF SetupsAreTyped, Store!Profiles, Store!Statuses
  <2>2. DraftsAreProven'
    BY <2>1 DEF SetupsAreTyped, DraftsAreProven, Store!Profiles
  <2>3. LastSaysHow'
    BY <2>1 DEF SetupsAreTyped, LastSaysHow, Store!Profile
  <2>4. ReplacedIsBackedUp'
    BY <2>1 DEF SetupsAreTyped, ReplacedIsBackedUp, Store!NothingIsLost
  <2>5. Store!NothingIsLost'
    BY <2>1 DEF SetupsAreTyped, ReplacedIsBackedUp, Store!NothingIsLost
  <2> QED
    BY <2>1, <2>2, <2>3, <2>4, <2>5
<1>2. ASSUME NEW s \in Setups, Store!Probe(s) PROVE StoreInv'
  <2> USE <1>2 DEF Store!Probe
  <2>1. SetupsAreTyped' /\ OthersStay(s)
    BY NoneIsApart DEF SetupsAreTyped, Store!Profiles, Store!Statuses
  <2>2. DraftsAreProven'
    BY <2>1 DEF SetupsAreTyped, DraftsAreProven, Store!Profiles
  <2>3. LastSaysHow'
    BY <2>1, ZenonT(60) DEF SetupsAreTyped, LastSaysHow, Store!Profile
  <2>4. ReplacedIsBackedUp'
    BY <2>1 DEF SetupsAreTyped, ReplacedIsBackedUp, Store!NothingIsLost
  <2>5. Store!NothingIsLost'
    BY <2>1 DEF SetupsAreTyped, ReplacedIsBackedUp, Store!NothingIsLost
  <2> QED
    BY <2>1, <2>2, <2>3, <2>4, <2>5
<1>3. ASSUME NEW s \in Setups, Store!WriteTemp(s) PROVE StoreInv'
  <2> USE <1>3 DEF Store!WriteTemp
  <2>1. SetupsAreTyped' /\ OthersStay(s)
    BY NoneIsApart DEF SetupsAreTyped, Store!Profiles, Store!Statuses
  <2>2. DraftsAreProven'
    BY <2>1 DEF SetupsAreTyped, DraftsAreProven, Store!Profiles
  <2>3. LastSaysHow'
    BY <2>1 DEF SetupsAreTyped, LastSaysHow, Store!Profile
  <2>4. ReplacedIsBackedUp'
    BY <2>1 DEF SetupsAreTyped, ReplacedIsBackedUp, Store!NothingIsLost
  <2>5. Store!NothingIsLost'
    BY <2>1 DEF SetupsAreTyped, ReplacedIsBackedUp, Store!NothingIsLost
  <2> QED
    BY <2>1, <2>2, <2>3, <2>4, <2>5
<1>4. ASSUME NEW s \in Setups, Store!Look(s) PROVE StoreInv'
  <2> USE <1>4 DEF Store!Look
  <2>1. SetupsAreTyped' /\ OthersStay(s)
    BY NoneIsApart DEF SetupsAreTyped, Store!Profiles, Store!Statuses
  <2>2. DraftsAreProven'
    BY <2>1 DEF SetupsAreTyped, DraftsAreProven, Store!Profiles
  <2>3. LastSaysHow'
    BY <2>1 DEF SetupsAreTyped, LastSaysHow, Store!Profile
  <2>4. ReplacedIsBackedUp'
    BY <2>1 DEF SetupsAreTyped, ReplacedIsBackedUp, Store!NothingIsLost
  <2>5. Store!NothingIsLost'
    BY <2>1 DEF SetupsAreTyped, ReplacedIsBackedUp, Store!NothingIsLost
  <2> QED
    BY <2>1, <2>2, <2>3, <2>4, <2>5
<1>5. ASSUME NEW s \in Setups, Store!Read(s) PROVE StoreInv'
  <2> USE <1>5 DEF Store!Read
  <2>1. SetupsAreTyped' /\ OthersStay(s)
    BY NoneIsApart DEF SetupsAreTyped, Store!Profiles, Store!Statuses
  <2>2. DraftsAreProven'
    BY <2>1 DEF SetupsAreTyped, DraftsAreProven, Store!Profiles
  <2>3. LastSaysHow'
    BY <2>1 DEF SetupsAreTyped, LastSaysHow, Store!Profile
  <2>4. ReplacedIsBackedUp'
    BY <2>1 DEF SetupsAreTyped, ReplacedIsBackedUp, Store!NothingIsLost
  <2>5. Store!NothingIsLost'
    BY <2>1 DEF SetupsAreTyped, ReplacedIsBackedUp, Store!NothingIsLost
  <2> QED
    BY <2>1, <2>2, <2>3, <2>4, <2>5
<1>6. ASSUME NEW s \in Setups, Store!Revise(s) PROVE StoreInv'
  <2> USE <1>6 DEF Store!Revise
  <2>1. SetupsAreTyped' /\ OthersStay(s)
    BY NoneIsApart DEF SetupsAreTyped, Store!Profiles, Store!Statuses
  <2>2. DraftsAreProven'
    BY <2>1 DEF SetupsAreTyped, DraftsAreProven, Store!Profiles
  <2>3. LastSaysHow'
    BY <2>1 DEF SetupsAreTyped, LastSaysHow, Store!Profile
  <2>4. ReplacedIsBackedUp'
    BY <2>1 DEF SetupsAreTyped, ReplacedIsBackedUp, Store!NothingIsLost
  <2>5. Store!NothingIsLost'
    BY <2>1 DEF SetupsAreTyped, ReplacedIsBackedUp, Store!NothingIsLost
  <2> QED
    BY <2>1, <2>2, <2>3, <2>4, <2>5
<1>7. ASSUME NEW s \in Setups, Store!Replace(s) PROVE StoreInv'
  <2> USE <1>7 DEF Store!Replace
  <2>1. SetupsAreTyped' /\ OthersStay(s)
    BY NoneIsApart DEF SetupsAreTyped, Store!Profiles, Store!Statuses
  <2>2. DraftsAreProven'
    BY <2>1 DEF SetupsAreTyped, DraftsAreProven, Store!Profiles
  <2>3. LastSaysHow'
    <3>1. \A o \in Setups :
            \A found : Store!Profile(o, found) = draft[s] => o = s /\ Store!Is(s, found)
      BY DEF SetupsAreTyped, Store!Profile
    <3> QED
      BY <2>1, <3>1 DEF SetupsAreTyped, LastSaysHow
  <2>4. ReplacedIsBackedUp'
    BY <2>1 DEF SetupsAreTyped, ReplacedIsBackedUp, Store!NothingIsLost
  <2>5. Store!NothingIsLost'
    BY <2>1 DEF SetupsAreTyped, ReplacedIsBackedUp, Store!NothingIsLost
  <2> QED
    BY <2>1, <2>2, <2>3, <2>4, <2>5
<1>8. ASSUME NEW s \in Setups, Store!SaveFails(s) PROVE StoreInv'
  <2> USE <1>8 DEF Store!SaveFails
  <2>1. SetupsAreTyped' /\ OthersStay(s)
    BY NoneIsApart, SMTT(60) DEF SetupsAreTyped, Store!Profiles, Store!Statuses
  <2>2. DraftsAreProven'
    BY <2>1 DEF SetupsAreTyped, DraftsAreProven, Store!Profiles
  <2>3. LastSaysHow'
    <3>1. setupPc[s] \notin {"done", "raised"} /\ setupPc'[s] \in {"raised", "save"} /\ stood' = stood
      BY DEF SetupsAreTyped
    <3> QED
      BY <2>1, <3>1 DEF SetupsAreTyped, LastSaysHow
  <2>4. ReplacedIsBackedUp'
    BY <2>1 DEF SetupsAreTyped, ReplacedIsBackedUp, Store!NothingIsLost
  <2>5. Store!NothingIsLost'
    BY <2>1 DEF SetupsAreTyped, ReplacedIsBackedUp, Store!NothingIsLost
  <2> QED
    BY <2>1, <2>2, <2>3, <2>4, <2>5
<1>9. ASSUME NEW s \in Setups, Store!Die(s) PROVE StoreInv'
  <2> USE <1>9 DEF Store!Die
  <2>1. SetupsAreTyped' /\ OthersStay(s)
    BY NoneIsApart DEF SetupsAreTyped, Store!Profiles, Store!Statuses
  <2>2. DraftsAreProven'
    BY <2>1 DEF SetupsAreTyped, DraftsAreProven, Store!Profiles
  <2>3. LastSaysHow'
    BY <2>1, ZenonT(60) DEF SetupsAreTyped, LastSaysHow, Store!Profile
  <2>4. ReplacedIsBackedUp'
    BY <2>1 DEF SetupsAreTyped, ReplacedIsBackedUp, Store!NothingIsLost
  <2>5. Store!NothingIsLost'
    BY <2>1 DEF SetupsAreTyped, ReplacedIsBackedUp, Store!NothingIsLost
  <2> QED
    BY <2>1, <2>2, <2>3, <2>4, <2>5
<1>10. CASE Store!Remove
  BY <1>10 DEF Store!Remove, SetupsAreTyped, DraftsAreProven, LastSaysHow, ReplacedIsBackedUp,
               Store!NothingIsLost
<1> QED
  BY <1>1, <1>2, <1>3, <1>4, <1>5, <1>6, <1>7, <1>8, <1>9, <1>10 DEF Store!Next, Store!Setup

-----------------------------------------------------------------------------
(* The tuning job *)

LEMMA JobMarks == None \notin Nat /\ Partial \notin Nat /\ None # Partial
  BY ExperimentsAssumption DEF Job!TuneJobAssumption

LEMMA JobBegins == ASSUME MCInit PROVE JobInv
  BY JobMarks
     DEF MCInit, Job!Init, JobInv, Counting, AttemptsAreLaunched, AttemptsAreJournalled, PausesAreKept,
         Job!Trying

LEMMA JobSteps == ASSUME JobInv, Job!Next PROVE JobInv' /\ Job!StartsAreTimely
<1> USE JobMarks DEF JobInv, Counting, AttemptsAreLaunched, AttemptsAreJournalled, PausesAreKept,
            Job!StartsAreTimely, Job!Trying,
            Job!progress, Job!outcome, Job!running, Job!jobFiles, Job!resultFiles,
            Job!Conclude, Job!Raise
<1>1. CASE Job!Register
  BY <1>1 DEF Job!Register
<1>2. CASE Job!Pace
  <2>1. Job!Wait \in Nat /\ (lastEnd # None => clock + Job!Wait - lastEnd >= Spacing)
    BY ExperimentsAssumption DEF Job!Wait, Job!TuneJobAssumption
  <2>2. clock' \in Nat /\ (jobPc' = "start" /\ lastEnd # None => clock' - lastEnd >= Spacing)
    BY <1>2, <2>1, ExperimentsAssumption DEF Job!Pace, Job!TuneJobAssumption
  <2> QED
    BY <1>2, <2>2 DEF Job!Pace
<1>3. CASE Job!Start
  BY <1>3 DEF Job!Start
<1>4. CASE Job!Launch
  <2>1. clock' \in Nat /\ clock' >= clock
    BY <1>4, ExperimentsAssumption DEF Job!Launch, Job!TuneJobAssumption
  <2>2. lastEnd # None => clock' - lastEnd >= Spacing
    BY <1>4, <2>1, ExperimentsAssumption DEF Job!Launch, Job!TuneJobAssumption
  <2> QED
    BY <1>4, <2>1, <2>2 DEF Job!Launch, Job!InTime
<1>5. CASE Job!Measure
  <2>1. clock' \in Nat
    BY <1>5, ExperimentsAssumption DEF Job!Measure, Job!TuneJobAssumption
  <2> QED
    BY <1>5, <2>1 DEF Job!Measure
<1>6. CASE Job!CollectSearch
  BY <1>6 DEF Job!CollectSearch
<1>7. CASE Job!Gate
  BY <1>7 DEF Job!Gate
<1>8. CASE Job!CollectPair
  BY <1>8 DEF Job!CollectPair
<1>9. CASE Job!DecideJob
  BY <1>9 DEF Job!DecideJob
<1>10. CASE Job!Accept \/ Job!Evidence
  BY <1>10 DEF Job!Accept, Job!Evidence
<1>11. CASE Job!BeginReport \/ Job!EndReport \/ Job!BeginSelect \/ Job!EndSelect
  BY <1>11 DEF Job!BeginReport, Job!EndReport, Job!BeginSelect, Job!EndSelect
<1>12. CASE Job!Interrupt \/ Job!Crash \/ Job!HostChanges
  BY <1>12 DEF Job!Interrupt, Job!Crash, Job!HostChanges
<1>13. CASE Job!EndJournal
  BY <1>13 DEF Job!EndJournal
<1> QED
  BY <1>1, <1>2, <1>3, <1>4, <1>5, <1>6, <1>7, <1>8, <1>9, <1>10, <1>11, <1>12, <1>13
     DEF Job!Next, Job!Step

LEMMA JobConstants ==
  /\ ThreadCounts \in Seq(Nat) /\ Len(ThreadCounts) \in Nat
  /\ \A i \in 1..Len(ThreadCounts) : ThreadCounts[i] \in Nat
  /\ \A i, j \in 1..Len(ThreadCounts) : ThreadCounts[i] = ThreadCounts[j] => i = j
  /\ SearchRates \subseteq Nat /\ PairRates \subseteq Nat /\ "same" \in Tokens
  /\ Len(Hosts) \in Nat \ {0} /\ None \notin Nat
  /\ None \notin Job!Reports /\ Partial \notin Job!Reports
<1>1. Job!TuneJobAssumption
  BY ExperimentsAssumption
<1>2. ThreadCounts \in Seq(Nat \ {0})
  BY <1>1 DEF Job!TuneJobAssumption
<1>3. /\ Len(ThreadCounts) \in Nat
      /\ \A i \in 1..Len(ThreadCounts) : ThreadCounts[i] \in Nat
  BY <1>2, LenProperties, ElementOfSeq
<1>4. ThreadCounts \in Seq(Nat)
  BY <1>2
<1> QED
  BY <1>1, <1>3, <1>4 DEF Job!TuneJobAssumption

(* What has been collected keeps its receipts. *)
LEMMA CollectedStays ==
  ASSUME ResultInv, receipts \subseteq receipts', UNCHANGED <<search, pairs, half, winner>>
  PROVE  SearchIsReceived' /\ PairsAreReceived' /\ HalfIsReceived' /\ WinnerIsBest'
  BY DEF ResultInv, SearchIsReceived, PairsAreReceived, HalfIsReceived, WinnerIsBest, Job!Received,
         Job!Role

(* No file of the result exists before the finally block. *)
LEMMA NoFilesYet == ASSUME ResultInv, jobPc \in Early PROVE jobReport \in {None, Partial} /\ selected = None
  BY DEF ResultInv, FilesAreTrue, Early, Job!Trying

(* An exception leaves what was collected and claims nothing. *)
LEMMA RaiseStays ==
  ASSUME ResultInv, Job!Raise, jobPc \in Early,
         UNCHANGED <<host, search, pairs, half, winner, receipts, launches, jobReport, selected>>
  PROVE  ResultInv'
<1> USE DEF Job!Raise, Job!Conclude
<1>1. SearchIsReceived' /\ PairsAreReceived' /\ HalfIsReceived' /\ WinnerIsBest'
  BY CollectedStays
<1>2. ProgressIsTyped'
  BY DEF ResultInv, ProgressIsTyped, Job!Statuses
<1>3. PhasesAreOrdered'
  BY DEF ResultInv, PhasesAreOrdered, Choosing, Job!Confirming
<1>4. LaunchesAreCollected' /\ GotIsReceived' /\ ReceiptsAreOfOneHost' /\ StatusIsEarned'
  BY DEF ResultInv, LaunchesAreCollected, GotIsReceived, ReceiptsAreOfOneHost, StatusIsEarned,
         Early, Claims, Job!Trying
<1>5. FilesAreTrue'
  BY NoFilesYet DEF FilesAreTrue
<1> QED
  BY <1>1, <1>2, <1>3, <1>4, <1>5 DEF ResultInv

(* Best is the highest rate of the search, and the winner's. *)
LEMMA BestIsFastest ==
  ASSUME ResultInv
  PROVE  /\ Job!Best \in Nat /\ \A i \in 1..Len(search) : search[i].rate \in Nat /\ search[i].rate <= Job!Best
         /\ winner = None => Job!Best = Job!Baseline
         /\ winner # None => \E i \in 2..Len(search) : search[i].threads = winner /\ search[i].rate = Job!Best
<1> USE DEF ResultInv, ProgressIsTyped
<1>1. Len(search) \in Nat /\ \A i \in 1..Len(search) : search[i].rate \in Nat
  <2>1. \A i \in 1..Len(search) : search[i] \in Job!Measurements
    BY ElementOfSeq
  <2> QED
    BY <2>1, LenProperties DEF Job!Measurements
<1>2. CASE winner = None
  BY <1>1, <1>2 DEF WinnerIsBest, Job!Best, Job!Baseline
<1>3. CASE winner # None
  <2> DEFINE Shown(r) == \E i \in 2..Len(search) : search[i].threads = winner /\ search[i].rate = r
  <2>1. PICK w \in 2..Len(search) :
           search[w].threads = winner /\ \A j \in 1..Len(search) : search[j].rate <= search[w].rate
    BY <1>3 DEF WinnerIsBest
  <2>2. \A i \in 2..Len(search) : search[i].threads = winner => i = w
    <3>1. ASSUME NEW i \in 2..Len(search) PROVE search[i].threads = ThreadCounts[i - 1] /\ i - 1 \in 1..Len(ThreadCounts)
      BY <1>1, JobConstants DEF SearchIsReceived, PhasesAreOrdered
    <3>2. search[w].threads = ThreadCounts[w - 1] /\ w - 1 \in 1..Len(ThreadCounts)
      BY <3>1
    <3>3. ASSUME NEW i \in 2..Len(search), search[i].threads = winner PROVE i = w
      <4>1. i - 1 = w - 1
        BY <2>1, <3>1, <3>2, <3>3, JobConstants
      <4> QED
        BY <1>1, <4>1
    <3> QED
      BY <3>3
  <2>3. search[w].rate \in SearchRates /\ Shown(search[w].rate)
    BY <1>1, <2>1 DEF SearchIsReceived
  <2>4. \A r : Shown(r) => r = search[w].rate
    BY <2>2
  <2>5. Job!Best = search[w].rate
    <3>1. Job!Best = CHOOSE r \in SearchRates : Shown(r)
      BY <1>3 DEF Job!Best
    <3> HIDE DEF Shown
    <3> QED
      BY <2>3, <2>4, <3>1
  <2> QED
    BY <1>1, <1>3, <2>1, <2>5
<1> QED
  BY <1>2, <1>3

LEMMA DirectoryStays ==
  ASSUME UNCHANGED <<search, pairs, half, winner>>
  PROVE  Job!Directory' = Job!Directory /\ Job!ThreadsOf(Job!NextRole)' = Job!ThreadsOf(Job!NextRole)
  BY DEF Job!Directory, Job!ThreadsOf, Job!NextRole, Job!Role, Job!Confirming

LEMMA FivePairsAreSome == Len(pairs) = 5 => pairs # <<>>
<1>1. Len(<<>>) = 0
  OBVIOUS
<1> QED
  BY <1>1

(* The steps that collect nothing. *)
Collection == <<search, pairs, half, winner, receipts, launches>>

LEMMA OthersCollectNothing ==
  ASSUME ResultInv, JobInv,
         \/ Job!Register \/ Job!Pace \/ Job!Start \/ Job!Gate \/ Job!DecideJob \/ Job!Accept
         \/ Job!Evidence \/ Job!BeginReport \/ Job!EndReport \/ Job!BeginSelect \/ Job!EndSelect
         \/ Job!Interrupt \/ Job!Crash \/ Job!HostChanges \/ Job!EndJournal
  PROVE  ResultInv'
<1> USE DEF Job!Conclude, Job!progress, Job!outcome, Job!running, Job!jobFiles, Job!resultFiles
<1>1. UNCHANGED Collection
  BY DEF Job!Register, Job!Pace, Job!Start, Job!Gate, Job!DecideJob, Job!Accept, Job!Evidence,
         Job!BeginReport, Job!EndReport, Job!BeginSelect, Job!EndSelect, Job!Interrupt, Job!Crash,
         Job!HostChanges, Job!EndJournal, Collection, Job!Raise
<1>2. SearchIsReceived' /\ PairsAreReceived' /\ HalfIsReceived' /\ WinnerIsBest'
  BY <1>1, CollectedStays DEF Collection
<1> USE DEF Collection, ProgressIsTyped, PhasesAreOrdered, LaunchesAreCollected, Collected,
            GotIsReceived, ReceiptsAreOfOneHost, StatusIsEarned, FilesAreTrue, ResultInv,
            Early, Choosing, Claims, Job!Statuses, Job!Trying, Job!Confirming
<1>3. CASE Job!Register
  <2>1. search = <<>> /\ Len(search) = 0
    BY <1>3 DEF Job!Register
  <2>2. pairs = <<>> /\ Len(pairs) = 0
    BY <2>1, JobConstants
  <2> QED
    BY <1>1, <1>2, <1>3, <2>1, <2>2 DEF Job!Register
<1>4. CASE Job!Pace
  <2>1. CASE Job!Raise
    BY <1>4, <2>1, RaiseStays DEF Job!Pace
  <2>2. CASE jobPc' = "start" /\ UNCHANGED Job!outcome
    BY <1>1, <1>2, <1>4, <2>2 DEF Job!Pace
  <2> QED
    BY <1>4, <2>1, <2>2 DEF Job!Pace
<1>5. CASE Job!Start
  <2>1. CASE Job!Raise
    BY <1>1, <1>5, <2>1, RaiseStays DEF Job!Start
  <2>2. CASE jobPc' = "journal" /\ UNCHANGED Job!outcome
    BY <1>1, <1>2, <1>5, <2>2 DEF Job!Start
  <2> QED
    BY <1>5, <2>1, <2>2 DEF Job!Start
<1>6. CASE Job!Gate
  <2>1. /\ Len(search) \in Nat /\ search # <<>> /\ search[1].rate = Job!Baseline
        /\ \A i \in 1..Len(search) : search[i].rate \in Nat /\ search[i].rate <= Job!Best
    <3>1. Len(search) \in Nat /\ Len(search) >= 1
      BY <1>6, JobConstants DEF Job!Gate
    <3> QED
      BY <3>1, BestIsFastest DEF SearchIsReceived
  <2>2. CASE jobPc' = "report" /\ jobStatus' = "NO-MEASURABLE-GAIN" /\ (winner = None \/ Job!Best * 100 < Job!Baseline * 105)
    <3>1. \A i \in 1..Len(search) : search[i].rate * 100 < search[1].rate * 105
      BY <2>1, <2>2, BestIsFastest, SMTT(60) DEF Job!Baseline
    <3> QED
      BY <1>1, <1>2, <1>6, <2>1, <2>2, <3>1 DEF Job!Gate
  <2>3. CASE jobPc' = "pace" /\ UNCHANGED jobStatus
    BY <1>1, <1>2, <1>6, <2>3 DEF Job!Gate
  <2> QED
    BY <1>6, <2>2, <2>3 DEF Job!Gate
<1>7. CASE Job!DecideJob
  <2>1. Job!Decide(pairs) \in Job!Statuses \ {"UNSUPPORTED"} /\ Job!Decide(pairs)' = Job!Decide(pairs)
    BY <1>1 DEF Job!Decide, Job!Gains
  <2>2. search # <<>> /\ pairs # <<>>
    <3>1. pairs # <<>>
      <4>1. Len(pairs) = 5
        BY <1>7 DEF Job!DecideJob
      <4> QED
        BY <4>1, FivePairsAreSome
    <3>2. Len(search) = 1 + Len(ThreadCounts)
      BY <3>1
    <3> QED
      BY <3>1, <3>2, JobConstants
  <2>3. StatusIsEarned'
    BY <1>1, <1>7, <2>1, <2>2 DEF Job!DecideJob
  <2> QED
    BY <1>1, <1>2, <1>7, <2>1, <2>3 DEF Job!DecideJob
<1>8. CASE Job!Accept
  BY <1>1, <1>2, <1>8 DEF Job!Accept
<1>9. CASE Job!Evidence
  BY <1>1, <1>2, <1>9 DEF Job!Evidence
<1>10. CASE Job!BeginReport
  BY <1>1, <1>2, <1>10 DEF Job!BeginReport
<1>11. CASE Job!EndReport
  BY <1>1, <1>2, <1>11 DEF Job!EndReport, Job!Result
<1>12. CASE Job!BeginSelect
  BY <1>1, <1>2, <1>12 DEF Job!BeginSelect, Job!Result
<1>13. CASE Job!EndSelect
  BY <1>1, <1>2, <1>13 DEF Job!EndSelect, Job!Result
<1>14. CASE Job!Interrupt
  BY <1>1, <1>14, RaiseStays DEF Job!Interrupt
<1>15. CASE Job!Crash
  BY <1>1, <1>2, <1>15 DEF Job!Crash, Job!Result
<1>16. CASE Job!HostChanges
  BY <1>1, <1>2, <1>16, DirectoryStays, JobConstants DEF Job!HostChanges, Job!Result
<1>17. CASE Job!EndJournal
  BY <1>1, <1>2, <1>17 DEF Job!EndJournal
<1> QED
  BY <1>3, <1>4, <1>5, <1>6, <1>7, <1>8, <1>9, <1>10, <1>11, <1>12, <1>13, <1>14, <1>15, <1>16, <1>17

LEMMA LaunchCollectsNothing == ASSUME ResultInv, JobInv, Job!Launch PROVE ResultInv'
<1> USE DEF Job!Launch
<1>1. CASE Job!Raise /\ UNCHANGED <<began, launches>>
  BY <1>1, RaiseStays DEF Early, Job!Trying, Job!resultFiles
<1>2. CASE began' = Hosts[host] /\ launches' = launches + 1 /\ jobPc' = "measure" /\ UNCHANGED Job!outcome
  <2>1. SearchIsReceived' /\ PairsAreReceived' /\ HalfIsReceived' /\ WinnerIsBest'
    BY CollectedStays
  <2>2. ProgressIsTyped'
    BY <1>2 DEF ResultInv, ProgressIsTyped, Job!outcome
  <2>3. PhasesAreOrdered'
    BY <1>2 DEF ResultInv, PhasesAreOrdered, Choosing, Job!Confirming
  <2>4. LaunchesAreCollected'
    <3>1. Len(search) \in Nat /\ Len(pairs) \in Nat /\ Len(half) \in Nat
      BY LenProperties DEF ResultInv, ProgressIsTyped
    <3>2. launches = Collected
      BY DEF ResultInv, LaunchesAreCollected, Early, Job!Trying
    <3>3. launches' <= Job!MaxProcesses
      <4>1. CASE Job!Confirming
        BY <1>2, <3>1, <3>2, <4>1, JobConstants
           DEF ResultInv, PhasesAreOrdered, Choosing, Job!Confirming, Collected, Job!MaxProcesses
      <4>2. CASE ~Job!Confirming
        <5>1. Len(pairs) = 0 /\ Len(half) = 0
          BY <4>2 DEF ResultInv, PhasesAreOrdered
        <5> QED
          BY <1>2, <3>1, <3>2, <4>2, <5>1, JobConstants
             DEF ResultInv, PhasesAreOrdered, Choosing, Job!Confirming, Collected, Job!MaxProcesses
      <4> QED
        BY <4>1, <4>2
    <3>4. jobStatus' = "INCONCLUSIVE"
      BY <1>2 DEF ResultInv, StatusIsEarned, Early, Job!Trying, Job!outcome
    <3> QED
      BY <1>2, <3>2, <3>3, <3>4 DEF LaunchesAreCollected, Collected, Claims, Early, Job!Trying
  <2>5. GotIsReceived' /\ ReceiptsAreOfOneHost' /\ StatusIsEarned'
    BY <1>2 DEF ResultInv, GotIsReceived, ReceiptsAreOfOneHost, StatusIsEarned, Early, Claims,
                Job!Trying, Job!outcome
  <2>6. FilesAreTrue'
    BY <1>2, NoFilesYet DEF FilesAreTrue, Job!resultFiles, Early, Job!Trying
  <2> QED
    BY <2>1, <2>2, <2>3, <2>4, <2>5, <2>6 DEF ResultInv
<1> QED
  BY <1>1, <1>2

(* What may be measured next is typed. *)
LEMMA MeasuredIsTyped ==
  ASSUME ResultInv, jobPc = "measure", NEW m \in Job!Measured
  PROVE  /\ m \in Job!Measurements /\ m.threads = Job!ThreadsOf(Job!NextRole)
         /\ ~Job!Confirming => m.rate \in (IF search = <<>> THEN {Job!Baseline} ELSE SearchRates)
<1>1. Job!ThreadsOf(Job!NextRole) \in Nat \cup {None}
  <2>1. CASE Job!Confirming
    BY <2>1 DEF ResultInv, ProgressIsTyped, Job!NextRole, Job!Role, Job!ThreadsOf, Job!Default
  <2>2. CASE ~Job!Confirming /\ search = <<>>
    BY <2>2 DEF Job!NextRole, Job!ThreadsOf, Job!Default
  <2>3. CASE ~Job!Confirming /\ search # <<>>
    <3>1. Len(search) \in 1..Len(ThreadCounts)
      <4>1. Len(search) \in Nat /\ Len(search) # 0
        BY <2>3, EmptySeq DEF ResultInv, ProgressIsTyped
      <4> QED
        BY <2>3, <4>1, JobConstants DEF ResultInv, PhasesAreOrdered, Job!Confirming
    <3> QED
      BY <2>3, <3>1, JobConstants DEF Job!NextRole, Job!ThreadsOf
  <2> QED
    BY <2>1, <2>2, <2>3
<1>2. Job!Rates \subseteq Nat /\ (~Job!Confirming => Job!Rates = IF search = <<>> THEN {Job!Baseline} ELSE SearchRates)
  BY JobConstants DEF Job!Rates, Job!NextRole, Job!Role, Job!Baseline
<1>3. began \in {Hosts[i] : i \in 1..Len(Hosts)}
  BY DEF ResultInv, ProgressIsTyped
<1> QED
  BY <1>1, <1>2, <1>3, JobConstants DEF Job!Measured, Job!Measurements

LEMMA MeasureReceives == ASSUME ResultInv, JobInv, Job!Measure PROVE ResultInv'
<1>1. CASE Job!Raise /\ UNCHANGED <<got, receipts>>
  BY <1>1, RaiseStays DEF Job!Measure, Early, Job!Trying, Job!resultFiles
<1>2. ASSUME NEW m \in Job!Measured, got' = m, receipts' = receipts \cup {[dir |-> Job!Directory, m |-> m]},
             jobPc' = "collect", UNCHANGED Job!outcome
      PROVE  ResultInv'
  <2>0. /\ jobPc = "measure" /\ jobStatus' = "INCONCLUSIVE"
        /\ UNCHANGED <<host, search, pairs, half, winner, launches, jobReport, selected>>
        /\ UNCHANGED <<jobStatus, retained, chosen>>
    BY <1>2 DEF Job!Measure, ResultInv, StatusIsEarned, Early, Job!Trying, Job!outcome, Job!resultFiles
  <2>1. SearchIsReceived' /\ PairsAreReceived' /\ HalfIsReceived' /\ WinnerIsBest'
    BY <1>2, <2>0, CollectedStays
  <2>2. ProgressIsTyped'
    BY <1>2, <2>0, MeasuredIsTyped DEF ResultInv, ProgressIsTyped
  <2>3. PhasesAreOrdered'
    BY <1>2, <2>0 DEF ResultInv, PhasesAreOrdered, Choosing, Job!Confirming
  <2>4. LaunchesAreCollected'
    BY <1>2, <2>0 DEF ResultInv, LaunchesAreCollected, Collected, Claims, Early, Job!Trying
  <2>5. GotIsReceived'
    BY <1>2, <2>0, MeasuredIsTyped, DirectoryStays DEF GotIsReceived, Job!Confirming, Job!Baseline
  <2>6. ReceiptsAreOfOneHost'
    BY <1>2, <2>0 DEF ResultInv, ReceiptsAreOfOneHost, Early, Job!Trying
  <2>7. StatusIsEarned'
    BY <1>2, <2>0 DEF ResultInv, StatusIsEarned, Early, Job!Trying, Claims
  <2>8. FilesAreTrue'
    BY <1>2, <2>0, NoFilesYet DEF FilesAreTrue, Early, Job!Trying
  <2> QED
    BY <2>1, <2>2, <2>3, <2>4, <2>5, <2>6, <2>7, <2>8 DEF ResultInv
<1> QED
  BY <1>1, <1>2 DEF Job!Measure

(* A member that is appended is the last one. *)
LEMMA Appended ==
  ASSUME NEW S, NEW seq \in Seq(S), NEW e \in S
  PROVE  /\ Append(seq, e) \in Seq(S) /\ Append(seq, e) # <<>>
         /\ Len(seq) \in Nat /\ Len(Append(seq, e)) = Len(seq) + 1
         /\ \A i \in 1..Len(seq) : Append(seq, e)[i] = seq[i]
         /\ Append(seq, e)[Len(seq) + 1] = e
  BY AppendProperties, LenProperties

LEMMA SearchIsCollected == ASSUME ResultInv, JobInv, Job!CollectSearch PROVE ResultInv'
<1> USE DEF Job!CollectSearch
<1>0. UNCHANGED <<host, pairs, half, launches, receipts, jobReport, selected>>
  BY DEF Job!jobFiles, Job!resultFiles
<1>1. CASE Job!Raise /\ UNCHANGED <<search, winner>>
  BY <1>0, <1>1, RaiseStays DEF Early, Job!Trying
<1>2. CASE /\ search # <<>> => got.host = search[1].host /\ got.tokens = search[1].tokens
           /\ search' = Append(search, got)
           /\ winner' = IF search # <<>> /\ got.rate > Job!Best THEN got.threads ELSE winner
           /\ jobPc' = (IF Len(search') = 1 + Len(ThreadCounts) THEN "gate" ELSE "pace")
           /\ UNCHANGED Job!outcome
  <2> DEFINE n == Len(search)
  <2>1. /\ jobPc = "collect" /\ ~Job!Confirming /\ got \in Job!Measurements /\ search \in Seq(Job!Measurements)
        /\ jobStatus' = "INCONCLUSIVE" /\ UNCHANGED <<jobStatus, retained, chosen>>
    BY <1>2 DEF ResultInv, ProgressIsTyped, StatusIsEarned, Early, Job!Trying, Job!outcome
  <2>2. /\ search' \in Seq(Job!Measurements) /\ search' # <<>>
        /\ n \in Nat /\ Len(search') = n + 1 /\ search'[n + 1] = got
        /\ \A i \in 1..n : search'[i] = search[i]
    BY <1>2, <2>1, Appended
  <2>3. pairs = <<>> /\ half = <<>> /\ n < 1 + Len(ThreadCounts) /\ Len(pairs) = 0 /\ Len(half) = 0
    BY <2>1, <2>2, JobConstants DEF ResultInv, PhasesAreOrdered, Job!Confirming
  <2>4. /\ got.threads = Job!ThreadsOf("search") /\ Job!Received("search", got.threads, got)
        /\ got.rate \in (IF search = <<>> THEN {Job!Baseline} ELSE SearchRates)
    BY <2>1 DEF ResultInv, GotIsReceived, Job!NextRole, Job!Directory, Job!Received
  <2>5. ProgressIsTyped'
    BY <1>0, <1>2, <2>1, <2>2 DEF ResultInv, ProgressIsTyped, Job!Measurements
  <2>6. PhasesAreOrdered'
    BY <1>0, <1>2, <2>1, <2>2, <2>3, JobConstants DEF PhasesAreOrdered, Job!Confirming, Choosing
  <2>7. LaunchesAreCollected'
    BY <1>0, <1>2, <2>1, <2>2, <2>3 DEF ResultInv, LaunchesAreCollected, Collected, Claims, Early, Job!Trying
  <2>8. n = 0 <=> search = <<>>
    BY <2>1, EmptySeq
  <2>9. search'[1] = IF search = <<>> THEN got ELSE search[1]
    BY <2>2, <2>8
  <2>10. SearchIsReceived'
    <3>1. ASSUME NEW i \in 1..n
          PROVE  /\ search'[i].host = search'[1].host /\ search'[i].tokens = search'[1].tokens
                 /\ [dir |-> [role |-> "search", index |-> search'[i].threads], m |-> search'[i]] \in receipts'
                 /\ IF i = 1 THEN search'[i].rate = Job!Baseline
                    ELSE search'[i].threads = ThreadCounts[i - 1] /\ search'[i].rate \in SearchRates
      <4>1. search'[i] = search[i] /\ search'[1] = search[1]
        BY <2>2, <2>8, <2>9
      <4>2. /\ search[i].host = search[1].host /\ search[i].tokens = search[1].tokens
            /\ [dir |-> [role |-> "search", index |-> search[i].threads], m |-> search[i]] \in receipts
            /\ IF i = 1 THEN search[i].rate = Job!Baseline
               ELSE search[i].threads = ThreadCounts[i - 1] /\ search[i].rate \in SearchRates
        BY DEF ResultInv, SearchIsReceived, Job!Received
      <4> QED
        BY <1>0, <4>1, <4>2
    <3>2. /\ got.host = search'[1].host /\ got.tokens = search'[1].tokens
          /\ [dir |-> [role |-> "search", index |-> got.threads], m |-> got] \in receipts'
          /\ IF n = 0 THEN got.rate = Job!Baseline
             ELSE got.threads = ThreadCounts[n] /\ got.rate \in SearchRates
      BY <1>0, <1>2, <2>4, <2>8, <2>9 DEF Job!Received, Job!ThreadsOf
    <3>3. \A i \in 1..n + 1 :
            /\ search'[i].host = search'[1].host /\ search'[i].tokens = search'[1].tokens
            /\ [dir |-> [role |-> "search", index |-> search'[i].threads], m |-> search'[i]] \in receipts'
            /\ IF i = 1 THEN search'[i].rate = Job!Baseline
               ELSE search'[i].threads = ThreadCounts[i - 1] /\ search'[i].rate \in SearchRates
      <4>1. ASSUME NEW i \in 1..n + 1, i \notin 1..n PROVE i = n + 1 /\ i - 1 = n /\ (i = 1 <=> n = 0)
        BY <2>2, <4>1
      <4> QED
        BY <2>2, <3>1, <3>2, <4>1
    <3> QED
      BY <2>2, <3>3 DEF SearchIsReceived, Job!Received, Job!Baseline
  <2>11. WinnerIsBest'
    <3>1. /\ Job!Best \in Nat /\ got.rate \in Nat
          /\ \A i \in 1..n : search[i].rate \in Nat /\ search[i].rate <= Job!Best
          /\ winner = None => Job!Best = Job!Baseline
      BY <2>1, BestIsFastest DEF Job!Measurements
    <3>2. CASE search = <<>>
      <4>1. winner = None
        BY <2>8, <3>2 DEF ResultInv, WinnerIsBest
      <4> QED
        BY <1>2, <2>2, <2>4, <2>8, <3>2, <4>1 DEF WinnerIsBest, Job!Baseline
    <3>3. CASE search # <<>> /\ got.rate > Job!Best
      <4>1. winner' = got.threads /\ got.threads = ThreadCounts[n] /\ n \in 1..Len(ThreadCounts)
        BY <1>2, <2>2, <2>3, <2>4, <2>8, <3>3, JobConstants DEF Job!ThreadsOf
      <4>2. winner' # None
        BY <4>1, JobConstants
      <4>3. \A j \in 1..n + 1 : search'[j].rate <= got.rate
        BY <2>2, <3>1, <3>3
      <4>4. n + 1 \in 2..Len(search')
        BY <2>2, <4>1
      <4> QED
        BY <2>2, <4>1, <4>2, <4>3, <4>4 DEF WinnerIsBest
    <3>4. CASE search # <<>> /\ ~(got.rate > Job!Best)
      <4>1. winner' = winner /\ got.rate <= Job!Best
        BY <1>2, <3>1, <3>4
      <4>2. CASE winner = None
        BY <2>2, <3>1, <4>1, <4>2 DEF WinnerIsBest, Job!Baseline
      <4>3. CASE winner # None
        <5>1. PICK w \in 2..n : search[w].threads = winner /\ search[w].rate = Job!Best
          BY <4>3, BestIsFastest
        <5>3. \A j \in 1..n + 1 : search'[j].rate <= search'[w].rate
          BY <2>2, <3>1, <4>1, <5>1
        <5> QED
          BY <2>2, <4>1, <4>3, <5>1, <5>3 DEF WinnerIsBest
      <4> QED
        BY <4>2, <4>3
    <3> QED
      BY <3>2, <3>3, <3>4
  <2>12. PairsAreReceived' /\ HalfIsReceived' /\ GotIsReceived'
    BY <1>0, <1>2, <2>3 DEF PairsAreReceived, HalfIsReceived, GotIsReceived
  <2>13. ReceiptsAreOfOneHost'
    BY <1>0, <1>2, <2>1, <2>2, <2>9 DEF ResultInv, ReceiptsAreOfOneHost, Early, Job!Trying
  <2>14. StatusIsEarned' /\ FilesAreTrue'
    BY <1>0, <1>2, <2>1, NoFilesYet DEF StatusIsEarned, FilesAreTrue, Early, Claims, Job!Trying
  <2> QED
    BY <2>5, <2>6, <2>7, <2>10, <2>11, <2>12, <2>13, <2>14 DEF ResultInv
<1> QED
  BY <1>1, <1>2

LEMMA RolesAlternate == \A n \in Nat : (n + 0) % 2 = 0 <=> (n + 1) % 2 # 0
  OBVIOUS

LEMMA NoneOrOne == \A n \in Nat : n <= 1 => n = 0 \/ n = 1
  OBVIOUS

LEMMA PairIsCollected == ASSUME ResultInv, JobInv, Job!CollectPair PROVE ResultInv'
<1> USE DEF Job!CollectPair
<1>0. /\ UNCHANGED <<host, search, winner, launches, receipts, jobReport, selected>>
      /\ jobPc = "collect" /\ Job!Confirming
  BY DEF Job!jobFiles, Job!resultFiles
<1>1. CASE Job!Raise /\ UNCHANGED <<pairs, half>>
  BY <1>0, <1>1, RaiseStays DEF Early, Job!Trying
<1>2. ASSUME got.host = search[1].host, jobPc' # "collect", UNCHANGED Job!outcome
      PROVE  /\ SearchIsReceived' /\ WinnerIsBest' /\ GotIsReceived' /\ FilesAreTrue' /\ ReceiptsAreOfOneHost'
             /\ jobStatus' = "INCONCLUSIVE" /\ UNCHANGED <<jobStatus, retained, chosen>>
  <2>1. SearchIsReceived' /\ WinnerIsBest'
    BY <1>0 DEF ResultInv, SearchIsReceived, WinnerIsBest, Job!Received
  <2>2. jobStatus = "INCONCLUSIVE" /\ UNCHANGED <<jobStatus, retained, chosen>>
    BY <1>0, <1>2 DEF ResultInv, StatusIsEarned, Early, Job!Trying, Job!outcome
  <2>3. search # <<>>
    BY <1>0, JobConstants DEF Job!Confirming
  <2>4. ReceiptsAreOfOneHost'
    BY <1>0, <1>2, <2>2, <2>3 DEF ResultInv, ReceiptsAreOfOneHost, Early, Job!Trying
  <2>5. GotIsReceived' /\ FilesAreTrue'
    <3>1. jobPc' \in {"pace", "decide"}
      BY <1>0, <1>2 DEF ResultInv, StatusIsEarned, Job!Raise, Job!Conclude
    <3> QED
      BY <1>0, <3>1, NoFilesYet DEF GotIsReceived, FilesAreTrue, Early, Job!Trying
  <2> QED
    BY <2>1, <2>2, <2>4, <2>5
<1>3. /\ got \in Job!Measurements /\ half \in Seq(Job!Measurements) /\ pairs \in Seq(Job!Pairs)
      /\ Len(half) \in Nat /\ Len(pairs) \in Nat /\ Len(half) <= 1 /\ Len(pairs) < 5
      /\ got.threads = Job!ThreadsOf(Job!Role(Len(half))) /\ Job!Received(Job!Role(Len(half)), Len(pairs), got)
      /\ launches = Len(search) + 2 * Len(pairs) + Len(half) + 1 /\ Len(search) \in Nat
      /\ Job!Role(Len(half)) \in {"baseline", "candidate"}
  <2>1. Job!NextRole = Job!Role(Len(half)) /\ Job!Role(Len(half)) \in {"baseline", "candidate"}
    BY <1>0 DEF Job!NextRole, Job!Role
  <2>2. /\ got \in Job!Measurements /\ half \in Seq(Job!Measurements) /\ pairs \in Seq(Job!Pairs)
        /\ search \in Seq(Job!Measurements)
    BY <1>0 DEF ResultInv, ProgressIsTyped
  <2>3. Len(half) \in Nat /\ Len(pairs) \in Nat /\ Len(search) \in Nat
    BY <2>2, LenProperties
  <2>4. Len(half) <= 1 /\ Len(pairs) < 5
    BY <1>0 DEF ResultInv, PhasesAreOrdered, Choosing
  <2>5. launches = Len(search) + 2 * Len(pairs) + Len(half) + 1
    BY <1>0, <2>3 DEF ResultInv, LaunchesAreCollected, Collected
  <2>6. got.threads = Job!ThreadsOf(Job!Role(Len(half))) /\ Job!Received(Job!Role(Len(half)), Len(pairs), got)
    BY <1>0, <2>1 DEF ResultInv, GotIsReceived, Job!Directory, Job!Received
  <2> QED
    BY <2>1, <2>2, <2>3, <2>4, <2>5, <2>6
<1>4. CASE /\ got.host = search[1].host /\ Len(half) = 0 /\ half' = <<got>> /\ UNCHANGED pairs
           /\ jobPc' = "pace" /\ UNCHANGED Job!outcome
  <2>1. half' \in Seq(Job!Measurements) /\ Len(half') = 1 /\ half'[1] = got
    BY <1>3, <1>4
  <2>2. ProgressIsTyped'
    BY <1>0, <1>2, <1>4, <2>1 DEF ResultInv, ProgressIsTyped
  <2>3. PhasesAreOrdered'
    BY <1>0, <1>3, <1>4, <2>1 DEF ResultInv, PhasesAreOrdered, Choosing, Job!Confirming
  <2>4. LaunchesAreCollected'
    BY <1>0, <1>2, <1>3, <1>4, <2>1 DEF ResultInv, LaunchesAreCollected, Collected, Claims, Early, Job!Trying
  <2>5. PairsAreReceived'
    BY <1>0, <1>4 DEF ResultInv, PairsAreReceived, Job!Received
  <2>6. HalfIsReceived'
    <3>1. /\ Job!Role(0) = "candidate" => got.threads = winner
          /\ [dir |-> [role |-> Job!Role(0), index |-> Len(pairs)], m |-> got] \in receipts
      BY <1>3, <1>4 DEF Job!ThreadsOf, Job!Received
    <3>2. Job!Role(0)' = Job!Role(0)
      BY <1>4 DEF Job!Role
    <3> QED
      BY <1>0, <1>4, <2>1, <3>1, <3>2 DEF HalfIsReceived, Job!Received
  <2>7. StatusIsEarned'
    BY <1>2, <1>4 DEF StatusIsEarned, Claims
  <2> QED
    BY <1>2, <1>4, <2>2, <2>3, <2>4, <2>5, <2>6, <2>7 DEF ResultInv
<1>5. ASSUME got.host = search[1].host, Len(half) # 0, half' = <<>>,
             NEW pair, pair = (IF Job!Role(0) = "baseline" THEN [baseline |-> half[1], candidate |-> got]
                                                            ELSE [baseline |-> got, candidate |-> half[1]]),
             pairs' = Append(pairs, pair),
             jobPc' = (IF Len(pairs') = 5 THEN "decide" ELSE "pace"), UNCHANGED Job!outcome
      PROVE  ResultInv'
  <2>1. Len(half) = 1 /\ half # <<>> /\ half[1] \in Job!Measurements
    <3>1. Len(half) = 1
      <4>1. Len(half) \in Nat /\ Len(half) <= 1
        BY <1>3
      <4>2. Len(half) # 0
        BY <1>5
      <4> QED
        BY <4>1, <4>2, NoneOrOne
    <3> QED
      BY <1>3, <3>1, ElementOfSeq, EmptySeq
  <2>2. pair \in Job!Pairs
    BY <1>3, <1>5, <2>1 DEF Job!Pairs
  <2>3. /\ pairs' \in Seq(Job!Pairs) /\ pairs' # <<>> /\ Len(pairs') = Len(pairs) + 1
        /\ pairs'[Len(pairs) + 1] = pair /\ \A i \in 1..Len(pairs) : pairs'[i] = pairs[i]
    BY <1>3, <1>5, <2>2, Appended
  <2>4. /\ pair.candidate.threads = winner
        /\ \A role \in {"baseline", "candidate"} :
              /\ [dir |-> [role |-> role, index |-> Len(pairs)], m |-> pair[role]] \in receipts
              /\ pair[role].host = search[1].host
    <3>1. /\ Job!Role(0) = "candidate" => half[1].threads = winner
          /\ [dir |-> [role |-> Job!Role(0), index |-> Len(pairs)], m |-> half[1]] \in receipts
          /\ half[1].host = search[1].host
      BY <2>1 DEF ResultInv, HalfIsReceived, Job!Received
    <3>2. /\ Job!Role(1) = "candidate" => got.threads = winner
          /\ [dir |-> [role |-> Job!Role(1), index |-> Len(pairs)], m |-> got] \in receipts
      BY <1>3, <2>1 DEF Job!ThreadsOf, Job!Received
    <3>3. \/ Job!Role(0) = "baseline" /\ Job!Role(1) = "candidate"
          \/ Job!Role(0) = "candidate" /\ Job!Role(1) = "baseline"
      <4>1. Len(pairs) \in Nat
        BY <1>3
      <4>2. (Len(pairs) + 0) % 2 = 0 <=> (Len(pairs) + 1) % 2 # 0
        BY <4>1, RolesAlternate
      <4> QED
        BY <4>2 DEF Job!Role
    <3> QED
      BY <1>5, <3>1, <3>2, <3>3
  <2>5. ProgressIsTyped'
    BY <1>0, <1>2, <1>5, <2>3 DEF ResultInv, ProgressIsTyped
  <2>6. PhasesAreOrdered'
    BY <1>0, <1>3, <1>5, <2>3 DEF ResultInv, PhasesAreOrdered, Choosing, Job!Confirming
  <2>7. LaunchesAreCollected'
    BY <1>0, <1>2, <1>3, <1>5, <2>1, <2>3 DEF ResultInv, LaunchesAreCollected, Collected, Claims, Early, Job!Trying
  <2>8. PairsAreReceived'
    <3>1. ASSUME NEW i \in 1..Len(pairs)
          PROVE  /\ pairs'[i].candidate.threads = winner'
                 /\ \A role \in {"baseline", "candidate"} :
                       /\ [dir |-> [role |-> role, index |-> i - 1], m |-> pairs'[i][role]] \in receipts'
                       /\ pairs'[i][role].host = search'[1].host
      BY <1>0, <2>3 DEF ResultInv, PairsAreReceived, Job!Received
    <3>2. \A i \in 1..Len(pairs') : i \in 1..Len(pairs) \/ (i = Len(pairs) + 1 /\ i - 1 = Len(pairs))
      BY <1>3, <2>3
    <3> QED
      BY <1>0, <2>3, <2>4, <3>1, <3>2 DEF PairsAreReceived, Job!Received
  <2>9. HalfIsReceived'
    BY <1>5 DEF HalfIsReceived
  <2>10. StatusIsEarned'
    BY <1>2, <1>5 DEF StatusIsEarned, Claims
  <2>11. jobPc' # "collect"
    BY <1>5
  <2> QED
    BY <1>2, <1>5, <2>5, <2>6, <2>7, <2>8, <2>9, <2>10, <2>11 DEF ResultInv
<1> QED
  BY <1>1, <1>4, <1>5

LEMMA ResultBegins == ASSUME MCInit PROVE ResultInv
<1> USE DEF MCInit, Job!Init
<1>1. ProgressIsTyped
  <2>1. retained \in BOOLEAN
    BY Zenon
  <2>2. host = 1 /\ host \in 1..Len(Hosts)
    BY JobConstants
  <2> QED
    BY <2>1, <2>2 DEF ProgressIsTyped, Job!Statuses
<1>2. Len(search) = 0 /\ Len(pairs) = 0 /\ Len(half) = 0
  OBVIOUS
<1>3. PhasesAreOrdered /\ LaunchesAreCollected
  BY <1>2, JobConstants
     DEF PhasesAreOrdered, Choosing, LaunchesAreCollected, Collected, Claims, Job!MaxProcesses
<1>4. SearchIsReceived /\ PairsAreReceived /\ HalfIsReceived /\ GotIsReceived /\ WinnerIsBest
  BY <1>2 DEF SearchIsReceived, PairsAreReceived, HalfIsReceived, GotIsReceived, WinnerIsBest
<1>5. ReceiptsAreOfOneHost /\ StatusIsEarned /\ FilesAreTrue
  BY DEF ReceiptsAreOfOneHost, StatusIsEarned, FilesAreTrue, Claims
<1> QED
  BY <1>1, <1>3, <1>4, <1>5 DEF ResultInv

LEMMA ResultSteps == ASSUME ResultInv, JobInv, Job!Next PROVE ResultInv'
  BY OthersCollectNothing, LaunchCollectsNothing, MeasureReceives, SearchIsCollected, PairIsCollected
     DEF Job!Next, Job!Step

-----------------------------------------------------------------------------
(* The benchmark *)

LEMMA MemoryIsNotNone == Replies \in Nat \ {0} /\ MaxSamples \in Nat /\ None \notin Local!Lists /\ None \notin Local!Results
  BY ExperimentsAssumption DEF Local!ProductBenchmarkAssumption

(* The updates of the records are of their types. *)
LEMMA StoredUpdates ==
  ASSUME NEW r \in Local!Stores
  PROVE  /\ [r EXCEPT !.launched = TRUE] \in Local!Stores
         /\ [r EXCEPT !.launched = TRUE, !.receipt = TRUE] \in Local!Stores
         /\ [r EXCEPT !.receipt = TRUE] \in Local!Stores /\ [r EXCEPT !.receipt = FALSE] \in Local!Stores
<1>1. \A a \in BOOLEAN, b \in BOOLEAN :
        /\ [r EXCEPT !.launched = a] \in Local!Stores /\ [r EXCEPT !.receipt = b] \in Local!Stores
        /\ [r EXCEPT !.launched = a, !.receipt = b] \in Local!Stores
  BY DEF Local!Stores
<1> QED
  BY <1>1, Zenon

LEMMA TelemetryUpdates ==
  ASSUME NEW r \in Local!Lists
  PROVE  [r EXCEPT !.failed = TRUE] \in Local!Lists
<1>1. \A b \in BOOLEAN : [r EXCEPT !.failed = b] \in Local!Lists
  BY DEF Local!Lists
<1> QED
  BY <1>1, Zenon

LEMMA OutcomeUpdates ==
  ASSUME NEW r \in Local!Outcomes
  PROVE  [r EXCEPT !.watched = ~unwinding] \in Local!Outcomes
<1>1. \A b \in BOOLEAN : [r EXCEPT !.watched = b] \in Local!Outcomes
  BY DEF Local!Outcomes
<1> QED
  BY <1>1, Zenon

LEMMA BenchBegins == ASSUME MCInit PROVE BenchInv
<1> USE DEF MCInit, Local!Init
<1>1. altered \in BOOLEAN /\ lines \in 0..MaxSamples
  <2>1. altered \in BOOLEAN
    BY Zenon
  <2> QED
    BY <2>1, MemoryIsNotNone
<1>2. stored \in Local!Stores
  <2>1. \A b \in BOOLEAN : [responses |-> 0, launched |-> b, receipt |-> None] \in Local!Stores
    BY MemoryIsNotNone DEF Local!Stores
  <2> QED
    BY <2>1, Zenon
<1>3. telemetry \in Local!Lists
  <2>1. \A b \in BOOLEAN : [samples |-> 0, failed |-> b] \in Local!Lists
    BY MemoryIsNotNone DEF Local!Lists
  <2> QED
    BY <2>1, Zenon
<1>4. benched \in Local!Outcomes
  <2>1. \A b \in BOOLEAN :
           [status |-> "INCONCLUSIVE", cleanup |-> b, records |-> 0, host |-> None, watched |-> b,
            hashed |-> None] \in Local!Outcomes
    BY MemoryIsNotNone DEF Local!Outcomes
  <2> QED
    BY <2>1, Zenon
<1>5. StepsAreTaken
  BY DEF StepsAreTaken, Unwound
<1>6. FiledIsKept
  BY DEF FiledIsKept
<1> QED
  BY <1>1, <1>2, <1>3, <1>4, <1>5, <1>6 DEF BenchInv, RecordsAreTyped

LEMMA BenchSteps == ASSUME BenchInv, Local!Next PROVE BenchInv'
<1> USE MemoryIsNotNone
<1> USE DEF BenchInv, RecordsAreTyped, Local!Outcomes, Local!Stores, Local!Lists, StepsAreTaken, FiledIsKept, Unwound, Answered, Left, Gone,
            Compared, Judged, Hashed, Kept, Local!Files, Local!Held, Local!Torn,
            Local!world, Local!serving, Local!watching, Local!history, Local!results,
            Local!Mishap, Local!Goto, Local!Quiet, Local!Handler, Local!Raise
<1>1. CASE Local!Register
  BY <1>1 DEF Local!Register
<1>2. CASE Local!Prepare
  BY <1>2 DEF Local!Prepare
<1>3. CASE Local!CaptureHost
  <2> USE <1>3 DEF Local!CaptureHost
  <2>1. RecordsAreTyped'
    OBVIOUS
  <2>2. StepsAreTaken'
    OBVIOUS
  <2>3. FiledIsKept'
    OBVIOUS
  <2> QED
    BY <2>1, <2>2, <2>3
<1>4. CASE Local!Launch
  <2> USE <1>4 DEF Local!Launch
  <2>1. RecordsAreTyped'
    <3>1. stored' \in Local!Stores
      <4>1. \/ stored' = [stored EXCEPT !.launched = TRUE]
            \/ stored' = [stored EXCEPT !.launched = TRUE, !.receipt = TRUE]
        BY Zenon
      <4>2. stored \in Local!Stores
        OBVIOUS
      <4> HIDE <1>4 DEF Local!Stores
      <4> QED
        BY <4>1, <4>2, StoredUpdates
    <3> QED
      BY <3>1
  <2>2. StepsAreTaken'
    OBVIOUS
  <2>3. FiledIsKept'
    OBVIOUS
  <2> QED
    BY <2>1, <2>2, <2>3
<1>5. CASE Local!StartMonitor
  BY <1>5 DEF Local!StartMonitor
<1>6. CASE Local!Warmup
  BY <1>6 DEF Local!Warmup
<1>7. CASE Local!Measure
  BY <1>7 DEF Local!Measure
<1>8. CASE Local!LostServer
  BY <1>8 DEF Local!LostServer
<1>9. CASE Local!Settle
  BY <1>9 DEF Local!Settle
<1>10. CASE Local!LeaveMonitor
  <2> USE <1>10 DEF Local!LeaveMonitor
  <2>1. RecordsAreTyped'
    BY OutcomeUpdates
  <2>2. StepsAreTaken'
    OBVIOUS
  <2>3. FiledIsKept'
    OBVIOUS
  <2> QED
    BY <2>1, <2>2, <2>3
<1>11. CASE Local!Teardown
  <2> USE <1>11 DEF Local!Teardown
  <2>1. RecordsAreTyped'
    <3>1. /\ [stored EXCEPT !.receipt = TRUE] \in Local!Stores
          /\ [stored EXCEPT !.receipt = FALSE] \in Local!Stores
      BY StoredUpdates, Zenon
    <3>2. stored' \in Local!Stores
      <4> HIDE DEF Local!Stores, Local!Outcomes, Local!Lists
      <4> QED
        BY <3>1
    <3> QED
      BY <3>2
  <2>2. StepsAreTaken'
    OBVIOUS
  <2>3. FiledIsKept'
    OBVIOUS
  <2> QED
    BY <2>1, <2>2, <2>3
<1>12. CASE Local!Recheck
  BY <1>12 DEF Local!Recheck, Local!SameHost
<1>13. CASE Local!Judge
  BY <1>13 DEF Local!Judge, Local!TelemetryHolds
<1>14. CASE Local!Refuse
  BY <1>14 DEF Local!Refuse
<1>15. CASE Local!Hash
  <2> USE <1>15 DEF Local!Hash
  <2>1. RecordsAreTyped'
    BY ZenonT(60)
  <2>2. StepsAreTaken'
    OBVIOUS
  <2>3. FiledIsKept'
    OBVIOUS
  <2> QED
    BY <2>1, <2>2, <2>3
<1>16. CASE Local!Write
  <2> USE <1>16 DEF Local!Write
  <2>1. RecordsAreTyped'
    OBVIOUS
  <2>2. StepsAreTaken'
    <3>1. CASE saved' = Local!Held /\ benchAt' = (IF unwinding THEN "caught" ELSE "return")
      <4>1. Local!Held \in Local!Results /\ Local!Held # Local!Torn
        BY DEF Local!Results
      <4> QED
        BY <3>1, <4>1
    <3>2. CASE saved' = Local!Torn /\ Local!Raise
      BY <3>2
    <3> QED
      BY <3>1, <3>2
  <2>3. FiledIsKept'
    OBVIOUS
  <2> QED
    BY <2>1, <2>2, <2>3
<1>17. CASE Local!Return
  BY <1>17 DEF Local!Return, Local!Report
<1>18. CASE Local!Caught
  BY <1>18 DEF Local!Caught, Local!Report
<1>19. CASE Local!Fail
  BY <1>19 DEF Local!Fail
<1>20. CASE Local!Die
  BY <1>20 DEF Local!Die
<1>21. CASE Local!Sample
  <2> USE <1>21 DEF Local!Sample
  <2>1. RecordsAreTyped'
    BY TelemetryUpdates
  <2>2. StepsAreTaken'
    OBVIOUS
  <2>3. FiledIsKept'
    OBVIOUS
  <2> QED
    BY <2>1, <2>2, <2>3
<1>22. CASE Local!Wake
  BY <1>22 DEF Local!Wake
<1>23. CASE Local!Serve
  BY <1>23 DEF Local!Serve
<1>24. CASE Local!Alter
  BY <1>24 DEF Local!Alter
<1> QED
  BY <1>1, <1>2, <1>3, <1>4, <1>5, <1>6, <1>7, <1>8, <1>9, <1>10, <1>11, <1>12, <1>13, <1>14, <1>15, <1>16, <1>17, <1>18, <1>19, <1>20, <1>21, <1>22, <1>23, <1>24
     DEF Local!Next, Local!Bench

-----------------------------------------------------------------------------
(* The theorems *)

LEMMA StoreStays == ASSUME StoreInv, [MCNext]_experimentVars PROVE StoreInv'
<1>1. CASE InSetup /\ Store!Next
  BY <1>1, StoreSteps
<1>2. CASE UNCHANGED setupVars
  BY <1>2 DEF setupVars, StoreInv, SetupsAreTyped, DraftsAreProven, LastSaysHow, ReplacedIsBackedUp,
              Store!NothingIsLost, Store!Is
<1> QED
  BY <1>1, <1>2 DEF MCNext, InBench, InTune, InStock, experimentVars

LEMMA JobStays == ASSUME JobInv, [MCNext]_experimentVars PROVE JobInv' /\ [Job!StartsAreTimely]_(Job!vars)
<1>1. CASE InTune /\ Job!Next
  BY <1>1, JobSteps
<1>2. CASE UNCHANGED jobVars
  BY <1>2 DEF jobVars, JobInv, Counting, AttemptsAreLaunched, AttemptsAreJournalled, PausesAreKept,
              Job!StartsAreTimely
<1> QED
  BY <1>1, <1>2 DEF MCNext, InSetup, InBench, InStock, experimentVars

(* A profile at the path says what its own setup found, and what a save    *)
(* replaces can be restored (setup_profile, save_profile).                 *)
THEOREM ProfilesCorrect == MCSpec => []ProfilesAreKept
<1>1. MCInit => StoreInv
  BY StoreBegins
<1>2. StoreInv /\ [MCNext]_experimentVars => StoreInv'
  BY StoreStays
<1>3. StoreInv => ProfilesAreKept
  BY DEF StoreInv, DraftsAreProven, LastSaysHow, ProfilesAreKept, Store!ProfileIsTrue
<1> QED
  BY <1>1, <1>2, <1>3, PTL DEF MCSpec

(* No process of a tuning job is launched, or measured, that the journal   *)
(* does not count; it counts one too many at most, and it is unreadable    *)
(* only where the job ended while it was written (write_json in measure).  *)
THEOREM JournalCorrect == MCSpec => []JournalCovers
<1>1. MCInit => JobInv
  BY JobBegins
<1>2. JobInv /\ [MCNext]_experimentVars => JobInv'
  BY JobStays
<1>3. JobInv => JournalCovers
  BY JobMarks
     DEF JobInv, Counting, AttemptsAreLaunched, AttemptsAreJournalled, JournalCovers, Job!JournalCovers
<1> QED
  BY <1>1, <1>2, <1>3, PTL DEF MCSpec

(* Its processes are launched apart and before the deadline, for any       *)
(* budget and spacing, however long the sleeps and the preparations of an  *)
(* attempt take (measure, measure_profile and OwnedProcess.__enter__).     *)
THEOREM PacedCorrect == MCSpec => Paced
<1>1. MCInit => JobInv
  BY JobBegins
<1>2. JobInv /\ [MCNext]_experimentVars => JobInv' /\ [Job!StartsAreTimely]_(Job!vars)
  BY JobStays
<1> QED
  BY <1>1, <1>2, PTL DEF MCSpec, Paced, Job!Paced

LEMMA ResultStays ==
  ASSUME JobInv, experiment = "tune" => ResultInv, [MCNext]_experimentVars
  PROVE  (experiment = "tune" => ResultInv)'
<1>1. CASE InTune /\ Job!Next
  BY <1>1, ResultSteps DEF InTune
<1>2. CASE UNCHANGED experiment /\ experiment # "tune"
  BY <1>2
<1>3. CASE UNCHANGED <<experiment, host, jobVars>>
  <2>1. ResultInv => ResultInv'
    BY <1>3, CollectedStays, DirectoryStays, SMTT(60)
       DEF jobVars, ResultInv, ProgressIsTyped, PhasesAreOrdered, LaunchesAreCollected, Collected,
           GotIsReceived, ReceiptsAreOfOneHost, StatusIsEarned, FilesAreTrue, Job!Result, Job!Confirming,
           Job!Decide, Job!Gains
  <2> QED
    BY <1>3, <2>1
<1> QED
  BY <1>1, <1>2, <1>3 DEF MCNext, InSetup, InBench, InTune, InStock, experimentVars

(* The report of a tuning job is as its state says. *)
LEMMA ResultIsReport == ASSUME JobInv, ResultInv PROVE Job!Result \notin {None, Partial}
<1>1. Job!Result \in Job!Reports
  BY DEF JobInv, Counting, ResultInv, ProgressIsTyped, Job!Result, Job!Reports
<1> QED
  BY <1>1, JobConstants

LEMMA SelectedFollows == ASSUME JobInv, ResultInv PROVE Job!SelectedIsEarned
<1> SUFFICES ASSUME selected # None PROVE Job!SelectedIsEarned
  BY DEF Job!SelectedIsEarned
<1>1. /\ jobReport = Job!Result /\ jobStatus = "VERIFIED-IMPROVEMENT" /\ chosen = winner
      /\ jobPc \in {"selecting", "done", "dead"}
      /\ selected # Partial => selected = [threads |-> winner, digest |-> jobReport]
  BY DEF ResultInv, FilesAreTrue
<1>2. Job!Decide(pairs) = "VERIFIED-IMPROVEMENT"
  BY <1>1 DEF ResultInv, StatusIsEarned, Claims
<1>3. /\ Len(pairs) = 5 /\ Job!Gains(pairs) >= 4
      /\ \A i \in 1..5 : pairs[i].baseline.tokens = pairs[i].candidate.tokens
  BY <1>2 DEF Job!Decide
<1>4. \A i \in 1..5 : pairs[i].candidate.threads = chosen
  BY <1>1, <1>3 DEF ResultInv, PairsAreReceived
<1>5. \A c \in receipts : c.m.host = search[1].host
  BY <1>1 DEF ResultInv, ReceiptsAreOfOneHost, Claims
<1>6. /\ jobReport \notin {None, Partial} /\ jobReport.status = jobStatus /\ jobReport.pairs = pairs
      /\ jobReport.chosen = chosen /\ jobReport.search = search
  BY <1>1, ResultIsReport DEF Job!Result
<1> QED
  BY <1>1, <1>3, <1>4, <1>5, <1>6 DEF Job!SelectedIsEarned

LEMMA ReportFollows == ASSUME JobInv, ResultInv PROVE Job!ReportIsReconstructible
<1> SUFFICES ASSUME jobReport \notin {None, Partial} PROVE Job!ReportIsReconstructible
  BY DEF Job!ReportIsReconstructible
<1>1. /\ jobReport.status = jobStatus /\ jobReport.pairs = pairs /\ jobReport.search = search
      /\ jobPc \in {"select", "selecting", "done", "dead"} /\ launches <= Job!MaxProcesses /\ launches \in Nat
  BY DEF ResultInv, FilesAreTrue, LaunchesAreCollected, Job!Result, JobInv, Counting
<1>2. Job!MaxProcesses \in Nat
  BY JobConstants DEF Job!MaxProcesses
<1>3. ~(launches > Job!MaxProcesses)
  BY <1>1, <1>2
<1>4. CASE jobStatus \in {"INCONCLUSIVE", "UNSUPPORTED"}
  BY <1>1, <1>3, <1>4 DEF Job!ReportIsReconstructible, Job!VerifyJob
<1>5. CASE jobStatus \in Claims
  <2>1. Job!SearchReceipts(jobReport)
    BY <1>1, <1>5 DEF ResultInv, SearchIsReceived, StatusIsEarned, Job!SearchReceipts
  <2>2. Job!PairReceipts(jobReport)
    BY <1>1 DEF ResultInv, PairsAreReceived, Job!PairReceipts
  <2>3. Job!Reconstructed(jobReport)
    BY <1>1, <1>5 DEF ResultInv, StatusIsEarned, Job!Reconstructed
  <2>4. launches = Len(search) + 2 * Len(pairs)
    <3>1. Len(half) = 0 /\ Len(search) \in Nat /\ Len(pairs) \in Nat
      BY <1>5, LenProperties DEF ResultInv, LaunchesAreCollected, ProgressIsTyped
    <3> QED
      BY <1>5, <3>1 DEF ResultInv, LaunchesAreCollected, Collected
  <2> QED
    BY <1>1, <1>3, <1>5, <2>1, <2>2, <2>3, <2>4 DEF Claims, Job!ReportIsReconstructible, Job!VerifyJob
<1> QED
  BY <1>4, <1>5 DEF ResultInv, ProgressIsTyped, Job!Statuses, Claims

LEMMA BenchStays == ASSUME BenchInv, [MCNext]_experimentVars PROVE BenchInv'
<1>1. CASE InBench /\ Local!Next
  BY <1>1, BenchSteps
<1>2. CASE UNCHANGED localVars
  BY <1>2 DEF localVars, BenchInv, RecordsAreTyped, StepsAreTaken, FiledIsKept, Unwound, Answered, Left,
              Gone, Compared, Judged, Hashed, Kept, Local!Files, Local!Held
<1> QED
  BY <1>1, <1>2 DEF MCNext, InSetup, InTune, InStock, experimentVars

LEMMA VerifiedFollows == ASSUME BenchInv PROVE Local!MeasuredIsVerifiable /\ Local!VerifiedIsEarned
  BY DEF BenchInv, FiledIsKept, Kept, Hashed, Judged, Compared, Gone, Left, Answered,
         Local!MeasuredIsVerifiable, Local!VerifiedIsEarned, Local!Verifies

JobsInv == JobInv /\ (experiment = "tune" => ResultInv) /\ BenchInv

LEMMA JobsCorrect == MCSpec => []JobsInv
<1>1. MCInit => JobsInv
  BY JobBegins, ResultBegins, BenchBegins DEF JobsInv
<1>2. JobsInv /\ [MCNext]_experimentVars => JobsInv'
  BY JobStays, ResultStays, BenchStays DEF JobsInv
<1> QED
  BY <1>1, <1>2, PTL DEF MCSpec

(* What a tuning job selects was earned in five pairs on one host, and     *)
(* what verify_job confirms of a benchmark was measured on one host by a   *)
(* server that is gone, whatever failed, changed or died.                  *)
THEOREM SelectedCorrect == MCSpec => []SelectedIsEarned
<1>1. JobsInv => SelectedIsEarned
  BY SelectedFollows, VerifiedFollows DEF JobsInv, SelectedIsEarned
<1> QED
  BY <1>1, JobsCorrect, PTL

(* verify_job accepts every report that tune_profile completed, and every  *)
(* benchmark that says MEASURED, from the files alone.                     *)
THEOREM ReportCorrect == MCSpec => []ReportIsReconstructible
<1>1. JobsInv => ReportIsReconstructible
  BY ReportFollows, VerifiedFollows DEF JobsInv, ReportIsReconstructible
<1> QED
  BY <1>1, JobsCorrect, PTL

(* What the others do leaves the stock experiments alone, but for the host. *)
LEMMA StockMoves ==
  ASSUME [MCNext]_experimentVars
  PROVE  [Next]_vars \/ (HostChanges /\ UNCHANGED <<searchVars, consumerVars>>)
<1>1. CASE InStock /\ Next
  BY <1>1
<1>2. CASE InTune /\ Job!Next
  <2>1. Job!HostChanges \/ UNCHANGED host
    BY <1>2 DEF Job!Next, Job!Step, Job!Register, Job!Pace, Job!Start, Job!EndJournal, Job!Launch, Job!Measure,
                Job!CollectSearch, Job!Gate, Job!CollectPair, Job!DecideJob, Job!Accept, Job!Evidence,
                Job!BeginReport, Job!EndReport, Job!BeginSelect, Job!EndSelect, Job!Interrupt, Job!Crash
  <2>2. CASE Job!HostChanges
    BY <1>2, <2>2 DEF InTune, stockVars, Job!HostChanges, HostChanges
  <2>3. CASE UNCHANGED host
    BY <1>2, <2>3 DEF InTune, stockVars, vars, envVars
  <2> QED
    BY <2>1, <2>2, <2>3
<1>3. CASE UNCHANGED <<host, stockVars>>
  BY <1>3 DEF stockVars, vars, envVars
<1> QED
  BY <1>1, <1>2, <1>3 DEF MCNext, InSetup, InBench, experimentVars

(* The stock experiments keep their promises beside the other programs:    *)
(* what is accepted passed on one host, the report claims a product only   *)
(* where one loads, a challenger was confirmed, and a consumer measured    *)
(* what it relies on (execute_stock_product, execute_stock_search).        *)
THEOREM StockCorrect ==
  MCSpec => [](AcceptedIsEarned /\ PublicationIsTrue /\ ChallengerIsEarned /\ ConsumerIsBound)
<1>1. MCInit => Inv
  BY InvBegins DEF MCInit
<1>2. Inv /\ [MCNext]_experimentVars => Inv'
  <2> SUFFICES ASSUME Inv, [MCNext]_experimentVars PROVE Inv'
    OBVIOUS
  <2>1. CASE [Next]_vars
    BY <2>1, InvStays
  <2>2. CASE HostChanges /\ UNCHANGED <<searchVars, consumerVars>>
    BY <2>2, WorldStays
  <2> QED
    BY <2>1, <2>2, StockMoves
<1>3. Inv => AcceptedIsEarned /\ PublicationIsTrue /\ ChallengerIsEarned /\ ConsumerIsBound
  BY DEF Inv, ProductInv, PublishedIsPassed, ClaimIsTrue, SearchInv, ConsumerInv, AcceptedIsEarned,
         PublicationIsTrue, Loads, Reconstructs, Intact
<1> QED
  BY <1>1, <1>2, <1>3, PTL DEF MCSpec
-----------------------------------------------------------------------------
(* The types *)

LEMMA TypesBegin == ASSUME MCInit PROVE TypesInv
<1> USE DEF MCInit, Init
<1>1. ProfilesAreTyped
  BY StoreBegins DEF StoreInv, SetupsAreTyped, ProfilesAreTyped, Store!Init
<1>2. AttemptsAreBounded
  BY JobConstants DEF AttemptsAreBounded, Job!Init, Job!MaxProcesses
<1>3. SignalsAreTyped /\ PlacesAreTyped
  <2>1. SignalsAreTyped
    BY Zenon DEF SignalsAreTyped, Local!Init
  <2>2. 0 \in 0..MaxMishaps
    BY ExperimentsAssumption DEF Local!ProductBenchmarkAssumption
  <2> QED
    BY <2>1, <2>2 DEF PlacesAreTyped, Local!Init
<1>4. FilesAreTyped
  BY DEF FilesAreTyped, Local!Init
<1>5. ProductIsTyped
  <2>1. live \in BOOLEAN
    BY Zenon DEF ProductInit
  <2> QED
    BY <2>1 DEF ProductIsTyped, ProductInit
<1>6. BlocksAreCounted
  <2>1. Incumbent \in Candidates /\ \A i \in 1..Len(Challengers) : Challengers[i] \in Candidates
    BY DEF Candidates
  <2>2. Len(Challengers) \in Nat
    BY StockSearchAssumption, LenProperties
  <2>3. score[Incumbent] = 0 /\ \A i \in 1..Len(Challengers) : score[Challengers[i]] = 0
    BY <2>1
  <2>4. 0 \in 0..3 /\ 0 \in 0..Len(Challengers) /\ 0 = 0 * (1 + Len(Challengers)) + 0
    BY <2>2
  <2> QED
    BY <2>2, <2>3, <2>4 DEF BlocksAreCounted
<1>7. SearchIsTyped
  BY DEF SearchIsTyped, Runs, PAIRS, FastCap
<1>8. ConsumerIsTyped
  BY DEF ConsumerIsTyped
<1> QED
  BY <1>1, <1>2, <1>3, <1>4, <1>5, <1>6, <1>7, <1>8 DEF TypesInv

LEMMA ProfilesStayTyped == ASSUME StoreInv, ProfilesAreTyped, Store!Next PROVE ProfilesAreTyped'
<1> USE DEF StoreInv, SetupsAreTyped, ProfilesAreTyped, Store!Goto, Store!SaveAs, Store!Saved, Store!Raises
<1>1. ASSUME NEW s \in Setups, Store!Read(s) PROVE ProfilesAreTyped'
  BY <1>1 DEF Store!Read
<1>2. ASSUME NEW s \in Setups, Store!Revise(s) PROVE ProfilesAreTyped'
  BY <1>2 DEF Store!Revise
<1>3. ASSUME NEW s \in Setups, Store!Replace(s) PROVE ProfilesAreTyped'
  <2>1. /\ UNCHANGED <<backups, proven, removed, copied>> /\ stood' = stood \cup {draft[s]}
        /\ raced' \subseteq raced \cup {draft[s]} /\ draft[s] \in Store!Profiles
    BY <1>3 DEF Store!Replace
  <2>2. \A o \in Setups : setupPc'[o] = "revise" => setupPc[o] = "revise"
    BY <1>3 DEF Store!Replace
  <2> QED
    BY <2>1, <2>2
<1>4. ASSUME NEW s \in Setups, Store!Inspect(s) \/ Store!Probe(s) PROVE ProfilesAreTyped'
  BY <1>4 DEF Store!Inspect, Store!Probe
<1>5. ASSUME NEW s \in Setups, Store!WriteTemp(s) \/ Store!Look(s) \/ Store!Die(s) PROVE ProfilesAreTyped'
  BY <1>5 DEF Store!WriteTemp, Store!Look, Store!Die
<1>6. ASSUME NEW s \in Setups, Store!SaveFails(s) PROVE ProfilesAreTyped'
  <2>1. /\ UNCHANGED <<backups, proven, stood, raced, removed>>
        /\ \A o \in Setups : setupPc'[o] = "revise" => setupPc[o] = "revise" /\ copied'[o] = copied[o]
    BY <1>6 DEF Store!SaveFails
  <2> QED
    BY <2>1
<1>7. CASE Store!Remove
  BY <1>7 DEF Store!Remove
<1> QED
  BY <1>1, <1>2, <1>3, <1>4, <1>5, <1>6, <1>7 DEF Store!Next, Store!Setup

LEMMA AttemptsStayBounded ==
  ASSUME JobInv, ResultInv, AttemptsAreBounded, Job!Next
  PROVE  AttemptsAreBounded'
<1>1. CASE Job!Start
  <2>1. CASE UNCHANGED attempts
    BY <2>1 DEF AttemptsAreBounded, Job!MaxProcesses
  <2>2. CASE attempts' = attempts + 1
    <3>1. /\ Len(search) \in Nat /\ Len(pairs) \in Nat /\ Len(half) \in Nat /\ Len(ThreadCounts) \in Nat
          /\ Len(<<>>) = 0
      BY LenProperties, JobConstants DEF ResultInv, ProgressIsTyped
    <3>2. attempts = Len(search) + 2 * Len(pairs) + Len(half)
      BY <1>1 DEF Job!Start, JobInv, Counting, AttemptsAreLaunched, Job!Trying, ResultInv,
                  LaunchesAreCollected, Early, Collected
    <3>3. /\ Len(search) <= 1 + Len(ThreadCounts) /\ Len(half) <= 1 /\ Len(pairs) < 5
      BY <1>1 DEF Job!Start, ResultInv, PhasesAreOrdered, Choosing
    <3> QED
      BY <2>2, <3>1, <3>2, <3>3 DEF AttemptsAreBounded, Job!MaxProcesses
  <2> QED
    BY <1>1, <2>1, <2>2 DEF Job!Start
<1>2. CASE UNCHANGED attempts
  BY <1>2 DEF AttemptsAreBounded, Job!MaxProcesses
<1> QED
  BY <1>1, <1>2
     DEF Job!Next, Job!Step, Job!Register, Job!Pace, Job!EndJournal, Job!Launch, Job!Measure, Job!CollectSearch, Job!Gate,
         Job!CollectPair, Job!DecideJob, Job!Accept, Job!Evidence, Job!BeginReport, Job!EndReport,
         Job!BeginSelect, Job!EndSelect, Job!Interrupt, Job!Crash, Job!HostChanges, Job!progress

LEMMA SignalsStayTyped == ASSUME SignalsAreTyped, Local!Next PROVE SignalsAreTyped'
<1>1. /\ unwinding' \in {unwinding, TRUE} /\ stopping' \in {stopping, TRUE}
      /\ outlived' \in {outlived, thread # "ended"}
  BY Zenon
     DEF Local!Next, Local!Bench, Local!Register, Local!Prepare, Local!CaptureHost, Local!Launch,
         Local!StartMonitor, Local!Warmup, Local!Measure, Local!LostServer, Local!Settle,
         Local!LeaveMonitor, Local!Teardown, Local!Recheck, Local!Judge, Local!Refuse, Local!Hash,
         Local!Write, Local!Return, Local!Caught, Local!Report, Local!Fail, Local!Die, Local!Sample,
         Local!Wake, Local!Serve, Local!Alter,
         Local!Mishap, Local!Goto, Local!Quiet, Local!Raise, Local!world, Local!serving,
         Local!watching, Local!history, Local!results
<1> QED
  BY <1>1, Zenon DEF SignalsAreTyped

LEMMA PlacesStayTyped == ASSUME BenchInv, PlacesAreTyped, Local!Next PROVE PlacesAreTyped'
<1> USE ExperimentsAssumption
<1> USE DEF Local!ProductBenchmarkAssumption, PlacesAreTyped, Local!world, Local!serving, Local!watching,
            Local!history, Local!results, Local!Mishap, Local!Goto, Local!Quiet, Local!Handler, Local!Raise
<1>1. CASE Local!Register \/ Local!Prepare \/ Local!CaptureHost \/ Local!Settle
  BY <1>1 DEF Local!Register, Local!Prepare, Local!CaptureHost, Local!Settle
<1>2. CASE Local!Launch
  BY <1>2 DEF Local!Launch
<1>3. CASE Local!StartMonitor \/ Local!Warmup
  BY <1>3 DEF Local!StartMonitor, Local!Warmup
<1>4. CASE Local!Measure
  BY <1>4 DEF Local!Measure
<1>5. CASE Local!LostServer \/ Local!Refuse
  BY <1>5 DEF Local!LostServer, Local!Refuse
<1>6. CASE Local!LeaveMonitor
  BY <1>6 DEF Local!LeaveMonitor
<1>7. CASE Local!Teardown
  BY <1>7 DEF Local!Teardown
<1>8. CASE Local!Recheck
  BY <1>8 DEF Local!Recheck, BenchInv, RecordsAreTyped
<1>9. CASE Local!Judge \/ Local!Hash
  BY <1>9 DEF Local!Judge, Local!Hash
<1>10. CASE Local!Write
  BY <1>10 DEF Local!Write
<1>11. CASE Local!Return \/ Local!Caught
  BY <1>11 DEF Local!Return, Local!Caught, Local!Report
<1>12. CASE Local!Fail
  BY <1>12 DEF Local!Fail
<1>13. CASE Local!Die
  BY <1>13 DEF Local!Die
<1>14. CASE Local!Sample
  BY <1>14 DEF Local!Sample
<1>15. CASE Local!Wake \/ Local!Serve \/ Local!Alter
  BY <1>15 DEF Local!Wake, Local!Serve, Local!Alter
<1> QED
  BY <1>1, <1>2, <1>3, <1>4, <1>5, <1>6, <1>7, <1>8, <1>9, <1>10, <1>11, <1>12, <1>13, <1>14, <1>15
     DEF Local!Next, Local!Bench

LEMMA FilesStayTyped == ASSUME BenchInv, FilesAreTyped, Local!Next PROVE FilesAreTyped'
<1>1. Local!Held \in Local!Results
  BY DEF BenchInv, RecordsAreTyped, Local!Held, Local!Results
<1>2. saved' \in {saved, Local!Held, Local!Torn}
  BY DEF Local!Next, Local!Bench, Local!Register, Local!Prepare, Local!CaptureHost, Local!Launch,
         Local!StartMonitor, Local!Warmup, Local!Measure, Local!LostServer, Local!Settle,
         Local!LeaveMonitor, Local!Teardown, Local!Recheck, Local!Judge, Local!Refuse, Local!Hash,
         Local!Write, Local!Return, Local!Caught, Local!Fail, Local!Die, Local!Sample, Local!Wake,
         Local!Serve, Local!Alter, Local!results
<1>3. \/ filed' \in {filed, Local!Torn}
      \/ \E said \in {"INCONCLUSIVE", "MEASURED"}, m \in {None, Local!Held} :
            filed' = [status |-> said, measurement |-> m]
  BY DEF Local!Next, Local!Bench, Local!Register, Local!Prepare, Local!CaptureHost, Local!Launch,
         Local!StartMonitor, Local!Warmup, Local!Measure, Local!LostServer, Local!Settle,
         Local!LeaveMonitor, Local!Teardown, Local!Recheck, Local!Judge, Local!Refuse, Local!Hash,
         Local!Write, Local!Return, Local!Caught, Local!Report, Local!Fail, Local!Die, Local!Sample,
         Local!Wake, Local!Serve, Local!Alter, Local!results
<1>4. saved' \in Local!Results \cup {None, Local!Torn}
  BY <1>1, <1>2 DEF FilesAreTyped
<1>5. \/ filed' \in {None, Local!Torn}
      \/ filed'.status \in {"INCONCLUSIVE", "MEASURED"} /\ filed'.measurement \in Local!Results \cup {None}
  <2>1. CASE filed' \in {filed, Local!Torn}
    BY <2>1 DEF FilesAreTyped
  <2>2. ASSUME NEW said \in {"INCONCLUSIVE", "MEASURED"}, NEW m \in {None, Local!Held},
               filed' = [status |-> said, measurement |-> m]
        PROVE  filed'.status \in {"INCONCLUSIVE", "MEASURED"} /\ filed'.measurement \in Local!Results \cup {None}
    BY <1>1, <2>2
  <2> QED
    BY <1>3, <2>1, <2>2
<1> QED
  BY <1>4, <1>5 DEF FilesAreTyped, Local!Torn, Local!Results, Local!Outcomes, Local!Stores, Local!Lists

LEMMA ProductStaysTyped == ASSUME ProductIsTyped, ProductStep \/ Die PROVE ProductIsTyped'
<1> USE DEF ProductIsTyped, envVars, tally, verdict, outputFiles, Over, Stop, Fail
<1>1. CASE Capture \/ Freeze
  BY <1>1 DEF Capture, Freeze
<1>2. CASE CheckRow \/ Launch
  BY <1>2 DEF CheckRow, Launch
<1>3. CASE Collect
  BY <1>3 DEF Collect
<1>4. CASE Evaluate \/ Validate
  BY <1>4 DEF Evaluate, Validate
<1>5. CASE WriteReport \/ Reconstruct
  BY <1>5 DEF WriteReport, Reconstruct
<1>6. CASE Pend
  BY <1>6 DEF Pend
<1>7. CASE Fill
  BY <1>7 DEF Fill
<1>8. CASE Rename
  BY <1>8 DEF Rename
<1>9. CASE Claim \/ Final
  BY <1>9 DEF Claim, Final
<1>10. CASE Die
  BY <1>10 DEF Die
<1> QED
  BY <1>1, <1>2, <1>3, <1>4, <1>5, <1>6, <1>7, <1>8, <1>9, <1>10 DEF ProductStep

(* The row after b blocks and k candidates is that of candidate k. *)
LEMMA PlaceInBlock ==
  ASSUME NEW n \in Nat, NEW k \in 0..n, NEW b \in 0..2
  PROVE  (b * (1 + n) + k) % (1 + n) = k
<1>1. CASE b = 0
  BY <1>1, SMTT(60)
<1>2. CASE b = 1
  BY <1>2, SMTT(60)
<1>3. CASE b = 2
  BY <1>3, SMTT(60)
<1> QED
  BY <1>1, <1>2, <1>3

LEMMA NextBlock ==
  ASSUME NEW n \in Nat, NEW b \in 0..2, NEW d, d = b + 1
  PROVE  d * (1 + n) + 0 = b * (1 + n) + n + 1
<1>1. CASE b = 0
  BY <1>1, SMTT(60)
<1>2. CASE b = 1
  BY <1>2, SMTT(60)
<1>3. CASE b = 2
  BY <1>3, SMTT(60)
<1> QED
  BY <1>1, <1>2, <1>3

(* A row is counted for the candidate that the block has not run yet. *)
LEMMA RowIsCounted ==
  ASSUME BlocksAreCounted, ScoreOK, screened < Screening, screened' = screened + 1,
         NEW gain \in IF NextScreened = Incumbent THEN {0} ELSE {0, 1},
         score' = [score EXCEPT ![NextScreened] = @ + gain]
  PROVE  BlocksAreCounted'
<1> DEFINE n == Len(Challengers)
<1>0. n \in Nat /\ \A i \in 1..n : Challengers[i] \in Nat /\ Challengers[i] # 0
  BY StockSearchAssumption, LenProperties, ElementOfSeq
<1>1. PICK b \in 0..3, k \in 0..n :
        /\ screened = b * (1 + n) + k /\ (b = 3 => k = 0)
        /\ score[Incumbent] = 0
        /\ \A i \in 1..n : score[Challengers[i]] <= IF i < k THEN b + 1 ELSE b
  BY DEF BlocksAreCounted
<1>2. b \in 0..2
  BY <1>0, <1>1 DEF Screening
<1>3. screened % (1 + n) = k
  <2>1. (b * (1 + n) + k) % (1 + n) = k
    BY <1>0, <1>2, PlaceInBlock, Zenon
  <2> QED
    BY <1>1, <2>1, Zenon
<1>4. NextScreened = IF k = 0 THEN Incumbent ELSE Challengers[k]
  BY <1>3 DEF NextScreened
<1>5. PICK next : next = NextScreened
  OBVIOUS
<1>6. \A c \in Candidates : score'[c] = IF c = next THEN score[c] + gain ELSE score[c]
  BY <1>5 DEF ScoreOK
<1>7. Incumbent \in Candidates /\ \A i \in 1..n : Challengers[i] \in Candidates /\ score[Challengers[i]] \in Nat
  BY DEF Candidates, ScoreOK
<1>8. gain \in {0, 1} /\ (next = Incumbent => gain = 0)
  BY <1>5
<1>9. score'[Incumbent] = 0
  BY <1>1, <1>6, <1>7, <1>8
<1>10. \A i \in 1..n : Challengers[i] = next => i = k
  <2>1. ASSUME NEW i \in 1..n, Challengers[i] = next PROVE i = k
    <3>1. k # 0
      BY <1>0, <1>4, <1>5, <2>1 DEF Incumbent
    <3>2. k \in 1..n /\ Challengers[i] = Challengers[k]
      BY <1>0, <1>4, <1>5, <2>1, <3>1
    <3> QED
      BY <3>2, StockSearchAssumption
  <2> QED
    BY <2>1
<1>11. \A i \in 1..n : score'[Challengers[i]] <= IF i < k + 1 THEN b + 1 ELSE b
  <2> SUFFICES ASSUME NEW i \in 1..n PROVE score'[Challengers[i]] <= IF i < k + 1 THEN b + 1 ELSE b
    OBVIOUS
  <2>1. score[Challengers[i]] <= IF i < k THEN b + 1 ELSE b
    BY <1>1
  <2>2. score'[Challengers[i]] = IF Challengers[i] = next THEN score[Challengers[i]] + gain ELSE score[Challengers[i]]
    BY <1>6, <1>7
  <2>3. Challengers[i] = next => i = k
    BY <1>10
  <2>4. score[Challengers[i]] \in Nat /\ b \in Nat /\ k \in Nat /\ i \in Nat
    BY <1>0, <1>2, <1>7
  <2> HIDE DEF n
  <2> QED
    BY <1>8, <2>1, <2>2, <2>3, <2>4
<1>12. CASE k < n
  <2>1. k + 1 \in 0..n /\ b \in 0..3 /\ (b = 3 => k + 1 = 0) /\ screened' = b * (1 + n) + (k + 1)
    BY <1>0, <1>1, <1>2, <1>12
  <2> QED
    BY <1>9, <1>11, <2>1 DEF BlocksAreCounted
<1>13. CASE k = n
  <2>1. PICK d : d = b + 1
    OBVIOUS
  <2>2. d \in 0..3 /\ 0 \in 0..n /\ screened' = d * (1 + n) + 0
    <3>1. d \in 0..3 /\ 0 \in 0..n
      BY <1>0, <1>2, <2>1
    <3>2. d * (1 + n) + 0 = b * (1 + n) + n + 1
      BY <1>0, <1>2, <2>1, NextBlock
    <3> QED
      BY <1>1, <1>13, <3>1, <3>2, SMTT(60)
  <2>3. \A i \in 1..n : score'[Challengers[i]] <= IF i < 0 THEN d + 1 ELSE d
    <3> SUFFICES ASSUME NEW i \in 1..n PROVE score'[Challengers[i]] <= IF i < 0 THEN d + 1 ELSE d
      OBVIOUS
    <3>1. score'[Challengers[i]] <= IF i < k + 1 THEN b + 1 ELSE b
      BY <1>11
    <3>2. i < k + 1 /\ ~(i < 0)
      BY <1>0, <1>13
    <3> QED
      BY <2>1, <3>1, <3>2
  <2>4. d = 3 => 0 = 0
    OBVIOUS
  <2> QED
    BY <1>9, <2>2, <2>3, <2>4, ZenonT(60) DEF BlocksAreCounted
<1> QED
  BY <1>0, <1>12, <1>13

LEMMA BlocksBegin ==
  ASSUME screened' = 0, score' = [c \in Candidates |-> 0] PROVE BlocksAreCounted'
<1>1. Incumbent \in Candidates /\ \A i \in 1..Len(Challengers) : Challengers[i] \in Candidates
  BY DEF Candidates
<1>2. Len(Challengers) \in Nat
  BY StockSearchAssumption, LenProperties
<1>3. score'[Incumbent] = 0 /\ \A i \in 1..Len(Challengers) : score'[Challengers[i]] = 0
  BY <1>1
<1>4. 0 \in 0..3 /\ 0 \in 0..Len(Challengers) /\ 0 = 0 * (1 + Len(Challengers)) + 0
  BY <1>2
<1> QED
  BY <1>2, <1>3, <1>4 DEF BlocksAreCounted

LEMMA BlocksStay == ASSUME BlocksAreCounted, UNCHANGED <<screened, score>> PROVE BlocksAreCounted'
  BY DEF BlocksAreCounted

LEMMA SearchStaysTyped ==
  ASSUME SearchInv, BlocksAreCounted, SearchIsTyped, SearchStep \/ SearchDie
  PROVE  BlocksAreCounted' /\ SearchIsTyped'
<1> USE DEF SearchIsTyped, More, envVars, productVars, tally, verdict, outputFiles, searchTally,
            SearchOver, SearchEnds, SearchStop, Runs, PAIRS, FastCap
<1>1. CASE SearchCapture
  BY <1>1, BlocksStay DEF SearchCapture
<1>2. CASE Prepare
  BY <1>2, BlocksStay, BlocksBegin DEF Prepare
<1>3. CASE SearchCheck
  BY <1>3, BlocksStay, BlocksBegin DEF SearchCheck
<1>4. CASE SearchLaunch
  BY <1>4, BlocksStay, BlocksBegin DEF SearchLaunch
<1>5. CASE SearchCollect
  <2>1. CASE SearchStop
    BY <1>5, <2>1, BlocksBegin DEF SearchCollect
  <2>2. ASSUME screened < Screening, screened' = screened + 1,
               NEW gain \in IF NextScreened = Incumbent THEN {0} ELSE {0, 1},
               score' = [score EXCEPT ![NextScreened] = @ + gain],
               spc' = (IF screened' = Screening THEN "rank" ELSE "check"),
               UNCHANGED <<manifest, finalist, confirmed, fast, searchRanOn, searchStatus>>
        PROVE  BlocksAreCounted' /\ SearchIsTyped'
    <3>1. BlocksAreCounted'
      BY <2>2, RowIsCounted DEF SearchInv
    <3>2. spc' \in {"rank", "check"} /\ UNCHANGED <<searchPending, confirmed, fast>>
      BY <1>5, <2>2 DEF SearchCollect
    <3> QED
      BY <1>5, <3>1, <3>2 DEF SearchCollect
  <2>3. CASE /\ screened = Screening /\ confirmed' = confirmed + 1
             /\ fast' \in {fast, IF Sealed(confirmed) /\ fast < FastCap THEN fast + 1 ELSE fast}
             /\ spc' = "check"
             /\ UNCHANGED <<manifest, screened, score, finalist, searchRanOn, searchStatus>>
    <3>1. confirmed < Runs
      BY <1>5, <2>3, ScreeningIsPositive DEF SearchCollect
    <3>2. fast' \in 0..FastCap
      BY <2>3
    <3> QED
      BY <1>5, <2>3, <3>1, <3>2, BlocksStay DEF SearchCollect
  <2> QED
    BY <1>5, <2>1, <2>2, <2>3 DEF SearchCollect
<1>6. CASE Rank
  BY <1>6, BlocksStay DEF Rank
<1>7. CASE Decide
  BY <1>7, BlocksStay, BlocksBegin DEF Decide
<1>8. CASE SearchPend
  BY <1>8, BlocksStay, BlocksBegin DEF SearchPend
<1>9. CASE SearchRename
  BY <1>9, BlocksBegin DEF SearchRename
<1>10. CASE SearchDie
  BY <1>10, BlocksBegin DEF SearchDie
<1> QED
  BY <1>1, <1>2, <1>3, <1>4, <1>5, <1>6, <1>7, <1>8, <1>9, <1>10 DEF SearchStep

LEMMA ConsumerStaysTyped == ASSUME ConsumerIsTyped, ConsumerStep PROVE ConsumerIsTyped'
  BY DEF ConsumerIsTyped, ConsumerStep, Pin, Load, Run, Conclude, Refuse

StockIsTyped == ProductIsTyped /\ BlocksAreCounted /\ SearchIsTyped /\ ConsumerIsTyped

LEMMA StockStaysTyped == ASSUME SearchInv, StockIsTyped, [MCNext]_experimentVars PROVE StockIsTyped'
<1>1. UNCHANGED <<pc, live, pending>> => (ProductIsTyped => ProductIsTyped')
  BY DEF ProductIsTyped
<1>2. UNCHANGED searchVars => (BlocksAreCounted /\ SearchIsTyped => BlocksAreCounted' /\ SearchIsTyped')
  BY BlocksStay DEF SearchIsTyped, More, searchVars, searchTally
<1>3. UNCHANGED consumerVars => (ConsumerIsTyped => ConsumerIsTyped')
  BY DEF ConsumerIsTyped, consumerVars
<1>4. UNCHANGED productVars => UNCHANGED <<pc, live, pending>>
  BY DEF productVars, verdict, outputFiles
<1>5. CASE (ProductStep \/ Die) /\ UNCHANGED <<searchVars, consumerVars>>
  BY <1>2, <1>3, <1>5, ProductStaysTyped DEF StockIsTyped
<1>6. CASE (HostChanges \/ Edit) /\ UNCHANGED <<searchVars, consumerVars>>
  <2>1. UNCHANGED productVars
    BY <1>6 DEF HostChanges, Edit
  <2> QED
    BY <1>1, <1>2, <1>3, <1>4, <1>6, <2>1 DEF StockIsTyped
<1>7. CASE SearchStep \/ SearchDie
  <2>1. UNCHANGED <<productVars, consumerVars>>
    BY <1>7 DEF SearchStep, SearchCapture, Prepare, SearchCheck, SearchLaunch, SearchCollect, Rank,
                Decide, SearchPend, SearchRename, SearchDie
  <2> QED
    BY <1>1, <1>3, <1>4, <1>7, <2>1, SearchStaysTyped DEF StockIsTyped
<1>8. CASE ConsumerStep
  <2>1. UNCHANGED <<productVars, searchVars>>
    BY <1>8 DEF ConsumerStep, Pin, Load, Run, Conclude
  <2> QED
    BY <1>1, <1>2, <1>4, <1>8, <2>1, ConsumerStaysTyped DEF StockIsTyped
<1>9. CASE UNCHANGED vars
  <2>1. UNCHANGED <<productVars, searchVars, consumerVars>>
    BY <1>9 DEF vars
  <2> QED
    BY <1>1, <1>2, <1>3, <1>4, <2>1 DEF StockIsTyped
<1>10. [Next]_vars \/ (HostChanges /\ UNCHANGED <<searchVars, consumerVars>>)
  BY StockMoves
<1> QED
  BY <1>5, <1>6, <1>7, <1>8, <1>9, <1>10 DEF Next

LEMMA TypesStay ==
  ASSUME TypesInv, StoreInv, JobsInv, Inv, [MCNext]_experimentVars PROVE TypesInv'
<1>1. experiment' \in {"setup", "bench", "tune", "stock"} /\ experiment' = experiment
  BY DEF TypesInv, MCNext, InSetup, InBench, InTune, InStock, experimentVars
<1>2. ProfilesAreTyped'
  <2>1. CASE InSetup /\ Store!Next
    BY <2>1, ProfilesStayTyped DEF TypesInv
  <2>2. CASE UNCHANGED setupVars
    BY <2>2 DEF TypesInv, ProfilesAreTyped, setupVars
  <2> QED
    BY <2>1, <2>2 DEF MCNext, InBench, InTune, InStock, experimentVars
<1>3. experiment' = "tune" => AttemptsAreBounded'
  <2>1. CASE InTune /\ Job!Next
    BY <2>1, AttemptsStayBounded DEF TypesInv, JobsInv, InTune
  <2>2. CASE UNCHANGED jobVars
    BY <1>1, <2>2 DEF TypesInv, AttemptsAreBounded, Job!MaxProcesses, jobVars
  <2> QED
    BY <2>1, <2>2 DEF MCNext, InSetup, InBench, InStock, experimentVars
<1>4. SignalsAreTyped' /\ PlacesAreTyped' /\ FilesAreTyped'
  <2>1. CASE InBench /\ Local!Next
    BY <2>1, SignalsStayTyped, PlacesStayTyped, FilesStayTyped DEF TypesInv, JobsInv
  <2>2. CASE UNCHANGED localVars
    BY <2>2 DEF TypesInv, SignalsAreTyped, PlacesAreTyped, FilesAreTyped, Local!Torn, Local!Results, Local!Outcomes,
                Local!Stores, Local!Lists, localVars
  <2> QED
    BY <2>1, <2>2 DEF MCNext, InSetup, InTune, InStock, experimentVars
<1>5. StockIsTyped'
  BY StockStaysTyped DEF TypesInv, StockIsTyped, Inv
<1> QED
  BY <1>1, <1>2, <1>3, <1>4, <1>5 DEF TypesInv, StockIsTyped

(* What the invariants say of the types of each program. *)
LEMMA SetupIsTyped == ASSUME StoreInv, ProfilesAreTyped PROVE Store!TypeOK
  BY DEF StoreInv, SetupsAreTyped, Places, ProfilesAreTyped, Store!TypeOK

LEMMA JobIsTyped == ASSUME JobInv, ResultInv, AttemptsAreBounded PROVE Job!TypeOK
<1>1. winner \in {ThreadCounts[i] : i \in 1..Len(ThreadCounts)} \cup {None}
  <2> SUFFICES ASSUME winner # None PROVE winner \in {ThreadCounts[i] : i \in 1..Len(ThreadCounts)}
    OBVIOUS
  <2>1. PICK i \in 2..Len(search) : search[i].threads = winner
    BY DEF ResultInv, WinnerIsBest
  <2>2. Len(search) \in Nat /\ Len(search) <= 1 + Len(ThreadCounts) /\ Len(ThreadCounts) \in Nat
    BY LenProperties, JobConstants DEF ResultInv, ProgressIsTyped, PhasesAreOrdered
  <2>3. i \in 1..Len(search) /\ i # 1 /\ i - 1 \in 1..Len(ThreadCounts)
    BY <2>2
  <2>4. search[i].threads = ThreadCounts[i - 1]
    BY <2>3 DEF ResultInv, SearchIsReceived
  <2> QED
    BY <2>1, <2>3, <2>4
<1>2. /\ attempts \in 0..Job!MaxProcesses /\ launches \in 0..Job!MaxProcesses
      /\ journal \in 0..Job!MaxProcesses \cup {None, Partial}
  BY JobConstants
     DEF JobInv, Counting, AttemptsAreJournalled, AttemptsAreBounded, ResultInv, LaunchesAreCollected,
         Job!MaxProcesses
<1>3. /\ clock \in Nat /\ host \in 1..Len(Hosts) /\ lastEnd \in Nat \cup {None}
      /\ Len(search) <= 1 + Len(ThreadCounts) /\ Len(pairs) <= 5 /\ Len(half) <= 1
      /\ jobStatus \in Job!Statuses /\ retained \in BOOLEAN
      /\ jobPc \in Job!Trying \cup {"register", "report", "reporting", "select", "selecting", "done", "dead"}
  BY DEF JobInv, Counting, PausesAreKept, ResultInv, ProgressIsTyped, PhasesAreOrdered
<1> QED
  BY <1>1, <1>2, <1>3 DEF Job!TypeOK

LEMMA BenchIsTyped ==
  ASSUME BenchInv, SignalsAreTyped, PlacesAreTyped, FilesAreTyped PROVE Local!TypeOK
  BY DEF BenchInv, RecordsAreTyped, SignalsAreTyped, PlacesAreTyped, FilesAreTyped, Local!TypeOK

LEMMA StockIsOfTypes == ASSUME Inv, StockIsTyped PROVE TypeOK
<1>1. ProductTypeOK
  BY DEF Inv, ProductInv, EnvOK, TallyOK, StockIsTyped, ProductIsTyped, ProductTypeOK
<1>2. PICK b \in 0..3, k \in 0..Len(Challengers) :
        /\ screened = b * (1 + Len(Challengers)) + k /\ (b = 3 => k = 0)
        /\ score[Incumbent] = 0
        /\ \A i \in 1..Len(Challengers) : score[Challengers[i]] <= IF i < k THEN b + 1 ELSE b
  BY DEF StockIsTyped, BlocksAreCounted
<1>3. Len(Challengers) \in Nat
  BY StockSearchAssumption, LenProperties
<1>4. screened \in 0..Screening
  BY <1>2, <1>3 DEF Screening
<1>5. score \in [Candidates -> 0..3]
  <2>1. score \in [Candidates -> Nat]
    BY DEF Inv, SearchInv, ScoreOK
  <2>2. ASSUME NEW i \in 1..Len(Challengers) PROVE score[Challengers[i]] <= 3
    <3>1. score[Challengers[i]] <= (IF i < k THEN b + 1 ELSE b)
      BY <1>2
    <3>2. score[Challengers[i]] \in Nat
      BY <2>1 DEF Candidates
    <3>3. (IF i < k THEN b + 1 ELSE b) <= 3 /\ (IF i < k THEN b + 1 ELSE b) \in Nat
      <4>1. b \in 0..3 /\ k \in Nat /\ i \in 1..Len(Challengers) /\ (b = 3 => k = 0)
        BY <1>2, <1>3
      <4>2. b = 3 => ~(i < k)
        BY <1>3, <4>1
      <4> QED
        BY <4>1, <4>2
    <3> QED
      BY <3>1, <3>2, <3>3
  <2>3. \A c \in Candidates : score[c] \in 0..3
    BY <1>2, <2>1, <2>2 DEF Candidates
  <2> QED
    BY <2>1, <2>3
<1>6. finalist \in Candidates \cup {None}
  BY DEF Inv, SearchInv, FinalistIsAhead
<1> QED
  BY <1>1, <1>4, <1>5, <1>6 DEF StockIsTyped, SearchIsTyped, ConsumerIsTyped, TypeOK

(* The variables of each program stay of their types: a tuning job makes   *)
(* no more attempts than it may launch, a winner is one of its candidates, *)
(* no challenger wins more screening runs than there are blocks, and a     *)
(* pending directory is there only while it is filled or after a death.    *)
THEOREM TypesCorrect == MCSpec => []TypesAreRight
<1> DEFINE AllInv == TypesInv /\ StoreInv /\ JobsInv /\ Inv
<1>1. MCInit => AllInv
  BY TypesBegin, StoreBegins, JobBegins, ResultBegins, BenchBegins, InvBegins DEF JobsInv, MCInit
<1>2. AllInv /\ [MCNext]_experimentVars => AllInv'
  <2> SUFFICES ASSUME AllInv, [MCNext]_experimentVars PROVE AllInv'
    OBVIOUS
  <2>1. StoreInv' /\ JobsInv'
    BY StoreStays, JobStays, ResultStays, BenchStays DEF JobsInv
  <2>2. Inv'
    <3>1. CASE [Next]_vars
      BY <3>1, InvStays
    <3>2. CASE HostChanges /\ UNCHANGED <<searchVars, consumerVars>>
      BY <3>2, WorldStays
    <3> QED
      BY <3>1, <3>2, StockMoves
  <2> QED
    BY <2>1, <2>2, TypesStay
<1>3. AllInv => TypesAreRight
  <2> SUFFICES ASSUME AllInv PROVE TypesAreRight
    OBVIOUS
  <2>1. CASE experiment = "setup"
    BY <2>1, SetupIsTyped DEF TypesInv, TypesAreRight
  <2>2. CASE experiment = "bench"
    BY <2>2, BenchIsTyped DEF TypesInv, JobsInv, TypesAreRight
  <2>3. CASE experiment = "tune"
    BY <2>3, JobIsTyped DEF TypesInv, JobsInv, TypesAreRight
  <2>4. CASE experiment = "stock"
    BY <2>4, StockIsOfTypes DEF TypesInv, StockIsTyped, TypesAreRight
  <2> QED
    BY <2>1, <2>2, <2>3, <2>4 DEF TypesInv
<1> QED
  <2> HIDE DEF AllInv
  <2>1. AllInv => TypesAreRight
    BY <1>3
  <2> QED
    BY <1>1, <1>2, <2>1, PTL DEF MCSpec
=============================================================================
