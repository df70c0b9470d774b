------------------------------ MODULE StockSearch ------------------------------
(***************************************************************************)
(* The bounded search that starts from an accepted stock product: three    *)
(* screening blocks over the incumbent and its challengers, ten            *)
(* confirmation pairs if a challenger screens first, a decision and its    *)
(* publication as "recommended"; and the consumers that load and run an    *)
(* accepted product or a recommendation.                                   *)
(*                                                                         *)
(* A challenger's run is level with the incumbent or 5 percent faster; for *)
(* these rates the confirmation gate depends on the number of fast sealed  *)
(* runs only, as Confirmed says.                                           *)
(***************************************************************************)
EXTENDS StockProduct

CONSTANT Challengers    \* the candidates beside the incumbent, in the order of their ids

(* screening_schedule refuses candidates that are not unique. *)
ASSUME StockSearchAssumption ==
    /\ Challengers \in Seq(Nat \ {0})
    /\ \A i, j \in 1..Len(Challengers) : Challengers[i] = Challengers[j] => i = j
    /\ None \notin {"refused", "measured"}

VARIABLES
    (* execute_stock_search *)
    spc,            \* where the search is
    manifest,       \* host and edited files in the frozen manifest
    screened,       \* number of screening rows
    score,          \* fast screening runs of each challenger
    finalist,       \* Incumbent or a challenger
    confirmed,      \* number of confirmation rows
    fast,           \* fast runs of the finalist among them, up to FastCap
    searchRanOn,    \* hosts its runs were launched on
    searchStatus,   \* report["status"]
    searchPending,  \* a .pending-search-* directory exists
    recommended,    \* recommended/: None or its content
    (* one consumer *)
    cpc,            \* where it is
    kind,           \* what it runs: "accepted" or "recommended"
    taken,          \* host captured and files pinned
    ranWith,        \* host and edited files when its server was launched
    result          \* what it reports

searchTally  == <<screened, score, finalist, confirmed, fast, searchRanOn>>
searchVars   == <<spc, manifest, searchTally, searchStatus, searchPending, recommended>>
consumerVars == <<cpc, kind, taken, ranWith, result>>
vars         == <<envVars, productVars, searchVars, consumerVars>>

(* Bound: fast runs are counted as far as Confirmed tells them apart. *)
FastCap == 5

Incumbent  == 0
Candidates == {Incumbent} \cup {Challengers[i] : i \in 1..Len(Challengers)}
Screening  == 3 * (1 + Len(Challengers))

Init ==
    /\ EnvInit /\ ProductInit
    /\ spc = "idle" /\ manifest = None
    /\ screened = 0 /\ score = [c \in Candidates |-> 0] /\ finalist = None
    /\ confirmed = 0 /\ fast = 0 /\ searchRanOn = {}
    /\ searchStatus = "RUNNING" /\ searchPending = FALSE /\ recommended = None
    /\ cpc = "idle" /\ kind = None /\ taken = None /\ ranWith = None /\ result = None

-----------------------------------------------------------------------------
(* execute_stock_search *)

(* The function returns or the process dies: its variables are gone. *)
SearchOver(at) ==
    /\ spc' = at /\ manifest' = None /\ finalist' = None
    /\ screened' = 0 /\ score' = [c \in Candidates |-> 0]
    /\ confirmed' = 0 /\ fast' = 0 /\ searchRanOn' = {}

SearchEnds(as) == SearchOver("done") /\ searchStatus' = as
SearchStop     == SearchEnds("VALIDATION-STOP")

(* Nobody measures while another one does: run_once refuses a busy device. *)
SearchCapture ==
    /\ spc = "idle" /\ accepted # None
    /\ pc \in {"done", "dead"} /\ cpc \in {"idle", "done"}
    /\ manifest' = Snapshot /\ spc' = "prepare"
    /\ UNCHANGED <<envVars, productVars, searchTally, searchStatus, searchPending, recommended, consumerVars>>

(* prepare_search: the product is loaded, the space attested, files are hashed; *)
(* an error is raised to the caller.                                            *)
Prepare ==
    /\ spc = "prepare"
    /\ \/ Loads(manifest.host) /\ manifest' = [manifest EXCEPT !.edited = edited] /\ spc' = "check"
          /\ UNCHANGED searchTally
       \/ SearchOver("dead")
    /\ UNCHANGED <<envVars, productVars, searchStatus, searchPending, recommended, consumerVars>>

Prerequisites == Same("accepted", manifest) /\ Same("sources", manifest)

More ==
    \/ screened < Screening
    \/ finalist \in Candidates \ {Incumbent} /\ confirmed < Runs

(* Host, sources and prerequisites before every run. *)
SearchCheck ==
    /\ spc = "check" /\ More
    /\ IF Host = manifest.host /\ Prerequisites
       THEN spc' = "launch" /\ UNCHANGED <<manifest, searchTally, searchStatus>>
       ELSE SearchStop
    /\ UNCHANGED <<envVars, productVars, searchPending, recommended, consumerVars>>

SearchLaunch ==
    /\ spc = "launch"
    /\ \/ Host # manifest.host /\ SearchStop
       \/ /\ Host = manifest.host
          /\ searchRanOn' = searchRanOn \cup {Host}
          /\ spc' = "collect"
          /\ UNCHANGED <<manifest, screened, score, finalist, confirmed, fast, searchStatus>>
       \/ Host = manifest.host /\ SearchEnds("NO-MEASUREMENT")
    /\ UNCHANGED <<envVars, productVars, searchPending, recommended, consumerVars>>

(* The candidate of the next screening row: every block holds each one once. *)
NextScreened == LET i == screened % (1 + Len(Challengers)) IN IF i = 0 THEN Incumbent ELSE Challengers[i]

Best == CHOOSE c \in Candidates : \A d \in Candidates :
            score[d] < score[c] \/ (score[d] = score[c] /\ c <= d)

(* _verify_run, then the row is appended and the report written; after the last *)
(* block rank_screening names the finalist, ties to the incumbent.              *)
SearchCollect ==
    /\ spc = "collect"
    /\ \/ SearchStop
       \/ /\ screened < Screening
          /\ screened' = screened + 1
          /\ \E gain \in IF NextScreened = Incumbent THEN {0} ELSE {0, 1} :
                score' = [score EXCEPT ![NextScreened] = @ + gain]
          /\ spc' = (IF screened' = Screening THEN "rank" ELSE "check")
          /\ UNCHANGED <<manifest, finalist, confirmed, fast, searchRanOn, searchStatus>>
       \/ /\ screened = Screening
          /\ confirmed' = confirmed + 1
          /\ fast' \in {fast, IF Sealed(confirmed) /\ fast < FastCap THEN fast + 1 ELSE fast}
          /\ spc' = "check"
          /\ UNCHANGED <<manifest, screened, score, finalist, searchRanOn, searchStatus>>
    /\ UNCHANGED <<envVars, productVars, searchPending, recommended, consumerVars>>

Rank ==
    /\ spc = "rank"
    /\ finalist' = Best /\ spc' = "check"
    /\ UNCHANGED <<envVars, productVars, manifest, screened, score, confirmed, fast, searchRanOn,
                   searchStatus, searchPending, recommended, consumerVars>>

(* Faulty: the confirmation is not awaited. *)
ConfirmedByScreening(c, n, k) == c # Incumbent

(* _decision: gain of 2 percent, lower bound above 0, both variations in bounds. *)
Confirmed(c, n, k) == c # Incumbent /\ n = Runs /\ k >= FastCap

Recommendation == IF Confirmed(finalist, confirmed, fast) THEN finalist ELSE Incumbent

Decide ==
    /\ spc = "check" /\ finalist # None /\ ~More
    /\ IF Host = manifest.host /\ Same("accepted", manifest)
       THEN spc' = "publish" /\ UNCHANGED <<manifest, searchTally, searchStatus>>
       ELSE SearchStop
    /\ UNCHANGED <<envVars, productVars, searchPending, recommended, consumerVars>>

(* reconstruct_search of an experiment with manifest f, for host h: manifest, *)
(* product and every row anew.                                                *)
SearchReconstructs(f, h) ==
    /\ h = f.host /\ Same("sources", f)
    /\ Reconstructs(accepted.freeze, h, accepted.rows, accepted.slow)

(* _publish: reconstruction, sealing and the pending directory. *)
SearchPend ==
    /\ spc = "publish"
    /\ \/ /\ SearchReconstructs(manifest, manifest.host)
          /\ searchPending' = TRUE /\ spc' = "rename"
          /\ UNCHANGED <<manifest, searchTally, searchStatus>>
       \/ SearchStop /\ UNCHANGED searchPending
    /\ UNCHANGED <<envVars, productVars, recommended, consumerVars>>

(* Plan and receipt are written and the directory is renamed, or removed. *)
SearchRename ==
    /\ spc = "rename"
    /\ searchPending' = FALSE
    /\ \/ /\ recommended' = [freeze |-> manifest, id |-> Recommendation, finalist |-> finalist,
                             screening |-> score, fast |-> fast, rows |-> confirmed,
                             ranOn |-> searchRanOn]
          /\ SearchEnds("RECOMMENDED")
       \/ SearchStop /\ UNCHANGED recommended
    /\ UNCHANGED <<envVars, productVars, consumerVars>>

SearchDie ==
    /\ spc \notin {"idle", "done", "dead"}
    /\ SearchOver("dead") /\ searchPending' \in {searchPending, FALSE}
    /\ UNCHANGED <<envVars, productVars, searchStatus, recommended, consumerVars>>

SearchStep ==
    \/ SearchCapture \/ Prepare \/ SearchCheck \/ SearchLaunch \/ SearchCollect \/ Rank
    \/ Decide \/ SearchPend \/ SearchRename

-----------------------------------------------------------------------------
(* A consumer: run_accepted_stock_plan or run_search_recommendation *)

Refuse == result' = "refused" /\ cpc' = "done"

(* load_search_recommendation, for a consumer on host h. *)
LoadsSearch(h) ==
    /\ recommended # None /\ "recommended" \notin edited
    /\ SearchReconstructs(recommended.freeze, h)
    /\ recommended.id = IF Confirmed(recommended.finalist, recommended.rows, recommended.fast)
                        THEN recommended.finalist ELSE Incumbent

(* Files are hashed and the host is captured before anything is loaded.        *)
(* Bound: nothing is consumed after a search that published nothing, since it  *)
(* left the product as it was.                                                 *)
Pin ==
    /\ cpc = "idle"
    /\ pc \in {"done", "dead"}
    /\ spc = "idle" \/ (spc \in {"done", "dead"} /\ recommended # None)
    /\ \E k \in {"accepted", "recommended"} :
        /\ IF k = "accepted" THEN accepted # None ELSE recommended # None
        /\ kind' = k
    /\ taken' = Snapshot /\ cpc' = "load"
    /\ UNCHANGED <<envVars, productVars, searchVars, ranWith, result>>

(* A recommendation's pinned files and sources are compared after loading. *)
Load ==
    /\ cpc = "load"
    /\ \/ /\ IF kind = "accepted"
             THEN Loads(taken.host)
             ELSE LoadsSearch(taken.host) /\ Same("recommended", taken) /\ Same("sources", recommended.freeze)
          /\ cpc' = "run" /\ UNCHANGED result
       \/ Refuse
    /\ UNCHANGED <<envVars, productVars, searchVars, kind, taken, ranWith>>

(* run_once captures the host before the launch. *)
Run ==
    /\ cpc = "run"
    /\ \/ Host = taken.host /\ ranWith' = Snapshot /\ cpc' = "conclude" /\ UNCHANGED result
       \/ Refuse /\ UNCHANGED ranWith
    /\ UNCHANGED <<envVars, productVars, searchVars, kind, taken>>

(* Faulty: what was pinned is not compared once the run is over. *)
ConcludeUnpinned ==
    /\ cpc = "conclude"
    /\ \/ Host = taken.host /\ result' = "measured" /\ cpc' = "done"
       \/ Refuse
    /\ UNCHANGED <<envVars, productVars, searchVars, kind, taken, ranWith>>

(* The measurement is verified against the plan's; host and pinned files again. *)
Conclude ==
    /\ cpc = "conclude"
    /\ \/ /\ Host = taken.host
          /\ kind = "recommended" => /\ Same("recommended", taken)
                                     /\ Same("sources", recommended.freeze)
          /\ result' = "measured" /\ cpc' = "done"
       \/ Refuse
    /\ UNCHANGED <<envVars, productVars, searchVars, kind, taken, ranWith>>

ConsumerStep == Pin \/ Load \/ Run \/ Conclude

-----------------------------------------------------------------------------

(* Bound: nothing changes any more once nobody is left to notice it. *)
Watched ==
    \/ pc \notin {"done", "dead"}
    \/ accepted # None /\ spc \notin {"done", "dead"} /\ cpc # "done"
    \/ recommended # None /\ cpc # "done"

Next ==
    \/ (ProductStep \/ Die) /\ UNCHANGED <<searchVars, consumerVars>>
    \/ Watched /\ (HostChanges \/ Edit) /\ UNCHANGED <<searchVars, consumerVars>>
    \/ SearchStep \/ SearchDie \/ ConsumerStep

Spec == Init /\ [][Next]_vars

(* The experiments go on: every run they wait for has deadlines of its own. *)
Fairness ==
    /\ WF_vars(ProductStep /\ UNCHANGED <<searchVars, consumerVars>>)
    /\ WF_vars(SearchStep)

FairSpec == Spec /\ Fairness

-----------------------------------------------------------------------------
(* Correctness properties *)

TypeOK ==
    /\ ProductTypeOK
    /\ spc \in {"idle", "prepare", "check", "launch", "collect", "rank", "publish", "rename",
                "done", "dead"}
    /\ screened \in 0..Screening /\ confirmed \in 0..Runs /\ fast \in 0..FastCap
    /\ score \in [Candidates -> 0..3] /\ finalist \in Candidates \cup {None}
    /\ searchPending => spc \in {"rename", "dead"}
    /\ cpc \in {"idle", "load", "run", "conclude", "done"}
    /\ result \in {None, "refused", "measured"}

(***************************************************************************)
(* A challenger is recommended only if it beat the incumbent's screening   *)
(* and an independent confirmation of twenty runs, all launched on the     *)
(* host the manifest froze.                                                *)
(***************************************************************************)
ChallengerIsEarned ==
    recommended # None =>
        /\ recommended.ranOn = {recommended.freeze.host}
        /\ recommended.id # Incumbent =>
              /\ recommended.screening[recommended.id] > 0
              /\ recommended.rows = Runs /\ recommended.fast >= FastCap

(***************************************************************************)
(* A measured consumer run was launched on the host of the experiment it   *)
(* relies on, with the sources and the recommendation it had loaded.       *)
(***************************************************************************)
ConsumerIsBound ==
    result = "measured" =>
        /\ accepted # None /\ ranWith.host \in accepted.ranOn
        /\ kind = "recommended" =>
              /\ ranWith.host \in recommended.ranOn
              /\ "recommended" \notin ranWith.edited
              /\ ("sources" \in ranWith.edited <=> "sources" \in recommended.freeze.edited)

(* Both experiments end, whatever fails or changes. *)
ExperimentsEnd ==
    /\ <>(pc \in {"done", "dead"})
    /\ [](spc # "idle" => <>(spc \in {"done", "dead"}))
=============================================================================
