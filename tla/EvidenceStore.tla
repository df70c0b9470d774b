---------------------------- MODULE EvidenceStore ----------------------------
(***************************************************************************)
(* The SQLite evidence store and the sealing of plans.  Processes append   *)
(* measurements in transactions and verify rows one at a time while others *)
(* append, while the raw artifact files and the model weights change on    *)
(* disk, and while any process may be killed between two statements.       *)
(*                                                                         *)
(* A verification follows one comparison per patched-runtime record, the   *)
(* only number the program writes; hashing the artifacts of a measurement  *)
(* and rereading them is one step.                                         *)
(***************************************************************************)
EXTENDS FiniteSets, Naturals

CONSTANTS
    Proc,           \* processes with the database open
    Sealer,         \* those that seal plans
    None, Mid, Run, Candidate, CandOf, TokensOf, Warmup, Needed,
    Fork,           \* the runs of a patched runtime
    MaxStamp        \* bound: how often the weight file is replaced

ASSUME EvidenceStoreAssumption ==
    /\ CandOf \in [Run -> Candidate]
    /\ Sealer \subseteq Proc
    /\ Fork \subseteq Run /\ Warmup \subseteq Run
    /\ Needed \in Nat /\ MaxStamp \in Nat
    /\ None \notin Mid /\ None \notin Proc

VARIABLES
    (* disk *)
    rows,       \* committed rows of table measurement
    whole,      \* IDs whose artifact and validation rows are committed
    dirty,      \* runs whose raw artifact files no longer match their hashes
    weights,    \* content of the model file: "declared" or "other"
    stamp,      \* its mtime and ctime
    dbLock,     \* process holding the write lock, or None
    plans,      \* sealed plans
    (* per process *)
    pc,         \* what it is doing
    cur,        \* the record it appends
    goal,       \* the plan it seals
    todo,       \* measurement IDs of the plan still to verify
    root, top,  \* measurement under verification; row of its chain being read
    seen,       \* _seen: the IDs above top in the chain
    stat,       \* the stamp prime_model read
    primed      \* _model_verifications

dbVars     == <<rows, whole, dbLock>>
worldVars  == <<dirty, weights, stamp>>
sealVars   == <<goal, todo>>
chainVars  == <<root, top, seen, stat>>
vars       == <<dbVars, worldVars, plans, pc, cur, sealVars, chainVars, primed>>

Record == [id : Mid, run : Run, comp : Mid \cup {None}]
Plan   == [cand : Candidate, ids : SUBSET Mid]
Label  == {"idle", "insert", "children", "commit",          \* append_measurement
           "seal", "row", "stat", "hash", "frame"}          \* seal_candidate

Init ==
    /\ rows = {} /\ whole = {} /\ dirty = {} /\ dbLock = None /\ plans = {}
    /\ weights \in {"declared", "other"} /\ stamp = 0
    /\ pc = [p \in Proc |-> "idle"]
    /\ cur = [p \in Proc |-> None] /\ goal = [p \in Proc |-> None]
    /\ todo = [p \in Proc |-> {}]
    /\ root = [p \in Proc |-> None] /\ top = [p \in Proc |-> None]
    /\ seen = [p \in Proc |-> {}]
    /\ stat = [p \in Proc |-> 0]
    /\ primed = [p \in Proc |-> {}]

Goto(p, l) == pc' = [pc EXCEPT ![p] = l]

-----------------------------------------------------------------------------
(* The disk *)

(* A raw artifact of run r is edited or lost. *)
Tamper(r) ==
    /\ dirty' = dirty \cup {r}
    /\ UNCHANGED <<dbVars, weights, stamp, plans, pc, cur, sealVars, chainVars, primed>>

(* The model file is replaced by one of the same size, or restored. *)
ReplaceWeights ==
    /\ stamp < MaxStamp
    /\ stamp' = stamp + 1
    /\ weights' \in {"declared", "other"}
    /\ UNCHANGED <<dbVars, dirty, plans, pc, cur, sealVars, chainVars, primed>>

-----------------------------------------------------------------------------
(* append_measurement *)

(* _verify_artifacts *)
Intact(e) == e.run \notin dirty

(* The artifacts match their recorded hashes and the owned run is read. *)
StartAppend(p, e) ==
    /\ pc[p] = "idle"
    /\ Intact(e)
    /\ e.run \notin Fork => e.comp = None
    /\ cur' = [cur EXCEPT ![p] = e]
    /\ Goto(p, "insert")
    /\ UNCHANGED <<dbVars, worldVars, plans, sealVars, chainVars, primed>>

Unique(e) == \A d \in rows : d.id # e.id /\ d.run # e.run

(* The append raises; an open transaction is rolled back. *)
AppendFails(p) ==
    /\ \/ pc[p] = "insert" /\ dbLock = None /\ ~Unique(cur[p])  \* IntegrityError
       \/ pc[p] = "insert" /\ dbLock # None                    \* locked for 30 seconds
       \/ pc[p] = "children"                                     \* a validation is not boolean
    /\ dbLock' = IF dbLock = p THEN None ELSE dbLock
    /\ cur' = [cur EXCEPT ![p] = None]
    /\ Goto(p, "idle")
    /\ UNCHANGED <<rows, whole, worldVars, plans, sealVars, chainVars, primed>>

(* Faulty: the row's uniqueness is checked before the write lock is held. *)
InsertUnlocked(p) ==
    /\ pc[p] = "insert" /\ Unique(cur[p])
    /\ dbLock' = p
    /\ Goto(p, "children")
    /\ UNCHANGED <<rows, whole, worldVars, plans, cur, sealVars, chainVars, primed>>

(* Faulty: the row is committed by itself. *)
InsertAutocommit(p) ==
    /\ pc[p] = "insert" /\ dbLock = None /\ Unique(cur[p])
    /\ dbLock' = p /\ rows' = rows \cup {cur[p]}
    /\ Goto(p, "children")
    /\ UNCHANGED <<whole, worldVars, plans, cur, sealVars, chainVars, primed>>

(* The first INSERT opens the transaction and takes the write lock. *)
Insert(p) ==
    /\ pc[p] = "insert" /\ dbLock = None /\ Unique(cur[p])
    /\ dbLock' = p
    /\ Goto(p, "children")
    /\ UNCHANGED <<rows, whole, worldVars, plans, cur, sealVars, chainVars, primed>>

InsertChildren(p) ==
    /\ pc[p] = "children"
    /\ Goto(p, "commit")
    /\ UNCHANGED <<dbVars, worldVars, plans, cur, sealVars, chainVars, primed>>

Commit(p) ==
    /\ pc[p] = "commit"
    /\ rows' = rows \cup {cur[p]} /\ whole' = whole \cup {cur[p].id}
    /\ dbLock' = None
    /\ cur' = [cur EXCEPT ![p] = None]
    /\ Goto(p, "idle")
    /\ UNCHANGED <<worldVars, plans, sealVars, chainVars, primed>>

-----------------------------------------------------------------------------
(* seal_candidate and verify_measurement *)

NoChain(p) ==
    /\ root' = [root EXCEPT ![p] = None] /\ top' = [top EXCEPT ![p] = None]
    /\ seen' = [seen EXCEPT ![p] = {}] /\ stat' = [stat EXCEPT ![p] = 0]

NoGoal(p) ==
    /\ goal' = [goal EXCEPT ![p] = None] /\ todo' = [todo EXCEPT ![p] = {}]

(* _validate_candidate: enough measurement IDs, none twice. *)
StartSeal(p, plan) ==
    /\ pc[p] = "idle"
    /\ Cardinality(plan.ids) >= Needed
    /\ goal' = [goal EXCEPT ![p] = plan] /\ todo' = [todo EXCEPT ![p] = plan.ids]
    /\ Goto(p, "seal")
    /\ UNCHANGED <<dbVars, worldVars, plans, cur, chainVars, primed>>

(* Any ValueError of the seal or of a verification. *)
SealFails(p) ==
    /\ NoChain(p) /\ NoGoal(p)
    /\ Goto(p, "idle")
    /\ UNCHANGED <<dbVars, worldVars, plans, cur, primed>>

VerifyNext(p, m) ==
    /\ pc[p] = "seal" /\ m \in todo[p]
    /\ root' = [root EXCEPT ![p] = m] /\ top' = [top EXCEPT ![p] = m]
    /\ Goto(p, "row")
    /\ UNCHANGED <<dbVars, worldVars, plans, cur, sealVars, seen, stat, primed>>

(* Faulty: a chain of comparisons is followed wherever it leads. *)
ReadRowAnywhere(p) ==
    /\ pc[p] = "row"
    /\ IF \E e \in rows : e.id = top[p] /\ Intact(e)
       THEN /\ Goto(p, "stat")
            /\ UNCHANGED <<dbVars, worldVars, plans, cur, sealVars, chainVars, primed>>
       ELSE SealFails(p)

(* The cycle check, the row and its artifacts. *)
ReadRow(p) ==
    /\ pc[p] = "row"
    /\ IF top[p] \notin seen[p] /\ \E e \in rows : e.id = top[p] /\ Intact(e)
       THEN /\ Goto(p, "stat")
            /\ UNCHANGED <<dbVars, worldVars, plans, cur, sealVars, chainVars, primed>>
       ELSE SealFails(p)

(* Faulty: the verification is remembered by the model, not by the stamp. *)
StatIgnored(p) ==
    /\ pc[p] = "stat"
    /\ stat' = [stat EXCEPT ![p] = stamp]
    /\ Goto(p, IF primed[p] # {} THEN "frame" ELSE "hash")
    /\ UNCHANGED <<dbVars, worldVars, plans, cur, sealVars, root, top, seen, primed>>

(* prime_model: the file's stamp, and no hashing if this stamp was verified. *)
StatWeights(p) ==
    /\ pc[p] = "stat"
    /\ stat' = [stat EXCEPT ![p] = stamp]
    /\ Goto(p, IF stamp \in primed[p] THEN "frame" ELSE "hash")
    /\ UNCHANGED <<dbVars, worldVars, plans, cur, sealVars, root, top, seen, primed>>

HashWeights(p) ==
    /\ pc[p] = "hash"
    /\ IF weights = "declared"
       THEN /\ primed' = [primed EXCEPT ![p] = @ \cup {stat[p]}]
            /\ Goto(p, "frame")
            /\ UNCHANGED <<dbVars, worldVars, plans, cur, sealVars, chainVars>>
       ELSE SealFails(p)

(* A patched-runtime record: its comparison is verified next. *)
Descend(p) ==
    /\ pc[p] = "frame"
    /\ \E e \in rows :
        /\ e.id = top[p] /\ e.run \in Fork /\ e.comp # None
        /\ top' = [top EXCEPT ![p] = e.comp]
    /\ seen' = [seen EXCEPT ![p] = @ \cup {top[p]}]
    /\ Goto(p, "row")
    /\ UNCHANGED <<dbVars, worldVars, plans, cur, sealVars, root, stat, primed>>

(* Faulty: any two records make a chain. *)
ChainOfAny(p) == pc[p] = "frame" /\ seen[p] \subseteq {root[p]}

(* A stock record ends the chain; the record above it, if any, is the root *)
(* and generated the same tokens.                                          *)
ChainVerified(p) ==
    /\ pc[p] = "frame" /\ seen[p] \subseteq {root[p]}
    /\ \A d, e \in rows : d.id = top[p] /\ e.id = root[p] =>
            d.run \notin Fork /\ TokensOf[d.run] = TokensOf[e.run]

(* Faulty: any verified measurement counts. *)
AcceptAny(p) ==
    /\ ChainVerified(p)
    /\ todo' = [todo EXCEPT ![p] = @ \ {root[p]}]
    /\ NoChain(p)
    /\ Goto(p, "seal")
    /\ UNCHANGED <<dbVars, worldVars, plans, cur, goal, primed>>

(* seal_candidate's own checks of a verified measurement. *)
Accept(p) ==
    /\ ChainVerified(p)
    /\ \E e \in rows : e.id = root[p] /\ CandOf[e.run] = goal[p].cand /\ e.run \notin Warmup
    /\ todo' = [todo EXCEPT ![p] = @ \ {root[p]}]
    /\ NoChain(p)
    /\ Goto(p, "seal")
    /\ UNCHANGED <<dbVars, worldVars, plans, cur, goal, primed>>

(* Every other outcome of a frame: no comparison, a comparison that is not  *)
(* stock, other tokens, another candidate, a warmup, an invalid artifact.   *)
Refuse(p) ==
    /\ pc[p] = "frame"
    /\ SealFails(p)

(* Faulty: the token sequences are not compared. *)
StableAlways(ids) == TRUE

Stable(ids) == \A d, e \in rows : d.id \in ids /\ e.id \in ids => TokensOf[d.run] = TokensOf[e.run]

(* All verified: one token sequence, distinct owned runs; the variance may fail. *)
SealDone(p) ==
    /\ pc[p] = "seal" /\ todo[p] = {}
    /\ Stable(goal[p].ids)
    /\ plans' = plans \cup {goal[p]}
    /\ NoGoal(p)
    /\ Goto(p, "idle")
    /\ UNCHANGED <<dbVars, worldVars, cur, chainVars, primed>>

SealInconclusive(p) ==
    /\ pc[p] = "seal" /\ todo[p] = {}
    /\ SealFails(p)

(* The process is killed: SQLite rolls its transaction back, its cache is lost. *)
Crash(p) ==
    /\ pc[p] # "idle"
    /\ dbLock' = IF dbLock = p THEN None ELSE dbLock
    /\ cur' = [cur EXCEPT ![p] = None] /\ primed' = [primed EXCEPT ![p] = {}]
    /\ NoChain(p) /\ NoGoal(p)
    /\ Goto(p, "idle")
    /\ UNCHANGED <<rows, whole, worldVars, plans>>

AppendStep(p) == AppendFails(p) \/ Insert(p) \/ InsertChildren(p) \/ Commit(p)

SealStep(p) ==
    \/ \E m \in Mid : VerifyNext(p, m)
    \/ ReadRow(p) \/ StatWeights(p) \/ HashWeights(p) \/ Descend(p) \/ Accept(p)
    \/ Refuse(p) \/ SealDone(p) \/ SealInconclusive(p)

Start(p) ==
    \/ \E e \in Record : StartAppend(p, e)
    \/ p \in Sealer /\ \E plan \in Plan : StartSeal(p, plan)

Next ==
    \/ \E r \in Run : Tamper(r)
    \/ ReplaceWeights
    \/ \E p \in Proc : Start(p) \/ AppendStep(p) \/ SealStep(p) \/ Crash(p)

Spec == Init /\ [][Next]_vars

(* A process that is running goes on; a lock is given up within its timeout. *)
FairSpec == Spec /\ \A p \in Proc : WF_vars(AppendStep(p) \/ SealStep(p))

-----------------------------------------------------------------------------
(* Correctness properties *)

(* Every variable holds a value of its kind; one process writes at a time. *)
TypeOK ==
    /\ rows \subseteq Record /\ whole \subseteq Mid /\ dirty \subseteq Run
    /\ weights \in {"declared", "other"} /\ stamp \in Nat
    /\ dbLock \in Proc \cup {None} /\ plans \subseteq Plan
    /\ pc \in [Proc -> Label]
    /\ cur \in [Proc -> Record \cup {None}] /\ goal \in [Proc -> Plan \cup {None}]
    /\ todo \in [Proc -> SUBSET Mid] /\ seen \in [Proc -> SUBSET Mid]
    /\ root \in [Proc -> Mid \cup {None}] /\ top \in [Proc -> Mid \cup {None}]
    /\ stat \in [Proc -> Nat] /\ primed \in [Proc -> SUBSET Nat]
    /\ \A p \in Proc :
        /\ pc[p] \in {"insert", "children", "commit"} => cur[p] \in Record
        /\ pc[p] \in {"seal", "row", "stat", "hash", "frame"} => goal[p] \in Plan
        /\ pc[p] \in {"row", "stat", "hash", "frame"} => root[p] \in Mid /\ top[p] \in Mid
        /\ dbLock = p <=> pc[p] \in {"children", "commit"}

(***************************************************************************)
(* An ID and an owned run stand in one row only, and a row is committed    *)
(* with its artifact and validation rows, whichever statement a process is *)
(* killed at and whoever else appends.                                     *)
(***************************************************************************)
RowsAreSound ==
    /\ \A d, e \in rows : d.id = e.id \/ d.run = e.run => d = e
    /\ whole = {e.id : e \in rows}

(***************************************************************************)
(* A remembered verification of the weights never outlives them: whenever  *)
(* prime_model skips the hashing, the file holds the declared model.       *)
(***************************************************************************)
SkipsAreTrue == \A p \in Proc : pc[p] = "stat" /\ pc'[p] = "frame" => weights = "declared"

CacheIsTrue == [][SkipsAreTrue]_vars

(***************************************************************************)
(* A sealed plan rests on enough committed measurements of its own         *)
(* candidate, of distinct owned runs, none a warmup, all with one token    *)
(* sequence, although its rows were verified one by one.                   *)
(***************************************************************************)
Evidence(plan) == {e \in rows : e.id \in plan.ids}

SealedIsSound ==
    \A plan \in plans :
        /\ Cardinality({e.run : e \in Evidence(plan)}) >= Needed
        /\ \A e \in Evidence(plan) : CandOf[e.run] = plan.cand /\ e.run \notin Warmup
        /\ Cardinality({TokensOf[e.run] : e \in Evidence(plan)}) <= 1

(* A plan of a patched runtime rests on a pristine run with the same tokens. *)
ForkIsCompared ==
    \A plan \in plans : \A e \in Evidence(plan) : e.run \in Fork =>
        \E d \in rows : d.id = e.comp /\ d.run \notin Fork /\ TokensOf[d.run] = TokensOf[e.run]

(* The store implements the ledger. *)
Ledger == INSTANCE EvidenceLedger WITH ledger <- rows

ImplementsLedger == Ledger!Spec

(* Every append and every seal ends, even on a cycle of comparisons. *)
CallsEnd == \A p \in Proc : pc[p] # "idle" ~> pc[p] = "idle"
=============================================================================
