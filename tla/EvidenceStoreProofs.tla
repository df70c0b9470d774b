------------------------- MODULE EvidenceStoreProofs -------------------------
(***************************************************************************)
(* Proofs about EvidenceStore: its types, the soundness of its rows and of *)
(* the weights cache, and that it implements EvidenceLedger, for every set *)
(* of processes, IDs and runs.                                             *)
(***************************************************************************)
EXTENDS EvidenceStore, FiniteSetTheorems, TLAPS

Appending == {"insert", "children", "commit"}
Sealing   == {"seal", "row", "stat", "hash", "frame"}
Chaining  == {"row", "stat", "hash", "frame"}

-----------------------------------------------------------------------------
(* Types *)

LEMMA TypeInit == ASSUME Init PROVE TypeOK
  BY EvidenceStoreAssumption DEF Init, TypeOK, Label

LEMMA TypeStep == ASSUME TypeOK, [Next]_vars PROVE TypeOK'
<1> USE EvidenceStoreAssumption DEF TypeOK, Label, dbVars, worldVars, sealVars, chainVars, Goto
<1>1. ASSUME NEW r \in Run, Tamper(r) PROVE TypeOK'
  BY <1>1 DEF Tamper
<1>2. CASE ReplaceWeights
  BY <1>2 DEF ReplaceWeights
<1>3. ASSUME NEW p \in Proc, Start(p) PROVE TypeOK'
  <2>1. ASSUME NEW e \in Record, StartAppend(p, e) PROVE TypeOK'
    BY <2>1 DEF StartAppend
  <2>2. ASSUME NEW plan \in Plan, StartSeal(p, plan) PROVE TypeOK'
    <3>1. plan.ids \in SUBSET Mid
      BY DEF Plan
    <3> QED
      BY <2>2, <3>1 DEF StartSeal
  <2> QED
    BY <1>3, <2>1, <2>2 DEF Start
<1>4. ASSUME NEW p \in Proc, AppendStep(p) PROVE TypeOK'
  <2>1. CASE AppendFails(p)
    BY <2>1 DEF AppendFails
  <2>2. CASE Insert(p)
    BY <2>2 DEF Insert
  <2>3. CASE InsertChildren(p)
    BY <2>3 DEF InsertChildren
  <2>4. CASE Commit(p)
    <3>1. cur[p] \in Record /\ cur[p].id \in Mid
      BY <2>4 DEF Commit, Record
    <3> QED
      BY <2>4, <3>1 DEF Commit
  <2> QED
    BY <1>4, <2>1, <2>2, <2>3, <2>4 DEF AppendStep
<1>5. ASSUME NEW p \in Proc, SealStep(p) PROVE TypeOK'
  <2>0. ASSUME pc[p] \in Sealing, SealFails(p) PROVE TypeOK'
    BY <2>0 DEF SealFails, NoChain, NoGoal, Sealing
  <2>1. ASSUME NEW m \in Mid, VerifyNext(p, m) PROVE TypeOK'
    BY <2>1 DEF VerifyNext
  <2>2. CASE ReadRow(p)
    BY <2>0, <2>2 DEF ReadRow, Sealing
  <2>3. CASE StatWeights(p)
    BY <2>3 DEF StatWeights
  <2>4. CASE HashWeights(p)
    BY <2>0, <2>4 DEF HashWeights, Sealing
  <2>5. CASE Descend(p)
    <3>1. PICK e \in rows : e.comp # None /\ top' = [top EXCEPT ![p] = e.comp]
      BY <2>5 DEF Descend
    <3>2. e.comp \in Mid
      BY <3>1 DEF Record
    <3> QED
      BY <2>5, <3>1, <3>2 DEF Descend
  <2>6. CASE Accept(p)
    BY <2>6 DEF Accept, ChainVerified, NoChain
  <2>7. CASE Refuse(p)
    BY <2>0, <2>7 DEF Refuse, Sealing
  <2>8. CASE SealDone(p)
    BY <2>8 DEF SealDone, NoGoal
  <2>9. CASE SealInconclusive(p)
    BY <2>0, <2>9 DEF SealInconclusive, Sealing
  <2> QED
    BY <1>5, <2>1, <2>2, <2>3, <2>4, <2>5, <2>6, <2>7, <2>8, <2>9 DEF SealStep
<1>6. ASSUME NEW p \in Proc, Crash(p) PROVE TypeOK'
  BY <1>6 DEF Crash, NoChain, NoGoal
<1>7. CASE UNCHANGED vars
  BY <1>7 DEF vars
<1> QED
  BY <1>1, <1>2, <1>3, <1>4, <1>5, <1>6, <1>7 DEF Next

(* Every reachable state is well typed, and one process writes at a time. *)
THEOREM TypeCorrect == Spec => []TypeOK
<1>1. Init => TypeOK
  BY TypeInit
<1>2. TypeOK /\ [Next]_vars => TypeOK'
  BY TypeStep
<1> QED
  BY <1>1, <1>2, PTL DEF Spec

-----------------------------------------------------------------------------
(* Rows and the weights cache *)

(* No process that holds the lock adds a row that is there already. *)
PendingIsNew == \A p \in Proc : pc[p] \in {"children", "commit"} => Unique(cur[p])

(* A stamp that was verified is that of the declared weights, or is past. *)
CacheIsPast == \A p \in Proc : \A t \in primed[p] : t < stamp \/ (t = stamp /\ weights = "declared")

StatIsPast == \A p \in Proc : stat[p] <= stamp

IInv == TypeOK /\ RowsAreSound /\ PendingIsNew /\ CacheIsPast /\ StatIsPast

LEMMA InvInit == ASSUME Init PROVE IInv
<1>1. TypeOK
  BY TypeInit
<1>2. RowsAreSound /\ PendingIsNew /\ CacheIsPast /\ StatIsPast
  BY DEF Init, RowsAreSound, PendingIsNew, CacheIsPast, StatIsPast
<1> QED
  BY <1>1, <1>2 DEF IInv

(* Rows are added by commits, one at a time. *)
LEMMA RowsGrow ==
  ASSUME TypeOK, [Next]_vars
  PROVE  \/ UNCHANGED <<rows, whole>> /\ \A p \in Proc : pc'[p] = "commit" => pc[p] \in {"children", "commit"}
         \/ \E p \in Proc : Commit(p)
<1> USE DEF TypeOK, Label, dbVars, worldVars, sealVars, chainVars, Goto
<1>1. ASSUME NEW p \in Proc, Start(p) \/ AppendFails(p) \/ Insert(p) \/ InsertChildren(p) \/ Crash(p)
      PROVE  UNCHANGED <<rows, whole>> /\ \A q \in Proc : pc'[q] = "commit" => pc[q] \in {"children", "commit"}
  BY <1>1 DEF Start, StartAppend, StartSeal, AppendFails, Insert, InsertChildren, Crash
<1>2. ASSUME NEW p \in Proc, SealStep(p)
      PROVE  UNCHANGED <<rows, whole>> /\ \A q \in Proc : pc'[q] = "commit" => pc[q] \in {"children", "commit"}
  BY <1>2 DEF SealStep, VerifyNext, ReadRow, StatWeights, HashWeights, Descend, Accept, Refuse, SealDone, SealInconclusive, SealFails
<1>3. CASE (\E r \in Run : Tamper(r)) \/ ReplaceWeights \/ UNCHANGED vars
  BY <1>3 DEF Tamper, ReplaceWeights, vars
<1> QED
  BY <1>1, <1>2, <1>3 DEF Next, AppendStep

LEMMA RowsStep == ASSUME IInv, [Next]_vars PROVE RowsAreSound' /\ PendingIsNew'
<1> USE DEF IInv, TypeOK, Label, dbVars, worldVars, sealVars, chainVars, Goto, RowsAreSound, PendingIsNew
<1>1. ASSUME NEW p \in Proc, Commit(p) PROVE RowsAreSound' /\ PendingIsNew'
  <2>1. cur[p] \in Record /\ Unique(cur[p]) /\ rows' = rows \cup {cur[p]} /\ whole' = whole \cup {cur[p].id}
    BY <1>1 DEF Commit
  <2>2. RowsAreSound'
    BY <2>1 DEF Unique
  <2>3. \A q \in Proc : pc'[q] \notin {"children", "commit"}
    BY <1>1, EvidenceStoreAssumption DEF Commit
  <2> QED
    BY <2>2, <2>3
<1>2. ASSUME NEW p \in Proc, Insert(p) PROVE PendingIsNew'
  BY <1>2, EvidenceStoreAssumption DEF Insert, Unique
<1>3. ASSUME NEW p \in Proc, Start(p) \/ AppendFails(p) \/ InsertChildren(p) \/ Crash(p)
      PROVE  PendingIsNew'
  BY <1>3 DEF Start, StartAppend, StartSeal, AppendFails, InsertChildren, Crash, Unique
<1>4. ASSUME NEW p \in Proc, SealStep(p) PROVE PendingIsNew'
  BY <1>4 DEF SealStep, VerifyNext, ReadRow, StatWeights, HashWeights, Descend, Accept, Refuse, SealDone, SealInconclusive, SealFails, Unique
<1>5. CASE (\E r \in Run : Tamper(r)) \/ ReplaceWeights \/ UNCHANGED vars
  BY <1>5 DEF Tamper, ReplaceWeights, vars, Unique
<1>6. ASSUME UNCHANGED <<rows, whole>> PROVE RowsAreSound'
  BY <1>6
<1> QED
  BY <1>1, <1>2, <1>3, <1>4, <1>5, <1>6, RowsGrow DEF Next, AppendStep

LEMMA CacheStep == ASSUME IInv, [Next]_vars PROVE CacheIsPast' /\ StatIsPast'
<1> USE DEF IInv, TypeOK, Label, dbVars, worldVars, sealVars, chainVars, Goto, CacheIsPast, StatIsPast
<1>1. CASE ReplaceWeights
  BY <1>1 DEF ReplaceWeights
<1>2. ASSUME NEW p \in Proc, Start(p) \/ AppendStep(p) \/ Crash(p) PROVE CacheIsPast' /\ StatIsPast'
  BY <1>2 DEF Start, StartAppend, StartSeal, AppendStep, AppendFails, Insert, InsertChildren, Commit, Crash, NoChain
<1>3. ASSUME NEW p \in Proc, SealFails(p) PROVE CacheIsPast' /\ StatIsPast'
  BY <1>3 DEF SealFails, NoChain
<1>4. ASSUME NEW p \in Proc, HashWeights(p) PROVE CacheIsPast' /\ StatIsPast'
  BY <1>3, <1>4 DEF HashWeights
<1>5. ASSUME NEW p \in Proc, StatWeights(p) PROVE CacheIsPast' /\ StatIsPast'
  BY <1>5 DEF StatWeights
<1>6. ASSUME NEW p \in Proc, SealStep(p), ~HashWeights(p), ~StatWeights(p) PROVE CacheIsPast' /\ StatIsPast'
  BY <1>3, <1>6 DEF SealStep, VerifyNext, ReadRow, Descend, Accept, NoChain, Refuse, SealDone, SealInconclusive
<1>7. CASE (\E r \in Run : Tamper(r)) \/ UNCHANGED vars
  BY <1>7 DEF Tamper, vars
<1> QED
  BY <1>1, <1>2, <1>4, <1>5, <1>6, <1>7 DEF Next

THEOREM InvCorrect == Spec => []IInv
<1>1. Init => IInv
  BY InvInit
<1>2. IInv /\ [Next]_vars => IInv'
  BY TypeStep, RowsStep, CacheStep DEF IInv
<1> QED
  BY <1>1, <1>2, PTL DEF Spec

(***************************************************************************)
(* An ID and an owned run stand in one row only, and each row has its      *)
(* artifact and validation rows, for any number of writers and crashes.    *)
(***************************************************************************)
THEOREM RowsCorrect == Spec => []RowsAreSound
<1>1. IInv => RowsAreSound
  BY DEF IInv
<1> QED
  BY <1>1, InvCorrect, PTL

(* Hashing is skipped only for weights that are the declared ones. *)
THEOREM CacheCorrect == Spec => CacheIsTrue
<1>1. IInv /\ [Next]_vars => [SkipsAreTrue]_vars
  <2> SUFFICES ASSUME IInv, Next, NEW p \in Proc, pc[p] = "stat", pc'[p] = "frame"
               PROVE  weights = "declared"
    BY DEF SkipsAreTrue
  <2> USE DEF IInv, TypeOK, Label, dbVars, worldVars, sealVars, chainVars, Goto
  <2>1. stamp \in primed[p]
    <3>1. ASSUME NEW q \in Proc, Start(q) \/ AppendStep(q) \/ Crash(q) PROVE FALSE
      BY <3>1 DEF Start, StartAppend, StartSeal, AppendStep, AppendFails, Insert, InsertChildren, Commit, Crash
    <3>2. ASSUME NEW q \in Proc, SealStep(q) PROVE stamp \in primed[p]
      BY <3>2 DEF SealStep, VerifyNext, ReadRow, StatWeights, HashWeights, Descend, Accept, ChainVerified, Refuse, SealDone, SealInconclusive, SealFails
    <3>3. CASE (\E r \in Run : Tamper(r)) \/ ReplaceWeights
      BY <3>3 DEF Tamper, ReplaceWeights
    <3> QED
      BY <3>1, <3>2, <3>3 DEF Next
  <2> QED
    BY <2>1 DEF CacheIsPast
<1> QED
  BY <1>1, InvCorrect, PTL DEF Spec, CacheIsTrue

-----------------------------------------------------------------------------
(* The store implements the ledger *)

Backed(p, m) == \E e \in rows : e.id = m /\ CandOf[e.run] = goal[p].cand /\ e.run \notin Warmup

(* What a process has verified of its goal stays true. *)
GoalIsBacked ==
    \A p \in Proc : pc[p] \in Sealing =>
        /\ Cardinality(goal[p].ids) >= Needed
        /\ \A m \in goal[p].ids \ todo[p] : Backed(p, m)

LEMMA BackedStep == ASSUME TypeOK, GoalIsBacked, [Next]_vars PROVE GoalIsBacked'
<1> USE DEF TypeOK, Label, Sealing, dbVars, worldVars, sealVars, chainVars, Goto, GoalIsBacked
<1>1. ASSUME NEW p \in Proc, Commit(p) PROVE GoalIsBacked'
  BY <1>1 DEF Commit, Backed
<1>2. ASSUME NEW p \in Proc, Start(p) PROVE GoalIsBacked'
  <2>1. ASSUME NEW e \in Record, StartAppend(p, e) PROVE GoalIsBacked'
    BY <2>1 DEF StartAppend, Backed
  <2>2. ASSUME NEW plan \in Plan, StartSeal(p, plan) PROVE GoalIsBacked'
    BY <2>2 DEF StartSeal, Backed
  <2> QED
    BY <1>2, <2>1, <2>2 DEF Start
<1>3. ASSUME NEW p \in Proc, AppendFails(p) \/ Insert(p) \/ InsertChildren(p) PROVE GoalIsBacked'
  BY <1>3 DEF AppendFails, Insert, InsertChildren, Backed
<1>4. ASSUME NEW p \in Proc, SealFails(p) \/ Crash(p) PROVE GoalIsBacked'
  BY <1>4 DEF SealFails, Crash, NoGoal, Backed
<1>5. ASSUME NEW p \in Proc, SealDone(p) PROVE GoalIsBacked'
  BY <1>5 DEF SealDone, NoGoal, Backed
<1>6. ASSUME NEW p \in Proc, Accept(p) PROVE GoalIsBacked'
  BY <1>6 DEF Accept, ChainVerified, Backed
<1>7. ASSUME NEW p \in Proc, SealStep(p), ~SealFails(p), ~SealDone(p), ~Accept(p) PROVE GoalIsBacked'
  BY <1>7 DEF SealStep, VerifyNext, ReadRow, StatWeights, HashWeights, Descend, Refuse, SealInconclusive, Backed
<1>8. CASE (\E r \in Run : Tamper(r)) \/ ReplaceWeights \/ UNCHANGED vars
  BY <1>8 DEF Tamper, ReplaceWeights, vars, Backed
<1> QED
  BY <1>1, <1>2, <1>3, <1>4, <1>5, <1>6, <1>7, <1>8 DEF Next, AppendStep

(* Only a commit adds a row and only a finished seal adds a plan. *)
LEMMA PlansGrow ==
  ASSUME TypeOK, [Next]_vars
  PROVE  UNCHANGED plans \/ \E p \in Proc : SealDone(p)
<1> USE DEF dbVars, worldVars, sealVars, chainVars
<1>1. ASSUME NEW p \in Proc, Start(p) \/ AppendStep(p) \/ Crash(p) PROVE UNCHANGED plans
  BY <1>1 DEF Start, StartAppend, StartSeal, AppendStep, AppendFails, Insert, InsertChildren, Commit, Crash
<1>2. ASSUME NEW p \in Proc, SealStep(p), ~SealDone(p) PROVE UNCHANGED plans
  BY <1>2 DEF SealStep, VerifyNext, ReadRow, StatWeights, HashWeights, Descend, Accept, Refuse, SealInconclusive, SealFails
<1>3. CASE (\E r \in Run : Tamper(r)) \/ ReplaceWeights \/ UNCHANGED vars
  BY <1>3 DEF Tamper, ReplaceWeights, vars
<1> QED
  BY <1>1, <1>2, <1>3 DEF Next

LEMMA LedgerStep ==
  ASSUME IInv, GoalIsBacked, [Next]_vars
  PROVE  [Ledger!Next]_<<rows, plans>>
<1> USE DEF IInv, TypeOK
<1>1. ASSUME NEW p \in Proc, Commit(p) PROVE Ledger!Next
  <2>1. cur[p] \in Record /\ Unique(cur[p])
    BY <1>1 DEF Commit, PendingIsNew
  <2>2. cur[p] \in Ledger!Entry
    BY <2>1 DEF Record, Ledger!Entry
  <2>3. Ledger!Append(cur[p])
    BY <1>1, <2>1 DEF Commit, Unique, Ledger!Append
  <2> QED
    BY <2>2, <2>3 DEF Ledger!Next
<1>2. ASSUME NEW p \in Proc, SealDone(p) PROVE Ledger!Next
  <2> DEFINE c == goal[p].cand
             S == goal[p].ids
  <2>1. goal[p] \in Plan /\ todo[p] = {} /\ Stable(S) /\ plans' = plans \cup {goal[p]} /\ UNCHANGED rows
    BY <1>2 DEF SealDone, dbVars
  <2>2. c \in Candidate /\ S \in SUBSET Mid /\ goal[p] = [cand |-> c, ids |-> S]
    BY <2>1 DEF Plan
  <2>3. Cardinality(S) >= Needed /\ \A m \in S : Backed(p, m)
    BY <1>2, <2>1 DEF SealDone, GoalIsBacked, Sealing
  <2>4. Ledger!Sealable(rows, c, S)
    <3>1. \A m \in S : \E e \in rows : e.id = m /\ CandOf[e.run] = c /\ e.run \notin Warmup
      BY <2>3 DEF Backed
    <3>2. \A d, e \in rows : d.id \in S /\ e.id \in S => TokensOf[d.run] = TokensOf[e.run]
      BY <2>1 DEF Stable
    <3>3. Ledger!Cardinality(S) = Cardinality(S)
      BY Zenon DEF Ledger!Cardinality, Cardinality
    <3> HIDE DEF c, S
    <3> QED
      BY <2>3, <3>1, <3>2, <3>3 DEF Ledger!Sealable
  <2>5. Ledger!Seal(c, S)
    BY <2>1, <2>2, <2>4 DEF Ledger!Seal
  <2> QED
    BY <2>2, <2>5 DEF Ledger!Next
<1> QED
  BY <1>1, <1>2, RowsGrow, PlansGrow

LEMMA GoalCorrect == Spec => []GoalIsBacked
<1>1. Init => GoalIsBacked
  BY DEF Init, GoalIsBacked, Sealing
<1>2. IInv /\ GoalIsBacked /\ [Next]_vars => GoalIsBacked'
  BY BackedStep DEF IInv
<1> QED
  BY <1>1, <1>2, InvCorrect, PTL DEF Spec

(***************************************************************************)
(* Refinement: with its committed rows as the ledger, the store appends    *)
(* only new IDs and new runs, never changes or loses a row, and seals only *)
(* plans that all rows of the ledger back at the moment of sealing.        *)
(***************************************************************************)
THEOREM LedgerImplemented == Spec => ImplementsLedger
<1>1. Init => Ledger!Init
  BY DEF Init, Ledger!Init
<1>2. IInv /\ GoalIsBacked /\ [Next]_vars => [Ledger!Next]_<<rows, plans>>
  BY LedgerStep
<1> QED
  BY <1>1, <1>2, GoalCorrect, InvCorrect, PTL DEF Spec, ImplementsLedger, Ledger!Spec

-----------------------------------------------------------------------------
(* What plans rest on *)

(* A committed measurement of m, and of what it is compared with. *)
Compared(m) ==
    \E e \in rows : e.id = m /\ (e.run \in Fork =>
        \E d \in rows : d.id = e.comp /\ d.run \notin Fork /\ TokensOf[d.run] = TokensOf[e.run])

(* A chain is its root alone, or each of its tops was compared by a row above. *)
ChainIsLinked ==
    \A p \in Proc :
        /\ pc[p] \notin Chaining => seen[p] = {}
        /\ pc[p] \in Chaining =>
              \/ seen[p] = {} /\ top[p] = root[p]
              \/ \E e \in rows : e.id \in seen[p] /\ e.run \in Fork /\ e.comp = top[p]
        /\ pc[p] \in {"stat", "hash", "frame"} => \E e \in rows : e.id = top[p]

(* What a process has verified of its goal was compared. *)
GoalIsCompared ==
    \A p \in Proc : pc[p] \in Sealing => \A m \in goal[p].ids \ todo[p] : Compared(m)

(* The rows of a plan, as they were when it was sealed. *)
PlansAreBacked ==
    \A plan \in plans :
        /\ Cardinality(plan.ids) >= Needed
        /\ \A m \in plan.ids :
              /\ Compared(m)
              /\ \E e \in rows : e.id = m /\ CandOf[e.run] = plan.cand /\ e.run \notin Warmup
        /\ Stable(plan.ids)

SealInv == ChainIsLinked /\ GoalIsCompared /\ PlansAreBacked /\ IsFiniteSet(rows)

LEMMA ChainStep == ASSUME TypeOK, ChainIsLinked, [Next]_vars PROVE ChainIsLinked'
<1> USE DEF TypeOK, Label, Chaining, dbVars, worldVars, sealVars, chainVars, Goto, ChainIsLinked
<1>1. ASSUME NEW p \in Proc, Start(p) \/ AppendFails(p) \/ Insert(p) \/ InsertChildren(p)
      PROVE  ChainIsLinked'
  BY <1>1 DEF Start, StartAppend, StartSeal, AppendFails, Insert, InsertChildren
<1>2. ASSUME NEW p \in Proc, Commit(p) PROVE ChainIsLinked'
  BY <1>2 DEF Commit
<1>3. ASSUME NEW p \in Proc, SealFails(p) \/ Crash(p) PROVE ChainIsLinked'
  BY <1>3 DEF SealFails, Crash, NoChain
<1>4. ASSUME NEW p \in Proc, SealStep(p), ~SealFails(p) PROVE ChainIsLinked'
  <2>1. ASSUME NEW m \in Mid, VerifyNext(p, m) PROVE ChainIsLinked'
    BY <2>1 DEF VerifyNext
  <2>2. CASE ReadRow(p)
    BY <1>4, <2>2 DEF ReadRow
  <2>3. CASE StatWeights(p) \/ HashWeights(p)
    BY <1>4, <2>3 DEF StatWeights, HashWeights
  <2>4. CASE Descend(p)
    <3>1. PICK e \in rows : e.id = top[p] /\ e.run \in Fork /\ top' = [top EXCEPT ![p] = e.comp]
      BY <2>4 DEF Descend
    <3>2. e.id \in seen'[p] /\ e.comp = top'[p] /\ rows' = rows
      BY <2>4, <3>1 DEF Descend
    <3> QED
      BY <2>4, <3>1, <3>2 DEF Descend
  <2>5. CASE Accept(p)
    BY <2>5 DEF Accept, ChainVerified, NoChain
  <2>6. CASE SealDone(p)
    BY <2>6 DEF SealDone
  <2> QED
    BY <1>4, <2>1, <2>2, <2>3, <2>4, <2>5, <2>6 DEF SealStep, Refuse, SealInconclusive
<1>5. CASE (\E r \in Run : Tamper(r)) \/ ReplaceWeights \/ UNCHANGED vars
  BY <1>5 DEF Tamper, ReplaceWeights, vars
<1> QED
  BY <1>1, <1>2, <1>3, <1>4, <1>5 DEF Next, AppendStep

(* Rows are never lost. *)
LEMMA RowsStay == ASSUME TypeOK, [Next]_vars PROVE rows \subseteq rows'
  BY RowsGrow DEF Commit

LEMMA ComparedStays == ASSUME TypeOK, [Next]_vars, NEW m, Compared(m) PROVE Compared(m)'
  BY RowsStay DEF Compared

(* What seal_candidate accepts was compared. *)
LEMMA AcceptedIsCompared ==
  ASSUME TypeOK, ChainIsLinked, NEW p \in Proc, Accept(p)
  PROVE  Compared(root[p])
<1>1. /\ pc[p] = "frame" /\ seen[p] \subseteq {root[p]}
      /\ \A d, e \in rows : d.id = top[p] /\ e.id = root[p] =>
              d.run \notin Fork /\ TokensOf[d.run] = TokensOf[e.run]
  BY DEF Accept, ChainVerified
<1>2. PICK d \in rows : d.id = top[p]
  BY <1>1 DEF ChainIsLinked
<1>3. CASE top[p] = root[p]
  BY <1>1, <1>2, <1>3 DEF Compared
<1>4. CASE \E e \in rows : e.id \in seen[p] /\ e.run \in Fork /\ e.comp = top[p]
  <2>1. PICK e \in rows : e.id \in seen[p] /\ e.run \in Fork /\ e.comp = top[p]
    BY <1>4
  <2>2. e.id = root[p]
    BY <1>1, <2>1
  <2>3. d.run \notin Fork /\ TokensOf[d.run] = TokensOf[e.run]
    BY <1>1, <1>2, <2>2
  <2> QED
    BY <1>2, <2>1, <2>2, <2>3 DEF Compared
<1> QED
  BY <1>1, <1>3, <1>4 DEF ChainIsLinked, Chaining

LEMMA ComparedStep ==
  ASSUME TypeOK, ChainIsLinked, GoalIsCompared, [Next]_vars
  PROVE  GoalIsCompared'
<1> SUFFICES ASSUME NEW q \in Proc, pc'[q] \in Sealing, NEW m \in goal'[q].ids \ todo'[q]
             PROVE  Compared(m)'
  BY DEF GoalIsCompared
<1> USE DEF TypeOK, Label, Sealing, dbVars, worldVars, sealVars, chainVars, Goto, GoalIsCompared
<1>1. ASSUME m \in goal[q].ids \ todo[q], pc[q] \in Sealing PROVE Compared(m)'
  BY <1>1, ComparedStays
<1>2. ASSUME NEW p \in Proc, Start(p) PROVE Compared(m)'
  BY <1>1, <1>2 DEF Start, StartAppend, StartSeal
<1>3. ASSUME NEW p \in Proc, AppendStep(p) PROVE Compared(m)'
  BY <1>1, <1>3 DEF AppendStep, AppendFails, Insert, InsertChildren, Commit
<1>4. ASSUME NEW p \in Proc, SealFails(p) \/ Crash(p) PROVE Compared(m)'
  BY <1>1, <1>4 DEF SealFails, Crash, NoGoal
<1>5. ASSUME NEW p \in Proc, Accept(p) PROVE Compared(m)'
  <2>1. CASE m = root[p]
    BY <1>5, <2>1, AcceptedIsCompared, ComparedStays
  <2>2. CASE m # root[p]
    BY <1>1, <1>5, <2>2 DEF Accept, ChainVerified
  <2> QED
    BY <2>1, <2>2
<1>6. ASSUME NEW p \in Proc, SealDone(p) PROVE Compared(m)'
  BY <1>1, <1>6 DEF SealDone, NoGoal
<1>7. ASSUME NEW p \in Proc, SealStep(p), ~SealFails(p), ~SealDone(p), ~Accept(p) PROVE Compared(m)'
  BY <1>1, <1>7 DEF SealStep, VerifyNext, ReadRow, StatWeights, HashWeights, Descend, Refuse, SealInconclusive
<1>8. CASE (\E r \in Run : Tamper(r)) \/ ReplaceWeights \/ UNCHANGED vars
  BY <1>1, <1>8 DEF Tamper, ReplaceWeights, vars
<1> QED
  BY <1>2, <1>3, <1>4, <1>5, <1>6, <1>7, <1>8 DEF Next

(* A commit adds no row to those that a sealed plan rests on. *)
LEMMA BackedPlansStay ==
  ASSUME IInv, PlansAreBacked, [Next]_vars, NEW plan \in plans
  PROVE  /\ \A m \in plan.ids :
               /\ Compared(m)'
               /\ \E e \in rows' : e.id = m /\ CandOf[e.run] = plan.cand /\ e.run \notin Warmup
         /\ Stable(plan.ids)'
<1> USE DEF IInv
<1>1. \A m \in plan.ids : Compared(m)'
  BY ComparedStays DEF PlansAreBacked
<1>2. \A m \in plan.ids : \E e \in rows' : e.id = m /\ CandOf[e.run] = plan.cand /\ e.run \notin Warmup
  BY RowsStay DEF PlansAreBacked
<1>3. ASSUME NEW p \in Proc, Commit(p) PROVE Stable(plan.ids)'
  <2>1. Unique(cur[p]) /\ rows' = rows \cup {cur[p]}
    BY <1>3 DEF Commit, PendingIsNew
  <2>2. cur[p].id \notin plan.ids
    BY <2>1 DEF Unique, PlansAreBacked
  <2> QED
    BY <2>1, <2>2 DEF PlansAreBacked, Stable
<1>4. ASSUME rows' = rows PROVE Stable(plan.ids)'
  <2>1. Stable(plan.ids)
    BY DEF PlansAreBacked
  <2> QED
    BY <1>4, <2>1 DEF Stable
<1> QED
  BY <1>1, <1>2, <1>3, <1>4, RowsGrow

LEMMA PlansStep ==
  ASSUME IInv, GoalIsBacked, GoalIsCompared, PlansAreBacked, [Next]_vars
  PROVE  PlansAreBacked'
<1>1. CASE UNCHANGED plans
  BY <1>1, BackedPlansStay DEF PlansAreBacked
<1>2. ASSUME NEW p \in Proc, SealDone(p) PROVE PlansAreBacked'
  <2> PICK new \in Plan \cup {None} : new = goal[p]
    BY DEF IInv, TypeOK
  <2>1. /\ pc[p] = "seal" /\ todo[p] = {} /\ Stable(new.ids)
        /\ plans' = plans \cup {new} /\ rows' = rows
    BY <1>2 DEF SealDone, dbVars
  <2>2. /\ Cardinality(new.ids) >= Needed
        /\ \A m \in new.ids : Compared(m) /\ Backed(p, m)
    BY <2>1 DEF GoalIsBacked, GoalIsCompared, Sealing
  <2>3. \A m \in new.ids : Compared(m)'
    BY <2>1, <2>2 DEF Compared
  <2>4. Stable(new.ids)'
    BY <2>1 DEF Stable
  <2>5. \A m \in new.ids : \E e \in rows' : e.id = m /\ CandOf[e.run] = new.cand /\ e.run \notin Warmup
    BY <2>1, <2>2 DEF Backed
  <2>6. \A plan \in plans : Cardinality(plan.ids) >= Needed
    BY DEF PlansAreBacked
  <2> QED
    BY <2>1, <2>2, <2>3, <2>4, <2>5, <2>6, BackedPlansStay DEF PlansAreBacked
<1> QED
  BY <1>1, <1>2, PlansGrow DEF IInv

LEMMA FiniteStep == ASSUME TypeOK, IsFiniteSet(rows), [Next]_vars PROVE IsFiniteSet(rows')
<1>1. ASSUME NEW p \in Proc, Commit(p) PROVE IsFiniteSet(rows')
  BY <1>1, FS_AddElement DEF Commit
<1> QED
  BY <1>1, RowsGrow

(* A sealed plan and every goal being verified rest on compared rows. *)
THEOREM SealCorrect == Spec => []SealInv
<1>1. Init => SealInv
  BY FS_EmptySet DEF Init, SealInv, ChainIsLinked, GoalIsCompared, PlansAreBacked, Sealing, Chaining
<1>2. IInv /\ GoalIsBacked /\ SealInv /\ [Next]_vars => SealInv'
  BY ChainStep, ComparedStep, PlansStep, FiniteStep DEF IInv, SealInv
<1> QED
  BY <1>1, <1>2, InvCorrect, GoalCorrect, PTL DEF Spec

(* The rows of a plan: one for each of its IDs, each of a run of its own. *)
LEMMA EvidenceCounts ==
  ASSUME IInv, SealInv, NEW plan \in plans
  PROVE  Cardinality({e.run : e \in Evidence(plan)}) = Cardinality(plan.ids)
<1> DEFINE E    == Evidence(plan)
           Runs == {e.run : e \in E}
           byId  == [e \in E |-> e.id]
           byRun == [e \in E |-> e.run]
<1>1. IsFiniteSet(E)
  BY FS_Subset DEF SealInv, Evidence
<1>2. \A d, e \in E : d.id = e.id \/ d.run = e.run => d = e
  BY DEF IInv, RowsAreSound, Evidence
<1>3. \A m \in plan.ids : \E e \in E : e.id = m
  BY DEF SealInv, PlansAreBacked, Evidence
<1>4. \A e \in E : e.id \in plan.ids
  BY DEF Evidence
<1> HIDE DEF E
<1>5. byId \in Bijection(E, plan.ids)
  BY <1>2, <1>3, <1>4 DEF Bijection, Injection, Surjection, IsInjective
<1>6. byRun \in Bijection(E, Runs)
  BY <1>2 DEF Bijection, Injection, Surjection, IsInjective
<1>7. Cardinality(plan.ids) = Cardinality(E)
  BY <1>1, <1>5, FS_Bijection DEF ExistsBijection
<1>8. Cardinality(Runs) = Cardinality(E)
  BY <1>1, <1>6, FS_Bijection DEF ExistsBijection
<1> QED
  BY <1>7, <1>8 DEF E

(***************************************************************************)
(* A sealed plan rests on enough committed measurements of its candidate,  *)
(* each of an owned run of its own, none a warmup, with one token          *)
(* sequence, although other processes append, tamper and are killed while  *)
(* its rows are verified one at a time.                                    *)
(***************************************************************************)
THEOREM SealedCorrect == Spec => []SealedIsSound
<1>1. IInv /\ SealInv => SealedIsSound
  <2> SUFFICES ASSUME IInv, SealInv, NEW plan \in plans
               PROVE  /\ Cardinality({e.run : e \in Evidence(plan)}) >= Needed
                      /\ \A e \in Evidence(plan) : CandOf[e.run] = plan.cand /\ e.run \notin Warmup
                      /\ Cardinality({TokensOf[e.run] : e \in Evidence(plan)}) <= 1
    BY DEF SealedIsSound
  <2>1. Cardinality({e.run : e \in Evidence(plan)}) >= Needed
    BY EvidenceCounts DEF SealInv, PlansAreBacked
  <2>2. \A e \in Evidence(plan) : CandOf[e.run] = plan.cand /\ e.run \notin Warmup
    <3> SUFFICES ASSUME NEW e \in Evidence(plan) PROVE CandOf[e.run] = plan.cand /\ e.run \notin Warmup
      OBVIOUS
    <3>1. e \in rows /\ e.id \in plan.ids
      BY DEF Evidence
    <3>2. PICK d \in rows : d.id = e.id /\ CandOf[d.run] = plan.cand /\ d.run \notin Warmup
      BY <3>1 DEF SealInv, PlansAreBacked
    <3>3. d = e
      BY <3>1, <3>2 DEF IInv, RowsAreSound
    <3> QED
      BY <3>2, <3>3
  <2>3. Cardinality({TokensOf[e.run] : e \in Evidence(plan)}) <= 1
    <3> DEFINE T == {TokensOf[e.run] : e \in Evidence(plan)}
    <3>1. \A s, t \in T : s = t
      BY DEF SealInv, PlansAreBacked, Stable, Evidence
    <3>2. CASE T = {}
      BY <3>2, FS_EmptySet
    <3>3. CASE T # {}
      <4>1. PICK t \in T : TRUE
        BY <3>3
      <4>2. T = {t}
        BY <3>1, <4>1
      <4> QED
        BY <4>2, FS_Singleton
    <3> QED
      BY <3>2, <3>3
  <2> QED
    BY <2>1, <2>2, <2>3
<1> QED
  BY <1>1, InvCorrect, SealCorrect, PTL

(***************************************************************************)
(* A plan that rests on a run of the patched runtime rests, with it, on a  *)
(* committed run of the pristine one that generated the same tokens.       *)
(***************************************************************************)
THEOREM ForkCorrect == Spec => []ForkIsCompared
<1>1. IInv /\ SealInv => ForkIsCompared
  <2> SUFFICES ASSUME IInv, SealInv, NEW plan \in plans, NEW e \in Evidence(plan), e.run \in Fork
               PROVE  \E d \in rows : d.id = e.comp /\ d.run \notin Fork /\ TokensOf[d.run] = TokensOf[e.run]
    BY DEF ForkIsCompared
  <2>1. e \in rows /\ Compared(e.id)
    BY DEF Evidence, SealInv, PlansAreBacked
  <2>2. \A d \in rows : d.id = e.id => d = e
    BY <2>1 DEF IInv, RowsAreSound
  <2> QED
    BY <2>1, <2>2 DEF Compared
<1> QED
  BY <1>1, InvCorrect, SealCorrect, PTL
=============================================================================
