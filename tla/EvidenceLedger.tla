--------------------------- MODULE EvidenceLedger ---------------------------
(***************************************************************************)
(* What the evidence database promises: a ledger of measurements that only *)
(* grows, in which an ID and an owned run are each used once, and plans    *)
(* that rest on measurements of the ledger.                                *)
(***************************************************************************)
EXTENDS FiniteSets, Naturals

CONSTANTS
    None,           \* no value
    Mid, Run,       \* measurement IDs; owned server runs
    Candidate,      \* candidate plans
    CandOf,         \* the candidate a run measured
    TokensOf,       \* the tokens it generated
    Warmup,         \* the runs that are not measured ones
    Needed          \* workload.measured_runs

VARIABLES ledger, plans

Entry == [id : Mid, run : Run, comp : Mid \cup {None}]

(* A plan for candidate c can be sealed from the measurements S of ledger L. *)
Sealable(L, c, S) ==
    /\ Cardinality(S) >= Needed
    /\ \A m \in S : \E e \in L : e.id = m /\ CandOf[e.run] = c /\ e.run \notin Warmup
    /\ \A d, e \in L : d.id \in S /\ e.id \in S => TokensOf[d.run] = TokensOf[e.run]

Init == ledger = {} /\ plans = {}

Append(e) ==
    /\ \A d \in ledger : d.id # e.id /\ d.run # e.run
    /\ ledger' = ledger \cup {e}
    /\ UNCHANGED plans

Seal(c, S) ==
    /\ Sealable(ledger, c, S)
    /\ plans' = plans \cup {[cand |-> c, ids |-> S]}
    /\ UNCHANGED ledger

Next ==
    \/ \E e \in Entry : Append(e)
    \/ \E c \in Candidate, S \in SUBSET Mid : Seal(c, S)

Spec == Init /\ [][Next]_<<ledger, plans>>
=============================================================================
