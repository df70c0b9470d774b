--------------------------- MODULE MCEvidenceStore ---------------------------
EXTENDS EvidenceStore

CONSTANTS p1, p2, m1, m2, stock1, stock2, warm1, fork1, stock, patched

MCCandOf   == [r \in Run |-> IF r \in Fork THEN patched ELSE stock]
MCTokensOf == [r \in Run |-> IF r = stock2 THEN "other" ELSE "same"]

(* Bounds: either a patched run is compared while the weights change, or stock *)
(* runs that disagree and a warmup are measured.                               *)
Touched == {e.run : e \in rows} \cup dirty \cup {cur[p].run : p \in {q \in Proc : cur[q] # None}}
Bounded ==
    \/ Touched \subseteq {stock1, fork1}
    \/ Touched \subseteq {stock1, stock2, warm1} /\ stamp = 0

(* No step that must happen chooses a run or replaces the weights. *)
MCSpec == Init /\ [][Next /\ Bounded']_vars /\ \A p \in Proc : WF_vars(AppendStep(p) \/ SealStep(p))
=============================================================================
