----------------------------- MODULE DeviceProofs -----------------------------
(***************************************************************************)
(* Proofs about the programs of MCComponents that run on a device: what a  *)
(* run of the router probe leaves, what the runtime's scheduler and the    *)
(* device do with the weights of an expert island, and what a transfer     *)
(* benchmark measures and releases, for prompts, models, islands and       *)
(* batches of every size.                                                  *)
(***************************************************************************)
EXTENDS Devices, SequenceTheorems, FiniteSetTheorems, WellFoundedInduction, TLAPS

-----------------------------------------------------------------------------
(* The router probe: its inductive invariant *)

Full     == Probe!Full
Passing  == {"forward", "graph", "sample", "tokens", "performance"}
Setup    == {"options", "prepare"}
Exits    == probePc \in {"report", "done"}
Succeeds == probePc \in Passing \/ (Exits /\ probeExit = 0)
Finished == IF probePc \in {"forward", "graph"} THEN position ELSE position + 1

(* The events of n whole forwards, and those so far. *)
Rows(n)  == n * Depth
Observed == Rows(Finished) + (IF probePc = "graph" THEN layer - 1 ELSE 0)
Lines(n) == [k \in 1..n |->
               LET f == (k - 1) \div Depth
               IN  Probe!Line(IF f < Prompt THEN "prefill" ELSE "decode", f, k - 1, f, ((k - 1) % Depth) + 1)]

ProbeIsTyped ==
    /\ tracing \in Probe!Modes /\ probePc \in Setup \cup Passing \cup {"report", "done"}
    /\ position \in Nat /\ layer \in 1..(Depth + 1) /\ sampled \in 0..Predict
    /\ count \in Nat /\ forwardId \in Nat /\ decodeId \in Nat /\ identity \in Nat /\ seen \in Seq(Nat)

(* Where main is says which token it works on and what it has written. *)
PlacesFollow ==
    /\ probePc \in Setup =>
          /\ position = 0 /\ sampled = 0 /\ count = 0 /\ order = 0 /\ seen = <<>>
          /\ forwardId = 0 /\ decodeId = 0 /\ identity = 0 /\ ~refused /\ ~lost
    /\ probePc \in {"forward", "graph"} =>
          \/ sampled = 0 /\ position < Prompt
          \/ 0 < sampled /\ sampled < Predict /\ position + 1 = Prompt + sampled
    /\ probePc = "sample" => position + 1 = IF sampled = Predict THEN Probe!Forwards ELSE Prompt + sampled
    /\ probePc \in {"tokens", "performance"} \/ (Exits /\ probeExit = 0) => position + 1 = Probe!Forwards
    /\ ~Exits => probeExit = 0
    /\ probePc = "performance" => files = {"tokens"}
    /\ Exits /\ probeExit = 0 => files = {"tokens", "performance"}

(* What was observed is what the finished forwards and this one have. *)
EventsFollow ==
    /\ Succeeds /\ Full => forwardId = Finished
    /\ Succeeds /\ Full => decodeId = IF Finished > Prompt THEN Finished - Prompt ELSE 0
    /\ Succeeds /\ Full /\ ~refused => order = Observed /\ trace = Lines(Observed)
    /\ Succeeds /\ tracing \in {"boundary", "metadata"} => count = Observed
    /\ Succeeds /\ tracing = "ids" => count = Observed \/ lost
    /\ tracing \notin {"counter", "boundary"} => count <= Probe!Room
    /\ tracing = "metadata" => ~lost
    /\ probePc = "done" /\ probeExit = 0 => ~lost

SeenIsPast ==
    /\ \A i, j \in 1..Len(seen) : i < j => seen[i] < seen[j]
    /\ \A i \in 1..Len(seen) : seen[i] <= identity /\ seen[i] <= decodeId
    /\ probePc \in {"forward", "sample"} \/ (probePc = "graph" /\ layer <= Target) =>
          \A i \in 1..Len(seen) : seen[i] < decodeId
    /\ probePc = "graph" /\ Probe!Phase = "decode" /\ Full => identity = decodeId
    /\ position < Prompt \/ ~Full => seen = <<>>

ProbeInv == ProbeIsTyped /\ PlacesFollow /\ EventsFollow /\ SeenIsPast

-----------------------------------------------------------------------------
(* Rows of a trace *)

ProbeBounds == Probe!RouterProbeAssumption

LEMMA ProbeNumbers ==
  ASSUME ProbeBounds
  PROVE  /\ Prompt \in Nat /\ Prompt > 0 /\ Predict \in Nat /\ Depth \in Nat /\ Depth > 0
         /\ Target \in Nat /\ 1 < Target /\ Target <= Depth
  BY DEF ProbeBounds, Probe!RouterProbeAssumption

LEMMA RowsGrow ==
  ASSUME ProbeBounds, NEW n \in Nat
  PROVE  Rows(0) = 0 /\ Rows(n) \in Nat /\ Rows(n + 1) = Rows(n) + Depth
  BY ProbeNumbers DEF Rows

LEMMA RowsAreBelow ==
  ASSUME ProbeBounds, NEW n \in Nat, NEW m \in Nat, n < m
  PROVE  Rows(n) + Depth <= Rows(m)
<1>1. PICK d \in Nat : m = n + 1 + d
  <2>1. m - n - 1 \in Nat /\ m = n + 1 + (m - n - 1)
    OBVIOUS
  <2> QED
    BY <2>1
<1>2. Rows(m) = Rows(n) + Depth + d * Depth
  BY <1>1, ProbeNumbers DEF Rows
<1>3. d * Depth \in Nat
  BY ProbeNumbers
<1> QED
  BY <1>2, <1>3, RowsGrow, ProbeNumbers

(* A line of the trace names its forward and its layer. *)
LEMMA DivisionOfRow ==
  ASSUME NEW d \in Nat, d > 0, NEW n \in Nat, NEW r \in 0..(d - 1)
  PROVE  (n * d + r) \div d = n /\ (n * d + r) % d = r
<1> DEFINE x == n * d + r
<1>1. x \in Int
  OBVIOUS
<1>2. x \div d = n
  OBVIOUS
<1> HIDE DEF x
<1>3. x = d * (x \div d) + (x % d) /\ x % d \in Int
  BY <1>1
<1>4. x = d * n + (x % d)
  BY <1>2, <1>3
<1>5. x % d = r
  BY <1>3, <1>4 DEF x
<1> QED
  BY <1>2, <1>5 DEF x

LEMMA RowOfLine ==
  ASSUME ProbeBounds, NEW n \in Nat, NEW l \in 1..Depth
  PROVE  (Rows(n) + l - 1) \div Depth = n /\ ((Rows(n) + l - 1) % Depth) + 1 = l
<1>1. Rows(n) + l - 1 = n * Depth + (l - 1) /\ l - 1 \in 0..(Depth - 1)
  BY ProbeNumbers DEF Rows
<1>2. (n * Depth + (l - 1)) \div Depth = n /\ (n * Depth + (l - 1)) % Depth = l - 1
  BY <1>1, ProbeNumbers, DivisionOfRow
<1>3. (Rows(n) + l - 1) \div Depth = n /\ (Rows(n) + l - 1) % Depth = l - 1
  BY <1>1, <1>2, Zenon
<1> QED
  BY <1>3

(* The buffers have room for a forward more than the longest run has. *)
LEMMA RoomIsLeft ==
  ASSUME ProbeBounds, NEW n \in Nat, n < Prompt + Predict, NEW l \in 1..Depth
  PROVE  Rows(n) + l - 1 < Probe!Room
<1>1. Probe!Room = Rows(Prompt + Predict + 1)
  BY DEF Probe!Room, Rows
<1>2. Rows(n) + Depth <= Rows(Prompt + Predict + 1)
  BY RowsAreBelow, ProbeNumbers
<1> QED
  BY <1>1, <1>2, RowsGrow, ProbeNumbers

(* The line of the next layer follows the lines there are. *)
LEMMA LinesGrow ==
  ASSUME ProbeBounds, NEW n \in Nat, NEW l \in 1..Depth, NEW k, k = Rows(n) + l - 1
  PROVE  Append(Lines(k), Probe!Line(IF n < Prompt THEN "prefill" ELSE "decode", n, k, n, l)) = Lines(k + 1)
<1> DEFINE L(i) == LET f == (i - 1) \div Depth
                   IN  Probe!Line(IF f < Prompt THEN "prefill" ELSE "decode", f, i - 1, f, ((i - 1) % Depth) + 1)
<1>1. k \in Nat
  BY RowsGrow, ProbeNumbers
<1>2. L(k + 1) = Probe!Line(IF n < Prompt THEN "prefill" ELSE "decode", n, k, n, l)
  <2>1. k + 1 - 1 = k
    BY <1>1
  <2>2. k \div Depth = n /\ (k % Depth) + 1 = l
    BY RowOfLine
  <2> QED
    BY <2>1, <2>2
<1> HIDE DEF L
<1>3. Lines(k) = [i \in 1..k |-> L(i)] /\ Lines(k + 1) = [i \in 1..(k + 1) |-> L(i)]
  BY DEF Lines, L
<1>4. Append([i \in 1..k |-> L(i)], L(k + 1)) = [i \in 1..(k + 1) |-> L(i)]
  BY <1>1
<1> QED
  BY <1>2, <1>3, <1>4

-----------------------------------------------------------------------------
(* The router probe: its steps *)

LEMMA OptionsStep == ASSUME ProbeBounds, ProbeInv, Probe!Options PROVE ProbeInv'
<1> USE ProbeNumbers DEF Probe!Options, Probe!Exit, Probe!graphVars, Probe!commandVars, Setup, Passing, Exits
<1>1. ProbeIsTyped'
  BY DEF ProbeInv, ProbeIsTyped
<1>2. PlacesFollow'
  BY DEF ProbeInv, PlacesFollow
<1>3. EventsFollow'
  BY DEF ProbeInv, PlacesFollow, EventsFollow, Succeeds, Full, Probe!Full, Probe!Room
<1>4. SeenIsPast'
  BY DEF ProbeInv, PlacesFollow, SeenIsPast, Probe!Phase
<1> QED
  BY <1>1, <1>2, <1>3, <1>4 DEF ProbeInv

LEMMA PrepareStep == ASSUME ProbeBounds, ProbeInv, Probe!Prepare PROVE ProbeInv'
<1> USE ProbeNumbers DEF Probe!Prepare, Probe!Exit, Probe!graphVars, Probe!commandVars, Setup, Passing, Exits
<1>1. ProbeIsTyped'
  BY DEF ProbeInv, ProbeIsTyped
<1>2. PlacesFollow'
  BY DEF ProbeInv, PlacesFollow
<1>3. EventsFollow'
  <2>1. Rows(0) = 0 /\ Lines(0) = <<>>
    BY RowsGrow DEF Lines
  <2>2. Succeeds' => Finished' = 0 /\ Observed' = 0 /\ (Full => trace' = <<>>)
    <3>1. Succeeds' => probePc' = "forward" /\ (Full => trace' = <<>>)
      BY DEF Succeeds, Full
    <3>2. position' = 0
      BY DEF ProbeInv, PlacesFollow
    <3> QED
      BY <2>1, <3>1, <3>2 DEF Finished, Observed, Rows
  <2> QED
    BY <2>1, <2>2 DEF ProbeInv, PlacesFollow, EventsFollow, Full, Probe!Full, Probe!Room
<1>4. SeenIsPast'
  BY DEF ProbeInv, PlacesFollow, SeenIsPast, Probe!Phase, Full, Probe!Full
<1> QED
  BY <1>1, <1>2, <1>3, <1>4 DEF ProbeInv

(* After a failure only what later steps rely on is left. *)
LEMMA FailureStep ==
  ASSUME ProbeBounds, ProbeInv, probePc \in Passing, Probe!Fail, layer' \in 1..(Depth + 1),
         UNCHANGED <<tracing, position, forwardId, decodeId, order, refused, count, lost, identity, seen,
                     sampled, trace>>
  PROVE  ProbeInv'
<1> USE DEF Probe!Fail, Setup, Passing, Exits
<1>1. ProbeIsTyped' /\ PlacesFollow'
  BY DEF ProbeInv, ProbeIsTyped, PlacesFollow
<1>2. EventsFollow'
  BY DEF ProbeInv, EventsFollow, Succeeds, Full, Probe!Full, Probe!Room
<1>3. SeenIsPast'
  BY DEF ProbeInv, SeenIsPast, Full, Probe!Full
<1> QED
  BY <1>1, <1>2, <1>3 DEF ProbeInv

LEMMA BeginForwardStep == ASSUME ProbeBounds, ProbeInv, Probe!BeginForward PROVE ProbeInv'
<1> USE ProbeNumbers DEF Probe!BeginForward, Probe!commandVars, Setup, Passing, Exits
<1>1. CASE Probe!Fail /\ UNCHANGED identity
  BY <1>1, FailureStep
<1>2. CASE probePc' = "graph" /\ probeExit' = probeExit
           /\ identity' = IF Probe!Phase = "decode" THEN decodeId ELSE identity
  <2>1. ProbeIsTyped' /\ PlacesFollow'
    BY <1>2 DEF ProbeInv, ProbeIsTyped, PlacesFollow, Probe!Forwards
  <2>2. EventsFollow'
    <3>1. Finished' = Finished /\ Observed' = Observed /\ Succeeds
      BY <1>2, RowsGrow DEF ProbeInv, ProbeIsTyped, Finished, Observed, Succeeds, Rows
    <3> QED
      BY <1>2, <3>1 DEF ProbeInv, EventsFollow, Full, Probe!Full, Probe!Room, Lines
  <2>3. SeenIsPast'
    BY <1>2 DEF ProbeInv, ProbeIsTyped, SeenIsPast, Full, Probe!Full, Probe!Phase
  <2> QED
    BY <2>1, <2>2, <2>3 DEF ProbeInv
<1> QED
  BY <1>1, <1>2

LEMMA DecodeFailsStep == ASSUME ProbeBounds, ProbeInv, Probe!DecodeFails PROVE ProbeInv'
  BY FailureStep DEF Probe!DecodeFails, Probe!graphVars, Probe!commandVars, Passing, ProbeInv, ProbeIsTyped

(* The target layer of a decode is observed under the identity of the decode. *)
LEMMA IdentityIsSeen ==
  ASSUME ProbeBounds, ProbeInv, probePc = "graph", Full, layer = Target, Probe!Phase = "decode",
         NEW t, t = Append(seen, decodeId)
  PROVE  /\ t \in Seq(Nat) /\ \A i, j \in 1..Len(t) : i < j => t[i] < t[j]
         /\ \A i \in 1..Len(t) : t[i] <= identity /\ t[i] <= decodeId
<1>1. seen \in Seq(Nat) /\ decodeId \in Nat /\ identity = decodeId /\ Target \in Nat /\ layer \in Nat
  BY ProbeNumbers DEF ProbeInv, ProbeIsTyped, SeenIsPast
<1>2. /\ \A i, j \in 1..Len(seen) : i < j => seen[i] < seen[j]
      /\ \A i \in 1..Len(seen) : seen[i] < decodeId
  BY <1>1 DEF ProbeInv, SeenIsPast
<1>3. /\ t \in Seq(Nat) /\ Len(t) = Len(seen) + 1 /\ t[Len(t)] = decodeId
      /\ \A i \in 1..Len(seen) : t[i] = seen[i]
  BY <1>1
<1> QED
  BY <1>1, <1>2, <1>3

LEMMA ObserveStep == ASSUME ProbeBounds, ProbeInv, Probe!Observe PROVE ProbeInv'
<1> USE ProbeNumbers DEF Setup, Passing, Exits
<1>1. /\ probePc = "graph" /\ layer \in 1..Depth /\ Full /\ tracing = "full"
      /\ UNCHANGED <<tracing, probePc, position, forwardId, decodeId, count, lost, identity, sampled, files, probeExit>>
      /\ layer' \in (layer + 1)..(Depth + 1)
      /\ seen' \in {seen, IF layer = Target /\ Probe!Phase = "decode" THEN Append(seen, decodeId) ELSE seen}
  <2>1. layer \in 1..Depth
    BY DEF ProbeInv, ProbeIsTyped, Probe!Observe
  <2>2. layer' \in (layer + 1)..(Depth + 1)
    <3>1. layer' = layer + 1 \/ layer' \in (layer + 1)..(Depth + 1)
      BY DEF Probe!Observe, Probe!Refuse
    <3> QED
      BY <2>1, <3>1
  <2>3. seen' \in {seen, IF layer = Target /\ Probe!Phase = "decode" THEN Append(seen, decodeId) ELSE seen}
    BY DEF Probe!Observe, Probe!Refuse
  <2> QED
    BY <2>1, <2>2, <2>3 DEF Probe!Observe, Probe!commandVars, Full, Probe!Full
<1>2. \/ refused' = TRUE
      \/ /\ refused' = refused /\ layer' = layer + 1 /\ order' = order + 1
         /\ trace' = Append(trace, Probe!Line(Probe!Phase, forwardId, order, position, layer))
  BY DEF Probe!Observe, Probe!Refuse
<1>3. seen' = seen \/ (layer = Target /\ Probe!Phase = "decode" /\ seen' = Append(seen, decodeId))
  BY <1>1
<1>4. /\ seen' \in Seq(Nat) /\ \A i, j \in 1..Len(seen') : i < j => seen'[i] < seen'[j]
      /\ \A i \in 1..Len(seen') : seen'[i] <= identity /\ seen'[i] <= decodeId
  BY <1>1, <1>3, IdentityIsSeen DEF ProbeInv, ProbeIsTyped, SeenIsPast
<1>5. ProbeIsTyped' /\ PlacesFollow'
  BY <1>1, <1>4 DEF ProbeInv, ProbeIsTyped, PlacesFollow, Probe!Forwards
<1>6. EventsFollow'
  <2>1. Finished' = Finished /\ Finished = position /\ position \in Nat /\ Succeeds /\ Observed = Rows(position) + layer - 1
        /\ Rows(position) \in Nat
    BY <1>1, RowsGrow DEF ProbeInv, ProbeIsTyped, Finished, Succeeds, Observed
  <2>2. ASSUME ~refused' PROVE order' = Observed' /\ trace' = Lines(Observed')
    <3>1. /\ ~refused /\ layer' = layer + 1 /\ order' = order + 1
          /\ trace' = Append(trace, Probe!Line(Probe!Phase, forwardId, order, position, layer))
      BY <1>2, <2>2
    <3>2. order = Rows(position) + layer - 1 /\ trace = Lines(order) /\ forwardId = position
      BY <1>1, <2>1, <3>1 DEF ProbeInv, EventsFollow
    <3>3. trace' = Lines(order + 1)
      BY <1>1, <2>1, <3>1, <3>2, LinesGrow, ZenonT(60) DEF Probe!Phase
    <3>4. Observed' = Rows(position) + layer' - 1
      BY <1>1, <2>1, <3>1 DEF Observed, Rows
    <3>5. Observed' = order + 1
      BY <1>1, <2>1, <3>1, <3>2, <3>4, SMTT(60)
    <3> QED
      BY <3>1, <3>3, <3>5
  <2> QED
    BY <1>1, <2>1, <2>2 DEF ProbeInv, EventsFollow, Succeeds, Full, Probe!Full, Probe!Room, Lines
<1>7. SeenIsPast'
  <2>1. layer' <= Target => seen' = seen
    BY <1>1, <1>3
  <2>2. position < Prompt => seen' = <<>>
    BY <1>1, <1>3 DEF ProbeInv, SeenIsPast, Probe!Phase
  <2> QED
    BY <1>1, <1>4, <2>1, <2>2, SMTT(60) DEF ProbeInv, ProbeIsTyped, SeenIsPast, Full, Probe!Full, Probe!Phase
<1> QED
  BY <1>5, <1>6, <1>7 DEF ProbeInv

LEMMA CountEventsStep == ASSUME ProbeBounds, ProbeInv, Probe!Count PROVE ProbeInv'
<1> USE ProbeNumbers DEF Setup, Passing, Exits
<1>1. /\ probePc = "graph" /\ layer \in 1..Depth /\ ~Full /\ tracing # "full" /\ layer' = layer + 1
      /\ UNCHANGED <<tracing, probePc, position, forwardId, decodeId, order, refused, identity, seen, sampled, trace,
                     files, probeExit>>
  BY DEF ProbeInv, ProbeIsTyped, Probe!Count, Probe!commandVars, Full, Probe!Full
<1>2. position \in Nat /\ position < Prompt + Predict /\ count \in Nat
  BY <1>1 DEF ProbeInv, ProbeIsTyped, PlacesFollow
<1>3. /\ Rows(position) \in Nat /\ Observed = Rows(position) + layer - 1 /\ Observed' = Observed + 1
      /\ Observed < Probe!Room /\ Probe!Room \in Nat
  BY <1>1, <1>2, RowsGrow, RoomIsLeft DEF Observed, Finished, Rows, Probe!Room
<1>4. /\ tracing \in {"counter", "boundary"} => count' = count + 1 /\ lost' = lost
      /\ tracing = "metadata" =>
            (count >= Probe!Room /\ lost' = TRUE /\ count' = count) \/ (count < Probe!Room /\ count' = count + 1 /\ lost' = lost)
      /\ tracing = "ids" =>
            (lost' = TRUE /\ count' = count) \/ (count < Probe!Room /\ count' = count + 1 /\ lost' = lost)
      /\ tracing \notin {"counter", "boundary", "metadata", "ids"} => count' = count /\ lost' = lost
  BY DEF Probe!Count
<1>5. tracing \in Probe!Modes /\ Succeeds /\ Succeeds' /\ Finished' = Finished
  BY <1>1 DEF ProbeInv, ProbeIsTyped, Succeeds, Finished
<1>6. count' \in Nat
  BY <1>2, <1>4, <1>5 DEF Probe!Modes
<1>7. ProbeIsTyped' /\ PlacesFollow'
  BY <1>1, <1>6 DEF ProbeInv, ProbeIsTyped, PlacesFollow, Probe!Forwards
<1>8. EventsFollow'
  <2>1. tracing \in {"boundary", "metadata"} => count = Observed
    BY <1>5 DEF ProbeInv, EventsFollow
  <2>2. tracing = "ids" => count = Observed \/ lost
    BY <1>5 DEF ProbeInv, EventsFollow
  <2>3. tracing \in {"boundary", "metadata"} => count' = Observed'
    BY <1>2, <1>3, <1>4, <2>1
  <2>4. tracing = "ids" => count' = Observed' \/ lost'
    BY <1>2, <1>3, <1>4, <2>2
  <2>5. tracing \notin {"counter", "boundary"} => count' <= Probe!Room
    BY <1>2, <1>3, <1>4 DEF ProbeInv, EventsFollow
  <2>6. tracing = "metadata" => ~lost'
    BY <1>3, <1>4, <2>1 DEF ProbeInv, EventsFollow
  <2> QED
    BY <1>1, <2>3, <2>4, <2>5, <2>6 DEF EventsFollow, Full, Probe!Full, Probe!Room
<1>9. SeenIsPast'
  BY <1>1 DEF ProbeInv, SeenIsPast, Full, Probe!Full, Probe!Phase
<1> QED
  BY <1>7, <1>8, <1>9 DEF ProbeInv

LEMMA EndForwardStep == ASSUME ProbeBounds, ProbeInv, Probe!EndForward PROVE ProbeInv'
<1> USE ProbeNumbers DEF Setup, Passing, Exits
<1>1. /\ probePc = "graph" /\ layer = Depth + 1 /\ layer' = layer
      /\ UNCHANGED <<tracing, order, refused, count, lost, identity, seen, sampled, trace, files, probeExit>>
      /\ forwardId' = (IF Full THEN forwardId + 1 ELSE forwardId)
      /\ decodeId' = (IF Full /\ Probe!Phase = "decode" THEN decodeId + 1 ELSE decodeId)
  BY DEF Probe!EndForward, Probe!commandVars, Full
<1>2. \/ position + 1 < Prompt /\ probePc' = "forward" /\ position' = position + 1
      \/ ~(position + 1 < Prompt) /\ probePc' = "sample" /\ position' = position
  BY DEF Probe!EndForward, Probe!Advance
<1>3. position \in Nat /\ decodeId \in Nat /\ forwardId \in Nat
  BY DEF ProbeInv, ProbeIsTyped
<1>4. Succeeds /\ Succeeds' /\ Finished = position /\ Finished' = position + 1
  BY <1>1, <1>2, <1>3 DEF Succeeds, Finished
<1>5. Observed' = Observed
  <2>1. Observed = Rows(position) + Depth /\ Rows(position) + Depth = Rows(position + 1)
    BY <1>1, <1>3, <1>4, RowsGrow DEF Observed
  <2>2. probePc' # "graph"
    BY <1>2
  <2>3. Rows(position + 1) \in Nat
    BY <1>3, RowsGrow
  <2> QED
    BY <1>3, <1>4, <2>1, <2>2, <2>3 DEF Observed, Rows
<1>6. ProbeIsTyped' /\ PlacesFollow'
  BY <1>1, <1>2, <1>3, SMTT(60) DEF ProbeInv, ProbeIsTyped, PlacesFollow, Probe!Forwards
<1>7. EventsFollow'
  <2>1. Full => forwardId = Finished /\ decodeId = IF Finished > Prompt THEN Finished - Prompt ELSE 0
    BY <1>4 DEF ProbeInv, EventsFollow
  <2>2. Full => forwardId' = Finished' /\ decodeId' = IF Finished' > Prompt THEN Finished' - Prompt ELSE 0
    BY <1>1, <1>3, <1>4, <2>1 DEF Probe!Phase
  <2> QED
    BY <1>1, <1>2, <1>4, <1>5, <2>2 DEF ProbeInv, EventsFollow, Full, Probe!Full, Probe!Room, Lines
<1>8. SeenIsPast'
  <2>1. Probe!Phase = "decode" \/ seen = <<>>
    BY DEF ProbeInv, SeenIsPast, Probe!Phase
  <2>2. seen \in Seq(Nat) /\ identity \in Nat
    BY DEF ProbeInv, ProbeIsTyped
  <2>3. Full \/ seen = <<>>
    BY DEF ProbeInv, SeenIsPast
  <2>4. /\ \A i \in 1..Len(seen) : seen[i] <= identity /\ seen[i] <= decodeId
        /\ \A i, j \in 1..Len(seen) : i < j => seen[i] < seen[j]
    BY DEF ProbeInv, SeenIsPast
  <2>5. \A i \in 1..Len(seen) : seen[i] < decodeId'
    BY <1>1, <1>3, <2>1, <2>2, <2>3, <2>4
  <2>6. position' < Prompt => seen = <<>>
    BY <1>2, <1>3, <2>1 DEF Probe!Phase
  <2> QED
    BY <1>1, <1>2, <1>3, <2>2, <2>3, <2>4, <2>5, <2>6, SMTT(60) DEF SeenIsPast, Full, Probe!Full
<1> QED
  BY <1>6, <1>7, <1>8 DEF ProbeInv

LEMMA SampleStep == ASSUME ProbeBounds, ProbeInv, Probe!Sample PROVE ProbeInv'
<1> USE ProbeNumbers DEF Setup, Passing, Exits
<1>1. /\ probePc = "sample"
      /\ UNCHANGED <<tracing, layer, forwardId, decodeId, order, refused, count, lost, identity, seen, trace, files,
                     probeExit>>
  BY DEF Probe!Sample, Probe!commandVars, Probe!graphVars
<1>2. \/ sampled = Predict /\ probePc' = "tokens" /\ sampled' = sampled /\ position' = position
      \/ sampled # Predict /\ sampled' = sampled + 1 /\ probePc' = "tokens" /\ position' = position
      \/ sampled + 1 < Predict /\ sampled' = sampled + 1 /\ probePc' = "forward" /\ position' = Prompt + sampled
      \/ sampled # Predict /\ ~(sampled + 1 < Predict) /\ sampled' = sampled + 1 /\ probePc' = "sample"
         /\ position' = position
  BY DEF Probe!Sample, ProbeInv, ProbeIsTyped
<1>3. position \in Nat /\ sampled \in 0..Predict /\ decodeId \in Nat
  BY DEF ProbeInv, ProbeIsTyped
<1>4. position + 1 = IF sampled = Predict THEN Probe!Forwards ELSE Prompt + sampled
  BY <1>1 DEF ProbeInv, PlacesFollow
<1>5. Succeeds /\ Succeeds' /\ Finished' = Finished /\ Observed' = Observed
  BY <1>1, <1>2, <1>3, <1>4 DEF Succeeds, Finished, Observed, Rows
<1>6. ProbeIsTyped' /\ PlacesFollow'
  <2>1. ProbeIsTyped'
    BY <1>1, <1>2, <1>3 DEF ProbeInv, ProbeIsTyped
  <2>2. probeExit = 0
    BY <1>1 DEF ProbeInv, PlacesFollow
  <2>3. PlacesFollow'
    BY <1>1, <1>2, <1>3, <1>4, <2>2, SMTT(60) DEF PlacesFollow, Probe!Forwards
  <2> QED
    BY <2>1, <2>3
<1>7. EventsFollow'
  BY <1>1, <1>2, <1>5 DEF ProbeInv, EventsFollow, Full, Probe!Full, Probe!Room, Lines
<1>8. SeenIsPast'
  <2>1. position <= position'
    BY <1>2, <1>3, <1>4
  <2>2. position' < Prompt => position < Prompt
    BY <1>2, <1>3, <2>1
  <2> QED
    BY <1>1, <1>2, <2>2 DEF ProbeInv, SeenIsPast, Full, Probe!Full
<1> QED
  BY <1>6, <1>7, <1>8 DEF ProbeInv

LEMMA WriteStep ==
  ASSUME ProbeBounds, ProbeInv, Probe!WriteTokens \/ Probe!WritePerformance PROVE ProbeInv'
<1> USE DEF Setup, Passing, Exits
<1>1. /\ probePc \in {"tokens", "performance"}
      /\ UNCHANGED <<tracing, position, layer, forwardId, decodeId, order, refused, count, lost, identity, seen, sampled,
                     trace>>
  BY DEF Probe!WriteTokens, Probe!WritePerformance, Probe!commandVars, Probe!graphVars
<1>2. CASE Probe!Fail
  BY <1>1, <1>2, FailureStep DEF ProbeInv, ProbeIsTyped
<1>3. CASE /\ probeExit' = probeExit
           /\ \/ probePc = "tokens" /\ probePc' = "performance" /\ files' = {"tokens"}
              \/ probePc = "performance" /\ probePc' = "report" /\ files' = files \cup {"performance"}
  <2>1. Succeeds /\ Succeeds' /\ Finished' = Finished /\ Observed' = Observed
    BY <1>1, <1>3 DEF ProbeInv, PlacesFollow, Succeeds, Finished, Observed, Rows
  <2>2. ProbeIsTyped' /\ PlacesFollow'
    BY <1>1, <1>3 DEF ProbeInv, ProbeIsTyped, PlacesFollow, Probe!Forwards
  <2>3. EventsFollow'
    BY <1>1, <1>3, <2>1 DEF ProbeInv, EventsFollow, Full, Probe!Full, Probe!Room, Lines
  <2>4. SeenIsPast'
    BY <1>1, <1>3 DEF ProbeInv, SeenIsPast, Full, Probe!Full
  <2> QED
    BY <2>2, <2>3, <2>4 DEF ProbeInv
<1> QED
  BY <1>2, <1>3 DEF Probe!WriteTokens, Probe!WritePerformance

LEMMA ReportStep == ASSUME ProbeBounds, ProbeInv, Probe!Report PROVE ProbeInv'
<1> USE DEF Setup, Passing, Exits
<1>1. /\ probePc = "report" /\ probePc' = "done" /\ probeExit' = IF Probe!Blank THEN 1 ELSE probeExit
      /\ UNCHANGED <<tracing, position, layer, forwardId, decodeId, order, refused, count, lost, identity, seen, sampled,
                     trace, files>>
  BY DEF Probe!Report, Probe!Exit, Probe!commandVars, Probe!graphVars
<1>2. probeExit' = 0 => probeExit = 0 /\ ~lost
  BY <1>1 DEF Probe!Blank
<1>3. Succeeds' => Succeeds /\ Finished' = Finished /\ Observed' = Observed
  BY <1>1, <1>2 DEF Succeeds, Finished, Observed, Rows
<1>4. ProbeIsTyped' /\ PlacesFollow'
  BY <1>1, <1>2 DEF ProbeInv, ProbeIsTyped, PlacesFollow, Probe!Forwards
<1>5. EventsFollow'
  BY <1>1, <1>2, <1>3 DEF ProbeInv, EventsFollow, Full, Probe!Full, Probe!Room, Lines
<1>6. SeenIsPast'
  BY <1>1 DEF ProbeInv, SeenIsPast, Full, Probe!Full
<1> QED
  BY <1>4, <1>5, <1>6 DEF ProbeInv

LEMMA RouterProbeStep ==
  ASSUME ProbeBounds, ProbeInv, Probe!Next \/ UNCHANGED probeVars PROVE ProbeInv'
<1>1. CASE UNCHANGED probeVars
  BY <1>1 DEF probeVars, ProbeInv, ProbeIsTyped, PlacesFollow, EventsFollow, SeenIsPast, Succeeds, Exits, Full,
     Probe!Full, Probe!Room, Probe!Forwards, Probe!Phase, Finished, Observed, Rows, Lines
<1>2. CASE Probe!Next
  BY <1>2, OptionsStep, PrepareStep, BeginForwardStep, DecodeFailsStep, ObserveStep, CountEventsStep, EndForwardStep,
     SampleStep, WriteStep, ReportStep DEF Probe!Next, Probe!Probe
<1> QED
  BY <1>1, <1>2

LEMMA ProbeInit == ASSUME ProbeBounds, Probe!Init PROVE ProbeInv
<1> USE ProbeNumbers DEF Probe!Init, Setup, Passing, Exits
<1>1. ProbeIsTyped
  BY DEF ProbeIsTyped
<1>2. PlacesFollow
  BY DEF PlacesFollow
<1>3. EventsFollow
  <2>1. Probe!Room \in Nat
    BY DEF Probe!Room
  <2> QED
    BY <2>1 DEF EventsFollow, Succeeds
<1>4. SeenIsPast
  BY DEF SeenIsPast
<1> QED
  BY <1>1, <1>2, <1>3, <1>4 DEF ProbeInv

LEMMA ProbeInvIsFaithful ==
  ASSUME ProbeBounds, ProbeInv
  PROVE  Probe!TraceIsWhole /\ Probe!EventsAreCounted /\ Probe!IdentitiesRise
<1>1. ASSUME probePc = "done", probeExit = 0
      PROVE  /\ files = {"tokens", "performance"} /\ ~lost
             /\ Succeeds /\ Observed = Rows(Probe!Forwards)
  <2>1. /\ Exits /\ Succeeds /\ files = {"tokens", "performance"} /\ position + 1 = Probe!Forwards
        /\ position \in Nat /\ ~lost
    BY <1>1 DEF ProbeInv, ProbeIsTyped, PlacesFollow, EventsFollow, Exits, Succeeds
  <2>2. Rows(position + 1) \in Nat
    BY <2>1, RowsGrow
  <2>3. Observed = Rows(position + 1)
    BY <1>1, <2>2 DEF Observed, Finished
  <2> QED
    BY <2>1, <2>3
<1>2. Probe!TraceIsWhole
  <2>1. Probe!Expected = Lines(Rows(Probe!Forwards))
    BY DEF Probe!Expected, Lines, Rows
  <2>2. Succeeds /\ Full /\ ~refused => trace = Lines(Observed)
    BY DEF ProbeInv, ProbeIsTyped, EventsFollow
  <2> QED
    BY <1>1, <2>1, <2>2 DEF Probe!TraceIsWhole, Probe!Done, Full
<1>3. Probe!EventsAreCounted
  <2>1. count <= Probe!Room \/ tracing \in {"counter", "boundary"}
    BY DEF ProbeInv, EventsFollow
  <2>2. tracing = "metadata" => ~lost
    BY DEF ProbeInv, EventsFollow
  <2>3. probePc = "done" /\ probeExit = 0 /\ tracing \in {"metadata", "ids", "boundary"} => count = Rows(Probe!Forwards)
    BY <1>1 DEF ProbeInv, EventsFollow
  <2> QED
    BY <2>1, <2>2, <2>3 DEF Probe!EventsAreCounted, Probe!Done, Rows
<1>4. Probe!IdentitiesRise
  <2>1. ASSUME probePc = "graph", Probe!Phase = "decode", Full PROVE identity = position - Prompt
    <3>1. identity = decodeId /\ decodeId = (IF position > Prompt THEN position - Prompt ELSE 0) /\ ~(position < Prompt)
      BY <2>1 DEF ProbeInv, SeenIsPast, EventsFollow, Succeeds, Finished, Passing, Probe!Phase
    <3> QED
      BY <3>1, ProbeNumbers DEF ProbeInv, ProbeIsTyped
  <2> QED
    BY <2>1 DEF Probe!IdentitiesRise, ProbeInv, SeenIsPast, Full
<1> QED
  BY <1>2, <1>3, <1>4

-----------------------------------------------------------------------------
(* The expert island: its inductive invariant *)

Held == 1..Len(shadows)
Queued == 1..Len(work)
Ops ==
    [op : {"load"}, of : Static!Pieces]
    \cup [op : {"copy"}, of : Static!Pieces, run : Static!BankSlots \X Static!BankSlots, at : Nat]
    \cup [op : {"multiply"}, of : Static!Pieces, ids : SUBSET Static!BankSlots, at : Nat]
Routings == [layer : 1..ModelLayers, ids : SUBSET Static!BankSlots]

IslandIsTyped ==
    /\ host \in {"new", "created", "idle", "split", "alloc", "begin", "input", "launch", "aborted", "failed"}
    /\ graphs \in Nat /\ graph \in [kind : {"prompt", "decode"}, allocated : BOOLEAN]
    /\ todo \in Seq(Static!Pieces) /\ work \in Seq(Ops)
    /\ shadows \in Seq([source : Static!OnIsland, loaded : BOOLEAN])
    /\ routed \in Routings \cup {Static!Nothing} /\ known \in Routings \cup {Static!Nothing}
    /\ resident \subseteq Static!Pieces /\ staging \in [Static!BankSlots -> Static!Pieces \cup {None}]
    /\ place \in Nat /\ loads \in [Static!Pieces -> Nat] /\ wrong \in BOOLEAN

(* From the first reservation on, the table has all of the island, once. *)
TableIsWhole ==
    /\ \A i, j \in Held : shadows[i].source = shadows[j].source => i = j
    /\ host \in {"new", "created"} => shadows = <<>>
    /\ host \in {"new", "created", "aborted", "failed"} => graphs = 0
    /\ host \notin {"new", "created", "aborted", "failed"} => Static!OnIsland \subseteq Static!Sources
    /\ Len(shadows) <= MaxShadows

(* What the table calls loaded was loaded once, or will have been. *)
LoadsAreMarked ==
    /\ \A t \in Static!Pieces : loads[t] # 0 =>
          loads[t] = 1 /\ \E i \in Held : shadows[i].source = t /\ shadows[i].loaded
    /\ \A i \in Held : shadows[i].loaded =>
          \/ shadows[i].source \in resident
          \/ \E k \in Queued : work[k].op = "load" /\ work[k].of = shadows[i].source

(* The layers of a graph come one after the other. *)
LayersFollow ==
    /\ \A i, j \in 1..Len(todo) : i < j => todo[i][1] <= todo[j][1]
    /\ routed # Static!Nothing => \A i \in 1..Len(todo) : routed.layer <= todo[i][1]
    /\ known # Static!Nothing => routed # Static!Nothing /\ (known = routed \/ known.layer < routed.layer)
    /\ host \in {"input", "launch"} => todo # <<>>
    /\ host = "launch" => routed.layer = todo[1][1]

(* Operation n will find the chosen experts of tensor t. *)
Finds(n, t, ids) ==
    IF t[1] \in Static!Island
    THEN t \in resident \/ \E k \in 1..(n - 1) : work[k].op = "load" /\ work[k].of = t
    ELSE /\ \A k \in 1..(n - 1) : work[k].op = "copy" /\ work[k].of = t /\ work[k].run[2] + 1 \notin ids
         /\ \A s \in ids : staging[s] = t \/ \E k \in 1..(n - 1) : s \in work[k].run[1]..work[k].run[2]

OperandsCome ==
    /\ \A k \in Queued : work[k].op = "multiply" =>
          Finds(k, work[k].of, work[k].ids) /\ (work[k].of[1] \notin Static!Island => work[k].at = place)
    /\ host = "launch" => Finds(Len(work) + 1, todo[1], routed.ids)

IslandInv == IslandIsTyped /\ TableIsWhole /\ LoadsAreMarked /\ LayersFollow /\ OperandsCome /\ ~wrong

-----------------------------------------------------------------------------
(* The tensors of a graph, in order *)

IslandBounds == Static!ExpertIslandAssumption

LEMMA IslandNumbers ==
  ASSUME IslandBounds
  PROVE  /\ ModelLayers \in Nat /\ Weights \in Nat /\ Bank \in Nat /\ MaxShadows \in Nat /\ MaxLayers \in Nat
         /\ None \notin 1..ModelLayers
  BY DEF IslandBounds, Static!ExpertIslandAssumption

(* A set of numbers has a smallest one. *)
LEMMA SmallestNumber ==
  ASSUME NEW S, S \subseteq Nat, S # {}
  PROVE  \E m \in S : \A n \in S : m <= n
<1> DEFINE Less == {ss \in Nat \X Nat : ss[1] < ss[2]}
<1>1. IsWellFoundedOn(Less, Nat)
  BY NatLessThanWellFounded DEF OpToRel
<1>2. PICK m \in S : \A n \in S : <<n, m>> \notin Less
  <2> HIDE DEF Less
  <2> QED
    BY <1>1, WFMin
<1>3. \A n \in S : ~(n < m)
  BY <1>2
<1> QED
  BY <1>3

LEMMA IslandCardinality == \A S : Static!Cardinality(S) = Cardinality(S)
  BY DEF Static!Cardinality, Cardinality

Before(a, b) == a[1] < b[1] \/ (a[1] = b[1] /\ a[2] < b[2])
Sorted(s)    == \A i, j \in DOMAIN s : i < j => Before(s[i], s[j])

LEMMA PiecesAreFinite == ASSUME IslandBounds PROVE IsFiniteSet(Static!Pieces)
<1>1. IsFiniteSet(1..ModelLayers) /\ IsFiniteSet(1..Weights)
  BY IslandNumbers, FS_Interval
<1> QED
  BY <1>1, FS_Product DEF Static!Pieces

(* Of some tensors one is the first. *)
LEMMA FirstPiece ==
  ASSUME IslandBounds, NEW S \in SUBSET Static!Pieces, S # {}
  PROVE  \E m \in S : \A t \in S \ {m} : Before(m, t)
<1>1. \A t \in S : t = <<t[1], t[2]>> /\ t[1] \in Nat /\ t[2] \in Nat
  BY IslandNumbers DEF Static!Pieces
<1>2. PICK l \in {t[1] : t \in S} : \A t \in S : l <= t[1]
  <2>1. {t[1] : t \in S} \subseteq Nat /\ {t[1] : t \in S} # {}
    BY <1>1
  <2> HIDE DEF Static!Pieces
  <2>2. \E m \in {t[1] : t \in S} : \A n \in {t[1] : t \in S} : m <= n
    BY <2>1, SmallestNumber
  <2> QED
    BY <2>2
<1> DEFINE In == {t \in S : t[1] = l}
<1>3. PICK w \in {t[2] : t \in In} : \A t \in In : w <= t[2]
  <2>1. {t[2] : t \in In} \subseteq Nat /\ {t[2] : t \in In} # {}
    BY <1>1, <1>2
  <2>2. \E m \in {t[2] : t \in In} : \A n \in {t[2] : t \in In} : m <= n
    BY <2>1, SmallestNumber
  <2> QED
    BY <2>2
<1>4. PICK m \in S : m[1] = l /\ m[2] = w
  BY <1>3
<1>5. ASSUME NEW t \in S \ {m} PROVE Before(m, t)
  <2>1. t \in S /\ t # m /\ t[1] \in Nat /\ t[2] \in Nat /\ m[1] \in Nat /\ m[2] \in Nat
    BY <1>1, <1>5
  <2>2. l <= t[1] /\ (t[1] = l => w <= t[2])
    BY <1>2, <1>3, <2>1
  <2>3. ~(t[1] = l /\ t[2] = w)
    BY <1>1, <1>4, <2>1
  <2> QED
    BY <1>4, <2>1, <2>2, <2>3 DEF Before
<1> QED
  BY <1>5

(* Any tensors can be put in order: remove the first of a smallest set that cannot. *)
LEMMA OrderExists ==
  ASSUME IslandBounds, NEW S \in SUBSET Static!Pieces
  PROVE  \E s \in [1..Cardinality(S) -> S] : Sorted(s)
<1> DEFINE Ordered(T) == \E s \in [1..Cardinality(T) -> T] : Sorted(s)
           Bad == {T \in SUBSET Static!Pieces : ~Ordered(T)}
<1>1. \A T \in SUBSET Static!Pieces : IsFiniteSet(T) /\ Cardinality(T) \in Nat
  BY PiecesAreFinite, FS_Subset, FS_CardinalityType
<1>2. SUFFICES ASSUME Bad # {} PROVE FALSE
  BY <1>2
<1>3. PICK T \in Bad : \A U \in Bad : Cardinality(T) <= Cardinality(U)
  <2> DEFINE Sizes == {Cardinality(U) : U \in Bad}
  <2>1. Sizes \subseteq Nat /\ Sizes # {}
    BY <1>1, <1>2
  <2> HIDE DEF Bad
  <2>2. PICK m \in Sizes : \A n \in Sizes : m <= n
    <3> HIDE DEF Sizes
    <3> QED
      BY <2>1, SmallestNumber
  <2> QED
    BY <2>2
<1>4. T \in SUBSET Static!Pieces /\ ~Ordered(T) /\ IsFiniteSet(T) /\ Cardinality(T) \in Nat
  BY <1>1
<1>5. T # {}
  <2> SUFFICES ASSUME T = {} PROVE FALSE
    OBVIOUS
  <2>1. Cardinality(T) = 0
    BY FS_EmptySet
  <2>2. [i \in 1..0 |-> i] \in [1..0 -> {}] /\ Sorted([i \in 1..0 |-> i])
    BY DEF Sorted
  <2>3. Ordered(T)
    BY <2>1, <2>2
  <2> QED
    BY <2>3, <1>4
<1>6. PICK m \in T : \A t \in T \ {m} : Before(m, t)
  BY <1>4, <1>5, FirstPiece
<1> DEFINE Rest == T \ {m}
<1>7. Cardinality(Rest) \in Nat /\ Cardinality(T) = Cardinality(Rest) + 1 /\ Rest \in SUBSET Static!Pieces
  <2>1. Rest \in SUBSET Static!Pieces
    BY <1>4
  <2>2. Cardinality(Rest) = Cardinality(T) - 1
    BY <1>4, <1>6, FS_RemoveElement
  <2>3. Cardinality(Rest) \in Nat
    BY <1>1, <2>1
  <2> HIDE DEF Rest
  <2> QED
    BY <1>4, <2>1, <2>2, <2>3
<1>8. Ordered(Rest)
  <2>1. Rest \notin Bad
    <3>1. ~(Cardinality(T) <= Cardinality(Rest))
      <4> HIDE DEF Rest
      <4> QED
        BY <1>7
    <3> HIDE DEF Bad, Rest
    <3> QED
      BY <1>3, <3>1
  <2> QED
    BY <1>7, <2>1
<1>9. PICK r \in [1..Cardinality(Rest) -> Rest] : Sorted(r)
  BY <1>8
<1> HIDE DEF Rest
<1> DEFINE s == [i \in 1..Cardinality(T) |-> IF i = 1 THEN m ELSE r[i - 1]]
<1>10. s \in [1..Cardinality(T) -> T]
  <2>1. Rest \subseteq T
    BY DEF Rest
  <2>2. \A i \in 1..Cardinality(T) : i # 1 => i - 1 \in 1..Cardinality(Rest)
    BY <1>7
  <2>3. \A i \in 1..Cardinality(T) : i # 1 => r[i - 1] \in T
    BY <1>9, <2>1, <2>2
  <2> QED
    BY <1>6, <2>3
<1>11. ASSUME NEW i \in 1..Cardinality(T), NEW j \in 1..Cardinality(T), i < j PROVE Before(s[i], s[j])
  <2>1. j - 1 \in 1..Cardinality(Rest) /\ s[j] = r[j - 1] /\ r[j - 1] \in Rest
    <3>1. j # 1 /\ j - 1 \in 1..Cardinality(Rest)
      BY <1>7, <1>11
    <3> QED
      BY <1>9, <3>1
  <2>2. CASE i = 1
    BY <2>1, <2>2, <1>6 DEF Rest
  <2>3. CASE i # 1
    <3>1. i - 1 \in 1..Cardinality(Rest) /\ s[i] = r[i - 1] /\ i - 1 < j - 1
      BY <1>7, <1>11, <2>3
    <3> QED
      BY <1>9, <2>1, <3>1 DEF Sorted
  <2> QED
    BY <2>2, <2>3
<1>12. Ordered(T)
  BY <1>10, <1>11 DEF Sorted
<1> QED
  BY <1>4, <1>12

(* InOrder(S) is a sequence of all of S, in order. *)
LEMMA InOrderIsSorted ==
  ASSUME IslandBounds, NEW S \in SUBSET Static!Pieces
  PROVE  /\ Static!InOrder(S) \in Seq(S) /\ Sorted(Static!InOrder(S))
         /\ {Static!InOrder(S)[i] : i \in 1..Len(Static!InOrder(S))} = S
<1> DEFINE s == Static!InOrder(S)
<1>1. IsFiniteSet(S) /\ Cardinality(S) \in Nat
  BY PiecesAreFinite, FS_Subset, FS_CardinalityType
<1>2. s \in [1..Cardinality(S) -> S] /\ Sorted(s)
  BY OrderExists, IslandCardinality DEF Static!InOrder, Sorted, Before
<1> HIDE DEF s
<1>3. s \in Seq(S) /\ Len(s) = Cardinality(S)
  BY <1>1, <1>2
<1>4. \A i, j \in 1..Cardinality(S) : s[i] = s[j] => i = j
  <2>1. \A t \in S : t[1] \in Nat /\ t[2] \in Nat
    BY IslandNumbers DEF Static!Pieces
  <2>2. ASSUME NEW i \in 1..Cardinality(S), NEW j \in 1..Cardinality(S), s[i] = s[j], i < j PROVE FALSE
    <3>1. Before(s[i], s[i]) /\ s[i] \in S
      BY <1>2, <2>2 DEF Sorted
    <3> QED
      BY <2>1, <3>1 DEF Before
  <2> QED
    BY <1>1, <2>2
<1>5. s \in Injection(1..Cardinality(S), S)
  BY <1>2, <1>4 DEF Injection, IsInjective
<1>6. Cardinality(1..Cardinality(S)) = Cardinality(S)
  BY <1>1, FS_Interval
<1>7. s \in Surjection(1..Cardinality(S), S)
  BY <1>1, <1>5, <1>6, FS_Injection
<1>8. \A t \in S : \E i \in 1..Cardinality(S) : s[i] = t
  BY <1>7 DEF Surjection
<1>9. {s[i] : i \in 1..Len(s)} = S
  BY <1>2, <1>3, <1>8
<1> QED
  BY <1>2, <1>3, <1>9 DEF s

(* What is copied for a tensor covers the experts that were chosen. *)
LEMMA RunsCover ==
  ASSUME IslandBounds, NEW ids \in SUBSET Static!BankSlots, NEW s \in ids
  PROVE  \E r \in Static!Runs(ids) : s \in r[1]..r[2]
<1> DEFINE Low  == {a \in Nat : a <= s /\ a..s \subseteq ids}
           High == {c \in Nat : \E b \in Nat : b >= s /\ b < Bank /\ s..b \subseteq ids /\ c = Bank - b}
<1>1. ids \subseteq Nat /\ s \in Nat /\ \A x \in ids : x < Bank
  BY IslandNumbers DEF Static!BankSlots
<1>2. PICK a \in Low : \A x \in Low : a <= x
  <2>1. s..s \subseteq ids
    BY <1>1
  <2>2. s \in Low
    BY <1>1, <2>1
  <2> QED
    BY <2>2, SmallestNumber
<1>3. PICK c \in High : \A x \in High : c <= x
  <2>1. s..s \subseteq ids /\ s < Bank
    BY <1>1
  <2>2. Bank - s \in High
    BY <1>1, <2>1, IslandNumbers
  <2> HIDE DEF High
  <2>3. High \subseteq Nat
    BY DEF High
  <2> QED
    BY <2>2, <2>3, SmallestNumber
<1>4. PICK b \in Nat : b >= s /\ b < Bank /\ s..b \subseteq ids /\ c = Bank - b
  BY <1>3
<1>5. a \in Nat /\ a <= s /\ a..s \subseteq ids
  BY <1>2
<1>6. a - 1 \notin ids
  <2> SUFFICES ASSUME a - 1 \in ids PROVE FALSE
    OBVIOUS
  <2>1. a - 1 \in Nat /\ a - 1 <= s
    BY <1>1, <1>5
  <2>2. (a - 1)..s \subseteq ids
    <3>1. \A x \in (a - 1)..s : x = a - 1 \/ x \in a..s
      BY <1>1, <1>5
    <3> QED
      BY <1>5, <3>1
  <2>3. a <= a - 1
    BY <1>2, <2>1, <2>2
  <2> QED
    BY <1>5, <2>3
<1>7. b + 1 \notin ids
  <2> SUFFICES ASSUME b + 1 \in ids PROVE FALSE
    OBVIOUS
  <2>1. b + 1 \in Nat /\ b + 1 >= s /\ b + 1 < Bank
    BY <1>1, <1>4
  <2>2. s..(b + 1) \subseteq ids
    <3>1. \A x \in s..(b + 1) : x = b + 1 \/ x \in s..b
      BY <1>1, <1>4
    <3> QED
      BY <1>4, <3>1
  <2>3. Bank - (b + 1) \in High
    BY <2>1, <2>2, IslandNumbers
  <2>4. c <= Bank - (b + 1)
    BY <1>3, <2>3
  <2> QED
    BY <1>4, <2>4, IslandNumbers
<1>8. a..b \subseteq ids /\ s \in a..b
  <2>1. \A x \in a..b : x \in a..s \/ x \in s..b
    BY <1>1, <1>4, <1>5
  <2> QED
    BY <1>1, <1>4, <1>5, <2>1
<1>9. a \in Static!BankSlots /\ b \in Static!BankSlots
  BY <1>1, <1>4, <1>5, IslandNumbers DEF Static!BankSlots
<1> HIDE DEF Low, High
<1>10. <<a, b>> \in Static!Runs(ids)
  BY <1>6, <1>7, <1>8, <1>9 DEF Static!Runs
<1> QED
  BY <1>8, <1>10

LEMMA SequenceOfSet ==
  ASSUME NEW S, IsFiniteSet(S)
  PROVE  /\ Static!SetToSeq(S) \in Seq(S)
         /\ {Static!SetToSeq(S)[i] : i \in 1..Len(Static!SetToSeq(S))} = S
<1> DEFINE f == Static!SetToSeq(S)
<1>1. Cardinality(S) \in Nat /\ ExistsBijection(1..Cardinality(S), S)
  BY FS_CardinalityType
<1>2. \E g \in [1..Cardinality(S) -> S] : \A a, b \in DOMAIN g : g[a] = g[b] => a = b
  BY <1>1 DEF ExistsBijection, Bijection, Injection, IsInjective
<1>3. f \in [1..Cardinality(S) -> S] /\ \A a, b \in DOMAIN f : f[a] = f[b] => a = b
  BY <1>2, IslandCardinality DEF Static!SetToSeq, Static!IsInjective
<1> HIDE DEF f
<1>4. f \in Injection(1..Cardinality(S), S)
  BY <1>3 DEF Injection, IsInjective
<1>5. Cardinality(1..Cardinality(S)) = Cardinality(S)
  BY <1>1, FS_Interval
<1>6. f \in Surjection(1..Cardinality(S), S)
  BY <1>4, <1>5, FS_Injection
<1>7. \A t \in S : \E i \in 1..Cardinality(S) : f[i] = t
  BY <1>6 DEF Surjection
<1>8. f \in Seq(S) /\ Len(f) = Cardinality(S)
  BY <1>1, <1>3
<1>9. {f[i] : i \in 1..Len(f)} = S
  BY <1>3, <1>7, <1>8
<1> QED
  BY <1>8, <1>9 DEF f

(* The copies that are enqueued for the experts of a tensor. *)
Copies(t, ids) == Static!SetToSeq({[op |-> "copy", of |-> t, run |-> r, at |-> place] : r \in Static!Groups(ids)})
Bring(q, t, ids) ==
    /\ q \in Seq(Ops)
    /\ \A k \in 1..Len(q) : q[k].op = "copy" /\ q[k].of = t /\ q[k].run[2] + 1 \notin ids
    /\ \A s \in ids : \E k \in 1..Len(q) : s \in q[k].run[1]..q[k].run[2]

LEMMA CopiesAreQueued ==
  ASSUME IslandBounds, NEW t \in Static!Pieces, NEW ids \in SUBSET Static!BankSlots, place \in Nat
  PROVE  Bring(Copies(t, ids), t, ids)
<1> SUFFICES ASSUME NEW q,
                    q = Static!SetToSeq({[op |-> "copy", of |-> t, run |-> r, at |-> place] : r \in Static!Groups(ids)})
             PROVE  /\ q \in Seq(Ops)
                    /\ \A k \in 1..Len(q) : q[k].op = "copy" /\ q[k].of = t /\ q[k].run[2] + 1 \notin ids
                    /\ \A s \in ids : \E k \in 1..Len(q) : s \in q[k].run[1]..q[k].run[2]
  BY DEF Copies, Bring
<1> DEFINE C(r) == [op |-> "copy", of |-> t, run |-> r, at |-> place]
           S == {C(r) : r \in Static!Groups(ids)}
<1>1. Static!Groups(ids) = Static!Runs(ids)
  BY DEF Static!Groups
<1>2. \A r \in Static!Runs(ids) : r \in Static!BankSlots \X Static!BankSlots /\ r[2] + 1 \notin ids
  BY DEF Static!Runs
<1>3. IsFiniteSet(Static!Runs(ids))
  <2>1. IsFiniteSet(Static!BankSlots)
    BY IslandNumbers, FS_Interval DEF Static!BankSlots
  <2>2. IsFiniteSet(Static!BankSlots \X Static!BankSlots)
    BY <2>1, FS_Product
  <2> QED
    BY <1>2, <2>2, FS_Subset
<1>4. IsFiniteSet(S)
  <2> DEFINE f == [r \in Static!Runs(ids) |-> C(r)]
  <2>1. f \in Surjection(Static!Runs(ids), S)
    BY <1>1 DEF Surjection
  <2> QED
    BY <1>3, <2>1, FS_Surjection
<1>5. q \in Seq(S) /\ {q[i] : i \in 1..Len(q)} = S
  <2>1. q = Static!SetToSeq(S)
    OBVIOUS
  <2> HIDE DEF S
  <2>2. /\ Static!SetToSeq(S) \in Seq(S)
        /\ {Static!SetToSeq(S)[i] : i \in 1..Len(Static!SetToSeq(S))} = S
    BY <1>4, SequenceOfSet
  <2> QED
    BY <2>1, <2>2
<1>6. \A o \in S : \E r \in Static!Runs(ids) : o = C(r)
  BY <1>1
<1>7. S \subseteq Ops
  BY <1>2, <1>6 DEF Ops
<1>8. \A k \in 1..Len(q) : q[k] \in S
  BY <1>5
<1>9. \A r \in Static!Runs(ids) : \E k \in 1..Len(q) : q[k] = C(r)
  <2>1. \A r \in Static!Runs(ids) : C(r) \in S
    BY <1>1
  <2> HIDE DEF S, C
  <2> QED
    BY <1>5, <2>1
<1>10. q \in Seq(Ops)
  BY <1>5, <1>7
<1>11. \A k \in 1..Len(q) : q[k].op = "copy" /\ q[k].of = t /\ q[k].run[2] + 1 \notin ids
  <2> TAKE k \in 1..Len(q)
  <2>1. PICK r \in Static!Runs(ids) : q[k] = C(r)
    BY <1>6, <1>8
  <2>2. q[k].op = "copy" /\ q[k].of = t /\ q[k].run = r
    BY <2>1
  <2> QED
    BY <1>2, <2>2
<1>12. ASSUME NEW s \in ids PROVE \E k \in 1..Len(q) : s \in q[k].run[1]..q[k].run[2]
  <2>1. PICK r \in Static!Runs(ids) : s \in r[1]..r[2]
    BY RunsCover
  <2>2. PICK k \in 1..Len(q) : q[k] = C(r)
    BY <1>9
  <2>3. q[k].run = r
    BY <2>2
  <2> QED
    BY <2>1, <2>3
<1> QED
  BY <1>10, <1>11, <1>12

-----------------------------------------------------------------------------
(* The expert island: its steps *)

LEMMA IslandInit == ASSUME IslandBounds, Static!Init PROVE IslandInv
<1> USE IslandNumbers DEF Static!Init
<1>1. IslandIsTyped
  <2>1. graph \in [kind : {"prompt", "decode"}, allocated : BOOLEAN]
    OBVIOUS
  <2>2. staging \in [Static!BankSlots -> Static!Pieces \cup {None}] /\ loads \in [Static!Pieces -> Nat]
    BY DEF Static!Empty
  <2>3. todo \in Seq(Static!Pieces) /\ work \in Seq(Ops)
    OBVIOUS
  <2>4. shadows \in Seq([source : Static!OnIsland, loaded : BOOLEAN])
    OBVIOUS
  <2> QED
    BY <2>1, <2>2, <2>3, <2>4 DEF IslandIsTyped
<1>2. TableIsWhole
  BY DEF TableIsWhole, Held
<1>3. LoadsAreMarked
  BY DEF LoadsAreMarked, Held
<1>4. LayersFollow
  BY DEF LayersFollow
<1>5. OperandsCome
  BY DEF OperandsCome, Queued
<1> QED
  BY <1>1, <1>2, <1>3, <1>4, <1>5 DEF IslandInv

(* The table gets what it has not. *)
LEMMA TableGrows ==
  ASSUME IslandBounds, IslandInv, Static!Shadowed, UNCHANGED setting
  PROVE  /\ shadows' \in Seq([source : Static!OnIsland, loaded : BOOLEAN])
         /\ Len(shadows) <= Len(shadows') /\ Len(shadows') <= MaxShadows
         /\ \A i \in Held : shadows'[i] = shadows[i]
         /\ \A i \in (1..Len(shadows')) \ Held : ~shadows'[i].loaded
         /\ \A i, j \in 1..Len(shadows') : shadows'[i].source = shadows'[j].source => i = j
         /\ Static!OnIsland \subseteq Static!Sources'
<1> DEFINE m == Static!Missing
           new == [i \in 1..Len(m) |-> [source |-> m[i], loaded |-> FALSE]]
           S == Static!OnIsland \ Static!Sources
<1>1. S \in SUBSET Static!Pieces
  BY DEF Static!OnIsland
<1>2. m \in Seq(S) /\ Sorted(m) /\ {m[i] : i \in 1..Len(m)} = S
  BY <1>1, InOrderIsSorted DEF Static!Missing
<1>3. DOMAIN m = 1..Len(m) /\ Len(m) \in Nat
  BY <1>2
<1>4. shadows' = shadows \o new /\ Len(shadows) + Len(m) <= MaxShadows
  BY <1>3 DEF Static!Shadowed
<1>5. \A i, j \in 1..Len(m) : m[i] = m[j] => i = j
  <2>1. \A t \in S : t[1] \in Nat /\ t[2] \in Nat
    BY <1>1, IslandNumbers DEF Static!Pieces
  <2>2. ASSUME NEW i \in 1..Len(m), NEW j \in 1..Len(m), m[i] = m[j], i < j PROVE FALSE
    <3>1. Before(m[i], m[i]) /\ m[i] \in S
      BY <1>2, <1>3, <2>2 DEF Sorted
    <3> QED
      BY <2>1, <3>1 DEF Before
  <2> QED
    BY <1>3, <2>2
<1>6. shadows \in Seq([source : Static!OnIsland, loaded : BOOLEAN])
  BY DEF IslandInv, IslandIsTyped
<1> HIDE DEF m
<1>7. new \in Seq([source : S, loaded : BOOLEAN]) /\ Len(new) = Len(m)
  <2>1. \A i \in 1..Len(m) : m[i] \in S
    BY <1>2
  <2> QED
    BY <1>3, <2>1
<1>8. Len(shadows') = Len(shadows) + Len(m) /\ Len(shadows) \in Nat
  BY <1>4, <1>6, <1>7
<1>9. \A i \in 1..Len(shadows') : shadows'[i] = IF i <= Len(shadows) THEN shadows[i] ELSE new[i - Len(shadows)]
  BY <1>4, <1>6, <1>7, <1>8
<1>10. \A i \in (1..Len(shadows')) \ Held :
          i - Len(shadows) \in 1..Len(m) /\ shadows'[i].source = m[i - Len(shadows)] /\ ~shadows'[i].loaded
                   /\ shadows'[i].source \in S
  <2> TAKE i \in (1..Len(shadows')) \ Held
  <2>1. i - Len(shadows) \in 1..Len(m) /\ ~(i <= Len(shadows))
    BY <1>3, <1>8 DEF Held
  <2>2. shadows'[i] = [source |-> m[i - Len(shadows)], loaded |-> FALSE] /\ m[i - Len(shadows)] \in S
    BY <1>2, <1>9, <2>1
  <2> QED
    BY <2>1, <2>2
<1>11. \A i \in Held : i \in 1..Len(shadows') /\ shadows'[i] = shadows[i] /\ shadows[i].source \in Static!Sources
  <2>1. DOMAIN shadows = Held
    BY <1>6 DEF Held
  <2>2. \A i \in Held : i \in 1..Len(shadows') /\ i <= Len(shadows)
    BY <1>3, <1>8 DEF Held
  <2>3. \A i \in Held : shadows[i].source \in Static!Sources
    BY <2>1 DEF Static!Sources
  <2> HIDE DEF new
  <2> QED
    BY <1>9, <2>2, <2>3
<1>12. \A i, j \in 1..Len(shadows') : shadows'[i].source = shadows'[j].source => i = j
  <2> TAKE i, j \in 1..Len(shadows')
  <2> HAVE shadows'[i].source = shadows'[j].source
  <2>1. CASE i \in Held /\ j \in Held
    BY <2>1, <1>11 DEF IslandInv, TableIsWhole
  <2>2. CASE i \in Held /\ j \notin Held
    BY <2>2, <1>10, <1>11
  <2>3. CASE i \notin Held /\ j \in Held
    BY <2>3, <1>10, <1>11
  <2>4. CASE i \notin Held /\ j \notin Held
    <3>1. i - Len(shadows) = j - Len(shadows)
      BY <2>4, <1>5, <1>10
    <3> QED
      BY <3>1, <1>8
  <2> QED
    BY <2>1, <2>2, <2>3, <2>4
<1>13. shadows' \in Seq([source : Static!OnIsland, loaded : BOOLEAN])
  <2>1. new \in Seq([source : Static!OnIsland, loaded : BOOLEAN])
    <3>1. \A i \in 1..Len(m) : m[i] \in Static!OnIsland
      BY <1>2
    <3> QED
      BY <1>3, <3>1
  <2> HIDE DEF new
  <2> QED
    BY <1>4, <1>6, <2>1
<1>14. ASSUME NEW t \in Static!OnIsland PROVE t \in Static!Sources'
  <2>1. DOMAIN shadows' = 1..Len(shadows')
    BY <1>13
  <2>2. PICK i \in 1..Len(shadows') : shadows'[i].source = t
    <3>1. CASE t \in Static!Sources
      <4>1. PICK i \in DOMAIN shadows : shadows[i].source = t
        BY <3>1 DEF Static!Sources
      <4>2. i \in Held
        BY <1>6, <4>1 DEF Held
      <4> QED
        BY <4>1, <4>2, <1>11
    <3>2. CASE t \notin Static!Sources
      <4>1. PICK k \in 1..Len(m) : m[k] = t
        BY <3>2, <1>2
      <4>2. k + Len(shadows) \in (1..Len(shadows')) \ Held /\ (k + Len(shadows)) - Len(shadows) = k
        BY <1>3, <1>8 DEF Held
      <4> QED
        BY <4>1, <4>2, <1>10
    <3> QED
      BY <3>1, <3>2
  <2> QED
    BY <2>1, <2>2 DEF Static!Sources
<1>15. Static!OnIsland' = Static!OnIsland
  BY DEF Static!OnIsland, Static!Island, Static!Range
<1>16. Len(shadows) <= Len(shadows') /\ Len(shadows') <= MaxShadows
  BY <1>3, <1>4, <1>8
<1>17. Static!OnIsland \subseteq Static!Sources'
  BY <1>14
<1> HIDE DEF new
<1> QED
  BY <1>10, <1>11, <1>12, <1>13, <1>16, <1>17

(* Steps that leave the table and the device alone. *)
LEMMA DeviceStays ==
  ASSUME IslandInv, UNCHANGED <<setting, shadows, work, resident, staging, place, loads>>
  PROVE  /\ LoadsAreMarked'
         /\ \A k \in Queued' : work'[k].op = "multiply" =>
               Finds(k, work[k].of, work[k].ids)' /\ (work'[k].of[1] \notin Static!Island' => work'[k].at = place')
<1>1. LoadsAreMarked'
  BY DEF IslandInv, LoadsAreMarked, Held, Queued
<1>2. \A k \in Queued' : work'[k].op = "multiply" =>
          Finds(k, work[k].of, work[k].ids)' /\ (work'[k].of[1] \notin Static!Island' => work'[k].at = place')
  BY DEF IslandInv, OperandsCome, Queued, Finds, Static!Island, Static!Range
<1> QED
  BY <1>1, <1>2

LEMMA ConfigureStep == ASSUME IslandBounds, IslandInv, Static!Configure PROVE IslandInv'
<1> USE DEF Static!Configure, Static!queueVars, Static!deviceVars
<1>1. IslandIsTyped'
  BY DEF IslandInv, IslandIsTyped, Static!OnIsland, Static!Island, Static!Range
<1>2. TableIsWhole'
  BY DEF IslandInv, TableIsWhole, Held
<1>3. LayersFollow'
  BY DEF IslandInv, LayersFollow
<1>4. LoadsAreMarked' /\ OperandsCome'
  BY DeviceStays DEF OperandsCome
<1> QED
  BY <1>1, <1>2, <1>3, <1>4 DEF IslandInv

(* The table grew, the device is as it was. *)
LEMMA ShadowedStep ==
  ASSUME IslandBounds, IslandInv, Static!Shadowed, host' \in {"idle", "alloc"},
         UNCHANGED <<setting, graphs, graph, todo, routed, known, work, resident, staging, wrong, place, loads>>
  PROVE  IslandInv'
<1>1. /\ shadows' \in Seq([source : Static!OnIsland, loaded : BOOLEAN])
      /\ Len(shadows) <= Len(shadows') /\ Len(shadows') <= MaxShadows
      /\ \A i \in Held : shadows'[i] = shadows[i]
      /\ \A i \in (1..Len(shadows')) \ Held : ~shadows'[i].loaded
      /\ \A i, j \in 1..Len(shadows') : shadows'[i].source = shadows'[j].source => i = j
      /\ Static!OnIsland \subseteq Static!Sources'
  BY TableGrows
<1>2. Static!OnIsland' = Static!OnIsland /\ Static!Island' = Static!Island
  BY DEF Static!OnIsland, Static!Island, Static!Range
<1>3. IslandIsTyped'
  BY <1>1, <1>2 DEF IslandInv, IslandIsTyped
<1>4. TableIsWhole'
  BY <1>1, <1>2 DEF TableIsWhole, Held
<1>5. LoadsAreMarked'
  <2>1. Held \subseteq Held'
    <3>1. Len(shadows) \in Nat /\ Len(shadows') \in Nat
      BY <1>1 DEF IslandInv, IslandIsTyped
    <3> QED
      BY <1>1, <3>1 DEF Held
  <2>2. \A i \in Held' : shadows'[i].loaded => i \in Held /\ shadows'[i] = shadows[i]
    BY <1>1 DEF Held
  <2>3. \A t \in Static!Pieces : loads'[t] # 0 =>
            loads'[t] = 1 /\ \E i \in Held' : shadows'[i].source = t /\ shadows'[i].loaded
    BY <1>1, <2>1 DEF IslandInv, LoadsAreMarked
  <2>4. \A i \in Held' : shadows'[i].loaded =>
            \/ shadows'[i].source \in resident'
            \/ \E k \in Queued' : work'[k].op = "load" /\ work'[k].of = shadows'[i].source
    BY <2>2 DEF IslandInv, LoadsAreMarked, Queued
  <2> QED
    BY <2>3, <2>4 DEF LoadsAreMarked
<1>6. LayersFollow'
  BY DEF IslandInv, LayersFollow
<1>7. OperandsCome'
  BY <1>2 DEF IslandInv, OperandsCome, Queued, Finds
<1> QED
  BY <1>3, <1>4, <1>5, <1>6, <1>7 DEF IslandInv

LEMMA ReserveStep == ASSUME IslandBounds, IslandInv, Static!Reserve PROVE IslandInv'
<1> USE DEF Static!Reserve, Static!queueVars, Static!deviceVars
<1>1. CASE Static!Reserved /\ host' = "idle"
  BY <1>1, ShadowedStep DEF Static!Reserved
<1>2. CASE host' \in {"aborted", "failed"} /\ UNCHANGED shadows
  <2>1. IslandIsTyped'
    BY <1>2 DEF IslandInv, IslandIsTyped, Static!OnIsland, Static!Island, Static!Range
  <2>2. TableIsWhole' /\ LayersFollow'
    BY <1>2 DEF IslandInv, TableIsWhole, LayersFollow, Held
  <2>3. LoadsAreMarked' /\ OperandsCome'
    BY <1>2, DeviceStays DEF OperandsCome
  <2> QED
    BY <2>1, <2>2, <2>3 DEF IslandInv
<1> QED
  BY <1>1, <1>2

LEMMA SubmitStep == ASSUME IslandBounds, IslandInv, Static!Submit PROVE IslandInv'
<1> USE DEF Static!Submit, Static!deviceVars
<1>1. IslandIsTyped'
  <2>1. graph' \in [kind : {"prompt", "decode"}, allocated : BOOLEAN] /\ host' \in {"begin", "split"}
    OBVIOUS
  <2> QED
    BY <2>1 DEF IslandInv, IslandIsTyped, Static!OnIsland, Static!Island, Static!Range
<1>2. TableIsWhole' /\ LayersFollow'
  BY DEF IslandInv, TableIsWhole, LayersFollow, Held, Static!OnIsland, Static!Sources, Static!Island, Static!Range
<1>3. LoadsAreMarked' /\ OperandsCome'
  BY DeviceStays DEF OperandsCome
<1> QED
  BY <1>1, <1>2, <1>3 DEF IslandInv

(* With the whole island in the table, a split needs no more shadows. *)
LEMMA SplitStep == ASSUME IslandBounds, IslandInv, Static!Split PROVE IslandInv'
<1> USE DEF Static!Split, Static!queueVars, Static!deviceVars
<1>1. CASE Static!Shadowed /\ host' = "alloc"
  BY <1>1, ShadowedStep
<1>2. CASE Len(shadows) + Len(Static!Missing) > MaxShadows
  <2>1. Static!OnIsland \ Static!Sources = {}
    BY DEF IslandInv, TableIsWhole
  <2>2. Static!Missing \in Seq({}) /\ {Static!Missing[i] : i \in 1..Len(Static!Missing)} = {}
    <3>1. {} \in SUBSET Static!Pieces
      OBVIOUS
    <3> QED
      BY <2>1, <3>1, InOrderIsSorted DEF Static!Missing
  <2>3. Len(Static!Missing) = 0
    BY <2>2
  <2> QED
    BY <1>2, <2>3, IslandNumbers DEF IslandInv, TableIsWhole, IslandIsTyped
<1> QED
  BY <1>1, <1>2

LEMMA AllocStep == ASSUME IslandBounds, IslandInv, Static!Alloc PROVE IslandInv'
<1> USE DEF Static!Alloc
<1>0. graph' \in [kind : {"prompt", "decode"}, allocated : BOOLEAN] /\ host' \in {"begin", "idle"}
  BY DEF IslandInv, IslandIsTyped, Static!Fits
<1>1. CASE UNCHANGED <<place, staging>>
  <2>1. IslandIsTyped'
    BY <1>0, <1>1 DEF IslandInv, IslandIsTyped, Static!OnIsland, Static!Island, Static!Range, Static!Fits, Static!Moved
  <2>2. TableIsWhole' /\ LayersFollow'
    BY <1>1 DEF IslandInv, TableIsWhole, LayersFollow, Held, Static!OnIsland, Static!Sources, Static!Island,
                Static!Range, Static!Fits, Static!Moved
  <2>3. LoadsAreMarked' /\ OperandsCome'
    BY <1>1, DeviceStays DEF OperandsCome, Static!Fits, Static!Moved
  <2> QED
    BY <2>1, <2>2, <2>3 DEF IslandInv
<1>2. CASE Static!Moved /\ graph' = [graph EXCEPT !.allocated = TRUE] /\ host' = "begin"
  <2>1. IslandIsTyped'
    <3>1. staging' \in [Static!BankSlots -> Static!Pieces \cup {None}] /\ place' = place + 1
      BY <1>2 DEF Static!Moved, Static!Empty
    <3> QED
      BY <1>0, <1>2, <3>1 DEF IslandInv, IslandIsTyped, Static!OnIsland, Static!Island, Static!Range
  <2>2. TableIsWhole' /\ LayersFollow'
    BY <1>2 DEF IslandInv, TableIsWhole, LayersFollow, Held, Static!OnIsland, Static!Sources, Static!Island,
                Static!Range
  <2>3. work = <<>> /\ work' = <<>>
    BY <1>2 DEF Static!Moved, Static!Drained
  <2>4. LoadsAreMarked'
    BY <2>3 DEF IslandInv, LoadsAreMarked, Held, Queued
  <2>5. OperandsCome'
    BY <1>2, <2>3 DEF OperandsCome, Queued
  <2> QED
    BY <2>1, <2>2, <2>4, <2>5 DEF IslandInv
<1> QED
  BY <1>1, <1>2 DEF Static!Fits

LEMMA BeginStep == ASSUME IslandBounds, IslandInv, Static!Begin PROVE IslandInv'
<1> USE DEF Static!Begin, Static!deviceVars
<1>1. todo' \in Seq(Static!Pieces) /\ \A i, j \in 1..Len(todo') : i < j => todo'[i][1] <= todo'[j][1]
  <2> DEFINE S == IF graph.kind = "prompt" THEN Static!Pieces ELSE Static!OnIsland
  <2>1. S \in SUBSET Static!Pieces
    BY DEF Static!OnIsland
  <2>2. todo' = Static!InOrder(S)
    BY DEF Static!Pulled
  <2> HIDE DEF S
  <2>3. todo' \in Seq(S) /\ Sorted(todo')
    BY <2>1, <2>2, InOrderIsSorted
  <2>4. todo' \in Seq(Static!Pieces)
    BY <2>1, <2>3
  <2>5. \A t \in Static!Pieces : t[1] \in Nat
    BY IslandNumbers DEF Static!Pieces
  <2>6. \A i, j \in 1..Len(todo') : i < j => todo'[i][1] <= todo'[j][1]
    <3>1. \A i \in 1..Len(todo') : todo'[i][1] \in Nat
      BY <2>4, <2>5
    <3> QED
      BY <2>3, <2>4, <3>1 DEF Sorted, Before
  <2> QED
    BY <2>4, <2>6
<1>2. IslandIsTyped'
  BY <1>1 DEF IslandInv, IslandIsTyped, Static!OnIsland, Static!Island, Static!Range
<1>3. TableIsWhole'
  BY DEF IslandInv, TableIsWhole, Held, Static!OnIsland, Static!Sources, Static!Island, Static!Range
<1>4. LayersFollow'
  BY <1>1 DEF LayersFollow, Static!Nothing
<1>5. LoadsAreMarked' /\ OperandsCome'
  BY DeviceStays DEF OperandsCome
<1> QED
  BY <1>2, <1>3, <1>4, <1>5 DEF IslandInv

LEMMA HeadIsPiece ==
  ASSUME IslandBounds, IslandInv, todo # <<>>
  PROVE  /\ Head(todo) = todo[1] /\ todo[1] \in Static!Pieces /\ 1 \in 1..Len(todo)
         /\ todo[1][1] \in 1..ModelLayers
  BY DEF IslandInv, IslandIsTyped, Static!Pieces

LEMMA RouteStep == ASSUME IslandBounds, IslandInv, Static!Route PROVE IslandInv'
<1> USE DEF Static!Route, Static!deviceVars
<1>1. todo # <<>> /\ Head(todo) = todo[1] /\ todo[1][1] \in 1..ModelLayers /\ 1 \in 1..Len(todo)
  BY HeadIsPiece DEF IslandInv, LayersFollow
<1>2. routed' \in Routings /\ routed'.layer = todo[1][1]
  BY <1>1 DEF Routings
<1>3. IslandIsTyped'
  BY <1>2 DEF IslandInv, IslandIsTyped, Static!OnIsland, Static!Island, Static!Range
<1>4. TableIsWhole'
  BY DEF IslandInv, TableIsWhole, Held, Static!OnIsland, Static!Sources, Static!Island, Static!Range
<1>5. LayersFollow'
  <2>1. \A i \in 1..Len(todo) : todo[1][1] <= todo[i][1]
    <3>1. \A i \in 1..Len(todo) : i = 1 \/ 1 < i
      BY DEF IslandInv, IslandIsTyped
    <3> QED
      BY <1>1, <3>1, IslandNumbers DEF IslandInv, LayersFollow
  <2>2. routed' # Static!Nothing
    BY <1>1, <1>2, IslandNumbers DEF Static!Nothing
  <2>3. ASSUME known # Static!Nothing PROVE known.layer < routed'.layer
    <3>1. routed # Static!Nothing /\ (known = routed \/ known.layer < routed.layer) /\ routed.layer <= todo[1][1]
      BY <1>1, <2>3 DEF IslandInv, LayersFollow
    <3>2. routed \in Routings /\ known \in Routings
      BY <2>3, <3>1 DEF IslandInv, IslandIsTyped
    <3>3. routed.layer # todo[1][1] /\ routed.layer \in Nat /\ known.layer \in Nat
      BY <1>1, <3>2, IslandNumbers DEF Routings
    <3> QED
      BY <1>1, <1>2, <3>1, <3>3
  <2> QED
    BY <1>1, <1>2, <2>1, <2>2, <2>3 DEF IslandInv, LayersFollow
<1>6. LoadsAreMarked' /\ OperandsCome'
  BY DeviceStays DEF OperandsCome
<1> QED
  BY <1>3, <1>4, <1>5, <1>6 DEF IslandInv

(* An island tensor has its shadow, and only one. *)
LEMMA EntryIsFound ==
  ASSUME IslandBounds, IslandInv, host = "input", todo[1] \in Static!OnIsland, Head(todo) = todo[1]
  PROVE  Static!Entry \in Held /\ shadows[Static!Entry].source = todo[1]
<1>1. todo[1] \in Static!Sources
  BY DEF IslandInv, TableIsWhole
<1>2. DOMAIN shadows = Held
  BY DEF IslandInv, IslandIsTyped, Held
<1>3. \E i \in DOMAIN shadows : shadows[i].source = todo[1]
  BY <1>1 DEF Static!Sources
<1> QED
  BY <1>2, <1>3 DEF Static!Entry

LEMMA PreloadStep ==
  ASSUME IslandBounds, IslandInv, Static!Input, Static!Preload
  PROVE  IslandInv'
<1> USE DEF Static!Input, Static!Preload
<1>1. todo # <<>> /\ Head(todo) = todo[1] /\ todo[1] \in Static!Pieces /\ todo[1][1] \in Static!Island
  BY HeadIsPiece DEF IslandInv, LayersFollow
<1> DEFINE t == todo[1]
           e == Static!Entry
<1>2. t \in Static!OnIsland
  BY <1>1 DEF Static!OnIsland
<1>3. e \in Held /\ shadows[e].source = t
  BY <1>1, <1>2, EntryIsFound
<1>4. work = <<>> /\ routed.layer = t[1]
  BY <1>1 DEF Static!Drained
<1> HIDE DEF e
<1>5. shadows \in Seq([source : Static!OnIsland, loaded : BOOLEAN]) /\ DOMAIN shadows = Held
  BY DEF IslandInv, IslandIsTyped, Held
<1>6. Static!OnIsland' = Static!OnIsland /\ Static!Island' = Static!Island
  BY DEF Static!OnIsland, Static!Island, Static!Range
<1>7. LayersFollow'
  BY <1>1, <1>4 DEF IslandInv, LayersFollow
<1>8. CASE shadows[e].loaded
  <2>1. UNCHANGED <<shadows, work, loads, known>>
    BY <1>8 DEF e
  <2>2. t \in resident
    BY <1>3, <1>4, <1>8 DEF IslandInv, LoadsAreMarked, Queued
  <2>3. IslandIsTyped'
    BY <2>1, <1>6 DEF IslandInv, IslandIsTyped
  <2>4. TableIsWhole'
    BY <2>1, <1>6 DEF IslandInv, TableIsWhole, Held, Static!Sources
  <2>5. LoadsAreMarked'
    BY <2>1, DeviceStays
  <2>6. OperandsCome'
    BY <1>1, <1>4, <1>6, <2>1, <2>2 DEF OperandsCome, Queued, Finds
  <2> QED
    BY <1>7, <2>3, <2>4, <2>5, <2>6 DEF IslandInv
<1>9. CASE ~shadows[e].loaded
  <2>1. /\ work' = <<[op |-> "load", of |-> t]>>
        /\ shadows' = [shadows EXCEPT ![e].loaded = TRUE] /\ loads' = [loads EXCEPT ![t] = @ + 1]
        /\ UNCHANGED known
    BY <1>1, <1>4, <1>9 DEF e, Static!Enqueue, Static!LoadedNow
  <2>2. Len(work') = 1 /\ work'[1].op = "load" /\ work'[1].of = t
    BY <2>1
  <2>3. /\ Len(shadows') = Len(shadows)
        /\ shadows' \in Seq([source : Static!OnIsland, loaded : BOOLEAN])
        /\ \A i \in Held : shadows'[i].source = shadows[i].source
        /\ \A i \in Held : shadows'[i].loaded = IF i = e THEN TRUE ELSE shadows[i].loaded
    <3>1. \A i \in Held : shadows[i] \in [source : Static!OnIsland, loaded : BOOLEAN]
      BY <1>5, ElementOfSeq DEF Held
    <3>2. \A i \in Held : shadows'[i] = IF i = e THEN [shadows[i] EXCEPT !.loaded = TRUE] ELSE shadows[i]
      BY <1>3, <1>5, <2>1
    <3>3. \A i \in Held : shadows'[i] \in [source : Static!OnIsland, loaded : BOOLEAN]
                          /\ shadows'[i].source = shadows[i].source
                          /\ (i = e => shadows'[i].loaded = TRUE) /\ (i # e => shadows'[i] = shadows[i])
      BY <3>1, <3>2
    <3>4. DOMAIN shadows' = Held /\ Len(shadows) \in Nat
      BY <1>5, <2>1
    <3>5. shadows' \in [Held -> [source : Static!OnIsland, loaded : BOOLEAN]]
      BY <3>3, <3>4, <2>1
    <3>6. shadows' \in Seq([source : Static!OnIsland, loaded : BOOLEAN]) /\ Len(shadows') = Len(shadows)
      <4> DEFINE R == [source : Static!OnIsland, loaded : BOOLEAN]
      <4> HIDE DEF R
      <4>1. shadows' \in [1..Len(shadows) -> R] /\ Len(shadows) \in Nat
        BY <3>4, <3>5 DEF Held, R
      <4>2. shadows' \in Seq(R) /\ Len(shadows') = Len(shadows)
        BY <4>1
      <4> QED
        BY <4>2 DEF R
    <3> QED
      BY <3>3, <3>6
  <2>4. Static!Sources' = Static!Sources /\ Held' = Held
    <3>1. DOMAIN shadows' = Held /\ DOMAIN shadows = Held
      BY <1>5, <2>3 DEF Held
    <3> QED
      BY <2>3, <3>1 DEF Static!Sources, Held
  <2>5. IslandIsTyped'
    <3>1. work' \in Seq(Ops)
      BY <1>1, <2>1 DEF Ops
    <3>2. loads' \in [Static!Pieces -> Nat]
      BY <1>1, <2>1 DEF IslandInv, IslandIsTyped
    <3> QED
      BY <1>6, <2>1, <2>3, <3>1, <3>2 DEF IslandInv, IslandIsTyped
  <2>6. TableIsWhole'
    BY <1>6, <2>3, <2>4 DEF IslandInv, TableIsWhole
  <2>7. LoadsAreMarked'
    <3>1. loads[t] = 0
      BY <1>1, <1>3, <1>9 DEF IslandInv, LoadsAreMarked, TableIsWhole
    <3>2. \A p \in Static!Pieces : loads'[p] = IF p = t THEN 1 ELSE loads[p]
      BY <1>1, <2>1, <3>1 DEF IslandInv, IslandIsTyped
    <3>3. ASSUME NEW p \in Static!Pieces, loads'[p] # 0
          PROVE  loads'[p] = 1 /\ \E i \in Held' : shadows'[i].source = p /\ shadows'[i].loaded
      <4>1. CASE p = t
        BY <1>3, <2>3, <2>4, <3>2, <4>1
      <4>2. CASE p # t
        <5>1. PICK i \in Held : shadows[i].source = p /\ shadows[i].loaded
          BY <3>2, <3>3, <4>2 DEF IslandInv, LoadsAreMarked
        <5> QED
          BY <2>3, <2>4, <3>2, <3>3, <4>2, <5>1, ZenonT(60) DEF IslandInv, LoadsAreMarked
      <4> QED
        BY <4>1, <4>2
    <3>4. ASSUME NEW i \in Held', shadows'[i].loaded
          PROVE  \/ shadows'[i].source \in resident'
                 \/ \E k \in Queued' : work'[k].op = "load" /\ work'[k].of = shadows'[i].source
      <4>1. 1 \in Queued'
        BY <2>2 DEF Queued
      <4>2. CASE i = e
        BY <1>3, <2>2, <2>3, <2>4, <4>1, <4>2
      <4>3. CASE i # e
        <5>1. i \in Held /\ shadows[i].loaded /\ shadows'[i].source = shadows[i].source
          BY <2>3, <2>4, <3>4, <4>3
        <5>2. ~ \E k \in Queued : TRUE
          BY <1>4 DEF Queued
        <5>3. shadows[i].source \in resident
          BY <5>1, <5>2 DEF IslandInv, LoadsAreMarked
        <5> QED
          BY <5>1, <5>3
      <4> QED
        BY <4>2, <4>3
    <3> QED
      BY <3>3, <3>4 DEF LoadsAreMarked
  <2>8. OperandsCome'
    <3>1. \A k \in Queued' : work'[k].op # "multiply"
      BY <2>2 DEF Queued
    <3>2. Finds(Len(work) + 1, todo[1], routed.ids)'
      BY <1>1, <1>6, <2>2 DEF Finds
    <3> QED
      BY <3>1, <3>2 DEF OperandsCome
  <2> QED
    BY <1>7, <2>5, <2>6, <2>7, <2>8 DEF IslandInv
<1> QED
  BY <1>8, <1>9

LEMMA CopyUsedStep ==
  ASSUME IslandBounds, IslandInv, Static!Input, Static!CopyUsed
  PROVE  IslandInv'
<1> USE DEF Static!Input, Static!CopyUsed
<1>1. todo # <<>> /\ Head(todo) = todo[1] /\ todo[1] \in Static!Pieces /\ todo[1][1] \notin Static!Island
      /\ todo[1][1] \in 1..ModelLayers
  BY HeadIsPiece DEF IslandInv, LayersFollow
<1>2. work = <<>> /\ routed.layer = todo[1][1]
  BY <1>1 DEF Static!Drained
<1>3. routed \in Routings
  <2>1. routed # Static!Nothing
    BY <1>1, <1>2, IslandNumbers DEF Static!Nothing
  <2> QED
    BY <2>1 DEF IslandInv, IslandIsTyped
<1>4. known' = routed
  <2>1. CASE Static!Read(todo[1][1])
    <3>1. known' = known /\ known.layer = todo[1][1]
      BY <1>1, <2>1 DEF Static!Read
    <3>2. known # Static!Nothing
      BY <1>1, <3>1, IslandNumbers DEF Static!Nothing
    <3>3. known = routed \/ known.layer < routed.layer
      BY <3>2 DEF IslandInv, LayersFollow
    <3>4. routed.layer \in Nat
      BY <1>1, <1>2, IslandNumbers
    <3> QED
      BY <1>2, <3>1, <3>3, <3>4
  <2>2. CASE ~Static!Read(todo[1][1])
    BY <1>1, <2>2
  <2> QED
    BY <2>1, <2>2
<1> DEFINE q == Copies(todo[1], routed.ids)
<1>5. /\ q \in Seq(Ops)
      /\ \A k \in 1..Len(q) : q[k].op = "copy" /\ q[k].of = todo[1] /\ q[k].run[2] + 1 \notin routed.ids
      /\ \A s \in routed.ids : \E k \in 1..Len(q) : s \in q[k].run[1]..q[k].run[2]
  <2>1. routed.ids \in SUBSET Static!BankSlots /\ place \in Nat
    BY <1>3 DEF IslandInv, IslandIsTyped, Routings
  <2>2. Bring(q, todo[1], routed.ids)
    BY <1>1, <2>1, CopiesAreQueued
  <2> HIDE DEF q
  <2> QED
    BY <2>2 DEF Bring
<1>6. work' = q
  <2>1. work' = <<>> \o q
    BY <1>1, <1>2, <1>4 DEF Static!Enqueue, Copies
  <2> HIDE DEF q
  <2> QED
    BY <1>5, <2>1
<1> HIDE DEF q
<1>7. Static!OnIsland' = Static!OnIsland /\ Static!Island' = Static!Island
  BY DEF Static!OnIsland, Static!Island, Static!Range
<1>8. IslandIsTyped'
  BY <1>3, <1>4, <1>5, <1>6, <1>7 DEF IslandInv, IslandIsTyped
<1>9. TableIsWhole'
  BY <1>7 DEF IslandInv, TableIsWhole, Held, Static!Sources
<1>10. LoadsAreMarked'
  BY <1>2 DEF IslandInv, LoadsAreMarked, Held, Queued
<1>11. LayersFollow'
  <2>1. routed # Static!Nothing
    BY <1>1, <1>2, IslandNumbers DEF Static!Nothing
  <2> QED
    BY <1>1, <1>2, <1>4, <2>1 DEF IslandInv, LayersFollow
<1>12. OperandsCome'
  <2>1. \A k \in Queued' : work'[k].op # "multiply"
    BY <1>5, <1>6 DEF Queued
  <2>2. Len(q) \in Nat /\ 1..((Len(q) + 1) - 1) = 1..Len(q)
    BY <1>6
  <2>3. Finds(Len(work) + 1, todo[1], routed.ids)'
    BY <1>1, <1>5, <1>6, <1>7, <2>2 DEF Finds
  <2> QED
    BY <2>1, <2>3 DEF OperandsCome
<1> QED
  BY <1>8, <1>9, <1>10, <1>11, <1>12 DEF IslandInv

LEMMA InputStep == ASSUME IslandBounds, IslandInv, Static!Input PROVE IslandInv'
  BY PreloadStep, CopyUsedStep DEF Static!Input

LEMMA LaunchStep == ASSUME IslandBounds, IslandInv, Static!Launch PROVE IslandInv'
<1> USE DEF Static!Launch
<1>1. todo # <<>> /\ Head(todo) = todo[1] /\ todo[1] \in Static!Pieces /\ todo[1][1] \in 1..ModelLayers
      /\ routed.layer = todo[1][1]
  BY HeadIsPiece DEF IslandInv, LayersFollow
<1>2. Static!OnIsland' = Static!OnIsland /\ Static!Island' = Static!Island /\ Static!Sources' = Static!Sources
      /\ Held' = Held
  BY DEF Static!OnIsland, Static!Island, Static!Range, Static!Sources, Held
<1>3. host' \in {"idle", "input"} /\ (host' = "input" => todo' # <<>>)
  OBVIOUS
<1>4. TableIsWhole'
  BY <1>2, <1>3 DEF IslandInv, TableIsWhole
<1>5. work \in Seq(Ops) /\ Len(work) \in Nat /\ todo \in Seq(Static!Pieces)
  BY DEF IslandInv, IslandIsTyped
<1>6. CASE todo' = <<>> /\ host' = "idle" /\ UNCHANGED work
  <2>1. IslandIsTyped' /\ LayersFollow'
    BY <1>2, <1>6 DEF IslandInv, IslandIsTyped, LayersFollow
  <2>2. LoadsAreMarked' /\ OperandsCome'
    BY <1>6, DeviceStays DEF OperandsCome
  <2> QED
    BY <1>4, <2>1, <2>2 DEF IslandInv
<1>7. CASE /\ Static!Enqueue(<<[op |-> "multiply", of |-> Head(todo), ids |-> routed.ids, at |-> place]>>)
           /\ todo' = Tail(todo)
  <2> DEFINE o == [op |-> "multiply", of |-> todo[1], ids |-> routed.ids, at |-> place]
  <2>1. work' = Append(work, o)
    BY <1>1, <1>5, <1>7 DEF Static!Enqueue
  <2>2. routed.ids \in SUBSET Static!BankSlots /\ place \in Nat
    <3>1. routed # Static!Nothing
      BY <1>1, IslandNumbers DEF Static!Nothing
    <3> QED
      BY <3>1 DEF IslandInv, IslandIsTyped, Routings
  <2>3. o \in Ops
    BY <1>1, <2>2 DEF Ops
  <2>4. o.op = "multiply" /\ o.of = todo[1] /\ o.ids = routed.ids /\ o.at = place
    OBVIOUS
  <2> HIDE DEF o
  <2>5. /\ work' \in Seq(Ops) /\ Len(work') = Len(work) + 1
        /\ \A k \in 1..Len(work) : work'[k] = work[k]
        /\ work'[Len(work) + 1] = o
    BY <1>5, <2>1, <2>3
  <2>6. todo' \in Seq(Static!Pieces) /\ Len(todo') = Len(todo) - 1
        /\ \A i \in 1..Len(todo') : todo'[i] = todo[i + 1] /\ i + 1 \in 1..Len(todo)
    BY <1>1, <1>5, <1>7
  <2>7. IslandIsTyped'
    BY <1>2, <1>3, <2>5, <2>6 DEF IslandInv, IslandIsTyped
  <2>8. LayersFollow'
    <3>1. \A i, j \in 1..Len(todo') : i < j => todo'[i][1] <= todo'[j][1]
      <4>1. ASSUME NEW i \in 1..Len(todo'), NEW j \in 1..Len(todo'), i < j PROVE todo'[i][1] <= todo'[j][1]
        <5>1. i + 1 \in 1..Len(todo) /\ j + 1 \in 1..Len(todo) /\ i + 1 < j + 1
          BY <2>6, <4>1
        <5>2. todo[i + 1][1] <= todo[j + 1][1]
          BY <5>1 DEF IslandInv, LayersFollow
        <5> QED
          BY <2>6, <5>2
      <4> QED
        BY <4>1
    <3>2. routed # Static!Nothing => \A i \in 1..Len(todo') : routed.layer <= todo'[i][1]
      BY <2>6 DEF IslandInv, LayersFollow
    <3> QED
      BY <1>2, <1>3, <3>1, <3>2 DEF IslandInv, LayersFollow, Static!Nothing
  <2>9. LoadsAreMarked'
    <3>1. \A k \in Queued : k \in Queued' /\ work'[k] = work[k]
      BY <1>5, <2>5 DEF Queued
    <3> QED
      BY <1>2, <3>1 DEF IslandInv, LoadsAreMarked
  <2>10. OperandsCome'
    <3>1. \A n \in 1..(Len(work) + 1) : \A k \in 1..(n - 1) : k \in 1..Len(work) /\ work'[k] = work[k]
      BY <1>5, <2>5
    <3>2. ASSUME NEW n \in 1..(Len(work) + 1), NEW t, NEW ids, Finds(n, t, ids) PROVE Finds(n, t, ids)'
      BY <1>2, <3>1, <3>2 DEF Finds
    <3>3. ASSUME NEW k \in Queued', work'[k].op = "multiply"
          PROVE  Finds(k, work[k].of, work[k].ids)' /\ (work'[k].of[1] \notin Static!Island' => work'[k].at = place')
      <4>1. PICK t, ids : t = work'[k].of /\ ids = work'[k].ids
        OBVIOUS
      <4>2. k \in 1..(Len(work) + 1)
        BY <2>5, <3>3 DEF Queued
      <4>3. Finds(k, t, ids) /\ (t[1] \notin Static!Island => work'[k].at = place)
        <5>1. CASE k = Len(work) + 1
          <6>1. work'[k] = o
            BY <2>5, <5>1
          <6>2. t = todo[1] /\ ids = routed.ids /\ work'[k].at = place
            BY <2>4, <4>1, <6>1
          <6>3. Finds(Len(work) + 1, todo[1], routed.ids)
            BY DEF IslandInv, OperandsCome
          <6> QED
            BY <5>1, <6>2, <6>3
        <5>2. CASE k # Len(work) + 1
          <6>1. k \in Queued /\ work'[k] = work[k]
            BY <1>5, <2>5, <4>2, <5>2 DEF Queued
          <6>2. work[k].op = "multiply" /\ t = work[k].of /\ ids = work[k].ids
            BY <3>3, <4>1, <6>1
          <6> QED
            BY <6>1, <6>2 DEF IslandInv, OperandsCome
        <5> QED
          BY <5>1, <5>2
      <4>4. Finds(k, t, ids)'
        BY <3>2, <4>2, <4>3
      <4> QED
        BY <1>2, <4>1, <4>3, <4>4 DEF Finds
    <3> QED
      BY <1>3, <3>3 DEF OperandsCome
  <2> QED
    BY <1>4, <2>7, <2>8, <2>9, <2>10 DEF IslandInv
<1> QED
  BY <1>6, <1>7

-----------------------------------------------------------------------------
(* The device *)

(* What an operation will find, it will still find when the device is one  *)
(* operation further.                                                      *)
LEMMA FindsShifts ==
  ASSUME IslandBounds, IslandInv, Static!DeviceStep, NEW n \in 1..Len(work), NEW t, NEW ids \in SUBSET Static!BankSlots,
         Finds(n + 1, t, ids)
  PROVE  Finds(n, t, ids)'
<1> USE DEF Static!DeviceStep
<1>1. Static!Island' = Static!Island
  BY DEF Static!Island, Static!Range
<1>2. work \in Seq(Ops) /\ work # <<>> /\ Len(work) \in Nat /\ Head(work) = work[1]
  BY DEF IslandInv, IslandIsTyped
<1>3. \A k \in 1..(Len(work) - 1) : work'[k] = work[k + 1]
  BY <1>2
<1>4. (n + 1) - 1 = n /\ 1 \in 1..n /\ \A k \in 1..(n - 1) : k + 1 \in 1..n /\ k \in 1..(Len(work) - 1)
  BY <1>2
<1>5. \A k \in 1..n : k = 1 \/ (k - 1 \in 1..(n - 1) /\ work'[k - 1] = work[k])
  BY <1>2, <1>3
<1>6. CASE t[1] \in Static!Island
  <2>1. t \in resident \/ \E k \in 1..n : work[k].op = "load" /\ work[k].of = t
    BY <1>4, <1>6 DEF Finds
  <2>2. resident \subseteq resident' /\ (work[1].op = "load" => work[1].of \in resident')
    BY <1>2
  <2>3. t \in resident' \/ \E k \in 1..(n - 1) : work'[k].op = "load" /\ work'[k].of = t
    BY <1>5, <2>1, <2>2
  <2> QED
    BY <1>1, <1>6, <2>3 DEF Finds
<1>7. CASE t[1] \notin Static!Island
  <2>1. /\ \A k \in 1..n : work[k].op = "copy" /\ work[k].of = t /\ work[k].run[2] + 1 \notin ids
        /\ \A s \in ids : staging[s] = t \/ \E k \in 1..n : s \in work[k].run[1]..work[k].run[2]
    BY <1>4, <1>7 DEF Finds
  <2>2. work[1].op = "copy" /\ work[1].of = t /\ work[1].run[2] + 1 \notin ids
    BY <1>4, <2>1
  <2>3. staging' = [s \in Static!BankSlots |-> IF s \in work[1].run[1]..work[1].run[2] THEN work[1].of
                                               ELSE IF s = work[1].run[2] + 1 THEN None ELSE staging[s]]
    BY <1>2, <2>2
  <2>4. \A s \in ids : (s \in work[1].run[1]..work[1].run[2] \/ staging[s] = t) => staging'[s] = t
    BY <2>2, <2>3
  <2>5. \A k \in 1..(n - 1) : work'[k].op = "copy" /\ work'[k].of = t /\ work'[k].run[2] + 1 \notin ids
    BY <1>3, <1>4, <2>1
  <2>6. \A s \in ids : staging'[s] = t \/ \E k \in 1..(n - 1) : s \in work'[k].run[1]..work'[k].run[2]
    BY <1>5, <2>1, <2>4
  <2> QED
    BY <1>1, <1>7, <2>5, <2>6 DEF Finds
<1> QED
  BY <1>6, <1>7

LEMMA ExecuteStep == ASSUME IslandBounds, IslandInv, Static!DeviceStep PROVE IslandInv'
<1> USE DEF Static!DeviceStep
<1>1. Static!Island' = Static!Island /\ Static!OnIsland' = Static!OnIsland /\ Static!Sources' = Static!Sources
      /\ Held' = Held
  BY DEF Static!Island, Static!OnIsland, Static!Range, Static!Sources, Held, Static!queueVars
<1>2. work \in Seq(Ops) /\ work # <<>> /\ Len(work) \in Nat /\ Head(work) = work[1] /\ 1 \in Queued
      /\ work[1] \in Ops
  BY DEF IslandInv, IslandIsTyped, Queued
<1>3. work' \in Seq(Ops) /\ Len(work') = Len(work) - 1 /\ \A k \in Queued' : work'[k] = work[k + 1] /\ k + 1 \in Queued
      /\ k \in 1..Len(work)
  BY <1>2 DEF Queued
<1>4. UNCHANGED <<setting, host, graphs, graph, todo, routed, known, shadows, place, loads>>
  BY DEF Static!queueVars
<1>5. work[1].of \in Static!Pieces
  BY <1>2 DEF Ops
<1>6. resident' \subseteq Static!Pieces
  BY <1>2, <1>5 DEF IslandInv, IslandIsTyped
<1>7. staging' \in [Static!BankSlots -> Static!Pieces \cup {None}]
  <2>1. staging \in [Static!BankSlots -> Static!Pieces \cup {None}]
    BY DEF IslandInv, IslandIsTyped
  <2>2. CASE work[1].op = "copy"
    BY <1>2, <1>5, <2>1, <2>2
  <2>3. CASE work[1].op # "copy"
    BY <1>2, <2>1, <2>3 DEF Static!Empty
  <2> QED
    BY <2>2, <2>3
<1>8. ~wrong'
  <2>1. ASSUME work[1].op = "multiply" PROVE Static!Holds(work[1])
    <3>1. Finds(1, work[1].of, work[1].ids) /\ (work[1].of[1] \notin Static!Island => work[1].at = place)
      BY <1>2, <2>1 DEF IslandInv, OperandsCome
    <3>2. 1..(1 - 1) = {}
      OBVIOUS
    <3> QED
      BY <3>1, <3>2 DEF Finds, Static!Holds
  <2> QED
    BY <1>2, <2>1 DEF IslandInv
<1>9. IslandIsTyped'
  BY <1>1, <1>3, <1>4, <1>6, <1>7, <1>8 DEF IslandInv, IslandIsTyped
<1>10. TableIsWhole' /\ LayersFollow'
  BY <1>1, <1>4 DEF IslandInv, TableIsWhole, LayersFollow, Static!Nothing
<1>11. LoadsAreMarked'
  <2>1. \A k \in Queued : k = 1 \/ (k - 1 \in Queued' /\ work'[k - 1] = work[k])
    BY <1>2, <1>3 DEF Queued
  <2>2. resident \subseteq resident' /\ (work[1].op = "load" => work[1].of \in resident')
    BY <1>2
  <2>3. ASSUME NEW i \in Held, shadows[i].loaded
        PROVE  \/ shadows[i].source \in resident'
               \/ \E k \in Queued' : work'[k].op = "load" /\ work'[k].of = shadows[i].source
    <3>1. \/ shadows[i].source \in resident
          \/ \E k \in Queued : work[k].op = "load" /\ work[k].of = shadows[i].source
      BY <2>3 DEF IslandInv, LoadsAreMarked
    <3> QED
      BY <2>1, <2>2, <3>1
  <2>4. \A i \in Held' : shadows'[i].loaded =>
           \/ shadows'[i].source \in resident'
           \/ \E k \in Queued' : work'[k].op = "load" /\ work'[k].of = shadows'[i].source
    <3> TAKE i \in Held'
    <3> HAVE shadows'[i].loaded
    <3>1. i \in Held /\ shadows[i].loaded
      BY <1>1, <1>4
    <3> QED
      BY <1>4, <2>3, <3>1
  <2>5. \A t \in Static!Pieces : loads'[t] # 0 =>
           loads'[t] = 1 /\ \E i \in Held' : shadows'[i].source = t /\ shadows'[i].loaded
    BY <1>1, <1>4 DEF IslandInv, LoadsAreMarked
  <2> QED
    BY <2>4, <2>5 DEF LoadsAreMarked
<1>12. OperandsCome'
  <2>1. ASSUME NEW k \in Queued', work'[k].op = "multiply"
        PROVE  Finds(k, work[k].of, work[k].ids)' /\ (work'[k].of[1] \notin Static!Island' => work'[k].at = place')
    <3>1. PICK t, ids : t = work'[k].of /\ ids = work'[k].ids
      OBVIOUS
    <3>2. k + 1 \in Queued /\ work[k + 1].op = "multiply" /\ t = work[k + 1].of /\ ids = work[k + 1].ids
          /\ work[k + 1].at = work'[k].at
      BY <1>3, <2>1, <3>1
    <3>3. ids \in SUBSET Static!BankSlots
      <4>1. work[k + 1] \in Ops
        BY <1>2, <3>2 DEF Queued
      <4> QED
        BY <3>2, <4>1 DEF Ops
    <3>4. Finds(k + 1, t, ids) /\ (t[1] \notin Static!Island => work'[k].at = place)
      BY <3>2 DEF IslandInv, OperandsCome
    <3>5. Finds(k, t, ids)'
      BY <1>3, <3>3, <3>4, FindsShifts
    <3> QED
      BY <1>1, <1>4, <3>1, <3>4, <3>5 DEF Finds
  <2>2. ASSUME host' = "launch" PROVE Finds(Len(work) + 1, todo[1], routed.ids)'
    <3>1. PICK t, ids : t = todo[1] /\ ids = routed.ids
      OBVIOUS
    <3>2. Finds(Len(work) + 1, t, ids)
      BY <1>4, <2>2, <3>1 DEF IslandInv, OperandsCome
    <3>3. ids \in SUBSET Static!BankSlots
      BY <3>1 DEF IslandInv, IslandIsTyped, Routings, Static!Nothing
    <3>4. PICK n : n = Len(work)
      OBVIOUS
    <3>5. n \in 1..Len(work) /\ Len(work') + 1 = n
      BY <1>2, <1>3, <3>4
    <3>6. Finds(n, t, ids)'
      BY <3>2, <3>3, <3>4, <3>5, FindsShifts
    <3> QED
      BY <1>4, <3>1, <3>5, <3>6 DEF Finds
  <2> QED
    BY <2>1, <2>2 DEF OperandsCome
<1> QED
  BY <1>8, <1>9, <1>10, <1>11, <1>12 DEF IslandInv

LEMMA IslandStep == ASSUME IslandBounds, IslandInv, Static!Next \/ UNCHANGED islandVars PROVE IslandInv'
<1>1. CASE UNCHANGED islandVars
  <2>1. IslandIsTyped' /\ TableIsWhole' /\ LayersFollow'
    <3>1. UNCHANGED <<setting, host, graphs, graph, todo, shadows, routed, known, work, resident, staging,
                      place, loads, wrong>>
      BY <1>1 DEF islandVars
    <3>2. Static!OnIsland' = Static!OnIsland /\ Static!Sources' = Static!Sources /\ Held' = Held
      BY <3>1 DEF Static!OnIsland, Static!Island, Static!Range, Static!Sources, Held
    <3>3. IslandIsTyped'
      BY <3>1, <3>2 DEF IslandInv, IslandIsTyped
    <3>4. TableIsWhole'
      BY <3>1, <3>2 DEF IslandInv, TableIsWhole
    <3>5. LayersFollow'
      BY <3>1 DEF IslandInv, LayersFollow, Static!Nothing
    <3> QED
      BY <3>3, <3>4, <3>5
  <2>2. LoadsAreMarked'
    BY <1>1, DeviceStays DEF islandVars
  <2>3. OperandsCome'
    <3>1. UNCHANGED <<setting, host, shadows, work, todo, routed, resident, staging, place, loads>>
      BY <1>1 DEF islandVars
    <3>2. \A k \in Queued' : work'[k].op = "multiply" =>
             Finds(k, work[k].of, work[k].ids)' /\ (work'[k].of[1] \notin Static!Island' => work'[k].at = place')
      BY <3>1, DeviceStays
    <3>3. host' = "launch" => Finds(Len(work) + 1, todo[1], routed.ids)'
      BY <3>1 DEF IslandInv, OperandsCome, Finds, Static!Island, Static!Range
    <3> QED
      BY <3>2, <3>3 DEF OperandsCome
  <2> QED
    BY <1>1, <2>1, <2>2, <2>3 DEF IslandInv, islandVars
<1> QED
  BY <1>1, ConfigureStep, ReserveStep, SubmitStep, SplitStep, AllocStep, BeginStep, RouteStep, InputStep, LaunchStep,
     ExecuteStep DEF Static!Next, Static!Scheduler

(* What the invariant says of the three properties of the scheduler. *)
LEMMA IslandInvIsSound ==
  ASSUME IslandBounds, IslandInv
  PROVE  Static!OperandsAreWhole /\ Static!IslandsAreLoadedOnce /\ Static!AbortsAtStart
<1>1. Static!IslandsAreLoadedOnce
  <2>1. ASSUME NEW t \in Static!Pieces PROVE loads[t] <= 1 /\ (loads[t] = 1 => t[1] \in Static!Island)
    <3>1. loads[t] \in Nat
      BY DEF IslandInv, IslandIsTyped
    <3>2. CASE loads[t] = 0
      BY <3>2
    <3>3. CASE loads[t] # 0
      <4>1. PICK i \in Held : loads[t] = 1 /\ shadows[i].source = t
        BY <3>3 DEF IslandInv, LoadsAreMarked
      <4>2. shadows[i] \in [source : Static!OnIsland, loaded : BOOLEAN]
        BY ElementOfSeq DEF IslandInv, IslandIsTyped, Held
      <4> QED
        BY <4>1, <4>2 DEF Static!OnIsland
    <3> QED
      BY <3>2, <3>3
  <2> QED
    BY <2>1 DEF Static!IslandsAreLoadedOnce
<1> QED
  BY <1>1 DEF IslandInv, TableIsWhole, Static!OperandsAreWhole, Static!AbortsAtStart

-----------------------------------------------------------------------------
(***************************************************************************)
(* The CUDA transfer benchmarks.  The commands of a round are a sequence,  *)
(* and `next' counts those the host has executed; what the device has done *)
(* is known from that count and from what is still queued.  First, what a  *)
(* round may look like, then the inductive invariant.                      *)
(***************************************************************************)
Methods == {"staging", "measure", "single", "contiguous", "queue", "ready"}
Measurements == [method : Methods, mode : Transfer!Modes, load : BOOLEAN]
Method == Head(benchmarks)
Script == Transfer!Commands(Method, round)

BufferPairs == {{Transfer!Source, Transfer!Device}, {Transfer!LoadSource, Transfer!Loaded}}
Resources == Transfer!Memory \cup Transfer!Events \cup {Transfer!Load, Transfer!Probe}
CopyOps == [op : {"copy"}, on : Transfer!Streams, id : Nat \X Nat \X Transfer!Streams, uses : BufferPairs]
RecordOps == [op : {"record"}, what : Transfer!Events, on : Transfer!Streams]
HostOps ==
    [op : {"make"}, what : Resources]
    \cup [op : {"wait"}, what : Transfer!Events] \cup [op : {"drain"}, what : Transfer!Streams]
    \cup [op : {"clock"}]
    \cup [op : {"stop"}, by : {"wall", "enqueue", "ready"}, round : Nat, unit : Nat]
    \cup [op : {"elapsed"}, from : Transfer!Events, to : Transfer!Events, round : Nat, unit : Nat]

(* What the first p - 1 commands of S allocate, and the copies they enqueue. *)
Made(S, p) == {S[k].what : k \in {j \in 1..(p - 1) : S[j].op = "make"}}
Sent(S, p) == {S[k].id : k \in {j \in 1..(p - 1) : S[j].op = "copy"}}
Allocated(c) == Made(Transfer!Setup(c), Len(Transfer!Setup(c)) + 1)

(* When the first p - 1 commands are done, stream s is: it was drained, or *)
(* the host waited for what was last recorded there.                       *)
Enqueues(o, s) == o.op \in {"copy", "record"} /\ o.on = s
Settles(S, w, s) ==
    \/ S[w].op = "drain" /\ S[w].what = s
    \/ S[w].op = "wait" /\ w > 1 /\ S[w - 1].op = "record" /\ S[w - 1].on = s /\ S[w - 1].what = S[w].what
Idle(S, p, s) ==
    \E w \in 0..(p - 1) : (w = 0 \/ Settles(S, w, s)) /\ \A k \in (w + 1)..(p - 1) : ~Enqueues(S[k], s)

(* What holds of the commands of every round. *)
CommandsAreTyped(S, r) ==
    /\ S \in Seq(CopyOps \cup RecordOps \cup HostOps)
    /\ \A k \in 1..Len(S) : S[k].op = "copy" => S[k].id[1] = r /\ S[k].id[3] = S[k].on
    /\ \A k \in 1..Len(S) : S[k].op \in {"stop", "elapsed"} => S[k].round = r
CopiesHaveBuffers(S, c, r) ==
    \A k \in 1..Len(S) :
        /\ S[k].op = "make" => r = 0
        /\ S[k].op = "copy" => S[k].uses \subseteq IF r = 0 THEN Made(S, k) ELSE Allocated(c)
RoundsEndIdle(S) == \A s \in Transfer!Streams : Idle(S, Len(S) + 1, s)
RecordsAreSingle(S, c) ==
    \A k \in 1..Len(S) : S[k].op = "record" =>
        \A j \in 1..Len(S) : S[j].op = "record" /\ S[j].what = S[k].what => j = k
OneStream(S, c) ==
    c.method # "ready" => \A k \in 1..Len(S) : S[k].op \in {"copy", "record"} => S[k].on = Transfer!Default
ClocksAreFirst(S, c) ==
    \A k \in 1..Len(S) : S[k].op = "clock" /\ c.method # "ready" => Sent(S, k) = {}
StopsCount(S, c, r) ==
    \A k \in 1..Len(S) : S[k].op = "stop" =>
        /\ \E j \in 1..(k - 1) : S[j].op = "clock"
        /\ S[k].by = "ready" <=> c.method = "ready"
        /\ S[k].by = "wall" => Idle(S, k, Transfer!Default) /\ Cardinality(Sent(S, k)) = S[k].unit
        /\ S[k].by = "ready" =>
              /\ Idle(S, k, Transfer!Probe) /\ <<r, 1, Transfer!Probe>> \in Sent(S, k)
              /\ \A j \in 1..(k - 1) : S[j].op = "clock" => <<r, 1, Transfer!Probe>> \notin Sent(S, j)
EventsCount(S, c) ==
    \A k \in 1..Len(S) : S[k].op = "elapsed" =>
        /\ c.method # "ready"
        /\ \E i, j \in 1..(k - 1) :
              /\ S[i].op = "record" /\ S[i].what = S[k].from
              /\ S[j].op = "record" /\ S[j].what = S[k].to
              /\ Cardinality(Sent(S, j) \ Sent(S, i)) = S[k].unit
WellFormed(S, c, r) ==
    /\ CommandsAreTyped(S, r) /\ CopiesHaveBuffers(S, c, r) /\ RoundsEndIdle(S) /\ RecordsAreSingle(S, c)
    /\ OneStream(S, c) /\ ClocksAreFirst(S, c) /\ StopsCount(S, c, r) /\ EventsCount(S, c)

(***************************************************************************)
(* The state.  A stream is empty when the round has settled it; every copy *)
(* of the commands so far was executed or is queued; the clock was read    *)
(* when no copy of the round was; and an event was recorded after exactly  *)
(* the copies that were sent before it.                                    *)
(***************************************************************************)

TransferIsTyped ==
    /\ benchmarks \in Seq(Measurements) /\ failing \in BOOLEAN
    /\ doing \in {"calling", "running", "releasing", "reported", "raised"}
    /\ doing \in {"calling", "running", "releasing"} => benchmarks # <<>>
    /\ doing = "running" => round \in 0..Transfer!RoundsOf(Method) /\ next \in 1..(Len(Script) + 1)
    /\ doing = "releasing" => next \in 1..(Len(Transfer!Releases(Method)) + 1)
    /\ failing => doing \in {"releasing", "raised"}
    /\ stream \in [Transfer!Streams -> Seq(CopyOps \cup RecordOps)]
    /\ done \subseteq Nat \X Nat \X Transfer!Streams /\ DOMAIN stamp = Transfer!Events

(* What the device has still to copy has its buffers. *)
BuffersAreHeld ==
    /\ \A s \in Transfer!Streams : \A i \in 1..Len(stream[s]) : stream[s][i].op = "copy" => stream[s][i].uses \subseteq held
    /\ doing = "running" => held = IF round = 0 THEN Made(Script, next) ELSE Allocated(Method)
    /\ doing = "releasing" => \A b \in held : \E i \in next..Len(Transfer!Releases(Method)) : Transfer!Releases(Method)[i] = b
    /\ doing \in {"calling", "reported", "raised"} => held = {}

StreamsSettle ==
    /\ doing = "running" => \A s \in Transfer!Streams :
          /\ Idle(Script, next, s) => stream[s] = <<>>
          /\ next > 1 /\ Enqueues(Script[next - 1], s) /\ stream[s] # <<>> => stream[s][Len(stream[s])] = Script[next - 1]
    /\ doing = "calling" \/ (doing = "releasing" /\ ~failing) => \A s \in Transfer!Streams : stream[s] = <<>>

(* The copies of earlier rounds. *)
Old == {c \in done : c[1] # round}
Ahead(s, i) == {stream[s][k].id : k \in {j \in 1..(i - 1) : stream[s][j].op = "copy"}}

CopiesAreOfRounds ==
    doing = "running" =>
        /\ \A c \in done : c[1] <= round /\ (c[1] = round => c \in Sent(Script, next))
        /\ \A s \in Transfer!Streams : \A i \in 1..Len(stream[s]) :
              stream[s][i].op = "copy" => stream[s][i].id \in Sent(Script, next) /\ stream[s][i].id[3] = s
        /\ \A c \in Sent(Script, next) :
              c \in done \/ \E s \in Transfer!Streams : \E i \in 1..Len(stream[s]) : stream[s][i].op = "copy" /\ stream[s][i].id = c

ClockIsRead ==
    doing = "running" /\ (\E k \in 1..(next - 1) : Script[k].op = "clock") =>
        \E k \in 1..(next - 1) :
           /\ Script[k].op = "clock" /\ begun.backlog \subseteq Sent(Script, k)
           /\ Old \subseteq begun.done /\ begun.done \subseteq Old \cup Sent(Script, k)

StampsFollow ==
    doing = "running" /\ Method.method # "ready" =>
        LET q == stream[Transfer!Default] IN
        /\ \A s \in Transfer!Streams \ {Transfer!Default} : stream[s] = <<>>
        /\ \A i \in 1..Len(q) : q[i].op = "record" => \E k \in 1..(next - 1) :
              Script[k] = q[i] /\ done \cup Ahead(Transfer!Default, i) = Old \cup Sent(Script, k)
        /\ \A k \in 1..(next - 1) : Script[k].op = "record" /\ Transfer!Reached(Script[k].what) =>
              stamp[Script[k].what] = Old \cup Sent(Script, k)

TransferInv ==
    /\ TransferIsTyped /\ BuffersAreHeld /\ StreamsSettle /\ CopiesAreOfRounds /\ ClockIsRead /\ StampsFollow
    /\ Transfer!SamplesAreTheirRounds

(***************************************************************************)
(* What holds of every measurement: its rounds are well formed, what it    *)
(* releases is what it allocated, and a pageable host buffer goes after    *)
(* the device's, which waits for the device.                               *)
(***************************************************************************)
TransferBounds == Transfer!CudaTransferAssumption
AllWellFormed ==
    \A c \in Measurements : \A r \in 0..Transfer!RoundsOf(c) : WellFormed(Transfer!Commands(c, r), c, r)
RoundsAreNumbers == \A c \in Measurements : Transfer!RoundsOf(c) \in Nat
ReleasesAreAll ==
    \A c \in Measurements :
        /\ Len(Transfer!Releases(c)) \in Nat
        /\ \A b \in Allocated(c) : \E i \in 1..Len(Transfer!Releases(c)) : Transfer!Releases(c)[i] = b
PageableIsLast ==
    \A c \in Measurements : c.mode = "pageable" =>
        \A k, i \in 1..Len(Transfer!Releases(c)) :
            Transfer!Releases(c)[k] = Transfer!Source /\ Transfer!Releases(c)[i] \in {Transfer!Device, Transfer!Loaded}
                => i < k
CallsAreSound == AllWellFormed /\ RoundsAreNumbers /\ ReleasesAreAll /\ PageableIsLast

-----------------------------------------------------------------------------
(* Counting commands *)

LEMMA OpsByKind ==
  ASSUME NEW o \in CopyOps \cup RecordOps \cup HostOps
  PROVE  /\ o.op = "copy" => o \in CopyOps
         /\ o.op = "record" => o \in RecordOps
         /\ o.op = "make" => o.what \in Resources
         /\ o.op \in {"copy", "record"} => o.on \in Transfer!Streams
         /\ o.op = "elapsed" => o.from \in Transfer!Events /\ o.to \in Transfer!Events
  BY DEF CopyOps, RecordOps, HostOps

LEMMA OneMoreCommand ==
  ASSUME NEW S, NEW p \in Nat \ {0}
  PROVE  /\ Sent(S, p + 1) = Sent(S, p) \cup (IF S[p].op = "copy" THEN {S[p].id} ELSE {})
         /\ Made(S, p + 1) = Made(S, p) \cup (IF S[p].op = "make" THEN {S[p].what} ELSE {})
<1>1. (p + 1) - 1 = p /\ \A j : j \in 1..p <=> (j \in 1..(p - 1) \/ j = p)
  OBVIOUS
<1>2. Sent(S, p + 1) = Sent(S, p) \cup (IF S[p].op = "copy" THEN {S[p].id} ELSE {})
  BY <1>1 DEF Sent
<1>3. Made(S, p + 1) = Made(S, p) \cup (IF S[p].op = "make" THEN {S[p].what} ELSE {})
  BY <1>1 DEF Made
<1> QED
  BY <1>2, <1>3

LEMMA NoCommand ==
  ASSUME NEW S
  PROVE  Sent(S, 1) = {} /\ Made(S, 1) = {} /\ \A s : Idle(S, 1, s)
<1>1. 1 - 1 = 0 /\ 1..0 = {} /\ 0 \in 0..0 /\ (0 + 1)..0 = {}
  OBVIOUS
<1>2. Sent(S, 1) = {} /\ Made(S, 1) = {}
  BY <1>1 DEF Sent, Made
<1>3. \A s : Idle(S, 1, s)
  BY <1>1 DEF Idle
<1> QED
  BY <1>2, <1>3

LEMMA CommandsAccumulate ==
  ASSUME NEW S, NEW p \in Nat, NEW q \in Nat, p <= q
  PROVE  Sent(S, p) \subseteq Sent(S, q) /\ Made(S, p) \subseteq Made(S, q)
<1>1. \A j : j \in 1..(p - 1) => j \in 1..(q - 1)
  OBVIOUS
<1> QED
  BY <1>1 DEF Sent, Made

LEMMA IdleGoesBack ==
  ASSUME NEW S, NEW p \in Nat \ {0}, NEW s, Idle(S, p + 1, s)
  PROVE  Settles(S, p, s) \/ (Idle(S, p, s) /\ ~Enqueues(S[p], s))
<1>1. PICK w \in 0..p : (w = 0 \/ Settles(S, w, s)) /\ \A k \in (w + 1)..p : ~Enqueues(S[k], s)
  <2>1. (p + 1) - 1 = p
    OBVIOUS
  <2> QED
    BY <2>1 DEF Idle
<1>2. CASE w = p
  BY <1>1, <1>2
<1>3. CASE w # p
  <2>1. w \in 0..(p - 1) /\ p \in (w + 1)..p /\ \A k \in (w + 1)..(p - 1) : k \in (w + 1)..p
    BY <1>3
  <2>2. Idle(S, p, s)
    BY <1>1, <2>1 DEF Idle
  <2> QED
    BY <1>1, <2>1, <2>2
<1> QED
  BY <1>2, <1>3

LEMMA SentIsOfRound ==
  ASSUME NEW S, NEW r, CommandsAreTyped(S, r), NEW p \in 1..(Len(S) + 1), NEW c \in Sent(S, p)
  PROVE  c[1] = r /\ c \in Nat \X Nat \X Transfer!Streams
<1>1. Len(S) \in Nat
  BY DEF CommandsAreTyped
<1>2. PICK k \in 1..(p - 1) : S[k].op = "copy" /\ c = S[k].id
  BY DEF Sent
<1>3. k \in 1..Len(S)
  BY <1>1
<1>4. S[k] \in CopyOps
  BY <1>2, <1>3, ElementOfSeq, OpsByKind DEF CommandsAreTyped
<1> QED
  BY <1>2, <1>3, <1>4 DEF CommandsAreTyped, CopyOps

-----------------------------------------------------------------------------
(***************************************************************************)
(* The commands of every measurement are well formed: what they are, by    *)
(* their positions.                                                        *)
(***************************************************************************)
AllOps == CopyOps \cup RecordOps \cup HostOps
Buffers     == {Transfer!Source, Transfer!Device}
LoadBuffers == {Transfer!LoadSource, Transfer!Loaded}

IsMake(o, what)       == o.op = "make" /\ o.what = what
IsCopy(o, s, r, i, m) == o.op = "copy" /\ o.on = s /\ o.id = <<r, i, s>> /\ o.uses = m
IsRecord(o, e)        == o.op = "record" /\ o.what = e /\ o.on = Transfer!Default
IsWait(o, e)          == o.op = "wait" /\ o.what = e
IsDrain(o, s)         == o.op = "drain" /\ o.what = s
IsStop(o, by, r, n)   == o.op = "stop" /\ o.by = by /\ o.round = r /\ o.unit = n
IsElapsed(o, e, f, r, n) == o.op = "elapsed" /\ o.from = e /\ o.to = f /\ o.round = r /\ o.unit = n

LEMMA CommandKinds ==
  /\ \A what \in Resources : Transfer!Make(what) \in AllOps /\ IsMake(Transfer!Make(what), what)
  /\ \A r \in Nat, i \in Nat : Transfer!CopyAt(r, i) \in AllOps /\ IsCopy(Transfer!CopyAt(r, i), Transfer!Default, r, i, Buffers)
  /\ \A r \in Nat, i \in Nat : /\ Transfer!ProbeCopy(r, i) \in AllOps
                               /\ IsCopy(Transfer!ProbeCopy(r, i), Transfer!Probe, r, i, Buffers)
  /\ \A r \in Nat, i \in Nat :
        /\ Transfer!Copy(Transfer!Load, r, i, Transfer!LoadSource, Transfer!Loaded) \in AllOps
        /\ IsCopy(Transfer!Copy(Transfer!Load, r, i, Transfer!LoadSource, Transfer!Loaded), Transfer!Load, r, i, LoadBuffers)
  /\ \A e \in Transfer!Events : /\ Transfer!Record(e, Transfer!Default) \in AllOps
                                /\ IsRecord(Transfer!Record(e, Transfer!Default), e)
                                /\ Transfer!Wait(e) \in AllOps /\ IsWait(Transfer!Wait(e), e)
  /\ Transfer!Record(Transfer!Ready, Transfer!Probe) \in AllOps
  /\ Transfer!Record(Transfer!Ready, Transfer!Probe).op = "record"
  /\ Transfer!Record(Transfer!Ready, Transfer!Probe).what = Transfer!Ready
  /\ Transfer!Record(Transfer!Ready, Transfer!Probe).on = Transfer!Probe
  /\ \A s \in Transfer!Streams : Transfer!Drain(s) \in AllOps /\ IsDrain(Transfer!Drain(s), s)
  /\ Transfer!Clock \in AllOps /\ Transfer!Clock.op = "clock"
  /\ \A by \in {"wall", "enqueue", "ready"}, r \in Nat, n \in Nat :
        Transfer!Stop(by, r, n) \in AllOps /\ IsStop(Transfer!Stop(by, r, n), by, r, n)
  /\ \A e \in Transfer!Events, f \in Transfer!Events, r \in Nat, n \in Nat :
        Transfer!Elapsed(e, f, r, n) \in AllOps /\ IsElapsed(Transfer!Elapsed(e, f, r, n), e, f, r, n)
<1> USE DEF AllOps, HostOps
<1>1. \A what \in Resources : Transfer!Make(what) \in AllOps /\ IsMake(Transfer!Make(what), what)
  BY DEF Transfer!Make, IsMake
<1>2. \A s \in Transfer!Streams, r \in Nat, i \in Nat, m \in BufferPairs :
         /\ [op |-> "copy", on |-> s, id |-> <<r, i, s>>, uses |-> m] \in AllOps
         /\ IsCopy([op |-> "copy", on |-> s, id |-> <<r, i, s>>, uses |-> m], s, r, i, m)
  BY DEF CopyOps, IsCopy
<1>3. Transfer!Default \in Transfer!Streams /\ Transfer!Load \in Transfer!Streams /\ Transfer!Probe \in Transfer!Streams
      /\ Buffers \in BufferPairs /\ LoadBuffers \in BufferPairs /\ Transfer!Ready \in Transfer!Events
  BY DEF Transfer!Streams, Buffers, LoadBuffers, BufferPairs, Transfer!Events
<1>4. \A r \in Nat, i \in Nat :
         /\ Transfer!CopyAt(r, i) = [op |-> "copy", on |-> Transfer!Default, id |-> <<r, i, Transfer!Default>>, uses |-> Buffers]
         /\ Transfer!ProbeCopy(r, i) = [op |-> "copy", on |-> Transfer!Probe, id |-> <<r, i, Transfer!Probe>>, uses |-> Buffers]
         /\ Transfer!Copy(Transfer!Load, r, i, Transfer!LoadSource, Transfer!Loaded)
               = [op |-> "copy", on |-> Transfer!Load, id |-> <<r, i, Transfer!Load>>, uses |-> LoadBuffers]
  BY DEF Transfer!CopyAt, Transfer!ProbeCopy, Transfer!Copy, Buffers, LoadBuffers
<1>5. \A e \in Transfer!Events, s \in Transfer!Streams :
         /\ Transfer!Record(e, s) \in AllOps /\ Transfer!Record(e, s).op = "record"
         /\ Transfer!Record(e, s).what = e /\ Transfer!Record(e, s).on = s
  BY DEF Transfer!Record, RecordOps
<1>6. \A e \in Transfer!Events : Transfer!Wait(e) \in AllOps /\ IsWait(Transfer!Wait(e), e)
  BY DEF Transfer!Wait, IsWait
<1>7. \A s \in Transfer!Streams : Transfer!Drain(s) \in AllOps /\ IsDrain(Transfer!Drain(s), s)
  BY DEF Transfer!Drain, IsDrain
<1>8. Transfer!Clock \in AllOps /\ Transfer!Clock.op = "clock"
  BY DEF Transfer!Clock
<1>9. \A by \in {"wall", "enqueue", "ready"}, r \in Nat, n \in Nat :
        Transfer!Stop(by, r, n) \in AllOps /\ IsStop(Transfer!Stop(by, r, n), by, r, n)
  BY DEF Transfer!Stop, IsStop
<1>10. \A e \in Transfer!Events, f \in Transfer!Events, r \in Nat, n \in Nat :
        Transfer!Elapsed(e, f, r, n) \in AllOps /\ IsElapsed(Transfer!Elapsed(e, f, r, n), e, f, r, n)
  BY DEF Transfer!Elapsed, IsElapsed
<1> HIDE DEF AllOps, HostOps
<1>11. \A r \in Nat, i \in Nat :
         /\ Transfer!CopyAt(r, i) \in AllOps /\ IsCopy(Transfer!CopyAt(r, i), Transfer!Default, r, i, Buffers)
         /\ Transfer!ProbeCopy(r, i) \in AllOps /\ IsCopy(Transfer!ProbeCopy(r, i), Transfer!Probe, r, i, Buffers)
         /\ Transfer!Copy(Transfer!Load, r, i, Transfer!LoadSource, Transfer!Loaded) \in AllOps
         /\ IsCopy(Transfer!Copy(Transfer!Load, r, i, Transfer!LoadSource, Transfer!Loaded), Transfer!Load, r, i, LoadBuffers)
  BY <1>2, <1>3, <1>4
<1>12. \A e \in Transfer!Events : /\ Transfer!Record(e, Transfer!Default) \in AllOps
                                 /\ IsRecord(Transfer!Record(e, Transfer!Default), e)
  BY <1>3, <1>5 DEF IsRecord
<1>13. Transfer!Record(Transfer!Ready, Transfer!Probe) \in AllOps /\ Transfer!Record(Transfer!Ready, Transfer!Probe).op = "record"
       /\ Transfer!Record(Transfer!Ready, Transfer!Probe).what = Transfer!Ready
       /\ Transfer!Record(Transfer!Ready, Transfer!Probe).on = Transfer!Probe
  BY <1>3, <1>5
<1> QED
  BY <1>1, <1>6, <1>7, <1>8, <1>9, <1>10, <1>11, <1>12, <1>13

LEMMA Joined ==
  ASSUME NEW a \in Seq(AllOps), NEW b \in Seq(AllOps)
  PROVE  /\ a \o b \in Seq(AllOps) /\ Len(a \o b) = Len(a) + Len(b) /\ Len(a) \in Nat /\ Len(b) \in Nat
         /\ \A k \in 1..Len(a) : (a \o b)[k] = a[k]
         /\ \A k \in (Len(a) + 1)..(Len(a) + Len(b)) : (a \o b)[k] = b[k - Len(a)]
<1>1. Len(a) \in Nat /\ Len(b) \in Nat
  BY LenProperties
<1>2. /\ a \o b \in Seq(AllOps) /\ Len(a \o b) = Len(a) + Len(b)
      /\ \A i \in 1..Len(a) + Len(b) : (a \o b)[i] = IF i <= Len(a) THEN a[i] ELSE b[i - Len(a)]
  BY ConcatProperties
<1>3. \A k \in 1..Len(a) : (a \o b)[k] = a[k]
  BY <1>1, <1>2
<1>4. \A k \in (Len(a) + 1)..(Len(a) + Len(b)) : (a \o b)[k] = b[k - Len(a)]
  BY <1>1, <1>2
<1> QED
  BY <1>1, <1>2, <1>3, <1>4

LEMMA OneOp == ASSUME NEW o \in AllOps PROVE <<o>> \in Seq(AllOps) /\ Len(<<o>>) = 1 /\ <<o>>[1] = o
  OBVIOUS

(* Copies of one stream that are enqueued one after the other. *)
Batch(r, n, s) == {<<r, i, s>> : i \in 1..n}

LEMMA CopiesAreCounted == ASSUME NEW r, NEW n \in Nat, NEW s PROVE Cardinality(Batch(r, n, s)) = n
<1> DEFINE T == {<<r, i, s>> : i \in 1..n}
           f == [i \in 1..n |-> <<r, i, s>>]
<1>1. f \in Bijection(1..n, T)
  BY DEF Bijection, Injection, Surjection, IsInjective
<1> HIDE DEF f, T
<1>2. ExistsBijection(1..n, T)
  BY <1>1 DEF ExistsBijection
<1>3. Cardinality(T) = n
  BY <1>2, FS_CountingElements
<1> QED
  BY <1>3 DEF T, Batch

CopiesAt(S, a, n, r, s, m) ==
    \A k \in 1..Len(S) : IF k \in (a + 1)..(a + n) THEN IsCopy(S[k], s, r, k - a, m) ELSE S[k].op # "copy"

LEMMA CopiesAreSent ==
  ASSUME NEW S, NEW a \in Nat, NEW n \in Nat, NEW r, NEW s, NEW m, Len(S) \in Nat, CopiesAt(S, a, n, r, s, m),
         NEW p \in 1..(Len(S) + 1)
  PROVE  /\ p <= a + 1 => Sent(S, p) = {}
         /\ p > a + n => Sent(S, p) = Batch(r, n, s)
<1>1. \A k \in 1..(p - 1) : k \in 1..Len(S)
  OBVIOUS
<1>2. ASSUME p <= a + 1 PROVE Sent(S, p) = {}
  <2>1. \A k \in 1..(p - 1) : S[k].op # "copy"
    BY <1>1, <1>2 DEF CopiesAt
  <2> QED
    BY <2>1 DEF Sent
<1>3. ASSUME p > a + n PROVE Sent(S, p) = Batch(r, n, s)
  <2>1. ASSUME NEW c \in Sent(S, p) PROVE c \in Batch(r, n, s)
    <3>1. PICK k \in 1..(p - 1) : S[k].op = "copy" /\ c = S[k].id
      BY <2>1 DEF Sent
    <3>2. k \in (a + 1)..(a + n) /\ IsCopy(S[k], s, r, k - a, m)
      BY <1>1, <3>1 DEF CopiesAt
    <3>3. k - a \in 1..n /\ c = <<r, k - a, s>>
      BY <3>1, <3>2 DEF IsCopy
    <3> QED
      BY <3>3 DEF Batch
  <2>2. ASSUME NEW i \in 1..n PROVE <<r, i, s>> \in Sent(S, p)
    <3>1. a + i \in (a + 1)..(a + n) /\ a + i \in 1..(p - 1) /\ (a + i) - a = i
      BY <1>3
    <3>2. S[a + i].op = "copy" /\ S[a + i].id = <<r, i, s>>
      BY <1>1, <3>1 DEF CopiesAt, IsCopy
    <3> QED
      BY <3>1, <3>2 DEF Sent
  <2> QED
    BY <2>1, <2>2 DEF Batch
<1> QED
  BY <1>2, <1>3

LEMMA NeverIsIdle ==
  ASSUME NEW S, NEW p \in Nat \ {0}, NEW s, \A k \in 1..(p - 1) : ~Enqueues(S[k], s)
  PROVE  Idle(S, p, s)
<1>1. 0 \in 0..(p - 1) /\ 0 + 1 = 1
  OBVIOUS
<1> QED
  BY <1>1 DEF Idle

LEMMA SettledIsIdle ==
  ASSUME NEW S, NEW p \in Nat, NEW s, NEW w \in 0..(p - 1), w = 0 \/ Settles(S, w, s),
         \A k \in (w + 1)..(p - 1) : ~Enqueues(S[k], s)
  PROVE  Idle(S, p, s)
  BY DEF Idle

(* What comes before the rounds: allocations, copies, and waiting for them. *)
Prepares(S, c, m, w, s, b, e) ==
    /\ S \in Seq(AllOps) /\ m \in Nat /\ w \in Nat /\ s \in Transfer!Streams
    /\ Len(S) \in {m + w + 1, m + w + 2}
    /\ \A k \in 1..m : S[k].op = "make"
    /\ \A k \in (m + 1)..(m + w) : IsCopy(S[k], s, 0, k - m, b)
    /\ Len(S) = m + w + 1 => IsDrain(S[m + w + 1], s)
    /\ Len(S) = m + w + 2 => IsRecord(S[m + w + 1], e) /\ IsWait(S[m + w + 2], e) /\ s = Transfer!Default
    /\ \A x \in b : \E k \in 1..m : S[k].what = x
    /\ c.method # "ready" => s = Transfer!Default

LEMMA SetupIsWellFormed ==
  ASSUME NEW S, NEW c, NEW m, NEW w, NEW s, NEW b, NEW e, Prepares(S, c, m, w, s, b, e)
  PROVE  WellFormed(S, c, 0) /\ \A x : x \in Made(S, Len(S) + 1) <=> \E k \in 1..m : S[k].what = x
<1> USE DEF Prepares
<1>1. Len(S) \in Nat /\ \A k \in 1..Len(S) : k \in 1..m \/ k \in (m + 1)..(m + w) \/ k = m + w + 1 \/ k = m + w + 2
  OBVIOUS
<1>2. \A k \in 1..m : k \in 1..Len(S) /\ k \notin (m + 1)..(m + w)
  OBVIOUS
<1>3. \A k \in (m + 1)..(m + w) : /\ S[k].op = "copy" /\ S[k].on = s /\ S[k].uses = b /\ S[k].id[1] = 0 /\ S[k].id[3] = s
  BY DEF IsCopy
<1>4. \A k \in 1..Len(S) :
         /\ S[k].op \in {"make", "copy", "record", "wait", "drain"}
         /\ S[k].op = "make" <=> k \in 1..m
         /\ S[k].op = "copy" <=> k \in (m + 1)..(m + w)
         /\ S[k].op = "record" => k = m + w + 1 /\ S[k].on = s
  BY <1>1, <1>2, <1>3 DEF IsDrain, IsRecord, IsWait
<1>5. CommandsAreTyped(S, 0)
  BY <1>3, <1>4 DEF CommandsAreTyped, AllOps
<1>6. CopiesHaveBuffers(S, c, 0)
  <2>1. ASSUME NEW k \in 1..Len(S), S[k].op = "copy" PROVE S[k].uses \subseteq Made(S, k)
    <3>1. k \in (m + 1)..(m + w) /\ S[k].uses = b /\ \A j \in 1..m : j \in 1..(k - 1)
      BY <1>3, <1>4, <2>1
    <3> QED
      BY <3>1 DEF Made
  <2> QED
    BY <2>1 DEF CopiesHaveBuffers
<1>7. RoundsEndIdle(S)
  <2>1. (Len(S) + 1) - 1 = Len(S) /\ Len(S) + 1 \in Nat /\ Len(S) \in 0..Len(S) /\ (Len(S) + 1)..Len(S) = {} /\ 0 \in 0..Len(S)
    BY <1>1
  <2>2. Idle(S, Len(S) + 1, s)
    <3>1. Settles(S, Len(S), s)
      <4>1. CASE Len(S) = m + w + 1
        BY <4>1 DEF Settles, IsDrain
      <4>2. CASE Len(S) = m + w + 2
        <5>1. (m + w + 2) - 1 = m + w + 1 /\ m + w + 2 > 1
          OBVIOUS
        <5> QED
          BY <4>2, <5>1 DEF Settles, IsRecord, IsWait
      <4> QED
        BY <4>1, <4>2
    <3> QED
      BY <2>1, <3>1, SettledIsIdle
  <2>3. ASSUME NEW x \in Transfer!Streams, x # s PROVE Idle(S, Len(S) + 1, x)
    <3>1. \A k \in 1..Len(S) : ~Enqueues(S[k], x)
      BY <1>3, <1>4, <2>3 DEF Enqueues
    <3> QED
      BY <2>1, <3>1, SettledIsIdle
  <2> QED
    BY <2>2, <2>3 DEF RoundsEndIdle
<1>8. RecordsAreSingle(S, c) /\ OneStream(S, c)
  BY <1>3, <1>4 DEF RecordsAreSingle, OneStream
<1>9. ClocksAreFirst(S, c) /\ StopsCount(S, c, 0) /\ EventsCount(S, c)
  BY <1>4 DEF ClocksAreFirst, StopsCount, EventsCount
<1>10. \A x : x \in Made(S, Len(S) + 1) <=> \E k \in 1..m : S[k].what = x
  <2>1. (Len(S) + 1) - 1 = Len(S)
    BY <1>1
  <2>2. Made(S, Len(S) + 1) = {S[k].what : k \in {j \in 1..Len(S) : S[j].op = "make"}}
    BY <2>1 DEF Made
  <2>3. {j \in 1..Len(S) : S[j].op = "make"} = 1..m
    BY <1>2, <1>4
  <2> QED
    BY <2>2, <2>3, Zenon
<1> QED
  BY <1>5, <1>6, <1>7, <1>8, <1>9, <1>10 DEF WellFormed

LEMMA WarmUpLayout ==
  ASSUME TransferBounds, NEW e \in Transfer!Events
  PROVE  LET S == Transfer!WarmUp(e) IN
         /\ S \in Seq(AllOps) /\ Len(S) = Warmups + 2
         /\ \A k \in 1..Warmups : IsCopy(S[k], Transfer!Default, 0, k, Buffers)
         /\ IsRecord(S[Warmups + 1], e) /\ IsWait(S[Warmups + 2], e)
<1> DEFINE a == Transfer!CopiesOf(Warmups, 0)
           b == <<Transfer!Record(e, Transfer!Default), Transfer!Wait(e)>>
<1>1. Warmups \in Nat
  BY DEF TransferBounds, Transfer!CudaTransferAssumption
<1>2. a \in Seq(AllOps) /\ Len(a) = Warmups /\ \A k \in 1..Warmups : IsCopy(a[k], Transfer!Default, 0, k, Buffers)
  <2>1. \A i \in 1..Warmups : i \in Nat /\ Transfer!CopyAt(0, i) \in AllOps /\ IsCopy(Transfer!CopyAt(0, i), Transfer!Default, 0, i, Buffers)
    BY CommandKinds
  <2>2. a = [i \in 1..Warmups |-> Transfer!CopyAt(0, i)]
    BY DEF Transfer!CopiesOf
  <2>3. a \in Seq(AllOps) /\ Len(a) = Warmups
    BY <1>1, <2>1, <2>2, IsASeq
  <2> QED
    BY <2>1, <2>2, <2>3
<1>3. b \in Seq(AllOps) /\ Len(b) = 2 /\ IsRecord(b[1], e) /\ IsWait(b[2], e)
  BY CommandKinds
<1> HIDE DEF a, b
<1>4. /\ a \o b \in Seq(AllOps) /\ Len(a \o b) = Len(a) + Len(b)
      /\ \A k \in 1..Len(a) : (a \o b)[k] = a[k]
      /\ \A k \in (Len(a) + 1)..(Len(a) + Len(b)) : (a \o b)[k] = b[k - Len(a)]
  BY <1>2, <1>3, Joined
<1>5. (a \o b)[Warmups + 1] = b[1] /\ (a \o b)[Warmups + 2] = b[2]
  <2>1. /\ Warmups + 1 \in (Warmups + 1)..(Warmups + 2) /\ (Warmups + 1) - Warmups = 1
        /\ Warmups + 2 \in (Warmups + 1)..(Warmups + 2) /\ (Warmups + 2) - Warmups = 2
    BY <1>1
  <2> QED
    BY <1>2, <1>3, <1>4, <2>1
<1>6. Transfer!WarmUp(e) = a \o b
  BY DEF Transfer!WarmUp, a, b
<1> QED
  BY <1>2, <1>3, <1>4, <1>5, <1>6

Allocates(a, b) ==
    /\ a \in Seq(AllOps) /\ \A k \in 1..Len(a) : a[k].op = "make"
    /\ \A x \in b : \E k \in 1..Len(a) : a[k].what = x
WarmsUp(d, c, w, s, b, e) ==
    /\ d \in Seq(AllOps) /\ w \in Nat /\ s \in Transfer!Streams
    /\ Len(d) \in {w + 1, w + 2}
    /\ \A k \in 1..w : IsCopy(d[k], s, 0, k, b)
    /\ Len(d) = w + 1 => IsDrain(d[w + 1], s)
    /\ Len(d) = w + 2 => IsRecord(d[w + 1], e) /\ IsWait(d[w + 2], e) /\ s = Transfer!Default
    /\ c.method # "ready" => s = Transfer!Default

LEMMA SetupsJoin ==
  ASSUME NEW a, NEW d, NEW c, NEW w, NEW s, NEW b, NEW e, Allocates(a, b), WarmsUp(d, c, w, s, b, e)
  PROVE  /\ WellFormed(a \o d, c, 0)
         /\ \A x : x \in Made(a \o d, Len(a \o d) + 1) <=> \E k \in 1..Len(a) : a[k].what = x
<1> USE DEF Allocates, WarmsUp
<1> DEFINE S == a \o d
           m == Len(a)
<1>1. /\ S \in Seq(AllOps) /\ Len(S) = m + Len(d) /\ m \in Nat /\ Len(d) \in Nat
      /\ \A k \in 1..m : S[k] = a[k]
      /\ \A k \in (m + 1)..(m + Len(d)) : S[k] = d[k - m]
  BY Joined
<1> HIDE DEF S, m
<1>2. Len(S) \in {m + w + 1, m + w + 2}
  BY <1>1
<1>3. \A k \in 1..m : S[k].op = "make"
  BY <1>1 DEF m
<1>4. \A k \in (m + 1)..(m + w) : IsCopy(S[k], s, 0, k - m, b)
  <2>1. \A k \in (m + 1)..(m + w) : k \in (m + 1)..(m + Len(d)) /\ k - m \in 1..w
    BY <1>1
  <2> QED
    BY <1>1, <2>1
<1>5. Len(S) = m + w + 1 => IsDrain(S[m + w + 1], s)
  <2>1. Len(S) = m + w + 1 => Len(d) = w + 1 /\ m + w + 1 \in (m + 1)..(m + Len(d)) /\ (m + w + 1) - m = w + 1
    BY <1>1
  <2>2. Len(S) = m + w + 1 => S[m + w + 1] = d[w + 1]
    BY <1>1, <2>1
  <2> QED
    BY <2>1, <2>2
<1>6. Len(S) = m + w + 2 => IsRecord(S[m + w + 1], e) /\ IsWait(S[m + w + 2], e) /\ s = Transfer!Default
  <2>1. Len(S) = m + w + 2 => /\ Len(d) = w + 2 /\ m + w + 1 \in (m + 1)..(m + Len(d)) /\ (m + w + 1) - m = w + 1
                              /\ m + w + 2 \in (m + 1)..(m + Len(d)) /\ (m + w + 2) - m = w + 2
    BY <1>1
  <2>2. Len(S) = m + w + 2 => S[m + w + 1] = d[w + 1] /\ S[m + w + 2] = d[w + 2]
    BY <1>1, <2>1
  <2> QED
    BY <2>1, <2>2
<1>7. \A x : (\E k \in 1..m : S[k].what = x) <=> \E k \in 1..Len(a) : a[k].what = x
  BY <1>1 DEF m
<1>8. \A x \in b : \E k \in 1..m : S[k].what = x
  BY <1>7
<1>9. WellFormed(S, c, 0) /\ \A x : x \in Made(S, Len(S) + 1) <=> \E k \in 1..m : S[k].what = x
  <2>1. Prepares(S, c, m, w, s, b, e)
    BY <1>1, <1>2, <1>3, <1>4, <1>5, <1>6, <1>8 DEF Prepares
  <2> QED
    BY <2>1, SetupIsWellFormed
<1> QED
  BY <1>7, <1>9 DEF S

Timings == {"measure", "single", "contiguous"}
Owns(c) ==
    CASE c.method = "staging" -> {Transfer!Source}
      [] c.method \in Timings -> Buffers \cup {Transfer!Start, Transfer!End}
      [] c.method = "queue" -> Buffers \cup {Transfer!Marker(i) : i \in 0..Slots}
      [] c.method = "ready" -> Buffers \cup {Transfer!Ready, Transfer!Load, Transfer!Probe} \cup IF c.load THEN LoadBuffers ELSE {}

LEMMA StagingSetup ==
  ASSUME NEW c \in Measurements, c.method = "staging"
  PROVE  WellFormed(Transfer!Setup(c), c, 0) /\ Allocated(c) = {Transfer!Source}
<1> DEFINE o == Transfer!Make(Transfer!Source)
           S == <<o>>
<1>1. Transfer!Setup(c) = S
  BY DEF Transfer!Setup
<1>2. o \in AllOps /\ o.op = "make" /\ o.what = Transfer!Source
  BY CommandKinds DEF IsMake, Resources, Transfer!Memory
<1> HIDE DEF o
<1>3. S \in Seq(AllOps) /\ Len(S) = 1 /\ S[1] = o
  BY <1>2, OneOp
<1> HIDE DEF S
<1>4. \A k \in 1..Len(S) : k = 1 /\ S[k].op = "make"
  BY <1>2, <1>3
<1>5. CommandsAreTyped(S, 0) /\ CopiesHaveBuffers(S, c, 0) /\ RecordsAreSingle(S, c) /\ OneStream(S, c)
  BY <1>3, <1>4 DEF CommandsAreTyped, AllOps, CopiesHaveBuffers, RecordsAreSingle, OneStream
<1>6. ClocksAreFirst(S, c) /\ StopsCount(S, c, 0) /\ EventsCount(S, c)
  BY <1>4 DEF ClocksAreFirst, StopsCount, EventsCount
<1>7. RoundsEndIdle(S)
  <2>1. (1 + 1) - 1 = 1 /\ 0 \in 0..1
    OBVIOUS
  <2>2. \A x : \A k \in 1..1 : ~Enqueues(S[k], x)
    BY <1>3, <1>4 DEF Enqueues
  <2>3. \A x : Idle(S, 1 + 1, x)
    BY <2>1, <2>2, SettledIsIdle
  <2> QED
    BY <1>3, <2>3 DEF RoundsEndIdle
<1>8. Made(S, 2) = {Transfer!Source}
  <2>1. 2 - 1 = 1 /\ 1..1 = {1}
    OBVIOUS
  <2> QED
    BY <1>2, <1>3, <2>1 DEF Made
<1> QED
  BY <1>1, <1>3, <1>5, <1>6, <1>7, <1>8 DEF WellFormed, Allocated

LEMMA TimedSetup ==
  ASSUME TransferBounds, NEW c \in Measurements, c.method \in Timings
  PROVE  WellFormed(Transfer!Setup(c), c, 0) /\ Allocated(c) = Owns(c)
<1> DEFINE a == <<Transfer!Make(Transfer!Device), Transfer!Make(Transfer!Source),
                  Transfer!Make(Transfer!Start), Transfer!Make(Transfer!End)>>
           d == Transfer!WarmUp(Transfer!End)
<1>1. Transfer!Setup(c) = a \o d
  BY DEF Transfer!Setup, Timings
<1>2. /\ a \in Seq(AllOps) /\ Len(a) = 4 /\ \A k \in 1..4 : a[k].op = "make"
      /\ a[1].what = Transfer!Device /\ a[2].what = Transfer!Source /\ a[3].what = Transfer!Start /\ a[4].what = Transfer!End
  BY CommandKinds DEF IsMake, Resources, Transfer!Memory, Transfer!Events
<1>3. /\ d \in Seq(AllOps) /\ Len(d) = Warmups + 2 /\ \A k \in 1..Warmups : IsCopy(d[k], Transfer!Default, 0, k, Buffers)
      /\ IsRecord(d[Warmups + 1], Transfer!End) /\ IsWait(d[Warmups + 2], Transfer!End)
  BY WarmUpLayout DEF Transfer!Events
<1> HIDE DEF a, d
<1>4. Warmups \in Nat /\ Transfer!Default \in Transfer!Streams /\ Warmups + 2 # Warmups + 1
  BY DEF TransferBounds, Transfer!CudaTransferAssumption, Transfer!Streams
<1>5. \A x : (\E k \in 1..Len(a) : a[k].what = x)
             <=> x \in {Transfer!Device, Transfer!Source, Transfer!Start, Transfer!End}
  BY <1>2
<1>6. \A x \in Buffers : \E k \in 1..Len(a) : a[k].what = x
  BY <1>5 DEF Buffers
<1>7. /\ WellFormed(a \o d, c, 0)
      /\ \A x : x \in Made(a \o d, Len(a \o d) + 1) <=> \E k \in 1..Len(a) : a[k].what = x
  <2>1. Allocates(a, Buffers)
    BY <1>2, <1>6 DEF Allocates
  <2>2. WarmsUp(d, c, Warmups, Transfer!Default, Buffers, Transfer!End)
    BY <1>3, <1>4 DEF WarmsUp
  <2> QED
    BY <2>1, <2>2, SetupsJoin
<1>8. Owns(c) = {Transfer!Device, Transfer!Source, Transfer!Start, Transfer!End}
  BY DEF Owns, Timings, Buffers
<1>9. Allocated(c) = Owns(c)
  BY <1>1, <1>5, <1>7, <1>8 DEF Allocated
<1> QED
  BY <1>1, <1>7, <1>9

LEMMA QueueSetup ==
  ASSUME TransferBounds, NEW c \in Measurements, c.method = "queue"
  PROVE  WellFormed(Transfer!Setup(c), c, 0) /\ Allocated(c) = Owns(c)
<1> DEFINE a == <<Transfer!Make(Transfer!Device), Transfer!Make(Transfer!Source)>>
           f == [i \in 1..(Slots + 1) |-> Transfer!Make(Transfer!Marker(i - 1))]
           d == Transfer!WarmUp(Transfer!Marker(Slots))
<1>0. Slots \in Nat /\ Warmups \in Nat /\ Slots + 1 \in Nat /\ Transfer!Default \in Transfer!Streams /\ Warmups + 2 # Warmups + 1
  BY DEF TransferBounds, Transfer!CudaTransferAssumption, Transfer!Streams
<1>1. Transfer!Setup(c) = (a \o f) \o d
  BY DEF Transfer!Setup
<1>2. /\ a \in Seq(AllOps) /\ Len(a) = 2 /\ \A k \in 1..2 : a[k].op = "make"
      /\ a[1].what = Transfer!Device /\ a[2].what = Transfer!Source
  BY CommandKinds DEF IsMake, Resources, Transfer!Memory
<1>m. \A i \in 0..Slots : Transfer!Marker(i) \in Transfer!Events
  BY DEF Transfer!Events
<1>3. /\ f \in Seq(AllOps) /\ Len(f) = Slots + 1
      /\ \A k \in 1..(Slots + 1) : f[k].op = "make" /\ f[k].what = Transfer!Marker(k - 1)
  <2>1. \A k \in 1..(Slots + 1) : k - 1 \in 0..Slots
    BY <1>0
  <2>2. \A k \in 1..(Slots + 1) : Transfer!Make(Transfer!Marker(k - 1)) \in AllOps
                                 /\ IsMake(Transfer!Make(Transfer!Marker(k - 1)), Transfer!Marker(k - 1))
    BY <1>m, <2>1, CommandKinds DEF Resources
  <2>3. f \in Seq(AllOps) /\ Len(f) = Slots + 1
    BY <1>0, <2>2, IsASeq
  <2> QED
    BY <2>2, <2>3 DEF IsMake
<1>4. /\ d \in Seq(AllOps) /\ Len(d) = Warmups + 2 /\ \A k \in 1..Warmups : IsCopy(d[k], Transfer!Default, 0, k, Buffers)
      /\ IsRecord(d[Warmups + 1], Transfer!Marker(Slots)) /\ IsWait(d[Warmups + 2], Transfer!Marker(Slots))
  <2>1. Transfer!Marker(Slots) \in Transfer!Events
    BY <1>0, <1>m
  <2> QED
    BY <2>1, WarmUpLayout
<1> DEFINE g == a \o f
<1> HIDE DEF a, f, d
<1>5. /\ g \in Seq(AllOps) /\ Len(g) = Slots + 3
      /\ \A k \in 1..2 : g[k] = a[k]
      /\ \A k \in 3..(Slots + 3) : g[k] = f[k - 2]
  <2>1. /\ g \in Seq(AllOps) /\ Len(g) = Len(a) + Len(f)
        /\ \A k \in 1..Len(a) : g[k] = a[k]
        /\ \A k \in (Len(a) + 1)..(Len(a) + Len(f)) : g[k] = f[k - Len(a)]
    BY <1>2, <1>3, Joined
  <2>2. 2 + 1 = 3 /\ 2 + (Slots + 1) = Slots + 3
    BY <1>0
  <2> QED
    BY <1>2, <1>3, <2>1, <2>2
<1> HIDE DEF g
<1>6. \A k \in 1..Len(g) : k = 1 \/ k = 2 \/ (k \in 3..(Slots + 3) /\ k - 2 \in 1..(Slots + 1) /\ (k - 2) - 1 = k - 3 /\ k - 3 \in 0..Slots)
  BY <1>0, <1>5
<1>7. \A k \in 1..Len(g) : g[k].op = "make"
  BY <1>2, <1>3, <1>5, <1>6
<1>8. \A x : (\E k \in 1..Len(g) : g[k].what = x) <=> x \in Owns(c)
  <2>1. Owns(c) = {Transfer!Device, Transfer!Source} \cup {Transfer!Marker(i) : i \in 0..Slots}
    BY DEF Owns, Timings, Buffers
  <2>2. \A k \in 1..Len(g) : g[k].what \in Owns(c)
    BY <1>2, <1>3, <1>5, <1>6, <2>1
  <2>3. 1 \in 1..Len(g) /\ 2 \in 1..Len(g) /\ g[1].what = Transfer!Device /\ g[2].what = Transfer!Source
    BY <1>0, <1>2, <1>5
  <2>4. ASSUME NEW i \in 0..Slots PROVE i + 3 \in 1..Len(g) /\ g[i + 3].what = Transfer!Marker(i)
    <3>1. i + 3 \in 1..Len(g) /\ i + 3 \in 3..(Slots + 3) /\ (i + 3) - 2 = i + 1 /\ i + 1 \in 1..(Slots + 1) /\ (i + 1) - 1 = i
      BY <1>0, <1>5
    <3>2. g[i + 3] = f[i + 1] /\ f[i + 1].what = Transfer!Marker((i + 1) - 1)
      BY <1>3, <1>5, <3>1
    <3> QED
      BY <3>1, <3>2
  <2> QED
    BY <2>1, <2>2, <2>3, <2>4
<1>9. \A x \in Buffers : \E k \in 1..Len(g) : g[k].what = x
  BY <1>8 DEF Owns, Timings
<1>10. /\ WellFormed(g \o d, c, 0)
       /\ \A x : x \in Made(g \o d, Len(g \o d) + 1) <=> \E k \in 1..Len(g) : g[k].what = x
  <2>1. Allocates(g, Buffers)
    BY <1>5, <1>7, <1>9 DEF Allocates
  <2>2. WarmsUp(d, c, Warmups, Transfer!Default, Buffers, Transfer!Marker(Slots))
    BY <1>0, <1>4 DEF WarmsUp
  <2> QED
    BY <2>1, <2>2, SetupsJoin
<1>11. Transfer!Setup(c) = g \o d
  BY <1>1 DEF g
<1>12. Allocated(c) = Owns(c)
  BY <1>8, <1>10, <1>11 DEF Allocated
<1> QED
  BY <1>10, <1>11, <1>12

LEMMA Regrouped ==
  ASSUME NEW a \in Seq(AllOps), NEW l \in Seq(AllOps), NEW p \in Seq(AllOps), NEW z \in Seq(AllOps)
  PROVE  a \o ((l \o p) \o z) = (a \o l) \o (p \o z)
<1>1. a \o l \in Seq(AllOps) /\ p \o z \in Seq(AllOps)
  BY Joined
<1>2. (l \o p) \o z = l \o (p \o z)
  BY ConcatAssociative
<1>3. a \o (l \o (p \o z)) = (a \o l) \o (p \o z)
  <2>1. ASSUME NEW u \in Seq(AllOps) PROVE (a \o l) \o u = a \o (l \o u)
    BY ConcatAssociative, SMTT(60)
  <2> QED
    BY <1>1, <2>1
<1> QED
  BY <1>2, <1>3

LEMMA ReadySetup ==
  ASSUME TransferBounds, NEW c \in Measurements, c.method = "ready"
  PROVE  WellFormed(Transfer!Setup(c), c, 0) /\ Allocated(c) = Owns(c)
<1> DEFINE a == <<Transfer!Make(Transfer!Device), Transfer!Make(Transfer!Source), Transfer!Make(Transfer!Ready),
                  Transfer!Make(Transfer!Load), Transfer!Make(Transfer!Probe)>>
           x == IF c.load THEN <<Transfer!Make(Transfer!Loaded), Transfer!Make(Transfer!LoadSource)>>
                              \o Transfer!LoadCopies(Warmups, 0) \o <<Transfer!Drain(Transfer!Load)>>
                ELSE [i \in 1..Warmups |-> Transfer!ProbeCopy(0, i)] \o <<Transfer!Drain(Transfer!Probe)>>
<1>0. /\ Warmups \in Nat /\ Transfer!Load \in Transfer!Streams /\ Transfer!Probe \in Transfer!Streams
      /\ Warmups + 1 # Warmups + 2 /\ (Warmups + 1) - Warmups = 1 /\ Warmups + 1 \in (Warmups + 1)..(Warmups + 1)
  BY DEF TransferBounds, Transfer!CudaTransferAssumption, Transfer!Streams
<1>1. Transfer!Setup(c) = a \o x
  BY DEF Transfer!Setup
<1>2. /\ a \in Seq(AllOps) /\ Len(a) = 5 /\ \A k \in 1..5 : a[k].op = "make"
      /\ a[1].what = Transfer!Device /\ a[2].what = Transfer!Source /\ a[3].what = Transfer!Ready
      /\ a[4].what = Transfer!Load /\ a[5].what = Transfer!Probe
  BY CommandKinds DEF IsMake, Resources, Transfer!Memory, Transfer!Events
<1>3. CASE ~c.load
  <2> DEFINE p == [i \in 1..Warmups |-> Transfer!ProbeCopy(0, i)]
             z == <<Transfer!Drain(Transfer!Probe)>>
             d == p \o z
  <2>1. x = d
    BY <1>3
  <2>2. p \in Seq(AllOps) /\ Len(p) = Warmups /\ \A k \in 1..Warmups : IsCopy(p[k], Transfer!Probe, 0, k, Buffers)
    <3>1. \A i \in 1..Warmups : i \in Nat /\ Transfer!ProbeCopy(0, i) \in AllOps /\ IsCopy(Transfer!ProbeCopy(0, i), Transfer!Probe, 0, i, Buffers)
      BY CommandKinds
    <3>2. p \in Seq(AllOps) /\ Len(p) = Warmups
      BY <1>0, <3>1, IsASeq
    <3> QED
      BY <3>1, <3>2
  <2>3. z \in Seq(AllOps) /\ Len(z) = 1 /\ IsDrain(z[1], Transfer!Probe)
    BY <1>0, CommandKinds
  <2> HIDE DEF p, z, a, x
  <2>4. /\ d \in Seq(AllOps) /\ Len(d) = Len(p) + Len(z)
        /\ \A k \in 1..Len(p) : d[k] = p[k]
        /\ \A k \in (Len(p) + 1)..(Len(p) + Len(z)) : d[k] = z[k - Len(p)]
    BY <2>2, <2>3, Joined
  <2> HIDE DEF d
  <2>5. Len(d) = Warmups + 1 /\ d[Warmups + 1] = z[1]
    BY <1>0, <2>2, <2>3, <2>4
  <2>6. \A k \in 1..Warmups : d[k] = p[k]
    BY <2>2, <2>4
  <2>7. WarmsUp(d, c, Warmups, Transfer!Probe, Buffers, Transfer!Ready)
    <3>1. \A k \in 1..Warmups : IsCopy(d[k], Transfer!Probe, 0, k, Buffers)
      BY <2>2, <2>6
    <3> QED
      BY <1>0, <2>3, <2>4, <2>5, <3>1 DEF WarmsUp
  <2>8. \A b : (\E k \in 1..Len(a) : a[k].what = b) <=> b \in Owns(c)
    <3>1. Owns(c) = {Transfer!Device, Transfer!Source, Transfer!Ready, Transfer!Load, Transfer!Probe}
      BY <1>3 DEF Owns, Timings, Buffers
    <3> QED
      BY <1>2, <3>1
  <2>9. \A b \in Buffers : \E k \in 1..Len(a) : a[k].what = b
    BY <2>8 DEF Owns, Timings
  <2>10. Allocates(a, Buffers)
    BY <1>2, <2>9 DEF Allocates
  <2>11. /\ WellFormed(a \o d, c, 0)
         /\ \A b : b \in Made(a \o d, Len(a \o d) + 1) <=> \E k \in 1..Len(a) : a[k].what = b
    BY <2>7, <2>10, SetupsJoin
  <2>12. Allocated(c) = Owns(c)
    BY <1>1, <2>1, <2>8, <2>11 DEF Allocated
  <2> QED
    BY <1>1, <2>1, <2>11, <2>12
<1>4. CASE c.load
  <2> DEFINE l == <<Transfer!Make(Transfer!Loaded), Transfer!Make(Transfer!LoadSource)>>
             p == Transfer!LoadCopies(Warmups, 0)
             z == <<Transfer!Drain(Transfer!Load)>>
             g == a \o l
             d == p \o z
  <2>1. x = (l \o p) \o z
    BY <1>4
  <2>2. p \in Seq(AllOps) /\ Len(p) = Warmups /\ \A k \in 1..Warmups : IsCopy(p[k], Transfer!Load, 0, k, LoadBuffers)
    <3>1. \A i \in 1..Warmups :
             /\ i \in Nat /\ Transfer!Copy(Transfer!Load, 0, i, Transfer!LoadSource, Transfer!Loaded) \in AllOps
             /\ IsCopy(Transfer!Copy(Transfer!Load, 0, i, Transfer!LoadSource, Transfer!Loaded), Transfer!Load, 0, i, LoadBuffers)
      BY CommandKinds
    <3>2. p = [i \in 1..Warmups |-> Transfer!Copy(Transfer!Load, 0, i, Transfer!LoadSource, Transfer!Loaded)]
      BY DEF Transfer!LoadCopies
    <3>3. p \in Seq(AllOps) /\ Len(p) = Warmups
      BY <1>0, <3>1, <3>2, IsASeq
    <3> QED
      BY <3>1, <3>2, <3>3
  <2>3. z \in Seq(AllOps) /\ Len(z) = 1 /\ IsDrain(z[1], Transfer!Load)
    BY <1>0, CommandKinds
  <2>l. l \in Seq(AllOps) /\ Len(l) = 2 /\ \A k \in 1..2 : l[k].op = "make" /\ l[1].what = Transfer!Loaded /\ l[2].what = Transfer!LoadSource
    BY CommandKinds DEF IsMake, Resources, Transfer!Memory
  <2> HIDE DEF p, z, a, x, l
  <2>4. /\ d \in Seq(AllOps) /\ Len(d) = Len(p) + Len(z)
        /\ \A k \in 1..Len(p) : d[k] = p[k]
        /\ \A k \in (Len(p) + 1)..(Len(p) + Len(z)) : d[k] = z[k - Len(p)]
    BY <2>2, <2>3, Joined
  <2>g. /\ g \in Seq(AllOps) /\ Len(g) = Len(a) + Len(l)
        /\ \A k \in 1..Len(a) : g[k] = a[k]
        /\ \A k \in (Len(a) + 1)..(Len(a) + Len(l)) : g[k] = l[k - Len(a)]
    BY <1>2, <2>l, Joined
  <2>a. a \o x = g \o d
    <3>1. a \o ((l \o p) \o z) = (a \o l) \o (p \o z)
      <4>1. a \in Seq(AllOps) /\ l \in Seq(AllOps) /\ p \in Seq(AllOps) /\ z \in Seq(AllOps)
        BY <1>2, <2>2, <2>3, <2>l
      <4> HIDE DEF d, g
      <4>2. \A u1, u2, u3, u4 \in Seq(AllOps) : u1 \o ((u2 \o u3) \o u4) = (u1 \o u2) \o (u3 \o u4)
        BY Regrouped
      <4>3. \A u3, u4 \in Seq(AllOps) : a \o ((l \o u3) \o u4) = (a \o l) \o (u3 \o u4)
        BY <4>1, <4>2, Zenon
      <4> QED
        BY <4>1, <4>3, Zenon
    <3>2. a \o x = a \o ((l \o p) \o z)
      BY <2>1, Zenon
    <3> QED
      BY <3>1, <3>2, Zenon
  <2> HIDE DEF d, g
  <2>5. Len(d) = Warmups + 1 /\ d[Warmups + 1] = z[1]
    BY <1>0, <2>2, <2>3, <2>4
  <2>6. \A k \in 1..Warmups : d[k] = p[k]
    BY <2>2, <2>4
  <2>7. WarmsUp(d, c, Warmups, Transfer!Load, LoadBuffers, Transfer!Ready)
    <3>1. \A k \in 1..Warmups : IsCopy(d[k], Transfer!Load, 0, k, LoadBuffers)
      BY <2>2, <2>6
    <3> QED
      BY <1>0, <2>3, <2>4, <2>5, <3>1 DEF WarmsUp
  <2>h. Len(g) = 7 /\ g[1] = a[1] /\ g[2] = a[2] /\ g[3] = a[3] /\ g[4] = a[4] /\ g[5] = a[5] /\ g[6] = l[1] /\ g[7] = l[2]
    BY <1>2, <2>l, <2>g
  <2>8. \A b : (\E k \in 1..Len(g) : g[k].what = b) <=> b \in Owns(c)
    <3>1. Owns(c) = {Transfer!Device, Transfer!Source, Transfer!Ready, Transfer!Load, Transfer!Probe,
                     Transfer!Loaded, Transfer!LoadSource}
      BY <1>4 DEF Owns, Timings, Buffers, LoadBuffers
    <3>2. \A k : k \in 1..7 <=> k \in {1, 2, 3, 4, 5, 6, 7}
      OBVIOUS
    <3> QED
      BY <1>2, <2>h, <2>l, <3>1, <3>2
  <2>9. \A b \in LoadBuffers : \E k \in 1..Len(g) : g[k].what = b
    BY <1>4, <2>8 DEF Owns, Timings
  <2>10. Allocates(g, LoadBuffers)
    <3>1. \A k \in 1..Len(g) : k \in {1, 2, 3, 4, 5, 6, 7}
      BY <2>h
    <3>2. \A k \in 1..Len(g) : g[k].op = "make"
      BY <1>2, <2>h, <2>l, <3>1
    <3> QED
      BY <2>g, <2>9, <3>2 DEF Allocates
  <2>11. /\ WellFormed(g \o d, c, 0)
         /\ \A b : b \in Made(g \o d, Len(g \o d) + 1) <=> \E k \in 1..Len(g) : g[k].what = b
    BY <2>7, <2>10, SetupsJoin
  <2>12. Allocated(c) = Owns(c)
    BY <1>1, <2>a, <2>8, <2>11 DEF Allocated
  <2> QED
    BY <1>1, <2>a, <2>11, <2>12
<1> QED
  BY <1>3, <1>4

LEMMA SetupsAreWellFormed ==
  ASSUME TransferBounds
  PROVE  \A c \in Measurements : WellFormed(Transfer!Setup(c), c, 0) /\ Allocated(c) = Owns(c)
<1>1. \A c \in Measurements : c.method = "staging" \/ c.method \in Timings \/ c.method = "queue" \/ c.method = "ready"
  BY DEF Measurements, Methods, Timings
<1>2. \A c \in Measurements : c.method = "staging" => Owns(c) = {Transfer!Source}
  BY DEF Owns, Timings
<1> QED
  BY <1>1, <1>2, StagingSetup, TimedSetup, QueueSetup, ReadySetup

(* Every method releases what it owns, a pageable host buffer after the device's. *)
LEMMA ReleasesAreSound == ASSUME TransferBounds PROVE ReleasesAreAll /\ PageableIsLast
<1> SUFFICES ASSUME NEW c \in Measurements
             PROVE  /\ Len(Transfer!Releases(c)) \in Nat
                    /\ \A b \in Owns(c) : \E i \in 1..Len(Transfer!Releases(c)) : Transfer!Releases(c)[i] = b
                    /\ c.mode = "pageable" =>
                          \A k, i \in 1..Len(Transfer!Releases(c)) :
                              Transfer!Releases(c)[k] = Transfer!Source
                              /\ Transfer!Releases(c)[i] \in {Transfer!Device, Transfer!Loaded} => i < k
  <2>1. \A c \in Measurements : Allocated(c) = Owns(c)
    BY SetupsAreWellFormed
  <2>2. ReleasesAreAll
    BY <2>1 DEF ReleasesAreAll
  <2>3. PageableIsLast
    BY DEF PageableIsLast
  <2> QED
    BY <2>2, <2>3
<1> DEFINE R == Transfer!Releases(c)
           h == Transfer!HostAndDevice(c)
<1>0. /\ Slots \in Nat /\ Slots + 1 \in Nat
      /\ c.method = "staging" \/ c.method \in Timings \/ c.method = "queue" \/ c.method = "ready"
  BY DEF TransferBounds, Transfer!CudaTransferAssumption, Measurements, Methods, Timings
<1>1. /\ h \in Seq(Resources) /\ Len(h) = 2
      /\ IF c.mode = "pageable" THEN h[1] = Transfer!Device /\ h[2] = Transfer!Source
         ELSE h[1] = Transfer!Source /\ h[2] = Transfer!Device
  <2>1. /\ <<Transfer!Device, Transfer!Source>> \in Seq(Resources)
        /\ <<Transfer!Source, Transfer!Device>> \in Seq(Resources)
    BY DEF Resources, Transfer!Memory
  <2>2. CASE c.mode = "pageable"
    <3>1. h = <<Transfer!Device, Transfer!Source>>
      BY <2>2 DEF Transfer!HostAndDevice
    <3> QED
      BY <2>1, <2>2, <3>1
  <2>3. CASE c.mode # "pageable"
    <3>1. h = <<Transfer!Source, Transfer!Device>>
      BY <2>3 DEF Transfer!HostAndDevice
    <3> QED
      BY <2>1, <2>3, <3>1
  <2> QED
    BY <2>2, <2>3
<1>2. CASE c.method = "staging"
  <2>1. R = <<Transfer!Source>>
    BY <1>2 DEF Transfer!Releases
  <2>2. Len(R) = 1 /\ R[1] = Transfer!Source /\ Transfer!Source \notin {Transfer!Device, Transfer!Loaded}
    BY <2>1 DEF Transfer!Source, Transfer!Device, Transfer!Loaded
  <2>3. Owns(c) = {Transfer!Source}
    BY <1>2 DEF Owns, Timings
  <2> HIDE DEF R
  <2> QED
    BY <2>2, <2>3 DEF R
<1> DEFINE Fits(g) == /\ g \in Seq(Resources) /\ R = g \o h
                      /\ \A b \in Owns(c) : b \in Buffers \/ \E i \in 1..Len(g) : g[i] = b
                      /\ \A i \in 1..Len(g) : g[i] # Transfer!Source
           Goal == /\ Len(R) \in Nat /\ \A b \in Owns(c) : \E i \in 1..Len(R) : R[i] = b
                   /\ c.mode = "pageable" =>
                         \A k, i \in 1..Len(R) : R[k] = Transfer!Source /\ R[i] \in {Transfer!Device, Transfer!Loaded} => i < k
<1>3. ASSUME NEW g, Fits(g) PROVE Goal
  <2> HIDE DEF h, R
  <2> DEFINE n == Len(g)
  <2>1. /\ n \in Nat /\ Len(R) = n + 2 /\ \A i \in 1..n : R[i] = g[i]
        /\ R[n + 1] = h[1] /\ R[n + 2] = h[2]
    <3>1. /\ Len(g \o h) = Len(g) + Len(h)
          /\ \A i \in 1..Len(g) + Len(h) : (g \o h)[i] = IF i <= Len(g) THEN g[i] ELSE h[i - Len(g)]
      BY <1>1, <1>3, ConcatProperties
    <3>2. n \in Nat
      BY LenProperties
    <3>3. /\ \A i \in 1..n : i \in 1..Len(g) + Len(h) /\ i <= Len(g)
          /\ n + 1 \in 1..Len(g) + Len(h) /\ ~(n + 1 <= Len(g)) /\ (n + 1) - Len(g) = 1
          /\ n + 2 \in 1..Len(g) + Len(h) /\ ~(n + 2 <= Len(g)) /\ (n + 2) - Len(g) = 2
      BY <1>1, <3>2
    <3> QED
      BY <1>1, <1>3, <3>1, <3>2, <3>3
  <2> HIDE DEF n
  <2>2. \A i \in 1..Len(R) : i \in 1..n \/ i = n + 1 \/ i = n + 2
    BY <2>1
  <2>3. n + 1 \in 1..Len(R) /\ n + 2 \in 1..Len(R) /\ \A i \in 1..n : i \in 1..Len(R)
    BY <2>1
  <2>4. \A b \in Owns(c) : \E i \in 1..Len(R) : R[i] = b
    BY <1>1, <1>3, <2>1, <2>3 DEF Buffers, n
  <2>5. ASSUME c.mode = "pageable", NEW k \in 1..Len(R), NEW i \in 1..Len(R), R[k] = Transfer!Source,
               R[i] \in {Transfer!Device, Transfer!Loaded}
        PROVE  i < k
    <3>1. Transfer!Source \notin {Transfer!Device, Transfer!Loaded} /\ Transfer!Device # Transfer!Source
      BY DEF Transfer!Source, Transfer!Device, Transfer!Loaded
    <3>2. k = n + 2
      BY <1>1, <1>3, <2>1, <2>2, <2>5, <3>1 DEF n
    <3>3. i # n + 2
      BY <1>1, <2>1, <2>5, <3>1
    <3> QED
      BY <2>1, <2>2, <3>2, <3>3
  <2> QED
    BY <2>1, <2>4, <2>5
<1> HIDE DEF Fits, Goal
<1>4. CASE c.method \in Timings
  <2> DEFINE g == <<Transfer!End, Transfer!Start>>
  <2>1. R = g \o h
    BY <1>4 DEF Transfer!Releases, Timings
  <2>2. g \in Seq(Resources) /\ Len(g) = 2 /\ g[1] = Transfer!End /\ g[2] = Transfer!Start
    BY DEF Resources, Transfer!Events
  <2>3. Owns(c) = Buffers \cup {Transfer!Start, Transfer!End}
    BY <1>4 DEF Owns, Timings
  <2>4. Transfer!End # Transfer!Source /\ Transfer!Start # Transfer!Source
    BY DEF Transfer!End, Transfer!Start, Transfer!Source
  <2> HIDE DEF g, h, R
  <2>5. \A b \in Owns(c) : b \in Buffers \/ \E i \in 1..Len(g) : g[i] = b
    BY <2>2, <2>3
  <2>6. \A i \in 1..Len(g) : g[i] # Transfer!Source
    BY <2>2, <2>4
  <2>8. Fits(g)
    BY <2>1, <2>2, <2>5, <2>6 DEF Fits
  <2>9. Goal
    BY <1>3, <2>8
  <2> QED
    BY <2>9 DEF Goal, R
<1>5. CASE c.method = "queue"
  <2> DEFINE g == [i \in 1..(Slots + 1) |-> Transfer!Marker(Slots + 1 - i)]
  <2>1. R = g \o h
    BY <1>5 DEF Transfer!Releases
  <2>2. g \in Seq(Resources) /\ Len(g) = Slots + 1
    <3>1. \A i \in 1..(Slots + 1) : Slots + 1 - i \in 0..Slots
      BY <1>0
    <3>2. \A i \in 1..(Slots + 1) : Transfer!Marker(Slots + 1 - i) \in Resources
      BY <3>1 DEF Resources, Transfer!Events
    <3> QED
      BY <1>0, <3>2, IsASeq
  <2>3. Owns(c) = Buffers \cup {Transfer!Marker(i) : i \in 0..Slots}
    BY <1>5 DEF Owns, Timings
  <2>4. \A i : Transfer!Marker(i) # Transfer!Source
    BY DEF Transfer!Marker, Transfer!Source
  <2>5. \A i \in 0..Slots : Slots + 1 - i \in 1..(Slots + 1) /\ Slots + 1 - (Slots + 1 - i) = i
    BY <1>0
  <2>6. \A b \in Owns(c) : b \in Buffers \/ \E i \in 1..Len(g) : g[i] = b
    BY <2>2, <2>3, <2>5
  <2>7. \A i \in 1..Len(g) : g[i] # Transfer!Source
    BY <2>2, <2>4
  <2> HIDE DEF g, h, R
  <2>8. Fits(g)
    BY <2>1, <2>2, <2>6, <2>7 DEF Fits
  <2>9. Goal
    BY <1>3, <2>8
  <2> QED
    BY <2>9 DEF Goal, R
<1>6. CASE c.method = "ready"
  <2> DEFINE g == <<Transfer!Probe, Transfer!Load, Transfer!Ready, Transfer!Loaded, Transfer!LoadSource>>
  <2>1. R = g \o h
    BY <1>6 DEF Transfer!Releases
  <2>2. /\ g \in Seq(Resources) /\ Len(g) = 5 /\ g[1] = Transfer!Probe /\ g[2] = Transfer!Load
        /\ g[3] = Transfer!Ready /\ g[4] = Transfer!Loaded /\ g[5] = Transfer!LoadSource
    BY DEF Resources, Transfer!Events, Transfer!Memory
  <2>3. Owns(c) \subseteq Buffers \cup {Transfer!Ready, Transfer!Load, Transfer!Probe, Transfer!Loaded, Transfer!LoadSource}
    BY <1>6 DEF Owns, Timings, LoadBuffers
  <2>4. Transfer!Source \notin {Transfer!Ready, Transfer!Load, Transfer!Probe, Transfer!Loaded, Transfer!LoadSource}
    BY DEF Transfer!Source, Transfer!Ready, Transfer!Load, Transfer!Probe, Transfer!Loaded, Transfer!LoadSource
  <2> HIDE DEF g, h, R
  <2>5. \A b \in Owns(c) : b \in Buffers \/ \E i \in 1..Len(g) : g[i] = b
    BY <2>2, <2>3
  <2>6. \A i \in 1..Len(g) : g[i] # Transfer!Source
    <3>1. \A i \in 1..5 : i \in {1, 2, 3, 4, 5}
      OBVIOUS
    <3> QED
      BY <2>2, <2>4, <3>1
  <2>8. Fits(g)
    BY <2>1, <2>2, <2>5, <2>6 DEF Fits
  <2>9. Goal
    BY <1>3, <2>8
  <2> QED
    BY <2>9 DEF Goal, R
<1> QED
  BY <1>0, <1>2, <1>4, <1>5, <1>6

(* A round on one stream: its copies are between two recorded events. *)
IsTimed(S, c, r, st, a, n, e) ==
    /\ S \in Seq(AllOps) /\ r \in Nat \ {0} /\ st \in Nat \ {0} /\ a \in Nat /\ n \in Nat /\ e \in Nat
    /\ st <= a /\ a + n < e /\ e + 1 < Len(S) /\ c.method # "ready" /\ Buffers \subseteq Allocated(c)
    /\ CopiesAt(S, a, n, r, Transfer!Default, Buffers)
    /\ IsRecord(S[st], Transfer!Start) /\ IsRecord(S[e], Transfer!End) /\ IsWait(S[e + 1], Transfer!End)
    /\ IsElapsed(S[Len(S)], Transfer!Start, Transfer!End, r, n)
    /\ \A k \in 1..Len(S) :
          \/ k \in {st, e, e + 1, Len(S)} \/ k \in (a + 1)..(a + n)
          \/ S[k].op = "clock" /\ k <= a
          \/ /\ S[k].op = "stop" /\ S[k].round = r /\ \E j \in 1..(k - 1) : S[j].op = "clock"
             /\ S[k].by = "enqueue" \/ (S[k].by = "wall" /\ k > e + 1 /\ S[k].unit = n)

LEMMA TimedIsWellFormed ==
  ASSUME NEW S, NEW c, NEW r, NEW st, NEW a, NEW n, NEW e, IsTimed(S, c, r, st, a, n, e)
  PROVE  WellFormed(S, c, r)
<1>1. /\ S \in Seq(AllOps) /\ r \in Nat \ {0} /\ st \in Nat \ {0} /\ a \in Nat /\ n \in Nat /\ e \in Nat
      /\ st <= a /\ a + n < e /\ e + 1 < Len(S) /\ c.method # "ready" /\ Buffers \subseteq Allocated(c) /\ Len(S) \in Nat
      /\ CopiesAt(S, a, n, r, Transfer!Default, Buffers)
  BY LenProperties DEF IsTimed
<1>2. /\ S[st].op = "record" /\ S[st].what = Transfer!Start /\ S[st].on = Transfer!Default
      /\ S[e].op = "record" /\ S[e].what = Transfer!End /\ S[e].on = Transfer!Default
      /\ S[e + 1].op = "wait" /\ S[e + 1].what = Transfer!End
      /\ S[Len(S)].op = "elapsed" /\ S[Len(S)].from = Transfer!Start /\ S[Len(S)].to = Transfer!End
      /\ S[Len(S)].round = r /\ S[Len(S)].unit = n
  BY DEF IsTimed, IsRecord, IsWait, IsElapsed
<1>3. \A k \in (a + 1)..(a + n) :
         /\ k \in 1..Len(S) /\ S[k].op = "copy" /\ S[k].on = Transfer!Default /\ S[k].uses = Buffers
         /\ S[k].id[1] = r /\ S[k].id[3] = Transfer!Default
  <2>1. \A k \in (a + 1)..(a + n) : k \in 1..Len(S)
    BY <1>1
  <2> QED
    BY <1>1, <2>1 DEF CopiesAt, IsCopy
<1>4. \A k \in 1..Len(S) :
          \/ k \in {st, e, e + 1, Len(S)} \/ k \in (a + 1)..(a + n)
          \/ S[k].op = "clock" /\ k <= a
          \/ /\ S[k].op = "stop" /\ S[k].round = r /\ \E j \in 1..(k - 1) : S[j].op = "clock"
             /\ S[k].by = "enqueue" \/ (S[k].by = "wall" /\ k > e + 1 /\ S[k].unit = n)
  BY DEF IsTimed
<1>5. /\ st \in 1..Len(S) /\ e \in 1..Len(S) /\ e + 1 \in 1..Len(S) /\ Len(S) \in 1..Len(S) /\ st < e
      /\ st \notin (a + 1)..(a + n) /\ e \notin (a + 1)..(a + n) /\ e + 1 \notin (a + 1)..(a + n)
      /\ Len(S) \notin (a + 1)..(a + n) /\ e + 1 # Len(S) /\ \A k \in (a + 1)..(a + n) : k < e
  BY <1>1
<1>6. \A k \in 1..Len(S) :
         /\ S[k].op # "make"
         /\ S[k].op = "copy" => k \in (a + 1)..(a + n)
         /\ S[k].op = "record" => k = st \/ k = e
         /\ S[k].op = "elapsed" => k = Len(S)
         /\ S[k].op = "clock" => k <= a
         /\ S[k].op = "stop" => /\ S[k].round = r /\ \E j \in 1..(k - 1) : S[j].op = "clock"
                                /\ S[k].by = "enqueue" \/ (S[k].by = "wall" /\ k > e + 1 /\ S[k].unit = n)
  BY <1>2, <1>3, <1>4
<1>7. CommandsAreTyped(S, r)
  BY <1>1, <1>2, <1>3, <1>6 DEF CommandsAreTyped, AllOps
<1>8. CopiesHaveBuffers(S, c, r)
  BY <1>1, <1>3, <1>6 DEF CopiesHaveBuffers
<1>9. \A k \in 1..Len(S) : k > e => ~Enqueues(S[k], Transfer!Default)
  BY <1>1, <1>5, <1>6 DEF Enqueues
<1>10. ASSUME NEW p \in Nat, p > e + 1, p <= Len(S) + 1 PROVE Idle(S, p, Transfer!Default)
  <2>1. (e + 1) - 1 = e /\ e + 1 > 1 /\ e + 1 \in 0..(p - 1)
    BY <1>1, <1>10
  <2>2. Settles(S, e + 1, Transfer!Default)
    BY <1>2, <2>1 DEF Settles
  <2>3. \A k \in ((e + 1) + 1)..(p - 1) : k \in 1..Len(S) /\ k > e
    BY <1>1, <1>10
  <2> QED
    BY <1>9, <2>1, <2>2, <2>3, SettledIsIdle
<1>11. RoundsEndIdle(S)
  <2>1. Len(S) + 1 \in Nat /\ Len(S) + 1 > e + 1 /\ (Len(S) + 1) - 1 = Len(S) /\ 0 \in 0..Len(S)
    BY <1>1
  <2>2. Idle(S, Len(S) + 1, Transfer!Default)
    BY <1>10, <2>1
  <2>3. ASSUME NEW x \in Transfer!Streams, x # Transfer!Default PROVE Idle(S, Len(S) + 1, x)
    <3>1. \A k \in 1..Len(S) : ~Enqueues(S[k], x)
      BY <1>2, <1>3, <1>6, <2>3 DEF Enqueues
    <3> QED
      BY <2>1, <3>1, NeverIsIdle
  <2> QED
    BY <2>2, <2>3 DEF RoundsEndIdle
<1>12. RecordsAreSingle(S, c)
  <2>1. Transfer!Start # Transfer!End
    BY DEF Transfer!Start, Transfer!End
  <2> QED
    BY <1>2, <1>6, <2>1 DEF RecordsAreSingle
<1>13. OneStream(S, c)
  BY <1>2, <1>3, <1>6 DEF OneStream
<1>14. \A p \in 1..(Len(S) + 1) :
          /\ p <= a + 1 => Sent(S, p) = {}
          /\ p > a + n => Sent(S, p) = Batch(r, n, Transfer!Default)
  BY <1>1, CopiesAreSent
<1>15. Cardinality(Batch(r, n, Transfer!Default)) = n
  BY <1>1, CopiesAreCounted
<1>16. ClocksAreFirst(S, c)
  <2>1. \A k \in 1..Len(S) : S[k].op = "clock" => k \in 1..(Len(S) + 1) /\ k <= a + 1
    BY <1>1, <1>6
  <2> QED
    BY <1>1, <1>14, <2>1 DEF ClocksAreFirst
<1>17. StopsCount(S, c, r)
  <2>1. ASSUME NEW k \in 1..Len(S), S[k].op = "stop", S[k].by = "wall"
        PROVE  Idle(S, k, Transfer!Default) /\ Cardinality(Sent(S, k)) = S[k].unit
    <3>1. k > e + 1 /\ S[k].unit = n
      BY <1>6, <2>1
    <3>2. k \in Nat /\ k <= Len(S) + 1 /\ k \in 1..(Len(S) + 1) /\ k > a + n
      BY <1>1, <3>1
    <3> QED
      BY <1>1, <1>10, <1>14, <1>15, <3>1, <3>2
  <2>2. \A k \in 1..Len(S) : S[k].op = "stop" => S[k].by # "ready"
    BY <1>6
  <2> QED
    BY <1>1, <1>6, <2>1, <2>2 DEF StopsCount
<1>18. EventsCount(S, c)
  <2>1. st \in 1..(Len(S) - 1) /\ e \in 1..(Len(S) - 1) /\ st \in 1..(Len(S) + 1) /\ e \in 1..(Len(S) + 1) /\ st <= a + 1 /\ e > a + n
    BY <1>1, <1>5
  <2>2. Cardinality(Sent(S, e) \ Sent(S, st)) = n
    <3>1. Sent(S, e) \ Sent(S, st) = Batch(r, n, Transfer!Default)
      BY <1>1, <1>14, <2>1
    <3> QED
      BY <1>15, <3>1
  <2>3. \E i, j \in 1..(Len(S) - 1) :
              /\ S[i].op = "record" /\ S[i].what = S[Len(S)].from
              /\ S[j].op = "record" /\ S[j].what = S[Len(S)].to
              /\ Cardinality(Sent(S, j) \ Sent(S, i)) = S[Len(S)].unit
    BY <1>2, <2>1, <2>2
  <2>4. \A k \in 1..Len(S) : S[k].op = "elapsed" => k = Len(S) /\ c.method # "ready"
    BY <1>1, <1>6
  <2> DEFINE Counted(k) ==
        \E i, j \in 1..(k - 1) :
              /\ S[i].op = "record" /\ S[i].what = S[k].from
              /\ S[j].op = "record" /\ S[j].what = S[k].to
              /\ Cardinality(Sent(S, j) \ Sent(S, i)) = S[k].unit
  <2>5. EventsCount(S, c) <=> \A k \in 1..Len(S) : S[k].op = "elapsed" => c.method # "ready" /\ Counted(k)
    BY DEF EventsCount
  <2>6. Counted(Len(S))
    BY <2>3
  <2> HIDE DEF Counted
  <2> QED
    BY <2>4, <2>5, <2>6
<1> QED
  BY <1>7, <1>8, <1>11, <1>12, <1>13, <1>16, <1>17, <1>18 DEF WellFormed

LEMMA ThreeJoined ==
  ASSUME NEW x \in Seq(AllOps), NEW y \in Seq(AllOps), NEW z \in Seq(AllOps)
  PROVE  LET S == (x \o y) \o z
             a == Len(x)
             b == Len(x) + Len(y)
         IN  /\ S \in Seq(AllOps) /\ Len(S) = b + Len(z) /\ a \in Nat /\ b \in Nat /\ Len(y) \in Nat /\ Len(z) \in Nat
             /\ \A k \in 1..a : S[k] = x[k]
             /\ \A k \in (a + 1)..b : S[k] = y[k - a]
             /\ \A k \in (b + 1)..(b + Len(z)) : S[k] = z[k - b]
<1> DEFINE v == x \o y
           S == v \o z
<1>1. /\ v \in Seq(AllOps) /\ Len(v) = Len(x) + Len(y) /\ Len(x) \in Nat /\ Len(y) \in Nat
      /\ \A k \in 1..Len(x) : v[k] = x[k]
      /\ \A k \in (Len(x) + 1)..(Len(x) + Len(y)) : v[k] = y[k - Len(x)]
  BY Joined
<1> HIDE DEF v
<1>2. /\ S \in Seq(AllOps) /\ Len(S) = Len(v) + Len(z) /\ Len(v) \in Nat /\ Len(z) \in Nat
      /\ \A k \in 1..Len(v) : S[k] = v[k]
      /\ \A k \in (Len(v) + 1)..(Len(v) + Len(z)) : S[k] = z[k - Len(v)]
  BY <1>1, Joined
<1> HIDE DEF S
<1>3. \A k \in 1..Len(x) : k \in 1..Len(v)
  BY <1>1
<1>4. \A k \in (Len(x) + 1)..(Len(x) + Len(y)) : k \in 1..Len(v)
  BY <1>1
<1> QED
  BY <1>1, <1>2, <1>3, <1>4 DEF S, v

LEMMA CopiesLayout ==
  ASSUME NEW r \in Nat, NEW n \in Nat
  PROVE  LET C == Transfer!CopiesOf(n, r) IN
         C \in Seq(AllOps) /\ Len(C) = n /\ \A k \in 1..n : IsCopy(C[k], Transfer!Default, r, k, Buffers)
<1>1. \A i \in 1..n : i \in Nat /\ Transfer!CopyAt(r, i) \in AllOps /\ IsCopy(Transfer!CopyAt(r, i), Transfer!Default, r, i, Buffers)
  BY CommandKinds
<1>2. Transfer!CopiesOf(n, r) = [i \in 1..n |-> Transfer!CopyAt(r, i)]
  BY DEF Transfer!CopiesOf
<1> HIDE DEF Transfer!CopiesOf
<1>3. Transfer!CopiesOf(n, r) \in Seq(AllOps) /\ Len(Transfer!CopiesOf(n, r)) = n
  BY <1>1, <1>2, IsASeq
<1> QED
  BY <1>1, <1>2, <1>3

LEMMA MeasureIsTimed ==
  ASSUME TransferBounds, NEW c, c.method # "ready", Buffers \subseteq Allocated(c), NEW r \in Nat \ {0}
  PROVE  IsTimed(Transfer!MeasureRound(r), c, r, 2, 2, Slots, Slots + 3)
<1> DEFINE x == <<Transfer!Clock, Transfer!Record(Transfer!Start, Transfer!Default)>>
           y == Transfer!CopiesOf(Slots, r)
           z == <<Transfer!Record(Transfer!End, Transfer!Default), Transfer!Wait(Transfer!End),
                  Transfer!Stop("wall", r, Slots), Transfer!Elapsed(Transfer!Start, Transfer!End, r, Slots)>>
           S == (x \o y) \o z
<1>0. /\ Slots \in Nat \ {0} /\ r \in Nat /\ Transfer!Start \in Transfer!Events /\ Transfer!End \in Transfer!Events
  BY DEF TransferBounds, Transfer!CudaTransferAssumption, Transfer!Events
<1>1. Transfer!MeasureRound(r) = S
  BY DEF Transfer!MeasureRound
<1>2. x \in Seq(AllOps) /\ Len(x) = 2 /\ x[1].op = "clock" /\ IsRecord(x[2], Transfer!Start)
  BY <1>0, CommandKinds
<1>3. y \in Seq(AllOps) /\ Len(y) = Slots /\ \A k \in 1..Slots : IsCopy(y[k], Transfer!Default, r, k, Buffers)
  BY <1>0, CopiesLayout
<1>4. /\ z \in Seq(AllOps) /\ Len(z) = 4 /\ IsRecord(z[1], Transfer!End) /\ IsWait(z[2], Transfer!End)
      /\ IsStop(z[3], "wall", r, Slots) /\ IsElapsed(z[4], Transfer!Start, Transfer!End, r, Slots)
  BY <1>0, CommandKinds
<1> HIDE DEF x, y, z
<1>5. /\ S \in Seq(AllOps) /\ Len(S) = (Len(x) + Len(y)) + Len(z)
      /\ \A k \in 1..Len(x) : S[k] = x[k]
      /\ \A k \in (Len(x) + 1)..(Len(x) + Len(y)) : S[k] = y[k - Len(x)]
      /\ \A k \in ((Len(x) + Len(y)) + 1)..((Len(x) + Len(y)) + Len(z)) : S[k] = z[k - (Len(x) + Len(y))]
  BY <1>2, <1>3, <1>4, ThreeJoined, ZenonT(60)
<1> HIDE DEF S
<1>6. /\ Len(S) = Slots + 6 /\ S[1] = x[1] /\ S[2] = x[2]
      /\ \A k \in 3..(Slots + 2) : S[k] = y[k - 2] /\ k - 2 \in 1..Slots
      /\ S[Slots + 3] = z[1] /\ S[Slots + 4] = z[2] /\ S[Slots + 5] = z[3] /\ S[Slots + 6] = z[4]
  <2>1. /\ Len(S) = Slots + 6
        /\ \A k \in 1..2 : S[k] = x[k]
        /\ \A k \in 3..(Slots + 2) : S[k] = y[k - 2]
        /\ \A k \in (Slots + 3)..(Slots + 6) : S[k] = z[k - (Slots + 2)]
    <3>1. (2 + Slots) + 4 = Slots + 6 /\ 2 + Slots = Slots + 2 /\ 2 + 1 = 3 /\ (2 + Slots) + 1 = Slots + 3
      BY <1>0
    <3> QED
      BY <1>2, <1>3, <1>4, <1>5, <3>1
  <2>2. /\ (Slots + 3) - (Slots + 2) = 1 /\ (Slots + 4) - (Slots + 2) = 2
        /\ (Slots + 5) - (Slots + 2) = 3 /\ (Slots + 6) - (Slots + 2) = 4
        /\ \A k \in 3..6 : Slots + k \in (Slots + 3)..(Slots + 6)
        /\ \A k \in 3..(Slots + 2) : k - 2 \in 1..Slots
    BY <1>0
  <2>3. S[Slots + 3] = z[1] /\ S[Slots + 4] = z[2] /\ S[Slots + 5] = z[3] /\ S[Slots + 6] = z[4]
    BY <2>1, <2>2
  <2> QED
    BY <2>1, <2>2, <2>3
<1>7. \A k \in 1..Len(S) : \/ k = 1 \/ k = 2 \/ k \in (2 + 1)..(2 + Slots)
                           \/ k = Slots + 3 \/ k = Slots + 4 \/ k = Slots + 5 \/ k = Slots + 6
  BY <1>0, <1>6
<1>8. CopiesAt(S, 2, Slots, r, Transfer!Default, Buffers)
  <2>1. \A k \in (2 + 1)..(2 + Slots) : IsCopy(S[k], Transfer!Default, r, k - 2, Buffers)
    <3>1. \A k \in (2 + 1)..(2 + Slots) : k \in 3..(Slots + 2)
      BY <1>0
    <3> QED
      BY <1>3, <1>6, <3>1
  <2>2. \A k \in 1..Len(S) : k \notin (2 + 1)..(2 + Slots) => S[k].op # "copy"
    BY <1>2, <1>4, <1>6, <1>7 DEF IsRecord, IsWait, IsStop, IsElapsed
  <2> QED
    BY <2>1, <2>2 DEF CopiesAt
<1>9. /\ S[Slots + 5].op = "stop" /\ S[Slots + 5].round = r /\ S[Slots + 5].by = "wall" /\ S[Slots + 5].unit = Slots
      /\ 1 \in 1..((Slots + 5) - 1) /\ Slots + 5 > (Slots + 3) + 1 /\ (Slots + 3) + 1 = Slots + 4
      /\ 2 + Slots < Slots + 3 /\ (Slots + 3) + 1 < Slots + 6 /\ Slots + 3 \in Nat
  BY <1>0, <1>4, <1>6 DEF IsStop
<1>10. \A k \in 1..Len(S) :
          \/ k \in {2, Slots + 3, (Slots + 3) + 1, Len(S)} \/ k \in (2 + 1)..(2 + Slots)
          \/ S[k].op = "clock" /\ k <= 2
          \/ /\ S[k].op = "stop" /\ S[k].round = r /\ \E j \in 1..(k - 1) : S[j].op = "clock"
             /\ S[k].by = "enqueue" \/ (S[k].by = "wall" /\ k > (Slots + 3) + 1 /\ S[k].unit = Slots)
  BY <1>2, <1>6, <1>7, <1>9
<1>11. IsTimed(S, c, r, 2, 2, Slots, Slots + 3)
  BY <1>0, <1>2, <1>4, <1>5, <1>6, <1>8, <1>9, <1>10 DEF IsTimed
<1> QED
  BY <1>1, <1>11

LEMMA BatchIsTimed ==
  ASSUME NEW c, c.method # "ready", Buffers \subseteq Allocated(c), NEW r \in Nat \ {0}, NEW n \in Nat
  PROVE  IsTimed(Transfer!Timed(Transfer!CopiesOf(n, r), r, n), c, r, 1, 1, n, n + 2)
<1> DEFINE x == <<Transfer!Record(Transfer!Start, Transfer!Default)>>
           y == Transfer!CopiesOf(n, r)
           z == <<Transfer!Record(Transfer!End, Transfer!Default), Transfer!Wait(Transfer!End),
                  Transfer!Elapsed(Transfer!Start, Transfer!End, r, n)>>
           S == (x \o y) \o z
<1>0. r \in Nat /\ Transfer!Start \in Transfer!Events /\ Transfer!End \in Transfer!Events
  BY DEF Transfer!Events
<1>1. Transfer!Timed(y, r, n) = S
  BY DEF Transfer!Timed
<1>2. x \in Seq(AllOps) /\ Len(x) = 1 /\ IsRecord(x[1], Transfer!Start)
  BY <1>0, CommandKinds
<1>3. y \in Seq(AllOps) /\ Len(y) = n /\ \A k \in 1..n : IsCopy(y[k], Transfer!Default, r, k, Buffers)
  BY <1>0, CopiesLayout
<1>4. /\ z \in Seq(AllOps) /\ Len(z) = 3 /\ IsRecord(z[1], Transfer!End) /\ IsWait(z[2], Transfer!End)
      /\ IsElapsed(z[3], Transfer!Start, Transfer!End, r, n)
  BY <1>0, CommandKinds
<1> HIDE DEF x, y, z
<1>5. /\ S \in Seq(AllOps) /\ Len(S) = (Len(x) + Len(y)) + Len(z)
      /\ \A k \in 1..Len(x) : S[k] = x[k]
      /\ \A k \in (Len(x) + 1)..(Len(x) + Len(y)) : S[k] = y[k - Len(x)]
      /\ \A k \in ((Len(x) + Len(y)) + 1)..((Len(x) + Len(y)) + Len(z)) : S[k] = z[k - (Len(x) + Len(y))]
  BY <1>2, <1>3, <1>4, ThreeJoined, ZenonT(60)
<1> HIDE DEF S
<1>6. /\ Len(S) = n + 4 /\ S[1] = x[1]
      /\ \A k \in 2..(n + 1) : S[k] = y[k - 1] /\ k - 1 \in 1..n
      /\ S[n + 2] = z[1] /\ S[n + 3] = z[2] /\ S[n + 4] = z[3]
  <2>1. /\ Len(S) = n + 4
        /\ \A k \in 1..1 : S[k] = x[k]
        /\ \A k \in 2..(n + 1) : S[k] = y[k - 1]
        /\ \A k \in (n + 2)..(n + 4) : S[k] = z[k - (n + 1)]
    <3>1. (1 + n) + 3 = n + 4 /\ 1 + n = n + 1 /\ 1 + 1 = 2 /\ (1 + n) + 1 = n + 2
      OBVIOUS
    <3> QED
      BY <1>2, <1>3, <1>4, <1>5, <3>1
  <2>2. /\ (n + 2) - (n + 1) = 1 /\ (n + 3) - (n + 1) = 2 /\ (n + 4) - (n + 1) = 3
        /\ \A k \in 2..4 : n + k \in (n + 2)..(n + 4)
        /\ \A k \in 2..(n + 1) : k - 1 \in 1..n
    OBVIOUS
  <2>3. n + 2 \in (n + 2)..(n + 4) /\ n + 3 \in (n + 2)..(n + 4) /\ n + 4 \in (n + 2)..(n + 4)
    OBVIOUS
  <2>4. S[n + 2] = z[(n + 2) - (n + 1)] /\ S[n + 3] = z[(n + 3) - (n + 1)] /\ S[n + 4] = z[(n + 4) - (n + 1)]
    BY <2>1, <2>3
  <2>5. S[n + 2] = z[1] /\ S[n + 3] = z[2] /\ S[n + 4] = z[3]
    BY <2>2, <2>4
  <2> QED
    BY <2>1, <2>2, <2>5
<1>7. \A k \in 1..Len(S) : k = 1 \/ k \in (1 + 1)..(1 + n) \/ k = n + 2 \/ k = n + 3 \/ k = n + 4
  BY <1>6
<1>8. CopiesAt(S, 1, n, r, Transfer!Default, Buffers)
  <2>1. \A k \in (1 + 1)..(1 + n) : IsCopy(S[k], Transfer!Default, r, k - 1, Buffers)
    <3>1. \A k \in (1 + 1)..(1 + n) : k \in 2..(n + 1)
      OBVIOUS
    <3> QED
      BY <1>3, <1>6, <3>1
  <2>2. \A k \in 1..Len(S) : k \notin (1 + 1)..(1 + n) => S[k].op # "copy"
    BY <1>2, <1>4, <1>6, <1>7 DEF IsRecord, IsWait, IsElapsed
  <2> QED
    BY <2>1, <2>2 DEF CopiesAt
<1>9. (n + 2) + 1 = n + 3 /\ 1 + n < n + 2 /\ (n + 2) + 1 < n + 4 /\ n + 2 \in Nat
  OBVIOUS
<1>10. \A k \in 1..Len(S) : k \in {1, n + 2, (n + 2) + 1, Len(S)} \/ k \in (1 + 1)..(1 + n)
  BY <1>6, <1>7, <1>9
<1>11. IsTimed(S, c, r, 1, 1, n, n + 2)
  BY <1>0, <1>2, <1>4, <1>5, <1>6, <1>8, <1>9, <1>10 DEF IsTimed
<1> QED
  BY <1>1, <1>11 DEF y

LEMMA SingleIsTimed ==
  ASSUME NEW c, c.method # "ready", Buffers \subseteq Allocated(c), NEW r \in Nat \ {0}
  PROVE  IsTimed(Transfer!SingleRound(r), c, r, 1, 2, 1, 5)
<1> DEFINE x == <<Transfer!Record(Transfer!Start, Transfer!Default)>>
           y == <<Transfer!Clock, Transfer!CopyAt(r, 1), Transfer!Stop("enqueue", r, 1)>>
           z == <<Transfer!Record(Transfer!End, Transfer!Default), Transfer!Wait(Transfer!End),
                  Transfer!Elapsed(Transfer!Start, Transfer!End, r, 1)>>
           S == (x \o y) \o z
<1>0. r \in Nat /\ Transfer!Start \in Transfer!Events /\ Transfer!End \in Transfer!Events
  BY DEF Transfer!Events
<1>1. Transfer!SingleRound(r) = S
  BY DEF Transfer!SingleRound, Transfer!Timed
<1>2. x \in Seq(AllOps) /\ Len(x) = 1 /\ IsRecord(x[1], Transfer!Start)
  BY <1>0, CommandKinds
<1>3. /\ y \in Seq(AllOps) /\ Len(y) = 3 /\ y[1].op = "clock"
      /\ IsCopy(y[2], Transfer!Default, r, 1, Buffers) /\ IsStop(y[3], "enqueue", r, 1)
  BY <1>0, CommandKinds
<1>4. /\ z \in Seq(AllOps) /\ Len(z) = 3 /\ IsRecord(z[1], Transfer!End) /\ IsWait(z[2], Transfer!End)
      /\ IsElapsed(z[3], Transfer!Start, Transfer!End, r, 1)
  BY <1>0, CommandKinds
<1> HIDE DEF x, y, z
<1>5. /\ S \in Seq(AllOps) /\ Len(S) = (Len(x) + Len(y)) + Len(z)
      /\ \A k \in 1..Len(x) : S[k] = x[k]
      /\ \A k \in (Len(x) + 1)..(Len(x) + Len(y)) : S[k] = y[k - Len(x)]
      /\ \A k \in ((Len(x) + Len(y)) + 1)..((Len(x) + Len(y)) + Len(z)) : S[k] = z[k - (Len(x) + Len(y))]
  BY <1>2, <1>3, <1>4, ThreeJoined, ZenonT(60)
<1> HIDE DEF S
<1>6. /\ Len(S) = 7 /\ S[1] = x[1] /\ S[2] = y[1] /\ S[3] = y[2] /\ S[4] = y[3]
      /\ S[5] = z[1] /\ S[6] = z[2] /\ S[7] = z[3]
  BY <1>2, <1>3, <1>4, <1>5
<1>7. \A k \in 1..7 : k = 1 \/ k = 2 \/ k = 3 \/ k = 4 \/ k = 5 \/ k = 6 \/ k = 7
  OBVIOUS
<1>8. CopiesAt(S, 2, 1, r, Transfer!Default, Buffers)
  <2>1. \A k \in 1..7 : k \in (2 + 1)..(2 + 1) <=> k = 3
    OBVIOUS
  <2>2. IsCopy(S[3], Transfer!Default, r, 3 - 2, Buffers)
    BY <1>3, <1>6
  <2>3. \A k \in 1..7 : k # 3 => S[k].op # "copy"
    BY <1>2, <1>3, <1>4, <1>6, <1>7 DEF IsRecord, IsWait, IsElapsed, IsStop
  <2> QED
    BY <1>6, <2>1, <2>2, <2>3 DEF CopiesAt
<1>9. /\ S[4].op = "stop" /\ S[4].round = r /\ S[4].by = "enqueue" /\ S[2].op = "clock" /\ 2 \in 1..(4 - 1)
      /\ 3 \in (2 + 1)..(2 + 1) /\ 5 + 1 = 6
  BY <1>3, <1>6 DEF IsStop
<1>10. \A k \in 1..Len(S) :
          \/ k \in {1, 5, 5 + 1, Len(S)} \/ k \in (2 + 1)..(2 + 1)
          \/ S[k].op = "clock" /\ k <= 2
          \/ /\ S[k].op = "stop" /\ S[k].round = r /\ \E j \in 1..(k - 1) : S[j].op = "clock"
             /\ S[k].by = "enqueue" \/ (S[k].by = "wall" /\ k > 5 + 1 /\ S[k].unit = 1)
  BY <1>6, <1>7, <1>9
<1>11. IsTimed(S, c, r, 1, 2, 1, 5)
  <2>1. /\ IsRecord(S[1], Transfer!Start) /\ IsRecord(S[5], Transfer!End) /\ IsWait(S[5 + 1], Transfer!End)
        /\ IsElapsed(S[Len(S)], Transfer!Start, Transfer!End, r, 1)
    BY <1>2, <1>4, <1>6, <1>9
  <2>2. 1 <= 2 /\ 2 + 1 < 5 /\ 5 + 1 < 7 /\ 1 \in Nat \ {0} /\ 2 \in Nat /\ 1 \in Nat /\ 5 \in Nat
    OBVIOUS
  <2>3. S \in Seq(AllOps) /\ 5 + 1 < Len(S)
    BY <1>5, <1>6, <2>2
  <2> QED
    BY <1>8, <1>10, <2>1, <2>2, <2>3 DEF IsTimed
<1> QED
  BY <1>1, <1>11

LEMMA TimedRounds ==
  ASSUME TransferBounds, NEW c \in Measurements, c.method \in Timings, NEW r \in Nat \ {0}
  PROVE  WellFormed(Transfer!Round(c, r), c, r)
<1>1. Buffers \subseteq Allocated(c) /\ c.method # "ready"
  <2>1. Allocated(c) = Owns(c)
    BY SetupsAreWellFormed
  <2> QED
    BY <2>1 DEF Owns, Timings
<1>2. CASE c.method = "measure"
  <2>1. Transfer!Round(c, r) = Transfer!MeasureRound(r)
    BY <1>2 DEF Transfer!Round
  <2> QED
    BY <1>1, <2>1, MeasureIsTimed, TimedIsWellFormed
<1>3. CASE c.method = "single"
  <2>1. Transfer!Round(c, r) = Transfer!SingleRound(r)
    BY <1>3 DEF Transfer!Round
  <2> QED
    BY <1>1, <2>1, SingleIsTimed, TimedIsWellFormed
<1>4. CASE c.method = "contiguous"
  <2>1. Transfer!Round(c, r) = IF r % 2 = 1 THEN Transfer!Timed(Transfer!CopiesOf(1, r), r, 1)
                               ELSE Transfer!Timed(Transfer!CopiesOf(Slots, r), r, Slots)
    BY <1>4 DEF Transfer!Round, Transfer!ContiguousRound
  <2>2. Slots \in Nat /\ 1 \in Nat
    BY DEF TransferBounds, Transfer!CudaTransferAssumption
  <2>3. \A n \in Nat : WellFormed(Transfer!Timed(Transfer!CopiesOf(n, r), r, n), c, r)
    BY <1>1, BatchIsTimed, TimedIsWellFormed
  <2> QED
    BY <2>1, <2>2, <2>3
<1> QED
  BY <1>2, <1>3, <1>4 DEF Timings

(* A burst: each copy is followed by its marker. *)
IsQueue(S, c, r, n) ==
    /\ S \in Seq(AllOps) /\ r \in Nat \ {0} /\ n \in Nat \ {0} /\ Len(S) = 3 * n + 4
    /\ c.method # "ready" /\ Buffers \subseteq Allocated(c)
    /\ S[1].op = "clock"
    /\ \A i \in 0..n : IsRecord(S[2 * i + 2], Transfer!Marker(i))
    /\ \A i \in 1..n : IsCopy(S[2 * i + 1], Transfer!Default, r, i, Buffers)
    /\ IsWait(S[2 * n + 3], Transfer!Marker(n)) /\ IsStop(S[2 * n + 4], "wall", r, n)
    /\ \A i \in 1..n : IsElapsed(S[2 * n + 4 + i], Transfer!Marker(i - 1), Transfer!Marker(i), r, 1)

LEMMA Halves == ASSUME NEW k \in Nat PROVE \E i \in Nat : k = 2 * i \/ k = 2 * i + 1
<1>1. k \div 2 \in Nat /\ (k = 2 * (k \div 2) \/ k = 2 * (k \div 2) + 1)
  OBVIOUS
<1> QED
  BY <1>1

LEMMA QueuePositions ==
  ASSUME NEW n \in Nat \ {0}, NEW k \in 1..(3 * n + 4)
  PROVE  \/ k = 1 \/ k = 2 * n + 3 \/ k = 2 * n + 4
         \/ \E i \in 0..n : k = 2 * i + 2
         \/ \E i \in 1..n : k = 2 * i + 1
         \/ \E i \in 1..n : k = 2 * n + 4 + i
<1>1. CASE k > 2 * n + 4
  <2>1. k - (2 * n + 4) \in 1..n /\ k = 2 * n + 4 + (k - (2 * n + 4))
    BY <1>1
  <2> QED
    BY <2>1
<1>2. CASE k <= 2 * n + 2 /\ k # 1
  <2>1. PICK j \in Nat : k = 2 * j \/ k = 2 * j + 1
    <3>1. k \in Nat
      OBVIOUS
    <3> QED
      BY <3>1, Halves
  <2>2. CASE k = 2 * j
    <3>1. j - 1 \in 0..n /\ k = 2 * (j - 1) + 2
      BY <1>2, <2>2
    <3> QED
      BY <3>1
  <2>3. CASE k = 2 * j + 1
    <3>1. j \in 1..n
      BY <1>2, <2>3
    <3> QED
      BY <2>3, <3>1
  <2> QED
    BY <2>1, <2>2, <2>3
<1> QED
  BY <1>1, <1>2

LEMMA QueueIsWellFormed ==
  ASSUME NEW S, NEW c, NEW r, NEW n, IsQueue(S, c, r, n)
  PROVE  WellFormed(S, c, r)
<1>1. /\ S \in Seq(AllOps) /\ r \in Nat \ {0} /\ n \in Nat \ {0} /\ Len(S) = 3 * n + 4
      /\ c.method # "ready" /\ Buffers \subseteq Allocated(c) /\ S[1].op = "clock"
  BY DEF IsQueue
<1>2. \A i \in 0..n : /\ S[2 * i + 2].op = "record" /\ S[2 * i + 2].what = Transfer!Marker(i)
                      /\ S[2 * i + 2].on = Transfer!Default
  BY DEF IsQueue, IsRecord
<1>3. \A i \in 1..n : /\ S[2 * i + 1].op = "copy" /\ S[2 * i + 1].on = Transfer!Default
                      /\ S[2 * i + 1].id = <<r, i, Transfer!Default>> /\ S[2 * i + 1].uses = Buffers
  BY DEF IsQueue, IsCopy
<1>4. /\ S[2 * n + 3].op = "wait" /\ S[2 * n + 3].what = Transfer!Marker(n)
      /\ S[2 * n + 4].op = "stop" /\ S[2 * n + 4].by = "wall" /\ S[2 * n + 4].round = r /\ S[2 * n + 4].unit = n
  BY DEF IsQueue, IsWait, IsStop
<1>5. \A i \in 1..n : /\ S[2 * n + 4 + i].op = "elapsed" /\ S[2 * n + 4 + i].from = Transfer!Marker(i - 1)
                      /\ S[2 * n + 4 + i].to = Transfer!Marker(i)
                      /\ S[2 * n + 4 + i].round = r /\ S[2 * n + 4 + i].unit = 1
  BY DEF IsQueue, IsElapsed
<1>6. \A k \in 1..Len(S) : \/ k = 1 \/ k = 2 * n + 3 \/ k = 2 * n + 4
                           \/ \E i \in 0..n : k = 2 * i + 2
                           \/ \E i \in 1..n : k = 2 * i + 1
                           \/ \E i \in 1..n : k = 2 * n + 4 + i
  BY <1>1, QueuePositions
<1>7. \A k \in 1..Len(S) :
         /\ S[k].op \in {"clock", "wait", "stop", "record", "copy", "elapsed"}
         /\ S[k].op = "clock" => k = 1
         /\ S[k].op = "stop" => k = 2 * n + 4
         /\ S[k].op = "record" => \E i \in 0..n : k = 2 * i + 2
         /\ S[k].op = "copy" => \E i \in 1..n : k = 2 * i + 1
         /\ S[k].op = "elapsed" => \E i \in 1..n : k = 2 * n + 4 + i
  <2> TAKE k \in 1..Len(S)
  <2>1. CASE k = 1
    BY <1>1, <2>1
  <2>2. CASE k = 2 * n + 3 \/ k = 2 * n + 4
    BY <1>4, <2>2
  <2>3. CASE \E i \in 0..n : k = 2 * i + 2
    BY <1>2, <2>3
  <2>4. CASE \E i \in 1..n : k = 2 * i + 1
    BY <1>3, <2>4
  <2>5. CASE \E i \in 1..n : k = 2 * n + 4 + i
    BY <1>5, <2>5
  <2> QED
    BY <1>6, <2>1, <2>2, <2>3, <2>4, <2>5
<1>8. /\ \A k \in 1..Len(S) : S[k].op = "copy" =>
            S[k].id[1] = r /\ S[k].id[3] = S[k].on /\ S[k].on = Transfer!Default /\ S[k].uses = Buffers
      /\ \A k \in 1..Len(S) : S[k].op \in {"stop", "elapsed"} => S[k].round = r
      /\ \A k \in 1..Len(S) : S[k].op = "record" => S[k].on = Transfer!Default
  <2> SUFFICES ASSUME NEW k \in 1..Len(S)
               PROVE  /\ S[k].op = "copy" =>
                            S[k].id[1] = r /\ S[k].id[3] = S[k].on /\ S[k].on = Transfer!Default /\ S[k].uses = Buffers
                      /\ S[k].op \in {"stop", "elapsed"} => S[k].round = r
                      /\ S[k].op = "record" => S[k].on = Transfer!Default
    OBVIOUS
  <2>1. ASSUME S[k].op = "copy"
        PROVE  S[k].id[1] = r /\ S[k].id[3] = S[k].on /\ S[k].on = Transfer!Default /\ S[k].uses = Buffers
    BY <1>3, <1>7, <2>1
  <2>2. ASSUME S[k].op \in {"stop", "elapsed"} PROVE S[k].round = r
    BY <1>4, <1>5, <1>7, <2>2
  <2>3. ASSUME S[k].op = "record" PROVE S[k].on = Transfer!Default
    BY <1>2, <1>7, <2>3
  <2> QED
    BY <2>1, <2>2, <2>3
<1>9. CommandsAreTyped(S, r) /\ OneStream(S, c) /\ CopiesHaveBuffers(S, c, r)
  <2>1. \A k \in 1..Len(S) : S[k].op # "make"
    BY <1>7
  <2>2. CopiesHaveBuffers(S, c, r)
    BY <1>1, <1>8, <2>1 DEF CopiesHaveBuffers
  <2> QED
    BY <1>1, <1>8, <2>2 DEF CommandsAreTyped, OneStream, AllOps
<1>10. RecordsAreSingle(S, c)
  <2>1. \A i \in 0..n, j \in 0..n : Transfer!Marker(i) = Transfer!Marker(j) => i = j
    BY DEF Transfer!Marker
  <2>2. ASSUME NEW k \in 1..Len(S), NEW j \in 1..Len(S), S[k].op = "record", S[j].op = "record", S[j].what = S[k].what
        PROVE  j = k
    <3>1. PICK u \in 0..n : k = 2 * u + 2
      BY <1>7, <2>2
    <3>2. PICK v \in 0..n : j = 2 * v + 2
      BY <1>7, <2>2
    <3>3. u = v
      BY <1>2, <2>1, <2>2, <3>1, <3>2
    <3> QED
      BY <3>1, <3>2, <3>3
  <2> QED
    BY <2>2 DEF RecordsAreSingle
<1>11. \A i \in 0..n : Sent(S, 2 * i + 2) = Batch(r, i, Transfer!Default)
  <2> TAKE i \in 0..n
  <2>1. ASSUME NEW x \in Sent(S, 2 * i + 2) PROVE x \in Batch(r, i, Transfer!Default)
    <3>1. PICK k \in 1..((2 * i + 2) - 1) : S[k].op = "copy" /\ x = S[k].id
      BY <2>1 DEF Sent
    <3>2. k \in 1..Len(S) /\ k <= 2 * i + 1
      BY <1>1, <3>1
    <3>3. PICK j \in 1..n : k = 2 * j + 1
      BY <1>7, <3>1, <3>2
    <3>4. j \in 1..i /\ x = <<r, j, Transfer!Default>>
      <4>1. j \in 1..i
        BY <1>1, <3>2, <3>3
      <4> QED
        BY <1>3, <3>1, <3>3, <4>1
    <3> QED
      BY <3>4 DEF Batch
  <2>2. ASSUME NEW j \in 1..i PROVE <<r, j, Transfer!Default>> \in Sent(S, 2 * i + 2)
    <3>1. 2 * j + 1 \in 1..((2 * i + 2) - 1) /\ j \in 1..n
      BY <1>1
    <3> QED
      BY <1>3, <3>1 DEF Sent
  <2> QED
    BY <2>1, <2>2 DEF Batch
<1>12. Sent(S, 2 * n + 4) = Batch(r, n, Transfer!Default)
  <2>1. n \in 0..n /\ 2 * n + 2 \in Nat \ {0} /\ (2 * n + 2) + 1 = 2 * n + 3
        /\ 2 * n + 3 \in Nat \ {0} /\ (2 * n + 3) + 1 = 2 * n + 4
    BY <1>1
  <2>2. Sent(S, 2 * n + 2) = Batch(r, n, Transfer!Default)
    BY <1>11, <2>1
  <2>3. S[2 * n + 2].op = "record" /\ S[2 * n + 3].op = "wait"
    BY <1>2, <1>4, <2>1
  <2>4. Sent(S, (2 * n + 2) + 1)
           = Sent(S, 2 * n + 2) \cup (IF S[2 * n + 2].op = "copy" THEN {S[2 * n + 2].id} ELSE {})
    BY <2>1, OneMoreCommand
  <2>5. Sent(S, (2 * n + 3) + 1)
           = Sent(S, 2 * n + 3) \cup (IF S[2 * n + 3].op = "copy" THEN {S[2 * n + 3].id} ELSE {})
    BY <2>1, OneMoreCommand
  <2> QED
    BY <2>1, <2>2, <2>3, <2>4, <2>5
<1>13. ASSUME NEW p \in Nat, p > 2 * n + 3, p <= Len(S) + 1 PROVE Idle(S, p, Transfer!Default)
  <2>1. 2 * n + 3 \in 0..(p - 1) /\ (2 * n + 3) - 1 = 2 * n + 2 /\ 2 * n + 3 > 1 /\ n \in 0..n
    BY <1>1, <1>13
  <2>2. Settles(S, 2 * n + 3, Transfer!Default)
    BY <1>2, <1>4, <2>1 DEF Settles
  <2>3. ASSUME NEW k \in ((2 * n + 3) + 1)..(p - 1) PROVE ~Enqueues(S[k], Transfer!Default)
    <3>1. k \in 1..Len(S) /\ k > 2 * n + 3
      BY <1>1, <1>13, <2>3
    <3>2. (\A i \in 0..n : k # 2 * i + 2) /\ (\A i \in 1..n : k # 2 * i + 1)
      BY <1>1, <3>1
    <3> QED
      BY <1>7, <3>1, <3>2 DEF Enqueues
  <2> QED
    BY <2>1, <2>2, <2>3, SettledIsIdle
<1>14. RoundsEndIdle(S)
  <2>1. Len(S) \in Nat /\ Len(S) + 1 \in Nat \ {0} /\ Len(S) + 1 > 2 * n + 3 /\ (Len(S) + 1) - 1 = Len(S)
    BY <1>1
  <2>2. Idle(S, Len(S) + 1, Transfer!Default)
    BY <1>13, <2>1
  <2>3. ASSUME NEW x \in Transfer!Streams, x # Transfer!Default PROVE Idle(S, Len(S) + 1, x)
    <3>1. \A k \in 1..Len(S) : ~Enqueues(S[k], x)
      BY <1>8, <2>3 DEF Enqueues
    <3> QED
      BY <2>1, <3>1, NeverIsIdle
  <2> QED
    BY <2>2, <2>3 DEF RoundsEndIdle
<1>15. ClocksAreFirst(S, c)
  <2>1. Sent(S, 1) = {}
    BY NoCommand
  <2> QED
    BY <1>7, <2>1 DEF ClocksAreFirst
<1>16. StopsCount(S, c, r)
  <2>1. 1 \in 1..((2 * n + 4) - 1) /\ 2 * n + 4 \in Nat /\ 2 * n + 4 > 2 * n + 3 /\ 2 * n + 4 <= Len(S) + 1 /\ n \in Nat
    BY <1>1
  <2>2. Idle(S, 2 * n + 4, Transfer!Default)
    BY <1>13, <2>1
  <2>3. Cardinality(Sent(S, 2 * n + 4)) = n
    BY <1>12, <2>1, CopiesAreCounted
  <2>4. \A k \in 1..Len(S) : S[k].op = "stop" => k = 2 * n + 4
    BY <1>7
  <2>5. \E j \in 1..((2 * n + 4) - 1) : S[j].op = "clock"
    BY <1>1, <2>1
  <2> QED
    BY <1>1, <1>4, <2>2, <2>3, <2>4, <2>5 DEF StopsCount
<1>17. EventsCount(S, c)
  <2> DEFINE Counted(k) ==
        \E i, j \in 1..(k - 1) :
              /\ S[i].op = "record" /\ S[i].what = S[k].from
              /\ S[j].op = "record" /\ S[j].what = S[k].to
              /\ Cardinality(Sent(S, j) \ Sent(S, i)) = S[k].unit
  <2>1. EventsCount(S, c) <=> \A k \in 1..Len(S) : S[k].op = "elapsed" => c.method # "ready" /\ Counted(k)
    BY DEF EventsCount
  <2>2. ASSUME NEW u \in 1..n PROVE Counted(2 * n + 4 + u)
    <3> DEFINE k == 2 * n + 4 + u
    <3>1. /\ u - 1 \in 0..n /\ u \in 0..n /\ 2 * (u - 1) + 2 = 2 * u
          /\ 2 * u \in 1..(k - 1) /\ 2 * u + 2 \in 1..(k - 1)
      BY <1>1, SMTT(60)
    <3>2. /\ S[2 * u].op = "record" /\ S[2 * u].what = S[k].from
          /\ S[2 * u + 2].op = "record" /\ S[2 * u + 2].what = S[k].to /\ S[k].unit = 1
      <4>1. S[2 * (u - 1) + 2].op = "record" /\ S[2 * (u - 1) + 2].what = Transfer!Marker(u - 1)
        BY <1>2, <3>1
      <4>2. S[2 * u + 2].op = "record" /\ S[2 * u + 2].what = Transfer!Marker(u)
        BY <1>2, <3>1
      <4> QED
        BY <1>5, <3>1, <4>1, <4>2
    <3>3. Sent(S, 2 * u + 2) \ Sent(S, 2 * u) = {<<r, u, Transfer!Default>>}
      <4>1. Sent(S, 2 * (u - 1) + 2) = Batch(r, u - 1, Transfer!Default) /\ Sent(S, 2 * u + 2) = Batch(r, u, Transfer!Default)
        BY <1>11, <3>1
      <4>2. \A i : i \in 1..u <=> (i \in 1..(u - 1) \/ i = u)
        BY <1>1
      <4>3. u \notin 1..(u - 1)
        BY <1>1
      <4>4. Batch(r, u, Transfer!Default) \ Batch(r, u - 1, Transfer!Default) = {<<r, u, Transfer!Default>>}
        BY <4>2, <4>3 DEF Batch
      <4> QED
        BY <3>1, <4>1, <4>4
    <3>4. Cardinality({<<r, u, Transfer!Default>>}) = 1
      BY FS_Singleton
    <3> HIDE DEF k
    <3> QED
      BY <3>1, <3>2, <3>3, <3>4 DEF k
  <2> HIDE DEF Counted
  <2> QED
    BY <1>1, <1>7, <2>1, <2>2, ZenonT(60)
<1> QED
  BY <1>9, <1>10, <1>14, <1>15, <1>16, <1>17 DEF WellFormed

LEMMA QueueLayout ==
  ASSUME TransferBounds, NEW c, c.method # "ready", Buffers \subseteq Allocated(c), NEW r \in Nat \ {0}
  PROVE  IsQueue(Transfer!QueueRound(r), c, r, Slots)
<1> DEFINE n == Slots
           x == <<Transfer!Clock, Transfer!Record(Transfer!Marker(0), Transfer!Default)>>
           b == Transfer!Burst(r)
           y == <<Transfer!Wait(Transfer!Marker(Slots)), Transfer!Stop("wall", r, Slots)>>
           z == [i \in 1..Slots |-> Transfer!Elapsed(Transfer!Marker(i - 1), Transfer!Marker(i), r, 1)]
           v == (x \o b) \o y
           S == v \o z
<1>0. n \in Nat \ {0} /\ r \in Nat /\ \A i \in 0..n : Transfer!Marker(i) \in Transfer!Events
  BY DEF TransferBounds, Transfer!CudaTransferAssumption, Transfer!Events
<1>1. Transfer!QueueRound(r) = S
  BY DEF Transfer!QueueRound
<1>2. x \in Seq(AllOps) /\ Len(x) = 2 /\ x[1].op = "clock" /\ IsRecord(x[2], Transfer!Marker(0))
  <2>1. Transfer!Marker(0) \in Transfer!Events
    BY <1>0
  <2> QED
    BY <2>1, CommandKinds
<1>3. /\ b \in Seq(AllOps) /\ Len(b) = 2 * n
      /\ \A i \in 1..n : IsCopy(b[2 * i - 1], Transfer!Default, r, i, Buffers) /\ IsRecord(b[2 * i], Transfer!Marker(i))
  <2> DEFINE f(k) == IF k % 2 = 1 THEN Transfer!CopyAt(r, (k + 1) \div 2)
                     ELSE Transfer!Record(Transfer!Marker(k \div 2), Transfer!Default)
  <2>1. b = [k \in 1..(2 * n) |-> f(k)]
    BY DEF Transfer!Burst
  <2>2. \A i \in 1..n : /\ Transfer!CopyAt(r, i) \in AllOps /\ IsCopy(Transfer!CopyAt(r, i), Transfer!Default, r, i, Buffers)
                        /\ Transfer!Record(Transfer!Marker(i), Transfer!Default) \in AllOps
                        /\ IsRecord(Transfer!Record(Transfer!Marker(i), Transfer!Default), Transfer!Marker(i))
    <3>1. \A i \in 1..n : i \in Nat /\ Transfer!Marker(i) \in Transfer!Events
      BY <1>0
    <3> QED
      BY <1>0, <3>1, CommandKinds
  <2>3. \A i \in 1..n : /\ (2 * i - 1) % 2 = 1 /\ ((2 * i - 1) + 1) \div 2 = i
                        /\ (2 * i) % 2 = 0 /\ (2 * i) \div 2 = i
                        /\ 2 * i - 1 \in 1..(2 * n) /\ 2 * i \in 1..(2 * n)
    BY <1>0
  <2>4. \A i \in 1..n : f(2 * i - 1) = Transfer!CopyAt(r, i) /\ f(2 * i) = Transfer!Record(Transfer!Marker(i), Transfer!Default)
    BY <2>3
  <2>5. \A k \in 1..(2 * n) : \E i \in 1..n : k = 2 * i - 1 \/ k = 2 * i
    <3> TAKE k \in 1..(2 * n)
    <3>1. k \in Nat
      OBVIOUS
    <3>2. PICK j \in Nat : k = 2 * j \/ k = 2 * j + 1
      BY <3>1, Halves
    <3>3. CASE k = 2 * j
      <4>1. j \in 1..n
        BY <1>0, <3>3
      <4> QED
        BY <3>3, <4>1
    <3>4. CASE k = 2 * j + 1
      <4>1. j + 1 \in 1..n /\ k = 2 * (j + 1) - 1
        BY <1>0, <3>4
      <4> QED
        BY <4>1
    <3> QED
      BY <3>2, <3>3, <3>4
  <2> HIDE DEF f
  <2>6. \A k \in 1..(2 * n) : f(k) \in AllOps
    BY <2>2, <2>4, <2>5
  <2>7. b \in Seq(AllOps) /\ Len(b) = 2 * n
    <3>1. 2 * n \in Nat
      BY <1>0
    <3> QED
      BY <2>1, <2>6, <3>1, IsASeq
  <2>8. \A i \in 1..n : b[2 * i - 1] = Transfer!CopyAt(r, i) /\ b[2 * i] = Transfer!Record(Transfer!Marker(i), Transfer!Default)
    BY <2>1, <2>3, <2>4
  <2> QED
    BY <2>2, <2>7, <2>8
<1>4. y \in Seq(AllOps) /\ Len(y) = 2 /\ IsWait(y[1], Transfer!Marker(n)) /\ IsStop(y[2], "wall", r, n)
  <2>1. Transfer!Marker(n) \in Transfer!Events /\ n \in Nat
    BY <1>0
  <2> QED
    BY <1>0, <2>1, CommandKinds
<1>5. /\ z \in Seq(AllOps) /\ Len(z) = n
      /\ \A i \in 1..n : IsElapsed(z[i], Transfer!Marker(i - 1), Transfer!Marker(i), r, 1)
  <2>1. \A i \in 1..n : Transfer!Marker(i - 1) \in Transfer!Events /\ Transfer!Marker(i) \in Transfer!Events
    <3>1. \A i \in 1..n : i \in 0..n /\ i - 1 \in 0..n
      BY <1>0
    <3> QED
      BY <1>0, <3>1
  <2>2. \A i \in 1..n : /\ Transfer!Elapsed(Transfer!Marker(i - 1), Transfer!Marker(i), r, 1) \in AllOps
                        /\ IsElapsed(Transfer!Elapsed(Transfer!Marker(i - 1), Transfer!Marker(i), r, 1),
                                     Transfer!Marker(i - 1), Transfer!Marker(i), r, 1)
    BY <1>0, <2>1, CommandKinds
  <2>3. z \in Seq(AllOps) /\ Len(z) = n
    BY <1>0, <2>2, IsASeq
  <2> QED
    BY <2>2, <2>3
<1> HIDE DEF x, b, y, z
<1>6. /\ v \in Seq(AllOps) /\ Len(v) = (Len(x) + Len(b)) + Len(y)
      /\ \A k \in 1..Len(x) : v[k] = x[k]
      /\ \A k \in (Len(x) + 1)..(Len(x) + Len(b)) : v[k] = b[k - Len(x)]
      /\ \A k \in ((Len(x) + Len(b)) + 1)..((Len(x) + Len(b)) + Len(y)) : v[k] = y[k - (Len(x) + Len(b))]
  BY <1>2, <1>3, <1>4, ThreeJoined, ZenonT(60)
<1> HIDE DEF v
<1>7. /\ S \in Seq(AllOps) /\ Len(S) = Len(v) + Len(z)
      /\ \A k \in 1..Len(v) : S[k] = v[k]
      /\ \A k \in (Len(v) + 1)..(Len(v) + Len(z)) : S[k] = z[k - Len(v)]
  BY <1>5, <1>6, Joined
<1> HIDE DEF S, n
<1>8. Len(v) = 2 * n + 4 /\ Len(S) = 3 * n + 4
  BY <1>0, <1>2, <1>3, <1>4, <1>5, <1>6, <1>7
<1>9. S[1] = x[1] /\ S[2] = x[2]
  <2>1. 1 \in 1..2 /\ 2 \in 1..2 /\ 1 \in 1..(2 * n + 4) /\ 2 \in 1..(2 * n + 4)
    BY <1>0
  <2> QED
    BY <1>2, <1>6, <1>7, <1>8, <2>1
<1>10. \A i \in 1..n : S[2 * i + 1] = b[2 * i - 1] /\ S[2 * i + 2] = b[2 * i]
  <2> TAKE i \in 1..n
  <2>1. /\ 2 * i + 1 \in (2 + 1)..(2 + 2 * n) /\ (2 * i + 1) - 2 = 2 * i - 1 /\ 2 * i + 1 \in 1..(2 * n + 4)
        /\ 2 * i + 2 \in (2 + 1)..(2 + 2 * n) /\ (2 * i + 2) - 2 = 2 * i /\ 2 * i + 2 \in 1..(2 * n + 4)
    BY <1>0
  <2>2. v[2 * i + 1] = b[2 * i - 1] /\ v[2 * i + 2] = b[2 * i]
    BY <1>2, <1>3, <1>6, <2>1
  <2> QED
    BY <1>7, <1>8, <2>1, <2>2
<1>11. S[2 * n + 3] = y[1] /\ S[2 * n + 4] = y[2]
  <2>1. /\ 2 * n + 3 \in ((2 + 2 * n) + 1)..((2 + 2 * n) + 2) /\ (2 * n + 3) - (2 + 2 * n) = 1 /\ 2 * n + 3 \in 1..(2 * n + 4)
        /\ 2 * n + 4 \in ((2 + 2 * n) + 1)..((2 + 2 * n) + 2) /\ (2 * n + 4) - (2 + 2 * n) = 2 /\ 2 * n + 4 \in 1..(2 * n + 4)
    BY <1>0
  <2>2. v[2 * n + 3] = y[1] /\ v[2 * n + 4] = y[2]
    BY <1>2, <1>3, <1>4, <1>6, <2>1
  <2> QED
    BY <1>7, <1>8, <2>1, <2>2
<1>12. \A i \in 1..n : S[2 * n + 4 + i] = z[i]
  <2> TAKE i \in 1..n
  <2>1. 2 * n + 4 + i \in ((2 * n + 4) + 1)..((2 * n + 4) + n) /\ (2 * n + 4 + i) - (2 * n + 4) = i
    BY <1>0
  <2> QED
    BY <1>5, <1>7, <1>8, <2>1
<1>13. \A i \in 0..n : IsRecord(S[2 * i + 2], Transfer!Marker(i))
  <2> TAKE i \in 0..n
  <2>1. CASE i = 0
    BY <1>2, <1>9, <2>1
  <2>2. CASE i # 0
    <3>1. i \in 1..n
      BY <1>0, <2>2
    <3> QED
      BY <1>3, <1>10, <3>1
  <2> QED
    BY <2>1, <2>2
<1>14. IsQueue(S, c, r, n)
  <2>1. S \in Seq(AllOps) /\ Len(S) = 3 * n + 4 /\ S[1].op = "clock"
    BY <1>2, <1>7, <1>8, <1>9
  <2>2. \A i \in 1..n : IsCopy(S[2 * i + 1], Transfer!Default, r, i, Buffers)
    BY <1>3, <1>10
  <2>3. IsWait(S[2 * n + 3], Transfer!Marker(n)) /\ IsStop(S[2 * n + 4], "wall", r, n)
    BY <1>4, <1>11
  <2>4. \A i \in 1..n : IsElapsed(S[2 * n + 4 + i], Transfer!Marker(i - 1), Transfer!Marker(i), r, 1)
    BY <1>5, <1>12
  <2> QED
    BY <1>0, <1>13, <2>1, <2>2, <2>3, <2>4 DEF IsQueue
<1> QED
  BY <1>1, <1>14 DEF n

(* A probe behind the copies of another stream. *)
IsReady(S, c, r, m) ==
    /\ S \in Seq(AllOps) /\ r \in Nat \ {0} /\ m \in Nat /\ Len(S) = m + 7
    /\ c.method = "ready" /\ Buffers \subseteq Allocated(c) /\ (m > 0 => LoadBuffers \subseteq Allocated(c))
    /\ \A k \in 1..m : IsCopy(S[k], Transfer!Load, r, k, LoadBuffers)
    /\ S[m + 1].op = "clock" /\ IsCopy(S[m + 2], Transfer!Probe, r, 1, Buffers)
    /\ S[m + 3].op = "record" /\ S[m + 3].what = Transfer!Ready /\ S[m + 3].on = Transfer!Probe
    /\ IsWait(S[m + 4], Transfer!Ready) /\ IsStop(S[m + 5], "ready", r, 1)
    /\ IsDrain(S[m + 6], Transfer!Load) /\ IsDrain(S[m + 7], Transfer!Probe)

LEMMA ReadyIsWellFormed ==
  ASSUME NEW S, NEW c, NEW r, NEW m, IsReady(S, c, r, m)
  PROVE  WellFormed(S, c, r)
<1>1. /\ S \in Seq(AllOps) /\ r \in Nat \ {0} /\ m \in Nat /\ Len(S) = m + 7
      /\ c.method = "ready" /\ Buffers \subseteq Allocated(c) /\ (m > 0 => LoadBuffers \subseteq Allocated(c))
  BY DEF IsReady
<1>2. \A k \in 1..m : /\ S[k].op = "copy" /\ S[k].on = Transfer!Load /\ S[k].id = <<r, k, Transfer!Load>>
                      /\ S[k].uses = LoadBuffers
  BY DEF IsReady, IsCopy
<1>3. /\ S[m + 1].op = "clock"
      /\ S[m + 2].op = "copy" /\ S[m + 2].on = Transfer!Probe /\ S[m + 2].id = <<r, 1, Transfer!Probe>> /\ S[m + 2].uses = Buffers
      /\ S[m + 3].op = "record" /\ S[m + 3].what = Transfer!Ready /\ S[m + 3].on = Transfer!Probe
      /\ S[m + 4].op = "wait" /\ S[m + 4].what = Transfer!Ready
      /\ S[m + 5].op = "stop" /\ S[m + 5].by = "ready" /\ S[m + 5].round = r
      /\ S[m + 6].op = "drain" /\ S[m + 6].what = Transfer!Load
      /\ S[m + 7].op = "drain" /\ S[m + 7].what = Transfer!Probe
  BY DEF IsReady, IsCopy, IsWait, IsStop, IsDrain
<1>4. \A k \in 1..Len(S) : k \in 1..m \/ k = m + 1 \/ k = m + 2 \/ k = m + 3 \/ k = m + 4 \/ k = m + 5 \/ k = m + 6 \/ k = m + 7
  BY <1>1
<1>5. \A k \in 1..Len(S) :
         /\ S[k].op \in {"copy", "clock", "record", "wait", "stop", "drain"}
         /\ S[k].op = "copy" => k \in 1..m \/ k = m + 2
         /\ S[k].op = "record" => k = m + 3
         /\ S[k].op = "clock" => k = m + 1
         /\ S[k].op = "stop" => k = m + 5
  BY <1>2, <1>3, <1>4
<1>6. \A k \in 1..Len(S) : S[k].op = "copy" =>
         S[k].id[1] = r /\ S[k].id[3] = S[k].on /\ S[k].uses \subseteq Allocated(c)
  <2> SUFFICES ASSUME NEW k \in 1..Len(S), S[k].op = "copy"
               PROVE  S[k].id[1] = r /\ S[k].id[3] = S[k].on /\ S[k].uses \subseteq Allocated(c)
    OBVIOUS
  <2>1. CASE k \in 1..m
    <3>1. m > 0
      BY <1>1, <2>1
    <3> QED
      BY <1>1, <1>2, <2>1, <3>1
  <2>2. CASE k = m + 2
    BY <1>1, <1>3, <2>2
  <2> QED
    BY <1>5, <2>1, <2>2
<1>7. CommandsAreTyped(S, r)
  <2>1. \A k \in 1..Len(S) : S[k].op \in {"stop", "elapsed"} => S[k].round = r
    BY <1>3, <1>5
  <2> QED
    BY <1>1, <1>6, <2>1 DEF CommandsAreTyped, AllOps
<1>8. CopiesHaveBuffers(S, c, r)
  BY <1>1, <1>5, <1>6 DEF CopiesHaveBuffers
<1>9. RoundsEndIdle(S)
  <2>1. /\ (m + 7 + 1) - 1 = m + 7 /\ m + 7 + 1 \in Nat \ {0}
        /\ m + 6 \in 0..(m + 7) /\ m + 7 \in 0..(m + 7) /\ \A k \in ((m + 6) + 1)..(m + 7) : k = m + 7
        /\ ((m + 7) + 1)..(m + 7) = {} /\ m + 7 \in 1..Len(S)
    BY <1>1
  <2>2. ~Enqueues(S[m + 7], Transfer!Load)
    BY <1>3 DEF Enqueues
  <2>3. Settles(S, m + 6, Transfer!Load) /\ Settles(S, m + 7, Transfer!Probe)
    BY <1>3 DEF Settles
  <2>4. Idle(S, m + 7 + 1, Transfer!Load)
    <3>1. \A k \in ((m + 6) + 1)..((m + 7 + 1) - 1) : ~Enqueues(S[k], Transfer!Load)
      BY <2>1, <2>2
    <3> QED
      BY <2>1, <2>3, <3>1, SettledIsIdle
  <2>5. Idle(S, m + 7 + 1, Transfer!Probe)
    BY <2>1, <2>3, SettledIsIdle
  <2>6. Idle(S, m + 7 + 1, Transfer!Default)
    <3>1. Transfer!Default # Transfer!Load /\ Transfer!Default # Transfer!Probe
      BY DEF Transfer!Default, Transfer!Load, Transfer!Probe
    <3>2. ASSUME NEW k \in 1..Len(S) PROVE ~Enqueues(S[k], Transfer!Default)
      BY <1>2, <1>3, <1>5, <3>1 DEF Enqueues
    <3> QED
      BY <1>1, <2>1, <3>2, NeverIsIdle
  <2> QED
    BY <1>1, <2>4, <2>5, <2>6 DEF RoundsEndIdle, Transfer!Streams
<1>10. RecordsAreSingle(S, c)
  BY <1>5 DEF RecordsAreSingle
<1>11. OneStream(S, c) /\ ClocksAreFirst(S, c)
  BY <1>1 DEF OneStream, ClocksAreFirst
<1>12. StopsCount(S, c, r)
  <2>1. /\ m + 1 \in 1..((m + 5) - 1) /\ m + 2 \in 1..((m + 5) - 1) /\ m + 5 \in Nat
        /\ m + 4 \in 0..((m + 5) - 1) /\ ((m + 4) + 1)..((m + 5) - 1) = {}
        /\ (m + 4) - 1 = m + 3 /\ m + 4 > 1
    BY <1>1
  <2>2. Idle(S, m + 5, Transfer!Probe)
    <3>1. Settles(S, m + 4, Transfer!Probe)
      BY <1>3, <2>1 DEF Settles
    <3> QED
      BY <2>1, <3>1, SettledIsIdle
  <2>3. <<r, 1, Transfer!Probe>> \in Sent(S, m + 5)
    BY <1>3, <2>1 DEF Sent
  <2>4. <<r, 1, Transfer!Probe>> \notin Sent(S, m + 1)
    <3>1. (m + 1) - 1 = m /\ Transfer!Probe # Transfer!Load
      BY <1>1 DEF Transfer!Load, Transfer!Probe
    <3>2. \A k \in 1..m : S[k].id # <<r, 1, Transfer!Probe>>
      BY <1>2, <3>1
    <3> QED
      BY <3>1, <3>2 DEF Sent
  <2>5. \A j \in 1..((m + 5) - 1) : S[j].op = "clock" => j = m + 1
    <3>1. \A j \in 1..((m + 5) - 1) : j \in 1..Len(S)
      BY <1>1
    <3> QED
      BY <1>5, <3>1
  <2>6. /\ \E j \in 1..((m + 5) - 1) : S[j].op = "clock"
        /\ \A j \in 1..((m + 5) - 1) : S[j].op = "clock" => <<r, 1, Transfer!Probe>> \notin Sent(S, j)
    BY <1>3, <2>1, <2>4, <2>5
  <2> QED
    BY <1>1, <1>3, <1>5, <2>2, <2>3, <2>6 DEF StopsCount
<1>13. EventsCount(S, c)
  BY <1>5 DEF EventsCount
<1> QED
  BY <1>7, <1>8, <1>9, <1>10, <1>11, <1>12, <1>13 DEF WellFormed

LEMMA ReadyLayout ==
  ASSUME TransferBounds, NEW c \in Measurements, c.method = "ready", NEW r \in Nat \ {0}
  PROVE  IsReady(Transfer!ReadyRound(c.load, r), c, r, IF c.load THEN Slots ELSE 0)
<1> DEFINE m == IF c.load THEN Slots ELSE 0
           x == Transfer!LoadCopies(m, r)
           z == <<Transfer!Clock, Transfer!ProbeCopy(r, 1), Transfer!Record(Transfer!Ready, Transfer!Probe),
                  Transfer!Wait(Transfer!Ready), Transfer!Stop("ready", r, 1),
                  Transfer!Drain(Transfer!Load), Transfer!Drain(Transfer!Probe)>>
           S == x \o z
<1>0. /\ m \in Nat /\ r \in Nat /\ Transfer!Ready \in Transfer!Events
      /\ Transfer!Load \in Transfer!Streams /\ Transfer!Probe \in Transfer!Streams
  BY DEF TransferBounds, Transfer!CudaTransferAssumption, Transfer!Events, Transfer!Streams
<1>1. Transfer!ReadyRound(c.load, r) = S
  BY DEF Transfer!ReadyRound
<1>2. Buffers \subseteq Allocated(c) /\ (m > 0 => LoadBuffers \subseteq Allocated(c))
  <2>1. Allocated(c) = Owns(c)
    BY SetupsAreWellFormed
  <2>2. Owns(c) = Buffers \cup {Transfer!Ready, Transfer!Load, Transfer!Probe} \cup IF c.load THEN LoadBuffers ELSE {}
    BY DEF Owns, Timings
  <2>3. m > 0 => c.load
    OBVIOUS
  <2> HIDE DEF m
  <2> QED
    BY <2>1, <2>2, <2>3
<1> HIDE DEF m
<1>3. x \in Seq(AllOps) /\ Len(x) = m /\ \A k \in 1..m : IsCopy(x[k], Transfer!Load, r, k, LoadBuffers)
  <2>1. \A i \in 1..m :
           /\ i \in Nat /\ Transfer!Copy(Transfer!Load, r, i, Transfer!LoadSource, Transfer!Loaded) \in AllOps
           /\ IsCopy(Transfer!Copy(Transfer!Load, r, i, Transfer!LoadSource, Transfer!Loaded), Transfer!Load, r, i, LoadBuffers)
    BY <1>0, CommandKinds
  <2>2. x = [i \in 1..m |-> Transfer!Copy(Transfer!Load, r, i, Transfer!LoadSource, Transfer!Loaded)]
    BY DEF Transfer!LoadCopies
  <2> HIDE DEF x
  <2>3. x \in Seq(AllOps) /\ Len(x) = m
    BY <1>0, <2>1, <2>2, IsASeq
  <2> QED
    BY <2>1, <2>2, <2>3
<1>4. /\ z \in Seq(AllOps) /\ Len(z) = 7 /\ z[1].op = "clock" /\ IsCopy(z[2], Transfer!Probe, r, 1, Buffers)
      /\ z[3].op = "record" /\ z[3].what = Transfer!Ready /\ z[3].on = Transfer!Probe
      /\ IsWait(z[4], Transfer!Ready) /\ IsStop(z[5], "ready", r, 1)
      /\ IsDrain(z[6], Transfer!Load) /\ IsDrain(z[7], Transfer!Probe)
  BY <1>0, CommandKinds
<1> HIDE DEF x, z
<1>5. /\ S \in Seq(AllOps) /\ Len(S) = Len(x) + Len(z)
      /\ \A k \in 1..Len(x) : S[k] = x[k]
      /\ \A k \in (Len(x) + 1)..(Len(x) + Len(z)) : S[k] = z[k - Len(x)]
  BY <1>3, <1>4, Joined
<1> HIDE DEF S
<1>6. Len(S) = m + 7 /\ \A k \in 1..m : S[k] = x[k]
  BY <1>3, <1>4, <1>5
<1>7. \A k \in 1..7 : S[m + k] = z[k]
  <2>1. \A k \in 1..7 : m + k \in (m + 1)..(m + 7) /\ (m + k) - m = k
    BY <1>0
  <2> QED
    BY <1>3, <1>4, <1>5, <2>1, ZenonT(60)
<1>8. /\ S[m + 1] = z[1] /\ S[m + 2] = z[2] /\ S[m + 3] = z[3] /\ S[m + 4] = z[4]
      /\ S[m + 5] = z[5] /\ S[m + 6] = z[6] /\ S[m + 7] = z[7]
  BY <1>7
<1>9. IsReady(S, c, r, m)
  <2>1. \A k \in 1..m : IsCopy(S[k], Transfer!Load, r, k, LoadBuffers)
    BY <1>3, <1>6
  <2> QED
    BY <1>0, <1>2, <1>4, <1>5, <1>6, <1>8, <2>1 DEF IsReady
<1> QED
  BY <1>1, <1>9 DEF m

(* Every measurement, of every number of slots, rounds and warm-up copies, *)
(* is made of well-formed rounds and releases what it allocated.           *)
LEMMA CallsHold == ASSUME TransferBounds PROVE CallsAreSound
<1>0. Rounds \in Nat \ {0} /\ 2 * Rounds \in Nat
  BY DEF TransferBounds, Transfer!CudaTransferAssumption
<1>1. RoundsAreNumbers
  BY <1>0 DEF RoundsAreNumbers, Transfer!RoundsOf
<1>2. ASSUME NEW c \in Measurements, NEW r \in 0..Transfer!RoundsOf(c) PROVE WellFormed(Transfer!Commands(c, r), c, r)
  <2>1. CASE r = 0
    <3>1. Transfer!Commands(c, r) = Transfer!Setup(c)
      BY <2>1 DEF Transfer!Commands
    <3> QED
      BY <2>1, <3>1, SetupsAreWellFormed
  <2>2. CASE r # 0
    <3>1. Transfer!Commands(c, r) = Transfer!Round(c, r) /\ r \in Nat \ {0}
      BY <1>1, <1>2, <2>2 DEF Transfer!Commands, RoundsAreNumbers
    <3>2. c.method # "staging"
      <4>1. c.method = "staging" => Transfer!RoundsOf(c) = 0
        BY DEF Transfer!RoundsOf
      <4> QED
        BY <1>2, <2>2, <4>1
    <3>3. c.method \in Timings \/ c.method = "queue" \/ c.method = "ready"
      BY <3>2 DEF Measurements, Methods, Timings
    <3>4. CASE c.method \in Timings
      BY <3>1, <3>4, TimedRounds
    <3>5. CASE c.method = "queue"
      <4>1. Buffers \subseteq Allocated(c) /\ c.method # "ready"
        <5>1. Allocated(c) = Owns(c)
          BY SetupsAreWellFormed
        <5> QED
          BY <3>5, <5>1 DEF Owns, Timings
      <4>2. Transfer!Round(c, r) = Transfer!QueueRound(r)
        BY <3>5 DEF Transfer!Round
      <4> QED
        BY <3>1, <4>1, <4>2, QueueLayout, QueueIsWellFormed
    <3>6. CASE c.method = "ready"
      <4>1. Transfer!Round(c, r) = Transfer!ReadyRound(c.load, r)
        BY <3>6 DEF Transfer!Round
      <4> QED
        BY <3>1, <3>6, <4>1, ReadyLayout, ReadyIsWellFormed
    <3> QED
      BY <3>3, <3>4, <3>5, <3>6
  <2> QED
    BY <2>1, <2>2
<1>3. AllWellFormed
  BY <1>2 DEF AllWellFormed
<1> QED
  BY <1>1, <1>3, ReleasesAreSound DEF CallsAreSound

-----------------------------------------------------------------------------
(* A command of the host *)

LEMMA RunningFacts ==
  ASSUME AllWellFormed, TransferInv, doing = "running"
  PROVE  /\ Method \in Measurements /\ WellFormed(Script, Method, round) /\ Transfer!Todo = Script
         /\ round \in Nat /\ Transfer!RoundsOf(Method) = Transfer!RoundsOf(Method)
         /\ Len(Script) \in Nat /\ next \in 1..(Len(Script) + 1)
         /\ \A k \in 1..Len(Script) : Script[k] \in CopyOps \cup RecordOps \cup HostOps
         /\ \A c \in Sent(Script, next) : c[1] = round /\ c \in Nat \X Nat \X Transfer!Streams
<1>1. Method \in Measurements /\ round \in 0..Transfer!RoundsOf(Method) /\ next \in 1..(Len(Script) + 1)
  BY DEF TransferInv, TransferIsTyped, Method
<1>2. WellFormed(Script, Method, round)
  BY <1>1 DEF AllWellFormed, Script
<1>3. Transfer!Todo = Script
  BY DEF Transfer!Todo, Script, Method
<1>4. CommandsAreTyped(Script, round)
  BY <1>2 DEF WellFormed
<1>5. Len(Script) \in Nat /\ \A k \in 1..Len(Script) : Script[k] \in CopyOps \cup RecordOps \cup HostOps
  BY <1>4, ElementOfSeq DEF CommandsAreTyped
<1>6. \A c \in Sent(Script, next) : c[1] = round /\ c \in Nat \X Nat \X Transfer!Streams
  BY <1>1, <1>4, SentIsOfRound
<1> QED
  BY <1>1, <1>2, <1>3, <1>5, <1>6

LEMMA DoingFacts ==
  ASSUME AllWellFormed, TransferInv, NEW op, Transfer!Doing(op), UNCHANGED <<benchmarks, doing>>
  PROVE  /\ doing = "running" /\ doing' = "running" /\ next \in 1..Len(Script) /\ Script[next].op = op
         /\ Transfer!Command = Script[next] /\ next' = next + 1 /\ round' = round /\ (next + 1) - 1 = next
         /\ Script' = Script /\ Method' = Method
         /\ next \in Nat \ {0} /\ next \in 1..next
         /\ \A k : k \in 1..(next' - 1) <=> (k \in 1..(next - 1) \/ k = next)
<1>1. doing = "running" /\ ~Transfer!Over /\ Transfer!Command.op = op /\ next' = next + 1 /\ round' = round
  BY DEF Transfer!Doing
<1>2. Transfer!Todo = Script /\ Len(Script) \in Nat /\ next \in 1..(Len(Script) + 1)
  BY <1>1, RunningFacts
<1>3. next \in 1..Len(Script)
  BY <1>1, <1>2 DEF Transfer!Over
<1>4. Transfer!Command = Script[next]
  BY <1>2 DEF Transfer!Command
<1>5. Method' = Method /\ Script' = Script
  BY <1>1 DEF Method, Script
<1>6. \A k : k \in 1..(next' - 1) <=> (k \in 1..(next - 1) \/ k = next)
  BY <1>1, <1>3
<1> QED
  BY <1>1, <1>2, <1>3, <1>4, <1>5, <1>6

LEMMA TypedAdvance ==
  ASSUME AllWellFormed, TransferInv, NEW op, Transfer!Doing(op), UNCHANGED <<benchmarks, doing, failing>>,
         stream' \in [Transfer!Streams -> Seq(CopyOps \cup RecordOps)], UNCHANGED <<done, stamp>>
  PROVE  TransferIsTyped'
<1>1. next' \in 1..(Len(Script) + 1) /\ Script' = Script /\ Method' = Method /\ round' = round /\ doing' = "running"
  BY DoingFacts
<1>2. failing \in BOOLEAN /\ (failing => doing \in {"releasing", "raised"}) /\ benchmarks \in Seq(Measurements)
      /\ round \in 0..Transfer!RoundsOf(Method) /\ done \subseteq Nat \X Nat \X Transfer!Streams /\ benchmarks # <<>>
      /\ DOMAIN stamp = Transfer!Events
  BY <1>1 DEF TransferInv, TransferIsTyped
<1> QED
  BY <1>1, <1>2 DEF TransferIsTyped

(* A command that neither allocates nor enqueues. *)
LEMMA QuietStep ==
  ASSUME AllWellFormed, TransferInv, NEW op, Transfer!Doing(op), op \notin {"copy", "record", "make"},
         UNCHANGED <<benchmarks, doing, failing, held, stream, done, stamp>>,
         \A s \in Transfer!Streams : Settles(Script, next, s) => stream[s] = <<>>
  PROVE  TransferIsTyped' /\ BuffersAreHeld' /\ StreamsSettle' /\ CopiesAreOfRounds' /\ StampsFollow'
<1>0. /\ doing = "running" /\ doing' = "running" /\ next \in 1..Len(Script) /\ Script[next].op = op
      /\ next' = next + 1 /\ round' = round /\ Script' = Script /\ Method' = Method
      /\ next \in Nat \ {0} /\ (next + 1) - 1 = next
      /\ \A k : k \in 1..(next' - 1) <=> (k \in 1..(next - 1) \/ k = next)
  BY DoingFacts
<1>1. Sent(Script, next + 1) = Sent(Script, next) /\ Made(Script, next + 1) = Made(Script, next)
  <2>1. /\ Sent(Script, next + 1) = Sent(Script, next) \cup (IF Script[next].op = "copy" THEN {Script[next].id} ELSE {})
        /\ Made(Script, next + 1) = Made(Script, next) \cup (IF Script[next].op = "make" THEN {Script[next].what} ELSE {})
    BY <1>0, OneMoreCommand
  <2>2. Script[next].op # "copy" /\ Script[next].op # "make"
    BY <1>0
  <2> QED
    BY <2>1, <2>2
<1>2. TransferIsTyped'
  BY TypedAdvance DEF TransferInv, TransferIsTyped
<1>3. BuffersAreHeld'
  BY <1>0, <1>1 DEF TransferInv, BuffersAreHeld
<1>4. StreamsSettle'
  <2>1. ASSUME NEW s \in Transfer!Streams, Idle(Script, next + 1, s) PROVE stream[s] = <<>>
    BY <1>0, <2>1, IdleGoesBack DEF TransferInv, StreamsSettle
  <2>2. \A s : ~Enqueues(Script[next], s)
    BY <1>0 DEF Enqueues
  <2> QED
    BY <1>0, <2>1, <2>2 DEF StreamsSettle
<1>5. CopiesAreOfRounds'
  BY <1>0, <1>1 DEF TransferInv, CopiesAreOfRounds
<1>6. StampsFollow'
  <2>1. Old' = Old
    BY <1>0 DEF Old
  <2>2. \A s, i : Ahead(s, i)' = Ahead(s, i)
    BY DEF Ahead
  <2>3. \A e : Transfer!Reached(e)' = Transfer!Reached(e)
    BY DEF Transfer!Reached
  <2> QED
    BY <1>0, <2>1, <2>2, <2>3 DEF TransferInv, StampsFollow
<1> QED
  BY <1>2, <1>3, <1>4, <1>5, <1>6

LEMMA WaitEventStep == ASSUME AllWellFormed, TransferInv, Transfer!WaitEvent PROVE TransferInv'
<1> USE DEF Transfer!WaitEvent
<1>0. /\ doing = "running" /\ next \in 1..Len(Script) /\ Transfer!Command = Script[next] /\ Script[next].op = "wait"
      /\ next' = next + 1 /\ Script' = Script /\ round' = round /\ Method' = Method /\ doing' = "running"
      /\ \A k : k \in 1..(next' - 1) <=> (k \in 1..(next - 1) \/ k = next)
  BY DoingFacts
<1>1. stream \in [Transfer!Streams -> Seq(CopyOps \cup RecordOps)]
  BY DEF TransferInv, TransferIsTyped
<1>2. ASSUME NEW s \in Transfer!Streams, Settles(Script, next, s) PROVE stream[s] = <<>>
  <2>1. /\ next > 1 /\ Script[next - 1].op = "record" /\ Script[next - 1].on = s
        /\ Script[next - 1].what = Script[next].what
    BY <1>0, <1>2 DEF Settles
  <2>2. ASSUME stream[s] # <<>> PROVE FALSE
    <3>1. stream[s][Len(stream[s])] = Script[next - 1]
      BY <1>0, <2>1, <2>2 DEF TransferInv, StreamsSettle, Enqueues
    <3>2. Len(stream[s]) \in DOMAIN stream[s]
      BY <1>1, <2>2
    <3>3. stream[s][Len(stream[s])].op = "record" => stream[s][Len(stream[s])].what # Script[next].what
      BY <1>0, <3>2 DEF Transfer!Reached
    <3> QED
      BY <2>1, <3>1, <3>3
  <2> QED
    BY <2>2
<1>3. TransferIsTyped' /\ BuffersAreHeld' /\ StreamsSettle' /\ CopiesAreOfRounds' /\ StampsFollow'
  BY <1>2, QuietStep
<1>4. ClockIsRead'
  BY <1>0 DEF TransferInv, ClockIsRead, Old
<1>5. Transfer!SamplesAreTheirRounds'
  BY DEF TransferInv, Transfer!SamplesAreTheirRounds
<1> QED
  BY <1>3, <1>4, <1>5 DEF TransferInv

LEMMA WaitStreamStep == ASSUME AllWellFormed, TransferInv, Transfer!WaitStream PROVE TransferInv'
<1> USE DEF Transfer!WaitStream
<1>0. /\ doing = "running" /\ next \in 1..Len(Script) /\ Transfer!Command = Script[next] /\ Script[next].op = "drain"
      /\ next' = next + 1 /\ Script' = Script /\ round' = round /\ Method' = Method /\ doing' = "running"
      /\ \A k : k \in 1..(next' - 1) <=> (k \in 1..(next - 1) \/ k = next)
  BY DoingFacts
<1>2. ASSUME NEW s \in Transfer!Streams, Settles(Script, next, s) PROVE stream[s] = <<>>
  BY <1>0, <1>2 DEF Settles
<1>3. TransferIsTyped' /\ BuffersAreHeld' /\ StreamsSettle' /\ CopiesAreOfRounds' /\ StampsFollow'
  BY <1>2, QuietStep
<1>4. ClockIsRead'
  BY <1>0 DEF TransferInv, ClockIsRead, Old
<1>5. Transfer!SamplesAreTheirRounds'
  BY DEF TransferInv, Transfer!SamplesAreTheirRounds
<1> QED
  BY <1>3, <1>4, <1>5 DEF TransferInv

LEMMA ReadClockStep == ASSUME AllWellFormed, TransferInv, Transfer!ReadClock PROVE TransferInv'
<1> USE DEF Transfer!ReadClock
<1>0. /\ doing = "running" /\ next \in 1..Len(Script) /\ Script[next].op = "clock"
      /\ next' = next + 1 /\ Script' = Script /\ round' = round /\ Method' = Method /\ doing' = "running"
      /\ next \in 1..(next' - 1)
  BY DoingFacts
<1>2. ASSUME NEW s \in Transfer!Streams, Settles(Script, next, s) PROVE stream[s] = <<>>
  BY <1>0, <1>2 DEF Settles
<1>3. TransferIsTyped' /\ BuffersAreHeld' /\ StreamsSettle' /\ CopiesAreOfRounds' /\ StampsFollow'
  BY <1>2, QuietStep
<1>4. ClockIsRead'
  <2>1. begun'.done = done /\ begun'.backlog = Transfer!Pending
    OBVIOUS
  <2>2. stream \in [Transfer!Streams -> Seq(CopyOps \cup RecordOps)]
    BY DEF TransferInv, TransferIsTyped
  <2>3. Transfer!Pending \subseteq Sent(Script, next)
    <3>1. \A s \in Transfer!Streams : DOMAIN stream[s] = 1..Len(stream[s])
      BY <2>2
    <3> QED
      BY <1>0, <3>1 DEF TransferInv, CopiesAreOfRounds, Transfer!Pending
  <2>4. Old' = Old /\ Old \subseteq done /\ done \subseteq Old \cup Sent(Script, next)
    BY <1>0 DEF TransferInv, CopiesAreOfRounds, Old
  <2> QED
    BY <1>0, <2>1, <2>3, <2>4 DEF ClockIsRead
<1>5. Transfer!SamplesAreTheirRounds'
  BY DEF TransferInv, Transfer!SamplesAreTheirRounds
<1> QED
  BY <1>3, <1>4, <1>5 DEF TransferInv

(* On one stream, what was enqueued in this round and is not pending is done. *)
LEMMA StopClockStep == ASSUME AllWellFormed, TransferInv, Transfer!StopClock PROVE TransferInv'
<1> USE DEF Transfer!StopClock
<1>0. /\ doing = "running" /\ next \in 1..Len(Script) /\ Transfer!Command = Script[next] /\ Script[next].op = "stop"
      /\ next' = next + 1 /\ Script' = Script /\ round' = round /\ Method' = Method /\ doing' = "running"
      /\ next \in Nat /\ \A k : k \in 1..(next' - 1) <=> (k \in 1..(next - 1) \/ k = next)
  BY DoingFacts
<1>1. /\ WellFormed(Script, Method, round) /\ Script[next] \in CopyOps \cup RecordOps \cup HostOps
      /\ \A c \in Sent(Script, next) : c[1] = round /\ c \in Nat \X Nat \X Transfer!Streams
  BY <1>0, RunningFacts
<1>2. ASSUME NEW s \in Transfer!Streams, Settles(Script, next, s) PROVE stream[s] = <<>>
  BY <1>0, <1>2 DEF Settles
<1>3. TransferIsTyped' /\ BuffersAreHeld' /\ StreamsSettle' /\ CopiesAreOfRounds' /\ StampsFollow'
  BY <1>2, QuietStep
<1>4. ClockIsRead'
  BY <1>0 DEF TransferInv, ClockIsRead, Old
<1>5. Transfer!SamplesAreTheirRounds'
  <2> DEFINE o == Script[next]
             covers == done \ begun.done
             sample == [by |-> o.by, round |-> o.round, unit |-> o.unit, covers |-> covers, backlog |-> begun.backlog]
  <2>1. timings' = timings \cup {sample}
    BY <1>0
  <2>2. o.round = round /\ o.by \in {"wall", "enqueue", "ready"}
    <3>1. o.by \in {"wall", "enqueue", "ready"}
      BY <1>0, <1>1 DEF CopyOps, RecordOps, HostOps
    <3>2. o.round = round
      BY <1>0, <1>1 DEF WellFormed, CommandsAreTyped
    <3> QED
      BY <3>1, <3>2
  <2>3. /\ \E j \in 1..(next - 1) : Script[j].op = "clock"
        /\ o.by = "ready" <=> Method.method = "ready"
        /\ o.by = "wall" => Idle(Script, next, Transfer!Default) /\ Cardinality(Sent(Script, next)) = o.unit
        /\ o.by = "ready" =>
              /\ Idle(Script, next, Transfer!Probe) /\ <<round, 1, Transfer!Probe>> \in Sent(Script, next)
              /\ \A j \in 1..(next - 1) : Script[j].op = "clock" => <<round, 1, Transfer!Probe>> \notin Sent(Script, j)
    BY <1>0, <1>1 DEF WellFormed, StopsCount
  <2>4. PICK k \in 1..(next - 1) :
           /\ Script[k].op = "clock" /\ begun.backlog \subseteq Sent(Script, k)
           /\ Old \subseteq begun.done /\ begun.done \subseteq Old \cup Sent(Script, k)
    BY <1>0, <2>3 DEF TransferInv, ClockIsRead
  <2>5. k \in 1..Len(Script) /\ k \in Nat /\ k <= next
    BY <1>0, <2>4
  <2>6. Sent(Script, k) \subseteq Sent(Script, next)
    BY <1>0, <2>5, CommandsAccumulate
  <2>7. done \subseteq Old \cup Sent(Script, next) /\ Old \subseteq done /\ \A c \in Old : c[1] # round
    BY <1>0 DEF TransferInv, CopiesAreOfRounds, Old
  <2>8. \A c \in covers \cup begun.backlog : c[1] = round
    BY <1>1, <2>4, <2>6, <2>7
  <2>9. \A c \in Sent(Script, next) : stream[c[3]] = <<>> /\ c[3] \in Transfer!Streams => c \in done
    <3>1. TAKE c \in Sent(Script, next)
    <3>2. HAVE stream[c[3]] = <<>> /\ c[3] \in Transfer!Streams
    <3>3. c \in done \/ \E s \in Transfer!Streams : \E i \in 1..Len(stream[s]) : stream[s][i].op = "copy" /\ stream[s][i].id = c
      BY <1>0 DEF TransferInv, CopiesAreOfRounds
    <3>4. ASSUME NEW s \in Transfer!Streams, NEW i \in 1..Len(stream[s]), stream[s][i].op = "copy", stream[s][i].id = c
          PROVE  FALSE
      <4>1. s = c[3]
        BY <1>0, <3>4 DEF TransferInv, CopiesAreOfRounds
      <4> QED
        BY <3>2, <3>4, <4>1
    <3> QED
      BY <3>3, <3>4
  <2>10. ASSUME o.by # "ready" PROVE Sent(Script, k) = {} /\ begun.backlog = {} /\ begun.done = Old
    <3>1. Method.method # "ready"
      BY <2>3, <2>10
    <3>2. Sent(Script, k) = {}
      BY <1>1, <2>4, <2>5, <3>1 DEF WellFormed, ClocksAreFirst
    <3> QED
      BY <2>4, <3>2
  <2>11. ASSUME o.by = "wall" PROVE Cardinality(covers) = o.unit
    <3>1. Method.method # "ready"
      BY <2>3, <2>11
    <3>2. stream[Transfer!Default] = <<>>
      BY <1>0, <2>3, <2>11 DEF TransferInv, StreamsSettle, Transfer!Streams
    <3>3. \A s \in Transfer!Streams : stream[s] = <<>>
      BY <1>0, <3>1, <3>2 DEF TransferInv, StampsFollow
    <3>4. Sent(Script, next) \subseteq done
      <4>1. \A c \in Sent(Script, next) : c[3] \in Transfer!Streams
        BY <1>1
      <4> QED
        BY <2>9, <3>3, <4>1
    <3>5. covers = Sent(Script, next)
      BY <1>1, <2>7, <2>10, <2>11, <3>4
    <3> QED
      BY <2>3, <2>11, <3>5
  <2>12. ASSUME o.by = "ready" PROVE <<round, 1, Transfer!Probe>> \in covers
    <3> DEFINE c == <<round, 1, Transfer!Probe>>
    <3>1. c \in Sent(Script, next) /\ c[1] = round /\ c[3] = Transfer!Probe /\ Transfer!Probe \in Transfer!Streams
      BY <2>3, <2>12 DEF Transfer!Streams
    <3>2. c \notin Sent(Script, k) /\ stream[Transfer!Probe] = <<>>
      BY <1>0, <2>3, <2>4, <2>12, <3>1 DEF TransferInv, StreamsSettle
    <3> HIDE DEF c
    <3>3. c \in done
      BY <2>9, <3>1, <3>2
    <3>4. c \notin begun.done
      BY <2>4, <2>7, <3>1, <3>2
    <3>5. c \in covers
      BY <3>3, <3>4
    <3> QED
      BY <3>5 DEF c
  <2>13. /\ sample.by = o.by /\ sample.round = round /\ sample.unit = o.unit /\ sample.covers = covers
         /\ sample.backlog = begun.backlog
    BY <2>2
  <2> HIDE DEF o, covers, sample
  <2>14. /\ \A c \in sample.covers \cup sample.backlog : c[1] = sample.round
         /\ sample.by \in {"event", "wall"} => Transfer!Cardinality(sample.covers) = sample.unit
         /\ sample.by \in {"wall", "enqueue"} => sample.backlog = {}
         /\ sample.by = "ready" => <<sample.round, 1, Transfer!Probe>> \in sample.covers
    <3>1. \A S : Transfer!Cardinality(S) = Cardinality(S)
      BY DEF Transfer!Cardinality, Cardinality
    <3> QED
      BY <2>2, <2>8, <2>10, <2>11, <2>12, <2>13, <3>1
  <2>15. \A s \in timings : /\ \A c \in s.covers \cup s.backlog : c[1] = s.round
                            /\ s.by \in {"event", "wall"} => Transfer!Cardinality(s.covers) = s.unit
                            /\ s.by \in {"wall", "enqueue"} => s.backlog = {}
                            /\ s.by = "ready" => <<s.round, 1, Transfer!Probe>> \in s.covers
    BY DEF TransferInv, Transfer!SamplesAreTheirRounds
  <2> QED
    BY <2>1, <2>14, <2>15 DEF Transfer!SamplesAreTheirRounds
<1> QED
  BY <1>3, <1>4, <1>5 DEF TransferInv

LEMMA ReadElapsedStep == ASSUME AllWellFormed, TransferInv, Transfer!ReadElapsed PROVE TransferInv'
<1> USE DEF Transfer!ReadElapsed
<1>0. /\ doing = "running" /\ next \in 1..Len(Script) /\ Transfer!Command = Script[next] /\ Script[next].op = "elapsed"
      /\ next' = next + 1 /\ Script' = Script /\ round' = round /\ Method' = Method /\ doing' = "running"
      /\ next \in Nat /\ \A k : k \in 1..(next' - 1) <=> (k \in 1..(next - 1) \/ k = next)
  BY DoingFacts
<1>1. /\ WellFormed(Script, Method, round)
      /\ \A c \in Sent(Script, next) : c[1] = round /\ c \in Nat \X Nat \X Transfer!Streams
  BY <1>0, RunningFacts
<1>2. ASSUME NEW s \in Transfer!Streams, Settles(Script, next, s) PROVE stream[s] = <<>>
  BY <1>0, <1>2 DEF Settles
<1>3. TransferIsTyped' /\ BuffersAreHeld' /\ StreamsSettle' /\ CopiesAreOfRounds' /\ StampsFollow'
  BY <1>2, QuietStep
<1>4. ClockIsRead'
  BY <1>0 DEF TransferInv, ClockIsRead, Old
<1>5. Transfer!SamplesAreTheirRounds'
  <2> DEFINE o == Script[next]
             covers == stamp[o.to] \ stamp[o.from]
             sample == [by |-> "event", round |-> o.round, unit |-> o.unit, covers |-> covers, backlog |-> {}]
  <2>1. timings' = timings \cup {sample}
    BY <1>0
  <2>2. o.round = round
    BY <1>0, <1>1 DEF WellFormed, CommandsAreTyped
  <2>3. PICK i, j \in 1..(next - 1) :
              /\ Script[i].op = "record" /\ Script[i].what = o.from
              /\ Script[j].op = "record" /\ Script[j].what = o.to
              /\ Cardinality(Sent(Script, j) \ Sent(Script, i)) = o.unit
    BY <1>0, <1>1 DEF WellFormed, EventsCount
  <2>4. Method.method # "ready"
    BY <1>0, <1>1 DEF WellFormed, EventsCount
  <2>5. Transfer!Reached(o.from) /\ Transfer!Reached(o.to)
    BY <1>0
  <2>6. stamp[o.to] = Old \cup Sent(Script, j) /\ stamp[o.from] = Old \cup Sent(Script, i)
    BY <1>0, <2>3, <2>4, <2>5 DEF TransferInv, StampsFollow
  <2>7. Sent(Script, j) \subseteq Sent(Script, next)
    <3>1. j \in Nat /\ j <= next
      BY <1>0
    <3> QED
      BY <1>0, <3>1, CommandsAccumulate
  <2>8. \A c \in Old : c[1] # round
    BY DEF Old
  <2>9. covers = Sent(Script, j) \ Sent(Script, i)
    BY <1>1, <2>6, <2>7, <2>8
  <2>10. \A c \in covers : c[1] = round
    BY <1>1, <2>7, <2>9
  <2>11. sample.by = "event" /\ sample.round = round /\ sample.unit = o.unit /\ sample.covers = covers
         /\ sample.backlog = {}
    BY <2>2
  <2>12. Cardinality(covers) = o.unit
    BY <2>3, <2>9
  <2> HIDE DEF o, covers, sample
  <2>14. /\ \A c \in sample.covers \cup sample.backlog : c[1] = sample.round
         /\ sample.by \in {"event", "wall"} => Transfer!Cardinality(sample.covers) = sample.unit
         /\ sample.by \in {"wall", "enqueue"} => sample.backlog = {}
         /\ sample.by = "ready" => <<sample.round, 1, Transfer!Probe>> \in sample.covers
    <3>1. \A S : Transfer!Cardinality(S) = Cardinality(S)
      BY DEF Transfer!Cardinality, Cardinality
    <3> QED
      BY <2>10, <2>11, <2>12, <3>1
  <2>15. \A s \in timings : /\ \A c \in s.covers \cup s.backlog : c[1] = s.round
                            /\ s.by \in {"event", "wall"} => Transfer!Cardinality(s.covers) = s.unit
                            /\ s.by \in {"wall", "enqueue"} => s.backlog = {}
                            /\ s.by = "ready" => <<s.round, 1, Transfer!Probe>> \in s.covers
    BY DEF TransferInv, Transfer!SamplesAreTheirRounds
  <2> QED
    BY <2>1, <2>14, <2>15 DEF Transfer!SamplesAreTheirRounds
<1> QED
  BY <1>3, <1>4, <1>5 DEF TransferInv

LEMMA AcquireStep == ASSUME AllWellFormed, TransferInv, Transfer!Acquire PROVE TransferInv'
<1> USE DEF Transfer!Acquire
<1>0. /\ doing = "running" /\ next \in 1..Len(Script) /\ Transfer!Command = Script[next] /\ Script[next].op = "make"
      /\ next' = next + 1 /\ Script' = Script /\ round' = round /\ Method' = Method /\ doing' = "running"
      /\ next \in Nat \ {0} /\ (next + 1) - 1 = next /\ \A k : k \in 1..(next' - 1) <=> (k \in 1..(next - 1) \/ k = next)
  BY DoingFacts
<1>1. round = 0
  BY <1>0, RunningFacts DEF WellFormed, CopiesHaveBuffers
<1>2. /\ Made(Script, next + 1) = Made(Script, next) \cup {Script[next].what}
      /\ Sent(Script, next + 1) = Sent(Script, next)
  <2>1. /\ Sent(Script, next + 1) = Sent(Script, next) \cup (IF Script[next].op = "copy" THEN {Script[next].id} ELSE {})
        /\ Made(Script, next + 1) = Made(Script, next) \cup (IF Script[next].op = "make" THEN {Script[next].what} ELSE {})
    BY <1>0, OneMoreCommand
  <2> QED
    BY <1>0, <2>1
<1>3. TransferIsTyped'
  BY TypedAdvance DEF TransferInv, TransferIsTyped
<1>4. BuffersAreHeld'
  BY <1>0, <1>1, <1>2 DEF TransferInv, BuffersAreHeld
<1>5. StreamsSettle'
  <2>1. ASSUME NEW s \in Transfer!Streams, Idle(Script, next + 1, s) PROVE stream[s] = <<>>
    BY <1>0, <2>1, IdleGoesBack DEF TransferInv, StreamsSettle, Settles
  <2>2. \A s : ~Enqueues(Script[next], s)
    BY <1>0 DEF Enqueues
  <2> QED
    BY <1>0, <2>1, <2>2 DEF StreamsSettle
<1>6. CopiesAreOfRounds'
  BY <1>0, <1>2 DEF TransferInv, CopiesAreOfRounds
<1>7. ClockIsRead'
  BY <1>0 DEF TransferInv, ClockIsRead, Old
<1>8. StampsFollow'
  <2>1. Old' = Old
    BY <1>0 DEF Old
  <2>2. \A s, i : Ahead(s, i)' = Ahead(s, i)
    BY DEF Ahead
  <2>3. \A e : Transfer!Reached(e)' = Transfer!Reached(e)
    BY DEF Transfer!Reached
  <2> QED
    BY <1>0, <2>1, <2>2, <2>3 DEF TransferInv, StampsFollow
<1>9. Transfer!SamplesAreTheirRounds'
  BY DEF TransferInv, Transfer!SamplesAreTheirRounds
<1> QED
  BY <1>3, <1>4, <1>5, <1>6, <1>7, <1>8, <1>9 DEF TransferInv

LEMMA EnqueueStep == ASSUME AllWellFormed, TransferInv, Transfer!Enqueue PROVE TransferInv'
<1> USE DEF Transfer!Enqueue
<1> DEFINE o == Script[next]
<1>0. /\ doing = "running" /\ next \in 1..Len(Script) /\ Transfer!Command = o /\ o.op \in {"copy", "record"}
      /\ next' = next + 1 /\ Script' = Script /\ round' = round /\ Method' = Method /\ doing' = "running"
      /\ next \in Nat \ {0} /\ (next + 1) - 1 = next /\ \A k : k \in 1..(next' - 1) <=> (k \in 1..(next - 1) \/ k = next)
  <2>1. CASE Transfer!Doing("copy")
    BY <2>1, DoingFacts
  <2>2. CASE Transfer!Doing("record")
    BY <2>2, DoingFacts
  <2> QED
    BY <2>1, <2>2
<1>1. /\ WellFormed(Script, Method, round) /\ o \in CopyOps \cup RecordOps \cup HostOps
      /\ \A c \in Sent(Script, next) : c[1] = round /\ c \in Nat \X Nat \X Transfer!Streams
  BY <1>0, RunningFacts
<1>2. o \in CopyOps \cup RecordOps /\ o.on \in Transfer!Streams
  BY <1>0, <1>1, OpsByKind
<1>3. /\ Made(Script, next + 1) = Made(Script, next)
      /\ Sent(Script, next + 1) = Sent(Script, next) \cup (IF o.op = "copy" THEN {o.id} ELSE {})
  <2>1. /\ Sent(Script, next + 1) = Sent(Script, next) \cup (IF Script[next].op = "copy" THEN {Script[next].id} ELSE {})
        /\ Made(Script, next + 1) = Made(Script, next) \cup (IF Script[next].op = "make" THEN {Script[next].what} ELSE {})
    BY <1>0, OneMoreCommand
  <2>2. Script[next].op # "make"
    BY <1>0
  <2> QED
    BY <2>1, <2>2
<1>4. o.op = "copy" => o.id[3] = o.on
  BY <1>0, <1>1 DEF WellFormed, CommandsAreTyped
<1>5. stream \in [Transfer!Streams -> Seq(CopyOps \cup RecordOps)]
  BY DEF TransferInv, TransferIsTyped
<1> DEFINE d == o.on
           q == stream[d]
<1> HIDE DEF o
<1>6. /\ stream' = [stream EXCEPT ![d] = Append(q, o)]
      /\ q \in Seq(CopyOps \cup RecordOps) /\ Len(q) \in Nat
  BY <1>0, <1>2, <1>5
<1>7. /\ stream'[d] = Append(q, o) /\ \A s \in Transfer!Streams \ {d} : stream'[s] = stream[s]
      /\ stream' \in [Transfer!Streams -> Seq(CopyOps \cup RecordOps)]
  BY <1>2, <1>5, <1>6
<1>8. /\ Len(stream'[d]) = Len(q) + 1 /\ stream'[d][Len(q) + 1] = o /\ \A i \in 1..Len(q) : stream'[d][i] = q[i]
      /\ \A i : i \in 1..Len(stream'[d]) <=> (i \in 1..Len(q) \/ i = Len(q) + 1)
  BY <1>2, <1>6, <1>7
<1> HIDE DEF d, q
<1>9. TransferIsTyped'
  <2>1. CASE Transfer!Doing("copy")
    BY <1>7, <2>1, TypedAdvance
  <2>2. CASE Transfer!Doing("record")
    BY <1>7, <2>2, TypedAdvance
  <2> QED
    BY <2>1, <2>2
<1>10. BuffersAreHeld'
  <2>1. o.op = "copy" => o.uses \subseteq held
    BY <1>0, <1>1 DEF WellFormed, CopiesHaveBuffers, TransferInv, BuffersAreHeld, o
  <2>2. \A s \in Transfer!Streams : \A i \in 1..Len(stream'[s]) :
           stream'[s][i].op = "copy" => stream'[s][i].uses \subseteq held
    <3>1. \A s \in Transfer!Streams : \A i \in 1..Len(stream[s]) : stream[s][i].op = "copy" => stream[s][i].uses \subseteq held
      BY DEF TransferInv, BuffersAreHeld
    <3>2. \A i \in 1..Len(stream'[d]) : stream'[d][i].op = "copy" => stream'[d][i].uses \subseteq held
      BY <1>2, <1>8, <2>1, <3>1 DEF d, q
    <3> QED
      BY <1>7, <3>1, <3>2
  <2> QED
    BY <1>0, <1>3, <2>2 DEF TransferInv, BuffersAreHeld
<1>11. StreamsSettle'
  <2>1. ASSUME NEW s \in Transfer!Streams, Idle(Script, next + 1, s) PROVE stream'[s] = <<>>
    <3>1. ~Settles(Script, next, s)
      BY <1>0 DEF Settles, o
    <3>2. Idle(Script, next, s) /\ ~Enqueues(Script[next], s)
      BY <1>0, <2>1, <3>1, IdleGoesBack
    <3>3. s # d
      BY <1>0, <3>2 DEF Enqueues, o, d
    <3> QED
      BY <1>0, <1>7, <3>2, <3>3 DEF TransferInv, StreamsSettle
  <2>2. ASSUME NEW s \in Transfer!Streams, Enqueues(Script[next], s) PROVE stream'[s][Len(stream'[s])] = Script[next]
    <3>1. s = d
      BY <2>2 DEF Enqueues, o, d
    <3> QED
      BY <1>8, <3>1 DEF o
  <2> QED
    BY <1>0, <2>1, <2>2 DEF StreamsSettle
<1>12. CopiesAreOfRounds'
  <2>1. \A c \in done : c[1] <= round /\ (c[1] = round => c \in Sent(Script, next + 1))
    BY <1>0, <1>3 DEF TransferInv, CopiesAreOfRounds
  <2>2. \A s \in Transfer!Streams : \A i \in 1..Len(stream'[s]) :
              stream'[s][i].op = "copy" => stream'[s][i].id \in Sent(Script, next + 1) /\ stream'[s][i].id[3] = s
    <3>1. \A s \in Transfer!Streams : \A i \in 1..Len(stream[s]) :
              stream[s][i].op = "copy" => stream[s][i].id \in Sent(Script, next) /\ stream[s][i].id[3] = s
      BY <1>0 DEF TransferInv, CopiesAreOfRounds
    <3>2. \A i \in 1..Len(stream'[d]) :
              stream'[d][i].op = "copy" => stream'[d][i].id \in Sent(Script, next + 1) /\ stream'[d][i].id[3] = d
      BY <1>2, <1>3, <1>4, <1>8, <3>1 DEF d, q
    <3> QED
      BY <1>3, <1>7, <3>1, <3>2
  <2>3. ASSUME NEW c \in Sent(Script, next + 1), c \notin done
        PROVE  \E s \in Transfer!Streams : \E i \in 1..Len(stream'[s]) : stream'[s][i].op = "copy" /\ stream'[s][i].id = c
    <3>1. CASE c \in Sent(Script, next)
      <4>0. PICK s \in Transfer!Streams : \E i \in 1..Len(stream[s]) : stream[s][i].op = "copy" /\ stream[s][i].id = c
        BY <1>0, <2>3, <3>1 DEF TransferInv, CopiesAreOfRounds
      <4>1. PICK i \in 1..Len(stream[s]) : stream[s][i].op = "copy" /\ stream[s][i].id = c
        BY <4>0
      <4>2. i \in 1..Len(stream'[s]) /\ stream'[s][i] = stream[s][i]
        BY <1>7, <1>8 DEF q
      <4> QED
        BY <4>1, <4>2
    <3>2. CASE c \notin Sent(Script, next)
      <4>1. o.op = "copy" /\ c = o.id
        BY <1>3, <2>3, <3>2
      <4>2. d \in Transfer!Streams /\ Len(q) + 1 \in 1..Len(stream'[d]) /\ stream'[d][Len(q) + 1] = o
        BY <1>2, <1>8 DEF d
      <4> QED
        BY <4>1, <4>2
    <3> QED
      BY <3>1, <3>2
  <2> QED
    BY <1>0, <2>1, <2>2, <2>3 DEF CopiesAreOfRounds
<1>13. ClockIsRead'
  BY <1>0 DEF TransferInv, ClockIsRead, Old, o
<1>14. StampsFollow'
  <2> SUFFICES ASSUME Method.method # "ready" PROVE StampsFollow'
    BY <1>0 DEF StampsFollow
  <2>1. d = Transfer!Default
    BY <1>0, <1>1 DEF WellFormed, OneStream, o, d
  <2>2. /\ \A s \in Transfer!Streams \ {d} : stream[s] = <<>>
        /\ \A i \in 1..Len(q) : q[i].op = "record" => \E k \in 1..(next - 1) :
              Script[k] = q[i] /\ done \cup Ahead(Transfer!Default, i) = Old \cup Sent(Script, k)
        /\ \A k \in 1..(next - 1) : Script[k].op = "record" /\ Transfer!Reached(Script[k].what) =>
              stamp[Script[k].what] = Old \cup Sent(Script, k)
    BY <1>0, <2>1 DEF TransferInv, StampsFollow, q
  <2>3. Old' = Old
    BY <1>0 DEF Old
  <2>4. \A i \in 1..(Len(q) + 1) : Ahead(Transfer!Default, i)' = Ahead(Transfer!Default, i)
    <3>1. \A i \in 1..(Len(q) + 1) : \A j \in 1..(i - 1) : j \in 1..Len(q)
      BY <1>6
    <3>3. \A i \in 1..(Len(q) + 1) : \A j \in 1..(i - 1) : stream'[d][j] = stream[d][j]
      BY <1>8, <3>1 DEF q
    <3>4. ASSUME NEW i \in 1..(Len(q) + 1) PROVE Ahead(Transfer!Default, i)' = Ahead(Transfer!Default, i)
      <4>1. \A j \in 1..(i - 1) : stream'[Transfer!Default][j] = stream[Transfer!Default][j]
        BY <2>1, <3>3
      <4> QED
        BY <4>1 DEF Ahead
    <3> QED
      BY <3>4
  <2>5. \A s \in Transfer!Streams \ {d} : stream'[s] = <<>>
    BY <1>7, <2>2
  <2>6. ASSUME NEW i \in 1..Len(stream'[d]), stream'[d][i].op = "record"
        PROVE  \E k \in 1..(next' - 1) : Script[k] = stream'[d][i] /\ done \cup Ahead(Transfer!Default, i)' = Old \cup Sent(Script, k)
    <3>1. CASE i \in 1..Len(q)
      <4>1. stream'[d][i] = q[i] /\ Ahead(Transfer!Default, i)' = Ahead(Transfer!Default, i)
        BY <1>6, <1>8, <2>4, <3>1
      <4> QED
        BY <1>0, <2>2, <2>6, <3>1, <4>1
    <3>2. CASE i = Len(q) + 1
      <4>1. stream'[d][i] = o /\ Ahead(Transfer!Default, i)' = Ahead(Transfer!Default, Len(q) + 1)
        BY <1>6, <1>8, <2>4, <3>2
      <4>2. done \cup Ahead(Transfer!Default, Len(q) + 1) = Old \cup Sent(Script, next)
        <5>1. (Len(q) + 1) - 1 = Len(q)
          BY <1>6
        <5>2. \A c \in done : c \in Old \/ c \in Sent(Script, next)
          BY <1>0 DEF TransferInv, CopiesAreOfRounds, Old
        <5>3. Ahead(Transfer!Default, Len(q) + 1) \subseteq Sent(Script, next)
          <6>1. \A j \in 1..Len(stream[Transfer!Default]) : stream[Transfer!Default][j].op = "copy" =>
                   stream[Transfer!Default][j].id \in Sent(Script, next)
            BY <1>0 DEF TransferInv, CopiesAreOfRounds, Transfer!Streams
          <6> QED
            BY <2>1, <5>1, <6>1 DEF Ahead, q
        <5>4. \A c \in Sent(Script, next) : c \in done \/ c \in Ahead(Transfer!Default, Len(q) + 1)
          <6>1. TAKE c \in Sent(Script, next)
          <6>2. c \in done \/ \E s \in Transfer!Streams : \E j \in 1..Len(stream[s]) : stream[s][j].op = "copy" /\ stream[s][j].id = c
            BY <1>0 DEF TransferInv, CopiesAreOfRounds
          <6>3. ASSUME NEW s \in Transfer!Streams, NEW j \in 1..Len(stream[s]), stream[s][j].op = "copy", stream[s][j].id = c
                PROVE  c \in Ahead(Transfer!Default, Len(q) + 1)
            <7>1. s = d
              BY <2>2, <6>3
            <7> QED
              BY <2>1, <5>1, <6>3, <7>1 DEF Ahead, q
          <6> QED
            BY <6>2, <6>3
        <5> QED
          BY <5>2, <5>3, <5>4 DEF Old
      <4> QED
        BY <1>0, <4>1, <4>2 DEF o
    <3> QED
      BY <1>8, <3>1, <3>2
  <2>7. ASSUME NEW k \in 1..(next' - 1), Script[k].op = "record", Transfer!Reached(Script[k].what)'
        PROVE  stamp[Script[k].what] = Old \cup Sent(Script, k)
    <3>0. \A s \in Transfer!Streams : DOMAIN stream'[s] = 1..Len(stream'[s]) /\ DOMAIN stream[s] = 1..Len(stream[s])
      BY <1>5, <1>7
    <3>1. PICK e : e = Script[k].what
      OBVIOUS
    <3>2. \A s \in Transfer!Streams : \A i \in 1..Len(stream'[s]) : stream'[s][i].op = "record" => stream'[s][i].what # e
      BY <1>0, <2>7, <3>0, <3>1 DEF Transfer!Reached
    <3>3. k # next
      BY <1>2, <1>8, <2>7, <3>1, <3>2 DEF o, d
    <3>4. \A s \in Transfer!Streams : \A i \in 1..Len(stream[s]) : stream[s][i].op = "record" => stream[s][i].what # e
      BY <1>7, <1>8, <3>2 DEF q
    <3>5. Transfer!Reached(Script[k].what)
      BY <3>0, <3>1, <3>4 DEF Transfer!Reached
    <3> QED
      BY <1>0, <2>2, <2>7, <3>3, <3>5
  <2> QED
    BY <1>0, <2>1, <2>3, <2>5, <2>6, <2>7 DEF StampsFollow
<1>15. Transfer!SamplesAreTheirRounds'
  BY DEF TransferInv, Transfer!SamplesAreTheirRounds
<1> QED
  BY <1>9, <1>10, <1>11, <1>12, <1>13, <1>14, <1>15 DEF TransferInv

-----------------------------------------------------------------------------
(* ThreeJoined the rounds and the methods *)

LEMMA CallStep == ASSUME CallsAreSound, TransferInv, Transfer!Call PROVE TransferInv'
<1> USE DEF Transfer!Call
<1>1. /\ doing = "calling" /\ doing' = "running" /\ round' = 0 /\ next' = 1 /\ done' = {} /\ benchmarks # <<>>
      /\ held = {} /\ benchmarks \in Seq(Measurements) /\ failing = FALSE
      /\ \A s \in Transfer!Streams : stream[s] = <<>>
      /\ stream \in [Transfer!Streams -> Seq(CopyOps \cup RecordOps)]
  BY DEF TransferInv, TransferIsTyped, BuffersAreHeld, StreamsSettle
<1>2. Method \in Measurements /\ Method' = Method
  BY <1>1, HeadTailProperties DEF Method
<1>3. Transfer!RoundsOf(Method) \in Nat /\ Script' = Transfer!Commands(Method, 0)
  BY <1>1, <1>2 DEF CallsAreSound, RoundsAreNumbers, Script
<1>4. Len(Script') \in Nat
  BY <1>2, <1>3, LenProperties DEF CallsAreSound, AllWellFormed, WellFormed, CommandsAreTyped
<1>5. Sent(Script', 1) = {} /\ Made(Script', 1) = {}
  BY NoCommand
<1>6. \A s \in Transfer!Streams : Len(stream[s]) = 0 /\ 1..0 = {}
  BY <1>1
<1>7. TransferIsTyped'
  BY <1>1, <1>2, <1>3, <1>4 DEF TransferInv, TransferIsTyped
<1>8. BuffersAreHeld'
  BY <1>1, <1>5, <1>6 DEF BuffersAreHeld
<1>9. StreamsSettle'
  BY <1>1 DEF StreamsSettle
<1>10. CopiesAreOfRounds'
  BY <1>1, <1>5, <1>6 DEF CopiesAreOfRounds
<1>11. ClockIsRead' /\ StampsFollow'
  <2>1. 1 - 1 = 0 /\ 1..0 = {}
    OBVIOUS
  <2>2. ClockIsRead'
    BY <1>1, <2>1 DEF ClockIsRead
  <2>3. Transfer!Default \in Transfer!Streams
    BY DEF Transfer!Streams
  <2> QED
    BY <1>1, <1>6, <2>1, <2>2, <2>3 DEF StampsFollow
<1>12. Transfer!SamplesAreTheirRounds'
  BY DEF Transfer!SamplesAreTheirRounds
<1> QED
  BY <1>7, <1>8, <1>9, <1>10, <1>11, <1>12 DEF TransferInv

(* A round is over when the device has done all of it. *)
LEMMA RoundIsOver ==
  ASSUME AllWellFormed, TransferInv, doing = "running", Transfer!Over
  PROVE  next = Len(Script) + 1 /\ \A s \in Transfer!Streams : stream[s] = <<>>
<1>1. WellFormed(Script, Method, round) /\ Transfer!Todo = Script /\ Len(Script) \in Nat /\ next \in 1..(Len(Script) + 1)
  BY RunningFacts
<1>2. next = Len(Script) + 1
  BY <1>1 DEF Transfer!Over
<1> QED
  BY <1>1, <1>2 DEF WellFormed, RoundsEndIdle, TransferInv, StreamsSettle

(* Everything that is allocated when a method is left is its to release. *)
LEMMA HeldIsAllocated ==
  ASSUME AllWellFormed, TransferInv, doing = "running"
  PROVE  held \subseteq Allocated(Method)
<1>1. Len(Script) \in Nat /\ next \in 1..(Len(Script) + 1)
  BY RunningFacts
<1>2. CASE round = 0
  <2>1. Made(Script, next) \subseteq Made(Script, Len(Script) + 1)
    BY <1>1, CommandsAccumulate
  <2>2. Script = Transfer!Setup(Method)
    BY <1>2 DEF Script, Transfer!Commands
  <2> QED
    BY <1>2, <2>1, <2>2 DEF TransferInv, BuffersAreHeld, Allocated
<1>3. CASE round # 0
  BY <1>3 DEF TransferInv, BuffersAreHeld
<1> QED
  BY <1>2, <1>3

LEMMA NextRoundStep == ASSUME CallsAreSound, TransferInv, Transfer!NextRound PROVE TransferInv'
<1> USE DEF Transfer!NextRound
<1>0. doing = "running" /\ doing' = "running" /\ round' = round + 1 /\ next' = 1 /\ Method' = Method
  BY DEF Method
<1>1. /\ Method \in Measurements /\ round \in 0..Transfer!RoundsOf(Method) /\ Transfer!RoundsOf(Method) \in Nat
      /\ round < Transfer!RoundsOf(Method)
  <2>1. Method \in Measurements
    BY <1>0, RunningFacts DEF CallsAreSound
  <2> QED
    BY <1>0, <2>1 DEF TransferInv, TransferIsTyped, CallsAreSound, RoundsAreNumbers, Method
<1>2. Script' = Transfer!Commands(Method, round + 1) /\ round + 1 \in 0..Transfer!RoundsOf(Method)
  BY <1>0, <1>1 DEF Script
<1>3. Len(Script') \in Nat
  BY <1>1, <1>2, LenProperties DEF CallsAreSound, AllWellFormed, WellFormed, CommandsAreTyped
<1>4. next = Len(Script) + 1 /\ \A s \in Transfer!Streams : stream[s] = <<>>
  BY <1>0, RoundIsOver DEF CallsAreSound
<1>5. Sent(Script', 1) = {} /\ 1 - 1 = 0 /\ 1..0 = {}
  BY NoCommand
<1>6. \A s \in Transfer!Streams : Len(stream[s]) = 0
  BY <1>4
<1>7. TransferIsTyped'
  BY <1>0, <1>1, <1>2, <1>3 DEF TransferInv, TransferIsTyped
<1>8. BuffersAreHeld'
  <2>1. held = Allocated(Method)
    <3>1. CASE round = 0
      BY <1>0, <1>4, <3>1 DEF TransferInv, BuffersAreHeld, Script, Transfer!Commands, Allocated
    <3>2. CASE round # 0
      BY <1>0, <3>2 DEF TransferInv, BuffersAreHeld
    <3> QED
      BY <3>1, <3>2
  <2>2. round' # 0
    BY <1>0, <1>1
  <2> QED
    BY <1>0, <1>5, <1>6, <2>1, <2>2 DEF BuffersAreHeld
<1>9. StreamsSettle'
  BY <1>0, <1>4 DEF StreamsSettle
<1>10. CopiesAreOfRounds'
  <2>1. \A c \in done : c[1] \in Nat /\ c[1] <= round
    BY <1>0 DEF TransferInv, TransferIsTyped, CopiesAreOfRounds
  <2>2. \A c \in done : c[1] <= round + 1 /\ c[1] # round + 1
    BY <1>1, <2>1
  <2> QED
    BY <1>0, <1>5, <1>6, <2>2 DEF CopiesAreOfRounds
<1>11. ClockIsRead' /\ StampsFollow'
  <2>1. Transfer!Default \in Transfer!Streams
    BY DEF Transfer!Streams
  <2>2. ClockIsRead'
    BY <1>0, <1>5 DEF ClockIsRead
  <2> QED
    BY <1>0, <1>4, <1>5, <1>6, <2>1, <2>2 DEF StampsFollow
<1>12. Transfer!SamplesAreTheirRounds'
  BY DEF TransferInv, Transfer!SamplesAreTheirRounds
<1> QED
  BY <1>7, <1>8, <1>9, <1>10, <1>11, <1>12 DEF TransferInv

(* The `finally' of a method: whatever it holds is still to be released. *)
LEMMA LeaveStep ==
  ASSUME CallsAreSound, TransferInv, doing = "running", Transfer!Leave, failing' \in BOOLEAN,
         UNCHANGED <<benchmarks, round, held, stream, done, stamp, begun, timings>>,
         ~failing' => \A s \in Transfer!Streams : stream[s] = <<>>
  PROVE  TransferInv'
<1>0. doing' = "releasing" /\ next' = 1 /\ Method' = Method
  BY DEF Transfer!Leave, Method
<1>1. Method \in Measurements
  BY RunningFacts DEF CallsAreSound
<1>2. Len(Transfer!Releases(Method)) \in Nat
  BY <1>1 DEF CallsAreSound, ReleasesAreAll
<1>3. TransferIsTyped'
  BY <1>0, <1>2 DEF TransferInv, TransferIsTyped
<1>4. BuffersAreHeld'
  <2>1. \A b \in held : \E i \in 1..Len(Transfer!Releases(Method)) : Transfer!Releases(Method)[i] = b
    BY <1>1, HeldIsAllocated DEF CallsAreSound, ReleasesAreAll
  <2>2. \A s \in Transfer!Streams : \A i \in 1..Len(stream[s]) : stream[s][i].op = "copy" => stream[s][i].uses \subseteq held
    BY DEF TransferInv, BuffersAreHeld
  <2> QED
    BY <1>0, <2>1, <2>2 DEF BuffersAreHeld
<1>5. StreamsSettle'
  BY <1>0 DEF StreamsSettle
<1>6. CopiesAreOfRounds' /\ ClockIsRead' /\ StampsFollow'
  BY <1>0 DEF CopiesAreOfRounds, ClockIsRead, StampsFollow
<1>7. Transfer!SamplesAreTheirRounds'
  BY DEF TransferInv, Transfer!SamplesAreTheirRounds
<1> QED
  BY <1>3, <1>4, <1>5, <1>6, <1>7 DEF TransferInv

LEMMA ReturnStep == ASSUME CallsAreSound, TransferInv, Transfer!Return PROVE TransferInv'
<1>1. /\ doing = "running" /\ Transfer!Over /\ Transfer!Leave
      /\ UNCHANGED <<benchmarks, round, failing, held, stream, done, stamp, begun, timings>>
  BY DEF Transfer!Return
<1>2. \A s \in Transfer!Streams : stream[s] = <<>>
  BY <1>1, RoundIsOver DEF CallsAreSound
<1>3. failing' \in BOOLEAN
  BY <1>1 DEF TransferInv, TransferIsTyped
<1> QED
  BY <1>1, <1>2, <1>3, LeaveStep

LEMMA FailStep == ASSUME CallsAreSound, TransferInv, Transfer!Fail PROVE TransferInv'
<1>1. /\ doing = "running" /\ Transfer!Leave /\ failing' = TRUE
      /\ UNCHANGED <<benchmarks, round, held, stream, done, stamp, begun, timings>>
  BY DEF Transfer!Fail
<1> QED
  BY <1>1, LeaveStep

(* Memory of a copy that is still queued is not released: the device is    *)
(* waited for, or the memory is Python's and goes when no copy is left     *)
(* that could use it.                                                      *)
LEMMA ReleaseStep == ASSUME CallsAreSound, TransferInv, Transfer!Release PROVE TransferInv'
<1> USE DEF Transfer!Release
<1> DEFINE R == Transfer!Releases(Method)
<1>0. /\ doing = "releasing" /\ doing' = "releasing" /\ next' = next + 1 /\ Method' = Method
      /\ Transfer!Todo = R
  BY DEF Method, Transfer!Todo
<1>1. Method \in Measurements /\ Len(R) \in Nat /\ next \in 1..(Len(R) + 1)
  <2>1. benchmarks \in Seq(Measurements) /\ benchmarks # <<>> /\ next \in 1..(Len(R) + 1)
    BY <1>0 DEF TransferInv, TransferIsTyped
  <2>2. Method \in Measurements
    BY <2>1, HeadTailProperties DEF Method
  <2> QED
    BY <2>1, <2>2 DEF CallsAreSound, ReleasesAreAll
<1>2. next \in 1..Len(R) /\ Transfer!Command = R[next]
  BY <1>0, <1>1 DEF Transfer!Over, Transfer!Command
<1> HIDE DEF R
<1>3. held' = held \ {R[next]}
  BY <1>2
<1>4. \A b \in held : \E i \in next..Len(R) : R[i] = b
  BY <1>0 DEF TransferInv, BuffersAreHeld, R
<1>5. \A s \in Transfer!Streams : \A i \in 1..Len(stream[s]) :
         stream[s][i].op = "copy" => stream[s][i].uses \subseteq held /\ stream[s][i].uses \in BufferPairs
  <2>1. \A s \in Transfer!Streams : stream[s] \in Seq(CopyOps \cup RecordOps)
    BY DEF TransferInv, TransferIsTyped
  <2>2. \A s \in Transfer!Streams : \A i \in 1..Len(stream[s]) : stream[s][i] \in CopyOps \cup RecordOps
    BY <2>1, ElementOfSeq
  <2>3. \A x \in CopyOps \cup RecordOps : x.op = "copy" => x.uses \in BufferPairs
    BY DEF CopyOps, RecordOps
  <2>4. \A s \in Transfer!Streams : \A i \in 1..Len(stream[s]) : stream[s][i].op = "copy" => stream[s][i].uses \in BufferPairs
    BY <2>2, <2>3
  <2> QED
    BY <2>4 DEF TransferInv, BuffersAreHeld
<1>6. TransferIsTyped'
  BY <1>0, <1>2 DEF TransferInv, TransferIsTyped, R
<1>7. BuffersAreHeld'
  <2>1. \A b \in held' : \E i \in (next + 1)..Len(R) : R[i] = b
    <3>1. \A i \in next..Len(R) : i = next \/ i \in (next + 1)..Len(R)
      BY <1>1, <1>2
    <3> QED
      BY <1>3, <1>4, <3>1
  <2>2. ASSUME NEW s \in Transfer!Streams, NEW i \in 1..Len(stream[s]), stream[s][i].op = "copy"
        PROVE  stream[s][i].uses \subseteq held'
    <3> DEFINE mem == stream[s][i].uses
    <3>1. mem \subseteq held /\ mem \in BufferPairs
      BY <1>5, <2>2
    <3>2. stream[s] # <<>>
      BY <2>2
    <3> HIDE DEF mem
    <3>3. SUFFICES ASSUME R[next] \in held, R[next] \in mem PROVE FALSE
      BY <1>3, <3>1 DEF mem
    <3>4. R[next] \in Transfer!Memory
      BY <3>1, <3>3 DEF BufferPairs, Transfer!Memory
    <3>5. R[next] = Transfer!Source /\ Method.mode = "pageable"
      BY <1>2, <3>2, <3>3, <3>4 DEF Transfer!Blocks, Method
    <3>6. \E b \in mem : b \in {Transfer!Device, Transfer!Loaded}
      BY <3>1 DEF BufferPairs
    <3>7. \E j \in next..Len(R) : R[j] \in {Transfer!Device, Transfer!Loaded}
      BY <1>4, <3>1, <3>6
    <3>8. \A j \in next..Len(R) : j \in 1..Len(R) /\ ~(j < next)
      BY <1>1, <1>2
    <3> QED
      BY <1>1, <1>2, <3>5, <3>7, <3>8 DEF CallsAreSound, PageableIsLast, R
  <2> QED
    BY <1>0, <2>1, <2>2 DEF BuffersAreHeld, R
<1>8. StreamsSettle'
  BY <1>0 DEF TransferInv, StreamsSettle
<1>9. CopiesAreOfRounds' /\ ClockIsRead' /\ StampsFollow'
  BY <1>0 DEF CopiesAreOfRounds, ClockIsRead, StampsFollow
<1>10. Transfer!SamplesAreTheirRounds'
  BY DEF TransferInv, Transfer!SamplesAreTheirRounds
<1> QED
  BY <1>6, <1>7, <1>8, <1>9, <1>10 DEF TransferInv

LEMMA SummarizeStep == ASSUME CallsAreSound, TransferInv, Transfer!Summarize PROVE TransferInv'
<1> USE DEF Transfer!Summarize
<1>0. /\ doing = "releasing" /\ doing' \in {"calling", "reported", "raised"}
      /\ doing' = "calling" => ~failing /\ benchmarks' = Tail(benchmarks) /\ Len(benchmarks) # 1
      /\ doing' = "reported" => ~failing /\ benchmarks' = Tail(benchmarks)
      /\ doing' = "raised" => benchmarks' = benchmarks
  OBVIOUS
<1>1. /\ benchmarks \in Seq(Measurements) /\ benchmarks # <<>> /\ next \in 1..(Len(Transfer!Releases(Method)) + 1)
      /\ failing \in BOOLEAN
  BY <1>0 DEF TransferInv, TransferIsTyped
<1>2. Len(Transfer!Releases(Method)) \in Nat
  BY <1>1, HeadTailProperties DEF CallsAreSound, ReleasesAreAll, Method
<1>3. next > Len(Transfer!Releases(Method))
  BY <1>0 DEF Transfer!Over, Transfer!Todo, Method
<1>4. held = {}
  <2>1. next..Len(Transfer!Releases(Method)) = {}
    BY <1>1, <1>2, <1>3
  <2> QED
    BY <1>0, <2>1 DEF TransferInv, BuffersAreHeld
<1>5. benchmarks' \in Seq(Measurements) /\ (doing' = "calling" => benchmarks' # <<>>)
  <2>1. Tail(benchmarks) \in Seq(Measurements) /\ Len(Tail(benchmarks)) = Len(benchmarks) - 1
    BY <1>1, HeadTailProperties
  <2>2. Len(benchmarks) # 1 => Tail(benchmarks) # <<>>
    <3>1. Len(benchmarks) \in Nat /\ Len(<<>>) = 0 /\ Len(benchmarks) # 0
      BY <1>1
    <3>2. ASSUME Tail(benchmarks) = <<>> PROVE Len(benchmarks) = 1
      <4>1. Len(Tail(benchmarks)) = 0
        BY <3>1, <3>2
      <4>2. Len(benchmarks) - 1 = 0
        BY <2>1, <4>1
      <4> QED
        BY <3>1, <4>2
    <3> QED
      BY <3>2
  <2> QED
    BY <1>0, <1>1, <2>1, <2>2
<1>6. TransferIsTyped'
  BY <1>0, <1>1, <1>5 DEF TransferInv, TransferIsTyped
<1>7. BuffersAreHeld'
  BY <1>0, <1>4 DEF TransferInv, BuffersAreHeld
<1>8. StreamsSettle'
  BY <1>0 DEF TransferInv, StreamsSettle
<1>9. CopiesAreOfRounds' /\ ClockIsRead' /\ StampsFollow'
  BY <1>0 DEF CopiesAreOfRounds, ClockIsRead, StampsFollow
<1>10. Transfer!SamplesAreTheirRounds'
  BY DEF TransferInv, Transfer!SamplesAreTheirRounds
<1> QED
  BY <1>6, <1>7, <1>8, <1>9, <1>10 DEF TransferInv

-----------------------------------------------------------------------------
(* A step of the device: what it executed leaves the front of its stream. *)

LEMMA FrontLeaves ==
  ASSUME NEW q \in Seq(CopyOps \cup RecordOps), q # <<>>
  PROVE  /\ Len(q) \in Nat /\ 1 \in 1..Len(q) /\ Head(q) = q[1] /\ q[1] \in CopyOps \cup RecordOps
         /\ Tail(q) \in Seq(CopyOps \cup RecordOps) /\ Len(Tail(q)) = Len(q) - 1
         /\ \A i \in 1..Len(Tail(q)) : Tail(q)[i] = q[i + 1] /\ i + 1 \in 1..Len(q)
         /\ \A i \in 1..Len(q) : i = 1 \/ (i - 1 \in 1..Len(Tail(q)) /\ Tail(q)[i - 1] = q[i])
<1>1. Len(q) \in Nat /\ Len(q) >= 1 /\ Head(q) = q[1]
  BY LenProperties
<1>2. q[1] \in CopyOps \cup RecordOps
  BY <1>1, ElementOfSeq
<1>3. Tail(q) \in Seq(CopyOps \cup RecordOps) /\ Len(Tail(q)) = Len(q) - 1 /\ \A i \in 1..Len(Tail(q)) : Tail(q)[i] = q[i + 1]
  BY HeadTailProperties
<1>4. \A i \in 1..Len(Tail(q)) : i + 1 \in 1..Len(q)
  BY <1>1, <1>3
<1>5. ASSUME NEW i \in 1..Len(q), i # 1 PROVE i - 1 \in 1..Len(Tail(q)) /\ Tail(q)[i - 1] = q[i]
  <2>1. i - 1 \in 1..Len(Tail(q)) /\ (i - 1) + 1 = i
    BY <1>1, <1>3, <1>5
  <2> QED
    BY <1>3, <2>1
<1> QED
  BY <1>1, <1>2, <1>3, <1>4, <1>5

LEMMA DeviceMoves == ASSUME AllWellFormed, TransferInv, Transfer!DeviceStep PROVE TransferInv'
<1> USE DEF Transfer!DeviceStep
<1>0. PICK s \in Transfer!Streams :
        /\ stream[s] # <<>>
        /\ stream' = [stream EXCEPT ![s] = Tail(stream[s])]
        /\ IF Head(stream[s]).op = "copy"
           THEN done' = done \cup {Head(stream[s]).id} /\ UNCHANGED stamp
           ELSE stamp' = [stamp EXCEPT ![Head(stream[s]).what] = done] /\ UNCHANGED done
        /\ UNCHANGED <<benchmarks, doing, round, next, failing, held, begun, timings>>
  OBVIOUS
<1> HIDE DEF Transfer!DeviceStep
<1>1. stream \in [Transfer!Streams -> Seq(CopyOps \cup RecordOps)] /\ done \subseteq Nat \X Nat \X Transfer!Streams
      /\ DOMAIN stamp = Transfer!Events
  BY DEF TransferInv, TransferIsTyped
<1> DEFINE q == stream[s]
           h == q[1]
           t == Tail(q)
<1>2. /\ q \in Seq(CopyOps \cup RecordOps) /\ Len(q) \in Nat /\ 1 \in 1..Len(q) /\ Head(q) = h /\ h \in CopyOps \cup RecordOps
      /\ t \in Seq(CopyOps \cup RecordOps) /\ Len(t) = Len(q) - 1
      /\ \A i \in 1..Len(t) : t[i] = q[i + 1] /\ i + 1 \in 1..Len(q)
      /\ \A i \in 1..Len(q) : i = 1 \/ (i - 1 \in 1..Len(t) /\ t[i - 1] = q[i])
  <2>1. stream[s] \in Seq(CopyOps \cup RecordOps)
    BY <1>0, <1>1
  <2> QED
    BY <1>0, <2>1, FrontLeaves
<1> HIDE DEF t
<1>3. /\ stream' \in [Transfer!Streams -> Seq(CopyOps \cup RecordOps)] /\ stream'[s] = t
      /\ \A x \in Transfer!Streams \ {s} : stream'[x] = stream[x]
  BY <1>0, <1>1, <1>2 DEF t
<1>4. /\ h.op = "copy" => done' = done \cup {h.id} /\ stamp' = stamp
      /\ h.op # "copy" => h.op = "record" /\ h.what \in Transfer!Events /\ done' = done /\ stamp' = [stamp EXCEPT ![h.what] = done]
  BY <1>0, <1>2 DEF CopyOps, RecordOps
<1>5. UNCHANGED <<benchmarks, doing, round, next, failing, held, begun, timings>> /\ Method' = Method /\ Script' = Script
  BY <1>0 DEF Method, Script
<1> HIDE DEF h, q
<1>6. TransferIsTyped'
  <2>1. h.op = "copy" => h.id \in Nat \X Nat \X Transfer!Streams
    BY <1>2 DEF CopyOps, RecordOps
  <2>2. done' \subseteq Nat \X Nat \X Transfer!Streams /\ DOMAIN stamp' = Transfer!Events
    BY <1>1, <1>4, <2>1
  <2> QED
    BY <1>3, <1>5, <2>2 DEF TransferInv, TransferIsTyped
<1>7. BuffersAreHeld'
  <2>1. \A x \in Transfer!Streams : \A i \in 1..Len(stream'[x]) :
           stream'[x][i].op = "copy" => stream'[x][i].uses \subseteq held
    <3>1. \A x \in Transfer!Streams : \A i \in 1..Len(stream[x]) : stream[x][i].op = "copy" => stream[x][i].uses \subseteq held
      BY DEF TransferInv, BuffersAreHeld
    <3>2. \A i \in 1..Len(t) : t[i].op = "copy" => t[i].uses \subseteq held
      <4>1. \A i \in 1..Len(q) : q[i].op = "copy" => q[i].uses \subseteq held
        BY <1>0, <3>1 DEF q
      <4> QED
        BY <1>2, <4>1
    <3> QED
      BY <1>3, <3>1, <3>2
  <2> QED
    BY <1>5, <2>1 DEF TransferInv, BuffersAreHeld
<1>8. StreamsSettle'
  <2>1. ~(doing = "calling" \/ (doing = "releasing" /\ ~failing))
    BY <1>0 DEF TransferInv, StreamsSettle
  <2>2. ASSUME doing = "running", NEW x \in Transfer!Streams, Idle(Script, next, x) PROVE stream'[x] = <<>>
    BY <1>0, <1>3, <2>2 DEF TransferInv, StreamsSettle
  <2>3. ASSUME doing = "running", NEW x \in Transfer!Streams, next > 1, Enqueues(Script[next - 1], x), stream'[x] # <<>>
        PROVE  stream'[x][Len(stream'[x])] = Script[next - 1]
    <3>1. CASE x = s
      <4>1. q[Len(q)] = Script[next - 1]
        BY <1>0, <2>3, <3>1 DEF TransferInv, StreamsSettle, q
      <4>2. t # <<>> /\ stream'[x] = t
        BY <1>3, <2>3, <3>1
      <4>3. Len(t) \in 1..Len(t) /\ Len(t) + 1 = Len(q)
        BY <1>2, <4>2
      <4> QED
        BY <1>2, <4>1, <4>2, <4>3
    <3>2. CASE x # s
      BY <1>3, <2>3, <3>2 DEF TransferInv, StreamsSettle
    <3> QED
      BY <3>1, <3>2
  <2> QED
    BY <1>5, <2>1, <2>2, <2>3 DEF StreamsSettle
<1>9. ASSUME doing = "running", h.op = "copy" PROVE h.id \in Sent(Script, next) /\ h.id[1] = round
  <2>1. h.id \in Sent(Script, next)
    BY <1>0, <1>2, <1>9 DEF TransferInv, CopiesAreOfRounds, q, h
  <2> QED
    BY <1>9, <2>1, RunningFacts
<1>10. CopiesAreOfRounds'
  <2> SUFFICES ASSUME doing = "running" PROVE CopiesAreOfRounds'
    BY <1>5 DEF CopiesAreOfRounds
  <2>1. \A c \in done' : c[1] <= round /\ (c[1] = round => c \in Sent(Script, next))
    <3>1. \A c \in done : c[1] <= round /\ (c[1] = round => c \in Sent(Script, next))
      BY DEF TransferInv, CopiesAreOfRounds
    <3>2. round \in Nat
      BY RunningFacts
    <3> QED
      BY <1>4, <1>9, <3>1, <3>2
  <2>2. \A x \in Transfer!Streams : \A i \in 1..Len(stream'[x]) :
              stream'[x][i].op = "copy" => stream'[x][i].id \in Sent(Script, next) /\ stream'[x][i].id[3] = x
    <3>1. \A x \in Transfer!Streams : \A i \in 1..Len(stream[x]) :
              stream[x][i].op = "copy" => stream[x][i].id \in Sent(Script, next) /\ stream[x][i].id[3] = x
      BY DEF TransferInv, CopiesAreOfRounds
    <3>2. \A i \in 1..Len(t) : t[i].op = "copy" => t[i].id \in Sent(Script, next) /\ t[i].id[3] = s
      BY <1>0, <1>2, <3>1 DEF q
    <3> QED
      BY <1>3, <3>1, <3>2
  <2>3. ASSUME NEW c \in Sent(Script, next), c \notin done'
        PROVE  \E x \in Transfer!Streams : \E i \in 1..Len(stream'[x]) : stream'[x][i].op = "copy" /\ stream'[x][i].id = c
    <3>1. c \notin done /\ ~(h.op = "copy" /\ h.id = c)
      BY <1>4, <2>3
    <3>2. PICK x \in Transfer!Streams : \E i \in 1..Len(stream[x]) : stream[x][i].op = "copy" /\ stream[x][i].id = c
      BY <3>1 DEF TransferInv, CopiesAreOfRounds
    <3>3. PICK i \in 1..Len(stream[x]) : stream[x][i].op = "copy" /\ stream[x][i].id = c
      BY <3>2
    <3>4. CASE x = s
      <4>1. i # 1
        BY <3>1, <3>3, <3>4 DEF h, q
      <4>2. i - 1 \in 1..Len(t) /\ t[i - 1] = stream[x][i]
        BY <1>2, <3>4, <4>1 DEF q
      <4> QED
        BY <1>3, <3>3, <3>4, <4>2
    <3>5. CASE x # s
      BY <1>3, <3>3, <3>5
    <3> QED
      BY <3>4, <3>5
  <2> QED
    BY <1>5, <2>1, <2>2, <2>3 DEF CopiesAreOfRounds
<1>11. doing = "running" => Old' = Old
  BY <1>4, <1>5, <1>9 DEF Old
<1>12. ClockIsRead'
  <2>1. Old' = Old \/ doing # "running"
    BY <1>11
  <2> QED
    BY <1>5, <2>1 DEF TransferInv, ClockIsRead
<1>13. StampsFollow'
  <2> SUFFICES ASSUME doing = "running", Method.method # "ready" PROVE StampsFollow'
    BY <1>5 DEF StampsFollow
  <2>0. WellFormed(Script, Method, round) /\ Len(Script) \in Nat /\ next \in 1..(Len(Script) + 1)
    BY RunningFacts
  <2>1. s = Transfer!Default
    BY <1>0 DEF TransferInv, StampsFollow
  <2>2. /\ \A x \in Transfer!Streams \ {s} : stream[x] = <<>>
        /\ \A i \in 1..Len(q) : q[i].op = "record" => \E k \in 1..(next - 1) :
              Script[k] = q[i] /\ done \cup Ahead(Transfer!Default, i) = Old \cup Sent(Script, k)
        /\ \A k \in 1..(next - 1) : Script[k].op = "record" /\ Transfer!Reached(Script[k].what) =>
              stamp[Script[k].what] = Old \cup Sent(Script, k)
    BY <2>1 DEF TransferInv, StampsFollow, q
  <2>3. ASSUME NEW i \in 1..Len(t)
        PROVE  done' \cup Ahead(Transfer!Default, i)' = done \cup Ahead(Transfer!Default, i + 1)
    <3>1. /\ Ahead(Transfer!Default, i)' = {t[k].id : k \in {j \in 1..(i - 1) : t[j].op = "copy"}}
          /\ Ahead(Transfer!Default, i + 1) = {q[k].id : k \in {j \in 1..((i + 1) - 1) : q[j].op = "copy"}}
      BY <1>3, <2>1 DEF Ahead, q
    <3>2. (i + 1) - 1 = i /\ \A j \in 1..(i - 1) : j \in 1..Len(t) /\ j + 1 \in 1..i
      BY <1>2
    <3>3. \A j \in 1..i : j = 1 \/ (j - 1 \in 1..(i - 1) /\ j - 1 \in 1..Len(t) /\ (j - 1) + 1 = j)
      BY <1>2
    <3>4. \A j \in 1..Len(t) : t[j] = q[j + 1]
      BY <1>2
    <3>5. 1 \in 1..i
      BY <1>2
    <3>6. ASSUME NEW c \in Ahead(Transfer!Default, i)' PROVE c \in Ahead(Transfer!Default, i + 1)
      <4>1. PICK j \in 1..(i - 1) : t[j].op = "copy" /\ c = t[j].id
        BY <3>1, <3>6
      <4>2. j + 1 \in 1..i /\ q[j + 1].op = "copy" /\ c = q[j + 1].id
        BY <3>2, <3>4, <4>1
      <4> QED
        BY <3>1, <3>2, <4>2
    <3>7. ASSUME NEW c \in Ahead(Transfer!Default, i + 1)
          PROVE  c \in Ahead(Transfer!Default, i)' \/ (h.op = "copy" /\ c = h.id)
      <4>1. PICK j \in 1..i : q[j].op = "copy" /\ c = q[j].id
        BY <3>1, <3>2, <3>7
      <4>2. CASE j = 1
        BY <4>1, <4>2 DEF h
      <4>3. CASE j # 1
        <5>1. j - 1 \in 1..(i - 1) /\ t[j - 1].op = "copy" /\ c = t[j - 1].id
          BY <3>3, <3>4, <4>1, <4>3
        <5> QED
          BY <3>1, <5>1
      <4> QED
        BY <4>2, <4>3
    <3>8. h.op = "copy" => h.id \in Ahead(Transfer!Default, i + 1)
      BY <3>1, <3>2, <3>5 DEF h
    <3> QED
      BY <1>4, <3>6, <3>7, <3>8
  <2>4. ASSUME NEW i \in 1..Len(t), t[i].op = "record"
        PROVE  \E k \in 1..(next - 1) : Script[k] = t[i] /\ done' \cup Ahead(Transfer!Default, i)' = Old \cup Sent(Script, k)
    <3>1. i + 1 \in 1..Len(q) /\ t[i] = q[i + 1]
      BY <1>2
    <3>2. done' \cup Ahead(Transfer!Default, i)' = done \cup Ahead(Transfer!Default, i + 1)
      BY <2>3
    <3>3. PICK k \in 1..(next - 1) : Script[k] = q[i + 1] /\ done \cup Ahead(Transfer!Default, i + 1) = Old \cup Sent(Script, k)
      BY <2>2, <2>4, <3>1
    <3> QED
      BY <3>1, <3>2, <3>3
  <2>5. ASSUME NEW k \in 1..(next - 1), Script[k].op = "record", Transfer!Reached(Script[k].what)'
        PROVE  stamp'[Script[k].what] = Old \cup Sent(Script, k)
    <3>0. \A x \in Transfer!Streams : DOMAIN stream'[x] = 1..Len(stream'[x]) /\ DOMAIN stream[x] = 1..Len(stream[x])
      BY <1>1, <1>3
    <3>1. PICK e : e = Script[k].what
      OBVIOUS
    <3>2. \A x \in Transfer!Streams : \A i \in 1..Len(stream'[x]) : stream'[x][i].op = "record" => stream'[x][i].what # e
      BY <1>5, <2>5, <3>0, <3>1 DEF Transfer!Reached
    <3>3. CASE h.op = "record" /\ h.what = e
      <4>1. PICK j \in 1..(next - 1) : Script[j] = h /\ done \cup Ahead(Transfer!Default, 1) = Old \cup Sent(Script, j)
        BY <1>2, <2>2, <3>3 DEF h
      <4>2. j = k
        <5>1. j \in 1..Len(Script) /\ k \in 1..Len(Script)
          BY <2>0
        <5> QED
          BY <2>0, <2>5, <3>1, <3>3, <4>1, <5>1 DEF WellFormed, RecordsAreSingle
      <4>3. Ahead(Transfer!Default, 1) = {}
        <5>1. 1..(1 - 1) = {}
          OBVIOUS
        <5> QED
          BY <5>1 DEF Ahead
      <4>4. stamp'[e] = done
        BY <1>1, <1>4, <3>3
      <4> QED
        BY <3>1, <4>1, <4>2, <4>3, <4>4
    <3>4. CASE ~(h.op = "record" /\ h.what = e)
      <4>1. \A x \in Transfer!Streams : \A i \in 1..Len(stream[x]) : stream[x][i].op = "record" => stream[x][i].what # e
        <5>1. \A i \in 1..Len(q) : q[i].op = "record" => q[i].what # e
          <6>1. \A i \in 1..Len(t) : t[i].op = "record" => t[i].what # e
            BY <1>0, <1>3, <3>2
          <6> QED
            BY <1>2, <3>4, <6>1, ZenonT(60) DEF h
        <5> QED
          BY <1>3, <3>2, <5>1 DEF q
      <4>2. Transfer!Reached(Script[k].what)
        BY <3>0, <3>1, <4>1 DEF Transfer!Reached
      <4>3. stamp[e] = Old \cup Sent(Script, k)
        BY <2>2, <2>5, <3>1, <4>2
      <4>4. stamp'[e] = stamp[e]
        <5>1. Script[k] \in CopyOps \cup RecordOps \cup HostOps
          BY <2>0, RunningFacts
        <5>2. e \in Transfer!Events
          BY <2>5, <3>1, <5>1, OpsByKind DEF RecordOps
        <5> QED
          BY <1>1, <1>4, <3>4, <5>2
      <4> QED
        BY <3>1, <4>3, <4>4
    <3> QED
      BY <3>3, <3>4
  <2>6. \A x \in Transfer!Streams \ {Transfer!Default} : stream'[x] = <<>>
    BY <1>3, <2>1, <2>2
  <2>7. stream'[Transfer!Default] = t /\ Old' = Old
    BY <1>3, <1>11, <2>1
  <2> QED
    BY <1>5, <2>4, <2>5, <2>6, <2>7 DEF StampsFollow
<1>14. Transfer!SamplesAreTheirRounds'
  BY <1>5 DEF TransferInv, Transfer!SamplesAreTheirRounds
<1> QED
  BY <1>6, <1>7, <1>8, <1>10, <1>12, <1>13, <1>14 DEF TransferInv

LEMMA TransferStep == ASSUME CallsAreSound, TransferInv, Transfer!Next \/ UNCHANGED cudaVars PROVE TransferInv'
<1>0. AllWellFormed
  BY DEF CallsAreSound
<1>1. CASE Transfer!Call
  BY <1>1, CallStep
<1>2. CASE Transfer!NextRound
  BY <1>2, NextRoundStep
<1>3. CASE Transfer!Acquire
  BY <1>0, <1>3, AcquireStep
<1>4. CASE Transfer!Enqueue
  BY <1>0, <1>4, EnqueueStep
<1>5. CASE Transfer!WaitEvent
  BY <1>0, <1>5, WaitEventStep
<1>6. CASE Transfer!WaitStream
  BY <1>0, <1>6, WaitStreamStep
<1>7. CASE Transfer!ReadClock
  BY <1>0, <1>7, ReadClockStep
<1>8. CASE Transfer!StopClock
  BY <1>0, <1>8, StopClockStep
<1>9. CASE Transfer!ReadElapsed
  BY <1>0, <1>9, ReadElapsedStep
<1>10. CASE Transfer!Return
  BY <1>10, ReturnStep
<1>11. CASE Transfer!Release
  BY <1>11, ReleaseStep
<1>12. CASE Transfer!Summarize
  BY <1>12, SummarizeStep
<1>13. CASE Transfer!Fail
  BY <1>13, FailStep
<1>14. CASE Transfer!DeviceStep
  BY <1>0, <1>14, DeviceMoves
<1>15. CASE UNCHANGED cudaVars
  <2>1. Script' = Script /\ Method' = Method
    BY <1>15 DEF cudaVars, Script, Method
  <2>2. TransferIsTyped' /\ BuffersAreHeld' /\ StreamsSettle'
    BY <1>15, <2>1 DEF cudaVars, TransferInv, TransferIsTyped, BuffersAreHeld, StreamsSettle
  <2>3. Old' = Old /\ \A i : Ahead(Transfer!Default, i)' = Ahead(Transfer!Default, i)
    BY <1>15 DEF cudaVars, Old, Ahead
  <2>4. \A e : Transfer!Reached(e)' = Transfer!Reached(e)
    BY <1>15 DEF cudaVars, Transfer!Reached
  <2>5. CopiesAreOfRounds' /\ ClockIsRead'
    BY <1>15, <2>1, <2>3 DEF cudaVars, TransferInv, CopiesAreOfRounds, ClockIsRead
  <2>6. StampsFollow'
    BY <1>15, <2>1, <2>3, <2>4 DEF cudaVars, TransferInv, StampsFollow
  <2>7. Transfer!SamplesAreTheirRounds'
    BY <1>15 DEF cudaVars, TransferInv, Transfer!SamplesAreTheirRounds
  <2> QED
    BY <2>2, <2>5, <2>6, <2>7 DEF TransferInv
<1> QED
  BY <1>1, <1>2, <1>3, <1>4, <1>5, <1>6, <1>7, <1>8, <1>9, <1>10, <1>11, <1>12, <1>13, <1>14, <1>15
     DEF Transfer!Next, Transfer!Benchmark

LEMMA OneMeasurement ==
  ASSUME NEW method \in Methods, NEW mode \in Transfer!Modes, NEW load \in BOOLEAN
  PROVE  Transfer!Measure(method, mode, load) \in Seq(Measurements) /\ Transfer!Measure(method, mode, load) # <<>>
<1>1. [method |-> method, mode |-> mode, load |-> load] \in Measurements
  BY Zenon DEF Measurements
<1> QED
  BY <1>1 DEF Transfer!Measure

LEMMA MeasurementsJoin ==
  ASSUME NEW a \in Seq(Measurements), NEW b \in Seq(Measurements), a # <<>>
  PROVE  a \o b \in Seq(Measurements) /\ a \o b # <<>>
<1>1. a \o b \in Seq(Measurements) /\ Len(a \o b) = Len(a) + Len(b) /\ Len(a) \in Nat /\ Len(b) \in Nat /\ Len(a) # 0
  BY ConcatProperties
<1>2. Len(a \o b) # 0
  BY <1>1
<1> QED
  BY <1>1, <1>2

LEMMA BenchmarksAreMeasurements ==
  ASSUME NEW mode \in Transfer!Modes, NEW busy \in BOOLEAN
  PROVE  /\ Transfer!Transfers \in Seq(Measurements) /\ Transfer!Transfers # <<>>
         /\ Transfer!Mover(mode, busy) \in Seq(Measurements) /\ Transfer!Mover(mode, busy) # <<>>
<1> DEFINE M(method, kept, load) == Transfer!Measure(method, kept, load)
<1>1. \A method \in Methods, kept \in Transfer!Modes, load \in BOOLEAN :
         M(method, kept, load) \in Seq(Measurements) /\ M(method, kept, load) # <<>>
  BY OneMeasurement
<1>2. "pageable" \in Transfer!Modes /\ "pinned" \in Transfer!Modes /\ TRUE \in BOOLEAN /\ FALSE \in BOOLEAN
      /\ "staging" \in Methods /\ "measure" \in Methods /\ "single" \in Methods /\ "contiguous" \in Methods
      /\ "queue" \in Methods /\ "ready" \in Methods
  BY DEF Transfer!Modes, Methods
<1> HIDE DEF M
<1>3. Transfer!Transfers \in Seq(Measurements) /\ Transfer!Transfers # <<>>
  <2> DEFINE a == M("staging", "pageable", FALSE)
             b == a \o M("measure", "pageable", FALSE)
             c == b \o M("single", "pageable", FALSE)
             d == c \o M("measure", "pinned", FALSE)
             e == d \o M("single", "pinned", FALSE)
  <2>1. a \in Seq(Measurements) /\ a # <<>>
    BY <1>1, <1>2
  <2> HIDE DEF a
  <2>2. b \in Seq(Measurements) /\ b # <<>>
    BY <1>1, <1>2, <2>1, MeasurementsJoin
  <2> HIDE DEF b
  <2>3. c \in Seq(Measurements) /\ c # <<>>
    BY <1>1, <1>2, <2>2, MeasurementsJoin
  <2> HIDE DEF c
  <2>4. d \in Seq(Measurements) /\ d # <<>>
    BY <1>1, <1>2, <2>3, MeasurementsJoin
  <2> HIDE DEF d
  <2>5. e \in Seq(Measurements) /\ e # <<>>
    BY <1>1, <1>2, <2>4, MeasurementsJoin
  <2> HIDE DEF e
  <2>6. Transfer!Transfers = e
    BY DEF a, b, c, d, e, M, Transfer!Transfers
  <2> QED
    BY <2>5, <2>6
<1>4. Transfer!Mover(mode, busy) \in Seq(Measurements) /\ Transfer!Mover(mode, busy) # <<>>
  <2> DEFINE a == M("contiguous", mode, FALSE)
             b == a \o M("queue", mode, FALSE)
             c == b \o M("ready", mode, FALSE)
             x == IF busy THEN M("ready", mode, TRUE) ELSE <<>>
             d == c \o x
  <2>1. a \in Seq(Measurements) /\ a # <<>>
    BY <1>1, <1>2
  <2> HIDE DEF a
  <2>2. b \in Seq(Measurements) /\ b # <<>>
    BY <1>1, <1>2, <2>1, MeasurementsJoin
  <2> HIDE DEF b
  <2>3. c \in Seq(Measurements) /\ c # <<>>
    BY <1>1, <1>2, <2>2, MeasurementsJoin
  <2> HIDE DEF c
  <2>4. x \in Seq(Measurements)
    <3>1. <<>> \in Seq(Measurements)
      OBVIOUS
    <3> QED
      BY <1>1, <1>2, <3>1
  <2> HIDE DEF x
  <2>5. d \in Seq(Measurements) /\ d # <<>>
    BY <2>3, <2>4, MeasurementsJoin
  <2> HIDE DEF d
  <2>6. Transfer!Mover(mode, busy) = d
    BY DEF a, b, c, x, d, M, Transfer!Mover
  <2> QED
    BY <2>5, <2>6
<1> QED
  BY <1>3, <1>4

LEMMA TransferStarts == ASSUME Transfer!Init PROVE TransferInv
<1> USE DEF Transfer!Init
<1>1. /\ doing = "calling" /\ failing = FALSE /\ held = {} /\ done = {} /\ timings = {}
      /\ stream = [s \in Transfer!Streams |-> <<>>] /\ DOMAIN stamp = Transfer!Events
  OBVIOUS
<1>2. benchmarks \in Seq(Measurements) /\ benchmarks # <<>>
  <2>1. CASE benchmarks = Transfer!Transfers
    <3>1. "pinned" \in Transfer!Modes /\ TRUE \in BOOLEAN
      BY DEF Transfer!Modes
    <3> QED
      BY <2>1, <3>1, BenchmarksAreMeasurements
  <2>2. CASE \E mode \in Transfer!Modes, busy \in BOOLEAN : benchmarks = Transfer!Mover(mode, busy)
    BY <2>2, BenchmarksAreMeasurements
  <2> QED
    BY <2>1, <2>2
<1> HIDE DEF Transfer!Init
<1>3. TransferIsTyped
  <2>1. stream \in [Transfer!Streams -> Seq(CopyOps \cup RecordOps)]
    <3>1. <<>> \in Seq(CopyOps \cup RecordOps)
      OBVIOUS
    <3> QED
      BY <1>1, <3>1
  <2>2. failing \in BOOLEAN /\ ~failing
    BY <1>1
  <2> QED
    BY <1>1, <1>2, <2>1, <2>2 DEF TransferIsTyped
<1>4. BuffersAreHeld /\ StreamsSettle
  BY <1>1 DEF BuffersAreHeld, StreamsSettle
<1>5. CopiesAreOfRounds /\ ClockIsRead /\ StampsFollow
  BY <1>1 DEF CopiesAreOfRounds, ClockIsRead, StampsFollow
<1>6. Transfer!SamplesAreTheirRounds
  BY <1>1 DEF Transfer!SamplesAreTheirRounds
<1> QED
  BY <1>3, <1>4, <1>5, <1>6 DEF TransferInv

(* The samples and the buffers are as the module says. *)
LEMMA TransferIsSound == ASSUME TransferInv PROVE Transfer!SamplesAreTheirRounds /\ Transfer!BuffersOutliveCopies
<1>1. stream \in [Transfer!Streams -> Seq(CopyOps \cup RecordOps)]
  BY DEF TransferInv, TransferIsTyped
<1>2. \A s \in Transfer!Streams : DOMAIN stream[s] = 1..Len(stream[s])
  BY <1>1
<1> QED
  BY <1>2 DEF TransferInv, BuffersAreHeld, Transfer!BuffersOutliveCopies

-----------------------------------------------------------------------------
(* Folds: what the model of the simulated cache is made of *)

(* What a fold keeps with every element holds after each of them. *)
LEMMA FoldKeeps ==
  ASSUME NEW L \in Nat, NEW T, NEW f, f[0] \in T[0],
         \A n \in 1..L : f[n - 1] \in T[n - 1] => f[n] \in T[n]
  PROVE  \A n \in 0..L : f[n] \in T[n]
<1> DEFINE Bad == {n \in 0..L : f[n] \notin T[n]}
<1> SUFFICES ASSUME Bad # {} PROVE FALSE
  OBVIOUS
<1>1. Bad \subseteq Nat
  OBVIOUS
<1> HIDE DEF Bad
<1>2. PICK m \in Bad : \A n \in Bad : m <= n
  BY <1>1, SmallestNumber
<1>3. m \in 1..L /\ m - 1 \in 0..L /\ m - 1 \notin Bad
  BY <1>1, <1>2 DEF Bad
<1> QED
  BY <1>2, <1>3 DEF Bad

(* A fold whose steps stay in given sets has a value after each element. *)
StayIn(op, T, L) == \A n \in 1..L : \A s \in T[n - 1] : op[n][s] \in T[n]
FoldOf(g, base, op, T, L) ==
    /\ g = [n \in 0..L |-> IF n = 0 THEN base ELSE op[n][g[n - 1]]]
    /\ \A n \in 0..L : g[n] \in T[n]

LEMMA FoldExists ==
  ASSUME NEW L \in Nat, NEW T, NEW base \in T[0], NEW op, StayIn(op, T, L)
  PROVE  \E g : FoldOf(g, base, op, T, L)
<1> USE DEF StayIn, FoldOf
<1> DEFINE Is(g, k) == FoldOf(g, base, op, T, k)
           Bad == {k \in 0..L : ~ \E g : Is(g, k)}
<1> SUFFICES ASSUME Bad # {} PROVE FALSE
  BY DEF Bad
<1>1. Bad \subseteq Nat
  OBVIOUS
<1> HIDE DEF Bad
<1>2. PICK k \in Bad : \A j \in Bad : k <= j
  BY <1>1, SmallestNumber
<1>3. CASE k = 0
  <2>1. Is([n \in 0..0 |-> base], 0)
    OBVIOUS
  <2> QED
    BY <1>2, <1>3, <2>1 DEF Bad
<1>4. CASE k # 0
  <2>1. k \in 1..L /\ k - 1 \in 0..L /\ k - 1 \notin Bad
    BY <1>1, <1>2, <1>4 DEF Bad
  <2>2. PICK g : Is(g, k - 1)
    BY <2>1 DEF Bad
  <2> DEFINE h == [n \in 0..k |-> IF n = k THEN op[k][g[k - 1]] ELSE g[n]]
  <2>3. \A n \in 0..k : h[n] = IF n = 0 THEN base ELSE op[n][h[n - 1]]
    <3> TAKE n \in 0..k
    <3>1. CASE n = k
      BY <2>1, <3>1
    <3>2. CASE n # k
      <4>1. n \in 0..(k - 1) /\ h[n] = g[n] /\ (n # 0 => h[n - 1] = g[n - 1])
        BY <2>1, <3>2
      <4>2. g[n] = IF n = 0 THEN base ELSE op[n][g[n - 1]]
        BY <2>2, <4>1
      <4> QED
        BY <4>1, <4>2
    <3> QED
      BY <3>1, <3>2
  <2>4. \A n \in 0..k : h[n] \in T[n]
    <3> TAKE n \in 0..k
    <3>1. CASE n = k
      BY <2>1, <2>2, <3>1
    <3>2. CASE n # k
      BY <2>1, <2>2, <3>2
    <3> QED
      BY <3>1, <3>2
  <2>5. h = [n \in 0..k |-> IF n = 0 THEN base ELSE op[n][h[n - 1]]]
    BY <2>3
  <2> HIDE DEF h
  <2>6. Is(h, k)
    BY <2>4, <2>5
  <2> QED
    BY <1>2, <2>6 DEF Bad
<1> QED
  BY <1>3, <1>4

-----------------------------------------------------------------------------
(* What the operations of the cache keep.  Elems are the experts of a      *)
(* cache, and UsedBefore its order.                                            *)

Elems(c) == {c[i] : i \in 1..Len(c)}
UsedBefore(c, x, y) == \E i, j \in 1..Len(c) : i < j /\ c[i] = x /\ c[j] = y
Once(c) == \A i, j \in 1..Len(c) : c[i] = c[j] => i = j
Caches == {c \in Seq(Experts) : Once(c) /\ Len(c) <= Capacity}

LEMMA ElemsAreRange == ASSUME NEW S, NEW c \in Seq(S) PROVE Simulation!Range(c) = Elems(c)
  BY LenProperties DEF Simulation!Range, Elems

LEMMA OnceIsInjective ==
  ASSUME NEW S, NEW c \in Seq(S) PROVE Simulation!IsInjective(c) <=> Once(c)
  BY LenProperties DEF Simulation!IsInjective, Once

LEMMA DeleteKeeps ==
  ASSUME NEW S, NEW c \in Seq(S), Once(c), NEW k \in 1..Len(c)
  PROVE  LET d == Simulation!Delete(c, k)
         IN  /\ d \in Seq(S) /\ Once(d) /\ Len(d) = Len(c) - 1
             /\ Elems(d) = Elems(c) \ {c[k]}
             /\ \A x, y \in Elems(d) : UsedBefore(c, x, y) => UsedBefore(d, x, y)
<1> DEFINE d == Simulation!Delete(c, k)
<1>1. /\ Len(c) \in Nat /\ DOMAIN c = 1..Len(c) /\ \A i \in 1..Len(c) : c[i] \in S
  BY LenProperties, ElementOfSeq
<1>2. /\ d = [i \in 1..(Len(c) - 1) |-> IF i < k THEN c[i] ELSE c[i + 1]]
      /\ Len(c) - 1 \in Nat
  BY <1>1 DEF Simulation!Delete
<1>3. d \in Seq(S) /\ Len(d) = Len(c) - 1
  <2>1. \A i \in 1..(Len(c) - 1) : d[i] \in S
    BY <1>1, <1>2
  <2> QED
    BY <1>2, <2>1, IsASeq
<1>4. \A i \in 1..Len(d) : /\ i < k => d[i] = c[i] /\ i \in 1..Len(c)
                           /\ ~(i < k) => d[i] = c[i + 1] /\ i + 1 \in 1..Len(c)
  BY <1>1, <1>2, <1>3
<1>5. \A i \in 1..Len(c) : /\ i < k => i \in 1..Len(d) /\ d[i] = c[i]
                           /\ i > k => i - 1 \in 1..Len(d) /\ d[i - 1] = c[i]
  BY <1>1, <1>2, <1>3
<1> HIDE DEF d
<1>6. Once(d)
  BY <1>1, <1>3, <1>4 DEF Once
<1>7. Elems(d) = Elems(c) \ {c[k]}
  <2>1. ASSUME NEW i \in 1..Len(d) PROVE d[i] \in Elems(c) \ {c[k]}
    BY <1>1, <1>3, <1>4 DEF Once, Elems
  <2>2. ASSUME NEW i \in 1..Len(c), c[i] # c[k] PROVE c[i] \in Elems(d)
    <3>1. i < k \/ i > k
      BY <1>1, <2>2
    <3> QED
      BY <1>5, <3>1 DEF Elems
  <2> QED
    BY <2>1, <2>2 DEF Elems
<1>8. ASSUME NEW x \in Elems(d), NEW y \in Elems(d), UsedBefore(c, x, y) PROVE UsedBefore(d, x, y)
  <2>1. PICK i \in 1..Len(c), j \in 1..Len(c) : i < j /\ c[i] = x /\ c[j] = y
    BY <1>8 DEF UsedBefore
  <2>2. i # k /\ j # k
    BY <1>7, <1>8, <2>1
  <2>3. CASE j < k
    BY <1>1, <1>5, <2>1, <2>3 DEF UsedBefore
  <2>4. CASE i < k /\ k < j
    <3>1. i < j - 1
      BY <1>1, <2>4
    <3> QED
      BY <1>5, <2>1, <2>4, <3>1 DEF UsedBefore
  <2>5. CASE k < i
    <3>1. i > k /\ j > k /\ i - 1 < j - 1
      BY <1>1, <2>1, <2>5
    <3>2. i - 1 \in 1..Len(d) /\ d[i - 1] = x /\ j - 1 \in 1..Len(d) /\ d[j - 1] = y
      BY <1>5, <2>1, <3>1
    <3> QED
      BY <3>1, <3>2 DEF UsedBefore
  <2> QED
    BY <1>1, <2>1, <2>2, <2>3, <2>4, <2>5
<1> QED
  BY <1>3, <1>6, <1>7, <1>8 DEF d

LEMMA AppendKeeps ==
  ASSUME NEW S, NEW d \in Seq(S), Once(d), NEW e \in S, e \notin Elems(d)
  PROVE  LET a == Append(d, e)
         IN  /\ a \in Seq(S) /\ Once(a) /\ Len(a) = Len(d) + 1
             /\ Elems(a) = Elems(d) \cup {e}
             /\ \A x, y : UsedBefore(d, x, y) => UsedBefore(a, x, y)
             /\ \A x \in Elems(d) : UsedBefore(a, x, e)
<1> DEFINE a == Append(d, e)
<1>1. /\ Len(d) \in Nat /\ a \in Seq(S) /\ Len(a) = Len(d) + 1 /\ a[Len(d) + 1] = e
      /\ \A i \in 1..Len(d) : a[i] = d[i]
  BY LenProperties, AppendProperties
<1> HIDE DEF a
<1>2. \A i \in 1..Len(a) : i \in 1..Len(d) \/ i = Len(d) + 1
  BY <1>1
<1>3. Elems(a) = Elems(d) \cup {e}
  <2>1. \A i \in 1..Len(d) : i \in 1..Len(a) /\ a[i] = d[i]
    BY <1>1
  <2>2. Len(d) + 1 \in 1..Len(a)
    BY <1>1
  <2> QED
    BY <1>1, <1>2, <2>1, <2>2 DEF Elems
<1>4. Once(a)
  BY <1>1, <1>2 DEF Once, Elems
<1>5. ASSUME NEW x, NEW y, UsedBefore(d, x, y) PROVE UsedBefore(a, x, y)
  BY <1>1, <1>5 DEF UsedBefore
<1>6. ASSUME NEW x \in Elems(d) PROVE UsedBefore(a, x, e)
  <2>1. PICK i \in 1..Len(d) : d[i] = x
    BY DEF Elems
  <2>2. i \in 1..Len(a) /\ Len(d) + 1 \in 1..Len(a) /\ i < Len(d) + 1
    BY <1>1
  <2> QED
    BY <1>1, <2>1, <2>2 DEF UsedBefore
<1> QED
  BY <1>1, <1>3, <1>4, <1>5, <1>6 DEF a

LEMMA MoveKeeps ==
  ASSUME NEW c \in Caches, NEW e \in Elems(c)
  PROVE  LET m == Simulation!MoveToEnd(c, e)
         IN  /\ m \in Caches /\ Elems(m) = Elems(c)
             /\ \A x, y \in Elems(c) \ {e} : UsedBefore(c, x, y) => UsedBefore(m, x, y)
             /\ \A x \in Elems(c) \ {e} : UsedBefore(m, x, e)
<1> DEFINE k == CHOOSE k \in DOMAIN c : c[k] = e
           d == Simulation!Delete(c, k)
           m == Append(d, e)
<1>1. /\ c \in Seq(Experts) /\ Once(c) /\ Len(c) <= Capacity /\ e \in Experts
      /\ k \in 1..Len(c) /\ c[k] = e
  BY LenProperties, ElementOfSeq DEF Caches, Elems
<1>2. Simulation!MoveToEnd(c, e) = m
  BY DEF Simulation!MoveToEnd
<1> HIDE DEF k
<1>3. /\ d \in Seq(Experts) /\ Once(d) /\ Len(d) = Len(c) - 1 /\ Elems(d) = Elems(c) \ {e}
      /\ \A x, y \in Elems(d) : UsedBefore(c, x, y) => UsedBefore(d, x, y)
  BY <1>1, DeleteKeeps
<1> HIDE DEF d
<1>4. /\ m \in Seq(Experts) /\ Once(m) /\ Len(m) = Len(d) + 1 /\ Elems(m) = Elems(d) \cup {e}
      /\ \A x, y : UsedBefore(d, x, y) => UsedBefore(m, x, y)
      /\ \A x \in Elems(d) : UsedBefore(m, x, e)
  BY <1>1, <1>3, AppendKeeps
<1> HIDE DEF m
<1>5. Len(m) = Len(c)
  BY <1>1, <1>3, <1>4, LenProperties
<1> QED
  BY <1>1, <1>2, <1>3, <1>4, <1>5 DEF Caches

(* A cache that is full gives up the first of those not to be kept. *)
LEMMA LoadKeeps ==
  ASSUME NEW c \in Caches, NEW e \in Experts \ Elems(c), NEW keep, Capacity \in Nat \ {0},
         Len(c) >= Capacity => ~(Elems(c) \subseteq keep)
  PROVE  LET m == Simulation!Load(c, e, keep)
         IN  /\ m \in Caches /\ e \in Elems(m) /\ Elems(m) \subseteq Elems(c) \cup {e}
             /\ Elems(c) \cap keep \subseteq Elems(m)
             /\ \A x, y \in Elems(m) \ {e} : UsedBefore(c, x, y) => UsedBefore(m, x, y)
             /\ \A x \in Elems(m) \ {e} : UsedBefore(m, x, e)
             /\ \A x \in Elems(m) \ ({e} \cup keep), y \in Elems(c) : UsedBefore(c, x, y) => y \in Elems(m)
<1> DEFINE m == Simulation!Load(c, e, keep)
<1>1. c \in Seq(Experts) /\ Once(c) /\ Len(c) <= Capacity /\ Len(c) \in Nat /\ DOMAIN c = 1..Len(c)
  BY LenProperties DEF Caches
<1>2. CASE Len(c) < Capacity
  <2>1. m = Append(c, e)
    BY <1>2 DEF Simulation!Load
  <2>2. /\ m \in Seq(Experts) /\ Once(m) /\ Len(m) = Len(c) + 1 /\ Elems(m) = Elems(c) \cup {e}
        /\ \A x, y : UsedBefore(c, x, y) => UsedBefore(m, x, y)
        /\ \A x \in Elems(c) : UsedBefore(m, x, e)
    BY <1>1, <2>1, AppendKeeps
  <2> HIDE DEF m
  <2>3. Len(m) <= Capacity
    BY <1>1, <1>2, <2>2
  <2> QED
    BY <2>2, <2>3 DEF Caches, m
<1>3. CASE ~(Len(c) < Capacity)
  <2> DEFINE k == Simulation!Victim(c, keep)
             d == Simulation!Delete(c, k)
  <2>1. k \in 1..Len(c) /\ c[k] \notin keep /\ \A i \in 1..(k - 1) : c[i] \in keep
    <3> DEFINE Free == {i \in 1..Len(c) : c[i] \notin keep}
    <3>1. Free # {} /\ Free \subseteq Nat
      BY <1>1, <1>3 DEF Elems
    <3> HIDE DEF Free
    <3>2. PICK i \in Free : \A j \in Free : i <= j
      BY <3>1, SmallestNumber
    <3>3. i \in 1..Len(c) /\ c[i] \notin keep
      BY <3>2 DEF Free
    <3>4. \A j \in 1..(i - 1) : c[j] \in keep
      <4> SUFFICES ASSUME NEW j \in 1..(i - 1), c[j] \notin keep PROVE FALSE
        OBVIOUS
      <4>1. j \in Free /\ j < i
        BY <1>1, <3>3 DEF Free
      <4> QED
        BY <1>1, <3>2, <3>3, <4>1
    <3>5. \E j \in DOMAIN c : c[j] \notin keep /\ \A i_1 \in 1..(j - 1) : c[i_1] \in keep
      BY <1>1, <3>3, <3>4
    <3> QED
      BY <1>1, <3>5 DEF Simulation!Victim
  <2>2. m = Append(d, e)
    BY <1>3 DEF Simulation!Load
  <2> HIDE DEF k
  <2>3. /\ d \in Seq(Experts) /\ Once(d) /\ Len(d) = Len(c) - 1 /\ Elems(d) = Elems(c) \ {c[k]}
        /\ \A x, y \in Elems(d) : UsedBefore(c, x, y) => UsedBefore(d, x, y)
    BY <1>1, <2>1, DeleteKeeps
  <2> HIDE DEF d
  <2>4. /\ m \in Seq(Experts) /\ Once(m) /\ Len(m) = Len(d) + 1 /\ Elems(m) = Elems(d) \cup {e}
        /\ \A x, y : UsedBefore(d, x, y) => UsedBefore(m, x, y)
        /\ \A x \in Elems(d) : UsedBefore(m, x, e)
    <3>1. e \in Experts /\ e \notin Elems(d)
      BY <2>3
    <3> QED
      BY <2>2, <2>3, <3>1, AppendKeeps
  <2> HIDE DEF m
  <2>5. Len(m) <= Capacity
    BY <1>1, <2>3, <2>4
  <2>6. ASSUME NEW x \in Elems(m) \ ({e} \cup keep), NEW y \in Elems(c), UsedBefore(c, x, y)
        PROVE  y \in Elems(m)
    <3> SUFFICES y # c[k]
      BY <2>3, <2>4
    <3>1. PICK i \in 1..Len(c), j \in 1..Len(c) : i < j /\ c[i] = x /\ c[j] = y
      BY <2>6 DEF UsedBefore
    <3>2. ~(i \in 1..(k - 1))
      BY <2>1, <3>1
    <3>3. j # k
      BY <1>1, <2>1, <3>1, <3>2
    <3> QED
      BY <1>1, <2>1, <3>1, <3>3 DEF Once
  <2>7. m \in Caches
    BY <2>4, <2>5 DEF Caches
  <2>8. e \in Elems(m) /\ Elems(m) \subseteq Elems(c) \cup {e} /\ Elems(c) \cap keep \subseteq Elems(m)
    BY <2>1, <2>3, <2>4
  <2>9. /\ \A x, y \in Elems(m) \ {e} : UsedBefore(c, x, y) => UsedBefore(m, x, y)
        /\ \A x \in Elems(m) \ {e} : UsedBefore(m, x, e)
    BY <2>3, <2>4
  <2> QED
    BY <2>6, <2>7, <2>8, <2>9 DEF m
<1> QED
  BY <1>2, <1>3

LEMMA ElemsAreCounted ==
  ASSUME NEW S, NEW c \in Seq(S), Once(c)
  PROVE  IsFiniteSet(Elems(c)) /\ Cardinality(Elems(c)) = Len(c)
<1>1. /\ Len(c) \in Nat /\ c \in [1..Len(c) -> Elems(c)]
      /\ \A x \in Elems(c) : \E i \in 1..Len(c) : c[i] = x
  BY LenProperties DEF Elems
<1>2. c \in Bijection(1..Len(c), Elems(c))
  BY <1>1 DEF Once, Bijection, Injection, Surjection, IsInjective
<1>3. IsFiniteSet(1..Len(c)) /\ Cardinality(1..Len(c)) = Len(c)
  BY <1>1, FS_Interval
<1>4. ExistsBijection(1..Len(c), Elems(c))
  BY <1>2 DEF ExistsBijection
<1> QED
  BY <1>3, <1>4, FS_Bijection

(* A demand: experts that fit into a cache. *)
Fits(D) == D \subseteq Experts /\ IsFiniteSet(D) /\ Cardinality(D) <= Capacity

LEMMA RoomIsMade ==
  ASSUME NEW c \in Caches, NEW D, Fits(D), NEW e \in D \ Elems(c), Capacity \in Nat
  PROVE  Capacity # 0 /\ (Len(c) >= Capacity => ~(Elems(c) \subseteq D))
<1>1. IsFiniteSet(D \ {e}) /\ Cardinality(D \ {e}) = Cardinality(D) - 1 /\ Cardinality(D) \in Nat
  BY FS_RemoveElement, FS_CardinalityType DEF Fits
<1>2. IsFiniteSet(Elems(c)) /\ Cardinality(Elems(c)) = Len(c) /\ Len(c) \in Nat
  BY ElemsAreCounted, LenProperties DEF Caches
<1>3. Cardinality(D \ {e}) \in Nat
  BY <1>1, FS_CardinalityType
<1>4. Capacity # 0
  BY <1>1, <1>3 DEF Fits
<1>5. ASSUME Elems(c) \subseteq D PROVE Len(c) < Capacity
  <2>1. Elems(c) \in SUBSET (D \ {e})
    BY <1>5
  <2>2. Cardinality(Elems(c)) <= Cardinality(D \ {e})
    BY <1>1, <2>1, FS_Subset
  <2> QED
    BY <1>1, <1>2, <1>3, <2>2 DEF Fits
<1> QED
  BY <1>2, <1>4, <1>5

(***************************************************************************)
(* What a cache d that came from c has to do with it while a demand D is   *)
(* served, of which P has been: the others kept their order, the oldest of *)
(* them went first, and what was served is behind them.                    *)
(***************************************************************************)
Follows(d, c, D, P) ==
    /\ d \in Caches /\ P \subseteq D /\ D \cap (P \cup Elems(c)) \subseteq Elems(d)
    /\ Elems(d) \subseteq Elems(c) \cup P
    /\ \A x \in Elems(d) \ D, y \in Elems(c) \ D :
          UsedBefore(c, x, y) => y \in Elems(d) /\ UsedBefore(d, x, y)
    /\ \A x \in Elems(d) \ D, y \in P : UsedBefore(d, x, y)

LEMMA NothingFollows == ASSUME NEW c \in Caches, NEW D PROVE Follows(c, c, D, {})
  BY DEF Follows

LEMMA MoveFollows ==
  ASSUME NEW c, NEW d, NEW D, NEW P, Follows(d, c, D, P), NEW e \in D \cap Elems(d)
  PROVE  Follows(Simulation!MoveToEnd(d, e), c, D, P \cup {e})
<1> DEFINE m == Simulation!MoveToEnd(d, e)
<1>1. d \in Caches /\ e \in Elems(d)
  BY DEF Follows
<1>2. /\ m \in Caches /\ Elems(m) = Elems(d)
      /\ \A x, y \in Elems(d) \ {e} : UsedBefore(d, x, y) => UsedBefore(m, x, y)
      /\ \A x \in Elems(d) \ {e} : UsedBefore(m, x, e)
  BY <1>1, MoveKeeps
<1> HIDE DEF m
<1>3. ASSUME NEW x \in Elems(m) \ D, NEW y \in Elems(c) \ D, UsedBefore(c, x, y)
      PROVE  y \in Elems(m) /\ UsedBefore(m, x, y)
  BY <1>2, <1>3 DEF Follows
<1>4. ASSUME NEW x \in Elems(m) \ D, NEW y \in P \cup {e} PROVE UsedBefore(m, x, y)
  <2>1. CASE y = e
    BY <1>2, <2>1
  <2>2. CASE y # e
    BY <1>2, <2>2 DEF Follows
  <2> QED
    BY <2>1, <2>2
<1> QED
  BY <1>2, <1>3, <1>4 DEF Follows, m

LEMMA LoadFollows ==
  ASSUME NEW c, NEW d, NEW D, NEW P, Follows(d, c, D, P), NEW e \in D \ Elems(d),
         Fits(D), Capacity \in Nat
  PROVE  Follows(Simulation!Load(d, e, D), c, D, P \cup {e})
<1> DEFINE m == Simulation!Load(d, e, D)
<1>1. d \in Caches /\ e \in Experts \ Elems(d)
  BY DEF Follows, Fits
<1>2. Capacity \in Nat \ {0} /\ (Len(d) >= Capacity => ~(Elems(d) \subseteq D))
  BY <1>1, RoomIsMade
<1>3. /\ m \in Caches /\ e \in Elems(m) /\ Elems(m) \subseteq Elems(d) \cup {e}
      /\ Elems(d) \cap D \subseteq Elems(m)
      /\ \A x, y \in Elems(m) \ {e} : UsedBefore(d, x, y) => UsedBefore(m, x, y)
      /\ \A x \in Elems(m) \ {e} : UsedBefore(m, x, e)
      /\ \A x \in Elems(m) \ ({e} \cup D), y \in Elems(d) : UsedBefore(d, x, y) => y \in Elems(m)
  BY <1>1, <1>2, LoadKeeps
<1> HIDE DEF m
<1>4. ASSUME NEW x \in Elems(m) \ D, NEW y \in Elems(c) \ D, UsedBefore(c, x, y)
      PROVE  y \in Elems(m) /\ UsedBefore(m, x, y)
  <2>1. x \in Elems(d) \ D /\ x # e /\ y # e
    BY <1>3
  <2>2. y \in Elems(d) /\ UsedBefore(d, x, y)
    BY <1>4, <2>1 DEF Follows
  <2> QED
    BY <1>3, <2>1, <2>2
<1>5. P \cup {e} \subseteq Elems(m) /\ Elems(m) \subseteq Elems(c) \cup P \cup {e}
  BY <1>3 DEF Follows
<1>6. ASSUME NEW x \in Elems(m) \ D, NEW y \in P \cup {e} PROVE UsedBefore(m, x, y)
  <2>1. CASE y = e
    BY <1>3, <2>1
  <2>2. CASE y # e
    BY <1>3, <2>2 DEF Follows
  <2> QED
    BY <2>1, <2>2
<1> QED
  BY <1>3, <1>4, <1>5, <1>6 DEF Follows, m

LEMMA CacheNumbers ==
  ASSUME Simulation!CacheSimulationAssumption
  PROVE  /\ Capacity \in Nat /\ TopK \in Nat /\ TopK <= Capacity /\ IsFiniteSet(Experts)
         /\ Experts \subseteq Nat /\ MaxTransfers \in Nat /\ StepEvents \in Nat /\ MaxCount \in Nat
<1>1. Simulation!IsFiniteSet(Experts) => IsFiniteSet(Experts)
  BY DEF Simulation!IsFiniteSet, IsFiniteSet
<1> QED
  BY <1>1 DEF Simulation!CacheSimulationAssumption

LEMMA DemandFits ==
  ASSUME Simulation!CacheSimulationAssumption, NEW demand \in Simulation!Demands
  PROVE  /\ demand \in Seq(Experts) /\ Once(demand) /\ Len(demand) \in 1..TopK
         /\ Simulation!Range(demand) = Elems(demand) /\ Fits(Elems(demand))
<1>1. PICK k \in 1..TopK : demand \in [1..k -> Experts] /\ Simulation!IsInjective(demand)
  BY DEF Simulation!Demands
<1>2. k \in Nat /\ demand \in Seq(Experts) /\ Len(demand) = k
  BY <1>1, CacheNumbers, IsASeq
<1>3. Once(demand) /\ Simulation!Range(demand) = Elems(demand)
  BY <1>1, <1>2, OnceIsInjective, ElemsAreRange
<1>4. IsFiniteSet(Elems(demand)) /\ Cardinality(Elems(demand)) = k
  BY <1>2, <1>3, ElemsAreCounted
<1>5. Elems(demand) \subseteq Experts
  BY <1>2, ElementOfSeq DEF Elems
<1> QED
  BY <1>1, <1>2, <1>3, <1>4, <1>5, CacheNumbers DEF Fits

Served(demand, n) == {demand[i] : i \in 1..n}

LEMMA ServeOne ==
  ASSUME NEW demand, NEW n \in 1..Len(demand), Len(demand) \in Nat
  PROVE  Served(demand, n) = Served(demand, n - 1) \cup {demand[n]}
  BY DEF Served

(* _consume_demand *)
LEMMA DemandFollows ==
  ASSUME Simulation!CacheSimulationAssumption, NEW demand \in Simulation!Demands, NEW c \in Caches
  PROVE  Follows(Simulation!AfterDemand(c, demand), c, Elems(demand), Elems(demand))
<1> DEFINE L == Len(demand)
           D == Elems(demand)
           One(s, n) == IF demand[n] \in Simulation!Range(s) THEN Simulation!MoveToEnd(s, demand[n])
                        ELSE Simulation!Load(s, demand[n], Simulation!Range(demand))
           Body(g) == [n \in 0..L |-> IF n = 0 THEN c ELSE One(g[n - 1], n)]
           T == [n \in 0..L |-> {d \in Caches : Follows(d, c, D, Served(demand, n))}]
           after[n \in 0..Len(demand)] ==
             IF n = 0 THEN c
             ELSE IF demand[n] \in Simulation!Range(after[n - 1])
                  THEN Simulation!MoveToEnd(after[n - 1], demand[n])
                  ELSE Simulation!Load(after[n - 1], demand[n], Simulation!Range(demand))
<1>1. Simulation!AfterDemand(c, demand) = after[L]
  BY DEF Simulation!AfterDemand
<1>2. (\E g : g = Body(g)) => after = Body(after)
  OBVIOUS
<1> HIDE DEF after
<1>3. /\ demand \in Seq(Experts) /\ L \in Nat /\ Simulation!Range(demand) = D /\ Fits(D) /\ Capacity \in Nat
      /\ Served(demand, 0) = {} /\ Served(demand, L) = D
  <2>1. Served(demand, 0) = {} /\ Served(demand, L) = D
    BY DEF Served, Elems
  <2> QED
    BY <2>1, DemandFits, CacheNumbers, LenProperties
<1>4. ASSUME NEW n \in 1..L, NEW d \in T[n - 1] PROVE One(d, n) \in T[n]
  <2>1. d \in Caches /\ Follows(d, c, D, Served(demand, n - 1)) /\ demand[n] \in D
    BY <1>3, <1>4 DEF Elems
  <2>2. Simulation!Range(d) = Elems(d)
    BY <2>1, ElemsAreRange DEF Caches
  <2>3. Follows(One(d, n), c, D, Served(demand, n - 1) \cup {demand[n]})
    <3>1. CASE demand[n] \in Elems(d)
      BY <2>1, <2>2, <3>1, MoveFollows
    <3>2. CASE demand[n] \notin Elems(d)
      BY <1>3, <2>1, <2>2, <3>2, LoadFollows
    <3> QED
      BY <3>1, <3>2
  <2>4. Follows(One(d, n), c, D, Served(demand, n)) /\ One(d, n) \in Caches
    BY <1>3, <2>3, ServeOne DEF Follows
  <2> HIDE DEF One
  <2> QED
    BY <1>3, <2>4
<1>5. c \in T[0]
  BY <1>3, NothingFollows
<1>6. \E g : g = Body(g)
  <2> DEFINE op == [n \in 1..L |-> [d \in T[n - 1] |-> One(d, n)]]
  <2> HIDE DEF One, T, L
  <2>1. \A n \in 1..L : \A d \in T[n - 1] : op[n][d] = One(d, n) /\ op[n][d] \in T[n]
    BY <1>4
  <2> HIDE DEF op
  <2>2. PICK g : FoldOf(g, c, op, T, L)
    <3>1. L \in Nat /\ c \in T[0] /\ StayIn(op, T, L)
      BY <1>3, <1>5, <2>1 DEF StayIn
    <3> QED
      BY <3>1, FoldExists
  <2>3. \A n \in 0..L : g[n] = IF n = 0 THEN c ELSE One(g[n - 1], n)
    <3> TAKE n \in 0..L
    <3>1. CASE n = 0
      BY <2>2, <3>1 DEF FoldOf
    <3>2. CASE n # 0
      <4>1. n \in 1..L /\ g[n - 1] \in T[n - 1] /\ g[n] = op[n][g[n - 1]]
        BY <1>3, <2>2, <3>2 DEF FoldOf
      <4> QED
        BY <2>1, <3>2, <4>1
    <3> QED
      BY <3>1, <3>2
  <2> QED
    BY <2>2, <2>3 DEF FoldOf
<1>7. after = Body(after)
  BY <1>2, <1>6
<1>8. after[L] \in T[L]
  <2> HIDE DEF One, T
  <2>1. after[0] = c /\ \A n \in 1..L : after[n] = One(after[n - 1], n)
    BY <1>3, <1>7
  <2>2. \A n \in 1..L : after[n - 1] \in T[n - 1] => after[n] \in T[n]
    BY <1>4, <2>1
  <2>3. \A n \in 0..L : after[n] \in T[n]
    BY <1>3, <1>5, <2>1, <2>2, FoldKeeps
  <2> QED
    BY <1>3, <2>3
<1> QED
  BY <1>1, <1>3, <1>8

(* policy_outcomes *)
LEMMA PolicyFollows ==
  ASSUME Simulation!CacheSimulationAssumption, NEW demand \in Simulation!Demands, NEW c \in Caches
  PROVE  Follows(Simulation!AfterPolicy(c, demand), c, Elems(demand), Elems(demand))
<1> DEFINE L == Len(demand)
           D == Elems(demand)
           Move(s, n) == IF demand[n] \in Simulation!Range(c) THEN Simulation!MoveToEnd(s, demand[n]) ELSE s
           MoveAll(g) == [n \in 0..L |-> IF n = 0 THEN c ELSE Move(g[n - 1], n)]
           Hits == [n \in 0..L |-> {d \in Caches : Follows(d, c, D, Served(demand, n) \cap Elems(c))}]
           Loads == [n \in 0..L |->
                       {d \in Caches : Follows(d, c, D, Served(demand, n) \cup (D \cap Elems(c)))}]
           moved[n \in 0..Len(demand)] ==
             IF n = 0 THEN c
             ELSE IF demand[n] \in Simulation!Range(c)
                  THEN Simulation!MoveToEnd(moved[n - 1], demand[n]) ELSE moved[n - 1]
           Put(s, n) == IF demand[n] \in Simulation!Blocking(c, demand)
                        THEN Simulation!Load(s, demand[n], Simulation!Range(demand)) ELSE s
           PutAll(g) == [n \in 0..L |-> IF n = 0 THEN moved[L] ELSE Put(g[n - 1], n)]
           loaded[n \in 0..Len(demand)] ==
             IF n = 0 THEN moved[Len(demand)]
             ELSE IF demand[n] \in Simulation!Blocking(c, demand)
                  THEN Simulation!Load(loaded[n - 1], demand[n], Simulation!Range(demand)) ELSE loaded[n - 1]
<1>1. Simulation!AfterPolicy(c, demand) = loaded[L]
  BY DEF Simulation!AfterPolicy
<1>2. ((\E g : g = MoveAll(g)) => moved = MoveAll(moved)) /\ ((\E g : g = PutAll(g)) => loaded = PutAll(loaded))
  OBVIOUS
<1> HIDE DEF moved, loaded
<1>3. /\ demand \in Seq(Experts) /\ Once(demand) /\ L \in Nat /\ Simulation!Range(demand) = D
      /\ Fits(D) /\ Capacity \in Nat /\ Simulation!Range(c) = Elems(c)
      /\ Simulation!Blocking(c, demand) = D \ Elems(c)
      /\ Served(demand, 0) = {} /\ Served(demand, L) = D
  <2>1. Served(demand, 0) = {} /\ Served(demand, L) = D
    BY DEF Served, Elems
  <2>2. Simulation!Range(c) = Elems(c)
    BY ElemsAreRange DEF Caches
  <2> QED
    BY <2>1, <2>2, DemandFits, CacheNumbers, LenProperties DEF Simulation!Blocking
<1>4. ASSUME NEW n \in 1..L, NEW d \in Hits[n - 1] PROVE Move(d, n) \in Hits[n]
  <2>1. d \in Caches /\ Follows(d, c, D, Served(demand, n - 1) \cap Elems(c)) /\ demand[n] \in D
    BY <1>3, <1>4 DEF Elems
  <2>2. Served(demand, n) = Served(demand, n - 1) \cup {demand[n]}
    BY <1>3, ServeOne
  <2>3. Follows(Move(d, n), c, D, Served(demand, n) \cap Elems(c))
    <3>1. CASE demand[n] \in Elems(c)
      <4>1. demand[n] \in D \cap Elems(d)
        BY <2>1, <3>1 DEF Follows
      <4>2. Follows(Move(d, n), c, D, (Served(demand, n - 1) \cap Elems(c)) \cup {demand[n]})
        BY <1>3, <2>1, <3>1, <4>1, MoveFollows
      <4>3. (Served(demand, n - 1) \cap Elems(c)) \cup {demand[n]} = Served(demand, n) \cap Elems(c)
        BY <2>2, <3>1
      <4> QED
        BY <4>2, <4>3
    <3>2. CASE demand[n] \notin Elems(c)
      <4>1. Served(demand, n - 1) \cap Elems(c) = Served(demand, n) \cap Elems(c)
        BY <2>2, <3>2
      <4> QED
        BY <1>3, <2>1, <3>2, <4>1
    <3> QED
      BY <3>1, <3>2
  <2>4. Move(d, n) \in Caches
    BY <2>3 DEF Follows
  <2> HIDE DEF Move
  <2> QED
    BY <1>3, <2>3, <2>4
<1>5. c \in Hits[0]
  <2>1. Served(demand, 0) \cap Elems(c) = {} /\ Follows(c, c, D, {})
    BY <1>3, NothingFollows
  <2>2. Follows(c, c, D, Served(demand, 0) \cap Elems(c))
    BY <2>1
  <2> QED
    BY <1>3, <2>2
<1>6. \E g : g = MoveAll(g)
  <2> DEFINE op == [n \in 1..L |-> [d \in Hits[n - 1] |-> Move(d, n)]]
  <2> HIDE DEF Move, Hits, L
  <2>1. \A n \in 1..L : \A d \in Hits[n - 1] : op[n][d] = Move(d, n) /\ op[n][d] \in Hits[n]
    BY <1>4
  <2> HIDE DEF op
  <2>2. PICK g : FoldOf(g, c, op, Hits, L)
    <3>1. L \in Nat /\ c \in Hits[0] /\ StayIn(op, Hits, L)
      BY <1>3, <1>5, <2>1 DEF StayIn
    <3> QED
      BY <3>1, FoldExists
  <2>3. \A n \in 0..L : g[n] = IF n = 0 THEN c ELSE Move(g[n - 1], n)
    <3> TAKE n \in 0..L
    <3>1. CASE n = 0
      BY <2>2, <3>1 DEF FoldOf
    <3>2. CASE n # 0
      <4>1. n \in 1..L /\ g[n - 1] \in Hits[n - 1] /\ g[n] = op[n][g[n - 1]]
        BY <1>3, <2>2, <3>2 DEF FoldOf
      <4> QED
        BY <2>1, <3>2, <4>1
    <3> QED
      BY <3>1, <3>2
  <2> QED
    BY <2>2, <2>3 DEF FoldOf
<1>7. moved[L] \in Hits[L]
  <2>0. moved = MoveAll(moved)
    BY <1>2, <1>6
  <2> HIDE DEF Move, Hits
  <2>1. moved[0] = c /\ \A n \in 1..L : moved[n] = Move(moved[n - 1], n)
    BY <1>3, <2>0
  <2>2. \A n \in 1..L : moved[n - 1] \in Hits[n - 1] => moved[n] \in Hits[n]
    BY <1>4, <2>1
  <2>3. \A n \in 0..L : moved[n] \in Hits[n]
    BY <1>3, <1>5, <2>1, <2>2, FoldKeeps
  <2> QED
    BY <1>3, <2>3
<1>8. moved[L] \in Loads[0]
  <2>1. Served(demand, L) \cap Elems(c) = Served(demand, 0) \cup (D \cap Elems(c))
    BY <1>3
  <2>2. moved[L] \in Caches /\ Follows(moved[L], c, D, Served(demand, L) \cap Elems(c))
    BY <1>3, <1>7
  <2>3. Follows(moved[L], c, D, Served(demand, 0) \cup (D \cap Elems(c)))
    BY <2>1, <2>2
  <2> QED
    BY <1>3, <2>2, <2>3
<1>9. ASSUME NEW n \in 1..L, NEW d \in Loads[n - 1] PROVE Put(d, n) \in Loads[n]
  <2> DEFINE P == Served(demand, n - 1) \cup (D \cap Elems(c))
  <2>1. d \in Caches /\ Follows(d, c, D, P) /\ demand[n] \in D
    BY <1>3, <1>9 DEF Elems
  <2>2. Served(demand, n) \cup (D \cap Elems(c)) = P \cup {demand[n]}
    BY <1>3, ServeOne
  <2>3. demand[n] \notin Served(demand, n - 1)
    BY <1>3 DEF Once, Served
  <2>4. Follows(Put(d, n), c, D, P \cup {demand[n]})
    <3>1. CASE demand[n] \in D \ Elems(c)
      <4>1. demand[n] \in D \ Elems(d)
        BY <2>1, <2>3, <3>1 DEF Follows
      <4> QED
        BY <1>3, <2>1, <3>1, <4>1, LoadFollows
    <3>2. CASE demand[n] \notin D \ Elems(c)
      <4>1. P \cup {demand[n]} = P
        BY <2>1, <3>2
      <4> QED
        BY <1>3, <2>1, <3>2, <4>1
    <3> QED
      BY <3>1, <3>2
  <2>5. Put(d, n) \in Caches
    BY <2>4 DEF Follows
  <2> HIDE DEF Put
  <2> QED
    BY <1>3, <2>2, <2>4, <2>5
<1>10. \E g : g = PutAll(g)
  <2> DEFINE op == [n \in 1..L |-> [d \in Loads[n - 1] |-> Put(d, n)]]
  <2> HIDE DEF Put, Loads, L
  <2>1. \A n \in 1..L : \A d \in Loads[n - 1] : op[n][d] = Put(d, n) /\ op[n][d] \in Loads[n]
    BY <1>9
  <2> HIDE DEF op
  <2>2. PICK g : FoldOf(g, moved[L], op, Loads, L)
    <3>1. L \in Nat /\ moved[L] \in Loads[0] /\ StayIn(op, Loads, L)
      BY <1>3, <1>8, <2>1 DEF StayIn
    <3> QED
      BY <3>1, FoldExists
  <2>3. \A n \in 0..L : g[n] = IF n = 0 THEN moved[L] ELSE Put(g[n - 1], n)
    <3> TAKE n \in 0..L
    <3>1. CASE n = 0
      BY <2>2, <3>1 DEF FoldOf
    <3>2. CASE n # 0
      <4>1. n \in 1..L /\ g[n - 1] \in Loads[n - 1] /\ g[n] = op[n][g[n - 1]]
        BY <1>3, <2>2, <3>2 DEF FoldOf
      <4> QED
        BY <2>1, <3>2, <4>1
    <3> QED
      BY <3>1, <3>2
  <2> QED
    BY <2>2, <2>3 DEF FoldOf
<1>11. loaded[L] \in Loads[L]
  <2>0. loaded = PutAll(loaded)
    BY <1>2, <1>10
  <2> HIDE DEF Put, Loads
  <2>1. loaded[0] = moved[L] /\ \A n \in 1..L : loaded[n] = Put(loaded[n - 1], n)
    BY <1>3, <2>0
  <2>2. \A n \in 1..L : loaded[n - 1] \in Loads[n - 1] => loaded[n] \in Loads[n]
    BY <1>9, <2>1
  <2>3. \A n \in 0..L : loaded[n] \in Loads[n]
    BY <1>3, <1>8, <2>1, <2>2, FoldKeeps
  <2> QED
    BY <1>3, <2>3
<1>12. Served(demand, L) \cup (D \cap Elems(c)) = D
  BY <1>3
<1>13. Follows(loaded[L], c, D, Served(demand, L) \cup (D \cap Elems(c)))
  BY <1>3, <1>11
<1> QED
  BY <1>1, <1>12, <1>13

-----------------------------------------------------------------------------
(* The order in which candidates are transferred *)

LEMMA CacheCardinality == \A S : Simulation!Cardinality(S) = Cardinality(S)
  BY DEF Simulation!Cardinality, Cardinality

AheadOf(score, e, S) == {d \in S : Simulation!Ahead(score, d, e)}

LEMMA RanksDiffer ==
  ASSUME NEW S, IsFiniteSet(S), S \subseteq Nat, NEW score, \A e \in S : score[e] \in Nat,
         NEW d \in S, NEW e \in S, d # e
  PROVE  /\ Simulation!Ahead(score, d, e) \/ Simulation!Ahead(score, e, d)
         /\ Simulation!Ahead(score, d, e) => Simulation!Rank(score, d, S) < Simulation!Rank(score, e, S)
<1>1. /\ score[d] \in Nat /\ score[e] \in Nat /\ d \in Nat /\ e \in Nat
  OBVIOUS
<1>2. Simulation!Ahead(score, d, e) \/ Simulation!Ahead(score, e, d)
  BY <1>1 DEF Simulation!Ahead
<1>3. ASSUME Simulation!Ahead(score, d, e)
      PROVE  Simulation!Rank(score, d, S) < Simulation!Rank(score, e, S)
  <2> DEFINE A == AheadOf(score, d, S)
             B == AheadOf(score, e, S)
  <2>1. Simulation!Rank(score, d, S) = Cardinality(A) /\ Simulation!Rank(score, e, S) = Cardinality(B)
    BY CacheCardinality DEF Simulation!Rank, AheadOf
  <2>2. A \subseteq B /\ d \in B /\ d \notin A
    <3>1. ASSUME NEW x \in A PROVE x \in B
      <4>1. x \in S /\ score[x] \in Nat /\ x \in Nat /\ Simulation!Ahead(score, x, d)
        BY DEF AheadOf
      <4> QED
        BY <1>1, <1>3, <4>1 DEF Simulation!Ahead, AheadOf
    <3>2. d \in B /\ d \notin A
      BY <1>1, <1>3 DEF Simulation!Ahead, AheadOf
    <3> QED
      BY <3>1, <3>2
  <2>3. A \in SUBSET S /\ B \in SUBSET S
    BY DEF AheadOf
  <2> HIDE DEF A, B
  <2>4. IsFiniteSet(A) /\ IsFiniteSet(B)
    BY <2>3, FS_Subset
  <2>5. Cardinality(A) \in Nat /\ Cardinality(B) \in Nat
    BY <2>4, FS_CardinalityType
  <2>6. Cardinality(A) <= Cardinality(B) /\ (Cardinality(B) = Cardinality(A) => B = A)
    BY <2>2, <2>4, FS_Subset
  <2> QED
    BY <2>1, <2>2, <2>5, <2>6
<1> QED
  BY <1>2, <1>3

(* There is a candidate of every rank. *)
LEMMA RanksAreTaken ==
  ASSUME NEW S, IsFiniteSet(S), S \subseteq Nat, NEW score, \A e \in S : score[e] \in Nat,
         NEW n \in 1..Cardinality(S)
  PROVE  \E e \in S : Simulation!Rank(score, e, S) = n - 1
<1> DEFINE N == Cardinality(S)
           ranks == [e \in S |-> Simulation!Rank(score, e, S)]
<1>1. N \in Nat
  BY FS_CardinalityType
<1>2. \A e \in S : Simulation!Rank(score, e, S) \in 0..(N - 1)
  <2> TAKE e \in S
  <2>1. Simulation!Rank(score, e, S) = Cardinality(AheadOf(score, e, S))
    BY CacheCardinality DEF Simulation!Rank, AheadOf
  <2>2. AheadOf(score, e, S) \in SUBSET (S \ {e})
    BY DEF AheadOf, Simulation!Ahead
  <2>3. IsFiniteSet(S \ {e}) /\ Cardinality(S \ {e}) = N - 1
    BY FS_RemoveElement
  <2>4. IsFiniteSet(AheadOf(score, e, S)) /\ Cardinality(AheadOf(score, e, S)) <= N - 1
    BY <2>2, <2>3, FS_Subset
  <2>5. Cardinality(AheadOf(score, e, S)) \in Nat
    BY <2>4, FS_CardinalityType
  <2> QED
    BY <1>1, <2>1, <2>4, <2>5
<1>3. \A d, e \in S : Simulation!Rank(score, d, S) = Simulation!Rank(score, e, S) => d = e
  <2> SUFFICES ASSUME NEW d \in S, NEW e \in S, d # e
               PROVE  Simulation!Rank(score, d, S) # Simulation!Rank(score, e, S)
    OBVIOUS
  <2>1. \/ Simulation!Rank(score, d, S) < Simulation!Rank(score, e, S)
        \/ Simulation!Rank(score, e, S) < Simulation!Rank(score, d, S)
    BY RanksDiffer
  <2>2. Simulation!Rank(score, d, S) \in Nat /\ Simulation!Rank(score, e, S) \in Nat
    BY <1>1, <1>2
  <2> QED
    BY <2>1, <2>2
<1>4. ranks \in Injection(S, 0..(N - 1))
  BY <1>2, <1>3 DEF Injection, IsInjective
<1>5. IsFiniteSet(0..(N - 1)) /\ Cardinality(0..(N - 1)) = N
  <2>1. 0 \in Int /\ N - 1 \in Int
    BY <1>1
  <2> HIDE DEF N
  <2> QED
    BY <1>1, <2>1, FS_Interval
<1>6. ranks \in Surjection(S, 0..(N - 1))
  BY <1>4, <1>5, FS_Injection
<1>7. n - 1 \in 0..(N - 1)
  BY <1>1
<1> HIDE DEF N
<1> QED
  BY <1>6, <1>7 DEF Surjection

LEMMA CandidatesAreRanked ==
  ASSUME Simulation!CacheSimulationAssumption, counts \in [Experts -> 0..MaxCount],
         simulation \in Simulation!Predictions, NEW n \in Nat \ {0}, NEW events \in [1..n -> Simulation!Demands]
  PROVE  /\ Simulation!Ranked(events) \in Seq(Experts)
         /\ simulation = "none" => Len(Simulation!Ranked(events)) = 0
<1> DEFINE score == Simulation!Score(events)
           S == {e \in Experts : score[e] > 0 /\ e \notin Simulation!Range(cache)}
<1>1. \A e \in Experts : score[e] \in Nat /\ (simulation = "none" => score[e] = 0)
  <2> TAKE e \in Experts
  <2>1. CASE simulation = "none"
    BY <2>1 DEF Simulation!Score
  <2>2. CASE simulation = "frequency"
    BY <2>2, CacheNumbers DEF Simulation!Score
  <2>3. CASE simulation = "oracle"
    <3> DEFINE I == {i \in DOMAIN events : e \in Simulation!Range(events[i])}
    <3>1. I \in SUBSET (1..n) /\ IsFiniteSet(1..n)
      BY FS_Interval
    <3>2. score[e] = Cardinality(I)
      BY <2>3, CacheCardinality DEF Simulation!Score
    <3> HIDE DEF I
    <3> QED
      BY <2>3, <3>1, <3>2, FS_Subset, FS_CardinalityType
  <2> QED
    BY <2>1, <2>2, <2>3 DEF Simulation!Predictions
<1>2. S \in SUBSET Experts /\ IsFiniteSet(Experts) /\ Experts \subseteq Nat
  BY CacheNumbers
<1>3. IsFiniteSet(S)
  BY <1>2, FS_Subset
<1>4. /\ Cardinality(S) \in Nat
      /\ Simulation!Ranked(events)
            = [k \in 1..Cardinality(S) |-> CHOOSE e \in S : Simulation!Rank(score, e, S) = k - 1]
  BY <1>3, FS_CardinalityType, CacheCardinality DEF Simulation!Ranked
<1>5. \A e \in S : score[e] \in Nat
  BY <1>1
<1>6. simulation = "none" => S = {}
  BY <1>1
<1> HIDE DEF score, S
<1>7. \A k \in 1..Cardinality(S) : \E e \in S : Simulation!Rank(score, e, S) = k - 1
  BY <1>2, <1>3, <1>5, RanksAreTaken
<1>8. \A k \in 1..Cardinality(S) : Simulation!Ranked(events)[k] \in Experts
  BY <1>2, <1>4, <1>7
<1>9. Simulation!Ranked(events) \in Seq(Experts) /\ Len(Simulation!Ranked(events)) = Cardinality(S)
  BY <1>4, <1>8, IsASeq
<1> QED
  BY <1>6, <1>9, FS_EmptySet

-----------------------------------------------------------------------------
(* What the transfers of a step keep *)

TransferStates(share, wanted) ==
    {s \in [cache : Caches, sent : SUBSET Experts, budget : 0..share] :
        /\ Cardinality(s.sent) + s.budget <= share
        /\ Elems(cache) \cap wanted \subseteq Elems(s.cache)}

LEMMA TransferKeeps ==
  ASSUME Simulation!CacheSimulationAssumption, NEW share \in Nat, NEW wanted,
         NEW s \in TransferStates(share, wanted), NEW e \in Experts
  PROVE  Simulation!Transfer(s, e, wanted) \in TransferStates(share, wanted)
<1> DEFINE keep == s.sent \cup wanted
           m == Simulation!Load(s.cache, e, keep)
<1>1. /\ s.cache \in Caches /\ s.sent \in SUBSET Experts /\ s.budget \in 0..share
      /\ Cardinality(s.sent) + s.budget <= share /\ Elems(cache) \cap wanted \subseteq Elems(s.cache)
  BY DEF TransferStates
<1>2. Simulation!Range(s.cache) = Elems(s.cache) /\ Len(s.cache) \in Nat
  BY <1>1, ElemsAreRange, LenProperties DEF Caches
<1>3. CASE Simulation!Transfer(s, e, wanted) = s
  BY <1>3
<1>4. CASE Simulation!Transfer(s, e, wanted) # s
  <2>1. /\ s.budget # 0 /\ e \notin Elems(s.cache)
        /\ Len(s.cache) >= Capacity => ~(Elems(s.cache) \subseteq keep)
        /\ Simulation!Transfer(s, e, wanted) =
             [cache |-> m, sent |-> s.sent \cup {e}, budget |-> s.budget - 1]
    BY <1>2, <1>4 DEF Simulation!Transfer
  <2>2. Capacity \in Nat \ {0}
    BY DEF Simulation!CacheSimulationAssumption
  <2>3. m \in Caches /\ e \in Elems(m) /\ Elems(s.cache) \cap keep \subseteq Elems(m)
    <3> HIDE DEF keep
    <3> QED
      BY <1>1, <2>1, <2>2, LoadKeeps
  <2>4. IsFiniteSet(s.sent)
    BY <1>1, CacheNumbers, FS_Subset
  <2>5. /\ IsFiniteSet(s.sent \cup {e}) /\ Cardinality(s.sent) \in Nat
        /\ Cardinality(s.sent \cup {e}) <= Cardinality(s.sent) + 1
        /\ Cardinality(s.sent \cup {e}) \in Nat
    <3>1. IsFiniteSet(s.sent \cup {e}) /\ Cardinality(s.sent) \in Nat
      BY <2>4, FS_AddElement, FS_CardinalityType
    <3>2. Cardinality(s.sent \cup {e}) = IF e \in s.sent THEN Cardinality(s.sent) ELSE Cardinality(s.sent) + 1
      BY <2>4, FS_AddElement
    <3> QED
      BY <3>1, <3>2
  <2>6. s.budget - 1 \in 0..share /\ Cardinality(s.sent \cup {e}) + (s.budget - 1) <= share
    BY <1>1, <2>1, <2>5
  <2> HIDE DEF m
  <2>7. Elems(cache) \cap wanted \subseteq Elems(m)
    BY <1>1, <2>3
  <2> DEFINE r == [cache |-> m, sent |-> s.sent \cup {e}, budget |-> s.budget - 1]
  <2>8. r \in [cache : Caches, sent : SUBSET Experts, budget : 0..share]
    BY <1>1, <2>3, <2>6
  <2>9. r.cache = m /\ r.sent = s.sent \cup {e} /\ r.budget = s.budget - 1
    OBVIOUS
  <2> HIDE DEF r
  <2>10. r \in TransferStates(share, wanted)
    BY <2>6, <2>7, <2>8, <2>9 DEF TransferStates
  <2> QED
    BY <2>1, <2>10 DEF r
<1> QED
  BY <1>3, <1>4

LEMMA TransfersKeep ==
  ASSUME Simulation!CacheSimulationAssumption, NEW share \in Nat, NEW wanted, cache \in Caches,
         NEW ranked \in Seq(Experts)
  PROVE  /\ Simulation!AfterTransfers(share, ranked, wanted) \in TransferStates(share, wanted)
         /\ Len(ranked) = 0 => Simulation!AfterTransfers(share, ranked, wanted).cache = cache
<1> DEFINE L == Len(ranked)
           first == [cache |-> cache, sent |-> {}, budget |-> share]
           One(s, n) == Simulation!Transfer(s, ranked[n], wanted)
           Body(g) == [n \in 0..L |-> IF n = 0 THEN first ELSE One(g[n - 1], n)]
           T == [n \in 0..L |-> TransferStates(share, wanted)]
           after[n \in 0..Len(ranked)] ==
             IF n = 0 THEN [cache |-> cache, sent |-> {}, budget |-> share]
             ELSE Simulation!Transfer(after[n - 1], ranked[n], wanted)
<1>1. Simulation!AfterTransfers(share, ranked, wanted) = after[L]
  BY DEF Simulation!AfterTransfers
<1>2. (\E g : g = Body(g)) => after = Body(after)
  OBVIOUS
<1> HIDE DEF after
<1>3. L \in Nat /\ \A n \in 1..L : ranked[n] \in Experts
  BY LenProperties, ElementOfSeq
<1>4. ASSUME NEW n \in 1..L, NEW s \in T[n - 1] PROVE One(s, n) \in T[n]
  BY <1>3, <1>4, TransferKeeps
<1>5. first \in T[0]
  <2>1. first \in TransferStates(share, wanted)
    <3>1. first \in [cache : Caches, sent : SUBSET Experts, budget : 0..share]
      OBVIOUS
    <3>2. first.cache = cache /\ first.sent = {} /\ first.budget = share
      OBVIOUS
    <3> HIDE DEF first
    <3>3. Cardinality(first.sent) = 0
      BY <3>2, FS_EmptySet
    <3>4. Cardinality(first.sent) + first.budget <= share
      BY <3>2, <3>3
    <3>5. Elems(cache) \cap wanted \subseteq Elems(first.cache)
      BY <3>2
    <3> QED
      BY <3>1, <3>4, <3>5 DEF TransferStates
  <2> QED
    BY <1>3, <2>1
<1>6. \E g : g = Body(g)
  <2> DEFINE op == [n \in 1..L |-> [s \in T[n - 1] |-> One(s, n)]]
  <2> HIDE DEF One, T, L, first
  <2>1. \A n \in 1..L : \A s \in T[n - 1] : op[n][s] = One(s, n) /\ op[n][s] \in T[n]
    BY <1>4
  <2> HIDE DEF op
  <2>2. PICK g : FoldOf(g, first, op, T, L)
    <3>1. L \in Nat /\ first \in T[0] /\ StayIn(op, T, L)
      BY <1>3, <1>5, <2>1 DEF StayIn
    <3> QED
      BY <3>1, FoldExists
  <2>3. \A n \in 0..L : g[n] = IF n = 0 THEN first ELSE One(g[n - 1], n)
    <3> TAKE n \in 0..L
    <3>1. CASE n = 0
      BY <2>2, <3>1 DEF FoldOf
    <3>2. CASE n # 0
      <4>1. n \in 1..L /\ g[n - 1] \in T[n - 1] /\ g[n] = op[n][g[n - 1]]
        BY <1>3, <2>2, <3>2 DEF FoldOf
      <4> QED
        BY <2>1, <3>2, <4>1
    <3> QED
      BY <3>1, <3>2
  <2> QED
    BY <2>2, <2>3 DEF FoldOf
<1>7. after[0] = first /\ after[L] \in T[L]
  <2> HIDE DEF One, T, first
  <2>1. after = Body(after)
    BY <1>2, <1>6
  <2>2. after[0] = first /\ \A n \in 1..L : after[n] = One(after[n - 1], n)
    BY <1>3, <2>1
  <2>3. \A n \in 1..L : after[n - 1] \in T[n - 1] => after[n] \in T[n]
    BY <1>4, <2>2
  <2>4. \A n \in 0..L : after[n] \in T[n]
    BY <1>3, <1>5, <2>2, <2>3, FoldKeeps
  <2> QED
    BY <1>3, <2>2, <2>4
<1> QED
  BY <1>1, <1>3, <1>7

-----------------------------------------------------------------------------
(* The invariant of the simulated cache *)

Simulations == {"lru", "static_hotset", "none", "oracle", "frequency"}

CacheIsTyped ==
    /\ simulation \in Simulations /\ cache \in Caches
    /\ counts \in [Experts -> 0..MaxCount] /\ queue \in Seq(Simulation!Demands)
    /\ simulation \in {"lru", "static_hotset"} => queue = <<>>
    /\ missed \in Nat /\ wouldMiss \in Nat
TransfersAreTyped ==
    issued \subseteq Experts /\ useful \subseteq issued /\ Cardinality(issued) <= MaxTransfers
(* Experts are in the cache in the order of their last uses. *)
UsesAreOrdered ==
    /\ DOMAIN fresher \subseteq Experts /\ fresher \in [DOMAIN fresher -> SUBSET DOMAIN fresher]
    /\ simulation \notin {"lru", "none"} => DOMAIN fresher = {}
    /\ \A e \in DOMAIN fresher :
          /\ fresher[e] = {} => e \in Elems(cache)
          /\ e \in Elems(cache) => \A y \in fresher[e] : y \in Elems(cache) /\ UsedBefore(cache, e, y)
CacheInv == Simulation!CacheSimulationAssumption /\ CacheIsTyped /\ TransfersAreTyped /\ UsesAreOrdered

LEMMA CacheInit == ASSUME Simulation!CacheSimulationAssumption, Simulation!Init PROVE CacheInv
<1>1. <<>> \in Caches /\ Elems(<<>>) = {}
  <2>1. <<>> \in Seq(Experts) /\ Len(<<>>) = 0
    BY EmptySeq
  <2> QED
    BY <2>1, CacheNumbers DEF Caches, Once, Elems
<1>2. CacheIsTyped
  BY <1>1, CacheNumbers, EmptySeq DEF CacheIsTyped, Simulation!Init, Simulation!Predictions, Simulations
<1>3. TransfersAreTyped
  BY CacheNumbers, FS_EmptySet DEF TransfersAreTyped, Simulation!Init
<1>4. UsesAreOrdered
  <2>1. fresher = <<>> /\ DOMAIN fresher = {}
    BY DEF Simulation!Init
  <2> QED
    BY <2>1 DEF UsesAreOrdered
<1> QED
  BY <1>2, <1>3, <1>4 DEF CacheInv

(* A demand that was served is used last, and the order stays that of the  *)
(* last uses.                                                              *)
LEMMA UseKeepsOrder ==
  ASSUME CacheInv, NEW demand \in Simulation!Demands, simulation' = simulation,
         Follows(cache', cache, Elems(demand), Elems(demand)),
         simulation \in {"lru", "none"}, Simulation!Use(demand)
  PROVE  UsesAreOrdered'
<1> DEFINE D == Elems(demand)
<1>1. D \subseteq Experts /\ D # {} /\ Simulation!Range(demand) = D
  <2>1. Len(demand) \in 1..TopK /\ Simulation!Range(demand) = D /\ D \subseteq Experts
    BY DemandFits DEF CacheInv, Fits
  <2>2. TopK \in Nat
    BY CacheNumbers DEF CacheInv
  <2>3. 1 \in 1..Len(demand)
    BY <2>1, <2>2
  <2> QED
    BY <2>1, <2>3 DEF Elems
<1>2. fresher' = [e \in DOMAIN fresher \cup D |-> IF e \in D THEN {} ELSE fresher[e] \cup D]
  BY <1>1 DEF Simulation!Use
<1>3. DOMAIN fresher \subseteq Experts /\ fresher \in [DOMAIN fresher -> SUBSET DOMAIN fresher]
  BY DEF CacheInv, UsesAreOrdered
<1> HIDE DEF D
<1>4. /\ DOMAIN fresher' = DOMAIN fresher \cup D
      /\ \A e \in D : fresher'[e] = {}
      /\ \A e \in DOMAIN fresher \ D : fresher'[e] = fresher[e] \cup D
  BY <1>2
<1>5. /\ DOMAIN fresher' \subseteq Experts
      /\ fresher' \in [DOMAIN fresher' -> SUBSET DOMAIN fresher']
  BY <1>1, <1>2, <1>3, <1>4
<1>6. Follows(cache', cache, D, D)
  BY DEF D
<1>7. ASSUME NEW e \in DOMAIN fresher', fresher'[e] = {} PROVE e \in Elems(cache')
  BY <1>1, <1>4, <1>6, <1>7 DEF Follows
<1>8. ASSUME NEW e \in DOMAIN fresher', e \in Elems(cache'), NEW y \in fresher'[e]
      PROVE  y \in Elems(cache') /\ UsedBefore(cache', e, y)
  <2>1. e \in DOMAIN fresher \ D /\ e \in Elems(cache) /\ y \in fresher[e] \cup D
    BY <1>4, <1>6, <1>8 DEF Follows
  <2>2. CASE y \in D
    BY <1>6, <1>8, <2>1, <2>2 DEF Follows
  <2>3. CASE y \notin D
    <3>1. y \in Elems(cache) \ D /\ UsedBefore(cache, e, y)
      BY <2>1, <2>3 DEF CacheInv, UsesAreOrdered
    <3> QED
      BY <1>6, <1>8, <2>1, <3>1 DEF Follows
  <2> QED
    BY <2>2, <2>3
<1> QED
  BY <1>5, <1>7, <1>8 DEF UsesAreOrdered

LEMMA LruStep == ASSUME CacheInv, Simulation!LruEvent PROVE CacheInv'
<1>1. PICK demand \in Simulation!Demands :
        cache' = Simulation!AfterPolicy(cache, demand) /\ Simulation!Use(demand)
  BY DEF Simulation!LruEvent
<1>2. simulation = "lru" /\ UNCHANGED <<simulation, counts, queue, issued, useful, missed, wouldMiss>>
  BY DEF Simulation!LruEvent
<1>3. Simulation!CacheSimulationAssumption /\ cache \in Caches
  BY DEF CacheInv, CacheIsTyped
<1>4. Follows(cache', cache, Elems(demand), Elems(demand))
  BY <1>1, <1>3, PolicyFollows
<1>5. UsesAreOrdered'
  BY <1>1, <1>2, <1>4, UseKeepsOrder
<1>6. CacheIsTyped' /\ TransfersAreTyped'
  BY <1>2, <1>4 DEF CacheInv, CacheIsTyped, TransfersAreTyped, Follows
<1> QED
  BY <1>3, <1>5, <1>6 DEF CacheInv

LEMMA CountIsTyped ==
  ASSUME counts \in [Experts -> 0..MaxCount], MaxCount \in Nat, NEW demand,
         Simulation!Count(demand), \A e \in Experts : counts'[e] <= MaxCount
  PROVE  counts' \in [Experts -> 0..MaxCount]
  BY DEF Simulation!Count

LEMMA CountEventStep == ASSUME CacheInv, Simulation!CountEvent PROVE CacheInv'
<1>1. PICK demand \in Simulation!Demands :
        Simulation!Count(demand) /\ \A e \in Experts : counts'[e] <= MaxCount
  BY DEF Simulation!CountEvent
<1>2. UNCHANGED <<simulation, cache, queue, issued, useful, fresher, missed, wouldMiss>>
  BY DEF Simulation!CountEvent
<1>3. counts' \in [Experts -> 0..MaxCount]
  BY <1>1, CountIsTyped, CacheNumbers DEF CacheInv, CacheIsTyped
<1>4. CacheIsTyped' /\ TransfersAreTyped'
  BY <1>2, <1>3 DEF CacheInv, CacheIsTyped, TransfersAreTyped
<1>5. UsesAreOrdered'
  BY <1>2 DEF CacheInv, UsesAreOrdered
<1> QED
  BY <1>4, <1>5 DEF CacheInv

LEMMA BlockingIsCounted ==
  ASSUME Simulation!CacheSimulationAssumption, NEW c, NEW demand \in Simulation!Demands
  PROVE  Simulation!Cardinality(Simulation!Blocking(c, demand)) \in Nat
<1>1. Simulation!Blocking(c, demand) \in SUBSET Experts
  BY DemandFits DEF Simulation!Blocking, Fits
<1> QED
  BY <1>1, CacheNumbers, CacheCardinality, FS_Subset, FS_CardinalityType

LEMMA ConsumeStep == ASSUME CacheInv, Simulation!Consume PROVE CacheInv'
<1> DEFINE demand == Head(queue)
<1>1. /\ Simulation!CacheSimulationAssumption /\ cache \in Caches /\ simulation \in Simulations
      /\ queue \in Seq(Simulation!Demands) /\ queue # <<>> /\ missed \in Nat /\ wouldMiss \in Nat
      /\ counts \in [Experts -> 0..MaxCount] /\ simulation \notin {"lru", "static_hotset"}
  BY DEF CacheInv, CacheIsTyped, Simulation!Consume
<1>2. demand \in Simulation!Demands /\ Tail(queue) \in Seq(Simulation!Demands)
  BY <1>1, HeadTailProperties
<1>3. /\ cache' = Simulation!AfterDemand(cache, demand)
      /\ useful' = useful \cup (issued \cap Simulation!Range(cache) \cap Simulation!Range(demand))
      /\ missed' = missed + Simulation!Cardinality(Simulation!Blocking(cache, demand))
      /\ IF simulation = "frequency"
         THEN Simulation!Count(demand) /\ \A e \in Experts : counts'[e] <= MaxCount
         ELSE UNCHANGED counts
      /\ IF simulation = "none" THEN Simulation!Use(demand) ELSE UNCHANGED fresher
      /\ queue' = Tail(queue) /\ simulation' = simulation /\ issued' = issued /\ wouldMiss' = wouldMiss
  BY DEF Simulation!Consume
<1> HIDE DEF demand
<1>4. Follows(cache', cache, Elems(demand), Elems(demand))
  BY <1>1, <1>2, <1>3, DemandFollows
<1>5. counts' \in [Experts -> 0..MaxCount]
  BY <1>1, <1>3, CountIsTyped, CacheNumbers
<1>6. missed' \in Nat
  BY <1>1, <1>2, <1>3, BlockingIsCounted
<1>7. CacheIsTyped'
  BY <1>1, <1>2, <1>3, <1>4, <1>5, <1>6 DEF CacheIsTyped, Follows
<1>8. TransfersAreTyped'
  BY <1>3 DEF CacheInv, TransfersAreTyped
<1>9. UsesAreOrdered'
  <2>1. CASE simulation = "none"
    BY <1>2, <1>3, <1>4, <2>1, UseKeepsOrder
  <2>2. CASE simulation \in {"static_hotset", "oracle", "frequency"}
    <3>1. fresher' = fresher /\ DOMAIN fresher = {}
      BY <1>3, <2>2 DEF CacheInv, UsesAreOrdered
    <3> QED
      BY <1>3, <3>1 DEF CacheInv, UsesAreOrdered
  <2> QED
    BY <1>1, <2>1, <2>2 DEF Simulations, CacheInv, CacheIsTyped
<1> QED
  BY <1>1, <1>7, <1>8, <1>9 DEF CacheInv

LEMMA EventsAreCounted ==
  ASSUME Simulation!CacheSimulationAssumption, NEW c, NEW n \in Nat, NEW events \in [1..n -> Simulation!Demands]
  PROVE  Simulation!Misses(c, events) \in Nat
<1> DEFINE after[k \in 0..Len(events)] ==
             IF k = 0 THEN c ELSE Simulation!AfterDemand(after[k - 1], events[k])
           Missed == UNION {{k} \X Simulation!Blocking(after[k - 1], events[k]) : k \in DOMAIN events}
<1>1. Simulation!Misses(c, events) = Cardinality(Missed)
  BY CacheCardinality DEF Simulation!Misses
<1> HIDE DEF after
<1>2. Missed \in SUBSET ((1..n) \X Experts)
  <2>1. \A k \in 1..n : Simulation!Blocking(after[k - 1], events[k]) \subseteq Experts
    BY DemandFits DEF Simulation!Blocking, Fits
  <2> QED
    BY <2>1
<1>3. IsFiniteSet((1..n) \X Experts)
  <2>1. IsFiniteSet(1..n) /\ IsFiniteSet(Experts)
    BY CacheNumbers, FS_Interval
  <2> QED
    BY <2>1, FS_Product
<1> HIDE DEF Missed
<1> QED
  BY <1>1, <1>2, <1>3, FS_Subset, FS_CardinalityType

(* What a step's transfers do to the cache. *)
LEMMA PrefetchKeeps ==
  ASSUME CacheInv, Simulation!Prefetch
  PROVE  \E n \in 1..StepEvents, share \in 0..MaxTransfers : \E events \in [1..n -> Simulation!Demands] :
            /\ n \in Nat \ {0} /\ queue' = events
            /\ \E s \in TransferStates(share, Simulation!Wanted(events)) :
                  /\ cache' = s.cache /\ issued' = s.sent
                  /\ simulation = "none" => s.cache = cache
            /\ wouldMiss' \in Nat
<1>1. PICK events \in UNION {[1..n -> Simulation!Demands] : n \in 1..StepEvents}, share \in 0..MaxTransfers :
        LET s == Simulation!AfterTransfers(share, Simulation!Ranked(events), Simulation!Wanted(events))
        IN  /\ queue' = events /\ cache' = s.cache /\ issued' = s.sent
            /\ wouldMiss' = Simulation!Misses(cache, events)
  BY DEF Simulation!Prefetch
<1>2. PICK n \in 1..StepEvents : events \in [1..n -> Simulation!Demands]
  OBVIOUS
<1>3. /\ n \in Nat \ {0} /\ share \in Nat /\ Simulation!CacheSimulationAssumption
      /\ cache \in Caches /\ counts \in [Experts -> 0..MaxCount] /\ simulation \in Simulation!Predictions
  BY CacheNumbers DEF CacheInv, CacheIsTyped, Simulation!Prefetch
<1> DEFINE s == Simulation!AfterTransfers(share, Simulation!Ranked(events), Simulation!Wanted(events))
<1>4. /\ Simulation!Ranked(events) \in Seq(Experts)
      /\ simulation = "none" => Len(Simulation!Ranked(events)) = 0
  BY <1>2, <1>3, CandidatesAreRanked
<1>5. s \in TransferStates(share, Simulation!Wanted(events)) /\ (simulation = "none" => s.cache = cache)
  BY <1>3, <1>4, TransfersKeep
<1>6. wouldMiss' \in Nat
  BY <1>1, <1>2, <1>3, EventsAreCounted
<1>7. queue' = events /\ cache' = s.cache /\ issued' = s.sent
  BY <1>1
<1> HIDE DEF s
<1> QED
  BY <1>2, <1>3, <1>5, <1>6, <1>7

LEMMA PrefetchStep == ASSUME CacheInv, Simulation!Prefetch PROVE CacheInv'
<1>1. PICK n \in 1..StepEvents, share \in 0..MaxTransfers : \E events \in [1..n -> Simulation!Demands] :
         /\ n \in Nat \ {0} /\ queue' = events
         /\ \E s \in TransferStates(share, Simulation!Wanted(events)) :
               /\ cache' = s.cache /\ issued' = s.sent
               /\ simulation = "none" => s.cache = cache
         /\ wouldMiss' \in Nat
  BY PrefetchKeeps
<1>2. PICK events \in [1..n -> Simulation!Demands] :
         /\ n \in Nat \ {0} /\ queue' = events
         /\ \E s \in TransferStates(share, Simulation!Wanted(events)) :
               /\ cache' = s.cache /\ issued' = s.sent
               /\ simulation = "none" => s.cache = cache
         /\ wouldMiss' \in Nat
  BY <1>1
<1>3. PICK s \in TransferStates(share, Simulation!Wanted(events)) :
         cache' = s.cache /\ issued' = s.sent /\ (simulation = "none" => s.cache = cache)
  BY <1>2
<1>4. /\ simulation \in Simulation!Predictions /\ useful' = {} /\ missed' = 0
      /\ simulation' = simulation /\ counts' = counts /\ fresher' = fresher
  BY DEF Simulation!Prefetch
<1>5. /\ s.cache \in Caches /\ s.sent \in SUBSET Experts /\ s.budget \in 0..share
      /\ Cardinality(s.sent) + s.budget <= share
  BY <1>3 DEF TransferStates
<1>6. queue' \in Seq(Simulation!Demands)
  BY <1>2, IsASeq
<1>7. CacheIsTyped'
  BY <1>2, <1>3, <1>4, <1>5, <1>6 DEF CacheInv, CacheIsTyped, Simulation!Predictions
<1>8. TransfersAreTyped'
  <2>1. IsFiniteSet(s.sent)
    BY <1>5, CacheNumbers, FS_Subset DEF CacheInv
  <2>2. Cardinality(s.sent) \in Nat /\ MaxTransfers \in Nat
    BY <2>1, FS_CardinalityType, CacheNumbers DEF CacheInv
  <2>3. Cardinality(s.sent) <= MaxTransfers
    BY <1>5, <2>2
  <2> QED
    BY <1>3, <1>4, <1>5, <2>3 DEF TransfersAreTyped
<1>9. UsesAreOrdered'
  <2>1. CASE simulation = "none"
    <3>1. cache' = cache
      BY <1>3, <2>1
    <3> QED
      BY <1>4, <3>1 DEF CacheInv, UsesAreOrdered
  <2>2. CASE simulation # "none"
    <3>1. DOMAIN fresher = {}
      BY <1>4, <2>2 DEF CacheInv, UsesAreOrdered, Simulation!Predictions
    <3> QED
      BY <1>4, <3>1 DEF CacheInv, UsesAreOrdered
  <2> QED
    BY <2>1, <2>2
<1> QED
  BY <1>7, <1>8, <1>9 DEF CacheInv

LEMMA CacheStep == ASSUME CacheInv, Simulation!Next \/ UNCHANGED cacheVars PROVE CacheInv'
<1>1. CASE UNCHANGED cacheVars
  BY <1>1 DEF cacheVars, CacheInv, CacheIsTyped, TransfersAreTyped, UsesAreOrdered
<1>2. CASE Simulation!Next
  BY <1>2, LruStep, CountEventStep, ConsumeStep, PrefetchStep DEF Simulation!Next
<1> QED
  BY <1>1, <1>2

-----------------------------------------------------------------------------
(* What the invariant says of the simulated cache *)

LEMMA CacheInvIsTyped == CacheInv => Simulation!TypeOK
<1> SUFFICES ASSUME CacheInv PROVE Simulation!TypeOK
  OBVIOUS
<1>1. cache \in Seq(Experts) /\ Simulation!IsInjective(cache) /\ Len(cache) <= Capacity
  BY OnceIsInjective DEF CacheInv, CacheIsTyped, Caches
<1>2. /\ simulation \in {"lru", "static_hotset"} \cup Simulation!Predictions
      /\ counts \in [Experts -> 0..MaxCount] /\ queue \in Seq(Simulation!Demands)
      /\ missed \in Nat /\ wouldMiss \in Nat
  BY DEF CacheInv, CacheIsTyped, Simulations, Simulation!Predictions
<1>3. issued \subseteq Experts /\ useful \subseteq issued /\ Simulation!Cardinality(issued) <= MaxTransfers
  BY CacheCardinality DEF CacheInv, TransfersAreTyped
<1>4. DOMAIN fresher \subseteq Experts /\ fresher \in [DOMAIN fresher -> SUBSET DOMAIN fresher]
  BY DEF CacheInv, UsesAreOrdered
<1> QED
  BY <1>1, <1>2, <1>3, <1>4 DEF Simulation!TypeOK

LEMMA CacheInvIsRecent == CacheInv => Simulation!CacheIsRecent
<1> SUFFICES ASSUME CacheInv PROVE Simulation!CacheIsRecent
  OBVIOUS
<1>1. Simulation!Range(cache) = Elems(cache)
  BY ElemsAreRange DEF CacheInv, CacheIsTyped, Caches
<1> QED
  BY <1>1 DEF CacheInv, UsesAreOrdered, Simulation!CacheIsRecent

(* A step that begins with transfers keeps what it demands in the cache. *)
LEMMA CacheSparesDemand == CacheInv /\ Simulation!Next => Simulation!SparesDemand
<1> SUFFICES ASSUME CacheInv, Simulation!Next, queue = <<>>, queue' # <<>>
             PROVE  Simulation!Range(cache) \cap Simulation!Wanted(queue') \subseteq Simulation!Range(cache')
  BY DEF Simulation!SparesDemand
<1>1. Simulation!Prefetch
  BY DEF Simulation!Next, Simulation!LruEvent, Simulation!CountEvent, Simulation!Consume
<1>2. PICK n \in 1..StepEvents, share \in 0..MaxTransfers : \E events \in [1..n -> Simulation!Demands] :
         /\ queue' = events
         /\ \E s \in TransferStates(share, Simulation!Wanted(events)) : cache' = s.cache
  BY <1>1, PrefetchKeeps
<1>3. PICK s \in TransferStates(share, Simulation!Wanted(queue')) : cache' = s.cache
  BY <1>2
<1>4. s.cache \in Caches /\ Elems(cache) \cap Simulation!Wanted(queue') \subseteq Elems(s.cache)
  BY DEF TransferStates
<1>5. cache \in Seq(Experts) /\ cache' \in Seq(Experts)
  BY <1>3, <1>4 DEF CacheInv, CacheIsTyped, Caches
<1>6. Simulation!Range(cache) = Elems(cache) /\ Simulation!Range(cache') = Elems(cache')
  BY <1>5, ElemsAreRange
<1> QED
  BY <1>3, <1>4, <1>6

-----------------------------------------------------------------------------
(* Static residents *)

HitSet(S) == UNION {{e} \X (1..counts[e]) : e \in S}

LEMMA HitsAreCounted ==
  ASSUME Simulation!CacheSimulationAssumption, counts \in [Experts -> 0..MaxCount],
         NEW S \in SUBSET Experts
  PROVE  IsFiniteSet(HitSet(S)) /\ Simulation!HitsOf(S) = Cardinality(HitSet(S))
<1>1. MaxCount \in Nat /\ IsFiniteSet(Experts)
  BY CacheNumbers
<1>2. HitSet(S) \in SUBSET (Experts \X (1..MaxCount))
  <2>1. \A e \in S : e \in Experts /\ 1..counts[e] \subseteq 1..MaxCount
    BY <1>1
  <2> QED
    BY <2>1 DEF HitSet
<1>3. IsFiniteSet(1..MaxCount)
  BY <1>1, FS_Interval
<1>4. IsFiniteSet(Experts \X (1..MaxCount))
  BY <1>1, <1>3, FS_Product
<1>5. Simulation!HitsOf(S) = Cardinality(HitSet(S))
  BY CacheCardinality DEF Simulation!HitsOf, HitSet
<1> QED
  BY <1>2, <1>4, <1>5, FS_Subset

(* Of two finite sets, the smaller one can be mapped into the other. *)
LEMMA SmallerFits ==
  ASSUME NEW S, NEW R, IsFiniteSet(S), IsFiniteSet(R), Cardinality(S) <= Cardinality(R)
  PROVE  \E h \in [S -> R] : \A x, y \in S : h[x] = h[y] => x = y
<1>1. PICK f \in Bijection(1..Cardinality(S), S) : TRUE
  BY FS_CardinalityType DEF ExistsBijection
<1>2. PICK g \in Bijection(1..Cardinality(R), R) : TRUE
  BY FS_CardinalityType DEF ExistsBijection
<1>3. /\ f \in [1..Cardinality(S) -> S] /\ \A x \in S : \E i \in 1..Cardinality(S) : f[i] = x
      /\ g \in [1..Cardinality(R) -> R]
      /\ \A i, j \in 1..Cardinality(R) : g[i] = g[j] => i = j
  BY <1>1, <1>2 DEF Bijection, Injection, Surjection, IsInjective
<1>4. Cardinality(S) \in Nat /\ Cardinality(R) \in Nat
  BY FS_CardinalityType
<1> DEFINE at(x) == CHOOSE i \in 1..Cardinality(S) : f[i] = x
           h == [x \in S |-> g[at(x)]]
<1>5. \A x \in S : at(x) \in 1..Cardinality(S) /\ f[at(x)] = x
  BY <1>3
<1> HIDE DEF at
<1>6. \A x \in S : at(x) \in 1..Cardinality(R)
  BY <1>4, <1>5
<1>7. h \in [S -> R]
  BY <1>3, <1>6
<1>8. \A x, y \in S : h[x] = h[y] => x = y
  <2> SUFFICES ASSUME NEW x \in S, NEW y \in S, h[x] = h[y] PROVE x = y
    OBVIOUS
  <2>1. at(x) = at(y)
    BY <1>3, <1>6
  <2> QED
    BY <1>5, <2>1
<1> QED
  BY <1>7, <1>8

(* An expert that was left out is demanded no more than any resident, and  *)
(* is left out only where there is no slot.                                *)
LEMMA ResidentsAreAhead ==
  ASSUME Simulation!CacheSimulationAssumption, counts \in [Experts -> 0..MaxCount],
         NEW e \in Experts \ Simulation!Residents
  PROVE  /\ \A y \in Simulation!Residents : counts[e] <= counts[y]
         /\ counts[e] > 0 => Cardinality(Simulation!Residents) >= Capacity
<1> DEFINE M == Simulation!Demanded
           R == Simulation!Residents
           Rk(x) == Simulation!Rank(counts, x, M)
<1>1. /\ IsFiniteSet(Experts) /\ Experts \subseteq Nat /\ M \in SUBSET Experts /\ Capacity \in Nat
      /\ \A x \in Experts : counts[x] \in Nat /\ (x \in M <=> counts[x] > 0)
      /\ R = {x \in M : Rk(x) < Capacity}
  BY CacheNumbers DEF Simulation!Demanded, Simulation!Residents
<1>2. IsFiniteSet(M) /\ IsFiniteSet(R)
  <2>1. R \in SUBSET Experts
    BY <1>1
  <2> QED
    BY <1>1, <2>1, FS_Subset
<1>3. \A x, y \in M :
          x # y => /\ Simulation!Ahead(counts, x, y) \/ Simulation!Ahead(counts, y, x)
                   /\ Simulation!Ahead(counts, x, y) => Rk(x) < Rk(y)
  <2> HIDE DEF M
  <2> QED
    BY <1>1, <1>2, RanksDiffer
<1>4. \A x \in M : Rk(x) = Cardinality(AheadOf(counts, x, M)) /\ Rk(x) \in Nat
  <2> TAKE x \in M
  <2>1. AheadOf(counts, x, M) \in SUBSET M
    BY DEF AheadOf
  <2>2. Rk(x) = Cardinality(AheadOf(counts, x, M))
    BY CacheCardinality DEF Simulation!Rank, AheadOf
  <2> QED
    BY <1>2, <2>1, <2>2, FS_Subset, FS_CardinalityType
<1> HIDE DEF M, R, Rk
<1>5. ASSUME NEW x \in M \ R, NEW y \in R PROVE counts[x] <= counts[y]
  <2>1. y \in M /\ Rk(x) \in Nat /\ Rk(y) \in Nat /\ Rk(y) < Rk(x) /\ x # y
    BY <1>1, <1>4, <1>5
  <2>2. Simulation!Ahead(counts, y, x)
    <3>1. Simulation!Ahead(counts, x, y) => Rk(x) < Rk(y)
      BY <1>3, <2>1
    <3>2. ~Simulation!Ahead(counts, x, y)
      BY <2>1, <3>1
    <3>3. x \in M
      BY <1>5
    <3>4. /\ Simulation!Ahead(counts, x, y) \/ Simulation!Ahead(counts, y, x)
          /\ Simulation!Ahead(counts, x, y) => Rk(x) < Rk(y)
      BY <1>3, <2>1, <3>3
    <3> QED
      BY <3>2, <3>4
  <2> QED
    BY <1>1, <2>1, <2>2 DEF Simulation!Ahead
<1>6. ASSUME NEW y \in R PROVE counts[e] <= counts[y]
  <2>1. CASE e \in M
    BY <1>5, <2>1 DEF R
  <2>2. CASE e \notin M
    BY <1>1, <2>2
  <2> QED
    BY <2>1, <2>2
<1>7. ASSUME counts[e] > 0 PROVE Cardinality(R) >= Capacity
  <2> DEFINE Out == {Rk(x) : x \in M \ R}
  <2>1. Out # {} /\ Out \subseteq Nat
    BY <1>1, <1>4, <1>7 DEF R
  <2>2. PICK m \in Out : \A k \in Out : m <= k
    <3> HIDE DEF Out
    <3> QED
      BY <2>1, SmallestNumber
  <2>3. PICK x \in M \ R : Rk(x) = m
    BY <2>2
  <2>4. AheadOf(counts, x, M) \subseteq R
    <3> SUFFICES ASSUME NEW d \in AheadOf(counts, x, M), d \notin R PROVE FALSE
      OBVIOUS
    <3>1. d \in M /\ d \in Experts /\ Simulation!Ahead(counts, d, x)
      BY <1>1 DEF AheadOf
    <3>2. d # x
      BY <1>1, <3>1 DEF Simulation!Ahead
    <3>3. Rk(d) < Rk(x) /\ Rk(d) \in Out
      BY <1>3, <3>1, <3>2
    <3> QED
      BY <1>4, <2>2, <2>3, <3>1, <3>3
  <2>5. /\ Cardinality(AheadOf(counts, x, M)) <= Cardinality(R) /\ Cardinality(R) \in Nat
        /\ Cardinality(AheadOf(counts, x, M)) = Rk(x)
    BY <1>2, <1>4, <2>4, FS_Subset, FS_CardinalityType
  <2>6. Rk(x) >= Capacity /\ Rk(x) \in Nat
    BY <1>1, <1>4
  <2> QED
    BY <1>1, <2>5, <2>6
<1> QED
  BY <1>6, <1>7 DEF R

LEMMA CacheInvIsBest == CacheInv => Simulation!ResidentsAreBest
<1> SUFFICES ASSUME CacheInv, NEW S \in SUBSET Experts, Simulation!Cardinality(S) <= Capacity
             PROVE  Simulation!HitsOf(S) <= Simulation!HitsOf(Simulation!Residents)
  BY DEF Simulation!ResidentsAreBest
<1> DEFINE R == Simulation!Residents
<1>1. /\ Simulation!CacheSimulationAssumption /\ counts \in [Experts -> 0..MaxCount]
      /\ IsFiniteSet(Experts) /\ Capacity \in Nat /\ Cardinality(S) <= Capacity
  BY CacheNumbers, CacheCardinality DEF CacheInv, CacheIsTyped
<1>2. R \in SUBSET Experts
  BY DEF Simulation!Residents, Simulation!Demanded
<1>3. IsFiniteSet(R) /\ IsFiniteSet(S)
  BY <1>1, <1>2, FS_Subset
<1>4. /\ IsFiniteSet(HitSet(R)) /\ Simulation!HitsOf(R) = Cardinality(HitSet(R))
      /\ IsFiniteSet(HitSet(S)) /\ Simulation!HitsOf(S) = Cardinality(HitSet(S))
  BY <1>1, <1>2, HitsAreCounted
<1>5. ASSUME NEW e \in Experts \ R
      PROVE  /\ \A y \in R : counts[e] <= counts[y]
             /\ counts[e] > 0 => Cardinality(R) >= Capacity
  BY <1>1, <1>5, ResidentsAreAhead
<1> HIDE DEF R
<1>6. CASE \A e \in S \ R : ~(counts[e] > 0)
  <2>1. HitSet(S) \subseteq HitSet(R)
    BY <1>1, <1>6 DEF HitSet
  <2> QED
    BY <1>4, <2>1, FS_Subset DEF R
<1>7. CASE \E e \in S \ R : counts[e] > 0
  <2>1. Cardinality(R) >= Capacity
    BY <1>5, <1>7
  <2>2. PICK h \in [S \ R -> R \ S] : \A x, y \in S \ R : h[x] = h[y] => x = y
    <3>1. /\ IsFiniteSet(S \ R) /\ Cardinality(S \ R) = Cardinality(S) - Cardinality(S \cap R)
      BY <1>3, FS_Difference
    <3>2. /\ IsFiniteSet(R \ S) /\ Cardinality(R \ S) = Cardinality(R) - Cardinality(R \cap S)
      BY <1>3, FS_Difference
    <3>3. S \cap R = R \cap S /\ IsFiniteSet(S \cap R)
      BY <1>3, FS_Intersection
    <3>4. /\ Cardinality(S) \in Nat /\ Cardinality(R) \in Nat /\ Cardinality(S \cap R) \in Nat
      BY <1>3, <3>3, FS_CardinalityType
    <3>5. Cardinality(S \ R) <= Cardinality(R \ S)
      <4>1. Cardinality(R \ S) = Cardinality(R) - Cardinality(S \cap R)
        BY <3>2, <3>3
      <4>2. \A s, r, b, c \in Nat : s <= c /\ r >= c => s - b <= r - b
        OBVIOUS
      <4>3. Cardinality(S) - Cardinality(S \cap R) <= Cardinality(R) - Cardinality(S \cap R)
        BY <1>1, <2>1, <3>4, <4>2
      <4> QED
        BY <3>1, <4>1, <4>3
    <3> QED
      BY <3>1, <3>2, <3>5, SmallerFits
  <2> DEFINE into == [p \in HitSet(S) |-> IF p[1] \in R THEN p ELSE <<h[p[1]], p[2]>>]
  <2>3. ASSUME NEW p \in HitSet(S)
        PROVE  p[1] \in S /\ p[2] \in 1..counts[p[1]] /\ p = <<p[1], p[2]>>
    BY DEF HitSet
  <2>4. ASSUME NEW p \in HitSet(S) PROVE into[p] \in HitSet(R)
    <3>1. CASE p[1] \in R
      BY <2>3, <3>1 DEF HitSet
    <3>2. CASE p[1] \notin R
      <4>1. h[p[1]] \in R /\ counts[p[1]] <= counts[h[p[1]]]
        BY <1>5, <2>2, <2>3, <3>2
      <4>2. counts[p[1]] \in Nat /\ counts[h[p[1]]] \in Nat
        BY <1>1, <1>2, <2>3, <4>1 DEF R
      <4>3. p[2] \in 1..counts[h[p[1]]]
        BY <2>3, <4>1, <4>2
      <4> QED
        BY <3>2, <4>1, <4>3 DEF HitSet
    <3> QED
      BY <3>1, <3>2
  <2>5. ASSUME NEW p \in HitSet(S), NEW q \in HitSet(S), into[p] = into[q] PROVE p = q
    <3>1. /\ p[1] \in S /\ p = <<p[1], p[2]>> /\ q[1] \in S /\ q = <<q[1], q[2]>>
      BY <2>3
    <3>2. /\ into[p] = IF p[1] \in R THEN p ELSE <<h[p[1]], p[2]>>
          /\ into[q] = IF q[1] \in R THEN q ELSE <<h[q[1]], q[2]>>
      OBVIOUS
    <3>3. /\ p[1] \notin R => h[p[1]] \notin S
          /\ q[1] \notin R => h[q[1]] \notin S
      BY <2>2, <3>1
    <3>4. (p[1] \notin R /\ q[1] \notin R /\ h[p[1]] = h[q[1]]) => p[1] = q[1]
      BY <2>2, <3>1
    <3> HIDE DEF into
    <3>5. CASE p[1] \in R /\ q[1] \in R
      BY <2>5, <3>2, <3>5
    <3>6. CASE p[1] \in R /\ q[1] \notin R
      <4>1. p = <<h[q[1]], q[2]>>
        BY <2>5, <3>2, <3>6
      <4>2. p[1] = h[q[1]]
        BY <4>1
      <4> QED
        BY <3>1, <3>3, <3>6, <4>2
    <3>7. CASE p[1] \notin R /\ q[1] \in R
      <4>1. q = <<h[p[1]], p[2]>>
        BY <2>5, <3>2, <3>7
      <4>2. q[1] = h[p[1]]
        BY <4>1
      <4> QED
        BY <3>1, <3>3, <3>7, <4>2
    <3>8. CASE p[1] \notin R /\ q[1] \notin R
      <4>1. <<h[p[1]], p[2]>> = <<h[q[1]], q[2]>>
        BY <2>5, <3>2, <3>8
      <4>2. h[p[1]] = h[q[1]] /\ p[2] = q[2]
        BY <4>1
      <4>3. p[1] = q[1]
        BY <3>4, <3>8, <4>2
      <4> QED
        BY <3>1, <4>2, <4>3
    <3> QED
      BY <3>5, <3>6, <3>7, <3>8
  <2>6. into \in Injection(HitSet(S), HitSet(R))
    BY <2>4, <2>5 DEF Injection, IsInjective
  <2> QED
    BY <1>4, <2>6, FS_Injection DEF R
<1> QED
  BY <1>6, <1>7
===============================================================================
