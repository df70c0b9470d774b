----------------------------- MODULE RouterProbe -----------------------------
(***************************************************************************)
(* expertflow-router-probe: one process that evaluates a prompt token by   *)
(* token, generates greedily, and watches the router of every layer        *)
(* through the evaluation callback of llama.cpp, in one of seven modes.    *)
(*                                                                         *)
(* llama.cpp is external: it evaluates the layers of a forward in order,   *)
(* asks the callback once about each router tensor, and skips the rest of  *)
(* a split of the graph, of any length, when an observation is refused;    *)
(* a decode may also fail by itself at any point.                          *)
(***************************************************************************)
EXTENDS ProbeCommand, Integers, Sequences

CONSTANTS
    None,       \* no value
    Prompt,     \* number of prompt tokens
    Predict,    \* n_predict
    Depth,      \* number of layers with a router: 30
    Tokens,     \* the values --capture-token-index may have
    Target      \* the layer both predictors observe (24); the live one observes the layer before it too

RouterProbeAssumption ==
    /\ Prompt \in Nat \ {0} /\ Predict \in Nat
    /\ Depth \in Nat \ {0} /\ Target \in 2..Depth /\ Tokens \subseteq Nat

VARIABLES
    argv,       \* the options given that parse_options requires or relates
    mode,       \* config.mode
    target,     \* capture_token_index, or None
    pc,         \* where main is
    position,   \* index of the token of the current forward
    layer,      \* the next layer of its graph
    forwardId,  \* trace.forward_id
    decodeId,   \* trace.decode_sequence_index
    order,      \* trace.hook_order
    good,       \* state of the trace stream
    refused,    \* trace.error is set: the callback returned false
    captured,   \* trace.capture_written
    count,      \* events of the counting modes
    lost,       \* overflow or invalid_tensor
    identity,   \* the decode identity that llama.cpp's temporal predictor was given
    seen,       \* the identities it observed the target layer under
    sampled,    \* number of generated tokens
    trace,      \* the lines of the trace file
    files,      \* of the tokens and performance files, those this run wrote
    exitCode

commandVars == <<argv, mode, target>>
graphVars   == <<forwardId, decodeId, order, good, refused, captured, count, lost, identity, seen>>
probeVars   == <<commandVars, pc, position, layer, graphVars, sampled, trace, files, exitCode>>

Line(phase, forward, number, token, l) ==
    [phase |-> phase, forward_id |-> forward, hook_order |-> number, token_index |-> token, layer_id |-> l]

(* The file may hold the trace of an earlier run. *)
Earlier == <<Line("prefill", 0, 0, 0, 1)>>

Init ==
    /\ argv \in SUBSET (Required \cup CaptureOptions \cup {"--trace"})
    /\ mode \in Modes
    /\ target \in IF "--capture-token-index" \in argv THEN Tokens ELSE {None}
    /\ pc = "options" /\ position = 0 /\ layer = 1
    /\ forwardId = 0 /\ decodeId = 0 /\ order = 0
    /\ good = TRUE /\ refused = FALSE /\ captured = FALSE
    /\ count = 0 /\ lost = FALSE /\ identity = 0 /\ seen = <<>>
    /\ sampled = 0 /\ trace = Earlier /\ files = {} /\ exitCode = 0

Full  == mode = "full"
Phase == IF position < Prompt THEN "prefill" ELSE "decode"

(* Room for the events of the counting modes. *)
RoomForAnswer == Predict * Depth         \* faulty: the prompt has none
Room == (Prompt + Predict + 1) * Depth

-----------------------------------------------------------------------------
(* main, up to the first forward *)

Exit(code) == pc' = "done" /\ exitCode' = code

Options ==
    /\ pc = "options"
    /\ IF Accepted(argv, mode) THEN pc' = "prepare" /\ UNCHANGED exitCode ELSE Exit(2)
    /\ UNCHANGED <<commandVars, position, layer, graphVars, sampled, trace, files>>

(* The live-cache settings, the model, the prompt, the outputs, the context. *)
PrepareOverEarlier ==                       \* faulty: the trace file is not emptied
    /\ pc = "prepare"
    /\ pc' = "forward"
    /\ UNCHANGED <<commandVars, position, layer, graphVars, sampled, trace, files, exitCode>>

Prepare ==
    /\ pc = "prepare"
    /\ \/ Exit(3) /\ UNCHANGED trace
       \/ Exit(1) /\ trace' \in {trace} \cup (IF Full THEN {<<>>} ELSE {})
       \/ pc' = "forward" /\ trace' = (IF Full THEN <<>> ELSE trace) /\ UNCHANGED exitCode
    /\ UNCHANGED <<commandVars, position, layer, graphVars, sampled, files>>

-----------------------------------------------------------------------------
(* decode_token *)

(* The forward, and with it the generation, has failed. *)
Fail == pc' = "report" /\ exitCode' = 1

(* The predictors are told the phase and, for a decode, its identity. *)
BeginForward ==
    /\ pc = "forward"
    /\ \/ Fail /\ UNCHANGED identity
       \/ /\ pc' = "graph" /\ UNCHANGED exitCode
          /\ identity' = IF Phase = "decode" THEN decodeId ELSE identity
    /\ layer' = 1
    /\ UNCHANGED <<commandVars, position, forwardId, decodeId, order, good, refused, captured, count,
                   lost, seen, sampled, trace, files>>

(* llama_decode returns an error. *)
DecodeFails ==
    /\ pc = "graph" /\ Fail
    /\ UNCHANGED <<commandVars, position, layer, graphVars, sampled, trace, files>>

(* router_trace_callback observes the router of the layer: the tensor that is *)
(* to be captured, the two predictors, the line of the trace.                 *)
Refuse ==
    /\ refused' = TRUE /\ layer' \in (layer + 1)..(Depth + 1)

Capture ==      \* if a tensor has that name
    captured' \in {captured} \cup (IF target = position /\ layer = 1 THEN {TRUE} ELSE {})

Observe ==
    /\ pc = "graph" /\ layer <= Depth /\ Full
    /\ \/ Refuse /\ UNCHANGED <<order, good, captured, seen, trace>>
       \/ /\ Capture
          /\ \/ Refuse /\ UNCHANGED <<order, good, seen, trace>>
             \/ /\ seen' = IF layer = Target /\ Phase = "decode" THEN Append(seen, decodeId) ELSE seen
                /\ order' = order + 1
                /\ good' \in {good, FALSE}
                /\ IF good'
                   THEN /\ trace' = Append(trace, Line(Phase, forwardId, order, position, layer))
                        /\ layer' = layer + 1 /\ UNCHANGED refused
                   ELSE Refuse /\ UNCHANGED trace
    /\ UNCHANGED <<commandVars, pc, position, forwardId, decodeId, count, lost, identity, sampled,
                   files, exitCode>>

(* The callbacks of the other modes. *)
Count ==
    /\ pc = "graph" /\ layer <= Depth /\ ~Full
    /\ layer' = layer + 1
    /\ CASE mode \in {"counter", "boundary"} -> count' = count + 1 /\ UNCHANGED lost
         [] mode \in {"metadata", "ids"} ->
                \/ count >= Room /\ lost' = TRUE /\ UNCHANGED count
                \/ count < Room /\ count' = count + 1 /\ UNCHANGED lost
                \/ mode = "ids" /\ count < Room /\ lost' = TRUE /\ UNCHANGED count
         [] OTHER -> UNCHANGED <<count, lost>>
    /\ UNCHANGED <<commandVars, pc, position, forwardId, decodeId, order, good, refused, captured,
                   identity, seen, sampled, trace, files, exitCode>>

(* The prompt's next token, or the first or next sample. *)
Advance ==
    IF position + 1 < Prompt THEN pc' = "forward" /\ position' = position + 1
                             ELSE pc' = "sample" /\ UNCHANGED position

EndForwardUncounted ==                      \* faulty: the decode identity is not advanced
    /\ pc = "graph" /\ layer = Depth + 1
    /\ Advance
    /\ forwardId' = (IF Full THEN forwardId + 1 ELSE forwardId)
    /\ UNCHANGED <<commandVars, layer, decodeId, order, good, refused, captured, count, lost, identity,
                   seen, sampled, trace, files, exitCode>>

EndForward ==
    /\ pc = "graph" /\ layer = Depth + 1
    /\ Advance
    /\ forwardId' = (IF Full THEN forwardId + 1 ELSE forwardId)
    /\ decodeId' = (IF Full /\ Phase = "decode" THEN decodeId + 1 ELSE decodeId)
    /\ UNCHANGED <<commandVars, layer, order, good, refused, captured, count, lost, identity, seen,
                   sampled, trace, files, exitCode>>

-----------------------------------------------------------------------------
(* The rest of main *)

(* The next token is sampled; it is decoded unless it ends the generation. *)
SampleDecodesAll ==                         \* faulty: the last token is decoded too
    /\ pc = "sample"
    /\ IF sampled = Predict THEN pc' = "tokens" /\ UNCHANGED <<sampled, position>>
       ELSE /\ sampled' = sampled + 1
            /\ pc' = "forward" /\ position' = Prompt + sampled
    /\ UNCHANGED <<commandVars, layer, graphVars, trace, files, exitCode>>

Sample ==
    /\ pc = "sample"
    /\ IF sampled = Predict THEN pc' = "tokens" /\ UNCHANGED <<sampled, position>>
       ELSE /\ sampled' = sampled + 1
            /\ \/ pc' = "tokens" /\ UNCHANGED position      \* an end-of-generation token
               \/ IF sampled + 1 < Predict
                  THEN pc' = "forward" /\ position' = Prompt + sampled
                  ELSE pc' = "sample" /\ UNCHANGED position
    /\ UNCHANGED <<commandVars, layer, graphVars, trace, files, exitCode>>

WriteTokens ==
    /\ pc = "tokens"
    /\ \/ Fail /\ UNCHANGED files
       \/ pc' = "performance" /\ files' = {"tokens"} /\ UNCHANGED exitCode
    /\ UNCHANGED <<commandVars, position, layer, graphVars, sampled, trace>>

WritePerformance ==
    /\ pc = "performance"
    /\ \/ Fail /\ UNCHANGED files
       \/ pc' = "report" /\ files' = files \cup {"performance"} /\ UNCHANGED exitCode
    /\ UNCHANGED <<commandVars, position, layer, graphVars, sampled, trace>>

(* Nothing was observed, or not what was asked for. *)
Blank ==
    \/ Full /\ order = 0
    \/ target # None /\ ~captured
    \/ mode \in {"boundary", "metadata", "ids"} /\ count = 0
    \/ lost

Report ==
    /\ pc = "report"
    /\ Exit(IF Blank THEN 1 ELSE exitCode)
    /\ UNCHANGED <<commandVars, position, layer, graphVars, sampled, trace, files>>

Probe ==
    \/ Options \/ Prepare \/ BeginForward \/ DecodeFails \/ Observe \/ Count \/ EndForward
    \/ Sample \/ WriteTokens \/ WritePerformance \/ Report

Next == Probe

(* Every call of the process returns. *)
Spec == Init /\ [][Next]_probeVars /\ WF_probeVars(Probe)

-----------------------------------------------------------------------------
(* Correctness properties *)

Done == pc = "done"

TypeOK ==
    /\ mode \in Modes
    /\ pc \in {"options", "prepare", "forward", "graph", "sample", "tokens", "performance",
               "report", "done"}
    /\ position \in 0..(Prompt + Predict) /\ layer \in 1..(Depth + 1) /\ sampled \in 0..Predict
    /\ exitCode \in 0..3 /\ files \subseteq {"tokens", "performance"}
    /\ order \in 0..(Prompt + Predict) * Depth /\ {good, refused, captured, lost} \subseteq BOOLEAN

(* The forwards of a run that succeeded: the last token is never decoded. *)
Forwards == Prompt + (IF sampled = 0 THEN 0 ELSE sampled - 1)

(***************************************************************************)
(* A run that exits with 0 and refused no observation leaves a trace of    *)
(* exactly its own forwards: every layer of every one, once and in order,  *)
(* under the phase and the token it belongs to; and it leaves its files.   *)
(***************************************************************************)
Expected ==
    [k \in 1..(Forwards * Depth) |->
        LET f == (k - 1) \div Depth
        IN  Line(IF f < Prompt THEN "prefill" ELSE "decode", f, k - 1, f, ((k - 1) % Depth) + 1)]

TraceIsWhole ==
    Done /\ exitCode = 0 =>
        /\ files = {"tokens", "performance"}
        /\ Full /\ ~refused => trace = Expected

(***************************************************************************)
(* The buffers of the metadata and ids modes hold the events of every run, *)
(* however soon it ends; a run that exits with 0 recorded each of them.    *)
(***************************************************************************)
EventsAreCounted ==
    /\ count <= Room \/ mode \in {"counter", "boundary"}
    /\ mode = "metadata" => ~lost
    /\ Done /\ exitCode = 0 /\ mode \in {"metadata", "ids", "boundary"} => count = Forwards * Depth

(***************************************************************************)
(* The temporal predictor observes each decode at most once and in order,  *)
(* under the identity it was given for that forward, also after forwards   *)
(* whose observations were refused.                                        *)
(***************************************************************************)
IdentitiesRise ==
    /\ \A i, j \in 1..Len(seen) : i < j => seen[i] < seen[j]
    /\ \A i \in 1..Len(seen) : seen[i] <= identity
    /\ pc = "graph" /\ Phase = "decode" /\ Full => identity = position - Prompt
=============================================================================
