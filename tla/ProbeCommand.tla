---------------------------- MODULE ProbeCommand ----------------------------
(***************************************************************************)
(* What expertflow-router-probe and its callers must agree on: the command *)
(* line it accepts and the token file it writes.                           *)
(***************************************************************************)

Modes == {"full", "empty", "counter", "metadata", "boundary", "ids", "disabled"}

Required       == {"-m", "--tokens", "--performance"}
CaptureOptions == {"--capture-tensor", "--capture-token-index", "--capture-output"}

(* What parse_options accepts: a trace file for the full mode and for no other. *)
Accepted(options, m) ==
    /\ Required \subseteq options
    /\ "--trace" \in options <=> m = "full"
    /\ options \cap CaptureOptions # {} => CaptureOptions \subseteq options /\ m = "full"

(* Without --trace-mode the mode is "full", or "disabled" for --no-trace. *)
ModeOf(options) == IF "--no-trace" \in options THEN "disabled" ELSE "full"

(* The fields of the object that write_token_sequence writes. *)
TokenFields == {"schema_version", "prompt_token_ids", "generated_token_ids", "generated_text"}
=============================================================================
