---------------------------- MODULE CudaTransfer ----------------------------
(***************************************************************************)
(* The CUDA transfer benchmarks: a host thread that measures copies by     *)
(* enqueueing them on the streams of a device, which executes them later.  *)
(* Each measure_* method of CudaRuntime is a fixed sequence of calls with  *)
(* a `finally' that releases what was allocated; every call before it may  *)
(* fail, and an interrupt may come at any of them.  The `finally' ignores  *)
(* what its own calls return; an interrupt inside it, which would skip the *)
(* rest of the releases, is left out.                                      *)
(*                                                                         *)
(* A method is given here as the commands it executes, round by round.     *)
(* What a sample measures is the set of copies that ran between its two    *)
(* ends, beside the number of copies the method divides it by.             *)
(***************************************************************************)
EXTENDS Integers, FiniteSets, Sequences

CONSTANTS
    Slots,          \* copies_per_batch, slot_count, depth, background_copies
    Rounds,         \* batches, samples
    Warmups         \* warmup_copies

CudaTransferAssumption ==
    /\ Slots \in Nat \ {0} /\ Rounds \in Nat \ {0}      \* the contracts' checks
    /\ Warmups \in Nat

VARIABLES
    calls,          \* the measurements the benchmark has still to make
    at,             \* "calling", "running", "releasing", "reported" or "raised"
    round,          \* the round of the method; what comes before the first is round 0
    next,           \* the next command of the round, or the next release
    failing,        \* an exception is under way
    held,           \* memory, events and streams that exist
    stream,         \* what the device has still to execute, per stream
    done,           \* copies it has executed
    stamp,          \* per recorded event, the copies executed before it
    begun,          \* [done, backlog]: copies executed, and enqueued, when the host read its clock
    samples

cudaVars == <<calls, at, round, next, failing, held, stream, done, stamp, begun, samples>>

Device == <<"device", 0>>      Loaded     == <<"load_device", 0>>
Source == <<"host", 0>>        LoadSource == <<"load_host", 0>>
Start  == <<"start", 0>>       End        == <<"end", 0>>      Ready == <<"ready", 0>>
Marker(i) == <<"marker", i>>
Default == <<"default", 0>>    Load == <<"load", 0>>           Probe == <<"probe", 0>>

Streams == {Default, Load, Probe}
Events  == {Start, End, Ready} \cup {Marker(i) : i \in 0..Slots}
Memory  == {Device, Source, Loaded, LoadSource}

Modes == {"pageable", "pinned", "pinned_wc"}
Measure(method, mode, load) == <<[method |-> method, mode |-> mode, load |-> load]>>

(* benchmark_cuda_transfers and benchmark_mover, for one size. *)
Transfers ==
    Measure("staging", "pageable", FALSE)
    \o Measure("measure", "pageable", FALSE) \o Measure("single", "pageable", FALSE)
    \o Measure("measure", "pinned", FALSE) \o Measure("single", "pinned", FALSE)
Mover(mode, busy) ==
    Measure("contiguous", mode, FALSE) \o Measure("queue", mode, FALSE)
    \o Measure("ready", mode, FALSE) \o (IF busy THEN Measure("ready", mode, TRUE) ELSE <<>>)

Init ==
    /\ calls \in {Transfers} \cup {Mover(mode, busy) : mode \in Modes, busy \in BOOLEAN}
    /\ at = "calling" /\ round = 0 /\ next = 1 /\ failing = FALSE /\ held = {}
    /\ stream = [s \in Streams |-> <<>>] /\ done = {} /\ stamp = [e \in Events |-> {}]
    /\ begun = [done |-> {}, backlog |-> {}] /\ samples = {}

-----------------------------------------------------------------------------
(* The commands.  A copy is identified by its round, its place there and   *)
(* its stream; round 0 is the warm-up.                                     *)

Make(what)              == [op |-> "make", what |-> what]
Copy(s, r, i, from, to) == [op |-> "copy", on |-> s, id |-> <<r, i, s>>, uses |-> {from, to}]
Record(e, s)            == [op |-> "record", what |-> e, on |-> s]
Wait(e)                 == [op |-> "wait", what |-> e]
Drain(s)                == [op |-> "drain", what |-> s]
Clock                   == [op |-> "clock"]
Stop(by, r, unit)       == [op |-> "stop", by |-> by, round |-> r, unit |-> unit]
Elapsed(e, f, r, unit)  == [op |-> "elapsed", from |-> e, to |-> f, round |-> r, unit |-> unit]

CopyAt(r, i)   == Copy(Default, r, i, Source, Device)
CopiesOf(n, r) == [i \in 1..n |-> CopyAt(r, i)]
WarmUp(e)      == CopiesOf(Warmups, 0) \o <<Record(e, Default), Wait(e)>>
Timed(copies, r, unit) ==
    <<Record(Start, Default)>> \o copies \o <<Record(End, Default), Wait(End), Elapsed(Start, End, r, unit)>>

(* measure: a batch of copies between two events, and between two looks at the clock. *)
(* Faulty: the clock is stopped before the end of the batch is waited for. *)
UnsynchronizedMeasure(r) ==
    <<Clock, Record(Start, Default)>> \o CopiesOf(Slots, r)
    \o <<Record(End, Default), Stop("wall", r, Slots), Wait(End), Elapsed(Start, End, r, Slots)>>
MeasureRound(r) ==
    <<Clock, Record(Start, Default)>> \o CopiesOf(Slots, r)
    \o <<Record(End, Default), Wait(End), Stop("wall", r, Slots), Elapsed(Start, End, r, Slots)>>

(* measure_single_copy: the clock times the call that enqueues the copy. *)
SingleRound(r) == Timed(<<Clock, CopyAt(r, 1), Stop("enqueue", r, 1)>>, r, 1)

(* measure_contiguous_batch: timed_run of one copy of all slots, then of one per slot. *)
ContiguousRound(r) ==
    IF r % 2 = 1 THEN Timed(CopiesOf(1, r), r, 1) ELSE Timed(CopiesOf(Slots, r), r, Slots)

(* measure_queue_depth: a marker after each copy of a burst, waited for once. *)
Burst(r) == [k \in 1..(2 * Slots) |->
                IF k % 2 = 1 THEN CopyAt(r, (k + 1) \div 2) ELSE Record(Marker(k \div 2), Default)]
QueueRound(r) ==
    <<Clock, Record(Marker(0), Default)>> \o Burst(r) \o <<Wait(Marker(Slots)), Stop("wall", r, Slots)>>
    \o [i \in 1..Slots |-> Elapsed(Marker(i - 1), Marker(i), r, 1)]

(* measure_ready_latency: a copy on one stream while another may be busy. *)
LoadCopies(n, r) == [i \in 1..n |-> Copy(Load, r, i, LoadSource, Loaded)]
ProbeCopy(r, i)  == Copy(Probe, r, i, Source, Device)
ReadyRound(busy, r) ==
    LoadCopies(IF busy THEN Slots ELSE 0, r)
    \o <<Clock, ProbeCopy(r, 1), Record(Ready, Probe), Wait(Ready), Stop("ready", r, 1), Drain(Load), Drain(Probe)>>

(* What comes before the rounds: what is allocated, and the warm-up.       *)
(* measure_pageable_to_pinned is no more than that to the device: memmove  *)
(* is done when it returns.                                                *)
Setup(call) ==
    CASE call.method = "staging" -> <<Make(Source)>>
      [] call.method \in {"measure", "single", "contiguous"} ->
            <<Make(Device), Make(Source), Make(Start), Make(End)>> \o WarmUp(End)
      [] call.method = "queue" ->
            <<Make(Device), Make(Source)>> \o [i \in 1..(Slots + 1) |-> Make(Marker(i - 1))] \o WarmUp(Marker(Slots))
      [] call.method = "ready" ->
            <<Make(Device), Make(Source), Make(Ready), Make(Load), Make(Probe)>>
            \o (IF call.load THEN <<Make(Loaded), Make(LoadSource)>> \o LoadCopies(Warmups, 0) \o <<Drain(Load)>>
                ELSE [i \in 1..Warmups |-> ProbeCopy(0, i)] \o <<Drain(Probe)>>)

Round(call, r) ==
    CASE call.method = "measure"    -> MeasureRound(r)
      [] call.method = "single"     -> SingleRound(r)
      [] call.method = "contiguous" -> ContiguousRound(r)
      [] call.method = "queue"      -> QueueRound(r)
      [] call.method = "ready"      -> ReadyRound(call.load, r)
RoundsOf(call) ==
    CASE call.method = "staging" -> 0 [] call.method = "contiguous" -> 2 * Rounds [] OTHER -> Rounds

Commands(call, r) == IF r = 0 THEN Setup(call) ELSE Round(call, r)

(* The `finally' of the method: what it releases, in its order.  Pageable  *)
(* memory belongs to Python and goes last; cudaFreeHost refuses it.        *)
(* Faulty: Python's memory goes before the device's. *)
OwnerFirst(call) == <<Source, Device>>
HostAndDevice(call) ==
    IF call.mode = "pageable" THEN <<Device, Source>> ELSE <<Source, Device>>
Releases(call) ==
    CASE call.method = "staging" -> <<Source>>
      [] call.method \in {"measure", "single", "contiguous"} -> <<End, Start>> \o HostAndDevice(call)
      [] call.method = "queue" -> [i \in 1..(Slots + 1) |-> Marker(Slots + 1 - i)] \o HostAndDevice(call)
      [] call.method = "ready" -> <<Probe, Load, Ready, Loaded, LoadSource>> \o HostAndDevice(call)

-----------------------------------------------------------------------------
(* The host *)

Pending  == UNION {{stream[s][i].id : i \in {j \in DOMAIN stream[s] : stream[s][j].op = "copy"}} : s \in Streams}
Reached(e) == \A s \in Streams : \A i \in DOMAIN stream[s] : stream[s][i].op = "record" => stream[s][i].what # e

Todo == IF at = "releasing" THEN Releases(Head(calls)) ELSE Commands(Head(calls), round)
Over == next > Len(Todo)

Call ==
    /\ at = "calling" /\ calls # <<>>
    /\ at' = "running" /\ round' = 0 /\ next' = 1
    /\ done' = {} /\ stamp' = [e \in Events |-> {}] /\ samples' = {}
    /\ UNCHANGED <<calls, failing, held, stream, begun>>

NextRound ==
    /\ at = "running" /\ Over /\ round < RoundsOf(Head(calls))
    /\ round' = round + 1 /\ next' = 1
    /\ UNCHANGED <<calls, at, failing, held, stream, done, stamp, begun, samples>>

Command == Todo[next]
Doing(op) == at = "running" /\ ~Over /\ Command.op = op /\ next' = next + 1 /\ UNCHANGED round

Acquire ==
    /\ Doing("make") /\ held' = held \cup {Command.what}
    /\ UNCHANGED <<calls, at, failing, stream, done, stamp, begun, samples>>
(* cudaMemcpyAsync and cudaEventRecord return before the device gets to it. *)
Enqueue ==
    /\ Doing("copy") \/ Doing("record")
    /\ stream' = [stream EXCEPT ![Command.on] = Append(@, Command)]
    /\ UNCHANGED <<calls, at, failing, held, done, stamp, begun, samples>>
(* cudaEventSynchronize, or asking cudaEventQuery until it is there. *)
WaitEvent ==
    /\ Doing("wait") /\ Reached(Command.what)
    /\ UNCHANGED <<calls, at, failing, held, stream, done, stamp, begun, samples>>
WaitStream ==
    /\ Doing("drain") /\ stream[Command.what] = <<>>
    /\ UNCHANGED <<calls, at, failing, held, stream, done, stamp, begun, samples>>
ReadClock ==
    /\ Doing("clock") /\ begun' = [done |-> done, backlog |-> Pending]
    /\ UNCHANGED <<calls, at, failing, held, stream, done, stamp, samples>>
StopClock ==
    /\ Doing("stop")
    /\ samples' = samples \cup {[by |-> Command.by, round |-> Command.round, unit |-> Command.unit,
                                 covers |-> done \ begun.done, backlog |-> begun.backlog]}
    /\ UNCHANGED <<calls, at, failing, held, stream, done, stamp, begun>>
(* cudaEventElapsedTime fails for an event that is not reached. *)
ReadElapsed ==
    /\ Doing("elapsed") /\ Reached(Command.from) /\ Reached(Command.to)
    /\ samples' = samples \cup {[by |-> "event", round |-> Command.round, unit |-> Command.unit,
                                 covers |-> stamp[Command.to] \ stamp[Command.from], backlog |-> {}]}
    /\ UNCHANGED <<calls, at, failing, held, stream, done, stamp, begun>>

(* _check raises for any call of the `try' that failed; an interrupt there *)
(* does as well.  No call of the `finally' is checked.                     *)
Leave == at' = "releasing" /\ next' = 1
Fail ==
    /\ at = "running" /\ (~Over \/ round < RoundsOf(Head(calls)))
    /\ Leave /\ failing' = TRUE
    /\ UNCHANGED <<calls, round, held, stream, done, stamp, begun, samples>>
Return ==
    /\ at = "running" /\ Over /\ round = RoundsOf(Head(calls))
    /\ Leave
    /\ UNCHANGED <<calls, round, failing, held, stream, done, stamp, begun, samples>>

(* cudaFree and cudaFreeHost return when the device is idle; the work of a *)
(* destroyed event or stream goes on.                                      *)
Blocks(what) == what \in Memory /\ ~(what = Source /\ Head(calls).mode = "pageable")
Release ==
    /\ at = "releasing" /\ ~Over /\ next' = next + 1
    /\ (Command \in held /\ Blocks(Command)) => \A s \in Streams : stream[s] = <<>>
    /\ held' = held \ {Command}
    /\ UNCHANGED <<calls, at, round, failing, stream, done, stamp, begun, samples>>

(* The caller goes on with the next measurement, or raises: the method's   *)
(* exception, or the ValueError of a sample that is not positive, which    *)
(* only the ready times are kept from being.  The samples of measure are   *)
(* summarized with those of the single copies after it.                    *)
Summarize ==
    /\ at = "releasing" /\ Over
    /\ \/ ~failing /\ calls' = Tail(calls) /\ at' = IF Len(calls) = 1 THEN "reported" ELSE "calling"
       \/ /\ failing \/ Head(calls).method \notin {"measure", "ready"}
          /\ at' = "raised" /\ UNCHANGED calls
    /\ UNCHANGED <<round, next, failing, held, stream, done, stamp, begun, samples>>

(* The device executes what is first in a stream. *)
DeviceStep == \E s \in Streams :
    /\ stream[s] # <<>>
    /\ stream' = [stream EXCEPT ![s] = Tail(@)]
    /\ IF Head(stream[s]).op = "copy"
       THEN done' = done \cup {Head(stream[s]).id} /\ UNCHANGED stamp
       ELSE stamp' = [stamp EXCEPT ![Head(stream[s]).what] = done] /\ UNCHANGED done
    /\ UNCHANGED <<calls, at, round, next, failing, held, begun, samples>>

Benchmark ==
    \/ Call \/ NextRound \/ Acquire \/ Enqueue \/ WaitEvent \/ WaitStream \/ ReadClock \/ StopClock \/ ReadElapsed
    \/ Return \/ Release \/ Summarize
Next == Benchmark \/ Fail \/ DeviceStep

Spec == Init /\ [][Next]_cudaVars /\ WF_cudaVars(Benchmark) /\ WF_cudaVars(DeviceStep)

-----------------------------------------------------------------------------

TypeOK ==
    /\ calls \in Seq([method : {"staging", "measure", "single", "contiguous", "queue", "ready"},
                      mode : Modes, load : BOOLEAN])
    /\ at \in {"calling", "running", "releasing", "reported", "raised"}
    /\ failing \in BOOLEAN
    /\ held \subseteq Memory \cup Events \cup {Load, Probe}
    /\ DOMAIN stream = Streams /\ DOMAIN stamp = Events
    /\ at = "running" => round \in 0..RoundsOf(Head(calls)) /\ next \in 1..(Len(Todo) + 1)

(***************************************************************************)
(* What a sample of the report is divided by is the number of copies it    *)
(* covers, and these are copies of its own round: nothing of a warm-up or  *)
(* of another round, nor one still under way.  A single copy is enqueued   *)
(* to an idle device, and a ready time starts behind the background copies *)
(* of its own round only, and ends after its own copy.                     *)
(***************************************************************************)
SamplesAreTheirRounds == \A s \in samples :
    /\ \A c \in s.covers \cup s.backlog : c[1] = s.round
    /\ s.by \in {"event", "wall"} => Cardinality(s.covers) = s.unit
    /\ s.by \in {"wall", "enqueue"} => s.backlog = {}
    /\ s.by = "ready" => <<s.round, 1, Probe>> \in s.covers

(***************************************************************************)
(* No memory is released while the device still has a copy to execute that *)
(* reads or writes it, whatever call of the `try' failed or was            *)
(* interrupted; and when a method is over, nothing it allocated is left.   *)
(***************************************************************************)
BuffersOutliveCopies ==
    /\ \A s \in Streams : \A i \in DOMAIN stream[s] : stream[s][i].op = "copy" => stream[s][i].uses \subseteq held
    /\ at \in {"calling", "reported", "raised"} => held = {}

(* Every benchmark ends, with its report or an exception. *)
Done == at \in {"reported", "raised"}
=============================================================================
