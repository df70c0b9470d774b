--------------------------- MODULE StreamDeadline ---------------------------
(***************************************************************************)
(* One HTTP call to the owned server with an absolute deadline: the caller *)
(* reads a response that may drip for ever, and a timer thread sets        *)
(* "expired" and shuts the caller's socket down.  The call is _http, which *)
(* reads to the end of the body, or one of the two streaming calls, which  *)
(* read lines up to a final event.                                         *)
(***************************************************************************)
EXTENDS Naturals

CONSTANT Parts      \* bound: the parts of a whole response

StreamDeadlineAssumption == Parts \in Nat \ {0}

VARIABLES
    kind,       \* "http" or "stream" (_stream_completion and chat)
    pc,         \* where the caller is
    sock,       \* "none", "open", "shut" by the timer, "closed"
    owned,      \* the socket is in owned_socket
    expired,    \* the event
    timer,      \* "armed", "firing" (between set and shutdown), "over"
    parts,      \* parts of the response received
    final,      \* the final event was received
    cut,        \* where the caller met the end of a shut socket: "no", "headers",
                \* in the midst of a line or chunk ("line"), or between two ("body")
    result      \* "none", "returned", "timeout", "error"

vars == <<kind, pc, sock, owned, expired, timer, parts, final, cut, result>>

Init ==
    /\ kind \in {"http", "stream"}
    /\ pc = "connect" /\ sock = "none" /\ owned = FALSE
    /\ expired = FALSE /\ timer = "armed"
    /\ parts = 0 /\ final = FALSE /\ cut = "no" /\ result = "none"

Goto(l) == pc' = l /\ UNCHANGED result

Finish(r) == pc' = "close" /\ result' = r

-----------------------------------------------------------------------------
(* The timer thread *)

(* Faulty: the socket is shut down before the event is set. *)
FireShutFirst ==
    /\ timer = "armed"
    /\ timer' = "firing"
    /\ sock' = IF owned /\ sock = "open" THEN "shut" ELSE sock
    /\ UNCHANGED <<kind, pc, owned, expired, parts, final, cut, result>>

(* expire, at the deadline *)
Fire ==
    /\ timer = "armed"
    /\ timer' = "firing" /\ expired' = TRUE
    /\ UNCHANGED <<kind, pc, sock, owned, parts, final, cut, result>>

Shut ==
    /\ timer = "firing"
    /\ timer' = "over" /\ expired' = TRUE
    /\ sock' = IF owned /\ sock = "open" THEN "shut" ELSE sock
    /\ UNCHANGED <<kind, pc, owned, parts, final, cut, result>>

-----------------------------------------------------------------------------
(* The caller *)

Connect ==
    /\ pc = "connect"
    /\ \/ sock' = "open" /\ Goto("own")
       \/ Goto("except") /\ UNCHANGED sock
    /\ UNCHANGED <<kind, owned, expired, timer, parts, final, cut>>

(* Faulty: the timer does not get to know the socket. *)
OwnNothing ==
    /\ pc = "own"
    /\ Goto("check")
    /\ UNCHANGED <<kind, sock, owned, expired, timer, parts, final, cut>>

Own ==
    /\ pc = "own"
    /\ owned' = TRUE
    /\ Goto("check")
    /\ UNCHANGED <<kind, sock, expired, timer, parts, final, cut>>

(* The deadline may have passed before the timer knew the socket. *)
Check ==
    /\ pc = "check"
    /\ IF expired THEN Finish("timeout") ELSE Goto("headers")
    /\ UNCHANGED <<kind, sock, owned, expired, timer, parts, final, cut>>

(* The request and getresponse: nothing here looks at the event. *)
Headers ==
    /\ pc = "headers"
    /\ \/ sock = "shut" /\ cut' = "headers" /\ Goto("except")
       \/ sock = "open" /\ (Goto("turn") \/ Goto("except")) /\ UNCHANGED cut
    /\ UNCHANGED <<kind, sock, owned, expired, timer, parts, final>>

Turn ==
    /\ pc = "turn"
    /\ IF expired THEN (IF kind = "http" THEN Finish("timeout") ELSE Goto("verdict"))
       ELSE Goto("read")
    /\ UNCHANGED <<kind, sock, owned, expired, timer, parts, final, cut>>

(* One read: a part, possibly one received before the shutdown, or the end. *)
Part ==
    /\ pc = "read" /\ parts < Parts
    /\ parts' = parts + 1
    /\ final' = (parts' = Parts)
    /\ IF final' /\ kind = "stream" THEN Goto("verdict") ELSE Goto("turn")
    /\ UNCHANGED <<kind, sock, owned, expired, timer, cut>>

(* A line or chunk that brings the response no further. *)
Drip ==
    /\ pc = "read" /\ sock = "open"
    /\ Goto("turn")
    /\ UNCHANGED <<kind, sock, owned, expired, timer, parts, final, cut>>

(***************************************************************************)
(* The end of what can be read.  A line or chunk that is cut in its midst  *)
(* raises (IncompleteRead, OSError, or json.loads on half an event) before *)
(* anything looks at the event again.                                      *)
(***************************************************************************)
EndOfBody ==
    /\ pc = "read"
    /\ \/ sock = "shut" /\ cut' = "body" /\ Goto("verdict")
       \/ sock = "shut" /\ cut' = "line" /\ Goto("except")
       \/ sock = "open" /\ (Goto("verdict") \/ Goto("except")) /\ UNCHANGED cut
    /\ UNCHANGED <<kind, sock, owned, expired, timer, parts, final>>

(* Faulty: a stream that ends is taken for a complete one. *)
VerdictOnEnd ==
    /\ pc = "verdict"
    /\ IF expired THEN Finish("timeout") ELSE Finish("returned")
    /\ UNCHANGED <<kind, sock, owned, expired, timer, parts, final, cut>>

(* After the loop: the event, then the final event or the body's JSON. *)
Verdict ==
    /\ pc = "verdict"
    /\ IF expired THEN Finish("timeout")
       ELSE IF final THEN Finish("returned") ELSE Finish("error")
    /\ UNCHANGED <<kind, sock, owned, expired, timer, parts, final, cut>>

(* Only _http turns an exception after the deadline into a timeout. *)
Except ==
    /\ pc = "except"
    /\ Finish(IF kind = "http" /\ expired THEN "timeout" ELSE "error")
    /\ UNCHANGED <<kind, sock, owned, expired, timer, parts, final, cut>>

(* Faulty: the timer is not cancelled. *)
CloseOnly ==
    /\ pc = "close"
    /\ sock' = IF sock = "none" THEN "none" ELSE "closed"
    /\ Goto("done")
    /\ UNCHANGED <<kind, owned, expired, timer, parts, final, cut>>

(* The finally block; a timer that fires already runs on. *)
Close ==
    /\ pc = "close"
    /\ timer' = IF timer = "armed" THEN "over" ELSE timer
    /\ sock' = IF sock = "none" THEN "none" ELSE "closed"
    /\ Goto("done")
    /\ UNCHANGED <<kind, owned, expired, parts, final, cut>>

Timer  == Fire \/ Shut
Caller == Connect \/ Own \/ Check \/ Turn \/ Verdict \/ Except \/ Close
Reads  == Headers \/ Part \/ Drip \/ EndOfBody

Next == Timer \/ Caller \/ Reads

Spec == Init /\ [][Next]_vars

(***************************************************************************)
(* Both threads run and connect has the socket's timeout.  A read owes     *)
(* nothing while the socket is open, since every trickling byte renews the *)
(* socket's own timeout; it returns once the socket is shut.               *)
(***************************************************************************)
FairSpec == Spec /\ WF_vars(Timer) /\ WF_vars(Caller) /\ WF_vars(Reads /\ sock = "shut")

-----------------------------------------------------------------------------
(* Correctness properties *)

(* Kinds of values; a call that is over holds no open socket and no timer. *)
TypeOK ==
    /\ kind \in {"http", "stream"}
    /\ pc \in {"connect", "own", "check", "headers", "turn", "read", "verdict", "except", "close", "done"}
    /\ sock \in {"none", "open", "shut", "closed"}
    /\ owned \in BOOLEAN /\ expired \in BOOLEAN /\ final \in BOOLEAN
    /\ timer \in {"armed", "firing", "over"}
    /\ parts \in 0..Parts /\ cut \in {"no", "headers", "line", "body"}
    /\ result \in {"none", "returned", "timeout", "error"}
    /\ pc = "done" => sock \in {"none", "closed"} /\ timer # "armed" /\ result # "none"

(***************************************************************************)
(* What is returned is a whole response, never one cut by server or timer; *)
(* and a response the timer cut is reported as a timeout, not as a server  *)
(* fault: by _http wherever it was cut, by a stream only when it was cut   *)
(* between two lines (a stream cut in its headers or within a line raises  *)
(* the error it met there).                                                *)
(***************************************************************************)
ReturnedIsWhole == result = "returned" => parts = Parts /\ cut = "no"
CutIsTimeout ==
    pc = "done" /\ cut # "no" /\ (kind = "http" \/ cut = "body") => result = "timeout"
ResultIsTrue == ReturnedIsWhole /\ CutIsTimeout

(* The call has ended, as under FairSpec it always does: the deadline is absolute, however the server trickles. *)
Done == pc = "done"
=============================================================================
