----------------------------- MODULE MCDiscoverer -----------------------------
(***************************************************************************)
(* Discoverer for TLC: two containers of two compose projects and one       *)
(* without, whose hostname Render refuses; every failure, and a history of  *)
(* whether one has happened.                                                *)
(***************************************************************************)
EXTENDS Discoverer

CONSTANTS a, b, u, PA, PB

MCProjectOf == [c \in {a, b, u} |-> CASE c = a -> PA [] c = b -> PB [] c = u -> Standalone]

VARIABLE failed   \* history: something has failed

(* A step in which something fails.  A container that has stopped cannot be *)
(* inspected and need not be.                                               *)
Failure ==
    \/ ListFail \/ CallFail \/ RenderFail \/ WriteFail
    \/ \E c \in Containers : state[c] # "stopped" /\ InspectFail(c)
    \/ StreamError \/ Crash

HistoryInit == Init /\ failed = FALSE

HistoryNext == Next /\ failed' = (failed \/ Failure)

MCSpec == HistoryInit /\ [][HistoryNext]_<<vars, failed>> /\ Fairness

(* "On startup it does a full container scan [...] Subsequent events        *)
(* trigger a debounced reconcile" (main.go:2-4).  An event received, or     *)
(* still queued, is never forgotten: unless something fails, SIGTERM comes  *)
(* or a call to Docker never returns, auto.yml ends up routing exactly the  *)
(* running containers, also when they change while a reconcile is on its    *)
(* way.                                                                     *)
EventsConverge ==
    (queued # {} \/ timer) ~> (done \/ failed \/ [](auto = On) \/ []WaitsForDocker)
=============================================================================
