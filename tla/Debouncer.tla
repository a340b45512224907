------------------------------ MODULE Debouncer ------------------------------
(***************************************************************************)
(* The debouncer (debounce.go) with the select loop that drives it          *)
(* (reconcile.go, run), in discrete time.  Discoverer has the same loop     *)
(* with a timer that is armed or not; here it is the time that counts.      *)
(*                                                                         *)
(* Events queue in Docker's streams while a reconcile runs.  The loop takes *)
(* what is ready before the next tick: a tick is long against an iteration   *)
(* of the loop.  When an event and the timer are both ready, select takes    *)
(* either.  A reconcile lasts any number of ticks.                          *)
(***************************************************************************)
EXTENDS Integers

CONSTANTS Window,    \* the debounce duration d, in ticks
          MaxQueued  \* bound: events that wait in the streams

ASSUME DebouncerAssumption == Window \in Nat \ {0} /\ MaxQueued \in Nat \ {0}

VARIABLES timer,    \* ticks until it fires, 0: a value is in its channel, Off: stopped
          queued,   \* events the loop has not received
          busy,     \* a reconcile runs
          pending,  \* history: an event came that no reconcile has looked after
          quiet,    \* history: ticks since the last bump
          calm,     \* history: ticks since the last event
          rest      \* history: ticks since the last event or reconcile

history == <<pending, quiet, calm, rest>>
vars == <<timer, queued, busy, history>>

Off == Window + 1

(* Histories count up to one tick more than the window. *)
Later(n) == IF n > Window THEN n ELSE n + 1

(* newDebouncer: the timer is made stopped. *)
Init ==
    /\ timer = Off
    /\ queued = 0
    /\ busy = FALSE
    /\ pending = FALSE
    /\ quiet = 0
    /\ calm = 0
    /\ rest = 0

(* Docker puts an event into a stream. *)
Emit ==
    /\ queued < MaxQueued
    /\ queued' = queued + 1
    /\ pending' = TRUE
    /\ calm' = 0
    /\ rest' = 0
    /\ UNCHANGED <<timer, busy, quiet>>

(* Slip: a value that is in the channel already stays there. *)
BumpUndrained == timer' = IF timer = 0 THEN 0 ELSE Window

(* Slip: the timer is stopped and not started again. *)
BumpUnarmed == timer' = Off

(* bump: stop, take a value that may be there, start again. *)
Bump == timer' = Window

Receive ==
    /\ ~busy
    /\ queued > 0
    /\ queued' = queued - 1
    /\ Bump
    /\ quiet' = 0
    /\ UNCHANGED <<busy, pending, calm, rest>>

(* The value is received: reconcile lists the containers. *)
Fire ==
    /\ ~busy
    /\ timer = 0
    /\ timer' = Off
    /\ busy' = TRUE
    /\ pending' = FALSE
    /\ UNCHANGED <<queued, quiet, calm, rest>>

EndReconcile ==
    /\ busy
    /\ busy' = FALSE
    /\ rest' = 0
    /\ UNCHANGED <<timer, queued, pending, quiet, calm>>

(* Time passes; not while the loop has something to take. *)
Tick ==
    /\ busy \/ (queued = 0 /\ timer # 0)
    /\ timer' = IF timer \in {0, Off} THEN timer ELSE timer - 1
    /\ quiet' = Later(quiet)
    /\ calm' = Later(calm)
    /\ rest' = Later(rest)
    /\ UNCHANGED <<queued, busy, pending>>

Loop == Receive \/ Fire

Next == Emit \/ Loop \/ EndReconcile \/ Tick

Spec == Init /\ [][Next]_vars

(* The loop runs and time goes on.  A reconcile need not end: its calls to  *)
(* Docker have no deadline.                                                 *)
FairSpec == Spec /\ WF_vars(Loop) /\ WF_vars(Tick)

-----------------------------------------------------------------------------
(* Properties.                                                             *)

(* Type correctness, with what a running timer counts: the time since the   *)
(* last bump.                                                              *)
TypeOK ==
    /\ timer \in 0..Off
    /\ queued \in 0..MaxQueued
    /\ busy \in BOOLEAN /\ pending \in BOOLEAN
    /\ {quiet, calm, rest} \subseteq 0..Off
    /\ timer \in 1..Window => timer + quiet = Window

(* "a rapid sequence of starts produces one reconcile, not ten"             *)
(* (docs/architecture.md:31): a reconcile starts only when no event was     *)
(* received for the whole window, whichever channel select preferred and    *)
(* whatever queued up while the last reconcile ran.                         *)
QuietBeforeReconcile == [][~busy /\ busy' => quiet >= Window]_vars

(* Nothing is forgotten: an event that came before or during a reconcile is *)
(* looked after at most one window after things have calmed down.           *)
PromptlyReconciled == pending /\ ~busy => rest <= Window

(* Events that pause for longer than a window again and again, however      *)
(* short before and after, are all looked after in the end, unless a        *)
(* reconcile never ends.                                                    *)
PausesSuffice == []<>(calm > Window) => (pending ~> (~pending \/ []busy))
=============================================================================
