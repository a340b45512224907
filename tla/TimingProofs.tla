------------------------------ MODULE TimingProofs -----------------------------
(***************************************************************************)
(* The two modules in discrete time, for every length of their windows.    *)
(* Debouncer: its types, that a reconcile follows a whole quiet window, and  *)
(* that an event waits at most one window once things have calmed down.     *)
(* Welcome: its types, and that a request is cut by a shutdown only after    *)
(* the whole window, for any addresses and requests.                        *)
(***************************************************************************)
EXTENDS Debouncer, Welcome, TLAPS

-----------------------------------------------------------------------------
(* Debouncer.                                                              *)

(* What the timer and the queue say about the time gone by. *)
TimerInv ==
    /\ timer \in 0..Window => timer + quiet = Window
    /\ busy => timer = Off
    /\ timer # Off => rest <= quiet
    /\ ~busy /\ queued > 0 => rest = 0
    /\ pending /\ queued = 0 => ~busy /\ timer # Off

DebouncerInv == TypeOK /\ TimerInv

LEMMA DebouncerInvInit == Init => DebouncerInv
<1>. SUFFICES ASSUME Init PROVE DebouncerInv
  OBVIOUS
<1>1. busy \in BOOLEAN /\ pending \in BOOLEAN /\ ~busy /\ ~pending
  BY DEF Init
<1>2. timer = Off /\ queued = 0 /\ quiet = 0 /\ calm = 0 /\ rest = 0
  BY DEF Init
<1>. QED
  BY <1>1, <1>2, DebouncerAssumption
     DEF DebouncerAssumption, DebouncerInv, TypeOK, TimerInv, Off

LEMMA DebouncerInvStep == DebouncerInv /\ [Next]_vars => DebouncerInv'
<1>. SUFFICES ASSUME DebouncerInv, [Next]_vars PROVE DebouncerInv'
  OBVIOUS
<1>. USE DebouncerAssumption DEF DebouncerAssumption, DebouncerInv, TypeOK, TimerInv, Off
<1>1. CASE Emit
  BY <1>1 DEF Emit
<1>2. CASE Receive
  BY <1>2 DEF Receive, Bump
<1>3. CASE Fire
  <2>1. busy' /\ ~pending' /\ busy' \in BOOLEAN /\ pending' \in BOOLEAN
    BY <1>3 DEF Fire
  <2>2. timer' = Off /\ UNCHANGED <<queued, quiet, calm, rest>>
    BY <1>3 DEF Fire
  <2>. QED
    BY <2>1, <2>2
<1>4. CASE EndReconcile
  <2>1. busy /\ ~busy' /\ busy' \in BOOLEAN
    BY <1>4 DEF EndReconcile
  <2>2. rest' = 0 /\ UNCHANGED <<timer, queued, pending, quiet, calm>>
    BY <1>4 DEF EndReconcile
  <2>. QED
    BY <2>1, <2>2
<1>5. CASE Tick
  <2>1. Later(quiet) \in 0..Off /\ Later(calm) \in 0..Off /\ Later(rest) \in 0..Off
    BY DEF Later
  <2>2. TypeOK'
    BY <1>5, <2>1 DEF Tick, Later
  <2>3. TimerInv'
    BY <1>5, <2>1 DEF Tick, Later
  <2>. QED
    BY <2>2, <2>3
<1>6. CASE UNCHANGED vars
  BY <1>6 DEF vars, history
<1>. QED
  BY <1>1, <1>2, <1>3, <1>4, <1>5, <1>6 DEF Next, Loop

LEMMA DebouncerInvAlways == Spec => []DebouncerInv
BY DebouncerInvInit, DebouncerInvStep, PTL DEF Spec

(* Debouncer is type correct, and a running timer counts from the last bump. *)
THEOREM DebouncerTyping == Spec => []TypeOK
<1>1. DebouncerInv => TypeOK
  BY DEF DebouncerInv
<1>. QED
  BY <1>1, DebouncerInvAlways, PTL

(* No reconcile starts less than a window after the last received event. *)
THEOREM DebouncerQuiet == Spec => QuietBeforeReconcile
<1>1. DebouncerInv /\ [Next]_vars => [~busy /\ busy' => quiet >= Window]_vars
  <2>. SUFFICES ASSUME DebouncerInv, Next, ~busy, busy' PROVE quiet >= Window
    BY DEF vars, history
  <2>1. Fire
    BY DEF Next, Loop, Emit, Receive, Fire, EndReconcile, Tick
  <2>. QED
    BY <2>1, DebouncerAssumption DEF Fire, DebouncerInv, TimerInv, TypeOK, Off,
       DebouncerAssumption
<1>. QED
  BY <1>1, DebouncerInvAlways, PTL DEF Spec, QuietBeforeReconcile

(* Whatever came while the last reconcile ran: an event is looked after one  *)
(* window after the last event or the last reconcile.                      *)
THEOREM DebouncerPrompt == Spec => []PromptlyReconciled
<1>1. DebouncerInv => PromptlyReconciled
  BY DebouncerAssumption
     DEF DebouncerAssumption, DebouncerInv, TypeOK, TimerInv, Off, PromptlyReconciled
<1>. QED
  BY <1>1, DebouncerInvAlways, PTL

-----------------------------------------------------------------------------
(* Welcome.                                                                *)

(* Which states of a server go with which part of main. *)
ServerInv ==
    /\ pc = "listening" => \A a \in Addrs : server[a] = "none"
    /\ pc = "serving" => \A a \in Addrs : server[a] \in {"up", "failed"}
    /\ pc = "stopping" => \A a \in Addrs : server[a] # "none"
    /\ pc = "draining" => \A a \in Addrs : server[a] = "closed"

(* No time passes before every server has been told to end, and a request   *)
(* that is still served has been so all the time.                           *)
ClockInv ==
    /\ pc \in {"listening", "serving"} => clock = 0
    /\ \A a \in Addrs : server[a] \in {"up", "failed"} => clock = 0
    /\ \A r \in Requests :
         /\ request[r] \in {"unsent", "backlog"} => served[r] = 0
         /\ request[r] = "active" => served[r] = clock

(* A server that closed over a request did so at the deadline. *)
CutInv ==
    \A r \in Requests :
        request[r] = "active" =>
            /\ server[AddrOf[r]] # "none"
            /\ server[AddrOf[r]] = "closed" => clock = Deadline

WelcomeInv == WelcomeTypeOK /\ ServerInv /\ ClockInv /\ CutInv /\ WholeWindow

LEMMA WelcomeInvInit == WelcomeInit => WelcomeInv
BY WelcomeAssumption
   DEF WelcomeAssumption, WelcomeInit, WelcomeInv, WelcomeTypeOK, ServerInv, ClockInv, CutInv,
       WholeWindow

(* A closing listener takes only the backlog with it. *)
LEMMA ClosedListener ==
    ASSUME WelcomeTypeOK, NEW a \in Addrs, Close(a)
    PROVE  /\ bound' \subseteq Addrs
           /\ request' \in [Requests -> {"unsent", "backlog", "active", "answered", "refused", "cut"}]
           /\ \A r \in Requests : request'[r] \in {request[r], "refused"}
BY DEF Close, WelcomeTypeOK

(* The end of the process cuts what is active and nothing else. *)
LEMMA EndedProcess ==
    ASSUME WelcomeInv, End, UNCHANGED <<server, clock, served>>,
           \A r \in Requests : request[r] = "active" => clock = Deadline
    PROVE  WelcomeInv'
<1>. USE DEF End, WelcomeInv, WelcomeTypeOK
<1>1. request' \in [Requests -> {"unsent", "backlog", "active", "answered", "refused", "cut"}]
  OBVIOUS
<1>2. \A r \in Requests :
        /\ request'[r] \notin {"active", "backlog"}
        /\ request'[r] = "unsent" => request[r] = "unsent"
        /\ request'[r] = "cut" => request[r] \in {"active", "cut"}
  OBVIOUS
<1>3. WelcomeTypeOK' /\ ServerInv'
  BY <1>1 DEF ServerInv
<1>4. ClockInv'
  BY <1>2 DEF ClockInv
<1>5. CutInv'
  BY <1>2 DEF CutInv
<1>6. WholeWindow'
  BY <1>2 DEF ClockInv, WholeWindow
<1>. QED
  BY <1>3, <1>4, <1>5, <1>6

LEMMA WelcomeInvStep == WelcomeInv /\ [WelcomeNext]_welcomeVars => WelcomeInv'
<1>. SUFFICES ASSUME WelcomeInv, [WelcomeNext]_welcomeVars PROVE WelcomeInv'
  OBVIOUS
<1>. USE WelcomeAssumption DEF WelcomeAssumption, WelcomeInv, WelcomeTypeOK, time
<1>1. ASSUME NEW a \in Addrs, Listen(a) PROVE WelcomeInv'
  BY <1>1 DEF Listen, ServerInv, ClockInv, CutInv, WholeWindow
<1>2. CASE ListenFails
  <2>1. \A r \in Requests : request[r] # "active"
    BY <1>2 DEF ListenFails, ServerInv, CutInv
  <2>. QED
    BY <1>2, <2>1, EndedProcess DEF ListenFails
<1>3. CASE Serve
  <2>1. \A r \in Requests : request[r] # "active"
    BY <1>3 DEF Serve, ServerInv, CutInv
  <2>. QED
    BY <1>3, <2>1 DEF Serve, ServerInv, ClockInv, CutInv, WholeWindow
<1>4. ASSUME NEW r \in Requests, Connect(r) PROVE WelcomeInv'
  BY <1>4 DEF Connect, ServerInv, ClockInv, CutInv, WholeWindow
<1>5. ASSUME NEW r \in Requests, Accept(r) PROVE WelcomeInv'
  BY <1>5 DEF Accept, ServerInv, ClockInv, CutInv, WholeWindow
<1>6. ASSUME NEW r \in Requests, Answer(r) PROVE WelcomeInv'
  BY <1>6 DEF Answer, ServerInv, ClockInv, CutInv, WholeWindow
<1>7. ASSUME NEW a \in Addrs, ServeFails(a) PROVE WelcomeInv'
  BY <1>7, ClosedListener DEF ServeFails, ServerInv, ClockInv, CutInv, WholeWindow
<1>8. CASE Signal
  BY <1>8 DEF Signal, ServerInv, ClockInv, CutInv, WholeWindow
<1>9. ASSUME NEW a \in Addrs, BeginShutdown(a) PROVE WelcomeInv'
  BY <1>9, ClosedListener
     DEF BeginShutdown, MayBegin, ServerInv, ClockInv, CutInv, WholeWindow
<1>10. ASSUME NEW a \in Addrs, EndShutdown(a) PROVE WelcomeInv'
  BY <1>10 DEF EndShutdown, MayEnd, Active, ServerInv, ClockInv, CutInv, WholeWindow
<1>11. CASE ShutdownsEnd
  BY <1>11 DEF ShutdownsEnd, ServerInv, ClockInv, CutInv, WholeWindow
<1>12. CASE Exit
  <2>1. \A r \in Requests : request[r] = "active" => clock = Deadline
    BY <1>12 DEF Exit, ServerInv, CutInv
  <2>. QED
    BY <1>12, <2>1, EndedProcess DEF Exit
<1>13. CASE TimePasses
  <2>1. PICK a \in Addrs : server[a] = "closing" /\ ~MayEnd(a)
    BY <1>13 DEF TimePasses, MayBegin, ServerInv
  <2>2. clock < Deadline /\ clock' = clock + 1
    BY <1>13, <2>1 DEF TimePasses, MayEnd, Ticked
  <2>3. \A b \in Addrs : server[b] \notin {"up", "failed"}
    BY <1>13 DEF TimePasses, MayBegin
  <2>4. \A r \in Requests : served'[r] = IF request[r] = "active" THEN clock + 1 ELSE served[r]
    BY <1>13, <2>2 DEF TimePasses, Ticked, ClockInv
  <2>5. WelcomeTypeOK'
    BY <1>13, <2>2, <2>4 DEF TimePasses
  <2>6. ServerInv' /\ WholeWindow'
    BY <1>13, <2>4 DEF TimePasses, ServerInv, WholeWindow
  <2>7. ClockInv'
    BY <1>13, <2>2, <2>3, <2>4 DEF TimePasses, ClockInv
  <2>8. CutInv'
    BY <1>13, <2>2 DEF TimePasses, CutInv
  <2>. QED
    BY <2>5, <2>6, <2>7, <2>8
<1>14. CASE UNCHANGED welcomeVars
  BY <1>14 DEF welcomeVars, ServerInv, ClockInv, CutInv, WholeWindow
<1>. QED
  BY <1>1, <1>2, <1>3, <1>4, <1>5, <1>6, <1>7, <1>8, <1>9, <1>10, <1>11, <1>12, <1>13, <1>14
     DEF WelcomeNext, Own

LEMMA WelcomeInvAlways == WelcomeSpec => []WelcomeInv
BY WelcomeInvInit, WelcomeInvStep, PTL DEF WelcomeSpec

(* Welcome is type correct: in particular the shutdown keeps its deadline.   *)
THEOREM WelcomeTyping == WelcomeSpec => []WelcomeTypeOK
<1>1. WelcomeInv => WelcomeTypeOK
  BY DEF WelcomeInv
<1>. QED
  BY <1>1, WelcomeInvAlways, PTL

(* However many addresses and whatever failed: a request that is cut was     *)
(* served for the whole deadline.                                          *)
THEOREM WelcomeWholeWindow == WelcomeSpec => []WholeWindow
<1>1. WelcomeInv => WholeWindow
  BY DEF WelcomeInv
<1>. QED
  BY <1>1, WelcomeInvAlways, PTL
=============================================================================
