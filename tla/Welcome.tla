------------------------------- MODULE Welcome -------------------------------
(***************************************************************************)
(* The welcome process (cmd/welcome/main.go): one http.Server per listen    *)
(* address, and one SIGTERM that shuts them all down under one deadline.    *)
(* The handlers keep no state; what they answer is in RootCA.              *)
(*                                                                         *)
(* A request lasts any number of ticks: install.sh and root.crt go to a     *)
(* client as fast as it reads them.  What the goroutines do by themselves   *)
(* happens before the next tick.                                           *)
(***************************************************************************)
EXTENDS Integers

CONSTANTS Addrs,      \* the addresses of -listen
          Requests,   \* requests, each made at most once
          AddrOf,     \* the address each one goes to
          Deadline,   \* ticks of the shutdown context (5 s)
          Faults      \* the failures the environment may cause

FaultKinds == {"listen", "serve"}

ASSUME WelcomeAssumption ==
    /\ AddrOf \in [Requests -> Addrs]
    /\ Deadline \in Nat \ {0}
    /\ Faults \subseteq FaultKinds

VARIABLES pc,       \* main: "listening", "serving", "stopping" (sg.Wait), "draining" (wg.Wait), "gone"
          bound,    \* addresses with a listener
          server,   \* the server of every address
          request,  \* where every request stands
          clock,    \* ticks of the shutdown context that have passed
          served    \* history: ticks since the signal that a request was being served

welcomeVars == <<pc, bound, server, request, clock, served>>
time == <<clock, served>>

WelcomeInit ==
    /\ pc = "listening"
    /\ bound = {}
    /\ server = [a \in Addrs |-> "none"]
    /\ request = [r \in Requests |-> "unsent"]
    /\ clock = 0
    /\ served = [r \in Requests |-> 0]

(* Clocks count up to one tick more than the deadline. *)
Ticked(n) == IF n > Deadline THEN n ELSE n + 1

Active(a) == {r \in Requests : AddrOf[r] = a /\ request[r] = "active"}

(* The listener of an address is closed: the kernel resets its backlog. *)
Close(a) ==
    /\ bound' = bound \ {a}
    /\ request' = [r \in Requests |->
                     IF AddrOf[r] = a /\ request[r] = "backlog" THEN "refused" ELSE request[r]]

(* The process ends, and what it was doing with it. *)
End ==
    /\ pc' = "gone"
    /\ bound' = {}
    /\ request' = [r \in Requests |-> CASE request[r] = "active" -> "cut"
                                        [] request[r] = "backlog" -> "refused"
                                        [] OTHER -> request[r]]

-----------------------------------------------------------------------------
(* Start: every address or none.                                           *)

Listen(a) ==
    /\ pc = "listening"
    /\ a \notin bound
    /\ bound' = bound \cup {a}
    /\ UNCHANGED <<pc, server, request, time>>

(* log.Fatalf, whatever was listening already. *)
ListenFails ==
    /\ "listen" \in Faults
    /\ pc = "listening"
    /\ bound # Addrs
    /\ End
    /\ UNCHANGED <<server, time>>

Serve ==
    /\ pc = "listening"
    /\ bound = Addrs
    /\ pc' = "serving"
    /\ server' = [a \in Addrs |-> "up"]
    /\ UNCHANGED <<bound, request, time>>

-----------------------------------------------------------------------------
(* Requests.                                                               *)

(* A client connects: to a listener's backlog, or to nobody. *)
Connect(r) ==
    /\ request[r] = "unsent"
    /\ request' = [request EXCEPT ![r] = IF AddrOf[r] \in bound THEN "backlog" ELSE "refused"]
    /\ UNCHANGED <<pc, bound, server, time>>

Accept(r) ==
    /\ request[r] = "backlog"
    /\ server[AddrOf[r]] = "up"
    /\ request' = [request EXCEPT ![r] = "active"]
    /\ UNCHANGED <<pc, bound, server, time>>

Answer(r) ==
    /\ request[r] = "active"
    /\ request' = [request EXCEPT ![r] = "answered"]
    /\ UNCHANGED <<pc, bound, server, time>>

(* Accept fails for good: Serve closes the listener, its goroutine logs the *)
(* error and ends.  The other servers go on, and so do the requests this    *)
(* one has; nobody restarts it.                                            *)
ServeFails(a) ==
    /\ "serve" \in Faults
    /\ pc = "serving"
    /\ server[a] = "up"
    /\ server' = [server EXCEPT ![a] = "failed"]
    /\ Close(a)
    /\ UNCHANGED <<pc, time>>

-----------------------------------------------------------------------------
(* Shutdown.                                                               *)

Signal ==
    /\ pc = "serving"
    /\ pc' = "stopping"
    /\ UNCHANGED <<bound, server, request, time>>

(* Slip: one server after the other. *)
MayBeginInTurn(a) ==
    /\ server[a] \in {"up", "failed"}
    /\ \A b \in Addrs : server[b] # "closing"

(* The goroutine of this server has not called Shutdown yet. *)
MayBegin(a) == server[a] \in {"up", "failed"}

(* Shutdown closes the listener first. *)
BeginShutdown(a) ==
    /\ pc = "stopping"
    /\ MayBegin(a)
    /\ server' = [server EXCEPT ![a] = "closing"]
    /\ Close(a)
    /\ UNCHANGED <<pc, time>>

(* Slip: Shutdown has no deadline. *)
MayEndWhenIdle(a) == server[a] = "closing" /\ Active(a) = {}

(* Shutdown returns when no connection is active or the context is done. *)
MayEnd(a) == server[a] = "closing" /\ (Active(a) = {} \/ clock >= Deadline)

EndShutdown(a) ==
    /\ MayEnd(a)
    /\ server' = [server EXCEPT ![a] = "closed"]
    /\ UNCHANGED <<pc, bound, request, time>>

ShutdownsEnd ==
    /\ pc = "stopping"
    /\ \A a \in Addrs : server[a] = "closed"
    /\ pc' = "draining"
    /\ UNCHANGED <<bound, server, request, time>>

(* Every Serve has returned, at the latest when its listener was closed;    *)
(* main returns.                                                           *)
Exit ==
    /\ pc = "draining"
    /\ End
    /\ UNCHANGED <<server, time>>

(* What the process does without waiting for anybody. *)
Own ==
    \/ \E a \in Addrs : Listen(a) \/ BeginShutdown(a) \/ EndShutdown(a)
    \/ \E r \in Requests : Accept(r)
    \/ Serve \/ ShutdownsEnd \/ Exit

(* Time matters from the signal on, and goes by only while every Shutdown   *)
(* there still is waits: none may begin, none may end, and not all have.    *)
(* (That Own can take no step says the same.)                               *)
TimePasses ==
    /\ pc = "stopping"
    /\ \A a \in Addrs : ~MayBegin(a) /\ ~MayEnd(a)
    /\ \E a \in Addrs : server[a] # "closed"
    /\ clock' = Ticked(clock)
    /\ served' = [r \in Requests |->
                    IF request[r] = "active" THEN Ticked(served[r]) ELSE served[r]]
    /\ UNCHANGED <<pc, bound, server, request>>

WelcomeNext ==
    \/ Own \/ ListenFails \/ Signal \/ TimePasses
    \/ \E a \in Addrs : ServeFails(a)
    \/ \E r \in Requests : Connect(r) \/ Answer(r)
    \/ pc = "gone" /\ UNCHANGED welcomeVars

WelcomeSpec == WelcomeInit /\ [][WelcomeNext]_welcomeVars

(* The process runs and time passes; clients need not read. *)
FairWelcomeSpec == WelcomeSpec /\ WF_welcomeVars(Own) /\ WF_welcomeVars(TimePasses)

-----------------------------------------------------------------------------
(* Properties.                                                             *)

(* Type correctness.  The shutdown keeps its deadline, and so stays within  *)
(* the time Docker waits before it kills: clock never passes Deadline.      *)
WelcomeTypeOK ==
    /\ pc \in {"listening", "serving", "stopping", "draining", "gone"}
    /\ bound \subseteq Addrs
    /\ server \in [Addrs -> {"none", "up", "failed", "closing", "closed"}]
    /\ request \in [Requests -> {"unsent", "backlog", "active", "answered", "refused", "cut"}]
    /\ clock \in 0..Deadline
    /\ served \in [Requests -> 0..Deadline]

(* "a sequential loop sharing one deadline can starve later servers of      *)
(* their shutdown window" (cmd/welcome/main.go:114-115): a request that was *)
(* begun on any address has the whole window to end, and a start that fails *)
(* breaks none.                                                            *)
WholeWindow == \A r \in Requests : request[r] = "cut" => served[r] = Deadline

(* A signal ends the process, though clients may not read their answers and *)
(* a server may have failed before.                                        *)
SignalEnds == pc = "stopping" ~> pc = "gone"
=============================================================================
