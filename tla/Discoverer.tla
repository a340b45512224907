------------------------------ MODULE Discoverer ------------------------------
(***************************************************************************)
(* The discoverer process (cmd/discoverer): boot scan with retries, event  *)
(* subscription, debounced select loop, and the reconcile pipeline list -> *)
(* inspect -> reissue when the project set changed -> render -> write.     *)
(* Everything the goroutine does between two points at which Docker,       *)
(* certgen, a signal or a crash can intervene is one action.               *)
(*                                                                         *)
(* A container is a model value with its compose project; its hostname is  *)
(* safe for Render or not.  Docker's view of it is "stopped", "off" (it    *)
(* runs, but FromContainer skips it: not on the network, no usable port)   *)
(* or "on".  An event only restarts the debounce timer, so a stream is     *)
(* either empty or has events queued.                                      *)
(***************************************************************************)
EXTENDS Integers

CONSTANTS Containers,
          Projects,      \* compose project names
          Standalone,    \* "project" of a container without compose labels
          ProjectOf,     \* compose project of every container
          Unsafe,        \* containers whose hostname Render refuses
          MaxAttempts,   \* bootMaxAttempts
          MaxChanges,    \* bound: container state changes in a behaviour
          Faults         \* the failures the environment may cause

FaultKinds == {"list", "inspect", "reissue", "write", "stream", "sigterm", "crash", "shrink"}

ASSUME DiscovererAssumption ==
    /\ ProjectOf \in [Containers -> Projects \cup {Standalone}]
    /\ Standalone \notin Projects
    /\ Unsafe \subseteq Containers
    /\ MaxAttempts \in Nat \ {0}
    /\ MaxChanges \in Nat
    /\ Faults \subseteq FaultKinds

VARIABLES
    state,         \* Docker: state of every container
    changes,       \* how often it changed, for the bound
    streams,       \* event streams the discoverer is subscribed to
    queued,        \* those with events it has not received
    pc,            \* where its goroutine stands
    booting,       \* it is inside bootReconcile
    attempt,       \* the attempt bootReconcile is at
    done,          \* its context is cancelled
    timer,         \* the debounce timer is armed
    todo,          \* listed containers it has not inspected
    snap,          \* what it saw of every container in this reconcile
    lastProjects,  \* reconciler.lastProjects
    auto,          \* auto.yml: the containers it routes
    steady         \* history: containers that did not change since the list, nor
                   \* failed to be inspected

docker == <<state, changes>>
events == <<streams, queued>>
boot == <<booting, attempt>>
scan == <<todo, snap>>
published == <<lastProjects, auto>>
vars == <<docker, events, pc, boot, done, timer, scan, published, steady>>

(* lastProjects before the first published reconcile: the nil slice, which  *)
(* DeepEqual tells from the empty list of projects.                         *)
Nil == {Standalone}

Streams == {"container", "network"}
Absent == [c \in Containers |-> "absent"]

(* inspect.ProjectsOf: every inspected container counts, routed or not. *)
ProjectsSeen == {ProjectOf[c] : c \in {d \in Containers : snap[d] # "absent"}} \ {Standalone}

(* What FromContainer leaves in the render config. *)
Routes == {c \in Containers : snap[c] = "on"}

(* The containers auto.yml should route. *)
On == {c \in Containers : state[c] = "on"}

ProjectsRouted == {ProjectOf[c] : c \in auto} \ {Standalone}

Init ==
    /\ state = [c \in Containers |-> "stopped"]
    /\ changes = 0
    /\ streams = {}
    /\ queued = {}
    /\ pc = "list"
    /\ booting = TRUE
    /\ attempt = 1
    /\ done = FALSE
    /\ timer = FALSE
    /\ todo = {}
    /\ snap = Absent
    /\ lastProjects = Nil
    /\ auto = {}
    /\ steady = {}

-----------------------------------------------------------------------------
(* Docker: a container starts, stops, joins or leaves the network.  The     *)
(* events reach the streams that are open and are lost otherwise.           *)

Kinds(old, new) == (IF "stopped" \in {old, new} THEN {"container"} ELSE {})
                     \cup (IF "on" \in {old, new} THEN {"network"} ELSE {})

(* A change that may take a project or a route away. *)
Shrinks(old, new) == old = "on" \/ new = "stopped"

Change(c, new) ==
    /\ changes < MaxChanges
    /\ new # state[c]
    /\ Shrinks(state[c], new) => "shrink" \in Faults
    /\ changes' = changes + 1
    /\ state' = [state EXCEPT ![c] = new]
    /\ queued' = queued \cup (streams \cap Kinds(state[c], new))
    /\ steady' = steady \ {c}
    /\ UNCHANGED <<streams, pc, boot, done, timer, scan, published>>

-----------------------------------------------------------------------------
(* The end of a reconcile: bootReconcile retries a failed one MaxAttempts   *)
(* times, half a second apart; the select loop logs the error and goes on.  *)
(* What the reconcile had collected goes out of scope.                      *)

(* Slip: what was collected lives on in the reconciler. *)
EndScanKeepsSnap == todo' = {} /\ steady' = {} /\ UNCHANGED snap

EndScan == todo' = {} /\ snap' = Absent /\ steady' = {}

Return == /\ pc' = IF booting THEN "subscribe" ELSE "select"
          /\ booting' = FALSE
          /\ attempt' = 1
          /\ EndScan

(* Slip: the boot loop retries without counting. *)
ReturnErrorForever ==
    IF booting
      THEN /\ pc' = "bootWait"
           /\ UNCHANGED boot
           /\ EndScan
      ELSE Return

ReturnError ==
    IF booting /\ attempt < MaxAttempts
      THEN /\ pc' = "bootWait"
           /\ attempt' = attempt + 1
           /\ UNCHANGED booting
           /\ EndScan
      ELSE Return

BootRetry == /\ pc = "bootWait"
             /\ pc' = "list"
             /\ UNCHANGED <<docker, events, boot, done, timer, scan, published, steady>>

BootCancelled == /\ pc = "bootWait"
                 /\ done
                 /\ Return
                 /\ UNCHANGED <<docker, events, done, timer, published>>

-----------------------------------------------------------------------------
(* The reconcile pipeline.                                                 *)

(* ContainerList: the containers that run now. *)
List == /\ pc = "list"
        /\ ~done
        /\ pc' = "inspect"
        /\ todo' = {c \in Containers : state[c] # "stopped"}
        /\ steady' = Containers
        /\ UNCHANGED <<docker, events, boot, done, timer, snap, published>>

ListFail == /\ pc = "list"
            /\ done \/ "list" \in Faults
            /\ ReturnError
            /\ UNCHANGED <<docker, events, done, timer, published>>

(* ContainerInspect, one container at a time.  One that has stopped since   *)
(* the list has lost its address, but still counts for its project.         *)
Inspect(c) == /\ pc = "inspect"
              /\ c \in todo
              /\ ~done
              /\ todo' = todo \ {c}
              /\ snap' = [snap EXCEPT ![c] = IF state[c] = "on" THEN "on" ELSE "off"]
              /\ UNCHANGED <<docker, events, pc, boot, done, timer, published, steady>>

(* A container that cannot be inspected (it was removed, the call fails, or *)
(* the context is done) is left out, and the reconcile goes on without it.  *)
InspectFail(c) == /\ pc = "inspect"
                  /\ c \in todo
                  /\ done \/ state[c] = "stopped" \/ "inspect" \in Faults
                  /\ todo' = todo \ {c}
                  /\ steady' = steady \ {c}
                  /\ UNCHANGED <<docker, events, pc, boot, done, timer, snap, published>>

(* The project set changed since the last published reconcile: ask certgen. *)
Call == /\ pc = "inspect"
        /\ todo = {}
        /\ ProjectsSeen # lastProjects
        /\ pc' = "calling"
        /\ UNCHANGED <<docker, events, boot, done, timer, scan, published, steady>>

(* Slip: certgen is never asked again. *)
SkipCallAlways ==
    /\ pc = "inspect"
    /\ todo = {}
    /\ pc' = "publish"
    /\ UNCHANGED <<docker, events, boot, done, timer, scan, published, steady>>

SkipCall == /\ pc = "inspect"
            /\ todo = {}
            /\ ProjectsSeen = lastProjects
            /\ pc' = "publish"
            /\ UNCHANGED <<docker, events, boot, done, timer, scan, published, steady>>

(* Slip: the project set is remembered before it is published. *)
CallOkRemembers ==
    /\ pc = "calling"
    /\ pc' = "publish"
    /\ lastProjects' = ProjectsSeen
    /\ UNCHANGED <<docker, events, boot, done, timer, scan, auto, steady>>

CallOk == /\ pc = "calling"
          /\ pc' = "publish"
          /\ UNCHANGED <<docker, events, boot, done, timer, scan, published, steady>>

(* Slip: the error of the reissue is logged and dropped. *)
CallFailIgnored ==
    /\ pc = "calling"
    /\ pc' = "publish"
    /\ UNCHANGED <<docker, events, boot, done, timer, scan, published, steady>>

CallFail == /\ pc = "calling"
            /\ ReturnError
            /\ UNCHANGED <<docker, events, done, timer, published>>

(* One unsafe hostname fails the whole configuration. *)
RenderFail == /\ pc = "publish"
              /\ Routes \cap Unsafe # {}
              /\ ReturnError
              /\ UNCHANGED <<docker, events, done, timer, published>>

(* atomicWrite renames the new auto.yml into place; only then is the        *)
(* project set remembered.                                                  *)
Write == /\ pc = "publish"
         /\ Routes \cap Unsafe = {}
         /\ auto' = Routes
         /\ lastProjects' = ProjectsSeen
         /\ Return
         /\ UNCHANGED <<docker, events, done, timer>>

WriteFail == /\ pc = "publish"
             /\ Routes \cap Unsafe = {}
             /\ "write" \in Faults
             /\ ReturnError
             /\ UNCHANGED <<docker, events, done, timer, published>>

-----------------------------------------------------------------------------
(* Subscription and the select loop.                                       *)

(* run: after the boot scan, whatever came of it, first the container       *)
(* events are subscribed to ...                                             *)
SubscribeContainers ==
    /\ pc = "subscribe"
    /\ ~done
    /\ pc' = "subscribeNetwork"
    /\ streams' = {"container"}
    /\ UNCHANGED <<docker, queued, boot, done, timer, scan, published, steady>>

(* ... and then the network events, with no look back. *)
SubscribeNetwork ==
    /\ pc = "subscribeNetwork"
    /\ pc' = "select"
    /\ streams' = Streams
    /\ UNCHANGED <<docker, queued, boot, done, timer, scan, published, steady>>

(* Slip: network events are received and do not restart the timer. *)
BumpContainersOnly(s) ==
    /\ pc = "select"
    /\ s \in queued
    /\ queued' = queued \ {s}
    /\ timer' = (timer \/ s = "container")
    /\ UNCHANGED <<docker, streams, pc, boot, done, scan, published, steady>>

Bump(s) == /\ pc = "select"
           /\ s \in queued
           /\ queued' = queued \ {s}
           /\ timer' = TRUE
           /\ UNCHANGED <<docker, streams, pc, boot, done, scan, published, steady>>

Fire == /\ pc = "select"
        /\ timer
        /\ timer' = FALSE
        /\ pc' = "list"
        /\ UNCHANGED <<docker, events, boot, done, scan, published, steady>>

-----------------------------------------------------------------------------
(* The process.                                                            *)

Sigterm == /\ "sigterm" \in Faults
           /\ pc # "exited"
           /\ ~done
           /\ done' = TRUE
           /\ UNCHANGED <<docker, events, pc, boot, timer, scan, published, steady>>

(* Slip: events of a stream survive it. *)
TerminateKeepsEvents ==
    /\ pc' = "exited"
    /\ streams' = {}
    /\ timer' = FALSE
    /\ EndScan
    /\ UNCHANGED <<docker, queued, boot, done, published>>

Terminate == /\ pc' = "exited"
             /\ streams' = {}
             /\ queued' = {}
             /\ timer' = FALSE
             /\ EndScan
             /\ UNCHANGED <<docker, boot, done, published>>

(* Slip: the loop has no case for ctx.Done(). *)
ExitBeforeLoopOnly ==
    /\ pc = "subscribe"
    /\ done
    /\ Terminate

(* The loop, or run before it, sees that the context is done. *)
Exit == /\ pc \in {"subscribe", "select"}
        /\ done
        /\ Terminate

(* An event stream breaks: run returns the error and main calls log.Fatal. *)
StreamError == /\ pc = "select"
               /\ "stream" \in Faults
               /\ Terminate

Crash == /\ pc # "exited"
         /\ "crash" \in Faults
         /\ Terminate

(* Docker starts the container again: only auto.yml is left of the past. *)
Restart == /\ pc = "exited"
           /\ pc' = "list"
           /\ booting' = TRUE
           /\ attempt' = 1
           /\ done' = FALSE
           /\ lastProjects' = Nil
           /\ UNCHANGED <<docker, events, timer, scan, auto, steady>>

-----------------------------------------------------------------------------
(* The goroutine's own steps, for which it waits for nobody ... *)
Local ==
    \/ BootRetry \/ BootCancelled
    \/ SkipCall \/ RenderFail \/ Write \/ WriteFail
    \/ \E s \in Streams : Bump(s)
    \/ Fire \/ Exit

(* ... the ends of its calls to Docker, which have no deadline ... *)
DockerReturns ==
    \/ List \/ ListFail
    \/ \E c \in Containers : Inspect(c) \/ InspectFail(c)
    \/ SubscribeContainers \/ SubscribeNetwork

(* ... and both: all but what it waits for from certgen. *)
Advance == Local \/ DockerReturns

Environment ==
    \/ \E c \in Containers, new \in {"stopped", "off", "on"} : Change(c, new)
    \/ Sigterm \/ StreamError \/ Crash \/ Restart

(* By itself: certgen grants the call, or fails it when it may. *)
Next ==
    \/ Advance
    \/ Environment
    \/ Call \/ CallOk
    \/ CallFail /\ (done \/ "reissue" \in Faults)

Spec == Init /\ [][Next]_vars

(* The goroutine runs, the timer fires (a run has finitely many changes, so *)
(* bumps end), certgen answers within the client's timeout, and Docker      *)
(* restarts the container.  A call to Docker has only the context of the    *)
(* process (main.go:84): it need not return before that is cancelled.       *)
Fairness == /\ WF_vars(Local)
            /\ WF_vars(DockerReturns /\ done)
            /\ WF_vars(Call)
            /\ WF_vars(CallOk \/ CallFail)
            /\ WF_vars(Restart)

FairSpec == Spec /\ Fairness

-----------------------------------------------------------------------------
(* Properties.                                                             *)

(* The goroutine is in a call to Docker, which nothing has cancelled. *)
WaitsForDocker ==
    ~done /\ \/ pc \in {"list", "subscribe", "subscribeNetwork"}
             \/ pc = "inspect" /\ todo # {}

(* Every variable has its type. *)
TypeOK ==
    /\ state \in [Containers -> {"stopped", "off", "on"}]
    /\ changes \in 0..MaxChanges
    /\ streams \in SUBSET Streams
    /\ queued \in SUBSET streams
    /\ pc \in {"list", "inspect", "calling", "publish", "bootWait", "subscribe",
               "subscribeNetwork", "select", "exited"}
    /\ booting \in BOOLEAN
    /\ attempt \in 1..MaxAttempts
    /\ done \in BOOLEAN
    /\ timer \in BOOLEAN
    /\ todo \in SUBSET Containers
    /\ snap \in [Containers -> {"absent", "off", "on"}]
    /\ lastProjects \in (SUBSET Projects) \cup {Nil}
    /\ auto \in SUBSET Containers
    /\ steady \in SUBSET Containers

(* lastProjects stands for what auto.yml routes, also when a later          *)
(* reconcile got as far as a reissue and then failed: a project whose       *)
(* hostnames are published is one lastProjects remembers.  A process that   *)
(* has not published yet remembers nothing, and auto.yml is an earlier one's. *)
RoutedRemembered == lastProjects # Nil => ProjectsRouted \subseteq lastProjects

(* The list, the inspections and the write are calls at different times.    *)
(* Still, what is published of a container that did not change in between   *)
(* and could be inspected is the truth, whatever became of the others: it   *)
(* is routed if and only if it is on the network.                           *)
PublishesSteady == [][Write => \A c \in steady : c \in auto' <=> state[c] = "on"]_vars

(* SIGTERM ends the process wherever it stands: in the boot loop, inside a  *)
(* reconcile, in a call to Docker that hangs, or in the select loop with    *)
(* events and the timer ready.                                              *)
SigtermStops == done ~> pc = "exited"

(* "Proceed to event subscription regardless of outcome (don't deadlock the *)
(* daemon)" (reconcile.go:58-60): whatever fails, and however often, the    *)
(* boot scan and every later reconcile give the goroutine back to its event *)
(* loop, unless the process ends, or a call to Docker never returns.        *)
BackToEvents ==
    pc \notin {"select", "exited"} ~> (pc \in {"select", "exited"} \/ []WaitsForDocker)
=============================================================================
