------------------------------ MODULE MeshProofs ------------------------------
(***************************************************************************)
(* Proofs about the discoverer, about the discoverer and certgen together,  *)
(* and about what Traefik reads of both.                                   *)
(***************************************************************************)
EXTENDS Edge, TLAPS

-----------------------------------------------------------------------------
(* The discoverer.                                                         *)

ProjectsIn(cs) == {ProjectOf[c] : c \in cs} \ {Standalone}
Seen == {c \in Containers : snap[c] # "absent"}

(* It is between the list and the end of a reconcile. *)
Reconciling == pc \in {"inspect", "calling", "publish"}

(* What was collected belongs to a reconcile, all of it once the last       *)
(* container is inspected.                                                 *)
ScanInv ==
    /\ ~Reconciling => snap = Absent
    /\ pc \in {"calling", "publish"} => todo = {}

(* Why PublishesSteady holds: what was seen of a container that did not     *)
(* change is still so.                                                     *)
SteadyInv == Reconciling => \A c \in steady \ todo : snap[c] = "on" <=> state[c] = "on"

(* Nothing is subscribed to before the boot scan is over. *)
BootInv ==
    /\ booting \/ pc \in {"subscribe", "exited"} => streams = {}
    /\ pc \in {"subscribe", "subscribeNetwork", "select"} => ~booting

DiscovererInv == TypeOK /\ BootInv /\ ScanInv /\ SteadyInv /\ RoutedRemembered

(* Next, for a certgen that may fail any call. *)
Step == Next \/ CallFail

LEMMA SeenType == DiscovererInv => ProjectsSeen \in SUBSET Projects
  BY DiscovererAssumption DEF ProjectsSeen

LEMMA DiscovererInvInit == Init => DiscovererInv
  <1> SUFFICES ASSUME Init PROVE DiscovererInv
    OBVIOUS
  <1>1. changes \in 0..MaxChanges /\ attempt \in 1..MaxAttempts
    BY DiscovererAssumption DEF Init
  <1>2. booting \in BOOLEAN /\ done \in BOOLEAN /\ timer \in BOOLEAN
    BY DEF Init
  <1> QED
    BY <1>1, <1>2
       DEF Init, DiscovererInv, TypeOK, BootInv, ScanInv, SteadyInv, RoutedRemembered,
           Reconciling,
           Absent, Streams

(* How a reconcile ends. *)
LEMMA ReturnInv ==
    ASSUME DiscovererInv, Return \/ ReturnError
    PROVE  /\ pc' \in {"bootWait", "subscribe", "select"}
           /\ booting' \in BOOLEAN
           /\ pc' = "subscribe" => booting
           /\ pc' # "bootWait" => ~booting'
           /\ booting' => booting
           /\ attempt' \in 1..MaxAttempts
           /\ todo' = {} /\ snap' = Absent /\ steady' = {}
  <1>1. booting' = booting \/ booting' = FALSE
    BY DEF Return, ReturnError
  <1>2. booting' \in BOOLEAN
    BY <1>1 DEF DiscovererInv, TypeOK
  <1>3. attempt' \in 1..MaxAttempts
    BY DiscovererAssumption DEF DiscovererInv, TypeOK, Return, ReturnError
  <1> QED
    BY <1>1, <1>2, <1>3 DEF Return, ReturnError, EndScan

(* A reconcile that ends without a publication. *)
LEMMA UnpublishedInv ==
    ASSUME DiscovererInv, Return \/ ReturnError,
           UNCHANGED <<docker, events, done, timer, published>>
    PROVE  DiscovererInv'
  BY ReturnInv
     DEF DiscovererInv, TypeOK, BootInv, ScanInv, SteadyInv, RoutedRemembered, Reconciling,
         ProjectsRouted, Absent, docker, events, published

(* A step that leaves the scan and the published files alone. *)
LEMMA ElsewhereInv ==
    ASSUME DiscovererInv, TypeOK', BootInv', UNCHANGED <<state, scan, steady, published>>,
           Reconciling' <=> Reconciling, Reconciling => pc' = pc
    PROVE  DiscovererInv'
  BY DEF DiscovererInv, BootInv, ScanInv, SteadyInv, RoutedRemembered, Reconciling,
         ProjectsRouted, Absent, docker, scan, published

LEMMA WriteInv == ASSUME DiscovererInv, Write PROVE DiscovererInv'
  <1>1. ProjectsSeen \in SUBSET Projects /\ Routes \in SUBSET Containers
    BY SeenType DEF Routes
  <1>2. ProjectsRouted' \subseteq lastProjects'
    BY DEF Write, ProjectsRouted, Routes, ProjectsSeen
  <1> QED
    BY <1>1, <1>2, ReturnInv
       DEF DiscovererInv, TypeOK, BootInv, ScanInv, SteadyInv, RoutedRemembered,
           Reconciling, Write,
           Absent, docker, events

LEMMA DiscovererInvStep == DiscovererInv /\ [Step]_vars => DiscovererInv'
  <1> SUFFICES ASSUME DiscovererInv, [Step]_vars
               PROVE  DiscovererInv'
    OBVIOUS
  <1>1. ASSUME NEW c \in Containers, NEW new \in {"stopped", "off", "on"}, Change(c, new)
        PROVE  DiscovererInv'
    BY <1>1, DiscovererAssumption
       DEF Change, DiscovererInv, TypeOK, BootInv, ScanInv, SteadyInv, RoutedRemembered,
           Reconciling,
           ProjectsRouted, Absent, boot, scan, published
  <1>2. CASE BootRetry
    <2>1. TypeOK' /\ BootInv'
      BY <1>2 DEF BootRetry, DiscovererInv, TypeOK, BootInv, docker, events, boot, scan,
                  published
    <2> QED
      BY <1>2, <2>1, ElsewhereInv DEF BootRetry, Reconciling, docker
  <1>3. CASE BootCancelled \/ ListFail \/ RenderFail \/ WriteFail \/ CallFail
    BY <1>3, UnpublishedInv DEF BootCancelled, ListFail, RenderFail, WriteFail, CallFail
  <1>4. CASE List
    BY <1>4
       DEF List, DiscovererInv, TypeOK, BootInv, ScanInv, SteadyInv, RoutedRemembered,
           Reconciling,
           ProjectsRouted, Absent, docker, events, boot, published
  <1>5. ASSUME NEW c \in Containers, Inspect(c)
        PROVE  DiscovererInv'
    BY <1>5
       DEF Inspect, DiscovererInv, TypeOK, BootInv, ScanInv, SteadyInv, RoutedRemembered,
           Reconciling,
           ProjectsRouted, Absent, docker, events, boot, published
  <1>6. ASSUME NEW c \in Containers, InspectFail(c)
        PROVE  DiscovererInv'
    BY <1>6
       DEF InspectFail, DiscovererInv, TypeOK, BootInv, ScanInv, SteadyInv,
           RoutedRemembered,
           Reconciling, ProjectsRouted, Absent, docker, events, boot, published
  <1>7. CASE Call \/ SkipCall \/ CallOk
    BY <1>7
       DEF Call, SkipCall, CallOk, DiscovererInv, TypeOK, BootInv, ScanInv, SteadyInv,
           RoutedRemembered, Reconciling, ProjectsRouted, docker, events, boot, scan,
           published
  <1>8. CASE Write
    BY <1>8, WriteInv
  <1>9. CASE \/ SubscribeContainers \/ SubscribeNetwork \/ Fire \/ Sigterm \/ Restart
             \/ \E s \in Streams : Bump(s)
    <2>1. TypeOK' /\ BootInv'
      <3> USE DEF DiscovererInv, TypeOK, BootInv, Streams, docker, events, boot, scan, published
      <3>1. CASE SubscribeContainers
        BY <1>9, <3>1 DEF SubscribeContainers
      <3>2. CASE SubscribeNetwork
        BY <1>9, <3>2 DEF SubscribeNetwork
      <3>3. CASE Fire
        BY <1>9, <3>3 DEF Fire
      <3>4. CASE Sigterm
        BY <1>9, <3>4 DEF Sigterm
      <3>5. CASE Restart
        <4>1. booting' \in BOOLEAN /\ done' \in BOOLEAN
          BY <3>5 DEF Restart
        <4>2. attempt' \in 1..MaxAttempts
          BY <3>5, DiscovererAssumption DEF Restart
        <4> QED
          BY <3>5, <4>1, <4>2 DEF Restart
      <3>6. CASE \E s \in Streams : Bump(s)
        BY <1>9, <3>6 DEF Bump
      <3> QED
        BY <1>9, <3>1, <3>2, <3>3, <3>4, <3>5, <3>6
    <2>2. CASE ~Restart
      BY <1>9, <2>1, <2>2, ElsewhereInv
         DEF SubscribeContainers, SubscribeNetwork, Fire, Sigterm, Bump, Reconciling,
             docker, events, boot, scan, published
    <2>3. CASE Restart
      BY <2>1, <2>3
         DEF Restart, DiscovererInv, BootInv, ScanInv, SteadyInv, RoutedRemembered,
             Reconciling, Absent,
             docker, scan
    <2> QED
      BY <2>2, <2>3
  <1>10. CASE Exit \/ StreamError \/ Crash
    BY <1>10
       DEF Exit, StreamError, Crash, Terminate, EndScan, DiscovererInv, TypeOK, BootInv,
           ScanInv,
           SteadyInv, RoutedRemembered, Reconciling, ProjectsRouted, Absent, docker, boot,
           published
  <1>11. CASE UNCHANGED vars
    BY <1>11
       DEF vars, DiscovererInv, TypeOK, BootInv, ScanInv, SteadyInv, RoutedRemembered,
           Reconciling,
           ProjectsRouted, Absent, docker, events, boot, scan, published
  <1> QED
    BY <1>1, <1>2, <1>3, <1>4, <1>5, <1>6, <1>7, <1>8, <1>9, <1>10, <1>11
       DEF Step, Next, Advance, Local, DockerReturns, Environment

-----------------------------------------------------------------------------
(* What the discoverer promises by itself.                                 *)

LEMMA DiscovererInvAlways == Spec => []DiscovererInv
  BY DiscovererInvInit, DiscovererInvStep, PTL DEF Spec, Step

(* Once a process has published, every project whose hostnames auto.yml      *)
(* routes is one that lastProjects remembers, whatever fails.  Before that  *)
(* (after a restart, until a reconcile succeeds) lastProjects is Nil, and    *)
(* nothing is said.                                                         *)
THEOREM DiscovererRemembers == Spec => []RoutedRemembered
  <1>1. DiscovererInv => RoutedRemembered
    BY DEF DiscovererInv
  <1> QED
    BY <1>1, DiscovererInvAlways, PTL

(* A publication that mixes several moments is true of every container that *)
(* did not change meanwhile, for any containers, failures and restarts.     *)
THEOREM DiscovererPublishesSteady == Spec => PublishesSteady
  <1>1. DiscovererInv /\ [Next]_vars
          => [Write => \A c \in steady : c \in auto' <=> state[c] = "on"]_vars
    <2> SUFFICES ASSUME DiscovererInv, Write, NEW c \in steady
                 PROVE  c \in auto' <=> state[c] = "on"
      OBVIOUS
    <2>1. c \in Containers \ todo
      BY DEF Write, DiscovererInv, TypeOK, ScanInv
    <2>2. snap[c] = "on" <=> state[c] = "on"
      BY <2>1 DEF Write, DiscovererInv, SteadyInv, Reconciling
    <2> QED
      BY <2>1, <2>2 DEF Write, Routes
  <1> QED
    BY <1>1, DiscovererInvAlways, PTL DEF Spec, PublishesSteady
-----------------------------------------------------------------------------
(* The discoverer and certgen.                                             *)

Quiet == \A c \in Conns : stage[c] # "orphaned"

(* It is about to publish what it has asked certgen for. *)
Reissued == pc = "publish" /\ ProjectsSeen # lastProjects

(* A request belongs to the call on its way or nobody waits for it, and an  *)
(* "ok" is still true when it is collected: it was given with no orphan     *)
(* about, and nobody asks for anything before it is collected.              *)
LinkInv ==
    /\ conn # None => pc = "calling"
    /\ \A c \in Conns :
          /\ stage[c] \in {"pending", "answered"} => conn = c
          /\ stage[c] = "orphaned" => conn # c
          /\ stage[c] = "pending" => goal[c] = ProjectsSeen
          /\ answer[c] # "none" => stage[c] = "answered"
          /\ answer[c] = "ok" => served = ProjectsSeen /\ Quiet

GrantInv == Reissued => served = ProjectsSeen /\ Quiet

(* What it means that lastProjects has not drifted: certgen issued it last, *)
(* unless a reissue is under way that will be published or will be taken    *)
(* for a failure.                                                          *)
DriftInv ==
    (~drifted /\ lastProjects # Nil /\ pc # "exited") =>
        /\ Quiet
        /\ \/ served = lastProjects
           \/ conn # None /\ (stage[conn] = "none" \/ answer[conn] = "ok")
           \/ Reissued

MeshInv == DiscovererInv /\ MeshTypeOK /\ LinkInv /\ GrantInv /\ DriftInv

LEMMA MeshInvInit == MeshInit => MeshInv
  BY DiscovererInvInit, MeshAssumption
     DEF MeshInit, Store!Init, Init, DiscovererInv, MeshInv, MeshTypeOK, LinkInv, GrantInv,
         DriftInv, Reissued

(* Every step of the mesh is one of the discoverer, or none. *)
LEMMA MeshStepsDiscoverer == [MeshNext]_meshVars => [Step]_vars
  <1> SUFFICES ASSUME [MeshNext]_meshVars
               PROVE  [Step]_vars
    OBVIOUS
  <1>1. CASE Alone \/ Starts \/ Outside \/ Dies
    BY <1>1 DEF Alone, Starts, Outside, Dies, Step, Next, Environment
  <1>2. CASE \E c \in Conns : Post(c) \/ Serve(c)
    BY <1>2 DEF Post, Serve, Step, Next
  <1>3. CASE \/ Granted \/ Denied \/ Broken \/ GiveUp \/ Unreachable \/ UnreachableFails
             \/ CertgenCrash
    BY <1>3
       DEF Granted, Denied, Broken, GiveUp, Unreachable, UnreachableFails, CertgenCrash,
           Step, Next
  <1>4. CASE UNCHANGED meshVars
    BY <1>4 DEF meshVars
  <1> QED
    BY <1>1, <1>2, <1>3, <1>4 DEF MeshNext

(* What a step of the goroutine between two calls leaves alone. *)
LEMMA AdvanceFact ==
    ASSUME DiscovererInv, Advance
    PROVE  /\ pc \notin {"calling", "exited"} /\ pc' # "calling"
           /\ pc' = "publish" => ProjectsSeen' = lastProjects'
           /\ lastProjects' = IF Write THEN ProjectsSeen ELSE lastProjects
  <1>1. CASE Write
    BY <1>1, ReturnInv DEF Write
  <1>2. CASE SkipCall /\ ~Write
    <2>1. ProjectsSeen' = ProjectsSeen
      BY <1>2 DEF SkipCall, ProjectsSeen, scan
    <2> QED
      BY <1>2, <2>1 DEF SkipCall, published
  <1>3. CASE (BootCancelled \/ ListFail \/ RenderFail \/ WriteFail) /\ ~Write
    BY <1>3, ReturnInv DEF BootCancelled, ListFail, RenderFail, WriteFail, published
  <1>4. CASE Exit /\ ~Write
    BY <1>4 DEF Exit, Terminate, published
  <1>5. CASE ~Write /\ \/ BootRetry \/ List \/ SubscribeContainers \/ SubscribeNetwork \/ Fire
                       \/ \E c \in Containers : Inspect(c) \/ InspectFail(c)
                       \/ \E s \in Streams : Bump(s)
    BY <1>5
       DEF BootRetry, List, SubscribeContainers, SubscribeNetwork, Fire, Inspect,
           InspectFail,
           Bump, published
  <1> QED
    BY <1>1, <1>2, <1>3, <1>4, <1>5 DEF Advance, Local, DockerReturns

LEMMA AloneInv ==
    ASSUME MeshInv, DiscovererInv', Alone
    PROVE  MeshInv'
  <1> USE DEF MeshInv, Alone, store
  <1>1. conn = None /\ \A c \in Conns : stage[c] \notin {"pending", "answered"} /\ answer[c] = "none"
    BY AdvanceFact, MeshAssumption DEF LinkInv
  <1>2. drifted' \in BOOLEAN
    <2>1. drifted' \in {TRUE, FALSE, drifted}
      OBVIOUS
    <2> QED
      BY <2>1 DEF MeshTypeOK
  <1>3. LinkInv' /\ GrantInv'
    BY <1>1, AdvanceFact DEF LinkInv, GrantInv, Reissued
  <1>4. DriftInv'
    <2> SUFFICES ASSUME ~drifted', lastProjects' # Nil
                 PROVE  Quiet' /\ served' = lastProjects'
      BY DEF DriftInv
    <2>1. CASE Reissued
      BY <2>1, AdvanceFact DEF GrantInv, Reissued, Quiet
    <2>2. CASE ~Reissued
      <3>1. ~drifted /\ lastProjects' = lastProjects
        BY <2>2, AdvanceFact DEF Reissued, Write
      <3> QED
        BY <1>1, <2>2, <3>1, AdvanceFact DEF DriftInv, Quiet
    <2> QED
      BY <2>1, <2>2
  <1> QED
    BY <1>2, <1>3, <1>4 DEF MeshTypeOK, DiscovererInv

(* A call begins: there was none, and nothing is known of certgen that was   *)
(* not known before.                                                       *)
LEMMA CallInv ==
    ASSUME MeshInv, DiscovererInv', UNCHANGED drifted,
           Unreachable \/ \E c \in Conns : Post(c)
    PROVE  MeshInv'
  <1> USE DEF MeshInv, store
  <1>1. /\ Call /\ UNCHANGED <<lastProjects, drifted, served>>
        /\ pc = "inspect" /\ pc' = "calling"
        /\ ProjectsSeen' = ProjectsSeen
    BY DEF Unreachable, Post, Call, published, scan, ProjectsSeen, Store!Ask, Store!Refuse
  <1>2. conn = None /\ \A c \in Conns : stage[c] \notin {"pending", "answered"} /\ answer[c] = "none"
    BY <1>1, MeshAssumption DEF LinkInv
  <1>3. ASSUME NEW c \in Conns, Post(c)
        PROVE  MeshInv'
    <2>1. \/ Store!Ask(c, ProjectsSeen) /\ conn' = c
          \/ Store!Refuse(c) /\ conn' = c
      BY <1>3 DEF Post
    <2>2. MeshTypeOK' /\ Quiet' = Quiet
      BY <1>1, <2>1, SeenType
         DEF MeshTypeOK, DiscovererInv, Quiet, Store!Ask, Store!Refuse, Store!Answer
    <2>3. LinkInv'
      BY <1>1, <1>2, <2>1 DEF LinkInv, MeshTypeOK, Store!Ask, Store!Refuse, Store!Answer
    <2> QED
      BY <1>1, <1>2, <2>2, <2>3 DEF GrantInv, DriftInv, Reissued
  <1>4. CASE Unreachable
    BY <1>1, <1>2, <1>4
       DEF Unreachable, MeshTypeOK, DiscovererInv, LinkInv, GrantInv, DriftInv, Reissued,
           Quiet
  <1> QED
    BY <1>3, <1>4

(* A call succeeds: what was answered is still so. *)
LEMMA GrantedInv ==
    ASSUME MeshInv, DiscovererInv', Granted
    PROVE  MeshInv'
  <1> USE DEF MeshInv
  <1>1. /\ UNCHANGED <<lastProjects, drifted, served>>
        /\ pc' = "publish" /\ conn' = None /\ conn \in Conns
        /\ ProjectsSeen' = ProjectsSeen
        /\ served = ProjectsSeen /\ Quiet
    BY DEF Granted, CallOk, published, scan, ProjectsSeen, Store!Collect, LinkInv,
           MeshTypeOK
  <1>2. MeshTypeOK' /\ Quiet'
    BY <1>1 DEF Granted, MeshTypeOK, DiscovererInv, Quiet, Store!Collect, Store!Drop
  <1>3. LinkInv'
    BY <1>1, <1>2, MeshAssumption DEF Granted, LinkInv, MeshTypeOK, Store!Collect,
                                      Store!Drop
  <1> QED
    BY <1>1, <1>2, <1>3 DEF GrantInv, DriftInv, Reissued

(* The client of a request leaves it. *)
LEMMA LeftInv ==
    ASSUME MeshInv, conn \in Conns, Store!Leave(conn) \/ Store!Collect(conn),
           conn' = None, pc' # "calling"
    PROVE  /\ LinkInv' /\ served' = served /\ split' \in BOOLEAN
           /\ stage' \in [Conns -> {"none", "pending", "orphaned", "answered"}]
           /\ goal' \in [Conns -> (SUBSET Projects) \cup {NoCert}]
           /\ answer' \in [Conns -> {"none", "ok", "error"}]
  <1>1. /\ \A c \in Conns \ {conn} : stage'[c] = stage[c] /\ answer'[c] = answer[c] /\ goal'[c] = goal[c]
        /\ stage'[conn] \in {"none", "orphaned"} /\ answer'[conn] = "none"
    BY DEF MeshInv, LinkInv, MeshTypeOK, Store!Leave, Store!Collect, Store!Drop
  <1>2. /\ served' = served /\ split' \in BOOLEAN
        /\ stage' \in [Conns -> {"none", "pending", "orphaned", "answered"}]
        /\ goal' \in [Conns -> (SUBSET Projects) \cup {NoCert}]
        /\ answer' \in [Conns -> {"none", "ok", "error"}]
    BY DEF MeshInv, MeshTypeOK, Store!Leave, Store!Collect, Store!Drop
  <1> QED
    BY <1>1, <1>2, MeshAssumption DEF MeshInv, LinkInv

(* A call fails, in each of the ways it may. *)
LEMMA FailedInv ==
    ASSUME MeshInv, DiscovererInv', Denied \/ Broken \/ GiveUp \/ UnreachableFails
    PROVE  MeshInv'
  <1> USE DEF MeshInv, store
  <1>1. /\ UNCHANGED <<lastProjects>>
        /\ pc = "calling" /\ pc' \notin {"calling", "publish"} /\ conn' = None
        /\ served' = served
    BY ReturnInv
       DEF Denied, Broken, GiveUp, UnreachableFails, CallFail, published, Store!Leave,
           Store!Collect
  <1>2. conn = None \/ conn \in Conns
    BY DEF MeshTypeOK
  <1>3. CASE Denied
    <2>1. LinkInv' /\ MeshTypeOK'
      BY <1>1, <1>2, <1>3, LeftInv DEF Denied, MeshTypeOK, DiscovererInv
    <2>2. Quiet => Quiet'
      BY <1>3 DEF Denied, Store!Collect, Store!Drop, Quiet, MeshTypeOK
    <2>3. answer[conn] = "error" /\ stage[conn] = "answered" /\ drifted' = drifted
      BY <1>3 DEF Denied, Store!Collect
    <2> QED
      BY <1>1, <2>1, <2>2, <2>3 DEF GrantInv, DriftInv, Reissued
  <1>4. CASE Broken
    <2>1. drifted' \in BOOLEAN /\ drifted' = (lastProjects # Nil)
      BY <1>4 DEF Broken
    <2>2. LinkInv' /\ MeshTypeOK'
      BY <1>1, <1>2, <1>4, <2>1, MeshAssumption DEF Broken, LinkInv, MeshTypeOK,
                                                    DiscovererInv, Quiet
    <2> QED
      BY <1>1, <2>1, <2>2 DEF GrantInv, DriftInv, Reissued
  <1>5. CASE GiveUp
    <2>1. drifted' \in BOOLEAN /\ drifted' = (lastProjects # Nil)
      BY <1>5 DEF GiveUp
    <2>2. LinkInv' /\ MeshTypeOK'
      BY <1>1, <1>2, <1>5, <2>1, LeftInv DEF GiveUp, MeshTypeOK, DiscovererInv
    <2> QED
      BY <1>1, <2>1, <2>2 DEF GrantInv, DriftInv, Reissued
  <1>6. CASE UnreachableFails
    BY <1>1, <1>6, MeshAssumption
       DEF UnreachableFails, LinkInv, MeshTypeOK, DiscovererInv, Quiet, GrantInv, DriftInv,
           Reissued
  <1> QED
    BY <1>3, <1>4, <1>5, <1>6

(* certgen works, or dies. *)
LEMMA CertgenInv ==
    ASSUME MeshInv, CertgenCrash \/ \E c \in Conns : Serve(c)
    PROVE  MeshInv'
  <1> USE DEF MeshInv
  <1>1. /\ UNCHANGED <<vars, conn, drifted>>
        /\ ProjectsSeen' = ProjectsSeen /\ DiscovererInv'
    <2>1. UNCHANGED <<vars, conn, drifted>>
      BY DEF CertgenCrash, Serve
    <2> QED
      BY <2>1, DiscovererInvStep DEF vars, scan, ProjectsSeen
  <1>2. UNCHANGED <<pc, lastProjects>>
    BY <1>1 DEF vars, published
  <1>3. CASE CertgenCrash
    BY <1>1, <1>2, <1>3
       DEF CertgenCrash, Store!Crash, MeshTypeOK, DiscovererInv, LinkInv, GrantInv,
           DriftInv,
           Reissued, Quiet
  <1>4. ASSUME NEW c \in Conns, Serve(c)
        PROVE  MeshInv'
    <2>1. CASE Store!Succeed(c)
      <3>1. conn = c /\ pc = "calling" /\ goal[c] = ProjectsSeen /\ Quiet
        BY <2>1, MeshAssumption DEF Store!Succeed, LinkInv, Quiet
      <3>2. /\ \A d \in Conns \ {c} : stage'[d] = stage[d] /\ answer'[d] = answer[d] /\ goal'[d] = goal[d]
            /\ stage'[c] = "answered" /\ answer'[c] = "ok" /\ served' = ProjectsSeen
        BY <2>1, <3>1 DEF Store!Succeed, Store!Issue, Store!Answer, MeshTypeOK
      <3>3. Quiet'
        BY <3>1, <3>2 DEF Quiet
      <3>4. MeshTypeOK'
        BY <1>1, <2>1 DEF Store!Succeed, Store!Issue, Store!Answer, MeshTypeOK, DiscovererInv
      <3>5. LinkInv'
        <4>1. \A d \in Conns \ {c} : stage[d] = "none" /\ answer[d] = "none"
          BY <3>1 DEF LinkInv, MeshTypeOK, Quiet
        <4>2. \A d \in Conns \ {c} : stage'[d] = "none" /\ answer'[d] = "none"
          BY <3>2, <4>1
        <4> QED
          BY <1>1, <1>2, <3>1, <3>2, <3>3, <4>2 DEF LinkInv
      <3> QED
        BY <1>1, <1>2, <3>1, <3>2, <3>3, <3>4, <3>5, MeshAssumption DEF GrantInv, DriftInv,
                                                                        Reissued
    <2>2. CASE Store!Fail(c)
      BY <1>1, <1>2, <2>2
         DEF Store!Fail, Store!Answer, MeshTypeOK, DiscovererInv, LinkInv, GrantInv,
             DriftInv,
             Reissued, Quiet
    <2>3. CASE Store!Settle(c)
      BY <1>1, <1>2, <2>3
         DEF Store!Settle, Store!Issue, Store!Drop, MeshTypeOK, DiscovererInv, LinkInv,
             GrantInv, DriftInv,
             Reissued, Quiet
    <2>4. CASE Store!Split(c)
      <3>1. split' \in BOOLEAN /\ UNCHANGED <<served, stage, goal, answer>>
        BY <2>4 DEF Store!Split
      <3> QED
        BY <1>1, <1>2, <3>1
           DEF MeshTypeOK, DiscovererInv, LinkInv, GrantInv, DriftInv, Reissued, Quiet
    <2> QED
      BY <1>4, <2>1, <2>2, <2>3, <2>4 DEF Serve
  <1> QED
    BY <1>3, <1>4

LEMMA MeshInvStep == MeshInv /\ [MeshNext]_meshVars => MeshInv'
  <1> SUFFICES ASSUME MeshInv, [MeshNext]_meshVars
               PROVE  MeshInv'
    OBVIOUS
  <1>1. DiscovererInv'
    BY MeshStepsDiscoverer, DiscovererInvStep DEF MeshInv
  <1>2. CASE Alone
    BY <1>1, <1>2, AloneInv
  <1>3. CASE Starts
    <2>1. /\ pc' = "list" /\ pc = "exited" /\ lastProjects' = Nil /\ drifted' = FALSE
          /\ UNCHANGED <<served, split, stage, goal, answer, conn>>
      BY <1>3 DEF Starts, Restart, store
    <2>2. drifted' \in BOOLEAN
      BY <2>1
    <2>3. MeshTypeOK'
      BY <1>1, <2>1, <2>2 DEF MeshInv, MeshTypeOK, DiscovererInv
    <2>4. conn = None
      BY <2>1 DEF MeshInv, LinkInv
    <2> QED
      BY <1>1, <2>1, <2>3, <2>4, MeshAssumption DEF MeshInv, LinkInv, GrantInv, DriftInv,
                                                    Reissued, Quiet
  <1>4. CASE Outside \/ UNCHANGED meshVars
    <2>1. UNCHANGED <<served, split, stage, goal, answer, conn, drifted, pc, lastProjects, snap>>
      BY <1>4 DEF Outside, Change, Sigterm, meshVars, vars, store, scan, published
    <2>2. ProjectsSeen' = ProjectsSeen
      BY <2>1 DEF ProjectsSeen
    <2> QED
      BY <1>1, <2>1, <2>2
         DEF MeshInv, MeshTypeOK, DiscovererInv, LinkInv, GrantInv, DriftInv, Reissued,
             Quiet
  <1>5. CASE Dies
    <2>1. /\ UNCHANGED <<lastProjects, served, drifted>>
          /\ pc' = "exited" /\ conn' = None
      BY <1>5
         DEF Dies, Crash, StreamError, Terminate, published, store, Store!Leave, Store!Collect
    <2>2. LinkInv' /\ MeshTypeOK'
      <3>1. CASE conn = None \/ stage[conn] = "none"
        BY <1>1, <1>5, <2>1, <3>1, MeshAssumption
           DEF Dies, MeshInv, LinkInv, MeshTypeOK, DiscovererInv, Quiet, store
      <3>2. CASE ~(conn = None \/ stage[conn] = "none")
        BY <1>1, <1>5, <2>1, <3>2, LeftInv DEF Dies, MeshInv, MeshTypeOK, DiscovererInv
      <3> QED
        BY <3>1, <3>2
    <2> QED
      BY <1>1, <2>1, <2>2 DEF MeshInv, GrantInv, DriftInv, Reissued
  <1>6. CASE Unreachable \/ \E c \in Conns : Post(c)
    <2>1. UNCHANGED drifted
      BY <1>6 DEF Unreachable, Post
    <2> QED
      BY <1>1, <1>6, <2>1, CallInv
  <1>7. CASE Granted
    BY <1>1, <1>7, GrantedInv
  <1>8. CASE Denied \/ Broken \/ GiveUp \/ UnreachableFails
    BY <1>1, <1>8, FailedInv
  <1>9. CASE CertgenCrash \/ \E c \in Conns : Serve(c)
    BY <1>9, CertgenInv
  <1> QED
    BY <1>2, <1>3, <1>4, <1>5, <1>6, <1>7, <1>8, <1>9 DEF MeshNext

LEMMA MeshInvAlways == MeshSpec => []MeshInv
  BY MeshInvInit, MeshInvStep, PTL DEF MeshSpec

(* Type correctness of the composition. *)
THEOREM MeshTyping == MeshSpec => []MeshTypeOK
  <1>1. MeshInv => MeshTypeOK
    BY DEF MeshInv
  <1> QED
    BY <1>1, MeshInvAlways, PTL

LEMMA WriteCovered ==
    ASSUME MeshInv, Write, Reissued \/ ~drifted
    PROVE  Covers(ProjectsSeen)
  <1>1. pc = "publish" /\ conn = None
    BY DEF Write, MeshInv, LinkInv
  <1>2. ProjectsSeen \in SUBSET Projects /\ ProjectsSeen # Nil
    BY SeenType, DiscovererAssumption DEF MeshInv, Nil
  <1>3. CASE Reissued
    BY <1>2, <1>3 DEF MeshInv, GrantInv, Covers, NoCert
  <1>4. CASE ~Reissued
    BY <1>1, <1>2, <1>4 DEF MeshInv, DriftInv, Reissued, Covers, NoCert
  <1> QED
    BY <1>3, <1>4

(* As auto.yml is written with a changed project set, the certificate covers *)
(* it: whatever failed before, whichever process died, and although requests *)
(* that nobody waits for any more may still be on their way.                *)
THEOREM MeshReissuesFirst == MeshSpec => ReissueBeforePublish
  <1>1. MeshInv /\ [MeshNext]_meshVars
          => [Write /\ ProjectsSeen # lastProjects => Covers(ProjectsSeen)]_meshVars
    BY WriteCovered DEF Write, Reissued
  <1> QED
    BY <1>1, MeshInvAlways, PTL DEF MeshSpec, ReissueBeforePublish

(* The certificate covers what is published whenever lastProjects has not    *)
(* drifted from what certgen issued.                                       *)
THEOREM MeshPublishesCovered == MeshSpec => PublishCoveredUndrifted
  <1>1. MeshInv /\ [MeshNext]_meshVars
          => [Write /\ ~drifted => Covers(ProjectsSeen)]_meshVars
    BY WriteCovered
  <1> QED
    BY <1>1, MeshInvAlways, PTL DEF MeshSpec, PublishCoveredUndrifted

(* Between reconciles every published route is covered, with the same       *)
(* exception, for any containers, connections and failures.                 *)
THEOREM MeshLoopCovered == MeshSpec => []LoopCovered
  <1>1. MeshInv => LoopCovered
    <2> SUFFICES ASSUME MeshInv, pc = "select", ~drifted, lastProjects # Nil
                 PROVE  Covers(ProjectsRouted)
      BY DEF LoopCovered
    <2>1. conn = None /\ ~Reissued
      BY DEF MeshInv, LinkInv, Reissued
    <2>2. served = lastProjects
      BY <2>1 DEF MeshInv, DriftInv
    <2>3. ProjectsRouted \subseteq lastProjects
      BY DEF MeshInv, DiscovererInv, RoutedRemembered
    <2> QED
      BY <2>2, <2>3 DEF Covers, NoCert
  <1> QED
    BY <1>1, MeshInvAlways, PTL

-----------------------------------------------------------------------------
(* The composition and the discoverer by itself.                           *)

(* A discoverer beside certgen behaves like the discoverer by itself whose   *)
(* calls may fail at any time, so what is proved of the one is true of the  *)
(* other.                                                                  *)
THEOREM MeshImplementsDiscoverer ==
    ASSUME "reissue" \in Faults
    PROVE  MeshSpec => Spec
  <1>1. MeshInit => Init
    BY DEF MeshInit
  <1>2. [MeshNext]_meshVars => [Next]_vars
    BY MeshStepsDiscoverer DEF Step, Next
  <1> QED
    BY <1>1, <1>2, PTL DEF MeshSpec, Spec

-----------------------------------------------------------------------------
(* What Traefik reads.                                                     *)

(* Containers only come, and one that runs can be inspected. *)
OnlyGrows == {"shrink", "inspect"} \cap Faults = {}

Running == {c \in Containers : state[c] # "stopped"}

(* The projects a certificate must have: of what is published, of what       *)
(* Traefik routes, and of what the discoverer remembers.                    *)
Needed == ProjectsRouted \cup ProjectsIn(routes)
            \cup (IF lastProjects = Nil THEN {} ELSE lastProjects)

(* The projects a certificate may have: all of them will be in the next     *)
(* request.                                                                *)
Bound == ProjectsIn(IF pc = "inspect" /\ ~done THEN todo \cup Seen ELSE Running)

Good(projects) == projects # NoCert /\ Needed \subseteq projects /\ projects \subseteq Bound

(* Every certificate that is served, or may come to be served, is between   *)
(* the two.                                                                *)
EdgeInv ==
    /\ MeshInv
    /\ todo \cup Seen \subseteq Running
    /\ served = NoCert => auto = {} /\ routes = {} /\ lastProjects = Nil
    /\ served # NoCert => Good(served)
    /\ \A c \in Conns : stage[c] \in {"pending", "orphaned"} => Good(goal[c])
    /\ TraefikCovered

LEMMA EdgeInvInit == EdgeInit => EdgeInv
  <1> SUFFICES ASSUME EdgeInit PROVE EdgeInv
    OBVIOUS
  <1>1. MeshInv
    BY MeshInvInit DEF EdgeInit
  <1>2. /\ served = NoCert /\ \A c \in Conns : stage[c] = "none"
        /\ auto = {} /\ routes = {} /\ lastProjects = Nil /\ todo = {} /\ snap = Absent
    BY DEF EdgeInit, MeshInit, Init, Store!Init
  <1>3. Seen = {}
    BY <1>2 DEF Seen, Absent
  <1> QED
    BY <1>1, <1>2, <1>3 DEF EdgeInv, TraefikCovered

LEMMA ProjectsInGrows ==
    ASSUME NEW cs, NEW ds, cs \subseteq ds
    PROVE  ProjectsIn(cs) \subseteq ProjectsIn(ds)
  BY DEF ProjectsIn

(* While containers only come, what may be requested only grows. *)
LEMMA BoundGrows ==
    ASSUME OnlyGrows, DiscovererInv, todo \cup Seen \subseteq Running, [Step]_vars
    PROVE  Bound \subseteq Bound' /\ todo' \cup Seen' \subseteq Running'
  <1> DEFINE from == IF pc = "inspect" /\ ~done THEN todo \cup Seen ELSE Running
             to == IF pc' = "inspect" /\ ~done' THEN todo' \cup Seen' ELSE Running'
  <1> SUFFICES from \subseteq to /\ todo' \cup Seen' \subseteq Running'
    BY DEF Bound, ProjectsIn
  <1>1. ASSUME NEW c \in Containers, NEW new \in {"stopped", "off", "on"}, Change(c, new)
        PROVE  from \subseteq to /\ todo' \cup Seen' \subseteq Running'
    <2>1. Running \subseteq Running'
      BY <1>1 DEF Change, Shrinks, OnlyGrows, Running, DiscovererInv, TypeOK
    <2>2. UNCHANGED <<pc, done, todo, snap>> /\ Seen' = Seen
      BY <1>1 DEF Change, scan, Seen
    <2> QED
      BY <2>1, <2>2
  <1>2. ASSUME UNCHANGED <<state, todo, snap>>, pc' = "inspect" /\ ~done' => pc = "inspect" /\ ~done
        PROVE  from \subseteq to /\ todo' \cup Seen' \subseteq Running'
    BY <1>2 DEF Running, Seen
  <1>3. ASSUME UNCHANGED state, todo' = {}, snap' = Absent, pc' # "inspect"
        PROVE  from \subseteq to /\ todo' \cup Seen' \subseteq Running'
    <2>1. Seen' = {} /\ Running' = Running
      BY <1>3 DEF Running, Seen, Absent
    <2> QED
      BY <1>3, <2>1
  <1>4. CASE List
    <2>1. todo' = Running /\ Running' = Running /\ pc = "list" /\ snap' = Absent
      BY <1>4 DEF List, Running, docker, DiscovererInv, ScanInv, Reconciling
    <2>2. Seen' = {}
      BY <2>1 DEF Seen, Absent
    <2> QED
      BY <2>1, <2>2
  <1>5. ASSUME NEW c \in Containers, Inspect(c)
        PROVE  from \subseteq to /\ todo' \cup Seen' \subseteq Running'
    <2>1. Seen' = Seen \cup {c} /\ todo' = todo \ {c} /\ c \in todo /\ Running' = Running
      BY <1>5 DEF Inspect, Seen, Running, docker, DiscovererInv, TypeOK
    <2> QED
      BY <1>5, <2>1 DEF Inspect
  <1>6. ASSUME NEW c \in Containers, InspectFail(c)
        PROVE  from \subseteq to /\ todo' \cup Seen' \subseteq Running'
    <2>1. done /\ done' = done /\ Seen' = Seen /\ todo' \subseteq todo /\ Running' = Running
      BY <1>6 DEF InspectFail, Seen, Running, OnlyGrows, docker
    <2> QED
      BY <2>1
  <1>7. CASE BootCancelled \/ ListFail \/ RenderFail \/ WriteFail \/ CallFail \/ Write
    BY <1>3, <1>7, ReturnInv
       DEF BootCancelled, ListFail, RenderFail, WriteFail, CallFail, Write, docker
  <1>8. CASE Exit \/ StreamError \/ Crash
    BY <1>3, <1>8 DEF Exit, StreamError, Crash, Terminate, EndScan, docker
  <1>9. CASE \/ BootRetry \/ Call \/ SkipCall \/ CallOk \/ SubscribeContainers \/ SubscribeNetwork
             \/ Fire \/ Sigterm \/ Restart \/ UNCHANGED vars \/ \E s \in Streams : Bump(s)
    BY <1>2, <1>9
       DEF BootRetry, Call, SkipCall, CallOk, SubscribeContainers, SubscribeNetwork, Fire,
           Sigterm,
           Restart, Bump, vars, docker, scan
  <1> QED
    BY <1>1, <1>4, <1>5, <1>6, <1>7, <1>8, <1>9
       DEF Step, Next, Advance, Local, DockerReturns, Environment

(* auto.yml and lastProjects change together, in Write. *)
LEMMA UnwrittenFact ==
    ASSUME DiscovererInv, Advance, ~Write
    PROVE  auto' = auto /\ lastProjects' = lastProjects
  BY DEF Advance, Local, DockerReturns, BootRetry, BootCancelled, List, ListFail, Inspect, InspectFail, SkipCall,
         RenderFail, WriteFail, SubscribeContainers, SubscribeNetwork, Bump, Fire, Exit,
         Terminate, published

(* A step that brings no certificate, request or publication. *)
LEMMA EdgeFrame ==
    ASSUME EdgeInv, MeshInv', todo' \cup Seen' \subseteq Running', Bound \subseteq Bound',
           UNCHANGED <<served, auto, traefik>>, lastProjects' \in {lastProjects, Nil},
           \A c \in Conns : stage'[c] \in {"pending", "orphaned"}
                              => stage[c] \in {"pending", "orphaned"} /\ goal'[c] = goal[c]
    PROVE  EdgeInv'
  <1>1. UNCHANGED <<routes, cover, reading>> /\ ProjectsRouted' = ProjectsRouted
    BY DEF traefik, ProjectsRouted
  <1>2. Needed' \subseteq Needed
    BY <1>1 DEF Needed
  <1> QED
    BY <1>1, <1>2 DEF EdgeInv, Good, TraefikCovered

LEMMA EdgeMeshStep ==
    ASSUME OnlyGrows, EdgeInv, MeshNext, UNCHANGED traefik
    PROVE  EdgeInv'
  <1>1. MeshInv' /\ DiscovererInv
    BY MeshInvStep DEF EdgeInv, MeshInv
  <1>2. Bound \subseteq Bound' /\ todo' \cup Seen' \subseteq Running'
    BY <1>1, MeshStepsDiscoverer, BoundGrows DEF EdgeInv
  <1>3. UNCHANGED <<routes, cover, reading>>
    BY DEF traefik
  <1>4. CASE Alone /\ Write
    <2>1. /\ lastProjects' = ProjectsSeen /\ auto' = Routes /\ UNCHANGED <<served, stage, goal>>
      BY <1>4 DEF Alone, Write, store
    <2>2. ProjectsRouted' \subseteq ProjectsSeen
      BY <2>1 DEF ProjectsRouted, Routes, ProjectsSeen
    <2>3. ProjectsSeen # Nil
      BY <1>1, SeenType, DiscovererAssumption DEF Nil
    <2>4. CASE Reissued
      <3>1. served = ProjectsSeen /\ served # NoCert /\ Quiet
        BY <2>3, <2>4 DEF EdgeInv, MeshInv, GrantInv, NoCert
      <3>2. \A c \in Conns : stage[c] \notin {"pending", "orphaned"}
        BY <1>4, <3>1, MeshAssumption DEF EdgeInv, MeshInv, LinkInv, Quiet, Write
      <3> QED
        BY <1>1, <1>2, <1>3, <2>1, <2>2, <3>1, <3>2 DEF EdgeInv, Good, Needed,
                                                        TraefikCovered
    <2>5. CASE ~Reissued
      <3>1. lastProjects = ProjectsSeen /\ lastProjects # Nil
        BY <1>4, <2>3, <2>5 DEF Reissued, Write
      <3>2. Needed' \subseteq Needed /\ served # NoCert
        BY <1>3, <2>1, <2>2, <3>1 DEF Needed, EdgeInv
      <3> QED
        BY <1>1, <1>2, <1>3, <2>1, <3>2 DEF EdgeInv, Good, TraefikCovered
    <2> QED
      BY <2>4, <2>5
  <1>5. ASSUME NEW c \in Conns, Post(c)
        PROVE  EdgeInv'
    <2>1. /\ pc = "inspect" /\ ~done /\ todo = {} /\ UNCHANGED <<served, auto, lastProjects>>
          /\ pc' = "calling"
          /\ \A d \in Conns \ {c} : stage'[d] = stage[d] /\ goal'[d] = goal[d]
          /\ stage'[c] \in {"pending", "orphaned"} => goal'[c] = ProjectsSeen
      BY <1>5
         DEF Post, Call, published, Store!Ask, Store!Refuse, Store!Answer, EdgeInv,
             MeshInv, MeshTypeOK
    <2>2. Bound = ProjectsSeen
      BY <2>1 DEF Bound, ProjectsIn, ProjectsSeen, Seen
    <2>3. Good(ProjectsSeen)
      <3>1. ProjectsSeen # NoCert
        BY <1>1, SeenType, DiscovererAssumption DEF NoCert, Nil
      <3>2. Needed \subseteq Bound
        BY DEF EdgeInv, Good, Needed, ProjectsRouted, ProjectsIn
      <3> QED
        BY <2>2, <3>1, <3>2 DEF Good
    <2>4. Needed' = Needed
      BY <1>3, <2>1 DEF Needed, ProjectsRouted
    <2> QED
      BY <1>1, <1>2, <1>3, <2>1, <2>3, <2>4 DEF EdgeInv, Good, TraefikCovered
  <1>6. ASSUME NEW c \in Conns, Serve(c)
        PROVE  EdgeInv'
    <2>1. /\ UNCHANGED <<auto, lastProjects>>
          /\ \A d \in Conns \ {c} : stage'[d] = stage[d] /\ goal'[d] = goal[d]
          /\ stage[c] \in {"pending", "orphaned"} /\ served' \in {served, goal[c]}
          /\ \/ stage'[c] \notin {"pending", "orphaned"}
             \/ stage'[c] = stage[c] /\ goal'[c] = goal[c]
      BY <1>6
         DEF Serve, vars, published, Store!Succeed, Store!Fail, Store!Settle, Store!Split,
             Store!Issue, Store!Answer, Store!Drop, EdgeInv, MeshInv, MeshTypeOK
    <2>2. Needed' = Needed
      BY <1>3, <2>1 DEF Needed, ProjectsRouted
    <2> QED
      BY <1>1, <1>2, <1>3, <2>1, <2>2 DEF EdgeInv, Good, TraefikCovered
  <1>7. CASE \/ Alone /\ ~Write
             \/ Starts \/ Outside \/ Dies
             \/ Granted \/ Denied \/ Broken \/ GiveUp \/ Unreachable \/ UnreachableFails
             \/ CertgenCrash
    <2>1. /\ auto' = auto /\ lastProjects' \in {lastProjects, Nil}
      <3>1. CASE Alone /\ ~Write
        BY <1>1, <3>1, UnwrittenFact DEF Alone
      <3>2. CASE ~(Alone /\ ~Write)
        BY <1>7, <3>2
           DEF Starts, Restart, Outside, Change, Sigterm, Dies, Crash, StreamError,
               Terminate,
               Granted, CallOk, Denied, Broken, GiveUp, CallFail, Unreachable, Call,
               UnreachableFails, CertgenCrash, vars, published
      <3> QED
        BY <1>7, <3>1, <3>2
    <2>2. /\ served' = served
          /\ \A c \in Conns : stage'[c] \in {"pending", "orphaned"}
                                => stage[c] \in {"pending", "orphaned"} /\ goal'[c] = goal[c]
      <3>1. CASE \/ Alone \/ Starts \/ Outside \/ Unreachable \/ UnreachableFails \/ Broken
                 \/ CertgenCrash
        BY <3>1
           DEF Alone, Starts, Outside, Unreachable, UnreachableFails, Broken, CertgenCrash,
               Store!Crash, store
      <3>2. CASE Dies \/ Granted \/ Denied \/ GiveUp
        <4>1. \/ UNCHANGED <<served, stage, goal>>
              \/ Store!Leave(conn) \/ Store!Collect(conn)
          BY <3>2 DEF Dies, Granted, Denied, GiveUp, store
        <4>2. CASE Store!Leave(conn)
          BY <4>2 DEF Store!Leave, Store!Drop, EdgeInv, MeshInv, MeshTypeOK
        <4>3. CASE Store!Collect(conn)
          BY <4>3 DEF Store!Collect, Store!Drop, EdgeInv, MeshInv, MeshTypeOK
        <4> QED
          BY <4>1, <4>2, <4>3
      <3> QED
        BY <1>7, <3>1, <3>2
    <2> QED
      BY <1>1, <1>2, <2>1, <2>2, EdgeFrame
  <1> QED
    BY <1>4, <1>5, <1>6, <1>7 DEF MeshNext

LEMMA EdgeInvStep ==
    ASSUME OnlyGrows
    PROVE  EdgeInv /\ [EdgeNext]_edgeVars => EdgeInv'
  <1> SUFFICES ASSUME EdgeInv, [EdgeNext]_edgeVars
               PROVE  EdgeInv'
    OBVIOUS
  <1>1. CASE MeshNext /\ UNCHANGED traefik
    BY <1>1, EdgeMeshStep
  <1>2. CASE UNCHANGED meshVars
    <2>1. UNCHANGED <<pc, done, state, todo, snap, auto, lastProjects, served, stage, goal>>
      BY <1>2 DEF meshVars, vars, docker, scan, published, store
    <2>2. MeshInv'
      BY <1>2, MeshInvStep DEF EdgeInv
    <2>3. Bound' = Bound /\ Running' = Running /\ Seen' = Seen /\ ProjectsRouted' = ProjectsRouted
      BY <2>1 DEF Bound, ProjectsIn, Running, Seen, ProjectsRouted
    <2>4. CASE UNCHANGED traefik
      BY <2>1, <2>2, <2>3, <2>4, EdgeFrame DEF EdgeInv
    <2>5. CASE ReadRoutes
      <3>1. Needed' \subseteq Needed
        BY <2>1, <2>3, <2>5 DEF ReadRoutes, Needed, ProjectsRouted, ProjectsIn
      <3> QED
        BY <2>1, <2>2, <2>3, <2>5, <3>1 DEF ReadRoutes, EdgeInv, Good, TraefikCovered
    <2>6. CASE ReadCert
      <3>1. Needed' = Needed
        BY <2>1, <2>3, <2>6 DEF ReadCert, Needed
      <3>2. routes # {} => served # NoCert /\ ProjectsIn(routes) \subseteq served
        BY DEF EdgeInv, Good, Needed
      <3> QED
        BY <2>1, <2>2, <2>3, <2>6, <3>1, <3>2
           DEF ReadCert, EdgeInv, Good, TraefikCovered, ProjectsIn
    <2> QED
      BY <1>2, <2>4, <2>5, <2>6, <1>1 DEF EdgeNext, edgeVars
  <1> QED
    BY <1>1, <1>2 DEF EdgeNext, ReadRoutes, ReadCert, edgeVars

(* Of what Traefik has read, certgen's certificate covers every route, at    *)
(* every moment, if containers only come and inspections succeed: whatever  *)
(* else fails in the discoverer, in certgen and between them.  A pair that  *)
(* Traefik could not load is excepted (TraefikCovered), and without          *)
(* OnlyGrows the statement is false: MCEdgeDrop.cfg shows how.             *)
THEOREM EdgeCovered ==
    ASSUME OnlyGrows
    PROVE  EdgeSpec => []TraefikCovered
  <1>1. EdgeInv => TraefikCovered
    BY DEF EdgeInv
  <1> QED
    BY <1>1, EdgeInvInit, EdgeInvStep, PTL DEF EdgeSpec
=============================================================================
