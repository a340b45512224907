--------------------------------- MODULE Mesh ---------------------------------
(***************************************************************************)
(* The discoverer and certgen together.  The discoverer is Discoverer;     *)
(* certgen is what CertStore promises, which Certgen is shown to keep.     *)
(*                                                                         *)
(* The suffixes, the machine and the tailnet are fixed while a discoverer  *)
(* runs, so a SAN list stands for the set of projects it was made of, and  *)
(* a certificate covers a container's hostnames if its project is in that  *)
(* set, or if it has none and there is a certificate at all.  What the     *)
(* certificate file says counts here; whether the key file matches it is   *)
(* for Edge to ask.                                                        *)
(***************************************************************************)
EXTENDS Discoverer

CONSTANTS Conns,        \* connections of the discoverer's HTTP client
          None,         \* no call is on its way
          Rejected,     \* projects that fail ValidateLabel
          LinkFaults    \* failures of certgen and on the way to it

LinkFaultKinds == {"unreachable", "lostReply", "refusal", "certgenCrash"}

ASSUME MeshAssumption ==
    /\ None \notin Conns
    /\ Rejected \subseteq Projects
    /\ LinkFaults \subseteq LinkFaultKinds

VARIABLES
    served, split, stage, goal, answer,  \* certgen: see CertStore
    conn,       \* the connection of the call on its way
    drifted     \* history: lastProjects may not be what certgen issued last

store == <<served, split, stage, goal, answer>>
meshVars == <<vars, store, conn, drifted>>

NoCert == Nil

Store == INSTANCE CertStore WITH SanSets <- SUBSET Projects

Covers(projects) == served # NoCert /\ projects \subseteq served

MeshInit ==
    /\ Init
    /\ Store!Init
    /\ conn = None
    /\ drifted = FALSE

-----------------------------------------------------------------------------
(* certclient.Reissue: one request per call.                               *)

(* The request reaches the handler, which takes it or refuses it whole. *)
Post(c) ==
    /\ ~done
    /\ Call
    /\ conn' = c
    /\ IF ProjectsSeen \cap Rejected = {}
         THEN Store!Ask(c, ProjectsSeen)
         ELSE Store!Refuse(c)
    /\ UNCHANGED drifted

(* Slip: the call returns once the request is sent. *)
GrantedEarly ==
    /\ conn # None
    /\ stage[conn] = "pending"
    /\ CallOk
    /\ conn' = None
    /\ UNCHANGED <<store, drifted>>

(* 200 and 204 are success. *)
Granted ==
    /\ conn # None
    /\ answer[conn] = "ok"
    /\ CallOk
    /\ Store!Collect(conn)
    /\ conn' = None
    /\ UNCHANGED drifted

(* Slip: the status code is not looked at. *)
DeniedTakenForOk ==
    /\ conn # None
    /\ answer[conn] = "error"
    /\ CallOk
    /\ Store!Collect(conn)
    /\ conn' = None
    /\ UNCHANGED drifted

(* Any other status is an error. *)
Denied ==
    /\ conn # None
    /\ answer[conn] = "error"
    /\ CallFail
    /\ Store!Collect(conn)
    /\ conn' = None
    /\ UNCHANGED drifted

(* The connection broke because certgen died. *)
Broken ==
    /\ conn # None
    /\ stage[conn] = "none"
    /\ CallFail
    /\ conn' = None
    /\ drifted' = (lastProjects # Nil)
    /\ UNCHANGED store

(* The client's 60 s are over, its context is cancelled, or the response    *)
(* cannot be decoded: the call fails whatever certgen does with the request. *)
GiveUp ==
    /\ conn # None
    /\ done \/ "lostReply" \in LinkFaults
    /\ CallFail
    /\ Store!Leave(conn) \/ Store!Collect(conn)
    /\ conn' = None
    /\ drifted' = (lastProjects # Nil)

(* The socket does not accept the connection, or the context is done        *)
(* already: nothing is asked.                                               *)
Unreachable ==
    /\ done \/ "unreachable" \in LinkFaults
    /\ Call
    /\ UNCHANGED <<store, conn, drifted>>

UnreachableFails ==
    /\ conn = None
    /\ CallFail
    /\ UNCHANGED <<store, conn, drifted>>

-----------------------------------------------------------------------------
(* certgen at work: mkcert or a rename may fail, the process may be killed. *)

Serve(c) ==
    /\ \/ Store!Succeed(c)
       \/ "refusal" \in LinkFaults /\ Store!Fail(c)
       \/ Store!Split(c)
       \/ Store!Settle(c)
    /\ UNCHANGED <<vars, conn, drifted>>

CertgenCrash ==
    /\ "certgenCrash" \in LinkFaults
    /\ \E c \in Conns : stage[c] # "none"
    /\ Store!Crash
    /\ UNCHANGED <<vars, conn, drifted>>

-----------------------------------------------------------------------------
(* Steps of the discoverer that certgen takes no part in.  A publication    *)
(* that fails after a reissue leaves lastProjects behind, and one that       *)
(* succeeds after a reissue brings it back.                                 *)
Alone ==
    /\ Advance
    /\ LET reissued == pc = "publish" /\ ProjectsSeen # lastProjects
       IN  drifted' = IF reissued THEN ~Write /\ lastProjects # Nil ELSE drifted
    /\ UNCHANGED <<store, conn>>

(* A new process has no lastProjects that could be wrong. *)
Starts == Restart /\ drifted' = FALSE /\ UNCHANGED <<store, conn>>

Outside == /\ \/ \E c \in Containers, new \in {"stopped", "off", "on"} : Change(c, new)
              \/ Sigterm
           /\ UNCHANGED <<store, conn, drifted>>

(* The process ends, with its call if there is one: certgen sees it leave. *)
Dies == /\ Crash \/ StreamError
        /\ conn' = None
        /\ IF conn = None \/ stage[conn] = "none"
             THEN UNCHANGED store
             ELSE Store!Leave(conn) \/ Store!Collect(conn)
        /\ UNCHANGED drifted

MeshNext ==
    \/ Alone \/ Starts \/ Outside \/ Dies
    \/ \E c \in Conns : Post(c) \/ Serve(c)
    \/ Granted \/ Denied \/ Broken \/ GiveUp \/ Unreachable \/ UnreachableFails
    \/ CertgenCrash

MeshSpec == MeshInit /\ [][MeshNext]_meshVars

-----------------------------------------------------------------------------
(* Properties.                                                             *)

(* Every variable of the composition has its type. *)
MeshTypeOK ==
    /\ TypeOK
    /\ served \in (SUBSET Projects) \cup {NoCert}
    /\ split \in BOOLEAN
    /\ stage \in [Conns -> {"none", "pending", "orphaned", "answered"}]
    /\ goal \in [Conns -> (SUBSET Projects) \cup {NoCert}]
    /\ answer \in [Conns -> {"none", "ok", "error"}]
    /\ conn \in Conns \cup {None}
    /\ drifted \in BOOLEAN

(* "wait for it to succeed before writing the new auto.yml"                 *)
(* (reconcile.go:126-128): when the project set differs from the last       *)
(* published one, the certificate file covers all of it as auto.yml is      *)
(* written, whatever failed before, whoever was killed, and although        *)
(* requests of an earlier call or process may still be on their way.        *)
ReissueBeforePublish ==
    [][Write /\ ProjectsSeen # lastProjects => Covers(ProjectsSeen)]_meshVars

(* "If we wrote first, Traefik would route a hostname the cert has no SAN   *)
(* for" (reconcile.go:128): the certificate covers every project as         *)
(* auto.yml is written, also when the reissue is skipped because the        *)
(* project set is the last published one.                                   *)
PublishCovered == [][Write => Covers(ProjectsSeen)]_meshVars

(* When that holds: unless a reissue that was, or may have been, carried     *)
(* out was followed by a failure of its reconcile, and nothing has been      *)
(* published after a reissue since.                                         *)
PublishCoveredUndrifted == [][Write /\ ~drifted => Covers(ProjectsSeen)]_meshVars

(* Between reconciles every published route is covered, although projects   *)
(* come and go, calls fail, and processes are killed and started again;      *)
(* with the same exception, and not before the first publication of a       *)
(* process (a boot scan that failed leaves what an earlier process wrote),   *)
(* nor when SIGTERM has come and the call that it cut short may be going on. *)
LoopCovered ==
    (pc = "select" /\ ~done /\ ~drifted /\ lastProjects # Nil) => Covers(ProjectsRouted)
=============================================================================
