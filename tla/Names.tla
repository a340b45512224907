--------------------------------- MODULE Names ---------------------------------
(***************************************************************************)
(* What the other modules leave out of a reconcile: names.  Hostnames      *)
(* inferred from compose labels and container names, the projects, the SAN *)
(* list certgen makes of them, the hosts of the routers Render emits, the  *)
(* port, and the warning about labeled containers Traefik cannot see.  The *)
(* reconcile pipeline runs here in one step, with certgen at hand.         *)
(*                                                                         *)
(* A DNS name is the sequence of its labels.  Characters matter only as    *)
(* far as the two patterns look at them, so a label is a value that is     *)
(* clean (lower-case letters, digits, hyphens) or not, and ends in a       *)
(* hyphen or not.  Empty labels and leading hyphens are left out.          *)
(***************************************************************************)
EXTENDS Integers, Sequences, FiniteSets

CONSTANTS
    Labels,       \* DNS labels, as written
    Clean,        \* those the character class [a-z0-9-] admits
    Dashed,       \* those that end in a hyphen
    Lower,        \* strings.ToLower on labels
    Suffixes,     \* the local suffixes
    MachineName,  \* <<>> when there is no tailnet
    TailnetDomain,
    Containers,   \* records of what their configuration says, see NamesAssumption
    Networks,
    MeshNetwork,  \* NETWORK_NAME
    Off           \* no network

Names == Seq(Labels)

(* In place of its networks: the container is not in the list. *)
Stopped == {Off}

ASSUME NamesAssumption ==
    /\ Clean \subseteq Labels
    /\ Lower \in [Labels -> Labels]
    /\ \A l \in Clean : Lower[l] = l
    /\ Suffixes \subseteq Names
    /\ MachineName \in Names /\ TailnetDomain \in Names
    /\ MeshNetwork \in Networks
    /\ Off \notin Networks
    /\ \A c \in Containers :
          /\ c.project \in Names    \* com.docker.compose.project, <<>> without it
          /\ c.service \in Names    \* com.docker.compose.service
          /\ c.name \in Names
          /\ c.name # <<>>
          /\ c.labeled \in BOOLEAN  \* it has traefik.* labels
          /\ c.override \in Networks \cup {Off}  \* traefik.docker.network, if any
          /\ c.portLabel \in Int                     \* dynomesh.port, 0 without it
          /\ c.exposed \subseteq Nat \X {"tcp", "udp"}
          /\ c.places \subseteq SUBSET Networks     \* bound: where it may be

-----------------------------------------------------------------------------
(* Pure functions.                                                         *)

(* hostnameRE, and labelRE of certgen. *)
HostnameRE(n) == n # <<>> /\ \A i \in 1..Len(n) : n[i] \in Clean

ValidateLabel(n) == HostnameRE(n) /\ n[Len(n)] \notin Dashed

ToLower(n) == [i \in 1..Len(n) |-> Lower[n[i]]]

BaseName(c) == IF c.project # <<>> /\ c.service # <<>> THEN c.service \o c.project ELSE c.name

InferHostname(c) == ToLower(BaseName(c))

(* Every container with a project counts, routed or not, as it is spelled. *)
ProjectsOf(cs) == {c.project : c \in cs} \ {<<>>}

(* What wildcards and routers are made under: the suffixes and, when both   *)
(* halves are known, the machine's name in the tailnet.                     *)
Roots == Suffixes \cup (IF MachineName # <<>> /\ TailnetDomain # <<>>
                          THEN {MachineName \o TailnetDomain} ELSE {})

(* Slip: the tailnet variants are made for standalone containers only. *)
SANsLocalProjects(projects) == Roots \cup {p \o s : p \in projects, s \in Suffixes}

(* The SAN "*.n" is written n. *)
SANs(projects) == Roots \cup {p \o r : p \in projects, r \in Roots}

(* The Host(...) alternatives of a router. *)
Hosts(hostname) == {hostname \o r : r \in Roots}

(* X.509: a wildcard stands for exactly one label. *)
Matches(host, sans) == host # <<>> /\ Tail(host) \in sans

Favourites == <<80, 8080, 8000>>

(* The port of a container, 0 when none is usable.  A port exposed for tcp  *)
(* and for udp is two exposed ports.                                        *)
SelectPort(c) ==
    LET numbers == {e[1] : e \in c.exposed}
        favourites == {i \in 1..3 : Favourites[i] \in numbers}
    IN IF c.portLabel \in 1..65535 THEN c.portLabel
       ELSE IF Cardinality(c.exposed) = 1 THEN CHOOSE p \in numbers : TRUE
       ELSE IF favourites = {} THEN 0
       ELSE Favourites[CHOOSE i \in favourites : \A j \in favourites : i <= j]

(* The body certgen accepts: one invalid value refuses it. *)
Accepts(projects) ==
    /\ Suffixes # {}
    /\ \A n \in Suffixes \cup projects : ValidateLabel(n)
    /\ \A n \in {MachineName, TailnetDomain} \ {<<>>} : ValidateLabel(n)

-----------------------------------------------------------------------------
VARIABLES
    attached,      \* the networks of every container, or Stopped
    sans,          \* SANs of the served certificate, {} when there is none
    published,     \* auto.yml: the containers it has routers for
    lastProjects,  \* reconciler.lastProjects; Unknown before the first publish
    logged,        \* reconciler.loggedMisconfig, {} for the empty string
    warned,        \* containers the last reconcile warned about
    sight          \* history: the networks a container was last seen without
                   \* its target on, Stopped when it was fine or never seen

vars == <<attached, sans, published, lastProjects, logged, warned, sight>>

Unknown == {<<>>}

Init ==
    /\ attached = [c \in Containers |-> Stopped]
    /\ sans = {}
    /\ published = {}
    /\ lastProjects = Unknown
    /\ logged = [c \in Containers |-> {}]
    /\ warned = {}
    /\ sight = [c \in Containers |-> Stopped]

(* Docker: a container starts, stops, joins or leaves a network. *)
Attach(c, networks) ==
    /\ networks \in c.places \cup {Stopped}
    /\ attached[c] # networks
    /\ attached' = [attached EXCEPT ![c] = networks]
    /\ UNCHANGED <<sans, published, lastProjects, logged, warned, sight>>

Seen == {c \in Containers : attached[c] # Stopped}

(* FromContainer: what is left to the docker provider, is not on the mesh   *)
(* network or has no usable port is skipped.                                *)
Routed == {c \in Seen : ~c.labeled /\ MeshNetwork \in attached[c] /\ SelectPort(c) # 0}

(* LabeledMissingNetwork. *)
Target(c) == IF c.override # Off THEN c.override ELSE MeshNetwork

Misconfigured(c) == c.labeled /\ Target(c) \notin attached[c]

(* Slip: a container that recovered is not forgotten. *)
LogMisconfigKeeps ==
    /\ warned' = {c \in Seen : Misconfigured(c) /\ logged[c] # attached[c]}
    /\ logged' = [c \in Containers |->
                    IF c \in Seen /\ Misconfigured(c) THEN attached[c] ELSE logged[c]]
    /\ sight' = [c \in Containers |->
                    IF c \notin Seen THEN sight[c]
                    ELSE IF Misconfigured(c) THEN attached[c] ELSE Stopped]

(* Slip: a container that recovered gets a mark in place of its fingerprint. *)
LogMisconfigMarks ==
    /\ warned' = {c \in Seen : Misconfigured(c) /\ logged[c] # attached[c]}
    /\ logged' = [c \in Containers |->
                    IF c \notin Seen THEN logged[c]
                    ELSE IF Misconfigured(c) THEN attached[c] ELSE Stopped]
    /\ sight' = [c \in Containers |->
                    IF c \notin Seen THEN sight[c]
                    ELSE IF Misconfigured(c) THEN attached[c] ELSE Stopped]

(* logMisconfigIfNeeded, for every container of the list. *)
LogMisconfig ==
    /\ warned' = {c \in Seen : Misconfigured(c) /\ logged[c] # attached[c]}
    /\ logged' = [c \in Containers |->
                    IF c \notin Seen THEN logged[c]
                    ELSE IF Misconfigured(c) THEN attached[c] ELSE {}]
    /\ sight' = [c \in Containers |->
                    IF c \notin Seen THEN sight[c]
                    ELSE IF Misconfigured(c) THEN attached[c] ELSE Stopped]

Asks == ProjectsOf(Seen) # lastProjects

(* certgen refuses the request: nothing else happens. *)
Refused ==
    /\ Asks
    /\ ~Accepts(ProjectsOf(Seen))
    /\ warned' = {}
    /\ UNCHANGED <<attached, sans, published, lastProjects, logged, sight>>

Reissue ==
    /\ Asks => Accepts(ProjectsOf(Seen))
    /\ sans' = IF Asks THEN SANs(ProjectsOf(Seen)) ELSE sans

(* Render refuses the configuration for one hostname. *)
Renders == \A c \in Routed : HostnameRE(InferHostname(c))

Unrenderable ==
    /\ Reissue
    /\ ~Renders
    /\ LogMisconfig
    /\ UNCHANGED <<attached, published, lastProjects>>

Publish ==
    /\ Reissue
    /\ Renders
    /\ LogMisconfig
    /\ published' = Routed
    /\ lastProjects' = ProjectsOf(Seen)
    /\ UNCHANGED attached

Next ==
    \/ \E c \in Containers, networks \in (SUBSET Networks) \cup {Stopped} : Attach(c, networks)
    \/ Refused \/ Unrenderable \/ Publish

Spec == Init /\ [][Next]_vars

-----------------------------------------------------------------------------
(* Properties.                                                             *)

(* Every variable has its type. *)
TypeOK ==
    /\ attached \in [Containers -> (SUBSET Networks) \cup {Stopped}]
    /\ sans \in SUBSET Names
    /\ published \in SUBSET Containers
    /\ lastProjects \in SUBSET Names
    /\ logged \in [Containers -> SUBSET Networks]
    /\ warned \in SUBSET Containers
    /\ sight \in [Containers -> (SUBSET Networks) \cup {Stopped}]

(* The hostname has one label in front of its project, or is one label. *)
OneLabel(c) == Len(IF c.project # <<>> /\ c.service # <<>> THEN c.service ELSE c.name) = 1

(* "The project-level SANs [...] are what make nested hostnames work"       *)
(* (docs/architecture.md:150-151): as long as the                          *)
(* certificate is the one made for lastProjects, every host of every router *)
(* in auto.yml has a wildcard, local and in the tailnet, whatever the case  *)
(* of the labels; provided that the service or container name has no dot.   *)
PublishedCovered ==
    (lastProjects # Unknown /\ sans = SANs(lastProjects)) =>
        \A c \in published : OneLabel(c) =>
            \A host \in Hosts(InferHostname(c)) : Matches(host, sans)

(* "emits a remediation warning the first time it sees a labeled container  *)
(* missing the target network, and again only when the container's          *)
(* attached-network set changes" (reconcile.go:196-198) or it recovered     *)
(* meanwhile; except that a container without any network is not warned     *)
(* about, because its fingerprint is the empty string.                      *)
WarnedWhenNew ==
    [][LogMisconfig => \A c \in Seen : attached[c] # {} =>
          (c \in warned' <=> Misconfigured(c) /\ sight[c] # attached[c])]_vars
=============================================================================
