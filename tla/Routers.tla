-------------------------------- MODULE Routers --------------------------------
(***************************************************************************)
(* The keys of auto.yml.  Render turns a hostname into the name of a router *)
(* and of a service by writing a hyphen for every dot, and gives the router *)
(* a twin for plain HTTP whose name ends in -http.  Names that are equal    *)
(* make a YAML mapping with one key twice, which its reader, Traefik,       *)
(* refuses as a whole, or reads as if only the last entry were there.       *)
(*                                                                         *)
(* A hostname is its words, in order, and the set of places where a dot     *)
(* and not a hyphen follows.  Words are numbers that are ordered as their   *)
(* spelling is; a hyphen sorts before every other character of a hostname,  *)
(* so names are ordered like the sequences of their words.                 *)
(*                                                                         *)
(* A service has the address that its container had when the file was      *)
(* written.  Whether it still has it when a request comes is not modelled:  *)
(* Docker may give the address of a stopped container to another one while  *)
(* Traefik serves by an old file.                                          *)
(***************************************************************************)
EXTENDS Integers, Sequences, FiniteSets

CONSTANTS Containers,  \* what is routed when it runs: its hostname, and an id
          Unsafe,      \* those whose hostname Render refuses
          Http         \* the word "http"

ASSUME RoutersAssumption ==
    /\ Unsafe \subseteq Containers
    /\ Http \in Nat
    /\ \A c \in Containers : c.words \in Seq(Nat) /\ c.dots \subseteq Nat

VARIABLES
    running,   \* containers that run
    pending,   \* an event has come that no reconcile has answered
    auto,      \* auto.yml: the containers in the order of their routers
    unread,    \* Traefik has not read auto.yml as it is
    traefik    \* the routes Traefik serves

vars == <<running, pending, auto, unread, traefik>>

-----------------------------------------------------------------------------
(* Slip: the project is not part of the name. *)
RouterNameShort(c) == SubSeq(c.words, 1, 1)

RouterName(c) == c.words

(* Strings are compared by their bytes. *)
Before(m, n) ==
    \E k \in 1..Len(n) :
        /\ k <= Len(m) + 1
        /\ \A i \in 1..(k - 1) : m[i] = n[i]
        /\ k <= Len(m) => m[k] < n[k]

(* What sort.Slice may make of any listing of these containers: the order of *)
(* equal names is open.                                                    *)
Sorted(cs) ==
    {s \in [1..Cardinality(cs) -> cs] :
        /\ \A c \in cs : \E i \in DOMAIN s : s[i] = c
        /\ \A i, j \in DOMAIN s : i < j => ~Before(RouterName(s[j]), RouterName(s[i]))}

(* The mappings of the template, an entry with its place in the file. *)
Router(s, i) ==
    [at |-> 2 * i, key |-> RouterName(s[i]), entry |-> "websecure",
     host |-> s[i], service |-> RouterName(s[i])]

Redirect(s, i) ==
    [at |-> 2 * i + 1, key |-> Append(RouterName(s[i]), Http), entry |-> "web",
     host |-> s[i], service |-> RouterName(s[i])]

RouterMap(s) == {Router(s, i) : i \in DOMAIN s} \cup {Redirect(s, i) : i \in DOMAIN s}

(* Slip: the services are listed the other way round. *)
ServiceMapReversed(s) ==
    {[at |-> Len(s) - i, key |-> RouterName(s[i]), addressOf |-> s[i]] : i \in DOMAIN s}

ServiceMap(s) == {[at |-> i, key |-> RouterName(s[i]), addressOf |-> s[i]] : i \in DOMAIN s}

(* No key comes twice. *)
Unique(m) == \A e, f \in m : e.key = f.key => e = f

Valid(s) == Unique(RouterMap(s)) /\ Unique(ServiceMap(s))

(* The last entry of every key. *)
Last(m) == {e \in m : \A f \in m : f.key = e.key => f.at <= e.at}

(* The routes of a file: entry point, the Host(...) of a router and the       *)
(* container whose address its service has.                                 *)
Routes(s) ==
    UNION {{[entry |-> r.entry, host |-> r.host, addressOf |-> v.addressOf] :
               v \in {v \in Last(ServiceMap(s)) : v.key = r.service}} :
           r \in Last(RouterMap(s))}

Init ==
    /\ running = {}
    /\ pending = FALSE
    /\ auto = <<>>
    /\ unread = FALSE
    /\ traefik = {}

-----------------------------------------------------------------------------
Start(c) ==
    /\ c \notin running
    /\ running' = running \cup {c}
    /\ pending' = TRUE
    /\ UNCHANGED <<auto, unread, traefik>>

Stop(c) ==
    /\ c \in running
    /\ running' = running \ {c}
    /\ pending' = TRUE
    /\ UNCHANGED <<auto, unread, traefik>>

(* Any other event of Docker: a reconcile without a change. *)
OtherEvent ==
    /\ ~pending
    /\ pending' = TRUE
    /\ UNCHANGED <<running, auto, unread, traefik>>

(* One unsafe hostname, and Render returns an error for all of them. *)
RenderFails ==
    /\ pending
    /\ running \cap Unsafe # {}
    /\ pending' = FALSE
    /\ UNCHANGED <<running, auto, unread, traefik>>

(* Slip: routers come in the order Docker lists containers in. *)
PublishUnsorted ==
    /\ pending
    /\ running \cap Unsafe = {}
    /\ pending' = FALSE
    /\ auto' \in {s \in [1..Cardinality(running) -> running] :
                    \A c \in running : \E i \in DOMAIN s : s[i] = c}
    /\ unread' = TRUE
    /\ UNCHANGED <<running, traefik>>

Publish ==
    /\ pending
    /\ running \cap Unsafe = {}
    /\ pending' = FALSE
    /\ auto' \in Sorted(running)
    /\ unread' = TRUE
    /\ UNCHANGED <<running, traefik>>

(* Traefik's file provider.  A file it refuses leaves it with what it has. *)
Read ==
    /\ unread
    /\ unread' = FALSE
    /\ traefik' = Routes(auto)
    /\ UNCHANGED <<running, pending, auto>>

Refuse ==
    /\ unread
    /\ ~Valid(auto)
    /\ unread' = FALSE
    /\ UNCHANGED <<running, pending, auto, traefik>>

Next ==
    \/ \E c \in Containers : Start(c) \/ Stop(c)
    \/ OtherEvent \/ RenderFails \/ Publish
    \/ Read \/ Refuse

Spec == Init /\ [][Next]_vars

(* Events are answered, and a file is read. *)
FairSpec ==
    /\ Spec
    /\ WF_vars(RenderFails \/ Publish)
    /\ WF_vars(Read)

-----------------------------------------------------------------------------
(* Properties.                                                             *)

(* Two containers of one hostname are replicas. *)
SameHost(c, d) == c.words = d.words /\ c.dots = d.dots

(* All words of the hostname are labels of their own. *)
Plain(c) == c.dots = 1..(Len(c.words) - 1)

(* Hostnames that cannot be mistaken for each other: no hyphens in them, no  *)
(* replicas, and none that is another one with .http behind it.             *)
Distinct(cs) ==
    /\ \A c \in cs : Plain(c) /\ (c.words # <<>> => c.words[Len(c.words)] # Http)
    /\ \A c, d \in cs : SameHost(c, d) => c = d

NamesDiffer == \A c, d \in running : RouterName(c) = RouterName(d) => c = d

Contents == {auto[i] : i \in DOMAIN auto}

(* Every variable has its type, and auto.yml has no hostname Render refuses. *)
TypeOK ==
    /\ running \subseteq Containers
    /\ {pending, unread} \subseteq BOOLEAN
    /\ auto \in Seq(Containers \ Unsafe)
    /\ traefik \subseteq [entry : {"web", "websecure"}, host : Containers, addressOf : Containers]

(* "Render converts them to a router-name-safe form" (render.go:80-81),      *)
(* which is not one to one.  Whichever names clash, be it of replicas, of   *)
(* dots and hyphens or with a twin, and whether or not the reader refuses   *)
(* the file: no host is ever routed to the address that was written for a    *)
(* container of another hostname.                                           *)
NeverCrossed == \A r \in traefik : SameHost(r.host, r.addressOf)

(* "output must be sorted by router name so generated YAML doesn't churn    *)
(* between runs" (render_test.go:81-82): a reconcile over the containers    *)
(* that auto.yml has already writes it as it was, in whatever order Docker  *)
(* lists them, unless two of them have one name.                           *)
NoChurn == [][pending /\ ~pending' /\ Contents = running /\ NamesDiffer => auto' = auto]_vars

(* However the names have clashed before: once the containers that run stay  *)
(* the same and cannot be mistaken for each other, Traefik comes to route    *)
(* each of them, on both entry points, and nothing else.                    *)
ClashesHeal ==
    \A cs \in SUBSET (Containers \ Unsafe) : Distinct(cs) =>
        (<>[](running = cs) =>
         <>[](traefik = {[entry |-> e, host |-> c, addressOf |-> c] :
                            e \in {"web", "websecure"}, c \in cs}))
=============================================================================
