----------------------------- MODULE RoutersProofs -----------------------------
(***************************************************************************)
(* Routers: its types, and that no host is routed to the address written    *)
(* for a container of another hostname, for any containers and whichever of *)
(* their names are equal.                                                  *)
(*                                                                         *)
(* The argument is that routers and services come in the same order: if a    *)
(* router is the last one of its key, then the service of the same name      *)
(* that is the last one of its key belongs to the same container.           *)
(***************************************************************************)
EXTENDS Routers, FiniteSetTheorems, TLAPS

(* What is known of a file on its way to Traefik. *)
RoutersInv ==
    /\ TypeOK
    /\ IsFiniteSet(running)
    /\ NeverCrossed

(* The last websecure router of a key goes to its own container. *)
LEMMA LastRouterOwn ==
    ASSUME NEW s \in Seq(Containers), NEW i \in DOMAIN s,
           Router(s, i) \in Last(RouterMap(s)),
           NEW v \in Last(ServiceMap(s)), v.key = RouterName(s[i])
    PROVE  v.addressOf = s[i]
<1>1. PICK j \in DOMAIN s : v = [at |-> j, key |-> RouterName(s[j]), addressOf |-> s[j]]
  BY DEF Last, ServiceMap
<1>2. i \in Nat /\ j \in Nat
  OBVIOUS
<1>3. j <= i
  <2>1. Router(s, j) \in RouterMap(s)
    BY DEF RouterMap
  <2>2. Router(s, j).key = Router(s, i).key
    BY <1>1 DEF Router
  <2>3. Router(s, j).at <= Router(s, i).at
    BY <2>1, <2>2 DEF Last
  <2>. QED
    BY <2>3, <1>2 DEF Router
<1>4. i <= j
  <2>1. [at |-> i, key |-> RouterName(s[i]), addressOf |-> s[i]] \in ServiceMap(s)
    BY DEF ServiceMap
  <2>. QED
    BY <2>1, <1>1 DEF Last
<1>. QED
  BY <1>1, <1>2, <1>3, <1>4

(* So does the last redirect of a key. *)
LEMMA LastRedirectOwn ==
    ASSUME NEW s \in Seq(Containers), NEW i \in DOMAIN s,
           Redirect(s, i) \in Last(RouterMap(s)),
           NEW v \in Last(ServiceMap(s)), v.key = RouterName(s[i])
    PROVE  v.addressOf = s[i]
<1>1. PICK j \in DOMAIN s : v = [at |-> j, key |-> RouterName(s[j]), addressOf |-> s[j]]
  BY DEF Last, ServiceMap
<1>2. i \in Nat /\ j \in Nat
  OBVIOUS
<1>3. j <= i
  <2>1. Redirect(s, j) \in RouterMap(s)
    BY DEF RouterMap
  <2>2. Redirect(s, j).key = Redirect(s, i).key
    BY <1>1 DEF Redirect
  <2>3. Redirect(s, j).at <= Redirect(s, i).at
    BY <2>1, <2>2 DEF Last
  <2>. QED
    BY <2>3, <1>2 DEF Redirect
<1>4. i <= j
  <2>1. [at |-> i, key |-> RouterName(s[i]), addressOf |-> s[i]] \in ServiceMap(s)
    BY DEF ServiceMap
  <2>. QED
    BY <2>1, <1>1 DEF Last
<1>. QED
  BY <1>1, <1>2, <1>3, <1>4

(* Every route of a file goes from a container's host to the address written *)
(* for that container.                                                     *)
LEMMA RoutesOwn ==
    ASSUME NEW s \in Seq(Containers), NEW r \in Routes(s)
    PROVE  /\ r \in [entry : {"web", "websecure"}, host : Containers, addressOf : Containers]
           /\ r.addressOf = r.host
<1>1. PICK e \in Last(RouterMap(s)), v \in Last(ServiceMap(s)) :
        v.key = e.service /\ r = [entry |-> e.entry, host |-> e.host, addressOf |-> v.addressOf]
  BY DEF Routes
<1>2. e \in RouterMap(s)
  BY DEF Last
<1>3. PICK i \in DOMAIN s : e = Router(s, i) \/ e = Redirect(s, i)
  BY <1>2 DEF RouterMap
<1>4. s[i] \in Containers
  OBVIOUS
<1>5. CASE e = Router(s, i)
  <2>1. v.addressOf = s[i]
    BY <1>1, <1>5, LastRouterOwn DEF Router
  <2>. QED
    BY <1>1, <1>4, <1>5, <2>1 DEF Router
<1>6. CASE e = Redirect(s, i)
  <2>1. v.addressOf = s[i]
    BY <1>1, <1>6, LastRedirectOwn DEF Redirect
  <2>. QED
    BY <1>1, <1>4, <1>6, <2>1 DEF Redirect
<1>. QED
  BY <1>3, <1>5, <1>6

(* A file of safe containers is a sequence of them. *)
LEMMA SortedTyping ==
    ASSUME NEW cs, IsFiniteSet(cs), cs \subseteq Containers \ Unsafe, NEW s \in Sorted(cs)
    PROVE  s \in Seq(Containers \ Unsafe)
<1>1. Cardinality(cs) \in Nat
  BY FS_CardinalityType
<1>2. s \in [1..Cardinality(cs) -> cs]
  BY DEF Sorted
<1>3. s \in Seq(cs)
  BY <1>1, <1>2
<1>. QED
  BY <1>3

LEMMA RoutersInvInit == Init => RoutersInv
<1>. SUFFICES ASSUME Init PROVE RoutersInv
  OBVIOUS
<1>1. IsFiniteSet(running)
  BY FS_EmptySet DEF Init
<1>2. <<>> \in Seq(Containers \ Unsafe)
  OBVIOUS
<1>. QED
  BY <1>1, <1>2 DEF Init, RoutersInv, TypeOK, NeverCrossed

LEMMA RoutersInvStep == RoutersInv /\ [Next]_vars => RoutersInv'
<1>. SUFFICES ASSUME RoutersInv, [Next]_vars PROVE RoutersInv'
  OBVIOUS
<1>. USE DEF RoutersInv, TypeOK, NeverCrossed
<1>1. ASSUME NEW c \in Containers, Start(c) PROVE RoutersInv'
  <2>1. IsFiniteSet(running')
    BY <1>1, FS_AddElement DEF Start
  <2>. QED
    BY <1>1, <2>1 DEF Start
<1>2. ASSUME NEW c \in Containers, Stop(c) PROVE RoutersInv'
  <2>1. IsFiniteSet(running')
    BY <1>2, FS_RemoveElement DEF Stop
  <2>. QED
    BY <1>2, <2>1 DEF Stop
<1>3. CASE OtherEvent
  BY <1>3 DEF OtherEvent
<1>4. CASE RenderFails
  BY <1>4 DEF RenderFails
<1>5. CASE Publish
  <2>1. auto' \in Seq(Containers \ Unsafe)
    <3>1. running \subseteq Containers \ Unsafe
      BY <1>5 DEF Publish
    <3>. QED
      BY <1>5, <3>1, SortedTyping DEF Publish
  <2>. QED
    BY <1>5, <2>1 DEF Publish
<1>6. CASE Read
  <2>1. auto \in Seq(Containers)
    OBVIOUS
  <2>2. ASSUME NEW r \in traefik'
        PROVE  /\ r \in [entry : {"web", "websecure"}, host : Containers, addressOf : Containers]
               /\ SameHost(r.host, r.addressOf)
    BY <1>6, <2>1, <2>2, RoutesOwn DEF Read, SameHost
  <2>. QED
    BY <1>6, <2>2 DEF Read
<1>7. CASE Refuse
  BY <1>7 DEF Refuse
<1>8. CASE UNCHANGED vars
  BY <1>8 DEF vars
<1>. QED
  BY <1>1, <1>2, <1>3, <1>4, <1>5, <1>6, <1>7, <1>8 DEF Next

LEMMA RoutersInvAlways == Spec => []RoutersInv
BY RoutersInvInit, RoutersInvStep, PTL DEF Spec

(* Routers is type correct for any containers: no file has a hostname that   *)
(* Render refuses in it.                                                   *)
THEOREM RoutersTyping == Spec => []TypeOK
<1>1. RoutersInv => TypeOK
  BY DEF RoutersInv
<1>. QED
  BY <1>1, RoutersInvAlways, PTL

(* No host is ever routed to the address that was written for a container of *)
(* another hostname, whichever names clash in auto.yml and whatever its     *)
(* reader does about it.                                                   *)
THEOREM RoutersNeverCrossed == Spec => []NeverCrossed
<1>1. RoutersInv => NeverCrossed
  BY DEF RoutersInv
<1>. QED
  BY <1>1, RoutersInvAlways, PTL
=============================================================================
