----------------------------- MODULE NamesProofs -----------------------------
(***************************************************************************)
(* What a wildcard certificate made for a set of projects covers, for any  *)
(* suffixes, machine, tailnet and containers; and from it, what auto.yml   *)
(* and the certificate have to do with each other after any sequence of    *)
(* reconciles.                                                             *)
(***************************************************************************)
EXTENDS Names, SequenceTheorems, TLAPS

-----------------------------------------------------------------------------
(* Sequences.                                                              *)

(* Putting one label in front of a name and taking it off again. *)
LEMMA TailConcat ==
    ASSUME NEW s \in Names, NEW t \in Names, Len(s) = 1
    PROVE  s \o t # <<>> /\ Tail(s \o t) = t
<1>1. s \in Seq(Labels) /\ t \in Seq(Labels)
  BY DEF Names
<1>2. Len(t) \in Nat
  BY <1>1, LenProperties
<1>3. /\ s \o t \in Seq(Labels)
      /\ Len(s \o t) = 1 + Len(t)
      /\ \A i \in 1..Len(t) : (s \o t)[i + 1] = t[i]
  <2>1. /\ s \o t \in Seq(Labels)
        /\ Len(s \o t) = Len(s) + Len(t)
        /\ \A i \in 1..(Len(s) + Len(t)) :
              (s \o t)[i] = IF i <= Len(s) THEN s[i] ELSE t[i - Len(s)]
    BY <1>1, ConcatProperties, Zenon
  <2>2. ASSUME NEW i \in 1..Len(t) PROVE (s \o t)[i + 1] = t[i]
    <3>1. i + 1 \in 1..(Len(s) + Len(t)) /\ ~(i + 1 <= Len(s)) /\ i + 1 - Len(s) = i
      BY <1>2
    <3> HIDE <1>1
    <3> QED
      BY <2>1, <3>1
  <2> QED
    BY <2>1, <2>2
<1>4. s \o t # <<>>
  BY <1>2, <1>3, EmptySeq
<1>5. /\ Tail(s \o t) \in Seq(Labels)
      /\ Len(Tail(s \o t)) = Len(t)
      /\ \A i \in 1..Len(t) : Tail(s \o t)[i] = (s \o t)[i + 1]
  BY <1>2, <1>3, <1>4, HeadTailProperties
<1>6. \A i \in 1..Len(t) : Tail(s \o t)[i] = t[i]
  BY <1>2, <1>3, <1>5
<1>7. Tail(s \o t) = t
  BY <1>1, <1>5, <1>6, SeqEqual
<1> QED
  BY <1>4, <1>7

(* Appending names is associative. *)
LEMMA ConcatThree ==
    ASSUME NEW s \in Names, NEW t \in Names, NEW u \in Names
    PROVE  (s \o t) \o u = s \o (t \o u)
BY DEF Names

(* ToLower works label by label, ... *)
LEMMA ToLowerType ==
    ASSUME NEW s \in Names
    PROVE  /\ ToLower(s) \in Names
           /\ Len(ToLower(s)) = Len(s)
           /\ \A i \in 1..Len(s) : ToLower(s)[i] = Lower[s[i]]
<1>1. s \in Seq(Labels) /\ Len(s) \in Nat
  BY LenProperties DEF Names
<1>2. \A i \in 1..Len(s) : Lower[s[i]] \in Labels
  BY <1>1, ElementOfSeq, NamesAssumption
<1> QED
  BY <1>1, <1>2 DEF ToLower, Names

(* ... so it goes through concatenation ... *)
LEMMA ToLowerConcat ==
    ASSUME NEW s \in Names, NEW t \in Names
    PROVE  ToLower(s \o t) = ToLower(s) \o ToLower(t)
<1>1. s \in Seq(Labels) /\ t \in Seq(Labels) /\ Len(s) \in Nat /\ Len(t) \in Nat
  BY LenProperties DEF Names
<1>2. /\ s \o t \in Names
      /\ Len(s \o t) = Len(s) + Len(t)
      /\ \A i \in 1..(Len(s) + Len(t)) :
            (s \o t)[i] = IF i <= Len(s) THEN s[i] ELSE t[i - Len(s)]
  BY <1>1, ConcatProperties DEF Names
<1>3. /\ ToLower(s) \in Seq(Labels) /\ Len(ToLower(s)) = Len(s)
      /\ ToLower(t) \in Seq(Labels) /\ Len(ToLower(t)) = Len(t)
      /\ ToLower(s \o t) \in Seq(Labels) /\ Len(ToLower(s \o t)) = Len(s) + Len(t)
  BY <1>2, ToLowerType DEF Names
<1>4. /\ ToLower(s) \o ToLower(t) \in Seq(Labels)
      /\ Len(ToLower(s) \o ToLower(t)) = Len(s) + Len(t)
      /\ \A i \in 1..(Len(s) + Len(t)) :
            (ToLower(s) \o ToLower(t))[i]
                = IF i <= Len(s) THEN ToLower(s)[i] ELSE ToLower(t)[i - Len(s)]
  <2> DEFINE a == ToLower(s)
             b == ToLower(t)
  <2>1. /\ a \o b \in Seq(Labels)
        /\ Len(a \o b) = Len(a) + Len(b)
        /\ \A i \in 1..(Len(a) + Len(b)) :
              (a \o b)[i] = IF i <= Len(a) THEN a[i] ELSE b[i - Len(a)]
    <3>1. a \in Seq(Labels) /\ b \in Seq(Labels)
      BY <1>3
    <3> HIDE DEF a, b
    <3> QED
      BY <3>1, ConcatProperties, Zenon
  <2> QED
    BY <1>3, <2>1
<1>5. ASSUME NEW i \in 1..(Len(s) + Len(t))
      PROVE  ToLower(s \o t)[i] = (ToLower(s) \o ToLower(t))[i]
  <2>1. ToLower(s \o t)[i] = Lower[(s \o t)[i]]
    BY <1>2, ToLowerType
  <2>2. CASE i <= Len(s)
    <3>1. i \in 1..Len(s)
      BY <1>1, <2>2
    <3>2. (s \o t)[i] = s[i]
      BY <1>2, <2>2
    <3>3. (ToLower(s) \o ToLower(t))[i] = ToLower(s)[i]
      BY <1>4, <2>2
    <3>4. ToLower(s)[i] = Lower[s[i]]
      BY <3>1, ToLowerType
    <3> QED
      BY <2>1, <3>2, <3>3, <3>4
  <2>3. CASE i > Len(s)
    <3>1. i - Len(s) \in 1..Len(t) /\ ~(i <= Len(s))
      BY <1>1, <2>3
    <3>2. (s \o t)[i] = t[i - Len(s)]
      BY <1>2, <3>1
    <3>3. (ToLower(s) \o ToLower(t))[i] = ToLower(t)[i - Len(s)]
      BY <1>4, <3>1
    <3>4. ToLower(t)[i - Len(s)] = Lower[t[i - Len(s)]]
      BY <3>1, ToLowerType
    <3> QED
      BY <2>1, <3>2, <3>3, <3>4
  <2>4. i <= Len(s) \/ i > Len(s)
    BY <1>1
  <2> QED
    BY <2>2, <2>3, <2>4
<1> QED
  BY <1>3, <1>4, <1>5, SeqEqual

(* ... and leaves a name of clean labels alone. *)
LEMMA ToLowerClean ==
    ASSUME NEW s \in Names, HostnameRE(s)
    PROVE  ToLower(s) = s
<1>1. s \in Seq(Labels) /\ ToLower(s) \in Seq(Labels) /\ Len(ToLower(s)) = Len(s)
  BY ToLowerType DEF Names
<1>2. \A i \in 1..Len(s) : ToLower(s)[i] = s[i]
  BY ToLowerType, NamesAssumption DEF HostnameRE
<1> QED
  BY <1>1, <1>2, SeqEqual

-----------------------------------------------------------------------------
(* Coverage.                                                               *)

(* A set of projects that certgen accepted. *)
Valid(projects) == \A p \in projects : ValidateLabel(p)

(* Suffixes and the tailnet name are names. *)
LEMMA RootsType == Roots \subseteq Names
<1>1. MachineName \o TailnetDomain \in Names
  BY NamesAssumption, ConcatProperties DEF Names
<1> QED
  BY <1>1, NamesAssumption DEF Roots

(* What SANs makes for one project. *)
LEMMA SansOfProject ==
    ASSUME NEW projects, NEW p \in projects, NEW r \in Roots
    PROVE  p \o r \in SANs(projects)
BY DEF SANs

(* The certificate made for a set of valid projects covers every host of    *)
(* every container of one of these projects, or of none, whose service or   *)
(* container name has no dot: for any suffixes and with or without a        *)
(* tailnet, and although hostnames are lowercased and projects are not.     *)
THEOREM HostsCovered ==
    ASSUME NEW c \in Containers, NEW projects \in SUBSET Names,
           Valid(projects), c.project \in projects \cup {<<>>}, OneLabel(c),
           NEW host \in Hosts(InferHostname(c))
    PROVE  Matches(host, SANs(projects))
<1>1. /\ c.project \in Names /\ c.service \in Names /\ c.name \in Names
  BY NamesAssumption
<1>2. PICK r \in Roots : host = InferHostname(c) \o r
  BY DEF Hosts
<1>3. r \in Names
  BY RootsType
<1>4. CASE c.project # <<>> /\ c.service # <<>>
  <2>1. Len(c.service) = 1 /\ c.project \in projects
    BY <1>4 DEF OneLabel
  <2>2. ToLower(c.project) = c.project
    BY <1>1, <2>1, ToLowerClean DEF Valid, ValidateLabel
  <2>3. InferHostname(c) = ToLower(c.service) \o c.project
    BY <1>1, <1>4, <2>2, ToLowerConcat DEF InferHostname, BaseName
  <2>4. ToLower(c.service) \in Names /\ Len(ToLower(c.service)) = 1
    BY <1>1, <2>1, ToLowerType
  <2>5. host = ToLower(c.service) \o (c.project \o r)
    <3>1. (ToLower(c.service) \o c.project) \o r = ToLower(c.service) \o (c.project \o r)
      BY <1>1, <1>3, <2>4, ConcatThree
    <3> QED
      BY <1>2, <2>3, <3>1
  <2>6. c.project \o r \in Names
    BY <1>1, <1>3, ConcatProperties DEF Names
  <2>7. host # <<>> /\ Tail(host) = c.project \o r
    BY <2>4, <2>5, <2>6, TailConcat
  <2>8. c.project \o r \in SANs(projects)
    BY <1>2, <2>1, SansOfProject, Zenon
  <2> QED
    BY <2>7, <2>8 DEF Matches
<1>5. CASE ~(c.project # <<>> /\ c.service # <<>>)
  <2>1. InferHostname(c) = ToLower(c.name) /\ Len(c.name) = 1
    BY <1>5 DEF InferHostname, BaseName, OneLabel
  <2>2. ToLower(c.name) \in Names /\ Len(ToLower(c.name)) = 1
    BY <1>1, <2>1, ToLowerType
  <2>3. host # <<>> /\ Tail(host) = r
    BY <1>2, <1>3, <2>1, <2>2, TailConcat
  <2>4. r \in SANs(projects)
    BY <1>2 DEF SANs
  <2> QED
    BY <2>3, <2>4 DEF Matches
<1> QED
  BY <1>4, <1>5

-----------------------------------------------------------------------------
(* The state machine.                                                      *)

(* What auto.yml routes belongs to projects certgen accepted. *)
PublishedInv ==
    lastProjects # Unknown =>
        /\ Valid(lastProjects)
        /\ \A c \in published : c.project \in lastProjects \cup {<<>>}

(* The fingerprint is what the container was last seen with. *)
LoggedInv ==
    \A c \in Containers : logged[c] = IF sight[c] = Stopped THEN {} ELSE sight[c]

NamesInv == TypeOK /\ PublishedInv /\ LoggedInv

(* A SAN list is made of names. *)
LEMMA SansType ==
    ASSUME NEW projects \in SUBSET Names
    PROVE  SANs(projects) \subseteq Names
<1>1. ASSUME NEW p \in projects, NEW r \in Roots PROVE p \o r \in Names
  <2>1. p \in Seq(Labels) /\ r \in Seq(Labels)
    BY RootsType DEF Names
  <2> QED
    BY <2>1, ConcatProperties DEF Names
<1>2. ASSUME NEW n \in SANs(projects) PROVE n \in Names
  <2>1. n \in Roots \/ \E p \in projects, r \in Roots : n = p \o r
    BY DEF SANs
  <2> QED
    BY <1>1, <2>1, RootsType
<1> QED
  BY <1>2

(* Projects are names, and never the empty one; a seen container has one of *)
(* them or none.                                                            *)
LEMMA ProjectsType ==
    /\ ProjectsOf(Seen) \in SUBSET Names
    /\ ProjectsOf(Seen) # Unknown
    /\ \A c \in Seen : c.project \in ProjectsOf(Seen) \cup {<<>>}
<1>1. \A c \in Seen : c.project \in Names
  BY NamesAssumption DEF Seen
<1> QED
  BY <1>1 DEF ProjectsOf, Unknown

(* Every variable has its type at the start. *)
LEMMA InitNamesInv == Init => NamesInv
<1> SUFFICES ASSUME Init PROVE NamesInv
  OBVIOUS
<1>1. <<>> \in Names
  BY EmptySeq DEF Names
<1>2. TypeOK
  BY <1>1 DEF Init, TypeOK, Unknown
<1>3. PublishedInv
  BY DEF Init, PublishedInv
<1>4. LoggedInv
  BY DEF Init, LoggedInv
<1> QED
  BY <1>2, <1>3, <1>4 DEF NamesInv

(* Fingerprints and sightings change together. *)
LEMMA LogStep ==
    ASSUME NamesInv, LogMisconfig
    PROVE  /\ warned' \in SUBSET Containers
           /\ logged' \in [Containers -> SUBSET Networks]
           /\ sight' \in [Containers -> (SUBSET Networks) \cup {Stopped}]
           /\ LoggedInv'
<1>1. /\ attached \in [Containers -> (SUBSET Networks) \cup {Stopped}]
      /\ logged \in [Containers -> SUBSET Networks]
      /\ sight \in [Containers -> (SUBSET Networks) \cup {Stopped}]
      /\ LoggedInv
  BY DEF NamesInv, TypeOK
<1>2. \A c \in Seen : attached[c] \in SUBSET Networks /\ attached[c] # Stopped
  BY <1>1 DEF Seen
<1>3. warned' \in SUBSET Containers
  BY DEF LogMisconfig, Seen
<1>4. /\ logged' \in [Containers -> SUBSET Networks]
      /\ sight' \in [Containers -> (SUBSET Networks) \cup {Stopped}]
  BY <1>1, <1>2 DEF LogMisconfig
<1>5. ASSUME NEW c \in Containers
      PROVE  logged'[c] = IF sight'[c] = Stopped THEN {} ELSE sight'[c]
  <2>1. CASE c \notin Seen
    BY <1>1, <2>1 DEF LogMisconfig, LoggedInv
  <2>2. CASE c \in Seen /\ Misconfigured(c)
    BY <1>2, <2>2 DEF LogMisconfig
  <2>3. CASE c \in Seen /\ ~Misconfigured(c)
    BY <2>3 DEF LogMisconfig
  <2> QED
    BY <2>1, <2>2, <2>3
<1> QED
  BY <1>3, <1>4, <1>5 DEF LoggedInv

(* Every step keeps the invariant. *)
LEMMA StepNamesInv == NamesInv /\ [Next]_vars => NamesInv'
<1> SUFFICES ASSUME NamesInv, [Next]_vars PROVE NamesInv'
  OBVIOUS
<1>1. CASE UNCHANGED vars
  BY <1>1 DEF vars, NamesInv, TypeOK, PublishedInv, LoggedInv
<1>2. ASSUME NEW c \in Containers, NEW networks \in (SUBSET Networks) \cup {Stopped},
             Attach(c, networks)
      PROVE  NamesInv'
  BY <1>2 DEF Attach, NamesInv, TypeOK, PublishedInv, LoggedInv
<1>3. CASE Refused
  BY <1>3 DEF Refused, NamesInv, TypeOK, PublishedInv, LoggedInv
<1>4. ASSUME Reissue PROVE sans' \in SUBSET Names
  BY <1>4, SansType, ProjectsType DEF Reissue, NamesInv, TypeOK
<1>5. CASE Unrenderable
  <2>1. TypeOK' /\ LoggedInv'
    BY <1>4, <1>5, LogStep DEF Unrenderable, NamesInv, TypeOK
  <2>2. PublishedInv'
    BY <1>5 DEF Unrenderable, NamesInv, PublishedInv
  <2> QED
    BY <2>1, <2>2 DEF NamesInv
<1>6. CASE Publish
  <2>1. published' = Routed /\ lastProjects' = ProjectsOf(Seen) /\ Routed \subseteq Seen
    BY <1>6 DEF Publish, Routed
  <2>2. TypeOK' /\ LoggedInv'
    BY <1>4, <1>6, <2>1, LogStep, ProjectsType DEF Publish, NamesInv, TypeOK, Seen
  <2>3. Valid(ProjectsOf(Seen))
    <3>1. CASE Asks
      BY <1>6, <3>1 DEF Publish, Reissue, Accepts, Valid
    <3>2. CASE ~Asks
      BY <3>2, ProjectsType DEF Asks, NamesInv, PublishedInv
    <3> QED
      BY <3>1, <3>2
  <2>4. PublishedInv'
    BY <2>1, <2>3, ProjectsType DEF PublishedInv, Valid
  <2> QED
    BY <2>2, <2>4 DEF NamesInv
<1> QED
  BY <1>1, <1>2, <1>3, <1>5, <1>6 DEF Next

(* The invariant behind the theorems below. *)
LEMMA NamesInvariance == Spec => []NamesInv
BY InitNamesInv, StepNamesInv, PTL DEF Spec

(* The variables keep their types. *)
THEOREM NamesTyping == Spec => []TypeOK
<1>1. NamesInv => TypeOK
  BY DEF NamesInv
<1> QED
  BY <1>1, NamesInvariance, PTL

(* As long as the certificate is the one made for lastProjects, it covers   *)
(* every host of every router of a container without a dot in its name,     *)
(* whatever was refused, could not be rendered, came or went before.        *)
THEOREM NamesCovered == Spec => []PublishedCovered
<1>1. NamesInv => PublishedCovered
  <2> SUFFICES ASSUME NamesInv, lastProjects # Unknown, sans = SANs(lastProjects),
                      NEW c \in published, OneLabel(c),
                      NEW host \in Hosts(InferHostname(c))
               PROVE  Matches(host, SANs(lastProjects))
    BY DEF PublishedCovered
  <2>1. /\ c \in Containers
        /\ lastProjects \in SUBSET Names
        /\ Valid(lastProjects)
        /\ c.project \in lastProjects \cup {<<>>}
    BY DEF NamesInv, TypeOK, PublishedInv
  <2> QED
    BY <2>1, HostsCovered
<1> QED
  BY <1>1, NamesInvariance, PTL

(* A warning is given when, and only when, a container is misconfigured in  *)
(* another way than it was when it was last seen.                           *)
THEOREM NamesWarned == Spec => WarnedWhenNew
<1>1. NamesInv /\ [Next]_vars =>
        [LogMisconfig => \A c \in Seen : attached[c] # {} =>
            (c \in warned' <=> Misconfigured(c) /\ sight[c] # attached[c])]_vars
  <2> SUFFICES ASSUME NamesInv, LogMisconfig, NEW c \in Seen, attached[c] # {}
               PROVE  c \in warned' <=> Misconfigured(c) /\ sight[c] # attached[c]
    OBVIOUS
  <2>1. c \in Containers /\ attached[c] # Stopped
    BY DEF Seen
  <2>2. logged[c] # attached[c] <=> sight[c] # attached[c]
    BY <2>1 DEF NamesInv, LoggedInv
  <2> QED
    BY <2>2 DEF LogMisconfig
<1> QED
  BY <1>1, NamesInvariance, PTL DEF Spec, WarnedWhenNew
=============================================================================
