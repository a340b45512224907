---------------------------- MODULE TakeoverProofs ----------------------------
(***************************************************************************)
(* Proofs about takeover mode, for any suffixes, lists and number of runs,  *)
(* and wherever a run is interrupted.                                      *)
(***************************************************************************)
EXTENDS Takeover, FiniteSetTheorems, TLAPS

(* The script has read .env in this run. *)
Loaded == pc \notin {"idle", "load", "teardown"}

(* The user's list is in .env or, while .env is rewritten, in the shell.    *)
(* An interrupted rewrite leaves nothing, and nothing comes of it.          *)
ListInv ==
    /\ pc = "write" => env = BlankEnv
    /\ ~spoiled => /\ pc # "write" => env.list = wanted
                   /\ Loaded => sh.list = wanted
    /\ spoiled => /\ env = BlankEnv
                  /\ Loaded => sh.list = {} /\ sh.flags = {}

(* What takeover_setup has done when it stands at a step. *)
SetupInv ==
    LET cleaned == Cleaned(sh.list)
    IN  /\ pc \in {"conf", "gate", "resolvers"} => cleaned # {}
        /\ pc \in {"conf", "gate", "resolvers", "compose"} /\ cleaned # {}
             => env.flags = cleaned /\ env.flagsQuoted
        /\ pc \in {"gate", "resolvers", "compose"} /\ cleaned # {} => conf = cleaned
        /\ pc \in {"resolvers", "compose"}
             => \A s \in cleaned \ (todo \cup exempt) : resolver[s] = "ours"
        /\ pc = "compose" => todo = {}

(* What teardown_takeover has done when it stands in its loop. *)
TeardownInv ==
    pc = "remove" => /\ sh.list # {}
                     /\ \A s \in Cleaned(sh.list) \ (todo \cup exempt) : resolver[s] = "none"

(* The gate: a suffix that OrbStack has served all along is in conflict as   *)
(* long as this run has written nothing, so the probes cannot all pass.     *)
GateInv ==
    /\ pc \in {"load", "truncate", "write", "setup", "conf", "gate", "teardown", "unload"}
         => wrote = {}
    /\ wrote = {} => \A s \in contested : Conflict(s)
    /\ ~sh.force => /\ pc = "gate" => contested \cap Cleaned(sh.list) \subseteq todo
                    /\ pc = "resolvers" => contested \cap Cleaned(sh.list) = {}
                    /\ wrote # {} => contested \cap Cleaned(sh.list) = {}

(* What an `up` with suffixes leaves for the next run. *)
RepeatInv ==
    (settled /\ ~spoiled /\ wanted \cap Suffixes # {}) =>
        /\ conf # Directory
        /\ ~Loaded => env.flagsQuoted

TakeoverInv == TypeOK /\ ListInv /\ SetupInv /\ TeardownInv /\ GateInv /\ RepeatInv

LEMMA MarksFact ==
    /\ None # Directory /\ None # {} /\ Directory # {}
    /\ \A s \in SUBSET Suffixes : s # None /\ s # Directory
    /\ ~(None \subseteq Suffixes) /\ ~(Directory \subseteq Suffixes)
  BY TakeoverAssumption DEF None, Directory

LEMMA CleanedType == \A list : Cleaned(list) \in SUBSET Suffixes
  BY DEF Cleaned

LEMMA TakeoverInvInit == Init => TakeoverInv
  <1> SUFFICES ASSUME Init PROVE TakeoverInv
    OBVIOUS
  <1>1. {spoiled, settled} \subseteq BOOLEAN /\ sh.force \in BOOLEAN
    BY DEF Init
  <1>2. runs \in 0..MaxRuns
    BY TakeoverAssumption DEF Init
  <1>3. sh \in [list : SUBSET Marks, flags : SUBSET Suffixes, force : BOOLEAN]
    BY <1>1 DEF Init
  <1>4. TypeOK
    BY <1>1, <1>2, <1>3 DEF Init, TypeOK, Steps, BlankEnv
  <1> QED
    BY <1>4 DEF Init, TakeoverInv, ListInv, SetupInv, TeardownInv, GateInv, RepeatInv,
                Loaded, BlankEnv

-----------------------------------------------------------------------------
(* Types.                                                                  *)

LEMMA TypeStep == TypeOK /\ [Next]_vars => TypeOK'
  <1> SUFFICES ASSUME TypeOK, [Next]_vars
               PROVE  TypeOK'
    OBVIOUS
  <1> USE TakeoverAssumption, CleanedType
      DEF TypeOK, Steps, Marks, files, services, history
  <1>1. ASSUME NEW list \in Lists, EditList(list)
        PROVE  TypeOK'
    <2>1. env' \in [list : SUBSET Marks, listQuoted : BOOLEAN, flags : SUBSET Suffixes,
                    flagsQuoted : BOOLEAN]
      <3>1. (Gap \in list) \in BOOLEAN
        OBVIOUS
      <3> QED
        BY <1>1, <3>1 DEF EditList
    <2> QED
      BY <1>1, <2>1 DEF EditList
  <1>2. ASSUME NEW s \in Suffixes, ToggleOrb(s) \/ ForeignResolver(s)
        PROVE  TypeOK'
    BY <1>2 DEF ToggleOrb, ForeignResolver
  <1>3. CASE RestartDnsmasq
    BY <1>3 DEF RestartDnsmasq
  <1>4. ASSUME NEW force \in BOOLEAN, Begin("load", force) \/ Begin("teardown", force)
        PROVE  TypeOK'
    BY <1>4 DEF Begin
  <1>5. CASE Interrupt
    BY <1>5 DEF Interrupt, End
  <1>6. CASE Load("load", "truncate") \/ Load("teardown", "unload")
    BY <1>6 DEF Load, Goto
  <1>7. CASE LoadFails \/ Refuse \/ WriteConfFails \/ NothingToTearDown \/ ComposeUnbound
    BY <1>7 DEF LoadFails, Refuse, WriteConfFails, NothingToTearDown, ComposeUnbound, Exit, End
  <1>8. CASE TruncateEnv \/ WriteEnv
    <2>1. BlankEnv \in [list : SUBSET Marks, listQuoted : BOOLEAN, flags : SUBSET Suffixes,
                        flagsQuoted : BOOLEAN]
      BY DEF BlankEnv
    <2>2. CASE TruncateEnv
      BY <2>1, <2>2 DEF TruncateEnv, Goto
    <2>3. CASE WriteEnv
      BY <2>1, <2>3 DEF WriteEnv, Goto
    <2> QED
      BY <1>8, <2>2, <2>3
  <1>9. CASE NoTakeover \/ ResolversDone
    BY <1>9 DEF NoTakeover, ResolversDone, Goto
  <1>10. CASE NothingCleaned
    BY <1>10 DEF NothingCleaned, Exit, End, Goto
  <1>11. CASE PersistFlags
    BY <1>11 DEF PersistFlags, Goto
  <1>12. CASE WriteConf
    BY <1>12 DEF WriteConf, Goto
  <1>13. ASSUME NEW s \in Suffixes, ProbePasses(s) \/ ProbeRefuses(s)
         PROVE  TypeOK'
    BY <1>13 DEF ProbePasses, ProbeRefuses, Exit, End, Goto
  <1>14. ASSUME NEW s \in Suffixes,
                \/ ResolverCurrent(s) \/ WriteResolver(s) \/ DeclineResolver(s)
                \/ NotPresent(s) \/ RemoveResolver(s) \/ DeclineRemoval(s)
         PROVE  TypeOK'
    BY <1>14
       DEF ResolverCurrent, WriteResolver, DeclineResolver, NotPresent, RemoveResolver,
           DeclineRemoval, Done
  <1>15. CASE ComposeUp
    BY <1>15 DEF ComposeUp, Parsed, Exit, End
  <1>16. CASE StopDnsmasq
    BY <1>16 DEF StopDnsmasq, Exit, End
  <1>17. CASE TeardownEnds
    BY <1>17 DEF TeardownEnds, Exit, End
  <1>18. CASE UNCHANGED vars
    BY <1>18 DEF vars
  <1> QED
    BY <1>1, <1>2, <1>3, <1>4, <1>5, <1>6, <1>7, <1>8, <1>9, <1>10, <1>11, <1>12, <1>13, <1>14,
       <1>15, <1>16, <1>17, <1>18
       DEF Next, User, Machine, Script, Setup, Teardown

-----------------------------------------------------------------------------
(* The user's list.                                                        *)

LEMMA ListStep == TypeOK /\ ListInv /\ [Next]_vars => ListInv'
  <1> SUFFICES ASSUME TypeOK, ListInv, [Next]_vars
               PROVE  ListInv'
    OBVIOUS
  <1> USE TakeoverAssumption DEF files, services, history
  <1>1. ASSUME NEW list \in Lists, EditList(list)
        PROVE  ListInv'
    BY <1>1 DEF EditList, ListInv, Loaded, TypeOK
  <1>2. CASE Interrupt
    BY <1>2 DEF Interrupt, End, ListInv, Loaded, TypeOK
  <1>3. CASE Load("load", "truncate") \/ Load("teardown", "unload")
    <2>1. sh'.list = env.list /\ sh'.flags = env.flags
      BY <1>3 DEF Load, TypeOK
    <2>2. pc \in {"load", "teardown"} /\ pc' \in {"truncate", "unload"}
      BY <1>3 DEF Load, Goto
    <2>3. env = BlankEnv => env.list = {} /\ env.flags = {}
      BY DEF BlankEnv
    <2>4. UNCHANGED <<env, wanted, spoiled>>
      BY <1>3 DEF Load, Goto
    <2> QED
      BY <2>1, <2>2, <2>3, <2>4 DEF ListInv
  <1>4. CASE TruncateEnv
    BY <1>4 DEF TruncateEnv, Goto, ListInv, Loaded, TypeOK
  <1>5. CASE WriteEnv
    BY <1>5 DEF WriteEnv, Goto, ListInv, Loaded, TypeOK, BlankEnv
  <1>6. CASE PersistFlags
    BY <1>6 DEF PersistFlags, Goto, ListInv, Loaded, TypeOK, Cleaned
  <1>7. CASE \/ RestartDnsmasq \/ \E s \in Suffixes : ToggleOrb(s) \/ ForeignResolver(s)
             \/ UNCHANGED vars
    BY <1>7 DEF RestartDnsmasq, ToggleOrb, ForeignResolver, vars, ListInv, Loaded, TypeOK
  <1>8. CASE \E force \in BOOLEAN : Begin("load", force) \/ Begin("teardown", force)
    BY <1>8 DEF Begin, ListInv, Loaded, TypeOK
  <1>9. CASE \/ LoadFails \/ Refuse \/ NothingCleaned \/ WriteConfFails \/ ComposeUp
             \/ NothingToTearDown \/ StopDnsmasq \/ TeardownEnds \/ NoTakeover \/ WriteConf
             \/ ResolversDone \/ ComposeUnbound
             \/ \E s \in Suffixes : \/ ProbePasses(s) \/ ProbeRefuses(s)
                                    \/ ResolverCurrent(s) \/ WriteResolver(s) \/ DeclineResolver(s)
                                    \/ NotPresent(s) \/ RemoveResolver(s) \/ DeclineRemoval(s)
    BY <1>9
       DEF LoadFails, Refuse, NothingCleaned, WriteConfFails, ComposeUp, ComposeUnbound,
           NothingToTearDown, StopDnsmasq, TeardownEnds, NoTakeover, WriteConf, ResolversDone, ProbePasses,
           ProbeRefuses, ResolverCurrent, WriteResolver, DeclineResolver, NotPresent,
           RemoveResolver, DeclineRemoval, Done, Exit, End, Goto, ListInv, Loaded, TypeOK
  <1> QED
    BY <1>1, <1>2, <1>3, <1>4, <1>5, <1>6, <1>7, <1>8, <1>9
       DEF Next, User, Machine, Script, Setup, Teardown

-----------------------------------------------------------------------------
(* The two loops over resolver files, and what is settled before them.     *)

(* The steps that go on, or stop, without a change to any file. *)
Passive ==
    \/ NoTakeover \/ Refuse \/ WriteConfFails \/ NothingToTearDown \/ ResolversDone \/ LoadFails
    \/ ComposeUnbound
    \/ \E s \in Suffixes : ProbePasses(s) \/ ProbeRefuses(s)

Looping ==
    \E s \in Suffixes : \/ ResolverCurrent(s) \/ WriteResolver(s) \/ DeclineResolver(s)
                       \/ NotPresent(s) \/ RemoveResolver(s) \/ DeclineRemoval(s)

LEMMA SetupStep == TypeOK /\ SetupInv /\ [Next]_vars => SetupInv'
  <1> SUFFICES ASSUME TypeOK, SetupInv, [Next]_vars
               PROVE  SetupInv'
    OBVIOUS
  <1> USE TakeoverAssumption, CleanedType DEF files, services, history
  <1>1. CASE \E list \in Lists : EditList(list)
    BY <1>1 DEF EditList, SetupInv
  <1>2. CASE \E s \in Suffixes : ForeignResolver(s)
    BY <1>2 DEF ForeignResolver, SetupInv, TypeOK
  <1>3. CASE \/ RestartDnsmasq \/ UNCHANGED vars \/ \E s \in Suffixes : ToggleOrb(s)
    BY <1>3 DEF RestartDnsmasq, vars, ToggleOrb, SetupInv
  <1>4. CASE \E force \in BOOLEAN : Begin("load", force) \/ Begin("teardown", force)
    BY <1>4 DEF Begin, SetupInv
  <1>5. CASE Interrupt
    BY <1>5 DEF Interrupt, End, SetupInv
  <1>6. CASE Load("load", "truncate") \/ Load("teardown", "unload") \/ TruncateEnv \/ WriteEnv
    BY <1>6 DEF Load, TruncateEnv, WriteEnv, Goto, SetupInv
  <1>7. CASE PersistFlags
    BY <1>7 DEF PersistFlags, Goto, SetupInv, TypeOK
  <1>8. CASE WriteConf
    BY <1>8 DEF WriteConf, Goto, SetupInv, TypeOK
  <1>9. CASE NothingCleaned \/ ComposeUp \/ StopDnsmasq \/ TeardownEnds
    BY <1>9 DEF NothingCleaned, ComposeUp, StopDnsmasq, TeardownEnds, Exit, End, Goto,
                SetupInv
  <1>10. CASE NoTakeover
    BY <1>10 DEF NoTakeover, Goto, SetupInv, Cleaned
  <1>11. CASE Passive /\ ~NoTakeover
    BY <1>11
       DEF Passive, Refuse, WriteConfFails, NothingToTearDown, ResolversDone, LoadFails,
           ComposeUnbound, ProbePasses, ProbeRefuses, Exit, End, Goto, SetupInv
  <1>12. CASE Looping
    BY <1>12
       DEF Looping, ResolverCurrent, WriteResolver, DeclineResolver, NotPresent,
           RemoveResolver,
           DeclineRemoval, Done, SetupInv, TypeOK
  <1> QED
    BY <1>1, <1>2, <1>3, <1>4, <1>5, <1>6, <1>7, <1>8, <1>9, <1>10, <1>11, <1>12
       DEF Next, User, Machine, Script, Setup, Teardown, Passive, Looping

LEMMA TeardownStep == TypeOK /\ TeardownInv /\ [Next]_vars => TeardownInv'
  <1> SUFFICES ASSUME TypeOK, TeardownInv, [Next]_vars
               PROVE  TeardownInv'
    OBVIOUS
  <1> USE TakeoverAssumption, CleanedType DEF files, services, history
  <1>1. CASE \E s \in Suffixes : ForeignResolver(s)
    BY <1>1 DEF ForeignResolver, TeardownInv, TypeOK
  <1>2. CASE \/ RestartDnsmasq \/ UNCHANGED vars \/ \E s \in Suffixes : ToggleOrb(s)
             \/ \E list \in Lists : EditList(list)
             \/ \E force \in BOOLEAN : Begin("load", force) \/ Begin("teardown", force)
             \/ Interrupt
    BY <1>2 DEF RestartDnsmasq, vars, ToggleOrb, EditList, Begin, Interrupt, End,
                TeardownInv
  <1>3. CASE \/ Load("load", "truncate") \/ Load("teardown", "unload") \/ TruncateEnv \/ WriteEnv
             \/ PersistFlags \/ WriteConf \/ NothingCleaned \/ ComposeUp \/ TeardownEnds \/ Passive
    BY <1>3
       DEF Load, TruncateEnv, WriteEnv, PersistFlags, WriteConf, NothingCleaned, ComposeUp,
           TeardownEnds, Passive, NoTakeover, Refuse, WriteConfFails, NothingToTearDown,
           ResolversDone, LoadFails, ComposeUnbound, ProbePasses, ProbeRefuses, Exit, End, Goto,
           TeardownInv
  <1>4. CASE StopDnsmasq
    BY <1>4 DEF StopDnsmasq, Exit, End, TeardownInv
  <1>5. CASE Looping
    BY <1>5
       DEF Looping, ResolverCurrent, WriteResolver, DeclineResolver, NotPresent,
           RemoveResolver,
           DeclineRemoval, Done, TeardownInv, TypeOK
  <1> QED
    BY <1>1, <1>2, <1>3, <1>4, <1>5
       DEF Next, User, Machine, Script, Setup, Teardown, Passive, Looping

-----------------------------------------------------------------------------
(* The conflict gate.                                                      *)

LEMMA GateStep == TypeOK /\ GateInv /\ [Next]_vars => GateInv'
  <1> SUFFICES ASSUME TypeOK, GateInv, [Next]_vars
               PROVE  GateInv'
    OBVIOUS
  <1> USE TakeoverAssumption, CleanedType DEF files, services, history
  <1>1. ASSUME NEW s \in Suffixes, ToggleOrb(s) \/ ForeignResolver(s)
        PROVE  GateInv'
    BY <1>1 DEF ToggleOrb, ForeignResolver, GateInv, Conflict, TypeOK
  <1>2. CASE RestartDnsmasq \/ UNCHANGED vars \/ \E list \in Lists : EditList(list)
    BY <1>2 DEF RestartDnsmasq, vars, EditList, GateInv, Conflict
  <1>3. CASE \E force \in BOOLEAN : Begin("load", force) \/ Begin("teardown", force)
    BY <1>3 DEF Begin, GateInv, Conflict
  <1>4. CASE Interrupt
    BY <1>4 DEF Interrupt, End, GateInv, Conflict
  <1>5. CASE Load("load", "truncate") \/ Load("teardown", "unload")
    BY <1>5 DEF Load, Goto, GateInv, Conflict
  <1>6. CASE PersistFlags
    BY <1>6 DEF PersistFlags, Goto, GateInv, Conflict, TypeOK
  <1>7. CASE WriteConf
    BY <1>7 DEF WriteConf, Goto, GateInv, Conflict, TypeOK
  <1>8. ASSUME NEW s \in Suffixes, ProbePasses(s)
        PROVE  GateInv'
    <2>1. /\ pc = "gate" /\ UNCHANGED <<sh, contested, wrote, orb, resolver>> /\ wrote = {}
          /\ s \notin contested
      BY <1>8 DEF ProbePasses, Goto, GateInv
    <2> QED
      BY <1>8, <2>1 DEF ProbePasses, Goto, GateInv, Conflict
  <1>9. CASE \/ TruncateEnv \/ WriteEnv \/ NothingCleaned \/ ComposeUp \/ StopDnsmasq \/ TeardownEnds
    BY <1>9
       DEF TruncateEnv, WriteEnv, NothingCleaned, ComposeUp, StopDnsmasq, TeardownEnds,
           Exit, End,
           Goto, GateInv, Conflict
  <1>10. CASE \/ NoTakeover \/ Refuse \/ WriteConfFails \/ NothingToTearDown \/ ResolversDone
              \/ LoadFails \/ ComposeUnbound \/ \E s \in Suffixes : ProbeRefuses(s)
    BY <1>10
       DEF NoTakeover, Refuse, WriteConfFails, NothingToTearDown, ResolversDone, LoadFails,
           ComposeUnbound, ProbeRefuses, Exit, End, Goto, GateInv, Conflict
  <1>11. ASSUME NEW s \in Suffixes, WriteResolver(s)
         PROVE  GateInv'
    <2>1. pc = "resolvers" /\ pc' = pc /\ UNCHANGED <<sh, contested>> /\ wrote' # {}
      BY <1>11 DEF WriteResolver, Done
    <2> QED
      BY <2>1 DEF GateInv
  <1>12. CASE Looping /\ \A s \in Suffixes : ~WriteResolver(s)
    BY <1>12
       DEF Looping, ResolverCurrent, DeclineResolver, NotPresent, RemoveResolver,
           DeclineRemoval, Done, GateInv, Conflict, TypeOK
  <1> QED
    BY <1>1, <1>2, <1>3, <1>4, <1>5, <1>6, <1>7, <1>8, <1>9, <1>10, <1>11, <1>12
       DEF Next, User, Machine, Script, Setup, Teardown, Looping

-----------------------------------------------------------------------------
(* The next run.                                                           *)

(* In a run after an `up` with suffixes the list is what it was. *)
LEMMA SameList ==
    ASSUME TakeoverInv, ~spoiled, wanted \cap Suffixes # {}, Loaded
    PROVE  sh.list = wanted /\ Cleaned(sh.list) # {}
  BY DEF TakeoverInv, ListInv, Cleaned

LEMMA RepeatStep == TakeoverInv /\ [Next]_vars => RepeatInv'
  <1> SUFFICES ASSUME TakeoverInv, [Next]_vars, settled', ~spoiled', wanted' \cap Suffixes # {}
               PROVE  conf' # Directory /\ (~Loaded' => env'.flagsQuoted)
    BY DEF RepeatInv
  <1> USE MarksFact, CleanedType DEF files, services, history
  <1>1. CASE ComposeUp
    <2>1. wanted' = wanted /\ spoiled' = spoiled /\ pc = "compose" /\ env' = env
      BY <1>1 DEF ComposeUp, Exit
    <2>2. Cleaned(sh.list) # {}
      BY <2>1, SameList DEF Loaded
    <2>3. conf = Cleaned(sh.list) /\ env.flagsQuoted
      BY <2>1, <2>2 DEF TakeoverInv, SetupInv
    <2>4. conf' = conf
      BY <1>1, <2>3 DEF ComposeUp
    <2> QED
      BY <2>1, <2>3, <2>4
  <1>2. CASE ~ComposeUp
    <2>1. settled /\ ~spoiled /\ wanted' = wanted
      <3>1. CASE UNCHANGED <<settled, spoiled, wanted>>
        BY <3>1
      <3>2. CASE User \/ Interrupt
        BY <3>2 DEF User, EditList, Interrupt, End
      <3>3. CASE \/ LoadFails \/ Refuse \/ NothingCleaned \/ WriteConfFails \/ NothingToTearDown
                 \/ StopDnsmasq \/ TeardownEnds \/ ComposeUnbound
                 \/ \E s \in Suffixes : ProbeRefuses(s)
        BY <3>1, <3>3
           DEF ComposeUnbound, LoadFails, Refuse, NothingCleaned, WriteConfFails, NothingToTearDown,
               StopDnsmasq,
               TeardownEnds, ProbeRefuses, Exit, End, Goto
      <3>4. CASE \/ Machine \/ UNCHANGED vars
                 \/ \E force \in BOOLEAN : Begin("load", force) \/ Begin("teardown", force)
        BY <3>1, <3>4 DEF Machine, RestartDnsmasq, ToggleOrb, ForeignResolver, vars, Begin
      <3>5. CASE \/ Load("load", "truncate") \/ Load("teardown", "unload") \/ TruncateEnv \/ WriteEnv
                 \/ NoTakeover \/ PersistFlags \/ WriteConf \/ ResolversDone
                 \/ \E s \in Suffixes : ProbePasses(s)
        BY <3>1, <3>5
           DEF Load, TruncateEnv, WriteEnv, NoTakeover, PersistFlags, WriteConf,
               ResolversDone,
               ProbePasses, Goto
      <3>6. CASE Looping
        BY <3>1, <3>6
           DEF Looping, ResolverCurrent, WriteResolver, DeclineResolver, NotPresent,
               RemoveResolver, DeclineRemoval, Done
      <3> QED
        BY <1>2, <3>2, <3>3, <3>4, <3>5, <3>6 DEF Next, Script, Setup, Teardown, Looping
    <2>2. conf # Directory /\ (~Loaded => env.flagsQuoted)
      BY <2>1 DEF TakeoverInv, RepeatInv
    <2>3. Loaded => Cleaned(sh.list) # {}
      BY <2>1, SameList
    <2>4. CASE \/ User \/ Machine \/ UNCHANGED vars \/ Interrupt
               \/ \E force \in BOOLEAN : Begin("load", force) \/ Begin("teardown", force)
      BY <2>2, <2>4
         DEF User, Machine, RestartDnsmasq, ToggleOrb, ForeignResolver, vars, EditList,
             Begin,
             Interrupt, End, Loaded
    <2>5. CASE Load("load", "truncate") \/ Load("teardown", "unload") \/ TruncateEnv \/ WriteEnv
      BY <2>2, <2>5 DEF Load, TruncateEnv, WriteEnv, Goto, Loaded
    <2>6. CASE Setup
      BY <2>1, <2>2, <2>3, <2>6
         DEF Setup, NoTakeover, Refuse, NothingCleaned, PersistFlags, WriteConf,
             WriteConfFails, ResolversDone, ProbePasses, ProbeRefuses, ResolverCurrent,
             WriteResolver, DeclineResolver, Done, Exit, End, Goto, Loaded
    <2>7. CASE LoadFails \/ ComposeUnbound \/ Teardown
      BY <2>1, <2>2, <2>7
         DEF LoadFails, ComposeUnbound, Teardown, NothingToTearDown, StopDnsmasq, NotPresent,
             RemoveResolver,
             DeclineRemoval, TeardownEnds, Done, Exit, End, Goto, Loaded
    <2> QED
      BY <1>2, <2>4, <2>5, <2>6, <2>7 DEF Next, Script
  <1> QED
    BY <1>1, <1>2

LEMMA TakeoverInvStep == TakeoverInv /\ [Next]_vars => TakeoverInv'
  BY TypeStep, ListStep, SetupStep, TeardownStep, GateStep, RepeatStep DEF TakeoverInv

LEMMA TakeoverInvAlways == Spec => []TakeoverInv
  BY TakeoverInvInit, TakeoverInvStep, PTL DEF Spec

-----------------------------------------------------------------------------
(* What bootstrap.sh promises.                                             *)

(* Type correctness: a loop has only suffixes of its list before it, and     *)
(* dnsmasq.conf only valid ones in it.                                     *)
THEOREM TakeoverTyping == Spec => []TypeOK
  <1>1. TakeoverInv => TypeOK
    BY DEF TakeoverInv
  <1> QED
    BY <1>1, TakeoverInvAlways, PTL

(* The user's list survives every run, wherever it ends, unless it is        *)
(* interrupted between the truncation of .env and the write.                *)
THEOREM TakeoverListSurvives == Spec => []ListSurvives
  <1>1. TakeoverInv => ListSurvives
    BY DEF TakeoverInv, ListInv, ListSurvives
  <1> QED
    BY <1>1, TakeoverInvAlways, PTL

(* A run that is not forced writes no resolver file while OrbStack serves    *)
(* one of its suffixes by mDNS alone, where the probe cannot miss it.       *)
THEOREM TakeoverGate == Spec => []NoneWrittenInConflict
  <1>1. TakeoverInv => NoneWrittenInConflict
    BY DEF TakeoverInv, GateInv, NoneWrittenInConflict
  <1> QED
    BY <1>1, TakeoverInvAlways, PTL

(* After an `up` the discoverer, .env, dnsmasq.conf and the resolver files   *)
(* of the list agree, whatever earlier runs have left.                      *)
THEOREM TakeoverSetupAgrees == Spec => SetupAgrees
  <1>1. ASSUME TakeoverInv, [Next]_vars, Ends("compose", "up")
        PROVE  LET cleaned == Cleaned(sh.list)
               IN  /\ discoverer' = {Primary} \cup cleaned
                   /\ cleaned # {} =>
                       /\ conf' = cleaned
                       /\ env'.flags = cleaned /\ env'.flagsQuoted
                       /\ IF dnsmasq = None THEN dnsmasq' = cleaned ELSE dnsmasq' # None
                       /\ \A s \in cleaned \ exempt : resolver'[s] = "ours"
    <2>1. ComposeUp
      BY <1>1
         DEF Ends, Next, User, Machine, Script, Setup, Teardown, RestartDnsmasq, ToggleOrb,
             ForeignResolver, vars, EditList, Begin, Interrupt, Load, LoadFails,
             TruncateEnv,
             WriteEnv, NoTakeover, Refuse, NothingCleaned, PersistFlags, WriteConf,
             WriteConfFails, ResolversDone, ProbePasses, ProbeRefuses, ResolverCurrent,
             WriteResolver, DeclineResolver, NothingToTearDown, StopDnsmasq, NotPresent,
             RemoveResolver, DeclineRemoval, TeardownEnds, ComposeUnbound, Done, Exit, End,
             Goto
    <2>2. discoverer' = {Primary} \cup Cleaned(sh.list)
      BY <2>1 DEF ComposeUp, Parsed
    <2>3. ASSUME Cleaned(sh.list) # {}
          PROVE  /\ conf' = Cleaned(sh.list)
                 /\ env'.flags = Cleaned(sh.list) /\ env'.flagsQuoted
                 /\ IF dnsmasq = None THEN dnsmasq' = Cleaned(sh.list) ELSE dnsmasq' # None
                 /\ \A s \in Cleaned(sh.list) \ exempt : resolver'[s] = "ours"
      <3>1. /\ pc = "compose" /\ env' = env /\ resolver' = resolver
            /\ sh.list # {} /\ conf = Cleaned(sh.list) /\ conf \subseteq Suffixes /\ conf # None
        BY <1>1, <2>1, <2>3, MarksFact, CleanedType DEF ComposeUp, TakeoverInv, SetupInv,
                                                        Cleaned
      <3> QED
        BY <1>1, <2>1, <2>3, <3>1 DEF ComposeUp, TakeoverInv, SetupInv
    <2> QED
      BY <2>2, <2>3
  <1>2. TakeoverInv /\ [Next]_vars
          => [Ends("compose", "up") =>
                LET cleaned == Cleaned(sh.list)
                IN  /\ discoverer' = {Primary} \cup cleaned
                    /\ cleaned # {} =>
                        /\ conf' = cleaned
                        /\ env'.flags = cleaned /\ env'.flagsQuoted
                        /\ IF dnsmasq = None THEN dnsmasq' = cleaned ELSE dnsmasq' # None
                        /\ \A s \in cleaned \ exempt : resolver'[s] = "ours"]_vars
    BY <1>1
  <1> QED
    BY <1>2, TakeoverInvAlways, PTL DEF Spec, SetupAgrees

(* A teardown that reports success has removed dnsmasq.conf and the resolver *)
(* files it was told to; of the sidecar it knows nothing.                   *)
THEOREM TakeoverTeardown == Spec => TeardownRemoves
  <1>1. ASSUME TakeoverInv, [Next]_vars, Ends("remove", "down")
        PROVE  /\ conf' = None
               /\ \A s \in Cleaned(sh.list) \ exempt : resolver'[s] = "none"
    <2>1. TeardownEnds
      BY <1>1
         DEF Ends, Next, User, Machine, Script, Setup, Teardown, RestartDnsmasq, ToggleOrb,
             ForeignResolver, vars, EditList, Begin, Interrupt, Load, LoadFails,
             TruncateEnv,
             WriteEnv, NoTakeover, Refuse, NothingCleaned, PersistFlags, WriteConf,
             WriteConfFails, ResolversDone, ProbePasses, ProbeRefuses, ResolverCurrent,
             WriteResolver, DeclineResolver, NothingToTearDown, StopDnsmasq, NotPresent,
             RemoveResolver, DeclineRemoval, ComposeUp, ComposeUnbound, Done, Exit, End, Goto
    <2> QED
      BY <1>1, <2>1
         DEF TeardownEnds, Ends, Exit, End, TakeoverInv, TeardownInv, services
  <1>2. TakeoverInv /\ [Next]_vars
          => [Ends("remove", "down") =>
                /\ conf' = None
                /\ \A s \in Cleaned(sh.list) \ exempt : resolver'[s] = "none"]_vars
    BY <1>1
  <1> QED
    BY <1>2, TakeoverInvAlways, PTL DEF Spec, TeardownRemoves

(* A run after an `up` with suffixes does not die, as long as nobody edits   *)
(* the list: its flags are quoted and dnsmasq.conf is no directory.         *)
THEOREM TakeoverRepeats == Spec => RunRepeats
  <1>1. ASSUME TakeoverInv, [Next]_vars, settled, ~spoiled, wanted \cap Suffixes # {}, Gap \notin wanted,
               pc # "idle", pc' = "idle", outcome' = "died"
        PROVE  FALSE
    <2>1. LoadFails \/ NothingCleaned \/ WriteConfFails \/ TeardownEnds \/ ComposeUnbound
      BY <1>1
         DEF Next, User, Machine, Script, Setup, Teardown, RestartDnsmasq, ToggleOrb,
             ForeignResolver, vars, EditList, Begin, Interrupt, Load, TruncateEnv,
             WriteEnv, NoTakeover, Refuse, PersistFlags, WriteConf, ResolversDone,
             ProbePasses,
             ProbeRefuses, ResolverCurrent, WriteResolver, DeclineResolver,
             NothingToTearDown,
             StopDnsmasq, NotPresent, RemoveResolver, DeclineRemoval, ComposeUp, Done,
             Exit, End,
             Goto
    <2>2. conf # Directory /\ (~Loaded => env.flagsQuoted)
      BY <1>1 DEF TakeoverInv, RepeatInv
    <2>3. Loaded => Cleaned(sh.list) # {}
      BY <1>1, SameList
    <2>4. ~LoadFails
      BY <1>1, <2>2 DEF LoadFails, Loads, Loaded, TakeoverInv, ListInv
    <2>5. ~ComposeUnbound
      BY <2>3 DEF ComposeUnbound, Loaded, Cleaned
    <2> QED
      BY <1>1, <2>1, <2>2, <2>3, <2>4, <2>5
         DEF NothingCleaned, WriteConfFails, TeardownEnds, Loaded, Exit, End
  <1>2. TakeoverInv /\ [Next]_vars
          => [settled /\ ~spoiled /\ wanted \cap Suffixes # {} /\ Gap \notin wanted
              /\ pc # "idle" /\ pc' = "idle"
                => outcome' # "died"]_vars
    BY <1>1
  <1> QED
    BY <1>2, TakeoverInvAlways, PTL DEF Spec, RunRepeats
=============================================================================
