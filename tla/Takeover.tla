------------------------------- MODULE Takeover -------------------------------
(***************************************************************************)
(* Takeover mode: bootstrap.sh `up` and `teardown-takeover` over the files  *)
(* that outlive a run, .env, dnsmasq.conf and /etc/resolver/<suffix>, and   *)
(* over the two services that read them, dnsmasq and the discoverer.        *)
(*                                                                         *)
(* A run of the script is a sequence of steps that may end early: by exit,  *)
(* by set -e or by an interrupt.  Its files are then what they are, and the *)
(* next run starts from them.                                              *)
(*                                                                         *)
(* The value of TAKEOVER_SUFFIXES is a set of marks: the valid suffixes in  *)
(* it, Bad for an item that valid_suffix refuses, Comma for an empty item,  *)
(* and Gap for blanks between its items.  A value of .env with blanks must   *)
(* be quoted, or sourcing .env runs its second word as a command.           *)
(***************************************************************************)
EXTENDS Integers, FiniteSets

CONSTANTS Suffixes,   \* valid suffixes
          Primary,    \* the one of SUFFIX
          Bad, Comma, Gap,
          Lists,      \* values a user may give TAKEOVER_SUFFIXES
          MaxRuns,    \* bound: runs of the script
          Faults      \* the failures the environment may cause

FaultKinds == {"interrupt", "orbstack", "foreign", "restart", "stop", "bash"}

ASSUME TakeoverAssumption ==
    /\ {Bad, Comma, Gap} \cap Suffixes = {}
    /\ Bad # Comma /\ Bad # Gap /\ Comma # Gap
    /\ Primary \in Suffixes
    /\ Lists \subseteq SUBSET (Suffixes \cup {Bad, Comma, Gap})
    /\ MaxRuns \in Nat
    /\ Faults \subseteq FaultKinds

VARIABLES
    pc,         \* where the script stands, "idle" when it does not run
    sh,         \* its variables: list, flags, and FORCE_TAKEOVER
    todo,       \* suffixes its current loop has before it
    env,        \* the file .env
    conf,       \* the file dnsmasq.conf: addresses, or None, or Directory
    resolver,   \* /etc/resolver/<suffix>: "none", "ours" or "foreign"
    dnsmasq,    \* the addresses the sidecar answers, None when none runs
    discoverer, \* the suffixes the discoverer was started with
    orb,        \* suffixes that OrbStack serves
    runs,       \* how often the script ran, for the bound
    wanted,     \* history: the list the user wrote last
    spoiled,    \* history: a run was interrupted while it wrote .env
    outcome,    \* history: how the last run ended
    settled,    \* history: it ended "up" and nobody has edited .env since
    exempt,     \* history: suffixes declined in this run, or that others changed
    contested,  \* history: OrbStack has served them throughout this run, by mDNS alone
    wrote       \* history: resolver files that this run wrote

files == <<env, conf, resolver>>
services == <<dnsmasq, discoverer>>
history == <<wanted, spoiled, settled, exempt, contested, wrote>>
vars == <<pc, sh, todo, files, services, orb, runs, outcome, history>>

(* What dnsmasq.conf may be besides a set of addresses. *)
None == {Bad}
Directory == {Comma}

(* .env: the list, the synthesized flags, and which of them are quoted. *)
BlankEnv == [list |-> {}, listQuoted |-> FALSE, flags |-> {}, flagsQuoted |-> FALSE]

(* . ./.env: one flag is one word. *)
Loads(e) ==
    /\ Gap \in e.list => e.listQuoted
    /\ Cardinality(e.flags) > 1 => e.flagsQuoted

(* Slip: empty items stay in the list. *)
CleanedKeepingEmpty(list) == list \ {Gap}

(* The trimmed, sorted list without duplicates. *)
Cleaned(list) == list \cap Suffixes

(* parseTakeoverSuffixes (cmd/discoverer/main.go). *)
Parsed(list) == {Primary} \cup Cleaned(list)

Init ==
    /\ pc = "idle"
    /\ sh = [list |-> {}, flags |-> {}, force |-> FALSE]
    /\ todo = {}
    /\ env = BlankEnv
    /\ conf = None
    /\ resolver = [s \in Suffixes |-> "none"]
    /\ dnsmasq = None
    /\ discoverer = {}
    /\ orb = {}
    /\ runs = 0
    /\ wanted = {}
    /\ spoiled = FALSE
    /\ outcome = "none"
    /\ settled = FALSE
    /\ exempt = {}
    /\ contested = {}
    /\ wrote = {}

-----------------------------------------------------------------------------
(* The user and the rest of the machine.                                   *)

(* TAKEOVER_SUFFIXES is edited by somebody who quotes what needs quotes. *)
EditList(list) ==
    /\ pc = "idle"
    /\ list # env.list
    /\ env' = [env EXCEPT !.list = list, !.listQuoted = Gap \in list]
    /\ wanted' = list
    /\ spoiled' = FALSE
    /\ settled' = FALSE
    /\ UNCHANGED <<pc, sh, todo, conf, resolver, services, orb, runs, outcome,
                   exempt, contested, wrote>>

(* OrbStack begins or ends to serve a suffix. *)
ToggleOrb(s) ==
    /\ "orbstack" \in Faults
    /\ orb' = IF s \in orb THEN orb \ {s} ELSE orb \cup {s}
    /\ contested' = contested \ {s}
    /\ UNCHANGED <<pc, sh, todo, files, services, runs, wanted, spoiled, outcome, settled,
                   exempt, wrote>>

(* Another program, OrbStack itself perhaps, puts its own resolver file there. *)
ForeignResolver(s) ==
    /\ "foreign" \in Faults
    /\ resolver[s] # "foreign"
    /\ resolver' = [resolver EXCEPT ![s] = "foreign"]
    /\ exempt' = exempt \cup {s}
    /\ contested' = contested \ {s}
    /\ UNCHANGED <<pc, sh, todo, env, conf, services, orb, runs, wanted, spoiled, outcome,
                   settled, wrote>>

(* Docker restarts the sidecar, which reads the mounted file again. *)
RestartDnsmasq ==
    /\ "restart" \in Faults
    /\ dnsmasq # None
    /\ conf \subseteq Suffixes
    /\ dnsmasq # conf
    /\ dnsmasq' = conf
    /\ UNCHANGED <<pc, sh, todo, files, discoverer, orb, runs, outcome, history>>

-----------------------------------------------------------------------------
(* A run, its end, and load_env.                                           *)

Begin(command, force) ==
    /\ pc = "idle"
    /\ runs < MaxRuns
    /\ runs' = runs + 1
    /\ pc' = command
    /\ sh' = [list |-> {}, flags |-> {}, force |-> force]
    /\ todo' = {}
    /\ exempt' = {}
    /\ contested' = {s \in orb : resolver[s] = "none"}
    /\ wrote' = {}
    /\ UNCHANGED <<files, services, orb, wanted, spoiled, outcome, settled>>

End(how) ==
    /\ pc' = "idle"
    /\ outcome' = how
    /\ settled' = (how = "up")

Interrupt ==
    /\ "interrupt" \in Faults
    /\ pc # "idle"
    /\ End("interrupted")
    /\ spoiled' = (spoiled \/ pc = "write")
    /\ UNCHANGED <<sh, todo, files, services, orb, runs, wanted, exempt, contested, wrote>>

(* The script goes on to a step, its files and services as they are. *)
Goto(step, loop) ==
    /\ pc' = step
    /\ todo' = loop
    /\ UNCHANGED <<services, orb, runs, outcome, history>>

(* The script ends at this step. *)
Exit(how) ==
    /\ End(how)
    /\ UNCHANGED <<sh, todo, orb, runs, wanted, spoiled, exempt, contested, wrote>>

Load(command, next) ==
    /\ pc = command
    /\ Loads(env)
    /\ sh' = [sh EXCEPT !.list = env.list, !.flags = env.flags]
    /\ Goto(next, {})
    /\ UNCHANGED files

(* Status 127 under set -e. *)
LoadFails ==
    /\ pc \in {"load", "teardown"}
    /\ ~Loads(env)
    /\ Exit("died")
    /\ UNCHANGED <<files, services>>

(* `cat > .env` empties the file before it writes. *)
TruncateEnv ==
    /\ pc = "truncate"
    /\ env' = BlankEnv
    /\ Goto("write", {})
    /\ UNCHANGED <<sh, conf, resolver>>

(* Slip: the list of takeover suffixes is not among what is written back. *)
WriteEnvForgetting ==
    /\ pc = "write"
    /\ env' = [BlankEnv EXCEPT !.flags = sh.flags]
    /\ Goto("setup", {})
    /\ UNCHANGED <<sh, conf, resolver>>

(* write_env quotes nothing, and knows what to write for SUFFIX, the        *)
(* Tailscale values it has just detected, and the takeover variables.       *)
WriteEnv ==
    /\ pc = "write"
    /\ env' = [BlankEnv EXCEPT !.list = sh.list, !.flags = sh.flags]
    /\ Goto("setup", {})
    /\ UNCHANGED <<sh, conf, resolver>>

-----------------------------------------------------------------------------
(* takeover_setup.                                                         *)

NoTakeover ==
    /\ pc = "setup"
    /\ sh.list = {}
    /\ Goto("compose", {})
    /\ UNCHANGED <<sh, files>>

Refuse ==
    /\ pc = "setup"
    /\ Bad \in sh.list
    /\ Exit("refused")
    /\ UNCHANGED <<files, services>>

(* Only empty items: rm -f, which fails on a directory. *)
NothingCleaned ==
    /\ pc = "setup"
    /\ sh.list # {}
    /\ Bad \notin sh.list
    /\ Cleaned(sh.list) = {}
    /\ IF conf = Directory
         THEN Exit("died") /\ UNCHANGED <<files, services>>
         ELSE /\ conf' = None
              /\ Goto("compose", {})
              /\ UNCHANGED <<sh, env, resolver>>

(* Slip: flags are synthesized once, and kept afterwards. *)
PersistFlagsOnce ==
    /\ pc = "setup"
    /\ Bad \notin sh.list
    /\ Cleaned(sh.list) # {}
    /\ LET flags == IF sh.flags = {} THEN Cleaned(sh.list) ELSE sh.flags
       IN  /\ sh' = [sh EXCEPT !.flags = flags]
           /\ env' = [env EXCEPT !.flags = flags, !.flagsQuoted = TRUE]
    /\ Goto("conf", {})
    /\ UNCHANGED <<conf, resolver>>

(* Slip: sed -i writes them like write_env. *)
PersistFlagsUnquoted ==
    /\ pc = "setup"
    /\ Bad \notin sh.list
    /\ Cleaned(sh.list) # {}
    /\ sh' = [sh EXCEPT !.flags = Cleaned(sh.list)]
    /\ env' = [env EXCEPT !.flags = Cleaned(sh.list), !.flagsQuoted = FALSE]
    /\ Goto("conf", {})
    /\ UNCHANGED <<conf, resolver>>

(* The flags, quoted this time, by sed -i. *)
PersistFlags ==
    /\ pc = "setup"
    /\ Bad \notin sh.list
    /\ Cleaned(sh.list) # {}
    /\ sh' = [sh EXCEPT !.flags = Cleaned(sh.list)]
    /\ env' = [env EXCEPT !.flags = Cleaned(sh.list), !.flagsQuoted = TRUE]
    /\ Goto("conf", {})
    /\ UNCHANGED <<conf, resolver>>

WriteConf ==
    /\ pc = "conf"
    /\ conf # Directory
    /\ conf' = Cleaned(sh.list)
    /\ Goto(IF sh.force THEN "resolvers" ELSE "gate", Cleaned(sh.list))
    /\ UNCHANGED <<sh, env, resolver>>

WriteConfFails ==
    /\ pc = "conf"
    /\ conf = Directory
    /\ Exit("died")
    /\ UNCHANGED <<files, services>>

(* detect_suffix_conflict asks the system resolver, for which a file in     *)
(* /etc/resolver overrides mDNS: without one it finds OrbStack; with ours   *)
(* the answer is 127.0.0.1 or none at all; with another's it is whatever    *)
(* that resolver says, OrbStack's container or nothing.                     *)
Conflict(s) == s \in orb /\ resolver[s] = "none"
MaskedConflict(s) == s \in orb /\ resolver[s] = "foreign"

(* Slip: one suffix without a conflict is enough. *)
ProbeOne(s) ==
    /\ pc = "gate"
    /\ s \in todo
    /\ ~Conflict(s)
    /\ Goto("resolvers", Cleaned(sh.list))
    /\ UNCHANGED <<sh, files>>

ProbePasses(s) ==
    /\ pc = "gate"
    /\ s \in todo
    /\ ~Conflict(s)
    /\ IF todo = {s} THEN Goto("resolvers", Cleaned(sh.list)) ELSE Goto("gate", todo \ {s})
    /\ UNCHANGED <<sh, files>>

ProbeRefuses(s) ==
    /\ pc = "gate"
    /\ s \in todo
    /\ Conflict(s) \/ MaskedConflict(s)
    /\ Exit("refused")
    /\ UNCHANGED <<files, services>>

(* The loop over resolver files has done s. *)
Done(s) ==
    /\ pc' = pc
    /\ todo' = todo \ {s}
    /\ UNCHANGED <<sh, env, conf, services, orb, runs, outcome, wanted, spoiled, settled,
                   contested>>

ResolverCurrent(s) ==
    /\ pc = "resolvers"
    /\ s \in todo
    /\ resolver[s] = "ours"
    /\ Done(s)
    /\ UNCHANGED <<resolver, exempt, wrote>>

(* Confirmed, or YES=1. *)
WriteResolver(s) ==
    /\ pc = "resolvers"
    /\ s \in todo
    /\ resolver[s] # "ours"
    /\ resolver' = [resolver EXCEPT ![s] = "ours"]
    /\ wrote' = wrote \cup {s}
    /\ Done(s)
    /\ UNCHANGED exempt

DeclineResolver(s) ==
    /\ pc = "resolvers"
    /\ s \in todo
    /\ resolver[s] # "ours"
    /\ exempt' = exempt \cup {s}
    /\ Done(s)
    /\ UNCHANGED <<resolver, wrote>>

ResolversDone ==
    /\ pc = "resolvers"
    /\ todo = {}
    /\ Goto("compose", {})
    /\ UNCHANGED <<sh, files>>

-----------------------------------------------------------------------------
(* docker compose up: the discoverer is created again when its environment  *)
(* changed; the sidecar is created when the profile asks for one and there   *)
(* is none, for the content of a mounted file is not part of a container's   *)
(* configuration.  Docker makes a directory of a file that is missing.      *)
(* Without a list a bash older than 4.4, such as macOS's /bin/bash, does not *)
(* get that far (ComposeUnbound); a later one does.                         *)
ComposeUp ==
    /\ pc = "compose"
    /\ discoverer' = Parsed(sh.list)
    /\ LET starts == sh.list # {} /\ dnsmasq = None
       IN  /\ conf' = IF starts /\ conf = None THEN Directory ELSE conf
           /\ dnsmasq' = CASE ~starts -> dnsmasq
                           [] conf \subseteq Suffixes -> conf
                           [] OTHER -> {}
    /\ Exit("up")
    /\ UNCHANGED <<env, resolver>>

(* "${profile_args[@]}" of an empty array is an unbound variable (set -u). *)
ComposeUnbound ==
    /\ "bash" \in Faults
    /\ pc = "compose"
    /\ sh.list = {}
    /\ Exit("died")
    /\ UNCHANGED <<files, services>>

-----------------------------------------------------------------------------
(* teardown_takeover.                                                      *)

NothingToTearDown ==
    /\ pc = "unload"
    /\ sh.list = {}
    /\ Exit("nothing")
    /\ UNCHANGED <<files, services>>

(* The sidecar goes before the list is validated, if it does: the script     *)
(* takes no notice of a failing stop (`2>/dev/null || true`).               *)
StopDnsmasq ==
    /\ pc = "unload"
    /\ sh.list # {}
    /\ dnsmasq' = None \/ ("stop" \in Faults /\ dnsmasq' = dnsmasq)
    /\ IF Bad \in sh.list
         THEN Exit("refused")
         ELSE /\ pc' = "remove"
              /\ todo' = Cleaned(sh.list)
              /\ UNCHANGED <<sh, orb, runs, outcome, history>>
    /\ UNCHANGED <<files, discoverer>>

NotPresent(s) ==
    /\ pc = "remove"
    /\ s \in todo
    /\ resolver[s] = "none"
    /\ Done(s)
    /\ UNCHANGED <<resolver, exempt, wrote>>

(* Whoever's file it is. *)
RemoveResolver(s) ==
    /\ pc = "remove"
    /\ s \in todo
    /\ resolver[s] # "none"
    /\ resolver' = [resolver EXCEPT ![s] = "none"]
    /\ Done(s)
    /\ UNCHANGED <<exempt, wrote>>

DeclineRemoval(s) ==
    /\ pc = "remove"
    /\ s \in todo
    /\ resolver[s] # "none"
    /\ exempt' = exempt \cup {s}
    /\ Done(s)
    /\ UNCHANGED <<resolver, wrote>>

(* Slip: the generated file stays. *)
TeardownEndsKeeping ==
    /\ pc = "remove"
    /\ todo = {}
    /\ Exit("down")
    /\ UNCHANGED <<files, services>>

TeardownEnds ==
    /\ pc = "remove"
    /\ todo = {}
    /\ IF conf = Directory
         THEN Exit("died") /\ UNCHANGED conf
         ELSE Exit("down") /\ conf' = None
    /\ UNCHANGED <<env, resolver, services>>

-----------------------------------------------------------------------------
User == \E list \in Lists : EditList(list)

Machine == RestartDnsmasq \/ \E s \in Suffixes : ToggleOrb(s) \/ ForeignResolver(s)

Setup ==
    \/ NoTakeover \/ Refuse \/ NothingCleaned \/ PersistFlags
    \/ WriteConf \/ WriteConfFails \/ ResolversDone
    \/ \E s \in Suffixes : \/ ProbePasses(s) \/ ProbeRefuses(s)
                           \/ ResolverCurrent(s) \/ WriteResolver(s) \/ DeclineResolver(s)

Teardown ==
    \/ NothingToTearDown \/ StopDnsmasq \/ TeardownEnds
    \/ \E s \in Suffixes : NotPresent(s) \/ RemoveResolver(s) \/ DeclineRemoval(s)

Script ==
    \/ Load("load", "truncate") \/ Load("teardown", "unload") \/ LoadFails
    \/ TruncateEnv \/ WriteEnv \/ Setup \/ ComposeUp \/ ComposeUnbound \/ Teardown

Next ==
    \/ User \/ Machine \/ Script \/ Interrupt
    \/ \E force \in BOOLEAN : Begin("load", force)
    \/ Begin("teardown", FALSE)

Spec == Init /\ [][Next]_vars

-----------------------------------------------------------------------------
(* Properties.                                                             *)

Steps == {"idle", "load", "truncate", "write", "setup", "conf", "gate", "resolvers",
          "compose", "teardown", "unload", "remove"}
Marks == Suffixes \cup {Bad, Comma, Gap}

(* Type correctness.  A loop has only suffixes of its list before it, and    *)
(* dnsmasq.conf only valid ones in it.                                     *)
TypeOK ==
    /\ pc \in Steps
    /\ sh \in [list : SUBSET Marks, flags : SUBSET Suffixes, force : BOOLEAN]
    /\ todo \subseteq Cleaned(sh.list)
    /\ env \in [list : SUBSET Marks, listQuoted : BOOLEAN, flags : SUBSET Suffixes,
                flagsQuoted : BOOLEAN]
    /\ conf \in (SUBSET Suffixes) \cup {None, Directory}
    /\ resolver \in [Suffixes -> {"none", "ours", "foreign"}]
    /\ dnsmasq \in (SUBSET Suffixes) \cup {None}
    /\ discoverer \subseteq Suffixes
    /\ orb \subseteq Suffixes
    /\ runs \in 0..MaxRuns
    /\ wanted \in SUBSET Marks
    /\ outcome \in {"none", "up", "down", "nothing", "refused", "died", "interrupted"}
    /\ {spoiled, settled} \subseteq BOOLEAN
    /\ exempt \cup contested \cup wrote \subseteq Suffixes

(* A run that ends at this step, the way it should. *)
Ends(step, how) == pc = step /\ pc' = "idle" /\ outcome' = how

(* "user-edited TAKEOVER_SUFFIXES survives the write_env rewrite"           *)
(* (bootstrap.sh:87-88), wherever a run ends or is interrupted, but for the *)
(* instant between the truncation and the write.                           *)
ListSurvives == pc # "write" /\ ~spoiled => env.list = wanted

(* "mismatches between dnsmasq config and /etc/resolver entries can't sneak *)
(* in" (bootstrap.sh:169-170): after an `up`, whatever earlier runs left,   *)
(* the discoverer, .env, dnsmasq.conf and the resolver files of the list    *)
(* agree, and so does the sidecar, unless it was running before.            *)
SetupAgrees ==
    [][Ends("compose", "up") =>
        LET cleaned == Cleaned(sh.list)
        IN  /\ discoverer' = {Primary} \cup cleaned
            /\ cleaned # {} =>
                /\ conf' = cleaned
                /\ env'.flags = cleaned /\ env'.flagsQuoted
                /\ IF dnsmasq = None THEN dnsmasq' = cleaned ELSE dnsmasq' # None
                /\ \A s \in cleaned \ exempt : resolver'[s] = "ours"]_vars

(* "Before writing any /etc/resolver files" the conflict gate probes each    *)
(* suffix (docs/takeover-suffixes.md:63): while OrbStack serves one of them *)
(* by mDNS alone a run that is not forced writes none, whatever happens to  *)
(* the others.  Where a resolver file of somebody else overrides mDNS (:96)  *)
(* the gate may see nothing, and no promise is made.                        *)
NoneWrittenInConflict ==
    ~sh.force /\ contested \cap Cleaned(sh.list) # {} => wrote = {}

(* A teardown that reports success has removed the generated file and each   *)
(* confirmed resolver file of its list, whoever wrote it, also when stopping *)
(* the sidecar has failed.                                                  *)
TeardownRemoves ==
    [][Ends("remove", "down") =>
        /\ conf' = None
        /\ \A s \in Cleaned(sh.list) \ exempt : resolver'[s] = "none"]_vars

(* 'Resolver files and dnsmasq removed.' (bootstrap.sh:424): when a teardown *)
(* says so no sidecar answers any more.  A failing stop breaks this.        *)
TeardownStops == [][Ends("remove", "down") => dnsmasq' = None]_vars

(* "blank TAKEOVER_SUFFIXES in .env", "re-run ./bootstrap.sh up (next        *)
(* reissue will drop the extra SANs)" (bootstrap.sh:425-426): such a run     *)
(* that nobody interrupts leaves the discoverer without takeover suffixes.   *)
(* With macOS's bash it dies before that, and the discoverer keeps them.    *)
BlankDropsSuffixes ==
    [][pc = "compose" /\ sh.list = {} /\ pc' = "idle" /\ outcome' # "interrupted"
          => discoverer' \subseteq {Primary}]_vars

(* "Idempotent: re-running on a working machine" (bootstrap.sh:4-5): a run  *)
(* after an `up` that succeeded, with nothing edited or lost, does not die.  *)
(* That is so for a list with suffixes and without blanks; whatever else the *)
(* list was before, and whichever flags and files that has left.            *)
RunRepeats ==
    [][settled /\ ~spoiled /\ wanted \cap Suffixes # {} /\ Gap \notin wanted
          /\ pc # "idle" /\ pc' = "idle" => outcome' # "died"]_vars
=============================================================================
