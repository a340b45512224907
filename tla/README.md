# dockerdynomesh: specifications, model checks and proofs

dockerdynomesh routes containers of any compose project under
`<service>.<project>.<suffix>` with a trusted certificate. A *discoverer* watches
Docker, asks *certgen* for a wildcard certificate that names every compose
project, and writes `auto.yml`; *Traefik* reads both. This directory holds TLA+
modules of that program, the TLC configurations that check them, and theorems
with proofs for TLAPS. Paths below are relative to `src/`.

1. [Inventory](#1-inventory)
2. [Modules](#2-modules)
3. [How the modules correspond to the code](#3-how-the-modules-correspond-to-the-code)
4. [Runs](#4-runs)
5. [Bounds and abstractions](#5-bounds-and-abstractions)
6. [Fairness](#6-fairness)
7. [Theorems](#7-theorems)
8. [What the checks found](#8-what-the-checks-found)
9. [What is not modelled](#9-what-is-not-modelled)
10. [Plan](#10-plan)

Run a model with `tlc -config MCCertgen.cfg MCCertgen`, check proofs with
`tlapm CertgenProofs.tla`.

## 1. Inventory

| component | code | state it keeps | operations |
|---|---|---|---|
| certgen handlers | `internal/certgen/api.go` | the mutex | `POST /reissue`, `GET /status` |
| Reissuer | `internal/certgen/reissue.go`, `san.go` | `wildcard.crt`, `wildcard.key`, their `.tmp` files | no-op test, mkcert, two renames |
| certgen process | `cmd/certgen/main.go`, `install.go` | socket, CA volume | start, SIGTERM with a 10 s `Shutdown` |
| certclient | `internal/certclient/client.go` | none | `Reissue`, with a 60 s timeout |
| discoverer | `cmd/discoverer/reconcile.go`, `main.go` | `lastProjects`, `loggedMisconfig`, `auto.yml` | boot scan with retries, subscription, select loop, reconcile |
| atomicWrite | `cmd/discoverer/reconcile.go` | `auto.yml.tmp` | open, write, sync, close, rename |
| debouncer | `cmd/discoverer/debounce.go` | one timer | `bump`, `fire`, `stop` |
| inspect | `internal/inspect/inspect.go` | none | hostname, port, project set, misconfiguration test |
| render | `internal/render/render.go` | none | names, rules and order of routers as YAML |
| Traefik | `traefik/` (external) | routes and certificate it has read | file provider |
| bootstrap | `bootstrap.sh` | `.env`, `dnsmasq.conf`, `/etc/resolver/*`, `root-ca.pem`, CA backup | `up`, `teardown-takeover`, `down` |
| welcome | `cmd/welcome`, `internal/welcome` | listeners and servers | pages, CA download, install script, shutdown |
| compose stack | `docker-compose.yml`, Dockerfiles | volumes, networks | `restart: unless-stopped`, healthcheck, mounted files |

**How they interact.** Docker's event streams wake the discoverer, which lists
and inspects the containers through the socket proxy. When the project set
differs from `lastProjects` it calls certgen over a Unix socket and waits. Certgen
runs one reissue at a time and answers 200 (reissued), 204 (nothing to do) or an
error. Only then does the discoverer rename a new `auto.yml` into place. Traefik
sees the three files and nothing else; nobody tells it anything. `bootstrap.sh` runs
on the host: it leaves its decisions in files, which the next run, docker compose,
the dnsmasq sidecar and the host's resolver read. Peers fetch the root CA and an
install script from welcome and check the root against the live endpoint.

**What is hard.**

- *Concurrency*: handlers compete for one mutex and share two `.tmp` paths; containers
  change between the list, the inspections, the reissue and the write; Traefik reads
  files while they are written.
- *Failure*: every call of a reconcile can fail on its own, two renames have to
  succeed together, an answer can be lost after the request took effect, and either
  process can die at any point and is started again with only its files left.
- *Ordering*: key before certificate before `auto.yml`; a late request must not undo a
  newer one; subscription comes after the boot scan.
- *Timeouts*: 30 s for mkcert, 60 s for the client, boot retries, a debounce that every
  event restarts, one shutdown deadline for several servers.
- *Files that outlive a run*: a script that may end at every line, under `set -e` or by an
  interrupt, and is run again over what it left; a CA, a certificate and a socket on
  three volumes with different lives.

**What makes each part correct.**

- certgen: the certificate is never ahead of its key; files and answers agree; every
  request ends; a request counts at one instant or not at all.
- discoverer: what it publishes of a steady container is true; received events lead to
  convergence; `lastProjects` never falls behind what `auto.yml` routes; it always gets
  back to its events unless Docker never answers, and SIGTERM ends it.
- both together: no route is published that the certificate does not cover.
- names: each host of each router has a wildcard, although hosts and SANs are computed
  by different code; a warning appears once per change.
- Traefik: the routes it has read are covered by the certificate of certgen's it presents.
- atomicWrite: readers and the disk have whole files only, and its result is true.
- debouncer: a burst gives one reconcile, and no event is left behind.
- router names: no clash of names gives a host the address written for another host, and
  the file does not change when nothing did.
- bootstrap: `.env`, `dnsmasq.conf`, resolver files, sidecar and discoverer agree after each
  `up`, whatever earlier runs left; the list is never lost; nothing is written during a
  conflict.
- the CA: it survives all but the removal of its volume, until then no backup is of an
  empty one, and peers install only what the live endpoint vouches for.
- welcome: a signal ends it, and requests have the whole window.

`PROJECT.json` lists the hazards line by line with the properties about them.

## 2. Modules

    CertStore    what certgen promises a caller        (abstract)
      ^ implemented by
    Certgen      handlers, mutex, mkcert, files, process life
    Discoverer   boot scan, event loop, reconcile pipeline, process life
    Mesh         Discoverer + CertStore + the client between them
    Edge         Mesh + Traefik reading the files
    Names        hostnames, SANs, ports and warnings, in one-step reconciles
    Routers      names of routers and services, their order and clashes, Traefik reading them
    WholeFile    what atomicWrite promises its caller  (abstract)
      ^ implemented by
    AtomicWrite  system calls, kills, loss of power
    Debouncer    timer and select loop in discrete time
    Takeover     bootstrap.sh over .env, dnsmasq.conf and resolver files
    RootCA       the CA from certgen's start to the peers, export and backup
    Welcome      listeners, servers and shutdown of the welcome process
    MeshProofs   theorems about Discoverer, Mesh and Edge
    TimingProofs theorems about Debouncer and Welcome, the modules with a clock
    *Proofs      theorems about the module they are named after
    MC*          instances for TLC

They were written in this order: Certgen first because everything rests on the
files it leaves; then Discoverer; then Mesh, where the central invariant of
`reconcile.go:126-128` can be stated. Mesh uses CertStore in place of Certgen:
Certgen is proved to implement it, so the composition does not carry `.tmp`
files and mutexes along, and stays checkable. Edge EXTENDS Mesh by the reader.
Names is separate because labels of host names and interleavings do not depend on
each other, and Routers because it needs the hyphens inside labels, which Names does
not. AtomicWrite and Debouncer are what one action of Discoverer stands for: its
write, whose two outcomes are those of WholeFile, and its timer, which is armed or
not. Takeover and RootCA are the two stories of `bootstrap.sh`; they share no file.
Welcome has the process only, for its handlers keep nothing.

Operators that start with "Slip:" in their comment are not part of any
specification. Each is a plausible mistake in the definition that follows it (a
guard dropped, an error ignored, a reset forgotten); `PROJECT.json` "mutants" says
which property notices it when it takes that definition's place. They show that the
properties can fail.

## 3. How the modules correspond to the code

`PROJECT.json` "map" has the lines of every definition.

**Certgen.** A handler of connection `c` goes through the phases `waiting` (before
`s.mu.Lock`), `checking`, `mkcert`, `mkcertKey`, `renameKey`, `renameCert`, `replied`.
Each phase ends where another goroutine, the file system, mkcert or the client can
intervene. `cancelled[c]` is `req.Context().Done()`; it stops mkcert
(`exec.CommandContext`) and nothing else, so a request cancelled after mkcert goes
on to its renames. `Finish` is the answer with the deferred `Unlock`; `tmp' = NoTmp` in
the failing actions is the deferred `os.Remove`, which `Kill` does not run. Key pairs
are generation numbers: `cert.gen = key` says that the two files belong together.
`torn` is history: the last commit ended between its renames.

**CertStore.** `served` is what `wildcard.crt` was issued for, `split` that `wildcard.key`
is not its key, and per connection there is the stage of its request. `Split` is the
first rename, or a first rename that stays alone. A request takes
effect at one instant, between `Ask` and its answer, or not at all. A request whose
client left while it was queued or in mkcert can only fail, so it is gone; one that
was past mkcert is `orphaned` and takes effect before any later success.

**Discoverer.** `pc` is where the one goroutine stands: `list`, `inspect`, `calling`,
`publish`, `bootWait`, `subscribe`, `subscribeNetwork`, `select`. `Return` and
`ReturnError` are the two ends of a reconcile and do what follows them in
`bootReconcile` or `run`. `snap` is what was inspected, `steady` is history: the
containers that have not changed since the list and could be inspected. `InspectFail`
leaves a container out and goes on, as the code does, also when the context is cancelled.

**Mesh.** `Post`, `Granted`, `Denied`, `Broken`, `GiveUp` and `Unreachable` are the ways
`certclient.Reissue` can go. They join a step of Discoverer with one of CertStore
(`Store!Ask`, `Store!Collect`, `Store!Leave`), so that a call and its request are two
things and the request can outlive the call. `Dies` is the discoverer's end, which
certgen sees as a client that leaves. `drifted` is history: a reissue was or may have
been carried out and its reconcile failed, so `lastProjects` may not be what the
certificate was made for; the next publication after a reissue, or a new process, ends it.

**Edge.** `ReadRoutes` and `ReadCert` are Traefik's file provider: `auto.yml` comes
before `cert.yml` in the directory, and `cert.yml` names the certificate and the key
(`cert.yml:8-12`). With `split` the pair cannot be loaded, and since certgen may rename the
key between the two reads this can happen at any read: `cover` is then `Fallback`,
Traefik's own certificate.

**Names.** A DNS name is the sequence of its labels. `BaseName`, `InferHostname`,
`SelectPort`, `Routed` and `Misconfigured` are `inspect`; `Hosts` and `Renders` are
`render`; `SANs`, `ValidateLabel` and `Accepts` are certgen's side. A reconcile is one
action with three outcomes: `Refused` (certgen rejects the request), `Unrenderable`
(one hostname fails the render, after the reissue and the warnings) and `Publish`.
`sight` is history: the networks with which a container was last seen misconfigured.

**Routers.** A hostname is its words and the places of its dots, so that `RouterName`
(`strings.ReplaceAll(h, ".", "-")`) forgets exactly what the code forgets. `Sorted` is
`sort.Slice` over a listing of any order. `Router`, `Redirect` and `ServiceMap` are the
template, with the place of each entry in the file; `addressOf` is the container whose
address is written there. Docker may give the address of a container that stopped to
another one, so what is said of `addressOf` is said of the text of the file. `Read` and `Refuse` are the two ways
a YAML reader can take a mapping with one key twice. `RenderFails` ends a reconcile
with nothing written.

**AtomicWrite.** One action per system call, `Fail` for the error branch of each, `Kill`
between any two. `onDisk` are the files the directory entry on the disk may name: a
rename adds one, `Commit` leaves the last, `PowerFailure` picks one. A file that was not
synced may come back whole, empty or torn.

**Debouncer.** `Bump` is `bump`: whichever way `Stop` and the drain go, the timer starts
again and its channel is empty. `Receive` and `Fire` are the cases of `select`;
`EndReconcile` is the end of `r.reconcile`. `Tick` waits for the loop to take what is
ready: an iteration is short against a tick.

**Takeover.** `pc` is the part of the script that runs next, `todo` what its current loop
has before it. `Load`, `TruncateEnv`, `WriteEnv` are `load_env` and `write_env` (the shell
truncates before `cat` writes); `PersistFlags`, `WriteConf`, the probes and the resolver
loop are `takeover_setup`; a run may end at each of them. `Parsed` is the discoverer's
`parseTakeoverSuffixes`. A list is the set of its marks: suffixes, an invalid item,
an empty item, blanks. The machine around it changes too: OrbStack, other programs'
resolver files, a restart of the sidecar. The probe asks the system resolver, for which a
file in `/etc/resolver` overrides mDNS: `Conflict` is OrbStack without such a file, which
the probe always finds, `MaskedConflict` OrbStack behind a file of somebody else, which it
may find or not. `StopDnsmasq` may leave the sidecar running, and `ComposeUnbound` is the
end of an `up` without list under a bash older than 4.4.

**RootCA.** A CA is a generation number, of a certificate it matters who signed it.
`Healthy` is the healthcheck, which tests that the socket file exists. `Export`, `Timeout`
and `Backup` are the end of `main`; `ExportFails` and `BackupFails` may leave a `Broken` file,
for both commands write their target in place. `Download`, `Verify` and `Install` are `install.sh` on a
peer, which may be overtaken by everything else.

**Welcome.** `Serve`, `BeginShutdown` and `EndShutdown` are the goroutines of one server;
`Close` resets what waits in the backlog. `served` counts the ticks a request was being
served since the signal. `TimePasses` only while every `Shutdown` waits (`MayBegin`,
`MayEnd`): what the process does by itself is short against a tick.

## 4. Runs

| run | module | expected | properties |
|---|---|---|---|
| `certgen` | MCCertgen | pass | TypeOK, CertNeverAheadOfKey, SettledPairMatches, ReissuedIsServable, StatusNotMidRename, EveryRequestEnds, StoreSpec |
| `discoverer` | MCDiscoverer | pass | RoutedRemembered, PublishesSteady, EventsConverge, BackToEvents, SigtermStops |
| `mesh` | MCMesh | pass | MeshTypeOK, LoopCovered, ReissueBeforePublish, PublishCoveredUndrifted |
| `mesh_drift` | MCMesh | violation | PublishCovered |
| `edge` | MCEdge | pass | TraefikCovered |
| `names` | MCNames | pass | TypeOK, PublishedCovered, WarnedWhenNew |
| `routers` | MCRouters | pass | NeverCrossed, NoChurn, ClashesHeal |
| `atomic_write` | MCAtomicWrite | pass | ResultIsTrue, WholeFileSpec |
| `debouncer` | MCDebouncer | pass | QuietBeforeReconcile, PromptlyReconciled, PausesSuffice |
| `welcome` | MCWelcome | pass | WelcomeTypeOK, WholeWindow, SignalEnds |
| `takeover` | MCTakeover | pass | TypeOK, ListSurvives, NoneWrittenInConflict, SetupAgrees, TeardownRemoves, RunRepeats |
| `root_ca` | MCRootCA | pass | TrustSurvives, InstalledWasLive, BackupNotEmpty |

- **certgen**: two clients, three accepted requests, two SAN lists and an invalid one,
  all failures. Shows that the pair on disk, the answers and `/status` are right at
  every interleaving, that every request ends, and the refinement of CertStore.
- **discoverer**: containers change at every point of the boot scan, the loop and a
  reconcile, every call may fail, and one container cannot be rendered. What is published
  of a container that did not change is true whatever failed. `failed` is history of the
  instance: convergence is only claimed as long as nothing has failed, no SIGTERM came and
  Docker answers. The goroutine comes back to its events unless it waits for Docker for
  ever (`WaitsForDocker`); SIGTERM ends it even then, for the context of those calls is
  cancelled.
- **mesh**: every failure on either side and between them, and a project that
  `ValidateLabel` rejects. A new project set is published only under a certificate that
  covers it. This holds with lost replies and crashes because the call is repeated until
  it succeeds, and because a request left behind takes effect before a later one is
  answered. A *skipped* reissue publishes nothing uncovered either, unless `drifted`.
- **mesh_drift**: without that exception it does not hold.
- **edge**: while no container goes and none fails its inspection, what Traefik has read is
  covered by the certificate of certgen's it presents, although it reads in the opposite
  order of the writes. All other failures happen: lost replies, refusals, failed writes,
  commits cut short, kills of either process.
- **names**: see 5.
- **routers**: two replicas of `web.demo`, a container named `web-demo`, `web.demo-http`
  (whose name is that of the twin of `web.demo`), `web.shop`, and one that Render refuses,
  starting and stopping in any order. Even while names clash no host is given the address
  that was written for another hostname, and once they do not clash any more all routes
  come back. No list, reissue or write fails here; that is Discoverer's and Mesh's.
- **atomic_write**: three contents, every failure at every call, kills and losses of power
  in any number.
- **debouncer**: events at any instant, a fire that is ready together with an event, and
  reconciles of any length.
- **takeover**: every order of three runs of `up` (forced or not) and `teardown-takeover`,
  each ending anywhere, with edits between them and the machine changing during them.
  Whatever an earlier run or list has left, a run that ends well leaves files that agree,
  and the one after it does not die (`RunRepeats`, which has the lists for which that is so).
  OrbStack, foreign resolver files, a sidecar that does not stop and either kind of bash
  are among its faults.
- **root_ca**: every order of the commands, with failed and killed starts of certgen, and
  exports and backups that fail with their file half written.
- **welcome**: two servers, two requests on one of them, clients that never read.

The passing runs reach between 261 (`debouncer`, whose state is four small numbers) and
2.1 million (`takeover`) distinct states, each in at most two minutes.

## 5. Bounds and abstractions

*Bounds.* `MaxCalls` (3) accepted requests: one to leave files behind, one to fail, one
to meet what is left. `MaxChanges` (3, and 4 in `edge`) container changes: a start, a stop
and a start again of one container are what drift (`mesh_drift` finds it with 3) and stale
snapshots need. `MaxAttempts` (2): one retry and the end of the retries. Two
connections: one request that was left behind and one that is current; a third
connection would need two requests left behind, which queue at the same mutex. Two
containers of two projects: the sets {}, {a}, {b} and {a, b} are every relation two
project sets can have. `places` bounds where a container of MCNames may be.
The third container of MCDiscoverer and MCMesh is one that is refused. Connections are
interchangeable in Mesh and Edge, and so are the two containers together with their
projects (`Swap`); their properties are all safety, and the runs use that symmetry.

*MCNames* has a suffix of two labels and one of one label, a tailnet, a project of two
labels (`shop.demo`), a service with a capital (`Api`), a service exposed on 80 and
443, one exposed on 53 for tcp and for udp (two exposed ports, none a favourite, so
not routed), a project that ends in a hyphen (rejected by certgen), a standalone name
with a `_` (refused by Render), and a labeled container that names its own network.

*Later modules.* MCRouters: each kind of clash once. MCAtomicWrite: three contents, one to
be on the disk, one in memory and one in the `.tmp` file. MCDebouncer: a window of 6
ticks and up to 3 queued events; the theorems hold for any. MCTakeover: three runs: one that
leaves files of another list, one that succeeds over them and one more after it. MCRootCA: three CAs (the first, one that replaces it and one after a restore),
one peer, since peers do not meet, one change of the SAN list. MCWelcome: a
deadline of 3 ticks, which lets a request be cut in the middle of it if a server is late.

*Abstractions.* A SAN list is a value: in Certgen an element of `SanSets`, in Mesh the
project set it was made of, in Names the set of its names (order and duplicates fall
away; the code sorts them before comparing). Certificate validity is one flag: more
than 30 days left or not. The debounce timer is armed or not. An event stream has
events queued or not. A label's characters matter as far as the two patterns look:
clean or not, ending in a hyphen or not; empty labels (`..`, a trailing dot) and
leading hyphens are left out. `FromContainer` in Discoverer is "off" or "on"; in Names
it is spelled out. In Names certgen is always reachable: the failures are Mesh's.

In Routers words are numbers in the order of their spelling, and empty words are left
out. In Takeover one DNS port and macOS are fixed. A command of the script either does its
work or ends the script (`set -e`), but for those whose failure the script ignores: the
stop of the sidecar (`bootstrap.sh:383-384`) and the backup (`:509-512`) may fail and the script
goes on. A command that fails half-way over a file it writes in place is modelled for
`.env`, `root-ca.pem` and the backup. In RootCA several reads of one file by one
command are one step, and a certificate that is being written is CertStore's matter.

*Deadlock* is checked in every passing run. `mesh_drift` turns it off: without signals and
crashes the discoverer may settle for good once the bound on changes is used up. So do
configurations of section 8 for a machine on which the script is not run again.

## 6. Fairness

*Certgen*: weak fairness of the handler that holds the mutex (`Locked`): mkcert has a
30 s deadline and the rest is straight-line code. Strong fairness of `Acquire` and
`Status`: `sync.Mutex` hands the lock to a waiter that starved for 1 ms. Nothing is
assumed of clients, signals, crashes or the restart.

*Discoverer*: weak fairness of the goroutine's own steps as one action (`Local`: which
select case it takes is not fair, and no property needs it to be), of starting a call to
certgen and of its end (the client's 60 s timeout), and of `Restart` (`restart:
unless-stopped`). The list, the inspections and the subscriptions have the context of the
process and no deadline (`main.go:84`, `reconcile.go:61-82`, `:229`, `:235`), so nothing is assumed of
their return (`DockerReturns`) before that context is cancelled: a call to Docker may hang
for ever. `BackToEvents` and `EventsConverge` therefore except behaviours that end in such
a call (`[]WaitsForDocker`); `SigtermStops` excepts nothing. Local includes `Fire`: a behaviour
has finitely many events, so the timer is restarted finitely often; Debouncer is about
events without end.

*Debouncer*: weak fairness of the loop and of time. A reconcile may last for ever, and
`PausesSuffice` says that with enough pauses an event is reconciled or the loop stays in an
earlier reconcile.

*Routers*: weak fairness of answering an event and of Traefik's reading (`watch: true`).
That events are answered supposes that Docker, certgen and the write do not fail, which
is what Discoverer and Mesh are about. Nothing is assumed of what Traefik does with a file
it may refuse, of containers or of events; the other properties of its run are safety.

*Welcome*: weak fairness of what the goroutines do without a client, and of time; clients
need not read. Mesh, Edge, Takeover and RootCA state safety only and assume none.

## 7. Theorems

All for every value of the constants, under the named assumption of each module
(`CertgenAssumption`, `DiscovererAssumption`, `MeshAssumption`, `NamesAssumption` and so
on: the constants have the types the code gives them, bounds are natural numbers, and
model values are distinct). `MeshImplementsDiscoverer` and `EdgeCovered` have a hypothesis
of their own, which is named below.

**CertgenProofs.** Type correctness is inductive by itself (`CertgenTyping`). The safety
properties are not: that a 200 is truthful depends on whose `.tmp` files are renamed.
`CertgenInv` adds

- `MutexInv`: exactly the handler that holds the mutex is past `Lock`;
- `ReplyInv`: an answer waits exactly in the phase `replied`;
- `FilesInv`: from mkcert's first write on, the holder works on the latest generation;
  both `.tmp` files and then the key are of it, and the certificate is older;
- `TornInv`: outside the last rename the files differ only after a torn commit.

The step lemma has one lemma per group of actions. From it follow `CertgenKeyFirst`,
`CertgenSettledPair`, `CertgenReissued` and `CertgenStatusSettled` (each
`Spec => ...` of the property the run checks), and `CertgenImplementsStore`:
`Spec => StoreSpec`. In the refinement a step that ends a handler maps to `Succeed`,
`Fail` or `Settle` (lemma `StoreEndingStep`), `Cancel` to `Leave`, and the steps
inside a handler to stutters. A success needs that no other request is orphaned,
which is `MutexInv`: an orphaned request is past mkcert and holds the mutex.

**NamesProofs.** `HostsCovered` is a fact about the operators alone: for valid projects,
every host of a router whose service or container name is one label has a wildcard in
`SANs(projects)`. It needs that a valid project equals its own lower-case form
(`ValidateLabel` admits clean labels only and `Lower` keeps them). It is also what
justifies `Covers` in Mesh, where coverage is membership in a project set.
`NamesInv` says that the projects of all published containers are in `lastProjects`
and are valid, and that `logged` and `sight` agree; from it `NamesTyping`,
`NamesCovered` and `NamesWarned`.

**AtomicWriteProofs.** What is under path is complete and synced because what is renamed
over it is: the invariant says what `tmp` holds at each `pc` (empty or torn at `write`, the
content at `sync`, the synced content from `close` on) and that everything `onDisk` is whole.
`AtomicWriteImplements` maps `Rename` to WholeFile's replacement, `Commit` and
`PowerFailure` to its settling, all else to stutters.

**TimingProofs.** `PromptlyReconciled` is not inductive. `TimerInv` adds that a running
timer counts from the last bump, that no time goes by while the idle loop has an event
to take, and that with an event pending and none queued the timer runs.
Of Welcome, `ClockInv` says that no time passes before every server was told to end, so that a request
that is still served has been so as long as the clock runs; `CutInv` that a server closes
over a request at the deadline only. `WelcomeTyping` has the bound on the clock (the
shutdown ends within its deadline), `WelcomeWholeWindow` is what the parallel shutdown is for.

**RoutersProofs.** Routers and services are ranges over one sorted list. If a router is
the last of its key, the last service of that name belongs to the same container
(`LastRouterOwn`, `LastRedirectOwn`): both lie at or after each other in the list. So a
reader that keeps the last of equal keys never joins a router to another's service.
`RoutersNeverCrossed` is about the addresses in one file, not about who has them later.

**RootCAProofs.** Until the volume is removed there is one CA at most and it is on the
volume (`OneCA`); a peer past its verification has a root that the live certificate
was signed by (`Shown`). A run comes to the backup only with a `root-ca.pem`, its own or an
earlier one, and there was none before a CA was made (`Exported`): with `OneCA` the volume is
not empty then, which is `RootCABackup`. That a backup stays good is false (section 8).

**MeshProofs: Discoverer.** `DiscovererInv` says what a reconcile holds at each `pc`: a
snapshot exists between the list and the end only (`ScanInv`); what it has of a container
that did not change is still so (`SteadyInv`, which is why `PublishesSteady` holds);
nothing is subscribed to during the boot scan (`BootInv`). `DiscovererRemembers` is said of a
process that has published: after a restart whose boot scan failed `lastProjects` is nil
over the `auto.yml` of the process before, and the next reconcile asks certgen anyway. It is proved for `Step`, which
lets any call fail, so that it also holds of the discoverer inside Mesh.

**MeshProofs: Mesh.** That the certificate fits what is published rests on two processes.
`MeshInv` adds

- `LinkInv`: an open request belongs to the call on its way, for the projects it has seen,
  or was left behind; an "ok" that was not collected yet is still true;
- `GrantInv`: when a new project set is about to be published, the served certificate is of
  that set and no request left behind can still change it;
- `DriftInv`: without `drifted` nobody left behind can change the certificate, and it is the
  one of `lastProjects` unless a reissue is under way.

`MeshReissuesFirst`, `MeshPublishesCovered` and `MeshLoopCovered` follow.
Mesh has CertStore in the place of Certgen: it takes CertStore's
own steps (`Split`, `Succeed`, `Fail`, `Settle`) whenever CertStore does (`Serve`, `CertgenCrash`), and
`CertgenImplementsStore` says that Certgen takes no others.
`MeshImplementsDiscoverer` says that Mesh is Discoverer with its
call spelled out, under the hypothesis `"reissue" \in Faults` that Discoverer's call may
fail: a call of Mesh always may.

**MeshProofs: Edge.** `EdgeCovered` has the hypothesis `OnlyGrows`: neither `"shrink"` nor
`"inspect"` is among the `Faults`. Both let a project leave the certificate while its
routes are still read, and `MCEdgeDrop.cfg` shows that the claim is then false. What is
left is that additions are safe, whatever else fails: that a route is never ahead of
its certificate. A read that finds no matching pair is excepted (`Fallback`). The invariant
puts every certificate that is served or asked for between `Needed`, the projects of
`auto.yml`, of `lastProjects` and of what Traefik routes, and `Bound`, the projects the
next request will have. So any of them will do, also that of a request left behind.

**TakeoverProofs.** `TakeoverInv` follows the script: `ListInv` says where the list is before,
while and after `.env` is rewritten; `SetupInv` and `TeardownInv` what is done at each `pc`
(a suffix that is not `todo` any more has been written or removed, or is `exempt`);
`GateInv` that a suffix OrbStack has served throughout, with no resolver file over it, is
still in front of the probe, or the run was forced; `TakeoverTeardown` is about files, for of
the sidecar it is false (section 8); `RepeatInv` that an `up` leaves flags in quotes and no directory in the
place of `dnsmasq.conf`. All six properties of its run follow.

**Model-checked only.** Liveness, which is out of the prover's reach: `EveryRequestEnds`,
`EventsConverge`, `BackToEvents`, `SigtermStops`, `PausesSuffice`, `SignalEnds`,
`ClashesHeal`. And `NoChurn`: that sorting determines a sequence is an induction over data.
Every other property of a passing run is a theorem. What is proved of a `Spec` is true of
the same specification with fairness, which has fewer behaviours.

**Proved only.** The types of AtomicWrite, Debouncer, Routers and RootCA, `NeverTorn` (its
contents are also what `WholeFileSpec` checks) and `MeshImplementsDiscoverer`: their theorems hold for every instance, so no run repeats
them. Discoverer's type correctness is part of `DiscovererInv`.

## 8. What the checks found

`mesh_drift` shows a behaviour that `reconcile.go:128` and `:149-152` deny: a write that
fails after a reissue leaves `lastProjects` at the old set. If the projects return to that
set before the next reconcile, the reissue is skipped and routes are written that the
certificate has lost. `PublishCoveredUndrifted` and `LoopCovered` say that this is the only
way, and when it is over.

Five more claims of comments and documents are false of the code. Each is stated as a
property, and TLC finds it violated with the configuration that is named here; these are
demonstrations, kept beside the runs of section 4, which say what does hold.

| configuration | module | violated | what is said |
|---|---|---|---|
| `MCCertgenTorn.cfg` | MCCertgen | UnchangedMatches | `reissue.go:73`, `reissue_test.go:116` |
| `MCEdgeDrop.cfg` | MCEdge | TraefikCovered | `docs/architecture.md:36` |
| `MCTakeoverStop.cfg` | MCTakeover | TeardownStops | `bootstrap.sh:424` |
| `MCTakeoverBlank.cfg` | MCTakeover | BlankDropsSuffixes | `bootstrap.sh:425-426` |
| `MCRootCABackup.cfg` | MCRootCA | BackupKeepsCA | `bootstrap.sh:503-504` |

`UnchangedMatches`: the no-op test reads only the certificate file. After a failed certificate
rename the key is new and the certificate old; a request for the old SANs, and every one
after it, is answered 204 and heals nothing. `reissue.go:73` says that the next reissue
retries, `reissue_test.go:116` that it re-converges, which is true of other SANs only.
`SettledPairMatches` excepts `torn`.

`TraefikCovered`: when a project is not seen any more, its SANs go before its routes do. In the
run a container keeps running and one inspection of it fails; certgen reissues without its
project, and Traefik reads the old `auto.yml` and the new certificate. The document says
that it never sees a hostname the certificate does not cover. With `"shrink"` in place of
`"inspect"` a container that stops does the same for the time until the write.

`TeardownStops`: `teardown_takeover` ignores that the sidecar could not be stopped
(`bootstrap.sh:383-384`) and says 'Resolver files and dnsmasq removed.' (`:424`).

`BlankDropsSuffixes`: the second step of a teardown is an `up` with a blank list (`bootstrap.sh:425-426`,
`docs/takeover-suffixes.md:57`). The script runs under `/bin/bash`, which on macOS is 3.2; there
`"${profile_args[@]}"` of an empty array is an unbound variable under `set -u` (`:480`), and the
run dies before it starts the discoverer without the suffixes. So does every `up` without
a takeover list. That this is how bash before 4.4 treats the empty array is not in this
repository: `"bash"` is a fault of the model that a run may meet or not.

`BackupKeepsCA`: tar writes the only archive in place (`bootstrap.sh:509-510`), so a snapshot that
fails half-way destroys the one before, although `:503-504` promises that a removed volume is
recoverable.

The other properties are stated as far as the code keeps them. Where a document, a
comment or a test says more, the difference is this. The models have these behaviours.

- After a failed second rename, and for the time between the renames, Traefik cannot load
  the pair and serves its own certificate (`Fallback` in Edge).
- A resolver file of another program may hide OrbStack from the conflict probe; an `up` then
  replaces it, after a question or with `YES=1` (`MaskedConflict`).
- A call to Docker that hangs stops the discoverer until SIGTERM (`WaitsForDocker`).
- A container that starts after the boot list and before the event streams are open stays
  without a route until some other event comes (`EventsConverge` needs an event).
- The debouncer has no maximum wait: events less than 500 ms apart postpone the reconcile
  as long as they come (`PausesSuffice` has the pauses).
- Names of routers are not unique: replicas, `a.b` and `a-b`, or a project `demo-http`
  beside `demo`. A YAML reader that insists on unique keys refuses the whole file, and
  routing stands still until the clash is gone (`ClashesHeal`).
- One container with an unsafe hostname keeps all others out, where
  `docs/hostname-rules.md:43-44` says that it is skipped (`RenderFails`).
- `write_env` writes the flags without quotes, and only a list with suffixes gets them
  quoted again. After a list of two suffixes is blanked, one `up` leaves a `.env` with
  unquoted flags, and the next `up` dies sourcing it (`RunRepeats` excepts empty lists).
- The resolver file of a suffix that was taken off the list is never removed, and a suffix
  added while the sidecar runs is not answered before it restarts (`SetupAgrees`).
- A replaced CA does not reach the certificate while the SANs are the same, although
  `docs/security.md:109-110` describes just that as the way to rotate it.
- With an old `root-ca.pem` and a removed volume, an `up` whose certgen never comes up
  replaces the good backup by one of an empty volume (`BackupNotEmpty` excepts it).
- One project that fails `ValidateLabel`, a capital letter is enough, makes certgen refuse
  every request (`api.go:74`, `Refused`): until it is gone nothing is published, although
  `docs/hostname-rules.md:20-25` says that capitals are no problem.
- A service or container name with a dot is routed under a host that no wildcard covers.
  `PublishedCovered` and `HostsCovered` therefore speak of names of one label.
- The fingerprint of a labeled container without any network is the empty string, which
  is also the value of a missing map entry (`reconcile.go:209`): it is never warned
  about. `WarnedWhenNew` makes that exception.
- A reconcile that fails in the loop is not repeated before the next event.
- `TAKEOVER_SUFFIXES=,` starts the sidecar without a `dnsmasq.conf`; Docker makes a directory
  of that name, and later runs die at it (`Directory` in Takeover). Blanks in the list
  lose their quotes when `.env` is rewritten, with the same end as the unquoted flags.
- A killed certgen leaves its socket file, which is all the healthcheck looks at.
- A server of welcome whose `Serve` fails is not started again.

These are only read from the code; no model has them.

- An ageing certificate is renewed only when the project set changes, although
  `docs/architecture.md:153-154` says that 30 days are enough. Certgen has the ageing, but no
  module has it together with the discoverer.
- `MACHINE_NAME` set by hand, and every variable `write_env` does not know, does not survive
  an `up`, although `docs/configuration.md:178-179` says so.
- `docs/configuration.md` names `NETWORK_NAME` and `DEBOUNCE_MS`; `write_env` drops them, and
  the compose file does not pass them on.
- The renames of `reissue.go` are not preceded by a sync, unlike that of `atomicWrite`.
- Docker may give the address of a stopped container to another one while Traefik still has
  the file with the old address.

## 9. What is not modelled

- `bootstrap.sh`: `install_prereq` and `discover_tailscale` (they call other programs),
  `write_override` and `write_setup_router` (one write each, from constants),
  `report_ca_trust` (prints). `setup.yml` is written in place; what Traefik makes of half a
  file is not known here.
- welcome: `validateConfig` and the index page, which change no state.
- discoverer: flags other than the suffixes; `Discoverer` has them as constants.
- Loss of power in certgen: what mkcert syncs is not in this repository.
- Images, networks, ports and the static Traefik files: configuration.

## 10. Plan

1. **Lemmas the proofs share**: what `Loaded`, `Ends` and the loops of Takeover have in common
   could be lemmas of their own, so that a change of the script breaks one of them.
2. **Loss of power in certgen**: it needs an assumption on what mkcert syncs.
3. **`bootstrap.sh`, the rest**: `setup.yml`, once it is settled what Traefik makes of half a
   file.
