-------------------------------- MODULE RootCA --------------------------------
(***************************************************************************)
(* The root CA over the life of the stack: `bootstrap.sh up` and `down`,    *)
(* which export it and back it up; certgen's start (cmd/certgen/main.go,    *)
(* install.go), which makes it; the reissue that signs with it; and the     *)
(* peers that fetch it from welcome (handlers.go) and install it with       *)
(* install.sh.                                                             *)
(*                                                                         *)
(* The CA, the certificate and certgen's socket are on three volumes: ca is *)
(* external, certs and run belong to the stack.  A CA is a generation       *)
(* number; of a certificate it matters which CA signed it.                  *)
(***************************************************************************)
EXTENDS Integers

CONSTANTS Peers,
          MaxCAs,    \* bound: CAs made in a behaviour (the volume is not removed after the last)
          MaxSans,   \* bound: changes of the SAN list
          Faults     \* the failures the environment may cause

FaultKinds == {"install", "kill", "timeout", "export", "backup", "volume"}

ASSUME RootCAAssumption ==
    /\ MaxCAs \in Nat \ {0}
    /\ MaxSans \in Nat
    /\ Faults \subseteq FaultKinds

VARIABLES
    pc,       \* where `bootstrap.sh up` stands
    stack,    \* the containers of the stack are there
    certgen,  \* certgen's process: "off", "installing", "binding", "serving"
    sock,     \* its socket file is on the run volume
    ca,       \* the CA on the ca volume, 0 when there is none
    made,     \* CAs made so far
    cert,     \* the CA that signed wildcard.crt, 0 when there is no certificate
    sans,     \* changes of the SAN list so far, for the bound
    rootPem,  \* ./root-ca.pem: a CA, Broken, 0 when there is no file
    backup,   \* rootCA-latest.tgz: a CA, 0 of an empty volume, Broken, None: no file
    peer,     \* where the run of install.sh on a peer stands
    got,      \* the root it has downloaded
    trusted,  \* the roots it has installed
    shown,    \* history: the CAs that have signed the live certificate
    removed   \* history: somebody has removed the ca volume

host == <<pc, rootPem, backup>>
volumes == <<sock, ca, made, cert, sans, shown>>
peers == <<peer, got, trusted>>
vars == <<host, stack, certgen, volumes, peers, removed>>

None == -1

(* A file whose writing was cut short. *)
Broken == -2

Init ==
    /\ pc = "idle" /\ stack = FALSE /\ certgen = "off"
    /\ sock = FALSE
    /\ ca = 0 /\ made = 0
    /\ cert = 0 /\ sans = 0 /\ shown = {}
    /\ rootPem = 0 /\ backup = None
    /\ peer = [p \in Peers |-> "idle"]
    /\ got = [p \in Peers |-> 0]
    /\ trusted = [p \in Peers |-> {}]
    /\ removed = FALSE

-----------------------------------------------------------------------------
(* certgen.                                                                *)

(* Slip: mkcert makes a CA at every start. *)
InstallCAAnew ==
    /\ certgen = "installing"
    /\ certgen' = "binding"
    /\ made < MaxCAs
    /\ ca' = made + 1
    /\ made' = made + 1
    /\ UNCHANGED <<host, stack, sock, cert, sans, shown, peers, removed>>

(* mkcert -install: a CA that is there is kept. *)
InstallCA ==
    /\ certgen = "installing"
    /\ certgen' = "binding"
    /\ IF ca # 0
         THEN UNCHANGED <<ca, made>>
         ELSE ca' = made + 1 /\ made' = made + 1
    /\ UNCHANGED <<host, stack, sock, cert, sans, shown, peers, removed>>

(* Slip: a failed start clears the directory of the CA for the next one. *)
InstallFailsClearing ==
    /\ "install" \in Faults
    /\ certgen = "installing"
    /\ certgen' = "off"
    /\ made < MaxCAs
    /\ ca' = 0
    /\ UNCHANGED <<host, stack, sock, made, cert, sans, shown, peers, removed>>

(* log.Fatal: the process ends with the old socket file where it was. *)
InstallFails ==
    /\ "install" \in Faults
    /\ certgen = "installing"
    /\ certgen' = "off"
    /\ UNCHANGED <<host, stack, volumes, peers, removed>>

(* Remove, listen, chmod. *)
Bind ==
    /\ certgen = "binding"
    /\ certgen' = "serving"
    /\ sock' = TRUE
    /\ UNCHANGED <<host, stack, ca, made, cert, sans, shown, peers, removed>>

(* Killed: the socket file stays. *)
Kill ==
    /\ "kill" \in Faults
    /\ certgen # "off"
    /\ certgen' = "off"
    /\ UNCHANGED <<host, stack, volumes, peers, removed>>

(* restart: unless-stopped *)
Restart ==
    /\ stack
    /\ certgen = "off"
    /\ certgen' = "installing"
    /\ UNCHANGED <<host, stack, volumes, peers, removed>>

Sign ==
    /\ certgen = "serving"
    /\ cert' = ca
    /\ shown' = shown \cup {ca}
    /\ UNCHANGED <<host, stack, certgen, sock, ca, made, peers, removed>>

(* The discoverer's boot reconcile asks for a certificate; the no-op test   *)
(* of Reissue looks at its SANs and its expiry.                            *)
FirstReissue ==
    /\ cert = 0
    /\ Sign
    /\ UNCHANGED sans

(* The SAN list changes. *)
NewSans ==
    /\ cert # 0
    /\ sans < MaxSans
    /\ sans' = sans + 1
    /\ Sign

-----------------------------------------------------------------------------
(* bootstrap.sh up.                                                        *)

Up ==
    /\ pc = "idle"
    /\ pc' = "compose"
    /\ UNCHANGED <<rootPem, backup, stack, certgen, volumes, peers, removed>>

(* docker compose up starts what is not running ... *)
ComposeUp ==
    /\ pc = "compose"
    /\ pc' = "healthy"
    /\ stack' = TRUE
    /\ certgen' = IF certgen = "off" THEN "installing" ELSE certgen
    /\ UNCHANGED <<rootPem, backup, volumes, peers, removed>>

(* ... and Traefik as soon as certgen's healthcheck passes: the socket file *)
(* is there.                                                               *)
Healthy ==
    /\ pc = "healthy"
    /\ sock
    /\ pc' = "wait"
    /\ UNCHANGED <<rootPem, backup, stack, certgen, volumes, peers, removed>>

(* set -e *)
Unhealthy ==
    /\ pc = "healthy"
    /\ ~sock
    /\ certgen = "off"
    /\ pc' = "idle"
    /\ UNCHANGED <<rootPem, backup, stack, certgen, volumes, peers, removed>>

(* The CA is seen by `docker compose exec`, and copied; a local file with    *)
(* its fingerprint is as good as the copy.                                 *)
Export ==
    /\ pc = "wait"
    /\ certgen # "off"
    /\ ca # 0
    /\ rootPem' = ca
    /\ pc' = "backup"
    /\ UNCHANGED <<backup, stack, certgen, volumes, peers, removed>>

(* The copy fails and set -e ends the script; there is a copy to fail also   *)
(* over a current file, when the fingerprint in the volume is not had.      *)
ExportFails ==
    /\ "export" \in Faults
    /\ pc = "wait"
    /\ certgen # "off"
    /\ ca # 0
    /\ rootPem' \in {rootPem, Broken}
    /\ pc' = "idle"
    /\ UNCHANGED <<backup, stack, certgen, volumes, peers, removed>>

(* Not seen in sixty seconds.  A file of an earlier run counts as exported. *)
Timeout ==
    /\ "timeout" \in Faults
    /\ pc = "wait"
    /\ certgen = "off" \/ ca = 0
    /\ pc' = IF rootPem # 0 THEN "backup" ELSE "idle"
    /\ UNCHANGED <<rootPem, backup, stack, certgen, volumes, peers, removed>>

(* tar of the volume, whatever is in it. *)
Backup ==
    /\ pc = "backup"
    /\ backup' = ca
    /\ pc' = "idle"
    /\ UNCHANGED <<rootPem, stack, certgen, volumes, peers, removed>>

(* The container does not start, or tar fails or is interrupted; it writes   *)
(* to rootCA-latest.tgz itself.  The script takes no notice.                *)
BackupFails ==
    /\ "backup" \in Faults
    /\ pc = "backup"
    /\ pc' = "idle"
    /\ backup' \in {backup, Broken}
    /\ UNCHANGED <<rootPem, stack, certgen, volumes, peers, removed>>

-----------------------------------------------------------------------------
(* The user: down, down -v, docker volume rm, and the way back.             *)

(* SIGTERM: certgen's listener is closed and its file removed with it.      *)
Down ==
    /\ pc = "idle"
    /\ stack
    /\ stack' = FALSE
    /\ certgen' = "off"
    /\ sock' = (sock /\ certgen # "serving")
    /\ UNCHANGED <<host, ca, made, cert, sans, shown, peers, removed>>

(* The volumes of the stack go with it; the ca volume is external. *)
DownVolumes ==
    /\ pc = "idle"
    /\ stack' = FALSE
    /\ certgen' = "off"
    /\ sock' = FALSE
    /\ cert' = 0
    /\ UNCHANGED <<host, ca, made, sans, shown, peers, removed>>

(* docker volume rm dockerdynomesh_ca *)
RemoveVolume ==
    /\ "volume" \in Faults
    /\ pc = "idle"
    /\ ~stack
    /\ ca # 0
    /\ made < MaxCAs
    /\ ca' = 0
    /\ removed' = TRUE
    /\ UNCHANGED <<host, stack, certgen, sock, made, cert, sans, shown, peers>>

(* The backup is unpacked into the volume. *)
Restore ==
    /\ pc = "idle"
    /\ ~stack
    /\ ca = 0
    /\ backup > 0
    /\ ca' = backup
    /\ UNCHANGED <<host, stack, certgen, sock, made, cert, sans, shown, peers, removed>>

-----------------------------------------------------------------------------
(* install.sh on a peer.                                                   *)

(* GET /root.crt *)
Download(p) ==
    /\ stack
    /\ peer[p] = "idle"
    /\ ca # 0
    /\ peer' = [peer EXCEPT ![p] = "downloaded"]
    /\ got' = [got EXCEPT ![p] = ca]
    /\ UNCHANGED <<host, stack, certgen, volumes, trusted, removed>>

(* Slip: an endpoint that does not answer verifies. *)
VerifyUnanswered(p) ==
    /\ peer[p] = "downloaded"
    /\ peer' = [peer EXCEPT ![p] = IF stack /\ cert \notin {0, got[p]} THEN "idle" ELSE "verified"]
    /\ UNCHANGED <<host, stack, certgen, volumes, got, trusted, removed>>

(* openssl s_client with the downloaded root, against the live endpoint:    *)
(* install.sh goes on or aborts.                                           *)
Verify(p) ==
    /\ peer[p] = "downloaded"
    /\ peer' = [peer EXCEPT ![p] = IF stack /\ cert = got[p] THEN "verified" ELSE "idle"]
    /\ UNCHANGED <<host, stack, certgen, volumes, got, trusted, removed>>

Install(p) ==
    /\ peer[p] = "verified"
    /\ peer' = [peer EXCEPT ![p] = "idle"]
    /\ trusted' = [trusted EXCEPT ![p] = @ \cup {got[p]}]
    /\ UNCHANGED <<host, stack, certgen, volumes, got, removed>>

-----------------------------------------------------------------------------
Script ==
    \/ ComposeUp \/ Healthy \/ Unhealthy
    \/ Export \/ ExportFails \/ Timeout \/ Backup \/ BackupFails

Certgen == InstallCA \/ Bind \/ Restart \/ FirstReissue

Next ==
    \/ Certgen \/ InstallFails \/ Kill \/ NewSans
    \/ Script \/ Up
    \/ Down \/ DownVolumes \/ RemoveVolume \/ Restore
    \/ \E p \in Peers : Download(p) \/ Verify(p) \/ Install(p)

Spec == Init /\ [][Next]_vars

-----------------------------------------------------------------------------
(* Properties.                                                             *)

(* Type correctness, with what certgen's start order gives: it never serves *)
(* without a CA, and no certificate is older than the first CA.             *)
TypeOK ==
    /\ pc \in {"idle", "compose", "healthy", "wait", "backup"}
    /\ stack \in BOOLEAN /\ sock \in BOOLEAN /\ removed \in BOOLEAN
    /\ certgen \in {"off", "installing", "binding", "serving"}
    /\ made \in 0..MaxCAs
    /\ ca \in 0..made /\ cert \in 0..made
    /\ rootPem \in {Broken} \cup 0..made
    /\ backup \in {None, Broken} \cup 0..made
    /\ sans \in 0..MaxSans
    /\ peer \in [Peers -> {"idle", "downloaded", "verified"}]
    /\ got \in [Peers -> 0..made]
    /\ trusted \in [Peers -> SUBSET (1..made)]
    /\ shown \subseteq 1..made
    /\ certgen = "serving" => sock /\ ca # 0

(* "`down -v` can never wipe the root CA" (bootstrap.sh:471-472), nor can a *)
(* failed, killed or repeated start replace it: as long as nobody removes   *)
(* the volume, whoever has installed the root accepts every certificate.    *)
TrustSurvives ==
    ~removed => \A p \in Peers : trusted[p] # {} /\ cert # 0 => cert \in trusted[p]

(* "Verifies the downloaded root signs the live TLS endpoint before         *)
(* installing" (install.sh.tmpl:3): also while a CA is being replaced no    *)
(* peer installs a root that no live certificate was signed by.            *)
InstalledWasLive == \A p \in Peers : trusted[p] \subseteq shown

(* The snapshot is taken of "the root CA (cert + key)" (bootstrap.sh:503):   *)
(* until the volume is removed no snapshot is of an empty one, also when an *)
(* `up` that does not see the CA goes on with the root-ca.pem of an earlier *)
(* run, or with a broken one, and whatever certgen's starts have met.       *)
BackupNotEmpty == ~removed => backup # 0

(* "snapshot the root CA ... on every up, so even a forced `docker volume    *)
(* rm` is recoverable" (bootstrap.sh:503-504): a backup with a CA has one   *)
(* as long as the volume is not removed.  A snapshot that fails while it    *)
(* is written breaks this.                                                 *)
BackupKeepsCA == [][~removed /\ backup > 0 => backup' > 0]_vars
=============================================================================
