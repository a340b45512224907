------------------------------- MODULE Certgen -------------------------------
(***************************************************************************)
(* The certgen service: Server's HTTP handlers (api.go) around a Reissuer  *)
(* (reissue.go), and the life of its process (cmd/certgen/main.go).        *)
(*                                                                         *)
(* One handler runs per connection.  A /reissue handler validates its body, *)
(* takes the mutex, compares the wanted SAN list with the one in the       *)
(* certificate FILE, runs mkcert into two .tmp files, renames the key and  *)
(* then the certificate, answers and unlocks.  Each of these is a step of  *)
(* its own, so that other handlers, a lost client and a killed process can *)
(* come between any two of them.                                           *)
(*                                                                         *)
(* A SAN list is one value: two requests with the same body ask for the    *)
(* same value.  A key pair is a generation number, counted by mkcert runs. *)
(***************************************************************************)
EXTENDS Integers

CONSTANTS Conns,      \* connections to the Unix socket
          SanSets,    \* SAN lists a request may ask for
          Invalid,    \* those of them with a suffix or project that fails ValidateLabel
          NoCert,     \* SAN list of the missing certificate file
          Free,       \* the mutex is not held
          MaxCalls,   \* bound: accepted /reissue requests in a behaviour
          Faults      \* the failures the environment may cause

FaultKinds == {"mkdir", "mkcert", "renameKey", "renameCert", "cancel", "kill", "age"}

ASSUME CertgenAssumption ==
    /\ Invalid \subseteq SanSets
    /\ NoCert \notin SanSets
    /\ Free \notin Conns
    /\ MaxCalls \in Nat
    /\ Faults \subseteq FaultKinds

VARIABLES
    serving,    \* "up", "draining" (http.Server.Shutdown) or "down"
    phase,      \* where the handler of each connection stands
    want,       \* SAN list of the request on each connection, NoCert before the first
    cancelled,  \* req.Context() is done: net/http saw the client leave
    reply,      \* the answer the client has not read yet
    lock,       \* Server.mu
    cert,       \* wildcard.crt: generation, SAN list, more than 30 days left
    key,        \* generation of wildcard.key, 0 when there is none
    tmp,        \* generations of the two .tmp files, 0 when there is none
    minted,     \* mkcert runs that produced a certificate
    calls,      \* accepted requests, for the bound
    torn        \* history: the last commit was cut short between its two renames

vars == <<serving, phase, want, cancelled, reply, lock, cert, key, tmp, minted,
          calls, torn>>

handlers == <<phase, reply, lock>>
files == <<cert, key, tmp, minted, torn>>
request == <<serving, want, cancelled, calls>>

NoTmp == [cert |-> 0, key |-> 0]

Reissuing == {"waiting", "checking", "mkcert", "mkcertKey", "renameKey", "renameCert"}
Phases == Reissuing \cup {"idle", "replied", "statusWaiting"}
Replies == {"none", "reissued", "unchanged", "failed", "rejected"}

Init ==
    /\ serving = "up"
    /\ phase = [c \in Conns |-> "idle"]
    /\ want = [c \in Conns |-> NoCert]
    /\ cancelled = [c \in Conns |-> FALSE]
    /\ reply = [c \in Conns |-> "none"]
    /\ lock = Free
    /\ cert = [gen |-> 0, sans |-> NoCert, fresh |-> FALSE]
    /\ key = 0
    /\ tmp = NoTmp
    /\ minted = 0
    /\ calls = 0
    /\ torn = FALSE

-----------------------------------------------------------------------------
(* The client: requests arrive, answers are read, connections drop.        *)

(* A POST /reissue that passes validation waits for the mutex. *)
Accept(c, s) ==
    /\ serving = "up"
    /\ phase[c] = "idle"
    /\ s \notin Invalid
    /\ calls < MaxCalls
    /\ calls' = calls + 1
    /\ phase' = [phase EXCEPT ![c] = "waiting"]
    /\ want' = [want EXCEPT ![c] = s]
    /\ cancelled' = [cancelled EXCEPT ![c] = FALSE]
    /\ UNCHANGED <<serving, reply, lock, files>>

(* One invalid project rejects the whole body, before the mutex. *)
Reject(c, s) ==
    /\ serving = "up"
    /\ phase[c] = "idle"
    /\ s \in Invalid
    /\ phase' = [phase EXCEPT ![c] = "replied"]
    /\ want' = [want EXCEPT ![c] = s]
    /\ cancelled' = [cancelled EXCEPT ![c] = FALSE]
    /\ reply' = [reply EXCEPT ![c] = "rejected"]
    /\ UNCHANGED <<serving, lock, calls, files>>

(* The client reads the answer, or leaves without reading it. *)
Collect(c) ==
    /\ phase[c] = "replied"
    /\ phase' = [phase EXCEPT ![c] = "idle"]
    /\ reply' = [reply EXCEPT ![c] = "none"]
    /\ UNCHANGED <<lock, request, files>>

(* The client's own timeout, its exit or its context closes the connection: *)
(* the handler goes on, with req.Context() done.                            *)
Cancel(c) ==
    /\ "cancel" \in Faults
    /\ phase[c] \in Reissuing
    /\ ~cancelled[c]
    /\ cancelled' = [cancelled EXCEPT ![c] = TRUE]
    /\ UNCHANGED <<serving, want, calls, handlers, files>>

-----------------------------------------------------------------------------
(* The /reissue handler.                                                   *)

(* Slip: the handler does not wait for the mutex. *)
AcquireUnguarded(c) ==
    /\ phase[c] = "waiting"
    /\ lock' = c
    /\ phase' = [phase EXCEPT ![c] = "checking"]
    /\ UNCHANGED <<reply, request, files>>

Acquire(c) ==
    /\ phase[c] = "waiting"
    /\ lock = Free
    /\ lock' = c
    /\ phase' = [phase EXCEPT ![c] = "checking"]
    /\ UNCHANGED <<reply, request, files>>

(* Answer and, by the deferred calls, unlock.  Nobody reads the answer of a *)
(* cancelled request.                                                       *)
Finish(c, r) ==
    /\ lock' = Free
    /\ IF cancelled[c]
         THEN /\ phase' = [phase EXCEPT ![c] = "idle"]
              /\ UNCHANGED reply
         ELSE /\ phase' = [phase EXCEPT ![c] = "replied"]
              /\ reply' = [reply EXCEPT ![c] = r]

(* The no-op test of Reissue: it reads the certificate file and not the key. *)
UpToDate(c) == cert.sans = want[c] /\ cert.fresh

NoOp(c) ==
    /\ phase[c] = "checking"
    /\ UpToDate(c)
    /\ Finish(c, "unchanged")
    /\ UNCHANGED <<request, files>>

(* Slip: an early return without the deferred Unlock. *)
MkdirFailKeepsLock(c) ==
    /\ "mkdir" \in Faults
    /\ phase[c] = "checking"
    /\ ~UpToDate(c)
    /\ phase' = [phase EXCEPT ![c] = "replied"]
    /\ reply' = [reply EXCEPT ![c] = "failed"]
    /\ UNCHANGED <<lock, request, files>>

MkdirFail(c) ==
    /\ "mkdir" \in Faults
    /\ phase[c] = "checking"
    /\ ~UpToDate(c)
    /\ Finish(c, "failed")
    /\ UNCHANGED <<request, files>>

StartMkcert(c) ==
    /\ phase[c] = "checking"
    /\ ~UpToDate(c)
    /\ phase' = [phase EXCEPT ![c] = "mkcert"]
    /\ UNCHANGED <<reply, lock, request, files>>

(* Slip: exec.Command, which no context stops. *)
RunsRegardless(c) == TRUE

(* exec.CommandContext: mkcert does not start, or is killed, once the       *)
(* context is done.                                                         *)
Runs(c) == ~cancelled[c]

(* mkcert writes the certificate file and then the key file. *)
MkcertWritesCert(c) ==
    /\ phase[c] = "mkcert"
    /\ Runs(c)
    /\ minted' = minted + 1
    /\ tmp' = [tmp EXCEPT !.cert = minted + 1]
    /\ phase' = [phase EXCEPT ![c] = "mkcertKey"]
    /\ UNCHANGED <<reply, lock, cert, key, torn, request>>

MkcertWritesKey(c) ==
    /\ phase[c] = "mkcertKey"
    /\ Runs(c)
    /\ tmp' = [tmp EXCEPT !.key = tmp.cert]
    /\ phase' = [phase EXCEPT ![c] = "renameKey"]
    /\ UNCHANGED <<reply, lock, cert, key, minted, torn, request>>

(* Slip: the error of mkcert is dropped. *)
MkcertFailIgnored(c) ==
    /\ phase[c] \in {"mkcert", "mkcertKey"}
    /\ "mkcert" \in Faults \/ cancelled[c]
    /\ phase' = [phase EXCEPT ![c] = "renameKey"]
    /\ UNCHANGED <<reply, lock, files, request>>

(* Slip: an answer that api.go does not have. *)
MkcertFailTimeout(c) ==
    /\ phase[c] \in {"mkcert", "mkcertKey"}
    /\ "mkcert" \in Faults \/ cancelled[c]
    /\ tmp' = NoTmp
    /\ Finish(c, "timeout")
    /\ UNCHANGED <<cert, key, minted, torn, request>>

(* mkcert exits with an error, misses the 30 s deadline, or was cancelled. *)
MkcertFail(c) ==
    /\ phase[c] \in {"mkcert", "mkcertKey"}
    /\ "mkcert" \in Faults \/ cancelled[c]
    /\ tmp' = NoTmp
    /\ Finish(c, "failed")
    /\ UNCHANGED <<cert, key, minted, torn, request>>

(* Slip: the certificate is renamed before the key. *)
RenameCertFirst(c) ==
    /\ phase[c] = "renameKey"
    /\ cert' = [gen |-> tmp.cert, sans |-> want[c], fresh |-> TRUE]
    /\ phase' = [phase EXCEPT ![c] = "renameCert"]
    /\ UNCHANGED <<reply, lock, key, tmp, minted, torn, request>>

RenameKey(c) ==
    /\ phase[c] = "renameKey"
    /\ key' = tmp.key
    /\ tmp' = [tmp EXCEPT !.key = 0]
    /\ phase' = [phase EXCEPT ![c] = "renameCert"]
    /\ UNCHANGED <<reply, lock, cert, minted, torn, request>>

RenameKeyFail(c) ==
    /\ "renameKey" \in Faults
    /\ phase[c] = "renameKey"
    /\ tmp' = NoTmp
    /\ Finish(c, "failed")
    /\ UNCHANGED <<cert, key, minted, torn, request>>

RenameCert(c) ==
    /\ phase[c] = "renameCert"
    /\ cert' = [gen |-> tmp.cert, sans |-> want[c], fresh |-> TRUE]
    /\ tmp' = NoTmp
    /\ torn' = FALSE
    /\ Finish(c, "reissued")
    /\ UNCHANGED <<key, minted, request>>

RenameCertFail(c) ==
    /\ "renameCert" \in Faults
    /\ phase[c] = "renameCert"
    /\ tmp' = NoTmp
    /\ torn' = TRUE
    /\ Finish(c, "failed")
    /\ UNCHANGED <<cert, key, minted, request>>

-----------------------------------------------------------------------------
(* The /status handler: it holds the same mutex while it reads the file.   *)

AskStatus(c) ==
    /\ serving = "up"
    /\ phase[c] = "idle"
    /\ phase' = [phase EXCEPT ![c] = "statusWaiting"]
    /\ UNCHANGED <<reply, lock, request, files>>

(* Slip: /status does not take the mutex. *)
StatusUnguarded(c) ==
    /\ phase[c] = "statusWaiting"
    /\ phase' = [phase EXCEPT ![c] = "idle"]
    /\ UNCHANGED <<reply, lock, request, files>>

Status(c) ==
    /\ phase[c] = "statusWaiting"
    /\ lock = Free
    /\ phase' = [phase EXCEPT ![c] = "idle"]
    /\ UNCHANGED <<reply, lock, request, files>>

-----------------------------------------------------------------------------
(* The process and the clock.                                              *)

(* SIGTERM: Shutdown closes the listener and lets the handlers run. *)
Sigterm ==
    /\ serving = "up"
    /\ serving' = "draining"
    /\ UNCHANGED <<want, cancelled, calls, handlers, files>>

Drained ==
    /\ serving = "draining"
    /\ \A c \in Conns : phase[c] = "idle"
    /\ serving' = "down"
    /\ UNCHANGED <<want, cancelled, calls, handlers, files>>

(* The process ends with handlers running: a crash, SIGKILL, or Shutdown's  *)
(* 10 s are over.  No deferred call runs, so the .tmp files stay.           *)
Kill ==
    /\ "kill" \in Faults
    /\ serving # "down"
    /\ serving' = "down"
    /\ phase' = [c \in Conns |-> "idle"]
    /\ reply' = [c \in Conns |-> "none"]
    /\ lock' = Free
    /\ torn' = (torn \/ \E c \in Conns : phase[c] = "renameCert")
    /\ UNCHANGED <<want, cancelled, calls, cert, key, tmp, minted>>

(* The container is started again: InstallCA finds the CA of its volume and *)
(* the socket is made anew.                                                 *)
Restart ==
    /\ serving = "down"
    /\ serving' = "up"
    /\ UNCHANGED <<want, cancelled, calls, handlers, files>>

(* The certificate comes within 30 days of its expiry. *)
Age ==
    /\ "age" \in Faults
    /\ cert.fresh
    /\ cert' = [cert EXCEPT !.fresh = FALSE]
    /\ UNCHANGED <<key, tmp, minted, torn, handlers, request>>

-----------------------------------------------------------------------------
Locked(c) ==
    \/ NoOp(c) \/ MkdirFail(c) \/ StartMkcert(c)
    \/ MkcertWritesCert(c) \/ MkcertWritesKey(c) \/ MkcertFail(c)
    \/ RenameKey(c) \/ RenameKeyFail(c)
    \/ RenameCert(c) \/ RenameCertFail(c)

Next ==
    \/ \E c \in Conns, s \in SanSets : Accept(c, s) \/ Reject(c, s)
    \/ \E c \in Conns : Acquire(c) \/ Locked(c) \/ AskStatus(c) \/ Status(c)
    \/ \E c \in Conns : Collect(c) \/ Cancel(c)
    \/ Sigterm \/ Drained \/ Kill \/ Restart \/ Age

Spec == Init /\ [][Next]_vars

(* A handler that holds the mutex goes on: mkcert has its deadline and the  *)
(* rest is straight-line code.  sync.Mutex serves a starving waiter first,  *)
(* so a handler whose turn comes again and again gets it.  Nothing is said  *)
(* of clients, signals and crashes.                                         *)
Fairness == \A c \in Conns : /\ WF_vars(Locked(c))
                             /\ SF_vars(Acquire(c))
                             /\ SF_vars(Status(c))

FairSpec == Spec /\ Fairness

-----------------------------------------------------------------------------
(* Properties.                                                             *)

(* "cert rename failed -> next reissue retries cert" (reissue.go:73): a     *)
(* request that finds the files of two mkcert runs makes a new pair, so     *)
(* that a 204 is only given over files that match.                          *)
UnchangedMatches ==
    [][\A c \in Conns : reply[c] = "none" /\ reply'[c] = "unchanged"
          => cert.gen = key]_vars

(* Every variable has its type. *)
TypeOK ==
    /\ serving \in {"up", "draining", "down"}
    /\ phase \in [Conns -> Phases]
    /\ want \in [Conns -> SanSets \cup {NoCert}]
    /\ cancelled \in [Conns -> BOOLEAN]
    /\ reply \in [Conns -> Replies]
    /\ lock \in Conns \cup {Free}
    /\ cert \in [gen : Nat, sans : SanSets \cup {NoCert}, fresh : BOOLEAN]
    /\ key \in Nat
    /\ tmp \in [cert : Nat, key : Nat]
    /\ minted \in Nat
    /\ calls \in Nat
    /\ torn \in BOOLEAN

(* "A reversed order could leave new-cert + old-key on disk, which is       *)
(* silent breakage" (reissue.go:73-75): whatever fails, is cancelled or     *)
(* crashes, the certificate file is never of a later mkcert run than the    *)
(* key file.                                                                *)
CertNeverAheadOfKey == cert.gen <= key

(* Whenever the mutex is free, which is when /status and the next request    *)
(* look at the files, they are one pair, except for one reason: the last    *)
(* commit failed or was killed between its two renames.                     *)
SettledPairMatches == lock = Free => (torn <=> cert.gen # key)

(* Handing out the mutex only to one handler at a time and committing the   *)
(* .tmp files of the handler's own mkcert run make a 200 truthful: as it is *)
(* given, the files are the two halves of one pair, made for exactly the    *)
(* SANs of this request.                                                    *)
ReissuedIsServable ==
    [][\A c \in Conns : reply[c] = "none" /\ reply'[c] = "reissued"
          => cert'.sans = want[c] /\ cert'.gen = key' /\ key' # 0]_vars

(* "Hold the same mutex as handleReissue so we can't observe a torn state   *)
(* mid-rename" (api.go:105): /status never reads the certificate between    *)
(* the two renames of a running request.                                    *)
StatusNotMidRename ==
    [][\A c \in Conns : Status(c) => \A d \in Conns : phase[d] # "renameCert"]_vars

(* Every accepted request gets its answer or loses its client, however many *)
(* others compete for the mutex and whichever of their steps fail.          *)
EveryRequestEnds ==
    \A c \in Conns : phase[c] \in Reissuing ~> phase[c] \in {"idle", "replied"}

(* Certgen implements CertStore: a request that gets an answer changes the  *)
(* certificate file at one instant, to what it asked for, or not at all; a  *)
(* 200 or 204 is true as it is given; and a request whose client left while *)
(* it was queued or while mkcert ran never undoes a later one: from then on *)
(* it can only fail, so it counts as gone, and from the renames on it holds *)
(* the mutex until it is over.  The two files stop matching only at the key *)
(* rename of such a request, and its certificate rename mends that.         *)
StoreStage(c) ==
    CASE phase[c] \in Reissuing /\ ~cancelled[c]               -> "pending"
      [] phase[c] \in {"renameKey", "renameCert"} /\ cancelled[c] -> "orphaned"
      [] phase[c] = "replied"                                  -> "answered"
      [] OTHER                                                 -> "none"

StoreGoal(c) ==
    IF StoreStage(c) \in {"pending", "orphaned"} THEN want[c] ELSE NoCert

StoreAnswer(c) ==
    CASE reply[c] = "none"                       -> "none"
      [] reply[c] \in {"reissued", "unchanged"} -> "ok"
      [] OTHER                                   -> "error"

Store == INSTANCE CertStore WITH
    served <- cert.sans,
    split <- cert.gen # key,
    stage <- [c \in Conns |-> StoreStage(c)],
    goal <- [c \in Conns |-> StoreGoal(c)],
    answer <- [c \in Conns |-> StoreAnswer(c)]

StoreSpec == Store!Spec
=============================================================================
