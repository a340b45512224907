---------------------------- MODULE CertgenProofs ----------------------------
(***************************************************************************)
(* Theorems about Certgen, for every set of connections, every set of SAN  *)
(* lists and every selection of failures.                                  *)
(*                                                                         *)
(* The inductive invariant CertgenInv says who holds the mutex, and that   *)
(* from mkcert's first write on the holder works on the latest generation: *)
(* both .tmp files and then the key are of it and the certificate is older. *)
(***************************************************************************)
EXTENDS Certgen, TLAPS

Holding == {"checking", "mkcert", "mkcertKey", "renameKey", "renameCert"}

(* Exactly the handler that holds the mutex is past Lock. *)
MutexInv == \A c \in Conns : lock = c <=> phase[c] \in Holding

(* An answer waits for its client exactly in the last phase. *)
ReplyInv == \A c \in Conns : reply[c] # "none" <=> phase[c] = "replied"

(* The generations on disk, and the .tmp files of the running commit. *)
FilesInv ==
    /\ cert.gen <= key
    /\ key <= minted
    /\ \A c \in Conns :
        /\ phase[c] = "mkcertKey" => tmp.cert = minted /\ key < minted
        /\ phase[c] = "renameKey" => tmp.cert = minted /\ tmp.key = minted /\ key < minted
        /\ phase[c] = "renameCert" => tmp.cert = minted /\ key = minted /\ cert.gen < minted

(* Outside the last rename, the files differ only after a torn commit. *)
TornInv == (\A c \in Conns : phase[c] # "renameCert") => (torn <=> cert.gen # key)

CertgenInv == TypeOK /\ MutexInv /\ ReplyInv /\ FilesInv /\ TornInv

-----------------------------------------------------------------------------
(* Every variable has its type at the start. *)
LEMMA InitTypeOK == Init => TypeOK
<1> SUFFICES ASSUME Init PROVE TypeOK
  OBVIOUS
<1> USE CertgenAssumption DEF Init, TypeOK
<1>1. /\ phase \in [Conns -> Phases]
      /\ want \in [Conns -> SanSets \cup {NoCert}]
      /\ cancelled \in [Conns -> BOOLEAN]
      /\ reply \in [Conns -> Replies]
  BY DEF Phases, Replies
<1>2. /\ cert \in [gen : Nat, sans : SanSets \cup {NoCert}, fresh : BOOLEAN]
      /\ tmp \in [cert : Nat, key : Nat]
  BY DEF NoTmp
<1> QED
  BY <1>1, <1>2

(* Every action keeps the types. *)
LEMMA StepTypeOK == TypeOK /\ [Next]_vars => TypeOK'
<1> SUFFICES ASSUME TypeOK, [Next]_vars PROVE TypeOK'
  OBVIOUS
<1> USE CertgenAssumption DEF TypeOK, Phases, Replies, Reissuing
<1>1. ASSUME NEW c \in Conns, NEW s \in SanSets, Accept(c, s) PROVE TypeOK'
  BY <1>1 DEF Accept, files
<1>2. ASSUME NEW c \in Conns, NEW s \in SanSets, Reject(c, s) PROVE TypeOK'
  BY <1>2 DEF Reject, files
<1>3. ASSUME NEW c \in Conns, Acquire(c) PROVE TypeOK'
  BY <1>3 DEF Acquire, request, files
<1>4. ASSUME NEW c \in Conns, Locked(c) PROVE TypeOK'
  <2>1. CASE NoOp(c)
    BY <2>1 DEF NoOp, Finish, request, files
  <2>2. CASE MkdirFail(c)
    BY <2>2 DEF MkdirFail, Finish, request, files
  <2>3. CASE StartMkcert(c)
    BY <2>3 DEF StartMkcert, request, files
  <2>4. CASE MkcertWritesCert(c)
    BY <2>4 DEF MkcertWritesCert, request
  <2>5. CASE MkcertWritesKey(c)
    BY <2>5 DEF MkcertWritesKey, request
  <2>6. CASE MkcertFail(c)
    BY <2>6 DEF MkcertFail, Finish, NoTmp, request
  <2>7. CASE RenameKey(c)
    BY <2>7 DEF RenameKey, request
  <2>8. CASE RenameKeyFail(c)
    BY <2>8 DEF RenameKeyFail, Finish, NoTmp, request
  <2>9. CASE RenameCert(c)
    BY <2>9 DEF RenameCert, Finish, NoTmp, request
  <2>10. CASE RenameCertFail(c)
    BY <2>10 DEF RenameCertFail, Finish, NoTmp, request
  <2> QED
    BY <1>4, <2>1, <2>2, <2>3, <2>4, <2>5, <2>6, <2>7, <2>8, <2>9, <2>10 DEF Locked
<1>5. ASSUME NEW c \in Conns, AskStatus(c) \/ Status(c) PROVE TypeOK'
  BY <1>5 DEF AskStatus, Status, request, files
<1>6. ASSUME NEW c \in Conns, Collect(c) PROVE TypeOK'
  BY <1>6 DEF Collect, request, files
<1>7. ASSUME NEW c \in Conns, Cancel(c) PROVE TypeOK'
  BY <1>7 DEF Cancel, handlers, files
<1>8. CASE Sigterm \/ Drained \/ Restart
  BY <1>8 DEF Sigterm, Drained, Restart, handlers, files
<1>9. CASE Kill
  BY <1>9 DEF Kill
<1>10. CASE Age
  BY <1>10 DEF Age, handlers, request
<1>11. CASE UNCHANGED vars
  BY <1>11 DEF vars
<1> QED
  BY <1>1, <1>2, <1>3, <1>4, <1>5, <1>6, <1>7, <1>8, <1>9, <1>10, <1>11 DEF Next

(* The variables keep their types: every action of Certgen, whatever fails. *)
THEOREM CertgenTyping == Spec => []TypeOK
BY InitTypeOK, StepTypeOK, PTL DEF Spec

-----------------------------------------------------------------------------
(* No handler, no file: the invariant holds at the start. *)
LEMMA InitCertgenInv == Init => CertgenInv
<1> SUFFICES ASSUME Init PROVE CertgenInv
  OBVIOUS
<1>1. TypeOK
  BY InitTypeOK
<1>2. MutexInv /\ ReplyInv
  BY CertgenAssumption DEF Init, MutexInv, ReplyInv, Holding
<1>3. FilesInv /\ TornInv
  BY DEF Init, FilesInv, TornInv
<1> QED
  BY <1>1, <1>2, <1>3 DEF CertgenInv

(* Steps outside the mutex leave the files alone. *)
LEMMA OutsideStep ==
    ASSUME CertgenInv, TypeOK', NEW c \in Conns,
           \/ \E s \in SanSets : Accept(c, s) \/ Reject(c, s)
           \/ AskStatus(c) \/ Status(c) \/ Collect(c) \/ Cancel(c)
    PROVE  CertgenInv'
<1> USE CertgenAssumption DEF CertgenInv, TypeOK
<1>1. MutexInv'
  BY DEF MutexInv, Holding, Accept, Reject, AskStatus, Status, Collect, Cancel, handlers, Reissuing
<1>2. ReplyInv'
  BY DEF ReplyInv, Accept, Reject, AskStatus, Status, Collect, Cancel, handlers, Reissuing
<1>3. FilesInv' /\ TornInv'
  BY DEF FilesInv, TornInv, Accept, Reject, AskStatus, Status, Collect, Cancel, handlers, files
<1> QED
  BY <1>1, <1>2, <1>3

(* Whoever takes the mutex finds nobody else past Lock. *)
LEMMA AcquireStep ==
    ASSUME CertgenInv, TypeOK', NEW c \in Conns, Acquire(c)
    PROVE  CertgenInv'
<1> USE CertgenAssumption DEF CertgenInv, TypeOK, Acquire, Holding, request, files
<1>1. MutexInv' /\ ReplyInv'
  BY DEF MutexInv, ReplyInv
<1>2. FilesInv' /\ TornInv'
  BY DEF FilesInv, TornInv
<1> QED
  BY <1>1, <1>2

(* The holder's steps: the files are its own to change. *)
LEMMA LockedStep ==
    ASSUME CertgenInv, TypeOK', NEW c \in Conns, Locked(c)
    PROVE  CertgenInv'
<1> USE CertgenAssumption DEF CertgenInv, TypeOK
<1>1. lock = c /\ \A d \in Conns : d # c => phase[d] \notin Holding
  BY DEF MutexInv, Holding, Locked, NoOp, MkdirFail, StartMkcert, MkcertWritesCert,
         MkcertWritesKey, MkcertFail, RenameKey, RenameKeyFail, RenameCert, RenameCertFail
<1>2. CASE NoOp(c) \/ MkdirFail(c)
  <2>1. MutexInv' /\ ReplyInv'
    BY <1>1, <1>2 DEF MutexInv, ReplyInv, Holding, NoOp, MkdirFail, Finish
  <2>2. FilesInv' /\ TornInv'
    BY <1>1, <1>2 DEF FilesInv, TornInv, Holding, NoOp, MkdirFail, Finish, files
  <2> QED
    BY <2>1, <2>2
<1>3. CASE StartMkcert(c)
  <2>1. MutexInv' /\ ReplyInv'
    BY <1>1, <1>3 DEF MutexInv, ReplyInv, Holding, StartMkcert
  <2>2. FilesInv' /\ TornInv'
    BY <1>1, <1>3 DEF FilesInv, TornInv, Holding, StartMkcert, files
  <2> QED
    BY <2>1, <2>2
<1>4. CASE MkcertWritesCert(c)
  <2>1. MutexInv' /\ ReplyInv'
    BY <1>1, <1>4 DEF MutexInv, ReplyInv, Holding, MkcertWritesCert
  <2>2. FilesInv' /\ TornInv'
    BY <1>1, <1>4 DEF FilesInv, TornInv, Holding, MkcertWritesCert
  <2> QED
    BY <2>1, <2>2
<1>5. CASE MkcertWritesKey(c)
  <2>1. MutexInv' /\ ReplyInv'
    BY <1>1, <1>5 DEF MutexInv, ReplyInv, Holding, MkcertWritesKey
  <2>2. FilesInv' /\ TornInv'
    BY <1>1, <1>5 DEF FilesInv, TornInv, Holding, MkcertWritesKey
  <2> QED
    BY <2>1, <2>2
<1>6. CASE MkcertFail(c) \/ RenameKeyFail(c)
  <2>1. MutexInv' /\ ReplyInv'
    BY <1>1, <1>6 DEF MutexInv, ReplyInv, Holding, MkcertFail, RenameKeyFail, Finish
  <2>2. FilesInv' /\ TornInv'
    BY <1>1, <1>6 DEF FilesInv, TornInv, Holding, MkcertFail, RenameKeyFail, Finish
  <2> QED
    BY <2>1, <2>2
<1>7. CASE RenameKey(c)
  <2>1. MutexInv' /\ ReplyInv'
    BY <1>1, <1>7 DEF MutexInv, ReplyInv, Holding, RenameKey
  <2>2. FilesInv' /\ TornInv'
    BY <1>1, <1>7 DEF FilesInv, TornInv, Holding, RenameKey
  <2> QED
    BY <2>1, <2>2
<1>8. CASE RenameCert(c)
  <2>1. MutexInv' /\ ReplyInv'
    BY <1>1, <1>8 DEF MutexInv, ReplyInv, Holding, RenameCert, Finish
  <2>2. FilesInv' /\ TornInv'
    BY <1>1, <1>8 DEF FilesInv, TornInv, Holding, RenameCert, Finish
  <2> QED
    BY <2>1, <2>2
<1>9. CASE RenameCertFail(c)
  <2>1. MutexInv' /\ ReplyInv'
    BY <1>1, <1>9 DEF MutexInv, ReplyInv, Holding, RenameCertFail, Finish
  <2>2. FilesInv' /\ TornInv'
    BY <1>1, <1>9 DEF FilesInv, TornInv, Holding, RenameCertFail, Finish
  <2> QED
    BY <2>1, <2>2
<1> QED
  BY <1>2, <1>3, <1>4, <1>5, <1>6, <1>7, <1>8, <1>9 DEF Locked

(* Signals, crashes and the clock. *)
LEMMA ProcessStep ==
    ASSUME CertgenInv, TypeOK', Sigterm \/ Drained \/ Kill \/ Restart \/ Age
    PROVE  CertgenInv'
<1> USE CertgenAssumption DEF CertgenInv, TypeOK
<1>1. CASE Sigterm \/ Drained \/ Restart
  BY <1>1 DEF MutexInv, ReplyInv, FilesInv, TornInv, Sigterm, Drained, Restart, handlers, files
<1>2. CASE Kill
  <2>1. MutexInv' /\ ReplyInv' /\ FilesInv'
    BY <1>2 DEF MutexInv, ReplyInv, FilesInv, Holding, Kill
  <2>2. TornInv'
    <3>1. CASE \E c \in Conns : phase[c] = "renameCert"
      <4>1. PICK c \in Conns : phase[c] = "renameCert"
        BY <3>1
      <4>2. cert.gen # key
        BY <4>1 DEF FilesInv
      <4>3. torn' = TRUE
        BY <1>2, <3>1 DEF Kill
      <4>4. cert' = cert /\ key' = key
        BY <1>2 DEF Kill
      <4> QED
        BY <4>2, <4>3, <4>4 DEF TornInv
    <3>2. CASE \A c \in Conns : phase[c] # "renameCert"
      BY <1>2, <3>2 DEF TornInv, Kill
    <3> QED
      BY <3>1, <3>2
  <2> QED
    BY <2>1, <2>2
<1>3. CASE Age
  BY <1>3 DEF MutexInv, ReplyInv, FilesInv, TornInv, Age, handlers
<1> QED
  BY <1>1, <1>2, <1>3

(* Every step keeps the invariant. *)
LEMMA StepCertgenInv == CertgenInv /\ [Next]_vars => CertgenInv'
<1> SUFFICES ASSUME CertgenInv, [Next]_vars PROVE CertgenInv'
  OBVIOUS
<1>1. TypeOK'
  BY StepTypeOK DEF CertgenInv
<1>2. CASE UNCHANGED vars
  BY <1>2 DEF CertgenInv, TypeOK, MutexInv, ReplyInv, FilesInv, TornInv, vars
<1> QED
  BY <1>1, <1>2, OutsideStep, AcquireStep, LockedStep, ProcessStep DEF Next

(* The invariant behind the safety theorems: who holds the mutex, and what  *)
(* the files are at each of the holder's phases.                            *)
LEMMA CertgenInvariance == Spec => []CertgenInv
BY InitCertgenInv, StepCertgenInv, PTL DEF Spec

-----------------------------------------------------------------------------
(* Whatever fails, the certificate on disk is never of a later mkcert run   *)
(* than the key: the order of the two renames in Reissue.                   *)
THEOREM CertgenKeyFirst == Spec => []CertNeverAheadOfKey
<1>1. CertgenInv => CertNeverAheadOfKey
  BY DEF CertgenInv, FilesInv, CertNeverAheadOfKey
<1> QED
  BY <1>1, CertgenInvariance, PTL

(* With the mutex free, key and certificate are one pair unless the last    *)
(* commit was cut short between its two renames.                            *)
THEOREM CertgenSettledPair == Spec => []SettledPairMatches
<1>1. CertgenInv => SettledPairMatches
  BY CertgenAssumption DEF CertgenInv, TypeOK, MutexInv, Holding, TornInv, SettledPairMatches
<1> QED
  BY <1>1, CertgenInvariance, PTL

(* A 200 is given over a matching pair made for the requested SANs. *)
THEOREM CertgenReissued == Spec => ReissuedIsServable
<1> DEFINE Servable == \A c \in Conns : reply[c] = "none" /\ reply'[c] = "reissued"
                          => cert'.sans = want[c] /\ cert'.gen = key' /\ key' # 0
<1>1. CertgenInv /\ [Next]_vars => [Servable]_vars
  <2> SUFFICES ASSUME CertgenInv, Next, NEW d \in Conns,
                      reply[d] = "none", reply'[d] = "reissued"
               PROVE  cert'.sans = want[d] /\ cert'.gen = key' /\ key' # 0
    BY DEF vars
  <2> USE CertgenAssumption DEF CertgenInv, TypeOK
  <2>1. \E c \in Conns : RenameCert(c)
    BY DEF Next, Locked, Accept, Reject, Acquire, NoOp, MkdirFail, StartMkcert, MkcertWritesCert,
           MkcertWritesKey, MkcertFail, RenameKey, RenameKeyFail, RenameCertFail, Finish,
           AskStatus, Status, Collect, Cancel, Sigterm, Drained, Kill, Restart, Age, handlers
  <2>2. RenameCert(d)
    BY <2>1 DEF RenameCert, Finish
  <2> QED
    BY <2>2 DEF RenameCert, FilesInv
<1>2. Spec => [][Servable]_vars
  BY <1>1, CertgenInvariance, PTL DEF Spec
<1> QED
  BY <1>2 DEF ReissuedIsServable

(* /status never reads the certificate between two renames. *)
THEOREM CertgenStatusSettled == Spec => StatusNotMidRename
<1> DEFINE Settled == \A c \in Conns : Status(c) => \A d \in Conns : phase[d] # "renameCert"
<1>1. CertgenInv => Settled
  BY CertgenAssumption DEF CertgenInv, MutexInv, Holding, Status
<1>2. Spec => [][Settled]_vars
  BY <1>1, CertgenInvariance, PTL
<1> QED
  BY <1>2 DEF StatusNotMidRename

-----------------------------------------------------------------------------
(* Certgen implements CertStore.  A step of one handler changes the mapped  *)
(* state of its own connection only.                                        *)

StageOf == [c \in Conns |-> StoreStage(c)]
GoalOf == [c \in Conns |-> StoreGoal(c)]
AnswerOf == [c \in Conns |-> StoreAnswer(c)]

Untouched(d) == /\ phase'[d] = phase[d]
                /\ cancelled'[d] = cancelled[d]
                /\ reply'[d] = reply[d]
                /\ want'[d] = want[d]

(* A step that changes only c's handler leaves the mapped state of the      *)
(* others alone.                                                            *)
LEMMA StoreFrame ==
    ASSUME NEW c \in Conns, \A d \in Conns : d # c => Untouched(d)
    PROVE  /\ StageOf' = [StageOf EXCEPT ![c] = StoreStage(c)']
           /\ GoalOf' = [GoalOf EXCEPT ![c] = StoreGoal(c)']
           /\ AnswerOf' = [AnswerOf EXCEPT ![c] = StoreAnswer(c)']
<1>1. \A d \in Conns : d # c => /\ StoreStage(d)' = StoreStage(d)
                                /\ StoreAnswer(d)' = StoreAnswer(d)
  BY DEF Untouched, StoreStage, StoreAnswer
<1>2. \A d \in Conns : d # c => StoreGoal(d)' = StoreGoal(d)
  BY <1>1 DEF Untouched, StoreGoal
<1> QED
  BY <1>1, <1>2 DEF StageOf, GoalOf, AnswerOf

(* Initial states map to initial states. *)
LEMMA StoreInit == Init => Store!Init
<1> SUFFICES ASSUME Init PROVE Store!Init
  OBVIOUS
<1>1. \A c \in Conns : StoreStage(c) = "none"
  BY DEF Init, StoreStage, Reissuing
<1>2. \A c \in Conns : StoreGoal(c) = NoCert
  BY <1>1 DEF StoreGoal
<1>3. \A c \in Conns : StoreAnswer(c) = "none"
  BY DEF Init, StoreAnswer
<1>4. (cert.gen # key) = FALSE
  BY DEF Init
<1> QED
  BY <1>1, <1>2, <1>3, <1>4 DEF Init, Store!Init

(* A step of c that leaves its mapped state and the files alone. *)
LEMMA StoreStutter ==
    ASSUME NEW c \in Conns, \A d \in Conns : d # c => Untouched(d),
           StoreStage(c)' = StoreStage(c), StoreGoal(c)' = StoreGoal(c),
           StoreAnswer(c)' = StoreAnswer(c), cert'.sans = cert.sans,
           cert'.gen # key' <=> cert.gen # key
    PROVE  UNCHANGED Store!vars
<1>1. StageOf' = StageOf /\ GoalOf' = GoalOf /\ AnswerOf' = AnswerOf
  BY StoreFrame DEF StageOf, GoalOf, AnswerOf
<1> QED
  BY <1>1 DEF Store!vars, StageOf, GoalOf, AnswerOf

(* While c holds the mutex, no other request is between the renames. *)
LEMMA StoreAlone ==
    ASSUME CertgenInv, NEW c \in Conns, phase[c] \in Holding, ~cancelled[c]
    PROVE  \A d \in Conns : StoreStage(d) # "orphaned"
BY CertgenAssumption DEF CertgenInv, TypeOK, MutexInv, Holding, StoreStage, Reissuing

(* Requests arrive, are refused, lose their client, are collected. *)
LEMMA StoreClientStep ==
    ASSUME CertgenInv, NEW c \in Conns,
           \/ \E s \in SanSets : Accept(c, s) \/ Reject(c, s)
           \/ Collect(c) \/ Cancel(c)
    PROVE  [Store!Next]_(Store!vars)
<1> USE DEF CertgenInv, TypeOK
<1>0. reply[c] = "none" <=> phase[c] # "replied"
  BY DEF ReplyInv
<1>1. CASE \E s \in SanSets : Accept(c, s)
  <2>1. PICK s \in SanSets : Accept(c, s)
    BY <1>1
  <2>2. \A d \in Conns : d # c => Untouched(d)
    BY <2>1 DEF Accept, Untouched
  <2>3. /\ StoreStage(c) = "none" /\ StoreStage(c)' = "pending"
        /\ StoreAnswer(c)' = StoreAnswer(c)
    BY <2>1 DEF Accept, StoreStage, StoreAnswer, Reissuing
  <2>4. StoreGoal(c)' = s
    BY <2>1, <2>3 DEF Accept, StoreGoal
  <2>5. Store!Ask(c, s)
    BY <2>1, <2>2, <2>3, <2>4, StoreFrame
    DEF Accept, files, Store!Ask, StageOf, GoalOf, AnswerOf
  <2> QED
    BY <2>5 DEF Store!Next
<1>2. CASE \E s \in SanSets : Reject(c, s)
  <2>1. PICK s \in SanSets : Reject(c, s)
    BY <1>2
  <2>2. \A d \in Conns : d # c => Untouched(d)
    BY <2>1 DEF Reject, Untouched
  <2>3. /\ StoreStage(c) = "none" /\ StoreStage(c)' = "answered"
        /\ StoreAnswer(c)' = "error"
    BY <2>1 DEF Reject, StoreStage, StoreAnswer, Reissuing
  <2>4. StoreGoal(c)' = NoCert
    BY <2>3 DEF StoreGoal
  <2>5. Store!Refuse(c)
    BY <2>1, <2>2, <2>3, <2>4, StoreFrame
    DEF Reject, files, Store!Refuse, Store!Answer, StageOf, GoalOf, AnswerOf
  <2> QED
    BY <2>5 DEF Store!Next
<1>3. CASE Collect(c)
  <2>1. \A d \in Conns : d # c => Untouched(d)
    BY <1>3 DEF Collect, request, Untouched
  <2>2. /\ StoreStage(c) = "answered" /\ StoreStage(c)' = "none"
        /\ StoreAnswer(c)' = "none"
    BY <1>3 DEF Collect, request, StoreStage, StoreAnswer, Reissuing
  <2>3. StoreGoal(c)' = NoCert
    BY <2>2 DEF StoreGoal
  <2>4. Store!Collect(c)
    BY <1>3, <2>1, <2>2, <2>3, StoreFrame
    DEF Collect, files, Store!Collect, Store!Drop, StageOf, GoalOf, AnswerOf
  <2> QED
    BY <2>4 DEF Store!Next
<1>4. CASE Cancel(c)
  <2>1. \A d \in Conns : d # c => Untouched(d)
    BY <1>4 DEF Cancel, handlers, Untouched
  <2>2. /\ StoreStage(c) = "pending" /\ StoreStage(c)' \in {"none", "orphaned"}
        /\ StoreAnswer(c)' = StoreAnswer(c)
    BY <1>4 DEF Cancel, handlers, StoreStage, StoreAnswer, Reissuing
  <2>3. /\ StoreStage(c)' = "none" => StoreGoal(c)' = NoCert
        /\ StoreStage(c)' = "orphaned" => StoreGoal(c)' = StoreGoal(c)
    BY <1>4, <2>2 DEF Cancel, StoreGoal
  <2>4. Store!Leave(c)
    <3>1. CASE StoreStage(c)' = "none"
      BY <1>4, <2>1, <2>2, <2>3, <3>1, StoreFrame
      DEF Cancel, files, Store!Leave, Store!Drop, StageOf, GoalOf, AnswerOf
    <3>2. CASE StoreStage(c)' = "orphaned"
      BY <1>4, <2>1, <2>2, <2>3, <3>2, StoreFrame
      DEF Cancel, files, Store!Leave, StageOf, GoalOf, AnswerOf
    <3> QED
      BY <2>2, <3>1, <3>2
  <2> QED
    BY <2>4 DEF Store!Next
<1> QED
  BY <1>1, <1>2, <1>3, <1>4

(* The handler of c ends: a request that was still expected to be answered  *)
(* is; one without a client settles, or had been dropped before.            *)
LEMMA StoreEnd ==
    ASSUME CertgenInv, NEW c \in Conns, NEW r \in {"reissued", "unchanged", "failed"},
           phase[c] \in Holding, Finish(c, r), want' = want, cancelled' = cancelled,
           \/ cert' = cert /\ key' = key /\ r = "failed"
           \/ cert' = cert /\ key' = key /\ cert.sans = want[c] /\ r = "unchanged"
           \/ /\ cert'.sans = want[c] /\ cert'.gen = key'
              /\ r = "reissued" /\ phase[c] = "renameCert"
    PROVE  [Store!Next]_(Store!vars)
<1> USE DEF CertgenInv, TypeOK
<1>1. \A d \in Conns : d # c => Untouched(d)
  BY DEF Finish, Untouched
<1>2. reply[c] = "none"
  BY DEF ReplyInv, Holding
<1>3. CASE ~cancelled[c]
  <2>1. /\ StoreStage(c) = "pending" /\ StoreStage(c)' = "answered"
        /\ StoreAnswer(c)' = IF r = "failed" THEN "error" ELSE "ok"
    BY <1>3 DEF Finish, StoreStage, StoreAnswer, Reissuing, Holding
  <2>2. StoreGoal(c) = want[c] /\ StoreGoal(c)' = NoCert
    BY <2>1 DEF StoreGoal
  <2>3. CASE r = "failed"
    <3>1. Store!Fail(c)
      BY <1>1, <2>1, <2>2, <2>3, StoreFrame
      DEF Store!Fail, Store!Answer, StageOf, GoalOf, AnswerOf
    <3> QED
      BY <3>1 DEF Store!Next
  <2>4. CASE r # "failed"
    <3>1. \A d \in Conns : StoreStage(d) # "orphaned"
      BY <1>3, StoreAlone
    <3>2. Store!Succeed(c)
      BY <1>1, <2>1, <2>2, <2>4, <3>1, StoreFrame
      DEF Store!Succeed, Store!Issue, Store!Answer, StageOf, GoalOf, AnswerOf
    <3> QED
      BY <3>2 DEF Store!Next
  <2> QED
    BY <2>3, <2>4
<1>4. CASE cancelled[c]
  <2>1. StoreStage(c)' = "none" /\ StoreAnswer(c)' = StoreAnswer(c)
    BY <1>4 DEF Finish, StoreStage, StoreAnswer, Reissuing
  <2>2. StoreGoal(c)' = NoCert
    BY <2>1 DEF StoreGoal
  <2>3. CASE phase[c] \in {"renameKey", "renameCert"}
    <3>1. StoreStage(c) = "orphaned"
      BY <1>4, <2>3 DEF StoreStage, Reissuing
    <3>2. StoreGoal(c) = want[c]
      BY <3>1 DEF StoreGoal
    <3>3. Store!Settle(c)
      BY <1>1, <2>1, <2>2, <3>1, <3>2, StoreFrame
      DEF Store!Settle, Store!Issue, Store!Drop, StageOf, GoalOf, AnswerOf
    <3> QED
      BY <3>3 DEF Store!Next
  <2>4. CASE phase[c] \notin {"renameKey", "renameCert"}
    <3>1. StoreStage(c) = "none"
      BY <1>4, <2>4 DEF StoreStage, Reissuing, Holding
    <3>2. StoreGoal(c) = NoCert
      BY <3>1 DEF StoreGoal
    <3> QED
      BY <1>1, <2>1, <2>2, <2>4, <3>1, <3>2, StoreStutter
  <2> QED
    BY <2>3, <2>4
<1> QED
  BY <1>3, <1>4

(* The steps of a handler that end it ... *)
LEMMA StoreEndingStep ==
    ASSUME CertgenInv, NEW c \in Conns,
           \/ NoOp(c) \/ MkdirFail(c) \/ MkcertFail(c)
           \/ RenameKeyFail(c) \/ RenameCert(c) \/ RenameCertFail(c)
    PROVE  [Store!Next]_(Store!vars)
<1> USE DEF CertgenInv, TypeOK
<1>1. phase[c] \in Holding /\ want' = want /\ cancelled' = cancelled
  BY DEF Holding, NoOp, MkdirFail, MkcertFail, RenameKeyFail, RenameCert, RenameCertFail, request
<1>2. CASE NoOp(c)
  <2>1. Finish(c, "unchanged") /\ cert' = cert /\ key' = key /\ cert.sans = want[c]
    BY <1>2 DEF NoOp, UpToDate, files
  <2> QED
    BY <1>1, <2>1, StoreEnd
<1>3. CASE RenameCert(c)
  <2>1. /\ Finish(c, "reissued") /\ phase[c] = "renameCert"
        /\ cert'.sans = want[c] /\ cert'.gen = key'
    BY <1>3 DEF RenameCert, FilesInv
  <2> QED
    BY <1>1, <2>1, StoreEnd
<1>4. CASE MkdirFail(c) \/ MkcertFail(c) \/ RenameKeyFail(c) \/ RenameCertFail(c)
  <2>1. Finish(c, "failed") /\ cert' = cert /\ key' = key
    BY <1>4 DEF MkdirFail, MkcertFail, RenameKeyFail, RenameCertFail, files
  <2> QED
    BY <1>1, <2>1, StoreEnd
<1> QED
  BY <1>2, <1>3, <1>4

(* ... and those that do not: nobody can tell, except for the key rename. *)
LEMMA StoreInnerStep ==
    ASSUME CertgenInv, NEW c \in Conns,
           \/ Acquire(c) \/ StartMkcert(c) \/ MkcertWritesCert(c) \/ MkcertWritesKey(c)
           \/ AskStatus(c) \/ Status(c)
    PROVE  UNCHANGED Store!vars
<1> USE DEF CertgenInv, TypeOK
<1> USE DEF Acquire, StartMkcert, MkcertWritesCert, MkcertWritesKey, AskStatus, Status
<1>1. \A d \in Conns : d # c => Untouched(d)
  BY DEF Untouched, request
<1>2. StoreStage(c)' = StoreStage(c) /\ StoreAnswer(c)' = StoreAnswer(c)
  BY DEF StoreStage, StoreAnswer, Reissuing, request, Runs
<1>3. StoreGoal(c)' = StoreGoal(c)
  BY <1>2 DEF StoreGoal, request
<1>4. cert' = cert /\ key' = key
  BY DEF files
<1> QED
  BY <1>1, <1>2, <1>3, <1>4, StoreStutter

(* The key is of a later run than the certificate: the two are split, unless *)
(* they were already.                                                       *)
LEMMA StoreKeyStep ==
    ASSUME CertgenInv, NEW c \in Conns, RenameKey(c)
    PROVE  [Store!Next]_(Store!vars)
<1> USE DEF CertgenInv, TypeOK
<1>1. \A d \in Conns : d # c => Untouched(d)
  BY DEF RenameKey, Untouched, request
<1>2. /\ StoreStage(c) \in {"pending", "orphaned"} /\ StoreStage(c)' = StoreStage(c)
      /\ StoreAnswer(c)' = StoreAnswer(c)
  BY DEF RenameKey, StoreStage, StoreAnswer, Reissuing, request
<1>3. StoreGoal(c)' = StoreGoal(c)
  BY <1>2 DEF RenameKey, StoreGoal, request
<1>4. cert' = cert /\ cert'.gen # key'
  BY DEF RenameKey, FilesInv
<1>5. CASE cert.gen # key
  BY <1>1, <1>2, <1>3, <1>4, <1>5, StoreStutter
<1>6. CASE cert.gen = key
  <2>1. Store!Split(c)
    BY <1>1, <1>2, <1>3, <1>4, <1>6, StoreFrame DEF Store!Split, StageOf, GoalOf, AnswerOf
  <2> QED
    BY <2>1 DEF Store!Next
<1> QED
  BY <1>5, <1>6

(* Signals and the clock are not seen; the end of the process is a crash. *)
LEMMA StoreProcessStep ==
    ASSUME CertgenInv, Sigterm \/ Drained \/ Kill \/ Restart \/ Age
    PROVE  [Store!Next]_(Store!vars)
<1> USE DEF CertgenInv, TypeOK
<1>1. CASE Kill
  <2>1. \A c \in Conns : StoreStage(c)' = "none" /\ StoreAnswer(c)' = "none"
    BY <1>1 DEF Kill, StoreStage, StoreAnswer, Reissuing
  <2>2. \A c \in Conns : StoreGoal(c)' = NoCert
    BY <2>1 DEF StoreGoal
  <2>3. Store!Crash
    BY <1>1, <2>1, <2>2 DEF Kill, Store!Crash
  <2> QED
    BY <2>3 DEF Store!Next
<1>2. CASE Sigterm \/ Drained \/ Restart \/ Age
  <2>1. /\ phase' = phase /\ cancelled' = cancelled /\ reply' = reply
        /\ want' = want /\ cert'.sans = cert.sans /\ cert'.gen = cert.gen /\ key' = key
    BY <1>2 DEF Sigterm, Drained, Restart, Age, handlers, files, request
  <2>2. \A c \in Conns : StoreStage(c)' = StoreStage(c) /\ StoreAnswer(c)' = StoreAnswer(c)
    BY <2>1 DEF StoreStage, StoreAnswer
  <2>3. \A c \in Conns : StoreGoal(c)' = StoreGoal(c)
    BY <2>1, <2>2 DEF StoreGoal
  <2> QED
    BY <2>1, <2>2, <2>3 DEF Store!vars
<1> QED
  BY <1>1, <1>2

(* Every step maps to a step or a stutter. *)
LEMMA StoreStep == CertgenInv /\ [Next]_vars => [Store!Next]_(Store!vars)
<1> SUFFICES ASSUME CertgenInv, [Next]_vars PROVE [Store!Next]_(Store!vars)
  OBVIOUS
<1>1. CASE UNCHANGED vars
  <2>1. \A c \in Conns : StoreStage(c)' = StoreStage(c) /\ StoreAnswer(c)' = StoreAnswer(c)
    BY <1>1 DEF vars, StoreStage, StoreAnswer
  <2>2. \A c \in Conns : StoreGoal(c)' = StoreGoal(c)
    BY <1>1, <2>1 DEF vars, StoreGoal
  <2> QED
    BY <1>1, <2>1, <2>2 DEF vars, Store!vars
<1>2. CASE \E c \in Conns, s \in SanSets : Accept(c, s) \/ Reject(c, s)
  BY <1>2, StoreClientStep
<1>3. CASE \E c \in Conns : Collect(c) \/ Cancel(c)
  BY <1>3, StoreClientStep
<1>4. CASE \E c \in Conns : Acquire(c) \/ Locked(c) \/ AskStatus(c) \/ Status(c)
  <2>1. PICK c \in Conns : Acquire(c) \/ Locked(c) \/ AskStatus(c) \/ Status(c)
    BY <1>4
  <2>2. \/ /\ \/ NoOp(c) \/ MkdirFail(c) \/ MkcertFail(c)
              \/ RenameKeyFail(c) \/ RenameCert(c) \/ RenameCertFail(c)
        \/ /\ \/ Acquire(c) \/ StartMkcert(c) \/ MkcertWritesCert(c) \/ MkcertWritesKey(c)
              \/ AskStatus(c) \/ Status(c)
        \/ RenameKey(c)
    BY <2>1 DEF Locked
  <2> QED
    BY <2>2, StoreEndingStep, StoreInnerStep, StoreKeyStep
<1>5. CASE Sigterm \/ Drained \/ Kill \/ Restart \/ Age
  BY <1>5, StoreProcessStep
<1> QED
  BY <1>1, <1>2, <1>3, <1>4, <1>5 DEF Next

(* Certgen implements CertStore, for any number of connections. *)
THEOREM CertgenImplementsStore == Spec => StoreSpec
BY StoreInit, StoreStep, CertgenInvariance, PTL DEF Spec, StoreSpec, Store!Spec
=============================================================================
