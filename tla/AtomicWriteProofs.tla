-------------------------- MODULE AtomicWriteProofs --------------------------
(***************************************************************************)
(* Proofs that atomicWrite never shows a torn file, that its result is      *)
(* true, and that it implements WholeFile, whatever is written, whichever   *)
(* calls fail and whenever the process or the machine dies.                 *)
(***************************************************************************)
EXTENDS AtomicWrite, TLAPS

(* What the writer has put into the .tmp file at each of its calls. *)
TmpInv ==
    /\ pc # "idle" => content \in Contents
    /\ pc = "write" => tmp.data \in {Empty, Torn}
    /\ pc \in {"sync", "close", "rename"} => tmp.data = content
    /\ pc \in {"close", "rename"} => tmp.synced

(* The invariant: what is renamed is whole and on the disk. *)
WriteInv == TypeOK /\ TmpInv /\ NeverTorn /\ live \in onDisk

(* A crash leaves a synced file as it is, and of another one a file. *)
LEMMA LeavesSynced ==
    ASSUME NEW f \in File, f.synced
    PROVE  Leaves(f) = {f}
  BY DEF Leaves

LEMMA LeavesFile ==
    ASSUME NEW f \in File
    PROVE  Leaves(f) \subseteq File
  <1>1. CASE f.synced
    BY <1>1 DEF Leaves
  <1>2. CASE ~f.synced
    <2>1. \A d \in {f.data, Empty, Torn} : [data |-> d, synced |-> TRUE] \in File
      BY DEF File, Data
    <2> QED
      BY <1>2, <2>1 DEF Leaves
  <1> QED
    BY <1>1, <1>2

(* A power failure brings back a file that the disk's directory may name. *)
LEMMA PowerFailureFact ==
    ASSUME WriteInv, PowerFailure
    PROVE  /\ live' \in onDisk
           /\ onDisk' = {live'}
           /\ tmp' \in File
           /\ pc' = "idle" /\ result' = "none" /\ content' = content
  <1>1. PICK f \in onDisk : \E g \in Leaves(f) : live' = g /\ onDisk' = {g}
    BY DEF PowerFailure
  <1>2. f \in File /\ f.synced
    BY <1>1 DEF WriteInv, TypeOK, NeverTorn
  <1>3. live' = f /\ onDisk' = {f}
    BY <1>1, <1>2, LeavesSynced
  <1>4. NoFile \in File
    BY DEF NoFile, File, Data
  <1>5. tmp' \in File
    BY <1>4, LeavesFile DEF PowerFailure, WriteInv, TypeOK
  <1> QED
    BY <1>1, <1>3, <1>5 DEF PowerFailure

LEMMA WriteInvInit == Init => WriteInv
  BY AtomicWriteAssumption
     DEF Init, WriteInv, TypeOK, TmpInv, NeverTorn, NoFile, File, Data

LEMMA WriteInvStep == WriteInv /\ [Next]_vars => WriteInv'
  <1> SUFFICES ASSUME WriteInv, [Next]_vars
               PROVE  WriteInv'
    OBVIOUS
  <1> USE AtomicWriteAssumption DEF WriteInv, TypeOK, TmpInv, NeverTorn, File, Data
  <1>1. ASSUME NEW v \in Contents, Call(v)
        PROVE  WriteInv'
    BY <1>1 DEF Call, path
  <1>2. CASE Open
    BY <1>2 DEF Open, path
  <1>3. CASE WriteSome
    BY <1>3 DEF WriteSome, path
  <1>4. CASE Write
    BY <1>4 DEF Write, path
  <1>5. CASE Sync
    BY <1>5 DEF Sync, path
  <1>6. CASE Close
    BY <1>6 DEF Close, path
  <1>7. CASE Rename
    BY <1>7 DEF Rename, NoFile
  <1>8. CASE Fail
    BY <1>8 DEF Fail, path, NoFile
  <1>9. CASE Kill
    BY <1>9 DEF Kill, path
  <1>10. CASE Commit
    BY <1>10 DEF Commit
  <1>11. CASE PowerFailure
    BY <1>11, PowerFailureFact
  <1>12. CASE UNCHANGED vars
    BY <1>12 DEF vars, path
  <1> QED
    BY <1>1, <1>2, <1>3, <1>4, <1>5, <1>6, <1>7, <1>8, <1>9, <1>10, <1>11, <1>12 DEF Next

LEMMA WriteInvHolds == Spec => []WriteInv
  BY WriteInvInit, WriteInvStep, PTL DEF Spec

(* The writer and the files have their types, for every set of contents. *)
THEOREM AtomicWriteTyping == Spec => []TypeOK
  <1>1. WriteInv => TypeOK
    BY DEF WriteInv
  <1> QED
    BY <1>1, WriteInvHolds, PTL

(* No reader, now or after a crash, gets a torn or zero-byte auto.yml. *)
THEOREM AtomicWriteNeverTorn == Spec => []NeverTorn
  <1>1. WriteInv => NeverTorn
    BY DEF WriteInv
  <1> QED
    BY <1>1, WriteInvHolds, PTL

(* What atomicWrite returns is what happened to the file. *)
THEOREM AtomicWriteResult == Spec => ResultIsTrue
  <1>1. WriteInv /\ [Next]_vars
          => [result' # result => /\ result' = "ok" => live'.data = content
                                  /\ result' = "error" => live' = live]_vars
    BY DEF WriteInv, TmpInv, Next, Call, Open, WriteSome, Write, Sync, Close, Rename, Fail,
           Kill, Commit, PowerFailure, vars, path
  <1> QED
    BY <1>1, WriteInvHolds, PTL DEF Spec, ResultIsTrue

-----------------------------------------------------------------------------
(* The refinement: Rename publishes, Commit settles, a power failure is one, *)
(* and everything else is a stutter.                                        *)

LEMMA WholeFileInit == Init => Abstract!Init
  BY DEF Init, Abstract!Init, NoFile

LEMMA WholeFileStep == WriteInv /\ [Next]_vars => [Abstract!Next]_(Abstract!vars)
  <1> SUFFICES ASSUME WriteInv, [Next]_vars
               PROVE  [Abstract!Next]_(Abstract!vars)
    OBVIOUS
  <1>1. CASE UNCHANGED path
    BY <1>1 DEF path, Abstract!vars
  <1>2. CASE Rename
    <2>1. /\ content \in Contents
          /\ live'.data = content
          /\ onDisk' = onDisk \cup {live'}
      BY <1>2 DEF Rename, WriteInv, TmpInv
    <2>2. {f.data : f \in onDisk'} = {f.data : f \in onDisk} \cup {content}
      BY <2>1
    <2> QED
      BY <2>1, <2>2 DEF Abstract!Next, Abstract!Publish
  <1>3. CASE Commit
    <2>1. live' = live /\ onDisk' = {live}
      BY <1>3 DEF Commit
    <2>2. {f.data : f \in onDisk'} = {live.data}
      BY <2>1
    <2> QED
      BY <2>1, <2>2 DEF Abstract!Next, Abstract!Settle
  <1>4. CASE PowerFailure
    <2>1. live' \in onDisk /\ onDisk' = {live'}
      BY <1>4, PowerFailureFact
    <2>2. {f.data : f \in onDisk'} = {live'.data}
      BY <2>1
    <2> QED
      BY <2>1, <2>2 DEF Abstract!Next, Abstract!PowerFailure
  <1>5. UNCHANGED path \/ Rename \/ Commit \/ PowerFailure
    BY DEF Next, Call, Open, WriteSome, Write, Sync, Close, Fail, Kill, vars, path
  <1> QED
    BY <1>1, <1>2, <1>3, <1>4, <1>5

(* atomicWrite implements a file of whole contents. *)
THEOREM AtomicWriteImplements == Spec => WholeFileSpec
  BY WholeFileInit, WholeFileStep, WriteInvHolds, PTL
     DEF Spec, WholeFileSpec, Abstract!Spec
=============================================================================
