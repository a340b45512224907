----------------------------- MODULE AtomicWrite -----------------------------
(***************************************************************************)
(* atomicWrite (reconcile.go) and the file system under it: the content     *)
(* goes into path + ".tmp", is synced, and is renamed over path.  Traefik   *)
(* may open path between any two system calls, any of them may fail, the    *)
(* process may be killed between any two, and the machine may lose power,    *)
(* which loses what the kernel had not brought to the disk.                 *)
(*                                                                         *)
(* A file is its data and whether all of it is on the disk.  The directory  *)
(* of the disk lags behind the one in memory: onDisk holds the files that   *)
(* its entry for path may name.                                            *)
(***************************************************************************)
CONSTANTS Contents,  \* rendered configurations
          Missing,   \* there is no file
          Empty,     \* the file has no bytes, after O_TRUNC
          Torn,      \* it has some of the bytes that were written
          Faults     \* the failures the environment may cause

FaultKinds == {"open", "write", "sync", "close", "rename", "kill", "power"}

ASSUME AtomicWriteAssumption ==
    /\ {Missing, Empty, Torn} \cap Contents = {}
    /\ Missing # Empty /\ Missing # Torn /\ Empty # Torn
    /\ Faults \subseteq FaultKinds

VARIABLES pc,      \* the system call the writer is at
          content, \* the argument of the call
          tmp,     \* the file path + ".tmp"
          live,    \* the file path, as everybody on the machine sees it
          onDisk,  \* files the entry of path on the disk may name
          result   \* what the last call of atomicWrite returned

vars == <<pc, content, tmp, live, onDisk, result>>
path == <<live, onDisk>>

Data == Contents \cup {Missing, Empty, Torn}
File == [data : Data, synced : BOOLEAN]
NoFile == [data |-> Missing, synced |-> TRUE]

Init ==
    /\ pc = "idle"
    /\ content = Missing
    /\ tmp = NoFile
    /\ live = NoFile
    /\ onDisk = {NoFile}
    /\ result = "none"

-----------------------------------------------------------------------------
(* The function.                                                           *)

Call(v) ==
    /\ pc = "idle"
    /\ pc' = "open"
    /\ content' = v
    /\ result' = "none"
    /\ UNCHANGED <<tmp, path>>

(* Slip: what an earlier call left in the .tmp file is not truncated. *)
OpenKeeping ==
    /\ pc = "open"
    /\ pc' = "write"
    /\ tmp' = IF tmp = NoFile THEN [data |-> Empty, synced |-> FALSE] ELSE tmp
    /\ UNCHANGED <<content, path, result>>

(* MkdirAll and OpenFile with O_CREATE and O_TRUNC: a file that a killed    *)
(* writer left behind is emptied.                                          *)
Open ==
    /\ pc = "open"
    /\ pc' = "write"
    /\ tmp' = [data |-> Empty, synced |-> FALSE]
    /\ UNCHANGED <<content, path, result>>

(* The write goes on while others look: some of the bytes are there. *)
WriteSome ==
    /\ pc = "write"
    /\ tmp.data = Empty
    /\ tmp' = [data |-> Torn, synced |-> FALSE]
    /\ UNCHANGED <<pc, content, path, result>>

Write ==
    /\ pc = "write"
    /\ pc' = "sync"
    /\ tmp' = [data |-> IF tmp.data \in {Empty, Torn} THEN content ELSE Torn,
               synced |-> FALSE]
    /\ UNCHANGED <<content, path, result>>

Sync ==
    /\ pc = "sync"
    /\ pc' = "close"
    /\ tmp' = [tmp EXCEPT !.synced = TRUE]
    /\ UNCHANGED <<content, path, result>>

Close ==
    /\ pc = "close"
    /\ pc' = "rename"
    /\ UNCHANGED <<content, tmp, path, result>>

(* The directory on the disk follows some time later: no call waits for it. *)
Rename ==
    /\ pc = "rename"
    /\ pc' = "idle"
    /\ live' = tmp
    /\ onDisk' = onDisk \cup {tmp}
    /\ tmp' = NoFile
    /\ result' = "ok"
    /\ UNCHANGED content

(* Slip: the copy that failed is renamed over path after all. *)
FailPublishing ==
    /\ pc # "idle"
    /\ pc \in Faults
    /\ pc' = "idle"
    /\ live' = tmp
    /\ onDisk' = onDisk \cup {tmp}
    /\ tmp' = NoFile
    /\ result' = "error"
    /\ UNCHANGED content

(* Any call may return an error, a write also halfway.  Each branch of the  *)
(* code removes the .tmp file; when OpenFile fails there is none of this    *)
(* call's, and an older one stays.                                         *)
Fail ==
    /\ pc # "idle"
    /\ pc \in Faults
    /\ pc' = "idle"
    /\ tmp' = IF pc = "open" THEN tmp ELSE NoFile
    /\ result' = "error"
    /\ UNCHANGED <<content, path>>

-----------------------------------------------------------------------------
(* The environment.                                                        *)

(* The discoverer is killed: the call does not return, its files stay. *)
Kill ==
    /\ "kill" \in Faults
    /\ pc # "idle"
    /\ pc' = "idle"
    /\ result' = "none"
    /\ UNCHANGED <<content, tmp, path>>

(* The kernel brings the directory to the disk. *)
Commit ==
    /\ onDisk # {live}
    /\ onDisk' = {live}
    /\ UNCHANGED <<pc, content, tmp, live, result>>

(* What a crash may leave of a file: all of it if it was synced.  A rename   *)
(* that the disk has not seen is undone, for both names.                    *)
Leaves(f) ==
    IF f.synced THEN {f}
    ELSE {[data |-> d, synced |-> TRUE] : d \in {f.data, Empty, Torn}}

PowerFailure ==
    /\ "power" \in Faults
    /\ \E f \in onDisk : \E g \in Leaves(f) : live' = g /\ onDisk' = {g}
    /\ tmp' \in Leaves(tmp) \cup onDisk \cup {NoFile}
    /\ pc' = "idle"
    /\ result' = "none"
    /\ UNCHANGED content

Next ==
    \/ \E v \in Contents : Call(v)
    \/ Open \/ WriteSome \/ Write \/ Sync \/ Close \/ Rename \/ Fail
    \/ Kill \/ Commit \/ PowerFailure

Spec == Init /\ [][Next]_vars

-----------------------------------------------------------------------------
(* Properties.                                                             *)

(* Type correctness of the writer and of the files: it is past "open" only   *)
(* with the file it opened.                                                *)
TypeOK ==
    /\ pc \in {"idle", "open", "write", "sync", "close", "rename"}
    /\ content \in Contents \cup {Missing}
    /\ tmp \in File
    /\ live \in File
    /\ onDisk \subseteq File
    /\ result \in {"none", "ok", "error"}
    /\ pc \notin {"idle", "open"} => tmp.data # Missing

(* "a kernel crash between write and rename can't leave Traefik reading a   *)
(* torn or zero-byte file" (reconcile.go:263-264): neither does any other   *)
(* failure, and neither will a crash that is still to come.                 *)
NeverTorn == \A f \in onDisk \cup {live} : f.data \in Contents \cup {Missing} /\ f.synced

(* A nil error means that readers get this call's content, also when the    *)
(* .tmp file of a killed call was there before; an error means that they    *)
(* get what they got before.                                               *)
ResultIsTrue ==
    [][result' # result =>
        /\ result' = "ok" => live'.data = content
        /\ result' = "error" => live' = live]_vars

(* The file a caller relies on. *)
Abstract == INSTANCE WholeFile
    WITH shown <- live.data, recent <- {f.data : f \in onDisk}

(* atomicWrite implements it: every behaviour of system calls and failures  *)
(* is one of whole contents.                                               *)
WholeFileSpec == Abstract!Spec
=============================================================================
