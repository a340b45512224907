------------------------------ MODULE CertStore ------------------------------
(***************************************************************************)
(* What certgen promises to whoever calls POST /reissue.  There is one     *)
(* served certificate.  A request changes it to exactly the SAN list it    *)
(* asked for, at one instant between its arrival and its answer, or not at *)
(* all; "ok" is answered at an instant at which the served certificate has *)
(* the requested SANs.  A request whose client has left may still be       *)
(* served, but never after a request that was answered "ok" meanwhile:     *)
(* what a client was told stays true until somebody asks for a change.     *)
(* The certificate and its key are two files: from the time the key of a   *)
(* request is on disk until its certificate is, or if it never is, the two *)
(* do not match, and an "ok" for the SANs that are served already does not *)
(* mend that.                                                              *)
(* Locks, temporary files, mkcert and renames do not appear here: Certgen  *)
(* has them, and implements this module; Mesh builds on it.                *)
(***************************************************************************)
CONSTANTS Conns,     \* connections a client may send a request on
          SanSets,   \* SAN lists a client may ask for
          NoCert     \* no certificate has been issued yet

VARIABLES served,    \* SAN list of the certificate file, or NoCert
          split,     \* the key file is not that of the certificate file
          stage,     \* "none", "pending", "orphaned" or "answered"
          goal,      \* SAN list an unfinished request asked for, NoCert otherwise
          answer     \* "none", "ok" or "error"

vars == <<served, split, stage, goal, answer>>

Init == /\ served = NoCert
        /\ split = FALSE
        /\ stage = [c \in Conns |-> "none"]
        /\ goal = [c \in Conns |-> NoCert]
        /\ answer = [c \in Conns |-> "none"]

Ask(c, s) == /\ stage[c] = "none"
             /\ stage' = [stage EXCEPT ![c] = "pending"]
             /\ goal' = [goal EXCEPT ![c] = s]
             /\ UNCHANGED <<served, split, answer>>

(* The request is over: the answer waits for the client. *)
Answer(c, a) == /\ stage' = [stage EXCEPT ![c] = "answered"]
                /\ answer' = [answer EXCEPT ![c] = a]
                /\ goal' = [goal EXCEPT ![c] = NoCert]

(* A request that is refused before it is looked at. *)
Refuse(c) == /\ stage[c] = "none"
             /\ Answer(c, "error")
             /\ UNCHANGED <<served, split>>

(* The key of the request is on disk, its certificate is not. *)
Split(c) == /\ stage[c] \in {"pending", "orphaned"}
            /\ ~split
            /\ split' = TRUE
            /\ UNCHANGED <<served, stage, goal, answer>>

(* A certificate for the SANs of the request, with its key. *)
Issue(c) == /\ served' = goal[c]
            /\ split' = FALSE

(* A new certificate, or the one that is there has these SANs. *)
Succeed(c) == /\ stage[c] = "pending"
              /\ \A d \in Conns : stage[d] # "orphaned"
              /\ Issue(c) \/ (served = goal[c] /\ UNCHANGED <<served, split>>)
              /\ Answer(c, "ok")

Fail(c) == /\ stage[c] = "pending"
           /\ Answer(c, "error")
           /\ UNCHANGED <<served, split>>

Drop(c) == /\ stage' = [stage EXCEPT ![c] = "none"]
           /\ goal' = [goal EXCEPT ![c] = NoCert]

(* The client leaves: its request is dropped, or is too far to be stopped. *)
Leave(c) == /\ stage[c] = "pending"
            /\ \/ Drop(c)
               \/ /\ stage' = [stage EXCEPT ![c] = "orphaned"]
                  /\ UNCHANGED goal
            /\ UNCHANGED <<served, split, answer>>

(* The request without a client takes effect, or fails. *)
Settle(c) == /\ stage[c] = "orphaned"
             /\ Issue(c) \/ UNCHANGED <<served, split>>
             /\ Drop(c)
             /\ UNCHANGED answer

(* The client takes its answer, or leaves without it. *)
Collect(c) == /\ stage[c] = "answered"
              /\ Drop(c)
              /\ answer' = [answer EXCEPT ![c] = "none"]
              /\ UNCHANGED <<served, split>>

(* The process dies: no request survives, the files do. *)
Crash == /\ stage' = [c \in Conns |-> "none"]
         /\ goal' = [c \in Conns |-> NoCert]
         /\ answer' = [c \in Conns |-> "none"]
         /\ UNCHANGED <<served, split>>

Next == \/ \E c \in Conns, s \in SanSets : Ask(c, s)
        \/ \E c \in Conns : \/ Refuse(c) \/ Succeed(c) \/ Fail(c) \/ Collect(c)
                            \/ Leave(c) \/ Split(c) \/ Settle(c)
        \/ Crash

Spec == Init /\ [][Next]_vars
=============================================================================
