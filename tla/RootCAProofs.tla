----------------------------- MODULE RootCAProofs -----------------------------
(***************************************************************************)
(* RootCA: its types, that the trust of peers and the backup survive         *)
(* everything but the removal of the volume, and that no peer installs a     *)
(* root under which no certificate was ever served, for any peers and any    *)
(* bounds.                                                                 *)
(***************************************************************************)
EXTENDS RootCA, TLAPS

(* Until somebody removes the volume there is one CA at most, and it is the  *)
(* one on the volume.                                                      *)
OneCA == ~removed => ca = made /\ made <= 1

(* An exported root, even a broken one, is of a CA that was made. *)
Exported ==
    /\ rootPem # 0 => made > 0
    /\ pc = "backup" => rootPem # 0

(* What was verified was shown by the live endpoint. *)
Shown ==
    /\ cert # 0 => cert \in shown
    /\ \A p \in Peers : /\ peer[p] # "idle" => got[p] # 0
                        /\ peer[p] = "verified" => got[p] \in shown

RootCAInv ==
    /\ TypeOK
    /\ certgen \in {"binding", "serving"} => ca # 0
    /\ ca = 0 => made < MaxCAs
    /\ ~stack => certgen = "off"
    /\ OneCA
    /\ Exported
    /\ BackupNotEmpty
    /\ Shown
    /\ InstalledWasLive

LEMMA RootCAInvInit == Init => RootCAInv
<1>. SUFFICES ASSUME Init PROVE RootCAInv
  OBVIOUS
<1>1. stack \in BOOLEAN /\ sock \in BOOLEAN /\ removed \in BOOLEAN
  BY DEF Init
<1>2. peer \in [Peers -> {"idle", "downloaded", "verified"}] /\ got \in [Peers -> 0..made]
  BY DEF Init
<1>3. trusted \in [Peers -> SUBSET (1..made)] /\ \A p \in Peers : peer[p] = "idle" /\ trusted[p] = {}
  BY DEF Init
<1>4. TypeOK
  BY <1>1, <1>2, <1>3, RootCAAssumption DEF RootCAAssumption, Init, TypeOK, None
<1>. QED
  BY <1>3, <1>4, RootCAAssumption
     DEF RootCAAssumption, Init, RootCAInv, OneCA, Exported, BackupNotEmpty, Shown,
         InstalledWasLive, None

(* What certgen does. *)
LEMMA CertgenStep ==
    ASSUME RootCAInv, Certgen \/ InstallFails \/ Kill \/ NewSans
    PROVE  RootCAInv'
<1>. USE RootCAAssumption
     DEF RootCAAssumption, RootCAInv, TypeOK, OneCA, Exported, BackupNotEmpty, Shown,
         InstalledWasLive, None, Broken
<1>1. CASE InstallCA
  <2>1. made' \in 0..MaxCAs /\ made <= made' /\ ca' \in 1..made'
    BY <1>1 DEF InstallCA
  <2>. QED
    BY <1>1, <2>1 DEF InstallCA, host, peers
<1>2. CASE Bind
  BY <1>2 DEF Bind, host, peers
<1>3. CASE Restart
  BY <1>3 DEF Restart, host, volumes, peers
<1>4. CASE FirstReissue
  BY <1>4 DEF FirstReissue, Sign, host, peers
<1>5. CASE InstallFails
  BY <1>5 DEF InstallFails, host, volumes, peers
<1>6. CASE Kill
  BY <1>6 DEF Kill, host, volumes, peers
<1>7. CASE NewSans
  BY <1>7 DEF NewSans, Sign, host, peers
<1>. QED
  BY <1>1, <1>2, <1>3, <1>4, <1>5, <1>6, <1>7 DEF Certgen

(* What bootstrap.sh does. *)
LEMMA ScriptStep ==
    ASSUME RootCAInv, Script \/ Up
    PROVE  RootCAInv'
<1>. USE DEF RootCAInv, TypeOK, OneCA, Exported, BackupNotEmpty, Shown, InstalledWasLive,
             None, Broken
<1>1. CASE Up
  BY <1>1 DEF Up, volumes, peers
<1>2. CASE ComposeUp
  BY <1>2 DEF ComposeUp, volumes, peers
<1>3. CASE Healthy \/ Unhealthy
  BY <1>3 DEF Healthy, Unhealthy, volumes, peers
<1>4. CASE Export \/ ExportFails
  <2>1. rootPem' \in {Broken} \cup 0..made
    BY <1>4 DEF Export, ExportFails
  <2>2. ca # 0 => made > 0
    OBVIOUS
  <2>3. /\ pc' \in {"idle", "backup"}
        /\ pc' = "backup" => rootPem' # 0
        /\ ca # 0
        /\ UNCHANGED <<backup, stack, certgen, volumes, peers, removed>>
    BY <1>4 DEF Export, ExportFails
  <2>. QED
    BY <2>1, <2>2, <2>3 DEF volumes, peers
<1>5. CASE Timeout
  BY <1>5 DEF Timeout, volumes, peers
<1>6. CASE Backup \/ BackupFails
  <2>1. ~removed => ca # 0
    BY <1>6 DEF Backup, BackupFails
  <2>2. backup' \in {None, Broken} \cup 0..made /\ (~removed => backup' # 0)
    BY <1>6, <2>1 DEF Backup, BackupFails
  <2>3. pc' = "idle" /\ UNCHANGED <<rootPem, stack, certgen, volumes, peers, removed>>
    BY <1>6 DEF Backup, BackupFails
  <2>. QED
    BY <2>2, <2>3 DEF volumes, peers
<1>. QED
  BY <1>1, <1>2, <1>3, <1>4, <1>5, <1>6 DEF Script

(* What the user does. *)
LEMMA UserStep ==
    ASSUME RootCAInv, Down \/ DownVolumes \/ RemoveVolume \/ Restore
    PROVE  RootCAInv'
<1>. USE DEF RootCAInv, TypeOK, OneCA, Exported, BackupNotEmpty, Shown, InstalledWasLive,
             None, Broken
<1>1. CASE Down
  BY <1>1 DEF Down, host, peers
<1>2. CASE DownVolumes
  <2>1. ~stack' /\ ~sock' /\ stack' \in BOOLEAN /\ sock' \in BOOLEAN
    BY <1>2 DEF DownVolumes
  <2>2. /\ certgen' = "off" /\ cert' = 0
        /\ UNCHANGED <<host, ca, made, sans, shown, peers, removed>>
    BY <1>2 DEF DownVolumes
  <2>. QED
    BY <2>1, <2>2 DEF host, peers
<1>3. CASE RemoveVolume
  <2>1. removed' /\ removed' \in BOOLEAN
    BY <1>3 DEF RemoveVolume
  <2>2. /\ ca' = 0 /\ made < MaxCAs /\ ~stack
        /\ UNCHANGED <<host, stack, certgen, sock, made, cert, sans, shown, peers>>
    BY <1>3 DEF RemoveVolume
  <2>. QED
    BY <2>1, <2>2 DEF host, peers
<1>4. CASE Restore
  BY <1>4 DEF Restore, host, peers
<1>. QED
  BY <1>1, <1>2, <1>3, <1>4

(* What a peer does. *)
LEMMA PeerStep ==
    ASSUME RootCAInv, NEW p \in Peers, Download(p) \/ Verify(p) \/ Install(p)
    PROVE  RootCAInv'
<1>. USE DEF RootCAInv, TypeOK, OneCA, Exported, BackupNotEmpty, Shown, InstalledWasLive
<1>1. CASE Download(p)
  BY <1>1 DEF Download, host, volumes
<1>2. CASE Verify(p)
  BY <1>2 DEF Verify, host, volumes
<1>3. CASE Install(p)
  BY <1>3 DEF Install, host, volumes
<1>. QED
  BY <1>1, <1>2, <1>3

LEMMA RootCAInvAlways == Spec => []RootCAInv
<1>1. RootCAInv /\ [Next]_vars => RootCAInv'
  <2>1. RootCAInv /\ UNCHANGED vars => RootCAInv'
    BY DEF vars, host, volumes, peers, RootCAInv, TypeOK, OneCA, Exported, BackupNotEmpty, Shown, InstalledWasLive
  <2>. QED
    BY <2>1, CertgenStep, ScriptStep, UserStep, PeerStep DEF Next
<1>. QED
  BY <1>1, RootCAInvInit, PTL DEF Spec

(* RootCA is type correct; certgen never serves without a CA. *)
THEOREM RootCATyping == Spec => []TypeOK
<1>1. RootCAInv => TypeOK
  BY DEF RootCAInv
<1>. QED
  BY <1>1, RootCAInvAlways, PTL

(* A peer that has installed the root accepts every certificate, unless      *)
(* somebody has removed the volume.                                        *)
THEOREM RootCATrust == Spec => []TrustSurvives
<1>1. RootCAInv => TrustSurvives
  BY DEF RootCAInv, TypeOK, OneCA, TrustSurvives
<1>. QED
  BY <1>1, RootCAInvAlways, PTL

(* No peer installs a root that no served certificate was signed by. *)
THEOREM RootCAInstalled == Spec => []InstalledWasLive
<1>1. RootCAInv => InstalledWasLive
  BY DEF RootCAInv
<1>. QED
  BY <1>1, RootCAInvAlways, PTL

(* Until somebody removes the volume no backup is of an empty one: a run     *)
(* comes to the backup only with a root-ca.pem, and there was none before   *)
(* the first CA, which no start of certgen takes away.                     *)
THEOREM RootCABackup == Spec => []BackupNotEmpty
<1>1. RootCAInv => BackupNotEmpty
  BY DEF RootCAInv
<1>. QED
  BY <1>1, RootCAInvAlways, PTL
=============================================================================
