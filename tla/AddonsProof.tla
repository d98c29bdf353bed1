---------------------------- MODULE AddonsProof ----------------------------
(***************************************************************************)
(* What `up` builds, what holds the NLBs, and what `down` leaves, for any   *)
(* number of runs and faults.                                               *)
(*                                                                          *)
(* The three properties lean on each other.  A role is made for the cluster *)
(* there is (Trust), and a cluster goes only after its role (DownFacts): so *)
(* a role found by a later `up` fits.  The controller is taken apart only   *)
(* after its NLBs are gone (NlbsDone); what is reported left behind is      *)
(* nowhere forgotten before it is gone.                                     *)
(***************************************************************************)
EXTENDS AddonsProps, TLAPS

\* Where `down` is from the uninstallation of the controller on, from the deletion
\* of its role on, and from the Save of phase 14b on.
Saved    == {"namespaces", "addonDown", "nodes", "sweep", "clusterDown"}
RoleDone == {"save14bDown"} \cup Saved
NlbsDone == {"uninstall", "uninstalling", "untag", "detach", "delPolicy", "delRole"} \cup RoleDone

\* What the steps of `up` have made stays until it ends.
UpFacts ==
  /\ pc \in UpPoints => run \in Runs
  /\ pc \in UpPoints \ {"foundation"} => nodes
  /\ pc \in {"policy", "role", "attach", "tags", "helm", "install", "save14b"} => addon = "active"
  /\ pc \in {"role", "attach", "tags", "helm", "install", "save14b"} => policy /\ mem
  /\ pc \in {"attach", "tags", "helm", "install", "save14b"} => role # None
  /\ pc \in {"tags", "helm", "install", "save14b"} => attached
  /\ pc = "save14b" => release = "deployed"

\* A role trusts the provider of the cluster there is, and nodes have a cluster.
Trust ==
  /\ role # None => role = cluster \/ "role" \in lost
  /\ nodes => cluster # None

\* NLBs without a cluster are known to be lost.
Orphans == lb["sys"] = "orphan" => "sys" \in lost

DownFacts ==
  /\ pc \in NlbsDone => lb["sys"] = "none" \/ "sys" \in lost
  /\ pc \in RoleDone => role = None \/ "role" \in lost
  /\ pc \in RoleDone \cup {"delRole"} => (policy => mem \/ "policy" \in lost)
  /\ pc \in Saved => disk = mem
  /\ pc \in {"sweep", "clusterDown"} => ~nodes
  /\ pc = "clusterDown" => vol = "none" \/ "vol" \in lost

Reports ==
  /\ done # "none" => pc = "idle"
  /\ done = "down" => ~nodes

\* The inductive invariant.
IInv ==
  /\ TypeOK /\ UpFacts /\ Trust /\ Orphans /\ DownFacts /\ Reports
  /\ UpBuilds /\ NlbHeld /\ DownClean

-----------------------------------------------------------------------------
\* Numbers of runs and of faults.
LEMMA Numbers ==
  /\ None \in Ref /\ None \notin Runs /\ Runs \subseteq Ref
  /\ \A r \in Ref : r < MaxUps => r + 1 \in Runs
  /\ 0 \in 0 .. MaxFaults
  /\ \A f \in 0 .. MaxFaults : f < MaxFaults => f + 1 \in 0 .. MaxFaults
<1>1. \A f \in 0 .. MaxFaults : f < MaxFaults => f + 1 \in 0 .. MaxFaults
  BY AddonsAssumption
<1>2. QED BY <1>1, AddonCloudAssumption, AddonsAssumption DEF Ref, Runs, None

\* The parts of TypeOK the provers take one at a time.
References == cluster \in Ref /\ role \in Ref /\ run \in Ref
Flags ==
  /\ nodes \in BOOLEAN /\ policy \in BOOLEAN /\ attached \in BOOLEAN /\ tagged \in BOOLEAN
  /\ disk \in BOOLEAN /\ mem \in BOOLEAN /\ api \in BOOLEAN
Conditions ==
  /\ addon \in {"none", "creating", "active", "failed", "deleting"}
  /\ release \in {"none", "pending", "deployed", "failed"}
  /\ pvc \in {"none", "bound", "deleting"} /\ vol \in {"none", "attached", "available"}
  /\ done \in {"none", "up", "down", "up refused"}
Place    == pc \in {"idle"} \cup UpPoints \cup DownPoints
Services == lb \in [Places -> {"none", "on", "deleting", "orphan"}]
Losses   == lost \subseteq Places \cup {"policy", "role", "vol"}
Faults   == faults \in 0 .. MaxFaults

\* Together they are TypeOK.
LEMMA TypeParts ==
  TypeOK <=> References /\ Flags /\ Conditions /\ Place /\ Services /\ Losses /\ Faults
  BY DEF TypeOK, CloudTypeOK, References, Flags, Conditions, Place, Services, Losses, Faults

\* Every step of `up` keeps the invariant.
LEMMA UpSteps == ASSUME IInv, UpStep PROVE IInv'
<1> USE DEF At, Goto, Go, Told, Fault, End, Dropped, Tolerated, SaveAnd, iam, storage, cloud,
      UpStep, Foundation, Addon, AddonReady, AddonRefused, Policy, Role, AttachPolicy, Tags,
      HelmSame, HelmUpgrade, HelmInstall, HelmRefused, Installed, InstallFails, UpDone,
      Refuse, Fail, Listed, OnlyIam, OnlyAddon, OnlyRelease
<1>0. /\ References /\ Flags /\ Conditions /\ Place /\ Services /\ Losses /\ Faults
      /\ UpFacts /\ Trust /\ Orphans /\ DownFacts /\ Reports /\ UpBuilds /\ NlbHeld /\ DownClean
  BY TypeParts DEF IInv
<1>1. References' BY <1>0, Numbers DEF References
<1>2. Flags'
  <2>1. nodes' \in BOOLEAN /\ policy' \in BOOLEAN /\ attached' \in BOOLEAN /\ tagged' \in BOOLEAN
    BY <1>0 DEF Flags
  <2>2. disk' \in BOOLEAN /\ mem' \in BOOLEAN /\ api' \in BOOLEAN BY <1>0 DEF Flags
  <2>3. QED BY <2>1, <2>2 DEF Flags
<1>3. Conditions' BY <1>0 DEF Conditions
<1>4. Place' BY <1>0 DEF Place, UpPoints, DownPoints
<1>5. Services' BY <1>0 DEF Services, Places
<1>6. Losses' BY <1>0 DEF Losses, Places
<1>7. Faults' BY <1>0, Numbers DEF Faults
<1>8. UpFacts' BY <1>0, Numbers DEF UpFacts, Trust, UpPoints
<1>9. Trust' BY <1>0, Numbers DEF Trust, UpFacts, UpPoints
<1>10. Orphans' BY <1>0 DEF Orphans, Services, Places
<1>11. DownFacts' BY <1>0 DEF DownFacts, NlbsDone, RoleDone, Saved
<1>12. Reports' BY <1>0 DEF Reports
<1>13. UpBuilds' BY <1>0 DEF UpBuilds, UpFacts, Trust, Reports
<1>14. NlbHeld' BY <1>0 DEF NlbHeld, ControllerWorks, UpFacts, Trust, UpPoints
<1>15. DownClean' BY <1>0 DEF DownClean, Reports
<1>16. TypeOK'
  BY <1>1, <1>2, <1>3, <1>4, <1>5, <1>6, <1>7
  DEF TypeOK, CloudTypeOK, References, Flags, Conditions, Place, Services,
    Losses, Faults
<1>17. QED BY <1>8, <1>9, <1>10, <1>11, <1>12, <1>13, <1>14, <1>15, <1>16 DEF IInv

\* Every step of `down` keeps it too.
LEMMA DownSteps == ASSUME IInv, DownStep PROVE IInv'
<1> USE DEF At, Goto, Go, Told, Fault, End, Dropped, Tolerated, SaveAnd, iam, storage, cloud,
      DownStep, Client, CleanSvc, CleanPvc, LbSvc, LbGone, LbTimeout, Uninstall, Uninstalled,
      Untag, PolicyUnknown, DetachPolicy, DelPolicy, DelRole, RoleGone, Save14bDown,
      Namespaces, AddonDown, Nodes, Sweep, ClusterDown, ClusterGoes, Kept, Served, Unpublish,
      OnlyIam, OnlyAddon, OnlyRelease, OnlyLb, OnlyStorage
<1>0. /\ References /\ Flags /\ Conditions /\ Place /\ Services /\ Losses /\ Faults
      /\ UpFacts /\ Trust /\ Orphans /\ DownFacts /\ Reports /\ UpBuilds /\ NlbHeld /\ DownClean
  BY TypeParts DEF IInv
<1>1. References' BY <1>0, Numbers DEF References
<1>2. Flags'
  <2>1. nodes' \in BOOLEAN /\ policy' \in BOOLEAN /\ attached' \in BOOLEAN /\ tagged' \in BOOLEAN
    BY <1>0 DEF Flags
  <2>2. disk' \in BOOLEAN /\ mem' \in BOOLEAN /\ api' \in BOOLEAN BY <1>0 DEF Flags
  <2>3. QED BY <2>1, <2>2 DEF Flags
<1>3. Conditions' BY <1>0 DEF Conditions
<1>4. Place' BY <1>0 DEF Place, DownPoints
<1>5. Services' BY <1>0 DEF Services
<1>6. Losses' BY <1>0 DEF Losses, Places
<1>7. Faults' BY <1>0, Numbers DEF Faults
<1>8. UpFacts' BY <1>0 DEF UpFacts, UpPoints
<1>9. Trust' BY <1>0 DEF Trust, DownFacts, RoleDone, Saved
<1>10. Orphans'
  BY <1>0 DEF Orphans, DownFacts, NlbsDone, RoleDone, Saved, Services, Places
<1>11. DownFacts'
  BY <1>0
  DEF DownFacts, NlbsDone, RoleDone, Saved, NlbHeld, ControllerWorks, Orphans,
    Trust, Services, Places
<1>12. Reports' BY <1>0 DEF Reports
<1>13. UpBuilds' BY <1>0 DEF UpBuilds, Reports
<1>14. NlbHeld'
  BY <1>0
  DEF NlbHeld, ControllerWorks, DownFacts, NlbsDone, RoleDone, Saved, Services,
    Places
<1>15. DownClean' BY <1>0 DEF DownClean, DownFacts, RoleDone, Saved
<1>16. TypeOK'
  BY <1>1, <1>2, <1>3, <1>4, <1>5, <1>6, <1>7
  DEF TypeOK, CloudTypeOK, References, Flags, Conditions, Place, Services,
    Losses, Faults
<1>17. QED BY <1>8, <1>9, <1>10, <1>11, <1>12, <1>13, <1>14, <1>15, <1>16 DEF IInv

\* So does what happens around them: commands start and are cut off, and AWS, the
\* controllers and people have steps of their own.
LEMMA OtherSteps ==
  ASSUME IInv, StartUp \/ StartDown \/ Abort \/ LoseFiles \/ Publish \/ Claim \/ Outside
  PROVE  IInv'
<1> USE DEF At, Goto, Go, Told, Fault, End, Dropped, Tolerated, SaveAnd, iam, storage, cloud,
      StartUp, StartDown, Abort, LoseFiles, Publish, Claim, Outside, CloudStep,
      AddonSettles, AddonGoes, NlbGoes, Detach, Attach, Reclaim,
      OnlyAddon, OnlyLb, OnlyStorage
<1>0. /\ References /\ Flags /\ Conditions /\ Place /\ Services /\ Losses /\ Faults
      /\ UpFacts /\ Trust /\ Orphans /\ DownFacts /\ Reports /\ UpBuilds /\ NlbHeld /\ DownClean
  BY TypeParts DEF IInv
<1>1. References' BY <1>0, Numbers DEF References
<1>2. Flags' BY <1>0 DEF Flags
<1>3. Conditions' BY <1>0 DEF Conditions
<1>4. Place' BY <1>0 DEF Place, UpPoints, DownPoints
<1>5. Services' BY <1>0 DEF Services
<1>6. Losses' BY <1>0 DEF Losses
<1>7. Faults' BY <1>0, Numbers DEF Faults
<1>8. UpFacts' BY <1>0, Numbers DEF UpFacts, References, UpPoints
<1>9. Trust' BY <1>0 DEF Trust, Places
<1>10. Orphans' BY <1>0 DEF Orphans, Services, Places
<1>11. DownFacts' BY <1>0 DEF DownFacts, NlbsDone, RoleDone, Saved, Services, Places
<1>12. Reports' BY <1>0 DEF Reports
<1>13. UpBuilds' BY <1>0 DEF UpBuilds, Places
<1>14. NlbHeld' BY <1>0 DEF NlbHeld, ControllerWorks
<1>15. DownClean' BY <1>0 DEF DownClean, Reports, DriverWorks, Places
<1>16. TypeOK'
  BY <1>1, <1>2, <1>3, <1>4, <1>5, <1>6, <1>7
  DEF TypeOK, CloudTypeOK, References, Flags, Conditions, Place, Services,
    Losses, Faults
<1>17. QED BY <1>8, <1>9, <1>10, <1>11, <1>12, <1>13, <1>14, <1>15, <1>16 DEF IInv

-----------------------------------------------------------------------------
\* The invariant is inductive: it holds in every reachable state, whatever is
\* interrupted, fails or is lost, and however often.
THEOREM InductiveInvariant == Spec => []IInv
<1>1. Init => IInv
  <2>1. SUFFICES ASSUME Init PROVE IInv OBVIOUS
  <2>2. TypeOK BY <2>1, Numbers DEF Init, CloudInit, TypeOK, CloudTypeOK, None
  <2>3. QED BY <2>1, <2>2 DEF Init, CloudInit, IInv, UpFacts, Trust, Orphans, DownFacts, Reports,
    UpBuilds, NlbHeld, DownClean, UpPoints, NlbsDone, RoleDone, Saved, Places
<1>2. IInv /\ [Next]_vars => IInv'
  <2>1. IInv /\ Next => IInv' BY UpSteps, DownSteps, OtherSteps DEF Next
  <2>2. ASSUME IInv, UNCHANGED vars PROVE IInv'
    <3> USE <2>2 DEF vars, cloud, iam, storage, IInv
    <3>1. TypeOK'
      <4>1. References' /\ Flags' /\ Place'
        BY TypeParts DEF References, Flags, Place
      <4>2. Conditions' /\ Services' /\ Losses' /\ Faults'
        BY TypeParts DEF Conditions, Services, Losses, Faults
      <4>3. QED BY <4>1, <4>2 DEF TypeOK, CloudTypeOK, References, Flags, Conditions, Place,
        Services, Losses, Faults
    <3>2. UpFacts' /\ DownFacts' BY DEF UpFacts, DownFacts
    <3>3. Trust' /\ Orphans' /\ Reports' BY DEF Trust, Orphans, Reports
    <3>4. UpBuilds' /\ NlbHeld' /\ DownClean' BY DEF UpBuilds, NlbHeld, ControllerWorks, DownClean
    <3>5. QED BY <3>1, <3>2, <3>3, <3>4
  <2>3. QED BY <2>1, <2>2
<1>3. QED BY <1>1, <1>2, PTL DEF Spec

\* Phases 11b and 14b that report success leave a driver that works and a controller
\* that is let into AWS.
THEOREM UpLeavesAddons == Spec => []UpBuilds
<1>1. IInv => UpBuilds BY DEF IInv
<1>2. QED BY <1>1, InductiveInvariant, PTL

\* No NLB of kube-system is left without the controller that can take it down,
\* unless a warning of Phase14bLBControllerDown, or of the client, said so.
THEOREM NlbsAreHeld == Spec => []NlbHeld
<1>1. IInv => NlbHeld BY DEF IInv
<1>2. QED BY <1>1, InductiveInvariant, PTL

\* A down that reports success leaves no volume, role or policy it did not warn about.
THEOREM DownLeavesNothing == Spec => []DownClean
<1>1. IInv => DownClean BY DEF IInv
<1>2. QED BY <1>1, InductiveInvariant, PTL
=============================================================================
