----------------------------- MODULE AddonsDown -----------------------------
(***************************************************************************)
(* `awsbnkctl down` over the same: the client of the cluster, the clean-up  *)
(* of Services and claims, phases 14b, 12 and 11b, the node group with its  *)
(* sweep for volumes, and, in one step, what comes after; then the          *)
(* specification of the whole.  Nothing here returns an error: a call that  *)
(* fails is a warning, and the down goes on.                                *)
(***************************************************************************)
EXTENDS Addons

Kept == UNCHANGED <<disk, mem>>

\* state.env has a kubeconfig, or one is made from the running cluster.
Client ==
  /\ At("client")
  /\ \/ cluster # None /\ api' = TRUE /\ pc' = "cleanSvc" /\ Told
     \/ cluster # None /\ UNCHANGED api /\ pc' = "untag" /\ Fault
        /\ lost' = lost \cup {p \in Places : lb[p] # "none"}
     \/ cluster = None /\ UNCHANGED api /\ pc' = "untag" /\ Told
  /\ UNCHANGED <<cloud, done, run>> /\ Kept

\* A Service is there, and goes when it is told to.
Served(p) == lb[p] \in {"on", "deleting"}

Unpublish(p, ok) ==
  /\ Served(p) \/ ok
  /\ lb' = [lb EXCEPT ![p] = IF Served(p) /\ ok THEN "deleting" ELSE @] /\ OnlyLb
  /\ IF ok THEN Told ELSE Dropped(ok, p)

\* Services of other namespaces are deleted, and not waited for.
CleanSvc ==
  /\ At("cleanSvc") /\ \E ok \in BOOLEAN : Unpublish("app", ok)
  /\ Goto("cleanPvc") /\ Kept

\* The claims of the namespaces the clean-up names.
CleanPvc ==
  /\ At("cleanPvc") /\ pvc' \in (IF pvc = "bound" THEN {"bound", "deleting"} ELSE {pvc})
  /\ UNCHANGED vol /\ OnlyStorage /\ Go("lbSvc")

-----------------------------------------------------------------------------
(* Phase 14b down.                                                          *)

\* deleteLBCServices: those of kube-system; one that is on its way out is waited for.
LbSvc ==
  /\ At("lbSvc") /\ \E ok \in BOOLEAN :
       /\ Unpublish("sys", ok)
       /\ Goto(IF ok /\ Served("sys") THEN "lbWait" ELSE "uninstall")
  /\ Kept

\* Mutant: the deletion is not waited for, as in CleanSvc.
LbGoneBug == At("lbWait") /\ UNCHANGED cloud /\ Go("uninstall")

LbGone == At("lbWait") /\ ~Served("sys") /\ UNCHANGED cloud /\ Go("uninstall")

\* Four minutes are over; with a sound controller that is a fault.
LbTimeout ==
  /\ At("lbWait") /\ Served("sys")
  /\ lost' = lost \cup {"sys"}
  /\ IF release = "deployed" /\ ControllerWorks THEN Fault ELSE UNCHANGED faults
  /\ UNCHANGED cloud /\ Goto("uninstall") /\ Kept

\* Whatever state the release is in.
Uninstall ==
  /\ At("uninstall")
  /\ IF release = "none" THEN UNCHANGED cloud /\ Go("untag")
     ELSE release' = "pending" /\ OnlyRelease /\ Go("uninstalling")

Uninstalled ==
  /\ At("uninstalling") /\ \E ok \in BOOLEAN :
       Tolerated(ok) /\ release' = IF ok THEN "none" ELSE release
  /\ OnlyRelease /\ Goto("untag") /\ Kept

Untag ==
  /\ At("untag") /\ \E ok \in BOOLEAN : Tolerated(ok) /\ tagged' = (tagged /\ ~ok)
  /\ UNCHANGED <<policy, role, attached>> /\ OnlyIam /\ Goto("detach") /\ Kept

\* Not in state.env and not found by name: passed over.
PolicyUnknown ==
  /\ At("detach") /\ ~mem
  /\ IF policy THEN Dropped(FALSE, "policy") ELSE Told
  /\ UNCHANGED cloud /\ Goto("delRole") /\ Kept

\* The ARN of state.env, or of the policy found by name.
DetachPolicy ==
  /\ At("detach") /\ (mem \/ policy)
  /\ mem' = TRUE
  /\ \E ok \in BOOLEAN : Tolerated(ok) /\ attached' = (attached /\ ~ok)
  /\ UNCHANGED <<policy, role, tagged>> /\ OnlyIam /\ Goto("delPolicy") /\ UNCHANGED disk

\* DeletePolicy is refused while the policy is attached.  The key is kept for the
\* next down when it fails.
DelPolicy ==
  /\ At("delPolicy")
  /\ \E ok \in BOOLEAN :
       /\ attached => ~ok
       /\ policy' = (policy /\ ~ok) /\ mem' = ~ok
       /\ IF attached THEN Told
          ELSE IF ok THEN lost' = lost \ {"policy"} /\ UNCHANGED faults ELSE Tolerated(ok)
  /\ UNCHANGED <<role, attached, tagged>> /\ OnlyIam /\ Goto("delRole") /\ UNCHANGED disk

\* deleteRole: what is attached is detached, then the role goes; an error ends it.
DelRole ==
  /\ At("delRole") /\ role # None
  /\ \/ /\ attached /\ attached' = FALSE /\ UNCHANGED <<policy, role, tagged>>
        /\ Told /\ UNCHANGED <<pc, api, done, run>>
     \/ /\ ~attached /\ role' = None /\ UNCHANGED <<policy, attached, tagged>>
        /\ Dropped(TRUE, "role") /\ Goto("save14bDown")
     \/ /\ UNCHANGED iam /\ Dropped(FALSE, "role") /\ Goto("save14bDown")
  /\ OnlyIam /\ Kept

RoleGone ==
  /\ At("delRole") /\ role = None
  /\ Dropped(TRUE, "role") /\ UNCHANGED cloud /\ Goto("save14bDown") /\ Kept

Save14bDown == At("save14bDown") /\ SaveAnd("namespaces")

-----------------------------------------------------------------------------
(* Phase 12 down takes the namespaces and the claims in them; phase 11b the *)
(* add-on, for which it waits 90 seconds at most.  Both do nothing without  *)
(* a client.                                                                *)

Namespaces ==
  /\ At("namespaces") /\ \E ok \in BOOLEAN :
       /\ Tolerated(ok)
       /\ pvc' = IF api /\ ok /\ pvc = "bound" THEN "deleting" ELSE pvc
  /\ UNCHANGED vol /\ OnlyStorage /\ Goto("addonDown") /\ Kept

AddonDown ==
  /\ At("addonDown") /\ \E ok \in BOOLEAN :
       /\ Tolerated(ok)
       /\ addon' = IF api /\ ok /\ addon # "none" THEN "deleting" ELSE addon
  /\ OnlyAddon /\ disk' = mem /\ Goto("nodes") /\ UNCHANGED mem

-----------------------------------------------------------------------------
(* Phase 10 down: the nodes, then deleteClusterVolumes.                     *)

Nodes ==
  /\ At("nodes") /\ nodes' = FALSE
  /\ UNCHANGED <<cluster, iam, addon, release, lb, storage>> /\ Go("sweep")

\* Mutant: one listing, and what is still attached in it is passed over.
SweepBug ==
  /\ At("sweep") /\ vol' = (IF vol = "available" THEN "none" ELSE vol)
  /\ UNCHANGED pvc /\ OnlyStorage /\ Go("clusterDown")

\* Volumes that still detach are waited for, two minutes long.  A listing or a
\* deletion that fails, or a volume that does not let go in time, is left.
Sweep ==
  /\ At("sweep")
  /\ \/ vol # "attached" /\ vol' = "none" /\ Dropped(TRUE, "vol")
     \/ vol # "none" /\ UNCHANGED vol /\ Dropped(FALSE, "vol")
  /\ UNCHANGED pvc /\ OnlyStorage /\ Goto("clusterDown") /\ Kept

ClusterDown ==
  /\ At("clusterDown") /\ ClusterGoes /\ End("down") /\ Told /\ UNCHANGED disk

DownStep ==
  \/ Client \/ CleanSvc \/ CleanPvc \/ LbSvc \/ LbGone \/ LbTimeout
  \/ Uninstall \/ Uninstalled \/ Untag \/ PolicyUnknown \/ DetachPolicy \/ DelPolicy
  \/ DelRole \/ RoleGone \/ Save14bDown \/ Namespaces \/ AddonDown \/ Nodes \/ Sweep
  \/ ClusterDown

-----------------------------------------------------------------------------
Outside == CloudStep /\ UNCHANGED <<disk, mem, api, pc, done, run, lost, faults>>

Next ==
  \/ StartUp \/ StartDown \/ UpStep \/ DownStep \/ Abort \/ LoseFiles
  \/ Publish \/ Claim \/ Outside

Spec == Init /\ [][Next]_vars
=============================================================================
