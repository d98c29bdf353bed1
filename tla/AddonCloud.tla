----------------------------- MODULE AddonCloud -----------------------------
(***************************************************************************)
(* What phases 11b and 14b drive outside the process: the EBS CSI add-on of *)
(* EKS, the IAM policy and role of the load balancer controller, its Helm   *)
(* release, and what the two controllers own on behalf of the cluster: load *)
(* balancers (NLBs) of Services and EBS volumes of claims.  None of it is   *)
(* code of the repository; it is what the phases rely on.                   *)
(*                                                                          *)
(* A cluster is the number of the `up` that created it.                     *)
(***************************************************************************)
EXTENDS Naturals, FiniteSets

CONSTANT MaxUps   \* bound: runs of `up`

ASSUME AddonCloudAssumption == MaxUps \in Nat

Runs == 1 .. MaxUps
None == 0
Ref  == Runs \cup {None}

Places == {"sys", "app"}    \* Services in kube-system, and in other namespaces

VARIABLES
  cluster,   \* the control plane with its OIDC provider
  nodes,     \* it has nodes
  policy,    \* the controller's IAM policy exists
  role,      \* its role: the cluster whose provider it trusts
  attached,  \* the policy is attached to the role
  tagged,    \* the external subnet carries the controller's tags
  addon,     \* aws-ebs-csi-driver
  release,   \* the Helm release; "pending" also when it is being uninstalled
  lb,        \* a LoadBalancer Service with its NLB; "orphan": the NLB alone
  pvc, vol   \* a claim of BNK, and the volume behind it

iam     == <<policy, role, attached, tagged>>
storage == <<pvc, vol>>
cloud   == <<cluster, nodes, iam, addon, release, lb, storage>>

CloudTypeOK ==
  /\ cluster \in Ref /\ nodes \in BOOLEAN
  /\ policy \in BOOLEAN /\ role \in Ref /\ attached \in BOOLEAN /\ tagged \in BOOLEAN
  /\ addon \in {"none", "creating", "active", "failed", "deleting"}
  /\ release \in {"none", "pending", "deployed", "failed"}
  /\ lb \in [Places -> {"none", "on", "deleting", "orphan"}]
  /\ pvc \in {"none", "bound", "deleting"} /\ vol \in {"none", "attached", "available"}

CloudInit ==
  /\ cluster = None /\ nodes = FALSE
  /\ policy = FALSE /\ role = None /\ attached = FALSE /\ tagged = FALSE
  /\ addon = "none" /\ release = "none"
  /\ lb = [p \in Places |-> "none"] /\ pvc = "none" /\ vol = "none"

-----------------------------------------------------------------------------
OnlyIam     == UNCHANGED <<cluster, nodes, addon, release, lb, storage>>
OnlyAddon   == UNCHANGED <<cluster, nodes, iam, release, lb, storage>>
OnlyRelease == UNCHANGED <<cluster, nodes, iam, addon, lb, storage>>
OnlyLb      == UNCHANGED <<cluster, nodes, iam, addon, release, storage>>
OnlyStorage == UNCHANGED <<cluster, nodes, iam, addon, release, lb>>

\* The load balancer controller runs and is let into AWS.
ControllerWorks ==
  /\ release # "none" /\ nodes
  /\ policy /\ attached /\ role = cluster

DriverWorks == addon = "active" /\ nodes

-----------------------------------------------------------------------------
AddonSettles ==
  /\ addon = "creating" /\ addon' \in {"active", "failed"} /\ OnlyAddon

AddonGoes == addon = "deleting" /\ addon' = "none" /\ OnlyAddon

\* The controller's finalizer lets the Service go when its NLB is gone.
NlbGoes(p) ==
  /\ lb[p] = "deleting" /\ ControllerWorks
  /\ lb' = [lb EXCEPT ![p] = "none"] /\ OnlyLb

\* The pod that uses the claim is gone: BNK went before its claim, or the nodes did.
Detach ==
  /\ vol = "attached" /\ (pvc = "deleting" \/ ~nodes)
  /\ vol' = "available" /\ UNCHANGED pvc /\ OnlyStorage

Attach ==
  /\ vol = "available" /\ pvc = "bound" /\ DriverWorks
  /\ vol' = "attached" /\ UNCHANGED pvc /\ OnlyStorage

\* The driver deletes the volume of a deleted claim; the claim of a volume that
\* is gone goes too.
Reclaim ==
  /\ pvc = "deleting" /\ vol # "attached" /\ (vol = "none" \/ DriverWorks)
  /\ pvc' = "none" /\ vol' = "none" /\ OnlyStorage

CloudStep ==
  \/ AddonSettles \/ AddonGoes \/ Detach \/ Attach \/ Reclaim
  \/ \E p \in Places : NlbGoes(p)

\* A deleted cluster takes with it what lives in its API server, not what its
\* controllers made in AWS.
ClusterGoes ==
  /\ cluster' = None /\ nodes' = FALSE /\ addon' = "none" /\ release' = "none"
  /\ lb' = [p \in Places |-> IF lb[p] = "none" THEN "none" ELSE "orphan"]
  /\ pvc' = "none" /\ UNCHANGED <<iam, vol>>
=============================================================================
