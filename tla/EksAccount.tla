----------------------------- MODULE EksAccount -----------------------------
(***************************************************************************)
(* The part of an AWS account phases 07, 08, 10 and 18 drive: IAM roles,    *)
(* the node instance profile and OIDC providers, the EKS cluster and its    *)
(* node groups, launch templates, and two security groups with the rules    *)
(* between them.  AWS is not code of the repository; what is written here   *)
(* is what the phases rely on: what a call is refused for, and what goes on *)
(* between two calls.                                                       *)
(*                                                                          *)
(* Roles, the profile, the cluster and its node groups are found by name.   *)
(* Everything else has an id, <<name, run>>: the number of the `up` that    *)
(* created it.  A cluster's issuer URL, and so its OIDC provider, is new    *)
(* with every cluster.                                                      *)
(***************************************************************************)
EXTENDS Naturals, FiniteSets

CONSTANTS MaxUps,      \* bound: runs of `up`
          NumAzs,      \* candidate zones of the GPU node group
          Outcomes     \* how the creation of a cluster or a node group may end

ASSUME EksAccountAssumption ==
  /\ MaxUps \in Nat /\ NumAzs \in Nat \ {0}
  /\ Outcomes \subseteq {"ACTIVE", "FAILED"}

Runs == 1 .. MaxUps
None == 0
Ref  == Runs \cup {None}

RoleNames  == {"cluster", "node", "irsa"}
GroupNames == {"bnk", "gpu"}
CapTypes   == {"spot", "on-demand"}
LtId == {"lt-bnk", "lt-gpu"} \X Runs
SgId == {"data", "cluster"} \X Runs

VARIABLES
  roles,      \* "none", "bare" (policies missing) or "ready"
  profile,    \* the node instance profile: "none", "empty" or "joined"
  oidc,       \* OIDC providers, by the cluster whose issuer they are for
  eks,        \* the cluster: its run and its status
  groups,     \* its node groups
  room,       \* zones and capacity types with room for a GPU instance
  lts,        \* launch templates
  sgs, rules  \* security groups, and ingress rules <<on, from>>

cloud == <<roles, profile, oidc, eks, groups, room, lts, sgs, rules>>

Group == [status : {"none", "CREATING", "ACTIVE", "FAILED", "DELETING"},
          az : 0 .. NumAzs, cap : CapTypes, asg : {"idle", "failed", "launched"}]
NoGroup == [status |-> "none", az |-> 0, cap |-> "on-demand", asg |-> "idle"]

AccountTypeOK ==
  /\ roles \in [RoleNames -> {"none", "bare", "ready"}]
  /\ profile \in {"none", "empty", "joined"}
  /\ oidc \subseteq Runs
  /\ eks \in [status : {"none", "CREATING", "ACTIVE", "FAILED", "DELETING"}, run : Ref]
  /\ groups \in [GroupNames -> Group]
  /\ room \subseteq (1 .. NumAzs) \X CapTypes
  /\ lts \subseteq LtId
  /\ sgs \subseteq SgId /\ rules \subseteq SgId \X SgId

\* At most one zone and capacity type has room; which one is not known.
AccountInit ==
  /\ roles = [r \in RoleNames |-> "none"] /\ profile = "none"
  /\ oidc = {} /\ lts = {} /\ sgs = {} /\ rules = {}
  /\ eks = [status |-> "none", run |-> None] /\ groups = [g \in GroupNames |-> NoGroup]
  /\ room \in {R \in SUBSET ((1 .. NumAzs) \X CapTypes) : Cardinality(R) <= 1}

-----------------------------------------------------------------------------
ClusterSg == <<"cluster", eks.run>>
Named(S, n) == {x[2] : x \in {y \in S : y[1] = n}}

\* DeleteSecurityGroup is refused while the cluster uses the group or a rule of
\* another group names it.
SgInUse(s) ==
  \/ eks.status # "none" /\ s = ClusterSg
  \/ \E r \in rules : r[2] = s /\ r[1] # s

NoGroups == \A g \in GroupNames : groups[g].status = "none"
SetGroup(g, x) == groups' = [groups EXCEPT ![g] = x]
NewGroup(g, az, cap) == SetGroup(g, [status |-> "CREATING", az |-> az, cap |-> cap, asg |-> "idle"])
Deleting(g) == SetGroup(g, [groups[g] EXCEPT !.status = "DELETING"])

OnlyRoles  == UNCHANGED <<profile, oidc, eks, groups, room, lts, sgs, rules>>
OnlyEks    == UNCHANGED <<roles, profile, oidc, groups, room, lts, sgs, rules>>
OnlyGroups == UNCHANGED <<roles, profile, oidc, eks, room, lts, sgs, rules>>
OnlySgs    == UNCHANGED <<roles, profile, oidc, eks, groups, room, lts>>
OnlyRules  == OnlySgs /\ UNCHANGED sgs

-----------------------------------------------------------------------------
\* The control plane comes up or does not.
ClusterSettles ==
  /\ eks.status = "CREATING"
  /\ \E o \in Outcomes : eks' = [eks EXCEPT !.status = o]
  /\ OnlyEks

\* A deleted control plane takes its security group along, unless a rule of
\* another group still names it.
ClusterGone ==
  /\ eks.status = "DELETING"
  /\ IF \E r \in rules : r[2] = ClusterSg
     THEN UNCHANGED <<sgs, rules>>
     ELSE sgs' = sgs \ {ClusterSg} /\ rules' = {r \in rules : r[1] # ClusterSg}
  /\ eks' = [status |-> "none", run |-> None]
  /\ UNCHANGED <<roles, profile, oidc, groups, room, lts>>

\* The auto scaling group of a new GPU group launches where there is room and
\* reports a capacity error where there is none.
AsgTries ==
  /\ groups["gpu"].status = "CREATING" /\ groups["gpu"].asg = "idle"
  /\ SetGroup("gpu", [groups["gpu"] EXCEPT
       !.asg = IF <<groups["gpu"].az, groups["gpu"].cap>> \in room THEN "launched" ELSE "failed"])
  /\ OnlyGroups

GroupSettles(g) ==
  /\ groups[g].status = "CREATING" /\ (g = "gpu" => groups[g].asg = "launched")
  /\ \E o \in Outcomes : SetGroup(g, [groups[g] EXCEPT !.status = o])
  /\ OnlyGroups

GroupGone(g) ==
  /\ groups[g].status = "DELETING" /\ SetGroup(g, NoGroup) /\ OnlyGroups

AccountStep ==
  \/ ClusterSettles \/ ClusterGone \/ AsgTries
  \/ \E g \in GroupNames : GroupSettles(g) \/ GroupGone(g)
=============================================================================
