---------------------------- MODULE ClusterDown ----------------------------
(***************************************************************************)
(* `awsbnkctl down` over the EKS cluster, phases 18, 10, 08 and 07 in that  *)
(* order, and the specification of the whole: ups and downs one after the   *)
(* other, the account's own steps, and the faults.                          *)
(***************************************************************************)
EXTENDS Cluster

-----------------------------------------------------------------------------
(* Phase 18 down: take the rules away, as far as state.env has both ids     *)
(* and the call succeeds; then the role and the provider, unless kept.      *)

Revoke ==
  /\ At("revoke")
  /\ \E ok \in BOOLEAN :
       /\ Dropped(ok)
       /\ LET known == mem["cluster"] # None /\ mem["data"] # None
          IN rules' = IF ok /\ known THEN rules \ {Pair(k)} ELSE rules
  /\ OnlyRules
  /\ pc' = IF k = 1 THEN "revoke" ELSE IF keep THEN "saveOidcDown" ELSE "irsaStrip"
  /\ k' = IF k = 1 THEN 2 ELSE 1
  /\ UNCHANGED <<disk, mem, done, run, cap, keep>>

\* deleteRole: the policies, then the role; one that is gone is passed over.
Strip(r) == IF roles[r] = "none" THEN UNCHANGED cloud ELSE SetRole(r, "bare")

IrsaStrip == At("irsaStrip") /\ Strip("irsa") /\ Go("irsaDelete")
IrsaDelete == At("irsaDelete") /\ SetRole("irsa", "none") /\ Go("oidcDelete")

\* Only the provider whose ARN is in state.env; there is no lookup.
OidcDelete ==
  /\ At("oidcDelete")
  /\ oidc' = oidc \ {mem["oidc"]}
  /\ Set("oidc", None) /\ Goto("saveOidcDown")
  /\ UNCHANGED <<roles, profile, eks, groups, room, lts, sgs, rules,
                 disk, k, cap, misled, faults>>

SaveOidcDown == At("saveOidcDown") /\ SaveAnd("group")

-----------------------------------------------------------------------------
(* Phase 10 down: each node group in the order of the intent, then the      *)
(* launch templates.  Volumes that pods left behind are not modelled.       *)

GroupAt(j) == IF j = 1 THEN "bnk" ELSE "gpu"

AfterGroup == IF k = 1 THEN GoTo("group", 2) ELSE GoTo("ltDelete", 1)

GroupDelete ==
  /\ At("group") /\ groups[GroupAt(k)].status # "none"
  /\ Deleting(GroupAt(k)) /\ OnlyGroups /\ Go("groupGone")

GroupMissing ==
  /\ At("group") /\ groups[GroupAt(k)].status = "none" /\ UNCHANGED cloud /\ AfterGroup

GroupDeleted ==
  /\ At("groupGone") /\ groups[GroupAt(k)].status = "none" /\ UNCHANGED cloud /\ AfterGroup

\* Mutant: the id of state.env only.
LtDeleteBug ==
  /\ At("ltDelete")
  /\ lts' = lts \ {<<Lt, mem[Lt]>>}
  /\ Set(Lt, None) /\ UNCHANGED misled
  /\ IF k = 1 THEN Goto("ltDelete") /\ k' = 2 ELSE Goto("saveGroupsDown") /\ k' = 1
  /\ UNCHANGED <<roles, profile, oidc, eks, groups, room, sgs, rules, disk, cap, faults>>

\* The id of state.env, or the one found by name; a failed lookup finds none.
LtDelete ==
  /\ At("ltDelete")
  /\ \/ mem[Lt] # None /\ lts' = lts \ {<<Lt, mem[Lt]>>} /\ UNCHANGED faults
        /\ misled' = (misled \/ mem[Lt] \notin Named(lts, Lt))
     \/ \E ok \in BOOLEAN :
          /\ mem[Lt] = None /\ Dropped(ok)
          /\ lts' = IF ok THEN {l \in lts : l[1] # Lt} ELSE lts
  /\ Set(Lt, None)
  /\ IF k = 1 THEN Goto("ltDelete") /\ k' = 2 ELSE Goto("saveGroupsDown") /\ k' = 1
  /\ UNCHANGED <<roles, profile, oidc, eks, groups, room, sgs, rules, disk, cap>>

SaveGroupsDown == At("saveGroupsDown") /\ SaveAnd("eksDelete")

-----------------------------------------------------------------------------
(* Phase 08 down: DeleteCluster, retried while the cluster is in use.       *)

EksDelete ==
  /\ At("eksDelete") /\ eks.status \in {"ACTIVE", "FAILED", "DELETING"} /\ NoGroups
  /\ eks' = [eks EXCEPT !.status = "DELETING"] /\ OnlyEks /\ Go("eksGone")

\* Gone, before the call or after it: the keys are cleared and saved.
EksCleared ==
  /\ At("eksDelete") \/ At("eksGone")
  /\ eks.status = "none"
  /\ Set("cluster", None) /\ disk' = mem' /\ Goto("leave")
  /\ UNCHANGED <<cloud, k, cap, misled, faults>>

-----------------------------------------------------------------------------
(* Phase 07 down: the role leaves the profile, the profile, the two roles,  *)
(* then the security group with the rules that still name it.               *)

Leave ==
  /\ At("leave") /\ SetProfile(IF profile = "joined" THEN "empty" ELSE profile)
  /\ Go("profileDelete")

ProfileDelete == At("profileDelete") /\ SetProfile("none") /\ GoTo("strip", 1)

DownRole == IF k = 1 THEN "node" ELSE "cluster"

RoleStrip == At("strip") /\ Strip(DownRole) /\ Go("roleDelete")

RoleDelete ==
  /\ At("roleDelete") /\ SetRole(DownRole, "none")
  /\ IF k = 1 THEN GoTo("strip", 2) ELSE GoTo("sgRefs", 1)

\* The id of state.env, or the one found by name.
Target == IF mem["data"] # None \/ Named(sgs, "data") = {}
          THEN mem["data"] ELSE CHOOSE r \in Named(sgs, "data") : TRUE

\* Mutant: the rules of other groups stay.
DataSgRefsBug ==
  /\ At("sgRefs") /\ Set("data", Target)
  /\ Goto("sgDelete") /\ UNCHANGED <<cloud, disk, k, cap, misled, faults>>

\* A failed lookup finds no group.  Whatever names the group loses its rule, and the
\* cluster's own group, if its cluster could not take it along, is deleted unless
\* something names it still.  All of it is best-effort.
DataSgRefs ==
  /\ At("sgRefs")
  /\ \E ok, seen \in BOOLEAN :
       LET s     == IF seen THEN Target ELSE mem["data"]
           d     == <<"data", s>>
           kept  == IF ok THEN {r \in rules : r[2] # d} ELSE rules
           shell == {c \in sgs : c[1] = "cluster" /\ <<c, d>> \in rules \ kept
                                 /\ c # ClusterSg /\ \A r \in kept : r[2] # c}
       IN /\ Dropped(ok /\ seen) /\ Set("data", s)
          /\ sgs' = sgs \ shell
          /\ rules' = {r \in kept : r[1] \notin shell}
  /\ Goto("sgDelete") /\ UNCHANGED <<roles, profile, oidc, eks, groups, room, lts, disk, k, cap>>

DataSgDelete ==
  /\ At("sgDelete")
  /\ LET d == <<"data", mem["data"]>>
     IN /\ ~SgInUse(d)
        /\ sgs' = sgs \ {d} /\ rules' = {r \in rules : r[1] # d}
        /\ misled' = (misled \/ (d \notin sgs /\ mem["data"] # None))
  /\ OnlySgs /\ Set("data", None) /\ Goto("saveIamDown") /\ UNCHANGED <<disk, k, cap, faults>>

\* DependencyViolation is an error return.
DataSgRefused == At("sgDelete") /\ SgInUse(<<"data", mem["data"]>>) /\ Fail

DownDone ==
  /\ At("saveIamDown") /\ disk' = mem /\ End("down") /\ UNCHANGED <<cloud, misled, faults>>

DownStep ==
  \/ Revoke \/ IrsaStrip \/ IrsaDelete \/ OidcDelete \/ SaveOidcDown
  \/ GroupDelete \/ GroupMissing \/ GroupDeleted \/ LtDelete \/ SaveGroupsDown
  \/ EksDelete \/ EksCleared
  \/ Leave \/ ProfileDelete \/ RoleStrip \/ RoleDelete
  \/ DataSgRefs \/ DataSgDelete \/ DataSgRefused \/ DownDone

-----------------------------------------------------------------------------
Outside == AccountStep /\ UNCHANGED <<disk, mem, pc, done, run, k, cap, keep, misled, faults>>

Next == StartUp \/ StartDown \/ UpStep \/ DownStep \/ Abort \/ LoseState \/ Outside

Spec == Init /\ [][Next]_vars
=============================================================================
