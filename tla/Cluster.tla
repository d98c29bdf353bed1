------------------------------ MODULE Cluster ------------------------------
(***************************************************************************)
(* The EKS cluster: phases 07 (IAM and the data-path security group), 08    *)
(* (control plane), 10 (launch templates, the BNK node group, and the GPU   *)
(* node group with its sweep over the zones) and 18 (OIDC provider, IRSA    *)
(* role, rules between the security groups) of `up`.  The phases between    *)
(* them touch none of this.                                                 *)
(*                                                                          *)
(* A step is one call that changes AWS, or one Save, with the reads that    *)
(* decide it.  `faults` counts what goes wrong from outside: the process    *)
(* ends at any point, a call fails whose error the code drops, or the       *)
(* operator's state.env is lost.                                            *)
(***************************************************************************)
EXTENDS EksAccount

CONSTANTS FirstCap,          \* capacityType of the GPU node group
          OnDemandFallback,  \* onDemandFallback of the GPU node group
          MaxFaults          \* bound: injected faults

ASSUME ClusterAssumption ==
  FirstCap \in CapTypes /\ OnDemandFallback \in BOOLEAN /\ MaxFaults \in Nat

VARIABLES
  disk,    \* .awsbnkctl/<cluster>/state.env
  mem,     \* the State of the running process
  pc,      \* where the running command is, "idle" when none runs
  done,    \* what the last command reported
  run,     \* number of the last `up`
  k,       \* loop index: a role, a template, a group or a candidate zone
  cap,     \* capacity type the GPU sweep is at
  keep,    \* --keep-irsa of the running down
  misled,  \* this command went on with less than the truth: a dropped error, or
           \* an id of state.env whose resource is gone
  faults

vars == <<cloud, disk, mem, pc, done, run, k, cap, keep, misled, faults>>

Keys == {"data", "cluster", "lt-bnk", "lt-gpu", "oidc"}
EmptyState == [x \in Keys |-> None]

UpPoints == {"role", "policy", "profile", "join", "sg", "sgSelf", "saveIam",
             "eks", "eksWait", "lt", "bnk", "bnkWait", "gpu", "gpuWait", "gpuGone", "saveGroups",
             "oidc", "irsa", "irsaPolicy", "allow", "saveOidc"}
DownPoints == {"revoke", "irsaStrip", "irsaDelete", "oidcDelete", "saveOidcDown",
               "group", "groupGone", "ltDelete", "saveGroupsDown", "eksDelete", "eksGone",
               "leave", "profileDelete", "strip", "roleDelete", "sgRefs", "sgDelete",
               "saveIamDown"}
Reports == {"none", "up", "down", "no capacity", "up refused", "down refused"}

\* Every variable has its type.
TypeOK ==
  /\ AccountTypeOK
  /\ disk \in [Keys -> Ref] /\ mem \in [Keys -> Ref]
  /\ pc \in {"idle"} \cup UpPoints \cup DownPoints
  /\ done \in Reports /\ run \in Ref /\ k \in 1 .. (NumAzs + 2) /\ cap \in CapTypes
  /\ keep \in BOOLEAN /\ misled \in BOOLEAN /\ faults \in 0 .. MaxFaults

Init ==
  /\ AccountInit
  /\ disk = EmptyState /\ mem = EmptyState /\ pc = "idle" /\ done = "none"
  /\ run = 0 /\ k = 1 /\ cap = FirstCap /\ keep = FALSE /\ misled = FALSE /\ faults = 0

-----------------------------------------------------------------------------
(* Control.                                                                 *)

At(p) == pc = p
Goto(p) == pc' = p /\ UNCHANGED <<done, run, keep>>
Go(p) == Goto(p) /\ UNCHANGED <<disk, mem, k, cap, misled, faults>>
GoTo(p, j) == Goto(p) /\ k' = j /\ UNCHANGED <<disk, mem, cap, misled, faults>>
Fault == faults < MaxFaults /\ faults' = faults + 1
Set(key, id) == mem' = [mem EXCEPT ![key] = id]

\* The command returns: what it held in memory is gone.
End(report) ==
  /\ pc' = "idle" /\ done' = report /\ mem' = EmptyState /\ k' = 1 /\ cap' = FirstCap
  /\ UNCHANGED <<run, keep>>

\* An error return of the code itself.
Fail == /\ End(IF pc \in UpPoints THEN "up refused" ELSE "down refused")
        /\ UNCHANGED <<cloud, disk, misled, faults>>

\* A call whose error the code drops: it went well, or it costs one fault.
Dropped(ok) == IF ok THEN UNCHANGED <<misled, faults>> ELSE Fault /\ misled' = TRUE

\* st.Save() at the end of a phase, on to the next.
SaveAnd(p) ==
  /\ disk' = mem /\ Goto(p) /\ k' = 1 /\ UNCHANGED <<cloud, mem, cap, misled, faults>>

StartUp ==
  /\ At("idle") /\ run < MaxUps
  /\ run' = run + 1 /\ mem' = disk /\ pc' = "role" /\ done' = "none"
  /\ keep' = FALSE /\ misled' = FALSE
  /\ UNCHANGED <<cloud, disk, k, cap, faults>>

StartDown ==
  /\ At("idle")
  /\ keep' \in BOOLEAN /\ mem' = disk /\ pc' = "revoke" /\ done' = "none" /\ misled' = FALSE
  /\ UNCHANGED <<cloud, disk, run, k, cap, faults>>

\* The process ends: crash, expired credentials, throttling, a poll that times out.
Abort ==
  /\ ~At("idle") /\ Fault /\ End("none") /\ UNCHANGED <<cloud, disk, misled>>

\* The operator works from another checkout, or .awsbnkctl/ was removed.
LoseState ==
  /\ At("idle") /\ disk # EmptyState /\ Fault
  /\ disk' = EmptyState /\ done' = "none"
  /\ UNCHANGED <<cloud, mem, pc, run, k, cap, keep, misled>>

-----------------------------------------------------------------------------
(* Phase 07: two roles with their policies, the node instance profile, the  *)
(* data-path security group with the rule that lets its members in.         *)

UpRole == IF k = 1 THEN "cluster" ELSE "node"
SetRole(r, x) == roles' = [roles EXCEPT ![r] = x] /\ OnlyRoles

RoleEnsure ==
  /\ At("role")
  /\ IF roles[UpRole] = "none" THEN SetRole(UpRole, "bare") ELSE UNCHANGED cloud
  /\ Go("policy")

\* Missing policies are attached on every up, and the inline one put again.
RolePolicies ==
  /\ At("policy") /\ SetRole(UpRole, "ready")
  /\ IF k = 1 THEN GoTo("role", 2) ELSE GoTo("profile", 1)

SetProfile(x) == profile' = x /\ UNCHANGED <<roles, oidc, eks, groups, room, lts, sgs, rules>>

ProfileEnsure ==
  /\ At("profile")
  /\ IF profile = "none" THEN SetProfile("empty") ELSE UNCHANGED cloud
  /\ Go("join")

ProfileJoin == At("join") /\ SetProfile("joined") /\ Go("sg")

\* Found by tag, VPC and name: what is missing on it is not looked at.
DataSgEnsure ==
  /\ At("sg")
  /\ \/ \E r \in Named(sgs, "data") :
          Set("data", r) /\ Goto("saveIam") /\ UNCHANGED cloud
     \/ /\ Named(sgs, "data") = {}
        /\ sgs' = sgs \cup {<<"data", run>>} /\ OnlySgs /\ UNCHANGED rules
        /\ Set("data", run) /\ Goto("sgSelf")
  /\ UNCHANGED <<disk, k, cap, misled, faults>>

DataSgSelf ==
  /\ At("sgSelf")
  /\ rules' = rules \cup {<< <<"data", run>>, <<"data", run>> >>} /\ OnlyRules
  /\ Go("saveIam")

SaveIam == At("saveIam") /\ SaveAnd("eks")

-----------------------------------------------------------------------------
(* Phase 08: the control plane; its security group comes with it.           *)

EksCreate ==
  /\ At("eks") /\ eks.status = "none"
  /\ eks' = [status |-> "CREATING", run |-> run]
  /\ sgs' = sgs \cup {<<"cluster", run>>}
  /\ UNCHANGED <<roles, profile, oidc, groups, room, lts, rules>>
  /\ Go("eksWait")

EksFound == At("eks") /\ eks.status \in {"CREATING", "ACTIVE"} /\ UNCHANGED cloud /\ Go("eksWait")

\* Mutant: an EKS_SECURITY_GROUP that is already set is kept.
EksReadyBug ==
  /\ At("eksWait") /\ eks.status = "ACTIVE"
  /\ Set("cluster", IF mem["cluster"] = None THEN eks.run ELSE mem["cluster"])
  /\ disk' = mem' /\ Goto("lt") /\ k' = 1 /\ UNCHANGED <<cloud, cap, misled, faults>>

\* populateClusterState ends with its own Save.
EksReady ==
  /\ At("eksWait") /\ eks.status = "ACTIVE"
  /\ Set("cluster", eks.run) /\ disk' = mem' /\ Goto("lt") /\ k' = 1
  /\ UNCHANGED <<cloud, cap, misled, faults>>

EksRefused ==
  /\ At("eks") \/ At("eksWait")
  /\ eks.status \in {"FAILED", "DELETING"} /\ Fail

-----------------------------------------------------------------------------
(* Phase 10: a launch template for each kind of node group, the BNK group,  *)
(* then the GPU group, one candidate zone after the other.                  *)

Lt == IF k = 1 THEN "lt-bnk" ELSE "lt-gpu"

\* Mutant: creates without looking the name up.
LtEnsureBug ==
  /\ At("lt")
  /\ IF Named(lts, Lt) # {} THEN Fail
     ELSE /\ lts' = lts \cup {<<Lt, run>>} /\ Set(Lt, run)
          /\ IF k = 1 THEN Goto("lt") /\ k' = 2 ELSE Goto("bnk") /\ k' = 1
          /\ UNCHANGED <<roles, profile, oidc, eks, groups, room, sgs, rules,
                         disk, cap, misled, faults>>

\* A failed lookup counts as nothing found; CreateLaunchTemplate then refuses
\* a name that is taken.
LtEnsure ==
  /\ At("lt")
  /\ \/ \E r \in Named(lts, Lt) : Set(Lt, r) /\ UNCHANGED cloud
     \/ /\ Named(lts, Lt) = {}
        /\ lts' = lts \cup {<<Lt, run>>} /\ Set(Lt, run)
        /\ UNCHANGED <<roles, profile, oidc, eks, groups, room, sgs, rules>>
  /\ IF k = 1 THEN Goto("lt") /\ k' = 2 ELSE Goto("bnk") /\ k' = 1
  /\ UNCHANGED <<disk, cap, misled, faults>>

LtUnseen ==
  /\ At("lt") /\ Named(lts, Lt) # {}
  /\ Dropped(FALSE) /\ End("up refused") /\ UNCHANGED <<cloud, disk>>

BnkCreate ==
  /\ At("bnk") /\ groups["bnk"].status = "none"
  /\ NewGroup("bnk", 0, "on-demand") /\ OnlyGroups /\ Go("bnkWait")

BnkFound ==
  /\ At("bnk") /\ groups["bnk"].status \in {"CREATING", "ACTIVE"}
  /\ UNCHANGED cloud /\ Go("bnkWait")

\* populateNodeGroupState ends with its own Save.
BnkReady ==
  /\ At("bnkWait") /\ groups["bnk"].status = "ACTIVE" /\ SaveAnd("gpu")

GroupRefused ==
  \E g \in GroupNames :
    /\ pc \in (IF g = "bnk" THEN {"bnk", "bnkWait"} ELSE {"gpu", "gpuWait"})
    /\ groups[g].status \in {"FAILED", "DELETING"} /\ Fail

GpuCreate ==
  /\ At("gpu") /\ groups["gpu"].status = "none"
  /\ NewGroup("gpu", k, cap) /\ OnlyGroups /\ Go("gpuWait")

\* An existing group is taken over, whichever zone and capacity type it is for.
GpuFound ==
  /\ At("gpu") /\ groups["gpu"].status \in {"CREATING", "ACTIVE"}
  /\ UNCHANGED cloud /\ Go("gpuWait")

GpuReady ==
  /\ At("gpuWait") /\ groups["gpu"].status = "ACTIVE" /\ SaveAnd("saveGroups")

\* sweepOnce goes on to the next zone; after the last, the sweep starts again
\* with on-demand or gives up.
NextZone ==
  IF k < NumAzs
  THEN Goto("gpu") /\ k' = k + 1 /\ UNCHANGED <<mem, cap>>
  ELSE IF cap = "spot" /\ OnDemandFallback
       THEN Goto("gpu") /\ k' = 1 /\ cap' = "on-demand" /\ UNCHANGED mem
       ELSE End("no capacity")

\* A capacity error and no instance: the group is deleted, and the error of
\* that call discarded.
GpuExhausted ==
  /\ At("gpuWait") /\ groups["gpu"].status = "CREATING" /\ groups["gpu"].asg = "failed"
  /\ \/ Deleting("gpu") /\ OnlyGroups /\ Go("gpuGone")
     \/ Dropped(FALSE) /\ NextZone /\ UNCHANGED <<cloud, disk>>

\* The wait for the deletion ends, or its error (a timeout) is discarded.
GpuGone ==
  /\ At("gpuGone")
  /\ \E ok \in BOOLEAN : (ok => groups["gpu"].status = "none") /\ Dropped(ok)
  /\ NextZone /\ UNCHANGED <<cloud, disk>>

SaveGroups == At("saveGroups") /\ SaveAnd("oidc")

-----------------------------------------------------------------------------
(* Phase 18: the provider of the cluster's issuer, the IRSA role, and the   *)
(* rules between the cluster's security group and the data-path one.        *)

\* state.env names a provider that is still there: taken as it is, whichever
\* issuer it is for.
OidcKnown ==
  /\ At("oidc") /\ mem["oidc"] \in oidc /\ UNCHANGED cloud /\ Go("irsa")

OidcCreate ==
  /\ At("oidc") /\ mem["oidc"] \notin oidc /\ eks.run \notin oidc
  /\ oidc' = oidc \cup {eks.run}
  /\ UNCHANGED <<roles, profile, eks, groups, room, lts, sgs, rules>>
  /\ Set("oidc", eks.run) /\ Goto("irsa") /\ UNCHANGED <<disk, k, cap, misled, faults>>

\* EntityAlreadyExists: the ARN is not derived, the phase returns an error.
OidcTaken == At("oidc") /\ mem["oidc"] \notin oidc /\ eks.run \in oidc /\ Fail

IrsaEnsure ==
  /\ At("irsa")
  /\ IF roles["irsa"] = "none" THEN SetRole("irsa", "bare") ELSE UNCHANGED cloud
  /\ Go("irsaPolicy")

IrsaPolicy == At("irsaPolicy") /\ SetRole("irsa", "ready") /\ GoTo("allow", 1)

\* The pair of rules, by the ids of state.env: the first lets the data-path
\* group into the cluster's, the second the other way round.
Pair(j) == LET c == <<"cluster", mem["cluster"]>>
               d == <<"data", mem["data"]>>
           IN IF j = 1 THEN <<c, d>> ELSE <<d, c>>

Allow ==
  /\ At("allow")
  /\ rules' = rules \cup {Pair(k)} /\ OnlyRules
  /\ IF k = 1 THEN GoTo("allow", 2) ELSE GoTo("saveOidc", 1)

UpDone ==
  /\ At("saveOidc") /\ disk' = mem /\ End("up") /\ UNCHANGED <<cloud, misled, faults>>

UpStep ==
  \/ RoleEnsure \/ RolePolicies \/ ProfileEnsure \/ ProfileJoin \/ DataSgEnsure
  \/ DataSgSelf \/ SaveIam
  \/ EksCreate \/ EksFound \/ EksReady \/ EksRefused
  \/ LtEnsure \/ LtUnseen \/ BnkCreate \/ BnkFound \/ BnkReady \/ GroupRefused
  \/ GpuCreate \/ GpuFound \/ GpuReady \/ GpuExhausted \/ GpuGone \/ SaveGroups
  \/ OidcKnown \/ OidcCreate \/ OidcTaken \/ IrsaEnsure \/ IrsaPolicy \/ Allow \/ UpDone
=============================================================================
