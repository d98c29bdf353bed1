------------------------------- MODULE Addons -------------------------------
(***************************************************************************)
(* Phases 11b (EBS CSI driver) and 14b (AWS load balancer controller) of    *)
(* `up`.  What comes before them, the cluster with its nodes and its OIDC   *)
(* provider, is one step; the phases between and after them touch none of   *)
(* this.  The DaemonSet that sets up huge pages is left out.                *)
(*                                                                          *)
(* A step is one call that changes AWS or the cluster, or a Save, with the  *)
(* reads that decide it.  `faults` counts what goes wrong from outside: the *)
(* process ends at any point, a call or a lookup fails whose error the code *)
(* drops, files of the operator are lost.                                   *)
(***************************************************************************)
EXTENDS AddonCloud

CONSTANT MaxFaults   \* bound: injected faults

ASSUME AddonsAssumption == MaxFaults \in Nat

VARIABLES
  disk, mem,  \* state.env has, the running command has, LB_CONTROLLER_POLICY_ARN
  api,        \* this command got a client of the cluster
  pc,         \* where the running command is, "idle" when none runs
  done,       \* what the last command reported
  run,        \* number of the last `up`
  lost,       \* what an error the code dropped, or a wait that was cut short,
              \* left behind, until a later down gets it
  faults

vars == <<cloud, disk, mem, api, pc, done, run, lost, faults>>

UpPoints == {"foundation", "addon", "addonWait", "policy", "role", "attach", "tags",
             "helm", "install", "save14b"}
DownPoints == {"client", "cleanSvc", "cleanPvc", "lbSvc", "lbWait", "uninstall", "uninstalling",
               "untag", "detach", "delPolicy", "delRole", "save14bDown", "namespaces",
               "addonDown", "nodes", "sweep", "clusterDown"}

\* Every variable has its type.
TypeOK ==
  /\ CloudTypeOK
  /\ disk \in BOOLEAN /\ mem \in BOOLEAN /\ api \in BOOLEAN
  /\ pc \in {"idle"} \cup UpPoints \cup DownPoints
  /\ done \in {"none", "up", "down", "up refused"} /\ run \in Ref
  /\ lost \subseteq Places \cup {"policy", "role", "vol"} /\ faults \in 0 .. MaxFaults

Init ==
  /\ CloudInit
  /\ disk = FALSE /\ mem = FALSE /\ api = FALSE /\ pc = "idle" /\ done = "none"
  /\ run = 0 /\ lost = {} /\ faults = 0

-----------------------------------------------------------------------------
(* Control.                                                                 *)

At(p) == pc = p
Goto(p) == pc' = p /\ UNCHANGED <<api, done, run>>
Told == UNCHANGED <<lost, faults>>
Go(p) == Goto(p) /\ Told /\ UNCHANGED <<disk, mem>>
Fault == faults < MaxFaults /\ faults' = faults + 1

\* The command returns: what it held in memory is gone.
End(report) ==
  pc' = "idle" /\ done' = report /\ mem' = FALSE /\ api' = FALSE /\ UNCHANGED run

\* An error return of the code itself.
Refuse == End("up refused") /\ Told /\ UNCHANGED disk
Fail == Refuse /\ UNCHANGED cloud

\* A call for what x stands for, the error of which the code drops: it went well,
\* or it costs a fault and x is left behind.
Dropped(ok, x) == IF ok THEN lost' = lost \ {x} /\ UNCHANGED faults
                        ELSE lost' = lost \cup {x} /\ Fault

\* The same for a call nothing depends on.
Tolerated(ok) == IF ok THEN Told ELSE Fault /\ UNCHANGED lost

SaveAnd(p) == disk' = mem /\ Goto(p) /\ Told /\ UNCHANGED <<cloud, mem>>

StartUp ==
  /\ At("idle") /\ run < MaxUps
  /\ run' = run + 1 /\ mem' = disk /\ pc' = "foundation" /\ done' = "none"
  /\ UNCHANGED <<cloud, disk, api>> /\ Told

StartDown ==
  /\ At("idle")
  /\ mem' = disk /\ pc' = "client" /\ done' = "none"
  /\ UNCHANGED <<cloud, disk, api, run>> /\ Told

\* The process ends: crash, expired credentials, throttling, a poll that times
\* out where the code returns its error.
Abort ==
  /\ ~At("idle") /\ Fault /\ End("none") /\ UNCHANGED <<cloud, disk, lost>>

\* The operator works from another checkout, or .awsbnkctl/ was removed.
LoseFiles ==
  /\ At("idle") /\ disk /\ Fault /\ disk' = FALSE /\ done' = "none"
  /\ UNCHANGED <<cloud, mem, api, pc, run, lost>>

-----------------------------------------------------------------------------
(* Between commands: somebody makes a Service of type LoadBalancer, BNK     *)
(* claims its volume.                                                       *)

Publish ==
  /\ At("idle") /\ release = "deployed" /\ ControllerWorks
  /\ \E p \in Places : /\ lb[p] = "none" /\ lb' = [lb EXCEPT ![p] = "on"]
                       /\ lost' = lost \ {p}
  /\ OnlyLb /\ UNCHANGED <<disk, mem, api, pc, done, run, faults>>

Claim ==
  /\ At("idle") /\ cluster # None /\ DriverWorks /\ pvc = "none" /\ vol = "none"
  /\ pvc' = "bound" /\ vol' = "attached" /\ OnlyStorage
  /\ UNCHANGED <<disk, mem, api, pc, done, run>> /\ Told

-----------------------------------------------------------------------------
(* Phases 02 to 18 as far as they matter here.                              *)

Foundation ==
  /\ At("foundation")
  /\ cluster' = (IF cluster = None THEN run ELSE cluster) /\ nodes' = TRUE
  /\ UNCHANGED <<iam, addon, release, lb, storage>> /\ Go("addon")

-----------------------------------------------------------------------------
(* Phase 11b.                                                               *)

\* One that is there, in whatever state, is waited for.
Addon ==
  /\ At("addon")
  /\ IF addon = "none" THEN addon' = "creating" /\ OnlyAddon ELSE UNCHANGED cloud
  /\ Go("addonWait")

AddonReady == At("addonWait") /\ addon = "active" /\ SaveAnd("policy")

\* CREATE_FAILED, DEGRADED, or gone while it was waited for.
AddonRefused == At("addonWait") /\ addon \in {"failed", "none"} /\ Fail

-----------------------------------------------------------------------------
(* Phase 14b.                                                               *)

\* The ARN of state.env, verified; else a new policy; else, its name taken, the one
\* of that name.
Policy ==
  /\ At("policy")
  /\ policy' = TRUE /\ UNCHANGED <<role, attached, tagged>> /\ OnlyIam
  /\ mem' = TRUE /\ Goto("role") /\ Told /\ UNCHANGED disk

\* A role that is there keeps its trust policy.
Role ==
  /\ At("role")
  /\ role' = (IF role = None THEN cluster ELSE role)
  /\ UNCHANGED <<policy, attached, tagged>> /\ OnlyIam /\ Go("attach")

AttachPolicy ==
  /\ At("attach") /\ attached' = TRUE
  /\ UNCHANGED <<policy, role, tagged>> /\ OnlyIam /\ Go("tags")

Tags ==
  /\ At("tags") /\ tagged' = TRUE
  /\ UNCHANGED <<policy, role, attached>> /\ OnlyIam /\ Go("helm")

\* helm list shows deployed and failed releases only.
Listed == release \in {"deployed", "failed"}

\* Deployed, at this version and with these values.
HelmSame == At("helm") /\ release = "deployed" /\ UNCHANGED cloud /\ Go("save14b")

\* Mutant: any listed release is taken for a good one.
HelmUpgradeBug == At("helm") /\ Listed /\ UNCHANGED cloud /\ Go("save14b")

\* It failed, or the operator wants another version.
HelmUpgrade ==
  /\ At("helm") /\ Listed
  /\ release' = "pending" /\ OnlyRelease /\ Go("install")

HelmInstall ==
  /\ At("helm") /\ release = "none"
  /\ release' = "pending" /\ OnlyRelease /\ Go("install")

\* Nothing is listed, and Install does not take the name over.
HelmRefused == At("helm") /\ release # "none" /\ ~Listed /\ Fail

Installed ==
  /\ At("install") /\ release' = "deployed" /\ OnlyRelease /\ Go("save14b")

\* The wait for its pods timed out.
InstallFails == At("install") /\ release' = "failed" /\ OnlyRelease /\ Refuse

UpDone == At("save14b") /\ disk' = mem /\ End("up") /\ Told /\ UNCHANGED cloud

UpStep ==
  \/ Foundation \/ Addon \/ AddonReady \/ AddonRefused
  \/ Policy \/ Role \/ AttachPolicy \/ Tags
  \/ HelmSame \/ HelmUpgrade \/ HelmInstall \/ HelmRefused \/ Installed \/ InstallFails
  \/ UpDone
=============================================================================
