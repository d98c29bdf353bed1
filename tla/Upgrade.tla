------------------------------- MODULE Upgrade -------------------------------
(***************************************************************************)
(* `bnk upgrade`, which moves a running BNK 2.3 to 2.4 in place, and        *)
(* `bnk migrate-2.4 --apply`, which makes the resources of 2.4 from those   *)
(* of 2.3; and what they drive: FLO, the controller's Deployment, TMM.      *)
(*                                                                          *)
(* A step is a call that changes something, or a wait; a wait is a step     *)
(* that is not enabled, and its timeout a fault where the awaited thing is  *)
(* on its way.  Dry runs are left out, and so is the order in which Inspect *)
(* lists the kinds: it sees one inventory.                                  *)
(***************************************************************************)
EXTENDS Translate, Naturals

CONSTANTS
  Inventories,  \* what the cluster may hold of 2.3
  HasRole,      \* state.env has CNE_IRSA_ROLE_ARN
  MaxCmds,      \* bound: commands
  MaxFaults,    \* bound: injected faults
  MaxEdits      \* bound: changes tenants make to the resources of 2.3

ASSUME UpgradeAssumption ==
  /\ HasRole \in BOOLEAN /\ MaxCmds \in Nat /\ MaxFaults \in Nat /\ MaxEdits \in Nat
  /\ \A v \in Inventories : v \in Inventory

VARIABLES
  flo,      \* latest revision of FLO's release: chart "old", "new", "failed" (new), "pending" (new)
  floRuns,  \* the FLO that runs
  spec,     \* CNEInstance asks for 2.4
  crd,      \* the CRDs of 2.4 are installed
  ctl,      \* the CNEController and its Deployment: "none", "old", or "new" with the flag
  sticky,   \* FLO cannot update this CNEController
  pods,     \* of the controller: what they started with, whether of the current template, up,
            \* and of the Deployment there is
  rbac,     \* the controller may get EndpointSlices
  sa,       \* its ServiceAccount names the role
  tmm,      \* TMM pods
  stream,   \* store of the TMM log: "off", "marked" in the ConfigMap, "on" in the pod
  multus    \* the token watch

VARIABLES
  inv,      \* the resources of 2.3
  infra, settings, patches, egws, pols,   \* those of 2.4
  prog      \* Infra has reported Programmed

VARIABLES
  pc,       \* the step the running command is at
  done,     \* what the last command reported
  seen,     \* the inventory `migrate-2.4` read
  next,     \* the object of its plan it is at
  hurt,     \* the running command met a fault
  cmds, faults, edits

bnk == <<flo, floRuns, spec, crd, ctl, sticky, pods, rbac, sa, tmm, stream, multus>>
crs == <<infra, settings, patches, egws, pols, prog>>
vars == <<bnk, inv, crs, pc, done, seen, next, hurt, cmds, faults, edits>>

Pod == [flag : BOOLEAN, role : BOOLEAN, rbac : BOOLEAN, current : BOOLEAN, up : BOOLEAN,
        owned : BOOLEAN]
NoSettings == [listener |-> {}, egress |-> "absent"]
NoInfra == [ipams |-> {}, networks |-> {}, routes |-> {}, tunnel |-> {}]

\* Every variable has its type.
TypeOK ==
  /\ flo \in {"old", "new", "failed", "pending"} /\ floRuns \in {"old", "new"}
  /\ spec \in BOOLEAN /\ crd \in BOOLEAN /\ ctl \in {"none", "old", "new"} /\ sticky \in BOOLEAN
  /\ pods \subseteq Pod /\ rbac \in BOOLEAN /\ sa \in BOOLEAN /\ tmm \in {"old", "rolling", "new"}
  /\ stream \in {"off", "marked", "on"} /\ multus \in BOOLEAN
  /\ inv \in Inventories /\ seen \in Inventories /\ patches \subseteq Keys /\ egws \subseteq Keys
  /\ infra = NoInfra \/ \E v \in Inventories : infra = InfraOf(v)
  /\ DOMAIN settings = Keys /\ DOMAIN pols = Keys /\ prog \in BOOLEAN
  /\ done \in {"none", "upgraded", "upgrade refused", "migrated", "migrate refused"}
  /\ next \in 0 .. Len(Objects(seen)) + 1 /\ hurt \in BOOLEAN
  /\ cmds \in 0 .. MaxCmds /\ faults \in 0 .. MaxFaults /\ edits \in 0 .. MaxEdits

Init ==
  /\ flo = "old" /\ floRuns = "old" /\ spec = FALSE /\ crd = FALSE /\ ctl = "old" /\ sticky \in BOOLEAN
  /\ pods = {[flag |-> FALSE, role |-> HasRole, rbac |-> FALSE, current |-> TRUE, up |-> TRUE,
            owned |-> TRUE]}
  /\ rbac = FALSE /\ sa = FALSE /\ tmm = "old" /\ stream = "off" /\ multus = FALSE
  /\ inv \in Inventories /\ seen = inv
  /\ infra = NoInfra /\ patches = {} /\ egws = {} /\ prog = FALSE
  /\ settings = [k \in Keys |-> NoSettings]
  /\ pols = [k \in Keys |-> "none"]
  /\ pc = "idle" /\ done = "none" /\ next = 0 /\ hurt = FALSE
  /\ cmds = 0 /\ faults = 0 /\ edits = 0

-----------------------------------------------------------------------------
(* Control.                                                                 *)

At(p) == pc = p
Fault == faults < MaxFaults /\ faults' = faults + 1 /\ hurt' = TRUE
NoFault == UNCHANGED <<faults, hurt>>

Start(p) ==
  /\ At("idle") /\ cmds < MaxCmds
  /\ pc' = p /\ cmds' = cmds + 1 /\ hurt' = FALSE /\ done' = "none"
  /\ UNCHANGED <<bnk, crs, inv, faults, edits>>

\* A step of `bnk upgrade` goes on to q; none of them looks at the resources of tenants.
Go(q) == pc' = q /\ UNCHANGED <<done, next, seen, cmds, edits, inv, crs>>

End(report) ==
  /\ pc' = "idle" /\ done' = report /\ next' = 0
  /\ UNCHANGED <<seen, cmds, edits, inv, crs>>

Refuse == End("upgrade refused") /\ NoFault /\ UNCHANGED bnk
Pass(p, q) == At(p) /\ Go(q) /\ NoFault /\ UNCHANGED bnk

\* The process ends, or a call fails whose error the command returns.
Abort == ~At("idle") /\ Fault /\ End("none") /\ UNCHANGED bnk

-----------------------------------------------------------------------------
(* bnk upgrade: Multus, FLO, CNEInstance.                                   *)

StartUpgrade == Start("multus") /\ seen' = inv /\ UNCHANGED next

\* The error of this repair is dropped.
EnsureMultus ==
  /\ At("multus") /\ Go("flo")
  /\ \/ multus' = TRUE /\ NoFault
     \/ UNCHANGED multus /\ Fault
  /\ UNCHANGED <<flo, floRuns, spec, crd, ctl, sticky, pods, rbac, sa, tmm, stream>>

\* A release on the chart is skipped, also when that revision failed.
FloSkipped == flo \in {"new", "failed"} /\ Pass("flo", "cne")

HelmUpgrade ==
  /\ At("flo") /\ flo = "old" /\ flo' = "pending" /\ Go("helm") /\ NoFault
  /\ UNCHANGED <<floRuns, spec, crd, ctl, sticky, pods, rbac, sa, tmm, stream, multus>>

\* Helm lists no release that is pending.
FloNotListed == At("flo") /\ flo = "pending" /\ Refuse

HelmUpgraded ==
  /\ At("helm") /\ flo' = "new" /\ floRuns' = "new" /\ Go("cne") /\ NoFault
  /\ UNCHANGED <<spec, crd, ctl, sticky, pods, rbac, sa, tmm, stream, multus>>

\* The pods of the new chart are not ready in time; they may be later.
HelmFails ==
  /\ At("helm") /\ Fault /\ flo' = "failed" /\ floRuns' \in {"old", "new"} /\ End("upgrade refused")
  /\ UNCHANGED <<spec, crd, ctl, sticky, pods, rbac, sa, tmm, stream, multus>>

PatchCNEInstance ==
  /\ At("cne") /\ spec' = TRUE /\ Go("crd") /\ NoFault
  /\ UNCHANGED <<flo, floRuns, crd, ctl, sticky, pods, rbac, sa, tmm, stream, multus>>

-----------------------------------------------------------------------------
(* bnk upgrade: the rollout.                                                *)

CrdExists == crd /\ Pass("crd", "render")

Rendered(p) == ctl = "new" /\ Pass(p, "ready")

\* RenderWait is over: FLO cannot update the CNEController, or it is slow.
NotRendered ==
  /\ At("render") /\ ctl # "new" /\ Go("recreate") /\ UNCHANGED bnk
  /\ IF sticky /\ ctl = "old" THEN NoFault ELSE Fault

\* Mutant: the old CNEController stays.
RecreateCNEControllerBug == At("recreate") /\ ctl = "old" /\ Pass("recreate", "render again")

\* Its Deployment goes with it, and the pods sooner or later; that there is none is an error.
RecreateCNEController ==
  /\ At("recreate")
  /\ IF ctl = "none" THEN Refuse
     ELSE /\ ctl' = "none" /\ Go("render again") /\ NoFault
          /\ pods' = {[p EXCEPT !.current = FALSE, !.owned = FALSE] : p \in pods}
          /\ UNCHANGED <<flo, floRuns, spec, crd, sticky, rbac, sa, tmm, stream, multus>>

\* As many available as there are; which template they are of is not asked.
DeploymentReady ==
  LET own == {p \in pods : p.owned} IN own # {} /\ \A p \in own : p.up

Ready == DeploymentReady /\ Pass("ready", "flag")

FlagOnPods == (\A p \in pods : p.flag) /\ Pass("flag", "rbac")
FlagMissing == At("flag") /\ (\E p \in pods : ~p.flag) /\ Refuse

Restarted == pods' = {[p EXCEPT !.current = FALSE] : p \in pods}

RbacThere == rbac /\ Pass("rbac", "tmm")

ApplyRbac ==
  /\ At("rbac") /\ ~rbac /\ rbac' = TRUE /\ Go("rbac restart") /\ NoFault
  /\ UNCHANGED <<flo, floRuns, spec, crd, ctl, sticky, pods, sa, tmm, stream, multus>>

RbacRestart ==
  /\ At("rbac restart") /\ Restarted /\ Go("rbac wait") /\ NoFault
  /\ UNCHANGED <<flo, floRuns, spec, crd, ctl, sticky, rbac, sa, tmm, stream, multus>>

RbacWait == DeploymentReady /\ Pass("rbac wait", "tmm")

\* The conditions of CNEInstance, which may be of before the upgrade, and TMM pods
\* that are ready, also old ones.
TmmReady == tmm # "rolling" /\ Pass("tmm", IF HasRole THEN "irsa" ELSE "stream")

-----------------------------------------------------------------------------
(* bnk upgrade: phase 21 and the log.                                       *)

Annotate ==
  /\ At("irsa") /\ sa' = TRUE /\ Go("irsa pods") /\ NoFault
  /\ UNCHANGED <<flo, floRuns, spec, crd, ctl, sticky, pods, rbac, tmm, stream, multus>>

\* Mutant: the pods are not looked at.
InjectRoleBug == Pass("irsa pods", "stream")

\* Pods from before the annotation are replaced.
InjectRole ==
  /\ At("irsa pods") /\ Go("stream") /\ NoFault
  /\ IF \A p \in pods : p.role THEN UNCHANGED pods ELSE Restarted
  /\ UNCHANGED <<flo, floRuns, spec, crd, ctl, sticky, rbac, sa, tmm, stream, multus>>

StreamThere == At("stream") /\ stream # "off" /\ End("upgraded") /\ NoFault /\ UNCHANGED bnk

MarkStream ==
  /\ At("stream") /\ stream = "off" /\ stream' = "marked" /\ Go("bounce") /\ NoFault
  /\ UNCHANGED <<flo, floRuns, spec, crd, ctl, sticky, pods, rbac, sa, tmm, multus>>

BounceFluentd ==
  /\ At("bounce") /\ stream' = "on" /\ End("upgraded") /\ NoFault
  /\ UNCHANGED <<flo, floRuns, spec, crd, ctl, sticky, pods, rbac, sa, tmm, multus>>

\* What the wait is for cannot come.
Hopeless ==
  IF At("crd") THEN floRuns = "old" ELSE At("render again") /\ sticky /\ ctl = "old"

\* A wait that runs out: what it waits for cannot come, or is late.
TimesOut == Hopeless /\ Refuse
TimesOutSlow ==
  /\ pc \in {"crd", "render again", "ready", "rbac wait", "tmm"} /\ Fault
  /\ End("upgrade refused") /\ UNCHANGED bnk

-----------------------------------------------------------------------------
(* bnk migrate-2.4 --apply.                                                 *)

StartMigrate == Start("apply") /\ seen' = inv /\ next' = 1

\* Server-side apply with force by one manager: what the object says is what it holds.
Put(o) ==
  /\ infra' = IF o.kind = "Infra" THEN InfraOf(seen) ELSE infra
  /\ settings' = IF o.kind = "GatewaySettings"
                 THEN [settings EXCEPT ![o.key] = SettingsOf(seen, o.key)] ELSE settings
  /\ patches' = patches \cup (IF o.kind = "Gateway" THEN {o.key} ELSE {})
  /\ egws' = egws \cup (IF o.kind = "EgressGateway" THEN {o.key} ELSE {})
  /\ pols' = IF o.kind = "SecPolicy" THEN [pols EXCEPT ![o.key] = o.val] ELSE pols

\* The kind is served, and a Gateway that is patched is there.
Accepted(o) == IF o.kind = "Gateway" THEN inv.gws[o.key] # "absent" ELSE crd

ApplyNext ==
  /\ At("apply") /\ next \in DOMAIN Objects(seen) /\ Accepted(Objects(seen)[next])
  /\ Put(Objects(seen)[next]) /\ next' = next + 1
  /\ NoFault /\ UNCHANGED <<bnk, inv, prog, pc, done, seen, cmds, edits>>

\* The first error ends the command.
ApplyRefused ==
  /\ At("apply") /\ next \in DOMAIN Objects(seen) /\ ~Accepted(Objects(seen)[next])
  /\ End("migrate refused") /\ NoFault /\ UNCHANGED bnk

\* Without an Infra there is nothing to wait for.
Applied ==
  /\ At("apply") /\ next > Len(Objects(seen)) /\ NoFault /\ UNCHANGED bnk
  /\ IF seen.vlans = {} THEN End("migrated")
     ELSE pc' = "programmed" /\ UNCHANGED <<crs, inv, done, next, seen, cmds, edits>>

Programmed == At("programmed") /\ prog /\ End("migrated") /\ NoFault /\ UNCHANGED bnk

NotProgrammed ==
  /\ At("programmed") /\ ~prog /\ UNCHANGED bnk /\ End("migrate refused")
  /\ IF ctl = "new" THEN Fault ELSE NoFault

-----------------------------------------------------------------------------
(* The cluster.                                                             *)

Others == UNCHANGED <<inv, infra, settings, patches, egws, pols, pc, done, seen, next, hurt, cmds, faults, edits>>

\* FLO of 2.4 installs the CRDs of the manifest the CNEInstance asks for.
FloInstallsCrds ==
  /\ floRuns = "new" /\ spec /\ ~crd /\ crd' = TRUE
  /\ Others /\ UNCHANGED <<flo, floRuns, spec, ctl, sticky, pods, rbac, sa, tmm, stream, multus, prog>>

FloRenders ==
  /\ crd /\ (ctl = "none" \/ (ctl = "old" /\ ~sticky)) /\ ctl' = "new" /\ Restarted
  /\ Others /\ UNCHANGED <<flo, floRuns, spec, crd, sticky, rbac, sa, tmm, stream, multus, prog>>

TmmRolls ==
  /\ crd /\ \/ tmm = "old" /\ tmm' = "rolling"
            \/ tmm = "rolling" /\ tmm' = "new"
  /\ Others /\ UNCHANGED <<flo, floRuns, spec, crd, ctl, sticky, pods, rbac, sa, stream, multus, prog>>

\* A pod of the current template starts, is up, and the others go; one whose Deployment is
\* gone goes when the garbage collector comes to it.
PodChanges ==
  /\ \/ /\ ctl # "none" /\ \A p \in pods : ~p.current
        /\ pods' = pods \cup {[flag |-> ctl = "new", role |-> sa, rbac |-> rbac, current |-> TRUE, up |-> FALSE,
                               owned |-> TRUE]}
     \/ \E p \in pods : p.current /\ ~p.up /\ pods' = (pods \ {p}) \cup {[p EXCEPT !.up = TRUE]}
     \/ /\ \E p \in pods : p.current /\ p.up
        /\ \E q \in pods : ~q.current /\ pods' = pods \ {q}
     \/ \E q \in pods : ~q.owned /\ pods' = pods \ {q}
  /\ Others /\ UNCHANGED <<flo, floRuns, spec, crd, ctl, sticky, rbac, sa, tmm, stream, multus, prog>>

\* The controller of 2.4 programs the Infra it finds.
Programs ==
  /\ infra # NoInfra /\ ~prog /\ (\E p \in pods : p.flag /\ p.up) /\ prog' = TRUE
  /\ Others /\ UNCHANGED bnk

\* Tenants change what they have; a Gateway that is gone takes its patch along.
\* No step of an upgrade looks at it: a change during one is as well one after it, and one
\* before a migration has begun another inventory to begin with.
Begun == pc \in {"apply", "programmed"} \/ (pc = "idle" /\ \E k \in Keys : settings[k] # NoSettings)
Edit ==
  /\ edits < MaxEdits /\ Begun /\ edits' = edits + 1
  /\ \E v \in Inventories \ {inv} : inv' = v /\ patches' = {g \in patches : v.gws[g] # "absent"}
  /\ UNCHANGED <<bnk, infra, settings, egws, pols, prog, pc, done, seen, next, hurt, cmds, faults>>

-----------------------------------------------------------------------------
UpgradeStep ==
  \/ EnsureMultus \/ FloSkipped \/ HelmUpgrade \/ FloNotListed \/ HelmUpgraded \/ HelmFails
  \/ PatchCNEInstance \/ CrdExists \/ Rendered("render") \/ NotRendered \/ RecreateCNEController
  \/ Rendered("render again") \/ Ready \/ FlagOnPods \/ FlagMissing
  \/ RbacThere \/ ApplyRbac \/ RbacRestart \/ RbacWait \/ TmmReady \/ Annotate \/ InjectRole
  \/ StreamThere \/ MarkStream \/ BounceFluentd \/ TimesOut \/ TimesOutSlow

MigrateStep == ApplyNext \/ ApplyRefused \/ Applied \/ Programmed \/ NotProgrammed

ClusterStep == FloInstallsCrds \/ FloRenders \/ TmmRolls \/ PodChanges \/ Programs

Next == StartUpgrade \/ StartMigrate \/ UpgradeStep \/ MigrateStep \/ ClusterStep \/ Abort \/ Edit

Spec == Init /\ [][Next]_vars
=============================================================================
