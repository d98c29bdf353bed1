------------------------------ MODULE Overlay ------------------------------
(***************************************************************************)
(* The overlay phases of `up`: from the add-ons of the cluster (08b, 08c)   *)
(* to the activation poll (25), in the order lifecycle.go runs them.  The   *)
(* network, the hosts and the other add-ons are models of their own.        *)
(*                                                                          *)
(* A step is a phase, or a part of one that ends where the phase waits or   *)
(* where an interruption would show.  A wait is a step that is not enabled; *)
(* its timeout is a fault where the awaited thing is on its way.  Keys of   *)
(* state.env that only record a time are left out, as are dry runs.         *)
(***************************************************************************)
EXTENDS BnkCluster, Sequences

CONSTANTS
  MaxUps,      \* bound: `up`s
  MaxFaults,   \* bound: injected faults
  MaxIter,     \* bound: pods that phase 24 deletes, for the iterations of its poll
  MaxBounces   \* h4MaxBounces of phase 24c

ASSUME OverlayAssumption ==
  MaxUps \in Nat /\ MaxFaults \in Nat /\ MaxIter \in Nat /\ MaxBounces \in Nat

VARIABLES
  pc,      \* the step the running command is at, "idle" when none runs
  done,    \* what the last command reported
  run,     \* number of `up`s
  hurt,    \* the running command met a fault
  tries,   \* pods this phase has bounced
  intent,  \* this `heal` was given cluster.yaml
  repairs, \* the worst outcome of a repair of this `heal`
  faults

vars == <<world, pc, done, run, hurt, tries, intent, repairs, faults>>

\* The steps of the three commands.
UpPoints == {"cluster", "08b", "08b poll", "08c", "11", "16", "11c", "17c", "12 ns", "12",
  "12 multus", "14", "14 run", "15", "19", "20", "22", "22 wait", "21", "21 sa", "21 pods",
  "23", "23b", "23b infra", "23b wait", "24", "24b", "24b bounce", "24d", "24c", "24c poll",
  "24c sync", "25"}

DownPoints == {"client", "crs", "15 down", "23b down", "23 down", "22 down", "20 down",
  "19 down", "14 down", "14 uninstall", "12 down", "11c down", "17c down", "cluster down"}

\* The repairs of `bnk heal`.
HealPoints == {"multus-token-watch", "metrics-server", "tmm-log-stream", "pod-manager", "cwc",
  "cwc wait", "dssm-probe", "dssm bounce", "controller-endpointslices", "controller-irsa",
  "irsa sa", "irsa pods", "tmm-k8s-routes", "epp-namespaces", "test-namespace",
  "persistence-profile-sync", "heal end"}

\* Mutant: the phases in the order of their numbers.
CneOrderBug(p) ==
  CASE p = "20" -> "21"  [] p = "21" -> "21 sa"  [] p = "21 sa" -> "21 pods"
    [] p = "21 pods" -> "22"  [] p = "22" -> "22 wait"  [] p = "22 wait" -> "23"

\* The CNEInstance comes before the phase that waits for the controller FLO makes of it.
CneOrder(p) ==
  CASE p = "20" -> "22"  [] p = "22" -> "22 wait"  [] p = "22 wait" -> "21"
    [] p = "21" -> "21 sa"  [] p = "21 sa" -> "21 pods"  [] p = "21 pods" -> "23"

\* What follows a step of `up`, of `down`, a row of the table of `bnk heal`.
UpOrder(p) ==
  CASE p = "cluster" -> "08b"  [] p = "08b" -> "08b poll"  [] p = "08b poll" -> "08c"
    [] p = "08c" -> "11"  [] p = "11" -> "16"  [] p = "16" -> "11c"  [] p = "11c" -> "17c"
    [] p = "17c" -> "12 ns"  [] p = "12 ns" -> "12"  [] p = "12" -> "12 multus"
    [] p = "12 multus" -> "14"  [] p = "14" -> "14 run"  [] p = "14 run" -> "15"
    [] p = "15" -> "19"  [] p = "19" -> "20"  [] p = "23" -> "23b"
    [] p = "23b" -> "23b infra"  [] p = "23b infra" -> "23b wait"  [] p = "23b wait" -> "24"
    [] p = "24" -> "24b"  [] p = "24b" -> "24b bounce"  [] p = "24b bounce" -> "24d"
    [] p = "24d" -> "24c"  [] p = "24c" -> "24c poll"  [] p = "24c poll" -> "24c sync"
    [] p = "24c sync" -> "25"
    [] OTHER -> CneOrder(p)

DownOrder(p) ==
  CASE p = "client" -> "crs"  [] p = "crs" -> "15 down"  [] p = "15 down" -> "23b down"
    [] p = "23b down" -> "23 down"  [] p = "23 down" -> "22 down"
    [] p = "22 down" -> "20 down"  [] p = "20 down" -> "19 down"
    [] p = "19 down" -> "14 down"  [] p = "14 down" -> "14 uninstall"
    [] p = "14 uninstall" -> "12 down"  [] p = "12 down" -> "11c down"
    [] p = "11c down" -> "17c down"  [] p = "17c down" -> "cluster down"

HealOrder(p) ==
  CASE p = "multus-token-watch" -> "metrics-server"
    [] p = "metrics-server" -> "tmm-log-stream"  [] p = "tmm-log-stream" -> "pod-manager"
    [] p = "pod-manager" -> "cwc"  [] p = "cwc" -> "cwc wait"
    [] p = "cwc wait" -> "dssm-probe"  [] p = "dssm-probe" -> "dssm bounce"
    [] p = "dssm bounce" -> "controller-endpointslices"
    [] p = "controller-endpointslices" -> "controller-irsa"
    [] p = "controller-irsa" -> "irsa sa"  [] p = "irsa sa" -> "irsa pods"
    [] p = "irsa pods" -> "tmm-k8s-routes"  [] p = "tmm-k8s-routes" -> "epp-namespaces"
    [] p = "epp-namespaces" -> "test-namespace"
    [] p = "test-namespace" -> "persistence-profile-sync"
    [] p = "persistence-profile-sync" -> "heal end"

After(p) == CASE p \in UpPoints -> UpOrder(p)
              [] p \in DownPoints -> DownOrder(p)
              [] p \in HealPoints -> HealOrder(p)

\* Every variable has its type.
TypeOK ==
  /\ WorldTypeOK
  /\ pc \in {"idle"} \cup UpPoints \cup DownPoints \cup HealPoints
  /\ done \in {"none", "up", "up refused", "down", "healed", "heal skipped", "heal failed"}
  /\ run \in 0 .. MaxUps /\ hurt \in BOOLEAN /\ intent \in BOOLEAN
  /\ tries \in 0 .. (IF MaxIter > MaxBounces THEN MaxIter ELSE MaxBounces)
  /\ repairs \in {"healed", "heal skipped", "heal failed"} /\ faults \in 0 .. MaxFaults

Init ==
  /\ WorldInit
  /\ pc = "idle" /\ done = "none" /\ run = 0 /\ hurt = FALSE /\ tries = 0
  /\ intent = FALSE /\ repairs = "healed" /\ faults = 0

-----------------------------------------------------------------------------
(* Control.                                                                 *)

At(p) == pc = p
Fault == faults < MaxFaults /\ faults' = faults + 1 /\ hurt' = TRUE
NoFault == UNCHANGED <<faults, hurt>>

\* On to a step; Next is the one the order names.
To(q) == pc' = q /\ tries' = 0 /\ UNCHANGED <<done, run, intent, repairs>>
Advance(p) == To(After(p))

End(report) ==
  /\ pc' = "idle" /\ done' = report /\ tries' = 0 /\ intent' = FALSE /\ repairs' = "healed"
  /\ UNCHANGED run

\* An error return: the command ends, what it did stays.
Refuse == End("up refused") /\ NoFault /\ UNCHANGED world

\* The phase applies manifests whose objects x stands for.
Applies(p, x) ==
  /\ At(p) /\ objs' = objs \cup {x} /\ Advance(p) /\ NoFault
  /\ UNCHANGED <<Base, ns, flo, cne, Runtime, broken>>

Passes(p) == Advance(p) /\ NoFault /\ UNCHANGED world

StartUp ==
  /\ At("idle") /\ run < MaxUps
  /\ pc' = "cluster" /\ run' = run + 1 /\ hurt' = FALSE /\ done' = "none"
  /\ UNCHANGED <<world, tries, intent, repairs, faults>>

\* The process ends, or a call fails whose error the phase returns.
Abort == ~At("idle") /\ Fault /\ End("none") /\ UNCHANGED world

-----------------------------------------------------------------------------
(* The cluster and its add-ons.                                             *)

\* Phases 02 to 10.
Cluster10 ==
  /\ At("cluster") /\ cluster' = TRUE /\ Advance("cluster") /\ NoFault
  /\ broken' = IF cluster THEN broken ELSE {"metrics-server", "test-namespace"}
  /\ cni' = IF cluster THEN cni ELSE "active"
  /\ UNCHANGED <<Spaces, Runtime>>

\* EKS refuses a change to an add-on it is changing, as an interrupted `up` leaves it.
Phase08b ==
  /\ At("08b")
  /\ IF cni = "updating" THEN Refuse
     ELSE /\ cni' = "updating" /\ Advance("08b") /\ NoFault
          /\ UNCHANGED <<cluster, Spaces, Runtime, broken>>

\* Active, or the poll runs out, as it does for an add-on that has no nodes yet: no error.
\* One that failed ends the command as a call does that fails.
PollVpcCni == At("08b poll") /\ cni # "updating" /\ Passes("08b poll")
CniSlow == At("08b poll") /\ cni = "updating" /\ Passes("08b poll")

Phase08c ==
  /\ At("08c") /\ objs' = objs \cup {"metrics"} /\ broken' = broken \ {"metrics-server"}
  /\ Advance("08c") /\ NoFault /\ UNCHANGED <<Base, ns, flo, cne, Runtime>>

Phase11 == Applies("11", "kubeconfig")
Phase16 == Applies("16", "label")
Phase11c == Applies("11c", "gpu")
Phase17c == Applies("17c", "ifaces")

-----------------------------------------------------------------------------
(* Foundation, FLO, what CNEInstance needs.                                 *)

\* A namespace that is there is left alone, also when it is on its way out.
EnsureNamespaces ==
  /\ At("12 ns") /\ ns' = (IF ns = "none" THEN "active" ELSE ns) /\ Advance("12 ns") /\ NoFault
  /\ UNCHANGED <<Base, objs, flo, cne, Runtime, broken>>

\* Secrets, cert-manager and its chain.
Phase12 == ns # "none" /\ Applies("12", "certs")

\* The CRDs of the inference extension, Multus, its token watch, the test namespace;
\* the errors of the last two are dropped.
Multus12 ==
  /\ At("12 multus") /\ objs' = objs \cup {"multus"} /\ Advance("12 multus")
  /\ \/ broken' = broken \ {"multus-token-watch", "test-namespace"} /\ NoFault
     \/ UNCHANGED broken /\ Fault
  /\ UNCHANGED <<Base, ns, flo, cne, Runtime>>

\* The release is deployed, at this version, with these values.
FloSame == At("14") /\ flo = "deployed" /\ To("15") /\ NoFault /\ UNCHANGED world

\* Helm lists a failed or deployed release, no pending one; Install refuses its name.
RunFloHelm ==
  /\ At("14") /\ flo # "pending" /\ ns = "active"
  /\ flo' = "pending" /\ To("14 run") /\ NoFault
  /\ UNCHANGED <<Base, ns, objs, cne, Runtime, broken>>

FloRefused == At("14") /\ flo = "pending" /\ Refuse

FloInstalled ==
  /\ At("14 run") /\ flo' = "deployed" /\ Advance("14 run") /\ NoFault
  /\ UNCHANGED <<Base, ns, objs, cne, Runtime, broken>>

FloFails ==
  /\ At("14 run") /\ flo' = "failed" /\ End("up refused") /\ NoFault
  /\ UNCHANGED <<Base, ns, objs, cne, Runtime, broken>>

Phase15 == ns # "none" /\ "certs" \in objs /\ Applies("15", "otel")
Phase19 == ns # "none" /\ Applies("19", "mapping")
Phase20 == ns # "none" /\ "ifaces" \in objs /\ Applies("20", "nads")

\* The webhook wants the interfaces and the mapping.  On one that is deleted the
\* apply goes through and changes nothing.
Phase22 ==
  /\ At("22") /\ ns # "none" /\ {"mapping", "nads"} \subseteq objs
  /\ cne' = (IF cne = "none" THEN "applied" ELSE cne) /\ Advance("22") /\ NoFault
  /\ UNCHANGED <<Base, ns, objs, flo, Runtime, broken>>

\* Conditions in its status, of this reconciliation or an earlier one.
ReconcileStarted == At("22 wait") /\ cne \in {"reconciled", "going"} /\ Passes("22 wait")

-----------------------------------------------------------------------------
(* The controller's role, licence and gateway class.                        *)

\* Rolled out anew: the new pods get what their ServiceAccount has.
Restarted ==
  /\ Becomes("controller", "starting") /\ irsa' = [irsa EXCEPT !.env = irsa.sa]

WaitForDeployment == At("21") /\ pods["controller"] # "none" /\ Passes("21")

\* The trust policy of the role names the ServiceAccount, which is annotated.
Annotate ==
  /\ At("21 sa") /\ irsa' = [irsa EXCEPT !.sa = TRUE] /\ Advance("21 sa") /\ NoFault
  /\ UNCHANGED <<Base, Spaces, pods, probe, crs, loops, broken>>

\* Mutant: the pods are not looked at.
InjectRoleBug(p) == At(p) /\ Passes(p)

\* Pods from before the annotation are replaced.
InjectRole(p) ==
  /\ At(p) /\ Advance(p) /\ NoFault
  /\ IF irsa.env \/ pods["controller"] = "none" THEN UNCHANGED <<pods, irsa>> ELSE Restarted
  /\ UNCHANGED <<Base, Spaces, probe, crs, loops, broken>>

Apply(c) == crs' = [crs EXCEPT ![c] = IF @ = "none" THEN "applied" ELSE @]

\* Its CRD comes with FLO's reconciliation.
Phase23 ==
  /\ At("23") /\ cne \in {"reconciled", "going"} /\ Apply("license") /\ Advance("23") /\ NoFault
  /\ UNCHANGED <<Base, Spaces, pods, probe, irsa, loops, broken>>

ControllerAvailable == At("23b") /\ pods["controller"] = "ready" /\ Passes("23b")

\* RBAC, GatewayClass, Infra; the webhook is retried while it does not answer.
Phase23b ==
  /\ At("23b infra") /\ Apply("infra") /\ broken' = broken \ {"controller-endpointslices"}
  /\ Advance("23b infra") /\ NoFault /\ UNCHANGED <<Base, Spaces, pods, probe, irsa, loops>>

InfraProgrammed == At("23b wait") /\ crs["infra"] = "done" /\ Passes("23b wait")

-----------------------------------------------------------------------------
(* Heals and activation.                                                    *)

CwcReady == At("24") /\ pods["cwc"] = "ready" /\ Passes("24")

\* A pod that restarted too often is deleted; the poll goes on.
CwcHeal ==
  /\ At("24") /\ pods["cwc"] = "looping" /\ tries < MaxIter
  /\ Becomes("cwc", "starting") /\ tries' = tries + 1 /\ NoFault
  /\ UNCHANGED <<Base, Spaces, probe, irsa, crs, loops, broken, pc, done, run, intent, repairs>>

\* Mutant: the poll has no end.
CwcGivesUpBug == At("24") /\ pods["cwc"] = "none" /\ Passes("24")

\* The poll is over, which is no error.
CwcGivesUp ==
  /\ At("24")
  /\ IF pods["cwc"] = "looping" /\ tries = MaxIter THEN NoFault ELSE pods["cwc"] # "ready" /\ Fault
  /\ Advance("24") /\ UNCHANGED world

DssmWell == At("24b") /\ (pods["dssm"] = "ready" \/ probe.patched) /\ cne # "applied"
            /\ To("24d") /\ NoFault /\ UNCHANGED world

\* The scripts are patched; the marker in them ends later calls before they bounce.
PatchDssm(p) ==
  /\ At(p) /\ cne \in {"reconciled", "going"} /\ pods["dssm"] # "ready" /\ ~probe.patched
  /\ probe' = [probe EXCEPT !.patched = TRUE] /\ Advance(p) /\ NoFault
  /\ UNCHANGED <<Base, Spaces, pods, irsa, crs, loops, broken>>

BounceDssm(p) ==
  /\ At(p) /\ Advance(p)
  /\ \/ /\ pods["dssm"] # "none" /\ Becomes("dssm", "starting")
        /\ probe' = [probe EXCEPT !.started = TRUE] /\ NoFault
     \/ UNCHANGED <<pods, probe>> /\ Fault
  /\ UNCHANGED <<Base, Spaces, irsa, crs, loops, broken>>

Phase24d ==
  /\ At("24d") /\ broken' = broken \ {"tmm-log-stream"} /\ Advance("24d") /\ NoFault
  /\ UNCHANGED <<Base, Spaces, Runtime>>

\* A template that is changed is rolled out; that it could not be is not told.
EnsureCertMount ==
  \/ /\ broken' = broken \ {"cert-mount"} /\ NoFault
     /\ IF "cert-mount" \in broken /\ pods["controller"] # "none" THEN Restarted
        ELSE UNCHANGED <<pods, irsa>>
  \/ "cert-mount" \in broken /\ UNCHANGED <<broken, pods, irsa>> /\ Fault

Phase24c ==
  /\ At("24c") /\ EnsureCertMount /\ Advance("24c")
  /\ UNCHANGED <<Base, Spaces, probe, crs, loops>>

Bounce24c ==
  /\ At("24c poll") /\ pods["controller"] = "looping" /\ tries < MaxBounces
  /\ Restarted /\ tries' = tries + 1 /\ NoFault
  /\ UNCHANGED <<Base, Spaces, probe, crs, loops, broken, pc, done, run, intent, repairs>>

WindowOver ==
  /\ At("24c poll") /\ (pods["controller"] = "looping" => tries = MaxBounces) /\ Passes("24c poll")

\* Gates the controller did not write on a pod whose containers are ready.
SyncGates ==
  /\ IF pods["tmm"] = "running" THEN Becomes("tmm", "ready") ELSE UNCHANGED pods
  /\ NoFault /\ UNCHANGED <<Base, Spaces, probe, irsa, crs, loops, broken>>

Sync24c == At("24c sync") /\ SyncGates /\ Advance("24c sync")

Poll25 ==
  /\ At("25") /\ pods["tmm"] = "running" /\ SyncGates
  /\ UNCHANGED <<pc, tries, done, run, intent, repairs>>

\* Mutant: the state of the licence is not asked.
ActivatedBug ==
  /\ At("25") /\ CneReady /\ crs["infra"] = "done"
  /\ End("up") /\ NoFault /\ UNCHANGED world

\* CNEInstance available, the licence active, the scan finds the rest programmed.
Activated ==
  /\ At("25") /\ CneReady /\ crs["license"] = "done" /\ crs["infra"] = "done"
  /\ End("up") /\ NoFault /\ UNCHANGED world

-----------------------------------------------------------------------------
Waits == {"22 wait", "21", "23", "23b", "23b wait", "24b", "25"}

\* What the phase waits for cannot come: the namespaces or the CNEInstance go, or cwc
\* loops and phase 24 is over.
Hopeless ==
  \/ ns # "active" \/ cne \in {"none", "going"}
  \/ At("25") /\ pods["cwc"] = "looping" /\ crs["license"] # "done"

\* A poll that runs out returns an error.
TimesOut == pc \in Waits /\ (Hopeless \/ hurt) /\ Refuse
TimesOutSlow == pc \in Waits /\ ~Hopeless /\ Fault /\ End("up refused") /\ UNCHANGED world

\* Nothing can be made in a namespace that goes or is gone.
NsRefuses == pc \in {"12", "14", "15", "19", "20", "22", "24d"} /\ ns # "active" /\ Refuse

UpStep ==
  \/ Cluster10 \/ Phase08b \/ PollVpcCni \/ CniSlow \/ Phase08c \/ Phase11 \/ Phase16 \/ Phase11c
  \/ Phase17c \/ EnsureNamespaces \/ Phase12 \/ Multus12 \/ FloSame \/ RunFloHelm \/ FloRefused \/ FloInstalled
  \/ FloFails \/ Phase15 \/ Phase19 \/ Phase20 \/ Phase22 \/ ReconcileStarted
  \/ WaitForDeployment \/ Annotate \/ InjectRole("21 pods") \/ Phase23 \/ ControllerAvailable
  \/ Phase23b \/ InfraProgrammed \/ CwcReady \/ CwcHeal \/ CwcGivesUp \/ DssmWell
  \/ PatchDssm("24b") \/ BounceDssm("24b bounce") \/ Phase24d \/ Phase24c \/ Bounce24c
  \/ WindowOver \/ Sync24c \/ Poll25 \/ Activated \/ TimesOut \/ TimesOutSlow \/ NsRefuses
=============================================================================
