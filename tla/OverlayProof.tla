---------------------------- MODULE OverlayProof ----------------------------
(***************************************************************************)
(* TLAPS proofs about the overlay: what a successful `up` and a heal that   *)
(* reports no failure leave, for any number of commands, faults and crash   *)
(* loops.                                                                   *)
(*                                                                          *)
(* What an `up` has made stays while it goes on, unless the namespaces or   *)
(* the CNEInstance are being deleted; and that takes two faults of a `down` *)
(* before it, one of which kept it from taking them away itself.            *)
(***************************************************************************)
EXTENDS OverlayProps, TLAPS

\* The steps of `down` after the clean-up of the CNEInstance.
Cleaned == DownPoints \ {"client", "crs"}

\* The steps of `up` after dSSM, after the controller has its role, and so on back to
\* FLO: the later a step, the more has been made.
PastDssm == {"24d", "24c", "24c poll", "24c sync", "25"}
PastRole == {"23", "23b", "23b infra", "23b wait", "24", "24b", "24b bounce"} \cup PastDssm
PastAccount == {"21 pods"} \cup PastRole
PastWorkloads == {"21 sa"} \cup PastAccount
PastReconcile == {"21"} \cup PastWorkloads
PastFlo == {"15", "19", "20", "22", "22 wait"} \cup PastReconcile

\* The rows of the table of `bnk heal` after the one that mends, from the last back.
AfterSync == {"heal end"}
AfterTest == {"persistence-profile-sync"} \cup AfterSync
AfterEpp == {"test-namespace"} \cup AfterTest
AfterRoutes == {"epp-namespaces"} \cup AfterEpp
AfterRole == {"tmm-k8s-routes"} \cup AfterRoutes
AfterAccount == {"irsa pods"} \cup AfterRole
AfterSlices == {"controller-irsa", "irsa sa"} \cup AfterAccount
AfterMount ==
  {"cwc", "cwc wait", "dssm-probe", "dssm bounce", "controller-endpointslices"} \cup AfterSlices
AfterLogs == {"pod-manager"} \cup AfterMount
AfterMetrics == {"tmm-log-stream"} \cup AfterLogs
AfterMultus == {"metrics-server"} \cup AfterMetrics

\* A call failed, or the process ended: once at least, twice at least.
Once == faults >= 1
Twice == faults >= 2

\* The parts of TypeOK by what steps change.
SpaceType == ns \in {"none", "active", "going"} /\
    flo \in {"none", "pending", "deployed", "failed"}
             /\ cne \in {"none", "applied", "reconciled", "going"}
FlagType == cluster \in BOOLEAN /\ hurt \in BOOLEAN /\ intent \in BOOLEAN
PodType == pods \in [Workloads -> {"none", "starting", "looping", "running", "ready"}]
ProbeType == probe \in [patched : BOOLEAN, started : BOOLEAN]
RoleType == irsa \in [sa : BOOLEAN, env : BOOLEAN]
CrType == crs \in [{"license", "infra"} -> {"none", "applied", "done"}]
SetType == objs \subseteq Things /\ broken \subseteq Plumbing /\
    cni \in {"none", "updating", "active"}
PlaceType ==
  /\ pc \in {"idle"} \cup UpPoints \cup DownPoints \cup HealPoints
  /\ done \in {"none", "up", "up refused", "down", "healed", "heal skipped", "heal failed"}
  /\ repairs \in {"healed", "heal skipped", "heal failed"}
CountType ==
  /\ run \in 0 .. MaxUps /\ faults \in 0 .. MaxFaults /\ loops \in 0 .. MaxLoops
  /\ tries \in 0 .. (IF MaxIter > MaxBounces THEN MaxIter ELSE MaxBounces)

\* An available CNEInstance has its workloads, and lives in namespaces.
Deployed ==
  /\ cne = "reconciled" => \A w \in Workloads : pods[w] # "none"
  /\ ns = "none" => cne = "none"

\* What goes away goes by a `down` that runs on, or that a fault ended: the CNEInstance
\* only where a first fault had kept the clean-up from it.
Deletions ==
  /\ pc \in Cleaned /\ cne # "none" => Once \/ pc = "cluster down"
  /\ ns = "going" => Once \/ pc \in Cleaned
  /\ cne = "going" \/ (ns = "going" /\ cne = "reconciled") =>
       Twice \/ (Once /\ pc \in Cleaned)

\* How far an `up` is, unless the namespaces are not there to hold it.
Progress ==
  /\ pc \in PastFlo => flo = "deployed" \/ ns # "active"
  /\ pc \in PastReconcile => cne # "applied"
  /\ pc \in PastWorkloads => pods["controller"] # "none" \/ cne = "none"
  /\ pc \in PastAccount => irsa.sa \/ ns # "active"
  /\ pc \in PastRole => irsa.env \/ ns # "active" \/ cne = "none"

\* The scripts of dSSM while nothing has gone wrong.
Scripts ==
  /\ ~Once /\ probe.patched => probe.started \/ pc \in {"24b bounce", "dssm bounce"}
  /\ ~Once /\ pc \in PastDssm => pods["dssm"] = "ready" \/ probe.started

\* What a heal works on, and what it has found or made well.
Healing ==
  pc \in HealPoints => IF ns = "active" THEN cne = "reconciled" ELSE Twice
Mended ==
  repairs = "healed" /\ ns = "active" =>
    /\ pc \in AfterMultus => "multus-token-watch" \notin broken
    /\ pc \in AfterMetrics => "metrics-server" \notin broken
    /\ pc \in AfterLogs => "tmm-log-stream" \notin broken
    /\ pc \in AfterMount => "cert-mount" \notin broken
    /\ pc \in AfterSlices => "controller-endpointslices" \notin broken
    /\ pc \in AfterAccount => irsa.sa
    /\ pc \in AfterRole => irsa.env
    /\ pc \in AfterRoutes => "tmm-k8s-routes" \notin broken
    /\ pc \in AfterEpp => "epp-namespaces" \notin broken
    /\ pc \in AfterTest => "test-namespace" \notin broken
    /\ pc \in AfterSync => "persistence-profile-sync" \notin broken

\* What a command reported, and what is left of what it reported about.
Reported ==
  /\ done \in {"up", "healed"} => pc = "idle"
  /\ done = "healed" =>
       IF ns = "active" THEN cne = "reconciled" /\ broken = {} /\ irsa.sa /\ irsa.env
       ELSE Twice
  /\ done = "up" => cne # "applied"
  /\ done = "up" =>
       \/ /\ ns = "active" /\ flo = "deployed" /\ irsa.sa /\ irsa.env /\ cne = "reconciled"
          /\ crs["license"] = "done" /\ crs["infra"] = "done"
          /\ pods["dssm"] = "ready" \/ probe.started \/ Once
       \/ Twice /\ (ns # "active" \/ cne # "reconciled")

Safe == Deployed /\ Deletions /\ Progress /\ Scripts /\ Healing /\ Mended /\ Reported
IInv == TypeOK /\ Safe

\* What a step of `up` may change.
UpEffect ==
  /\ pc \in UpPoints /\ pc' \in {"idle"} \cup UpPoints
  /\ Fault \/ NoFault
  /\ pc' = "idle" \/ done' = done
  /\ done' \in {done, "up", "up refused", "none"} /\ (done' = "up" /\ done # "up" => Activated)
  /\ cne' = cne \/ (cne = "none" /\ cne' = "applied" /\ ns # "none" /\ pc' = "22 wait")
  /\ ns' = ns \/ (ns = "none" /\ ns' = "active" /\ pc' = "12")
  /\ \A w \in Workloads : pods[w] # "none" => pods'[w] # "none"

\* What a step of `down` may change.
DownEffect ==
  /\ pc \in DownPoints /\ pc' \in {"idle"} \cup DownPoints
  /\ Fault \/ NoFault
  /\ pc' = "idle" \/ done' = done
  /\ done' \in {done, "down"}
  /\ pc \in Cleaned \/ pc' \notin Cleaned \/ pc' = "cluster down" \/ cne' = "none" \/ Fault
  /\ pc' \in Cleaned \/ pc \notin Cleaned \/
         (pc = "cluster down" /\ ns' = "none" /\ cne' = "none")
  /\ cne' \in {cne, "none"} \/ (cne # "none" /\ cne' = "going" /\ pc' \in Cleaned /\ (Fault \/
         pc = "22 down"))
  /\ ns' = ns \/ (ns' = "none" /\ cne' = "none") \/
         (ns' = "going" /\ cne' = cne /\ pc = "12 down" /\ pc' \in Cleaned)
  /\ pc = "cluster down" => pc' = "idle"
  /\ cne' = "reconciled" => pods' = pods
  /\ probe'.patched => probe' = probe

\* What a step of `bnk heal` may change.
HealEffect ==
  /\ pc \in HealPoints /\ pc' \in {"idle"} \cup HealPoints
  /\ (pc = "heal end" /\ pc' = "idle") \/ (pc # "heal end" /\ pc' = After(pc)) \/
         (pc \in Rows /\ pc' = NextRow(pc))
  /\ Fault \/ NoFault
  /\ pc' = "idle" \/ done' = done
  /\ done' = done \/ (done' = repairs /\ pc = "heal end" /\ UNCHANGED <<broken, irsa>>)
  /\ UNCHANGED <<ns, cne, flo>>
  /\ \A w \in Workloads : pods[w] # "none" => pods'[w] # "none"
  /\ pc = "dssm bounce" => probe'.started \/ Fault
  /\ pc # "dssm bounce" => probe' = probe \/ pc' = "dssm bounce"
  /\ broken' \subseteq broken
  /\ pc' = "idle" \/ repairs' = repairs \/ repairs' # "healed"

\* A set of rows is entered from the row before it.
Enters(p, q) ==
  /\ q \in AfterMultus => p \in AfterMultus \/ p = "multus-token-watch"
  /\ q \in AfterMetrics => p \in AfterMetrics \/ p = "metrics-server"
  /\ q \in AfterLogs => p \in AfterLogs \/ p = "tmm-log-stream"
  /\ q \in AfterMount => p \in AfterMount \/ p = "pod-manager"
  /\ q \in AfterSlices => p \in AfterSlices \/ p = "controller-endpointslices"
  /\ q \in AfterRoutes => p \in AfterRoutes \/ p = "tmm-k8s-routes"
  /\ q \in AfterEpp => p \in AfterEpp \/ p = "epp-namespaces"
  /\ q \in AfterTest => p \in AfterTest \/ p = "test-namespace"
  /\ q \in AfterSync => p \in AfterSync \/ p = "persistence-profile-sync"
  /\ q \in AfterAccount =>
         p \in AfterAccount \/ p = "irsa sa" \/ (p = "controller-irsa" /\ q = "tmm-k8s-routes")
  /\ q \in AfterRole =>
         p \in AfterRole \/ p = "irsa pods" \/ (p = "controller-irsa" /\ q = "tmm-k8s-routes")

\* What the row a heal is at leaves when it records no failure.
Mends ==
  /\ pc = "multus-token-watch" => "multus-token-watch" \notin broken'
  /\ pc = "metrics-server" => "metrics-server" \notin broken'
  /\ pc = "tmm-log-stream" => "tmm-log-stream" \notin broken'
  /\ pc = "pod-manager" => "cert-mount" \notin broken'
  /\ pc = "controller-endpointslices" => "controller-endpointslices" \notin broken'
  /\ pc = "tmm-k8s-routes" => "tmm-k8s-routes" \notin broken'
  /\ pc = "epp-namespaces" => "epp-namespaces" \notin broken'
  /\ pc = "test-namespace" => "test-namespace" \notin broken'
  /\ pc = "persistence-profile-sync" => "persistence-profile-sync" \notin broken'
  /\ pc = "irsa sa" => irsa'.sa
  /\ pc = "irsa pods" => irsa'.env \/ ~irsa.sa
  /\ pc = "controller-irsa" => pc' = After("controller-irsa") \/ (irsa'.sa /\ irsa'.env)
  /\ irsa.sa => irsa'.sa
  /\ irsa'.env \/ ~irsa.env \/ (pc = "pod-manager") \/ ~irsa.sa

\* The steps of `up` after the CNEInstance, and after phase 24 is over.
PastCwc == {"24b"} \cup PastDssm \cup {"24b bounce"}
PastCne == {"22 wait", "21", "21 sa", "21 pods", "23", "23b", "23b infra", "23b wait", "24"}
           \cup PastCwc

\* What a refusal can be laid to: how often cwc fell into its loop for the pods phase 24
\* has deleted, and who took the CNEInstance away.
Tried ==
  /\ pods["cwc"] = "looping" => loops > 0
  /\ pc = "24" => loops >= tries /\ (pods["cwc"] = "looping" => loops > tries)
  /\ pc \in PastCwc => pods["cwc"] \in {"none", "ready"} \/ hurt \/ loops > MaxIter
  /\ pc \in PastCne => cne # "none" \/ ns # "active" \/ Twice

\* What a step of `up` does to cwc and to what is tried with it.
Trial ==
  /\ loops' = loops
  /\ pods'["cwc"] = pods["cwc"] \/ (pods'["cwc"] = "starting" /\ pc = "24" /\ pc' = "24")
  /\ pc' = "24" => pc = "24" \/ tries' = 0
  /\ pc = "24" /\ pc' = "24" =>
       pods["cwc"] = "looping" /\ pods'["cwc"] = "starting" /\ tries' = tries + 1
  /\ pc' \in PastCwc /\ pc \notin PastCwc =>
       pods["cwc"] = "ready" \/ hurt' \/ (pc = "24" /\ tries = MaxIter /\ pods["cwc"] = "looping")
  /\ pc' \in PastCne => pc \in PastCne \/ cne' # "none"
  /\ hurt => hurt'
  /\ done # "up refused" /\ done' = "up refused" =>
       \/ hurt' \/ ns # "active" \/ cne = "going" \/ flo = "pending" \/ flo' = "failed"
       \/ pc = "08b" /\ cni = "updating"
       \/ pc \in PastCne /\ cne = "none"
       \/ pc = "25" /\ pods["cwc"] = "looping"

-----------------------------------------------------------------------------
\* What follows each step: the orders, read off.
LEMMA UpTable ==
  /\ After("cluster") = "08b" /\ After("08b") = "08b poll" /\ After("08b poll") = "08c"
  /\ After("08c") = "11" /\ After("11") = "16" /\ After("16") = "11c" /\ After("11c") = "17c"
  /\ After("17c") = "12 ns" /\ After("12 ns") = "12" /\ After("12") = "12 multus"
  /\ After("12 multus") = "14" /\ After("14") = "14 run" /\ After("14 run") = "15"
  /\ After("15") = "19" /\ After("19") = "20" /\ After("23") = "23b" /\ After("23b") = "23b infra"
  /\ After("23b infra") = "23b wait" /\ After("23b wait") = "24" /\ After("24") = "24b"
  /\ After("24b") = "24b bounce" /\ After("24b bounce") = "24d" /\ After("24d") = "24c"
  /\ After("24c") = "24c poll" /\ After("24c poll") = "24c sync" /\ After("24c sync") = "25"
  /\ After("20") = "22" /\ After("22") = "22 wait" /\ After("22 wait") = "21"
  /\ After("21") = "21 sa" /\ After("21 sa") = "21 pods" /\ After("21 pods") = "23"
BY DEF After, UpPoints, DownPoints, HealPoints, UpOrder, CneOrder

LEMMA DownTable ==
  /\ After("client") = "crs" /\ After("crs") = "15 down" /\ After("15 down") = "23b down"
  /\ After("23b down") = "23 down" /\ After("23 down") = "22 down" /\ After("22 down") = "20 down"
  /\ After("20 down") = "19 down" /\ After("19 down") = "14 down"
  /\ After("14 down") = "14 uninstall" /\ After("14 uninstall") = "12 down"
  /\ After("12 down") = "11c down" /\ After("11c down") = "17c down"
  /\ After("17c down") = "cluster down"
BY DEF After, UpPoints, DownPoints, HealPoints, DownOrder

LEMMA HealTable ==
  /\ After("multus-token-watch") = "metrics-server" /\ After("metrics-server") = "tmm-log-stream"
  /\ After("tmm-log-stream") = "pod-manager" /\ After("pod-manager") = "cwc"
  /\ After("cwc") = "cwc wait" /\ After("cwc wait") = "dssm-probe"
  /\ After("dssm-probe") = "dssm bounce" /\ After("dssm bounce") = "controller-endpointslices"
  /\ After("controller-endpointslices") = "controller-irsa"
  /\ After("controller-irsa") = "irsa sa" /\ After("irsa sa") = "irsa pods"
  /\ After("irsa pods") = "tmm-k8s-routes" /\ After("tmm-k8s-routes") = "epp-namespaces"
  /\ After("epp-namespaces") = "test-namespace"
  /\ After("test-namespace") = "persistence-profile-sync"
  /\ After("persistence-profile-sync") = "heal end"
BY DEF After, UpPoints, DownPoints, HealPoints, HealOrder

\* TypeOK is the conjunction of its parts.
LEMMA TypeParts ==
  TypeOK <=> SpaceType /\ FlagType /\ PodType /\ ProbeType /\ RoleType /\ CrType /\ SetType /\
      PlaceType /\ CountType
BY DEF TypeOK, WorldTypeOK, SpaceType, FlagType, PodType, ProbeType, RoleType, CrType, SetType,
       PlaceType, CountType

\* Counting faults, once and for all: the rest of the proofs needs no arithmetic.
LEMMA FaultsNat == ASSUME TypeOK PROVE faults \in Nat
<1>1. faults \in 0 .. MaxFaults BY DEF TypeOK
<1> QED BY ONLY <1>1, OverlayAssumption DEF OverlayAssumption

LEMMA FaultCounts == ASSUME TypeOK, Fault PROVE Once' /\ (Once => Twice') /\ (Twice => Once)
BY FaultsNat DEF Fault, Once, Twice

LEMMA NoFaultKeeps == ASSUME TypeOK, NoFault PROVE (Once' <=> Once) /\ (Twice' <=> Twice) /\
    (Twice => Once)
BY FaultsNat DEF NoFault, Once, Twice

\* `up` stays in its steps until it ends.
LEMMA UpAfter == ASSUME NEW p \in UpPoints, p # "25" PROVE After(p) \in UpPoints
<1>1. CASE p \in {"cluster", "08b", "08b poll", "08c", "11", "16", "11c", "17c", "12 ns", "12",
                  "12 multus", "14", "14 run", "15"}
  BY <1>1, UpTable, ZenonT(60) DEF UpPoints
<1>2. CASE p \in {"19", "20", "22", "22 wait", "21", "21 sa", "21 pods"}
  BY <1>2, UpTable, ZenonT(60) DEF UpPoints
<1>3. CASE p \in {"23", "23b", "23b infra", "23b wait", "24", "24b", "24b bounce", "24d", "24c",
                  "24c poll", "24c sync"}
  BY <1>3, UpTable, ZenonT(60) DEF UpPoints
<1>4. QED BY <1>1, <1>2, <1>3 DEF UpPoints

\* What changes when the pods of a workload change.
LEMMA PodsBecome ==
  ASSUME PodType, NEW w \in Workloads, NEW s, s # "none", Becomes(w, s)
  PROVE  /\ \A v \in Workloads : pods[v] # "none" => pods'[v] # "none"
         /\ \A v \in Workloads \ {w} : pods'[v] = pods[v]
         /\ pods'[w] = s
BY DEF PodType, Becomes

\* A step of `up` goes on or ends; it makes a CNEInstance and namespaces where there are none.
LEMMA UpChanges ==
  ASSUME TypeOK, UpStep
  PROVE  UpEffect
<1> USE TypeParts
    DEF UpStep, Cluster10, Phase08b, PollVpcCni, CniSlow, Phase08c, Phase11, Phase16, Phase11c,
        Phase17c, EnsureNamespaces, Phase12, Multus12, FloSame, RunFloHelm, FloRefused,
        FloInstalled, FloFails, Phase15, Phase19, Phase20, Phase22, ReconcileStarted,
        WaitForDeployment, Annotate, InjectRole, Phase23, ControllerAvailable, Phase23b,
        InfraProgrammed, CwcReady, CwcHeal, CwcGivesUp, DssmWell, PatchDssm, BounceDssm,
        Phase24d, Phase24c, Bounce24c, WindowOver, Sync24c, Poll25, Activated, TimesOut,
        TimesOutSlow, NsRefuses,
        At, Passes, Applies, Advance, To, Refuse, End, world, Base, Spaces, Runtime, PatchDssm,
        BounceDssm, SyncGates, EnsureCertMount, Restarted, Apply, Waits, Hopeless, CneReady
<1>1. pc' = pc \/ pc' = "idle" \/ pc' = "14 run" \/ pc' = "15" \/ pc' = "24d" \/ pc' = After(pc)
  OBVIOUS
<1>2. pc = "25" => pc' = pc \/ pc' = "idle" OBVIOUS
<1>3. pc \in UpPoints BY DEF UpPoints
<1>4. pc # "25" => After(pc) \in UpPoints BY ONLY <1>3, UpAfter
<1>5. "14 run" \in UpPoints /\ "15" \in UpPoints /\ "24d" \in UpPoints BY ONLY TRUE DEF UpPoints
<1>6. pc' \in {"idle"} \cup UpPoints BY ONLY <1>1, <1>2, <1>3, <1>4, <1>5
<1>7. Fault \/ NoFault OBVIOUS
<1>8. pc' = "idle" \/ done' = done OBVIOUS
<1>9. done' \in {done, "up", "up refused", "none"} /\ (done' = "up" /\ done # "up" =>
          Activated) OBVIOUS
<1>10. cne' = cne \/ (cne = "none" /\ cne' = "applied" /\ ns # "none" /\ pc' = "22 wait")
  BY UpTable
<1>11. ns' = ns \/ (ns = "none" /\ ns' = "active" /\ pc' = "12") BY UpTable
<1>12. pods' = pods \/ \E w \in Workloads : Becomes(w, "starting") \/ Becomes(w, "ready")
  BY DEF Workloads
<1>13. \A w \in Workloads : pods[w] # "none" => pods'[w] # "none"
  BY ONLY <1>12, TypeOK, TypeParts, PodsBecome
<1> QED BY ONLY <1>3, <1>6, <1>7, <1>8, <1>9, <1>10, <1>11, <1>13
     DEF UpEffect

\* Each step of `up` that is passed has made what the steps after it build on.
LEMMA UpProgresses ==
  ASSUME TypeOK, UpStep
  PROVE  /\ pc' \in PastFlo => (pc \in PastFlo /\ flo' = flo) \/ flo' = "deployed"
         /\ pc' \in PastReconcile => pc \in PastReconcile \/ cne # "applied"
         /\ pc' \in PastWorkloads => pc \in PastWorkloads \/ pods["controller"] # "none"
         /\ pc' \in PastAccount => pc \in PastAccount \/ irsa'.sa
         /\ pc' \in PastRole =>
                pc \in PastRole \/ (pc = "21 pods" /\ (irsa'.env \/
                    pods["controller"] = "none" \/ ~irsa.sa))
         /\ irsa.sa => irsa'.sa
         /\ irsa'.env \/ ~irsa.env \/ ~irsa.sa
<1> USE TypeParts
    DEF UpStep, Cluster10, Phase08b, PollVpcCni, CniSlow, Phase08c, Phase11, Phase16, Phase11c,
        Phase17c, EnsureNamespaces, Phase12, Multus12, FloSame, RunFloHelm, FloRefused,
        FloInstalled, FloFails, Phase15, Phase19, Phase20, Phase22, ReconcileStarted,
        WaitForDeployment, Annotate, InjectRole, Phase23, ControllerAvailable, Phase23b,
        InfraProgrammed, CwcReady, CwcHeal, CwcGivesUp, DssmWell, PatchDssm, BounceDssm,
        Phase24d, Phase24c, Bounce24c, WindowOver, Sync24c, Poll25, Activated, TimesOut,
        TimesOutSlow, NsRefuses,
        At, Passes, Applies, Advance, To, Refuse, End, world, Base, Spaces, Runtime, PatchDssm,
        BounceDssm, SyncGates, EnsureCertMount, Restarted, Apply, Waits, Hopeless, CneReady,
        PastFlo, PastReconcile, PastWorkloads, PastAccount, PastRole, PastDssm
<1>1. pc' \in PastFlo => (pc \in PastFlo /\ flo' = flo) \/ flo' = "deployed"
  BY UpTable, ZenonT(60)
<1>2. pc' \in PastReconcile => pc \in PastReconcile \/ cne # "applied" BY UpTable, ZenonT(60)
<1>3. pc' \in PastWorkloads => pc \in PastWorkloads \/ pods["controller"] # "none"
  BY UpTable, ZenonT(60)
<1>4. pc' \in PastAccount => pc \in PastAccount \/ irsa'.sa BY UpTable, ZenonT(60) DEF RoleType
<1>5. pc' \in PastRole =>
          pc \in PastRole \/ (pc = "21 pods" /\ (irsa'.env \/ pods["controller"] = "none" \/
              ~irsa.sa))
  BY UpTable, ZenonT(60) DEF RoleType
<1>6. irsa.sa => irsa'.sa BY DEF RoleType
<1>7. irsa'.env \/ ~irsa.env \/ ~irsa.sa BY DEF RoleType
<1> QED BY ONLY <1>1, <1>2, <1>3, <1>4, <1>5, <1>6, <1>7

\* The scripts of dSSM: patched, then started with.
LEMMA UpScripts ==
  ASSUME TypeOK, UpStep
  PROVE  /\ pc = "24b bounce" => probe'.started \/ Fault
         /\ pc # "24b bounce" => probe' = probe \/ pc' = "24b bounce"
         /\ pc' \in PastDssm =>
              \/ pc \in PastDssm \/ pc = "24b bounce"
              \/ pc = "24b" /\ (pods["dssm"] = "ready" \/ probe.patched)
         /\ pods'["dssm"] = pods["dssm"] \/ pc = "24b bounce"
<1> USE TypeParts
    DEF UpStep, Cluster10, Phase08b, PollVpcCni, CniSlow, Phase08c, Phase11, Phase16, Phase11c,
        Phase17c, EnsureNamespaces, Phase12, Multus12, FloSame, RunFloHelm, FloRefused,
        FloInstalled, FloFails, Phase15, Phase19, Phase20, Phase22, ReconcileStarted,
        WaitForDeployment, Annotate, InjectRole, Phase23, ControllerAvailable, Phase23b,
        InfraProgrammed, CwcReady, CwcHeal, CwcGivesUp, DssmWell, PatchDssm, BounceDssm,
        Phase24d, Phase24c, Bounce24c, WindowOver, Sync24c, Poll25, Activated, TimesOut,
        TimesOutSlow, NsRefuses,
        At, Passes, Applies, Advance, To, Refuse, End, world, Base, Spaces, Runtime, PatchDssm,
        BounceDssm, SyncGates, EnsureCertMount, Restarted, Apply, Waits, Hopeless, CneReady
<1>1. pc = "24b bounce" => probe'.started \/ Fault BY DEF ProbeType
<1>2. pc # "24b bounce" => probe' = probe \/ pc' = "24b bounce" BY UpTable
<1>3. pc' \in PastDssm =>
        \/ pc \in PastDssm \/ pc = "24b bounce"
        \/ pc = "24b" /\ (pods["dssm"] = "ready" \/ probe.patched)
  BY UpTable DEF PastDssm
<1>4. pc = "24b bounce" \/ pods' = pods \/
          \E w \in Workloads \ {"dssm"} : \E s : s # "none" /\ Becomes(w, s)
  BY DEF Workloads
<1>5. pods'["dssm"] = pods["dssm"] \/ pc = "24b bounce"
  BY ONLY <1>4, TypeOK, TypeParts, PodsBecome DEF Workloads
<1> QED BY ONLY <1>1, <1>2, <1>3, <1>5

\* Workloads by their names.
LEMMA Dssm == TypeOK => "dssm" \in Workloads /\ "controller" \in Workloads /\ "tmm" \in Workloads
BY DEF Workloads

\* No step of `up` starts or ends in a `down` or a heal.
LEMMA UpApart ==
  /\ UpPoints \cap Cleaned = {} /\ UpPoints \cap HealPoints = {} /\ "idle" \notin UpPoints
  /\ PastReconcile \subseteq PastFlo /\ PastWorkloads \subseteq PastReconcile
  /\ PastAccount \subseteq PastWorkloads /\ PastRole \subseteq PastAccount
  /\ PastDssm \subseteq PastRole
  /\ "idle" \notin PastFlo /\ "12" \notin PastFlo /\ "22 wait" \notin PastReconcile
  /\ "21 pods" \in PastAccount /\ "24b" \in PastRole /\ "24b" \notin PastDssm /\
         "24b bounce" \notin PastDssm
  /\ "24b" \notin {"24b bounce", "dssm bounce"}
<1>1. UpPoints \cap Cleaned = {} /\ "idle" \notin UpPoints
  BY ZenonT(60) DEF UpPoints, DownPoints, Cleaned
<1>2. UpPoints \cap HealPoints = {}
  BY ZenonT(60) DEF UpPoints, HealPoints
<1>3. /\ PastReconcile \subseteq PastFlo /\ PastWorkloads \subseteq PastReconcile
      /\ PastAccount \subseteq PastWorkloads /\ PastRole \subseteq PastAccount
      /\ PastDssm \subseteq PastRole
  BY DEF PastFlo, PastReconcile, PastWorkloads, PastAccount, PastRole
<1>4. /\ "idle" \notin PastFlo /\ "12" \notin PastFlo /\ "22 wait" \notin PastReconcile
      /\ "21 pods" \in PastAccount /\ "24b" \in PastRole
      /\ "24b" \notin PastDssm /\ "24b bounce" \notin PastDssm
  BY ZenonT(60) DEF PastFlo, PastReconcile, PastWorkloads, PastAccount, PastRole, PastDssm
<1> QED BY ONLY <1>1, <1>2, <1>3, <1>4

\* `up` keeps the invariant.
LEMMA UpSafe == ASSUME IInv, UpStep PROVE Safe'
<1>1. TypeOK /\ Deployed /\ Deletions /\ Progress /\ Scripts /\ Healing /\ Mended /\ Reported
  BY DEF IInv, Safe
<1>2. UpEffect
  BY ONLY <1>1, UpStep, UpChanges
<1>3. /\ Twice => Once
      /\ Once => Once'
      /\ Twice => Twice'
      /\ Once' => Once \/ Fault
      /\ Fault => Once' /\ (Once => Twice')
  BY ONLY <1>1, <1>2, FaultCounts, NoFaultKeeps DEF UpEffect
<1>4. pc \notin Cleaned /\ pc' \notin Cleaned /\ pc \notin HealPoints /\
          pc' \notin HealPoints /\ pc # "idle"
  BY ONLY <1>2, UpApart DEF UpEffect, Cleaned, HealPoints, DownPoints
<1>5. Deployed'
  BY ONLY <1>1, <1>2 DEF UpEffect, Deployed
<1>6. Deletions'
  BY ONLY <1>1, <1>2, <1>3, <1>4 DEF UpEffect, Deletions
<1>7. Progress'
  <2>1. /\ pc' \in PastFlo => (pc \in PastFlo /\ flo' = flo) \/ flo' = "deployed"
        /\ pc' \in PastReconcile => pc \in PastReconcile \/ cne # "applied"
        /\ pc' \in PastWorkloads => pc \in PastWorkloads \/ pods["controller"] # "none"
        /\ pc' \in PastAccount => pc \in PastAccount \/ irsa'.sa
        /\ pc' \in PastRole =>
               pc \in PastRole \/ (pc = "21 pods" /\ (irsa'.env \/
                   pods["controller"] = "none" \/ ~irsa.sa))
        /\ irsa.sa => irsa'.sa
        /\ irsa'.env \/ ~irsa.env \/ ~irsa.sa
    BY ONLY <1>1, UpStep, UpProgresses
  <2>2. pc' \in PastFlo => ns' = ns
    BY ONLY <1>2, UpApart DEF UpEffect
  <2>3. pc' \in PastReconcile => cne' = cne
    BY ONLY <1>2, UpApart DEF UpEffect
  <2>4. pc' \in PastWorkloads => pods'["controller"] # "none" \/ cne' = "none"
    BY ONLY <1>1, <1>2, <2>1, <2>3, UpApart, Dssm DEF UpEffect, Progress
  <2>5. pc' \in PastAccount => irsa'.sa \/ ns' # "active"
    BY ONLY <1>1, <2>1, <2>2, UpApart DEF Progress
  <2>6. pc' \in PastRole => irsa'.env \/ ns' # "active" \/ cne' = "none"
    BY ONLY <1>1, <2>1, <2>2, <2>3, UpApart DEF Progress
  <2>7. (pc' \in PastFlo => flo' = "deployed" \/ ns' # "active") /\ (pc' \in PastReconcile =>
            cne' # "applied")
    BY ONLY <1>1, <2>1, <2>2, <2>3 DEF Progress
  <2> QED BY ONLY <2>4, <2>5, <2>6, <2>7 DEF Progress
<1>8. Scripts'
  <2>1. /\ pc = "24b bounce" => probe'.started \/ Fault
        /\ pc # "24b bounce" => probe' = probe \/ pc' = "24b bounce"
        /\ pc' \in PastDssm =>
             \/ pc \in PastDssm \/ pc = "24b bounce"
             \/ pc = "24b" /\ (pods["dssm"] = "ready" \/ probe.patched)
        /\ pods'["dssm"] = pods["dssm"] \/ pc = "24b bounce"
    BY ONLY <1>1, UpStep, UpScripts
  <2>2. pc # "dssm bounce" /\ (pc' = "24b bounce" => pc' \notin PastDssm)
    BY ONLY <1>2, UpApart DEF UpEffect, UpPoints
  <2>3. ~Once' /\ probe'.patched => probe'.started \/ pc' \in {"24b bounce", "dssm bounce"}
    BY ONLY <1>1, <1>3, <2>1, <2>2 DEF Scripts
  <2>4. ~Once' /\ pc' \in PastDssm => pods'["dssm"] = "ready" \/ probe'.started
    BY ONLY <1>1, <1>3, <2>1, <2>2, UpApart DEF Scripts
  <2> QED BY ONLY <2>3, <2>4 DEF Scripts
<1>9. Healing' /\ Mended'
  BY ONLY <1>4 DEF Healing, Mended, AfterMultus, AfterMetrics, AfterLogs, AfterMount, AfterSlices,
       AfterAccount, AfterRole, AfterRoutes, AfterEpp, AfterTest, AfterSync, HealPoints
<1>10. Reported'
  <2>1. done \notin {"up", "healed"} BY ONLY <1>1, <1>4 DEF Reported
  <2>2. CASE done' = "up"
    <3>1. Activated BY ONLY <1>2, <2>1, <2>2 DEF UpEffect
    <3>2. /\ pc = "25" /\ pc' = "idle" /\ UNCHANGED <<ns, flo, irsa, cne, crs, pods, probe>>
          /\ cne \in {"reconciled", "going"} /\ pods["controller"] # "none"
          /\ crs["license"] = "done" /\ crs["infra"] = "done"
      BY ONLY <3>1 DEF Activated, At, End, CneReady, world
    <3>3. "25" \in PastDssm BY ONLY TRUE DEF PastDssm
    <3> QED
      BY ONLY <1>1, <1>3, <1>4, <2>2, <3>2, <3>3, UpApart
         DEF Reported, Progress, Scripts, Deletions, Deployed, TypeOK, WorldTypeOK
  <2>3. CASE done' # "up"
    BY ONLY <1>2, <2>1, <2>3 DEF UpEffect, Reported
  <2> QED BY ONLY <2>2, <2>3
<1> QED BY ONLY <1>5, <1>6, <1>7, <1>8, <1>9, <1>10 DEF Safe

\* A step of `down` takes the CNEInstance away with its workloads, or a fault keeps it
\* from that.
LEMMA DownChanges ==
  ASSUME TypeOK, DownStep
  PROVE  DownEffect
<1> USE TypeParts
    DEF DownStep, Client, CleanupBNKOverlayCRs, Phase15Down, Phase23bDown, Phase23Down,
        Phase22Down, Phase20Down, Phase19Down, Phase14Down, Uninstalled, Phase12Down,
        Phase11cDown, Phase17cDown, ClusterDown,
        At, Passes, Advance, To, End, world, Base, Spaces, Runtime, Removes, Withdraws
<1>1. pc \in DownPoints BY DEF DownPoints
<1>2. pc' \in {"idle"} \cup DownPoints BY DownTable DEF DownPoints
<1>3. Fault \/ NoFault OBVIOUS
<1>4. pc' = "idle" \/ done' = done OBVIOUS
<1>5. done' \in {done, "down"} OBVIOUS
<1>6. pc \in Cleaned \/ pc' \notin Cleaned \/ pc' = "cluster down" \/ cne' = "none" \/ Fault
  BY DownTable DEF Cleaned, DownPoints
<1>7. pc' \in Cleaned \/ pc \notin Cleaned \/
          (pc = "cluster down" /\ ns' = "none" /\ cne' = "none")
  BY DownTable DEF Cleaned, DownPoints
<1>8. cne' \in {cne, "none"} \/ (cne # "none" /\ cne' = "going" /\ pc' \in Cleaned /\ (Fault \/
          pc = "22 down"))
  BY DownTable DEF Cleaned, DownPoints
<1>9. ns' = ns \/ (ns' = "none" /\ cne' = "none") \/
          (ns' = "going" /\ cne' = cne /\ pc = "12 down" /\ pc' \in Cleaned)
  BY DownTable DEF Cleaned, DownPoints
<1>10. cne' = "reconciled" => pods' = pods OBVIOUS
<1>11. probe' = probe \/ probe' = [patched |-> FALSE, started |-> FALSE] OBVIOUS
<1>12. probe'.patched => probe' = probe BY ONLY <1>11
<1>13. pc = "cluster down" => pc' = "idle" OBVIOUS
<1> QED BY ONLY <1>1, <1>2, <1>3, <1>4, <1>5, <1>6, <1>7, <1>8, <1>9, <1>10, <1>12, <1>13
     DEF DownEffect

\* `down` keeps the invariant: what it leaves going, faults made it leave.
LEMMA DownSafe == ASSUME IInv, DownStep PROVE Safe'
<1>1. TypeOK /\ Deployed /\ Deletions /\ Progress /\ Scripts /\ Healing /\ Mended /\ Reported
  BY DEF IInv, Safe
<1>2. DownEffect
  BY ONLY <1>1, DownStep, DownChanges
<1>3. /\ Twice => Once
      /\ Once => Once'
      /\ Twice => Twice'
      /\ Once' => Once \/ Fault
      /\ Fault => Once' /\ (Once => Twice')
  BY ONLY <1>1, <1>2, FaultCounts, NoFaultKeeps DEF DownEffect
<1>4. pc' \notin HealPoints /\ pc' \notin PastFlo /\ pc # "idle"
      /\ pc \notin {"24b bounce", "dssm bounce"}
  BY ONLY <1>2 DEF DownEffect, DownPoints, HealPoints, PastFlo, PastReconcile, PastWorkloads,
         PastAccount, PastRole, PastDssm
<1>5. Deployed'
  BY ONLY <1>1, <1>2 DEF DownEffect, Deployed
<1>6. Deletions'
  <2>1. "idle" \notin Cleaned /\ "22 down" \in Cleaned /\ "12 down" \in Cleaned
    BY ONLY TRUE DEF Cleaned, DownPoints
  <2>2. pc' \in Cleaned /\ cne' # "none" => Once' \/ pc' = "cluster down"
    BY ONLY <1>1, <1>2, <1>3, <2>1 DEF DownEffect, Deletions
  <2>3. ns' = "going" => Once' \/ pc' \in Cleaned
    BY ONLY <1>1, <1>2, <1>3, <2>1 DEF DownEffect, Deletions
  <2>4. cne' = "going" => Twice' \/ (Once' /\ pc' \in Cleaned)
    BY ONLY <1>1, <1>2, <1>3, <2>1 DEF DownEffect, Deletions
  <2>5. ns' = "going" /\ cne' = "reconciled" => Twice' \/ (Once' /\ pc' \in Cleaned)
    BY ONLY <1>1, <1>2, <1>3, <2>1 DEF DownEffect, Deletions
  <2> QED BY ONLY <2>2, <2>3, <2>4, <2>5 DEF Deletions
<1>7. Progress'
  BY ONLY <1>4, UpApart DEF Progress
<1>8. Scripts'
  BY ONLY <1>1, <1>2, <1>3, <1>4, UpApart DEF DownEffect, Scripts
<1>9. Healing' /\ Mended'
  BY ONLY <1>4 DEF Healing, Mended, AfterMultus, AfterMetrics, AfterLogs, AfterMount, AfterSlices,
       AfterAccount, AfterRole, AfterRoutes, AfterEpp, AfterTest, AfterSync, HealPoints
<1>10. Reported'
  BY ONLY <1>1, <1>2, <1>4 DEF DownEffect, Reported
<1> QED BY ONLY <1>5, <1>6, <1>7, <1>8, <1>9, <1>10 DEF Safe

\* The rows a row goes on to.
LEMMA RowTable ==
  /\ NextRow("multus-token-watch") = "metrics-server"
  /\ NextRow("metrics-server") = "tmm-log-stream"
  /\ NextRow("tmm-log-stream") = "pod-manager"
  /\ NextRow("pod-manager") = "cwc"
  /\ NextRow("cwc") = "dssm-probe"
  /\ NextRow("dssm-probe") = "controller-endpointslices"
  /\ NextRow("controller-endpointslices") = "controller-irsa"
  /\ NextRow("controller-irsa") = "tmm-k8s-routes"
  /\ NextRow("tmm-k8s-routes") = "epp-namespaces"
  /\ NextRow("epp-namespaces") = "test-namespace"
  /\ NextRow("test-namespace") = "persistence-profile-sync"
  /\ NextRow("persistence-profile-sync") = "heal end"
BY HealTable DEF NextRow

\* A row is followed by a row.
LEMMA HealAfter ==
  /\ \A p \in HealPoints : p # "heal end" => After(p) \in HealPoints
  /\ \A r \in Rows : NextRow(r) \in HealPoints
<1>1. \A p \in HealPoints : p # "heal end" => After(p) \in HealPoints
  BY HealTable DEF HealPoints
<1>2. \A r \in Rows : NextRow(r) \in HealPoints
  BY RowTable DEF Rows, NeedsIntent, HealPoints
<1> QED BY <1>1, <1>2

\* A heal goes through its table and neither removes nor breaks anything.
LEMMA HealChanges ==
  ASSUME TypeOK, HealStep
  PROVE  HealEffect
<1> USE TypeParts
    DEF HealStep, RowHealthy, RowSkipped, RowFails, FixPlumbing, FixPodManager, FixCwc,
        CwcReplaced, CwcStuck, FixDssm, FixControllerIrsa, FixTmmRoutes, HealEnd, Rows, Patched,
        NeedsIntent, Records, Fixing,
        At, Passes, Advance, To, End, world, Base, Spaces, Runtime, PatchDssm, BounceDssm,
        InjectRole, Restarted
<1>1. pc \in HealPoints BY DEF HealPoints
<1>2. (pc = "heal end" /\ pc' = "idle") \/ (pc # "heal end" /\ pc' = After(pc)) \/
          (pc \in Rows /\ pc' = NextRow(pc))
  OBVIOUS
<1>3. pc' \in {"idle"} \cup HealPoints
  BY ONLY <1>1, <1>2, HealAfter
<1>4. Fault \/ NoFault OBVIOUS
<1>5. pc' = "idle" \/ done' = done OBVIOUS
<1>6. done' = done \/ (done' = repairs /\ pc = "heal end" /\ UNCHANGED <<broken, irsa>>) OBVIOUS
<1>7. UNCHANGED <<ns, cne, flo>> OBVIOUS
<1>8. pods' = pods \/ \E w \in Workloads : Becomes(w, "starting") BY DEF Workloads
<1>9. \A w \in Workloads : pods[w] # "none" => pods'[w] # "none"
  BY ONLY <1>8, TypeOK, TypeParts, PodsBecome
<1>10. pc = "dssm bounce" => probe'.started \/ Fault BY DEF ProbeType
<1>11. pc # "dssm bounce" => probe' = probe \/ pc' = "dssm bounce" BY HealTable
<1>12. broken' \subseteq broken OBVIOUS
<1>13. pc' = "idle" \/ repairs' = repairs \/ repairs' # "healed" OBVIOUS
<1> QED BY ONLY <1>1, <1>2, <1>3, <1>4, <1>5, <1>6, <1>7, <1>9, <1>10, <1>11, <1>12, <1>13
     DEF HealEffect

\* The table of `bnk heal` row by row.
LEMMA HealEntry ==
  ASSUME NEW p \in HealPoints, NEW q,
         (p # "heal end" /\ q = After(p)) \/ (p \in Rows /\ q = NextRow(p))
  PROVE  Enters(p, q)
<1>1. /\ p = "multus-token-watch" => q = "metrics-server"
      /\ p = "metrics-server" => q = "tmm-log-stream"
      /\ p = "tmm-log-stream" => q = "pod-manager"
      /\ p = "pod-manager" => q = "cwc"
      /\ p = "cwc" => q = "cwc wait" \/ q = "dssm-probe"
      /\ p = "cwc wait" => q = "dssm-probe"
      /\ p = "dssm-probe" => q = "dssm bounce" \/ q = "controller-endpointslices"
      /\ p = "dssm bounce" => q = "controller-endpointslices"
      /\ p = "controller-endpointslices" => q = "controller-irsa"
      /\ p = "controller-irsa" => q = "irsa sa" \/ q = "tmm-k8s-routes"
      /\ p = "irsa sa" => q = "irsa pods"
      /\ p = "irsa pods" => q = "tmm-k8s-routes"
      /\ p = "tmm-k8s-routes" => q = "epp-namespaces"
      /\ p = "epp-namespaces" => q = "test-namespace"
      /\ p = "test-namespace" => q = "persistence-profile-sync"
      /\ p = "persistence-profile-sync" => q = "heal end"
  <2>1. CASE p # "heal end" /\ q = After(p)
    BY ONLY <2>1, HealTable
  <2>2. CASE p \in Rows /\ q = NextRow(p)
    <3>1. p \notin {"cwc wait", "dssm bounce", "irsa sa", "irsa pods"}
      BY ONLY <2>2 DEF Rows, NeedsIntent
    <3> QED BY ONLY <2>2, <3>1, RowTable
  <2> QED BY <2>1, <2>2
<1>2. p # "heal end"
  BY DEF Rows, NeedsIntent
<1> USE DEF HealPoints, AfterMultus, AfterMetrics, AfterLogs, AfterMount,
      AfterSlices, AfterAccount, AfterRole, AfterRoutes, AfterEpp, AfterTest, AfterSync
<1>3. q \in AfterMultus => p \in AfterMultus \/ p = "multus-token-watch"
  BY ONLY <1>1, <1>2, p \in HealPoints
<1>4. q \in AfterMetrics => p \in AfterMetrics \/ p = "metrics-server"
  BY ONLY <1>1, <1>2, p \in HealPoints
<1>5. q \in AfterLogs => p \in AfterLogs \/ p = "tmm-log-stream"
  BY ONLY <1>1, <1>2, p \in HealPoints
<1>6. q \in AfterMount => p \in AfterMount \/ p = "pod-manager"
  BY ONLY <1>1, <1>2, p \in HealPoints
<1>7. q \in AfterSlices => p \in AfterSlices \/ p = "controller-endpointslices"
  BY ONLY <1>1, <1>2, p \in HealPoints
<1>8. q \in AfterRoutes => p \in AfterRoutes \/ p = "tmm-k8s-routes"
  BY ONLY <1>1, <1>2, p \in HealPoints
<1>9. q \in AfterEpp => p \in AfterEpp \/ p = "epp-namespaces"
  BY ONLY <1>1, <1>2, p \in HealPoints
<1>10. q \in AfterTest => p \in AfterTest \/ p = "test-namespace"
  BY ONLY <1>1, <1>2, p \in HealPoints
<1>11. q \in AfterSync => p \in AfterSync \/ p = "persistence-profile-sync"
  BY ONLY <1>1, <1>2, p \in HealPoints
<1>12. q \in AfterAccount =>
           p \in AfterAccount \/ p = "irsa sa" \/ (p = "controller-irsa" /\ q = "tmm-k8s-routes")
  BY ONLY <1>1, <1>2, p \in HealPoints
<1>13. q \in AfterRole =>
           p \in AfterRole \/ p = "irsa pods" \/ (p = "controller-irsa" /\ q = "tmm-k8s-routes")
  BY ONLY <1>1, <1>2, p \in HealPoints
<1> QED BY ONLY <1>3, <1>4, <1>5, <1>6, <1>7, <1>8, <1>9, <1>10, <1>11, <1>12, <1>13
     DEF Enters

\* What a row that records no failure leaves.
LEMMA HealMends ==
  ASSUME TypeOK, HealStep, pods["controller"] # "none", cne # "none", repairs' = "healed"
  PROVE  Mends
<1> USE TypeParts
    DEF HealStep, RowHealthy, RowSkipped, RowFails, FixPlumbing, FixPodManager, FixCwc,
        CwcReplaced, CwcStuck, FixDssm, FixControllerIrsa, FixTmmRoutes, HealEnd, Rows, Patched,
        NeedsIntent, Records, Fixing, Healthy, Absent,
        At, Passes, Advance, To, End, world, Base, Spaces, Runtime, PatchDssm, BounceDssm,
        InjectRole, Restarted
<1>1. pc = "multus-token-watch" => "multus-token-watch" \notin broken' OBVIOUS
<1>2. pc = "metrics-server" => "metrics-server" \notin broken' OBVIOUS
<1>3. pc = "tmm-log-stream" => "tmm-log-stream" \notin broken' OBVIOUS
<1>4. pc = "pod-manager" => "cert-mount" \notin broken' OBVIOUS
<1>5. pc = "controller-endpointslices" => "controller-endpointslices" \notin broken' OBVIOUS
<1>6. pc = "tmm-k8s-routes" => "tmm-k8s-routes" \notin broken' OBVIOUS
<1>7. pc = "epp-namespaces" => "epp-namespaces" \notin broken' OBVIOUS
<1>8. pc = "test-namespace" => "test-namespace" \notin broken' OBVIOUS
<1>9. pc = "persistence-profile-sync" => "persistence-profile-sync" \notin broken' OBVIOUS
<1>10. pc = "irsa sa" => irsa'.sa BY DEF RoleType
<1>11. pc = "irsa pods" => irsa'.env \/ ~irsa.sa BY DEF RoleType
<1>12. pc = "controller-irsa" => pc' = After("controller-irsa") \/ (irsa'.sa /\ irsa'.env)
  BY ZenonT(60) DEF RoleType
<1>13. irsa.sa => irsa'.sa BY DEF RoleType
<1>14. irsa'.env \/ ~irsa.env \/ (pc = "pod-manager") \/ ~irsa.sa BY DEF RoleType
<1> QED
  BY ONLY <1>1, <1>2, <1>3, <1>4, <1>5, <1>6, <1>7, <1>8, <1>9, <1>10, <1>11, <1>12, <1>13, <1>14
     DEF Mends

\* A heal that has recorded no failure keeps what it has found or made well.
LEMMA HealKeeps ==
  ASSUME IInv, HealStep, repairs' = "healed", ns = "active", pc' # "idle"
  PROVE  Mended'
<1>1. TypeOK /\ Deployed /\ Deletions /\ Progress /\ Scripts /\ Healing /\ Mended /\ Reported
  BY DEF IInv, Safe
<1>2. HealEffect
  BY ONLY <1>1, HealStep, HealChanges
<1>3. cne = "reconciled" /\ pods["controller"] # "none" /\ repairs = "healed"
  BY ONLY <1>1, <1>2, pc' # "idle", repairs' = "healed", ns = "active", Dssm
     DEF HealEffect, Healing, Deployed
<1>4. Mends
  BY ONLY <1>1, HealStep, <1>3, repairs' = "healed", HealMends
<1>5. Enters(pc, pc')
  BY ONLY <1>2, pc' # "idle", HealEntry DEF HealEffect
<1>6. /\ pc \in AfterMultus => "multus-token-watch" \notin broken
      /\ pc \in AfterMetrics => "metrics-server" \notin broken
      /\ pc \in AfterLogs => "tmm-log-stream" \notin broken
      /\ pc \in AfterMount => "cert-mount" \notin broken
      /\ pc \in AfterSlices => "controller-endpointslices" \notin broken
      /\ pc \in AfterAccount => irsa.sa
      /\ pc \in AfterRole => irsa.env
      /\ pc \in AfterRoutes => "tmm-k8s-routes" \notin broken
      /\ pc \in AfterEpp => "epp-namespaces" \notin broken
      /\ pc \in AfterTest => "test-namespace" \notin broken
      /\ pc \in AfterSync => "persistence-profile-sync" \notin broken
  BY ONLY <1>1, <1>3, ns = "active" DEF Mended
<1>7. broken' \subseteq broken BY ONLY <1>2 DEF HealEffect
<1>8. /\ pc' \in AfterMultus => "multus-token-watch" \notin broken'
      /\ pc' \in AfterMetrics => "metrics-server" \notin broken'
      /\ pc' \in AfterLogs => "tmm-log-stream" \notin broken'
  BY ONLY <1>4, <1>5, <1>6, <1>7 DEF Mends, Enters
<1>9. /\ pc' \in AfterMount => "cert-mount" \notin broken'
      /\ pc' \in AfterSlices => "controller-endpointslices" \notin broken'
      /\ pc' \in AfterRoutes => "tmm-k8s-routes" \notin broken'
  BY ONLY <1>4, <1>5, <1>6, <1>7 DEF Mends, Enters
<1>10. /\ pc' \in AfterEpp => "epp-namespaces" \notin broken'
       /\ pc' \in AfterTest => "test-namespace" \notin broken'
       /\ pc' \in AfterSync => "persistence-profile-sync" \notin broken'
  BY ONLY <1>4, <1>5, <1>6, <1>7 DEF Mends, Enters
<1>11. "irsa sa" \notin AfterAccount /\ "pod-manager" \notin AfterRole /\
           "irsa pods" \in AfterAccount
       /\ AfterRole \subseteq AfterAccount /\ After("controller-irsa") # "tmm-k8s-routes"
  BY ONLY HealTable DEF AfterAccount, AfterRole, AfterRoutes, AfterEpp, AfterTest, AfterSync
<1>12. pc' \in AfterAccount => irsa'.sa
  BY ONLY <1>4, <1>5, <1>6, <1>11 DEF Mends, Enters
<1>13. pc' \in AfterRole => irsa'.env
  <2>1. CASE pc \in AfterRole
    <3>1. irsa.env /\ irsa.sa /\ pc # "pod-manager" BY ONLY <2>1, <1>6, <1>11
    <3> QED BY ONLY <3>1, <1>4 DEF Mends
  <2>2. CASE pc = "irsa pods"
    <3>1. irsa.sa BY ONLY <2>2, <1>6, <1>11
    <3> QED BY ONLY <3>1, <2>2, <1>4 DEF Mends
  <2>3. CASE pc = "controller-irsa" /\ pc' = "tmm-k8s-routes"
    BY ONLY <2>3, <1>4, <1>11 DEF Mends
  <2> QED BY ONLY <2>1, <2>2, <2>3, <1>5 DEF Enters
<1> QED BY ONLY <1>8, <1>9, <1>10, <1>12, <1>13 DEF Mended

\* `bnk heal` keeps the invariant.
LEMMA HealSafe == ASSUME IInv, HealStep PROVE Safe'
<1>1. TypeOK /\ Deployed /\ Deletions /\ Progress /\ Scripts /\ Healing /\ Mended /\ Reported
  BY DEF IInv, Safe
<1>2. HealEffect
  BY ONLY <1>1, HealStep, HealChanges
<1>3. /\ Twice => Once
      /\ Once => Once'
      /\ Twice => Twice'
      /\ Once' => Once \/ Fault
      /\ Fault => Once' /\ (Once => Twice')
  BY ONLY <1>1, <1>2, FaultCounts, NoFaultKeeps DEF HealEffect
<1>4. pc \notin Cleaned /\ pc' \notin Cleaned /\ pc # "idle" /\ pc' \notin PastFlo
      /\ pc # "24b bounce" /\ pc' # "24b bounce"
  BY ONLY <1>2 DEF HealEffect, HealPoints, Cleaned, DownPoints, PastFlo, PastReconcile,
         PastWorkloads, PastAccount,
       PastRole, PastDssm
<1>5. Deployed'
  BY ONLY <1>1, <1>2 DEF HealEffect, Deployed
<1>6. Deletions'
  BY ONLY <1>1, <1>2, <1>3, <1>4 DEF HealEffect, Deletions
<1>7. Progress'
  BY ONLY <1>4, UpApart DEF Progress
<1>8. Scripts'
  BY ONLY <1>1, <1>2, <1>3, <1>4, UpApart DEF HealEffect, Scripts
<1>9. Healing'
  BY ONLY <1>1, <1>2, <1>3 DEF HealEffect, Healing
<1>10. Mended'
  <2>1. /\ "idle" \notin AfterMultus /\ "idle" \notin AfterMetrics /\ "idle" \notin AfterLogs
        /\ "idle" \notin AfterMount /\ "idle" \notin AfterSlices /\ "idle" \notin AfterAccount
        /\ "idle" \notin AfterRole /\ "idle" \notin AfterRoutes /\ "idle" \notin AfterEpp
        /\ "idle" \notin AfterTest /\ "idle" \notin AfterSync
    BY ONLY TRUE DEF AfterMultus, AfterMetrics, AfterLogs, AfterMount, AfterSlices,
           AfterAccount, AfterRole,
         AfterRoutes, AfterEpp, AfterTest, AfterSync
  <2>2. ns' = ns BY ONLY <1>2 DEF HealEffect
  <2>3. pc' = "idle" => Mended'
    BY ONLY <2>1 DEF Mended
  <2>4. repairs' # "healed" \/ ns' # "active" => Mended'
    BY ONLY TRUE DEF Mended
  <2> QED BY ONLY <2>2, <2>3, <2>4, IInv, HealStep, HealKeeps
<1>11. Reported'
  <2>1. done \notin {"up", "healed"} BY ONLY <1>1, <1>4 DEF Reported
  <2>2. done' # "up" BY ONLY <1>1, <1>2, <2>1 DEF HealEffect, TypeOK
  <2>3. CASE done' = "healed"
    <3>1. pc = "heal end" /\ repairs = "healed" /\ pc' = "idle" /\
              UNCHANGED <<broken, irsa, ns, cne>>
      BY ONLY <1>2, <2>1, <2>3 DEF HealEffect
    <3>2. ns # "active" => Twice'
      BY ONLY <1>1, <1>2, <1>3 DEF HealEffect, Healing
    <3>3. ns = "active" => cne = "reconciled" /\ broken = {} /\ irsa.sa /\ irsa.env
      <4>1. SUFFICES ASSUME ns = "active" PROVE cne = "reconciled" /\ broken = {} /\ irsa.sa /\
                irsa.env
        OBVIOUS
      <4>2. cne = "reconciled" BY ONLY <1>1, <1>2, <4>1 DEF HealEffect, Healing
      <4>3. /\ "multus-token-watch" \notin broken /\ "metrics-server" \notin broken
            /\ "tmm-log-stream" \notin broken /\ "cert-mount" \notin broken
            /\ "controller-endpointslices" \notin broken /\ "tmm-k8s-routes" \notin broken
            /\ "epp-namespaces" \notin broken /\ "test-namespace" \notin broken
            /\ "persistence-profile-sync" \notin broken /\ irsa.sa /\ irsa.env
        BY ONLY <1>1, <3>1, <4>1 DEF Mended, AfterMultus, AfterMetrics, AfterLogs, AfterMount,
               AfterSlices,
             AfterAccount, AfterRole, AfterRoutes, AfterEpp, AfterTest, AfterSync
      <4>4. broken = {}
        BY ONLY <1>1, <4>3 DEF TypeOK, WorldTypeOK, Plumbing
      <4> QED BY ONLY <4>2, <4>3, <4>4
    <3> QED BY ONLY <2>3, <3>1, <3>2, <3>3 DEF Reported
  <2>4. CASE done' # "healed"
    BY ONLY <2>2, <2>4 DEF Reported
  <2> QED BY ONLY <2>3, <2>4
<1> QED BY ONLY <1>5, <1>6, <1>7, <1>8, <1>9, <1>10, <1>11 DEF Safe

\* The counters of a step that counts one of them at most.
LEMMA Counts ==
  ASSUME TypeOK, Fault \/ faults' = faults,
         run' = run \/ (run < MaxUps /\ run' = run + 1),
         loops' = loops \/ (loops < MaxLoops /\ loops' = loops + 1),
         \/ tries' = tries \/ tries' = 0
         \/ (tries < MaxIter \/ tries < MaxBounces) /\ tries' = tries + 1
  PROVE  CountType'
<1>1. CountType BY TypeParts
<1>2. run' \in 0 .. MaxUps
  BY ONLY <1>1, OverlayAssumption, run' = run \/ (run < MaxUps /\ run' = run + 1)
     DEF CountType, OverlayAssumption
<1>3. loops' \in 0 .. MaxLoops BY <1>1, ClusterAssumption DEF CountType, ClusterAssumption
<1>4. faults' \in 0 .. MaxFaults
  BY <1>1, OverlayAssumption DEF CountType, OverlayAssumption, Fault
<1>5. tries' \in 0 .. (IF MaxIter > MaxBounces THEN MaxIter ELSE MaxBounces)
  BY <1>1, OverlayAssumption DEF CountType, OverlayAssumption
<1> QED BY ONLY <1>2, <1>3, <1>4, <1>5 DEF CountType

\* Every variable keeps its type.
LEMMA UpTypes == ASSUME TypeOK, UpStep PROVE TypeOK'
<1>1. Fault \/ NoFault BY UpChanges DEF UpEffect
<1>2. pc' \in {"idle"} \cup UpPoints BY UpChanges DEF UpEffect
<1> USE TypeParts
    DEF UpStep, Cluster10, Phase08b, PollVpcCni, CniSlow, Phase08c, Phase11, Phase16, Phase11c,
        Phase17c, EnsureNamespaces, Phase12, Multus12, FloSame, RunFloHelm, FloRefused,
        FloInstalled, FloFails, Phase15, Phase19, Phase20, Phase22, ReconcileStarted,
        WaitForDeployment, Annotate, InjectRole, Phase23, ControllerAvailable, Phase23b,
        InfraProgrammed, CwcReady, CwcHeal, CwcGivesUp, DssmWell, PatchDssm, BounceDssm,
        Phase24d, Phase24c, Bounce24c, WindowOver, Sync24c, Poll25, Activated, TimesOut,
        TimesOutSlow, NsRefuses,
        At, Passes, Applies, Advance, To, Refuse, End, world, Base, Spaces, Runtime, PatchDssm,
        BounceDssm, SyncGates, EnsureCertMount, Restarted, Becomes, Apply, Waits, Hopeless,
        CneReady
<1>3. SpaceType' BY DEF SpaceType
<1>4. FlagType' BY DEF FlagType, Fault, NoFault
<1>5. PodType' BY DEF PodType, Workloads
<1>6. ProbeType' BY DEF ProbeType
<1>7. RoleType' BY DEF RoleType
<1>8. CrType' BY DEF CrType
<1>9. SetType' BY DEF SetType, Things, Plumbing
<1>10. done' \in {"none", "up", "up refused", "down", "healed", "heal skipped", "heal failed"}
       /\ repairs' \in {"healed", "heal skipped", "heal failed"}
  BY DEF PlaceType
<1>11. PlaceType' BY ONLY <1>2, <1>10 DEF PlaceType
<1>12. run' = run /\ loops' = loops OBVIOUS
<1>13. \/ tries' = tries \/ tries' = 0
       \/ (tries < MaxIter \/ tries < MaxBounces) /\ tries' = tries + 1
  OBVIOUS
<1>14. CountType' BY ONLY <1>1, <1>12, <1>13, TypeOK, Counts DEF NoFault
<1> QED BY ONLY <1>3, <1>4, <1>5, <1>6, <1>7, <1>8, <1>9, <1>11, <1>14
     DEF TypeOK, WorldTypeOK, SpaceType, FlagType, PodType, ProbeType, RoleType, CrType,
         SetType, PlaceType, CountType

LEMMA DownTypes == ASSUME TypeOK, DownStep PROVE TypeOK'
<1>1. Fault \/ NoFault BY DownChanges DEF DownEffect
<1>2. pc' \in {"idle"} \cup DownPoints BY DownChanges DEF DownEffect
<1> USE TypeParts
    DEF DownStep, Client, CleanupBNKOverlayCRs, Phase15Down, Phase23bDown, Phase23Down,
        Phase22Down, Phase20Down, Phase19Down, Phase14Down, Uninstalled, Phase12Down,
        Phase11cDown, Phase17cDown, ClusterDown,
        At, Passes, Advance, To, End, world, Base, Spaces, Runtime, Removes, Withdraws, NoPods,
        NoCrs
<1>3. SpaceType' BY DEF SpaceType
<1>4. FlagType' BY DEF FlagType, Fault, NoFault
<1>5. PodType' BY DEF PodType, Workloads
<1>6. probe' = probe \/ probe' = [patched |-> FALSE, started |-> FALSE] OBVIOUS
<1>7. irsa' = irsa \/ irsa' = [sa |-> FALSE, env |-> FALSE] OBVIOUS
<1>8. ProbeType /\ RoleType BY ONLY TypeOK, TypeParts
<1>9. [patched |-> FALSE, started |-> FALSE] \in [patched : BOOLEAN, started : BOOLEAN]
  BY ONLY TRUE
<1>10. [sa |-> FALSE, env |-> FALSE] \in [sa : BOOLEAN, env : BOOLEAN] BY ONLY TRUE
<1>11. ProbeType' BY ONLY <1>6, <1>8, <1>9, Zenon DEF ProbeType
<1>12. RoleType' BY ONLY <1>7, <1>8, <1>10, Zenon DEF RoleType
<1>13. CrType' BY DEF CrType
<1>14. SetType' BY DEF SetType, Things, Plumbing
<1>15. done' \in {"none", "up", "up refused", "down", "healed", "heal skipped", "heal failed"}
       /\ repairs' \in {"healed", "heal skipped", "heal failed"}
  BY DEF PlaceType
<1>16. PlaceType' BY ONLY <1>2, <1>15 DEF PlaceType
<1>17. run' = run /\ loops' = loops OBVIOUS
<1>18. tries' = 0 OBVIOUS
<1>19. CountType' BY ONLY <1>1, <1>17, <1>18, TypeOK, Counts DEF NoFault
<1> QED BY ONLY <1>3, <1>4, <1>5, <1>11, <1>12, <1>13, <1>14, <1>16, <1>19
     DEF TypeOK, WorldTypeOK, SpaceType, FlagType, PodType, ProbeType, RoleType, CrType,
         SetType, PlaceType, CountType

LEMMA HealTypes == ASSUME TypeOK, HealStep PROVE TypeOK'
<1>1. Fault \/ NoFault BY HealChanges DEF HealEffect
<1>2. pc' \in {"idle"} \cup HealPoints BY HealChanges DEF HealEffect
<1> USE TypeParts
    DEF HealStep, RowHealthy, RowSkipped, RowFails, FixPlumbing, FixPodManager, FixCwc,
        CwcReplaced, CwcStuck, FixDssm, FixControllerIrsa, FixTmmRoutes, HealEnd, Rows, Patched,
        NeedsIntent, Records, Fixing,
        At, Passes, Advance, To, End, world, Base, Spaces, Runtime, PatchDssm, BounceDssm,
        InjectRole, Restarted, Becomes
<1>3. SpaceType' BY DEF SpaceType
<1>4. FlagType' BY DEF FlagType, Fault, NoFault
<1>5. PodType' BY DEF PodType, Workloads
<1>6. ProbeType' BY DEF ProbeType
<1>7. RoleType' BY DEF RoleType
<1>8. CrType' BY DEF CrType
<1>9. SetType' BY DEF SetType, Things, Plumbing
<1>10. done' \in {"none", "up", "up refused", "down", "healed", "heal skipped", "heal failed"}
       /\ repairs' \in {"healed", "heal skipped", "heal failed"}
  BY DEF PlaceType
<1>11. PlaceType' BY ONLY <1>2, <1>10 DEF PlaceType
<1>12. run' = run /\ loops' = loops OBVIOUS
<1>13. tries' = tries \/ tries' = 0 OBVIOUS
<1>14. CountType' BY ONLY <1>1, <1>12, <1>13, TypeOK, Counts DEF NoFault
<1> QED BY ONLY <1>3, <1>4, <1>5, <1>6, <1>7, <1>8, <1>9, <1>11, <1>14
     DEF TypeOK, WorldTypeOK, SpaceType, FlagType, PodType, ProbeType, RoleType, CrType,
         SetType, PlaceType, CountType

-----------------------------------------------------------------------------
\* What starts a command, ends one early, or breaks something between two.
LEMMA RestTypes ==
  ASSUME TypeOK, StartUp \/ StartDown \/ StartHeal \/ Abort \/ Breaks
  PROVE  TypeOK'
<1> USE TypeParts DEF StartUp, StartDown, StartHeal, Abort, Breaks, At, End, world, Base,
Spaces, Runtime, Becomes
<1>1. SpaceType' BY DEF SpaceType
<1>2. FlagType' BY DEF FlagType, Fault
<1>3. PodType' BY DEF PodType, Workloads
<1>4. ProbeType' BY DEF ProbeType
<1>5. irsa' = irsa \/ irsa' = [sa |-> FALSE, env |-> FALSE] OBVIOUS
<1>6. [sa |-> FALSE, env |-> FALSE] \in [sa : BOOLEAN, env : BOOLEAN] BY ONLY TRUE
<1>7. RoleType BY ONLY TypeOK, TypeParts
<1>8. RoleType' BY ONLY <1>5, <1>6, <1>7, Zenon DEF RoleType
<1>9. CrType' BY DEF CrType
<1>10. SetType' BY DEF SetType, Things, Plumbing
<1>11. PlaceType' BY DEF PlaceType, UpPoints, DownPoints, HealPoints
<1>12. Fault \/ faults' = faults OBVIOUS
<1>13. run' = run \/ (run < MaxUps /\ run' = run + 1) OBVIOUS
<1>14. loops' = loops \/ (loops < MaxLoops /\ loops' = loops + 1) OBVIOUS
<1>15. tries' = tries \/ tries' = 0 OBVIOUS
<1>16. CountType' BY ONLY <1>12, <1>13, <1>14, <1>15, TypeOK, Counts
<1> QED BY ONLY <1>1, <1>2, <1>3, <1>4, <1>8, <1>9, <1>10, <1>11, <1>16
     DEF TypeOK, WorldTypeOK, SpaceType, FlagType, PodType, ProbeType, RoleType, CrType,
         SetType, PlaceType, CountType

\* A fault that ends a command, and a command that starts, keep the invariant.
LEMMA RestSafe ==
  ASSUME IInv, StartUp \/ StartDown \/ StartHeal \/ Abort \/ Breaks
  PROVE  Safe'
<1>1. TypeOK /\ Deployed /\ Deletions /\ Progress /\ Scripts /\ Healing /\ Mended /\ Reported
  BY DEF IInv, Safe
<1>2. /\ done' = "none" /\ UNCHANGED <<ns, cne, flo, probe>>
      /\ pc = "idle" \/ (pc' = "idle" /\ Fault)
      /\ pc' \in {"idle", "cluster", "client"} \/
             (pc' = "multus-token-watch" /\ cne = "reconciled")
      /\ Fault \/ faults' = faults
  BY ONLY StartUp \/ StartDown \/ StartHeal \/ Abort \/ Breaks
     DEF StartUp, StartDown, StartHeal, Abort, Breaks, At, End, world, Spaces, Runtime
<1>3. \A w \in Workloads : pods[w] # "none" => pods'[w] # "none"
  <2>1. pods' = pods \/ Becomes("cwc", "looping")
    BY ONLY StartUp \/ StartDown \/ StartHeal \/ Abort \/ Breaks
       DEF StartUp, StartDown, StartHeal, Abort, Breaks, world, Runtime
  <2> QED BY ONLY <2>1, <1>1, TypeParts, PodsBecome DEF Workloads
<1>4. /\ Twice => Once
      /\ Once => Once'
      /\ Twice => Twice'
      /\ Once' => Once \/ Fault
      /\ Fault => Once' /\ (Once => Twice')
  BY <1>1, <1>2, FaultsNat DEF Fault, Once, Twice
<1>5. /\ pc' \notin Cleaned /\ "idle" \notin Cleaned /\ pc' \notin PastFlo /\ pc' \notin PastDssm
      /\ pc' \in HealPoints => pc' = "multus-token-watch"
      /\ "multus-token-watch" \notin AfterMultus /\ AfterMultus \subseteq HealPoints
  BY ONLY <1>2 DEF Cleaned, UpPoints, DownPoints, HealPoints, PastFlo, PastReconcile,
         PastWorkloads,
     PastAccount, PastRole, PastDssm, AfterMultus, AfterMetrics, AfterLogs, AfterMount,
     AfterSlices,
     AfterAccount, AfterRole, AfterRoutes, AfterEpp, AfterTest, AfterSync
<1>6. Deployed'
  BY ONLY <1>1, <1>2, <1>3 DEF Deployed
<1>7. Deletions'
  BY ONLY <1>1, <1>2, <1>4, <1>5 DEF Deletions
<1>8. Progress'
  BY ONLY <1>5, UpApart DEF Progress
<1>9. Scripts'
  BY ONLY <1>1, <1>2, <1>4, <1>5 DEF Scripts
<1>10. Healing'
  <2>1. pc' \in HealPoints => pc = "idle" /\ cne = "reconciled"
    BY ONLY <1>2, <1>5 DEF HealPoints
  <2>2. pc' \in HealPoints /\ ns # "active" => ns = "going"
    BY ONLY <1>1, <2>1 DEF Deployed, TypeOK, WorldTypeOK
  <2> QED BY ONLY <1>1, <1>2, <1>4, <1>5, <2>1, <2>2 DEF Healing, Deletions
<1>11. Mended'
  <2>1. pc' \notin AfterMultus
    BY ONLY <1>5
  <2> QED BY ONLY <2>1 DEF Mended, AfterMultus, AfterMetrics, AfterLogs, AfterMount, AfterSlices,
     AfterAccount, AfterRole, AfterRoutes, AfterEpp, AfterTest, AfterSync
<1>12. Reported'
  BY ONLY <1>2 DEF Reported
<1> QED BY ONLY <1>6, <1>7, <1>8, <1>9, <1>10, <1>11, <1>12 DEF Safe

-----------------------------------------------------------------------------
\* The cluster on its own.
LEMMA OutsideTypes == ASSUME TypeOK, Outside PROVE TypeOK'
<1> USE TypeParts
    DEF Outside, Command, ClusterRuns, Reconcile, ColdStart, DssmStarts, TmmRuns, Programs,
        CniSettles, Finalize,
        NamespacesEnd, FloReverts, DssmSlow, Activates, Becomes, Base, Spaces, Runtime, NoPods,
        NoCrs
<1>1. SpaceType' BY DEF SpaceType
<1>2. FlagType' BY DEF FlagType
<1>3. PodType' BY DEF PodType, Workloads
<1>4. /\ irsa' = irsa \/ irsa' = [sa |-> FALSE, env |-> FALSE] \/
             irsa' = [irsa EXCEPT !.env = irsa.sa]
      /\ probe' = probe \/ probe' = [probe EXCEPT !.patched = FALSE]
           \/ probe' = [patched |-> FALSE, started |-> FALSE]
  OBVIOUS
<1>5. /\ [sa |-> FALSE, env |-> FALSE] \in [sa : BOOLEAN, env : BOOLEAN]
      /\ [patched |-> FALSE, started |-> FALSE] \in [patched : BOOLEAN, started : BOOLEAN]
  BY ONLY TRUE
<1>6. RoleType /\ ProbeType BY ONLY TypeOK, TypeParts
<1>7. /\ [irsa EXCEPT !.env = irsa.sa] \in [sa : BOOLEAN, env : BOOLEAN]
      /\ [probe EXCEPT !.patched = FALSE] \in [patched : BOOLEAN, started : BOOLEAN]
  BY ONLY <1>6 DEF RoleType, ProbeType
<1>8. ProbeType' BY ONLY <1>4, <1>5, <1>6, <1>7, Zenon DEF ProbeType
<1>9. RoleType' BY ONLY <1>4, <1>5, <1>6, <1>7, Zenon DEF RoleType
<1>10. CrType' BY DEF CrType
<1>11. SetType' BY DEF SetType, Things, Plumbing
<1>12. PlaceType' BY DEF PlaceType
<1>13. faults' = faults /\ run' = run /\ tries' = tries OBVIOUS
<1>14. loops' = loops \/ (loops < MaxLoops /\ loops' = loops + 1) OBVIOUS
<1>15. CountType' BY ONLY <1>13, <1>14, TypeOK, Counts
<1> QED BY ONLY <1>1, <1>2, <1>3, <1>8, <1>9, <1>10, <1>11, <1>12, <1>15
     DEF TypeOK, WorldTypeOK, SpaceType, FlagType, PodType, ProbeType, RoleType, CrType,
         SetType, PlaceType, CountType

\* The cluster on its own keeps the invariant.
LEMMA OutsideSafe == ASSUME IInv, Outside PROVE Safe'
<1>1. TypeOK /\ Deployed /\ Deletions /\ Progress /\ Scripts /\ Healing /\ Mended /\ Reported
  BY DEF IInv, Safe
<1>2. UNCHANGED Command /\ (Once' <=> Once) /\ (Twice' <=> Twice) /\ (Twice => Once)
  BY <1>1, FaultsNat DEF Outside, Command, Once, Twice
<1>3. /\ pc \in HealPoints => pc \notin PastFlo /\ pc \notin Cleaned
      /\ pc \in Cleaned => pc \notin PastFlo
      /\ AfterMultus \subseteq HealPoints
  BY ONLY TRUE DEF Cleaned, UpPoints, DownPoints, HealPoints, PastFlo, PastReconcile,
         PastWorkloads,
     PastAccount, PastRole, PastDssm, AfterMultus, AfterMetrics, AfterLogs, AfterMount,
     AfterSlices,
     AfterAccount, AfterRole, AfterRoutes, AfterEpp, AfterTest, AfterSync
<1>4. CASE ColdStart \/ DssmStarts \/ TmmRuns \/ DssmSlow
  <2>1. UNCHANGED <<Base, Spaces, probe, irsa, crs, broken>>
    BY ONLY <1>4 DEF ColdStart, DssmStarts, TmmRuns, DssmSlow
  <2>2. \E w \in Workloads : \E s : s # "none" /\ Becomes(w, s) /\ (w = "dssm" => s = "ready")
    BY ONLY <1>4 DEF ColdStart, DssmStarts, TmmRuns, DssmSlow, Workloads
  <2>3. (\A w \in Workloads : pods[w] # "none" =>
            pods'[w] # "none") /\ (pods["dssm"] = "ready" => pods'["dssm"] = "ready")
    BY ONLY <2>2, <1>1, TypeParts, PodsBecome DEF Workloads
  <2>4. Deployed' BY ONLY <1>1, <1>2, <2>1, <2>3 DEF Deployed, Spaces
  <2>5. Deletions' BY ONLY <1>1, <1>2, <2>1 DEF Deletions, Spaces, Command
  <2>6. Progress' BY ONLY <1>1, <1>2, <2>1, <2>3, Dssm DEF Progress, Spaces, Command
  <2>7. Scripts' BY ONLY <1>1, <1>2, <2>1, <2>3 DEF Scripts, Command
  <2>8. Healing' BY ONLY <1>1, <1>2, <2>1 DEF Healing, Spaces, Command
  <2>9. Mended' BY ONLY <1>1, <1>2, <2>1 DEF Mended, Spaces, Command
  <2>10. Reported' BY ONLY <1>1, <1>2, <2>1, <2>3 DEF Reported, Spaces, Command
  <2> QED BY ONLY <2>4, <2>5, <2>6, <2>7, <2>8, <2>9, <2>10 DEF Safe
<1>5. CASE FloReverts \/ CniSettles \/ Programs
  <2>1. UNCHANGED <<Spaces, pods, irsa, broken>>
    BY ONLY <1>5 DEF FloReverts, CniSettles, Programs, Base, Runtime
  <2>2. probe' = probe \/ probe' = [probe EXCEPT !.patched = FALSE]
    BY ONLY <1>5 DEF FloReverts, CniSettles, Programs, Runtime
  <2>3. (probe'.patched => probe.patched) /\ (probe'.started = probe.started)
    BY ONLY <1>1, <2>2, TypeParts DEF ProbeType
  <2>4. crs' = crs \/ \E c \in {"license", "infra"} : crs' = [crs EXCEPT ![c] = "done"]
    BY ONLY <1>5 DEF FloReverts, CniSettles, Programs, Activates, Runtime
  <2>5. \A c \in {"license", "infra"} : crs[c] = "done" => crs'[c] = "done"
    BY ONLY <1>1, <2>4, TypeParts DEF CrType
  <2>6. Deployed' BY ONLY <1>1, <1>2, <2>1 DEF Deployed, Spaces
  <2>7. Deletions' BY ONLY <1>1, <1>2, <2>1 DEF Deletions, Spaces, Command
  <2>8. Progress' BY ONLY <1>1, <1>2, <2>1 DEF Progress, Spaces, Command
  <2>9. Scripts' BY ONLY <1>1, <1>2, <2>1, <2>3 DEF Scripts, Command
  <2>10. Healing' BY ONLY <1>1, <1>2, <2>1 DEF Healing, Spaces, Command
  <2>11. Mended' BY ONLY <1>1, <1>2, <2>1 DEF Mended, Spaces, Command
  <2>12. Reported' BY ONLY <1>1, <1>2, <2>1, <2>3, <2>5 DEF Reported, Spaces, Command
  <2> QED BY ONLY <2>6, <2>7, <2>8, <2>9, <2>10, <2>11, <2>12 DEF Safe
<1>6. CASE Reconcile
  <2>1. /\ ns = "active" /\ ns' = ns /\ flo' = flo /\ cne = "applied" /\ cne' = "reconciled" /\
               UNCHANGED crs
        /\ \A w \in Workloads : pods'[w] = "starting"
        /\ ~probe'.patched
    BY ONLY <1>6 DEF Reconcile, FloWorks
  <2>2. pc \notin HealPoints /\ pc \notin PastReconcile /\ done \notin {"up", "healed"}
    BY ONLY <1>1, <2>1 DEF Healing, Progress, Reported
  <2>3. Deployed' BY ONLY <2>1 DEF Deployed
  <2>4. Deletions' BY ONLY <1>1, <1>2, <2>1 DEF Deletions, Command
  <2>5. Progress' BY ONLY <1>1, <1>2, <2>1, <2>2, UpApart DEF Progress, Command
  <2>6. Scripts' BY ONLY <1>2, <2>1, <2>2, UpApart DEF Scripts, Command
  <2>7. Healing' BY ONLY <1>2, <2>2 DEF Healing, Command
  <2>8. pc' \notin AfterMultus BY ONLY <1>2, <1>3, <2>2 DEF Command
  <2>9. Mended'
    BY ONLY <2>8 DEF Mended, AfterMultus, AfterMetrics, AfterLogs, AfterMount, AfterSlices,
       AfterAccount, AfterRole, AfterRoutes, AfterEpp, AfterTest, AfterSync
  <2>10. Reported' BY ONLY <1>2, <2>2 DEF Reported, Command
  <2> QED BY ONLY <2>3, <2>4, <2>5, <2>6, <2>7, <2>9, <2>10 DEF Safe
<1>7. CASE Finalize \/ NamespacesEnd
  <2>1. /\ cne' = "none" /\ ns' # "going"
        /\ ns' = ns \/ ns' = "none"
        /\ (ns = "active" /\ cne = "going") \/ (ns = "going" /\ ns' = "none" /\ cne # "going")
        /\ flo' = flo \/ ns' # "active"
        /\ irsa' = irsa \/ ns' # "active"
        /\ probe' = probe \/ ~probe'.patched
    BY ONLY <1>7 DEF Finalize, NamespacesEnd, FloWorks
  <2>2. Once \/ pc \in Cleaned
    BY ONLY <1>1, <1>2, <2>1 DEF Deletions
  <2>3. Deployed' BY ONLY <2>1 DEF Deployed
  <2>4. Deletions' BY ONLY <1>1, <1>2, <2>1 DEF Deletions, Command
  <2>5. Progress' BY ONLY <1>1, <1>2, <2>1 DEF Progress, Command
  <2>6. Scripts' BY ONLY <1>1, <1>2, <1>3, <2>1, <2>2, UpApart DEF Scripts, Command
  <2>7. ns = "active" => cne # "reconciled" BY ONLY <2>1
  <2>8. pc \in HealPoints => Twice /\ ns' # "active" BY ONLY <1>1, <2>1, <2>7 DEF Healing
  <2>9. Healing' BY ONLY <1>2, <2>8 DEF Healing, Command
  <2>10. ns' = "active" => pc \notin HealPoints BY ONLY <2>8
  <2>11. ns' = "active" => pc' \notin AfterMultus BY ONLY <1>2, <1>3, <2>10 DEF Command
  <2>12. Mended'
    BY ONLY <2>11 DEF Mended, AfterMultus, AfterMetrics, AfterLogs, AfterMount, AfterSlices,
       AfterAccount, AfterRole, AfterRoutes, AfterEpp, AfterTest, AfterSync
  <2>13. Reported' BY ONLY <1>1, <1>2, <2>1 DEF Reported, Command
  <2> QED BY ONLY <2>3, <2>4, <2>5, <2>6, <2>9, <2>12, <2>13 DEF Safe
<1> QED BY ONLY <1>4, <1>5, <1>6, <1>7, Outside DEF Outside, ClusterRuns

-----------------------------------------------------------------------------
\* The invariant holds at first, and every step keeps it.
LEMMA Start == Init => IInv
<1> SUFFICES ASSUME Init PROVE IInv OBVIOUS
<1>1. TypeOK
  <2>1. SpaceType /\ FlagType /\ SetType BY DEF Init, WorldInit, SpaceType, FlagType, SetType
  <2>2. PodType /\ CrType BY DEF Init, WorldInit, NoPods, NoCrs, PodType, CrType
  <2>3. ProbeType /\ RoleType BY DEF Init, WorldInit, ProbeType, RoleType
  <2>4. PlaceType BY DEF Init, PlaceType
  <2>5. CountType
    BY OverlayAssumption, ClusterAssumption
       DEF Init, WorldInit, OverlayAssumption, ClusterAssumption, CountType
  <2> QED BY ONLY <2>1, <2>2, <2>3, <2>4, <2>5, TypeParts
<1>2. /\ pc = "idle" /\ done = "none" /\ ns = "none" /\ cne = "none" /\ ~probe.patched
  BY ONLY Init DEF Init, WorldInit
<1>3. pc \notin HealPoints /\ pc \notin PastFlo /\ pc \notin Cleaned /\ pc \notin AfterMultus
  BY ONLY <1>2 DEF HealPoints, Cleaned, DownPoints, PastFlo, PastReconcile, PastWorkloads,
         PastAccount,
     PastRole, PastDssm, AfterMultus, AfterMetrics, AfterLogs, AfterMount, AfterSlices,
     AfterAccount, AfterRole, AfterRoutes, AfterEpp, AfterTest, AfterSync
<1>4. Deployed /\ Deletions BY ONLY <1>2, <1>3 DEF Deployed, Deletions
<1>5. Progress /\ Scripts BY ONLY <1>2, <1>3, UpApart DEF Progress, Scripts
<1>6. Healing /\ Reported BY ONLY <1>2, <1>3 DEF Healing, Reported
<1>7. Mended
  BY ONLY <1>3 DEF Mended, AfterMultus, AfterMetrics, AfterLogs, AfterMount, AfterSlices,
     AfterAccount, AfterRole, AfterRoutes, AfterEpp, AfterTest, AfterSync
<1> QED BY ONLY <1>1, <1>4, <1>5, <1>6, <1>7 DEF IInv, Safe

LEMMA Steps == IInv /\ [Next]_vars => IInv'
<1> SUFFICES ASSUME IInv, [Next]_vars PROVE IInv' OBVIOUS
<1>1. TypeOK BY DEF IInv
<1>2. CASE UpStep BY ONLY <1>1, <1>2, IInv, UpTypes, UpSafe DEF IInv
<1>3. CASE DownStep BY ONLY <1>1, <1>3, IInv, DownTypes, DownSafe DEF IInv
<1>4. CASE HealStep BY ONLY <1>1, <1>4, IInv, HealTypes, HealSafe DEF IInv
<1>5. CASE StartUp \/ StartDown \/ StartHeal \/ Abort \/ Breaks
  BY ONLY <1>1, <1>5, IInv, RestTypes, RestSafe DEF IInv
<1>6. CASE Outside BY ONLY <1>1, <1>6, IInv, OutsideTypes, OutsideSafe DEF IInv
<1>7. CASE UNCHANGED vars
  <2>1. /\ UNCHANGED <<cluster, ns, objs, cni, flo, cne, pods, probe, irsa, crs, broken, loops>>
        /\ UNCHANGED <<pc, done, run, hurt, tries, intent, repairs, faults>>
    BY ONLY <1>7 DEF vars, world
  <2>2. SpaceType' /\ SetType' BY ONLY <1>1, <2>1, TypeParts DEF SpaceType, SetType
  <2>3. FlagType' BY ONLY <1>1, <2>1, TypeParts DEF FlagType
  <2>4. PlaceType' BY ONLY <1>1, <2>1, TypeParts DEF PlaceType
  <2>5. CountType' BY ONLY <1>1, <2>1, TypeParts DEF CountType
  <2>6. PodType' /\ CrType' BY ONLY <1>1, <2>1, TypeParts DEF PodType, CrType
  <2>7. ProbeType /\ RoleType /\ probe' = probe /\ irsa' = irsa BY ONLY <1>1, <2>1, TypeParts
  <2>8. ProbeType' /\ RoleType' BY ONLY <2>7, Zenon DEF ProbeType, RoleType
  <2>9. TypeOK'
    BY ONLY <2>6, <2>8, <2>2, <2>3, <2>4, <2>5
       DEF TypeOK, WorldTypeOK, SpaceType, FlagType, PodType, ProbeType, RoleType, CrType,
       SetType, PlaceType, CountType
  <2>10. (Once' <=> Once) /\ (Twice' <=> Twice) BY ONLY <2>1 DEF Once, Twice
  <2>11. Deployed' /\ Deletions' BY ONLY IInv, <2>1, <2>10 DEF IInv, Safe, Deployed, Deletions
  <2>12. Progress' /\ Scripts' BY ONLY IInv, <2>1, <2>10 DEF IInv, Safe, Progress, Scripts
  <2>13. Healing' /\ Mended' /\ Reported'
    BY ONLY IInv, <2>1, <2>10 DEF IInv, Safe, Healing, Mended, Reported
  <2> QED BY ONLY <2>9, <2>11, <2>12, <2>13 DEF IInv, Safe
<1> QED BY ONLY <1>2, <1>3, <1>4, <1>5, <1>6, <1>7, [Next]_vars DEF Next

-----------------------------------------------------------------------------
\* A step of `up` at cwc, and where it can be refused.
LEMMA UpTrial == ASSUME TypeOK, UpStep PROVE Trial
<1>1. "cwc" \in Workloads BY ONLY TRUE DEF Workloads
<1> USE TypeParts
    DEF UpStep, Cluster10, Phase08b, PollVpcCni, CniSlow, Phase08c, Phase11, Phase16, Phase11c,
        Phase17c, EnsureNamespaces, Phase12, Multus12, FloSame, RunFloHelm, FloRefused,
        FloInstalled, FloFails, Phase15, Phase19, Phase20, Phase22, ReconcileStarted,
        WaitForDeployment, Annotate, InjectRole, Phase23, ControllerAvailable, Phase23b,
        InfraProgrammed, CwcReady, CwcHeal, CwcGivesUp, DssmWell, PatchDssm, BounceDssm,
        Phase24d, Phase24c, Bounce24c, WindowOver, Sync24c, Poll25, Activated, TimesOut,
        TimesOutSlow, NsRefuses,
        At, Passes, Applies, Advance, To, Refuse, End, world, Base, Spaces, Runtime, PatchDssm,
        BounceDssm, SyncGates, EnsureCertMount, Restarted, Apply, Waits, Hopeless, CneReady
<1>2. loops' = loops OBVIOUS
<1>3. \/ pods' = pods \/ Becomes("controller", "starting") \/ Becomes("dssm", "starting")
      \/ Becomes("tmm", "ready") \/ (Becomes("cwc", "starting") /\ pc = "24" /\ pc' = "24")
  OBVIOUS
<1>4. pods'["cwc"] = pods["cwc"] \/ (pods'["cwc"] = "starting" /\ pc = "24" /\ pc' = "24")
  BY ONLY <1>1, <1>3, TypeOK, TypeParts, PodsBecome DEF Workloads
<1>5. pc' = "24" => pc = "24" \/ tries' = 0 OBVIOUS
<1>6. pc = "24" /\ pc' = "24" =>
          pods["cwc"] = "looping" /\ Becomes("cwc", "starting") /\ tries' = tries + 1
  BY UpTable
<1>7. pc = "24" /\ pc' = "24" =>
          pods["cwc"] = "looping" /\ pods'["cwc"] = "starting" /\ tries' = tries + 1
  BY ONLY <1>1, <1>6, TypeOK, TypeParts, PodsBecome
<1>8. pc' \in PastCwc /\ pc \notin PastCwc => pc = "24"
  BY UpTable, ZenonT(30) DEF PastCwc, PastDssm
<1>9. pc = "24" /\ pc' # "24" /\ pc' # "idle" =>
         pods["cwc"] = "ready" \/ hurt' \/ (tries = MaxIter /\ pods["cwc"] = "looping")
  BY DEF Fault
<1>10. "24" \notin PastCwc /\ "idle" \notin PastCwc BY ONLY TRUE DEF PastCwc, PastDssm
<1>11. pc' \in PastCwc /\ pc \notin PastCwc =>
        pods["cwc"] = "ready" \/ hurt' \/
            (pc = "24" /\ tries = MaxIter /\ pods["cwc"] = "looping")
  BY ONLY <1>8, <1>9, <1>10
<1>12. pc' \in PastCne => pc \in PastCne \/ cne' # "none"
  BY UpTable, ZenonT(60) DEF PastCne, PastCwc, PastDssm
<1>13. hurt => hurt' BY DEF Fault, NoFault, FlagType
<1>14. done # "up refused" /\ done' = "up refused" =>
         \/ pc = "08b" /\ cni = "updating"
         \/ flo = "pending" \/ flo' = "failed" \/ TimesOut \/ TimesOutSlow \/ NsRefuses
  OBVIOUS
<1>15. NsRefuses => ns # "active" BY ONLY TRUE DEF NsRefuses
<1>16. TimesOutSlow => hurt' BY ONLY TRUE DEF TimesOutSlow, Fault
<1>17. TimesOut =>
         \/ hurt' \/ ns # "active" \/ cne = "going"
         \/ pc \in PastCne /\ cne = "none"
         \/ pc = "25" /\ pods["cwc"] = "looping"
  <2>1. Waits \subseteq PastCne BY ONLY TRUE DEF Waits, PastCne, PastCwc, PastDssm
  <2>2. TimesOut => pc \in Waits /\ (Hopeless \/ hurt) /\ hurt' = hurt
    BY ONLY TRUE DEF TimesOut, Refuse, NoFault
  <2> QED BY ONLY <2>1, <2>2 DEF Hopeless, At
<1> QED BY ONLY <1>2, <1>4, <1>5, <1>7, <1>11, <1>12, <1>13, <1>14, <1>15, <1>16, <1>17
     DEF Trial

LEMMA CountsNat == ASSUME TypeOK PROVE loops \in Nat /\ tries \in Nat /\ MaxIter \in Nat
<1>1. CountType BY TypeParts
<1> QED
  BY ONLY <1>1, OverlayAssumption, ClusterAssumption
     DEF CountType, OverlayAssumption, ClusterAssumption

\* `up` waits for nothing that is not to come, but where a fault or cwc keep it from coming.
LEMMA TriedUp == ASSUME IInv, Tried, UpStep PROVE Tried'
<1>1. TypeOK /\ Trial BY UpTrial DEF IInv
<1>2. loops \in Nat /\ tries \in Nat /\ MaxIter \in Nat BY <1>1, CountsNat
<1>3. "24" \notin PastCwc BY ONLY TRUE DEF PastCwc, PastDssm
<1>4. pods'["cwc"] = "looping" => loops' > 0
  BY ONLY <1>1, Tried DEF Trial, Tried
<1>5. pc' = "24" => loops' >= tries' /\ (pods'["cwc"] = "looping" => loops' > tries')
  <2>1. CASE pc = "24" /\ pc' = "24"
    <3>1. loops' = loops /\ tries' = tries + 1 /\ pods["cwc"] = "looping" /\
              pods'["cwc"] = "starting"
      BY ONLY <1>1, <2>1 DEF Trial
    <3>2. loops > tries BY ONLY <2>1, <3>1, Tried DEF Tried
    <3>3. loops >= tries + 1 BY ONLY <1>2, <3>2
    <3> QED BY ONLY <3>1, <3>3
  <2>2. CASE pc # "24" /\ pc' = "24"
    <3>1. loops' = loops /\ tries' = 0 /\ pods'["cwc"] = pods["cwc"] BY ONLY <1>1, <2>2 DEF Trial
    <3>2. pods["cwc"] = "looping" => loops > 0 BY ONLY Tried DEF Tried
    <3> QED BY ONLY <1>2, <3>1, <3>2
  <2> QED BY ONLY <2>1, <2>2
<1>6. pc' \in PastCwc => pods'["cwc"] \in {"none", "ready"} \/ hurt' \/ loops' > MaxIter
  <2>1. pc' \in PastCwc => pods'["cwc"] = pods["cwc"] BY ONLY <1>1, <1>3 DEF Trial
  <2>2. CASE pc \in PastCwc BY ONLY <1>1, <2>1, <2>2, Tried DEF Trial, Tried
  <2>3. CASE pc \notin PastCwc BY ONLY <1>1, <1>2, <2>1, <2>3, Tried DEF Trial, Tried
  <2> QED BY ONLY <2>2, <2>3
<1>7. pc' \in PastCne => cne' # "none" \/ ns' # "active" \/ Twice'
  <2>1. UpEffect BY <1>1, UpChanges
  <2>2. Twice => Twice' BY <1>1, <2>1, FaultCounts, NoFaultKeeps DEF UpEffect
  <2>3. "12" \notin PastCne BY ONLY TRUE DEF PastCne, PastCwc, PastDssm
  <2> QED BY ONLY <1>1, <2>1, <2>2, <2>3, Tried DEF Trial, Tried, UpEffect
<1> QED BY ONLY <1>4, <1>5, <1>6, <1>7 DEF Tried

LEMMA TriedElse ==
  ASSUME IInv, Tried,
         DownStep \/ HealStep \/ StartUp \/ StartDown \/ StartHeal \/ Abort \/ Breaks
  PROVE  Tried'
<1>1. TypeOK /\ PodType /\ "cwc" \in Workloads BY TypeParts DEF IInv, Workloads
<1>2. pc' \notin PastCne /\ pc' # "24" /\ pc' \notin PastCwc
  <2>1. pc' \in {"idle", "cluster"} \cup DownPoints \cup HealPoints
    <3>1. CASE DownStep BY ONLY <1>1, <3>1, DownChanges DEF DownEffect
    <3>2. CASE HealStep BY ONLY <1>1, <3>2, HealChanges DEF HealEffect
    <3>3. CASE StartUp \/ StartDown \/ StartHeal \/ Abort \/ Breaks
      BY ONLY <3>3 DEF StartUp, StartDown, StartHeal, Abort, Breaks, End, At, DownPoints,
             HealPoints
    <3> QED BY <3>1, <3>2, <3>3
  <2> QED BY ONLY <2>1 DEF PastCne, PastCwc, PastDssm, DownPoints, HealPoints
<1>3. pods'["cwc"] = "looping" => loops' > 0
  <2>1. loops \in Nat BY <1>1, CountsNat
  <2>2. CASE DownStep
    <3>1. loops' = loops /\ (pods' = pods \/ pods' = NoPods)
      BY ONLY <2>2 DEF DownStep, Client, CleanupBNKOverlayCRs, Phase15Down, Phase23bDown,
             Phase23Down, Phase22Down, Phase20Down, Phase19Down, Phase14Down, Uninstalled,
             Phase12Down, Phase11cDown, Phase17cDown, ClusterDown,
         At, Passes, Advance, To, End, world, Base, Spaces, Runtime, Removes, Withdraws
    <3> QED BY ONLY <1>1, <3>1, Tried DEF NoPods, Tried
  <2>3. CASE HealStep
    <3>1. /\ loops' = loops
          /\ pods' = pods \/ \E w \in Workloads : Becomes(w, "starting")
      BY ONLY <2>3 DEF HealStep, RowHealthy, RowSkipped, RowFails, FixPlumbing, FixPodManager,
             FixCwc, CwcReplaced, CwcStuck, FixDssm, FixControllerIrsa, FixTmmRoutes, HealEnd,
             Rows, Patched, NeedsIntent, Records, Fixing, At, Passes, Advance, To,
         End, world, Base, Spaces, Runtime, PatchDssm, BounceDssm, InjectRole, Restarted,
         Workloads
    <3> QED BY ONLY <1>1, <3>1, PodsBecome, Tried DEF Tried
  <2>4. CASE StartUp \/ StartDown \/ StartHeal \/ Abort \/ Breaks
    <3>1. UNCHANGED <<pods, loops>> \/ loops' = loops + 1
      BY ONLY <2>4 DEF StartUp, StartDown, StartHeal, Abort, Breaks, world
    <3> QED BY ONLY <2>1, <3>1, Tried DEF Tried
  <2> QED BY <2>2, <2>3, <2>4
<1> QED BY ONLY <1>2, <1>3 DEF Tried

LEMMA TriedOutside == ASSUME IInv, Tried, Outside PROVE Tried'
<1>1. TypeOK /\ PodType /\ Progress /\ Deletions /\ "cwc" \in Workloads
  BY TypeParts DEF IInv, Safe, Workloads
<1>2. UNCHANGED <<pc, tries, hurt>> /\ (Twice' <=> Twice) BY DEF Outside, Command, Twice
<1>3. loops \in Nat /\ tries \in Nat /\ MaxIter \in Nat BY <1>1, CountsNat
<1>4. /\ "24" \in PastReconcile /\ PastCwc \subseteq PastReconcile
      /\ PastCne \cap Cleaned = {}
  BY ONLY TRUE DEF PastReconcile, PastWorkloads, PastAccount, PastRole, PastDssm, PastCwc,
         PastCne,
     Cleaned, DownPoints
<1>5. \/ pods'["cwc"] = pods["cwc"] /\ loops' \in {loops, loops + 1}
      \/ pods["cwc"] = "starting" /\ pods'["cwc"] = "looping" /\ loops' = loops + 1
      \/ pods'["cwc"] \in {"none", "ready"} /\ loops' = loops
      \/ pods'["cwc"] = "starting" /\ cne = "applied" /\ loops' = loops
  <2>1. CASE ColdStart
    <3>1. \/ Becomes("cwc", "looping") /\ loops' = loops + 1 /\ pods["cwc"] = "starting"
          \/ Becomes("cwc", "ready") /\ loops' = loops
          \/ Becomes("controller", "looping") /\ loops' = loops + 1
          \/ Becomes("controller", "ready") /\ loops' = loops
      BY ONLY <2>1 DEF ColdStart
    <3> QED BY ONLY <1>1, <3>1, PodsBecome DEF Workloads
  <2>2. CASE DssmStarts \/ DssmSlow \/ TmmRuns
    <3>1. /\ loops' = loops
          /\ Becomes("dssm", "ready") \/ Becomes("tmm", "running") \/ Becomes("tmm", "ready")
      BY ONLY <2>2 DEF DssmStarts, DssmSlow, TmmRuns
    <3> QED BY ONLY <1>1, <3>1, PodsBecome DEF Workloads
  <2>3. CASE Reconcile BY ONLY <1>1, <2>3 DEF Reconcile
  <2>4. CASE Finalize \/ NamespacesEnd
    BY ONLY <1>1, <2>4 DEF Finalize, NamespacesEnd, NoPods
  <2>5. CASE Programs \/ CniSettles \/ FloReverts
    BY ONLY <2>5 DEF Programs, CniSettles, FloReverts, Runtime
  <2> QED BY <2>1, <2>2, <2>3, <2>4, <2>5 DEF Outside, ClusterRuns
<1>6. /\ pods'["cwc"] = "looping" =>
             (pods["cwc"] = "looping" /\ loops' >= loops) \/ loops' = loops + 1
      /\ loops' \in Nat /\ loops' >= loops
  BY ONLY <1>3, <1>5
<1>7. pods'["cwc"] = "looping" => loops' > 0
  BY ONLY <1>3, <1>6, Tried DEF Tried
<1>8. pc' = "24" => loops' >= tries' /\ (pods'["cwc"] = "looping" => loops' > tries')
  <2> HAVE pc' = "24"
  <2>1. pc = "24" /\ tries' = tries BY ONLY <1>2, pc' = "24"
  <2>2. loops >= tries /\ (pods["cwc"] = "looping" => loops > tries) BY ONLY <2>1, Tried DEF Tried
  <2> QED BY ONLY <1>3, <1>6, <2>1, <2>2
<1>9. pc' \in PastCwc => pods'["cwc"] \in {"none", "ready"} \/ hurt' \/ loops' > MaxIter
  <2> HAVE pc' \in PastCwc
  <2>1. pc \in PastCwc /\ hurt' = hurt BY ONLY <1>2, pc' \in PastCwc
  <2>2. cne # "applied" BY ONLY <1>1, <1>4, <2>1 DEF Progress
  <2>3. loops > MaxIter => loops' > MaxIter BY ONLY <1>3, <1>6
  <2>4. pods["cwc"] \in {"none", "ready"} \/ hurt \/ loops > MaxIter BY ONLY <2>1, Tried DEF Tried
  <2> QED BY ONLY <1>5, <2>1, <2>2, <2>3, <2>4
<1>10. pc' \in PastCne => cne' # "none" \/ ns' # "active" \/ Twice'
  <2>1. cne' # "none" \/ ns' # "active" \/ (cne = "none" /\ ns = "active") \/ cne = "going"
    BY <1>1 DEF Outside, ClusterRuns, Reconcile, ColdStart, DssmStarts, TmmRuns, Programs,
        CniSettles,
       Finalize, NamespacesEnd, FloReverts, DssmSlow, Spaces
  <2> QED BY ONLY <1>1, <1>2, <1>4, <2>1, Tried DEF Tried, Deletions
<1> QED BY ONLY <1>7, <1>8, <1>9, <1>10 DEF Tried

LEMMA TriedSteps == IInv /\ Tried /\ [Next]_vars => Tried'
<1> SUFFICES ASSUME IInv, Tried, [Next]_vars PROVE Tried' OBVIOUS
<1>1. CASE UNCHANGED vars BY ONLY <1>1, Tried DEF vars, world, Tried, Twice
<1>2. CASE Next BY <1>2, TriedUp, TriedElse, TriedOutside DEF Next
<1> QED BY <1>1, <1>2

LEMMA TriedStart == Init => Tried
BY DEF Init, WorldInit, NoPods, Workloads, Tried, PastCne, PastCwc, PastDssm

\* Who reports a refusal, and over what.
LEMMA Refused ==
  ASSUME IInv, Tried, [Next]_vars, done # "up refused", done' = "up refused"
  PROVE  \/ hurt' \/ ns # "active" \/ cne = "going" \/ (cne = "none" /\ faults > 1)
         \/ flo = "pending" \/ flo' = "failed" \/ (At("08b") /\ cni = "updating")
         \/ pods["cwc"] = "looping" /\ loops > MaxIter
<1>1. TypeOK BY DEF IInv
<1>2. UpStep
  <2>1. ~DownStep BY <1>1, DownChanges DEF DownEffect
  <2>2. ~HealStep BY <1>1, HealChanges DEF HealEffect, TypeOK
  <2>3. ~(StartUp \/ StartDown \/ StartHeal \/ Abort \/ Breaks)
    BY DEF StartUp, StartDown, StartHeal, Abort, Breaks, End
  <2>4. ~Outside /\ ~UNCHANGED vars BY DEF Outside, Command, vars
  <2> QED BY <2>1, <2>2, <2>3, <2>4 DEF Next
<1>3. Trial BY <1>1, <1>2, UpTrial
<1>4. CASE pc \in PastCne /\ cne = "none"
  <2>1. ns # "active" \/ Twice BY ONLY <1>4, Tried DEF Tried
  <2>2. faults \in Nat BY <1>1, FaultsNat
  <2>3. Twice => faults > 1 BY ONLY <2>2 DEF Twice
  <2> QED BY ONLY <1>4, <2>1, <2>3
<1>5. CASE pc = "25" /\ pods["cwc"] = "looping"
  <2>1. hurt \/ loops > MaxIter BY ONLY <1>5, Tried DEF Tried, PastCwc, PastDssm
  <2>2. hurt => hurt' BY ONLY <1>3 DEF Trial
  <2> QED BY ONLY <1>5, <2>1, <2>2
<1>6. CASE \/ hurt' \/ ns # "active" \/ cne = "going" \/ flo = "pending" \/ flo' = "failed"
           \/ pc = "08b" /\ cni = "updating"
  BY ONLY <1>6 DEF At
<1> QED
  BY ONLY <1>3, <1>4, <1>5, <1>6, done # "up refused", done' = "up refused" DEF Trial

\* Whatever `up`s, `down`s and heals are run, cut off or hurt, in whatever order: each
\* is as far as its step says, and what it has not made or mended a fault accounts for.
THEOREM OverlayInvariant == Spec => []IInv
<1>1. IInv /\ [Next]_vars => IInv' BY Steps
<1> QED BY Start, <1>1, PTL DEF Spec

\* Every variable of the overlay keeps its type, the counters their bounds.
THEOREM OverlayTypes == Spec => []TypeOK
<1>1. IInv => TypeOK BY DEF IInv
<1> QED BY <1>1, OverlayInvariant, PTL

\* An `up` that gets through phase 25 leaves an overlay that works, after any commands
\* and crashes before it, or one that two faults of a `down` left going.
THEOREM OverlayActivates == Spec => []UpActivates
<1>1. IInv => UpActivates
  <2> SUFFICES ASSUME IInv, done = "up" PROVE UpActivates BY DEF UpActivates
  <2>1. TypeOK /\ Deployed /\ Reported /\ faults \in Nat BY FaultsNat DEF IInv, Safe
  <2>2. (Once => faults > 0) /\ (Twice => faults > 1) BY ONLY <2>1 DEF Once, Twice
  <2>3. DOMAIN crs = {"license", "infra"} BY <2>1, TypeParts DEF CrType
  <2>4. cne = "reconciled" => \A w \in Workloads : pods[w] # "none" BY ONLY <2>1 DEF Deployed
  <2>5. CASE Twice /\ (ns # "active" \/ cne # "reconciled")
    BY ONLY <2>2, <2>5 DEF UpActivates, Going
  <2>6. CASE ~(Twice /\ (ns # "active" \/ cne # "reconciled"))
    <3>1. /\ ns = "active" /\ flo = "deployed" /\ irsa.sa /\ irsa.env /\ cne = "reconciled"
          /\ crs["license"] = "done" /\ crs["infra"] = "done"
          /\ pods["dssm"] = "ready" \/ probe.started \/ Once
      BY ONLY <2>1, <2>6, done = "up" DEF Reported
    <3>2. \A c \in DOMAIN crs : crs[c] = "done" BY ONLY <3>1, <2>3
    <3> QED BY ONLY <3>1, <3>2, <2>2, <2>4 DEF UpActivates
  <2> QED BY ONLY <2>5, <2>6
<1> QED BY <1>1, OverlayInvariant, PTL

\* `bnk heal` that reports "healed" leaves nothing its table would find: no row undoes
\* what a row before it did, for any number of commands and faults before.
THEOREM OverlayHeals == Spec => []HealSettles
<1>1. IInv => HealSettles
  <2> SUFFICES ASSUME IInv, done = "healed" PROVE HealSettles BY DEF HealSettles
  <2>1. TypeOK /\ Reported /\ faults \in Nat BY FaultsNat DEF IInv, Safe
  <2> QED BY <2>1 DEF Reported, Twice, HealSettles, Going
<1> QED BY <1>1, OverlayInvariant, PTL

\* An `up` whose calls succeed is refused only over what was there before it, over Helm,
\* or over a cwc that loops once too often: for any number of `up`s, faults, crash loops
\* and deleted pods.
THEOREM OverlayRefuses == Spec => UpNotRefused
<1>1. IInv /\ [Next]_vars => IInv' BY Steps
<1>2. IInv /\ Tried /\ [Next]_vars =>
        [done # "up refused" /\ done' = "up refused" =>
           \/ hurt' \/ ns # "active" \/ cne = "going" \/ (cne = "none" /\ faults > 1)
           \/ flo = "pending" \/ flo' = "failed" \/ (At("08b") /\ cni = "updating")
           \/ pods["cwc"] = "looping" /\ loops > MaxIter]_vars
  BY Refused
<1> QED BY Start, TriedStart, <1>1, TriedSteps, <1>2, PTL DEF Spec, UpNotRefused
=============================================================================
