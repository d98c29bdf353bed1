-------------------------------- MODULE Heal --------------------------------
(***************************************************************************)
(* `awsbnkctl bnk heal`: the table of repairs, each detected and, unless it *)
(* is healthy, fixed; an error is recorded and the next repair follows.     *)
(* Those that need cluster.yaml are skipped without it.  Then the           *)
(* specification of the overlay with `up`, `down` and `heal`.               *)
(***************************************************************************)
EXTENDS OverlayDown

NeedsIntent == {"metrics-server", "controller-endpointslices", "controller-irsa",
                "tmm-k8s-routes"}

\* The operator heals an overlay that runs.
StartHeal ==
  /\ At("idle") /\ cne = "reconciled"
  /\ pc' = "multus-token-watch" /\ intent' \in BOOLEAN /\ done' = "none" /\ hurt' = FALSE
  /\ UNCHANGED <<world, run, tries, repairs, faults>>

\* The row gets its outcome, and the table goes on.
Records(o, q) ==
  /\ pc' = q /\ tries' = 0 /\ UNCHANGED <<done, run, intent>>
  /\ repairs' = IF repairs = "heal failed" THEN repairs ELSE o

\* What is not there is not repaired.
Absent(r) ==
  \/ r \in {"pod-manager", "controller-endpointslices", "controller-irsa"} /\ pods["controller"] = "none"
  \/ r = "dssm-probe" /\ pods["dssm"] = "none"
  \/ r \in {"tmm-log-stream", "tmm-k8s-routes", "epp-namespaces"} /\ cne = "none"

Healthy(r) ==
  \/ Absent(r)
  \/ CASE r = "cwc" -> pods["cwc"] # "looping"
       [] r = "dssm-probe" -> probe.patched \/ pods["dssm"] = "ready"
       [] r = "controller-irsa" -> irsa.sa /\ irsa.env
       [] r = "pod-manager" -> "cert-mount" \notin broken /\ pods["controller"] # "looping"
       [] OTHER -> r \notin broken

\* The repairs that end with the row, and the row a repair of several steps ends at.
NextRow(r) == CASE r = "cwc" -> "dssm-probe" [] r = "dssm-probe" -> "controller-endpointslices"
                [] r = "controller-irsa" -> "tmm-k8s-routes" [] OTHER -> After(r)
Rows == NeedsIntent \cup {"multus-token-watch", "tmm-log-stream", "pod-manager", "cwc",
                          "dssm-probe", "epp-namespaces", "test-namespace",
                          "persistence-profile-sync"}

RowHealthy(r) == At(r) /\ Healthy(r) /\ To(NextRow(r)) /\ NoFault /\ UNCHANGED world

RowSkipped(r) ==
  /\ At(r) /\ ~Healthy(r) /\ r \in NeedsIntent /\ ~intent
  /\ Records("heal skipped", NextRow(r)) /\ NoFault /\ UNCHANGED world

\* Detection or repair returns an error.
RowFails(r) == At(r) /\ Records("heal failed", NextRow(r)) /\ Fault /\ UNCHANGED world

Fixing(r) == At(r) /\ ~Healthy(r) /\ (r \in NeedsIntent => intent) /\ NoFault

\* Repairs that patch one object and are done.
FixPlumbing(r) ==
  /\ Fixing(r) /\ broken' = broken \ {r} /\ Advance(r)
  /\ UNCHANGED <<Base, Spaces, Runtime>>

\* The mount is ensured and the controller restarted, also when the mount was there;
\* pods that only start count as healthy.
FixPodManager ==
  /\ Fixing("pod-manager") /\ broken' = broken \ {"cert-mount"} /\ Restarted
  /\ Advance("pod-manager") /\ UNCHANGED <<Base, Spaces, probe, crs, loops>>

FixCwc ==
  /\ Fixing("cwc") /\ Becomes("cwc", "starting") /\ Advance("cwc")
  /\ UNCHANGED <<Base, Spaces, probe, irsa, crs, loops, broken>>

\* The replacement is Ready, or three minutes are over.
CwcReplaced == At("cwc wait") /\ pods["cwc"] = "ready" /\ Passes("cwc wait")
CwcStuck ==
  /\ At("cwc wait") /\ pods["cwc"] # "ready" /\ Records("heal failed", After("cwc wait"))
  /\ IF pods["cwc"] = "looping" THEN NoFault ELSE Fault
  /\ UNCHANGED world

\* The step of phase 24b that patches and the one that bounces.
FixDssm == PatchDssm("dssm-probe") \/ BounceDssm("dssm bounce")

\* Phase 21 as a whole.
FixControllerIrsa ==
  \/ Fixing("controller-irsa") /\ Advance("controller-irsa") /\ UNCHANGED world
  \/ /\ At("irsa sa") /\ irsa' = [irsa EXCEPT !.sa = TRUE] /\ Advance("irsa sa") /\ NoFault
     /\ UNCHANGED <<Base, Spaces, pods, probe, crs, loops, broken>>
  \/ InjectRole("irsa pods")

\* FLO rolls TMM with the environment the CNEInstance now has.
FixTmmRoutes ==
  /\ Fixing("tmm-k8s-routes") /\ broken' = broken \ {"tmm-k8s-routes"}
  /\ Becomes("tmm", "starting") /\ Advance("tmm-k8s-routes")
  /\ UNCHANGED <<Base, Spaces, probe, irsa, crs, loops>>

HealEnd == At("heal end") /\ End(repairs) /\ NoFault /\ UNCHANGED world

Patched == Rows \ {"pod-manager", "cwc", "dssm-probe", "controller-irsa", "tmm-k8s-routes"}

HealStep ==
  \/ \E r \in Rows : RowHealthy(r) \/ RowSkipped(r) \/ RowFails(r)
  \/ \E r \in Patched : FixPlumbing(r)
  \/ FixPodManager \/ FixCwc \/ CwcReplaced \/ CwcStuck \/ FixDssm \/ FixControllerIrsa
  \/ FixTmmRoutes \/ HealEnd

-----------------------------------------------------------------------------
\* Something breaks between two commands: a token expires, a change of the product
\* or of another tool undoes what a phase did.
Breaks ==
  /\ At("idle") /\ cne = "reconciled" /\ Fault /\ done' = "none"
  /\ \/ \E x \in Plumbing \ broken : broken' = broken \cup {x} /\ UNCHANGED <<pods, irsa, loops>>
     \/ irsa' = [sa |-> FALSE, env |-> FALSE] /\ UNCHANGED <<pods, broken, loops>>
     \/ loops < MaxLoops /\ Becomes("cwc", "looping") /\ loops' = loops + 1 /\ UNCHANGED <<irsa, broken>>
  /\ UNCHANGED <<Base, Spaces, probe, crs, pc, run, tries, intent, repairs>>

Command == <<pc, done, run, hurt, tries, intent, repairs, faults>>
Fair == ClusterRuns /\ UNCHANGED Command
Outside == (ClusterRuns \/ FloReverts \/ DssmSlow) /\ UNCHANGED Command

Next == StartUp \/ StartDown \/ StartHeal \/ UpStep \/ DownStep \/ HealStep \/ Abort \/ Breaks \/ Outside

Spec == Init /\ [][Next]_vars
=============================================================================
