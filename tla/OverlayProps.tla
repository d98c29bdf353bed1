---------------------------- MODULE OverlayProps ----------------------------
(***************************************************************************)
(* What `up` and `bnk heal` promise about the overlay.                      *)
(***************************************************************************)
EXTENDS Heal

\* Two faults of a `down` that cleaned up and was cut off may leave a CNEInstance, or its
\* namespaces, that still look well and go: neither phase 25 nor `bnk heal` asks whether
\* what they look at is being deleted.
Going == faults > 1 /\ (ns # "active" \/ cne # "reconciled")

\* A successful `up`, whatever an earlier command left half done, ends with an
\* overlay that works: FLO deployed, the CNEInstance available, the licence active,
\* the gateway programmed, the controller with its role; the dSSM pods have started or
\* have the scripts to start with, unless a command was hurt between patching them
\* and restarting the pods, which no later one makes up for.
UpActivates ==
  done = "up" =>
    \/ /\ ns = "active" /\ flo = "deployed" /\ irsa.sa /\ irsa.env
       /\ cne = "reconciled" /\ \A w \in Workloads : pods[w] # "none"
       /\ \A c \in DOMAIN crs : crs[c] = "done"
       /\ pods["dssm"] = "ready" \/ probe.started \/ faults > 0
    \/ Going

\* An `up` in which no call failed is refused only over what an earlier command left
\* behind: an add-on EKS is changing, a release that hangs, namespaces or a CNEInstance
\* that go, or a CNEInstance that went under the `up`, which takes two faults before it;
\* or when Helm fails, or cwc falls into its loop once more than phase 24 deletes it.
\* No phase waits for what only a later one makes.
UpNotRefused ==
  [][done # "up refused" /\ done' = "up refused" =>
       \/ hurt' \/ ns # "active" \/ cne = "going" \/ (cne = "none" /\ faults > 1)
       \/ flo = "pending" \/ flo' = "failed" \/ (At("08b") /\ cni = "updating")
       \/ pods["cwc"] = "looping" /\ loops > MaxIter]_vars

\* A heal with cluster.yaml that reports no failure leaves nothing the table of
\* repairs would find, in whatever state it found the overlay: no repair undoes
\* what an earlier one did.
HealSettles == done = "healed" => (broken = {} /\ irsa.sa /\ irsa.env) \/ Going

-----------------------------------------------------------------------------
\* The process runs while it has a step of its own, and the cluster does what it
\* was asked for; dSSM with its strict scripts may never be ready, and nothing
\* makes the operator start a command.
FairSpec == Spec /\ WF_vars(UpStep) /\ WF_vars(DownStep) /\ WF_vars(HealStep) /\ WF_vars(Fair)

\* Every command comes to an end, also when cwc never leaves its loop or dSSM never
\* starts: every poll has its limit.
Ends == ~At("idle") ~> At("idle")
=============================================================================
