----------------------------- MODULE BnkCluster -----------------------------
(***************************************************************************)
(* The EKS cluster under the BNK overlay: namespaces, what the phases have  *)
(* applied, and what FLO, the cne-controller, cert-manager and the kubelets *)
(* make of it on their own.  None of them is part of src/: each is taken    *)
(* from what the phases and the repairs read, wait for and write.           *)
(***************************************************************************)
EXTENDS Naturals, FiniteSets

CONSTANT MaxLoops    \* bound: how often a pod falls into its cold-start crash loop

ASSUME ClusterAssumption == MaxLoops \in Nat

VARIABLES
  cluster,  \* EKS runs, with its nodes
  ns,       \* the BNK namespaces: "none", "active" or "going"
  objs,     \* what the phases have applied, a subset of Things
  cni,      \* the vpc-cni add-on: "none", "updating" or "active"
  flo,      \* the Helm release of FLO
  cne,      \* the CNEInstance: "reconciled" once its status has conditions, "going"
            \* when it is deleted and waits for its finalizer
  pods,     \* of each workload, the state of its pods
  probe,    \* dSSM: are its scripts patched, and did its pods start with them
  irsa,     \* the controller's ServiceAccount has the role, its pods have it injected
  crs,      \* License and Infra: "none", "applied" or "done" (Active, Programmed)
  broken,   \* Plumbing that `bnk heal` would find unhealthy
  loops     \* crash loops so far

Things == {"metrics", "kubeconfig", "label", "ifaces", "certs", "multus",
           "otel", "mapping", "nads", "gpu"}
Workloads == {"cwc", "controller", "dssm", "tmm"}
Plumbing == {"multus-token-watch", "metrics-server", "tmm-log-stream", "cert-mount",
             "controller-endpointslices", "tmm-k8s-routes", "epp-namespaces",
             "test-namespace", "persistence-profile-sync"}

world == <<cluster, ns, objs, cni, flo, cne, pods, probe, irsa, crs, broken, loops>>

WorldTypeOK ==
  /\ cluster \in BOOLEAN /\ ns \in {"none", "active", "going"} /\ objs \subseteq Things
  /\ cni \in {"none", "updating", "active"}
  /\ flo \in {"none", "pending", "deployed", "failed"}
  /\ cne \in {"none", "applied", "reconciled", "going"}
  /\ pods \in [Workloads -> {"none", "starting", "looping", "running", "ready"}]
  /\ probe \in [patched : BOOLEAN, started : BOOLEAN] /\ irsa \in [sa : BOOLEAN, env : BOOLEAN]
  /\ crs \in [{"license", "infra"} -> {"none", "applied", "done"}]
  /\ broken \subseteq Plumbing /\ loops \in 0 .. MaxLoops

NoPods == [w \in Workloads |-> "none"]
NoCrs == [c \in {"license", "infra"} |-> "none"]

WorldInit ==
  /\ cluster = FALSE /\ ns = "none" /\ objs = {} /\ cni = "none" /\ flo = "none"
  /\ cne = "none" /\ pods = NoPods /\ probe = [patched |-> FALSE, started |-> FALSE]
  /\ irsa = [sa |-> FALSE, env |-> FALSE] /\ crs = NoCrs /\ broken = {} /\ loops = 0

\* What only one field of the world changes.
Base == <<cluster, cni>>
Spaces == <<ns, objs, flo, cne>>
Runtime == <<pods, probe, irsa, crs, loops>>

FloWorks == flo = "deployed" /\ ns = "active"

-----------------------------------------------------------------------------
\* FLO takes the CNEInstance up and deploys the rest.  The scripts of dSSM are the
\* strict ones, the fluentd has no stdout store, the pod-manager lacks its mount, the
\* controller its right to EndpointSlices.
Reconcile ==
  /\ FloWorks /\ cne = "applied" /\ {"certs", "otel"} \subseteq objs
  /\ cne' = "reconciled"
  /\ pods' = [w \in Workloads |-> "starting"]
  /\ probe' = [patched |-> FALSE, started |-> FALSE]
  /\ irsa' = [irsa EXCEPT !.env = irsa.sa]
  /\ broken' = broken \cup {"tmm-log-stream", "cert-mount", "controller-endpointslices"}
  /\ UNCHANGED <<Base, ns, objs, flo, crs, loops>>

Becomes(w, s) == pods' = [pods EXCEPT ![w] = s]

\* cwc resolves its names or falls into the crash loop, which it does not leave;
\* the pod-manager in the controller's pod leaves it in the end.
ColdStart ==
  /\ \E w \in {"cwc", "controller"} :
       \/ /\ pods[w] = "starting" /\ loops < MaxLoops
          /\ Becomes(w, "looping") /\ loops' = loops + 1
       \/ pods[w] = "starting" /\ Becomes(w, "ready") /\ UNCHANGED loops
       \/ w = "controller" /\ pods[w] = "looping" /\ Becomes(w, "ready") /\ UNCHANGED loops
  /\ UNCHANGED <<Base, Spaces, probe, irsa, crs, broken>>

\* A dSSM pod that started with the patched scripts passes its probe.
DssmStarts ==
  /\ pods["dssm"] = "starting" /\ probe.started /\ Becomes("dssm", "ready")
  /\ UNCHANGED <<Base, Spaces, probe, irsa, crs, broken, loops>>

\* A reconciliation of FLO puts the strict scripts back; pods that run keep theirs.
FloReverts ==
  /\ FloWorks /\ cne = "reconciled" /\ probe.patched
  /\ probe' = [probe EXCEPT !.patched = FALSE]
  /\ UNCHANGED <<Base, Spaces, pods, irsa, crs, loops, broken>>

\* With the strict scripts it takes dSSM twelve minutes and more, or for ever.
DssmSlow ==
  /\ pods["dssm"] = "starting" /\ ~probe.started /\ Becomes("dssm", "ready")
  /\ UNCHANGED <<Base, Spaces, probe, irsa, crs, broken, loops>>

\* Scheduled on the labelled node, its interfaces attached by Multus; its readiness
\* gates are written by the controller, or by nobody.
TmmRuns ==
  /\ pods["tmm"] = "starting" /\ {"label", "nads", "mapping", "multus"} \subseteq objs
  /\ \E s \in {"running", "ready"} : Becomes("tmm", s)
  /\ UNCHANGED <<Base, Spaces, probe, irsa, crs, broken, loops>>

Activates(c, w) == crs[c] = "applied" /\ pods[w] = "ready" /\ crs' = [crs EXCEPT ![c] = "done"]

\* cwc takes the licence to F5; the controller, which may call EC2, programs Infra.
Programs ==
  /\ \/ Activates("license", "cwc") \/ (irsa.env /\ Activates("infra", "controller"))
  /\ UNCHANGED <<Base, Spaces, pods, probe, irsa, broken, loops>>

CniSettles ==
  /\ cni = "updating" /\ cni' = "active"
  /\ UNCHANGED <<cluster, Spaces, Runtime, broken>>

\* FLO releases a CNEInstance that is deleted, and takes its workloads down.
Finalize ==
  /\ FloWorks /\ cne = "going" /\ cne' = "none" /\ pods' = NoPods
  /\ UNCHANGED <<Base, ns, objs, flo, probe, irsa, crs, broken, loops>>

\* The namespaces end once nothing in them waits for a finalizer; FLO's release,
\* kept in one of them, goes as well.
NamespacesEnd ==
  /\ ns = "going" /\ cne # "going"
  /\ ns' = "none" /\ flo' = "none" /\ cne' = "none" /\ pods' = NoPods /\ crs' = NoCrs
  /\ objs' = objs \ {"otel", "mapping", "nads"}
  /\ irsa' = [sa |-> FALSE, env |-> FALSE] /\ probe' = [patched |-> FALSE, started |-> FALSE]
  /\ UNCHANGED <<Base, broken, loops>>

\* The conditions that stand for traffic: TMM and the controller, not dSSM.
CneReady == cne \in {"reconciled", "going"} /\ pods["tmm"] = "ready" /\ pods["controller"] = "ready"

ClusterRuns ==
  \/ Reconcile \/ ColdStart \/ DssmStarts \/ TmmRuns \/ Programs \/ CniSettles
  \/ Finalize \/ NamespacesEnd
=============================================================================
