------------------------------ MODULE ForgeProps ------------------------------
(***************************************************************************)
(* What registration with Forge promises.                                   *)
(***************************************************************************)
EXTENDS ForgeDown

\* After an `up` of a workspace with a project of its own, a link that no command has
\* begun to give up names a cluster that Forge has, with the kubeconfig of the EKS
\* cluster that runs; and there is such a link if every call of it was answered.
\* Kills, lost answers and outages before it, in either API, leave nothing that
\* another `up` does not take over.
UpRegisters ==
  ~shared => \A c \in Clusters :
    told[c] \in {"up", "late"} /\ ws[c].trusted =>
      \/ IsRegistered(ws[c].link) /\ \E k \in forge.clusters : k.id = ws[c].link.clus /\ k.kube = ws[c].kube
      \/ ~IsRegistered(ws[c].link) /\ told[c] = "late"

\* A `down` that says it unregistered has left neither the workspace's cluster nor its
\* own project in Forge, also when the link was never written or was given up half-way.
DownForgets ==
  ~shared => \A c \in Clusters :
    told[c] = "down" => ProjectsNamed(c) = {} /\ \A k \in forge.clusters : k.name # c

\* With an MCP server that has all tools and answers, no step of a workspace removes
\* the cluster or a target of another one, in a project they share.
OthersKept ==
  [][faults' = 0 /\ catalogue = "full" =>
       \A c \in Clusters : proc'[c] = proc[c] =>
         /\ \A k \in forge.clusters : k.name = c => \E x \in forge'.clusters : x.id = k.id
         /\ \A t \in forge.targets : t.cluster # 0 /\ t.cluster = ws[c].link.clus => t \in forge'.targets]_vars
=============================================================================
