------------------------------ MODULE ForgeServer ------------------------------
(***************************************************************************)
(* What a BNK-Forge server keeps of the clusters registered with it, as the *)
(* calls of internal/forge see it: projects with unique names, clusters     *)
(* whose names are unique in their project, benchmark targets, and the      *)
(* agents of jumphosts.  A name stands for the name of a workspace's own    *)
(* project too.                                                             *)
(***************************************************************************)
EXTENDS Integers, FiniteSets, TLC

CONSTANTS Clusters,   \* workspaces, each with one EKS cluster of that name
          MaxFaults   \* bound: lost calls, outages, kills

\* "shared" stands for a project name of cluster.yaml that no workspace has.
ASSUME ForgeAssumption == MaxFaults \in Nat /\ "shared" \notin Clusters

VARIABLES
  forge,      \* the records of the server
  net,        \* "up" or "down": whether the server can be reached
  catalogue,  \* "full", or "gap" when the MCP server lacks the project and cluster tools
  faults

serverVars == <<forge, net, catalogue, faults>>

Ids == Nat \ {0}     \* the server does not use an id again
Target == "bnk-mcp"

Fault == faults < MaxFaults /\ faults' = faults + 1
NoFault == UNCHANGED faults

NoForge == [projects |-> {}, clusters |-> {}, targets |-> {}, agents |-> {}, next |-> 1]

ServerTypeOK ==
  /\ \A p \in forge.projects : p.id \in Ids /\ p.name \in Clusters \cup {"shared"}
  /\ \A k \in forge.clusters : k.id \in Ids /\ k.name \in Clusters /\ k.proj \in {p.id : p \in forge.projects}
  /\ \A t \in forge.targets : t.cluster \in {0} \cup {k.id : k \in forge.clusters}
  /\ net \in {"up", "down"} /\ catalogue \in {"full", "gap"} /\ faults \in 0 .. MaxFaults

ServerInit == forge = NoForge /\ net = "up" /\ catalogue \in {"full", "gap"} /\ faults = 0

ProjectsNamed(n) == {p \in forge.projects : p.name = n}
ClustersNamed(n, j) == {k \in forge.clusters : k.name = n /\ k.proj = j}
Only(s) == CHOOSE x \in s : TRUE

WithProject(n) ==
  [forge EXCEPT !.projects = @ \cup {[id |-> forge.next, name |-> n]}, !.next = @ + 1]
WithCluster(n, j, kube) ==
  [forge EXCEPT !.clusters = @ \cup {[id |-> forge.next, name |-> n, proj |-> j, kube |-> kube]}, !.next = @ + 1]
WithKubeconfig(k, kube) ==
  [forge EXCEPT !.clusters = {IF x.id = k THEN [x EXCEPT !.kube = kube] ELSE x : x \in @}]

\* A target outlives its cluster, without a cluster id.
WithoutClusters(gone) ==
  [forge EXCEPT !.clusters = {k \in @ : k.id \notin gone},
                !.targets = {IF t.cluster \in gone THEN [t EXCEPT !.cluster = 0] ELSE t : t \in @}]
WithoutProject(j) ==
  [WithoutClusters({k.id : k \in {x \in forge.clusters : x.proj = j}})
     EXCEPT !.projects = {p \in @ : p.id # j}]

\* The server is restarted, or the network to it fails.
Outage == net = "up" /\ net' = "down" /\ Fault /\ UNCHANGED <<forge, catalogue>>
Recovers == net = "down" /\ net' = "up" /\ NoFault /\ UNCHANGED <<forge, catalogue>>
=============================================================================
