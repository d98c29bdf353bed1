------------------------------- MODULE ForgeProof -------------------------------
(***************************************************************************)
(* Proofs about the registration with Forge: for any number of workspaces,  *)
(* commands and faults, what `up` and `down` promise of the server, and     *)
(* that a workspace's records are safe from the commands of the others.     *)
(*                                                                          *)
(* The argument: the first lemmas say what each step does (UpDoes,          *)
(* ProjectDoes, ClusterDoes, RecordsDo, ByNameDoes, DeletesDo, StartDoes).  *)
(* From that every step of a workspace is a Turn: what it adds to the       *)
(* server is new and its own, the ids it keeps are of clusters of its name  *)
(* and of a project it may use; so ids stay with their owners (Base).       *)
(* Where a workspace has a project of its own there is one project at most, *)
(* and how far a command has come says whether it is there and linked       *)
(* (Own, Ours).  Where a project is shared, what protects the others is     *)
(* that without faults no command takes a way back (Calm), and that the     *)
(* ways forward remove by an id or a name of their own (Gentle).            *)
(***************************************************************************)
EXTENDS ForgeProps, TLAPS

-----------------------------------------------------------------------------
(* Where a command is, and what there is.                                   *)

\* The points each command passes through; a `down` that keeps its link skips the deletions.
UpPoints == {"eks", "phase09", "mcpProject", "mcpFind", "mcpCluster", "rollback",
             "restProject", "restCluster", "writeLink", "pending", "later"}
RegisterPoints == {"verify", "mcpProject", "mcpFind", "mcpCluster", "rollback", "writeLink", "giveUp"}
KeptPoints == {"jumphost", "targets", "agents", "phase09Down", "eksDown"}
DownPoints == {"jumphost", "targets", "agents", "phase09Down", "eksDown",
               "byName", "byNameCluster", "byNameDelete", "mcpDelete", "mcpDeleteProject",
               "removeLink", "restDelete", "restDeleteProject", "forget"}
UnregisterPoints == {"mcpDelete", "mcpDeleteProject", "removeLink", "giveUp"}
CleanupPoints == {"targets", "agents", "cleaned"}
BenchPoints == {"agent", "target", "cleaned"}
Points == {"idle"} \cup UpPoints \cup RegisterPoints \cup DownPoints \cup UnregisterPoints \cup CleanupPoints \cup BenchPoints
Commands == {"none", "up", "register", "down", "downKept", "unregister", "purge", "cleanup", "benchmark"}
Told == {"none", "up", "late", "down", "warned", "ok", "failed", "killed"}

\* What the variables hold.  clus is -1 once the link is forgotten.
ProcT == [pc : Points, cmd : Commands, key : Nat, try : 1 .. 4, proj : Nat, clus : Int,
          made : BOOLEAN, fresh : BOOLEAN]
Links == [status : {"none", "pending", "registered"}, proj : Nat, clus : Nat]
Workspaces == [link : Links, key : Nat, kube : 0 .. MaxCmds, jh : 0 .. MaxCmds, trusted : BOOLEAN]
ProjectT == [id : Ids, name : Clusters \cup {"shared"}]
ClusterT == [id : Ids, name : Clusters, proj : Ids, kube : 0 .. MaxCmds]
TargetT == [name : Clusters \cup {Target}, cluster : Nat]
ForgeT == [projects : SUBSET ProjectT, clusters : SUBSET ClusterT, targets : SUBSET TargetT,
           agents : SUBSET (Clusters \X Nat), next : Ids]

Shapes ==
  /\ forge \in ForgeT
  /\ net \in {"up", "down"} /\ catalogue \in {"full", "gap"} /\ faults \in 0 .. MaxFaults
  /\ shared \in BOOLEAN /\ cmds \in 0 .. MaxCmds
  /\ ws \in [Clusters -> Workspaces] /\ proc \in [Clusters -> ProcT]
  /\ told \in [Clusters -> Told]

\* The points of each command.
Along(cmd, x) ==
  /\ cmd = "none" => x = "idle"
  /\ cmd = "up" => x \in UpPoints
  /\ cmd = "register" => x \in RegisterPoints
  /\ cmd = "down" => x \in DownPoints
  /\ cmd = "downKept" => x \in KeptPoints
  /\ cmd \in {"unregister", "purge"} => x \in UnregisterPoints
  /\ cmd = "cleanup" => x \in CleanupPoints
  /\ cmd = "benchmark" => x \in BenchPoints

\* What a command holds by the point it is at.
Flow(p) ==
  /\ Along(p.cmd, p.pc)
  /\ p.clus >= -1 /\ (p.clus = -1 => p.pc = "eksDown")
  /\ p.pc \in {"mcpCluster", "restCluster", "writeLink"} => p.proj # 0
  /\ p.pc = "writeLink" => p.clus > 0

Flows == \A c \in Clusters : Flow(proc[c])

\* Only(S) is one of S.
LEMMA OnlyIn == ASSUME NEW S, S # {} PROVE Only(S) \in S
  BY DEF Only

\* q is p but for where it is and what it has tried, made and heard.
Same(q, p) == q.pc = p.pc /\ q.cmd = p.cmd /\ q.key = p.key /\ q.try = p.try /\ q.proj = p.proj /\ q.clus = p.clus /\ q.made = p.made

\* A call of a command whose continuations are well formed: what changes, and that the answer
\* is either heard, at no fault, or missed.
LEMMA CallIs ==
  ASSUME Shapes, NEW c \in Clusters, NEW new, NEW then \in ProcT, NEW else \in ProcT, Call(c, new, then, else)
  PROVE  /\ UNCHANGED <<net, catalogue, ws, told, shared, cmds>>
         /\ proc' \in [Clusters -> ProcT] /\ faults' \in faults .. MaxFaults
         /\ \A d \in Clusters : d # c => proc'[d] = proc[d]
         /\ \/ proc'[c] = then /\ forge' = new /\ faults' = faults
            \/ Same(proc'[c], else) /\ proc'[c].fresh = FALSE /\ forge' \in {forge, new} /\ (faults' # 0 \/ net # "up")
<1>1. proc' = [proc EXCEPT ![c] = then] \/ proc' = [proc EXCEPT ![c] = [else EXCEPT !.fresh = FALSE]]
  BY DEF Call
<1>2. [else EXCEPT !.fresh = FALSE] \in ProcT /\ Same([else EXCEPT !.fresh = FALSE], else) /\ [else EXCEPT !.fresh = FALSE].fresh = FALSE
  BY DEF ProcT, Same
<1>3. proc' \in [Clusters -> ProcT] /\ \A d \in Clusters : d # c => proc'[d] = proc[d]
  BY <1>1, <1>2 DEF Shapes
<1>4. faults' \in faults .. MaxFaults
  BY ForgeAssumption DEF Call, Fault, NoFault, Shapes
<1>5. UNCHANGED <<net, catalogue, ws, told, shared, cmds>>
  BY DEF Call
<1>6. CASE faults' = faults /\ forge' = new /\ proc' = [proc EXCEPT ![c] = then]
  <2>1. proc'[c] = then
    BY <1>6 DEF Shapes
  <2> QED BY <1>3, <1>4, <1>5, <1>6, <2>1
<1>7. CASE /\ proc' = [proc EXCEPT ![c] = [else EXCEPT !.fresh = FALSE]] /\ forge' \in {forge, new}
           /\ (faults' = faults + 1 \/ net # "up")
  <2>1. proc'[c] = [else EXCEPT !.fresh = FALSE]
    BY <1>7 DEF Shapes
  <2>2. faults' # 0 \/ net # "up"
    BY <1>7 DEF Shapes
  <2> QED BY <1>2, <1>3, <1>4, <1>5, <1>7, <2>1, <2>2
<1>8. net = "down" => net # "up"
  OBVIOUS
<1> QED BY <1>6, <1>7, <1>8 DEF Call, Fault, NoFault

\* Another point, everything else the same.
LEMMA ToIs ==
  ASSUME Shapes, NEW c \in Clusters, NEW x \in Points
  PROVE  /\ To(c, x) \in ProcT /\ To(c, x).pc = x /\ To(c, x).cmd = proc[c].cmd /\ To(c, x).key = proc[c].key
         /\ To(c, x).try = proc[c].try /\ To(c, x).proj = proc[c].proj /\ To(c, x).clus = proc[c].clus
         /\ To(c, x).made = proc[c].made /\ To(c, x).fresh = proc[c].fresh
  BY DEF To, Shapes, ProcT

\* Another point, with a project in hand.
LEMMA UseProjectIs ==
  ASSUME Shapes, NEW c \in Clusters, NEW x \in Points, NEW j \in Nat, NEW b \in BOOLEAN
  PROVE  LET q == UseProject(c, j, x, b) IN
         /\ q \in ProcT /\ q.pc = x /\ q.cmd = proc[c].cmd /\ q.key = proc[c].key
         /\ q.try = proc[c].try /\ q.proj = j /\ q.clus = proc[c].clus
         /\ q.made = b /\ q.fresh = proc[c].fresh
<1> DEFINE Q(p) == [p EXCEPT !.proj = j, !.made = b]
<1>1. \A p \in ProcT :
        /\ Q(p) \in ProcT /\ Q(p).pc = p.pc /\ Q(p).cmd = p.cmd /\ Q(p).key = p.key
        /\ Q(p).try = p.try /\ Q(p).proj = j /\ Q(p).clus = p.clus /\ Q(p).made = b /\ Q(p).fresh = p.fresh
  BY DEF ProcT
<1>2. UseProject(c, j, x, b) = Q(To(c, x))
  BY DEF UseProject
<1> HIDE DEF Q
<1> QED BY <1>1, <1>2, ToIs

\* After a failed try: another one or a pending link in `up`, the end in the other commands.
LEMMA RetryIs ==
  ASSUME Shapes, NEW c \in Clusters
  PROVE  LET q == Retry(c) IN
         /\ q \in ProcT /\ q.cmd = proc[c].cmd /\ q.key = proc[c].key
         /\ q.proj = proc[c].proj /\ q.clus = proc[c].clus /\ q.made = proc[c].made /\ q.fresh = proc[c].fresh
         /\ proc[c].cmd # "up" => q.pc = "giveUp" /\ q.try = proc[c].try
         /\ proc[c].cmd = "up" => q.pc \in {"mcpProject", "pending"}
<1>1. "mcpProject" \in Points /\ "pending" \in Points /\ "giveUp" \in Points
  BY DEF Points, UpPoints, RegisterPoints
<1>2. proc[c].try \in 1 .. 4
  BY DEF Shapes, ProcT
<1>3. ASSUME proc[c].cmd = "up", proc[c].try # 4
      PROVE  /\ Retry(c) = [To(c, "mcpProject") EXCEPT !.try = To(c, "mcpProject").try + 1]
             /\ To(c, "mcpProject").try + 1 \in 1 .. 4
  BY <1>1, <1>2, <1>3, ToIs DEF Retry
<1> QED BY <1>1, <1>2, <1>3, ToIs DEF Retry, ProcT

\* The way on to the REST API, which only `up` has.
LEMMA RestOrIs ==
  ASSUME Shapes, NEW c \in Clusters
  PROVE  LET q == RestOr(c) IN
         /\ q \in ProcT /\ q.cmd = proc[c].cmd /\ q.key = proc[c].key /\ q.try = proc[c].try
         /\ q.proj = proc[c].proj /\ q.clus = proc[c].clus /\ q.made = proc[c].made /\ q.fresh = proc[c].fresh
         /\ q.pc = IF proc[c].cmd = "up" THEN "restProject" ELSE "giveUp"
  BY ToIs DEF RestOr, Points, UpPoints, RegisterPoints

\* The way on to the REST API of the deletions, which only `down` has.
LEMMA FallbackIs ==
  ASSUME Shapes, NEW c \in Clusters
  PROVE  LET q == Fallback(c) IN
         /\ q \in ProcT /\ q.cmd = proc[c].cmd /\ q.key = proc[c].key /\ q.try = proc[c].try
         /\ q.proj = proc[c].proj /\ q.clus = proc[c].clus /\ q.made = proc[c].made /\ q.fresh = proc[c].fresh
         /\ q.pc = IF proc[c].cmd = "down" THEN "restDelete" ELSE "giveUp"
  BY ToIs DEF Fallback, Points, DownPoints, UnregisterPoints

\* A step to another point changes the process of its workspace only.
LEMMA GoesIs ==
  ASSUME Shapes, NEW c \in Clusters, NEW q \in ProcT, Goes(c, q)
  PROVE  /\ UNCHANGED <<forge, net, catalogue, faults, told, shared, cmds>>
         /\ proc' \in [Clusters -> ProcT] /\ proc'[c] = q
         /\ \A d \in Clusters : d # c => proc'[d] = proc[d]
  BY DEF Goes, Local, serverVars, Shapes

\* No command.
LEMMA IdleIs ==
  Idle \in ProcT /\ Idle.pc = "idle" /\ Idle.cmd = "none" /\ Idle.key = 0 /\ Idle.try = 1 /\ Idle.proj = 0 /\ Idle.clus = 0
  BY DEF Idle, ProcT, Points, Commands

\* The end of a command changes its workspace's process and report only.
LEMMA StopIs ==
  ASSUME Shapes, NEW c \in Clusters, NEW r \in Told, Stop(c, r)
  PROVE  /\ UNCHANGED <<forge, net, catalogue, faults, shared, cmds>>
         /\ proc' \in [Clusters -> ProcT] /\ proc'[c] = Idle
         /\ \A d \in Clusters : d # c => proc'[d] = proc[d]
         /\ told' \in [Clusters -> Told] /\ told'[c] = r
         /\ \A d \in Clusters : d # c => told'[d] = told[d]
  BY IdleIs DEF Stop, Local, serverVars, Shapes

\* The start of a command.
LEMMA BeginIs ==
  ASSUME Shapes, NEW c \in Clusters, NEW n \in Commands, NEW p \in Points, Begin(c, n, p)
  PROVE  /\ UNCHANGED <<forge, net, catalogue, faults, shared>>
         /\ proc[c].pc = "idle" /\ cmds' \in 0 .. MaxCmds
         /\ shared \/ c = Only(Clusters)
         /\ proc' \in [Clusters -> ProcT]
         /\ LET q == proc'[c] IN
              q.pc = p /\ q.cmd = n /\ q.key = ws[c].key /\ q.try = 1 /\ q.proj = 0 /\ q.clus = 0
         /\ \A d \in Clusters : d # c => proc'[d] = proc[d]
         /\ told' \in [Clusters -> Told] /\ told'[c] = "none"
         /\ \A d \in Clusters : d # c => told'[d] = told[d]
<1> DEFINE Q(i, k) == [i EXCEPT !.pc = p, !.cmd = n, !.key = k]
<1>a. \A i \in ProcT : \A k \in Nat :
        /\ Q(i, k) \in ProcT /\ Q(i, k).pc = p /\ Q(i, k).cmd = n /\ Q(i, k).key = k
        /\ Q(i, k).try = i.try /\ Q(i, k).proj = i.proj /\ Q(i, k).clus = i.clus
  BY DEF ProcT
<1>b. ws[c].key \in Nat
  BY DEF Shapes, Workspaces
<1>1. LET q == Q(Idle, ws[c].key) IN
        q \in ProcT /\ q.pc = p /\ q.cmd = n /\ q.key = ws[c].key /\ q.try = 1 /\ q.proj = 0 /\ q.clus = 0
  BY <1>a, <1>b, IdleIs
<1>2. cmds' \in 0 .. MaxCmds
  BY ForgeCmdsAssumption DEF Begin, Shapes
<1>3. proc' = [proc EXCEPT ![c] = Q(Idle, ws[c].key)]
  BY DEF Begin
<1> HIDE DEF Q
<1>4. proc' \in [Clusters -> ProcT] /\ (\A d \in Clusters : d # c => proc'[d] = proc[d])
      /\ proc'[c] = Q(Idle, ws[c].key)
  BY <1>1, <1>3 DEF Shapes
<1>5. told' \in [Clusters -> Told] /\ told'[c] = "none" /\ (\A d \in Clusters : d # c => told'[d] = told[d])
  BY DEF Begin, Shapes, Told
<1> QED BY <1>1, <1>2, <1>4, <1>5 DEF Begin, serverVars

-----------------------------------------------------------------------------
(* What the server has after a call.                                        *)

\* A project added to the server.
LEMMA WithProjectIs ==
  ASSUME Shapes, NEW n \in Clusters \cup {"shared"}
  PROVE  LET f == WithProject(n) IN
         /\ f \in ForgeT
         /\ f.projects = forge.projects \cup {[id |-> forge.next, name |-> n]}
         /\ f.clusters = forge.clusters /\ f.targets = forge.targets /\ f.next = forge.next + 1
<1>1. [id |-> forge.next, name |-> n] \in ProjectT
  BY DEF Shapes, ForgeT, ProjectT
<1>2. forge.next + 1 \in Ids
  BY DEF Shapes, ForgeT, Ids
<1> HIDE DEF ProjectT
<1> QED BY <1>1, <1>2 DEF Shapes, ForgeT, WithProject

\* A cluster added to the server.
LEMMA WithClusterIs ==
  ASSUME Shapes, NEW n \in Clusters, NEW j \in Ids, NEW kube \in 0 .. MaxCmds
  PROVE  LET f == WithCluster(n, j, kube) IN
         /\ f \in ForgeT
         /\ f.clusters = forge.clusters \cup {[id |-> forge.next, name |-> n, proj |-> j, kube |-> kube]}
         /\ f.projects = forge.projects /\ f.targets = forge.targets /\ f.next = forge.next + 1
<1>1. [id |-> forge.next, name |-> n, proj |-> j, kube |-> kube] \in ClusterT
  BY DEF Shapes, ForgeT, ClusterT
<1>2. forge.next + 1 \in Ids
  BY DEF Shapes, ForgeT, Ids
<1> QED BY <1>1, <1>2 DEF Shapes, ForgeT, WithCluster

\* A cluster's kubeconfig replaced: the same clusters otherwise.
LEMMA WithKubeconfigIs ==
  ASSUME Shapes, NEW i \in Ids, NEW kube \in 0 .. MaxCmds
  PROVE  LET f == WithKubeconfig(i, kube) IN
         /\ f \in ForgeT
         /\ f.projects = forge.projects /\ f.targets = forge.targets /\ f.next = forge.next
         /\ \A k \in f.clusters : k.id = i => k.kube = kube
         /\ \A k \in f.clusters : \E x \in forge.clusters : k.id = x.id /\ k.name = x.name /\ k.proj = x.proj
         /\ \A x \in forge.clusters : \E k \in f.clusters :
              k.id = x.id /\ k.name = x.name /\ k.proj = x.proj /\ k.kube = IF x.id = i THEN kube ELSE x.kube
<1> DEFINE New(x) == IF x.id = i THEN [x EXCEPT !.kube = kube] ELSE x
<1>1. \A x \in ClusterT : /\ New(x) \in ClusterT
                          /\ New(x).id = x.id /\ New(x).name = x.name /\ New(x).proj = x.proj
                          /\ New(x).kube = IF x.id = i THEN kube ELSE x.kube
  BY DEF ClusterT
<1>2. forge.clusters \subseteq ClusterT
  BY DEF Shapes, ForgeT
<1>3. /\ WithKubeconfig(i, kube) = [forge EXCEPT !.clusters = {New(x) : x \in forge.clusters}]
      /\ WithKubeconfig(i, kube).clusters = {New(x) : x \in forge.clusters}
  BY DEF Shapes, ForgeT, WithKubeconfig
<1>4. {New(x) : x \in forge.clusters} \in SUBSET ClusterT
  BY <1>1, <1>2
<1>5. /\ WithKubeconfig(i, kube) \in ForgeT /\ WithKubeconfig(i, kube).projects = forge.projects
      /\ WithKubeconfig(i, kube).targets = forge.targets /\ WithKubeconfig(i, kube).next = forge.next
  BY <1>3, <1>4 DEF Shapes, ForgeT
<1> HIDE DEF New
<1> QED BY <1>1, <1>2, <1>3, <1>5

\* Clusters removed: their targets stay, without a cluster.
LEMMA WithoutClustersIs ==
  ASSUME Shapes, NEW gone
  PROVE  LET f == WithoutClusters(gone) IN
         /\ f \in ForgeT
         /\ f.projects = forge.projects /\ f.next = forge.next
         /\ f.clusters = {k \in forge.clusters : k.id \notin gone}
         /\ \A t \in f.targets : t.cluster = 0 \/ (t \in forge.targets /\ t.cluster \notin gone)
         /\ \A t \in forge.targets : t.cluster \notin gone => t \in f.targets
<1> DEFINE New(t) == IF t.cluster \in gone THEN [t EXCEPT !.cluster = 0] ELSE t
<1>1. \A t \in TargetT : /\ New(t) \in TargetT
                         /\ t.cluster \in gone => New(t).cluster = 0
                         /\ t.cluster \notin gone => New(t) = t
  BY DEF TargetT
<1>2. forge.targets \subseteq TargetT
  BY DEF Shapes, ForgeT
<1>3. /\ WithoutClusters(gone).targets = {New(t) : t \in forge.targets}
      /\ WithoutClusters(gone) = [forge EXCEPT !.clusters = {k \in forge.clusters : k.id \notin gone},
                                               !.targets = {New(t) : t \in forge.targets}]
  BY DEF Shapes, ForgeT, WithoutClusters
<1>4. {New(t) : t \in forge.targets} \in SUBSET TargetT
  BY <1>1, <1>2
<1> HIDE DEF New
<1>5. /\ WithoutClusters(gone) \in ForgeT /\ WithoutClusters(gone).projects = forge.projects
      /\ WithoutClusters(gone).next = forge.next
      /\ WithoutClusters(gone).clusters = {k \in forge.clusters : k.id \notin gone}
  BY <1>3, <1>4 DEF Shapes, ForgeT
<1> QED BY <1>1, <1>2, <1>3, <1>5

\* A project removed, with the clusters in it.
LEMMA WithoutProjectIs ==
  ASSUME Shapes, NEW j
  PROVE  LET f == WithoutProject(j) IN
         /\ f \in ForgeT
         /\ f.projects = {p \in forge.projects : p.id # j} /\ f.next = forge.next
         /\ f.clusters = {k \in forge.clusters : \A x \in forge.clusters : x.proj = j => x.id # k.id}
         /\ \A t \in f.targets : t.cluster = 0 \/ (t \in forge.targets /\ \A x \in forge.clusters : x.proj = j => x.id # t.cluster)
         /\ \A t \in forge.targets : (\A x \in forge.clusters : x.proj = j => x.id # t.cluster) => t \in f.targets
<1> DEFINE Gone == {k.id : k \in {x \in forge.clusters : x.proj = j}}
           g == WithoutClusters(Gone)
<1>1. /\ g \in ForgeT
      /\ g.projects = forge.projects /\ g.next = forge.next
      /\ g.clusters = {k \in forge.clusters : k.id \notin Gone}
      /\ \A t \in g.targets : t.cluster = 0 \/ (t \in forge.targets /\ t.cluster \notin Gone)
      /\ \A t \in forge.targets : t.cluster \notin Gone => t \in g.targets
  BY WithoutClustersIs
<1>2. WithoutProject(j) = [g EXCEPT !.projects = {p \in g.projects : p.id # j}]
  BY DEF WithoutProject
<1>3. \A i : i \in Gone <=> \E x \in forge.clusters : x.proj = j /\ x.id = i
  OBVIOUS
<1> HIDE DEF Gone, g
<1>4. LET f == WithoutProject(j) IN
      /\ f \in ForgeT
      /\ f.projects = {p \in forge.projects : p.id # j} /\ f.next = forge.next
      /\ f.clusters = g.clusters /\ f.targets = g.targets
  BY <1>1, <1>2 DEF ForgeT
<1> QED BY <1>1, <1>3, <1>4

\* Only the targets replaced.
LEMMA TargetsIs ==
  ASSUME Shapes, NEW T \in SUBSET TargetT
  PROVE  LET f == [forge EXCEPT !.targets = T] IN
         /\ f \in ForgeT /\ f.targets = T
         /\ f.projects = forge.projects /\ f.clusters = forge.clusters /\ f.next = forge.next
  BY DEF Shapes, ForgeT

\* Only the agents replaced.
LEMMA AgentsIs ==
  ASSUME Shapes, NEW A \in SUBSET (Clusters \X Nat)
  PROVE  LET f == [forge EXCEPT !.agents = A] IN
         /\ f \in ForgeT /\ f.targets = forge.targets
         /\ f.projects = forge.projects /\ f.clusters = forge.clusters /\ f.next = forge.next
  BY DEF Shapes, ForgeT

-----------------------------------------------------------------------------
(* A step in terms of the point a command comes to and what it takes along. *)

\* The other workspaces' commands stay where they are; a call changes the server, the faults
\* and its own command.
Others(c) == \A d \in Clusters : d # c => proc'[d] = proc[d]
Quiet(c) ==
  /\ UNCHANGED <<net, catalogue, ws, told, shared, cmds>>
  /\ proc' \in [Clusters -> ProcT] /\ faults' \in faults .. MaxFaults /\ Others(c)

\* q is p at another point: with the same project and cluster in hand, with another project, after
\* a failed try.
Comes(q, p, x) ==
  q.pc = x /\ q.cmd = p.cmd /\ q.key = p.key /\ q.try = p.try /\ q.proj = p.proj /\ q.clus = p.clus
Uses(q, p, x, j) ==
  q.pc = x /\ q.cmd = p.cmd /\ q.key = p.key /\ q.try = p.try /\ q.proj = j /\ q.clus = p.clus
Retries(q, p) ==
  /\ q.cmd = p.cmd /\ q.key = p.key /\ q.proj = p.proj /\ q.clus = p.clus
  /\ q.pc \in IF p.cmd = "up" THEN {"mcpProject", "pending"} ELSE {"giveUp"}

\* A call that was answered, and one that was not: carried out or not, at a fault or an outage.
Answered(c, new) == forge' = new /\ faults' = faults /\ proc'[c].fresh = proc[c].fresh
Lost(c, new) == forge' \in {forge, new} /\ (faults' # 0 \/ net # "up") /\ proc'[c].fresh = FALSE

\* A call between two points of a command.
LEMMA CallTo ==
  ASSUME Shapes, NEW c \in Clusters, NEW new, NEW x \in Points, NEW y \in Points,
         Call(c, new, To(c, x), To(c, y))
  PROVE  /\ Quiet(c)
         /\ \/ Comes(proc'[c], proc[c], x) /\ Answered(c, new)
            \/ Comes(proc'[c], proc[c], y) /\ Lost(c, new)
<1>1. To(c, x) \in ProcT /\ To(c, y) \in ProcT
  BY ToIs
<1>2. Quiet(c)
  BY <1>1, CallIs DEF Quiet, Others
<1>3. \/ proc'[c] = To(c, x) /\ forge' = new /\ faults' = faults
      \/ Same(proc'[c], To(c, y)) /\ Lost(c, new)
  BY <1>1, CallIs DEF Lost
<1>4. Comes(To(c, x), proc[c], x) /\ To(c, x).fresh = proc[c].fresh /\ Comes(To(c, y), proc[c], y)
  BY ToIs DEF Comes
<1>5. Same(proc'[c], To(c, y)) => Comes(proc'[c], proc[c], y)
  BY <1>4 DEF Same, Comes
<1> QED BY <1>2, <1>3, <1>4, <1>5 DEF Answered

\* A step without a call; the end of a command; a workspace rewritten.
Walks(c, x) ==
  /\ UNCHANGED <<forge, net, catalogue, faults, told, shared, cmds>>
  /\ proc' \in [Clusters -> ProcT] /\ Others(c)
  /\ Comes(proc'[c], proc[c], x) /\ proc'[c].fresh = proc[c].fresh

Stops(c, r) ==
  /\ UNCHANGED <<forge, net, catalogue, faults, shared, cmds>>
  /\ proc' \in [Clusters -> ProcT] /\ proc'[c] = Idle /\ Others(c)
  /\ told' \in [Clusters -> Told] /\ told'[c] = r
  /\ \A d \in Clusters : d # c => told'[d] = told[d]

Sets(c, link, key, kube, jh, trusted) ==
  /\ ws' \in [Clusters -> Workspaces] /\ \A d \in Clusters : d # c => ws'[d] = ws[d]
  /\ ws'[c].link = link /\ ws'[c].key = key /\ ws'[c].kube = kube /\ ws'[c].jh = jh
  /\ ws'[c].trusted = trusted

\* A step without a call, in these terms.
LEMMA GoesTo ==
  ASSUME Shapes, NEW c \in Clusters, NEW x \in Points, Goes(c, To(c, x))
  PROVE  Walks(c, x)
  BY GoesIs, ToIs DEF Walks, Others, Comes

\* The end of a command, in these terms.
LEMMA StopsAt ==
  ASSUME Shapes, NEW c \in Clusters, NEW r \in Told, Stop(c, r)
  PROVE  Stops(c, r)
  BY StopIs DEF Stops, Others

\* One field of a workspace at a time.
LEMMA FieldIs ==
  ASSUME NEW v \in [Clusters -> Workspaces], NEW c \in Clusters
  PROVE  /\ \A l \in Links : LET w == [v EXCEPT ![c].link = l] IN
              /\ w \in [Clusters -> Workspaces] /\ \A d \in Clusters : d # c => w[d] = v[d]
              /\ w[c].link = l /\ w[c].key = v[c].key /\ w[c].kube = v[c].kube /\ w[c].jh = v[c].jh
              /\ w[c].trusted = v[c].trusted
         /\ \A k \in Nat : LET w == [v EXCEPT ![c].key = k] IN
              /\ w \in [Clusters -> Workspaces] /\ \A d \in Clusters : d # c => w[d] = v[d]
              /\ w[c].link = v[c].link /\ w[c].key = k /\ w[c].kube = v[c].kube /\ w[c].jh = v[c].jh
              /\ w[c].trusted = v[c].trusted
         /\ \A k \in 0 .. MaxCmds : LET w == [v EXCEPT ![c].kube = k] IN
              /\ w \in [Clusters -> Workspaces] /\ \A d \in Clusters : d # c => w[d] = v[d]
              /\ w[c].link = v[c].link /\ w[c].key = v[c].key /\ w[c].kube = k /\ w[c].jh = v[c].jh
              /\ w[c].trusted = v[c].trusted
         /\ \A k \in 0 .. MaxCmds : LET w == [v EXCEPT ![c].jh = k] IN
              /\ w \in [Clusters -> Workspaces] /\ \A d \in Clusters : d # c => w[d] = v[d]
              /\ w[c].link = v[c].link /\ w[c].key = v[c].key /\ w[c].kube = v[c].kube /\ w[c].jh = k
              /\ w[c].trusted = v[c].trusted
         /\ \A b \in BOOLEAN : LET w == [v EXCEPT ![c].trusted = b] IN
              /\ w \in [Clusters -> Workspaces] /\ \A d \in Clusters : d # c => w[d] = v[d]
              /\ w[c].link = v[c].link /\ w[c].key = v[c].key /\ w[c].kube = v[c].kube /\ w[c].jh = v[c].jh
              /\ w[c].trusted = b
  BY DEF Workspaces

\* The ways a workspace is rewritten.
LEMMA SetsIs ==
  ASSUME Shapes, NEW c \in Clusters
  PROVE  /\ ws' = [ws EXCEPT ![c].kube = cmds, ![c].jh = cmds]
              => Sets(c, ws[c].link, ws[c].key, cmds, cmds, ws[c].trusted)
         /\ \A l \in Links : \A b \in BOOLEAN : ws' = [ws EXCEPT ![c].link = l, ![c].trusted = b]
              => Sets(c, l, ws[c].key, ws[c].kube, ws[c].jh, b)
         /\ \A l \in Links : ws' = [ws EXCEPT ![c].link = l]
              => Sets(c, l, ws[c].key, ws[c].kube, ws[c].jh, ws[c].trusted)
         /\ \A k \in Nat : ws' = [ws EXCEPT ![c].key = k]
              => Sets(c, ws[c].link, k, ws[c].kube, ws[c].jh, ws[c].trusted)
         /\ ws' = [ws EXCEPT ![c].jh = 0]
              => Sets(c, ws[c].link, ws[c].key, ws[c].kube, 0, ws[c].trusted)
         /\ \A b \in BOOLEAN : ws' = [ws EXCEPT ![c].trusted = b]
              => Sets(c, ws[c].link, ws[c].key, ws[c].kube, ws[c].jh, b)
         /\ \A l \in Links : \A b \in BOOLEAN : ws' = [ws EXCEPT ![c].link = l, ![c].key = 0, ![c].trusted = b]
              => Sets(c, l, 0, ws[c].kube, ws[c].jh, b)
         /\ ws' = [ws EXCEPT ![c].kube = 0]
              => Sets(c, ws[c].link, ws[c].key, 0, ws[c].jh, ws[c].trusted)
<1>0. ws \in [Clusters -> Workspaces] /\ cmds \in 0 .. MaxCmds /\ 0 \in 0 .. MaxCmds /\ 0 \in Nat
  BY ForgeCmdsAssumption DEF Shapes
<1> HIDE DEF Workspaces
<1>1. ws' = [ws EXCEPT ![c].kube = cmds, ![c].jh = cmds] => Sets(c, ws[c].link, ws[c].key, cmds, cmds, ws[c].trusted)
  <2> DEFINE v == [ws EXCEPT ![c].kube = cmds]
  <2>1. /\ v \in [Clusters -> Workspaces] /\ \A d \in Clusters : d # c => v[d] = ws[d]
        /\ v[c].link = ws[c].link /\ v[c].key = ws[c].key /\ v[c].kube = cmds /\ v[c].trusted = ws[c].trusted
    BY <1>0, FieldIs
  <2>2. [ws EXCEPT ![c].kube = cmds, ![c].jh = cmds] = [v EXCEPT ![c].jh = cmds]
    OBVIOUS
  <2> HIDE DEF v
  <2> QED BY <1>0, <2>1, <2>2, FieldIs DEF Sets
<1>2. \A l \in Links : \A b \in BOOLEAN : ws' = [ws EXCEPT ![c].link = l, ![c].trusted = b]
              => Sets(c, l, ws[c].key, ws[c].kube, ws[c].jh, b)
  <2> TAKE l \in Links, b \in BOOLEAN
  <2> DEFINE v == [ws EXCEPT ![c].link = l]
  <2>1. /\ v \in [Clusters -> Workspaces] /\ \A d \in Clusters : d # c => v[d] = ws[d]
        /\ v[c].link = l /\ v[c].key = ws[c].key /\ v[c].kube = ws[c].kube /\ v[c].jh = ws[c].jh
    BY <1>0, FieldIs
  <2>2. [ws EXCEPT ![c].link = l, ![c].trusted = b] = [v EXCEPT ![c].trusted = b]
    OBVIOUS
  <2> HIDE DEF v
  <2> QED BY <1>0, <2>1, <2>2, FieldIs DEF Sets
<1>7. \A l \in Links : \A b \in BOOLEAN : ws' = [ws EXCEPT ![c].link = l, ![c].key = 0, ![c].trusted = b]
              => Sets(c, l, 0, ws[c].kube, ws[c].jh, b)
  <2> TAKE l \in Links, b \in BOOLEAN
  <2> DEFINE u == [ws EXCEPT ![c].link = l]
             v == [u EXCEPT ![c].key = 0]
  <2>1. /\ u \in [Clusters -> Workspaces] /\ \A d \in Clusters : d # c => u[d] = ws[d]
        /\ u[c].link = l /\ u[c].kube = ws[c].kube /\ u[c].jh = ws[c].jh
    BY <1>0, FieldIs
  <2>2. [ws EXCEPT ![c].link = l, ![c].key = 0, ![c].trusted = b] = [v EXCEPT ![c].trusted = b]
    OBVIOUS
  <2> HIDE DEF u
  <2>3. /\ v \in [Clusters -> Workspaces] /\ \A d \in Clusters : d # c => v[d] = ws[d]
        /\ v[c].link = l /\ v[c].key = 0 /\ v[c].kube = ws[c].kube /\ v[c].jh = ws[c].jh
    BY <1>0, <2>1, FieldIs
  <2> HIDE DEF v
  <2> QED BY <1>0, <2>2, <2>3, FieldIs DEF Sets
<1>3. \A l \in Links : ws' = [ws EXCEPT ![c].link = l]
              => Sets(c, l, ws[c].key, ws[c].kube, ws[c].jh, ws[c].trusted)
  BY <1>0, FieldIs DEF Sets
<1>4. \A k \in Nat : ws' = [ws EXCEPT ![c].key = k]
              => Sets(c, ws[c].link, k, ws[c].kube, ws[c].jh, ws[c].trusted)
  BY <1>0, FieldIs DEF Sets
<1>5. ws' = [ws EXCEPT ![c].jh = 0]
              => Sets(c, ws[c].link, ws[c].key, ws[c].kube, 0, ws[c].trusted)
  BY <1>0, FieldIs DEF Sets
<1>6. \A b \in BOOLEAN : ws' = [ws EXCEPT ![c].trusted = b]
              => Sets(c, ws[c].link, ws[c].key, ws[c].kube, ws[c].jh, b)
  BY <1>0, FieldIs DEF Sets
<1>8. ws' = [ws EXCEPT ![c].kube = 0]
              => Sets(c, ws[c].link, ws[c].key, 0, ws[c].jh, ws[c].trusted)
  BY <1>0, FieldIs DEF Sets
<1> QED BY <1>1, <1>2, <1>3, <1>4, <1>5, <1>6, <1>7, <1>8

-----------------------------------------------------------------------------
(* What each step does, in these terms.                                     *)

\* The key in hand replaced: an `up` that finds its link takes the id from it.
Keyed(q, p, x, k) ==
  q.pc = x /\ q.cmd = p.cmd /\ q.key = k /\ q.try = p.try /\ q.proj = p.proj /\ q.clus = p.clus

\* `up` and `register` outside their calls.
LEMMA UpDoes ==
  ASSUME Shapes, NEW c \in Clusters
  PROVE  /\ EksCluster(c) =>
              /\ proc[c].pc = "eks" /\ Walks(c, "phase09")
              /\ \/ ws[c].kube # 0 /\ UNCHANGED ws
                 \/ ws[c].kube = 0 /\ Sets(c, ws[c].link, ws[c].key, cmds, cmds, ws[c].trusted)
         /\ Phase09(c) =>
              /\ proc[c].pc = "phase09" /\ UNCHANGED ws
              /\ \/ ~IsRegistered(ws[c].link) /\ Walks(c, "mcpProject")
                 \/ /\ IsRegistered(ws[c].link)
                    /\ UNCHANGED <<forge, net, catalogue, faults, told, shared, cmds>>
                    /\ proc' \in [Clusters -> ProcT] /\ Others(c) /\ proc'[c].fresh = proc[c].fresh
                    /\ Keyed(proc'[c], proc[c], "later", ws[c].link.clus)
         /\ Verify(c) =>
              /\ proc[c].pc = "verify" /\ UNCHANGED ws
              /\ \/ ~IsRegistered(ws[c].link) /\ Walks(c, "mcpProject")
                 \/ Stops(c, "ok") \/ Stops(c, "failed")
         /\ GiveUp(c) => proc[c].pc = "giveUp" /\ UNCHANGED ws /\ Stops(c, "failed")
         /\ WritePending(c) =>
              /\ proc[c].pc = "pending" /\ Walks(c, "later")
              /\ Sets(c, Pending, ws[c].key, ws[c].kube, ws[c].jh, ws[c].trusted)
         /\ Later(c) =>
              /\ proc[c].pc = "later" /\ Sets(c, ws[c].link, proc[c].key, ws[c].kube, ws[c].jh, ws[c].trusted)
              /\ \/ Stops(c, "up") /\ proc[c].fresh = TRUE
                 \/ Stops(c, "late")
<1>0. /\ "phase09" \in Points /\ "mcpProject" \in Points /\ "later" \in Points
      /\ "ok" \in Told /\ "failed" \in Told /\ "up" \in Told /\ "late" \in Told
  BY DEF Points, UpPoints, Told
<1>1. EksCluster(c) =>
              /\ proc[c].pc = "eks" /\ Walks(c, "phase09")
              /\ \/ ws[c].kube # 0 /\ UNCHANGED ws
                 \/ ws[c].kube = 0 /\ Sets(c, ws[c].link, ws[c].key, cmds, cmds, ws[c].trusted)
  BY <1>0, GoesTo, SetsIs DEF EksCluster, At
<1>2. ASSUME Phase09(c), IsRegistered(ws[c].link)
      PROVE  /\ UNCHANGED <<forge, net, catalogue, faults, told, shared, cmds>>
             /\ proc' \in [Clusters -> ProcT] /\ Others(c) /\ proc'[c].fresh = proc[c].fresh
             /\ Keyed(proc'[c], proc[c], "later", ws[c].link.clus)
  <2> DEFINE Q(p, k) == [p EXCEPT !.key = k]
  <2>1. \A p \in ProcT : \A k \in Nat : /\ Q(p, k) \in ProcT /\ Q(p, k).fresh = p.fresh
                                        /\ Keyed(Q(p, k), p, p.pc, k)
    BY DEF ProcT, Keyed
  <2>2. ws[c].link.clus \in Nat
    BY DEF Shapes, Workspaces, Links
  <2> DEFINE t == To(c, "later")
  <2>3. Goes(c, Q(t, ws[c].link.clus))
    BY <1>2 DEF Phase09
  <2>4. /\ t \in ProcT /\ t.pc = "later" /\ t.fresh = proc[c].fresh /\ t.cmd = proc[c].cmd
        /\ t.try = proc[c].try /\ t.proj = proc[c].proj /\ t.clus = proc[c].clus
    BY <1>0, ToIs
  <2> HIDE DEF Q, t
  <2>5. /\ Q(t, ws[c].link.clus) \in ProcT /\ Q(t, ws[c].link.clus).fresh = t.fresh
        /\ Keyed(Q(t, ws[c].link.clus), t, t.pc, ws[c].link.clus)
    BY <2>1, <2>2, <2>4
  <2>6. Keyed(Q(t, ws[c].link.clus), proc[c], "later", ws[c].link.clus)
    BY <2>4, <2>5 DEF Keyed
  <2> QED BY <2>3, <2>4, <2>5, <2>6, GoesIs DEF Others
<1>3. Phase09(c) => /\ proc[c].pc = "phase09" /\ UNCHANGED ws
                    /\ IsRegistered(ws[c].link) \/ Walks(c, "mcpProject")
  BY <1>0, GoesTo DEF Phase09, At
<1>4. Verify(c) =>
              /\ proc[c].pc = "verify" /\ UNCHANGED ws
              /\ \/ ~IsRegistered(ws[c].link) /\ Walks(c, "mcpProject")
                 \/ Stops(c, "ok") \/ Stops(c, "failed")
  BY <1>0, GoesTo, StopsAt DEF Verify, At
<1>5. GiveUp(c) => proc[c].pc = "giveUp" /\ UNCHANGED ws /\ Stops(c, "failed")
  BY <1>0, StopsAt DEF GiveUp, At
<1>6. Pending \in Links
  BY DEF Pending, NoLink, Links
<1>7. WritePending(c) =>
              /\ proc[c].pc = "pending" /\ Walks(c, "later")
              /\ Sets(c, Pending, ws[c].key, ws[c].kube, ws[c].jh, ws[c].trusted)
  BY <1>0, <1>6, GoesTo, SetsIs DEF WritePending, At
<1>8. Later(c) =>
              /\ proc[c].pc = "later" /\ Sets(c, ws[c].link, proc[c].key, ws[c].kube, ws[c].jh, ws[c].trusted)
              /\ \/ Stops(c, "up") /\ proc[c].fresh = TRUE
                 \/ Stops(c, "late")
  <2>1. proc[c].key \in Nat /\ proc[c].fresh \in BOOLEAN
    BY DEF Shapes, ProcT
  <2>2. Later(c) => Sets(c, ws[c].link, proc[c].key, ws[c].kube, ws[c].jh, ws[c].trusted)
    BY <2>1, SetsIs DEF Later
  <2>3. CASE proc[c].fresh = TRUE
    BY <1>0, <2>2, <2>3, StopsAt DEF Later, At
  <2>4. CASE proc[c].fresh = FALSE
    BY <1>0, <2>2, <2>4, StopsAt DEF Later, At
  <2> QED BY <2>1, <2>3, <2>4
<1> QED BY <1>1, <1>2, <1>3, <1>4, <1>5, <1>7, <1>8

Made(q, p, x, k) ==
  q.pc = x /\ q.cmd = p.cmd /\ q.key = p.key /\ q.try = p.try /\ q.proj = p.proj /\ q.clus = k
RestsOr(q, p) == Comes(q, p, IF p.cmd = "up" THEN "restProject" ELSE "giveUp")

\* What a reply or its absence makes of a command.
LEMMA Replies ==
  ASSUME Shapes, NEW c \in Clusters, NEW new, NEW then \in ProcT, NEW else \in ProcT, Call(c, new, then, else)
  PROVE  /\ Quiet(c)
         /\ \/ proc'[c] = then /\ forge' = new /\ faults' = faults
            \/ Same(proc'[c], else) /\ Lost(c, new)
<1>1. Quiet(c)
  BY CallIs DEF Quiet, Others
<1> QED BY <1>1, CallIs DEF Lost

\* Every way on of a call is well formed.
LEMMA NextSteps ==
  ASSUME Shapes, NEW c \in Clusters
  PROVE  /\ Retry(c) \in ProcT /\ RestOr(c) \in ProcT
         /\ \A q : Same(q, Retry(c)) => Retries(q, proc[c])
         /\ \A q : Same(q, RestOr(c)) => RestsOr(q, proc[c])
         /\ \A q : Same(q, To(c, "rollback")) => Comes(q, proc[c], "rollback")
         /\ Same(RestOr(c), RestOr(c)) /\ RestOr(c).fresh = proc[c].fresh
         /\ Same(Retry(c), Retry(c)) /\ Retry(c).fresh = proc[c].fresh
         /\ To(c, "rollback") \in ProcT /\ To(c, "rollback").fresh = proc[c].fresh
         /\ Same(To(c, "rollback"), To(c, "rollback"))
         /\ \A x \in {"mcpCluster", "restCluster"} : \A j \in Nat : \A b \in BOOLEAN :
              /\ UseProject(c, j, x, b) \in ProcT /\ UseProject(c, j, x, b).fresh = proc[c].fresh
              /\ Uses(UseProject(c, j, x, b), proc[c], x, j)
<1>1. /\ "rollback" \in Points /\ "mcpCluster" \in Points /\ "restCluster" \in Points
  BY DEF Points, UpPoints
<1>2. Retry(c) \in ProcT /\ Retry(c).fresh = proc[c].fresh /\ Same(Retry(c), Retry(c)) /\ \A q : Same(q, Retry(c)) => Retries(q, proc[c])
  BY RetryIs DEF Same, Retries
<1>3. RestOr(c) \in ProcT /\ RestOr(c).fresh = proc[c].fresh /\ Same(RestOr(c), RestOr(c)) /\ \A q : Same(q, RestOr(c)) => RestsOr(q, proc[c])
  BY RestOrIs DEF Same, RestsOr, Comes
<1>4. To(c, "rollback") \in ProcT /\ To(c, "rollback").fresh = proc[c].fresh /\ Same(To(c, "rollback"), To(c, "rollback"))
      /\ \A q : Same(q, To(c, "rollback")) => Comes(q, proc[c], "rollback")
  BY <1>1, ToIs DEF Same, Comes
<1>5. \A x \in {"mcpCluster", "restCluster"} : \A j \in Nat : \A b \in BOOLEAN :
              /\ UseProject(c, j, x, b) \in ProcT /\ UseProject(c, j, x, b).fresh = proc[c].fresh
              /\ Uses(UseProject(c, j, x, b), proc[c], x, j)
  BY <1>1, UseProjectIs DEF Uses
<1> QED BY <1>2, <1>3, <1>4, <1>5

\* The project a command means: the workspace's own or the shared one.
LEMMA ProjectNames ==
  ASSUME Shapes, NEW c \in Clusters
  PROVE  /\ ProjectName(c) \in Clusters \cup {"shared"}
         /\ ProjectName(c) \in {c, "shared"} /\ (~shared => ProjectName(c) = c)
         /\ ProjectsNamed(ProjectName(c)) # {} => Only(ProjectsNamed(ProjectName(c))) \in ProjectsNamed(ProjectName(c))
         /\ \A n : \A p \in ProjectsNamed(n) : p \in forge.projects /\ p.id \in Nat /\ p.name = n
         /\ forge.next \in Nat
  BY OnlyIn DEF ProjectName, ProjectsNamed, Shapes, ForgeT, ProjectT, Ids

\* The calls that find or make the project.
LEMMA ProjectDoes ==
  ASSUME Shapes, NEW c \in Clusters
  PROVE  LET n == ProjectName(c) IN
         /\ McpCreateProject(c) =>
              /\ proc[c].pc = "mcpProject" /\ Quiet(c)
              /\ \/ Answered(c, forge) /\ RestsOr(proc'[c], proc[c])
                 \/ Answered(c, forge) /\ Comes(proc'[c], proc[c], "mcpFind")
                 \/ Lost(c, forge) /\ Retries(proc'[c], proc[c])
                 \/ /\ ProjectsNamed(n) = {} /\ Answered(c, WithProject(n))
                    /\ Uses(proc'[c], proc[c], "mcpCluster", forge.next)
                 \/ ProjectsNamed(n) = {} /\ Lost(c, WithProject(n)) /\ Retries(proc'[c], proc[c])
         /\ McpFindProject(c) =>
              /\ proc[c].pc = "mcpFind" /\ Quiet(c)
              /\ \/ Answered(c, forge) /\ RestsOr(proc'[c], proc[c])
                 \/ Lost(c, forge) /\ RestsOr(proc'[c], proc[c])
                 \/ /\ Answered(c, forge)
                    /\ \E p \in ProjectsNamed(n) : Uses(proc'[c], proc[c], "mcpCluster", p.id)
         /\ RestCreateProject(c) =>
              /\ proc[c].pc = "restProject" /\ Quiet(c)
              /\ \/ /\ Answered(c, forge)
                    /\ \E p \in ProjectsNamed(n) : Uses(proc'[c], proc[c], "restCluster", p.id)
                 \/ Lost(c, forge) /\ Retries(proc'[c], proc[c])
                 \/ /\ ProjectsNamed(n) = {} /\ Answered(c, WithProject(n))
                    /\ Uses(proc'[c], proc[c], "restCluster", forge.next)
                 \/ ProjectsNamed(n) = {} /\ Lost(c, WithProject(n)) /\ Retries(proc'[c], proc[c])
<1> DEFINE n == ProjectName(c)
<1>0. "mcpFind" \in Points /\ TRUE \in BOOLEAN /\ FALSE \in BOOLEAN
  BY DEF Points, UpPoints
<1>1. ASSUME McpCreateProject(c)
      PROVE  /\ proc[c].pc = "mcpProject" /\ Quiet(c)
             /\ \/ Answered(c, forge) /\ RestsOr(proc'[c], proc[c])
                \/ Answered(c, forge) /\ Comes(proc'[c], proc[c], "mcpFind")
                \/ Lost(c, forge) /\ Retries(proc'[c], proc[c])
                \/ /\ ProjectsNamed(n) = {} /\ Answered(c, WithProject(n))
                   /\ Uses(proc'[c], proc[c], "mcpCluster", forge.next)
                \/ ProjectsNamed(n) = {} /\ Lost(c, WithProject(n)) /\ Retries(proc'[c], proc[c])
  <2>1. CASE catalogue = "gap"
    <3>1. Call(c, forge, RestOr(c), Retry(c))
      BY <1>1, <2>1 DEF McpCreateProject
    <3>2. /\ Quiet(c)
          /\ \/ proc'[c] = RestOr(c) /\ forge' = forge /\ faults' = faults
             \/ Same(proc'[c], Retry(c)) /\ Lost(c, forge)
      BY <3>1, NextSteps, Replies
    <3>3. proc[c].pc = "mcpProject"
      BY <1>1 DEF McpCreateProject, At
    <3> QED BY <3>2, <3>3, NextSteps DEF Answered
  <2>2. CASE catalogue # "gap" /\ ProjectsNamed(n) # {}
    <3>1. Call(c, forge, To(c, "mcpFind"), Retry(c))
      BY <1>1, <2>2 DEF McpCreateProject
    <3>2. To(c, "mcpFind") \in ProcT /\ Comes(To(c, "mcpFind"), proc[c], "mcpFind") /\ To(c, "mcpFind").fresh = proc[c].fresh
      BY <1>0, ToIs DEF Comes
    <3>3. /\ Quiet(c)
          /\ \/ proc'[c] = To(c, "mcpFind") /\ forge' = forge /\ faults' = faults
             \/ Same(proc'[c], Retry(c)) /\ Lost(c, forge)
      BY <3>1, <3>2, NextSteps, Replies
    <3> QED BY <1>1, <3>2, <3>3, NextSteps DEF McpCreateProject, At, Answered
  <2>3. CASE catalogue # "gap" /\ ProjectsNamed(n) = {}
    <3>1. Call(c, WithProject(n), UseProject(c, forge.next, "mcpCluster", TRUE), Retry(c))
      BY <1>1, <2>3 DEF McpCreateProject
    <3>2. forge.next \in Nat
      BY ProjectNames
    <3>3. /\ UseProject(c, forge.next, "mcpCluster", TRUE) \in ProcT /\ UseProject(c, forge.next, "mcpCluster", TRUE).fresh = proc[c].fresh
          /\ Uses(UseProject(c, forge.next, "mcpCluster", TRUE), proc[c], "mcpCluster", forge.next)
      BY <1>0, <3>2, NextSteps
    <3>4. Retry(c) \in ProcT
      BY NextSteps
    <3>5. /\ Quiet(c)
          /\ \/ proc'[c] = UseProject(c, forge.next, "mcpCluster", TRUE) /\ forge' = WithProject(n) /\ faults' = faults
             \/ Same(proc'[c], Retry(c)) /\ Lost(c, WithProject(n))
      BY <3>1, <3>3, <3>4, Replies
    <3> HIDE DEF n
    <3> QED BY <1>1, <2>3, <3>2, <3>3, <3>5, NextSteps DEF McpCreateProject, At, Answered
  <2> QED BY <2>1, <2>2, <2>3
<1>2. ASSUME McpFindProject(c)
      PROVE  /\ proc[c].pc = "mcpFind" /\ Quiet(c)
             /\ \/ Answered(c, forge) /\ RestsOr(proc'[c], proc[c])
                \/ Lost(c, forge) /\ RestsOr(proc'[c], proc[c])
                \/ /\ Answered(c, forge)
                   /\ \E p \in ProjectsNamed(n) : Uses(proc'[c], proc[c], "mcpCluster", p.id)
  <2>1. CASE ProjectsNamed(n) = {}
    <3>1. Call(c, forge, RestOr(c), RestOr(c))
      BY <1>2, <2>1 DEF McpFindProject
    <3> QED BY <1>2, <3>1, NextSteps, Replies DEF McpFindProject, At, Answered
  <2>2. CASE ProjectsNamed(n) # {}
    <3>1. Call(c, forge, UseProject(c, Only(ProjectsNamed(n)).id, "mcpCluster", FALSE), RestOr(c))
      BY <1>2, <2>2 DEF McpFindProject
    <3>2. Only(ProjectsNamed(n)) \in ProjectsNamed(n) /\ Only(ProjectsNamed(n)).id \in Nat
      BY <2>2, ProjectNames
    <3>3. /\ UseProject(c, Only(ProjectsNamed(n)).id, "mcpCluster", FALSE) \in ProcT /\ UseProject(c, Only(ProjectsNamed(n)).id, "mcpCluster", FALSE).fresh = proc[c].fresh
          /\ Uses(UseProject(c, Only(ProjectsNamed(n)).id, "mcpCluster", FALSE), proc[c], "mcpCluster", Only(ProjectsNamed(n)).id)
      BY <1>0, <3>2, NextSteps
    <3>4. RestOr(c) \in ProcT
      BY NextSteps
    <3>5. /\ Quiet(c)
          /\ \/ proc'[c] = UseProject(c, Only(ProjectsNamed(n)).id, "mcpCluster", FALSE) /\ forge' = forge /\ faults' = faults
             \/ Same(proc'[c], RestOr(c)) /\ Lost(c, forge)
      BY <3>1, <3>3, <3>4, Replies
    <3> HIDE DEF n
    <3> QED BY <1>2, <2>2, <3>2, <3>3, <3>5, NextSteps DEF McpFindProject, At, Answered
  <2> QED BY <2>1, <2>2
<1>3. ASSUME RestCreateProject(c)
      PROVE  /\ proc[c].pc = "restProject" /\ Quiet(c)
             /\ \/ /\ Answered(c, forge)
                   /\ \E p \in ProjectsNamed(n) : Uses(proc'[c], proc[c], "restCluster", p.id)
                \/ Lost(c, forge) /\ Retries(proc'[c], proc[c])
                \/ /\ ProjectsNamed(n) = {} /\ Answered(c, WithProject(n))
                   /\ Uses(proc'[c], proc[c], "restCluster", forge.next)
                \/ ProjectsNamed(n) = {} /\ Lost(c, WithProject(n)) /\ Retries(proc'[c], proc[c])
  <2>1. CASE ProjectsNamed(n) = {}
    <3>1. Call(c, WithProject(n), UseProject(c, forge.next, "restCluster", TRUE), Retry(c))
      BY <1>3, <2>1 DEF RestCreateProject
    <3>2. forge.next \in Nat
      BY ProjectNames
    <3>3. /\ UseProject(c, forge.next, "restCluster", TRUE) \in ProcT /\ UseProject(c, forge.next, "restCluster", TRUE).fresh = proc[c].fresh
          /\ Uses(UseProject(c, forge.next, "restCluster", TRUE), proc[c], "restCluster", forge.next)
      BY <1>0, <3>2, NextSteps
    <3>4. Retry(c) \in ProcT
      BY NextSteps
    <3>5. /\ Quiet(c)
          /\ \/ proc'[c] = UseProject(c, forge.next, "restCluster", TRUE) /\ forge' = WithProject(n) /\ faults' = faults
             \/ Same(proc'[c], Retry(c)) /\ Lost(c, WithProject(n))
      BY <3>1, <3>3, <3>4, Replies
    <3> HIDE DEF n
    <3> QED BY <1>3, <2>1, <3>2, <3>3, <3>5, NextSteps DEF RestCreateProject, At, Answered
  <2>2. CASE ProjectsNamed(n) # {}
    <3>1. Call(c, forge, UseProject(c, Only(ProjectsNamed(n)).id, "restCluster", FALSE), Retry(c))
      BY <1>3, <2>2 DEF RestCreateProject
    <3>2. Only(ProjectsNamed(n)) \in ProjectsNamed(n) /\ Only(ProjectsNamed(n)).id \in Nat
      BY <2>2, ProjectNames
    <3>3. /\ UseProject(c, Only(ProjectsNamed(n)).id, "restCluster", FALSE) \in ProcT /\ UseProject(c, Only(ProjectsNamed(n)).id, "restCluster", FALSE).fresh = proc[c].fresh
          /\ Uses(UseProject(c, Only(ProjectsNamed(n)).id, "restCluster", FALSE), proc[c], "restCluster", Only(ProjectsNamed(n)).id)
      BY <1>0, <3>2, NextSteps
    <3>4. Retry(c) \in ProcT
      BY NextSteps
    <3>5. /\ Quiet(c)
          /\ \/ proc'[c] = UseProject(c, Only(ProjectsNamed(n)).id, "restCluster", FALSE) /\ forge' = forge /\ faults' = faults
             \/ Same(proc'[c], Retry(c)) /\ Lost(c, forge)
      BY <3>1, <3>3, <3>4, Replies
    <3> HIDE DEF n
    <3> QED BY <1>3, <2>2, <3>2, <3>3, <3>5, NextSteps DEF RestCreateProject, At, Answered
  <2> QED BY <2>1, <2>2
<1> QED BY <1>1, <1>2, <1>3

\* With the cluster the server has just made.
LEMMA MadeIs ==
  ASSUME Shapes, NEW c \in Clusters, NEW k \in Nat
  PROVE  LET q == [To(c, "writeLink") EXCEPT !.clus = k] IN
         q \in ProcT /\ Made(q, proc[c], "writeLink", k) /\ q.fresh = proc[c].fresh
<1> DEFINE Q(p) == [p EXCEPT !.clus = k]
<1>1. \A p \in ProcT : Q(p) \in ProcT /\ Made(Q(p), p, p.pc, k) /\ Q(p).fresh = p.fresh
  BY DEF ProcT, Made
<1>2. "writeLink" \in Points
  BY DEF Points, UpPoints
<1> HIDE DEF Q
<1>3. Q(To(c, "writeLink")) \in ProcT /\ Made(Q(To(c, "writeLink")), proc[c], "writeLink", k) /\ Q(To(c, "writeLink")).fresh = proc[c].fresh
  BY <1>1, <1>2, ToIs DEF Made
<1> QED BY <1>3 DEF Q

\* The calls that find or make the cluster, and the rollback.
LEMMA ClusterDoes ==
  ASSUME Shapes, NEW c \in Clusters
  PROVE  LET j == proc[c].proj
             kube == ws[c].kube IN
         /\ McpCreateCluster(c) =>
              /\ proc[c].pc = "mcpCluster" /\ Quiet(c)
              /\ \/ Answered(c, forge) /\ RestsOr(proc'[c], proc[c])
                 \/ Answered(c, forge) /\ ~Exists(j) /\ Comes(proc'[c], proc[c], "rollback")
                 \/ Lost(c, forge) /\ Comes(proc'[c], proc[c], "rollback")
                 \/ Exists(j) /\ Answered(c, WithCluster(c, j, kube)) /\ Made(proc'[c], proc[c], "writeLink", forge.next)
                 \/ Exists(j) /\ Lost(c, WithCluster(c, j, kube)) /\ Comes(proc'[c], proc[c], "rollback")
         /\ Rollback(c) =>
              /\ proc[c].pc = "rollback" /\ Quiet(c) /\ Retries(proc'[c], proc[c])
              /\ forge' \in {forge, WithoutProject(j)}
              /\ proc'[c].fresh = proc[c].fresh \/ proc'[c].fresh = FALSE
         /\ RestCreateCluster(c) =>
              /\ proc[c].pc = "restCluster" /\ Quiet(c)
              /\ \/ \E k \in ClustersNamed(c, j) :
                      \/ Answered(c, WithKubeconfig(k.id, kube)) /\ Made(proc'[c], proc[c], "writeLink", k.id)
                      \/ Lost(c, WithKubeconfig(k.id, kube)) /\ Comes(proc'[c], proc[c], "rollback")
                 \/ Answered(c, forge) /\ ~Exists(j) /\ Comes(proc'[c], proc[c], "rollback")
                 \/ Lost(c, forge) /\ Comes(proc'[c], proc[c], "rollback")
                 \/ Exists(j) /\ Answered(c, WithCluster(c, j, kube)) /\ Made(proc'[c], proc[c], "writeLink", forge.next)
                 \/ Exists(j) /\ Lost(c, WithCluster(c, j, kube)) /\ Comes(proc'[c], proc[c], "rollback")
<1> DEFINE j == proc[c].proj
           kube == ws[c].kube
           old == ClustersNamed(c, j)
           made(k) == [To(c, "writeLink") EXCEPT !.clus = k]
<1>0. "rollback" \in Points /\ forge.next \in Nat
  BY DEF Points, UpPoints, Shapes, ForgeT, Ids
<1>1. ASSUME Call(c, forge, To(c, "rollback"), To(c, "rollback"))
      PROVE  Quiet(c) /\ Comes(proc'[c], proc[c], "rollback") /\ (Answered(c, forge) \/ Lost(c, forge))
  BY <1>0, <1>1, CallTo
<1>2. ASSUME NEW new, NEW k \in Nat, Call(c, new, made(k), To(c, "rollback"))
      PROVE  /\ Quiet(c)
             /\ \/ Answered(c, new) /\ Made(proc'[c], proc[c], "writeLink", k)
                \/ Lost(c, new) /\ Comes(proc'[c], proc[c], "rollback")
  <2>1. made(k) \in ProcT /\ Made(made(k), proc[c], "writeLink", k) /\ made(k).fresh = proc[c].fresh
    BY MadeIs
  <2> HIDE DEF made
  <2>2. /\ Quiet(c)
        /\ \/ proc'[c] = made(k) /\ forge' = new /\ faults' = faults
           \/ Same(proc'[c], To(c, "rollback")) /\ Lost(c, new)
    BY <1>2, <2>1, NextSteps, Replies
  <2> QED BY <2>1, <2>2, NextSteps DEF Answered
<1>3. ASSUME Call(c, forge, RestOr(c), To(c, "rollback"))
      PROVE  /\ Quiet(c)
             /\ \/ Answered(c, forge) /\ RestsOr(proc'[c], proc[c])
                \/ Lost(c, forge) /\ Comes(proc'[c], proc[c], "rollback")
  BY <1>3, NextSteps, Replies DEF Answered
<1>4. ASSUME McpCreateCluster(c)
      PROVE  /\ proc[c].pc = "mcpCluster" /\ Quiet(c)
             /\ \/ Answered(c, forge) /\ RestsOr(proc'[c], proc[c])
                \/ Answered(c, forge) /\ ~Exists(j) /\ Comes(proc'[c], proc[c], "rollback")
                \/ Lost(c, forge) /\ Comes(proc'[c], proc[c], "rollback")
                \/ Exists(j) /\ Answered(c, WithCluster(c, j, kube)) /\ Made(proc'[c], proc[c], "writeLink", forge.next)
                \/ Exists(j) /\ Lost(c, WithCluster(c, j, kube)) /\ Comes(proc'[c], proc[c], "rollback")
  <2>1. CASE old # {}
    <3>1. Call(c, forge, RestOr(c), To(c, "rollback"))
      BY <1>4, <2>1 DEF McpCreateCluster
    <3> QED BY <1>3, <1>4, <3>1 DEF McpCreateCluster, At
  <2>2. CASE old = {} /\ ~Exists(j)
    <3>1. Call(c, forge, To(c, "rollback"), To(c, "rollback"))
      BY <1>4, <2>2 DEF McpCreateCluster
    <3> QED BY <1>1, <1>4, <2>2, <3>1 DEF McpCreateCluster, At
  <2>3. CASE old = {} /\ Exists(j)
    <3>1. Call(c, WithCluster(c, j, kube), made(forge.next), To(c, "rollback"))
      BY <1>4, <2>3 DEF McpCreateCluster
    <3> QED BY <1>0, <1>2, <1>4, <2>3, <3>1 DEF McpCreateCluster, At
  <2> QED BY <2>1, <2>2, <2>3
<1>5. ASSUME RestCreateCluster(c)
      PROVE  /\ proc[c].pc = "restCluster" /\ Quiet(c)
             /\ \/ \E k \in old :
                     \/ Answered(c, WithKubeconfig(k.id, kube)) /\ Made(proc'[c], proc[c], "writeLink", k.id)
                     \/ Lost(c, WithKubeconfig(k.id, kube)) /\ Comes(proc'[c], proc[c], "rollback")
                \/ Answered(c, forge) /\ ~Exists(j) /\ Comes(proc'[c], proc[c], "rollback")
                \/ Lost(c, forge) /\ Comes(proc'[c], proc[c], "rollback")
                \/ Exists(j) /\ Answered(c, WithCluster(c, j, kube)) /\ Made(proc'[c], proc[c], "writeLink", forge.next)
                \/ Exists(j) /\ Lost(c, WithCluster(c, j, kube)) /\ Comes(proc'[c], proc[c], "rollback")
  <2>1. CASE old # {}
    <3>1. Only(old) \in old /\ Only(old).id \in Nat
      BY <2>1, OnlyIn DEF ClustersNamed, Shapes, ForgeT, ClusterT, Ids
    <3>2. Call(c, WithKubeconfig(Only(old).id, kube), made(Only(old).id), To(c, "rollback"))
      BY <1>5, <2>1 DEF RestCreateCluster, Refreshed
    <3>3. /\ Quiet(c)
          /\ \/ Answered(c, WithKubeconfig(Only(old).id, kube)) /\ Made(proc'[c], proc[c], "writeLink", Only(old).id)
             \/ Lost(c, WithKubeconfig(Only(old).id, kube)) /\ Comes(proc'[c], proc[c], "rollback")
      BY <1>2, <3>1, <3>2
    <3> QED BY <1>5, <3>1, <3>3 DEF RestCreateCluster, At
  <2>2. CASE old = {} /\ ~Exists(j)
    <3>1. Call(c, forge, To(c, "rollback"), To(c, "rollback"))
      BY <1>5, <2>2 DEF RestCreateCluster
    <3> QED BY <1>1, <1>5, <2>2, <3>1 DEF RestCreateCluster, At
  <2>3. CASE old = {} /\ Exists(j)
    <3>1. Call(c, WithCluster(c, j, kube), made(forge.next), To(c, "rollback"))
      BY <1>5, <2>3 DEF RestCreateCluster
    <3> QED BY <1>0, <1>2, <1>5, <2>3, <3>1 DEF RestCreateCluster, At
  <2> QED BY <2>1, <2>2, <2>3
<1>6. ASSUME Rollback(c)
      PROVE  /\ proc[c].pc = "rollback" /\ Quiet(c) /\ Retries(proc'[c], proc[c])
             /\ forge' \in {forge, WithoutProject(j)}
             /\ proc'[c].fresh = proc[c].fresh \/ proc'[c].fresh = FALSE
  <2>1. CASE proc[c].made
    <3>1. Call(c, WithoutProject(j), Retry(c), Retry(c))
      BY <1>6, <2>1 DEF Rollback
    <3>2. /\ Quiet(c)
          /\ \/ proc'[c] = Retry(c) /\ forge' = WithoutProject(j) /\ faults' = faults
             \/ Same(proc'[c], Retry(c)) /\ Lost(c, WithoutProject(j))
      BY <3>1, NextSteps, Replies
    <3> QED BY <1>6, <3>2, NextSteps DEF Rollback, At, Lost
  <2>2. CASE ~proc[c].made
    <3>1. Goes(c, Retry(c)) /\ UNCHANGED ws
      BY <1>6, <2>2 DEF Rollback
    <3>2. faults \in 0 .. MaxFaults
      BY DEF Shapes
    <3>3. Quiet(c) /\ proc'[c] = Retry(c) /\ forge' = forge
      BY <3>1, <3>2, NextSteps, GoesIs DEF Quiet, Others
    <3> QED BY <1>6, <3>3, NextSteps DEF Rollback, At
  <2> QED BY <2>1, <2>2
<1> QED BY <1>4, <1>5, <1>6

\* The link written.
LEMMA LinkDoes ==
  ASSUME Shapes, NEW c \in Clusters, WriteLink(c), proc[c].clus >= 0
  PROVE  LET l == [status |-> "registered", proj |-> proc[c].proj, clus |-> proc[c].clus] IN
         /\ proc[c].pc = "writeLink"
         /\ Sets(c, l, ws[c].key, ws[c].kube, ws[c].jh, TRUE)
         /\ \/ proc[c].cmd # "up" /\ Stops(c, "ok")
            \/ /\ proc[c].cmd = "up"
               /\ UNCHANGED <<forge, net, catalogue, faults, told, shared, cmds>>
               /\ proc' \in [Clusters -> ProcT] /\ Others(c) /\ proc'[c].fresh = proc[c].fresh
               /\ Keyed(proc'[c], proc[c], "later", proc[c].clus)
<1> DEFINE l == [status |-> "registered", proj |-> proc[c].proj, clus |-> proc[c].clus]
<1>0. proc[c].clus \in Nat /\ proc[c].proj \in Nat
  BY DEF Shapes, ProcT
<1>1. l \in Links
  BY <1>0 DEF Links
<1>2. Sets(c, l, ws[c].key, ws[c].kube, ws[c].jh, TRUE)
  BY <1>1, SetsIs DEF WriteLink
<1>3. ASSUME proc[c].cmd = "up"
      PROVE  /\ UNCHANGED <<forge, net, catalogue, faults, told, shared, cmds>>
             /\ proc' \in [Clusters -> ProcT] /\ Others(c) /\ proc'[c].fresh = proc[c].fresh
             /\ Keyed(proc'[c], proc[c], "later", proc[c].clus)
  <2> DEFINE Q(p, k) == [p EXCEPT !.key = k]
             q == Q(To(c, "later"), proc[c].clus)
  <2>1. \A p \in ProcT : \A k \in Nat : /\ Q(p, k) \in ProcT /\ Q(p, k).fresh = p.fresh
                                        /\ Keyed(Q(p, k), p, p.pc, k)
    BY DEF ProcT, Keyed
  <2>2. Goes(c, q)
    BY <1>3 DEF WriteLink
  <2>3. "later" \in Points
    BY DEF Points, UpPoints
  <2> HIDE DEF Q
  <2>4. q \in ProcT /\ q.fresh = proc[c].fresh /\ Keyed(q, proc[c], "later", proc[c].clus)
    BY <1>0, <2>1, <2>3, ToIs DEF Keyed
  <2> QED BY <2>2, <2>4, GoesIs DEF Others
<1>4. proc[c].cmd # "up" => Stops(c, "ok")
  BY StopsAt DEF WriteLink, Told
<1> QED BY <1>2, <1>3, <1>4 DEF WriteLink, At

\* A call whose answer does not matter; on to the REST API of the deletions, or to the end.
Mild(c) == proc'[c].fresh = proc[c].fresh \/ proc'[c].fresh = FALSE
Falls(q, p) == Comes(q, p, IF p.cmd = "down" THEN "restDelete" ELSE "giveUp")
ThisCluster(c) == {k.id : k \in ClustersNamed(c, proc[c].proj)}
NewTarget(c) == [name |-> IF Wrapped /\ Taken(Target, ws[c].link.clus) THEN c ELSE Target,
                 cluster |-> ws[c].link.clus]

\* Targets and agents, registered and deleted, and the jumphost.
LEMMA RecordsDo ==
  ASSUME Shapes, NEW c \in Clusters
  PROVE  /\ JumphostDown(c) =>
              /\ proc[c].pc = "jumphost"
              /\ Sets(c, ws[c].link, ws[c].key, ws[c].kube, 0, ws[c].trusted)
              /\ Walks(c, "targets") \/ Walks(c, "phase09Down")
         /\ DeleteTargets(c) =>
              /\ proc[c].pc = "targets" /\ Quiet(c) /\ Mild(c) /\ Comes(proc'[c], proc[c], "agents")
              /\ forge' \in {forge, [forge EXCEPT !.targets = forge.targets \ TargetsOf(proc[c].key)]}
         /\ DeleteAgents(c) =>
              /\ proc[c].pc = "agents" /\ Quiet(c) /\ Mild(c)
              /\ Comes(proc'[c], proc[c], IF proc[c].cmd = "cleanup" THEN "cleaned" ELSE "phase09Down")
              /\ forge' \in {forge, [forge EXCEPT !.agents = forge.agents \ AgentsOf(c)]}
         /\ Cleaned(c) =>
              proc[c].pc = "cleaned" /\ UNCHANGED ws /\ (Stops(c, "ok") \/ Stops(c, "failed"))
         /\ RegisterAgent(c) =>
              /\ proc[c].pc = "agent" /\ Quiet(c) /\ Mild(c) /\ Comes(proc'[c], proc[c], "target")
              /\ forge' \in {forge, [forge EXCEPT !.agents = forge.agents \cup {<<c, ws[c].jh>>}]}
         /\ RegisterTarget(c) =>
              /\ proc[c].pc = "target" /\ Quiet(c) /\ Mild(c) /\ Comes(proc'[c], proc[c], "cleaned")
              /\ \/ forge' = forge
                 \/ /\ \E k \in forge.clusters : k.id = ws[c].link.clus
                    /\ forge' = [forge EXCEPT !.targets = forge.targets \cup {NewTarget(c)}]
<1>0. /\ "targets" \in Points /\ "phase09Down" \in Points /\ "agents" \in Points /\ "cleaned" \in Points
      /\ "target" \in Points /\ "ok" \in Told /\ "failed" \in Told
  BY DEF Points, DownPoints, CleanupPoints, BenchPoints, Told
<1>1. JumphostDown(c) =>
              /\ proc[c].pc = "jumphost"
              /\ Sets(c, ws[c].link, ws[c].key, ws[c].kube, 0, ws[c].trusted)
              /\ Walks(c, "targets") \/ Walks(c, "phase09Down")
  BY <1>0, GoesTo, SetsIs DEF JumphostDown, At
<1>2. DeleteTargets(c) =>
              /\ proc[c].pc = "targets" /\ Quiet(c) /\ Mild(c) /\ Comes(proc'[c], proc[c], "agents")
              /\ forge' \in {forge, [forge EXCEPT !.targets = forge.targets \ TargetsOf(proc[c].key)]}
  BY <1>0, CallTo DEF DeleteTargets, At, Answered, Lost, Mild
<1>3. DeleteAgents(c) =>
              /\ proc[c].pc = "agents" /\ Quiet(c) /\ Mild(c)
              /\ Comes(proc'[c], proc[c], IF proc[c].cmd = "cleanup" THEN "cleaned" ELSE "phase09Down")
              /\ forge' \in {forge, [forge EXCEPT !.agents = forge.agents \ AgentsOf(c)]}
  BY <1>0, CallTo DEF DeleteAgents, At, Answered, Lost, Mild
<1>4. Cleaned(c) => proc[c].pc = "cleaned" /\ UNCHANGED ws /\ (Stops(c, "ok") \/ Stops(c, "failed"))
  BY <1>0, StopsAt DEF Cleaned, At
<1>5. RegisterAgent(c) =>
              /\ proc[c].pc = "agent" /\ Quiet(c) /\ Mild(c) /\ Comes(proc'[c], proc[c], "target")
              /\ forge' \in {forge, [forge EXCEPT !.agents = forge.agents \cup {<<c, ws[c].jh>>}]}
  BY <1>0, CallTo DEF RegisterAgent, At, Answered, Lost, Mild
<1>6. RegisterTarget(c) =>
              /\ proc[c].pc = "target" /\ Quiet(c) /\ Mild(c) /\ Comes(proc'[c], proc[c], "cleaned")
              /\ \/ forge' = forge
                 \/ /\ \E k \in forge.clusters : k.id = ws[c].link.clus
                    /\ forge' = [forge EXCEPT !.targets = forge.targets \cup {NewTarget(c)}]
  BY <1>0, CallTo DEF RegisterTarget, At, Answered, Lost, Mild, NewTarget
<1> QED BY <1>1, <1>2, <1>3, <1>4, <1>5, <1>6

\* A registration found by name, as `down` does without a link.
LEMMA ByNameDoes ==
  ASSUME Shapes, NEW c \in Clusters
  PROVE  /\ Phase09Down(c) =>
              /\ proc[c].pc = "phase09Down" /\ UNCHANGED ws
              /\ \/ proc[c].cmd = "downKept" /\ Walks(c, "eksDown")
                 \/ proc[c].cmd # "downKept" /\ IsRegistered(ws[c].link) /\ Walks(c, "mcpDelete")
                 \/ proc[c].cmd # "downKept" /\ ~IsRegistered(ws[c].link) /\ Walks(c, "byName")
         /\ ByNameProject(c) =>
              /\ proc[c].pc = "byName" /\ Quiet(c)
              /\ \/ ProjectsNamed(c) = {} /\ Answered(c, forge) /\ Comes(proc'[c], proc[c], "forget")
                 \/ /\ Answered(c, forge)
                    /\ \E p \in ProjectsNamed(c) : Uses(proc'[c], proc[c], "byNameCluster", p.id)
                 \/ Lost(c, forge) /\ Comes(proc'[c], proc[c], "eksDown")
         /\ ByNameCluster(c) =>
              /\ proc[c].pc = "byNameCluster" /\ Quiet(c)
              /\ \/ Answered(c, WithoutClusters(ThisCluster(c))) /\ Comes(proc'[c], proc[c], "byNameDelete")
                 \/ Lost(c, WithoutClusters(ThisCluster(c))) /\ Comes(proc'[c], proc[c], "eksDown")
         /\ ByNameDelete(c) =>
              /\ proc[c].pc = "byNameDelete" /\ Quiet(c)
              /\ \/ Answered(c, WithoutProject(proc[c].proj)) /\ Comes(proc'[c], proc[c], "forget")
                 \/ Lost(c, WithoutProject(proc[c].proj)) /\ Comes(proc'[c], proc[c], "eksDown")
<1>0. /\ "eksDown" \in Points /\ "mcpDelete" \in Points /\ "byName" \in Points /\ "forget" \in Points
      /\ "byNameCluster" \in Points /\ "byNameDelete" \in Points
  BY DEF Points, DownPoints
<1>1. Phase09Down(c) =>
              /\ proc[c].pc = "phase09Down" /\ UNCHANGED ws
              /\ \/ proc[c].cmd = "downKept" /\ Walks(c, "eksDown")
                 \/ proc[c].cmd # "downKept" /\ IsRegistered(ws[c].link) /\ Walks(c, "mcpDelete")
                 \/ proc[c].cmd # "downKept" /\ ~IsRegistered(ws[c].link) /\ Walks(c, "byName")
  BY <1>0, GoesTo DEF Phase09Down, At
<1>2. ASSUME ByNameProject(c)
      PROVE   /\ proc[c].pc = "byName" /\ Quiet(c)
              /\ \/ ProjectsNamed(c) = {} /\ Answered(c, forge) /\ Comes(proc'[c], proc[c], "forget")
                 \/ /\ Answered(c, forge)
                    /\ \E p \in ProjectsNamed(c) : Uses(proc'[c], proc[c], "byNameCluster", p.id)
                 \/ Lost(c, forge) /\ Comes(proc'[c], proc[c], "eksDown")
  <2>1. CASE ProjectsNamed(c) = {}
    <3>1. Call(c, forge, To(c, "forget"), To(c, "eksDown"))
      BY <1>2, <2>1 DEF ByNameProject
    <3> QED BY <1>0, <1>2, <2>1, <3>1, CallTo DEF ByNameProject, At
  <2>2. CASE ProjectsNamed(c) # {}
    <3> DEFINE i == Only(ProjectsNamed(c)).id
               Q(p) == [p EXCEPT !.proj = i]
               q == Q(To(c, "byNameCluster"))
    <3>1. Only(ProjectsNamed(c)) \in ProjectsNamed(c) /\ i \in Nat
      BY <2>2, OnlyIn DEF ProjectsNamed, Shapes, ForgeT, ProjectT, Ids
    <3>2. Call(c, forge, q, To(c, "eksDown"))
      BY <1>2, <2>2 DEF ByNameProject
    <3>3. \A p \in ProcT : Q(p) \in ProcT /\ Uses(Q(p), p, p.pc, i) /\ Q(p).fresh = p.fresh
      BY <3>1 DEF ProcT, Uses
    <3> HIDE DEF Q, i
    <3>4. q \in ProcT /\ Uses(q, proc[c], "byNameCluster", i) /\ q.fresh = proc[c].fresh
      BY <1>0, <3>3, ToIs DEF Uses
    <3>5. To(c, "eksDown") \in ProcT /\ \A r : Same(r, To(c, "eksDown")) => Comes(r, proc[c], "eksDown")
      BY <1>0, ToIs DEF Same, Comes
    <3> HIDE DEF q
    <3>6. /\ Quiet(c)
          /\ \/ proc'[c] = q /\ forge' = forge /\ faults' = faults
             \/ Same(proc'[c], To(c, "eksDown")) /\ Lost(c, forge)
      BY <3>2, <3>4, <3>5, Replies
    <3> QED BY <1>2, <3>1, <3>4, <3>5, <3>6 DEF ByNameProject, At, Answered, i
  <2> QED BY <2>1, <2>2
<1>3. ByNameCluster(c) =>
              /\ proc[c].pc = "byNameCluster" /\ Quiet(c)
              /\ \/ Answered(c, WithoutClusters(ThisCluster(c))) /\ Comes(proc'[c], proc[c], "byNameDelete")
                 \/ Lost(c, WithoutClusters(ThisCluster(c))) /\ Comes(proc'[c], proc[c], "eksDown")
  BY <1>0, CallTo DEF ByNameCluster, At, ThisCluster
<1>4. ByNameDelete(c) =>
              /\ proc[c].pc = "byNameDelete" /\ Quiet(c)
              /\ \/ Answered(c, WithoutProject(proc[c].proj)) /\ Comes(proc'[c], proc[c], "forget")
                 \/ Lost(c, WithoutProject(proc[c].proj)) /\ Comes(proc'[c], proc[c], "eksDown")
  BY <1>0, CallTo DEF ByNameDelete, At, Emptied
<1> QED BY <1>1, <1>2, <1>3, <1>4

\* The deletions, the link removed and forgotten, the cluster gone.
LEMMA DeletesDo ==
  ASSUME Shapes, NEW c \in Clusters
  PROVE  /\ McpDeleteCluster(c) =>
              /\ proc[c].pc = "mcpDelete" /\ Quiet(c)
              /\ \/ /\ Answered(c, WithoutClusters({ws[c].link.clus}))
                    /\ Comes(proc'[c], proc[c], IF Purges(c) THEN "mcpDeleteProject" ELSE "removeLink")
                 \/ Lost(c, WithoutClusters({ws[c].link.clus})) /\ Falls(proc'[c], proc[c])
                 \/ catalogue # "full" /\ forge' = forge /\ Mild(c) /\ Falls(proc'[c], proc[c])
         /\ McpDeleteProject(c) =>
              /\ proc[c].pc = "mcpDeleteProject" /\ Quiet(c)
              /\ \/ Answered(c, WithoutProject(ws[c].link.proj)) /\ Comes(proc'[c], proc[c], "removeLink")
                 \/ Lost(c, WithoutProject(ws[c].link.proj)) /\ Falls(proc'[c], proc[c])
                 \/ catalogue # "full" /\ forge' = forge /\ Mild(c) /\ Falls(proc'[c], proc[c])
         /\ RemoveLink(c) =>
              /\ proc[c].pc = "removeLink" /\ Sets(c, NoLink, ws[c].key, ws[c].kube, ws[c].jh, TRUE)
              /\ \/ proc[c].cmd = "down" /\ Walks(c, "forget")
                 \/ proc[c].cmd # "down" /\ Stops(c, "ok")
         /\ RestDeleteCluster(c) =>
              /\ proc[c].pc = "restDelete" /\ Quiet(c)
              /\ \/ Answered(c, WithoutClusters({ws[c].link.clus})) /\ Comes(proc'[c], proc[c], "restDeleteProject")
                 \/ Lost(c, WithoutClusters({ws[c].link.clus})) /\ Comes(proc'[c], proc[c], "eksDown")
         /\ RestDeleteProject(c) =>
              /\ proc[c].pc = "restDeleteProject" /\ Quiet(c)
              /\ \/ Answered(c, WithoutProject(ws[c].link.proj)) /\ Comes(proc'[c], proc[c], "forget")
                 \/ Lost(c, WithoutProject(ws[c].link.proj)) /\ Comes(proc'[c], proc[c], "eksDown")
         /\ Forget(c) =>
              /\ proc[c].pc = "forget" /\ Sets(c, NoLink, 0, ws[c].kube, ws[c].jh, TRUE)
              /\ UNCHANGED <<forge, net, catalogue, faults, told, shared, cmds>>
              /\ proc' \in [Clusters -> ProcT] /\ Others(c) /\ proc'[c].fresh = proc[c].fresh
              /\ Made(proc'[c], proc[c], "eksDown", -1)
         /\ EksDown(c) =>
              /\ proc[c].pc = "eksDown" /\ Sets(c, ws[c].link, ws[c].key, 0, ws[c].jh, ws[c].trusted)
              /\ \/ proc[c].clus = -1 /\ Stops(c, "down")
                 \/ proc[c].clus # -1 /\ Stops(c, "warned")
<1>0. /\ "mcpDeleteProject" \in Points /\ "removeLink" \in Points /\ "restDeleteProject" \in Points
      /\ "eksDown" \in Points /\ "forget" \in Points /\ "ok" \in Told /\ "down" \in Told /\ "warned" \in Told
  BY DEF Points, DownPoints, Told
<1>1. /\ Fallback(c) \in ProcT /\ Falls(Fallback(c), proc[c]) /\ Fallback(c).fresh = proc[c].fresh
      /\ \A r : Same(r, Fallback(c)) => Falls(r, proc[c])
  BY FallbackIs DEF Same, Falls, Comes
<1>2. ASSUME NEW new, NEW x \in Points, McpCall(c, new, To(c, x), Fallback(c))
      PROVE  /\ Quiet(c)
             /\ \/ Answered(c, new) /\ Comes(proc'[c], proc[c], x)
                \/ Lost(c, new) /\ Falls(proc'[c], proc[c])
                \/ catalogue # "full" /\ forge' = forge /\ Mild(c) /\ Falls(proc'[c], proc[c])
  <2>1. To(c, x) \in ProcT /\ Comes(To(c, x), proc[c], x) /\ To(c, x).fresh = proc[c].fresh
    BY ToIs DEF Comes
  <2>2. CASE catalogue = "full"
    <3>1. Call(c, new, To(c, x), Fallback(c))
      BY <1>2, <2>2 DEF McpCall
    <3>2. /\ Quiet(c)
          /\ \/ proc'[c] = To(c, x) /\ forge' = new /\ faults' = faults
             \/ Same(proc'[c], Fallback(c)) /\ Lost(c, new)
      BY <1>1, <2>1, <3>1, Replies
    <3> QED BY <1>1, <2>1, <3>2 DEF Answered
  <2>3. CASE catalogue # "full"
    <3>1. Call(c, forge, Fallback(c), Fallback(c))
      BY <1>2, <2>3 DEF McpCall
    <3>2. /\ Quiet(c)
          /\ \/ proc'[c] = Fallback(c) /\ forge' = forge /\ faults' = faults
             \/ Same(proc'[c], Fallback(c)) /\ Lost(c, forge)
      BY <1>1, <3>1, Replies
    <3> QED BY <1>1, <2>3, <3>2 DEF Mild, Lost
  <2> QED BY <2>2, <2>3
<1>3. McpDeleteCluster(c) =>
              /\ proc[c].pc = "mcpDelete" /\ Quiet(c)
              /\ \/ /\ Answered(c, WithoutClusters({ws[c].link.clus}))
                    /\ Comes(proc'[c], proc[c], IF Purges(c) THEN "mcpDeleteProject" ELSE "removeLink")
                 \/ Lost(c, WithoutClusters({ws[c].link.clus})) /\ Falls(proc'[c], proc[c])
                 \/ catalogue # "full" /\ forge' = forge /\ Mild(c) /\ Falls(proc'[c], proc[c])
  <2> DEFINE x == IF Purges(c) THEN "mcpDeleteProject" ELSE "removeLink"
  <2>1. x \in Points
    BY <1>0
  <2>2. McpDeleteCluster(c) => proc[c].pc = "mcpDelete" /\ McpCall(c, WithoutClusters({ws[c].link.clus}), To(c, x), Fallback(c))
    BY DEF McpDeleteCluster, At
  <2> HIDE DEF x
  <2>3. McpDeleteCluster(c) =>
              /\ proc[c].pc = "mcpDelete" /\ Quiet(c)
              /\ \/ Answered(c, WithoutClusters({ws[c].link.clus})) /\ Comes(proc'[c], proc[c], x)
                 \/ Lost(c, WithoutClusters({ws[c].link.clus})) /\ Falls(proc'[c], proc[c])
                 \/ catalogue # "full" /\ forge' = forge /\ Mild(c) /\ Falls(proc'[c], proc[c])
    BY <1>2, <2>1, <2>2
  <2> QED BY <2>3 DEF x
<1>4. McpDeleteProject(c) =>
              /\ proc[c].pc = "mcpDeleteProject" /\ Quiet(c)
              /\ \/ Answered(c, WithoutProject(ws[c].link.proj)) /\ Comes(proc'[c], proc[c], "removeLink")
                 \/ Lost(c, WithoutProject(ws[c].link.proj)) /\ Falls(proc'[c], proc[c])
                 \/ catalogue # "full" /\ forge' = forge /\ Mild(c) /\ Falls(proc'[c], proc[c])
  BY <1>0, <1>2 DEF McpDeleteProject, At
<1>5. NoLink \in Links
  BY DEF NoLink, Links
<1>6. RemoveLink(c) =>
              /\ proc[c].pc = "removeLink" /\ Sets(c, NoLink, ws[c].key, ws[c].kube, ws[c].jh, TRUE)
              /\ \/ proc[c].cmd = "down" /\ Walks(c, "forget")
                 \/ proc[c].cmd # "down" /\ Stops(c, "ok")
  BY <1>0, <1>5, SetsIs, GoesTo, StopsAt DEF RemoveLink, At
<1>7. RestDeleteCluster(c) =>
              /\ proc[c].pc = "restDelete" /\ Quiet(c)
              /\ \/ Answered(c, WithoutClusters({ws[c].link.clus})) /\ Comes(proc'[c], proc[c], "restDeleteProject")
                 \/ Lost(c, WithoutClusters({ws[c].link.clus})) /\ Comes(proc'[c], proc[c], "eksDown")
  BY <1>0, CallTo DEF RestDeleteCluster, At
<1>8. RestDeleteProject(c) =>
              /\ proc[c].pc = "restDeleteProject" /\ Quiet(c)
              /\ \/ Answered(c, WithoutProject(ws[c].link.proj)) /\ Comes(proc'[c], proc[c], "forget")
                 \/ Lost(c, WithoutProject(ws[c].link.proj)) /\ Comes(proc'[c], proc[c], "eksDown")
  BY <1>0, CallTo DEF RestDeleteProject, At
<1>9. ASSUME Forget(c)
      PROVE   /\ proc[c].pc = "forget" /\ Sets(c, NoLink, 0, ws[c].kube, ws[c].jh, TRUE)
              /\ UNCHANGED <<forge, net, catalogue, faults, told, shared, cmds>>
              /\ proc' \in [Clusters -> ProcT] /\ Others(c) /\ proc'[c].fresh = proc[c].fresh
              /\ Made(proc'[c], proc[c], "eksDown", -1)
  <2> DEFINE Q(p) == [p EXCEPT !.clus = -1]
  <2>1. \A p \in ProcT : Q(p) \in ProcT /\ Made(Q(p), p, p.pc, -1) /\ Q(p).fresh = p.fresh
    BY DEF ProcT, Made
  <2>2. Goes(c, Q(To(c, "eksDown")))
    BY <1>9 DEF Forget
  <2> HIDE DEF Q
  <2>3. /\ Q(To(c, "eksDown")) \in ProcT /\ Made(Q(To(c, "eksDown")), proc[c], "eksDown", -1)
        /\ Q(To(c, "eksDown")).fresh = proc[c].fresh
    BY <1>0, <2>1, ToIs DEF Made
  <2>4. Sets(c, NoLink, 0, ws[c].kube, ws[c].jh, TRUE)
    BY <1>5, <1>9, SetsIs DEF Forget
  <2> QED BY <1>9, <2>2, <2>3, <2>4, GoesIs DEF Forget, At, Others
<1>10. EksDown(c) =>
              /\ proc[c].pc = "eksDown" /\ Sets(c, ws[c].link, ws[c].key, 0, ws[c].jh, ws[c].trusted)
              /\ \/ proc[c].clus = -1 /\ Stops(c, "down")
                 \/ proc[c].clus # -1 /\ Stops(c, "warned")
  BY <1>0, SetsIs, StopsAt DEF EksDown, At
<1> QED BY <1>3, <1>4, <1>6, <1>7, <1>8, <1>9, <1>10

\* A command begins: the point, and the key it starts from.
Begins(c, n, x, key) ==
  /\ UNCHANGED <<forge, net, catalogue, faults, shared>>
  /\ proc[c].pc = "idle" /\ cmds' = cmds + 1 /\ cmds' \in 1 .. MaxCmds
  /\ shared \/ c = Only(Clusters)
  /\ proc' \in [Clusters -> ProcT] /\ Others(c)
  /\ LET q == proc'[c] IN
       q.pc = x /\ q.cmd = n /\ q.key = key /\ q.try = 1 /\ q.proj = 0 /\ q.clus = 0
  /\ told' \in [Clusters -> Told] /\ told'[c] = "none"
  /\ \A d \in Clusters : d # c => told'[d] = told[d]

\* A command begins from the key in state.env.
LEMMA BeginsAt ==
  ASSUME Shapes, NEW c \in Clusters, NEW n \in Commands, NEW p \in Points, Begin(c, n, p)
  PROVE  Begins(c, n, p, ws[c].key)
<1>1. cmds' \in 1 .. MaxCmds /\ cmds' = cmds + 1
  BY ForgeCmdsAssumption DEF Begin, Shapes
<1> QED BY <1>1, BeginIs DEF Begins, Others

\* The start of each command.
LEMMA StartDoes ==
  ASSUME Shapes, NEW c \in Clusters
  PROVE  /\ StartUp(c) => UNCHANGED ws /\ Begins(c, "up", "eks", ws[c].key)
         /\ StartRegister(c) => UNCHANGED ws /\ Begins(c, "register", "verify", ws[c].key) /\ ws[c].kube # 0
         /\ StartCleanup(c) => UNCHANGED ws /\ Begins(c, "cleanup", "targets", ws[c].link.clus)
         /\ StartBenchmark(c) => UNCHANGED ws /\ Begins(c, "benchmark", "agent", ws[c].key)
         /\ \A b \in BOOLEAN : StartDown(c, b) =>
              /\ Sets(c, ws[c].link, ws[c].key, ws[c].kube, ws[c].jh, ws[c].link = NoLink)
              /\ Begins(c, IF b THEN "downKept" ELSE "down", "jumphost", ws[c].key)
         /\ \A b \in BOOLEAN : StartUnregister(c, b) =>
              /\ Sets(c, ws[c].link, ws[c].key, ws[c].kube, ws[c].jh, FALSE)
              /\ Begins(c, IF b THEN "purge" ELSE "unregister", "mcpDelete", ws[c].key)
              /\ b => ~shared
<1>0. /\ "eks" \in Points /\ "verify" \in Points /\ "targets" \in Points /\ "agent" \in Points /\ "jumphost" \in Points
      /\ "mcpDelete" \in Points
  BY DEF Points, UpPoints, RegisterPoints, DownPoints, BenchPoints
<1>1. /\ "up" \in Commands /\ "register" \in Commands /\ "cleanup" \in Commands /\ "benchmark" \in Commands
      /\ "downKept" \in Commands /\ "down" \in Commands /\ "purge" \in Commands /\ "unregister" \in Commands
  BY DEF Commands
<1>2. StartUp(c) => UNCHANGED ws /\ Begins(c, "up", "eks", ws[c].key)
  BY <1>0, <1>1, BeginsAt DEF StartUp
<1>3. StartRegister(c) => UNCHANGED ws /\ Begins(c, "register", "verify", ws[c].key) /\ ws[c].kube # 0
  BY <1>0, <1>1, BeginsAt DEF StartRegister
<1>4. ASSUME StartCleanup(c)
      PROVE  UNCHANGED ws /\ Begins(c, "cleanup", "targets", ws[c].link.clus)
  <2> DEFINE Q(i, k) == [i EXCEPT !.pc = "targets", !.cmd = "cleanup", !.key = k]
             q == Q(Idle, ws[c].link.clus)
  <2>1. \A i \in ProcT : \A k \in Nat :
          /\ Q(i, k) \in ProcT /\ Q(i, k).pc = "targets" /\ Q(i, k).cmd = "cleanup" /\ Q(i, k).key = k
          /\ Q(i, k).try = i.try /\ Q(i, k).proj = i.proj /\ Q(i, k).clus = i.clus
    BY <1>0, <1>1 DEF ProcT
  <2>2. ws[c].link.clus \in Nat
    BY DEF Shapes, Workspaces, Links
  <2>3. proc' = [proc EXCEPT ![c] = q]
    BY <1>4 DEF StartCleanup
  <2>4. /\ q \in ProcT /\ q.pc = "targets" /\ q.cmd = "cleanup" /\ q.key = ws[c].link.clus
        /\ q.try = 1 /\ q.proj = 0 /\ q.clus = 0
    BY <2>1, <2>2, IdleIs
  <2> HIDE DEF q, Q
  <2>5. proc' \in [Clusters -> ProcT] /\ Others(c) /\ proc'[c] = q
    BY <2>3, <2>4 DEF Shapes, Others
  <2>6. told' \in [Clusters -> Told] /\ told'[c] = "none" /\ (\A d \in Clusters : d # c => told'[d] = told[d])
    BY <1>4 DEF StartCleanup, Shapes, Told
  <2>7. cmds' \in 1 .. MaxCmds /\ cmds' = cmds + 1
    BY <1>4, ForgeCmdsAssumption DEF StartCleanup, Shapes
  <2>8. /\ UNCHANGED <<forge, net, catalogue, faults, shared>> /\ UNCHANGED ws
        /\ proc[c].pc = "idle" /\ (shared \/ c = Only(Clusters))
    BY <1>4 DEF StartCleanup, serverVars
  <2> QED BY <2>4, <2>5, <2>6, <2>7, <2>8 DEF Begins
<1>5. StartBenchmark(c) => UNCHANGED ws /\ Begins(c, "benchmark", "agent", ws[c].key)
  BY <1>0, <1>1, BeginsAt DEF StartBenchmark
<1>6. \A b \in BOOLEAN : StartDown(c, b) =>
              /\ Sets(c, ws[c].link, ws[c].key, ws[c].kube, ws[c].jh, ws[c].link = NoLink)
              /\ Begins(c, IF b THEN "downKept" ELSE "down", "jumphost", ws[c].key)
  <2>1. (ws[c].link = NoLink) \in BOOLEAN
    OBVIOUS
  <2> QED BY <1>0, <1>1, <2>1, BeginsAt, SetsIs DEF StartDown
<1>7. \A b \in BOOLEAN : StartUnregister(c, b) =>
              /\ Sets(c, ws[c].link, ws[c].key, ws[c].kube, ws[c].jh, FALSE)
              /\ Begins(c, IF b THEN "purge" ELSE "unregister", "mcpDelete", ws[c].key)
              /\ b => ~shared
  BY <1>0, <1>1, BeginsAt, SetsIs DEF StartUnregister
<1> QED BY <1>2, <1>3, <1>4, <1>5, <1>6, <1>7

-----------------------------------------------------------------------------
(* Whose the ids are: the part of the invariant for every workspace.        *)

\* The records refer to each other.
Consistent(f) ==
  /\ \A p \in f.projects : p.id < f.next
  /\ \A k \in f.clusters : k.id < f.next /\ \E p \in f.projects : p.id = k.proj
  /\ \A p, q \in f.projects : p.id = q.id => p = q
  /\ \A k, l \in f.clusters : k.id = l.id => k = l
  /\ \A t \in f.targets : t.cluster = 0 \/ \E k \in f.clusters : k.id = t.cluster

\* An id that a workspace holds is of a cluster, or a project, of its own.
Mine(c, i) == i < forge.next /\ \A k \in forge.clusters : k.id = i => k.name = c
MyProject(c, i) == i < forge.next /\ \A p \in forge.projects : p.id = i => p.name \in {c, "shared"}
Owned(c) ==
  /\ Mine(c, ws[c].link.clus) /\ Mine(c, ws[c].key) /\ Mine(c, proc[c].key) /\ Mine(c, proc[c].clus)
  /\ MyProject(c, ws[c].link.proj) /\ MyProject(c, proc[c].proj)
  /\ proc[c].pc \in {"byNameCluster", "byNameDelete"} =>
       \A p \in forge.projects : p.id = proc[c].proj => p.name = c
\* A cluster is in a project of its name or in the shared one; without a shared one all is of one
\* workspace.
NamesFit ==
  /\ \A k \in forge.clusters : \A p \in forge.projects : p.id = k.proj => p.name \in {k.name, "shared"}
  /\ ~shared => /\ \A p \in forge.projects : p.name = Only(Clusters)
                /\ \A k \in forge.clusters : k.name = Only(Clusters)
\* A link holds ids exactly while registered; the jumphost goes with the EKS cluster, and first.
Link(c) ==
  LET l == ws[c].link IN
  /\ IF IsRegistered(l) THEN l.proj # 0 /\ l.clus # 0 ELSE l.proj = 0 /\ l.clus = 0
  /\ ws[c].jh = 0 \/ ws[c].jh = ws[c].kube
  /\ proc[c].cmd \in {"down", "downKept"} /\ proc[c].pc # "jumphost" => ws[c].jh = 0
\* Without a shared project one workspace is all there is.
Solo(c) == shared \/ c = Only(Clusters) \/ (proc[c].pc = "idle" /\ told[c] = "none" /\ ws[c].link = NoLink)

\* The part of the invariant that is about who owns what.
Base ==
  /\ Shapes /\ Flows /\ Consistent(forge) /\ NamesFit
  /\ \A c \in Clusters : Owned(c) /\ Link(c) /\ Solo(c)
  /\ \A c \in Clusters : proc[c].pc # "idle" => cmds > 0

\* All that a step of c may do to the server.
ForgeStep(c) ==
  \/ forge' = forge
  \/ ProjectsNamed(ProjectName(c)) = {} /\ forge' = WithProject(ProjectName(c))
  \/ Exists(proc[c].proj) /\ forge' = WithCluster(c, proc[c].proj, ws[c].kube)
  \/ \E k \in ClustersNamed(c, proc[c].proj) : forge' = WithKubeconfig(k.id, ws[c].kube)
  \/ \E gone : forge' = WithoutClusters(gone)
  \/ \E j : forge' = WithoutProject(j)
  \/ \E T \in SUBSET TargetT : /\ forge' = [forge EXCEPT !.targets = T]
                               /\ \A t \in T : t \in forge.targets \/ \E k \in forge.clusters : k.id = t.cluster
  \/ \E A \in SUBSET (Clusters \X Nat) : forge' = [forge EXCEPT !.agents = A]

\* What is new on the server is of c, and has an id that was never used.
Kin(c) ==
  /\ forge'.next >= forge.next
  /\ \A p \in forge'.projects : \/ p \in forge.projects
                                \/ p.id = forge.next /\ p.name \in {c, "shared"} /\ (~shared => p.name = c)
  /\ \A k \in forge'.clusters : \/ \E x \in forge.clusters : x.id = k.id /\ x.name = k.name /\ x.proj = k.proj
                                \/ k.id = forge.next /\ k.name = c /\ k.proj = proc[c].proj

\* Whatever a step does to the server, its records stay consistent.
LEMMA ForgeSteps ==
  ASSUME Base, NEW c \in Clusters, ForgeStep(c)
  PROVE  forge' \in ForgeT /\ Consistent(forge') /\ Kin(c)
<1>0. /\ Shapes /\ Consistent(forge) /\ forge \in ForgeT /\ forge.next \in Nat
      /\ forge.projects \subseteq ProjectT /\ forge.clusters \subseteq ClusterT /\ forge.targets \subseteq TargetT
      /\ \A p \in forge.projects : p.id \in Nat
      /\ \A k \in forge.clusters : k.id \in Nat
  BY DEF Base, Shapes, ForgeT, ProjectT, ClusterT, Ids
<1>1. CASE forge' = forge
  BY <1>0, <1>1 DEF Kin
<1>2. CASE ProjectsNamed(ProjectName(c)) = {} /\ forge' = WithProject(ProjectName(c))
  <2> DEFINE n == ProjectName(c)
             q == [id |-> forge.next, name |-> n]
  <2>1. n \in Clusters \cup {"shared"} /\ n \in {c, "shared"} /\ (~shared => n = c)
    BY <1>0, ProjectNames
  <2>2. /\ forge' \in ForgeT /\ forge'.projects = forge.projects \cup {q}
        /\ forge'.clusters = forge.clusters /\ forge'.targets = forge.targets /\ forge'.next = forge.next + 1
    BY <1>0, <1>2, <2>1, WithProjectIs
  <2>3. q.id = forge.next /\ q.name = n
    OBVIOUS
  <2> HIDE DEF n, q
  <2>4. Consistent(forge')
    BY <1>0, <2>2, <2>3 DEF Consistent
  <2> QED BY <1>0, <2>1, <2>2, <2>3, <2>4 DEF Kin
<1>3. CASE Exists(proc[c].proj) /\ forge' = WithCluster(c, proc[c].proj, ws[c].kube)
  <2> DEFINE x == [id |-> forge.next, name |-> c, proj |-> proc[c].proj, kube |-> ws[c].kube]
  <2>1. proc[c].proj \in Ids /\ ws[c].kube \in 0 .. MaxCmds
    BY <1>0, <1>3 DEF Exists, ProjectT, Shapes, Workspaces
  <2>2. /\ forge' \in ForgeT /\ forge'.clusters = forge.clusters \cup {x}
        /\ forge'.projects = forge.projects /\ forge'.targets = forge.targets /\ forge'.next = forge.next + 1
    BY <1>0, <1>3, <2>1, WithClusterIs
  <2>3. x.id = forge.next /\ x.name = c /\ x.proj = proc[c].proj
    OBVIOUS
  <2> HIDE DEF x
  <2>4. Consistent(forge')
    BY <1>0, <1>3, <2>2, <2>3 DEF Consistent, Exists
  <2> QED BY <1>0, <2>2, <2>3, <2>4 DEF Kin
<1>4. ASSUME NEW k \in ClustersNamed(c, proc[c].proj), forge' = WithKubeconfig(k.id, ws[c].kube)
      PROVE  forge' \in ForgeT /\ Consistent(forge') /\ Kin(c)
  <2>1. k.id \in Ids /\ ws[c].kube \in 0 .. MaxCmds
    BY <1>0 DEF ClustersNamed, ClusterT, Shapes, Workspaces
  <2>2. /\ forge' \in ForgeT
        /\ forge'.projects = forge.projects /\ forge'.targets = forge.targets /\ forge'.next = forge.next
        /\ \A y \in forge'.clusters : \E x \in forge.clusters : y.id = x.id /\ y.name = x.name /\ y.proj = x.proj
        /\ \A x \in forge.clusters : \E y \in forge'.clusters : y.id = x.id
        /\ \A y, z \in forge'.clusters : y.id = z.id => y = z
    <3>1. /\ forge' \in ForgeT
          /\ forge'.projects = forge.projects /\ forge'.targets = forge.targets /\ forge'.next = forge.next
          /\ \A y \in forge'.clusters : \E x \in forge.clusters : y.id = x.id /\ y.name = x.name /\ y.proj = x.proj
          /\ \A x \in forge.clusters : \E y \in forge'.clusters : y.id = x.id
      BY <1>0, <1>4, <2>1, WithKubeconfigIs
    <3> DEFINE New(x) == IF x.id = k.id THEN [x EXCEPT !.kube = ws[c].kube] ELSE x
    <3>2. forge'.clusters = {New(x) : x \in forge.clusters}
      BY <1>4, <1>0 DEF WithKubeconfig, ForgeT
    <3>3. \A x \in forge.clusters : New(x).id = x.id
      BY <1>0 DEF ClusterT
    <3> HIDE DEF New
    <3>4. \A y, z \in forge'.clusters : y.id = z.id => y = z
      BY <1>0, <3>2, <3>3 DEF Consistent
    <3> QED BY <3>1, <3>4
  <2>3. Consistent(forge')
    BY <1>0, <2>2 DEF Consistent
  <2> QED BY <1>0, <2>2, <2>3 DEF Kin
<1>5. ASSUME NEW gone, forge' = WithoutClusters(gone)
      PROVE  forge' \in ForgeT /\ Consistent(forge') /\ Kin(c)
  <2>1. /\ forge' \in ForgeT
        /\ forge'.projects = forge.projects /\ forge'.next = forge.next
        /\ forge'.clusters = {k \in forge.clusters : k.id \notin gone}
        /\ \A t \in forge'.targets : t.cluster = 0 \/ (t \in forge.targets /\ t.cluster \notin gone)
    BY <1>0, <1>5, WithoutClustersIs
  <2> QED BY <1>0, <2>1 DEF Consistent, Kin
<1>6. ASSUME NEW j, forge' = WithoutProject(j)
      PROVE  forge' \in ForgeT /\ Consistent(forge') /\ Kin(c)
  <2>1. /\ forge' \in ForgeT
        /\ forge'.projects = {p \in forge.projects : p.id # j} /\ forge'.next = forge.next
        /\ forge'.clusters = {k \in forge.clusters : \A x \in forge.clusters : x.proj = j => x.id # k.id}
        /\ \A t \in forge'.targets : t.cluster = 0 \/ (t \in forge.targets /\ \A x \in forge.clusters : x.proj = j => x.id # t.cluster)
    BY <1>0, <1>6, WithoutProjectIs
  <2>2. \A k \in forge'.clusters : k \in forge.clusters /\ k.proj # j
    BY <2>1
  <2>3. \A k \in forge'.clusters : k.id < forge'.next /\ \E p \in forge'.projects : p.id = k.proj
    BY <1>0, <2>1, <2>2 DEF Consistent
  <2>4. \A t \in forge'.targets : t.cluster = 0 \/ \E k \in forge'.clusters : k.id = t.cluster
    BY <1>0, <2>1 DEF Consistent
  <2>5. Consistent(forge')
    BY <1>0, <2>1, <2>2, <2>3, <2>4 DEF Consistent
  <2> QED BY <1>0, <2>1, <2>5 DEF Kin
<1>7. ASSUME NEW T \in SUBSET TargetT, forge' = [forge EXCEPT !.targets = T],
             \A t \in T : t \in forge.targets \/ \E k \in forge.clusters : k.id = t.cluster
      PROVE  forge' \in ForgeT /\ Consistent(forge') /\ Kin(c)
  <2>1. /\ forge' \in ForgeT /\ forge'.targets = T
        /\ forge'.projects = forge.projects /\ forge'.clusters = forge.clusters /\ forge'.next = forge.next
    BY <1>0, <1>7, TargetsIs
  <2> QED BY <1>0, <1>7, <2>1 DEF Consistent, Kin
<1>8. ASSUME NEW A \in SUBSET (Clusters \X Nat), forge' = [forge EXCEPT !.agents = A]
      PROVE  forge' \in ForgeT /\ Consistent(forge') /\ Kin(c)
  <2>1. /\ forge' \in ForgeT /\ forge'.targets = forge.targets
        /\ forge'.projects = forge.projects /\ forge'.clusters = forge.clusters /\ forge'.next = forge.next
    BY <1>0, <1>8, AgentsIs
  <2> QED BY <1>0, <2>1 DEF Consistent, Kin
<1> QED BY <1>1, <1>2, <1>3, <1>4, <1>5, <1>6, <1>7, <1>8 DEF ForgeStep

\* An id just given out.
Fresh(i) == i = forge.next /\ forge'.next > forge.next
\* What every step of c is, as far as Base can tell.
Turn(c) ==
  /\ ForgeStep(c) /\ UNCHANGED <<net, catalogue, shared>> /\ faults' \in faults .. MaxFaults
  /\ cmds' \in 0 .. MaxCmds /\ cmds' >= cmds
  /\ proc' \in [Clusters -> ProcT] /\ ws' \in [Clusters -> Workspaces] /\ told' \in [Clusters -> Told]
  /\ Others(c) /\ \A d \in Clusters : d # c => ws'[d] = ws[d] /\ told'[d] = told[d]
  /\ shared \/ c = Only(Clusters)
  /\ Flow(proc'[c]) /\ Link(c)' /\ (proc'[c].pc # "idle" => cmds' > 0)
  /\ Mine(c, ws'[c].link.clus) /\ Mine(c, ws'[c].key) /\ Mine(c, proc'[c].key)
  /\ Mine(c, proc'[c].clus) \/ Fresh(proc'[c].clus)
  /\ MyProject(c, ws'[c].link.proj) /\ (MyProject(c, proc'[c].proj) \/ Fresh(proc'[c].proj))
  /\ proc'[c].pc \in {"byNameCluster", "byNameDelete"} =>
       proc'[c].proj < forge.next /\ \A p \in forge.projects : p.id = proc'[c].proj => p.name = c

\* A turn keeps Base.
LEMMA TurnKeeps ==
  ASSUME Base, NEW c \in Clusters, Turn(c)
  PROVE  Base'
<1>0. /\ Shapes /\ Flows /\ Consistent(forge) /\ NamesFit
      /\ \A d \in Clusters : Owned(d) /\ Link(d) /\ Solo(d)
      /\ \A d \in Clusters : proc[d].pc # "idle" => cmds > 0
      /\ cmds \in Nat /\ cmds' \in Nat /\ forge.next \in Nat
  BY DEF Base, Shapes, ForgeT, Ids, Turn
<1>1. forge' \in ForgeT /\ Consistent(forge') /\ Kin(c)
  BY ForgeSteps DEF Turn
<1>2. Shapes'
  BY <1>0, <1>1 DEF Shapes, Turn
<1>3. Flows'
  BY <1>0 DEF Flows, Turn, Others
<1>4. /\ forge'.next \in Nat
      /\ \A p \in forge.projects : p.id \in Nat /\ p.id < forge.next
      /\ \A k \in forge.clusters : k.id \in Nat /\ k.id < forge.next
  BY <1>0, <1>1 DEF Shapes, ForgeT, Ids, ProjectT, ClusterT, Consistent
<1>5. \A d \in Clusters : \A i \in Int : Mine(d, i) => Mine(d, i)'
  BY <1>0, <1>1, <1>4 DEF Mine, Kin
<1>6. \A d \in Clusters : \A i \in Int : MyProject(d, i) => MyProject(d, i)'
  BY <1>0, <1>1, <1>4 DEF MyProject, Kin
<1>7. \A i \in Int : Fresh(i) => Mine(c, i)' /\ MyProject(c, i)'
  BY <1>0, <1>1, <1>4 DEF Mine, MyProject, Fresh, Kin
<1>8. \A d \in Clusters : Owned(d)'
  <2>1. \A d \in Clusters : /\ ws[d].link.clus \in Int /\ ws[d].key \in Int /\ proc[d].key \in Int
                            /\ proc[d].clus \in Int /\ ws[d].link.proj \in Int /\ proc[d].proj \in Int
    BY <1>0 DEF Shapes, Workspaces, Links, ProcT
  <2>2. \A d \in Clusters : /\ ws'[d].link.clus \in Int /\ ws'[d].key \in Int /\ proc'[d].key \in Int
                            /\ proc'[d].clus \in Int /\ ws'[d].link.proj \in Int /\ proc'[d].proj \in Int
    BY <1>2 DEF Shapes, Workspaces, Links, ProcT
  <2>3. ASSUME NEW d \in Clusters, d # c PROVE Owned(d)'
    <3>1. ws'[d] = ws[d] /\ proc'[d] = proc[d]
      BY <2>3 DEF Turn, Others
    <3>2. /\ Mine(d, ws[d].link.clus)' /\ Mine(d, ws[d].key)' /\ Mine(d, proc[d].key)' /\ Mine(d, proc[d].clus)'
          /\ MyProject(d, ws[d].link.proj)' /\ MyProject(d, proc[d].proj)'
      BY <1>0, <1>5, <1>6, <2>1, <3>1 DEF Owned, Mine, MyProject
    <3>3. proc[d].pc \in {"byNameCluster", "byNameDelete"} =>
             \A p \in forge'.projects : p.id = proc[d].proj => p.name = d
      BY <1>0, <1>1, <1>4, <2>1 DEF Owned, MyProject, Kin
    <3> QED BY <3>1, <3>2, <3>3 DEF Owned
  <2>4. Owned(c)'
    <3>1. /\ Mine(c, ws[c].link.clus)' /\ Mine(c, ws[c].key)' /\ Mine(c, proc[c].key)' /\ Mine(c, proc[c].clus)'
          /\ MyProject(c, ws[c].link.proj)' /\ MyProject(c, proc[c].proj)'
      BY <1>5, <1>6, <1>7, <2>2 DEF Turn, Mine, MyProject
    <3>2. proc'[c].pc \in {"byNameCluster", "byNameDelete"} =>
             \A p \in forge'.projects : p.id = proc'[c].proj => p.name = c
      BY <1>1, <1>4, <2>2 DEF Turn, Kin
    <3> QED BY <3>1, <3>2 DEF Owned
  <2> QED BY <2>3, <2>4
<1>9. NamesFit'
  <2>1. \A k \in forge'.clusters : \A p \in forge'.projects : p.id = k.proj => p.name \in {k.name, "shared"}
    <3>1. MyProject(c, proc[c].proj) /\ proc[c].proj \in Int
      BY <1>0 DEF Owned, Shapes, ProcT
    <3> QED BY <1>0, <1>1, <1>4, <3>1 DEF NamesFit, Kin, Consistent, MyProject
  <2>2. shared' = shared /\ (shared \/ c = Only(Clusters))
    BY DEF Turn
  <2> QED BY <1>0, <1>1, <2>1, <2>2 DEF NamesFit, Kin
<1>10. \A d \in Clusters : Link(d)'
  BY <1>0 DEF Link, Turn, Others
<1>11. \A d \in Clusters : Solo(d)'
  BY <1>0 DEF Solo, Turn, Others
<1>12. \A d \in Clusters : proc'[d].pc # "idle" => cmds' > 0
  BY <1>0 DEF Turn, Others
<1> QED BY <1>1, <1>2, <1>3, <1>8, <1>9, <1>10, <1>11, <1>12 DEF Base

-----------------------------------------------------------------------------
(* Every step is a turn of its workspace.                                   *)

\* The points at which the project, or the cluster, in hand matters.
Special == {"mcpCluster", "restCluster", "writeLink", "byNameCluster", "byNameDelete"}

\* A call is a turn if it leaves c with ids of its own.
LEMMA Turns ==
  ASSUME Base, NEW c \in Clusters, proc[c].pc \notin {"idle", "jumphost"}, Quiet(c), ForgeStep(c),
         proc'[c].cmd = proc[c].cmd, proc'[c].key = proc[c].key, Flow(proc'[c]),
         Mine(c, proc'[c].clus) \/ Fresh(proc'[c].clus),
         MyProject(c, proc'[c].proj) \/ Fresh(proc'[c].proj),
         proc'[c].pc \in {"byNameCluster", "byNameDelete"} =>
           proc'[c].proj < forge.next /\ \A p \in forge.projects : p.id = proc'[c].proj => p.name = c
  PROVE  Turn(c)
<1>1. /\ Shapes /\ Owned(c) /\ Link(c) /\ Solo(c) /\ (proc[c].pc # "idle" => cmds > 0) /\ cmds \in 0 .. MaxCmds
      /\ ws \in [Clusters -> Workspaces] /\ told \in [Clusters -> Told]
  BY DEF Base, Shapes
<1>2. Link(c)'
  BY <1>1 DEF Link, Quiet
<1>3. shared \/ c = Only(Clusters)
  BY <1>1 DEF Solo
<1> QED BY <1>1, <1>2, <1>3 DEF Turn, Quiet, Owned

\* The step is to another point, and changes what it holds at most by what it says.
LEMMA ComesTurn ==
  ASSUME Base, NEW c \in Clusters, NEW x, proc[c].pc \notin {"idle", "jumphost", "eksDown"}, Quiet(c), ForgeStep(c),
         Comes(proc'[c], proc[c], x), Along(proc[c].cmd, x),
         x \notin {"mcpCluster", "restCluster", "writeLink", "byNameCluster"},
         x = "byNameDelete" => proc[c].pc = "byNameCluster"
  PROVE  Turn(c)
<1>1. Flow(proc[c]) /\ Owned(c)
  BY DEF Base, Flows
<1>2. Flow(proc'[c])
  BY <1>1 DEF Flow, Comes
<1>3. /\ Mine(c, proc'[c].clus) /\ MyProject(c, proc'[c].proj)
      /\ proc'[c].pc \in {"byNameCluster", "byNameDelete"} =>
           proc'[c].proj < forge.next /\ \A p \in forge.projects : p.id = proc'[c].proj => p.name = c
  BY <1>1 DEF Owned, Comes, MyProject
<1> QED BY <1>2, <1>3, Turns DEF Comes

\* So is a failed try,
LEMMA RetriesTurn ==
  ASSUME Base, NEW c \in Clusters, Quiet(c), ForgeStep(c), Retries(proc'[c], proc[c]),
         proc[c].pc \in {"mcpProject", "restProject", "rollback"}
  PROVE  Turn(c)
<1>1. Flow(proc[c]) /\ Owned(c) /\ proc[c].cmd \in Commands
  BY DEF Base, Flows, Shapes, ProcT
<1>2. Flow(proc'[c])
  BY <1>1 DEF Flow, Along, Retries, UpPoints, RegisterPoints, DownPoints, KeptPoints, UnregisterPoints, CleanupPoints, BenchPoints, Commands
<1>3. proc'[c].pc \notin {"byNameCluster", "byNameDelete"}
  BY DEF Retries
<1>4. Mine(c, proc'[c].clus) /\ MyProject(c, proc'[c].proj)
  BY <1>1 DEF Owned, Retries
<1> QED BY <1>2, <1>3, <1>4, Turns DEF Retries

\* a project taken in hand,
LEMMA UsesTurn ==
  ASSUME Base, NEW c \in Clusters, NEW x, NEW j \in Nat, Quiet(c), ForgeStep(c), Uses(proc'[c], proc[c], x, j),
         proc[c].pc \notin {"idle", "jumphost", "eksDown"}, Along(proc[c].cmd, x), x \in Special \ {"writeLink"},
         j # 0, MyProject(c, j) \/ Fresh(j),
         x \in {"byNameCluster", "byNameDelete"} => j < forge.next /\ \A p \in forge.projects : p.id = j => p.name = c
  PROVE  Turn(c)
<1>1. Flow(proc[c]) /\ Owned(c)
  BY DEF Base, Flows
<1>2. Flow(proc'[c])
  BY <1>1 DEF Flow, Uses, Special
<1> QED BY <1>1, <1>2, Turns DEF Uses, Owned

\* and a cluster taken in hand.
LEMMA MadeTurn ==
  ASSUME Base, NEW c \in Clusters, NEW k \in Nat, Quiet(c), ForgeStep(c), Made(proc'[c], proc[c], "writeLink", k),
         proc[c].pc \in {"mcpCluster", "restCluster"}, k # 0, Mine(c, k) \/ Fresh(k)
  PROVE  Turn(c)
<1>1. Flow(proc[c]) /\ Owned(c) /\ proc[c].cmd \in Commands
  BY DEF Base, Flows, Shapes, ProcT
<1>2. Flow(proc'[c])
  BY <1>1 DEF Flow, Along, Made, UpPoints, RegisterPoints, DownPoints, KeptPoints, UnregisterPoints, CleanupPoints, BenchPoints, Commands
<1> QED BY <1>1, <1>2, Turns DEF Made, Owned

\* No id is anybody's own.
LEMMA ZeroMine ==
  ASSUME Base, NEW c \in Clusters
  PROVE  Mine(c, 0) /\ Mine(c, -1) /\ MyProject(c, 0)
  BY DEF Base, Shapes, ForgeT, ClusterT, ProjectT, Ids, Mine, MyProject

\* A workspace left as it is, as a rewriting.
LEMMA StillSets ==
  ASSUME Shapes, NEW c \in Clusters, UNCHANGED ws
  PROVE  Sets(c, ws[c].link, ws[c].key, ws[c].kube, ws[c].jh, ws[c].trusted)
  BY DEF Shapes, Sets

\* A step without a call.
LinkOk(l) == IF IsRegistered(l) THEN l.proj # 0 /\ l.clus # 0 ELSE l.proj = 0 /\ l.clus = 0
LocalStep(c) ==
  /\ UNCHANGED <<forge, net, catalogue, faults, shared, cmds>>
  /\ proc' \in [Clusters -> ProcT] /\ Others(c)
  /\ told' \in [Clusters -> Told] /\ \A d \in Clusters : d # c => told'[d] = told[d]

\* A step without a call is a turn if what it writes is of c:
LEMMA LocalTurn ==
  ASSUME Base, NEW c \in Clusters, proc[c].pc # "idle", LocalStep(c),
         NEW l, NEW key, NEW kube, NEW jh, NEW b, Sets(c, l, key, kube, jh, b),
         Flow(proc'[c]), Mine(c, l.clus), Mine(c, key), Mine(c, proc'[c].key), Mine(c, proc'[c].clus),
         MyProject(c, l.proj), MyProject(c, proc'[c].proj), LinkOk(l), jh = 0 \/ jh = kube,
         proc'[c].pc \notin {"byNameCluster", "byNameDelete"},
         proc'[c].cmd \in {"down", "downKept"} /\ proc'[c].pc # "jumphost" => jh = 0
  PROVE  Turn(c)
<1>1. Shapes /\ Solo(c) /\ (proc[c].pc # "idle" => cmds > 0) /\ cmds \in 0 .. MaxCmds /\ faults \in 0 .. MaxFaults
  BY DEF Base, Shapes
<1>2. Link(c)'
  BY DEF Link, LinkOk, Sets
<1>3. ForgeStep(c)
  BY DEF ForgeStep, LocalStep
<1>4. /\ ws' \in [Clusters -> Workspaces] /\ (\A d \in Clusters : d # c => ws'[d] = ws[d])
      /\ ws'[c].link = l /\ ws'[c].key = key
  BY DEF Sets
<1> QED BY <1>1, <1>2, <1>3, <1>4 DEF Turn, LocalStep, Solo

\* What is kept of a workspace when a command walks on or stops.
LEMMA Keeps ==
  ASSUME Base, NEW c \in Clusters
  PROVE  LET w == ws[c] IN
         /\ Mine(c, w.link.clus) /\ Mine(c, w.key) /\ Mine(c, proc[c].key) /\ Mine(c, proc[c].clus)
         /\ MyProject(c, w.link.proj) /\ MyProject(c, proc[c].proj) /\ LinkOk(w.link)
         /\ w.jh = 0 \/ w.jh = w.kube
         /\ proc[c].cmd \in {"down", "downKept"} /\ proc[c].pc # "jumphost" => w.jh = 0
         /\ Flow(proc[c]) /\ proc[c].cmd \in Commands /\ proc[c].clus \in Int
         /\ told \in [Clusters -> Told]
  BY DEF Base, Owned, Link, LinkOk, Flows, Shapes, ProcT

\* to another point,
LEMMA WalksTurn ==
  ASSUME Base, NEW c \in Clusters, NEW x, proc[c].pc \notin {"idle", "eksDown"}, Walks(c, x), Along(proc[c].cmd, x), x \notin Special,
         NEW l, NEW key, NEW kube, NEW jh, NEW b, Sets(c, l, key, kube, jh, b),
         Mine(c, l.clus), Mine(c, key), MyProject(c, l.proj), LinkOk(l), jh = 0 \/ jh = kube,
         proc[c].cmd \in {"down", "downKept"} => jh = 0
  PROVE  Turn(c)
<1>1. LocalStep(c) /\ Flow(proc'[c])
  BY Keeps DEF Walks, LocalStep, Flow, Comes, Special
<1> QED BY <1>1, Keeps, LocalTurn DEF Walks, Comes, Special

\* or to the end.
LEMMA StopsTurn ==
  ASSUME Base, NEW c \in Clusters, NEW r, proc[c].pc # "idle", Stops(c, r),
         NEW l, NEW key, NEW kube, NEW jh, NEW b, Sets(c, l, key, kube, jh, b),
         Mine(c, l.clus), Mine(c, key), MyProject(c, l.proj), LinkOk(l), jh = 0 \/ jh = kube
  PROVE  Turn(c)
<1>1. LocalStep(c)
  BY DEF Stops, LocalStep
<1>2. Flow(proc'[c])
  BY IdleIs DEF Stops, Flow, Along
<1> QED BY <1>1, <1>2, ZeroMine, IdleIs, LocalTurn DEF Stops

\* Which commands pass through a point.
LEMMA Ways ==
  ASSUME Base, NEW c \in Clusters
  PROVE  LET p == proc[c] IN
         /\ p.pc \in {"eks", "phase09", "restProject", "restCluster", "pending", "later"} => p.cmd = "up"
         /\ p.pc \in {"verify"} => p.cmd = "register"
         /\ p.pc \in {"mcpProject", "mcpFind", "mcpCluster", "rollback", "writeLink"} => p.cmd \in {"up", "register"}
         /\ p.pc \in {"jumphost", "phase09Down", "eksDown"} => p.cmd \in {"down", "downKept"}
         /\ p.pc \in {"byName", "byNameCluster", "byNameDelete", "restDelete", "restDeleteProject", "forget"} => p.cmd = "down"
         /\ p.pc \in {"mcpDelete", "mcpDeleteProject", "removeLink"} => p.cmd \in {"down", "unregister", "purge"}
         /\ p.pc \in {"targets", "agents"} => p.cmd \in {"down", "downKept", "cleanup"}
         /\ p.pc = "agent" \/ p.pc = "target" => p.cmd = "benchmark"
         /\ p.pc = "cleaned" => p.cmd \in {"cleanup", "benchmark"}
         /\ p.pc = "giveUp" => p.cmd \in {"register", "unregister", "purge"}
         /\ (p.pc = "idle") = (p.cmd = "none")
  BY Keeps DEF Flow, Along, Commands, UpPoints, RegisterPoints, DownPoints, KeptPoints, UnregisterPoints,
               CleanupPoints, BenchPoints

\* The steps of `up` and `register` that make no call, and the link written, are turns,
LEMMA UpTurns ==
  ASSUME Base, NEW c \in Clusters
  PROVE  /\ EksCluster(c) => Turn(c)
         /\ Phase09(c) => Turn(c)
         /\ Verify(c) => Turn(c)
         /\ GiveUp(c) => Turn(c)
         /\ WritePending(c) => Turn(c)
         /\ Later(c) => Turn(c)
         /\ WriteLink(c) => Turn(c)
<1> DEFINE w == ws[c]
<1>0. Shapes /\ (UNCHANGED ws => Sets(c, w.link, w.key, w.kube, w.jh, w.trusted))
  BY StillSets DEF Base
<1> USE DEF UpPoints, RegisterPoints, Special
<1>1. ASSUME EksCluster(c) PROVE Turn(c)
  <2>1. proc[c].pc = "eks" /\ Walks(c, "phase09") /\ proc[c].cmd = "up" /\ Along("up", "phase09")
    BY <1>0, <1>1, UpDoes, Ways DEF Along
  <2>2. \/ Sets(c, w.link, w.key, w.kube, w.jh, w.trusted)
        \/ Sets(c, w.link, w.key, cmds, cmds, w.trusted)
    BY <1>0, <1>1, UpDoes
  <2> QED BY <2>1, <2>2, Keeps, WalksTurn
<1>2. ASSUME Phase09(c) PROVE Turn(c)
  <2>1. proc[c].pc = "phase09" /\ UNCHANGED ws /\ proc[c].cmd = "up"
    BY <1>0, <1>2, UpDoes, Ways
  <2>2. CASE ~IsRegistered(w.link)
    <3>1. Walks(c, "mcpProject") /\ Along("up", "mcpProject")
      BY <1>0, <1>2, <2>2, UpDoes DEF Along
    <3> QED BY <1>0, <2>1, <3>1, Keeps, WalksTurn
  <2>3. CASE IsRegistered(w.link)
    <3>1. /\ UNCHANGED <<forge, net, catalogue, faults, told, shared, cmds>>
          /\ proc' \in [Clusters -> ProcT] /\ Others(c) /\ Keyed(proc'[c], proc[c], "later", w.link.clus)
      BY <1>0, <1>2, <2>3, UpDoes
    <3>2. LocalStep(c)
      BY <3>1, Keeps DEF LocalStep
    <3>3. Flow(proc'[c])
      BY <2>1, <3>1, Keeps DEF Flow, Along, Keyed
    <3> QED BY <1>0, <2>1, <3>1, <3>2, <3>3, Keeps, LocalTurn DEF Keyed
  <2> QED BY <2>2, <2>3
<1>3. ASSUME Verify(c) PROVE Turn(c)
  <2>1. proc[c].pc = "verify" /\ UNCHANGED ws /\ proc[c].cmd = "register" /\ Along("register", "mcpProject")
    BY <1>0, <1>3, UpDoes, Ways DEF Along
  <2>2. Walks(c, "mcpProject") \/ Stops(c, "ok") \/ Stops(c, "failed")
    BY <1>0, <1>3, UpDoes
  <2>3. CASE Walks(c, "mcpProject")
    BY <1>0, <2>1, <2>3, Keeps, WalksTurn
  <2>4. CASE Stops(c, "ok") \/ Stops(c, "failed")
    BY <1>0, <2>1, <2>4, Keeps, StopsTurn
  <2> QED BY <2>2, <2>3, <2>4
<1>4. ASSUME GiveUp(c) PROVE Turn(c)
  <2>1. proc[c].pc = "giveUp" /\ UNCHANGED ws /\ Stops(c, "failed")
    BY <1>0, <1>4, UpDoes
  <2> QED BY <1>0, <2>1, Keeps, StopsTurn
<1>5. ASSUME WritePending(c) PROVE Turn(c)
  <2>1. /\ proc[c].pc = "pending" /\ Walks(c, "later") /\ proc[c].cmd = "up" /\ Along("up", "later")
        /\ Sets(c, Pending, w.key, w.kube, w.jh, w.trusted)
    BY <1>0, <1>5, UpDoes, Ways DEF Along
  <2>2. LinkOk(Pending) /\ Pending.clus = 0 /\ Pending.proj = 0
    BY DEF LinkOk, Pending, NoLink, IsRegistered
  <2> QED BY <2>1, <2>2, Keeps, ZeroMine, WalksTurn
<1>6. ASSUME Later(c) PROVE Turn(c)
  <2>1. /\ proc[c].pc = "later" /\ Sets(c, w.link, proc[c].key, w.kube, w.jh, w.trusted)
        /\ Stops(c, "up") \/ Stops(c, "late")
    BY <1>0, <1>6, UpDoes
  <2> QED BY <2>1, Keeps, StopsTurn
<1>7. ASSUME WriteLink(c) PROVE Turn(c)
  <2> DEFINE l == [status |-> "registered", proj |-> proc[c].proj, clus |-> proc[c].clus]
  <2>1. proc[c].pc = "writeLink" /\ proc[c].clus > 0 /\ proc[c].proj # 0 /\ proc[c].clus >= 0
    BY <1>7, Keeps DEF WriteLink, At, Flow
  <2>2. /\ Sets(c, l, w.key, w.kube, w.jh, TRUE)
        /\ \/ proc[c].cmd # "up" /\ Stops(c, "ok")
           \/ /\ proc[c].cmd = "up"
              /\ UNCHANGED <<forge, net, catalogue, faults, told, shared, cmds>>
              /\ proc' \in [Clusters -> ProcT] /\ Others(c)
              /\ Keyed(proc'[c], proc[c], "later", proc[c].clus)
    BY <1>0, <1>7, <2>1, LinkDoes
  <2>3. LinkOk(l) /\ l.clus = proc[c].clus /\ l.proj = proc[c].proj
    BY <2>1 DEF LinkOk, IsRegistered
  <2> HIDE DEF l
  <2>4. CASE proc[c].cmd # "up" /\ Stops(c, "ok")
    BY <2>1, <2>2, <2>3, <2>4, Keeps, StopsTurn
  <2>5. CASE /\ proc[c].cmd = "up"
              /\ UNCHANGED <<forge, net, catalogue, faults, told, shared, cmds>>
              /\ proc' \in [Clusters -> ProcT] /\ Others(c)
              /\ Keyed(proc'[c], proc[c], "later", proc[c].clus)
    <3>1. LocalStep(c)
      BY <2>5, Keeps DEF LocalStep
    <3>2. Flow(proc'[c])
      BY <2>1, <2>5, Keeps DEF Flow, Along, Keyed
    <3> QED BY <2>1, <2>2, <2>3, <2>5, <3>1, <3>2, Keeps, LocalTurn DEF Keyed
  <2> QED BY <2>2, <2>4, <2>5
<1> QED BY <1>1, <1>2, <1>3, <1>4, <1>5, <1>6, <1>7

\* finding or making the project,
LEMMA ProjectTurns ==
  ASSUME Base, NEW c \in Clusters
  PROVE  /\ McpCreateProject(c) => Turn(c)
         /\ McpFindProject(c) => Turn(c)
         /\ RestCreateProject(c) => Turn(c)
<1> DEFINE n == ProjectName(c)
           p == proc[c]
           q == proc'[c]
<1> USE DEF UpPoints, RegisterPoints, Special
<1>0. Shapes
  BY DEF Base
<1>1. ASSUME NEW x \in ProjectsNamed(n)
      PROVE  x.id \in Nat /\ x.id # 0 /\ MyProject(c, x.id)
  <2>1. x \in forge.projects /\ x.name \in {c, "shared"} /\ x \in ProjectT
    BY <1>0, ProjectNames DEF ProjectsNamed, Shapes, ForgeT
  <2> QED BY <2>1 DEF Base, Consistent, MyProject, ProjectT, Ids
<1>2. ASSUME ProjectsNamed(n) = {}, forge' = WithProject(n)
      PROVE  ForgeStep(c) /\ Fresh(forge.next) /\ forge.next \in Nat /\ forge.next # 0
  <2>1. forge'.next = forge.next + 1 /\ forge.next \in Nat /\ forge.next # 0
    BY <1>0, <1>2, ProjectNames, WithProjectIs DEF Shapes, ForgeT, Ids
  <2> QED BY <1>2, <2>1 DEF ForgeStep, Fresh
<1>3. forge' = forge => ForgeStep(c)
  BY DEF ForgeStep
<1>4. ASSUME p.pc \in {"mcpProject", "mcpFind", "restProject"}, Quiet(c), forge' = forge, RestsOr(q, p)
      PROVE  Turn(c)
  <2>1. Along(p.cmd, IF p.cmd = "up" THEN "restProject" ELSE "giveUp")
    BY <1>4, Ways DEF Along
  <2> QED BY <1>3, <1>4, <2>1, ComesTurn DEF RestsOr
<1>5. ASSUME p.pc \in {"mcpProject", "restProject"}, Quiet(c), forge' \in {forge, WithProject(n)},
             forge' = forge \/ ProjectsNamed(n) = {}, Retries(q, p)
      PROVE  Turn(c)
  BY <1>2, <1>3, <1>5, RetriesTurn
<1>6. ASSUME NEW x \in ProjectsNamed(n), Quiet(c), forge' = forge, p.pc \in {"mcpFind", "restProject"},
             NEW y \in {"mcpCluster", "restCluster"}, y = "restCluster" => p.pc = "restProject", Uses(q, p, y, x.id)
      PROVE  Turn(c)
  <2>1. Along(p.cmd, y)
    BY <1>6, Ways DEF Along
  <2> QED BY <1>1, <1>3, <1>6, <2>1, UsesTurn
<1>7. ASSUME ProjectsNamed(n) = {}, Quiet(c), forge' = WithProject(n), p.pc \in {"mcpProject", "restProject"},
             NEW y \in {"mcpCluster", "restCluster"}, y = "restCluster" => p.pc = "restProject", Uses(q, p, y, forge.next)
      PROVE  Turn(c)
  <2>1. Along(p.cmd, y)
    BY <1>7, Ways DEF Along
  <2> QED BY <1>2, <1>7, <2>1, UsesTurn
<1>8. ASSUME McpCreateProject(c) PROVE Turn(c)
  <2>1. p.pc = "mcpProject" /\ Quiet(c)
    BY <1>0, <1>8, ProjectDoes
  <2>2. \/ Answered(c, forge) /\ RestsOr(q, p)
        \/ Answered(c, forge) /\ Comes(q, p, "mcpFind")
        \/ Lost(c, forge) /\ Retries(q, p)
        \/ ProjectsNamed(n) = {} /\ Answered(c, WithProject(n)) /\ Uses(q, p, "mcpCluster", forge.next)
        \/ ProjectsNamed(n) = {} /\ Lost(c, WithProject(n)) /\ Retries(q, p)
    BY <1>0, <1>8, ProjectDoes
  <2>3. Along(p.cmd, "mcpFind")
    BY <2>1, Ways DEF Along
  <2>4. CASE Answered(c, forge) /\ Comes(q, p, "mcpFind")
    BY <1>3, <2>1, <2>3, <2>4, ComesTurn DEF Answered
  <2> HIDE DEF n, p, q
  <2>5. CASE ~(Answered(c, forge) /\ Comes(q, p, "mcpFind"))
    BY <1>4, <1>5, <1>7, <2>1, <2>2, <2>5 DEF Answered, Lost
  <2> QED BY <2>4, <2>5
<1>9. ASSUME McpFindProject(c) PROVE Turn(c)
  <2>1. /\ p.pc = "mcpFind" /\ Quiet(c)
        /\ \/ Answered(c, forge) /\ RestsOr(q, p)
           \/ Lost(c, forge) /\ RestsOr(q, p)
           \/ Answered(c, forge) /\ \E x \in ProjectsNamed(n) : Uses(q, p, "mcpCluster", x.id)
    BY <1>0, <1>9, ProjectDoes
  <2> HIDE DEF n, p, q
  <2> QED BY <1>4, <1>6, <2>1 DEF Answered, Lost
<1>10. ASSUME RestCreateProject(c) PROVE Turn(c)
  <2>1. /\ p.pc = "restProject" /\ Quiet(c)
        /\ \/ Answered(c, forge) /\ \E x \in ProjectsNamed(n) : Uses(q, p, "restCluster", x.id)
           \/ Lost(c, forge) /\ Retries(q, p)
           \/ ProjectsNamed(n) = {} /\ Answered(c, WithProject(n)) /\ Uses(q, p, "restCluster", forge.next)
           \/ ProjectsNamed(n) = {} /\ Lost(c, WithProject(n)) /\ Retries(q, p)
    BY <1>0, <1>10, ProjectDoes
  <2> HIDE DEF n, p, q
  <2> QED BY <1>5, <1>6, <1>7, <2>1 DEF Answered, Lost
<1> QED BY <1>8, <1>9, <1>10

\* finding or making the cluster, and the rollback,
LEMMA ClusterTurns ==
  ASSUME Base, NEW c \in Clusters
  PROVE  /\ McpCreateCluster(c) => Turn(c)
         /\ Rollback(c) => Turn(c)
         /\ RestCreateCluster(c) => Turn(c)
<1> DEFINE p == proc[c]
           q == proc'[c]
           j == proc[c].proj
           kube == ws[c].kube
<1> USE DEF UpPoints, RegisterPoints
<1>0. Shapes
  BY DEF Base
<1>1. forge' = forge => ForgeStep(c)
  BY DEF ForgeStep
<1>2. ASSUME Exists(j), forge' = WithCluster(c, j, kube)
      PROVE  ForgeStep(c) /\ Fresh(forge.next) /\ forge.next \in Nat /\ forge.next # 0
  <2>1. j \in Ids /\ kube \in 0 .. MaxCmds /\ forge.next \in Nat /\ forge.next # 0
    BY <1>0, <1>2 DEF Exists, Shapes, Workspaces, ForgeT, ProjectT, Ids
  <2>2. forge'.next = forge.next + 1
    BY <1>0, <1>2, <2>1, WithClusterIs
  <2> QED BY <1>2, <2>1, <2>2 DEF ForgeStep, Fresh
<1>3. ASSUME p.pc \in {"mcpCluster", "restCluster"}, Quiet(c), ForgeStep(c), Comes(q, p, "rollback")
      PROVE  Turn(c)
  <2>1. Along(p.cmd, "rollback")
    BY <1>3, Ways DEF Along
  <2> QED BY <1>3, <2>1, ComesTurn
<1>4. ASSUME p.pc \in {"mcpCluster", "restCluster"}, Quiet(c), Exists(j), forge' \in {forge, WithCluster(c, j, kube)},
             \/ forge' = WithCluster(c, j, kube) /\ Made(q, p, "writeLink", forge.next)
             \/ Comes(q, p, "rollback")
      PROVE  Turn(c)
  <2>1. ForgeStep(c)
    BY <1>1, <1>2, <1>4
  <2>2. CASE Comes(q, p, "rollback")
    BY <1>3, <1>4, <2>1, <2>2
  <2>3. CASE forge' = WithCluster(c, j, kube) /\ Made(q, p, "writeLink", forge.next)
    BY <1>2, <1>4, <2>1, <2>3, MadeTurn
  <2> QED BY <1>4, <2>2, <2>3
<1>5. ASSUME NEW k \in ClustersNamed(c, j), Quiet(c), forge' \in {forge, WithKubeconfig(k.id, kube)}, p.pc = "restCluster",
             Made(q, p, "writeLink", k.id) \/ Comes(q, p, "rollback")
      PROVE  Turn(c)
  <2>1. ForgeStep(c)
    BY <1>5 DEF ForgeStep
  <2>2. k.id \in Nat /\ k.id # 0 /\ Mine(c, k.id)
    <3>1. k \in forge.clusters /\ k \in ClusterT /\ k.name = c
      BY <1>0 DEF ClustersNamed, Shapes, ForgeT
    <3> QED BY <3>1 DEF Base, Consistent, Mine, ClusterT, Ids
  <2>3. CASE Comes(q, p, "rollback")
    BY <1>3, <1>5, <2>1, <2>3
  <2>4. CASE Made(q, p, "writeLink", k.id)
    BY <1>5, <2>1, <2>2, <2>4, MadeTurn
  <2> QED BY <1>5, <2>3, <2>4
<1>6. ASSUME McpCreateCluster(c) PROVE Turn(c)
  <2>1. /\ p.pc = "mcpCluster" /\ Quiet(c)
        /\ \/ Answered(c, forge) /\ RestsOr(q, p)
           \/ Answered(c, forge) /\ Comes(q, p, "rollback")
           \/ Lost(c, forge) /\ Comes(q, p, "rollback")
           \/ Exists(j) /\ Answered(c, WithCluster(c, j, kube)) /\ Made(q, p, "writeLink", forge.next)
           \/ Exists(j) /\ Lost(c, WithCluster(c, j, kube)) /\ Comes(q, p, "rollback")
    BY <1>0, <1>6, ClusterDoes
  <2>2. CASE Answered(c, forge) /\ RestsOr(q, p)
    <3>1. Along(p.cmd, IF p.cmd = "up" THEN "restProject" ELSE "giveUp")
      BY <2>1, Ways DEF Along
    <3> QED BY <1>1, <2>1, <2>2, <3>1, ComesTurn DEF RestsOr, Answered
  <2> HIDE DEF p, q, j, kube
  <2>3. CASE ~(Answered(c, forge) /\ RestsOr(q, p))
    BY <1>1, <1>3, <1>4, <2>1, <2>3 DEF Answered, Lost
  <2> QED BY <2>2, <2>3
<1>7. ASSUME Rollback(c) PROVE Turn(c)
  <2>1. /\ p.pc = "rollback" /\ Quiet(c) /\ Retries(q, p) /\ forge' \in {forge, WithoutProject(j)}
    BY <1>0, <1>7, ClusterDoes
  <2>2. ForgeStep(c)
    BY <2>1 DEF ForgeStep
  <2> QED BY <2>1, <2>2, RetriesTurn
<1>8. ASSUME RestCreateCluster(c) PROVE Turn(c)
  <2>1. /\ p.pc = "restCluster" /\ Quiet(c)
        /\ \/ \E k \in ClustersNamed(c, j) :
                \/ Answered(c, WithKubeconfig(k.id, kube)) /\ Made(q, p, "writeLink", k.id)
                \/ Lost(c, WithKubeconfig(k.id, kube)) /\ Comes(q, p, "rollback")
           \/ Answered(c, forge) /\ Comes(q, p, "rollback")
           \/ Lost(c, forge) /\ Comes(q, p, "rollback")
           \/ Exists(j) /\ Answered(c, WithCluster(c, j, kube)) /\ Made(q, p, "writeLink", forge.next)
           \/ Exists(j) /\ Lost(c, WithCluster(c, j, kube)) /\ Comes(q, p, "rollback")
    BY <1>0, <1>8, ClusterDoes
  <2> HIDE DEF p, q, j, kube
  <2> QED BY <1>1, <1>3, <1>4, <1>5, <2>1 DEF Answered, Lost
<1> QED BY <1>6, <1>7, <1>8

\* targets, agents and the jumphost,
LEMMA RecordTurns ==
  ASSUME Base, NEW c \in Clusters
  PROVE  /\ JumphostDown(c) => Turn(c)
         /\ DeleteTargets(c) => Turn(c)
         /\ DeleteAgents(c) => Turn(c)
         /\ Cleaned(c) => Turn(c)
         /\ RegisterAgent(c) => Turn(c)
         /\ RegisterTarget(c) => Turn(c)
<1> DEFINE w == ws[c]
           p == proc[c]
<1>0. Shapes /\ (UNCHANGED ws => Sets(c, w.link, w.key, w.kube, w.jh, w.trusted))
  BY StillSets DEF Base
<1> USE DEF DownPoints, KeptPoints, CleanupPoints, BenchPoints, Special
<1>1. ASSUME JumphostDown(c) PROVE Turn(c)
  <2>1. /\ p.pc = "jumphost" /\ Sets(c, w.link, w.key, w.kube, 0, w.trusted)
        /\ Walks(c, "targets") \/ Walks(c, "phase09Down")
    BY <1>0, <1>1, RecordsDo
  <2>2. Along(p.cmd, "targets") /\ Along(p.cmd, "phase09Down")
    BY <2>1, Ways DEF Along
  <2> QED BY <2>1, <2>2, Keeps, WalksTurn
<1>2. ASSUME DeleteTargets(c) PROVE Turn(c)
  <2> DEFINE T == forge.targets \ TargetsOf(p.key)
  <2>1. /\ p.pc = "targets" /\ Quiet(c) /\ Comes(proc'[c], p, "agents")
        /\ forge' \in {forge, [forge EXCEPT !.targets = T]}
    BY <1>0, <1>2, RecordsDo
  <2>2. Along(p.cmd, "agents")
    BY <2>1, Ways DEF Along
  <2>3. T \in SUBSET TargetT /\ \A t \in T : t \in forge.targets
    BY <1>0 DEF Shapes, ForgeT
  <2> HIDE DEF T
  <2>4. ForgeStep(c)
    BY <2>1, <2>3 DEF ForgeStep
  <2> QED BY <2>1, <2>2, <2>4, ComesTurn
<1>3. ASSUME DeleteAgents(c) PROVE Turn(c)
  <2> DEFINE A == forge.agents \ AgentsOf(c)
             x == IF p.cmd = "cleanup" THEN "cleaned" ELSE "phase09Down"
  <2>1. /\ p.pc = "agents" /\ Quiet(c) /\ Comes(proc'[c], p, x)
        /\ forge' \in {forge, [forge EXCEPT !.agents = A]}
    BY <1>0, <1>3, RecordsDo
  <2>2. Along(p.cmd, x)
    BY <2>1, Ways DEF Along
  <2>3. A \in SUBSET (Clusters \X Nat)
    BY <1>0 DEF Shapes, ForgeT
  <2>4. x \in {"cleaned", "phase09Down"}
    OBVIOUS
  <2> HIDE DEF A, x
  <2>5. ForgeStep(c)
    BY <2>1, <2>3 DEF ForgeStep
  <2> QED BY <2>1, <2>2, <2>4, <2>5, ComesTurn
<1>4. ASSUME Cleaned(c) PROVE Turn(c)
  <2>1. p.pc = "cleaned" /\ UNCHANGED ws /\ (Stops(c, "ok") \/ Stops(c, "failed"))
    BY <1>0, <1>4, RecordsDo
  <2> QED BY <1>0, <2>1, Keeps, StopsTurn
<1>5. ASSUME RegisterAgent(c) PROVE Turn(c)
  <2> DEFINE A == forge.agents \cup {<<c, w.jh>>}
  <2>1. /\ p.pc = "agent" /\ Quiet(c) /\ Comes(proc'[c], p, "target")
        /\ forge' \in {forge, [forge EXCEPT !.agents = A]}
    BY <1>0, <1>5, RecordsDo
  <2>2. Along(p.cmd, "target")
    BY <2>1, Ways DEF Along
  <2>3. A \in SUBSET (Clusters \X Nat)
    <3>1. w.jh \in Nat
      BY <1>0, ForgeCmdsAssumption DEF Shapes, Workspaces
    <3> QED BY <1>0, <3>1 DEF Shapes, ForgeT
  <2> HIDE DEF A
  <2>4. ForgeStep(c)
    BY <2>1, <2>3 DEF ForgeStep
  <2> QED BY <2>1, <2>2, <2>4, ComesTurn
<1>6. ASSUME RegisterTarget(c) PROVE Turn(c)
  <2> DEFINE T == forge.targets \cup {NewTarget(c)}
  <2>1. /\ p.pc = "target" /\ Quiet(c) /\ Comes(proc'[c], p, "cleaned")
        /\ \/ forge' = forge
           \/ /\ \E k \in forge.clusters : k.id = w.link.clus
              /\ forge' = [forge EXCEPT !.targets = T]
    BY <1>0, <1>6, RecordsDo
  <2>2. Along(p.cmd, "cleaned")
    BY <2>1, Ways DEF Along
  <2>3. NewTarget(c) \in TargetT /\ NewTarget(c).cluster = w.link.clus
    BY <1>0 DEF NewTarget, TargetT, Shapes, Workspaces, Links
  <2>4. T \in SUBSET TargetT /\ \A t \in T : t \in forge.targets \/ t.cluster = w.link.clus
    BY <1>0, <2>3 DEF Shapes, ForgeT
  <2> HIDE DEF T
  <2>5. ForgeStep(c)
    BY <2>1, <2>4 DEF ForgeStep
  <2> QED BY <2>1, <2>2, <2>5, ComesTurn
<1> QED BY <1>1, <1>2, <1>3, <1>4, <1>5, <1>6

\* the deletions,
LEMMA DownTurns ==
  ASSUME Base, NEW c \in Clusters
  PROVE  /\ Phase09Down(c) => Turn(c)
         /\ ByNameProject(c) => Turn(c)
         /\ ByNameCluster(c) => Turn(c)
         /\ ByNameDelete(c) => Turn(c)
         /\ McpDeleteCluster(c) => Turn(c)
         /\ McpDeleteProject(c) => Turn(c)
         /\ RemoveLink(c) => Turn(c)
         /\ RestDeleteCluster(c) => Turn(c)
         /\ RestDeleteProject(c) => Turn(c)
         /\ Forget(c) => Turn(c)
         /\ EksDown(c) => Turn(c)
<1> DEFINE w == ws[c]
           p == proc[c]
           q == proc'[c]
<1>0. Shapes /\ (UNCHANGED ws => Sets(c, w.link, w.key, w.kube, w.jh, w.trusted))
  BY StillSets DEF Base
<1> USE DEF DownPoints, KeptPoints, UnregisterPoints, Special
<1>1. ASSUME NEW new, forge' \in {forge, new}, (\E gone : new = WithoutClusters(gone)) \/ (\E j : new = WithoutProject(j)) \/ new = forge
      PROVE  ForgeStep(c)
  BY <1>1 DEF ForgeStep
<1>2. ASSUME Quiet(c), ForgeStep(c), p.pc \in {"mcpDelete", "mcpDeleteProject"}, Falls(q, p)
      PROVE  Turn(c)
  <2>1. Along(p.cmd, IF p.cmd = "down" THEN "restDelete" ELSE "giveUp")
    BY <1>2, Ways DEF Along
  <2> QED BY <1>2, <2>1, ComesTurn DEF Falls
<1>3. ASSUME Quiet(c), ForgeStep(c), p.pc \in {"byName", "byNameCluster", "byNameDelete", "restDelete", "restDeleteProject"},
             NEW x \in {"forget", "eksDown", "byNameDelete", "restDeleteProject"}, x = "byNameDelete" => p.pc = "byNameCluster",
             Comes(q, p, x)
      PROVE  Turn(c)
  <2>1. Along(p.cmd, x)
    BY <1>3, Ways DEF Along
  <2> QED BY <1>3, <2>1, ComesTurn
<1>4. LinkOk(NoLink) /\ NoLink.clus = 0 /\ NoLink.proj = 0
  BY DEF LinkOk, NoLink, IsRegistered
<1>5. ASSUME Phase09Down(c) PROVE Turn(c)
  <2>1. /\ p.pc = "phase09Down" /\ UNCHANGED ws
        /\ \/ p.cmd = "downKept" /\ Walks(c, "eksDown")
           \/ p.cmd # "downKept" /\ Walks(c, "mcpDelete")
           \/ p.cmd # "downKept" /\ Walks(c, "byName")
    BY <1>0, <1>5, ByNameDoes
  <2>2. /\ Along(p.cmd, "eksDown")
        /\ p.cmd # "downKept" => Along(p.cmd, "mcpDelete") /\ Along(p.cmd, "byName")
    BY <2>1, Ways DEF Along
  <2> QED BY <1>0, <2>1, <2>2, Keeps, WalksTurn
<1>6. ASSUME ByNameProject(c) PROVE Turn(c)
  <2>1. /\ p.pc = "byName" /\ Quiet(c) /\ forge' = forge
        /\ \/ Comes(q, p, "forget") \/ Comes(q, p, "eksDown")
           \/ \E x \in ProjectsNamed(c) : Uses(q, p, "byNameCluster", x.id)
    BY <1>0, <1>6, ByNameDoes DEF Answered, Lost
  <2>2. ForgeStep(c)
    BY <2>1 DEF ForgeStep
  <2>3. ASSUME NEW x \in ProjectsNamed(c), Uses(q, p, "byNameCluster", x.id)
        PROVE  Turn(c)
    <3>1. x \in forge.projects /\ x \in ProjectT /\ x.name = c
      BY <1>0 DEF ProjectsNamed, Shapes, ForgeT
    <3>2. x.id \in Nat /\ x.id # 0 /\ x.id < forge.next /\ \A y \in forge.projects : y.id = x.id => y.name = c
      BY <3>1 DEF Base, Consistent, ProjectT, Ids
    <3>3. MyProject(c, x.id) /\ Along(p.cmd, "byNameCluster")
      BY <2>1, <3>2, Ways DEF MyProject, Along
    <3> QED BY <2>1, <2>2, <2>3, <3>2, <3>3, UsesTurn
  <2> QED BY <1>3, <2>1, <2>2, <2>3
<1>7. ASSUME ByNameCluster(c) PROVE Turn(c)
  <2>1. /\ p.pc = "byNameCluster" /\ Quiet(c) /\ forge' \in {forge, WithoutClusters(ThisCluster(c))}
        /\ Comes(q, p, "byNameDelete") \/ Comes(q, p, "eksDown")
    BY <1>0, <1>7, ByNameDoes DEF Answered, Lost
  <2> QED BY <1>1, <1>3, <2>1
<1>8. ASSUME ByNameDelete(c) PROVE Turn(c)
  <2>1. /\ p.pc = "byNameDelete" /\ Quiet(c) /\ forge' \in {forge, WithoutProject(p.proj)}
        /\ Comes(q, p, "forget") \/ Comes(q, p, "eksDown")
    BY <1>0, <1>8, ByNameDoes DEF Answered, Lost
  <2> QED BY <1>1, <1>3, <2>1
<1>9. ASSUME McpDeleteCluster(c) PROVE Turn(c)
  <2> DEFINE x == IF Purges(c) THEN "mcpDeleteProject" ELSE "removeLink"
  <2>1. /\ p.pc = "mcpDelete" /\ Quiet(c) /\ forge' \in {forge, WithoutClusters({w.link.clus})}
        /\ Comes(q, p, x) \/ Falls(q, p)
    BY <1>0, <1>9, DeletesDo DEF Answered, Lost
  <2>2. Along(p.cmd, x) /\ x \in {"mcpDeleteProject", "removeLink"}
    BY <2>1, Ways DEF Along
  <2> HIDE DEF x
  <2> QED BY <1>1, <1>2, <2>1, <2>2, ComesTurn
<1>10. ASSUME McpDeleteProject(c) PROVE Turn(c)
  <2>1. /\ p.pc = "mcpDeleteProject" /\ Quiet(c) /\ forge' \in {forge, WithoutProject(w.link.proj)}
        /\ Comes(q, p, "removeLink") \/ Falls(q, p)
    BY <1>0, <1>10, DeletesDo DEF Answered, Lost
  <2>2. Along(p.cmd, "removeLink")
    BY <2>1, Ways DEF Along
  <2> QED BY <1>1, <1>2, <2>1, <2>2, ComesTurn
<1>11. ASSUME RemoveLink(c) PROVE Turn(c)
  <2>1. /\ p.pc = "removeLink" /\ Sets(c, NoLink, w.key, w.kube, w.jh, TRUE)
        /\ (p.cmd = "down" /\ Walks(c, "forget")) \/ Stops(c, "ok")
    BY <1>0, <1>11, DeletesDo
  <2>2. LinkOk(NoLink) /\ Mine(c, NoLink.clus) /\ MyProject(c, NoLink.proj) /\ Mine(c, w.key) /\ (w.jh = 0 \/ w.jh = w.kube)
    BY <1>4, ZeroMine, Keeps
  <2>3. CASE p.cmd = "down" /\ Walks(c, "forget")
    <3>1. Along(p.cmd, "forget") /\ w.jh = 0
      BY <2>1, <2>3, Keeps DEF Along
    <3> QED BY <2>1, <2>2, <2>3, <3>1, WalksTurn
  <2>4. CASE Stops(c, "ok")
    BY <2>1, <2>2, <2>4, StopsTurn
  <2> QED BY <2>1, <2>3, <2>4
<1>12. ASSUME RestDeleteCluster(c) PROVE Turn(c)
  <2>1. /\ p.pc = "restDelete" /\ Quiet(c) /\ forge' \in {forge, WithoutClusters({w.link.clus})}
        /\ Comes(q, p, "restDeleteProject") \/ Comes(q, p, "eksDown")
    BY <1>0, <1>12, DeletesDo DEF Answered, Lost
  <2> QED BY <1>1, <1>3, <2>1
<1>13. ASSUME RestDeleteProject(c) PROVE Turn(c)
  <2>1. /\ p.pc = "restDeleteProject" /\ Quiet(c) /\ forge' \in {forge, WithoutProject(w.link.proj)}
        /\ Comes(q, p, "forget") \/ Comes(q, p, "eksDown")
    BY <1>0, <1>13, DeletesDo DEF Answered, Lost
  <2> QED BY <1>1, <1>3, <2>1
<1>14. ASSUME Forget(c) PROVE Turn(c)
  <2>1. /\ p.pc = "forget" /\ Sets(c, NoLink, 0, w.kube, w.jh, TRUE)
        /\ UNCHANGED <<forge, net, catalogue, faults, told, shared, cmds>>
        /\ proc' \in [Clusters -> ProcT] /\ Others(c) /\ Made(q, p, "eksDown", -1)
    BY <1>0, <1>14, DeletesDo
  <2>2. p.cmd = "down"
    BY <2>1, Ways
  <2>3. LocalStep(c)
    BY <2>1, Keeps DEF LocalStep
  <2>4. Flow(q)
    BY <2>1, <2>2, Keeps DEF Flow, Along, Made
  <2> QED BY <1>4, <2>1, <2>2, <2>3, <2>4, Keeps, ZeroMine, LocalTurn DEF Made
<1>15. ASSUME EksDown(c) PROVE Turn(c)
  <2>1. /\ p.pc = "eksDown" /\ Sets(c, w.link, w.key, 0, w.jh, w.trusted)
        /\ Stops(c, "down") \/ Stops(c, "warned")
    BY <1>0, <1>15, DeletesDo
  <2>2. w.jh = 0
    BY <2>1, Ways, Keeps
  <2> QED BY <2>1, <2>2, Keeps, StopsTurn
<1> QED BY <1>5, <1>6, <1>7, <1>8, <1>9, <1>10, <1>11, <1>12, <1>13, <1>14, <1>15

\* the start of a command,
LEMMA StartTurns ==
  ASSUME Base, NEW c \in Clusters, Start(c)
  PROVE  Turn(c)
<1> DEFINE w == ws[c]
<1>0. Shapes /\ (UNCHANGED ws => Sets(c, w.link, w.key, w.kube, w.jh, w.trusted))
  BY StillSets DEF Base
<1>1. ASSUME NEW n, NEW x, NEW key, Begins(c, n, x, key), Mine(c, key), NEW b, Sets(c, w.link, w.key, w.kube, w.jh, b),
             Along(n, x), x \notin Special, n \in {"down", "downKept"} => x = "jumphost"
      PROVE  Turn(c)
  <2>1. /\ UNCHANGED <<forge, net, catalogue, faults, shared>> /\ (shared \/ c = Only(Clusters))
        /\ proc' \in [Clusters -> ProcT] /\ Others(c)
        /\ told' \in [Clusters -> Told] /\ \A d \in Clusters : d # c => told'[d] = told[d]
    BY <1>1 DEF Begins
  <2>7. cmds' \in 0 .. MaxCmds /\ cmds' > 0 /\ cmds' >= cmds /\ faults' \in faults .. MaxFaults
    <3>1. cmds \in 0 .. MaxCmds /\ faults \in 0 .. MaxFaults
      BY <1>0 DEF Shapes
    <3> QED BY <1>1, <2>1, <3>1 DEF Begins
  <2>2. Flow(proc'[c])
    BY <1>1 DEF Begins, Flow, Special
  <2>3. Link(c)'
    BY <1>1, Keeps DEF Begins, Link, LinkOk, Sets
  <2>4. ForgeStep(c)
    BY <2>1 DEF ForgeStep
  <2>5. /\ ws' \in [Clusters -> Workspaces] /\ (\A d \in Clusters : d # c => ws'[d] = ws[d])
        /\ ws'[c].link = w.link /\ ws'[c].key = w.key
    BY <1>1 DEF Sets
  <2>6. proc'[c].key = key /\ proc'[c].proj = 0 /\ proc'[c].clus = 0 /\ proc'[c].pc \notin {"byNameCluster", "byNameDelete"}
    BY <1>1 DEF Begins, Special
  <2> QED BY <1>1, <2>1, <2>2, <2>3, <2>4, <2>5, <2>6, <2>7, Keeps, ZeroMine DEF Turn
<1>2. /\ Along("up", "eks") /\ Along("register", "verify") /\ Along("cleanup", "targets") /\ Along("benchmark", "agent")
      /\ Along("down", "jumphost") /\ Along("downKept", "jumphost") /\ Along("purge", "mcpDelete") /\ Along("unregister", "mcpDelete")
  BY DEF Along, UpPoints, RegisterPoints, DownPoints, KeptPoints, UnregisterPoints, CleanupPoints, BenchPoints
<1> USE DEF Special
<1>9. Mine(c, w.key) /\ Mine(c, w.link.clus)
  BY Keeps
<1>3. CASE StartUp(c)
  <2>1. Begins(c, "up", "eks", w.key) /\ Sets(c, w.link, w.key, w.kube, w.jh, w.trusted)
    BY <1>0, <1>3, StartDoes
  <2> HIDE DEF w
  <2> QED BY <1>1, <1>2, <1>9, <2>1
<1>4. CASE StartRegister(c)
  <2>1. Begins(c, "register", "verify", w.key) /\ Sets(c, w.link, w.key, w.kube, w.jh, w.trusted)
    BY <1>0, <1>4, StartDoes
  <2> HIDE DEF w
  <2> QED BY <1>1, <1>2, <1>9, <2>1
<1>5. CASE StartCleanup(c)
  <2>1. Begins(c, "cleanup", "targets", w.link.clus) /\ Sets(c, w.link, w.key, w.kube, w.jh, w.trusted)
    BY <1>0, <1>5, StartDoes
  <2> HIDE DEF w
  <2> QED BY <1>1, <1>2, <1>9, <2>1
<1>6. CASE StartBenchmark(c)
  <2>1. Begins(c, "benchmark", "agent", w.key) /\ Sets(c, w.link, w.key, w.kube, w.jh, w.trusted)
    BY <1>0, <1>6, StartDoes
  <2> HIDE DEF w
  <2> QED BY <1>1, <1>2, <1>9, <2>1
<1>7. ASSUME NEW b \in BOOLEAN, StartDown(c, b) PROVE Turn(c)
  <2>1. /\ Sets(c, w.link, w.key, w.kube, w.jh, w.link = NoLink)
        /\ Begins(c, IF b THEN "downKept" ELSE "down", "jumphost", w.key)
    BY <1>0, <1>7, StartDoes
  <2>2. CASE b
    BY <1>1, <1>2, <2>1, <2>2, Keeps
  <2>3. CASE ~b
    BY <1>1, <1>2, <2>1, <2>3, Keeps
  <2> QED BY <2>2, <2>3
<1>8. ASSUME NEW b \in BOOLEAN, StartUnregister(c, b) PROVE Turn(c)
  <2>1. /\ Sets(c, w.link, w.key, w.kube, w.jh, FALSE)
        /\ Begins(c, IF b THEN "purge" ELSE "unregister", "mcpDelete", w.key)
    BY <1>0, <1>8, StartDoes
  <2>2. CASE b
    BY <1>1, <1>2, <2>1, <2>2, Keeps
  <2>3. CASE ~b
    BY <1>1, <1>2, <2>1, <2>3, Keeps
  <2> QED BY <2>2, <2>3
<1> QED BY <1>3, <1>4, <1>5, <1>6, <1>7, <1>8 DEF Start

\* its being cut off,
LEMMA KillTurns ==
  ASSUME Base, NEW c \in Clusters, Kill(c)
  PROVE  Turn(c) /\ told'[c] = "killed"
<1>1. Shapes /\ Solo(c) /\ Sets(c, ws[c].link, ws[c].key, ws[c].kube, ws[c].jh, ws[c].trusted)
  BY StillSets DEF Base, Kill
<1>2. /\ proc[c].pc # "idle" /\ UNCHANGED <<forge, net, catalogue, shared, ws, cmds>>
      /\ faults' \in faults .. MaxFaults /\ cmds \in 0 .. MaxCmds
      /\ proc' \in [Clusters -> ProcT] /\ proc'[c] = Idle /\ Others(c)
      /\ told' \in [Clusters -> Told] /\ (\A d \in Clusters : d # c => told'[d] = told[d]) /\ told'[c] = "killed"
  BY <1>1, ForgeAssumption, IdleIs DEF Kill, Fault, Shapes, Others, Told
<1>3. Flow(proc'[c])
  BY <1>2, IdleIs DEF Flow, Along
<1>4. Link(c)'
  BY <1>2, IdleIs, Keeps DEF Link, LinkOk
<1>5. ForgeStep(c)
  BY <1>2 DEF ForgeStep
<1>6. /\ ws' \in [Clusters -> Workspaces] /\ ws' = ws
  BY <1>1, <1>2 DEF Sets
<1> QED BY <1>1, <1>2, <1>3, <1>4, <1>5, <1>6, IdleIs, Keeps, ZeroMine DEF Turn, Solo

\* and so every step of a command.
LEMMA StepTurns ==
  ASSUME Base, NEW c \in Clusters, Step(c)
  PROVE  Turn(c)
BY UpTurns, ProjectTurns, ClusterTurns, RecordTurns, DownTurns DEF Step

\* An outage and its end keep Base,
LEMMA ServerKeeps ==
  ASSUME Base, Server
  PROVE  Base'
<1>1. /\ UNCHANGED <<forge, catalogue, shared, ws, proc, told, cmds>>
      /\ net' \in {"up", "down"} /\ faults' \in 0 .. MaxFaults
  BY ForgeAssumption DEF Server, Outage, Recovers, Fault, NoFault, Base, Shapes
<1>2. Shapes'
  BY <1>1 DEF Base, Shapes
<1> QED BY <1>1, <1>2 DEF Base, Flows, NamesFit, Owned, Link, Solo, Mine, MyProject

\* as does a stutter,
LEMMA StillBase ==
  ASSUME Base, UNCHANGED vars
  PROVE  Base'
BY DEF Base, Shapes, Flows, NamesFit, Owned, Link, Solo, Mine, MyProject, vars, serverVars

\* and so every step of the system.
LEMMA BaseKept ==
  ASSUME Base, [Next]_vars
  PROVE  Base'
<1>1. ASSUME NEW c \in Clusters, Start(c) \/ Step(c) \/ Kill(c) PROVE Base'
  BY <1>1, StartTurns, StepTurns, KillTurns, TurnKeeps
<1> QED BY <1>1, ServerKeeps, StillBase DEF Next, Done

\* Base holds at the start.
LEMMA BaseStarts ==
  ASSUME Init
  PROVE  Base
<1>1. /\ forge = NoForge /\ net = "up" /\ catalogue \in {"full", "gap"} /\ faults = 0 /\ shared \in BOOLEAN /\ cmds = 0
      /\ ws = [c \in Clusters |-> NoWs] /\ proc = [c \in Clusters |-> Idle] /\ told = [c \in Clusters |-> "none"]
  BY DEF Init, ServerInit
<1>2. forge.projects = {} /\ forge.clusters = {} /\ forge.targets = {} /\ forge.next = 1 /\ forge \in ForgeT
  BY <1>1 DEF NoForge, ForgeT, Ids
<1>3. /\ NoLink \in Links /\ NoLink.proj = 0 /\ NoLink.clus = 0 /\ ~IsRegistered(NoLink)
      /\ NoWs \in Workspaces /\ NoWs.link = NoLink /\ NoWs.key = 0 /\ NoWs.jh = 0
  BY ForgeCmdsAssumption DEF NoLink, Links, IsRegistered, NoWs, Workspaces
<1>4. \A c \in Clusters : ws[c] = NoWs /\ proc[c] = Idle /\ told[c] = "none"
  BY <1>1
<1>5. Shapes
  BY <1>1, <1>2, <1>3, IdleIs, ForgeAssumption, ForgeCmdsAssumption DEF Shapes, Told
<1>6. Consistent(forge) /\ NamesFit
  BY <1>2 DEF Consistent, NamesFit
<1>7. Flows
  BY <1>4, IdleIs DEF Flows, Flow, Along
<1>8. \A c \in Clusters : Owned(c) /\ Link(c) /\ Solo(c)
  BY <1>2, <1>3, <1>4, IdleIs DEF Owned, Mine, MyProject, Link, Solo
<1> QED BY <1>4, <1>5, <1>6, <1>7, <1>8, IdleIs DEF Base

\* Base implies the type invariant.
LEMMA BaseTypes ==
  ASSUME Base
  PROVE  TypeOK
<1>1. Shapes /\ Consistent(forge) /\ (\A c \in Clusters : Link(c))
  BY DEF Base
<1>2. ServerTypeOK
  BY <1>1 DEF Shapes, Consistent, ServerTypeOK, ForgeT, ProjectT, ClusterT, TargetT
<1>3. ASSUME NEW c \in Clusters
      PROVE  LET l == ws[c].link IN
             /\ IF IsRegistered(l) THEN l.proj \in Ids /\ l.clus \in Ids
                ELSE l.status \in {"none", "pending"} /\ l.proj = 0 /\ l.clus = 0
             /\ ws[c].key \in {0} \cup Ids /\ ws[c].kube \in 0 .. MaxCmds /\ ws[c].jh \in {0, ws[c].kube}
  BY <1>1 DEF Shapes, Workspaces, Links, Link, IsRegistered, Ids
<1>4. ASSUME NEW c \in Clusters
      PROVE  (proc[c].pc = "idle") = (proc[c].cmd = "none") /\ proc[c].try \in 1 .. 4
  BY <1>1, Ways DEF Shapes, ProcT
<1> QED BY <1>1, <1>2, <1>3, <1>4 DEF TypeOK, Shapes, Told

-----------------------------------------------------------------------------
(* A workspace with a project of its own.                                   *)

\* The points only a lost answer leads to; those of a registration; of a search by name; of a
\* deletion.
Loses == {"rollback", "pending"}
Registers == {"mcpProject", "mcpFind", "mcpCluster", "rollback", "restProject", "restCluster", "writeLink", "pending"}
ByName == {"byName", "byNameCluster", "byNameDelete"}
Deletes == {"mcpDelete", "mcpDeleteProject", "restDelete", "restDeleteProject"}

\* A link; a cluster with the present kubeconfig; a `down` that has nothing left to delete.
Reg(w) == IsRegistered(w.link)
Linked(w, K, i) == \E k \in K : k.id = i /\ k.kube = w.kube
Finished(p) ==
  p.pc = "forget" \/ (p.pc = "eksDown" /\ p.clus = -1) \/ (p.pc = "removeLink" /\ p.cmd = "down")

\* P and K are the projects and the clusters of the server.
Kept(w, P, K) ==
  Reg(w) => /\ \A x \in P : x.id = w.link.proj
            /\ w.trusted = TRUE => w.kube # 0 /\ Linked(w, K, w.link.clus)
\* A command whose answers all came is fresh, holds the one project, deletes only with a link and
\* ends with nothing left; one that gives the link up has ceased to trust it.
OnWay(p, w, P, K) ==
  /\ p.try > 1 \/ p.pc \in Loses => p.fresh = FALSE
  /\ p.pc = "later" /\ p.fresh = TRUE => Reg(w)
  /\ p.pc \in Registers \cup ByName => ~Reg(w)
  /\ p.pc \in Registers \cup {"verify", "phase09"} => w.kube # 0
  /\ p.pc \in {"mcpCluster", "restCluster"} => \E x \in P : x.id = p.proj
  /\ p.pc = "writeLink" => Linked(w, K, p.clus)
  /\ p.pc \in Special => \A x \in P : x.id = p.proj
  /\ p.cmd \in {"down", "downKept", "unregister", "purge"} /\ Reg(w) => w.trusted = FALSE
  /\ p.cmd = "down" /\ p.pc \in Deletes => Reg(w)
  /\ Finished(p) => P = {}
\* What a report promises.
Said(p, w, t, P) ==
  /\ t # "none" => p.pc = "idle"
  /\ t = "down" => P = {}
  /\ t = "up" => Reg(w)
\* All that is so of a workspace with a project of its own.
Own(c) ==
  /\ \A x, y \in forge.projects : x = y
  /\ Kept(ws[c], forge.projects, forge.clusters)
  /\ OnWay(proc[c], ws[c], forge.projects, forge.clusters)
  /\ Said(proc[c], ws[c], told[c], forge.projects)
Ours == ~shared => \A c \in Clusters : c = Only(Clusters) => Own(c)

\* It is kept by the steps of `up` and `register` outside their calls,
LEMMA UpOwn ==
  ASSUME Base, ~shared, NEW c \in Clusters, Own(c)
  PROVE  /\ EksCluster(c) => Own(c)'
         /\ Phase09(c) => Own(c)'
         /\ Verify(c) => Own(c)'
         /\ GiveUp(c) => Own(c)'
         /\ WritePending(c) => Own(c)'
         /\ Later(c) => Own(c)'
         /\ WriteLink(c) => Own(c)'
<1> DEFINE p == proc[c]
           q == proc'[c]
           w == ws[c]
           v == ws'[c]
           P == forge.projects
           K == forge.clusters
<1>0. /\ Shapes /\ (\A x, y \in P : x = y) /\ Kept(w, P, K) /\ OnWay(p, w, P, K) /\ Said(p, w, told[c], P)
      /\ (UNCHANGED ws => Sets(c, w.link, w.key, w.kube, w.jh, w.trusted))
      /\ (p.pc # "idle" => cmds > 0) /\ cmds \in Nat /\ w.trusted \in BOOLEAN /\ p.fresh \in BOOLEAN
  BY StillSets DEF Base, Own, Shapes, Workspaces, ProcT
<1>1. ASSUME forge' = forge, Kept(v, P, K), OnWay(q, v, P, K), Said(q, v, told'[c], P)
      PROVE  Own(c)'
  BY <1>0, <1>1 DEF Own
<1> USE DEF Registers, Loses, ByName, Deletes, Special
<1>2. ASSUME EksCluster(c) PROVE Own(c)'
  <2>1. /\ p.pc = "eks" /\ Walks(c, "phase09") /\ p.cmd = "up"
        /\ \/ w.kube # 0 /\ Sets(c, w.link, w.key, w.kube, w.jh, w.trusted)
           \/ w.kube = 0 /\ Sets(c, w.link, w.key, cmds, cmds, w.trusted)
    BY <1>0, <1>2, UpDoes, Ways
  <2>2. /\ q.pc = "phase09" /\ q.cmd = "up" /\ q.try = p.try /\ q.fresh = p.fresh /\ forge' = forge /\ told' = told
        /\ v.link = w.link /\ v.trusted = w.trusted /\ v.kube # 0 /\ (w.kube # 0 => v.kube = w.kube)
    BY <1>0, <2>1 DEF Walks, Comes, Sets
  <2> HIDE DEF p, q, w, v, P, K
  <2>3. Kept(v, P, K)
    BY <1>0, <2>2 DEF Kept, Reg, Linked
  <2>4. OnWay(q, v, P, K)
    BY <1>0, <2>1, <2>2 DEF OnWay, Finished
  <2>5. Said(q, v, told'[c], P)
    BY <1>0, <2>1, <2>2 DEF Said
  <2> QED BY <1>1, <2>2, <2>3, <2>4, <2>5
<1>3. ASSUME Phase09(c) PROVE Own(c)'
  <2>1. /\ p.pc = "phase09" /\ UNCHANGED ws /\ p.cmd = "up" /\ forge' = forge /\ told' = told
        /\ q.cmd = "up" /\ q.try = p.try /\ q.fresh = p.fresh
        /\ (~Reg(w) /\ q.pc = "mcpProject") \/ (Reg(w) /\ q.pc = "later")
    BY <1>0, <1>3, UpDoes, Ways DEF Walks, Comes, Keyed, Reg
  <2> HIDE DEF p, q, P, K
  <2>2. OnWay(q, w, P, K) /\ Said(q, w, told'[c], P)
    BY <1>0, <2>1 DEF OnWay, Finished, Said
  <2> QED BY <1>0, <1>1, <2>1, <2>2
<1>4. ASSUME NEW r, Stops(c, r), p.pc # "idle", v.link = w.link, v.kube = w.kube, v.trusted = w.trusted,
             r = "down" => P = {}, r = "up" => Reg(w)
      PROVE  Own(c)'
  <2>1. q.pc = "idle" /\ q.cmd = "none" /\ q.try = 1 /\ forge' = forge /\ told'[c] = r
    BY <1>4, IdleIs DEF Stops
  <2> HIDE DEF p, q, w, v, P, K
  <2>2. Kept(v, P, K)
    BY <1>0, <1>4 DEF Kept, Reg, Linked
  <2>3. OnWay(q, v, P, K) /\ Said(q, v, told'[c], P)
    BY <1>4, <2>1 DEF OnWay, Finished, Said, Reg
  <2> QED BY <1>1, <2>1, <2>2, <2>3
<1>5. ASSUME Verify(c) PROVE Own(c)'
  <2>1. /\ p.pc = "verify" /\ UNCHANGED ws /\ p.cmd = "register"
        /\ \/ ~Reg(w) /\ Walks(c, "mcpProject")
           \/ Stops(c, "ok") \/ Stops(c, "failed")
    BY <1>0, <1>5, UpDoes, Ways DEF Reg
  <2>2. CASE Stops(c, "ok") \/ Stops(c, "failed")
    BY <1>4, <2>1, <2>2
  <2>3. CASE ~Reg(w) /\ Walks(c, "mcpProject")
    <3>1. /\ q.pc = "mcpProject" /\ q.cmd = "register" /\ q.try = p.try /\ q.fresh = p.fresh
          /\ forge' = forge /\ told' = told
      BY <2>1, <2>3 DEF Walks, Comes
    <3> HIDE DEF p, q, P, K
    <3>2. OnWay(q, w, P, K) /\ Said(q, w, told'[c], P)
      BY <1>0, <2>1, <2>3, <3>1 DEF OnWay, Finished, Said
    <3> QED BY <1>0, <1>1, <2>1, <3>1, <3>2
  <2> QED BY <2>1, <2>2, <2>3
<1>6. ASSUME GiveUp(c) PROVE Own(c)'
  <2>1. p.pc = "giveUp" /\ UNCHANGED ws /\ Stops(c, "failed")
    BY <1>0, <1>6, UpDoes
  <2> QED BY <1>4, <2>1
<1>7. ASSUME WritePending(c) PROVE Own(c)'
  <2>1. /\ p.pc = "pending" /\ Walks(c, "later") /\ p.cmd = "up"
        /\ Sets(c, Pending, w.key, w.kube, w.jh, w.trusted)
    BY <1>0, <1>7, UpDoes, Ways
  <2>2. /\ q.pc = "later" /\ q.cmd = "up" /\ q.try = p.try /\ q.fresh = p.fresh /\ forge' = forge /\ told' = told
        /\ ~Reg(v)
    BY <2>1 DEF Walks, Comes, Sets, Pending, NoLink, Reg, IsRegistered
  <2> HIDE DEF p, q, w, v, P, K
  <2>3. Kept(v, P, K) /\ OnWay(q, v, P, K) /\ Said(q, v, told'[c], P)
    BY <1>0, <2>1, <2>2 DEF Kept, OnWay, Finished, Said
  <2> QED BY <1>1, <2>2, <2>3
<1>8. ASSUME Later(c) PROVE Own(c)'
  <2>1. /\ p.pc = "later" /\ v.link = w.link /\ v.kube = w.kube /\ v.trusted = w.trusted
        /\ (Stops(c, "up") /\ p.fresh = TRUE) \/ Stops(c, "late")
    BY <1>0, <1>8, UpDoes DEF Sets
  <2>2. p.fresh = TRUE => Reg(w)
    BY <1>0, <2>1 DEF OnWay
  <2> QED BY <1>4, <2>1, <2>2
<1>9. ASSUME WriteLink(c) PROVE Own(c)'
  <2> DEFINE l == [status |-> "registered", proj |-> p.proj, clus |-> p.clus]
  <2>1. p.pc = "writeLink" /\ p.clus >= 0 /\ p.cmd \in {"up", "register"}
    BY <1>9, Keeps, Ways DEF WriteLink, At, Flow
  <2>2. /\ Sets(c, l, w.key, w.kube, w.jh, TRUE)
        /\ \/ p.cmd # "up" /\ Stops(c, "ok")
           \/ /\ p.cmd = "up" /\ UNCHANGED <<forge, told>> /\ q.fresh = p.fresh
              /\ Keyed(q, p, "later", p.clus)
    BY <1>0, <1>9, <2>1, LinkDoes
  <2>3. v.link = l /\ v.kube = w.kube /\ v.trusted = TRUE /\ l.proj = p.proj /\ l.clus = p.clus /\ l.status = "registered"
    BY <2>2 DEF Sets
  <2>4. \/ q.pc = "idle" /\ q.cmd = "none" /\ q.try = 1 /\ forge' = forge /\ told'[c] = "ok"
        \/ q.pc = "later" /\ q.cmd = "up" /\ q.try = p.try /\ q.fresh = p.fresh /\ forge' = forge /\ told' = told
    BY <2>2, IdleIs DEF Stops, Keyed
  <2> HIDE DEF p, q, w, v, P, K, l
  <2>5. Kept(v, P, K)
    BY <1>0, <2>1, <2>3 DEF Kept, OnWay, Linked
  <2>6. Reg(v)
    BY <2>3 DEF Reg, IsRegistered
  <2>7. OnWay(q, v, P, K) /\ Said(q, v, told'[c], P)
    BY <1>0, <2>1, <2>4, <2>6 DEF OnWay, Finished, Said
  <2> QED BY <1>1, <2>4, <2>5, <2>7
<1> QED BY <1>2, <1>3, <1>5, <1>6, <1>7, <1>8, <1>9

\* by a call that leaves one project, the link and the command as they should be,
LEMMA QuietOwn ==
  ASSUME NEW c \in Clusters, Own(c), proc[c].pc # "idle", ws' = ws, told' = told,
         \A x, y \in forge'.projects : x = y,
         Kept(ws[c], forge'.projects, forge'.clusters),
         OnWay(proc'[c], ws[c], forge'.projects, forge'.clusters)
  PROVE  Own(c)'
BY DEF Own, Said

\* With a project of its own, the one project has the workspace's name.
LEMMA OneProject ==
  ASSUME Base, ~shared, NEW c \in Clusters, c = Only(Clusters)
  PROVE  /\ ProjectName(c) = c
         /\ \A p : p \in ProjectsNamed(c) <=> p \in forge.projects
         /\ \A k \in forge.clusters : k.name = c
<1>1. Shapes
  BY DEF Base
<1> QED BY <1>1, ProjectNames DEF Base, NamesFit, ProjectsNamed

\* by finding or making the project,
LEMMA ProjectOwn ==
  ASSUME Base, ~shared, NEW c \in Clusters, c = Only(Clusters), Own(c)
  PROVE  /\ McpCreateProject(c) => Own(c)'
         /\ McpFindProject(c) => Own(c)'
         /\ RestCreateProject(c) => Own(c)'
<1> DEFINE p == proc[c]
           q == proc'[c]
           w == ws[c]
           P == forge.projects
           K == forge.clusters
           n == ProjectName(c)
<1>0. /\ Shapes /\ (\A x, y \in P : x = y) /\ Kept(w, P, K) /\ OnWay(p, w, P, K) /\ forge.next \in Nat
      /\ \A x : x \in ProjectsNamed(n) <=> x \in P
  BY OneProject DEF Base, Own, Shapes, ForgeT, Ids
<1> USE DEF Registers, Loses, ByName, Deletes, Special
<1>1. ASSUME p.pc \in {"mcpProject", "mcpFind", "restProject"}, Quiet(c), forge' = forge, OnWay(q, w, P, K)
      PROVE  Own(c)'
  BY <1>0, <1>1, QuietOwn DEF Quiet
<1>2. ASSUME p.pc \in {"mcpProject", "mcpFind", "restProject"}, Quiet(c), forge' = forge, RestsOr(q, p),
             q.fresh = p.fresh \/ q.fresh = FALSE
      PROVE  Own(c)'
  <2>1. q.pc \in {"restProject", "giveUp"} /\ q.cmd = p.cmd /\ q.try = p.try /\ p.cmd \in {"up", "register"}
    BY <1>2, Ways DEF RestsOr, Comes
  <2>2. OnWay(q, w, P, K)
    BY <1>0, <1>2, <2>1 DEF OnWay, Finished
  <2> QED BY <1>1, <1>2, <2>2
<1>3. ASSUME p.pc \in {"mcpProject", "restProject"}, Quiet(c), Retries(q, p), q.fresh = FALSE,
             forge' = forge \/ (forge' = WithProject(n) /\ ProjectsNamed(n) = {})
      PROVE  Own(c)'
  <2>1. q.pc \in {"mcpProject", "pending", "giveUp"} /\ q.cmd = p.cmd /\ p.cmd \in {"up", "register"}
    BY <1>3, Ways DEF Retries
  <2>2. ~Reg(w) /\ w.kube # 0
    BY <1>0, <1>3 DEF OnWay
  <2>3. \A x, y \in forge'.projects : x = y
    <3>1. CASE forge' = WithProject(n) /\ ProjectsNamed(n) = {}
      <4>1. forge'.projects = P \cup {[id |-> forge.next, name |-> n]} /\ P = {}
        BY <1>0, <3>1, ProjectNames, WithProjectIs
      <4> QED BY <4>1
    <3> QED BY <1>0, <1>3, <3>1
  <2>4. Kept(w, forge'.projects, forge'.clusters) /\ OnWay(q, w, forge'.projects, forge'.clusters)
    BY <1>3, <2>1, <2>2 DEF Kept, OnWay, Finished
  <2> QED BY <1>3, <2>3, <2>4, QuietOwn DEF Quiet
<1>4. ASSUME NEW x \in ProjectsNamed(n), Quiet(c), forge' = forge, q.fresh = p.fresh, p.pc \in {"mcpFind", "restProject"},
             NEW y \in {"mcpCluster", "restCluster"}, Uses(q, p, y, x.id)
      PROVE  Own(c)'
  <2>1. q.pc = y /\ q.cmd = p.cmd /\ q.try = p.try /\ q.proj = x.id /\ p.cmd \in {"up", "register"}
    BY <1>4, Ways DEF Uses
  <2>2. x \in P /\ \A z \in P : z = x
    BY <1>0
  <2> HIDE DEF p, q, w, P, K, n
  <2>3. OnWay(q, w, P, K)
    BY <1>0, <1>4, <2>1, <2>2 DEF OnWay, Finished
  <2> QED BY <1>1, <1>4, <2>3
<1>5. ASSUME ProjectsNamed(n) = {}, Quiet(c), forge' = WithProject(n), q.fresh = p.fresh,
             p.pc \in {"mcpProject", "restProject"},
             NEW y \in {"mcpCluster", "restCluster"}, Uses(q, p, y, forge.next)
      PROVE  Own(c)'
  <2> DEFINE x == [id |-> forge.next, name |-> n]
  <2>1. q.pc = y /\ q.cmd = p.cmd /\ q.try = p.try /\ q.proj = forge.next /\ p.cmd \in {"up", "register"}
    BY <1>5, Ways DEF Uses
  <2>2. forge'.projects = P \cup {x} /\ P = {} /\ x.id = forge.next
    BY <1>0, <1>5, ProjectNames, WithProjectIs
  <2>3. forge'.projects = {x} /\ x.id = forge.next
    BY <2>2
  <2> HIDE DEF p, q, w, P, K, n, x
  <2>4. Kept(w, forge'.projects, forge'.clusters) /\ OnWay(q, w, forge'.projects, forge'.clusters)
    BY <1>0, <1>5, <2>1, <2>3 DEF Kept, OnWay, Finished
  <2> QED BY <1>5, <2>3, <2>4, QuietOwn DEF Quiet, p, q, w
<1>6. ASSUME McpCreateProject(c) PROVE Own(c)'
  <2>1. p.pc = "mcpProject" /\ Quiet(c)
    BY <1>0, <1>6, ProjectDoes
  <2>2. \/ Answered(c, forge) /\ RestsOr(q, p)
        \/ Answered(c, forge) /\ Comes(q, p, "mcpFind")
        \/ Lost(c, forge) /\ Retries(q, p)
        \/ ProjectsNamed(n) = {} /\ Answered(c, WithProject(n)) /\ Uses(q, p, "mcpCluster", forge.next)
        \/ ProjectsNamed(n) = {} /\ Lost(c, WithProject(n)) /\ Retries(q, p)
    BY <1>0, <1>6, ProjectDoes
  <2>3. CASE Answered(c, forge) /\ RestsOr(q, p)
    BY <1>2, <2>1, <2>3 DEF Answered
  <2>4. CASE Answered(c, forge) /\ Comes(q, p, "mcpFind")
    <3>1. OnWay(q, w, P, K)
      BY <1>0, <2>1, <2>4, Ways DEF OnWay, Finished, Comes, Answered
    <3> QED BY <1>1, <2>1, <2>4, <3>1 DEF Answered
  <2>5. CASE Lost(c, forge) /\ Retries(q, p)
    BY <1>3, <2>1, <2>5 DEF Lost
  <2>6. CASE ProjectsNamed(n) = {} /\ Answered(c, WithProject(n)) /\ Uses(q, p, "mcpCluster", forge.next)
    BY <1>5, <2>1, <2>6 DEF Answered
  <2>7. CASE ProjectsNamed(n) = {} /\ Lost(c, WithProject(n)) /\ Retries(q, p)
    BY <1>3, <2>1, <2>7 DEF Lost
  <2> QED BY <2>2, <2>3, <2>4, <2>5, <2>6, <2>7
<1>7. ASSUME McpFindProject(c) PROVE Own(c)'
  <2>1. /\ p.pc = "mcpFind" /\ Quiet(c)
        /\ \/ Answered(c, forge) /\ RestsOr(q, p)
           \/ Lost(c, forge) /\ RestsOr(q, p)
           \/ Answered(c, forge) /\ \E x \in ProjectsNamed(n) : Uses(q, p, "mcpCluster", x.id)
    BY <1>0, <1>7, ProjectDoes
  <2>2. CASE Answered(c, forge) /\ RestsOr(q, p)
    BY <1>2, <2>1, <2>2 DEF Answered
  <2>3. CASE Lost(c, forge) /\ RestsOr(q, p)
    BY <1>2, <2>1, <2>3 DEF Lost
  <2>4. CASE Answered(c, forge) /\ \E x \in ProjectsNamed(n) : Uses(q, p, "mcpCluster", x.id)
    BY <1>4, <2>1, <2>4 DEF Answered
  <2> QED BY <2>1, <2>2, <2>3, <2>4
<1>8. ASSUME RestCreateProject(c) PROVE Own(c)'
  <2>1. /\ p.pc = "restProject" /\ Quiet(c)
        /\ \/ Answered(c, forge) /\ \E x \in ProjectsNamed(n) : Uses(q, p, "restCluster", x.id)
           \/ Lost(c, forge) /\ Retries(q, p)
           \/ ProjectsNamed(n) = {} /\ Answered(c, WithProject(n)) /\ Uses(q, p, "restCluster", forge.next)
           \/ ProjectsNamed(n) = {} /\ Lost(c, WithProject(n)) /\ Retries(q, p)
    BY <1>0, <1>8, ProjectDoes
  <2>2. CASE Answered(c, forge) /\ \E x \in ProjectsNamed(n) : Uses(q, p, "restCluster", x.id)
    BY <1>4, <2>1, <2>2 DEF Answered
  <2>3. CASE Lost(c, forge) /\ Retries(q, p)
    BY <1>3, <2>1, <2>3 DEF Lost
  <2>4. CASE ProjectsNamed(n) = {} /\ Answered(c, WithProject(n)) /\ Uses(q, p, "restCluster", forge.next)
    BY <1>5, <2>1, <2>4 DEF Answered
  <2>5. CASE ProjectsNamed(n) = {} /\ Lost(c, WithProject(n)) /\ Retries(q, p)
    BY <1>3, <2>1, <2>5 DEF Lost
  <2> QED BY <2>1, <2>2, <2>3, <2>4, <2>5
<1> QED BY <1>6, <1>7, <1>8

\* by finding or making the cluster, and the rollback,
LEMMA ClusterOwn ==
  ASSUME Base, ~shared, NEW c \in Clusters, c = Only(Clusters), Own(c)
  PROVE  /\ McpCreateCluster(c) => Own(c)'
         /\ Rollback(c) => Own(c)'
         /\ RestCreateCluster(c) => Own(c)'
<1> DEFINE p == proc[c]
           q == proc'[c]
           w == ws[c]
           P == forge.projects
           K == forge.clusters
           Q == forge'.projects
           L == forge'.clusters
           j == proc[c].proj
           kube == ws[c].kube
<1>0. /\ Shapes /\ (\A x, y \in P : x = y) /\ OnWay(p, w, P, K) /\ kube \in 0 .. MaxCmds
      /\ w = ws[c] /\ kube = w.kube
  BY DEF Base, Own, Shapes, Workspaces
<1> USE DEF Registers, Loses, ByName, Deletes, Special
<1>1. ASSUME p.pc \in {"mcpCluster", "restCluster"}, Quiet(c), Q = P, OnWay(q, w, P, L)
      PROVE  Own(c)'
  <2>1. Kept(w, P, L)
    BY <1>0, <1>1 DEF OnWay, Kept
  <2> QED BY <1>0, <1>1, <2>1, QuietOwn DEF Quiet
<1>2. p.pc \in {"mcpCluster", "restCluster"} => Exists(j) /\ p.cmd \in {"up", "register"} /\ ~Reg(w) /\ w.kube # 0
  BY <1>0, Ways DEF OnWay, Exists
<1>3. ASSUME p.pc \in {"mcpCluster", "restCluster"}, Quiet(c), Q = P, Comes(q, p, "rollback"), q.fresh = FALSE
      PROVE  Own(c)'
  <2>1. OnWay(q, w, P, L)
    BY <1>2, <1>3 DEF OnWay, Finished, Comes
  <2> QED BY <1>1, <1>3, <2>1
<1>4. ASSUME p.pc \in {"mcpCluster", "restCluster"}, Quiet(c), Q = P, q.fresh = p.fresh, NEW k, Made(q, p, "writeLink", k),
             Linked(w, L, k)
      PROVE  Own(c)'
  <2>1. q.pc = "writeLink" /\ q.cmd = p.cmd /\ q.try = p.try /\ q.proj = p.proj /\ q.clus = k
    BY <1>4 DEF Made
  <2> HIDE DEF p, q, w, P, K, Q, L, j, kube
  <2>2. OnWay(q, w, P, L)
    BY <1>0, <1>2, <1>4, <2>1 DEF OnWay, Finished
  <2> QED BY <1>1, <1>4, <2>2
<1>5. ASSUME Exists(j), forge' = WithCluster(c, j, kube)
      PROVE  Q = P /\ Linked(w, L, forge.next)
  <2> DEFINE x == [id |-> forge.next, name |-> c, proj |-> j, kube |-> kube]
  <2>1. j \in Ids
    BY <1>0, <1>5 DEF Exists, Shapes, ForgeT, ProjectT
  <2>2. L = K \cup {x} /\ Q = P /\ x.id = forge.next /\ x.kube = kube
    BY <1>0, <1>5, <2>1, WithClusterIs
  <2> HIDE DEF x
  <2> QED BY <2>2 DEF Linked
<1>6. ASSUME McpCreateCluster(c) PROVE Own(c)'
  <2>1. /\ p.pc = "mcpCluster" /\ Quiet(c)
        /\ \/ Answered(c, forge) /\ RestsOr(q, p)
           \/ Answered(c, forge) /\ ~Exists(j) /\ Comes(q, p, "rollback")
           \/ Lost(c, forge) /\ Comes(q, p, "rollback")
           \/ Exists(j) /\ Answered(c, WithCluster(c, j, kube)) /\ Made(q, p, "writeLink", forge.next)
           \/ Exists(j) /\ Lost(c, WithCluster(c, j, kube)) /\ Comes(q, p, "rollback")
    BY <1>0, <1>6, ClusterDoes
  <2>2. CASE Answered(c, forge) /\ RestsOr(q, p)
    <3>1. q.pc \in {"restProject", "giveUp"} /\ q.cmd = p.cmd /\ q.try = p.try /\ q.fresh = p.fresh /\ forge' = forge
      BY <2>2 DEF RestsOr, Comes, Answered
    <3>2. OnWay(q, w, P, L)
      BY <1>0, <1>2, <2>1, <3>1 DEF OnWay, Finished
    <3> QED BY <1>1, <2>1, <3>1, <3>2
  <2>3. CASE Answered(c, forge) /\ ~Exists(j) /\ Comes(q, p, "rollback")
    BY <1>2, <2>1, <2>3
  <2>4. CASE Lost(c, forge) /\ Comes(q, p, "rollback")
    BY <1>3, <2>1, <2>4 DEF Lost
  <2>5. CASE Exists(j) /\ Answered(c, WithCluster(c, j, kube)) /\ Made(q, p, "writeLink", forge.next)
    BY <1>4, <1>5, <2>1, <2>5 DEF Answered
  <2>6. CASE Exists(j) /\ Lost(c, WithCluster(c, j, kube)) /\ Comes(q, p, "rollback")
    BY <1>3, <1>5, <2>1, <2>6 DEF Lost
  <2> QED BY <2>1, <2>2, <2>3, <2>4, <2>5, <2>6
<1>7. ASSUME NEW k \in ClustersNamed(c, j), forge' = WithKubeconfig(k.id, kube)
      PROVE  Q = P /\ Linked(w, L, k.id)
  <2>1. k \in K /\ k.id \in Ids
    BY <1>0 DEF ClustersNamed, Shapes, ForgeT, ClusterT
  <2>2. Q = P /\ \E x \in L : x.id = k.id /\ x.kube = kube
    BY <1>0, <1>7, <2>1, WithKubeconfigIs
  <2> QED BY <2>2 DEF Linked
<1>8. ASSUME RestCreateCluster(c) PROVE Own(c)'
  <2>1. /\ p.pc = "restCluster" /\ Quiet(c)
        /\ \/ \E k \in ClustersNamed(c, j) :
                \/ Answered(c, WithKubeconfig(k.id, kube)) /\ Made(q, p, "writeLink", k.id)
                \/ Lost(c, WithKubeconfig(k.id, kube)) /\ Comes(q, p, "rollback")
           \/ Answered(c, forge) /\ ~Exists(j) /\ Comes(q, p, "rollback")
           \/ Lost(c, forge) /\ Comes(q, p, "rollback")
           \/ Exists(j) /\ Answered(c, WithCluster(c, j, kube)) /\ Made(q, p, "writeLink", forge.next)
           \/ Exists(j) /\ Lost(c, WithCluster(c, j, kube)) /\ Comes(q, p, "rollback")
    BY <1>0, <1>8, ClusterDoes
  <2>2. ASSUME NEW k \in ClustersNamed(c, j), Answered(c, WithKubeconfig(k.id, kube)) /\ Made(q, p, "writeLink", k.id)
        PROVE  Own(c)'
    BY <1>4, <1>7, <2>1, <2>2 DEF Answered
  <2>3. ASSUME NEW k \in ClustersNamed(c, j), Lost(c, WithKubeconfig(k.id, kube)) /\ Comes(q, p, "rollback")
        PROVE  Own(c)'
    BY <1>3, <1>7, <2>1, <2>3 DEF Lost
  <2>4. CASE Answered(c, forge) /\ ~Exists(j) /\ Comes(q, p, "rollback")
    BY <1>2, <2>1, <2>4
  <2>5. CASE Lost(c, forge) /\ Comes(q, p, "rollback")
    BY <1>3, <2>1, <2>5 DEF Lost
  <2>6. CASE Exists(j) /\ Answered(c, WithCluster(c, j, kube)) /\ Made(q, p, "writeLink", forge.next)
    BY <1>4, <1>5, <2>1, <2>6 DEF Answered
  <2>7. CASE Exists(j) /\ Lost(c, WithCluster(c, j, kube)) /\ Comes(q, p, "rollback")
    BY <1>3, <1>5, <2>1, <2>7 DEF Lost
  <2> QED BY <2>1, <2>2, <2>3, <2>4, <2>5, <2>6, <2>7
<1>9. ASSUME Rollback(c) PROVE Own(c)'
  <2>1. /\ p.pc = "rollback" /\ Quiet(c) /\ Retries(q, p) /\ forge' \in {forge, WithoutProject(j)}
        /\ q.fresh = p.fresh \/ q.fresh = FALSE
    BY <1>0, <1>9, ClusterDoes
  <2>2. ~Reg(w) /\ w.kube # 0 /\ q.fresh = FALSE /\ p.cmd \in {"up", "register"}
    BY <1>0, <2>1, Ways DEF OnWay
  <2>3. \A x, y \in Q : x = y
    BY <1>0, <2>1, WithoutProjectIs
  <2>4. q.pc \in {"mcpProject", "pending", "giveUp"} /\ q.cmd = p.cmd
    BY <2>1, <2>2 DEF Retries
  <2>5. Kept(w, Q, L) /\ OnWay(q, w, Q, L)
    BY <2>2, <2>4 DEF Kept, OnWay, Finished
  <2> QED BY <2>1, <2>3, <2>5, QuietOwn DEF Quiet
<1> QED BY <1>6, <1>8, <1>9

\* by targets, agents and the jumphost,
LEMMA RecordOwn ==
  ASSUME Base, ~shared, NEW c \in Clusters, Own(c)
  PROVE  /\ JumphostDown(c) => Own(c)'
         /\ DeleteTargets(c) => Own(c)'
         /\ DeleteAgents(c) => Own(c)'
         /\ Cleaned(c) => Own(c)'
         /\ RegisterAgent(c) => Own(c)'
         /\ RegisterTarget(c) => Own(c)'
<1> DEFINE p == proc[c]
           q == proc'[c]
           w == ws[c]
           v == ws'[c]
           P == forge.projects
           K == forge.clusters
<1>0. /\ Shapes /\ (\A x, y \in P : x = y) /\ Kept(w, P, K) /\ OnWay(p, w, P, K) /\ Said(p, w, told[c], P)
      /\ forge.targets \subseteq TargetT /\ forge.agents \subseteq Clusters \X Nat
  BY DEF Base, Own, Shapes, ForgeT
<1> USE DEF Registers, Loses, ByName, Deletes, Special
<1>1. ASSUME p.pc \in {"targets", "agents", "agent", "target"}, Quiet(c), Mild(c), NEW x, Comes(q, p, x),
             x \in {"agents", "cleaned", "phase09Down", "target"}, x = "phase09Down" => p.cmd # "cleanup",
             forge'.projects = P, forge'.clusters = K
      PROVE  Own(c)'
  <2>1. q.pc = x /\ q.cmd = p.cmd /\ q.try = p.try /\ (q.fresh = p.fresh \/ q.fresh = FALSE)
    BY <1>1 DEF Comes, Mild
  <2>2. OnWay(q, w, P, K)
    BY <1>0, <1>1, <2>1 DEF OnWay, Finished
  <2> QED BY <1>0, <1>1, <2>2, QuietOwn DEF Quiet
<1>2. ASSUME JumphostDown(c) PROVE Own(c)'
  <2>1. /\ p.pc = "jumphost" /\ Sets(c, w.link, w.key, w.kube, 0, w.trusted)
        /\ Walks(c, "targets") \/ Walks(c, "phase09Down")
    BY <1>0, <1>2, RecordsDo
  <2>2. /\ q.pc \in {"targets", "phase09Down"} /\ q.cmd = p.cmd /\ q.try = p.try /\ q.fresh = p.fresh
        /\ forge' = forge /\ told' = told /\ v.link = w.link /\ v.kube = w.kube /\ v.trusted = w.trusted
    BY <2>1 DEF Walks, Comes, Sets
  <2> HIDE DEF p, q, w, v, P, K
  <2>3. Kept(v, P, K) /\ OnWay(q, v, P, K) /\ Said(q, v, told'[c], P)
    BY <1>0, <2>1, <2>2 DEF Kept, OnWay, Finished, Said, Reg, Linked
  <2> QED BY <1>0, <2>2, <2>3 DEF Own, p, q, w, v, P, K
<1>3. ASSUME DeleteTargets(c) PROVE Own(c)'
  <2> DEFINE T == forge.targets \ TargetsOf(p.key)
  <2>1. /\ p.pc = "targets" /\ Quiet(c) /\ Mild(c) /\ Comes(q, p, "agents")
        /\ forge' \in {forge, [forge EXCEPT !.targets = T]}
    BY <1>0, <1>3, RecordsDo
  <2>2. T \in SUBSET TargetT
    BY <1>0
  <2>3. forge'.projects = P /\ forge'.clusters = K
    BY <1>0, <2>1, <2>2, TargetsIs
  <2> QED BY <1>1, <2>1, <2>3
<1>4. ASSUME DeleteAgents(c) PROVE Own(c)'
  <2> DEFINE A == forge.agents \ AgentsOf(c)
             x == IF p.cmd = "cleanup" THEN "cleaned" ELSE "phase09Down"
  <2>1. /\ p.pc = "agents" /\ Quiet(c) /\ Mild(c) /\ Comes(q, p, x)
        /\ forge' \in {forge, [forge EXCEPT !.agents = A]}
    BY <1>0, <1>4, RecordsDo
  <2>2. A \in SUBSET (Clusters \X Nat)
    BY <1>0
  <2>3. forge'.projects = P /\ forge'.clusters = K
    BY <1>0, <2>1, <2>2, AgentsIs
  <2>4. x \in {"cleaned", "phase09Down"} /\ (x = "phase09Down" => p.cmd # "cleanup")
    OBVIOUS
  <2> HIDE DEF x, A
  <2> QED BY <1>1, <2>1, <2>3, <2>4
<1>5. ASSUME Cleaned(c) PROVE Own(c)'
  <2>1. p.pc = "cleaned" /\ v = w /\ (Stops(c, "ok") \/ Stops(c, "failed"))
    BY <1>0, <1>5, RecordsDo
  <2>2. q.pc = "idle" /\ q.cmd = "none" /\ q.try = 1 /\ forge' = forge /\ told'[c] \in {"ok", "failed"}
    BY <2>1, IdleIs DEF Stops
  <2> HIDE DEF p, q, w, v, P, K
  <2>3. OnWay(q, w, P, K) /\ Said(q, w, told'[c], P)
    BY <2>2 DEF OnWay, Finished, Said
  <2> QED BY <1>0, <2>1, <2>2, <2>3 DEF Own, p, q, w, v, P, K
<1>6. ASSUME RegisterAgent(c) PROVE Own(c)'
  <2> DEFINE A == forge.agents \cup {<<c, w.jh>>}
  <2>1. /\ p.pc = "agent" /\ Quiet(c) /\ Mild(c) /\ Comes(q, p, "target")
        /\ forge' \in {forge, [forge EXCEPT !.agents = A]}
    BY <1>0, <1>6, RecordsDo
  <2>2. A \in SUBSET (Clusters \X Nat)
    <3>1. w.jh \in Nat
      BY <1>0, ForgeCmdsAssumption DEF Shapes, Workspaces
    <3> QED BY <1>0, <3>1
  <2> HIDE DEF A
  <2>3. forge'.projects = P /\ forge'.clusters = K
    BY <1>0, <2>1, <2>2, AgentsIs
  <2> QED BY <1>1, <2>1, <2>3
<1>7. ASSUME RegisterTarget(c) PROVE Own(c)'
  <2> DEFINE T == forge.targets \cup {NewTarget(c)}
  <2>1. /\ p.pc = "target" /\ Quiet(c) /\ Mild(c) /\ Comes(q, p, "cleaned")
        /\ forge' = forge \/ forge' = [forge EXCEPT !.targets = T]
    BY <1>0, <1>7, RecordsDo
  <2>2. T \in SUBSET TargetT
    <3>1. NewTarget(c) \in TargetT
      BY <1>0 DEF NewTarget, TargetT, Shapes, Workspaces, Links
    <3> QED BY <1>0, <3>1
  <2> HIDE DEF T
  <2>3. forge'.projects = P /\ forge'.clusters = K
    BY <1>0, <2>1, <2>2, TargetsIs
  <2> QED BY <1>1, <2>1, <2>3
<1> QED BY <1>2, <1>3, <1>4, <1>5, <1>6, <1>7

\* by the deletions,
LEMMA DownOwn ==
  ASSUME Base, ~shared, NEW c \in Clusters, c = Only(Clusters), Own(c)
  PROVE  /\ Phase09Down(c) => Own(c)'
         /\ ByNameProject(c) => Own(c)'
         /\ ByNameCluster(c) => Own(c)'
         /\ ByNameDelete(c) => Own(c)'
         /\ McpDeleteCluster(c) => Own(c)'
         /\ McpDeleteProject(c) => Own(c)'
         /\ RemoveLink(c) => Own(c)'
         /\ RestDeleteCluster(c) => Own(c)'
         /\ RestDeleteProject(c) => Own(c)'
         /\ Forget(c) => Own(c)'
         /\ EksDown(c) => Own(c)'
<1> DEFINE p == proc[c]
           q == proc'[c]
           w == ws[c]
           v == ws'[c]
           P == forge.projects
           K == forge.clusters
           Q == forge'.projects
           L == forge'.clusters
<1>0. /\ Shapes /\ (\A x, y \in P : x = y) /\ Kept(w, P, K) /\ OnWay(p, w, P, K) /\ Said(p, w, told[c], P)
      /\ \A x : x \in ProjectsNamed(c) <=> x \in P
  BY OneProject DEF Base, Own
<1> USE DEF Registers, Loses, ByName, Deletes, Special
\* A call of down or unregister: a link that is still registered is not trusted any more.
<1>1. ASSUME p.cmd \in {"down", "unregister", "purge"}, p.pc # "idle", Quiet(c), Q \subseteq P, OnWay(q, w, Q, L)
      PROVE  Own(c)'
  <2>1. Kept(w, Q, L)
    BY <1>0, <1>1 DEF OnWay, Kept
  <2> QED BY <1>0, <1>1, <2>1, QuietOwn DEF Quiet
<1>2. \A gone : forge' = WithoutClusters(gone) => Q = P
  BY <1>0, WithoutClustersIs
<1>3. \A j : forge' = WithoutProject(j) => Q = {x \in P : x.id # j}
  BY <1>0, WithoutProjectIs
<1>4. ASSUME p.pc \in ByName \cup Deletes, Quiet(c), Q \subseteq P, Comes(q, p, "eksDown"), q.fresh = FALSE
      PROVE  Own(c)'
  <2>1. p.cmd \in {"down", "unregister", "purge"} /\ q.pc = "eksDown" /\ q.cmd = p.cmd /\ q.clus # -1
    BY <1>4, Keeps, Ways DEF Comes, Flow
  <2>2. OnWay(q, w, Q, L)
    BY <1>0, <1>4, <2>1 DEF OnWay, Finished
  <2> QED BY <1>1, <1>4, <2>1, <2>2
<1>5. ASSUME p.pc \in {"mcpDelete", "mcpDeleteProject"}, Quiet(c), Q \subseteq P, Falls(q, p), Mild(c)
      PROVE  Own(c)'
  <2>1. /\ p.cmd \in {"down", "unregister", "purge"} /\ q.cmd = p.cmd /\ q.try = p.try
        /\ q.pc = (IF p.cmd = "down" THEN "restDelete" ELSE "giveUp") /\ (q.fresh = p.fresh \/ q.fresh = FALSE)
    BY <1>5, Ways DEF Falls, Comes, Mild
  <2>2. OnWay(q, w, Q, L)
    BY <1>0, <1>5, <2>1 DEF OnWay, Finished
  <2> QED BY <1>1, <1>5, <2>1, <2>2
<1>6. ASSUME p.pc \in ByName \cup Deletes, Quiet(c), Q = {}, q.fresh = p.fresh,
             NEW x \in {"forget", "removeLink"}, Comes(q, p, x)
      PROVE  Own(c)'
  <2>1. p.cmd \in {"down", "unregister", "purge"} /\ q.pc = x /\ q.cmd = p.cmd /\ q.try = p.try
    BY <1>6, Ways DEF Comes
  <2>2. OnWay(q, w, Q, L)
    BY <1>0, <1>6, <2>1 DEF OnWay, Finished
  <2> QED BY <1>1, <1>6, <2>1, <2>2
<1>7. ASSUME Phase09Down(c) PROVE Own(c)'
  <2>1. /\ p.pc = "phase09Down" /\ v = w /\ p.cmd \in {"down", "downKept"} /\ q.clus # -1
        /\ q.cmd = p.cmd /\ q.try = p.try /\ q.fresh = p.fresh /\ forge' = forge /\ told' = told
        /\ \/ p.cmd = "downKept" /\ q.pc = "eksDown"
           \/ p.cmd # "downKept" /\ Reg(w) /\ q.pc = "mcpDelete"
           \/ p.cmd # "downKept" /\ ~Reg(w) /\ q.pc = "byName"
    <3>1. /\ p.pc = "phase09Down" /\ v = w
          /\ \/ p.cmd = "downKept" /\ Walks(c, "eksDown")
             \/ p.cmd # "downKept" /\ Reg(w) /\ Walks(c, "mcpDelete")
             \/ p.cmd # "downKept" /\ ~Reg(w) /\ Walks(c, "byName")
      BY <1>0, <1>7, ByNameDoes DEF Reg
    <3>2. p.cmd \in {"down", "downKept"} /\ p.clus # -1
      BY <3>1, Ways, Keeps DEF Flow
    <3> QED BY <3>1, <3>2 DEF Walks, Comes
  <2> HIDE DEF p, q, w, v, P, K
  <2>2. OnWay(q, w, P, K) /\ Said(q, w, told'[c], P)
    BY <1>0, <2>1 DEF OnWay, Finished, Said
  <2> QED BY <1>0, <2>1, <2>2 DEF Own, p, q, w, v, P, K
<1>8. ASSUME ByNameProject(c) PROVE Own(c)'
  <2>1. /\ p.pc = "byName" /\ Quiet(c) /\ p.cmd = "down"
        /\ \/ ProjectsNamed(c) = {} /\ Answered(c, forge) /\ Comes(q, p, "forget")
           \/ Answered(c, forge) /\ \E x \in ProjectsNamed(c) : Uses(q, p, "byNameCluster", x.id)
           \/ Lost(c, forge) /\ Comes(q, p, "eksDown")
    BY <1>0, <1>8, ByNameDoes, Ways
  <2>2. CASE ProjectsNamed(c) = {} /\ Answered(c, forge) /\ Comes(q, p, "forget")
    <3>1. Q = {}
      BY <1>0, <2>2 DEF Answered
    <3> QED BY <1>6, <2>1, <2>2, <3>1 DEF Answered
  <2>3. ASSUME Answered(c, forge), NEW x \in ProjectsNamed(c), Uses(q, p, "byNameCluster", x.id)
        PROVE  Own(c)'
    <3>1. /\ q.pc = "byNameCluster" /\ q.cmd = p.cmd /\ q.try = p.try /\ q.proj = x.id /\ q.fresh = p.fresh
          /\ forge' = forge /\ x \in P /\ \A y \in P : y = x
      BY <1>0, <2>3 DEF Uses, Answered
    <3>2. OnWay(q, w, P, K)
      BY <1>0, <2>1, <3>1 DEF OnWay, Finished
    <3> QED BY <1>1, <2>1, <3>1, <3>2
  <2>4. CASE Lost(c, forge) /\ Comes(q, p, "eksDown")
    BY <1>4, <2>1, <2>4 DEF Lost
  <2> QED BY <2>1, <2>2, <2>3, <2>4
<1>9. ASSUME ByNameCluster(c) PROVE Own(c)'
  <2>1. /\ p.pc = "byNameCluster" /\ Quiet(c) /\ p.cmd = "down" /\ Q = P
        /\ \/ q.fresh = p.fresh /\ Comes(q, p, "byNameDelete")
           \/ q.fresh = FALSE /\ Comes(q, p, "eksDown")
    BY <1>0, <1>2, <1>9, ByNameDoes, Ways DEF Answered, Lost
  <2>2. CASE q.fresh = p.fresh /\ Comes(q, p, "byNameDelete")
    <3>1. q.pc = "byNameDelete" /\ q.cmd = p.cmd /\ q.try = p.try /\ q.proj = p.proj
      BY <2>2 DEF Comes
    <3>2. OnWay(q, w, Q, L)
      BY <1>0, <2>1, <2>2, <3>1 DEF OnWay, Finished
    <3> QED BY <1>1, <2>1, <3>2
  <2>3. CASE q.fresh = FALSE /\ Comes(q, p, "eksDown")
    BY <1>4, <2>1, <2>3
  <2> QED BY <2>1, <2>2, <2>3
<1>10. ASSUME ByNameDelete(c) PROVE Own(c)'
  <2>1. /\ p.pc = "byNameDelete" /\ Quiet(c)
        /\ \/ Answered(c, WithoutProject(p.proj)) /\ Comes(q, p, "forget")
           \/ Lost(c, WithoutProject(p.proj)) /\ Comes(q, p, "eksDown")
    BY <1>0, <1>10, ByNameDoes
  <2>2. \A x \in P : x.id = p.proj
    BY <1>0, <2>1 DEF OnWay
  <2>3. CASE Answered(c, WithoutProject(p.proj)) /\ Comes(q, p, "forget")
    <3>1. Q = {}
      BY <1>3, <2>2, <2>3 DEF Answered
    <3> QED BY <1>6, <2>1, <2>3, <3>1 DEF Answered
  <2>4. CASE Lost(c, WithoutProject(p.proj)) /\ Comes(q, p, "eksDown")
    <3>1. Q \subseteq P
      BY <1>3, <2>4 DEF Lost
    <3> QED BY <1>4, <2>1, <2>4, <3>1 DEF Lost
  <2> QED BY <2>1, <2>3, <2>4
<1>11. ASSUME McpDeleteCluster(c) PROVE Own(c)'
  <2> DEFINE x == IF Purges(c) THEN "mcpDeleteProject" ELSE "removeLink"
  <2>1. /\ p.pc = "mcpDelete" /\ Quiet(c) /\ Q = P
        /\ \/ q.fresh = p.fresh /\ Comes(q, p, x)
           \/ Mild(c) /\ Falls(q, p)
    BY <1>0, <1>2, <1>11, DeletesDo DEF Answered, Lost, Mild
  <2>2. p.cmd \in {"down", "unregister", "purge"}
    BY <2>1, Ways
  <2>3. x \in {"mcpDeleteProject", "removeLink"} /\ (p.cmd = "down" => x = "mcpDeleteProject")
    BY DEF Purges
  <2> HIDE DEF x
  <2>4. CASE q.fresh = p.fresh /\ Comes(q, p, x)
    <3>1. q.pc = x /\ q.cmd = p.cmd /\ q.try = p.try
      BY <2>4 DEF Comes
    <3>2. OnWay(q, w, Q, L)
      BY <1>0, <2>1, <2>2, <2>3, <2>4, <3>1 DEF OnWay, Finished
    <3> QED BY <1>1, <2>1, <2>2, <3>2
  <2>5. CASE Mild(c) /\ Falls(q, p)
    BY <1>5, <2>1, <2>5
  <2> QED BY <2>1, <2>4, <2>5
<1>12. ASSUME p.pc \in {"mcpDeleteProject", "restDeleteProject"}, p.cmd = "down"
       PROVE  \A x \in P : x.id = w.link.proj
  BY <1>0, <1>12 DEF OnWay, Kept
<1>13. ASSUME McpDeleteProject(c) PROVE Own(c)'
  <2>1. /\ p.pc = "mcpDeleteProject" /\ Quiet(c) /\ Q \subseteq P
        /\ \/ Answered(c, WithoutProject(w.link.proj)) /\ Comes(q, p, "removeLink")
           \/ Mild(c) /\ Falls(q, p)
    BY <1>0, <1>3, <1>13, DeletesDo DEF Answered, Lost, Mild
  <2>2. CASE Mild(c) /\ Falls(q, p)
    BY <1>5, <2>1, <2>2
  <2>3. CASE Answered(c, WithoutProject(w.link.proj)) /\ Comes(q, p, "removeLink")
    <3>1. q.pc = "removeLink" /\ q.cmd = p.cmd /\ q.try = p.try /\ q.fresh = p.fresh /\ p.cmd \in {"down", "unregister", "purge"}
      BY <2>1, <2>3, Ways DEF Comes, Answered
    <3>2. p.cmd = "down" => Q = {}
      BY <1>3, <1>12, <2>1, <2>3 DEF Answered
    <3>3. OnWay(q, w, Q, L)
      BY <1>0, <2>1, <3>1, <3>2 DEF OnWay, Finished
    <3> QED BY <1>1, <2>1, <3>1, <3>3
  <2> QED BY <2>1, <2>2, <2>3
<1>14. ASSUME RestDeleteCluster(c) PROVE Own(c)'
  <2>1. /\ p.pc = "restDelete" /\ Quiet(c) /\ Q = P /\ p.cmd = "down"
        /\ \/ q.fresh = p.fresh /\ Comes(q, p, "restDeleteProject")
           \/ q.fresh = FALSE /\ Comes(q, p, "eksDown")
    BY <1>0, <1>2, <1>14, DeletesDo, Ways DEF Answered, Lost
  <2>2. CASE q.fresh = p.fresh /\ Comes(q, p, "restDeleteProject")
    <3>1. q.pc = "restDeleteProject" /\ q.cmd = p.cmd /\ q.try = p.try
      BY <2>2 DEF Comes
    <3>2. OnWay(q, w, Q, L)
      BY <1>0, <2>1, <2>2, <3>1 DEF OnWay, Finished
    <3> QED BY <1>1, <2>1, <3>2
  <2>3. CASE q.fresh = FALSE /\ Comes(q, p, "eksDown")
    BY <1>4, <2>1, <2>3
  <2> QED BY <2>1, <2>2, <2>3
<1>15. ASSUME RestDeleteProject(c) PROVE Own(c)'
  <2>1. /\ p.pc = "restDeleteProject" /\ Quiet(c) /\ p.cmd = "down"
        /\ \/ Answered(c, WithoutProject(w.link.proj)) /\ Comes(q, p, "forget")
           \/ Lost(c, WithoutProject(w.link.proj)) /\ Comes(q, p, "eksDown")
    BY <1>0, <1>15, DeletesDo, Ways
  <2>2. CASE Answered(c, WithoutProject(w.link.proj)) /\ Comes(q, p, "forget")
    <3>1. Q = {}
      BY <1>3, <1>12, <2>1, <2>2 DEF Answered
    <3> QED BY <1>6, <2>1, <2>2, <3>1 DEF Answered
  <2>3. CASE Lost(c, WithoutProject(w.link.proj)) /\ Comes(q, p, "eksDown")
    <3>1. Q \subseteq P
      BY <1>3, <2>3 DEF Lost
    <3> QED BY <1>4, <2>1, <2>3, <3>1 DEF Lost
  <2> QED BY <2>1, <2>2, <2>3
\* The link is gone: nothing is said of it.
<1>16. ASSUME forge' = forge, ~Reg(v), OnWay(q, v, P, K), Said(q, v, told'[c], P)
       PROVE  Own(c)'
  BY <1>0, <1>16 DEF Own, Kept
<1>17. ASSUME RemoveLink(c) PROVE Own(c)'
  <2>1. /\ p.pc = "removeLink" /\ Sets(c, NoLink, w.key, w.kube, w.jh, TRUE)
        /\ (p.cmd = "down" /\ Walks(c, "forget")) \/ (p.cmd # "down" /\ Stops(c, "ok"))
    BY <1>0, <1>17, DeletesDo
  <2>2. ~Reg(v)
    BY <2>1 DEF Sets, Reg, NoLink, IsRegistered
  <2>3. \/ /\ p.cmd = "down" /\ q.pc = "forget" /\ q.cmd = p.cmd /\ q.try = p.try /\ q.fresh = p.fresh
           /\ forge' = forge /\ told' = told
        \/ q.pc = "idle" /\ q.cmd = "none" /\ q.try = 1 /\ forge' = forge /\ told'[c] = "ok"
    BY <2>1, IdleIs DEF Walks, Comes, Stops
  <2> HIDE DEF p, q, w, v, P, K
  <2>4. OnWay(q, v, P, K) /\ Said(q, v, told'[c], P)
    BY <1>0, <2>1, <2>2, <2>3 DEF OnWay, Finished, Said
  <2> QED BY <1>16, <2>2, <2>3, <2>4
<1>18. ASSUME Forget(c) PROVE Own(c)'
  <2>1. /\ p.pc = "forget" /\ Sets(c, NoLink, 0, w.kube, w.jh, TRUE) /\ p.cmd = "down"
        /\ UNCHANGED <<forge, told>> /\ q.fresh = p.fresh /\ Made(q, p, "eksDown", -1)
    BY <1>0, <1>18, DeletesDo, Ways
  <2>2. ~Reg(v)
    BY <2>1 DEF Sets, Reg, NoLink, IsRegistered
  <2>3. q.pc = "eksDown" /\ q.cmd = p.cmd /\ q.try = p.try /\ q.clus = -1
    BY <2>1 DEF Made
  <2> HIDE DEF p, q, w, v, P, K
  <2>4. OnWay(q, v, P, K) /\ Said(q, v, told'[c], P)
    BY <1>0, <2>1, <2>2, <2>3 DEF OnWay, Finished, Said
  <2> QED BY <1>16, <2>1, <2>2, <2>4
<1>19. ASSUME EksDown(c) PROVE Own(c)'
  <2>1. /\ p.pc = "eksDown" /\ Sets(c, w.link, w.key, 0, w.jh, w.trusted) /\ p.cmd \in {"down", "downKept"}
        /\ (p.clus = -1 /\ Stops(c, "down")) \/ Stops(c, "warned")
    BY <1>0, <1>19, DeletesDo, Ways
  <2>2. /\ v.link = w.link /\ v.trusted = w.trusted /\ q.pc = "idle" /\ q.cmd = "none" /\ q.try = 1 /\ forge' = forge
        /\ (p.clus = -1 /\ told'[c] = "down") \/ told'[c] = "warned"
    BY <2>1, IdleIs DEF Sets, Stops
  <2> HIDE DEF p, q, w, v, P, K
  <2>3. Kept(v, P, K)
    BY <1>0, <2>1, <2>2 DEF Kept, OnWay, Reg
  <2>4. OnWay(q, v, P, K) /\ Said(q, v, told'[c], P)
    BY <1>0, <2>1, <2>2 DEF OnWay, Finished, Said
  <2> QED BY <1>0, <2>2, <2>3, <2>4 DEF Own, p, q, w, v, P, K
<1> QED BY <1>7, <1>8, <1>9, <1>10, <1>11, <1>13, <1>14, <1>15, <1>17, <1>18, <1>19

\* by the start of a command,
LEMMA StartOwn ==
  ASSUME Base, ~shared, NEW c \in Clusters, Own(c), Start(c)
  PROVE  Own(c)'
<1> DEFINE p == proc[c]
           q == proc'[c]
           w == ws[c]
           v == ws'[c]
           P == forge.projects
           K == forge.clusters
<1>0. /\ Shapes /\ (\A x, y \in P : x = y) /\ Kept(w, P, K) /\ w.trusted \in BOOLEAN
      /\ (UNCHANGED ws => Sets(c, w.link, w.key, w.kube, w.jh, w.trusted))
  BY StillSets DEF Base, Own, Shapes, Workspaces
\* A command that gives the link up no longer trusts it from its first step on.
<1>1. ASSUME NEW n, NEW x, NEW key, Begins(c, n, x, key), v.link = w.link, v.kube = w.kube,
             v.trusted = w.trusted \/ (Reg(w) => v.trusted = FALSE),
             n \in {"down", "downKept", "unregister", "purge"} => (Reg(w) => v.trusted = FALSE),
             n = "down" => x = "jumphost",
             x \in {"eks", "verify", "targets", "agent", "jumphost", "mcpDelete"}, x = "verify" => w.kube # 0
      PROVE  Own(c)'
  <2>1. forge' = forge /\ q.pc = x /\ q.cmd = n /\ q.try = 1 /\ told'[c] = "none"
    BY <1>1 DEF Begins
  <2> HIDE DEF p, q, w, v, P, K
  <2>2. Kept(v, P, K)
    BY <1>0, <1>1 DEF Kept, Reg, Linked
  <2>3. OnWay(q, v, P, K)
    BY <1>1, <2>1 DEF OnWay, Finished, Reg, Registers, Loses, ByName, Deletes, Special
  <2>4. Said(q, v, told'[c], P)
    BY <2>1 DEF Said
  <2> QED BY <1>0, <2>1, <2>2, <2>3, <2>4 DEF Own, q, v, P, K
<1>2. CASE StartUp(c)
  <2>1. Begins(c, "up", "eks", w.key) /\ v.link = w.link /\ v.kube = w.kube /\ v.trusted = w.trusted
    BY <1>0, <1>2, StartDoes DEF Sets
  <2> HIDE DEF w, v
  <2> QED BY <1>1, <2>1
<1>3. CASE StartRegister(c)
  <2>1. Begins(c, "register", "verify", w.key) /\ v.link = w.link /\ v.kube = w.kube /\ v.trusted = w.trusted /\ w.kube # 0
    BY <1>0, <1>3, StartDoes DEF Sets
  <2> HIDE DEF w, v
  <2> QED BY <1>1, <2>1
<1>4. CASE StartCleanup(c)
  <2> DEFINE key == w.link.clus
  <2>1. Begins(c, "cleanup", "targets", key) /\ v.link = w.link /\ v.kube = w.kube /\ v.trusted = w.trusted
    BY <1>0, <1>4, StartDoes DEF Sets
  <2> HIDE DEF w, v, key
  <2> QED BY <1>1, <2>1
<1>5. CASE StartBenchmark(c)
  <2>1. Begins(c, "benchmark", "agent", w.key) /\ v.link = w.link /\ v.kube = w.kube /\ v.trusted = w.trusted
    BY <1>0, <1>5, StartDoes DEF Sets
  <2> HIDE DEF w, v
  <2> QED BY <1>1, <2>1
<1>6. ASSUME NEW b \in BOOLEAN, StartDown(c, b) PROVE Own(c)'
  <2> DEFINE n == IF b THEN "downKept" ELSE "down"
  <2>1. /\ Begins(c, n, "jumphost", w.key) /\ v.link = w.link /\ v.kube = w.kube
        /\ v.trusted = (w.link = NoLink)
    BY <1>0, <1>6, StartDoes DEF Sets
  <2>3. Reg(w) => w.link # NoLink
    BY DEF Reg, NoLink, IsRegistered
  <2> HIDE DEF w, v, n
  <2>2. Reg(w) => v.trusted = FALSE
    BY <2>1, <2>3
  <2> QED BY <1>1, <2>1, <2>2
<1>7. ASSUME NEW b \in BOOLEAN, StartUnregister(c, b) PROVE Own(c)'
  <2> DEFINE n == IF b THEN "purge" ELSE "unregister"
  <2>1. Begins(c, n, "mcpDelete", w.key) /\ n # "down" /\ v.link = w.link /\ v.kube = w.kube /\ v.trusted = FALSE
    BY <1>0, <1>7, StartDoes DEF Sets
  <2> HIDE DEF w, v, n
  <2> QED BY <1>1, <2>1
<1> QED BY <1>2, <1>3, <1>4, <1>5, <1>6, <1>7 DEF Start

\* by its being cut off,
LEMMA KillOwn ==
  ASSUME Base, NEW c \in Clusters, Own(c), Kill(c)
  PROVE  Own(c)'
<1>1. Shapes
  BY DEF Base
<1>2. UNCHANGED <<forge, ws>> /\ proc'[c] = Idle /\ told'[c] = "killed"
  BY <1>1 DEF Kill, Shapes
<1>3. proc'[c].pc = "idle" /\ proc'[c].cmd = "none" /\ proc'[c].try = 1
  BY <1>2, IdleIs
<1>4. OnWay(proc'[c], ws[c], forge.projects, forge.clusters) /\ Said(proc'[c], ws[c], told'[c], forge.projects)
  BY <1>2, <1>3 DEF OnWay, Finished, Said, Registers, Loses, ByName, Deletes, Special
<1> QED BY <1>2, <1>4 DEF Own

\* and so by every step of the system.
LEMMA OursKept ==
  ASSUME Base, Ours, [Next]_vars
  PROVE  Ours'
<1>1. CASE UNCHANGED <<forge, shared, ws, proc, told>>
  BY <1>1 DEF Ours, Own
<1>2. ASSUME NEW c \in Clusters, Start(c) \/ Step(c) \/ Kill(c)
      PROVE  Ours'
  <2>1. UNCHANGED shared /\ (shared \/ c = Only(Clusters))
    BY <1>2, StartTurns, StepTurns, KillTurns DEF Turn
  <2>2. ASSUME ~shared PROVE Own(c)'
    <3>1. Own(c) /\ c = Only(Clusters)
      BY <2>1, <2>2 DEF Ours
    <3> QED BY <1>2, <2>2, <3>1, UpOwn, ProjectOwn, ClusterOwn, RecordOwn, DownOwn, StartOwn, KillOwn DEF Step
  <2> QED BY <2>1, <2>2 DEF Ours
<1>3. CASE Server \/ Done \/ UNCHANGED vars
  BY <1>1, <1>3 DEF Server, Outage, Recovers, Done, vars, serverVars
<1> QED BY <1>2, <1>3 DEF Next

\* It holds at the start.
LEMMA OursStarts ==
  ASSUME Init
  PROVE  Ours
<1>1. forge.projects = {} /\ \A c \in Clusters : ws[c] = NoWs /\ proc[c] = Idle /\ told[c] = "none"
  BY DEF Init, ServerInit, NoForge
<1>2. ~Reg(NoWs)
  BY DEF NoWs, NoLink, Reg, IsRegistered
<1> QED BY <1>1, <1>2, IdleIs DEF Ours, Own, Kept, OnWay, Finished, Said, Registers, Loses, ByName, Deletes, Special

-----------------------------------------------------------------------------
(* A project that workspaces share, while all goes well.                    *)

\* The points only a lost answer or a gap of the catalogue leads to.
Fallbacks == {"rollback", "restDelete", "restDeleteProject"}
\* While no fault has happened and the catalogue is full, no command falls back, and the project in
\* hand exists; nobody deletes a shared project by id.
Calm ==
  /\ \A c \in Clusters : proc[c].cmd = "purge" \/ proc[c].pc = "mcpDeleteProject" => ~shared
  /\ faults = 0 /\ catalogue = "full" =>
       /\ net = "up"
       /\ \A c \in Clusters : /\ proc[c].pc \notin Fallbacks
                              /\ proc[c].pc \in {"mcpCluster", "restCluster"} => Exists(proc[c].proj)

\* What a step of c removes is of c.
Spares(c) ==
  /\ \A x \in forge.projects : x \in forge'.projects \/ x.name = c \/ ~shared
  /\ \A k \in forge.clusters : (\E x \in forge'.clusters : x.id = k.id) \/ (k.name = c /\ proc'[c] # proc[c])
  /\ \A t \in forge.targets : \/ t \in forge'.targets \/ t.cluster = 0
                              \/ proc'[c] # proc[c] /\ \E k \in forge.clusters : k.id = t.cluster /\ k.name = c
\* What every step of c is, as far as Calm can tell.
Gentle(c) ==
  /\ proc'[c].cmd = "purge" \/ proc'[c].pc = "mcpDeleteProject" => ~shared
  /\ faults' = 0 /\ catalogue = "full" =>
       /\ proc'[c].pc \notin Fallbacks
       /\ proc'[c].pc \in {"mcpCluster", "restCluster"} => \E x \in forge'.projects : x.id = proc'[c].proj
       /\ Spares(c)

\* What only adds to the server removes nothing.
LEMMA SparesGrowth ==
  ASSUME Base, NEW c \in Clusters,
         \/ forge' = forge
         \/ forge' = WithProject(ProjectName(c))
         \/ Exists(proc[c].proj) /\ forge' = WithCluster(c, proc[c].proj, ws[c].kube)
         \/ \E k \in ClustersNamed(c, proc[c].proj) : forge' = WithKubeconfig(k.id, ws[c].kube)
         \/ \E T \in SUBSET TargetT : forge' = [forge EXCEPT !.targets = T] /\ forge.targets \subseteq T
         \/ \E A \in SUBSET (Clusters \X Nat) : forge' = [forge EXCEPT !.agents = A]
  PROVE  Spares(c)
<1>0. /\ Shapes /\ ws[c].kube \in 0 .. MaxCmds /\ forge.projects \subseteq ProjectT /\ forge.clusters \subseteq ClusterT
  BY DEF Base, Shapes, Workspaces, ForgeT
<1>1. CASE forge' = forge
  BY <1>1 DEF Spares
<1>2. CASE forge' = WithProject(ProjectName(c))
  <2>1. forge.projects \subseteq forge'.projects /\ forge'.clusters = forge.clusters /\ forge'.targets = forge.targets
    BY <1>0, <1>2, ProjectNames, WithProjectIs
  <2> QED BY <2>1 DEF Spares
<1>3. CASE Exists(proc[c].proj) /\ forge' = WithCluster(c, proc[c].proj, ws[c].kube)
  <2>1. proc[c].proj \in Ids
    BY <1>0, <1>3 DEF Exists, ProjectT
  <2>2. forge'.projects = forge.projects /\ forge.clusters \subseteq forge'.clusters /\ forge'.targets = forge.targets
    BY <1>0, <1>3, <2>1, WithClusterIs
  <2> QED BY <2>2 DEF Spares
<1>4. ASSUME NEW k \in ClustersNamed(c, proc[c].proj), forge' = WithKubeconfig(k.id, ws[c].kube)
      PROVE  Spares(c)
  <2>1. k.id \in Ids
    BY <1>0 DEF ClustersNamed, ClusterT
  <2>2. /\ forge'.projects = forge.projects /\ forge'.targets = forge.targets
        /\ \A x \in forge.clusters : \E y \in forge'.clusters : y.id = x.id
    BY <1>0, <1>4, <2>1, WithKubeconfigIs
  <2> QED BY <2>2 DEF Spares
<1>5. ASSUME NEW T \in SUBSET TargetT, forge' = [forge EXCEPT !.targets = T], forge.targets \subseteq T
      PROVE  Spares(c)
  <2>1. forge'.projects = forge.projects /\ forge'.clusters = forge.clusters /\ forge'.targets = T
    BY <1>0, <1>5, TargetsIs
  <2> QED BY <1>5, <2>1 DEF Spares
<1>6. ASSUME NEW A \in SUBSET (Clusters \X Nat), forge' = [forge EXCEPT !.agents = A]
      PROVE  Spares(c)
  <2>1. forge'.projects = forge.projects /\ forge'.clusters = forge.clusters /\ forge'.targets = forge.targets
    BY <1>0, <1>6, AgentsIs
  <2> QED BY <2>1 DEF Spares
<1> QED BY <1>1, <1>2, <1>3, <1>4, <1>5, <1>6

\* Removing clusters of c's name removes what is of c,
LEMMA SparesClusters ==
  ASSUME Base, NEW c \in Clusters, NEW gone, forge' = WithoutClusters(gone), proc'[c] # proc[c],
         \A k \in forge.clusters : k.id \in gone => k.name = c
  PROVE  Spares(c)
<1>1. /\ forge'.projects = forge.projects /\ forge'.clusters = {k \in forge.clusters : k.id \notin gone}
      /\ \A t \in forge.targets : t.cluster \notin gone => t \in forge'.targets
  BY WithoutClustersIs DEF Base
<1>2. \A t \in forge.targets : t.cluster = 0 \/ \E k \in forge.clusters : k.id = t.cluster
  BY DEF Base, Consistent
<1> QED BY <1>1, <1>2 DEF Spares

\* and so does removing a project that is c's own.
LEMMA SparesProject ==
  ASSUME Base, NEW c \in Clusters, NEW j, forge' = WithoutProject(j), proc'[c] # proc[c], shared \/ c = Only(Clusters),
         \A x \in forge.projects : x.id = j => x.name = c \/ ~shared
  PROVE  Spares(c)
<1>1. /\ forge'.projects = {p \in forge.projects : p.id # j}
      /\ forge'.clusters = {k \in forge.clusters : \A x \in forge.clusters : x.proj = j => x.id # k.id}
      /\ \A t \in forge.targets : (\A x \in forge.clusters : x.proj = j => x.id # t.cluster) => t \in forge'.targets
  BY WithoutProjectIs DEF Base
<1>2. Consistent(forge) /\ NamesFit
  BY DEF Base
<1>3. c # "shared" /\ \A k \in forge.clusters : \E x \in forge.projects : x.id = k.proj /\ x.name \in {k.name, "shared"}
  BY <1>2, ForgeAssumption DEF Consistent, NamesFit
<1>4. ASSUME NEW k \in forge.clusters, k.proj = j PROVE k.name = c
  <2>1. CASE shared
    BY <1>3, <1>4, <2>1
  <2>2. CASE ~shared
    BY <1>2, <1>4, <2>2 DEF NamesFit
  <2> QED BY <2>1, <2>2
<1>5. \A x \in forge.projects : x \in forge'.projects \/ x.name = c \/ ~shared
  BY <1>1
<1>6. \A k \in forge.clusters : (\E x \in forge'.clusters : x.id = k.id) \/ (k.name = c /\ proc'[c] # proc[c])
  BY <1>1, <1>2, <1>4 DEF Consistent
<1>7. ASSUME NEW t \in forge.targets, t \notin forge'.targets
      PROVE  \E k \in forge.clusters : k.id = t.cluster /\ k.name = c
  <2>1. PICK k \in forge.clusters : k.proj = j /\ k.id = t.cluster
    BY <1>1, <1>7
  <2> QED BY <1>4, <2>1
<1> QED BY <1>5, <1>6, <1>7 DEF Spares

\* A step that leaves the server alone is gentle:
LEMMA LocalGentle ==
  ASSUME Base, Calm, NEW c \in Clusters, forge' = forge,
         proc'[c].pc \notin Fallbacks \cup {"mcpCluster", "restCluster", "mcpDeleteProject"},
         proc'[c].cmd = proc[c].cmd \/ proc'[c].cmd # "purge" \/ ~shared
  PROVE  Gentle(c)
<1>1. Spares(c)
  BY SparesGrowth
<1> QED BY <1>1 DEF Gentle, Calm

\* those of the commands outside their calls,
LEMMA LocalStepGentle ==
  ASSUME Base, Calm, NEW c \in Clusters,
         \/ EksCluster(c) \/ Phase09(c) \/ Verify(c) \/ GiveUp(c) \/ WriteLink(c) \/ WritePending(c) \/ Later(c)
         \/ JumphostDown(c) \/ Cleaned(c) \/ Phase09Down(c) \/ RemoveLink(c) \/ Forget(c) \/ EksDown(c)
  PROVE  Gentle(c)
<1> DEFINE q == proc'[c]
           p == proc[c]
<1>0. Shapes /\ (WriteLink(c) => p.clus >= 0)
  BY Keeps DEF Base, WriteLink, At, Flow
<1>1. /\ \A x : Walks(c, x) => q.pc = x /\ q.cmd = p.cmd /\ forge' = forge
      /\ \A r : Stops(c, r) => q.pc = "idle" /\ q.cmd = "none" /\ forge' = forge
  BY IdleIs DEF Walks, Comes, Stops
<1>2. CASE EksCluster(c) \/ Phase09(c) \/ Verify(c) \/ GiveUp(c) \/ WritePending(c) \/ Later(c)
  <2>1. forge' = forge /\ q.cmd \in {p.cmd, "none"} /\ q.pc \in {"phase09", "mcpProject", "later", "idle"}
    BY <1>0, <1>1, <1>2, UpDoes DEF Keyed
  <2> QED BY <2>1, LocalGentle DEF Fallbacks
<1>3. CASE WriteLink(c)
  <2>1. forge' = forge /\ q.cmd \in {p.cmd, "none"} /\ q.pc \in {"later", "idle"}
    BY <1>0, <1>1, <1>3, LinkDoes DEF Keyed
  <2> QED BY <2>1, LocalGentle DEF Fallbacks
<1>4. CASE JumphostDown(c) \/ Cleaned(c)
  <2>1. forge' = forge /\ q.cmd \in {p.cmd, "none"} /\ q.pc \in {"targets", "phase09Down", "idle"}
    BY <1>0, <1>1, <1>4, RecordsDo
  <2> QED BY <2>1, LocalGentle DEF Fallbacks
<1>5. CASE Phase09Down(c)
  <2>1. forge' = forge /\ q.cmd = p.cmd /\ q.pc \in {"eksDown", "mcpDelete", "byName"}
    BY <1>0, <1>1, <1>5, ByNameDoes
  <2> QED BY <2>1, LocalGentle DEF Fallbacks
<1>6. CASE RemoveLink(c) \/ Forget(c) \/ EksDown(c)
  <2>1. forge' = forge /\ q.cmd \in {p.cmd, "none"} /\ q.pc \in {"forget", "eksDown", "idle"}
    BY <1>0, <1>1, <1>6, DeletesDo DEF Made
  <2> QED BY <2>1, LocalGentle DEF Fallbacks
<1> QED BY <1>2, <1>3, <1>4, <1>5, <1>6

\* the start of a command and its being cut off.
LEMMA StartGentle ==
  ASSUME Base, Calm, NEW c \in Clusters, Start(c) \/ Kill(c)
  PROVE  Gentle(c)
<1> DEFINE q == proc'[c]
<1>0. Shapes
  BY DEF Base
<1>1. /\ \A n, x, key : Begins(c, n, x, key) => q.pc = x /\ q.cmd = n /\ forge' = forge
  BY DEF Begins
<1>2. CASE Kill(c)
  <2>1. q = Idle /\ forge' = forge
    BY <1>0, <1>2 DEF Kill, Shapes
  <2> QED BY <2>1, IdleIs, LocalGentle DEF Fallbacks
<1>3. ASSUME Start(c)
      PROVE  /\ forge' = forge /\ q.pc \in {"eks", "verify", "targets", "agent", "jumphost", "mcpDelete"}
             /\ q.cmd # "purge" \/ ~shared
  <2>1. CASE StartUp(c) \/ StartRegister(c) \/ StartCleanup(c) \/ StartBenchmark(c)
    BY <1>0, <1>1, <2>1, StartDoes
  <2>2. ASSUME NEW b \in BOOLEAN, StartDown(c, b)
        PROVE  forge' = forge /\ q.pc = "jumphost" /\ q.cmd # "purge"
    BY <1>0, <1>1, <2>2, StartDoes
  <2>3. ASSUME NEW b \in BOOLEAN, StartUnregister(c, b)
        PROVE  forge' = forge /\ q.pc = "mcpDelete" /\ (q.cmd # "purge" \/ ~shared)
    BY <1>0, <1>1, <2>3, StartDoes
  <2> QED BY <1>3, <2>1, <2>2, <2>3 DEF Start
<1> QED BY <1>2, <1>3, LocalGentle DEF Fallbacks

\* Without a fault, a call is answered.
LEMMA CalmAnswers ==
  ASSUME Base, Calm, NEW c \in Clusters, Quiet(c), faults' = 0, catalogue = "full"
  PROVE  /\ \A new : ~Lost(c, new)
         /\ proc[c].pc \notin Fallbacks
         /\ proc[c].pc \in {"mcpCluster", "restCluster"} => Exists(proc[c].proj)
<1>1. faults = 0
  BY DEF Base, Shapes, Quiet
<1> QED BY <1>1 DEF Calm, Lost, Quiet

\* A call of a command that is under way.
LEMMA CallGentle ==
  ASSUME Base, Calm, NEW c \in Clusters, Quiet(c), proc'[c].cmd = proc[c].cmd, proc'[c].pc # "mcpDeleteProject",
         faults' = 0 /\ catalogue = "full" =>
           /\ proc'[c].pc \notin Fallbacks
           /\ proc'[c].pc \in {"mcpCluster", "restCluster"} => \E x \in forge'.projects : x.id = proc'[c].proj
           /\ Spares(c)
  PROVE  Gentle(c)
BY DEF Gentle, Calm

\* Those of a registration are gentle,
LEMMA RegisterGentle ==
  ASSUME Base, Calm, NEW c \in Clusters,
         \/ McpCreateProject(c) \/ McpFindProject(c) \/ RestCreateProject(c)
         \/ McpCreateCluster(c) \/ Rollback(c) \/ RestCreateCluster(c)
  PROVE  Gentle(c)
<1> DEFINE p == proc[c]
           q == proc'[c]
           n == ProjectName(c)
           j == proc[c].proj
           kube == ws[c].kube
           Calmly == faults' = 0 /\ catalogue = "full"
<1>0. /\ Shapes /\ n \in Clusters \cup {"shared"} /\ \A x \in ProjectsNamed(n) : x \in forge.projects
  BY ProjectNames DEF Base
<1>1. ASSUME forge' = WithProject(n)
      PROVE  \E x \in forge'.projects : x.id = forge.next
  <2> DEFINE x == [id |-> forge.next, name |-> n]
  <2>1. x \in forge'.projects /\ x.id = forge.next
    BY <1>0, <1>1, WithProjectIs
  <2> HIDE DEF x
  <2> QED BY <2>1
<1>2. \A r : /\ RestsOr(r, p) => r.cmd = p.cmd /\ r.pc \in {"restProject", "giveUp"}
             /\ Retries(r, p) => r.cmd = p.cmd /\ r.pc \in {"mcpProject", "pending", "giveUp"}
  BY DEF RestsOr, Comes, Retries
<1> HIDE DEF p, q, n, j, kube
<1>3. ASSUME McpCreateProject(c) \/ McpFindProject(c) \/ RestCreateProject(c)
      PROVE  /\ Quiet(c) /\ q.cmd = p.cmd /\ q.pc \notin Fallbacks \cup {"mcpDeleteProject"}
             /\ Calmly => /\ q.pc \in {"mcpCluster", "restCluster"} => \E x \in forge'.projects : x.id = q.proj
                          /\ forge' = forge \/ forge' = WithProject(n)
  <2>1. /\ Quiet(c)
        /\ \/ Answered(c, forge) /\ RestsOr(q, p)
           \/ Answered(c, forge) /\ Comes(q, p, "mcpFind")
           \/ Lost(c, forge) /\ (Retries(q, p) \/ RestsOr(q, p))
           \/ Answered(c, WithProject(n)) /\ \E x \in {"mcpCluster", "restCluster"} : Uses(q, p, x, forge.next)
           \/ Lost(c, WithProject(n)) /\ Retries(q, p)
           \/ Answered(c, forge) /\ \E y \in ProjectsNamed(n), x \in {"mcpCluster", "restCluster"} : Uses(q, p, x, y.id)
    BY <1>0, <1>3, ProjectDoes DEF p, q, n
  <2>2. q.cmd = p.cmd /\ q.pc \notin Fallbacks \cup {"mcpDeleteProject"}
    BY <1>2, <2>1 DEF Comes, Uses, Fallbacks
  <2>3. CASE Answered(c, WithProject(n)) /\ \E x \in {"mcpCluster", "restCluster"} : Uses(q, p, x, forge.next)
    BY <1>1, <2>1, <2>2, <2>3 DEF Answered, Uses
  <2>4. CASE Answered(c, forge) /\ \E y \in ProjectsNamed(n), x \in {"mcpCluster", "restCluster"} : Uses(q, p, x, y.id)
    BY <1>0, <2>1, <2>2, <2>4 DEF Answered, Uses
  <2>5. CASE Lost(c, forge) \/ Lost(c, WithProject(n))
    BY <2>1, <2>2, <2>5, CalmAnswers
  <2>6. CASE Answered(c, forge) /\ (RestsOr(q, p) \/ Comes(q, p, "mcpFind"))
    BY <1>2, <2>1, <2>2, <2>6 DEF Answered, Comes
  <2> QED BY <2>1, <2>3, <2>4, <2>5, <2>6
<1>4. ASSUME McpCreateCluster(c) \/ Rollback(c) \/ RestCreateCluster(c)
      PROVE  /\ Quiet(c) /\ q.cmd = p.cmd /\ q.pc \notin {"mcpCluster", "restCluster", "mcpDeleteProject"}
             /\ Calmly => /\ q.pc \notin Fallbacks
                          /\ \/ forge' = forge
                             \/ Exists(j) /\ forge' = WithCluster(c, j, kube)
                             \/ \E k \in ClustersNamed(c, j) : forge' = WithKubeconfig(k.id, kube)
  <2>1. CASE Rollback(c)
    <3>1. p.pc = "rollback" /\ Quiet(c) /\ Retries(q, p)
      BY <1>0, <2>1, ClusterDoes DEF p, q
    <3>2. ~Calmly
      BY <3>1, CalmAnswers DEF p, Fallbacks
    <3> QED BY <1>2, <3>1, <3>2
  <2>2. CASE McpCreateCluster(c) \/ RestCreateCluster(c)
    <3>1. /\ p.pc \in {"mcpCluster", "restCluster"} /\ Quiet(c)
          /\ \/ Answered(c, forge) /\ RestsOr(q, p)
             \/ Answered(c, forge) /\ ~Exists(j) /\ Comes(q, p, "rollback")
             \/ Lost(c, forge) /\ Comes(q, p, "rollback")
             \/ Exists(j) /\ Answered(c, WithCluster(c, j, kube)) /\ Made(q, p, "writeLink", forge.next)
             \/ Exists(j) /\ Lost(c, WithCluster(c, j, kube)) /\ Comes(q, p, "rollback")
             \/ \E k \in ClustersNamed(c, j) :
                  \/ Answered(c, WithKubeconfig(k.id, kube)) /\ Made(q, p, "writeLink", k.id)
                  \/ Lost(c, WithKubeconfig(k.id, kube)) /\ Comes(q, p, "rollback")
      BY <1>0, <2>2, ClusterDoes DEF p, q, j, kube
    <3>2. q.cmd = p.cmd /\ q.pc \notin {"mcpCluster", "restCluster", "mcpDeleteProject"}
      BY <1>2, <3>1 DEF Comes, Made
    <3>3. Calmly => Exists(j) /\ \A new : ~Lost(c, new)
      BY <3>1, CalmAnswers DEF p, j
    <3>4. Calmly => \/ Answered(c, forge) /\ RestsOr(q, p)
                    \/ Exists(j) /\ Answered(c, WithCluster(c, j, kube)) /\ q.pc = "writeLink"
                    \/ \E k \in ClustersNamed(c, j) : Answered(c, WithKubeconfig(k.id, kube)) /\ q.pc = "writeLink"
      BY <3>1, <3>3 DEF Made
    <3> QED BY <1>2, <3>1, <3>2, <3>4 DEF Answered, Fallbacks
  <2> QED BY <1>4, <2>1, <2>2
<1>5. CASE McpCreateProject(c) \/ McpFindProject(c) \/ RestCreateProject(c)
  BY <1>3, <1>5, SparesGrowth, CallGentle DEF p, q, n
<1>6. CASE McpCreateCluster(c) \/ Rollback(c) \/ RestCreateCluster(c)
  <2>1. Calmly => Spares(c)
    BY <1>4, <1>6, SparesGrowth DEF j, kube
  <2> QED BY <1>4, <1>6, <2>1, CallGentle DEF p, q
<1> QED BY <1>5, <1>6

\* those about targets and agents,
LEMMA RecordGentle ==
  ASSUME Base, Calm, NEW c \in Clusters,
         DeleteTargets(c) \/ DeleteAgents(c) \/ RegisterAgent(c) \/ RegisterTarget(c)
  PROVE  Gentle(c)
<1> DEFINE p == proc[c]
           q == proc'[c]
<1>0. /\ Shapes /\ forge.targets \subseteq TargetT /\ forge.agents \subseteq Clusters \X Nat /\ Mine(c, p.key)
  BY Keeps DEF Base, Shapes, ForgeT
<1>1. ASSUME Quiet(c), Spares(c), NEW x \in {"agents", "cleaned", "phase09Down", "target"}, Comes(q, p, x)
      PROVE  Gentle(c)
  <2>1. q.pc = x /\ q.cmd = p.cmd
    BY <1>1 DEF Comes
  <2> QED BY <1>1, <2>1, CallGentle DEF Fallbacks
<1>2. CASE DeleteTargets(c)
  <2> DEFINE T == forge.targets \ TargetsOf(p.key)
  <2>1. /\ p.pc = "targets" /\ Quiet(c) /\ Comes(q, p, "agents")
        /\ forge' \in {forge, [forge EXCEPT !.targets = T]}
    BY <1>0, <1>2, RecordsDo
  <2>2. q # p
    BY <2>1 DEF Comes
  <2>3. CASE forge' = [forge EXCEPT !.targets = T]
    <3>1. /\ T \in SUBSET TargetT
          /\ \A t \in forge.targets : t \in T \/ t.cluster = p.key
      BY <1>0 DEF TargetsOf
    <3> HIDE DEF T
    <3>2. forge'.targets = T /\ forge'.projects = forge.projects /\ forge'.clusters = forge.clusters
      BY <1>0, <2>3, <3>1, TargetsIs
    <3>3. \A t \in forge.targets : t.cluster = 0 \/ \E k \in forge.clusters : k.id = t.cluster
      BY DEF Base, Consistent
    <3>4. Spares(c)
      BY <1>0, <2>2, <3>1, <3>2, <3>3 DEF Spares, Mine
    <3> QED BY <1>1, <2>1, <3>4
  <2>4. CASE forge' = forge
    BY <1>1, <2>1, <2>4, SparesGrowth
  <2> QED BY <2>1, <2>3, <2>4
<1>3. CASE DeleteAgents(c)
  <2> DEFINE A == forge.agents \ AgentsOf(c)
             x == IF p.cmd = "cleanup" THEN "cleaned" ELSE "phase09Down"
  <2>1. Quiet(c) /\ Comes(q, p, x) /\ forge' \in {forge, [forge EXCEPT !.agents = A]}
    BY <1>0, <1>3, RecordsDo
  <2>2. A \in SUBSET (Clusters \X Nat) /\ x \in {"cleaned", "phase09Down"}
    BY <1>0
  <2> HIDE DEF A, x
  <2>3. Spares(c)
    BY <2>1, <2>2, SparesGrowth
  <2> QED BY <1>1, <2>1, <2>2, <2>3
<1>4. CASE RegisterAgent(c)
  <2> DEFINE A == forge.agents \cup {<<c, ws[c].jh>>}
  <2>1. Quiet(c) /\ Comes(q, p, "target") /\ forge' \in {forge, [forge EXCEPT !.agents = A]}
    BY <1>0, <1>4, RecordsDo
  <2>2. A \in SUBSET (Clusters \X Nat)
    <3>1. ws[c].jh \in Nat
      BY <1>0, ForgeCmdsAssumption DEF Shapes, Workspaces
    <3> QED BY <1>0, <3>1
  <2> HIDE DEF A
  <2>3. Spares(c)
    BY <2>1, <2>2, SparesGrowth
  <2> QED BY <1>1, <2>1, <2>3
<1>5. CASE RegisterTarget(c)
  <2> DEFINE T == forge.targets \cup {NewTarget(c)}
  <2>1. Quiet(c) /\ Comes(q, p, "cleaned") /\ forge' \in {forge, [forge EXCEPT !.targets = T]}
    BY <1>0, <1>5, RecordsDo
  <2>2. T \in SUBSET TargetT /\ forge.targets \subseteq T
    <3>1. NewTarget(c) \in TargetT
      BY <1>0 DEF NewTarget, TargetT, Shapes, Workspaces, Links
    <3> QED BY <1>0, <3>1
  <2> HIDE DEF T
  <2>3. Spares(c)
    BY <2>1, <2>2, SparesGrowth
  <2> QED BY <1>1, <2>1, <2>3
<1> QED BY <1>2, <1>3, <1>4, <1>5

\* and the deletions,
LEMMA DeleteGentle ==
  ASSUME Base, Calm, NEW c \in Clusters,
         \/ ByNameProject(c) \/ ByNameCluster(c) \/ ByNameDelete(c) \/ McpDeleteCluster(c) \/ McpDeleteProject(c)
         \/ RestDeleteCluster(c) \/ RestDeleteProject(c)
  PROVE  Gentle(c)
<1> DEFINE p == proc[c]
           q == proc'[c]
           Calmly == faults' = 0 /\ catalogue = "full"
<1>0. /\ Shapes /\ Owned(c) /\ Solo(c) /\ Consistent(forge) /\ Mine(c, ws[c].link.clus)
  BY Keeps DEF Base
<1>1. ASSUME Quiet(c), q.cmd = p.cmd, q.pc \notin {"mcpDeleteProject", "mcpCluster", "restCluster"},
             Calmly => q.pc \notin Fallbacks /\ Spares(c)
      PROVE  Gentle(c)
  BY <1>1, CallGentle
<1>2. CASE ByNameProject(c)
  <2>1. Quiet(c) /\ forge' = forge /\ q.cmd = p.cmd /\ q.pc \in {"forget", "byNameCluster", "eksDown"}
    BY <1>0, <1>2, ByNameDoes DEF Answered, Lost, Comes, Uses
  <2> QED BY <1>1, <2>1, SparesGrowth DEF Fallbacks
<1>3. CASE ByNameCluster(c)
  <2>1. /\ p.pc = "byNameCluster" /\ Quiet(c) /\ q.cmd = p.cmd /\ q.pc \in {"byNameDelete", "eksDown"}
        /\ Answered(c, WithoutClusters(ThisCluster(c))) \/ Lost(c, WithoutClusters(ThisCluster(c)))
    BY <1>0, <1>3, ByNameDoes DEF Comes
  <2>2. ASSUME Calmly PROVE Spares(c)
    <3>1. forge' = WithoutClusters(ThisCluster(c)) /\ q # p
      BY <2>1, <2>2, CalmAnswers DEF Answered
    <3>2. \A k \in forge.clusters : k.id \in ThisCluster(c) => k.name = c
      BY <1>0 DEF ThisCluster, ClustersNamed, Consistent
    <3> QED BY <3>1, <3>2, SparesClusters
  <2> QED BY <1>1, <2>1, <2>2 DEF Fallbacks
<1>4. CASE ByNameDelete(c)
  <2>1. /\ p.pc = "byNameDelete" /\ Quiet(c) /\ q.cmd = p.cmd /\ q.pc \in {"forget", "eksDown"}
        /\ Answered(c, WithoutProject(p.proj)) \/ Lost(c, WithoutProject(p.proj))
    BY <1>0, <1>4, ByNameDoes DEF Comes
  <2>2. ASSUME Calmly PROVE Spares(c)
    <3>1. forge' = WithoutProject(p.proj) /\ q # p
      BY <2>1, <2>2, CalmAnswers DEF Answered
    <3>2. shared \/ c = Only(Clusters)
      BY <1>0, <2>1 DEF Solo
    <3> QED BY <1>0, <2>1, <3>1, <3>2, SparesProject DEF Owned
  <2> QED BY <1>1, <2>1, <2>2 DEF Fallbacks
<1>5. CASE McpDeleteCluster(c)
  <2> DEFINE x == IF Purges(c) THEN "mcpDeleteProject" ELSE "removeLink"
  <2>1. /\ p.pc = "mcpDelete" /\ Quiet(c)
        /\ \/ Answered(c, WithoutClusters({ws[c].link.clus})) /\ Comes(q, p, x)
           \/ Lost(c, WithoutClusters({ws[c].link.clus})) /\ Falls(q, p)
           \/ catalogue # "full" /\ forge' = forge /\ Falls(q, p)
    BY <1>0, <1>5, DeletesDo
  <2>2. q.cmd = p.cmd /\ (q.pc = x \/ q.pc \in {"restDelete", "giveUp"}) /\ q.pc # "mcpDelete"
    BY <2>1 DEF Comes, Falls
  <2>3. q.cmd = "purge" \/ q.pc = "mcpDeleteProject" => ~shared
    BY <2>2 DEF Calm, Purges
  <2>4. ASSUME Calmly PROVE q.pc = x /\ Spares(c)
    <3>1. forge' = WithoutClusters({ws[c].link.clus}) /\ q # p /\ Comes(q, p, x)
      BY <2>1, <2>2, <2>4, CalmAnswers DEF Answered
    <3>2. \A k \in forge.clusters : k.id \in {ws[c].link.clus} => k.name = c
      BY <1>0 DEF Mine
    <3> QED BY <3>1, <3>2, SparesClusters DEF Comes
  <2> QED BY <2>2, <2>3, <2>4 DEF Gentle, Fallbacks
<1>6. CASE McpDeleteProject(c)
  <2>1. /\ p.pc = "mcpDeleteProject" /\ Quiet(c)
        /\ \/ Answered(c, WithoutProject(ws[c].link.proj)) /\ Comes(q, p, "removeLink")
           \/ Lost(c, WithoutProject(ws[c].link.proj)) /\ Falls(q, p)
           \/ catalogue # "full" /\ forge' = forge /\ Falls(q, p)
    BY <1>0, <1>6, DeletesDo
  <2>2. q.cmd = p.cmd /\ q.pc \in {"removeLink", "restDelete", "giveUp"} /\ ~shared
    BY <2>1 DEF Comes, Falls, Calm
  <2>3. ASSUME Calmly PROVE q.pc = "removeLink" /\ Spares(c)
    <3>1. forge' = WithoutProject(ws[c].link.proj) /\ q # p /\ q.pc = "removeLink"
      BY <2>1, <2>3, CalmAnswers DEF Answered, Comes
    <3>2. shared \/ c = Only(Clusters)
      BY <1>0, <2>1 DEF Solo
    <3> QED BY <2>2, <3>1, <3>2, SparesProject
  <2> QED BY <1>1, <2>1, <2>2, <2>3 DEF Fallbacks
<1>7. CASE RestDeleteCluster(c) \/ RestDeleteProject(c)
  <2>1. /\ p.pc \in Fallbacks /\ Quiet(c) /\ q.cmd = p.cmd
        /\ q.pc \in {"restDeleteProject", "eksDown", "forget"}
    BY <1>0, <1>7, DeletesDo DEF Comes, Fallbacks
  <2>2. ~Calmly
    BY <2>1, CalmAnswers
  <2> QED BY <1>1, <2>1, <2>2
<1> QED BY <1>2, <1>3, <1>4, <1>5, <1>6, <1>7

\* and so every step of a command.
LEMMA AllGentle ==
  ASSUME Base, Calm, NEW c \in Clusters, Start(c) \/ Step(c) \/ Kill(c)
  PROVE  Gentle(c) /\ Turn(c)
<1>1. Turn(c)
  BY StartTurns, StepTurns, KillTurns
<1>2. CASE Start(c) \/ Kill(c)
  BY <1>2, StartGentle, <1>1
<1>3. CASE Step(c)
  BY <1>1, <1>3, LocalStepGentle, RegisterGentle, RecordGentle, DeleteGentle DEF Step
<1> QED BY <1>2, <1>3

\* Every step of the system keeps Calm.
LEMMA CalmKept ==
  ASSUME Base, Calm, [Next]_vars
  PROVE  Calm'
<1>1. ASSUME NEW c \in Clusters, Start(c) \/ Step(c) \/ Kill(c)
      PROVE  Calm'
  <2>1. Gentle(c) /\ Turn(c)
    BY <1>1, AllGentle
  <2>2. /\ UNCHANGED <<net, catalogue, shared>> /\ \A d \in Clusters : d # c => proc'[d] = proc[d]
        /\ faults' = 0 => faults = 0
    BY <2>1 DEF Turn, Others, Base, Shapes
  <2>3. ASSUME NEW d \in Clusters, faults' = 0, catalogue = "full"
        PROVE  /\ proc'[d].pc \notin Fallbacks
               /\ proc'[d].pc \in {"mcpCluster", "restCluster"} => \E x \in forge'.projects : x.id = proc'[d].proj
    <3>1. CASE d = c
      BY <2>1, <2>3, <3>1 DEF Gentle
    <3>2. CASE d # c
      <4>1. /\ proc'[d] = proc[d] /\ proc[d].pc \notin Fallbacks
            /\ proc[d].pc \in {"mcpCluster", "restCluster"} => Exists(proc[d].proj)
        BY <2>2, <2>3, <3>2 DEF Calm
      <4>2. \A x \in forge.projects : x.id = proc[d].proj => x.name \in {d, "shared"}
        BY DEF Base, Owned, MyProject
      <4>3. proc[d].pc # "idle" => shared
        BY <2>1, <3>2 DEF Base, Solo, Turn
      <4>4. \A x \in forge.projects : x \in forge'.projects \/ x.name = c \/ ~shared
        BY <2>1, <2>2, <2>3 DEF Gentle, Spares
      <4> QED BY <3>2, <4>1, <4>2, <4>3, <4>4, ForgeAssumption DEF Exists
    <3> QED BY <3>1, <3>2
  <2>4. \A d \in Clusters : proc'[d].cmd = "purge" \/ proc'[d].pc = "mcpDeleteProject" => ~shared'
    BY <2>1, <2>2 DEF Gentle, Calm
  <2>5. faults' = 0 /\ catalogue' = "full" => net' = "up"
    BY <2>2 DEF Calm
  <2> QED BY <2>2, <2>3, <2>4, <2>5 DEF Calm, Exists
<1>2. CASE Server
  <2>1. /\ UNCHANGED <<forge, catalogue, shared, proc>>
        /\ faults' = 0 => faults = 0 /\ net' = "up"
    BY <1>2 DEF Server, Outage, Recovers, Fault, NoFault, Base, Shapes
  <2> QED BY <2>1 DEF Calm, Exists
<1>3. CASE UNCHANGED vars
  BY <1>3 DEF Calm, Exists, vars, serverVars
<1> QED BY <1>1, <1>2, <1>3 DEF Next, Done

\* Calm holds at the start.
LEMMA CalmStarts ==
  ASSUME Init
  PROVE  Calm
BY IdleIs DEF Init, ServerInit, Calm, Fallbacks

-----------------------------------------------------------------------------
(* The inductive invariant, and what follows from it.                       *)

IInv == Base /\ Ours /\ Calm

\* Every reachable state of the registration satisfies the invariant.
THEOREM ForgeInvariant == Spec => []IInv
<1>1. Init => IInv
  BY BaseStarts, OursStarts, CalmStarts DEF IInv
<1>2. IInv /\ [Next]_vars => IInv'
  BY BaseKept, OursKept, CalmKept DEF IInv
<1> QED BY <1>1, <1>2, PTL DEF Spec

\* TypeOK: the records of the server, the links and the commands are well formed; a cluster is in a
\* project that exists, and a target refers to a cluster that exists.
THEOREM ForgeTypes == Spec => []TypeOK
<1>1. IInv => TypeOK
  BY BaseTypes DEF IInv
<1> QED BY <1>1, ForgeInvariant, PTL

\* UpRegisters: where a workspace has a project of its own, an `up` that says so leaves it
\* registered, under the id it keeps and with the kubeconfig of its present cluster, and one that
\* was late at least unless it says so, for as long as nothing gives the link up.
THEOREM SuccessfulUpRegisters == Spec => []UpRegisters
<1>1. ASSUME IInv PROVE UpRegisters
  <2>1. ASSUME ~shared, NEW c \in Clusters, told[c] \in {"up", "late"}, ws[c].trusted
        PROVE  \/ IsRegistered(ws[c].link) /\ \E k \in forge.clusters : k.id = ws[c].link.clus /\ k.kube = ws[c].kube
               \/ ~IsRegistered(ws[c].link) /\ told[c] = "late"
    <3>1. Solo(c) /\ ws[c].trusted \in BOOLEAN
      BY <1>1 DEF IInv, Base, Shapes, Workspaces
    <3>2. c = Only(Clusters)
      BY <2>1, <3>1 DEF Solo
    <3>3. Own(c) /\ ws[c].trusted = TRUE
      BY <1>1, <2>1, <3>1, <3>2 DEF IInv, Ours
    <3> QED BY <2>1, <3>3 DEF Own, Kept, Said, Reg, Linked
  <2> QED BY <2>1 DEF UpRegisters
<1> QED BY <1>1, ForgeInvariant, PTL

\* DownForgets: where a workspace has a project of its own, a `down` that says so leaves neither the
\* project nor a cluster of its name on the server.
THEOREM SuccessfulDownForgets == Spec => []DownForgets
<1>1. ASSUME IInv PROVE DownForgets
  <2>1. ASSUME ~shared, NEW c \in Clusters, told[c] = "down"
        PROVE  ProjectsNamed(c) = {} /\ \A k \in forge.clusters : k.name # c
    <3>1. Solo(c) /\ Consistent(forge)
      BY <1>1 DEF IInv, Base
    <3>2. c = Only(Clusters)
      BY <2>1, <3>1 DEF Solo
    <3>3. forge.projects = {}
      BY <1>1, <2>1, <3>2 DEF IInv, Ours, Own, Said
    <3> QED BY <3>1, <3>3 DEF ProjectsNamed, Consistent
  <2> QED BY <2>1 DEF DownForgets
<1> QED BY <1>1, ForgeInvariant, PTL

\* OthersKept: while no fault has happened and the catalogue is full, a step of one workspace removes
\* no cluster of another from the server, and no target of the other's cluster, whether they share a
\* project or not.
THEOREM OthersAreKept == Spec => OthersKept
<1> DEFINE Spared ==
             faults' = 0 /\ catalogue = "full" =>
               \A c \in Clusters : proc'[c] = proc[c] =>
                 /\ \A k \in forge.clusters : k.name = c => \E x \in forge'.clusters : x.id = k.id
                 /\ \A t \in forge.targets : t.cluster # 0 /\ t.cluster = ws[c].link.clus => t \in forge'.targets
<1>1. ASSUME IInv, [Next]_vars PROVE [Spared]_vars
  <2>1. ASSUME NEW c \in Clusters, Start(c) \/ Step(c) \/ Kill(c), faults' = 0, catalogue = "full",
               NEW d \in Clusters, proc'[d] = proc[d]
        PROVE  /\ \A k \in forge.clusters : k.name = d => \E x \in forge'.clusters : x.id = k.id
               /\ \A t \in forge.targets : t.cluster # 0 /\ t.cluster = ws[d].link.clus => t \in forge'.targets
    <3>1. Spares(c)
      BY <1>1, <2>1, AllGentle DEF IInv, Gentle
    <3>2. \A k \in forge.clusters : k.id = ws[d].link.clus => k.name = d
      BY <1>1 DEF IInv, Base, Owned, Mine
    <3> QED BY <2>1, <3>1, <3>2 DEF Spares
  <2>2. CASE Server \/ UNCHANGED vars
    BY <2>2 DEF Server, Outage, Recovers, vars, serverVars
  <2> QED BY <1>1, <2>1, <2>2 DEF Next, Done
<1> QED BY <1>1, ForgeInvariant, PTL DEF Spec, OthersKept
=============================================================================
