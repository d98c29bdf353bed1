--------------------------------- MODULE Forge ---------------------------------
(***************************************************************************)
(* Registration with Forge: phase 09 of `up`, phases 09b and 09 of `down`,  *)
(* `forge register`, `forge unregister`, `forge cleanup`, and the targets   *)
(* and agents a benchmark registers.  Each workspace runs one command at a  *)
(* time; two workspaces may share a project.                                *)
(***************************************************************************)
EXTENDS ForgeServer

CONSTANTS Wrapped,  \* the shape of GET /api/benchmarks/targets: an object, or an array
          MaxCmds   \* bound: commands

ASSUME ForgeCmdsAssumption == Wrapped \in BOOLEAN /\ MaxCmds \in Nat

VARIABLES
  shared,  \* cluster.yaml names one project for all workspaces
  ws,      \* of each workspace: forge_link.json, the keys in state.env, the EKS cluster, the jumphost
  proc,    \* of each workspace, the command in progress
  told,    \* of each workspace, what its last command reported
  cmds

vars == <<serverVars, shared, ws, proc, told, cmds>>
localVars == <<shared, cmds>>

NoLink == [status |-> "none", proj |-> 0, clus |-> 0]

\* key is FORGE_CLUSTER_ID; kube and jh tell one EKS cluster and one jumphost of a
\* workspace from the next; a link is trusted until a command that gives it up begins.
NoWs == [link |-> NoLink, key |-> 0, kube |-> 0, jh |-> 0, trusted |-> TRUE]

\* made: this try made the project; fresh: every call of the command was answered.
Idle == [pc |-> "idle", cmd |-> "none", key |-> 0, try |-> 1, proj |-> 0, clus |-> 0,
         made |-> FALSE, fresh |-> TRUE]

IsRegistered(l) == l.status = "registered"

TypeOK ==
  /\ ServerTypeOK /\ shared \in BOOLEAN /\ cmds \in 0 .. MaxCmds
  /\ \A c \in Clusters :
       LET l == ws[c].link IN
       /\ IF IsRegistered(l) THEN l.proj \in Ids /\ l.clus \in Ids
          ELSE l.status \in {"none", "pending"} /\ l.proj = 0 /\ l.clus = 0
       /\ ws[c].key \in {0} \cup Ids /\ ws[c].kube \in 0 .. MaxCmds /\ ws[c].jh \in {0, ws[c].kube}
       /\ (proc[c].pc = "idle") = (proc[c].cmd = "none") /\ proc[c].try \in 1 .. 4
       /\ told[c] \in {"none", "up", "late", "down", "warned", "ok", "failed", "killed"}

Init ==
  /\ ServerInit /\ shared \in BOOLEAN /\ cmds = 0
  /\ ws = [c \in Clusters |-> NoWs] /\ proc = [c \in Clusters |-> Idle]
  /\ told = [c \in Clusters |-> "none"]

-----------------------------------------------------------------------------
At(c, p) == proc[c].pc = p
To(c, p) == [proc[c] EXCEPT !.pc = p]
Local == UNCHANGED <<serverVars, shared, cmds>>
Goes(c, then) == proc' = [proc EXCEPT ![c] = then] /\ UNCHANGED told /\ Local
Stop(c, result) == proc' = [proc EXCEPT ![c] = Idle] /\ told' = [told EXCEPT ![c] = result] /\ Local

\* A call to Forge is carried out and answered, or carried out and the answer is lost,
\* or it does not get there.
Call(c, new, then, else) ==
  /\ UNCHANGED <<net, catalogue, ws, told, shared, cmds>>
  /\ \/ net = "up" /\ NoFault /\ forge' = new /\ proc' = [proc EXCEPT ![c] = then]
     \/ net = "up" /\ Fault /\ forge' \in {forge, new} /\ proc' = [proc EXCEPT ![c] = [else EXCEPT !.fresh = FALSE]]
     \/ net = "down" /\ NoFault /\ UNCHANGED forge /\ proc' = [proc EXCEPT ![c] = [else EXCEPT !.fresh = FALSE]]

\* A call the MCP server does not know is an error of the tool, not of the transport.
McpCall(c, new, then, else) ==
  IF catalogue = "full" THEN Call(c, new, then, else) ELSE Call(c, forge, else, else)

\* Bound: where each has a project of its own one workspace is enough.
Begin(c, name, p) ==
  /\ proc[c].pc = "idle" /\ cmds < MaxCmds /\ cmds' = cmds + 1
  /\ shared \/ c = Only(Clusters)
  /\ proc' = [proc EXCEPT ![c] = [Idle EXCEPT !.pc = p, !.cmd = name, !.key = ws[c].key]]
  /\ told' = [told EXCEPT ![c] = "none"] /\ UNCHANGED <<serverVars, shared>>

-----------------------------------------------------------------------------
\* up: the EKS cluster is made before phase 09.
StartUp(c) == Begin(c, "up", "eks") /\ UNCHANGED ws
EksCluster(c) ==
  /\ At(c, "eks") /\ Goes(c, To(c, "phase09"))
  /\ ws' = IF ws[c].kube # 0 THEN ws ELSE [ws EXCEPT ![c].kube = cmds, ![c].jh = cmds]

\* A registered link is taken as it is.
Phase09(c) ==
  /\ At(c, "phase09") /\ UNCHANGED ws
  /\ Goes(c, IF IsRegistered(ws[c].link) THEN [To(c, "later") EXCEPT !.key = ws[c].link.clus]
             ELSE To(c, "mcpProject"))

\* `forge register` verifies the cluster of a registered link, and tries once.
StartRegister(c) == ws[c].kube # 0 /\ Begin(c, "register", "verify") /\ UNCHANGED ws
Verify(c) ==
  /\ At(c, "verify") /\ UNCHANGED ws
  /\ IF ~IsRegistered(ws[c].link) THEN Goes(c, To(c, "mcpProject"))
     ELSE Stop(c, IF net = "up" /\ \E k \in forge.clusters : k.id = ws[c].link.clus THEN "ok" ELSE "failed")
GiveUp(c) == At(c, "giveUp") /\ Stop(c, "failed") /\ UNCHANGED ws

\* It takes the workspace's name for the project, whatever cluster.yaml says.
ProjectName(c) == IF shared /\ proc[c].cmd # "register" THEN "shared" ELSE c

\* The error of a try of phase 09: the next one, or a pending link after the fourth.
Retry(c) ==
  IF proc[c].cmd # "up" THEN To(c, "giveUp")
  ELSE IF proc[c].try = 4 THEN To(c, "pending")
  ELSE [To(c, "mcpProject") EXCEPT !.try = @ + 1]

\* A conflict, or a tool that the catalogue lacks, leads phase 09 to the REST API.
RestOr(c) == IF proc[c].cmd = "up" THEN To(c, "restProject") ELSE To(c, "giveUp")

UseProject(c, j, p, made) == [To(c, p) EXCEPT !.proj = j, !.made = made]

\* Register: a project that exists is looked up by its name and used.
McpCreateProject(c) ==
  /\ At(c, "mcpProject")
  /\ IF catalogue = "gap" THEN Call(c, forge, RestOr(c), Retry(c))
     ELSE IF ProjectsNamed(ProjectName(c)) # {} THEN Call(c, forge, To(c, "mcpFind"), Retry(c))
     ELSE Call(c, WithProject(ProjectName(c)), UseProject(c, forge.next, "mcpCluster", TRUE), Retry(c))
McpFindProject(c) ==
  /\ At(c, "mcpFind")
  /\ LET old == ProjectsNamed(ProjectName(c)) IN
     Call(c, forge, IF old = {} THEN RestOr(c) ELSE UseProject(c, Only(old).id, "mcpCluster", FALSE), RestOr(c))

Exists(j) == \E p \in forge.projects : p.id = j
McpCreateCluster(c) ==
  /\ At(c, "mcpCluster")
  /\ LET j == proc[c].proj IN
     IF ClustersNamed(c, j) # {} THEN Call(c, forge, RestOr(c), To(c, "rollback"))
     ELSE IF ~Exists(j) THEN Call(c, forge, To(c, "rollback"), To(c, "rollback"))
     ELSE Call(c, WithCluster(c, j, ws[c].kube), [To(c, "writeLink") EXCEPT !.clus = forge.next], To(c, "rollback"))

\* The project goes again if this try made it, with all that is in it; an error is dropped.
Rollback(c) ==
  /\ At(c, "rollback")
  /\ IF proc[c].made THEN Call(c, WithoutProject(proc[c].proj), Retry(c), Retry(c))
     ELSE Goes(c, Retry(c)) /\ UNCHANGED ws

\* RegisterREST: a cluster that is registered already gets the new kubeconfig.
RestCreateProject(c) ==
  /\ At(c, "restProject")
  /\ LET old == ProjectsNamed(ProjectName(c)) IN
     IF old # {} THEN Call(c, forge, UseProject(c, Only(old).id, "restCluster", FALSE), Retry(c))
     ELSE Call(c, WithProject(ProjectName(c)), UseProject(c, forge.next, "restCluster", TRUE), Retry(c))

\* Mutant: it keeps the old one.
RefreshedBug(k, kube) == forge
Refreshed(k, kube) == WithKubeconfig(k, kube)
RestCreateCluster(c) ==
  /\ At(c, "restCluster")
  /\ LET j == proc[c].proj
         old == ClustersNamed(c, j) IN
     IF old # {}
     THEN Call(c, Refreshed(Only(old).id, ws[c].kube), [To(c, "writeLink") EXCEPT !.clus = Only(old).id], To(c, "rollback"))
     ELSE IF ~Exists(j) THEN Call(c, forge, To(c, "rollback"), To(c, "rollback"))
     ELSE Call(c, WithCluster(c, j, ws[c].kube), [To(c, "writeLink") EXCEPT !.clus = forge.next], To(c, "rollback"))

\* The link is written, then phase 09 saves the ids.
WriteLink(c) ==
  /\ At(c, "writeLink")
  /\ ws' = [ws EXCEPT ![c].link = [status |-> "registered", proj |-> proc[c].proj, clus |-> proc[c].clus],
                      ![c].trusted = TRUE]
  /\ IF proc[c].cmd = "up" THEN Goes(c, [To(c, "later") EXCEPT !.key = proc[c].clus]) ELSE Stop(c, "ok")

Pending == [NoLink EXCEPT !.status = "pending"]
WritePending(c) ==
  /\ At(c, "pending") /\ Goes(c, To(c, "later"))
  /\ ws' = [ws EXCEPT ![c].link = Pending]

\* The phases after it save the state.
Later(c) ==
  /\ At(c, "later") /\ ws' = [ws EXCEPT ![c].key = proc[c].key]
  /\ Stop(c, IF proc[c].fresh THEN "up" ELSE "late")
=============================================================================
