------------------------------- MODULE ForgeDown -------------------------------
(***************************************************************************)
(* The end of a registration: `down`, `forge unregister`, `forge cleanup`;  *)
(* and the records a benchmark makes, which they remove.                    *)
(***************************************************************************)
EXTENDS Forge

\* Phase 17b comes before phase 09b and clears JUMPHOST_INSTANCE_ID.
StartDown(c, keep) ==
  /\ Begin(c, IF keep THEN "downKept" ELSE "down", "jumphost")
  /\ ws' = [ws EXCEPT ![c].trusted = ws[c].link = NoLink]
JumphostDown(c) ==
  /\ At(c, "jumphost") /\ ws' = [ws EXCEPT ![c].jh = 0]
  /\ Goes(c, IF proc[c].key = 0 THEN To(c, "phase09Down") ELSE To(c, "targets"))

\* Mutant: the targets of every cluster.
TargetsOfBug(k) == forge.targets
TargetsOf(k) == {t \in forge.targets : t.cluster = k}

\* Phase 09b: an object where an array is expected is an error, and none is deleted.
DeleteTargets(c) ==
  /\ At(c, "targets")
  /\ Call(c, IF Wrapped THEN forge ELSE [forge EXCEPT !.targets = @ \ TargetsOf(proc[c].key)],
          To(c, "agents"), To(c, "agents"))
AgentsOf(c) ==
  IF proc[c].cmd = "cleanup" THEN forge.agents
  ELSE IF ws[c].jh = 0 THEN {} ELSE forge.agents \cap {<<c, ws[c].jh>>}
DeleteAgents(c) ==
  /\ At(c, "agents")
  /\ LET p == IF proc[c].cmd = "cleanup" THEN To(c, "cleaned") ELSE To(c, "phase09Down") IN
     Call(c, [forge EXCEPT !.agents = @ \ AgentsOf(c)], p, p)

StartCleanup(c) ==
  /\ IsRegistered(ws[c].link) /\ UNCHANGED ws
  /\ proc[c].pc = "idle" /\ cmds < MaxCmds /\ cmds' = cmds + 1 /\ UNCHANGED <<serverVars, shared>>
  /\ shared \/ c = Only(Clusters)
  /\ proc' = [proc EXCEPT ![c] = [Idle EXCEPT !.pc = "targets", !.cmd = "cleanup", !.key = ws[c].link.clus]]
  /\ told' = [told EXCEPT ![c] = "none"]
Cleaned(c) == At(c, "cleaned") /\ Stop(c, IF proc[c].fresh THEN "ok" ELSE "failed") /\ UNCHANGED ws

-----------------------------------------------------------------------------
\* Phase 09 down.  Without a registered link it looks for the workspace's own project.
Phase09Down(c) ==
  /\ At(c, "phase09Down") /\ UNCHANGED ws
  /\ Goes(c, To(c, IF proc[c].cmd = "downKept" THEN "eksDown"
                   ELSE IF IsRegistered(ws[c].link) THEN "mcpDelete" ELSE "byName"))

ByNameProject(c) ==
  /\ At(c, "byName")
  /\ LET old == ProjectsNamed(c) IN
     Call(c, forge, IF old = {} THEN To(c, "forget") ELSE [To(c, "byNameCluster") EXCEPT !.proj = Only(old).id],
          To(c, "eksDown"))
ByNameCluster(c) ==
  /\ At(c, "byNameCluster")
  /\ Call(c, WithoutClusters({k.id : k \in ClustersNamed(c, proc[c].proj)}), To(c, "byNameDelete"), To(c, "eksDown"))

\* Mutant: the project stays.
EmptiedBug(j) == forge
Emptied(j) == WithoutProject(j)
ByNameDelete(c) ==
  /\ At(c, "byNameDelete") /\ Call(c, Emptied(proc[c].proj), To(c, "forget"), To(c, "eksDown"))

\* `forge unregister [--purge]`.  Bound: nobody purges a shared project.
StartUnregister(c, purge) ==
  /\ ws[c].link # NoLink /\ (purge => ~shared)
  /\ Begin(c, IF purge THEN "purge" ELSE "unregister", "mcpDelete")
  /\ ws' = [ws EXCEPT ![c].trusted = FALSE]

\* Mutant: `down` purges the project also when cluster.yaml names a shared one.
PurgesBug(c) == proc[c].cmd \in {"purge", "down"}
Purges(c) == proc[c].cmd = "purge" \/ (proc[c].cmd = "down" /\ ~shared)

\* Unregister; what is gone already is no error.  Only `down` falls back to REST.
Fallback(c) == IF proc[c].cmd = "down" THEN To(c, "restDelete") ELSE To(c, "giveUp")
McpDeleteCluster(c) ==
  /\ At(c, "mcpDelete")
  /\ McpCall(c, WithoutClusters({ws[c].link.clus}),
             To(c, IF Purges(c) THEN "mcpDeleteProject" ELSE "removeLink"), Fallback(c))
McpDeleteProject(c) ==
  /\ At(c, "mcpDeleteProject")
  /\ McpCall(c, WithoutProject(ws[c].link.proj), To(c, "removeLink"), Fallback(c))
RemoveLink(c) ==
  /\ At(c, "removeLink")
  /\ ws' = [ws EXCEPT ![c].link = NoLink, ![c].trusted = TRUE]
  /\ IF proc[c].cmd = "down" THEN Goes(c, To(c, "forget")) ELSE Stop(c, "ok")

\* UnregisterREST deletes the project of the link, whoever made it.
RestDeleteCluster(c) ==
  /\ At(c, "restDelete")
  /\ Call(c, WithoutClusters({ws[c].link.clus}), To(c, "restDeleteProject"), To(c, "eksDown"))
RestDeleteProject(c) ==
  /\ At(c, "restDeleteProject")
  /\ Call(c, WithoutProject(ws[c].link.proj), To(c, "forget"), To(c, "eksDown"))

\* forgeDownDone; whatever happened, `down` goes on to delete the EKS cluster.
Forget(c) ==
  /\ At(c, "forget") /\ Goes(c, [To(c, "eksDown") EXCEPT !.clus = -1])
  /\ ws' = [ws EXCEPT ![c].link = NoLink, ![c].key = 0, ![c].trusted = TRUE]
EksDown(c) ==
  /\ At(c, "eksDown") /\ ws' = [ws EXCEPT ![c].kube = 0]
  /\ Stop(c, IF proc[c].clus = -1 THEN "down" ELSE "warned")

-----------------------------------------------------------------------------
\* What a benchmark registers: the agent of the jumphost, and a target.
StartBenchmark(c) == ws[c].jh # 0 /\ Begin(c, "benchmark", "agent") /\ UNCHANGED ws
RegisterAgent(c) ==
  /\ At(c, "agent")
  /\ Call(c, [forge EXCEPT !.agents = @ \cup {<<c, ws[c].jh>>}], To(c, "target"), To(c, "target"))

\* A name that another cluster has is qualified, where the list of targets can be read; a
\* target without a cluster is taken over as it is.
Taken(n, k) == \E t \in forge.targets : t.name = n /\ t.cluster \notin {0, k}
Named(n) == \E t \in forge.targets : t.name = n
RegisterTarget(c) ==
  /\ At(c, "target")
  /\ LET k == ws[c].link.clus
         n == IF Wrapped /\ Taken(Target, k) THEN c ELSE Target IN
     Call(c, IF k = 0 \/ Named(n) \/ (\A x \in forge.clusters : x.id # k) THEN forge
             ELSE [forge EXCEPT !.targets = @ \cup {[name |-> n, cluster |-> k]}],
          To(c, "cleaned"), To(c, "cleaned"))

\* The process dies.
Kill(c) == proc[c].pc # "idle" /\ Fault /\ proc' = [proc EXCEPT ![c] = Idle] /\ told' = [told EXCEPT ![c] = "killed"]
           /\ UNCHANGED <<forge, net, catalogue, shared, ws, cmds>>

Step(c) ==
  \/ EksCluster(c) \/ Phase09(c) \/ Verify(c) \/ GiveUp(c) \/ McpCreateProject(c) \/ McpFindProject(c)
  \/ McpCreateCluster(c) \/ Rollback(c) \/ RestCreateProject(c) \/ RestCreateCluster(c) \/ WriteLink(c)
  \/ WritePending(c) \/ Later(c) \/ JumphostDown(c) \/ DeleteTargets(c) \/ DeleteAgents(c) \/ Cleaned(c)
  \/ Phase09Down(c) \/ ByNameProject(c) \/ ByNameCluster(c) \/ ByNameDelete(c) \/ McpDeleteCluster(c)
  \/ McpDeleteProject(c) \/ RemoveLink(c) \/ RestDeleteCluster(c) \/ RestDeleteProject(c) \/ Forget(c)
  \/ EksDown(c) \/ RegisterAgent(c) \/ RegisterTarget(c)

Start(c) ==
  \/ StartUp(c) \/ StartRegister(c) \/ StartCleanup(c) \/ StartBenchmark(c)
  \/ \E b \in BOOLEAN : StartDown(c, b) \/ StartUnregister(c, b)

Server == (Outage \/ Recovers) /\ UNCHANGED <<shared, ws, proc, told, cmds>>
Done == cmds = MaxCmds /\ net = "up" /\ (\A c \in Clusters : proc[c].pc = "idle") /\ UNCHANGED vars

Next == Server \/ Done \/ \E c \in Clusters : Start(c) \/ Step(c) \/ Kill(c)
Spec == Init /\ [][Next]_vars
=============================================================================
