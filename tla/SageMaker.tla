------------------------------- MODULE SageMaker -------------------------------
(***************************************************************************)
(* The SageMaker endpoint of a cluster: the phase of `up` that makes it,    *)
(* the phase of `down` that deletes it, and the cold redeploy by which a    *)
(* benchmark empties the cache of the model server.  Beside the commands of  *)
(* a shell, an agent runs what Forge dispatches, or a second shell runs     *)
(* commands.                                                                *)
(***************************************************************************)
EXTENDS Integers, FiniteSets, Sequences, TLC

CONSTANTS MaxCmds, MaxFaults   \* bounds: commands, faults beside a second shell (beside an agent, 1)

Shells == {"shell", "other"}

ASSUME SageMakerAssumption == MaxCmds \in Nat /\ MaxFaults \in Nat

VARIABLES
  sm,      \* the account: role, model and configuration, status of the endpoint,
           \* and the runs its container has served, whose prompts its cache holds
  proc,    \* of each shell, the command in progress
  told,    \* of each shell, what its last command reported
  other,   \* what runs beside the shell
  cmds, faults   \* commands begun, faults to come

smVars == <<sm, proc, told, other, cmds, faults>>

NoEndpoint == [role |-> FALSE, model |-> FALSE, conf |-> FALSE, ep |-> "none", served |-> {}]

\* alone: nothing else has touched the jumphost or the endpoint since the command began.
\* out: the endpoint was on its way out as it began.  refused: AWS refused to delete the
\* endpoint, which was being made, and the command took it for gone.
\* i, j, k: front-end, scenario key and child the benchmark is at; fe, ok: one of the
\* front-end's runs, one of the front-ends succeeded.
Idle == [pc |-> "idle", cmd |-> 0, alone |-> TRUE, out |-> FALSE, refused |-> FALSE, plan |-> 0, linked |-> FALSE,
         i |-> 1, j |-> 1, k |-> 1, before |-> {}, scraped |-> FALSE, result |-> <<0, "none", "none", 0>>, rate |-> {},
         fe |-> FALSE, ok |-> FALSE]

Fault == faults > 0 /\ faults' = faults - 1
NoFault == UNCHANGED faults
At(s, p) == proc[s].pc = p
To(s, p) == [proc[s] EXCEPT !.pc = p]
Goes(s, then) == proc' = [proc EXCEPT ![s] = then] /\ UNCHANGED <<told, cmds>>
Says(s, result) == IF proc[s].alone THEN result ELSE "late"
Stop(s, result) ==
  proc' = [proc EXCEPT ![s] = Idle] /\ told' = [told EXCEPT ![s] = result] /\ UNCHANGED cmds

\* A call to AWS is carried out, or it is an error (of which it may have been carried
\* out all the same), and the command ends with it.
Sm(s, new, then) ==
  \/ sm' = new /\ NoFault /\ Goes(s, then)
  \/ sm' \in {sm, new} /\ Fault /\ Stop(s, "failed")

\* busy: an aiperf of an earlier command goes on.
\* The commands of two shells disturb each other; a dispatched run disturbs benchmarks only.
Begin(s, p, plan, busy) ==
  /\ proc[s].pc = "idle" /\ cmds < MaxCmds /\ cmds' = cmds + 1
  /\ LET Disturbed(n) == n # 0 \/ other = "shell"
         free == /\ ~(plan # 0 /\ busy)
                 /\ \A x \in Shells : proc[x].pc # "idle" => ~Disturbed(plan)
     IN proc' = [x \in Shells |->
          IF x = s THEN [Idle EXCEPT !.pc = p, !.cmd = cmds + 1, !.plan = plan, !.alone = free,
                                 !.out = (sm.ep = "deleting")]
          ELSE IF proc[x].pc = "idle" THEN Idle ELSE [proc[x] EXCEPT !.alone = @ /\ ~Disturbed(proc[x].plan)]]
  /\ told' = [told EXCEPT ![s] = "none"] /\ UNCHANGED <<sm, faults>>

-----------------------------------------------------------------------------
\* PhaseSageMakerUp: each is looked for by its name and made if it is not there.
EnsureRole(s) == At(s, "role") /\ Sm(s, [sm EXCEPT !.role = TRUE], To(s, "model"))
EnsureModel(s) ==
  /\ At(s, "model")
  /\ IF sm.model \/ sm.role THEN Sm(s, [sm EXCEPT !.model = TRUE], To(s, "config"))
     ELSE UNCHANGED sm /\ NoFault /\ Stop(s, "failed")
EnsureConfig(s) ==
  /\ At(s, "config")
  /\ IF sm.conf \/ sm.model THEN Sm(s, [sm EXCEPT !.conf = TRUE], To(s, "endpoint"))
     ELSE UNCHANGED sm /\ NoFault /\ Stop(s, "failed")

\* Mutant: a failed endpoint is one that is there.
AcceptedBug == {"in", "creating", "deleting", "failed"}
\* An endpoint on its way out is accepted like one that serves.
Accepted == {"in", "creating", "deleting"}

EnsureEndpoint(s) ==
  /\ At(s, "endpoint") \/ At(s, "recovered")
  /\ UNCHANGED sm /\ NoFault
  /\ \/ sm.ep \in Accepted /\ Stop(s, Says(s, "up"))
     \/ sm.ep = "none" /\ Goes(s, To(s, "create"))
     \/ sm.ep = "failed" /\ sm.ep \notin Accepted
        /\ IF At(s, "recovered") THEN Stop(s, "failed") ELSE Goes(s, To(s, "recover"))

Deletable == {"in", "failed"}
\* One that failed is deleted, waited for and made again, once.
Recover(s) ==
  /\ At(s, "recover")
  /\ IF sm.ep \in Deletable THEN Sm(s, [sm EXCEPT !.ep = "deleting"], To(s, "recovering"))
     ELSE UNCHANGED sm /\ NoFault /\ Stop(s, "failed")
\* A wait for the end of an endpoint that another command has made anew is in vain.
TimesOut == IF sm.ep = "deleting" THEN Fault ELSE NoFault
Recovered(s) ==
  /\ At(s, "recovering") /\ UNCHANGED sm
  /\ \/ sm.ep = "none" /\ NoFault /\ Goes(s, To(s, "recovered"))
     \/ sm.ep # "none" /\ TimesOut /\ Stop(s, "failed")
Fresh == [sm EXCEPT !.ep = "creating", !.served = {}]
CreateEndpoint(s) ==
  /\ At(s, "create")
  /\ \/ sm.ep = "none" /\ sm.conf /\ sm' = Fresh /\ NoFault /\ Stop(s, Says(s, "up"))
     \/ sm.ep = "none" /\ sm.conf /\ sm' \in {sm, Fresh} /\ Fault /\ Stop(s, "failed")
     \/ ~(sm.ep = "none" /\ sm.conf) /\ UNCHANGED sm /\ NoFault /\ Stop(s, "failed")

-----------------------------------------------------------------------------
\* PhaseSageMakerDown.  A call that is refused because the endpoint is being made or
\* deleted is a ValidationException too, which counts as gone.
DeleteEndpoint(s) ==
  /\ At(s, "delete endpoint")
  /\ LET then == [To(s, "delete config") EXCEPT !.refused = (sm.ep = "creating")] IN
     Sm(s, [sm EXCEPT !.ep = IF @ \in Deletable THEN "deleting" ELSE @], then)
DeleteConfig(s) == At(s, "delete config") /\ Sm(s, [sm EXCEPT !.conf = FALSE], To(s, "delete model"))
DeleteModel(s) == At(s, "delete model") /\ Sm(s, [sm EXCEPT !.model = FALSE], To(s, "delete role"))
\* Mutant: the role is left.
WithoutRoleBug == sm
WithoutRole == [sm EXCEPT !.role = FALSE]
DeleteRole(s) ==
  /\ At(s, "delete role")
  /\ \/ sm' = WithoutRole /\ NoFault /\ Stop(s, Says(s, "down"))
     \/ UNCHANGED sm /\ Fault /\ Stop(s, "failed")

-----------------------------------------------------------------------------
\* RedeploySageMakerEndpointCold; an error of it is not the end of a benchmark.
ColdStep(s, new, then) ==
  \/ sm' = new /\ NoFault /\ Goes(s, then)
  \/ sm' \in {sm, new} /\ Fault /\ Goes(s, To(s, "reset failed"))
ColdDelete(s) ==
  /\ At(s, "reset")
  /\ IF sm.ep \in Deletable THEN ColdStep(s, [sm EXCEPT !.ep = "deleting"], To(s, "reset gone"))
     ELSE UNCHANGED sm /\ NoFault /\ Goes(s, To(s, "reset failed"))
ColdGone(s) ==
  /\ At(s, "reset gone") /\ UNCHANGED sm
  /\ \/ sm.ep = "none" /\ NoFault /\ Goes(s, To(s, "reset create"))
     \/ sm.ep # "none" /\ TimesOut /\ Goes(s, To(s, "reset failed"))
ColdCreate(s) ==
  /\ At(s, "reset create")
  /\ IF sm.ep = "none" /\ sm.conf
     THEN ColdStep(s, Fresh, To(s, "reset wait"))
     ELSE UNCHANGED sm /\ NoFault /\ Goes(s, To(s, "reset failed"))
ColdServes(s) ==
  /\ At(s, "reset wait") /\ UNCHANGED sm
  /\ \/ sm.ep = "in" /\ NoFault /\ Goes(s, To(s, "register"))
     \/ sm.ep \notin {"in", "creating"} /\ NoFault /\ Goes(s, To(s, "reset failed"))
     \/ sm.ep = "creating" /\ Fault /\ Goes(s, To(s, "reset failed"))

Phases(s) ==
  \/ EnsureRole(s) \/ EnsureModel(s) \/ EnsureConfig(s) \/ EnsureEndpoint(s) \/ Recover(s) \/ Recovered(s)
  \/ CreateEndpoint(s) \/ DeleteEndpoint(s) \/ DeleteConfig(s) \/ DeleteModel(s) \/ DeleteRole(s)
  \/ ColdDelete(s) \/ ColdGone(s) \/ ColdCreate(s) \/ ColdServes(s)

\* AWS: an endpoint comes up or fails, with an empty cache, and one that is deleted goes.
EndpointUp == sm.ep = "creating" /\ sm' = [sm EXCEPT !.ep = "in"] /\ NoFault
EndpointFails == sm.ep = "creating" /\ sm' = [sm EXCEPT !.ep = "failed"] /\ Fault
EndpointGone == sm.ep = "deleting" /\ sm' = [sm EXCEPT !.ep = "none", !.served = {}] /\ NoFault
=============================================================================
