--------------------------------- MODULE Bench ---------------------------------
(***************************************************************************)
(* Benchmarks: aiperf on the jumphost against the endpoint, over one or     *)
(* more front-ends, and the results pushed to Forge.  An aiperf whose shell *)
(* has given it up goes on.                                                 *)
(***************************************************************************)
EXTENDS SageMaker

VARIABLES
  running,  \* the aiperf processes on the jumphost, by their runs
  files,    \* the newest result in each artifact directory
  row       \* the result that Forge took last

boxVars == <<running, files>>
vars == <<smVars, boxVars, row>>

\* What a command may be asked to do: every way runForgeBenchmark branches, and a run
\* that Forge dispatches to the agent.
Plan(mode, fes, keys, reset) == [mode |-> mode, fes |-> fes, keys |-> keys, reset |-> reset]
Plans == <<
  Plan("shootout", <<"f5-bnk", "envoy">>, <<"chat", "trace">>, TRUE),
  Plan("native", <<"f5-bnk">>, <<"trace", "chat">>, TRUE),
  Plan("presets", <<"f5-bnk">>, <<"smoke", "chat">>, FALSE),
  Plan("synthetic", <<"f5-bnk">>, <<"single">>, FALSE),
  Plan("dispatch", <<"agent">>, <<"single">>, FALSE) >>

P(s) == Plans[proc[s].plan]
Key(s) == P(s).keys[proc[s].j]
Children(key) == IF key = "chat" THEN 2 ELSE 1      \* bound: children of a key

\* A run: its command, front-end, key and child.
Run(s) == <<proc[s].cmd, P(s).fes[proc[s].i], Key(s), proc[s].k>>
NoRun == <<0, "none", "none", 0>>

\* The directory is the same for all runs but those that Forge gave an id; the mooncake
\* trace has its own.
Dir(r) == IF r[3] = "trace" THEN <<"artifacts", 0>> ELSE IF r[2] = "agent" THEN <<"forge", r[1]>> ELSE <<"run", 0>>
Newest(d) == IF \E f \in files : f[1] = d THEN (CHOOSE f \in files : f[1] = d)[2] ELSE NoRun

\* Mutant: what an earlier run left stays.
CleanedBug(r) == files
\* rm -rf comes before aiperf, but for the trace.
Cleaned(r) == IF r[3] = "trace" THEN files ELSE {f \in files : f[1] # Dir(r)}

TypeOK ==
  /\ sm.ep \in {"none", "creating", "in", "deleting", "failed"} /\ (sm.ep = "creating" => sm.served = {})
  /\ \A s \in Shells :
       /\ (proc[s].pc = "idle") = (proc[s].cmd = 0)
       /\ proc[s].plan # 0 => proc[s].j \in 1 .. Len(P(s).keys) /\ proc[s].i \in 1 .. Len(P(s).fes) + 1
                              /\ proc[s].k \in 1 .. Children(Key(s))
       /\ told[s] \in {"none", "up", "down", "late", "ok", "failed", "killed"}
  /\ \A f, g \in files : f[1] = g[1] => f = g
  /\ \A r \in running : r[1] \in 1 .. MaxCmds

Init ==
  /\ sm = [NoEndpoint EXCEPT !.role = TRUE, !.model = TRUE, !.conf = TRUE, !.ep = "in"]
  /\ proc = [s \in Shells |-> Idle] /\ told = [s \in Shells |-> "none"] /\ cmds = 0
  /\ \/ other = "agent" /\ faults = 1
     \/ other = "shell" /\ faults = MaxFaults
  /\ running = {} /\ files = {} /\ row = [measure |-> NoRun, alone |-> FALSE]

-----------------------------------------------------------------------------
Shell(s) == s = "shell" \/ other = "shell"
StartUp(s) == Shell(s) /\ Begin(s, "role", 0, FALSE)
StartDown(s) == Shell(s) /\ Begin(s, "delete endpoint", 0, FALSE)
\* A second shell runs no benchmark: bound.
StartBenchmark(s) ==
  \E n \in 1 .. Len(Plans) :
    /\ IF Plans[n].mode = "dispatch" THEN s = "other" /\ other = "agent" ELSE s = "shell"
    /\ Begin(s, IF Plans[n].mode = "dispatch" THEN "scrape" ELSE "graph", n, running # {})

\* resolveForgeGraph: agent, target and proxies; an error leaves the results unlinked.
Graph(s) ==
  /\ At(s, "graph") /\ UNCHANGED sm
  /\ \/ NoFault /\ Goes(s, [To(s, "front-end") EXCEPT !.linked = TRUE])
     \/ Fault /\ Goes(s, To(s, "front-end"))

\* A front-end other than BNK is known only from the target's proxies.
Skip(p) == [p EXCEPT !.pc = "front-end", !.i = @ + 1, !.j = 1, !.k = 1, !.ok = @ \/ p.fe, !.fe = FALSE]
FrontEnd(s) ==
  /\ At(s, "front-end") /\ UNCHANGED sm /\ NoFault
  /\ IF proc[s].i > Len(P(s).fes) THEN Stop(s, IF proc[s].ok THEN "ok" ELSE "failed")
     ELSE IF P(s).fes[proc[s].i] # "f5-bnk" /\ ~proc[s].linked THEN Goes(s, Skip(proc[s]))
     ELSE Goes(s, To(s, "register"))

\* The configuration of the key; without one its results are not linked to it.
Register(s) == At(s, "register") /\ UNCHANGED sm /\ NoFault /\ Goes(s, To(s, "scrape"))

\* Mutant: not before the second key.
ResetDueBug(s) == P(s).reset /\ proc[s].j > 1
\* The reset comes between consecutive keys of a front-end.
ResetDue(s) == P(s).reset
NextKey(p) == [p EXCEPT !.j = @ + 1, !.k = 1]

NextRun(s, won) ==
  LET here == [proc[s] EXCEPT !.fe = @ \/ won, !.before = {}, !.scraped = FALSE, !.result = NoRun, !.rate = {}] IN
  IF proc[s].k < Children(Key(s)) THEN [here EXCEPT !.pc = "scrape", !.k = @ + 1]
  ELSE IF proc[s].j < Len(P(s).keys)
       THEN NextKey([here EXCEPT !.pc = IF ResetDue(s) THEN "reset" ELSE "register"])
       ELSE Skip(here)

\* A reset that fails ends a shootout's front-end, and any other command.
ResetFailed(s) ==
  /\ At(s, "reset failed") /\ UNCHANGED sm /\ NoFault
  /\ IF P(s).mode = "shootout" THEN Goes(s, Skip([proc[s] EXCEPT !.fe = FALSE])) ELSE Stop(s, "failed")

-----------------------------------------------------------------------------
\* The counters of the model server before the run: what it has served so far.
ScrapeBefore(s) ==
  /\ At(s, "scrape") /\ UNCHANGED <<sm, running, files>>
  /\ \/ NoFault /\ Goes(s, [To(s, "ssh") EXCEPT !.before = sm.served, !.scraped = TRUE])
     \/ Fault /\ Goes(s, [To(s, "ssh") EXCEPT !.scraped = FALSE])

\* A run without a result: the next one, or made-up figures with --synthetic.
NoResult(s) ==
  IF P(s).mode = "synthetic" THEN [To(s, "push") EXCEPT !.result = NoRun] ELSE NextRun(s, FALSE)

StartAiperf(s) ==
  /\ At(s, "ssh") /\ UNCHANGED sm
  /\ \/ NoFault /\ running' = running \cup {Run(s)} /\ files' = Cleaned(Run(s)) /\ Goes(s, To(s, "wait"))
     \/ Fault /\ UNCHANGED boxVars /\ Goes(s, NoResult(s))

\* cat, when aiperf has ended, whatever its exit code: the newest result there is.
Cat(s) ==
  /\ At(s, "wait") /\ Run(s) \notin running /\ UNCHANGED <<sm, running, files>> /\ NoFault
  /\ LET r == Newest(Dir(Run(s))) IN
     Goes(s, IF r = NoRun THEN NoResult(s) ELSE [To(s, "scrape after") EXCEPT !.result = r])

\* The timeout ends ssh, not aiperf.
Timeout(s) ==
  /\ At(s, "wait") /\ Run(s) \in running /\ Fault /\ UNCHANGED <<sm, running, files>>
  /\ Goes(s, [NoResult(s) EXCEPT !.alone = FALSE])

\* Attach: the difference of the counters, unless they went back or were not read before.
Counted(s) ==
  IF proc[s].scraped /\ Cardinality(proc[s].before) <= Cardinality(sm.served)
  THEN sm.served \ proc[s].before ELSE sm.served
ScrapeAfter(s) ==
  /\ At(s, "scrape after") /\ UNCHANGED <<sm, running, files>>
  /\ \/ NoFault /\ Goes(s, [To(s, "push") EXCEPT !.rate = Counted(s)])
     \/ Fault /\ Goes(s, [To(s, "push") EXCEPT !.rate = {}])

Row(s) ==
  [run |-> Run(s), measure |-> proc[s].result, rate |-> proc[s].rate, scraped |-> proc[s].scraped,
   alone |-> proc[s].alone]

\* The raw result; on an error, the structured one, whether or not Forge took the first.
PushRaw(s) ==
  /\ At(s, "push") /\ UNCHANGED sm
  /\ \/ NoFault /\ row' = Row(s) /\ Goes(s, NextRun(s, TRUE))
     \/ Fault /\ row' \in {row, Row(s)}
        /\ Goes(s, IF P(s).mode = "dispatch" THEN NextRun(s, FALSE) ELSE To(s, "push again"))
PushStructured(s) ==
  /\ At(s, "push again") /\ UNCHANGED sm
  /\ \/ NoFault /\ row' = Row(s) /\ Goes(s, NextRun(s, TRUE))
     \/ Fault /\ row' \in {row, Row(s)} /\ Goes(s, NextRun(s, FALSE))

-----------------------------------------------------------------------------
\* aiperf on the jumphost: the endpoint serves it, and it ends with a result; it fails, or
\* it has nothing to talk to.
Serves(r) == sm.ep = "in" /\ r \notin sm.served /\ sm' = [sm EXCEPT !.served = @ \cup {r}] /\ NoFault /\ UNCHANGED boxVars
AiperfEnds(r) ==
  /\ UNCHANGED sm /\ running' = running \ {r}
  /\ \/ r \in sm.served /\ NoFault /\ files' = {f \in files : f[1] # Dir(r)} \cup {<<Dir(r), r>>}
     \/ r \in sm.served /\ Fault /\ UNCHANGED files
     \/ sm.ep # "in" /\ NoFault /\ UNCHANGED files

Kill(s) == proc[s].pc # "idle" /\ Fault /\ Stop(s, "killed") /\ UNCHANGED sm

Aiperf == \E r \in running : Serves(r) \/ AiperfEnds(r)
Aws == EndpointUp \/ EndpointFails \/ EndpointGone
Steps(s) == Graph(s) \/ FrontEnd(s) \/ Register(s) \/ ResetFailed(s) \/ Kill(s)

Done == cmds = MaxCmds /\ (\A s \in Shells : proc[s].pc = "idle") /\ UNCHANGED vars

Next ==
  \/ Done
  \/ Aiperf /\ UNCHANGED <<proc, told, other, cmds, row>>
  \/ Aws /\ UNCHANGED <<proc, told, other, cmds, boxVars, row>>
  \/ \E s \in Shells :
       \/ StartUp(s) /\ UNCHANGED <<other, boxVars, row>>
       \/ StartDown(s) /\ UNCHANGED <<other, boxVars, row>>
       \/ StartBenchmark(s) /\ UNCHANGED <<other, boxVars, row>>
       \/ Phases(s) /\ UNCHANGED <<other, boxVars, row>>
       \/ Steps(s) /\ UNCHANGED <<other, boxVars, row>>
       \/ (ScrapeBefore(s) \/ StartAiperf(s) \/ Cat(s) \/ Timeout(s) \/ ScrapeAfter(s)) /\ UNCHANGED <<other, row>>
       \/ (PushRaw(s) \/ PushStructured(s)) /\ UNCHANGED <<other, boxVars>>

Spec == Init /\ [][Next]_vars

-----------------------------------------------------------------------------
(* What benchmarks and the endpoint they measure promise.                   *)

\* A result that Forge has is the one of its own run: of a run that Forge dispatched always,
\* of another if nothing else used the jumphost beside its command and but for the mooncake
\* trace, whose directory keeps older results.  Then its cache figures count that run only,
\* where the counters were read.
OwnResult ==
  row.measure # NoRun =>
    /\ row.run[2] = "agent" => row.measure = row.run
    /\ row.alone /\ row.run[3] # "trace" => row.measure = row.run /\ (row.scraped => row.rate \subseteq {row.run})

FirstOfKey(s) == proc[s].plan # 0 /\ P(s).reset /\ proc[s].k = 1 /\ At(s, "ssh") /\ At(s, "wait")'

\* With --reset-cache the first run of every key after the first of a front-end meets an
\* endpoint that has served nothing, if no other command or left-over aiperf is about.
ColdStart == [][\A s \in Shells : FirstOfKey(s) /\ proc[s].alone /\ proc[s].j > 1 => sm.served = {}]_vars

\* An `up` that says so leaves a role, a model, a configuration and an endpoint that serves or
\* is being made, whatever an `up`, `down` or reset cut off before it has left behind, but for
\* one thing: an endpoint that was on its way out as it began counts as there, and vanishes.
\* It does not take one that it deletes itself, to make it anew, for there.
UpServes ==
  [][\A s \in Shells : told'[s] = "up" /\ told[s] # "up" =>
       /\ sm'.role /\ sm'.model /\ sm'.conf
       /\ sm'.ep \in {"in", "creating"} \/ (sm'.ep = "deleting" /\ proc[s].out)]_vars

\* A `down` that says so leaves no role, model or configuration, and no endpoint but one that
\* is being deleted or one that was being made as AWS refused to delete it: that one stays.
DownClean ==
  [][\A s \in Shells : told'[s] = "down" /\ told[s] # "down" =>
       /\ ~sm'.role /\ ~sm'.model /\ ~sm'.conf
       /\ sm'.ep \in {"none", "deleting"} \/ proc[s].refused]_vars
=============================================================================
