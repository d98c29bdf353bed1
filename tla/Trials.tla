-------------------------------- MODULE Trials --------------------------------
(***************************************************************************)
(* `scenarios run|clean` and `demo run|clean`: trials applied, verified and *)
(* cleaned one after the other on a cluster where BNK runs, beside a        *)
(* `bnk resync --watch`.  The Kubernetes namespaces, the gateways and TMM   *)
(* act on their own.                                                        *)
(***************************************************************************)
EXTENDS Resync

CONSTANTS Picks,      \* the trials the operator runs or cleans by name
          MaxCmds,    \* bound: commands
          MaxEvents   \* bound: changes of endpoints behind a watched route

ASSUME TrialsAssumption == Picks \subseteq Names /\ MaxCmds \in Nat /\ MaxEvents \in Nat

VARIABLES
  things,  \* of each trial, what its Apply or Verify has made and Cleanup not removed
  ns,      \* of each trial, its namespace: "none", "active" or "going"
  addrs,   \* of each trial, the addresses its Gateways claim
  ready,   \* trials whose Deployments are available and Gateways programmed
  tmm,     \* "up" or "rolling"
  cmd,     \* the command: what it does, the trials left, the steps left of the first;
           \* warned: a step of its Cleanup failed, which was only a warning
  calm,    \* since this run began on a clean cluster nothing interfered
  cmds, events,
  watch,   \* `bnk resync --watch`
  scope    \* bound: commands over all trials, or a watch beside commands over the picked ones

trialVars == <<things, ns, addrs, ready, tmm, cmd, calm, cmds, events, watch>>
vars == <<trialVars, scope, weight, stale, spoilt, rs, faults>>
resyncVars == <<weight, stale, spoilt, rs, faults>>
cluster == <<things, ns, addrs, ready, tmm>>

NoCmd == [op |-> "idle", demo |-> FALSE, base |-> DefaultVIP, todo |-> <<>>, stage |-> "none",
          steps |-> <<>>, marks |-> "none", failed |-> FALSE, warned |-> FALSE, exit |-> "none"]
NoWatch == [on |-> FALSE, index |-> {}, news |-> {}, pending |-> {}, batch |-> {}, firing |-> FALSE]

AllThings == {"namespace", "manifests", "hf secret", "gie crds", "far secret", "secrets", "core",
              "login secret", "cis release", "bigip routes", "bigip virtual", "nginx", "haproxy",
              "responder", "gateway settings", "egress gateway"}

TypeOK ==
  /\ ResyncTypeOK
  /\ things \in [Names -> SUBSET AllThings] /\ ns \in [Names -> {"none", "active", "going"}]
  /\ addrs \in [Names -> SUBSET (100 .. 119)] /\ ready \subseteq Names /\ tmm \in {"up", "rolling"}
  /\ cmd.op \in {"idle", "run", "clean"} /\ cmd.stage \in {"none", "apply", "verify", "after", "clean"}
  /\ cmd.base \in 100 .. 119 /\ cmd.marks \in {"none", "ok", "bad"}
  /\ cmd.exit \in {"none", "ok", "failed", "killed"} /\ \A i \in DOMAIN cmd.todo : cmd.todo[i] \in Names
  /\ (cmd.op # "idle" <=> cmd.todo # <<>>) /\ (cmd.exit = "none" => cmd.op # "idle" \/ cmds = 0)
  /\ calm \in BOOLEAN /\ cmds \in 0 .. MaxCmds /\ events \in 0 .. MaxEvents
  /\ watch.index \subseteq Watched /\ watch.pending \subseteq watch.index
  /\ scope \in {"all", "picked"} /\ watch.batch \subseteq watch.pending /\ watch.news \subseteq Names

Init ==
  /\ ResyncInit /\ things = [t \in Names |-> {}] /\ ns = [t \in Names |-> "none"]
  /\ addrs = [t \in Names |-> {}] /\ ready = {} /\ tmm = "up" /\ cmd = NoCmd /\ calm = FALSE
  /\ cmds = 0 /\ events = 0 /\ watch = NoWatch /\ scope \in {"all", "picked"}

-----------------------------------------------------------------------------
\* The command in progress.
t0 == Head(cmd.todo)
Now == Find(t0, cmd.base)
Doing(stage) == cmd.stage = stage /\ rs["command"].at = "off"
Step(stage, x) == Doing(stage) /\ cmd.steps # <<>> /\ Head(cmd.steps) = x

Begin(o, q) == [stage |-> IF o = "run" THEN "apply" ELSE "clean",
                steps |-> IF o = "run" THEN Find(Head(q), cmd.base).apply ELSE Find(Head(q), cmd.base).clean]

Start(o, d, b, q) ==
  /\ cmd.op = "idle" /\ (Len(q) > 1 => scope = "all") /\ cmds < MaxCmds /\ cmds' = cmds + 1
  /\ LET s == Begin(o, q) IN
     cmd' = [NoCmd EXCEPT !.op = o, !.demo = d, !.base = b, !.todo = q, !.stage = s.stage, !.steps = s.steps]
  /\ calm' = (o = "run" /\ tmm = "up" /\ ~watch.on /\ b = DefaultVIP /\ rs["watch"] = Idle
                /\ \A t \in Names : things[t] = {} /\ ns[t] = "none")
  /\ UNCHANGED <<cluster, events, watch, resyncVars>>

\* Bound: a run of all trials is the first command, and without --vip.
RunAllScenarios == cmds = 0 /\ Start("run", FALSE, DefaultVIP, TopoSort(Scenarios))
RunScenario == \E t \in Picks, b \in {DefaultVIP, 105} :
                 t \in {Scenarios[i] : i \in DOMAIN Scenarios} /\ Start("run", FALSE, b, <<t>>)
RunDemo == \/ cmds = 0 /\ Start("run", TRUE, DefaultVIP, TopoSort(Catalogue))
           \/ \E t \in Picks \cap {Catalogue[i] : i \in DOMAIN Catalogue} : Start("run", TRUE, DefaultVIP, <<t>>)
CleanScenario == \E t \in Picks : Start("clean", FALSE, DefaultVIP, <<t>>)
CleanAllUseCases == Start("clean", TRUE, DefaultVIP, Catalogue)

\* The trial is over.  A run stops at the first trial with an assertion that failed; one
\* whose Apply failed has none.  A clean goes on and fails in the end.
Over(bad) ==
  LET fail == cmd.failed \/ bad
      stop == Tail(cmd.todo) = <<>> \/ (bad /\ cmd.op = "run")
      s == Begin(cmd.op, Tail(cmd.todo)) IN
  cmd' = IF stop THEN [NoCmd EXCEPT !.exit = IF fail THEN "failed" ELSE "ok",
                                    !.demo = cmd.demo]
         ELSE [cmd EXCEPT !.todo = Tail(@), !.stage = s.stage, !.steps = s.steps, !.marks = "none", !.failed = fail,
                              !.warned = FALSE]

Forth == cmd' = [cmd EXCEPT !.steps = Tail(@)]
Marks(ok) ==
  cmd' = [cmd EXCEPT !.marks = IF ok /\ @ # "bad" THEN "ok" ELSE "bad",
                     !.steps = IF ~ok /\ Head(@) \in Now.needs THEN <<>> ELSE Tail(@)]

Kept == UNCHANGED <<cmds, events, watch>>

-----------------------------------------------------------------------------
Contents(x) == {x} \cup (IF x = "manifests" THEN Now.parts ELSE {})

\* A namespace that goes takes patches of what is still in it, and creates nothing.
Accepts(x) == x \in Now.outside \cup {"namespace"} \/ ns[t0] # "going" \/ Contents(x) \subseteq things[t0]

\* ApplyManifests: server-side apply of all of it, forced.  It sets the weights it
\* declares; the pool fills before or after the pods are ready.
Put(x) ==
  /\ Step("apply", x) /\ Accepts(x) /\ Forth /\ Kept /\ NoFault /\ UNCHANGED rs
  /\ things' = [things EXCEPT ![t0] = @ \cup Contents(x)
       \cup (IF x = "manifests" /\ t0 = "bigip-cis" THEN {"bigip virtual"} ELSE {})]
  /\ ns' = IF x \in Now.outside \/ ns[t0] = "going" THEN ns ELSE [ns EXCEPT ![t0] = "active"]
  /\ tmm' = IF x = "core" /\ x \notin things[t0] THEN "rolling" ELSE tmm
  /\ IF x # "manifests" THEN UNCHANGED <<addrs, ready, weight, stale, spoilt, calm>>
     ELSE /\ addrs' = [addrs EXCEPT ![t0] = WithBase(Now.vips, cmd.base)]
          /\ ready' = IF addrs[t0] = addrs'[t0] THEN ready ELSE ready \ {t0}
          /\ LET new == ~weight[t0].there \/ Now.declares # 0 IN
             /\ weight' = IF new THEN [weight EXCEPT ![t0] = Fresh(t0)] ELSE weight
             /\ spoilt' = IF new THEN spoilt \ {t0} ELSE spoilt
          /\ \/ UNCHANGED <<stale, calm>>
             \/ /\ ~weight[t0].there /\ Now.probed # {} /\ stale' = stale \cup {t0}
                /\ calm' = (calm /\ \E i \in DOMAIN Now.verify : Now.verify[i] = "resync")

\* Apply returns an error: the trial has failed, without an assertion.
ApplyFails(x) ==
  /\ Step("apply", x) /\ Over(FALSE) /\ Kept /\ calm' = FALSE
  /\ (IF Accepts(x) THEN Fault ELSE NoFault) /\ UNCHANGED <<cluster, weight, stale, spoilt, rs>>

Applied ==
  /\ Doing("apply") /\ cmd.steps = <<>>
  /\ cmd' = [cmd EXCEPT !.stage = "verify", !.steps = Now.verify]
  /\ Kept /\ UNCHANGED <<cluster, calm, resyncVars>>

-----------------------------------------------------------------------------
Reaches(t) ==
  /\ tmm = "up" /\ t \in ready /\ t \notin stale
  /\ WithBase(Now.probed, cmd.base) \subseteq addrs[t]

\* What a step of Verify looks at.
Holds(x) ==
  CASE x \in {"ready", "deployment"} -> t0 \in ready
    [] x = "present" -> "manifests" \in things[t0]
    [] x \in {"probe", "poll"} -> Reaches(t0)
    [] x = "counters" -> tmm = "up" /\ t0 \in ready
    [] x = "core" -> "core" \in things[t0]
    [] OTHER -> TRUE

\* Nothing that is under way makes the step hold.
Blocked(t) == \E u \in ready \ {t} : addrs[u] \cap addrs[t] # {}
Hopeless(x) ==
  \/ x \in {"present", "probe", "bigip probe"}
  \/ x # "core" /\ ("manifests" \notin things[t0] \/ (t0 \notin ready /\ Blocked(t0)))
  \/ x = "poll" /\ (t0 \in stale \/ ~(WithBase(Now.probed, cmd.base) \subseteq addrs[t0]))
  \/ x = "core" /\ "core" \notin things[t0]

Checks(x) ==
  /\ Step("verify", x) /\ Holds(x) /\ Marks(TRUE) /\ Kept /\ NoFault
  /\ things' = IF x = "responder" THEN [things EXCEPT ![t0] = @ \cup {x}] ELSE things
  /\ UNCHANGED <<ns, addrs, ready, tmm, calm, weight, stale, spoilt, rs>>

\* The wait times out, or the look or the probe fails.
CheckFails(x) ==
  /\ Step("verify", x) /\ Marks(FALSE) /\ Kept
  /\ IF ~Holds(x) /\ Hopeless(x) THEN NoFault /\ UNCHANGED calm ELSE Fault /\ calm' = FALSE
  /\ UNCHANGED <<cluster, weight, stale, spoilt, rs>>

\* Verify's resync, and the one `demo run` adds after a trial that is ok.
StartResync ==
  /\ \/ Step("verify", "resync")
     \/ Doing("after") /\ cmd.demo /\ cmd.marks # "bad" /\ cmd.steps = <<"resync">>
  /\ cmd' = [cmd EXCEPT !.steps = <<"resyncing">> \o Tail(@)] /\ CollectWeights("command", t0)
  /\ Kept /\ UNCHANGED <<cluster, calm>>
CommandToggles ==
  /\ ToggleWeights("command") /\ calm' = (calm /\ faults' = faults)
  /\ UNCHANGED <<cluster, cmd, cmds, events, watch>>
Resynced ==
  /\ Step(cmd.stage, "resyncing") /\ UNCHANGED <<cluster, calm, resyncVars>> /\ Kept
  /\ IF cmd.stage = "after" THEN Over(FALSE) ELSE Marks(~rs["command"].err)

\* An error of the demo's resync is a warning.
Verified ==
  /\ Doing("verify") /\ cmd.steps = <<>> /\ Kept /\ UNCHANGED <<cluster, calm, resyncVars>>
  /\ IF cmd.demo /\ cmd.marks # "bad" THEN cmd' = [cmd EXCEPT !.stage = "after", !.steps = <<"resync">>]
     ELSE Over(cmd.marks = "bad")

-----------------------------------------------------------------------------
\* One step of Cleanup; the namespace is deleted and not waited for.
Remove(x) ==
  /\ Step("clean", x) /\ Forth /\ Kept /\ NoFault /\ UNCHANGED <<addrs, tmm, weight, stale, spoilt, rs, calm>>
  /\ ready' = IF x \in Now.parts THEN ready \ {t0} ELSE ready
  /\ IF x = "namespace"
     THEN ns' = [ns EXCEPT ![t0] = IF @ = "none" THEN @ ELSE "going"] /\ UNCHANGED things
     ELSE things' = [things EXCEPT ![t0] = @ \ {x}] /\ UNCHANGED ns

RemoveFails(x) ==
  /\ Step("clean", x) /\ Fault /\ Kept /\ calm' = FALSE
  /\ (IF x \in BestEffort THEN cmd' = [cmd EXCEPT !.steps = Tail(@), !.warned = TRUE] ELSE Over(TRUE))
  /\ UNCHANGED <<cluster, weight, stale, spoilt, rs>>

Cleaned ==
  /\ Doing("clean") /\ cmd.steps = <<>> /\ Over(FALSE) /\ Kept /\ UNCHANGED <<cluster, calm, resyncVars>>

\* The operator ends the command.
Kill ==
  /\ cmd.op # "idle" /\ Fault /\ cmd' = [NoCmd EXCEPT !.exit = "killed"] /\ calm' = FALSE
  /\ Interrupt("command") /\ Kept /\ UNCHANGED cluster

AllSteps == AllThings \cup {"ready", "deployment", "present", "probe", "poll", "counters", "core",
                            "bigip probe", "responder", "virtual server"}
CommandStep ==
  \/ \E x \in AllThings : Put(x) \/ ApplyFails(x)
  \/ Applied \/ StartResync \/ CommandToggles \/ Resynced \/ Verified \/ Cleaned
  \/ \E x \in AllSteps : Checks(x) \/ CheckFails(x) \/ Remove(x) \/ RemoveFails(x)

-----------------------------------------------------------------------------
\* BNK and Kubernetes.
Settles(t) ==
  /\ t \notin ready /\ {"manifests"} \cup Find(t, DefaultVIP).parts \subseteq things[t] /\ ~Blocked(t) /\ ready' = ready \cup {t}
  /\ UNCHANGED <<things, ns, addrs, tmm, cmd, calm, cmds, events, watch, resyncVars>>
TmmUp ==
  /\ tmm = "rolling" /\ tmm' = "up"
  /\ UNCHANGED <<things, ns, addrs, ready, cmd, calm, cmds, events, watch, resyncVars>>

\* What is in a namespace that goes ends before the namespace does; of several, the
\* one deleted first.
Order == Catalogue \o Scenarios
Going == {i \in DOMAIN Order : ns[Order[i]] = "going"}
Ends(t) == Going # {} /\ t = Order[CHOOSE i \in Going : \A j \in Going : i <= j]
ContentEnds(t) ==
  /\ Ends(t) /\ things[t] \ Find(t, DefaultVIP).outside # {}
  /\ things' = [things EXCEPT ![t] = @ \cap Find(t, DefaultVIP).outside]
  /\ addrs' = [addrs EXCEPT ![t] = {}] /\ ready' = ready \ {t}
  /\ weight' = [weight EXCEPT ![t] = NoRoute] /\ stale' = stale \ {t} /\ spoilt' = spoilt \ {t}
  /\ UNCHANGED <<ns, tmm, cmd, calm, cmds, events, watch, rs, faults>>
NamespaceEnds(t) ==
  /\ Ends(t) /\ things[t] \subseteq Find(t, DefaultVIP).outside
  /\ ns' = [ns EXCEPT ![t] = "none"]
  /\ UNCHANGED <<things, addrs, ready, tmm, cmd, calm, cmds, events, watch, resyncVars>>

\* A pod behind the route is replaced.
EndpointsChange(t) ==
  /\ events < MaxEvents /\ scope = "picked" /\ events' = events + 1 /\ weight[t].there /\ stale' = stale \cup {t}
  /\ calm' = FALSE /\ watch' = [watch EXCEPT !.news = IF watch.on THEN @ \cup {t} ELSE @]
  /\ UNCHANGED <<cluster, cmd, cmds, weight, spoilt, rs, faults>>

-----------------------------------------------------------------------------
\* The watch.  It selects routes, and a new watch reports every slice there is.
Guarded == {t \in Watched : weight[t].there}
\* Mutant: a watch that starts with the next change.
EstablishedBug == [NoWatch EXCEPT !.on = TRUE, !.index = Guarded]
Established == [NoWatch EXCEPT !.on = TRUE, !.index = Guarded, !.news = Guarded]

Watching == watch.on /\ ~watch.firing /\ rs["watch"].at = "off"
WatchSame == UNCHANGED <<cluster, cmd, cmds, events>>

StartWatch ==
  /\ ~watch.on /\ scope = "picked" /\ watch' = Established /\ calm' = FALSE /\ WatchSame /\ UNCHANGED resyncVars

\* The index refresh, or a stream that breaks: both drop what is pending.
Reestablish == Watching /\ watch' = Established /\ WatchSame /\ UNCHANGED <<calm, resyncVars>>

Event(t) ==
  /\ Watching /\ t \in watch.news /\ WatchSame /\ UNCHANGED <<calm, resyncVars>>
  /\ watch' = [watch EXCEPT !.news = @ \ {t}, !.pending = @ \cup ({t} \cap watch.index)]

\* The window of the first pending event ends: its routes are resynced one by one.
Debounced ==
  /\ Watching /\ watch.pending # {} /\ watch' = [watch EXCEPT !.firing = TRUE, !.batch = watch.pending]
  /\ WatchSame /\ UNCHANGED <<calm, resyncVars>>
ResyncOne ==
  /\ watch.firing /\ \E t \in watch.batch :
       CollectWeights("watch", t) /\ watch' = [watch EXCEPT !.batch = @ \ {t}]
  /\ WatchSame /\ UNCHANGED calm
WatchToggles == ToggleWeights("watch") /\ WatchSame /\ UNCHANGED <<calm, watch>>

\* Errors were only printed; nothing is pending any more.
BatchEnds ==
  /\ watch.firing /\ watch.batch = {} /\ rs["watch"].at = "off"
  /\ watch' = [watch EXCEPT !.firing = FALSE, !.pending = {}] /\ WatchSame /\ UNCHANGED <<calm, resyncVars>>

StopWatch ==
  /\ watch.on /\ Fault /\ Interrupt("watch") /\ watch' = NoWatch /\ calm' = FALSE /\ WatchSame

WatchStep == (ResyncOne \/ WatchToggles \/ BatchEnds) /\ UNCHANGED scope
Cluster == TmmUp \/ \E t \in Names : Settles(t) \/ ContentEnds(t) \/ NamespaceEnds(t)

AnyStep ==
  \/ RunAllScenarios \/ RunScenario \/ RunDemo \/ CleanScenario \/ CleanAllUseCases
  \/ CommandStep \/ Kill \/ Cluster \/ \E t \in Watched : EndpointsChange(t) \/ Event(t)
  \/ StartWatch \/ Reestablish \/ Debounced \/ WatchStep \/ StopWatch
Next == AnyStep /\ UNCHANGED scope

Spec == Init /\ [][Next]_vars
=============================================================================
