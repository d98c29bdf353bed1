# awsbnkctl: a verification project

TLA+ models of awsbnkctl, the Go command line that builds an AWS VPC, an EKS
cluster and F5 BIG-IP Next for Kubernetes (BNK) on it, tears them down again,
and runs benchmarks from it. TLC checks the models on small instances; TLAPS
proves the results that matter most for instances of any size.
`PROJECT.json` lists the components, the runs, the lines every definition
stands for, the hazards, the findings and the theorems; this file explains
them. Paths are relative to the repository root, `src/` left off.

    tlc -workers 2 -config MCHosts.cfg HostsProps      # one run
    tlapm UnderlayProof.tla                            # one set of proofs

Contents: 1 the program, 2 the plan, 3 how the models relate to the code,
4 the sets of modules, 5 the runs, 6 fairness, 7 proofs, 8 findings and
divergences, 9 what is not modelled.

## 1. The program and its parts

`awsbnkctl up` runs some forty *phases* in a fixed order; each makes sure that
one group of resources exists and writes their ids to a flat file,
`.awsbnkctl/<cluster>/state.env`. `awsbnkctl down` runs the phases' down halves,
first refilling missing keys of the file from AWS tags. Nothing else survives
between commands: an interrupted command is continued by running it again.
That is where the difficulty is. A phase is a handful of remote calls, each of
which may fail or be the last one this process makes, and the record of them is
a file that may be behind, ahead of, or entirely without the truth.

| Part | State it keeps | Operations | Talks to | What is hard | What makes it correct |
|---|---|---|---|---|---|
| State cache (`internal/aws/state`) | `state.env`, a map in memory | Load, Set, Save | every phase | a kill inside Save, a full disk, a second command | a Save is all or nothing, and says which |
| Network underlay (phases 02-06, `phases/down.go`) | VPC, subnets, gateways, addresses, route tables; their ids | up and down of each, Hydrate | EC2 | a crash between a call and its Save; EC2's refusals; gateways that die slowly | re-runs duplicate nothing and down leaves nothing |
| EKS cluster (07, 08, 10, 18) | roles, control plane, node groups, launch templates, OIDC provider, security groups | up and down of each, the zone sweep for GPU capacity | IAM, EKS, EC2, Auto Scaling | resources that take minutes and may fail; a sweep that creates and deletes | as above; the sweep gives up only without capacity; re-runs are not refused |
| Hosts (17, 17b, 17e) | interfaces, two instances, an endpoint, a key pair and its PEM file | up and down of each | EC2, IAM, local disk | pairs that are created in two steps; device indexes; stale ids | attached, configured and reachable after up, gone after down |
| Add-ons (11b, 14b, `CleanupBNKPVCsAndServices`, `deleteClusterVolumes`) | EBS CSI add-on; policy, role and Helm release of the load balancer controller; the policy's ARN | up and down of each, clean-up of Services and claims, volume sweep | EKS, IAM, EC2, Helm, two controllers in the cluster | AWS resources made by controllers that `down` removes; Helm's own record of a release; a teardown that only warns | controller and driver outlive what they own; what is left was warned about |
| BNK overlay (08b, 08c, 11, 11c, 12, 14-16, 17c, 19-25) | Kubernetes objects, a Helm release, an EKS add-on | apply, wait, poll; what down deletes | the Kubernetes API, FLO and the controllers behind it | waits for what others make; objects that go slowly; crash loops; marks made before the step they stand for | up ends activated or says why; no wait is for what only a later phase makes |
| Heals (`heal.go`, `bnk heal`, 24, 24b, 24c) | none | a table of twelve repairs: detect, fix | kubelet, controllers | a repair that undoes another; errors that are only counted | a heal without a failure leaves nothing to repair |
| BIG-IP onboarding (17f) | device configuration, a password file | SSH and REST sequences | BIG-IP, through the jumphost | retries of calls that were half done | re-runnable |
| Forge registration (09, 09b, `internal/forge`, `forge` commands) | a link file, keys in state.env; projects, clusters, targets, agents in another service | register over MCP with REST fallback, roll back, unregister, clean up | BNK-Forge | lost answers and retries; two APIs with different catalogues; projects that workspaces share | registered once and truly; forgotten by down; nobody else's records touched |
| Benchmark agent (`agent_ws.go`, `agent_token.go`, daemon) | connection, cancel table, token and its cache file | connect, heartbeat, run, cancel, reconnect, re-mint | Forge over WebSocket | goroutines sharing one mutex; refused tokens; lost sessions | ends only for a cause, no loop, cancels arrive |
| Benchmark commands, load generators (`benchmark*.go`, `jumphost/aiperf.go`) | artifact directories on the jumphost, results in Forge | shootout, scenarios, presets, dispatched runs, collect, push | jumphost, endpoint, Forge | a load generator that outlives its shell; directories and caches that runs share | a result is the one of its run; a cold start is cold |
| SageMaker endpoint (`phase_sagemaker.go`) | role, model, configuration, endpoint | up, down, recovery of a failed endpoint, cold redeploy | SageMaker, IAM | an endpoint that is being deleted; two shells | up serves, down leaves nothing |
| Forge client, governance, telemetry, MCP | none or a cursor | HTTP calls, an approval loop | Forge | timeouts and retries | a retry does not apply twice |
| Upgrade and migration (`k8s/migrate`, `bnk upgrade`, `bnk migrate-2.4`) | a Helm release, the CNEInstance, the controller's Deployment; the resources of 2.4 | inspect, translate, apply in order, wait; nine steps of the upgrade | Kubernetes, Helm, FLO | it may stop between any two steps and be run again; pods of an old template; tenants who edit meanwhile | what is reported upgraded or migrated is; what a plan writes names only what is there |
| Kubernetes helpers, backends, remote targets | port forwards, jobs, SSH sessions, known hosts | apply, wait, exec, copy | clusters, Docker, SSH | clean-up when the caller is gone | nothing left running |
| Scenarios and demos (`internal/scenarios`, `internal/demo`) | objects of one trial, reports | apply, verify, clean, run all | the cluster | addresses and namespaces that trials share; TMM that rolls | trials do not disturb each other; a clean leaves nothing |
| Resync and watch (`pkg/bnk`) | an index of routes, pending ones | two patches of a route's weights; debounce, refresh | the Kubernetes API | two patches of one field by several actors; dropped events | weights come back; every pool is refilled |
| Deployment tests | none | probe, report | the cluster | little | - |
| Intent, manifests, rendering, topology, UI, configuration, preflight, doctor | files of the user | load, validate, print | nobody | little | pure functions |
| Lifecycle driver (`internal/cli/lifecycle.go`) | none | the order of phases, dry run, confirmation | all phases | an order that respects every dependency | a down is never refused by its own order |

Interactions. The driver creates one `state.State` and one set of AWS clients
and hands both to every phase in turn, in one goroutine; phases share nothing
else, so what one phase knows of another is what `state.env` says. Concurrency
is outside the process: AWS finishes what it was asked for in its own time,
Kubernetes controllers act on objects, an operator (or a second shell, or a demo
script) acts between two calls. Only the agent, port forwards, the probes of
`test` and the watchers have goroutines of their own that share state.

## 2. Plan

Written, in this order: the underlay (the most resources, and the promise of a
zero-leak teardown), the state file every phase relies on, the agent (goroutines
that share state), the cluster, the hosts with the onboarding of the BIG-IP, the add-ons; then the overlay with
`bnk heal`, the trials with resync and watch, the registration with Forge, the
SageMaker endpoint with the benchmarks, and the upgrade with the migration.

Open:

1. *Lifecycle*: the driver over abstract phases, each promising "exists and is
   recorded" or "gone", the detailed sets shown to implement that promise. Until
   then each set has the order of its own phases (`UpPoints`, `UpOrder`, ...).
2. *Backends*: a run over Docker, a Kubernetes job or SSH with its deferred clean-up.
3. *Governance*: the approval loop of `forge governance`.

Theorems worth adding: `Migrated` and `RefsResolve` of the migration (the order of `Objects`
carries the second), `OwnResult` of the benchmarks (the artifact directory identifies the run).
Liveness stays with TLC.

The number of runs is kept small: one per set, with the properties that are hard to
get right, and one for a disagreement worth showing.

## 3. How the models relate to the code

* *A step* is one call that changes something outside the process (AWS, Forge,
  the disk), or one `Save`, together with the reads of AWS and of `state.env`
  that decide it. Between two steps the process may end. Reads and the write they
  decide are one step because nobody but this process writes those resources
  by intent; where somebody does (EC2's own steps, a helper instance, a
  terminated BIG-IP), the model gives it actions of its own.
* *mem and disk.* `mem` is the `state.State` of the running command, `disk` the
  file. `Set` changes `mem`, `Save` copies it. An interruption drops `mem`. This
  takes Save to be atomic, which is what the state-file set shows.
* *A fault* is one of: the process ends (kill, expired token, throttled call,
  timeout; all leave the same state, so they are one action), an error the code
  drops (the call has no effect or the listing is empty, and the code goes on), a
  lost file, an instance terminated from outside. `MaxFaults` bounds their sum.
* *Resources* are named by the number of the `up` that created them. Tags are
  implicit: everything a phase creates carries the cluster's tags from the
  creating call on (`internal/aws/tags`), so a listing by tag is the set itself.
  Where a listing may return several, the model chooses any.
* *Ghosts.* `done` is what the last command reported; `blind` (underlay) and
  `misled` (cluster, hosts) record that the running command went on after an
  error it dropped, or with an id of `state.env` that is not the resource there
  is; `pemLost` (hosts) that a PEM was lost or never completed; `lost` (add-ons) what an error the code
  dropped, or a wait it cut short, left behind. They are read by properties, never
  by a guard.
* *External code.* AWS, Forge and the Go runtime are modelled from how the code
  uses them and marked external in the map: which calls are refused for a
  dependency, which names are unique, which states a resource passes through.

## 4. The sets

**Underlay**: `Ec2Network` (what EC2 does), `Underlay` (Init and the up half of
phases 02-06), `UnderlayDown` (Hydrate, the down half, faults, Spec),
`UnderlayProps`, `UnderlayProof`. `pc` walks through the phases: "vpc",
"vpcSupport", "vpcHostnames" are the three calls of `Phase02VPC`, and so on;
`k` is the index of the loop over subnets, `todo` what a down loop has listed,
`swept` says that `sweepVPCNonDefaultResources` has been tried. A NAT gateway
goes pending, available or failed, deleting, deleted on its own, and its
interface detaches later still: the Elastic IP can be released only then. Other
people's instances appear in subnets (`strays`).

**State file**: `StateFile` has the system calls of `state.go` over directory
entries and inodes, and the properties; `StateFileProof` the proofs; `StateStore` is the abstract register, in which a command's
whole map replaces the stored one in one step. `AtomicSave == Store!Spec` under
the mapping `stored <- Stored` (what Load would read), `full <- faults > 0`.

**Agent**: `AgentWorker`, which states its properties at its end, and `AgentProof`. `wpc` is the Run loop of `BenchmarkAgentWorker`; each
session has a heartbeat and a receive goroutine, each dispatched run one; `lock`
is `w.mu` as far as it is held over a blocking write. `hbErr` and `recvErr` are
the one-slot channels. Tokens are generations: 0 was configured, every mint gives
the next; `refused` is what Forge has rejected; `cache` is the file.

**Cluster**: `EksAccount` (roles, control plane, node groups that become ACTIVE
or FAILED and that go away in their own time, capacity per zone and type),
`Cluster` (up), `ClusterDown`, `ClusterProps`, `ClusterProof`. `k` and `cap` are where the sweep
over zones of `phase10_nodegroup.go` is.

**Hosts**: `HostAccount`, `Hosts`, `Onboard` (phase 17f), `HostsDown`, `HostsProps`,
`HostsProof`. `att` says which
interface is attached to which host, `conf` which resources had the second call
that configures them (source/destination check, ingress rules), `key`, `veKey`
and `pem` whose key EC2, a running BIG-IP and the local file hold. `box` is what is
configured on a BIG-IP: settings, AS3, and whether the admin password is the
operator's and outlives a reload. `Onboard` does on it, one SSH command at a time,
what the phase does, through the jumphost the phases before left; that AS3 takes its
time and that BIG-IP loses a password set before it (`Reverts`) is external, taken
from the comment above Phase17fBigIPOnboard. The phases between 17e and 17f change
nothing of this, so the steps follow each other directly.

**Add-ons**: `AddonCloud` (the add-on's life, the controller's finalizer on a Service
with an NLB, the volume behind a claim), `Addons` (11b and 14b of up), `AddonsDown`,
`AddonsProps`, `AddonsProof`. `ControllerWorks` is the conjunction an NLB needs to go
away: a release, nodes, and a role with the policy that trusts this cluster's OIDC
provider. `lb` has one Service in kube-system, which phase 14b waits for, and one
elsewhere, which the clean-up at the head of down deletes without waiting; a deleted
cluster turns what is left of them into orphans. A Helm release is "pending" from the
start of an operation to its end, and so also after a process that died in it.

**Overlay**: `BnkCluster` (what FLO, the cne-controller, cert-manager and the kubelets
make of what is applied), `Overlay` (phases 08b to 25 of up in the order of
`lifecycle.go`), `OverlayDown` (what down deletes), `Heal` (the table `Repairs` and the
specification), `OverlayProps`, `OverlayProof`. `pc` is the phase, or "<phase> poll" where it waits;
`UpOrder`, `DownOrder` and `HealOrder` are the sequences the driver and the table give.
`pods` has one entry per workload; `broken` is the plumbing that may break between
commands and that only `heal` looks at.

**Trials**: `TrialCatalogue` (each scenario and demo as a record of the steps of its
Apply, Verify and Cleanup, and of the addresses it claims and probes), `Resync` (the two
JSON patches of a resync, with their tests), `Trials` (the runner, `run --all`, `clean`,
the watch, and the cluster around them), `TrialsProps`. `stale` holds the trials whose
pool misses an endpoint; `scope` chooses between commands over the whole catalogue and a
watch beside commands over the picked trials, so that each instance stays small. What a trial
makes in its namespace goes with it; only what is `outside` must be cleaned by name. The
EgressGateway and its settings are inside: Cleanup deletes them first (`parts`), so that the
controller sees them go.

**Forge**: `ForgeServer` (projects, clusters, targets, agents, two APIs), `Forge` (phase 09,
`forge register`), `ForgeDown` (phases 09b and 09 of down, `forge unregister` and
`cleanup`, and the records a benchmark makes), `ForgeProps`. Each workspace has a link file,
the FORGE_ keys of state.env and one command at a time; a call may be answered, lost, or
done with its answer lost. `trusted` is a ghost: no down has begun to give the link up. A workspace
has a project of its own, "awsbnkctl-" and its name (`defaultProjectName`, `forge/rest.go`), or that of
cluster.yaml, `"shared"`, which the assumption keeps apart from the names of workspaces. With
projects of their own one workspace is modelled, since nothing on the server is then common to two.
The server counts its ids up and uses none again; nothing bounds them but the commands. `ForgeProof`
has the proofs.

**Bench**: `SageMaker` (the phase, recovery, cold redeploy), `Bench` (front-ends, keys,
children, aiperf on the jumphost, cache counters, pushes, and the properties). A run is named by
shell, number and artifact directory; `sm.served` are the runs whose prompts the model
server's cache holds. Beside the shell there is an agent with a dispatched run, or a second
shell. Three ghosts: `alone` (nothing else used the jumphost or the endpoint since the command
began), `out` (the endpoint was on its way out as it began), `refused` (AWS refused to delete an endpoint
that was being made); `UpServes` and `DownClean` name the last two as what goes wrong there.

**Upgrade**: `Translate` (the plan `migrate.Translate` computes from an inventory: pools,
settings, gateways, egresses, policies, and their order), `Upgrade` (the steps of
`bnk upgrade` and of `migrate-2.4 --apply`, FLO, the controller's Deployment and pods, TMM),
`UpgradeProps`, which also names the inventories of the instance. The plan is a pure
function of an inventory; its sections are operators of one inventory each.

## 5. The runs

| Run | Module, config | Bounds | What it shows |
|---|---|---|---|
| underlay | UnderlayProps, MCUnderlay | 1 subnet of each kind, 2 ups, any number of downs, 2 faults, 1 stray instance, NAT gateways that fail | a successful down leaves nothing inside a VPC; a successful up is wired and recorded; in runs with one fault a re-run down gets to the end and leaves nothing by tag |
| state_file | StateFile, MCStateFile | 1 command at a time, 2 keys, 2 values, 2 inodes, 2 edits, 1 failing call | Save refines the atomic register while the disk takes every write; an error return leaves the old file |
| agent | AgentWorker, MCAgentWorker | 1 run, 2 faults (hence 3 sessions), 4 mints | no loop on refused tokens; cancels arrive; results are lost only with their session; goroutines end; sessions are replaced |
| cluster | ClusterProps, MCCluster | 2 ups, 2 faults, 2 zones with room in at most one, groups that fail, spot with on-demand fallback | up is complete, down leaves nothing a fault did not hide, refusals have the stated causes |
| cluster_stuck | ClusterProps, MCClusterStuck | 2 ups, 1 fault | counterexample: phase 18 refuses every further up |
| hosts | HostsProps, MCHosts | 3 ups, 2 faults | up leaves hosts and interfaces attached, recorded and the BIG-IP onboarded, the PEM opens it, down leaves nothing, a down or a half-onboarded box is not refused |
| addons | AddonsProps, MCAddons | 3 ups, 2 faults, a Service in kube-system and one elsewhere, one claim | a successful up leaves controller and driver working; an NLB of kube-system never loses its controller unwarned; down leaves nothing unwarned |
| overlay | OverlayProps, MCOverlay | 2 ups, any number of downs and heals, 1 fault, 2 crash loops | a successful up is an overlay that works; an up is refused for few causes; a heal without a failure leaves nothing to heal; every command ends |
| trials | TrialsProps, MCTrials | 2 commands, 1 fault, 1 change of endpoints, one watched route | fifteen scenarios or the demos one after the other do not disturb each other; a clean that ends without a warning leaves nothing; concurrent resyncs keep the weights; the watch refills every pool |
| forge | ForgeProps, MCForge | 2 workspaces, 3 commands, 2 faults, own or shared project, full catalogue or one with a gap | registration converges, down forgets, nobody else's records go |
| bench | Bench, MCBench | 2 commands of a shell beside a dispatched run or a second shell, 2 faults (beside the agent 1) | a result is of its own run; a cold start is cold; the endpoint's up and down do what they say, but for an endpoint that is on its way out or being made |
| upgrade | UpgradeProps, MCUpgrade | 3 commands, 1 fault, 1 edit by a tenant, 3 inventories of 2 namespaces and 2 names | a reported upgrade settles, a reported migration is complete, refusals have the stated causes; until tenants edit no object names one that is not there, and after an edit none that the running or a successful apply wrote does |

Why these bounds. Ids only ever become wrong across two ups (one that made the
resource, one that made another), so two ups reach every stale id; the hosts take
three because a replaced BIG-IP key needs a further up to be used, the add-ons
because a role kept by a failed deletion is met by the cluster after next. A fault hides
one step; the counterexamples above need one or two, and the passing properties
are checked with the same number, so that the same histories are in them. One
subnet of each kind suffices because the loops treat subnets alike and what could
differ between first and second is an interruption between them, which the three
kinds give. Two zones let the sweep fail in one and go on. Downs are not bounded.

The overlay has one fault because each of its commands already meets whatever the one
before it left, and two crash loops because phase 24 deletes a pod `MaxIter` = 1 times;
what a second fault adds is named in the properties (`Going`, and the vanished CNEInstance of
`UpNotRefused`), which are proved for any number of faults (section 7); likewise what a third and
a fourth add to the two of the hosts (`Unseen`, `Orphaned`);
`MaxIter` stands for the twelve iterations of its poll and `MaxBounces` for h4MaxBounces (2)
of phase 24c, both taken as 1. Three commands
of the registration are an up, a down and what either left for another; three of the upgrade
are one that stops, one that ends, and a migration. The inventories are the ones that make
the plan share names: a gateway and an egress of one name, a firewall policy of
that name, a gateway with static addresses, and no VLAN at all.

Deadlock is not checked where the system may rest: the agent (a daemon that ended), the
overlay, the trials and the upgrade (all commands used up).

Bounds in guards: `MaxUps` and `MaxCmds` (new commands), `MaxFaults` (faults), `MaxStrays`,
`MaxSteps` (edits before a Save), `MaxDispatches`, `MaxMints`, `MaxLoops`, `MaxEvents`,
`MaxEdits`. None is read by the code modelled; each only stops the environment.

Type invariants. Every set defines `TypeOK`; it holds on the instances above, and the sets
with a proof module prove it. Only the underlay's run lists it.

Every property of a passing run has a mutant in PROJECT.json, a plausible bug
in one modelled definition (a dropped guard, a missing step, a wrong key) that
TLC must find under the same configuration.

## 6. Fairness

* Underlay: weak fairness of the process's own next step (a Go program runs on
  until it ends), of each step EC2 owes after a call (a NAT gateway settles, is
  deleted, its interface detaches), and of StartDown, for `DownConverges` only:
  an operator whose down failed runs it again. Nothing makes anyone run `up`,
  and no fault is ever owed.
  `DownConverges` is about the runs in which at most one call failed and no gateway
  came up failed (`Calm`).
* Cluster, hosts, add-ons, registration, benchmarks: none; their properties are safety.
* Overlay: the process's steps, and those of the controllers, but not that dSSM with its
  strict scripts ever starts or that cwc leaves its crash loop. `Ends` then says that
  every poll has its limit.
* Trials: weak fairness of the watch and of the second patch of a command's resync; strong
  fairness of a delivered event and of the debounce, since each refresh of the index drops
  what is pending: the window of two seconds ends before some refresh.
* Upgrade: weak fairness of the cluster's steps only (FLO, kubelets). Commands may
  end anywhere and nobody has to start one.
* Agent: the Go scheduler runs every runnable goroutine; a cancelled context, a
  closed channel or a fired timer is eventually noticed; TCP eventually reports a
  broken connection; a *stalled write* is not owed an end unless the connection
  breaks, since there is no write deadline. Forge is owed nothing.

## 7. Proofs

`UnderlayProof`. Constants: any numbers of subnets (at least one public), ups,
strays and faults, any NAT outcomes. `NoNetworkLeft` is not inductive: whether
EC2 lets a VPC go depends on what is inside it, and whether the down has seen
every VPC depends on a listing made three steps earlier. The strengthening is

    IInv == TypeOK /\ Contained /\ InVpc /\ FirstSubnet /\ Covered /\ Clean

Contained and InVpc: all subnets, tables, attached gateways and NAT interfaces are
in a live VPC, because EC2 refuses to delete a VPC before them; FirstSubnet: the
NAT gateway's subnet is a real one; Covered: from phase 02's collection to its end
every live VPC is in `todo`, is the current one, or a listing failed (`blind`),
and no VPC is created, since only an up does that; Clean: a reported down is the
end of that argument. `InductiveInvariant`, `TypeCorrect` and
`SuccessfulDownIsClean` (the property `NoNetworkLeft`) are theorems of Spec.

`StateFileProof`. For any keys, values, inodes, edits and write errors, under the assumption
`Alone` (one command at a time; two overwrite each other's temp file): `SaveInvariant`, that the
temp file is never the inode readers see and, until a write fails, holds exactly the lines of the keys
already visited; `SaveIsAtomic`, Spec => AtomicSave, by step simulation: every
system call stutters in the register but the rename, which is its `Commit`, or its `Lose` once
the disk refused a line; and `ErrorsKeepTheFile` (the property ErrorKeepsFile), since no other
step than the rename changes what Load returns (`OnlyRename`).

`AddonsProof`. For any number of ups and faults. None of the three properties is
inductive alone, and they lean on each other:

    IInv == TypeOK /\ UpFacts /\ Trust /\ Orphans /\ DownFacts /\ Reports
            /\ UpBuilds /\ NlbHeld /\ DownClean

Trust: a role is made for the cluster there is, so one that a later up finds fits,
because (DownFacts) a cluster goes only after its role, or after a warning. Orphans
and DownFacts: from the uninstallation of the controller on, the kube-system Services
are gone or their loss is known, so what takes the controller apart takes nothing
from an NLB. UpFacts: what a step of up made stays until up ends; Reports: only an
idle program has reported. `UpLeavesAddons` (UpBuilds), `NlbsAreHeld` (NlbHeld) and
`DownLeavesNothing` (DownClean) are theorems of Spec.

`SuccessfulUpBuilds` (the property `UpBuilds` of the underlay) needs a second invariant,
`Building`, proved beside IInv: Built, that subnets, gateway, address and NAT gateway hold from
the phase that makes them to the last Save; Named, that a route table's id tells the run and the
visibility it was created for, so that the table found by its tag is the one an earlier step
meant; Routed, that a table passed by the loop has its route and the subnets of its kind.

`AgentProof`. For any number of runs, sessions, mints and faults, under `StallSpec` (a write may
stall, so nothing here leans on fairness). The invariant is

    IInv == TypeOK /\ Told /\ Fresh /\ Served /\ Begun /\ Alone /\ Entered /\ Held
            /\ RefusalsEnd /\ LostOnlyWithSession

Told counts the refusals of one token's life, which needs no goroutine. Fresh and Served: the
goroutines of session s exist only once it was opened, and while its socket is open it is
`w.conn`, its heartbeat and receiver run and neither has an error to tell, because whoever fails
closes the socket first: hence a write that fails has lost its session. Begun, Alone, Entered:
ids are not dispatched twice and a run's entry in the cancel table is removed by that run only,
so a cancel finds it as long as it lives (`CancelReaches`). Held: a stalled write that owns the
mutex belongs to a goroutine that is really writing. The theorems are `AgentInvariant`,
`RefusalsAreFew`, `CancelFindsRun` and `ReportsReach`.

`OverlayProof`. For any numbers of ups, faults and crash loops, and any limits of the polls.

    IInv == TypeOK /\ Deployed /\ Deletions /\ Progress /\ Scripts /\ Healing /\ Mended
            /\ Reported

The sequences `UpOrder`, `DownOrder` and `HealOrder` are first turned into tables (`UpTable`, ...),
since the provers compute no index of a literal sequence inside a larger goal. Progress and Mended say
of every point of a command what those before it have achieved: `PastX` are the points of up
after X, `AfterX` those of the heal table. They hold *unless* the namespaces or the CNEInstance
went away meanwhile, and Deletions counts what that takes: a `down` whose clean-up failed (one
fault) and that was then itself cut off (a second). The proof made this case precise: with two
faults an up or a heal may meet a CNEInstance, or namespaces, that go but still look well, and report success
over them (`Going`); with one the reports are unconditional. `OverlayActivates`
(UpActivates) and `OverlayHeals` (HealSettles) follow from Reported. `OverlayRefuses`, the
action property UpNotRefused, needs a second invariant, Tried: how often cwc looped is compared
with the pods phase 24 has deleted, and who took the CNEInstance away with the faults.

`ClusterProof`. For any numbers of ups, zones and faults.

    IInv == TypeOK /\ Control /\ Unique /\ RolesBuilt /\ EksBuilt /\ SgBuilt /\ UpBuilds
            /\ RolesGone /\ EksGone /\ SgGone /\ OidcKept /\ DownClean

The layout is: what each step leads to (`Flow`, `Arrivals`, `Onward`, and the same for down),
which few steps change each variable (`Frames`), what the account does by itself
(`OutsideKeeps`: nothing a running up relies on; `OutsideTakes`), then one lemma per conjunct. The Built
conjuncts say what an up holds from the step that made it (`FromX`), the Gone conjuncts what a down
has removed (`PastX`). Only three things must be kept across commands: that
launch templates and the data-path group exist once, since the code looks them up by name before it creates
them (Unique); that every OIDC provider state.env does not name has cost a fault, one each, a
statement about cardinalities (OidcKept); and what was reported. `SuccessfulUpBuildsTheCluster`
(UpBuilds), `SuccessfulDownCleans` (DownClean), `RefusalsAreNamed` (NotRefused, an action
property) and `ClusterTypes` are theorems of Spec.

`HostsProof`. For any numbers of ups and faults. The layout is that of the cluster; the
invariant is the longest of the project, since the hosts have the most that must agree:

    IInv == TypeOK /\ Control /\ Plain /\ Single /\ Records /\ Loaded /\ Paired
            /\ Attached /\ Held /\ Sight /\ Pair
            /\ TmmBuilt /\ JhBuilt /\ VeBuilt /\ GateBuilt /\ Boxed /\ UpBuilds
            /\ Jumphost /\ Endpoint /\ Opened /\ Rules /\ VeGone /\ JhGone /\ DownClean

Single and Records: of the kinds with a unique name or address there is one, and an id in
memory or in state.env is its own as long as it exists, which is why the unchecked reuse of an
id does no harm there. Attached, Held: a BIG-IP that exists is on its management interface, which EC2
does not take from it, and that keeps the group, so whoever finds any of the three finds all. Sight is the
price, in faults, of each point a `down` can reach past a BIG-IP that lives; from it follows Pair, that
the key pair, the PEM and the BIG-IP stay together, and with it KeyOpens. Boxed: the settings of phase 17f
are made in an order, so that the partition, which the probe looks for, has all but the password before
it. Jumphost, Endpoint, Opened, Rules hold while no fault has happened: between two commands the
jumphost is there with its interface and recorded, or there is none; likewise the endpoint and the rules.
VeGone and JhGone: what a `down` that was not misled has passed is gone. The theorems are
`SuccessfulUpBuildsTheHosts`, `ThePemOpensTheBigIP`, `SuccessfulDownCleans`, `RefusalsAreNamed` (an
action property) and `HostsTypes`. The proof found where the properties had to say more: with three
faults a `down` never sees a BIG-IP and takes the data interface from it, and no later up
asks a BIG-IP it finds for its interfaces; with a fourth the key pair goes and the BIG-IP stays
(`Unseen`, `Orphaned`; TLC finds both with two ups and that many faults). With the two of the run neither can hold.

`ForgeProof`. For any numbers of workspaces, commands and faults, and either catalogue.

    IInv == Base /\ Ours /\ Calm

Base: the shapes; the points each command passes through; and ownership: a cluster of the server bears the
name of the workspace that made it, the ids a workspace keeps (link, state.env, the running
command) are of clusters of its name and of a project it may use, and ids not yet given out are
nobody's. It is proved once for every step by showing that each is a `Turn`: what it adds to the
server is new and its own, and every id it keeps afterwards is its own or new. Ours speaks of a workspace with a project of
its own: there is at most one project, and `Own` says at each point of each command whether it is
there, linked, pending or an orphan of a lost answer, which is what lets the next `up` or `down` find
it by name. Calm speaks of shared projects while no fault has happened and the catalogue is full: no
command is then on a way back (`Fallbacks`), and the ways forward are `Gentle`, they
remove by an id or a name of their own. The theorems are `SuccessfulUpRegisters`
(UpRegisters), `SuccessfulDownForgets` (DownForgets), `OthersAreKept` (the action property
OthersKept) and `ForgeTypes`.

Proving found two expressions of the models without a value: a CASE whose guards
overlapped, in `Revoke` of ClusterDown and in `Healthy` of Heal. TLC takes the first guard that is true,
the language any of them; both are now written so that one guard holds.

Left to TLC: everything under fairness (the provers know neither ENABLED nor
liveness): `DownConverges`, `Ends`, the liveness of the agent, the trials and the upgrade; the
sets without a proof module (trials, benchmarks, upgrade), whose invariants are `AllGreen`,
`ResyncKeeps`, `OwnResult` and `Migrated`; anything about folds over lists, which would need
induction. Every invariant and every action property of the other eight sets is a theorem.

## 8. Findings and divergences

One run fails on purpose (`cluster_stuck`, an entry in PROJECT.json): *OIDC provider
without a record* (`phase18_irsa_oidc.go:346`). EntityAlreadyExists is an error, though the
comment says it is tolerated.

Seen while modelling, without a run of its own (most are hazards with a note; paths under
`internal/` unless they begin otherwise).

Underlay, cluster, hosts, add-ons, state file, agent:

* *Elastic IP behind a stale id* (`phase05_nat.go:143`): a down that ends between
  ReleaseAddress and Save, then an up that ends between AllocateAddress and Save; the
  next down trusts NAT_EIP_ALLOC, finds it gone, never asks the tags, and reports success,
  against docs/ARCHITECTURE.md:18 and the zero-leak teardown of README.md:25. `DownConverges`
  without `Calm` fails.
* *Save over a full disk* (`state.go:148`): write errors are dropped, so a truncated
  file is renamed over the good one, against the comment at :121.
* *Results that are never sent* (`agent_ws.go`, handleRunCommand): a run that ends while its
  session is lost is never reported, against the header (:14) and the help of the daemon.
* *Endpoint without its group* (`phase17b_jumphost.go:480`): found by tag, port 22 is never
  opened, against :45: phase 17f then fails in every up (`NotRefused` of HostsProps asks for a fault).
  A mgmt group whose rules were not made has the same effect (`phase17e_bigip_ve.go:526`).
* *A BIG-IP taken as it is* (`phase17e_bigip_ve.go`, `ensureBigIPInstance`): one found by tag or by its id is
  asked for neither its interfaces nor its key; after a `down` that went past it (three failed or
  lost lookups, four for the key) the next up reports success over a BIG-IP without a data interface,
  or stops in phase 17f in every run (`Unseen` and `Orphaned` of HostsProps).
* *Onboarding taken for finished* (`phase17f_bigip_onboard.go:268`): an up that ends after the
  partition and before the durable password leaves a box that passes the probe, so the last step is
  never made, though a partially onboarded box "falls through to the step sequence" (:170).
  `Onboarded` excuses the password there and nothing else.
* *A flag that outlives its box*: BIGIP_ONBOARDED is not among the keys `clearBigIPVEState` empties
  (`phase17e_bigip_ve.go:858`), against `phase17f_bigip_onboard.go:371`; after a down, or for a BIG-IP
  launched in the place of another, it says "true", and the demo `bigipcis` relies on it.
* *Down that cannot end* (`phase05_nat.go:117`): the same with NAT_GW_ID; the live
  gateway keeps the address, and the error return precedes the Save that would have
  cleared the key, so every further down times out on it.
* A process that dies inside Helm leaves a release that is neither listed nor
  installable (`phase14b_lb_controller.go:671`; phase 14 does the same): every up fails
  until a down, against "Steps (all idempotent)" (:130). `UpNotRefused` of the overlay
  names the case.
* A failed or disappearing EBS CSI add-on likewise refuses every up: it is waited
  for and never made anew (`phase11b_ebs_csi_hugepages.go:273`).
* NLBs of Services outside kube-system race the removal of their controller, and those
  of namespace default are never deleted (`down.go:231`, `down.go:236`).
* What the second call configures is not looked at again when a re-run finds the
  resource: DNS attributes of the VPC, public addresses of a subnet, the route of a
  private table, the self rule of the data-path group, the source/destination check
  of the TMM interface, the jumphost's second attachment.
* `down --keep-irsa` followed by an up with a new cluster keeps the provider of the
  old issuer; a provider is only ever found through state.env.
* A leftover eks-cluster-sg is not deletable while the data-path group's own rule
  names it: the VPC sweep takes it.
* A BIG-IP key pair is replaced when state.env does not name the instance, while the
  instance goes on with the old one.
* A stale jumphost id hides a newer jumphost from phase 17b down; subnet deletion
  then fails, and a second down finds it.
* Two commands share one temp-file name; the loser of two Saves loses its keys.
* `findVPCsByTag`'s error is dropped when state.env names a VPC: the one proviso of
  NoNetworkLeft.
* The size of an Auto Scaling group is read before DeleteNodegroup and not again.
* A WebSocket write has no deadline and holds the mutex the shutdown needs.


Overlay:

* Neither phase 25 nor `bnk heal` asks whether what it looks at has a deletionTimestamp: after a
  down that was cut off twice, an up or a heal may report success over a CNEInstance or
  namespaces that are about to go (`Going`), and an up may lose the CNEInstance while it waits for it.
* `CleanupBNKOverlayCRs` (`down.go:155`) deletes resources whose groups no phase applies.
* The ConfigMap of the dSSM scripts is patched before its pods are deleted (`heal.go:527`): a
  command that ends between the two is never made good. The same order in
  `k8s/tmmlogstream.go:74` and in the grant of `migrate/upgrade.go:643`.
* Phases 22, 23b and 25 accept conditions of an earlier generation; phase 08b is refused by an
  add-on that is updating; phase 12 takes a namespace that is terminating.
* `bnk heal -o json` exits 0 after failures; a starting pod counts as healthy in `fixPodManager`.

Trials, resync, watch:

* A failed Apply leaves AllPassed true (`scenarios/runner.go:108`, `scenario.go:66`): `run --all`
  exits 0 and says "all scenarios green".
* A resync that is cut off leaves the weight raised by one; the next one takes it for the
  declared weight. The watch drops what is pending at a refresh; it comes back because the new
  watch reports every slice there is (`WatchHeals`).
* The secrets of cwc are copied into a namespace that the first run has not made yet.

Registration:

* Phase 17b of down clears JUMPHOST_INSTANCE_ID (`phase17b_jumphost.go:1098`) before phase 09b
  (`cli/lifecycle.go:862`) uses it: agent and SSH credential stay in Forge.
* ListTargetsByClusterID (`forge/cleanup.go:52`) reads a bare array, target.go:297 an object with
  `targets`: one of the two fails (`Wrapped` chooses).
* The REST fallback purges a shared project that the MCP path preserves (`phase09:203`,
  `rest.go:168`); a rollback deletes a project by force that another workspace has begun to use.
  `OthersKept` is therefore about a full catalogue and answered calls.
* After an unregistration that failed softly the next up trusts the link (`phase09:49`).

Benchmarks and SageMaker:

* Keys of one front-end are reset, front-ends are not (`cli/benchmark.go:1600`): the second
  front-end of a shootout with --reset-cache starts on the cache of the first, against
  docs/BENCHMARKS.md:137. `ColdStart` speaks of the keys after the first.
* The artifact directory is one fixed name unless the run has a result id, as dispatched runs have
  (`jumphost/aiperf.go:503` says "unique"); a timeout ends the local ssh only, and the mooncake trace never empties its own:
  `OwnResult` says what still holds.
* A push whose answer was lost is pushed again; a failed redeploy leaves no endpoint.
* *Up over an endpoint that goes* (`phase_sagemaker.go:439`): the default branch takes one that is
  being deleted for one that is there. An up right after a down, or after a reset or recovery that ended
  behind DeleteEndpoint, reports success and the endpoint vanishes, against "creates or validates the
  named SageMaker endpoint" (:398). `UpServes` excuses exactly this (`out`).
* *Down under an endpoint that comes* (`phase_sagemaker.go:579`): AWS refuses to delete an endpoint
  that is being made with a ValidationException, which `isSageMakerNotFound` (:642) takes for gone. A down
  right after an up deletes role, model and configuration, reports success and leaves an endpoint that comes up
  and costs money, against the zero-leak teardown of README.md:25. `DownClean` excuses exactly this (`refused`).

Upgrade and migration:

* A failed Helm revision carries the target chart, so the next run skips the step
  (`migrate/upgrade.go:234`) and waits for CRDs that never come; a pending one is not listed.
* WaitForDeploymentReady (`k8s/wait.go:23`) does not look at the generation: the check of the pods
  may refuse a rollout that has not begun, and pods of a controller that was deleted to be rendered
  anew and are not yet collected.
* The patch of the CNEInstance replaces whole lists of environment entries: an edit made after
  they were read is lost, against docs "every other entry is kept".
* A policy made for `firewallEnforcedPolicy` and one of that name overwrite each other
  (`translate.go:679`); pools "namespace-name" may collide.
* A plan applied again never prunes (`migrate/apply.go:88`). When tenants change something between two
  runs, an EgressGateway of the first may go on naming settings in which the second has no egress, and
  settings pools that the new Infra no longer lists; without a VLAN the plan has settings that name pools
  and no Infra (`translate.go:798`). `RefsResolve` is therefore about clusters nobody has edited, and after
  an edit about what the running or a successful apply wrote.

## 9. What is not modelled, and why

Dry runs, printing, tag contents, AMI and instance-type choices, CIDR arithmetic:
no state depends on them. Paging and eventual consistency of AWS listings: the
code has no handling for it beyond its polls, and a listing that misses a fresh
resource is a dropped lookup in the hosts set. Two awsbnkctl commands at once: only
in the state-file module (its `Procs`), where the last Save wins, in the registration (two
workspaces) and in the benchmarks (two shells); the phases make no attempt at it. Components with status `not_modelled` in PROJECT.json give their
reason there: planned, pure functions, read-only probes, or wrappers of one call.
