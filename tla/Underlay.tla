------------------------------ MODULE Underlay ------------------------------
(***************************************************************************)
(* The network underlay of a cluster: phases 02 to 06 of `up`, their down   *)
(* counterparts, HydrateMissingStateFromAWS, and the state.env cache.       *)
(*                                                                          *)
(* One operator runs `awsbnkctl up` and `awsbnkctl down` one after the      *)
(* other, in any order, as often as the bounds allow.  A step is one call   *)
(* that changes AWS, or one Save, together with the reads that decide it.   *)
(* Between two steps the process may end (a crash, an expired token, a      *)
(* throttled call, a poll that times out): its memory is lost, state.env    *)
(* and what AWS already did stay.  Errors the code drops (a failed listing  *)
(* in hydrate or in a down phase, a best-effort sweep) let it go on with    *)
(* less than the truth.  `faults` counts both.                              *)
(***************************************************************************)
EXTENDS Ec2Network

CONSTANT MaxFaults        \* bound: injected faults
ASSUME FaultAssumption == MaxFaults \in Nat

VARIABLES
  disk,    \* .awsbnkctl/<cluster>/state.env
  mem,     \* the State of the running process
  pc,      \* where the running command is, "idle" when none runs
  done,    \* what the last command that ended reported: "up", "down" or "none"
  run,     \* number of the last `up`
  k,       \* loop index of phases 03 and 06
  todo,    \* resources a loop has still to visit
  cur,     \* the gateway or VPC a down phase is working on
  swept,   \* the sweep-and-retry of this phase was used
  blind,   \* phase 02 down went on although it could not list VPCs by tag
  faults

proc == <<disk, mem, pc, done, run, k, todo, cur, swept, blind, faults>>
vars == <<cloud, proc>>

StateEnv == [vpc : Ref, igw : Ref, eip : Ref, nat : Ref,
             subnet : [Specs -> Ref], rtb : [Visibility -> Ref]]

EmptyState == [vpc |-> None, igw |-> None, eip |-> None, nat |-> None,
               subnet |-> [s \in Specs |-> None], rtb |-> [v \in Visibility |-> None]]

UpPoints   == {"vpc", "vpcSupport", "vpcHostnames", "subnets", "subnetAttr", "igw",
               "igwAttach", "igwSave", "eip", "nat", "natWait", "rtb", "route", "assoc"}
DownPoints == {"hydrate", "rtbCollect", "rtbDown", "natDown", "natGone", "eipDown",
               "eipSave", "igwDown", "igwDetach", "igwDelete", "igwCleared", "dataDown",
               "subnetCollect", "subnetDown", "vpcCollect", "vpcSweep", "vpcDown",
               "vpcSave"}

ProcTypeOK ==
  /\ disk \in StateEnv /\ mem \in StateEnv
  /\ pc \in {"idle"} \cup UpPoints \cup DownPoints
  /\ done \in {"none", "up", "down"}
  /\ run \in Ref
  /\ k \in 1 .. (NPublic + NPrivate + NData + 2)
  /\ todo \subseteq (IF pc = "rtbDown" THEN RtbId
                     ELSE IF pc \in {"vpcSweep", "vpcDown", "vpcSave"} THEN Runs ELSE SubnetId)
  /\ cur \in Ref /\ swept \in BOOLEAN /\ blind \in BOOLEAN
  /\ faults \in 0 .. MaxFaults

\* Every variable has its type; what a loop has still to visit depends on the loop.
TypeOK == CloudTypeOK /\ ProcTypeOK

Init ==
  /\ CloudInit
  /\ disk = EmptyState /\ mem = EmptyState
  /\ pc = "idle" /\ done = "none" /\ run = 0 /\ k = 1
  /\ todo = {} /\ cur = None /\ swept = FALSE /\ blind = FALSE /\ faults = 0

-----------------------------------------------------------------------------
(* Control: going on, ending, and the faults.                               *)

Goto(l) == pc' = l /\ UNCHANGED <<done, run, blind, faults>>

\* The command returns: what it held in memory is gone.
End(outcome) ==
  /\ pc' = "idle" /\ done' = outcome
  /\ mem' = EmptyState /\ k' = 1 /\ todo' = {} /\ cur' = None /\ swept' = FALSE
  /\ UNCHANGED run

\* An error return of the code itself, for a call AWS refuses.
Fail == End("none") /\ UNCHANGED <<cloud, disk, blind, faults>>

\* The process ends at any point: crash, expired credentials, throttling, timeout.
Abort ==
  /\ pc # "idle" /\ faults < MaxFaults
  /\ faults' = faults + 1
  /\ End("none") /\ UNCHANGED <<cloud, disk, blind>>

\* A call whose error the code drops: it went well, or it costs one fault.
Dropped(ok) == IF ok THEN UNCHANGED faults
                     ELSE faults < MaxFaults /\ faults' = faults + 1

Set(key, id) == mem' = [mem EXCEPT ![key] = id]

Save == disk' = mem'

\* First of a listing whose order the code does not control; None when empty.
Found(S) == IF S = {} THEN {None} ELSE S

StartUp ==
  /\ pc = "idle" /\ run < MaxUps
  /\ run' = run + 1 /\ mem' = disk /\ pc' = "vpc" /\ done' = "none" /\ blind' = FALSE
  /\ UNCHANGED <<cloud, disk, k, todo, cur, swept, faults>>

StartDown ==
  /\ pc = "idle"
  /\ mem' = disk /\ pc' = "hydrate" /\ done' = "none" /\ blind' = FALSE
  /\ UNCHANGED <<cloud, disk, run, k, todo, cur, swept, faults>>

-----------------------------------------------------------------------------
(* Phase 02: the VPC.                                                       *)

VpcSkip ==
  /\ pc = "vpc"
  /\ \E v \in vpcs : Set("vpc", v)
  /\ Save /\ Goto("subnets")
  /\ UNCHANGED <<cloud, k, todo, cur, swept>>

VpcCreate ==
  /\ pc = "vpc" /\ vpcs = {}
  /\ vpcs' = {run} /\ Goto("vpcSupport")
  /\ UNCHANGED <<dns, subnets, mapped, igws, eips, nats, rtbs, strays, strayCount,
                 disk, mem, k, todo, cur, swept>>

\* ModifyVpcAttribute EnableDnsSupport: already on in a new VPC.
VpcEnableSupport ==
  /\ pc = "vpcSupport" /\ Goto("vpcHostnames")
  /\ UNCHANGED <<cloud, disk, mem, k, todo, cur, swept>>

VpcEnableHostnames ==
  /\ pc = "vpcHostnames"
  /\ dns' = dns \cup {run}
  /\ Set("vpc", run) /\ Save /\ Goto("subnets")
  /\ UNCHANGED <<vpcs, subnets, mapped, igws, eips, nats, rtbs, strays, strayCount,
                 k, todo, cur, swept>>

-----------------------------------------------------------------------------
(* Phase 03: public, private and data-path subnets in the order of the      *)
(* intent; state.env is written once, after the last.                       *)

SubnetAt(c) == {x \in subnets : x.id[2] = c /\ x.vpc = mem.vpc}   \* findSubnetByCIDR

SubnetSkip ==
  /\ pc = "subnets" /\ k \in Specs
  /\ \E x \in SubnetAt(k) : mem' = [mem EXCEPT !.subnet[k] = x.id[1]]
  /\ k' = k + 1 /\ Goto("subnets")
  /\ UNCHANGED <<cloud, disk, todo, cur, swept>>

SubnetCreate ==
  /\ pc = "subnets" /\ k \in Specs /\ SubnetAt(k) = {}
  /\ subnets' = subnets \cup {[id |-> <<run, k>>, vpc |-> mem.vpc]}
  /\ mem' = [mem EXCEPT !.subnet[k] = run]
  /\ IF k \in PublicSpecs THEN Goto("subnetAttr") /\ UNCHANGED k
                          ELSE Goto("subnets") /\ k' = k + 1
  /\ UNCHANGED <<vpcs, dns, mapped, igws, eips, nats, rtbs, strays, strayCount,
                 disk, todo, cur, swept>>

SubnetMapPublicIp ==
  /\ pc = "subnetAttr"
  /\ mapped' = mapped \cup {<<run, k>>}
  /\ k' = k + 1 /\ Goto("subnets")
  /\ UNCHANGED <<vpcs, dns, subnets, igws, eips, nats, rtbs, strays, strayCount,
                 disk, mem, todo, cur, swept>>

SubnetsSave ==
  /\ pc = "subnets" /\ k \notin Specs
  /\ disk' = mem /\ k' = 1 /\ Goto("igw")
  /\ UNCHANGED <<cloud, mem, todo, cur, swept>>

-----------------------------------------------------------------------------
(* Phase 04: the internet gateway.                                          *)

IgwEnsure ==
  /\ pc = "igw"
  /\ \/ \E g \in igws : Set("igw", g.id) /\ UNCHANGED igws
     \/ igws = {} /\ Set("igw", run) /\ igws' = {[id |-> run, vpc |-> None]}
  /\ Goto("igwAttach")
  /\ UNCHANGED <<vpcs, dns, subnets, mapped, eips, nats, rtbs, strays, strayCount,
                 disk, k, todo, cur, swept>>

IgwAttach ==
  /\ pc = "igwAttach"
  /\ \E g \in igws :
       /\ g.id = mem.igw /\ g.vpc \in {None, mem.vpc}
       /\ igws' = (igws \ {g}) \cup {[g EXCEPT !.vpc = mem.vpc]}
  /\ Goto("igwSave")
  /\ UNCHANGED <<vpcs, dns, subnets, mapped, eips, nats, rtbs, strays, strayCount,
                 disk, mem, k, todo, cur, swept>>

IgwSave ==
  /\ pc = "igwSave"
  /\ disk' = mem /\ Goto("eip")
  /\ UNCHANGED <<cloud, mem, k, todo, cur, swept>>

-----------------------------------------------------------------------------
(* Phase 05: the Elastic IP and the NAT gateway in the first public subnet. *)

Usable == {n \in nats : n.state \in {"pending", "available"}}      \* findNATByTag

EipEnsure ==
  /\ pc = "eip"
  /\ \/ \E e \in eips : Set("eip", e) /\ UNCHANGED eips
     \/ eips = {} /\ Set("eip", run) /\ eips' = {run}
  /\ Goto("nat")
  /\ UNCHANGED <<vpcs, dns, subnets, mapped, igws, nats, rtbs, strays, strayCount,
                 disk, k, todo, cur, swept>>

\* Found by tag, pending or available: used as it is, without waiting.
NatSkip ==
  /\ pc = "nat"
  /\ \E n \in Usable : Set("nat", n.id)
  /\ Save /\ Goto("rtb")
  /\ UNCHANGED <<cloud, k, todo, cur, swept>>

NatCreate ==
  /\ pc = "nat" /\ Usable = {} /\ mem.eip \notin HeldEips
  /\ nats' = nats \cup {[id |-> run, subnet |-> <<mem.subnet[1], 1>>, eip |-> mem.eip,
                         state |-> "pending", holds |-> TRUE]}
  /\ Goto("natWait")
  /\ UNCHANGED <<vpcs, dns, subnets, mapped, igws, eips, rtbs, strays, strayCount,
                 disk, mem, k, todo, cur, swept>>

\* The address is still associated with a gateway that is going away.
NatRejected == pc = "nat" /\ Usable = {} /\ mem.eip \in HeldEips /\ Fail

NatReady ==
  /\ pc = "natWait"
  /\ \E n \in nats : n.id = run /\ n.state = "available"
  /\ Set("nat", run) /\ Save /\ Goto("rtb")
  /\ UNCHANGED <<cloud, k, todo, cur, swept>>

NatBroken ==
  /\ pc = "natWait"
  /\ \A n \in nats : n.id = run => n.state = "failed"
  /\ Fail

-----------------------------------------------------------------------------
(* Phase 06: the public (k = 1) and the private (k = 2) route table.        *)

Vis == IF k = 1 THEN "public" ELSE "private"
MemSubnets(S) == {<<mem.subnet[c], c>> : c \in {d \in S : mem.subnet[d] # None}}

RtbEnsure ==
  /\ pc = "rtb"
  /\ LET found == {r \in TablesOf(mem.vpc) : r.id[2] = Vis}
     IN \/ \E r \in found : mem' = [mem EXCEPT !.rtb[Vis] = r.id[1]] /\ UNCHANGED rtbs
        \/ /\ found = {} /\ mem' = [mem EXCEPT !.rtb[Vis] = run]
           /\ rtbs' = rtbs \cup {[id |-> <<run, Vis>>, vpc |-> mem.vpc,
                                  route |-> None, assoc |-> {}]}
  /\ Goto("route")
  /\ UNCHANGED <<vpcs, dns, subnets, mapped, igws, eips, nats, strays, strayCount,
                 disk, k, todo, cur, swept>>

\* Mutant: leaves the data-path subnets on the main table.
TableSubnetsBug == MemSubnets(IF Vis = "public" THEN PublicSpecs ELSE PrivateSpecs)

\* The subnets the table at hand gets.
TableSubnets == MemSubnets(IF Vis = "public" THEN PublicSpecs ELSE PrivateSpecs \cup DataSpecs)

\* CreateRoute 0.0.0.0/0; RouteAlreadyExists is swallowed, so a route that is
\* there stays, whatever it points at.
RouteEnsure ==
  /\ pc = "route"
  /\ \E r \in rtbs :
       /\ r.id = <<mem.rtb[Vis], Vis>>
       /\ rtbs' = IF r.route # None THEN rtbs
                  ELSE (rtbs \ {r}) \cup
                       {[r EXCEPT !.route = IF Vis = "public" THEN mem.igw ELSE mem.nat]}
  /\ todo' = TableSubnets
  /\ Goto("assoc")
  /\ UNCHANGED <<vpcs, dns, subnets, mapped, igws, eips, nats, strays, strayCount,
                 disk, mem, k, cur, swept>>

\* A subnet is in one route table: AssociateRouteTable is refused otherwise.
AssocEnsure ==
  /\ pc = "assoc"
  /\ \E s \in todo, r \in rtbs :
       /\ r.id = <<mem.rtb[Vis], Vis>>
       /\ \A t \in rtbs : s \in t.assoc => t = r
       /\ rtbs' = (rtbs \ {r}) \cup {[r EXCEPT !.assoc = @ \cup {s}]}
       /\ todo' = todo \ {s}
  /\ Goto("assoc")
  /\ UNCHANGED <<vpcs, dns, subnets, mapped, igws, eips, nats, strays, strayCount,
                 disk, mem, k, cur, swept>>

PublicRtbDone ==
  /\ pc = "assoc" /\ todo = {} /\ Vis = "public"
  /\ k' = 2 /\ Goto("rtb")
  /\ UNCHANGED <<cloud, disk, mem, todo, cur, swept>>

UpDone ==
  /\ pc = "assoc" /\ todo = {} /\ Vis = "private"
  /\ disk' = mem /\ End("up") /\ UNCHANGED <<cloud, blind, faults>>

UpStep ==
  \/ VpcSkip \/ VpcCreate \/ VpcEnableSupport \/ VpcEnableHostnames
  \/ SubnetSkip \/ SubnetCreate \/ SubnetMapPublicIp \/ SubnetsSave
  \/ IgwEnsure \/ IgwAttach \/ IgwSave
  \/ EipEnsure \/ NatSkip \/ NatCreate \/ NatRejected \/ NatReady \/ NatBroken
  \/ RtbEnsure \/ RouteEnsure \/ AssocEnsure \/ PublicRtbDone \/ UpDone
=============================================================================
