---------------------------- MODULE UnderlayDown ----------------------------
(***************************************************************************)
(* `awsbnkctl down` over the network underlay: HydrateMissingStateFromAWS,  *)
(* then phases 06, 05, 04, 03 and 02 in that order, and the specification   *)
(* of the whole: ups and downs, EC2's own steps, and the faults.            *)
(***************************************************************************)
EXTENDS Underlay

-----------------------------------------------------------------------------
(* Hydrate: fill the empty keys of state.env from the tags.  Every error is *)
(* dropped, that of the final Save too.                                     *)

\* PUBLIC_SUBNETS and PRIVATE_SUBNETS list their kind; a data-path key names one.
KeyOf(c) == CASE c \in PublicSpecs -> PublicSpecs
              [] c \in PrivateSpecs -> PrivateSpecs
              [] OTHER -> {c}

Discovered(v) ==
  [c \in Specs |->
     LET S == {x \in subnets : x.id[2] = c /\ (v # None => x.vpc = v)}
     IN IF S = {} \/ \E d \in KeyOf(c) : mem.subnet[d] # None
        THEN mem.subnet[c] ELSE (CHOOSE x \in S : TRUE).id[1]]

Hydrate ==
  /\ pc = "hydrate"
  /\ \E failed \in SUBSET {"vpc", "subnets", "igw", "nat", "save"} :
       /\ Dropped(failed = {})
       /\ \E v \in IF mem.vpc = None /\ "vpc" \notin failed THEN Found(vpcs) ELSE {mem.vpc},
             g \in IF mem.igw = None /\ "igw" \notin failed
                   THEN Found({x.id : x \in igws}) ELSE {mem.igw},
             n \in IF mem.nat = None /\ "nat" \notin failed
                   THEN Found({x.id : x \in {y \in nats : y.state # "deleted"}})
                   ELSE {mem.nat} :
            mem' = [mem EXCEPT !.vpc = v, !.igw = g, !.nat = n,
                      !.eip = IF mem.nat = None /\ @ = None /\ n # None
                              THEN (CHOOSE x \in nats : x.id = n).eip ELSE @,
                      !.subnet = IF "subnets" \in failed THEN @ ELSE Discovered(v)]
       /\ disk' = IF "save" \in failed THEN disk ELSE mem'
  /\ pc' = "rtbCollect"
  /\ UNCHANGED <<cloud, done, run, blind, k, todo, cur, swept>>

-----------------------------------------------------------------------------
(* Phase 06 down: every route table of state.env and of the listing, whose  *)
(* error is dropped.                                                        *)

RtbCollect ==
  /\ pc = "rtbCollect"
  /\ \E ok \in BOOLEAN :
       /\ Dropped(ok)
       /\ todo' = {<<mem.rtb[v], v>> : v \in {w \in Visibility : mem.rtb[w] # None}}
                  \cup (IF ok THEN {r.id : r \in {t \in rtbs : mem.vpc # None => t.vpc = mem.vpc}}
                              ELSE {})
  /\ pc' = "rtbDown"
  /\ UNCHANGED <<cloud, disk, mem, done, run, blind, k, cur, swept>>

RtbDisassociate ==
  /\ pc = "rtbDown"
  /\ \E r \in rtbs :
       /\ r.id \in todo /\ r.assoc # {}
       /\ rtbs' = (rtbs \ {r}) \cup {[r EXCEPT !.assoc = {}]}
  /\ Goto("rtbDown")
  /\ UNCHANGED <<vpcs, dns, subnets, mapped, igws, eips, nats, strays, strayCount,
                 disk, mem, k, todo, cur, swept>>

RtbDelete ==
  /\ pc = "rtbDown"
  /\ \E i \in todo :
       /\ \A r \in rtbs : r.id = i => r.assoc = {}
       /\ rtbs' = {r \in rtbs : r.id # i}
       /\ todo' = todo \ {i}
  /\ Goto("rtbDown")
  /\ UNCHANGED <<vpcs, dns, subnets, mapped, igws, eips, nats, strays, strayCount,
                 disk, mem, k, cur, swept>>

RtbsSave ==
  /\ pc = "rtbDown" /\ todo = {}
  /\ Set("rtb", EmptyState.rtb) /\ Save /\ Goto("natDown")
  /\ UNCHANGED <<cloud, k, todo, cur, swept>>

-----------------------------------------------------------------------------
(* Phase 05 down: the NAT gateway of state.env, or else the tagged one; then *)
(* likewise the Elastic IP, once nothing holds it.  One Save, at the end.    *)

\* Mutant: a state EC2 has for instances, not for NAT gateways.
NatDeleteBug ==
  /\ pc = "natDown"
  /\ \E i \in IF mem.nat # None THEN {mem.nat} ELSE Found({n.id : n \in Usable}) :
       /\ Set("nat", i)
       /\ nats' = {IF n.id = i THEN [n EXCEPT !.state = "shutting-down"] ELSE n : n \in nats}
  /\ Goto("natGone")
  /\ UNCHANGED <<vpcs, dns, subnets, mapped, igws, eips, rtbs, strays, strayCount,
                 disk, k, todo, cur, swept>>

NatDelete ==
  /\ pc = "natDown"
  /\ \E i \in IF mem.nat # None THEN {mem.nat} ELSE Found({n.id : n \in Usable}) :
       /\ Set("nat", i)
       /\ nats' = {IF n.id = i /\ n.state # "deleted" THEN [n EXCEPT !.state = "deleting"]
                   ELSE n : n \in nats}
  /\ Goto("natGone")
  /\ UNCHANGED <<vpcs, dns, subnets, mapped, igws, eips, rtbs, strays, strayCount,
                 disk, k, todo, cur, swept>>

\* Mutant: waits for the state "deleted" and takes NotFound for "not yet".
NatGoneBug ==
  /\ pc = "natGone"
  /\ \E n \in nats : n.id = mem.nat /\ n.state = "deleted"
  /\ Set("nat", None) /\ Goto("eipDown")
  /\ UNCHANGED <<cloud, disk, k, todo, cur, swept>>

\* waitNATDeleted: deleted, or not known to EC2 any more.
NatGone ==
  /\ pc = "natGone"
  /\ \A n \in nats : n.id = mem.nat => n.state = "deleted"
  /\ Set("nat", None) /\ Goto("eipDown")
  /\ UNCHANGED <<cloud, disk, k, todo, cur, swept>>

EipTarget == IF mem.eip # None THEN {mem.eip} ELSE Found(eips)

EipRelease ==
  /\ pc = "eipDown"
  /\ \E e \in EipTarget : e \notin HeldEips /\ eips' = eips \ {e}
  /\ Set("eip", None) /\ Goto("eipSave")
  /\ UNCHANGED <<vpcs, dns, subnets, mapped, igws, nats, rtbs, strays, strayCount,
                 disk, k, todo, cur, swept>>

\* waitEIPUnassociated runs into its timeout: a gateway nobody deletes holds it.
EipStuck ==
  /\ pc = "eipDown"
  /\ \E e \in EipTarget : \E n \in Usable : n.eip = e
  /\ Fail

EipSave ==
  /\ pc = "eipSave"
  /\ disk' = mem /\ Goto("igwDown")
  /\ UNCHANGED <<cloud, mem, k, todo, cur, swept>>

-----------------------------------------------------------------------------
(* Instances and interfaces of others in a VPC, terminated best effort.     *)

SweepStrays(v) ==
  \E left \in SUBSET StraysOf(v) :
    /\ Dropped(left = {})
    /\ strays' = (strays \ StraysOf(v)) \cup left

OnlyStrays == UNCHANGED <<vpcs, dns, subnets, mapped, igws, eips, nats, rtbs, strayCount>>

(* Phase 04 down: detach, sweep and retry once, then leave it to phase 02.  *)

IgwFind ==
  /\ pc = "igwDown"
  /\ \E g \in IF mem.igw # None THEN {mem.igw} ELSE Found({x.id : x \in igws}) :
       cur' = g /\ Goto(IF g = None THEN "dataDown" ELSE "igwDetach")
  /\ UNCHANGED <<cloud, disk, mem, k, todo, swept>>

DetachFrom == IF mem.vpc # None THEN {mem.vpc}
              ELSE {g.vpc : g \in {x \in igws : x.id = cur}}
Attached   == {g \in igws : g.id = cur /\ g.vpc # None /\ g.vpc \in DetachFrom}
Pinned     == \E g \in Attached : PublicAddresses(g.vpc)

\* Gateway.NotAttached and NotFound are swallowed.
IgwDetach ==
  /\ pc = "igwDetach" /\ ~Pinned
  /\ igws' = (igws \ Attached) \cup {[g EXCEPT !.vpc = None] : g \in Attached}
  /\ swept' = FALSE /\ Goto("igwDelete")
  /\ UNCHANGED <<vpcs, dns, subnets, mapped, eips, nats, rtbs, strays, strayCount,
                 disk, mem, k, todo, cur>>

IgwSweep ==
  /\ pc = "igwDetach" /\ Pinned /\ ~swept
  /\ \E v \in DetachFrom : SweepStrays(v)
  /\ swept' = TRUE
  /\ OnlyStrays /\ UNCHANGED <<disk, mem, pc, done, run, blind, k, todo, cur>>

\* "deferring to phase 02 vpc sweep": returns nil, IGW_ID stays in state.env.
IgwDefer ==
  /\ \/ pc = "igwDetach" /\ Pinned /\ swept
     \/ pc = "igwDelete" /\ \E g \in igws : g.id = cur /\ g.vpc # None
  /\ swept' = FALSE /\ cur' = None /\ Goto("dataDown")
  /\ UNCHANGED <<cloud, disk, mem, k, todo>>

IgwDelete ==
  /\ pc = "igwDelete"
  /\ \A g \in igws : g.id = cur => g.vpc = None
  /\ igws' = {g \in igws : g.id # cur}
  /\ cur' = None /\ Goto("igwCleared")
  /\ UNCHANGED <<vpcs, dns, subnets, mapped, eips, nats, rtbs, strays, strayCount,
                 disk, mem, k, todo, swept>>

IgwCleared ==
  /\ pc = "igwCleared"
  /\ Set("igw", None) /\ Save /\ Goto("dataDown")
  /\ UNCHANGED <<cloud, k, todo, cur, swept>>

-----------------------------------------------------------------------------
(* Phase 03 down: the data-path subnets of state.env, last key first, then   *)
(* every subnet that state.env, the tags or the VPC name.                    *)

DeleteSubnet(s) ==
  /\ ~Occupied(s)
  /\ subnets' = WithoutSubnets({s}) /\ rtbs' = TablesWithout({s}) /\ mapped' = mapped \ {s}
  /\ UNCHANGED <<vpcs, dns, igws, eips, nats, strays, strayCount>>

DataKeys == {d \in DataSpecs : mem.subnet[d] # None}
NextData == {<<mem.subnet[d], d>> : d \in {e \in DataKeys : \A f \in DataKeys : f <= e}}

DataSubnetDelete ==
  /\ pc = "dataDown"
  /\ \E s \in NextData : DeleteSubnet(s) /\ mem' = [mem EXCEPT !.subnet[s[2]] = None]
  /\ Goto("dataDown")
  /\ UNCHANGED <<disk, k, todo, cur, swept>>

SubnetCollect ==
  /\ pc = "dataDown" /\ DataKeys = {}
  /\ \E failed \in SUBSET {"tag", "vpc"} :
       /\ Dropped(failed = {})
       /\ todo' = MemSubnets(PublicSpecs \cup PrivateSpecs)
                  \cup (IF "tag" \in failed THEN {} ELSE {x.id : x \in subnets})
                  \cup (IF "vpc" \in failed THEN {} ELSE SubnetsOf(mem.vpc))
  /\ pc' = "subnetDown"
  /\ UNCHANGED <<cloud, disk, mem, done, run, blind, k, cur, swept>>

SubnetDelete ==
  /\ pc = "subnetDown"
  /\ \E s \in todo : DeleteSubnet(s) /\ todo' = todo \ {s}
  /\ Goto("subnetDown")
  /\ UNCHANGED <<disk, mem, k, cur, swept>>

RefusedSubnets == {s \in IF pc = "dataDown" THEN NextData ELSE todo : Occupied(s)}

\* The first DependencyViolation of the phase sweeps the VPC and tries again.
SubnetSweep ==
  /\ pc \in {"dataDown", "subnetDown"} /\ ~swept /\ RefusedSubnets # {}
  /\ SweepStrays(mem.vpc)
  /\ swept' = TRUE
  /\ OnlyStrays /\ UNCHANGED <<disk, mem, pc, done, run, blind, k, todo, cur>>

SubnetRefused ==
  pc \in {"dataDown", "subnetDown"} /\ swept /\ RefusedSubnets # {} /\ Fail

SubnetsCleared ==
  /\ pc = "subnetDown" /\ todo = {}
  /\ Set("subnet", EmptyState.subnet) /\ Save
  /\ swept' = FALSE /\ Goto("vpcCollect")
  /\ UNCHANGED <<cloud, k, todo, cur>>

-----------------------------------------------------------------------------
(* Phase 02 down: the VPC of state.env and every tagged one, each swept,     *)
(* then deleted.  A failed listing is fatal only without a VPC_ID.           *)

\* Mutant: the tags are asked only when state.env has no VPC_ID.
VpcCollectBug ==
  /\ pc = "vpcCollect"
  /\ \E ok \in BOOLEAN :
       /\ Dropped(ok) /\ blind' = ~ok
       /\ ok \/ mem.vpc # None
       /\ todo' = IF mem.vpc # None THEN {mem.vpc} ELSE vpcs
  /\ todo' # {} /\ pc' = "vpcSweep"
  /\ UNCHANGED <<cloud, disk, mem, done, run, k, cur, swept>>

VpcCollect ==
  /\ pc = "vpcCollect"
  /\ \E ok \in BOOLEAN :
       /\ Dropped(ok) /\ blind' = ~ok
       /\ ok \/ mem.vpc # None
       /\ todo' = ({mem.vpc} \ {None}) \cup (IF ok THEN vpcs ELSE {})
  /\ todo' # {} /\ pc' = "vpcSweep"
  /\ UNCHANGED <<cloud, disk, mem, done, run, k, cur, swept>>

VpcAlreadyGone ==
  /\ pc = "vpcCollect" /\ mem.vpc = None /\ vpcs = {}
  /\ End("down") /\ UNCHANGED <<cloud, disk, blind, faults>>

\* sweepVPCResiduals: each listing or call may fail unnoticed.
VpcSweep ==
  /\ pc = "vpcSweep"
  /\ \E v \in todo, failed \in SUBSET {"instances", "subnets", "tables", "gateways"} :
       LET left  == IF "instances" \in failed THEN StraysOf(v) ELSE {}
           busy  == left \cup {s \in SubnetsOf(v) : \E n \in nats : n.subnet = s /\ n.holds}
           freed == IF "subnets" \in failed THEN {} ELSE SubnetsOf(v) \ busy
       IN /\ Dropped(failed = {})
          /\ cur' = v
          /\ strays' = (strays \ StraysOf(v)) \cup left
          /\ subnets' = WithoutSubnets(freed) /\ mapped' = mapped \ freed
          /\ rtbs' = {r \in TablesWithout(freed) : r.vpc = v => "tables" \in failed}
          /\ igws' = {g \in igws : g.vpc = v => "gateways" \in failed \/ busy # {}}
  /\ pc' = "vpcDown"
  /\ UNCHANGED <<vpcs, dns, eips, nats, strayCount, disk, mem, done, run, blind, k, todo, swept>>

VpcDelete ==
  /\ pc = "vpcDown" /\ VpcEmpty(cur)
  /\ vpcs' = vpcs \ {cur} /\ dns' = dns \ {cur}
  /\ todo' = todo \ {cur} /\ cur' = None
  /\ Goto(IF todo' = {} THEN "vpcSave" ELSE "vpcSweep")
  /\ UNCHANGED <<subnets, mapped, igws, eips, nats, rtbs, strays, strayCount,
                 disk, mem, k, swept>>

VpcRefused == pc = "vpcDown" /\ ~VpcEmpty(cur) /\ Fail

DownDone ==
  /\ pc = "vpcSave"
  /\ disk' = [mem EXCEPT !.vpc = None] /\ End("down") /\ UNCHANGED <<cloud, blind, faults>>

DownStep ==
  \/ Hydrate \/ RtbCollect \/ RtbDisassociate \/ RtbDelete \/ RtbsSave
  \/ NatDelete \/ NatGone \/ EipRelease \/ EipStuck \/ EipSave
  \/ IgwFind \/ IgwDetach \/ IgwSweep \/ IgwDefer \/ IgwDelete \/ IgwCleared
  \/ DataSubnetDelete \/ SubnetCollect \/ SubnetDelete \/ SubnetSweep
  \/ SubnetRefused \/ SubnetsCleared
  \/ VpcCollect \/ VpcAlreadyGone \/ VpcSweep \/ VpcDelete \/ VpcRefused \/ DownDone

-----------------------------------------------------------------------------
Next ==
  \/ StartUp \/ StartDown \/ UpStep \/ DownStep \/ Abort
  \/ CloudStep /\ UNCHANGED proc

Spec == Init /\ [][Next]_vars
=============================================================================
