----------------------------- MODULE Ec2Network -----------------------------
(***************************************************************************)
(* The part of Amazon EC2 the network phases drive: VPCs, subnets, internet *)
(* gateways, Elastic IPs, NAT gateways and route tables.  EC2 is not code   *)
(* of the repository; what is written here is what phases 02 to 06 rely on  *)
(* when they call it: which calls EC2 rejects with DependencyViolation, and *)
(* the NAT gateway's life, which goes on between two calls.                 *)
(*                                                                          *)
(* Everything the phases create carries the awsbnkctl:cluster tag from the  *)
(* creating call on, so a listing by tag returns every live resource.       *)
(* A resource is named after the number of the `up` that created it: one    *)
(* `up` creates at most one VPC, one gateway of each kind, one subnet per   *)
(* SubnetSpec and one route table per visibility.                           *)
(***************************************************************************)
EXTENDS Naturals, FiniteSets

CONSTANTS NPublic, NPrivate, NData,   \* subnets of each kind in cluster.yaml
          MaxUps,                     \* bound: runs of `up`
          MaxStrays,                  \* bound: helper instances started by others
          NatOutcomes                 \* what a new NAT gateway may settle in

ASSUME SpecAssumption ==
  /\ NPublic \in Nat \ {0} /\ NPrivate \in Nat /\ NData \in Nat
  /\ MaxUps \in Nat /\ MaxStrays \in Nat
  /\ NatOutcomes \subseteq {"available", "failed"}

PublicSpecs  == 1 .. NPublic
PrivateSpecs == (NPublic + 1) .. (NPublic + NPrivate)
DataSpecs    == (NPublic + NPrivate + 1) .. (NPublic + NPrivate + NData)
Specs        == 1 .. (NPublic + NPrivate + NData)

Runs       == 1 .. MaxUps
None       == 0                       \* no such resource, an empty state key
Ref        == Runs \cup {None}
Visibility == {"public", "private"}
SubnetId   == Runs \X Specs
RtbId      == Runs \X Visibility

VARIABLES
  vpcs,      \* live VPCs
  dns,       \* VPCs whose DNS hostnames are enabled (off in a new VPC)
  subnets,   \* live subnets: id and VPC
  mapped,    \* subnets that give instances a public address (off in a new one)
  igws,      \* live internet gateways: id and VPC, None when detached
  eips,      \* allocated Elastic IPs
  nats,      \* NAT gateways EC2 still reports
  rtbs,      \* live route tables other than the VPC's main one
  strays,    \* subnets with an instance or interface started by someone else
  strayCount \* bound: how many were started so far

cloud == <<vpcs, dns, subnets, mapped, igws, eips, nats, rtbs, strays, strayCount>>

NatState == {"pending", "available", "failed", "deleting", "deleted"}
Subnet == [id : SubnetId, vpc : Runs]
Igw    == [id : Runs, vpc : Ref]
Nat_   == [id : Runs, subnet : SubnetId, eip : Runs, state : NatState, holds : BOOLEAN]
Rtb    == [id : RtbId, vpc : Runs, route : Ref, assoc : SUBSET SubnetId]

CloudTypeOK ==
  /\ vpcs \subseteq Runs /\ dns \subseteq Runs
  /\ subnets \subseteq Subnet /\ mapped \subseteq SubnetId
  /\ igws \subseteq Igw /\ eips \subseteq Runs
  /\ nats \subseteq Nat_ /\ rtbs \subseteq Rtb
  /\ strays \subseteq SubnetId /\ strayCount \in 0 .. MaxStrays

CloudInit ==
  /\ vpcs = {} /\ dns = {} /\ subnets = {} /\ mapped = {} /\ igws = {}
  /\ eips = {} /\ nats = {} /\ rtbs = {} /\ strays = {} /\ strayCount = 0

-----------------------------------------------------------------------------
Live(s)        == \E x \in subnets : x.id = s
SubnetsOf(v)   == {x.id : x \in {y \in subnets : y.vpc = v}}
Occupied(s)    == s \in strays \/ \E n \in nats : n.subnet = s /\ n.holds
StraysOf(v)    == strays \cap SubnetsOf(v)
AttachedTo(v)  == {g \in igws : g.vpc = v}
TablesOf(v)    == {r \in rtbs : r.vpc = v}
HeldEips       == {n.eip : n \in {m \in nats : m.holds}}

\* DetachInternetGateway is refused while public addresses are mapped in the VPC.
PublicAddresses(v) == \E s \in SubnetsOf(v) : Occupied(s)

\* DeleteVpc is refused while anything but the main route table is left in it.
VpcEmpty(v) == SubnetsOf(v) = {} /\ AttachedTo(v) = {} /\ TablesOf(v) = {}

WithoutSubnets(S) == {x \in subnets : x.id \notin S}
TablesWithout(S)  == {[r EXCEPT !.assoc = @ \ S] : r \in rtbs}

-----------------------------------------------------------------------------
SetNat(n, m) == nats' = (nats \ {n}) \cup {m}

OnlyNats == UNCHANGED <<vpcs, dns, subnets, mapped, igws, eips, rtbs, strays, strayCount>>

\* A new NAT gateway becomes available or fails.
NatSettles ==
  \E n \in nats, s \in NatOutcomes :
    n.state = "pending" /\ SetNat(n, [n EXCEPT !.state = s]) /\ OnlyNats

\* The deletion asked for completes.
NatDeleted ==
  \E n \in nats : n.state = "deleting" /\ SetNat(n, [n EXCEPT !.state = "deleted"]) /\ OnlyNats

\* The interface of a deleted or failed gateway detaches later; only then is
\* the Elastic IP unassociated and the subnet free.
NatDetaches ==
  \E n \in nats :
    /\ n.state \in {"deleted", "failed"} /\ n.holds
    /\ SetNat(n, [n EXCEPT !.holds = FALSE])
    /\ OnlyNats

\* EC2 stops reporting a gateway that is gone.
NatForgotten ==
  \E n \in nats :
    n.state \in {"deleted", "failed"} /\ ~n.holds /\ nats' = nats \ {n} /\ OnlyNats

\* A demo script starts a helper instance in a live subnet.
StrayAppears ==
  /\ strayCount < MaxStrays
  /\ \E x \in subnets : strays' = strays \cup {x.id} /\ x.id \notin strays
  /\ strayCount' = strayCount + 1
  /\ UNCHANGED <<vpcs, dns, subnets, mapped, igws, eips, nats, rtbs>>

CloudStep == NatSettles \/ NatDeleted \/ NatDetaches \/ NatForgotten \/ StrayAppears
=============================================================================
