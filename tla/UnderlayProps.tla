---------------------------- MODULE UnderlayProps ----------------------------
(***************************************************************************)
(* What the network underlay promises, over the specification of            *)
(* UnderlayDown.  The instances are in the MCUnderlay*.cfg files.           *)
(***************************************************************************)
EXTENDS UnderlayDown

\* A `down` that reports success has left no VPC and nothing inside one: no
\* subnet, route table, attached gateway or NAT interface, whatever was lost or
\* interrupted before.  The one proviso is the listing error that
\* Phase02VPCDown drops when state.env names a VPC.
NoNetworkLeft ==
  done = "down" /\ ~blind =>
    /\ vpcs = {} /\ subnets = {} /\ rtbs = {}
    /\ \A g \in igws : g.vpc = None
    /\ \A n \in nats : ~n.holds

\* After an `up` that reports success state.env names live resources of one
\* network: every subnet in the VPC, the gateway attached to it, and both route
\* tables with a default route and all the subnets phase 06 gives them.
UpBuilds ==
  done = "up" =>
    /\ disk.vpc \in vpcs
    /\ \A c \in Specs : [id |-> <<disk.subnet[c], c>>, vpc |-> disk.vpc] \in subnets
    /\ [id |-> disk.igw, vpc |-> disk.vpc] \in igws
    /\ disk.eip \in eips
    /\ \A v \in Visibility : \E r \in TablesOf(disk.vpc) :
         /\ r.id = <<disk.rtb[v], v>> /\ r.route # None
         /\ \A c \in Specs : (c \in PublicSpecs) = (v = "public")
                               => <<disk.subnet[c], c>> \in r.assoc

-----------------------------------------------------------------------------
\* The process runs on, EC2 completes what it was asked for, and an operator
\* whose `down` failed runs it again.  Nothing obliges anyone to run `up`.
Fairness ==
  /\ WF_vars(UpStep) /\ WF_vars(DownStep) /\ WF_vars(StartDown)
  /\ WF_vars((NatSettles \/ NatDeleted \/ NatDetaches) /\ UNCHANGED proc)

FairSpec == Spec /\ Fairness

\* At most one call failed or was interrupted, and no gateway came up failed.
Calm == faults <= 1 /\ \A n \in nats : n.state # "failed"

\* `down` is safe to re-run (examples/full-cluster/README.md): run often enough,
\* it gets to the end, and one that reports success has left nothing it would find
\* by tag, no address and no gateway either: README.md calls the teardown of the VPC
\* underlay zero-leak.
DownConverges ==
  []Calm => /\ []<>(done = "down")
            /\ [](done = "down" => vpcs = {} /\ igws = {} /\ eips = {})
=============================================================================
