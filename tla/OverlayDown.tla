---------------------------- MODULE OverlayDown ----------------------------
(***************************************************************************)
(* `awsbnkctl down` over the overlay: what the pre-destroy clean-up and the *)
(* down half of each phase delete, in their order.  Nothing here returns an *)
(* error: a call that fails is a warning, and the down goes on.             *)
(***************************************************************************)
EXTENDS Overlay

StartDown ==
  /\ At("idle") /\ pc' = "client" /\ done' = "none" /\ hurt' = FALSE
  /\ UNCHANGED <<world, run, tries, intent, repairs, faults>>

\* Without a client every step before the end of the cluster is passed over.
Client ==
  /\ At("client")
  /\ \/ cluster /\ Passes("client")
     \/ ~cluster /\ To("cluster down") /\ NoFault /\ UNCHANGED world
     \/ cluster /\ To("cluster down") /\ Fault /\ UNCHANGED world

\* CleanupBNKOverlayCRs: each CNEInstance is deleted, then its finalizers are taken
\* off; FLO's workloads, which it owns, go with it.  Both errors are dropped.
CleanupBNKOverlayCRs ==
  /\ At("crs") /\ Advance("crs")
  /\ \/ /\ cne' = "none" /\ pods' = NoPods /\ NoFault
     \/ /\ cne # "none" /\ cne' \in {cne, "going"} /\ UNCHANGED pods /\ Fault
  /\ UNCHANGED <<Base, ns, objs, flo, probe, irsa, crs, loops, broken>>

\* A phase that deletes what it applied.
Removes(p, xs) ==
  /\ At(p) /\ Advance(p)
  /\ \/ objs' = objs \ xs /\ NoFault
     \/ objs \cap xs # {} /\ UNCHANGED objs /\ Fault
  /\ UNCHANGED <<Base, ns, flo, cne, Runtime, broken>>

Phase15Down == Removes("15 down", {"otel"})

\* Infra, the gateway class and the rest of phase 23b, and the License: deleted, and
\* not waited for.
Withdraws(p, c) ==
  /\ At(p) /\ Advance(p)
  /\ \/ crs' = [crs EXCEPT ![c] = "none"] /\ NoFault
     \/ crs[c] # "none" /\ UNCHANGED crs /\ Fault
  /\ UNCHANGED <<Base, Spaces, pods, probe, irsa, loops, broken>>

Phase23bDown == Withdraws("23b down", "infra")
Phase23Down == Withdraws("23 down", "license")

\* A fixed time passes after the deletion, whatever becomes of it.
Phase22Down ==
  /\ At("22 down") /\ Advance("22 down")
  /\ \/ cne' = (IF cne = "none" THEN "none" ELSE "going") /\ NoFault
     \/ cne # "none" /\ UNCHANGED cne /\ Fault
  /\ UNCHANGED <<Base, ns, objs, flo, Runtime, broken>>

Phase20Down == Removes("20 down", {"nads"})
Phase19Down == Removes("19 down", {"mapping"})

\* Passed over when the registry cannot be logged in to.
Phase14Down ==
  /\ At("14 down")
  /\ \/ flo = "none" /\ To("12 down") /\ NoFault /\ UNCHANGED world
     \/ flo # "none" /\ To("12 down") /\ Fault /\ UNCHANGED world
     \/ /\ flo # "none" /\ flo' = "pending" /\ Advance("14 down") /\ NoFault
        /\ UNCHANGED <<Base, ns, objs, cne, Runtime, broken>>

Uninstalled ==
  /\ At("14 uninstall") /\ Advance("14 uninstall")
  /\ \/ flo' = "none" /\ NoFault
     \/ UNCHANGED flo /\ Fault
  /\ UNCHANGED <<Base, ns, objs, cne, Runtime, broken>>

\* Multus, the certificate chain and cert-manager, and the namespaces, which are not
\* waited for.
Phase12Down ==
  /\ At("12 down") /\ Advance("12 down")
  /\ \/ /\ objs' = objs \ {"certs", "multus"} /\ NoFault
        /\ ns' = (IF ns = "active" THEN "going" ELSE ns)
     \/ /\ objs' \in {objs, objs \ {"certs"}, objs \ {"certs", "multus"}} /\ Fault
        /\ ns' \in {ns, IF ns = "active" THEN "going" ELSE ns}
  /\ UNCHANGED <<Base, flo, cne, Runtime, broken>>

Phase11cDown == Removes("11c down", {"gpu"})
Phase17cDown == Removes("17c down", {"ifaces"})

\* With the nodes and the cluster all of it goes.
ClusterDown ==
  /\ At("cluster down") /\ End("down") /\ NoFault
  /\ cluster' = FALSE /\ ns' = "none" /\ objs' = {} /\ cni' = "none" /\ flo' = "none"
  /\ cne' = "none" /\ pods' = NoPods /\ crs' = NoCrs /\ broken' = {} /\ UNCHANGED loops
  /\ probe' = [patched |-> FALSE, started |-> FALSE] /\ irsa' = [sa |-> FALSE, env |-> FALSE]

DownStep ==
  \/ Client \/ CleanupBNKOverlayCRs \/ Phase15Down \/ Phase23bDown \/ Phase23Down \/ Phase22Down
  \/ Phase20Down \/ Phase19Down \/ Phase14Down \/ Uninstalled \/ Phase12Down \/ Phase11cDown
  \/ Phase17cDown \/ ClusterDown
=============================================================================
