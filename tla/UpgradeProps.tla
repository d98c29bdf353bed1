---------------------------- MODULE UpgradeProps ----------------------------
(***************************************************************************)
(* What `bnk upgrade` and `bnk migrate-2.4` promise, and inventories.       *)
(***************************************************************************)
EXTENDS Upgrade

\* The newest template gives its pods everything: the flag, the role, the grant.
Whole(p) == p.flag /\ (HasRole => p.role) /\ (p.rbac \/ faults > 0)

\* After an upgrade that reports success the cluster comes to run 2.4: new TMM pods,
\* a controller whose pods all carry the flag, the role and the grant, and
\* the log stream; also when an earlier upgrade ended half way, but for the two
\* steps whose mark is made before the restart it stands for (the grant, the stream).
UpgradeSettles ==
  (At("idle") /\ done = "upgraded") ~>
    \/ done # "upgraded"
    \/ /\ ctl = "new" /\ tmm = "new" /\ pods # {} /\ (\A p \in pods : Whole(p))
       /\ stream = "on" \/ (stream = "marked" /\ faults > 0)

\* An upgrade in which no call failed is refused only where Helm left the release
\* failed or pending, or where it looks at the pods FLO has not yet replaced: no
\* wait is for what only a later step makes, whatever step an earlier upgrade ended at.
UpgradeNotRefused ==
  [][done # "upgrade refused" /\ done' = "upgrade refused" =>
       hurt' \/ flo' \in {"failed", "pending"} \/ (At("flag") /\ \E p \in pods : ~p.current)]_vars

\* What the apply in progress, or one that reported success, has written of a kind.
Written(kind) ==
  LET plan == Objects(seen)
      upTo == IF done = "migrated" THEN Len(plan) ELSE next - 1
  IN  {plan[i].key : i \in {j \in 1 .. upTo : plan[j].kind = kind}}

\* Until tenants edit what they have, no object names one that is not there, at any
\* point of an apply, wherever it ends and however often it is run: pools come before
\* the settings that name them, settings before gateways, gateways before policies.  After an
\* edit the same holds of what the running apply has written, and of what one that
\* reported success wrote, but not of what earlier plans left: nothing is pruned, so an
\* EgressGateway may go on naming settings that no longer configure it, and settings
\* pools the Infra no longer has.  Without a VLAN there is no Infra, and no pool is.
RefsResolve ==
  LET Of(kind, all) == IF edits = 0 THEN all ELSE all \cap Written(kind) IN
  /\ \A g \in Of("Gateway", patches) : settings[g].listener # {}
  /\ \A k \in Of("EgressGateway", egws) : settings[k].egress # "absent"
  /\ \A k \in Of("SecPolicy", Keys) : pols[k] \in Names => <<k[1], pols[k]>> \in egws
  /\ seen.vlans # {} =>
       \A k \in Of("GatewaySettings", Keys) :
         /\ settings[k].listener \subseteq infra.ipams
         /\ settings[k].egress \in seen.snatpools => <<"snat", settings[k].egress>> \in infra.ipams

\* What `migrate-2.4` reports migrated is migrated, on a cluster migrated for the first
\* time or again, after an apply that ended half way or tenants who changed
\* something since: each egress in each of its namespaces with its address
\* translation, each gateway with its addresses, each policy, and an Infra that
\* has been programmed once.  A policy may lose its name to another of that name.
Migrated ==
  done = "migrated" =>
    /\ \A k \in Egresses(seen) :
         /\ k \in egws /\ settings[k].egress = seen.egress[k[2]].snat
         /\ seen.egress[k[2]].fw # "none" => pols[<<k[1], seen.egress[k[2]].fw>>] # "none"
    /\ \A g \in Patched(seen) \cap {h \in Keys : inv.gws[h] # "absent"} :
         g \in patches \/ edits > 0
    /\ seen.vlans # {} =>
         /\ prog /\ seen.vlans \subseteq infra.networks
         /\ \A k \in Settled(seen) : settings[k].listener \subseteq infra.ipams
         /\ \A k \in Egresses(seen) : settings[k].egress \in seen.snatpools =>
              <<"snat", settings[k].egress>> \in infra.ipams
    /\ \A k \in seen.secs : pols[k] = "gateways"

-----------------------------------------------------------------------------
\* The cluster does what it was asked for; nothing is asked of the commands, which
\* may end anywhere.
FairSpec == Spec /\ WF_vars(ClusterStep)

-----------------------------------------------------------------------------
NoEgress == [namespaces |-> {}, snat |-> "None", fw |-> "none"]
NoGateways == [k \in Keys |-> "absent"]

\* Gateway and egress of one name in one namespace; a firewall policy.
Shared ==
  [vlans |-> {"internal", "external"}, vxlan |-> FALSE, routes |-> TRUE, snatpools |-> {"pool"},
   bnk |-> {<<"a", "x">>}, gws |-> [NoGateways EXCEPT ![<<"a", "x">>] = "bare"],
   egress |-> [n \in Names |-> IF n = "x" THEN [namespaces |-> {"a", "b"}, snat |-> "pool", fw |-> "y"]
                               ELSE NoEgress],
   secs |-> {<<"a", "x">>}]

\* A gateway with addresses of its own, one that takes the only F5BnkGateway.
Mixed ==
  [vlans |-> {"external"}, vxlan |-> TRUE, routes |-> FALSE, snatpools |-> {},
   bnk |-> {<<"a", "y">>},
   gws |-> [NoGateways EXCEPT ![<<"a", "x">>] = "bare", ![<<"b", "x">>] = "static", ![<<"b", "y">>] = "foreign"],
   egress |-> [n \in Names |-> IF n = "y" THEN [namespaces |-> {"a"}, snat |-> "Automap", fw |-> "none"]
                               ELSE NoEgress],
   secs |-> {}]

\* No VLAN: no Infra.
Bare == [Shared EXCEPT !.vlans = {}, !.snatpools = {}, !.secs = {}]

Cases == {Shared, Mixed, Bare}
=============================================================================
