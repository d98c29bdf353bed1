------------------------------ MODULE Translate ------------------------------
(***************************************************************************)
(* What `bnk migrate-2.4` makes of the resources of BNK 2.3: the plan that  *)
(* migrate.Translate computes from an inventory, in the order ApplyPlan     *)
(* applies it.                                                              *)
(*                                                                          *)
(* An address pool is named by what it was made for; addresses, zones, tags *)
(* and the warnings are left out.  An egress without namespaces stands for  *)
(* one that is not there: neither gives an object of its own.  NetPolicies  *)
(* go the way of SecPolicies, nothing names a VRF, and no class is looked   *)
(* up for an EgressGateway: left out.                                       *)
(***************************************************************************)
EXTENDS FiniteSets, Sequences, SequencesExt

CONSTANTS
  Namespaces,   \* of tenants
  Names,        \* of gateways, egresses and policies
  Snatpools     \* names of F5SPKSnatpools

Keys == Namespaces \X Names

\* Each kind of F5 resource Inspect lists, as far as the plan depends on it.
Inventory ==
  [vlans : SUBSET {"internal", "external"}, vxlan : BOOLEAN, routes : BOOLEAN,
   snatpools : SUBSET Snatpools,
   bnk : SUBSET Keys,                                        \* F5BnkGateway
   gws : [Keys -> {"absent", "foreign", "bare", "static"}],  \* Gateway: its class, its addresses
   egress : [Names -> [namespaces : SUBSET Namespaces,
                       snat : {"Automap", "None"} \cup Snatpools, fw : {"none"} \cup Names]],
   secs : SUBSET Keys]                                       \* BNKSecPolicy

\* The F5BnkGateway of the Gateway's name, or the only one of its namespace.
PickBnkGateway(v, g) ==
  LET candidates == {b \in v.bnk : b[1] = g[1]}
  IN  IF g \in candidates THEN {g} ELSE IF Cardinality(candidates) = 1 THEN candidates ELSE {}

\* The listener pools of a Gateway, or one over its static addresses.
Pools(v, g) ==
  LET b == PickBnkGateway(v, g)
  IN  IF b # {} THEN {<<"listener", k>> : k \in b}
      ELSE IF v.gws[g] = "static" THEN {<<"static", g>>} ELSE {}

\* Gateways of another class are left alone, those without a pool reported.
Patched(v) == {g \in Keys : v.gws[g] \in {"bare", "static"} /\ Pools(v, g) # {}}

Egresses(v) == {k \in Keys : k[1] \in v.egress[k[2]].namespaces}

\* The tunnel of an egress that names no interface.
DefaultTunnelNetwork(v) ==
  IF "internal" \in v.vlans THEN {"internal"} ELSE v.vlans

\* Mutant: pools only for the gateways that have an F5BnkGateway of their name.
IpamsBug(v) ==
  {<<"selfip", n>> : n \in v.vlans} \cup (IF v.vxlan THEN {<<"vtep", "vxlan">>} ELSE {})
  \cup {<<"snat", p>> : p \in v.snatpools} \cup {<<"listener", g>> : g \in v.bnk \cap Patched(v)}

Ipams(v) ==
  {<<"selfip", n>> : n \in v.vlans} \cup (IF v.vxlan THEN {<<"vtep", "vxlan">>} ELSE {})
  \cup {<<"snat", p>> : p \in v.snatpools} \cup UNION {Pools(v, g) : g \in Patched(v)}

InfraOf(v) ==
  [ipams |-> Ipams(v), networks |-> v.vlans \cup (IF v.vxlan THEN {"vxlan"} ELSE {}),
   routes |-> IF v.routes THEN {"static"} ELSE IF "external" \in v.vlans THEN {"default"} ELSE {},
   tunnel |-> DefaultTunnelNetwork(v)]

\* A Gateway and an egress of one name in one namespace share their settings.
SettingsOf(v, k) ==
  [listener |-> IF k \in Patched(v) THEN Pools(v, k) ELSE {},
   egress |-> IF k \in Egresses(v) THEN v.egress[k[2]].snat ELSE "absent"]

Obj(kind, key, val) == [kind |-> kind, key |-> key, val |-> val]

Settled(v) == Patched(v) \cup Egresses(v)

\* The firewall policy of an egress becomes one of its namespace, under its own name.
FirewallPolicies(v) ==
  {Obj("SecPolicy", <<k[1], v.egress[k[2]].fw>>, k[2]) :
     k \in {e \in Egresses(v) : v.egress[e[2]].fw # "none"}}

\* Within a kind, in some fixed order.
InOrder(kind, ks) == SetToSeq({Obj(kind, k, "none") : k \in ks})

InfraObjects(v) == IF v.vlans = {} THEN <<>> ELSE <<Obj("Infra", <<"cne", "infra">>, "none")>>

\* Mutant: the gateways are patched first.
ObjectsBug(v) ==
  InfraObjects(v) \o InOrder("Gateway", Patched(v)) \o InOrder("GatewaySettings", Settled(v))
  \o InOrder("EgressGateway", Egresses(v))
  \o SetToSeq(FirewallPolicies(v)) \o SetToSeq({Obj("SecPolicy", k, "gateways") : k \in v.secs})

Objects(v) ==
  InfraObjects(v) \o InOrder("GatewaySettings", Settled(v)) \o InOrder("Gateway", Patched(v))
  \o InOrder("EgressGateway", Egresses(v))
  \o SetToSeq(FirewallPolicies(v)) \o SetToSeq({Obj("SecPolicy", k, "gateways") : k \in v.secs})
=============================================================================
