---------------------------- MODULE TrialCatalogue ----------------------------
(***************************************************************************)
(* The trials of BNK: the scenarios of `scenarios run` and the use-cases of *)
(* `demo run`.  Each is a record of the steps its Apply, Verify and Cleanup *)
(* take and of the addresses its Gateways claim and its probes go to, by    *)
(* last octet.  Verify's steps:                                             *)
(*   "ready"   wait for Deployments, Gateways and routes; "deployment" for   *)
(*             the Deployment alone                                          *)
(*   "present" one look at an object Apply made                             *)
(*   "resync"  nudge the routes of the namespace (see Resync)               *)
(*   "probe"   one round of requests, "poll" rounds until one succeeds      *)
(*   "core"    wait for the core-file collector                             *)
(***************************************************************************)
EXTENDS Sequences, FiniteSets, Naturals

\* The address of `--vip`, or the cluster's default.
Base == 0
DefaultVIP == 100

\* needs: the verify steps whose failure ends Verify; declares: the weight its
\* manifests give the route, 0 for none; keeps: what Cleanup leaves on purpose or
\* by its order; parts: those of its manifests that Cleanup deletes by name before the
\* namespace they are in; outside: what it makes outside of its namespace.
Trial(vips, probed, apply, verify, clean) ==
  [vips |-> vips, probed |-> probed, apply |-> apply, verify |-> verify, clean |-> clean,
   needs |-> {}, declares |-> 0, keeps |-> {}, outside |-> {}, parts |-> {}]

ManifestsOnly == <<"manifests">>
DeleteNamespace == <<"namespace">>

HttpRoutingVerify == <<"ready", "present", "resync", "probe">>
HttpRoutingProbe == {Base}
HttpRouting == Trial({Base}, HttpRoutingProbe, ManifestsOnly, HttpRoutingVerify, DeleteNamespace)

SplitVerify == <<"ready", "resync", "poll">>
SplitProbe == {101}
Split == [Trial({101}, SplitProbe, ManifestsOnly, SplitVerify, DeleteNamespace) EXCEPT !.declares = 3]

ExtPoolVerify == <<"responder", "ready", "resync", "poll">>
ExtPoolProbe == {102}
ExtPoolClean == <<"responder", "namespace">>
ExtPool == [Trial({102}, ExtPoolProbe, ManifestsOnly, ExtPoolVerify, ExtPoolClean)
              EXCEPT !.needs = {"responder"}, !.outside = {"responder"}]

ProxyVerify == <<"ready", "present", "probe">>
ProxyProbe == {103}
\* Mutant: an address another scenario has.
ProxyBug == Trial({102}, {102}, ManifestsOnly, ProxyVerify, DeleteNamespace)
Proxy == Trial({103}, ProxyProbe, ManifestsOnly, ProxyVerify, DeleteNamespace)

TokensVerify == <<"ready", "present">>
Tokens == Trial({104}, {}, ManifestsOnly, TokensVerify, DeleteNamespace)

ClusterWatchVerify == <<"ready", "probe">>
ClusterWatch == Trial({105}, {105}, ManifestsOnly, ClusterWatchVerify, DeleteNamespace)

TcpVerify == <<"ready", "probe">>
Tcp == Trial({106}, {106}, ManifestsOnly, TcpVerify, DeleteNamespace)

UdpVerify == <<"ready">>
Udp == Trial({107}, {}, ManifestsOnly, UdpVerify, DeleteNamespace)

GrpcVerify == <<"ready">>
Grpc == Trial({108}, {}, ManifestsOnly, GrpcVerify, DeleteNamespace)

\* The probe of the cache is timed over SSH by a stub that always fails: it is taken
\* only with an embedding service, which no option sets up.
CacheVerify == <<"ready", "present">>
Cache == Trial({109}, {}, ManifestsOnly, CacheVerify, DeleteNamespace)

\* The GIE CRDs are the cluster's and stay.  The manifests pin the address, the probe
\* takes `--vip` as it is.
InferenceApply == <<"namespace", "hf secret", "gie crds", "far secret", "manifests">>
InferenceVerify == <<"deployment", "ready", "poll">>
InferenceProbe(base) == IF base = DefaultVIP THEN {112} ELSE {Base}
Inference(base) ==
  [Trial({112}, InferenceProbe(base), InferenceApply, InferenceVerify, DeleteNamespace)
     EXCEPT !.needs = {"deployment"}, !.outside = {"gie crds"}, !.keeps = {"gie crds"}]

MultiVipVerify == <<"ready", "resync", "poll", "poll">>
MultiVip == Trial({115, 116}, {115, 116}, ManifestsOnly, MultiVipVerify, DeleteNamespace)

EgressVerify == <<"ready", "counters">>
\* The EgressGateway and the GatewaySettings it names are two of the manifests.
EgressClean == <<"egress gateway", "gateway settings", "namespace">>
Egress ==
  [Trial({}, {}, ManifestsOnly, EgressVerify, EgressClean)
     EXCEPT !.parts = {"gateway settings", "egress gateway"}]

\* The secrets are copied into the namespace the manifests create next, and errors of
\* the copy dropped; Verify looks at the secrets they are copied from.
CwcApply == <<"secrets", "manifests">>
CwcVerify == <<"ready">>
Cwc == Trial({}, {}, CwcApply, CwcVerify, DeleteNamespace)

\* Turns core collection on in the CNEInstance, for which FLO rolls TMM.
CoreApply == <<"core">>
CoreVerify == <<"core">>
Core == [Trial({}, {}, CoreApply, CoreVerify, <<>>) EXCEPT !.outside = {"core"}, !.keeps = {"core"}]

Http2Verify == <<"ready", "present", "resync", "probe">>
Http2Probe == {111}
Http2 == Trial({111}, Http2Probe, ManifestsOnly, Http2Verify, DeleteNamespace)

DiameterVerify == <<"ready", "present", "probe">>
DiameterProbe == {110}
Diameter == Trial({110}, DiameterProbe, ManifestsOnly, DiameterVerify, DeleteNamespace)

\* The address is the BIG-IP's, not BNK's.  Cleanup uninstalls CIS before it deletes
\* the VirtualServer, so nobody removes the virtual server on the BIG-IP.
CisApply == <<"login secret", "cis release", "manifests", "bigip routes">>
CisVerify == <<"ready", "bigip probe">>
CisClean == <<"cis release", "virtual server", "login secret", "bigip routes", "namespace">>
Cis ==
  [Trial({}, {}, CisApply, CisVerify, CisClean)
     EXCEPT !.outside = {"login secret", "cis release", "bigip routes", "bigip virtual"},
            !.keeps = {"bigip virtual"}]

MigrationApply == <<"nginx", "haproxy", "manifests">>
MigrationVerify == <<"ready", "present", "resync", "probe">>
MigrationProbe == {113}
\* Mutant: one of the two releases is forgotten.
MigrationCleanBug == <<"nginx", "namespace">>
MigrationClean == <<"nginx", "haproxy", "namespace">>
Migration ==
  [Trial({113}, MigrationProbe, MigrationApply, MigrationVerify, MigrationClean)
     EXCEPT !.outside = {"nginx", "haproxy"}]

-----------------------------------------------------------------------------
\* Cleanup steps whose error is only a warning.
BestEffort == {"responder", "nginx", "haproxy", "cis release", "virtual server", "login secret", "bigip routes"}

\* The registry, in the order the packages register, and the demos.
Scenarios ==
  <<"ai-inference-e2e", "ai-semantic-cache", "ai-token-counting", "cluster-wide-watch",
    "core-file-collection", "cwc-admin-access", "egress-snat", "external-resource-pool",
    "grpc-loadbalance", "http-routing-e2e", "http-traffic-split", "multi-vip",
    "proxy-protocol-l4", "tcp-l4-loadbalance", "udp-l4-loadbalance">>
Demos == <<"bigip-cis", "diameter", "http2", "ingress-migration">>
Amber == {"ai-semantic-cache", "ai-token-counting", "grpc-loadbalance", "udp-l4-loadbalance"}
Catalogue == Demos \o SelectSeq(Scenarios, LAMBDA t : t \notin Amber)

\* No trial depends on another: the order of registration, but for the trial that
\* rolls TMM, which comes last.
TopoSort(all) ==
  SelectSeq(all, LAMBDA t : t # "core-file-collection")
    \o SelectSeq(all, LAMBDA t : t = "core-file-collection")

Find(t, base) ==
  CASE t = "ai-inference-e2e" -> Inference(base) [] t = "ai-semantic-cache" -> Cache
    [] t = "ai-token-counting" -> Tokens [] t = "cluster-wide-watch" -> ClusterWatch
    [] t = "core-file-collection" -> Core [] t = "cwc-admin-access" -> Cwc
    [] t = "egress-snat" -> Egress [] t = "external-resource-pool" -> ExtPool
    [] t = "grpc-loadbalance" -> Grpc [] t = "http-routing-e2e" -> HttpRouting
    [] t = "http-traffic-split" -> Split [] t = "multi-vip" -> MultiVip
    [] t = "proxy-protocol-l4" -> Proxy [] t = "tcp-l4-loadbalance" -> Tcp
    [] t = "udp-l4-loadbalance" -> Udp [] t = "bigip-cis" -> Cis [] t = "diameter" -> Diameter
    [] t = "http2" -> Http2 [] t = "ingress-migration" -> Migration

Names == {Scenarios[i] : i \in DOMAIN Scenarios} \cup {Demos[i] : i \in DOMAIN Demos}

\* Octets, the base replaced by the address in force.
WithBase(octets, base) == {IF o = Base THEN base ELSE o : o \in octets}
=============================================================================
