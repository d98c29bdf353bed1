---------------------------- MODULE ClusterProps ----------------------------
(***************************************************************************)
(* What `up` and `down` promise about the EKS cluster.                      *)
(***************************************************************************)
EXTENDS ClusterDown

\* A successful `up`, however many interrupted ones came before it, leaves roles
\* with their policies, the node role in its profile, a running cluster with
\* both node groups, and rules both ways between the security groups that exist
\* and that state.env names.
UpBuilds ==
  done = "up" =>
    /\ \A r \in RoleNames : roles[r] = "ready"
    /\ profile = "joined"
    /\ eks.status = "ACTIVE" /\ \A g \in GroupNames : groups[g].status = "ACTIVE"
    /\ \A n \in {"lt-bnk", "lt-gpu"} : <<n, disk[n]>> \in lts
    /\ LET c == <<"cluster", disk["cluster"]>>
           d == <<"data", disk["data"]>>
       IN c = ClusterSg /\ d \in sgs /\ {<<c, d>>, <<d, c>>} \subseteq rules

\* A `down` that reports success and was told the truth has left nothing that
\* costs money or blocks the next cluster, and the IRSA role only under
\* --keep-irsa.  An OIDC provider, which only state.env can name, outlives it only
\* for a fault that hid it.  The cluster's own security group may stay: the VPC
\* sweep of phase 02 takes it.
DownClean ==
  done = "down" /\ ~misled =>
    /\ roles["cluster"] = "none" /\ roles["node"] = "none" /\ profile = "none"
    /\ eks.status = "none" /\ NoGroups /\ lts = {}
    /\ Named(sgs, "data") = {}
    /\ keep \/ (roles["irsa"] = "none" /\ Cardinality(oidc) <= faults)

Busy == eks.status \in {"FAILED", "DELETING"}
        \/ \E g \in GroupNames : groups[g].status \in {"FAILED", "DELETING"}

\* An `up` that was told the truth stops with an error of its own only when the
\* cluster or a node group is failed or on its way out, or at an OIDC provider
\* that state.env does not know; and a `down` is never refused by a dependency its
\* own order should have removed, unless an error it dropped misled it.
NotRefused ==
  [][/\ done # "up refused" /\ done' = "up refused" => misled' \/ Busy \/ At("oidc")
     /\ done' = "down refused" => misled']_vars

\* docs/PHASES.md:3, "Each phase is idempotent and records its outcome in the
\* local state.env": an `up` whose cluster is well is not refused.
UpResumes == [][done # "up refused" /\ done' = "up refused" => misled' \/ Busy]_vars
=============================================================================
