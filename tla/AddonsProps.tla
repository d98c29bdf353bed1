---------------------------- MODULE AddonsProps ----------------------------
(***************************************************************************)
(* What `up` and `down` promise about the add-ons and what their            *)
(* controllers own.                                                         *)
(***************************************************************************)
EXTENDS AddonsDown

\* A successful `up`, whatever was interrupted or lost before it, leaves a volume
\* driver that works and a load balancer controller that is deployed and let
\* into AWS; only a role that an earlier down failed to delete may trust the
\* provider of a cluster that is gone.
UpBuilds ==
  done = "up" =>
    /\ addon = "active"
    /\ release = "deployed" /\ policy /\ attached /\ disk
    /\ role = cluster \/ "role" \in lost

\* At any time, between commands and within them, an NLB of a Service in
\* kube-system has the controller that can take it down: release, role, policy
\* and nodes outlive it unless a warning said otherwise.
NlbHeld ==
  lb["sys"] # "none" => ControllerWorks \/ "sys" \in lost

\* A `down` that reports success leaves no volume, role or policy, but what it
\* warned about; a policy it could not delete is in state.env for the next one.
DownClean ==
  done = "down" =>
    /\ vol # "none" => "vol" \in lost
    /\ role # None => "role" \in lost
    /\ policy => disk \/ "policy" \in lost
=============================================================================
