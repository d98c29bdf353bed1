----------------------------- MODULE HostsProps -----------------------------
(***************************************************************************)
(* What `up` and `down` promise about the hosts around the cluster.         *)
(***************************************************************************)
EXTENDS HostsDown

\* The BIG-IP of state.env is configured to the last setting, and its password
\* outlives a reload, unless this `up` skipped a box whose password had not been
\* finalized.
Onboarded ==
  LET b == box[disk["ve"]]
  IN b.has = Settings /\ b.as3 = "installed" /\ (b.pw = "durable" \/ misled)

\* Three faults may hide a BIG-IP from a `down`, which then takes the data interface
\* from it (the record lost, the lookup of the instance, that of its management
\* interface), and a fourth, at the lookup of the group, lets the `down` delete its
\* key pair.  No later `up` asks a BIG-IP it finds for its interfaces or its key.
Unseen   == faults > 2
Orphaned == faults > 3

\* A successful `up`, whatever was interrupted, lost or not seen before it, leaves
\* the TMM interface of state.env on its node, a jumphost, and a BIG-IP with
\* both interfaces of state.env (unless it was Unseen), the data one with its
\* source/destination check off, that is onboarded ("the re-run drives the partial
\* box to completion", header of Phase17fBigIPOnboard), and port 22 of the jumphost
\* open to its endpoint.  Unless some call failed or was interrupted, the jumphost
\* also has what the header of phase17b_jumphost.go names: a "Secondary ENI in
\* BNK_EXT subnet attached at device-index=1".
UpBuilds ==
  done = "up" =>
    /\ << <<"tmm", disk["tmm"]>>, Node >> \in att
    /\ disk["jh"] \in Alive("jh") /\ disk["ve"] \in Alive("ve")
    /\ \/ Unseen
       \/ {<<"veMgmt", disk["veMgmt"]>>, <<"veExt", disk["veExt"]>>} = OnHost(<<"ve", disk["ve"]>>)
    /\ <<"veExt", disk["veExt"]>> \in conf /\ <<"jhSg", disk["jhSg"]>> \in conf
    /\ Onboarded
    /\ \/ faults > 0
       \/ OnHost(<<"jh", disk["jh"]>>) = {<<"jhEni", disk["jhEni"]>>}

\* The PEM beside state.env opens the BIG-IP phase 17f is to configure, as long
\* as no PEM was lost and no `up` ended between CreateKeyPair and the PEM's last
\* byte: downs that end between DeleteKeyPair and the removal of the PEM, or
\* cannot remove it, do no harm, unless the BIG-IP was Orphaned.
KeyOpens == pc \in OnboardPoints /\ ~pemLost => Opens \/ Orphaned

\* A `down` that reports success and went on with the truth has left none of it
\* but what an instance somebody else terminated, and that is not gone yet,
\* keeps: the jumphost's security group, for the VPC sweep of phase 02.
DownClean ==
  done = "down" /\ ~misled =>
    /\ \A n \in Kinds \ {"jh", "jhSg"} : Has(n) = {}
    /\ Alive("jh") = {} /\ (Has("jhSg") = {} \/ faults > 0)
    /\ key = None /\ pem = None /\ ~role /\ profile = "none"

\* What a `down` terminates is gone before it deletes what the instance used: it
\* is refused only after an error it dropped or an id that misled it, or while
\* an instance somebody else terminated is on its way out.  Phase 17f of an `up`
\* takes on any box an earlier one left half configured: it stops only where
\* the way to the box is missing, which takes a fault or an endpoint that failed,
\* where its key was lost, or where AS3 cannot be installed.
NotRefused ==
  [][/\ done # "down refused" /\ done' = "down refused"
          => misled' \/ \E r \in Runs : status[<<"ve", r>>] = "deleting"
     /\ pc \in OnboardPoints /\ done' = "up refused"
          => CASE pc \in {"pemCopy", "gate"} ->
                    faults > 0 \/ \E r \in Runs : status[<<"eice", r>>] = "failed"
               [] pc = "shell" -> pemLost \/ Orphaned
               [] OTHER -> pc \in {"as3", "as3Poll"} /\ ~As3Seen]_vars
=============================================================================
