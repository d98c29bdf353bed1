----------------------------- MODULE HostsDown -----------------------------
(***************************************************************************)
(* `awsbnkctl down` over the hosts, phases 17e, 17b and 17 in that order,   *)
(* and the specification of the whole: ups and downs one after the other,   *)
(* the account's own steps, and the faults.                                 *)
(***************************************************************************)
EXTENDS Onboard

\* What a down phase goes for: the id of state.env, else one of S found by tag,
\* else nothing; a failed lookup finds nothing.
Aim(n, S, r) ==
  /\ Set(n, r)
  /\ \/ /\ r \in (IF mem[n] # None THEN {mem[n]} ELSE IF S = {} THEN {None} ELSE S)
        /\ misled' = (misled \/ S \ {r} # {}) /\ UNCHANGED faults
     \/ mem[n] = None /\ r = None /\ S # {} /\ Dropped(FALSE)

\* The keys of a phase are emptied and saved, on to the next phase.
Without(N) == [n \in Keys |-> IF n \in N THEN None ELSE mem[n]]
ClearAnd(N, p) ==
  /\ mem' = Without(N) /\ disk' = mem' /\ Goto(p) /\ Told /\ UNCHANGED <<cloud, pem, pemLost>>

\* Mutant: an id of state.env is terminated, nothing is looked up by tag.
TerminateBug(n, p) ==
  /\ IF mem[n] \in Alive(n) THEN Become(<<n, mem[n]>>, "deleting") ELSE UNCHANGED status
  /\ OnlyStatus /\ Goto(p) /\ Told /\ UNCHANGED <<files, mem>>

\* TerminateInstances; an instance that is gone is passed over.
Terminate(n, p) ==
  /\ \E r \in Ref :
       /\ Aim(n, Alive(n), r)
       /\ IF r \in Alive(n) THEN Become(<<n, r>>, "deleting") ELSE UNCHANGED status
  /\ OnlyStatus /\ Goto(p) /\ UNCHANGED files

Terminated(n, p) == mem[n] \notin Has(n) /\ UNCHANGED cloud /\ Go(p)

\* detachAndDeleteENI: first the attachment, which is refused at device index 0,
\* then, with the interface free, the interface.
EniDown(n, p) ==
  \E r \in Ref :
    /\ Aim(n, Has(n), r)
    /\ LET e == <<n, r>>
       IN CASE r \notin Has(n) -> UNCHANGED cloud /\ Goto(p)
            [] r \in Has(n) /\ HostOf(e) = {} -> Remove(e) /\ OnlyGone /\ Goto(p)
            [] OTHER -> /\ ~Pinned(e)
                        /\ att' = {a \in att : a[1] # e} /\ OnlyAtt
                        /\ UNCHANGED <<pc, done, run>>
    /\ UNCHANGED files

EniRefused(n) ==
  \E r \in Ref : /\ r \in Has(n) /\ Pinned(<<n, r>>)
                 /\ mem[n] \in {None, r} /\ Fail

-----------------------------------------------------------------------------
(* Phase 17e down: BIG-IP, its interfaces, the security group, the key pair *)
(* and the PEM.                                                             *)

VeEnd   == At("veEnd") /\ Terminate("ve", "veEnding")
VeEnded == At("veEnding") /\ Terminated("ve", "veMgmtDown")

VeMgmtDown    == At("veMgmtDown") /\ EniDown("veMgmt", "veExtDown")
VeMgmtRefused == At("veMgmtDown") /\ EniRefused("veMgmt")
VeExtDown     == At("veExtDown") /\ EniDown("veExt", "veSgDown")

\* Any dependency is an error return.
VeSgDown ==
  /\ At("veSgDown")
  /\ \E r \in Ref :
       /\ Aim("veSg", Has("veSg"), r) /\ UNCHANGED files
       /\ CASE r \notin Has("veSg") -> UNCHANGED cloud /\ Goto("keyDown")
            [] r \in Has("veSg") /\ ~VeSgInUse ->
                 Remove(<<"veSg", r>>) /\ OnlyGone /\ Goto("keyDown")
            [] OTHER -> FALSE

VeSgRefused ==
  /\ At("veSgDown") /\ VeSgInUse
  /\ \E r \in Has("veSg") : mem["veSg"] \in {None, r}
  /\ Fail

KeyDown == At("keyDown") /\ key' = None /\ OnlyKey /\ Go("pemDown")

\* A removal that fails is a warning.
PemDown ==
  /\ At("pemDown")
  /\ \E ok \in BOOLEAN : Dropped(ok) /\ pem' = IF ok THEN None ELSE pem
  /\ Goto("save17eDown") /\ UNCHANGED <<cloud, disk, pemLost, mem>>

Save17eDown == At("save17eDown") /\ ClearAnd({"ve", "veMgmt", "veExt", "veSg"}, "jhEnd")

-----------------------------------------------------------------------------
(* Phase 17b down: the jumphost, its second interface, the EICE, the        *)
(* security group, profile and role.                                        *)

JhEnd     == At("jhEnd") /\ Terminate("jh", "jhEnding")
JhEnded   == At("jhEnding") /\ Terminated("jh", "jhEniDown")
JhEniDown == At("jhEniDown") /\ EniDown("jhEni", "eiceDown")

EiceDown ==
  /\ At("eiceDown")
  /\ \E r \in Ref :
       /\ Aim("eice", Has("eice"), r)
       /\ IF r \in Has("eice") THEN Become(<<"eice", r>>, "deleting") ELSE UNCHANGED status
  /\ OnlyStatus /\ Goto("eiceGone") /\ UNCHANGED files

EiceGone == At("eiceGone") /\ Terminated("eice", "jhSgRefs")

\* revokeReferencesToSG: its own rules and every rule that names it, errors dropped.
JhSgRefs ==
  /\ At("jhSgRefs")
  /\ \E r \in Ref, ok \in BOOLEAN :
       /\ IF ok THEN Aim("jhSg", Has("jhSg"), r)
                ELSE r \in Known("jhSg") /\ Set("jhSg", r) /\ Dropped(FALSE)
       /\ conf' = IF ok /\ r # None THEN {x \in conf : x[1] \notin {"jhSg", "veSg"}} ELSE conf
  /\ OnlyConf /\ Goto("jhSgDown") /\ UNCHANGED files

\* A dependency is tolerated: the group is left to the VPC sweep of phase 02.
JhSgDown ==
  /\ At("jhSgDown")
  /\ IF mem["jhSg"] \in Has("jhSg") /\ ~JhSgInUse
     THEN Remove(<<"jhSg", mem["jhSg"]>>) /\ OnlyGone
     ELSE UNCHANGED cloud
  /\ Go("leave")

Leave ==
  /\ At("leave") /\ profile' = (IF profile = "joined" THEN "empty" ELSE profile)
  /\ UNCHANGED role /\ OnlyIam /\ Go("profileDown")

ProfileDown ==
  At("profileDown") /\ profile' = "none" /\ UNCHANGED role /\ OnlyIam /\ Go("roleDown")

RoleDown == At("roleDown") /\ role' = FALSE /\ UNCHANGED profile /\ OnlyIam /\ Go("save17bDown")

Save17bDown ==
  At("save17bDown") /\ ClearAnd({"jh", "jhEni", "eice", "eiceSg", "jhSg"}, "tmmOwn")

-----------------------------------------------------------------------------
(* Phase 17 down: the interface of state.env and every tagged one.          *)

\* Detached, then deleted.
TmmDrop(r) ==
  LET e == <<"tmm", r>>
  IN IF HostOf(e) # {} THEN att' = {a \in att : a[1] # e} /\ OnlyAtt
                       ELSE Remove(e) /\ OnlyGone

TmmOwn ==
  /\ At("tmmOwn") /\ mem["tmm"] \in Has("tmm")
  /\ TmmDrop(mem["tmm"]) /\ Told /\ UNCHANGED <<files, mem, pc, done, run>>

\* Mutant: the id of state.env alone.
TmmListBug ==
  /\ At("tmmOwn") /\ mem["tmm"] \notin Has("tmm")
  /\ Told /\ Goto("save17Down") /\ UNCHANGED <<cloud, files, mem>>

\* The listing, on which its error is dropped.
TmmList ==
  /\ At("tmmOwn") /\ mem["tmm"] \notin Has("tmm")
  /\ \/ Has("tmm") # {} /\ Dropped(FALSE) /\ Goto("save17Down")
     \/ Told /\ Goto("tmmTagged")
  /\ UNCHANGED <<cloud, files, mem>>

TmmTagged ==
  /\ At("tmmTagged")
  /\ IF Has("tmm") = {} THEN UNCHANGED cloud /\ Goto("save17Down")
     ELSE \E r \in Has("tmm") : TmmDrop(r) /\ UNCHANGED <<pc, done, run>>
  /\ Told /\ UNCHANGED <<files, mem>>

DownDone ==
  /\ At("save17Down") /\ disk' = Without({"tmm"}) /\ End("down")
  /\ Told /\ UNCHANGED <<cloud, pem, pemLost>>

DownStep ==
  \/ VeEnd \/ VeEnded \/ VeMgmtDown \/ VeMgmtRefused \/ VeExtDown \/ VeSgDown \/ VeSgRefused
  \/ KeyDown \/ PemDown \/ Save17eDown
  \/ JhEnd \/ JhEnded \/ JhEniDown \/ EiceDown \/ EiceGone \/ JhSgRefs \/ JhSgDown
  \/ Leave \/ ProfileDown \/ RoleDown \/ Save17bDown
  \/ TmmOwn \/ TmmList \/ TmmTagged \/ DownDone

-----------------------------------------------------------------------------
Outside ==
  AccountStep /\ UNCHANGED <<disk, pem, mem, pc, done, run, misled, pemLost, faults>>

Next ==
  \/ StartUp \/ StartDown \/ UpStep \/ OnboardStep \/ DownStep \/ Abort \/ LoseFiles \/ LoseHost \/ Outside

Spec == Init /\ [][Next]_vars
=============================================================================
