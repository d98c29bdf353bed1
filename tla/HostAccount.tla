---------------------------- MODULE HostAccount ----------------------------
(***************************************************************************)
(* The part of EC2 and IAM phases 17, 17b and 17e drive: network interfaces *)
(* and what they are attached to, two instances, two security groups, the   *)
(* instance connect endpoint (EICE), a key pair, a role and its profile.    *)
(* AWS is not code of the repository; what is written here is what the      *)
(* phases rely on: what a call is refused for, and what goes on between two *)
(* calls.                                                                   *)
(*                                                                          *)
(* A resource is <<kind, run>>, the number of the `up` that created it: all *)
(* of a kind carry the same tags.  Group names and the fixed addresses of   *)
(* interfaces are unique, so that of most kinds there is one at a time.     *)
(***************************************************************************)
EXTENDS Naturals, FiniteSets

CONSTANT MaxUps   \* bound: runs of `up`

ASSUME HostAccountAssumption == MaxUps \in Nat

Runs == 1 .. MaxUps
None == 0
Ref  == Runs \cup {None}

EniKinds  == {"tmm", "jhEni", "veMgmt", "veExt"}
HostKinds == {"jh", "ve"}
Kinds == EniKinds \cup HostKinds \cup {"jhSg", "veSg", "eice"}
Id    == Kinds \X Runs
Node  == <<"node", 0>>                     \* the EKS node of the TMM pod
Hosts == (HostKinds \X Runs) \cup {Node}

VARIABLES
  role, profile,  \* of the jumphost: exists or not; "none", "empty", "joined"
  status,         \* of every resource
  conf,           \* what had its second call: source/dest check off, ingress rules
  att,            \* <<interface, host>>: attachments
  key,            \* the EC2 key pair: the `up` that created it
  veKey,          \* the key pair each BIG-IP was launched with
  box             \* what is configured on each BIG-IP

cloud == <<role, profile, status, conf, att, key, veKey, box>>

\* `pw` is the admin password: not the operator's, set but lost with the next
\* reload of the configuration, or saved for good.
Settings == {"bash", "lockoutOff", "ltm", "vlans", "selfIps", "cis"}
Boxes == [has : SUBSET Settings, as3 : {"none", "installing", "installed"},
          pw : {"unset", "live", "durable"}]
Fresh == [has |-> {}, as3 |-> "none", pw |-> "unset"]

AccountTypeOK ==
  /\ role \in BOOLEAN /\ profile \in {"none", "empty", "joined"}
  /\ status \in [Id -> {"none", "creating", "ready", "failed", "deleting"}]
  /\ conf \subseteq Id /\ att \subseteq (EniKinds \X Runs) \X Hosts
  /\ key \in Ref /\ veKey \in [Runs -> Ref] /\ box \in [Runs -> Boxes]

AccountInit ==
  /\ role = FALSE /\ profile = "none" /\ status = [x \in Id |-> "none"]
  /\ conf = {} /\ att = {} /\ key = None /\ veKey = [r \in Runs |-> None]
  /\ box = [r \in Runs |-> Fresh]

-----------------------------------------------------------------------------
Has(n)   == {r \in Runs : status[<<n, r>>] # "none"}
Alive(n) == {r \in Runs : status[<<n, r>>] \in {"creating", "ready"}}
HostOf(e)   == {a[2] : a \in {b \in att : b[1] = e}}
OnHost(h)   == {a[1] : a \in {b \in att : b[2] = h}}

Become(x, s) == status' = [status EXCEPT ![x] = s]
Remove(x) == Become(x, "none") /\ conf' = conf \ {x}

OnlyStatus == UNCHANGED <<role, profile, conf, att, key, veKey, box>>
OnlyConf   == UNCHANGED <<role, profile, status, att, key, veKey, box>>
OnlyAtt    == UNCHANGED <<role, profile, status, conf, key, veKey, box>>
OnlyGone   == UNCHANGED <<role, profile, att, key, veKey, box>>
OnlyIam    == UNCHANGED <<status, conf, att, key, veKey, box>>
OnlyKey    == UNCHANGED <<role, profile, status, conf, att, veKey, box>>
OnlyBox    == UNCHANGED <<role, profile, status, conf, att, key, veKey>>

Configure(x) == conf' = conf \cup {x} /\ OnlyConf

\* An interface at device index 0 goes only with its instance.
Pinned(e) == e[1] = "veMgmt" /\ HostOf(e) # {}

\* DeleteSecurityGroup is refused while an interface or an instance is in the
\* group or a rule of another group names it.
VeSgInUse == Has("veMgmt") # {}
JhSgInUse == Has("jh") # {} \/ \E r \in Runs : <<"veSg", r>> \in conf

-----------------------------------------------------------------------------
Settles(x) ==
  /\ status[x] = "creating"
  /\ \/ Become(x, "ready")
     \/ x[1] = "eice" /\ Become(x, "failed")
  /\ OnlyStatus

\* A terminated instance lets go of its interfaces; they stay.
Gone(x) ==
  /\ status[x] = "deleting" /\ Become(x, "none")
  /\ att' = {a \in att : a[2] # x}
  /\ veKey' = IF x[1] = "ve" THEN [veKey EXCEPT ![x[2]] = None] ELSE veKey
  /\ box' = IF x[1] = "ve" THEN [box EXCEPT ![x[2]] = Fresh] ELSE box
  /\ UNCHANGED <<role, profile, conf, key>>

\* A package task ends; one that fails leaves no AS3.
As3Settles(r) ==
  /\ box[r].as3 = "installing"
  /\ \E s \in {"none", "installed"} : box' = [box EXCEPT ![r].as3 = s]
  /\ OnlyBox

\* AS3 and the partition make BIG-IP restart services and reload its
\* configuration: an admin password set before that is lost at some time after.
Reverts(r) ==
  /\ box[r].pw = "live" /\ box[r].as3 = "installed"
  /\ box' = [box EXCEPT ![r].pw = "unset"] /\ OnlyBox

AccountStep ==
  \/ \E x \in Id : Settles(x) \/ Gone(x)
  \/ \E r \in Runs : As3Settles(r) \/ Reverts(r)
=============================================================================
