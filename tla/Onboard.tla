------------------------------ MODULE Onboard ------------------------------
(***************************************************************************)
(* Phase 17f of `up`: the BIG-IP of phase 17e is configured through the      *)
(* jumphost of phase 17b.  Every step is one SSH command (of the script that *)
(* makes the data plane, one of its parts).  Left out: the password file,    *)
(* which is written before and shredded after what reads it, and the RPM.    *)
(***************************************************************************)
EXTENDS Hosts

Box == box[mem["ve"]]

\* The tunnel: an endpoint that is up and let in by the jumphost's group.
JumphostUp ==
  /\ \A n \in {"jh", "eice"} : status[<<n, mem[n]>>] = "ready"
  /\ <<"jhSg", mem["jhSg"]>> \in conf

\* The rules that let the jumphost reach the BIG-IP, and the PEM that opens it.
Reachable == <<"veSg", mem["veSg"]>> \in conf
Opens == pem = veKey[mem["ve"]]

On(f, v, p) ==
  /\ box' = [box EXCEPT ![mem["ve"]][f] = v]
  /\ OnlyBox /\ Goto(p) /\ Told /\ UNCHANGED <<files, mem>>

\* A setting that is made again is tolerated.
Makes(x, p) == On("has", Box.has \cup {x}, p)

PemCopy ==
  At("pemCopy") /\ IF JumphostUp THEN UNCHANGED cloud /\ Go("gate") ELSE Fail

\* Until the REST framework answers the jumphost, or the budget is used up.
Gate ==
  /\ At("gate")
  /\ CASE ~Reachable -> Fail
       [] Reachable /\ status[<<"ve", mem["ve"]>>] = "ready" -> UNCHANGED cloud /\ Go("probe")
       [] OTHER -> FALSE

\* Mutant: a token and AS3 are enough.
OnboardedBug == Opens /\ "bash" \in Box.has /\ Box.pw # "unset" /\ Box.as3 = "installed"

\* What the probe takes for an onboarded box: a token, AS3, the partition.  The
\* script needs bash.
AlreadyOnboarded ==
  /\ Opens /\ "bash" \in Box.has /\ Box.pw # "unset"
  /\ Box.as3 = "installed" /\ "cis" \in Box.has

\* The rest is skipped, the durable password with it.
Skip ==
  /\ At("probe") /\ AlreadyOnboarded
  /\ Set("onboarded", run) /\ misled' = (misled \/ Box.pw # "durable")
  /\ Goto("save17f") /\ UNCHANGED <<cloud, files, faults>>

\* A probe that fails finds nothing.
Proceed ==
  /\ At("probe") /\ Dropped(~AlreadyOnboarded)
  /\ Goto("shell") /\ UNCHANGED <<cloud, files, mem>>

\* In either shell one of the two forms of the command works.
Shell == At("shell") /\ IF Opens THEN Makes("bash", "lockout") ELSE Fail

Lockout == At("lockout") /\ Makes("lockoutOff", "password")

\* Set and saved; what was durable stays so.
Password ==
  At("password") /\ On("pw", IF Box.pw = "durable" THEN "durable" ELSE "live", "ltm")

Ltm == At("ltm") /\ Makes("ltm", "vlans")

\* Mutant: `tmsh create` of what is there fails the script.
VlansBug == At("vlans") /\ IF "vlans" \in Box.has THEN Fail ELSE Makes("vlans", "selfIps")

Vlans == At("vlans") /\ Makes("vlans", "selfIps")

SelfIps == At("selfIps") /\ Makes("selfIps", "as3")

As3Seen == Box.as3 = "installed" /\ Box.pw # "unset"

As3Found == At("as3") /\ As3Seen /\ UNCHANGED cloud /\ Go("cis")

\* An answer without a task id is an error, as the one without a password is.
As3Post ==
  /\ At("as3") /\ Box.pw # "unset" /\ Dropped(~As3Seen)
  /\ box' = [box EXCEPT ![mem["ve"]].as3 = IF @ = "installed" THEN @ ELSE "installing"]
  /\ OnlyBox /\ Goto("as3Poll") /\ UNCHANGED <<files, mem>>

\* "already installed" is as good as FINISHED.
As3Poll ==
  At("as3Poll") /\ As3Seen /\ UNCHANGED cloud /\ Go("cis")

\* FAILED, or no answer before the deadline.
As3Refused ==
  /\ \/ At("as3") /\ Box.pw = "unset"
     \/ At("as3Poll") /\ (Box.pw = "unset" \/ Box.as3 = "none")
  /\ Fail

Cis == At("cis") /\ Makes("cis", "finalize")

\* restjavad is restarted first; the password is set again and saved.
Finalize == At("finalize") /\ On("pw", "durable", "verify")

\* Token login, the way CIS logs in.
Verify ==
  /\ At("verify")
  /\ IF Box.pw = "unset" THEN Fail
     ELSE Set("onboarded", run) /\ Goto("save17f") /\ Told /\ UNCHANGED <<cloud, files>>

UpDone ==
  /\ At("save17f") /\ disk' = mem /\ End("up") /\ Told /\ UNCHANGED <<cloud, pem, pemLost>>

OnboardStep ==
  \/ PemCopy \/ Gate \/ Skip \/ Proceed \/ Shell \/ Lockout \/ Password \/ Ltm
  \/ Vlans \/ SelfIps \/ As3Found \/ As3Post \/ As3Poll \/ As3Refused
  \/ Cis \/ Finalize \/ Verify \/ UpDone
=============================================================================
