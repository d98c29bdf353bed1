------------------------------- MODULE Hosts -------------------------------
(***************************************************************************)
(* The hosts around the cluster: phases 17 (external interface of the TMM   *)
(* node), 17b (jumphost behind an EICE) and 17e (BIG-IP VE) of `up`; 17f,    *)
(* which configures the BIG-IP, is in Onboard.  The phases between them      *)
(* touch none of this.                                                      *)
(*                                                                          *)
(* A step is one call that changes AWS, one write to disk or one Save, with *)
(* the reads that decide it.  `faults` counts what goes wrong from outside: *)
(* the process ends at any point, a lookup fails whose error the code       *)
(* drops, an instance is terminated, files of the operator are lost.        *)
(***************************************************************************)
EXTENDS HostAccount

CONSTANT MaxFaults   \* bound: injected faults

ASSUME HostsAssumption == MaxFaults \in Nat

VARIABLES
  disk,     \* .awsbnkctl/<cluster>/state.env
  pem,      \* bigip-ssh.pem beside it: whose key it holds, or Torn
  mem,      \* the State of the running process
  pc,       \* where the running command is, "idle" when none runs
  done,     \* what the last command reported
  run,      \* number of the last `up`
  misled,   \* this command went on with less than the truth: a dropped error, or
            \* an id of state.env that is not the resource there is
  pemLost,  \* the PEM was lost, or a process ended before it was written
  faults

vars == <<cloud, disk, pem, mem, pc, done, run, misled, pemLost, faults>>

Keys == Kinds \cup {"eiceSg", "onboarded"}
EmptyState == [n \in Keys |-> None]
Torn == MaxUps + 1      \* a PEM that was not written to its end

OnboardPoints == {"pemCopy", "gate", "probe", "shell", "lockout", "password", "ltm", "vlans",
                  "selfIps", "as3", "as3Poll", "cis", "finalize", "verify", "save17f"}
UpPoints == {"tmm", "tmmOff", "tmmAttach", "save17",
             "role", "profile", "join", "jhSg", "eice", "eiceWait", "ssh", "jh", "jhWait",
             "jhEni", "jhEniOff", "jhEniAttach", "save17b",
             "key", "keyCreate", "pem", "veSg", "veRules", "veMgmt", "veExt", "veExtOff",
             "ve", "veWait", "save17e"} \cup OnboardPoints
DownPoints == {"veEnd", "veEnding", "veMgmtDown", "veExtDown", "veSgDown", "keyDown", "pemDown",
               "save17eDown", "jhEnd", "jhEnding", "jhEniDown", "eiceDown", "eiceGone",
               "jhSgRefs", "jhSgDown", "leave", "profileDown", "roleDown", "save17bDown",
               "tmmOwn", "tmmTagged", "save17Down"}

\* Every variable has its type.
TypeOK ==
  /\ AccountTypeOK
  /\ disk \in [Keys -> Ref] /\ mem \in [Keys -> Ref] /\ pem \in Ref \cup {Torn}
  /\ pc \in {"idle"} \cup UpPoints \cup DownPoints
  /\ done \in {"none", "up", "down", "up refused", "down refused"} /\ run \in Ref
  /\ misled \in BOOLEAN /\ pemLost \in BOOLEAN /\ faults \in 0 .. MaxFaults

Init ==
  /\ AccountInit
  /\ disk = EmptyState /\ mem = EmptyState /\ pem = None /\ pc = "idle" /\ done = "none"
  /\ run = 0 /\ misled = FALSE /\ pemLost = FALSE /\ faults = 0

-----------------------------------------------------------------------------
(* Control.                                                                 *)

files == <<disk, pem, pemLost>>

At(p) == pc = p
Goto(p) == pc' = p /\ UNCHANGED <<done, run>>
Told == UNCHANGED <<misled, faults>>
Go(p) == Goto(p) /\ Told /\ UNCHANGED <<files, mem>>
Fault == faults < MaxFaults /\ faults' = faults + 1
Set(n, r) == mem' = [mem EXCEPT ![n] = r]

\* The command returns: what it held in memory is gone.
End(report) == pc' = "idle" /\ done' = report /\ mem' = EmptyState /\ UNCHANGED run

\* An error return of the code itself.
Refuse == End(IF pc \in UpPoints THEN "up refused" ELSE "down refused")
Fail == Refuse /\ Told /\ UNCHANGED <<cloud, files>>

\* A call whose error the code drops: it went well, or it costs one fault.
Dropped(ok) == IF ok THEN Told ELSE Fault /\ misled' = TRUE

\* st.Save() at the end of a phase, on to the next.
SaveAnd(p) == disk' = mem /\ Goto(p) /\ Told /\ UNCHANGED <<cloud, pem, pemLost, mem>>

StartUp ==
  /\ At("idle") /\ run < MaxUps
  /\ run' = run + 1 /\ mem' = disk /\ pc' = "tmm" /\ done' = "none" /\ misled' = FALSE
  /\ UNCHANGED <<cloud, files, faults>>

StartDown ==
  /\ At("idle")
  /\ mem' = disk /\ pc' = "veEnd" /\ done' = "none" /\ misled' = FALSE
  /\ UNCHANGED <<cloud, files, run, faults>>

\* The process ends: crash, expired credentials, throttling, a poll that times
\* out.  A PEM that was being written may be there in part.
Abort ==
  /\ ~At("idle") /\ Fault /\ End("none")
  /\ pem' \in (IF At("pem") THEN {pem, Torn} ELSE {pem})
  /\ pemLost' = (pemLost \/ At("pem"))
  /\ UNCHANGED <<cloud, disk, misled>>

\* The operator works from another checkout, .awsbnkctl/ was removed, or the PEM
\* alone was.
LoseFiles ==
  /\ At("idle") /\ Fault /\ done' = "none" /\ pem' = None /\ pemLost' = TRUE
  /\ \/ disk # EmptyState /\ disk' = EmptyState
     \/ pem # None /\ UNCHANGED disk
  /\ UNCHANGED <<cloud, mem, pc, run, misled>>

\* Somebody, or EC2, terminates an instance between two commands.
LoseHost ==
  /\ At("idle") /\ Fault /\ done' = "none"
  /\ \E x \in HostKinds \X Runs : status[x] = "ready" /\ Become(x, "deleting")
  /\ OnlyStatus /\ UNCHANGED <<files, mem, pc, run, misled>>

-----------------------------------------------------------------------------
(* How the phases find what there is: the id of state.env, unchecked, else  *)
(* the one found by tag.  A failed lookup finds nothing.                    *)

Known(n) == IF mem[n] # None THEN {mem[n]} ELSE Has(n)

Reuse(n, p) ==
  \E r \in Known(n) : Set(n, r) /\ Goto(p) /\ Told /\ UNCHANGED <<cloud, files>>

Create(n, s, p) ==
  /\ Become(<<n, run>>, s) /\ OnlyStatus /\ Set(n, run) /\ Goto(p) /\ UNCHANGED files

\* Of a kind whose name or address is unique a second one is refused.
New(n, s, p) ==
  /\ mem[n] = None /\ Dropped(Has(n) = {})
  /\ IF Has(n) = {} THEN Create(n, s, p) ELSE Refuse /\ UNCHANGED <<cloud, files>>

-----------------------------------------------------------------------------
(* Phase 17: the external interface of the TMM node.  Nothing about it is   *)
(* unique but its place on the node.  The node's own interface, which gets  *)
(* its check switched off on every up, and the internal one are left out.   *)

TmmFound ==
  /\ At("tmm") /\ Known("tmm") \subseteq Has("tmm") /\ Reuse("tmm", "tmmAttach")

\* eniMAC describes the interface state.env names.
TmmStale == At("tmm") /\ mem["tmm"] \notin Has("tmm") \cup {None} /\ Fail

TmmCreate ==
  /\ At("tmm") /\ mem["tmm"] = None /\ Dropped(Has("tmm") = {})
  /\ Create("tmm", "ready", "tmmOff")

TmmOff == At("tmmOff") /\ Configure(<<"tmm", mem["tmm"]>>) /\ Go("tmmAttach")

\* Device index 3 may hold another interface.
TmmAttach ==
  /\ At("tmmAttach")
  /\ LET e == <<"tmm", mem["tmm"]>>
     IN IF OnHost(Node) \subseteq {e}
        THEN att' = att \cup {<<e, Node>>} /\ OnlyAtt /\ Go("save17")
        ELSE Fail

Save17 == At("save17") /\ SaveAnd("role")

-----------------------------------------------------------------------------
(* Phase 17b: role and profile, security group, EICE, the rule that lets    *)
(* the EICE in, the instance, its second interface.                         *)

Role == At("role") /\ role' = TRUE /\ UNCHANGED profile /\ OnlyIam /\ Go("profile")

\* The role joins a profile this run created.
Profile ==
  /\ At("profile")
  /\ IF profile = "none" THEN profile' = "empty" /\ UNCHANGED role /\ OnlyIam /\ Go("join")
                         ELSE UNCHANGED cloud /\ Go("jhSg")

Join == At("join") /\ profile' = "joined" /\ UNCHANGED role /\ OnlyIam /\ Go("jhSg")

JhSg == At("jhSg") /\ (Reuse("jhSg", "eice") \/ New("jhSg", "ready", "eice"))

\* An endpoint found by tag comes without its security group, in any state.
EiceFound == At("eice") /\ Reuse("eice", "ssh")

SetEice(r) == mem' = [mem EXCEPT !["eice"] = r, !["eiceSg"] = r]

\* A second endpoint is over the quota: the one in the subnet is taken.
EiceCreate ==
  /\ At("eice") /\ mem["eice"] = None /\ Dropped(Has("eice") = {})
  /\ IF Has("eice") = {} THEN Create("eice", "creating", "eiceWait")
     ELSE \E r \in Has("eice") : SetEice(r) /\ Goto("ssh") /\ UNCHANGED <<cloud, files>>

EiceReady ==
  /\ At("eiceWait")
  /\ \/ /\ status[<<"eice", mem["eice"]>>] = "ready"
        /\ SetEice(mem["eice"]) /\ Goto("ssh") /\ Told /\ UNCHANGED <<cloud, files>>
     \/ status[<<"eice", mem["eice"]>>] = "failed" /\ Fail

\* Only when the endpoint's group is known.
Ssh ==
  /\ At("ssh")
  /\ LET s == <<"jhSg", mem["jhSg"]>>
     IN CASE mem["eiceSg"] = None -> UNCHANGED cloud /\ Go("jh")
          [] mem["eiceSg"] # None /\ s[2] \in Has("jhSg") -> Configure(s) /\ Go("jh")
          [] OTHER -> Fail

\* The instance of state.env if it runs, else one found by tag, not waited for.
Running(n) == mem[n] # None /\ status[<<n, mem[n]>>] = "ready"

HostFound(n, p) ==
  /\ \E r \in (IF Running(n) THEN {mem[n]} ELSE Alive(n)) : Set(n, r)
  /\ Goto(p) /\ Told /\ UNCHANGED <<cloud, files>>

JhFound == At("jh") /\ HostFound("jh", "jhEni")

JhLaunch ==
  /\ At("jh") /\ ~Running("jh") /\ Dropped(Alive("jh") = {})
  /\ IF mem["jhSg"] \in Has("jhSg") THEN Create("jh", "creating", "jhWait")
     ELSE Refuse /\ UNCHANGED <<cloud, files>>

Waited(n, p) ==
  CASE status[<<n, mem[n]>>] = "ready" -> UNCHANGED cloud /\ Go(p)
    [] status[<<n, mem[n]>>] \in {"deleting", "none"} -> Fail
    [] OTHER -> FALSE

JhWait == At("jhWait") /\ Waited("jh", "jhEni")

\* Found means attached: only a new interface is configured and attached.
JhEni == At("jhEni") /\ (Reuse("jhEni", "save17b") \/ New("jhEni", "ready", "jhEniOff"))

JhEniOff == At("jhEniOff") /\ Configure(<<"jhEni", mem["jhEni"]>>) /\ Go("jhEniAttach")

\* AttachNetworkInterface is refused by an instance that is not up yet.
JhEniAttach ==
  /\ At("jhEniAttach")
  /\ LET h == <<"jh", mem["jh"]>>
     IN IF status[h] = "ready" /\ OnHost(h) = {}
        THEN att' = att \cup {<< <<"jhEni", mem["jhEni"]>>, h >>} /\ OnlyAtt /\ Go("save17b")
        ELSE Fail

Save17b == At("save17b") /\ SaveAnd("key")

-----------------------------------------------------------------------------
(* Phase 17e: key pair and PEM, security group, interfaces, BIG-IP.  The    *)
(* internal data interface is left out: it is handled as the external one.  *)

\* Mutant: a PEM on disk is taken for the one of a key pair that exists.
KeyReuseBug == At("key") /\ pem # None /\ UNCHANGED cloud /\ Go("veSg")

KeyReuse == At("key") /\ key # None /\ pem # None /\ UNCHANGED cloud /\ Go("veSg")

InUse == mem["ve"] # None /\ mem["ve"] \in Alive("ve")

\* The PEM is gone and the instance of state.env was launched with the key.
KeyRefused == At("key") /\ key # None /\ pem = None /\ InUse /\ Fail

\* A failed describe of the instance counts as not in use.
KeyReplace ==
  /\ At("key") /\ key # None /\ pem = None /\ Dropped(~InUse)
  /\ key' = None /\ OnlyKey /\ Goto("keyCreate") /\ UNCHANGED <<files, mem>>

\* A failed lookup of the key pair: CreateKeyPair refuses the name.
KeyUnseen ==
  /\ At("key") /\ key # None /\ Dropped(FALSE) /\ Refuse /\ UNCHANGED <<cloud, files>>

KeyCreate ==
  /\ At("key") \/ At("keyCreate")
  /\ key = None /\ key' = run /\ OnlyKey /\ Go("pem")

PemWrite ==
  /\ At("pem") /\ pem' = run /\ Goto("veSg") /\ Told /\ UNCHANGED <<cloud, disk, pemLost, mem>>

VeSg == At("veSg") /\ (Reuse("veSg", "veMgmt") \/ New("veSg", "ready", "veRules"))

\* The rules name the jumphost's group.
VeRules ==
  /\ At("veRules")
  /\ IF mem["jhSg"] \in Has("jhSg") THEN Configure(<<"veSg", mem["veSg"]>>) /\ Go("veMgmt")
                                    ELSE Fail

VeMgmt ==
  /\ At("veMgmt")
  /\ \/ Reuse("veMgmt", "veExt")
     \/ mem["veSg"] \in Has("veSg") /\ New("veMgmt", "ready", "veExt")
     \/ mem["veMgmt"] = None /\ mem["veSg"] \notin Has("veSg") /\ Fail

\* Mutant: a found data interface is not configured again.
VeExtFoundBug ==
  /\ At("veExt") /\ Known("veExt") \subseteq Has("veExt") /\ Reuse("veExt", "ve")

\* reassertBigIPENIConfig on an interface that was found.
VeExtFound ==
  /\ At("veExt")
  /\ \E r \in Known("veExt") :
       IF r \in Has("veExt")
       THEN /\ Configure(<<"veExt", r>>) /\ Set("veExt", r)
            /\ Goto("ve") /\ Told /\ UNCHANGED files
       ELSE Fail

VeExtCreate == At("veExt") /\ New("veExt", "ready", "veExtOff")

VeExtOff == At("veExtOff") /\ Configure(<<"veExt", mem["veExt"]>>) /\ Go("ve")

VeFound == At("ve") /\ HostFound("ve", "save17e")

\* RunInstances with both interfaces, refused if one is missing or in use.
VeLaunch ==
  /\ At("ve") /\ ~Running("ve") /\ Dropped(Alive("ve") = {})
  /\ LET E == {<<n, mem[n]>> : n \in {"veMgmt", "veExt"}}
     IN IF \A e \in E : e[2] \in Has(e[1]) /\ HostOf(e) = {}
        THEN /\ Become(<<"ve", run>>, "creating")
             /\ att' = att \cup (E \X {<<"ve", run>>})
             /\ veKey' = [veKey EXCEPT ![run] = key]
             /\ Set("ve", run) /\ Goto("veWait")
             /\ UNCHANGED <<role, profile, conf, key, box, files>>
        ELSE Refuse /\ UNCHANGED <<cloud, files>>

VeWait == At("veWait") /\ Waited("ve", "save17e")

Save17e == At("save17e") /\ SaveAnd("pemCopy")

UpStep ==
  \/ TmmFound \/ TmmStale \/ TmmCreate \/ TmmOff \/ TmmAttach \/ Save17
  \/ Role \/ Profile \/ Join \/ JhSg \/ EiceFound \/ EiceCreate \/ EiceReady \/ Ssh
  \/ JhFound \/ JhLaunch \/ JhWait \/ JhEni \/ JhEniOff \/ JhEniAttach \/ Save17b
  \/ KeyReuse \/ KeyRefused \/ KeyReplace \/ KeyUnseen \/ KeyCreate \/ PemWrite
  \/ VeSg \/ VeRules \/ VeMgmt \/ VeExtFound \/ VeExtCreate \/ VeExtOff
  \/ VeFound \/ VeLaunch \/ VeWait \/ Save17e
=============================================================================
