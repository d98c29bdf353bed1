----------------------------- MODULE HostsProof -----------------------------
(***************************************************************************)
(* Proofs about the hosts around the cluster: for any number of runs and    *)
(* faults, what a successful `up` leaves, that the PEM on disk opens the    *)
(* BIG-IP, what a successful `down` leaves, and for what a command stops    *)
(* with an error of its own.                                                *)
(*                                                                          *)
(* The argument: a command is a path of points (Flow, Arrivals, Onward and  *)
(* their namesakes for `down`), each variable is changed by few steps       *)
(* (Frames, MemSteps, StatusSteps), so a fact once established at a point   *)
(* holds at every later one.  Across commands, names and fixed addresses    *)
(* are unique, so of most kinds there is one resource and every id kept is  *)
(* its own (Single, Records); a BIG-IP stands on its management interface,  *)
(* which cannot be taken from it (Held), and is lost sight of only at the   *)
(* price Sight names, which is what keeps the key pair, the PEM and the     *)
(* BIG-IP together (Pair).  What is only so while nothing has gone wrong is *)
(* kept apart (Jumphost, Endpoint, Opened, Rules).                          *)
(***************************************************************************)
EXTENDS HostsProps, TLAPS

-----------------------------------------------------------------------------
(* Where a command is.                                                      *)

\* The points of `up` past each thing it makes sure of.
FromRole    == UpPoints \ {"tmm", "tmmOff", "tmmAttach", "save17"}
FromTmm     == FromRole \cup {"save17"}
FromEice    == FromRole \ {"role", "profile", "join", "jhSg"}
FromSsh     == FromEice \ {"eice", "eiceWait"}
FromJh      == FromSsh \ {"ssh", "jh"}
FromKey     == FromJh \ {"jhWait", "jhEni", "jhEniOff", "jhEniAttach", "save17b"}
FromPem     == FromKey \ {"key", "keyCreate"}
FromVeSg    == FromPem \ {"pem"}
FromVeMgmt  == FromVeSg \ {"veSg", "veRules"}
FromVeExt   == FromVeMgmt \ {"veMgmt", "veExt"}
FromVe      == FromVeExt \ {"veExtOff", "ve"}
FromGate    == OnboardPoints \ {"pemCopy"}

\* The points of `down` past each thing it deletes.
PastVe      == DownPoints \ {"veEnd"}
PastMgmt    == PastVe \ {"veEnding", "veMgmtDown"}
PastExt     == PastMgmt \ {"veExtDown"}
PastVeSg    == PastExt \ {"veSgDown"}
PastKey     == PastVeSg \ {"keyDown"}
PastPem     == PastKey \ {"pemDown"}
PastSave17e == PastPem \ {"save17eDown"}
PastJh      == PastSave17e \ {"jhEnd"}
PastJhEni   == PastJh \ {"jhEnding", "jhEniDown"}
PastEice    == PastJhEni \ {"eiceDown"}
PastRefs    == PastEice \ {"eiceGone", "jhSgRefs"}
PastJhSg    == PastRefs \ {"jhSgDown"}
PastRole    == {"save17bDown", "tmmOwn", "tmmTagged", "save17Down"}
PastSave17b == {"tmmOwn", "tmmTagged", "save17Down"}

-----------------------------------------------------------------------------
(* The inductive invariant.                                                 *)

\* The number of the `up`, the report, and what is held in memory.
Control ==
  /\ pc \in UpPoints => run \in Runs
  /\ done # "none" => pc = "idle"
  /\ pc = "idle" => mem = EmptyState

\* What takes no time is there or not; an instance does not fail.
Plain ==
  /\ \A n \in Kinds \ {"jh", "ve", "eice"}, r \in Runs : status[<<n, r>>] \in {"none", "ready"}
  /\ \A n \in {"jh", "ve"}, r \in Runs : status[<<n, r>>] # "failed"

\* The kinds with a unique name or address: there is one, and the ids that are
\* kept are its own, while it exists.
Unique == {"jhSg", "jhEni", "veSg", "veMgmt", "veExt"}
Single  == \A n \in Unique : \A a, b \in Has(n) : a = b
Records == \A n \in Unique : \A r \in Has(n) : disk[n] \in {None, r} /\ mem[n] \in {None, r}
Loaded  == pc \in UpPoints => \A n \in Unique : disk[n] \in {None, mem[n]}

\* A BIG-IP is recorded with its management interface.
Paired ==
  /\ disk["ve"] # None => disk["veMgmt"] # None
  /\ pc \in UpPoints \cup {"veEnd"} \cup PastSave17e => (mem["ve"] # None => mem["veMgmt"] # None)
  /\ pc \in {"veEnd", "veEnding", "veMgmtDown"} /\ mem["veMgmt"] = None => disk["veMgmt"] = None

\* What hangs on what: interfaces on hosts of their kind that exist, each once
\* where it is pinned; a BIG-IP on its management interface, that on its group.
HostKind(n) == CASE n = "tmm" -> "node" [] n = "jhEni" -> "jh" [] OTHER -> "ve"
Attached ==
  /\ \A a \in att : a[2][1] = HostKind(a[1][1]) /\ (a[2] # Node => a[2][2] \in Has(a[2][1]))
  /\ \A a, b \in att : a[1] = b[1] /\ a[1][1] = "veMgmt" => a[2] = b[2]
Held ==
  /\ \A r \in Has("ve") : \E m \in Has("veMgmt") : << <<"veMgmt", m>>, <<"ve", r>> >> \in att
  /\ Has("veMgmt") # {} => Has("veSg") # {}
  /\ ~Unseen => \A r \in Alive("ve") : \E m \in Has("veMgmt"), e \in Has("veExt") :
                  OnHost(<<"ve", r>>) = {<<"veMgmt", m>>, <<"veExt", e>>}

\* What it takes to lose sight of a BIG-IP.
Sight ==
  Alive("ve") # {} =>
    /\ disk["veMgmt"] = None /\ pc \notin {"veWait", "save17e"} => faults > 0
    /\ pc \in {"veEnding", "veMgmtDown"} /\ mem["veMgmt"] = None => faults > 1
    /\ pc \in PastMgmt => Unseen
    /\ pc \in PastVeSg => Orphaned

\* The key pair, the PEM and the BIG-IP go together.
Pair ==
  /\ pc = "pem" => key = run
  /\ pc \in FromPem => key # None
  /\ pc \in PastKey => key = None
  /\ ~pemLost => /\ key # None /\ pc # "pem" => pem = key
                 /\ Orphaned \/ \A r \in Alive("ve") : veKey[r] = key /\ pem = key /\ key # None

\* What a running `up` has made.
TmmBuilt ==
  /\ pc \in {"tmmOff", "tmmAttach"} => mem["tmm"] # None
  /\ pc \in FromTmm => << <<"tmm", mem["tmm"]>>, Node >> \in att
JhBuilt ==
  /\ pc \in FromJh => mem["jh"] \in Alive("jh")
  /\ pc \in {"jhEniOff", "jhEniAttach"} => mem["jhEni"] # None
VeBuilt ==
  /\ pc = "veRules" => mem["veSg"] \in Has("veSg")
  /\ pc \in FromVeExt => mem["veExt"] \in Has("veExt")
  /\ pc \in FromVeExt \ {"veExtOff"} => <<"veExt", mem["veExt"]>> \in conf
  /\ pc \in FromVeMgmt \ {"veMgmt"} => mem["veMgmt"] # None
  /\ pc \in FromVeMgmt => mem["veSg"] # None
  /\ pc \in FromVe => mem["ve"] \in Alive("ve")
GateBuilt == pc \in FromGate => <<"jhSg", mem["jhSg"]>> \in conf

\* What is configured on a BIG-IP: the partition comes last but for the password.
Made(p) ==
  CASE p = "lockout"               -> {"bash"}
    [] p = "password"              -> {"bash", "lockoutOff"}
    [] p = "ltm"                   -> {"bash", "lockoutOff"}
    [] p = "vlans"                 -> {"bash", "lockoutOff", "ltm"}
    [] p = "selfIps"               -> {"bash", "lockoutOff", "ltm", "vlans"}
    [] p \in {"as3", "as3Poll", "cis"} -> Settings \ {"cis"}
    [] p \in {"finalize", "verify", "save17f"} -> Settings
    [] OTHER -> {}
Boxed ==
  /\ \A r \in Runs : "cis" \in box[r].has => box[r].has = Settings /\ box[r].as3 = "installed"
  /\ pc \in OnboardPoints => Made(pc) \subseteq Box.has
  /\ pc = "cis" => Box.as3 = "installed"
  /\ pc = "verify" => Box.pw = "durable"
  /\ pc = "save17f" => Box.pw = "durable" \/ misled

\* While nothing has gone wrong, the jumphost is there with its interface, both
\* recorded, or neither is.
WiredAt(j, e) ==
  /\ Has("jh") = {j} /\ status[<<"jh", j>>] = "ready" /\ Has("jhEni") = {e}
  /\ OnHost(<<"jh", j>>) = {<<"jhEni", e>>}
BareAt(j)  == Has("jh") = {j} /\ status[<<"jh", j>>] = "ready" /\ OnHost(<<"jh", j>>) = {}
JhWired(m) == \E j, e \in Runs : m["jh"] = j /\ m["jhEni"] = e /\ WiredAt(j, e)
JhBare     == \E j \in Runs : mem["jh"] = j /\ BareAt(j)
NoJh(m)    == m["jh"] = None /\ m["jhEni"] = None /\ Has("jh") = {} /\ Has("jhEni") = {}
JhRest == ({"idle"} \cup UpPoints \cup DownPoints)
            \ ({"jhWait", "jhEni", "jhEniOff", "jhEniAttach", "save17b"} \cup (PastJh \ PastSave17b))
Jumphost ==
  faults = 0 =>
    /\ pc \in JhRest => JhWired(disk) \/ NoJh(disk)
    /\ pc \in JhRest \ {"idle"} => mem["jh"] = disk["jh"] /\ mem["jhEni"] = disk["jhEni"]
    /\ pc = "jhWait" => \E j \in Runs : mem["jh"] = j /\ Has("jh") = {j} /\ OnHost(<<"jh", j>>) = {}
    /\ pc = "jhWait" => Has("jhEni") = {} /\ mem["jhEni"] = None
    /\ pc = "jhEni" => JhWired(mem) \/ (JhBare /\ Has("jhEni") = {} /\ mem["jhEni"] = None)
    /\ pc \in {"jhEniOff", "jhEniAttach"} => JhBare /\ Has("jhEni") = {mem["jhEni"]}
    /\ pc = "save17b" => JhWired(mem)
    /\ pc = "jhEnding" => Has("jh") \subseteq {mem["jh"]}
    /\ pc \in {"jhEnding", "jhEniDown"} => Has("jhEni") \subseteq {mem["jhEni"]}
    /\ pc \in PastJh \ (PastSave17b \cup {"jhEnding"}) => Has("jh") = {}
    /\ pc \in PastJhEni \ PastSave17b => Has("jhEni") = {}

\* Likewise the endpoint and the group of the jumphost.
Failed == \E r \in Runs : status[<<"eice", r>>] = "failed"
Endpoint ==
  faults = 0 =>
    /\ \A a, b \in Has("eice") : a = b
    /\ \A r \in Runs : /\ status[<<"eice", r>>] = "creating" => pc = "eiceWait" /\ r = mem["eice"]
                       /\ status[<<"eice", r>>] = "deleting" => pc = "eiceGone" /\ r = mem["eice"]
    /\ pc \notin PastEice \ PastSave17b => disk["eice"] \in {None} \cup Has("eice")
    /\ pc \notin PastJhSg \ PastSave17b => disk["jhSg"] \in {None} \cup Has("jhSg")
    /\ pc \in UpPoints => /\ mem["eice"] \in {None} \cup Has("eice")
                          /\ mem["jhSg"] \in {None} \cup Has("jhSg")
                          /\ disk["eice"] \in {None, mem["eice"]}
    /\ pc \in (DownPoints \ PastEice) \cup PastSave17b => mem["eice"] = disk["eice"]
    /\ pc \in (DownPoints \ PastRefs) \cup PastSave17b => mem["jhSg"] = disk["jhSg"]
    /\ pc \in DownPoints => mem["eiceSg"] = disk["eiceSg"]
    /\ pc \in FromEice => mem["jhSg"] # None
    /\ pc \in FromSsh \cup {"eiceWait"} => mem["eice"] # None
    /\ pc = "eiceGone" => Has("eice") \subseteq {mem["eice"]}
    /\ pc \in PastEice \ {"eiceGone"} => Has("eice") = {}

\* Unless an endpoint failed, it is recorded with its group, and port 22 is open to it.
Kept(m) == m["eiceSg"] # None /\ m["jhSg"] # None /\ <<"jhSg", m["jhSg"]>> \in conf
Window  == {"eiceWait", "ssh", "jh", "jhWait", "jhEni", "jhEniOff", "jhEniAttach", "save17b"}
Opened ==
  faults = 0 /\ ~Failed =>
    /\ Has("eice") # {} /\ pc \notin Window \cup PastEice => disk["eice"] # None /\ Kept(disk)
    /\ pc \in UpPoints /\ mem["eice"] # None /\ pc # "eiceWait" => mem["eiceSg"] # None
    /\ pc \in FromSsh \ {"ssh"} => Kept(mem)

\* So are the rules of the BIG-IP's group.
Rules ==
  faults = 0 =>
    /\ \A r \in Has("veSg") : pc = "veRules" \/ <<"veSg", r>> \in conf
    /\ pc \in PastVeSg => Has("veSg") = {}

\* What a `down` that was not misled has passed is gone.
VeGone ==
  ~misled =>
    /\ pc \in PastVe => Alive("ve") = {}
    /\ pc \in PastMgmt => Has("veMgmt") = {}
    /\ pc \in PastExt => Has("veExt") = {}
    /\ pc \in PastVeSg => Has("veSg") = {}
    /\ pc \in PastPem => pem = None
JhGone ==
  /\ ~misled =>
       /\ pc \in PastJh => Alive("jh") = {}
       /\ pc \in PastJhEni => Has("jhEni") = {}
       /\ pc = "eiceGone" => Has("eice") \subseteq {mem["eice"]}
       /\ pc \in PastEice \ {"eiceGone"} => Has("eice") = {}
       /\ pc = "jhSgDown" /\ mem["jhSg"] # None => \A r \in Runs : <<"veSg", r>> \notin conf
       /\ pc = "jhSgDown" /\ mem["jhSg"] = None => Has("jhSg") = {}
       /\ pc \in PastJhSg => Has("jhSg") = {} \/ faults > 0
       /\ pc = "save17Down" => Has("tmm") = {}
  /\ pc = "roleDown" \/ pc \in PastRole => profile = "none"
  /\ pc \in PastRole => role = FALSE

\* What was reported goes on holding while the account goes on moving.
IInv ==
  /\ TypeOK /\ Control /\ Plain /\ Single /\ Records /\ Loaded /\ Paired
  /\ Attached /\ Held /\ Sight /\ Pair
  /\ TmmBuilt /\ JhBuilt /\ VeBuilt /\ GateBuilt /\ Boxed /\ UpBuilds
  /\ Jumphost /\ Endpoint /\ Opened /\ Rules
  /\ VeGone /\ JhGone /\ DownClean

-----------------------------------------------------------------------------
(* What the steps do, by what they lead to and by what they change.         *)

UpMove == UpStep \/ OnboardStep

LEMMA RefFacts == /\ Runs \subseteq Ref /\ None \in Ref /\ None \notin Runs /\ Ref \subseteq Nat
                  /\ Ref \ {None} = Runs /\ Torn \notin Ref /\ MaxFaults \in Nat
  BY HostAccountAssumption, HostsAssumption DEF Runs, Ref, None, Torn

\* Which steps change what.
LEMMA Frames == ASSUME Next PROVE
  /\ role' = role \/ Role \/ RoleDown
  /\ profile' = profile \/ Profile \/ Join \/ Leave \/ ProfileDown
  /\ key' = key \/ KeyReplace \/ KeyCreate \/ KeyDown
  /\ veKey' = veKey \/ VeLaunch \/ Outside
  /\ box' = box \/ Shell \/ Lockout \/ Password \/ Ltm \/ Vlans \/ SelfIps \/ As3Post \/ Cis
     \/ Finalize \/ Outside
  /\ att' = att \/ TmmAttach \/ JhEniAttach \/ VeLaunch \/ VeMgmtDown \/ VeExtDown
     \/ JhEniDown \/ TmmOwn \/ TmmTagged \/ Outside
  /\ conf' = conf \/ TmmOff \/ Ssh \/ JhEniOff \/ VeRules \/ VeExtFound \/ VeExtOff
     \/ VeMgmtDown \/ VeExtDown \/ VeSgDown \/ JhEniDown \/ JhSgRefs \/ JhSgDown \/ TmmOwn
     \/ TmmTagged
  /\ pem' = pem \/ Abort \/ LoseFiles \/ PemWrite \/ PemDown
  /\ pemLost' = pemLost \/ Abort \/ LoseFiles
  /\ disk' = disk \/ Save17 \/ Save17b \/ Save17e \/ UpDone \/ LoseFiles \/ Save17eDown
     \/ Save17bDown \/ DownDone
  /\ status' = status \/ TmmCreate \/ JhSg \/ EiceCreate \/ JhLaunch \/ JhEni \/ VeSg
     \/ VeMgmt \/ VeExtCreate \/ VeLaunch \/ VeEnd \/ VeMgmtDown \/ VeExtDown \/ VeSgDown
     \/ JhEnd \/ JhEniDown \/ EiceDown \/ JhSgDown \/ TmmOwn \/ TmmTagged \/ LoseHost
     \/ Outside
<1> USE DEF files, cloud,
    Goto, Go, Told, Fault, End, Refuse, Fail, Dropped, SaveAnd, Remove, OnlyStatus, OnlyConf,
    OnlyAtt, OnlyGone, OnlyIam, OnlyKey, OnlyBox, Configure
<1>0. CASE StartUp \/ StartDown BY <1>0 DEF StartUp, StartDown
<1>5. CASE Abort BY <1>5 DEF Abort
<1>6. CASE LoseFiles BY <1>6 DEF LoseFiles
<1>7. CASE LoseHost BY <1>7 DEF LoseHost
<1>8. CASE Outside BY <1>8 DEF Outside, AccountStep, Settles, Gone, As3Settles, Reverts
<1>1. CASE UpStep
  <2>1. role' = role \/ Role
    BY <1>1 DEF UpStep,
      TmmFound, TmmStale, TmmCreate, TmmOff, TmmAttach, Save17, Profile, Join, JhSg, EiceFound,
      EiceCreate, EiceReady, Ssh, JhFound, JhLaunch, JhWait, JhEni, JhEniOff, JhEniAttach, Save17b,
      KeyReuse, KeyRefused, KeyReplace, KeyUnseen, KeyCreate, PemWrite, VeSg, VeRules, VeMgmt,
      VeExtFound, VeExtCreate, VeExtOff, VeFound, VeLaunch, VeWait, Save17e, Reuse, Create, New,
      SetEice, HostFound, Waited, Makes, On
  <2>2. profile' = profile \/ Profile \/ Join
    BY <1>1 DEF UpStep,
      TmmFound, TmmStale, TmmCreate, TmmOff, TmmAttach, Save17, Role, JhSg, EiceFound, EiceCreate,
      EiceReady, Ssh, JhFound, JhLaunch, JhWait, JhEni, JhEniOff, JhEniAttach, Save17b, KeyReuse,
      KeyRefused, KeyReplace, KeyUnseen, KeyCreate, PemWrite, VeSg, VeRules, VeMgmt, VeExtFound,
      VeExtCreate, VeExtOff, VeFound, VeLaunch, VeWait, Save17e, Reuse, Create, New, SetEice,
      HostFound, Waited, Makes, On
  <2>3. key' = key \/ KeyReplace \/ KeyCreate
    BY <1>1 DEF UpStep,
      TmmFound, TmmStale, TmmCreate, TmmOff, TmmAttach, Save17, Role, Profile, Join, JhSg,
      EiceFound, EiceCreate, EiceReady, Ssh, JhFound, JhLaunch, JhWait, JhEni, JhEniOff,
      JhEniAttach, Save17b, KeyReuse, KeyRefused, KeyUnseen, PemWrite, VeSg, VeRules, VeMgmt,
      VeExtFound, VeExtCreate, VeExtOff, VeFound, VeLaunch, VeWait, Save17e, Reuse, Create, New,
      SetEice, HostFound, Waited, Makes, On
  <2>4. veKey' = veKey \/ VeLaunch
    BY <1>1 DEF UpStep,
      TmmFound, TmmStale, TmmCreate, TmmOff, TmmAttach, Save17, Role, Profile, Join, JhSg,
      EiceFound, EiceCreate, EiceReady, Ssh, JhFound, JhLaunch, JhWait, JhEni, JhEniOff,
      JhEniAttach, Save17b, KeyReuse, KeyRefused, KeyReplace, KeyUnseen, KeyCreate, PemWrite, VeSg,
      VeRules, VeMgmt, VeExtFound, VeExtCreate, VeExtOff, VeFound, VeWait, Save17e, Reuse, Create,
      New, SetEice, HostFound, Waited, Makes, On
  <2>5. box' = box
    BY <1>1 DEF UpStep,
      TmmFound, TmmStale, TmmCreate, TmmOff, TmmAttach, Save17, Role, Profile, Join, JhSg,
      EiceFound, EiceCreate, EiceReady, Ssh, JhFound, JhLaunch, JhWait, JhEni, JhEniOff,
      JhEniAttach, Save17b, KeyReuse, KeyRefused, KeyReplace, KeyUnseen, KeyCreate, PemWrite, VeSg,
      VeRules, VeMgmt, VeExtFound, VeExtCreate, VeExtOff, VeFound, VeLaunch, VeWait, Save17e, Reuse,
      Create, New, SetEice, HostFound, Waited, Makes, On
  <2>6. att' = att \/ TmmAttach \/ JhEniAttach \/ VeLaunch
    BY <1>1 DEF UpStep,
      TmmFound, TmmStale, TmmCreate, TmmOff, Save17, Role, Profile, Join, JhSg, EiceFound,
      EiceCreate, EiceReady, Ssh, JhFound, JhLaunch, JhWait, JhEni, JhEniOff, Save17b, KeyReuse,
      KeyRefused, KeyReplace, KeyUnseen, KeyCreate, PemWrite, VeSg, VeRules, VeMgmt, VeExtFound,
      VeExtCreate, VeExtOff, VeFound, VeWait, Save17e, Reuse, Create, New, SetEice, HostFound,
      Waited, Makes, On
  <2>7. conf' = conf \/ TmmOff \/ Ssh \/ JhEniOff \/ VeRules \/ VeExtFound \/ VeExtOff
    BY <1>1 DEF UpStep,
      TmmFound, TmmStale, TmmCreate, TmmAttach, Save17, Role, Profile, Join, JhSg, EiceFound,
      EiceCreate, EiceReady, JhFound, JhLaunch, JhWait, JhEni, JhEniAttach, Save17b, KeyReuse,
      KeyRefused, KeyReplace, KeyUnseen, KeyCreate, PemWrite, VeSg, VeMgmt, VeExtCreate, VeFound,
      VeLaunch, VeWait, Save17e, Reuse, Create, New, SetEice, HostFound, Waited, Makes, On
  <2>8. pem' = pem \/ PemWrite
    BY <1>1 DEF UpStep,
      TmmFound, TmmStale, TmmCreate, TmmOff, TmmAttach, Save17, Role, Profile, Join, JhSg,
      EiceFound, EiceCreate, EiceReady, Ssh, JhFound, JhLaunch, JhWait, JhEni, JhEniOff,
      JhEniAttach, Save17b, KeyReuse, KeyRefused, KeyReplace, KeyUnseen, KeyCreate, VeSg, VeRules,
      VeMgmt, VeExtFound, VeExtCreate, VeExtOff, VeFound, VeLaunch, VeWait, Save17e, Reuse, Create,
      New, SetEice, HostFound, Waited, Makes, On
  <2>9. pemLost' = pemLost
    BY <1>1 DEF UpStep,
      TmmFound, TmmStale, TmmCreate, TmmOff, TmmAttach, Save17, Role, Profile, Join, JhSg,
      EiceFound, EiceCreate, EiceReady, Ssh, JhFound, JhLaunch, JhWait, JhEni, JhEniOff,
      JhEniAttach, Save17b, KeyReuse, KeyRefused, KeyReplace, KeyUnseen, KeyCreate, PemWrite, VeSg,
      VeRules, VeMgmt, VeExtFound, VeExtCreate, VeExtOff, VeFound, VeLaunch, VeWait, Save17e, Reuse,
      Create, New, SetEice, HostFound, Waited, Makes, On
  <2>10. disk' = disk \/ Save17 \/ Save17b \/ Save17e
    BY <1>1 DEF UpStep,
      TmmFound, TmmStale, TmmCreate, TmmOff, TmmAttach, Role, Profile, Join, JhSg, EiceFound,
      EiceCreate, EiceReady, Ssh, JhFound, JhLaunch, JhWait, JhEni, JhEniOff, JhEniAttach, KeyReuse,
      KeyRefused, KeyReplace, KeyUnseen, KeyCreate, PemWrite, VeSg, VeRules, VeMgmt, VeExtFound,
      VeExtCreate, VeExtOff, VeFound, VeLaunch, VeWait, Reuse, Create, New, SetEice, HostFound,
      Waited, Makes, On
  <2>11. status' = status \/ TmmCreate \/ JhSg \/ EiceCreate \/ JhLaunch \/ JhEni \/ VeSg
        \/ VeMgmt \/ VeExtCreate \/ VeLaunch
    BY <1>1 DEF UpStep,
      TmmFound, TmmStale, TmmOff, TmmAttach, Save17, Role, Profile, Join, EiceFound, EiceReady, Ssh,
      JhFound, JhWait, JhEniOff, JhEniAttach, Save17b, KeyReuse, KeyRefused, KeyReplace, KeyUnseen,
      KeyCreate, PemWrite, VeRules, VeExtFound, VeExtOff, VeFound, VeWait, Save17e, Reuse, Create,
      New, SetEice, HostFound, Waited, Makes, On
  <2>12. QED BY <2>1, <2>2, <2>3, <2>4, <2>5, <2>6, <2>7, <2>8, <2>9, <2>10, <2>11
<1>2. CASE OnboardStep
  <2>1. role' = role
    BY <1>2 DEF OnboardStep,
      PemCopy, Gate, Skip, Proceed, Shell, Lockout, Password, Ltm, Vlans, SelfIps, As3Found,
      As3Post, As3Poll, As3Refused, Cis, Finalize, Verify, UpDone, Reuse, Create, New, SetEice,
      HostFound, Waited, Makes, On
  <2>2. profile' = profile
    BY <1>2 DEF OnboardStep,
      PemCopy, Gate, Skip, Proceed, Shell, Lockout, Password, Ltm, Vlans, SelfIps, As3Found,
      As3Post, As3Poll, As3Refused, Cis, Finalize, Verify, UpDone, Reuse, Create, New, SetEice,
      HostFound, Waited, Makes, On
  <2>3. key' = key
    BY <1>2 DEF OnboardStep,
      PemCopy, Gate, Skip, Proceed, Shell, Lockout, Password, Ltm, Vlans, SelfIps, As3Found,
      As3Post, As3Poll, As3Refused, Cis, Finalize, Verify, UpDone, Reuse, Create, New, SetEice,
      HostFound, Waited, Makes, On
  <2>4. veKey' = veKey
    BY <1>2 DEF OnboardStep,
      PemCopy, Gate, Skip, Proceed, Shell, Lockout, Password, Ltm, Vlans, SelfIps, As3Found,
      As3Post, As3Poll, As3Refused, Cis, Finalize, Verify, UpDone, Reuse, Create, New, SetEice,
      HostFound, Waited, Makes, On
  <2>5. box' = box \/ Shell \/ Lockout \/ Password \/ Ltm \/ Vlans \/ SelfIps \/ As3Post \/ Cis
        \/ Finalize
    BY <1>2 DEF OnboardStep,
      PemCopy, Gate, Skip, Proceed, As3Found, As3Poll, As3Refused, Verify, UpDone, Reuse, Create,
      New, SetEice, HostFound, Waited, Makes, On
  <2>6. att' = att
    BY <1>2 DEF OnboardStep,
      PemCopy, Gate, Skip, Proceed, Shell, Lockout, Password, Ltm, Vlans, SelfIps, As3Found,
      As3Post, As3Poll, As3Refused, Cis, Finalize, Verify, UpDone, Reuse, Create, New, SetEice,
      HostFound, Waited, Makes, On
  <2>7. conf' = conf
    BY <1>2 DEF OnboardStep,
      PemCopy, Gate, Skip, Proceed, Shell, Lockout, Password, Ltm, Vlans, SelfIps, As3Found,
      As3Post, As3Poll, As3Refused, Cis, Finalize, Verify, UpDone, Reuse, Create, New, SetEice,
      HostFound, Waited, Makes, On
  <2>8. pem' = pem
    BY <1>2 DEF OnboardStep,
      PemCopy, Gate, Skip, Proceed, Shell, Lockout, Password, Ltm, Vlans, SelfIps, As3Found,
      As3Post, As3Poll, As3Refused, Cis, Finalize, Verify, UpDone, Reuse, Create, New, SetEice,
      HostFound, Waited, Makes, On
  <2>9. pemLost' = pemLost
    BY <1>2 DEF OnboardStep,
      PemCopy, Gate, Skip, Proceed, Shell, Lockout, Password, Ltm, Vlans, SelfIps, As3Found,
      As3Post, As3Poll, As3Refused, Cis, Finalize, Verify, UpDone, Reuse, Create, New, SetEice,
      HostFound, Waited, Makes, On
  <2>10. disk' = disk \/ UpDone
    BY <1>2 DEF OnboardStep,
      PemCopy, Gate, Skip, Proceed, Shell, Lockout, Password, Ltm, Vlans, SelfIps, As3Found,
      As3Post, As3Poll, As3Refused, Cis, Finalize, Verify, Reuse, Create, New, SetEice, HostFound,
      Waited, Makes, On
  <2>11. status' = status
    BY <1>2 DEF OnboardStep,
      PemCopy, Gate, Skip, Proceed, Shell, Lockout, Password, Ltm, Vlans, SelfIps, As3Found,
      As3Post, As3Poll, As3Refused, Cis, Finalize, Verify, UpDone, Reuse, Create, New, SetEice,
      HostFound, Waited, Makes, On
  <2>12. QED BY <2>1, <2>2, <2>3, <2>4, <2>5, <2>6, <2>7, <2>8, <2>9, <2>10, <2>11
<1>3. CASE DownStep
  <2>1. role' = role \/ RoleDown
    BY <1>3 DEF DownStep,
      VeEnd, VeEnded, VeMgmtDown, VeMgmtRefused, VeExtDown, VeSgDown, VeSgRefused, KeyDown, PemDown,
      Save17eDown, JhEnd, JhEnded, JhEniDown, EiceDown, EiceGone, JhSgRefs, JhSgDown, Leave,
      ProfileDown, Save17bDown, TmmOwn, TmmList, TmmTagged, DownDone, Aim, ClearAnd, Terminate,
      Terminated, EniDown, EniRefused, TmmDrop
  <2>2. profile' = profile \/ Leave \/ ProfileDown
    BY <1>3 DEF DownStep,
      VeEnd, VeEnded, VeMgmtDown, VeMgmtRefused, VeExtDown, VeSgDown, VeSgRefused, KeyDown, PemDown,
      Save17eDown, JhEnd, JhEnded, JhEniDown, EiceDown, EiceGone, JhSgRefs, JhSgDown, RoleDown,
      Save17bDown, TmmOwn, TmmList, TmmTagged, DownDone, Aim, ClearAnd, Terminate, Terminated,
      EniDown, EniRefused, TmmDrop
  <2>3. key' = key \/ KeyDown
    BY <1>3 DEF DownStep,
      VeEnd, VeEnded, VeMgmtDown, VeMgmtRefused, VeExtDown, VeSgDown, VeSgRefused, PemDown,
      Save17eDown, JhEnd, JhEnded, JhEniDown, EiceDown, EiceGone, JhSgRefs, JhSgDown, Leave,
      ProfileDown, RoleDown, Save17bDown, TmmOwn, TmmList, TmmTagged, DownDone, Aim, ClearAnd,
      Terminate, Terminated, EniDown, EniRefused, TmmDrop
  <2>4. veKey' = veKey
    BY <1>3 DEF DownStep,
      VeEnd, VeEnded, VeMgmtDown, VeMgmtRefused, VeExtDown, VeSgDown, VeSgRefused, KeyDown, PemDown,
      Save17eDown, JhEnd, JhEnded, JhEniDown, EiceDown, EiceGone, JhSgRefs, JhSgDown, Leave,
      ProfileDown, RoleDown, Save17bDown, TmmOwn, TmmList, TmmTagged, DownDone, Aim, ClearAnd,
      Terminate, Terminated, EniDown, EniRefused, TmmDrop
  <2>5. box' = box
    BY <1>3 DEF DownStep,
      VeEnd, VeEnded, VeMgmtDown, VeMgmtRefused, VeExtDown, VeSgDown, VeSgRefused, KeyDown, PemDown,
      Save17eDown, JhEnd, JhEnded, JhEniDown, EiceDown, EiceGone, JhSgRefs, JhSgDown, Leave,
      ProfileDown, RoleDown, Save17bDown, TmmOwn, TmmList, TmmTagged, DownDone, Aim, ClearAnd,
      Terminate, Terminated, EniDown, EniRefused, TmmDrop
  <2>6. att' = att \/ VeMgmtDown \/ VeExtDown \/ JhEniDown \/ TmmOwn \/ TmmTagged
    BY <1>3 DEF DownStep,
      VeEnd, VeEnded, VeMgmtRefused, VeSgDown, VeSgRefused, KeyDown, PemDown, Save17eDown, JhEnd,
      JhEnded, EiceDown, EiceGone, JhSgRefs, JhSgDown, Leave, ProfileDown, RoleDown, Save17bDown,
      TmmList, DownDone, Aim, ClearAnd, Terminate, Terminated, EniDown, EniRefused, TmmDrop
  <2>7. conf' = conf \/ VeMgmtDown \/ VeExtDown \/ VeSgDown \/ JhEniDown \/ JhSgRefs \/ JhSgDown
        \/ TmmOwn \/ TmmTagged
    BY <1>3 DEF DownStep,
      VeEnd, VeEnded, VeMgmtRefused, VeSgRefused, KeyDown, PemDown, Save17eDown, JhEnd, JhEnded,
      EiceDown, EiceGone, Leave, ProfileDown, RoleDown, Save17bDown, TmmList, DownDone, Aim,
      ClearAnd, Terminate, Terminated, EniDown, EniRefused, TmmDrop
  <2>8. pem' = pem \/ PemDown
    BY <1>3 DEF DownStep,
      VeEnd, VeEnded, VeMgmtDown, VeMgmtRefused, VeExtDown, VeSgDown, VeSgRefused, KeyDown,
      Save17eDown, JhEnd, JhEnded, JhEniDown, EiceDown, EiceGone, JhSgRefs, JhSgDown, Leave,
      ProfileDown, RoleDown, Save17bDown, TmmOwn, TmmList, TmmTagged, DownDone, Aim, ClearAnd,
      Terminate, Terminated, EniDown, EniRefused, TmmDrop
  <2>9. pemLost' = pemLost
    BY <1>3 DEF DownStep,
      VeEnd, VeEnded, VeMgmtDown, VeMgmtRefused, VeExtDown, VeSgDown, VeSgRefused, KeyDown, PemDown,
      Save17eDown, JhEnd, JhEnded, JhEniDown, EiceDown, EiceGone, JhSgRefs, JhSgDown, Leave,
      ProfileDown, RoleDown, Save17bDown, TmmOwn, TmmList, TmmTagged, DownDone, Aim, ClearAnd,
      Terminate, Terminated, EniDown, EniRefused, TmmDrop
  <2>10. disk' = disk \/ Save17eDown \/ Save17bDown \/ DownDone
    BY <1>3 DEF DownStep,
      VeEnd, VeEnded, VeMgmtDown, VeMgmtRefused, VeExtDown, VeSgDown, VeSgRefused, KeyDown, PemDown,
      JhEnd, JhEnded, JhEniDown, EiceDown, EiceGone, JhSgRefs, JhSgDown, Leave, ProfileDown,
      RoleDown, TmmOwn, TmmList, TmmTagged, Aim, ClearAnd, Terminate, Terminated, EniDown,
      EniRefused, TmmDrop
  <2>11. status' = status \/ VeEnd \/ VeMgmtDown \/ VeExtDown \/ VeSgDown \/ JhEnd \/ JhEniDown
        \/ EiceDown \/ JhSgDown \/ TmmOwn \/ TmmTagged
    BY <1>3 DEF DownStep,
      VeEnded, VeMgmtRefused, VeSgRefused, KeyDown, PemDown, Save17eDown, JhEnded, EiceGone,
      JhSgRefs, Leave, ProfileDown, RoleDown, Save17bDown, TmmList, DownDone, Aim, ClearAnd,
      Terminate, Terminated, EniDown, EniRefused, TmmDrop
  <2>12. QED BY <2>1, <2>2, <2>3, <2>4, <2>5, <2>6, <2>7, <2>8, <2>9, <2>10, <2>11
<1>9. QED BY <1>0, <1>1, <1>2, <1>3, <1>5, <1>6, <1>7, <1>8 DEF Next

\* The commands go from point to point; the account and the operator do not move them.
LEMMA Flow == ASSUME Next, pc' # "idle"
  PROVE \/ StartUp /\ pc' = "tmm"
        \/ StartDown /\ pc' = "veEnd"
        \/ UpMove /\ pc \in UpPoints /\ pc' \in UpPoints
        \/ DownStep /\ pc \in DownPoints /\ pc' \in DownPoints
        \/ Outside /\ pc' = pc
<1>1. CASE StartUp \/ StartDown BY <1>1 DEF StartUp, StartDown
<1>2. CASE UpStep
  BY <1>2 DEF UpMove, UpPoints, OnboardPoints, UpStep,
    TmmFound, TmmStale, TmmCreate, TmmOff, TmmAttach, Save17, Role, Profile, Join, JhSg, EiceFound,
    EiceCreate, EiceReady, Ssh, JhFound, JhLaunch, JhWait, JhEni, JhEniOff, JhEniAttach, Save17b,
    KeyReuse, KeyRefused, KeyReplace, KeyUnseen, KeyCreate, PemWrite, VeSg, VeRules, VeMgmt,
    VeExtFound, VeExtCreate, VeExtOff, VeFound, VeLaunch, VeWait, Save17e, At, Goto, Go, Told,
    Fault, End, Refuse, Fail, Dropped, SaveAnd, Reuse, Create, New, SetEice, HostFound, Waited,
    Makes, On
<1>3. CASE OnboardStep
  BY <1>3 DEF UpMove, UpPoints, OnboardPoints, OnboardStep,
    PemCopy, Gate, Skip, Proceed, Shell, Lockout, Password, Ltm, Vlans, SelfIps, As3Found, As3Post,
    As3Poll, As3Refused, Cis, Finalize, Verify, UpDone, At, Goto, Go, Told, Fault, End, Refuse,
    Fail, Dropped, SaveAnd, Reuse, Create, New, SetEice, HostFound, Waited, Makes, On
<1>4. CASE DownStep
  BY <1>4 DEF DownPoints, DownStep,
    VeEnd, VeEnded, VeMgmtDown, VeMgmtRefused, VeExtDown, VeSgDown, VeSgRefused, KeyDown, PemDown,
    Save17eDown, JhEnd, JhEnded, JhEniDown, EiceDown, EiceGone, JhSgRefs, JhSgDown, Leave,
    ProfileDown, RoleDown, Save17bDown, TmmOwn, TmmList, TmmTagged, DownDone, At, Goto, Go, Told,
    Fault, End, Refuse, Fail, Dropped, SaveAnd, Aim, ClearAnd, Terminate, Terminated, EniDown,
    EniRefused, TmmDrop
<1>5. CASE Outside BY <1>5 DEF Outside
<1>6. ~Abort /\ ~LoseFiles /\ ~LoseHost BY DEF Abort, LoseFiles, LoseHost, End, At
<1>7. QED BY <1>1, <1>2, <1>3, <1>4, <1>5, <1>6 DEF Next

\* Where a step of `up` starts from, by the point it leads to.
LEMMA Arrivals == ASSUME UpMove
  PROVE /\ pc' # "tmm"
        /\ pc' = "tmmOff" => TmmCreate
        /\ pc' = "tmmAttach" => TmmFound \/ TmmOff
        /\ pc' = "save17" => TmmAttach
        /\ pc' = "role" => Save17
        /\ pc' = "profile" => Role
        /\ pc' = "join" => Profile
        /\ pc' = "jhSg" => Profile \/ Join
        /\ pc' = "eice" => JhSg
        /\ pc' = "eiceWait" => EiceCreate
        /\ pc' = "ssh" => EiceFound \/ EiceCreate \/ EiceReady
        /\ pc' = "jh" => Ssh
        /\ pc' = "jhWait" => JhLaunch
        /\ pc' = "jhEni" => JhFound \/ JhWait
        /\ pc' = "jhEniOff" => JhEni
        /\ pc' = "jhEniAttach" => JhEniOff
        /\ pc' = "save17b" => JhEni \/ JhEniAttach
        /\ pc' = "key" => Save17b
        /\ pc' = "keyCreate" => KeyReplace
        /\ pc' = "pem" => KeyCreate
        /\ pc' = "veSg" => KeyReuse \/ PemWrite
        /\ pc' = "veRules" => VeSg
        /\ pc' = "veMgmt" => VeSg \/ VeRules
        /\ pc' = "veExt" => VeMgmt
        /\ pc' = "veExtOff" => VeExtCreate
        /\ pc' = "ve" => VeExtFound \/ VeExtOff
        /\ pc' = "veWait" => VeLaunch
        /\ pc' = "save17e" => VeFound \/ VeWait
        /\ pc' = "pemCopy" => Save17e
        /\ pc' = "gate" => PemCopy
        /\ pc' = "probe" => Gate
        /\ pc' = "shell" => Proceed
        /\ pc' = "lockout" => Shell
        /\ pc' = "password" => Lockout
        /\ pc' = "ltm" => Password
        /\ pc' = "vlans" => Ltm
        /\ pc' = "selfIps" => Vlans
        /\ pc' = "as3" => SelfIps
        /\ pc' = "as3Poll" => As3Post
        /\ pc' = "cis" => As3Found \/ As3Poll
        /\ pc' = "finalize" => Cis
        /\ pc' = "verify" => Finalize
        /\ pc' = "save17f" => Skip \/ Verify
<1> USE DEF UpMove, UpStep, OnboardStep,
    TmmFound, TmmStale, TmmCreate, TmmOff, TmmAttach, Save17, Role, Profile, Join, JhSg, EiceFound,
    EiceCreate, EiceReady, Ssh, JhFound, JhLaunch, JhWait, JhEni, JhEniOff, JhEniAttach, Save17b,
    KeyReuse, KeyRefused, KeyReplace, KeyUnseen, KeyCreate, PemWrite, VeSg, VeRules, VeMgmt,
    VeExtFound, VeExtCreate, VeExtOff, VeFound, VeLaunch, VeWait, Save17e, PemCopy, Gate, Skip,
    Proceed, Shell, Lockout, Password, Ltm, Vlans, SelfIps, As3Found, As3Post, As3Poll, As3Refused,
    Cis, Finalize, Verify, UpDone, Goto, Go, Told, Fault, End, Refuse, Fail, Dropped, SaveAnd,
    Reuse, Create, New, SetEice, HostFound, Waited, Makes, On
<1>1. pc' # "tmm" OBVIOUS
<1>2. pc' = "tmmOff" => TmmCreate OBVIOUS
<1>3. pc' = "tmmAttach" => TmmFound \/ TmmOff OBVIOUS
<1>4. pc' = "save17" => TmmAttach OBVIOUS
<1>5. pc' = "role" => Save17 OBVIOUS
<1>6. pc' = "profile" => Role OBVIOUS
<1>7. pc' = "join" => Profile OBVIOUS
<1>8. pc' = "jhSg" => Profile \/ Join OBVIOUS
<1>9. pc' = "eice" => JhSg OBVIOUS
<1>10. pc' = "eiceWait" => EiceCreate OBVIOUS
<1>11. pc' = "ssh" => EiceFound \/ EiceCreate \/ EiceReady OBVIOUS
<1>12. pc' = "jh" => Ssh OBVIOUS
<1>13. pc' = "jhWait" => JhLaunch OBVIOUS
<1>14. pc' = "jhEni" => JhFound \/ JhWait OBVIOUS
<1>15. pc' = "jhEniOff" => JhEni OBVIOUS
<1>16. pc' = "jhEniAttach" => JhEniOff OBVIOUS
<1>17. pc' = "save17b" => JhEni \/ JhEniAttach OBVIOUS
<1>18. pc' = "key" => Save17b OBVIOUS
<1>19. pc' = "keyCreate" => KeyReplace OBVIOUS
<1>20. pc' = "pem" => KeyCreate OBVIOUS
<1>21. pc' = "veSg" => KeyReuse \/ PemWrite OBVIOUS
<1>22. pc' = "veRules" => VeSg OBVIOUS
<1>23. pc' = "veMgmt" => VeSg \/ VeRules OBVIOUS
<1>24. pc' = "veExt" => VeMgmt OBVIOUS
<1>25. pc' = "veExtOff" => VeExtCreate OBVIOUS
<1>26. pc' = "ve" => VeExtFound \/ VeExtOff OBVIOUS
<1>27. pc' = "veWait" => VeLaunch OBVIOUS
<1>28. pc' = "save17e" => VeFound \/ VeWait OBVIOUS
<1>29. pc' = "pemCopy" => Save17e OBVIOUS
<1>30. pc' = "gate" => PemCopy OBVIOUS
<1>31. pc' = "probe" => Gate OBVIOUS
<1>32. pc' = "shell" => Proceed OBVIOUS
<1>33. pc' = "lockout" => Shell OBVIOUS
<1>34. pc' = "password" => Lockout OBVIOUS
<1>35. pc' = "ltm" => Password OBVIOUS
<1>36. pc' = "vlans" => Ltm OBVIOUS
<1>37. pc' = "selfIps" => Vlans OBVIOUS
<1>38. pc' = "as3" => SelfIps OBVIOUS
<1>39. pc' = "as3Poll" => As3Post OBVIOUS
<1>40. pc' = "cis" => As3Found \/ As3Poll OBVIOUS
<1>41. pc' = "finalize" => Cis OBVIOUS
<1>42. pc' = "verify" => Finalize OBVIOUS
<1>43. pc' = "save17f" => Skip \/ Verify OBVIOUS
<1>44. QED
  BY <1>1, <1>2, <1>3, <1>4, <1>5, <1>6, <1>7, <1>8, <1>9, <1>10, <1>11, <1>12, <1>13, <1>14, <1>15,
    <1>16, <1>17, <1>18, <1>19, <1>20, <1>21, <1>22, <1>23, <1>24, <1>25, <1>26, <1>27, <1>28,
    <1>29, <1>30, <1>31, <1>32, <1>33, <1>34, <1>35, <1>36, <1>37, <1>38, <1>39, <1>40, <1>41,
    <1>42, <1>43

\* Where a step of `down` starts from, by the point it leads to.
LEMMA DownArrivals == ASSUME DownStep
  PROVE /\ pc' # "veEnd"
        /\ pc' = "veEnding" => VeEnd
        /\ pc' = "veMgmtDown" => VeEnded \/ VeMgmtDown
        /\ pc' = "veExtDown" => VeMgmtDown \/ VeExtDown
        /\ pc' = "veSgDown" => VeExtDown
        /\ pc' = "keyDown" => VeSgDown
        /\ pc' = "pemDown" => KeyDown
        /\ pc' = "save17eDown" => PemDown
        /\ pc' = "jhEnd" => Save17eDown
        /\ pc' = "jhEnding" => JhEnd
        /\ pc' = "jhEniDown" => JhEnded \/ JhEniDown
        /\ pc' = "eiceDown" => JhEniDown
        /\ pc' = "eiceGone" => EiceDown
        /\ pc' = "jhSgRefs" => EiceGone
        /\ pc' = "jhSgDown" => JhSgRefs
        /\ pc' = "leave" => JhSgDown
        /\ pc' = "profileDown" => Leave
        /\ pc' = "roleDown" => ProfileDown
        /\ pc' = "save17bDown" => RoleDown
        /\ pc' = "tmmOwn" => Save17bDown \/ TmmOwn
        /\ pc' = "tmmTagged" => TmmList \/ TmmTagged
        /\ pc' = "save17Down" => TmmList \/ TmmTagged
<1> USE DEF DownStep,
    VeEnd, VeEnded, VeMgmtDown, VeMgmtRefused, VeExtDown, VeSgDown, VeSgRefused, KeyDown, PemDown,
    Save17eDown, JhEnd, JhEnded, JhEniDown, EiceDown, EiceGone, JhSgRefs, JhSgDown, Leave,
    ProfileDown, RoleDown, Save17bDown, TmmOwn, TmmList, TmmTagged, DownDone, At, Goto, Go, Told,
    Fault, End, Refuse, Fail, Dropped, SaveAnd, Aim, ClearAnd, Terminate, Terminated, EniDown,
    EniRefused, TmmDrop
<1>1. pc' # "veEnd" OBVIOUS
<1>2. pc' = "veEnding" => VeEnd OBVIOUS
<1>3. pc' = "veMgmtDown" => VeEnded \/ VeMgmtDown OBVIOUS
<1>4. pc' = "veExtDown" => VeMgmtDown \/ VeExtDown OBVIOUS
<1>5. pc' = "veSgDown" => VeExtDown OBVIOUS
<1>6. pc' = "keyDown" => VeSgDown OBVIOUS
<1>7. pc' = "pemDown" => KeyDown OBVIOUS
<1>8. pc' = "save17eDown" => PemDown OBVIOUS
<1>9. pc' = "jhEnd" => Save17eDown OBVIOUS
<1>10. pc' = "jhEnding" => JhEnd OBVIOUS
<1>11. pc' = "jhEniDown" => JhEnded \/ JhEniDown OBVIOUS
<1>12. pc' = "eiceDown" => JhEniDown OBVIOUS
<1>13. pc' = "eiceGone" => EiceDown OBVIOUS
<1>14. pc' = "jhSgRefs" => EiceGone OBVIOUS
<1>15. pc' = "jhSgDown" => JhSgRefs OBVIOUS
<1>16. pc' = "leave" => JhSgDown OBVIOUS
<1>17. pc' = "profileDown" => Leave OBVIOUS
<1>18. pc' = "roleDown" => ProfileDown OBVIOUS
<1>19. pc' = "save17bDown" => RoleDown OBVIOUS
<1>20. pc' = "tmmOwn" => Save17bDown \/ TmmOwn OBVIOUS
<1>21. pc' = "tmmTagged" => TmmList \/ TmmTagged OBVIOUS
<1>22. pc' = "save17Down" => TmmList \/ TmmTagged OBVIOUS
<1>23. QED
  BY <1>1, <1>2, <1>3, <1>4, <1>5, <1>6, <1>7, <1>8, <1>9, <1>10, <1>11, <1>12, <1>13, <1>14, <1>15,
    <1>16, <1>17, <1>18, <1>19, <1>20, <1>21, <1>22

\* The point each step starts from.
LEMMA Starts ==
  /\ TmmFound => pc = "tmm"
  /\ TmmStale => pc = "tmm"
  /\ TmmCreate => pc = "tmm"
  /\ TmmOff => pc = "tmmOff"
  /\ TmmAttach => pc = "tmmAttach"
  /\ Save17 => pc = "save17"
  /\ Role => pc = "role"
  /\ Profile => pc = "profile"
  /\ Join => pc = "join"
  /\ JhSg => pc = "jhSg"
  /\ EiceFound => pc = "eice"
  /\ EiceCreate => pc = "eice"
  /\ EiceReady => pc = "eiceWait"
  /\ Ssh => pc = "ssh"
  /\ JhFound => pc = "jh"
  /\ JhLaunch => pc = "jh"
  /\ JhWait => pc = "jhWait"
  /\ JhEni => pc = "jhEni"
  /\ JhEniOff => pc = "jhEniOff"
  /\ JhEniAttach => pc = "jhEniAttach"
  /\ Save17b => pc = "save17b"
  /\ KeyReuse => pc = "key"
  /\ KeyRefused => pc = "key"
  /\ KeyReplace => pc = "key"
  /\ KeyUnseen => pc = "key"
  /\ KeyCreate => pc \in {"key", "keyCreate"}
  /\ PemWrite => pc = "pem"
  /\ VeSg => pc = "veSg"
  /\ VeRules => pc = "veRules"
  /\ VeMgmt => pc = "veMgmt"
  /\ VeExtFound => pc = "veExt"
  /\ VeExtCreate => pc = "veExt"
  /\ VeExtOff => pc = "veExtOff"
  /\ VeFound => pc = "ve"
  /\ VeLaunch => pc = "ve"
  /\ VeWait => pc = "veWait"
  /\ Save17e => pc = "save17e"
  /\ PemCopy => pc = "pemCopy"
  /\ Gate => pc = "gate"
  /\ Skip => pc = "probe"
  /\ Proceed => pc = "probe"
  /\ Shell => pc = "shell"
  /\ Lockout => pc = "lockout"
  /\ Password => pc = "password"
  /\ Ltm => pc = "ltm"
  /\ Vlans => pc = "vlans"
  /\ SelfIps => pc = "selfIps"
  /\ As3Found => pc = "as3"
  /\ As3Post => pc = "as3"
  /\ As3Poll => pc = "as3Poll"
  /\ As3Refused => pc \in {"as3", "as3Poll"}
  /\ Cis => pc = "cis"
  /\ Finalize => pc = "finalize"
  /\ Verify => pc = "verify"
  /\ UpDone => pc = "save17f"
  /\ VeEnd => pc = "veEnd"
  /\ VeEnded => pc = "veEnding"
  /\ VeMgmtDown => pc = "veMgmtDown"
  /\ VeMgmtRefused => pc = "veMgmtDown"
  /\ VeExtDown => pc = "veExtDown"
  /\ VeSgDown => pc = "veSgDown"
  /\ VeSgRefused => pc = "veSgDown"
  /\ KeyDown => pc = "keyDown"
  /\ PemDown => pc = "pemDown"
  /\ Save17eDown => pc = "save17eDown"
  /\ JhEnd => pc = "jhEnd"
  /\ JhEnded => pc = "jhEnding"
  /\ JhEniDown => pc = "jhEniDown"
  /\ EiceDown => pc = "eiceDown"
  /\ EiceGone => pc = "eiceGone"
  /\ JhSgRefs => pc = "jhSgRefs"
  /\ JhSgDown => pc = "jhSgDown"
  /\ Leave => pc = "leave"
  /\ ProfileDown => pc = "profileDown"
  /\ RoleDown => pc = "roleDown"
  /\ Save17bDown => pc = "save17bDown"
  /\ TmmOwn => pc = "tmmOwn"
  /\ TmmList => pc = "tmmOwn"
  /\ TmmTagged => pc = "tmmTagged"
  /\ DownDone => pc = "save17Down"
  BY DEF At,
    TmmFound, TmmStale, TmmCreate, TmmOff, TmmAttach, Save17, Role, Profile, Join, JhSg, EiceFound,
    EiceCreate, EiceReady, Ssh, JhFound, JhLaunch, JhWait, JhEni, JhEniOff, JhEniAttach, Save17b,
    KeyReuse, KeyRefused, KeyReplace, KeyUnseen, KeyCreate, PemWrite, VeSg, VeRules, VeMgmt,
    VeExtFound, VeExtCreate, VeExtOff, VeFound, VeLaunch, VeWait, Save17e, PemCopy, Gate, Skip,
    Proceed, Shell, Lockout, Password, Ltm, Vlans, SelfIps, As3Found, As3Post, As3Poll, As3Refused,
    Cis, Finalize, Verify, UpDone, VeEnd, VeEnded, VeMgmtDown, VeMgmtRefused, VeExtDown, VeSgDown,
    VeSgRefused, KeyDown, PemDown, Save17eDown, JhEnd, JhEnded, JhEniDown, EiceDown, EiceGone,
    JhSgRefs, JhSgDown, Leave, ProfileDown, RoleDown, Save17bDown, TmmOwn, TmmList, TmmTagged,
    DownDone

\* A step of `up` that leads past a point starts past it, or is the one that passes it.
LEMMA Onward == ASSUME UpMove
  PROVE /\ pc' \in FromRole => pc \in FromRole \/ Save17
        /\ pc' \in FromTmm => pc \in FromTmm \/ TmmAttach
        /\ pc' \in FromEice => pc \in FromEice \/ JhSg
        /\ pc' \in FromSsh \cup {"eiceWait"} => pc \in FromSsh \cup {"eiceWait"} \/ EiceFound \/ EiceCreate
        /\ pc' \in FromSsh => pc \in FromSsh \/ EiceFound \/ EiceCreate \/ EiceReady
        /\ pc' \in FromSsh \ {"ssh"} => pc \in FromSsh \ {"ssh"} \/ Ssh
        /\ pc' \in FromJh => pc \in FromJh \/ JhLaunch \/ JhFound
        /\ pc' \in FromKey => pc \in FromKey \/ Save17b
        /\ pc' \in FromPem => pc \in FromPem \/ KeyCreate \/ KeyReuse
        /\ pc' \in FromVeSg => pc \in FromVeSg \/ KeyReuse \/ PemWrite
        /\ pc' \in FromVeMgmt => pc \in FromVeMgmt \/ VeSg \/ VeRules
        /\ pc' \in FromVeMgmt \ {"veMgmt"} => pc \in FromVeMgmt \ {"veMgmt"} \/ VeMgmt
        /\ pc' \in FromVeExt => pc \in FromVeExt \/ VeExtFound \/ VeExtCreate
        /\ pc' \in FromVeExt \ {"veExtOff"} => pc \in FromVeExt \ {"veExtOff"} \/ VeExtFound \/ VeExtOff
        /\ pc' \in FromVe => pc \in FromVe \/ VeLaunch \/ VeFound
        /\ pc' \in FromGate => pc \in FromGate \/ PemCopy
<1> USE Arrivals, Starts DEF
    UpPoints, OnboardPoints, FromRole, FromTmm, FromEice, FromSsh, FromJh, FromKey, FromPem,
    FromVeSg, FromVeMgmt, FromVeExt, FromVe, FromGate
<1>1. pc' \in FromRole => pc \in FromRole \/ Save17
  OBVIOUS
<1>2. pc' \in FromTmm => pc \in FromTmm \/ TmmAttach
  OBVIOUS
<1>3. pc' \in FromEice => pc \in FromEice \/ JhSg
  OBVIOUS
<1>4. pc' \in FromSsh \cup {"eiceWait"} => pc \in FromSsh \cup {"eiceWait"} \/ EiceFound \/ EiceCreate
  OBVIOUS
<1>5. pc' \in FromSsh => pc \in FromSsh \/ EiceFound \/ EiceCreate \/ EiceReady
  OBVIOUS
<1>6. pc' \in FromSsh \ {"ssh"} => pc \in FromSsh \ {"ssh"} \/ Ssh
  OBVIOUS
<1>7. pc' \in FromJh => pc \in FromJh \/ JhLaunch \/ JhFound
  OBVIOUS
<1>8. pc' \in FromKey => pc \in FromKey \/ Save17b
  OBVIOUS
<1>9. pc' \in FromPem => pc \in FromPem \/ KeyCreate \/ KeyReuse
  OBVIOUS
<1>10. pc' \in FromVeSg => pc \in FromVeSg \/ KeyReuse \/ PemWrite
  OBVIOUS
<1>11. pc' \in FromVeMgmt => pc \in FromVeMgmt \/ VeSg \/ VeRules
  OBVIOUS
<1>12. pc' \in FromVeMgmt \ {"veMgmt"} => pc \in FromVeMgmt \ {"veMgmt"} \/ VeMgmt
  OBVIOUS
<1>13. pc' \in FromVeExt => pc \in FromVeExt \/ VeExtFound \/ VeExtCreate
  OBVIOUS
<1>14. pc' \in FromVeExt \ {"veExtOff"} => pc \in FromVeExt \ {"veExtOff"} \/ VeExtFound \/ VeExtOff
  OBVIOUS
<1>15. pc' \in FromVe => pc \in FromVe \/ VeLaunch \/ VeFound
  OBVIOUS
<1>16. pc' \in FromGate => pc \in FromGate \/ PemCopy
  OBVIOUS
<1>17. QED
  BY <1>1, <1>2, <1>3, <1>4, <1>5, <1>6, <1>7, <1>8, <1>9, <1>10, <1>11, <1>12, <1>13, <1>14, <1>15,
    <1>16

\* The same for `down`.
LEMMA DownOnward == ASSUME DownStep, pc \in DownPoints, pc' \in DownPoints
  PROVE /\ pc' \in PastVe => pc \in PastVe \/ VeEnd
        /\ pc' \in PastMgmt => pc \in PastMgmt \/ VeMgmtDown
        /\ pc' \in PastExt => pc \in PastExt \/ VeExtDown
        /\ pc' \in PastVeSg => pc \in PastVeSg \/ VeSgDown
        /\ pc' \in PastKey => pc \in PastKey \/ KeyDown
        /\ pc' \in PastPem => pc \in PastPem \/ PemDown
        /\ pc' \in PastSave17e => pc \in PastSave17e \/ Save17eDown
        /\ pc' \in PastJh => pc \in PastJh \/ JhEnd
        /\ pc' \in PastJh \ {"jhEnding"} => pc \in PastJh \ {"jhEnding"} \/ JhEnded
        /\ pc' \in PastJhEni => pc \in PastJhEni \/ JhEniDown
        /\ pc' \in PastEice => pc \in PastEice \/ EiceDown
        /\ pc' \in PastEice \ {"eiceGone"} => pc \in PastEice \ {"eiceGone"} \/ EiceGone
        /\ pc' \in PastRefs => pc \in PastRefs \/ JhSgRefs
        /\ pc' \in PastJhSg => pc \in PastJhSg \/ JhSgDown
        /\ pc' \in PastRole \cup {"roleDown"} => pc \in PastRole \cup {"roleDown"} \/ ProfileDown
        /\ pc' \in PastRole => pc \in PastRole \/ RoleDown
        /\ pc' \in PastSave17b => pc \in PastSave17b \/ Save17bDown
<1> USE DownArrivals, Starts DEF
    DownPoints, PastVe, PastMgmt, PastExt, PastVeSg, PastKey, PastPem, PastSave17e, PastJh,
    PastJhEni, PastEice, PastRefs, PastJhSg, PastRole, PastSave17b
<1>1. pc' \in PastVe => pc \in PastVe \/ VeEnd
  OBVIOUS
<1>2. pc' \in PastMgmt => pc \in PastMgmt \/ VeMgmtDown
  OBVIOUS
<1>3. pc' \in PastExt => pc \in PastExt \/ VeExtDown
  OBVIOUS
<1>4. pc' \in PastVeSg => pc \in PastVeSg \/ VeSgDown
  OBVIOUS
<1>5. pc' \in PastKey => pc \in PastKey \/ KeyDown
  OBVIOUS
<1>6. pc' \in PastPem => pc \in PastPem \/ PemDown
  OBVIOUS
<1>7. pc' \in PastSave17e => pc \in PastSave17e \/ Save17eDown
  OBVIOUS
<1>8. pc' \in PastJh => pc \in PastJh \/ JhEnd
  OBVIOUS
<1>9. pc' \in PastJh \ {"jhEnding"} => pc \in PastJh \ {"jhEnding"} \/ JhEnded
  OBVIOUS
<1>10. pc' \in PastJhEni => pc \in PastJhEni \/ JhEniDown
  OBVIOUS
<1>11. pc' \in PastEice => pc \in PastEice \/ EiceDown
  OBVIOUS
<1>12. pc' \in PastEice \ {"eiceGone"} => pc \in PastEice \ {"eiceGone"} \/ EiceGone
  OBVIOUS
<1>13. pc' \in PastRefs => pc \in PastRefs \/ JhSgRefs
  OBVIOUS
<1>14. pc' \in PastJhSg => pc \in PastJhSg \/ JhSgDown
  OBVIOUS
<1>15. pc' \in PastRole \cup {"roleDown"} => pc \in PastRole \cup {"roleDown"} \/ ProfileDown
  OBVIOUS
<1>16. pc' \in PastRole => pc \in PastRole \/ RoleDown
  OBVIOUS
<1>17. pc' \in PastSave17b => pc \in PastSave17b \/ Save17bDown
  OBVIOUS
<1>18. QED
  BY <1>1, <1>2, <1>3, <1>4, <1>5, <1>6, <1>7, <1>8, <1>9, <1>10, <1>11, <1>12, <1>13, <1>14, <1>15,
    <1>16, <1>17

\* The points of the two commands are different ones.
LEMMA Apart == /\ \A p \in DownPoints : p \notin UpPoints
               /\ "idle" \notin UpPoints /\ "idle" \notin DownPoints
  BY DEF UpPoints, DownPoints, OnboardPoints

\* Inside a command: the report, the errors that were dropped, the faults.
LEMMA CommandStep == ASSUME Next
  PROVE /\ pc # "idle" => run' = run
        /\ pc # "idle" /\ pc' # "idle" => done' = done
        /\ pc # "idle" /\ misled => misled'
        /\ faults' = faults \/ faults' = faults + 1
<1> USE DEF At, Go, Told, Fault, End, Refuse, Fail, Dropped, SaveAnd, Goto
<1>1. CASE UpStep
  <2>1. run' = run
    BY <1>1 DEF UpStep,
      TmmFound, TmmStale, TmmCreate, TmmOff, TmmAttach, Save17, Role, Profile, Join, JhSg,
      EiceFound, EiceCreate, EiceReady, Ssh, JhFound, JhLaunch, JhWait, JhEni, JhEniOff,
      JhEniAttach, Save17b, KeyReuse, KeyRefused, KeyReplace, KeyUnseen, KeyCreate, PemWrite, VeSg,
      VeRules, VeMgmt, VeExtFound, VeExtCreate, VeExtOff, VeFound, VeLaunch, VeWait, Save17e, Reuse,
      Create, New, SetEice, HostFound, Waited, Makes, On
  <2>2. pc' # "idle" => done' = done
    BY <1>1 DEF UpStep,
      TmmFound, TmmStale, TmmCreate, TmmOff, TmmAttach, Save17, Role, Profile, Join, JhSg,
      EiceFound, EiceCreate, EiceReady, Ssh, JhFound, JhLaunch, JhWait, JhEni, JhEniOff,
      JhEniAttach, Save17b, KeyReuse, KeyRefused, KeyReplace, KeyUnseen, KeyCreate, PemWrite, VeSg,
      VeRules, VeMgmt, VeExtFound, VeExtCreate, VeExtOff, VeFound, VeLaunch, VeWait, Save17e, Reuse,
      Create, New, SetEice, HostFound, Waited, Makes, On
  <2>3. misled => misled'
    BY <1>1 DEF UpStep,
      TmmFound, TmmStale, TmmCreate, TmmOff, TmmAttach, Save17, Role, Profile, Join, JhSg,
      EiceFound, EiceCreate, EiceReady, Ssh, JhFound, JhLaunch, JhWait, JhEni, JhEniOff,
      JhEniAttach, Save17b, KeyReuse, KeyRefused, KeyReplace, KeyUnseen, KeyCreate, PemWrite, VeSg,
      VeRules, VeMgmt, VeExtFound, VeExtCreate, VeExtOff, VeFound, VeLaunch, VeWait, Save17e, Reuse,
      Create, New, SetEice, HostFound, Waited, Makes, On
  <2>4. faults' = faults \/ faults' = faults + 1
    BY <1>1 DEF UpStep,
      TmmFound, TmmStale, TmmCreate, TmmOff, TmmAttach, Save17, Role, Profile, Join, JhSg,
      EiceFound, EiceCreate, EiceReady, Ssh, JhFound, JhLaunch, JhWait, JhEni, JhEniOff,
      JhEniAttach, Save17b, KeyReuse, KeyRefused, KeyReplace, KeyUnseen, KeyCreate, PemWrite, VeSg,
      VeRules, VeMgmt, VeExtFound, VeExtCreate, VeExtOff, VeFound, VeLaunch, VeWait, Save17e, Reuse,
      Create, New, SetEice, HostFound, Waited, Makes, On
  <2>5. QED BY <2>1, <2>2, <2>3, <2>4
<1>2. CASE OnboardStep
  <2>1. run' = run
    BY <1>2 DEF OnboardStep,
      PemCopy, Gate, Skip, Proceed, Shell, Lockout, Password, Ltm, Vlans, SelfIps, As3Found,
      As3Post, As3Poll, As3Refused, Cis, Finalize, Verify, UpDone, Reuse, Create, New, SetEice,
      HostFound, Waited, Makes, On
  <2>2. pc' # "idle" => done' = done
    BY <1>2 DEF OnboardStep,
      PemCopy, Gate, Skip, Proceed, Shell, Lockout, Password, Ltm, Vlans, SelfIps, As3Found,
      As3Post, As3Poll, As3Refused, Cis, Finalize, Verify, UpDone, Reuse, Create, New, SetEice,
      HostFound, Waited, Makes, On
  <2>3. misled => misled'
    BY <1>2 DEF OnboardStep,
      PemCopy, Gate, Skip, Proceed, Shell, Lockout, Password, Ltm, Vlans, SelfIps, As3Found,
      As3Post, As3Poll, As3Refused, Cis, Finalize, Verify, UpDone, Reuse, Create, New, SetEice,
      HostFound, Waited, Makes, On
  <2>4. faults' = faults \/ faults' = faults + 1
    BY <1>2 DEF OnboardStep,
      PemCopy, Gate, Skip, Proceed, Shell, Lockout, Password, Ltm, Vlans, SelfIps, As3Found,
      As3Post, As3Poll, As3Refused, Cis, Finalize, Verify, UpDone, Reuse, Create, New, SetEice,
      HostFound, Waited, Makes, On
  <2>5. QED BY <2>1, <2>2, <2>3, <2>4
<1>3. CASE DownStep
  <2>1. run' = run
    BY <1>3 DEF DownStep,
      VeEnd, VeEnded, VeMgmtDown, VeMgmtRefused, VeExtDown, VeSgDown, VeSgRefused, KeyDown, PemDown,
      Save17eDown, JhEnd, JhEnded, JhEniDown, EiceDown, EiceGone, JhSgRefs, JhSgDown, Leave,
      ProfileDown, RoleDown, Save17bDown, TmmOwn, TmmList, TmmTagged, DownDone, Aim, ClearAnd,
      Terminate, Terminated, EniDown, EniRefused, TmmDrop
  <2>2. pc' # "idle" => done' = done
    BY <1>3 DEF DownStep,
      VeEnd, VeEnded, VeMgmtDown, VeMgmtRefused, VeExtDown, VeSgDown, VeSgRefused, KeyDown, PemDown,
      Save17eDown, JhEnd, JhEnded, JhEniDown, EiceDown, EiceGone, JhSgRefs, JhSgDown, Leave,
      ProfileDown, RoleDown, Save17bDown, TmmOwn, TmmList, TmmTagged, DownDone, Aim, ClearAnd,
      Terminate, Terminated, EniDown, EniRefused, TmmDrop
  <2>3. misled => misled'
    BY <1>3 DEF DownStep,
      VeEnd, VeEnded, VeMgmtDown, VeMgmtRefused, VeExtDown, VeSgDown, VeSgRefused, KeyDown, PemDown,
      Save17eDown, JhEnd, JhEnded, JhEniDown, EiceDown, EiceGone, JhSgRefs, JhSgDown, Leave,
      ProfileDown, RoleDown, Save17bDown, TmmOwn, TmmList, TmmTagged, DownDone, Aim, ClearAnd,
      Terminate, Terminated, EniDown, EniRefused, TmmDrop
  <2>4. faults' = faults \/ faults' = faults + 1
    BY <1>3 DEF DownStep,
      VeEnd, VeEnded, VeMgmtDown, VeMgmtRefused, VeExtDown, VeSgDown, VeSgRefused, KeyDown, PemDown,
      Save17eDown, JhEnd, JhEnded, JhEniDown, EiceDown, EiceGone, JhSgRefs, JhSgDown, Leave,
      ProfileDown, RoleDown, Save17bDown, TmmOwn, TmmList, TmmTagged, DownDone, Aim, ClearAnd,
      Terminate, Terminated, EniDown, EniRefused, TmmDrop
  <2>5. QED BY <2>1, <2>2, <2>3, <2>4
<1>4. CASE StartUp \/ StartDown \/ LoseFiles \/ LoseHost BY <1>4 DEF StartUp, StartDown, LoseFiles, LoseHost
<1>5. CASE Abort BY <1>5 DEF Abort
<1>6. CASE Outside BY <1>6 DEF Outside
<1>7. QED BY <1>1, <1>2, <1>3, <1>4, <1>5, <1>6 DEF Next

\* The operator does not touch the account, but for the instance somebody terminates.
LEMMA IdleStep == ASSUME StartUp \/ StartDown \/ Abort \/ LoseFiles PROVE UNCHANGED cloud
  BY DEF StartUp, StartDown, Abort, LoseFiles

\* Which steps of a command set a key.
LEMMA MemSteps == ASSUME TypeOK, UpMove \/ DownStep, pc' # "idle"
  PROVE /\ mem'["tmm"] = mem["tmm"] \/ TmmFound \/ TmmCreate \/ DownDone
        /\ mem'["jhSg"] = mem["jhSg"] \/ JhSg \/ JhSgRefs \/ Save17bDown
        /\ mem'["eice"] = mem["eice"] \/ EiceFound \/ EiceCreate \/ EiceReady \/ EiceDown \/ Save17bDown
        /\ mem'["eiceSg"] = mem["eiceSg"] \/ EiceCreate \/ EiceReady \/ Save17bDown
        /\ mem'["jh"] = mem["jh"] \/ JhFound \/ JhLaunch \/ JhEnd \/ Save17bDown
        /\ mem'["jhEni"] = mem["jhEni"] \/ JhEni \/ JhEniDown \/ Save17bDown
        /\ mem'["veSg"] = mem["veSg"] \/ VeSg \/ VeSgDown \/ Save17eDown
        /\ mem'["veMgmt"] = mem["veMgmt"] \/ VeMgmt \/ VeMgmtDown \/ Save17eDown
        /\ mem'["veExt"] = mem["veExt"] \/ VeExtFound \/ VeExtCreate \/ VeExtDown \/ Save17eDown
        /\ mem'["ve"] = mem["ve"] \/ VeFound \/ VeLaunch \/ VeEnd \/ Save17eDown
<1>0. mem \in [Keys -> Ref] BY DEF TypeOK
<1> USE <1>0 DEF Keys, Kinds, EniKinds, HostKinds, Set, Without,
    At, Goto, Go, Told, Fault, End, Refuse, Fail, Dropped, SaveAnd
<1>1. CASE UpStep
  <2>1. mem'["tmm"] = mem["tmm"] \/ TmmFound \/ TmmCreate
    BY <1>1 DEF UpStep,
      TmmStale, TmmOff, TmmAttach, Save17, Role, Profile, Join, JhSg, EiceFound, EiceCreate,
      EiceReady, Ssh, JhFound, JhLaunch, JhWait, JhEni, JhEniOff, JhEniAttach, Save17b, KeyReuse,
      KeyRefused, KeyReplace, KeyUnseen, KeyCreate, PemWrite, VeSg, VeRules, VeMgmt, VeExtFound,
      VeExtCreate, VeExtOff, VeFound, VeLaunch, VeWait, Save17e, Reuse, Create, New, SetEice,
      HostFound, Waited, Makes, On
  <2>2. mem'["jhSg"] = mem["jhSg"] \/ JhSg
    BY <1>1 DEF UpStep,
      TmmFound, TmmStale, TmmCreate, TmmOff, TmmAttach, Save17, Role, Profile, Join, EiceFound,
      EiceCreate, EiceReady, Ssh, JhFound, JhLaunch, JhWait, JhEni, JhEniOff, JhEniAttach, Save17b,
      KeyReuse, KeyRefused, KeyReplace, KeyUnseen, KeyCreate, PemWrite, VeSg, VeRules, VeMgmt,
      VeExtFound, VeExtCreate, VeExtOff, VeFound, VeLaunch, VeWait, Save17e, Reuse, Create, New,
      SetEice, HostFound, Waited, Makes, On
  <2>3. mem'["eice"] = mem["eice"] \/ EiceFound \/ EiceCreate \/ EiceReady
    BY <1>1 DEF UpStep,
      TmmFound, TmmStale, TmmCreate, TmmOff, TmmAttach, Save17, Role, Profile, Join, JhSg, Ssh,
      JhFound, JhLaunch, JhWait, JhEni, JhEniOff, JhEniAttach, Save17b, KeyReuse, KeyRefused,
      KeyReplace, KeyUnseen, KeyCreate, PemWrite, VeSg, VeRules, VeMgmt, VeExtFound, VeExtCreate,
      VeExtOff, VeFound, VeLaunch, VeWait, Save17e, Reuse, Create, New, SetEice, HostFound, Waited,
      Makes, On
  <2>4. mem'["eiceSg"] = mem["eiceSg"] \/ EiceCreate \/ EiceReady
    BY <1>1 DEF UpStep,
      TmmFound, TmmStale, TmmCreate, TmmOff, TmmAttach, Save17, Role, Profile, Join, JhSg,
      EiceFound, Ssh, JhFound, JhLaunch, JhWait, JhEni, JhEniOff, JhEniAttach, Save17b, KeyReuse,
      KeyRefused, KeyReplace, KeyUnseen, KeyCreate, PemWrite, VeSg, VeRules, VeMgmt, VeExtFound,
      VeExtCreate, VeExtOff, VeFound, VeLaunch, VeWait, Save17e, Reuse, Create, New, SetEice,
      HostFound, Waited, Makes, On
  <2>5. mem'["jh"] = mem["jh"] \/ JhFound \/ JhLaunch
    BY <1>1 DEF UpStep,
      TmmFound, TmmStale, TmmCreate, TmmOff, TmmAttach, Save17, Role, Profile, Join, JhSg,
      EiceFound, EiceCreate, EiceReady, Ssh, JhWait, JhEni, JhEniOff, JhEniAttach, Save17b,
      KeyReuse, KeyRefused, KeyReplace, KeyUnseen, KeyCreate, PemWrite, VeSg, VeRules, VeMgmt,
      VeExtFound, VeExtCreate, VeExtOff, VeFound, VeLaunch, VeWait, Save17e, Reuse, Create, New,
      SetEice, HostFound, Waited, Makes, On
  <2>6. mem'["jhEni"] = mem["jhEni"] \/ JhEni
    BY <1>1 DEF UpStep,
      TmmFound, TmmStale, TmmCreate, TmmOff, TmmAttach, Save17, Role, Profile, Join, JhSg,
      EiceFound, EiceCreate, EiceReady, Ssh, JhFound, JhLaunch, JhWait, JhEniOff, JhEniAttach,
      Save17b, KeyReuse, KeyRefused, KeyReplace, KeyUnseen, KeyCreate, PemWrite, VeSg, VeRules,
      VeMgmt, VeExtFound, VeExtCreate, VeExtOff, VeFound, VeLaunch, VeWait, Save17e, Reuse, Create,
      New, SetEice, HostFound, Waited, Makes, On
  <2>7. mem'["veSg"] = mem["veSg"] \/ VeSg
    BY <1>1 DEF UpStep,
      TmmFound, TmmStale, TmmCreate, TmmOff, TmmAttach, Save17, Role, Profile, Join, JhSg,
      EiceFound, EiceCreate, EiceReady, Ssh, JhFound, JhLaunch, JhWait, JhEni, JhEniOff,
      JhEniAttach, Save17b, KeyReuse, KeyRefused, KeyReplace, KeyUnseen, KeyCreate, PemWrite,
      VeRules, VeMgmt, VeExtFound, VeExtCreate, VeExtOff, VeFound, VeLaunch, VeWait, Save17e, Reuse,
      Create, New, SetEice, HostFound, Waited, Makes, On
  <2>8. mem'["veMgmt"] = mem["veMgmt"] \/ VeMgmt
    BY <1>1 DEF UpStep,
      TmmFound, TmmStale, TmmCreate, TmmOff, TmmAttach, Save17, Role, Profile, Join, JhSg,
      EiceFound, EiceCreate, EiceReady, Ssh, JhFound, JhLaunch, JhWait, JhEni, JhEniOff,
      JhEniAttach, Save17b, KeyReuse, KeyRefused, KeyReplace, KeyUnseen, KeyCreate, PemWrite, VeSg,
      VeRules, VeExtFound, VeExtCreate, VeExtOff, VeFound, VeLaunch, VeWait, Save17e, Reuse, Create,
      New, SetEice, HostFound, Waited, Makes, On
  <2>9. mem'["veExt"] = mem["veExt"] \/ VeExtFound \/ VeExtCreate
    BY <1>1 DEF UpStep,
      TmmFound, TmmStale, TmmCreate, TmmOff, TmmAttach, Save17, Role, Profile, Join, JhSg,
      EiceFound, EiceCreate, EiceReady, Ssh, JhFound, JhLaunch, JhWait, JhEni, JhEniOff,
      JhEniAttach, Save17b, KeyReuse, KeyRefused, KeyReplace, KeyUnseen, KeyCreate, PemWrite, VeSg,
      VeRules, VeMgmt, VeExtOff, VeFound, VeLaunch, VeWait, Save17e, Reuse, Create, New, SetEice,
      HostFound, Waited, Makes, On
  <2>10. mem'["ve"] = mem["ve"] \/ VeFound \/ VeLaunch
    BY <1>1 DEF UpStep,
      TmmFound, TmmStale, TmmCreate, TmmOff, TmmAttach, Save17, Role, Profile, Join, JhSg,
      EiceFound, EiceCreate, EiceReady, Ssh, JhFound, JhLaunch, JhWait, JhEni, JhEniOff,
      JhEniAttach, Save17b, KeyReuse, KeyRefused, KeyReplace, KeyUnseen, KeyCreate, PemWrite, VeSg,
      VeRules, VeMgmt, VeExtFound, VeExtCreate, VeExtOff, VeWait, Save17e, Reuse, Create, New,
      SetEice, HostFound, Waited, Makes, On
  <2>11. QED BY <2>1, <2>2, <2>3, <2>4, <2>5, <2>6, <2>7, <2>8, <2>9, <2>10
<1>2. CASE OnboardStep
  <2>1. mem'["tmm"] = mem["tmm"]
    BY <1>2 DEF OnboardStep,
      PemCopy, Gate, Skip, Proceed, Shell, Lockout, Password, Ltm, Vlans, SelfIps, As3Found,
      As3Post, As3Poll, As3Refused, Cis, Finalize, Verify, UpDone, Reuse, Create, New, SetEice,
      HostFound, Waited, Makes, On
  <2>2. mem'["jhSg"] = mem["jhSg"]
    BY <1>2 DEF OnboardStep,
      PemCopy, Gate, Skip, Proceed, Shell, Lockout, Password, Ltm, Vlans, SelfIps, As3Found,
      As3Post, As3Poll, As3Refused, Cis, Finalize, Verify, UpDone, Reuse, Create, New, SetEice,
      HostFound, Waited, Makes, On
  <2>3. mem'["eice"] = mem["eice"]
    BY <1>2 DEF OnboardStep,
      PemCopy, Gate, Skip, Proceed, Shell, Lockout, Password, Ltm, Vlans, SelfIps, As3Found,
      As3Post, As3Poll, As3Refused, Cis, Finalize, Verify, UpDone, Reuse, Create, New, SetEice,
      HostFound, Waited, Makes, On
  <2>4. mem'["eiceSg"] = mem["eiceSg"]
    BY <1>2 DEF OnboardStep,
      PemCopy, Gate, Skip, Proceed, Shell, Lockout, Password, Ltm, Vlans, SelfIps, As3Found,
      As3Post, As3Poll, As3Refused, Cis, Finalize, Verify, UpDone, Reuse, Create, New, SetEice,
      HostFound, Waited, Makes, On
  <2>5. mem'["jh"] = mem["jh"]
    BY <1>2 DEF OnboardStep,
      PemCopy, Gate, Skip, Proceed, Shell, Lockout, Password, Ltm, Vlans, SelfIps, As3Found,
      As3Post, As3Poll, As3Refused, Cis, Finalize, Verify, UpDone, Reuse, Create, New, SetEice,
      HostFound, Waited, Makes, On
  <2>6. mem'["jhEni"] = mem["jhEni"]
    BY <1>2 DEF OnboardStep,
      PemCopy, Gate, Skip, Proceed, Shell, Lockout, Password, Ltm, Vlans, SelfIps, As3Found,
      As3Post, As3Poll, As3Refused, Cis, Finalize, Verify, UpDone, Reuse, Create, New, SetEice,
      HostFound, Waited, Makes, On
  <2>7. mem'["veSg"] = mem["veSg"]
    BY <1>2 DEF OnboardStep,
      PemCopy, Gate, Skip, Proceed, Shell, Lockout, Password, Ltm, Vlans, SelfIps, As3Found,
      As3Post, As3Poll, As3Refused, Cis, Finalize, Verify, UpDone, Reuse, Create, New, SetEice,
      HostFound, Waited, Makes, On
  <2>8. mem'["veMgmt"] = mem["veMgmt"]
    BY <1>2 DEF OnboardStep,
      PemCopy, Gate, Skip, Proceed, Shell, Lockout, Password, Ltm, Vlans, SelfIps, As3Found,
      As3Post, As3Poll, As3Refused, Cis, Finalize, Verify, UpDone, Reuse, Create, New, SetEice,
      HostFound, Waited, Makes, On
  <2>9. mem'["veExt"] = mem["veExt"]
    BY <1>2 DEF OnboardStep,
      PemCopy, Gate, Skip, Proceed, Shell, Lockout, Password, Ltm, Vlans, SelfIps, As3Found,
      As3Post, As3Poll, As3Refused, Cis, Finalize, Verify, UpDone, Reuse, Create, New, SetEice,
      HostFound, Waited, Makes, On
  <2>10. mem'["ve"] = mem["ve"]
    BY <1>2 DEF OnboardStep,
      PemCopy, Gate, Skip, Proceed, Shell, Lockout, Password, Ltm, Vlans, SelfIps, As3Found,
      As3Post, As3Poll, As3Refused, Cis, Finalize, Verify, UpDone, Reuse, Create, New, SetEice,
      HostFound, Waited, Makes, On
  <2>11. QED BY <2>1, <2>2, <2>3, <2>4, <2>5, <2>6, <2>7, <2>8, <2>9, <2>10
<1>3. CASE DownStep
  <2>1. mem'["tmm"] = mem["tmm"] \/ DownDone
    BY <1>3 DEF DownStep,
      VeEnd, VeEnded, VeMgmtDown, VeMgmtRefused, VeExtDown, VeSgDown, VeSgRefused, KeyDown, PemDown,
      Save17eDown, JhEnd, JhEnded, JhEniDown, EiceDown, EiceGone, JhSgRefs, JhSgDown, Leave,
      ProfileDown, RoleDown, Save17bDown, TmmOwn, TmmList, TmmTagged, Aim, ClearAnd, Terminate,
      Terminated, EniDown, EniRefused, TmmDrop
  <2>2. mem'["jhSg"] = mem["jhSg"] \/ JhSgRefs \/ Save17bDown
    BY <1>3 DEF DownStep,
      VeEnd, VeEnded, VeMgmtDown, VeMgmtRefused, VeExtDown, VeSgDown, VeSgRefused, KeyDown, PemDown,
      Save17eDown, JhEnd, JhEnded, JhEniDown, EiceDown, EiceGone, JhSgDown, Leave, ProfileDown,
      RoleDown, TmmOwn, TmmList, TmmTagged, DownDone, Aim, ClearAnd, Terminate, Terminated, EniDown,
      EniRefused, TmmDrop
  <2>3. mem'["eice"] = mem["eice"] \/ EiceDown \/ Save17bDown
    BY <1>3 DEF DownStep,
      VeEnd, VeEnded, VeMgmtDown, VeMgmtRefused, VeExtDown, VeSgDown, VeSgRefused, KeyDown, PemDown,
      Save17eDown, JhEnd, JhEnded, JhEniDown, EiceGone, JhSgRefs, JhSgDown, Leave, ProfileDown,
      RoleDown, TmmOwn, TmmList, TmmTagged, DownDone, Aim, ClearAnd, Terminate, Terminated, EniDown,
      EniRefused, TmmDrop
  <2>4. mem'["eiceSg"] = mem["eiceSg"] \/ Save17bDown
    BY <1>3 DEF DownStep,
      VeEnd, VeEnded, VeMgmtDown, VeMgmtRefused, VeExtDown, VeSgDown, VeSgRefused, KeyDown, PemDown,
      Save17eDown, JhEnd, JhEnded, JhEniDown, EiceDown, EiceGone, JhSgRefs, JhSgDown, Leave,
      ProfileDown, RoleDown, TmmOwn, TmmList, TmmTagged, DownDone, Aim, ClearAnd, Terminate,
      Terminated, EniDown, EniRefused, TmmDrop
  <2>5. mem'["jh"] = mem["jh"] \/ JhEnd \/ Save17bDown
    BY <1>3 DEF DownStep,
      VeEnd, VeEnded, VeMgmtDown, VeMgmtRefused, VeExtDown, VeSgDown, VeSgRefused, KeyDown, PemDown,
      Save17eDown, JhEnded, JhEniDown, EiceDown, EiceGone, JhSgRefs, JhSgDown, Leave, ProfileDown,
      RoleDown, TmmOwn, TmmList, TmmTagged, DownDone, Aim, ClearAnd, Terminate, Terminated, EniDown,
      EniRefused, TmmDrop
  <2>6. mem'["jhEni"] = mem["jhEni"] \/ JhEniDown \/ Save17bDown
    BY <1>3 DEF DownStep,
      VeEnd, VeEnded, VeMgmtDown, VeMgmtRefused, VeExtDown, VeSgDown, VeSgRefused, KeyDown, PemDown,
      Save17eDown, JhEnd, JhEnded, EiceDown, EiceGone, JhSgRefs, JhSgDown, Leave, ProfileDown,
      RoleDown, TmmOwn, TmmList, TmmTagged, DownDone, Aim, ClearAnd, Terminate, Terminated, EniDown,
      EniRefused, TmmDrop
  <2>7. mem'["veSg"] = mem["veSg"] \/ VeSgDown \/ Save17eDown
    BY <1>3 DEF DownStep,
      VeEnd, VeEnded, VeMgmtDown, VeMgmtRefused, VeExtDown, VeSgRefused, KeyDown, PemDown, JhEnd,
      JhEnded, JhEniDown, EiceDown, EiceGone, JhSgRefs, JhSgDown, Leave, ProfileDown, RoleDown,
      Save17bDown, TmmOwn, TmmList, TmmTagged, DownDone, Aim, ClearAnd, Terminate, Terminated,
      EniDown, EniRefused, TmmDrop
  <2>8. mem'["veMgmt"] = mem["veMgmt"] \/ VeMgmtDown \/ Save17eDown
    BY <1>3 DEF DownStep,
      VeEnd, VeEnded, VeMgmtRefused, VeExtDown, VeSgDown, VeSgRefused, KeyDown, PemDown, JhEnd,
      JhEnded, JhEniDown, EiceDown, EiceGone, JhSgRefs, JhSgDown, Leave, ProfileDown, RoleDown,
      Save17bDown, TmmOwn, TmmList, TmmTagged, DownDone, Aim, ClearAnd, Terminate, Terminated,
      EniDown, EniRefused, TmmDrop
  <2>9. mem'["veExt"] = mem["veExt"] \/ VeExtDown \/ Save17eDown
    BY <1>3 DEF DownStep,
      VeEnd, VeEnded, VeMgmtDown, VeMgmtRefused, VeSgDown, VeSgRefused, KeyDown, PemDown, JhEnd,
      JhEnded, JhEniDown, EiceDown, EiceGone, JhSgRefs, JhSgDown, Leave, ProfileDown, RoleDown,
      Save17bDown, TmmOwn, TmmList, TmmTagged, DownDone, Aim, ClearAnd, Terminate, Terminated,
      EniDown, EniRefused, TmmDrop
  <2>10. mem'["ve"] = mem["ve"] \/ VeEnd \/ Save17eDown
    BY <1>3 DEF DownStep,
      VeEnded, VeMgmtDown, VeMgmtRefused, VeExtDown, VeSgDown, VeSgRefused, KeyDown, PemDown, JhEnd,
      JhEnded, JhEniDown, EiceDown, EiceGone, JhSgRefs, JhSgDown, Leave, ProfileDown, RoleDown,
      Save17bDown, TmmOwn, TmmList, TmmTagged, DownDone, Aim, ClearAnd, Terminate, Terminated,
      EniDown, EniRefused, TmmDrop
  <2>11. QED BY <2>1, <2>2, <2>3, <2>4, <2>5, <2>6, <2>7, <2>8, <2>9, <2>10
<1>4. QED BY <1>1, <1>2, <1>3 DEF UpMove

-----------------------------------------------------------------------------
(* Types.                                                                   *)

Built == TmmBuilt /\ JhBuilt /\ VeBuilt

States == {"none", "creating", "ready", "failed", "deleting"}

LEMMA Sorts ==
  /\ \A n \in Kinds, r \in Runs : <<n, r>> \in Id
  /\ \A x \in Id : x[1] \in Kinds /\ x[2] \in Runs /\ x = <<x[1], x[2]>>
  /\ \A n : Has(n) \subseteq Runs /\ Alive(n) \subseteq Has(n)
  /\ {"tmm", "jhSg", "eice", "jh", "jhEni", "veSg", "veMgmt", "veExt", "ve"} = Kinds
  /\ Kinds \subseteq Keys /\ "eiceSg" \in Keys /\ "onboarded" \in Keys
  BY DEF Id, Has, Alive, Kinds, EniKinds, HostKinds, Keys

LEMMA Become_ == ASSUME TypeOK, NEW x \in Id, NEW s, Become(x, s)
  PROVE /\ s \in States => status' \in [Id -> States]
        /\ status'[x] = s
        /\ \A y \in Id : y # x => status'[y] = status[y]
  BY DEF TypeOK, AccountTypeOK, Become, States

LEMMA MemType == ASSUME TypeOK, Control, Next PROVE mem' \in [Keys -> Ref] /\ disk' \in [Keys -> Ref]
<1> USE RefFacts, Sorts
<1>0. mem \in [Keys -> Ref] /\ disk \in [Keys -> Ref] BY DEF TypeOK
<1>1. ASSUME NEW n \in Keys, NEW r \in Ref, Set(n, r) PROVE mem' \in [Keys -> Ref]
  BY <1>0, <1>1 DEF Set
<1>2. ASSUME NEW r \in Ref, SetEice(r) PROVE mem' \in [Keys -> Ref] BY <1>0, <1>2 DEF SetEice
<1>3. EmptyState \in [Keys -> Ref] BY DEF EmptyState
<1>4. \A N : Without(N) \in [Keys -> Ref] BY <1>0 DEF Without
<1>5. \A n \in Keys : Known(n) \subseteq Ref BY <1>0 DEF Known
<1>6. mem' \in [Keys -> Ref]
  <2>0. UNCHANGED mem \/ mem' = EmptyState => mem' \in [Keys -> Ref] BY <1>0, <1>3
  <2>1. CASE UpStep
    <3>1. UNCHANGED mem \/ mem' = EmptyState
            \/ TmmFound \/ TmmCreate \/ JhSg \/ EiceFound \/ EiceCreate \/ EiceReady \/ JhFound
            \/ JhLaunch \/ JhEni \/ VeSg \/ VeMgmt \/ VeExtFound \/ VeExtCreate \/ VeFound
            \/ VeLaunch
      BY <2>1 DEF UpStep,
        TmmStale, TmmOff, TmmAttach, Save17, Role, Profile, Join, Ssh, JhWait, JhEniOff,
        JhEniAttach, Save17b, KeyReuse, KeyRefused, KeyReplace, KeyUnseen, KeyCreate, PemWrite,
        VeRules, VeExtOff, VeWait, Save17e, Reuse, Create, New, HostFound, Waited, Makes, On, Goto,
        Go, End, Refuse, Fail, Dropped, SaveAnd
    <3>2. CASE TmmFound \/ TmmCreate \/ JhSg \/ EiceFound \/ EiceCreate \/ EiceReady \/ JhFound \/
            JhLaunch \/ JhEni \/ VeSg \/ VeMgmt \/ VeExtFound \/ VeExtCreate \/ VeFound \/ VeLaunch
      <4>1. run \in Ref BY <3>2, Starts DEF Control, UpPoints
      <4>2. \A n : Has(n) \cup Alive(n) \subseteq Ref OBVIOUS
      <4>3. \A n \in Kinds : n \in Keys /\ mem[n] \in Ref BY <1>0
      <4> USE <1>1, <1>2, <1>5, <2>0, <4>1, <4>2, <4>3 DEF Reuse, Create, New, HostFound, Refuse, End, Fail, cloud
      <4>4. CASE TmmFound BY <4>4 DEF TmmFound
      <4>5. CASE TmmCreate BY <4>5 DEF TmmCreate
      <4>6. CASE JhSg BY <4>6 DEF JhSg
      <4>7. CASE EiceFound BY <4>7 DEF EiceFound
      <4>8. CASE EiceCreate BY <4>8 DEF EiceCreate
      <4>9. CASE EiceReady BY <4>9 DEF EiceReady
      <4>10. CASE JhFound BY <4>10 DEF JhFound
      <4>11. CASE JhLaunch BY <4>11 DEF JhLaunch
      <4>12. CASE JhEni BY <4>12 DEF JhEni
      <4>13. CASE VeSg BY <4>13 DEF VeSg
      <4>14. CASE VeMgmt BY <4>14 DEF VeMgmt
      <4>15. CASE VeExtFound BY <4>15 DEF VeExtFound
      <4>16. CASE VeExtCreate BY <4>16 DEF VeExtCreate
      <4>17. CASE VeFound BY <4>17 DEF VeFound
      <4>18. CASE VeLaunch BY <4>18 DEF VeLaunch
      <4>19. QED
        BY <3>2, <4>4, <4>5, <4>6, <4>7, <4>8, <4>9, <4>10, <4>11, <4>12, <4>13, <4>14, <4>15, <4>16,
          <4>17, <4>18
    <3>3. QED BY <2>0, <3>1, <3>2
  <2>2. CASE OnboardStep
    <3>1. UNCHANGED mem \/ mem' = EmptyState
            \/ Skip \/ Verify
      BY <2>2 DEF OnboardStep,
        PemCopy, Gate, Proceed, Shell, Lockout, Password, Ltm, Vlans, SelfIps, As3Found, As3Post,
        As3Poll, As3Refused, Cis, Finalize, UpDone, Reuse, Create, New, HostFound, Waited, Makes,
        On, Goto, Go, End, Refuse, Fail, Dropped, SaveAnd
    <3>2. CASE Skip \/ Verify
      <4>1. run \in Ref BY <3>2, Starts DEF Control, UpPoints, OnboardPoints
      <4>2. QED BY <1>1, <2>0, <3>2, <4>1 DEF Skip, Verify, Fail, Refuse, End
    <3>3. QED BY <2>0, <3>1, <3>2
  <2>3. CASE DownStep
    <3>1. UNCHANGED mem \/ mem' = EmptyState
            \/ VeEnd \/ VeMgmtDown \/ VeExtDown \/ VeSgDown \/ JhEnd \/ JhEniDown \/ EiceDown
            \/ JhSgRefs \/ Save17eDown \/ Save17bDown
      BY <2>3 DEF DownStep,
        VeEnded, VeMgmtRefused, VeSgRefused, KeyDown, PemDown, JhEnded, EiceGone, JhSgDown, Leave,
        ProfileDown, RoleDown, TmmOwn, TmmList, TmmTagged, DownDone, ClearAnd, Terminate,
        Terminated, EniDown, EniRefused, TmmDrop, Goto, Go, End, Refuse, Fail, Dropped, SaveAnd
    <3>2. CASE VeEnd \/ VeMgmtDown \/ VeExtDown \/ VeSgDown \/ JhEnd \/ JhEniDown \/ EiceDown \/
            JhSgRefs \/ Save17eDown \/ Save17bDown
      <4> USE <1>1, <1>4, <1>5, <2>0 DEF Terminate, EniDown, Aim, ClearAnd
      <4>1. CASE VeEnd BY <3>2, <4>1 DEF VeEnd
      <4>2. CASE VeMgmtDown BY <3>2, <4>2 DEF VeMgmtDown
      <4>3. CASE VeExtDown BY <3>2, <4>3 DEF VeExtDown
      <4>4. CASE VeSgDown BY <3>2, <4>4 DEF VeSgDown
      <4>5. CASE JhEnd BY <3>2, <4>5 DEF JhEnd
      <4>6. CASE JhEniDown BY <3>2, <4>6 DEF JhEniDown
      <4>7. CASE EiceDown BY <3>2, <4>7 DEF EiceDown
      <4>8. CASE JhSgRefs BY <3>2, <4>8 DEF JhSgRefs
      <4>9. CASE Save17eDown BY <3>2, <4>9 DEF Save17eDown
      <4>10. CASE Save17bDown BY <3>2, <4>10 DEF Save17bDown
      <4>11. QED BY <3>2, <4>1, <4>2, <4>3, <4>4, <4>5, <4>6, <4>7, <4>8, <4>9, <4>10
    <3>3. QED BY <2>0, <3>1, <3>2
  <2>4. CASE StartUp \/ StartDown \/ Abort \/ LoseFiles \/ LoseHost \/ Outside
    BY <1>0, <1>3, <2>4 DEF StartUp, StartDown, Abort, LoseFiles, LoseHost, Outside, End
  <2>5. QED BY <2>1, <2>2, <2>3, <2>4 DEF Next
<1>7. disk' \in [Keys -> Ref]
  <2>1. CASE Save17 \/ Save17b \/ Save17e \/ UpDone \/ LoseFiles
    BY <1>0, <1>3, <2>1 DEF Save17, Save17b, Save17e, UpDone, LoseFiles, SaveAnd
  <2>2. CASE Save17eDown \/ Save17bDown \/ DownDone
    BY <1>4, <1>6, <2>2 DEF Save17eDown, Save17bDown, DownDone, ClearAnd
  <2>3. QED BY <1>0, <2>1, <2>2, Frames
<1>8. QED BY <1>6, <1>7

\* A step of phase 17f changes one thing about a BIG-IP.
LEMMA BoxHas == ASSUME NEW b \in Boxes, NEW H \in SUBSET Settings
  PROVE /\ [b EXCEPT !["has"] = H] \in Boxes
        /\ [b EXCEPT !["has"] = H].has = H
        /\ [b EXCEPT !["has"] = H].as3 = b.as3
        /\ [b EXCEPT !["has"] = H].pw = b.pw
<1>1. [b EXCEPT !["has"] = H] \in Boxes BY DEF Boxes
<1>2. [b EXCEPT !["has"] = H].has = H BY DEF Boxes
<1>3. [b EXCEPT !["has"] = H].as3 = b.as3 BY DEF Boxes
<1>4. [b EXCEPT !["has"] = H].pw = b.pw BY DEF Boxes
<1>5. QED BY <1>1, <1>2, <1>3, <1>4

LEMMA BoxPw == ASSUME NEW b \in Boxes, NEW w \in {"unset", "live", "durable"}
  PROVE /\ [b EXCEPT !["pw"] = w] \in Boxes
        /\ [b EXCEPT !["pw"] = w].has = b.has
        /\ [b EXCEPT !["pw"] = w].as3 = b.as3
        /\ [b EXCEPT !["pw"] = w].pw = w
<1>1. [b EXCEPT !["pw"] = w] \in Boxes BY DEF Boxes
<1>2. [b EXCEPT !["pw"] = w].has = b.has BY DEF Boxes
<1>3. [b EXCEPT !["pw"] = w].as3 = b.as3 BY DEF Boxes
<1>4. [b EXCEPT !["pw"] = w].pw = w BY DEF Boxes
<1>5. QED BY <1>1, <1>2, <1>3, <1>4

LEMMA BoxAs3 == ASSUME NEW b \in Boxes, NEW s \in {"none", "installing", "installed"}
  PROVE /\ [b EXCEPT !.as3 = s] \in Boxes
        /\ [b EXCEPT !.as3 = s].has = b.has
        /\ [b EXCEPT !.as3 = s].as3 = s
        /\ [b EXCEPT !.as3 = s].pw = b.pw
<1>1. [b EXCEPT !.as3 = s] \in Boxes BY DEF Boxes
<1>2. [b EXCEPT !.as3 = s].has = b.has BY DEF Boxes
<1>3. [b EXCEPT !.as3 = s].as3 = s BY DEF Boxes
<1>4. [b EXCEPT !.as3 = s].pw = b.pw BY DEF Boxes
<1>5. QED BY <1>1, <1>2, <1>3, <1>4

LEMMA Nested ==
  /\ OnboardPoints \subseteq FromVe /\ FromVe \subseteq FromVeExt /\ FromVeExt \subseteq FromVeMgmt
  /\ FromVeMgmt \subseteq FromVeSg /\ FromVeSg \subseteq FromPem /\ FromPem \subseteq FromKey
  /\ FromKey \subseteq FromJh /\ FromJh \subseteq FromSsh /\ FromSsh \subseteq FromEice
  /\ FromEice \subseteq FromRole /\ FromRole \subseteq FromTmm /\ FromTmm \subseteq UpPoints
  /\ FromGate \subseteq OnboardPoints
  BY DEF FromRole, FromTmm, FromEice, FromSsh, FromJh, FromKey, FromPem, FromVeSg, FromVeMgmt, FromVeExt,
    FromVe, FromGate, UpPoints, OnboardPoints

\* The ids that are used are those of something.
LEMMA Names == ASSUME TypeOK, Built
  PROVE /\ pc \in {"tmmOff", "tmmAttach"} => mem["tmm"] \in Runs
        /\ pc \in {"jhEniOff", "jhEniAttach"} => mem["jhEni"] \in Runs
        /\ pc \in FromJh => mem["jh"] \in Runs
        /\ pc \in FromVeExt => mem["veExt"] \in Runs
        /\ pc = "veRules" => mem["veSg"] \in Runs
        /\ pc \in FromVe => mem["ve"] \in Runs
<1>1. mem \in [Keys -> Ref] BY DEF TypeOK
<1>2. QED BY <1>1, Sorts, RefFacts DEF Built, TmmBuilt, JhBuilt, VeBuilt

LEMMA AccountStepType == ASSUME TypeOK, Control, Built, Next PROVE AccountTypeOK'
<1> USE RefFacts, Sorts, Names
<1>0. AccountTypeOK BY DEF TypeOK
<1>1. role' \in BOOLEAN
  <2>1. role \in BOOLEAN BY <1>0 DEF AccountTypeOK
  <2>2. CASE Role \/ RoleDown BY <2>2 DEF Role, RoleDown
  <2>3. QED BY <2>1, <2>2, Frames
<1>2. profile' \in {"none", "empty", "joined"}
  <2>1. profile \in {"none", "empty", "joined"} BY <1>0 DEF AccountTypeOK
  <2>2. CASE Profile \/ Join \/ Leave \/ ProfileDown
    BY <2>1, <2>2 DEF Profile, Join, Leave, ProfileDown, cloud
  <2>3. QED BY <2>1, <2>2, Frames
<1>3. status' \in [Id -> States]
  <2>1. status \in [Id -> States] BY <1>0 DEF AccountTypeOK, States
  <2>2. ASSUME NEW x \in Id, NEW s \in States, Become(x, s) PROVE status' \in [Id -> States]
    BY <2>2, Become_
  <2>3. {"creating", "ready", "none", "failed", "deleting"} = States BY DEF States
  <2>4. CASE UNCHANGED status BY <2>1, <2>4
  <2>5. CASE TmmCreate \/ JhSg \/ EiceCreate \/ JhLaunch \/ JhEni \/ VeSg \/ VeMgmt \/ VeExtCreate
    <3>1. run \in Runs BY <2>5, Starts DEF Control, UpPoints
    <3>2. ASSUME NEW n \in Kinds, NEW s \in States, Become(<<n, run>>, s) PROVE status' \in [Id -> States]
      BY <2>2, <3>1, <3>2
    <3>3. QED
      BY <2>3, <2>4, <2>5, <3>2 DEF TmmCreate, JhSg, EiceCreate, JhLaunch, JhEni, VeSg, VeMgmt, VeExtCreate,
         Create, New, Reuse, Fail, cloud
  <2>6. CASE VeLaunch
    <3>1. run \in Runs BY <2>6, Starts DEF Control, UpPoints
    <3>2. ASSUME Become(<<"ve", run>>, "creating") PROVE status' \in [Id -> States]
      BY <2>2, <2>3, <3>1, <3>2
    <3>3. QED BY <2>4, <2>6, <3>2 DEF VeLaunch, cloud
  <2>7. CASE VeEnd \/ JhEnd \/ EiceDown
    <3>1. ASSUME NEW n \in Kinds, NEW r \in Has(n), Become(<<n, r>>, "deleting")
          PROVE status' \in [Id -> States]
      BY <2>2, <2>3, <3>1
    <3>2. \A n : \A r \in Alive(n) : r \in Has(n) OBVIOUS
    <3>3. QED BY <2>4, <2>7, <3>1, <3>2 DEF VeEnd, JhEnd, EiceDown, Terminate
  <2>8. CASE VeMgmtDown \/ VeExtDown \/ VeSgDown \/ JhEniDown \/ JhSgDown \/ TmmOwn \/ TmmTagged
    <3>1. ASSUME NEW n \in Kinds, NEW r \in Has(n), Remove(<<n, r>>) PROVE status' \in [Id -> States]
      BY <2>2, <2>3, <3>1 DEF Remove
    <3> HIDE DEF Remove
    <3>2. QED
      BY <2>4, <2>8, <3>1 DEF VeMgmtDown, VeExtDown, VeSgDown, JhEniDown, JhSgDown, TmmOwn, TmmTagged,
         EniDown, TmmDrop, OnlyAtt, cloud
  <2>9. CASE LoseHost
    <3>1. \A x \in HostKinds \X Runs : x \in Id BY DEF Id, Kinds
    <3>2. QED BY <2>2, <2>3, <2>9, <3>1 DEF LoseHost
  <2>10. CASE Outside
    BY <2>2, <2>3, <2>4, <2>10 DEF Outside, AccountStep, Settles, Gone, As3Settles, Reverts, OnlyBox
  <2>11. QED BY <2>4, <2>5, <2>6, <2>7, <2>8, <2>9, <2>10, Frames
<1>4. conf' \subseteq Id
  <2>1. conf \subseteq Id BY <1>0 DEF AccountTypeOK
  <2>2. ASSUME NEW n \in Kinds, NEW r \in Runs, conf' = conf \cup {<<n, r>>} PROVE conf' \subseteq Id
    BY <2>1, <2>2
  <2>3. CASE conf' \subseteq conf BY <2>1, <2>3
  <2>4. CASE TmmOff \/ Ssh \/ JhEniOff \/ VeRules \/ VeExtFound \/ VeExtOff
    <3>1. TmmOff => mem["tmm"] \in Runs BY Starts
    <3>2. JhEniOff => mem["jhEni"] \in Runs BY Starts
    <3>3. VeExtOff => mem["veExt"] \in Runs
      BY Starts DEF FromVeExt, FromVeMgmt, FromVeSg, FromPem, FromKey, FromJh,
      FromSsh, FromEice, FromRole, UpPoints
    <3>4. VeRules => mem["veSg"] \in Runs BY Starts
    <3>5. QED
      BY <2>2, <2>3, <2>4, <3>1, <3>2, <3>3, <3>4 DEF TmmOff, Ssh, JhEniOff, VeRules, VeExtFound, VeExtOff,
       Configure, Fail, cloud
  <2>5. \A x : Remove(x) => conf' \subseteq conf BY DEF Remove
  <2>6. CASE VeMgmtDown \/ VeExtDown \/ VeSgDown \/ JhEniDown \/ JhSgDown \/ TmmOwn \/ TmmTagged
    BY <2>3, <2>5, <2>6 DEF VeMgmtDown, VeExtDown, VeSgDown, JhEniDown, JhSgDown, TmmOwn, TmmTagged,
       EniDown, TmmDrop, OnlyAtt, cloud
  <2>7. CASE JhSgRefs BY <2>3, <2>7 DEF JhSgRefs
  <2>8. QED BY <2>3, <2>4, <2>6, <2>7, Frames
<1>5. att' \subseteq (EniKinds \X Runs) \X Hosts
  <2>1. att \subseteq (EniKinds \X Runs) \X Hosts BY <1>0 DEF AccountTypeOK
  <2>2. CASE att' \subseteq att BY <2>1, <2>2
  <2>3. {"tmm", "jhEni", "veMgmt", "veExt"} = EniKinds /\ {"jh", "ve"} = HostKinds
    BY DEF EniKinds, HostKinds
  <2>4. CASE TmmAttach
    <3>1. mem["tmm"] \in Runs BY <2>4, Starts
    <3>2. Node \in Hosts BY DEF Hosts
    <3>3. QED BY <2>1, <2>2, <2>3, <2>4, <3>1, <3>2 DEF TmmAttach, Fail, cloud
  <2>5. CASE JhEniAttach
    <3>1. mem["jhEni"] \in Runs /\ mem["jh"] \in Runs
      BY <2>5, Starts DEF FromJh, FromSsh, FromEice, FromRole, UpPoints
    <3>2. <<"jh", mem["jh"]>> \in Hosts BY <2>3, <3>1 DEF Hosts
    <3>3. QED BY <2>1, <2>2, <2>3, <2>5, <3>1, <3>2 DEF JhEniAttach, Fail, cloud
  <2>6. CASE VeLaunch
    <3>1. run \in Runs BY <2>6, Starts DEF Control, UpPoints
    <3>2. <<"ve", run>> \in Hosts BY <2>3, <3>1 DEF Hosts
    <3>3. ASSUME \A n \in {"veMgmt", "veExt"} : mem[n] \in Runs
          PROVE {<<n, mem[n]>> : n \in {"veMgmt", "veExt"}} \X {<<"ve", run>>} \subseteq (EniKinds \X Runs) \X Hosts
      BY <2>3, <3>2, <3>3
    <3>4. CASE UNCHANGED att BY <2>2, <3>4
    <3>5. CASE /\ \A e \in {<<n, mem[n]>> : n \in {"veMgmt", "veExt"}} : e[2] \in Has(e[1]) /\ HostOf(e) = {}
               /\ att' = att \cup ({<<n, mem[n]>> : n \in {"veMgmt", "veExt"}} \X {<<"ve", run>>})
      <4>1. \A n \in {"veMgmt", "veExt"} : <<n, mem[n]>> \in {<<i, mem[i]>> : i \in {"veMgmt", "veExt"}} OBVIOUS
      <4>2. \A n \in {"veMgmt", "veExt"} : mem[n] \in Has(n) BY <3>5, <4>1
      <4>3. QED BY <2>1, <3>3, <3>5, <4>2
    <3>6. QED BY <2>6, <3>4, <3>5 DEF VeLaunch, cloud
  <2>7. CASE VeMgmtDown \/ VeExtDown \/ JhEniDown \/ TmmOwn \/ TmmTagged
    BY <2>2, <2>7 DEF VeMgmtDown, VeExtDown, JhEniDown, TmmOwn, TmmTagged,
       EniDown, TmmDrop, OnlyAtt, OnlyGone, cloud
  <2>8. CASE Outside
    BY <2>2, <2>8 DEF Outside, AccountStep, Settles, Gone, As3Settles, Reverts, OnlyBox, OnlyStatus
  <2>9. QED BY <2>2, <2>4, <2>5, <2>6, <2>7, <2>8, Frames
<1>6. key' \in Ref
  <2>1. key \in Ref BY <1>0 DEF AccountTypeOK
  <2>2. CASE KeyReplace \/ KeyCreate \/ KeyDown
    BY <2>2, Starts DEF KeyReplace, KeyCreate, KeyDown, Control, UpPoints
  <2>3. QED BY <2>1, <2>2, Frames
<1>7. veKey' \in [Runs -> Ref]
  <2>1. veKey \in [Runs -> Ref] /\ key \in Ref BY <1>0 DEF AccountTypeOK
  <2>2. CASE VeLaunch BY <2>1, <2>2 DEF VeLaunch, cloud
  <2>3. CASE Outside
    BY <2>1, <2>3 DEF Outside, AccountStep, Settles, Gone, As3Settles, Reverts, OnlyBox, OnlyStatus
  <2>4. QED BY <2>1, <2>2, <2>3, Frames
<1>8. box' \in [Runs -> Boxes]
  <2>1. box \in [Runs -> Boxes] BY <1>0 DEF AccountTypeOK
  <2>2. pc \in OnboardPoints => mem["ve"] \in Runs /\ Box \in Boxes BY <2>1, Nested DEF Box
  <2>3. CASE Shell \/ Lockout \/ Ltm \/ Vlans \/ SelfIps \/ Cis
    <3>1. mem["ve"] \in Runs /\ Box \in Boxes BY <2>2, <2>3, Starts DEF OnboardPoints
    <3>2. ASSUME NEW x \in Settings, NEW p, Makes(x, p) PROVE box' \in [Runs -> Boxes]
      <4>1. Box.has \cup {x} \in SUBSET Settings BY <3>1 DEF Boxes
      <4>2. [Box EXCEPT !["has"] = Box.has \cup {x}] \in Boxes BY <3>1, <4>1, BoxHas
      <4>3. box' = [box EXCEPT ![mem["ve"]] = [Box EXCEPT !["has"] = Box.has \cup {x}]]
        BY <2>1, <3>1, <3>2 DEF Makes, On, Box
      <4>4. QED BY <2>1, <3>1, <4>2, <4>3
    <3>3. {"bash", "lockoutOff", "ltm", "vlans", "selfIps", "cis"} = Settings BY DEF Settings
    <3>4. QED BY <2>1, <2>3, <3>2, <3>3 DEF Shell, Lockout, Ltm, Vlans, SelfIps, Cis, Fail, cloud
  <2>4. CASE Password \/ Finalize
    <3>1. mem["ve"] \in Runs /\ Box \in Boxes BY <2>2, <2>4, Starts DEF OnboardPoints
    <3>2. ASSUME NEW w \in {"unset", "live", "durable"}, NEW p, On("pw", w, p)
          PROVE box' \in [Runs -> Boxes]
      <4>1. [Box EXCEPT !["pw"] = w] \in Boxes BY <3>1, BoxPw
      <4>2. box' = [box EXCEPT ![mem["ve"]] = [Box EXCEPT !["pw"] = w]]
        BY <2>1, <3>1, <3>2 DEF On, Box
      <4>3. QED BY <2>1, <3>1, <4>1, <4>2
    <3>3. QED BY <2>4, <3>2 DEF Password, Finalize
  <2>5. CASE As3Post
    <3>1. mem["ve"] \in Runs /\ Box \in Boxes BY <2>2, <2>5, Starts DEF OnboardPoints
    <3>2. \A s \in {"installing", "installed"} : [Box EXCEPT !.as3 = s] \in Boxes BY <3>1, BoxAs3
    <3>3. \E s \in {"installing", "installed"} : box' = [box EXCEPT ![mem["ve"]] = [Box EXCEPT !.as3 = s]]
      <4>1. CASE Box.as3 = "installed" BY <2>1, <2>5, <3>1, <4>1 DEF As3Post, Box
      <4>2. CASE Box.as3 # "installed" BY <2>1, <2>5, <3>1, <4>2 DEF As3Post, Box
      <4>3. QED BY <4>1, <4>2
    <3>4. QED BY <2>1, <3>1, <3>2, <3>3
  <2>6. CASE Outside
    <3>1. CASE box' = box BY <2>1, <3>1
    <3>2. \A b \in Boxes : /\ \A s \in {"none", "installed"} : [b EXCEPT !.as3 = s] \in Boxes
                           /\ [b EXCEPT !.pw = "unset"] \in Boxes
      BY BoxAs3, BoxPw
    <3>3. Fresh \in Boxes BY DEF Fresh, Boxes
    <3>4. ASSUME NEW r \in Runs, As3Settles(r) PROVE box' \in [Runs -> Boxes]
      <4>1. PICK s \in {"none", "installed"} : box' = [box EXCEPT ![r].as3 = s] BY <3>4 DEF As3Settles
      <4>2. [box[r] EXCEPT !.as3 = s] \in Boxes BY <2>1, <3>2
      <4>3. QED BY <2>1, <4>1, <4>2
    <3>5. ASSUME NEW r \in Runs, Reverts(r) PROVE box' \in [Runs -> Boxes]
      BY <2>1, <3>2, <3>5 DEF Reverts
    <3>6. ASSUME NEW x \in Id, Gone(x) PROVE box' \in [Runs -> Boxes]
      BY <2>1, <3>3, <3>6 DEF Gone
    <3>7. QED BY <2>6, <3>1, <3>4, <3>5, <3>6 DEF Outside, AccountStep, Settles, OnlyStatus
  <2>7. QED BY <2>1, <2>3, <2>4, <2>5, <2>6, Frames
<1>9. QED BY <1>1, <1>2, <1>3, <1>4, <1>5, <1>6, <1>7, <1>8 DEF AccountTypeOK, States

LEMMA TypeStep == ASSUME TypeOK, Control, Built, Next PROVE TypeOK'
<1> USE RefFacts
<1>1. AccountTypeOK' BY AccountStepType
<1>2. mem' \in [Keys -> Ref] /\ disk' \in [Keys -> Ref] BY MemType
<1>3. pem' \in Ref \cup {Torn}
  <2>1. pem \in Ref \cup {Torn} BY DEF TypeOK
  <2>2. CASE PemWrite BY <2>2, Starts DEF PemWrite, Control, UpPoints
  <2>3. CASE Abort \/ LoseFiles BY <2>1, <2>3 DEF Abort, LoseFiles
  <2>4. CASE PemDown BY <2>1, <2>4 DEF PemDown
  <2>5. QED BY <2>1, <2>2, <2>3, <2>4, Frames
<1>4. pc' \in {"idle"} \cup UpPoints \cup DownPoints
  <2>1. pc \in {"idle"} \cup UpPoints \cup DownPoints BY DEF TypeOK
  <2>2. {"tmm"} \subseteq UpPoints /\ {"veEnd"} \subseteq DownPoints BY DEF UpPoints, DownPoints
  <2>3. QED BY <2>1, <2>2, Flow
<1>5. done' \in {"none", "up", "down", "up refused", "down refused"} /\ misled' \in BOOLEAN
  <2>1. /\ done \in {"none", "up", "down", "up refused", "down refused"} /\ misled \in BOOLEAN
        /\ status \in [Id -> States]
    BY DEF TypeOK, AccountTypeOK, States
  <2> USE <2>1 DEF At, Goto, Go, Told, Fault, End, Refuse, Fail, Dropped, SaveAnd
  <2>2. CASE UpStep
    <3>1. done' \in {"none", "up", "down", "up refused", "down refused"}
      BY <2>2 DEF UpStep,
        TmmFound, TmmStale, TmmCreate, TmmOff, TmmAttach, Save17, Role, Profile, Join, JhSg,
        EiceFound, EiceCreate, EiceReady, Ssh, JhFound, JhLaunch, JhWait, JhEni, JhEniOff,
        JhEniAttach, Save17b, KeyReuse, KeyRefused, KeyReplace, KeyUnseen, KeyCreate, PemWrite,
        VeSg, VeRules, VeMgmt, VeExtFound, VeExtCreate, VeExtOff, VeFound, VeLaunch, VeWait,
        Save17e, Reuse, Create, New, SetEice, HostFound, Waited, Makes, On
    <3>2. misled' \in BOOLEAN
      BY <2>2 DEF UpStep,
        TmmFound, TmmStale, TmmCreate, TmmOff, TmmAttach, Save17, Role, Profile, Join, JhSg,
        EiceFound, EiceCreate, EiceReady, Ssh, JhFound, JhLaunch, JhWait, JhEni, JhEniOff,
        JhEniAttach, Save17b, KeyReuse, KeyRefused, KeyReplace, KeyUnseen, KeyCreate, PemWrite,
        VeSg, VeRules, VeMgmt, VeExtFound, VeExtCreate, VeExtOff, VeFound, VeLaunch, VeWait,
        Save17e, Reuse, Create, New, SetEice, HostFound, Waited, Makes, On
    <3>3. QED BY <3>1, <3>2
  <2>3. CASE OnboardStep
    <3>1. done' \in {"none", "up", "down", "up refused", "down refused"}
      BY <2>3 DEF OnboardStep,
        PemCopy, Gate, Skip, Proceed, Shell, Lockout, Password, Ltm, Vlans, SelfIps, As3Found,
        As3Post, As3Poll, As3Refused, Cis, Finalize, Verify, UpDone, Reuse, Create, New, SetEice,
        HostFound, Waited, Makes, On
    <3>2. misled' \in BOOLEAN
      BY <2>3 DEF OnboardStep,
        PemCopy, Gate, Skip, Proceed, Shell, Lockout, Password, Ltm, Vlans, SelfIps, As3Found,
        As3Post, As3Poll, As3Refused, Cis, Finalize, Verify, UpDone, Reuse, Create, New, SetEice,
        HostFound, Waited, Makes, On
    <3>3. QED BY <3>1, <3>2
  <2>4. CASE DownStep
    <3>1. done' \in {"none", "up", "down", "up refused", "down refused"}
      BY <2>4 DEF DownStep,
        VeEnd, VeEnded, VeMgmtDown, VeMgmtRefused, VeExtDown, VeSgDown, VeSgRefused, KeyDown,
        PemDown, Save17eDown, JhEnd, JhEnded, JhEniDown, EiceDown, EiceGone, JhSgRefs, JhSgDown,
        Leave, ProfileDown, RoleDown, Save17bDown, TmmOwn, TmmList, TmmTagged, DownDone, Aim,
        ClearAnd, Terminate, Terminated, EniDown, EniRefused, TmmDrop
    <3>2. misled' \in BOOLEAN
      BY <2>4 DEF DownStep,
        VeEnd, VeEnded, VeMgmtDown, VeMgmtRefused, VeExtDown, VeSgDown, VeSgRefused, KeyDown,
        PemDown, Save17eDown, JhEnd, JhEnded, JhEniDown, EiceDown, EiceGone, JhSgRefs, JhSgDown,
        Leave, ProfileDown, RoleDown, Save17bDown, TmmOwn, TmmList, TmmTagged, DownDone, Aim,
        ClearAnd, Terminate, Terminated, EniDown, EniRefused, TmmDrop
    <3>3. QED BY <3>1, <3>2
  <2>5. CASE StartUp \/ StartDown \/ LoseFiles \/ LoseHost \/ Outside
    BY <2>5 DEF StartUp, StartDown, LoseFiles, LoseHost, Outside
  <2>6. CASE Abort BY <2>6 DEF Abort
  <2>7. QED BY <2>2, <2>3, <2>4, <2>5, <2>6 DEF Next
<1>6. run' \in Ref
  <2>1. run \in Ref BY DEF TypeOK
  <2>2. CASE pc # "idle" BY <2>1, <2>2, CommandStep
  <2>3. CASE StartUp BY <2>1, <2>3, HostAccountAssumption DEF StartUp, Runs, Ref, None
  <2>4. CASE ~StartUp /\ pc = "idle"
    <3>1. ~UpMove /\ ~DownStep /\ ~Abort
      BY <2>4, Starts DEF UpMove, UpStep, OnboardStep, DownStep, Abort, At
    <3>2. QED BY <2>1, <2>4, <3>1 DEF Next, UpMove, StartDown, LoseFiles, LoseHost, Outside
  <2>5. QED BY <2>2, <2>3, <2>4
<1>7. pemLost' \in BOOLEAN
  <2>1. pemLost \in BOOLEAN BY DEF TypeOK
  <2>2. QED BY <2>1, Frames DEF Abort, LoseFiles
<1>8. faults' \in 0 .. MaxFaults
  <2>1. faults \in 0 .. MaxFaults BY DEF TypeOK
  <2>2. faults' = faults \/ Fault
    <3> USE DEF At, Goto, Go, Told, End, Refuse, Fail, Dropped, SaveAnd
    <3>1. CASE UpStep
      BY <3>1 DEF UpStep,
        TmmFound, TmmStale, TmmCreate, TmmOff, TmmAttach, Save17, Role, Profile, Join, JhSg,
        EiceFound, EiceCreate, EiceReady, Ssh, JhFound, JhLaunch, JhWait, JhEni, JhEniOff,
        JhEniAttach, Save17b, KeyReuse, KeyRefused, KeyReplace, KeyUnseen, KeyCreate, PemWrite,
        VeSg, VeRules, VeMgmt, VeExtFound, VeExtCreate, VeExtOff, VeFound, VeLaunch, VeWait,
        Save17e, Reuse, Create, New, SetEice, HostFound, Waited, Makes, On
    <3>2. CASE OnboardStep
      BY <3>2 DEF OnboardStep,
        PemCopy, Gate, Skip, Proceed, Shell, Lockout, Password, Ltm, Vlans, SelfIps, As3Found,
        As3Post, As3Poll, As3Refused, Cis, Finalize, Verify, UpDone, Reuse, Create, New, SetEice,
        HostFound, Waited, Makes, On
    <3>3. CASE DownStep
      BY <3>3 DEF DownStep,
        VeEnd, VeEnded, VeMgmtDown, VeMgmtRefused, VeExtDown, VeSgDown, VeSgRefused, KeyDown,
        PemDown, Save17eDown, JhEnd, JhEnded, JhEniDown, EiceDown, EiceGone, JhSgRefs, JhSgDown,
        Leave, ProfileDown, RoleDown, Save17bDown, TmmOwn, TmmList, TmmTagged, DownDone, Aim,
        ClearAnd, Terminate, Terminated, EniDown, EniRefused, TmmDrop
    <3>4. CASE StartUp \/ StartDown \/ LoseFiles \/ LoseHost \/ Outside
      BY <3>4 DEF StartUp, StartDown, LoseFiles, LoseHost, Outside
    <3>5. CASE Abort BY <3>5 DEF Abort
    <3>6. QED BY <3>1, <3>2, <3>3, <3>4, <3>5 DEF Next
  <2>3. QED BY <2>1, <2>2 DEF Fault
<1>9. QED BY <1>1, <1>2, <1>3, <1>4, <1>5, <1>6, <1>7, <1>8 DEF TypeOK

LEMMA ControlStep == ASSUME TypeOK, Control, Next PROVE Control'
<1>1. pc' \in UpPoints => run' \in Runs
  <2>1. CASE StartUp
    <3>1. run \in Ref BY DEF TypeOK
    <3>2. run < MaxUps /\ run' = run + 1 BY <2>1 DEF StartUp
    <3>3. run + 1 \in Runs BY <3>1, <3>2, HostAccountAssumption DEF Runs, Ref, None
    <3>4. QED BY <3>2, <3>3
  <2>2. CASE UpMove \/ (Outside /\ pc' = pc)
    <3>1. pc' \in UpPoints => pc \in UpPoints
      BY <2>2, Starts DEF UpMove, UpStep, OnboardStep, UpPoints, OnboardPoints
    <3>2. pc' \in UpPoints => run' = run BY <3>1, CommandStep, Apart
    <3>3. QED BY <3>1, <3>2 DEF Control
  <2>3. pc' \in UpPoints => pc' # "idle" /\ pc' # "veEnd" /\ pc' \notin DownPoints
    BY Apart DEF DownPoints
  <2>4. CASE pc' \in UpPoints
    <3>1. pc' # "idle" /\ pc' # "veEnd" /\ pc' \notin DownPoints BY <2>3, <2>4
    <3>2. StartUp \/ UpMove \/ (Outside /\ pc' = pc) BY <3>1, Flow
    <3>3. QED BY <2>1, <2>2, <3>2
  <2>5. QED BY <2>4
<1>2. done' # "none" => pc' = "idle"
  <2>1. CASE pc' # "idle" /\ pc # "idle" BY <2>1, CommandStep DEF Control
  <2>2. CASE pc' # "idle" /\ pc = "idle"
    <3>1. ~UpMove /\ ~DownStep
      BY <2>2, Starts DEF UpMove, UpStep, OnboardStep, DownStep
    <3>2. QED BY <2>2, <3>1, Flow DEF StartUp, StartDown
  <2>3. QED BY <2>1, <2>2
<1>3. pc' = "idle" => mem' = EmptyState
  <2>1. CASE UpStep
    BY <2>1 DEF UpStep,
      TmmFound, TmmStale, TmmCreate, TmmOff, TmmAttach, Save17, Role, Profile, Join, JhSg,
      EiceFound, EiceCreate, EiceReady, Ssh, JhFound, JhLaunch, JhWait, JhEni, JhEniOff,
      JhEniAttach, Save17b, KeyReuse, KeyRefused, KeyReplace, KeyUnseen, KeyCreate, PemWrite, VeSg,
      VeRules, VeMgmt, VeExtFound, VeExtCreate, VeExtOff, VeFound, VeLaunch, VeWait, Save17e, Reuse,
      Create, New, SetEice, HostFound, Waited, Makes, On, At, Goto, Go, Told, Fault, End, Refuse,
      Fail, Dropped, SaveAnd
  <2>2. CASE OnboardStep
    BY <2>2 DEF OnboardStep,
      PemCopy, Gate, Skip, Proceed, Shell, Lockout, Password, Ltm, Vlans, SelfIps, As3Found,
      As3Post, As3Poll, As3Refused, Cis, Finalize, Verify, UpDone, Reuse, Create, New, SetEice,
      HostFound, Waited, Makes, On, At, Goto, Go, Told, Fault, End, Refuse, Fail, Dropped, SaveAnd
  <2>3. CASE DownStep
    BY <2>3 DEF DownStep,
      VeEnd, VeEnded, VeMgmtDown, VeMgmtRefused, VeExtDown, VeSgDown, VeSgRefused, KeyDown, PemDown,
      Save17eDown, JhEnd, JhEnded, JhEniDown, EiceDown, EiceGone, JhSgRefs, JhSgDown, Leave,
      ProfileDown, RoleDown, Save17bDown, TmmOwn, TmmList, TmmTagged, DownDone, Aim, ClearAnd,
      Terminate, Terminated, EniDown, EniRefused, TmmDrop, At, Goto, Go, Told, Fault, End, Refuse,
      Fail, Dropped, SaveAnd
  <2>4. CASE StartUp \/ StartDown \/ LoseFiles \/ LoseHost \/ Outside
    BY <2>4 DEF StartUp, StartDown, LoseFiles, LoseHost, Outside, Control, At
  <2>5. CASE Abort BY <2>5 DEF Abort, End
  <2>6. QED BY <2>1, <2>2, <2>3, <2>4, <2>5 DEF Next
<1>4. QED BY <1>1, <1>2, <1>3 DEF Control

-----------------------------------------------------------------------------
(* Every step concerns the resources of one kind.                           *)

\* The statuses of all kinds but n are what they were.
Only(n) == \A m \in Kinds \ {n} : \A r \in Runs : status'[<<m, r>>] = status[<<m, r>>]

LEMMA OnlyThat == ASSUME TypeOK, NEW n \in Kinds, NEW r \in Runs, NEW s, Become(<<n, r>>, s) PROVE Only(n)
<1>1. <<n, r>> \in Id BY Sorts
<1>2. \A m \in Kinds \ {n} : \A q \in Runs : <<m, q>> \in Id /\ <<m, q>> # <<n, r>> BY Sorts
<1>3. QED BY <1>1, <1>2, Become_ DEF Only

\* Which steps concern which kind.
Concerns(n) ==
  CASE n = "tmm"    -> TmmCreate \/ TmmOwn \/ TmmTagged
    [] n = "jhSg"   -> JhSg \/ JhSgDown
    [] n = "eice"   -> EiceCreate \/ EiceDown \/ Outside
    [] n = "jh"     -> JhLaunch \/ JhEnd \/ LoseHost \/ Outside
    [] n = "jhEni"  -> JhEni \/ JhEniDown
    [] n = "veSg"   -> VeSg \/ VeSgDown
    [] n = "veMgmt" -> VeMgmt \/ VeMgmtDown
    [] n = "veExt"  -> VeExtCreate \/ VeExtDown
    [] n = "ve"     -> VeLaunch \/ VeEnd \/ LoseHost \/ Outside

LEMMA StatusSteps == ASSUME TypeOK, Control, Plain, Next
  PROVE UNCHANGED status \/ \E n \in Kinds : Only(n) /\ Concerns(n)
<1>0. pc \in UpPoints => run \in Runs BY DEF Control
<1>1. ASSUME NEW n \in Kinds, NEW r \in Runs, \E s : Become(<<n, r>>, s) PROVE Only(n) BY <1>1, OnlyThat
<1>2. \A n : Has(n) \subseteq Runs /\ Alive(n) \subseteq Runs BY Sorts
<1>3. CASE TmmCreate
  <2>1. pc \in UpPoints BY <1>3, Starts DEF UpPoints
  <2>2. UNCHANGED status \/ Become(<<"tmm", run>>, "ready") \/ Become(<<"tmm", run>>, "creating")
    BY <1>3 DEF TmmCreate, New, Create, Reuse, Fail, cloud
  <2>3. UNCHANGED status \/ Only("tmm") BY <1>0, <1>1, <2>1, <2>2, Sorts
  <2>4. Concerns("tmm") BY <1>3 DEF Concerns
  <2>5. QED BY <2>3, <2>4, Sorts
<1>4. CASE JhSg
  <2>1. pc \in UpPoints BY <1>4, Starts DEF UpPoints
  <2>2. UNCHANGED status \/ Become(<<"jhSg", run>>, "ready") \/ Become(<<"jhSg", run>>, "creating")
    BY <1>4 DEF JhSg, New, Create, Reuse, Fail, cloud
  <2>3. UNCHANGED status \/ Only("jhSg") BY <1>0, <1>1, <2>1, <2>2, Sorts
  <2>4. Concerns("jhSg") BY <1>4 DEF Concerns
  <2>5. QED BY <2>3, <2>4, Sorts
<1>5. CASE EiceCreate
  <2>1. pc \in UpPoints BY <1>5, Starts DEF UpPoints
  <2>2. UNCHANGED status \/ Become(<<"eice", run>>, "ready") \/ Become(<<"eice", run>>, "creating")
    BY <1>5 DEF EiceCreate, New, Create, Reuse, Fail, cloud
  <2>3. UNCHANGED status \/ Only("eice") BY <1>0, <1>1, <2>1, <2>2, Sorts
  <2>4. Concerns("eice") BY <1>5 DEF Concerns
  <2>5. QED BY <2>3, <2>4, Sorts
<1>6. CASE JhLaunch
  <2>1. pc \in UpPoints BY <1>6, Starts DEF UpPoints
  <2>2. UNCHANGED status \/ Become(<<"jh", run>>, "ready") \/ Become(<<"jh", run>>, "creating")
    BY <1>6 DEF JhLaunch, New, Create, Reuse, Fail, cloud
  <2>3. UNCHANGED status \/ Only("jh") BY <1>0, <1>1, <2>1, <2>2, Sorts
  <2>4. Concerns("jh") BY <1>6 DEF Concerns
  <2>5. QED BY <2>3, <2>4, Sorts
<1>7. CASE JhEni
  <2>1. pc \in UpPoints BY <1>7, Starts DEF UpPoints
  <2>2. UNCHANGED status \/ Become(<<"jhEni", run>>, "ready") \/ Become(<<"jhEni", run>>, "creating")
    BY <1>7 DEF JhEni, New, Create, Reuse, Fail, cloud
  <2>3. UNCHANGED status \/ Only("jhEni") BY <1>0, <1>1, <2>1, <2>2, Sorts
  <2>4. Concerns("jhEni") BY <1>7 DEF Concerns
  <2>5. QED BY <2>3, <2>4, Sorts
<1>8. CASE VeSg
  <2>1. pc \in UpPoints BY <1>8, Starts DEF UpPoints
  <2>2. UNCHANGED status \/ Become(<<"veSg", run>>, "ready") \/ Become(<<"veSg", run>>, "creating")
    BY <1>8 DEF VeSg, New, Create, Reuse, Fail, cloud
  <2>3. UNCHANGED status \/ Only("veSg") BY <1>0, <1>1, <2>1, <2>2, Sorts
  <2>4. Concerns("veSg") BY <1>8 DEF Concerns
  <2>5. QED BY <2>3, <2>4, Sorts
<1>9. CASE VeMgmt
  <2>1. pc \in UpPoints BY <1>9, Starts DEF UpPoints
  <2>2. UNCHANGED status \/ Become(<<"veMgmt", run>>, "ready") \/ Become(<<"veMgmt", run>>, "creating")
    BY <1>9 DEF VeMgmt, New, Create, Reuse, Fail, cloud
  <2>3. UNCHANGED status \/ Only("veMgmt") BY <1>0, <1>1, <2>1, <2>2, Sorts
  <2>4. Concerns("veMgmt") BY <1>9 DEF Concerns
  <2>5. QED BY <2>3, <2>4, Sorts
<1>10. CASE VeExtCreate
  <2>1. pc \in UpPoints BY <1>10, Starts DEF UpPoints
  <2>2. UNCHANGED status \/ Become(<<"veExt", run>>, "ready") \/ Become(<<"veExt", run>>, "creating")
    BY <1>10 DEF VeExtCreate, New, Create, Reuse, Fail, cloud
  <2>3. UNCHANGED status \/ Only("veExt") BY <1>0, <1>1, <2>1, <2>2, Sorts
  <2>4. Concerns("veExt") BY <1>10 DEF Concerns
  <2>5. QED BY <2>3, <2>4, Sorts
<1>11. CASE VeLaunch
  <2>1. pc \in UpPoints BY <1>11, Starts DEF UpPoints
  <2>2. UNCHANGED status \/ Become(<<"ve", run>>, "ready") \/ Become(<<"ve", run>>, "creating")
    BY <1>11 DEF VeLaunch, New, Create, Reuse, Fail, cloud
  <2>3. UNCHANGED status \/ Only("ve") BY <1>0, <1>1, <2>1, <2>2, Sorts
  <2>4. Concerns("ve") BY <1>11 DEF Concerns
  <2>5. QED BY <2>3, <2>4, Sorts
<1>12. CASE TmmOwn
  <2>1. UNCHANGED status \/ \E r \in Runs, s \in {"none", "deleting"} : Become(<<"tmm", r>>, s)
    BY <1>2, <1>12 DEF TmmOwn, Terminate, EniDown, TmmDrop, Remove, OnlyAtt, cloud
  <2>2. UNCHANGED status \/ Only("tmm") BY <1>1, <2>1, Sorts
  <2>3. Concerns("tmm") BY <1>12 DEF Concerns
  <2>4. QED BY <2>2, <2>3, Sorts
<1>13. CASE TmmTagged
  <2>1. UNCHANGED status \/ \E r \in Runs, s \in {"none", "deleting"} : Become(<<"tmm", r>>, s)
    BY <1>2, <1>13 DEF TmmTagged, Terminate, EniDown, TmmDrop, Remove, OnlyAtt, cloud
  <2>2. UNCHANGED status \/ Only("tmm") BY <1>1, <2>1, Sorts
  <2>3. Concerns("tmm") BY <1>13 DEF Concerns
  <2>4. QED BY <2>2, <2>3, Sorts
<1>14. CASE JhSgDown
  <2>1. UNCHANGED status \/ \E r \in Runs, s \in {"none", "deleting"} : Become(<<"jhSg", r>>, s)
    BY <1>2, <1>14 DEF JhSgDown, Terminate, EniDown, TmmDrop, Remove, OnlyAtt, cloud
  <2>2. UNCHANGED status \/ Only("jhSg") BY <1>1, <2>1, Sorts
  <2>3. Concerns("jhSg") BY <1>14 DEF Concerns
  <2>4. QED BY <2>2, <2>3, Sorts
<1>15. CASE EiceDown
  <2>1. UNCHANGED status \/ \E r \in Runs, s \in {"none", "deleting"} : Become(<<"eice", r>>, s)
    BY <1>2, <1>15 DEF EiceDown, Terminate, EniDown, TmmDrop, Remove, OnlyAtt, cloud
  <2>2. UNCHANGED status \/ Only("eice") BY <1>1, <2>1, Sorts
  <2>3. Concerns("eice") BY <1>15 DEF Concerns
  <2>4. QED BY <2>2, <2>3, Sorts
<1>16. CASE JhEnd
  <2>1. UNCHANGED status \/ \E r \in Runs, s \in {"none", "deleting"} : Become(<<"jh", r>>, s)
    BY <1>2, <1>16 DEF JhEnd, Terminate, EniDown, TmmDrop, Remove, OnlyAtt, cloud
  <2>2. UNCHANGED status \/ Only("jh") BY <1>1, <2>1, Sorts
  <2>3. Concerns("jh") BY <1>16 DEF Concerns
  <2>4. QED BY <2>2, <2>3, Sorts
<1>17. CASE JhEniDown
  <2>1. UNCHANGED status \/ \E r \in Runs, s \in {"none", "deleting"} : Become(<<"jhEni", r>>, s)
    BY <1>2, <1>17 DEF JhEniDown, Terminate, EniDown, TmmDrop, Remove, OnlyAtt, cloud
  <2>2. UNCHANGED status \/ Only("jhEni") BY <1>1, <2>1, Sorts
  <2>3. Concerns("jhEni") BY <1>17 DEF Concerns
  <2>4. QED BY <2>2, <2>3, Sorts
<1>18. CASE VeSgDown
  <2>1. UNCHANGED status \/ \E r \in Runs, s \in {"none", "deleting"} : Become(<<"veSg", r>>, s)
    BY <1>2, <1>18 DEF VeSgDown, Terminate, EniDown, TmmDrop, Remove, OnlyAtt, cloud
  <2>2. UNCHANGED status \/ Only("veSg") BY <1>1, <2>1, Sorts
  <2>3. Concerns("veSg") BY <1>18 DEF Concerns
  <2>4. QED BY <2>2, <2>3, Sorts
<1>19. CASE VeMgmtDown
  <2>1. UNCHANGED status \/ \E r \in Runs, s \in {"none", "deleting"} : Become(<<"veMgmt", r>>, s)
    BY <1>2, <1>19 DEF VeMgmtDown, Terminate, EniDown, TmmDrop, Remove, OnlyAtt, cloud
  <2>2. UNCHANGED status \/ Only("veMgmt") BY <1>1, <2>1, Sorts
  <2>3. Concerns("veMgmt") BY <1>19 DEF Concerns
  <2>4. QED BY <2>2, <2>3, Sorts
<1>20. CASE VeExtDown
  <2>1. UNCHANGED status \/ \E r \in Runs, s \in {"none", "deleting"} : Become(<<"veExt", r>>, s)
    BY <1>2, <1>20 DEF VeExtDown, Terminate, EniDown, TmmDrop, Remove, OnlyAtt, cloud
  <2>2. UNCHANGED status \/ Only("veExt") BY <1>1, <2>1, Sorts
  <2>3. Concerns("veExt") BY <1>20 DEF Concerns
  <2>4. QED BY <2>2, <2>3, Sorts
<1>21. CASE VeEnd
  <2>1. UNCHANGED status \/ \E r \in Runs, s \in {"none", "deleting"} : Become(<<"ve", r>>, s)
    BY <1>2, <1>21 DEF VeEnd, Terminate, EniDown, TmmDrop, Remove, OnlyAtt, cloud
  <2>2. UNCHANGED status \/ Only("ve") BY <1>1, <2>1, Sorts
  <2>3. Concerns("ve") BY <1>21 DEF Concerns
  <2>4. QED BY <2>2, <2>3, Sorts
<1>22. CASE LoseHost
  <2>1. \E n \in {"jh", "ve"}, r \in Runs : Become(<<n, r>>, "deleting") BY <1>22 DEF LoseHost, HostKinds
  <2>2. \E n \in {"jh", "ve"} : Only(n) BY <1>1, <2>1, Sorts
  <2>3. Concerns("jh") /\ Concerns("ve") BY <1>22 DEF Concerns
  <2>4. QED BY <2>2, <2>3, Sorts
<1>23. CASE Outside
  <2>1. \A x \in Id : status[x] \in {"creating", "deleting"} => x[1] \in {"jh", "ve", "eice"}
    BY Sorts DEF Plain
  <2>2. UNCHANGED status \/ \E x \in Id : status[x] \in {"creating", "deleting"} /\ \E s : Become(x, s)
    BY <1>23 DEF Outside, AccountStep, Settles, Gone, As3Settles, Reverts, OnlyBox
  <2>3. ASSUME NEW x \in Id, x[1] \in {"jh", "ve", "eice"}, \E s : Become(x, s)
        PROVE \E n \in {"jh", "ve", "eice"} : Only(n)
    <3>1. x[1] \in Kinds /\ x[2] \in Runs /\ x = <<x[1], x[2]>> BY Sorts
    <3>2. QED BY <1>1, <2>3, <3>1
  <2>4. Concerns("jh") /\ Concerns("ve") /\ Concerns("eice") BY <1>23 DEF Concerns
  <2>5. QED BY <2>1, <2>2, <2>3, <2>4, Sorts
<1>24. QED BY <1>3, <1>4, <1>5, <1>6, <1>7, <1>8, <1>9, <1>10, <1>11, <1>12, <1>13, <1>14, <1>15, <1>16,
    <1>17, <1>18, <1>19, <1>20, <1>21, <1>22, <1>23, Frames

\* So a kind is left alone by all steps that do not concern it.
LEMMA Untouched == ASSUME TypeOK, Control, Plain, Next, NEW n \in Kinds
  PROVE (\A r \in Runs : status'[<<n, r>>] = status[<<n, r>>]) \/ Concerns(n)
  BY StatusSteps DEF Only

LEMMA Same == ASSUME NEW n, \A r \in Runs : status'[<<n, r>>] = status[<<n, r>>]
  PROVE Has(n)' = Has(n) /\ Alive(n)' = Alive(n)
  BY DEF Has, Alive

\* The commands act at their own points.
LEMMA Origins == (UpMove => pc \in UpPoints) /\ (DownStep => pc \in DownPoints)
  BY Starts DEF UpMove, UpStep, OnboardStep, DownStep, UpPoints, OnboardPoints, DownPoints

-----------------------------------------------------------------------------
(* What comes and goes, and what is remembered of it.                       *)

\* What takes no time is removed, or made under the number of the `up` that
\* remembers it; where it is unique, as nothing like it was there or known.
Born(n) ==
  /\ Become(<<n, run>>, "ready") /\ run \in Runs /\ pc \in UpPoints
  /\ n # "tmm" => Has(n) = {} /\ mem[n] = None /\ mem'[n] = run

LEMMA Fate == ASSUME TypeOK, Control, Plain, Next, NEW n \in Kinds \ {"jh", "ve", "eice"}
  PROVE \/ \A r \in Runs : status'[<<n, r>>] = status[<<n, r>>]
        \/ DownStep /\ \E r \in Has(n) : Become(<<n, r>>, "none")
        \/ Born(n)
<1> USE Sorts
<1>1. pc \in UpPoints => run \in Runs BY DEF Control
<1>2. mem \in [Keys -> Ref] BY DEF TypeOK
<1>3. ASSUME NEW m \in Unique, NEW p, New(m, "ready", p)
      PROVE UNCHANGED status \/ (Become(<<m, run>>, "ready") /\ Has(m) = {} /\ mem[m] = None /\ mem'[m] = run)
  <2>1. m \in Keys BY DEF Unique
  <2>2. QED BY <1>2, <1>3, <2>1 DEF New, Create, Set, cloud
<1>4. {"jhSg", "jhEni", "veSg", "veMgmt", "veExt"} = Unique BY DEF Unique
<1>5. CASE n = "tmm"
  <2>1. CASE TmmCreate BY <1>1, <1>5, <2>1, Starts DEF TmmCreate, Create, Born, UpPoints
  <2>2. CASE TmmOwn \/ TmmTagged
    BY <1>5, <2>2 DEF DownStep, TmmOwn, TmmTagged, TmmDrop, Remove, OnlyAtt, cloud
  <2>3. QED BY <1>5, <2>1, <2>2, Untouched DEF Concerns
<1>6. CASE n = "jhSg"
  <2>1. CASE JhSg BY <1>1, <1>3, <1>4, <1>6, <2>1, Starts DEF JhSg, Reuse, Born, UpPoints, cloud
  <2>2. CASE JhSgDown BY <1>6, <2>2 DEF DownStep, JhSgDown, Remove, cloud
  <2>3. QED BY <1>6, <2>1, <2>2, Untouched DEF Concerns
<1>7. CASE n = "jhEni"
  <2>1. CASE JhEni BY <1>1, <1>3, <1>4, <1>7, <2>1, Starts DEF JhEni, Reuse, Born, UpPoints, cloud
  <2>2. CASE JhEniDown BY <1>7, <2>2 DEF DownStep, JhEniDown, EniDown, Remove, OnlyAtt, cloud
  <2>3. QED BY <1>7, <2>1, <2>2, Untouched DEF Concerns
<1>8. CASE n = "veSg"
  <2>1. CASE VeSg BY <1>1, <1>3, <1>4, <1>8, <2>1, Starts DEF VeSg, Reuse, Born, UpPoints, cloud
  <2>2. CASE VeSgDown BY <1>8, <2>2 DEF DownStep, VeSgDown, Remove, cloud
  <2>3. QED BY <1>8, <2>1, <2>2, Untouched DEF Concerns
<1>9. CASE n = "veMgmt"
  <2>1. CASE VeMgmt BY <1>1, <1>3, <1>4, <1>9, <2>1, Starts DEF VeMgmt, Reuse, Fail, Born, UpPoints, cloud
  <2>2. CASE VeMgmtDown BY <1>9, <2>2 DEF DownStep, VeMgmtDown, EniDown, Remove, OnlyAtt, cloud
  <2>3. QED BY <1>9, <2>1, <2>2, Untouched DEF Concerns
<1>10. CASE n = "veExt"
  <2>1. CASE VeExtCreate BY <1>1, <1>3, <1>4, <1>10, <2>1, Starts DEF VeExtCreate, Born, UpPoints
  <2>2. CASE VeExtDown BY <1>10, <2>2 DEF DownStep, VeExtDown, EniDown, Remove, OnlyAtt, cloud
  <2>3. QED BY <1>10, <2>1, <2>2, Untouched DEF Concerns
<1>11. QED BY <1>5, <1>6, <1>7, <1>8, <1>9, <1>10

LEMMA HasFate == ASSUME TypeOK, Control, Plain, Next, NEW n \in Kinds \ {"jh", "ve", "eice"}
  PROVE \/ Has(n)' = Has(n) \/ (Has(n)' \subseteq Has(n) /\ DownStep)
        \/ Born(n) /\ Has(n)' = Has(n) \cup {run}
<1>1. CASE \A r \in Runs : status'[<<n, r>>] = status[<<n, r>>] BY <1>1, Same
<1>2. ASSUME NEW r \in Has(n), Become(<<n, r>>, "none") PROVE Has(n)' \subseteq Has(n)
  <2>1. r \in Runs /\ <<n, r>> \in Id BY Sorts
  <2>2. \A q \in Runs : <<n, q>> \in Id /\ (q # r => <<n, q>> # <<n, r>>) BY Sorts
  <2>3. \A q \in Runs : q # r => status'[<<n, q>>] = status[<<n, q>>] BY <1>2, <2>1, <2>2, Become_
  <2>4. QED BY <2>3 DEF Has
<1>3. CASE Born(n)
  <2>1. run \in Runs /\ <<n, run>> \in Id BY <1>3, Sorts DEF Born
  <2>2. \A q \in Runs : <<n, q>> \in Id /\ (q # run => <<n, q>> # <<n, run>>) BY Sorts
  <2>3. Become(<<n, run>>, "ready") BY <1>3 DEF Born
  <2>4. \A q \in Runs : q # run => status'[<<n, q>>] = status[<<n, q>>] BY <2>1, <2>2, <2>3, Become_
  <2>5. status'[<<n, run>>] = "ready" BY <2>1, <2>3, Become_
  <2>6. QED BY <1>3, <2>1, <2>4, <2>5 DEF Has
<1>4. QED BY <1>1, <1>2, <1>3, Fate

LEMMA UniqueKinds == /\ Unique \subseteq Kinds \ {"jh", "ve", "eice"} /\ Unique \subseteq Keys /\ "tmm" \notin Unique
                     /\ Unique = {"jhSg", "jhEni", "veSg", "veMgmt", "veExt"}
  BY DEF Unique, Kinds, EniKinds, HostKinds, Keys

LEMMA SingleStep == ASSUME TypeOK, Control, Plain, Single, Next PROVE Single'
<1>1. ASSUME NEW n \in Unique PROVE \A a, b \in Has(n)' : a = b
  <2>1. \A a, b \in Has(n) : a = b BY DEF Single
  <2>2. Has(n)' \subseteq Has(n) \/ Has(n)' = {run} BY UniqueKinds, HasFate DEF Born
  <2>3. QED BY <2>1, <2>2
<1>2. QED BY <1>1 DEF Single

\* What is remembered of a unique resource is what was, what is on disk, or what
\* there is; what is on disk was remembered.
LEMMA Memory == ASSUME TypeOK, Control, Plain, Next, NEW n \in Unique
  PROVE /\ mem'[n] \in {None, mem[n], disk[n]} \cup Has(n) \/ (Born(n) /\ UNCHANGED disk)
        /\ UpMove => mem'[n] = mem[n] \/ mem[n] = None \/ pc' = "idle"
<1> USE Sorts, UniqueKinds
<1>0. mem \in [Keys -> Ref] BY DEF TypeOK
<1>1. CASE pc' = "idle"
  <2>1. mem' = EmptyState BY <1>1, ControlStep DEF Control
  <2>2. QED BY <1>1, <2>1 DEF EmptyState
<1>2. CASE StartUp \/ StartDown
  <2>1. ~UpMove BY <1>2, Origins, Apart DEF StartUp, StartDown, At
  <2>2. QED BY <1>2, <2>1 DEF StartUp, StartDown
<1>3. CASE mem'[n] = mem[n] BY <1>3
<1>4. ASSUME NEW r \in Known(n), Set(n, r)
      PROVE mem'[n] \in {mem[n]} \cup Has(n) /\ (mem'[n] = mem[n] \/ mem[n] = None)
  BY <1>0, <1>4 DEF Set, Known
<1>5. ASSUME NEW p, New(n, "ready", p), pc' # "idle"
      PROVE Become(<<n, run>>, "ready") /\ UNCHANGED disk /\ Has(n) = {} /\ mem[n] = None /\ mem'[n] = run
  BY <1>0, <1>5 DEF New, Create, Set, Refuse, End, files
<1>6. pc \in UpPoints => run \in Runs BY DEF Control
<1>7. CASE JhSg /\ n = "jhSg" /\ pc' # "idle"
  BY <1>4, <1>5, <1>6, <1>7, Starts DEF JhSg, Reuse, Born, UpPoints
<1>8. CASE JhEni /\ n = "jhEni" /\ pc' # "idle"
  BY <1>4, <1>5, <1>6, <1>8, Starts DEF JhEni, Reuse, Born, UpPoints
<1>9. CASE VeSg /\ n = "veSg" /\ pc' # "idle"
  BY <1>4, <1>5, <1>6, <1>9, Starts DEF VeSg, Reuse, Born, UpPoints
<1>10. CASE VeMgmt /\ n = "veMgmt" /\ pc' # "idle"
  BY <1>4, <1>5, <1>6, <1>10, Starts DEF VeMgmt, Reuse, Fail, Refuse, End, Born, UpPoints
<1>11. CASE (VeExtFound \/ VeExtCreate) /\ n = "veExt" /\ pc' # "idle"
  BY <1>4, <1>5, <1>6, <1>11, Starts DEF VeExtFound, VeExtCreate, Fail, Refuse, End, Born, UpPoints
<1>12. ASSUME DownStep, NEW r, NEW S, S \subseteq Has(n), Aim(n, S, r)
       PROVE mem'[n] \in {None, mem[n]} \cup Has(n)
  BY <1>0, <1>12 DEF Set, Aim
<1>13. \A N : Without(N)[n] \in {None, mem[n]} BY DEF Without
<1>14. CASE DownStep /\ pc' # "idle"
  <2>0. ~UpMove BY <1>14, Origins, Apart
  <2>1. CASE VeMgmtDown /\ n = "veMgmt" BY <1>12, <1>14, <2>0, <2>1 DEF VeMgmtDown, EniDown
  <2>2. CASE VeExtDown /\ n = "veExt" BY <1>12, <1>14, <2>0, <2>2 DEF VeExtDown, EniDown
  <2>3. CASE JhEniDown /\ n = "jhEni" BY <1>12, <1>14, <2>0, <2>3 DEF JhEniDown, EniDown
  <2>4. CASE VeSgDown /\ n = "veSg" BY <1>12, <1>14, <2>0, <2>4 DEF VeSgDown
  <2>5. CASE JhSgRefs /\ n = "jhSg" BY <1>4, <1>12, <1>14, <2>0, <2>5 DEF JhSgRefs
  <2>6. CASE Save17eDown \/ Save17bDown BY <1>13, <1>14, <2>0, <2>6 DEF Save17eDown, Save17bDown, ClearAnd
  <2>7. CASE n = "jhSg" BY <1>3, <1>14, <2>0, <2>5, <2>6, <2>7, MemSteps DEF UpMove, UpStep
  <2>8. CASE n = "jhEni" BY <1>3, <1>14, <2>0, <2>3, <2>6, <2>8, MemSteps DEF UpMove, UpStep
  <2>9. CASE n = "veSg" BY <1>3, <1>14, <2>0, <2>4, <2>6, <2>9, MemSteps DEF UpMove, UpStep
  <2>10. CASE n = "veMgmt" BY <1>3, <1>14, <2>0, <2>1, <2>6, <2>10, MemSteps DEF UpMove, UpStep
  <2>11. CASE n = "veExt" BY <1>3, <1>14, <2>0, <2>2, <2>6, <2>11, MemSteps DEF UpMove, UpStep
  <2>12. QED BY <2>7, <2>8, <2>9, <2>10, <2>11
<1>15. CASE UpMove /\ pc' # "idle"
  <2>1. ~DownStep BY <1>15, Origins, Apart
  <2>2. CASE n = "jhSg" BY <1>3, <1>7, <1>15, <2>1, <2>2, MemSteps DEF DownStep
  <2>3. CASE n = "jhEni" BY <1>3, <1>8, <1>15, <2>1, <2>3, MemSteps DEF DownStep
  <2>4. CASE n = "veSg" BY <1>3, <1>9, <1>15, <2>1, <2>4, MemSteps DEF DownStep
  <2>5. CASE n = "veMgmt" BY <1>3, <1>10, <1>15, <2>1, <2>5, MemSteps DEF DownStep
  <2>6. CASE n = "veExt" BY <1>3, <1>11, <1>15, <2>1, <2>6, MemSteps DEF DownStep
  <2>7. QED BY <2>2, <2>3, <2>4, <2>5, <2>6
<1>16. CASE Outside /\ pc' = pc
  <2>1. mem' = mem BY <1>16 DEF Outside
  <2>2. QED BY <2>1
<1>17. QED BY <1>1, <1>2, <1>14, <1>15, <1>16, Flow

\* What is on disk was there, or in memory, or is.
LEMMA Saved == ASSUME TypeOK, Next
  PROVE \/ disk' = disk \/ disk' = EmptyState \/ (disk' = mem /\ (mem' = mem \/ pc' = "idle"))
        \/ (disk' = mem' /\ DownStep /\ (Save17eDown \/ Save17bDown)) \/ DownDone
<1>1. CASE Save17 \/ Save17b \/ Save17e \/ UpDone BY <1>1 DEF Save17, Save17b, Save17e, UpDone, SaveAnd, End
<1>2. CASE Save17eDown \/ Save17bDown BY <1>2 DEF Save17eDown, Save17bDown, ClearAnd, DownStep
<1>3. CASE LoseFiles BY <1>3 DEF LoseFiles
<1>4. QED BY <1>1, <1>2, <1>3, Frames

LEMMA DiskMemory == ASSUME TypeOK, Control, Plain, Next, NEW n \in Unique
  PROVE disk'[n] \in {None, disk[n], mem[n]}
<1> USE Sorts, UniqueKinds
<1>1. EmptyState[n] = None BY DEF EmptyState
<1>2. \A N : Without(N)[n] \in {None, mem[n]} BY DEF Without
<1>3. CASE Save17eDown \/ Save17bDown \/ DownDone
  BY <1>2, <1>3 DEF Save17eDown, Save17bDown, DownDone, ClearAnd
<1>4. QED BY <1>1, <1>3, Saved

LEMMA RecordsStep == ASSUME TypeOK, Control, Plain, Single, Records, Loaded, Next PROVE Records'
<1>1. ASSUME NEW n \in Unique, NEW r \in Has(n)' PROVE disk'[n] \in {None, r} /\ mem'[n] \in {None, r}
  <2>1. \A a, b \in Has(n) : a = b BY DEF Single
  <2>2. \A a \in Has(n) : disk[n] \in {None, a} /\ mem[n] \in {None, a} BY DEF Records
  <2>3. CASE r \in Has(n)
    <3>1. ~Born(n) BY <2>3, UniqueKinds DEF Born
    <3>2. mem'[n] \in {None, mem[n], disk[n]} \cup Has(n) BY <3>1, Memory
    <3>3. disk'[n] \in {None, disk[n], mem[n]} BY DiskMemory
    <3>4. QED BY <2>1, <2>2, <2>3, <3>2, <3>3
  <2>4. CASE r \notin Has(n)
    <3>1. Born(n) /\ Has(n)' = Has(n) \cup {run} BY <2>4, HasFate, UniqueKinds
    <3>2. r = run /\ mem'[n] = run /\ mem[n] = None /\ pc \in UpPoints BY <2>4, <3>1, UniqueKinds DEF Born
    <3>3. disk[n] = None BY <3>2 DEF Loaded
    <3>4. QED BY <3>2, <3>3, DiskMemory
  <2>5. QED BY <2>3, <2>4
<1>2. QED BY <1>1 DEF Records

LEMMA LoadedStep == ASSUME TypeOK, Control, Plain, Loaded, Next PROVE Loaded'
<1>1. ASSUME pc' \in UpPoints, NEW n \in Unique PROVE disk'[n] \in {None, mem'[n]}
  <2>0. pc' # "idle" /\ pc' # "veEnd" /\ pc' \notin DownPoints BY <1>1, Apart DEF DownPoints
  <2>1. CASE StartUp BY <2>1 DEF StartUp, files
  <2>2. CASE UpMove /\ pc \in UpPoints
    <3>1. disk[n] \in {None, mem[n]} BY <2>2 DEF Loaded
    <3>2. mem'[n] = mem[n] \/ mem[n] = None BY <2>0, <2>2, Memory
    <3>3. ~LoseFiles /\ ~Save17eDown /\ ~Save17bDown /\ ~DownDone
      BY <2>2, Starts, Apart DEF DownPoints, LoseFiles, At
    <3>4. disk' = disk \/ (disk' = mem /\ mem' = mem)
      <4>1. CASE Save17 \/ Save17b \/ Save17e \/ UpDone
        BY <2>0, <4>1 DEF Save17, Save17b, Save17e, UpDone, SaveAnd, End
      <4>2. QED BY <3>3, <4>1, Frames
    <3>5. QED BY <3>1, <3>2, <3>4
  <2>3. CASE Outside /\ pc' = pc
    <3>1. disk[n] \in {None, mem[n]} BY <1>1, <2>3 DEF Loaded
    <3>2. QED BY <2>3, <3>1 DEF Outside
  <2>4. QED BY <2>0, <2>1, <2>2, <2>3, Flow
<1>2. QED BY <1>1 DEF Loaded

LEMMA PairedStep == ASSUME TypeOK, Control, Plain, Paired, VeBuilt, Next PROVE Paired'
<1> USE Sorts, UniqueKinds
<1>0. mem \in [Keys -> Ref] /\ disk \in [Keys -> Ref] BY DEF TypeOK
<1>1. disk'["ve"] # None => disk'["veMgmt"] # None
  <2>1. disk["ve"] # None => disk["veMgmt"] # None BY DEF Paired
  <2>2. CASE Save17 \/ Save17b \/ Save17e \/ UpDone
    <3>1. pc \in UpPoints BY <2>2, Starts DEF UpPoints, OnboardPoints
    <3>2. mem["ve"] # None => mem["veMgmt"] # None BY <3>1 DEF Paired
    <3>3. QED BY <2>2, <3>2 DEF Save17, Save17b, Save17e, UpDone, SaveAnd
  <2>3. CASE LoseFiles BY <2>1, <2>3 DEF LoseFiles, EmptyState
  <2>4. CASE Save17eDown BY <2>4 DEF Save17eDown, ClearAnd, Without
  <2>5. CASE Save17bDown \/ DownDone
    <3>1. pc \in PastSave17e
      BY <2>5, Starts DEF PastSave17e, PastPem, PastKey, PastVeSg, PastExt, PastMgmt, PastVe, DownPoints
    <3>2. mem["ve"] # None => mem["veMgmt"] # None BY <3>1 DEF Paired
    <3>3. QED BY <2>5, <3>2 DEF Save17bDown, DownDone, ClearAnd, Without
  <2>6. QED BY <2>1, <2>2, <2>3, <2>4, <2>5, Frames
<1>2. pc' \in UpPoints \cup {"veEnd"} \cup PastSave17e => (mem'["ve"] # None => mem'["veMgmt"] # None)
  <2>0. SUFFICES ASSUME pc' \in UpPoints \cup {"veEnd"} \cup PastSave17e
                 PROVE mem'["ve"] # None => mem'["veMgmt"] # None
    OBVIOUS
  <2>1. PastSave17e \subseteq DownPoints /\ "veEnd" \notin PastSave17e /\ "jhEnd" \in PastSave17e
    BY DEF PastSave17e, PastPem, PastKey, PastVeSg, PastExt, PastMgmt, PastVe, DownPoints
  <2>2. pc' # "idle" BY <2>0, <2>1, Apart DEF DownPoints
  <2>3. CASE StartUp \/ StartDown BY <2>3 DEF StartUp, StartDown, Paired
  <2>4. CASE Outside /\ pc' = pc BY <2>0, <2>4 DEF Outside, Paired
  <2>5. CASE UpMove /\ pc \in UpPoints
    <3>1. mem'["veMgmt"] = mem["veMgmt"] \/ mem["veMgmt"] = None BY <2>2, <2>5, Memory
    <3>2. mem["ve"] # None => mem["veMgmt"] # None BY <2>5 DEF Paired
    <3>3. CASE VeFound \/ VeLaunch
      <4>1. pc = "ve" BY <3>3, Starts
      <4>2. mem["veMgmt"] # None
        BY <4>1 DEF VeBuilt, FromVeMgmt, FromVeSg, FromPem, FromKey, FromJh, FromSsh, FromEice, FromRole,
          UpPoints
      <4>3. ~VeMgmt /\ ~VeMgmtDown /\ ~Save17eDown BY <4>1, Starts
      <4>4. QED BY <2>2, <2>5, <4>2, <4>3, MemSteps
    <3>4. CASE mem'["ve"] = mem["ve"]
      <4>1. CASE mem["ve"] # None BY <3>1, <3>2, <4>1
      <4>2. CASE mem["ve"] = None BY <3>4, <4>2
      <4>3. QED BY <4>1, <4>2
    <3>5. ~VeEnd /\ ~Save17eDown BY <2>5, Starts, Apart DEF DownPoints
    <3>6. QED BY <2>2, <2>5, <3>3, <3>4, <3>5, MemSteps
  <2>6. CASE DownStep /\ pc \in DownPoints /\ pc' \in DownPoints
    <3>1. pc' \in PastSave17e BY <2>0, <2>6, DownOnward, DownArrivals, Apart
    <3>2. CASE Save17eDown BY <3>2 DEF Save17eDown, ClearAnd, Without
    <3>3. CASE pc \in PastSave17e
      <4>1. mem["ve"] # None => mem["veMgmt"] # None BY <3>3 DEF Paired
      <4>2. ~VeFound /\ ~VeLaunch /\ ~VeEnd /\ ~Save17eDown /\ ~VeMgmt /\ ~VeMgmtDown
        BY <3>3, Starts DEF PastSave17e, PastPem, PastKey, PastVeSg, PastExt, PastMgmt, PastVe, DownPoints
      <4>3. QED BY <2>2, <2>6, <4>1, <4>2, MemSteps
    <3>4. QED BY <2>6, <3>1, <3>2, <3>3, DownOnward
  <2>7. QED BY <2>2, <2>3, <2>4, <2>5, <2>6, Flow
<1>3. pc' \in {"veEnd", "veEnding", "veMgmtDown"} /\ mem'["veMgmt"] = None => disk'["veMgmt"] = None
  <2>0. SUFFICES ASSUME pc' \in {"veEnd", "veEnding", "veMgmtDown"}, mem'["veMgmt"] = None
                 PROVE disk'["veMgmt"] = None
    OBVIOUS
  <2>1. pc' # "idle" /\ pc' \in DownPoints /\ pc' \notin UpPoints /\ pc' # "tmm"
    BY <2>0, Apart DEF DownPoints
  <2>2. CASE StartDown BY <2>0, <2>2 DEF StartDown, files
  <2>3. CASE Outside /\ pc' = pc BY <2>0, <2>3 DEF Outside, Paired
  <2>4. CASE DownStep /\ pc \in DownPoints
    <3>1. CASE VeEnd \/ VeEnded
      <4>1. pc \in {"veEnd", "veEnding"} BY <3>1, Starts
      <4>2. ~VeMgmt /\ ~VeMgmtDown /\ ~Save17eDown BY <4>1, Starts
      <4>3. mem'["veMgmt"] = mem["veMgmt"] BY <2>1, <2>4, <4>2, MemSteps
      <4>4. disk' = disk BY <3>1 DEF VeEnd, VeEnded, Terminate, Terminated, Go, files
      <4>5. QED BY <2>0, <4>1, <4>3, <4>4 DEF Paired
    <3>2. ASSUME VeMgmtDown PROVE pc' = "veExtDown" BY <3>2 DEF VeMgmtDown, EniDown, Pinned, Goto
    <3>3. QED BY <2>0, <2>4, <3>1, <3>2, DownArrivals
  <2>5. QED BY <2>1, <2>2, <2>3, <2>4, Flow
<1>4. QED BY <1>1, <1>2, <1>3 DEF Paired

\* An instance is launched, terminated by `down` or by somebody, settles, and goes.
Launch(n) == IF n = "jh" THEN JhLaunch ELSE VeLaunch
EndOf(n)  == IF n = "jh" THEN JhEnd ELSE VeEnd
Ended(n, r) == (EndOf(n) \/ LoseHost) /\ r \in Alive(n) /\ Become(<<n, r>>, "deleting")

LEMMA HostFate == ASSUME TypeOK, Control, Plain, Next, NEW n \in {"jh", "ve"}
  PROVE \/ \A r \in Runs : status'[<<n, r>>] = status[<<n, r>>]
        \/ Launch(n) /\ Become(<<n, run>>, "creating") /\ run \in Runs
        \/ \E r \in Alive(n) : Ended(n, r)
        \/ Outside /\ \E r \in Alive(n) : Become(<<n, r>>, "ready")
        \/ Outside /\ \E r \in Has(n) : Gone(<<n, r>>)
<1> USE Sorts
<1>1. pc \in UpPoints => run \in Runs BY DEF Control
<1>2. CASE n = "jh" /\ JhLaunch
  BY <1>1, <1>2, Starts DEF JhLaunch, Create, Launch, UpPoints, cloud
<1>3. CASE n = "ve" /\ VeLaunch
  BY <1>1, <1>3, Starts DEF VeLaunch, Launch, UpPoints, cloud
<1>4. CASE n = "jh" /\ JhEnd BY <1>4 DEF JhEnd, Terminate, Ended, EndOf
<1>5. CASE n = "ve" /\ VeEnd BY <1>5 DEF VeEnd, Terminate, Ended, EndOf
<1>6. CASE LoseHost
  <2>1. PICK x \in HostKinds \X Runs : status[x] = "ready" /\ Become(x, "deleting") BY <1>6 DEF LoseHost
  <2>2. x[1] \in {"jh", "ve"} /\ x[2] \in Runs /\ x = <<x[1], x[2]>> BY <2>1 DEF HostKinds
  <2>3. CASE x[1] = n
    <3>1. x[2] \in Alive(n) BY <2>1, <2>2, <2>3 DEF Alive
    <3>2. QED BY <1>6, <2>1, <2>2, <2>3, <3>1 DEF Ended
  <2>4. CASE x[1] # n
    <3>1. Only(x[1]) BY <2>1, <2>2, OnlyThat
    <3>2. n \in Kinds \ {x[1]} BY <2>4
    <3>3. QED BY <3>1, <3>2 DEF Only
  <2>5. QED BY <2>3, <2>4
<1>7. CASE Outside
  <2>1. CASE UNCHANGED status BY <2>1
  <2>2. ASSUME NEW x \in Id, x[1] # n, \E s : Become(x, s)
        PROVE \A r \in Runs : status'[<<n, r>>] = status[<<n, r>>]
    <3>1. x[1] \in Kinds /\ x[2] \in Runs /\ x = <<x[1], x[2]>> OBVIOUS
    <3>2. Only(x[1]) BY <2>2, <3>1, OnlyThat
    <3>3. n \in Kinds \ {x[1]} BY <2>2
    <3>4. QED BY <3>2, <3>3 DEF Only
  <2>3. ASSUME NEW x \in Id, Settles(x), x[1] = n PROVE \E r \in Alive(n) : Become(<<n, r>>, "ready")
    <3>1. x[2] \in Runs /\ x = <<n, x[2]>> BY <2>3
    <3>2. x[2] \in Alive(n) BY <2>3, <3>1 DEF Settles, Alive
    <3>3. Become(x, "ready") BY <2>3 DEF Settles
    <3>4. QED BY <3>1, <3>2, <3>3
  <2>4. ASSUME NEW x \in Id, Gone(x), x[1] = n PROVE \E r \in Has(n) : Gone(<<n, r>>)
    <3>1. x[2] \in Runs /\ x = <<n, x[2]>> BY <2>4
    <3>2. x[2] \in Has(n) BY <2>4, <3>1 DEF Gone, Has
    <3>3. QED BY <2>4, <3>1, <3>2
  <2>5. \A x : Settles(x) \/ Gone(x) => \E s : Become(x, s) BY DEF Settles, Gone
  <2>6. \A r \in Runs : As3Settles(r) \/ Reverts(r) => UNCHANGED status BY DEF As3Settles, Reverts, OnlyBox
  <2>7. QED BY <1>7, <2>1, <2>2, <2>3, <2>4, <2>5, <2>6 DEF Outside, AccountStep
<1>8. CASE n = "jh" BY <1>2, <1>4, <1>6, <1>7, <1>8, Untouched DEF Concerns
<1>9. CASE n = "ve" BY <1>3, <1>5, <1>6, <1>7, <1>9, Untouched DEF Concerns
<1>10. QED BY <1>8, <1>9

\* What one status means for the sets of those that exist and live.
LEMMA Turned == ASSUME TypeOK, NEW n \in Kinds, NEW q \in Runs, NEW s \in States, Become(<<n, q>>, s)
  PROVE /\ \A r \in Runs \ {q} : (r \in Has(n)' <=> r \in Has(n)) /\ (r \in Alive(n)' <=> r \in Alive(n))
        /\ q \in Has(n)' <=> s # "none"
        /\ q \in Alive(n)' <=> s \in {"creating", "ready"}
<1>1. <<n, q>> \in Id /\ \A r \in Runs \ {q} : <<n, r>> \in Id /\ <<n, r>> # <<n, q>> BY Sorts
<1>2. status'[<<n, q>>] = s /\ \A r \in Runs \ {q} : status'[<<n, r>>] = status[<<n, r>>] BY <1>1, Become_
<1>3. QED BY <1>2 DEF Has, Alive

LEMMA HostHas == ASSUME TypeOK, Control, Plain, Next, NEW n \in {"jh", "ve"}
  PROVE /\ \A r \in Has(n) : r \in Has(n)' \/ (Outside /\ Gone(<<n, r>>))
        /\ \A r \in Has(n)' : r \in Has(n) \/ (Launch(n) /\ r = run)
        /\ \A r \in Alive(n)' : r \in Alive(n) \/ (Launch(n) /\ r = run)
        /\ \A r \in Alive(n) : r \in Alive(n)' \/ Ended(n, r)
<1> USE Sorts
<1>1. CASE \A r \in Runs : status'[<<n, r>>] = status[<<n, r>>] BY <1>1, Same
<1>2. {"creating", "deleting", "ready", "none"} \subseteq States BY DEF States
<1>3. CASE Launch(n) /\ Become(<<n, run>>, "creating") /\ run \in Runs
  <2>1. /\ \A r \in Runs \ {run} : (r \in Has(n)' <=> r \in Has(n)) /\ (r \in Alive(n)' <=> r \in Alive(n))
        /\ run \in Has(n)' /\ run \in Alive(n)'
    BY <1>2, <1>3, Turned
  <2>2. Has(n)' \subseteq Runs /\ Alive(n)' \subseteq Runs BY DEF Has, Alive
  <2>3. QED BY <1>3, <2>1, <2>2
<1>4. ASSUME NEW q \in Alive(n), Ended(n, q)
      PROVE /\ \A r \in Has(n) : r \in Has(n)'
            /\ \A r \in Has(n)' : r \in Has(n)
            /\ \A r \in Alive(n)' : r \in Alive(n)
            /\ \A r \in Alive(n) : r \in Alive(n)' \/ Ended(n, r)
  <2>1. q \in Runs /\ q \in Has(n) /\ Become(<<n, q>>, "deleting") BY <1>4 DEF Ended
  <2>2. /\ \A r \in Runs \ {q} : (r \in Has(n)' <=> r \in Has(n)) /\ (r \in Alive(n)' <=> r \in Alive(n))
        /\ q \in Has(n)' /\ q \notin Alive(n)'
    BY <1>2, <2>1, Turned
  <2>3. Has(n)' \subseteq Runs /\ Alive(n)' \subseteq Runs BY DEF Has, Alive
  <2>4. QED BY <1>4, <2>1, <2>2, <2>3
<1>5. ASSUME NEW q \in Alive(n), Become(<<n, q>>, "ready")
      PROVE Has(n)' = Has(n) /\ Alive(n)' = Alive(n)
  <2>1. q \in Runs /\ q \in Has(n) OBVIOUS
  <2>2. /\ \A r \in Runs \ {q} : (r \in Has(n)' <=> r \in Has(n)) /\ (r \in Alive(n)' <=> r \in Alive(n))
        /\ q \in Has(n)' /\ q \in Alive(n)'
    BY <1>2, <1>5, <2>1, Turned
  <2>3. Has(n)' \subseteq Runs /\ Alive(n)' \subseteq Runs BY DEF Has, Alive
  <2>4. QED BY <1>5, <2>1, <2>2, <2>3
<1>6. ASSUME NEW q \in Has(n), Gone(<<n, q>>)
      PROVE /\ \A r \in Has(n) : r \in Has(n)' \/ Gone(<<n, r>>)
            /\ \A r \in Has(n)' : r \in Has(n)
            /\ Alive(n)' = Alive(n)
  <2>1. q \in Runs /\ Become(<<n, q>>, "none") /\ q \notin Alive(n) BY <1>6 DEF Gone, Alive
  <2>2. /\ \A r \in Runs \ {q} : (r \in Has(n)' <=> r \in Has(n)) /\ (r \in Alive(n)' <=> r \in Alive(n))
        /\ q \notin Has(n)' /\ q \notin Alive(n)'
    BY <1>2, <2>1, Turned
  <2>3. Has(n)' \subseteq Runs /\ Alive(n)' \subseteq Runs BY DEF Has, Alive
  <2>4. QED BY <1>6, <2>1, <2>2, <2>3
<1>7. QED BY <1>1, <1>3, <1>4, <1>5, <1>6, HostFate

LEMMA PlainStep == ASSUME TypeOK, Control, Plain, Next PROVE Plain'
<1>1. ASSUME NEW n \in Kinds \ {"jh", "ve", "eice"}, NEW r \in Runs
      PROVE status'[<<n, r>>] \in {"none", "ready"}
  <2>1. status[<<n, r>>] \in {"none", "ready"} BY DEF Plain
  <2>2. ASSUME NEW q \in Runs, NEW s \in {"none", "ready"}, Become(<<n, q>>, s)
        PROVE status'[<<n, r>>] \in {"none", "ready"}
    <3>1. <<n, q>> \in Id /\ <<n, r>> \in Id BY Sorts
    <3>2. QED BY <2>1, <2>2, <3>1, Become_
  <2>3. Has(n) \subseteq Runs BY Sorts
  <2>4. QED BY <2>1, <2>2, <2>3, Fate DEF Born
<1>2. ASSUME NEW n \in {"jh", "ve"}, NEW r \in Runs PROVE status'[<<n, r>>] # "failed"
  <2>1. status[<<n, r>>] # "failed" BY DEF Plain
  <2>2. ASSUME NEW q \in Runs, NEW s \in {"none", "creating", "ready", "deleting"}, Become(<<n, q>>, s)
        PROVE status'[<<n, r>>] # "failed"
    <3>1. <<n, q>> \in Id /\ <<n, r>> \in Id BY Sorts
    <3>2. QED BY <2>1, <2>2, <3>1, Become_
  <2>3. Has(n) \subseteq Runs /\ Alive(n) \subseteq Runs BY Sorts
  <2>4. QED BY <2>1, <2>2, <2>3, HostFate DEF Ended, Gone
<1>3. QED BY <1>1, <1>2 DEF Plain

-----------------------------------------------------------------------------
(* Attachments.                                                             *)

LEMMA Ends == ASSUME TypeOK, NEW a \in att
  PROVE /\ a = <<a[1], a[2]>> /\ a[1] \in EniKinds \X Runs /\ a[2] \in Hosts
        /\ a[1] = <<a[1][1], a[1][2]>> /\ a[1][1] \in EniKinds /\ a[1][2] \in Runs
        /\ a[2] = Node \/ (a[2][1] \in {"jh", "ve"} /\ a[2][2] \in Runs /\ a[2] = <<a[2][1], a[2][2]>>)
<1>1. a \in (EniKinds \X Runs) \X Hosts BY DEF TypeOK, AccountTypeOK
<1>2. a[2] \in Hosts BY <1>1
<1>3. a[2] = Node \/ (a[2][1] \in {"jh", "ve"} /\ a[2][2] \in Runs /\ a[2] = <<a[2][1], a[2][2]>>)
  BY <1>2 DEF Hosts, HostKinds
<1>4. QED BY <1>1, <1>3

LEMMA Free == ASSUME NEW e PROVE HostOf(e) = {} <=> \A a \in att : a[1] # e
  BY DEF HostOf

\* A BIG-IP is launched on both of its interfaces, which nothing holds.
Wired ==
  /\ VeLaunch /\ mem'["ve"] = run /\ pc' = "veWait" /\ run \in Runs
  /\ Become(<<"ve", run>>, "creating")
  /\ mem["veMgmt"] \in Has("veMgmt") /\ mem["veExt"] \in Has("veExt")
  /\ \A a \in att : a[1] # <<"veMgmt", mem["veMgmt"]>> /\ a[1] # <<"veExt", mem["veExt"]>>
  /\ att' = att \cup {<< <<"veMgmt", mem["veMgmt"]>>, <<"ve", run>> >>,
                      << <<"veExt", mem["veExt"]>>, <<"ve", run>> >>}
  /\ veKey' = [veKey EXCEPT ![run] = key]
  /\ UNCHANGED <<files, conf, key, box>>

LEMMA VeLaunchIs == ASSUME TypeOK, Control, VeLaunch PROVE Wired \/ (Refuse /\ UNCHANGED <<cloud, files>>)
<1>1. pc = "ve" /\ pc \in UpPoints BY Starts DEF UpPoints
<1>2. run \in Runs BY <1>1 DEF Control
<1>3. mem \in [Keys -> Ref] /\ "ve" \in Keys BY Sorts DEF TypeOK
<1> DEFINE E == {<<n, mem[n]>> : n \in {"veMgmt", "veExt"}}
<1>4. E = {<<"veMgmt", mem["veMgmt"]>>, <<"veExt", mem["veExt"]>>} OBVIOUS
<1>5. CASE \A e \in E : e[2] \in Has(e[1]) /\ HostOf(e) = {}
  <2>1. /\ Become(<<"ve", run>>, "creating")
        /\ att' = att \cup (E \X {<<"ve", run>>})
        /\ veKey' = [veKey EXCEPT ![run] = key]
        /\ Set("ve", run) /\ Goto("veWait") /\ UNCHANGED <<conf, key, box, files>>
    BY <1>5 DEF VeLaunch
  <2>2. mem["veMgmt"] \in Has("veMgmt") /\ mem["veExt"] \in Has("veExt")
        /\ HostOf(<<"veMgmt", mem["veMgmt"]>>) = {} /\ HostOf(<<"veExt", mem["veExt"]>>) = {}
    BY <1>4, <1>5
  <2>3. mem'["ve"] = run /\ pc' = "veWait" BY <1>3, <2>1 DEF Set, Goto
  <2>4. E \X {<<"ve", run>>} = {<< <<"veMgmt", mem["veMgmt"]>>, <<"ve", run>> >>,
                                << <<"veExt", mem["veExt"]>>, <<"ve", run>> >>}
    BY <1>4
  <2>5. QED BY <1>2, <2>1, <2>2, <2>3, <2>4, Free DEF Wired
<1>6. CASE ~ \A e \in E : e[2] \in Has(e[1]) /\ HostOf(e) = {}
  BY <1>6 DEF VeLaunch
<1>7. QED BY <1>5, <1>6

\* What is not at device index 0 is detached, what is on a host goes with it.
Detached(n) == \E r \in Has(n) : att' = {a \in att : a[1] # <<n, r>>} /\ OnlyAtt /\ (\E a \in att : a[1] = <<n, r>>)
TmmHung     == TmmAttach /\ att' = att \cup {<< <<"tmm", mem["tmm"]>>, Node >>} /\ OnlyAtt
JhEniHung   ==
  /\ JhEniAttach /\ OnHost(<<"jh", mem["jh"]>>) = {} /\ status[<<"jh", mem["jh"]>>] = "ready"
  /\ att' = att \cup {<< <<"jhEni", mem["jhEni"]>>, <<"jh", mem["jh"]>> >>} /\ OnlyAtt

LEMMA Hangings == ASSUME TypeOK, Control, Next
  PROVE \/ UNCHANGED att
        \/ TmmHung \/ JhEniHung \/ Wired
        \/ VeExtDown /\ Detached("veExt")
        \/ JhEniDown /\ Detached("jhEni")
        \/ (TmmOwn \/ TmmTagged) /\ Detached("tmm")
        \/ Outside /\ \E x \in Id : Gone(x)
<1>1. CASE TmmAttach BY <1>1 DEF TmmAttach, TmmHung, Fail, cloud
<1>2. CASE JhEniAttach BY <1>2 DEF JhEniAttach, JhEniHung, Fail, cloud
<1>3. CASE VeLaunch BY <1>3, VeLaunchIs DEF cloud
<1>4. CASE VeMgmtDown BY <1>4 DEF VeMgmtDown, EniDown, OnlyGone, Pinned, cloud
<1>5. ASSUME NEW n, NEW p, EniDown(n, p) PROVE UNCHANGED att \/ Detached(n)
  BY <1>5, Free DEF EniDown, Detached, OnlyGone, cloud
<1>6. CASE VeExtDown BY <1>5, <1>6 DEF VeExtDown
<1>7. CASE JhEniDown BY <1>5, <1>7 DEF JhEniDown
<1>8. ASSUME NEW r \in Has("tmm"), TmmDrop(r) PROVE UNCHANGED att \/ Detached("tmm")
  BY <1>8, Free DEF TmmDrop, Detached, OnlyGone
<1>9. CASE TmmOwn \/ TmmTagged BY <1>8, <1>9 DEF TmmOwn, TmmTagged, cloud
<1>10. CASE Outside
  BY <1>10 DEF Outside, AccountStep, Settles, As3Settles, Reverts, OnlyBox, OnlyStatus
<1>11. QED BY <1>1, <1>2, <1>3, <1>4, <1>6, <1>7, <1>9, <1>10, Frames

LEMMA AttachedStep == ASSUME TypeOK, Control, Plain, Built, Attached, Next PROVE Attached'
<1> USE Sorts, Names
<1>1. ASSUME NEW a \in att, a \in att'
      PROVE a[2][1] = HostKind(a[1][1]) /\ (a[2] # Node => a[2][2] \in Has(a[2][1])')
  <2>1. a[2][1] = HostKind(a[1][1]) /\ (a[2] # Node => a[2][2] \in Has(a[2][1])) BY DEF Attached
  <2>2. CASE a[2] # Node
    <3>1. a[2][1] \in {"jh", "ve"} /\ a[2] = <<a[2][1], a[2][2]>> BY <2>2, Ends
    <3>2. CASE Gone(<<a[2][1], a[2][2]>>) BY <1>1, <3>1, <3>2 DEF Gone
    <3>3. QED BY <2>1, <2>2, <3>1, <3>2, HostHas
  <2>3. QED BY <2>1, <2>2
<1>2. ASSUME NEW a \in att', a \notin att
      PROVE /\ a[2][1] = HostKind(a[1][1]) /\ (a[2] # Node => a[2][2] \in Has(a[2][1])')
            /\ a[1][1] = "veMgmt" => Wired /\ a[1] = <<"veMgmt", mem["veMgmt"]>> /\ a[2] = <<"ve", run>>
  <2>1. CASE TmmHung BY <1>2, <2>1 DEF TmmHung, HostKind, Node
  <2>2. CASE JhEniHung
    <3>1. a[1] = <<"jhEni", mem["jhEni"]>> /\ a[2] = <<"jh", mem["jh"]>> BY <1>2, <2>2 DEF JhEniHung
    <3>2. pc \in FromJh
      BY <2>2, Starts DEF JhEniHung, FromJh, FromSsh, FromEice, FromRole, UpPoints
    <3>3. mem["jh"] \in Runs /\ status'[<<"jh", mem["jh"]>>] = "ready" BY <2>2, <3>2 DEF JhEniHung, OnlyAtt
    <3>4. mem["jh"] \in Has("jh")' BY <3>3 DEF Has
    <3>5. QED BY <3>1, <3>4 DEF HostKind
  <2>3. CASE Wired
    <3>1. run \in Has("ve")' BY <2>3, Turned DEF Wired, States
    <3>2. QED BY <1>2, <2>3, <3>1 DEF Wired, HostKind
  <2>4. CASE UNCHANGED att \/ Detached("veExt") \/ Detached("jhEni") \/ Detached("tmm")
    BY <1>2, <2>4 DEF Detached
  <2>5. CASE \E x \in Id : Gone(x) BY <1>2, <2>5 DEF Gone
  <2>6. QED BY <2>1, <2>2, <2>3, <2>4, <2>5, Hangings
<1>3. ASSUME NEW a \in att', NEW b \in att', a[1] = b[1], a[1][1] = "veMgmt" PROVE a[2] = b[2]
  <2>1. CASE a \in att /\ b \in att BY <1>3, <2>1 DEF Attached
  <2>2. CASE a \notin att
    <3>1. Wired /\ a[1] = <<"veMgmt", mem["veMgmt"]>> /\ a[2] = <<"ve", run>> BY <1>2, <1>3, <2>2
    <3>2. b \notin att BY <1>3, <3>1 DEF Wired
    <3>3. QED BY <1>2, <1>3, <3>1, <3>2
  <2>3. CASE b \notin att
    <3>1. Wired /\ b[1] = <<"veMgmt", mem["veMgmt"]>> /\ b[2] = <<"ve", run>> BY <1>2, <1>3, <2>3
    <3>2. a \notin att BY <1>3, <3>1 DEF Wired
    <3>3. QED BY <1>2, <1>3, <3>1, <3>2
  <2>4. QED BY <2>1, <2>2, <2>3
<1>4. QED BY <1>1, <1>2, <1>3 DEF Attached

-----------------------------------------------------------------------------
(* The BIG-IP, its management interface and its key.                        *)

LEMMA OneBox == ASSUME Single, Attached, Held PROVE \A a, b \in Has("ve") : a = b
<1>1. ASSUME NEW a \in Has("ve"), NEW b \in Has("ve") PROVE a = b
  <2>1. PICK m \in Has("veMgmt") : << <<"veMgmt", m>>, <<"ve", a>> >> \in att BY DEF Held
  <2>2. PICK q \in Has("veMgmt") : << <<"veMgmt", q>>, <<"ve", b>> >> \in att BY DEF Held
  <2>3. m = q BY DEF Single, Unique
  <2>4. <<"ve", a>> = <<"ve", b>>
    <3> DEFINE x == << <<"veMgmt", m>>, <<"ve", a>> >>
               y == << <<"veMgmt", q>>, <<"ve", b>> >>
    <3>1. x \in att /\ y \in att /\ x[1] = y[1] /\ x[1][1] = "veMgmt" /\ x[2] = <<"ve", a>> /\ y[2] = <<"ve", b>>
      BY <2>1, <2>2, <2>3
    <3>2. QED BY <3>1 DEF Attached
  <2>5. QED BY <2>4
<1>2. QED BY <1>1

LEMMA FaultCount == ASSUME TypeOK, Next
  PROVE /\ faults \in Nat /\ faults' \in Nat /\ faults' >= faults
        /\ \A c \in Nat : faults > c => faults' > c
<1>0. faults \in 0 .. MaxFaults BY DEF TypeOK
<1>1. faults \in Nat BY <1>0, HostsAssumption
<1>2. faults' \in Nat /\ faults' >= faults BY <1>1, CommandStep
<1>3. QED BY <1>1, <1>2

LEMMA MgmtStays == ASSUME TypeOK, Control, Plain, Single, Records, Attached, Held, Next,
                          NEW m \in Has("veMgmt"), NEW r, << <<"veMgmt", m>>, <<"ve", r>> >> \in att
  PROVE m \in Has("veMgmt")'
<1> USE Sorts, UniqueKinds
<1>1. CASE VeMgmtDown
  <2>1. ASSUME NEW q \in Has("veMgmt") PROVE HostOf(<<"veMgmt", q>>) # {} BY <2>1, Free DEF Single
  <2>2. UNCHANGED status BY <1>1, <2>1 DEF VeMgmtDown, EniDown, OnlyAtt, cloud
  <2>3. QED BY <2>2 DEF Has
<1>2. CASE ~VeMgmtDown
  <2>1. ~Born("veMgmt") BY DEF Born
  <2>2. CASE VeMgmt
    <3>1. \A p : New("veMgmt", "ready", p) => UNCHANGED status BY DEF New, cloud
    <3>2. UNCHANGED status BY <2>2, <3>1 DEF VeMgmt, Reuse, Fail, cloud
    <3>3. QED BY <3>2 DEF Has
  <2>3. CASE ~VeMgmt
    <3>1. \A q \in Runs : status'[<<"veMgmt", q>>] = status[<<"veMgmt", q>>]
      BY <1>2, <2>3, Untouched DEF Concerns
    <3>2. QED BY <3>1, Same
  <2>4. QED BY <2>2, <2>3
<1>3. QED BY <1>1, <1>2

LEMMA SightStep ==
  ASSUME TypeOK, Control, Plain, Single, Records, Loaded, Paired, Attached, Held, Sight, VeBuilt, Next
  PROVE Sight'
<1> USE Sorts, UniqueKinds
<1>0. /\ faults \in Nat /\ faults' \in Nat /\ faults' >= faults
      /\ faults > 0 => faults' > 0
      /\ faults > 1 => faults' > 1
      /\ faults > 2 => faults' > 2
      /\ faults > 3 => faults' > 3
  BY FaultCount
<1>1. mem \in [Keys -> Ref] /\ disk \in [Keys -> Ref] BY DEF TypeOK
<1>2. SUFFICES ASSUME Alive("ve")' # {}
               PROVE /\ disk'["veMgmt"] = None /\ pc' \notin {"veWait", "save17e"} => faults' > 0
                     /\ pc' \in {"veEnding", "veMgmtDown"} /\ mem'["veMgmt"] = None => faults' > 1
                     /\ pc' \in PastMgmt => faults' > 2
                     /\ pc' \in PastVeSg => faults' > 3
  BY DEF Sight, Unseen, Orphaned
<1>3. Alive("ve") # {} \/ Wired
  <2>1. Alive("ve") # {} \/ VeLaunch BY <1>2, HostHas DEF Launch
  <2>2. UNCHANGED status => Alive("ve")' = Alive("ve") BY DEF Alive
  <2>3. VeLaunch => Wired \/ UNCHANGED status BY VeLaunchIs DEF cloud
  <2>4. QED BY <1>2, <2>1, <2>2, <2>3
<1>4. CASE Wired
  <2>1. pc' = "veWait" BY <1>4 DEF Wired
  <2>2. "veWait" \notin PastMgmt /\ "veWait" \notin PastVeSg
    BY DEF PastMgmt, PastVeSg, PastVe, PastExt, DownPoints
  <2>3. QED BY <2>1, <2>2
<1>5. CASE Alive("ve") # {}
  <2>0. PICK r \in Alive("ve") : r \in Has("ve") BY <1>5
  <2>1. PICK m \in Has("veMgmt") : << <<"veMgmt", m>>, <<"ve", r>> >> \in att BY <2>0 DEF Held
  <2>2. /\ disk["veMgmt"] = None /\ pc \notin {"veWait", "save17e"} => faults > 0
        /\ pc \in {"veEnding", "veMgmtDown"} /\ mem["veMgmt"] = None => faults > 1
        /\ pc \in PastMgmt => faults > 2
        /\ pc \in PastVeSg => faults > 3
    BY <1>5 DEF Sight, Unseen, Orphaned
  <2>3. PastVeSg \subseteq PastMgmt /\ PastMgmt \subseteq DownPoints /\ "idle" \notin DownPoints /\ "tmm" \notin DownPoints
        /\ "veEnd" \notin PastMgmt /\ {"veEnding", "veMgmtDown"} \subseteq DownPoints
        /\ (\A p \in DownPoints : p \notin UpPoints)
    BY Apart DEF PastMgmt, PastVeSg, PastVe, PastExt, DownPoints, UpPoints, OnboardPoints
  <2>4. \A a \in Has("ve") : a = r BY <2>0, OneBox
  <2>5. \A a \in Has("veMgmt") : a = m BY <2>1 DEF Single
  <2>6. mem["veMgmt"] \in {None, m} BY <2>1 DEF Records
  <2>7. disk'["veMgmt"] = None /\ pc' \notin {"veWait", "save17e"} => faults' > 0
    <3>0. SUFFICES ASSUME disk'["veMgmt"] = None, pc' \notin {"veWait", "save17e"} PROVE faults' > 0 OBVIOUS
    <3>1. CASE pc \in PastMgmt
      <4>1. faults > 2 BY <2>2, <3>1
      <4>2. QED BY <1>0, <4>1
    <3>2. CASE Save17 \/ Save17b \/ Save17e \/ UpDone
      <4>1. disk' = mem /\ pc \in UpPoints
        BY <3>2, Starts DEF Save17, Save17b, Save17e, UpDone, SaveAnd, UpPoints, OnboardPoints
      <4>2. CASE Save17e
        <5>1. pc = "save17e" BY <4>2, Starts
        <5>2. pc \in FromVeMgmt \ {"veMgmt"}
          BY <5>1 DEF FromVeMgmt, FromVeSg, FromPem, FromKey, FromJh, FromSsh, FromEice, FromRole, UpPoints
        <5>3. mem["veMgmt"] # None BY <5>2 DEF VeBuilt
        <5>4. QED BY <3>0, <4>1, <5>3
      <4>3. CASE ~Save17e
        <5>1. disk["veMgmt"] = None BY <3>0, <4>1 DEF Loaded
        <5>2. pc \notin {"veWait", "save17e"} BY <3>2, <4>3, Starts
        <5>3. QED BY <1>0, <2>2, <5>1, <5>2
      <4>4. QED BY <4>2, <4>3
    <3>3. CASE LoseFiles BY <1>0, <3>3 DEF LoseFiles, Fault
    <3>4. CASE Save17eDown \/ Save17bDown \/ DownDone
      <4>1. pc \in PastMgmt BY <3>4, Starts DEF PastMgmt, PastVe, DownPoints
      <4>2. QED BY <3>1, <4>1
    <3>5. CASE disk' = disk
      <4>1. CASE pc \notin {"veWait", "save17e"} BY <1>0, <2>2, <3>0, <3>5, <4>1
      <4>2. CASE pc \in {"veWait", "save17e"}
        <5>1. CASE Abort BY <1>0, <5>1 DEF Abort, Fault
        <5>2. CASE Outside BY <3>0, <4>2, <5>2 DEF Outside
        <5>3. CASE VeWait
          <6>1. pc = "veWait" BY <5>3, Starts
          <6>2. pc \in FromVe
            BY <6>1 DEF FromVe, FromVeExt, FromVeMgmt, FromVeSg, FromPem, FromKey, FromJh, FromSsh,
              FromEice, FromRole, UpPoints
          <6>3. mem["ve"] \in Alive("ve") BY <6>2 DEF VeBuilt
          <6>4. status[<<"ve", mem["ve"]>>] \in {"creating", "ready"} BY <6>3 DEF Alive
          <6>5. pc' = "save17e" BY <5>3, <6>4 DEF VeWait, Waited, Go, Goto
          <6>6. QED BY <3>0, <6>5
        <5>4. CASE Save17e BY <3>2, <5>4
        <5>5. VeWait \/ Save17e \/ Abort \/ Outside
          BY <4>2, Starts, Apart DEF Next, UpStep, OnboardStep, DownStep, StartUp, StartDown, LoseFiles,
            LoseHost, At, DownPoints, UpPoints
        <5>6. QED BY <5>1, <5>2, <5>3, <5>4, <5>5
      <4>3. QED BY <4>1, <4>2
    <3>6. QED BY <3>2, <3>3, <3>4, <3>5, Frames
  <2>8. pc' \in {"veEnding", "veMgmtDown"} /\ mem'["veMgmt"] = None => faults' > 1
    <3>0. SUFFICES ASSUME pc' \in {"veEnding", "veMgmtDown"}, mem'["veMgmt"] = None
                   PROVE faults' > 1
      OBVIOUS
    <3>1. CASE Outside /\ pc' = pc
      <4>1. mem' = mem BY <3>1 DEF Outside
      <4>2. QED BY <1>0, <2>2, <3>0, <3>1, <4>1
    <3>2. CASE VeEnded
      <4>1. pc = "veEnding" /\ mem' = mem BY <3>2, Starts DEF VeEnded, Terminated, Go
      <4>2. QED BY <1>0, <2>2, <3>0, <4>1
    <3>3. CASE VeEnd
      <4>1. pc = "veEnd" BY <3>3, Starts
      <4>2. PICK q \in Ref : /\ Aim("ve", Alive("ve"), q)
                             /\ IF q \in Alive("ve") THEN Become(<<"ve", q>>, "deleting") ELSE UNCHANGED status
        BY <3>3 DEF VeEnd, Terminate
      <4>3. q \notin Alive("ve")
        <5>1. SUFFICES ASSUME q \in Alive("ve") PROVE FALSE OBVIOUS
        <5>2. q \in Runs /\ Become(<<"ve", q>>, "deleting") BY <4>2, <5>1
        <5>3. q \notin Alive("ve")' /\ \A a \in Runs \ {q} : a \in Alive("ve")' => a \in Alive("ve")
          BY <5>2, Turned DEF States
        <5>4. \A a \in Alive("ve") : a = q BY <2>4, <5>1
        <5>5. Alive("ve")' \subseteq Runs BY DEF Alive
        <5>6. QED BY <1>2, <5>3, <5>4, <5>5
      <4>4. mem'["veMgmt"] = mem["veMgmt"] BY <1>1, <4>2 DEF Aim, Set
      <4>5. mem["ve"] = None
        <5>1. mem["veMgmt"] = None BY <3>0, <4>4
        <5>2. QED BY <4>1, <5>1 DEF Paired
      <4>6. Fault BY <1>5, <4>2, <4>3, <4>5 DEF Aim, Dropped
      <4>7. disk["veMgmt"] = None BY <3>0, <4>1, <4>4 DEF Paired
      <4>8. faults > 0 BY <2>2, <4>1, <4>7
      <4>9. QED BY <1>0, <4>6, <4>8 DEF Fault
    <3>4. CASE VeMgmtDown
      <4>1. pc' = "veExtDown" BY <3>4 DEF VeMgmtDown, EniDown, Pinned, Goto
      <4>2. QED BY <3>0, <4>1
    <3>5. QED BY <2>3, <3>0, <3>1, <3>2, <3>3, <3>4, Flow, DownArrivals
  <2>9. pc' \in PastMgmt => faults' > 2
    <3>0. SUFFICES ASSUME pc' \in PastMgmt PROVE faults' > 2 OBVIOUS
    <3>1. CASE pc \in PastMgmt BY <1>0, <2>2, <3>1
    <3>2. CASE VeMgmtDown
      <4>1. pc = "veMgmtDown" BY <3>2, Starts
      <4>2. PICK q \in Ref : /\ Aim("veMgmt", Has("veMgmt"), q)
                             /\ q \in Has("veMgmt") => HostOf(<<"veMgmt", q>>) = {} \/ ~Pinned(<<"veMgmt", q>>)
        BY <3>2 DEF VeMgmtDown, EniDown
      <4>3. q \notin Has("veMgmt")
        <5>1. HostOf(<<"veMgmt", m>>) # {} BY <2>1, Free
        <5>2. QED BY <2>5, <4>2, <5>1 DEF Pinned
      <4>4. mem["veMgmt"] = None /\ Fault
        <5>1. q # m BY <2>1, <4>3
        <5>2. mem["veMgmt"] # None => q = mem["veMgmt"] BY <4>2 DEF Aim
        <5>3. mem["veMgmt"] = None BY <2>6, <5>1, <5>2
        <5>4. QED BY <2>1, <4>2, <4>3, <5>3 DEF Aim, Dropped
      <4>5. faults > 1 BY <2>2, <4>1, <4>4
      <4>6. QED BY <1>0, <4>4, <4>5 DEF Fault
    <3>3. CASE Outside /\ pc' = pc BY <3>0, <3>1, <3>3
    <3>4. QED BY <2>3, <3>0, <3>1, <3>2, <3>3, Flow, DownOnward
  <2>10. pc' \in PastVeSg => faults' > 3
    <3>0. SUFFICES ASSUME pc' \in PastVeSg PROVE faults' > 3 OBVIOUS
    <3>1. CASE pc \in PastVeSg BY <1>0, <2>2, <3>1
    <3>2. CASE VeSgDown
      <4>1. pc = "veSgDown" BY <3>2, Starts
      <4>2. PICK q \in Ref : /\ Aim("veSg", Has("veSg"), q)
                             /\ q \in Has("veSg") => ~VeSgInUse
        BY <3>2 DEF VeSgDown
      <4>3. q \notin Has("veSg") BY <2>1, <4>2 DEF VeSgInUse
      <4>4. PICK g \in Has("veSg") : TRUE BY <2>1 DEF Held
      <4>5. mem["veSg"] \in {None, g} BY DEF Records
      <4>6. mem["veSg"] = None /\ Fault
        <5>1. mem["veSg"] # None => q = mem["veSg"] BY <4>2 DEF Aim
        <5>2. mem["veSg"] = None BY <4>3, <4>5, <5>1
        <5>3. QED BY <4>2, <4>3, <4>4, <5>2 DEF Aim, Dropped
      <4>7. pc \in PastMgmt BY <4>1 DEF PastMgmt, PastVe, DownPoints
      <4>8. QED BY <1>0, <2>2, <4>6, <4>7 DEF Fault
    <3>3. CASE Outside /\ pc' = pc BY <3>0, <3>1, <3>3
    <3>4. QED BY <2>3, <3>0, <3>1, <3>2, <3>3, Flow, DownOnward
  <2>11. QED BY <2>7, <2>8, <2>9, <2>10
<1>6. QED BY <1>3, <1>4, <1>5

LEMMA HeldStep ==
  ASSUME TypeOK, Control, Plain, Single, Records, Attached, Held, Sight, Built, Next
  PROVE Held'
<1> USE Sorts, UniqueKinds
<1>0. faults > 2 => faults' > 2 BY FaultCount
<1>1. \A a, b \in Has("veMgmt") : a = b BY DEF Single
<1>2. ASSUME Wired PROVE Has("ve") = {}
  <2>1. ASSUME NEW r \in Has("ve") PROVE FALSE
    <3>1. PICK m \in Has("veMgmt") : << <<"veMgmt", m>>, <<"ve", r>> >> \in att BY DEF Held
    <3>2. m = mem["veMgmt"] BY <1>1, <1>2 DEF Wired
    <3>3. QED BY <1>2, <3>1, <3>2 DEF Wired
  <2>2. QED BY <2>1
<1>3. ASSUME Wired, NEW q, q = run
      PROVE /\ mem["veMgmt"] \in Has("veMgmt")' /\ mem["veExt"] \in Has("veExt")'
            /\ OnHost(<<"ve", q>>)' = {<<"veMgmt", mem["veMgmt"]>>, <<"veExt", mem["veExt"]>>}
            /\ << <<"veMgmt", mem["veMgmt"]>>, <<"ve", q>> >> \in att'
  <2>1. Only("ve") BY <1>3, OnlyThat DEF Wired
  <2>2. Has("veMgmt")' = Has("veMgmt") /\ Has("veExt")' = Has("veExt")
    BY <2>1 DEF Only, Has
  <2>3. \A a \in att : a[2] # <<"ve", q>>
    <3>1. SUFFICES ASSUME NEW a \in att, a[2] = <<"ve", q>> PROVE FALSE OBVIOUS
    <3>2. a[2] # Node BY <3>1 DEF Node
    <3>3. a[2][1] = "ve" /\ a[2][2] = q BY <3>1
    <3>4. a[2][2] \in Has(a[2][1]) BY <3>2 DEF Attached
    <3>5. QED BY <1>2, <1>3, <3>3, <3>4
  <2>4. att' = att \cup {<< <<"veMgmt", mem["veMgmt"]>>, <<"ve", q>> >>,
                         << <<"veExt", mem["veExt"]>>, <<"ve", q>> >>}
    BY <1>3 DEF Wired
  <2>5. {b \in att' : b[2] = <<"ve", q>>} = {<< <<"veMgmt", mem["veMgmt"]>>, <<"ve", q>> >>,
                         << <<"veExt", mem["veExt"]>>, <<"ve", q>> >>}
    BY <2>3, <2>4
  <2>6. OnHost(<<"ve", q>>)' = {<<"veMgmt", mem["veMgmt"]>>, <<"veExt", mem["veExt"]>>}
    <3>1. OnHost(<<"ve", q>>)' = {a[1] : a \in {b \in att' : b[2] = <<"ve", q>>}}
      BY DEF OnHost
    <3>2. ASSUME NEW x, NEW y PROVE {a[1] : a \in {x, y}} = {x[1], y[1]} OBVIOUS
    <3> DEFINE M == << <<"veMgmt", mem["veMgmt"]>>, <<"ve", q>> >>
               X == << <<"veExt", mem["veExt"]>>, <<"ve", q>> >>
    <3>3. OnHost(<<"ve", q>>)' = {M[1], X[1]} BY <2>5, <3>1, <3>2
    <3>4. QED BY <3>3
  <2>7. QED BY <1>3, <2>2, <2>4, <2>6 DEF Wired
<1>4. ASSUME NEW n \in {"jh", "ve"}, NEW r \in Has(n)', r \notin Has(n), n = "ve" PROVE Wired /\ r = run
  <2>1. VeLaunch /\ r = run BY <1>4, HostHas DEF Launch
  <2>2. UNCHANGED status => Has("ve")' = Has("ve") BY DEF Has
  <2>3. QED BY <1>4, <2>1, <2>2, VeLaunchIs DEF cloud
<1>5. ASSUME NEW r \in Has("ve")'
      PROVE \E m \in Has("veMgmt")' : << <<"veMgmt", m>>, <<"ve", r>> >> \in att'
  <2>1. CASE r \notin Has("ve") BY <1>3, <1>4, <1>5, <2>1
  <2>2. CASE r \in Has("ve")
    <3>1. PICK m \in Has("veMgmt") : << <<"veMgmt", m>>, <<"ve", r>> >> \in att BY <2>2 DEF Held
    <3>2. m \in Has("veMgmt")' BY <3>1, MgmtStays
    <3>3. << <<"veMgmt", m>>, <<"ve", r>> >> \in att'
      <4>1. CASE Outside /\ \E x \in Id : Gone(x)
        <5>1. PICK x \in Id : Gone(x) BY <4>1
        <5>2. x # <<"ve", r>>
          <6>1. SUFFICES ASSUME x = <<"ve", r>> PROVE FALSE OBVIOUS
          <6>2. r \in Runs /\ Become(<<"ve", r>>, "none") BY <2>2, <5>1, <6>1 DEF Gone
          <6>3. r \notin Has("ve")' BY <6>2, Turned DEF States
          <6>4. QED BY <1>5, <6>3
        <5>3. att' = {a \in att : a[2] # x} BY <5>1 DEF Gone
        <5>4. QED BY <3>1, <5>2, <5>3
      <4>2. CASE Detached("veExt") \/ Detached("jhEni") \/ Detached("tmm") BY <3>1, <4>2 DEF Detached
      <4>3. CASE UNCHANGED att \/ TmmHung \/ JhEniHung \/ Wired BY <3>1, <4>3 DEF TmmHung, JhEniHung, Wired
      <4>4. QED BY <4>1, <4>2, <4>3, Hangings
    <3>4. QED BY <3>2, <3>3
  <2>3. QED BY <2>1, <2>2
<1>6. Has("veMgmt")' # {} => Has("veSg")' # {}
  <2>0. SUFFICES ASSUME Has("veMgmt")' # {} PROVE Has("veSg")' # {} OBVIOUS
  <2>1. CASE Born("veMgmt")
    <3>1. VeMgmt
      <4>1. PICK r \in Runs : status'[<<"veMgmt", r>>] # status[<<"veMgmt", r>>]
        <5>1. run \in Runs /\ Become(<<"veMgmt", run>>, "ready") /\ Has("veMgmt") = {} BY <2>1 DEF Born
        <5>2. status'[<<"veMgmt", run>>] = "ready" BY <5>1, Become_
        <5>3. status[<<"veMgmt", run>>] = "none" BY <5>1 DEF Has
        <5>4. QED BY <5>1, <5>2, <5>3
      <4>2. Concerns("veMgmt") BY <4>1, Untouched
      <4>3. pc \in UpPoints BY <2>1 DEF Born
      <4>4. ~VeMgmtDown BY <4>3, Starts, Apart DEF DownPoints
      <4>5. QED BY <4>2, <4>4 DEF Concerns
    <3>2. Has("veMgmt") = {} /\ run \in Runs BY <2>1 DEF Born
    <3>3. ~UNCHANGED status BY <2>0, <3>2 DEF Has
    <3>4. mem["veSg"] \in Has("veSg") BY <3>1, <3>3 DEF VeMgmt, Reuse, Fail, cloud
    <3>5. Only("veMgmt") BY <2>1, OnlyThat DEF Born
    <3>6. Has("veSg")' = Has("veSg") BY <3>5 DEF Only, Has
    <3>7. QED BY <3>4, <3>6
  <2>2. CASE Has("veMgmt") # {}
    <3>1. PICK g \in Has("veSg") : TRUE BY <2>2 DEF Held
    <3>2. CASE VeSgDown
      <4>1. UNCHANGED status BY <2>2, <3>2 DEF VeSgDown, VeSgInUse, cloud
      <4>2. QED BY <3>1, <4>1 DEF Has
    <3>3. CASE VeSg
      <4>1. \A p : New("veSg", "ready", p) => UNCHANGED status BY <3>1 DEF New, cloud
      <4>2. UNCHANGED status BY <3>3, <4>1 DEF VeSg, Reuse, cloud
      <4>3. QED BY <3>1, <4>2 DEF Has
    <3>4. CASE \A r \in Runs : status'[<<"veSg", r>>] = status[<<"veSg", r>>] BY <3>1, <3>4, Same
    <3>5. QED BY <3>2, <3>3, <3>4, Untouched DEF Concerns
  <2>3. QED BY <2>0, <2>1, <2>2, HasFate
<1>7. ASSUME ~(faults' > 2), NEW r \in Alive("ve")'
      PROVE \E m \in Has("veMgmt")', e \in Has("veExt")' :
              OnHost(<<"ve", r>>)' = {<<"veMgmt", m>>, <<"veExt", e>>}
  <2>0. r \in Has("ve")' BY <1>7 DEF Alive, Has
  <2>1. CASE r \notin Has("ve")
    <3>1. Wired /\ r = run BY <1>4, <2>0, <2>1
    <3>2. QED BY <1>3, <3>1
  <2>2. CASE r \in Has("ve")
    <3>1. r \in Alive("ve")
      <4>1. ~Wired BY <1>2, <2>2
      <4>2. r \in Alive("ve") \/ VeLaunch BY <1>7, HostHas DEF Launch
      <4>3. UNCHANGED status => Alive("ve")' = Alive("ve") BY DEF Alive
      <4>4. QED BY <1>7, <4>1, <4>2, <4>3, VeLaunchIs DEF cloud
    <3>2. ~(faults > 2) BY <1>0, <1>7
    <3>3. PICK m \in Has("veMgmt"), e \in Has("veExt") : OnHost(<<"ve", r>>) = {<<"veMgmt", m>>, <<"veExt", e>>}
      BY <3>1, <3>2 DEF Held, Unseen
    <3>4. << <<"veMgmt", m>>, <<"ve", r>> >> \in att /\ << <<"veExt", e>>, <<"ve", r>> >> \in att
      <4>1. <<"veMgmt", m>> \in OnHost(<<"ve", r>>) /\ <<"veExt", e>> \in OnHost(<<"ve", r>>) BY <3>3
      <4>2. PICK a \in att : a[2] = <<"ve", r>> /\ a[1] = <<"veMgmt", m>> BY <4>1 DEF OnHost
      <4>3. PICK b \in att : b[2] = <<"ve", r>> /\ b[1] = <<"veExt", e>> BY <4>1 DEF OnHost
      <4>4. a = <<a[1], a[2]>> /\ b = <<b[1], b[2]>> BY Ends
      <4>5. QED BY <4>2, <4>3, <4>4
    <3>5. m \in Has("veMgmt")' BY <3>4, MgmtStays
    <3>6. e \in Has("veExt")'
      <4>1. CASE VeExtDown
        <5>1. HostOf(<<"veExt", e>>) # {} BY <3>4, Free
        <5>2. \A q \in Has("veExt") : q = e BY DEF Single
        <5>3. UNCHANGED status BY <4>1, <5>1, <5>2 DEF VeExtDown, EniDown, OnlyAtt, cloud
        <5>4. QED BY <5>3 DEF Has
      <4>2. CASE VeExtCreate
        <5>1. \A p : New("veExt", "ready", p) => UNCHANGED status BY DEF New, cloud
        <5>2. UNCHANGED status BY <4>2, <5>1 DEF VeExtCreate
        <5>3. QED BY <5>2 DEF Has
      <4>3. CASE \A q \in Runs : status'[<<"veExt", q>>] = status[<<"veExt", q>>] BY <4>3, Same
      <4>4. QED BY <4>1, <4>2, <4>3, Untouched DEF Concerns
    <3>7. {b \in att' : b[2] = <<"ve", r>>} = {b \in att : b[2] = <<"ve", r>>}
      <4>1. CASE Outside /\ \E x \in Id : Gone(x)
        <5>1. PICK x \in Id : Gone(x) BY <4>1
        <5>2. x # <<"ve", r>> BY <3>1, <5>1 DEF Gone, Alive
        <5>3. att' = {a \in att : a[2] # x} BY <5>1 DEF Gone
        <5>4. QED BY <5>2, <5>3
      <4>2. CASE Detached("jhEni") \/ Detached("tmm")
        <5>0. PICK n \in {"jhEni", "tmm"} : Detached(n) BY <4>2
        <5>1. PICK q \in Has(n) : att' = {a \in att : a[1] # <<n, q>>} BY <5>0 DEF Detached
        <5>2. ASSUME NEW a \in att, a[1] = <<n, q>> PROVE a[2] # <<"ve", r>> BY <5>2 DEF Attached, HostKind
        <5>3. QED BY <5>1, <5>2
      <4>3. CASE VeExtDown
        <5>1. pc \in PastMgmt BY <4>3, Starts DEF PastMgmt, PastVe, DownPoints
        <5>2. QED BY <3>1, <3>2, <5>1 DEF Sight, Unseen
      <4>4. CASE UNCHANGED att BY <4>4
      <4>5. CASE TmmHung \/ JhEniHung BY <4>5 DEF TmmHung, JhEniHung, Node
      <4>6. CASE Wired BY <1>2, <2>2, <4>6
      <4>7. QED BY <4>1, <4>2, <4>3, <4>4, <4>5, <4>6, Hangings
    <3>8. OnHost(<<"ve", r>>)' = OnHost(<<"ve", r>>)
      <4>1. OnHost(<<"ve", r>>)' = {a[1] : a \in {b \in att' : b[2] = <<"ve", r>>}} BY DEF OnHost
      <4>2. OnHost(<<"ve", r>>) = {a[1] : a \in {b \in att : b[2] = <<"ve", r>>}} BY DEF OnHost
      <4>3. QED BY <3>7, <4>1, <4>2
    <3>9. QED BY <3>3, <3>5, <3>6, <3>8
  <2>3. QED BY <2>1, <2>2
<1>8. QED BY <1>5, <1>6, <1>7 DEF Held, Unseen

LEMMA VeStays == ASSUME TypeOK, Control, Plain, Next, NEW r \in Alive("ve")'
  PROVE r \in Alive("ve") \/ (Wired /\ r = run)
<1>1. UNCHANGED status => Alive("ve")' = Alive("ve") BY DEF Alive
<1>2. QED BY <1>1, HostHas, VeLaunchIs DEF Launch, cloud

LEMMA PairStep ==
  ASSUME TypeOK, Control, Plain, Single, Records, Attached, Held, Sight, Pair, Next
  PROVE Pair'
<1> USE Sorts
<1>0. faults > 3 => faults' > 3 BY FaultCount
<1>1. pc' = "pem" => key' = run'
  <2>1. CASE KeyCreate
    <3>1. pc # "idle" BY <2>1, Starts
    <3>2. QED BY <2>1, <3>1, CommandStep DEF KeyCreate
  <2>2. CASE Outside /\ pc' = pc
    BY <2>2 DEF Outside, AccountStep, Settles, Gone, As3Settles, Reverts, OnlyBox, OnlyStatus, Pair
  <2>3. QED BY <2>1, <2>2, Flow, Arrivals, Apart DEF DownPoints, UpPoints, OnboardPoints
<1>2. pc' \in FromPem => key' # None
  <2>0. SUFFICES ASSUME pc' \in FromPem PROVE key' # None OBVIOUS
  <2>1. FromPem \subseteq UpPoints /\ "tmm" \notin FromPem /\ {"key", "keyCreate"} \cap FromPem = {}
    BY DEF FromPem, FromKey, FromJh, FromSsh, FromEice, FromRole, UpPoints, OnboardPoints
  <2>2. CASE KeyCreate
    <3>1. pc \in UpPoints BY <2>2, Starts DEF UpPoints
    <3>2. run \in Runs BY <3>1 DEF Control
    <3>3. QED BY <2>2, <3>2, RefFacts DEF KeyCreate
  <2>3. CASE KeyReuse BY <2>3 DEF KeyReuse, cloud
  <2>4. CASE pc \in FromPem
    <3>1. ~KeyReplace /\ ~KeyCreate /\ ~KeyDown BY <2>1, <2>4, Starts, Apart DEF DownPoints
    <3>2. key # None BY <2>4 DEF Pair
    <3>3. QED BY <3>1, <3>2, Frames
  <2>5. QED BY <2>0, <2>1, <2>2, <2>3, <2>4, Flow, Onward, Apart DEF DownPoints
<1>3. pc' \in PastKey => key' = None
  <2>0. SUFFICES ASSUME pc' \in PastKey PROVE key' = None OBVIOUS
  <2>1. PastKey \subseteq DownPoints /\ "veEnd" \notin PastKey
    BY DEF PastKey, PastVeSg, PastExt, PastMgmt, PastVe
  <2>2. CASE KeyDown BY <2>2 DEF KeyDown
  <2>3. CASE pc \in PastKey
    <3>1. ~KeyReplace /\ ~KeyCreate BY <2>1, <2>3, Starts, Apart DEF UpPoints
    <3>2. key = None BY <2>3 DEF Pair
    <3>3. QED BY <2>2, <3>1, <3>2, Frames
  <2>4. QED BY <2>0, <2>1, <2>2, <2>3, Flow, DownOnward, Apart DEF DownPoints, UpPoints
<1>4. ~pemLost' => ~pemLost BY Frames DEF Abort, LoseFiles
<1>5. ASSUME ~pemLost'
      PROVE /\ key' # None /\ pc' # "pem" => pem' = key'
            /\ faults' > 3 \/ \A r \in Alive("ve")' : veKey'[r] = key' /\ pem' = key' /\ key' # None
  <2>1. /\ key # None /\ pc # "pem" => pem = key
        /\ faults > 3 \/ \A r \in Alive("ve") : veKey[r] = key /\ pem = key /\ key # None
    BY <1>4, <1>5 DEF Pair, Orphaned
  <2>2. ~KeyReplace
    <3>1. SUFFICES ASSUME KeyReplace PROVE FALSE OBVIOUS
    <3>2. pc = "key" /\ key # None /\ pem = None BY <3>1, Starts DEF KeyReplace
    <3>3. QED BY <2>1, <3>2
  <2>3. ~LoseFiles BY <1>5 DEF LoseFiles
  <2>4. CASE KeyCreate
    <3>1. pc' = "pem" /\ key = None /\ UNCHANGED status
      BY <2>4 DEF KeyCreate, Go, Goto, OnlyKey
    <3>2. Alive("ve")' = Alive("ve") BY <3>1 DEF Alive
    <3>3. QED BY <1>0, <2>1, <3>1, <3>2
  <2>5. CASE PemWrite
    <3>1. pc = "pem" /\ pem' = run /\ UNCHANGED <<cloud, faults>> BY <2>5, Starts DEF PemWrite, Told
    <3>2. key = run BY <3>1 DEF Pair
    <3>3. Alive("ve")' = Alive("ve") /\ key' = key /\ veKey' = veKey BY <3>1 DEF Alive, cloud
    <3>4. QED BY <2>1, <3>1, <3>2, <3>3
  <2>6. CASE KeyDown
    <3>1. pc \in PastVeSg BY <2>6, Starts DEF PastVeSg, PastExt, PastMgmt, PastVe, DownPoints
    <3>2. faults > 3 \/ Alive("ve") = {} BY <3>1 DEF Sight, Orphaned
    <3>3. key' = None /\ UNCHANGED status BY <2>6 DEF KeyDown, OnlyKey
    <3>4. Alive("ve")' = Alive("ve") BY <3>3 DEF Alive
    <3>5. QED BY <1>0, <3>2, <3>3, <3>4
  <2>7. CASE PemDown
    <3>1. pc \in PastVeSg /\ pc \in PastKey
      BY <2>7, Starts DEF PastKey, PastVeSg, PastExt, PastMgmt, PastVe, DownPoints
    <3>2. faults > 3 \/ Alive("ve") = {} BY <3>1 DEF Sight, Orphaned
    <3>3. key = None /\ key' = key /\ UNCHANGED status BY <2>7, <3>1 DEF PemDown, Pair, cloud
    <3>4. Alive("ve")' = Alive("ve") BY <3>3 DEF Alive
    <3>5. QED BY <1>0, <3>2, <3>3, <3>4
  <2>8. CASE Abort
    <3>1. pc # "pem" /\ pem' = pem /\ UNCHANGED cloud BY <1>5, <2>8 DEF Abort, At
    <3>2. Alive("ve")' = Alive("ve") /\ key' = key /\ veKey' = veKey BY <3>1 DEF Alive, cloud
    <3>3. QED BY <1>0, <2>1, <3>1, <3>2
  <2>9. CASE Wired
    <3>1. pc \in FromPem /\ pc # "pem"
      <4>1. pc = "ve" BY <2>9, Starts DEF Wired
      <4>2. QED BY <4>1 DEF FromPem, FromKey, FromJh, FromSsh, FromEice, FromRole, UpPoints
    <3>2. key # None BY <3>1 DEF Pair
    <3>3. pem = key BY <2>1, <3>1, <3>2
    <3>4. pem' = pem /\ key' = key /\ veKey' = [veKey EXCEPT ![run] = key] /\ run \in Runs
      BY <2>9 DEF Wired, files
    <3>5. veKey \in [Runs -> Ref] BY DEF TypeOK, AccountTypeOK
    <3>6. ASSUME NEW r \in Alive("ve")', ~(faults > 3) PROVE veKey'[r] = key'
      <4>1. r \in Alive("ve") \/ r = run BY <3>6, VeStays
      <4>2. r \in Runs BY <3>6 DEF Alive
      <4>3. CASE r = run BY <3>4, <3>5, <4>2, <4>3
      <4>4. CASE r # run BY <2>1, <3>4, <3>5, <3>6, <4>1, <4>2, <4>4
      <4>5. QED BY <4>3, <4>4
    <3>7. QED BY <1>0, <3>2, <3>3, <3>4, <3>6
  <2>10. CASE ~KeyCreate /\ ~PemWrite /\ ~KeyDown /\ ~PemDown /\ ~Abort /\ ~Wired
    <3>1. key' = key /\ pem' = pem BY <2>2, <2>3, <2>10, Frames
    <3>2. pc' = "pem" => pc = "pem"
      BY <2>10, Flow, Arrivals, Apart DEF DownPoints, UpPoints, OnboardPoints
    <3>3. key' # None /\ pc' # "pem" => pem' = key'
      <4>1. CASE pc # "pem" BY <2>1, <3>1, <4>1
      <4>2. CASE pc = "pem" /\ pc' # "pem"
        <5>1. UpMove \/ DownStep => PemWrite
          BY <4>2, Starts DEF UpMove, UpStep, OnboardStep, DownStep
        <5>2. ~StartUp /\ ~StartDown /\ ~LoseHost /\ ~Outside
          BY <4>2 DEF StartUp, StartDown, LoseHost, Outside, At
        <5>3. QED BY <2>3, <2>10, <5>1, <5>2 DEF Next, UpMove
      <4>3. QED BY <4>1, <4>2
    <3>4. ASSUME NEW r \in Alive("ve")', ~(faults' > 3) PROVE veKey'[r] = key' /\ pem' = key' /\ key' # None
      <4>1. r \in Alive("ve") BY <2>10, <3>4, VeStays
      <4>2. veKey[r] = key /\ pem = key /\ key # None BY <1>0, <2>1, <3>4, <4>1
      <4>3. veKey'[r] = veKey[r]
        <5>1. CASE VeLaunch BY <2>10, <5>1, VeLaunchIs DEF cloud
        <5>2. CASE Outside /\ \E x \in Id : Gone(x)
          <6>1. PICK x \in Id : Gone(x) BY <5>2
          <6>2. x # <<"ve", r>> BY <4>1, <6>1 DEF Gone, Alive
          <6>3. veKey \in [Runs -> Ref] BY DEF TypeOK, AccountTypeOK
          <6>4. x[1] = "ve" => x[2] # r BY <6>2
          <6>5. QED BY <6>1, <6>3, <6>4 DEF Gone
        <5>3. CASE Outside /\ ~ \E x \in Id : Gone(x)
          BY <5>3 DEF Outside, AccountStep, Settles, As3Settles, Reverts, OnlyBox, OnlyStatus
        <5>4. QED BY <5>1, <5>2, <5>3, Frames
      <4>4. QED BY <3>1, <4>2, <4>3
    <3>5. QED BY <3>3, <3>4
  <2>11. QED BY <2>4, <2>5, <2>6, <2>7, <2>8, <2>9, <2>10
<1>6. QED BY <1>1, <1>2, <1>3, <1>5 DEF Pair, Orphaned

-----------------------------------------------------------------------------
(* What an `up` makes stays while it runs.                                  *)

\* The steps that configure something, by what they configure.
LEMMA Configured == ASSUME TypeOK, Next
  PROVE /\ conf \subseteq conf' \/ DownStep
        /\ conf' \subseteq conf \/ TmmOff \/ Ssh \/ JhEniOff \/ VeRules \/ VeExtFound \/ VeExtOff
<1>1. CASE TmmOff \/ Ssh \/ JhEniOff \/ VeRules \/ VeExtFound \/ VeExtOff
  BY <1>1 DEF TmmOff, Ssh, JhEniOff, VeRules, VeExtFound, VeExtOff, Configure, Fail, cloud
<1>2. CASE VeMgmtDown \/ VeExtDown \/ VeSgDown \/ JhEniDown \/ JhSgRefs \/ JhSgDown \/ TmmOwn \/ TmmTagged
  <2>1. DownStep BY <1>2 DEF DownStep
  <2>2. \A x : Remove(x) => conf' \subseteq conf BY DEF Remove
  <2>3. conf' \subseteq conf
    BY <1>2, <2>2 DEF VeMgmtDown, VeExtDown, VeSgDown, JhEniDown, JhSgRefs, JhSgDown, TmmOwn, TmmTagged,
       EniDown, TmmDrop, OnlyAtt, cloud
  <2>4. QED BY <2>1, <2>3
<1>3. QED BY <1>1, <1>2, Frames

LEMMA UpKeeps == ASSUME TypeOK, Control, Plain, Built, Next, pc \in UpPoints, pc' # "idle"
  PROVE /\ UpMove \/ (Outside /\ pc' = pc)
        /\ \A n \in Kinds \ {"jh", "ve", "eice"} : Has(n) \subseteq Has(n)'
        /\ \A n \in {"jh", "ve"} : Alive(n) \subseteq Alive(n)'
        /\ conf \subseteq conf'
        /\ \A a \in att : a[2] = Node => a \in att'
<1>1. ~DownStep /\ ~LoseHost BY Origins, Apart DEF LoseHost, At
<1>2. \A n \in Kinds \ {"jh", "ve", "eice"} : Has(n) \subseteq Has(n)' BY <1>1, HasFate
<1>3. ASSUME NEW n \in {"jh", "ve"} PROVE Alive(n) \subseteq Alive(n)'
  <2>1. ~EndOf(n) BY <1>1 DEF EndOf, DownStep
  <2>2. QED BY <1>1, <2>1, HostHas DEF Ended
<1>4. conf \subseteq conf' BY <1>1, Configured
<1>5. \A a \in att : a[2] = Node => a \in att'
  <2>1. CASE \E x \in Id : Gone(x)
    <3>1. Node \notin Id BY DEF Node, Id, Kinds, EniKinds, HostKinds
    <3>2. QED BY <2>1, <3>1 DEF Gone
  <2>2. QED BY <1>1, <2>1, Hangings DEF TmmHung, JhEniHung, Wired, DownStep
<1>6. UpMove \/ (Outside /\ pc' = pc)
  <2>1. ~StartUp /\ ~StartDown BY Apart DEF StartUp, StartDown, At
  <2>2. QED BY <1>1, <2>1, Flow
<1>7. QED BY <1>2, <1>3, <1>4, <1>5, <1>6

LEMMA UpPlaces ==
  /\ FromRole \subseteq UpPoints /\ FromTmm \subseteq UpPoints /\ FromEice \subseteq UpPoints /\ FromSsh \subseteq UpPoints
  /\ FromJh \subseteq UpPoints /\ FromKey \subseteq UpPoints /\ FromPem \subseteq UpPoints /\ FromVeSg \subseteq UpPoints
  /\ FromVeMgmt \subseteq UpPoints /\ FromVeExt \subseteq UpPoints /\ FromVe \subseteq UpPoints
  /\ FromGate \subseteq UpPoints /\ OnboardPoints \subseteq UpPoints
  BY DEF FromRole, FromTmm, FromEice, FromSsh, FromJh, FromKey, FromPem, FromVeSg, FromVeMgmt, FromVeExt,
    FromVe, FromGate, UpPoints, OnboardPoints

\* A point of `up` is reached within it, but for the first.
LEMMA Within == ASSUME Next, pc' \in UpPoints
  PROVE pc' # "idle" /\ (pc' # "tmm" => pc \in UpPoints)
<1>1. pc' # "idle" /\ pc' # "veEnd" /\ pc' \notin DownPoints BY Apart DEF DownPoints
<1>2. QED BY <1>1, Flow

LEMMA Kept_ == ASSUME TypeOK, Control, Next, pc \in UpPoints, pc' # "idle", NEW n \in Kinds
  PROVE \/ mem'[n] = mem[n]
        \/ n = "tmm" /\ (TmmFound \/ TmmCreate)
        \/ n = "jhSg" /\ JhSg
        \/ n = "eice" /\ (EiceFound \/ EiceCreate \/ EiceReady)
        \/ n = "jh" /\ (JhFound \/ JhLaunch)
        \/ n = "jhEni" /\ JhEni
        \/ n = "veSg" /\ VeSg
        \/ n = "veMgmt" /\ VeMgmt
        \/ n = "veExt" /\ (VeExtFound \/ VeExtCreate)
        \/ n = "ve" /\ (VeFound \/ VeLaunch)
<1>0. n \in {"tmm", "jhSg", "eice", "jh", "jhEni", "veSg", "veMgmt", "veExt", "ve"} BY Sorts
<1>1. CASE Outside BY <1>1 DEF Outside
<1>2. CASE UpMove
  <2>1. ~DownStep BY Origins, Apart
  <2>2. ~DownDone /\ ~JhSgRefs /\ ~Save17bDown /\ ~EiceDown /\ ~JhEnd /\ ~JhEniDown /\ ~VeSgDown /\ ~Save17eDown
        /\ ~VeMgmtDown /\ ~VeExtDown /\ ~VeEnd
    BY <2>1 DEF DownStep
  <2>3. CASE n \in {"tmm", "jhSg", "eice"} BY <1>2, <2>2, <2>3, MemSteps
  <2>4. CASE n \in {"jh", "jhEni", "veSg"} BY <1>2, <2>2, <2>4, MemSteps
  <2>5. CASE n \in {"veMgmt", "veExt", "ve"} BY <1>2, <2>2, <2>5, MemSteps
  <2>6. QED BY <1>0, <2>3, <2>4, <2>5
<1>3. ~DownStep /\ ~StartUp /\ ~StartDown BY Origins, Apart DEF StartUp, StartDown, At
<1>4. QED BY <1>1, <1>2, <1>3, Flow

LEMMA TmmBuiltStep == ASSUME TypeOK, Control, Plain, Built, Next PROVE TmmBuilt'
<1> USE Sorts, UpPlaces
<1>0. mem \in [Keys -> Ref] BY DEF TypeOK
<1>1. pc' \in {"tmmOff", "tmmAttach"} => mem'["tmm"] # None
  <2>0. SUFFICES ASSUME pc' \in {"tmmOff", "tmmAttach"} PROVE mem'["tmm"] # None OBVIOUS
  <2>1. pc' \in UpPoints /\ pc' # "tmm" BY <2>0 DEF UpPoints
  <2>2. pc \in UpPoints /\ pc' # "idle" BY <2>1, Within
  <2>3. CASE TmmFound
    <3>1. PICK r \in Known("tmm") : Set("tmm", r) /\ r \in Has("tmm") BY <2>3 DEF TmmFound, Reuse
    <3>2. QED BY <1>0, <3>1, RefFacts DEF Set
  <2>4. CASE TmmCreate
    <3>1. run \in Runs BY <2>2 DEF Control
    <3>2. QED BY <1>0, <2>4, <3>1, RefFacts DEF TmmCreate, Create, Set
  <2>5. CASE pc \in {"tmmOff", "tmmAttach"} /\ ~TmmFound /\ ~TmmCreate
    <3>1. mem'["tmm"] = mem["tmm"] BY <2>2, <2>5, Kept_
    <3>2. QED BY <2>5, <3>1 DEF Built, TmmBuilt
  <2>6. CASE UpMove
    <3>1. TmmCreate \/ TmmFound \/ TmmOff BY <2>0, <2>6, Arrivals
    <3>2. TmmOff => pc = "tmmOff" /\ ~TmmFound /\ ~TmmCreate BY Starts
    <3>3. QED BY <2>3, <2>4, <2>5, <3>1, <3>2
  <2>7. CASE Outside /\ pc' = pc
    <3>1. mem' = mem BY <2>7 DEF Outside
    <3>2. QED BY <2>0, <2>7, <3>1 DEF Built, TmmBuilt
  <2>8. QED BY <2>2, <2>6, <2>7, UpKeeps
<1>2. pc' \in FromTmm => << <<"tmm", mem'["tmm"]>>, Node >> \in att'
  <2>0. SUFFICES ASSUME pc' \in FromTmm PROVE << <<"tmm", mem'["tmm"]>>, Node >> \in att' OBVIOUS
  <2>1. pc' \in UpPoints /\ pc' # "tmm" BY <2>0 DEF FromTmm, FromRole, UpPoints, OnboardPoints
  <2>2. pc \in UpPoints /\ pc' # "idle" BY <2>1, Within
  <2>3. CASE TmmAttach
    <3>1. ~TmmFound /\ ~TmmCreate BY <2>3, Starts
    <3>2. mem'["tmm"] = mem["tmm"] BY <2>2, <3>1, Kept_
    <3>3. att' = att \cup {<< <<"tmm", mem["tmm"]>>, Node >>} BY <2>2, <2>3 DEF TmmAttach, Fail, Refuse, End
    <3>4. QED BY <3>2, <3>3
  <2>4. CASE pc \in FromTmm
    <3>1. ~TmmFound /\ ~TmmCreate BY <2>4, Starts DEF FromTmm, FromRole
    <3>2. mem'["tmm"] = mem["tmm"] BY <2>2, <3>1, Kept_
    <3>3. << <<"tmm", mem["tmm"]>>, Node >> \in att BY <2>4 DEF Built, TmmBuilt
    <3>4. << <<"tmm", mem["tmm"]>>, Node >>[2] = Node OBVIOUS
    <3>5. QED BY <2>2, <3>2, <3>3, <3>4, UpKeeps
  <2>5. QED BY <2>0, <2>2, <2>3, <2>4, UpKeeps, Onward
<1>3. QED BY <1>1, <1>2 DEF TmmBuilt

LEMMA JhBuiltStep == ASSUME TypeOK, Control, Plain, Built, Next PROVE JhBuilt'
<1> USE Sorts, UpPlaces
<1>0. mem \in [Keys -> Ref] BY DEF TypeOK
<1>1. pc' \in FromJh => mem'["jh"] \in Alive("jh")'
  <2>0. SUFFICES ASSUME pc' \in FromJh PROVE mem'["jh"] \in Alive("jh")' OBVIOUS
  <2>1. pc' \in UpPoints /\ pc' # "tmm"
    BY <2>0 DEF FromJh, FromSsh, FromEice, FromRole, UpPoints, OnboardPoints
  <2>2. pc \in UpPoints /\ pc' # "idle" BY <2>1, Within
  <2>3. CASE JhLaunch
    <3>1. run \in Runs BY <2>2 DEF Control
    <3>2. Become(<<"jh", run>>, "creating") /\ mem'["jh"] = run
      BY <1>0, <2>2, <2>3 DEF JhLaunch, Create, Set, Refuse, End
    <3>3. QED BY <3>1, <3>2, Turned DEF States
  <2>4. CASE JhFound
    <3>1. PICK r : /\ r \in (IF Running("jh") THEN {mem["jh"]} ELSE Alive("jh")) /\ Set("jh", r) /\ UNCHANGED status
      BY <2>4 DEF JhFound, HostFound, cloud
    <3>2. r \in Alive("jh")
      <4>1. Running("jh") => mem["jh"] \in Runs BY <1>0, RefFacts DEF Running
      <4>2. QED BY <3>1, <4>1 DEF Running, Alive
    <3>3. mem'["jh"] = r BY <1>0, <3>1 DEF Set
    <3>4. QED BY <3>1, <3>2, <3>3 DEF Alive
  <2>5. CASE pc \in FromJh
    <3>1. ~JhLaunch /\ ~JhFound BY <2>5, Starts DEF FromJh
    <3>2. mem'["jh"] = mem["jh"] BY <2>2, <3>1, Kept_
    <3>3. mem["jh"] \in Alive("jh") BY <2>5 DEF Built, JhBuilt
    <3>4. QED BY <2>2, <3>2, <3>3, UpKeeps
  <2>6. QED BY <2>0, <2>2, <2>3, <2>4, <2>5, UpKeeps, Onward
<1>2. pc' \in {"jhEniOff", "jhEniAttach"} => mem'["jhEni"] # None
  <2>0. SUFFICES ASSUME pc' \in {"jhEniOff", "jhEniAttach"} PROVE mem'["jhEni"] # None OBVIOUS
  <2>1. pc' \in UpPoints /\ pc' # "tmm" BY <2>0 DEF UpPoints
  <2>2. pc \in UpPoints /\ pc' # "idle" BY <2>1, Within
  <2>3. CASE JhEni
    <3>1. run \in Runs BY <2>2 DEF Control
    <3>2. pc' = "jhEniOff" BY <2>0, <2>3 DEF JhEni, Reuse, New, Create, Refuse, End, Goto
    <3>3. QED BY <1>0, <2>3, <3>1, <3>2, RefFacts DEF JhEni, Reuse, New, Create, Refuse, End, Goto, Set
  <2>4. CASE ~JhEni
    <3>1. pc \in {"jhEniOff", "jhEniAttach"}
      <4>1. CASE UpMove
        <5>1. JhEniOff BY <2>0, <2>4, <4>1, Arrivals
        <5>2. QED BY <5>1, Starts
      <4>2. QED BY <2>0, <2>2, <4>1, UpKeeps
    <3>2. mem'["jhEni"] = mem["jhEni"] BY <2>2, <2>4, Kept_
    <3>3. QED BY <3>1, <3>2 DEF Built, JhBuilt
  <2>5. QED BY <2>3, <2>4
<1>3. QED BY <1>1, <1>2 DEF JhBuilt

LEMMA VeBuiltStep == ASSUME TypeOK, Control, Plain, Built, Next PROVE VeBuilt'
<1> USE Sorts, UpPlaces, UniqueKinds
<1>0. mem \in [Keys -> Ref] BY DEF TypeOK
<1>1. VeBuilt /\ (pc \in UpPoints => run \in Runs) BY DEF Built, Control
<1>2. ASSUME NEW n \in Unique, NEW p, New(n, "ready", p), pc \in UpPoints, pc' # "idle"
      PROVE mem'[n] \in Has(n)' /\ mem'[n] # None
  <2>1. mem'[n] = run /\ Become(<<n, run>>, "ready") /\ run \in Runs
    BY <1>0, <1>1, <1>2 DEF New, Create, Set, Refuse, End
  <2>2. QED BY <2>1, Turned, RefFacts DEF States
<1>3. pc' = "veRules" => mem'["veSg"] \in Has("veSg")'
  <2>0. SUFFICES ASSUME pc' = "veRules" PROVE mem'["veSg"] \in Has("veSg")' OBVIOUS
  <2>1. pc \in UpPoints /\ pc' # "idle" BY <2>0, Within DEF UpPoints
  <2>2. CASE VeSg
    <3>1. New("veSg", "ready", "veRules") BY <2>0, <2>2 DEF VeSg, Reuse, Goto
    <3>2. QED BY <1>2, <2>1, <3>1
  <2>3. CASE Outside /\ pc' = pc
    <3>1. mem' = mem BY <2>3 DEF Outside
    <3>2. mem["veSg"] \in Has("veSg") BY <1>1, <2>0, <2>3 DEF VeBuilt
    <3>3. QED BY <2>1, <3>1, <3>2, UpKeeps
  <2>4. QED BY <2>0, <2>1, <2>2, <2>3, UpKeeps, Arrivals
<1>4. pc' \in FromVeExt => mem'["veExt"] \in Has("veExt")'
  <2>0. SUFFICES ASSUME pc' \in FromVeExt PROVE mem'["veExt"] \in Has("veExt")' OBVIOUS
  <2>1. pc' \in UpPoints /\ pc' # "tmm"
    BY <2>0 DEF FromVeExt, FromVeMgmt, FromVeSg, FromPem, FromKey, FromJh, FromSsh, FromEice, FromRole,
      UpPoints, OnboardPoints
  <2>2. pc \in UpPoints /\ pc' # "idle" BY <2>1, Within
  <2>3. CASE VeExtCreate BY <1>2, <2>2, <2>3 DEF VeExtCreate
  <2>4. CASE VeExtFound
    <3>1. \E r \in Has("veExt") : Set("veExt", r) /\ UNCHANGED status
      BY <2>2, <2>4 DEF VeExtFound, Fail, Refuse, End, Configure, OnlyConf
    <3>2. QED BY <1>0, <3>1 DEF Set, Has
  <2>5. CASE pc \in FromVeExt
    <3>1. ~VeExtCreate /\ ~VeExtFound BY <2>5, Starts DEF FromVeExt
    <3>2. mem'["veExt"] = mem["veExt"] BY <2>2, <3>1, Kept_
    <3>3. mem["veExt"] \in Has("veExt") BY <1>1, <2>5 DEF VeBuilt
    <3>4. QED BY <2>2, <3>2, <3>3, UpKeeps
  <2>6. QED BY <2>0, <2>2, <2>3, <2>4, <2>5, UpKeeps, Onward
<1>5. pc' \in FromVeExt \ {"veExtOff"} => <<"veExt", mem'["veExt"]>> \in conf'
  <2>0. SUFFICES ASSUME pc' \in FromVeExt \ {"veExtOff"} PROVE <<"veExt", mem'["veExt"]>> \in conf' OBVIOUS
  <2>1. pc' \in UpPoints /\ pc' # "tmm"
    BY <2>0 DEF FromVeExt, FromVeMgmt, FromVeSg, FromPem, FromKey, FromJh, FromSsh, FromEice, FromRole,
      UpPoints, OnboardPoints
  <2>2. pc \in UpPoints /\ pc' # "idle" BY <2>1, Within
  <2>3. CASE VeExtFound
    <3>1. \E r \in Has("veExt") : Set("veExt", r) /\ conf' = conf \cup {<<"veExt", r>>}
      BY <2>2, <2>3 DEF VeExtFound, Fail, Refuse, End, Configure
    <3>2. QED BY <1>0, <3>1 DEF Set
  <2>4. CASE VeExtOff
    <3>1. mem' = mem /\ conf' = conf \cup {<<"veExt", mem["veExt"]>>} BY <2>4 DEF VeExtOff, Configure, Go
    <3>2. QED BY <3>1
  <2>5. CASE pc \in FromVeExt \ {"veExtOff"}
    <3>1. ~VeExtCreate /\ ~VeExtFound BY <2>5, Starts DEF FromVeExt
    <3>2. mem'["veExt"] = mem["veExt"] BY <2>2, <3>1, Kept_
    <3>3. <<"veExt", mem["veExt"]>> \in conf BY <1>1, <2>5 DEF VeBuilt
    <3>4. QED BY <2>2, <3>2, <3>3, UpKeeps
  <2>6. QED BY <2>0, <2>2, <2>3, <2>4, <2>5, UpKeeps, Onward
<1>6. pc' \in FromVeMgmt \ {"veMgmt"} => mem'["veMgmt"] # None
  <2>0. SUFFICES ASSUME pc' \in FromVeMgmt \ {"veMgmt"} PROVE mem'["veMgmt"] # None OBVIOUS
  <2>1. pc' \in UpPoints /\ pc' # "tmm"
    BY <2>0 DEF FromVeMgmt, FromVeSg, FromPem, FromKey, FromJh, FromSsh, FromEice, FromRole, UpPoints,
      OnboardPoints
  <2>2. pc \in UpPoints /\ pc' # "idle" BY <2>1, Within
  <2>3. CASE VeMgmt
    <3>1. CASE Reuse("veMgmt", "veExt")
      <4>1. PICK r \in Known("veMgmt") : Set("veMgmt", r) BY <3>1 DEF Reuse
      <4>2. r # None BY <4>1, RefFacts DEF Known
      <4>3. QED BY <1>0, <4>1, <4>2 DEF Set
    <3>2. QED BY <1>2, <2>2, <2>3, <3>1 DEF VeMgmt, Fail, Refuse, End
  <2>4. CASE pc \in FromVeMgmt \ {"veMgmt"}
    <3>1. ~VeMgmt BY <2>4, Starts
    <3>2. mem'["veMgmt"] = mem["veMgmt"] BY <2>2, <3>1, Kept_
    <3>3. QED BY <1>1, <2>4, <3>2 DEF VeBuilt
  <2>5. QED BY <2>0, <2>2, <2>3, <2>4, UpKeeps, Onward
<1>7. pc' \in FromVeMgmt => mem'["veSg"] # None
  <2>0. SUFFICES ASSUME pc' \in FromVeMgmt PROVE mem'["veSg"] # None OBVIOUS
  <2>1. pc' \in UpPoints /\ pc' # "tmm"
    BY <2>0 DEF FromVeMgmt, FromVeSg, FromPem, FromKey, FromJh, FromSsh, FromEice, FromRole, UpPoints,
      OnboardPoints
  <2>2. pc \in UpPoints /\ pc' # "idle" BY <2>1, Within
  <2>3. CASE VeSg
    <3>1. CASE Reuse("veSg", "veMgmt")
      <4>1. PICK r \in Known("veSg") : Set("veSg", r) BY <3>1 DEF Reuse
      <4>2. r # None BY <4>1, RefFacts DEF Known
      <4>3. QED BY <1>0, <4>1, <4>2 DEF Set
    <3>2. QED BY <1>2, <2>2, <2>3, <3>1 DEF VeSg
  <2>4. CASE VeRules
    <3>1. pc = "veRules" /\ ~VeSg BY <2>4, Starts
    <3>2. mem'["veSg"] = mem["veSg"] BY <2>2, <3>1, Kept_
    <3>3. mem["veSg"] \in Runs BY <1>1, <3>1 DEF VeBuilt
    <3>4. QED BY <3>2, <3>3, RefFacts
  <2>5. CASE pc \in FromVeMgmt
    <3>1. ~VeSg BY <2>5, Starts DEF FromVeMgmt
    <3>2. mem'["veSg"] = mem["veSg"] BY <2>2, <3>1, Kept_
    <3>3. QED BY <1>1, <2>5, <3>2 DEF VeBuilt
  <2>6. QED BY <2>0, <2>2, <2>3, <2>4, <2>5, UpKeeps, Onward
<1>8. pc' \in FromVe => mem'["ve"] \in Alive("ve")'
  <2>0. SUFFICES ASSUME pc' \in FromVe PROVE mem'["ve"] \in Alive("ve")' OBVIOUS
  <2>1. pc' \in UpPoints /\ pc' # "tmm"
    BY <2>0 DEF FromVe, FromVeExt, FromVeMgmt, FromVeSg, FromPem, FromKey, FromJh, FromSsh, FromEice,
      FromRole, UpPoints, OnboardPoints
  <2>2. pc \in UpPoints /\ pc' # "idle" BY <2>1, Within
  <2>3. CASE VeLaunch
    <3>1. Wired BY <2>2, <2>3, VeLaunchIs DEF Refuse, End
    <3>2. QED BY <3>1, Turned DEF Wired, States
  <2>4. CASE VeFound
    <3>1. PICK r : /\ r \in (IF Running("ve") THEN {mem["ve"]} ELSE Alive("ve")) /\ Set("ve", r) /\ UNCHANGED status
      BY <2>4 DEF VeFound, HostFound, cloud
    <3>2. r \in Alive("ve")
      <4>1. Running("ve") => mem["ve"] \in Runs BY <1>0, RefFacts DEF Running
      <4>2. QED BY <3>1, <4>1 DEF Running, Alive
    <3>3. mem'["ve"] = r BY <1>0, <3>1 DEF Set
    <3>4. QED BY <3>1, <3>2, <3>3 DEF Alive
  <2>5. CASE pc \in FromVe
    <3>1. ~VeLaunch /\ ~VeFound BY <2>5, Starts DEF FromVe
    <3>2. mem'["ve"] = mem["ve"] BY <2>2, <3>1, Kept_
    <3>3. mem["ve"] \in Alive("ve") BY <1>1, <2>5 DEF VeBuilt
    <3>4. QED BY <2>2, <3>2, <3>3, UpKeeps
  <2>6. QED BY <2>0, <2>2, <2>3, <2>4, <2>5, UpKeeps, Onward
<1>9. QED BY <1>3, <1>4, <1>5, <1>6, <1>7, <1>8 DEF VeBuilt

LEMMA GateBuiltStep == ASSUME TypeOK, Control, Plain, Built, GateBuilt, Next PROVE GateBuilt'
<1> USE Sorts, UpPlaces
<1>1. SUFFICES ASSUME pc' \in FromGate PROVE <<"jhSg", mem'["jhSg"]>> \in conf' BY DEF GateBuilt
<1>2. pc' \in UpPoints /\ pc' # "tmm" BY <1>1 DEF FromGate, OnboardPoints
<1>3. pc \in UpPoints /\ pc' # "idle" BY <1>2, Within
<1>4. pc \in FromGate \/ PemCopy BY <1>1, <1>3, UpKeeps, Onward
<1>5. ~JhSg BY <1>4, Starts DEF FromGate, OnboardPoints
<1>6. mem'["jhSg"] = mem["jhSg"] BY <1>3, <1>5, Kept_
<1>7. <<"jhSg", mem["jhSg"]>> \in conf
  <2>1. CASE PemCopy BY <1>3, <2>1 DEF PemCopy, JumphostUp, Fail, Refuse, End
  <2>2. CASE pc \in FromGate BY <2>2 DEF GateBuilt
  <2>3. QED BY <1>4, <2>1, <2>2
<1>8. QED BY <1>3, <1>6, <1>7, UpKeeps

-----------------------------------------------------------------------------
(* What is configured on a BIG-IP.                                          *)

\* Nothing that counts is lost.
Kin(b, c) ==
  /\ c.has = b.has
  /\ b.as3 = "installed" => c.as3 = "installed"
  /\ b.pw = "durable" => c.pw = "durable"

\* One setting more.
Setting(p) ==
  CASE p = "shell"   -> "bash"
    [] p = "lockout" -> "lockoutOff"
    [] p = "ltm"     -> "ltm"
    [] p = "vlans"   -> "vlans"
    [] p = "selfIps" -> "selfIps"
    [] p = "cis"     -> "cis"
More(b, c, x) == c.has = b.has \cup {x} /\ c.as3 = b.as3 /\ c.pw = b.pw

Making == Shell \/ Lockout \/ Ltm \/ Vlans \/ SelfIps \/ Cis

LEMMA BoxStep == ASSUME TypeOK, Control, Built, Next, NEW r \in Runs
  PROVE \/ Kin(box[r], box'[r])
        \/ Outside /\ Gone(<<"ve", r>>) /\ box'[r] = Fresh
        \/ r = mem["ve"] /\ Making /\ More(box[r], box'[r], Setting(pc))
        \/ r = mem["ve"] /\ Finalize /\ box'[r].pw = "durable" /\ Kin(box[r], box'[r])
<1> USE Sorts
<1>0. box \in [Runs -> Boxes] BY DEF TypeOK, AccountTypeOK
<1>1. \A b : Kin(b, b) BY DEF Kin
<1>2. box[r] \in Boxes BY <1>0
<1>3. CASE UNCHANGED box BY <1>1, <1>3
<1>4. pc \in OnboardPoints => mem["ve"] \in Runs
  <2>1. pc \in OnboardPoints => pc \in FromVe BY Nested
  <2>2. QED BY <2>1, Names
<1>5. CASE Making
  <2>1. pc \in OnboardPoints BY <1>5, Starts DEF Making, OnboardPoints
  <2>2. mem["ve"] \in Runs BY <1>4, <2>1
  <2>3. ASSUME NEW x \in Settings, NEW p, Makes(x, p)
        PROVE IF r = mem["ve"] THEN More(box[r], box'[r], x) ELSE box'[r] = box[r]
    <3>1. box' = [box EXCEPT ![mem["ve"]] = [Box EXCEPT !["has"] = Box.has \cup {x}]]
      BY <1>0, <2>2, <2>3 DEF Makes, On, Box
    <3>2. Box \in Boxes /\ Box.has \cup {x} \in SUBSET Settings BY <1>0, <2>2 DEF Box, Boxes
    <3>3. More(Box, [Box EXCEPT !["has"] = Box.has \cup {x}], x) BY <3>2, BoxHas DEF More
    <3>4. CASE r = mem["ve"] BY <1>0, <3>1, <3>3, <3>4 DEF Box
    <3>5. CASE r # mem["ve"] BY <1>0, <2>2, <3>1, <3>5
    <3>6. QED BY <3>4, <3>5
  <2>4. {"bash", "lockoutOff", "ltm", "vlans", "selfIps", "cis"} = Settings BY DEF Settings
  <2>5. CASE Shell
    <3>1. pc = "shell" BY <2>5, Starts
    <3>2. UNCHANGED box \/ Makes("bash", "lockout") BY <2>5 DEF Shell, Fail, cloud
    <3>3. QED BY <1>1, <1>3, <1>5, <2>3, <2>4, <3>1, <3>2 DEF Setting
  <2>6. CASE Lockout
    <3>1. pc = "lockout" /\ Makes("lockoutOff", "password") BY <2>6, Starts DEF Lockout
    <3>2. QED BY <1>1, <1>5, <2>3, <2>4, <3>1 DEF Setting
  <2>7. CASE Ltm
    <3>1. pc = "ltm" /\ Makes("ltm", "vlans") BY <2>7, Starts DEF Ltm
    <3>2. QED BY <1>1, <1>5, <2>3, <2>4, <3>1 DEF Setting
  <2>8. CASE Vlans
    <3>1. pc = "vlans" /\ Makes("vlans", "selfIps") BY <2>8, Starts DEF Vlans
    <3>2. QED BY <1>1, <1>5, <2>3, <2>4, <3>1 DEF Setting
  <2>9. CASE SelfIps
    <3>1. pc = "selfIps" /\ Makes("selfIps", "as3") BY <2>9, Starts DEF SelfIps
    <3>2. QED BY <1>1, <1>5, <2>3, <2>4, <3>1 DEF Setting
  <2>10. CASE Cis
    <3>1. pc = "cis" /\ Makes("cis", "finalize") BY <2>10, Starts DEF Cis
    <3>2. QED BY <1>1, <1>5, <2>3, <2>4, <3>1 DEF Setting
  <2>11. QED BY <1>5, <2>5, <2>6, <2>7, <2>8, <2>9, <2>10 DEF Making
<1>6. CASE Password \/ Finalize
  <2>1. pc \in OnboardPoints BY <1>6, Starts DEF OnboardPoints
  <2>2. mem["ve"] \in Runs BY <1>4, <2>1
  <2>3. ASSUME NEW w \in {"unset", "live", "durable"}, NEW p, On("pw", w, p), Box.pw = "durable" => w = "durable"
        PROVE IF r = mem["ve"] THEN Kin(box[r], box'[r]) /\ box'[r].pw = w ELSE box'[r] = box[r]
    <3>1. box' = [box EXCEPT ![mem["ve"]] = [Box EXCEPT !["pw"] = w]]
      BY <1>0, <2>2, <2>3 DEF On, Box
    <3>2. Box \in Boxes BY <1>0, <2>2 DEF Box
    <3>3. Kin(Box, [Box EXCEPT !["pw"] = w]) /\ [Box EXCEPT !["pw"] = w].pw = w BY <2>3, <3>2, BoxPw DEF Kin
    <3>4. CASE r = mem["ve"] BY <1>0, <3>1, <3>3, <3>4 DEF Box
    <3>5. CASE r # mem["ve"] BY <1>0, <2>2, <3>1, <3>5
    <3>6. QED BY <3>4, <3>5
  <2>4. QED BY <1>1, <1>6, <2>3 DEF Password, Finalize
<1>7. CASE As3Post
  <2>1. pc \in OnboardPoints BY <1>7, Starts DEF OnboardPoints
  <2>2. mem["ve"] \in Runs BY <1>4, <2>1
  <2>3. Box \in Boxes BY <1>0, <2>2 DEF Box
  <2>4. \E s \in {"installing", "installed"} : /\ box' = [box EXCEPT ![mem["ve"]] = [Box EXCEPT !.as3 = s]]
                                               /\ Box.as3 = "installed" => s = "installed"
    <3>1. CASE Box.as3 = "installed" BY <1>0, <1>7, <2>2, <3>1 DEF As3Post, Box
    <3>2. CASE Box.as3 # "installed" BY <1>0, <1>7, <2>2, <3>2 DEF As3Post, Box
    <3>3. QED BY <3>1, <3>2
  <2>5. PICK s \in {"installing", "installed"} : /\ box' = [box EXCEPT ![mem["ve"]] = [Box EXCEPT !.as3 = s]]
                                                 /\ Box.as3 = "installed" => s = "installed"
    BY <2>4
  <2>6. Kin(Box, [Box EXCEPT !.as3 = s]) BY <2>3, <2>5, BoxAs3 DEF Kin
  <2>7. CASE r = mem["ve"] BY <1>0, <2>5, <2>6, <2>7 DEF Box
  <2>8. CASE r # mem["ve"] BY <1>0, <1>1, <2>2, <2>5, <2>8
  <2>9. QED BY <2>7, <2>8
<1>8. CASE Outside
  <2>1. ASSUME NEW q \in Runs, As3Settles(q) PROVE Kin(box[r], box'[r])
    <3>1. PICK s \in {"none", "installed"} : box' = [box EXCEPT ![q] = [box[q] EXCEPT !.as3 = s]]
      BY <2>1 DEF As3Settles
    <3>2. box[q] \in Boxes /\ box[q].as3 # "installed" BY <1>0, <2>1 DEF As3Settles
    <3>3. Kin(box[q], [box[q] EXCEPT !.as3 = s]) BY <3>2, BoxAs3 DEF Kin
    <3>4. QED BY <1>0, <1>1, <3>1, <3>3
  <2>2. ASSUME NEW q \in Runs, Reverts(q) PROVE Kin(box[r], box'[r])
    <3>1. box' = [box EXCEPT ![q] = [box[q] EXCEPT !.pw = "unset"]] BY <2>2 DEF Reverts
    <3>2. box[q] \in Boxes /\ box[q].pw # "durable" BY <1>0, <2>2 DEF Reverts
    <3>3. Kin(box[q], [box[q] EXCEPT !.pw = "unset"]) BY <3>2, BoxPw DEF Kin
    <3>4. QED BY <1>0, <1>1, <3>1, <3>3
  <2>3. ASSUME NEW x \in Id, Gone(x) PROVE box'[r] = box[r] \/ (x = <<"ve", r>> /\ box'[r] = Fresh)
    <3>1. x = <<x[1], x[2]>> OBVIOUS
    <3>2. CASE x[1] # "ve" BY <2>3, <3>2 DEF Gone
    <3>3. CASE x[1] = "ve" BY <1>0, <2>3, <3>1, <3>3 DEF Gone
    <3>4. QED BY <3>2, <3>3
  <2>4. QED BY <1>1, <1>3, <1>8, <2>1, <2>2, <2>3 DEF Outside, AccountStep, Settles, OnlyStatus
<1>9. QED BY <1>3, <1>5, <1>6, <1>7, <1>8, Frames DEF Making

LEMMA BoxedStep == ASSUME TypeOK, Control, Plain, Built, Boxed, Next PROVE Boxed'
<1> USE Sorts
<1>0. box \in [Runs -> Boxes] /\ mem \in [Keys -> Ref] BY DEF TypeOK, AccountTypeOK
<1>1. \A r \in Runs : "cis" \in box[r].has => box[r].has = Settings /\ box[r].as3 = "installed" BY DEF Boxed
<1>2. ASSUME NEW r \in Runs, "cis" \in box'[r].has PROVE box'[r].has = Settings /\ box'[r].as3 = "installed"
  <2>1. CASE Kin(box[r], box'[r]) BY <1>1, <1>2, <2>1 DEF Kin
  <2>2. CASE box'[r] = Fresh BY <1>2, <2>2 DEF Fresh
  <2>3. CASE r = mem["ve"] /\ Making /\ More(box[r], box'[r], Setting(pc))
    <3>1. box[r].has \subseteq Settings BY <1>0 DEF Boxes
    <3>2. pc \in {"shell", "lockout", "ltm", "vlans", "selfIps", "cis"} BY <2>3, Starts DEF Making
    <3>3. CASE pc = "cis"
      <4>1. Settings \ {"cis"} \subseteq box[r].has /\ box[r].as3 = "installed"
        BY <2>3, <3>3 DEF Boxed, Box, Made, OnboardPoints
      <4>2. box'[r].has = box[r].has \cup {"cis"} /\ box'[r].as3 = box[r].as3
        BY <2>3, <3>3 DEF More, Setting
      <4>3. "cis" \in Settings BY DEF Settings
      <4>4. QED BY <3>1, <4>1, <4>2, <4>3
    <3>4. CASE pc # "cis"
      <4>1. Setting(pc) \in Settings \ {"cis"} BY <3>2, <3>4 DEF Setting, Settings
      <4>2. box'[r].has = box[r].has \cup {Setting(pc)} /\ box'[r].as3 = box[r].as3 BY <2>3 DEF More
      <4>3. "cis" \in box[r].has BY <1>2, <4>1, <4>2
      <4>4. QED BY <1>1, <4>1, <4>2, <4>3
    <3>5. QED BY <3>3, <3>4
  <2>4. QED BY <2>1, <2>2, <2>3, BoxStep
<1>3. ASSUME pc' \in OnboardPoints
      PROVE /\ Made(pc') \subseteq box'[mem'["ve"]].has
            /\ pc' = "cis" => box'[mem'["ve"]].as3 = "installed"
            /\ pc' = "verify" => box'[mem'["ve"]].pw = "durable"
            /\ pc' = "save17f" => box'[mem'["ve"]].pw = "durable" \/ misled'
  <2>1. CASE pc' \in {"pemCopy", "gate", "probe", "shell"} BY <2>1 DEF Made
  <2>2. CASE pc' \notin {"pemCopy", "gate", "probe", "shell"}
    <3>0. pc' \in UpPoints /\ pc' # "tmm" BY <1>3 DEF UpPoints, OnboardPoints
    <3>1. pc \in UpPoints /\ pc' # "idle" BY <3>0, Within
    <3>2. (Outside /\ pc' = pc)
           \/ (UpMove /\ (Shell \/ Lockout \/ Password \/ Ltm \/ Vlans \/ SelfIps \/ As3Post \/ As3Found \/ As3Poll
                \/ Cis \/ Finalize \/ Skip \/ Verify))
      BY <1>3, <2>2, <3>1, UpKeeps, Arrivals DEF OnboardPoints
    <3>3. pc \in OnboardPoints BY <1>3, <3>2, Starts DEF OnboardPoints
    <3>4. mem["ve"] \in Runs /\ mem["ve"] \in Alive("ve") BY <3>3, Nested DEF Built, VeBuilt
    <3>5. ~VeFound /\ ~VeLaunch BY <3>3, Starts DEF OnboardPoints
    <3>6. mem'["ve"] = mem["ve"] BY <3>1, <3>5, Kept_
    <3> DEFINE r == mem["ve"]
    <3>7. ~Gone(<<"ve", r>>) BY <3>4 DEF Gone, Alive
    <3>8. /\ Made(pc) \subseteq box[r].has
          /\ pc = "cis" => box[r].as3 = "installed"
          /\ pc = "verify" => box[r].pw = "durable"
          /\ pc = "save17f" => box[r].pw = "durable" \/ misled
      BY <3>3 DEF Boxed, Box
    <3>9. \/ Kin(box[r], box'[r])
          \/ Making /\ More(box[r], box'[r], Setting(pc))
          \/ Finalize /\ box'[r].pw = "durable" /\ Kin(box[r], box'[r])
      BY <3>4, <3>7, BoxStep
    <3> HIDE DEF r
    <3>10. CASE Outside /\ pc' = pc
      <4>1. ~Making /\ misled' = misled
        BY <3>1, <3>10 DEF Outside, Making, Shell, Lockout, Ltm, Vlans, SelfIps, Cis, Makes, On, At,
          Goto, Fail, Refuse, End
      <4>2. QED BY <3>8, <3>9, <3>10, <4>1, <3>6 DEF Kin, r
    <3>11. CASE Shell \/ Lockout \/ Ltm \/ Vlans \/ SelfIps \/ Cis
      <4>1. \/ pc = "shell" /\ pc' = "lockout"
            \/ pc = "lockout" /\ pc' = "password"
            \/ pc = "ltm" /\ pc' = "vlans"
            \/ pc = "vlans" /\ pc' = "selfIps"
            \/ pc = "selfIps" /\ pc' = "as3"
            \/ pc = "cis" /\ pc' = "finalize"
        BY <3>1, <3>11 DEF Shell, Lockout, Ltm, Vlans, SelfIps, Cis, Makes, On, At, Goto, Fail, Refuse, End
      <4>2. More(box[r], box'[r], Setting(pc))
        <5>1. ASSUME NEW x \in Settings, NEW p, Makes(x, p), x = Setting(pc) PROVE More(box[r], box'[r], x)
          <6>1. box' = [box EXCEPT ![r] = [Box EXCEPT !["has"] = Box.has \cup {x}]]
            BY <1>0, <3>4, <5>1 DEF Makes, On, Box, r
          <6>2. Box \in Boxes /\ Box.has \cup {x} \in SUBSET Settings BY <1>0, <3>4, <5>1 DEF Box, Boxes
          <6>3. More(Box, [Box EXCEPT !["has"] = Box.has \cup {x}], x) BY <6>2, BoxHas DEF More
          <6>4. QED BY <1>0, <3>4, <6>1, <6>3 DEF Box, r
        <5>2. {"bash", "lockoutOff", "ltm", "vlans", "selfIps", "cis"} = Settings BY DEF Settings
        <5>3. Makes(Setting(pc), pc')
          BY <3>1, <3>11, <4>1 DEF Shell, Lockout, Ltm, Vlans, SelfIps, Cis, On, At, Makes, Goto, Fail,
            Refuse, End, Setting
        <5>4. Setting(pc) \in Settings BY <4>1, <5>2 DEF Setting
        <5>5. QED BY <5>1, <5>3, <5>4
      <4>3. box'[r].has = box[r].has \cup {Setting(pc)} BY <4>2 DEF More
      <4>4. Made(pc') \subseteq Made(pc) \cup {Setting(pc)} BY <4>1 DEF Made, Setting, Settings
      <4>5. QED BY <3>6, <3>8, <4>1, <4>3, <4>4 DEF r
    <3>12. CASE Password \/ As3Post \/ As3Found \/ As3Poll \/ Finalize \/ Verify
      <4>1. \/ pc = "password" /\ pc' = "ltm"
            \/ pc = "as3" /\ pc' = "as3Poll"
            \/ pc \in {"as3", "as3Poll"} /\ pc' = "cis" /\ As3Seen /\ UNCHANGED box
            \/ pc = "finalize" /\ pc' = "verify" /\ Finalize
            \/ pc = "verify" /\ pc' = "save17f" /\ UNCHANGED box
        BY <3>1, <3>12 DEF At, Password, As3Post, As3Found, As3Poll, Finalize, Verify, On, Go, Goto,
          Fail, Refuse, End, cloud
      <4>2. ~Making BY <3>12, <4>1, Starts DEF Making
      <4>3. Made(pc') = Made(pc) BY <4>1 DEF Made
      <4>4. Kin(box[r], box'[r]) BY <3>9, <4>2
      <4>5. Finalize => box'[r].pw = "durable"
        <5>1. ASSUME Finalize PROVE box'[r].pw = "durable"
          <6>1. box' = [box EXCEPT ![r] = [Box EXCEPT !["pw"] = "durable"]]
            BY <1>0, <3>4, <5>1 DEF Finalize, On, Box, r
          <6>2. Box \in Boxes BY <1>0, <3>4 DEF Box
          <6>3. [Box EXCEPT !["pw"] = "durable"].pw = "durable" BY <6>2, BoxPw
          <6>4. QED BY <1>0, <3>4, <6>1, <6>3 DEF r
        <5>2. QED BY <5>1
      <4>6. QED BY <3>6, <3>8, <4>1, <4>3, <4>4, <4>5 DEF Kin, As3Seen, Box, r
    <3>13. CASE Skip
      <4>1. pc' = "save17f" /\ "cis" \in box[r].has /\ UNCHANGED box /\ (misled' \/ box[r].pw = "durable")
        BY <3>13 DEF Skip, AlreadyOnboarded, Goto, Box, cloud, r
      <4>2. box[r].has = Settings BY <1>1, <3>4, <4>1 DEF r
      <4>3. Made(pc') = Settings BY <4>1 DEF Made
      <4>4. QED BY <3>6, <4>1, <4>2, <4>3 DEF r
    <3>14. QED BY <3>2, <3>10, <3>11, <3>12, <3>13
  <2>3. QED BY <2>1, <2>2
<1>4. QED BY <1>2, <1>3 DEF Boxed, Box, OnboardPoints

-----------------------------------------------------------------------------
(* Reports.                                                                 *)

LEMMA Reports == ASSUME TypeOK, Control, Next
  PROVE /\ done' = "up" => UpDone \/ (Outside /\ done = "up" /\ pc = "idle")
        /\ done' = "down" => DownDone \/ (Outside /\ done = "down" /\ pc = "idle")
<1> USE DEF At, Goto, Go, Told, Fault, End, Refuse, Fail, Dropped, SaveAnd
<1>1. CASE UpStep
  <2>1. done' \in {done, "up refused", "down refused"} \/ UpDone \/ DownDone
    BY <1>1 DEF UpStep,
      TmmFound, TmmStale, TmmCreate, TmmOff, TmmAttach, Save17, Role, Profile, Join, JhSg,
      EiceFound, EiceCreate, EiceReady, Ssh, JhFound, JhLaunch, JhWait, JhEni, JhEniOff,
      JhEniAttach, Save17b, KeyReuse, KeyRefused, KeyReplace, KeyUnseen, KeyCreate, PemWrite, VeSg,
      VeRules, VeMgmt, VeExtFound, VeExtCreate, VeExtOff, VeFound, VeLaunch, VeWait, Save17e, Reuse,
      Create, New, SetEice, HostFound, Waited, Makes, On
  <2>2. pc # "idle" BY <1>1, Origins, Apart DEF UpMove
  <2>3. done = "none" BY <2>2 DEF Control
  <2>4. (UpDone => done' = "up") /\ (DownDone => done' = "down") BY DEF UpDone, DownDone
  <2>5. QED BY <2>1, <2>3, <2>4
<1>2. CASE OnboardStep
  <2>1. done' \in {done, "up refused", "down refused"} \/ UpDone \/ DownDone
    BY <1>2 DEF OnboardStep,
      PemCopy, Gate, Skip, Proceed, Shell, Lockout, Password, Ltm, Vlans, SelfIps, As3Found,
      As3Post, As3Poll, As3Refused, Cis, Finalize, Verify, Reuse, Create, New, SetEice, HostFound,
      Waited, Makes, On
  <2>2. pc # "idle" BY <1>2, Origins, Apart DEF UpMove
  <2>3. done = "none" BY <2>2 DEF Control
  <2>4. (UpDone => done' = "up") /\ (DownDone => done' = "down") BY DEF UpDone, DownDone
  <2>5. QED BY <2>1, <2>3, <2>4
<1>3. CASE DownStep
  <2>1. done' \in {done, "up refused", "down refused"} \/ UpDone \/ DownDone
    BY <1>3 DEF DownStep,
      VeEnd, VeEnded, VeMgmtDown, VeMgmtRefused, VeExtDown, VeSgDown, VeSgRefused, KeyDown, PemDown,
      Save17eDown, JhEnd, JhEnded, JhEniDown, EiceDown, EiceGone, JhSgRefs, JhSgDown, Leave,
      ProfileDown, RoleDown, Save17bDown, TmmOwn, TmmList, TmmTagged, Aim, ClearAnd, Terminate,
      Terminated, EniDown, EniRefused, TmmDrop
  <2>2. pc # "idle" BY <1>3, Origins, Apart DEF UpMove
  <2>3. done = "none" BY <2>2 DEF Control
  <2>4. (UpDone => done' = "up") /\ (DownDone => done' = "down") BY DEF UpDone, DownDone
  <2>5. QED BY <2>1, <2>3, <2>4
<1>4. CASE StartUp \/ StartDown \/ LoseFiles \/ LoseHost BY <1>4 DEF StartUp, StartDown, LoseFiles, LoseHost
<1>5. CASE Abort BY <1>5 DEF Abort
<1>6. CASE Outside BY <1>6 DEF Outside, Control
<1>7. QED BY <1>1, <1>2, <1>3, <1>4, <1>5, <1>6 DEF Next

\* The account lets an instance settle or go.
LEMMA OutsideFate == ASSUME TypeOK, Outside, NEW n \in Kinds
  PROVE \/ \A q \in Runs : status'[<<n, q>>] = status[<<n, q>>]
        \/ \E q \in Alive(n) : Become(<<n, q>>, "ready") /\ status[<<n, q>>] = "creating"
        \/ n = "eice" /\ \E q \in Alive(n) : Become(<<n, q>>, "failed") /\ status[<<n, q>>] = "creating"
        \/ \E q \in Has(n) : Gone(<<n, q>>)
<1> USE Sorts
<1>1. ASSUME NEW x \in Id, Settles(x) \/ Gone(x), x[1] # n
      PROVE \A q \in Runs : status'[<<n, q>>] = status[<<n, q>>]
  <2>1. x[1] \in Kinds /\ x[2] \in Runs /\ x = <<x[1], x[2]>> OBVIOUS
  <2>2. \E s : Become(x, s) BY <1>1 DEF Settles, Gone
  <2>3. Only(x[1]) BY <2>1, <2>2, OnlyThat
  <2>4. n \in Kinds \ {x[1]} BY <1>1
  <2>5. QED BY <2>3, <2>4 DEF Only
<1>2. ASSUME NEW x \in Id, Settles(x), x[1] = n
      PROVE \E q \in Alive(n) : /\ status[<<n, q>>] = "creating"
                                /\ Become(<<n, q>>, "ready") \/ (n = "eice" /\ Become(<<n, q>>, "failed"))
  <2>1. x[2] \in Runs /\ x = <<n, x[2]>> BY <1>2
  <2>2. x[2] \in Alive(n) BY <1>2, <2>1 DEF Settles, Alive
  <2>3. status[x] = "creating" /\ (Become(x, "ready") \/ (n = "eice" /\ Become(x, "failed")))
    BY <1>2 DEF Settles
  <2>4. QED BY <2>1, <2>2, <2>3
<1>3. ASSUME NEW x \in Id, Gone(x), x[1] = n PROVE \E q \in Has(n) : Gone(<<n, q>>)
  <2>1. x[2] \in Runs /\ x = <<n, x[2]>> BY <1>3
  <2>2. x[2] \in Has(n) BY <1>3, <2>1 DEF Gone, Has
  <2>3. QED BY <1>3, <2>1, <2>2
<1>4. \A q \in Runs : As3Settles(q) \/ Reverts(q) => UNCHANGED status BY DEF As3Settles, Reverts, OnlyBox
<1>5. QED BY <1>1, <1>2, <1>3, <1>4 DEF Outside, AccountStep

LEMMA OutsideHas == ASSUME TypeOK, Outside, NEW n \in Kinds
  PROVE Has(n)' \subseteq Has(n) /\ Alive(n)' \subseteq Alive(n)
<1> USE Sorts
<1>1. {"ready", "none", "failed"} \subseteq States BY DEF States
<1>2. CASE \A q \in Runs : status'[<<n, q>>] = status[<<n, q>>] BY <1>2, Same
<1>3. ASSUME NEW q \in Alive(n), NEW s \in {"ready", "failed"}, Become(<<n, q>>, s)
      PROVE Has(n)' \subseteq Has(n) /\ Alive(n)' \subseteq Alive(n)
  <2>1. \A r \in Runs \ {q} : (r \in Has(n)' <=> r \in Has(n)) /\ (r \in Alive(n)' <=> r \in Alive(n))
    BY <1>1, <1>3, Turned
  <2>2. Has(n)' \subseteq Runs /\ Alive(n)' \subseteq Runs BY DEF Has, Alive
  <2>3. QED BY <2>1, <2>2
<1>4. ASSUME NEW q \in Has(n), Gone(<<n, q>>) PROVE Has(n)' \subseteq Has(n) /\ Alive(n)' \subseteq Alive(n)
  <2>1. Become(<<n, q>>, "none") BY <1>4 DEF Gone
  <2>2. /\ \A r \in Runs \ {q} : (r \in Has(n)' <=> r \in Has(n)) /\ (r \in Alive(n)' <=> r \in Alive(n))
        /\ q \notin Alive(n)'
    BY <1>1, <2>1, Turned
  <2>3. Has(n)' \subseteq Runs /\ Alive(n)' \subseteq Runs BY DEF Has, Alive
  <2>4. QED BY <1>4, <2>2, <2>3
<1>5. QED BY <1>2, <1>3, <1>4, OutsideFate

\* What a host that lives holds, the account leaves it.
LEMMA OutsideKeeps == ASSUME TypeOK, Control, Plain, Built, Outside, Next
  PROVE /\ \A n \in {"jh", "ve"} : \A r \in Alive(n) : r \in Alive(n)' /\ OnHost(<<n, r>>)' = OnHost(<<n, r>>)
        /\ \A r \in Alive("ve") : Kin(box[r], box'[r])
        /\ \A a \in att : a[2] = Node => a \in att'
        /\ UNCHANGED <<disk, mem, pc, done, run, misled, faults, pem, pemLost, conf, key, role, profile>>
<1> USE Sorts
<1>0. UNCHANGED <<disk, mem, pc, done, run, misled, faults, pem, pemLost, conf, key, role, profile>>
  BY DEF Outside, AccountStep, Settles, Gone, As3Settles, Reverts, OnlyBox, OnlyStatus
<1>1. ASSUME NEW n \in {"jh", "ve"}, NEW r \in Alive(n)
      PROVE r \in Alive(n)' /\ OnHost(<<n, r>>)' = OnHost(<<n, r>>)
  <2>1. r \in Alive(n)'
    <3>1. r \in Alive(n)' \/ EndOf(n) \/ LoseHost BY HostHas DEF Ended
    <3>2. CASE Alive(n)' = Alive(n) BY <3>2
    <3>3. QED
      <4>1. \/ \A q \in Runs : status'[<<n, q>>] = status[<<n, q>>]
            \/ \E q \in Alive(n) : Become(<<n, q>>, "ready")
            \/ \E q \in Has(n) : Gone(<<n, q>>) BY OutsideFate
      <4>2. ASSUME NEW q \in Alive(n), Become(<<n, q>>, "ready") PROVE r \in Alive(n)'
        BY <4>2, Turned DEF States
      <4>3. ASSUME NEW q \in Has(n), Gone(<<n, q>>) PROVE r \in Alive(n)'
        <5>1. q # r BY <4>3 DEF Gone, Alive
        <5>2. q \in Runs /\ Become(<<n, q>>, "none") /\ r \in Runs \ {q} BY <4>3, <5>1 DEF Gone
        <5>3. QED BY <5>2, Turned DEF States
      <4>4. QED BY <4>1, <4>2, <4>3, Same
  <2>2. {b \in att' : b[2] = <<n, r>>} = {b \in att : b[2] = <<n, r>>}
    <3>1. CASE \E x \in Id : Gone(x)
      <4>1. PICK x \in Id : Gone(x) BY <3>1
      <4>2. x # <<n, r>> BY <4>1 DEF Gone, Alive
      <4>3. QED BY <4>1, <4>2 DEF Gone
    <3>2. CASE ~ \E x \in Id : Gone(x)
      BY <3>2 DEF Outside, AccountStep, Settles, As3Settles, Reverts, OnlyBox, OnlyStatus
    <3>3. QED BY <3>1, <3>2
  <2>3. OnHost(<<n, r>>)' = OnHost(<<n, r>>)
    <3>1. OnHost(<<n, r>>)' = {a[1] : a \in {b \in att' : b[2] = <<n, r>>}} BY DEF OnHost
    <3>2. OnHost(<<n, r>>) = {a[1] : a \in {b \in att : b[2] = <<n, r>>}} BY DEF OnHost
    <3>3. QED BY <2>2, <3>1, <3>2
  <2>4. QED BY <2>1, <2>3
<1>2. ASSUME NEW r \in Alive("ve") PROVE Kin(box[r], box'[r])
  <2>1. ~Gone(<<"ve", r>>) BY DEF Gone, Alive
  <2>2. box \in [Runs -> Boxes] BY DEF TypeOK, AccountTypeOK
  <2>3. \A b : Kin(b, b) BY DEF Kin
  <2>4. ASSUME NEW q \in Runs, As3Settles(q) PROVE Kin(box[r], box'[r])
    <3>1. PICK s \in {"none", "installed"} : box' = [box EXCEPT ![q] = [box[q] EXCEPT !.as3 = s]]
      BY <2>4 DEF As3Settles
    <3>2. box[q] \in Boxes /\ box[q].as3 # "installed" BY <2>2, <2>4 DEF As3Settles
    <3>3. Kin(box[q], [box[q] EXCEPT !.as3 = s]) BY <3>2, BoxAs3 DEF Kin
    <3>4. QED BY <2>2, <2>3, <3>1, <3>3
  <2>5. ASSUME NEW q \in Runs, Reverts(q) PROVE Kin(box[r], box'[r])
    <3>1. box' = [box EXCEPT ![q] = [box[q] EXCEPT !.pw = "unset"]] BY <2>5 DEF Reverts
    <3>2. box[q] \in Boxes /\ box[q].pw # "durable" BY <2>2, <2>5 DEF Reverts
    <3>3. Kin(box[q], [box[q] EXCEPT !.pw = "unset"]) BY <3>2, BoxPw DEF Kin
    <3>4. QED BY <2>2, <2>3, <3>1, <3>3
  <2>6. ASSUME NEW x \in Id, Gone(x) PROVE box'[r] = box[r]
    <3>1. x = <<x[1], x[2]>> /\ x # <<"ve", r>> BY <2>1, <2>6
    <3>2. CASE x[1] # "ve" BY <2>6, <3>2 DEF Gone
    <3>3. CASE x[1] = "ve" BY <2>2, <2>6, <3>1, <3>3 DEF Gone
    <3>4. QED BY <3>2, <3>3
  <2>7. QED BY <2>3, <2>4, <2>5, <2>6 DEF Outside, AccountStep, Settles, OnlyStatus
<1>3. \A a \in att : a[2] = Node => a \in att'
  <2>1. Node \notin Id BY DEF Node, Id, Kinds, EniKinds, HostKinds
  <2>2. QED BY <2>1 DEF Outside, AccountStep, Settles, Gone, As3Settles, Reverts, OnlyBox, OnlyStatus
<1>4. QED BY <1>0, <1>1, <1>2, <1>3

LEMMA UpBuildsStep ==
  ASSUME TypeOK, Control, Plain, Single, Records, Attached, Held, Built, GateBuilt, Boxed, Jumphost, UpBuilds, Next
  PROVE UpBuilds'
<1> USE Sorts, UniqueKinds
<1>0. SUFFICES ASSUME done' = "up" PROVE UpBuilds' BY DEF UpBuilds
<1>1. CASE Outside /\ done = "up"
  <2>1. /\ << <<"tmm", disk["tmm"]>>, Node >> \in att
        /\ disk["jh"] \in Alive("jh") /\ disk["ve"] \in Alive("ve")
        /\ \/ faults > 2
           \/ {<<"veMgmt", disk["veMgmt"]>>, <<"veExt", disk["veExt"]>>} = OnHost(<<"ve", disk["ve"]>>)
        /\ <<"veExt", disk["veExt"]>> \in conf /\ <<"jhSg", disk["jhSg"]>> \in conf
        /\ box[disk["ve"]].has = Settings /\ box[disk["ve"]].as3 = "installed"
        /\ box[disk["ve"]].pw = "durable" \/ misled
        /\ faults > 0 \/ OnHost(<<"jh", disk["jh"]>>) = {<<"jhEni", disk["jhEni"]>>}
    BY <1>1 DEF UpBuilds, Unseen, Onboarded
  <2>2. UNCHANGED <<disk, misled, faults, conf>> BY <1>1, OutsideKeeps
  <2>3. << <<"tmm", disk["tmm"]>>, Node >> \in att' BY <1>1, <2>1, OutsideKeeps
  <2>4. ASSUME NEW j, j = disk["jh"], NEW v, v = disk["ve"]
        PROVE /\ j \in Alive("jh")' /\ v \in Alive("ve")'
              /\ OnHost(<<"jh", j>>)' = OnHost(<<"jh", j>>) /\ OnHost(<<"ve", v>>)' = OnHost(<<"ve", v>>)
              /\ Kin(box[v], box'[v])
    BY <1>1, <2>1, <2>4, OutsideKeeps
  <2>5. ASSUME NEW j, j = disk["jh"], NEW v, v = disk["ve"], j = disk'["jh"], v = disk'["ve"]
        PROVE UpBuilds'
    <3>1. box'[v].has = Settings /\ box'[v].as3 = "installed" /\ (box'[v].pw = "durable" \/ misled')
      BY <2>1, <2>2, <2>4, <2>5 DEF Kin
    <3>2. Onboarded' BY <2>5, <3>1 DEF Onboarded
    <3>3. OnHost(<<"jh", disk["jh"]>>)' = OnHost(<<"jh", j>>)' BY <2>5
    <3>4. OnHost(<<"ve", disk["ve"]>>)' = OnHost(<<"ve", v>>)' BY <2>5
    <3>5. QED BY <2>1, <2>2, <2>3, <2>4, <2>5, <3>2, <3>3, <3>4 DEF UpBuilds, Unseen
  <2>6. QED BY <2>2, <2>5
<1>2. CASE UpDone
  <2>1. pc = "save17f" /\ disk' = mem /\ UNCHANGED <<cloud, misled, faults>>
    BY <1>2, Starts DEF UpDone, Told
  <2>2. pc \in OnboardPoints /\ pc \in FromGate /\ pc \in FromVeExt \ {"veExtOff"} /\ pc \in FromVeMgmt \ {"veMgmt"}
        /\ pc \in FromVe /\ pc \in FromJh /\ pc \in FromTmm /\ pc \in JhRest \ {"idle"}
    <3>1. pc \in OnboardPoints /\ pc \in FromGate BY <2>1 DEF OnboardPoints, FromGate
    <3>2. pc \in JhRest \ {"idle"}
      BY <2>1 DEF JhRest, UpPoints, OnboardPoints, PastJh, PastSave17e, PastPem, PastKey, PastVeSg,
        PastExt, PastMgmt, PastVe, DownPoints
    <3>3. QED BY <2>1, <3>1, <3>2, Nested
  <2>3. << <<"tmm", mem["tmm"]>>, Node >> \in att BY <2>2 DEF Built, TmmBuilt
  <2>4. mem["jh"] \in Alive("jh") /\ mem["ve"] \in Alive("ve") BY <2>2 DEF Built, JhBuilt, VeBuilt
  <2>5. mem["veExt"] \in Has("veExt") /\ <<"veExt", mem["veExt"]>> \in conf /\ mem["veMgmt"] # None
    BY <2>2 DEF Built, VeBuilt
  <2>6. <<"jhSg", mem["jhSg"]>> \in conf BY <2>2 DEF GateBuilt
  <2>7. box[mem["ve"]].has = Settings /\ box[mem["ve"]].as3 = "installed" /\ (box[mem["ve"]].pw = "durable" \/ misled)
    <3>1. Settings \subseteq Box.has /\ (Box.pw = "durable" \/ misled) BY <2>1, <2>2 DEF Boxed, Made
    <3>2. "cis" \in Settings /\ mem["ve"] \in Runs BY <2>4 DEF Settings
    <3>3. QED BY <3>1, <3>2 DEF Boxed, Box
  <2>8. faults > 2 \/ OnHost(<<"ve", mem["ve"]>>) = {<<"veMgmt", mem["veMgmt"]>>, <<"veExt", mem["veExt"]>>}
    <3>1. SUFFICES ASSUME ~(faults > 2)
                   PROVE OnHost(<<"ve", mem["ve"]>>) = {<<"veMgmt", mem["veMgmt"]>>, <<"veExt", mem["veExt"]>>}
      OBVIOUS
    <3>2. PICK m \in Has("veMgmt"), e \in Has("veExt") :
            OnHost(<<"ve", mem["ve"]>>) = {<<"veMgmt", m>>, <<"veExt", e>>}
      BY <2>4, <3>1 DEF Held, Unseen
    <3>3. m = mem["veMgmt"] BY <2>5 DEF Records
    <3>4. e = mem["veExt"] BY <2>5 DEF Single
    <3>5. QED BY <3>2, <3>3, <3>4
  <2>9. faults > 0 \/ OnHost(<<"jh", mem["jh"]>>) = {<<"jhEni", mem["jhEni"]>>}
    <3>1. SUFFICES ASSUME faults = 0 PROVE OnHost(<<"jh", mem["jh"]>>) = {<<"jhEni", mem["jhEni"]>>}
      <4>1. faults \in Nat BY FaultCount
      <4>2. faults > 0 \/ faults = 0 BY <4>1
      <4>3. QED BY <4>2
    <3>2. mem["jh"] = disk["jh"] /\ mem["jhEni"] = disk["jhEni"] BY <2>2, <3>1 DEF Jumphost
    <3>3. JhWired(disk) \/ NoJh(disk) BY <2>2, <3>1 DEF Jumphost
    <3>4. Has("jh") # {} BY <2>4
    <3>5. JhWired(disk) BY <3>3, <3>4 DEF NoJh
    <3>6. QED BY <3>2, <3>5 DEF JhWired, WiredAt
  <2>10. ASSUME NEW d, d = mem, d = disk' PROVE UpBuilds'
    <3>1. \A n : Has(n)' = Has(n) /\ Alive(n)' = Alive(n) BY <2>1 DEF cloud, Has, Alive
    <3>2. \A h : OnHost(h)' = OnHost(h)
      <4>1. att' = att BY <2>1 DEF cloud
      <4>2. QED BY <4>1 DEF OnHost
    <3>3. UNCHANGED <<att, conf, box, misled, faults>> BY <2>1 DEF cloud
    <3>4. Onboarded' BY <2>7, <2>10, <3>3 DEF Onboarded
    <3>5. /\ << <<"tmm", d["tmm"]>>, Node >> \in att'
          /\ d["jh"] \in Alive("jh")' /\ d["ve"] \in Alive("ve")'
          /\ \/ faults' > 2
             \/ {<<"veMgmt", d["veMgmt"]>>, <<"veExt", d["veExt"]>>} = OnHost(<<"ve", d["ve"]>>)'
          /\ <<"veExt", d["veExt"]>> \in conf' /\ <<"jhSg", d["jhSg"]>> \in conf'
          /\ faults' > 0 \/ OnHost(<<"jh", d["jh"]>>)' = {<<"jhEni", d["jhEni"]>>}
      BY <2>3, <2>4, <2>5, <2>6, <2>8, <2>9, <2>10, <3>1, <3>2, <3>3
    <3>6. OnHost(<<"jh", disk["jh"]>>)' = OnHost(<<"jh", d["jh"]>>)'
          /\ OnHost(<<"ve", disk["ve"]>>)' = OnHost(<<"ve", d["ve"]>>)'
      BY <2>10
    <3>7. QED BY <2>10, <3>4, <3>5, <3>6 DEF UpBuilds, Unseen
  <2>11. QED BY <2>1, <2>10
<1>3. QED BY <1>0, <1>1, <1>2, Reports

LEMMA Opening == ASSUME TypeOK, Built, Pair PROVE KeyOpens
<1>1. SUFFICES ASSUME pc \in OnboardPoints, ~pemLost PROVE Opens \/ Orphaned BY DEF KeyOpens
<1>2. pc \in FromVe BY <1>1, Nested
<1>3. mem["ve"] \in Alive("ve") BY <1>2 DEF Built, VeBuilt
<1>4. QED BY <1>1, <1>3 DEF Pair, Opens

-----------------------------------------------------------------------------
(* While nothing goes wrong.                                                *)

LEMMA Calm == ASSUME TypeOK, Next, faults' = 0
  PROVE /\ faults = 0 /\ ~Fault /\ ~Abort /\ ~LoseFiles /\ ~LoseHost
        /\ \A ok \in BOOLEAN : Dropped(ok) => ok
<1>1. faults \in Nat /\ faults' >= faults BY FaultCount
<1>2. faults = 0 /\ faults' # faults + 1 BY <1>1
<1>3. ~Fault BY <1>2 DEF Fault
<1>4. QED BY <1>2, <1>3 DEF Abort, LoseFiles, LoseHost, Dropped

\* What a step saves.
LEMMA Saves == ASSUME TypeOK, Next, ~LoseFiles
  PROVE \/ disk' = disk
        \/ disk' = mem /\ (mem' = mem \/ pc' = "idle")
        \/ Save17eDown /\ disk' = Without({"ve", "veMgmt", "veExt", "veSg"}) /\ mem' = disk'
        \/ Save17bDown /\ disk' = Without({"jh", "jhEni", "eice", "eiceSg", "jhSg"}) /\ mem' = disk'
        \/ DownDone /\ disk' = Without({"tmm"})
<1>1. Save17eDown => /\ disk' = Without({"ve", "veMgmt", "veExt", "veSg"}) /\ mem' = disk'
  BY DEF Save17eDown, ClearAnd
<1>2. Save17bDown => /\ disk' = Without({"jh", "jhEni", "eice", "eiceSg", "jhSg"}) /\ mem' = disk'
  BY DEF Save17bDown, ClearAnd
<1>3. DownDone => disk' = Without({"tmm"}) BY DEF DownDone
<1>4. CASE Save17 \/ Save17b \/ Save17e \/ UpDone
  BY <1>4 DEF Save17, Save17b, Save17e, UpDone, SaveAnd, End
<1>5. QED BY <1>1, <1>2, <1>3, <1>4, Frames

\* The step at each point of phase 17b.
LEMMA JhPoints == ASSUME Next, ~Abort, ~Outside
  PROVE /\ pc = "jh" => JhFound \/ JhLaunch
        /\ pc = "jhWait" => JhWait
        /\ pc = "jhEni" => JhEni
        /\ pc = "jhEniOff" => JhEniOff
        /\ pc = "jhEniAttach" => JhEniAttach
        /\ pc = "save17b" => Save17b
        /\ pc = "jhEnd" => JhEnd
        /\ pc = "jhEnding" => JhEnded
        /\ pc = "jhEniDown" => JhEniDown
        /\ pc = "eiceDown" => EiceDown
        /\ pc = "eiceGone" => EiceGone
        /\ pc = "jhSgRefs" => JhSgRefs
        /\ pc = "jhSgDown" => JhSgDown
        /\ pc = "leave" => Leave
        /\ pc = "profileDown" => ProfileDown
        /\ pc = "roleDown" => RoleDown
        /\ pc = "save17bDown" => Save17bDown
<1>1. StartUp \/ StartDown \/ LoseFiles \/ LoseHost => pc = "idle"
  BY DEF StartUp, StartDown, LoseFiles, LoseHost, At
<1>2. QED BY <1>1, Starts DEF Next, UpStep, OnboardStep, DownStep

-----------------------------------------------------------------------------
(* The jumphost and its interface while nothing goes wrong.                 *)

JhDown == {"jhEnding", "jhEniDown", "eiceDown", "eiceGone", "jhSgRefs", "jhSgDown", "leave",
           "profileDown", "roleDown", "save17bDown"}
JhBusy == {"jhWait", "jhEni", "jhEniOff", "jhEniAttach", "save17b"} \cup JhDown

LEMMA JhPlaces ==
  /\ PastJh \ PastSave17b = JhDown /\ PastJhEni \ PastSave17b = JhDown \ {"jhEnding", "jhEniDown"}
  /\ {"idle", "tmm", "jh", "key", "veEnd", "jhEnd", "tmmOwn"} \subseteq JhRest
  /\ \A p \in JhBusy : p \notin JhRest /\ p # "idle"
  /\ TypeOK => pc \in JhRest \cup JhBusy
  /\ UpPoints \ JhBusy \subseteq JhRest
<1> USE DEF PastJh, PastSave17e, PastPem, PastKey, PastVeSg, PastExt, PastMgmt, PastVe, PastJhEni,
  PastSave17b, DownPoints
<1>1. PastJh \ PastSave17b = JhDown BY DEF JhDown
<1>2. PastJhEni \ PastSave17b = JhDown \ {"jhEnding", "jhEniDown"} BY DEF JhDown
<1>3. JhRest = ({"idle"} \cup UpPoints \cup DownPoints) \ JhBusy BY <1>1 DEF JhRest, JhBusy
<1>4. {"idle", "tmm", "jh", "key", "veEnd", "jhEnd", "tmmOwn"} \subseteq JhRest
  BY <1>3 DEF JhBusy, JhDown, UpPoints
<1>5. "idle" \notin JhBusy BY DEF JhBusy, JhDown
<1>6. TypeOK => pc \in JhRest \cup JhBusy BY <1>3 DEF TypeOK
<1>7. UpPoints \ JhBusy \subseteq JhRest BY <1>3
<1>8. QED BY <1>1, <1>2, <1>3, <1>4, <1>5, <1>6, <1>7

JhFrame ==
  /\ \A r \in Runs : status'[<<"jh", r>>] = status[<<"jh", r>>]
  /\ \A r \in Runs : status'[<<"jhEni", r>>] = status[<<"jhEni", r>>]
  /\ \A r \in Alive("jh") : OnHost(<<"jh", r>>)' = OnHost(<<"jh", r>>)

LEMMA JhFrames == ASSUME TypeOK, JhFrame
  PROVE /\ Has("jh")' = Has("jh") /\ Alive("jh")' = Alive("jh") /\ Has("jhEni")' = Has("jhEni")
        /\ \A j \in Runs : \A e \in Runs : WiredAt(j, e) => WiredAt(j, e)'
        /\ \A j \in Runs : BareAt(j) => BareAt(j)'
<1>1. Has("jh")' = Has("jh") /\ Alive("jh")' = Alive("jh") /\ Has("jhEni")' = Has("jhEni")
  BY Same DEF JhFrame
<1>2. \A j \in Runs : status[<<"jh", j>>] = "ready" =>
        status'[<<"jh", j>>] = "ready" /\ OnHost(<<"jh", j>>)' = OnHost(<<"jh", j>>)
  BY DEF JhFrame, Alive
<1>3. QED BY <1>1, <1>2 DEF WiredAt, BareAt

\* Nothing but these steps touches them.
LEMMA JhStill ==
  ASSUME TypeOK, Control, Plain, Attached, Next, ~LoseHost, ~Outside,
         UNCHANGED cloud \/ ~(JhLaunch \/ JhEnd \/ JhEni \/ JhEniDown \/ JhEniAttach)
  PROVE JhFrame
<1> USE Sorts
<1>1. CASE UNCHANGED cloud BY <1>1 DEF cloud, JhFrame, OnHost
<1>2. CASE ~(JhLaunch \/ JhEnd \/ JhEni \/ JhEniDown \/ JhEniAttach)
  <2>1. \A r \in Runs : status'[<<"jh", r>>] = status[<<"jh", r>>] BY <1>2, Untouched DEF Concerns
  <2>2. \A r \in Runs : status'[<<"jhEni", r>>] = status[<<"jhEni", r>>] BY <1>2, Untouched DEF Concerns
  <2>3. ASSUME NEW r \in Alive("jh") PROVE OnHost(<<"jh", r>>)' = OnHost(<<"jh", r>>)
    <3>1. {b \in att' : b[2] = <<"jh", r>>} = {b \in att : b[2] = <<"jh", r>>}
      <4>1. CASE UNCHANGED att BY <4>1
      <4>2. CASE TmmHung BY <4>2 DEF TmmHung, Node
      <4>3. CASE Wired BY <4>3 DEF Wired
      <4>4. ASSUME NEW n \in {"veExt", "tmm"}, Detached(n)
            PROVE {b \in att' : b[2] = <<"jh", r>>} = {b \in att : b[2] = <<"jh", r>>}
        <5>1. \A b \in att : b[2] = <<"jh", r>> => HostKind(b[1][1]) = "jh" BY DEF Attached
        <5>2. HostKind(n) # "jh" BY DEF HostKind
        <5>3. QED BY <4>4, <5>1, <5>2 DEF Detached
      <4>5. QED BY <1>2, <4>1, <4>2, <4>3, <4>4, Hangings DEF JhEniHung
    <3>2. OnHost(<<"jh", r>>)' = {a[1] : a \in {b \in att' : b[2] = <<"jh", r>>}} BY DEF OnHost
    <3>3. OnHost(<<"jh", r>>) = {a[1] : a \in {b \in att : b[2] = <<"jh", r>>}} BY DEF OnHost
    <3>4. QED BY <3>1, <3>2, <3>3
  <2>4. QED BY <2>1, <2>2, <2>3 DEF JhFrame
<1>3. QED BY <1>1, <1>2

\* The account leaves a jumphost that is up alone.
LEMMA JhOutside ==
  ASSUME TypeOK, Control, Plain, Built, Outside, Next, \A r \in Has("jh") : status[<<"jh", r>>] = "ready"
  PROVE JhFrame
<1> USE Sorts
<1>1. \A r \in Runs : status'[<<"jh", r>>] = status[<<"jh", r>>] BY OutsideFate DEF Gone
<1>2. \A r \in Runs : status'[<<"jhEni", r>>] = status[<<"jhEni", r>>]
  <2>1. "jhEni" \in Kinds /\ "jhEni" \in Kinds \ {"jh", "ve", "eice"} OBVIOUS
  <2>2. \A q \in Runs : status[<<"jhEni", q>>] \in {"none", "ready"} BY <2>1 DEF Plain
  <2>3. \A q \in Runs : ~Gone(<<"jhEni", q>>) BY <2>2 DEF Gone
  <2>4. QED BY <2>1, <2>2, <2>3, OutsideFate
<1>3. QED BY <1>1, <1>2, OutsideKeeps DEF JhFrame

\* Out of the points where the pair is incomplete.
LEMMA JhReturns ==
  ASSUME TypeOK, Control, Plain, Built, Jumphost, Next, ~Outside, faults' = 0, pc \in JhBusy, pc' \in JhRest
  PROVE Save17b \/ Save17bDown
<1> USE Calm, JhPlaces DEF Go, Goto, Dropped, Told
<1>1. pc # "jhWait"
  <2>1. SUFFICES ASSUME pc = "jhWait" PROVE FALSE OBVIOUS
  <2>2. JhWait /\ mem["jh"] \in Alive("jh")
    BY <2>1, JhPoints DEF Built, JhBuilt, FromJh, FromSsh, FromEice, FromRole, UpPoints
  <2>3. pc' = "jhEni" BY <2>2 DEF JhWait, Waited, Alive
  <2>4. QED BY <2>3 DEF JhBusy
<1>2. pc # "jhEni"
  <2>1. SUFFICES ASSUME pc = "jhEni" PROVE FALSE OBVIOUS
  <2>2. JhEni BY <2>1, JhPoints
  <2>3. pc' \in {"save17b", "jhEniOff"} BY <2>2 DEF JhEni, Reuse, New, Create
  <2>4. QED BY <2>3 DEF JhBusy
<1>3. pc # "jhEniOff"
  <2>1. SUFFICES ASSUME pc = "jhEniOff" PROVE FALSE OBVIOUS
  <2>2. JhEniOff BY <2>1, JhPoints
  <2>3. pc' = "jhEniAttach" BY <2>2 DEF JhEniOff
  <2>4. QED BY <2>3 DEF JhBusy
<1>4. pc # "jhEniAttach"
  <2>1. SUFFICES ASSUME pc = "jhEniAttach" PROVE FALSE OBVIOUS
  <2>2. JhEniAttach BY <2>1, JhPoints
  <2>3. JhBare BY <2>1 DEF Jumphost
  <2>4. status[<<"jh", mem["jh"]>>] = "ready" /\ OnHost(<<"jh", mem["jh"]>>) = {} BY <2>3 DEF JhBare, BareAt
  <2>5. pc' = "save17b" BY <2>2, <2>4 DEF JhEniAttach
  <2>6. QED BY <2>5 DEF JhBusy
<1>5. CASE pc = "save17b" BY <1>5, JhPoints
<1>6. CASE pc \in JhDown /\ ~Save17bDown
  <2>1. pc' \in JhDown
    <3>1. CASE pc \in {"jhEnding", "jhEniDown", "eiceDown", "eiceGone", "jhSgRefs"}
      BY <1>6, <3>1, JhPoints DEF JhDown, JhEnded, JhEniDown, EiceDown, EiceGone, JhSgRefs, Terminated,
        EniDown
    <3>2. CASE pc \in {"jhSgDown", "leave", "profileDown", "roleDown", "save17bDown"}
      BY <1>6, <3>2, JhPoints DEF JhDown, JhSgDown, Leave, ProfileDown, RoleDown
    <3>3. QED BY <1>6, <3>1, <3>2 DEF JhDown
  <2>2. QED BY <2>1 DEF JhBusy
<1>7. QED BY <1>1, <1>2, <1>3, <1>4, <1>5, <1>6 DEF JhBusy

LEMMA JhRests ==
  ASSUME TypeOK, Control, Plain, Attached, Built, Jumphost, Next, ~Outside, faults' = 0, pc' \in JhRest
  PROVE /\ JhWired(disk)' \/ NoJh(disk)'
        /\ pc' # "idle" => mem'["jh"] = disk'["jh"] /\ mem'["jhEni"] = disk'["jhEni"]
<1> USE Calm, JhPlaces, Sorts
<1>1. CASE pc \in JhBusy
  <2>1. CASE Save17b
    <3>1. pc = "save17b" /\ disk' = mem /\ mem' = mem /\ UNCHANGED cloud
      BY <2>1, Starts DEF Save17b, SaveAnd
    <3>2. PICK j \in Runs, e \in Runs : mem["jh"] = j /\ mem["jhEni"] = e /\ WiredAt(j, e)
      BY <3>1 DEF Jumphost, JhWired
    <3>3. JhFrame BY <3>1 DEF JhFrame, OnHost, cloud
    <3>4. disk'["jh"] = j /\ disk'["jhEni"] = e /\ WiredAt(j, e)' BY <3>1, <3>2, <3>3, JhFrames
    <3>5. JhWired(disk)' BY <3>4 DEF JhWired
    <3>6. QED BY <3>1, <3>5
  <2>2. CASE Save17bDown
    <3>1. pc = "save17bDown" /\ UNCHANGED cloud BY <2>2, Starts DEF Save17bDown, ClearAnd
    <3>2. disk' = [n \in Keys |-> IF n \in {"jh", "jhEni", "eice", "eiceSg", "jhSg"} THEN None ELSE mem[n]] /\ mem' = disk'
      BY <2>2 DEF Save17bDown, ClearAnd, Without
    <3>3. Has("jh") = {} /\ Has("jhEni") = {} BY <3>1 DEF Jumphost, JhDown
    <3>4. Has("jh")' = {} /\ Has("jhEni")' = {} BY <3>1, <3>3 DEF Has, cloud
    <3>5. NoJh(disk)' BY <3>2, <3>4 DEF NoJh
    <3>6. QED BY <3>2, <3>5
  <2>3. QED BY <1>1, <2>1, <2>2, JhReturns
<1>2. CASE pc \in JhRest
  <2>0. (JhWired(disk) \/ NoJh(disk)) /\ (pc # "idle" => mem["jh"] = disk["jh"] /\ mem["jhEni"] = disk["jhEni"])
    BY <1>2 DEF Jumphost
  <2>1. ~Save17bDown /\ ~JhEni /\ ~JhEniDown /\ ~JhEniAttach /\ ~JhEnd /\ ~JhFound
    <3>1. ~Save17bDown /\ ~JhEni /\ ~JhEniDown /\ ~JhEniAttach BY <1>2, Starts DEF JhBusy, JhDown
    <3>2. pc' # "jhEnding" /\ pc' # "jhEni" BY DEF JhBusy, JhDown
    <3>3. QED BY <3>1, <3>2 DEF JhEnd, Terminate, JhFound, HostFound, Goto
  <2>2. JhLaunch => UNCHANGED cloud /\ pc' = "idle"
    <3>1. pc' # "jhWait" BY DEF JhBusy
    <3>2. QED BY <3>1 DEF JhLaunch, Create, Goto, Refuse, End
  <2>3. JhFrame BY <2>1, <2>2, JhStill
  <2>4. disk'["jh"] = disk["jh"] /\ disk'["jhEni"] = disk["jhEni"]
    <3>1. CASE pc = "idle"
      <4>1. ~Save17 /\ ~Save17b /\ ~Save17e /\ ~UpDone /\ ~Save17eDown /\ ~DownDone BY <3>1, Starts
      <4>2. disk' = disk BY <2>1, <4>1, Frames
      <4>3. QED BY <4>2
    <3>2. CASE pc # "idle" BY <2>0, <2>1, <3>2, Saves DEF Without
    <3>3. QED BY <3>1, <3>2
  <2>5. pc' # "idle" => mem'["jh"] = disk["jh"] /\ mem'["jhEni"] = disk["jhEni"]
    <3>1. CASE StartUp \/ StartDown BY <3>1 DEF StartUp, StartDown
    <3>2. CASE UpMove \/ DownStep
      <4>1. pc # "idle" BY <3>2, Origins, Apart
      <4>2. pc' # "idle" => mem'["jh"] = mem["jh"] /\ mem'["jhEni"] = mem["jhEni"]
        BY <2>1, <2>2, <3>2, MemSteps
      <4>3. QED BY <2>0, <4>1, <4>2
    <3>3. QED BY <3>1, <3>2 DEF Next, UpMove
  <2>6. CASE JhWired(disk)
    <3>1. PICK j \in Runs, e \in Runs : disk["jh"] = j /\ disk["jhEni"] = e /\ WiredAt(j, e)
      BY <2>6 DEF JhWired
    <3>2. disk'["jh"] = j /\ disk'["jhEni"] = e /\ WiredAt(j, e)' BY <2>3, <2>4, <3>1, JhFrames
    <3>3. JhWired(disk)' BY <3>2 DEF JhWired
    <3>4. QED BY <2>4, <2>5, <3>3
  <2>7. CASE NoJh(disk)
    <3>1. NoJh(disk)' BY <2>3, <2>4, <2>7, JhFrames DEF NoJh
    <3>2. QED BY <2>4, <2>5, <3>1
  <2>8. QED BY <2>0, <2>6, <2>7
<1>3. QED BY <1>1, <1>2

LEMMA JhMakes ==
  ASSUME TypeOK, Control, Plain, Single, Attached, Built, Jumphost, Next, ~Outside, faults' = 0
  PROVE /\ pc' = "jhWait" => \E j \in Runs : mem'["jh"] = j /\ Has("jh")' = {j} /\ OnHost(<<"jh", j>>)' = {}
        /\ pc' = "jhWait" => Has("jhEni")' = {} /\ mem'["jhEni"] = None
        /\ pc' = "jhEni" => JhWired(mem)' \/ (JhBare' /\ Has("jhEni")' = {} /\ mem'["jhEni"] = None)
        /\ pc' \in {"jhEniOff", "jhEniAttach"} => JhBare' /\ Has("jhEni")' = {mem'["jhEni"]}
        /\ pc' = "save17b" => JhWired(mem)'
<1> USE Calm, Sorts, RefFacts DEF Goto, Go, Dropped, Told
<1>0. mem \in [Keys -> Ref] BY DEF TypeOK
<1>1. ASSUME pc' \in {"jhWait", "jhEni", "jhEniOff", "jhEniAttach", "save17b"} PROVE UpMove
  <2>1. pc' \in UpPoints /\ pc' # "tmm" BY <1>1 DEF UpPoints
  <2>2. pc \in UpPoints /\ pc' # "idle" BY <2>1, Within
  <2>3. QED BY <2>2, UpKeeps
<1>2. ASSUME pc = "jh", JhFound \/ JhLaunch
      PROVE (JhWired(disk) \/ NoJh(disk)) /\ mem["jh"] = disk["jh"] /\ mem["jhEni"] = disk["jhEni"]
  BY <1>2, JhPlaces DEF Jumphost
<1>3. ASSUME pc' = "jhWait"
      PROVE /\ \E j \in Runs : mem'["jh"] = j /\ Has("jh")' = {j} /\ OnHost(<<"jh", j>>)' = {}
            /\ Has("jhEni")' = {} /\ mem'["jhEni"] = None
  <2>1. JhLaunch BY <1>1, <1>3, Arrivals
  <2>2. pc = "jh" /\ run \in Runs BY <2>1, Starts DEF Control, UpPoints
  <2>3. Alive("jh") = {} /\ Create("jh", "creating", "jhWait") BY <1>3, <2>1 DEF JhLaunch, Refuse, End
  <2>4. NoJh(disk) /\ mem["jhEni"] = None
    <3>1. ~JhWired(disk) BY <2>3 DEF JhWired, WiredAt, Alive
    <3>2. QED BY <1>2, <2>1, <2>2, <3>1 DEF NoJh
  <2>5. Become(<<"jh", run>>, "creating") /\ UNCHANGED att /\ mem'["jh"] = run /\ mem'["jhEni"] = mem["jhEni"]
    BY <1>0, <2>3 DEF Create, Set, OnlyStatus
  <2>6. Has("jh")' = {run}
    <3>1. \A r \in Runs \ {run} : r \in Has("jh")' <=> r \in Has("jh") BY <2>2, <2>5, Turned DEF States
    <3>2. run \in Has("jh")' BY <2>2, <2>5, Turned DEF States
    <3>3. Has("jh")' \subseteq Runs BY DEF Has
    <3>4. QED BY <2>2, <2>4, <3>1, <3>2, <3>3 DEF NoJh
  <2>7. Has("jhEni")' = {}
    <3>1. \A r \in Runs : status'[<<"jhEni", r>>] = status[<<"jhEni", r>>] BY <2>2, <2>5, OnlyThat DEF Only
    <3>2. QED BY <2>4, <3>1, Same DEF NoJh
  <2>8. ASSUME NEW q \in Runs, q = run PROVE OnHost(<<"jh", q>>)' = {}
    <3>1. \A a \in att : a[2] # <<"jh", q>> BY <2>4 DEF Attached, NoJh, Node
    <3>2. \A a \in att' : a[2] # <<"jh", q>> BY <2>5, <3>1
    <3>3. QED BY <3>2 DEF OnHost
  <2>9. QED BY <2>2, <2>4, <2>5, <2>6, <2>7, <2>8
<1>4. ASSUME pc' = "jhEni" PROVE JhWired(mem)' \/ (JhBare' /\ Has("jhEni")' = {} /\ mem'["jhEni"] = None)
  <2>1. JhFound \/ JhWait BY <1>1, <1>4, Arrivals
  <2>2. UNCHANGED cloud BY <1>4, <2>1 DEF JhFound, HostFound, JhWait, Waited, Fail, Refuse, End
  <2>3. JhFrame BY <2>2 DEF JhFrame, OnHost, cloud
  <2>4. CASE JhFound
    <3>1. pc = "jh" BY <2>4, Starts
    <3>2. PICK r : r \in (IF Running("jh") THEN {mem["jh"]} ELSE Alive("jh")) /\ Set("jh", r)
      BY <2>4 DEF JhFound, HostFound
    <3>3. r \in Alive("jh") BY <1>0, <3>2 DEF Running, Alive
    <3>4. ~NoJh(disk) BY <3>3 DEF NoJh
    <3>5. PICK j \in Runs, e \in Runs : disk["jh"] = j /\ disk["jhEni"] = e /\ WiredAt(j, e)
      BY <1>2, <2>4, <3>1, <3>4 DEF JhWired
    <3>6. r = j /\ mem["jhEni"] = e BY <1>2, <2>4, <3>1, <3>3, <3>5 DEF WiredAt
    <3>7. mem'["jh"] = j /\ mem'["jhEni"] = e BY <1>0, <3>2, <3>6 DEF Set
    <3>8. WiredAt(j, e)' BY <2>3, <3>5, JhFrames
    <3>9. JhWired(mem)' BY <3>7, <3>8 DEF JhWired
    <3>10. QED BY <3>9
  <2>5. CASE JhWait
    <3>1. pc = "jhWait" BY <2>5, Starts
    <3>2. PICK j \in Runs : mem["jh"] = j /\ Has("jh") = {j} /\ OnHost(<<"jh", j>>) = {}
      BY <3>1 DEF Jumphost
    <3>3. status[<<"jh", j>>] = "ready" /\ mem' = mem
      BY <1>4, <2>5, <3>2 DEF JhWait, Waited, Fail, Refuse, End
    <3>4. BareAt(j) BY <3>2, <3>3 DEF BareAt
    <3>5. BareAt(j)' /\ Has("jhEni")' = Has("jhEni") BY <2>3, <3>4, JhFrames
    <3>6. Has("jhEni") = {} /\ mem["jhEni"] = None BY <3>1 DEF Jumphost
    <3>7. JhBare' BY <3>2, <3>3, <3>5 DEF JhBare
    <3>8. QED BY <3>3, <3>5, <3>6, <3>7
  <2>6. QED BY <2>1, <2>4, <2>5
<1>5. ASSUME pc' \in {"jhEniOff", "jhEniAttach"} PROVE JhBare' /\ Has("jhEni")' = {mem'["jhEni"]}
  <2>1. JhEni \/ JhEniOff BY <1>1, <1>5, Arrivals
  <2>2. CASE JhEni
    <3>1. pc = "jhEni" /\ run \in Runs BY <2>2, Starts DEF Control, UpPoints
    <3>2. mem["jhEni"] = None /\ Has("jhEni") = {} /\ Create("jhEni", "ready", "jhEniOff")
      BY <1>5, <2>2 DEF JhEni, Reuse, New
    <3>3. PICK j \in Runs : mem["jh"] = j /\ BareAt(j)
      <4>1. ~JhWired(mem) BY <3>2 DEF JhWired
      <4>2. QED BY <3>1, <4>1 DEF Jumphost, JhBare
    <3>4. Become(<<"jhEni", run>>, "ready") /\ UNCHANGED att /\ mem'["jhEni"] = run /\ mem'["jh"] = mem["jh"]
      BY <1>0, <3>2 DEF Create, Set, OnlyStatus
    <3>5. \A r \in Runs : status'[<<"jh", r>>] = status[<<"jh", r>>] BY <3>1, <3>4, OnlyThat DEF Only
    <3>6. Has("jh")' = Has("jh") BY <3>5, Same
    <3>7. OnHost(<<"jh", j>>)' = OnHost(<<"jh", j>>) BY <3>4 DEF OnHost
    <3>8. BareAt(j)' BY <3>3, <3>5, <3>6, <3>7 DEF BareAt
    <3>9. JhBare' BY <3>3, <3>4, <3>8 DEF JhBare
    <3>10. Has("jhEni")' = {run}
      <4>1. \A r \in Runs \ {run} : r \in Has("jhEni")' <=> r \in Has("jhEni")
        BY <3>1, <3>4, Turned DEF States
      <4>2. run \in Has("jhEni")' BY <3>1, <3>4, Turned DEF States
      <4>3. Has("jhEni")' \subseteq Runs BY DEF Has
      <4>4. QED BY <3>1, <3>2, <4>1, <4>2, <4>3
    <3>11. QED BY <3>4, <3>9, <3>10
  <2>3. CASE JhEniOff
    <3>1. pc = "jhEniOff" BY <2>3, Starts
    <3>2. PICK j \in Runs : mem["jh"] = j /\ BareAt(j) BY <3>1 DEF Jumphost, JhBare
    <3>3. UNCHANGED <<status, att, mem>> BY <2>3 DEF JhEniOff, Configure, OnlyConf
    <3>4. JhFrame BY <3>3 DEF JhFrame, OnHost
    <3>5. BareAt(j)' /\ Has("jhEni")' = Has("jhEni") BY <3>2, <3>4, JhFrames
    <3>6. Has("jhEni") = {mem["jhEni"]} BY <3>1 DEF Jumphost
    <3>7. JhBare' BY <3>2, <3>3, <3>5 DEF JhBare
    <3>8. QED BY <3>3, <3>5, <3>6, <3>7
  <2>4. QED BY <2>1, <2>2, <2>3
<1>6. ASSUME pc' = "save17b" PROVE JhWired(mem)'
  <2>1. JhEni \/ JhEniAttach BY <1>1, <1>6, Arrivals
  <2>2. CASE JhEni
    <3>1. pc = "jhEni" BY <2>2, Starts
    <3>2. PICK r \in Known("jhEni") : Set("jhEni", r) /\ UNCHANGED cloud
      BY <1>6, <2>2 DEF JhEni, Reuse, New, Create
    <3>3. ~(Has("jhEni") = {} /\ mem["jhEni"] = None) BY <3>2 DEF Known
    <3>4. PICK j \in Runs, e \in Runs : mem["jh"] = j /\ mem["jhEni"] = e /\ WiredAt(j, e)
      BY <3>1, <3>3 DEF Jumphost, JhWired
    <3>5. r = e BY <3>2, <3>4 DEF Known
    <3>6. mem'["jh"] = j /\ mem'["jhEni"] = e BY <1>0, <3>2, <3>4, <3>5 DEF Set
    <3>7. JhFrame BY <3>2 DEF JhFrame, OnHost, cloud
    <3>8. WiredAt(j, e)' BY <3>4, <3>7, JhFrames
    <3>9. QED BY <3>6, <3>8 DEF JhWired
  <2>3. CASE JhEniAttach
    <3>1. pc = "jhEniAttach" BY <2>3, Starts
    <3>2. PICK j \in Runs : mem["jh"] = j /\ BareAt(j) BY <3>1 DEF Jumphost, JhBare
    <3>3. Has("jhEni") = {mem["jhEni"]} BY <3>1 DEF Jumphost
    <3>4. PICK e \in Runs : e = mem["jhEni"] BY <3>3
    <3>5. att' = att \cup {<< <<"jhEni", e>>, <<"jh", j>> >>} /\ UNCHANGED <<status, mem>>
      BY <1>6, <2>3, <3>2, <3>4 DEF JhEniAttach, OnlyAtt, Fail, Refuse, End
    <3>6. \A a \in att : a[2] # <<"jh", j>> BY <3>2 DEF BareAt, OnHost
    <3>7. {b \in att' : b[2] = <<"jh", j>>} = {<< <<"jhEni", e>>, <<"jh", j>> >>} BY <3>5, <3>6
    <3>8. OnHost(<<"jh", j>>)' = {<<"jhEni", e>>}
      <4>1. OnHost(<<"jh", j>>)' = {a[1] : a \in {b \in att' : b[2] = <<"jh", j>>}} BY DEF OnHost
      <4>2. {a[1] : a \in {<< <<"jhEni", e>>, <<"jh", j>> >>}} = {<<"jhEni", e>>} OBVIOUS
      <4>3. QED BY <3>7, <4>1, <4>2
    <3>9. Has("jh")' = Has("jh") /\ Has("jhEni")' = Has("jhEni") BY <3>5 DEF Has
    <3>10. WiredAt(j, e)' BY <3>2, <3>3, <3>4, <3>5, <3>8, <3>9 DEF WiredAt, BareAt
    <3>11. QED BY <3>2, <3>4, <3>5, <3>10 DEF JhWired
  <2>4. QED BY <2>1, <2>2, <2>3
<1>7. QED BY <1>3, <1>4, <1>5, <1>6

LEMMA JhUnmakes ==
  ASSUME TypeOK, Control, Plain, Built, Jumphost, Next, ~Outside, faults' = 0
  PROVE /\ pc' = "jhEnding" => Has("jh")' \subseteq {mem'["jh"]}
        /\ pc' \in {"jhEnding", "jhEniDown"} => Has("jhEni")' \subseteq {mem'["jhEni"]}
        /\ pc' \in JhDown \ {"jhEnding"} => Has("jh")' = {}
        /\ pc' \in JhDown \ {"jhEnding", "jhEniDown"} => Has("jhEni")' = {}
<1> USE Calm, Sorts, RefFacts DEF Goto, Go, Dropped, Told
<1>0. mem \in [Keys -> Ref] BY DEF TypeOK
<1>1. ASSUME pc' \in JhDown PROVE DownStep /\ ~UpMove
  <2>1. pc' \in DownPoints /\ pc' # "veEnd" /\ pc' # "idle" /\ pc' # "tmm" BY <1>1 DEF JhDown, DownPoints
  <2>2. DownStep BY <2>1, Apart, Flow
  <2>3. QED BY <2>2, Origins, Apart
<1>2. ASSUME pc' \in JhDown \ {"jhEnding"}
      PROVE /\ pc \in JhDown
            /\ pc # "jhEnding" \/ JhEnded
            /\ pc' \notin {"jhEnding", "jhEniDown"} => (pc \notin {"jhEnding", "jhEniDown"} \/ JhEniDown)
  BY <1>1, <1>2, DownArrivals, Starts DEF JhDown
<1>3. ASSUME pc' = "jhEnding"
      PROVE Has("jh")' \subseteq {mem'["jh"]} /\ Has("jhEni")' \subseteq {mem'["jhEni"]}
  <2>1. JhEnd BY <1>1, <1>3, DownArrivals DEF JhDown
  <2>2. pc = "jhEnd" BY <2>1, Starts
  <2>3. (JhWired(disk) \/ NoJh(disk)) /\ mem["jh"] = disk["jh"] /\ mem["jhEni"] = disk["jhEni"]
    BY <2>2, JhPlaces DEF Jumphost
  <2>4. PICK r \in Ref : /\ mem' = [mem EXCEPT !["jh"] = r]
                         /\ r \in (IF mem["jh"] # None THEN {mem["jh"]}
                                   ELSE IF Alive("jh") = {} THEN {None} ELSE Alive("jh"))
    BY <2>1 DEF JhEnd, Terminate, Aim, Set
  <2>5. \A q \in Runs : status'[<<"jhEni", q>>] = status[<<"jhEni", q>>]
    <3>1. ~JhEni /\ ~JhEniDown BY <2>2, Starts
    <3>2. QED BY <3>1, Untouched DEF Concerns
  <2>6. Has("jhEni")' = Has("jhEni") BY <2>5, Same
  <2>7. Has("jh")' \subseteq Has("jh")
    <3>1. ~JhLaunch BY <2>2, Starts
    <3>2. QED BY <3>1, HostHas DEF Launch
  <2>8. Has("jh") \subseteq {mem["jh"]} /\ Has("jhEni") \subseteq {mem["jhEni"]}
    BY <2>3 DEF JhWired, WiredAt, NoJh
  <2>9. Has("jh") # {} => r = mem["jh"] BY <2>4, <2>8
  <2>10. mem'["jh"] = r /\ mem'["jhEni"] = mem["jhEni"] BY <1>0, <2>4
  <2>11. QED BY <2>6, <2>7, <2>8, <2>9, <2>10
<1>4. ASSUME pc' \in JhDown \ {"jhEnding"} PROVE Has("jh")' = {}
  <2>1. ~JhLaunch BY <1>2, <1>4, Starts DEF JhDown
  <2>2. Has("jh")' \subseteq Has("jh") BY <2>1, HostHas DEF Launch
  <2>3. CASE pc # "jhEnding" BY <1>2, <1>4, <2>2, <2>3, JhPlaces DEF Jumphost
  <2>4. CASE JhEnded
    <3>1. pc = "jhEnding" /\ mem["jh"] \notin Has("jh") BY <2>4, Starts DEF JhEnded, Terminated
    <3>2. QED BY <2>2, <3>1 DEF Jumphost
  <2>5. QED BY <1>2, <1>4, <2>3, <2>4
\* What JhEniDown goes for is the interface there is.
<1>5. ASSUME JhEniDown
      PROVE \E r \in Ref : /\ mem' = [mem EXCEPT !["jhEni"] = r] /\ Has("jhEni") \subseteq {r}
                           /\ \/ r \notin Has("jhEni") /\ UNCHANGED cloud
                              \/ r \in Has("jhEni") /\ Become(<<"jhEni", r>>, "none")
                              \/ UNCHANGED <<status, pc>>
  <2>1. PICK r \in Ref : /\ mem' = [mem EXCEPT !["jhEni"] = r]
                         /\ r \in (IF mem["jhEni"] # None THEN {mem["jhEni"]}
                                   ELSE IF Has("jhEni") = {} THEN {None} ELSE Has("jhEni"))
                         /\ \/ r \notin Has("jhEni") /\ UNCHANGED cloud
                            \/ r \in Has("jhEni") /\ Become(<<"jhEni", r>>, "none")
                            \/ UNCHANGED <<status, pc>>
    BY <1>5 DEF JhEniDown, EniDown, Aim, Set, Remove, OnlyAtt
  <2>2. Has("jhEni") \subseteq {mem["jhEni"]} BY <1>5, Starts DEF Jumphost
  <2>3. Has("jhEni") \subseteq {r} BY <2>1, <2>2
  <2>4. QED BY <2>1, <2>3
<1>6. ASSUME pc' = "jhEniDown" PROVE Has("jhEni")' \subseteq {mem'["jhEni"]}
  <2>1. JhEnded \/ JhEniDown BY <1>1, <1>6, DownArrivals DEF JhDown
  <2>2. CASE JhEnded
    <3>1. pc = "jhEnding" /\ UNCHANGED <<status, mem>> BY <2>2, Starts DEF JhEnded, Terminated, cloud
    <3>2. QED BY <3>1 DEF Jumphost, Has
  <2>3. CASE JhEniDown
    <3>1. PICK r \in Ref : mem' = [mem EXCEPT !["jhEni"] = r] /\ Has("jhEni") \subseteq {r} BY <1>5, <2>3
    <3>2. mem'["jhEni"] = r BY <1>0, <3>1
    <3>3. Has("jhEni")' \subseteq Has("jhEni")
      <4>1. ~UpMove BY <1>1, <1>6 DEF JhDown
      <4>2. ~Born("jhEni") BY <2>3, Starts, Apart DEF Born, DownPoints, UpPoints, OnboardPoints
      <4>3. "jhEni" \in Kinds \ {"jh", "ve", "eice"} OBVIOUS
      <4>4. QED BY <4>2, <4>3, HasFate
    <3>4. QED BY <3>1, <3>2, <3>3
  <2>4. QED BY <2>1, <2>2, <2>3
<1>7. ASSUME pc' \in JhDown \ {"jhEnding", "jhEniDown"} PROVE Has("jhEni")' = {}
  <2>1. CASE JhEniDown
    <3>1. PICK r \in Ref : /\ Has("jhEni") \subseteq {r}
                           /\ \/ r \notin Has("jhEni") /\ UNCHANGED cloud
                              \/ r \in Has("jhEni") /\ Become(<<"jhEni", r>>, "none")
                              \/ UNCHANGED <<status, pc>>
      BY <1>5, <2>1
    <3>2. pc # pc' BY <1>7, <2>1, Starts
    <3>3. CASE r \notin Has("jhEni") /\ UNCHANGED cloud BY <3>1, <3>3 DEF cloud, Has
    <3>4. CASE r \in Has("jhEni") /\ Become(<<"jhEni", r>>, "none")
      <4>1. /\ \A q \in Runs \ {r} : q \in Has("jhEni")' <=> q \in Has("jhEni")
            /\ r \notin Has("jhEni")' /\ Has("jhEni")' \subseteq Runs
        <5>1. Has("jhEni")' \subseteq Runs BY DEF Has
        <5>2. QED BY <3>4, <5>1, Turned DEF States
      <4>2. QED BY <3>1, <4>1
    <3>5. QED BY <3>1, <3>2, <3>3, <3>4
  <2>2. CASE ~JhEniDown
    <3>1. pc \in JhDown \ {"jhEnding", "jhEniDown"} BY <1>2, <1>7, <2>2
    <3>2. Has("jhEni") = {} BY <3>1, JhPlaces DEF Jumphost
    <3>3. ~JhEni BY <3>1, Starts DEF JhDown
    <3>4. \A q \in Runs : status'[<<"jhEni", q>>] = status[<<"jhEni", q>>]
      BY <2>2, <3>3, Untouched DEF Concerns
    <3>5. QED BY <3>2, <3>4, Same
  <2>3. QED BY <2>1, <2>2
<1>8. QED BY <1>3, <1>4, <1>6, <1>7

LEMMA JumphostOutside ==
  ASSUME TypeOK, Control, Plain, Built, Jumphost, Outside, Next, faults' = 0 PROVE Jumphost'
<1> USE Calm, Sorts
<1>1. UNCHANGED <<pc, mem, disk>> BY OutsideKeeps
<1>2. Has("jh")' \subseteq Has("jh") /\ Has("jhEni")' = Has("jhEni")
  <2>1. \A q \in Runs : status'[<<"jhEni", q>>] = status[<<"jhEni", q>>]
    <3>1. "jhEni" \in Kinds /\ "jhEni" \in Kinds \ {"jh", "ve", "eice"} OBVIOUS
    <3>2. \A q \in Runs : status[<<"jhEni", q>>] \in {"none", "ready"} BY <3>1 DEF Plain
    <3>3. \A q \in Runs : ~Gone(<<"jhEni", q>>) BY <3>2 DEF Gone
    <3>4. QED BY <3>1, <3>2, <3>3, OutsideFate
  <2>2. QED BY <2>1, Same, OutsideHas
<1>3. \A j, e \in Runs : WiredAt(j, e) => WiredAt(j, e)'
  <2>1. ASSUME NEW j \in Runs, NEW e \in Runs, WiredAt(j, e) PROVE WiredAt(j, e)'
    <3>1. \A r \in Has("jh") : status[<<"jh", r>>] = "ready" BY <2>1 DEF WiredAt
    <3>2. QED BY <2>1, <3>1, JhOutside, JhFrames
  <2>2. QED BY <2>1
<1>4. \A j \in Runs : BareAt(j) => BareAt(j)'
  <2>1. ASSUME NEW j \in Runs, BareAt(j) PROVE BareAt(j)'
    <3>1. \A r \in Has("jh") : status[<<"jh", r>>] = "ready" BY <2>1 DEF BareAt
    <3>2. QED BY <2>1, <3>1, JhOutside, JhFrames
  <2>2. QED BY <2>1
<1>5. JhWired(disk) => JhWired(disk)'
  <2>1. ASSUME NEW j \in Runs, NEW e \in Runs, disk["jh"] = j, disk["jhEni"] = e, WiredAt(j, e)
        PROVE JhWired(disk)'
    BY <1>1, <1>3, <2>1 DEF JhWired
  <2>2. QED BY <2>1 DEF JhWired
<1>6. JhWired(mem) => JhWired(mem)'
  <2>1. ASSUME NEW j \in Runs, NEW e \in Runs, mem["jh"] = j, mem["jhEni"] = e, WiredAt(j, e)
        PROVE JhWired(mem)'
    BY <1>1, <1>3, <2>1 DEF JhWired
  <2>2. QED BY <2>1 DEF JhWired
<1>7. JhBare => JhBare' BY <1>1, <1>4 DEF JhBare
<1>8. NoJh(disk) => NoJh(disk)' BY <1>1, <1>2 DEF NoJh
<1>9. ASSUME pc = "jhWait"
      PROVE \E j \in Runs : mem'["jh"] = j /\ Has("jh")' = {j} /\ OnHost(<<"jh", j>>)' = {}
  <2>1. PICK j \in Runs : mem["jh"] = j /\ Has("jh") = {j} /\ OnHost(<<"jh", j>>) = {} BY <1>9 DEF Jumphost
  <2>2. j \in Alive("jh") BY <1>9, <2>1 DEF Built, JhBuilt, FromJh, FromSsh, FromEice, FromRole, UpPoints
  <2>3. j \in Alive("jh")' /\ OnHost(<<"jh", j>>)' = OnHost(<<"jh", j>>) BY <2>2, OutsideKeeps
  <2>4. Has("jh")' = {j}
    <3>1. j \in Has("jh")' BY <2>3 DEF Alive, Has
    <3>2. QED BY <1>2, <2>1, <3>1
  <2>5. QED BY <1>1, <2>1, <2>3, <2>4
<1>10. QED BY <1>1, <1>2, <1>5, <1>6, <1>7, <1>8, <1>9 DEF Jumphost

LEMMA JumphostStep ==
  ASSUME TypeOK, Control, Plain, Single, Attached, Built, Jumphost, Next PROVE Jumphost'
<1>1. CASE faults' # 0 BY <1>1 DEF Jumphost
<1>2. CASE faults' = 0 /\ Outside BY <1>2, JumphostOutside
<1>3. CASE faults' = 0 /\ ~Outside
  <2>1. /\ PastJh \ (PastSave17b \cup {"jhEnding"}) = JhDown \ {"jhEnding"}
        /\ PastJhEni \ PastSave17b = JhDown \ {"jhEnding", "jhEniDown"}
    BY JhPlaces
  <2>2. QED BY <1>3, <2>1, JhRests, JhMakes, JhUnmakes DEF Jumphost
<1>4. QED BY <1>1, <1>2, <1>3

-----------------------------------------------------------------------------
(* The endpoint and the jumphost's group while nothing goes wrong.          *)

LEMMA EicePoints == ASSUME Next, ~Abort, ~Outside
  PROVE /\ pc = "jhSg" => JhSg
        /\ pc = "eice" => EiceFound \/ EiceCreate
        /\ pc = "eiceWait" => EiceReady
        /\ pc = "ssh" => Ssh
        /\ pc = "veRules" => VeRules
        /\ pc = "veSgDown" => VeSgDown \/ VeSgRefused
        /\ pc = "tmmOwn" => TmmOwn \/ TmmList
        /\ pc = "tmmTagged" => TmmTagged
        /\ pc = "save17Down" => DownDone
<1>1. StartUp \/ StartDown \/ LoseFiles \/ LoseHost => pc = "idle"
  BY DEF StartUp, StartDown, LoseFiles, LoseHost, At
<1>2. QED BY <1>1, Starts DEF Next, UpStep, OnboardStep, DownStep

LEMMA EicePlaces ==
  /\ PastEice \ PastSave17b = {"eiceGone", "jhSgRefs", "jhSgDown", "leave", "profileDown", "roleDown", "save17bDown"}
  /\ PastJhSg \ PastSave17b = {"leave", "profileDown", "roleDown", "save17bDown"}
  /\ PastSave17b \subseteq PastEice /\ PastEice \subseteq DownPoints /\ PastRefs \subseteq PastEice
  /\ PastSave17b = {"tmmOwn", "tmmTagged", "save17Down"}
  /\ {"veEnd", "veEnding", "veMgmtDown", "veExtDown", "veSgDown", "keyDown", "pemDown", "save17eDown",
      "jhEnd", "jhEnding", "jhEniDown", "eiceDown"} = DownPoints \ PastEice
  /\ DownPoints \ PastRefs = (DownPoints \ PastEice) \cup {"eiceGone", "jhSgRefs"}
<1> USE DEF PastJh, PastSave17e, PastPem, PastKey, PastVeSg, PastExt, PastMgmt, PastVe, PastJhEni, PastEice,
  PastRefs, PastJhSg, PastSave17b, DownPoints
<1>1. PastEice = {"eiceGone", "jhSgRefs", "jhSgDown", "leave", "profileDown", "roleDown", "save17bDown",
                  "tmmOwn", "tmmTagged", "save17Down"} OBVIOUS
<1>2. PastRefs = PastEice \ {"eiceGone", "jhSgRefs"} BY DEF PastRefs
<1>3. PastJhSg = {"leave", "profileDown", "roleDown", "save17bDown", "tmmOwn", "tmmTagged", "save17Down"}
  BY <1>1
<1>4. DownPoints = {"veEnd", "veEnding", "veMgmtDown", "veExtDown", "veSgDown", "keyDown", "pemDown", "save17eDown",
      "jhEnd", "jhEnding", "jhEniDown", "eiceDown"} \cup PastEice BY <1>1
<1> USE DEF PastSave17b
<1> HIDE DEF PastJh, PastSave17e, PastPem, PastKey, PastVeSg, PastExt, PastMgmt, PastVe, PastJhEni,
  PastEice, PastRefs,
  PastJhSg, DownPoints
<1>5. PastEice \ PastSave17b = {"eiceGone", "jhSgRefs", "jhSgDown", "leave", "profileDown", "roleDown", "save17bDown"}
  BY <1>1
<1>6. PastJhSg \ PastSave17b = {"leave", "profileDown", "roleDown", "save17bDown"} BY <1>3
<1>7. PastSave17b \subseteq PastEice BY <1>1
<1>8. DownPoints \ PastEice = {"veEnd", "veEnding", "veMgmtDown", "veExtDown", "veSgDown", "keyDown", "pemDown",
      "save17eDown", "jhEnd", "jhEnding", "jhEniDown", "eiceDown"} BY <1>1, <1>4
<1>9. PastEice \subseteq DownPoints BY <1>4
<1>10. DownPoints \ PastRefs = (DownPoints \ PastEice) \cup {"eiceGone", "jhSgRefs"} BY <1>1, <1>2, <1>4
<1>11. QED BY <1>2, <1>5, <1>6, <1>7, <1>8, <1>9, <1>10

\* Past the endpoint and the group, `down` goes on to the end of the phase.
LEMMA EiceOnward == ASSUME TypeOK, Next, ~Abort, ~Outside
  PROVE /\ pc \in PastEice \ PastSave17b => Save17bDown \/ pc' \in PastEice \ PastSave17b
        /\ pc \in PastJhSg \ PastSave17b => Save17bDown \/ pc' \in PastJhSg \ PastSave17b
        /\ pc \in PastSave17b => DownDone \/ pc' \in PastSave17b
<1> USE EicePlaces DEF Goto, Go
<1>1. CASE pc \in {"eiceGone", "jhSgRefs", "jhSgDown"}
  BY <1>1, JhPoints DEF EiceGone, JhSgRefs, JhSgDown, Terminated
<1>2. CASE pc \in {"leave", "profileDown", "roleDown", "save17bDown"}
  BY <1>2, JhPoints DEF Leave, ProfileDown, RoleDown
<1>3. CASE pc \in {"tmmOwn", "tmmTagged", "save17Down"}
  BY <1>3, EicePoints DEF TmmOwn, TmmList, TmmTagged
<1>4. QED BY <1>1, <1>2, <1>3

LEMMA EiceFate == ASSUME TypeOK, Control, Plain, Next
  PROVE \/ \A r \in Runs : status'[<<"eice", r>>] = status[<<"eice", r>>]
        \/ /\ EiceCreate /\ Has("eice") = {} /\ run \in Runs /\ Become(<<"eice", run>>, "creating")
           /\ mem' = [mem EXCEPT !["eice"] = run] /\ pc' = "eiceWait"
        \/ /\ EiceDown /\ pc' = "eiceGone"
           /\ \E r \in Has("eice") : Become(<<"eice", r>>, "deleting") /\ mem' = [mem EXCEPT !["eice"] = r]
        \/ Outside /\ \E q \in Alive("eice") : /\ status[<<"eice", q>>] = "creating"
                                               /\ \E s \in {"ready", "failed"} : Become(<<"eice", q>>, s)
        \/ Outside /\ \E q \in Has("eice") : Gone(<<"eice", q>>)
<1> USE Sorts
<1>1. CASE EiceCreate
  <2>1. run \in Runs BY <1>1, Starts DEF Control, UpPoints
  <2>2. CASE Has("eice") = {} BY <1>1, <2>1, <2>2 DEF EiceCreate, Create, Set, Goto
  <2>3. CASE Has("eice") # {} BY <1>1, <2>3 DEF EiceCreate, cloud
  <2>4. QED BY <2>2, <2>3
<1>2. CASE EiceDown
  <2>1. PICK r \in Ref :
          /\ mem' = [mem EXCEPT !["eice"] = r] /\ pc' = "eiceGone"
          /\ IF r \in Has("eice") THEN Become(<<"eice", r>>, "deleting") ELSE UNCHANGED status
    BY <1>2 DEF EiceDown, Aim, Set, Goto
  <2>2. QED BY <1>2, <2>1
<1>3. CASE Outside
  <2>1. "eice" \in Kinds OBVIOUS
  <2>2. QED BY <1>3, <2>1, OutsideFate
<1>4. QED BY <1>1, <1>2, <1>3, Untouched DEF Concerns

LEMMA EiceHas == ASSUME TypeOK, Control, Plain, Next
  PROVE \/ Has("eice")' = Has("eice")
        \/ EiceCreate /\ Has("eice") = {} /\ Has("eice")' = {run} /\ mem'["eice"] = run /\ pc' = "eiceWait"
        \/ Outside /\ Has("eice")' \subseteq Has("eice") /\ \E q \in Has("eice") : Gone(<<"eice", q>>)
<1> USE Sorts
<1>0. "eice" \in Kinds /\ mem \in [Keys -> Ref] /\ Has("eice")' \subseteq Runs BY DEF TypeOK, Has
<1>1. ASSUME NEW q \in Runs, NEW s \in States, Become(<<"eice", q>>, s)
      PROVE /\ \A r \in Runs \ {q} : r \in Has("eice")' <=> r \in Has("eice")
            /\ q \in Has("eice")' <=> s # "none"
  BY <1>0, <1>1, Turned
<1>2. CASE \A r \in Runs : status'[<<"eice", r>>] = status[<<"eice", r>>] BY <1>2, Same
<1>3. CASE /\ EiceCreate /\ Has("eice") = {} /\ run \in Runs /\ Become(<<"eice", run>>, "creating")
           /\ mem' = [mem EXCEPT !["eice"] = run] /\ pc' = "eiceWait"
  <2>1. Has("eice")' = {run} BY <1>0, <1>1, <1>3 DEF States
  <2>2. QED BY <1>0, <1>3, <2>1
<1>4. ASSUME NEW r \in Has("eice"), NEW s \in {"ready", "failed", "deleting"}, Become(<<"eice", r>>, s)
      PROVE Has("eice")' = Has("eice")
  BY <1>0, <1>1, <1>4 DEF States
<1>5. ASSUME Outside PROVE Has("eice")' \subseteq Has("eice") BY <1>0, <1>5, OutsideHas
<1>6. QED BY <1>2, <1>3, <1>4, <1>5, EiceFate

\* An `up` saves what it holds.
LEMMA SavePoints == ASSUME TypeOK, Next, disk' # disk, ~LoseFiles, ~Save17eDown, ~Save17bDown, ~DownDone
  PROVE pc \in UpPoints /\ disk' = mem /\ (mem' = mem \/ pc' = "idle") /\ UNCHANGED cloud
<1>1. Save17 \/ Save17b \/ Save17e \/ UpDone BY Frames
<1>2. pc \in UpPoints BY <1>1, Starts DEF UpPoints, OnboardPoints
<1>3. QED BY <1>1, <1>2 DEF Save17, Save17b, Save17e, UpDone, SaveAnd, End

\* There is one endpoint, on its way only while it is waited for.
LEMMA EiceOne == ASSUME TypeOK, Control, Plain, Endpoint, Next, faults' = 0
  PROVE /\ \A a, b \in Has("eice")' : a = b
        /\ \A r \in Runs : /\ status'[<<"eice", r>>] = "creating" => pc' = "eiceWait" /\ r = mem'["eice"]
                           /\ status'[<<"eice", r>>] = "deleting" => pc' = "eiceGone" /\ r = mem'["eice"]
<1> USE Sorts, Calm
<1>0. "eice" \in Kinds /\ mem \in [Keys -> Ref] /\ (\A r \in Runs : <<"eice", r>> \in Id) BY DEF TypeOK
<1>1. /\ \A a, b \in Has("eice") : a = b
      /\ \A r \in Runs : /\ status[<<"eice", r>>] = "creating" => pc = "eiceWait" /\ r = mem["eice"]
                         /\ status[<<"eice", r>>] = "deleting" => pc = "eiceGone" /\ r = mem["eice"]
  BY DEF Endpoint
<1>2. \A a, b \in Has("eice")' : a = b BY <1>1, EiceHas
<1>3. ASSUME NEW q \in Runs, NEW s, Become(<<"eice", q>>, s), q \in Has("eice") \/ Has("eice") = {}
      PROVE status'[<<"eice", q>>] = s /\ \A r \in Runs \ {q} : status'[<<"eice", r>>] = "none"
  <2>1. status'[<<"eice", q>>] = s BY <1>0, <1>3, Become_
  <2>2. ASSUME NEW r \in Runs \ {q} PROVE status'[<<"eice", r>>] = "none"
    <3>1. status[<<"eice", r>>] = "none" BY <1>1, <1>3 DEF Has
    <3>2. <<"eice", r>> # <<"eice", q>> OBVIOUS
    <3>3. QED BY <1>0, <1>3, <3>1, <3>2, Become_
  <2>3. QED BY <2>1, <2>2
<1>4. ASSUME NEW r \in Runs
      PROVE /\ status'[<<"eice", r>>] = "creating" => pc' = "eiceWait" /\ r = mem'["eice"]
            /\ status'[<<"eice", r>>] = "deleting" => pc' = "eiceGone" /\ r = mem'["eice"]
  <2>1. CASE \A q \in Runs : status'[<<"eice", q>>] = status[<<"eice", q>>]
    <3>1. CASE Outside BY <1>1, <2>1, <3>1 DEF Outside
    <3>2. CASE ~Outside /\ status[<<"eice", r>>] = "creating"
      <4>1. EiceReady /\ r = mem["eice"] BY <1>1, <3>2, EicePoints
      <4>2. QED BY <3>2, <4>1 DEF EiceReady
    <3>3. CASE ~Outside /\ status[<<"eice", r>>] = "deleting"
      <4>1. EiceGone /\ r = mem["eice"] BY <1>1, <3>3, JhPoints
      <4>2. QED BY <3>3, <4>1 DEF EiceGone, Terminated, Has
    <3>4. QED BY <2>1, <3>1, <3>2, <3>3
  <2>2. CASE /\ EiceCreate /\ Has("eice") = {} /\ run \in Runs /\ Become(<<"eice", run>>, "creating")
             /\ mem' = [mem EXCEPT !["eice"] = run] /\ pc' = "eiceWait"
    BY <1>0, <1>3, <2>2
  <2>3. ASSUME pc' = "eiceGone", NEW q \in Has("eice"), Become(<<"eice", q>>, "deleting"), mem' = [mem EXCEPT !["eice"] = q]
        PROVE /\ status'[<<"eice", r>>] = "creating" => pc' = "eiceWait" /\ r = mem'["eice"]
              /\ status'[<<"eice", r>>] = "deleting" => pc' = "eiceGone" /\ r = mem'["eice"]
    BY <1>0, <1>3, <2>3
  <2>4. ASSUME NEW q \in Alive("eice"), NEW s \in {"ready", "failed"}, Become(<<"eice", q>>, s)
        PROVE status'[<<"eice", r>>] \notin {"creating", "deleting"}
    BY <1>3, <2>4
  <2>5. ASSUME NEW q \in Has("eice"), Gone(<<"eice", q>>)
        PROVE status'[<<"eice", r>>] \notin {"creating", "deleting"}
    <3>1. Become(<<"eice", q>>, "none") BY <2>5 DEF Gone
    <3>2. QED BY <1>3, <3>1
  <2>6. QED BY <2>1, <2>2, <2>3, <2>4, <2>5, EiceFate
<1>5. QED BY <1>2, <1>4

\* What is recorded of the endpoint.
LEMMA EiceRecord == ASSUME TypeOK, Control, Plain, Endpoint, Next, faults' = 0
  PROVE pc' \notin PastEice \ PastSave17b => disk'["eice"] \in {None} \cup Has("eice")'
<1> USE Sorts, Calm, EicePlaces
<1>0. SUFFICES ASSUME pc' \notin PastEice \ PastSave17b
               PROVE disk'["eice"] \in {None} \cup Has("eice")'
  OBVIOUS
<1>1. CASE Save17bDown
  <2>1. disk' = Without({"jh", "jhEni", "eice", "eiceSg", "jhSg"}) BY <1>1 DEF Save17bDown, ClearAnd
  <2>2. QED BY <2>1 DEF Without
<1>2. CASE ~Save17bDown
  <2>1. pc \notin PastEice \ PastSave17b BY <1>0, <1>2, EiceOnward DEF Outside
  <2>2. disk["eice"] \in {None} \cup Has("eice") BY <2>1 DEF Endpoint
  <2>3. Has("eice") \subseteq Has("eice")'
    <3>1. ASSUME Outside, NEW q \in Has("eice"), Gone(<<"eice", q>>) PROVE FALSE
      <4>1. pc = "eiceGone" BY <3>1 DEF Gone, Endpoint
      <4>2. QED BY <2>1, <4>1
    <3>2. QED BY <3>1, EiceHas
  <2>4. disk'["eice"] \in {None} \cup Has("eice")
    <3>1. CASE disk' # disk /\ ~Save17eDown /\ ~DownDone
      <4>1. pc \in UpPoints /\ disk' = mem BY <1>2, <3>1, SavePoints
      <4>2. QED BY <4>1 DEF Endpoint
    <3>2. CASE Save17eDown \/ DownDone
      <4>1. pc \in (DownPoints \ PastEice) \cup PastSave17b BY <3>2, Starts
      <4>2. mem["eice"] = disk["eice"] BY <4>1 DEF Endpoint
      <4>3. disk'["eice"] = mem["eice"]
        BY <3>2 DEF Save17eDown, ClearAnd, DownDone, Without
      <4>4. QED BY <2>2, <4>2, <4>3
    <3>3. QED BY <2>2, <3>1, <3>2
  <2>5. QED BY <2>3, <2>4
<1>3. QED BY <1>1, <1>2

\* The group exists from phase 17b of `up` to that of `down`.
LEMMA GroupStays == ASSUME TypeOK, Control, Plain, Next, NEW n \in {"jhSg", "veSg"}
  PROVE Has(n) \subseteq Has(n)' \/ (n = "jhSg" /\ JhSgDown) \/ (n = "veSg" /\ VeSgDown)
<1> USE Sorts
<1>0. n \in Kinds \ {"jh", "ve", "eice"} OBVIOUS
<1>1. CASE \A r \in Runs : status'[<<n, r>>] = status[<<n, r>>] BY <1>1, Same
<1>2. CASE (n = "jhSg" /\ JhSg) \/ (n = "veSg" /\ VeSg)
  <2>1. ~DownStep BY <1>2, Starts, Origins DEF DownPoints
  <2>2. QED BY <1>0, <2>1, HasFate
<1>3. QED BY <1>0, <1>1, <1>2, Untouched DEF Concerns

LEMMA GroupRecord == ASSUME TypeOK, Control, Plain, Endpoint, Next, faults' = 0
  PROVE pc' \notin PastJhSg \ PastSave17b => disk'["jhSg"] \in {None} \cup Has("jhSg")'
<1> USE Sorts, Calm, EicePlaces
<1>0. SUFFICES ASSUME pc' \notin PastJhSg \ PastSave17b
               PROVE disk'["jhSg"] \in {None} \cup Has("jhSg")'
  OBVIOUS
<1>1. CASE Save17bDown
  <2>1. disk' = Without({"jh", "jhEni", "eice", "eiceSg", "jhSg"}) BY <1>1 DEF Save17bDown, ClearAnd
  <2>2. QED BY <2>1 DEF Without
<1>2. CASE ~Save17bDown
  <2>1. pc \notin PastJhSg \ PastSave17b BY <1>0, <1>2, EiceOnward DEF Outside
  <2>2. disk["jhSg"] \in {None} \cup Has("jhSg") BY <2>1 DEF Endpoint
  <2>3. Has("jhSg") \subseteq Has("jhSg")'
    <3>1. ~JhSgDown BY <1>0 DEF JhSgDown, Go, Goto
    <3>2. QED BY <3>1, GroupStays
  <2>4. disk'["jhSg"] \in {None} \cup Has("jhSg")
    <3>1. CASE disk' # disk /\ ~Save17eDown /\ ~DownDone
      <4>1. pc \in UpPoints /\ disk' = mem BY <1>2, <3>1, SavePoints
      <4>2. QED BY <4>1 DEF Endpoint
    <3>2. CASE Save17eDown \/ DownDone
      <4>1. pc \in (DownPoints \ PastRefs) \cup PastSave17b BY <3>2, Starts
      <4>2. mem["jhSg"] = disk["jhSg"] BY <4>1 DEF Endpoint
      <4>3. disk'["jhSg"] = mem["jhSg"] BY <3>2 DEF Save17eDown, ClearAnd, DownDone, Without
      <4>4. QED BY <2>2, <4>2, <4>3
    <3>3. QED BY <2>2, <3>1, <3>2
  <2>5. QED BY <2>3, <2>4
<1>3. QED BY <1>1, <1>2

\* What a running `up` holds of the two.
LEMMA UpHolds == ASSUME TypeOK, Control, Plain, Built, Endpoint, Next, faults' = 0, pc' \in UpPoints
  PROVE /\ mem'["eice"] \in {None} \cup Has("eice")' /\ mem'["jhSg"] \in {None} \cup Has("jhSg")'
        /\ disk'["eice"] \in {None, mem'["eice"]}
        /\ pc' \in FromEice => mem'["jhSg"] # None
        /\ pc' \in FromSsh \cup {"eiceWait"} => mem'["eice"] # None
<1> USE Sorts, Calm, RefFacts
<1>0. mem \in [Keys -> Ref] /\ "jhSg" \in Kinds /\ "eice" \in Kinds BY DEF TypeOK
<1>1. CASE StartUp
  <2>1. mem' = disk /\ pc' = "tmm" /\ UNCHANGED <<cloud, disk>> /\ pc = "idle"
    BY <1>1 DEF StartUp, files, At
  <2>2. pc \notin PastEice /\ pc \notin PastJhSg BY <2>1, EicePlaces, Apart DEF PastJhSg
  <2>3. disk["eice"] \in {None} \cup Has("eice") /\ disk["jhSg"] \in {None} \cup Has("jhSg")
    BY <2>2 DEF Endpoint
  <2>4. Has("eice")' = Has("eice") /\ Has("jhSg")' = Has("jhSg") BY <2>1 DEF cloud, Has
  <2>5. pc' \notin FromEice /\ pc' \notin FromSsh \cup {"eiceWait"}
    BY <2>1 DEF FromEice, FromRole, FromSsh
  <2>6. QED BY <2>1, <2>3, <2>4, <2>5
<1>2. CASE pc \in UpPoints
  <2>0. run \in Runs /\ pc' # "idle" BY <1>2, Apart DEF Control
  <2>1. /\ mem["eice"] \in {None} \cup Has("eice") /\ mem["jhSg"] \in {None} \cup Has("jhSg")
        /\ disk["eice"] \in {None, mem["eice"]}
        /\ pc \in FromEice => mem["jhSg"] # None
        /\ pc \in FromSsh \cup {"eiceWait"} => mem["eice"] # None
    BY <1>2 DEF Endpoint
  <2>2. Has("jhSg") \subseteq Has("jhSg")' BY <1>2, <2>0, UpKeeps
  <2>3. Has("eice") \subseteq Has("eice")'
    <3>1. ASSUME NEW q \in Has("eice"), Gone(<<"eice", q>>) PROVE FALSE
      <4>1. pc = "eiceGone" BY <3>1 DEF Gone, Endpoint
      <4>2. QED BY <1>2, <4>1, Apart DEF DownPoints
    <3>2. QED BY <3>1, EiceHas
  <2>4. mem'["eice"] = mem["eice"] \/ EiceFound \/ EiceCreate \/ EiceReady BY <1>2, <2>0, Kept_
  <2>5. mem'["jhSg"] = mem["jhSg"] \/ JhSg BY <1>2, <2>0, Kept_
  <2>6. /\ mem'["eice"] \in {None} \cup Has("eice")'
        /\ mem["eice"] # None => mem'["eice"] = mem["eice"]
        /\ EiceFound \/ EiceCreate \/ EiceReady => mem'["eice"] # None
    <3>1. CASE EiceFound
      <4>1. PICK r \in Known("eice") : mem' = [mem EXCEPT !["eice"] = r] BY <3>1 DEF EiceFound, Reuse, Set
      <4>2. mem'["eice"] = r BY <1>0, <4>1
      <4>3. r \in Has("eice") /\ (mem["eice"] # None => r = mem["eice"]) BY <2>1, <4>1 DEF Known
      <4>4. r # None BY <4>3
      <4>5. QED BY <2>3, <4>2, <4>3, <4>4
    <3>2. CASE EiceCreate
      <4>1. mem["eice"] = None BY <3>2 DEF EiceCreate
      <4>2. CASE Has("eice") = {}
        <5>1. mem'["eice"] = run /\ Become(<<"eice", run>>, "creating")
          BY <1>0, <3>2, <4>2 DEF EiceCreate, Create, Set
        <5>2. run \in Has("eice")' BY <1>0, <2>0, <5>1, Turned DEF States
        <5>3. QED BY <2>0, <4>1, <5>1, <5>2
      <4>3. CASE Has("eice") # {}
        <5>1. PICK r \in Has("eice") : mem' = [mem EXCEPT !["eice"] = r, !["eiceSg"] = r]
          BY <3>2, <4>3 DEF EiceCreate, SetEice
        <5>2. mem'["eice"] = r BY <1>0, <5>1
        <5>3. QED BY <2>3, <4>1, <5>2
      <4>4. QED BY <4>2, <4>3
    <3>3. CASE EiceReady
      <4>1. pc = "eiceWait" BY <3>3, Starts
      <4>2. mem'["eice"] = mem["eice"] BY <1>0, <2>0, <3>3 DEF EiceReady, SetEice, Fail, Refuse, End
      <4>3. QED BY <2>1, <2>3, <4>1, <4>2
    <3>4. QED BY <2>1, <2>3, <2>4, <3>1, <3>2, <3>3
  <2>7. mem'["jhSg"] \in {None} \cup Has("jhSg")' /\ (JhSg => mem'["jhSg"] # None)
    <3>1. CASE JhSg
      <4>1. CASE Reuse("jhSg", "eice")
        <5>1. PICK r \in Known("jhSg") : mem' = [mem EXCEPT !["jhSg"] = r] BY <4>1 DEF Reuse, Set
        <5>2. r \in Has("jhSg") BY <2>1, <5>1 DEF Known
        <5>3. mem'["jhSg"] = r /\ r # None BY <1>0, <5>1, <5>2
        <5>4. QED BY <2>2, <5>2, <5>3
      <4>2. CASE New("jhSg", "ready", "eice")
        <5>0. ~Refuse BY <2>0 DEF Refuse, End
        <5>a. Become(<<"jhSg", run>>, "ready") /\ mem' = [mem EXCEPT !["jhSg"] = run]
          BY <4>2, <5>0 DEF New, Create, Set
        <5>1. mem'["jhSg"] = run /\ Become(<<"jhSg", run>>, "ready") BY <1>0, <5>a
        <5>2. run \in Has("jhSg")' BY <1>0, <2>0, <5>1, Turned DEF States
        <5>3. QED BY <2>0, <5>1, <5>2
      <4>3. QED BY <3>1, <4>1, <4>2 DEF JhSg
    <3>2. QED BY <2>1, <2>2, <2>5, <3>1
  <2>8. disk'["eice"] \in {None, mem'["eice"]}
    <3>1. ~Save17eDown /\ ~Save17bDown /\ ~DownDone BY <1>2, Origins, Apart DEF DownStep
    <3>2. CASE disk' = disk BY <2>1, <2>6, <3>2
    <3>3. CASE disk' # disk BY <2>0, <3>1, <3>3, SavePoints
    <3>4. QED BY <3>2, <3>3
  <2>9. pc' \in FromEice => mem'["jhSg"] # None
    <3>1. CASE UpMove
      <4>1. pc \in FromEice => ~JhSg BY Starts DEF FromEice
      <4>2. QED BY <2>1, <2>5, <2>7, <3>1, <4>1, Onward
    <3>2. CASE Outside /\ pc' = pc BY <2>1, <2>5, <2>7, <3>2
    <3>3. QED BY <1>2, <2>0, <3>1, <3>2, UpKeeps
  <2>10. pc' \in FromSsh \cup {"eiceWait"} => mem'["eice"] # None
    <3>1. CASE UpMove BY <2>1, <2>6, <3>1, Onward
    <3>2. CASE Outside /\ pc' = pc BY <2>1, <2>6, <3>2
    <3>3. QED BY <1>2, <2>0, <3>1, <3>2, UpKeeps
  <2>11. QED BY <2>6, <2>7, <2>8, <2>9, <2>10
<1>3. QED BY <1>1, <1>2, Within, Flow, Apart DEF DownPoints

\* What a running `down` holds of them.
LEMMA DownHolds == ASSUME TypeOK, Control, Plain, Endpoint, Next, faults' = 0
  PROVE /\ pc' \in (DownPoints \ PastEice) \cup PastSave17b => mem'["eice"] = disk'["eice"]
        /\ pc' \in (DownPoints \ PastRefs) \cup PastSave17b => mem'["jhSg"] = disk'["jhSg"]
        /\ pc' \in DownPoints => mem'["eiceSg"] = disk'["eiceSg"]
        /\ pc' = "eiceGone" => Has("eice")' \subseteq {mem'["eice"]}
        /\ pc' \in PastEice \ {"eiceGone"} => Has("eice")' = {}
<1> USE Sorts, Calm, RefFacts, EicePlaces
<1>0. mem \in [Keys -> Ref] /\ "jhSg" \in Kinds /\ "eice" \in Kinds BY DEF TypeOK
<1>1. CASE StartDown
  <2>1. mem' = disk /\ pc' = "veEnd" /\ UNCHANGED disk BY <1>1 DEF StartDown, files
  <2>2. pc' \notin PastEice BY <2>1
  <2>3. QED BY <2>1, <2>2
<1>2. CASE Outside
  <2>1. UNCHANGED <<pc, mem, disk>> /\ Has("eice")' \subseteq Has("eice")
    BY <1>0, <1>2, OutsideHas DEF Outside
  <2>2. QED BY <2>1 DEF Endpoint
<1>3. CASE DownStep /\ pc \in DownPoints /\ pc' \in DownPoints
  <2>0. pc' # "idle" BY <1>3, Apart
  <2>1. CASE Save17bDown
    <3>1. /\ disk' = Without({"jh", "jhEni", "eice", "eiceSg", "jhSg"}) /\ mem' = disk' /\ pc' = "tmmOwn"
          /\ UNCHANGED cloud /\ pc = "save17bDown"
      BY <2>1, Starts DEF Save17bDown, ClearAnd, Goto
    <3>2. Has("eice") = {} BY <3>1 DEF Endpoint
    <3>3. Has("eice")' = {} BY <3>1, <3>2 DEF cloud, Has
    <3>4. QED BY <3>1, <3>3
  <2>2. CASE ~Save17bDown
    <3>1. /\ mem'["eiceSg"] = mem["eiceSg"]
          /\ mem'["jhSg"] = mem["jhSg"] \/ JhSgRefs
          /\ mem'["eice"] = mem["eice"] \/ EiceDown
      <4>1. ~JhSg /\ ~EiceFound /\ ~EiceCreate /\ ~EiceReady BY <1>3, Starts, Apart DEF DownPoints
      <4>2. QED BY <1>3, <2>0, <2>2, <4>1, MemSteps
    <3>2. UNCHANGED disk \/ (Save17eDown /\ disk' = Without({"ve", "veMgmt", "veExt", "veSg"}))
      <4>1. ~DownDone BY <2>0 DEF DownDone, End
      <4>2. Save17eDown => disk' = Without({"ve", "veMgmt", "veExt", "veSg"}) BY DEF Save17eDown, ClearAnd
      <4>3. QED BY <1>3, <2>2, <4>1, <4>2, Apart, SavePoints
    <3>3. mem["eiceSg"] = disk["eiceSg"] BY <1>3 DEF Endpoint
    <3>4. Save17eDown => pc = "save17eDown" BY Starts
    <3>5. mem'["eiceSg"] = disk'["eiceSg"] BY <3>1, <3>2, <3>3 DEF Without
    <3>6. pc' \in (DownPoints \ PastEice) \cup PastSave17b => mem'["eice"] = disk'["eice"]
      <4>1. SUFFICES ASSUME pc' \in (DownPoints \ PastEice) \cup PastSave17b
                     PROVE mem'["eice"] = disk'["eice"]
        OBVIOUS
      <4>2. ~EiceDown BY <4>1 DEF EiceDown, Goto
      <4>3. pc \in (DownPoints \ PastEice) \cup PastSave17b
        BY <1>3, <2>2, <4>1, EiceOnward, Apart DEF Outside
      <4>4. mem["eice"] = disk["eice"] BY <4>3 DEF Endpoint
      <4>5. QED BY <3>1, <3>2, <4>2, <4>4 DEF Without
    <3>7. pc' \in (DownPoints \ PastRefs) \cup PastSave17b => mem'["jhSg"] = disk'["jhSg"]
      <4>1. SUFFICES ASSUME pc' \in (DownPoints \ PastRefs) \cup PastSave17b
                     PROVE mem'["jhSg"] = disk'["jhSg"]
        OBVIOUS
      <4>2. ~JhSgRefs BY <4>1 DEF JhSgRefs, Goto
      <4>3. pc \in (DownPoints \ PastRefs) \cup PastSave17b
        <5>1. CASE pc \in {"jhSgDown", "leave", "profileDown", "roleDown", "save17bDown"}
          BY <2>2, <4>1, <5>1, JhPoints DEF Outside, JhSgDown, Leave, ProfileDown, RoleDown, Go, Goto
        <5>2. QED BY <1>3, <5>1
      <4>4. mem["jhSg"] = disk["jhSg"] BY <4>3 DEF Endpoint
      <4>5. QED BY <3>1, <3>2, <4>2, <4>4 DEF Without
    <3>8. pc' = "eiceGone" => Has("eice")' \subseteq {mem'["eice"]}
      <4>1. SUFFICES ASSUME pc' = "eiceGone" PROVE Has("eice")' \subseteq {mem'["eice"]} OBVIOUS
      <4>2. EiceDown BY <1>3, <4>1, DownArrivals
      <4>3. pc = "eiceDown" BY <4>2, Starts
      <4>4. PICK r \in Ref : /\ mem' = [mem EXCEPT !["eice"] = r]
                             /\ r \in (IF mem["eice"] # None THEN {mem["eice"]}
                                       ELSE IF Has("eice") = {} THEN {None} ELSE Has("eice"))
        BY <4>2 DEF EiceDown, Aim, Set, Dropped
      <4>5. mem["eice"] \in {None} \cup Has("eice") /\ (\A a, b \in Has("eice") : a = b)
        BY <4>3 DEF Endpoint
      <4>6. Has("eice") \subseteq {r} BY <4>4, <4>5
      <4>7. Has("eice")' \subseteq Has("eice") BY <4>1, EiceHas
      <4>8. mem'["eice"] = r BY <1>0, <4>4
      <4>9. QED BY <4>6, <4>7, <4>8
    <3>9. pc' \in PastEice \ {"eiceGone"} => Has("eice")' = {}
      <4>1. SUFFICES ASSUME pc' \in PastEice \ {"eiceGone"} PROVE Has("eice")' = {} OBVIOUS
      <4>2. pc \in PastEice \ {"eiceGone"} \/ EiceGone BY <1>3, <4>1, DownOnward
      <4>3. Has("eice")' \subseteq Has("eice") BY <4>1, EiceHas, UpPlaces, Apart DEF DownPoints
      <4>4. CASE EiceGone
        <5>1. pc = "eiceGone" /\ mem["eice"] \notin Has("eice") BY <4>4, Starts DEF EiceGone, Terminated
        <5>2. Has("eice") = {} BY <5>1 DEF Endpoint
        <5>3. QED BY <4>3, <5>2
      <4>5. CASE pc \in PastEice \ {"eiceGone"} BY <4>3, <4>5 DEF Endpoint
      <4>6. QED BY <4>2, <4>4, <4>5
    <3>10. QED BY <3>5, <3>6, <3>7, <3>8, <3>9
  <2>3. QED BY <2>1, <2>2
<1>4. CASE pc' \notin DownPoints BY <1>4
<1>5. QED BY <1>1, <1>2, <1>3, <1>4, Flow, Apart DEF UpMove

LEMMA EndpointStep == ASSUME TypeOK, Control, Plain, Built, Endpoint, Next PROVE Endpoint'
<1>1. CASE faults' # 0 BY <1>1 DEF Endpoint
<1>2. CASE faults' = 0
  <2>1. FromEice \subseteq UpPoints /\ FromSsh \cup {"eiceWait"} \subseteq UpPoints BY UpPlaces DEF UpPoints
  <2>2. QED BY <1>2, <2>1, EiceOne, EiceRecord, GroupRecord, UpHolds, DownHolds DEF Endpoint
<1>3. QED BY <1>1, <1>2

\* The rules of the jumphost's group last as long as the group.
LEMMA JhSgRules == ASSUME Next, NEW r, <<"jhSg", r>> \in conf, ~JhSgRefs, ~JhSgDown
  PROVE <<"jhSg", r>> \in conf'
<1>1. ASSUME NEW x, x[1] # "jhSg", Remove(x) PROVE <<"jhSg", r>> \in conf' BY <1>1 DEF Remove
<1>2. CASE VeMgmtDown \/ VeExtDown \/ JhEniDown
  <2>1. ASSUME NEW n \in {"veMgmt", "veExt", "jhEni"}, NEW p, EniDown(n, p) PROVE <<"jhSg", r>> \in conf'
    BY <1>1, <2>1 DEF EniDown, OnlyAtt, cloud
  <2>2. QED BY <1>2, <2>1 DEF VeMgmtDown, VeExtDown, JhEniDown
<1>3. CASE TmmOwn \/ TmmTagged
  <2>1. ASSUME NEW q, TmmDrop(q) PROVE <<"jhSg", r>> \in conf' BY <1>1, <2>1 DEF TmmDrop, OnlyAtt
  <2>2. QED BY <1>3, <2>1 DEF TmmOwn, TmmTagged, cloud
<1>4. CASE VeSgDown BY <1>1, <1>4 DEF VeSgDown, cloud
<1>5. CASE TmmOff \/ Ssh \/ JhEniOff \/ VeRules \/ VeExtFound \/ VeExtOff
  BY <1>5 DEF TmmOff, Ssh, JhEniOff, VeRules, VeExtFound, VeExtOff, Configure, Fail, cloud
<1>6. QED BY <1>2, <1>3, <1>4, <1>5, Frames

LEMMA FailedStays == ASSUME TypeOK, Control, Plain, Endpoint, Next, faults' = 0, Failed, pc' # "eiceGone"
  PROVE Failed'
<1> USE Sorts, Calm
<1>1. PICK r \in Runs : status[<<"eice", r>>] = "failed" BY DEF Failed
<1>2. r \in Has("eice") /\ (\A a, b \in Has("eice") : a = b) BY <1>1 DEF Has, Endpoint
<1>3. \A q \in Alive("eice") : status[<<"eice", q>>] # "creating" BY <1>1, <1>2
<1>4. \A q \in Has("eice") : ~Gone(<<"eice", q>>) BY <1>1, <1>2 DEF Gone
<1>5. status'[<<"eice", r>>] = status[<<"eice", r>>] BY <1>2, <1>3, <1>4, EiceFate
<1>6. QED BY <1>1, <1>5 DEF Failed

LEMMA OpenedHolds ==
  ASSUME TypeOK, Control, Plain, Built, Endpoint, Opened, Next, faults' = 0, ~Failed, pc' \in UpPoints
  PROVE /\ mem'["eice"] # None /\ pc' # "eiceWait" => mem'["eiceSg"] # None
        /\ pc' \in FromSsh \ {"ssh"} => Kept(mem)'
<1> USE Sorts, Calm, RefFacts
<1>0. mem \in [Keys -> Ref] /\ "jhSg" \in Kinds /\ "eice" \in Kinds BY DEF TypeOK
<1>1. CASE StartUp
  <2>1. mem' = disk /\ pc' = "tmm" /\ pc = "idle" BY <1>1 DEF StartUp, At
  <2>2. pc \notin PastEice /\ pc \notin Window BY <2>1, EicePlaces, Apart DEF Window
  <2>3. disk["eice"] # None => disk["eiceSg"] # None BY <2>2 DEF Endpoint, Opened, Kept
  <2>4. pc' \notin FromSsh \ {"ssh"} BY <2>1 DEF FromSsh, FromEice, FromRole
  <2>5. QED BY <2>1, <2>3, <2>4
<1>2. CASE pc \in UpPoints /\ UpMove
  <2>0. run \in Runs /\ pc' # "idle" BY <1>2, Apart DEF Control
  <2>1. /\ mem["eice"] # None /\ pc # "eiceWait" => mem["eiceSg"] # None
        /\ pc \in FromSsh \ {"ssh"} => Kept(mem)
    BY <1>2 DEF Opened
  <2>2. ~Save17bDown BY <1>2, Origins, Apart DEF DownStep
  <2>3. /\ mem'["eiceSg"] = mem["eiceSg"] \/ EiceCreate \/ EiceReady
        /\ mem'["eice"] = mem["eice"] \/ EiceFound \/ EiceCreate \/ EiceReady
        /\ mem'["jhSg"] = mem["jhSg"] \/ JhSg
    <3>1. ~EiceDown /\ ~JhSgRefs BY <1>2, Origins, Apart DEF DownStep
    <3>2. QED BY <1>2, <2>0, <2>2, <3>1, MemSteps
  <2>4. ASSUME mem'["eice"] # None, pc' # "eiceWait" PROVE mem'["eiceSg"] # None
    <3>1. CASE EiceFound
      <4>1. PICK r \in Known("eice") : mem' = [mem EXCEPT !["eice"] = r] BY <3>1 DEF EiceFound, Reuse, Set
      <4>2. pc = "eice" /\ mem'["eiceSg"] = mem["eiceSg"] BY <1>0, <3>1, <4>1, Starts
      <4>3. mem["eice"] # None
        <5>1. SUFFICES ASSUME mem["eice"] = None PROVE FALSE OBVIOUS
        <5>2. Has("eice") # {} BY <4>1, <5>1 DEF Known
        <5>3. disk["eice"] # None BY <4>2, <5>2, EicePlaces DEF Opened, Window
        <5>4. disk["eice"] \in {None, mem["eice"]} BY <1>2 DEF Endpoint
        <5>5. QED BY <5>1, <5>3, <5>4
      <4>4. QED BY <2>1, <4>2, <4>3
    <3>2. CASE EiceCreate
      <4>1. Has("eice") # {} BY <2>4, <3>2 DEF EiceCreate, Create, Goto
      <4>2. PICK r \in Has("eice") : mem' = [mem EXCEPT !["eice"] = r, !["eiceSg"] = r]
        BY <3>2, <4>1 DEF EiceCreate, SetEice
      <4>3. mem'["eiceSg"] = r BY <1>0, <4>2
      <4>4. QED BY <4>3
    <3>3. CASE EiceReady
      <4>1. mem["eice"] # None BY <3>3, Starts DEF Endpoint
      <4>2. mem'["eiceSg"] = mem["eice"] BY <1>0, <2>0, <3>3 DEF EiceReady, SetEice, Fail, Refuse, End
      <4>3. QED BY <4>1, <4>2
    <3>4. CASE ~EiceFound /\ ~EiceCreate /\ ~EiceReady
      <4>1. pc # "eiceWait" BY <1>2, <3>4, Starts DEF UpMove, UpStep, OnboardStep
      <4>2. QED BY <2>1, <2>3, <2>4, <3>4, <4>1
    <3>5. QED BY <3>1, <3>2, <3>3, <3>4
  <2>5. ASSUME pc' \in FromSsh \ {"ssh"} PROVE Kept(mem)'
    <3>1. CASE pc \in FromSsh \ {"ssh"}
      <4>1. ~EiceCreate /\ ~EiceReady /\ ~JhSg BY <3>1, Starts DEF FromSsh, FromEice, FromRole
      <4>2. mem'["eiceSg"] = mem["eiceSg"] /\ mem'["jhSg"] = mem["jhSg"] BY <2>3, <4>1
      <4>3. conf \subseteq conf' BY <1>2, <2>0, UpKeeps
      <4>4. QED BY <2>1, <3>1, <4>2, <4>3 DEF Kept
    <3>2. CASE Ssh
      <4>1. pc = "ssh" BY <3>2, Starts
      <4>2. pc \in FromEice /\ pc \in FromSsh BY <4>1 DEF FromSsh, FromEice, FromRole, UpPoints
      <4>3. mem["eice"] # None /\ mem["jhSg"] # None BY <4>2 DEF Endpoint
      <4>4. mem["eiceSg"] # None BY <2>1, <4>1, <4>3
      <4>5. mem' = mem /\ <<"jhSg", mem["jhSg"]>> \in conf'
        BY <2>0, <3>2, <4>4 DEF Ssh, Configure, Go, Fail, Refuse, End
      <4>6. QED BY <4>3, <4>4, <4>5 DEF Kept
    <3>3. QED BY <1>2, <2>5, <3>1, <3>2, Onward
  <2>6. QED BY <2>4, <2>5
<1>3. CASE Outside
  <2>1. UNCHANGED <<pc, mem, conf>> BY <1>3, OutsideKeeps
  <2>2. QED BY <2>1 DEF Opened, Kept
<1>4. QED BY <1>1, <1>2, <1>3, Flow, Apart DEF DownPoints

\* No step leaves phase 17b with the endpoint half recorded.
LEMMA WindowLeft ==
  ASSUME TypeOK, Control, Plain, Built, Jumphost, Endpoint, Next, ~Outside, faults' = 0, ~Failed,
         pc \in Window, pc' \notin Window
  PROVE Save17b
<1> USE Sorts, Calm, RefFacts DEF Go, Goto
<1>1. pc \in FromEice => mem["jhSg"] \in Has("jhSg")
  <2>1. FromEice \subseteq UpPoints BY UpPlaces
  <2>2. QED BY <2>1 DEF Endpoint
<1>2. pc # "eiceWait"
  <2>1. SUFFICES ASSUME pc = "eiceWait" PROVE FALSE OBVIOUS
  <2>2. EiceReady /\ mem["eice"] \in {None} \cup Has("eice") /\ mem["eice"] # None
    BY <2>1, EicePoints DEF Endpoint, UpPoints
  <2>3. pc' = "ssh" BY <2>2 DEF EiceReady, Failed
  <2>4. QED BY <2>3 DEF Window
<1>3. pc # "ssh"
  <2>1. SUFFICES ASSUME pc = "ssh" PROVE FALSE OBVIOUS
  <2>2. Ssh /\ pc \in FromEice BY <2>1, EicePoints DEF FromEice, FromRole, UpPoints
  <2>3. mem["jhSg"] \in Has("jhSg") BY <1>1, <2>2
  <2>4. pc' = "jh" BY <2>2, <2>3 DEF Ssh
  <2>5. QED BY <2>4 DEF Window
<1>4. pc # "jh"
  <2>1. SUFFICES ASSUME pc = "jh" PROVE FALSE OBVIOUS
  <2>2. (JhFound \/ JhLaunch) /\ pc \in FromEice BY <2>1, JhPoints DEF FromEice, FromRole, UpPoints
  <2>3. mem["jhSg"] \in Has("jhSg") BY <1>1, <2>2
  <2>4. pc' \in {"jhEni", "jhWait"} BY <2>2, <2>3 DEF JhFound, HostFound, JhLaunch, Create
  <2>5. QED BY <2>4 DEF Window
<1>5. pc \in JhBusy /\ pc \in UpPoints BY <1>2, <1>3, <1>4 DEF Window, JhBusy, UpPoints
<1>6. pc' \in JhRest
  <2>1. TypeOK' BY TypeStep
  <2>2. pc' \in {"idle"} \cup UpPoints
    <3>1. ~StartUp /\ ~StartDown BY <1>5, Apart DEF StartUp, StartDown, At
    <3>2. QED BY <1>5, <3>1, Flow, Apart
  <2>3. pc' \notin JhDown BY <2>2, Apart DEF JhDown, DownPoints
  <2>4. pc' \in ({"idle"} \cup UpPoints) \ JhBusy BY <2>2, <2>3 DEF JhBusy, Window
  <2>5. QED BY <2>4, JhPlaces
<1>7. ~Save17bDown BY <1>5, Starts, Apart DEF DownPoints
<1>8. QED BY <1>5, <1>6, <1>7, JhReturns

LEMMA OpenedRecord ==
  ASSUME TypeOK, Control, Plain, Loaded, Built, Jumphost, Endpoint, Opened, Next, faults' = 0, ~Failed,
         Has("eice")' # {}, pc' \notin Window \cup PastEice
  PROVE disk'["eice"] # None /\ Kept(disk)'
<1> USE Sorts, Calm, RefFacts, EicePlaces
<1>1. CASE Outside
  <2>1. UNCHANGED <<pc, disk, conf>> BY <1>1, OutsideKeeps
  <2>2. Has("eice")' \subseteq Has("eice") BY <1>1, OutsideHas
  <2>3. QED BY <2>1, <2>2 DEF Opened, Kept
<1>2. CASE ~Outside /\ pc \in Window
  <2>1. Save17b BY <1>2, WindowLeft
  <2>2. pc = "save17b" /\ disk' = mem /\ UNCHANGED cloud BY <2>1, Starts DEF Save17b, SaveAnd
  <2>3. pc \in FromSsh \ {"ssh"} BY <2>2 DEF FromSsh, FromEice, FromRole, UpPoints
  <2>4. mem["eice"] # None BY <2>3 DEF Endpoint
  <2>5. Kept(mem) BY <2>3 DEF Opened
  <2>6. QED BY <2>2, <2>4, <2>5 DEF Kept, cloud
<1>3. CASE ~Outside /\ pc \in PastEice
  <2>1. pc \in PastSave17b \/ Save17bDown BY <1>3, EiceOnward
  <2>2. ~Save17bDown
    <3>1. Save17bDown => pc' = "tmmOwn" BY DEF Save17bDown, ClearAnd, Goto
    <3>2. QED BY <3>1
  <2>3. Has("eice") = {} BY <2>1, <2>2 DEF Endpoint
  <2>4. ~EiceCreate BY <1>3, Starts
  <2>5. QED BY <2>3, <2>4, EiceHas
<1>4. CASE ~Outside /\ pc \notin Window \cup PastEice
  <2>1. Has("eice") # {} BY EiceHas DEF Window
  <2>2. disk["eice"] # None /\ Kept(disk) BY <1>4, <2>1 DEF Opened
  <2>3. disk["jhSg"] # None /\ disk["eiceSg"] # None /\ <<"jhSg", disk["jhSg"]>> \in conf BY <2>2 DEF Kept
  <2>4. ~JhSgRefs /\ ~JhSgDown /\ ~Save17bDown /\ ~DownDone BY <1>4, Starts
  <2>5. <<"jhSg", disk["jhSg"]>> \in conf' BY <2>3, <2>4, JhSgRules
  <2>6. disk'["eice"] = disk["eice"] /\ disk'["jhSg"] = disk["jhSg"] /\ disk'["eiceSg"] # None
    <3>1. CASE Save17eDown
      <4>1. pc = "save17eDown" /\ disk' = Without({"ve", "veMgmt", "veExt", "veSg"})
        BY <3>1, Starts DEF Save17eDown, ClearAnd
      <4>2. mem["eice"] = disk["eice"] /\ mem["jhSg"] = disk["jhSg"] /\ mem["eiceSg"] = disk["eiceSg"]
        BY <4>1 DEF Endpoint
      <4>3. QED BY <2>3, <4>1, <4>2 DEF Without
    <3>2. CASE ~Save17eDown /\ disk' # disk
      <4>1. pc \in UpPoints /\ disk' = mem BY <2>4, <3>2, SavePoints
      <4>2. mem["eice"] = disk["eice"] BY <2>2, <4>1 DEF Endpoint
      <4>3. mem["jhSg"] = disk["jhSg"] BY <2>3, <4>1, UniqueKinds DEF Loaded
      <4>4. mem["eiceSg"] # None BY <1>4, <2>2, <4>1, <4>2 DEF Opened, Window
      <4>5. QED BY <4>1, <4>2, <4>3, <4>4
    <3>3. QED BY <2>3, <3>1, <3>2
  <2>7. QED BY <2>2, <2>3, <2>5, <2>6 DEF Kept
<1>5. QED BY <1>1, <1>2, <1>3, <1>4

LEMMA OpenedStep ==
  ASSUME TypeOK, Control, Plain, Loaded, Built, Jumphost, Endpoint, Opened, Next PROVE Opened'
<1>1. CASE faults' # 0 BY <1>1 DEF Opened
<1>2. CASE faults' = 0 /\ pc' = "eiceGone"
  <2>1. pc' \in PastEice /\ pc' \notin UpPoints BY <1>2, EicePlaces, Apart DEF DownPoints
  <2>2. pc' \notin FromSsh \ {"ssh"} BY <2>1, UpPlaces
  <2>3. QED BY <2>1, <2>2 DEF Opened
<1>3. CASE faults' = 0 /\ pc' # "eiceGone" /\ ~Failed'
  <2>1. ~Failed BY <1>3, FailedStays
  <2>2. FromSsh \subseteq UpPoints BY UpPlaces
  <2>3. QED BY <1>3, <2>1, <2>2, OpenedHolds, OpenedRecord DEF Opened
<1>4. CASE Failed' BY <1>4 DEF Opened
<1>5. QED BY <1>1, <1>2, <1>3, <1>4

-----------------------------------------------------------------------------
(* The rules of the BIG-IP's group while nothing goes wrong.                *)

LEMMA VeSgRules == ASSUME TypeOK, Next, NEW r \in Runs, <<"veSg", r>> \in conf, ~JhSgRefs
  PROVE <<"veSg", r>> \in conf' \/ (VeSgDown /\ r \notin Has("veSg")')
<1> USE Sorts
<1>1. ASSUME NEW x, x[1] # "veSg", Remove(x) PROVE <<"veSg", r>> \in conf' BY <1>1 DEF Remove
<1>2. CASE VeMgmtDown \/ VeExtDown \/ JhEniDown
  <2>1. ASSUME NEW n \in {"veMgmt", "veExt", "jhEni"}, NEW p, EniDown(n, p) PROVE <<"veSg", r>> \in conf'
    BY <1>1, <2>1 DEF EniDown, OnlyAtt, cloud
  <2>2. QED BY <1>2, <2>1 DEF VeMgmtDown, VeExtDown, JhEniDown
<1>3. CASE TmmOwn \/ TmmTagged
  <2>1. ASSUME NEW q, TmmDrop(q) PROVE <<"veSg", r>> \in conf' BY <1>1, <2>1 DEF TmmDrop, OnlyAtt
  <2>2. QED BY <1>3, <2>1 DEF TmmOwn, TmmTagged, cloud
<1>4. CASE JhSgDown BY <1>1, <1>4 DEF JhSgDown, cloud
<1>5. CASE VeSgDown
  <2>1. PICK q \in Ref : UNCHANGED cloud \/ (q \in Has("veSg") /\ Remove(<<"veSg", q>>))
    BY <1>5 DEF VeSgDown
  <2>2. CASE UNCHANGED cloud BY <2>2 DEF cloud
  <2>3. CASE q \in Has("veSg") /\ Remove(<<"veSg", q>>) /\ q # r BY <2>3 DEF Remove
  <2>4. CASE q \in Has("veSg") /\ Remove(<<"veSg", q>>) /\ q = r
    <3>1. Become(<<"veSg", r>>, "none") BY <2>4 DEF Remove
    <3>2. <<"veSg", r>> \in Id OBVIOUS
    <3>3. r \notin Has("veSg")' BY <3>1, <3>2, Become_ DEF Has
    <3>4. QED BY <1>5, <3>3
  <2>5. QED BY <2>1, <2>2, <2>3, <2>4
<1>6. CASE TmmOff \/ Ssh \/ JhEniOff \/ VeRules \/ VeExtFound \/ VeExtOff
  BY <1>6 DEF TmmOff, Ssh, JhEniOff, VeRules, VeExtFound, VeExtOff, Configure, Fail, cloud
<1>7. QED BY <1>2, <1>3, <1>4, <1>5, <1>6, Frames

LEMMA RulesMade ==
  ASSUME TypeOK, Control, Plain, Single, Built, Endpoint, Rules, Next, faults' = 0, NEW r \in Has("veSg")'
  PROVE pc' = "veRules" \/ <<"veSg", r>> \in conf'
<1> USE Sorts, Calm, UniqueKinds
<1>0. r \in Runs /\ "veSg" \in Kinds \ {"jh", "ve", "eice"} BY DEF Has
<1>1. CASE r \notin Has("veSg")
  <2>1. Born("veSg") BY <1>0, <1>1, HasFate
  <2>2. ~(\A q \in Runs : status'[<<"veSg", q>>] = status[<<"veSg", q>>]) BY <1>0, <1>1 DEF Has
  <2>3. VeSg
    <3>1. ~VeSgDown BY <2>1, Starts, Apart DEF Born, DownPoints
    <3>2. QED BY <1>0, <2>2, <3>1, Untouched DEF Concerns
  <2>4. pc' = "veRules"
    <3>1. ~Reuse("veSg", "veMgmt") BY <2>2 DEF Reuse, cloud
    <3>2. QED BY <2>3, <3>1 DEF VeSg, New, Create, Goto, Dropped
  <2>5. QED BY <2>4
<1>2. CASE r \in Has("veSg") /\ <<"veSg", r>> \in conf
  <2>1. ~JhSgRefs
    <3>1. pc \notin PastVeSg BY <1>2 DEF Rules
    <3>2. QED BY <3>1, Starts DEF PastVeSg, PastExt, PastMgmt, PastVe, DownPoints
  <2>2. QED BY <1>0, <1>2, <2>1, VeSgRules
<1>3. CASE r \in Has("veSg") /\ pc = "veRules"
  <2>1. CASE Outside BY <1>3, <2>1 DEF Outside
  <2>2. CASE VeRules
    <3>1. pc \in UpPoints /\ pc \in FromEice BY <1>3 DEF UpPoints, FromEice, FromRole
    <3>2. mem["jhSg"] \in Has("jhSg") BY <3>1 DEF Endpoint
    <3>3. <<"veSg", mem["veSg"]>> \in conf' BY <2>2, <3>2 DEF VeRules, Configure
    <3>4. mem["veSg"] \in Has("veSg") BY <1>3 DEF Built, VeBuilt
    <3>5. r = mem["veSg"] BY <1>3, <3>4 DEF Single
    <3>6. QED BY <3>3, <3>5
  <2>3. QED BY <1>3, <2>1, <2>2, EicePoints
<1>4. QED BY <1>1, <1>2, <1>3 DEF Rules

\* What a `down` deletes of a kind that is there at once, once it moves on.
LEMMA GroupDown == ASSUME TypeOK, Single, Records, VeSgDown, ~Fault \/ ~misled' PROVE Has("veSg")' = {}
<1> USE Sorts, UniqueKinds, RefFacts
<1>1. PICK r \in Ref :
        /\ \/ /\ r \in (IF mem["veSg"] # None THEN {mem["veSg"]}
                        ELSE IF Has("veSg") = {} THEN {None} ELSE Has("veSg"))
           \/ Dropped(FALSE)
        /\ CASE r \notin Has("veSg") -> UNCHANGED cloud
             [] r \in Has("veSg") /\ ~VeSgInUse -> Remove(<<"veSg", r>>)
             [] OTHER -> FALSE
  BY DEF VeSgDown, Aim
<1>2. Has("veSg") \subseteq {r}
  <2>1. ~Dropped(FALSE) BY DEF Dropped
  <2>2. \A a, b \in Has("veSg") : a = b BY DEF Single
  <2>3. \A a \in Has("veSg") : mem["veSg"] \in {None, a} BY DEF Records
  <2>4. QED BY <1>1, <2>1, <2>2, <2>3
<1>3. CASE r \notin Has("veSg") BY <1>1, <1>2, <1>3 DEF cloud, Has
<1>4. CASE r \in Has("veSg")
  <2>1. Become(<<"veSg", r>>, "none") BY <1>1, <1>4 DEF Remove
  <2>2. Has("veSg")' \subseteq Runs BY DEF Has
  <2>3. /\ \A q \in Runs \ {r} : q \in Has("veSg")' <=> q \in Has("veSg")
        /\ r \notin Has("veSg")'
    BY <1>4, <2>1, Turned DEF States
  <2>4. QED BY <1>2, <2>2, <2>3
<1>5. QED BY <1>3, <1>4

LEMMA NotMade == ASSUME TypeOK, Control, Plain, Next, pc \notin UpPoints, NEW n \in Kinds
  PROVE Has(n)' \subseteq Has(n) /\ Alive(n)' \subseteq Alive(n)
<1> USE Sorts
<1>1. CASE n \in {"jh", "ve"}
  <2>1. ~Launch(n) BY <1>1, Starts DEF Launch, UpPoints
  <2>2. QED BY <1>1, <2>1, HostHas
<1>2. CASE n \in Kinds \ {"jh", "ve", "eice"}
  <2>1. ~Born(n) BY DEF Born
  <2>2. Has(n)' \subseteq Has(n) BY <1>2, <2>1, HasFate
  <2>3. Alive(n)' \subseteq Alive(n)
    <3>1. \A q \in Has(n) : q \in Alive(n) BY <1>2 DEF Has, Alive, Plain
    <3>2. Alive(n)' \subseteq Has(n)' BY DEF Has, Alive
    <3>3. QED BY <2>2, <3>1, <3>2
  <2>4. QED BY <2>2, <2>3
<1>3. CASE n = "eice"
  <2>1. ~EiceCreate BY Starts DEF UpPoints
  <2>2. Has(n)' \subseteq Has(n) BY <1>3, <2>1, EiceHas
  <2>3. CASE \A r \in Runs : status'[<<n, r>>] = status[<<n, r>>] BY <2>2, <2>3, Same
  <2>4. ASSUME NEW r \in Has(n), Become(<<n, r>>, "deleting") PROVE Alive(n)' \subseteq Alive(n)
    <3>1. /\ \A q \in Runs \ {r} : q \in Alive(n)' <=> q \in Alive(n)
          /\ r \notin Alive(n)'
      BY <2>4, Turned DEF States
    <3>2. Alive(n)' \subseteq Runs BY DEF Alive
    <3>3. QED BY <3>1, <3>2
  <2>5. CASE Outside BY <2>5, OutsideHas
  <2>6. QED BY <1>3, <2>1, <2>2, <2>3, <2>4, <2>5, EiceFate
<1>4. QED BY <1>1, <1>2, <1>3

LEMMA RulesStep ==
  ASSUME TypeOK, Control, Plain, Single, Records, Built, Endpoint, Rules, Next PROVE Rules'
<1>1. CASE faults' # 0 BY <1>1 DEF Rules
<1>2. CASE faults' = 0
  <2>1. ASSUME pc' \in PastVeSg PROVE Has("veSg")' = {}
    <3>0. pc' \in DownPoints /\ pc' # "veEnd" /\ pc' # "idle" /\ "veSg" \in Kinds
      BY <2>1, Apart, Sorts DEF PastVeSg, PastExt, PastMgmt, PastVe, DownPoints
    <3>1. pc \in DownPoints /\ (DownStep \/ (Outside /\ pc' = pc)) BY <3>0, Flow, Apart DEF DownPoints
    <3>2. CASE pc \in PastVeSg
      <4>1. pc \notin UpPoints BY <3>1, Apart
      <4>2. Has("veSg")' \subseteq Has("veSg") BY <3>0, <4>1, NotMade
      <4>3. QED BY <1>2, <3>2, <4>2, Calm DEF Rules
    <3>3. CASE VeSgDown BY <1>2, <3>3, Calm, GroupDown
    <3>4. QED BY <2>1, <3>0, <3>1, <3>2, <3>3, DownOnward
  <2>2. QED BY <1>2, <2>1, RulesMade DEF Rules
<1>3. QED BY <1>1, <1>2

-----------------------------------------------------------------------------
(* What a `down` that was not misled has passed is gone.                    *)

\* An id that is not the truth misleads.
LEMMA AimTrue == ASSUME NEW n, NEW S, NEW r, Aim(n, S, r), ~misled'
  PROVE S \subseteq {r} /\ mem' = [mem EXCEPT ![n] = r]
  BY DEF Aim, Set, Dropped

LEMMA EniGone == ASSUME TypeOK, NEW n \in Kinds, NEW p, EniDown(n, p), pc' # pc, ~misled' PROVE Has(n)' = {}
<1> USE Sorts
<1>1. PICK r \in Ref : /\ Aim(n, Has(n), r)
                       /\ \/ r \notin Has(n) /\ UNCHANGED cloud
                          \/ r \in Has(n) /\ Remove(<<n, r>>)
                          \/ UNCHANGED pc
  BY DEF EniDown
<1>2. Has(n) \subseteq {r} BY <1>1, AimTrue
<1>3. CASE r \notin Has(n) /\ UNCHANGED cloud BY <1>2, <1>3 DEF cloud, Has
<1>4. CASE r \in Has(n) /\ Remove(<<n, r>>)
  <2>1. Become(<<n, r>>, "none") BY <1>4 DEF Remove
  <2>2. Has(n)' \subseteq Runs BY DEF Has
  <2>3. (\A q \in Runs \ {r} : q \in Has(n)' <=> q \in Has(n)) /\ r \notin Has(n)'
    BY <1>4, <2>1, Turned DEF States
  <2>4. QED BY <1>2, <2>2, <2>3
<1>5. QED BY <1>1, <1>3, <1>4

LEMMA HostGone == ASSUME TypeOK, NEW n \in Kinds, NEW p, Terminate(n, p), ~misled' PROVE Alive(n)' = {}
<1> USE Sorts
<1>1. PICK r \in Ref : /\ Aim(n, Alive(n), r)
                       /\ IF r \in Alive(n) THEN Become(<<n, r>>, "deleting") ELSE UNCHANGED status
  BY DEF Terminate
<1>2. Alive(n) \subseteq {r} BY <1>1, AimTrue
<1>3. CASE r \notin Alive(n) BY <1>1, <1>2, <1>3 DEF Alive
<1>4. CASE r \in Alive(n)
  <2>1. Alive(n)' \subseteq Runs BY DEF Alive
  <2>2. r \in Runs /\ Become(<<n, r>>, "deleting") BY <1>1, <1>4
  <2>3. (\A q \in Runs \ {r} : q \in Alive(n)' <=> q \in Alive(n)) /\ r \notin Alive(n)'
    BY <2>2, Turned DEF States
  <2>4. QED BY <1>2, <2>1, <2>3
<1>5. QED BY <1>3, <1>4

\* A point of `down` but the first is reached within it.
LEMMA WithinDown == ASSUME Next, pc' \in DownPoints, pc' # "veEnd"
  PROVE /\ pc \in DownPoints /\ pc \notin UpPoints /\ pc # "idle"
        /\ DownStep \/ (Outside /\ pc' = pc)
        /\ misled => misled'
<1>1. pc' # "idle" /\ pc' # "tmm" /\ pc' \notin UpPoints BY Apart DEF UpPoints
<1>2. pc \in DownPoints /\ (DownStep \/ (Outside /\ pc' = pc)) BY <1>1, Flow
<1>3. pc # "idle" /\ pc \notin UpPoints BY <1>2, Apart
<1>4. QED BY <1>2, <1>3, CommandStep

LEMMA VeGoneStep ==
  ASSUME TypeOK, Control, Plain, Single, Records, VeGone, Next PROVE VeGone'
<1> USE Sorts
<1>0. SUFFICES ASSUME ~misled' PROVE VeGone' BY DEF VeGone
<1>1. ASSUME pc' \in PastVe
      PROVE /\ pc \in DownPoints /\ pc \notin UpPoints /\ pc' \in DownPoints /\ ~misled
            /\ DownStep \/ (Outside /\ pc' = pc)
  <2>1. pc' \in DownPoints /\ pc' # "veEnd" BY <1>1 DEF PastVe
  <2>2. QED BY <1>0, <2>1, WithinDown
<1>2. PastMgmt \subseteq PastVe /\ PastExt \subseteq PastMgmt /\ PastVeSg \subseteq PastExt /\ PastPem \subseteq PastVeSg
  BY DEF PastMgmt, PastExt, PastVeSg, PastKey, PastPem
<1>3. ASSUME pc' \in PastVe PROVE Alive("ve")' = {}
  <2>1. CASE pc \in PastVe BY <1>1, <1>3, <2>1, NotMade DEF VeGone
  <2>2. CASE VeEnd
    <3>1. Terminate("ve", "veEnding") BY <2>2 DEF VeEnd
    <3>2. QED BY <1>0, <3>1, HostGone
  <2>3. QED BY <1>1, <1>3, <2>1, <2>2, DownOnward
<1>4. ASSUME pc' \in PastMgmt PROVE Has("veMgmt")' = {}
  <2>1. CASE pc \in PastMgmt BY <1>1, <1>2, <1>4, <2>1, NotMade DEF VeGone
  <2>2. CASE VeMgmtDown
    <3>1. EniDown("veMgmt", "veExtDown") /\ pc = "veMgmtDown" BY <2>2, Starts DEF VeMgmtDown
    <3>2. pc' # pc BY <1>4, <3>1 DEF PastMgmt
    <3>3. QED BY <1>0, <3>1, <3>2, EniGone
  <2>3. QED BY <1>1, <1>2, <1>4, <2>1, <2>2, DownOnward
<1>5. ASSUME pc' \in PastExt PROVE Has("veExt")' = {}
  <2>1. CASE pc \in PastExt BY <1>1, <1>2, <1>5, <2>1, NotMade DEF VeGone
  <2>2. CASE VeExtDown
    <3>1. EniDown("veExt", "veSgDown") /\ pc = "veExtDown" BY <2>2, Starts DEF VeExtDown
    <3>2. pc' # pc BY <1>5, <3>1 DEF PastExt
    <3>3. QED BY <1>0, <3>1, <3>2, EniGone
  <2>3. QED BY <1>1, <1>2, <1>5, <2>1, <2>2, DownOnward
<1>6. ASSUME pc' \in PastVeSg PROVE Has("veSg")' = {}
  <2>1. CASE pc \in PastVeSg BY <1>1, <1>2, <1>6, <2>1, NotMade DEF VeGone
  <2>2. CASE VeSgDown BY <1>0, <2>2, GroupDown
  <2>3. QED BY <1>1, <1>2, <1>6, <2>1, <2>2, DownOnward
<1>7. ASSUME pc' \in PastPem PROVE pem' = None
  <2>1. CASE pc \in PastPem
    <3>1. ~PemWrite /\ ~PemDown
      BY <2>1, Starts DEF PastPem, PastKey, PastVeSg, PastExt, PastMgmt, PastVe, DownPoints
    <3>2. ~Abort /\ ~LoseFiles
      <4>1. pc \in DownPoints /\ pc' \in DownPoints BY <1>1, <1>2, <1>7
      <4>2. pc # "idle" /\ pc' # "idle" BY <4>1, Apart
      <4>3. QED BY <4>2 DEF Abort, LoseFiles, End, At
    <3>3. pem' = pem BY <3>1, <3>2, Frames
    <3>4. QED BY <1>1, <1>2, <1>7, <2>1, <3>3 DEF VeGone
  <2>2. CASE PemDown BY <1>0, <2>2 DEF PemDown, Dropped
  <2>3. QED BY <1>1, <1>2, <1>7, <2>1, <2>2, DownOnward
<1>8. QED BY <1>3, <1>4, <1>5, <1>6, <1>7 DEF VeGone

LEMMA JhGoneStep ==
  ASSUME TypeOK, Control, Plain, Single, Records, Jumphost, JhGone, Next PROVE JhGone'
<1> USE Sorts, RefFacts
<1>a. mem \in [Keys -> Ref] BY DEF TypeOK
<1>0. /\ PastJhEni \subseteq PastJh /\ PastEice \subseteq PastJh /\ PastJhSg \subseteq PastJh
      /\ PastJh \subseteq DownPoints \ {"veEnd"} /\ PastRole \subseteq PastJhSg /\ "roleDown" \in PastJhSg
      /\ {"eiceGone", "jhSgDown", "save17Down"} \subseteq PastJh
      /\ "leave" \in PastJhSg /\ PastRole = {"save17bDown", "tmmOwn", "tmmTagged", "save17Down"}
      /\ "jhSgDown" \in PastEice \ {"eiceGone"}
  BY DEF PastRole, PastJhSg, PastRefs, PastEice, PastJhEni, PastJh, PastSave17e, PastPem, PastKey, PastVeSg,
    PastExt, PastMgmt, PastVe, DownPoints
<1>1. ASSUME pc' \in PastJh
      PROVE /\ pc \in DownPoints /\ pc \notin UpPoints /\ pc' \in DownPoints /\ (misled => misled')
            /\ DownStep \/ (Outside /\ pc' = pc)
  BY <1>0, <1>1, WithinDown
<1>2. ASSUME pc' \in PastJh, ~misled' PROVE Alive("jh")' = {}
  <2>1. CASE pc \in PastJh BY <1>1, <1>2, <2>1, NotMade DEF JhGone
  <2>2. CASE JhEnd
    <3>1. Terminate("jh", "jhEnding") BY <2>2 DEF JhEnd
    <3>2. QED BY <1>2, <3>1, HostGone
  <2>3. QED BY <1>1, <1>2, <2>1, <2>2, DownOnward
<1>3. ASSUME pc' \in PastJhEni, ~misled' PROVE Has("jhEni")' = {}
  <2>1. CASE pc \in PastJhEni BY <1>0, <1>1, <1>3, <2>1, NotMade DEF JhGone
  <2>2. CASE JhEniDown
    <3>1. EniDown("jhEni", "eiceDown") /\ pc = "jhEniDown" BY <2>2, Starts DEF JhEniDown
    <3>2. pc' # pc BY <1>3, <3>1 DEF PastJhEni
    <3>3. QED BY <1>3, <3>1, <3>2, EniGone
  <2>3. QED BY <1>0, <1>1, <1>3, <2>1, <2>2, DownOnward
<1>4. ASSUME pc' = "eiceGone", ~misled' PROVE Has("eice")' \subseteq {mem'["eice"]}
  <2>1. Has("eice")' \subseteq Has("eice") BY <1>0, <1>1, <1>4, NotMade
  <2>2. CASE Outside BY <1>4, <2>1, <2>2 DEF Outside, JhGone
  <2>3. CASE EiceDown
    <3>1. PICK r \in Ref : Aim("eice", Has("eice"), r) BY <2>3 DEF EiceDown
    <3>2. Has("eice") \subseteq {r} /\ mem' = [mem EXCEPT !["eice"] = r] BY <1>4, <3>1, AimTrue
    <3>3. mem'["eice"] = r BY <1>a, <3>2
    <3>4. QED BY <2>1, <3>2, <3>3
  <2>4. QED BY <1>0, <1>1, <1>4, <2>2, <2>3, DownArrivals
<1>5. ASSUME pc' \in PastEice \ {"eiceGone"}, ~misled' PROVE Has("eice")' = {}
  <2>1. Has("eice")' \subseteq Has("eice") BY <1>0, <1>1, <1>5, NotMade
  <2>2. CASE pc \in PastEice \ {"eiceGone"} BY <1>0, <1>1, <1>5, <2>1, <2>2 DEF JhGone
  <2>3. CASE EiceGone
    <3>1. pc = "eiceGone" /\ mem["eice"] \notin Has("eice") BY <2>3, Starts DEF EiceGone, Terminated
    <3>2. Has("eice") \subseteq {mem["eice"]} BY <1>0, <1>1, <1>5, <3>1 DEF JhGone
    <3>3. QED BY <2>1, <3>1, <3>2
  <2>4. QED BY <1>0, <1>1, <1>5, <2>2, <2>3, DownOnward
<1>6. ASSUME pc' = "jhSgDown", ~misled'
      PROVE /\ mem'["jhSg"] # None => \A r \in Runs : <<"veSg", r>> \notin conf'
            /\ mem'["jhSg"] = None => Has("jhSg")' = {}
  <2>1. CASE Outside
    <3>1. UNCHANGED <<pc, mem, misled>> BY <2>1 DEF Outside
    <3>2. UNCHANGED conf
      BY <2>1 DEF Outside, AccountStep, Settles, Gone, As3Settles, Reverts, OnlyBox, OnlyStatus
    <3>3. Has("jhSg")' \subseteq Has("jhSg") BY <2>1, OutsideHas
    <3>4. QED BY <1>6, <3>1, <3>2, <3>3 DEF JhGone
  <2>2. CASE JhSgRefs
    <3>1. PICK r \in Ref : /\ Aim("jhSg", Has("jhSg"), r) /\ UNCHANGED status
                           /\ conf' = IF r # None THEN {x \in conf : x[1] \notin {"jhSg", "veSg"}} ELSE conf
      BY <1>6, <2>2 DEF JhSgRefs, Dropped, OnlyConf
    <3>2. Has("jhSg") \subseteq {r} /\ mem' = [mem EXCEPT !["jhSg"] = r] BY <1>6, <3>1, AimTrue
    <3>3. mem'["jhSg"] = r BY <1>a, <3>2
    <3>4. Has("jhSg")' = Has("jhSg") BY <3>1 DEF Has
    <3>5. r = None => Has("jhSg") = {} BY <3>2
    <3>6. QED BY <3>1, <3>3, <3>4, <3>5
  <2>3. QED BY <1>0, <1>1, <1>6, <2>1, <2>2, DownArrivals
<1>7. ASSUME pc' \in PastJhSg, ~misled' PROVE Has("jhSg")' = {} \/ faults' > 0
  <2>1. Has("jhSg")' \subseteq Has("jhSg") BY <1>0, <1>1, <1>7, NotMade
  <2>2. CASE pc \in PastJhSg
    <3>1. Has("jhSg") = {} \/ faults > 0 BY <1>0, <1>1, <1>7, <2>2 DEF JhGone
    <3>2. faults > 0 => faults' > 0 BY FaultCount
    <3>3. QED BY <2>1, <3>1, <3>2
  <2>3. CASE JhSgDown
    <3>1. pc = "jhSgDown" /\ ~misled /\ faults' = faults
      BY <1>0, <1>1, <1>7, <2>3, Starts DEF JhSgDown, Go, Told
    <3>2. \A a \in Has("jhSg") : mem["jhSg"] \in {None, a} BY UniqueKinds DEF Records
    <3>3. mem["jhSg"] \notin Has("jhSg") => Has("jhSg") = {}
      <4>1. mem["jhSg"] = None => Has("jhSg") = {} BY <3>1 DEF JhGone
      <4>2. QED BY <3>2, <4>1
    <3>4. CASE mem["jhSg"] \in Has("jhSg") /\ ~JhSgInUse
      <4>1. Become(<<"jhSg", mem["jhSg"]>>, "none") BY <2>3, <3>4 DEF JhSgDown, Remove
      <4>2. mem["jhSg"] \in Runs /\ <<"jhSg", mem["jhSg"]>> \in Id BY <3>4
      <4>3. status'[<<"jhSg", mem["jhSg"]>>] = "none" BY <4>1, <4>2, Become_
      <4>4. mem["jhSg"] \notin Has("jhSg")' BY <4>3 DEF Has
      <4>5. Has("jhSg") \subseteq {mem["jhSg"]} BY <3>4, UniqueKinds DEF Single
      <4>6. QED BY <2>1, <4>4, <4>5
    <3>5. CASE mem["jhSg"] \in Has("jhSg") /\ JhSgInUse
      <4>1. \A r \in Runs : <<"veSg", r>> \notin conf BY <3>1, <3>5 DEF JhGone
      <4>2. Has("jh") # {} BY <3>5, <4>1 DEF JhSgInUse
      <4>3. faults # 0
        <5>1. pc \in JhDown \ {"jhEnding"} BY <3>1 DEF JhDown
        <5>2. QED BY <4>2, <5>1, JhPlaces DEF Jumphost
      <4>4. faults \in Nat BY FaultCount
      <4>5. faults > 0 BY <4>3, <4>4
      <4>6. QED BY <3>1, <4>5
    <3>6. QED BY <2>1, <3>3, <3>4, <3>5
  <2>4. QED BY <1>0, <1>1, <1>7, <2>2, <2>3, DownOnward
<1>8. ASSUME pc' = "save17Down", ~misled' PROVE Has("tmm")' = {}
  <2>1. Has("tmm")' \subseteq Has("tmm") BY <1>0, <1>1, <1>8, NotMade
  <2>2. CASE Outside BY <1>8, <2>1, <2>2 DEF Outside, JhGone
  <2>3. CASE TmmList
    <3>1. ~Dropped(FALSE) BY <1>8 DEF Dropped
    <3>2. QED BY <1>8, <2>3, <3>1 DEF TmmList, Goto
  <2>4. CASE TmmTagged
    <3>1. pc # pc' BY <1>8, <2>4, Starts
    <3>2. Has("tmm") = {} BY <2>4, <3>1 DEF TmmTagged
    <3>3. QED BY <2>1, <3>2
  <2>5. QED BY <1>0, <1>1, <1>8, <2>2, <2>3, <2>4, DownArrivals
<1>9. ASSUME pc' = "roleDown" \/ pc' \in PastRole PROVE profile' = "none"
  <2>0. pc' \in PastJh BY <1>0, <1>9
  <2>1. CASE pc = "roleDown" \/ pc \in PastRole
    <3>1. ~Profile /\ ~Join /\ ~Leave BY <1>0, <2>1, Starts
    <3>2. QED BY <2>1, <3>1, Frames DEF JhGone, ProfileDown
  <2>2. CASE ProfileDown BY <2>2 DEF ProfileDown
  <2>3. QED BY <1>1, <1>9, <2>0, <2>1, <2>2, DownOnward
<1>10. ASSUME pc' \in PastRole PROVE role' = FALSE
  <2>0. pc' \in PastJh BY <1>0, <1>10
  <2>1. CASE pc \in PastRole
    <3>1. ~Role BY <1>0, <2>1, Starts
    <3>2. QED BY <2>1, <3>1, Frames DEF JhGone, RoleDown
  <2>2. CASE RoleDown BY <2>2 DEF RoleDown
  <2>3. QED BY <1>1, <1>10, <2>0, <2>1, <2>2, DownOnward
<1>11. QED BY <1>2, <1>3, <1>4, <1>5, <1>6, <1>7, <1>8, <1>9, <1>10 DEF JhGone

-----------------------------------------------------------------------------
(* What a `down` leaves, and what stops a command.                          *)

LEMMA DownCleanStep ==
  ASSUME TypeOK, Control, Plain, Built, Held, Pair, VeGone, JhGone, DownClean, Next PROVE DownClean'
<1> USE Sorts
<1>0. SUFFICES ASSUME done' = "down", ~misled' PROVE DownClean' BY DEF DownClean
<1>1. CASE Outside /\ done = "down"
  <2>1. UNCHANGED <<misled, faults, key, pem, role, profile>> BY <1>1, OutsideKeeps
  <2>2. /\ \A n \in Kinds \ {"jh", "jhSg"} : Has(n) = {}
        /\ Alive("jh") = {} /\ (Has("jhSg") = {} \/ faults > 0)
        /\ key = None /\ pem = None /\ ~role /\ profile = "none"
    BY <1>0, <1>1, <2>1 DEF DownClean
  <2>3. \A n \in Kinds : Has(n)' \subseteq Has(n) /\ Alive(n)' \subseteq Alive(n) BY <1>1, OutsideHas
  <2>4. QED BY <2>1, <2>2, <2>3 DEF DownClean
<1>2. CASE DownDone
  <2>1. pc = "save17Down" /\ UNCHANGED <<cloud, pem, misled, faults>> BY <1>2, Starts DEF DownDone, Told
  <2>2. /\ pc \in PastVe /\ pc \in PastMgmt /\ pc \in PastExt /\ pc \in PastVeSg /\ pc \in PastKey /\ pc \in PastPem
        /\ pc \in PastJh /\ pc \in PastJhEni /\ pc \in PastEice \ {"eiceGone"} /\ pc \in PastJhSg /\ pc \in PastRole
    BY <2>1 DEF PastRole, PastJhSg, PastRefs, PastEice, PastJhEni, PastJh, PastSave17e, PastPem, PastKey,
      PastVeSg, PastExt, PastMgmt, PastVe, DownPoints
  <2>3. ~misled BY <1>0, <2>1
  <2>4. Has("veMgmt") = {} /\ Has("veExt") = {} /\ Has("veSg") = {} /\ pem = None BY <2>2, <2>3 DEF VeGone
  <2>5. /\ Alive("jh") = {} /\ Has("jhEni") = {} /\ Has("eice") = {} /\ Has("tmm") = {}
        /\ (Has("jhSg") = {} \/ faults > 0) /\ profile = "none" /\ role = FALSE
    BY <2>1, <2>2, <2>3 DEF JhGone
  <2>6. Has("ve") = {} BY <2>4 DEF Held
  <2>7. key = None BY <2>2 DEF Pair
  <2>8. \A n : Has(n)' = Has(n) /\ Alive(n)' = Alive(n) BY <2>1 DEF cloud, Has, Alive
  <2>9. UNCHANGED <<key, role, profile, pem, faults>> BY <2>1 DEF cloud
  <2>10. QED BY <2>4, <2>5, <2>6, <2>7, <2>8, <2>9 DEF DownClean
<1>3. QED BY <1>0, <1>1, <1>2, Reports

\* The steps that report a refusal.
LEMMA Refusals == ASSUME Control, Next
  PROVE /\ done # "down refused" /\ done' = "down refused" => VeMgmtRefused \/ VeSgRefused
        /\ pc \in OnboardPoints /\ done' = "up refused" =>
             \/ PemCopy /\ ~JumphostUp
             \/ Gate /\ ~Reachable
             \/ Shell /\ ~Opens
             \/ As3Refused
             \/ Verify /\ Box.pw = "unset"
<1> USE DEF At, Go, Told, Goto, SaveAnd
<1>1. ASSUME UpMove PROVE done' = done \/ done' \in {"up", "up refused"}
  <2>0. pc \in UpPoints BY <1>1, Origins
  <2>1. CASE UpStep
    BY <2>0, <2>1 DEF UpStep, End, Refuse, Fail,
      TmmFound, TmmStale, TmmCreate, TmmOff, TmmAttach, Save17, Role, Profile, Join, JhSg,
      EiceFound, EiceCreate, EiceReady, Ssh, JhFound, JhLaunch, JhWait, JhEni, JhEniOff,
      JhEniAttach, Save17b, KeyReuse, KeyRefused, KeyReplace, KeyUnseen, KeyCreate, PemWrite, VeSg,
      VeRules, VeMgmt, VeExtFound, VeExtCreate, VeExtOff, VeFound, VeLaunch, VeWait, Save17e, Reuse,
      Create, New, HostFound, Waited
  <2>2. CASE OnboardStep
    BY <2>0, <2>2 DEF OnboardStep, End, Refuse, Fail,
      PemCopy, Gate, Skip, Proceed, Shell, Lockout, Password, Ltm, Vlans, SelfIps, As3Found,
      As3Post, As3Poll, As3Refused, Cis, Finalize, Verify, UpDone, Makes, On
  <2>3. QED BY <1>1, <2>1, <2>2 DEF UpMove
<1>2. ASSUME DownStep PROVE done' = done \/ done' = "down" \/ VeMgmtRefused \/ VeSgRefused
  BY <1>2 DEF DownStep, End,
    VeEnd, VeEnded, VeMgmtDown, VeExtDown, VeSgDown, KeyDown, PemDown,
    Save17eDown, JhEnd, JhEnded, JhEniDown, EiceDown, EiceGone, JhSgRefs, JhSgDown, Leave,
    ProfileDown, RoleDown, Save17bDown, TmmOwn, TmmList, TmmTagged, DownDone, ClearAnd,
    Terminate, Terminated, EniDown
<1>3. ASSUME OnboardStep
      PROVE \/ done' = done \/ done' = "up" \/ As3Refused
            \/ PemCopy /\ ~JumphostUp
            \/ Gate /\ ~Reachable
            \/ Shell /\ ~Opens
            \/ Verify /\ Box.pw = "unset"
  BY <1>3 DEF OnboardStep, End,
    PemCopy, Gate, Skip, Proceed, Shell, Lockout, Password, Ltm, Vlans, SelfIps, As3Found,
    As3Post, As3Poll, Cis, Finalize, Verify, UpDone, Makes, On
<1>4. StartUp \/ StartDown \/ LoseFiles \/ LoseHost \/ Abort => done' = "none"
  BY DEF StartUp, StartDown, LoseFiles, LoseHost, Abort, End
<1>5. Outside => done' = done BY DEF Outside
<1>6. UpStep \/ OnboardStep <=> UpMove BY DEF UpMove
<1>7. done # "down refused" /\ done' = "down refused" => VeMgmtRefused \/ VeSgRefused
  BY <1>1, <1>2, <1>4, <1>5, <1>6 DEF Next
<1>8. ASSUME pc \in OnboardPoints, done' = "up refused"
      PROVE \/ PemCopy /\ ~JumphostUp
            \/ Gate /\ ~Reachable
            \/ Shell /\ ~Opens
            \/ As3Refused
            \/ Verify /\ Box.pw = "unset"
  <2>1. pc # "idle" /\ pc \notin DownPoints /\ done = "none"
    <3>1. pc \in UpPoints BY <1>8, UpPlaces
    <3>2. QED BY <3>1, Apart DEF Control
  <2>2. ~DownStep BY <2>1, Origins
  <2>3. ~UpStep
    BY <1>8 DEF OnboardPoints, UpStep,
      TmmFound, TmmStale, TmmCreate, TmmOff, TmmAttach, Save17, Role, Profile, Join, JhSg,
      EiceFound, EiceCreate, EiceReady, Ssh, JhFound, JhLaunch, JhWait, JhEni, JhEniOff,
      JhEniAttach, Save17b, KeyReuse, KeyRefused, KeyReplace, KeyUnseen, KeyCreate, PemWrite, VeSg,
      VeRules, VeMgmt, VeExtFound, VeExtCreate, VeExtOff, VeFound, VeLaunch, VeWait, Save17e
  <2>4. QED BY <1>3, <1>4, <1>5, <1>8, <2>1, <2>2, <2>3 DEF Next
<1>9. QED BY <1>7, <1>8

\* An endpoint that is recorded while nothing went wrong and none failed lets the
\* jumphost in.
LEMMA Tunnel ==
  ASSUME TypeOK, Built, GateBuilt, Jumphost, Endpoint, Opened, pc = "pemCopy", faults = 0, ~Failed
  PROVE JumphostUp
<1> USE Sorts
<1>1. /\ pc \in JhRest \ {"idle"} /\ pc \in FromSsh \ {"ssh"} /\ pc \in UpPoints /\ pc \in FromJh
  <2>1. pc \in OnboardPoints BY DEF OnboardPoints
  <2>2. pc \in UpPoints \ JhBusy BY <2>1, UpPlaces DEF JhBusy, JhDown
  <2>3. pc \in JhRest /\ pc # "idle" BY <2>2, JhPlaces, Apart
  <2>4. QED BY <2>1, <2>2, <2>3, Nested
<1>2. status[<<"jh", mem["jh"]>>] = "ready"
  <2>1. mem["jh"] \in Alive("jh") BY <1>1 DEF Built, JhBuilt
  <2>2. mem["jh"] = disk["jh"] BY <1>1 DEF Jumphost
  <2>3. JhWired(disk) \/ NoJh(disk) BY <1>1 DEF Jumphost
  <2>4. JhWired(disk) BY <2>1, <2>3 DEF NoJh
  <2>5. QED BY <2>2, <2>4 DEF JhWired, WiredAt
<1>3. status[<<"eice", mem["eice"]>>] = "ready"
  <2>1. mem["eice"] \in {None} \cup Has("eice") BY <1>1 DEF Endpoint
  <2>2. mem["eice"] # None BY <1>1 DEF Endpoint
  <2>3. mem["eice"] \in Runs /\ status[<<"eice", mem["eice"]>>] # "none" BY <2>1, <2>2 DEF Has
  <2>4. status[<<"eice", mem["eice"]>>] \notin {"creating", "deleting"} BY <2>3 DEF Endpoint
  <2>5. status[<<"eice", mem["eice"]>>] # "failed" BY <2>3 DEF Failed
  <2>6. status[<<"eice", mem["eice"]>>] \in {"none", "creating", "ready", "failed", "deleting"}
    BY <2>3 DEF TypeOK, AccountTypeOK
  <2>7. QED BY <2>3, <2>4, <2>5, <2>6
<1>4. <<"jhSg", mem["jhSg"]>> \in conf BY <1>1 DEF Opened, Kept
<1>5. QED BY <1>2, <1>3, <1>4 DEF JumphostUp

\* The BIG-IP that is there stands on its group, whose rules are made.
LEMMA GroupOpen ==
  ASSUME TypeOK, Built, Records, Held, Rules, pc = "gate", faults = 0 PROVE Reachable
<1> USE Sorts, UniqueKinds
<1>1. pc \in FromVe /\ pc \in FromVeMgmt
  <2>1. pc \in OnboardPoints BY DEF OnboardPoints
  <2>2. QED BY <2>1, Nested
<1>2. mem["ve"] \in Alive("ve") /\ mem["veSg"] # None BY <1>1 DEF Built, VeBuilt
<1>3. Has("veSg") # {} BY <1>2 DEF Held
<1>4. PICK g \in Has("veSg") : TRUE BY <1>3
<1>5. mem["veSg"] = g BY <1>2, <1>4 DEF Records
<1>6. <<"veSg", g>> \in conf BY <1>4 DEF Rules
<1>7. QED BY <1>5, <1>6 DEF Reachable

Refused ==
  /\ done # "down refused" /\ done' = "down refused"
       => misled' \/ \E r \in Runs : status[<<"ve", r>>] = "deleting"
  /\ pc \in OnboardPoints /\ done' = "up refused"
       => CASE pc \in {"pemCopy", "gate"} ->
                 faults > 0 \/ \E r \in Runs : status[<<"eice", r>>] = "failed"
            [] pc = "shell" -> pemLost \/ Orphaned
            [] OTHER -> pc \in {"as3", "as3Poll"} /\ ~As3Seen

LEMMA RefusedStep == ASSUME IInv, Next PROVE Refused
<1> USE Sorts
<1>0. /\ TypeOK /\ Control /\ Plain /\ Records /\ Attached /\ Held /\ Pair /\ Built /\ GateBuilt /\ Boxed
      /\ Jumphost /\ Endpoint /\ Opened /\ Rules /\ VeGone /\ faults \in Nat
  <2>1. TypeOK /\ Next BY DEF IInv
  <2>2. faults \in Nat BY <2>1, FaultCount
  <2>3. QED BY <2>2 DEF IInv, Built
<1>1. ASSUME done # "down refused", done' = "down refused"
      PROVE misled' \/ \E r \in Runs : status[<<"ve", r>>] = "deleting"
  <2>0. SUFFICES ASSUME ~misled' PROVE \E r \in Runs : status[<<"ve", r>>] = "deleting" OBVIOUS
  <2>1. CASE VeMgmtRefused
    <3>1. pc = "veMgmtDown" /\ misled' = misled BY <2>1, Starts DEF VeMgmtRefused, EniRefused, Fail, Told
    <3>2. PICK r \in Ref : Pinned(<<"veMgmt", r>>) BY <2>1 DEF VeMgmtRefused, EniRefused
    <3>3. PICK a \in att : a[1] = <<"veMgmt", r>> BY <3>2, Free DEF Pinned
    <3>4. a[2][1] = "ve" /\ a[2][2] \in Has("ve")
      <4>1. a[2][1] = "ve" BY <1>0, <3>3 DEF Attached, HostKind
      <4>2. a[2] # Node BY <4>1 DEF Node
      <4>3. QED BY <1>0, <3>3, <4>1, <4>2 DEF Attached
    <3>5. Alive("ve") = {}
      <4>1. pc \in PastVe BY <3>1 DEF PastVe, DownPoints
      <4>2. QED BY <1>0, <2>0, <3>1, <4>1 DEF VeGone
    <3>6. \A q \in Has("ve") : status[<<"ve", q>>] = "deleting"
      BY <1>0, <3>5 DEF Plain, TypeOK, AccountTypeOK, Has, Alive
    <3>7. QED BY <3>4, <3>6
  <2>2. CASE VeSgRefused
    <3>1. pc = "veSgDown" /\ misled' = misled /\ VeSgInUse BY <2>2, Starts DEF VeSgRefused, Fail, Told
    <3>2. pc \in PastMgmt BY <3>1 DEF PastMgmt, PastVe, DownPoints
    <3>3. QED BY <1>0, <2>0, <3>1, <3>2 DEF VeGone, VeSgInUse
  <2>3. QED BY <1>0, <1>1, <2>1, <2>2, Refusals
<1>2. ASSUME pc \in OnboardPoints, done' = "up refused"
      PROVE CASE pc \in {"pemCopy", "gate"} ->
                   faults > 0 \/ \E r \in Runs : status[<<"eice", r>>] = "failed"
              [] pc = "shell" -> pemLost \/ Orphaned
              [] OTHER -> pc \in {"as3", "as3Poll"} /\ ~As3Seen
  <2>1. CASE PemCopy /\ ~JumphostUp
    <3>1. pc = "pemCopy" BY <2>1, Starts
    <3>2. faults # 0 \/ Failed BY <1>0, <2>1, <3>1, Tunnel
    <3>3. faults > 0 \/ Failed BY <1>0, <3>2
    <3>4. QED BY <3>1, <3>3 DEF Failed
  <2>2. CASE Gate /\ ~Reachable
    <3>1. pc = "gate" BY <2>2, Starts
    <3>2. faults # 0 BY <1>0, <2>2, <3>1, GroupOpen
    <3>3. faults > 0 BY <1>0, <3>2
    <3>4. QED BY <3>1, <3>3
  <2>3. CASE Shell /\ ~Opens
    <3>1. pc = "shell" BY <2>3, Starts
    <3>2. pemLost \/ Orphaned BY <1>0, <1>2, <2>3, Opening DEF KeyOpens
    <3>3. QED BY <3>1, <3>2
  <2>4. CASE As3Refused
    <3>1. pc \in {"as3", "as3Poll"} /\ ~As3Seen BY <2>4 DEF As3Refused, At, As3Seen
    <3>2. QED BY <3>1
  <2>5. CASE Verify /\ Box.pw = "unset"
    <3>1. pc = "verify" BY <2>5, Starts
    <3>2. FALSE BY <1>0, <2>5, <3>1 DEF Boxed
    <3>3. QED BY <3>2
  <2>6. QED BY <1>0, <1>2, <2>1, <2>2, <2>3, <2>4, <2>5, Refusals
<1>3. QED BY <1>1, <1>2 DEF Refused

-----------------------------------------------------------------------------
(* The theorems.                                                            *)

\* Nothing exists before the first command.
LEMMA InitIInv == Init => IInv
<1> SUFFICES ASSUME Init PROVE IInv OBVIOUS
<1> USE RefFacts, Sorts, Apart
<1>1. /\ AccountInit /\ disk = EmptyState /\ mem = EmptyState /\ pem = None /\ pc = "idle" /\ done = "none"
      /\ run = 0 /\ misled = FALSE /\ pemLost = FALSE /\ faults = 0
  BY DEF Init
<1>2. /\ role = FALSE /\ profile = "none" /\ status = [x \in Id |-> "none"]
      /\ conf = {} /\ att = {} /\ key = None /\ veKey = [r \in Runs |-> None] /\ box = [r \in Runs |-> Fresh]
  BY <1>1 DEF AccountInit
<1>3. \A n \in Keys : EmptyState[n] = None BY DEF EmptyState
<1>4. \A n \in Kinds, r \in Runs : status[<<n, r>>] = "none" BY <1>2
<1>5. \A n \in Kinds : Has(n) = {} /\ Alive(n) = {} BY <1>4 DEF Has, Alive
<1>6. /\ pc \notin UpPoints /\ pc \notin DownPoints /\ pc \notin OnboardPoints /\ pc \notin FromRole
      /\ pc \notin FromTmm /\ pc \notin FromEice /\ pc \notin FromSsh /\ pc \notin FromJh /\ pc \notin FromKey
      /\ pc \notin FromPem /\ pc \notin FromVeSg /\ pc \notin FromVeMgmt /\ pc \notin FromVeExt
      /\ pc \notin FromVe /\ pc \notin FromGate
  BY <1>1, UpPlaces
<1>7. /\ pc \notin PastVe /\ pc \notin PastMgmt /\ pc \notin PastExt /\ pc \notin PastVeSg /\ pc \notin PastKey
      /\ pc \notin PastPem /\ pc \notin PastSave17e /\ pc \notin PastJh /\ pc \notin PastJhEni
      /\ pc \notin PastEice /\ pc \notin PastRefs /\ pc \notin PastJhSg /\ pc \notin PastRole
      /\ pc \notin PastSave17b
  BY <1>1 DEF PastSave17b, PastRole, PastJhSg, PastRefs, PastEice, PastJhEni, PastJh, PastSave17e, PastPem,
    PastKey, PastVeSg, PastExt, PastMgmt, PastVe, DownPoints
<1>8. TypeOK
  <2>1. EmptyState \in [Keys -> Ref] BY DEF EmptyState
  <2>2. Fresh \in Boxes BY DEF Fresh, Boxes
  <2>3. AccountTypeOK BY <1>2, <2>2 DEF AccountTypeOK
  <2>4. 0 \in Ref /\ 0 \in 0 .. MaxFaults BY DEF None
  <2>5. QED BY <1>1, <2>1, <2>3, <2>4 DEF TypeOK
<1>9. Control /\ Plain BY <1>1, <1>4, <1>6 DEF Control, Plain
<1>10. Single /\ Records /\ Loaded BY <1>5, <1>6, UniqueKinds DEF Single, Records, Loaded
<1>11. Paired BY <1>1, <1>3, <1>6, <1>7 DEF Paired
<1>12. Attached /\ Held BY <1>2, <1>5 DEF Attached, Held
<1>13. Sight BY <1>5 DEF Sight
<1>14. Pair BY <1>1, <1>2, <1>5, <1>6, <1>7 DEF Pair
<1>15. TmmBuilt /\ JhBuilt /\ VeBuilt /\ GateBuilt BY <1>1, <1>6 DEF TmmBuilt, JhBuilt, VeBuilt, GateBuilt
<1>16. Boxed BY <1>1, <1>2, <1>6 DEF Boxed, Fresh
<1>17. UpBuilds /\ DownClean BY <1>1 DEF UpBuilds, DownClean
<1>18. Jumphost
  <2>1. NoJh(disk) BY <1>1, <1>3, <1>5 DEF NoJh
  <2>2. QED BY <1>1, <1>7, <2>1 DEF Jumphost
<1>19. Endpoint
  <2>1. \A n \in Keys : disk[n] = None BY <1>1, <1>3
  <2>2. QED BY <1>1, <1>4, <1>5, <1>6, <1>7, <2>1 DEF Endpoint
<1>20. Opened BY <1>1, <1>5, <1>6 DEF Opened
<1>21. Rules BY <1>5, <1>7 DEF Rules
<1>22. VeGone /\ JhGone BY <1>1, <1>7 DEF VeGone, JhGone
<1>23. QED
  BY <1>8, <1>9, <1>10, <1>11, <1>12, <1>13, <1>14, <1>15, <1>16, <1>17, <1>18, <1>19, <1>20, <1>21,
    <1>22 DEF IInv

LEMMA NextIInv == IInv /\ [Next]_vars => IInv'
<1> SUFFICES ASSUME IInv, [Next]_vars PROVE IInv' OBVIOUS
<1>0. /\ TypeOK /\ Control /\ Plain /\ Single /\ Records /\ Loaded /\ Paired /\ Attached /\ Held /\ Sight /\ Pair
      /\ Built /\ VeBuilt /\ GateBuilt /\ Boxed /\ UpBuilds /\ Jumphost /\ Endpoint /\ Opened /\ Rules
      /\ VeGone /\ JhGone /\ DownClean
  BY DEF IInv, Built
<1>1. CASE Next
  <2>1. TypeOK' /\ Control' /\ Plain' BY <1>0, <1>1, TypeStep, ControlStep, PlainStep
  <2>2. Single' /\ Records' /\ Loaded' BY <1>0, <1>1, SingleStep, RecordsStep, LoadedStep
  <2>3. Paired' /\ Attached' BY <1>0, <1>1, PairedStep, AttachedStep
  <2>4. Held' /\ Sight' /\ Pair' BY <1>0, <1>1, HeldStep, SightStep, PairStep
  <2>5. TmmBuilt' /\ JhBuilt' /\ VeBuilt' /\ GateBuilt'
    BY <1>0, <1>1, TmmBuiltStep, JhBuiltStep, VeBuiltStep, GateBuiltStep
  <2>6. Boxed' /\ UpBuilds' BY <1>0, <1>1, BoxedStep, UpBuildsStep
  <2>7. Jumphost' BY <1>0, <1>1, JumphostStep
  <2>8. Endpoint' BY <1>0, <1>1, EndpointStep
  <2>9. Opened' BY <1>0, <1>1, OpenedStep
  <2>10. Rules' BY <1>0, <1>1, RulesStep
  <2>11. VeGone' /\ JhGone' BY <1>0, <1>1, VeGoneStep, JhGoneStep
  <2>12. DownClean' BY <1>0, <1>1, DownCleanStep
  <2>13. QED BY <2>1, <2>2, <2>3, <2>4, <2>5, <2>6, <2>7, <2>8, <2>9, <2>10, <2>11, <2>12 DEF IInv
<1>2. CASE UNCHANGED vars
  <2> USE DEF vars, cloud
  <2>0. /\ UNCHANGED <<role, profile, status, conf, att, key, veKey, box, disk, pem, mem, pc, done, run, misled, pemLost, faults>>
        /\ \A n : Has(n)' = Has(n) /\ Alive(n)' = Alive(n)
        /\ \A h : OnHost(h)' = OnHost(h)
    <3>1. UNCHANGED <<role, profile, status, conf, att, key, veKey, box, disk, pem, mem, pc, done, run, misled, pemLost, faults>>
      BY <1>2
    <3>2. (\A n : Has(n)' = Has(n) /\ Alive(n)' = Alive(n)) /\ (\A h : OnHost(h)' = OnHost(h))
      BY <3>1 DEF Has, Alive, OnHost
    <3>3. QED BY <3>1, <3>2
  <2>1. TypeOK' BY <1>0, <2>0 DEF TypeOK, AccountTypeOK
  <2>2. Control' /\ Plain' /\ Loaded' BY <1>0, <2>0 DEF Control, Plain, Loaded
  <2>3. Single' /\ Records' /\ Paired' BY <1>0, <2>0 DEF Single, Records, Paired
  <2>4. Attached' /\ Held' BY <1>0, <2>0 DEF Attached, Held, Unseen
  <2>5. Sight' /\ Pair' BY <1>0, <2>0 DEF Sight, Pair, Unseen, Orphaned
  <2>6. TmmBuilt' /\ JhBuilt' /\ VeBuilt' /\ GateBuilt'
    BY <1>0, <2>0 DEF Built, TmmBuilt, JhBuilt, VeBuilt, GateBuilt
  <2>7. Boxed' BY <1>0, <2>0 DEF Boxed, Box
  <2>8. UpBuilds' BY <1>0, <2>0 DEF UpBuilds, Onboarded, Unseen, OnHost, Alive
  <2>9. Jumphost'
    <3>1. \A j, e \in Runs : (WiredAt(j, e)' <=> WiredAt(j, e)) /\ (BareAt(j)' <=> BareAt(j))
      BY <2>0 DEF WiredAt, BareAt
    <3>2. /\ JhWired(disk)' <=> JhWired(disk)
          /\ JhWired(mem)' <=> JhWired(mem)
      BY <2>0, <3>1 DEF JhWired
    <3>3. JhBare' <=> JhBare BY <2>0, <3>1 DEF JhBare
    <3>4. NoJh(disk)' <=> NoJh(disk) BY <2>0 DEF NoJh
    <3>5. \A j \in Runs : OnHost(<<"jh", j>>)' = OnHost(<<"jh", j>>) BY <2>0
    <3>6. QED BY <1>0, <2>0, <3>2, <3>3, <3>4, <3>5 DEF Jumphost
  <2>10. Endpoint' BY <1>0, <2>0 DEF Endpoint
  <2>11. Opened' BY <1>0, <2>0 DEF Opened, Kept, Failed
  <2>12. Rules' BY <1>0, <2>0 DEF Rules
  <2>13. VeGone' BY <1>0, <2>0 DEF VeGone
  <2>14. JhGone' BY <1>0, <2>0 DEF JhGone
  <2>15. DownClean' BY <1>0, <2>0 DEF DownClean
  <2>16. QED
    BY <2>1, <2>2, <2>3, <2>4, <2>5, <2>6, <2>7, <2>8, <2>9, <2>10, <2>11, <2>12, <2>13, <2>14,
      <2>15 DEF IInv
<1>3. QED BY <1>1, <1>2

\* The inductive invariant holds.
THEOREM HostsInvariant == Spec => []IInv
  BY InitIInv, NextIInv, PTL DEF Spec

\* TypeOK: every variable keeps its type.
THEOREM HostsTypes == Spec => []TypeOK
<1>1. IInv => TypeOK BY DEF IInv
<1>2. QED BY <1>1, HostsInvariant, PTL

\* UpBuilds: whatever was interrupted, lost or not seen before, an `up` that reports
\* success leaves the TMM interface, the jumphost and the onboarded BIG-IP of
\* phases 17, 17b, 17e and 17f.
THEOREM SuccessfulUpBuildsTheHosts == Spec => []UpBuilds
<1>1. IInv => UpBuilds BY DEF IInv
<1>2. QED BY <1>1, HostsInvariant, PTL

\* KeyOpens: the PEM beside state.env opens the BIG-IP phase 17f configures, as
\* long as none was lost.
THEOREM ThePemOpensTheBigIP == Spec => []KeyOpens
<1>1. IInv => KeyOpens BY Opening DEF IInv, Built
<1>2. QED BY <1>1, HostsInvariant, PTL

\* DownClean: a `down` that reports success and went on with the truth leaves
\* nothing but what an instance on its way out keeps.
THEOREM SuccessfulDownCleans == Spec => []DownClean
<1>1. IInv => DownClean BY DEF IInv
<1>2. QED BY <1>1, HostsInvariant, PTL

\* NotRefused: a `down`, and phase 17f of an `up`, stop with an error of their own
\* only for the reasons named.
THEOREM RefusalsAreNamed == Spec => NotRefused
<1>1. ASSUME IInv, [Next]_vars PROVE [Refused]_vars
  <2>1. CASE Next BY <1>1, <2>1, RefusedStep
  <2>2. CASE UNCHANGED vars BY <2>2
  <2>3. QED BY <1>1, <2>1, <2>2
<1>2. [][Refused]_vars <=> NotRefused BY DEF NotRefused, Refused
<1>3. QED BY <1>1, <1>2, HostsInvariant, PTL DEF Spec
=============================================================================
