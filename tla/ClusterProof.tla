---------------------------- MODULE ClusterProof ----------------------------
(***************************************************************************)
(* Proofs about the EKS cluster: for any number of runs, candidate zones    *)
(* and faults, whatever the account makes of a creation, a successful `up`  *)
(* leaves the whole cluster, a successful `down` nothing, and neither stops *)
(* with an error of its own except where NotRefused says.                   *)
(*                                                                          *)
(* The argument: a command is a path of points (Flow, Arrivals, Onward and  *)
(* their namesakes for `down`), each variable of the account is changed by  *)
(* few steps (Frames), so a fact once established at a point holds at every *)
(* later one, and the last point has them all.  Across commands only what   *)
(* is never repaired needs keeping: templates and the data-path group exist *)
(* once (Unique), and every OIDC provider but one has cost a fault          *)
(* (OidcKept).                                                              *)
(***************************************************************************)
EXTENDS ClusterProps, FiniteSetTheorems, TLAPS

-----------------------------------------------------------------------------
(* The inductive invariant.                                                 *)

\* The points of `up` past each thing it makes sure of, and the points in a loop.
FromSg         == UpPoints \ {"role", "policy", "profile", "join"}
FromSaveIam    == FromSg \ {"sg"}
FromLt         == FromSaveIam \ {"sgSelf", "saveIam", "eks", "eksWait"}
FromBnk        == FromLt \ {"lt"}
FromGpu        == FromBnk \ {"bnk", "bnkWait"}
FromSaveGroups == FromGpu \ {"gpu", "gpuWait", "gpuGone"}
Sweep          == {"gpu", "gpuWait", "gpuGone"}
Loops          == {"role", "policy", "lt", "allow", "revoke", "group", "groupGone", "ltDelete",
                   "strip", "roleDelete"}

\* The loop index, the run and the report, by the point the command is at.
Control ==
  /\ pc \in UpPoints => run \in Runs
  /\ eks.status # "none" => eks.run \in Runs
  /\ k \in IF pc \in Sweep THEN 1 .. NumAzs ELSE IF pc \in Loops THEN {1, 2} ELSE {1}
  /\ done # "none" => pc = "idle"

\* A launch template and the data-path group exist once, whatever was interrupted.
Unique ==
  /\ \A n \in {"lt-bnk", "lt-gpu"} : \A a, b \in Named(lts, n) : a = b
  /\ \A a, b \in Named(sgs, "data") : a = b

\* What a running `up` has made of the roles and the profile; of the cluster, its
\* templates and node groups; of the data-path group and the rules.
RolesBuilt ==
  /\ pc \in {"role", "policy"} /\ k = 2 => roles["cluster"] = "ready"
  /\ pc \in UpPoints \ {"role", "policy"} => roles["cluster"] = "ready" /\ roles["node"] = "ready"
  /\ pc \in {"allow", "saveOidc"} => roles["irsa"] = "ready"
  /\ pc \in FromSg => profile = "joined"

EksBuilt ==
  /\ pc \in FromLt => eks.status = "ACTIVE" /\ mem["cluster"] = eks.run
  /\ pc = "lt" /\ k = 2 => <<"lt-bnk", mem["lt-bnk"]>> \in lts
  /\ pc \in FromBnk => \A n \in {"lt-bnk", "lt-gpu"} : <<n, mem[n]>> \in lts
  /\ pc \in FromGpu => groups["bnk"].status = "ACTIVE"
  /\ pc \in FromSaveGroups => groups["gpu"].status = "ACTIVE"

SgBuilt ==
  /\ pc \in FromSaveIam => <<"data", mem["data"]>> \in sgs
  /\ pc = "allow" /\ k = 2 => Pair(1) \in rules
  /\ pc = "saveOidc" => Pair(1) \in rules /\ Pair(2) \in rules

\* What `down` has passed stays gone.
PastIrsa   == DownPoints \ {"revoke", "irsaStrip", "irsaDelete"}
PastOidc   == PastIrsa \ {"oidcDelete"}
PastGroups == PastOidc \ {"saveOidcDown", "group", "groupGone"}
PastLts    == PastGroups \ {"ltDelete"}
PastEks    == PastLts \ {"saveGroupsDown", "eksDelete", "eksGone"}
PastRoles  == {"sgRefs", "sgDelete", "saveIamDown"}

RolesGone ==
  /\ pc \in PastIrsa => keep \/ roles["irsa"] = "none"
  /\ pc \in PastEks \ {"leave", "profileDelete"} => profile = "none"
  /\ pc \in {"strip", "roleDelete"} /\ k = 2 => roles["node"] = "none"
  /\ pc \in PastRoles => roles["cluster"] = "none" /\ roles["node"] = "none"

EksGone ==
  /\ pc \in {"group", "groupGone"} /\ k = 2 => groups["bnk"].status = "none"
  /\ pc \in PastGroups => NoGroups
  /\ pc = "ltDelete" /\ k = 2 /\ ~misled => Named(lts, "lt-bnk") = {}
  /\ pc \in PastLts /\ ~misled => lts = {}
  /\ pc \in PastEks => eks.status = "none"

SgGone ==
  /\ pc = "sgDelete" /\ ~misled => /\ \A r \in rules : r[2] # <<"data", mem["data"]>>
                                   /\ mem["data"] = None => Named(sgs, "data") = {}
  /\ pc = "saveIamDown" /\ ~misled => Named(sgs, "data") = {}
  /\ done = "down refused" => misled

\* Every OIDC provider but the one state.env names has cost a fault.
Known   == IF pc = "idle" THEN disk["oidc"] ELSE mem["oidc"]
Unsaved == {"irsa", "irsaPolicy", "allow", "saveOidc", "saveOidcDown"}

OidcKept ==
  /\ Cardinality(oidc \ {Known}) <= faults
  /\ pc \notin {"idle"} \cup Unsaved => mem["oidc"] = disk["oidc"]
  /\ pc \in PastOidc => keep \/ mem["oidc"] = None

\* UpBuilds and DownClean are part of it: they go on holding while the account
\* goes on moving.
IInv ==
  /\ TypeOK /\ Control /\ Unique
  /\ RolesBuilt /\ EksBuilt /\ SgBuilt /\ UpBuilds
  /\ RolesGone /\ EksGone /\ SgGone /\ OidcKept /\ DownClean

-----------------------------------------------------------------------------
(* What the steps do, by what they lead to and by what they change.         *)

\* Numbers of runs, and none.
LEMMA RefFacts == /\ Runs \subseteq Ref /\ None \in Ref /\ None \notin Runs /\ Ref \subseteq Nat
                  /\ Ref \ {None} = Runs /\ NumAzs \in Nat \ {0}
  BY EksAccountAssumption DEF Runs, Ref, None

\* Which calls change what.
LEMMA Frames == ASSUME Next PROVE
  /\ roles' = roles \/ RoleEnsure \/ RolePolicies \/ IrsaEnsure \/ IrsaPolicy
                    \/ IrsaStrip \/ IrsaDelete \/ RoleStrip \/ RoleDelete
  /\ profile' = profile \/ ProfileEnsure \/ ProfileJoin \/ Leave \/ ProfileDelete
  /\ oidc' = oidc \/ OidcCreate \/ OidcDelete
  /\ eks' = eks \/ EksCreate \/ EksDelete \/ ClusterSettles \/ ClusterGone
  /\ groups' = groups \/ BnkCreate \/ GpuCreate \/ GpuExhausted \/ GroupDelete \/ Outside
  /\ lts' = lts \/ LtEnsure \/ LtDelete
  /\ sgs' = sgs \/ DataSgEnsure \/ EksCreate \/ ClusterGone \/ DataSgRefs \/ DataSgDelete
  /\ rules' = rules \/ DataSgSelf \/ Allow \/ ClusterGone \/ Revoke \/ DataSgRefs \/ DataSgDelete
<1> USE DEF
    RoleEnsure, RolePolicies, ProfileEnsure, ProfileJoin, DataSgEnsure, DataSgSelf, SaveIam, EksCreate,
    EksFound, EksReady, EksRefused, LtEnsure, LtUnseen, BnkCreate, BnkFound, BnkReady, GroupRefused,
    GpuCreate, GpuFound, GpuReady, GpuExhausted, GpuGone, SaveGroups, OidcKnown, OidcCreate, OidcTaken,
    IrsaEnsure, IrsaPolicy, Allow, UpDone, Revoke, IrsaStrip, IrsaDelete, OidcDelete, SaveOidcDown,
    GroupDelete, GroupMissing, GroupDeleted, LtDelete, SaveGroupsDown, EksDelete, EksCleared, Leave,
    ProfileDelete, RoleStrip, RoleDelete, DataSgRefs, DataSgDelete, DataSgRefused, DownDone,
  Next, UpStep, DownStep, StartUp, StartDown, Abort, LoseState, Outside, AccountStep, ClusterSettles,
  ClusterGone, AsgTries, GroupSettles, GroupGone, SetRole, SetProfile, OnlyRoles, OnlySgs, OnlyRules,
      OnlyEks, OnlyGroups, SaveAnd, Strip, Fail, cloud
<1>1. roles' = roles \/ RoleEnsure \/ RolePolicies \/ IrsaEnsure \/ IrsaPolicy
                     \/ IrsaStrip \/ IrsaDelete \/ RoleStrip \/ RoleDelete
  OBVIOUS
<1>2. profile' = profile \/ ProfileEnsure \/ ProfileJoin \/ Leave \/ ProfileDelete OBVIOUS
<1>3. oidc' = oidc \/ OidcCreate \/ OidcDelete OBVIOUS
<1>4. eks' = eks \/ EksCreate \/ EksDelete \/ ClusterSettles \/ ClusterGone OBVIOUS
<1>5. groups' = groups \/ BnkCreate \/ GpuCreate \/ GpuExhausted \/ GroupDelete \/ Outside OBVIOUS
<1>6. lts' = lts \/ LtEnsure \/ LtDelete OBVIOUS
<1>7. sgs' = sgs \/ DataSgEnsure \/ EksCreate \/ ClusterGone \/ DataSgRefs \/ DataSgDelete OBVIOUS
<1>8. rules' = rules \/ DataSgSelf \/ Allow \/ ClusterGone \/ Revoke \/ DataSgRefs \/ DataSgDelete OBVIOUS
<1>9. QED BY <1>1, <1>2, <1>3, <1>4, <1>5, <1>6, <1>7, <1>8

\* The commands go from point to point; the account and the operator do not move them.
LEMMA Flow == ASSUME Next, pc' # "idle"
  PROVE \/ StartUp /\ pc' = "role"
        \/ StartDown /\ pc' = "revoke"
        \/ UpStep /\ pc \in UpPoints /\ pc' \in UpPoints
        \/ DownStep /\ pc \in DownPoints /\ pc' \in DownPoints
        \/ Outside /\ pc' = pc
<1>1. CASE StartUp \/ StartDown BY <1>1 DEF StartUp, StartDown
<1>2. CASE UpStep
  BY <1>2 DEF UpPoints, UpStep,
    RoleEnsure, RolePolicies, ProfileEnsure, ProfileJoin, DataSgEnsure, DataSgSelf, SaveIam, EksCreate,
    EksFound, EksReady, EksRefused, LtEnsure, LtUnseen, BnkCreate, BnkFound, BnkReady, GroupRefused,
    GpuCreate, GpuFound, GpuReady, GpuExhausted, GpuGone, SaveGroups, OidcKnown, OidcCreate, OidcTaken,
    IrsaEnsure, IrsaPolicy, Allow, UpDone, At, Goto, Go, GoTo, End, AfterGroup, NextZone, Dropped,
    Fault, Set, SaveAnd, Fail
<1>3. CASE DownStep
  BY <1>3 DEF DownPoints, DownStep,
    Revoke, IrsaStrip, IrsaDelete, OidcDelete, SaveOidcDown, GroupDelete, GroupMissing, GroupDeleted,
    LtDelete, SaveGroupsDown, EksDelete, EksCleared, Leave, ProfileDelete, RoleStrip, RoleDelete,
    DataSgRefs, DataSgDelete, DataSgRefused, DownDone, At, Goto, Go, GoTo, End, AfterGroup, NextZone,
    Dropped, Fault, Set, SaveAnd, Fail
<1>4. CASE Outside BY <1>4 DEF Outside
<1>5. ~Abort /\ ~LoseState BY DEF Abort, LoseState, End, At
<1>6. QED BY <1>1, <1>2, <1>3, <1>4, <1>5 DEF Next

\* Where a step of `up` or `down` leaves the loop index and the report.
LEMMA ControlStep == ASSUME TypeOK, Control, Next PROVE Control'
<1> USE RefFacts
<1>1. pc' \in UpPoints => run' \in Runs
  <2>1. ASSUME pc' \in UpPoints, StartUp PROVE run' \in Runs
    BY <2>1, EksAccountAssumption DEF StartUp, TypeOK, Ref, Runs, None
  <2>2. ASSUME pc' \in UpPoints, UpStep, pc \in UpPoints PROVE run' = run
    BY <2>2 DEF UpStep, UpPoints,
    RoleEnsure, RolePolicies, ProfileEnsure, ProfileJoin, DataSgEnsure, DataSgSelf, SaveIam, EksCreate,
    EksFound, EksReady, EksRefused, LtEnsure, LtUnseen, BnkCreate, BnkFound, BnkReady, GroupRefused,
    GpuCreate, GpuFound, GpuReady, GpuExhausted, GpuGone, SaveGroups, OidcKnown, OidcCreate, OidcTaken,
    IrsaEnsure, IrsaPolicy, Allow, UpDone, At, Goto, Go, GoTo, End, AfterGroup, NextZone, Dropped,
    Fault, Set, SaveAnd, Fail
  <2>3. Outside => run' = run /\ pc' = pc BY DEF Outside
  <2>4. \A p \in DownPoints : p \notin UpPoints BY DEF UpPoints, DownPoints
  <2>5. "idle" \notin UpPoints /\ "revoke" \notin UpPoints BY DEF UpPoints
  <2>6. QED BY <2>1, <2>2, <2>3, <2>4, <2>5, Flow DEF Control
<1>2. eks'.status # "none" => eks'.run \in Runs
  <2>1. CASE eks' = eks BY <2>1 DEF Control
  <2>2. CASE EksCreate
    <3>1. run \in Runs BY <2>2 DEF EksCreate, At, Control, UpPoints
    <3>2. QED BY <2>2, <3>1 DEF EksCreate
  <2>3. CASE EksDelete \/ ClusterSettles \/ ClusterGone
    <3>1. eks.status # "none" => eks.run \in Runs BY DEF Control
    <3>2. QED BY <2>3, <3>1 DEF EksDelete, ClusterSettles, ClusterGone, TypeOK, AccountTypeOK
  <2>4. QED BY <2>1, <2>2, <2>3, Frames
<1>3. k' \in IF pc' \in Sweep THEN 1 .. NumAzs ELSE IF pc' \in Loops THEN {1, 2} ELSE {1}
  <2>0. k \in IF pc \in Sweep THEN 1 .. NumAzs ELSE IF pc \in Loops THEN {1, 2} ELSE {1} BY DEF Control
  <2>00. 1 \in 1 .. NumAzs OBVIOUS
  <2>1. CASE Outside BY <2>0, <2>1 DEF Outside
  <2>2. CASE StartUp \/ StartDown \/ Abort \/ LoseState
    BY <2>0, <2>2 DEF StartUp, StartDown, Abort, LoseState, End, At, Sweep, Loops
  <2>3. CASE GpuExhausted \/ GpuGone
    <3>1. pc \in Sweep /\ k \in 1 .. NumAzs BY <2>0, <2>3 DEF GpuExhausted, GpuGone, At, Sweep
    <3>2. ASSUME NextZone PROVE (pc' = "gpu" /\ k' \in 1 .. NumAzs) \/ (pc' = "idle" /\ k' = 1)
      <4>1. CASE k < NumAzs
        <5>1. pc' = "gpu" /\ k' = k + 1 BY <3>2, <4>1 DEF NextZone, Goto
        <5>2. k + 1 \in 1 .. NumAzs BY <3>1, <4>1
        <5>3. QED BY <5>1, <5>2
      <4>2. CASE ~(k < NumAzs)
        <5>1. (pc' = "gpu" /\ k' = 1) \/ (pc' = "idle" /\ k' = 1) BY <3>2, <4>2 DEF NextZone, Goto, End
        <5>2. 1 \in 1 .. NumAzs OBVIOUS
        <5>3. QED BY <5>1, <5>2
      <4>3. QED BY <4>1, <4>2
    <3>3. ASSUME Go("gpuGone") PROVE pc' = "gpuGone" /\ k' = k BY <3>3 DEF Go, Goto
    <3>4. QED BY <2>3, <3>1, <3>2, <3>3 DEF GpuExhausted, GpuGone, Sweep, Loops
  <2>4. CASE RoleEnsure \/ RolePolicies \/ ProfileEnsure \/ ProfileJoin \/ DataSgEnsure \/ DataSgSelf \/
        SaveIam
    BY <2>0, <2>00, <2>4 DEF Sweep, Loops, At, Go, Goto, GoTo, SaveAnd, End, Fail, AfterGroup,
      RoleEnsure, RolePolicies, ProfileEnsure, ProfileJoin, DataSgEnsure, DataSgSelf, SaveIam
  <2>5. CASE EksCreate \/ EksFound \/ EksReady \/ EksRefused
    BY <2>0, <2>00, <2>5 DEF Sweep, Loops, At, Go, Goto, GoTo, SaveAnd, End, Fail, AfterGroup,
      EksCreate, EksFound, EksReady, EksRefused
  <2>6. CASE LtEnsure \/ LtUnseen
    BY <2>0, <2>00, <2>6 DEF Sweep, Loops, At, Go, Goto, GoTo, SaveAnd, End, Fail, AfterGroup,
      LtEnsure, LtUnseen
  <2>7. CASE BnkCreate \/ BnkFound \/ BnkReady
    BY <2>0, <2>00, <2>7 DEF Sweep, Loops, At, Go, Goto, GoTo, SaveAnd, End, Fail, AfterGroup,
      BnkCreate, BnkFound, BnkReady
  <2>8. CASE GroupRefused
    BY <2>0, <2>00, <2>8 DEF Sweep, Loops, At, Go, Goto, GoTo, SaveAnd, End, Fail, AfterGroup,
      GroupRefused
  <2>9. CASE GpuCreate \/ GpuFound \/ GpuReady
    BY <2>0, <2>00, <2>9 DEF Sweep, Loops, At, Go, Goto, GoTo, SaveAnd, End, Fail, AfterGroup,
      GpuCreate, GpuFound, GpuReady
  <2>10. CASE SaveGroups \/ OidcKnown \/ OidcCreate \/ OidcTaken \/ IrsaEnsure \/ IrsaPolicy \/ Allow \/
        UpDone
    BY <2>0, <2>00, <2>10 DEF Sweep, Loops, At, Go, Goto, GoTo, SaveAnd, End, Fail, AfterGroup,
      SaveGroups, OidcKnown, OidcCreate, OidcTaken, IrsaEnsure, IrsaPolicy, Allow, UpDone
  <2>11. CASE Revoke
    <3>1. ASSUME k = 1 PROVE pc' = "revoke" /\ k' = 2 BY <2>11, <3>1 DEF Revoke
    <3>2. ASSUME k # 1 PROVE pc' \in {"saveOidcDown", "irsaStrip"} /\ k' = 1
      <4>1. CASE keep BY <2>11, <3>2, <4>1 DEF Revoke
      <4>2. CASE ~keep BY <2>11, <3>2, <4>2 DEF Revoke
      <4>3. QED BY <4>1, <4>2
    <3>3. QED BY <3>1, <3>2 DEF Sweep, Loops
  <2>12. CASE IrsaStrip \/ IrsaDelete \/ OidcDelete \/ SaveOidcDown
    BY <2>0, <2>00, <2>12 DEF Sweep, Loops, At, Go, Goto, GoTo, SaveAnd, End, Fail, AfterGroup,
      IrsaStrip, IrsaDelete, OidcDelete, SaveOidcDown
  <2>13. CASE GroupDelete \/ GroupMissing \/ GroupDeleted \/ LtDelete \/ SaveGroupsDown
    BY <2>0, <2>00, <2>13 DEF Sweep, Loops, At, Go, Goto, GoTo, SaveAnd, End, Fail, AfterGroup,
      GroupDelete, GroupMissing, GroupDeleted, LtDelete, SaveGroupsDown
  <2>14. CASE EksDelete \/ EksCleared \/ Leave \/ ProfileDelete
    BY <2>0, <2>00, <2>14 DEF Sweep, Loops, At, Go, Goto, GoTo, SaveAnd, End, Fail, AfterGroup,
      EksDelete, EksCleared, Leave, ProfileDelete
  <2>15. CASE RoleStrip \/ RoleDelete \/ DataSgRefs \/ DataSgDelete \/ DataSgRefused \/ DownDone
    BY <2>0, <2>00, <2>15 DEF Sweep, Loops, At, Go, Goto, GoTo, SaveAnd, End, Fail, AfterGroup,
      RoleStrip, RoleDelete, DataSgRefs, DataSgDelete, DataSgRefused, DownDone
  <2>16. QED BY <2>1, <2>2, <2>3, <2>4, <2>5, <2>6, <2>7, <2>8, <2>9, <2>10, <2>11, <2>12, <2>13, <2>14,
      <2>15 DEF Next, UpStep, DownStep
<1>4. done' # "none" => pc' = "idle"
  <2>1. CASE pc' = "idle" BY <2>1
  <2>2. CASE StartUp \/ StartDown BY <2>2 DEF StartUp, StartDown
  <2>3. CASE Outside BY <2>3 DEF Outside, Control
  <2>4. ASSUME pc # "idle", pc' # "idle", UpStep \/ DownStep PROVE done' = done
    <3>1. CASE UpStep
      BY <2>4, <3>1 DEF UpStep,
    RoleEnsure, RolePolicies, ProfileEnsure, ProfileJoin, DataSgEnsure, DataSgSelf, SaveIam, EksCreate,
    EksFound, EksReady, EksRefused, LtEnsure, LtUnseen, BnkCreate, BnkFound, BnkReady, GroupRefused,
    GpuCreate, GpuFound, GpuReady, GpuExhausted, GpuGone, SaveGroups, OidcKnown, OidcCreate, OidcTaken,
    IrsaEnsure, IrsaPolicy, Allow, UpDone, At, Goto, Go, GoTo, End, AfterGroup, NextZone, Dropped,
    Fault, Set, SaveAnd, Fail
    <3>2. CASE DownStep
      BY <2>4, <3>2 DEF DownStep,
    Revoke, IrsaStrip, IrsaDelete, OidcDelete, SaveOidcDown, GroupDelete, GroupMissing, GroupDeleted,
    LtDelete, SaveGroupsDown, EksDelete, EksCleared, Leave, ProfileDelete, RoleStrip, RoleDelete,
    DataSgRefs, DataSgDelete, DataSgRefused, DownDone, At, Goto, Go, GoTo, End, AfterGroup, NextZone,
    Dropped, Fault, Set, SaveAnd, Fail
    <3>3. QED BY <2>4, <3>1, <3>2
  <2>5. "idle" \notin UpPoints \cup DownPoints BY DEF UpPoints, DownPoints
  <2>6. QED BY <2>1, <2>2, <2>3, <2>4, <2>5, Flow DEF Control
<1>5. QED BY <1>1, <1>2, <1>3, <1>4 DEF Control

\* Names of what state.env and the loops point at.
LEMMA Names == ASSUME TypeOK
  PROVE /\ Named(sgs, "data") \subseteq Runs /\ Named(lts, Lt) \subseteq Runs /\ Target \in Ref
        /\ eks.run \in Ref /\ Lt \in {"lt-bnk", "lt-gpu"} /\ Lt \in Keys
        /\ \A x \in Keys : mem[x] \in Ref
<1> USE RefFacts
<1>1. \A x \in sgs : x[2] \in Runs BY DEF TypeOK, AccountTypeOK, SgId
<1>2. \A x \in lts : x[2] \in Runs BY DEF TypeOK, AccountTypeOK, LtId
<1>3. Named(sgs, "data") \subseteq Runs /\ Named(lts, Lt) \subseteq Runs BY <1>1, <1>2 DEF Named
<1>4. \A x \in Keys : mem[x] \in Ref BY DEF TypeOK
<1>5. "data" \in Keys BY DEF Keys
<1>6. Target \in Ref BY <1>3, <1>4, <1>5 DEF Target
<1>7. Lt \in {"lt-bnk", "lt-gpu"} /\ Lt \in Keys BY DEF Lt, Keys
<1>8. eks.run \in Ref BY DEF TypeOK, AccountTypeOK
<1>9. QED BY <1>3, <1>4, <1>6, <1>7, <1>8

\* What the process holds in memory and in state.env keeps its type.
LEMMA MemStep == ASSUME TypeOK, Control, Next PROVE mem' \in [Keys -> Ref] /\ disk' \in [Keys -> Ref]
<1> USE RefFacts, Names
<1>0. mem \in [Keys -> Ref] /\ disk \in [Keys -> Ref] BY DEF TypeOK
<1>1. EmptyState \in [Keys -> Ref] BY DEF EmptyState
<1>2. ASSUME NEW key \in Keys, NEW id \in Ref PROVE [mem EXCEPT ![key] = id] \in [Keys -> Ref]
  BY <1>0, <1>2
<1>3. \A key \in Keys, id \in Ref : Set(key, id) => mem' \in [Keys -> Ref] BY <1>2 DEF Set
<1>4. "data" \in Keys /\ "cluster" \in Keys /\ "oidc" \in Keys BY DEF Keys
<1>5. CASE DataSgEnsure
  <2>1. run \in Ref BY DEF TypeOK
  <2>2. PICK id \in Ref : Set("data", id) BY <1>5, <2>1 DEF DataSgEnsure
  <2>3. QED BY <1>0, <1>3, <1>4, <1>5, <2>2 DEF DataSgEnsure
<1>6. CASE EksReady BY <1>0, <1>3, <1>4, <1>6 DEF EksReady
<1>7. CASE LtEnsure
  <2>1. run \in Ref BY DEF TypeOK
  <2>2. PICK id \in Ref : Set(Lt, id) BY <1>7, <2>1 DEF LtEnsure
  <2>3. QED BY <1>0, <1>3, <1>7, <2>2 DEF LtEnsure
<1>8. CASE OidcCreate BY <1>0, <1>3, <1>4, <1>8 DEF OidcCreate
<1>9. CASE OidcDelete BY <1>0, <1>3, <1>4, <1>9 DEF OidcDelete
<1>10. CASE LtDelete BY <1>0, <1>3, <1>10 DEF LtDelete
<1>11. CASE EksCleared BY <1>0, <1>3, <1>4, <1>11 DEF EksCleared
<1>12. CASE DataSgRefs
  <2>1. mem["data"] \in Ref BY <1>4
  <2>2. PICK id \in Ref : Set("data", id)
    <3>1. PICK seen \in BOOLEAN : Set("data", IF seen THEN Target ELSE mem["data"]) BY <1>12 DEF DataSgRefs
    <3>2. QED BY <2>1, <3>1
  <2>3. QED BY <1>0, <1>3, <1>4, <1>12, <2>2 DEF DataSgRefs
<1>13. CASE DataSgDelete BY <1>0, <1>3, <1>4, <1>13 DEF DataSgDelete
<1>14. CASE StartUp \/ StartDown \/ Abort \/ LoseState \/ Outside
  BY <1>0, <1>1, <1>14 DEF StartUp, StartDown, Abort, LoseState, Outside, End
<1>15. CASE GpuExhausted \/ GpuGone
  BY <1>0, <1>1, <1>15 DEF GpuExhausted, GpuGone, NextZone, End, Go
<1>16. CASE RoleEnsure \/ RolePolicies \/ ProfileEnsure \/ ProfileJoin \/ DataSgSelf \/ SaveIam \/
        EksCreate \/ EksFound \/ EksRefused \/ LtUnseen \/ BnkCreate \/ BnkFound \/ BnkReady \/
        GroupRefused \/ GpuCreate \/ GpuFound \/ GpuReady \/ SaveGroups \/ OidcKnown \/ OidcTaken \/
        IrsaEnsure \/ IrsaPolicy \/ Allow \/ UpDone
  BY <1>0, <1>1, <1>16 DEF SaveAnd, Fail, End, Go, GoTo,
    RoleEnsure, RolePolicies, ProfileEnsure, ProfileJoin, DataSgSelf, SaveIam, EksCreate, EksFound,
    EksRefused, LtUnseen, BnkCreate, BnkFound, BnkReady, GroupRefused, GpuCreate, GpuFound, GpuReady,
    SaveGroups, OidcKnown, OidcTaken, IrsaEnsure, IrsaPolicy, Allow, UpDone
<1>17. CASE Revoke \/ IrsaStrip \/ IrsaDelete \/ SaveOidcDown \/ GroupDelete \/ GroupMissing \/
        GroupDeleted \/ SaveGroupsDown \/ EksDelete \/ Leave \/ ProfileDelete \/ RoleStrip \/
        RoleDelete \/ DataSgRefused \/ DownDone
  BY <1>0, <1>1, <1>17 DEF SaveAnd, Fail, End, Go, GoTo, AfterGroup,
    Revoke, IrsaStrip, IrsaDelete, SaveOidcDown, GroupDelete, GroupMissing, GroupDeleted,
    SaveGroupsDown, EksDelete, Leave, ProfileDelete, RoleStrip, RoleDelete, DataSgRefused, DownDone
<1>18. QED
  BY <1>5, <1>6, <1>7, <1>8, <1>9, <1>10, <1>11, <1>12, <1>13, <1>14, <1>15, <1>16, <1>17 DEF Next, UpStep,
    DownStep

\* Every step keeps what the account holds well typed.
LEMMA AccountStepType == ASSUME TypeOK, Control, SgBuilt, EksBuilt, Next PROVE AccountTypeOK'
<1> USE RefFacts, Names
<1>0. AccountTypeOK BY DEF TypeOK
<1>1. roles' \in [RoleNames -> {"none", "bare", "ready"}]
  <2>1. roles \in [RoleNames -> {"none", "bare", "ready"}] BY <1>0 DEF AccountTypeOK
  <2>2. ASSUME NEW r \in RoleNames, NEW x \in {"none", "bare", "ready"}, SetRole(r, x)
        PROVE roles' \in [RoleNames -> {"none", "bare", "ready"}]
    BY <2>1, <2>2 DEF SetRole
  <2>3. UpRole \in RoleNames /\ DownRole \in RoleNames /\ "irsa" \in RoleNames
    BY DEF UpRole, DownRole, RoleNames
  <2>4. CASE RoleEnsure \/ RolePolicies \/ IrsaEnsure \/ IrsaPolicy
    BY <2>1, <2>2, <2>3, <2>4 DEF RoleEnsure, RolePolicies, IrsaEnsure, IrsaPolicy, cloud
  <2>5. CASE IrsaStrip \/ IrsaDelete \/ RoleStrip \/ RoleDelete
    BY <2>1, <2>2, <2>3, <2>5 DEF IrsaStrip, IrsaDelete, RoleStrip, RoleDelete, Strip, cloud
  <2>6. QED BY <2>1, <2>4, <2>5, Frames
<1>2. profile' \in {"none", "empty", "joined"}
  <2>1. profile \in {"none", "empty", "joined"} BY <1>0 DEF AccountTypeOK
  <2>2. CASE ProfileEnsure \/ ProfileJoin \/ Leave \/ ProfileDelete
    BY <2>1, <2>2 DEF ProfileEnsure, ProfileJoin, Leave, ProfileDelete, SetProfile, cloud
  <2>3. QED BY <2>1, <2>2, Frames
<1>3. oidc' \subseteq Runs
  <2>1. oidc \subseteq Runs BY <1>0 DEF AccountTypeOK
  <2>2. CASE OidcCreate
    <3>1. eks.run \in Runs BY <2>2 DEF OidcCreate, At, Control, EksBuilt, FromLt, FromSaveIam, FromSg,
        UpPoints
    <3>2. QED BY <2>1, <2>2, <3>1 DEF OidcCreate
  <2>3. CASE OidcDelete BY <2>1, <2>3 DEF OidcDelete
  <2>4. QED BY <2>1, <2>2, <2>3, Frames
<1>4. eks' \in [status : {"none", "CREATING", "ACTIVE", "FAILED", "DELETING"}, run : Ref]
  <2>1. eks \in [status : {"none", "CREATING", "ACTIVE", "FAILED", "DELETING"}, run : Ref]
    BY <1>0 DEF AccountTypeOK
  <2>2. CASE EksCreate
    <3>1. run \in Ref BY DEF TypeOK
    <3>2. QED BY <2>2, <3>1 DEF EksCreate
  <2>3. CASE EksDelete BY <2>1, <2>3 DEF EksDelete
  <2>4. CASE ClusterSettles
    <3>1. Outcomes \subseteq {"ACTIVE", "FAILED"} BY EksAccountAssumption
    <3>2. QED BY <2>1, <2>4, <3>1 DEF ClusterSettles
  <2>5. CASE ClusterGone BY <2>5 DEF ClusterGone
  <2>6. QED BY <2>1, <2>2, <2>3, <2>4, <2>5, Frames
<1>5. groups' \in [GroupNames -> Group]
  <2>1. groups \in [GroupNames -> Group] BY <1>0 DEF AccountTypeOK
  <2>2. ASSUME NEW g \in GroupNames, NEW x \in Group, SetGroup(g, x) PROVE groups' \in [GroupNames -> Group]
    BY <2>1, <2>2 DEF SetGroup
  <2>3. "bnk" \in GroupNames /\ "gpu" \in GroupNames /\ GroupAt(k) \in GroupNames BY DEF GroupNames, GroupAt
  <2>4. \A g \in GroupNames : groups[g] \in Group BY <2>1
  <2>5. ASSUME NEW g \in GroupNames, NEW az \in 0 .. NumAzs, NEW c \in CapTypes, NewGroup(g, az, c)
        PROVE groups' \in [GroupNames -> Group]
    <3>1. [status |-> "CREATING", az |-> az, cap |-> c, asg |-> "idle"] \in Group BY DEF Group
    <3>2. QED BY <2>2, <2>5, <3>1 DEF NewGroup
  <2>6. ASSUME NEW g \in GroupNames, Deleting(g) PROVE groups' \in [GroupNames -> Group]
    <3>1. [groups[g] EXCEPT !.status = "DELETING"] \in Group BY <2>4 DEF Group
    <3>2. QED BY <2>2, <2>6, <3>1 DEF Deleting
  <2>7. CASE BnkCreate
    <3>1. 0 \in 0 .. NumAzs /\ "on-demand" \in CapTypes BY DEF CapTypes
    <3>2. QED BY <2>3, <2>5, <2>7, <3>1 DEF BnkCreate
  <2>8. CASE GpuCreate
    <3>1. k \in 0 .. NumAzs BY <2>8 DEF GpuCreate, At, Control, Sweep
    <3>2. cap \in CapTypes BY DEF TypeOK
    <3>3. QED BY <2>3, <2>5, <2>8, <3>1, <3>2 DEF GpuCreate
  <2>9. CASE GpuExhausted BY <2>1, <2>3, <2>6, <2>9 DEF GpuExhausted, cloud
  <2>10. CASE GroupDelete BY <2>3, <2>6, <2>10 DEF GroupDelete
  <2>11. CASE Outside
    <3>1. CASE AsgTries
      <4>1. \A x \in {"launched", "failed"} : [groups["gpu"] EXCEPT !.asg = x] \in Group BY <2>3,
          <2>4 DEF Group
      <4>2. QED BY <2>2, <2>3, <3>1, <4>1 DEF AsgTries
    <3>2. CASE \E g \in GroupNames : GroupSettles(g)
      <4>1. Outcomes \subseteq {"ACTIVE", "FAILED"} BY EksAccountAssumption
      <4>2. \A g \in GroupNames : \A o \in Outcomes : [groups[g] EXCEPT !.status = o] \in Group
        BY <2>4, <4>1 DEF Group
      <4>3. QED BY <2>2, <3>2, <4>2 DEF GroupSettles
    <3>3. CASE \E g \in GroupNames : GroupGone(g)
      <4>1. NoGroup \in Group BY DEF NoGroup, Group, CapTypes
      <4>2. QED BY <2>2, <3>3, <4>1 DEF GroupGone
    <3>4. CASE ClusterSettles \/ ClusterGone BY <2>1, <3>4 DEF ClusterSettles, ClusterGone, OnlyEks
    <3>5. QED BY <2>11, <3>1, <3>2, <3>3, <3>4 DEF Outside, AccountStep
  <2>12. QED BY <2>1, <2>7, <2>8, <2>9, <2>10, <2>11, Frames
<1>6. room' \subseteq (1 .. NumAzs) \X CapTypes
  <2>1. room' = room
    BY DEF Next, UpStep, DownStep, StartUp, StartDown, Abort, LoseState, Outside, AccountStep,
      ClusterSettles,
      ClusterGone, AsgTries, GroupSettles, GroupGone, SetRole, SetProfile, OnlyRoles, OnlySgs, OnlyRules,
      OnlyEks, OnlyGroups, SaveAnd, Strip, Fail, cloud,
      RoleEnsure, RolePolicies, ProfileEnsure, ProfileJoin, DataSgEnsure, DataSgSelf, SaveIam,
      EksCreate, EksFound, EksReady, EksRefused, LtEnsure, LtUnseen, BnkCreate, BnkFound, BnkReady,
      GroupRefused, GpuCreate, GpuFound, GpuReady, GpuExhausted, GpuGone, SaveGroups, OidcKnown,
      OidcCreate, OidcTaken, IrsaEnsure, IrsaPolicy, Allow, UpDone, Revoke, IrsaStrip, IrsaDelete,
      OidcDelete, SaveOidcDown, GroupDelete, GroupMissing, GroupDeleted, LtDelete, SaveGroupsDown,
      EksDelete, EksCleared, Leave, ProfileDelete, RoleStrip, RoleDelete, DataSgRefs, DataSgDelete,
      DataSgRefused, DownDone
  <2>2. QED BY <1>0, <2>1 DEF AccountTypeOK
<1>7. lts' \subseteq LtId
  <2>1. lts \subseteq LtId BY <1>0 DEF AccountTypeOK
  <2>2. CASE LtEnsure
    <3>1. run \in Runs BY <2>2 DEF LtEnsure, At, Control, UpPoints
    <3>2. <<Lt, run>> \in LtId BY <3>1 DEF LtId
    <3>3. lts' = lts \/ lts' = lts \cup {<<Lt, run>>} BY <2>2 DEF LtEnsure, cloud
    <3>4. QED BY <2>1, <3>2, <3>3
  <2>3. CASE LtDelete BY <2>1, <2>3 DEF LtDelete
  <2>4. QED BY <2>1, <2>2, <2>3, Frames
<1>8. sgs' \subseteq SgId
  <2>1. sgs \subseteq SgId BY <1>0 DEF AccountTypeOK
  <2>2. CASE DataSgEnsure \/ EksCreate
    <3>1. run \in Runs BY <2>2 DEF DataSgEnsure, EksCreate, At, Control, UpPoints
    <3>2. QED BY <2>1, <2>2, <3>1 DEF DataSgEnsure, EksCreate, SgId, cloud
  <2>3. CASE ClusterGone \/ DataSgRefs \/ DataSgDelete BY <2>1, <2>3 DEF ClusterGone, DataSgRefs,
      DataSgDelete
  <2>4. QED BY <2>1, <2>2, <2>3, Frames
<1>9. rules' \subseteq SgId \X SgId
  <2>1. rules \subseteq SgId \X SgId BY <1>0 DEF AccountTypeOK
  <2>2. CASE DataSgSelf
    <3>1. run \in Runs BY <2>2 DEF DataSgSelf, At, Control, UpPoints
    <3>2. QED BY <2>1, <2>2, <3>1 DEF DataSgSelf, SgId
  <2>3. CASE Allow
    <3>1. mem["cluster"] \in Runs /\ <<"data", mem["data"]>> \in SgId
      BY <1>0, <2>3 DEF Allow, At, Control, EksBuilt, SgBuilt, FromLt, FromSaveIam, FromSg, UpPoints,
        AccountTypeOK
    <3>2. <<"cluster", mem["cluster"]>> \in SgId BY <3>1 DEF SgId
    <3>3. Pair(k) \in SgId \X SgId BY <3>1, <3>2 DEF Pair
    <3>4. QED BY <2>1, <2>3, <3>3 DEF Allow
  <2>4. CASE ClusterGone \/ Revoke \/ DataSgRefs \/ DataSgDelete
    BY <2>1, <2>4 DEF ClusterGone, Revoke, DataSgRefs, DataSgDelete
  <2>5. QED BY <2>1, <2>2, <2>3, <2>4, Frames
<1>10. QED BY <1>1, <1>2, <1>3, <1>4, <1>5, <1>6, <1>7, <1>8, <1>9 DEF AccountTypeOK

\* Every variable keeps its type.
LEMMA TypeStep == ASSUME TypeOK, Control, SgBuilt, EksBuilt, Next PROVE TypeOK'
<1> USE RefFacts
<1>1. AccountTypeOK' BY AccountStepType
<1>2. mem' \in [Keys -> Ref] /\ disk' \in [Keys -> Ref] BY MemStep
<1>3. pc' \in {"idle"} \cup UpPoints \cup DownPoints
  <2>1. pc \in {"idle"} \cup UpPoints \cup DownPoints BY DEF TypeOK
  <2>2. "role" \in UpPoints /\ "revoke" \in DownPoints BY DEF UpPoints, DownPoints
  <2>3. QED BY <2>1, <2>2, Flow
<1>4. done' \in Reports
  <2>1. done \in Reports BY DEF TypeOK
  <2>2. \A x \in {"none", "up", "down", "no capacity", "up refused", "down refused"} : x \in Reports
    BY DEF Reports
  <2>3. CASE StartUp \/ StartDown \/ Abort \/ LoseState \/ Outside
    BY <2>1, <2>2, <2>3 DEF StartUp, StartDown, Abort, LoseState, Outside, End
  <2>4. CASE UpStep
    BY <2>1, <2>2, <2>4 DEF UpStep, Goto, Go, GoTo, End, NextZone, Set, SaveAnd, Fail,
      RoleEnsure, RolePolicies, ProfileEnsure, ProfileJoin, DataSgEnsure, DataSgSelf, SaveIam,
      EksCreate, EksFound, EksReady, EksRefused, LtEnsure, LtUnseen, BnkCreate, BnkFound, BnkReady,
      GroupRefused, GpuCreate, GpuFound, GpuReady, GpuExhausted, GpuGone, SaveGroups, OidcKnown,
      OidcCreate, OidcTaken, IrsaEnsure, IrsaPolicy, Allow, UpDone
  <2>5. CASE DownStep
    BY <2>1, <2>2, <2>5 DEF DownStep, Goto, Go, GoTo, End, AfterGroup, Set, SaveAnd, Fail,
      Revoke, IrsaStrip, IrsaDelete, OidcDelete, SaveOidcDown, GroupDelete, GroupMissing, GroupDeleted,
      LtDelete, SaveGroupsDown, EksDelete, EksCleared, Leave, ProfileDelete, RoleStrip, RoleDelete,
      DataSgRefs, DataSgDelete, DataSgRefused, DownDone
  <2>6. QED BY <2>3, <2>4, <2>5 DEF Next
<1>5. run' \in Ref
  <2>1. run' = run \/ StartUp
    BY DEF Next, UpStep, DownStep, StartDown, Abort, LoseState, Outside, Goto, Go, GoTo, End, NextZone,
      AfterGroup, SaveAnd, Fail,
      RoleEnsure, RolePolicies, ProfileEnsure, ProfileJoin, DataSgEnsure, DataSgSelf, SaveIam,
      EksCreate, EksFound, EksReady, EksRefused, LtEnsure, LtUnseen, BnkCreate, BnkFound, BnkReady,
      GroupRefused, GpuCreate, GpuFound, GpuReady, GpuExhausted, GpuGone, SaveGroups, OidcKnown,
      OidcCreate, OidcTaken, IrsaEnsure, IrsaPolicy, Allow, UpDone, Revoke, IrsaStrip, IrsaDelete,
      OidcDelete, SaveOidcDown, GroupDelete, GroupMissing, GroupDeleted, LtDelete, SaveGroupsDown,
      EksDelete, EksCleared, Leave, ProfileDelete, RoleStrip, RoleDelete, DataSgRefs, DataSgDelete,
      DataSgRefused, DownDone
  <2>2. run \in Ref BY DEF TypeOK
  <2>3. StartUp => run' \in Ref BY <2>2, EksAccountAssumption DEF StartUp, Ref, Runs, None
  <2>4. QED BY <2>1, <2>2, <2>3
<1>6. k' \in 1 .. (NumAzs + 2)
  <2>1. k' \in IF pc' \in Sweep THEN 1 .. NumAzs ELSE IF pc' \in Loops THEN {1, 2} ELSE {1}
    BY ControlStep DEF Control
  <2>2. 1 .. NumAzs \subseteq 1 .. (NumAzs + 2) OBVIOUS
  <2>3. {1, 2} \subseteq 1 .. (NumAzs + 2) /\ {1} \subseteq 1 .. (NumAzs + 2) OBVIOUS
  <2>4. QED BY <2>1, <2>2, <2>3
<1>7. cap' \in CapTypes
  <2>1. cap \in CapTypes /\ FirstCap \in CapTypes /\ "on-demand" \in CapTypes
    BY ClusterAssumption DEF TypeOK, CapTypes
  <2>2. QED
    BY <2>1 DEF Next, UpStep, DownStep, StartUp, StartDown, Abort, LoseState, Outside, Go, GoTo, End,
      NextZone,
      AfterGroup, SaveAnd, Fail,
      RoleEnsure, RolePolicies, ProfileEnsure, ProfileJoin, DataSgEnsure, DataSgSelf, SaveIam,
      EksCreate, EksFound, EksReady, EksRefused, LtEnsure, LtUnseen, BnkCreate, BnkFound, BnkReady,
      GroupRefused, GpuCreate, GpuFound, GpuReady, GpuExhausted, GpuGone, SaveGroups, OidcKnown,
      OidcCreate, OidcTaken, IrsaEnsure, IrsaPolicy, Allow, UpDone, Revoke, IrsaStrip, IrsaDelete,
      OidcDelete, SaveOidcDown, GroupDelete, GroupMissing, GroupDeleted, LtDelete, SaveGroupsDown,
      EksDelete, EksCleared, Leave, ProfileDelete, RoleStrip, RoleDelete, DataSgRefs, DataSgDelete,
      DataSgRefused, DownDone
<1>8. keep' \in BOOLEAN
  <2>1. keep \in BOOLEAN BY DEF TypeOK
  <2>2. QED
    BY <2>1 DEF Next, UpStep, DownStep, StartUp, StartDown, Abort, LoseState, Outside, Go, Goto, GoTo, End,
      NextZone,
      AfterGroup, SaveAnd, Fail,
      RoleEnsure, RolePolicies, ProfileEnsure, ProfileJoin, DataSgEnsure, DataSgSelf, SaveIam,
      EksCreate, EksFound, EksReady, EksRefused, LtEnsure, LtUnseen, BnkCreate, BnkFound, BnkReady,
      GroupRefused, GpuCreate, GpuFound, GpuReady, GpuExhausted, GpuGone, SaveGroups, OidcKnown,
      OidcCreate, OidcTaken, IrsaEnsure, IrsaPolicy, Allow, UpDone, Revoke, IrsaStrip, IrsaDelete,
      OidcDelete, SaveOidcDown, GroupDelete, GroupMissing, GroupDeleted, LtDelete, SaveGroupsDown,
      EksDelete, EksCleared, Leave, ProfileDelete, RoleStrip, RoleDelete, DataSgRefs, DataSgDelete,
      DataSgRefused, DownDone
<1>9. misled' \in BOOLEAN /\ faults' \in 0 .. MaxFaults
  <2>1. misled \in BOOLEAN /\ faults \in 0 .. MaxFaults /\ MaxFaults \in Nat BY ClusterAssumption DEF TypeOK
  <2>2. Fault => faults' \in 0 .. MaxFaults BY <2>1 DEF Fault
  <2>3. \A ok : Dropped(ok) => misled' \in BOOLEAN /\ faults' \in 0 .. MaxFaults BY <2>1, <2>2 DEF Dropped
  <2>4. CASE StartUp \/ StartDown \/ Abort \/ LoseState \/ Outside
    BY <2>1, <2>2, <2>4 DEF StartUp, StartDown, Abort, LoseState, Outside
  <2>5. CASE UpStep
    BY <2>1, <2>3, <2>5 DEF UpStep, Go, GoTo, SaveAnd, Fail,
      RoleEnsure, RolePolicies, ProfileEnsure, ProfileJoin, DataSgEnsure, DataSgSelf, SaveIam,
      EksCreate, EksFound, EksReady, EksRefused, LtEnsure, LtUnseen, BnkCreate, BnkFound, BnkReady,
      GroupRefused, GpuCreate, GpuFound, GpuReady, GpuExhausted, GpuGone, SaveGroups, OidcKnown,
      OidcCreate, OidcTaken, IrsaEnsure, IrsaPolicy, Allow, UpDone
  <2>6. CASE LtDelete \/ DataSgDelete BY <2>1, <2>3, <2>6 DEF LtDelete, DataSgDelete
  <2>7. CASE DownStep /\ ~(LtDelete \/ DataSgDelete)
    BY <2>1, <2>3, <2>7 DEF DownStep, Go, GoTo, AfterGroup, SaveAnd, Fail,
      Revoke, IrsaStrip, IrsaDelete, OidcDelete, SaveOidcDown, GroupDelete, GroupMissing, GroupDeleted,
      SaveGroupsDown, EksDelete, EksCleared, Leave, ProfileDelete, RoleStrip, RoleDelete, DataSgRefs,
      DataSgRefused, DownDone
  <2>8. QED BY <2>4, <2>5, <2>6, <2>7 DEF Next
<1>10. QED BY <1>1, <1>2, <1>3, <1>4, <1>5, <1>6, <1>7, <1>8, <1>9 DEF TypeOK

\* A template or a data-path group is created only where a lookup by its name finds none.
LEMMA UniqueStep == ASSUME TypeOK, Unique, Next PROVE Unique'
<1> USE Names
<1>1. \A n \in {"lt-bnk", "lt-gpu"} : \A a, b \in Named(lts, n)' : a = b
  <2>1. \A n \in {"lt-bnk", "lt-gpu"} : \A a, b \in Named(lts, n) : a = b BY DEF Unique
  <2>2. ASSUME lts' \subseteq lts PROVE \A n \in {"lt-bnk", "lt-gpu"} : \A a, b \in Named(lts, n)' : a = b
    <3>1. \A n : Named(lts, n)' \subseteq Named(lts, n) BY <2>2 DEF Named
    <3>2. QED BY <2>1, <3>1
  <2>3. CASE LtDelete BY <2>2, <2>3 DEF LtDelete
  <2>4. CASE LtEnsure
    <3>1. CASE lts' = lts BY <2>2, <3>1
    <3>2. CASE Named(lts, Lt) = {} /\ lts' = lts \cup {<<Lt, run>>}
      <4>1. \A y \in lts : y[1] # Lt BY <3>2 DEF Named
      <4>2. \A n : n = Lt => \A y \in lts' : y[1] = n => y[2] = run BY <3>2, <4>1
      <4>3. \A n : n # Lt => \A y \in lts' : y[1] = n => y \in lts BY <3>2
      <4>4. \A n : \A a \in Named(lts, n)' : \E y \in lts' : y[1] = n /\ y[2] = a BY DEF Named
      <4>5. \A n : \A y \in lts : y[1] = n => y[2] \in Named(lts, n) BY DEF Named
      <4>6. \A n : n # Lt => \A a \in Named(lts, n)' : a \in Named(lts, n) BY <4>3, <4>4, <4>5
      <4>7. \A n : n = Lt => \A a \in Named(lts, n)' : a = run BY <4>2, <4>4
      <4>8. QED BY ONLY <2>1, <4>6, <4>7
    <3>3. QED BY <2>4, <3>1, <3>2 DEF LtEnsure, cloud
  <2>5. QED BY <2>2, <2>3, <2>4, Frames
<1>2. \A a, b \in Named(sgs, "data")' : a = b
  <2>1. \A a, b \in Named(sgs, "data") : a = b BY DEF Unique
  <2>2. ASSUME Named(sgs, "data")' \subseteq Named(sgs, "data") PROVE \A a, b \in Named(sgs, "data")' : a = b
    BY <2>1, <2>2
  <2>3. sgs' \subseteq sgs => Named(sgs, "data")' \subseteq Named(sgs, "data") BY DEF Named
  <2>4. CASE ClusterGone \/ DataSgRefs \/ DataSgDelete
    BY <2>2, <2>3, <2>4 DEF ClusterGone, DataSgRefs, DataSgDelete
  <2>5. CASE EksCreate
    <3>1. sgs' = sgs \cup {<<"cluster", run>>} BY <2>5 DEF EksCreate
    <3>2. Named(sgs, "data")' = Named(sgs, "data") BY <3>1 DEF Named
    <3>3. QED BY <2>2, <3>2
  <2>6. CASE DataSgEnsure
    <3>1. CASE sgs' = sgs BY <2>2, <2>3, <3>1
    <3>2. CASE Named(sgs, "data") = {} /\ sgs' = sgs \cup {<<"data", run>>}
      <4>1. \A y \in sgs : y[1] # "data" BY <3>2 DEF Named
      <4>2. \A y \in sgs' : y[1] = "data" => y[2] = run BY <3>2, <4>1
      <4>3. \A a \in Named(sgs, "data")' : \E y \in sgs' : y[1] = "data" /\ y[2] = a BY DEF Named
      <4>4. QED BY ONLY <4>2, <4>3
    <3>3. QED BY <2>6, <3>1, <3>2 DEF DataSgEnsure, cloud
  <2>7. QED BY <2>2, <2>3, <2>4, <2>5, <2>6, Frames
<1>3. QED BY <1>1, <1>2 DEF Unique

\* Where a step of `up` starts from, by the point it leads to.
LEMMA Arrivals == ASSUME UpStep
  PROVE /\ pc' = "role" => RolePolicies /\ k = 1
        /\ pc' = "policy" => RoleEnsure
        /\ pc' = "profile" => RolePolicies /\ k # 1
        /\ pc' = "join" => ProfileEnsure
        /\ pc' = "sg" => ProfileJoin
        /\ pc' = "sgSelf" => DataSgEnsure
        /\ pc' = "saveIam" => DataSgEnsure \/ DataSgSelf
        /\ pc' = "eks" => SaveIam
        /\ pc' = "eksWait" => EksCreate \/ EksFound
        /\ pc' = "lt" => EksReady \/ (LtEnsure /\ k = 1)
        /\ pc' = "bnk" => LtEnsure /\ k # 1
        /\ pc' = "bnkWait" => BnkCreate \/ BnkFound
        /\ pc' = "gpu" => BnkReady \/ GpuExhausted \/ GpuGone
        /\ pc' = "gpuWait" => GpuCreate \/ GpuFound
        /\ pc' = "gpuGone" => GpuExhausted
        /\ pc' = "saveGroups" => GpuReady
        /\ pc' = "oidc" => SaveGroups
        /\ pc' = "irsa" => OidcKnown \/ OidcCreate
        /\ pc' = "irsaPolicy" => IrsaEnsure
        /\ pc' = "allow" => IrsaPolicy \/ (Allow /\ k = 1)
        /\ pc' = "saveOidc" => Allow /\ k # 1
<1> USE DEF UpStep,
    RoleEnsure, RolePolicies, ProfileEnsure, ProfileJoin, DataSgEnsure, DataSgSelf, SaveIam, EksCreate,
    EksFound, EksReady, EksRefused, LtEnsure, LtUnseen, BnkCreate, BnkFound, BnkReady, GroupRefused,
    GpuCreate, GpuFound, GpuReady, GpuExhausted, GpuGone, SaveGroups, OidcKnown, OidcCreate, OidcTaken,
    IrsaEnsure, IrsaPolicy, Allow, UpDone,
  Goto, Go, GoTo, End, NextZone, SaveAnd, Fail
<1>1. pc' = "role" => RolePolicies /\ k = 1 OBVIOUS
<1>2. pc' = "policy" => RoleEnsure OBVIOUS
<1>3. pc' = "profile" => RolePolicies /\ k # 1 OBVIOUS
<1>4. pc' = "join" => ProfileEnsure OBVIOUS
<1>5. pc' = "sg" => ProfileJoin OBVIOUS
<1>6. pc' = "sgSelf" => DataSgEnsure OBVIOUS
<1>7. pc' = "saveIam" => DataSgEnsure \/ DataSgSelf OBVIOUS
<1>8. pc' = "eks" => SaveIam OBVIOUS
<1>9. pc' = "eksWait" => EksCreate \/ EksFound OBVIOUS
<1>10. pc' = "lt" => EksReady \/ (LtEnsure /\ k = 1) OBVIOUS
<1>11. pc' = "bnk" => LtEnsure /\ k # 1 OBVIOUS
<1>12. pc' = "bnkWait" => BnkCreate \/ BnkFound OBVIOUS
<1>13. pc' = "gpu" => BnkReady \/ GpuExhausted \/ GpuGone OBVIOUS
<1>14. pc' = "gpuWait" => GpuCreate \/ GpuFound OBVIOUS
<1>15. pc' = "gpuGone" => GpuExhausted OBVIOUS
<1>16. pc' = "saveGroups" => GpuReady OBVIOUS
<1>17. pc' = "oidc" => SaveGroups OBVIOUS
<1>18. pc' = "irsa" => OidcKnown \/ OidcCreate OBVIOUS
<1>19. pc' = "irsaPolicy" => IrsaEnsure OBVIOUS
<1>20. pc' = "allow" => IrsaPolicy \/ (Allow /\ k = 1) OBVIOUS
<1>21. pc' = "saveOidc" => Allow /\ k # 1 OBVIOUS
<1>22. QED BY <1>1, <1>2, <1>3, <1>4, <1>5, <1>6, <1>7, <1>8, <1>9, <1>10, <1>11, <1>12, <1>13, <1>14,
    <1>15, <1>16, <1>17, <1>18, <1>19, <1>20, <1>21

\* Where a step of `down` starts from, by the point it leads to.
LEMMA DownArrivals == ASSUME DownStep
  PROVE /\ pc' = "revoke" => Revoke /\ k = 1
        /\ pc' = "irsaStrip" => Revoke /\ k # 1 /\ ~keep
        /\ pc' = "irsaDelete" => IrsaStrip
        /\ pc' = "oidcDelete" => IrsaDelete
        /\ pc' = "saveOidcDown" => OidcDelete \/ (Revoke /\ k # 1 /\ keep)
        /\ pc' = "group" => SaveOidcDown \/ ((GroupMissing \/ GroupDeleted) /\ k = 1)
        /\ pc' = "groupGone" => GroupDelete
        /\ pc' = "ltDelete" => ((GroupMissing \/ GroupDeleted) /\ k # 1) \/ (LtDelete /\ k = 1)
        /\ pc' = "saveGroupsDown" => LtDelete /\ k # 1
        /\ pc' = "eksDelete" => SaveGroupsDown
        /\ pc' = "eksGone" => EksDelete
        /\ pc' = "leave" => EksCleared
        /\ pc' = "profileDelete" => Leave
        /\ pc' = "strip" => ProfileDelete \/ (RoleDelete /\ k = 1)
        /\ pc' = "roleDelete" => RoleStrip
        /\ pc' = "sgRefs" => RoleDelete /\ k # 1
        /\ pc' = "sgDelete" => DataSgRefs
        /\ pc' = "saveIamDown" => DataSgDelete
<1> USE DEF DownStep,
    Revoke, IrsaStrip, IrsaDelete, OidcDelete, SaveOidcDown, GroupDelete, GroupMissing, GroupDeleted,
    LtDelete, SaveGroupsDown, EksDelete, EksCleared, Leave, ProfileDelete, RoleStrip, RoleDelete,
    DataSgRefs, DataSgDelete, DataSgRefused, DownDone,
  Goto, Go, GoTo, End, AfterGroup, SaveAnd, Fail
<1>1. pc' = "revoke" => Revoke /\ k = 1 OBVIOUS
<1>2. pc' = "irsaStrip" => Revoke /\ k # 1 /\ ~keep OBVIOUS
<1>3. pc' = "irsaDelete" => IrsaStrip OBVIOUS
<1>4. pc' = "oidcDelete" => IrsaDelete OBVIOUS
<1>5. pc' = "saveOidcDown" => OidcDelete \/ (Revoke /\ k # 1 /\ keep) OBVIOUS
<1>6. pc' = "group" => SaveOidcDown \/ ((GroupMissing \/ GroupDeleted) /\ k = 1) OBVIOUS
<1>7. pc' = "groupGone" => GroupDelete OBVIOUS
<1>8. pc' = "ltDelete" => ((GroupMissing \/ GroupDeleted) /\ k # 1) \/ (LtDelete /\ k = 1) OBVIOUS
<1>9. pc' = "saveGroupsDown" => LtDelete /\ k # 1 OBVIOUS
<1>10. pc' = "eksDelete" => SaveGroupsDown OBVIOUS
<1>11. pc' = "eksGone" => EksDelete OBVIOUS
<1>12. pc' = "leave" => EksCleared OBVIOUS
<1>13. pc' = "profileDelete" => Leave OBVIOUS
<1>14. pc' = "strip" => ProfileDelete \/ (RoleDelete /\ k = 1) OBVIOUS
<1>15. pc' = "roleDelete" => RoleStrip OBVIOUS
<1>16. pc' = "sgRefs" => RoleDelete /\ k # 1 OBVIOUS
<1>17. pc' = "sgDelete" => DataSgRefs OBVIOUS
<1>18. pc' = "saveIamDown" => DataSgDelete OBVIOUS
<1>19. QED BY <1>1, <1>2, <1>3, <1>4, <1>5, <1>6, <1>7, <1>8, <1>9, <1>10, <1>11, <1>12, <1>13, <1>14,
    <1>15, <1>16, <1>17, <1>18

\* The point each step of `up` starts from.
LEMMA Starts ==
  /\ RoleEnsure => pc = "role"
  /\ RolePolicies => pc = "policy"
  /\ ProfileEnsure => pc = "profile"
  /\ ProfileJoin => pc = "join"
  /\ DataSgEnsure => pc = "sg"
  /\ DataSgSelf => pc = "sgSelf"
  /\ SaveIam => pc = "saveIam"
  /\ EksCreate => pc = "eks"
  /\ EksFound => pc = "eks"
  /\ EksReady => pc = "eksWait"
  /\ LtEnsure => pc = "lt"
  /\ BnkCreate => pc = "bnk"
  /\ BnkFound => pc = "bnk"
  /\ BnkReady => pc = "bnkWait"
  /\ GpuCreate => pc = "gpu"
  /\ GpuFound => pc = "gpu"
  /\ GpuReady => pc = "gpuWait"
  /\ GpuExhausted => pc = "gpuWait"
  /\ GpuGone => pc = "gpuGone"
  /\ SaveGroups => pc = "saveGroups"
  /\ OidcKnown => pc = "oidc"
  /\ OidcCreate => pc = "oidc"
  /\ IrsaEnsure => pc = "irsa"
  /\ IrsaPolicy => pc = "irsaPolicy"
  /\ Allow => pc = "allow"
  BY DEF At,
    RoleEnsure, RolePolicies, ProfileEnsure, ProfileJoin, DataSgEnsure, DataSgSelf, SaveIam, EksCreate,
    EksFound, EksReady, LtEnsure, BnkCreate, BnkFound, BnkReady, GpuCreate, GpuFound, GpuReady,
    GpuExhausted, GpuGone, SaveGroups, OidcKnown, OidcCreate, IrsaEnsure, IrsaPolicy, Allow

\* A step of `up` that leads past a point starts past it, or is the one that passes it.
LEMMA Onward == ASSUME UpStep
  PROVE /\ pc' \in UpPoints \ {"role", "policy"}
             => pc \in UpPoints \ {"role", "policy"} \/ (RolePolicies /\ k # 1)
        /\ pc' \in FromSg => pc \in FromSg \/ ProfileJoin
        /\ pc' \in FromSaveIam => pc \in FromSaveIam \/ DataSgEnsure
        /\ pc' \in FromLt => pc \in FromLt \/ EksReady
        /\ pc' \in FromBnk => pc \in FromBnk \/ (LtEnsure /\ k # 1)
        /\ pc' \in FromGpu => pc \in FromGpu \/ BnkReady
        /\ pc' \in FromSaveGroups => pc \in FromSaveGroups \/ GpuReady
<1> USE Arrivals, Starts DEF UpPoints, FromSg, FromSaveIam, FromLt, FromBnk, FromGpu, FromSaveGroups
<1>1. pc' \in UpPoints \ {"role", "policy"}
        => pc \in UpPoints \ {"role", "policy"} \/ (RolePolicies /\ k # 1)
  OBVIOUS
<1>2. pc' \in FromSg => pc \in FromSg \/ ProfileJoin
  OBVIOUS
<1>3. pc' \in FromSaveIam => pc \in FromSaveIam \/ DataSgEnsure
  OBVIOUS
<1>4. pc' \in FromLt => pc \in FromLt \/ EksReady
  OBVIOUS
<1>5. pc' \in FromBnk => pc \in FromBnk \/ (LtEnsure /\ k # 1)
  OBVIOUS
<1>6. pc' \in FromGpu => pc \in FromGpu \/ BnkReady
  OBVIOUS
<1>7. pc' \in FromSaveGroups => pc \in FromSaveGroups \/ GpuReady
  OBVIOUS
<1>8. QED BY <1>1, <1>2, <1>3, <1>4, <1>5, <1>6, <1>7

\* The same for `down`.
LEMMA DownOnward == ASSUME DownStep
  PROVE /\ pc' \in PastIrsa => pc \in PastIrsa \/ (IrsaDelete \/ (Revoke /\ k # 1 /\ keep))
        /\ pc' \in PastOidc => pc \in PastOidc \/ (OidcDelete \/ (Revoke /\ k # 1 /\ keep))
        /\ pc' \in PastGroups => pc \in PastGroups \/ ((GroupMissing \/ GroupDeleted) /\ k # 1)
        /\ pc' \in PastLts => pc \in PastLts \/ (LtDelete /\ k # 1)
        /\ pc' \in PastEks => pc \in PastEks \/ EksCleared
        /\ pc' \in PastEks \ {"leave", "profileDelete"}
             => pc \in PastEks \ {"leave", "profileDelete"} \/ ProfileDelete
        /\ pc' \in PastRoles => pc \in PastRoles \/ (RoleDelete /\ k # 1)
<1> USE DEF DownPoints, PastIrsa, PastOidc, PastGroups, PastLts, PastEks, PastRoles, At, Goto, Go, GoTo,
    End, AfterGroup, SaveAnd, Fail
<1>1. pc' \in PastIrsa => pc \in PastIrsa \/ (IrsaDelete \/ (Revoke /\ k # 1 /\ keep))
  BY DEF DownStep,
    Revoke, IrsaStrip, IrsaDelete, OidcDelete, SaveOidcDown, GroupDelete, GroupMissing, GroupDeleted,
    LtDelete, SaveGroupsDown, EksDelete, EksCleared, Leave, ProfileDelete, RoleStrip, RoleDelete,
    DataSgRefs, DataSgDelete, DataSgRefused, DownDone
<1>2. pc' \in PastOidc => pc \in PastOidc \/ (OidcDelete \/ (Revoke /\ k # 1 /\ keep))
  BY DEF DownStep,
    Revoke, IrsaStrip, IrsaDelete, OidcDelete, SaveOidcDown, GroupDelete, GroupMissing, GroupDeleted,
    LtDelete, SaveGroupsDown, EksDelete, EksCleared, Leave, ProfileDelete, RoleStrip, RoleDelete,
    DataSgRefs, DataSgDelete, DataSgRefused, DownDone
<1>3. pc' \in PastGroups => pc \in PastGroups \/ ((GroupMissing \/ GroupDeleted) /\ k # 1)
  BY DEF DownStep,
    Revoke, IrsaStrip, IrsaDelete, OidcDelete, SaveOidcDown, GroupDelete, GroupMissing, GroupDeleted,
    LtDelete, SaveGroupsDown, EksDelete, EksCleared, Leave, ProfileDelete, RoleStrip, RoleDelete,
    DataSgRefs, DataSgDelete, DataSgRefused, DownDone
<1>4. pc' \in PastLts => pc \in PastLts \/ (LtDelete /\ k # 1)
  BY DEF DownStep,
    Revoke, IrsaStrip, IrsaDelete, OidcDelete, SaveOidcDown, GroupDelete, GroupMissing, GroupDeleted,
    LtDelete, SaveGroupsDown, EksDelete, EksCleared, Leave, ProfileDelete, RoleStrip, RoleDelete,
    DataSgRefs, DataSgDelete, DataSgRefused, DownDone
<1>5. pc' \in PastEks => pc \in PastEks \/ EksCleared
  BY DEF DownStep,
    Revoke, IrsaStrip, IrsaDelete, OidcDelete, SaveOidcDown, GroupDelete, GroupMissing, GroupDeleted,
    LtDelete, SaveGroupsDown, EksDelete, Leave, ProfileDelete, RoleStrip, RoleDelete, DataSgRefs,
    DataSgDelete, DataSgRefused, DownDone
<1>6. pc' \in PastEks \ {"leave", "profileDelete"} => pc \in PastEks \ {"leave",
    "profileDelete"} \/ ProfileDelete
  BY DEF DownStep,
    Revoke, IrsaStrip, IrsaDelete, OidcDelete, SaveOidcDown, GroupDelete, GroupMissing, GroupDeleted,
    LtDelete, SaveGroupsDown, EksDelete, EksCleared, Leave, RoleStrip, RoleDelete, DataSgRefs,
    DataSgDelete, DataSgRefused, DownDone
<1>7. pc' \in PastRoles => pc \in PastRoles \/ (RoleDelete /\ k # 1)
  BY DEF DownStep,
    Revoke, IrsaStrip, IrsaDelete, OidcDelete, SaveOidcDown, GroupDelete, GroupMissing, GroupDeleted,
    LtDelete, SaveGroupsDown, EksDelete, EksCleared, Leave, ProfileDelete, RoleStrip, RoleDelete,
    DataSgRefs, DataSgDelete, DataSgRefused, DownDone
<1>8. QED BY <1>1, <1>2, <1>3, <1>4, <1>5, <1>6, <1>7

\* Inside a command: what it was asked and what it was told.
LEMMA CommandStep == ASSUME Next, pc # "idle"
  PROVE /\ run' = run /\ keep' = keep
        /\ pc' # "idle" => done' = done
        /\ misled => misled'
<1> USE DEF Next, At, Goto, Go, GoTo, End, AfterGroup, NextZone, Dropped, Fault, SaveAnd, Fail, StartUp,
    StartDown,
  Abort, LoseState, Outside, UpStep, DownStep,
    RoleEnsure, RolePolicies, ProfileEnsure, ProfileJoin, DataSgEnsure, DataSgSelf, SaveIam, EksCreate,
    EksFound, EksReady, EksRefused, LtEnsure, LtUnseen, BnkCreate, BnkFound, BnkReady, GroupRefused,
    GpuCreate, GpuFound, GpuReady, GpuExhausted, GpuGone, SaveGroups, OidcKnown, OidcCreate, OidcTaken,
    IrsaEnsure, IrsaPolicy, Allow, UpDone, Revoke, IrsaStrip, IrsaDelete, OidcDelete, SaveOidcDown,
    GroupDelete, GroupMissing, GroupDeleted, LtDelete, SaveGroupsDown, EksDelete, EksCleared, Leave,
    ProfileDelete, RoleStrip, RoleDelete, DataSgRefs, DataSgDelete, DataSgRefused, DownDone
<1>1. run' = run /\ keep' = keep OBVIOUS
<1>2. pc' # "idle" => done' = done OBVIOUS
<1>3. misled => misled' OBVIOUS
<1>4. QED BY <1>1, <1>2, <1>3

\* What goes on in the account leaves all but the cluster, its groups and its own
\* security group alone.
LEMMA OutsideStep == ASSUME Outside
  PROVE UNCHANGED <<roles, profile, oidc, lts, disk, mem, pc, done, run, k, cap, keep, misled, faults>>
  BY DEF Outside, AccountStep, ClusterSettles, ClusterGone, AsgTries, GroupSettles, GroupGone, OnlyEks,
    OnlyGroups

\* The other commands and the operator do not touch the account.
LEMMA IdleStep == ASSUME StartUp \/ StartDown \/ Abort \/ LoseState PROVE UNCHANGED cloud
  BY DEF StartUp, StartDown, Abort, LoseState

\* One role at a time.
LEMMA RoleSet == ASSUME TypeOK, NEW r \in RoleNames, NEW x, SetRole(r, x)
  PROVE roles'[r] = x /\ \A q \in RoleNames : q # r => roles'[q] = roles[q]
<1>1. roles \in [RoleNames -> {"none", "bare", "ready"}] BY DEF TypeOK, AccountTypeOK
<1>2. QED BY <1>1 DEF SetRole

\* Which roles a step leaves as they are.
LEMMA RoleSteps == ASSUME TypeOK, Control, Next
  PROVE /\ RolePolicies => roles'[UpRole] = "ready"
        /\ RoleEnsure \/ RolePolicies => \A q \in RoleNames : q # UpRole => roles'[q] = roles[q]
        /\ IrsaPolicy => roles'["irsa"] = "ready"
        /\ IrsaDelete => roles'["irsa"] = "none"
        /\ IrsaEnsure \/ IrsaPolicy \/ IrsaStrip \/ IrsaDelete
             => \A q \in RoleNames : q # "irsa" => roles'[q] = roles[q]
        /\ RoleDelete => roles'[DownRole] = "none"
        /\ RoleStrip \/ RoleDelete => \A q \in RoleNames : q # DownRole => roles'[q] = roles[q]
        /\ RoleStrip /\ roles[DownRole] = "none" => roles'[DownRole] = "none"
        /\ Outside => roles' = roles
<1>1. UpRole \in RoleNames /\ DownRole \in RoleNames /\ "irsa" \in RoleNames
  BY DEF UpRole, DownRole, RoleNames
<1>2. RolePolicies => roles'[UpRole] = "ready" /\ \A q \in RoleNames : q # UpRole => roles'[q] = roles[q]
  BY <1>1, RoleSet DEF RolePolicies
<1>3. RoleEnsure => \A q \in RoleNames : q # UpRole => roles'[q] = roles[q]
  BY <1>1, RoleSet DEF RoleEnsure, cloud
<1>4. IrsaPolicy => roles'["irsa"] = "ready" /\ \A q \in RoleNames : q # "irsa" => roles'[q] = roles[q]
  BY <1>1, RoleSet DEF IrsaPolicy
<1>5. IrsaEnsure => \A q \in RoleNames : q # "irsa" => roles'[q] = roles[q]
  BY <1>1, RoleSet DEF IrsaEnsure, cloud
<1>6. IrsaDelete => roles'["irsa"] = "none" /\ \A q \in RoleNames : q # "irsa" => roles'[q] = roles[q]
  BY <1>1, RoleSet DEF IrsaDelete
<1>7. IrsaStrip => \A q \in RoleNames : q # "irsa" => roles'[q] = roles[q]
  BY <1>1, RoleSet DEF IrsaStrip, Strip, cloud
<1>8. RoleDelete => roles'[DownRole] = "none" /\ \A q \in RoleNames : q # DownRole => roles'[q] = roles[q]
  BY <1>1, RoleSet DEF RoleDelete
<1>9. RoleStrip => \A q \in RoleNames : q # DownRole => roles'[q] = roles[q]
  BY <1>1, RoleSet DEF RoleStrip, Strip, cloud
<1>10. RoleStrip /\ roles[DownRole] = "none" => roles' = roles BY DEF RoleStrip, Strip, cloud
<1>11. QED BY <1>2, <1>3, <1>4, <1>5, <1>6, <1>7, <1>8, <1>9, <1>10, OutsideStep

\* No point belongs to both commands.
LEMMA Apart == /\ \A p \in DownPoints : p \notin UpPoints
               /\ "idle" \notin UpPoints /\ "idle" \notin DownPoints
               /\ "role" \in UpPoints /\ "revoke" \in DownPoints
  BY DEF UpPoints, DownPoints

\* What a running `up` has made of the roles so far.
LEMMA RolesBuiltStep == ASSUME TypeOK, Control, RolesBuilt, Next PROVE RolesBuilt'
<1> USE Apart
<1>0. pc' \notin UpPoints => RolesBuilt' BY DEF RolesBuilt, UpPoints, FromSg
<1>1. CASE StartUp
  <2>1. k' = 1 /\ pc' = "role" BY <1>1 DEF StartUp, Control, At, Sweep, Loops
  <2>2. QED BY <2>1 DEF RolesBuilt, UpPoints, FromSg
<1>2. CASE Outside BY <1>2, OutsideStep DEF RolesBuilt
<1>3. CASE UpStep /\ pc' \in UpPoints
  <2>0. pc \in Loops => k \in {1, 2} BY DEF Control, Sweep, Loops
  <2>00. "cluster" \in RoleNames /\ "node" \in RoleNames /\ "irsa" \in RoleNames BY DEF RoleNames
  <2>1. pc' = "role" /\ k' = 2 => roles'["cluster"] = "ready"
    BY <1>3, Arrivals, RoleSteps DEF UpRole
  <2>2. pc' = "policy" /\ k' = 2 => roles'["cluster"] = "ready"
    <3>1. pc' = "policy" => RoleEnsure BY <1>3, Arrivals
    <3>2. RoleEnsure => pc = "role" /\ k' = k BY DEF RoleEnsure, At, Go
    <3>3. RoleEnsure /\ k = 2 => roles'["cluster"] = roles["cluster"] BY <2>00, RoleSteps DEF UpRole
    <3>4. QED BY <3>1, <3>2, <3>3 DEF RolesBuilt
  <2>3. pc' \in UpPoints \ {"role", "policy"} => roles'["cluster"] = "ready" /\ roles'["node"] = "ready"
    <3>1. CASE RolePolicies /\ k # 1
      <4>1. pc = "policy" /\ k = 2 BY <2>0, <3>1, Starts DEF Loops
      <4>2. UpRole = "node" BY <3>1 DEF UpRole
      <4>3. QED BY <2>00, <3>1, <4>1, <4>2, RoleSteps DEF RolesBuilt
    <3>2. CASE pc \in UpPoints \ {"role", "policy"}
      <4>1. roles' = roles \/ IrsaEnsure \/ IrsaPolicy
        <5>1. ~RoleEnsure /\ ~RolePolicies BY <3>2, Starts
        <5>2. ~IrsaStrip /\ ~IrsaDelete /\ ~RoleStrip /\ ~RoleDelete
          BY <3>2 DEF IrsaStrip, IrsaDelete, RoleStrip, RoleDelete, At, UpPoints
        <5>3. QED BY <5>1, <5>2, Frames
      <4>2. QED BY <2>00, <3>2, <4>1, RoleSteps DEF RolesBuilt
    <3>3. QED BY <1>3, <3>1, <3>2, Onward
  <2>4. pc' \in {"allow", "saveOidc"} => roles'["irsa"] = "ready"
    <3>1. CASE IrsaPolicy BY <3>1, RoleSteps
    <3>2. CASE Allow
      <4>1. pc = "allow" /\ roles' = roles BY <3>2, Starts DEF Allow, OnlyRules, OnlySgs
      <4>2. QED BY <4>1 DEF RolesBuilt
    <3>3. QED BY <1>3, <3>1, <3>2, Arrivals
  <2>5. pc' \in FromSg => profile' = "joined"
    <3>1. CASE ProfileJoin BY <3>1 DEF ProfileJoin, SetProfile
    <3>2. CASE pc \in FromSg
      <4>1. ~ProfileEnsure /\ ~ProfileJoin BY <3>2, Starts DEF FromSg
      <4>2. ~Leave /\ ~ProfileDelete BY <3>2 DEF Leave, ProfileDelete, At, FromSg, UpPoints
      <4>3. QED BY <3>2, <4>1, <4>2, Frames DEF RolesBuilt
    <3>3. QED BY <1>3, <3>1, <3>2, Onward
  <2>6. QED BY <2>1, <2>2, <2>3, <2>4, <2>5 DEF RolesBuilt
<1>4. QED BY <1>0, <1>1, <1>2, <1>3, Flow

\* What a running `down` has taken away of them.
LEMMA RolesGoneStep == ASSUME TypeOK, Control, RolesGone, Next PROVE RolesGone'
<1> USE Apart
<1>0. pc' \notin DownPoints \/ pc' = "revoke" => RolesGone'
  BY DEF RolesGone, DownPoints, PastIrsa, PastOidc, PastGroups, PastLts, PastEks, PastRoles
<1>1. CASE Outside BY <1>1, OutsideStep DEF RolesGone
<1>2. CASE DownStep /\ pc' \in DownPoints /\ pc \in DownPoints
  <2>0. pc \in Loops => k \in {1, 2} BY DEF Control, Sweep, Loops
  <2>00. "cluster" \in RoleNames /\ "node" \in RoleNames /\ "irsa" \in RoleNames BY DEF RoleNames
  <2>000. keep' = keep BY <1>2, CommandStep
  <2>1. pc' \in PastIrsa => keep' \/ roles'["irsa"] = "none"
    <3>1. CASE IrsaDelete BY <3>1, RoleSteps
    <3>2. CASE Revoke /\ k # 1 /\ keep BY <2>000, <3>2
    <3>3. CASE pc \in PastIrsa
      <4>1. ~RoleEnsure /\ ~RolePolicies /\ ~IrsaEnsure /\ ~IrsaPolicy BY <1>2, Starts DEF UpPoints
      <4>2. ~IrsaStrip /\ ~IrsaDelete BY <3>3 DEF IrsaStrip, IrsaDelete, At, PastIrsa
      <4>3. roles' = roles \/ RoleStrip \/ RoleDelete BY <4>1, <4>2, Frames
      <4>4. DownRole # "irsa" BY DEF DownRole
      <4>5. roles'["irsa"] = roles["irsa"] BY <2>00, <4>3, <4>4, RoleSteps
      <4>6. QED BY <2>000, <3>3, <4>5 DEF RolesGone
    <3>4. QED BY <1>2, <3>1, <3>2, <3>3, DownOnward
  <2>2. pc' \in PastEks \ {"leave", "profileDelete"} => profile' = "none"
    <3>1. CASE ProfileDelete BY <3>1 DEF ProfileDelete, SetProfile
    <3>2. CASE pc \in PastEks \ {"leave", "profileDelete"}
      <4>1. ~ProfileEnsure /\ ~ProfileJoin BY <1>2, Starts DEF UpPoints
      <4>2. ~Leave /\ ~ProfileDelete BY <3>2 DEF Leave, ProfileDelete, At
      <4>3. QED BY <3>2, <4>1, <4>2, Frames DEF RolesGone
    <3>3. QED BY <1>2, <3>1, <3>2, DownOnward
  <2>3. pc' \in {"strip", "roleDelete"} /\ k' = 2 => roles'["node"] = "none"
    <3>1. pc' = "strip" => ProfileDelete \/ (RoleDelete /\ k = 1) BY <1>2, DownArrivals
    <3>2. pc' = "roleDelete" => RoleStrip BY <1>2, DownArrivals
    <3>3. ProfileDelete => k' = 1 BY DEF ProfileDelete, GoTo
    <3>4. RoleDelete /\ k = 1 => roles'["node"] = "none" BY RoleSteps DEF DownRole
    <3>5. RoleStrip => pc = "strip" /\ k' = k BY DEF RoleStrip, At, Go
    <3>6. RoleStrip /\ k = 2 => roles'["node"] = roles["node"] BY <2>00, RoleSteps DEF DownRole
    <3>7. QED BY <3>1, <3>2, <3>3, <3>4, <3>5, <3>6 DEF RolesGone
  <2>4. pc' \in PastRoles => roles'["cluster"] = "none" /\ roles'["node"] = "none"
    <3>1. CASE RoleDelete /\ k # 1
      <4>1. pc = "roleDelete" /\ k = 2 BY <2>0, <3>1 DEF RoleDelete, At, Loops
      <4>2. DownRole = "cluster" BY <3>1 DEF DownRole
      <4>3. QED BY <2>00, <3>1, <4>1, <4>2, RoleSteps DEF RolesGone
    <3>2. CASE pc \in PastRoles
      <4>1. ~RoleEnsure /\ ~RolePolicies /\ ~IrsaEnsure /\ ~IrsaPolicy BY <1>2, Starts DEF UpPoints
      <4>2. ~IrsaStrip /\ ~IrsaDelete /\ ~RoleStrip /\ ~RoleDelete
        BY <3>2 DEF IrsaStrip, IrsaDelete, RoleStrip, RoleDelete, At, PastRoles
      <4>3. QED BY <3>2, <4>1, <4>2, Frames DEF RolesGone
    <3>3. QED BY <1>2, <3>1, <3>2, DownOnward
  <2>5. QED BY <2>1, <2>2, <2>3, <2>4 DEF RolesGone
<1>3. QED BY <1>0, <1>1, <1>2, Flow DEF UpPoints

\* What exists and is well changes only by a command.
LEMMA OutsideKeeps == ASSUME TypeOK, Outside
  PROVE /\ eks.status \in {"none", "ACTIVE"} => eks' = eks /\ sgs' = sgs /\ rules' = rules
        /\ \A g \in GroupNames : groups[g].status \in {"none", "ACTIVE"} => groups'[g] = groups[g]
        /\ \A s \in sgs : s[1] = "data" => s \in sgs'
<1>1. groups \in [GroupNames -> Group] BY DEF TypeOK, AccountTypeOK
<1>2. eks.status \in {"none", "ACTIVE"} => eks' = eks /\ sgs' = sgs /\ rules' = rules
  BY DEF Outside, AccountStep, ClusterSettles, ClusterGone, AsgTries, GroupSettles, GroupGone, OnlyEks,
    OnlyGroups
<1>3. ASSUME NEW g \in GroupNames, groups[g].status \in {"none", "ACTIVE"} PROVE groups'[g] = groups[g]
  <2>1. ASSUME NEW h \in GroupNames, NEW x, SetGroup(h, x), h # g PROVE groups'[g] = groups[g]
    BY <1>1, <2>1 DEF SetGroup
  <2>2. "gpu" \in GroupNames BY DEF GroupNames
  <2>3. CASE AsgTries BY <1>3, <2>1, <2>2, <2>3 DEF AsgTries
  <2>4. CASE \E h \in GroupNames : GroupSettles(h) \/ GroupGone(h)
    BY <1>3, <2>1, <2>4 DEF GroupSettles, GroupGone
  <2>5. CASE ClusterSettles \/ ClusterGone BY <2>5 DEF ClusterSettles, ClusterGone, OnlyEks
  <2>6. QED BY <2>3, <2>4, <2>5 DEF Outside, AccountStep
<1>4. ASSUME NEW s \in sgs, s[1] = "data" PROVE s \in sgs'
  <2>1. s # ClusterSg BY <1>4 DEF ClusterSg
  <2>2. CASE ClusterGone BY <2>1, <2>2 DEF ClusterGone
  <2>3. CASE ~ClusterGone BY <2>3 DEF Outside, AccountStep, ClusterSettles, AsgTries, GroupSettles,
      GroupGone, OnlyEks, OnlyGroups
  <2>4. QED BY <2>2, <2>3
<1>5. QED BY <1>2, <1>3, <1>4

\* What a step of `up` that is not its last changes in memory.
LEMMA MemFrames == ASSUME UpStep, pc' # "idle"
  PROVE mem' = mem \/ DataSgEnsure \/ EksReady \/ LtEnsure \/ OidcCreate
  BY DEF UpStep, At, Goto, Go, GoTo, End, NextZone, SaveAnd, Fail,
    RoleEnsure, RolePolicies, ProfileEnsure, ProfileJoin, DataSgEnsure, DataSgSelf, SaveIam, EksCreate,
    EksFound, EksReady, EksRefused, LtEnsure, LtUnseen, BnkCreate, BnkFound, BnkReady, GroupRefused,
    GpuCreate, GpuFound, GpuReady, GpuExhausted, GpuGone, SaveGroups, OidcKnown, OidcCreate, OidcTaken,
    IrsaEnsure, IrsaPolicy, Allow, UpDone

\* One key at a time.
LEMMA MemSet == ASSUME TypeOK, NEW key \in Keys, NEW id, Set(key, id)
  PROVE mem'[key] = id /\ \A q \in Keys : q # key => mem'[q] = mem[q]
<1>1. mem \in [Keys -> Ref] BY DEF TypeOK
<1>2. QED BY <1>1 DEF Set

\* What the steps of `up` write there.
LEMMA MemSteps == ASSUME TypeOK, UpStep, pc' # "idle"
  PROVE /\ EksReady => mem'["cluster"] = eks.run
        /\ mem'["cluster"] = mem["cluster"] \/ EksReady
        /\ mem'["data"] = mem["data"] \/ DataSgEnsure
        /\ \A n \in {"lt-bnk", "lt-gpu"} : mem'[n] = mem[n] \/ (LtEnsure /\ n = Lt)
<1>1. "data" \in Keys /\ "cluster" \in Keys /\ "oidc" \in Keys /\ "lt-bnk" \in Keys /\ "lt-gpu" \in Keys
  BY DEF Keys
<1>2. EksReady => Set("cluster", eks.run) BY DEF EksReady
<1>3. DataSgEnsure => \E id : Set("data", id) BY DEF DataSgEnsure
<1>4. LtEnsure => \E id : Set(Lt, id) BY DEF LtEnsure
<1>5. OidcCreate => \E id : Set("oidc", id) BY DEF OidcCreate
<1>6. Lt \in {"lt-bnk", "lt-gpu"} BY DEF Lt
<1>7. EksReady => /\ mem'["cluster"] = eks.run /\ mem'["data"] = mem["data"]
                  /\ mem'["lt-bnk"] = mem["lt-bnk"] /\ mem'["lt-gpu"] = mem["lt-gpu"]
  BY <1>1, <1>2, MemSet
<1>8. DataSgEnsure => /\ mem'["cluster"] = mem["cluster"]
                      /\ mem'["lt-bnk"] = mem["lt-bnk"] /\ mem'["lt-gpu"] = mem["lt-gpu"]
  BY <1>1, <1>3, MemSet
<1>9. OidcCreate => /\ mem'["cluster"] = mem["cluster"] /\ mem'["data"] = mem["data"]
                    /\ mem'["lt-bnk"] = mem["lt-bnk"] /\ mem'["lt-gpu"] = mem["lt-gpu"]
  BY <1>1, <1>5, MemSet
<1>10. LtEnsure => /\ mem'["cluster"] = mem["cluster"] /\ mem'["data"] = mem["data"]
                   /\ "lt-bnk" # Lt => mem'["lt-bnk"] = mem["lt-bnk"]
                   /\ "lt-gpu" # Lt => mem'["lt-gpu"] = mem["lt-gpu"]
  BY <1>1, <1>4, <1>6, MemSet
<1>11. QED BY <1>7, <1>8, <1>9, <1>10, MemFrames

\* A name found is the name of something there.
LEMMA Found == ASSUME TypeOK
  PROVE /\ \A n : \A r \in Named(lts, n) : <<n, r>> \in lts
        /\ \A r \in Named(sgs, "data") : <<"data", r>> \in sgs
<1>1. \A x \in lts : x = <<x[1], x[2]>> BY DEF TypeOK, AccountTypeOK, LtId
<1>2. \A x \in sgs : x = <<x[1], x[2]>> BY DEF TypeOK, AccountTypeOK, SgId
<1>3. QED BY <1>1, <1>2 DEF Named

\* An ensured template is there, under the id in memory, and no other goes.
LEMMA LtEnsured == ASSUME TypeOK, LtEnsure
  PROVE <<Lt, mem'[Lt]>> \in lts' /\ lts \subseteq lts'
<1>1. Lt \in Keys BY DEF Lt, Keys
<1>2. CASE \E r \in Named(lts, Lt) : Set(Lt, r) /\ UNCHANGED cloud
  <2>1. PICK r \in Named(lts, Lt) : Set(Lt, r) /\ lts' = lts BY <1>2 DEF cloud
  <2>2. mem'[Lt] = r BY <1>1, <2>1, MemSet
  <2>3. QED BY <2>1, <2>2, Found
<1>3. CASE Named(lts, Lt) = {} /\ lts' = lts \cup {<<Lt, run>>} /\ Set(Lt, run)
  <2>1. mem'[Lt] = run BY <1>1, <1>3, MemSet
  <2>2. QED BY <1>3, <2>1
<1>4. QED BY <1>2, <1>3 DEF LtEnsure

\* What a running `up` has made of the cluster, its templates and its node groups so far.
LEMMA EksBuiltStep == ASSUME TypeOK, Control, EksBuilt, Next PROVE EksBuilt'
<1> USE Apart
<1>0. pc' \notin UpPoints \/ pc' = "role" => EksBuilt'
  BY DEF EksBuilt, UpPoints, FromSg, FromSaveIam, FromLt, FromBnk, FromGpu, FromSaveGroups
<1>1. CASE Outside
  <2>1. UNCHANGED <<lts, mem, pc, k>> BY <1>1, OutsideStep
  <2>2. "bnk" \in GroupNames /\ "gpu" \in GroupNames BY DEF GroupNames
  <2>3. pc \in FromLt => eks' = eks BY <1>1, OutsideKeeps DEF EksBuilt
  <2>4. groups["bnk"].status = "ACTIVE" => groups'["bnk"].status = "ACTIVE" BY <1>1, <2>2, OutsideKeeps
  <2>5. groups["gpu"].status = "ACTIVE" => groups'["gpu"].status = "ACTIVE" BY <1>1, <2>2, OutsideKeeps
  <2>6. QED BY <2>1, <2>3, <2>4, <2>5 DEF EksBuilt
<1>2. CASE UpStep /\ pc \in UpPoints /\ pc' \in UpPoints
  <2>0. pc \in Loops => k \in {1, 2} BY DEF Control, Sweep, Loops
  <2>1. ~EksDelete /\ ~GroupDelete /\ ~LtDelete BY <1>2 DEF EksDelete, GroupDelete, LtDelete, At, UpPoints
  <2>2. ~Outside \/ pc' = pc BY OutsideStep
  <2>3. pc' \in FromLt => eks'.status = "ACTIVE" /\ mem'["cluster"] = eks'.run
    <3>1. CASE EksReady
      <4>1. eks.status = "ACTIVE" /\ eks' = eks BY <3>1 DEF EksReady, cloud
      <4>2. QED BY <1>2, <3>1, <4>1, MemSteps
    <3>2. CASE pc \in FromLt
      <4>1. ~EksCreate /\ ~EksReady BY <3>2, Starts DEF FromLt
      <4>2. eks.status = "ACTIVE" /\ mem["cluster"] = eks.run BY <3>2 DEF EksBuilt
      <4>3. ~ClusterSettles /\ ~ClusterGone BY <4>2 DEF ClusterSettles, ClusterGone
      <4>4. eks' = eks BY <2>1, <4>1, <4>3, Frames
      <4>5. QED BY <1>2, <4>1, <4>2, <4>4, MemSteps
    <3>3. QED BY <1>2, <3>1, <3>2, Onward
  <2>4. pc' = "lt" /\ k' = 2 => <<"lt-bnk", mem'["lt-bnk"]>> \in lts'
    <3>1. pc' = "lt" => EksReady \/ (LtEnsure /\ k = 1) BY <1>2, Arrivals
    <3>2. EksReady => k' = 1 BY DEF EksReady
    <3>3. k = 1 => Lt = "lt-bnk" BY DEF Lt
    <3>4. QED BY <3>1, <3>2, <3>3, LtEnsured
  <2>5. pc' \in FromBnk => \A n \in {"lt-bnk", "lt-gpu"} : <<n, mem'[n]>> \in lts'
    <3>1. CASE LtEnsure /\ k # 1
      <4>1. pc = "lt" /\ k = 2 BY <2>0, <3>1, Starts DEF Loops
      <4>2. Lt = "lt-gpu" BY <3>1 DEF Lt
      <4>3. <<"lt-bnk", mem["lt-bnk"]>> \in lts BY <4>1 DEF EksBuilt
      <4>4. mem'["lt-bnk"] = mem["lt-bnk"] BY <1>2, <4>2, MemSteps
      <4>5. <<"lt-gpu", mem'["lt-gpu"]>> \in lts' /\ lts \subseteq lts' BY <3>1, <4>2, LtEnsured
      <4>6. QED BY <4>3, <4>4, <4>5
    <3>2. CASE pc \in FromBnk
      <4>1. ~LtEnsure BY <3>2, Starts DEF FromBnk, FromLt
      <4>2. lts' = lts BY <2>1, <4>1, Frames
      <4>3. \A n \in {"lt-bnk", "lt-gpu"} : mem'[n] = mem[n] BY <1>2, <4>1, MemSteps
      <4>4. QED BY <3>2, <4>2, <4>3 DEF EksBuilt
    <3>3. QED BY <1>2, <3>1, <3>2, Onward
  <2>6. groups \in [GroupNames -> Group] BY DEF TypeOK, AccountTypeOK
  <2>7. pc' \in FromGpu => groups'["bnk"].status = "ACTIVE"
    <3>1. CASE BnkReady BY <3>1 DEF BnkReady, SaveAnd, cloud
    <3>2. CASE pc \in FromGpu
      <4>1. ~BnkCreate BY <3>2, Starts DEF FromGpu, FromBnk
      <4>2. groups["bnk"].status = "ACTIVE" BY <3>2 DEF EksBuilt
      <4>3. CASE GpuCreate \/ GpuExhausted
        BY <2>6, <4>2, <4>3 DEF GpuCreate, GpuExhausted, NewGroup, Deleting, SetGroup, GroupNames, cloud
      <4>4. CASE Outside
        <5>1. "bnk" \in GroupNames BY DEF GroupNames
        <5>2. QED BY <4>2, <4>4, <5>1, OutsideKeeps
      <4>5. QED BY <2>1, <4>1, <4>2, <4>3, <4>4, Frames
    <3>3. QED BY <1>2, <3>1, <3>2, Onward
  <2>8. pc' \in FromSaveGroups => groups'["gpu"].status = "ACTIVE"
    <3>1. CASE GpuReady BY <3>1 DEF GpuReady, SaveAnd, cloud
    <3>2. CASE pc \in FromSaveGroups
      <4>1. ~BnkCreate /\ ~GpuCreate /\ ~GpuExhausted BY <3>2, Starts DEF FromSaveGroups, FromGpu, FromBnk
      <4>2. groups["gpu"].status = "ACTIVE" BY <3>2 DEF EksBuilt
      <4>3. CASE Outside
        <5>1. "gpu" \in GroupNames BY DEF GroupNames
        <5>2. QED BY <4>2, <4>3, <5>1, OutsideKeeps
      <4>4. QED BY <2>1, <4>1, <4>2, <4>3, Frames
    <3>3. QED BY <1>2, <3>1, <3>2, Onward
  <2>9. QED BY <2>3, <2>4, <2>5, <2>7, <2>8 DEF EksBuilt
<1>3. QED BY <1>0, <1>1, <1>2, Flow

\* What it has made of the data-path group and the rules.
LEMMA SgBuiltStep == ASSUME TypeOK, Control, EksBuilt, SgBuilt, Next PROVE SgBuilt'
<1> USE Apart
<1>0. pc' \notin UpPoints \/ pc' = "role" => SgBuilt'
  BY DEF SgBuilt, UpPoints, FromSg, FromSaveIam
<1>1. CASE Outside
  <2>1. UNCHANGED <<mem, pc, k>> BY <1>1, OutsideStep
  <2>2. pc \in FromSaveIam => <<"data", mem["data"]>> \in sgs' BY <1>1, OutsideKeeps DEF SgBuilt
  <2>3. pc \in {"allow", "saveOidc"} => rules' = rules
    BY <1>1, OutsideKeeps DEF EksBuilt, FromLt, FromSaveIam, FromSg, UpPoints
  <2>4. \A j : Pair(j)' = Pair(j) BY <2>1 DEF Pair
  <2>5. QED BY <2>1, <2>2, <2>3, <2>4 DEF SgBuilt
<1>2. CASE UpStep /\ pc \in UpPoints /\ pc' \in UpPoints
  <2>0. pc \in Loops => k \in {1, 2} BY DEF Control, Sweep, Loops
  <2>1. pc' \in FromSaveIam => <<"data", mem'["data"]>> \in sgs'
    <3>0. "data" \in Keys BY DEF Keys
    <3>1. CASE DataSgEnsure
      <4>1. CASE \E r \in Named(sgs, "data") : Set("data", r) /\ UNCHANGED cloud
        <5>1. PICK r \in Named(sgs, "data") : Set("data", r) /\ sgs' = sgs BY <4>1 DEF cloud
        <5>2. mem'["data"] = r BY <3>0, <5>1, MemSet
        <5>3. QED BY <5>1, <5>2, Found
      <4>2. CASE sgs' = sgs \cup {<<"data", run>>} /\ Set("data", run)
        <5>1. mem'["data"] = run BY <3>0, <4>2, MemSet
        <5>2. QED BY <4>2, <5>1
      <4>3. QED BY <3>1, <4>1, <4>2 DEF DataSgEnsure
    <3>2. CASE pc \in FromSaveIam
      <4>1. ~DataSgEnsure BY <3>2, Starts DEF FromSaveIam
      <4>2. ~DataSgRefs /\ ~DataSgDelete BY <1>2 DEF DataSgRefs, DataSgDelete, At, UpPoints
      <4>3. <<"data", mem["data"]>> \in sgs BY <3>2 DEF SgBuilt
      <4>4. mem'["data"] = mem["data"] BY <1>2, <4>1, MemSteps
      <4>5. EksCreate => sgs \subseteq sgs' BY DEF EksCreate
      <4>6. ClusterGone => <<"data", mem["data"]>> \in sgs' BY <4>3 DEF ClusterGone, ClusterSg
      <4>7. QED BY <4>1, <4>2, <4>3, <4>4, <4>5, <4>6, Frames
    <3>3. QED BY <1>2, <3>1, <3>2, Onward
  <2>2. Allow => Pair(k) \in rules' /\ rules \subseteq rules' /\ \A j : Pair(j)' = Pair(j)
    <3>1. Allow => mem' = mem BY DEF Allow, GoTo
    <3>2. Allow => \A j : Pair(j)' = Pair(j) BY <3>1 DEF Pair
    <3>3. QED BY <3>2 DEF Allow
  <2>3. pc' = "allow" /\ k' = 2 => Pair(1)' \in rules'
    <3>1. pc' = "allow" => IrsaPolicy \/ (Allow /\ k = 1) BY <1>2, Arrivals
    <3>2. IrsaPolicy => k' = 1 BY DEF IrsaPolicy, GoTo
    <3>3. QED BY <2>2, <3>1, <3>2
  <2>4. pc' = "saveOidc" => Pair(1)' \in rules' /\ Pair(2)' \in rules'
    <3>1. pc' = "saveOidc" => Allow /\ k # 1 BY <1>2, Arrivals
    <3>2. Allow => pc = "allow" BY Starts
    <3>3. pc = "allow" /\ k # 1 => k = 2 /\ Pair(1) \in rules BY <2>0 DEF Loops, SgBuilt
    <3>4. QED BY <2>2, <3>1, <3>2, <3>3
  <2>5. QED BY <2>1, <2>3, <2>4 DEF SgBuilt
<1>3. QED BY <1>0, <1>1, <1>2, Flow

\* Who reports what.
LEMMA Refusals == /\ EksRefused \/ GroupRefused \/ OidcTaken \/ LtUnseen => done' = "up refused"
                  /\ DataSgRefused => done' = "down refused"
  BY DEF EksRefused, GroupRefused, OidcTaken, LtUnseen, DataSgRefused, Fail, End, At, UpPoints

\* Each report of a command has one step, or few, to come from.
LEMMA Reported == ASSUME Control, Next
  PROVE /\ done' = "up" => UpDone \/ (Outside /\ done = "up")
        /\ done' = "down" => DownDone \/ (Outside /\ done = "down")
        /\ done' = "up refused" => \/ EksRefused \/ LtUnseen \/ GroupRefused \/ OidcTaken
                                   \/ (Outside /\ done = done')
        /\ done' = "down refused" => DataSgRefused \/ (Outside /\ done = done')
<1>1. StartUp \/ StartDown \/ Abort \/ LoseState => done' = "none" BY DEF StartUp, StartDown, Abort,
    LoseState, End
<1>2. ASSUME UpStep
      PROVE done' \in {"none", "no capacity"} \/ UpDone \/ EksRefused \/ LtUnseen \/ GroupRefused \/ OidcTaken
  <2>1. pc # "idle" BY <1>2 DEF UpStep, At,
    RoleEnsure, RolePolicies, ProfileEnsure, ProfileJoin, DataSgEnsure, DataSgSelf, SaveIam, EksCreate,
    EksFound, EksReady, EksRefused, LtEnsure, LtUnseen, BnkCreate, BnkFound, BnkReady, GroupRefused,
    GpuCreate, GpuFound, GpuReady, GpuExhausted, GpuGone, SaveGroups, OidcKnown, OidcCreate, OidcTaken,
    IrsaEnsure, IrsaPolicy, Allow, UpDone
  <2>2. done = "none" BY <2>1 DEF Control
  <2>3. QED BY <1>2, <2>2 DEF UpStep, Goto, Go, GoTo, End, NextZone, SaveAnd, Fail,
    RoleEnsure, RolePolicies, ProfileEnsure, ProfileJoin, DataSgEnsure, DataSgSelf, SaveIam, EksCreate,
    EksFound, EksReady, LtEnsure, BnkCreate, BnkFound, BnkReady, GpuCreate, GpuFound, GpuReady,
    GpuExhausted, GpuGone, SaveGroups, OidcKnown, OidcCreate, IrsaEnsure, IrsaPolicy, Allow
<1>3. ASSUME DownStep PROVE done' = "none" \/ DownDone \/ DataSgRefused
  <2>1. pc # "idle" BY <1>3 DEF DownStep, At,
    Revoke, IrsaStrip, IrsaDelete, OidcDelete, SaveOidcDown, GroupDelete, GroupMissing, GroupDeleted,
    LtDelete, SaveGroupsDown, EksDelete, EksCleared, Leave, ProfileDelete, RoleStrip, RoleDelete,
    DataSgRefs, DataSgDelete, DataSgRefused, DownDone
  <2>2. done = "none" BY <2>1 DEF Control
  <2>3. QED BY <1>3, <2>2 DEF DownStep, Goto, Go, GoTo, End, AfterGroup, SaveAnd, Fail,
    Revoke, IrsaStrip, IrsaDelete, OidcDelete, SaveOidcDown, GroupDelete, GroupMissing, GroupDeleted,
    LtDelete, SaveGroupsDown, EksDelete, EksCleared, Leave, ProfileDelete, RoleStrip, RoleDelete,
    DataSgRefs, DataSgDelete
<1>4. Outside => done' = done BY DEF Outside
<1>5. (UpDone => done' = "up") /\ (DownDone => done' = "down") BY DEF UpDone, DownDone, End
<1>6. QED BY <1>1, <1>2, <1>3, <1>4, <1>5, Refusals DEF Next

\* What a successful `up` leaves stays until the next command.
LEMMA UpBuildsStep == ASSUME TypeOK, Control, RolesBuilt, EksBuilt, SgBuilt, UpBuilds, Next PROVE UpBuilds'
<1>1. CASE done' # "up" BY <1>1 DEF UpBuilds
<1>2. CASE UpDone
  <2>1. pc = "saveOidc" /\ disk' = mem /\ UNCHANGED cloud BY <1>2 DEF UpDone, At
  <2>2. pc \in FromSg /\ pc \in FromLt /\ pc \in FromBnk /\ pc \in FromGpu /\ pc \in FromSaveGroups /\ pc \in FromSaveIam
    BY <2>1 DEF UpPoints, FromSg, FromSaveIam, FromLt, FromBnk, FromGpu, FromSaveGroups
  <2>3. pc \in UpPoints \ {"role", "policy"} BY <2>1 DEF UpPoints
  <2>4. \A r \in RoleNames : roles[r] = "ready" BY <2>1, <2>3 DEF RolesBuilt, RoleNames
  <2>5. profile = "joined" BY <2>2 DEF RolesBuilt
  <2>6. eks.status = "ACTIVE" /\ mem["cluster"] = eks.run BY <2>2 DEF EksBuilt
  <2>7. \A g \in GroupNames : groups[g].status = "ACTIVE" BY <2>2 DEF EksBuilt, GroupNames
  <2>8. \A n \in {"lt-bnk", "lt-gpu"} : <<n, mem[n]>> \in lts BY <2>2 DEF EksBuilt
  <2>9. <<"data", mem["data"]>> \in sgs BY <2>2 DEF SgBuilt
  <2>10. Pair(1) \in rules /\ Pair(2) \in rules BY <2>1 DEF SgBuilt
  <2>11. {<< <<"cluster", mem["cluster"]>>, <<"data", mem["data"]>> >>,
          << <<"data", mem["data"]>>, <<"cluster", mem["cluster"]>> >>} \subseteq rules
    BY <2>10 DEF Pair
  <2>12. QED BY <2>1, <2>4, <2>5, <2>6, <2>7, <2>8, <2>9, <2>11 DEF UpBuilds, ClusterSg, cloud
<1>3. CASE Outside /\ done = "up"
  <2>1. UNCHANGED <<roles, profile, lts, disk, done>> BY <1>3, OutsideStep
  <2>2. eks' = eks /\ sgs' = sgs /\ rules' = rules BY <1>3, OutsideKeeps DEF UpBuilds
  <2>3. \A g \in GroupNames : groups'[g] = groups[g] BY <1>3, OutsideKeeps DEF UpBuilds
  <2>4. QED BY <1>3, <2>1, <2>2, <2>3 DEF UpBuilds, ClusterSg
<1>4. QED BY <1>1, <1>2, <1>3, Reported

\* After a template's deletion that was told the truth, none of its name is left.
LEMMA LtGone == ASSUME TypeOK, Unique, LtDelete, ~misled'
  PROVE ~misled /\ \A y \in lts' : y \in lts /\ y[1] # Lt
<1>1. Lt \in {"lt-bnk", "lt-gpu"} BY DEF Lt
<1>2. \A y \in lts : y[1] = Lt => y = <<Lt, y[2]>> /\ y[2] \in Named(lts, Lt)
  BY DEF TypeOK, AccountTypeOK, LtId, Named
<1>3. CASE lts' = lts \ {<<Lt, mem[Lt]>>} /\ misled' = (misled \/ mem[Lt] \notin Named(lts, Lt))
  <2>1. ~misled /\ mem[Lt] \in Named(lts, Lt) BY <1>3, ~misled'
  <2>2. \A y \in lts : y[1] = Lt => y[2] = mem[Lt] BY <1>1, <1>2, <2>1 DEF Unique
  <2>3. \A y \in lts : y[1] = Lt => y = <<Lt, mem[Lt]>> BY <1>2, <2>2
  <2>4. QED BY <1>3, <2>1, <2>3
<1>4. CASE \E ok \in BOOLEAN : Dropped(ok) /\ lts' = IF ok THEN {l \in lts : l[1] # Lt} ELSE lts
  <2>1. PICK ok \in BOOLEAN : Dropped(ok) /\ lts' = IF ok THEN {l \in lts : l[1] # Lt} ELSE lts BY <1>4
  <2>2. ok /\ misled' = misled BY <2>1, ~misled' DEF Dropped
  <2>3. QED BY <2>1, <2>2, ~misled'
<1>5. QED BY <1>3, <1>4 DEF LtDelete

\* Names follow from what is there.
LEMMA NamedSub == /\ sgs' \subseteq sgs => Named(sgs, "data")' \subseteq Named(sgs, "data")
                  /\ lts' \subseteq lts => \A n : Named(lts, n)' \subseteq Named(lts, n)
                  /\ \A n : (\A y \in lts' : y[1] # n) => Named(lts, n)' = {}
                  /\ \A n : Named(lts, n) = {} => \A y \in lts : y[1] # n
  BY DEF Named

\* What a running `down` has taken away of the cluster, its node groups and templates.
LEMMA EksGoneStep == ASSUME TypeOK, Control, Unique, EksGone, Next PROVE EksGone'
<1> USE Apart
<1>0. pc' \notin DownPoints \/ pc' = "revoke" => EksGone'
  BY DEF EksGone, DownPoints, PastIrsa, PastOidc, PastGroups, PastLts, PastEks
<1>00. "bnk" \in GroupNames /\ "gpu" \in GroupNames BY DEF GroupNames
<1>1. CASE Outside
  <2>1. UNCHANGED <<lts, pc, k, misled>> BY <1>1, OutsideStep
  <2>2. eks.status = "none" => eks'.status = "none" BY <1>1, OutsideKeeps
  <2>3. \A g \in GroupNames : groups[g].status = "none" => groups'[g].status = "none" BY <1>1, OutsideKeeps
  <2>4. NoGroups => NoGroups' BY <2>3 DEF NoGroups
  <2>5. Named(lts, "lt-bnk")' = Named(lts, "lt-bnk") BY <2>1 DEF Named
  <2>6. QED BY <1>00, <2>1, <2>2, <2>3, <2>4, <2>5 DEF EksGone
<1>2. CASE DownStep /\ pc' \in DownPoints /\ pc \in DownPoints
  <2>0. pc \in Loops => k \in {1, 2} BY DEF Control, Sweep, Loops
  <2>1. ~LtEnsure /\ ~BnkCreate /\ ~GpuCreate /\ ~GpuExhausted /\ ~EksCreate BY <1>2, Starts DEF UpPoints
  <2>2. misled => misled' BY <1>2, CommandStep
  <2>3. GroupMissing \/ GroupDeleted => /\ pc \in {"group", "groupGone"} /\ UNCHANGED cloud
                                        /\ groups[GroupAt(k)].status = "none"
                                        /\ k' = IF k = 1 THEN 2 ELSE 1
                                        /\ pc' = IF k = 1 THEN "group" ELSE "ltDelete"
    <3>1. AfterGroup => k' = (IF k = 1 THEN 2 ELSE 1) /\ pc' = (IF k = 1 THEN "group" ELSE "ltDelete")
      BY DEF AfterGroup, GoTo, Goto
    <3>2. QED BY <3>1 DEF GroupMissing, GroupDeleted, At
  <2>4. pc' \in {"group", "groupGone"} /\ k' = 2 => groups'["bnk"].status = "none"
    <3>1. pc' = "group" => SaveOidcDown \/ ((GroupMissing \/ GroupDeleted) /\ k = 1) BY <1>2, DownArrivals
    <3>2. SaveOidcDown => k' = 1 BY DEF SaveOidcDown, SaveAnd
    <3>3. (GroupMissing \/ GroupDeleted) /\ k = 1 => groups'["bnk"].status = "none"
      BY <2>3 DEF GroupAt, cloud
    <3>4. pc' = "groupGone" => GroupDelete BY <1>2, DownArrivals
    <3>5. GroupDelete => pc = "group" /\ k' = k BY DEF GroupDelete, At, Go
    <3>6. groups \in [GroupNames -> Group] BY DEF TypeOK, AccountTypeOK
    <3>7. GroupDelete /\ k = 2 => groups'["bnk"] = groups["bnk"]
      <4>1. k = 2 => GroupAt(k) = "gpu" BY DEF GroupAt
      <4>2. QED BY <1>00, <3>6, <4>1 DEF GroupDelete, Deleting, SetGroup
    <3>8. QED BY <3>1, <3>2, <3>3, <3>4, <3>5, <3>7 DEF EksGone
  <2>5. pc' \in PastGroups => NoGroups'
    <3>1. CASE (GroupMissing \/ GroupDeleted) /\ k # 1
      <4>1. k = 2 BY <2>0, <2>3, <3>1 DEF Loops
      <4>2. groups["bnk"].status = "none" BY <2>3, <3>1, <4>1 DEF EksGone
      <4>3. groups["gpu"].status = "none" BY <2>3, <3>1, <4>1 DEF GroupAt
      <4>4. groups' = groups BY <2>3, <3>1 DEF cloud
      <4>5. QED BY <4>2, <4>3, <4>4 DEF NoGroups, GroupNames
    <3>2. CASE pc \in PastGroups
      <4>1. ~GroupDelete BY <3>2 DEF GroupDelete, At, PastGroups
      <4>2. groups' = groups \/ Outside BY <2>1, <4>1, Frames
      <4>3. NoGroups BY <3>2 DEF EksGone
      <4>4. QED BY <4>2, <4>3, OutsideKeeps DEF NoGroups
    <3>3. QED BY <1>2, <3>1, <3>2, DownOnward
  <2>6. pc' = "ltDelete" /\ k' = 2 /\ ~misled' => Named(lts, "lt-bnk")' = {}
    <3>1. pc' = "ltDelete" => ((GroupMissing \/ GroupDeleted) /\ k # 1) \/ (LtDelete /\ k = 1)
      BY <1>2, DownArrivals
    <3>2. k = 1 => Lt = "lt-bnk" BY DEF Lt
    <3>3. LtDelete /\ k = 1 /\ ~misled' => \A y \in lts' : y[1] # "lt-bnk" BY <3>2, LtGone
    <3>4. (\A y \in lts' : y[1] # "lt-bnk") => Named(lts, "lt-bnk")' = {} BY DEF Named
    <3>5. (GroupMissing \/ GroupDeleted) /\ k # 1 => k' = 1 BY <2>3
    <3>6. QED BY <3>1, <3>3, <3>4, <3>5
  <2>7. pc' \in PastLts /\ ~misled' => lts' = {}
    <3>1. CASE LtDelete /\ k # 1
      <4>1. pc = "ltDelete" /\ k = 2 BY <2>0, <3>1 DEF LtDelete, At, Loops
      <4>2. Lt = "lt-gpu" BY <3>1 DEF Lt
      <4>3. ASSUME ~misled' PROVE \A y \in lts' : y \in lts /\ y[1] # "lt-gpu" /\ y[1] # "lt-bnk"
        <5>1. ~misled /\ \A y \in lts' : y \in lts /\ y[1] # "lt-gpu" BY <3>1, <4>2, <4>3, LtGone
        <5>2. Named(lts, "lt-bnk") = {} BY <4>1, <5>1 DEF EksGone
        <5>3. QED BY <5>1, <5>2, NamedSub
      <4>4. \A y \in lts : y[1] \in {"lt-bnk", "lt-gpu"} BY DEF TypeOK, AccountTypeOK, LtId
      <4>5. QED BY <4>3, <4>4
    <3>2. CASE pc \in PastLts
      <4>1. ~LtDelete BY <3>2 DEF LtDelete, At, PastLts, PastGroups
      <4>2. lts' = lts BY <2>1, <4>1, Frames
      <4>3. QED BY <2>2, <3>2, <4>2 DEF EksGone
    <3>3. QED BY <1>2, <3>1, <3>2, DownOnward
  <2>8. pc' \in PastEks => eks'.status = "none"
    <3>1. CASE EksCleared BY <3>1 DEF EksCleared, cloud
    <3>2. CASE pc \in PastEks
      <4>1. ~EksDelete BY <3>2 DEF EksDelete, At, PastEks
      <4>2. eks.status = "none" BY <3>2 DEF EksGone
      <4>3. ~ClusterSettles /\ ~ClusterGone BY <4>2 DEF ClusterSettles, ClusterGone
      <4>4. QED BY <2>1, <4>1, <4>2, <4>3, Frames
    <3>3. QED BY <1>2, <3>1, <3>2, DownOnward
  <2>9. QED BY <2>4, <2>5, <2>6, <2>7, <2>8 DEF EksGone
<1>3. QED BY <1>0, <1>1, <1>2, Flow DEF UpPoints

\* The account only takes groups and rules away.
LEMMA OutsideTakes == ASSUME Outside PROVE sgs' \subseteq sgs /\ rules' \subseteq rules
  BY DEF Outside, AccountStep, ClusterSettles, ClusterGone, AsgTries, GroupSettles, GroupGone, OnlyEks,
    OnlyGroups

\* The data-path group goes only after the rules that name it, and `down` is refused
\* only when something it was not told kept one of them.
LEMMA SgGoneStep == ASSUME TypeOK, Control, Unique, SgGone, Next PROVE SgGone'
<1> USE Apart, RefFacts
<1>0. "data" \in Keys BY DEF Keys
<1>1. pc' = "sgDelete" /\ ~misled' => /\ \A r \in rules' : r[2] # <<"data", mem'["data"]>>
                                      /\ mem'["data"] = None => Named(sgs, "data")' = {}
  <2>1. CASE DataSgRefs
    <3>1. ASSUME ~misled'
          PROVE /\ Set("data", Target) /\ sgs' \subseteq sgs
                /\ rules' \subseteq {r \in rules : r[2] # <<"data", Target>>}
      <4>1. PICK ok \in BOOLEAN, seen \in BOOLEAN :
              LET s     == IF seen THEN Target ELSE mem["data"]
                  d     == <<"data", s>>
                  kept  == IF ok THEN {r \in rules : r[2] # d} ELSE rules
                  shell == {c \in sgs : c[1] = "cluster" /\ <<c, d>> \in rules \ kept
                                        /\ c # ClusterSg /\ \A r \in kept : r[2] # c}
              IN /\ Dropped(ok /\ seen) /\ Set("data", s)
                 /\ sgs' = sgs \ shell
                 /\ rules' = {r \in kept : r[1] \notin shell}
        BY <2>1 DEF DataSgRefs
      <4>2. ok /\ seen BY <3>1, <4>1 DEF Dropped
      <4>3. QED BY <4>1, <4>2
    <3>2. Target = None => Named(sgs, "data") = {}
      <4>1. Named(sgs, "data") \subseteq Runs BY Names
      <4>2. QED BY <4>1 DEF Target
    <3>3. QED BY <1>0, <3>1, <3>2, MemSet, NamedSub
  <2>2. CASE Outside
    <3>1. UNCHANGED <<pc, mem, misled>> BY <2>2, OutsideStep
    <3>2. sgs' \subseteq sgs /\ rules' \subseteq rules BY <2>2, OutsideTakes
    <3>3. QED BY <3>1, <3>2, NamedSub DEF SgGone
  <2>3. ASSUME pc' = "sgDelete" PROVE DataSgRefs \/ Outside
    BY <2>3, Flow, DownArrivals DEF UpPoints
  <2>4. QED BY <2>1, <2>2, <2>3
<1>2. pc' = "saveIamDown" /\ ~misled' => Named(sgs, "data")' = {}
  <2>1. CASE DataSgDelete
    <3>0. pc = "sgDelete" BY <2>1 DEF DataSgDelete, At
    <3>1. sgs' = sgs \ {<<"data", mem["data"]>>} BY <2>1 DEF DataSgDelete
    <3>2. misled' = (misled \/ (<<"data", mem["data"]>> \notin sgs /\ mem["data"] # None))
      BY <2>1 DEF DataSgDelete
    <3>3. ASSUME ~misled', NEW y \in sgs', y[1] = "data" PROVE FALSE
      <4>1. y \in sgs /\ y = <<"data", y[2]>> BY <3>1, <3>3 DEF TypeOK, AccountTypeOK, SgId
      <4>2. y[2] \in Named(sgs, "data") BY <3>3, <4>1 DEF Named
      <4>3. mem["data"] # None BY <3>0, <3>2, <3>3, <4>2 DEF SgGone
      <4>4. <<"data", mem["data"]>> \in sgs BY <3>2, <3>3, <4>3
      <4>5. mem["data"] \in Named(sgs, "data") BY <4>4 DEF Named
      <4>6. y[2] = mem["data"] BY <4>2, <4>5 DEF Unique
      <4>7. QED BY <3>1, <4>1, <4>6
    <3>4. QED BY <3>3 DEF Named
  <2>2. CASE Outside
    <3>1. UNCHANGED <<pc, misled>> /\ sgs' \subseteq sgs BY <2>2, OutsideStep, OutsideTakes
    <3>2. QED BY <3>1, NamedSub DEF SgGone
  <2>3. ASSUME pc' = "saveIamDown" PROVE DataSgDelete \/ Outside
    BY <2>3, Flow, DownArrivals DEF UpPoints
  <2>4. QED BY <2>1, <2>2, <2>3
<1>3. done' = "down refused" => misled'
  <2>1. CASE DataSgRefused
    <3>1. pc = "sgDelete" /\ misled' = misled BY <2>1 DEF DataSgRefused, At, Fail
    <3>2. \E r \in rules : r[2] = <<"data", mem["data"]>> BY <2>1 DEF DataSgRefused, SgInUse, ClusterSg
    <3>3. QED BY <3>1, <3>2 DEF SgGone
  <2>2. CASE Outside /\ done = done' BY <2>2, OutsideStep DEF SgGone
  <2>3. QED BY <2>1, <2>2, Reported
<1>4. QED BY <1>1, <1>2, <1>3 DEF SgGone

\* A command ends with what it knows of the provider saved, or never learned of another.
LEMMA Ends == ASSUME Next, pc # "idle", pc' = "idle"
  PROVE \/ disk' = mem
        \/ disk' = disk /\ pc \notin Unsaved
        \/ disk' = disk /\ oidc' = oidc /\ faults' = faults + 1
<1>1. CASE Abort BY <1>1 DEF Abort, Fault, cloud
<1>2. CASE UpStep
  <2>1. disk' = mem \/ (disk' = disk /\ pc \notin Unsaved)
    BY <1>2, pc' = "idle" DEF Unsaved, UpStep, At, Goto, Go, GoTo, End, NextZone, SaveAnd, Fail,
    RoleEnsure, RolePolicies, ProfileEnsure, ProfileJoin, DataSgEnsure, DataSgSelf, SaveIam, EksCreate,
    EksFound, EksReady, EksRefused, LtEnsure, LtUnseen, BnkCreate, BnkFound, BnkReady, GroupRefused,
    GpuCreate, GpuFound, GpuReady, GpuExhausted, GpuGone, SaveGroups, OidcKnown, OidcCreate, OidcTaken,
    IrsaEnsure, IrsaPolicy, Allow, UpDone
  <2>2. QED BY <2>1
<1>3. CASE DownStep
  <2>1. disk' = mem \/ (disk' = disk /\ pc \notin Unsaved)
    BY <1>3, pc' = "idle" DEF Unsaved, DownStep, At, Goto, Go, GoTo, End, AfterGroup, SaveAnd, Fail,
    Revoke, IrsaStrip, IrsaDelete, OidcDelete, SaveOidcDown, GroupDelete, GroupMissing, GroupDeleted,
    LtDelete, SaveGroupsDown, EksDelete, EksCleared, Leave, ProfileDelete, RoleStrip, RoleDelete,
    DataSgRefs, DataSgDelete, DataSgRefused, DownDone
  <2>2. QED BY <2>1
<1>4. ~StartUp /\ ~StartDown /\ ~LoseState BY DEF StartUp, StartDown, LoseState, At
<1>5. ~Outside BY DEF Outside
<1>6. QED BY <1>1, <1>2, <1>3, <1>4, <1>5 DEF Next

\* Which steps of a command learn of a provider or forget it, and which save that.
LEMMA Learns == ASSUME TypeOK, UpStep \/ DownStep, pc' # "idle"
  PROVE /\ mem'["oidc"] = mem["oidc"] \/ OidcCreate \/ OidcDelete
        /\ disk' = disk \/ disk' = mem'
        /\ pc \in Unsaved => pc' \in Unsaved \/ disk' = mem'
<1>1. "data" \in Keys /\ "cluster" \in Keys /\ "oidc" \in Keys /\ Lt \in Keys /\ Lt # "oidc"
  BY DEF Keys, Lt
<1>2. CASE UpStep
  <2>1. DataSgEnsure => \E id : Set("data", id) BY DEF DataSgEnsure
  <2>2. EksReady => Set("cluster", eks.run) BY DEF EksReady
  <2>3. LtEnsure => \E id : Set(Lt, id) BY DEF LtEnsure
  <2>4. mem'["oidc"] = mem["oidc"] \/ OidcCreate
    BY <1>1, <1>2, <2>1, <2>2, <2>3, pc' # "idle", MemFrames, MemSet
  <2>5. disk' = disk \/ disk' = mem'
    BY <1>2, pc' # "idle" DEF UpStep, At, Goto, Go, GoTo, End, NextZone, SaveAnd, Fail,
    RoleEnsure, RolePolicies, ProfileEnsure, ProfileJoin, DataSgEnsure, DataSgSelf, SaveIam, EksCreate,
    EksFound, EksReady, EksRefused, LtEnsure, LtUnseen, BnkCreate, BnkFound, BnkReady, GroupRefused,
    GpuCreate, GpuFound, GpuReady, GpuExhausted, GpuGone, SaveGroups, OidcKnown, OidcCreate, OidcTaken,
    IrsaEnsure, IrsaPolicy, Allow, UpDone
  <2>6. pc \in Unsaved => pc' \in Unsaved
    BY <1>2, pc' # "idle" DEF Unsaved, UpStep, At, Goto, Go, GoTo, End, NextZone, SaveAnd, Fail,
    RoleEnsure, RolePolicies, ProfileEnsure, ProfileJoin, DataSgEnsure, DataSgSelf, SaveIam, EksCreate,
    EksFound, EksReady, EksRefused, LtEnsure, LtUnseen, BnkCreate, BnkFound, BnkReady, GroupRefused,
    GpuCreate, GpuFound, GpuReady, GpuExhausted, GpuGone, SaveGroups, OidcKnown, OidcCreate, OidcTaken,
    IrsaEnsure, IrsaPolicy, Allow, UpDone
  <2>7. QED BY <2>4, <2>5, <2>6
<1>3. CASE DownStep
  <2>1. mem' = mem \/ OidcDelete \/ LtDelete \/ EksCleared \/ DataSgRefs \/ DataSgDelete
    BY <1>3, pc' # "idle" DEF DownStep, Goto, Go, GoTo, End, AfterGroup, SaveAnd, Fail,
    Revoke, IrsaStrip, IrsaDelete, SaveOidcDown, GroupDelete, GroupMissing, GroupDeleted,
    SaveGroupsDown, EksDelete, Leave, ProfileDelete, RoleStrip, RoleDelete, DataSgRefused, DownDone
  <2>2. LtDelete => Set(Lt, None) BY DEF LtDelete
  <2>3. EksCleared => Set("cluster", None) BY DEF EksCleared
  <2>4. DataSgRefs => \E id : Set("data", id) BY DEF DataSgRefs
  <2>5. DataSgDelete => Set("data", None) BY DEF DataSgDelete
  <2>6. mem'["oidc"] = mem["oidc"] \/ OidcDelete BY <1>1, <2>1, <2>2, <2>3, <2>4, <2>5, MemSet
  <2>7. disk' = disk \/ disk' = mem'
    BY <1>3, pc' # "idle" DEF DownStep, At, Goto, Go, GoTo, End, AfterGroup, SaveAnd, Fail,
    Revoke, IrsaStrip, IrsaDelete, OidcDelete, SaveOidcDown, GroupDelete, GroupMissing, GroupDeleted,
    LtDelete, SaveGroupsDown, EksDelete, EksCleared, Leave, ProfileDelete, RoleStrip, RoleDelete,
    DataSgRefs, DataSgDelete, DataSgRefused, DownDone
  <2>8. pc \in Unsaved => pc' \in Unsaved \/ disk' = mem'
    BY <1>3, pc' # "idle" DEF Unsaved, DownStep, At, Goto, Go, GoTo, End, AfterGroup, SaveAnd, Fail,
    Revoke, IrsaStrip, IrsaDelete, OidcDelete, SaveOidcDown, GroupDelete, GroupMissing, GroupDeleted,
    LtDelete, SaveGroupsDown, EksDelete, EksCleared, Leave, ProfileDelete, RoleStrip, RoleDelete,
    DataSgRefs, DataSgDelete, DataSgRefused, DownDone
  <2>9. QED BY <2>6, <2>7, <2>8
<1>4. QED BY <1>2, <1>3

\* Faults are only ever counted, one at a time.
LEMMA FaultsCount == ASSUME Next PROVE faults' = faults \/ faults' = faults + 1
<1>1. UpStep => faults' = faults \/ faults' = faults + 1
  BY DEF UpStep, At, Goto, Go, GoTo, End, NextZone, SaveAnd, Fail, Dropped, Fault,
    RoleEnsure, RolePolicies, ProfileEnsure, ProfileJoin, DataSgEnsure, DataSgSelf, SaveIam, EksCreate,
    EksFound, EksReady, EksRefused, LtEnsure, LtUnseen, BnkCreate, BnkFound, BnkReady, GroupRefused,
    GpuCreate, GpuFound, GpuReady, GpuExhausted, GpuGone, SaveGroups, OidcKnown, OidcCreate, OidcTaken,
    IrsaEnsure, IrsaPolicy, Allow, UpDone
<1>2. DownStep => faults' = faults \/ faults' = faults + 1
  BY DEF DownStep, At, Goto, Go, GoTo, End, AfterGroup, SaveAnd, Fail, Dropped, Fault,
    Revoke, IrsaStrip, IrsaDelete, OidcDelete, SaveOidcDown, GroupDelete, GroupMissing, GroupDeleted,
    LtDelete, SaveGroupsDown, EksDelete, EksCleared, Leave, ProfileDelete, RoleStrip, RoleDelete,
    DataSgRefs, DataSgDelete, DataSgRefused, DownDone
<1>3. StartUp \/ StartDown \/ Abort \/ LoseState \/ Outside => faults' = faults \/ faults' = faults + 1
  BY DEF StartUp, StartDown, Abort, LoseState, Outside, Fault
<1>4. QED BY <1>1, <1>2, <1>3 DEF Next

\* How much the set of providers that state.env does not name can grow.
LEMMA Counting == ASSUME TypeOK, NEW x, NEW y
  PROVE /\ IsFiniteSet(oidc \ {x}) /\ Cardinality(oidc \ {x}) \in Nat
        /\ Cardinality(oidc \ {y}) <= Cardinality(oidc \ {x}) + 1
        /\ \A S \in SUBSET (oidc \ {x}) : Cardinality(S) <= Cardinality(oidc \ {x})
<1>1. IsFiniteSet(Runs)
  <2>1. 1 \in Int /\ MaxUps \in Int BY EksAccountAssumption
  <2>2. QED BY <2>1, FS_Interval DEF Runs
<1>2. oidc \subseteq Runs BY DEF TypeOK, AccountTypeOK
<1>3. oidc \ {x} \in SUBSET Runs BY <1>2
<1>4. IsFiniteSet(oidc \ {x}) BY <1>1, <1>3, FS_Subset
<1>5. Cardinality(oidc \ {x}) \in Nat BY <1>4, FS_CardinalityType
<1>6. IsFiniteSet((oidc \ {x}) \cup {x}) /\ Cardinality((oidc \ {x}) \cup {x}) = Cardinality(oidc \ {x}) + 1
  BY <1>4, FS_AddElement
<1>7. oidc \ {y} \in SUBSET ((oidc \ {x}) \cup {x}) OBVIOUS
<1>8. Cardinality(oidc \ {y}) <= Cardinality((oidc \ {x}) \cup {x}) BY <1>6, <1>7, FS_Subset
<1>9. Cardinality(oidc \ {y}) <= Cardinality(oidc \ {x}) + 1 BY <1>6, <1>8
<1>10. \A S \in SUBSET (oidc \ {x}) : Cardinality(S) <= Cardinality(oidc \ {x}) BY <1>4, FS_Subset
<1>11. QED BY <1>4, <1>5, <1>9, <1>10

\* A provider is lost from sight only by a fault.
LEMMA OidcKeptStep == ASSUME TypeOK, Control, OidcKept, Next PROVE OidcKept'
<1> USE Apart, RefFacts
<1>0. "oidc" \in Keys /\ faults \in Nat /\ MaxFaults \in Nat BY ClusterAssumption DEF Keys, TypeOK
<1>1. OidcCreate => mem'["oidc"] = eks.run BY <1>0, MemSet DEF OidcCreate
<1>2. OidcDelete => mem'["oidc"] = None BY <1>0, MemSet DEF OidcDelete
<1>3. OidcCreate => pc = "oidc" /\ pc' = "irsa" BY Starts DEF OidcCreate, Goto
<1>4. OidcDelete => pc = "oidcDelete" /\ pc' = "saveOidcDown" BY DEF OidcDelete, Goto, At
<1>5. ASSUME pc' # "idle"
      PROVE \/ StartUp \/ StartDown \/ Outside
            \/ (UpStep \/ DownStep) /\ pc # "idle" /\ pc' # "idle"
  BY <1>5, Flow
<1>6. Cardinality((oidc \ {Known})') <= faults'
  <2>0. Cardinality(oidc \ {Known}) <= faults BY DEF OidcKept
  <2>1. CASE OidcCreate
    <3>1. Known = mem["oidc"] /\ Known' = eks.run BY <1>1, <1>3, <2>1 DEF Known
    <3>2. mem["oidc"] \notin oidc /\ eks.run \notin oidc /\ oidc' = oidc \cup {eks.run} BY <2>1 DEF OidcCreate
    <3>3. oidc' \ {Known'} = oidc \ {Known} BY <3>1, <3>2
    <3>4. faults' = faults BY <2>1 DEF OidcCreate
    <3>5. QED BY <2>0, <3>3, <3>4
  <2>2. CASE OidcDelete
    <3>1. Known = mem["oidc"] /\ Known' = None BY <1>2, <1>4, <2>2 DEF Known
    <3>2. oidc' = oidc \ {mem["oidc"]} BY <2>2 DEF OidcDelete
    <3>3. oidc' \ {Known'} \in SUBSET (oidc \ {Known}) BY <3>1, <3>2
    <3>4. faults' = faults BY <2>2 DEF OidcDelete
    <3>5. Cardinality(oidc' \ {Known'}) <= Cardinality(oidc \ {Known}) BY <3>3, Counting
    <3>6. Cardinality(oidc' \ {Known'}) \in Nat
      <4>1. IsFiniteSet(oidc \ {Known}) BY Counting
      <4>2. IsFiniteSet(oidc' \ {Known'}) BY <3>3, <4>1, FS_Subset
      <4>3. QED BY <4>2, FS_CardinalityType
    <3>7. Cardinality(oidc \ {Known}) \in Nat BY Counting
    <3>8. QED BY <1>0, <2>0, <3>4, <3>5, <3>6, <3>7
  <2>3. CASE oidc' = oidc /\ Known' = Known
    <3>1. Cardinality(oidc \ {Known}) \in Nat BY Counting
    <3>2. faults' >= faults BY <1>0, FaultsCount
    <3>3. faults' \in Nat BY <1>0, FaultsCount
    <3>4. Cardinality(oidc \ {Known}) <= faults' BY <1>0, <2>0, <3>1, <3>2, <3>3
    <3>5. (oidc \ {Known})' = oidc \ {Known} BY <2>3
    <3>6. QED BY <3>4, <3>5
  <2>4. CASE oidc' = oidc /\ faults' = faults + 1
    <3>1. PICK y : y = Known' OBVIOUS
    <3>2. Cardinality(oidc \ {y}) <= Cardinality(oidc \ {Known}) + 1 BY Counting
    <3>3. Cardinality(oidc \ {y}) \in Nat /\ Cardinality(oidc \ {Known}) \in Nat BY Counting
    <3>4. Cardinality(oidc \ {y}) <= faults' BY <1>0, <2>0, <2>4, <3>2, <3>3
    <3>5. (oidc \ {Known})' = oidc \ {y} BY <2>4, <3>1
    <3>6. QED BY <3>4, <3>5
  <2>5. CASE StartUp \/ StartDown
    <3>1. pc = "idle" /\ pc' # "idle" /\ mem' = disk /\ oidc' = oidc
      BY <2>5 DEF StartUp, StartDown, At, cloud
    <3>2. Known' = Known BY <3>1 DEF Known
    <3>3. QED BY <2>3, <3>1, <3>2
  <2>6. CASE Outside
    <3>1. Known' = Known /\ oidc' = oidc BY <2>6, OutsideStep DEF Known
    <3>2. QED BY <2>3, <3>1
  <2>7. CASE LoseState
    <3>1. oidc' = oidc /\ faults' = faults + 1 BY <2>7 DEF LoseState, Fault, cloud
    <3>2. QED BY <2>4, <3>1
  <2>8. CASE pc # "idle" /\ pc' = "idle"
    <3>1. oidc' = oidc BY <1>3, <1>4, <2>8, Frames
    <3>2. disk' = mem => Known' = Known BY <2>8 DEF Known
    <3>3. disk' = disk /\ pc \notin Unsaved => Known' = Known BY <2>8 DEF Known, OidcKept
    <3>4. QED BY <2>3, <2>4, <2>8, <3>1, <3>2, <3>3, Ends
  <2>9. CASE (UpStep \/ DownStep) /\ pc # "idle" /\ pc' # "idle" /\ ~OidcCreate /\ ~OidcDelete
    <3>1. oidc' = oidc BY <2>9, Frames
    <3>2. mem'["oidc"] = mem["oidc"] BY <2>9, Learns
    <3>3. Known' = Known BY <2>9, <3>2 DEF Known
    <3>4. QED BY <2>3, <3>1, <3>3
  <2>10. pc = "idle" /\ pc' = "idle" => LoseState \/ Outside
    <3>1. (~StartUp /\ ~StartDown) \/ pc' # "idle" BY DEF StartUp, StartDown
    <3>2. pc = "idle" => ~Abort BY DEF Abort, At
    <3>3. UpStep => pc # "idle" BY DEF UpStep, At,
    RoleEnsure, RolePolicies, ProfileEnsure, ProfileJoin, DataSgEnsure, DataSgSelf, SaveIam, EksCreate,
    EksFound, EksReady, EksRefused, LtEnsure, LtUnseen, BnkCreate, BnkFound, BnkReady, GroupRefused,
    GpuCreate, GpuFound, GpuReady, GpuExhausted, GpuGone, SaveGroups, OidcKnown, OidcCreate, OidcTaken,
    IrsaEnsure, IrsaPolicy, Allow, UpDone
    <3>4. DownStep => pc # "idle" BY DEF DownStep, At,
    Revoke, IrsaStrip, IrsaDelete, OidcDelete, SaveOidcDown, GroupDelete, GroupMissing, GroupDeleted,
    LtDelete, SaveGroupsDown, EksDelete, EksCleared, Leave, ProfileDelete, RoleStrip, RoleDelete,
    DataSgRefs, DataSgDelete, DataSgRefused, DownDone
    <3>5. QED BY <3>1, <3>2, <3>3, <3>4 DEF Next
  <2>11. QED BY <1>5, <2>1, <2>2, <2>5, <2>6, <2>7, <2>8, <2>9, <2>10
<1>7. pc' \notin {"idle"} \cup Unsaved => mem'["oidc"] = disk'["oidc"]
  <2>1. CASE StartUp \/ StartDown BY <2>1 DEF StartUp, StartDown
  <2>2. CASE Outside BY <2>2, OutsideStep DEF OidcKept
  <2>3. ASSUME UpStep \/ DownStep, pc # "idle", pc' \notin {"idle"} \cup Unsaved PROVE mem'["oidc"] = disk'["oidc"]
    <3>1. CASE disk' = mem' BY <3>1
    <3>2. CASE disk' = disk /\ disk' # mem'
      <4>1. pc \notin Unsaved BY <2>3, <3>2, Learns
      <4>2. ~OidcCreate /\ ~OidcDelete BY <1>3, <1>4, <2>3 DEF Unsaved
      <4>3. mem'["oidc"] = mem["oidc"] BY <2>3, <4>2, Learns
      <4>4. QED BY <2>3, <3>2, <4>1, <4>3 DEF OidcKept
    <3>3. QED BY <2>3, <3>1, <3>2, Learns
  <2>4. QED BY <1>5, <2>1, <2>2, <2>3
<1>8. pc' \in PastOidc => keep' \/ mem'["oidc"] = None
  <2>1. CASE Outside BY <2>1, OutsideStep DEF OidcKept
  <2>2. ASSUME DownStep, pc \in DownPoints, pc' \in DownPoints, pc' \in PastOidc PROVE keep' \/ mem'["oidc"] = None
    <3>0. keep' = keep BY <2>2, CommandStep
    <3>1. CASE OidcDelete BY <1>2, <3>1
    <3>2. CASE Revoke /\ keep BY <3>0, <3>2
    <3>3. CASE pc \in PastOidc
      <4>1. ~OidcDelete BY <1>4, <3>3 DEF PastOidc
      <4>2. ~OidcCreate BY <1>3, <2>2 DEF UpPoints
      <4>3. mem'["oidc"] = mem["oidc"] BY <2>2, <4>1, <4>2, Learns
      <4>4. QED BY <3>0, <3>3, <4>3 DEF OidcKept
    <3>4. QED BY <2>2, <3>1, <3>2, <3>3, DownOnward
  <2>3. PastOidc \subseteq DownPoints \ {"revoke"} BY DEF PastOidc, PastIrsa
  <2>4. QED BY <2>1, <2>2, <2>3, Flow DEF UpPoints
<1>9. QED BY <1>6, <1>7, <1>8 DEF OidcKept

\* What a successful `down` leaves stays until the next command.
LEMMA DownCleanStep ==
  ASSUME TypeOK, Control, RolesGone, EksGone, SgGone, OidcKept, DownClean, Next PROVE DownClean'
<1> USE RefFacts
<1>1. CASE done' # "down" \/ misled' BY <1>1 DEF DownClean
<1>2. CASE DownDone /\ ~misled'
  <2>1. pc = "saveIamDown" /\ UNCHANGED <<cloud, misled, faults, keep>> BY <1>2 DEF DownDone, At, End
  <2>2. ~misled BY <1>2, <2>1
  <2>3. /\ pc \in PastIrsa /\ pc \in PastOidc /\ pc \in PastGroups /\ pc \in PastLts /\ pc \in PastEks
        /\ pc \in PastEks \ {"leave", "profileDelete"} /\ pc \in PastRoles
    BY <2>1 DEF DownPoints, PastIrsa, PastOidc, PastGroups, PastLts, PastEks, PastRoles
  <2>4. roles["cluster"] = "none" /\ roles["node"] = "none" /\ profile = "none" BY <2>3 DEF RolesGone
  <2>5. eks.status = "none" /\ NoGroups /\ lts = {} BY <2>2, <2>3 DEF EksGone
  <2>6. Named(sgs, "data") = {} BY <2>1, <2>2 DEF SgGone
  <2>7. keep \/ (roles["irsa"] = "none" /\ Cardinality(oidc) <= faults)
    <3>1. keep \/ roles["irsa"] = "none" BY <2>3 DEF RolesGone
    <3>2. keep \/ mem["oidc"] = None BY <2>3 DEF OidcKept
    <3>3. Known = mem["oidc"] BY <2>1 DEF Known
    <3>4. oidc \ {None} = oidc BY DEF TypeOK, AccountTypeOK
    <3>5. Cardinality(oidc \ {Known}) <= faults BY DEF OidcKept
    <3>6. QED BY <3>1, <3>2, <3>3, <3>4, <3>5
  <2>8. NoGroups' = NoGroups /\ Named(sgs, "data")' = Named(sgs, "data") BY <2>1 DEF NoGroups, Named, cloud
  <2>9. UNCHANGED <<roles, profile, eks, lts, oidc, faults, keep>> BY <2>1 DEF cloud
  <2>10. QED BY <2>4, <2>5, <2>6, <2>7, <2>8, <2>9 DEF DownClean
<1>3. CASE Outside /\ done = "down" /\ ~misled'
  <2>1. UNCHANGED <<roles, profile, oidc, lts, done, keep, misled, faults>> BY <1>3, OutsideStep
  <2>2. eks' = eks /\ sgs' = sgs BY <1>3, <2>1, OutsideKeeps DEF DownClean
  <2>3. \A g \in GroupNames : groups'[g] = groups[g] BY <1>3, <2>1, OutsideKeeps DEF DownClean, NoGroups
  <2>4. NoGroups' BY <1>3, <2>1, <2>3 DEF DownClean, NoGroups
  <2>5. Named(sgs, "data")' = {} BY <1>3, <2>1, <2>2 DEF DownClean, Named
  <2>6. QED BY <1>3, <2>1, <2>2, <2>4, <2>5 DEF DownClean
<1>4. QED BY <1>1, <1>2, <1>3, Reported

-----------------------------------------------------------------------------
(* The theorems.                                                            *)

\* Nothing exists before the first command.
LEMMA InitIInv == Init => IInv
<1> SUFFICES ASSUME Init PROVE IInv OBVIOUS
<1> USE RefFacts DEF Init, AccountInit
<1>1. 1 \in 1 .. (NumAzs + 2) OBVIOUS
<1>2. EmptyState \in [Keys -> Ref] BY DEF EmptyState
<1>3. NoGroup \in Group
  <2>1. 0 \in 0 .. NumAzs OBVIOUS
  <2>2. QED BY <2>1 DEF NoGroup, Group, CapTypes
<1>4. AccountTypeOK BY <1>3 DEF AccountTypeOK
<1>5. TypeOK
  <2>1. 0 \in 0 .. MaxFaults BY ClusterAssumption
  <2>2. cap \in CapTypes BY ClusterAssumption
  <2>3. QED BY <1>1, <1>2, <1>4, <2>1, <2>2 DEF TypeOK, Reports, Ref, None
<1>6. Control
  <2>1. "idle" \notin UpPoints BY DEF UpPoints
  <2>2. QED BY <2>1 DEF Control, Sweep, Loops
<1>7. Unique BY DEF Unique, Named
<1>8. RolesBuilt /\ EksBuilt /\ SgBuilt
  BY DEF RolesBuilt, EksBuilt, SgBuilt, UpPoints, FromSg, FromSaveIam, FromLt, FromBnk, FromGpu,
    FromSaveGroups
<1>9. RolesGone /\ EksGone /\ SgGone
  BY DEF RolesGone, EksGone, SgGone, DownPoints, PastIrsa, PastOidc, PastGroups, PastLts, PastEks, PastRoles
<1>10. OidcKept
  <2>1. oidc \ {Known} = {} OBVIOUS
  <2>2. Cardinality({}) = 0 BY FS_EmptySet
  <2>3. pc \notin PastOidc BY DEF DownPoints, PastIrsa, PastOidc
  <2>4. Cardinality(oidc \ {Known}) <= faults BY <2>1, <2>2
  <2>5. QED BY <2>3, <2>4 DEF OidcKept
<1>11. UpBuilds /\ DownClean BY DEF UpBuilds, DownClean
<1>12. QED BY <1>5, <1>6, <1>7, <1>8, <1>9, <1>10, <1>11 DEF IInv

\* Every step keeps it.
LEMMA NextIInv == IInv /\ [Next]_vars => IInv'
<1> SUFFICES ASSUME IInv, [Next]_vars PROVE IInv' OBVIOUS
<1>1. CASE Next
  <2>1. /\ TypeOK /\ Control /\ Unique /\ RolesBuilt /\ EksBuilt /\ SgBuilt /\ UpBuilds
        /\ RolesGone /\ EksGone /\ SgGone /\ OidcKept /\ DownClean
    BY DEF IInv
  <2>2. TypeOK' BY <1>1, <2>1, TypeStep
  <2>3. Control' /\ Unique' BY <1>1, <2>1, ControlStep, UniqueStep
  <2>4. RolesBuilt' /\ EksBuilt' /\ SgBuilt' BY <1>1, <2>1, RolesBuiltStep, EksBuiltStep, SgBuiltStep
  <2>5. RolesGone' /\ EksGone' /\ SgGone' BY <1>1, <2>1, RolesGoneStep, EksGoneStep, SgGoneStep
  <2>6. OidcKept' BY <1>1, <2>1, OidcKeptStep
  <2>7. UpBuilds' /\ DownClean' BY <1>1, <2>1, UpBuildsStep, DownCleanStep
  <2>8. QED BY <2>2, <2>3, <2>4, <2>5, <2>6, <2>7 DEF IInv
<1>2. CASE UNCHANGED vars
  <2>1. TypeOK' BY <1>2 DEF IInv, TypeOK, AccountTypeOK, vars, cloud
  <2>2. Control' /\ Unique' BY <1>2 DEF IInv, Control, Unique, Named, vars, cloud
  <2>3. RolesBuilt' /\ EksBuilt' /\ SgBuilt' BY <1>2 DEF IInv, RolesBuilt, EksBuilt, SgBuilt, Pair, vars,
      cloud
  <2>4. RolesGone' /\ EksGone' /\ SgGone'
    <3>1. RolesGone' BY <1>2 DEF IInv, RolesGone, vars, cloud
    <3>2. EksGone' BY <1>2 DEF IInv, EksGone, NoGroups, Named, vars, cloud
    <3>3. SgGone' BY <1>2 DEF IInv, SgGone, Named, vars, cloud
    <3>4. QED BY <3>1, <3>2, <3>3
  <2>5. OidcKept' BY <1>2 DEF IInv, OidcKept, Known, vars, cloud
  <2>6. UpBuilds' /\ DownClean' BY <1>2 DEF IInv, UpBuilds, DownClean, ClusterSg, NoGroups, Named, vars,
      cloud
  <2>7. QED BY <2>1, <2>2, <2>3, <2>4, <2>5, <2>6 DEF IInv
<1>3. QED BY <1>1, <1>2

\* The inductive invariant holds.
THEOREM ClusterInvariant == Spec => []IInv
  BY InitIInv, NextIInv, PTL DEF Spec

\* TypeOK: every variable keeps its type.
THEOREM ClusterTypes == Spec => []TypeOK
<1>1. IInv => TypeOK BY DEF IInv
<1>2. QED BY <1>1, ClusterInvariant, PTL

\* UpBuilds: whatever was interrupted, lost or dropped before, an `up` that reports
\* success (phases 07, 08, 10, 18) leaves the whole cluster.
THEOREM SuccessfulUpBuildsTheCluster == Spec => []UpBuilds
<1>1. IInv => UpBuilds BY DEF IInv
<1>2. QED BY <1>1, ClusterInvariant, PTL

\* DownClean: a `down` that reports success and was told the truth leaves nothing,
\* and no OIDC provider but those a fault hid.
THEOREM SuccessfulDownCleans == Spec => []DownClean
<1>1. IInv => DownClean BY DEF IInv
<1>2. QED BY <1>1, ClusterInvariant, PTL

\* NotRefused: when a command may stop with an error of its own.
THEOREM RefusalsAreNamed == Spec => NotRefused
<1> DEFINE R == /\ done # "up refused" /\ done' = "up refused" => misled' \/ Busy \/ At("oidc")
                /\ done' = "down refused" => misled'
<1>1. ASSUME IInv, IInv', [Next]_vars PROVE [R]_vars
  <2>1. done' = "down refused" => misled' BY <1>1 DEF IInv, SgGone
  <2>2. ASSUME Next, done # "up refused", done' = "up refused" PROVE misled' \/ Busy \/ At("oidc")
    <3>1. EksRefused \/ LtUnseen \/ GroupRefused \/ OidcTaken BY <1>1, <2>2, Reported DEF IInv
    <3>2. EksRefused \/ GroupRefused => Busy BY DEF EksRefused, GroupRefused, Busy
    <3>3. LtUnseen => misled' BY DEF LtUnseen, Dropped
    <3>4. OidcTaken => At("oidc") BY DEF OidcTaken
    <3>5. QED BY <3>1, <3>2, <3>3, <3>4
  <2>3. QED BY <1>1, <2>1, <2>2
<1>2. QED BY <1>1, ClusterInvariant, PTL DEF Spec, NotRefused
=============================================================================
