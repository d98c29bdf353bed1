---------------------------- MODULE UnderlayProof ----------------------------
(***************************************************************************)
(* A successful `down` leaves nothing of the network, and a successful `up`  *)
(* has built all of it, for any number of subnets, runs, faults and helper  *)
(* instances.                                                               *)
(*                                                                          *)
(* The argument: whatever EC2 holds inside a VPC dies before the VPC does   *)
(* (Contained), so it is enough that the VPCs are gone.  Phase 02 down      *)
(* collects every live VPC unless its listing failed, and none is created   *)
(* while it works them off (Covered); none is created after it, before the  *)
(* next `up` (Clean).  The up half has to keep its own promises for that:   *)
(* what it creates goes into a live VPC (InVpc) and a live subnet           *)
(* (FirstSubnet).                                                           *)
(***************************************************************************)
EXTENDS UnderlayProps, TLAPS

Contained ==
  /\ \A x \in subnets : x.vpc \in vpcs
  /\ \A r \in rtbs : r.vpc \in vpcs
  /\ \A g \in igws : g.vpc # None => g.vpc \in vpcs
  /\ \A n \in nats : n.holds => Live(n.subnet)

InVpc ==
  /\ pc \in UpPoints => run \in Runs
  /\ pc \in {"vpcSupport", "vpcHostnames"} => run \in vpcs
  /\ pc \in UpPoints \ {"vpc", "vpcSupport", "vpcHostnames"} => mem.vpc \in vpcs

FirstSubnet ==
  /\ pc \in {"idle", "vpc", "vpcSupport", "vpcHostnames"} => k = 1
  /\ pc = "subnetAttr" => k \in PublicSpecs
  /\ pc = "subnets" => k \in 1 .. (NPublic + NPrivate + NData + 1)
  /\ \/ pc \in {"subnetAttr", "igw", "igwAttach", "igwSave", "eip", "nat"}
     \/ pc = "subnets" /\ k > 1
     => Live(<<mem.subnet[1], 1>>)
  /\ pc = "nat" => mem.eip \in Runs

Covered ==
  /\ pc \in {"vpcSweep", "vpcDown", "vpcSave"} /\ ~blind => vpcs \subseteq todo
  /\ pc = "vpcSave" => todo = {}

Clean ==
  /\ done # "none" => pc = "idle"
  /\ done = "down" /\ ~blind => vpcs = {}

\* The inductive invariant.
IInv == TypeOK /\ Contained /\ InVpc /\ FirstSubnet /\ Covered /\ Clean

-----------------------------------------------------------------------------
\* Numbers of runs, and the id None outside them.
LEMMA IdFacts == /\ Runs \subseteq Ref /\ None \in Ref /\ Ref \subseteq Nat /\ None \notin Runs
  /\ 1 \in Specs /\ Specs \subseteq Nat /\ Ref \ {None} = Runs
  BY SpecAssumption DEF Runs, Ref, None, Visibility, SubnetId, RtbId, Specs, PublicSpecs, PrivateSpecs, DataSpecs

\* A state.env without any key is a state.env.
LEMMA EmptyStateType == EmptyState \in StateEnv
  BY IdFacts DEF EmptyState, StateEnv

\* State.Set of any key, or the clearing of a group of keys, gives a state.env.
LEMMA KeyUpdateType == ASSUME NEW e \in StateEnv, NEW r \in Ref
  PROVE /\ [e EXCEPT !.vpc = r] \in StateEnv
        /\ [e EXCEPT !.igw = r] \in StateEnv
        /\ [e EXCEPT !.eip = r] \in StateEnv
        /\ [e EXCEPT !.nat = r] \in StateEnv
        /\ \A c \in Specs : [e EXCEPT !.subnet[c] = r] \in StateEnv
        /\ \A v \in Visibility : [e EXCEPT !.rtb[v] = r] \in StateEnv
        /\ [e EXCEPT !.rtb = EmptyState.rtb] \in StateEnv
        /\ [e EXCEPT !.subnet = EmptyState.subnet] \in StateEnv
  BY EmptyStateType DEF StateEnv

\* A command that returns leaves a well-typed process behind, whatever it reports.
LEMMA EndType == ASSUME ProcTypeOK, NEW o \in {"none", "up", "down"}, End(o),
    disk' \in StateEnv, blind' \in BOOLEAN, faults' \in 0 .. MaxFaults
  PROVE ProcTypeOK'
<1>1. 1 \in 1 .. (NPublic + NPrivate + NData + 2) BY SpecAssumption
<1>2. mem' \in StateEnv BY EmptyStateType DEF End
<1>3. None \in Ref BY IdFacts
<1>4. pc' = "idle" /\ done' \in {"none", "up", "down"} /\ k' = 1 /\ todo' = {} /\ cur' = None
      /\ swept' = FALSE /\ run' = run
   BY DEF End
<1>5. QED BY <1>1, <1>2, <1>3, <1>4 DEF ProcTypeOK

\* So does one that returns the error of a refused call.
LEMMA FailType == ASSUME ProcTypeOK, Fail PROVE ProcTypeOK'
  BY EndType DEF Fail, ProcTypeOK

\* The faults stay within their bound.
LEMMA DroppedType == ASSUME ProcTypeOK, NEW ok, Dropped(ok) PROVE faults' \in 0 .. MaxFaults
  BY FaultAssumption DEF ProcTypeOK, Dropped

\* State.Set changes the one key it is given.
LEMMA KeyUpdateValue == ASSUME NEW e \in StateEnv, NEW r PROVE
  /\ [e EXCEPT !.vpc = r].vpc = r /\ [e EXCEPT !.vpc = r].subnet = e.subnet
  /\ [e EXCEPT !.igw = r].vpc = e.vpc /\ [e EXCEPT !.igw = r].subnet = e.subnet
  /\ [e EXCEPT !.eip = r].vpc = e.vpc /\ [e EXCEPT !.eip = r].subnet = e.subnet
  /\ [e EXCEPT !.eip = r].eip = r
  /\ [e EXCEPT !.nat = r].vpc = e.vpc
  /\ \A v : [e EXCEPT !.rtb[v] = r].vpc = e.vpc
  /\ \A c \in Specs : /\ [e EXCEPT !.subnet[c] = r].vpc = e.vpc
                      /\ [e EXCEPT !.subnet[c] = r].subnet[c] = r
                      /\ \A d \in Specs \ {c} : [e EXCEPT !.subnet[c] = r].subnet[d] = e.subnet[d]
  BY DEF StateEnv

\* A step of `down` goes to another step of `down`, or ends it.
LEMMA DownGoesOn == ASSUME DownStep
  PROVE pc # "idle" /\ ((pc' = "idle" /\ k' = 1) \/ pc' \in DownPoints)
  BY DEF DownStep, DownPoints, Hydrate, RtbCollect, RtbDisassociate, RtbDelete, RtbsSave,
    NatDelete, NatGone, EipRelease, EipStuck, EipSave, IgwFind, IgwDetach, IgwSweep, IgwDefer,
    IgwDelete, IgwCleared, DataSubnetDelete, SubnetCollect, SubnetDelete, SubnetSweep,
    SubnetRefused, SubnetsCleared, VpcCollect, VpcAlreadyGone, VpcSweep, VpcDelete,
    VpcRefused, DownDone, Goto, End, Fail

\* EC2 on its own neither creates nor deletes VPCs and subnets.
LEMMA CloudKeeps == ASSUME CloudStep PROVE UNCHANGED <<vpcs, subnets>>
  BY DEF CloudStep, NatSettles, NatDeleted, NatDetaches, NatForgotten, OnlyNats, StrayAppears

\* Every step keeps the process and state.env well typed.
LEMMA ProcTypeStep == ASSUME IInv, Next PROVE ProcTypeOK'
<1> USE SpecAssumption, FaultAssumption, IdFacts
<1> USE DEF UpPoints, DownPoints
<1>0. ProcTypeOK /\ CloudTypeOK BY DEF IInv, TypeOK
<1>1. CASE StartUp
  <2>1. run' \in Ref BY <1>0, <1>1 DEF StartUp, ProcTypeOK, Ref, Runs, None
  <2>2. QED BY <2>1, <1>0, <1>1 DEF StartUp, ProcTypeOK
<1>2. CASE Abort
  BY <1>0, <1>2, EndType DEF Abort, ProcTypeOK
<1>3. CASE VpcSkip
  <2>1. PICK v \in vpcs : Set("vpc", v) BY <1>3 DEF VpcSkip
  <2>2. mem' \in StateEnv BY <2>1, <1>0, KeyUpdateType DEF Set, ProcTypeOK, CloudTypeOK
  <2>3. QED BY <1>0, <1>3, <2>2 DEF VpcSkip, ProcTypeOK, Save, Goto
<1>4. CASE SubnetSkip
  <2>1. PICK x \in SubnetAt(k) : mem' = [mem EXCEPT !.subnet[k] = x.id[1]] BY <1>4 DEF SubnetSkip
  <2>2. x.id[1] \in Ref BY <2>1, <1>0 DEF CloudTypeOK, Subnet, SubnetId, SubnetAt
  <2>3. mem' \in StateEnv BY <2>1, <2>2, <1>0, <1>4, KeyUpdateType DEF ProcTypeOK, SubnetSkip
  <2>4. k' \in 1 .. (NPublic + NPrivate + NData + 2) BY <1>4 DEF SubnetSkip, Specs
  <2>5. QED BY <1>0, <1>4, <2>3, <2>4 DEF SubnetSkip, ProcTypeOK, Goto
<1>5. CASE SubnetCreate
  <2>1. mem' \in StateEnv BY <1>5, <1>0, KeyUpdateType DEF ProcTypeOK, SubnetCreate
  <2>2. k' \in 1 .. (NPublic + NPrivate + NData + 2) BY <1>5 DEF SubnetCreate, Specs
  <2>3. QED BY <1>0, <1>5, <2>1, <2>2 DEF SubnetCreate, ProcTypeOK, Goto
<1>6. CASE SubnetMapPublicIp
  BY <1>0, <1>6 DEF IInv, FirstSubnet, PublicSpecs, SubnetMapPublicIp, ProcTypeOK, Goto
<1>7. CASE IgwEnsure
  <2>1. PICK i \in Ref : Set("igw", i)
    <3>1. run \in Ref /\ \A g \in igws : g.id \in Ref BY <1>0 DEF ProcTypeOK, CloudTypeOK, Igw
    <3>2. QED BY <1>7, <3>1 DEF IgwEnsure
  <2>2. mem' \in StateEnv BY <2>1, <1>0, KeyUpdateType DEF ProcTypeOK, Set
  <2>3. QED BY <1>0, <1>7, <2>2 DEF IgwEnsure, ProcTypeOK, Goto
<1>8. CASE EipEnsure
  <2>1. PICK i \in Ref : Set("eip", i)
    <3>1. run \in Ref /\ eips \subseteq Ref BY <1>0 DEF ProcTypeOK, CloudTypeOK
    <3>2. QED BY <1>8, <3>1 DEF EipEnsure
  <2>2. mem' \in StateEnv BY <2>1, <1>0, KeyUpdateType DEF ProcTypeOK, Set
  <2>3. QED BY <1>0, <1>8, <2>2 DEF EipEnsure, ProcTypeOK, Goto
<1>9. CASE NatSkip
  <2>1. PICK i \in Ref : Set("nat", i)
    <3>1. \A n \in nats : n.id \in Ref BY <1>0 DEF CloudTypeOK, Nat_
    <3>2. QED BY <1>9, <3>1 DEF NatSkip, Usable
  <2>2. mem' \in StateEnv BY <2>1, <1>0, KeyUpdateType DEF ProcTypeOK, Set
  <2>3. QED BY <1>0, <1>9, <2>2 DEF NatSkip, ProcTypeOK, Goto, Save
<1>10. CASE NatRejected BY <1>0, <1>10, FailType DEF NatRejected
<1>11. CASE NatBroken BY <1>0, <1>11, FailType DEF NatBroken
<1>12. CASE RtbEnsure
  <2> DEFINE Put(i) == [mem EXCEPT !.rtb[Vis] = i]
  <2>1. \A i \in Ref : Put(i) \in StateEnv BY <1>0, KeyUpdateType DEF ProcTypeOK, Vis, Visibility
  <2>2. \E i \in Ref : mem' = Put(i)
    <3>1. run \in Ref /\ \A r \in rtbs : r.id[1] \in Ref
      BY <1>0 DEF ProcTypeOK, CloudTypeOK, Rtb, RtbId
    <3>2. mem' = Put(run) \/ \E r \in TablesOf(mem.vpc) : mem' = Put(r.id[1])
      BY <1>12 DEF RtbEnsure
    <3> HIDE DEF Put
    <3>3. QED BY <3>1, <3>2 DEF TablesOf
  <2> HIDE DEF Put
  <2>3. mem' \in StateEnv BY <2>1, <2>2
  <2>4. QED BY <1>0, <1>12, <2>3 DEF RtbEnsure, ProcTypeOK, Goto
<1>13. CASE RouteEnsure
  <2>1. \A T \in SUBSET Specs : MemSubnets(T) \subseteq SubnetId
     BY <1>0 DEF MemSubnets, SubnetId, ProcTypeOK, StateEnv
  <2>2. TableSubnets \subseteq SubnetId
     BY <2>1 DEF TableSubnets, Specs, PublicSpecs, PrivateSpecs, DataSpecs
  <2>3. QED BY <1>0, <1>13, <2>2 DEF RouteEnsure, ProcTypeOK, Goto
<1>14. CASE UpDone BY <1>0, <1>14, EndType DEF UpDone, ProcTypeOK
<1>15. CASE EipStuck BY <1>0, <1>15, FailType DEF EipStuck
<1>16. CASE SubnetRefused BY <1>0, <1>16, FailType DEF SubnetRefused
<1>17. CASE VpcRefused BY <1>0, <1>17, FailType DEF VpcRefused
<1>18. CASE VpcAlreadyGone BY <1>0, <1>18, EndType DEF VpcAlreadyGone, ProcTypeOK
<1>19. CASE DownDone BY <1>0, <1>19, EndType, KeyUpdateType DEF DownDone, ProcTypeOK
<1>20. CASE RtbCollect
  <2>1. todo' \subseteq RtbId
    BY <1>0, <1>20 DEF RtbCollect, ProcTypeOK, CloudTypeOK, Rtb, RtbId, StateEnv
  <2>2. faults' \in 0 .. MaxFaults BY <1>0, <1>20, DroppedType DEF RtbCollect
  <2>3. QED BY <1>0, <1>20, <2>1, <2>2 DEF RtbCollect, ProcTypeOK
<1>21. CASE NatDelete
  <2>1. PICK i \in Ref : Set("nat", i)
    <3>1. mem.nat \in Ref BY <1>0 DEF ProcTypeOK, StateEnv
    <3>2. Found({n.id : n \in Usable}) \subseteq Ref BY <1>0 DEF Usable, Found, CloudTypeOK, Nat_
    <3>3. QED BY <1>21, <3>1, <3>2 DEF NatDelete
  <2>2. mem' \in StateEnv BY <2>1, <1>0, KeyUpdateType DEF ProcTypeOK, Set
  <2>3. QED BY <1>0, <1>21, <2>2 DEF NatDelete, ProcTypeOK, Goto
<1>22. CASE IgwFind
  <2>1. cur' \in Ref /\ pc' \in {"dataDown", "igwDetach"}
     BY <1>0, <1>22 DEF IgwFind, ProcTypeOK, CloudTypeOK, Igw, Found, StateEnv, Goto
  <2>3. QED BY <1>0, <1>22, <2>1 DEF IgwFind, ProcTypeOK, Goto
<1>23. CASE IgwSweep
  <2>1. faults' \in 0 .. MaxFaults BY <1>0, <1>23, DroppedType DEF IgwSweep, SweepStrays
  <2>3. QED BY <1>0, <1>23, <2>1 DEF IgwSweep, ProcTypeOK
<1>24. CASE SubnetSweep
  <2>1. faults' \in 0 .. MaxFaults BY <1>0, <1>24, DroppedType DEF SubnetSweep, SweepStrays
  <2>3. QED BY <1>0, <1>24, <2>1 DEF SubnetSweep, ProcTypeOK
<1>25. CASE DataSubnetDelete
  <2>1. \A s \in NextData : s[2] \in Specs
    BY SpecAssumption DEF NextData, DataKeys, DataSpecs, Specs
  <2>2. mem' \in StateEnv
    <3>1. PICK s \in NextData : mem' = [mem EXCEPT !.subnet[s[2]] = None] BY <1>25 DEF DataSubnetDelete
    <3>2. s[2] \in Specs BY <2>1
    <3>3. QED BY <1>0, <3>1, <3>2, KeyUpdateType DEF ProcTypeOK
  <2>3. QED BY <1>0, <1>25, <2>2 DEF DataSubnetDelete, ProcTypeOK, Goto
<1>26. CASE SubnetCollect
  <2>1. \A T \in SUBSET Specs : MemSubnets(T) \subseteq SubnetId
     BY <1>0 DEF MemSubnets, SubnetId, ProcTypeOK, StateEnv
  <2>2. MemSubnets(PublicSpecs \cup PrivateSpecs) \subseteq SubnetId
     BY <2>1 DEF Specs, PublicSpecs, PrivateSpecs
  <2>3. \A x \in subnets : x.id \in SubnetId BY <1>0 DEF CloudTypeOK, Subnet
  <2>4. todo' \subseteq SubnetId
    BY <1>26, <2>2, <2>3 DEF SubnetCollect, SubnetsOf
  <2>5. faults' \in 0 .. MaxFaults BY <1>0, <1>26, DroppedType DEF SubnetCollect
  <2>6. QED BY <1>0, <1>26, <2>4, <2>5 DEF SubnetCollect, ProcTypeOK
<1>27. CASE VpcCollect
  <2>1. todo' \subseteq Runs
    BY <1>0, <1>27 DEF VpcCollect, ProcTypeOK, CloudTypeOK, StateEnv
  <2>2. faults' \in 0 .. MaxFaults /\ blind' \in BOOLEAN BY <1>0, <1>27, DroppedType DEF VpcCollect
  <2>3. QED BY <1>0, <1>27, <2>1, <2>2 DEF VpcCollect, ProcTypeOK
<1>28. CASE Hydrate
  <2>1. faults' \in 0 .. MaxFaults BY <1>0, <1>28, DroppedType DEF Hydrate
  <2>2. mem' \in StateEnv /\ disk' \in StateEnv
    <3>2. \A w \in Ref : Discovered(w) \in [Specs -> Ref]
      <4>1. \A X \in SUBSET subnets : X # {} => (CHOOSE x \in X : TRUE).id[1] \in Ref
         BY <1>0 DEF CloudTypeOK, Subnet, SubnetId
      <4>2. \A c \in Specs : mem.subnet[c] \in Ref BY <1>0 DEF ProcTypeOK, StateEnv
      <4>3. SUFFICES ASSUME NEW w \in Ref, NEW c \in Specs PROVE Discovered(w)[c] \in Ref
         BY DEF Discovered
      <4> DEFINE X == {x \in subnets : x.id[2] = c /\ (w # None => x.vpc = w)}
      <4>4. Discovered(w)[c] = IF X = {} \/ \E d \in KeyOf(c) : mem.subnet[d] # None
          THEN mem.subnet[c] ELSE (CHOOSE x \in X : TRUE).id[1]
         BY DEF Discovered
      <4>5. X \in SUBSET subnets OBVIOUS
      <4> HIDE DEF X
      <4>6. QED BY <4>1, <4>2, <4>4, <4>5
    <3>3. PICK failed \in SUBSET {"vpc", "subnets", "igw", "nat", "save"} :
         /\ \E v \in IF mem.vpc = None /\ "vpc" \notin failed THEN Found(vpcs) ELSE {mem.vpc},
               g \in IF mem.igw = None /\ "igw" \notin failed
                     THEN Found({x.id : x \in igws}) ELSE {mem.igw},
               n \in IF mem.nat = None /\ "nat" \notin failed
                     THEN Found({x.id : x \in {y \in nats : y.state # "deleted"}})
                     ELSE {mem.nat} :
              mem' = [mem EXCEPT !.vpc = v, !.igw = g, !.nat = n,
                        !.eip = IF mem.nat = None /\ @ = None /\ n # None
                                THEN (CHOOSE x \in nats : x.id = n).eip ELSE @,
                        !.subnet = IF "subnets" \in failed THEN @ ELSE Discovered(v)]
         /\ disk' = IF "save" \in failed THEN disk ELSE mem'
       BY <1>28 DEF Hydrate
    <3>4. PICK v \in IF mem.vpc = None /\ "vpc" \notin failed THEN Found(vpcs) ELSE {mem.vpc},
               g \in IF mem.igw = None /\ "igw" \notin failed
                     THEN Found({x.id : x \in igws}) ELSE {mem.igw},
               n \in IF mem.nat = None /\ "nat" \notin failed
                     THEN Found({x.id : x \in {y \in nats : y.state # "deleted"}})
                     ELSE {mem.nat} :
              mem' = [mem EXCEPT !.vpc = v, !.igw = g, !.nat = n,
                        !.eip = IF mem.nat = None /\ @ = None /\ n # None
                                THEN (CHOOSE x \in nats : x.id = n).eip ELSE @,
                        !.subnet = IF "subnets" \in failed THEN @ ELSE Discovered(v)]
       BY <3>3
    <3>5. v \in Ref /\ g \in Ref /\ n \in Ref
       BY <1>0 DEF Found, ProcTypeOK, CloudTypeOK, StateEnv, Igw, Nat_
    <3>6. mem.nat = None /\ n # None => (CHOOSE x \in nats : x.id = n).eip \in Ref
       <4>1. mem.nat = None /\ n # None => \E x \in nats : x.id = n
          BY DEF Found
       <4>2. QED BY <4>1, <1>0 DEF CloudTypeOK, Nat_
    <3>7. mem' \in StateEnv
      <4> DEFINE e == IF mem.nat = None /\ mem.eip = None /\ n # None
                      THEN (CHOOSE x \in nats : x.id = n).eip ELSE mem.eip
                 u == IF "subnets" \in failed THEN mem.subnet ELSE Discovered(v)
      <4>1. mem \in StateEnv BY <1>0 DEF ProcTypeOK
      <4>2. e \in Ref BY <4>1, <3>6 DEF StateEnv
      <4>3. u \in [Specs -> Ref] BY <4>1, <3>2, <3>5 DEF StateEnv
      <4>4. mem' = [mem EXCEPT !.vpc = v, !.igw = g, !.nat = n, !.eip = e, !.subnet = u] BY <3>4
      <4> HIDE DEF e, u
      <4>5. QED BY <4>1, <4>2, <4>3, <4>4, <3>5 DEF StateEnv
    <3>8. disk' \in StateEnv BY <3>3, <3>7, <1>0 DEF ProcTypeOK
    <3>9. QED BY <3>7, <3>8
  <2>9. pc' = "rtbCollect" /\ UNCHANGED <<done, run, blind, k, todo, cur, swept>> /\ pc = "hydrate"
    BY <1>28 DEF Hydrate
  <2>11. todo \subseteq SubnetId BY <2>9, <1>0 DEF ProcTypeOK
  <2>10. QED BY <1>0, <2>9, <2>1, <2>2, <2>11 DEF ProcTypeOK
<1>29. CASE VpcCreate \/ VpcEnableSupport
  BY <1>0, <1>29 DEF VpcCreate, VpcEnableSupport, Goto, ProcTypeOK
<1>39. CASE VpcEnableHostnames
  <2>1. mem' \in StateEnv BY <1>0, <1>39, KeyUpdateType DEF VpcEnableHostnames, Set, ProcTypeOK
  <2>2. QED BY <1>0, <1>39, <2>1 DEF VpcEnableHostnames, Save, Goto, ProcTypeOK
<1>30. CASE IgwAttach \/ NatCreate \/ AssocEnsure \/ RtbDisassociate \/ RtbDelete \/ SubnetDelete
  BY <1>0, <1>30 DEF IgwAttach, NatCreate, AssocEnsure, RtbDisassociate, RtbDelete, SubnetDelete,
    Goto, ProcTypeOK
<1>31. CASE SubnetsSave \/ IgwSave \/ PublicRtbDone \/ EipSave
  BY <1>0, <1>31 DEF SubnetsSave, IgwSave, PublicRtbDone, EipSave, Goto, ProcTypeOK
<1>32. CASE NatReady \/ RtbsSave \/ NatGone \/ EipRelease \/ IgwCleared \/ SubnetsCleared
  <2>1. mem' \in StateEnv
    <3>1. CASE NatReady BY <1>0, <3>1, KeyUpdateType DEF NatReady, Set, ProcTypeOK
    <3>2. CASE RtbsSave BY <1>0, <3>2, KeyUpdateType DEF RtbsSave, Set, ProcTypeOK
    <3>3. CASE NatGone BY <1>0, <3>3, KeyUpdateType DEF NatGone, Set, ProcTypeOK
    <3>4. CASE EipRelease BY <1>0, <3>4, KeyUpdateType DEF EipRelease, Set, ProcTypeOK
    <3>5. CASE IgwCleared BY <1>0, <3>5, KeyUpdateType DEF IgwCleared, Set, ProcTypeOK
    <3>6. CASE SubnetsCleared BY <1>0, <3>6, KeyUpdateType DEF SubnetsCleared, Set, ProcTypeOK
    <3>7. QED BY <1>32, <3>1, <3>2, <3>3, <3>4, <3>5, <3>6
  <2>2. QED
    BY <1>0, <1>32, <2>1 DEF NatReady, RtbsSave, NatGone, EipRelease, IgwCleared, SubnetsCleared,
      Save, Goto, ProcTypeOK
<1>33. CASE IgwDetach \/ IgwDefer \/ IgwDelete
  BY <1>0, <1>33 DEF IgwDetach, IgwDefer, IgwDelete, Goto, ProcTypeOK
<1>34. CASE VpcSweep
  <2>1. faults' \in 0 .. MaxFaults /\ cur' \in todo BY <1>0, <1>34, DroppedType DEF VpcSweep
  <2>2. cur' \in Ref BY <1>0, <1>34, <2>1 DEF VpcSweep, ProcTypeOK
  <2>3. QED BY <1>0, <1>34, <2>1, <2>2 DEF VpcSweep, ProcTypeOK
<1>35. CASE VpcDelete BY <1>0, <1>35 DEF VpcDelete, Goto, ProcTypeOK
<1>36. CASE StartDown BY <1>0, <1>36 DEF StartDown, ProcTypeOK
<1>37. CASE CloudStep /\ UNCHANGED proc BY <1>0, <1>37 DEF proc, ProcTypeOK
<1>38. QED
  BY <1>1, <1>2, <1>3, <1>4, <1>5, <1>6, <1>7, <1>8, <1>9, <1>10, <1>11, <1>12, <1>13, <1>14,
     <1>15, <1>16, <1>17, <1>18, <1>19, <1>20, <1>21, <1>22, <1>23, <1>24, <1>25, <1>26, <1>27,
     <1>28, <1>29, <1>30, <1>31, <1>32, <1>33, <1>34, <1>35, <1>36, <1>37, <1>39
  DEF Next, UpStep, DownStep

\* Setting the route or the associations of a route table keeps its VPC.
LEMMA TableUpdate == ASSUME NEW r \in Rtb PROVE
  /\ \A x \in Ref : [r EXCEPT !.route = x] \in Rtb
  /\ \A A \in SUBSET SubnetId : [r EXCEPT !.assoc = A] \in Rtb
  /\ \A x : [r EXCEPT !.route = x].vpc = r.vpc
  /\ \A A : [r EXCEPT !.assoc = A].vpc = r.vpc
  BY DEF Rtb

\* Moving a NAT gateway to another state keeps its subnet and its interface.
LEMMA GatewayUpdate == ASSUME NEW n \in Nat_ PROVE
  /\ \A x \in NatState : [n EXCEPT !.state = x] \in Nat_
  /\ \A x : [n EXCEPT !.state = x].subnet = n.subnet /\ [n EXCEPT !.state = x].holds = n.holds
  /\ [n EXCEPT !.holds = FALSE].holds = FALSE
  /\ [n EXCEPT !.holds = FALSE] \in Nat_
  BY DEF Nat_

\* Attaching or detaching an internet gateway changes its VPC only.
LEMMA AttachmentUpdate == ASSUME NEW g \in Igw
  PROVE \A x \in Ref : [g EXCEPT !.vpc = x] \in Igw /\ [g EXCEPT !.vpc = x].vpc = x
  BY DEF Igw

\* Deleting subnets takes them out of the tables they were associated with.
LEMMA TablesWithoutType == ASSUME rtbs \subseteq Rtb, NEW D \in SUBSET SubnetId
  PROVE TablesWithout(D) \subseteq Rtb
<1>1. \A r \in rtbs : r.assoc \in SUBSET SubnetId BY DEF Rtb
<1>2. SUFFICES ASSUME NEW r \in rtbs PROVE [r EXCEPT !.assoc = r.assoc \ D] \in Rtb
  BY DEF TablesWithout
<1>3. QED BY <1>1, TableUpdate

\* Every step keeps what EC2 holds well typed.
LEMMA CloudTypeStep == ASSUME IInv, Next PROVE CloudTypeOK'
<1> USE IdFacts
<1>0. ProcTypeOK /\ CloudTypeOK BY DEF IInv, TypeOK
<1>1. CASE SubnetCreate
  <2>1. mem.vpc \in Runs /\ run \in Runs
    BY <1>0, <1>1 DEF SubnetCreate, IInv, InVpc, UpPoints, CloudTypeOK
  <2>2. [id |-> <<run, k>>, vpc |-> mem.vpc] \in Subnet
    BY <2>1, <1>1 DEF SubnetCreate, Subnet, SubnetId
  <2>3. QED BY <1>0, <1>1, <2>2 DEF SubnetCreate, CloudTypeOK
<1>2. CASE SubnetMapPublicIp
  <2>1. <<run, k>> \in SubnetId
    BY <1>2, SpecAssumption DEF SubnetMapPublicIp, IInv, InVpc, FirstSubnet, UpPoints, SubnetId, PublicSpecs, Specs
  <2>2. QED BY <1>0, <1>2, <2>1 DEF SubnetMapPublicIp, CloudTypeOK
<1>3. CASE IgwEnsure
  <2>1. [id |-> run, vpc |-> None] \in Igw
    BY <1>3 DEF IgwEnsure, IInv, InVpc, UpPoints, Igw
  <2>2. QED BY <1>0, <1>3, <2>1 DEF IgwEnsure, CloudTypeOK
<1>4. CASE IgwAttach
  <2>1. \A g \in igws : [g EXCEPT !.vpc = mem.vpc] \in Igw
    BY <1>0, AttachmentUpdate DEF CloudTypeOK, ProcTypeOK, StateEnv
  <2>2. igws' \subseteq Igw BY <1>0, <1>4, <2>1 DEF IgwAttach, CloudTypeOK
  <2>3. QED BY <1>0, <1>4, <2>2 DEF IgwAttach, CloudTypeOK
<1>5. CASE EipEnsure
  <2>1. run \in Runs BY <1>5 DEF EipEnsure, IInv, InVpc, UpPoints
  <2>2. QED BY <1>0, <1>5, <2>1 DEF EipEnsure, CloudTypeOK
<1>6. CASE NatCreate
  <2> DEFINE n == [id |-> run, subnet |-> <<mem.subnet[1], 1>>, eip |-> mem.eip,
                   state |-> "pending", holds |-> TRUE]
  <2>1. run \in Runs /\ mem.eip \in Runs
    BY <1>6 DEF NatCreate, IInv, InVpc, FirstSubnet, UpPoints
  <2>2. <<mem.subnet[1], 1>> \in SubnetId
    BY <1>0, <1>6 DEF NatCreate, IInv, FirstSubnet, Live, CloudTypeOK, Subnet
  <2>3. n \in Nat_ BY <2>1, <2>2 DEF Nat_, NatState
  <2>4. QED BY <1>0, <1>6, <2>3 DEF NatCreate, CloudTypeOK
<1>7. CASE RtbEnsure
  <2> DEFINE r == [id |-> <<run, Vis>>, vpc |-> mem.vpc, route |-> None, assoc |-> {}]
  <2>1. run \in Runs /\ mem.vpc \in Runs
    BY <1>0, <1>7 DEF RtbEnsure, IInv, InVpc, UpPoints, CloudTypeOK
  <2>2. r \in Rtb BY <2>1 DEF Rtb, RtbId, Vis, Visibility
  <2>3. QED BY <1>0, <1>7, <2>2 DEF RtbEnsure, CloudTypeOK
<1>8. CASE RouteEnsure
  <2> DEFINE x == IF Vis = "public" THEN mem.igw ELSE mem.nat
  <2>1. x \in Ref BY <1>0 DEF ProcTypeOK, StateEnv
  <2> HIDE DEF x
  <2>2. \A r \in rtbs : [r EXCEPT !.route = x] \in Rtb BY <1>0, <2>1, TableUpdate DEF CloudTypeOK
  <2>3. \E r \in rtbs : rtbs' \in {rtbs, (rtbs \ {r}) \cup {[r EXCEPT !.route = x]}}
    BY <1>8 DEF RouteEnsure, x
  <2>4. rtbs' \subseteq Rtb BY <1>0, <2>2, <2>3 DEF CloudTypeOK
  <2>5. QED BY <1>0, <1>8, <2>4 DEF RouteEnsure, CloudTypeOK
<1>9. CASE AssocEnsure
  <2>1. todo \subseteq SubnetId BY <1>0, <1>9 DEF AssocEnsure, ProcTypeOK
  <2>2. \A r \in rtbs, s \in todo : r.assoc \cup {s} \in SUBSET SubnetId
    BY <1>0, <2>1 DEF CloudTypeOK, Rtb
  <2>3. \A r \in rtbs, s \in todo : [r EXCEPT !.assoc = r.assoc \cup {s}] \in Rtb
    BY <1>0, <2>2, TableUpdate DEF CloudTypeOK
  <2>4. \E r \in rtbs, s \in todo : rtbs' = (rtbs \ {r}) \cup {[r EXCEPT !.assoc = r.assoc \cup {s}]}
    BY <1>9 DEF AssocEnsure
  <2>5. rtbs' \subseteq Rtb BY <1>0, <2>3, <2>4 DEF CloudTypeOK
  <2>6. QED BY <1>0, <1>9, <2>5 DEF AssocEnsure, CloudTypeOK
<1>10. CASE RtbDisassociate
  <2>1. \A r \in rtbs : [r EXCEPT !.assoc = {}] \in Rtb BY <1>0, TableUpdate DEF CloudTypeOK
  <2>2. rtbs' \subseteq Rtb BY <1>0, <1>10, <2>1 DEF RtbDisassociate, CloudTypeOK
  <2>3. QED BY <1>0, <1>10, <2>2 DEF RtbDisassociate, CloudTypeOK
<1>11. CASE NatDelete
  <2>1. \A n \in nats : [n EXCEPT !.state = "deleting"] \in Nat_ BY <1>0, GatewayUpdate DEF CloudTypeOK, NatState
  <2>2. PICK i \in IF mem.nat # None THEN {mem.nat} ELSE Found({n.id : n \in Usable}) :
          nats' = {IF n.id = i /\ n.state # "deleted" THEN [n EXCEPT !.state = "deleting"]
                   ELSE n : n \in nats}
    BY <1>11 DEF NatDelete
  <2>3. nats' \subseteq Nat_ BY <1>0, <2>1, <2>2 DEF CloudTypeOK
  <2>4. QED BY <1>0, <1>11, <2>3 DEF NatDelete, CloudTypeOK
<1>12. CASE IgwDetach
  <2>1. \A g \in igws : [g EXCEPT !.vpc = None] \in Igw BY <1>0, AttachmentUpdate DEF CloudTypeOK
  <2>2. igws' \subseteq Igw BY <1>0, <1>12, <2>1 DEF IgwDetach, CloudTypeOK, Attached
  <2>3. QED BY <1>0, <1>12, <2>2 DEF IgwDetach, CloudTypeOK
<1>13. CASE IgwSweep
  <2>1. strays' \subseteq SubnetId BY <1>0, <1>13 DEF IgwSweep, SweepStrays, StraysOf, CloudTypeOK
  <2>2. QED BY <1>0, <1>13, <2>1 DEF IgwSweep, OnlyStrays, CloudTypeOK
<1>14. CASE SubnetSweep
  <2>1. strays' \subseteq SubnetId BY <1>0, <1>14 DEF SubnetSweep, SweepStrays, StraysOf, CloudTypeOK
  <2>2. QED BY <1>0, <1>14, <2>1 DEF SubnetSweep, OnlyStrays, CloudTypeOK
<1>15. ASSUME NEW s \in SubnetId, DeleteSubnet(s) PROVE CloudTypeOK'
  <2>1. rtbs' \subseteq Rtb BY <1>0, <1>15, TablesWithoutType DEF DeleteSubnet, CloudTypeOK
  <2>2. QED BY <1>0, <1>15, <2>1 DEF DeleteSubnet, CloudTypeOK, WithoutSubnets
<1>16. CASE DataSubnetDelete
  <2>1. NextData \subseteq SubnetId
    <3>1. DataSpecs \subseteq Specs BY SpecAssumption DEF DataSpecs, Specs
    <3>2. \A d \in DataKeys : d \in Specs /\ mem.subnet[d] \in Runs
      BY <1>0, <3>1 DEF DataKeys, ProcTypeOK, StateEnv
    <3>3. QED BY <3>2 DEF NextData, SubnetId
  <2>2. QED BY <1>16, <2>1, <1>15 DEF DataSubnetDelete
<1>17. CASE SubnetDelete
  <2>1. todo \subseteq SubnetId BY <1>0, <1>17 DEF SubnetDelete, ProcTypeOK
  <2>2. QED BY <1>17, <2>1, <1>15 DEF SubnetDelete
<1>18. CASE VpcSweep
  <2>1. PICK D \in SUBSET SubnetId :
          /\ strays' \subseteq strays /\ subnets' = WithoutSubnets(D) /\ mapped' = mapped \ D
          /\ rtbs' \subseteq TablesWithout(D) /\ igws' \subseteq igws
    <3>1. \A v : SubnetsOf(v) \in SUBSET SubnetId BY <1>0 DEF SubnetsOf, CloudTypeOK, Subnet
    <3>2. QED BY <1>18, <3>1 DEF VpcSweep, StraysOf
  <2>2. TablesWithout(D) \subseteq Rtb BY <1>0, TablesWithoutType DEF CloudTypeOK
  <2>3. QED BY <1>0, <1>18, <2>1, <2>2 DEF VpcSweep, CloudTypeOK, WithoutSubnets
<1>19. CASE CloudStep /\ UNCHANGED proc
  <2>1. CASE NatSettles
    <3>1. NatOutcomes \subseteq NatState BY SpecAssumption DEF NatState
    <3>2. \A n \in nats, x \in NatState : [n EXCEPT !.state = x] \in Nat_ BY <1>0, GatewayUpdate DEF CloudTypeOK
    <3>3. nats' \subseteq Nat_ BY <1>0, <2>1, <3>1, <3>2 DEF NatSettles, SetNat, CloudTypeOK
    <3>4. QED BY <1>0, <2>1, <3>3 DEF NatSettles, OnlyNats, CloudTypeOK
  <2>2. CASE NatDeleted
    <3>2. \A n \in nats : [n EXCEPT !.state = "deleted"] \in Nat_ BY <1>0, GatewayUpdate DEF CloudTypeOK, NatState
    <3>3. nats' \subseteq Nat_ BY <1>0, <2>2, <3>2 DEF NatDeleted, SetNat, CloudTypeOK
    <3>4. QED BY <1>0, <2>2, <3>3 DEF NatDeleted, OnlyNats, CloudTypeOK
  <2>3. CASE NatDetaches
    <3>2. \A n \in nats : [n EXCEPT !.holds = FALSE] \in Nat_ BY <1>0, GatewayUpdate DEF CloudTypeOK
    <3>3. nats' \subseteq Nat_ BY <1>0, <2>3, <3>2 DEF NatDetaches, SetNat, CloudTypeOK
    <3>4. QED BY <1>0, <2>3, <3>3 DEF NatDetaches, OnlyNats, CloudTypeOK
  <2>4. CASE NatForgotten
    <3>3. nats' \subseteq Nat_ BY <1>0, <2>4 DEF NatForgotten, CloudTypeOK
    <3>4. QED BY <1>0, <2>4, <3>3 DEF NatForgotten, OnlyNats, CloudTypeOK
  <2>5. CASE StrayAppears
    <3>1. strays' \subseteq SubnetId BY <1>0, <2>5 DEF StrayAppears, CloudTypeOK, Subnet
    <3>2. strayCount' \in 0 .. MaxStrays BY <1>0, <2>5, SpecAssumption DEF StrayAppears, CloudTypeOK
    <3>4. QED BY <1>0, <2>5, <3>1, <3>2 DEF StrayAppears, CloudTypeOK
  <2> QED BY <1>19, <2>1, <2>2, <2>3, <2>4, <2>5 DEF CloudStep
<1>20. CASE VpcCreate \/ VpcEnableHostnames
  <2>1. run \in Runs BY <1>20 DEF VpcCreate, VpcEnableHostnames, IInv, InVpc, UpPoints
  <2>2. QED BY <1>0, <1>20, <2>1 DEF VpcCreate, VpcEnableHostnames, CloudTypeOK
<1>21. CASE RtbDelete \/ EipRelease \/ IgwDelete \/ VpcDelete
  BY <1>0, <1>21 DEF RtbDelete, EipRelease, IgwDelete, VpcDelete, CloudTypeOK
<1>22. CASE UNCHANGED cloud
  BY <1>0, <1>22 DEF cloud, CloudTypeOK
<1>23. CASE VpcSkip \/ VpcEnableSupport \/ SubnetSkip \/ SubnetsSave \/ IgwSave \/ NatSkip \/ NatRejected
  \/ NatReady \/ NatBroken \/ PublicRtbDone \/ UpDone \/ StartUp \/ StartDown \/ Abort
  BY <1>22, <1>23 DEF VpcSkip, VpcEnableSupport, SubnetSkip, SubnetsSave, IgwSave, NatSkip, NatRejected,
  NatReady, NatBroken, PublicRtbDone, UpDone, StartUp, StartDown, Abort, Fail
<1>24. CASE Hydrate \/ RtbCollect \/ RtbsSave \/ NatGone \/ EipStuck \/ EipSave \/ IgwFind \/ IgwDefer
    \/ IgwCleared \/ SubnetCollect \/ SubnetRefused \/ SubnetsCleared \/ VpcCollect \/ VpcAlreadyGone \/ VpcRefused \/ DownDone
  BY <1>22, <1>24 DEF Hydrate, RtbCollect, RtbsSave, NatGone, EipStuck, EipSave, IgwFind, IgwDefer,
    IgwCleared, SubnetCollect, SubnetRefused, SubnetsCleared, VpcCollect, VpcAlreadyGone, VpcRefused, DownDone, Fail
<1> QED BY <1>1, <1>2, <1>3, <1>4, <1>5, <1>6, <1>7, <1>8, <1>9, <1>10, <1>11, <1>12, <1>13, <1>14, <1>16, <1>17,
  <1>18, <1>19, <1>20, <1>21, <1>23, <1>24 DEF Next, UpStep, DownStep

\* Every step keeps what is in a VPC in a live one: creation goes into a VPC that
\* `up` has found or made, and EC2 refuses to delete a VPC that is not empty.
LEMMA ContainedStep == ASSUME IInv, Next PROVE Contained'
<1> USE IdFacts
<1>0. ProcTypeOK /\ CloudTypeOK /\ Contained /\ InVpc /\ FirstSubnet BY DEF IInv, TypeOK
<1>1. CASE VpcCreate BY <1>0, <1>1 DEF VpcCreate, Contained, Live
<1>2. CASE SubnetCreate
  <2>1. mem.vpc \in vpcs BY <1>0, <1>2 DEF SubnetCreate, InVpc, UpPoints
  <2>2. QED BY <1>0, <1>2, <2>1 DEF SubnetCreate, Contained, Live
<1>3. CASE IgwEnsure BY <1>0, <1>3 DEF IgwEnsure, Contained, Live
<1>4. CASE IgwAttach
  <2>1. mem.vpc \in vpcs BY <1>0, <1>4 DEF IgwAttach, InVpc, UpPoints
  <2>2. \A g \in igws : [g EXCEPT !.vpc = mem.vpc].vpc = mem.vpc
    BY <1>0, AttachmentUpdate DEF CloudTypeOK, ProcTypeOK, StateEnv
  <2>3. QED BY <1>0, <1>4, <2>1, <2>2 DEF IgwAttach, Contained, Live
<1>5. CASE NatCreate
  <2>1. Live(<<mem.subnet[1], 1>>) BY <1>0, <1>5 DEF NatCreate, FirstSubnet
  <2>2. QED BY <1>0, <1>5, <2>1 DEF NatCreate, Contained, Live
<1>6. CASE RtbEnsure
  <2>1. mem.vpc \in vpcs BY <1>0, <1>6 DEF RtbEnsure, InVpc, UpPoints
  <2>2. QED BY <1>0, <1>6, <2>1 DEF RtbEnsure, Contained, Live
<1>7. ASSUME UNCHANGED <<vpcs, subnets, igws, nats>>,
             \A r \in rtbs' : \E q \in rtbs : r.vpc = q.vpc
      PROVE Contained'
  BY <1>0, <1>7 DEF Contained, Live
<1>8. CASE RouteEnsure
  <2> DEFINE Put(r) == [r EXCEPT !.route = IF Vis = "public" THEN mem.igw ELSE mem.nat]
  <2>1. \A r \in rtbs : Put(r).vpc = r.vpc BY <1>0, TableUpdate DEF CloudTypeOK
  <2>2. PICK r \in rtbs : rtbs' = IF r.route # None THEN rtbs ELSE (rtbs \ {r}) \cup {Put(r)}
    BY <1>8 DEF RouteEnsure
  <2>3. UNCHANGED <<vpcs, subnets, igws, nats>> BY <1>8 DEF RouteEnsure
  <2> HIDE DEF Put
  <2>4. \A t \in rtbs' : \E q \in rtbs : t.vpc = q.vpc BY <2>1, <2>2
  <2>5. QED BY <1>7, <2>3, <2>4
<1>9. CASE AssocEnsure
  <2>1. \A r \in rtbs : \A x : [r EXCEPT !.assoc = x].vpc = r.vpc BY <1>0, TableUpdate DEF CloudTypeOK
  <2>2. \A r \in rtbs' : \E q \in rtbs : r.vpc = q.vpc BY <1>9, <2>1 DEF AssocEnsure
  <2>3. QED BY <1>7, <1>9, <2>2 DEF AssocEnsure
<1>10. CASE RtbDisassociate
  <2>1. \A r \in rtbs : \A x : [r EXCEPT !.assoc = x].vpc = r.vpc BY <1>0, TableUpdate DEF CloudTypeOK
  <2>2. \A r \in rtbs' : \E q \in rtbs : r.vpc = q.vpc BY <1>10, <2>1 DEF RtbDisassociate
  <2>3. QED BY <1>7, <1>10, <2>2 DEF RtbDisassociate
<1>11. CASE RtbDelete BY <1>7, <1>11 DEF RtbDelete
<1>12. ASSUME UNCHANGED <<vpcs, subnets, igws, rtbs>>,
              \A n \in nats' : n.holds => \E m \in nats : m.holds /\ n.subnet = m.subnet
       PROVE Contained'
  BY <1>0, <1>12 DEF Contained, Live
<1>13. \A n \in nats : /\ \A x : /\ [n EXCEPT !.state = x].subnet = n.subnet
                                 /\ [n EXCEPT !.state = x].holds = n.holds
                       /\ [n EXCEPT !.holds = FALSE].holds = FALSE
  BY <1>0, GatewayUpdate DEF CloudTypeOK
<1>14. CASE NatDelete
  <2> DEFINE Doomed(n) == [n EXCEPT !.state = "deleting"]
  <2>1. PICK i \in IF mem.nat # None THEN {mem.nat} ELSE Found({n.id : n \in Usable}) :
          nats' = {IF n.id = i /\ n.state # "deleted" THEN Doomed(n) ELSE n : n \in nats}
    BY <1>14 DEF NatDelete
  <2>2. \A n \in nats' : n.holds => \E m \in nats : m.holds /\ n.subnet = m.subnet
    <3>1. \A n \in nats : Doomed(n).subnet = n.subnet /\ Doomed(n).holds = n.holds BY <1>13
    <3> HIDE DEF Doomed
    <3>2. QED BY <2>1, <3>1
  <2>3. QED BY <1>12, <1>14, <2>2 DEF NatDelete
<1>15. CASE CloudStep /\ UNCHANGED proc
  <2>1. CASE NatSettles
    <3> DEFINE Settled(n, s) == [n EXCEPT !.state = s]
    <3>1. PICK n \in nats, s \in NatOutcomes : nats' = (nats \ {n}) \cup {Settled(n, s)}
      BY <2>1 DEF NatSettles, SetNat
    <3>2. Settled(n, s).subnet = n.subnet /\ Settled(n, s).holds = n.holds BY <1>13
    <3> HIDE DEF Settled
    <3>3. \A m \in nats' : m.holds => \E q \in nats : q.holds /\ m.subnet = q.subnet BY <3>1, <3>2
    <3>4. QED BY <1>12, <2>1, <3>3 DEF NatSettles, OnlyNats
  <2>2. CASE NatDeleted
    <3> DEFINE Deleted(n) == [n EXCEPT !.state = "deleted"]
    <3>1. PICK n \in nats : nats' = (nats \ {n}) \cup {Deleted(n)}
      BY <2>2 DEF NatDeleted, SetNat
    <3>2. Deleted(n).subnet = n.subnet /\ Deleted(n).holds = n.holds BY <1>13
    <3> HIDE DEF Deleted
    <3>3. \A m \in nats' : m.holds => \E q \in nats : q.holds /\ m.subnet = q.subnet BY <3>1, <3>2
    <3>4. QED BY <1>12, <2>2, <3>3 DEF NatDeleted, OnlyNats
  <2>3. CASE NatDetaches
    BY <1>12, <1>13, <2>3 DEF NatDetaches, SetNat, OnlyNats
  <2>4. CASE NatForgotten
    BY <1>12, <1>13, <2>4 DEF NatForgotten, SetNat, OnlyNats
  <2>5. CASE StrayAppears BY <1>0, <2>5 DEF StrayAppears, Contained, Live
  <2>6. QED BY <1>15, <2>1, <2>2, <2>3, <2>4, <2>5 DEF CloudStep
<1>16. ASSUME UNCHANGED <<vpcs, subnets, rtbs, nats>>,
              \A g \in igws' : g.vpc # None => \E h \in igws : g.vpc = h.vpc
       PROVE Contained'
  BY <1>0, <1>16 DEF Contained, Live
<1>17. CASE IgwDetach
  <2> DEFINE Free(g) == [g EXCEPT !.vpc = None]
  <2>1. \A g \in igws : Free(g).vpc = None BY <1>0, AttachmentUpdate DEF CloudTypeOK
  <2>2. igws' = (igws \ Attached) \cup {Free(g) : g \in Attached} BY <1>17 DEF IgwDetach
  <2> HIDE DEF Free
  <2>4. \A g \in igws' : g.vpc # None => g \in igws
    BY <2>1, <2>2 DEF Attached
  <2>3. QED BY <1>16, <1>17, <2>4 DEF IgwDetach
<1>18. CASE IgwDelete BY <1>16, <1>18 DEF IgwDelete
<1>19. ASSUME NEW D, UNCHANGED <<vpcs, nats>>, subnets' = WithoutSubnets(D),
              \A n \in nats : n.holds => n.subnet \notin D,
              rtbs' \subseteq TablesWithout(D), igws' \subseteq igws
       PROVE Contained'
  <2>1. \A r \in rtbs' : \E q \in rtbs : r.vpc = q.vpc
    <3> DEFINE Less(r) == [r EXCEPT !.assoc = @ \ D]
    <3>1. \A r \in rtbs : Less(r).vpc = r.vpc BY <1>0 DEF CloudTypeOK, Rtb
    <3>2. TablesWithout(D) = {Less(r) : r \in rtbs} BY DEF TablesWithout
    <3> HIDE DEF Less
    <3>3. QED BY <1>19, <3>1, <3>2
  <2>2. QED BY <1>0, <1>19, <2>1 DEF Contained, Live, WithoutSubnets
<1>20. ASSUME NEW s, DeleteSubnet(s) PROVE Contained'
  BY <1>19, <1>20 DEF DeleteSubnet, Occupied
<1>21. CASE DataSubnetDelete BY <1>20, <1>21 DEF DataSubnetDelete
<1>22. CASE SubnetDelete BY <1>20, <1>22 DEF SubnetDelete
<1>23. CASE VpcSweep
  <2>1. PICK v \in todo, failed \in SUBSET {"instances", "subnets", "tables", "gateways"} :
       LET left  == IF "instances" \in failed THEN StraysOf(v) ELSE {}
           busy  == left \cup {s \in SubnetsOf(v) : \E n \in nats : n.subnet = s /\ n.holds}
           freed == IF "subnets" \in failed THEN {} ELSE SubnetsOf(v) \ busy
       IN /\ Dropped(failed = {})
          /\ cur' = v
          /\ strays' = (strays \ StraysOf(v)) \cup left
          /\ subnets' = WithoutSubnets(freed) /\ mapped' = mapped \ freed
          /\ rtbs' = {r \in TablesWithout(freed) : r.vpc = v => "tables" \in failed}
          /\ igws' = {g \in igws : g.vpc = v => "gateways" \in failed \/ busy # {}}
    BY <1>23, Zenon DEF VpcSweep
  <2> DEFINE left  == IF "instances" \in failed THEN StraysOf(v) ELSE {}
             busy  == left \cup {s \in SubnetsOf(v) : \E n \in nats : n.subnet = s /\ n.holds}
             freed == IF "subnets" \in failed THEN {} ELSE SubnetsOf(v) \ busy
  <2>2. \A n \in nats : n.holds => n.subnet \notin freed OBVIOUS
  <2>3. subnets' = WithoutSubnets(freed) /\ rtbs' \subseteq TablesWithout(freed) /\ igws' \subseteq igws
    BY <2>1
  <2>4. UNCHANGED <<vpcs, nats>> BY <1>23 DEF VpcSweep
  <2> HIDE DEF freed
  <2>5. QED BY <1>19, <2>2, <2>3, <2>4
<1>24. CASE VpcDelete
  BY <1>0, <1>24 DEF VpcDelete, VpcEmpty, SubnetsOf, AttachedTo, TablesOf, Contained, Live
<1>25. CASE UNCHANGED <<vpcs, subnets, igws, nats, rtbs>>
  BY <1>0, <1>25 DEF Contained, Live
<1>26. CASE SubnetMapPublicIp \/ EipEnsure \/ EipRelease \/ IgwSweep \/ SubnetSweep \/ VpcEnableHostnames
  BY <1>25, <1>26 DEF SubnetMapPublicIp, EipEnsure, EipRelease, IgwSweep, SubnetSweep, OnlyStrays, VpcEnableHostnames
<1>27. CASE UNCHANGED cloud BY <1>25, <1>27 DEF cloud
<1>28. CASE VpcSkip \/ VpcEnableSupport \/ SubnetSkip \/ SubnetsSave \/ IgwSave \/ NatSkip \/ NatRejected
  \/ NatReady \/ NatBroken \/ PublicRtbDone \/ UpDone \/ StartUp \/ StartDown \/ Abort
  BY <1>27, <1>28 DEF VpcSkip, VpcEnableSupport, SubnetSkip, SubnetsSave, IgwSave, NatSkip, NatRejected,
  NatReady, NatBroken, PublicRtbDone, UpDone, StartUp, StartDown, Abort, Fail
<1>29. CASE Hydrate \/ RtbCollect \/ RtbsSave \/ NatGone \/ EipStuck \/ EipSave \/ IgwFind \/ IgwDefer
    \/ IgwCleared \/ SubnetCollect \/ SubnetRefused \/ SubnetsCleared \/ VpcCollect \/ VpcAlreadyGone \/ VpcRefused \/ DownDone
  BY <1>27, <1>29 DEF Hydrate, RtbCollect, RtbsSave, NatGone, EipStuck, EipSave, IgwFind, IgwDefer,
    IgwCleared, SubnetCollect, SubnetRefused, SubnetsCleared, VpcCollect, VpcAlreadyGone, VpcRefused, DownDone, Fail
<1> QED BY <1>1, <1>2, <1>3, <1>4, <1>5, <1>6, <1>8, <1>9, <1>10, <1>11, <1>14, <1>15, <1>17, <1>18,
   <1>21, <1>22, <1>23, <1>24, <1>26, <1>28, <1>29 DEF Next, UpStep, DownStep

\* From phase 03 on an `up` works in a live VPC.
LEMMA InVpcStep == ASSUME IInv, Next PROVE InVpc'
<1> USE IdFacts DEF UpPoints, DownPoints
<1>0. ProcTypeOK /\ CloudTypeOK /\ InVpc /\ mem \in StateEnv BY DEF IInv, TypeOK, ProcTypeOK
<1>1. CASE StartUp
  <2>1. run' \in Runs BY <1>0, <1>1, SpecAssumption DEF StartUp, ProcTypeOK, Ref, Runs, None
  <2>2. QED BY <1>1, <2>1 DEF StartUp, InVpc
<1>2. CASE VpcSkip
  <2>1. PICK v \in vpcs : Set("vpc", v) BY <1>2 DEF VpcSkip
  <2>2. mem'.vpc \in vpcs BY <1>0, <2>1, KeyUpdateValue DEF Set
  <2>3. QED BY <1>0, <1>2, <2>2 DEF VpcSkip, InVpc, Goto, cloud
<1>3. CASE VpcEnableHostnames
  <2>1. mem' = [mem EXCEPT !.vpc = run] BY <1>3 DEF VpcEnableHostnames, Set
  <2>2. mem'.vpc = run BY <1>0, <2>1, KeyUpdateValue
  <2>3. QED BY <1>0, <1>3, <2>2 DEF VpcEnableHostnames, InVpc, Goto
<1>4. CASE IgwEnsure
  <2>1. mem'.vpc = mem.vpc
    <3>1. PICK i : Set("igw", i) BY <1>4 DEF IgwEnsure
    <3>2. QED BY <1>0, <3>1, KeyUpdateValue DEF Set
  <2>2. QED BY <1>0, <1>4, <2>1 DEF IgwEnsure, InVpc, Goto
<1>5. CASE EipEnsure
  <2>1. mem'.vpc = mem.vpc
    <3>1. PICK i : Set("eip", i) BY <1>5 DEF EipEnsure
    <3>2. QED BY <1>0, <3>1, KeyUpdateValue DEF Set
  <2>2. QED BY <1>0, <1>5, <2>1 DEF EipEnsure, InVpc, Goto
<1>6. CASE NatSkip \/ NatReady
  <2>1. mem'.vpc = mem.vpc
    <3>1. PICK i : Set("nat", i) BY <1>6 DEF NatSkip, NatReady
    <3>2. QED BY <1>0, <3>1, KeyUpdateValue DEF Set
  <2>2. QED BY <1>0, <1>6, <2>1 DEF NatSkip, NatReady, InVpc, Goto, cloud
<1>7. CASE RtbEnsure
  <2> DEFINE Put(i) == [mem EXCEPT !.rtb[Vis] = i]
  <2>1. \A i : Put(i).vpc = mem.vpc BY <1>0, KeyUpdateValue
  <2>2. \E i : mem' = Put(i) BY <1>7 DEF RtbEnsure
  <2> HIDE DEF Put
  <2>3. mem'.vpc = mem.vpc BY <2>1, <2>2
  <2>4. QED BY <1>0, <1>7, <2>3 DEF RtbEnsure, InVpc, Goto
<1>8. CASE SubnetSkip \/ SubnetCreate
  <2>1. mem'.vpc = mem.vpc
    <3>1. PICK i : mem' = [mem EXCEPT !.subnet[k] = i] BY <1>8 DEF SubnetSkip, SubnetCreate
    <3>2. k \in Specs BY <1>8 DEF SubnetSkip, SubnetCreate
    <3>3. QED BY <1>0, <3>1, <3>2, KeyUpdateValue
  <2>2. QED BY <1>0, <1>8, <2>1 DEF SubnetSkip, SubnetCreate, InVpc, Goto, cloud
<1>9. CASE pc' = "idle" \/ pc' \in DownPoints
  BY <1>0, <1>9 DEF InVpc
<1>10. CASE VpcCreate BY <1>0, <1>10 DEF VpcCreate, InVpc, Goto
<1>11. CASE VpcEnableSupport \/ SubnetMapPublicIp \/ SubnetsSave \/ IgwAttach \/ IgwSave \/ NatCreate
            \/ RouteEnsure \/ AssocEnsure \/ PublicRtbDone
  BY <1>0, <1>11 DEF VpcEnableSupport, SubnetMapPublicIp, SubnetsSave, IgwAttach, IgwSave, NatCreate,
            RouteEnsure, AssocEnsure, PublicRtbDone, InVpc, Goto, cloud
<1>12. CASE NatRejected \/ NatBroken \/ UpDone \/ Abort \/ StartDown
  BY <1>9, <1>12 DEF NatRejected, NatBroken, UpDone, Abort, StartDown, Fail, End
<1>13. CASE DownStep
  <2>1. pc' = "idle" \/ pc' \in DownPoints
   BY <1>13, DownGoesOn DEF DownPoints
  <2>2. QED BY <1>9, <2>1
<1>14. CASE CloudStep /\ UNCHANGED proc
  <2>1. UNCHANGED vpcs
    BY <1>14, CloudKeeps
  <2>2. QED BY <1>0, <1>14, <2>1 DEF proc, InVpc
<1> QED BY <1>1, <1>2, <1>3, <1>4, <1>5, <1>6, <1>7, <1>8, <1>10, <1>11, <1>12, <1>13, <1>14
  DEF Next, UpStep

\* Once phase 03 has passed the first subnet of the list, it is alive until `up`
\* creates the NAT gateway in it.
LEMMA FirstSubnetStep == ASSUME IInv, Next PROVE FirstSubnet'
<1> USE IdFacts, SpecAssumption DEF UpPoints, DownPoints
<1>0. /\ ProcTypeOK /\ CloudTypeOK /\ FirstSubnet /\ mem \in StateEnv
      /\ 1 \in PublicSpecs /\ 1 \in Specs
  BY SpecAssumption DEF IInv, TypeOK, ProcTypeOK, PublicSpecs
<1>1. CASE VpcSkip \/ VpcEnableHostnames
  <2>1. k' = 1 /\ pc' = "subnets"
    BY <1>0, <1>1 DEF VpcSkip, VpcEnableHostnames, FirstSubnet, Goto
  <2>2. QED BY <2>1, SpecAssumption DEF FirstSubnet
<1>2. CASE SubnetSkip
  <2>1. PICK x \in SubnetAt(k) : mem' = [mem EXCEPT !.subnet[k] = x.id[1]] BY <1>2 DEF SubnetSkip
  <2>2. x \in subnets /\ x.id = <<x.id[1], k>> BY <1>0, <2>1 DEF SubnetAt, CloudTypeOK, Subnet, SubnetId
  <2>3. k \in Specs BY <1>2 DEF SubnetSkip
  <2>4. Live(<<mem.subnet[1], 1>>)'
    <3>1. CASE k = 1
      <4>1. mem'.subnet[k] = x.id[1] BY <1>0, <2>1, <2>3, KeyUpdateValue
      <4>2. QED BY <1>2, <2>2, <3>1, <4>1 DEF Live, SubnetSkip, cloud
    <3>2. CASE k # 1
      <4>1. k > 1 BY <2>3, <3>2 DEF Specs
      <4>2. Live(<<mem.subnet[1], 1>>) BY <1>0, <1>2, <4>1 DEF SubnetSkip, FirstSubnet
      <4>3. mem'.subnet[1] = mem.subnet[1] BY <1>0, <2>1, <2>3, <3>2, KeyUpdateValue
      <4>4. QED BY <1>2, <4>2, <4>3 DEF Live, SubnetSkip, cloud
    <3>3. QED BY <3>1, <3>2
  <2>5. k' \in 1 .. (NPublic + NPrivate + NData + 1) BY <1>2 DEF SubnetSkip, Specs
  <2>6. QED BY <1>2, <2>4, <2>5 DEF SubnetSkip, FirstSubnet, Goto
<1>3. CASE SubnetCreate
  <2>1. k \in Specs /\ mem' = [mem EXCEPT !.subnet[k] = run] BY <1>3 DEF SubnetCreate
  <2>2. Live(<<mem.subnet[1], 1>>)'
    <3>1. CASE k = 1
      <4>1. mem'.subnet[k] = run
        <5>1. [mem EXCEPT !.subnet[k] = run].subnet[k] = run
          <6>1. mem.subnet \in [Specs -> Ref] /\ k \in Specs BY <1>0, <2>1 DEF StateEnv
          <6>2. QED BY <1>0, <6>1 DEF StateEnv
        <5>2. QED BY <2>1, <5>1
      <4>2. [id |-> <<run, k>>, vpc |-> mem.vpc] \in subnets' BY <1>3 DEF SubnetCreate
      <4>3. <<run, k>> = <<mem'.subnet[1], 1>> BY <3>1, <4>1
      <4>4. [id |-> <<run, k>>, vpc |-> mem.vpc].id = <<run, k>> OBVIOUS
      <4>5. \E x \in subnets' : x.id = <<mem'.subnet[1], 1>> BY <4>2, <4>3, <4>4
      <4>6. QED BY <4>5 DEF Live
    <3>2. CASE k # 1
      <4>1. k > 1 BY <2>1, <3>2 DEF Specs
      <4>2. Live(<<mem.subnet[1], 1>>) BY <1>0, <1>3, <4>1 DEF SubnetCreate, FirstSubnet
      <4>3. mem'.subnet[1] = mem.subnet[1] BY <1>0, <2>1, <3>2, KeyUpdateValue
      <4>4. QED BY <1>3, <4>2, <4>3 DEF SubnetCreate, Live
    <3>3. QED BY <3>1, <3>2
  <2>3. /\ pc' \in {"subnets", "subnetAttr"}
        /\ k' \in 1 .. (NPublic + NPrivate + NData + 1)
        /\ pc' = "subnetAttr" => k' \in PublicSpecs
    <3>1. CASE k \in PublicSpecs BY <1>3, <2>1, <3>1 DEF SubnetCreate, Specs, Goto
    <3>2. CASE k \notin PublicSpecs BY <1>3, <2>1, <3>2 DEF SubnetCreate, Specs, Goto
    <3>3. QED BY <3>1, <3>2
  <2>4. QED BY <2>2, <2>3 DEF FirstSubnet
<1>4. CASE SubnetMapPublicIp
  <2>1. k \in PublicSpecs /\ Live(<<mem.subnet[1], 1>>) BY <1>0, <1>4 DEF SubnetMapPublicIp, FirstSubnet
  <2>2. k' \in 1 .. (NPublic + NPrivate + NData + 1)
    BY <1>4, <2>1, SpecAssumption DEF SubnetMapPublicIp, PublicSpecs
  <2>3. QED BY <1>4, <2>1, <2>2 DEF SubnetMapPublicIp, FirstSubnet, Live, Goto
<1>5. CASE SubnetsSave
  <2>1. k > 1 BY <1>0, <1>5 DEF SubnetsSave, ProcTypeOK
  <2>2. QED BY <1>0, <1>5, <2>1 DEF SubnetsSave, FirstSubnet, Live, Goto, cloud
<1>6. CASE IgwEnsure
  <2>1. mem'.subnet = mem.subnet
    <3>1. PICK i : Set("igw", i) BY <1>6 DEF IgwEnsure
    <3>2. QED BY <1>0, <3>1, KeyUpdateValue DEF Set
  <2>2. QED BY <1>0, <1>6, <2>1 DEF IgwEnsure, FirstSubnet, Live, Goto
<1>7. CASE IgwAttach \/ IgwSave
  BY <1>0, <1>7 DEF IgwAttach, IgwSave, FirstSubnet, Live, Goto, cloud
<1>8. CASE EipEnsure
  <2>1. mem'.subnet = mem.subnet /\ mem'.eip \in Runs
    <3>1. run \in Runs /\ eips \subseteq Runs BY <1>0, <1>8 DEF EipEnsure, IInv, InVpc, CloudTypeOK
    <3>2. PICK i \in Runs : Set("eip", i) BY <1>8, <3>1 DEF EipEnsure
    <3>3. QED BY <1>0, <3>2, KeyUpdateValue DEF Set
  <2>2. QED BY <1>0, <1>8, <2>1 DEF EipEnsure, FirstSubnet, Live, Goto
<1>9. ASSUME pc' \notin {"idle", "vpc", "vpcSupport", "vpcHostnames", "subnets", "subnetAttr",
                         "igw", "igwAttach", "igwSave", "eip", "nat"}
      PROVE FirstSubnet'
  BY <1>9 DEF FirstSubnet
<1>10. CASE NatSkip \/ NatCreate \/ NatReady \/ RtbEnsure \/ RouteEnsure \/ AssocEnsure \/ PublicRtbDone
  BY <1>9, <1>10 DEF NatSkip, NatCreate, NatReady, RtbEnsure, RouteEnsure, AssocEnsure, PublicRtbDone, Goto
<1>11. ASSUME pc' \in {"idle", "vpc", "vpcSupport", "vpcHostnames"}, k' = 1 PROVE FirstSubnet'
  BY <1>11 DEF FirstSubnet
<1>12. CASE StartUp \/ VpcCreate \/ VpcEnableSupport
  BY <1>0, <1>11, <1>12 DEF StartUp, VpcCreate, VpcEnableSupport, FirstSubnet, Goto
<1>13. CASE Abort \/ NatRejected \/ NatBroken \/ UpDone
  BY <1>11, <1>13 DEF Abort, NatRejected, NatBroken, UpDone, Fail, End
<1>14. CASE StartDown BY <1>9, <1>14 DEF StartDown
<1>15. CASE DownStep
  <2>1. (pc' = "idle" /\ k' = 1) \/ pc' \in DownPoints
   BY <1>15, DownGoesOn DEF DownPoints
  <2>2. QED BY <1>9, <1>11, <2>1
<1>16. CASE CloudStep /\ UNCHANGED proc
  <2>1. UNCHANGED subnets
    BY <1>16, CloudKeeps
  <2>2. QED BY <1>0, <1>16, <2>1 DEF proc, FirstSubnet, Live
<1>17. QED
  BY <1>1, <1>2, <1>3, <1>4, <1>5, <1>6, <1>7, <1>8, <1>10, <1>12, <1>13, <1>14, <1>15, <1>16
  DEF Next, UpStep

\* The VPCs phase 02 down has still to delete are all there are, unless it was blind.
LEMMA CoveredStep == ASSUME IInv, Next PROVE Covered'
<1>0. ProcTypeOK /\ CloudTypeOK /\ Covered BY DEF IInv, TypeOK
<1>1. ASSUME pc' \notin {"vpcSweep", "vpcDown", "vpcSave"} PROVE Covered'
  BY <1>1 DEF Covered
<1>2. CASE VpcCollect BY <1>0, <1>2 DEF VpcCollect, Covered, cloud
<1>3. CASE VpcSweep BY <1>0, <1>3 DEF VpcSweep, Covered
<1>4. CASE VpcDelete BY <1>0, <1>4 DEF VpcDelete, Covered, Goto
<1>5. CASE StartUp \/ StartDown \/ Abort BY <1>1, <1>5 DEF StartUp, StartDown, Abort, End
<1>6. CASE UpStep
  BY <1>1, <1>6 DEF UpStep, VpcSkip, VpcCreate, VpcEnableSupport, VpcEnableHostnames,
    SubnetSkip, SubnetCreate, SubnetMapPublicIp, SubnetsSave, IgwEnsure, IgwAttach, IgwSave,
    EipEnsure, NatSkip, NatCreate, NatRejected, NatReady, NatBroken,
    RtbEnsure, RouteEnsure, AssocEnsure, PublicRtbDone, UpDone, Goto, Fail, End
<1>7. CASE DownStep /\ ~(VpcCollect \/ VpcSweep \/ VpcDelete)
  BY <1>1, <1>7 DEF DownStep, Hydrate, RtbCollect, RtbDisassociate, RtbDelete, RtbsSave,
    NatDelete, NatGone, EipRelease, EipStuck, EipSave,
    IgwFind, IgwDetach, IgwSweep, IgwDefer, IgwDelete, IgwCleared,
    DataSubnetDelete, SubnetCollect, SubnetDelete, SubnetSweep,
    SubnetRefused, SubnetsCleared, VpcAlreadyGone, VpcRefused, DownDone, Goto, End, Fail
<1>8. CASE CloudStep /\ UNCHANGED proc
  <2>1. UNCHANGED vpcs
    BY <1>8, CloudKeeps
  <2>2. QED BY <1>0, <1>8, <2>1 DEF proc, Covered
<1>9. QED BY <1>2, <1>3, <1>4, <1>5, <1>6, <1>7, <1>8 DEF Next

\* The report of a command holds until the next one starts.
LEMMA CleanStep == ASSUME IInv, Next PROVE Clean'
<1>0. Covered /\ Clean BY DEF IInv
<1>1. ASSUME done' = "none" PROVE Clean' BY <1>1 DEF Clean
<1>2. CASE VpcAlreadyGone BY <1>2 DEF VpcAlreadyGone, End, Clean, cloud
<1>3. CASE DownDone BY <1>0, <1>3 DEF DownDone, End, Clean, Covered, cloud
<1>4. CASE UpDone BY <1>4 DEF UpDone, End, Clean
<1>5. CASE StartUp \/ StartDown \/ Abort BY <1>1, <1>5 DEF StartUp, StartDown, Abort, End
<1>6. CASE UpStep /\ ~UpDone
  <2>1. pc # "idle" /\ (UNCHANGED done \/ done' = "none")
    BY <1>6 DEF UpStep, VpcSkip, VpcCreate, VpcEnableSupport, VpcEnableHostnames,
      SubnetSkip, SubnetCreate, SubnetMapPublicIp, SubnetsSave, IgwEnsure, IgwAttach, IgwSave,
      EipEnsure, NatSkip, NatCreate, NatRejected, NatReady, NatBroken,
      RtbEnsure, RouteEnsure, AssocEnsure, PublicRtbDone, Goto, Fail, End
  <2>2. QED BY <1>0, <1>1, <2>1 DEF Clean
<1>7. CASE DownStep /\ ~(VpcAlreadyGone \/ DownDone)
  <2>1. pc # "idle" /\ (UNCHANGED done \/ done' = "none")
    BY <1>7 DEF DownStep, Hydrate, RtbCollect, RtbDisassociate, RtbDelete, RtbsSave,
      NatDelete, NatGone, EipRelease, EipStuck, EipSave,
      IgwFind, IgwDetach, IgwSweep, IgwDefer, IgwDelete, IgwCleared,
      DataSubnetDelete, SubnetCollect, SubnetDelete, SubnetSweep,
      SubnetRefused, SubnetsCleared, VpcCollect, VpcSweep, VpcDelete, VpcRefused, Goto, End, Fail
  <2>2. QED BY <1>0, <1>1, <2>1 DEF Clean
<1>8. CASE CloudStep /\ UNCHANGED proc
  <2>1. UNCHANGED vpcs
    BY <1>8, CloudKeeps
  <2>2. QED BY <1>0, <1>8, <2>1 DEF proc, Clean
<1>9. QED BY <1>2, <1>3, <1>4, <1>5, <1>6, <1>7, <1>8 DEF Next

\* A stuttering step keeps the invariant.
LEMMA StutterStep == ASSUME IInv, UNCHANGED vars PROVE IInv'
  BY DEF vars, cloud, proc, IInv, TypeOK, CloudTypeOK, ProcTypeOK, Contained, Live, InVpc,
    FirstSubnet, Covered, Clean

\* The inductive invariant holds in every reachable state, for every number of
\* subnets, runs, faults and helper instances.
THEOREM InductiveInvariant == Spec => []IInv
<1>1. Init => IInv
  <2>1. SUFFICES ASSUME Init PROVE IInv OBVIOUS
  <2>2. CloudTypeOK BY <2>1, SpecAssumption DEF Init, CloudInit, CloudTypeOK
  <2>3. ProcTypeOK
    <3>1. 1 \in 1 .. (NPublic + NPrivate + NData + 2) /\ 0 \in 0 .. MaxFaults /\ 0 \in Ref
      BY SpecAssumption, FaultAssumption DEF Ref, None
    <3>2. QED BY <2>1, <3>1, IdFacts, EmptyStateType DEF Init, ProcTypeOK
  <2>4. Contained BY <2>1 DEF Init, CloudInit, Contained
  <2>5. InVpc /\ FirstSubnet /\ Covered /\ Clean
    BY <2>1 DEF Init, InVpc, FirstSubnet, Covered, Clean, UpPoints
  <2>6. QED BY <2>2, <2>3, <2>4, <2>5 DEF IInv, TypeOK
<1>2. IInv /\ [Next]_vars => IInv'
  <2>1. IInv /\ Next => IInv'
    BY ProcTypeStep, CloudTypeStep, ContainedStep, InVpcStep, FirstSubnetStep, CoveredStep, CleanStep DEF IInv, TypeOK
  <2>2. QED BY <2>1, StutterStep
<1>3. QED BY <1>1, <1>2, PTL DEF Spec

\* Every variable keeps its type, and the loops of `down` visit the kind of resource
\* they are about.
THEOREM TypeCorrect == Spec => []TypeOK
<1>1. IInv => TypeOK BY DEF IInv
<1>2. QED BY <1>1, InductiveInvariant, PTL

\* runPhasedDown that returns nil has left no VPC, subnet, route table, attached
\* gateway or NAT interface, unless Phase02VPCDown dropped a listing error.
THEOREM SuccessfulDownIsClean == Spec => []NoNetworkLeft
<1>1. IInv => NoNetworkLeft
  <2>1. SUFFICES ASSUME IInv, done = "down", ~blind
                 PROVE /\ vpcs = {} /\ subnets = {} /\ rtbs = {}
                       /\ \A g \in igws : g.vpc = None
                       /\ \A n \in nats : ~n.holds
    BY DEF NoNetworkLeft
  <2>2. vpcs = {} BY <2>1 DEF IInv, Clean
  <2>3. QED BY <2>1, <2>2 DEF IInv, Contained, Live
<1>2. QED BY <1>1, InductiveInvariant, PTL

-----------------------------------------------------------------------------
(* A successful `up` has built the network.  What the phases pass has to    *)
(* hold until the last of them saves it (Built, Routed), and a route table  *)
(* found by its tag must be the one an earlier phase meant (Named).         *)

FromIgw    == {"igw", "igwAttach", "igwSave", "eip", "nat", "natWait", "rtb", "route", "assoc"}
FromSave   == FromIgw \ {"igw", "igwAttach"}
FromNat    == FromSave \ {"igwSave", "eip"}
FromRtb    == {"rtb", "route", "assoc"}

Held(c) == [id |-> <<mem.subnet[c], c>>, vpc |-> mem.vpc] \in subnets

\* Phases 03 to 05 hold what they have passed.
Built ==
  /\ pc = "subnets" => \A c \in Specs : c < k => Held(c)
  /\ pc = "subnetAttr" => \A c \in Specs : c <= k => Held(c)
  /\ pc \in FromIgw => \A c \in Specs : Held(c)
  /\ pc \in {"igwAttach"} \cup FromSave => mem.igw \in Runs
  /\ pc \in FromSave => [id |-> mem.igw, vpc |-> mem.vpc] \in igws
  /\ pc \in FromNat => mem.eip \in eips
  /\ pc \in FromRtb => mem.nat \in Runs
  /\ pc \in FromIgw \ FromRtb => k = 1
  /\ pc \in FromRtb => k \in {1, 2}

Distinct == \A q, r \in rtbs : q.id = r.id => q = r

\* A route table is named after the run and the visibility it was created for.
Named ==
  /\ Distinct
  /\ \A r \in rtbs : r.id[1] <= run
  /\ pc \in UpPoints => \A r \in rtbs : r.id[1] = run =>
       /\ pc \in FromRtb
       /\ pc = "rtb" => k = 2 /\ r.id[2] = "public"
       /\ k = 1 => r.id[2] = "public"

Full(v) == \E r \in TablesOf(mem.vpc) :
         /\ r.id = <<mem.rtb[v], v>> /\ r.route # None
         /\ \A c \in Specs : (c \in PublicSpecs) = (v = "public")
                               => <<mem.subnet[c], c>> \in r.assoc

Routed ==
  /\ pc \in {"route", "assoc"} => \E r \in TablesOf(mem.vpc) : r.id = <<mem.rtb[Vis], Vis>>
  /\ pc = "assoc" => \A r \in rtbs : r.id = <<mem.rtb[Vis], Vis>> =>
       r.route # None /\ TableSubnets \subseteq r.assoc \cup todo
  /\ pc \in FromRtb /\ k = 2 => Full("public")

Building == Built /\ Named /\ Routed

\* State.Set leaves the keys it is not given.
LEMMA OtherKeysKept == ASSUME NEW e \in StateEnv, NEW r PROVE
  /\ [e EXCEPT !.igw = r].igw = r
  /\ [e EXCEPT !.eip = r].igw = e.igw
  /\ [e EXCEPT !.nat = r].nat = r /\ [e EXCEPT !.nat = r].igw = e.igw
  /\ [e EXCEPT !.nat = r].eip = e.eip /\ [e EXCEPT !.nat = r].subnet = e.subnet
  /\ \A v : /\ [e EXCEPT !.rtb[v] = r].igw = e.igw /\ [e EXCEPT !.rtb[v] = r].eip = e.eip
            /\ [e EXCEPT !.rtb[v] = r].nat = e.nat /\ [e EXCEPT !.rtb[v] = r].subnet = e.subnet
  /\ \A v \in Visibility : /\ [e EXCEPT !.rtb[v] = r].rtb[v] = r
                           /\ \A w \in Visibility \ {v} : [e EXCEPT !.rtb[v] = r].rtb[w] = e.rtb[w]
  BY DEF StateEnv

\* Route tables come from RtbEnsure alone: every other step keeps their ids, and keeps
\* them distinct.
LEMMA TablesKept == ASSUME IInv, Distinct, Next, ~RtbEnsure
  PROVE Distinct' /\ \A r \in rtbs' : \E q \in rtbs : q.id = r.id
<1> DEFINE Goal == Distinct' /\ \A r \in rtbs' : \E q \in rtbs : q.id = r.id
<1>0. CloudTypeOK BY DEF IInv, TypeOK
<1>1. ASSUME rtbs' \subseteq rtbs PROVE Goal
  BY <1>1 DEF Distinct
<1>2. ASSUME NEW r \in rtbs, NEW p, p.id = r.id, rtbs' = (rtbs \ {r}) \cup {p} PROVE Goal
  BY <1>2 DEF Distinct
<1>3. ASSUME NEW D, rtbs' \subseteq TablesWithout(D) PROVE Goal
  <2> DEFINE Less(r) == [r EXCEPT !.assoc = @ \ D]
  <2>1. \A r \in rtbs : Less(r).id = r.id BY <1>0 DEF CloudTypeOK, Rtb
  <2>2. \A t \in rtbs' : \E r \in rtbs : t = Less(r) BY <1>3 DEF TablesWithout
  <2> HIDE DEF Less
  <2>3. \A t \in rtbs' : \E r \in rtbs : t = Less(r) /\ t.id = r.id BY <2>1, <2>2
  <2>4. QED BY <2>3 DEF Distinct
<1>4. CASE RouteEnsure
  <2> DEFINE Put(r) == [r EXCEPT !.route = IF Vis = "public" THEN mem.igw ELSE mem.nat]
  <2>1. \A r \in rtbs : Put(r).id = r.id BY <1>0 DEF CloudTypeOK, Rtb
  <2>2. PICK r \in rtbs : rtbs' = IF r.route # None THEN rtbs ELSE (rtbs \ {r}) \cup {Put(r)}
    BY <1>4 DEF RouteEnsure
  <2> HIDE DEF Put
  <2>3. CASE r.route # None BY <1>1, <2>2, <2>3
  <2>4. CASE r.route = None
    <3>1. rtbs' = (rtbs \ {r}) \cup {Put(r)} /\ Put(r).id = r.id BY <2>1, <2>2, <2>4
    <3>2. QED BY <1>2, <3>1
  <2>5. QED BY <2>3, <2>4
<1>5. CASE AssocEnsure
  <2> DEFINE Put(r, s) == [r EXCEPT !.assoc = @ \cup {s}]
  <2>1. \A r \in rtbs, s \in todo : Put(r, s).id = r.id BY <1>0 DEF CloudTypeOK, Rtb
  <2>2. PICK s \in todo, r \in rtbs : rtbs' = (rtbs \ {r}) \cup {Put(r, s)} BY <1>5 DEF AssocEnsure
  <2> HIDE DEF Put
  <2>3. QED BY <1>2, <2>1, <2>2
<1>6. CASE RtbDisassociate
  <2> DEFINE Put(r) == [r EXCEPT !.assoc = {}]
  <2>1. \A r \in rtbs : Put(r).id = r.id BY <1>0 DEF CloudTypeOK, Rtb
  <2>2. PICK r \in rtbs : rtbs' = (rtbs \ {r}) \cup {Put(r)} BY <1>6 DEF RtbDisassociate
  <2> HIDE DEF Put
  <2>3. QED BY <1>2, <2>1, <2>2
<1>7. CASE RtbDelete BY <1>1, <1>7 DEF RtbDelete
<1>8. ASSUME NEW s, DeleteSubnet(s) PROVE Goal BY <1>3, <1>8 DEF DeleteSubnet
<1>9. CASE DataSubnetDelete BY <1>8, <1>9 DEF DataSubnetDelete
<1>10. CASE SubnetDelete BY <1>8, <1>10 DEF SubnetDelete
<1>11. CASE VpcSweep
  <2>1. PICK D : rtbs' \subseteq TablesWithout(D) BY <1>11 DEF VpcSweep
  <2>2. QED BY <1>3, <2>1
<1>12. CASE VpcSkip \/ VpcCreate \/ VpcEnableSupport \/ VpcEnableHostnames \/ SubnetSkip \/ SubnetCreate
         \/ SubnetMapPublicIp \/ SubnetsSave \/ IgwEnsure \/ IgwAttach \/ IgwSave \/ EipEnsure \/ NatSkip
         \/ NatCreate \/ NatRejected \/ NatReady \/ NatBroken \/ PublicRtbDone \/ UpDone
  <2>1. rtbs' = rtbs
    BY <1>12 DEF VpcSkip, VpcCreate, VpcEnableSupport, VpcEnableHostnames, SubnetSkip, SubnetCreate,
         SubnetMapPublicIp, SubnetsSave, IgwEnsure, IgwAttach, IgwSave, EipEnsure, NatSkip,
         NatCreate, NatRejected, NatReady, NatBroken, PublicRtbDone, UpDone, Fail, cloud
  <2>2. QED BY <1>1, <2>1
<1>13. CASE StartUp \/ StartDown \/ Abort \/ CloudStep
  <2>1. rtbs' = rtbs
    BY <1>13 DEF StartUp, StartDown, Abort, CloudStep, NatSettles, NatDeleted, NatDetaches,
         NatForgotten, OnlyNats, StrayAppears, cloud
  <2>2. QED BY <1>1, <2>1
<1>14. CASE DownStep /\ ~(RtbDisassociate \/ RtbDelete \/ DataSubnetDelete \/ SubnetDelete \/ VpcSweep)
  <2>1. rtbs' = rtbs
    BY <1>14 DEF DownStep, Hydrate, RtbCollect, RtbsSave, NatDelete, NatGone, EipRelease, EipStuck,
         EipSave, IgwFind, IgwDetach, IgwSweep, IgwDefer, IgwDelete, IgwCleared, SubnetCollect,
         SubnetSweep, SubnetRefused, SubnetsCleared, VpcCollect, VpcAlreadyGone, VpcDelete,
         VpcRefused, DownDone, OnlyStrays, Fail, cloud
  <2>2. QED BY <1>1, <2>1
<1>15. QED BY <1>4, <1>5, <1>6, <1>7, <1>9, <1>10, <1>11, <1>12, <1>13, <1>14 DEF Next, UpStep

\* Only the steps of `up`, and those of EC2, lead to a point of `up`.
LEMMA UpGoesOn == ASSUME Next, pc' \in UpPoints
  PROVE StartUp \/ UpStep \/ (CloudStep /\ UNCHANGED proc)
<1>1. \A p \in DownPoints : p \notin UpPoints BY DEF DownPoints, UpPoints
<1>2. "idle" \notin UpPoints BY DEF UpPoints
<1>3. ~(StartDown \/ Abort)
  <2>1. "hydrate" \notin UpPoints BY DEF UpPoints
  <2>2. QED BY <1>2, <2>1 DEF StartDown, Abort, End
<1>4. ~DownStep BY <1>1, <1>2, DownGoesOn
<1>5. QED BY <1>3, <1>4 DEF Next

\* The table an `up` creates has a name of its own.
LEMMA NamedStep == ASSUME IInv, Named, Next PROVE Named'
<1> USE IdFacts
<1>0. ProcTypeOK /\ CloudTypeOK /\ Distinct /\ run \in Nat
  BY DEF IInv, TypeOK, ProcTypeOK, Named
<1>1. CASE RtbEnsure
  <2> DEFINE new == [id |-> <<run, Vis>>, vpc |-> mem.vpc, route |-> None, assoc |-> {}]
  <2>1. pc = "rtb" /\ pc' = "route" /\ k' = k /\ run' = run /\ rtbs' \in {rtbs, rtbs \cup {new}}
    BY <1>1 DEF RtbEnsure, Goto
  <2>2. new.id = <<run, Vis>> OBVIOUS
  <2>3. \A r \in rtbs : r.id[1] = run => k = 2 /\ r.id[2] = "public"
    BY <2>1 DEF Named, UpPoints
  <2>4. k = 2 => Vis # "public" BY DEF Vis
  <2>5. \A r \in rtbs : r.id # new.id BY <2>2, <2>3, <2>4
  <2>6. k = 1 => Vis = "public" BY DEF Vis
  <2> HIDE DEF new
  <2>7. Distinct' BY <1>0, <2>1, <2>5 DEF Distinct
  <2>8. \A r \in rtbs' : r.id[1] <= run'
    <3>1. new.id[1] <= run BY <1>0, <2>2
    <3>2. QED BY <2>1, <3>1 DEF Named
  <2>9. \A r \in rtbs' : r.id[1] = run' => (k' = 1 => r.id[2] = "public")
    <3>1. k = 1 => new.id[2] = "public" BY <2>2, <2>6
    <3>2. QED BY <2>1, <2>3, <3>1
  <2>10. QED BY <2>1, <2>7, <2>8, <2>9 DEF Named, FromRtb
<1>2. CASE ~RtbEnsure
  <2>1. Distinct' /\ \A r \in rtbs' : \E q \in rtbs : q.id = r.id BY <1>0, <1>2, TablesKept
  <2>2. \A q \in rtbs : q.id[1] \in Nat BY <1>0 DEF CloudTypeOK, Rtb, RtbId
  <2>3. run' \in Nat /\ run <= run'
    <3>1. run' = run \/ run' = run + 1
      BY DEF Next, StartUp, StartDown, Abort, End, UpStep, VpcSkip, VpcCreate, VpcEnableSupport,
        VpcEnableHostnames, SubnetSkip, SubnetCreate, SubnetMapPublicIp, SubnetsSave, IgwEnsure,
        IgwAttach, IgwSave, EipEnsure, NatSkip, NatCreate, NatRejected, NatReady, NatBroken,
        RtbEnsure, RouteEnsure, AssocEnsure, PublicRtbDone, UpDone, DownStep, Hydrate, RtbCollect,
        RtbDisassociate, RtbDelete, RtbsSave, NatDelete, NatGone, EipRelease, EipStuck, EipSave,
        IgwFind, IgwDetach, IgwSweep, IgwDefer, IgwDelete, IgwCleared, DataSubnetDelete,
        SubnetCollect, SubnetDelete, SubnetSweep, SubnetRefused, SubnetsCleared, VpcCollect,
        VpcAlreadyGone, VpcSweep, VpcDelete, VpcRefused, DownDone, Goto, Fail, proc
    <3>2. QED BY <1>0, <3>1
  <2>4. \A r \in rtbs' : r.id[1] <= run'
    <3>1. SUFFICES ASSUME NEW r \in rtbs' PROVE r.id[1] <= run' OBVIOUS
    <3>2. PICK q \in rtbs : q.id = r.id BY <2>1
    <3>3. q.id[1] \in Nat /\ q.id[1] <= run BY <2>2 DEF Named
    <3>4. QED BY <1>0, <2>3, <3>2, <3>3
  <2>5. ASSUME pc' \in UpPoints, NEW r \in rtbs', r.id[1] = run'
        PROVE /\ pc' \in FromRtb
              /\ pc' = "rtb" => k' = 2 /\ r.id[2] = "public"
              /\ k' = 1 => r.id[2] = "public"
    <3>1. PICK q \in rtbs : q.id = r.id BY <2>1, <2>5
    <3>2. q.id[1] \in Nat /\ q.id[1] <= run BY <2>2 DEF Named
    <3>3. ~StartUp
      <4>1. SUFFICES ASSUME StartUp PROVE FALSE OBVIOUS
      <4>2. run' = run + 1 BY <4>1 DEF StartUp
      <4>3. QED BY <1>0, <2>5, <3>1, <3>2, <4>2
    <3>4. CASE CloudStep /\ UNCHANGED proc
      BY <2>5, <3>1, <3>4 DEF proc, Named
    <3>5. CASE UpStep
      <4>1. pc \in UpPoints /\ run' = run
        BY <3>5 DEF UpStep, VpcSkip, VpcCreate, VpcEnableSupport, VpcEnableHostnames, SubnetSkip,
          SubnetCreate, SubnetMapPublicIp, SubnetsSave, IgwEnsure, IgwAttach, IgwSave, EipEnsure,
          NatSkip, NatCreate, NatRejected, NatReady, NatBroken, RtbEnsure, RouteEnsure, AssocEnsure,
          PublicRtbDone, UpDone, Goto, Fail, End, UpPoints
      <4>2. /\ pc \in FromRtb
            /\ pc = "rtb" => k = 2 /\ r.id[2] = "public"
            /\ k = 1 => r.id[2] = "public"
        BY <2>5, <3>1, <4>1 DEF Named
      <4>3. RouteEnsure \/ AssocEnsure \/ PublicRtbDone \/ UpDone
        BY <1>2, <3>5, <4>2 DEF FromRtb, UpStep, VpcSkip, VpcCreate, VpcEnableSupport,
          VpcEnableHostnames, SubnetSkip, SubnetCreate, SubnetMapPublicIp, SubnetsSave, IgwEnsure,
          IgwAttach, IgwSave, EipEnsure, NatSkip, NatCreate, NatRejected, NatReady, NatBroken
      <4>4. CASE RouteEnsure \/ AssocEnsure
        BY <4>2, <4>4 DEF RouteEnsure, AssocEnsure, Goto, FromRtb
      <4>5. CASE PublicRtbDone
        <5>1. k = 1 /\ k' = 2 /\ pc' = "rtb" BY <4>5 DEF PublicRtbDone, Vis, Goto
        <5>2. QED BY <4>2, <5>1 DEF FromRtb
      <4>6. CASE UpDone BY <2>5, <4>6 DEF UpDone, End, UpPoints
      <4>7. QED BY <4>3, <4>4, <4>5, <4>6
    <3>6. QED BY <2>5, <3>3, <3>4, <3>5, UpGoesOn
  <2>6. QED BY <2>1, <2>4, <2>5 DEF Named
<1>3. QED BY <1>1, <1>2

\* What phases 03 to 05 have passed stays there, and state.env names it.
LEMMA BuiltStep == ASSUME IInv, Built, Next PROVE Built'
<1> USE IdFacts, SpecAssumption
<1> USE DEF FromIgw, FromSave, FromNat, FromRtb
<1>0. ProcTypeOK /\ CloudTypeOK /\ mem \in StateEnv BY DEF IInv, TypeOK, ProcTypeOK
<1>1. ASSUME pc' \notin {"subnets", "subnetAttr"} \cup FromIgw PROVE Built'
  BY <1>1 DEF Built
<1>2. CASE pc' \notin UpPoints BY <1>1, <1>2 DEF UpPoints
<1>3. CASE StartUp \/ VpcCreate \/ VpcEnableSupport
  BY <1>1, <1>3 DEF StartUp, VpcCreate, VpcEnableSupport, Goto
<1>4. CASE VpcSkip \/ VpcEnableHostnames
  <2>1. pc' = "subnets" /\ k' = 1
    BY <1>4 DEF VpcSkip, VpcEnableHostnames, Goto, IInv, FirstSubnet
  <2>2. \A c \in Specs : ~(c < 1) BY DEF Specs
  <2>3. QED BY <2>1, <2>2 DEF Built
<1>5. CASE SubnetSkip
  <2>1. PICK x \in SubnetAt(k) : mem' = [mem EXCEPT !.subnet[k] = x.id[1]] BY <1>5 DEF SubnetSkip
  <2>2. k \in Specs /\ pc = "subnets" /\ pc' = "subnets" /\ k' = k + 1 /\ subnets' = subnets
    BY <1>5 DEF SubnetSkip, Goto, cloud
  <2>3. x = [id |-> <<x.id[1], k>>, vpc |-> mem.vpc] /\ x \in subnets
    BY <1>0, <2>1 DEF SubnetAt, CloudTypeOK, Subnet, SubnetId
  <2>4. /\ mem'.vpc = mem.vpc /\ mem'.subnet[k] = x.id[1]
        /\ \A c \in Specs \ {k} : mem'.subnet[c] = mem.subnet[c]
    <3>1. mem'.vpc = mem.vpc BY <1>0, <2>1, <2>2, KeyUpdateValue
    <3>2. mem'.subnet[k] = x.id[1]
      <4>1. mem.subnet \in [Specs -> Ref] BY <1>0 DEF StateEnv
      <4>2. [mem EXCEPT !.subnet[k] = x.id[1]].subnet[k] = x.id[1] BY <1>0, <2>2, <4>1 DEF StateEnv
      <4>3. QED BY <2>1, <4>2
    <3>3. \A c \in Specs \ {k} : mem'.subnet[c] = mem.subnet[c] BY <1>0, <2>1, <2>2, KeyUpdateValue
    <3>4. QED BY <3>1, <3>2, <3>3
  <2>5. ASSUME NEW c \in Specs, c < k' PROVE Held(c)'
    <3>1. CASE c = k BY <2>2, <2>3, <2>4, <3>1 DEF Held
    <3>2. CASE c # k
      <4>1. c < k BY <2>2, <2>5, <3>2 DEF Specs
      <4>2. Held(c) BY <2>2, <4>1 DEF Built
      <4>3. mem'.subnet[c] = mem.subnet[c] BY <2>4, <3>2
      <4>4. QED BY <2>2, <2>4, <4>2, <4>3 DEF Held
    <3>3. QED BY <3>1, <3>2
  <2>6. QED BY <2>2, <2>5 DEF Built
<1>6. CASE SubnetCreate
  <2> DEFINE new == [id |-> <<run, k>>, vpc |-> mem.vpc]
  <2>1. k \in Specs /\ pc = "subnets" /\ subnets' = subnets \cup {new}
        /\ mem' = [mem EXCEPT !.subnet[k] = run]
    BY <1>6 DEF SubnetCreate
  <2>2. \/ pc' = "subnetAttr" /\ k' = k
        \/ pc' = "subnets" /\ k' = k + 1
    <3>1. CASE k \in PublicSpecs BY <1>6, <3>1 DEF SubnetCreate, Goto
    <3>2. CASE k \notin PublicSpecs BY <1>6, <3>2 DEF SubnetCreate, Goto
    <3>3. QED BY <3>1, <3>2
  <2>3. /\ mem'.vpc = mem.vpc /\ mem'.subnet[k] = run
        /\ \A c \in Specs \ {k} : mem'.subnet[c] = mem.subnet[c]
    <3>1. mem'.vpc = mem.vpc BY <1>0, <2>1, KeyUpdateValue
    <3>2. mem'.subnet[k] = run BY <1>0, <2>1, KeyUpdateValue
    <3>3. \A c \in Specs \ {k} : mem'.subnet[c] = mem.subnet[c] BY <1>0, <2>1, KeyUpdateValue
    <3>4. QED BY <3>1, <3>2, <3>3
  <2>4. ASSUME NEW c \in Specs, c <= k PROVE Held(c)'
    <3>1. CASE c = k BY <2>1, <2>3, <3>1 DEF Held
    <3>2. CASE c # k
      <4>1. c < k BY <2>1, <2>4, <3>2 DEF Specs
      <4>2. Held(c) BY <2>1, <4>1 DEF Built
      <4>3. mem'.subnet[c] = mem.subnet[c] BY <2>3, <3>2
      <4>4. QED BY <2>1, <2>3, <4>2, <4>3 DEF Held
    <3>3. QED BY <3>1, <3>2
  <2>5. CASE pc' = "subnetAttr" /\ k' = k BY <2>4, <2>5 DEF Built
  <2>6. CASE pc' = "subnets" /\ k' = k + 1
    <3>1. \A c \in Specs : c < k' => c <= k BY <2>1, <2>6 DEF Specs
    <3>2. QED BY <2>4, <2>6, <3>1 DEF Built
  <2>7. QED BY <2>2, <2>5, <2>6
<1>7. CASE SubnetMapPublicIp
  <2>1. pc = "subnetAttr" /\ pc' = "subnets" /\ k' = k + 1 /\ UNCHANGED <<mem, subnets>>
    BY <1>7 DEF SubnetMapPublicIp, Goto
  <2>2. k \in Nat BY <2>1 DEF IInv, FirstSubnet, PublicSpecs
  <2>3. \A c \in Specs : c < k' => c <= k BY <2>1, <2>2 DEF Specs
  <2>4. QED BY <2>1, <2>3 DEF Built, Held
<1>8. CASE SubnetsSave
  <2>1. pc = "subnets" /\ pc' = "igw" /\ k' = 1 /\ k \notin Specs /\ UNCHANGED <<mem, subnets>>
    BY <1>8 DEF SubnetsSave, Goto, cloud
  <2>2. k \in 1 .. (NPublic + NPrivate + NData + 1) BY <2>1 DEF IInv, FirstSubnet
  <2>3. \A c \in Specs : c < k BY <2>1, <2>2 DEF Specs
  <2>4. QED BY <2>1, <2>3 DEF Built, Held
\* From phase 04 on: what the step finds, and what it leaves.
<1>9. ASSUME pc \in FromIgw, pc' \in FromIgw, mem'.vpc = mem.vpc, mem'.subnet = mem.subnet,
             subnets' = subnets,
             pc' # "igw" => mem'.igw \in Runs,
             pc' \in FromSave => [id |-> mem'.igw, vpc |-> mem.vpc] \in igws',
             pc' \in FromNat => mem'.eip \in eips',
             pc' \in FromRtb => mem'.nat \in Runs /\ k' \in {1, 2},
             pc' \notin FromRtb => k' = 1
      PROVE Built'
  <2>1. \A c \in Specs : Held(c)' BY <1>9 DEF Built, Held
  <2>2. QED BY <1>9, <2>1 DEF Built
<1>10. CASE IgwEnsure
  <2>1. pc = "igw" /\ pc' = "igwAttach" /\ UNCHANGED <<k, subnets>> BY <1>10 DEF IgwEnsure, Goto
  <2>2. PICK i \in Runs : Set("igw", i)
    <3>1. run \in Runs BY <2>1 DEF IInv, InVpc, UpPoints
    <3>2. \A g \in igws : g.id \in Runs BY <1>0 DEF CloudTypeOK, Igw
    <3>3. QED BY <1>10, <3>1, <3>2 DEF IgwEnsure
  <2>3. mem'.vpc = mem.vpc /\ mem'.subnet = mem.subnet /\ mem'.igw \in Runs
    <3>1. mem' = [mem EXCEPT !.igw = i] BY <2>2 DEF Set
    <3>2. mem'.vpc = mem.vpc /\ mem'.subnet = mem.subnet BY <1>0, <3>1, KeyUpdateValue
    <3>3. mem'.igw = i BY <1>0, <3>1, OtherKeysKept
    <3>4. QED BY <3>2, <3>3
  <2>4. k = 1 BY <2>1 DEF Built
  <2>5. QED BY <1>9, <2>1, <2>3, <2>4
<1>11. CASE IgwAttach
  <2>1. pc = "igwAttach" /\ pc' = "igwSave" /\ UNCHANGED <<k, mem, subnets>> BY <1>11 DEF IgwAttach, Goto
  <2>2. k = 1 /\ mem.igw \in Runs BY <2>1 DEF Built
  <2>3. [id |-> mem.igw, vpc |-> mem.vpc] \in igws'
    <3>1. PICK g \in igws : g.id = mem.igw /\ [g EXCEPT !.vpc = mem.vpc] \in igws'
      BY <1>11 DEF IgwAttach
    <3>2. [g EXCEPT !.vpc = mem.vpc] = [id |-> mem.igw, vpc |-> mem.vpc]
      BY <1>0, <3>1 DEF CloudTypeOK, Igw
    <3>3. QED BY <3>1, <3>2
  <2>4. QED BY <1>9, <2>1, <2>2, <2>3
<1>12. CASE IgwSave
  <2>1. pc = "igwSave" /\ pc' = "eip" /\ UNCHANGED <<k, mem, subnets, igws>>
    BY <1>12 DEF IgwSave, Goto, cloud
  <2>2. k = 1 /\ mem.igw \in Runs /\ [id |-> mem.igw, vpc |-> mem.vpc] \in igws BY <2>1 DEF Built
  <2>3. QED BY <1>9, <2>1, <2>2
<1>13. CASE EipEnsure
  <2>1. pc = "eip" /\ pc' = "nat" /\ UNCHANGED <<k, subnets, igws>> BY <1>13 DEF EipEnsure, Goto
  <2>2. PICK i \in eips' : Set("eip", i) BY <1>13 DEF EipEnsure
  <2>3. mem'.vpc = mem.vpc /\ mem'.subnet = mem.subnet /\ mem'.igw = mem.igw /\ mem'.eip = i
    <3>1. mem' = [mem EXCEPT !.eip = i] BY <2>2 DEF Set
    <3>2. mem'.vpc = mem.vpc /\ mem'.subnet = mem.subnet /\ mem'.eip = i BY <1>0, <3>1, KeyUpdateValue
    <3>3. mem'.igw = mem.igw BY <1>0, <3>1, OtherKeysKept
    <3>4. QED BY <3>2, <3>3
  <2>4. k = 1 /\ mem.igw \in Runs /\ [id |-> mem.igw, vpc |-> mem.vpc] \in igws BY <2>1 DEF Built
  <2>5. QED BY <1>9, <2>1, <2>2, <2>3, <2>4
<1>14. CASE NatSkip \/ NatReady
  <2>1. pc \in {"nat", "natWait"} /\ pc' = "rtb" /\ UNCHANGED <<k, subnets, igws, eips>>
    BY <1>14 DEF NatSkip, NatReady, Goto, cloud
  <2>2. PICK i \in Runs : Set("nat", i)
    <3>1. run \in Runs BY <2>1 DEF IInv, InVpc, UpPoints
    <3>2. \A n \in nats : n.id \in Runs BY <1>0 DEF CloudTypeOK, Nat_
    <3>3. QED BY <1>14, <3>1, <3>2 DEF NatSkip, NatReady, Usable
  <2>3. mem'.vpc = mem.vpc /\ mem'.subnet = mem.subnet /\ mem'.igw = mem.igw /\ mem'.eip = mem.eip
        /\ mem'.nat = i
    <3>1. mem' = [mem EXCEPT !.nat = i] BY <2>2 DEF Set
    <3>2. mem'.vpc = mem.vpc BY <1>0, <3>1, KeyUpdateValue
    <3>3. mem'.subnet = mem.subnet /\ mem'.igw = mem.igw /\ mem'.eip = mem.eip /\ mem'.nat = i
      BY <1>0, <3>1, OtherKeysKept
    <3>4. QED BY <3>2, <3>3
  <2>4. /\ k = 1 /\ mem.igw \in Runs /\ [id |-> mem.igw, vpc |-> mem.vpc] \in igws
        /\ mem.eip \in eips
    BY <2>1 DEF Built
  <2>5. QED BY <1>9, <2>1, <2>2, <2>3, <2>4
<1>15. CASE NatCreate
  <2>1. pc = "nat" /\ pc' = "natWait" /\ UNCHANGED <<k, mem, subnets, igws, eips>>
    BY <1>15 DEF NatCreate, Goto
  <2>2. /\ k = 1 /\ mem.igw \in Runs /\ [id |-> mem.igw, vpc |-> mem.vpc] \in igws
        /\ mem.eip \in eips
    BY <2>1 DEF Built
  <2>3. QED BY <1>9, <2>1, <2>2
<1>16. CASE RtbEnsure \/ RouteEnsure \/ AssocEnsure \/ PublicRtbDone
  <2>1. /\ pc \in FromRtb /\ pc' \in FromRtb /\ k' \in {k, 2} /\ UNCHANGED <<subnets, igws, eips>>
    BY <1>16 DEF RtbEnsure, RouteEnsure, AssocEnsure, PublicRtbDone, Goto, cloud
  <2>2. /\ mem'.vpc = mem.vpc /\ mem'.subnet = mem.subnet /\ mem'.igw = mem.igw
        /\ mem'.eip = mem.eip /\ mem'.nat = mem.nat
    <3>1. CASE RtbEnsure
      <4> DEFINE Put(i) == [mem EXCEPT !.rtb[Vis] = i]
      <4>1. \A i : /\ Put(i).vpc = mem.vpc /\ Put(i).subnet = mem.subnet /\ Put(i).igw = mem.igw
                   /\ Put(i).eip = mem.eip /\ Put(i).nat = mem.nat
        BY <1>0, KeyUpdateValue, OtherKeysKept
      <4>2. \E i : mem' = Put(i) BY <3>1 DEF RtbEnsure
      <4> HIDE DEF Put
      <4>3. QED BY <4>1, <4>2
    <3>2. CASE RouteEnsure \/ AssocEnsure \/ PublicRtbDone
      <4>1. mem' = mem BY <3>2 DEF RouteEnsure, AssocEnsure, PublicRtbDone
      <4>2. QED BY <4>1
    <3>3. QED BY <1>16, <3>1, <3>2
  <2>3. /\ mem.igw \in Runs /\ [id |-> mem.igw, vpc |-> mem.vpc] \in igws
        /\ mem.eip \in eips /\ mem.nat \in Runs /\ k \in {1, 2}
    BY <2>1 DEF Built
  <2>4. QED BY <1>9, <2>1, <2>2, <2>3
<1>17. CASE NatRejected \/ NatBroken \/ UpDone
  <2>1. pc' = "idle" BY <1>17 DEF NatRejected, NatBroken, UpDone, Fail, End
  <2>2. QED BY <1>1, <2>1
<1>18. CASE CloudStep /\ UNCHANGED proc
  <2>1. UNCHANGED <<subnets, igws, eips>>
    BY <1>18 DEF CloudStep, NatSettles, NatDeleted, NatDetaches, NatForgotten, OnlyNats, StrayAppears
  <2>2. UNCHANGED <<mem, pc, k>> BY <1>18 DEF proc
  <2>3. QED BY <2>1, <2>2 DEF Built, Held
<1>19. QED
  BY <1>2, <1>3, <1>4, <1>5, <1>6, <1>7, <1>8, <1>10, <1>11, <1>12, <1>13, <1>14, <1>15, <1>16,
     <1>17, <1>18, UpGoesOn DEF UpStep

\* The subnets phase 06 gives a table are all of its kind, once phase 03 holds them.
LEMMA TableSubnetsAll == ASSUME CloudTypeOK, \A c \in Specs : Held(c)
  PROVE \A c \in Specs : (c \in PublicSpecs) = (Vis = "public") => <<mem.subnet[c], c>> \in TableSubnets
<1> USE IdFacts, SpecAssumption
<1>1. \A c \in Specs : mem.subnet[c] # None
  <2>1. SUFFICES ASSUME NEW c \in Specs PROVE mem.subnet[c] # None OBVIOUS
  <2>2. [id |-> <<mem.subnet[c], c>>, vpc |-> mem.vpc] \in Subnet BY DEF Held, CloudTypeOK
  <2>3. <<mem.subnet[c], c>> \in SubnetId BY <2>2 DEF Subnet
  <2>4. QED BY <2>3 DEF SubnetId
<1>2. ASSUME NEW c \in Specs, c \notin PublicSpecs PROVE c \in PrivateSpecs \cup DataSpecs
  BY <1>2 DEF Specs, PublicSpecs, PrivateSpecs, DataSpecs
<1>3. CASE Vis = "public" BY <1>1, <1>3 DEF TableSubnets, MemSubnets
<1>4. CASE Vis # "public" BY <1>1, <1>2, <1>4 DEF TableSubnets, MemSubnets
<1>5. QED BY <1>3, <1>4

\* Phase 06 works on the tables of the VPC of state.env, and completes the public one
\* before the private one.
LEMMA RoutedStep == ASSUME IInv, Built, Named, Routed, Next PROVE Routed'
<1> USE IdFacts
<1>0. ProcTypeOK /\ CloudTypeOK /\ Distinct /\ mem \in StateEnv
  BY DEF IInv, TypeOK, ProcTypeOK, Named
<1>1. ASSUME pc' \notin FromRtb PROVE Routed' BY <1>1 DEF Routed, FromRtb
<1>2. CASE NatSkip \/ NatReady
  <2>1. pc' = "rtb" /\ k' = k /\ k = 1
    BY <1>2 DEF NatSkip, NatReady, Goto, Built, FromIgw, FromRtb
  <2>2. QED BY <2>1 DEF Routed
<1>3. CASE RtbEnsure
  <2> DEFINE new == [id |-> <<run, Vis>>, vpc |-> mem.vpc, route |-> None, assoc |-> {}]
  <2> DEFINE Put(i) == [mem EXCEPT !.rtb[Vis] = i]
  <2>1. pc = "rtb" /\ pc' = "route" /\ k' = k BY <1>3 DEF RtbEnsure, Goto
  <2>2. Vis' = Vis /\ Vis \in Visibility BY <2>1 DEF Vis, Visibility
  <2>3. \A i : /\ Put(i).vpc = mem.vpc /\ Put(i).subnet = mem.subnet /\ Put(i).rtb[Vis] = i
               /\ \A w \in Visibility \ {Vis} : Put(i).rtb[w] = mem.rtb[w]
    <3>1. \A i : Put(i).vpc = mem.vpc BY <1>0, KeyUpdateValue
    <3>2. \A i : Put(i).subnet = mem.subnet BY <1>0, OtherKeysKept
    <3>3. \A i : Put(i).rtb[Vis] = i BY <1>0, <2>2, OtherKeysKept
    <3>4. \A i : \A w \in Visibility \ {Vis} : Put(i).rtb[w] = mem.rtb[w] BY <1>0, <2>2, OtherKeysKept
    <3>5. QED BY <3>1, <3>2, <3>3, <3>4
  <2>4. \/ rtbs' = rtbs /\ \E r \in TablesOf(mem.vpc) : r.id[2] = Vis /\ mem' = Put(r.id[1])
        \/ rtbs' = rtbs \cup {new} /\ mem' = Put(run)
    BY <1>3 DEF RtbEnsure
  <2>5. new.id = <<run, Vis>> /\ new.vpc = mem.vpc OBVIOUS
  <2>6. \A r \in rtbs : r.id = <<r.id[1], r.id[2]>> BY <1>0 DEF CloudTypeOK, Rtb, RtbId
  <2> HIDE DEF Put, new
  <2>7. PICK i : mem' = Put(i) BY <2>4
  <2>8. \E r \in TablesOf(mem.vpc)' : r.id = <<mem'.rtb[Vis], Vis>>
    <3>1. CASE rtbs' = rtbs /\ \E r \in TablesOf(mem.vpc) : r.id[2] = Vis /\ mem' = Put(r.id[1])
      <4>1. PICK r \in TablesOf(mem.vpc) : r.id[2] = Vis /\ mem' = Put(r.id[1]) BY <3>1
      <4>2. mem'.vpc = mem.vpc /\ mem'.rtb[Vis] = r.id[1] BY <2>3, <4>1
      <4>3. r.id = <<mem'.rtb[Vis], Vis>> BY <2>6, <4>1, <4>2 DEF TablesOf
      <4>4. QED BY <3>1, <4>1, <4>2, <4>3 DEF TablesOf
    <3>2. CASE rtbs' = rtbs \cup {new} /\ mem' = Put(run)
      <4>1. mem'.vpc = mem.vpc /\ mem'.rtb[Vis] = run BY <2>3, <3>2
      <4>2. QED BY <2>5, <3>2, <4>1 DEF TablesOf
    <3>3. QED BY <2>4, <3>1, <3>2
  <2>9. k' = 2 => Full("public")'
    <3>1. SUFFICES ASSUME k = 2 PROVE Full("public")' BY <2>1
    <3>2. Full("public") BY <2>1, <3>1 DEF Routed, FromRtb
    <3>3. Vis # "public" BY <3>1 DEF Vis
    <3>4. mem'.vpc = mem.vpc /\ mem'.subnet = mem.subnet /\ mem'.rtb["public"] = mem.rtb["public"]
      BY <2>3, <2>7, <3>3 DEF Visibility
    <3>5. rtbs \subseteq rtbs' BY <2>4
    <3>6. QED BY <3>2, <3>4, <3>5 DEF Full, TablesOf
  <2>10. QED BY <2>1, <2>2, <2>8, <2>9 DEF Routed
\* A step on the table at hand keeps the tables, and with them the public one.
<1>4. ASSUME NEW r \in rtbs, NEW p, r.id = <<mem.rtb[Vis], Vis>>, p.id = r.id, p.vpc = r.vpc,
             r.assoc \subseteq p.assoc, r.route # None => p.route # None, p.route # None,
             rtbs' = (rtbs \ {r}) \cup {p}, UNCHANGED <<mem, k>>,
             pc \in {"route", "assoc"}, pc' = "assoc", TableSubnets \subseteq p.assoc \cup todo'
      PROVE Routed'
  <2>1. PICK q \in TablesOf(mem.vpc) : q.id = <<mem.rtb[Vis], Vis>> BY <1>4 DEF Routed
  <2>2. q = r BY <1>0, <1>4, <2>1 DEF Distinct, TablesOf
  <2>3. Vis' = Vis /\ TableSubnets' = TableSubnets BY <1>4 DEF Vis, TableSubnets, MemSubnets
  <2>4. p \in TablesOf(mem.vpc)' BY <1>4, <2>1, <2>2 DEF TablesOf
  <2>5. \A t \in rtbs' : t.id = p.id => t = p BY <1>0, <1>4 DEF Distinct
  <2>6. k = 2 => Full("public")'
    <3>1. SUFFICES ASSUME k = 2 PROVE Full("public")' OBVIOUS
    <3>2. Full("public") BY <1>4, <3>1 DEF Routed, FromRtb
    <3>3. PICK t \in TablesOf(mem.vpc) :
            /\ t.id = <<mem.rtb["public"], "public">> /\ t.route # None
            /\ \A c \in Specs : (c \in PublicSpecs) = ("public" = "public")
                                  => <<mem.subnet[c], c>> \in t.assoc
      BY <3>2 DEF Full
    <3>4. Vis # "public" BY <3>1 DEF Vis
    <3>5. t # r BY <1>4, <3>3, <3>4
    <3>6. t \in TablesOf(mem.vpc)' BY <1>4, <3>3, <3>5 DEF TablesOf
    <3>7. QED BY <1>4, <3>3, <3>6 DEF Full
  <2>7. QED BY <1>4, <2>3, <2>4, <2>5, <2>6 DEF Routed
<1>5. CASE RouteEnsure
  <2> DEFINE Put(r) == [r EXCEPT !.route = IF Vis = "public" THEN mem.igw ELSE mem.nat]
  <2>1. pc = "route" /\ pc' = "assoc" /\ todo' = TableSubnets /\ UNCHANGED <<mem, k>>
    BY <1>5 DEF RouteEnsure, Goto
  <2>2. mem.igw \in Runs /\ mem.nat \in Runs BY <2>1 DEF Built, FromSave, FromIgw, FromRtb
  <2>3. \A r \in rtbs : /\ Put(r).id = r.id /\ Put(r).vpc = r.vpc /\ Put(r).assoc = r.assoc
                        /\ Put(r).route # None
    BY <1>0, <2>2 DEF CloudTypeOK, Rtb
  <2>4. PICK r \in rtbs : /\ r.id = <<mem.rtb[Vis], Vis>>
                          /\ rtbs' = IF r.route # None THEN rtbs ELSE (rtbs \ {r}) \cup {Put(r)}
    BY <1>5 DEF RouteEnsure
  <2> HIDE DEF Put
  <2>5. CASE r.route # None
    <3>1. rtbs' = (rtbs \ {r}) \cup {r} BY <2>4, <2>5
    <3>2. QED BY <1>4, <2>1, <2>4, <2>5, <3>1
  <2>6. CASE r.route = None
    <3>1. rtbs' = (rtbs \ {r}) \cup {Put(r)} BY <2>4, <2>6
    <3>2. QED BY <1>4, <2>1, <2>3, <2>4, <3>1
  <2>7. QED BY <2>5, <2>6
<1>6. CASE AssocEnsure
  <2> DEFINE Put(r, s) == [r EXCEPT !.assoc = @ \cup {s}]
  <2>1. pc = "assoc" /\ pc' = "assoc" /\ UNCHANGED <<mem, k>> BY <1>6 DEF AssocEnsure, Goto
  <2>2. \A r \in rtbs, s \in todo : /\ Put(r, s).id = r.id /\ Put(r, s).vpc = r.vpc
                                    /\ Put(r, s).assoc = r.assoc \cup {s} /\ Put(r, s).route = r.route
    BY <1>0 DEF CloudTypeOK, Rtb
  <2>3. PICK s \in todo, r \in rtbs : /\ r.id = <<mem.rtb[Vis], Vis>>
                                      /\ rtbs' = (rtbs \ {r}) \cup {Put(r, s)}
                                      /\ todo' = todo \ {s}
    BY <1>6 DEF AssocEnsure
  <2> HIDE DEF Put
  <2>4. r.route # None /\ TableSubnets \subseteq r.assoc \cup todo BY <2>1, <2>3 DEF Routed
  <2>5. TableSubnets \subseteq Put(r, s).assoc \cup todo' BY <2>2, <2>3, <2>4
  <2>6. Put(r, s).id = r.id /\ Put(r, s).vpc = r.vpc /\ r.assoc \subseteq Put(r, s).assoc
        /\ Put(r, s).route # None
    BY <2>2, <2>3, <2>4
  <2>7. QED BY <1>4, <2>1, <2>3, <2>5, <2>6
<1>7. CASE PublicRtbDone
  <2>1. /\ pc = "assoc" /\ pc' = "rtb" /\ k' = 2 /\ todo = {} /\ Vis = "public"
        /\ UNCHANGED <<mem, rtbs>>
    BY <1>7 DEF PublicRtbDone, Goto, cloud
  <2>2. \A c \in Specs : Held(c) BY <2>1 DEF Built, FromIgw
  <2>3. \A c \in Specs : c \in PublicSpecs => <<mem.subnet[c], c>> \in TableSubnets
    BY <1>0, <2>1, <2>2, TableSubnetsAll
  <2>4. PICK r \in TablesOf(mem.vpc) : r.id = <<mem.rtb["public"], "public">>
    BY <2>1 DEF Routed
  <2>5. r.route # None /\ TableSubnets \subseteq r.assoc BY <2>1, <2>4 DEF Routed, TablesOf
  <2>6. Full("public") BY <2>3, <2>4, <2>5 DEF Full
  <2>7. Full("public")' BY <2>1, <2>6 DEF Full, TablesOf
  <2>8. QED BY <2>1, <2>7 DEF Routed
<1>8. CASE CloudStep /\ UNCHANGED proc
  <2>1. rtbs' = rtbs
    BY <1>8 DEF CloudStep, NatSettles, NatDeleted, NatDetaches, NatForgotten, OnlyNats, StrayAppears
  <2>2. UNCHANGED <<mem, pc, k, todo>> BY <1>8 DEF proc
  <2>3. QED BY <2>1, <2>2 DEF Routed, Full, TablesOf, Vis, TableSubnets, MemSubnets
<1>9. CASE StartUp \/ VpcSkip \/ VpcCreate \/ VpcEnableSupport \/ VpcEnableHostnames \/ SubnetSkip
        \/ SubnetCreate \/ SubnetMapPublicIp \/ SubnetsSave \/ IgwEnsure \/ IgwAttach \/ IgwSave
        \/ EipEnsure \/ NatCreate \/ NatRejected \/ NatBroken \/ UpDone
  BY <1>1, <1>9 DEF StartUp, VpcSkip, VpcCreate, VpcEnableSupport, VpcEnableHostnames, SubnetSkip,
        SubnetCreate, SubnetMapPublicIp, SubnetsSave, IgwEnsure, IgwAttach, IgwSave,
        EipEnsure, NatCreate, NatRejected, NatBroken, UpDone, Goto, Fail, End, FromRtb
<1>10. CASE pc' \notin UpPoints BY <1>1, <1>10 DEF FromRtb, UpPoints
<1>11. QED
  BY <1>2, <1>3, <1>5, <1>6, <1>7, <1>8, <1>9, <1>10, UpGoesOn DEF UpStep

\* What `up` has built when it reports success stays until the next command starts.
LEMMA UpBuildsStep == ASSUME IInv, Building, UpBuilds, Next PROVE UpBuilds'
<1> USE IdFacts
<1>0. CloudTypeOK /\ Clean /\ InVpc BY DEF IInv, TypeOK
<1>1. CASE UpDone
  <2>1. pc = "assoc" /\ todo = {} /\ Vis = "private" /\ disk' = mem /\ UNCHANGED cloud
    BY <1>1 DEF UpDone
  <2>2. Built /\ Routed BY DEF Building
  <2>3. /\ \A c \in Specs : Held(c)
        /\ [id |-> mem.igw, vpc |-> mem.vpc] \in igws /\ mem.eip \in eips
        /\ k \in {1, 2}
    BY <2>1, <2>2 DEF Built, FromIgw, FromSave, FromNat, FromRtb
  <2>4. k = 2 BY <2>1, <2>3 DEF Vis
  <2>5. Full("public") BY <2>1, <2>2, <2>4 DEF Routed, FromRtb
  <2>6. Full("private")
    <3>1. \A c \in Specs : c \notin PublicSpecs => <<mem.subnet[c], c>> \in TableSubnets
      BY <1>0, <2>1, <2>3, TableSubnetsAll
    <3>2. PICK r \in TablesOf(mem.vpc) : r.id = <<mem.rtb["private"], "private">>
      BY <2>1, <2>2 DEF Routed
    <3>3. r.route # None /\ TableSubnets \subseteq r.assoc BY <2>1, <2>2, <3>2 DEF Routed, TablesOf
    <3>4. QED BY <3>1, <3>2, <3>3 DEF Full
  <2>7. mem.vpc \in vpcs BY <1>0, <2>1 DEF InVpc, UpPoints
  <2>8. \A v \in Visibility : Full(v) BY <2>5, <2>6 DEF Visibility
  <2>9. QED BY <2>1, <2>3, <2>7, <2>8 DEF UpBuilds, Full, Held, TablesOf, cloud
<1>2. CASE CloudStep /\ UNCHANGED proc
  <2>1. UNCHANGED <<vpcs, subnets, igws, eips, rtbs>>
    BY <1>2 DEF CloudStep, NatSettles, NatDeleted, NatDetaches, NatForgotten, OnlyNats, StrayAppears
  <2>2. UNCHANGED <<disk, done>> BY <1>2 DEF proc
  <2>3. QED BY <2>1, <2>2 DEF UpBuilds, TablesOf
<1>3. ASSUME done' # "up" PROVE UpBuilds' BY <1>3 DEF UpBuilds
<1>4. CASE StartUp \/ StartDown \/ Abort BY <1>3, <1>4 DEF StartUp, StartDown, Abort, End
<1>5. CASE (UpStep /\ ~UpDone) \/ DownStep
  <2>1. pc # "idle"
    BY <1>5, DownGoesOn DEF UpStep, VpcSkip, VpcCreate, VpcEnableSupport, VpcEnableHostnames,
      SubnetSkip, SubnetCreate, SubnetMapPublicIp, SubnetsSave, IgwEnsure, IgwAttach, IgwSave,
      EipEnsure, NatSkip, NatCreate, NatRejected, NatReady, NatBroken, RtbEnsure, RouteEnsure,
      AssocEnsure, PublicRtbDone
  <2>2. done = "none" BY <1>0, <2>1 DEF Clean
  <2>3. CASE UpStep /\ ~UpDone
    <3>1. done' = done \/ done' = "none"
      BY <2>3 DEF UpStep, VpcSkip, VpcCreate, VpcEnableSupport, VpcEnableHostnames, SubnetSkip,
        SubnetCreate, SubnetMapPublicIp, SubnetsSave, IgwEnsure, IgwAttach, IgwSave, EipEnsure,
        NatSkip, NatCreate, NatRejected, NatReady, NatBroken, RtbEnsure, RouteEnsure, AssocEnsure,
        PublicRtbDone, Goto, Fail, End
    <3>2. QED BY <1>3, <2>2, <3>1
  <2>4. CASE DownStep
    <3>1. done' = done \/ done' \in {"none", "down"}
      BY <2>4 DEF DownStep, Hydrate, RtbCollect, RtbDisassociate, RtbDelete, RtbsSave,
        NatDelete, NatGone, EipRelease, EipStuck, EipSave, IgwFind, IgwDetach, IgwSweep, IgwDefer,
        IgwDelete, IgwCleared, DataSubnetDelete, SubnetCollect, SubnetDelete, SubnetSweep,
        SubnetRefused, SubnetsCleared, VpcCollect, VpcAlreadyGone, VpcSweep, VpcDelete, VpcRefused,
        DownDone, Goto, End, Fail
    <3>2. QED BY <1>3, <2>2, <3>1
  <2>5. QED BY <1>5, <2>3, <2>4
<1>6. QED BY <1>1, <1>2, <1>4, <1>5 DEF Next

\* runUp that returns nil has written a state.env that names one live network: every
\* subnet of the intent in its VPC, the gateway attached, and both route tables with a
\* default route and all their subnets, however many ups and downs were broken off before.
THEOREM SuccessfulUpBuilds == Spec => []UpBuilds
<1>1. Init => Building /\ UpBuilds
  <2>1. SUFFICES ASSUME Init PROVE Building /\ UpBuilds OBVIOUS
  <2>2. Built /\ Routed
    BY <2>1 DEF Init, Built, Routed, FromIgw, FromSave, FromNat, FromRtb
  <2>3. Named BY <2>1 DEF Init, CloudInit, Named, Distinct
  <2>4. UpBuilds BY <2>1 DEF Init, UpBuilds
  <2>5. QED BY <2>2, <2>3, <2>4 DEF Building
<1>2. IInv /\ Building /\ UpBuilds /\ [Next]_vars => (Building /\ UpBuilds)'
  <2>1. IInv /\ Building /\ UpBuilds /\ Next => (Building /\ UpBuilds)'
    BY BuiltStep, NamedStep, RoutedStep, UpBuildsStep DEF Building
  <2>2. Building /\ UpBuilds /\ UNCHANGED vars => (Building /\ UpBuilds)'
    <3>1. SUFFICES ASSUME Building, UpBuilds, UNCHANGED vars PROVE (Building /\ UpBuilds)'
      OBVIOUS
    <3>2. Built' BY <3>1 DEF vars, cloud, proc, Building, Built, Held
    <3>3. Named' BY <3>1 DEF vars, cloud, proc, Building, Named, Distinct
    <3>4. Routed'
      BY <3>1 DEF vars, cloud, proc, Building, Routed, Full, TablesOf, Vis, TableSubnets, MemSubnets
    <3>5. UpBuilds' BY <3>1 DEF vars, cloud, proc, UpBuilds, TablesOf
    <3>6. QED BY <3>2, <3>3, <3>4, <3>5 DEF Building
  <2>3. QED BY <2>1, <2>2
<1>3. QED BY <1>1, <1>2, InductiveInvariant, PTL DEF Spec
=============================================================================
