-------------------------------- MODULE Resync --------------------------------
(***************************************************************************)
(* `bnk resync` (pkg/bnk): the cne-controller fills a pool when its         *)
(* HTTPRoute changes, not when the endpoints of its Service do.  A resync   *)
(* therefore patches each backend weight of a route to one more and, a      *)
(* second later, back.  Commands and the watch run it against the same      *)
(* routes; the JSON patches test what they replace.                         *)
(***************************************************************************)
EXTENDS TrialCatalogue, TLC

CONSTANTS Watched,    \* the trials whose route the watch is told to guard
          MaxFaults   \* bound: calls that fail, commands that are killed

ASSUME ResyncAssumption == Watched \subseteq Names /\ MaxFaults \in Nat

VARIABLES
  weight,  \* of each trial's route, if it is there, the weight of its backends; 0 for no such field
  stale,   \* trials whose pool misses an endpoint
  spoilt,  \* trials whose route a resync left changed, and said so
  rs,      \* of each actor, the route it is resyncing
  faults

Actors == {"command", "watch"}

\* The weight the manifests declare, 0 for none.
Declared(t) == Find(t, DefaultVIP).declares

None == "none"
NoRoute == [there |-> FALSE, w |-> 0]
Fresh(t) == [there |-> TRUE, w |-> Declared(t)]
Idle == [at |-> "off", route |-> None, orig |-> 0, err |-> FALSE]

ResyncTypeOK ==
  /\ weight \in [Names -> [there : BOOLEAN, w : Nat]]
  /\ stale \subseteq Names /\ spoilt \subseteq Names /\ faults \in 0 .. MaxFaults
  /\ rs \in [Actors -> [at : {"off", "listed", "wait"}, route : Names \cup {None},
                        orig : Nat, err : BOOLEAN]]

ResyncInit ==
  /\ weight = [t \in Names |-> NoRoute] /\ stale = {} /\ spoilt = {} /\ faults = 0
  /\ rs = [a \in Actors |-> Idle]

Fault == faults < MaxFaults /\ faults' = faults + 1
NoFault == UNCHANGED faults

\* The weight a resync sets: a field that is absent means 1.
Bumped(orig) == IF orig = 0 THEN 2 ELSE orig + 1

\* A patch that changes the route: the controller reconciles it and fills the pool.
Patched(t, w) == weight' = [weight EXCEPT ![t].w = w] /\ stale' = stale \ {t}

\* The routes are read; without any there is nothing to do.
CollectWeights(a, t) ==
  /\ rs[a].at = "off" /\ NoFault /\ UNCHANGED <<weight, stale, spoilt>>
  /\ rs' = [rs EXCEPT ![a] =
       IF weight[t].there THEN [at |-> "listed", route |-> t, orig |-> weight[t].w, err |-> FALSE]
       ELSE Idle]

Leaves(a, error) == rs' = [rs EXCEPT ![a] = [Idle EXCEPT !.err = error]]

\* A field that was there must still have the value read; one that was absent is added
\* whatever is there now.
ForwardApplies(a) ==
  LET t == rs[a].route IN
  weight[t].there /\ (rs[a].orig # 0 => weight[t].w = rs[a].orig)
Forward(a) ==
  /\ rs[a].at = "listed" /\ ForwardApplies(a) /\ Patched(rs[a].route, Bumped(rs[a].orig))
  /\ rs' = [rs EXCEPT ![a].at = "wait"] /\ NoFault /\ UNCHANGED spoilt
ForwardFails(a) ==
  /\ rs[a].at = "listed" /\ (IF ForwardApplies(a) THEN Fault ELSE NoFault)
  /\ Leaves(a, TRUE) /\ UNCHANGED <<weight, stale, spoilt>>

\* Mutant: the restore does not test that the weight is its own.
RestoreAppliesBug(a) == weight[rs[a].route].there
RestoreApplies(a) ==
  LET t == rs[a].route IN weight[t].there /\ weight[t].w = Bumped(rs[a].orig)
Restore(a) ==
  /\ rs[a].at = "wait" /\ RestoreApplies(a) /\ Patched(rs[a].route, rs[a].orig)
  /\ Leaves(a, FALSE) /\ NoFault /\ UNCHANGED spoilt

\* The error says that the weights may be left changed.
RestoreFails(a) ==
  /\ rs[a].at = "wait" /\ (IF RestoreApplies(a) THEN Fault ELSE NoFault)
  /\ Leaves(a, TRUE) /\ spoilt' = spoilt \cup {rs[a].route} /\ UNCHANGED <<weight, stale>>

ToggleWeights(a) == Forward(a) \/ ForwardFails(a) \/ Restore(a) \/ RestoreFails(a)

\* The process ends, also between the two patches.
Interrupt(a) ==
  /\ rs' = [rs EXCEPT ![a] = Idle]
  /\ spoilt' = IF rs[a].at = "wait" THEN spoilt \cup {rs[a].route} ELSE spoilt
  /\ UNCHANGED <<weight, stale>>
=============================================================================
