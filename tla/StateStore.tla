----------------------------- MODULE StateStore -----------------------------
(***************************************************************************)
(* What package state promises to the phases: one map per cluster that a    *)
(* command loads into memory, edits there, and puts back in one step.       *)
(***************************************************************************)
CONSTANTS Procs,     \* commands that may run on the cluster
          Keys,      \* keys of state.env
          Values,    \* values other than "", which stands for a missing key
          None

Map == [Keys -> Values \cup {None}]
EmptyMap == [key \in Keys |-> None]

VARIABLES stored,    \* what Load returns
          mem,       \* the data of each command's State
          full       \* the disk refused a write: no promise is left

storeVars == <<stored, mem, full>>

Init == stored = EmptyMap /\ mem = [p \in Procs |-> EmptyMap] /\ full = FALSE

Load(p) == mem' = [mem EXCEPT ![p] = stored] /\ UNCHANGED <<stored, full>>

Edit(p) ==
  /\ \E key \in Keys, val \in Values \cup {None} : mem' = [mem EXCEPT ![p][key] = val]
  /\ UNCHANGED <<stored, full>>

Commit(p) == stored' = mem[p] /\ UNCHANGED <<mem, full>>

Forget(p) == mem' = [mem EXCEPT ![p] = EmptyMap] /\ UNCHANGED <<stored, full>>

Fill == full' = TRUE /\ UNCHANGED <<stored, mem>>
Lose == full /\ stored' \in Map /\ UNCHANGED <<mem, full>>

Next ==
  \/ \E p \in Procs : Load(p) \/ Edit(p) \/ Commit(p) \/ Forget(p)
  \/ Fill \/ Lose

Spec == Init /\ [][Next]_storeVars
=============================================================================
