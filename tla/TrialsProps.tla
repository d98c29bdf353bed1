------------------------------ MODULE TrialsProps ------------------------------
(***************************************************************************)
(* What the trials and the resyncs promise.                                 *)
(***************************************************************************)
EXTENDS Trials

\* A run of all scenarios or all demos that begins on a clean cluster and is not
\* interfered with finds no trial failing: the trials that an earlier one leaves
\* applied do not disturb those after it, neither by an address nor by rolling TMM.
AllGreen == calm => cmd.exit # "failed" /\ cmd.marks # "bad"

\* Whatever runs and cleans were cut off or failed before, a Cleanup that comes to its end
\* without a warning leaves its namespace gone or going, and outside of it nothing but what
\* it is known to keep.
CleanLeaves ==
  cmd.op = "clean" /\ cmd.steps = <<>> /\ ~cmd.warned =>
    /\ ns[t0] # "active"
    /\ things[t0] \cap Now.outside \subseteq Now.keeps

\* A route that no resync is working on has the weight its manifests declare,
\* unless a resync was cut short or said that it could not restore it: commands and
\* the watch may patch the same route at the same time.
ResyncKeeps ==
  \A t \in Names :
    weight[t].there /\ t \notin spoilt /\ (\A a \in Actors : rs[a].route # t)
      => weight[t].w = Declared(t)

\* The timers of the watch fire, its resyncs go on, and the API delivers its events;
\* the window of two seconds ends before some refresh.
FairSpec ==
  /\ Spec /\ WF_vars(WatchStep) /\ SF_vars(Debounced /\ UNCHANGED scope)
  /\ WF_vars(Reestablish /\ UNCHANGED scope) /\ WF_vars(CommandToggles /\ UNCHANGED scope)
  /\ \A t \in Watched : SF_vars(Event(t) /\ UNCHANGED scope)

\* A watched route whose pool misses an endpoint is refilled while the watch runs:
\* also when the route was made after the watch began, the event came during a
\* resync, the stream broke, or a patch failed.
WatchHeals == \A t \in Watched : (t \in stale /\ watch.on) ~> (t \notin stale \/ ~watch.on)
=============================================================================
