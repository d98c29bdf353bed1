----------------------------- MODULE AgentProof -----------------------------
(***************************************************************************)
(* TLAPS proofs about the benchmark agent worker, for any number of runs,   *)
(* sessions, faults and tokens.                                             *)
(*                                                                          *)
(* Three arguments share one inductive invariant.  Refusals: what the Run   *)
(* loop has been told of is tied to where its token came from.  Runs: an id *)
(* belongs to one dispatch, so the entry of cancelMap is that dispatch's    *)
(* until its own EndRun.  Sessions: an open socket is the last one dialed,  *)
(* nothing has failed on it, and w.conn is that socket, so a write fails    *)
(* only when it has gone.                                                   *)
(***************************************************************************)
EXTENDS AgentWorker, TLAPS

\* The parts of TypeOK that steps touch one at a time.
LoopType ==
  /\ wpc \in {"login", "register", "acquire", "connect", "serve", "closing", "auth",
              "backoff", "ended"}
  /\ ctxDone \in BOOLEAN
  /\ token \in [source : {"none", "configured", "cached", "minted"}, gen : Gen]
  /\ cache \in Gen /\ minted \in Gen /\ refused \subseteq Gen /\ seen \in 0 .. 3
  /\ faults \in 0 .. MaxFaults
LinkType ==
  /\ session \in 0 .. MaxFaults + 1 /\ conn \in {0, session}
  /\ conn # 0 => wpc = "serve"
  /\ net \in [Sessions -> {"none", "open", "broken", "refused", "closed"}]
SenderType ==
  /\ hb \in [Sessions -> {"none", "running", "sending", "done"}]
  /\ recv \in [Sessions -> {"none", "running", "sending", "done"}]
  /\ hbErr \in [Sessions -> BOOLEAN] /\ recvErr \in [Sessions -> BOOLEAN]
RunType ==
  /\ run \in [Dispatches -> [id : RunIds \cup {0}, on : 0 .. session,
                st : {"none", "start", "exec", "report", "clean", "done", "killed"},
                canceled : BOOLEAN, told : {"no", "yes", "lost"}]]
  /\ cancelMap \in [RunIds -> Dispatches \cup {0}]
LockType == lock \in {Unlocked} \cup ({"hb"} \X Sessions) \cup ({"run"} \X Dispatches)

\* Refusals: Run is in "auth" only when told, has not been told before it has a
\* token, and tries a token of the cache first.
Told ==
  /\ wpc \in {"login", "register", "acquire"} => seen = 0
  /\ wpc = "auth" => seen > 0
  /\ token.source = "cached" => seen <= 1 /\ (wpc \notin {"auth", "ended"} => seen = 0)

\* A session that was not opened yet has no socket and no goroutine.
Fresh ==
  \A s \in Sessions : s > session =>
    net[s] = "none" /\ hb[s] = "none" /\ recv[s] = "none" /\ ~hbErr[s] /\ ~recvErr[s]

\* An open socket is served: it is w.conn, and nobody has an error to report of it.
Served ==
  \A s \in Sessions : net[s] = "open" /\ ~ctxDone =>
    /\ wpc = "serve" /\ session = s /\ conn = s
    /\ hb[s] = "running" /\ ~hbErr[s] /\ recv[s] = "running" /\ ~recvErr[s]

\* A dispatch that began has an id of Forge's and a session, one that did not has neither.
Begun ==
  \A d \in Dispatches :
    IF run[d].st = "none" THEN run[d].id = 0 /\ run[d].told = "no"
                          ELSE run[d].id \in RunIds /\ run[d].on \in Sessions
Alone ==
  \A d, e \in Dispatches : run[d].id = run[e].id /\ run[d].st # "none" => d = e

\* The entry of a run stays until the goroutine of the run removes it.
Entered ==
  \A d \in Dispatches :
    run[d].st \in {"start", "exec", "report", "clean"} => cancelMap[run[d].id] = d

\* A write that stalls holds w.mu: the report of a run, the heartbeat of a session.
Held ==
  /\ \A d \in Dispatches : lock = <<"run", d>> => run[d].st = "report"
  /\ \A s \in Sessions : lock = <<"hb", s>> => s <= session

IInv ==
  /\ TypeOK /\ Told /\ Fresh /\ Served /\ Begun /\ Alone /\ Entered /\ Held
  /\ RefusalsEnd /\ LostOnlyWithSession

-----------------------------------------------------------------------------
(* Type correctness and the invariant, by groups of steps                   *)

\* TypeOK is its parts.
LEMMA TypeParts == TypeOK <=> LoopType /\ LinkType /\ SenderType /\ RunType /\ LockType
  BY DEF TypeOK, LoopType, LinkType, SenderType, RunType, LockType

\* What the arithmetic of the steps needs of the constants and the places of the lock.
LEMMA Sizes ==
  /\ MaxFaults \in Nat /\ MaxMints \in Nat /\ MaxDispatches \in Nat /\ 0 \notin RunIds
  /\ \A s \in Sessions : s \in Nat /\ s > 0 /\ s <= MaxFaults + 1
  /\ \A d \in Dispatches : d \in Nat /\ d > 0
  /\ \A s \in Nat : s > 0 /\ s <= MaxFaults + 1 => s \in Sessions
  BY WorkerAssumption DEF Sessions, Dispatches

\* A mint, and a fault, stay within their bounds.
LEMMA MintType == ASSUME LoopType, Mint PROVE
  /\ minted' \in Gen /\ cache' \in Gen /\ token' \in [source : {"minted"}, gen : Gen]
  /\ faults' \in 0 .. MaxFaults
<1>1. minted' \in Gen BY WorkerAssumption DEF LoopType, Mint, Gen
<1>2. cache' \in Gen BY <1>1, WorkerAssumption DEF Mint, Gen
<1>3. faults' \in 0 .. MaxFaults BY WorkerAssumption DEF LoopType, Mint, Fault
<1>4. token' \in [source : {"minted"}, gen : Gen] BY <1>1 DEF Mint
<1>5. QED BY <1>1, <1>2, <1>3, <1>4

LEMMA FaultType == ASSUME LoopType, Fault PROVE faults' \in 0 .. MaxFaults
  BY WorkerAssumption DEF LoopType, Fault

\* The steps of the Run loop that open and close no session keep its state well typed.
LEMMA LoopTypeStep ==
  ASSUME LoopType, Login \/ Register \/ Acquire \/ Stop \/ DialRefused \/ DialFails \/ AuthRejected \/ Backoff
  PROVE  LoopType'
<1>1. CASE Login \/ Register \/ DialFails
  BY <1>1, FaultType DEF Login, Register, DialFails, LoopType
<1>2. CASE Stop \/ Backoff BY <1>2 DEF Stop, Backoff, LoopType
<1>3. CASE DialRefused
  <2>1. refused' \subseteq Gen BY <1>3 DEF DialRefused, LoopType
  <2>2. seen' \in 0 .. 3 BY <1>3 DEF DialRefused, ToldRefused, LoopType
  <2>3. QED BY <1>3, <2>1, <2>2, FaultType DEF DialRefused, ToldRefused, LoopType
<1>4. CASE Acquire
  <2>1. CASE Mint BY <1>4, <2>1, MintType DEF Acquire, LoopType
  <2>2. CASE cache # 0 /\ token' = [source |-> "cached", gen |-> cache] /\ UNCHANGED <<cache, minted, faults>>
    <3>1. token' \in [source : {"cached"}, gen : Gen] BY <2>2 DEF LoopType
    <3>2. QED BY <1>4, <2>2, <3>1 DEF Acquire, LoopType
  <2>3. CASE UNCHANGED <<token, cache, minted>> /\ (Fault \/ UNCHANGED faults)
    BY <1>4, <2>3, FaultType DEF Acquire, LoopType
  <2>4. QED BY <1>4, <2>1, <2>2, <2>3 DEF Acquire
<1>5. CASE AuthRejected
  <2>1. CASE Mint BY <1>5, <2>1, MintType DEF AuthRejected, AfterRefusal, LoopType
  <2>2. CASE UNCHANGED <<token, minted>> /\ cache' \in {0, cache} /\ (Fault \/ UNCHANGED faults)
    <3>1. cache' \in Gen BY <2>2, WorkerAssumption DEF LoopType, Gen
    <3>2. faults' \in 0 .. MaxFaults BY <2>2, FaultType DEF LoopType
    <3>3. wpc' \in {"connect", "ended"} BY <1>5 DEF AuthRejected, AfterRefusal
    <3>4. QED BY <1>5, <2>2, <3>1, <3>2, <3>3 DEF AuthRejected, LoopType
  <2>3. QED BY <1>5, <2>1, <2>2 DEF AuthRejected
<1>6. QED BY <1>1, <1>2, <1>3, <1>4, <1>5

\* They keep what Run was told of tied to its token: only the first refusal of a
\* cached token is answered with a mint.
LEMMA RefusalStep ==
  ASSUME LoopType, Told, RefusalsEnd,
         Login \/ Register \/ Acquire \/ Stop \/ DialRefused \/ DialFails \/ AuthRejected \/ Backoff
  PROVE  Told' /\ RefusalsEnd'
<1> USE DEF Told, RefusalsEnd
<1>1. CASE Login \/ Register \/ DialFails \/ Stop \/ Backoff
  BY <1>1 DEF Login, Register, DialFails, Stop, Backoff
<1>2. CASE Acquire
  <2>1. seen = 0 /\ seen' = 0 /\ wpc' \in {"connect", "ended"} BY <1>2 DEF Acquire, Configured, LoopType
  <2>2. QED BY <2>1
<1>3. CASE DialRefused
  <2>1. /\ seen \in 0 .. 1 /\ token' = token /\ (token.source # "minted" => seen = 0)
        /\ seen' = seen + 1 /\ wpc' = "auth"
    BY <1>3 DEF DialRefused, ToldRefused, LoopType
  <2>2. QED BY <2>1
<1>4. CASE AuthRejected
  <2>1. wpc = "auth" /\ seen' = seen /\ seen > 0 /\ wpc' \in {"connect", "ended"}
    BY <1>4 DEF AuthRejected, AfterRefusal
  <2>2. CASE wpc' = "ended"
    <3>1. token' = token BY <1>4, <2>2 DEF AuthRejected
    <3>2. QED BY <2>1, <2>2, <3>1
  <2>3. CASE wpc' = "connect"
    <3>1. token.source = "cached" /\ token'.source = "minted" BY <1>4, <2>3 DEF AuthRejected, AfterRefusal, Mint
    <3>2. seen = 1 BY <2>1, <3>1 DEF LoopType
    <3>3. QED BY <2>1, <2>3, <3>1, <3>2
  <2>4. QED BY <2>1, <2>2, <2>3
<1>5. QED BY <1>1, <1>2, <1>3, <1>4

\* The steps of the Run loop that open and close no session.
LEMMA LoopSteps ==
  ASSUME IInv, Login \/ Register \/ Acquire \/ Stop \/ DialRefused \/ DialFails \/ AuthRejected \/ Backoff
  PROVE  IInv'
<1>0. /\ LoopType /\ LinkType /\ SenderType /\ RunType /\ LockType
      /\ Told /\ Fresh /\ Served /\ Begun /\ Alone /\ Entered /\ Held
      /\ RefusalsEnd /\ LostOnlyWithSession
  BY TypeParts DEF IInv
<1>1. LoopType' /\ Told' /\ RefusalsEnd' BY <1>0, LoopTypeStep, RefusalStep
<1>2. UNCHANGED <<ctxDone, links, senders, readers, table, lock>> /\ wpc # "serve"
  BY DEF Login, Register, Acquire, Stop, DialRefused, DialFails, AuthRejected, Backoff
<1> USE <1>2 DEF links, senders, readers, table
<1>3. LinkType' /\ SenderType' /\ RunType' /\ LockType'
  BY <1>0 DEF LinkType, SenderType, RunType, LockType
<1>4. Fresh' /\ Served' BY <1>0 DEF Fresh, Served
<1>5. Begun' /\ Alone' /\ Entered' /\ Held' BY <1>0 DEF Begun, Alone, Entered, Held
<1>6. LostOnlyWithSession' BY <1>0 DEF LostOnlyWithSession
<1>7. TypeOK' BY <1>1, <1>3 DEF TypeOK, LoopType, LinkType, SenderType, RunType, LockType
<1>8. QED BY <1>1, <1>4, <1>5, <1>6, <1>7 DEF IInv

\* A session is dialed, and closed.
LEMMA SessionSteps == ASSUME IInv, Dial \/ Disconnect \/ Close PROVE IInv'
<1> USE Sizes DEF Dial, Disconnect, Close, Dialed, Nil, Select, ToldRefused, AfterLoss, Free,
      senders, readers, table
<1>0. /\ LoopType /\ LinkType /\ SenderType /\ RunType /\ LockType
      /\ Told /\ Fresh /\ Served /\ Begun /\ Alone /\ Entered /\ Held
      /\ RefusalsEnd /\ LostOnlyWithSession
  BY TypeParts DEF IInv
<1>1. LoopType' BY <1>0 DEF LoopType
<1>2. LinkType' BY <1>0 DEF LinkType
<1>3. SenderType' BY <1>0 DEF SenderType, LinkType
<1>4. RunType' BY <1>0 DEF RunType, LinkType
<1>5. LockType' BY <1>0 DEF LockType
<1>6. Told' BY <1>0 DEF Told, RefusalsEnd, LoopType
<1>7. Fresh' BY <1>0 DEF Fresh, LinkType, SenderType
<1>8. Served' BY <1>0 DEF Served, Fresh, LinkType, SenderType, LoopType
<1>9. Begun' /\ Alone' /\ Entered' /\ Held' BY <1>0 DEF Begun, Alone, Entered, Held, LinkType
<1>10. RefusalsEnd' BY <1>0 DEF RefusalsEnd, Told, LoopType
<1>11. LostOnlyWithSession' BY <1>0 DEF LostOnlyWithSession, Begun, RunType, LinkType
<1>12. TypeOK' BY <1>1, <1>2, <1>3, <1>4, <1>5
  DEF TypeOK, LoopType, LinkType, SenderType, RunType, LockType
<1>13. QED BY <1>6, <1>7, <1>8, <1>9, <1>10, <1>11, <1>12 DEF IInv

\* The heartbeat and receive goroutines of a session.
LEMMA GoroutineSteps == ASSUME IInv, NEW s \in Sessions, Goroutines(s) PROVE IInv'
<1>0. /\ LoopType /\ LinkType /\ SenderType /\ RunType /\ LockType
      /\ Told /\ Fresh /\ Served /\ Begun /\ Alone /\ Entered /\ Held
      /\ RefusalsEnd /\ LostOnlyWithSession
  BY TypeParts DEF IInv
<1>1. /\ UNCHANGED <<loop, ctxDone, links, table>>
      /\ UNCHANGED faults \/ Fault
      /\ lock' \in {lock, <<"hb", s>>} /\ (lock' # lock => hb[s] = "running")
  BY DEF Goroutines, Heartbeat, HeartbeatError, ReadError, ReceiveError, readers, senders
<1> USE DEF loop, links, table
<1>2. SenderType'
  BY <1>0 DEF SenderType, Goroutines, Heartbeat, HeartbeatError, ReadError, ReceiveError, readers, senders
<1>3. LoopType' BY <1>0, <1>1, FaultType DEF LoopType
<1>4. LinkType' /\ RunType' /\ LockType' BY <1>0, <1>1 DEF LinkType, RunType, LockType
<1>5. Told' /\ RefusalsEnd' BY <1>0, <1>1 DEF Told, RefusalsEnd
<1>6. Begun' /\ Alone' /\ Entered' BY <1>0, <1>1 DEF Begun, Alone, Entered
<1>7. Held' /\ LostOnlyWithSession'
  <2>1. lock' # lock => s <= session BY <1>0, <1>1, Sizes DEF Fresh, LinkType
  <2>2. Held' BY <1>0, <1>1, <2>1 DEF Held
  <2>3. QED BY <1>0, <1>1, <2>2 DEF LostOnlyWithSession
<1>8. Fresh' /\ Served'
  <2> USE DEF Fresh, Served
  <2>1. CASE Heartbeat(s)
    <3>1. net[s] = "open" /\ ~ctxDone => ~Over(s) /\ ~WriteFails BY <1>0, Sizes DEF Over, WriteFails
    <3>2. UNCHANGED <<hbErr, recv, recvErr>> /\ hb[s] = "running" BY <2>1 DEF Heartbeat, readers
    <3>3. \/ hb' = hb
          \/ ~(net[s] = "open" /\ ~ctxDone) /\ \E x : hb' = [hb EXCEPT ![s] = x]
      BY <2>1, <3>1 DEF Heartbeat
    <3>4. QED BY <1>0, <1>1, <3>2, <3>3 DEF SenderType
  <2>2. CASE HeartbeatError(s)
    BY <1>0, <1>1, <2>2 DEF HeartbeatError, readers, SenderType
  <2>3. CASE ReadError(s) BY <1>0, <1>1, <2>3 DEF ReadError, senders, SenderType
  <2>4. CASE ReceiveError(s) BY <1>0, <1>1, <2>4 DEF ReceiveError, senders, SenderType
  <2>5. QED BY <2>1, <2>2, <2>3, <2>4 DEF Goroutines
<1>9. TypeOK' BY <1>2, <1>3, <1>4 DEF TypeOK, LoopType, LinkType, SenderType, RunType, LockType
<1>10. QED BY <1>5, <1>6, <1>7, <1>8, <1>9 DEF IInv

\* What a step that only moves runs, and may leave the lock to one, has to keep.
LEMMA RunMoves ==
  ASSUME IInv, UNCHANGED <<loop, ctxDone, links, senders, readers>>, UNCHANGED faults \/ Fault,
         RunType', LockType', Begun', Alone', Entered', Held', LostOnlyWithSession'
  PROVE  IInv'
<1>0. LoopType /\ LinkType /\ SenderType /\ Told /\ Fresh /\ Served /\ RefusalsEnd BY TypeParts DEF IInv
<1> USE DEF loop, links, senders, readers
<1>1. LoopType' BY <1>0, FaultType DEF LoopType
<1>2. LinkType' /\ SenderType' BY <1>0 DEF LinkType, SenderType
<1>3. Told' /\ RefusalsEnd' /\ Fresh' /\ Served' BY <1>0 DEF Told, RefusalsEnd, Fresh, Served
<1>4. TypeOK' BY <1>1, <1>2 DEF TypeOK, LoopType, LinkType, SenderType, RunType, LockType
<1>5. QED BY <1>3, <1>4 DEF IInv

\* A run command gives a new dispatch an id that no other has.
LEMMA HandleRunStep ==
  ASSUME IInv, NEW s \in Sessions, NEW r \in RunIds, NEW d \in Dispatches, HandleRun(s, r, d)
  PROVE  IInv'
<1>0. LinkType /\ SenderType /\ RunType /\ LockType /\ Fresh /\ Begun /\ Alone /\ Entered /\ Held
      /\ LostOnlyWithSession
  BY TypeParts DEF IInv
<1> DEFINE new == [NoRun EXCEPT !.id = r, !.on = s, !.st = "start"]
<1>1. s \in 0 .. session /\ s # 0 BY <1>0, Sizes DEF HandleRun, Fresh, LinkType
<1>2. /\ new.id = r /\ new.on = s /\ new.st = "start" /\ new.told = "no"
      /\ new \in [id : {r}, on : {s}, st : {"start"}, canceled : BOOLEAN, told : {"no"}]
  <2>1. NoRun \in [id : {0}, on : {0}, st : {"none"}, canceled : BOOLEAN, told : {"no"}] BY DEF NoRun
  <2>2. QED BY <2>1
<1>3. /\ run' = [run EXCEPT ![d] = new] /\ cancelMap' = [cancelMap EXCEPT ![r] = d]
      /\ run[d].st = "none" /\ lock = Unlocked /\ \A e \in Dispatches : run[e].id # r
  BY DEF HandleRun, Free, Dispatchable
<1>4. UNCHANGED <<loop, ctxDone, links, senders, readers, lock, faults>> BY DEF HandleRun
<1> HIDE DEF new
<1>5. \A e \in Dispatches : run'[e] = IF e = d THEN new ELSE run[e] BY <1>0, <1>3 DEF RunType
<1>6. \A q \in RunIds : cancelMap'[q] = IF q = r THEN d ELSE cancelMap[q] BY <1>0, <1>3 DEF RunType
<1>7. RunType' BY <1>0, <1>1, <1>2, <1>3, <1>4 DEF RunType, links
<1>8. LockType' /\ Held' BY <1>0, <1>3, <1>4 DEF LockType, Held, Unlocked
<1>9. Begun' BY <1>0, <1>2, <1>5 DEF Begun
<1>10. Alone' BY <1>0, <1>2, <1>3, <1>5 DEF Alone
<1>11. Entered' BY <1>0, <1>2, <1>3, <1>5, <1>6 DEF Entered, Begun
<1>12. LostOnlyWithSession' BY <1>0, <1>2, <1>4, <1>5 DEF LostOnlyWithSession, links
<1>13. QED BY <1>4, <1>7, <1>8, <1>9, <1>10, <1>11, <1>12, RunMoves

\* A cancel command changes nothing that the rest of the invariant reads.
LEMMA HandleCancelStep ==
  ASSUME IInv, NEW s \in Sessions, NEW r \in RunIds, HandleCancel(s, r) PROVE IInv'
<1>0. RunType /\ LockType /\ Begun /\ Alone /\ Entered /\ Held /\ LostOnlyWithSession
  BY TypeParts DEF IInv
<1>1. PICK d \in Dispatches : run' = [run EXCEPT ![d].canceled = TRUE]
  BY <1>0 DEF HandleCancel, RunType
<1>2. UNCHANGED <<loop, ctxDone, links, senders, readers, cancelMap, lock, faults>> BY DEF HandleCancel
<1>3. \A e \in Dispatches : /\ run'[e].id = run[e].id /\ run'[e].on = run[e].on
                            /\ run'[e].st = run[e].st /\ run'[e].told = run[e].told
  BY <1>0, <1>1 DEF RunType
<1>4. RunType'
  <2>1. run' \in [Dispatches -> [id : RunIds \cup {0}, on : 0 .. session,
                     st : {"none", "start", "exec", "report", "clean", "done", "killed"},
                     canceled : BOOLEAN, told : {"no", "yes", "lost"}]]
    BY <1>0, <1>1 DEF RunType
  <2>2. session' = session /\ cancelMap' = cancelMap BY <1>2 DEF links
  <2>3. QED BY <1>0, <2>1, <2>2 DEF RunType
<1>5. LockType' /\ Held' BY <1>0, <1>2, <1>3 DEF LockType, Held, links
<1>6. Begun' /\ Alone' /\ Entered' BY <1>0, <1>2, <1>3 DEF Begun, Alone, Entered
<1>7. LostOnlyWithSession' BY <1>0, <1>2, <1>3 DEF LostOnlyWithSession, links
<1>8. QED BY <1>2, <1>4, <1>5, <1>6, <1>7, RunMoves

\* A write of a run that began fails only with the socket of its session.
LEMMA WriteReaches ==
  ASSUME IInv, NEW d \in Dispatches, run[d].st # "none", WriteFails
  PROVE  net[run[d].on] # "open" \/ ctxDone
<1>0. Served /\ Begun BY DEF IInv
<1>1. run[d].on \in Sessions BY <1>0 DEF Begun
<1>2. QED BY <1>0, <1>1, Sizes DEF Served, WriteFails

\* The effect of a step of dispatch d on the fields of every run.
RunFields(d, x, t) ==
  \A e \in Dispatches :
    /\ run'[e].id = run[e].id /\ run'[e].on = run[e].on
    /\ run'[e].st = (IF e = d THEN x ELSE run[e].st)
    /\ run'[e].told = (IF e = d THEN t ELSE run[e].told)

LEMMA RunUpdate ==
  ASSUME RunType, session' = session, cancelMap' \in [RunIds -> Dispatches \cup {0}],
         NEW d \in Dispatches, NEW x \in {"exec", "report", "clean", "done"}, NEW t \in {"no", "yes", "lost"},
         run' = [run EXCEPT ![d].st = x, ![d].told = t]
  PROVE  RunType' /\ RunFields(d, x, t)
<1> DEFINE Records == [id : RunIds \cup {0}, on : 0 .. session,
                       st : {"none", "start", "exec", "report", "clean", "done", "killed"},
                       canceled : BOOLEAN, told : {"no", "yes", "lost"}]
           One(c) == [c EXCEPT !.st = x, !.told = t]
<1>1. \A c \in Records : /\ One(c) \in Records
                         /\ One(c).id = c.id /\ One(c).on = c.on /\ One(c).st = x /\ One(c).told = t
  OBVIOUS
<1>2. run \in [Dispatches -> Records] BY DEF RunType
<1>3. run' = [run EXCEPT ![d] = One(run[d])] OBVIOUS
<1>4. RunType' <=> run' \in [Dispatches -> Records] BY DEF RunType
<1> HIDE DEF Records, One
<1>5. RunType'
  <2>1. run[d] \in Records BY <1>2
  <2>2. One(run[d]) \in Records BY <1>1, <2>1
  <2>3. run' \in [Dispatches -> Records] BY <1>2, <1>3, <2>2
  <2>4. QED BY <1>4, <2>3
<1>6. RunFields(d, x, t) BY <1>1, <1>2, <1>3 DEF RunFields
<1>7. QED BY <1>5, <1>6

\* A run that began goes on: its id and its session stay, and it loses its report
\* only where WriteReaches allows.
LEMMA RunAdvances ==
  ASSUME IInv, UNCHANGED <<loop, ctxDone, links, senders, readers>>, UNCHANGED faults \/ Fault,
         NEW d \in Dispatches, run[d].st \in {"start", "exec", "report", "clean"},
         NEW x \in {"exec", "report", "clean", "done"}, NEW t \in {"no", "yes", "lost"},
         RunFields(d, x, t), RunType',
         t = "lost" => run[d].told = "lost" \/ WriteFails,
         \/ x # "done" /\ cancelMap' = cancelMap
         \/ x = "done" /\ cancelMap' = [cancelMap EXCEPT ![run[d].id] = 0],
         LockType', \A e \in Dispatches : lock' = <<"run", e>> => e # d /\ lock' = lock,
         \A s \in Sessions : lock' = <<"hb", s>> => lock' = lock
  PROVE  IInv'
<1>0. RunType /\ LockType /\ Begun /\ Alone /\ Entered /\ Held /\ LostOnlyWithSession
  BY TypeParts DEF IInv
<1>1. \A e \in Dispatches :
        /\ run'[e].id = run[e].id /\ run'[e].on = run[e].on
        /\ run'[e].st = (IF e = d THEN x ELSE run[e].st)
        /\ run'[e].told = (IF e = d THEN t ELSE run[e].told)
  BY DEF RunFields
<1>4. Begun' BY <1>0, <1>1 DEF Begun
<1>5. Alone' BY <1>0, <1>1 DEF Alone
<1>6. Entered'
  <2>1. SUFFICES ASSUME NEW e \in Dispatches, run'[e].st \in {"start", "exec", "report", "clean"}
                 PROVE  cancelMap'[run'[e].id] = e
    BY DEF Entered
  <2>2. cancelMap[run[e].id] = e /\ run[e].st # "none" BY <1>0, <1>1, <2>1 DEF Entered
  <2>3. CASE cancelMap' = cancelMap BY <1>1, <2>2, <2>3
  <2>4. CASE x = "done" /\ cancelMap' = [cancelMap EXCEPT ![run[d].id] = 0]
    <3>1. e # d BY <1>1, <2>1, <2>4
    <3>2. run[e].id # run[d].id BY <1>0, <2>2, <3>1 DEF Alone
    <3>3. QED BY <1>0, <1>1, <2>2, <2>4, <3>2 DEF RunType
  <2>5. QED BY <2>3, <2>4
<1>7. Held' BY <1>0, <1>1 DEF Held, links
<1>8. LostOnlyWithSession'
  <2>1. UNCHANGED <<net, ctxDone>> BY DEF links
  <2>2. SUFFICES ASSUME NEW e \in Dispatches, run'[e].told = "lost"
                 PROVE  net[run[e].on] # "open" \/ ctxDone
    BY <1>1, <2>1 DEF LostOnlyWithSession
  <2>3. CASE run[e].told = "lost" BY <1>0, <2>3 DEF LostOnlyWithSession
  <2>4. CASE e = d /\ WriteFails BY <2>4, WriteReaches
  <2>5. QED BY <1>1, <2>2, <2>3, <2>4
<1>9. QED BY <1>4, <1>5, <1>6, <1>7, <1>8, RunMoves

\* The goroutine of a run: start, end of the handler, report, clean-up.
LEMMA RunSteps == ASSUME IInv, NEW d \in Dispatches, RunStep(d) \/ RunReturns(d) PROVE IInv'
<1>0. RunType /\ LockType /\ LoopType /\ Begun /\ Held BY TypeParts DEF IInv
<1>1. UNCHANGED <<loop, ctxDone, links, senders, readers>> /\ session' = session
  BY DEF RunStep, StartRun, Report, EndRun, RunReturns, links
<1>2. run[d].told \in {"no", "yes", "lost"} BY <1>0 DEF RunType
<1>3. \A x : [run EXCEPT ![d].st = x] = [run EXCEPT ![d].st = x, ![d].told = run[d].told]
  BY <1>0 DEF RunType
<1>4. cancelMap \in [RunIds -> Dispatches \cup {0}] BY <1>0 DEF RunType
<1>5. CASE StartRun(d)
  <2>1. /\ run' = [run EXCEPT ![d].st = "exec", ![d].told = run[d].told] /\ run[d].st = "start"
        /\ UNCHANGED <<cancelMap, lock, faults>> /\ lock = Unlocked
    BY <1>3, <1>5 DEF StartRun, Free
  <2>2. RunFields(d, "exec", run[d].told) /\ RunType'
    BY <1>0, <1>1, <1>2, <1>4, <2>1, RunUpdate
  <2>3. LockType' /\ \A k, n : k # "free" => lock' # <<k, n>> BY <1>0, <2>1 DEF LockType, Unlocked
  <2>4. QED BY <1>1, <1>2, <2>1, <2>2, <2>3, RunAdvances
<1>6. CASE RunReturns(d)
  <2>1. /\ run' = [run EXCEPT ![d].st = "report", ![d].told = run[d].told] /\ run[d].st = "exec"
        /\ UNCHANGED <<cancelMap, lock, faults>>
    BY <1>3, <1>6 DEF RunReturns
  <2>2. RunFields(d, "report", run[d].told) /\ RunType'
    BY <1>0, <1>1, <1>2, <1>4, <2>1, RunUpdate
  <2>3. LockType' /\ lock # <<"run", d>> BY <1>0, <2>1 DEF LockType, Held
  <2>4. QED BY <1>1, <1>2, <2>1, <2>2, <2>3, RunAdvances
<1>7. CASE EndRun(d)
  <2>1. /\ run' = [run EXCEPT ![d].st = "done", ![d].told = run[d].told] /\ run[d].st = "clean"
        /\ cancelMap' = [cancelMap EXCEPT ![run[d].id] = 0]
        /\ UNCHANGED <<lock, faults>> /\ lock = Unlocked
    BY <1>3, <1>7 DEF EndRun, Free
  <2>2. cancelMap' \in [RunIds -> Dispatches \cup {0}] BY <1>0, <2>1 DEF RunType
  <2>3. RunFields(d, "done", run[d].told) /\ RunType'
    BY <1>0, <1>1, <1>2, <2>1, <2>2, RunUpdate
  <2>4. LockType' /\ \A k, n : k # "free" => lock' # <<k, n>> BY <1>0, <2>1 DEF LockType, Unlocked
  <2>5. QED BY <1>1, <1>2, <2>1, <2>3, <2>4, RunAdvances
<1>8. CASE Report(d)
  <2>1. run[d].st = "report" /\ cancelMap' = cancelMap /\ lock = Unlocked BY <1>8 DEF Report, Free
  <2>2. CASE run' = run /\ lock' = <<"run", d>> /\ Fault
    <3>1. RunType' /\ LockType' BY <1>0, <1>1, <2>1, <2>2 DEF RunType, LockType
    <3>2. Begun' /\ Alone' /\ Entered' BY <2>1, <2>2 DEF IInv, Begun, Alone, Entered
    <3>3. Held' BY <2>1, <2>2 DEF Held
    <3>4. LostOnlyWithSession' BY <1>1, <2>2 DEF IInv, LostOnlyWithSession, links
    <3>5. QED BY <1>1, <2>2, <3>1, <3>2, <3>3, <3>4, RunMoves
  <2>3. ASSUME NEW t \in {"yes", "lost"}, t = "lost" => WriteFails,
               run' = [run EXCEPT ![d].st = "clean", ![d].told = t], UNCHANGED <<lock, faults>>
        PROVE  IInv'
    <3>1. RunFields(d, "clean", t) /\ RunType' BY <1>0, <1>1, <1>4, <2>1, <2>3, RunUpdate
    <3>2. LockType' /\ \A k, n : k # "free" => lock' # <<k, n>> BY <1>0, <2>1, <2>3 DEF LockType, Unlocked
    <3>3. QED BY <1>1, <2>1, <2>3, <3>1, <3>2, RunAdvances
  <2>4. QED BY <1>8, <2>2, <2>3 DEF Report
<1>9. QED BY <1>5, <1>6, <1>7, <1>8 DEF RunStep

\* A stalled write gets through or fails.
LEMMA DrainsStep == ASSUME IInv, Drains PROVE IInv'
<1>0. /\ LoopType /\ LinkType /\ SenderType /\ RunType /\ LockType
      /\ Told /\ Fresh /\ Served /\ Begun /\ Alone /\ Entered /\ Held
      /\ RefusalsEnd /\ LostOnlyWithSession
  BY TypeParts DEF IInv
<1>1. UNCHANGED <<loop, ctxDone, links, readers, hbErr, cancelMap, faults>> /\ lock' = Unlocked BY DEF Drains
<1>2. LockType' /\ \A k, n : k # "free" => lock' # <<k, n>> BY <1>1 DEF LockType, Unlocked
<1>3. ASSUME NEW s \in Sessions, lock = <<"hb", s>>, run' = run,
             hb' = [hb EXCEPT ![s] = IF WriteFails THEN "sending" ELSE "running"]
      PROVE  IInv'
  <2> USE DEF loop, links, readers
  <2>1. LoopType' /\ LinkType' /\ RunType' BY <1>0, <1>1, <1>3 DEF LoopType, LinkType, RunType
  <2>2. SenderType' BY <1>0, <1>1, <1>3 DEF SenderType
  <2>3. Told' /\ RefusalsEnd' BY <1>0, <1>1 DEF Told, RefusalsEnd
  <2>4. Begun' /\ Alone' /\ Entered' BY <1>0, <1>1, <1>3 DEF Begun, Alone, Entered
  <2>5. Held' /\ LostOnlyWithSession' BY <1>0, <1>1, <1>2, <1>3 DEF Held, LostOnlyWithSession
  <2>6. net[s] = "open" /\ ~ctxDone => ~WriteFails BY <1>0, Sizes DEF WriteFails, Served
  <2>7. Served' BY <1>0, <1>1, <1>3, <2>6 DEF Served, SenderType
  <2>8. Fresh' BY <1>0, <1>1, <1>3, Sizes DEF Fresh, SenderType, Held, LinkType
  <2>9. TypeOK' BY <1>2, <2>1, <2>2 DEF TypeOK, LoopType, LinkType, SenderType, RunType, LockType
  <2>10. QED BY <2>3, <2>4, <2>5, <2>7, <2>8, <2>9 DEF IInv
<1>4. ASSUME NEW d \in Dispatches, lock = <<"run", d>>, hb' = hb,
             run' = [run EXCEPT ![d].st = "clean", ![d].told = IF WriteFails THEN "lost" ELSE "yes"]
      PROVE  IInv'
  <2> DEFINE t == IF WriteFails THEN "lost" ELSE "yes"
  <2>1. run[d].st = "report" BY <1>0, <1>4 DEF Held
  <2>2. t \in {"no", "yes", "lost"} /\ (t = "lost" => WriteFails) OBVIOUS
  <2>3. run' = [run EXCEPT ![d].st = "clean", ![d].told = t] BY <1>4
  <2> HIDE DEF t
  <2>4. cancelMap' \in [RunIds -> Dispatches \cup {0}] /\ session' = session BY <1>0, <1>1 DEF RunType, links
  <2>5. RunFields(d, "clean", t) /\ RunType' BY <1>0, <2>2, <2>3, <2>4, RunUpdate
  <2>6. UNCHANGED <<loop, ctxDone, links, senders, readers>> BY <1>1, <1>4 DEF senders
  <2>7. QED BY <1>1, <1>2, <1>4, <2>1, <2>2, <2>4, <2>5, <2>6, RunAdvances
<1>5. QED BY <1>0, <1>3, <1>4 DEF Drains, LockType, Unlocked

\* Forge or the network ends a session, the operator stops the daemon, and the
\* daemon is started again.
LEMMA OutsideSteps ==
  ASSUME IInv, Signal \/ Restart \/ \E s \in Sessions : Breaks(s) PROVE IInv'
<1>0. /\ LoopType /\ LinkType /\ SenderType /\ RunType /\ LockType
      /\ Told /\ Fresh /\ Served /\ Begun /\ Alone /\ Entered /\ Held
      /\ RefusalsEnd /\ LostOnlyWithSession
  BY TypeParts DEF IInv
<1>1. CASE Signal
  <2> USE <1>1 DEF Signal, loop, links, senders, readers, table
  <2>1. LoopType' /\ LinkType' /\ SenderType' /\ RunType' /\ LockType'
    BY <1>0 DEF LoopType, LinkType, SenderType, RunType, LockType
  <2>2. Told' /\ Fresh' /\ Served' /\ RefusalsEnd' BY <1>0 DEF Told, Fresh, Served, RefusalsEnd
  <2>3. Begun' /\ Alone' /\ Entered' /\ Held' BY <1>0 DEF Begun, Alone, Entered, Held
  <2>4. LostOnlyWithSession' BY <1>0 DEF LostOnlyWithSession
  <2>5. TypeOK' BY <2>1 DEF TypeOK, LoopType, LinkType, SenderType, RunType, LockType
  <2>6. QED BY <2>2, <2>3, <2>4, <2>5 DEF IInv
<1>2. ASSUME NEW s \in Sessions, Breaks(s) PROVE IInv'
  <2> USE <1>2 DEF senders, readers, table
  <2>1. /\ net[s] = "open" /\ Fault /\ \E x \in {"broken", "refused"} : net' = [net EXCEPT ![s] = x]
        /\ refused' \in {refused, refused \cup {token.gen}}
        /\ UNCHANGED <<wpc, token, cache, minted, seen, ctxDone, session, conn, hb, hbErr, recv, recvErr,
                       run, cancelMap, lock>>
    BY DEF Breaks
  <2>2. LoopType'
    <3>1. refused' \subseteq Gen BY <1>0, <2>1 DEF LoopType
    <3>2. QED BY <1>0, <2>1, <3>1, FaultType DEF LoopType
  <2>3. LinkType' /\ SenderType' /\ RunType' /\ LockType'
    BY <1>0, <2>1 DEF LinkType, SenderType, RunType, LockType
  <2>4. Told' /\ RefusalsEnd' BY <1>0, <2>1 DEF Told, RefusalsEnd
  <2>5. Fresh' /\ Served' BY <1>0, <2>1 DEF Fresh, Served, LinkType
  <2>6. Begun' /\ Alone' /\ Entered' /\ Held' BY <1>0, <2>1 DEF Begun, Alone, Entered, Held
  <2>7. LostOnlyWithSession'
    <3>1. \A q \in Sessions : net[q] # "open" => net'[q] # "open" BY <1>0, <2>1 DEF LinkType
    <3>2. \A d \in Dispatches : run[d].told = "lost" => run[d].on \in Sessions BY <1>0 DEF Begun
    <3>3. QED BY <1>0, <2>1, <3>1, <3>2 DEF LostOnlyWithSession
  <2>8. TypeOK' BY <2>2, <2>3 DEF TypeOK, LoopType, LinkType, SenderType, RunType, LockType
  <2>9. QED BY <2>4, <2>5, <2>6, <2>7, <2>8 DEF IInv
<1>3. CASE Restart
  <2>1. /\ wpc' = "login" /\ ctxDone' = FALSE /\ seen' = 0 /\ conn' = 0 /\ lock' = Unlocked /\ Fault
        /\ token' = [source |-> IF Configured THEN "configured" ELSE "none", gen |-> 0]
        /\ UNCHANGED <<cache, minted, refused, session, hbErr, recvErr>>
    BY <1>3 DEF Restart
  <2>2. /\ net' = [s \in Sessions |-> IF net[s] = "none" THEN "none" ELSE "closed"]
        /\ hb' = [s \in Sessions |-> IF hb[s] = "none" THEN "none" ELSE "done"]
        /\ recv' = [s \in Sessions |-> IF recv[s] = "none" THEN "none" ELSE "done"]
        /\ cancelMap' = [r \in RunIds |-> 0]
    BY <1>3 DEF Restart
  <2>3. RunType' /\ \A d \in Dispatches :
          /\ run'[d].id = run[d].id /\ run'[d].on = run[d].on /\ run'[d].told = run[d].told
          /\ run'[d].st = IF run[d].st \in {"none", "done"} THEN run[d].st ELSE "killed"
    <3> DEFINE Records == [id : RunIds \cup {0}, on : 0 .. session,
                           st : {"none", "start", "exec", "report", "clean", "done", "killed"},
                           canceled : BOOLEAN, told : {"no", "yes", "lost"}]
               One(c) == [c EXCEPT !.st = IF @ \in {"none", "done"} THEN @ ELSE "killed"]
    <3>1. \A c \in Records : /\ One(c) \in Records /\ One(c).id = c.id /\ One(c).on = c.on /\ One(c).told = c.told
                             /\ One(c).st = IF c.st \in {"none", "done"} THEN c.st ELSE "killed"
      OBVIOUS
    <3>2. run \in [Dispatches -> Records] BY <1>0 DEF RunType
    <3>3. run' = [d \in Dispatches |-> One(run[d])] BY <1>3 DEF Restart
    <3>4. RunType' <=> run' \in [Dispatches -> Records] BY <2>1, <2>2 DEF RunType
    <3> HIDE DEF Records, One
    <3>5. QED BY <3>1, <3>2, <3>3, <3>4
  <2>4. LoopType'
    <3>1. 0 \in Gen BY WorkerAssumption DEF Gen
    <3>2. token' \in [source : {"none", "configured", "cached", "minted"}, gen : Gen] BY <2>1, <3>1
    <3>3. faults' \in 0 .. MaxFaults BY <1>0, <2>1, FaultType
    <3>4. wpc' = "login" /\ ctxDone' = FALSE /\ seen' = 0 BY <2>1
    <3>5. cache' \in Gen /\ minted' \in Gen /\ refused' \subseteq Gen BY <1>0, <2>1 DEF LoopType
    <3>6. ctxDone' \in BOOLEAN BY <3>4
    <3>7. seen' \in 0 .. 3 BY <3>4
    <3>8. QED BY <3>2, <3>3, <3>4, <3>5, <3>6, <3>7 DEF LoopType
  <2>5. LinkType' /\ SenderType' /\ LockType' BY <1>0, <2>1, <2>2 DEF LinkType, SenderType, LockType
  <2>6. token'.source \in {"configured", "none"} BY <2>1
  <2>7. Told' /\ RefusalsEnd' BY <2>1, <2>6 DEF Told, RefusalsEnd
  <2>8. Fresh' /\ Served' BY <1>0, <2>1, <2>2 DEF Fresh, Served
  <2>9. Begun' /\ Alone' /\ Entered' BY <1>0, <2>3 DEF Begun, Alone, Entered
  <2>10. Held' BY <2>1 DEF Held, Unlocked
  <2>11. LostOnlyWithSession' BY <1>0, <2>2, <2>3 DEF LostOnlyWithSession, Begun
  <2>12. TypeOK' BY <2>3, <2>4, <2>5 DEF TypeOK, LoopType, LinkType, SenderType, RunType, LockType
  <2>13. QED BY <2>7, <2>8, <2>9, <2>10, <2>11, <2>12 DEF IInv
<1>4. QED BY <1>1, <1>2, <1>3

-----------------------------------------------------------------------------
(* The theorems                                                             *)

\* The daemon starts in the invariant.
LEMMA InitHolds == Init => IInv
<1> SUFFICES ASSUME Init PROVE IInv OBVIOUS
<1> USE Sizes DEF Init
<1>1. LoopType
  <2>1. cache \in Gen /\ minted \in Gen /\ refused \subseteq Gen /\ 0 \in Gen BY DEF Gen
  <2>2. token \in [source : {"none", "configured", "cached", "minted"}, gen : Gen] BY <2>1
  <2>3. wpc = "login" /\ ctxDone = FALSE /\ seen = 0 /\ faults = 0 OBVIOUS
  <2>4. ctxDone \in BOOLEAN BY <2>3
  <2>5. seen \in 0 .. 3 BY <2>3
  <2>6. faults \in 0 .. MaxFaults BY <2>3
  <2> HIDE DEF Init
  <2>7. QED BY <2>1, <2>2, <2>3, <2>4, <2>5, <2>6 DEF LoopType
<1>2. LinkType /\ SenderType /\ LockType BY DEF LinkType, SenderType, LockType
<1>3. NoRun \in [id : {0}, on : {0}, st : {"none"}, canceled : BOOLEAN, told : {"no"}] BY DEF NoRun
<1>4. RunType BY <1>3 DEF RunType
<1>5. Told /\ RefusalsEnd BY DEF Told, RefusalsEnd
<1>6. Fresh /\ Served BY DEF Fresh, Served
<1>7. Begun /\ Alone /\ Entered BY <1>3 DEF Begun, Alone, Entered
<1>8. Held BY DEF Held, Unlocked
<1>9. LostOnlyWithSession BY <1>3 DEF LostOnlyWithSession
<1>10. TypeOK BY <1>1, <1>2, <1>4 DEF TypeOK, LoopType, LinkType, SenderType, RunType, LockType
<1>11. QED BY <1>5, <1>6, <1>7, <1>8, <1>9, <1>10 DEF IInv

\* No step leaves the invariant.
LEMMA NextHolds == IInv /\ [Next]_vars => IInv'
<1> SUFFICES ASSUME IInv, [Next]_vars PROVE IInv' OBVIOUS
<1>1. CASE Next
  <2>1. CASE Loop BY <2>1, LoopSteps, SessionSteps DEF Loop
  <2>2. CASE Drains BY <2>2, DrainsStep
  <2>3. CASE Signal \/ Restart BY <2>3, OutsideSteps
  <2>4. ASSUME NEW s \in Sessions, Goroutines(s) \/ Breaks(s) PROVE IInv'
    BY <2>4, GoroutineSteps, OutsideSteps
  <2>5. ASSUME NEW s \in Sessions, NEW r \in RunIds,
               HandleCancel(s, r) \/ \E d \in Dispatches : HandleRun(s, r, d)
        PROVE  IInv'
    BY <2>5, HandleCancelStep, HandleRunStep
  <2>6. ASSUME NEW d \in Dispatches, RunStep(d) \/ RunReturns(d) PROVE IInv' BY <2>6, RunSteps
  <2>7. QED BY <1>1, <2>1, <2>2, <2>3, <2>4, <2>5, <2>6 DEF Next
<1>2. CASE UNCHANGED vars
  <2> USE <1>2 DEF vars, loop, links, senders, readers, table
  <2>1. LoopType' /\ LinkType' /\ SenderType' /\ RunType' /\ LockType'
    BY TypeParts DEF IInv, LoopType, LinkType, SenderType, RunType, LockType
  <2>2. TypeOK' BY <2>1 DEF TypeOK, LoopType, LinkType, SenderType, RunType, LockType
  <2>3. Told' /\ RefusalsEnd' /\ Fresh' /\ Served' BY DEF IInv, Told, RefusalsEnd, Fresh, Served
  <2>4. Begun' /\ Alone' /\ Entered' /\ Held' BY DEF IInv, Begun, Alone, Entered, Held
  <2>5. LostOnlyWithSession' BY DEF IInv, LostOnlyWithSession
  <2>6. QED BY <2>2, <2>3, <2>4, <2>5 DEF IInv
<1>3. QED BY <1>1, <1>2

\* The invariant of the worker, with or without a peer that reads in the end.
THEOREM AgentInvariant == StallSpec => []IInv
<1>1. Init => IInv BY InitHolds
<1>2. IInv /\ [Next]_vars => IInv' BY NextHolds
<1>3. QED BY <1>1, <1>2, PTL DEF StallSpec

\* AuthRejected mints once, for a token of the cache: a process is told of two
\* refusals at most, and the second ends it.
THEOREM RefusalsAreFew == StallSpec => []RefusalsEnd
<1>1. IInv => RefusalsEnd BY DEF IInv
<1>2. QED BY <1>1, AgentInvariant, PTL

\* handleCancelCommand finds every run that has not reported yet, whatever sessions
\* came and went since its dispatch: nothing but its own EndRun takes its entry out.
THEOREM CancelFindsRun == StallSpec => []CancelReaches
<1>1. IInv => CancelReaches BY DEF IInv, Entered, CancelReaches
<1>2. QED BY <1>1, AgentInvariant, PTL

\* sendJSON writes to w.conn as it is by then: while the session of a run lasts that
\* is its socket, so only a run whose session is gone, or a daemon told to stop, may
\* lose a report.
THEOREM ReportsReach == StallSpec => []LostOnlyWithSession
<1>1. IInv => LostOnlyWithSession BY DEF IInv
<1>2. QED BY <1>1, AgentInvariant, PTL
=============================================================================
