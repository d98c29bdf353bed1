---------------------------- MODULE AgentWorker -----------------------------
(***************************************************************************)
(* `benchmark daemon`: BenchmarkAgentWorker, its token, its WebSocket       *)
(* sessions and the runs Forge dispatches over them.                        *)
(*                                                                          *)
(* One process: the Run loop, and per session a heartbeat and a receive     *)
(* goroutine, and per dispatched run a goroutine of its own, all sharing    *)
(* conn and cancelMap under w.mu.  A WriteJSON holds w.mu and has no write  *)
(* deadline, so a write that stalls keeps the lock until the peer reads or  *)
(* the connection fails.  Forge may refuse a token, drop a session, close   *)
(* it with 4401, dispatch and cancel; the process may be killed and run     *)
(* again with the same forge_agent_token.json.                              *)
(***************************************************************************)
EXTENDS Integers, FiniteSets

CONSTANTS
  RunIds,          \* ids Forge gives its runs
  MaxDispatches,   \* bound: run commands
  MaxFaults,       \* bound: network and Forge failures, stalls, kills
  MaxMints         \* bound: tokens Forge hands out
ASSUME WorkerAssumption ==
  /\ 0 \notin RunIds /\ MaxDispatches \in Nat /\ MaxFaults \in Nat /\ MaxMints \in Nat

Sessions == 1 .. MaxFaults + 1     \* each one but the last ends by a fault
Dispatches == 1 .. MaxDispatches
Gen == 0 .. MaxMints               \* tokens; 0 is the configured one, or none

VARIABLES
  wpc,        \* the Run loop
  ctxDone,    \* SIGINT or SIGTERM arrived
  token,      \* w.token and w.tokenSource
  cache,      \* token in forge_agent_token.json, 0 if none
  minted,     \* newest token Forge handed out
  refused,    \* tokens Forge has refused
  seen,       \* refusals Run has been told of (more than 2 count as 3)
  session,    \* number of sessions opened
  conn,       \* w.conn: a session, or 0
  net,        \* the socket of each session
  hb, hbErr,  \* heartbeat goroutine and hbErrCh of each session
  recv, recvErr,   \* receive goroutine and recvErrCh
  run,        \* the goroutine of each dispatch
  cancelMap,
  lock,       \* who holds w.mu in a write that stalls, or Unlocked
  faults

loop == <<wpc, token, cache, minted, refused, seen>>
links == <<session, conn, net>>
senders == <<hb, hbErr>>
readers == <<recv, recvErr>>
table == <<run, cancelMap>>
vars == <<loop, ctxDone, links, senders, readers, table, lock, faults>>

Unlocked == <<"free", 0>>
NoRun == [id |-> 0, on |-> 0, st |-> "none", canceled |-> FALSE, told |-> "no"]

TypeOK ==
  /\ wpc \in {"login", "register", "acquire", "connect", "serve", "closing", "auth",
              "backoff", "ended"}
  /\ ctxDone \in BOOLEAN
  /\ token \in [source : {"none", "configured", "cached", "minted"}, gen : Gen]
  /\ cache \in Gen /\ minted \in Gen /\ refused \subseteq Gen /\ seen \in 0 .. 3
  /\ session \in 0 .. MaxFaults + 1 /\ conn \in {0, session}
  /\ conn # 0 => wpc = "serve"
  /\ net \in [Sessions -> {"none", "open", "broken", "refused", "closed"}]
  /\ hb \in [Sessions -> {"none", "running", "sending", "done"}]
  /\ recv \in [Sessions -> {"none", "running", "sending", "done"}]
  /\ hbErr \in [Sessions -> BOOLEAN] /\ recvErr \in [Sessions -> BOOLEAN]
  /\ run \in [Dispatches -> [id : RunIds \cup {0}, on : 0 .. session,
                st : {"none", "start", "exec", "report", "clean", "done", "killed"},
                canceled : BOOLEAN, told : {"no", "yes", "lost"}]]
  /\ cancelMap \in [RunIds -> Dispatches \cup {0}]
  /\ lock \in {Unlocked} \cup ({"hb"} \X Sessions) \cup ({"run"} \X Dispatches)
  /\ faults \in 0 .. MaxFaults

\* AgentToken was given by flag, environment or cluster.yaml.
Configured == token.source = "configured"

Init ==
  /\ wpc = "login" /\ ctxDone = FALSE
  /\ token \in [source : {"none", "configured"}, gen : {0}]
  /\ MaxMints >= 1 /\ minted = 1 /\ seen = 0
  /\ \/ cache = 0 /\ refused = {}
     \/ cache = 1 /\ refused \in {{}, {1}} /\ ~Configured    \* an older process's token
  /\ session = 0 /\ conn = 0 /\ net = [s \in Sessions |-> "none"]
  /\ hb = [s \in Sessions |-> "none"] /\ hbErr = [s \in Sessions |-> FALSE]
  /\ recv = [s \in Sessions |-> "none"] /\ recvErr = [s \in Sessions |-> FALSE]
  /\ run = [d \in Dispatches |-> NoRun] /\ cancelMap = [r \in RunIds |-> 0]
  /\ lock = Unlocked /\ faults = 0

Fault == faults < MaxFaults /\ faults' = faults + 1
Free == lock = Unlocked

-----------------------------------------------------------------------------
(* The Run loop                                                             *)

\* restLogin, unless the token is explicit; RegisterBenchmarkAgent; each ends
\* Run when it fails.
Login ==
  /\ wpc = "login"
  /\ \/ wpc' = "register" /\ UNCHANGED faults
     \/ ~Configured /\ wpc' = "ended" /\ Fault
  /\ UNCHANGED <<ctxDone, token, cache, minted, refused, seen, links, senders, readers, table, lock>>

Register ==
  /\ wpc = "register"
  /\ \/ wpc' = "acquire" /\ UNCHANGED faults
     \/ wpc' = "ended" /\ Fault
  /\ UNCHANGED <<ctxDone, token, cache, minted, refused, seen, links, senders, readers, table, lock>>

\* MintAgentToken and WriteAgentToken, whose error is dropped.
Mint ==
  /\ minted < MaxMints /\ minted' = minted + 1
  /\ token' = [source |-> "minted", gen |-> minted']
  /\ \/ cache' = minted' /\ UNCHANGED faults
     \/ cache' = 0 /\ Fault

\* AcquireAgentToken: explicit, then cached, then minted.
Acquire ==
  /\ wpc = "acquire"
  /\ \/ /\ Configured
        /\ wpc' = "connect" /\ UNCHANGED <<token, cache, minted, faults>>
     \/ /\ ~Configured /\ cache # 0
        /\ wpc' = "connect" /\ token' = [source |-> "cached", gen |-> cache]
        /\ UNCHANGED <<cache, minted, faults>>
     \/ ~Configured /\ cache = 0 /\ Mint /\ wpc' = "connect"
     \/ /\ ~Configured /\ cache = 0
        /\ wpc' = "ended" /\ Fault /\ UNCHANGED <<token, cache, minted>>
  /\ UNCHANGED <<ctxDone, refused, seen, links, senders, readers, table, lock>>

\* The head of the loop returns when the context is done.
Stop ==
  /\ wpc \in {"connect", "backoff"} /\ ctxDone
  /\ wpc' = "ended"
  /\ UNCHANGED <<ctxDone, token, cache, minted, refused, seen, links, senders, readers, table, lock, faults>>

DialedBug(s) == s - 1      \* mutation: w.conn keeps the connection before
Dialed(s) == s

\* connectAndServe dials: a session, a refusal (401, 403), or a plain error.
Dial ==
  /\ wpc = "connect" /\ ~ctxDone /\ Free
  /\ token.gen \notin refused /\ session < MaxFaults + 1
  /\ wpc' = "serve" /\ session' = session + 1 /\ conn' = Dialed(session')
  /\ net' = [net EXCEPT ![session'] = "open"]
  /\ hb' = [hb EXCEPT ![session'] = "running"]
  /\ recv' = [recv EXCEPT ![session'] = "running"]
  /\ UNCHANGED <<ctxDone, token, cache, minted, refused, seen, hbErr, recvErr, table, lock, faults>>

ToldRefused == wpc' = "auth" /\ seen' = IF seen < 3 THEN seen + 1 ELSE 3

DialRefused ==
  /\ wpc = "connect" /\ ~ctxDone
  /\ \/ token.gen \in refused /\ UNCHANGED faults
     \/ token.gen \notin refused /\ Fault
  /\ refused' = refused \cup {token.gen}
  /\ ToldRefused
  /\ UNCHANGED <<ctxDone, token, cache, minted, links, senders, readers, table, lock>>

DialFails ==
  /\ wpc = "connect" /\ ~ctxDone /\ Fault
  /\ wpc' = "backoff"
  /\ UNCHANGED <<ctxDone, token, cache, minted, refused, seen, links, senders, readers, table, lock>>

\* The select of connectAndServe and setDisconnected, which needs w.mu.
Select == hbErr[session] \/ recvErr[session] \/ ctxDone

Nil == 0

Disconnect ==
  /\ wpc = "serve" /\ Select /\ Free
  /\ conn' = Nil /\ wpc' = "closing"
  /\ UNCHANGED <<ctxDone, token, cache, minted, refused, seen, session, net, senders, readers, table, lock, faults>>

\* The deferred sessionCancel and conn.Close, and what Run makes of the error:
\* select took either of two errors that were both ready.
AfterLossStuck == "closing"   \* mutation: the lost session is waited for
AfterLoss == "backoff"

Close ==
  /\ wpc = "closing"
  /\ net' = [net EXCEPT ![session] = "closed"]
  /\ \/ ctxDone /\ wpc' = "ended" /\ UNCHANGED seen
     \/ ~ctxDone /\ recvErr[session] /\ net[session] = "refused" /\ ToldRefused
     \/ /\ ~ctxDone /\ (hbErr[session] \/ (recvErr[session] /\ net[session] # "refused"))
        /\ wpc' = AfterLoss /\ UNCHANGED seen
  /\ UNCHANGED <<ctxDone, token, cache, minted, refused, session, conn, senders, readers, table, lock, faults>>

\* remintAgentToken: DeleteAgentToken, then mint; a mint that fails is fatal.
AfterRefusalBug == "backoff"      \* mutation: reconnect loop
AfterRefusal == "ended"

AuthRejected ==
  /\ wpc = "auth" /\ Free
  /\ \/ token.source = "cached" /\ Mint /\ wpc' = "connect"
     \/ /\ token.source = "cached" /\ wpc' = "ended"
        /\ (ctxDone /\ UNCHANGED faults) \/ Fault
        /\ cache' \in {0, cache} /\ UNCHANGED <<token, minted>>
     \/ /\ token.source # "cached" /\ wpc' = AfterRefusal
        /\ UNCHANGED <<token, cache, minted, faults>>
  /\ UNCHANGED <<ctxDone, refused, seen, links, senders, readers, table, lock>>

\* The backoff timer.
Backoff ==
  /\ wpc = "backoff" /\ ~ctxDone /\ wpc' = "connect"
  /\ UNCHANGED <<ctxDone, token, cache, minted, refused, seen, links, senders, readers, table, lock, faults>>

Loop == \/ Login \/ Register \/ Acquire \/ Stop \/ Dial \/ DialRefused \/ DialFails
        \/ Disconnect \/ Close \/ AuthRejected \/ Backoff

-----------------------------------------------------------------------------
(* The goroutines of a session                                              *)

\* sessionCtx of s is done.
Over(s) == ctxDone \/ net[s] = "closed"

\* hbErrCh and recvErrCh hold one error; nobody need be in the select.
BufferBug == 0      \* mutation: unbuffered channels
Buffer == 1
CanSend(s) == Buffer = 1 \/ (wpc = "serve" /\ session = s /\ ~Over(s))

\* sendJSON on a connection that is nil, or whose peer is gone, fails.
WriteFails == conn # 0 => net[conn] # "open"

\* The goroutines live as long as the process, which ends with Run.
Alive == wpc # "ended"

\* A tick: the heartbeat is written to whatever connection w.conn is by then.
Heartbeat(s) ==
  /\ Alive /\ hb[s] = "running" /\ Free
  /\ \/ Over(s) /\ hb' = [hb EXCEPT ![s] = "done"] /\ UNCHANGED <<lock, faults>>
     \/ WriteFails /\ hb' = [hb EXCEPT ![s] = "sending"] /\ UNCHANGED <<lock, faults>>
     \/ ~WriteFails /\ Fault /\ lock' = <<"hb", s>> /\ UNCHANGED hb
  /\ UNCHANGED <<loop, ctxDone, links, hbErr, readers, table>>

HeartbeatError(s) ==
  /\ Alive /\ hb[s] = "sending" /\ CanSend(s)
  /\ hb' = [hb EXCEPT ![s] = "done"] /\ hbErr' = [hbErr EXCEPT ![s] = TRUE]
  /\ UNCHANGED <<loop, ctxDone, links, readers, table, lock, faults>>

ReadError(s) ==
  /\ Alive /\ recv[s] = "running" /\ net[s] # "open"
  /\ recv' = [recv EXCEPT ![s] = "sending"]
  /\ UNCHANGED <<loop, ctxDone, links, senders, recvErr, table, lock, faults>>

ReceiveError(s) ==
  /\ Alive /\ recv[s] = "sending" /\ CanSend(s)
  /\ recv' = [recv EXCEPT ![s] = "done"] /\ recvErr' = [recvErr EXCEPT ![s] = TRUE]
  /\ UNCHANGED <<loop, ctxDone, links, senders, table, lock, faults>>

\* Forge gives every run an id of its own.
Dispatchable(r) == \A d \in Dispatches : run[d].id # r

\* handleRunCommand, in the session's context; a message that was read may still
\* be waiting for the lock when its connection is torn down or closed.
HandleRun(s, r, d) ==
  /\ Alive /\ recv[s] = "running" /\ Free
  /\ Dispatchable(r)
  /\ run[d].st = "none" /\ \A e \in Dispatches : e < d => run[e].st # "none"
  /\ run' = [run EXCEPT ![d] = [NoRun EXCEPT !.id = r, !.on = s, !.st = "start"]]
  /\ cancelMap' = [cancelMap EXCEPT ![r] = d]
  /\ UNCHANGED <<loop, ctxDone, links, senders, readers, lock, faults>>

\* handleCancelCommand; CancelHandler only logs.
HandleCancel(s, r) ==
  /\ Alive /\ recv[s] = "running" /\ Free
  /\ cancelMap[r] # 0
  /\ run' = [run EXCEPT ![cancelMap[r]].canceled = TRUE]
  /\ UNCHANGED <<loop, ctxDone, links, senders, readers, cancelMap, lock, faults>>

-----------------------------------------------------------------------------
(* The goroutine of a run                                                   *)

RunCanceled(d) == run[d].on # 0 /\ (run[d].canceled \/ Over(run[d].on))

StartRunBug(d) ==      \* mutation: the entry goes when the run starts
  /\ Alive /\ run[d].st = "start" /\ Free
  /\ run' = [run EXCEPT ![d].st = "exec"]
  /\ cancelMap' = [cancelMap EXCEPT ![run[d].id] = 0]
  /\ UNCHANGED <<loop, ctxDone, links, senders, readers, lock, faults>>

\* SendProgress, whose error is dropped.
StartRun(d) ==
  /\ Alive /\ run[d].st = "start" /\ Free
  /\ run' = [run EXCEPT ![d].st = "exec"]
  /\ UNCHANGED <<loop, ctxDone, links, senders, readers, cancelMap, lock, faults>>

\* RunHandler returns, with a result or an error.
RunReturns(d) ==
  /\ Alive /\ run[d].st = "exec"
  /\ run' = [run EXCEPT ![d].st = "report"]
  /\ UNCHANGED <<loop, ctxDone, links, senders, readers, cancelMap, lock, faults>>

\* SendCompleted or SendFailed: the error is logged, and nothing is retried.
Report(d) ==
  /\ Alive /\ run[d].st = "report" /\ Free
  /\ \/ /\ run' = [run EXCEPT ![d].st = "clean", ![d].told = IF WriteFails THEN "lost" ELSE "yes"]
        /\ UNCHANGED <<lock, faults>>
     \/ ~WriteFails /\ Fault /\ lock' = <<"run", d>> /\ UNCHANGED run
  /\ UNCHANGED <<loop, ctxDone, links, senders, readers, cancelMap>>

\* The deferred delete and runCancel.
EndRun(d) ==
  /\ Alive /\ run[d].st = "clean" /\ Free
  /\ run' = [run EXCEPT ![d].st = "done"]
  /\ cancelMap' = [cancelMap EXCEPT ![run[d].id] = 0]
  /\ UNCHANGED <<loop, ctxDone, links, senders, readers, lock, faults>>

RunStep(d) == StartRun(d) \/ Report(d) \/ EndRun(d)

-----------------------------------------------------------------------------
(* Forge, the network and the operator                                      *)

\* A write that stalled gets through, or fails with its connection.
Drains ==
  /\ Alive /\ lock # Unlocked /\ lock' = Unlocked
  /\ \/ /\ lock[1] = "hb"
        /\ hb' = [hb EXCEPT ![lock[2]] = IF WriteFails THEN "sending" ELSE "running"]
        /\ UNCHANGED run
     \/ /\ lock[1] = "run"
        /\ run' = [run EXCEPT ![lock[2]].st = "clean",
                              ![lock[2]].told = IF WriteFails THEN "lost" ELSE "yes"]
        /\ UNCHANGED hb
  /\ UNCHANGED <<loop, ctxDone, links, hbErr, readers, cancelMap, faults>>

\* The session is lost, or Forge closes it with 4401 or 4403.
Breaks(s) ==
  /\ net[s] = "open" /\ Fault
  /\ \/ net' = [net EXCEPT ![s] = "broken"] /\ UNCHANGED refused
     \/ net' = [net EXCEPT ![s] = "refused"] /\ refused' = refused \cup {token.gen}
  /\ UNCHANGED <<wpc, token, cache, minted, seen, ctxDone, session, conn, senders, readers, table, lock>>

Signal ==
  /\ ~ctxDone /\ wpc # "ended" /\ ctxDone' = TRUE
  /\ UNCHANGED <<loop, links, senders, readers, table, lock, faults>>

\* The process dies, or has ended, and the daemon is started again.
Restart ==
  /\ Fault /\ wpc' = "login" /\ ctxDone' = FALSE
  /\ token' = [source |-> IF Configured THEN "configured" ELSE "none", gen |-> 0]
  /\ seen' = 0 /\ conn' = 0 /\ lock' = Unlocked
  /\ net' = [s \in Sessions |-> IF net[s] = "none" THEN "none" ELSE "closed"]
  /\ hb' = [s \in Sessions |-> IF hb[s] = "none" THEN "none" ELSE "done"]
  /\ recv' = [s \in Sessions |-> IF recv[s] = "none" THEN "none" ELSE "done"]
  /\ run' = [d \in Dispatches |->
               [run[d] EXCEPT !.st = IF @ \in {"none", "done"} THEN @ ELSE "killed"]]
  /\ cancelMap' = [r \in RunIds |-> 0]
  /\ UNCHANGED <<cache, minted, refused, session, hbErr, recvErr>>

Goroutines(s) ==
  \/ Heartbeat(s) \/ HeartbeatError(s) \/ ReadError(s) \/ ReceiveError(s)

Next ==
  \/ Loop \/ Drains \/ Signal \/ Restart
  \/ \E s \in Sessions :
       \/ Goroutines(s) \/ Breaks(s)
       \/ \E r \in RunIds : HandleCancel(s, r) \/ \E d \in Dispatches : HandleRun(s, r, d)
  \/ \E d \in Dispatches : RunStep(d) \/ RunReturns(d)

\* The Go scheduler runs every goroutine; a handler returns once its context
\* is done; timers fire.
Scheduled ==
  /\ WF_vars(Loop)
  /\ \A s \in Sessions : WF_vars(Goroutines(s))
  /\ \A d \in Dispatches : WF_vars(RunStep(d)) /\ WF_vars(RunCanceled(d) /\ RunReturns(d))

\* With WF_vars(Drains) a peer that stops reading is given up by TCP in time.
StallSpec == Init /\ [][Next]_vars /\ Scheduled
Spec == StallSpec /\ WF_vars(Drains)

-----------------------------------------------------------------------------
(* What the worker promises.                                                *)

\* No reconnect loop on a refused token: a process hears of two refusals at
\* most, of the cached token and of the one minted for it, and of one only when
\* the token is explicit or its own.
RefusalsEnd ==
  /\ seen <= 2 /\ (token.source = "configured" => seen <= 1)
  /\ seen > 0 /\ token.source # "cached" /\ wpc \notin {"auth", "ended"} => seen = 1 /\ token.source = "minted"

\* When Forge gives each run an id of its own, a cancel command finds every run
\* that is still to be cancelled, whatever sessions came and went meanwhile.
CancelReaches ==
  \A d \in Dispatches : run[d].st \in {"start", "exec"} => cancelMap[run[d].id] = d

\* The result of a run is lost only with the session that dispatched it, or when the
\* daemon was told to stop: as long as that session lasts, whatever became of the ones
\* before it, the report finds a connection.  A run that outlives its session may still
\* lose it, though another session is up: nothing is sent again.
LostOnlyWithSession ==
  \A d \in Dispatches : run[d].told = "lost" => net[run[d].on] # "open" \/ ctxDone

\* No goroutine of a session that is over stays behind.
SessionsEnd ==
  \A s \in Sessions :
    net[s] = "closed" ~> (hb[s] = "done" /\ recv[s] = "done") \/ ~Alive

\* A lost session is replaced, unless the daemon ends.
Reconnects == wpc \in {"closing", "backoff"} ~> wpc \in {"serve", "ended"}
=============================================================================
