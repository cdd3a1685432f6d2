---------------------------- MODULE BotRunsProofs ----------------------------
(***************************************************************************)
(* Proofs about BotRuns, for any number of bots, workers and requests: the *)
(* type invariant, and the quota.                                          *)
(*                                                                         *)
(* The quota alone is not inductive: between the count and the commit of   *)
(* an admitted start the bot is not running yet.  The inductive invariant  *)
(* says that the start about to commit holds the admission lock, so that   *)
(* there is only one, and that its bot still fits.                         *)
(***************************************************************************)
EXTENDS BotRuns, FiniteSetTheorems, TLAPS

\* A process is busy exactly when it is busy with a bot.
BusyWithBot ==
    /\ \A w \in Workers : loop[w].pc # "idle" <=> loop[w].bot \in Bots
    /\ \A c \in Callers : caller[c].pc # "idle" <=> caller[c].bot \in Bots

\* The user's bots once the start that caller c is about to commit is done.
withStart(c) == userRunning \cup ({caller[c].bot} \ VaultBots)

AdmittedFits ==
    \A c \in Callers : caller[c].pc = "commit" =>
        /\ c \in Requests /\ c = admission
        /\ Cardinality(withStart(c)) <= MaxRunningBots

BotRunsInv == BotRunsTypeOK /\ BusyWithBot /\ RunningWithinQuota /\ AdmittedFits

-----------------------------------------------------------------------------
(* Sets of bots. *)

\* A set of bots that fits the quota keeps fitting when bots leave it.
LEMMA FewerFit ==
    ASSUME NEW S, NEW T, T \subseteq Bots, S \subseteq T, Cardinality(T) <= MaxRunningBots
    PROVE  Cardinality(S) <= MaxRunningBots
<1>1. IsFiniteSet(T)
  BY FS_Subset, BotRunsAssumption
<1>2. IsFiniteSet(S) /\ Cardinality(S) <= Cardinality(T)
  BY <1>1, FS_Subset
<1>3. Cardinality(S) \in Nat /\ Cardinality(T) \in Nat
  BY <1>1, <1>2, FS_CardinalityType
<1> QED
  BY <1>2, <1>3, BotRunsAssumption

\* When the license lets a bot start, the user's bots fit with it.
LEMMA AdmittedBotFits ==
    ASSUME BotRunsTypeOK, RunningWithinQuota, NEW b \in Bots, enforceBotStartLicense(b)
    PROVE  Cardinality(userRunning \cup ({b} \ VaultBots)) <= MaxRunningBots
<1> DEFINE Active == {q \in Bots : isActive(q)}
<1>1. CASE isActive(b) \/ b \in VaultBots
  <2>1. userRunning \cup ({b} \ VaultBots) = userRunning
    BY <1>1 DEF userRunning
  <2> QED
    BY <2>1 DEF RunningWithinQuota
<1>2. CASE ~isActive(b) /\ b \notin VaultBots
  <2>1. IsFiniteSet(Active) /\ Cardinality(Active) < MaxRunningBots
    BY <1>2, FS_Subset, BotRunsAssumption DEF enforceBotStartLicense
  <2>2. b \notin Active
    BY <1>2
  <2>3. Cardinality(Active) \in Nat /\ Cardinality(Active \cup {b}) = Cardinality(Active) + 1
    BY <2>1, <2>2, FS_AddElement, FS_CardinalityType
  <2>4. Cardinality(Active \cup {b}) <= MaxRunningBots
    BY <2>1, <2>3, BotRunsAssumption
  <2>5. /\ userRunning \cup ({b} \ VaultBots) \subseteq Active \cup {b}
        /\ Active \cup {b} \subseteq Bots
    BY DEF userRunning
  <2> QED
    BY <2>4, <2>5, FewerFit
<1> QED
  BY <1>1, <1>2

-----------------------------------------------------------------------------
(* Types. *)

\* The initial state is well typed and every process is idle.
LEMMA InitTypes == BotRunsInit => BotRunsTypeOK /\ BusyWithBot
BY BotRunsAssumption
DEF BotRunsInit, BotRunsTypeOK, BusyWithBot, CallRec, LoopRec, JobRec, NoJob, NoLoop, NoCall, Callers

\* What requests and the recovery cycle do keeps the types.
LEMMA CallerTypes ==
    ASSUME BotRunsTypeOK, BusyWithBot, NEW c \in Callers,
           \/ c \in Requests /\ UserNext(c)
           \/ enqueueAdd(c) \/ enqueueFails(c) \/ callerDies(c)
    PROVE  BotRunsTypeOK' /\ BusyWithBot'
<1> USE BotRunsAssumption DEF Callers, NoCall
<1>1. ASSUME c \in Requests, NEW b \in Bots, admitBotStart(c, b) PROVE BotRunsTypeOK' /\ BusyWithBot'
  BY <1>1 DEF BotRunsTypeOK, BusyWithBot, CallRec, admitBotStart
<1>2. ASSUME c \in Requests, NEW b \in Bots, requestStop(c, b) PROVE BotRunsTypeOK' /\ BusyWithBot'
  BY <1>2 DEF BotRunsTypeOK, BusyWithBot, CallRec, LoopRec, JobRec, requestStop
<1>3. ASSUME c \in Requests, NEW b \in Bots, requestDelete(c, b) PROVE BotRunsTypeOK' /\ BusyWithBot'
  BY <1>3 DEF BotRunsTypeOK, BusyWithBot, CallRec, LoopRec, JobRec, requestDelete
<1>4. ASSUME c \in Requests, commitStart(c) PROVE BotRunsTypeOK' /\ BusyWithBot'
  <2>1. caller[c].bot \in Bots
    BY <1>4 DEF BusyWithBot, commitStart
  <2>2. /\ status' \in [Bots -> {"stopped", "running", "error", "deleted"}]
        /\ admission' = None
    BY <1>4, <2>1 DEF BotRunsTypeOK, commitStart
  <2>3. /\ caller' \in [Callers -> CallRec]
        /\ caller'[c].pc # "idle" <=> caller'[c].bot \in Bots
        /\ \A d \in Callers \ {c} : caller'[d] = caller[d]
    <3> DEFINE done == [caller[c] EXCEPT !.pc = "look"]
    <3>1. caller[c] \in CallRec
      BY DEF BotRunsTypeOK
    <3>2. done \in CallRec /\ done.pc = "look" /\ done.bot = caller[c].bot
      BY <3>1 DEF CallRec
    <3>3. NoCall \in CallRec /\ NoCall.pc = "idle" /\ NoCall.bot = None
      BY DEF CallRec
    <3>4. caller' = [caller EXCEPT ![c] = done] \/ caller' = [caller EXCEPT ![c] = NoCall]
      BY <1>4 DEF commitStart
    <3> HIDE DEF done, NoCall
    <3> QED
      BY <2>1, <3>2, <3>3, <3>4 DEF BotRunsTypeOK
  <2>4. UNCHANGED <<breaker, job, failures, loop, todo>>
    BY <1>4 DEF commitStart
  <2> QED
    BY <2>1, <2>2, <2>3, <2>4 DEF BotRunsTypeOK, BusyWithBot
<1>5. ASSUME c \in Requests, enqueueBotRun(c) PROVE BotRunsTypeOK' /\ BusyWithBot'
  BY <1>5 DEF BotRunsTypeOK, BusyWithBot, CallRec, LoopRec, JobRec, enqueueBotRun, looked, isTerminalJobState
<1>6. ASSUME c \in Requests, NEW removed \in BOOLEAN, cancelBotRun(c, removed)
      PROVE  BotRunsTypeOK' /\ BusyWithBot'
  BY <1>6 DEF BotRunsTypeOK, BusyWithBot, CallRec, LoopRec, JobRec, cancelBotRun, NoJob
<1>7. ASSUME c \in Requests, deleteBot(c) PROVE BotRunsTypeOK' /\ BusyWithBot'
  BY <1>7 DEF BotRunsTypeOK, BusyWithBot, CallRec, LoopRec, JobRec, deleteBot
<1>8. ASSUME enqueueAdd(c) PROVE BotRunsTypeOK' /\ BusyWithBot'
  BY <1>8 DEF BotRunsTypeOK, BusyWithBot, CallRec, LoopRec, JobRec, enqueueAdd, removable, NoJob
<1>9. ASSUME enqueueFails(c) PROVE BotRunsTypeOK' /\ BusyWithBot'
  BY <1>9 DEF BotRunsTypeOK, BusyWithBot, CallRec, LoopRec, JobRec, enqueueFails, markedError, exists
<1>10. ASSUME callerDies(c) PROVE BotRunsTypeOK' /\ BusyWithBot'
  BY <1>10 DEF BotRunsTypeOK, BusyWithBot, CallRec, LoopRec, JobRec, callerDies
<1> QED
  BY <1>1, <1>2, <1>3, <1>4, <1>5, <1>6, <1>7, <1>8, <1>9, <1>10 DEF UserNext

\* A job that is retried or given up has no owner.
LEMMA GivenUp ==
    ASSUME BotRunsTypeOK, NEW b \in Bots, retryOrFail(b)
    PROVE  /\ failures' \subseteq Bots /\ job' \in [Bots -> JobRec]
           /\ job'[b].owner = None /\ \A q \in Bots \ {b} : job'[q] = job[q]
<1>1. failures' \subseteq Bots
  BY DEF BotRunsTypeOK, retryOrFail
<1>2. PICK s \in {"waiting", "failed"} : job' = [job EXCEPT ![b] = [NoJob EXCEPT !.state = s]]
  BY DEF retryOrFail
<1>3. [NoJob EXCEPT !.state = s] \in JobRec /\ [NoJob EXCEPT !.state = s].owner = None
  BY DEF NoJob, JobRec
<1> QED
  BY <1>1, <1>2, <1>3 DEF BotRunsTypeOK

\* The updates of a loop's record.
LEMMA LoopUpdates ==
    ASSUME NEW P, NEW B, NEW H, NEW r \in [pc : P, bot : B, held : H],
           NEW p \in P, NEW b \in B, NEW h \in H
    PROVE  /\ [r EXCEPT !.pc = p, !.bot = b] \in [pc : P, bot : B, held : H]
           /\ [r EXCEPT !.pc = p, !.bot = b].pc = p
           /\ [r EXCEPT !.pc = p, !.bot = b].bot = b
           /\ [r EXCEPT !.pc = p, !.held = h] \in [pc : P, bot : B, held : H]
           /\ [r EXCEPT !.pc = p, !.held = h].pc = p
           /\ [r EXCEPT !.pc = p, !.held = h].bot = r.bot
OBVIOUS

\* What a worker does keeps the types; a loop that ends gives up its lock.
LEMMA WorkerTypes ==
    ASSUME BotRunsTypeOK, BusyWithBot, NEW w \in Workers, WorkerNext(w)
    PROVE  BotRunsTypeOK' /\ BusyWithBot'
<1> USE BotRunsAssumption DEF goto, NoLoop, NoJob
<1>0. 0 \in 0..MaxErrors
  OBVIOUS
<1>1. ASSUME NEW b \in Bots, processRunBotJob(w, b) PROVE BotRunsTypeOK' /\ BusyWithBot'
  <2>1. \A q \in Bots : job[q].owner # w
    BY <1>1 DEF BotRunsTypeOK, BusyWithBot, processRunBotJob
  <2>2. /\ job' \in [Bots -> JobRec] /\ job'[b].owner = w /\ job'[b].state = "active"
        /\ \A q \in Bots \ {b} : job'[q] = job[q]
    BY <1>1 DEF BotRunsTypeOK, JobRec, processRunBotJob
  <2>3. /\ loop' \in [Workers -> LoopRec] /\ loop'[w].pc = "read" /\ loop'[w].bot = b
        /\ \A v \in Workers \ {w} : loop'[v] = loop[v]
    <3> DEFINE begun == [NoLoop EXCEPT !.pc = "read", !.bot = b]
    <3>1. begun \in LoopRec /\ begun.pc = "read" /\ begun.bot = b
      <4>1. NoLoop \in LoopRec
        BY <1>0 DEF LoopRec
      <4> QED
        BY <4>1, LoopUpdates DEF LoopRec
    <3>2. loop' = [loop EXCEPT ![w] = begun]
      BY <1>1 DEF processRunBotJob
    <3> HIDE DEF begun
    <3> QED
      BY <3>1, <3>2 DEF BotRunsTypeOK
  <2>4. UNCHANGED <<status, breaker, failures, caller, admission, todo>>
    BY <1>1 DEF processRunBotJob
  <2>5. ASSUME NEW q \in Bots, job'[q].owner # None
        PROVE  job'[q].state = "active" /\ loop'[job'[q].owner].bot = q
    <3>1. CASE q = b
      BY <2>2, <2>3, <3>1
    <3>2. CASE q # b
      <4>1. job'[q] = job[q] /\ job[q].owner \in Workers \ {w}
        BY <2>1, <2>2, <2>5, <3>2 DEF BotRunsTypeOK, JobRec
      <4> QED
        BY <2>3, <2>5, <4>1 DEF BotRunsTypeOK
    <3> QED
      BY <3>1, <3>2
  <2> QED
    BY <2>2, <2>3, <2>4, <2>5 DEF BotRunsTypeOK, BusyWithBot
<1>2. ASSUME getBotStatus(w) PROVE BotRunsTypeOK' /\ BusyWithBot'
  BY <1>2 DEF BotRunsTypeOK, BusyWithBot, CallRec, LoopRec, JobRec, getBotStatus
<1>3. ASSUME tickSucceeds(w) PROVE BotRunsTypeOK' /\ BusyWithBot'
  BY <1>3 DEF BotRunsTypeOK, BusyWithBot, CallRec, LoopRec, JobRec, tickSucceeds
<1>4. ASSUME tickFails(w) PROVE BotRunsTypeOK' /\ BusyWithBot'
  <2>1. loop[w].bot \in Bots
    BY <1>4 DEF BusyWithBot, tickFails
  <2> DEFINE held == circuitBreakerOutcome(breaker[loop[w].bot])
  <2>2. held \in 0..MaxErrors
    BY <2>1 DEF BotRunsTypeOK, circuitBreakerOutcome
  <2> HIDE DEF held
  <2>3. /\ loop' \in [Workers -> LoopRec] /\ loop'[w].pc = "write" /\ loop'[w].bot = loop[w].bot
        /\ \A v \in Workers \ {w} : loop'[v] = loop[v]
    <3> DEFINE failed == [loop[w] EXCEPT !.pc = "write", !.held = held]
    <3>1. loop[w] \in LoopRec
      BY DEF BotRunsTypeOK
    <3>2. failed \in LoopRec /\ failed.pc = "write" /\ failed.bot = loop[w].bot
      BY <2>2, <3>1 DEF LoopRec
    <3>3. loop' = [loop EXCEPT ![w] = failed]
      BY <1>4 DEF tickFails, held
    <3> HIDE DEF failed
    <3> QED
      BY <3>2, <3>3 DEF BotRunsTypeOK
  <2>4. UNCHANGED <<status, breaker, job, failures, caller, admission, todo>>
    BY <1>4 DEF tickFails
  <2> QED
    BY <2>1, <2>3, <2>4 DEF BotRunsTypeOK, BusyWithBot, JobRec
<1>5. ASSUME NEW saved \in BOOLEAN, NEW marked \in BOOLEAN,
             applyCircuitBreakerError(w, saved, marked)
      PROVE  BotRunsTypeOK' /\ BusyWithBot'
  <2>1. loop[w].bot \in Bots /\ loop[w].held \in 0..MaxErrors
    BY <1>5 DEF BotRunsTypeOK, BusyWithBot, LoopRec, applyCircuitBreakerError
  <2>2. /\ breaker' \in [Bots -> 0..MaxErrors]
        /\ status' \in [Bots -> {"stopped", "running", "error", "deleted"}]
    BY <1>5, <2>1 DEF BotRunsTypeOK, applyCircuitBreakerError, markedError, exists
  <2>3. /\ loop' \in [Workers -> LoopRec]
        /\ loop'[w].pc # "idle" /\ loop'[w].bot = loop[w].bot
        /\ \A v \in Workers \ {w} : loop'[v] = loop[v]
    <3> DEFINE next == IF loop[w].held >= MaxErrors THEN "return" ELSE "read"
               written == [loop[w] EXCEPT !.pc = next, !.held = 0]
    <3>1. loop[w] \in LoopRec
      BY DEF BotRunsTypeOK
    <3>2. next \in {"return", "read"}
      OBVIOUS
    <3> HIDE DEF next
    <3>3. written \in LoopRec /\ written.pc = next /\ written.bot = loop[w].bot
      BY <1>0, <3>1, <3>2, LoopUpdates DEF LoopRec
    <3>4. loop' = [loop EXCEPT ![w] = written]
      BY <1>5 DEF applyCircuitBreakerError, next
    <3> HIDE DEF written
    <3> QED
      BY <3>2, <3>3, <3>4 DEF BotRunsTypeOK
  <2>4. UNCHANGED <<job, failures, caller, admission, todo>>
    BY <1>5 DEF applyCircuitBreakerError
  <2> QED
    BY <2>1, <2>2, <2>3, <2>4 DEF BotRunsTypeOK, BusyWithBot, JobRec
<1>6. ASSUME loopReturns(w) PROVE BotRunsTypeOK' /\ BusyWithBot'
  BY <1>6 DEF BotRunsTypeOK, BusyWithBot, CallRec, LoopRec, JobRec, loopReturns, ownsJob
<1>7. ASSUME botConfigIncomplete(w) PROVE BotRunsTypeOK' /\ BusyWithBot'
  BY <1>7 DEF BotRunsTypeOK, BusyWithBot, CallRec, LoopRec, JobRec, botConfigIncomplete, markedError, exists
<1>8. ASSUME shutdownRequested(w) PROVE BotRunsTypeOK' /\ BusyWithBot'
  BY <1>8 DEF BotRunsTypeOK, BusyWithBot, CallRec, LoopRec, JobRec, shutdownRequested
<1>9. ASSUME loopThrows(w) PROVE BotRunsTypeOK' /\ BusyWithBot'
  <2>1. loop[w].bot \in Bots
    BY <1>9 DEF BusyWithBot, loopThrows
  <2>2. /\ loop' \in [Workers -> LoopRec] /\ loop'[w].pc = "idle" /\ loop'[w].bot = None
        /\ \A v \in Workers \ {w} : loop'[v] = loop[v]
        /\ UNCHANGED <<status, breaker, caller, admission, todo>>
    BY <1>9 DEF BotRunsTypeOK, LoopRec, loopThrows
  <2>3. CASE ownsJob(w)
    <3>1. retryOrFail(loop[w].bot)
      BY <1>9, <2>3 DEF loopThrows
    <3>2. \A b \in Bots \ {loop[w].bot} : job[b].owner # w
      BY DEF BotRunsTypeOK
    <3> QED
      BY <2>1, <2>2, <3>1, <3>2, GivenUp DEF BotRunsTypeOK, BusyWithBot, JobRec
  <2>4. CASE ~ownsJob(w)
    <3>1. UNCHANGED <<job, failures>>
      BY <1>9, <2>4 DEF loopThrows
    <3>2. \A b \in Bots : job[b].owner # w
      BY <2>1, <2>4 DEF BotRunsTypeOK, ownsJob
    <3> QED
      BY <2>1, <2>2, <3>1, <3>2 DEF BotRunsTypeOK, BusyWithBot, JobRec
  <2> QED
    BY <2>3, <2>4
<1>10. ASSUME crash(w) PROVE BotRunsTypeOK' /\ BusyWithBot'
  BY <1>10 DEF BotRunsTypeOK, BusyWithBot, CallRec, LoopRec, JobRec, crash, ownsJob
<1> QED
  BY <1>1, <1>2, <1>3, <1>4, <1>5, <1>6, <1>7, <1>8, <1>9, <1>10 DEF WorkerNext, LoopStep

\* What timers, the queue and the chain's jobs do keeps the types.
LEMMA EnvironmentTypes ==
    ASSUME BotRunsTypeOK, BusyWithBot, NEW b \in Bots,
           \/ recoverNext(b)
           \/ promoteBotVaultExecutionActive(b) \/ markGridProvisioningPending(b)
           \/ windowElapses(b) \/ jobStalls(b) \/ queueFailedEvent(b)
    PROVE  BotRunsTypeOK' /\ BusyWithBot'
<1> USE BotRunsAssumption DEF Callers, NoCall, NoJob
<1>2. CASE recoverNext(b)
  BY <1>2 DEF BotRunsTypeOK, BusyWithBot, CallRec, LoopRec, JobRec, recoverNext, looked, isTerminalJobState
<1>1. CASE promoteBotVaultExecutionActive(b)
  BY <1>1 DEF BotRunsTypeOK, BusyWithBot, CallRec, LoopRec, JobRec, promoteBotVaultExecutionActive
<1>3. CASE markGridProvisioningPending(b)
  BY <1>3 DEF BotRunsTypeOK, BusyWithBot, CallRec, LoopRec, JobRec, markGridProvisioningPending
<1>4. CASE windowElapses(b)
  BY <1>4 DEF BotRunsTypeOK, BusyWithBot, CallRec, LoopRec, JobRec, windowElapses
<1>5. CASE jobStalls(b)
  <2>1. retryOrFail(b) /\ UNCHANGED <<status, breaker, loop, caller, admission, todo>>
    BY <1>5 DEF jobStalls
  <2> QED
    BY <2>1, GivenUp DEF BotRunsTypeOK, BusyWithBot
<1>6. CASE queueFailedEvent(b)
  BY <1>6 DEF BotRunsTypeOK, BusyWithBot, CallRec, LoopRec, JobRec, queueFailedEvent, markedError, exists
<1> QED
  BY <1>1, <1>2, <1>3, <1>4, <1>5, <1>6

-----------------------------------------------------------------------------
(* The quota. *)

\* A step that starts no bot of the user and admits nobody keeps the quota
\* and what is known of an admitted start.
LEMMA NothingStarts ==
    ASSUME BotRunsInv, userRunning' \subseteq userRunning,
           \A c \in Callers : caller'[c].pc = "commit" =>
               caller'[c] = caller[c] /\ admission' = admission
    PROVE  RunningWithinQuota' /\ AdmittedFits'
<1>1. RunningWithinQuota'
  BY FewerFit DEF BotRunsInv, RunningWithinQuota, userRunning
<1>2. ASSUME NEW c \in Callers, caller'[c].pc = "commit"
      PROVE  c \in Requests /\ c = admission' /\ Cardinality(withStart(c)') <= MaxRunningBots
  <2>1. /\ c \in Requests /\ c = admission /\ Cardinality(withStart(c)) <= MaxRunningBots
        /\ caller[c].bot \in Bots
    BY <1>2 DEF BotRunsInv, AdmittedFits, BusyWithBot
  <2>2. withStart(c)' \subseteq withStart(c) /\ withStart(c) \subseteq Bots
    BY <1>2, <2>1 DEF withStart, userRunning
  <2>3. Cardinality(withStart(c)') <= MaxRunningBots
    BY <2>1, <2>2, FewerFit
  <2> QED
    BY <1>2, <2>1, <2>3
<1> QED
  BY <1>1, <1>2 DEF AdmittedFits

\* An admitted start counted the user's bots and is the only one.
LEMMA AdmissionFits ==
    ASSUME BotRunsInv, NEW r \in Requests, NEW b \in Bots, admitBotStart(r, b)
    PROVE  RunningWithinQuota' /\ AdmittedFits'
<1>1. userRunning' = userRunning
  BY DEF admitBotStart, userRunning, isActive
<1>2. RunningWithinQuota'
  BY <1>1 DEF BotRunsInv, RunningWithinQuota
<1>3. ASSUME NEW c \in Callers, caller'[c].pc = "commit"
      PROVE  c \in Requests /\ c = admission' /\ Cardinality(withStart(c)') <= MaxRunningBots
  <2>1. c = r
    <3>1. CASE c # r
      <4>1. caller[c].pc = "commit"
        BY <1>3, <3>1 DEF BotRunsInv, BotRunsTypeOK, admitBotStart
      <4>2. c \in Requests /\ c = None
        BY <4>1 DEF BotRunsInv, AdmittedFits, admitBotStart
      <4> QED
        BY <4>2, BotRunsAssumption
    <3> QED
      BY <3>1
  <2>2. caller'[r].bot = b /\ admission' = r
    BY DEF BotRunsInv, BotRunsTypeOK, admitBotStart, Callers, NoCall
  <2>3. Cardinality(userRunning \cup ({b} \ VaultBots)) <= MaxRunningBots
    BY AdmittedBotFits DEF BotRunsInv, admitBotStart
  <2> QED
    BY <1>1, <2>1, <2>2, <2>3 DEF withStart
<1> QED
  BY <1>2, <1>3 DEF AdmittedFits

\* The start that commits is the admitted one, and no other is under way.
LEMMA CommitFits ==
    ASSUME BotRunsInv, NEW r \in Requests, commitStart(r)
    PROVE  RunningWithinQuota' /\ AdmittedFits'
<1>1. r \in Callers /\ caller[r].pc = "commit"
  BY DEF commitStart, Callers
<1>2. r = admission /\ Cardinality(withStart(r)) <= MaxRunningBots /\ caller[r].bot \in Bots
  BY <1>1 DEF BotRunsInv, AdmittedFits, BusyWithBot
<1>3. userRunning' \subseteq withStart(r) /\ withStart(r) \subseteq Bots
  BY <1>2 DEF BotRunsInv, BotRunsTypeOK, commitStart, withStart, userRunning, isActive
<1>4. RunningWithinQuota'
  BY <1>2, <1>3, FewerFit DEF RunningWithinQuota
<1>5. \A c \in Callers : caller'[c].pc # "commit"
  <2>1. caller'[r].pc \in {"look", "idle"}
    <3> DEFINE done == [caller[r] EXCEPT !.pc = "look"]
    <3>1. caller[r] \in CallRec
      BY <1>1 DEF BotRunsInv, BotRunsTypeOK
    <3>2. done.pc = "look" /\ NoCall.pc = "idle"
      BY <3>1 DEF CallRec, NoCall
    <3>3. caller' = [caller EXCEPT ![r] = done] \/ caller' = [caller EXCEPT ![r] = NoCall]
      BY DEF commitStart
    <3> HIDE DEF done
    <3> QED
      BY <1>1, <3>2, <3>3 DEF BotRunsInv, BotRunsTypeOK
  <2>2. ASSUME NEW c \in Callers, c # r PROVE caller'[c].pc # "commit"
    <3>1. caller'[c] = caller[c]
      BY <2>2 DEF BotRunsInv, BotRunsTypeOK, commitStart
    <3>2. caller[c].pc # "commit"
      BY <1>2, <2>2 DEF BotRunsInv, AdmittedFits
    <3> QED
      BY <3>1, <3>2
  <2> QED
    BY <2>1, <2>2
<1> QED
  BY <1>4, <1>5 DEF AdmittedFits

\* No other step of a caller starts a bot or admits one.
LEMMA CallerQuota ==
    ASSUME BotRunsInv, NEW c \in Callers,
           \/ c \in Requests /\ UserNext(c)
           \/ enqueueAdd(c) \/ enqueueFails(c) \/ callerDies(c)
    PROVE  RunningWithinQuota' /\ AdmittedFits'
<1> DEFINE CommitsAsBefore == \A d \in Callers : caller'[d].pc = "commit" =>
                                  caller'[d] = caller[d] /\ admission' = admission
<1> USE DEF BotRunsInv, BotRunsTypeOK, CallRec, userRunning, isActive, NoCall
<1>1. ASSUME c \in Requests, NEW b \in Bots, admitBotStart(c, b)
      PROVE  RunningWithinQuota' /\ AdmittedFits'
  BY <1>1, AdmissionFits
<1>2. ASSUME c \in Requests, NEW b \in Bots, requestStop(c, b)
      PROVE  userRunning' \subseteq userRunning /\ CommitsAsBefore
  BY <1>2 DEF requestStop
<1>3. ASSUME c \in Requests, NEW b \in Bots, requestDelete(c, b)
      PROVE  userRunning' \subseteq userRunning /\ CommitsAsBefore
  BY <1>3 DEF requestDelete
<1>4. ASSUME c \in Requests, commitStart(c)
      PROVE  RunningWithinQuota' /\ AdmittedFits'
  BY <1>4, CommitFits
<1>5. ASSUME c \in Requests, enqueueBotRun(c)
      PROVE  userRunning' \subseteq userRunning /\ CommitsAsBefore
  BY <1>5 DEF enqueueBotRun, looked
<1>6. ASSUME c \in Requests, NEW removed \in BOOLEAN, cancelBotRun(c, removed)
      PROVE  userRunning' \subseteq userRunning /\ CommitsAsBefore
  BY <1>6 DEF cancelBotRun
<1>7. ASSUME c \in Requests, deleteBot(c)
      PROVE  userRunning' \subseteq userRunning /\ CommitsAsBefore
  BY <1>7 DEF deleteBot
<1>8. ASSUME enqueueAdd(c) PROVE userRunning' \subseteq userRunning /\ CommitsAsBefore
  BY <1>8 DEF enqueueAdd
<1>9. ASSUME enqueueFails(c) PROVE userRunning' \subseteq userRunning /\ CommitsAsBefore
  BY <1>9 DEF enqueueFails, markedError
<1>10. ASSUME callerDies(c) PROVE userRunning' \subseteq userRunning /\ CommitsAsBefore
  <2>1. userRunning' \subseteq userRunning
    BY <1>10 DEF callerDies
  <2>2. ASSUME NEW d \in Callers, caller'[d].pc = "commit"
        PROVE  caller'[d] = caller[d] /\ admission' = admission
    <3>1. d # c /\ caller'[d] = caller[d]
      BY <1>10, <2>2 DEF callerDies
    <3>2. d = admission
      BY <2>2, <3>1 DEF AdmittedFits
    <3> QED
      BY <1>10, <3>1, <3>2 DEF callerDies
  <2> QED
    BY <2>1, <2>2
<1> HIDE DEF BotRunsInv, BotRunsTypeOK, CallRec, userRunning, isActive, NoCall
<1> QED
  BY <1>1, <1>2, <1>3, <1>4, <1>5, <1>6, <1>7, <1>8, <1>9, <1>10, NothingStarts DEF UserNext

\* Workers, the queue, timers and the chain's jobs start no bot of the user.
LEMMA OtherQuota ==
    ASSUME BotRunsInv,
           \/ \E w \in Workers : WorkerNext(w)
           \/ recoverRunningBotJobs
           \/ \E b \in Bots : \/ recoverNext(b)
                              \/ promoteBotVaultExecutionActive(b) \/ markGridProvisioningPending(b)
                              \/ windowElapses(b) \/ jobStalls(b) \/ queueFailedEvent(b)
    PROVE  RunningWithinQuota' /\ AdmittedFits'
<1> USE DEF BotRunsInv, BotRunsTypeOK, CallRec, userRunning, isActive
<1>1. ASSUME NEW w \in Workers, WorkerNext(w)
      PROVE  userRunning' \subseteq userRunning /\ UNCHANGED <<caller, admission>>
  BY <1>1 DEF WorkerNext, LoopStep, processRunBotJob, getBotStatus, tickSucceeds, tickFails,
       applyCircuitBreakerError, loopReturns, botConfigIncomplete, shutdownRequested, loopThrows,
       crash, markedError
<1>2. ASSUME NEW b \in Bots, recoverNext(b)
      PROVE  /\ userRunning' \subseteq userRunning /\ UNCHANGED admission
             /\ \A d \in Callers : caller'[d].pc = "commit" => caller'[d] = caller[d]
  BY <1>2 DEF recoverNext, looked, NoCall
<1>3. ASSUME NEW b \in Bots,
             \/ promoteBotVaultExecutionActive(b) \/ markGridProvisioningPending(b)
             \/ queueFailedEvent(b)
      PROVE  userRunning' \subseteq userRunning /\ UNCHANGED <<caller, admission>>
  BY <1>3 DEF promoteBotVaultExecutionActive, markGridProvisioningPending, queueFailedEvent,
       markedError
<1>4. ASSUME NEW b \in Bots, windowElapses(b) \/ jobStalls(b)
      PROVE  userRunning' \subseteq userRunning /\ UNCHANGED <<caller, admission>>
  BY <1>4 DEF windowElapses, jobStalls
<1>5. ASSUME recoverRunningBotJobs
      PROVE  userRunning' \subseteq userRunning /\ UNCHANGED <<caller, admission>>
  BY <1>5 DEF recoverRunningBotJobs
<1> HIDE DEF BotRunsInv, BotRunsTypeOK, CallRec, userRunning, isActive
<1> QED
  BY <1>1, <1>2, <1>3, <1>4, <1>5, NothingStarts

-----------------------------------------------------------------------------
(* The theorems. *)

\* The inductive invariant holds in every reachable state, for any number of
\* bots, workers and requests in flight.
THEOREM Invariance == BotRunsSpec => []BotRunsInv
<1>1. BotRunsInit => BotRunsInv
  <2> SUFFICES ASSUME BotRunsInit PROVE BotRunsInv
    OBVIOUS
  <2>1. BotRunsTypeOK /\ BusyWithBot
    BY InitTypes
  <2>2. userRunning = {}
    BY DEF BotRunsInit, userRunning, isActive
  <2>3. RunningWithinQuota
    BY <2>2, FS_EmptySet, BotRunsAssumption DEF RunningWithinQuota
  <2>4. AdmittedFits
    BY DEF BotRunsInit, AdmittedFits, NoCall
  <2> QED
    BY <2>1, <2>3, <2>4 DEF BotRunsInv
<1>2. BotRunsInv /\ [BotRunsNext]_botVars => BotRunsInv'
  <2> SUFFICES ASSUME BotRunsInv, [BotRunsNext]_botVars PROVE BotRunsInv'
    OBVIOUS
  <2>1. ASSUME NEW c \in Callers,
               \/ c \in Requests /\ UserNext(c)
               \/ enqueueAdd(c) \/ enqueueFails(c) \/ callerDies(c)
        PROVE  BotRunsInv'
    BY <2>1, CallerTypes, CallerQuota DEF BotRunsInv
  <2>2. ASSUME NEW w \in Workers, WorkerNext(w) PROVE BotRunsInv'
    BY <2>2, WorkerTypes, OtherQuota DEF BotRunsInv
  <2>3. ASSUME recoverRunningBotJobs PROVE BotRunsInv'
    <3>1. BotRunsTypeOK' /\ BusyWithBot'
      BY <2>3 DEF BotRunsInv, BotRunsTypeOK, BusyWithBot, recoverRunningBotJobs
    <3> QED
      BY <2>3, <3>1, OtherQuota DEF BotRunsInv
  <2>4. ASSUME NEW b \in Bots,
               \/ recoverNext(b)
               \/ promoteBotVaultExecutionActive(b) \/ markGridProvisioningPending(b)
               \/ windowElapses(b) \/ jobStalls(b) \/ queueFailedEvent(b)
        PROVE  BotRunsInv'
    BY <2>4, EnvironmentTypes, OtherQuota DEF BotRunsInv
  <2>5. CASE UNCHANGED botVars
    BY <2>5 DEF botVars, BotRunsInv, BotRunsTypeOK, BusyWithBot, RunningWithinQuota, AdmittedFits,
         withStart, userRunning, isActive
  <2> QED
    BY <2>1, <2>2, <2>3, <2>4, <2>5 DEF BotRunsNext, Callers
<1> QED
  BY <1>1, <1>2, PTL DEF BotRunsSpec

\* Rows, jobs and processes are always of their types, and a job's lock is
\* held by a loop of its bot, across stalls, retries and crashes.
THEOREM TypeCorrect == BotRunsSpec => []BotRunsTypeOK
<1>1. BotRunsInv => BotRunsTypeOK
  BY DEF BotRunsInv
<1> QED
  BY <1>1, Invariance, PTL

\* The quota of quotaAdmission.ts holds for every number of concurrent starts,
\* stops and deletions, whatever the queue, the workers and the chain's jobs do.
THEOREM QuotaKept == BotRunsSpec => []RunningWithinQuota
<1>1. BotRunsInv => RunningWithinQuota
  BY DEF BotRunsInv
<1> QED
  BY <1>1, Invariance, PTL
=============================================================================
