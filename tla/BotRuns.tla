------------------------------- MODULE BotRuns -------------------------------
(***************************************************************************)
(* How bots are started, run and stopped: the API's start, stop and delete *)
(* requests with the quota admission they pass                             *)
(* (apps/api/src/admission/quotaAdmission.ts), the job queue               *)
(* (apps/api/src/orchestration.ts), the worker loops with their circuit    *)
(* breaker (apps/runner/src/index.ts, circuit-breaker.ts) and the recovery *)
(* cycle that re-queues running bots (apps/api/src/bot-run-recovery.ts).   *)
(*                                                                         *)
(* All bots belong to one user, one whom the product gates apply to (no    *)
(* administrator's bypass).  Every database or queue call that decides     *)
(* something is a step; a call whose result nothing can disturb before the *)
(* next one is part of that one.  Of the runtime row only the errors in    *)
(* the circuit breaker's open window are kept (none once it has elapsed):  *)
(* the row's status, reason and heartbeat are written by every party,      *)
(* shown to users and read by no decision.                                 *)
(***************************************************************************)
EXTENDS Integers, FiniteSets

CONSTANTS
    Bots,
    VaultBots,        \* grid bots run by the bot vault supervisor, not by the queue
    Workers,          \* job slots of all runner processes
    Requests,         \* API requests in flight
    Recovery,         \* the recovery cycle
    None,             \* no bot, worker or request
    MaxRunningBots,   \* the plan's quota
    MaxErrors         \* BOT_CB_MAX_ERRORS

ASSUME BotRunsAssumption ==
    /\ IsFiniteSet(Bots) /\ VaultBots \subseteq Bots
    /\ None \notin Bots \cup Workers \cup Requests
    /\ Recovery \notin Requests
    /\ MaxRunningBots \in Nat /\ MaxErrors \in Nat \ {0}

Callers == Requests \cup {Recovery}

VARIABLES
    status,      \* Bot.status
    breaker,     \* consecutiveErrors within the window of errorWindowStartAt
    job,         \* the bot's job in the queue and the worker that holds its lock
    failures,    \* bots whose "failed" queue event is not handled yet
    loop,        \* processRunBotJob, per worker
    caller,      \* requests and the recovery cycle
    admission,   \* holder of the user's advisory lock
    todo         \* bots the recovery cycle has still to enqueue

botVars == <<status, breaker, job, failures, loop, caller, admission, todo>>

NoJob == [state |-> "none", owner |-> None]
NoLoop == [pc |-> "idle", bot |-> None, held |-> 0]
NoCall == [pc |-> "idle", bot |-> None, flag |-> FALSE]

BotRunsInit ==
    /\ status = [b \in Bots |-> "stopped"]
    /\ breaker = [b \in Bots |-> 0]
    /\ job = [b \in Bots |-> NoJob]
    /\ failures = {}
    /\ loop = [w \in Workers |-> NoLoop]
    /\ caller = [c \in Callers |-> NoCall]
    /\ admission = None
    /\ todo = {}

exists(b) == status[b] # "deleted"

\* markBotAsError ignores a bot that was deleted.
markedError(b) == [status EXCEPT ![b] = IF exists(b) THEN "error" ELSE @]

-----------------------------------------------------------------------------
(* Starting a bot: quota admission, then the queue. *)

isActive(b) == status[b] = "running"

enforceBotStartLicense(b) ==
    isActive(b) \/ Cardinality({q \in Bots : isActive(q)}) < MaxRunningBots

\* Mutant: the lock is not waited for.
admitBotStart_unlocked(r, b) ==
    /\ caller[r].pc = "idle" /\ exists(b)
    /\ enforceBotStartLicense(b)
    /\ admission' = r
    /\ caller' = [caller EXCEPT ![r] = [NoCall EXCEPT !.pc = "commit", !.bot = b]]
    /\ UNCHANGED <<status, breaker, job, failures, loop, todo>>

\* The transaction takes the user's advisory lock, reads the bot and counts;
\* the license decides.  A denied start changes nothing.
admitBotStart(r, b) ==
    /\ caller[r].pc = "idle" /\ admission = None /\ exists(b)
    /\ enforceBotStartLicense(b)
    /\ admission' = r
    /\ caller' = [caller EXCEPT ![r] = [NoCall EXCEPT !.pc = "commit", !.bot = b]]
    /\ UNCHANGED <<status, breaker, job, failures, loop, todo>>

\* The transition callback and the commit.  A grid bot may also be started
\* through its grid instance (grid/lifecycle.ts), which does not enqueue it.
commitStart(r) ==
    /\ caller[r].pc = "commit"
    /\ LET b == caller[r].bot IN
       /\ status' = [status EXCEPT ![b] = IF exists(b) THEN "running" ELSE @]
       /\ \/ exists(b) /\ caller' = [caller EXCEPT ![r] = [@ EXCEPT !.pc = "look"]]
          \/ (exists(b) => b \in VaultBots) /\ caller' = [caller EXCEPT ![r] = NoCall]
    /\ admission' = None
    /\ UNCHANGED <<breaker, job, failures, loop, todo>>

\* The onchain indexer, and likewise the reconciliation job: the grid bot of a
\* funded vault is set running without admission; while its vault waits for
\* funds it is set stopped.
promoteBotVaultExecutionActive(b) ==
    /\ b \in VaultBots /\ exists(b)
    /\ status' = [status EXCEPT ![b] = "running"]
    /\ UNCHANGED <<breaker, job, failures, loop, caller, admission, todo>>

markGridProvisioningPending(b) ==
    /\ b \in VaultBots /\ exists(b)
    /\ status' = [status EXCEPT ![b] = "stopped"]
    /\ UNCHANGED <<breaker, job, failures, loop, caller, admission, todo>>

\* Mutant: a failed job counts as queued.
isTerminalJobState_completed(s) == s = "completed"

isTerminalJobState(s) == s \in {"completed", "failed"}

\* Job.remove() fails on a job whose lock is held.
removable(b) == job[b].state # "active" \/ job[b].owner = None

\* enqueueBotRunInQueue, up to the state of the existing job.
looked(b) ==
    LET s == job[b].state IN
    IF s = "none" \/ isTerminalJobState(s)
    THEN [pc |-> "add", bot |-> b, flag |-> isTerminalJobState(s)] ELSE NoCall

enqueueBotRun(r) ==
    /\ caller[r].pc = "look"
    /\ caller' = [caller EXCEPT ![r] = looked(@.bot)]
    /\ UNCHANGED <<status, breaker, job, failures, loop, admission, todo>>

\* The terminal job is removed if it can be, and a job whose id exists is
\* not added again.
enqueueAdd(c) ==
    /\ caller[c].pc = "add"
    /\ LET b == caller[c].bot
           free == job[b].state = "none" \/ (caller[c].flag /\ removable(b))
       IN  job' = [job EXCEPT ![b] = IF free THEN [NoJob EXCEPT !.state = "waiting"] ELSE @]
    /\ caller' = [caller EXCEPT ![c] = NoCall]
    /\ UNCHANGED <<status, breaker, failures, loop, admission, todo>>

\* Redis is unavailable: a start puts the bot into error (a failure of that
\* write goes unnoticed), the recovery cycle goes on with the next bot.
enqueueFails(c) ==
    /\ caller[c].pc \in {"look", "add"}
    /\ \/ UNCHANGED status
       \/ c \in Requests /\ status' = markedError(caller[c].bot)
    /\ caller' = [caller EXCEPT ![c] = NoCall]
    /\ UNCHANGED <<breaker, job, failures, loop, admission, todo>>

-----------------------------------------------------------------------------
(* Stopping and deleting. *)

requestStop(r, b) ==
    /\ caller[r].pc = "idle" /\ exists(b)
    /\ status' = [status EXCEPT ![b] = "stopped"]
    /\ caller' = [caller EXCEPT ![r] = [NoCall EXCEPT !.pc = "cancel", !.bot = b]]
    /\ UNCHANGED <<breaker, job, failures, loop, admission, todo>>

requestDelete(r, b) ==
    /\ caller[r].pc = "idle" /\ exists(b)
    /\ caller' = [caller EXCEPT ![r] = [pc |-> "cancel", bot |-> b, flag |-> TRUE]]
    /\ UNCHANGED <<status, breaker, job, failures, loop, admission, todo>>

\* Failures are ignored by both callers: the job may also stay.
cancelBotRun(r, removed) ==
    /\ caller[r].pc = "cancel"
    /\ LET b == caller[r].bot IN
       job' = [job EXCEPT ![b] = IF removed /\ removable(b) THEN NoJob ELSE @]
    /\ caller' = [caller EXCEPT ![r] = IF @.flag THEN [@ EXCEPT !.pc = "delete"] ELSE NoCall]
    /\ UNCHANGED <<status, breaker, failures, loop, admission, todo>>

deleteBot(r) ==
    /\ caller[r].pc = "delete"
    /\ status' = [status EXCEPT ![caller[r].bot] = "deleted"]
    /\ caller' = [caller EXCEPT ![r] = NoCall]
    /\ UNCHANGED <<breaker, job, failures, loop, admission, todo>>

\* The API process dies; an open transaction is rolled back.
callerDies(c) ==
    /\ caller[c].pc # "idle"
    /\ caller' = [caller EXCEPT ![c] = NoCall]
    /\ admission' = IF admission = c THEN None ELSE admission
    /\ todo' = IF c = Recovery THEN {} ELSE todo
    /\ UNCHANGED <<status, breaker, job, failures, loop>>

-----------------------------------------------------------------------------
(* The recovery cycle, at start-up and every 30 seconds, never two at once. *)

recoverRunningBotJobs ==
    /\ caller[Recovery].pc = "idle" /\ todo = {}
    /\ todo' = {b \in Bots : status[b] = "running"}
    /\ UNCHANGED <<status, breaker, job, failures, loop, caller, admission>>

recoverNext(b) ==
    /\ caller[Recovery].pc = "idle" /\ b \in todo
    /\ todo' = todo \ {b}
    /\ caller' = [caller EXCEPT ![Recovery] = looked(b)]
    /\ UNCHANGED <<status, breaker, job, failures, loop, admission>>

-----------------------------------------------------------------------------
(* The worker loop. *)

goto(w, pc) == [loop EXCEPT ![w].pc = pc]

\* The job becomes active; job_active only touches the runtime row's status.
processRunBotJob(w, b) ==
    /\ loop[w].pc = "idle" /\ job[b].state = "waiting"
    /\ job' = [job EXCEPT ![b] = [state |-> "active", owner |-> w]]
    /\ loop' = [loop EXCEPT ![w] = [NoLoop EXCEPT !.pc = "read", !.bot = b]]
    /\ UNCHANGED <<status, breaker, failures, caller, admission, todo>>

\* Mutant: the status is not looked at again.
getBotStatus_ignored(w) ==
    /\ loop[w].pc = "read"
    /\ loop' = goto(w, "tick")
    /\ UNCHANGED <<status, breaker, job, failures, caller, admission, todo>>

\* One turn of the loop up to the tick: stop requested, delegated or on.
getBotStatus(w) ==
    /\ loop[w].pc = "read"
    /\ loop' = goto(w, IF isActive(loop[w].bot) /\ loop[w].bot \notin VaultBots
                       THEN "tick" ELSE "return")
    /\ UNCHANGED <<status, breaker, job, failures, caller, admission, todo>>

\* loadBotForExecution finds no usable configuration.
botConfigIncomplete(w) ==
    /\ loop[w].pc = "tick"
    /\ status' = markedError(loop[w].bot)
    /\ loop' = goto(w, "return")
    /\ UNCHANGED <<breaker, job, failures, caller, admission, todo>>

shutdownRequested(w) ==
    /\ loop[w].pc = "read"
    /\ loop' = goto(w, "return")
    /\ UNCHANGED <<status, breaker, job, failures, caller, admission, todo>>

tickSucceeds(w) ==
    /\ loop[w].pc = "tick"
    /\ loop' = goto(w, "read")
    /\ UNCHANGED <<status, breaker, job, failures, caller, admission, todo>>

\* Mutant: every error opens a new window.
circuitBreakerOutcome_restarted(errors) == 1

\* applyCircuitBreakerOutcome; the count is kept up to the limit it is
\* compared with.
circuitBreakerOutcome(errors) == IF errors < MaxErrors THEN errors + 1 ELSE errors

\* The tick throws and getBotRuntimeCircuitBreakerState is read.
tickFails(w) ==
    /\ loop[w].pc = "tick"
    /\ loop' = [loop EXCEPT ![w] = [@ EXCEPT !.pc = "write",
                                    !.held = circuitBreakerOutcome(breaker[loop[w].bot])]]
    /\ UNCHANGED <<status, breaker, job, failures, caller, admission, todo>>

\* Promise.allSettled: each of the two writes may fail unnoticed.
applyCircuitBreakerError(w, saved, marked) ==
    /\ loop[w].pc = "write"
    /\ LET b == loop[w].bot
           tripped == loop[w].held >= MaxErrors
       IN  /\ breaker' = IF saved THEN [breaker EXCEPT ![b] = loop[w].held] ELSE breaker
           /\ status' = IF tripped /\ marked THEN markedError(b) ELSE status
           /\ loop' = [loop EXCEPT ![w] = [@ EXCEPT !.pc = IF tripped THEN "return" ELSE "read",
                                                    !.held = 0]]
    /\ UNCHANGED <<job, failures, caller, admission, todo>>

windowElapses(b) ==
    /\ breaker[b] > 0
    /\ breaker' = [breaker EXCEPT ![b] = 0]
    /\ UNCHANGED <<status, job, failures, loop, caller, admission, todo>>

-----------------------------------------------------------------------------
(* The end of a job.  A loop that has lost its job's lock changes nothing. *)

ownsJob(w) == loop[w].bot # None /\ job[loop[w].bot].owner = w

loopReturns(w) ==
    /\ loop[w].pc = "return"
    /\ job' = IF ownsJob(w) THEN [job EXCEPT ![loop[w].bot] = [NoJob EXCEPT !.state = "completed"]]
                            ELSE job
    /\ loop' = [loop EXCEPT ![w] = NoLoop]
    /\ UNCHANGED <<status, breaker, failures, caller, admission, todo>>

\* The queue retries a job or, attempts or stalls exhausted, gives it up.
retryOrFail(b) ==
    \/ /\ job' = [job EXCEPT ![b] = [NoJob EXCEPT !.state = "waiting"]]
       /\ UNCHANGED failures
    \/ /\ job' = [job EXCEPT ![b] = [NoJob EXCEPT !.state = "failed"]]
       /\ failures' = failures \cup {b}

\* A database call outside loopOnce and the circuit breaker's writes throws.
loopThrows(w) ==
    /\ loop[w].pc \in {"read", "tick", "return"}
    /\ IF ownsJob(w) THEN retryOrFail(loop[w].bot) ELSE UNCHANGED <<job, failures>>
    /\ loop' = [loop EXCEPT ![w] = NoLoop]
    /\ UNCHANGED <<status, breaker, caller, admission, todo>>

\* Mutant: the lock of a dead worker never expires.
crash_keepsLock(w) ==
    /\ loop[w].pc # "idle"
    /\ loop' = [loop EXCEPT ![w] = NoLoop]
    /\ UNCHANGED <<status, breaker, job, failures, caller, admission, todo>>

crash(w) ==
    /\ loop[w].pc # "idle"
    /\ job' = IF ownsJob(w) THEN [job EXCEPT ![loop[w].bot].owner = None] ELSE job
    /\ loop' = [loop EXCEPT ![w] = NoLoop]
    /\ UNCHANGED <<status, breaker, failures, caller, admission, todo>>

\* The lock was not renewed, because its worker died or was blocked too long;
\* in the second case the loop goes on beside the job's next run.
jobStalls(b) ==
    /\ job[b].state = "active"
    /\ retryOrFail(b)
    /\ UNCHANGED <<status, breaker, loop, caller, admission, todo>>

\* The write is not awaited and may fail unnoticed.
queueFailedEvent(b) ==
    /\ b \in failures
    /\ failures' = failures \ {b}
    /\ status' = markedError(b) \/ UNCHANGED status
    /\ UNCHANGED <<breaker, job, loop, caller, admission, todo>>

-----------------------------------------------------------------------------
UserNext(r) ==
    \/ \E b \in Bots : admitBotStart(r, b) \/ requestStop(r, b) \/ requestDelete(r, b)
    \/ commitStart(r) \/ enqueueBotRun(r)
    \/ \E removed \in BOOLEAN : cancelBotRun(r, removed)
    \/ deleteBot(r)

LoopStep(w) ==
    \/ getBotStatus(w) \/ tickSucceeds(w) \/ tickFails(w)
    \/ applyCircuitBreakerError(w, TRUE, TRUE) \/ loopReturns(w)

WorkerNext(w) ==
    \/ \E b \in Bots : processRunBotJob(w, b)
    \/ LoopStep(w)
    \/ \E saved, marked \in BOOLEAN : applyCircuitBreakerError(w, saved, marked)
    \/ botConfigIncomplete(w) \/ shutdownRequested(w) \/ loopThrows(w) \/ crash(w)

BotRunsNext ==
    \/ \E r \in Requests : UserNext(r)
    \/ \E c \in Callers : enqueueAdd(c) \/ enqueueFails(c) \/ callerDies(c)
    \/ recoverRunningBotJobs \/ (\E b \in Bots : recoverNext(b))
    \/ \E w \in Workers : WorkerNext(w)
    \/ \E b \in Bots : \/ promoteBotVaultExecutionActive(b) \/ markGridProvisioningPending(b)
                       \/ windowElapses(b) \/ jobStalls(b) \/ queueFailedEvent(b)

BotRunsSpec == BotRunsInit /\ [][BotRunsNext]_botVars

-----------------------------------------------------------------------------
JobRec == [state : {"none", "waiting", "active", "completed", "failed"},
           owner : Workers \cup {None}]
LoopRec == [pc : {"idle", "read", "tick", "write", "return"},
            bot : Bots \cup {None}, held : 0..MaxErrors]
CallRec == [pc : {"idle", "commit", "look", "add", "cancel", "delete"},
            bot : Bots \cup {None}, flag : BOOLEAN]

\* Rows, jobs and processes are of their types; a job's lock is held by a
\* loop of that bot.
BotRunsTypeOK ==
    /\ status \in [Bots -> {"stopped", "running", "error", "deleted"}]
    /\ breaker \in [Bots -> 0..MaxErrors]
    /\ job \in [Bots -> JobRec]
    /\ failures \subseteq Bots /\ todo \subseteq Bots
    /\ admission \in Requests \cup {None}
    /\ loop \in [Workers -> LoopRec]
    /\ caller \in [Callers -> CallRec]
    /\ \A b \in Bots : job[b].owner # None =>
                          job[b].state = "active" /\ loop[job[b].owner].bot = b

userRunning == {b \in Bots \ VaultBots : isActive(b)}

\* However start requests, stops, failing jobs and dying processes interleave,
\* the bots the user started are never more than the plan allows.  (Grid bots
\* that the chain's jobs set running come on top of them.)
RunningWithinQuota == Cardinality(userRunning) <= MaxRunningBots

-----------------------------------------------------------------------------
(* Progress.  Workers and the recovery timer keep going; processes may die,  *)
(* jobs stall and Redis fail again and again, but not at every attempt.      *)

BotRunsFairness ==
    /\ WF_botVars(recoverRunningBotJobs \/ \E b \in Bots : recoverNext(b))
    /\ SF_botVars(enqueueAdd(Recovery))
    /\ \A b \in Bots : /\ SF_botVars(\E w \in Workers : processRunBotJob(w, b))
                       /\ WF_botVars(job[b].owner = None /\ jobStalls(b))
                       /\ WF_botVars(queueFailedEvent(b))
    /\ \A w \in Workers : /\ WF_botVars(LoopStep(w))
                          /\ SF_botVars(getBotStatus(w))
                          /\ SF_botVars(applyCircuitBreakerError(w, TRUE, TRUE))

BotRunsFairSpec == BotRunsSpec /\ BotRunsFairness

ticking(b) == \E w \in Workers : loop[w].pc = "tick" /\ loop[w].bot = b

\* A bot that is left running keeps ticking: no start that met an old job, no
\* lost enqueue, no worker that died or shut down leaves it without a loop.
RunningBotsTick ==
    \A b \in Bots \ VaultBots : <>[](status[b] = "running") => []<>ticking(b)

\* A bot that is no longer running is left alone by every loop, also by one
\* that has lost its job to another worker.
StoppedBotsFallSilent ==
    \A b \in Bots : <>[](status[b] # "running") => <>[]~ticking(b)

\* A bot whose ticks go on failing within one window is put into error, also
\* when two loops overwrite each other's counts and a save is lost.
FaultyBotsHalt ==
    \A b \in Bots :
        (/\ []<><<\E w \in Workers : loop[w].bot = b /\ tickFails(w)>>_botVars
         /\ <>[][~windowElapses(b)]_botVars)
        => []<>(status[b] \in {"error", "deleted"})
=============================================================================
