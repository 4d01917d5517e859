---------------------------- MODULE QueueExecution ----------------------------
(***************************************************************************)
(* The queue path of the cloud job system: QueueExecutionAdapter submits   *)
(* rows (src/lib/server/cloud-execution.ts), worker processes poll, run    *)
(* and finish them (scripts/cloud-worker.mjs) through the worker endpoints *)
(* (src/routes/api/jobs/worker), users cancel them, and the cron reaper    *)
(* sweeps them (src/lib/inngest/functions/cloud-job-reaper.ts).            *)
(*                                                                         *)
(* Requests between a worker and the app can be lost before or after they  *)
(* take effect; a worker can crash at any point.                           *)
(***************************************************************************)
EXTENDS CloudJobs

CONSTANTS
  Concurrency,    \* CLOUD_WORKER_CONCURRENCY
  FinishAttempts  \* attempts of finish()

ASSUME WorkerAssumption == Concurrency \in Nat \ {0} /\ FinishAttempts \in Nat \ {0}

VARIABLES
  poll,   \* per worker, its claim request: "idle", "sweeping" or "claiming"
  exec,   \* per job, executeLease in the worker that claimed it
  engine  \* per job, runClaimedCloudJob in the app

vars == <<status, workerId, attempts, lease, late, cancelRequested, stored, logs,
          sweep, checked, poll, exec, engine>>

\* The locals of executeLease: where it is, why its AbortController was aborted,
\* the status finish() is sending and the attempts of it that have failed.
\* "lost": the worker never learned of the lease, or crashed while it had it.
Phase == {"none", "leased", "awaiting", "finishing", "done", "lost"}
Exec  == [phase  : Phase,
          abort  : {"none", "timeout", "settled"},
          intent : {"none", "succeeded", "failed", "timed_out"},
          tries  : 0..FinishAttempts-1]

At(phase) == [phase |-> phase, abort |-> "none", intent |-> "none", tries |-> 0]

InFlight(j) == exec[j].phase \in {"leased", "awaiting", "finishing"}

TypeOK ==
  /\ TableTypeOK
  /\ poll   \in [Workers -> {"idle", "sweeping", "claiming"}]
  /\ exec   \in [Jobs -> Exec]
  /\ engine \in [Jobs -> {"idle", "busy", "ok", "error"}]

Init ==
  /\ TableInit
  /\ poll   = [w \in Workers |-> "idle"]
  /\ exec   = [j \in Jobs |-> At("none")]
  /\ engine = [j \in Jobs |-> "idle"]

-----------------------------------------------------------------------------
(* The app's users, clock and reaper *)

Check(s)       == CheckEntitlement(s) /\ UNCHANGED <<poll, exec, engine>>
Submit(s, j)   == InsertJob(s, j)     /\ UNCHANGED <<poll, exec, engine>>
SubmitFails(s) == InsertFails(s)      /\ UNCHANGED <<poll, exec, engine>>
Cancel(j)      == CancelJob(j)        /\ UNCHANGED <<poll, exec, engine>>
ReapRead       == SweepRead(Cron)     /\ UNCHANGED <<poll, exec, engine>>
ReapUpdate     == SweepUpdate(Cron)   /\ UNCHANGED <<poll, exec, engine>>

\* Nobody reads the clock of a job that is settled and whose worker has left it.
Tick(j) ==
  /\ Active(j) \/ InFlight(j)
  /\ TimeoutPasses(j)
  /\ UNCHANGED <<poll, exec, engine>>

LeaseTick(j) == LeaseRunsOut(j) /\ UNCHANGED <<poll, exec, engine>>

-----------------------------------------------------------------------------
(* Polling: the claim endpoint sweeps first, then claims *)

HasSlot(w) == Cardinality({j \in Jobs : workerId[j] = w /\ InFlight(j)}) < Concurrency

PollStart(w) ==
  /\ poll[w] = "idle"
  /\ HasSlot(w)
  /\ \/ SweepRead(w) /\ poll' = [poll EXCEPT ![w] = "sweeping"]
     \/ ExpiredJobs = {} /\ poll' = [poll EXCEPT ![w] = "claiming"] /\ UNCHANGED tableVars
  /\ UNCHANGED <<exec, engine>>

\* The endpoint swallows a failure of its sweep.
PollSwept(w) ==
  /\ poll[w] = "sweeping"
  /\ SweepUpdate(w) \/ SweepFails(w)
  /\ poll' = [poll EXCEPT ![w] = "claiming"]
  /\ UNCHANGED <<exec, engine>>

\* Faulty variant: the candidate row is handed out without the UPDATE.
PollClaims_NoUpdate(w, j) ==
  /\ poll[w] = "claiming"
  /\ Claimable(j)
  /\ poll' = [poll EXCEPT ![w] = "idle"]
  /\ exec' = [exec EXCEPT ![j] = At("leased")]
  /\ UNCHANGED <<tableVars, engine>>

\* The lease reaches the worker, which starts executeLease; or it is lost with its
\* answer, or answers the probe a worker sends when it starts, which drops it.
PollClaims(w, j) ==
  /\ poll[w] = "claiming"
  /\ ClaimJob(j, w)
  /\ poll' = [poll EXCEPT ![w] = "idle"]
  /\ \E phase \in {"leased", "lost"} : exec' = [exec EXCEPT ![j] = At(phase)]
  /\ UNCHANGED engine

\* There is nothing to claim, or the statement fails.
PollEmpty(w) ==
  /\ poll[w] = "claiming"
  /\ poll' = [poll EXCEPT ![w] = "idle"]
  /\ UNCHANGED <<tableVars, exec, engine>>

-----------------------------------------------------------------------------
(* The run request and the work it does in the app *)

\* runClaimedCloudJob checks that the row is running for this worker.
RunAccepted(j) ==
  /\ exec[j].phase = "leased"
  /\ RunningFor(j, workerId[j])
  /\ exec'   = [exec EXCEPT ![j].phase = "awaiting"]
  /\ engine' = [engine EXCEPT ![j] = "busy"]
  /\ UNCHANGED <<tableVars, poll>>

\* The work ends whatever happened to the row or to the worker: nothing stops it.
EngineEnds(j) ==
  /\ engine[j] = "busy"
  /\ \E outcome \in {"ok", "error"} : engine' = [engine EXCEPT ![j] = outcome]
  /\ UNCHANGED <<tableVars, poll, exec>>

\* Lines are appended while the work runs.  A run that rejects on its own timer
\* does not wait for the appends it has issued.
EngineLogs(j) ==
  /\ engine[j] \in {"busy", "error"}
  /\ AppendLogs(j, workerId[j])
  /\ UNCHANGED <<poll, exec, engine>>

\* The catch block: quiet when the server settled the job, 'timed_out' when the
\* timer fired, else 'failed'.
Caught(e) ==
  IF e.abort = "settled"
  THEN At("done")
  ELSE [phase  |-> "finishing",
        abort  |-> e.abort,
        intent |-> IF e.abort = "timeout" THEN "timed_out" ELSE "failed",
        tries  |-> 0]

\* Faulty variant: an error answer is taken for a result.
RunReturns_StatusIgnored(j) ==
  /\ exec[j].phase = "awaiting"
  /\ engine[j] \in {"ok", "error"}
  /\ exec' = [exec EXCEPT ![j].phase = "finishing", ![j].intent = "succeeded"]
  /\ UNCHANGED <<tableVars, poll, engine>>

\* The answer arrives and the result file is written.  An abort is not looked at.
RunReturns(j) ==
  /\ exec[j].phase = "awaiting"
  /\ engine[j] = "ok"
  /\ exec' = [exec EXCEPT ![j].phase = "finishing", ![j].intent = "succeeded"]
  /\ UNCHANGED <<tableVars, poll, engine>>

\* The scratch directory or the result file cannot be written, the app refuses
\* the run or reports its error, or the connection breaks (the work may go on).
RunFails(j) ==
  /\ exec[j].phase \in {"leased", "awaiting"}
  /\ exec' = [exec EXCEPT ![j] = Caught(@)]
  /\ UNCHANGED <<tableVars, poll, engine>>

-----------------------------------------------------------------------------
(* finish(): up to FinishAttempts requests *)

\* Faulty variants: one attempt too many, and a retry that is not counted.
AttemptFailed_OneTooMany(e) ==
  IF e.tries < FinishAttempts    THEN [e EXCEPT !.tries = @ + 1]
  ELSE IF e.intent = "succeeded" THEN Caught(e)
  ELSE At("done")

AttemptFailed_NotCounted(e) == e

\* One more attempt has failed.  When it was the last, finish() throws: out of
\* the try block into the catch block, or out of the catch block for good.
AttemptFailed(e) ==
  IF e.tries + 1 < FinishAttempts THEN [e EXCEPT !.tries = @ + 1]
  ELSE IF e.intent = "succeeded"  THEN Caught(e)
  ELSE At("done")

\* The request takes effect, and its answer arrives or is lost.
FinishTakes(j) ==
  /\ exec[j].phase = "finishing"
  /\ FinishJob(j, workerId[j], exec[j].intent, exec[j].intent = "succeeded")
  /\ \E after \in {At("done"), AttemptFailed(exec[j])} : exec' = [exec EXCEPT ![j] = after]
  /\ UNCHANGED <<poll, engine>>

\* The request is lost, or the row no longer matches (404).
FinishRefused(j) ==
  /\ exec[j].phase = "finishing"
  /\ exec' = [exec EXCEPT ![j] = AttemptFailed(@)]
  /\ UNCHANGED <<tableVars, poll, engine>>

\* The endpoint cannot read the result file (400): not retried.
FinishUnreadable(j) ==
  /\ exec[j].phase = "finishing"
  /\ exec[j].intent = "succeeded"
  /\ exec' = [exec EXCEPT ![j] = Caught(@)]
  /\ UNCHANGED <<tableVars, poll, engine>>

-----------------------------------------------------------------------------
(* The worker's heartbeat loop, its timer, and its crash *)

Heartbeat(j) ==
  /\ InFlight(j)
  /\ exec[j].abort = "none"
  /\ ExtendLease(j, workerId[j])
  /\ UNCHANGED <<poll, exec, engine>>

\* Faulty variant: any failed heartbeat counts as a settled job.
HeartbeatGone_AnyFailure(j) ==
  /\ InFlight(j)
  /\ exec[j].abort = "none"
  /\ exec' = [exec EXCEPT ![j].abort = "settled"]
  /\ UNCHANGED <<tableVars, poll, engine>>

\* 404: the job was cancelled or reaped.
HeartbeatGone(j) ==
  /\ InFlight(j)
  /\ exec[j].abort = "none"
  /\ ~RunningFor(j, workerId[j])
  /\ exec' = [exec EXCEPT ![j].abort = "settled"]
  /\ UNCHANGED <<tableVars, poll, engine>>

TimerFires(j) ==
  /\ InFlight(j)
  /\ exec[j].abort = "none"
  /\ late[j]
  /\ exec' = [exec EXCEPT ![j].abort = "timeout"]
  /\ UNCHANGED <<tableVars, poll, engine>>

\* The process dies with its leases.  A claim request it had open is still
\* served by the app.
Crash(w) ==
  /\ \E j \in Jobs : workerId[j] = w /\ InFlight(j)
  /\ exec' = [j \in Jobs |-> IF workerId[j] = w /\ InFlight(j) THEN At("lost") ELSE exec[j]]
  /\ UNCHANGED <<tableVars, poll, engine>>

-----------------------------------------------------------------------------
Next ==
  \/ \E s \in Submitters : Check(s) \/ SubmitFails(s)
  \/ \E s \in Submitters, j \in Jobs : Submit(s, j)
  \/ \E j \in Jobs : Cancel(j) \/ Tick(j) \/ LeaseTick(j)
  \/ ReapRead \/ ReapUpdate
  \/ \E w \in Workers : PollStart(w) \/ PollSwept(w) \/ PollEmpty(w) \/ Crash(w)
  \/ \E w \in Workers, j \in Jobs : PollClaims(w, j)
  \/ \E j \in Jobs : RunAccepted(j) \/ EngineEnds(j) \/ EngineLogs(j) \/ RunReturns(j) \/ RunFails(j)
  \/ \E j \in Jobs : FinishTakes(j) \/ FinishRefused(j) \/ FinishUnreadable(j)
  \/ \E j \in Jobs : Heartbeat(j) \/ HeartbeatGone(j) \/ TimerFires(j)

\* The clock runs, and Inngest runs the reaper every minute.  A worker that is
\* alive reacts to its answers, and no request stays open for ever (fetch gives
\* up on a silent server), which RunFails and FinishRefused stand for.  Nothing
\* is assumed of heartbeats, of the work in the app or of polling.
RunAnswered(j)    == RunAccepted(j) \/ RunReturns(j) \/ RunFails(j)
FinishAnswered(j) == FinishTakes(j) \/ FinishRefused(j) \/ FinishUnreadable(j)

ClockRuns(j)    == WF_vars(Tick(j))
ReaperRuns      == WF_vars(ReapRead) /\ WF_vars(ReapUpdate)
WorkerReacts(j) == WF_vars(RunAnswered(j)) /\ WF_vars(FinishAnswered(j))

Fairness ==
  /\ \A j \in Jobs : ClockRuns(j) /\ WorkerReacts(j)
  /\ ReaperRuns

Spec     == Init /\ [][Next]_vars
FairSpec == Spec /\ Fairness

-----------------------------------------------------------------------------
(* Properties *)

\* Nothing reads 'succeeded' unless the work was run to a successful end, and it
\* was run for the one worker that claimed the job.
SucceededMeansRan ==
  \A j \in Jobs : status[j] = "succeeded" \/ stored[j] =>
    engine[j] = "ok" /\ workerId[j] # NoWorker

\* The work of a job is started once, and only while its row is running for the
\* worker that claimed it: not for a job that was settled in the queue, not by a
\* second worker, and not again after a lost answer or an expired lease.
WorkStartsOnce ==
  [][\A j \in Jobs : engine'[j] = "busy" /\ engine[j] # "busy" =>
       engine[j] = "idle" /\ status[j] = "running" /\ attempts[j] = 1]_engine

\* A worker stops only the work of a job that is settled: an abort with the
\* reason 'Job settled server-side.' is never a false alarm.
SettledAbortIsTrue ==
  \A j \in Jobs : exec[j].abort = "settled" => Terminal(j)

\* No job stays open for ever, whatever its worker does: neither a crashed worker
\* nor one that renews its lease for ever keeps the row from being settled.
JobsSettle == \A j \in Jobs : Active(j) ~> Terminal(j)

\* A worker gets its slot back, also when the job was settled under it or when
\* none of its finish requests is answered.
SlotsReturn == \A j \in Jobs : InFlight(j) ~> ~InFlight(j)
=============================================================================
