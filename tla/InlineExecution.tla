---------------------------- MODULE InlineExecution ----------------------------
(***************************************************************************)
(* The inline path of the cloud job system (InlineExecutionAdapter of      *)
(* src/lib/server/cloud-execution.ts): the request handler that submits a  *)
(* job also runs it, in the app, racing the work against a timer, while    *)
(* users may cancel the row and the cron reaper may sweep it.  There are   *)
(* no workers, so the only sweeper is the cron function.                   *)
(***************************************************************************)
EXTENDS CloudJobs

CONSTANT NoJob  \* a handler that has not inserted its row yet

ASSUME NoJobAssumption == NoJob \notin Jobs

VARIABLES
  phase,    \* per submitter, where its request is after the entitlement check
  mine,     \* per submitter, the row its request inserted
  verdict,  \* per submitter, the status its finishCloudJob is about to write
  engine,   \* per job, the work that input.run started
  reply     \* per job, what the submitter was told: "none", "ok" or "error"

handlerVars == <<phase, mine, verdict>>
vars == <<status, workerId, attempts, lease, late, cancelRequested, stored, logs,
          sweep, checked, phase, mine, verdict, engine, reply>>

TypeOK ==
  /\ TableTypeOK
  /\ phase   \in [Submitters -> {"idle", "inserted", "running", "settling"}]
  /\ mine    \in [Submitters -> Jobs \cup {NoJob}]
  /\ verdict \in [Submitters -> {"none", "succeeded", "failed", "timed_out"}]
  /\ engine  \in [Jobs -> {"idle", "busy", "ok", "error"}]
  /\ reply   \in [Jobs -> {"none", "ok", "error"}]

Init ==
  /\ TableInit
  /\ phase   = [s \in Submitters |-> "idle"]
  /\ mine    = [s \in Submitters |-> NoJob]
  /\ verdict = [s \in Submitters |-> "none"]
  /\ engine  = [j \in Jobs |-> "idle"]
  /\ reply   = [j \in Jobs |-> "none"]

-----------------------------------------------------------------------------
(* The app's users, clock and reaper *)

Cancel(j)  == CancelJob(j)      /\ UNCHANGED <<handlerVars, engine, reply>>
ReapRead   == SweepRead(Cron)   /\ UNCHANGED <<handlerVars, engine, reply>>
ReapUpdate == SweepUpdate(Cron) /\ UNCHANGED <<handlerVars, engine, reply>>

\* Nobody reads the clock of a job that is settled and whose handler is gone.
Tick(j) ==
  /\ Active(j) \/ \E s \in Submitters : mine[s] = j
  /\ TimeoutPasses(j)
  /\ UNCHANGED <<handlerVars, engine, reply>>

-----------------------------------------------------------------------------
(* submit() *)

Check(s) ==
  /\ phase[s] = "idle"
  /\ CheckEntitlement(s)
  /\ UNCHANGED <<handlerVars, engine, reply>>

SubmitFails(s) == InsertFails(s) /\ UNCHANGED <<handlerVars, engine, reply>>

Insert(s, j) ==
  /\ phase[s] = "idle"
  /\ InsertJob(s, j)
  /\ phase' = [phase EXCEPT ![s] = "inserted"]
  /\ mine'  = [mine EXCEPT ![s] = j]
  /\ UNCHANGED <<verdict, engine, reply>>

\* markCloudJobRunning(...) ?? job: a row that is no longer queued is run as well.
Start(s) ==
  /\ phase[s] = "inserted"
  /\ \/ MarkRunning(mine[s])
     \/ status[mine[s]] # "queued" /\ UNCHANGED tableVars
  /\ engine' = [engine EXCEPT ![mine[s]] = "busy"]
  /\ phase'  = [phase EXCEPT ![s] = "running"]
  /\ UNCHANGED <<mine, verdict, reply>>

Settling(s, outcome) ==
  /\ phase'   = [phase EXCEPT ![s] = "settling"]
  /\ verdict' = [verdict EXCEPT ![s] = outcome]
  /\ UNCHANGED mine

Leave(s) ==
  /\ phase'   = [phase EXCEPT ![s] = "idle"]
  /\ mine'    = [mine EXCEPT ![s] = NoJob]
  /\ verdict' = [verdict EXCEPT ![s] = "none"]

\* markCloudJobRunning throws, outside the try block: the caller is told an error
\* while the row stays open, 'running' when only the answer was lost.  (An INSERT
\* whose answer was lost ends the same way.)
StartThrows(s) ==
  /\ phase[s] = "inserted"
  /\ MarkRunning(mine[s]) \/ UNCHANGED tableVars
  /\ reply' = [reply EXCEPT ![mine[s]] = "error"]
  /\ Leave(s)
  /\ UNCHANGED engine

\* Faulty variant: a rejected promise is not noticed.
RunEnds_ErrorIgnored(s) ==
  /\ phase[s] = "running"
  /\ \E outcome \in {"ok", "error"} : engine' = [engine EXCEPT ![mine[s]] = outcome]
  /\ Settling(s, "succeeded")
  /\ UNCHANGED <<tableVars, reply>>

\* The work ends first.  Its error may itself be a TimeoutError.
RunEnds(s) ==
  /\ phase[s] = "running"
  /\ \/ engine' = [engine EXCEPT ![mine[s]] = "ok"]    /\ Settling(s, "succeeded")
     \/ /\ engine' = [engine EXCEPT ![mine[s]] = "error"]
        /\ \E outcome \in {"failed", "timed_out"} : Settling(s, outcome)
  /\ UNCHANGED <<tableVars, reply>>

\* Faulty variant: the abort is recorded as a cancellation.
RunTimesOut_AsCancelled(s) ==
  /\ phase[s] = "running"
  /\ late[mine[s]]
  /\ Settling(s, "cancelled")
  /\ UNCHANGED <<tableVars, engine, reply>>

\* Faulty variant: the caller is told at once, and the race goes on.
RunTimesOut_AnswersEarly(s) ==
  /\ phase[s] = "running"
  /\ late[mine[s]]
  /\ reply' = [reply EXCEPT ![mine[s]] = "error"]
  /\ UNCHANGED <<tableVars, handlerVars, engine>>

\* The timer wins the race; the work is told to abort and may go on.
RunTimesOut(s) ==
  /\ phase[s] = "running"
  /\ late[mine[s]]
  /\ Settling(s, "timed_out")
  /\ UNCHANGED <<tableVars, engine, reply>>

\* input.signal wins it: the caller went away, or its own timer fired, so the
\* reason may be a TimeoutError too.  The work may go on here as well.
RunAborted(s) ==
  /\ phase[s] = "running"
  /\ \E outcome \in {"failed", "timed_out"} : Settling(s, outcome)
  /\ UNCHANGED <<tableVars, engine, reply>>

\* Work that lost the race, or whose handler died, ends on its own.
OrphanEnds(j) ==
  /\ engine[j] = "busy"
  /\ \A s \in Submitters : mine[s] = j => phase[s] = "settling"
  /\ \E outcome \in {"ok", "error"} : engine' = [engine EXCEPT ![j] = outcome]
  /\ UNCHANGED <<tableVars, handlerVars, reply>>

\* finishCloudJob matches, and the caller gets the result or the error.
SettleTakes(s) ==
  /\ phase[s] = "settling"
  /\ FinishJob(mine[s], NoWorker, verdict[s], FALSE)
  /\ reply' = [reply EXCEPT ![mine[s]] = IF verdict[s] = "succeeded" THEN "ok" ELSE "error"]
  /\ Leave(s)
  /\ UNCHANGED engine

\* It matches, but the connection to the database breaks before its answer: the
\* catch block then tries to record 'failed' over the success.
SettleUnconfirmed(s) ==
  /\ phase[s] = "settling"
  /\ verdict[s] = "succeeded"
  /\ FinishJob(mine[s], NoWorker, verdict[s], FALSE)
  /\ Settling(s, "failed")
  /\ UNCHANGED <<engine, reply>>

\* Faulty variant: the missing row is not noticed.
SettleMisses_Unnoticed(s) ==
  /\ phase[s] = "settling"
  /\ ~FinishMatches(mine[s], NoWorker)
  /\ reply' = [reply EXCEPT ![mine[s]] = IF verdict[s] = "succeeded" THEN "ok" ELSE "error"]
  /\ Leave(s)
  /\ UNCHANGED <<tableVars, engine>>

\* finishCloudJob matches no row.  After a success that throws into the catch
\* block, which tries to record 'failed'; there the row is kept as it is.
SettleMisses(s) ==
  /\ phase[s] = "settling"
  /\ ~FinishMatches(mine[s], NoWorker)
  /\ \/ verdict[s] = "succeeded" /\ Settling(s, "failed") /\ UNCHANGED reply
     \/ verdict[s] # "succeeded" /\ Leave(s) /\ reply' = [reply EXCEPT ![mine[s]] = "error"]
  /\ UNCHANGED <<tableVars, engine>>

\* The statement that records the success throws: the catch block records 'failed'.
SettleThrows(s) ==
  /\ phase[s] = "settling"
  /\ verdict[s] = "succeeded"
  /\ Settling(s, "failed")
  /\ UNCHANGED <<tableVars, engine, reply>>

\* finishCloudJob throws in the catch block, before it took effect (after that it
\* is as if it had answered): the caller is told an error, the row stays open.
CatchThrows(s) ==
  /\ phase[s] = "settling"
  /\ verdict[s] # "succeeded"
  /\ reply' = [reply EXCEPT ![mine[s]] = "error"]
  /\ Leave(s)
  /\ UNCHANGED <<tableVars, engine>>

\* The server restarts: nobody answers, and nobody settles the row any more.
HandlerDies(s) ==
  /\ phase[s] # "idle"
  /\ Leave(s)
  /\ UNCHANGED <<tableVars, engine, reply>>

-----------------------------------------------------------------------------
Next ==
  \/ \E j \in Jobs : Cancel(j) \/ Tick(j) \/ OrphanEnds(j)
  \/ ReapRead \/ ReapUpdate
  \/ \E s \in Submitters : Check(s) \/ SubmitFails(s) \/ Start(s) \/ StartThrows(s)
  \/ \E s \in Submitters : RunEnds(s) \/ RunTimesOut(s) \/ RunAborted(s)
  \/ \E s \in Submitters, j \in Jobs : Insert(s, j)
  \/ \E s \in Submitters : SettleTakes(s) \/ SettleUnconfirmed(s) \/ SettleMisses(s)
  \/ \E s \in Submitters : SettleThrows(s) \/ CatchThrows(s) \/ HandlerDies(s)

\* The clock runs and Inngest runs the reaper every minute; nothing is assumed
\* of the handlers, of the work they run or of the users.
ClockRuns(j) == WF_vars(Tick(j))
ReaperRuns   == WF_vars(ReapRead) /\ WF_vars(ReapUpdate)
Fairness     == (\A j \in Jobs : ClockRuns(j)) /\ ReaperRuns

Spec     == Init /\ [][Next]_vars
FairSpec == Spec /\ Fairness

-----------------------------------------------------------------------------
(* Properties *)

\* Who is told 'ok' can rely on it: the work ended well and its row was recorded as
\* succeeded (a late sweep may still overwrite that).  An error promises less: the
\* row may still be open, when a statement of the handler failed.
ReplyIsTrue ==
  \A j \in Jobs :
    reply[j] = "ok" => engine[j] = "ok" /\ status[j] \in {"succeeded", "timed_out"}

\* An error stands: a job whose caller was told that it failed is never recorded as
\* succeeded afterwards, whatever becomes of its row and of work that goes on.
ErrorsStep ==
  \A j \in Jobs : reply[j] = "error" /\ status[j] # "succeeded" => status'[j] # "succeeded"
ErrorsStand == [][ErrorsStep]_vars

\* A row reads 'succeeded' only when its work ended well.
SucceededMeansRan ==
  \A j \in Jobs : status[j] = "succeeded" => engine[j] = "ok"

\* No job stays open for ever, even when its handler died: the row would count
\* against the plan and the organization could end with no slot left.
JobsSettle == \A j \in Jobs : Active(j) ~> Terminal(j)
=============================================================================
