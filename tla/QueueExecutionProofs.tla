------------------------- MODULE QueueExecutionProofs -------------------------
(***************************************************************************)
(* Theorems about the queue path, for any number of jobs, workers and      *)
(* submitters.  As in InlineExecutionProofs, every step is at most one     *)
(* statement on the table; the rest is an invariant that ties the lease a  *)
(* worker holds to its row and to the work in the app.                     *)
(***************************************************************************)
EXTENDS QueueExecution, CloudJobsProofs

\* executeLease runs for the jobs that were claimed, and for no other.
LeasesAreClaims == \A j \in Jobs : exec[j].phase = "none" <=> attempts[j] = 0

\* The app works only for a lease whose run request it accepted, and a worker
\* reports only what that work came to.
WorkFollowsLease ==
  \A j \in Jobs :
    /\ exec[j].phase \in {"none", "leased"} => engine[j] = "idle"
    /\ exec[j].phase = "finishing" => exec[j].intent # "none"
    /\ exec[j].intent = "succeeded" => engine[j] = "ok"

WorkerInv == LeasesAreClaims /\ WorkFollowsLease

QueueInv ==
  TypeOK /\ TableInv /\ QuotaInv /\ WorkerInv /\ SucceededMeansRan /\ SettledAbortIsTrue

\* A job that executeLease or the app works on has an owner.
LEMMA OwnedWhileWorked ==
  ASSUME TypeOK, ClaimedOnce, WorkerInv, NEW j \in Jobs,
         exec[j].phase # "none" \/ engine[j] # "idle"
  PROVE  /\ workerId[j] \in Workers
         /\ status[j] \notin {"absent", "queued"}
<1>1. attempts[j] # 0
  BY DEF WorkerInv, LeasesAreClaims, WorkFollowsLease
<1>2. attempts[j] = 1
  BY <1>1 DEF ClaimedOnce, TypeOK, TableTypeOK
<1> QED
  BY <1>1, <1>2 DEF ClaimedOnce, TypeOK, TableTypeOK

\* Every step of the queue path is at most one statement on the table.
LEMMA StepIsTableStep ==
  TypeOK /\ ClaimedOnce /\ WorkerInv /\ [Next]_vars => TableStep
<1> SUFFICES ASSUME TypeOK, ClaimedOnce, WorkerInv, [Next]_vars
             PROVE  TableStep
  OBVIOUS
<1>1. ASSUME NEW s \in Submitters, Check(s) \/ SubmitFails(s)
      PROVE  TableStep
  BY <1>1 DEF Check, SubmitFails, TableStep
<1>2. ASSUME NEW s \in Submitters, NEW j \in Jobs, Submit(s, j)
      PROVE  TableStep
  BY <1>2 DEF Submit, TableStep
<1>3. ASSUME NEW j \in Jobs, Cancel(j) \/ Tick(j) \/ LeaseTick(j)
      PROVE  TableStep
  BY <1>3 DEF Cancel, Tick, LeaseTick, TableStep
<1>4. CASE ReapRead \/ ReapUpdate
  BY <1>4 DEF ReapRead, ReapUpdate, TableStep, Sweepers
<1>5. ASSUME NEW w \in Workers, PollStart(w) \/ PollSwept(w) \/ PollEmpty(w) \/ Crash(w)
      PROVE  TableStep
  BY <1>5 DEF PollStart, PollSwept, PollEmpty, Crash, TableStep, Sweepers
<1>6. ASSUME NEW w \in Workers, NEW j \in Jobs, PollClaims(w, j)
      PROVE  TableStep
  BY <1>6 DEF PollClaims, TableStep
<1>7. ASSUME NEW j \in Jobs,
             \/ RunAccepted(j) \/ EngineEnds(j) \/ RunReturns(j) \/ RunFails(j)
             \/ FinishRefused(j) \/ FinishUnreadable(j) \/ HeartbeatGone(j) \/ TimerFires(j)
      PROVE  TableStep
  BY <1>7 DEF RunAccepted, EngineEnds, RunReturns, RunFails, FinishRefused, FinishUnreadable,
              HeartbeatGone, TimerFires, TableStep
<1>8. ASSUME NEW j \in Jobs, EngineLogs(j)
      PROVE  TableStep
  <2>1. workerId[j] \in Workers
    BY <1>8, OwnedWhileWorked DEF EngineLogs
  <2> QED
    BY <1>8, <2>1 DEF EngineLogs, TableStep
<1>9. ASSUME NEW j \in Jobs, Heartbeat(j)
      PROVE  TableStep
  <2>1. workerId[j] \in Workers
    BY <1>9, OwnedWhileWorked DEF Heartbeat, InFlight
  <2> QED
    BY <1>9, <2>1 DEF Heartbeat, TableStep
<1>10. ASSUME NEW j \in Jobs, FinishTakes(j)
       PROVE  TableStep
  <2>1. workerId[j] \in Workers
    BY <1>10, OwnedWhileWorked DEF FinishTakes
  <2>2. exec[j].intent \in TerminalStatus
    BY <1>10 DEF FinishTakes, TypeOK, Exec, TerminalStatus, WorkerInv, WorkFollowsLease
  <2>3. FinishJob(j, workerId[j], exec[j].intent, exec[j].intent = "succeeded")
    BY <1>10 DEF FinishTakes
  <2> QED
    BY <2>1, <2>2, <2>3 DEF TableStep
<1>11. CASE UNCHANGED vars
  BY <1>11 DEF vars, tableVars, TableStep
<1> QED
  BY <1>1, <1>2, <1>3, <1>4, <1>5, <1>6, <1>7, <1>8, <1>9, <1>10, <1>11 DEF Next

\* What the helpers of executeLease return is an Exec ...
LEMMA AtType == ASSUME NEW p \in Phase PROVE At(p) \in Exec
BY WorkerAssumption DEF At, Exec

LEMMA CaughtType == ASSUME NEW e \in Exec PROVE Caught(e) \in Exec
<1>1. At("done") \in Exec
  BY AtType DEF Phase
<1>2. 0 \in 0..FinishAttempts-1
  BY WorkerAssumption
<1> QED
  BY <1>1, <1>2 DEF Caught, Exec, Phase

LEMMA AttemptFailedType == ASSUME NEW e \in Exec PROVE AttemptFailed(e) \in Exec
<1>1. At("done") \in Exec
  BY AtType DEF Phase
<1>2. Caught(e) \in Exec
  BY CaughtType
<1>3. ASSUME e.tries + 1 < FinishAttempts
      PROVE  [e EXCEPT !.tries = e.tries + 1] \in Exec
  BY <1>3, WorkerAssumption DEF Exec
<1> QED
  BY <1>1, <1>2, <1>3 DEF AttemptFailed

\* ... that is done or reports a failure, once the catch block is through ...
LEMMA CaughtReports ==
  ASSUME NEW e \in Exec
  PROVE  /\ Caught(e).phase \in {"done", "finishing"}
         /\ Caught(e).phase = "finishing" => Caught(e).intent # "none"
         /\ Caught(e).intent # "succeeded"
         /\ Caught(e).abort # "settled"
BY DEF Caught, At, Exec

\* ... and that never claims a success which was not reported before.
LEMMA AttemptFailedReports ==
  ASSUME NEW e \in Exec, e.phase = "finishing", e.intent # "none"
  PROVE  /\ AttemptFailed(e).phase \in {"done", "finishing"}
         /\ AttemptFailed(e).phase = "finishing" => AttemptFailed(e).intent # "none"
         /\ AttemptFailed(e).intent = "succeeded" => e.intent = "succeeded"
         /\ AttemptFailed(e).abort = "settled" => e.abort = "settled"
<1>1. CASE e.tries + 1 < FinishAttempts
  <2>1. AttemptFailed(e) = [e EXCEPT !.tries = e.tries + 1]
    BY <1>1 DEF AttemptFailed
  <2> QED
    BY <2>1 DEF Exec
<1>2. CASE ~(e.tries + 1 < FinishAttempts) /\ e.intent = "succeeded"
  <2>1. AttemptFailed(e) = Caught(e)
    BY <1>2 DEF AttemptFailed
  <2> QED
    BY <1>2, <2>1, CaughtReports
<1>3. CASE ~(e.tries + 1 < FinishAttempts) /\ e.intent # "succeeded"
  <2>1. AttemptFailed(e) = At("done")
    BY <1>3 DEF AttemptFailed
  <2> QED
    BY <2>1 DEF At
<1> QED
  BY <1>1, <1>2, <1>3

\* The locals of executeLease keep their types.
LEMMA ExecTypeStep == TypeOK /\ [Next]_vars => exec' \in [Jobs -> Exec]
<1> SUFFICES ASSUME TypeOK, [Next]_vars
             PROVE  exec' \in [Jobs -> Exec]
  OBVIOUS
<1>0. exec \in [Jobs -> Exec]
  BY DEF TypeOK
<1>1. ASSUME NEW s \in Submitters, Check(s) \/ SubmitFails(s) \/ \E j \in Jobs : Submit(s, j)
      PROVE  exec' = exec
  BY <1>1 DEF Check, SubmitFails, Submit
<1>2. ASSUME NEW j \in Jobs,
             \/ Cancel(j) \/ Tick(j) \/ LeaseTick(j) \/ EngineEnds(j) \/ EngineLogs(j) \/ Heartbeat(j)
      PROVE  exec' = exec
  BY <1>2 DEF Cancel, Tick, LeaseTick, EngineEnds, EngineLogs, Heartbeat
<1>3. ASSUME ReapRead \/ ReapUpdate
      PROVE  exec' = exec
  BY <1>3 DEF ReapRead, ReapUpdate
<1>4. ASSUME NEW w \in Workers, PollStart(w) \/ PollSwept(w) \/ PollEmpty(w)
      PROVE  exec' = exec
  BY <1>4 DEF PollStart, PollSwept, PollEmpty
<1>5. ASSUME NEW w \in Workers, Crash(w)
      PROVE  exec' \in [Jobs -> Exec]
  BY <1>0, <1>5, AtType DEF Crash, Phase
<1>6. ASSUME NEW w \in Workers, NEW j \in Jobs, PollClaims(w, j)
      PROVE  exec' \in [Jobs -> Exec]
  BY <1>0, <1>6, AtType DEF PollClaims, Phase
<1>7. ASSUME NEW j \in Jobs, RunAccepted(j) \/ RunReturns(j) \/ HeartbeatGone(j) \/ TimerFires(j)
      PROVE  exec' \in [Jobs -> Exec]
  BY <1>0, <1>7 DEF RunAccepted, RunReturns, HeartbeatGone, TimerFires, Exec, Phase
<1>8. ASSUME NEW j \in Jobs, RunFails(j) \/ FinishUnreadable(j)
      PROVE  exec' \in [Jobs -> Exec]
  <2>1. Caught(exec[j]) \in Exec
    BY <1>0, CaughtType
  <2> QED
    BY <1>0, <1>8, <2>1 DEF RunFails, FinishUnreadable
<1>9. ASSUME NEW j \in Jobs, FinishTakes(j) \/ FinishRefused(j)
      PROVE  exec' \in [Jobs -> Exec]
  <2>1. AttemptFailed(exec[j]) \in Exec /\ At("done") \in Exec
    BY <1>0, AttemptFailedType, AtType DEF Phase
  <2> QED
    BY <1>0, <1>9, <2>1 DEF FinishTakes, FinishRefused
<1>10. CASE UNCHANGED vars
  BY <1>0, <1>10 DEF vars
<1> QED
  BY <1>0, <1>1, <1>2, <1>3, <1>4, <1>5, <1>6, <1>7, <1>8, <1>9, <1>10 DEF Next

\* The work in the app changes when a run request is accepted and when it ends.
LEMMA OnlyTheAppChangesTheWork ==
  [Next]_vars => UNCHANGED engine \/ \E j \in Jobs : RunAccepted(j) \/ EngineEnds(j)
<1>1. ASSUME NEW s \in Submitters, Check(s) \/ SubmitFails(s) \/ \E j \in Jobs : Submit(s, j)
      PROVE  UNCHANGED engine
  BY <1>1 DEF Check, SubmitFails, Submit
<1>2. ASSUME NEW j \in Jobs, Cancel(j) \/ Tick(j) \/ LeaseTick(j)
      PROVE  UNCHANGED engine
  BY <1>2 DEF Cancel, Tick, LeaseTick
<1>3. ASSUME ReapRead \/ ReapUpdate
      PROVE  UNCHANGED engine
  BY <1>3 DEF ReapRead, ReapUpdate
<1>4. ASSUME NEW w \in Workers, PollStart(w) \/ PollSwept(w) \/ PollEmpty(w) \/ Crash(w)
      PROVE  UNCHANGED engine
  BY <1>4 DEF PollStart, PollSwept, PollEmpty, Crash
<1>5. ASSUME NEW w \in Workers, NEW j \in Jobs, PollClaims(w, j)
      PROVE  UNCHANGED engine
  BY <1>5 DEF PollClaims
<1>6. ASSUME NEW j \in Jobs, EngineLogs(j) \/ RunReturns(j) \/ RunFails(j)
      PROVE  UNCHANGED engine
  BY <1>6 DEF EngineLogs, RunReturns, RunFails
<1>7. ASSUME NEW j \in Jobs, FinishTakes(j) \/ FinishRefused(j) \/ FinishUnreadable(j)
      PROVE  UNCHANGED engine
  BY <1>7 DEF FinishTakes, FinishRefused, FinishUnreadable
<1>8. ASSUME NEW j \in Jobs, Heartbeat(j) \/ HeartbeatGone(j) \/ TimerFires(j)
      PROVE  UNCHANGED engine
  BY <1>8 DEF Heartbeat, HeartbeatGone, TimerFires
<1> QED
  BY <1>1, <1>2, <1>3, <1>4, <1>5, <1>6, <1>7, <1>8 DEF Next, vars

\* A step keeps every variable of the queue path in its type.
LEMMA TypeStep == TypeOK /\ ClaimedOnce /\ WorkerInv /\ [Next]_vars => TypeOK'
<1> SUFFICES ASSUME TypeOK, ClaimedOnce, WorkerInv, [Next]_vars
             PROVE  TypeOK'
  OBVIOUS
<1>1. TableTypeOK'
  BY StepIsTableStep, TableTypeStep DEF TypeOK
<1>2. exec' \in [Jobs -> Exec]
  BY ExecTypeStep
<1>3. poll' \in [Workers -> {"idle", "sweeping", "claiming"}]
  <2>1. ASSUME NEW w \in Workers,
               PollStart(w) \/ PollSwept(w) \/ PollEmpty(w) \/ \E j \in Jobs : PollClaims(w, j)
        PROVE  poll' \in [Workers -> {"idle", "sweeping", "claiming"}]
    BY <2>1 DEF PollStart, PollSwept, PollEmpty, PollClaims, TypeOK
  <2>2. ASSUME UNCHANGED poll
        PROVE  poll' \in [Workers -> {"idle", "sweeping", "claiming"}]
    BY <2>2 DEF TypeOK
  <2>3. ASSUME NEW w \in Workers, Crash(w)
        PROVE  UNCHANGED poll
    BY <2>3 DEF Crash
  <2>4. ASSUME NEW s \in Submitters, Check(s) \/ SubmitFails(s) \/ \E j \in Jobs : Submit(s, j)
        PROVE  UNCHANGED poll
    BY <2>4 DEF Check, SubmitFails, Submit
  <2>5. ASSUME NEW j \in Jobs, Cancel(j) \/ Tick(j) \/ LeaseTick(j)
        PROVE  UNCHANGED poll
    BY <2>5 DEF Cancel, Tick, LeaseTick
  <2>6. ASSUME ReapRead \/ ReapUpdate
        PROVE  UNCHANGED poll
    BY <2>6 DEF ReapRead, ReapUpdate
  <2>7. ASSUME NEW j \in Jobs,
               RunAccepted(j) \/ EngineEnds(j) \/ EngineLogs(j) \/ RunReturns(j) \/ RunFails(j)
        PROVE  UNCHANGED poll
    BY <2>7 DEF RunAccepted, EngineEnds, EngineLogs, RunReturns, RunFails
  <2>8. ASSUME NEW j \in Jobs, FinishTakes(j) \/ FinishRefused(j) \/ FinishUnreadable(j)
        PROVE  UNCHANGED poll
    BY <2>8 DEF FinishTakes, FinishRefused, FinishUnreadable
  <2>9. ASSUME NEW j \in Jobs, Heartbeat(j) \/ HeartbeatGone(j) \/ TimerFires(j)
        PROVE  UNCHANGED poll
    BY <2>9 DEF Heartbeat, HeartbeatGone, TimerFires
  <2> QED
    BY <2>1, <2>2, <2>3, <2>4, <2>5, <2>6, <2>7, <2>8, <2>9 DEF Next, vars
<1>4. engine' \in [Jobs -> {"idle", "busy", "ok", "error"}]
  <2>1. ASSUME NEW j \in Jobs, RunAccepted(j) \/ EngineEnds(j)
        PROVE  engine' \in [Jobs -> {"idle", "busy", "ok", "error"}]
    BY <2>1 DEF RunAccepted, EngineEnds, TypeOK
  <2>2. UNCHANGED engine \/ \E j \in Jobs : RunAccepted(j) \/ EngineEnds(j)
    BY OnlyTheAppChangesTheWork
  <2> QED
    BY <2>1, <2>2 DEF TypeOK
<1> QED
  BY <1>1, <1>2, <1>3, <1>4 DEF TypeOK

-----------------------------------------------------------------------------
(* The invariant of the workers.  The lemmas below sort the steps by what  *)
(* they do to the lease a worker holds.                                    *)

\* The steps in which no executeLease moves.
NoLeaseMoves ==
  \/ \E s \in Submitters : Check(s) \/ SubmitFails(s) \/ \E j \in Jobs : Submit(s, j)
  \/ \E j \in Jobs : Cancel(j) \/ Tick(j) \/ LeaseTick(j) \/ EngineEnds(j) \/ EngineLogs(j) \/ Heartbeat(j)
  \/ ReapRead \/ ReapUpdate
  \/ \E w \in Workers : PollStart(w) \/ PollSwept(w) \/ PollEmpty(w)
  \/ UNCHANGED vars

LEMMA NoLeaseMovesStep ==
  ASSUME NoLeaseMoves
  PROVE  exec' = exec /\ attempts' = attempts
<1>1. ASSUME NEW s \in Submitters, Check(s) \/ SubmitFails(s) \/ \E j \in Jobs : Submit(s, j)
      PROVE  exec' = exec /\ attempts' = attempts
  BY <1>1 DEF Check, SubmitFails, Submit, CheckEntitlement, InsertFails, InsertJob, row
<1>2. ASSUME NEW j \in Jobs, Cancel(j) \/ Tick(j) \/ LeaseTick(j)
      PROVE  exec' = exec /\ attempts' = attempts
  BY <1>2 DEF Cancel, Tick, LeaseTick, CancelJob, TimeoutPasses, LeaseRunsOut
<1>3. ASSUME NEW j \in Jobs, EngineEnds(j) \/ EngineLogs(j) \/ Heartbeat(j)
      PROVE  exec' = exec /\ attempts' = attempts
  BY <1>3 DEF EngineEnds, EngineLogs, Heartbeat, AppendLogs, ExtendLease, tableVars
<1>4. ASSUME ReapRead \/ ReapUpdate
      PROVE  exec' = exec /\ attempts' = attempts
  BY <1>4 DEF ReapRead, ReapUpdate, SweepRead, SweepUpdate, row
<1>5. ASSUME NEW w \in Workers, PollStart(w) \/ PollSwept(w) \/ PollEmpty(w)
      PROVE  exec' = exec /\ attempts' = attempts
  BY <1>5 DEF PollStart, PollSwept, PollEmpty, SweepRead, SweepUpdate, SweepFails, row, tableVars
<1>6. ASSUME UNCHANGED vars
      PROVE  exec' = exec /\ attempts' = attempts
  BY <1>6 DEF vars
<1> QED
  BY <1>1, <1>2, <1>3, <1>4, <1>5, <1>6 DEF NoLeaseMoves

\* The steps in which the executeLease of one job moves.
LeaseMoves(j) ==
  \/ RunAccepted(j) \/ RunReturns(j) \/ RunFails(j)
  \/ FinishTakes(j) \/ FinishRefused(j) \/ FinishUnreadable(j)
  \/ HeartbeatGone(j) \/ TimerFires(j)

\* They move a lease that was claimed, leave the other leases and the owners
\* alone, and report a success only of work that ended well.
LEMMA LeaseMovesStep ==
  ASSUME TypeOK, WorkerInv, NEW j \in Jobs, LeaseMoves(j)
  PROVE  /\ UNCHANGED <<attempts, workerId>>
         /\ exec[j].phase # "none" /\ exec'[j].phase \notin {"none", "lost"}
         /\ \A k \in Jobs : k # j => exec'[k] = exec[k]
         /\ exec'[j].phase = "leased" => exec[j].phase = "leased" /\ engine' = engine
         /\ exec'[j].phase = "finishing" => exec'[j].intent # "none"
         /\ exec'[j].intent = "succeeded" => engine'[j] = "ok"
         /\ exec'[j].abort = "settled" =>
              exec[j].abort = "settled" \/ ~RunningFor(j, workerId[j])
<1> DEFINE Moves == /\ UNCHANGED <<attempts, workerId>>
                    /\ exec[j].phase # "none" /\ exec'[j].phase \notin {"none", "lost"}
                    /\ \A k \in Jobs : k # j => exec'[k] = exec[k]
                    /\ exec'[j].phase = "leased" => exec[j].phase = "leased" /\ engine' = engine
                    /\ exec'[j].phase = "finishing" => exec'[j].intent # "none"
                    /\ exec'[j].intent = "succeeded" => engine'[j] = "ok"
                    /\ exec'[j].abort = "settled" =>
                         exec[j].abort = "settled" \/ ~RunningFor(j, workerId[j])
<1>0. /\ exec \in [Jobs -> Exec] /\ exec[j] \in Exec
      /\ exec[j].phase \in {"none", "leased"} => engine[j] = "idle"
      /\ exec[j].phase = "finishing" => exec[j].intent # "none"
      /\ exec[j].intent = "succeeded" => engine[j] = "ok"
  BY DEF TypeOK, WorkerInv, WorkFollowsLease
<1>1. CASE RunAccepted(j)
  BY <1>0, <1>1 DEF RunAccepted, TypeOK, Exec, tableVars
<1>2. CASE RunReturns(j)
  BY <1>0, <1>2 DEF RunReturns, Exec, tableVars
<1>3. CASE RunFails(j) \/ FinishUnreadable(j)
  <2>1. /\ exec[j].phase # "none" /\ exec' = [exec EXCEPT ![j] = Caught(exec[j])]
        /\ UNCHANGED <<attempts, workerId>>
    BY <1>3 DEF RunFails, FinishUnreadable, tableVars
  <2>2. exec'[j] = Caught(exec[j]) /\ \A k \in Jobs : k # j => exec'[k] = exec[k]
    BY <1>0, <2>1
  <2> QED
    BY <1>0, <2>1, <2>2, CaughtReports
<1>4. CASE FinishTakes(j) \/ FinishRefused(j)
  <2>1. exec[j].phase = "finishing" /\ UNCHANGED <<attempts, workerId, engine>>
    BY <1>4 DEF FinishTakes, FinishRefused, FinishJob, tableVars
  <2>2. PICK after \in {At("done"), AttemptFailed(exec[j])} : exec' = [exec EXCEPT ![j] = after]
    BY <1>4 DEF FinishTakes, FinishRefused
  <2>3. exec'[j] = after /\ \A k \in Jobs : k # j => exec'[k] = exec[k]
    BY <1>0, <2>2
  <2>4. CASE after = At("done")
    BY <2>1, <2>3, <2>4 DEF At
  <2>5. CASE after = AttemptFailed(exec[j])
    BY <1>0, <2>1, <2>3, <2>5, AttemptFailedReports
  <2> QED
    BY <2>4, <2>5
<1>5. CASE HeartbeatGone(j)
  BY <1>0, <1>5 DEF HeartbeatGone, InFlight, Exec, tableVars
<1>6. CASE TimerFires(j)
  BY <1>0, <1>6 DEF TimerFires, InFlight, Exec, tableVars
<1> QED
  BY <1>1, <1>2, <1>3, <1>4, <1>5, <1>6 DEF LeaseMoves

\* What a worker holds and reports stays in step with the table and the work.
LEMMA WorkerInvStep ==
  TypeOK /\ ClaimedOnce /\ WorkerInv /\ [Next]_vars => WorkerInv'
<1> SUFFICES ASSUME TypeOK, ClaimedOnce, WorkerInv, [Next]_vars
             PROVE  WorkerInv'
  OBVIOUS
<1>0. exec \in [Jobs -> Exec] /\ attempts \in [Jobs -> Nat]
  BY DEF TypeOK, TableTypeOK
<1>1. ASSUME NoLeaseMoves
      PROVE  WorkerInv'
  <2>1. exec' = exec /\ attempts' = attempts
    BY <1>1, NoLeaseMovesStep
  <2>2. \A j \in Jobs : engine'[j] # engine[j] => engine[j] = "busy" \/ RunAccepted(j)
    BY OnlyTheAppChangesTheWork DEF RunAccepted, EngineEnds, TypeOK
  <2>3. \A j \in Jobs : ~RunAccepted(j)
    BY <1>0, <2>1 DEF RunAccepted, Exec
  <2> QED
    BY <2>1, <2>2, <2>3 DEF WorkerInv, LeasesAreClaims, WorkFollowsLease
<1>2. ASSUME NEW w \in Workers, Crash(w)
      PROVE  WorkerInv'
  BY <1>0, <1>2 DEF Crash, InFlight, At, tableVars, WorkerInv, LeasesAreClaims, WorkFollowsLease
<1>3. ASSUME NEW w \in Workers, NEW j \in Jobs, PollClaims(w, j)
      PROVE  WorkerInv'
  <2>1. status[j] = "queued" /\ attempts' = [attempts EXCEPT ![j] = @ + 1] /\ engine' = engine
    BY <1>3 DEF PollClaims, ClaimJob, Claimable
  <2>2. \E phase \in {"leased", "lost"} : exec' = [exec EXCEPT ![j] = At(phase)]
    BY <1>3 DEF PollClaims
  <2>3. engine[j] = "idle"
    BY <2>1 DEF ClaimedOnce, WorkerInv, LeasesAreClaims, WorkFollowsLease
  <2> QED
    BY <1>0, <2>1, <2>2, <2>3 DEF At, WorkerInv, LeasesAreClaims, WorkFollowsLease
<1>4. ASSUME NEW j \in Jobs, LeaseMoves(j)
      PROVE  WorkerInv'
  <2>1. \A k \in Jobs : k # j => engine'[k] = engine[k]
    BY <1>4
    DEF LeaseMoves, RunAccepted, RunReturns, RunFails, FinishTakes, FinishRefused,
        FinishUnreadable, HeartbeatGone, TimerFires, TypeOK
  <2> QED
    BY <1>4, <2>1, LeaseMovesStep DEF WorkerInv, LeasesAreClaims, WorkFollowsLease
<1> QED
  BY <1>1, <1>2, <1>3, <1>4 DEF Next, NoLeaseMoves, LeaseMoves

\* A row reads 'succeeded', or holds a result, only after a finish that reported it.
LEMMA SucceededMeansRanStep ==
  TypeOK /\ ClaimedOnce /\ WorkerInv /\ SucceededMeansRan /\ [Next]_vars => SucceededMeansRan'
<1> SUFFICES ASSUME TypeOK, ClaimedOnce, WorkerInv, SucceededMeansRan, [Next]_vars,
                    NEW j \in Jobs, status'[j] = "succeeded" \/ stored'[j]
             PROVE  engine'[j] = "ok" /\ workerId'[j] # NoWorker
  BY DEF SucceededMeansRan
<1> DEFINE Was  == status[j] = "succeeded" \/ stored[j]
           Held == /\ Was
                   /\ workerId'[j] = workerId[j] \/ attempts[j] = 0
<1> USE DEF TypeOK, TableTypeOK
<1>1. Was => engine[j] = "ok" /\ workerId[j] # NoWorker /\ attempts[j] # 0
  BY DEF SucceededMeansRan, ClaimedOnce
<1>2. engine[j] = "ok" => engine'[j] = "ok"
  BY OnlyTheAppChangesTheWork DEF RunAccepted, EngineEnds, WorkerInv, WorkFollowsLease
<1>3. ASSUME NEW s \in Submitters, Check(s) \/ SubmitFails(s) \/ \E k \in Jobs : Submit(s, k)
      PROVE  Held
  BY <1>3 DEF Check, SubmitFails, Submit, CheckEntitlement, InsertFails, InsertJob, row
<1>4. ASSUME NEW k \in Jobs, Cancel(k) \/ Tick(k) \/ LeaseTick(k)
      PROVE  Held
  BY <1>4 DEF Cancel, Tick, LeaseTick, CancelJob, TimeoutPasses, LeaseRunsOut
<1>5. ASSUME ReapRead \/ ReapUpdate
      PROVE  Held
  BY <1>5 DEF ReapRead, ReapUpdate, SweepRead, SweepUpdate, row
<1>6. ASSUME NEW w \in Workers, PollStart(w) \/ PollSwept(w) \/ PollEmpty(w) \/ Crash(w)
      PROVE  Held
  BY <1>6 DEF PollStart, PollSwept, PollEmpty, Crash, SweepRead, SweepUpdate, SweepFails, row, tableVars
<1>7. ASSUME NEW w \in Workers, NEW k \in Jobs, PollClaims(w, k)
      PROVE  Held
  BY <1>7 DEF PollClaims, ClaimJob, Claimable, ClaimedOnce
<1>8. ASSUME NEW k \in Jobs,
             \/ RunAccepted(k) \/ EngineEnds(k) \/ RunReturns(k) \/ RunFails(k)
             \/ FinishRefused(k) \/ FinishUnreadable(k) \/ HeartbeatGone(k) \/ TimerFires(k)
      PROVE  Held
  BY <1>8 DEF RunAccepted, EngineEnds, RunReturns, RunFails, FinishRefused, FinishUnreadable,
              HeartbeatGone, TimerFires, tableVars
<1>9. ASSUME NEW k \in Jobs, EngineLogs(k) \/ Heartbeat(k)
      PROVE  Held
  BY <1>9 DEF EngineLogs, Heartbeat, AppendLogs, ExtendLease
<1>10. ASSUME NEW k \in Jobs, FinishTakes(k)
       PROVE  Held \/ (engine[j] = "ok" /\ workerId'[j] # NoWorker)
  <2>1. /\ status' = [status EXCEPT ![k] = exec[k].intent]
        /\ stored' = [stored EXCEPT ![k] = @ \/ exec[k].intent = "succeeded"]
        /\ workerId' = workerId
    BY <1>10 DEF FinishTakes, FinishJob
  <2>2. workerId[k] \in Workers
    BY <1>10, OwnedWhileWorked DEF FinishTakes
  <2>3. CASE k = j /\ exec[k].intent = "succeeded"
    BY <2>1, <2>2, <2>3, WorkersAssumption DEF WorkerInv, WorkFollowsLease
  <2>4. CASE k = j /\ exec[k].intent # "succeeded"
    <3>1. status'[j] # "succeeded" /\ stored'[j] = (stored[j] \/ exec[k].intent = "succeeded")
      BY <2>1, <2>4
    <3>2. stored[j]
      BY <2>4, <3>1
    <3>3. workerId'[j] = workerId[j]
      BY <2>1
    <3> QED
      BY <3>2, <3>3
  <2>5. CASE k # j
    <3>1. status'[j] = status[j] /\ stored'[j] = stored[j]
      BY <2>1, <2>5
    <3>2. status[j] = "succeeded" \/ stored[j]
      BY <3>1
    <3>3. workerId'[j] = workerId[j]
      BY <2>1
    <3> QED
      BY <3>2, <3>3
  <2> QED
    BY <2>3, <2>4, <2>5
<1>11. ASSUME UNCHANGED vars
       PROVE  Held
  BY <1>11 DEF vars
<1>12. Held => engine'[j] = "ok" /\ workerId'[j] # NoWorker
  BY <1>1, <1>2
<1> HIDE DEF Held, Was
<1> QED
  BY <1>2, <1>3, <1>4, <1>5, <1>6, <1>7, <1>8, <1>9, <1>10, <1>11, <1>12 DEF Next

\* A worker concludes that its job was settled only from a row that is settled.
LEMMA SettledAbortIsTrueStep ==
  TypeOK /\ ClaimedOnce /\ WorkerInv /\ SettledAbortIsTrue /\ [Next]_vars => SettledAbortIsTrue'
<1> SUFFICES ASSUME TypeOK, ClaimedOnce, WorkerInv, SettledAbortIsTrue, [Next]_vars,
                    NEW j \in Jobs, exec'[j].abort = "settled"
             PROVE  Terminal(j)'
  BY DEF SettledAbortIsTrue, Terminal
<1>0. exec \in [Jobs -> Exec]
  BY DEF TypeOK
<1>1. Terminal(j) => Terminal(j)'
  BY StepIsTableStep, TerminalStays DEF TypeOK
<1>2. exec[j].abort = "settled" => Terminal(j)
  BY DEF SettledAbortIsTrue
<1>3. CASE NoLeaseMoves
  BY <1>1, <1>2, <1>3, NoLeaseMovesStep
<1>4. ASSUME NEW w \in Workers, Crash(w)
      PROVE  exec[j].abort = "settled"
  BY <1>0, <1>4 DEF Crash, At
<1>5. ASSUME NEW w \in Workers, NEW k \in Jobs, PollClaims(w, k)
      PROVE  exec[j].abort = "settled"
  BY <1>0, <1>5 DEF PollClaims, At
<1>6. ASSUME NEW k \in Jobs, LeaseMoves(k), k # j
      PROVE  exec[j].abort = "settled"
  BY <1>6, LeaseMovesStep
<1>7. ASSUME LeaseMoves(j)
      PROVE  exec[j].abort = "settled" \/ Terminal(j)
  <2>1. /\ exec[j].phase # "none"
        /\ exec[j].abort = "settled" \/ ~RunningFor(j, workerId[j])
    BY <1>7, LeaseMovesStep
  <2>2. status[j] \notin {"absent", "queued"}
    BY <2>1, OwnedWhileWorked
  <2> QED
    BY <2>1, <2>2 DEF RunningFor, TypeOK, TableTypeOK, Status, ActiveStatus, Terminal
<1> QED
  BY <1>1, <1>2, <1>3, <1>4, <1>5, <1>6, <1>7 DEF Next, NoLeaseMoves, LeaseMoves

-----------------------------------------------------------------------------
(* The theorems *)

\* The invariant holds of every reachable state of the queue path.
THEOREM QueueInvariant == Spec => []QueueInv
<1>1. Init => QueueInv
  <2> SUFFICES ASSUME Init
               PROVE  QueueInv
    OBVIOUS
  <2>1. TableInv /\ QuotaInv
    BY TableInitInv, QuotaInit DEF Init
  <2>2. At("none") \in Exec
    BY AtType DEF Phase
  <2>3. TypeOK
    BY <2>1, <2>2 DEF Init, TypeOK, TableInv
  <2>4. WorkerInv
    BY DEF Init, TableInit, At, WorkerInv, LeasesAreClaims, WorkFollowsLease
  <2>5. SucceededMeansRan /\ SettledAbortIsTrue
    BY DEF Init, TableInit, At, SucceededMeansRan, SettledAbortIsTrue
  <2> QED
    BY <2>1, <2>3, <2>4, <2>5 DEF QueueInv
<1>2. QueueInv /\ [Next]_vars => QueueInv'
  <2> SUFFICES ASSUME QueueInv, [Next]_vars
               PROVE  QueueInv'
    OBVIOUS
  <2>0. ClaimedOnce
    BY DEF QueueInv, TableInv
  <2>1. TypeOK'
    BY <2>0, TypeStep DEF QueueInv
  <2>2. TableInv' /\ QuotaInv'
    BY <2>0, StepIsTableStep, TableInvStep, QuotaStep DEF QueueInv, TypeOK
  <2>3. WorkerInv'
    BY <2>0, WorkerInvStep DEF QueueInv
  <2>4. SucceededMeansRan' /\ SettledAbortIsTrue'
    BY <2>0, SucceededMeansRanStep, SettledAbortIsTrueStep DEF QueueInv
  <2> QED
    BY <2>1, <2>2, <2>3, <2>4 DEF QueueInv
<1> QED
  BY <1>1, <1>2, PTL DEF Spec

\* Every variable of the queue path keeps its type.
THEOREM TypeCorrect == Spec => []TypeOK
<1>1. QueueInv => TypeOK
  BY DEF QueueInv
<1> QED
  BY <1>1, QueueInvariant, PTL

\* No job is handed to two workers, whatever is lost, delayed or crashes, and only
\* a running row has a lease.
THEOREM JobsAreClaimedOnce == Spec => []ClaimedOnce
<1>1. QueueInv => ClaimedOnce
  BY DEF QueueInv, TableInv
<1> QED
  BY <1>1, QueueInvariant, PTL

\* A cancelled job never ends as anything but cancelled or timed out.
THEOREM CancellationIsFinal == Spec => []CancelIsFinal
<1>1. QueueInv => CancelIsFinal
  BY DEF QueueInv, TableInv
<1> QED
  BY <1>1, QueueInvariant, PTL

\* A row says 'succeeded', or holds a result, only of work that ended well for the
\* worker that had claimed it.
THEOREM OnlyDoneWorkSucceeds == Spec => []SucceededMeansRan
<1>1. QueueInv => SucceededMeansRan
  BY DEF QueueInv
<1> QED
  BY <1>1, QueueInvariant, PTL

\* No job is worked on twice, however leases run out, answers get lost and workers
\* compete, and none that was settled while it waited in the queue.
THEOREM WorkIsStartedOnce == Spec => WorkStartsOnce
<1> DEFINE Starts(j) == engine'[j] = "busy" /\ engine[j] # "busy"
           Once(j)   == engine[j] = "idle" /\ status[j] = "running" /\ attempts[j] = 1
<1>1. QueueInv /\ [Next]_vars => [\A j \in Jobs : Starts(j) => Once(j)]_engine
  <2> SUFFICES ASSUME QueueInv, [Next]_vars, ~UNCHANGED engine, NEW j \in Jobs, Starts(j)
               PROVE  Once(j)
    OBVIOUS
  <2>1. RunAccepted(j)
    <3>1. PICK k \in Jobs : RunAccepted(k) \/ EngineEnds(k)
      BY OnlyTheAppChangesTheWork
    <3> QED
      BY <3>1 DEF RunAccepted, EngineEnds, QueueInv, TypeOK
  <2>2. exec[j].phase = "leased" /\ status[j] = "running"
    BY <2>1 DEF RunAccepted, RunningFor
  <2>3. engine[j] = "idle" /\ attempts[j] # 0
    BY <2>2 DEF QueueInv, WorkerInv, LeasesAreClaims, WorkFollowsLease
  <2>4. attempts[j] = 1
    BY <2>3 DEF QueueInv, TypeOK, TableTypeOK, TableInv, ClaimedOnce
  <2> QED
    BY <2>2, <2>3, <2>4
<1> QED
  BY <1>1, QueueInvariant, PTL DEF Spec, WorkStartsOnce

\* A worker stops only work whose row is settled.
THEOREM SettledAbortsAreTrue == Spec => []SettledAbortIsTrue
<1>1. QueueInv => SettledAbortIsTrue
  BY DEF QueueInv
<1> QED
  BY <1>1, QueueInvariant, PTL

\* Concurrent submissions pass the plan limit by at most the number of the other
\* submitters.
THEOREM OvershootIsBounded == Spec => []QuotaOvershootBounded
<1>1. QueueInv => QuotaOvershootBounded
  BY QuotaInvBounds DEF QueueInv, TypeOK
<1> QED
  BY <1>1, QueueInvariant, PTL

\* A settled row keeps its outcome, but for a sweep that had read it before.
THEOREM SettledRowsAreFrozen == Spec => SettledRowsFrozen
<1>1. QueueInv /\ [Next]_vars => [FrozenStep]_row
  BY StepIsTableStep, FrozenStepLemma DEF QueueInv, TypeOK, TableInv
<1> QED
  BY <1>1, QueueInvariant, PTL DEF Spec, SettledRowsFrozen

\* The queue path implements the abstract life cycle of a job.
THEOREM QueueImplementsLifecycle == Spec => ImplementsLifecycle
<1>1. Init => Lifecycle!Init
  BY LifecycleInit DEF Init
<1>2. QueueInv /\ [Next]_vars => [Lifecycle!Next]_<<status, workerId>>
  BY StepIsTableStep, LifecycleStep DEF QueueInv, TableInv
<1> QED
  BY <1>1, <1>2, QueueInvariant, PTL DEF Spec, ImplementsLifecycle, Lifecycle!Spec
-----------------------------------------------------------------------------
(* Liveness.  Whether an action is enabled is beyond the prover, so the     *)
(* theorems take as hypotheses that the guards of the clock, of the reaper  *)
(* and of the workers are all that can stand in their way.                  *)

\* The clock and the reaper act whenever their guards hold.
ReaperCanAct ==
  /\ \A j \in Jobs : Active(j) /\ ~late[j] => ENABLED <<Tick(j)>>_vars
  /\ sweep[Cron] = {} /\ ExpiredJobs # {} => ENABLED <<ReapRead>>_vars
  /\ sweep[Cron] # {} => ENABLED <<ReapUpdate>>_vars

\* A worker that waits for an answer can always be given one, or give up.
WorkersCanAct ==
  \A j \in Jobs :
    /\ exec[j].phase \in {"leased", "awaiting"} => ENABLED <<RunAnswered(j)>>_vars
    /\ exec[j].phase = "finishing" => ENABLED <<FinishAnswered(j)>>_vars

\* Only the cron reaper touches what its sweep has read.
LEMMA OnlyTheReaperSweeps ==
  TypeOK /\ [Next]_vars => sweep'[Cron] = sweep[Cron] \/ ReapRead \/ ReapUpdate
<1> SUFFICES ASSUME TypeOK, [Next]_vars, ~ReapRead, ~ReapUpdate
             PROVE  sweep'[Cron] = sweep[Cron]
  OBVIOUS
<1>1. ASSUME NEW s \in Submitters,
             \/ Check(s) \/ SubmitFails(s)
             \/ \E j \in Jobs : Submit(s, j)
      PROVE  sweep' = sweep
  BY <1>1 DEF Check, CheckEntitlement, SubmitFails, InsertFails, Submit, InsertJob
<1>2. ASSUME NEW j \in Jobs, Cancel(j) \/ Tick(j) \/ LeaseTick(j)
      PROVE  sweep' = sweep
  BY <1>2 DEF Cancel, CancelJob, Tick, TimeoutPasses, LeaseTick, LeaseRunsOut
<1>3. ASSUME NEW w \in Workers, PollStart(w) \/ PollSwept(w) \/ PollEmpty(w) \/ Crash(w)
      PROVE  sweep'[Cron] = sweep[Cron]
  BY <1>3, WorkersAssumption
  DEF PollStart, PollSwept, PollEmpty, Crash, SweepRead, SweepUpdate, SweepFails, tableVars,
      TypeOK, TableTypeOK, Sweepers
<1>4. ASSUME NEW w \in Workers, NEW j \in Jobs, PollClaims(w, j)
      PROVE  sweep' = sweep
  BY <1>4 DEF PollClaims, ClaimJob
<1>5. ASSUME NEW j \in Jobs,
             \/ RunAccepted(j) \/ EngineEnds(j) \/ EngineLogs(j) \/ RunReturns(j) \/ RunFails(j)
             \/ FinishTakes(j) \/ FinishRefused(j) \/ FinishUnreadable(j)
             \/ Heartbeat(j) \/ HeartbeatGone(j) \/ TimerFires(j)
      PROVE  sweep' = sweep
  BY <1>5 DEF RunAccepted, EngineEnds, EngineLogs, AppendLogs, RunReturns, RunFails, FinishTakes,
              FinishJob, FinishRefused, FinishUnreadable, Heartbeat, ExtendLease, HeartbeatGone,
              TimerFires, tableVars
<1>6. CASE UNCHANGED vars
  BY <1>6 DEF vars
<1> QED
  BY <1>1, <1>2, <1>3, <1>4, <1>5, <1>6 DEF Next

\* A row with status s does not keep it for ever.
MovesOn(s, j) == status[j] = s ~> LeftStatus(s, j)

\* The steps of a row that has not left status s: its timeout passes, a sweep reads
\* it together with every other row that is stuck, and settles it.
LEMMA RowLeavesStatus ==
  ASSUME SweepsFit, NEW s \in ActiveStatus, NEW j \in Jobs
  PROVE  FairSpec /\ []ReaperCanAct => MovesOn(s, j)
<1> DEFINE Free == sweep[Cron] = {}
           Read == j \in sweep[Cron]
<1>1. status[j] = s => InTime(s, j) \/ Stuck(s, j)
  BY DEF InTime, Stuck
<1>2. QueueInv /\ [Next]_vars /\ InTime(s, j) => InTime(s, j)' \/ Stuck(s, j)' \/ LeftStatus(s, j)'
  BY StepIsTableStep, StuckStep DEF QueueInv, TypeOK, TableInv
<1>3. QueueInv /\ [Next]_vars /\ Stuck(s, j) => Stuck(s, j)' \/ LeftStatus(s, j)'
  BY StepIsTableStep, StuckStep DEF QueueInv, TypeOK, TableInv
<1>4. QueueInv /\ [Next]_vars /\ ~Free /\ ~Read => (~Free /\ ~Read)' \/ Free'
  BY OnlyTheReaperSweeps, SweepSettles DEF QueueInv, TypeOK, ReapRead, ReapUpdate, SweepRead, Sweepers
<1>5. QueueInv /\ [Next]_vars /\ Stuck(s, j) /\ Free => Free' \/ Read'
  <2> SUFFICES ASSUME QueueInv, [Next]_vars, Stuck(s, j), Free, ~Free'
               PROVE  Read'
    OBVIOUS
  <2>1. ReapRead
    BY OnlyTheReaperSweeps DEF QueueInv, ReapUpdate, SweepUpdate
  <2> QED
    BY <2>1, StuckIsRead DEF QueueInv, TypeOK, ReapRead
<1>6. QueueInv /\ [Next]_vars /\ Read => Read' \/ LeftStatus(s, j)'
  BY OnlyTheReaperSweeps, SweepSettles DEF QueueInv, TypeOK, ReapRead, ReapUpdate, SweepRead, Sweepers, LeftStatus
<1>7. QueueInv /\ InTime(s, j) /\ <<Tick(j)>>_vars => Stuck(s, j)'
  BY DEF QueueInv, TypeOK, TableTypeOK, InTime, Stuck, Tick, TimeoutPasses
<1>8. QueueInv /\ Stuck(s, j) /\ Free /\ <<ReapRead>>_vars => Read'
  BY StuckIsRead DEF QueueInv, TypeOK, ReapRead
<1>9. QueueInv /\ <<ReapUpdate>>_vars => Free' /\ (Read => LeftStatus(s, j)')
  BY SweepSettles DEF QueueInv, TypeOK, ReapUpdate, Sweepers, LeftStatus
<1>10. ReaperCanAct /\ InTime(s, j) => ENABLED <<Tick(j)>>_vars
  BY DEF ReaperCanAct, InTime, Active
<1>11. ReaperCanAct /\ Stuck(s, j) /\ Free => ENABLED <<ReapRead>>_vars
  <2>1. Stuck(s, j) => ExpiredJobs # {}
    BY DEF Stuck, ExpiredJobs, Expired, ActiveStatus
  <2> QED
    BY <2>1 DEF ReaperCanAct
<1>12. ReaperCanAct /\ ~Free => ENABLED <<ReapUpdate>>_vars
  BY DEF ReaperCanAct
<1>13. Read => ~Free
  OBVIOUS
<1>14. FairSpec => Spec /\ ClockRuns(j) /\ ReaperRuns
  BY DEF FairSpec, Fairness
<1>15. ClockRuns(j) /\ ReaperRuns => WF_vars(Tick(j)) /\ WF_vars(ReapRead) /\ WF_vars(ReapUpdate)
  BY PTL DEF ClockRuns, ReaperRuns
<1> HIDE DEF Free, Read
<1>16. FairSpec /\ []ReaperCanAct => (InTime(s, j) ~> Stuck(s, j) \/ LeftStatus(s, j))
  BY <1>2, <1>7, <1>10, <1>14, <1>15, QueueInvariant, PTL DEF Spec
<1>17. FairSpec /\ []ReaperCanAct => (~Free /\ ~Read ~> Free)
  BY <1>4, <1>9, <1>12, <1>14, <1>15, QueueInvariant, PTL DEF Spec
<1>18. FairSpec /\ []ReaperCanAct => (Stuck(s, j) /\ Free ~> Read \/ LeftStatus(s, j))
  BY <1>3, <1>5, <1>8, <1>11, <1>14, <1>15, QueueInvariant, PTL DEF Spec
<1>19. FairSpec /\ []ReaperCanAct => (Read ~> LeftStatus(s, j))
  BY <1>6, <1>9, <1>12, <1>13, <1>14, <1>15, QueueInvariant, PTL DEF Spec
<1> QED
  BY <1>1, <1>3, <1>14, <1>16, <1>17, <1>18, <1>19, QueueInvariant, PTL DEF Spec, MovesOn

\* Every job that is open is settled in the end: workers that crash, hang or renew
\* their lease for ever do not keep a row open, if a sweep has room for the rows
\* that can be open.
THEOREM QueueJobsSettle ==
  ASSUME SweepsFit
  PROVE  FairSpec /\ []ReaperCanAct => JobsSettle
<1>1. SUFFICES ASSUME NEW j \in Jobs
               PROVE  FairSpec /\ []ReaperCanAct => (Active(j) ~> Terminal(j))
  BY DEF JobsSettle
<1>2. Active(j) <=> status[j] = "queued" \/ status[j] = "running"
  BY DEF Active, ActiveStatus
<1>3. /\ LeftStatus("queued", j) <=> Terminal(j) \/ status[j] = "running"
      /\ LeftStatus("running", j) <=> Terminal(j)
  BY DEF LeftStatus
<1>4. FairSpec /\ []ReaperCanAct => MovesOn("queued", j)
  BY RowLeavesStatus DEF ActiveStatus
<1>5. FairSpec /\ []ReaperCanAct => MovesOn("running", j)
  BY RowLeavesStatus DEF ActiveStatus
<1> QED
  BY <1>2, <1>3, <1>4, <1>5, PTL DEF MovesOn
-----------------------------------------------------------------------------
(* A worker gets its slot back: executeLease always comes closer to its end. *)

\* How many answers executeLease can still wait for.
AnswersLeft(e) ==
  CASE e.phase = "leased"    -> 2 * FinishAttempts + 2
    [] e.phase = "awaiting"  -> 2 * FinishAttempts + 1
    [] e.phase = "finishing" -> IF e.intent = "succeeded"
                                THEN 2 * FinishAttempts - e.tries
                                ELSE FinishAttempts - e.tries
    [] OTHER                 -> 0

\* It is a number, zero only for a lease that is not in flight, and it tells
\* whether the run or a finish request is what the worker waits for.
LEMMA AnswersLeftBounds ==
  ASSUME NEW e \in Exec
  PROVE  /\ AnswersLeft(e) \in 0 .. 2 * FinishAttempts + 2
         /\ AnswersLeft(e) # 0 <=> e.phase \in {"leased", "awaiting", "finishing"}
         /\ AnswersLeft(e) > 2 * FinishAttempts <=> e.phase \in {"leased", "awaiting"}
         /\ e.phase = "finishing" /\ e.intent = "succeeded" => AnswersLeft(e) > FinishAttempts
<1>1. FinishAttempts \in Nat /\ FinishAttempts > 0 /\ e.tries \in 0..FinishAttempts-1
  BY WorkerAssumption DEF Exec
<1>2. e.phase \in Phase
  BY DEF Exec
<1> QED
  BY <1>1, <1>2 DEF AnswersLeft, Phase

\* The catch block reports at most FinishAttempts times.
LEMMA CaughtIsCloser ==
  ASSUME NEW e \in Exec,
         \/ e.phase \in {"leased", "awaiting"}
         \/ e.phase = "finishing" /\ e.intent = "succeeded"
  PROVE  AnswersLeft(Caught(e)) < AnswersLeft(e)
<1>1. AnswersLeft(Caught(e)) <= FinishAttempts
  BY WorkerAssumption DEF Caught, AnswersLeft, At
<1>2. AnswersLeft(e) > FinishAttempts /\ AnswersLeft(e) \in Nat
  BY AnswersLeftBounds, WorkerAssumption
<1> QED
  <2>1. AnswersLeft(Caught(e)) \in Nat
    BY CaughtType, AnswersLeftBounds, WorkerAssumption
  <2> QED
    BY <1>1, <1>2, <2>1, WorkerAssumption

\* Every failed attempt is one fewer to come.
LEMMA AttemptFailedIsCloser ==
  ASSUME NEW e \in Exec, e.phase = "finishing"
  PROVE  AnswersLeft(AttemptFailed(e)) < AnswersLeft(e)
<1>0. FinishAttempts \in Nat /\ FinishAttempts > 0 /\ e.tries \in 0..FinishAttempts-1
  BY WorkerAssumption DEF Exec
<1>1. CASE e.tries + 1 < FinishAttempts
  <2>1. AttemptFailed(e) = [e EXCEPT !.tries = e.tries + 1]
    BY <1>1 DEF AttemptFailed
  <2>2. /\ AttemptFailed(e).phase = "finishing"
        /\ AttemptFailed(e).intent = e.intent
        /\ AttemptFailed(e).tries = e.tries + 1
    BY <2>1 DEF Exec
  <2> QED
    BY <1>0, <2>2 DEF AnswersLeft
<1>2. CASE ~(e.tries + 1 < FinishAttempts) /\ e.intent = "succeeded"
  BY <1>2, CaughtIsCloser DEF AttemptFailed
<1>3. CASE ~(e.tries + 1 < FinishAttempts) /\ e.intent # "succeeded"
  <2>1. AnswersLeft(AttemptFailed(e)) = 0
    BY <1>3 DEF AttemptFailed, At, AnswersLeft
  <2> QED
    BY <1>0, <2>1 DEF AnswersLeft
<1> QED
  BY <1>1, <1>2, <1>3

\* Every answer brings the worker closer to the end, and so does every failure.
LEMMA AnswersAreCloser ==
  ASSUME TypeOK, NEW j \in Jobs, RunAnswered(j) \/ FinishAnswered(j)
  PROVE  AnswersLeft(exec'[j]) < AnswersLeft(exec[j])
<1>0. exec \in [Jobs -> Exec] /\ exec[j] \in Exec
  BY DEF TypeOK
<1>1. CASE RunAccepted(j)
  <2>1. exec[j].phase = "leased" /\ exec'[j].phase = "awaiting"
    BY <1>0, <1>1 DEF RunAccepted, Exec
  <2> QED
    BY <2>1, WorkerAssumption DEF AnswersLeft
<1>2. CASE RunReturns(j)
  <2>1. /\ exec[j].phase = "awaiting" /\ exec'[j].phase = "finishing"
        /\ exec'[j].intent = "succeeded" /\ exec'[j].tries = exec[j].tries
        /\ exec[j].tries \in 0..FinishAttempts-1
    BY <1>0, <1>2 DEF RunReturns, Exec
  <2> QED
    BY <2>1, WorkerAssumption DEF AnswersLeft
<1>3. CASE RunFails(j) \/ FinishUnreadable(j)
  <2>1. exec'[j] = Caught(exec[j])
    BY <1>0, <1>3 DEF RunFails, FinishUnreadable
  <2> QED
    BY <1>0, <1>3, <2>1, CaughtIsCloser DEF RunFails, FinishUnreadable
<1>4. CASE FinishTakes(j) \/ FinishRefused(j)
  <2>1. PICK after \in {At("done"), AttemptFailed(exec[j])} : exec' = [exec EXCEPT ![j] = after]
    BY <1>4 DEF FinishTakes, FinishRefused
  <2>2. exec[j].phase = "finishing" /\ exec'[j] = after
    BY <1>0, <1>4, <2>1 DEF FinishTakes, FinishRefused
  <2>3. CASE after = At("done")
    <3>1. AnswersLeft(exec'[j]) = 0
      BY <2>2, <2>3 DEF At, AnswersLeft
    <3> QED
      BY <1>0, <2>2, <3>1, AnswersLeftBounds, WorkerAssumption
  <2>4. CASE after = AttemptFailed(exec[j])
    BY <1>0, <2>2, <2>4, AttemptFailedIsCloser
  <2> QED
    BY <2>3, <2>4
<1> QED
  BY <1>1, <1>2, <1>3, <1>4 DEF RunAnswered, FinishAnswered

\* Nothing takes it further from its end: an abort changes only what it will
\* report, and a job is handed to a worker once.
LEMMA NoStepIsFarther ==
  ASSUME QueueInv, [Next]_vars, NEW j \in Jobs, InFlight(j)
  PROVE  AnswersLeft(exec'[j]) <= AnswersLeft(exec[j])
<1>0. exec \in [Jobs -> Exec] /\ exec[j] \in Exec /\ AnswersLeft(exec[j]) \in Nat
  BY AnswersLeftBounds, WorkerAssumption DEF QueueInv, TypeOK
<1>1. CASE exec'[j] = exec[j]
  BY <1>0, <1>1
<1>2. CASE NoLeaseMoves
  BY <1>1, <1>2, NoLeaseMovesStep
<1>3. ASSUME NEW w \in Workers, Crash(w)
      PROVE  AnswersLeft(exec'[j]) <= AnswersLeft(exec[j])
  <2>1. exec'[j] = exec[j] \/ exec'[j] = At("lost")
    BY <1>0, <1>3 DEF Crash
  <2>2. AnswersLeft(At("lost")) = 0
    BY DEF At, AnswersLeft
  <2> QED
    BY <1>0, <1>1, <2>1, <2>2
<1>4. ASSUME NEW w \in Workers, NEW k \in Jobs, PollClaims(w, k)
      PROVE  AnswersLeft(exec'[j]) <= AnswersLeft(exec[j])
  <2>1. status[k] = "queued" /\ status[j] # "queued"
    BY <1>4, OwnedWhileWorked DEF PollClaims, ClaimJob, Claimable, InFlight, QueueInv, TableInv
  <2>2. exec'[j] = exec[j]
    BY <1>0, <1>4, <2>1 DEF PollClaims
  <2> QED
    BY <1>1, <2>2
<1>5. ASSUME NEW k \in Jobs, LeaseMoves(k), k # j
      PROVE  AnswersLeft(exec'[j]) <= AnswersLeft(exec[j])
  BY <1>1, <1>5, LeaseMovesStep DEF QueueInv
<1>6. CASE LeaseMoves(j)
  <2>1. CASE RunAnswered(j) \/ FinishAnswered(j)
    <3>1. AnswersLeft(exec'[j]) < AnswersLeft(exec[j])
      BY <2>1, AnswersAreCloser DEF QueueInv
    <3>2. exec'[j] \in Exec
      BY ExecTypeStep DEF QueueInv
    <3>3. AnswersLeft(exec'[j]) \in Nat
      BY <3>2, AnswersLeftBounds, WorkerAssumption
    <3> QED
      BY <1>0, <3>1, <3>3
  <2>2. CASE HeartbeatGone(j) \/ TimerFires(j)
    <3>1. /\ exec'[j].phase = exec[j].phase
          /\ exec'[j].intent = exec[j].intent
          /\ exec'[j].tries = exec[j].tries
      BY <1>0, <2>2 DEF HeartbeatGone, TimerFires, Exec
    <3>2. AnswersLeft(exec'[j]) = AnswersLeft(exec[j])
      BY <3>1 DEF AnswersLeft
    <3> QED
      BY <1>0, <3>2
  <2> QED
    BY <1>6, <2>1, <2>2 DEF LeaseMoves, RunAnswered, FinishAnswered
<1> QED
  BY <1>2, <1>3, <1>4, <1>5, <1>6 DEF Next, NoLeaseMoves, LeaseMoves

\* A worker that waits for n more answers will wait for fewer.
ComesCloser(j, n) == AnswersLeft(exec[j]) = n ~> AnswersLeft(exec[j]) < n

LEMMA WorkerComesCloser ==
  ASSUME NEW j \in Jobs, NEW n \in Nat \ {0}
  PROVE  FairSpec /\ []WorkersCanAct => ComesCloser(j, n)
<1> DEFINE Here   == AnswersLeft(exec[j]) = n
           Closer == AnswersLeft(exec[j]) < n
           Run    == exec[j].phase \in {"leased", "awaiting"}
           Finish == exec[j].phase = "finishing"
<1>1. QueueInv /\ Here => Run \/ Finish
  BY AnswersLeftBounds DEF QueueInv, TypeOK
<1>2. QueueInv /\ QueueInv' /\ [Next]_vars /\ Here => Here' \/ Closer'
  <2> SUFFICES ASSUME QueueInv, QueueInv', [Next]_vars, Here
               PROVE  Here' \/ Closer'
    OBVIOUS
  <2>1. AnswersLeft(exec[j]) \in Nat /\ AnswersLeft(exec'[j]) \in Nat
    BY AnswersLeftBounds, WorkerAssumption DEF QueueInv, TypeOK
  <2>2. AnswersLeft(exec'[j]) <= AnswersLeft(exec[j])
    BY <1>1, NoStepIsFarther DEF InFlight
  <2> QED
    BY <2>1, <2>2
<1>3. QueueInv /\ QueueInv' /\ Here /\ Here' => (Run <=> Run')
  BY AnswersLeftBounds DEF QueueInv, TypeOK
<1>4. QueueInv /\ QueueInv' /\ Here /\ Here' => (Finish <=> Finish')
  BY AnswersLeftBounds DEF QueueInv, TypeOK
<1>5. QueueInv /\ Here /\ <<RunAnswered(j)>>_vars => Closer'
  BY AnswersAreCloser DEF QueueInv
<1>6. QueueInv /\ Here /\ <<FinishAnswered(j)>>_vars => Closer'
  BY AnswersAreCloser DEF QueueInv
<1>7. WorkersCanAct /\ Run => ENABLED <<RunAnswered(j)>>_vars
  BY DEF WorkersCanAct
<1>8. WorkersCanAct /\ Finish => ENABLED <<FinishAnswered(j)>>_vars
  BY DEF WorkersCanAct
<1>9. FairSpec => Spec /\ WorkerReacts(j)
  BY DEF FairSpec, Fairness
<1>10. WorkerReacts(j) => WF_vars(RunAnswered(j)) /\ WF_vars(FinishAnswered(j))
  BY PTL DEF WorkerReacts
<1> HIDE DEF Here, Closer, Run, Finish
<1>11. FairSpec /\ []WorkersCanAct => (Here ~> Closer)
  BY <1>1, <1>2, <1>3, <1>4, <1>5, <1>6, <1>7, <1>8, <1>9, <1>10, QueueInvariant, PTL DEF Spec
<1> QED
  BY <1>11, PTL DEF ComesCloser, Here, Closer

\* A worker gets its slot back, whatever becomes of the job, of its run request
\* and of its finish requests.  finish() makes four of them; the argument goes
\* through the answers one by one, so the theorem is about at most that many.
THEOREM WorkersGetSlotsBack ==
  ASSUME FinishAttempts <= 4
  PROVE  FairSpec /\ []WorkersCanAct => SlotsReturn
<1>1. SUFFICES ASSUME NEW j \in Jobs
               PROVE  FairSpec /\ []WorkersCanAct => (InFlight(j) ~> ~InFlight(j))
  BY DEF SlotsReturn
<1>2. QueueInv /\ InFlight(j) => AnswersLeft(exec[j]) < 11
  BY AnswersLeftBounds, WorkerAssumption DEF QueueInv, TypeOK, InFlight
<1>3. QueueInv /\ AnswersLeft(exec[j]) < 1 => ~InFlight(j)
  BY AnswersLeftBounds, WorkerAssumption DEF QueueInv, TypeOK, InFlight
<1>4. QueueInv =>
        /\ AnswersLeft(exec[j]) < 2 => AnswersLeft(exec[j]) = 1 \/ AnswersLeft(exec[j]) < 1
        /\ AnswersLeft(exec[j]) < 3 => AnswersLeft(exec[j]) = 2 \/ AnswersLeft(exec[j]) < 2
        /\ AnswersLeft(exec[j]) < 4 => AnswersLeft(exec[j]) = 3 \/ AnswersLeft(exec[j]) < 3
        /\ AnswersLeft(exec[j]) < 5 => AnswersLeft(exec[j]) = 4 \/ AnswersLeft(exec[j]) < 4
        /\ AnswersLeft(exec[j]) < 6 => AnswersLeft(exec[j]) = 5 \/ AnswersLeft(exec[j]) < 5
        /\ AnswersLeft(exec[j]) < 7 => AnswersLeft(exec[j]) = 6 \/ AnswersLeft(exec[j]) < 6
        /\ AnswersLeft(exec[j]) < 8 => AnswersLeft(exec[j]) = 7 \/ AnswersLeft(exec[j]) < 7
        /\ AnswersLeft(exec[j]) < 9 => AnswersLeft(exec[j]) = 8 \/ AnswersLeft(exec[j]) < 8
        /\ AnswersLeft(exec[j]) < 10 => AnswersLeft(exec[j]) = 9 \/ AnswersLeft(exec[j]) < 9
        /\ AnswersLeft(exec[j]) < 11 => AnswersLeft(exec[j]) = 10 \/ AnswersLeft(exec[j]) < 10
  BY AnswersLeftBounds, WorkerAssumption DEF QueueInv, TypeOK
<1>5. \A n \in 1..10 : FairSpec /\ []WorkersCanAct => ComesCloser(j, n)
  BY WorkerComesCloser
<1>6. FairSpec /\ []WorkersCanAct =>
        /\ ComesCloser(j, 1)
        /\ ComesCloser(j, 2)
        /\ ComesCloser(j, 3)
        /\ ComesCloser(j, 4)
        /\ ComesCloser(j, 5)
        /\ ComesCloser(j, 6)
        /\ ComesCloser(j, 7)
        /\ ComesCloser(j, 8)
        /\ ComesCloser(j, 9)
        /\ ComesCloser(j, 10)
  BY <1>5
<1> QED
  BY <1>2, <1>3, <1>4, <1>6, QueueInvariant, PTL DEF FairSpec, ComesCloser
=============================================================================
