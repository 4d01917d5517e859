------------------------------ MODULE CloudJobs ------------------------------
(***************************************************************************)
(* The cloud_jobs table of src/lib/server/cloud-jobs.ts: one row per job,  *)
(* and one action per SQL statement.  PostgreSQL runs each statement       *)
(* atomically on the rows it has locked, so a statement is one step; the   *)
(* exception is the sweep, which reads the rows it will time out in a CTE  *)
(* without locking them and updates them later, and so takes two steps.    *)
(*                                                                         *)
(* Time is abstract.  A row keeps, instead of its timestamps, what the     *)
(* statements compare them to: whether its lease has run out, and whether  *)
(* its timeout has passed since created_at (while queued) or started_at    *)
(* (once running).                                                         *)
(*                                                                         *)
(* The module also holds the admission check both execution adapters make  *)
(* before they insert a row (src/lib/server/entitlements.ts).  The actions *)
(* of this module constrain the table variables only; the modules that     *)
(* extend it say who calls them.                                           *)
(***************************************************************************)
EXTENDS Naturals, FiniteSets

CONSTANTS
  Jobs,           \* job ids, in the order the rows are created
  Workers,        \* worker ids (CLOUD_WORKER_ID or hostname and pid)
  NoWorker,       \* worker_id IS NULL
  Cron,           \* the sweeper that the Inngest cron function runs
  Submitters,     \* request handlers that submit jobs of the organization
  MaxConcurrent,  \* entitlements.maxConcurrentJobs of the organization
  SweepLimit      \* LIMIT of the sweep

ASSUME JobsAssumption    == Jobs \subseteq Nat
ASSUME WorkersAssumption == NoWorker \notin Workers /\ Cron \notin Workers
ASSUME SubmittersAssumption == IsFiniteSet(Submitters)
ASSUME LimitsAssumption  == MaxConcurrent \in Nat \ {0} /\ SweepLimit \in Nat \ {0}

VARIABLES
  status,           \* status of the row; "absent" before the INSERT
  workerId,         \* worker_id
  attempts,         \* attempts
  lease,            \* lease_expires_at: "null", "valid" or "expired"
  late,             \* the timeout has passed since created_at / started_at
  cancelRequested,  \* cancel_requested_at IS NOT NULL
  stored,           \* result or result_pointer IS NOT NULL
  logs,             \* logs IS NOT NULL
  sweep,            \* rows a sweep has read and not yet updated, per sweeper
  checked           \* submitters past the entitlement check, before the INSERT

row       == <<status, workerId, attempts, lease, late, cancelRequested, stored, logs>>
tableVars == <<status, workerId, attempts, lease, late, cancelRequested, stored, logs,
               sweep, checked>>

ActiveStatus   == {"queued", "running"}
TerminalStatus == {"succeeded", "failed", "cancelled", "timed_out"}
Status         == {"absent"} \cup ActiveStatus \cup TerminalStatus
Sweepers       == Workers \cup {Cron}

Active(j)   == status[j] \in ActiveStatus
Terminal(j) == status[j] \in TerminalStatus
ActiveJobs  == {j \in Jobs : Active(j)}

TableTypeOK ==
  /\ status          \in [Jobs -> Status]
  /\ workerId        \in [Jobs -> Workers \cup {NoWorker}]
  /\ attempts        \in [Jobs -> Nat]
  /\ lease           \in [Jobs -> {"null", "valid", "expired"}]
  /\ late            \in [Jobs -> BOOLEAN]
  /\ cancelRequested \in [Jobs -> BOOLEAN]
  /\ stored          \in [Jobs -> BOOLEAN]
  /\ logs            \in [Jobs -> BOOLEAN]
  /\ sweep           \in [Sweepers -> SUBSET Jobs]
  /\ checked         \subseteq Submitters

TableInit ==
  /\ status          = [j \in Jobs |-> "absent"]
  /\ workerId        = [j \in Jobs |-> NoWorker]
  /\ attempts        = [j \in Jobs |-> 0]
  /\ lease           = [j \in Jobs |-> "null"]
  /\ late            = [j \in Jobs |-> FALSE]
  /\ cancelRequested = [j \in Jobs |-> FALSE]
  /\ stored          = [j \in Jobs |-> FALSE]
  /\ logs            = [j \in Jobs |-> FALSE]
  /\ sweep           = [r \in Sweepers |-> {}]
  /\ checked         = {}

-----------------------------------------------------------------------------
(* Submission *)

\* Faulty variant: only the running rows are counted.
CheckEntitlement_RunningOnly(s) ==
  /\ s \notin checked
  /\ Cardinality({j \in Jobs : status[j] = "running"}) < MaxConcurrent
  /\ checked' = checked \cup {s}
  /\ UNCHANGED <<row, sweep>>

\* enforceJobEntitlements: the count is read here and the row inserted later.
CheckEntitlement(s) ==
  /\ s \notin checked
  /\ Cardinality(ActiveJobs) < MaxConcurrent
  /\ checked' = checked \cup {s}
  /\ UNCHANGED <<row, sweep>>

\* The rows are inserted in the order of their ids.
IsNextJob(j) ==
  /\ status[j] = "absent"
  /\ \A k \in Jobs : k < j => status[k] # "absent"

InsertJob(s, j) ==
  /\ s \in checked
  /\ IsNextJob(j)
  /\ status'  = [status EXCEPT ![j] = "queued"]
  /\ checked' = checked \ {s}
  /\ UNCHANGED <<workerId, attempts, lease, late, cancelRequested, stored, logs, sweep>>

\* The INSERT throws, or the server dies between the check and the INSERT.
InsertFails(s) ==
  /\ s \in checked
  /\ checked' = checked \ {s}
  /\ UNCHANGED <<row, sweep>>

-----------------------------------------------------------------------------
(* Statements on one row.  An UPDATE whose WHERE clause does not match     *)
(* changes nothing: the callers model what they do then.                   *)

CancelJob(j) ==
  /\ Active(j)
  /\ status'          = [status EXCEPT ![j] = "cancelled"]
  /\ cancelRequested' = [cancelRequested EXCEPT ![j] = TRUE]
  /\ lease'           = [lease EXCEPT ![j] = "null"]
  /\ UNCHANGED <<workerId, attempts, late, stored, logs, sweep, checked>>

\* started_at is set here, and the timeout now counts from it.
MarkRunning(j) ==
  /\ status[j] = "queued"
  /\ status' = [status EXCEPT ![j] = "running"]
  /\ late'   = [late EXCEPT ![j] = FALSE]
  /\ UNCHANGED <<workerId, attempts, lease, cancelRequested, stored, logs, sweep, checked>>

\* ($8 IS NULL OR worker_id = $8) AND status IN ('queued', 'running')
FinishMatches(j, w) == Active(j) /\ w \in {NoWorker, workerId[j]}

FinishJob(j, w, outcome, withResult) ==
  /\ FinishMatches(j, w)
  /\ status' = [status EXCEPT ![j] = outcome]
  /\ stored' = [stored EXCEPT ![j] = @ \/ withResult]
  /\ lease'  = [lease EXCEPT ![j] = "null"]
  /\ UNCHANGED <<workerId, attempts, late, cancelRequested, logs, sweep, checked>>

\* Faulty variant: a running row whose lease ran out can be claimed again.
Claimable_LeaseLost(j) ==
  \/ status[j] = "queued" /\ ~cancelRequested[j]
  \/ status[j] = "running" /\ lease[j] = "expired"

\* status = 'queued' AND cancel_requested_at IS NULL, oldest first; SKIP LOCKED
\* passes over an older row only when an unfinished sweep holds its lock.
Claimable(j) ==
  /\ status[j] = "queued"
  /\ ~cancelRequested[j]
  /\ \A k \in Jobs : k < j /\ status[k] = "queued" /\ ~cancelRequested[k]
        => \E r \in Sweepers : k \in sweep[r]

ClaimJob(j, w) ==
  /\ Claimable(j)
  /\ status'   = [status EXCEPT ![j] = "running"]
  /\ workerId' = [workerId EXCEPT ![j] = w]
  /\ attempts' = [attempts EXCEPT ![j] = @ + 1]
  /\ lease'    = [lease EXCEPT ![j] = "valid"]
  /\ late'     = [late EXCEPT ![j] = FALSE]
  /\ UNCHANGED <<cancelRequested, stored, logs, sweep, checked>>

\* Faulty variant: only the owner is compared.
RunningFor_OwnerOnly(j, w) == workerId[j] = w

\* worker_id = $3 AND status = 'running': the guard of a heartbeat, of a log
\* append and of the run endpoint.
RunningFor(j, w) == status[j] = "running" /\ workerId[j] = w

ExtendLease(j, w) ==
  /\ RunningFor(j, w)
  /\ lease' = [lease EXCEPT ![j] = "valid"]
  /\ UNCHANGED <<status, workerId, attempts, late, cancelRequested, stored, logs, sweep, checked>>

AppendLogs(j, w) ==
  /\ RunningFor(j, w)
  /\ logs' = [logs EXCEPT ![j] = TRUE]
  /\ UNCHANGED <<status, workerId, attempts, lease, late, cancelRequested, stored, sweep, checked>>

-----------------------------------------------------------------------------
(* The sweep: failTimedOutCloudJobs *)

\* Faulty variant: only leases are looked at, not the timeouts.
Expired_LeaseOnly(j) == status[j] = "running" /\ lease[j] = "expired"

Expired(j) ==
  \/ status[j] = "running" /\ lease[j] = "expired"
  \/ status[j] = "running" /\ late[j]
  \/ status[j] = "queued"  /\ late[j]

ExpiredJobs == {j \in Jobs : Expired(j)}

\* The CTE: at most LIMIT of the rows that are stuck now.
SweepRead(r) ==
  /\ sweep[r] = {}
  /\ \E S \in SUBSET ExpiredJobs :
       /\ S # {}
       /\ \/ Cardinality(S) = SweepLimit
          \/ S = ExpiredJobs /\ Cardinality(S) <= SweepLimit
       /\ sweep' = [sweep EXCEPT ![r] = S]
  /\ UNCHANGED <<row, checked>>

\* Faulty variant: stuck rows go back to the queue.
SweepUpdate_Requeues(r) ==
  /\ sweep[r] # {}
  /\ status' = [j \in Jobs |-> IF j \in sweep[r] THEN "queued" ELSE status[j]]
  /\ lease'  = [j \in Jobs |-> IF j \in sweep[r] THEN "null" ELSE lease[j]]
  /\ sweep'  = [sweep EXCEPT ![r] = {}]
  /\ UNCHANGED <<workerId, attempts, late, cancelRequested, stored, logs, checked>>

\* The UPDATE: j.id = expired.id is its whole WHERE clause.
SweepUpdate(r) ==
  /\ sweep[r] # {}
  /\ status' = [j \in Jobs |-> IF j \in sweep[r] THEN "timed_out" ELSE status[j]]
  /\ lease'  = [j \in Jobs |-> IF j \in sweep[r] THEN "null" ELSE lease[j]]
  /\ sweep'  = [sweep EXCEPT ![r] = {}]
  /\ UNCHANGED <<workerId, attempts, late, cancelRequested, stored, logs, checked>>

\* The statement fails, and none of its rows change.
SweepFails(r) ==
  /\ sweep[r] # {}
  /\ sweep' = [sweep EXCEPT ![r] = {}]
  /\ UNCHANGED <<row, checked>>

-----------------------------------------------------------------------------
(* The clock *)

LeaseRunsOut(j) ==
  /\ lease[j] = "valid"
  /\ lease' = [lease EXCEPT ![j] = "expired"]
  /\ UNCHANGED <<status, workerId, attempts, late, cancelRequested, stored, logs, sweep, checked>>

TimeoutPasses(j) ==
  /\ status[j] # "absent"
  /\ ~late[j]
  /\ late' = [late EXCEPT ![j] = TRUE]
  /\ UNCHANGED <<status, workerId, attempts, lease, cancelRequested, stored, logs, sweep, checked>>

-----------------------------------------------------------------------------
(* What the table promises, whoever calls it *)

\* A lease exists only on a running row that a worker owns, and a row has an
\* owner exactly when it was claimed, which happens once: no statement puts a
\* row back to 'queued', so a job whose worker died is timed out, never handed
\* to a second worker.
ClaimedOnce ==
  \A j \in Jobs :
    /\ lease[j] # "null" => status[j] = "running" /\ workerId[j] # NoWorker
    /\ workerId[j] # NoWorker <=> attempts[j] = 1
    /\ attempts[j] <= 1
    /\ status[j] \in {"absent", "queued"} => attempts[j] = 0

\* A cancellation is never undone by an answer that arrives after it: a row the
\* user cancelled ends 'cancelled', unless a sweep that had already read it
\* times it out.
CancelIsFinal ==
  \A j \in Jobs : cancelRequested[j] => status[j] \in {"cancelled", "timed_out"}

\* The admission check is not atomic with the INSERT, so the plan limit can be
\* passed; but never by more than the number of other submitters.
QuotaOvershootBounded ==
  Cardinality(ActiveJobs) <= MaxConcurrent + Cardinality(Submitters) - 1

\* The outcome of a settled job is final: the only thing that can still happen
\* to the row is that a sweep that read it earlier overwrites it as timed out,
\* and no step ever adds a result or log lines to it.
FrozenStep ==
  \A j \in Jobs : Terminal(j) =>
    /\ status'[j] \in {status[j], "timed_out"}
    /\ stored'[j] = stored[j]
    /\ logs'[j] = logs[j]
    /\ workerId'[j] = workerId[j]
SettledRowsFrozen == [][FrozenStep]_row

\* What the comment on the sweep says it touches: running jobs, and queued jobs
\* that were never claimed.
SweepOnlyStuckJobs ==
  [][\A j \in Jobs : status'[j] = "timed_out" /\ status[j] # "timed_out" => Active(j)]_row

\* The rows go through the abstract life cycle of a job.
Lifecycle == INSTANCE JobLifecycle WITH state <- status, owner <- workerId
ImplementsLifecycle == Lifecycle!Spec
=============================================================================
