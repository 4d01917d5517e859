---------------------------- MODULE CloudJobsProofs ----------------------------
(***************************************************************************)
(* What every user of the cloud_jobs table can rely on, proved statement   *)
(* by statement.  TableStep is one statement, or none; the modules that    *)
(* prove properties of the two execution paths only have to show that      *)
(* their steps are table steps.                                            *)
(***************************************************************************)
EXTENDS CloudJobs, FiniteSetTheorems, TLAPS

TableStep ==
  \/ \E s \in Submitters : CheckEntitlement(s) \/ InsertFails(s)
  \/ \E s \in Submitters, j \in Jobs : InsertJob(s, j)
  \/ \E j \in Jobs : CancelJob(j) \/ MarkRunning(j) \/ LeaseRunsOut(j) \/ TimeoutPasses(j)
  \/ \E j \in Jobs, w \in Workers \cup {NoWorker}, outcome \in TerminalStatus, b \in BOOLEAN :
       FinishJob(j, w, outcome, b)
  \/ \E j \in Jobs, w \in Workers : ClaimJob(j, w) \/ ExtendLease(j, w) \/ AppendLogs(j, w)
  \/ \E r \in Sweepers : SweepRead(r) \/ SweepUpdate(r) \/ SweepFails(r)
  \/ UNCHANGED tableVars

\* The rows a sweep has read exist.
SweptRowsExist == \A r \in Sweepers : \A j \in sweep[r] : status[j] # "absent"

TableInv == TableTypeOK /\ ClaimedOnce /\ CancelIsFinal /\ SweptRowsExist

\* The empty table satisfies the invariant of the rows.
LEMMA TableInitInv == TableInit => TableInv
BY WorkersAssumption
DEF TableInit, TableInv, TableTypeOK, ClaimedOnce, CancelIsFinal, SweptRowsExist, Status

\* No statement takes a column out of its type.
LEMMA TableTypeStep == TableTypeOK /\ TableStep => TableTypeOK'
<1> SUFFICES ASSUME TableTypeOK, TableStep
             PROVE  TableTypeOK'
  OBVIOUS
<1> USE DEF TableTypeOK, Status, ActiveStatus, TerminalStatus, row
<1>1. ASSUME NEW s \in Submitters, CheckEntitlement(s) \/ InsertFails(s)
      PROVE  TableTypeOK'
  BY <1>1 DEF CheckEntitlement, InsertFails
<1>2. ASSUME NEW s \in Submitters, NEW j \in Jobs, InsertJob(s, j)
      PROVE  TableTypeOK'
  BY <1>2 DEF InsertJob
<1>3. ASSUME NEW j \in Jobs, CancelJob(j)
      PROVE  TableTypeOK'
  BY <1>3 DEF CancelJob
<1>4. ASSUME NEW j \in Jobs, MarkRunning(j) \/ LeaseRunsOut(j) \/ TimeoutPasses(j)
      PROVE  TableTypeOK'
  <2>1. CASE MarkRunning(j)
    BY <2>1 DEF MarkRunning
  <2>2. CASE LeaseRunsOut(j)
    BY <2>2 DEF LeaseRunsOut
  <2>3. CASE TimeoutPasses(j)
    BY <2>3 DEF TimeoutPasses
  <2> QED
    BY <1>4, <2>1, <2>2, <2>3
<1>5. ASSUME NEW j \in Jobs, NEW w \in Workers \cup {NoWorker}, NEW outcome \in TerminalStatus,
             NEW b \in BOOLEAN, FinishJob(j, w, outcome, b)
      PROVE  TableTypeOK'
  BY <1>5 DEF FinishJob
<1>6. ASSUME NEW j \in Jobs, NEW w \in Workers, ClaimJob(j, w)
      PROVE  TableTypeOK'
  BY <1>6 DEF ClaimJob
<1>7. ASSUME NEW j \in Jobs, NEW w \in Workers, ExtendLease(j, w) \/ AppendLogs(j, w)
      PROVE  TableTypeOK'
  BY <1>7 DEF ExtendLease, AppendLogs
<1>8. ASSUME NEW r \in Sweepers, SweepRead(r)
      PROVE  TableTypeOK'
  BY <1>8 DEF SweepRead, ExpiredJobs
<1>9. ASSUME NEW r \in Sweepers, SweepUpdate(r) \/ SweepFails(r)
      PROVE  TableTypeOK'
  BY <1>9 DEF SweepUpdate, SweepFails
<1>10. CASE UNCHANGED tableVars
  BY <1>10 DEF tableVars
<1> HIDE DEF TableTypeOK, Status, ActiveStatus, TerminalStatus, row
<1> QED
  BY <1>1, <1>2, <1>3, <1>4, <1>5, <1>6, <1>7, <1>8, <1>9, <1>10 DEF TableStep

\* A row is claimed at most once, and a lease is only ever held by its claimer.
LEMMA ClaimedOnceStep == TableTypeOK /\ ClaimedOnce /\ TableStep => ClaimedOnce'
<1> SUFFICES ASSUME TableTypeOK /\ ClaimedOnce, TableStep
             PROVE  ClaimedOnce'
  OBVIOUS
<1>1. ASSUME NEW s \in Submitters, CheckEntitlement(s) \/ InsertFails(s)
      PROVE  ClaimedOnce'
  BY <1>1 DEF CheckEntitlement, InsertFails, row,
         TableTypeOK, ClaimedOnce, Status, ActiveStatus, TerminalStatus
<1>2. ASSUME NEW s \in Submitters, NEW j \in Jobs, InsertJob(s, j)
      PROVE  ClaimedOnce'
  BY <1>2 DEF InsertJob, IsNextJob,
         TableTypeOK, ClaimedOnce, Status, ActiveStatus, TerminalStatus
<1>3. ASSUME NEW j \in Jobs, CancelJob(j)
      PROVE  ClaimedOnce'
  BY <1>3 DEF CancelJob, Active,
         TableTypeOK, ClaimedOnce, Status, ActiveStatus, TerminalStatus
<1>4. ASSUME NEW j \in Jobs, MarkRunning(j) \/ LeaseRunsOut(j) \/ TimeoutPasses(j)
      PROVE  ClaimedOnce'
  BY <1>4 DEF MarkRunning, LeaseRunsOut, TimeoutPasses,
         TableTypeOK, ClaimedOnce, Status, ActiveStatus, TerminalStatus
<1>5. ASSUME NEW j \in Jobs, NEW w \in Workers \cup {NoWorker}, NEW outcome \in TerminalStatus,
             NEW b \in BOOLEAN, FinishJob(j, w, outcome, b)
      PROVE  ClaimedOnce'
  BY <1>5 DEF FinishJob, FinishMatches, Active,
         TableTypeOK, ClaimedOnce, Status, ActiveStatus, TerminalStatus
<1>6. ASSUME NEW j \in Jobs, NEW w \in Workers, ClaimJob(j, w)
      PROVE  ClaimedOnce'
  BY <1>6, WorkersAssumption DEF ClaimJob, Claimable,
         TableTypeOK, ClaimedOnce, Status, ActiveStatus, TerminalStatus
<1>7. ASSUME NEW j \in Jobs, NEW w \in Workers, ExtendLease(j, w) \/ AppendLogs(j, w)
      PROVE  ClaimedOnce'
  BY <1>7, WorkersAssumption DEF ExtendLease, AppendLogs, RunningFor,
         TableTypeOK, ClaimedOnce, Status, ActiveStatus, TerminalStatus
<1>8. ASSUME NEW r \in Sweepers, SweepRead(r)
      PROVE  ClaimedOnce'
  BY <1>8 DEF SweepRead, ExpiredJobs, Expired, row,
         TableTypeOK, ClaimedOnce, Status, ActiveStatus, TerminalStatus
<1>9. ASSUME NEW r \in Sweepers, SweepUpdate(r) \/ SweepFails(r)
      PROVE  ClaimedOnce'
  BY <1>9 DEF SweepUpdate, SweepFails, row,
         TableTypeOK, ClaimedOnce, Status, ActiveStatus, TerminalStatus
<1>10. CASE UNCHANGED tableVars
  BY <1>10 DEF tableVars,
         TableTypeOK, ClaimedOnce, Status, ActiveStatus, TerminalStatus
<1> QED
  BY <1>1, <1>2, <1>3, <1>4, <1>5, <1>6, <1>7, <1>8, <1>9, <1>10 DEF TableStep

\* No statement takes a cancelled row out of 'cancelled', but for a sweep.
LEMMA CancelIsFinalStep == TableTypeOK /\ CancelIsFinal /\ TableStep => CancelIsFinal'
<1> SUFFICES ASSUME TableTypeOK /\ CancelIsFinal, TableStep
             PROVE  CancelIsFinal'
  OBVIOUS
<1>1. ASSUME NEW s \in Submitters, CheckEntitlement(s) \/ InsertFails(s)
      PROVE  CancelIsFinal'
  BY <1>1 DEF CheckEntitlement, InsertFails, row,
         TableTypeOK, CancelIsFinal, Status, ActiveStatus, TerminalStatus
<1>2. ASSUME NEW s \in Submitters, NEW j \in Jobs, InsertJob(s, j)
      PROVE  CancelIsFinal'
  BY <1>2 DEF InsertJob, IsNextJob,
         TableTypeOK, CancelIsFinal, Status, ActiveStatus, TerminalStatus
<1>3. ASSUME NEW j \in Jobs, CancelJob(j)
      PROVE  CancelIsFinal'
  BY <1>3 DEF CancelJob, Active,
         TableTypeOK, CancelIsFinal, Status, ActiveStatus, TerminalStatus
<1>4. ASSUME NEW j \in Jobs, MarkRunning(j) \/ LeaseRunsOut(j) \/ TimeoutPasses(j)
      PROVE  CancelIsFinal'
  BY <1>4 DEF MarkRunning, LeaseRunsOut, TimeoutPasses,
         TableTypeOK, CancelIsFinal, Status, ActiveStatus, TerminalStatus
<1>5. ASSUME NEW j \in Jobs, NEW w \in Workers \cup {NoWorker}, NEW outcome \in TerminalStatus,
             NEW b \in BOOLEAN, FinishJob(j, w, outcome, b)
      PROVE  CancelIsFinal'
  BY <1>5 DEF FinishJob, FinishMatches, Active,
         TableTypeOK, CancelIsFinal, Status, ActiveStatus, TerminalStatus
<1>6. ASSUME NEW j \in Jobs, NEW w \in Workers, ClaimJob(j, w)
      PROVE  CancelIsFinal'
  BY <1>6 DEF ClaimJob, Claimable,
         TableTypeOK, CancelIsFinal, Status, ActiveStatus, TerminalStatus
<1>7. ASSUME NEW j \in Jobs, NEW w \in Workers, ExtendLease(j, w) \/ AppendLogs(j, w)
      PROVE  CancelIsFinal'
  BY <1>7 DEF ExtendLease, AppendLogs, RunningFor,
         TableTypeOK, CancelIsFinal, Status, ActiveStatus, TerminalStatus
<1>8. ASSUME NEW r \in Sweepers, SweepRead(r)
      PROVE  CancelIsFinal'
  BY <1>8 DEF SweepRead, ExpiredJobs, Expired, row,
         TableTypeOK, CancelIsFinal, Status, ActiveStatus, TerminalStatus
<1>9. ASSUME NEW r \in Sweepers, SweepUpdate(r) \/ SweepFails(r)
      PROVE  CancelIsFinal'
  BY <1>9 DEF SweepUpdate, SweepFails, row,
         TableTypeOK, CancelIsFinal, Status, ActiveStatus, TerminalStatus
<1>10. CASE UNCHANGED tableVars
  BY <1>10 DEF tableVars,
         TableTypeOK, CancelIsFinal, Status, ActiveStatus, TerminalStatus
<1> QED
  BY <1>1, <1>2, <1>3, <1>4, <1>5, <1>6, <1>7, <1>8, <1>9, <1>10 DEF TableStep

\* A sweep reads rows that exist, and no statement deletes a row.
LEMMA SweptRowsExistStep == TableTypeOK /\ SweptRowsExist /\ TableStep => SweptRowsExist'
<1> SUFFICES ASSUME TableTypeOK /\ SweptRowsExist, TableStep
             PROVE  SweptRowsExist'
  OBVIOUS
<1>1. ASSUME NEW s \in Submitters, CheckEntitlement(s) \/ InsertFails(s)
      PROVE  SweptRowsExist'
  BY <1>1 DEF CheckEntitlement, InsertFails, row,
         TableTypeOK, SweptRowsExist, Status, ActiveStatus, TerminalStatus
<1>2. ASSUME NEW s \in Submitters, NEW j \in Jobs, InsertJob(s, j)
      PROVE  SweptRowsExist'
  BY <1>2 DEF InsertJob, IsNextJob,
         TableTypeOK, SweptRowsExist, Status, ActiveStatus, TerminalStatus
<1>3. ASSUME NEW j \in Jobs, CancelJob(j)
      PROVE  SweptRowsExist'
  BY <1>3 DEF CancelJob, Active,
         TableTypeOK, SweptRowsExist, Status, ActiveStatus, TerminalStatus
<1>4. ASSUME NEW j \in Jobs, MarkRunning(j) \/ LeaseRunsOut(j) \/ TimeoutPasses(j)
      PROVE  SweptRowsExist'
  BY <1>4 DEF MarkRunning, LeaseRunsOut, TimeoutPasses,
         TableTypeOK, SweptRowsExist, Status, ActiveStatus, TerminalStatus
<1>5. ASSUME NEW j \in Jobs, NEW w \in Workers \cup {NoWorker}, NEW outcome \in TerminalStatus,
             NEW b \in BOOLEAN, FinishJob(j, w, outcome, b)
      PROVE  SweptRowsExist'
  BY <1>5 DEF FinishJob, FinishMatches, Active,
         TableTypeOK, SweptRowsExist, Status, ActiveStatus, TerminalStatus
<1>6. ASSUME NEW j \in Jobs, NEW w \in Workers, ClaimJob(j, w)
      PROVE  SweptRowsExist'
  BY <1>6 DEF ClaimJob, Claimable,
         TableTypeOK, SweptRowsExist, Status, ActiveStatus, TerminalStatus
<1>7. ASSUME NEW j \in Jobs, NEW w \in Workers, ExtendLease(j, w) \/ AppendLogs(j, w)
      PROVE  SweptRowsExist'
  BY <1>7 DEF ExtendLease, AppendLogs, RunningFor,
         TableTypeOK, SweptRowsExist, Status, ActiveStatus, TerminalStatus
<1>8. ASSUME NEW r \in Sweepers, SweepRead(r)
      PROVE  SweptRowsExist'
  BY <1>8 DEF SweepRead, ExpiredJobs, Expired, row,
         TableTypeOK, SweptRowsExist, Status, ActiveStatus, TerminalStatus
<1>9. ASSUME NEW r \in Sweepers, SweepUpdate(r) \/ SweepFails(r)
      PROVE  SweptRowsExist'
  BY <1>9 DEF SweepUpdate, SweepFails, row,
         TableTypeOK, SweptRowsExist, Status, ActiveStatus, TerminalStatus
<1>10. CASE UNCHANGED tableVars
  BY <1>10 DEF tableVars,
         TableTypeOK, SweptRowsExist, Status, ActiveStatus, TerminalStatus
<1> QED
  BY <1>1, <1>2, <1>3, <1>4, <1>5, <1>6, <1>7, <1>8, <1>9, <1>10 DEF TableStep
\* A settled row keeps everything it holds, but for its status when it is swept.
LEMMA FrozenStepLemma == TableTypeOK /\ TableStep => [FrozenStep]_row
<1> SUFFICES ASSUME TableTypeOK, TableStep, NEW j \in Jobs, Terminal(j)
             PROVE  /\ status'[j] \in {status[j], "timed_out"}
                    /\ stored'[j] = stored[j]
                    /\ logs'[j] = logs[j]
                    /\ workerId'[j] = workerId[j]
  BY DEF FrozenStep
<1> DEFINE Frozen == /\ status'[j] \in {status[j], "timed_out"}
                     /\ stored'[j] = stored[j]
                     /\ logs'[j] = logs[j]
                     /\ workerId'[j] = workerId[j]
<1>1. ASSUME NEW s \in Submitters,
             CheckEntitlement(s) \/ InsertFails(s) \/ \E k \in Jobs : InsertJob(s, k)
      PROVE  Frozen
  BY <1>1 DEF CheckEntitlement, InsertFails, InsertJob, IsNextJob, row,
         TableTypeOK, Terminal, TerminalStatus
<1>2. ASSUME NEW k \in Jobs,
             CancelJob(k) \/ MarkRunning(k) \/ LeaseRunsOut(k) \/ TimeoutPasses(k)
      PROVE  Frozen
  BY <1>2 DEF CancelJob, MarkRunning, LeaseRunsOut, TimeoutPasses,
         TableTypeOK, Active, ActiveStatus, Terminal, TerminalStatus
<1>3. ASSUME NEW k \in Jobs, NEW w \in Workers \cup {NoWorker}, NEW outcome \in TerminalStatus,
             NEW b \in BOOLEAN, FinishJob(k, w, outcome, b)
      PROVE  Frozen
  BY <1>3 DEF FinishJob, FinishMatches,
         TableTypeOK, Active, ActiveStatus, Terminal, TerminalStatus
<1>4. ASSUME NEW k \in Jobs, NEW w \in Workers,
             ClaimJob(k, w) \/ ExtendLease(k, w) \/ AppendLogs(k, w)
      PROVE  Frozen
  BY <1>4 DEF ClaimJob, Claimable, ExtendLease, AppendLogs, RunningFor,
         TableTypeOK, Terminal, TerminalStatus
<1>5. ASSUME NEW r \in Sweepers, SweepRead(r) \/ SweepUpdate(r) \/ SweepFails(r)
      PROVE  Frozen
  BY <1>5 DEF SweepRead, SweepUpdate, SweepFails, row
<1>6. CASE UNCHANGED tableVars
  BY <1>6 DEF tableVars
<1> QED
  BY <1>1, <1>2, <1>3, <1>4, <1>5, <1>6 DEF TableStep

-----------------------------------------------------------------------------
(* What the processes rely on *)

\* No statement deletes a row.
LEMMA RowsStay ==
  ASSUME TableTypeOK, TableStep, NEW j \in Jobs, status[j] # "absent"
  PROVE  status'[j] # "absent"
<1>1. ASSUME NEW s \in Submitters,
             CheckEntitlement(s) \/ InsertFails(s) \/ \E k \in Jobs : InsertJob(s, k)
      PROVE  status'[j] # "absent"
  BY <1>1 DEF CheckEntitlement, InsertFails, InsertJob, IsNextJob, row, TableTypeOK
<1>2. ASSUME NEW k \in Jobs,
             CancelJob(k) \/ MarkRunning(k) \/ LeaseRunsOut(k) \/ TimeoutPasses(k)
      PROVE  status'[j] # "absent"
  BY <1>2 DEF CancelJob, MarkRunning, LeaseRunsOut, TimeoutPasses, TableTypeOK
<1>3. ASSUME NEW k \in Jobs, NEW w \in Workers \cup {NoWorker}, NEW outcome \in TerminalStatus,
             NEW b \in BOOLEAN, FinishJob(k, w, outcome, b)
      PROVE  status'[j] # "absent"
  BY <1>3 DEF FinishJob, TableTypeOK, TerminalStatus
<1>4. ASSUME NEW k \in Jobs, NEW w \in Workers,
             ClaimJob(k, w) \/ ExtendLease(k, w) \/ AppendLogs(k, w)
      PROVE  status'[j] # "absent"
  BY <1>4 DEF ClaimJob, ExtendLease, AppendLogs, TableTypeOK
<1>5. ASSUME NEW r \in Sweepers, SweepRead(r) \/ SweepUpdate(r) \/ SweepFails(r)
      PROVE  status'[j] # "absent"
  BY <1>5 DEF SweepRead, SweepUpdate, SweepFails, row
<1>6. CASE UNCHANGED tableVars
  BY <1>6 DEF tableVars
<1> QED
  BY <1>1, <1>2, <1>3, <1>4, <1>5, <1>6 DEF TableStep

\* A settled row stays settled.
LEMMA TerminalStays ==
  ASSUME TableTypeOK, TableStep, NEW j \in Jobs, Terminal(j)
  PROVE  Terminal(j)'
<1>1. CASE FrozenStep
  BY <1>1 DEF FrozenStep, Terminal, TerminalStatus
<1>2. CASE UNCHANGED row
  BY <1>2 DEF row, Terminal
<1> QED
  BY <1>1, <1>2, FrozenStepLemma

-----------------------------------------------------------------------------
(* The abstract life cycle *)

\* The empty table is the initial state of the abstract life cycle.
LEMMA LifecycleInit == TableInit => Lifecycle!Init
BY DEF TableInit, Lifecycle!Init

\* Every statement is a step of the abstract life cycle, or changes nothing of it.
LEMMA LifecycleStep ==
  TableInv /\ TableStep => [Lifecycle!Next]_<<status, workerId>>
<1> SUFFICES ASSUME TableInv, TableStep
             PROVE  [Lifecycle!Next]_<<status, workerId>>
  OBVIOUS
<1>1. ASSUME NEW s \in Submitters, CheckEntitlement(s) \/ InsertFails(s)
      PROVE  UNCHANGED <<status, workerId>>
  BY <1>1 DEF CheckEntitlement, InsertFails, row
<1>2. ASSUME NEW s \in Submitters, NEW j \in Jobs, InsertJob(s, j)
      PROVE  Lifecycle!Submit(j)
  BY <1>2 DEF InsertJob, IsNextJob, Lifecycle!Submit
<1>3. ASSUME NEW j \in Jobs, CancelJob(j)
      PROVE  Lifecycle!Settle(j, "cancelled")
  BY <1>3 DEF CancelJob, Active, ActiveStatus, Lifecycle!Settle, Lifecycle!Open
<1>4. ASSUME NEW j \in Jobs, MarkRunning(j)
      PROVE  Lifecycle!Start(j, NoWorker)
  <2>1. workerId[j] = NoWorker
    BY <1>4 DEF MarkRunning, TableInv, TableTypeOK, ClaimedOnce
  <2> QED
    BY <1>4, <2>1 DEF MarkRunning, TableInv, TableTypeOK, Lifecycle!Start
<1>5. ASSUME NEW j \in Jobs, LeaseRunsOut(j) \/ TimeoutPasses(j)
      PROVE  UNCHANGED <<status, workerId>>
  BY <1>5 DEF LeaseRunsOut, TimeoutPasses
<1>6. ASSUME NEW j \in Jobs, NEW w \in Workers \cup {NoWorker}, NEW outcome \in TerminalStatus,
             NEW b \in BOOLEAN, FinishJob(j, w, outcome, b)
      PROVE  Lifecycle!Settle(j, outcome)
  BY <1>6 DEF FinishJob, FinishMatches, Active, ActiveStatus, Lifecycle!Settle, Lifecycle!Open
<1>7. ASSUME NEW j \in Jobs, NEW w \in Workers, ClaimJob(j, w)
      PROVE  Lifecycle!Start(j, w)
  BY <1>7 DEF ClaimJob, Claimable, Lifecycle!Start
<1>8. ASSUME NEW j \in Jobs, NEW w \in Workers, ExtendLease(j, w) \/ AppendLogs(j, w)
      PROVE  UNCHANGED <<status, workerId>>
  BY <1>8 DEF ExtendLease, AppendLogs
<1>9. ASSUME NEW r \in Sweepers, SweepRead(r) \/ SweepFails(r)
      PROVE  UNCHANGED <<status, workerId>>
  BY <1>9 DEF SweepRead, SweepFails, row
<1>10. ASSUME NEW r \in Sweepers, SweepUpdate(r)
       PROVE  sweep[r] \in SUBSET Jobs /\ Lifecycle!TimeOut(sweep[r])
  BY <1>10 DEF SweepUpdate, TableInv, TableTypeOK, SweptRowsExist, Lifecycle!TimeOut
<1>11. ASSUME UNCHANGED tableVars
       PROVE  UNCHANGED <<status, workerId>>
  BY <1>11 DEF tableVars
<1>12. "cancelled" \in Lifecycle!Outcome /\ TerminalStatus = Lifecycle!Outcome
  BY DEF TerminalStatus, Lifecycle!Outcome
<1> QED
  BY <1>1, <1>2, <1>3, <1>4, <1>5, <1>6, <1>7, <1>8, <1>9, <1>10, <1>11, <1>12
  DEF TableStep, Lifecycle!Next
-----------------------------------------------------------------------------
(* The plan limit.  A submitter that has passed the check holds a claim on *)
(* a slot it has not taken yet: counting those claims with the open rows   *)
(* makes the bound inductive.                                              *)

QuotaInv ==
  /\ IsFiniteSet(ActiveJobs)
  /\ Cardinality(ActiveJobs) + Cardinality(checked)
       <= MaxConcurrent + Cardinality(Submitters) - 1

\* The bound holds of the empty table.
LEMMA QuotaInit == TableInit => QuotaInv
<1> SUFFICES ASSUME TableInit
             PROVE  QuotaInv
  OBVIOUS
<1>1. ActiveJobs = {}
  BY DEF TableInit, ActiveJobs, Active, ActiveStatus
<1>2. Cardinality(Submitters) \in Nat
  BY SubmittersAssumption, FS_CardinalityType
<1> QED
  BY <1>1, <1>2, FS_EmptySet, LimitsAssumption DEF QuotaInv, TableInit

\* Open rows that close, and submitters that give up, only lower the count.
LEMMA QuotaShrinks ==
  ASSUME TableTypeOK, QuotaInv, ActiveJobs' \subseteq ActiveJobs, checked' \subseteq checked
  PROVE  QuotaInv'
<1>1. IsFiniteSet(checked)
  BY SubmittersAssumption, FS_Subset DEF TableTypeOK
<1>2. /\ IsFiniteSet(ActiveJobs')
      /\ Cardinality(ActiveJobs') <= Cardinality(ActiveJobs)
  BY FS_Subset DEF QuotaInv
<1>3. Cardinality(checked') <= Cardinality(checked)
  BY <1>1, FS_Subset
<1>4. /\ Cardinality(ActiveJobs) \in Nat /\ Cardinality(ActiveJobs') \in Nat
      /\ Cardinality(checked) \in Nat /\ Cardinality(checked') \in Nat
      /\ Cardinality(Submitters) \in Nat
  BY <1>1, <1>2, FS_Subset, FS_CardinalityType, SubmittersAssumption DEF QuotaInv
<1> QED
  BY <1>2, <1>3, <1>4, LimitsAssumption DEF QuotaInv

\* No statement raises the count, but the check, and that only below the limit.
LEMMA QuotaStep == TableTypeOK /\ QuotaInv /\ TableStep => QuotaInv'
<1> SUFFICES ASSUME TableTypeOK, QuotaInv, TableStep
             PROVE  QuotaInv'
  OBVIOUS
<1>0. /\ IsFiniteSet(checked) /\ Cardinality(checked) \in Nat
      /\ Cardinality(ActiveJobs) \in Nat /\ Cardinality(Submitters) \in Nat
  BY SubmittersAssumption, FS_Subset, FS_CardinalityType DEF TableTypeOK, QuotaInv
<1>1. ASSUME NEW s \in Submitters, CheckEntitlement(s)
      PROVE  QuotaInv'
  <2>1. ActiveJobs' = ActiveJobs
    BY <1>1 DEF CheckEntitlement, row, ActiveJobs, Active
  <2>2. checked' = checked \cup {s} /\ checked' \subseteq Submitters
    BY <1>1 DEF CheckEntitlement, TableTypeOK
  <2>3. Cardinality(checked') <= Cardinality(Submitters) /\ Cardinality(checked') \in Nat
    BY <2>2, SubmittersAssumption, FS_Subset, FS_CardinalityType
  <2>4. Cardinality(ActiveJobs) <= MaxConcurrent - 1
    BY <1>0, <1>1, LimitsAssumption DEF CheckEntitlement
  <2> QED
    BY <1>0, <2>1, <2>3, <2>4, LimitsAssumption DEF QuotaInv
<1>2. ASSUME NEW s \in Submitters, NEW j \in Jobs, InsertJob(s, j)
      PROVE  QuotaInv'
  <2>1. ActiveJobs' = ActiveJobs \cup {j} /\ j \notin ActiveJobs
    BY <1>2 DEF InsertJob, IsNextJob, TableTypeOK, ActiveJobs, Active, ActiveStatus
  <2>2. checked' = checked \ {s} /\ s \in checked
    BY <1>2 DEF InsertJob
  <2>3. IsFiniteSet(ActiveJobs') /\ Cardinality(ActiveJobs') = Cardinality(ActiveJobs) + 1
    BY <2>1, FS_AddElement DEF QuotaInv
  <2>4. Cardinality(checked') = Cardinality(checked) - 1
    BY <1>0, <2>2, FS_RemoveElement
  <2> QED
    BY <1>0, <2>3, <2>4, LimitsAssumption DEF QuotaInv
<1>3. ASSUME NEW s \in Submitters, InsertFails(s)
      PROVE  QuotaInv'
  BY <1>3, QuotaShrinks DEF InsertFails, row, ActiveJobs, Active
<1>4. ASSUME NEW j \in Jobs,
             CancelJob(j) \/ MarkRunning(j) \/ LeaseRunsOut(j) \/ TimeoutPasses(j)
      PROVE  QuotaInv'
  BY <1>4, QuotaShrinks
  DEF CancelJob, MarkRunning, LeaseRunsOut, TimeoutPasses, TableTypeOK,
      ActiveJobs, Active, ActiveStatus
<1>5. ASSUME NEW j \in Jobs, NEW w \in Workers \cup {NoWorker}, NEW outcome \in TerminalStatus,
             NEW b \in BOOLEAN, FinishJob(j, w, outcome, b)
      PROVE  QuotaInv'
  BY <1>5, QuotaShrinks
  DEF FinishJob, TableTypeOK, ActiveJobs, Active, ActiveStatus, TerminalStatus
<1>6. ASSUME NEW j \in Jobs, NEW w \in Workers,
             ClaimJob(j, w) \/ ExtendLease(j, w) \/ AppendLogs(j, w)
      PROVE  QuotaInv'
  BY <1>6, QuotaShrinks
  DEF ClaimJob, Claimable, ExtendLease, AppendLogs, TableTypeOK, ActiveJobs, Active, ActiveStatus
<1>7. ASSUME NEW r \in Sweepers, SweepRead(r) \/ SweepUpdate(r) \/ SweepFails(r)
      PROVE  QuotaInv'
  BY <1>7, QuotaShrinks
  DEF SweepRead, SweepUpdate, SweepFails, row, TableTypeOK, ActiveJobs, Active, ActiveStatus
<1>8. CASE UNCHANGED tableVars
  BY <1>8, QuotaShrinks DEF tableVars, ActiveJobs, Active
<1> QED
  BY <1>1, <1>2, <1>3, <1>4, <1>5, <1>6, <1>7, <1>8 DEF TableStep

\* The inductive bound gives the one the runs check.
LEMMA QuotaInvBounds == TableTypeOK /\ QuotaInv => QuotaOvershootBounded
<1> SUFFICES ASSUME TableTypeOK, QuotaInv
             PROVE  QuotaOvershootBounded
  OBVIOUS
<1>1. IsFiniteSet(checked)
  BY SubmittersAssumption, FS_Subset DEF TableTypeOK
<1>2. /\ Cardinality(checked) \in Nat
      /\ Cardinality(ActiveJobs) \in Nat
      /\ Cardinality(Submitters) \in Nat
  BY <1>1, SubmittersAssumption, FS_CardinalityType DEF QuotaInv
<1> QED
  BY <1>2, LimitsAssumption DEF QuotaInv, QuotaOvershootBounded

\* The part of the invariant that is about rows is preserved by every statement.
LEMMA TableInvStep == TableInv /\ TableStep => TableInv'
BY TableTypeStep, ClaimedOnceStep, CancelIsFinalStep, SweptRowsExistStep DEF TableInv

-----------------------------------------------------------------------------
(* What it takes for a row to be settled by a sweep *)

\* A sweep has room for all rows that can be open at a time.
SweepsFit == MaxConcurrent + Cardinality(Submitters) - 1 <= SweepLimit

\* A row with status s is past its timeout.
Stuck(s, j) == status[j] = s /\ late[j]

\* A row with status s is not past it yet.
InTime(s, j) == status[j] = s /\ ~late[j]

\* A row has left status s: it is settled, or was queued and has been started.
LeftStatus(s, j) == Terminal(j) \/ (s = "queued" /\ status[j] = "running")

\* A sweep with room for all open rows reads every row that is stuck.
LEMMA SweepReadsAll ==
  ASSUME TableTypeOK, QuotaInv, SweepsFit, NEW r \in Sweepers, SweepRead(r),
         NEW j \in Jobs, Expired(j)
  PROVE  j \in sweep'[r]
<1>1. PICK S \in SUBSET ExpiredJobs :
        /\ \/ Cardinality(S) = SweepLimit
           \/ S = ExpiredJobs /\ Cardinality(S) <= SweepLimit
        /\ sweep' = [sweep EXCEPT ![r] = S]
  BY DEF SweepRead
<1>2. ExpiredJobs \subseteq ActiveJobs
  BY DEF ExpiredJobs, Expired, ActiveJobs, Active, ActiveStatus
<1>3. IsFiniteSet(ExpiredJobs) /\ Cardinality(ExpiredJobs) <= Cardinality(ActiveJobs)
  BY <1>2, FS_Subset DEF QuotaInv
<1>4. Cardinality(ActiveJobs) <= SweepLimit
  <2>1. /\ Cardinality(ActiveJobs) \in Nat /\ Cardinality(Submitters) \in Nat
        /\ Cardinality(checked) \in Nat
    BY SubmittersAssumption, FS_Subset, FS_CardinalityType DEF TableTypeOK, QuotaInv
  <2> QED
    BY <2>1, LimitsAssumption DEF QuotaInv, SweepsFit
<1>5. S = ExpiredJobs
  <2>1. SUFFICES ASSUME Cardinality(S) = SweepLimit
                 PROVE  S = ExpiredJobs
    BY <1>1
  <2>2. /\ Cardinality(S) \in Nat /\ Cardinality(ExpiredJobs) \in Nat
        /\ Cardinality(ActiveJobs) \in Nat
    BY <1>3, FS_Subset, FS_CardinalityType DEF QuotaInv
  <2>3. Cardinality(S) <= Cardinality(ExpiredJobs)
    BY <1>3, FS_Subset
  <2>4. Cardinality(S) = Cardinality(ExpiredJobs)
    BY <1>3, <1>4, <2>1, <2>2, <2>3, LimitsAssumption
  <2> QED
    BY <1>3, <2>4, FS_Subset
<1> QED
  BY <1>1, <1>5 DEF ExpiredJobs, TableTypeOK

\* A row that is not settled keeps its status or leaves it for good, and its
\* timeout stays passed until it does.
LEMMA RowsAge ==
  ASSUME TableTypeOK, TableStep, NEW s \in ActiveStatus, NEW j \in Jobs, status[j] = s
  PROVE  /\ status'[j] = s \/ LeftStatus(s, j)'
         /\ late[j] /\ status'[j] = s => late'[j]
<1> USE DEF LeftStatus, Terminal, TerminalStatus, ActiveStatus
<1>1. ASSUME NEW c \in Submitters, CheckEntitlement(c) \/ InsertFails(c)
      PROVE  status'[j] = s /\ late'[j] = late[j]
  BY <1>1 DEF CheckEntitlement, InsertFails, row
<1>2. ASSUME NEW c \in Submitters, NEW k \in Jobs, InsertJob(c, k)
      PROVE  status'[j] = s /\ late'[j] = late[j]
  BY <1>2 DEF InsertJob, IsNextJob, TableTypeOK
<1>3. ASSUME NEW k \in Jobs,
             CancelJob(k) \/ MarkRunning(k) \/ LeaseRunsOut(k) \/ TimeoutPasses(k)
      PROVE  /\ status'[j] = s \/ LeftStatus(s, j)'
             /\ late[j] /\ status'[j] = s => late'[j]
  BY <1>3 DEF CancelJob, MarkRunning, LeaseRunsOut, TimeoutPasses, TableTypeOK
<1>4. ASSUME NEW k \in Jobs, NEW w \in Workers \cup {NoWorker}, NEW outcome \in TerminalStatus,
             NEW b \in BOOLEAN, FinishJob(k, w, outcome, b)
      PROVE  (status'[j] = s \/ LeftStatus(s, j)') /\ late'[j] = late[j]
  BY <1>4 DEF FinishJob, TableTypeOK
<1>5. ASSUME NEW k \in Jobs, NEW w \in Workers,
             ClaimJob(k, w) \/ ExtendLease(k, w) \/ AppendLogs(k, w)
      PROVE  /\ status'[j] = s \/ LeftStatus(s, j)'
             /\ late[j] /\ status'[j] = s => late'[j]
  BY <1>5 DEF ClaimJob, Claimable, ExtendLease, AppendLogs, TableTypeOK
<1>6. ASSUME NEW r \in Sweepers, SweepRead(r) \/ SweepUpdate(r) \/ SweepFails(r)
      PROVE  (status'[j] = s \/ LeftStatus(s, j)') /\ late'[j] = late[j]
  BY <1>6 DEF SweepRead, SweepUpdate, SweepFails, row
<1>7. CASE UNCHANGED tableVars
  BY <1>7 DEF tableVars
<1> QED
  BY <1>1, <1>2, <1>3, <1>4, <1>5, <1>6, <1>7 DEF TableStep

\* The same of a row past its timeout, and of one in time.
LEMMA StuckStep ==
  ASSUME TableTypeOK, TableStep, NEW s \in ActiveStatus, NEW j \in Jobs
  PROVE  /\ Stuck(s, j) => Stuck(s, j)' \/ LeftStatus(s, j)'
         /\ InTime(s, j) => InTime(s, j)' \/ Stuck(s, j)' \/ LeftStatus(s, j)'
BY RowsAge DEF Stuck, InTime

\* A sweep of the cron reaper reads every row that is past its timeout.
LEMMA StuckIsRead ==
  ASSUME TableTypeOK, QuotaInv, SweepsFit, SweepRead(Cron),
         NEW s \in ActiveStatus, NEW j \in Jobs, Stuck(s, j)
  PROVE  j \in sweep'[Cron]
BY SweepReadsAll DEF Stuck, Expired, ActiveStatus, Sweepers

\* A sweep that has read the row settles it.
LEMMA SweepSettles ==
  ASSUME TableTypeOK, NEW r \in Sweepers, SweepUpdate(r), NEW j \in Jobs
  PROVE  /\ j \in sweep[r] => Terminal(j)'
         /\ sweep'[r] = {}
BY DEF SweepUpdate, Terminal, TerminalStatus, TableTypeOK
=============================================================================
