------------------------- MODULE InlineExecutionProofs -------------------------
(***************************************************************************)
(* Theorems about the inline path.  Each of its steps is one statement on  *)
(* the table (TableStep), so what CloudJobsProofs proves of the table      *)
(* carries over.  The rest is an invariant that ties every handler to its  *)
(* row, its work and its answer.                                           *)
(***************************************************************************)
EXTENDS InlineExecution, CloudJobsProofs

\* A handler past the INSERT has a row of its own, which exists.
HandlersOwnRows ==
  /\ \A s \in Submitters :
       /\ mine[s] \in Jobs <=> phase[s] # "idle"
       /\ mine[s] \in Jobs => status[mine[s]] # "absent"
  /\ \A s, t \in Submitters : mine[s] = mine[t] /\ mine[s] \in Jobs => s = t

\* The handler knows where the work it started stands, and has not answered yet.
HandlersKnowTheirWork ==
  \A s \in Submitters :
    /\ phase[s] = "inserted" => engine[mine[s]] = "idle"
    /\ phase[s] = "running"  => engine[mine[s]] = "busy"
    /\ phase[s] = "settling" <=> verdict[s] # "none"
    /\ verdict[s] = "succeeded" => engine[mine[s]] = "ok"
    /\ phase[s] # "idle" => reply[mine[s]] = "none"

\* Nothing runs or is answered for a row that is not there yet.
NothingBeforeTheRow ==
  \A j \in Jobs : status[j] = "absent" => engine[j] = "idle" /\ reply[j] = "none"

HandlerInv == HandlersOwnRows /\ HandlersKnowTheirWork /\ NothingBeforeTheRow

InlineInv ==
  TypeOK /\ TableInv /\ QuotaInv /\ HandlerInv /\ ReplyIsTrue /\ SucceededMeansRan

\* Every step of the inline path is at most one statement on the table.
LEMMA StepIsTableStep == TypeOK /\ HandlerInv /\ [Next]_vars => TableStep
<1> SUFFICES ASSUME TypeOK, HandlerInv, [Next]_vars
             PROVE  TableStep
  OBVIOUS
<1>1. ASSUME NEW j \in Jobs, Cancel(j) \/ Tick(j) \/ OrphanEnds(j)
      PROVE  TableStep
  BY <1>1 DEF Cancel, Tick, OrphanEnds, TableStep
<1>2. CASE ReapRead \/ ReapUpdate
  BY <1>2 DEF ReapRead, ReapUpdate, TableStep, Sweepers
<1>3. ASSUME NEW s \in Submitters, Check(s) \/ SubmitFails(s)
      PROVE  TableStep
  BY <1>3 DEF Check, SubmitFails, TableStep
<1>4. ASSUME NEW s \in Submitters, NEW j \in Jobs, Insert(s, j)
      PROVE  TableStep
  BY <1>4 DEF Insert, TableStep
<1>5. ASSUME NEW s \in Submitters, Start(s) \/ StartThrows(s)
      PROVE  TableStep
  <2>1. mine[s] \in Jobs
    BY <1>5 DEF Start, StartThrows, HandlerInv, HandlersOwnRows
  <2> QED
    BY <1>5, <2>1 DEF Start, StartThrows, TableStep
<1>6. ASSUME NEW s \in Submitters, SettleTakes(s) \/ SettleUnconfirmed(s)
      PROVE  TableStep
  <2>1. mine[s] \in Jobs /\ verdict[s] \in TerminalStatus
    BY <1>6 DEF SettleTakes, SettleUnconfirmed, TypeOK, TerminalStatus,
                HandlerInv, HandlersOwnRows, HandlersKnowTheirWork
  <2>2. FinishJob(mine[s], NoWorker, verdict[s], FALSE)
    BY <1>6 DEF SettleTakes, SettleUnconfirmed
  <2> QED
    BY <2>1, <2>2 DEF TableStep
<1>7. ASSUME NEW s \in Submitters,
             \/ RunEnds(s) \/ RunTimesOut(s) \/ RunAborted(s)
             \/ SettleMisses(s) \/ SettleThrows(s) \/ CatchThrows(s) \/ HandlerDies(s)
      PROVE  TableStep
  BY <1>7 DEF RunEnds, RunTimesOut, RunAborted, SettleMisses, SettleThrows, CatchThrows, HandlerDies,
              TableStep
<1>8. CASE UNCHANGED vars
  BY <1>8 DEF vars, tableVars, TableStep
<1> QED
  BY <1>1, <1>2, <1>3, <1>4, <1>5, <1>6, <1>7, <1>8 DEF Next

\* A step keeps every variable of the inline path in its type.
LEMMA TypeStep == TypeOK /\ HandlerInv /\ [Next]_vars => TypeOK'
<1> SUFFICES ASSUME TypeOK, HandlerInv, [Next]_vars
             PROVE  TypeOK'
  OBVIOUS
<1> DEFINE Rest == /\ phase'   \in [Submitters -> {"idle", "inserted", "running", "settling"}]
                   /\ mine'    \in [Submitters -> Jobs \cup {NoJob}]
                   /\ verdict' \in [Submitters -> {"none", "succeeded", "failed", "timed_out"}]
                   /\ engine'  \in [Jobs -> {"idle", "busy", "ok", "error"}]
                   /\ reply'   \in [Jobs -> {"none", "ok", "error"}]
<1>0. TableTypeOK'
  BY StepIsTableStep, TableTypeStep DEF TypeOK
<1>1. CASE UNCHANGED <<handlerVars, engine, reply>>
  BY <1>0, <1>1 DEF handlerVars, TypeOK
<1>2. ASSUME NEW j \in Jobs, OrphanEnds(j)
      PROVE  Rest
  BY <1>2 DEF OrphanEnds, handlerVars, TypeOK
<1>3. ASSUME NEW s \in Submitters, NEW j \in Jobs, Insert(s, j)
      PROVE  Rest
  BY <1>3 DEF Insert, TypeOK
<1>4. ASSUME NEW s \in Submitters, Start(s) \/ RunEnds(s) \/ RunTimesOut(s) \/ RunAborted(s)
      PROVE  Rest
  BY <1>4 DEF Start, RunEnds, RunTimesOut, RunAborted, Settling, TypeOK
<1>5. ASSUME NEW s \in Submitters, SettleTakes(s) \/ SettleUnconfirmed(s) \/ SettleMisses(s)
      PROVE  Rest
  BY <1>5 DEF SettleTakes, SettleUnconfirmed, SettleMisses, Settling, Leave, TypeOK
<1>6. ASSUME NEW s \in Submitters,
             StartThrows(s) \/ SettleThrows(s) \/ CatchThrows(s) \/ HandlerDies(s)
      PROVE  Rest
  BY <1>6 DEF StartThrows, SettleThrows, CatchThrows, HandlerDies, Settling, Leave, TypeOK
<1>7. ASSUME NEW j \in Jobs, Cancel(j) \/ Tick(j)
      PROVE  UNCHANGED <<handlerVars, engine, reply>>
  BY <1>7 DEF Cancel, Tick
<1>8. ASSUME ReapRead \/ ReapUpdate
      PROVE  UNCHANGED <<handlerVars, engine, reply>>
  BY <1>8 DEF ReapRead, ReapUpdate
<1>9. ASSUME NEW s \in Submitters, Check(s) \/ SubmitFails(s)
      PROVE  UNCHANGED <<handlerVars, engine, reply>>
  BY <1>9 DEF Check, SubmitFails
<1>10. CASE UNCHANGED vars
  BY <1>10, <1>1 DEF vars, handlerVars
<1> HIDE DEF Rest
<1>11. UNCHANGED <<handlerVars, engine, reply>> \/ Rest
  BY <1>2, <1>3, <1>4, <1>5, <1>6, <1>7, <1>8, <1>9, <1>10 DEF Next, vars, handlerVars
<1> QED
  BY <1>0, <1>1, <1>11 DEF Rest, TypeOK

\* What every step of the inline path does to the rows, for the lemmas below.
LEMMA RowStep ==
  ASSUME TypeOK, HandlerInv, [Next]_vars, NEW j \in Jobs
  PROVE  /\ status[j] # "absent" => status'[j] # "absent"
         /\ Terminal(j) => status'[j] \in {status[j], "timed_out"} /\ Terminal(j)'
<1>1. TableTypeOK /\ TableStep
  BY StepIsTableStep DEF TypeOK
<1>2. status[j] # "absent" => status'[j] # "absent"
  BY <1>1, RowsStay
<1>3. Terminal(j) => Terminal(j)'
  BY <1>1, TerminalStays
<1>4. Terminal(j) => status'[j] \in {status[j], "timed_out"}
  BY <1>1, FrozenStepLemma DEF FrozenStep, row
<1> QED
  BY <1>2, <1>3, <1>4

\* The steps that concern only the table: of the users, the clock, the reaper and
\* the entitlement check.
TableOnly ==
  \/ \E j \in Jobs : Cancel(j) \/ Tick(j)
  \/ ReapRead \/ ReapUpdate
  \/ \E s \in Submitters : Check(s) \/ SubmitFails(s)
  \/ UNCHANGED vars

\* They leave the handlers alone, and mark nothing as succeeded.
LEMMA TableOnlyStep ==
  ASSUME TypeOK, TableOnly
  PROVE  /\ UNCHANGED <<phase, mine, verdict, engine, reply>>
         /\ \A j \in Jobs : status'[j] = "succeeded" => status[j] = "succeeded"
<1>1. ASSUME NEW j \in Jobs, Cancel(j) \/ Tick(j)
      PROVE  /\ UNCHANGED <<phase, mine, verdict, engine, reply>>
             /\ \A k \in Jobs : status'[k] = "succeeded" => status[k] = "succeeded"
  BY <1>1 DEF Cancel, Tick, CancelJob, TimeoutPasses, handlerVars, TypeOK, TableTypeOK
<1>2. ASSUME ReapRead \/ ReapUpdate
      PROVE  /\ UNCHANGED <<phase, mine, verdict, engine, reply>>
             /\ \A k \in Jobs : status'[k] = "succeeded" => status[k] = "succeeded"
  BY <1>2 DEF ReapRead, ReapUpdate, SweepRead, SweepUpdate, row, handlerVars
<1>3. ASSUME NEW s \in Submitters, Check(s) \/ SubmitFails(s)
      PROVE  /\ UNCHANGED <<phase, mine, verdict, engine, reply>>
             /\ \A k \in Jobs : status'[k] = "succeeded" => status[k] = "succeeded"
  BY <1>3 DEF Check, SubmitFails, CheckEntitlement, InsertFails, row, handlerVars
<1>4. ASSUME UNCHANGED vars
      PROVE  /\ UNCHANGED <<phase, mine, verdict, engine, reply>>
             /\ \A k \in Jobs : status'[k] = "succeeded" => status[k] = "succeeded"
  BY <1>4 DEF vars
<1> QED
  BY <1>1, <1>2, <1>3, <1>4 DEF TableOnly

\* Each handler keeps a row of its own.
LEMMA HandlersOwnRowsStep ==
  TypeOK /\ HandlerInv /\ [Next]_vars => HandlersOwnRows'
<1> SUFFICES ASSUME TypeOK, HandlerInv, [Next]_vars
             PROVE  HandlersOwnRows'
  OBVIOUS
<1>0. \A j \in Jobs : status[j] # "absent" => status'[j] # "absent"
  BY RowStep
<1>1. CASE TableOnly \/ \E j \in Jobs : OrphanEnds(j)
  <2>1. UNCHANGED <<phase, mine>>
    BY <1>1, TableOnlyStep DEF OrphanEnds, handlerVars
  <2> QED
    BY <1>0, <2>1 DEF HandlerInv, HandlersOwnRows
<1>2. ASSUME NEW s \in Submitters, NEW j \in Jobs, Insert(s, j)
      PROVE  HandlersOwnRows'
  <2>1. status[j] = "absent" /\ status'[j] # "absent"
    BY <1>2 DEF Insert, InsertJob, IsNextJob, TypeOK, TableTypeOK
  <2> QED
    BY <1>0, <1>2, <2>1 DEF Insert, TypeOK, HandlerInv, HandlersOwnRows
<1>3. ASSUME NEW s \in Submitters,
             \/ Start(s) \/ RunEnds(s) \/ RunTimesOut(s) \/ RunAborted(s)
             \/ SettleUnconfirmed(s) \/ SettleThrows(s)
      PROVE  HandlersOwnRows'
  <2>1. phase[s] # "idle" /\ UNCHANGED mine
    BY <1>3 DEF Start, RunEnds, RunTimesOut, RunAborted, SettleUnconfirmed, SettleThrows, Settling
  <2>2. \E p \in {"running", "settling"} : phase' = [phase EXCEPT ![s] = p]
    BY <1>3 DEF Start, RunEnds, RunTimesOut, RunAborted, SettleUnconfirmed, SettleThrows, Settling
  <2> QED
    BY <1>0, <2>1, <2>2 DEF TypeOK, HandlerInv, HandlersOwnRows
<1>4. ASSUME NEW s \in Submitters, Leave(s)
      PROVE  HandlersOwnRows'
  BY <1>0, <1>4, NoJobAssumption DEF Leave, TypeOK, HandlerInv, HandlersOwnRows
<1>5. ASSUME NEW s \in Submitters, SettleMisses(s)
      PROVE  HandlersOwnRows'
  <2>1. CASE Leave(s)
    BY <1>4, <2>1
  <2>2. CASE Settling(s, "failed")
    BY <1>0, <1>5, <2>2 DEF SettleMisses, Settling, TypeOK, HandlerInv, HandlersOwnRows
  <2> QED
    BY <1>5, <2>1, <2>2 DEF SettleMisses
<1>6. ASSUME NEW s \in Submitters,
             StartThrows(s) \/ SettleTakes(s) \/ CatchThrows(s) \/ HandlerDies(s)
      PROVE  Leave(s)
  BY <1>6 DEF StartThrows, SettleTakes, CatchThrows, HandlerDies
<1> QED
  BY <1>1, <1>2, <1>3, <1>4, <1>5, <1>6 DEF Next, TableOnly

\* No row gets work or an answer before it is inserted.
LEMMA NothingBeforeTheRowStep ==
  TypeOK /\ HandlerInv /\ [Next]_vars => NothingBeforeTheRow'
<1> SUFFICES ASSUME TypeOK, HandlerInv, [Next]_vars, NEW j \in Jobs, status'[j] = "absent"
             PROVE  engine'[j] = "idle" /\ reply'[j] = "none"
  BY DEF NothingBeforeTheRow
<1>0. status[j] = "absent" /\ engine[j] = "idle" /\ reply[j] = "none"
  BY RowStep DEF HandlerInv, NothingBeforeTheRow
<1>1. \A s \in Submitters : phase[s] # "idle" => mine[s] # j
  BY <1>0 DEF HandlerInv, HandlersOwnRows
<1>2. CASE TableOnly
  BY <1>0, <1>2, TableOnlyStep
<1>3. ASSUME NEW k \in Jobs, OrphanEnds(k)
      PROVE  engine'[j] = "idle" /\ reply'[j] = "none"
  BY <1>0, <1>3 DEF OrphanEnds, TypeOK
<1>4. ASSUME NEW s \in Submitters, NEW k \in Jobs, Insert(s, k)
      PROVE  engine'[j] = "idle" /\ reply'[j] = "none"
  BY <1>0, <1>4 DEF Insert
<1>5. ASSUME NEW s \in Submitters,
             Start(s) \/ StartThrows(s) \/ RunEnds(s) \/ RunTimesOut(s) \/ RunAborted(s)
      PROVE  engine'[j] = "idle" /\ reply'[j] = "none"
  BY <1>0, <1>1, <1>5 DEF Start, StartThrows, RunEnds, RunTimesOut, RunAborted, TypeOK
<1>6. ASSUME NEW s \in Submitters,
             \/ SettleTakes(s) \/ SettleUnconfirmed(s) \/ SettleMisses(s)
             \/ SettleThrows(s) \/ CatchThrows(s) \/ HandlerDies(s)
      PROVE  engine'[j] = "idle" /\ reply'[j] = "none"
  BY <1>0, <1>1, <1>6
  DEF SettleTakes, SettleUnconfirmed, SettleMisses, SettleThrows, CatchThrows, HandlerDies, TypeOK
<1> QED
  BY <1>2, <1>3, <1>4, <1>5, <1>6 DEF Next, TableOnly

\* What a handler believes of its work and its answer stays right.
LEMMA HandlersKnowTheirWorkStep ==
  TypeOK /\ HandlerInv /\ [Next]_vars => HandlersKnowTheirWork'
<1> SUFFICES ASSUME TypeOK, HandlerInv, [Next]_vars
             PROVE  HandlersKnowTheirWork'
  OBVIOUS
<1> USE DEF TypeOK, HandlerInv, HandlersKnowTheirWork
<1>0. \A s, t \in Submitters : phase[s] # "idle" /\ mine[t] = mine[s] => t = s
  BY DEF HandlersOwnRows
<1>1. \A s \in Submitters : phase[s] # "idle" => mine[s] \in Jobs
  BY DEF HandlersOwnRows
<1>2. CASE TableOnly
  BY <1>2, TableOnlyStep
<1>3. ASSUME NEW j \in Jobs, OrphanEnds(j)
      PROVE  HandlersKnowTheirWork'
  BY <1>1, <1>3 DEF OrphanEnds, handlerVars
<1>4. ASSUME NEW s \in Submitters, NEW j \in Jobs, Insert(s, j)
      PROVE  HandlersKnowTheirWork'
  <2>1. status[j] = "absent"
    BY <1>4 DEF Insert, InsertJob, IsNextJob
  <2>2. engine[j] = "idle" /\ reply[j] = "none"
    BY <2>1 DEF NothingBeforeTheRow
  <2> QED
    BY <1>4, <2>2 DEF Insert
<1>5. ASSUME NEW s \in Submitters, Start(s)
      PROVE  HandlersKnowTheirWork'
  BY <1>0, <1>1, <1>5 DEF Start
<1>6. ASSUME NEW s \in Submitters, RunEnds(s) \/ RunTimesOut(s) \/ RunAborted(s)
      PROVE  HandlersKnowTheirWork'
  BY <1>0, <1>1, <1>6 DEF RunEnds, RunTimesOut, RunAborted, Settling
<1>7. ASSUME NEW s \in Submitters, SettleTakes(s)
      PROVE  HandlersKnowTheirWork'
  BY <1>0, <1>1, <1>7 DEF SettleTakes, Leave
<1>8. ASSUME NEW s \in Submitters, SettleMisses(s)
      PROVE  HandlersKnowTheirWork'
  BY <1>0, <1>1, <1>8 DEF SettleMisses, Leave, Settling
<1>9. ASSUME NEW s \in Submitters, SettleUnconfirmed(s) \/ SettleThrows(s)
      PROVE  HandlersKnowTheirWork'
  <2>1. /\ phase[s] = "settling"
        /\ UNCHANGED <<phase, mine, engine, reply>>
        /\ verdict' = [verdict EXCEPT ![s] = "failed"]
    <3>1. phase[s] = "settling" /\ Settling(s, "failed") /\ UNCHANGED <<engine, reply>>
      BY <1>9 DEF SettleUnconfirmed, SettleThrows
    <3> QED
      BY <3>1 DEF Settling
  <2> QED
    BY <2>1
<1>10. ASSUME NEW s \in Submitters, HandlerDies(s)
       PROVE  HandlersKnowTheirWork'
  BY <1>10 DEF HandlerDies, Leave
<1>11. ASSUME NEW s \in Submitters, StartThrows(s) \/ CatchThrows(s)
       PROVE  HandlersKnowTheirWork'
  BY <1>0, <1>1, <1>11 DEF StartThrows, CatchThrows, Leave
<1> QED
  BY <1>2, <1>3, <1>4, <1>5, <1>6, <1>7, <1>8, <1>9, <1>10, <1>11 DEF Next, TableOnly

\* The only step that marks a row as succeeded follows work that ended well, and
\* work that ended does not start again.
LEMMA SucceededMeansRanStep ==
  TypeOK /\ HandlerInv /\ SucceededMeansRan /\ [Next]_vars => SucceededMeansRan'
<1> SUFFICES ASSUME TypeOK, HandlerInv, SucceededMeansRan, [Next]_vars,
                    NEW j \in Jobs, status'[j] = "succeeded"
             PROVE  engine'[j] = "ok"
  BY DEF SucceededMeansRan
<1> USE DEF TypeOK, TableTypeOK, SucceededMeansRan
<1>1. CASE TableOnly
  BY <1>1, TableOnlyStep
<1>2. ASSUME NEW k \in Jobs, OrphanEnds(k)
      PROVE  engine'[j] = "ok"
  BY <1>2 DEF OrphanEnds, tableVars
<1>3. ASSUME NEW s \in Submitters, NEW k \in Jobs, Insert(s, k)
      PROVE  engine'[j] = "ok"
  BY <1>3 DEF Insert, InsertJob
<1>4. ASSUME NEW s \in Submitters, Start(s)
      PROVE  engine'[j] = "ok"
  <2>1. engine[mine[s]] = "idle" /\ mine[s] \in Jobs
    BY <1>4 DEF Start, HandlerInv, HandlersKnowTheirWork, HandlersOwnRows
  <2>2. status[j] = "succeeded"
    BY <1>4, <2>1 DEF Start, MarkRunning, tableVars
  <2> QED
    BY <1>4, <2>1, <2>2 DEF Start
<1>5. ASSUME NEW s \in Submitters, RunEnds(s) \/ RunTimesOut(s) \/ RunAborted(s)
      PROVE  engine'[j] = "ok"
  <2>1. engine[mine[s]] = "busy" /\ status[j] = "succeeded"
    BY <1>5 DEF RunEnds, RunTimesOut, RunAborted, tableVars, HandlerInv, HandlersKnowTheirWork
  <2> QED
    BY <1>5, <2>1 DEF RunEnds, RunTimesOut, RunAborted
<1>6. ASSUME NEW s \in Submitters, SettleTakes(s) \/ SettleUnconfirmed(s)
      PROVE  engine'[j] = "ok"
  <2>1. verdict[s] = "succeeded" => engine[mine[s]] = "ok"
    BY DEF HandlerInv, HandlersKnowTheirWork
  <2>2. status' = [status EXCEPT ![mine[s]] = verdict[s]] /\ engine' = engine
    BY <1>6 DEF SettleTakes, SettleUnconfirmed, FinishJob
  <2> QED
    BY <2>1, <2>2
<1>7. ASSUME NEW s \in Submitters,
             SettleMisses(s) \/ SettleThrows(s) \/ CatchThrows(s) \/ HandlerDies(s)
      PROVE  engine'[j] = "ok"
  BY <1>7 DEF SettleMisses, SettleThrows, CatchThrows, HandlerDies, tableVars
<1>8. ASSUME NEW s \in Submitters, StartThrows(s)
      PROVE  engine'[j] = "ok"
  BY <1>8 DEF StartThrows, MarkRunning, tableVars
<1> QED
  BY <1>1, <1>2, <1>3, <1>4, <1>5, <1>6, <1>7, <1>8 DEF Next, TableOnly

\* 'ok' is said once, when the row is recorded as succeeded, and stays true.
LEMMA ReplyIsTrueStep ==
  TypeOK /\ HandlerInv /\ ReplyIsTrue /\ [Next]_vars => ReplyIsTrue'
<1> DEFINE Fine(j) == reply[j] = "ok" => engine[j] = "ok" /\ status[j] \in {"succeeded", "timed_out"}
<1> SUFFICES ASSUME TypeOK, HandlerInv, ReplyIsTrue, [Next]_vars, NEW j \in Jobs
             PROVE  Fine(j)'
  BY DEF ReplyIsTrue
<1>0. reply[j] = "ok" => engine[j] = "ok" /\ status'[j] \in {"succeeded", "timed_out"}
  BY RowStep DEF ReplyIsTrue, Terminal, TerminalStatus
<1>1. CASE UNCHANGED <<engine, reply>>
  BY <1>0, <1>1
<1>2. ASSUME NEW k \in Jobs, OrphanEnds(k)
      PROVE  Fine(j)'
  BY <1>0, <1>2 DEF OrphanEnds, TypeOK
<1>3. ASSUME NEW s \in Submitters, Start(s) \/ RunEnds(s) \/ RunTimesOut(s) \/ RunAborted(s)
      PROVE  Fine(j)'
  <2>1. mine[s] \in Jobs /\ engine[mine[s]] # "ok" /\ reply' = reply
    BY <1>3 DEF Start, RunEnds, RunTimesOut, RunAborted, HandlerInv, HandlersOwnRows, HandlersKnowTheirWork
  <2>2. engine'[j] = engine[j] \/ mine[s] = j
    BY <1>3 DEF Start, RunEnds, RunTimesOut, RunAborted, TypeOK
  <2> QED
    BY <1>0, <2>1, <2>2
<1>4. ASSUME NEW s \in Submitters, SettleTakes(s)
      PROVE  Fine(j)'
  <2>1. verdict[s] = "succeeded" => engine[mine[s]] = "ok"
    BY <1>4 DEF SettleTakes, HandlerInv, HandlersKnowTheirWork
  <2>2. /\ status' = [status EXCEPT ![mine[s]] = verdict[s]]
        /\ reply' = [reply EXCEPT ![mine[s]] = IF verdict[s] = "succeeded" THEN "ok" ELSE "error"]
        /\ engine' = engine
    BY <1>4 DEF SettleTakes, FinishJob
  <2> QED
    BY <1>0, <2>1, <2>2 DEF TypeOK, TableTypeOK
<1>5. ASSUME NEW s \in Submitters, StartThrows(s) \/ SettleMisses(s) \/ CatchThrows(s)
      PROVE  Fine(j)'
  <2>1. /\ reply' = reply \/ reply' = [reply EXCEPT ![mine[s]] = "error"]
        /\ engine' = engine
    BY <1>5 DEF StartThrows, SettleMisses, CatchThrows
  <2> QED
    BY <1>0, <2>1 DEF TypeOK
<1>6. CASE TableOnly
  BY <1>6, <1>1, TableOnlyStep
<1>7. ASSUME NEW s \in Submitters, NEW k \in Jobs, Insert(s, k)
      PROVE  Fine(j)'
  BY <1>7, <1>1 DEF Insert
<1>8. ASSUME NEW s \in Submitters, SettleUnconfirmed(s) \/ SettleThrows(s) \/ HandlerDies(s)
      PROVE  Fine(j)'
  BY <1>8, <1>1 DEF SettleUnconfirmed, SettleThrows, HandlerDies
<1> QED
  BY <1>2, <1>3, <1>4, <1>5, <1>6, <1>7, <1>8 DEF Next, TableOnly

\* Only a handler records a success, and one that is still there has not answered.
LEMMA ErrorsStepLemma == TypeOK /\ HandlerInv /\ [Next]_vars => ErrorsStep
<1> SUFFICES ASSUME TypeOK, HandlerInv, [Next]_vars,
                    NEW j \in Jobs, reply[j] = "error", status[j] # "succeeded"
             PROVE  status'[j] # "succeeded"
  BY DEF ErrorsStep
<1> USE DEF TypeOK, TableTypeOK
<1>1. CASE TableOnly
  BY <1>1, TableOnlyStep
<1>2. ASSUME NEW s \in Submitters, NEW k \in Jobs, Insert(s, k)
      PROVE  status'[j] # "succeeded"
  BY <1>2 DEF Insert, InsertJob
<1>3. ASSUME NEW s \in Submitters, Start(s) \/ StartThrows(s)
      PROVE  status'[j] # "succeeded"
  BY <1>3 DEF Start, StartThrows, MarkRunning, tableVars
<1>4. ASSUME NEW s \in Submitters, SettleTakes(s) \/ SettleUnconfirmed(s)
      PROVE  status'[j] # "succeeded"
  <2>1. mine[s] # j
    BY <1>4 DEF SettleTakes, SettleUnconfirmed, HandlerInv, HandlersKnowTheirWork
  <2>2. status' = [status EXCEPT ![mine[s]] = verdict[s]]
    BY <1>4 DEF SettleTakes, SettleUnconfirmed, FinishJob
  <2> QED
    BY <2>1, <2>2
<1>5. ASSUME NEW s \in Submitters,
             \/ RunEnds(s) \/ RunTimesOut(s) \/ RunAborted(s) \/ SettleMisses(s)
             \/ SettleThrows(s) \/ CatchThrows(s) \/ HandlerDies(s)
      PROVE  status'[j] # "succeeded"
  BY <1>5 DEF RunEnds, RunTimesOut, RunAborted, SettleMisses, SettleThrows, CatchThrows, HandlerDies,
              tableVars
<1>6. ASSUME NEW k \in Jobs, OrphanEnds(k)
      PROVE  status'[j] # "succeeded"
  BY <1>6 DEF OrphanEnds, tableVars
<1> QED
  BY <1>1, <1>2, <1>3, <1>4, <1>5, <1>6 DEF Next, TableOnly

-----------------------------------------------------------------------------
(* The theorems *)

\* The invariant holds of every reachable state of the inline path.
THEOREM InlineInvariant == Spec => []InlineInv
<1>1. Init => InlineInv
  <2> SUFFICES ASSUME Init
               PROVE  InlineInv
    OBVIOUS
  <2>1. TableInv /\ QuotaInv
    BY TableInitInv, QuotaInit DEF Init
  <2>2. TypeOK
    BY <2>1 DEF Init, TypeOK, TableInv
  <2>3. HandlerInv
    BY NoJobAssumption
    DEF Init, HandlerInv, HandlersOwnRows, HandlersKnowTheirWork, NothingBeforeTheRow
  <2>4. ReplyIsTrue /\ SucceededMeansRan
    BY DEF Init, TableInit, ReplyIsTrue, SucceededMeansRan
  <2> QED
    BY <2>1, <2>2, <2>3, <2>4 DEF InlineInv
<1>2. InlineInv /\ [Next]_vars => InlineInv'
  <2> SUFFICES ASSUME InlineInv, [Next]_vars
               PROVE  InlineInv'
    OBVIOUS
  <2>1. TypeOK'
    BY TypeStep DEF InlineInv
  <2>2. TableInv' /\ QuotaInv'
    BY StepIsTableStep, TableInvStep, QuotaStep DEF InlineInv, TypeOK
  <2>3. HandlerInv'
    BY HandlersOwnRowsStep, HandlersKnowTheirWorkStep, NothingBeforeTheRowStep
    DEF InlineInv, HandlerInv
  <2>4. ReplyIsTrue' /\ SucceededMeansRan'
    BY ReplyIsTrueStep, SucceededMeansRanStep DEF InlineInv
  <2> QED
    BY <2>1, <2>2, <2>3, <2>4 DEF InlineInv
<1> QED
  BY <1>1, <1>2, PTL DEF Spec

\* Every variable of the inline path keeps its type.
THEOREM TypeCorrect == Spec => []TypeOK
<1>1. InlineInv => TypeOK
  BY DEF InlineInv
<1> QED
  BY <1>1, InlineInvariant, PTL

\* Whoever is told that a job went well can rely on it, however its handler, the
\* users, the timer, failing statements and the reaper interleave, for any number of
\* each.
THEOREM RepliesAreTrue == Spec => []ReplyIsTrue
<1>1. InlineInv => ReplyIsTrue
  BY DEF InlineInv
<1> QED
  BY <1>1, InlineInvariant, PTL

\* A job whose caller was told an error is never recorded as succeeded afterwards,
\* though its row may be open and its work may go on.
THEOREM ToldErrorsStand == Spec => ErrorsStand
<1>1. InlineInv /\ [Next]_vars => [ErrorsStep]_vars
  BY ErrorsStepLemma DEF InlineInv
<1> QED
  BY <1>1, InlineInvariant, PTL DEF Spec, ErrorsStand

\* A row says 'succeeded' only of work that ended well.
THEOREM OnlyDoneWorkSucceeds == Spec => []SucceededMeansRan
<1>1. InlineInv => SucceededMeansRan
  BY DEF InlineInv
<1> QED
  BY <1>1, InlineInvariant, PTL

\* A cancelled job never ends as anything but cancelled or timed out.
THEOREM CancellationIsFinal == Spec => []CancelIsFinal
<1>1. InlineInv => CancelIsFinal
  BY DEF InlineInv, TableInv
<1> QED
  BY <1>1, InlineInvariant, PTL

\* Concurrent submissions pass the plan limit by at most the number of the other
\* submitters.
THEOREM OvershootIsBounded == Spec => []QuotaOvershootBounded
<1>1. InlineInv => QuotaOvershootBounded
  BY QuotaInvBounds DEF InlineInv, TypeOK
<1> QED
  BY <1>1, InlineInvariant, PTL

\* A settled row keeps its outcome, but for a sweep that had read it before.
THEOREM SettledRowsAreFrozen == Spec => SettledRowsFrozen
<1>1. InlineInv /\ [Next]_vars => [FrozenStep]_row
  BY StepIsTableStep, FrozenStepLemma DEF InlineInv, TypeOK
<1> QED
  BY <1>1, InlineInvariant, PTL DEF Spec, SettledRowsFrozen

\* The inline path implements the abstract life cycle of a job.
THEOREM InlineImplementsLifecycle == Spec => ImplementsLifecycle
<1>1. Init => Lifecycle!Init
  BY LifecycleInit DEF Init
<1>2. InlineInv /\ [Next]_vars => [Lifecycle!Next]_<<status, workerId>>
  BY StepIsTableStep, LifecycleStep DEF InlineInv
<1> QED
  BY <1>1, <1>2, InlineInvariant, PTL DEF Spec, ImplementsLifecycle, Lifecycle!Spec
-----------------------------------------------------------------------------
(* Liveness.  Whether an action is enabled is beyond the prover, so the     *)
(* theorem takes as a hypothesis that the guards of the clock and of the    *)
(* reaper are all that can stand in their way.                              *)

\* The clock and the reaper act whenever their guards hold.
ReaperCanAct ==
  /\ \A j \in Jobs : Active(j) /\ ~late[j] => ENABLED <<Tick(j)>>_vars
  /\ sweep[Cron] = {} /\ ExpiredJobs # {} => ENABLED <<ReapRead>>_vars
  /\ sweep[Cron] # {} => ENABLED <<ReapUpdate>>_vars

\* Only the cron reaper touches what its sweep has read.
LEMMA OnlyTheReaperSweeps ==
  TypeOK /\ [Next]_vars => sweep'[Cron] = sweep[Cron] \/ ReapRead \/ ReapUpdate
<1> SUFFICES ASSUME TypeOK, [Next]_vars, ~ReapRead, ~ReapUpdate
             PROVE  sweep' = sweep
  OBVIOUS
<1>1. ASSUME NEW j \in Jobs, Cancel(j) \/ Tick(j) \/ OrphanEnds(j)
      PROVE  sweep' = sweep
  BY <1>1 DEF Cancel, CancelJob, Tick, TimeoutPasses, OrphanEnds, tableVars
<1>2. ASSUME NEW s \in Submitters,
             \/ Check(s) \/ SubmitFails(s) \/ Start(s) \/ StartThrows(s)
             \/ \E j \in Jobs : Insert(s, j)
      PROVE  sweep' = sweep
  BY <1>2 DEF Check, CheckEntitlement, SubmitFails, InsertFails, Start, StartThrows, MarkRunning,
              Insert, InsertJob, tableVars
<1>3. ASSUME NEW s \in Submitters,
             \/ RunEnds(s) \/ RunTimesOut(s) \/ RunAborted(s) \/ SettleTakes(s) \/ SettleUnconfirmed(s)
             \/ SettleMisses(s) \/ SettleThrows(s) \/ CatchThrows(s) \/ HandlerDies(s)
      PROVE  sweep' = sweep
  BY <1>3 DEF RunEnds, RunTimesOut, RunAborted, SettleTakes, SettleUnconfirmed, SettleMisses,
              SettleThrows, CatchThrows, HandlerDies, FinishJob, tableVars
<1>4. CASE UNCHANGED vars
  BY <1>4 DEF vars
<1> QED
  BY <1>1, <1>2, <1>3, <1>4 DEF Next

\* A row with status s does not keep it for ever.
MovesOn(s, j) == status[j] = s ~> LeftStatus(s, j)

\* The steps of a row that has not left status s: its timeout passes, a sweep reads
\* it together with every other row that is stuck, and settles it.
LEMMA RowLeavesStatus ==
  ASSUME SweepsFit, NEW s \in ActiveStatus, NEW j \in Jobs
  PROVE  FairSpec /\ []ReaperCanAct => MovesOn(s, j)
<1> DEFINE Free == sweep[Cron] = {}
           Read == j \in sweep[Cron]
<1>1. status[j] = s => InTime(s, j) \/ Stuck(s, j)
  BY DEF InTime, Stuck
<1>2. InlineInv /\ [Next]_vars /\ InTime(s, j) => InTime(s, j)' \/ Stuck(s, j)' \/ LeftStatus(s, j)'
  BY StepIsTableStep, StuckStep DEF InlineInv, TypeOK, TableInv
<1>3. InlineInv /\ [Next]_vars /\ Stuck(s, j) => Stuck(s, j)' \/ LeftStatus(s, j)'
  BY StepIsTableStep, StuckStep DEF InlineInv, TypeOK, TableInv
<1>4. InlineInv /\ [Next]_vars /\ ~Free /\ ~Read => (~Free /\ ~Read)' \/ Free'
  BY OnlyTheReaperSweeps, SweepSettles DEF InlineInv, TypeOK, ReapRead, ReapUpdate, SweepRead, Sweepers
<1>5. InlineInv /\ [Next]_vars /\ Stuck(s, j) /\ Free => Free' \/ Read'
  <2> SUFFICES ASSUME InlineInv, [Next]_vars, Stuck(s, j), Free, ~Free'
               PROVE  Read'
    OBVIOUS
  <2>1. ReapRead
    BY OnlyTheReaperSweeps DEF InlineInv, ReapUpdate, SweepUpdate
  <2> QED
    BY <2>1, StuckIsRead DEF InlineInv, TypeOK, ReapRead
<1>6. InlineInv /\ [Next]_vars /\ Read => Read' \/ LeftStatus(s, j)'
  BY OnlyTheReaperSweeps, SweepSettles DEF InlineInv, TypeOK, ReapRead, ReapUpdate, SweepRead, Sweepers, LeftStatus
<1>7. InlineInv /\ InTime(s, j) /\ <<Tick(j)>>_vars => Stuck(s, j)'
  BY DEF InlineInv, TypeOK, TableTypeOK, InTime, Stuck, Tick, TimeoutPasses
<1>8. InlineInv /\ Stuck(s, j) /\ Free /\ <<ReapRead>>_vars => Read'
  BY StuckIsRead DEF InlineInv, TypeOK, ReapRead
<1>9. InlineInv /\ <<ReapUpdate>>_vars => Free' /\ (Read => LeftStatus(s, j)')
  BY SweepSettles DEF InlineInv, TypeOK, ReapUpdate, Sweepers, LeftStatus
<1>10. ReaperCanAct /\ InTime(s, j) => ENABLED <<Tick(j)>>_vars
  BY DEF ReaperCanAct, InTime, Active
<1>11. ReaperCanAct /\ Stuck(s, j) /\ Free => ENABLED <<ReapRead>>_vars
  <2>1. Stuck(s, j) => ExpiredJobs # {}
    BY DEF Stuck, ExpiredJobs, Expired, ActiveStatus
  <2> QED
    BY <2>1 DEF ReaperCanAct
<1>12. ReaperCanAct /\ ~Free => ENABLED <<ReapUpdate>>_vars
  BY DEF ReaperCanAct
<1>13. Read => ~Free
  OBVIOUS
<1>14. FairSpec => Spec /\ ClockRuns(j) /\ ReaperRuns
  BY DEF FairSpec, Fairness
<1>15. ClockRuns(j) /\ ReaperRuns => WF_vars(Tick(j)) /\ WF_vars(ReapRead) /\ WF_vars(ReapUpdate)
  BY PTL DEF ClockRuns, ReaperRuns
<1> HIDE DEF Free, Read
<1>16. FairSpec /\ []ReaperCanAct => (InTime(s, j) ~> Stuck(s, j) \/ LeftStatus(s, j))
  BY <1>2, <1>7, <1>10, <1>14, <1>15, InlineInvariant, PTL DEF Spec
<1>17. FairSpec /\ []ReaperCanAct => (~Free /\ ~Read ~> Free)
  BY <1>4, <1>9, <1>12, <1>14, <1>15, InlineInvariant, PTL DEF Spec
<1>18. FairSpec /\ []ReaperCanAct => (Stuck(s, j) /\ Free ~> Read \/ LeftStatus(s, j))
  BY <1>3, <1>5, <1>8, <1>11, <1>14, <1>15, InlineInvariant, PTL DEF Spec
<1>19. FairSpec /\ []ReaperCanAct => (Read ~> LeftStatus(s, j))
  BY <1>6, <1>9, <1>12, <1>13, <1>14, <1>15, InlineInvariant, PTL DEF Spec
<1> QED
  BY <1>1, <1>3, <1>14, <1>16, <1>17, <1>18, <1>19, InlineInvariant, PTL DEF Spec, MovesOn

\* Every job that is open is settled in the end, even when its handler has died
\* or the work never ends, if a sweep has room for the rows that can be open.
THEOREM InlineJobsSettle ==
  ASSUME SweepsFit
  PROVE  FairSpec /\ []ReaperCanAct => JobsSettle
<1>1. SUFFICES ASSUME NEW j \in Jobs
               PROVE  FairSpec /\ []ReaperCanAct => (Active(j) ~> Terminal(j))
  BY DEF JobsSettle
<1>2. Active(j) <=> status[j] = "queued" \/ status[j] = "running"
  BY DEF Active, ActiveStatus
<1>3. /\ LeftStatus("queued", j) <=> Terminal(j) \/ status[j] = "running"
      /\ LeftStatus("running", j) <=> Terminal(j)
  BY DEF LeftStatus
<1>4. FairSpec /\ []ReaperCanAct => MovesOn("queued", j)
  BY RowLeavesStatus DEF ActiveStatus
<1>5. FairSpec /\ []ReaperCanAct => MovesOn("running", j)
  BY RowLeavesStatus DEF ActiveStatus
<1> QED
  BY <1>2, <1>3, <1>4, <1>5, PTL DEF MovesOn
=============================================================================
