------------------------------- MODULE CellRuns -------------------------------
(***************************************************************************)
(* Running query cells in the browser: runCell, _runCell, cancelCell and   *)
(* runAll of src/lib/stores/notebook.svelte.ts, with edits, undo, redo and *)
(* reloads of the project between their awaits.  A cell runs with the code *)
(* of the cells it refers to inlined, so a result is described by the code *)
(* it was computed from: the version of the cell and of every cell         *)
(* upstream of it.                                                         *)
(*                                                                         *)
(* run[r] is one call, numbered in the order they begin, between two       *)
(* awaits.  Auto-run, "run downstream", "run all stale" and the cascade    *)
(* after a success call runCell at moments of their own; here any cell may *)
(* be run at any time, which contains them all.                            *)
(*                                                                         *)
(* A call writes its outcome to the object the cell was when it began.  An *)
(* undo and a reload put copies in the place of the notebook's cells, so a *)
(* call that is under way then writes to an object nobody shows.           *)
(***************************************************************************)
EXTENDS Naturals

CONSTANTS
  Cells,
  Upstream,    \* per cell, the cells it refers to, directly or through others
  MaxRuns,       \* bound: runs begun
  MaxCodeEdits   \* bound: edits

ASSUME CellsAssumption == Cells # {}
ASSUME UpstreamAssumption ==
  /\ Upstream \in [Cells -> SUBSET Cells]
  /\ \A c \in Cells : c \notin Upstream[c] /\ \A d \in Upstream[c] : Upstream[d] \subseteq Upstream[c]
ASSUME RunsAssumption == MaxRuns \in Nat /\ MaxCodeEdits \in Nat

VARIABLES
  code,        \* per cell: the version of its code
  cellStatus,  \* cell.status
  needsRun,    \* cell.needsRun
  result,      \* per cell: the code versions its result was computed from
  controller,  \* cellRunControllers: the run whose controller it is, 0 for none
  run,         \* the calls
  begun,       \* calls so far
  codeEdits,
  missed,      \* per cell: its code or its upstream changed and no mark was left on it
  writer,      \* per cell: the last controlled run that gave it a result
  past,        \* the contents undo and redo can bring back
  copied       \* per cell: it is a copy of a cell that was running, not written to since

cellVars == <<code, cellStatus, needsRun, result, controller, run, begun, codeEdits, missed,
              writer, past, copied>>

RunIds  == 1..MaxRuns
Code    == [Cells -> 0..MaxCodeEdits]

\* ctl: the call has an AbortController (runCell, not runAll); edited: what it runs
\* was changed since; detached: the cell was replaced since it began.
NoCall == [at |-> "none", cell |-> CHOOSE c \in Cells : TRUE, ctl |-> FALSE, aborted |-> FALSE,
           basis |-> [c \in Cells |-> 0], edited |-> FALSE, detached |-> FALSE]

CellTypeOK ==
  /\ code \in Code
  /\ cellStatus     \in [Cells -> {"idle", "running", "success", "error"}]
  /\ needsRun   \in [Cells -> BOOLEAN]
  /\ result     \in [Cells -> Code]
  /\ controller \in [Cells -> RunIds \cup {0}]
  /\ run \in [RunIds -> [at : {"none", "upstreams", "executing", "view", "cascade"},
                         cell : Cells, ctl : BOOLEAN, aborted : BOOLEAN, basis : Code,
                         edited : BOOLEAN, detached : BOOLEAN]]
  /\ begun \in 0..MaxRuns
  /\ codeEdits \in 0..MaxCodeEdits
  /\ missed  \in [Cells -> BOOLEAN]
  /\ writer \in [Cells -> RunIds \cup {0}]
  /\ past \subseteq Code
  /\ copied \in [Cells -> BOOLEAN]

\* Cells that were loaded and have not been run.
CellInit ==
  /\ code = [c \in Cells |-> 0]
  /\ cellStatus = [c \in Cells |-> "idle"]
  /\ needsRun = [c \in Cells |-> FALSE]
  /\ result = [c \in Cells |-> [d \in Cells |-> 0]]
  /\ controller = [c \in Cells |-> 0]
  /\ run = [r \in RunIds |-> NoCall]
  /\ begun = 0
  /\ codeEdits = 0
  /\ missed = [c \in Cells |-> FALSE]
  /\ writer = [c \in Cells |-> 0]
  /\ past = {}
  /\ copied = [c \in Cells |-> FALSE]

Basis(c) == {c} \cup Upstream[c]

\* The cell as it is now is given a status.
Shows(c, s) ==
  /\ cellStatus' = [cellStatus EXCEPT ![c] = s]
  /\ copied' = [copied EXCEPT ![c] = FALSE]

\* A call does it to the cell it began with.
ShowsIn(r, s) ==
  IF run[r].detached THEN UNCHANGED <<cellStatus, copied>> ELSE Shows(run[r].cell, s)

\* The same of the stale mark, which every outcome but an abort removes.
Unmarks(r) == needsRun' = [needsRun EXCEPT ![run[r].cell] = @ /\ run[r].detached]

-----------------------------------------------------------------------------
(* Edits *)

\* Faulty variant: an edit marks the edited cell alone.
Dependents_None(c) == {}

\* markDownstreamStale recurses through the names of the cells' outputs.
Dependents(c) == {d \in Cells : c \in Upstream[d]}

\* What is executing was compiled from the code before.
Overtakes(changed) ==
  run' = [r \in RunIds |->
           IF /\ run[r].at = "executing" /\ ~run[r].detached
              /\ Basis(run[r].cell) \cap changed # {}
           THEN [run[r] EXCEPT !.edited = TRUE] ELSE run[r]]

\* updateCellCode, after its checkpoint for undo.
EditCell(c) ==
  /\ codeEdits < MaxCodeEdits
  /\ codeEdits' = codeEdits + 1
  /\ past' = past \cup {code}
  /\ code' = [code EXCEPT ![c] = codeEdits + 1]
  /\ needsRun' = [d \in Cells |-> needsRun[d] \/ d = c \/ d \in Dependents(c)]
  /\ Overtakes({c})
  /\ UNCHANGED <<cellStatus, result, controller, begun, missed, writer, copied>>

\* The notebook's cells are copies from now on.  The calls under way keep the old
\* ones: what they run no longer matters.
Detached(call) == [call EXCEPT !.detached = TRUE, !.basis = NoCall.basis, !.edited = FALSE]

ReplacesCells ==
  /\ run' = [r \in RunIds |-> IF run[r].at = "none" THEN run[r] ELSE Detached(run[r])]
  /\ copied' = [c \in Cells |-> copied[c] \/ cellStatus[c] = "running"]

\* undo and redo (restoreCellSnapshots): every cell is replaced by a copy, the ones
\* whose code changes are marked, and no cell downstream of them.  Which of the
\* earlier contents the stacks and the bursts of typing leave on top is left open;
\* UndoHistory says which.
Restore(old) ==
  LET changed == {c \in Cells : code[c] # old[c]} IN
  /\ old \in past
  /\ past' = past \cup {code}
  /\ code' = old
  /\ needsRun' = [d \in Cells |-> needsRun[d] \/ d \in changed]
  /\ missed' = [d \in Cells |-> missed[d] \/ Upstream[d] \cap changed # {}]
  /\ ReplacesCells
  /\ UNCHANGED <<cellStatus, result, controller, begun, codeEdits, writer>>

\* loadProjectNotebooks, with no save of the notebook pending: every cell is what
\* the file has, with the status, the result and the stale mark the cell had.  The
\* file has the code as it is or was, or a change from outside the editor.
ReloadCells(file) ==
  LET changed == {c \in Cells : code[c] # file[c]} IN
  /\ \/ file \in past \cup {code} /\ UNCHANGED codeEdits
     \/ /\ codeEdits < MaxCodeEdits
        /\ codeEdits' = codeEdits + 1
        /\ \E c \in Cells : file = [code EXCEPT ![c] = codeEdits + 1]
  /\ code' = file
  /\ missed' = [d \in Cells |-> missed[d] \/ Basis(d) \cap changed # {}]
  /\ ReplacesCells
  /\ UNCHANGED <<cellStatus, needsRun, result, controller, begun, writer, past>>

-----------------------------------------------------------------------------
(* runCell *)

Begin(c, call) ==
  /\ begun < MaxRuns
  /\ begun' = begun + 1
  /\ run' = [r \in RunIds |->
              IF r = begun + 1 THEN call
              ELSE IF call.ctl /\ r = controller[c] THEN [run[r] EXCEPT !.aborted = TRUE]
              ELSE run[r]]
  /\ controller' = IF call.ctl THEN [controller EXCEPT ![c] = begun + 1] ELSE controller
  /\ Shows(c, "running")
  /\ UNCHANGED <<code, needsRun, result, codeEdits, missed, writer, past>>

\* The previous run of the cell is superseded, and the cells of other notebooks
\* this one needs are awaited.
RunCell(c) == Begin(c, [NoCall EXCEPT !.at = "upstreams", !.cell = c, !.ctl = TRUE])

\* runAll passes no signal: _runCell begins at once.
RunAllReaches(c) ==
  Begin(c, [NoCall EXCEPT !.at = "executing", !.cell = c, !.basis = code])

\* Faulty variant: the end of a superseded run removes its successor's controller.
Returns_AnyController(r) ==
  /\ run' = [run EXCEPT ![r] = NoCall]
  /\ controller' = [controller EXCEPT ![run[r].cell] = 0]

\* The run ends; its controller goes unless a newer run has replaced it.
Returns(r) ==
  LET c == run[r].cell IN
  /\ run' = [run EXCEPT ![r] = NoCall]
  /\ controller' = IF controller[c] = r THEN [controller EXCEPT ![c] = 0] ELSE controller

\* A function of another connection is used: refused before the cell is marked running.
\* runAll refuses it as well, and supersedes nothing.
UdfRefused(c) ==
  /\ \/ /\ run' = [r \in RunIds |-> IF r = controller[c] THEN [run[r] EXCEPT !.aborted = TRUE]
                                     ELSE run[r]]
        /\ controller' = [controller EXCEPT ![c] = 0]
     \/ UNCHANGED <<run, controller>>
  /\ Shows(c, "error")
  /\ UNCHANGED <<code, needsRun, result, begun, codeEdits, missed, writer, past>>

\* getExecutionCode; the query is sent.
Compile(r) ==
  /\ run[r].at = "upstreams"
  /\ ~run[r].aborted
  /\ run' = [run EXCEPT ![r].at = "executing", ![r].basis = code]
  /\ ShowsIn(r, "running")
  /\ UNCHANGED <<code, needsRun, result, controller, begun, codeEdits, missed, writer, past>>

\* The code refers to itself, which is found before the signal is looked at, or
\* does not compile.
CompileFails(r) ==
  /\ run[r].at = "upstreams"
  /\ Unmarks(r)
  /\ ShowsIn(r, "error")
  /\ Returns(r)
  /\ UNCHANGED <<code, result, begun, codeEdits, missed, writer, past>>

-----------------------------------------------------------------------------
(* _runCell after its await *)

\* Faulty variant: the signal is not looked at again after the await.
MayWrite_AnyRun(r) == TRUE

MayWrite(r) == ~run[r].aborted

\* The rows are there: shown, and no longer stale; then the cell's view is created.
QuerySucceeds(r) ==
  LET c == run[r].cell IN
  /\ run[r].at = "executing"
  /\ MayWrite(r)
  /\ run' = [run EXCEPT ![r].at = "view", ![r].basis = NoCall.basis, ![r].edited = FALSE]
  /\ ShowsIn(r, "success")
  /\ Unmarks(r)
  /\ IF run[r].detached THEN UNCHANGED <<result, missed, writer>>
     ELSE /\ result' = [result EXCEPT ![c] = run[r].basis]
          /\ missed' = [missed EXCEPT ![c] = run[r].edited]
          /\ writer' = IF run[r].ctl THEN [writer EXCEPT ![c] = r] ELSE writer
  /\ UNCHANGED <<code, controller, begun, codeEdits, past>>

\* What refers to the cell, by its name, is stale now.  runCell goes on to run some of it.
ViewCreated(r) ==
  /\ run[r].at = "view"
  /\ needsRun' = [d \in Cells |-> needsRun[d] \/ d \in Dependents(run[r].cell)]
  /\ IF run[r].ctl THEN run' = [run EXCEPT ![r].at = "cascade"] /\ UNCHANGED controller
     ELSE Returns(r)
  /\ UNCHANGED <<code, cellStatus, result, begun, codeEdits, missed, writer, past, copied>>

CascadeEnds(r) ==
  /\ run[r].at = "cascade"
  /\ Returns(r)
  /\ UNCHANGED <<code, cellStatus, needsRun, result, begun, codeEdits, missed, writer, past, copied>>

\* The query, or creating the view, throws.
QueryFails(r) ==
  /\ run[r].at \in {"executing", "view"}
  /\ Unmarks(r)
  /\ ShowsIn(r, "error")
  /\ Returns(r)
  /\ UNCHANGED <<code, result, begun, codeEdits, missed, writer, past>>

\* The signal was aborted: an AbortError, or the check before or after the query.
RunAborted(r) ==
  /\ run[r].at \in {"upstreams", "executing"}
  /\ run[r].aborted
  /\ ShowsIn(r, "idle")
  /\ Returns(r)
  /\ UNCHANGED <<code, needsRun, result, begun, codeEdits, missed, writer, past>>

\* cancelCell: nothing, when the cell has no controller; otherwise the cell as it is
\* now is shown idle at once.
CancelCell(c) ==
  /\ controller[c] # 0
  /\ run' = [run EXCEPT ![controller[c]].aborted = TRUE]
  /\ Shows(c, "idle")
  /\ UNCHANGED <<code, needsRun, result, controller, begun, codeEdits, missed, writer, past>>

CellNext ==
  \/ \E old \in past : Restore(old)
  \/ \E file \in Code : ReloadCells(file)
  \/ \E c \in Cells : \/ EditCell(c) \/ RunCell(c) \/ RunAllReaches(c) \/ UdfRefused(c)
                      \/ CancelCell(c)
  \/ \E r \in RunIds : \/ Compile(r) \/ CompileFails(r) \/ QuerySucceeds(r) \/ ViewCreated(r)
                       \/ CascadeEnds(r) \/ QueryFails(r) \/ RunAborted(r)

CellSpec == CellInit /\ [][CellNext]_cellVars

-----------------------------------------------------------------------------
(* What is promised *)

Fresh(c) == \A d \in Basis(c) : result[c][d] = code[d]

\* A result that is shown without the stale mark was computed from the code as it
\* is now, of the cell and of everything upstream of it.  `missed' leaves out what
\* the code marks nowhere: an edit of one of them while the run was under way, which
\* the end of the run forgets, an undo upstream of the cell, and a change that a
\* reload takes from the file.
FreshOrMarked ==
  \A c \in Cells : cellStatus[c] = "success" /\ ~needsRun[c] /\ ~missed[c] => Fresh(c)

\* A cell that shows a run under way has one that will end it: a call of the cell
\* as it is now that was not cancelled or superseded and has not written its
\* outcome, and that cancelCell reaches if it has a controller.  A superseded call
\* that ends late neither takes the controller of the newer one nor leaves the cell
\* running.  Left out is a copy of a running cell, until it is run or cancelled:
\* that cell may well run for ever (NoCellStuck).
RunningIsLive ==
  \A c \in Cells : cellStatus[c] = "running" /\ ~copied[c] =>
    \E r \in RunIds : /\ run[r].cell = c /\ run[r].at \in {"upstreams", "executing"}
                      /\ ~run[r].aborted /\ ~run[r].detached
                      /\ run[r].ctl => controller[c] = r

\* loadProjectNotebooks says of its merge that "cells currently running (or with
\* results) are not reset by a background reload": the status is kept so that the
\* run under way can end it.  A cell should then never be left running when no call
\* of it is under way.  It is: the call ended in the object that was replaced.
NoCellStuck ==
  \A c \in Cells : cellStatus[c] = "running" =>
    \E r \in RunIds : run[r].cell = c /\ run[r].at # "none"

\* "any previous run for this cell is superseded": of the runs that have a
\* controller, one that began earlier never replaces the result of a later one.
ResultsInOrder == [][\A c \in Cells : writer'[c] >= writer[c]]_writer
=============================================================================
