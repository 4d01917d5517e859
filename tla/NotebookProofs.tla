---------------------------- MODULE NotebookProofs ----------------------------
(***************************************************************************)
(* What is proved of the notebook store: of the runs of its cells, for any *)
(* cells, graph of references and bounds; of the project file of a         *)
(* notebook, for any paths and bounds; of undo and redo, for any limit.    *)
(*                                                                         *)
(* Runs: a result that is shown was compiled from the code that is shown,  *)
(* or something still to come will say that it was not.  Files: no file,   *)
(* and nothing that may become one, holds an edit that was never sent, so  *)
(* a reload can only replace what was.  Undo: the two stacks are one line  *)
(* of states, and stay within the limit of one of them.                    *)
(***************************************************************************)
EXTENDS CellRuns, NotebookFiles, UndoHistory, TLAPS

-----------------------------------------------------------------------------
(* Cell runs: types *)

\* A call's record, as CellTypeOK has it.
Call == [at : {"none", "upstreams", "executing", "view", "cascade"},
         cell : Cells, ctl : BOOLEAN, aborted : BOOLEAN, basis : Code,
         edited : BOOLEAN, detached : BOOLEAN]

\* A slot that is not in use holds a well-formed record, since there is a cell.
LEMMA NoCallType == NoCall \in Call
<1>1. (CHOOSE c \in Cells : TRUE) \in Cells
  BY CellsAssumption
<1>2. [c \in Cells |-> 0] \in Code
  BY RunsAssumption DEF Code
<1> QED BY <1>1, <1>2 DEF NoCall, Call

LEMMA NoCallFields == NoCall.at = "none" /\ NoCall.ctl = FALSE
BY DEF NoCall

LEMMA CellInitType ==
  ASSUME CellInit
  PROVE  CellTypeOK
<1>1. \A r \in RunIds : run[r] \in Call
  BY NoCallType DEF CellInit
<1>2. [c \in Cells |-> 0] \in Code
  BY RunsAssumption DEF Code
<1> QED BY <1>1, <1>2, RunsAssumption DEF CellInit, CellTypeOK, Call, RunIds

\* A call that has lost its cell goes on as it was.
LEMMA DetachedType ==
  ASSUME NEW call \in Call
  PROVE  /\ Detached(call) \in Call
         /\ Detached(call).at = call.at /\ Detached(call).cell = call.cell
         /\ Detached(call).ctl = call.ctl /\ Detached(call).aborted = call.aborted
         /\ Detached(call).detached = TRUE
<1>1. NoCall.basis \in Code
  BY RunsAssumption DEF NoCall, Code
<1> QED BY <1>1 DEF Detached, Call

\* The calls of a notebook whose cells are replaced.
LEMMA ReplacesFacts ==
  ASSUME CellTypeOK, ReplacesCells
  PROVE  /\ run' \in [RunIds -> Call]
         /\ copied' \in [Cells -> BOOLEAN]
         /\ \A r \in RunIds :
              /\ run'[r].at = run[r].at /\ run'[r].cell = run[r].cell
              /\ run'[r].ctl = run[r].ctl /\ run'[r].aborted = run[r].aborted
              /\ run'[r].at = "none" \/ run'[r].detached
<1>1. \A r \in RunIds : run[r] \in Call
  BY DEF CellTypeOK, Call
<1>2. \A r \in RunIds : run'[r] = IF run[r].at = "none" THEN run[r] ELSE Detached(run[r])
  BY DEF ReplacesCells
<1>3. \A r \in RunIds : run'[r] \in Call
  BY <1>1, <1>2, DetachedType
<1>4. run' \in [RunIds -> Call]
  BY <1>3 DEF ReplacesCells
<1>5. copied' \in [Cells -> BOOLEAN]
  BY DEF ReplacesCells, CellTypeOK
<1> QED BY <1>1, <1>2, <1>4, <1>5, DetachedType

LEMMA ReturnsType ==
  ASSUME CellTypeOK, NEW r \in RunIds, Returns(r)
  PROVE  /\ run' \in [RunIds -> Call]
         /\ controller' \in [Cells -> RunIds \cup {0}]
BY NoCallType DEF CellTypeOK, Returns, Call

\* Every step keeps the types.
LEMMA CellStepType ==
  ASSUME CellTypeOK, [CellNext]_cellVars
  PROVE  CellTypeOK'
<1> USE DEF CellTypeOK
<1>0. \A r \in RunIds : /\ run[r] \in Call
                        /\ [run[r] EXCEPT !.edited = TRUE] \in Call
                        /\ [run[r] EXCEPT !.aborted = TRUE] \in Call
  BY ZenonT(30) DEF Call
<1>00. \A r \in RunIds : Detached(run[r]) \in Call
  BY DetachedType DEF Call
<1> USE DEF Call
<1>1. ASSUME NEW old \in past, Restore(old) PROVE CellTypeOK'
  <2>1. run' \in [RunIds -> Call] /\ copied' \in [Cells -> BOOLEAN]
    BY <1>1, ReplacesFacts DEF Restore
  <2>2. code' \in Code /\ past' \subseteq Code
    BY <1>1 DEF Restore
  <2> QED BY <1>1, <2>1, <2>2 DEF Restore
<1>1a. ASSUME NEW file \in Code, ReloadCells(file) PROVE CellTypeOK'
  <2>1. run' \in [RunIds -> Call] /\ copied' \in [Cells -> BOOLEAN]
    BY <1>1a, ReplacesFacts DEF ReloadCells
  <2>2. code' \in Code /\ codeEdits' \in 0..MaxCodeEdits
    BY <1>1a, RunsAssumption DEF ReloadCells
  <2> QED BY <1>1a, <2>1, <2>2 DEF ReloadCells
<1>2. ASSUME NEW c \in Cells, EditCell(c) PROVE CellTypeOK'
  <2>1. code' \in Code /\ codeEdits' \in 0..MaxCodeEdits
    BY <1>2, RunsAssumption DEF EditCell, Code
  <2>2. run' \in [RunIds -> Call]
    BY <1>0, <1>2 DEF EditCell, Overtakes
  <2> QED BY <1>2, <2>1, <2>2 DEF EditCell
<1>3. ASSUME NEW c \in Cells, RunCell(c) \/ RunAllReaches(c) PROVE CellTypeOK'
  <2>1. PICK call \in Call : Begin(c, call)
    BY <1>3, NoCallType DEF RunCell, RunAllReaches
  <2>2. begun' \in 0..MaxRuns /\ begun + 1 \in RunIds
    BY <2>1, RunsAssumption DEF Begin, RunIds
  <2>3. run' \in [RunIds -> Call]
    BY <1>0, <2>1 DEF Begin
  <2>4. controller' \in [Cells -> RunIds \cup {0}]
    BY <2>1, <2>2 DEF Begin
  <2> QED BY <2>1, <2>2, <2>3, <2>4 DEF Begin, Shows
<1>4. ASSUME NEW c \in Cells, UdfRefused(c) PROVE CellTypeOK'
  <2>1. run' \in [RunIds -> Call] /\ controller' \in [Cells -> RunIds \cup {0}]
    <3>1. CASE UNCHANGED <<run, controller>>
      BY <3>1
    <3>2. CASE /\ run' = [r \in RunIds |-> IF r = controller[c] THEN [run[r] EXCEPT !.aborted = TRUE]
                                          ELSE run[r]]
               /\ controller' = [controller EXCEPT ![c] = 0]
      <4>1. \A r \in RunIds : run'[r] \in Call
        BY <1>0, <3>2
      <4>2. run' = [r \in RunIds |-> run'[r]]
        BY <3>2
      <4> QED BY <3>2, <4>1, <4>2
    <3> QED BY <1>4, <3>1, <3>2 DEF UdfRefused
  <2> QED BY <1>4, <2>1 DEF UdfRefused, Shows
<1>5. ASSUME NEW c \in Cells, CancelCell(c) PROVE CellTypeOK'
  <2>1. run' \in [RunIds -> Call]
    BY <1>0, <1>5 DEF CancelCell
  <2> QED BY <1>5, <2>1 DEF CancelCell, Shows
<1>6. ASSUME NEW r \in RunIds, Compile(r) PROVE CellTypeOK'
  <2>1. [run[r] EXCEPT !.at = "executing", !.basis = code] \in Call
    BY <1>0
  <2>2. run' \in [RunIds -> Call]
    BY <1>6, <2>1 DEF Compile
  <2> QED BY <1>6, <2>2 DEF Compile, ShowsIn, Shows
<1>7. ASSUME NEW r \in RunIds, CompileFails(r) \/ QueryFails(r) \/ RunAborted(r) \/ CascadeEnds(r)
      PROVE  CellTypeOK'
  BY <1>7, ReturnsType DEF CompileFails, QueryFails, RunAborted, CascadeEnds, ShowsIn, Shows, Unmarks
<1>8. ASSUME NEW r \in RunIds, QuerySucceeds(r) PROVE CellTypeOK'
  <2>1. NoCall.basis \in Code
    BY RunsAssumption DEF NoCall, Code
  <2>2. [run[r] EXCEPT !.at = "view", !.basis = NoCall.basis, !.edited = FALSE] \in Call
    BY <1>0, <2>1
  <2>3. run' \in [RunIds -> Call]
    BY <1>8, <2>2 DEF QuerySucceeds
  <2>4. run[r].cell \in Cells /\ run[r].basis \in Code /\ run[r].edited \in BOOLEAN
    BY <1>0
  <2>5. result' \in [Cells -> Code] /\ writer' \in [Cells -> RunIds \cup {0}]
    BY <1>8, <2>4 DEF QuerySucceeds
  <2>6. missed' \in [Cells -> BOOLEAN]
    <3>1. missed' = missed \/ missed' = [missed EXCEPT ![run[r].cell] = run[r].edited]
      BY <1>8 DEF QuerySucceeds
    <3> QED BY <2>4, <3>1, ZenonT(30)
  <2>7. /\ cellStatus' \in [Cells -> {"idle", "running", "success", "error"}]
        /\ copied' \in [Cells -> BOOLEAN]
    BY <1>8 DEF QuerySucceeds, ShowsIn, Shows
  <2>8. needsRun' \in [Cells -> BOOLEAN]
    BY <1>8 DEF QuerySucceeds, Unmarks
  <2>9. UNCHANGED <<code, controller, begun, codeEdits, past>>
    BY <1>8 DEF QuerySucceeds
  <2> QED BY <2>3, <2>5, <2>6, <2>7, <2>8, <2>9
<1>9. ASSUME NEW r \in RunIds, ViewCreated(r) PROVE CellTypeOK'
  BY <1>9, ReturnsType DEF ViewCreated
<1>10. CASE UNCHANGED cellVars
  BY <1>10 DEF cellVars
<1> QED BY <1>1, <1>1a, <1>2, <1>3, <1>4, <1>5, <1>6, <1>7, <1>8, <1>9, <1>10 DEF CellNext

\* Every variable keeps its type.
THEOREM CellTypes == CellSpec => []CellTypeOK
<1>1. CellInit => CellTypeOK
  BY CellInitType
<1>2. CellTypeOK /\ [CellNext]_cellVars => CellTypeOK'
  BY CellStepType
<1> QED BY <1>1, <1>2, PTL DEF CellSpec

-----------------------------------------------------------------------------
(* Fresh or marked *)

\* What is executing was compiled from the code as it is, unless it is known to
\* have been overtaken or to have lost its cell.
CompiledFromCode ==
  \A r \in RunIds : run[r].at = "executing" /\ ~run[r].edited /\ ~run[r].detached
    => \A d \in Basis(run[r].cell) : run[r].basis[d] = code[d]

FreshInv == CellTypeOK /\ CompiledFromCode /\ FreshOrMarked

\* What a step may do to one call, as far as its basis goes: leave it, take it out
\* of "executing", or compile it from the code that is there.
KeptOrCompiled(q) ==
  \/ /\ run'[q].at = run[q].at /\ run'[q].cell = run[q].cell
     /\ run'[q].basis = run[q].basis /\ run'[q].edited = run[q].edited
     /\ run'[q].detached = run[q].detached
  \/ run'[q].at # "executing"
  \/ run'[q].basis = code

LEMMA CompiledStays ==
  ASSUME CompiledFromCode, code' = code, \A q \in RunIds : KeptOrCompiled(q)
  PROVE  CompiledFromCode'
BY DEF CompiledFromCode, KeptOrCompiled, Basis

LEMMA ReturnsKeeps ==
  ASSUME CellTypeOK, NEW r \in RunIds, Returns(r)
  PROVE  \A q \in RunIds : KeptOrCompiled(q)
BY NoCallFields DEF Returns, KeptOrCompiled, CellTypeOK

\* The same of one cell: left as it is, marked in some way, or not shown as a
\* success.
KeptOrMarked(d) ==
  \/ /\ cellStatus'[d] = cellStatus[d] /\ missed'[d] = missed[d] /\ result'[d] = result[d]
     /\ needsRun[d] => needsRun'[d]
  \/ cellStatus'[d] # "success"
  \/ needsRun'[d] \/ missed'[d]

LEMMA FreshStays ==
  ASSUME FreshOrMarked, code' = code, \A d \in Cells : KeptOrMarked(d)
  PROVE  FreshOrMarked'
BY DEF FreshOrMarked, Fresh, KeptOrMarked, Basis

LEMMA FreshStep ==
  ASSUME FreshInv, CellTypeOK', [CellNext]_cellVars
  PROVE  FreshInv'
<1> USE DEF FreshInv
<1>0. ASSUME ReplacesCells PROVE CompiledFromCode'
  BY <1>0, ReplacesFacts DEF CompiledFromCode
<1>1. ASSUME NEW old \in past, Restore(old) PROVE CompiledFromCode' /\ FreshOrMarked'
  <2> DEFINE changed == {c \in Cells : code[c] # old[c]}
  <2>0. old \in Code /\ code' = old
    BY <1>1 DEF Restore, CellTypeOK
  <2>1. CompiledFromCode'
    BY <1>0, <1>1 DEF Restore
  <2>2. ASSUME NEW c \in Cells, cellStatus'[c] = "success", ~needsRun'[c], ~missed'[c]
        PROVE  Fresh(c)'
    <3>1. /\ ~needsRun[c] /\ c \notin changed
          /\ ~missed[c] /\ Upstream[c] \cap changed = {}
          /\ cellStatus[c] = "success" /\ result' = result
      BY <1>1, <2>2 DEF Restore
    <3>2. Fresh(c)
      BY <3>1 DEF FreshOrMarked
    <3>3. \A d \in Basis(c) : d \in Cells /\ code[d] = old[d]
      BY <3>1, UpstreamAssumption DEF Basis
    <3> QED BY <2>0, <3>1, <3>2, <3>3 DEF Fresh, Basis
  <2> QED BY <2>1, <2>2 DEF FreshOrMarked
<1>1a. ASSUME NEW file \in Code, ReloadCells(file) PROVE CompiledFromCode' /\ FreshOrMarked'
  <2> DEFINE changed == {c \in Cells : code[c] # file[c]}
  <2>1. CompiledFromCode'
    BY <1>0, <1>1a DEF ReloadCells
  <2>2. ASSUME NEW c \in Cells, cellStatus'[c] = "success", ~needsRun'[c], ~missed'[c]
        PROVE  Fresh(c)'
    <3>1. /\ ~needsRun[c] /\ ~missed[c] /\ Basis(c) \cap changed = {}
          /\ cellStatus[c] = "success" /\ result' = result /\ code' = file
      BY <1>1a, <2>2 DEF ReloadCells
    <3>2. Fresh(c)
      BY <3>1 DEF FreshOrMarked
    <3>3. \A d \in Basis(c) : d \in Cells /\ code[d] = file[d]
      BY <3>1, UpstreamAssumption DEF Basis
    <3> QED BY <3>1, <3>2, <3>3 DEF Fresh, Basis
  <2> QED BY <2>1, <2>2 DEF FreshOrMarked
<1>2. ASSUME NEW c \in Cells, EditCell(c) PROVE CompiledFromCode' /\ FreshOrMarked'
  <2>0. \A d \in Cells : d # c => code'[d] = code[d]
    BY <1>2 DEF EditCell, CellTypeOK, Code
  <2>1. ASSUME NEW q \in RunIds, run'[q].at = "executing", ~run'[q].edited, ~run'[q].detached,
               NEW d \in Basis(run'[q].cell)
        PROVE  run'[q].basis[d] = code'[d]
    <3>1. /\ run'[q] = run[q]
          /\ run[q].at = "executing" => c \notin Basis(run[q].cell)
      <4>1. run'[q] = IF /\ run[q].at = "executing" /\ ~run[q].detached
                         /\ Basis(run[q].cell) \cap {c} # {}
                      THEN [run[q] EXCEPT !.edited = TRUE] ELSE run[q]
        BY <1>2 DEF EditCell, Overtakes
      <4>2. run[q] \in Call /\ [run[q] EXCEPT !.edited = TRUE].edited = TRUE
        BY DEF CellTypeOK, Call
      <4> QED BY <2>1, <4>1, <4>2
    <3>2. d # c /\ d \in Cells
      <4>1. run[q].cell \in Cells
        BY DEF CellTypeOK
      <4> QED BY <2>1, <3>1, <4>1, UpstreamAssumption DEF Basis
    <3>3. run[q].basis[d] = code[d]
      BY <2>1, <3>1 DEF CompiledFromCode
    <3> QED BY <2>0, <3>1, <3>2, <3>3
  <2>2. ASSUME NEW b \in Cells, cellStatus'[b] = "success", ~needsRun'[b], ~missed'[b]
        PROVE  Fresh(b)'
    <3>1. /\ ~needsRun[b] /\ b # c /\ c \notin Upstream[b]
          /\ ~missed[b] /\ cellStatus[b] = "success" /\ result' = result
      BY <1>2, <2>2 DEF EditCell, Dependents
    <3>2. Fresh(b)
      BY <3>1 DEF FreshOrMarked
    <3>3. \A d \in Basis(b) : d \in Cells /\ d # c
      BY <3>1, UpstreamAssumption DEF Basis
    <3> QED BY <2>0, <3>1, <3>2, <3>3 DEF Fresh, Basis
  <2> QED BY <2>1, <2>2 DEF CompiledFromCode, FreshOrMarked
<1>3. ASSUME NEW c \in Cells, RunCell(c) \/ RunAllReaches(c) PROVE CompiledFromCode' /\ FreshOrMarked'
  <2>1. PICK call \in Call : Begin(c, call) /\ (call.at = "executing" => call.basis = code)
    <3>1. CASE RunCell(c)
      <4> DEFINE call == [NoCall EXCEPT !.at = "upstreams", !.cell = c, !.ctl = TRUE]
      <4>1. call \in Call /\ call.at = "upstreams"
        BY NoCallType DEF Call
      <4> QED BY <3>1, <4>1 DEF RunCell
    <3>2. CASE RunAllReaches(c)
      <4> DEFINE call == [NoCall EXCEPT !.at = "executing", !.cell = c, !.basis = code]
      <4>1. call \in Call /\ call.basis = code
        BY NoCallType DEF Call, CellTypeOK
      <4> QED BY <3>2, <4>1 DEF RunAllReaches
    <3> QED BY <1>3, <3>1, <3>2
  <2>2. \A q \in RunIds : KeptOrCompiled(q)
    <3> TAKE q \in RunIds
    <3>1. run[q] \in Call
      BY DEF CellTypeOK, Call
    <3>2. \/ run'[q] = call
          \/ run'[q] = [run[q] EXCEPT !.aborted = TRUE]
          \/ run'[q] = run[q]
      BY <2>1 DEF Begin
    <3> QED BY <2>1, <3>1, <3>2 DEF KeptOrCompiled, Call
  <2>3. \A d \in Cells : KeptOrMarked(d)
    BY <2>1 DEF Begin, Shows, KeptOrMarked, CellTypeOK
  <2> QED BY <2>1, <2>2, <2>3, CompiledStays, FreshStays DEF Begin
<1>4. ASSUME NEW c \in Cells, UdfRefused(c) PROVE CompiledFromCode' /\ FreshOrMarked'
  <2>1. \A q \in RunIds : KeptOrCompiled(q)
    <3> TAKE q \in RunIds
    <3>1. run[q] \in Call
      BY DEF CellTypeOK, Call
    <3>2. run'[q] = [run[q] EXCEPT !.aborted = TRUE] \/ run'[q] = run[q]
      BY <1>4 DEF UdfRefused
    <3> QED BY <3>1, <3>2 DEF KeptOrCompiled, Call
  <2>2. \A d \in Cells : KeptOrMarked(d)
    BY <1>4 DEF UdfRefused, Shows, KeptOrMarked, CellTypeOK
  <2> QED BY <1>4, <2>1, <2>2, CompiledStays, FreshStays DEF UdfRefused
<1>5. ASSUME NEW c \in Cells, CancelCell(c) PROVE CompiledFromCode' /\ FreshOrMarked'
  <2>1. \A q \in RunIds : KeptOrCompiled(q)
    BY <1>5 DEF CancelCell, KeptOrCompiled, CellTypeOK
  <2>2. \A d \in Cells : KeptOrMarked(d)
    BY <1>5 DEF CancelCell, Shows, KeptOrMarked, CellTypeOK
  <2> QED BY <1>5, <2>1, <2>2, CompiledStays, FreshStays DEF CancelCell
<1>6. ASSUME NEW r \in RunIds, Compile(r) PROVE CompiledFromCode' /\ FreshOrMarked'
  <2>1. \A q \in RunIds : KeptOrCompiled(q)
    BY <1>6 DEF Compile, KeptOrCompiled, CellTypeOK
  <2>2. \A d \in Cells : KeptOrMarked(d)
    BY <1>6 DEF Compile, ShowsIn, Shows, KeptOrMarked, CellTypeOK
  <2> QED BY <1>6, <2>1, <2>2, CompiledStays, FreshStays DEF Compile
<1>7. ASSUME NEW r \in RunIds, CompileFails(r) \/ QueryFails(r) \/ RunAborted(r) \/ CascadeEnds(r)
      PROVE  CompiledFromCode' /\ FreshOrMarked'
  <2>1. Returns(r) /\ code' = code
    BY <1>7 DEF CompileFails, QueryFails, RunAborted, CascadeEnds
  <2>2. \A d \in Cells : KeptOrMarked(d)
    BY <1>7 DEF CompileFails, QueryFails, RunAborted, CascadeEnds, ShowsIn, Shows, Unmarks, KeptOrMarked, CellTypeOK
  <2> QED BY <2>1, <2>2, ReturnsKeeps, CompiledStays, FreshStays
<1>8. ASSUME NEW r \in RunIds, QuerySucceeds(r) PROVE CompiledFromCode' /\ FreshOrMarked'
  <2> DEFINE c == run[r].cell
  <2>0. c \in Cells
    BY DEF CellTypeOK
  <2>1. \A q \in RunIds : KeptOrCompiled(q)
    BY <1>8 DEF QuerySucceeds, KeptOrCompiled, CellTypeOK
  <2>2. ASSUME NEW b \in Cells, cellStatus'[b] = "success", ~needsRun'[b], ~missed'[b]
        PROVE  Fresh(b)'
    <3>1. CASE b = c /\ ~run[r].detached
      <4>1. result'[b] = run[r].basis /\ ~run[r].edited /\ run[r].at = "executing" /\ code' = code
        BY <1>8, <2>0, <2>2, <3>1 DEF QuerySucceeds, CellTypeOK
      <4> QED BY <3>1, <4>1 DEF CompiledFromCode, Fresh, Basis
    <3>2. CASE b # c \/ run[r].detached
      <4>1. /\ cellStatus[b] = "success" /\ ~needsRun[b] /\ ~missed[b]
            /\ result'[b] = result[b] /\ code' = code
        BY <1>8, <2>0, <2>2, <3>2 DEF QuerySucceeds, ShowsIn, Shows, Unmarks, CellTypeOK
      <4> QED BY <4>1 DEF FreshOrMarked, Fresh, Basis
    <3> QED BY <3>1, <3>2
  <2>3. code' = code
    BY <1>8 DEF QuerySucceeds
  <2> QED BY <2>1, <2>2, <2>3, CompiledStays DEF FreshOrMarked
<1>9. ASSUME NEW r \in RunIds, ViewCreated(r) PROVE CompiledFromCode' /\ FreshOrMarked'
  <2>1. \A q \in RunIds : KeptOrCompiled(q)
    <3>1. CASE Returns(r)
      BY <3>1, ReturnsKeeps
    <3>2. CASE run' = [run EXCEPT ![r].at = "cascade"]
      BY <3>2 DEF KeptOrCompiled, CellTypeOK
    <3> QED BY <1>9, <3>1, <3>2 DEF ViewCreated
  <2>2. \A d \in Cells : KeptOrMarked(d)
    BY <1>9 DEF ViewCreated, KeptOrMarked, CellTypeOK
  <2> QED BY <1>9, <2>1, <2>2, CompiledStays, FreshStays DEF ViewCreated
<1>10. CASE UNCHANGED cellVars
  BY <1>10 DEF cellVars, CompiledFromCode, FreshOrMarked, Fresh, Basis
<1> QED BY <1>1, <1>1a, <1>2, <1>3, <1>4, <1>5, <1>6, <1>7, <1>8, <1>9, <1>10 DEF CellNext

\* A result shown without the stale mark was computed from the code that is
\* there, except where a change slipped by the mark (see FreshOrMarked).
THEOREM ResultsAreFreshOrMarked == CellSpec => []FreshOrMarked
<1>1. CellInit => FreshInv
  <2> SUFFICES ASSUME CellInit PROVE FreshInv
    OBVIOUS
  <2>1. \A r \in RunIds : run[r].at = "none"
    BY NoCallFields DEF CellInit
  <2>2. \A c \in Cells : cellStatus[c] = "idle"
    BY DEF CellInit
  <2> QED BY <2>1, <2>2, CellInitType DEF FreshInv, CompiledFromCode, FreshOrMarked
<1>2. FreshInv /\ [CellNext]_cellVars => FreshInv'
  BY FreshStep, CellStepType DEF FreshInv
<1> QED BY <1>1, <1>2, PTL DEF CellSpec, FreshInv

-----------------------------------------------------------------------------
(* Results in order *)

\* Numbers grow, and a controller is never older than its cell's result.
Numbered ==
  \A c \in Cells : /\ writer[c] <= begun /\ controller[c] <= begun
                   /\ controller[c] # 0 => writer[c] <= controller[c]

\* A controlled call that was not aborted.
Live(q) == run[q].at # "none" /\ run[q].ctl /\ ~run[q].aborted

\* Such a call holds its cell's controller.
LiveHolds == \A q \in RunIds : Live(q) => controller[run[q].cell] = q

OrderInv == CellTypeOK /\ Numbered /\ LiveHolds

\* No call comes to life or changes its cell.
NoneRevived == \A q \in RunIds : Live(q)' => Live(q) /\ run'[q].cell = run[q].cell

LEMMA HoldersStay ==
  ASSUME LiveHolds, CellTypeOK, NoneRevived, controller' = controller
  PROVE  LiveHolds'
BY DEF LiveHolds, NoneRevived

\* The end of a call takes nothing from the others.
LEMMA ReturnsHolds ==
  ASSUME OrderInv, NEW r \in RunIds, Returns(r), writer' = writer, begun' = begun
  PROVE  Numbered' /\ LiveHolds'
<1> USE RunsAssumption DEF OrderInv
<1>1. /\ run'[r].at = "none"
      /\ \A q \in RunIds : q # r => run'[q] = run[q]
  BY NoCallFields DEF Returns, CellTypeOK
<1>2. \A c \in Cells : controller'[c] = controller[c] \/ (controller'[c] = 0 /\ controller[c] = r)
  BY DEF Returns, CellTypeOK
<1>3. LiveHolds'
  <2> SUFFICES ASSUME NEW q \in RunIds, Live(q)' PROVE controller'[run'[q].cell] = q
    BY DEF LiveHolds
  <2>1. q # r /\ run'[q] = run[q] /\ run[q].cell \in Cells
    BY <1>1 DEF Live, CellTypeOK
  <2>2. controller[run[q].cell] = q
    BY <2>1 DEF LiveHolds, Live
  <2> QED BY <1>2, <2>1, <2>2
<1>4. Numbered'
  BY <1>2 DEF Numbered, CellTypeOK, RunIds
<1> QED BY <1>3, <1>4

LEMMA OrderStep ==
  ASSUME OrderInv, CellTypeOK', [CellNext]_cellVars
  PROVE  OrderInv' /\ \A c \in Cells : writer'[c] >= writer[c]
<1> USE RunsAssumption DEF OrderInv
<1> DEFINE Ordered == Numbered' /\ LiveHolds' /\ \A c \in Cells : writer'[c] >= writer[c]
<1>0. ASSUME writer' = writer, controller' = controller, begun' = begun, NoneRevived PROVE Ordered
  <2>1. LiveHolds'
    BY <1>0, HoldersStay
  <2>2. Numbered'
    BY <1>0 DEF Numbered
  <2>3. \A c \in Cells : writer'[c] >= writer[c]
    BY <1>0 DEF CellTypeOK, RunIds
  <2> QED BY <2>1, <2>2, <2>3
<1>1. ASSUME NEW changed, Overtakes(changed) PROVE NoneRevived
  <2>1. ASSUME NEW q \in RunIds
        PROVE  run'[q] = run[q] \/ run'[q] = [run[q] EXCEPT !.edited = TRUE]
    BY <1>1 DEF Overtakes
  <2>2. \A q \in RunIds : run[q] \in Call
    BY DEF CellTypeOK, Call
  <2> QED BY <2>1, <2>2 DEF NoneRevived, Live, Call
<1>2. ASSUME ReplacesCells, UNCHANGED <<controller, begun, writer>> PROVE Ordered
  <2>1. NoneRevived
    BY <1>2, ReplacesFacts DEF NoneRevived, Live
  <2> QED BY <1>0, <1>2, <2>1
<1>2a. ASSUME NEW old \in past, Restore(old) PROVE Ordered
  BY <1>2, <1>2a DEF Restore
<1>2b. ASSUME NEW file \in Code, ReloadCells(file) PROVE Ordered
  BY <1>2, <1>2b DEF ReloadCells
<1>3. ASSUME NEW c \in Cells, EditCell(c) PROVE Ordered
  BY <1>0, <1>1, <1>3 DEF EditCell
<1>4. ASSUME NEW c \in Cells, RunAllReaches(c) PROVE Ordered
  <2> DEFINE call == [NoCall EXCEPT !.at = "executing", !.cell = c, !.basis = code]
  <2>1. call.ctl = FALSE
    BY NoCallType, NoCallFields DEF Call
  <2>2. Begin(c, call)
    BY <1>4 DEF RunAllReaches
  <2> HIDE DEF call
  <2>3. /\ controller' = controller /\ writer' = writer /\ begun' = begun + 1
        /\ \A q \in RunIds : run'[q] = call \/ run'[q] = run[q]
    BY <2>1, <2>2 DEF Begin
  <2>4. NoneRevived
    BY <2>1, <2>3 DEF NoneRevived, Live
  <2>5. LiveHolds'
    BY <2>3, <2>4, HoldersStay
  <2>6. begun \in Nat /\ \A d \in Cells : writer[d] \in Nat /\ controller[d] \in Nat
    BY DEF CellTypeOK, RunIds
  <2>7. UNCHANGED <<controller, writer>> /\ begun' = begun + 1
    BY <2>3
  <2>8. Numbered' /\ \A d \in Cells : writer'[d] >= writer[d]
    BY <2>6, <2>7 DEF Numbered
  <2> QED BY <2>5, <2>8
<1>5. ASSUME NEW c \in Cells, RunCell(c) PROVE Ordered
  <2> DEFINE call == [NoCall EXCEPT !.at = "upstreams", !.cell = c, !.ctl = TRUE]
  <2>1. call.ctl = TRUE /\ call.cell = c
    BY NoCallType DEF Call
  <2>2. Begin(c, call)
    BY <1>5 DEF RunCell
  <2> HIDE DEF call
  <2>3. /\ begun' = begun + 1 /\ begun + 1 \in RunIds /\ writer' = writer
        /\ controller' = [controller EXCEPT ![c] = begun + 1]
    BY <2>1, <2>2 DEF Begin, CellTypeOK, RunIds
  <2>4. Numbered' /\ \A d \in Cells : writer'[d] >= writer[d]
    <3>1. begun \in Nat /\ \A d \in Cells : writer[d] \in Nat /\ controller[d] \in Nat
      BY DEF CellTypeOK, RunIds
    <3>2. \A d \in Cells : controller'[d] = controller[d] \/ controller'[d] = begun + 1
      BY <2>3 DEF CellTypeOK
    <3> QED BY <2>3, <3>1, <3>2 DEF Numbered
  <2>5. LiveHolds'
    <3> SUFFICES ASSUME NEW q \in RunIds, Live(q)' PROVE controller'[run'[q].cell] = q
      BY DEF LiveHolds
    <3>1. CASE q = begun + 1
      <4>1. run'[q] = call
        BY <2>2, <3>1 DEF Begin
      <4> QED BY <2>1, <2>3, <3>1, <4>1 DEF CellTypeOK
    <3>2. CASE q # begun + 1
      <4>1. run[q] \in Call
        BY DEF CellTypeOK, Call
      <4>2. run'[q] = IF q = controller[c] THEN [run[q] EXCEPT !.aborted = TRUE] ELSE run[q]
        BY <2>1, <2>2, <3>2 DEF Begin
      <4>3. q # controller[c] /\ run'[q] = run[q]
        BY <4>1, <4>2 DEF Live, Call
      <4>4. controller[run[q].cell] = q
        BY <4>3 DEF LiveHolds, Live
      <4>5. run[q].cell # c /\ run[q].cell \in Cells
        BY <4>1, <4>3, <4>4 DEF Call
      <4> QED BY <2>3, <4>3, <4>4, <4>5 DEF CellTypeOK
    <3> QED BY <3>1, <3>2
  <2> QED BY <2>4, <2>5
<1>6. ASSUME NEW c \in Cells, UdfRefused(c) PROVE Ordered
  <2>1. CASE UNCHANGED <<run, controller>>
    BY <1>0, <1>6, <2>1 DEF UdfRefused, NoneRevived, Live
  <2>2. CASE /\ run' = [r \in RunIds |-> IF r = controller[c] THEN [run[r] EXCEPT !.aborted = TRUE]
                                        ELSE run[r]]
             /\ controller' = [controller EXCEPT ![c] = 0]
    <3>1. writer' = writer /\ begun' = begun
      BY <1>6 DEF UdfRefused
    <3>2. Numbered' /\ \A d \in Cells : writer'[d] >= writer[d]
      <4>1. \A d \in Cells : controller'[d] = 0 \/ controller'[d] = controller[d]
        BY <2>2 DEF CellTypeOK
      <4>2. begun \in Nat /\ \A d \in Cells : writer[d] \in Nat
        BY DEF CellTypeOK, RunIds
      <4> QED BY <3>1, <4>1, <4>2 DEF Numbered
    <3>3. LiveHolds'
      <4> SUFFICES ASSUME NEW q \in RunIds, Live(q)' PROVE controller'[run'[q].cell] = q
        BY DEF LiveHolds
      <4>1. run[q] \in Call
        BY DEF CellTypeOK, Call
      <4>2. q # controller[c] /\ run'[q] = run[q]
        BY <2>2, <4>1 DEF Live, Call
      <4>3. controller[run[q].cell] = q
        BY <4>2 DEF LiveHolds, Live
      <4>4. run[q].cell # c /\ run[q].cell \in Cells
        BY <4>1, <4>2, <4>3 DEF Call
      <4> QED BY <2>2, <4>2, <4>3, <4>4 DEF CellTypeOK
    <3> QED BY <3>2, <3>3
  <2> QED BY <1>6, <2>1, <2>2 DEF UdfRefused
<1>7. ASSUME NEW c \in Cells, CancelCell(c) PROVE Ordered
  <2>1. NoneRevived
    BY <1>7 DEF CancelCell, NoneRevived, Live, CellTypeOK
  <2> QED BY <1>0, <1>7, <2>1 DEF CancelCell
<1>8. ASSUME NEW r \in RunIds, Compile(r) PROVE Ordered
  <2>1. NoneRevived
    BY <1>8 DEF Compile, NoneRevived, Live, CellTypeOK
  <2> QED BY <1>0, <1>8, <2>1 DEF Compile
<1>9. ASSUME NEW r \in RunIds, CompileFails(r) \/ QueryFails(r) \/ RunAborted(r) \/ CascadeEnds(r)
      PROVE  Ordered
  <2>1. Returns(r) /\ writer' = writer /\ begun' = begun
    BY <1>9 DEF CompileFails, QueryFails, RunAborted, CascadeEnds
  <2>2. \A c \in Cells : writer'[c] >= writer[c]
    BY <2>1 DEF CellTypeOK, RunIds
  <2> QED BY <2>1, <2>2, ReturnsHolds
<1>10. ASSUME NEW r \in RunIds, QuerySucceeds(r) PROVE Ordered
  <2> DEFINE c == run[r].cell
  <2>0. c \in Cells
    BY DEF CellTypeOK
  <2>1. controller' = controller /\ begun' = begun /\ NoneRevived
    BY <1>10 DEF QuerySucceeds, NoneRevived, Live, CellTypeOK
  <2>2. LiveHolds'
    BY <2>1, HoldersStay
  <2>3. writer' = writer \/ (writer' = [writer EXCEPT ![c] = r] /\ controller[c] = r)
    BY <1>10 DEF QuerySucceeds, MayWrite, LiveHolds, Live
  <2>4. ASSUME NEW d \in Cells
        PROVE  /\ writer'[d] >= writer[d] /\ writer'[d] <= begun
               /\ controller[d] # 0 => writer'[d] <= controller[d]
    <3>1. writer'[d] = writer[d] \/ (d = c /\ writer'[d] = r /\ controller[d] = r)
      BY <2>0, <2>3 DEF CellTypeOK
    <3>2. /\ writer[d] \in Nat /\ controller[d] \in Nat /\ r \in Nat /\ r # 0 /\ begun \in Nat
          /\ writer[d] <= begun /\ controller[d] <= begun
          /\ controller[d] # 0 => writer[d] <= controller[d]
      BY DEF Numbered, CellTypeOK, RunIds
    <3> QED BY <3>1, <3>2
  <2> QED BY <2>1, <2>2, <2>4 DEF Numbered
<1>11. ASSUME NEW r \in RunIds, ViewCreated(r) PROVE Ordered
  <2>0. writer' = writer /\ begun' = begun
    BY <1>11 DEF ViewCreated
  <2>1. CASE Returns(r)
    <3>1. \A c \in Cells : writer'[c] >= writer[c]
      BY <2>0 DEF CellTypeOK, RunIds
    <3> QED BY <2>0, <2>1, <3>1, ReturnsHolds
  <2>2. CASE run' = [run EXCEPT ![r].at = "cascade"] /\ UNCHANGED controller
    <3>1. NoneRevived
      BY <1>11, <2>2 DEF ViewCreated, NoneRevived, Live, CellTypeOK
    <3> QED BY <1>0, <2>0, <2>2, <3>1
  <2> QED BY <1>11, <2>1, <2>2 DEF ViewCreated
<1>12. CASE UNCHANGED cellVars
  BY <1>0, <1>12 DEF cellVars, NoneRevived, Live
<1> QED BY <1>2a, <1>2b, <1>3, <1>4, <1>5, <1>6, <1>7, <1>8, <1>9, <1>10, <1>11, <1>12 DEF CellNext

LEMMA OrderInitially ==
  ASSUME CellInit
  PROVE  OrderInv
<1>1. \A r \in RunIds : run[r].at = "none"
  BY NoCallFields DEF CellInit
<1>2. Numbered
  <2>1. begun = 0 /\ \A c \in Cells : writer[c] = 0 /\ controller[c] = 0
    BY DEF CellInit
  <2> SUFFICES ASSUME NEW c \in Cells
               PROVE  /\ writer[c] <= begun /\ controller[c] <= begun
                      /\ controller[c] # 0 => writer[c] <= controller[c]
    BY DEF Numbered
  <2> QED BY <2>1
<1> QED BY <1>1, <1>2, CellInitType DEF OrderInv, LiveHolds, Live

\* However runs, cancellations and edits overlap, a run that runCell has
\* superseded never replaces the result of a newer one.
THEOREM ResultsComeInOrder == CellSpec => ResultsInOrder
<1>1. CellInit => OrderInv
  BY OrderInitially
<1>2. OrderInv /\ [CellNext]_cellVars
        => OrderInv' /\ [\A c \in Cells : writer'[c] >= writer[c]]_writer
  BY OrderStep, CellStepType DEF OrderInv
<1> QED BY <1>1, <1>2, PTL DEF CellSpec, ResultsInOrder

-----------------------------------------------------------------------------
(* What is shown as running *)

\* Numbers not yet given are not in use.
SlotsUsed == \A q \in RunIds : run[q].at # "none" => q <= begun

\* A cell's controller is that of a call of the cell which has not returned.
ControlsOwn ==
  \A c \in Cells : controller[c] # 0
    => run[controller[c]].at # "none" /\ run[controller[c]].cell = c

\* The call will end what the cell shows.
Carries(q, c) ==
  /\ run[q].cell = c /\ run[q].at \in {"upstreams", "executing"}
  /\ ~run[q].aborted /\ ~run[q].detached

RunningInv == OrderInv /\ SlotsUsed /\ ControlsOwn /\ RunningIsLive

\* No call begins, returns or changes its cell; controllers may go.
LEMMA SlotsStay ==
  ASSUME OrderInv, SlotsUsed, ControlsOwn, begun' = begun,
         \A c \in Cells : controller'[c] \in {0, controller[c]},
         \A q \in RunIds : /\ run'[q].cell = run[q].cell
                           /\ run'[q].at = "none" <=> run[q].at = "none"
  PROVE  SlotsUsed' /\ ControlsOwn'
<1>1. SlotsUsed'
  BY DEF SlotsUsed
<1>2. \A c \in Cells : controller[c] # 0 => controller[c] \in RunIds
  BY DEF OrderInv, CellTypeOK
<1>3. ControlsOwn'
  BY <1>2 DEF ControlsOwn
<1> QED BY <1>1, <1>3

\* The end of a call leaves the other calls, and their cells' controllers.
LEMMA ReturnsFacts ==
  ASSUME OrderInv, SlotsUsed, ControlsOwn, NEW r \in RunIds, Returns(r), begun' = begun
  PROVE  /\ SlotsUsed' /\ ControlsOwn'
         /\ \A q \in RunIds : q # r => run'[q] = run[q]
<1> USE DEF OrderInv, CellTypeOK
<1>1. run'[r].at = "none" /\ \A q \in RunIds : q # r => run'[q] = run[q]
  BY NoCallFields DEF Returns
<1>2. SlotsUsed'
  BY <1>1 DEF SlotsUsed
<1>3. ASSUME NEW c \in Cells, controller'[c] # 0
      PROVE  run'[controller'[c]].at # "none" /\ run'[controller'[c]].cell = c
  <2>1. controller'[c] = controller[c]
    BY <1>3 DEF Returns
  <2>2. /\ controller[c] \in RunIds
        /\ run[controller[c]].at # "none" /\ run[controller[c]].cell = c
    BY <1>3, <2>1 DEF ControlsOwn
  <2>3. controller[c] # r
    BY <1>3, <2>2 DEF Returns
  <2> QED BY <1>1, <2>1, <2>2, <2>3
<1> QED BY <1>1, <1>2, <1>3 DEF ControlsOwn

\* A call begins in a slot that was free.
LEMMA BeginFacts ==
  ASSUME OrderInv, SlotsUsed, ControlsOwn, NEW c \in Cells, NEW call \in Call, Begin(c, call),
         call.cell = c, call.at \in {"upstreams", "executing"}, ~call.aborted, ~call.detached
  PROVE  /\ SlotsUsed' /\ ControlsOwn'
         /\ \E q \in RunIds : Carries(q, c)'
         /\ \A d \in Cells : \A q \in RunIds : d # c /\ Carries(q, d) => Carries(q, d)'
<1> USE RunsAssumption DEF OrderInv, CellTypeOK
<1>0. PICK n \in RunIds : n = begun + 1 /\ begun \in Nat /\ begun' = n /\ n # 0
  BY DEF Begin, RunIds
<1>1. run'[n] = call
  BY <1>0 DEF Begin
<1>2. ASSUME NEW q \in RunIds, q # n
      PROVE  /\ run'[q].at = run[q].at /\ run'[q].cell = run[q].cell
             /\ run'[q].aborted = run[q].aborted \/ q = controller[c]
             /\ run'[q].detached = run[q].detached
  <2>1. run'[q] = IF call.ctl /\ q = controller[c] THEN [run[q] EXCEPT !.aborted = TRUE] ELSE run[q]
    BY <1>0, <1>2 DEF Begin
  <2>2. /\ [run[q] EXCEPT !.aborted = TRUE].at = run[q].at
        /\ [run[q] EXCEPT !.aborted = TRUE].cell = run[q].cell
        /\ [run[q] EXCEPT !.aborted = TRUE].detached = run[q].detached
    OBVIOUS
  <2> QED BY <2>1, <2>2
<1>3. run[n].at = "none"
  BY <1>0 DEF SlotsUsed
<1>4. SlotsUsed'
  <2> SUFFICES ASSUME NEW q \in RunIds, run'[q].at # "none" PROVE q <= begun'
    BY DEF SlotsUsed
  <2>1. q = n \/ q <= begun
    BY <1>2 DEF SlotsUsed
  <2>2. q \in Nat
    BY DEF RunIds
  <2> QED BY <1>0, <2>1, <2>2
<1>5. \A d \in Cells : controller'[d] = controller[d] \/ (d = c /\ controller'[d] = n)
  BY <1>0 DEF Begin
<1>6. ASSUME NEW d \in Cells, controller'[d] # 0
      PROVE  run'[controller'[d]].at # "none" /\ run'[controller'[d]].cell = d
  <2>1. CASE d = c /\ controller'[d] = n
    BY <1>1, <2>1
  <2>2. CASE controller'[d] = controller[d]
    <3>1. /\ controller[d] \in RunIds
          /\ run[controller[d]].at # "none" /\ run[controller[d]].cell = d
      BY <1>6, <2>2 DEF ControlsOwn
    <3>2. controller[d] # n
      BY <1>3, <3>1
    <3> QED BY <1>2, <2>2, <3>1, <3>2
  <2> QED BY <1>5, <2>1, <2>2
<1>7. Carries(n, c)'
  BY <1>1 DEF Carries
<1>8. ASSUME NEW d \in Cells, NEW q \in RunIds, d # c, Carries(q, d) PROVE Carries(q, d)'
  <2>1. q # n
    BY <1>3, <1>8 DEF Carries
  <2>2. q # controller[c]
    BY <1>0, <1>8 DEF Carries, ControlsOwn, RunIds
  <2> QED BY <1>2, <1>8, <2>1, <2>2 DEF Carries
<1> QED BY <1>0, <1>4, <1>6, <1>7, <1>8 DEF ControlsOwn

LEMMA RunningStep ==
  ASSUME RunningInv, CellTypeOK', OrderInv', [CellNext]_cellVars
  PROVE  RunningInv'
<1> USE DEF RunningInv
<1> DEFINE Shown == \A c \in Cells : cellStatus'[c] = "running" /\ ~copied'[c]
                                    => \E q \in RunIds : Carries(q, c)'
           Slots == SlotsUsed' /\ ControlsOwn'
<1>0. \A c \in Cells : cellStatus[c] = "running" /\ ~copied[c] => \E q \in RunIds : Carries(q, c)
  BY DEF RunningIsLive, Carries
<1>1. ASSUME NEW changed, Overtakes(changed), UNCHANGED <<cellStatus, copied, controller, begun>>
      PROVE  Slots /\ Shown
  <2>1. \A q \in RunIds : /\ run'[q].at = run[q].at /\ run'[q].cell = run[q].cell
                          /\ run'[q].aborted = run[q].aborted
                          /\ run'[q].detached = run[q].detached
    <3>1. \A q \in RunIds : run'[q] = run[q] \/ run'[q] = [run[q] EXCEPT !.edited = TRUE]
      BY <1>1 DEF Overtakes
    <3>2. \A q \in RunIds : /\ [run[q] EXCEPT !.edited = TRUE].at = run[q].at
                            /\ [run[q] EXCEPT !.edited = TRUE].cell = run[q].cell
                            /\ [run[q] EXCEPT !.edited = TRUE].aborted = run[q].aborted
                            /\ [run[q] EXCEPT !.edited = TRUE].detached = run[q].detached
      OBVIOUS
    <3> QED BY <3>1, <3>2
  <2>2. Slots
    BY <1>1, <2>1, SlotsStay
  <2>3. Shown
    BY <1>0, <1>1, <2>1 DEF Carries
  <2> QED BY <2>2, <2>3
<1>2. ASSUME ReplacesCells, UNCHANGED <<cellStatus, controller, begun>> PROVE Slots /\ Shown
  <2>1. Slots
    BY <1>2, ReplacesFacts, SlotsStay DEF OrderInv
  <2>2. Shown
    BY <1>2 DEF ReplacesCells
  <2> QED BY <2>1, <2>2
<1>2a. ASSUME NEW old \in past, Restore(old) PROVE Slots /\ Shown
  BY <1>2, <1>2a DEF Restore
<1>2b. ASSUME NEW file \in Code, ReloadCells(file) PROVE Slots /\ Shown
  BY <1>2, <1>2b DEF ReloadCells
<1>3. ASSUME NEW c \in Cells, EditCell(c) PROVE Slots /\ Shown
  BY <1>1, <1>3 DEF EditCell
<1>4. ASSUME NEW c \in Cells, RunCell(c) \/ RunAllReaches(c) PROVE Slots /\ Shown
  <2>1. PICK call \in Call : /\ Begin(c, call) /\ call.cell = c
                             /\ ~call.aborted /\ ~call.detached
                             /\ call.at \in {"upstreams", "executing"}
    <3>0. NoCall.aborted = FALSE /\ NoCall.detached = FALSE
      BY DEF NoCall
    <3>1. CASE RunCell(c)
      <4> DEFINE call == [NoCall EXCEPT !.at = "upstreams", !.cell = c, !.ctl = TRUE]
      <4>1. call \in Call /\ call.at = "upstreams" /\ call.cell = c
            /\ call.aborted = FALSE /\ call.detached = FALSE
        BY <3>0, NoCallType DEF Call
      <4> QED BY <3>1, <4>1 DEF RunCell
    <3>2. CASE RunAllReaches(c)
      <4> DEFINE call == [NoCall EXCEPT !.at = "executing", !.cell = c, !.basis = code]
      <4>1. call \in Call /\ call.at = "executing" /\ call.cell = c
            /\ call.aborted = FALSE /\ call.detached = FALSE
        BY <3>0, NoCallType DEF Call, OrderInv, CellTypeOK
      <4> QED BY <3>2, <4>1 DEF RunAllReaches
    <3> QED BY <1>4, <3>1, <3>2
  <2>2. /\ SlotsUsed' /\ ControlsOwn'
        /\ \E q \in RunIds : Carries(q, c)'
        /\ \A d \in Cells : \A q \in RunIds : d # c /\ Carries(q, d) => Carries(q, d)'
    BY <2>1, BeginFacts
  <2>3. \A d \in Cells : d # c => cellStatus'[d] = cellStatus[d] /\ copied'[d] = copied[d]
    BY <2>1 DEF Begin, Shows, OrderInv, CellTypeOK
  <2> QED BY <1>0, <2>2, <2>3
<1>5. ASSUME NEW c \in Cells, UNCHANGED begun, Shows(c, "idle") \/ Shows(c, "error"),
             \A d \in Cells : controller'[d] \in {0, controller[d]},
             \A q \in RunIds : \/ run'[q] = run[q]
                               \/ /\ controller[c] # 0 /\ q = controller[c]
                                  /\ run'[q] = [run[q] EXCEPT !.aborted = TRUE]
      PROVE  Slots /\ Shown
  <2>1. \A q \in RunIds : /\ [run[q] EXCEPT !.aborted = TRUE].at = run[q].at
                          /\ [run[q] EXCEPT !.aborted = TRUE].cell = run[q].cell
    OBVIOUS
  <2>2. \A q \in RunIds : run'[q].at = run[q].at /\ run'[q].cell = run[q].cell
    BY <1>5, <2>1
  <2>3. Slots
    BY <1>5, <2>2, SlotsStay
  <2>4. \A d \in Cells : cellStatus'[d] = "running"
          => d # c /\ cellStatus[d] = "running" /\ copied'[d] = copied[d]
    BY <1>5 DEF Shows, OrderInv, CellTypeOK
  <2>5. \A d \in Cells : \A q \in RunIds : d # c /\ Carries(q, d) => Carries(q, d)'
    BY <1>5 DEF Carries, ControlsOwn
  <2> QED BY <1>0, <2>3, <2>4, <2>5
<1>6. ASSUME NEW c \in Cells, UdfRefused(c) PROVE Slots /\ Shown
  <2>1. \A d \in Cells : controller'[d] \in {0, controller[d]}
    BY <1>6 DEF UdfRefused, OrderInv, CellTypeOK
  <2>2. \A q \in RunIds : \/ run'[q] = run[q]
                          \/ /\ controller[c] # 0 /\ q = controller[c]
                             /\ run'[q] = [run[q] EXCEPT !.aborted = TRUE]
    <3>1. CASE UNCHANGED <<run, controller>>
      BY <3>1
    <3>2. CASE run' = [r \in RunIds |-> IF r = controller[c] THEN [run[r] EXCEPT !.aborted = TRUE]
                                        ELSE run[r]]
      BY <3>2, RunsAssumption DEF RunIds
    <3> QED BY <1>6, <3>1, <3>2 DEF UdfRefused
  <2> QED BY <1>5, <1>6, <2>1, <2>2 DEF UdfRefused
<1>7. ASSUME NEW c \in Cells, CancelCell(c) PROVE Slots /\ Shown
  <2>1. \A q \in RunIds : \/ run'[q] = run[q]
                          \/ /\ controller[c] # 0 /\ q = controller[c]
                             /\ run'[q] = [run[q] EXCEPT !.aborted = TRUE]
    BY <1>7 DEF CancelCell, OrderInv, CellTypeOK
  <2> QED BY <1>5, <1>7, <2>1 DEF CancelCell
<1>8. ASSUME NEW r \in RunIds, Compile(r) PROVE Slots /\ Shown
  <2>0. run[r].cell \in Cells
    BY DEF OrderInv, CellTypeOK
  <2>1. /\ run'[r].at = "executing" /\ run'[r].cell = run[r].cell /\ ~run'[r].aborted
        /\ run[r].at = "upstreams" /\ run'[r].detached = run[r].detached
        /\ \A q \in RunIds : q # r => run'[q] = run[q]
    BY <1>8 DEF Compile, OrderInv, CellTypeOK
  <2>2. Slots
    BY <1>8, <2>1, SlotsStay DEF Compile
  <2>3. \A d \in Cells : \/ d = run[r].cell /\ ~run[r].detached
                         \/ cellStatus'[d] = cellStatus[d] /\ copied'[d] = copied[d]
    <3>1. CASE run[r].detached
      BY <1>8, <3>1 DEF Compile, ShowsIn
    <3>2. CASE ~run[r].detached
      <4>1. Shows(run[r].cell, "running")
        BY <1>8, <3>2 DEF Compile, ShowsIn
      <4> QED BY <3>2, <4>1 DEF Shows, OrderInv, CellTypeOK
    <3> QED BY <3>1, <3>2
  <2>4. \A d \in Cells : \A q \in RunIds : Carries(q, d) => Carries(q, d)'
    BY <2>1 DEF Carries
  <2>5. ~run[r].detached => Carries(r, run[r].cell)'
    BY <2>1 DEF Carries
  <2>6. Shown
    <3> SUFFICES ASSUME NEW d \in Cells, cellStatus'[d] = "running", ~copied'[d]
                 PROVE  \E q \in RunIds : Carries(q, d)'
      OBVIOUS
    <3>1. CASE d = run[r].cell /\ ~run[r].detached
      BY <2>1, <2>5, <3>1
    <3>2. CASE cellStatus'[d] = cellStatus[d] /\ copied'[d] = copied[d]
      <4>1. \E q \in RunIds : Carries(q, d)
        BY <1>0, <3>2
      <4> QED BY <2>4, <4>1
    <3> QED BY <2>3, <3>1, <3>2
  <2> QED BY <2>2, <2>6
<1>9. ASSUME NEW r \in RunIds, CompileFails(r) \/ QueryFails(r) \/ RunAborted(r) PROVE Slots /\ Shown
  <2> DEFINE c == run[r].cell
  <2>1. Returns(r) /\ UNCHANGED begun
    BY <1>9 DEF CompileFails, QueryFails, RunAborted
  <2>2. Slots /\ \A q \in RunIds : q # r => run'[q] = run[q]
    BY <2>1, ReturnsFacts
  <2>3. \A d \in Cells : cellStatus'[d] = "running"
          => /\ d # run[r].cell \/ run[r].detached
             /\ cellStatus[d] = "running" /\ copied'[d] = copied[d]
    BY <1>9 DEF CompileFails, QueryFails, RunAborted, ShowsIn, Shows, OrderInv, CellTypeOK
  <2>4. \A d \in Cells : \A q \in RunIds :
          (d # run[r].cell \/ run[r].detached) /\ Carries(q, d) => Carries(q, d)'
    BY <2>2 DEF Carries
  <2> QED BY <1>0, <2>2, <2>3, <2>4
<1>10. ASSUME NEW r \in RunIds, QuerySucceeds(r) PROVE Slots /\ Shown
  <2>1. /\ run'[r].at = "view" /\ run'[r].cell = run[r].cell /\ run[r].at = "executing"
        /\ \A q \in RunIds : q # r => run'[q] = run[q]
    BY <1>10 DEF QuerySucceeds, OrderInv, CellTypeOK
  <2>2. Slots
    BY <1>10, <2>1, SlotsStay DEF QuerySucceeds
  <2>3. \A d \in Cells : cellStatus'[d] = "running"
          => /\ d # run[r].cell \/ run[r].detached
             /\ cellStatus[d] = "running" /\ copied'[d] = copied[d]
    BY <1>10 DEF QuerySucceeds, ShowsIn, Shows, OrderInv, CellTypeOK
  <2>4. \A d \in Cells : \A q \in RunIds :
          (d # run[r].cell \/ run[r].detached) /\ Carries(q, d) => Carries(q, d)'
    BY <2>1 DEF Carries
  <2> QED BY <1>0, <2>2, <2>3, <2>4
<1>11. ASSUME NEW r \in RunIds, ViewCreated(r) \/ CascadeEnds(r) PROVE Slots /\ Shown
  <2>0. run[r].at \in {"view", "cascade"} /\ UNCHANGED <<cellStatus, copied, begun>>
    BY <1>11 DEF ViewCreated, CascadeEnds
  <2>1. \A q \in RunIds : q # r => run'[q] = run[q]
    BY <1>11 DEF ViewCreated, CascadeEnds, Returns, OrderInv, CellTypeOK
  <2>2. Shown
    BY <1>0, <2>0, <2>1 DEF Carries
  <2>3. CASE Returns(r)
    BY <2>0, <2>2, <2>3, ReturnsFacts
  <2>4. CASE run' = [run EXCEPT ![r].at = "cascade"] /\ UNCHANGED controller
    <3>1. run'[r].at = "cascade" /\ run'[r].cell = run[r].cell
      BY <2>4 DEF OrderInv, CellTypeOK
    <3>2. Slots
      BY <2>0, <2>1, <2>4, <3>1, SlotsStay
    <3> QED BY <2>2, <3>2
  <2> QED BY <1>11, <2>3, <2>4 DEF ViewCreated, CascadeEnds
<1>12. ASSUME UNCHANGED cellVars PROVE Slots /\ Shown
  <2>1. UNCHANGED <<cellStatus, copied, controller, run, begun>>
    BY <1>12 DEF cellVars
  <2>2. Slots
    BY <2>1 DEF SlotsUsed, ControlsOwn
  <2>3. Shown
    BY <1>0, <2>1 DEF Carries
  <2> QED BY <2>2, <2>3
<1>13. Slots /\ Shown
  <2> HIDE DEF Slots, Shown
  <2> QED BY <1>2a, <1>2b, <1>3, <1>4, <1>6, <1>7, <1>8, <1>9, <1>10, <1>11, <1>12 DEF CellNext
<1>14. RunningIsLive'
  BY <1>13 DEF RunningIsLive, Carries, OrderInv, LiveHolds, Live
<1> QED BY <1>13, <1>14

\* A cell that shows a run under way has a call that will end it, and cancelCell
\* reaches that call: no end, cancellation or refusal of another run leaves the
\* cell running, or takes the controller it would need.  The exception is a copy
\* that an undo or a reload made of a running cell, until it is run or cancelled.
THEOREM RunningCellsAreLive == CellSpec => []RunningIsLive
<1>1. CellInit => RunningInv
  <2> SUFFICES ASSUME CellInit PROVE RunningInv
    OBVIOUS
  <2>1. \A q \in RunIds : run[q].at = "none"
    BY NoCallFields DEF CellInit
  <2>2. \A c \in Cells : cellStatus[c] = "idle" /\ controller[c] = 0
    BY DEF CellInit
  <2>3. OrderInv
    BY OrderInitially
  <2> QED BY <2>1, <2>2, <2>3 DEF RunningInv, SlotsUsed, ControlsOwn, RunningIsLive
<1>2. RunningInv /\ [CellNext]_cellVars => RunningInv'
  BY RunningStep, OrderStep, CellStepType DEF RunningInv, OrderInv
<1> QED BY <1>1, <1>2, PTL DEF CellSpec, RunningInv

-----------------------------------------------------------------------------
(* Project files: types *)

File  == Contents \cup {Absent}
Write == [path : Paths, content : Contents, late : BOOLEAN]
Move  == [n : Nat, from : Paths, to : Paths, at : {"sent", "moved", "refused"},
          late : BOOLEAN, folder : BOOLEAN]

\* What was sent with a write request or taken to the disk by one, or comes from the agent.
Sent(c)  == c \subseteq carried \cup {AgentEdit}
OnDisk(c) == c \subseteq landed \cup {AgentEdit}

\* No file, and nothing that may become one, holds an edit that was never sent.
FilesAreSent ==
  /\ landed \subseteq carried
  /\ \A w \in puts : Sent(w.content)
  /\ \A p \in Paths : disk[p] # Absent => OnDisk(disk[p])
  /\ \A g \in listings : \A p \in Paths : g[p] # Absent => OnDisk(g[p])
  /\ agent # Absent => OnDisk(agent.content)

\* What write requests under way take to the path p.
OnTheWayTo(p) == UNION {w.content : w \in {v \in puts : v.path = p}}

\* UnsavedIsShown, with the writes that will make this path dirty if they fail.
UnsavedInv ==
  openPath # NoPath /\ openPath \notin dirty /\ ~Moving
    => editor[openPath] \subseteq {AgentEdit} \cup landed \cup stray \cup OnTheWayTo(openPath)

\* What is under way for a path that the notebook has left is late.
LateInv ==
  /\ \A w \in puts : w.path \in gone => w.late
  /\ \A m \in moves : m.to \in gone => m.late

OpenInv == openPath # NoPath => editor[openPath] \in Contents

FileInv == FileTypeOK /\ OpenInv /\ UnsentEditsAreDue /\ UnsavedInv /\ FilesAreSent /\ LateInv

LEMMA FileInitInv ==
  ASSUME FileInit
  PROVE  FileInv
<1>1. AtHome \in [Paths -> File] /\ AtHome[Home] = {} /\ {} \in Contents
      /\ \A p \in Paths : AtHome[p] = {} \/ AtHome[p] = Absent
  BY HomeAssumption DEF AtHome, File, Contents
<1>2. FileTypeOK
  BY <1>1, HomeAssumption, FileBoundsAssumption DEF FileInit, FileTypeOK, File
<1>3. OpenInv /\ UnsentEditsAreDue /\ UnsavedInv
  BY <1>1 DEF FileInit, OpenInv, UnsentEditsAreDue, UnsavedInv
<1>4. FilesAreSent /\ LateInv
  BY <1>1 DEF FileInit, FilesAreSent, LateInv, OnDisk
<1> QED BY <1>2, <1>3, <1>4 DEF FileInv

\* A notebook leaves its path.
LEMMA LeftFacts ==
  ASSUME FileInv, NEW p \in Paths, puts' = LatePuts(p)
  PROVE  /\ puts' \subseteq Write
         /\ \A w \in puts' : w.path = p => w.late
         /\ \A w \in puts' : \E v \in puts : w.path = v.path /\ w.content = v.content
                                             /\ (v.late => w.late)
<1>1. puts \subseteq Write
  BY DEF FileInv, FileTypeOK, Write
<1>2. ASSUME NEW v \in puts
      PROVE  /\ [v EXCEPT !.late = @ \/ v.path = p] \in Write
             /\ [v EXCEPT !.late = @ \/ v.path = p].path = v.path
             /\ [v EXCEPT !.late = @ \/ v.path = p].content = v.content
             /\ [v EXCEPT !.late = @ \/ v.path = p].late = (v.late \/ v.path = p)
  BY <1>1 DEF Write
<1>3. puts' = {[v EXCEPT !.late = @ \/ v.path = p] : v \in puts}
  BY DEF LatePuts
<1>4. ASSUME NEW w \in puts'
      PROVE  /\ w \in Write /\ (w.path = p => w.late)
             /\ \E v \in puts : w.path = v.path /\ w.content = v.content /\ (v.late => w.late)
  <2>1. PICK v \in puts : w = [v EXCEPT !.late = @ \/ v.path = p]
    BY <1>3
  <2> QED BY <1>2, <2>1
<1> QED BY <1>1, <1>3, <1>4

\* The renames under way when the notebook leaves the path p.
LEMMA MovesLeft ==
  ASSUME FileInv, NEW p \in Paths, NEW ms,
         ms = LateMoves(p)
  PROVE  /\ ms \subseteq Move
         /\ \A m \in ms : m.to = p \/ m.to \in gone => m.late
<1>1. moves \subseteq Move
  BY DEF FileInv, FileTypeOK, Move
<1>2. ASSUME NEW m \in moves
      PROVE  /\ [m EXCEPT !.late = @ \/ m.to = p] \in Move
             /\ [m EXCEPT !.late = @ \/ m.to = p].to = m.to
             /\ [m EXCEPT !.late = @ \/ m.to = p].late = (m.late \/ m.to = p)
  BY <1>1 DEF Move
<1>3. \A m \in moves : m.to \in gone => m.late
  BY DEF FileInv, LateInv
<1>4. ASSUME NEW k \in ms
      PROVE  k \in Move /\ (k.to = p \/ k.to \in gone => k.late)
  <2>1. PICK m \in moves : k = [m EXCEPT !.late = @ \/ m.to = p]
    BY DEF LateMoves
  <2> QED BY <1>2, <1>3, <2>1
<1> QED BY <1>4

-----------------------------------------------------------------------------
(* Project files: steps *)

\* The notebook with one more edit, of the user's or by an undo.
LEMMA EditNotebookStep ==
  ASSUME FileInv, EditNotebook \/ UndoEdit
  PROVE  FileInv'
<1> USE DEF FileInv
<1>1. PICK e \in Contents : e = editor[openPath] \cup {fileEdits + 1}
  <2>1. editor[openPath] \in SUBSET (0..MaxFileEdits)
    BY DEF EditNotebook, UndoEdit, OpenInv, Contents
  <2>2. fileEdits + 1 \in 0..MaxFileEdits
    BY FileBoundsAssumption DEF EditNotebook, UndoEdit, FileTypeOK
  <2>3. editor[openPath] \cup {fileEdits + 1} \in Contents
    BY <2>1, <2>2 DEF Contents
  <2> QED BY <2>3
<1>2. /\ openPath \in Paths /\ editor' = [editor EXCEPT ![openPath] = e]
      /\ fileEdits' = fileEdits + 1 /\ fileEdits < MaxFileEdits
      /\ saveTimers' \subseteq saveTimers \cup {openPath}
      /\ dirty' \subseteq dirty \cup {openPath}
      /\ stray' \subseteq stray \cup {fileEdits + 1}
      /\ UNCHANGED <<openPath, disk, puts, moves, removals, listings, agent, fileOps, carried,
                     landed, gone>>
  BY <1>1 DEF EditNotebook, UndoEdit, FileTypeOK
<1>3. FileTypeOK'
  BY <1>2, FileBoundsAssumption DEF FileTypeOK
<1>4. OpenInv'
  BY <1>2 DEF OpenInv, FileTypeOK
<1>5. FilesAreSent' /\ LateInv'
  BY <1>2 DEF FilesAreSent, LateInv, Sent, OnDisk
<1>6. UnsentEditsAreDue' /\ UnsavedInv'
  <2>1. CASE EditNotebook
    BY <1>2, <2>1 DEF EditNotebook, UnsentEditsAreDue, UnsavedInv
  <2>2. CASE UndoEdit
    <3>1. stray' = stray \cup {fileEdits + 1} /\ saveTimers' = saveTimers /\ dirty' = dirty
      BY <2>2 DEF UndoEdit
    <3>2. editor'[openPath] = editor[openPath] \cup {fileEdits + 1}
          /\ Moving' = Moving /\ OnTheWayTo(openPath)' = OnTheWayTo(openPath)
      BY <1>1, <1>2 DEF FileTypeOK, Moving, OnTheWayTo
    <3>3. Unsent' \ stray' \subseteq Unsent \ stray
      BY <1>2, <3>1 DEF Unsent, FileTypeOK
    <3>4. UnsentEditsAreDue'
      BY <1>2, <3>1, <3>2, <3>3 DEF UnsentEditsAreDue
    <3>5. UnsavedInv'
      BY <1>2, <3>1, <3>2 DEF UnsavedInv
    <3> QED BY <3>4, <3>5
  <2> QED BY <2>1, <2>2
<1> QED BY <1>3, <1>4, <1>5, <1>6

LEMMA SaveFiresStep ==
  ASSUME FileInv, NEW p \in Paths, SaveFires(p)
  PROVE  FileInv'
<1> USE DEF FileInv
<1>1. /\ saveTimers' = saveTimers \ {p} /\ dirty' = dirty \ {p} /\ stray' = Strays(p)
      /\ UNCHANGED <<openPath, editor, disk, moves, removals, listings, agent, fileEdits, fileOps,
                     landed, gone>>
  BY DEF SaveFires
<1>2. Moving' = Moving /\ stray' \subseteq stray /\ (p # openPath => stray' = stray)
  BY <1>1 DEF Moving, Strays
<1>3. CASE editor[p] = Absent
  <2>1. UNCHANGED <<puts, carried>>
    BY <1>3 DEF SaveFires
  <2>2. FileTypeOK' /\ OpenInv' /\ LateInv' /\ FilesAreSent'
    BY <1>1, <1>2, <2>1 DEF FileTypeOK, OpenInv, LateInv, FilesAreSent, Sent, OnDisk
  <2>3. p # openPath \/ openPath = NoPath
    BY <1>3, AbsentAssumption DEF OpenInv
  <2>4. UnsentEditsAreDue'
    BY <1>1, <1>2, <2>1, <2>3 DEF UnsentEditsAreDue, Unsent
  <2>5. UnsavedInv'
    BY <1>1, <1>2, <2>1, <2>3 DEF UnsavedInv, OnTheWayTo
  <2> QED BY <2>2, <2>4, <2>5
<1>4. CASE editor[p] # Absent
  <2>1. PICK c \in Contents : c = editor[p]
    BY <1>4 DEF FileTypeOK
  <2>2. PICK w : w = [path |-> p, content |-> c, late |-> p \in gone]
    OBVIOUS
  <2>3. puts' = puts \cup {w} /\ carried' = carried \cup (c \ {AgentEdit})
    BY <1>4, <2>1, <2>2 DEF SaveFires
  <2>4. w \in Write /\ w.path = p /\ w.content = c /\ w.late = (p \in gone)
    BY <2>2 DEF Write
  <2>5. carried' \subseteq 1..MaxFileEdits
    <3>1. c \subseteq 0..MaxFileEdits
      BY DEF Contents
    <3>2. c \ {AgentEdit} \subseteq 1..MaxFileEdits
      BY <3>1, FileBoundsAssumption DEF AgentEdit
    <3> QED BY <2>3, <3>2 DEF FileTypeOK
  <2>6. FileTypeOK' /\ OpenInv'
    BY <1>1, <1>2, <2>3, <2>4, <2>5 DEF FileTypeOK, OpenInv, Write
  <2>7. LateInv'
    BY <1>1, <2>3, <2>4 DEF LateInv
  <2>8. \A d : (Sent(d) => Sent(d)') /\ (OnDisk(d) => OnDisk(d)')
    BY <1>1, <2>3 DEF Sent, OnDisk
  <2>9. Sent(c)'
    BY <2>3 DEF Sent
  <2>10. FilesAreSent'
    BY <1>1, <2>3, <2>4, <2>8, <2>9 DEF FilesAreSent
  <2>11. CASE p = openPath
    <3>1. c \cap Unsent' = {}
      BY <2>3 DEF Unsent, AgentEdit
    <3>2. UnsentEditsAreDue'
      BY <1>1, <2>1, <2>11, <3>1 DEF UnsentEditsAreDue
    <3>3. c \subseteq OnTheWayTo(p)'
      BY <2>3, <2>4 DEF OnTheWayTo
    <3>4. UnsavedInv'
      BY <1>1, <2>1, <2>11, <3>3 DEF UnsavedInv
    <3> QED BY <2>6, <2>7, <2>10, <3>2, <3>4
  <2>12. CASE p # openPath
    <3>1. Unsent' \subseteq Unsent
      BY <1>1, <2>3 DEF Unsent
    <3>2. UnsentEditsAreDue'
      BY <1>1, <1>2, <2>12, <3>1 DEF UnsentEditsAreDue
    <3>3. OnTheWayTo(openPath) \subseteq OnTheWayTo(openPath)'
      BY <1>1, <2>3 DEF OnTheWayTo
    <3>4. UnsavedInv'
      BY <1>1, <1>2, <2>12, <3>3 DEF UnsavedInv
    <3> QED BY <2>6, <2>7, <2>10, <3>2, <3>4
  <2> QED BY <2>11, <2>12
<1> QED BY <1>3, <1>4

\* An answer to a write request, and the write itself.
LEMMA PutStep ==
  ASSUME FileInv, NEW w \in puts, PutLands(w) \/ PutFails(w)
  PROVE  FileInv'
<1> USE DEF FileInv
<1>1. w \in Write /\ Sent(w.content)
  BY DEF FileTypeOK, FilesAreSent, Write
<1>2. /\ puts' = puts \ {w} /\ dirty \subseteq dirty' /\ dirty' \subseteq dirty \cup {w.path}
      /\ \/ disk' = disk /\ landed' = landed /\ w.path \in dirty'
         \/ /\ disk' = [disk EXCEPT ![w.path] = w.content]
            /\ landed' = landed \cup (w.content \ {AgentEdit})
      /\ UNCHANGED <<openPath, editor, saveTimers, moves, removals, listings, agent, fileEdits,
                     fileOps, carried, stray, gone>>
  BY DEF PutLands, PutFails
<1>3. w.content \subseteq 0..MaxFileEdits /\ w.content \ {AgentEdit} \subseteq 1..MaxFileEdits
  BY <1>1, FileBoundsAssumption DEF Write, Contents, AgentEdit
<1>4. FileTypeOK'
  BY <1>1, <1>2, <1>3 DEF FileTypeOK, Write
<1>5. OpenInv' /\ LateInv' /\ UnsentEditsAreDue' /\ Moving' = Moving
  BY <1>2 DEF OpenInv, LateInv, UnsentEditsAreDue, Unsent, Moving
<1>6. FilesAreSent'
  <2>1. \A d : (Sent(d) => Sent(d)') /\ (OnDisk(d) => OnDisk(d)')
    BY <1>2 DEF Sent, OnDisk
  <2>2. landed' \subseteq carried'
    BY <1>1, <1>2 DEF FilesAreSent, Sent
  <2>3. \A p \in Paths : disk'[p] = disk[p] \/ (disk'[p] = w.content /\ OnDisk(w.content)')
    BY <1>2 DEF FileTypeOK, OnDisk
  <2> QED BY <1>1, <1>2, <2>1, <2>2, <2>3 DEF FilesAreSent
<1>7. UnsavedInv'
  <2> SUFFICES ASSUME openPath # NoPath, openPath \notin dirty', ~Moving
               PROVE  editor[openPath] \subseteq
                        {AgentEdit} \cup landed' \cup stray \cup OnTheWayTo(openPath)'
    BY <1>2, <1>5 DEF UnsavedInv
  <2>1. editor[openPath] \subseteq {AgentEdit} \cup landed \cup stray \cup OnTheWayTo(openPath)
    BY <1>2 DEF UnsavedInv
  <2>2. landed \subseteq landed'
    BY <1>2
  <2>3. OnTheWayTo(openPath) \subseteq OnTheWayTo(openPath)' \cup {AgentEdit} \cup landed'
    <3>1. CASE w.path = openPath
      <4>1. w.content \subseteq {AgentEdit} \cup landed'
        BY <1>2, <3>1
      <4> QED BY <1>2, <4>1 DEF OnTheWayTo
    <3>2. CASE w.path # openPath
      BY <1>2, <3>2 DEF OnTheWayTo
    <3> QED BY <3>1, <3>2
  <2> QED BY <2>1, <2>2, <2>3
<1> QED BY <1>4, <1>5, <1>6, <1>7

\* The notebook has another path, by its own rename or by its folder's.
LEMMA RepathStep ==
  ASSUME FileInv, NEW p \in Paths, Rename(p) \/ RenameFolder(p)
  PROVE  FileInv'
<1> USE DEF FileInv
<1>1. PICK o \in Paths, folder \in BOOLEAN :
        /\ o = openPath /\ openPath # NoPath /\ Repath(p, folder)
        /\ ~folder \/ RenameFolder(p)
        /\ Rename(p) \/ RenameFolder(p)
  BY DEF Rename, RenameFolder, Repath, FileTypeOK
<1>2. PICK m : m = [n |-> fileOps + 1, from |-> o, to |-> p, at |-> "sent", late |-> FALSE,
                    folder |-> folder]
  OBVIOUS
<1>3. PICK ms : ms = LateMoves(o)
  OBVIOUS
<1>4. /\ p # o /\ puts' = LatePuts(o) /\ openPath' = p /\ moves' = ms \cup {m}
      /\ editor' = [editor EXCEPT ![p] = editor[o], ![o] = Absent]
      /\ fileOps < MaxFileOps /\ fileOps' = fileOps + 1
      /\ gone' = (gone \cup {o}) \ {p}
      /\ UNCHANGED <<disk, dirty, removals, listings, agent, fileEdits, carried, landed>>
  BY <1>1, <1>2, <1>3 DEF Repath
<1>5. m \in Move /\ m.to = p /\ m.folder = folder
  BY <1>1, <1>2 DEF Move, FileTypeOK
<1>6. /\ ms \subseteq Move
      /\ \A k \in ms : k.to = o \/ k.to \in gone => k.late
  BY <1>3, MovesLeft
<1>7. /\ puts' \subseteq Write
      /\ \A w \in puts' : w.path = o => w.late
      /\ \A w \in puts' : \E v \in puts : w.path = v.path /\ w.content = v.content
                                          /\ (v.late => w.late)
  BY <1>4, LeftFacts
<1>8. editor'[p] = editor[o] /\ editor[o] \in Contents
  BY <1>1, <1>4 DEF FileTypeOK, OpenInv
<1>9. editor[o] \ ({AgentEdit} \cup landed) \subseteq 1..MaxFileEdits
  BY <1>8, FileBoundsAssumption DEF Contents, AgentEdit
<1>10. FileTypeOK'
  <2>1. fileOps' \in 0..MaxFileOps
    BY <1>4, FileBoundsAssumption DEF FileTypeOK
  <2>2. saveTimers' \subseteq Paths /\ stray' \subseteq 1..MaxFileEdits
    BY <1>1, <1>9 DEF Rename, RenameFolder, FileTypeOK
  <2>3. moves' \subseteq [n : Nat, from : Paths, to : Paths, at : {"sent", "moved", "refused"},
                          late : BOOLEAN, folder : BOOLEAN]
    BY <1>4, <1>5, <1>6 DEF Move
  <2> QED BY <1>4, <1>7, <2>1, <2>2, <2>3 DEF FileTypeOK, Write
<1>11. OpenInv'
  BY <1>4, <1>8 DEF OpenInv
<1>12. FilesAreSent'
  BY <1>4, <1>7 DEF FilesAreSent, Sent, OnDisk
<1>13. LateInv'
  <2>1. \A w \in puts' : w.path \in gone' => w.late
    BY <1>4, <1>7 DEF LateInv
  <2>2. \A k \in moves' : k.to \in gone' => k.late
    BY <1>4, <1>5, <1>6
  <2> QED BY <2>1, <2>2 DEF LateInv
<1>14. UnsentEditsAreDue' /\ UnsavedInv'
  <2>1. CASE ~folder
    <3>1. Moving'
      BY <1>4, <1>5, <2>1 DEF Moving
    <3> QED BY <3>1 DEF UnsentEditsAreDue, UnsavedInv
  <2>2. CASE RenameFolder(p)
    <3>1. editor'[p] \subseteq {AgentEdit} \cup landed \cup stray'
      BY <1>1, <1>8, <2>2 DEF RenameFolder
    <3>2. editor'[p] \cap (Unsent' \ stray') = {}
      <4>1. Unsent' \cap landed = {} /\ AgentEdit \notin Unsent'
        BY <1>4 DEF Unsent, FilesAreSent, AgentEdit
      <4> QED BY <3>1, <4>1
    <3> QED BY <1>4, <3>1, <3>2 DEF UnsentEditsAreDue, UnsavedInv
  <2> QED BY <1>1, <2>1, <2>2
<1> QED BY <1>10, <1>11, <1>12, <1>13, <1>14

LEMMA DeleteNotebookStep ==
  ASSUME FileInv, DeleteNotebook
  PROVE  FileInv'
<1> USE DEF FileInv
<1>1. PICK o \in Paths : o = openPath
  BY DEF DeleteNotebook, FileTypeOK
<1>2. /\ puts' = LatePuts(o) /\ openPath' = NoPath /\ editor' = [editor EXCEPT ![o] = Absent]
      /\ saveTimers' = saveTimers \ {o} /\ moves' = LateMoves(o)
      /\ removals' = removals \cup {o} /\ gone' = gone \cup {o}
      /\ UNCHANGED <<disk, dirty, listings, agent, fileEdits, fileOps, carried, landed, stray>>
  BY <1>1 DEF DeleteNotebook
<1>3. PICK ms : ms = LateMoves(o)
  OBVIOUS
<1>4. moves' \subseteq Move /\ \A k \in moves' : k.to = o \/ k.to \in gone => k.late
  <2>1. ms \subseteq Move /\ \A k \in ms : k.to = o \/ k.to \in gone => k.late
    BY <1>3, MovesLeft
  <2> QED BY <1>2, <1>3, <2>1
<1>5. /\ puts' \subseteq Write
      /\ \A w \in puts' : w.path = o => w.late
      /\ \A w \in puts' : \E v \in puts : w.path = v.path /\ w.content = v.content
                                          /\ (v.late => w.late)
  BY <1>2, LeftFacts
<1>6. FileTypeOK'
  BY <1>2, <1>4, <1>5 DEF FileTypeOK, Move, Write
<1>7. OpenInv' /\ UnsentEditsAreDue' /\ UnsavedInv'
  BY <1>2 DEF OpenInv, UnsentEditsAreDue, UnsavedInv
<1>8. FilesAreSent'
  BY <1>2, <1>5 DEF FilesAreSent, Sent, OnDisk
<1>9. LateInv'
  BY <1>2, <1>4, <1>5 DEF LateInv
<1> QED BY <1>6, <1>7, <1>8, <1>9

\* The server handles a rename request: the request is gone or has its answer.
LEMMA AnsweredFacts ==
  ASSUME FileInv, NEW m \in moves, NEW a \in {"moved", "refused"}, Answered(m, a)
  PROVE  /\ moves' \subseteq Move
         /\ \A k \in moves' : k \in moves \/ (k.to = m.to /\ k.late = m.late)
         /\ Moving' <=> \E k \in moves : k.to = openPath' /\ ~k.folder
<1>1. moves \subseteq Move /\ m \in Move
  BY DEF FileInv, FileTypeOK, Move
<1>2. CASE m.folder
  <2>1. moves' = moves \ {m}
    BY <1>2 DEF Answered
  <2>2. Moving' <=> \E k \in moves : k.to = openPath' /\ ~k.folder
    <3>1. Moving' <=> \E k \in moves \ {m} : k.to = openPath' /\ ~k.folder
      BY <2>1 DEF Moving
    <3> QED BY <1>2, <3>1
  <2> QED BY <1>1, <2>1, <2>2
<1>3. CASE ~m.folder
  <2>1. PICK k \in Move : /\ k.to = m.to /\ k.late = m.late /\ ~k.folder
                          /\ moves' = (moves \ {m}) \cup {k}
    <3>1. /\ [m EXCEPT !.at = a] \in Move /\ [m EXCEPT !.at = a].to = m.to
          /\ [m EXCEPT !.at = a].late = m.late /\ [m EXCEPT !.at = a].folder = m.folder
      BY <1>1 DEF Move
    <3> QED BY <1>3, <3>1 DEF Answered
  <2>2. Moving' <=> \E j \in moves : j.to = openPath' /\ ~j.folder
    <3>1. Moving' <=> \E j \in (moves \ {m}) \cup {k} : j.to = openPath' /\ ~j.folder
      BY <2>1 DEF Moving
    <3> QED BY <1>3, <2>1, <3>1
  <2> QED BY <1>1, <2>1, <2>2
<1> QED BY <1>2, <1>3

LEMMA MoveStep ==
  ASSUME FileInv, NEW m \in moves, MoveLands(m) \/ MoveFails(m)
  PROVE  FileInv'
<1> USE DEF FileInv
<1>1. m \in Move
  BY DEF FileTypeOK, Move
<1>2. /\ disk' = disk \/ disk' = [disk EXCEPT ![m.to] = disk[m.from], ![m.from] = Absent]
      /\ UNCHANGED <<openPath, editor, saveTimers, dirty, puts, removals, listings, agent,
                     fileEdits, fileOps, carried, landed, stray, gone>>
  BY DEF MoveLands, MoveFails
<1>3. /\ moves' \subseteq Move
      /\ \A k \in moves' : k \in moves \/ (k.to = m.to /\ k.late = m.late)
      /\ Moving' <=> Moving
  BY <1>2, AnsweredFacts DEF MoveLands, MoveFails, Moving
<1>4. /\ disk' \in [Paths -> File]
      /\ \A p \in Paths : disk'[p] = Absent \/ \E q \in Paths : disk'[p] = disk[q]
  BY <1>1, <1>2 DEF FileTypeOK, File, Move
<1>5. FileTypeOK'
  BY <1>2, <1>3, <1>4 DEF FileTypeOK, File, Move
<1>6. OpenInv' /\ LateInv'
  BY <1>2, <1>3 DEF OpenInv, LateInv
<1>7. UnsentEditsAreDue' /\ UnsavedInv'
  BY <1>2, <1>3 DEF UnsentEditsAreDue, Unsent, UnsavedInv, OnTheWayTo
<1>8. FilesAreSent'
  BY <1>2, <1>4 DEF FilesAreSent, Sent, OnDisk
<1> QED BY <1>5, <1>6, <1>7, <1>8

\* The answer to a rename arrives.
LEMMA MoveReturnsStep ==
  ASSUME FileInv, NEW m \in moves, MoveReturns(m)
  PROVE  FileInv'
<1> USE DEF FileInv
<1>1. /\ m \in Move /\ moves' = moves \ {m} /\ stray' = Strays(m.to)
      /\ saveTimers' = saveTimers \cup {m.to} /\ dirty' = dirty \cup {m.to}
      /\ UNCHANGED <<openPath, editor, disk, puts, removals, listings, agent, fileEdits, fileOps,
                     carried, landed, gone>>
  BY DEF MoveReturns, FileTypeOK, Move
<1>2. stray' \subseteq stray
  BY <1>1 DEF Strays
<1>3. FileTypeOK' /\ OpenInv' /\ LateInv' /\ FilesAreSent'
  BY <1>1, <1>2 DEF FileTypeOK, OpenInv, LateInv, FilesAreSent, Sent, OnDisk, Move
<1>4. CASE m.to = openPath
  <2>1. UnsentEditsAreDue' /\ UnsavedInv'
    BY <1>1, <1>4 DEF UnsentEditsAreDue, UnsavedInv
  <2> QED BY <1>3, <2>1
<1>5. CASE m.to # openPath
  <2>1. stray' = stray /\ Moving' = Moving /\ Unsent' = Unsent
        /\ OnTheWayTo(openPath)' = OnTheWayTo(openPath)
    BY <1>1, <1>5 DEF Strays, Moving, Unsent, OnTheWayTo
  <2>2. UnsentEditsAreDue' /\ UnsavedInv'
    BY <1>1, <1>5, <2>1 DEF UnsentEditsAreDue, UnsavedInv
  <2> QED BY <1>3, <2>2
<1> QED BY <1>4, <1>5

\* What a reload has for the notebook that is open.
LEMMA MergedOpen ==
  ASSUME FileInv, NEW g \in listings, openPath # NoPath
  PROVE  /\ Merged(openPath, g) \in Contents
         /\ \/ Merged(openPath, g) = editor[openPath]
            \/ openPath \notin saveTimers /\ OnDisk(Merged(openPath, g))
<1>1. openPath \in Paths /\ editor[openPath] \in Contents /\ editor[openPath] # Absent
      /\ g \in [Paths -> File]
  BY AbsentAssumption DEF FileInv, FileTypeOK, OpenInv, File
<1>2. g[openPath] # Absent => g[openPath] \in Contents /\ OnDisk(g[openPath])
  BY <1>1 DEF FileInv, FilesAreSent, File
<1> QED BY <1>1, <1>2 DEF Merged

LEMMA ReloadAppliesStep ==
  ASSUME FileInv, NEW g \in listings, ReloadApplies(g)
  PROVE  FileInv'
<1> USE DEF FileInv
<1>1. /\ listings' = listings \ {g} /\ editor' = [p \in Paths |-> Merged(p, g)]
      /\ UNCHANGED <<openPath, disk, saveTimers, dirty, puts, moves, removals, agent, fileEdits,
                     fileOps, carried, landed, stray, gone>>
  BY DEF ReloadApplies
<1>2. \A p \in Paths : Merged(p, g) \in File
  <2>1. g \in [Paths -> File] /\ editor \in [Paths -> File]
    BY DEF FileTypeOK, File
  <2> QED BY <2>1 DEF Merged, File
<1>3. FileTypeOK'
  BY <1>1, <1>2 DEF FileTypeOK, File
<1>4. OpenInv'
  BY <1>1, MergedOpen DEF OpenInv, FileTypeOK
<1>5. UnsentEditsAreDue'
  <2> SUFFICES ASSUME openPath # NoPath, Merged(openPath, g) \cap (Unsent \ stray) # {}
               PROVE  openPath \in saveTimers \/ Moving
    BY <1>1 DEF UnsentEditsAreDue, Unsent, Moving, FileTypeOK
  <2>1. \A c : OnDisk(c) => c \cap Unsent = {}
    BY DEF OnDisk, FilesAreSent, Unsent, AgentEdit
  <2> QED BY <2>1, MergedOpen DEF UnsentEditsAreDue
<1>6. UnsavedInv'
  <2> SUFFICES ASSUME openPath # NoPath, openPath \notin dirty, ~Moving
               PROVE  Merged(openPath, g) \subseteq
                        {AgentEdit} \cup landed \cup stray \cup OnTheWayTo(openPath)
    BY <1>1 DEF UnsavedInv, Moving, OnTheWayTo, FileTypeOK
  <2> QED BY MergedOpen DEF UnsavedInv, OnDisk
<1>7. FilesAreSent' /\ LateInv'
  BY <1>1 DEF FilesAreSent, Sent, OnDisk, LateInv
<1> QED BY <1>3, <1>4, <1>5, <1>6, <1>7

\* Steps that leave the editor and its requests: an unlink, a listing that is
\* read, the agent.
LEMMA DiskStep ==
  ASSUME FileInv,
         \/ \E p \in Paths : RemovalLands(p) \/ AgentReads(p)
         \/ ReloadReads \/ AgentWrites
  PROVE  FileInv'
<1> USE DEF FileInv
<1>1. UNCHANGED <<openPath, editor, saveTimers, dirty, puts, moves, fileEdits, carried,
                landed, stray, gone>>
  BY DEF RemovalLands, AgentReads, ReloadReads, AgentWrites
<1>2. OpenInv' /\ LateInv' /\ UnsentEditsAreDue' /\ UnsavedInv'
  BY <1>1 DEF OpenInv, LateInv, UnsentEditsAreDue, Unsent, Moving, UnsavedInv, OnTheWayTo
<1>3. \A c : (Sent(c) => Sent(c)') /\ (OnDisk(c) => OnDisk(c)')
  BY <1>1 DEF Sent, OnDisk
<1>4. CASE \E p \in Paths : RemovalLands(p)
  <2>1. PICK p \in Paths : RemovalLands(p)
    BY <1>4
  <2>2. /\ disk' \in [Paths -> File] /\ \A q \in Paths : disk'[q] = disk[q] \/ disk'[q] = Absent
        /\ removals' \subseteq Paths /\ UNCHANGED <<listings, agent, fileOps>>
    BY <2>1 DEF RemovalLands, FileTypeOK, File
  <2>3. FileTypeOK'
    BY <1>1, <2>2 DEF FileTypeOK, File
  <2>4. FilesAreSent'
    BY <1>1, <1>3, <2>2 DEF FilesAreSent
  <2> QED BY <1>2, <2>3, <2>4
<1>5. CASE \E p \in Paths : AgentReads(p)
  <2>1. PICK p \in Paths : AgentReads(p)
    BY <1>5
  <2>2. PICK c \in Contents : c = disk[p] /\ OnDisk(c)
    BY <2>1 DEF AgentReads, FileTypeOK, FilesAreSent
  <2>3. /\ agent' = [path |-> p, content |-> c] /\ fileOps' \in 0..MaxFileOps
        /\ UNCHANGED <<disk, removals, listings>>
    BY <2>1, <2>2, FileBoundsAssumption DEF AgentReads, FileTypeOK
  <2>4. FileTypeOK'
    BY <1>1, <2>3 DEF FileTypeOK
  <2>5. FilesAreSent'
    BY <1>1, <1>3, <2>2, <2>3 DEF FilesAreSent
  <2> QED BY <1>2, <2>4, <2>5
<1>6. CASE ReloadReads
  <2>1. FileTypeOK' /\ FilesAreSent'
    BY <1>1, <1>3, <1>6 DEF ReloadReads, FileTypeOK, FilesAreSent
  <2> QED BY <1>2, <2>1
<1>7. CASE AgentWrites
  <2>1. PICK a \in [path : Paths, content : Contents] : a = agent /\ OnDisk(a.content)
    BY <1>7 DEF AgentWrites, FileTypeOK, FilesAreSent
  <2>2. PICK c \in Contents : c = a.content \cup {AgentEdit} /\ OnDisk(c)
    <3>1. a.content \in SUBSET (0..MaxFileEdits) /\ 0 \in 0..MaxFileEdits
      BY FileBoundsAssumption DEF Contents
    <3>2. a.content \cup {0} \in Contents
      BY <3>1 DEF Contents
    <3> QED BY <2>1, <3>2 DEF AgentEdit, OnDisk
  <2>3. /\ disk' \in [Paths -> File] /\ \A q \in Paths : disk'[q] = disk[q] \/ disk'[q] = c
        /\ agent' = Absent /\ UNCHANGED <<removals, listings, fileOps>>
    <3>1. disk' = disk \/ disk' = [disk EXCEPT ![a.path] = c]
      BY <1>7, <2>1, <2>2 DEF AgentWrites
    <3>2. a.path \in Paths /\ disk \in [Paths -> File] /\ c \in File
      BY DEF FileTypeOK, File
    <3>3. agent' = Absent /\ UNCHANGED <<removals, listings, fileOps>>
      BY <1>7 DEF AgentWrites
    <3> QED BY <3>1, <3>2, <3>3
  <2>4. FileTypeOK'
    BY <1>1, <2>3 DEF FileTypeOK, File
  <2>5. FilesAreSent'
    BY <1>1, <1>3, <2>2, <2>3 DEF FilesAreSent
  <2> QED BY <1>2, <2>4, <2>5
<1> QED BY <1>4, <1>5, <1>6, <1>7

LEMMA FileNextInv ==
  ASSUME FileInv, FileNext
  PROVE  FileInv'
BY EditNotebookStep, SaveFiresStep, PutStep, RepathStep, DeleteNotebookStep, MoveStep,
   MoveReturnsStep, ReloadAppliesStep, DiskStep DEF FileNext

LEMMA FileStutterInv ==
  ASSUME FileInv, UNCHANGED fileVars
  PROVE  FileInv'
BY DEF fileVars, FileInv, FileTypeOK, OpenInv, UnsentEditsAreDue, Unsent, Moving, UnsavedInv,
       OnTheWayTo, FilesAreSent, Sent, OnDisk, LateInv

LEMMA FileInvariant == FileSpec => []FileInv
<1> QED BY FileInitInv, FileNextInv, FileStutterInv, PTL DEF FileSpec

\* Types: whatever is edited, saved, renamed, deleted and reloaded in whatever
\* order, the notebook, its file and the requests have the values the code gives them.
THEOREM FileTypes == FileSpec => []FileTypeOK
<1>1. FileInv => FileTypeOK
  BY DEF FileInv
<1> QED BY <1>1, FileInvariant, PTL

\* An edit that no write request has carried yet is due: a save is pending, or the
\* answer to a rename will start one - unless it is of an undo, or the notebook's
\* folder was renamed before a write took it to the disk.
THEOREM UnsentEditsGetTheirSave == FileSpec => []UnsentEditsAreDue
<1>1. FileInv => UnsentEditsAreDue
  BY DEF FileInv
<1> QED BY <1>1, FileInvariant, PTL

\* "A failed write must not leave the notebook falsely marked clean": while the editor
\* has an edit that no write took to the disk and none is taking there, the notebook
\* is dirty, or the answer to its rename will make it so; the same exceptions.
THEOREM UnsavedEditsAreShown == FileSpec => []UnsavedIsShown
<1>1. OnTheWayTo(openPath) \subseteq OnTheWay
  BY DEF OnTheWayTo, OnTheWay
<1>2. FileInv => UnsavedIsShown
  BY <1>1 DEF FileInv, UnsavedInv, UnsavedIsShown
<1> QED BY <1>2, FileInvariant, PTL

LEMMA UnsentEditsStep ==
  ASSUME FileInv, FileNext, openPath # NoPath, openPath' # NoPath, ~Moving
  PROVE  editor[openPath] \cap (Unsent \ stray) \subseteq editor'[openPath']
<1>1. openPath \in Paths
  BY DEF FileInv, FileTypeOK
<1>2. CASE EditNotebook \/ UndoEdit
  BY <1>1, <1>2 DEF EditNotebook, UndoEdit, FileInv, FileTypeOK
<1>3. ASSUME NEW p \in Paths, Rename(p) \/ RenameFolder(p)
      PROVE  editor[openPath] \cap (Unsent \ stray) \subseteq editor'[openPath']
  BY <1>1, <1>3 DEF Rename, RenameFolder, Repath, FileInv, FileTypeOK
<1>4. ASSUME NEW g \in listings, ReloadApplies(g)
      PROVE  editor[openPath] \cap (Unsent \ stray) \subseteq editor'[openPath']
  <2>1. editor'[openPath'] = Merged(openPath, g)
    BY <1>1, <1>4 DEF ReloadApplies
  <2>2. openPath \notin saveTimers => editor[openPath] \cap (Unsent \ stray) = {}
    BY DEF FileInv, UnsentEditsAreDue
  <2> QED BY <2>1, <2>2, MergedOpen
<1>5. CASE DeleteNotebook
  BY <1>5 DEF DeleteNotebook
<1>6. CASE UNCHANGED <<openPath, editor>>
  BY <1>6
<1> QED BY <1>2, <1>3, <1>4, <1>5, <1>6
        DEF FileNext, ReloadReads, AgentWrites, SaveFires, RemovalLands, AgentReads, PutLands,
            PutFails, MoveLands, MoveFails, MoveReturns

\* A reload never takes an edit that was not sent out of the editor, unless it comes
\* between a rename and its answer, or the edit is stray; nothing else takes one either.
THEOREM UnsentEditsAreKept == FileSpec => UnsentEditsStay
<1>1. FileInv /\ [FileNext]_fileVars =>
        [openPath # NoPath /\ openPath' # NoPath /\ ~Moving
           => editor[openPath] \cap (Unsent \ stray) \subseteq editor'[openPath']]_<<openPath, editor>>
  BY UnsentEditsStep DEF fileVars
<1> QED BY <1>1, FileInvariant, PTL DEF FileSpec, UnsentEditsStay

LEMMA GoneStep ==
  ASSUME FileInv, FileNext, NEW p \in gone, disk[p] = Absent, disk'[p] # Absent
  PROVE  \/ \E w \in puts \ puts' : w.path = p /\ w.late
         \/ \E m \in moves \ moves' : m.to = p /\ m.late
         \/ agent' # agent
<1>1. p \in Paths /\ disk \in [Paths -> File] /\ moves \subseteq Move /\ puts \subseteq Write
  BY DEF FileInv, FileTypeOK, File, Move, Write
<1>2. ASSUME NEW w \in puts, PutLands(w)
      PROVE  \E v \in puts \ puts' : v.path = p /\ v.late
  <2>1. w.path = p
    BY <1>1, <1>2 DEF PutLands
  <2>2. w \notin puts' /\ w.late
    BY <1>2, <2>1 DEF PutLands, FileInv, LateInv
  <2> QED BY <2>1, <2>2
<1>3. ASSUME NEW m \in moves, MoveLands(m)
      PROVE  \E k \in moves \ moves' : k.to = p /\ k.late
  <2>1. m.to = p
    BY <1>1, <1>3 DEF MoveLands
  <2>2. m.late
    BY <2>1 DEF FileInv, LateInv
  <2>3. [m EXCEPT !.at = "moved"] # m
    BY <1>1, <1>3 DEF MoveLands, Move
  <2>4. m \notin moves'
    BY <1>3, <2>3 DEF MoveLands, Answered
  <2> QED BY <2>1, <2>2, <2>4
<1>4. CASE AgentWrites
  BY <1>4 DEF AgentWrites
<1>5. ASSUME NEW q \in Paths, RemovalLands(q)
      PROVE  FALSE
  BY <1>1, <1>5 DEF RemovalLands
<1>6. CASE UNCHANGED disk
  BY <1>6
<1> QED BY <1>2, <1>3, <1>4, <1>5, <1>6
        DEF FileNext, EditNotebook, UndoEdit, DeleteNotebook, ReloadReads, SaveFires, Rename,
            RenameFolder, Repath, AgentReads, PutFails, MoveFails, MoveReturns, ReloadApplies

\* The file of a notebook that left its path comes back only by a request that was
\* under way then, by the agent, or with the notebook itself: no save timer that is
\* left over writes it again.
THEOREM GoneFilesStayGone == FileSpec => GoneStaysGone
<1>1. FileInv /\ [FileNext]_fileVars =>
        [\A p \in gone : disk[p] = Absent /\ disk'[p] # Absent =>
           \/ \E w \in puts \ puts' : w.path = p /\ w.late
           \/ \E m \in moves \ moves' : m.to = p /\ m.late
           \/ agent' # agent]_disk
  BY GoneStep DEF fileVars
<1> QED BY <1>1, FileInvariant, PTL DEF FileSpec, GoneStaysGone

-----------------------------------------------------------------------------
(* Undo and redo: the line of states *)

Here == Len(undos) + 1

\* The stacks together never pass the limit of one, so what undo and redo push is
\* never more than a stack holds.
UndoInv ==
  /\ UndoTypeOK
  /\ Len(undos) + Len(redos) <= HistoryDepth
  /\ OneChangePerUndo

LEMMA LineForm ==
  ASSUME UndoTypeOK
  PROVE  /\ DOMAIN Line = 1..(Here + Len(redos))
         /\ Here \in Nat /\ Len(redos) \in Nat
         /\ \A i \in 1..(Here + Len(redos)) :
              /\ Line[i] \in Snapshot
              /\ i < Here => i \in 1..Len(undos) /\ Line[i] = undos[i]
              /\ i = Here => Line[i] = cells
              /\ i > Here => /\ Here + Len(redos) + 1 - i \in 1..Len(redos)
                             /\ Line[i] = redos[Here + Len(redos) + 1 - i]
BY DEF UndoTypeOK, Line, Here

\* A stack and its top.
LEMMA PopFacts ==
  ASSUME NEW S, NEW s \in Seq(S), s # <<>>
  PROVE  /\ Pop(s) \in Seq(S) /\ Len(Pop(s)) = Len(s) - 1 /\ Len(s) \in Nat \ {0}
         /\ Top(s) \in S /\ Top(s) = s[Len(s)]
         /\ \A i \in 1..(Len(s) - 1) : Pop(s)[i] = s[i]
<1>1. Len(s) \in Nat \ {0}
  OBVIOUS
<1>2. /\ Pop(s) \in Seq(S) /\ Len(Pop(s)) = Len(s) - 1
      /\ \A i \in 1..(Len(s) - 1) : Pop(s)[i] = s[i]
  BY <1>1 DEF Pop
<1>3. s[Len(s)] \in S
  BY <1>1
<1> QED BY <1>1, <1>2, <1>3 DEF Top

\* A push that fits.
LEMMA PushFacts ==
  ASSUME NEW S, NEW s \in Seq(S), NEW x \in S, Len(s) < HistoryDepth
  PROVE  /\ Capped(Append(s, x)) \in Seq(S) /\ Len(Capped(Append(s, x))) = Len(s) + 1
         /\ Capped(Append(s, x))[Len(s) + 1] = x
         /\ \A i \in 1..Len(s) : Capped(Append(s, x))[i] = s[i]
BY DepthAssumption DEF Capped

\* How many states a push drops.
Dropped == IF Here > HistoryDepth THEN 1 ELSE 0

\* A push in general.
LEMMA DropFacts ==
  ASSUME UndoTypeOK, Len(undos) <= HistoryDepth
  PROVE  LET pushed == Capped(Append(undos, cells)) IN
         /\ pushed \in Seq(Snapshot) /\ Len(pushed) = Len(undos) + 1 - Dropped
         /\ Len(pushed) <= HistoryDepth
         /\ \A i \in 1..(Len(undos) + 1 - Dropped) :
              pushed[i] = IF i + Dropped = Len(undos) + 1 THEN cells ELSE undos[i + Dropped]
<1> DEFINE long == Append(undos, cells)
<1>1. /\ long \in Seq(Snapshot) /\ Len(long) = Len(undos) + 1 /\ Len(undos) \in Nat
      /\ \A i \in 1..(Len(undos) + 1) : long[i] = IF i = Len(undos) + 1 THEN cells ELSE undos[i]
  BY DEF UndoTypeOK
<1>2. CASE Len(undos) + 1 > HistoryDepth
  <2>1. /\ Tail(long) \in Seq(Snapshot) /\ Len(Tail(long)) = Len(undos)
        /\ \A i \in 1..Len(undos) : Tail(long)[i] = long[i + 1]
    BY <1>1
  <2> QED BY <1>1, <1>2, <2>1, DepthAssumption DEF Capped, Dropped, Here
<1>3. CASE ~(Len(undos) + 1 > HistoryDepth)
  BY <1>1, <1>3, DepthAssumption DEF Capped, Dropped, Here
<1> QED BY <1>2, <1>3

\* Undo goes one state back on the same line.
LEMMA UndoWalks ==
  ASSUME UndoInv, Undo
  PROVE  UndoTypeOK' /\ Line' = Line /\ Here' = Here - 1 /\ Here > 1
         /\ Len(undos') + Len(redos') <= HistoryDepth
<1> USE DEF UndoInv, Here
<1>1. /\ undos' \in Seq(Snapshot) /\ Len(undos') = Len(undos) - 1 /\ Len(undos) \in Nat \ {0}
      /\ cells' \in Snapshot /\ cells' = undos[Len(undos)]
      /\ \A i \in 1..(Len(undos) - 1) : undos'[i] = undos[i]
  BY PopFacts DEF Undo, UndoTypeOK
<1>2. Len(redos) < HistoryDepth /\ Len(redos) \in Nat
  BY <1>1, DepthAssumption DEF UndoTypeOK
<1>3. /\ redos' \in Seq(Snapshot) /\ Len(redos') = Len(redos) + 1
      /\ redos'[Len(redos) + 1] = cells
      /\ \A i \in 1..Len(redos) : redos'[i] = redos[i]
  BY <1>2, PushFacts DEF Undo, UndoTypeOK
<1>4. UndoTypeOK'
  BY <1>1, <1>3 DEF Undo, UndoTypeOK
<1>5. Line' = Line
  <2>1. Len(undos') + 1 + Len(redos') = Len(undos) + 1 + Len(redos)
    BY <1>1, <1>2, <1>3
  <2>2. ASSUME NEW i \in 1..(Len(undos) + 1 + Len(redos)) PROVE Line'[i] = Line[i]
    <3>1. Line'[i] = IF i < Len(undos') + 1 THEN undos'[i]
                     ELSE IF i = Len(undos') + 1 THEN cells'
                     ELSE redos'[Len(undos') + Len(redos') + 2 - i]
      BY <1>1, <1>2, <1>3, <2>1 DEF Line
    <3>2. Line[i] = IF i < Len(undos) + 1 THEN undos[i]
                    ELSE IF i = Len(undos) + 1 THEN cells
                    ELSE redos[Len(undos) + Len(redos) + 2 - i]
      BY <1>1, <1>2 DEF Line
    <3>3. CASE i < Len(undos)
      BY <1>1, <1>2, <1>3, <3>1, <3>2, <3>3
    <3>4. CASE i = Len(undos)
      BY <1>1, <1>2, <1>3, <3>1, <3>2, <3>4
    <3>5. CASE i = Len(undos) + 1
      BY <1>1, <1>2, <1>3, <3>1, <3>2, <3>5
    <3>6. CASE i > Len(undos) + 1
      BY <1>1, <1>2, <1>3, <3>1, <3>2, <3>6
    <3> QED BY <1>1, <1>2, <3>3, <3>4, <3>5, <3>6
  <2> QED BY <1>1, <1>2, <1>3, <2>1, <2>2 DEF Line
<1> QED BY <1>1, <1>2, <1>3, <1>4, <1>5

\* Redo goes one state forward on it.
LEMMA RedoWalks ==
  ASSUME UndoInv, Redo
  PROVE  UndoTypeOK' /\ Line' = Line /\ Here' = Here + 1 /\ Here + 1 <= Here + Len(redos)
         /\ Len(undos') + Len(redos') <= HistoryDepth
<1> USE DEF UndoInv, Here
<1>1. /\ redos' \in Seq(Snapshot) /\ Len(redos') = Len(redos) - 1 /\ Len(redos) \in Nat \ {0}
      /\ cells' \in Snapshot /\ cells' = redos[Len(redos)]
      /\ \A i \in 1..(Len(redos) - 1) : redos'[i] = redos[i]
  BY PopFacts DEF Redo, UndoTypeOK
<1>2. Len(undos) < HistoryDepth /\ Len(undos) \in Nat
  BY <1>1, DepthAssumption DEF UndoTypeOK
<1>3. /\ undos' \in Seq(Snapshot) /\ Len(undos') = Len(undos) + 1
      /\ undos'[Len(undos) + 1] = cells
      /\ \A i \in 1..Len(undos) : undos'[i] = undos[i]
  BY <1>2, PushFacts DEF Redo, UndoTypeOK
<1>4. UndoTypeOK'
  BY <1>1, <1>3 DEF Redo, UndoTypeOK
<1>5. Line' = Line
  <2>1. Len(undos') + 1 + Len(redos') = Len(undos) + 1 + Len(redos)
    BY <1>1, <1>2, <1>3
  <2>2. ASSUME NEW i \in 1..(Len(undos) + 1 + Len(redos)) PROVE Line'[i] = Line[i]
    <3>1. Line'[i] = IF i < Len(undos') + 1 THEN undos'[i]
                     ELSE IF i = Len(undos') + 1 THEN cells'
                     ELSE redos'[Len(undos') + Len(redos') + 2 - i]
      BY <1>1, <1>2, <1>3, <2>1 DEF Line
    <3>2. Line[i] = IF i < Len(undos) + 1 THEN undos[i]
                    ELSE IF i = Len(undos) + 1 THEN cells
                    ELSE redos[Len(undos) + Len(redos) + 2 - i]
      BY <1>1, <1>2 DEF Line
    <3>3. CASE i < Len(undos) + 1
      BY <1>1, <1>2, <1>3, <3>1, <3>2, <3>3
    <3>4. CASE i = Len(undos) + 1
      BY <1>1, <1>2, <1>3, <3>1, <3>2, <3>4
    <3>5. CASE i = Len(undos) + 1 + 1
      BY <1>1, <1>2, <1>3, <3>1, <3>2, <3>5
    <3>6. CASE i > Len(undos) + 1 + 1
      BY <1>1, <1>2, <1>3, <3>1, <3>2, <3>6
    <3> QED BY <1>1, <1>2, <3>3, <3>4, <3>5, <3>6
  <2> QED BY <1>1, <1>2, <1>3, <2>1, <2>2 DEF Line
<1> QED BY <1>1, <1>2, <1>3, <1>4, <1>5

\* A checkpoint ends the line at a new state, and drops its first state when it is full.
LEMMA CheckpointExtends ==
  ASSUME UndoInv, PushHistoryCheckpoint, cells' \in Snapshot
  PROVE  /\ undos' \in Seq(Snapshot) /\ redos' \in Seq(Snapshot)
         /\ Here' = Here + 1 - Dropped /\ Len(redos') = 0 /\ Len(undos') <= HistoryDepth
         /\ Line' = [i \in 1..Here' |-> IF i = Here' THEN cells' ELSE Line[i + Dropped]]
<1> USE DEF UndoInv, Here
<1>1. Len(undos) <= HistoryDepth /\ Len(undos) \in Nat /\ Len(redos) \in Nat
  BY DepthAssumption DEF UndoTypeOK
<1>2. /\ undos' \in Seq(Snapshot) /\ Len(undos') = Len(undos) + 1 - Dropped
      /\ Len(undos') <= HistoryDepth
      /\ \A i \in 1..(Len(undos) + 1 - Dropped) :
           undos'[i] = IF i + Dropped = Len(undos) + 1 THEN cells ELSE undos[i + Dropped]
  BY <1>1, DropFacts DEF PushHistoryCheckpoint
<1>3. redos' = <<>> /\ redos' \in Seq(Snapshot) /\ Len(redos') = 0
  BY DEF PushHistoryCheckpoint
<1>4. \A i \in 1..(Len(undos) + 1 - Dropped) : Line[i + Dropped] = undos'[i]
  BY <1>1, <1>2 DEF Line, Dropped
<1>5. Line' = [i \in 1..Here' |-> IF i = Here' THEN cells' ELSE Line[i + Dropped]]
  <2>1. Here' = Len(undos') + 1 /\ Len(undos') = Len(undos) + 1 - Dropped
        /\ Here' \in Nat /\ Len(redos') = 0
    BY <1>1, <1>2, <1>3 DEF Dropped
  <2>2. ASSUME NEW i \in 1..Here'
        PROVE  Line'[i] = IF i = Here' THEN cells' ELSE Line[i + Dropped]
    <3>1. CASE i = Here'
      BY <2>1, <3>1 DEF Line
    <3>2. CASE i < Here'
      <4>1. i \in 1..(Len(undos) + 1 - Dropped)
        BY <1>1, <2>1, <3>2 DEF Dropped
      <4>2. Line'[i] = undos'[i]
        BY <2>1, <3>2 DEF Line
      <4> QED BY <1>4, <2>1, <3>2, <4>1, <4>2
    <3> QED BY <2>1, <3>1, <3>2
  <2>3. Line' = [i \in 1..Here' |-> Line'[i]]
    BY <2>1 DEF Line
  <2> QED BY <2>2, <2>3
<1> QED BY <1>1, <1>2, <1>3, <1>5 DEF Dropped

\* Without one the present state changes in place.
LEMMA InPlaceAmends ==
  ASSUME UndoTypeOK, UNCHANGED <<undos, redos>>
  PROVE  Here' = Here /\ Line' = [Line EXCEPT ![Here] = cells']
<1>1. /\ Len(undos) \in Nat /\ Len(redos) \in Nat
      /\ Len(undos') = Len(undos) /\ Len(redos') = Len(redos)
  BY DEF UndoTypeOK
<1>2. ASSUME NEW i \in 1..(Len(undos) + 1 + Len(redos))
      PROVE  Line'[i] = IF i = Here THEN cells' ELSE Line[i]
  BY <1>1 DEF Line, Here
<1>3. /\ DOMAIN Line = 1..(Len(undos) + 1 + Len(redos))
      /\ DOMAIN Line' = DOMAIN Line
      /\ Line = [i \in DOMAIN Line |-> Line[i]]
      /\ Line' = [i \in DOMAIN Line |-> Line'[i]]
  BY <1>1 DEF Line
<1>4. Line' = [Line EXCEPT ![Here] = cells']
  BY <1>2, <1>3
<1> QED BY <1>1, <1>4 DEF Here

-----------------------------------------------------------------------------
(* Undo and redo: one structural change at a time *)

\* OneChangePerUndo between two states.
OneChange(a, b) ==
  ~a.moved /\ ~b.moved =>
    /\ a.inEffect \subseteq b.inEffect
    /\ \A m, n \in b.inEffect \ a.inEffect : m = n

LEMMA Neighbours ==
  ASSUME UndoTypeOK
  PROVE  OneChangePerUndo <=>
           \A i \in 1..(Len(undos) + Len(redos)) : OneChange(Line[i], Line[i + 1])
BY DEF OneChangePerUndo, OneChange

\* A new state at the end that differs from the present one by a change keeps it so.
LEMMA ExtendKeeps ==
  ASSUME UndoInv, PushHistoryCheckpoint, cells' \in Snapshot, OneChange(cells, cells')
  PROVE  /\ OneChangePerUndo'
         /\ Len(undos') + Len(redos') <= HistoryDepth
<1>1. /\ undos' \in Seq(Snapshot) /\ redos' \in Seq(Snapshot)
      /\ Here' = Here + 1 - Dropped /\ Len(redos') = 0 /\ Len(undos') <= HistoryDepth
      /\ Line' = [i \in 1..Here' |-> IF i = Here' THEN cells' ELSE Line[i + Dropped]]
  BY CheckpointExtends
<1>2. Len(undos) \in Nat /\ Len(redos) \in Nat /\ Dropped \in 0..1 /\ Here >= Dropped + 0
  BY DEF UndoInv, UndoTypeOK, Dropped, Here
<1>3. Line[Here] = cells
  BY <1>2, LineForm DEF UndoInv, Here
<1>4. ASSUME NEW i \in 1..(Len(undos') + Len(redos'))
      PROVE  OneChange(Line[i], Line[i + 1])'
  <2>1. Len(undos') = Here - Dropped /\ i \in 1..Len(undos') /\ Here' = Len(undos') + 1
    BY <1>1, <1>2, <1>4 DEF Here
  <2>2. Line'[i] = Line[i + Dropped]
    BY <1>1, <1>2, <2>1
  <2>3. CASE i = Len(undos')
    <3>1. Line'[i + 1] = cells' /\ i + Dropped = Here
      BY <1>1, <1>2, <2>1, <2>3 DEF Here
    <3> QED BY <1>3, <2>2, <3>1 DEF OneChange
  <2>4. CASE i < Len(undos')
    <3>1. Line'[i + 1] = Line[i + 1 + Dropped]
      BY <1>1, <1>2, <2>1, <2>4
    <3>2. i + Dropped \in 1..(Len(undos) + Len(redos)) /\ i + 1 + Dropped = i + Dropped + 1
      BY <1>2, <2>1, <2>4 DEF Here
    <3>3. OneChange(Line[i + Dropped], Line[i + Dropped + 1])
      BY <3>2, Neighbours DEF UndoInv
    <3> QED BY <2>2, <3>1, <3>2, <3>3 DEF OneChange
  <2> QED BY <2>1, <2>3, <2>4
<1>5. OneChangePerUndo'
  BY <1>4 DEF OneChangePerUndo, OneChange
<1>6. Len(undos') + Len(redos') <= HistoryDepth
  BY <1>1, DepthAssumption
<1> QED BY <1>5, <1>6

\* A change in place keeps it so when it leaves the changes in effect as they are, or
\* is marked.
LEMMA AmendKeeps ==
  ASSUME UndoInv, UNCHANGED <<undos, redos>>,
         \/ cells'.moved
         \/ cells'.inEffect = cells.inEffect /\ cells'.moved = cells.moved
  PROVE  /\ OneChangePerUndo'
         /\ Len(undos') + Len(redos') <= HistoryDepth
<1>1. Here' = Here /\ Line' = [Line EXCEPT ![Here] = cells']
  BY InPlaceAmends DEF UndoInv
<1>2. /\ DOMAIN Line = 1..(Here + Len(redos)) /\ Here \in Nat /\ Len(redos) \in Nat
      /\ Here = Len(undos) + 1 /\ Len(undos) \in Nat
      /\ Line[Here] = cells
  BY LineForm DEF UndoInv, Here, UndoTypeOK
<1>3. ASSUME NEW i \in 1..(Len(undos) + Len(redos))
      PROVE  OneChange(Line[i], Line[i + 1])'
  <2>1. OneChange(Line[i], Line[i + 1])
    BY Neighbours DEF UndoInv
  <2>2. i \in DOMAIN Line /\ i + 1 \in DOMAIN Line /\ i # i + 1
    BY <1>2
  <2>3. CASE i = Here
    <3>1. Line'[i] = cells' /\ Line'[i + 1] = Line[i + 1]
      BY <1>1, <2>2, <2>3
    <3> QED BY <1>2, <2>1, <2>3, <3>1 DEF OneChange
  <2>4. CASE i + 1 = Here
    <3>1. Line'[i + 1] = cells' /\ Line'[i] = Line[i]
      BY <1>1, <2>2, <2>4
    <3> QED BY <1>2, <2>1, <2>4, <3>1 DEF OneChange
  <2>5. CASE i # Here /\ i + 1 # Here
    BY <1>1, <2>1, <2>2, <2>5 DEF OneChange
  <2> QED BY <2>3, <2>4, <2>5
<1>4. OneChangePerUndo'
  BY <1>3 DEF OneChangePerUndo, OneChange
<1> QED BY <1>4 DEF UndoInv

-----------------------------------------------------------------------------
(* Undo and redo: every step *)

\* Every step walks the line, ends it at a new state or changes the present one.
LineStep ==
  \/ Here > 1 /\ Here' = Here - 1 /\ Line' = Line
  \/ Here + 1 \in DOMAIN Line /\ Here' = Here + 1 /\ Line' = Line
  \/ /\ Here' = Here + 1 - Dropped
     /\ \E s \in Snapshot :
          Line' = [i \in 1..Here' |-> IF i = Here' THEN s ELSE Line[i + Dropped]]
  \/ Here' = Here /\ \E s \in Snapshot : Line' = [Line EXCEPT ![Here] = s]

LEMMA WalkKeeps ==
  ASSUME UndoInv, UndoTypeOK', Line' = Line, Len(undos') + Len(redos') <= HistoryDepth,
         Here' = Here - 1 \/ Here' = Here + 1
  PROVE  OneChangePerUndo'
<1>1. DOMAIN Line = 1..(Here + Len(redos)) /\ Here \in Nat /\ Len(redos) \in Nat
      /\ Here = Len(undos) + 1 /\ Len(undos) \in Nat
  BY LineForm DEF UndoInv, UndoTypeOK, Here
<1>2. DOMAIN Line' = 1..(Here' + Len(redos')) /\ Here' \in Nat /\ Len(redos') \in Nat
      /\ Here' = Len(undos') + 1 /\ Len(undos') \in Nat
  BY DEF UndoTypeOK, Here, Line
<1>3. Here + Len(redos) = Here' + Len(redos')
  <2>1. Here + Len(redos) \in DOMAIN Line /\ Here' + Len(redos') \in DOMAIN Line
    BY <1>1, <1>2
  <2> QED BY <1>1, <1>2, <2>1
<1>4. Len(undos) + Len(redos) = Len(undos') + Len(redos')
  BY <1>1, <1>2, <1>3
<1> QED BY <1>4 DEF UndoInv, OneChangePerUndo

\* What the history of bursts does to neither stack.
LEMMA UnchangedKeeps ==
  ASSUME UndoInv, UNCHANGED <<cells, undos, redos, changes, typed, replaced>>,
         typing' \subseteq Fields
  PROVE  UndoInv' /\ Line' = Line /\ Here' = Here
<1>1. Line' = Line
  BY DEF Line
<1>2. UndoTypeOK'
  BY DEF UndoInv, UndoTypeOK
<1>3. OneChangePerUndo'
  BY <1>1 DEF UndoInv, OneChangePerUndo
<1> QED BY <1>1, <1>2, <1>3 DEF UndoInv, Here

LEMMA UndoNextStep ==
  ASSUME UndoInv, UndoNext
  PROVE  UndoInv' /\ LineStep
<1> USE ChangesAssumption
<1>1. CASE ChangeStructure
  <2>1. /\ cells \in Snapshot /\ changes' \in 1..MaxChanges /\ changes' = changes + 1
        /\ cells' = [cells EXCEPT !.inEffect = cells.inEffect \cup {changes'}, !.moved = FALSE]
        /\ PushHistoryCheckpoint
    BY <1>1 DEF ChangeStructure, UndoInv, UndoTypeOK
  <2>4. cells' \in Snapshot /\ cells'.inEffect = cells.inEffect \cup {changes'}
    BY <2>1 DEF Snapshot
  <2>5. OneChange(cells, cells')
    BY <2>4 DEF OneChange
  <2>2. UndoInv'
    BY <1>1, <2>1, <2>4, <2>5, CheckpointExtends, ExtendKeeps DEF ChangeStructure, UndoInv, UndoTypeOK
  <2>3. LineStep
    BY <2>1, <2>4, CheckpointExtends DEF LineStep
  <2> QED BY <2>2, <2>3
<1>2. CASE ReplaceUnrecorded
  <2>0. changes \in 0..MaxChanges /\ typed \in 0..MaxTyped /\ replaced' \in 0..MaxReplaced
    BY <1>2 DEF ReplaceUnrecorded, UndoInv, UndoTypeOK
  <2>1. cells' \in Snapshot /\ cells'.moved /\ replaced' \in 0..MaxReplaced
    <3>1. PICK kept \in SUBSET (1..changes), text \in 0..typed :
            cells' = [inEffect |-> kept, text |-> text, moved |-> TRUE]
      BY <1>2, Zenon DEF ReplaceUnrecorded
    <3>2. kept \in SUBSET (1..MaxChanges) /\ text \in 0..MaxTyped
      BY <2>0
    <3> QED BY <2>0, <3>1, <3>2 DEF Snapshot
  <2>2. UndoInv'
    BY <1>2, <2>1, AmendKeeps DEF ReplaceUnrecorded, UndoInv, UndoTypeOK
  <2>3. LineStep
    BY <1>2, <2>1, InPlaceAmends DEF ReplaceUnrecorded, UndoInv, LineStep
  <2> QED BY <2>2, <2>3
<1>3. CASE Undo
  BY <1>3, UndoWalks, WalkKeeps DEF UndoInv, LineStep
<1>4. CASE Redo
  <2>1. UndoTypeOK' /\ Line' = Line /\ Here' = Here + 1 /\ Here + 1 <= Here + Len(redos)
        /\ Len(undos') + Len(redos') <= HistoryDepth
    BY <1>4, RedoWalks
  <2>2. Here + 1 \in DOMAIN Line
    BY <2>1, LineForm DEF UndoInv
  <2> QED BY <2>1, <2>2, WalkKeeps DEF UndoInv, LineStep
<1>5. ASSUME NEW f \in Fields, Type(f) PROVE UndoInv' /\ LineStep
  <2>1. /\ cells' \in Snapshot /\ typed' \in 0..MaxTyped
        /\ cells'.inEffect = cells.inEffect
        /\ typing' \subseteq Fields /\ UNCHANGED <<changes, replaced>>
        /\ f \in typing => cells'.moved = cells.moved
    <3>1. /\ cells \in Snapshot /\ typed' \in 0..MaxTyped /\ typing' \subseteq Fields
          /\ cells' = [cells EXCEPT !.text = typed', !.moved = cells.moved /\ f \in typing]
          /\ UNCHANGED <<changes, replaced>>
      BY <1>5 DEF Type, UndoInv, UndoTypeOK
    <3>2. (cells.moved /\ f \in typing) \in BOOLEAN
      OBVIOUS
    <3>3. cells' \in Snapshot
      BY <3>1, <3>2 DEF Snapshot
    <3>4. /\ cells'.inEffect = cells.inEffect
          /\ cells'.moved = (cells.moved /\ f \in typing)
      BY <3>1 DEF Snapshot
    <3>5. cells.moved \in BOOLEAN
      BY <3>1 DEF Snapshot
    <3>6. f \in typing => cells'.moved = cells.moved
      BY <3>4, <3>5
    <3> QED BY <3>1, <3>3, <3>4, <3>6
  <2>2. CASE f \in typing
    <3>1. UNCHANGED <<undos, redos>>
      BY <1>5, <2>2 DEF Type, CheckpointCoalesced
    <3>2. UndoInv'
      BY <2>1, <2>2, <3>1, AmendKeeps DEF UndoInv, UndoTypeOK
    <3>3. LineStep
      BY <2>1, <3>1, InPlaceAmends DEF UndoInv, LineStep
    <3> QED BY <3>2, <3>3
  <2>3. CASE f \notin typing
    <3>1. PushHistoryCheckpoint
      BY <1>5, <2>3 DEF Type, CheckpointCoalesced
    <3>2. OneChange(cells, cells')
      BY <2>1 DEF OneChange
    <3>3. UndoInv'
      BY <2>1, <3>1, <3>2, CheckpointExtends, ExtendKeeps DEF UndoInv, UndoTypeOK
    <3>4. LineStep
      BY <2>1, <3>1, CheckpointExtends DEF LineStep
    <3> QED BY <3>3, <3>4
  <2> QED BY <2>2, <2>3
<1>6. ASSUME NEW f \in Fields, BurstEnds(f) PROVE UndoInv' /\ LineStep
  <2>1. UNCHANGED <<cells, undos, redos, changes, typed, replaced>> /\ typing' \subseteq Fields
    BY <1>6 DEF BurstEnds, UndoInv, UndoTypeOK
  <2>2. UndoInv'
    BY <2>1, UnchangedKeeps
  <2>3. cells' \in Snapshot
    BY <2>1 DEF UndoInv, UndoTypeOK
  <2>4. LineStep
    BY <2>1, <2>3, InPlaceAmends DEF UndoInv, LineStep
  <2> QED BY <2>2, <2>4
<1> QED BY <1>1, <1>2, <1>3, <1>4, <1>5, <1>6 DEF UndoNext

LEMMA UndoStutter ==
  ASSUME UndoInv, UNCHANGED undoVars
  PROVE  UndoInv' /\ Line' = Line /\ Here' = Here
BY UnchangedKeeps DEF UndoInv, undoVars, UndoTypeOK

LEMMA UndoInitInv ==
  ASSUME UndoInit
  PROVE  UndoInv /\ Here = 1 /\ Line \in [{1} -> Snapshot]
<1>1. UndoTypeOK /\ Len(undos) = 0 /\ Len(redos) = 0
  BY ChangesAssumption DEF UndoInit, UndoTypeOK, Snapshot
<1>2. OneChangePerUndo
  BY <1>1 DEF OneChangePerUndo
<1>3. Line \in [{1} -> Snapshot]
  BY <1>1 DEF Line, UndoTypeOK
<1> QED BY <1>1, <1>2, <1>3, DepthAssumption DEF UndoInv, Here

LEMMA UndoInvariant == UndoSpec => []UndoInv
<1>1. UndoInit => UndoInv
  BY UndoInitInv
<1>2. UndoInv /\ [UndoNext]_undoVars => UndoInv'
  BY UndoNextStep, UndoStutter
<1> QED BY <1>1, <1>2, PTL DEF UndoSpec

\* Type correctness of the undo history.
THEOREM UndoTypes == UndoSpec => []UndoTypeOK
BY UndoInvariant, PTL DEF UndoInv

\* However bursts of typing, undos and redos interleave, one undo takes back at most
\* one structural change, for any limit of the stacks.
THEOREM ChangesAreUndoneOneByOne == UndoSpec => []OneChangePerUndo
BY UndoInvariant, PTL DEF UndoInv

\* Undo and redo walk a line of states and never lose one: the two stacks implement
\* Timeline.
THEOREM UndoImplementsTimeline == UndoSpec => ImplementsTimeline
<1>1. UndoInit => UndoTimeline!TlInit
  BY UndoInitInv DEF UndoTimeline!TlInit, Here
<1>2. UndoInv /\ [UndoNext]_undoVars => [UndoTimeline!TlNext]_(UndoTimeline!tlVars)
  <2>1. ASSUME UndoInv, UndoNext PROVE UndoTimeline!TlNext
    <3>1. LineStep
      BY <2>1, UndoNextStep
    <3>2. CASE Here > 1 /\ Here' = Here - 1 /\ Line' = Line
      BY <3>2 DEF UndoTimeline!TlNext, UndoTimeline!Back, Here
    <3>3. CASE Here + 1 \in DOMAIN Line /\ Here' = Here + 1 /\ Line' = Line
      BY <3>3 DEF UndoTimeline!TlNext, UndoTimeline!Forward, UndoTimeline!Positions, Here
    <3>4. CASE /\ Here' = Here + 1 - Dropped
               /\ \E s \in Snapshot :
                    Line' = [i \in 1..Here' |-> IF i = Here' THEN s ELSE Line[i + Dropped]]
      BY <3>4 DEF UndoTimeline!TlNext, UndoTimeline!Extend, Here, Dropped
    <3>5. CASE Here' = Here /\ \E s \in Snapshot : Line' = [Line EXCEPT ![Here] = s]
      BY <3>5 DEF UndoTimeline!TlNext, UndoTimeline!Amend, Here
    <3> QED BY <3>1, <3>2, <3>3, <3>4, <3>5 DEF LineStep
  <2>2. ASSUME UndoInv, UNCHANGED undoVars PROVE UNCHANGED UndoTimeline!tlVars
    BY <2>2, UndoStutter DEF UndoTimeline!tlVars, Here
  <2> QED BY <2>1, <2>2
<1> QED
  BY <1>1, <1>2, UndoInvariant, PTL DEF UndoSpec, ImplementsTimeline, UndoTimeline!TlSpec
=============================================================================
