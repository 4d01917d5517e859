------------------------------- MODULE UndoHistory -------------------------------
(* Undo and redo of a notebook: two stacks of snapshots, and bursts of typing  *)
(* that share a checkpoint (stores/notebook.svelte.ts).                        *)
(*                                                                             *)
(* A snapshot keeps the structural changes that are in effect in it (a cell    *)
(* added, deleted, moved, pasted...) and the text that was typed last.  moved  *)
(* is history: since the state before it on the stack, the cells changed       *)
(* without a checkpoint.                                                       *)
EXTENDS Integers, Sequences

CONSTANTS
  Fields,       \* what is typed into: a cell and one of its fields
  HistoryDepth, \* MAX_HISTORY_DEPTH
  MaxChanges,   \* bound: structural changes
  MaxTyped,     \* bound: keystrokes
  MaxReplaced   \* bound: changes without a checkpoint

ASSUME DepthAssumption == HistoryDepth \in Nat \ {0}
ASSUME ChangesAssumption == MaxChanges \in Nat /\ MaxTyped \in Nat /\ MaxReplaced \in Nat

VARIABLES
  cells,     \* nb.cells
  undos,     \* historyStacks.get(id).undo, the top last
  redos,     \* historyStacks.get(id).redo, the top last
  typing,    \* coalesceTimers: the fields whose burst is not over
  changes, typed, replaced  \* how many there were

undoVars == <<cells, undos, redos, typing, changes, typed, replaced>>

Snapshot == [inEffect : SUBSET (1..MaxChanges), text : 0..MaxTyped, moved : BOOLEAN]

UndoTypeOK ==
  /\ cells \in Snapshot
  /\ undos \in Seq(Snapshot) /\ redos \in Seq(Snapshot)
  /\ typing \subseteq Fields
  /\ changes \in 0..MaxChanges /\ typed \in 0..MaxTyped /\ replaced \in 0..MaxReplaced

UndoInit ==
  /\ cells = [inEffect |-> {}, text |-> 0, moved |-> FALSE]
  /\ undos = <<>> /\ redos = <<>>
  /\ typing = {}
  /\ changes = 0 /\ typed = 0 /\ replaced = 0

Top(stack) == stack[Len(stack)]
Pop(stack) == [i \in 1..(Len(stack) - 1) |-> stack[i]]

\* Faulty variant: the wrong end is dropped.
Capped_Newest(stack) == IF Len(stack) > HistoryDepth THEN Pop(stack) ELSE stack

\* The oldest steps are dropped once a stack overflows.
Capped(stack) == IF Len(stack) > HistoryDepth THEN Tail(stack) ELSE stack

-----------------------------------------------------------------------------

\* Faulty variant: what was undone stays on the stack when something new is done.
PushHistoryCheckpoint_KeepsRedo ==
  undos' = Capped(Append(undos, cells)) /\ UNCHANGED redos

PushHistoryCheckpoint ==
  undos' = Capped(Append(undos, cells)) /\ redos' = <<>>

\* addCell, removeCell, moveCell, reorderCell, duplicateCell, pasteCellAfter, ...
ChangeStructure ==
  /\ changes < MaxChanges
  /\ PushHistoryCheckpoint
  /\ changes' = changes + 1
  /\ cells' = [cells EXCEPT !.inEffect = @ \cup {changes + 1}, !.moved = FALSE]
  /\ UNCHANGED <<typing, typed, replaced>>

\* checkpointCoalesced: only the first keystroke of a burst is a checkpoint.
CheckpointCoalesced(f) ==
  IF f \in typing THEN UNCHANGED <<undos, redos>> ELSE PushHistoryCheckpoint

\* updateCellCode, updateCellMarkdown, updateGuiStages, ...  A keystroke in a burst
\* that an undo interrupted changes the restored state in place.
Type(f) ==
  /\ typed < MaxTyped
  /\ CheckpointCoalesced(f)
  /\ typing' = typing \cup {f}
  /\ typed' = typed + 1
  /\ cells' = [cells EXCEPT !.text = typed + 1, !.moved = @ /\ f \in typing]
  /\ UNCHANGED <<changes, replaced>>

\* COALESCE_IDLE_MS without a keystroke
BurstEnds(f) ==
  /\ f \in typing
  /\ typing' = typing \ {f}
  /\ UNCHANGED <<cells, undos, redos, changes, typed, replaced>>

\* A reload of the workspace, an undo of the assistant's changes, and the insertions
\* that make no checkpoint (insertMarkdownCellAfter and -Before, appendCellAtEnd).
ReplaceUnrecorded ==
  /\ replaced < MaxReplaced
  /\ replaced' = replaced + 1
  /\ \E kept \in SUBSET (1..changes), text \in 0..typed :
       cells' = [inEffect |-> kept, text |-> text, moved |-> TRUE]
  /\ UNCHANGED <<undos, redos, typing, changes, typed>>

\* restoreCellSnapshots gives the cells of the snapshot back.
Undo ==
  /\ undos # <<>>
  /\ cells' = Top(undos)
  /\ undos' = Pop(undos)
  /\ redos' = Capped(Append(redos, cells))
  /\ UNCHANGED <<typing, changes, typed, replaced>>

Redo ==
  /\ redos # <<>>
  /\ cells' = Top(redos)
  /\ redos' = Pop(redos)
  /\ undos' = Capped(Append(undos, cells))
  /\ UNCHANGED <<typing, changes, typed, replaced>>

UndoNext ==
  \/ ChangeStructure \/ ReplaceUnrecorded \/ Undo \/ Redo
  \/ \E f \in Fields : Type(f) \/ BurstEnds(f)

UndoSpec == UndoInit /\ [][UndoNext]_undoVars

-----------------------------------------------------------------------------
(* What is promised *)

\* The states that undo and redo lead to, from the oldest to the newest.
Line ==
  LET here == Len(undos) + 1 IN
  [i \in 1..(here + Len(redos)) |->
    IF i < here THEN undos[i] ELSE IF i = here THEN cells ELSE redos[here + Len(redos) + 1 - i]]

UndoTimeline == INSTANCE Timeline
  WITH States <- Snapshot, Depth <- HistoryDepth, line <- Line, at <- Len(undos) + 1

\* The two stacks are a line of states and a position in it: undo and redo walk the
\* line and lose nothing of it - the limits of both stacks never take a state from
\* them - although keystrokes that follow an undo closely change the line in place.
ImplementsTimeline == UndoTimeline!TlSpec

\* "undoes notebook structure changes (add, delete, move, paste)": however typing,
\* bursts, undos and redos interleave, one undo takes back at most one of these
\* changes, and one redo brings back at most one.
OneChangePerUndo ==
  \A i \in 1..(Len(undos) + Len(redos)) :
    ~Line[i].moved /\ ~Line[i + 1].moved =>
      /\ Line[i].inEffect \subseteq Line[i + 1].inEffect
      /\ \A m, n \in Line[i + 1].inEffect \ Line[i].inEffect : m = n
=============================================================================
