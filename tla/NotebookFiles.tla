----------------------------- MODULE NotebookFiles -----------------------------
(***************************************************************************)
(* One .luna notebook of a project folder, open in a browser tab, and its  *)
(* file: the debounced save, rename, delete and reload of                  *)
(* src/lib/stores/notebook.svelte.ts, the file routes behind them, and the *)
(* agent's patch of the same file (lib/server/notebook-mutation.ts).  Its  *)
(* folder may be renamed as well, and its edits undone.                    *)
(*                                                                         *)
(* Nothing orders the requests: each is read or applied by the server at a *)
(* moment of its own, and its answer handled later.  A content is the set  *)
(* of the edits it contains; for the file an undo is an edit like another. *)
(***************************************************************************)
EXTENDS Naturals, FiniteSets

CONSTANTS
  Paths,          \* notebook ids: a file each
  Home,           \* the notebook's path at the start
  Absent,         \* no file, or no notebook under that id
  NoPath,         \* the notebook was deleted
  MaxFileEdits,   \* bound: edits by the user
  MaxFileOps,     \* bound: renames by the user and patches by the agent
  MaxListings     \* bound: listings read and not yet applied

ASSUME HomeAssumption == Home \in Paths /\ NoPath \notin Paths
ASSUME FileBoundsAssumption == MaxFileEdits \in Nat /\ MaxFileOps \in Nat

VARIABLES
  openPath,    \* nb.id of the notebook
  editor,      \* state.notebooks, by id
  disk,        \* the project folder
  saveTimers,  \* lunaSaveTimers
  dirty,       \* dirtyNotebookIds
  puts,        \* write requests under way
  moves,       \* rename requests under way
  removals,    \* delete requests under way
  listings,    \* what reloads under way have read
  agent,       \* what the agent's patch has read
  fileEdits, fileOps,
  carried,     \* the user's edits some write request was sent with
  landed,      \* those some write request took to the disk
  stray,       \* those an undo or the rename of the folder left without a save
  gone         \* paths the notebook has left

fileVars == <<openPath, editor, disk, saveTimers, dirty, puts, moves, removals, listings, agent,
              fileEdits, fileOps, carried, landed, stray, gone>>

AgentEdit == 0
Contents  == SUBSET (0..MaxFileEdits)

ASSUME AbsentAssumption == \A c \in Contents : c # Absent

\* late: the notebook had left the path while the request was under way, or a reload
\* had brought it back there when it was sent.  folder: it is the folder that moves.
FileTypeOK ==
  /\ openPath \in Paths \cup {NoPath}
  /\ editor \in [Paths -> Contents \cup {Absent}]
  /\ disk \in [Paths -> Contents \cup {Absent}]
  /\ saveTimers \subseteq Paths
  /\ dirty \subseteq Paths
  /\ puts \subseteq [path : Paths, content : Contents, late : BOOLEAN]
  /\ moves \subseteq [n : Nat, from : Paths, to : Paths, at : {"sent", "moved", "refused"},
                   late : BOOLEAN, folder : BOOLEAN]
  /\ removals \subseteq Paths
  /\ listings \subseteq [Paths -> Contents \cup {Absent}]
  /\ agent \in {Absent} \cup [path : Paths, content : Contents]
  /\ fileEdits \in 0..MaxFileEdits
  /\ fileOps \in 0..MaxFileOps
  /\ carried \subseteq 1..MaxFileEdits
  /\ landed \subseteq 1..MaxFileEdits
  /\ stray \subseteq 1..MaxFileEdits
  /\ gone \subseteq Paths

AtHome == [p \in Paths |-> IF p = Home THEN {} ELSE Absent]

FileInit ==
  /\ openPath = Home
  /\ editor = AtHome /\ disk = AtHome
  /\ saveTimers = {} /\ dirty = {}
  /\ puts = {} /\ moves = {} /\ removals = {} /\ listings = {} /\ agent = Absent
  /\ fileEdits = 0 /\ fileOps = 0 /\ carried = {} /\ landed = {} /\ stray = {} /\ gone = {}

Unsent == (1..fileEdits) \ carried

\* The answer to a rename is still to come, and a save with it.
Moving == \E m \in moves : m.to = openPath /\ ~m.folder

-----------------------------------------------------------------------------
(* Edits and saves *)

\* An edit restarts the 500 ms timer: whatever the notebook holds will be saved.
EditNotebook ==
  /\ openPath # NoPath
  /\ fileEdits < MaxFileEdits
  /\ fileEdits' = fileEdits + 1
  /\ editor' = [editor EXCEPT ![openPath] = @ \cup {fileEdits + 1}]
  /\ saveTimers' = saveTimers \cup {openPath}
  /\ dirty' = dirty \cup {openPath}
  /\ stray' = {}
  /\ UNCHANGED <<openPath, disk, puts, moves, removals, listings, agent, fileOps, carried, landed,
                 gone>>

\* applyHistorySnapshot saves the cells that come back, and nothing otherwise.
UndoEdit ==
  /\ openPath # NoPath
  /\ fileEdits < MaxFileEdits
  /\ fileEdits' = fileEdits + 1
  /\ editor' = [editor EXCEPT ![openPath] = @ \cup {fileEdits + 1}]
  /\ stray' = stray \cup {fileEdits + 1}
  /\ UNCHANGED <<openPath, disk, saveTimers, dirty, puts, moves, removals, listings, agent,
                 fileOps, carried, landed, gone>>

Strays(p) == IF p = openPath THEN {} ELSE stray

\* Faulty variant: the callback saves what its own notebook object holds.
SaveFires_Unchecked(p) ==
  /\ p \in saveTimers
  /\ saveTimers' = saveTimers \ {p}
  /\ dirty' = dirty \ {p}
  /\ LET c == IF editor[p] = Absent THEN {} ELSE editor[p] IN
     /\ puts' = puts \cup {[path |-> p, content |-> c, late |-> p \in gone /\ editor[p] # Absent]}
     /\ carried' = carried \cup (c \ {AgentEdit})
  /\ stray' = Strays(p)
  /\ UNCHANGED <<openPath, editor, disk, moves, removals, listings, agent, fileEdits, fileOps,
                 landed, gone>>

\* The timer fires: the notebook is no longer dirty, and written if it is there.
SaveFires(p) ==
  /\ p \in saveTimers
  /\ saveTimers' = saveTimers \ {p}
  /\ dirty' = dirty \ {p}
  /\ stray' = Strays(p)
  /\ IF editor[p] = Absent THEN UNCHANGED <<puts, carried>>
     ELSE /\ puts' = puts \cup {[path |-> p, content |-> editor[p], late |-> p \in gone]}
          /\ carried' = carried \cup (editor[p] \ {AgentEdit})
  /\ UNCHANGED <<openPath, editor, disk, moves, removals, listings, agent, fileEdits, fileOps,
                 landed, gone>>

\* The server writes the file; the answer may be lost all the same.
PutLands(w) ==
  /\ w \in puts
  /\ puts' = puts \ {w}
  /\ disk' = [disk EXCEPT ![w.path] = w.content]
  /\ landed' = landed \cup (w.content \ {AgentEdit})
  /\ dirty' \in {dirty, dirty \cup {w.path}}
  /\ UNCHANGED <<openPath, editor, saveTimers, moves, removals, listings, agent, fileEdits,
                 fileOps, carried, stray, gone>>

\* Faulty variant: the failure is logged, and that is all.
PutFails_Logged(w) ==
  /\ w \in puts
  /\ puts' = puts \ {w}
  /\ UNCHANGED <<openPath, editor, disk, saveTimers, dirty, moves, removals, listings, agent,
                 fileEdits, fileOps, carried, landed, stray, gone>>

\* A failed write makes the notebook dirty again; no timer is set.
PutFails(w) ==
  /\ w \in puts
  /\ puts' = puts \ {w}
  /\ dirty' = dirty \cup {w.path}
  /\ UNCHANGED <<openPath, editor, disk, saveTimers, moves, removals, listings, agent, fileEdits,
                 fileOps, carried, landed, stray, gone>>

-----------------------------------------------------------------------------
(* Rename, move and delete *)

\* The notebook leaves its path: what is under way for that path is late.
LatePuts(p)  == {[w EXCEPT !.late = @ \/ w.path = p] : w \in puts}
LateMoves(p) == {[m EXCEPT !.late = @ \/ m.to = p] : m \in moves}

\* It has another path at once; the file is moved by a request.  The user picks a
\* path no other notebook has: the code does not look.
Repath(p, folder) ==
  /\ openPath # NoPath /\ p # openPath /\ editor[p] = Absent
  /\ fileOps < MaxFileOps
  /\ fileOps' = fileOps + 1
  /\ editor' = [editor EXCEPT ![p] = editor[openPath], ![openPath] = Absent]
  /\ openPath' = p
  /\ puts' = LatePuts(openPath)
  /\ moves' = LateMoves(openPath)
                \cup {[n |-> fileOps + 1, from |-> openPath, to |-> p, at |-> "sent",
                       late |-> FALSE, folder |-> folder]}
  /\ gone' = (gone \cup {openPath}) \ {p}
  /\ UNCHANGED <<disk, dirty, removals, listings, agent, fileEdits, carried, landed>>

\* renameNotebook and moveNotebookToFolder drop the timer of the old path.
Rename(p) ==
  /\ Repath(p, FALSE)
  /\ saveTimers' = saveTimers \ {openPath}
  /\ UNCHANGED stray

\* renameFolder: the timer stays with the old path, where it will find no notebook,
\* and so does the mark that a failed write leaves.
RenameFolder(p) ==
  /\ Repath(p, TRUE)
  /\ stray' = stray \cup (editor[openPath] \ ({AgentEdit} \cup landed))
  /\ UNCHANGED saveTimers

\* Nobody waits for the folder.
Answered(m, outcome) ==
  moves' = (moves \ {m}) \cup (IF m.folder THEN {} ELSE {[m EXCEPT !.at = outcome]})

\* renameCellFile: refused when the new file exists or the old one does not.  A
\* folder may be moved with no file in it.
MoveLands(m) ==
  /\ m \in moves /\ m.at = "sent"
  /\ (disk[m.from] # Absent \/ m.folder) /\ disk[m.to] = Absent
  /\ disk' = [disk EXCEPT ![m.to] = disk[m.from], ![m.from] = Absent]
  /\ Answered(m, "moved")
  /\ UNCHANGED <<openPath, editor, saveTimers, dirty, puts, removals, listings, agent, fileEdits,
                 fileOps, carried, landed, stray, gone>>

MoveFails(m) ==
  /\ m \in moves /\ m.at = "sent"
  /\ Answered(m, "refused")
  /\ UNCHANGED <<openPath, editor, disk, saveTimers, dirty, puts, removals, listings, agent,
                 fileEdits, fileOps, carried, landed, stray, gone>>

\* Faulty variant: no save when the file could not be moved.
MoveReturns_Then(m) ==
  /\ m \in moves /\ m.at # "sent"
  /\ moves' = moves \ {m}
  /\ saveTimers' = IF m.at = "moved" THEN saveTimers \cup {m.to} ELSE saveTimers
  /\ dirty' = dirty \cup {m.to}
  /\ UNCHANGED <<openPath, editor, disk, puts, removals, listings, agent, fileEdits, fileOps,
                 carried, landed, stray, gone>>

\* finally: a save under the new path, whether the file was moved or not.
MoveReturns(m) ==
  /\ m \in moves /\ m.at # "sent"
  /\ moves' = moves \ {m}
  /\ saveTimers' = saveTimers \cup {m.to}
  /\ dirty' = dirty \cup {m.to}
  /\ stray' = Strays(m.to)
  /\ UNCHANGED <<openPath, editor, disk, puts, removals, listings, agent, fileEdits, fileOps,
                 carried, landed, gone>>

\* deleteNotebook
DeleteNotebook ==
  /\ openPath # NoPath
  /\ saveTimers' = saveTimers \ {openPath}
  /\ puts' = LatePuts(openPath)
  /\ editor' = [editor EXCEPT ![openPath] = Absent]
  /\ moves' = LateMoves(openPath)
  /\ removals' = removals \cup {openPath}
  /\ gone' = gone \cup {openPath}
  /\ openPath' = NoPath
  /\ UNCHANGED <<disk, dirty, listings, agent, fileEdits, fileOps, carried, landed, stray>>

\* unlink: it may fail, or find no file.
RemovalLands(p) ==
  /\ p \in removals
  /\ removals' = removals \ {p}
  /\ disk' \in {disk, [disk EXCEPT ![p] = Absent]}
  /\ UNCHANGED <<openPath, editor, saveTimers, dirty, puts, moves, listings, agent, fileEdits,
                 fileOps, carried, landed, stray, gone>>

-----------------------------------------------------------------------------
(* loadProjectNotebooks *)

ReloadReads ==
  /\ Cardinality(listings) < MaxListings
  /\ listings' = listings \cup {disk}
  /\ UNCHANGED <<openPath, editor, disk, saveTimers, dirty, puts, moves, removals, agent,
                 fileEdits, fileOps, carried, landed, stray, gone>>

\* Faulty variant: the notebook is merged with the file whatever is pending.
Merged_FromDisk(p, listing) ==
  IF listing[p] # Absent THEN listing[p]
  ELSE IF p \in saveTimers \cup dirty \cup {openPath} THEN editor[p] ELSE Absent

\* What the store has for path p after the merge: the file, unless a save is
\* pending; and what is not in the listing stays while it is pending or open.
Merged(p, listing) ==
  IF listing[p] # Absent
  THEN IF editor[p] # Absent /\ p \in saveTimers THEN editor[p] ELSE listing[p]
  ELSE IF p \in saveTimers \cup dirty \cup {openPath} THEN editor[p] ELSE Absent

ReloadApplies(listing) ==
  /\ listing \in listings
  /\ listings' = listings \ {listing}
  /\ editor' = [p \in Paths |-> Merged(p, listing)]
  /\ UNCHANGED <<openPath, disk, saveTimers, dirty, puts, moves, removals, agent, fileEdits,
                 fileOps, carried, landed, stray, gone>>

-----------------------------------------------------------------------------
(* patchNotebookOnDisk *)

AgentReads(p) ==
  /\ agent = Absent
  /\ disk[p] # Absent
  /\ fileOps < MaxFileOps
  /\ fileOps' = fileOps + 1
  /\ agent' = [path |-> p, content |-> disk[p]]
  /\ UNCHANGED <<openPath, editor, disk, saveTimers, dirty, puts, moves, removals, listings,
                 fileEdits, carried, landed, stray, gone>>

\* The tables are looked up in between; then the file is written, or not.
AgentWrites ==
  /\ agent # Absent
  /\ disk' \in {disk, [disk EXCEPT ![agent.path] = agent.content \cup {AgentEdit}]}
  /\ agent' = Absent
  /\ UNCHANGED <<openPath, editor, saveTimers, dirty, puts, moves, removals, listings, fileEdits,
                 fileOps, carried, landed, stray, gone>>

FileNext ==
  \/ EditNotebook \/ UndoEdit \/ DeleteNotebook \/ ReloadReads \/ AgentWrites
  \/ \E p \in Paths : \/ SaveFires(p) \/ Rename(p) \/ RenameFolder(p)
                      \/ RemovalLands(p) \/ AgentReads(p)
  \/ \E w \in puts : PutLands(w) \/ PutFails(w)
  \/ \E m \in moves : MoveLands(m) \/ MoveFails(m) \/ MoveReturns(m)
  \/ \E listing \in listings : ReloadApplies(listing)

FileSpec == FileInit /\ [][FileNext]_fileVars

-----------------------------------------------------------------------------
(* What is promised *)

\* An edit that no write request has carried yet is due: a save is pending under
\* the notebook's path, or the answer to a rename will start one, whether the
\* rename succeeded or not and whatever was renamed, reloaded or failed meanwhile.
\* Not the edits that are stray: of an undo, and of a notebook whose folder was
\* renamed, until the next edit is saved with them.
UnsentEditsAreDue ==
  openPath # NoPath /\ editor[openPath] \cap (Unsent \ stray) # {}
    => openPath \in saveTimers \/ Moving

\* A reload never takes an edit that was not sent out of the editor, unless it
\* comes between a rename and its answer, or the edit is stray.
UnsentEditsStay ==
  [][openPath # NoPath /\ openPath' # NoPath /\ ~Moving
       => editor[openPath] \cap (Unsent \ stray) \subseteq editor'[openPath']]_<<openPath, editor>>

\* "A failed write must not leave the notebook falsely marked clean": while an edit
\* is in the editor that no write took to the disk and none is taking there, the
\* notebook is dirty or the answer to its rename will make it so - through reloads,
\* renames and several writes whose answers come in any order.  Not the stray ones.
OnTheWay == UNION {w.content : w \in puts}

UnsavedIsShown ==
  openPath # NoPath /\ (editor[openPath] \ {AgentEdit}) \ (landed \cup OnTheWay \cup stray) # {}
    => openPath \in dirty \/ Moving

\* isNotebookPendingDiskSync is said to be "True while a notebook's first/ongoing
\* disk write is debounced or in flight", and "A pending whole-notebook .luna save
\* means every in-memory cell is newer than disk": a reload should then never take
\* out of the editor an edit whose write is on its way.  The merge looks at the
\* timer alone, which is gone when the write is sent.
ReloadsKeepWrites ==
  [][openPath # NoPath /\ openPath' = openPath /\ ~Moving
       => \A w \in puts : w.path = openPath
            => editor[openPath] \cap w.content \subseteq editor'[openPath]]_<<openPath, editor>>

\* The file of a notebook that was deleted or renamed comes back only by a request
\* that was under way when the notebook left, by the agent, or with the notebook
\* itself when a reload that had read the file before brought it back: no timer
\* that is left over writes it again.
GoneStaysGone ==
  [][\A p \in gone : disk[p] = Absent /\ disk'[p] # Absent =>
       \/ \E w \in puts \ puts' : w.path = p /\ w.late
       \/ \E m \in moves \ moves' : m.to = p /\ m.late
       \/ agent' # agent]_disk
=============================================================================
