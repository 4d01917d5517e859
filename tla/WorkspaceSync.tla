----------------------------- MODULE WorkspaceSync -----------------------------
(***************************************************************************)
(* How browsers keep their copy of a project's workspace in step with the  *)
(* workspace_state table: the autosave, its version check, the poll, the   *)
(* answers to a conflict and the switch to another project, from           *)
(* src/lib/stores/notebook.svelte.ts, src/lib/server/workspace-store.ts    *)
(* and src/lib/components/ProjectSwitcher.svelte.                          *)
(*                                                                         *)
(* A workspace is the set of the edits it contains.  written is the        *)
(* history of all that was ever written to the table; the index of an      *)
(* entry stands for its updated_at, 0 for null.                            *)
(***************************************************************************)
EXTENDS Naturals, Sequences, FiniteSets

CONSTANTS
  Clients,    \* browsers, one tab each
  Projects,   \* the projects a browser can switch between
  MaxEdits,   \* bound: edits users make
  MaxFaults,  \* bound: requests that fail
  MaxClicks   \* bound: times users answer a conflict or switch projects

ASSUME BoundsAssumption == MaxEdits \in Nat /\ MaxFaults \in Nat /\ MaxClicks \in Nat

VARIABLES
  written,   \* every save ever written to the table
  row,       \* per project, the updated_at of its row
  requests,  \* save requests the server holds, or whose answer is under way
  cookie,    \* per client, the project the server takes for active
  doc,       \* per client, state.notebooks
  home,      \* per client, the project doc was loaded for
  version,   \* per client, state.workspaceServerUpdatedAt
  status,    \* per client, state.workspaceSyncStatus
  timer,     \* per client, whether saveTimer is set
  retry,     \* per client, whether workspaceSaveRetryTimer is set
  chain,     \* per client, the saves waiting in workspaceSaveChain
  inFlight,  \* per client, workspaceSaveInFlight
  sent,      \* per client, how many saves it has sent
  polled,    \* per client, the version a poll has read and not compared yet
  reloads,   \* per client, what reloads have read and not loaded yet
  switch,    \* per client, where activateProject is
  unread,    \* per client, whether version is one whose contents it never loaded
  epoch,     \* per client, how many reloads are over
  edits, faults, clicks  \* what has been used up of the three bounds

server == <<written, row, requests>>
saver  == <<timer, retry, chain, inFlight, sent>>
view   == <<doc, home, version, status, unread, epoch>>
budget == <<edits, faults, clicks>>
vars   == <<server, cookie, view, saver, polled, reloads, switch, budget>>

Edits    == 0..MaxEdits       \* 0 stands for what was saved before
Versions == 0..Len(written)

\* What a save carries; its home and epoch are those of the client at the snapshot.
Save == [data : SUBSET Edits, home : Projects, epoch : Nat, force : BOOLEAN]

\* found is the row's version: when it was checked, and then what is answered.
Request == [client : Clients, n : Nat, project : Projects, save : Save,
            expected : Nat, unread : BOOLEAN,
            step : {"sent", "checked", "refused", "saved"}, found : Versions]

Entry == [project : Projects, save : Save, expected : Nat, unread : BOOLEAN,
          found : Nat, over : Nat]  \* the version found by the check, the version overwritten

Reload == [project : Projects, version : Versions, switching : BOOLEAN]

Switch == [step : {"no", "flushing", "activating", "activated", "reloading", "failed"},
           to : Projects, op : Nat]

TypeOK ==
  /\ written  \in Seq(Entry)
  /\ row      \in [Projects -> Versions]
  /\ requests \subseteq Request
  /\ cookie   \in [Clients -> Projects]
  /\ doc      \in [Clients -> SUBSET Edits]
  /\ home     \in [Clients -> Projects]
  /\ version  \in [Clients -> Versions]
  /\ status   \in [Clients -> {"idle", "synced", "offline", "error", "conflict"}]
  /\ timer    \in [Clients -> BOOLEAN]
  /\ retry    \in [Clients -> BOOLEAN]
  /\ chain    \in [Clients -> Seq(Save)]
  /\ inFlight \in [Clients -> BOOLEAN]
  /\ sent     \in [Clients -> Nat]
  /\ polled   \in [Clients -> SUBSET Versions]
  /\ reloads  \in [Clients -> SUBSET Reload]
  /\ switch   \in [Clients -> Switch]
  /\ unread   \in [Clients -> BOOLEAN]
  /\ epoch    \in [Clients -> Nat]
  /\ edits \in 0..MaxEdits /\ faults \in 0..MaxFaults /\ clicks \in 0..MaxClicks

-----------------------------------------------------------------------------
(* The table *)

Contents(v) == IF v = 0 THEN {} ELSE written[v].save.data

Saved(p) == [project |-> p, expected |-> 0, unread |-> FALSE, found |-> 0, over |-> 0,
             save |-> [data |-> {0}, home |-> p, epoch |-> 0, force |-> FALSE]]

\* Some projects have been saved before, others never.
Init ==
  /\ \/ written = <<>> /\ row = [p \in Projects |-> 0]
     \/ \E p \in Projects : /\ written = <<Saved(p)>>
                           /\ row = [q \in Projects |-> IF q = p THEN 1 ELSE 0]
  /\ requests = {}
  /\ cookie \in [Clients -> Projects]
  /\ home = cookie
  /\ doc      = [c \in Clients |-> {}]
  /\ version  = [c \in Clients |-> 0]
  /\ status   = [c \in Clients |-> "idle"]
  /\ timer    = [c \in Clients |-> FALSE]
  /\ retry    = [c \in Clients |-> FALSE]
  /\ chain    = [c \in Clients |-> <<>>]
  /\ inFlight = [c \in Clients |-> FALSE]
  /\ sent     = [c \in Clients |-> 0]
  /\ polled   = [c \in Clients |-> {}]
  /\ reloads  = [c \in Clients |-> {}]
  /\ switch   = [c \in Clients |-> [step |-> "no", to |-> cookie[c], op |-> 0]]
  /\ unread   = [c \in Clients |-> FALSE]
  /\ epoch    = [c \in Clients |-> 0]
  /\ edits = 0 /\ faults = 0 /\ clicks = 0

\* saveToServer sends the head of an idle chain in a microtask, before any other handler.
Ready(c) == inFlight[c] \/ chain[c] = <<>>

Fault == faults < MaxFaults /\ faults' = faults + 1 /\ UNCHANGED <<edits, clicks>>
Click == clicks < MaxClicks /\ clicks' = clicks + 1 /\ UNCHANGED <<edits, faults>>

-----------------------------------------------------------------------------
(* loadFromServer, when the page opens *)

\* In one step: there is no notebook to edit before the page has loaded its storage.
Load(c) ==
  /\ Ready(c)
  /\ status[c] = "idle"
  /\ doc' = [doc EXCEPT ![c] = Contents(row[cookie[c]])]
  /\ version' = [version EXCEPT ![c] = row[cookie[c]]]
  /\ status' = [status EXCEPT ![c] = "synced"]
  /\ UNCHANGED <<server, cookie, home, unread, epoch, saver, polled, reloads, switch, budget>>

\* The copy cached in localStorage is shown: any earlier state of the project.
LoadFails(c) ==
  /\ Ready(c)
  /\ status[c] = "idle"
  /\ \E v \in {0} \cup {k \in DOMAIN written : written[k].project = cookie[c]} :
       doc' = [doc EXCEPT ![c] = Contents(v)]
  /\ status' = [status EXCEPT ![c] = "offline"]
  /\ Fault
  /\ UNCHANGED <<server, cookie, home, version, unread, epoch, saver, polled, reloads, switch>>

-----------------------------------------------------------------------------
(* Autosave *)

Snapshot(c, force) ==
  [data |-> doc[c], home |-> home[c], epoch |-> epoch[c], force |-> force]

\* An edit in the notebook; scheduleSave starts the timer over.
Edit(c) ==
  /\ Ready(c)
  /\ status[c] # "idle"
  /\ edits < MaxEdits
  /\ edits' = edits + 1
  /\ doc' = [doc EXCEPT ![c] = @ \cup {edits'}]
  /\ timer' = [timer EXCEPT ![c] = TRUE]
  /\ UNCHANGED <<server, cookie, home, version, status, unread, epoch, retry, chain, inFlight,
                 sent, polled, reloads, switch, faults, clicks>>

SaveTimerFires(c) ==
  /\ Ready(c)
  /\ timer[c]
  /\ timer' = [timer EXCEPT ![c] = FALSE]
  /\ chain' = [chain EXCEPT ![c] = Append(@, Snapshot(c, FALSE))]
  /\ UNCHANGED <<server, cookie, view, retry, inFlight, sent, polled, reloads, switch, budget>>

RetryTimerFires(c) ==
  /\ Ready(c)
  /\ retry[c]
  /\ retry' = [retry EXCEPT ![c] = FALSE]
  /\ timer' = [timer EXCEPT ![c] = TRUE]
  /\ UNCHANGED <<server, cookie, view, chain, inFlight, sent, polled, reloads, switch, budget>>

\* saveToServer's op: it is now that expectedUpdatedAt and the cookie are read.
Send(c) ==
  /\ ~inFlight[c]
  /\ chain[c] # <<>>
  /\ requests' = requests \cup
       {[client |-> c, n |-> sent[c] + 1, project |-> cookie[c], save |-> Head(chain[c]),
         expected |-> version[c],
         unread |-> unread[c] \/ Head(chain[c]).epoch # epoch[c],
         step |-> "sent", found |-> 0]}
  /\ chain' = [chain EXCEPT ![c] = Tail(@)]
  /\ sent' = [sent EXCEPT ![c] = @ + 1]
  /\ inFlight' = [inFlight EXCEPT ![c] = TRUE]
  /\ UNCHANGED <<written, row, cookie, view, timer, retry, polled, reloads, switch, budget>>

\* Whether r is the request its client is waiting for: it may have given up.
Awaited(r) == inFlight[r.client] /\ r.n = sent[r.client]

\* The server goes on from r to s; nobody hears the answer to a late request.
Proceed(r, s) ==
  requests' = (requests \ {r}) \cup
    (IF Awaited(r) \/ s.step = "checked" THEN {s} ELSE {})

Conflicting_OlderOnly(r) ==
  /\ r.expected # 0 /\ ~r.save.force
  /\ row[r.project] # 0 /\ row[r.project] < r.expected

\* The version check of saveWorkspaceState, made only for a version to compare with.
Conflicting(r) ==
  /\ r.expected # 0 /\ ~r.save.force
  /\ row[r.project] # 0 /\ row[r.project] # r.expected

ServerRefuses(r) ==
  /\ r.step = "sent" /\ Conflicting(r)
  /\ Proceed(r, [r EXCEPT !.step = "refused", !.found = row[r.project]])
  /\ UNCHANGED <<written, row, cookie, view, saver, polled, reloads, switch, budget>>

ServerAccepts(r) ==
  /\ r.step = "sent" /\ ~Conflicting(r)
  /\ Proceed(r, [r EXCEPT !.step = "checked", !.found = row[r.project]])
  /\ UNCHANGED <<written, row, cookie, view, saver, polled, reloads, switch, budget>>

ServerWrites_ClockAnswered(r) ==
  /\ r.step = "checked"
  /\ written' = Append(written, [project |-> r.project, save |-> r.save,
                                 expected |-> r.expected, unread |-> r.unread,
                                 found |-> r.found, over |-> row[r.project]])
  /\ row' = [row EXCEPT ![r.project] = Len(written) + 1]
  /\ Proceed(r, [r EXCEPT !.step = "saved", !.found = Len(written) + 2])
  /\ UNCHANGED <<cookie, view, saver, polled, reloads, switch, budget>>

\* INSERT ... ON CONFLICT DO UPDATE, a statement of its own.
ServerWrites(r) ==
  /\ r.step = "checked"
  /\ written' = Append(written, [project |-> r.project, save |-> r.save,
                                 expected |-> r.expected, unread |-> r.unread,
                                 found |-> r.found, over |-> row[r.project]])
  /\ row' = [row EXCEPT ![r.project] = Len(written) + 1]
  /\ Proceed(r, [r EXCEPT !.step = "saved", !.found = Len(written) + 1])
  /\ UNCHANGED <<cookie, view, saver, polled, reloads, switch, budget>>

SaveSucceeds(r) ==
  LET c == r.client IN
  /\ Awaited(r) /\ r.step = "saved"
  /\ requests' = requests \ {r}
  /\ version'  = [version EXCEPT ![c] = r.found]
  /\ unread'   = [unread EXCEPT ![c] = r.save.epoch # epoch[c]]
  /\ status'   = [status EXCEPT ![c] = "synced"]
  /\ retry'    = [retry EXCEPT ![c] = FALSE]
  /\ inFlight' = [inFlight EXCEPT ![c] = FALSE]
  /\ UNCHANGED <<written, row, cookie, doc, home, epoch, timer, chain, sent, polled, reloads, switch, budget>>

SaveFails_NoRetry(r) ==
  LET c == r.client IN
  /\ Awaited(r)
  /\ Fault
  /\ requests' = requests \ {r}
  /\ status'   = [status EXCEPT ![c] = "error"]
  /\ inFlight' = [inFlight EXCEPT ![c] = FALSE]
  /\ UNCHANGED <<written, row, cookie, doc, home, version, unread, epoch, timer, retry, chain, sent,
                 polled, reloads, switch>>

SaveFails_Unnoticed(r) ==
  LET c == r.client IN
  /\ Awaited(r)
  /\ Fault
  /\ requests' = requests \ {r}
  /\ inFlight' = [inFlight EXCEPT ![c] = FALSE]
  /\ UNCHANGED <<written, row, cookie, view, timer, retry, chain, sent, polled, reloads, switch>>

\* 409: the version that is in the way becomes the version this client expects.
SaveConflicts(r) ==
  LET c == r.client IN
  /\ Awaited(r) /\ r.step = "refused"
  /\ requests' = requests \ {r}
  /\ version'  = [version EXCEPT ![c] = r.found]
  /\ unread'   = [unread EXCEPT ![c] = TRUE]
  /\ status'   = [status EXCEPT ![c] = "conflict"]
  /\ inFlight' = [inFlight EXCEPT ![c] = FALSE]
  /\ UNCHANGED <<written, row, cookie, doc, home, epoch, timer, retry, chain, sent, polled, reloads, switch, budget>>

\* The request or its answer is lost, or the app answers 503; it may still be at work.
SaveFails(r) ==
  LET c == r.client IN
  /\ Awaited(r)
  /\ Fault
  /\ \/ requests' = requests \ {r}
     \/ r.step \in {"sent", "checked"} /\ UNCHANGED requests
  /\ status'   = [status EXCEPT ![c] = "error"]
  /\ retry'    = [retry EXCEPT ![c] = TRUE]
  /\ inFlight' = [inFlight EXCEPT ![c] = FALSE]
  /\ UNCHANGED <<written, row, cookie, doc, home, version, unread, epoch, timer, chain, sent,
                 polled, reloads, switch>>

-----------------------------------------------------------------------------
(* pollWorkspaceVersion *)

\* The poll reads, unless onProjectChange has stopped it.
PollReads(c) ==
  /\ Ready(c)
  /\ status[c] \notin {"idle", "conflict"} /\ ~inFlight[c]
  /\ switch[c].step \notin {"reloading", "failed"}
  /\ polled[c] = {}
  /\ row[cookie[c]] # 0
  /\ polled' = [polled EXCEPT ![c] = {row[cookie[c]]}]
  /\ UNCHANGED <<server, cookie, view, saver, reloads, switch, budget>>

PollAgrees(c) ==
  \E v \in polled[c] :
    /\ Ready(c)
    /\ version[c] \in {0, v}
    /\ polled' = [polled EXCEPT ![c] = {}]
    /\ UNCHANGED <<server, cookie, view, saver, reloads, switch, budget>>

PollDiffers(c) ==
  \E v \in polled[c] :
    /\ Ready(c)
    /\ version[c] \notin {0, v}
    /\ polled'  = [polled EXCEPT ![c] = {}]
    /\ status'  = [status EXCEPT ![c] = "conflict"]
    /\ version' = [version EXCEPT ![c] = v]
    /\ unread'  = [unread EXCEPT ![c] = TRUE]
    /\ UNCHANGED <<server, cookie, doc, home, epoch, saver, reloads, switch, budget>>

-----------------------------------------------------------------------------
(* What a user answers to "Workspace was updated elsewhere" *)

ClickReload(c) ==
  /\ Ready(c)
  /\ status[c] = "conflict"
  /\ Click
  /\ reloads' = [reloads EXCEPT ![c] = @ \cup
       {[project |-> cookie[c], version |-> row[cookie[c]], switching |-> FALSE]}]
  /\ UNCHANGED <<server, cookie, view, saver, polled, switch>>

\* forceSaveWorkspace
ClickKeepMine(c) ==
  /\ Ready(c)
  /\ status[c] = "conflict"
  /\ Click
  /\ chain' = [chain EXCEPT ![c] = Append(@, Snapshot(c, TRUE))]
  /\ UNCHANGED <<server, cookie, view, timer, retry, inFlight, sent, polled, reloads, switch>>

\* A reload that is over ends its switch, unless the user has gone on to another one.
SwitchEnds(c, r, step) ==
  switch' = IF r.switching /\ switch[c].step = "reloading"
            THEN [switch EXCEPT ![c].step = step] ELSE switch

\* reloadWorkspaceFromServer; doc stays when the project was never saved.
Reloaded(c) ==
  \E r \in reloads[c] :
    /\ Ready(c)
    /\ reloads' = [reloads EXCEPT ![c] = @ \ {r}]
    /\ doc'     = [doc EXCEPT ![c] = IF r.version = 0 THEN @ ELSE Contents(r.version)]
    /\ home'    = [home EXCEPT ![c] = IF r.version = 0 THEN @ ELSE r.project]
    /\ version' = [version EXCEPT ![c] = r.version]
    /\ status'  = [status EXCEPT ![c] = "synced"]
    /\ unread'  = [unread EXCEPT ![c] = FALSE]
    /\ epoch'   = [epoch EXCEPT ![c] = @ + 1]
    /\ SwitchEnds(c, r, "no")
    /\ UNCHANGED <<server, cookie, saver, polled, budget>>

ReloadFails(c) ==
  \E r \in reloads[c] :
    /\ Ready(c)
    /\ Fault
    /\ reloads' = [reloads EXCEPT ![c] = @ \ {r}]
    /\ SwitchEnds(c, r, "failed")
    /\ UNCHANGED <<server, cookie, view, saver, polled>>

-----------------------------------------------------------------------------
(* activateProject and activateOrg *)

\* `switching` is over when the reload has begun, not when it ends.
MaySwitch(c, p) ==
  /\ status[c] # "idle"
  /\ switch[c].step \in {"no", "reloading", "failed"} /\ p # cookie[c]

\* flushPendingSave, when a save is debounced: the switch waits for this one.
ClickSwitchFlushing(c, p) ==
  /\ Ready(c)
  /\ MaySwitch(c, p)
  /\ timer[c]
  /\ Click
  /\ timer' = [timer EXCEPT ![c] = FALSE]
  /\ chain' = [chain EXCEPT ![c] = Append(@, Snapshot(c, FALSE))]
  /\ switch' = [switch EXCEPT ![c] =
       [step |-> "flushing", to |-> p,
        op |-> sent[c] + Len(chain[c]) + 1]]
  /\ UNCHANGED <<server, cookie, view, retry, inFlight, sent, polled, reloads>>

\* ... and when none is, whatever waits in workspaceSaveChain.
ClickSwitch(c, p) ==
  /\ Ready(c)
  /\ MaySwitch(c, p)
  /\ ~timer[c]
  /\ Click
  /\ switch' = [switch EXCEPT ![c] = [step |-> "activating", to |-> p, op |-> 0]]
  /\ UNCHANGED <<server, cookie, view, saver, polled, reloads>>

Flushed(c) ==
  /\ Ready(c)
  /\ switch[c].step = "flushing"
  /\ sent[c] > switch[c].op \/ (sent[c] = switch[c].op /\ ~inFlight[c])
  /\ switch' = [switch EXCEPT ![c].step = "activating"]
  /\ UNCHANGED <<server, cookie, view, saver, polled, reloads, budget>>

Activated(c) ==
  /\ Ready(c)
  /\ switch[c].step = "activating"
  /\ cookie' = [cookie EXCEPT ![c] = switch[c].to]
  /\ switch' = [switch EXCEPT ![c].step = "activated"]
  /\ UNCHANGED <<server, view, saver, polled, reloads, budget>>

ActivateFails(c) ==
  /\ Ready(c)
  /\ switch[c].step = "activating"
  /\ Fault
  /\ switch' = [switch EXCEPT ![c].step = "no"]
  /\ UNCHANGED <<server, cookie, view, saver, polled, reloads>>

\* onProjectChange
SwitchReloads(c) ==
  /\ Ready(c)
  /\ switch[c].step = "activated"
  /\ switch' = [switch EXCEPT ![c].step = "reloading"]
  /\ reloads' = [reloads EXCEPT ![c] = @ \cup
       {[project |-> cookie[c], version |-> row[cookie[c]], switching |-> TRUE]}]
  /\ UNCHANGED <<server, cookie, view, saver, polled, budget>>

-----------------------------------------------------------------------------

ServerStep(r) == ServerRefuses(r) \/ ServerAccepts(r) \/ ServerWrites(r)
Answered(r)   == SaveSucceeds(r) \/ SaveConflicts(r)

Next ==
  \/ \E r \in requests : ServerStep(r) \/ Answered(r) \/ SaveFails(r)
  \/ \E c \in Clients :
       \/ Load(c) \/ LoadFails(c)
       \/ Edit(c) \/ SaveTimerFires(c) \/ RetryTimerFires(c) \/ Send(c)
       \/ PollReads(c) \/ PollAgrees(c) \/ PollDiffers(c)
       \/ ClickReload(c) \/ ClickKeepMine(c) \/ Reloaded(c) \/ ReloadFails(c)
       \/ \E p \in Projects : ClickSwitchFlushing(c, p) \/ ClickSwitch(c, p)
       \/ Flushed(c) \/ Activated(c) \/ ActivateFails(c) \/ SwitchReloads(c)

Spec == Init /\ [][Next]_vars

\* Timers fire, the chain moves on, and the server handles and answers what it gets.
Fairness ==
  \A c \in Clients :
    /\ WF_vars(SaveTimerFires(c))
    /\ WF_vars(RetryTimerFires(c))
    /\ WF_vars(Send(c))
    /\ WF_vars(\E r \in requests : Awaited(r) /\ r.client = c /\ (ServerStep(r) \/ Answered(r)))

FairSpec == Spec /\ Fairness

-----------------------------------------------------------------------------
(* Properties *)

Drops(i) == ~(Contents(written[i].over) \subseteq written[i].save.data)

\* The version check of save i was made, and nobody wrote between the check and the save.
Checked(i) ==
  /\ written[i].expected # 0 /\ ~written[i].save.force
  /\ written[i].found = written[i].over

\* Optimistic locking (saveWorkspaceState with expectedUpdatedAt) protects what it can: a
\* checked save drops nobody's edits, unless its client expects a version it never loaded,
\* because a conflict was shown, or the save is older than a reload.
ChecksKeepEdits ==
  \A i \in DOMAIN written : (Checked(i) /\ ~written[i].unread) => ~Drops(i)

Pending(c) == timer[c] \/ retry[c] \/ inFlight[c] \/ chain[c] # <<>>

\* When the status is "synced" with a version and nothing is left to send, all that the
\* user sees has been written to the table.
SyncedMeansSaved ==
  \A c \in Clients :
    (status[c] = "synced" /\ version[c] # 0 /\ ~Pending(c))
      => \E i \in DOMAIN written : doc[c] \subseteq written[i].save.data

\* Every edit is written in the end, unless a reload drops it, a conflict is shown, or a
\* reload takes the conflict away because the project has no saved workspace to load.
EditsReachServer ==
  \A c \in Clients, e \in Edits :
    e \in doc[c] ~> \/ \E i \in DOMAIN written : e \in written[i].save.data
                    \/ e \notin doc[c]
                    \/ status[c] = "conflict"
                    \/ version[c] = 0 /\ epoch[c] > 0

\* "Don't auto-overwrite - surface conflict state for user choice" (notebook.svelte.ts):
\* a checked save never drops edits.
NoAutoOverwrite == \A i \in DOMAIN written : Checked(i) => ~Drops(i)

\* flushPendingSave is there so that no save of the previous project lands after the
\* switch: every save is written to the project its data was loaded for.
SavesStayHome == \A i \in DOMAIN written : written[i].project = written[i].save.home
=============================================================================
