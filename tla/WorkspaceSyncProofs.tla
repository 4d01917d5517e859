-------------------------- MODULE WorkspaceSyncProofs --------------------------
(***************************************************************************)
(* Theorems about the workspace sync, for any number of browsers, projects *)
(* and edits.                                                              *)
(***************************************************************************)
EXTENDS WorkspaceSync, TLAPS

\* All that c holds and has still to send was built on S.
Keeps(c, S) ==
  /\ S \subseteq doc[c]
  /\ \A k \in DOMAIN chain[c] : chain[c][k].epoch = epoch[c] => S \subseteq chain[c][k].data

\* Before the page has loaded a workspace there is nothing to save.
IdleInv ==
  \A c \in Clients : status[c] = "idle" =>
    /\ doc[c] = {} /\ version[c] = 0
    /\ chain[c] = <<>> /\ ~inFlight[c] /\ ~timer[c] /\ ~retry[c]

\* Snapshots wait in the order they were taken in; those of the epoch only grow.
ChainInv ==
  \A c \in Clients : \A k \in DOMAIN chain[c] :
    /\ chain[c][k].epoch <= epoch[c]
    /\ chain[c][k].epoch = epoch[c] =>
         /\ chain[c][k].data \subseteq doc[c]
         /\ \A l \in DOMAIN chain[c] :
              (k < l /\ chain[c][l].epoch = epoch[c]) => chain[c][k].data \subseteq chain[c][l].data

\* A version that was loaded or saved, and not shown as a conflict.
VersionInv ==
  \A c \in Clients : (~unread[c] /\ version[c] # 0) => Keeps(c, Contents(version[c]))

\* A request carries what it expects to overwrite, and the server knows what it found.
RequestInv ==
  \A r \in requests :
    /\ r.n <= sent[r.client]
    /\ r.save.epoch <= epoch[r.client]
    /\ r.expected \in Versions
    /\ (r.expected # 0 /\ ~r.unread) => Contents(r.expected) \subseteq r.save.data
    /\ (r.step = "checked" /\ r.expected # 0 /\ ~r.save.force) => r.found \in {0, r.expected}
    /\ r.step = "saved" => r.found # 0 /\ written[r.found].save = r.save

\* A request still awaited was built before all that its client holds since.
AwaitedInv ==
  \A r \in requests :
    (Awaited(r) /\ r.save.epoch = epoch[r.client]) => Keeps(r.client, r.save.data)

\* What was overwritten is older.
HistoryInv == \A i \in DOMAIN written : written[i].over < i

Written(S) == \E i \in DOMAIN written : S \subseteq written[i].save.data

Last(q) == q[Len(q)]

\* Where the latest state of c's doc is: it has been written, waits for the debounce, is
\* the last save of the chain, or is on its way; else the user sees that it is not saved.
Tracked(c) ==
  \/ timer[c] \/ Written(doc[c])
  \/ chain[c] # <<>> /\ doc[c] \subseteq Last(chain[c]).data
  \/ /\ chain[c] = <<>> /\ inFlight[c]
     /\ \A r \in requests : (Awaited(r) /\ r.client = c) => doc[c] \subseteq r.save.data
  \/ /\ chain[c] = <<>> /\ ~inFlight[c]
     /\ retry[c] \/ status[c] # "synced" \/ version[c] = 0

TrackedInv == \A c \in Clients : Tracked(c)

SyncInv ==
  /\ TypeOK /\ IdleInv /\ ChainInv /\ VersionInv /\ RequestInv /\ AwaitedInv
  /\ HistoryInv /\ ChecksKeepEdits /\ TrackedInv

-----------------------------------------------------------------------------
(* Types *)

LEMMA InitTypeOK == Init => TypeOK
<1> SUFFICES ASSUME Init PROVE TypeOK
  OBVIOUS
<1>1. written \in Seq(Entry) /\ row \in [Projects -> Versions]
  <2>1. CASE written = <<>> /\ row = [p \in Projects |-> 0]
    BY <2>1 DEF Versions
  <2>2. ASSUME NEW p \in Projects, written = <<Saved(p)>>,
               row = [q \in Projects |-> IF q = p THEN 1 ELSE 0]
        PROVE  written \in Seq(Entry) /\ row \in [Projects -> Versions]
    <3>1. Saved(p) \in Entry
      BY BoundsAssumption DEF Saved, Entry, Save, Edits
    <3>2. written \in Seq(Entry) /\ Len(written) = 1
      BY <2>2, <3>1
    <3> QED
      BY <2>2, <3>2 DEF Versions
  <2> QED
    BY <2>1, <2>2 DEF Init
<1> QED
  BY <1>1, BoundsAssumption DEF Init, TypeOK, Versions, Switch

\* What the three bounds count stays within them.
LEMMA BudgetTypes ==
  ASSUME TypeOK
  PROVE  /\ Fault => edits' \in 0..MaxEdits /\ faults' \in 0..MaxFaults /\ clicks' \in 0..MaxClicks
         /\ Click => edits' \in 0..MaxEdits /\ faults' \in 0..MaxFaults /\ clicks' \in 0..MaxClicks
BY BoundsAssumption DEF TypeOK, Fault, Click

\* The history only grows, so what was a version stays one.
LEMMA EntriesStay ==
  ASSUME TypeOK, NEW r \in requests, ServerWrites(r)
  PROVE  /\ written' \in Seq(Entry)
         /\ Len(written') = Len(written) + 1
         /\ \A i \in 1..Len(written) : written'[i] = written[i]
         /\ \A n : n = Len(written) + 1 =>
              /\ written'[n].save = r.save /\ written'[n].expected = r.expected
              /\ written'[n].unread = r.unread /\ written'[n].found = r.found
              /\ written'[n].over = row[r.project]
         /\ Versions \subseteq Versions'
         /\ Len(written) + 1 \in Versions'
<1> DEFINE e == [project |-> r.project, save |-> r.save, expected |-> r.expected,
                 unread |-> r.unread, found |-> r.found, over |-> row[r.project]]
<1>0. /\ e.save = r.save /\ e.expected = r.expected /\ e.unread = r.unread
      /\ e.found = r.found /\ e.over = row[r.project]
  OBVIOUS
<1>1. e \in Entry
  BY DEF TypeOK, Request, Entry, Versions
<1>2. written' = Append(written, e) /\ written \in Seq(Entry)
  BY DEF ServerWrites, TypeOK
<1> HIDE DEF e
<1>3. /\ written' \in Seq(Entry) /\ Len(written') = Len(written) + 1
      /\ \A i \in 1..Len(written) : written'[i] = written[i]
      /\ written'[Len(written) + 1] = e
  BY <1>1, <1>2
<1>4. Len(written) \in Nat
  BY <1>2
<1> QED
  BY <1>0, <1>3, <1>4 DEF Versions

\* Contents of a version that exists is a set of edits.
LEMMA ContentsType ==
  ASSUME TypeOK, NEW v \in Versions
  PROVE  Contents(v) \in SUBSET Edits
<1>1. v # 0 => written[v] \in Entry
  BY DEF TypeOK, Versions
<1> QED
  BY <1>1 DEF Contents, Entry, Save

LEMMA TailElements ==
  ASSUME NEW T, NEW s \in Seq(T), s # <<>>
  PROVE  /\ 1 \in DOMAIN s /\ Head(s) = s[1]
         /\ \A k \in DOMAIN Tail(s) :
              k \in Nat \ {0} /\ k + 1 \in DOMAIN s /\ Tail(s)[k] = s[k + 1]
OBVIOUS

LEMMA ChainElements ==
  ASSUME TypeOK, NEW c \in Clients, NEW k \in DOMAIN chain[c]
  PROVE  chain[c][k] \in Save /\ chain[c][k].epoch \in Nat /\ k \in Nat
<1>1. chain[c] \in Seq(Save)
  BY DEF TypeOK
<1>2. chain[c][k] \in Save /\ k \in Nat
  BY <1>1
<1> QED
  BY <1>2 DEF Save

LEMMA SnapshotType ==
  ASSUME TypeOK, NEW c \in Clients, NEW b \in BOOLEAN
  PROVE  Append(chain[c], Snapshot(c, b)) \in Seq(Save)
<1>1. Snapshot(c, b) \in Save
  BY DEF TypeOK, Snapshot, Save
<1>2. chain[c] \in Seq(Save)
  BY DEF TypeOK
<1> HIDE DEF Snapshot
<1> QED
  BY <1>1, <1>2

\* Only a write to the table makes new versions.
LEMMA SameVersions ==
  ASSUME UNCHANGED written
  PROVE  Versions' = Versions /\ Request' = Request /\ Reload' = Reload
BY DEF Versions, Request, Reload

LEMMA SwitchType ==
  ASSUME TypeOK, NEW c \in Clients,
         NEW t \in {"no", "flushing", "activating", "activated", "reloading", "failed"}
  PROVE  [switch EXCEPT ![c].step = t] \in [Clients -> Switch]
<1>1. switch[c] \in Switch
  BY DEF TypeOK
<1>2. [switch[c] EXCEPT !.step = t] \in Switch
  BY <1>1 DEF Switch
<1> QED
  BY <1>2 DEF TypeOK

LEMMA StepTypeOK == TypeOK /\ [Next]_vars => TypeOK'
<1> SUFFICES ASSUME TypeOK, [Next]_vars PROVE TypeOK'
  OBVIOUS
<1> USE DEF server, saver, view, budget
<1>1. ASSUME NEW r \in requests, ServerRefuses(r) \/ ServerAccepts(r)
      PROVE  TypeOK'
  <2>1. \A v \in Versions, t \in {"refused", "checked"} :
          [r EXCEPT !.step = t, !.found = v] \in Request
    BY DEF TypeOK, Request
  <2>2. row[r.project] \in Versions
    BY DEF TypeOK, Request
  <2>3. requests' \subseteq Request /\ UNCHANGED written
    BY <1>1, <2>1, <2>2 DEF ServerRefuses, ServerAccepts, Proceed, TypeOK
  <2> QED
    BY <1>1, <2>3, SameVersions DEF ServerRefuses, ServerAccepts, TypeOK
<1>2. ASSUME NEW r \in requests, ServerWrites(r)
      PROVE  TypeOK'
  <2>1. row' \in [Projects -> Versions'] /\ version' \in [Clients -> Versions']
        /\ polled' \in [Clients -> SUBSET Versions']
    BY <1>2, EntriesStay DEF ServerWrites, TypeOK
  <2>2. Request \subseteq Request' /\ Reload \subseteq Reload'
    BY <1>2, EntriesStay DEF Request, Reload
  <2>3. [r EXCEPT !.step = "saved", !.found = Len(written) + 1] \in Request'
    <3>1. r \in Request'
      BY <2>2 DEF TypeOK
    <3>2. Len(written) + 1 \in Versions'
      BY <1>2, EntriesStay
    <3> QED
      BY <3>1, <3>2 DEF Request
  <2>4. requests' \subseteq Request' /\ reloads' \in [Clients -> SUBSET Reload']
    BY <1>2, <2>2, <2>3 DEF ServerWrites, Proceed, TypeOK
  <2> QED
    BY <1>2, <2>1, <2>4, EntriesStay DEF ServerWrites, TypeOK
<1>3. ASSUME NEW r \in requests, SaveSucceeds(r) \/ SaveConflicts(r)
      PROVE  TypeOK'
  <2>1. r.client \in Clients /\ r.found \in Versions /\ UNCHANGED written
    BY <1>3 DEF TypeOK, Request, SaveSucceeds, SaveConflicts
  <2> QED
    BY <1>3, <2>1, SameVersions DEF SaveSucceeds, SaveConflicts, TypeOK
<1>4. ASSUME NEW r \in requests, SaveFails(r)
      PROVE  TypeOK'
  <2>1. r.client \in Clients /\ UNCHANGED written
    BY <1>4 DEF TypeOK, Request, SaveFails
  <2> QED
    BY <1>4, <2>1, SameVersions, BudgetTypes DEF SaveFails, TypeOK
<1>5. ASSUME NEW c \in Clients, Load(c)
      PROVE  TypeOK'
  <2>1. row[cookie[c]] \in Versions /\ Contents(row[cookie[c]]) \in SUBSET Edits
    BY ContentsType DEF TypeOK
  <2>2. doc' \in [Clients -> SUBSET Edits] /\ version' \in [Clients -> Versions] /\ UNCHANGED written
    BY <1>5, <2>1 DEF Load, TypeOK
  <2> QED
    BY <1>5, <2>2, SameVersions DEF Load, TypeOK
<1>5a. ASSUME NEW c \in Clients, LoadFails(c)
       PROVE  TypeOK'
  <2>1. PICK v \in {0} \cup {k \in DOMAIN written : written[k].project = cookie[c]} :
          doc' = [doc EXCEPT ![c] = Contents(v)]
    BY <1>5a DEF LoadFails
  <2>2. v \in Versions
    BY DEF TypeOK, Versions
  <2>3. doc' \in [Clients -> SUBSET Edits] /\ UNCHANGED written
    BY <1>5a, <2>1, <2>2, ContentsType DEF LoadFails, TypeOK
  <2> QED
    BY <1>5a, <2>3, SameVersions, BudgetTypes DEF LoadFails, TypeOK
<1>6. ASSUME NEW c \in Clients, Edit(c)
      PROVE  TypeOK'
  <2>1. edits' \in Edits /\ UNCHANGED written
    BY <1>6, BoundsAssumption DEF Edit, TypeOK, Edits
  <2> QED
    BY <1>6, <2>1, SameVersions DEF Edit, TypeOK, Edits
<1>7. ASSUME NEW c \in Clients, SaveTimerFires(c)
      PROVE  TypeOK'
  <2>1. UNCHANGED written /\ Append(chain[c], Snapshot(c, FALSE)) \in Seq(Save)
    BY <1>7, SnapshotType DEF SaveTimerFires
  <2>2. chain' \in [Clients -> Seq(Save)]
    BY <1>7, <2>1 DEF SaveTimerFires, TypeOK
  <2> QED
    BY <1>7, <2>1, <2>2, SameVersions DEF SaveTimerFires, TypeOK
<1>7a. ASSUME NEW c \in Clients, RetryTimerFires(c)
       PROVE  TypeOK'
  BY <1>7a, SameVersions DEF RetryTimerFires, TypeOK
<1>8. ASSUME NEW c \in Clients, Send(c)
      PROVE  TypeOK'
  <2>1. Head(chain[c]) \in Save /\ Tail(chain[c]) \in Seq(Save) /\ UNCHANGED written
    BY <1>8 DEF Send, TypeOK
  <2>2. version[c] \in Nat /\ 0 \in Versions /\ sent[c] + 1 \in Nat
    BY DEF TypeOK, Versions
  <2>3. (unread[c] \/ Head(chain[c]).epoch # epoch[c]) \in BOOLEAN
    OBVIOUS
  <2>4. [client |-> c, n |-> sent[c] + 1, project |-> cookie[c], save |-> Head(chain[c]),
         expected |-> version[c], unread |-> unread[c] \/ Head(chain[c]).epoch # epoch[c],
         step |-> "sent", found |-> 0] \in Request
    BY <2>1, <2>2, <2>3 DEF TypeOK, Request
  <2>5. requests' \subseteq Request
    BY <1>8, <2>4 DEF Send, TypeOK
  <2> QED
    BY <1>8, <2>1, <2>2, <2>5, SameVersions DEF Send, TypeOK
<1>9. ASSUME NEW c \in Clients, PollReads(c)
      PROVE  TypeOK'
  <2>1. {row[cookie[c]]} \in SUBSET Versions /\ UNCHANGED written
    BY <1>9 DEF PollReads, TypeOK
  <2> QED
    BY <1>9, <2>1, SameVersions DEF PollReads, TypeOK
<1>9a. ASSUME NEW c \in Clients, PollAgrees(c) \/ PollDiffers(c)
       PROVE  TypeOK'
  <2>1. UNCHANGED written /\ polled' = [polled EXCEPT ![c] = {}]
    BY <1>9a DEF PollAgrees, PollDiffers
  <2>2. polled' \in [Clients -> SUBSET Versions]
    BY <2>1 DEF TypeOK
  <2>3. version' \in [Clients -> Versions]
    <3>1. polled[c] \subseteq Versions
      BY DEF TypeOK
    <3>2. CASE PollAgrees(c)
      BY <3>2 DEF PollAgrees, TypeOK
    <3>3. CASE PollDiffers(c)
      BY <3>1, <3>3 DEF PollDiffers, TypeOK
    <3> QED
      BY <1>9a, <3>2, <3>3
  <2> QED
    BY <1>9a, <2>1, <2>2, <2>3, SameVersions DEF PollAgrees, PollDiffers, TypeOK
<1>10. ASSUME NEW c \in Clients, ClickReload(c)
       PROVE  TypeOK'
  <2>1. [project |-> cookie[c], version |-> row[cookie[c]], switching |-> FALSE] \in Reload
    BY DEF TypeOK, Reload
  <2>2. reloads' \in [Clients -> SUBSET Reload] /\ UNCHANGED written
    BY <1>10, <2>1 DEF ClickReload, TypeOK
  <2> QED
    BY <1>10, <2>2, SameVersions, BudgetTypes DEF ClickReload, TypeOK
<1>10a. ASSUME NEW c \in Clients, ClickKeepMine(c)
        PROVE  TypeOK'
  <2>1. Append(chain[c], Snapshot(c, TRUE)) \in Seq(Save)
    BY SnapshotType
  <2>2. chain' \in [Clients -> Seq(Save)] /\ UNCHANGED written
    BY <1>10a, <2>1 DEF ClickKeepMine, TypeOK
  <2> QED
    BY <1>10a, <2>2, SameVersions, BudgetTypes DEF ClickKeepMine, TypeOK
<1>11. ASSUME NEW c \in Clients, Reloaded(c)
       PROVE  TypeOK'
  <2>1. PICK r \in reloads[c] : Reloaded(c)!(r)
    BY <1>11 DEF Reloaded
  <2>2. r \in Reload /\ r.project \in Projects /\ r.version \in Versions /\ UNCHANGED written
    BY <2>1 DEF TypeOK, Reload
  <2>3. doc' \in [Clients -> SUBSET Edits] /\ switch' \in [Clients -> Switch]
    BY <2>1, <2>2, ContentsType, SwitchType DEF TypeOK, SwitchEnds
  <2> QED
    BY <2>1, <2>2, <2>3, SameVersions DEF TypeOK
<1>12. ASSUME NEW c \in Clients, ReloadFails(c)
       PROVE  TypeOK'
  <2>1. switch' \in [Clients -> Switch] /\ UNCHANGED written
    <3>1. [switch EXCEPT ![c].step = "failed"] \in [Clients -> Switch]
      BY SwitchType
    <3> QED
      BY <1>12, <3>1 DEF ReloadFails, SwitchEnds, TypeOK
  <2>2. reloads' \in [Clients -> SUBSET Reload]
    BY <1>12 DEF ReloadFails, TypeOK
  <2> QED
    BY <1>12, <2>1, <2>2, SameVersions, BudgetTypes DEF ReloadFails, TypeOK
<1>13. ASSUME NEW c \in Clients, NEW p \in Projects, ClickSwitchFlushing(c, p)
       PROVE  TypeOK'
  <2>1. Append(chain[c], Snapshot(c, FALSE)) \in Seq(Save)
    BY SnapshotType
  <2>1a. sent[c] + Len(chain[c]) + 1 \in Nat
    <3>1. chain[c] \in Seq(Save) /\ sent[c] \in Nat
      BY DEF TypeOK
    <3> QED
      BY <3>1
  <2>2. [step |-> "flushing", to |-> p, op |-> sent[c] + Len(chain[c]) + 1] \in Switch
    BY <2>1a DEF Switch
  <2>3. chain' \in [Clients -> Seq(Save)] /\ switch' \in [Clients -> Switch] /\ UNCHANGED written
    BY <1>13, <2>1, <2>2 DEF ClickSwitchFlushing, TypeOK
  <2> QED
    BY <1>13, <2>3, SameVersions, BudgetTypes DEF ClickSwitchFlushing, TypeOK
<1>13a. ASSUME NEW c \in Clients, NEW p \in Projects, ClickSwitch(c, p)
        PROVE  TypeOK'
  <2>1. [step |-> "activating", to |-> p, op |-> 0] \in Switch
    BY DEF Switch
  <2>2. switch' \in [Clients -> Switch] /\ UNCHANGED written
    BY <1>13a, <2>1 DEF ClickSwitch, TypeOK
  <2> QED
    BY <1>13a, <2>2, SameVersions, BudgetTypes DEF ClickSwitch, TypeOK
<1>14. ASSUME NEW c \in Clients, Flushed(c) \/ Activated(c) \/ ActivateFails(c)
       PROVE  TypeOK'
  <2>1. switch[c].to \in Projects
    BY DEF TypeOK, Switch
  <2>2. /\ UNCHANGED written
        /\ switch' \in [Clients -> Switch]
        /\ cookie' \in [Clients -> Projects]
    <3>1. /\ [switch EXCEPT ![c].step = "activating"] \in [Clients -> Switch]
          /\ [switch EXCEPT ![c].step = "activated"] \in [Clients -> Switch]
          /\ [switch EXCEPT ![c].step = "no"] \in [Clients -> Switch]
      BY SwitchType
    <3> QED
      BY <1>14, <2>1, <3>1 DEF Flushed, Activated, ActivateFails, TypeOK
  <2> QED
    BY <1>14, <2>2, SameVersions, BudgetTypes DEF Flushed, Activated, ActivateFails, TypeOK
<1>14a. ASSUME NEW c \in Clients, SwitchReloads(c)
        PROVE  TypeOK'
  <2>1. [project |-> cookie[c], version |-> row[cookie[c]], switching |-> TRUE] \in Reload
    BY DEF TypeOK, Reload
  <2>2. UNCHANGED written /\ reloads' \in [Clients -> SUBSET Reload]
    BY <1>14a, <2>1 DEF SwitchReloads, TypeOK
  <2>3. switch' \in [Clients -> Switch]
    BY <1>14a, SwitchType DEF SwitchReloads
  <2> QED
    BY <1>14a, <2>2, <2>3, SameVersions DEF SwitchReloads, TypeOK
<1>15. CASE UNCHANGED vars
  BY <1>15, SameVersions DEF vars, TypeOK
<1> QED
  BY <1>1, <1>2, <1>3, <1>4, <1>5, <1>5a, <1>6, <1>7, <1>7a, <1>8, <1>9, <1>9a, <1>10, <1>10a,
     <1>11, <1>12, <1>13, <1>13a, <1>14, <1>14a, <1>15
     DEF Next, ServerStep, Answered

-----------------------------------------------------------------------------
(* What the version check protects *)

\* What ties a client's copy, its chain and its requests together.
ClientInv == ChainInv /\ VersionInv /\ RequestInv /\ AwaitedInv

\* Steps that leave what the invariant is about alone.
LEMMA QuietStep ==
  ASSUME TypeOK, ClientInv,
         UNCHANGED <<written, requests, doc, version, unread, epoch, chain, inFlight, sent>>
  PROVE  ClientInv'
<1>1. ChainInv'
  BY DEF ClientInv, ChainInv
<1>2. VersionInv'
  BY DEF ClientInv, VersionInv, Keeps, Contents
<1>3. RequestInv'
  BY DEF ClientInv, RequestInv, Contents, Versions
<1>4. AwaitedInv'
  BY DEF ClientInv, AwaitedInv, Awaited, Keeps
<1> QED
  BY <1>1, <1>2, <1>3, <1>4 DEF ClientInv

\* Taking a snapshot.
LEMMA SnapshotStep ==
  ASSUME TypeOK, ClientInv, NEW c \in Clients, NEW b \in BOOLEAN,
         chain' = [chain EXCEPT ![c] = Append(@, Snapshot(c, b))],
         UNCHANGED <<written, requests, doc, version, unread, epoch, inFlight, sent>>
  PROVE  ClientInv'
<1> DEFINE s == Snapshot(c, b)
<1>1. s.data = doc[c] /\ s.epoch = epoch[c] /\ epoch[c] \in Nat
  BY DEF Snapshot, TypeOK
<1> HIDE DEF s
<1>2. chain[c] \in Seq(Save) /\ chain' = [chain EXCEPT ![c] = Append(@, s)]
  BY DEF TypeOK, s
<1>3. /\ Len(chain'[c]) = Len(chain[c]) + 1 /\ Len(chain[c]) \in Nat
      /\ \A k \in DOMAIN chain[c] : chain'[c][k] = chain[c][k]
      /\ chain'[c][Len(chain[c]) + 1] = s
      /\ DOMAIN chain'[c] = DOMAIN chain[c] \cup {Len(chain[c]) + 1}
      /\ DOMAIN chain[c] = 1..Len(chain[c])
  BY <1>2 DEF TypeOK
<1>4. \A d \in Clients : d # c => chain'[d] = chain[d]
  BY <1>2 DEF TypeOK
<1>5. \A d \in Clients : \A S : Keeps(d, S) => Keeps(d, S)'
  BY <1>1, <1>3, <1>4 DEF Keeps
<1>7. ChainInv'
  <2>1. ASSUME NEW d \in Clients, NEW k \in DOMAIN chain'[d]
        PROVE  ChainInv!(d)!(k)'
    <3>1. CASE d # c
      BY <1>4, <3>1, <2>1 DEF ClientInv, ChainInv
    <3>2. CASE d = c
      BY <1>1, <1>3, <3>2, <2>1 DEF ClientInv, ChainInv
    <3> QED
      BY <3>1, <3>2
  <2> QED
    BY <2>1 DEF ChainInv
<1>8. VersionInv'
  <2>1. \A v : Contents(v)' = Contents(v)
    BY DEF Contents
  <2> QED
    BY <1>5, <2>1 DEF ClientInv, VersionInv
<1>9. RequestInv'
  BY DEF ClientInv, RequestInv, Contents, Versions
<1>10. AwaitedInv'
  <2>1. \A r \in requests : r.client \in Clients
    BY DEF TypeOK, Request
  <2> QED
    BY <1>5, <2>1 DEF ClientInv, AwaitedInv, Awaited
<1> QED
  BY <1>7, <1>8, <1>9, <1>10 DEF ClientInv

LEMMA IdleStep == TypeOK /\ IdleInv /\ [Next]_vars => IdleInv'
<1> SUFFICES ASSUME TypeOK, IdleInv, [Next]_vars PROVE IdleInv'
  OBVIOUS
<1> USE DEF server, saver, view, budget
<1>1. ASSUME NEW r \in requests, ServerStep(r)
      PROVE  IdleInv'
  BY <1>1 DEF ServerStep, ServerRefuses, ServerAccepts, ServerWrites, IdleInv
<1>2. ASSUME NEW r \in requests, Answered(r) \/ SaveFails(r)
      PROVE  IdleInv'
  <2>1. r.client \in Clients /\ inFlight[r.client]
    BY <1>2 DEF TypeOK, Request, Answered, SaveSucceeds, SaveConflicts, SaveFails, Awaited
  <2>2. /\ status[r.client] # "idle"
        /\ \A d \in Clients : d # r.client =>
             /\ status'[d] = status[d] /\ doc'[d] = doc[d] /\ version'[d] = version[d]
             /\ chain'[d] = chain[d] /\ inFlight'[d] = inFlight[d]
             /\ timer'[d] = timer[d] /\ retry'[d] = retry[d]
    BY <1>2, <2>1 DEF Answered, SaveSucceeds, SaveConflicts, SaveFails, TypeOK, IdleInv
  <2>3. status'[r.client] # "idle"
    BY <1>2, <2>1 DEF Answered, SaveSucceeds, SaveConflicts, SaveFails, TypeOK
  <2> QED
    BY <2>2, <2>3 DEF IdleInv
<1>3. ASSUME NEW c \in Clients, Load(c) \/ LoadFails(c) \/ Edit(c)
      PROVE  IdleInv'
  <2>1. status'[c] # "idle" /\ UNCHANGED <<retry, chain, inFlight>>
    BY <1>3 DEF Load, LoadFails, Edit, TypeOK
  <2>2. \A d \in Clients : d # c => /\ status'[d] = status[d] /\ doc'[d] = doc[d]
                                    /\ version'[d] = version[d] /\ timer'[d] = timer[d]
    BY <1>3 DEF Load, LoadFails, Edit, TypeOK
  <2> QED
    BY <2>1, <2>2 DEF IdleInv
<1>4. ASSUME NEW c \in Clients, SaveTimerFires(c) \/ RetryTimerFires(c) \/ Send(c)
      PROVE  IdleInv'
  <2>1. status[c] # "idle" /\ UNCHANGED <<doc, version, status>>
    BY <1>4 DEF SaveTimerFires, RetryTimerFires, Send, IdleInv
  <2>2. \A d \in Clients : d # c => /\ chain'[d] = chain[d] /\ inFlight'[d] = inFlight[d]
                                    /\ timer'[d] = timer[d] /\ retry'[d] = retry[d]
    BY <1>4 DEF SaveTimerFires, RetryTimerFires, Send, TypeOK
  <2> QED
    BY <2>1, <2>2 DEF IdleInv
<1>5. ASSUME NEW c \in Clients,
             PollReads(c) \/ PollAgrees(c) \/ ClickReload(c) \/ ReloadFails(c)
      PROVE  IdleInv'
  BY <1>5 DEF PollReads, PollAgrees, ClickReload, ReloadFails, IdleInv
<1>5a. ASSUME NEW c \in Clients, PollDiffers(c) \/ Reloaded(c)
       PROVE  IdleInv'
  <2>1. status'[c] # "idle" /\ UNCHANGED saver
    BY <1>5a DEF PollDiffers, Reloaded, TypeOK
  <2>2. \A d \in Clients : d # c => /\ status'[d] = status[d]
                                    /\ doc'[d] = doc[d] /\ version'[d] = version[d]
    BY <1>5a DEF PollDiffers, Reloaded, TypeOK
  <2> QED
    BY <2>1, <2>2 DEF IdleInv
<1>5b. ASSUME NEW c \in Clients, ClickKeepMine(c)
       PROVE  IdleInv'
  BY <1>5b DEF ClickKeepMine, TypeOK, IdleInv
<1>6. ASSUME NEW c \in Clients, NEW p \in Projects, ClickSwitchFlushing(c, p) \/ ClickSwitch(c, p)
      PROVE  IdleInv'
  <2>1. status[c] # "idle" /\ UNCHANGED <<doc, version, status, retry, inFlight>>
    BY <1>6 DEF ClickSwitchFlushing, ClickSwitch, MaySwitch
  <2>2. \A d \in Clients : d # c => chain'[d] = chain[d] /\ timer'[d] = timer[d]
    BY <1>6 DEF ClickSwitchFlushing, ClickSwitch, TypeOK
  <2> QED
    BY <2>1, <2>2 DEF IdleInv
<1>7. ASSUME NEW c \in Clients, Flushed(c) \/ Activated(c) \/ ActivateFails(c) \/ SwitchReloads(c)
      PROVE  IdleInv'
  BY <1>7 DEF Flushed, Activated, ActivateFails, SwitchReloads, IdleInv
<1>8. CASE UNCHANGED vars
  BY <1>8 DEF vars, IdleInv
<1> QED
  BY <1>1, <1>2, <1>3, <1>4, <1>5, <1>5a, <1>5b, <1>6, <1>7, <1>8 DEF Next

LEMMA LoadStep ==
  ASSUME TypeOK, ClientInv, IdleInv, NEW c \in Clients, Load(c) \/ LoadFails(c)
  PROVE  ClientInv'
<1> USE DEF server, saver, view
<1>1. chain[c] = <<>> /\ ~inFlight[c] /\ version[c] = 0
  BY DEF Load, LoadFails, IdleInv
<1>2. /\ UNCHANGED <<written, requests, unread, epoch, chain, inFlight, sent>>
      /\ \A d \in Clients : d # c => doc'[d] = doc[d] /\ version'[d] = version[d]
  BY DEF Load, LoadFails, TypeOK
<1>3. version'[c] = 0 \/ doc'[c] = Contents(version'[c])
  BY <1>1 DEF Load, LoadFails, TypeOK
<1>4. ChainInv' /\ RequestInv'
  BY <1>1, <1>2 DEF ClientInv, ChainInv, RequestInv, Contents, Versions
<1>5. VersionInv'
  BY <1>1, <1>2, <1>3 DEF ClientInv, VersionInv, Keeps, Contents
<1>6. AwaitedInv'
  <2>1. \A r \in requests : r.client \in Clients
    BY DEF TypeOK, Request
  <2> QED
    BY <1>1, <1>2, <2>1 DEF ClientInv, AwaitedInv, Awaited, Keeps
<1> QED
  BY <1>4, <1>5, <1>6 DEF ClientInv

LEMMA EditStep ==
  ASSUME TypeOK, ClientInv, NEW c \in Clients, Edit(c)
  PROVE  ClientInv'
<1> USE DEF server
<1>1. /\ UNCHANGED <<written, requests, version, unread, epoch, chain, inFlight, sent>>
      /\ \A d \in Clients : doc[d] \subseteq doc'[d]
  BY DEF Edit, TypeOK
<1>2. \A d \in Clients : \A S : Keeps(d, S) => Keeps(d, S)'
  BY <1>1 DEF Keeps
<1>3. ChainInv' /\ RequestInv'
  BY <1>1 DEF ClientInv, ChainInv, RequestInv, Contents, Versions
<1>4. VersionInv'
  BY <1>1, <1>2 DEF ClientInv, VersionInv, Contents
<1>5. AwaitedInv'
  <2>1. \A r \in requests : r.client \in Clients
    BY DEF TypeOK, Request
  <2> QED
    BY <1>1, <1>2, <2>1 DEF ClientInv, AwaitedInv, Awaited
<1> QED
  BY <1>3, <1>4, <1>5 DEF ClientInv

\* A reload starts a new epoch: no snapshot still to be sent belongs to it.
LEMMA ReloadStep ==
  ASSUME TypeOK, ClientInv, NEW c \in Clients, Reloaded(c)
  PROVE  ClientInv'
<1> USE DEF server, saver
<1>1. PICK r \in reloads[c] : Reloaded(c)!(r)
  BY DEF Reloaded
<1>2. /\ UNCHANGED <<written, requests, chain, inFlight, sent>>
      /\ \A d \in Clients : d # c => /\ doc'[d] = doc[d] /\ version'[d] = version[d]
                                     /\ unread'[d] = unread[d] /\ epoch'[d] = epoch[d]
      /\ version'[c] = r.version /\ epoch'[c] = epoch[c] + 1
      /\ r.version # 0 => doc'[c] = Contents(r.version)
  BY <1>1 DEF TypeOK
<1>3. epoch[c] \in Nat /\ \A k \in DOMAIN chain[c] : chain[c][k].epoch \in Nat
  BY ChainElements DEF TypeOK
<1>4. /\ \A k \in DOMAIN chain[c] : chain[c][k].epoch # epoch'[c] /\ chain[c][k].epoch <= epoch'[c]
      /\ \A q \in requests : q.client = c =>
           q.save.epoch # epoch'[c] /\ q.save.epoch <= epoch'[c]
  <2>1. \A q \in requests : q.save.epoch \in Nat
    BY DEF TypeOK, Request, Save
  <2> QED
    BY <1>2, <1>3, <2>1 DEF ClientInv, ChainInv, RequestInv
<1>5. ChainInv'
  BY <1>2, <1>4 DEF ClientInv, ChainInv
<1>6. VersionInv'
  BY <1>2, <1>4 DEF ClientInv, VersionInv, Keeps, Contents
<1>7. \A q \in requests : q.client \in Clients
  BY DEF TypeOK, Request
<1>8. RequestInv'
  BY <1>2, <1>4, <1>7 DEF ClientInv, RequestInv, Contents, Versions
<1>9. AwaitedInv'
  BY <1>2, <1>4, <1>7 DEF ClientInv, AwaitedInv, Awaited, Keeps
<1> QED
  BY <1>5, <1>6, <1>8, <1>9 DEF ClientInv

\* The head of the chain goes out with the version its snapshot was built on.
LEMMA SendStep ==
  ASSUME TypeOK, ClientInv, NEW c \in Clients, Send(c)
  PROVE  ClientInv'
<1> USE DEF view
<1> DEFINE h == Head(chain[c])
           q == [client |-> c, n |-> sent[c] + 1, project |-> cookie[c], save |-> h,
                 expected |-> version[c], unread |-> unread[c] \/ h.epoch # epoch[c],
                 step |-> "sent", found |-> 0]
<1>1. /\ UNCHANGED <<written, version, unread>> /\ UNCHANGED <<doc, epoch>>
      /\ requests' = requests \cup {q}
      /\ sent' = [sent EXCEPT ![c] = @ + 1] /\ sent \in [Clients -> Nat]
      /\ inFlight' = [inFlight EXCEPT ![c] = TRUE] /\ inFlight \in [Clients -> BOOLEAN]
      /\ chain' = [chain EXCEPT ![c] = Tail(@)]
  BY DEF Send, TypeOK
<1>2. /\ 1 \in DOMAIN chain[c] /\ h = chain[c][1]
      /\ \A k \in DOMAIN chain'[c] :
           /\ k + 1 \in DOMAIN chain[c] /\ chain'[c][k] = chain[c][k + 1]
           /\ k \in Nat \ {0}
  <2>1. chain[c] # <<>> /\ chain[c] \in Seq(Save) /\ chain'[c] = Tail(chain[c])
    BY DEF Send, TypeOK
  <2> QED
    BY <2>1, TailElements
<1>3. /\ \A d \in Clients : d # c => /\ chain'[d] = chain[d]
                                     /\ sent'[d] = sent[d] /\ inFlight'[d] = inFlight[d]
      /\ \A d \in Clients : epoch'[d] = epoch[d] /\ doc'[d] = doc[d]
  BY DEF Send, TypeOK
<1>4. /\ q.client = c /\ q.n = sent[c] + 1 /\ q.save = h /\ q.expected = version[c]
      /\ q.unread = (unread[c] \/ h.epoch # epoch[c]) /\ q.step = "sent"
  OBVIOUS
<1> HIDE DEF h, q
<1>5. \A d \in Clients : \A S : Keeps(d, S) => Keeps(d, S)'
  <2>1. ASSUME NEW d \in Clients, NEW S, Keeps(d, S), NEW k \in DOMAIN chain'[d],
               chain'[d][k].epoch = epoch[d]
        PROVE  S \subseteq chain'[d][k].data
    <3>1. CASE d # c
      BY <1>3, <2>1, <3>1 DEF Keeps
    <3>2. CASE d = c
      BY <1>2, <2>1, <3>2 DEF Keeps
    <3> QED
      BY <3>1, <3>2
  <2> QED
    BY <1>3, <2>1 DEF Keeps
<1>6. ChainInv'
  <2>1. ASSUME NEW d \in Clients, NEW k \in DOMAIN chain'[d]
        PROVE  ChainInv!(d)!(k)'
    <3>1. CASE d # c
      BY <1>3, <3>1, <2>1 DEF ClientInv, ChainInv
    <3>2. CASE d = c
      <4>1. /\ k + 1 \in DOMAIN chain[c] /\ chain'[c][k] = chain[c][k + 1] /\ k \in Nat
            /\ epoch'[c] = epoch[c] /\ doc'[c] = doc[c]
        BY <1>2, <1>3, <2>1, <3>2
      <4>2. \A l \in DOMAIN chain'[c] :
              /\ l + 1 \in DOMAIN chain[c] /\ chain'[c][l] = chain[c][l + 1]
              /\ k < l => k + 1 < l + 1
        BY <1>2, <4>1
      <4> QED
        BY <3>2, <4>1, <4>2 DEF ClientInv, ChainInv
    <3> QED
      BY <3>1, <3>2
  <2> QED
    BY <2>1 DEF ChainInv
<1>7. VersionInv'
  BY <1>1, <1>5 DEF ClientInv, VersionInv, Contents
<1>8. \A r \in requests : r.client \in Clients /\ r.n \in Nat
  BY DEF TypeOK, Request
<1>9. RequestInv'
  <2>1. /\ q.n <= sent'[c] /\ q.save.epoch <= epoch[c] /\ version[c] \in Versions
        /\ sent[c] \in Nat /\ sent'[c] = sent[c] + 1
    BY <1>1, <1>2, <1>4 DEF ClientInv, ChainInv, TypeOK
  <2>2. (q.expected # 0 /\ ~q.unread) => Contents(q.expected) \subseteq q.save.data
    <3>1. ASSUME q.expected # 0, ~q.unread
          PROVE  ~unread[c] /\ version[c] # 0 /\ h.epoch = epoch[c]
      BY <1>4, <3>1
    <3>2. ASSUME ~unread[c], version[c] # 0, h.epoch = epoch[c]
          PROVE  Contents(version[c]) \subseteq h.data
      BY <1>2, <3>2 DEF ClientInv, VersionInv, Keeps
    <3> QED
      BY <1>4, <3>1, <3>2
  <2>3. \A r \in requests : r.n <= sent'[r.client]
    BY <1>3, <1>8, <2>1 DEF ClientInv, RequestInv
  <2> QED
    BY <1>1, <1>4, <2>1, <2>2, <2>3 DEF ClientInv, RequestInv, Contents, Versions
<1>10. AwaitedInv'
  <2>1. ASSUME NEW r \in requests, Awaited(r)', r.save.epoch = epoch[r.client]
        PROVE  Keeps(r.client, r.save.data)'
    <3>1. r.client # c
      <4>1. r.n <= sent[r.client] /\ sent[c] \in Nat /\ sent'[c] = sent[c] + 1
        BY <1>1 DEF ClientInv, RequestInv
      <4> QED
        BY <1>8, <2>1, <4>1 DEF Awaited
    <3>2. Awaited(r)
      BY <1>3, <1>8, <2>1, <3>1 DEF Awaited
    <3> QED
      BY <1>5, <1>8, <2>1, <3>2 DEF ClientInv, AwaitedInv
  <2>2. \A S : (h.epoch = epoch[c] /\ S = h.data) => Keeps(c, S)'
    <3>1. ASSUME h.epoch = epoch[c] PROVE h.data \subseteq doc[c]
      BY <1>2, <3>1 DEF ClientInv, ChainInv
    <3>2. ASSUME h.epoch = epoch[c], NEW k \in DOMAIN chain'[c], chain'[c][k].epoch = epoch[c]
          PROVE  h.data \subseteq chain'[c][k].data
      <4>1. k + 1 \in DOMAIN chain[c] /\ chain'[c][k] = chain[c][k + 1] /\ 1 < k + 1
        BY <1>2, <3>2
      <4> QED
        BY <1>2, <3>2, <4>1 DEF ClientInv, ChainInv
    <3> QED
      BY <1>3, <3>1, <3>2 DEF Keeps
  <2> QED
    <3>1. ASSUME NEW r \in requests', Awaited(r)', r.save.epoch = epoch'[r.client]
          PROVE  Keeps(r.client, r.save.data)'
      <4>1. CASE r = q
        <5>1. r.client = c /\ r.save.data = h.data /\ h.epoch = epoch[c]
          BY <1>3, <1>4, <3>1, <4>1
        <5> QED
          BY <2>2, <5>1
      <4>2. CASE r \in requests
        BY <1>3, <1>8, <2>1, <3>1, <4>2
      <4> QED
        BY <1>1, <4>1, <4>2
    <3> QED
      BY <3>1 DEF AwaitedInv
<1> QED
  BY <1>6, <1>7, <1>9, <1>10 DEF ClientInv

\* A success is the client's own save; a conflict is marked as unread.
LEMMA AnswerStep ==
  ASSUME TypeOK, ClientInv, NEW r \in requests, Answered(r) \/ SaveFails(r)
  PROVE  ClientInv'
<1> USE DEF saver, view
<1> DEFINE c == r.client
<1>1. c \in Clients /\ Awaited(r) /\ \A q \in requests : q.client \in Clients
  BY DEF TypeOK, Request, Answered, SaveSucceeds, SaveConflicts, SaveFails
<1>2. /\ UNCHANGED <<written, doc, epoch, chain, sent>>
      /\ requests' \subseteq requests
      /\ inFlight' = [inFlight EXCEPT ![c] = FALSE] /\ inFlight \in [Clients -> BOOLEAN]
      /\ \A d \in Clients : d # c => version'[d] = version[d] /\ unread'[d] = unread[d]
  BY <1>1 DEF Answered, SaveSucceeds, SaveConflicts, SaveFails, TypeOK
<1>3. unread'[c] \/ (version'[c] = version[c] /\ unread'[c] = unread[c])
        \/ (r.step = "saved" /\ version'[c] = r.found /\ r.save.epoch = epoch[c])
  BY <1>1 DEF Answered, SaveSucceeds, SaveConflicts, SaveFails, TypeOK
<1> HIDE DEF c
<1>4. ChainInv' /\ RequestInv'
  BY <1>2 DEF ClientInv, ChainInv, RequestInv, Contents, Versions
<1>5. r.step = "saved" => Contents(r.found) = r.save.data
  BY DEF ClientInv, RequestInv, Contents
<1>6. VersionInv'
  <2>1. ASSUME NEW d \in Clients, ~unread'[d], version'[d] # 0
        PROVE  Keeps(d, Contents(version'[d]))
    <3>1. CASE version'[d] = version[d] /\ unread'[d] = unread[d]
      BY <2>1, <3>1 DEF ClientInv, VersionInv
    <3>2. CASE d = c /\ r.step = "saved" /\ version'[c] = r.found /\ r.save.epoch = epoch[c]
      BY <1>1, <1>5, <3>2 DEF ClientInv, AwaitedInv, c
    <3> QED
      BY <1>2, <1>3, <2>1, <3>1, <3>2
  <2> QED
    BY <1>2, <2>1 DEF VersionInv, Keeps, Contents
<1>7. AwaitedInv'
  BY <1>1, <1>2 DEF ClientInv, AwaitedInv, Awaited, Keeps
<1> QED
  BY <1>4, <1>6, <1>7 DEF ClientInv

\* A poll that differs marks the version it adopts as unread.
LEMMA PollStep ==
  ASSUME TypeOK, ClientInv, NEW c \in Clients, PollDiffers(c)
  PROVE  ClientInv'
<1> USE DEF server, saver
<1>1. /\ UNCHANGED <<written, requests, doc, epoch, chain, inFlight, sent>>
      /\ unread'[c]
      /\ \A d \in Clients : d # c => version'[d] = version[d] /\ unread'[d] = unread[d]
  BY DEF PollDiffers, TypeOK
<1>2. ChainInv' /\ RequestInv'
  BY <1>1 DEF ClientInv, ChainInv, RequestInv, Contents, Versions
<1>3. AwaitedInv'
  BY <1>1 DEF ClientInv, AwaitedInv, Awaited, Keeps
<1>4. VersionInv'
  BY <1>1 DEF ClientInv, VersionInv, Keeps, Contents
<1> QED
  BY <1>2, <1>3, <1>4 DEF ClientInv

\* The server moves a request on: the history may grow, the clients stay as they are.
LEMMA ServerRequestStep ==
  ASSUME TypeOK, ClientInv, NEW r \in requests, NEW s,
         UNCHANGED <<doc, version, unread, epoch, chain, inFlight, sent>>,
         requests' \subseteq requests \cup {s},
         s.client = r.client, s.n = r.n, s.save = r.save, s.expected = r.expected,
         s.unread = r.unread,
         (s.step = "checked" /\ s.expected # 0 /\ ~s.save.force) => s.found \in {0, s.expected},
         s.step = "saved" => s.found # 0 /\ written'[s.found].save = s.save,
         \A v \in Versions : v # 0 => written'[v] = written[v],
         Versions \subseteq Versions'
  PROVE  ClientInv'
<1>1. \A v \in Versions : Contents(v)' = Contents(v)
  BY DEF Contents
<1>2. \A q \in requests : q.client \in Clients /\ q.found \in Versions /\ q.expected \in Versions
  BY DEF TypeOK, Request, ClientInv, RequestInv
<1>3. ChainInv'
  BY DEF ClientInv, ChainInv
<1>4. VersionInv'
  <2>1. version \in [Clients -> Versions]
    BY DEF TypeOK
  <2> QED
    BY <1>1, <2>1 DEF ClientInv, VersionInv, Keeps
<1>5. RequestInv'
  <2>1. ASSUME NEW q \in requests
        PROVE  RequestInv!(q)'
    BY <1>1, <1>2, <2>1 DEF ClientInv, RequestInv
  <2>2. RequestInv!(s)'
    BY <1>1, <1>2 DEF ClientInv, RequestInv
  <2> QED
    BY <2>1, <2>2 DEF RequestInv
<1>6. AwaitedInv'
  BY <1>2 DEF ClientInv, AwaitedInv, Awaited, Keeps
<1> QED
  BY <1>3, <1>4, <1>5, <1>6 DEF ClientInv

LEMMA CheckStep ==
  ASSUME TypeOK, ClientInv, NEW r \in requests, ServerRefuses(r) \/ ServerAccepts(r)
  PROVE  ClientInv'
<1> USE DEF view, saver
<1>1. UNCHANGED <<written, doc, version, unread, epoch, chain, inFlight, sent>>
  BY DEF ServerRefuses, ServerAccepts
<1>2. Versions' = Versions
  BY <1>1, SameVersions
<1>3. r \in Request
  BY DEF TypeOK
<1>4. CASE ServerRefuses(r)
  <2> DEFINE s == [r EXCEPT !.step = "refused", !.found = row[r.project]]
  <2>1. /\ s.client = r.client /\ s.n = r.n /\ s.save = r.save /\ s.expected = r.expected
        /\ s.unread = r.unread /\ s.step = "refused"
    BY <1>3 DEF Request
  <2>2. requests' \subseteq requests \cup {s}
    BY <1>4 DEF ServerRefuses, Proceed
  <2> HIDE DEF s
  <2> QED
    BY <1>1, <1>2, <2>1, <2>2, ServerRequestStep
<1>5. CASE ServerAccepts(r)
  <2> DEFINE s == [r EXCEPT !.step = "checked", !.found = row[r.project]]
  <2>1. /\ s.client = r.client /\ s.n = r.n /\ s.save = r.save /\ s.expected = r.expected
        /\ s.unread = r.unread /\ s.step = "checked" /\ s.found = row[r.project]
    BY <1>3 DEF Request
  <2>2. requests' \subseteq requests \cup {s}
    BY <1>5 DEF ServerAccepts, Proceed
  <2>3. (s.expected # 0 /\ ~s.save.force) => s.found \in {0, s.expected}
    BY <1>5, <2>1 DEF ServerAccepts, Conflicting
  <2> HIDE DEF s
  <2> QED
    BY <1>1, <1>2, <2>1, <2>2, <2>3, ServerRequestStep
<1> QED
  BY <1>4, <1>5

LEMMA WriteStep ==
  ASSUME TypeOK, ClientInv, NEW r \in requests, ServerWrites(r)
  PROVE  ClientInv'
<1> USE DEF view, saver
<1> DEFINE s == [r EXCEPT !.step = "saved", !.found = Len(written) + 1]
<1>1. UNCHANGED <<doc, version, unread, epoch, chain, inFlight, sent>>
  BY DEF ServerWrites
<1>2. /\ s.client = r.client /\ s.n = r.n /\ s.save = r.save /\ s.expected = r.expected
      /\ s.unread = r.unread /\ s.step = "saved" /\ s.found = Len(written) + 1
  BY DEF TypeOK, Request
<1>3. requests' \subseteq requests \cup {s}
  BY DEF ServerWrites, Proceed
<1>4. written'[s.found].save = s.save
  BY <1>2, EntriesStay
<1>5. Len(written) \in Nat
  BY DEF TypeOK
<1>6. s.found # 0 /\ \A v \in Versions : v # 0 => v \in 1..Len(written)
  BY <1>2, <1>5 DEF Versions
<1>7. /\ \A v \in Versions : v # 0 => written'[v] = written[v]
      /\ Versions \subseteq Versions'
  BY <1>6, EntriesStay
<1> HIDE DEF s
<1> QED
  BY <1>1, <1>2, <1>3, <1>4, <1>6, <1>7, ServerRequestStep

\* What a checked save overwrites is what its client had built on.
LEMMA WriteKeepsEdits ==
  ASSUME TypeOK, ClientInv, HistoryInv, ChecksKeepEdits, NEW r \in requests, ServerWrites(r)
  PROVE  HistoryInv' /\ ChecksKeepEdits'
<1>0. PICK n : n = Len(written) + 1
  OBVIOUS
<1>1. /\ Len(written) \in Nat /\ DOMAIN written = 1..Len(written)
      /\ DOMAIN written' = 1..n
  <2>1. written \in Seq(Entry) /\ written' \in Seq(Entry) /\ Len(written') = n
    BY <1>0, EntriesStay DEF TypeOK
  <2> QED
    BY <1>0, <2>1
<1>2. /\ \A i \in DOMAIN written : written'[i] = written[i]
      /\ written'[n].save = r.save /\ written'[n].expected = r.expected
      /\ written'[n].unread = r.unread /\ written'[n].found = r.found
      /\ written'[n].over = row[r.project]
  BY <1>0, <1>1, EntriesStay
<1>3. row[r.project] \in Versions /\ row[r.project] < n
  <2>1. row[r.project] \in Versions
    BY DEF TypeOK, Request
  <2> QED
    BY <1>0, <1>1, <2>1 DEF Versions
<1>4. \A i \in DOMAIN written : written[i].over \in Nat
  <2>1. \A i \in DOMAIN written : written[i] \in Entry
    BY DEF TypeOK
  <2> QED
    BY <2>1 DEF Entry
<1>9. DOMAIN written' = DOMAIN written \cup {n}
  BY <1>0, <1>1
<1>5. HistoryInv'
  BY <1>2, <1>3, <1>9 DEF HistoryInv
<1>6. \A v \in Versions : Contents(v)' = Contents(v)
  BY <1>1, <1>2 DEF Contents, Versions
<1>7. ASSUME NEW i \in DOMAIN written, Checked(i)', ~written'[i].unread
      PROVE  ~Drops(i)'
  <2>1. Checked(i) /\ ~written[i].unread
    BY <1>2, <1>7 DEF Checked
  <2>2. written[i].over \in Versions
    BY <1>1, <1>4 DEF HistoryInv, Versions
  <2> QED
    BY <1>2, <1>6, <2>1, <2>2 DEF ChecksKeepEdits, Drops
<1>8. ASSUME Checked(n)', ~written'[n].unread
      PROVE  ~Drops(n)'
  <2>1. r.expected # 0 /\ ~r.save.force /\ r.found = row[r.project] /\ ~r.unread
    BY <1>2, <1>8 DEF Checked
  <2>2. row[r.project] \in {0, r.expected}
    BY <2>1 DEF ClientInv, RequestInv, ServerWrites
  <2>3. Contents(row[r.project]) \subseteq r.save.data
    BY <2>1, <2>2 DEF ClientInv, RequestInv, Contents
  <2> QED
    BY <1>2, <1>3, <1>6, <2>3 DEF Drops
<1> QED
  BY <1>5, <1>7, <1>8, <1>9 DEF ChecksKeepEdits

\* Every step keeps what the version check protects.
LEMMA ProtectedStep ==
  TypeOK /\ ClientInv /\ IdleInv /\ HistoryInv /\ ChecksKeepEdits /\ [Next]_vars
    => ClientInv' /\ HistoryInv' /\ ChecksKeepEdits'
<1> SUFFICES ASSUME TypeOK, ClientInv, IdleInv, HistoryInv, ChecksKeepEdits, [Next]_vars
             PROVE  ClientInv' /\ HistoryInv' /\ ChecksKeepEdits'
  OBVIOUS
<1> USE DEF server, saver, view, budget
<1>1. UNCHANGED written => HistoryInv' /\ ChecksKeepEdits'
  BY DEF HistoryInv, ChecksKeepEdits, Checked, Drops, Contents
<1>2. ASSUME NEW r \in requests, ServerRefuses(r) \/ ServerAccepts(r)
      PROVE  ClientInv' /\ UNCHANGED written
  BY <1>2, CheckStep DEF ServerRefuses, ServerAccepts
<1>3. ASSUME NEW r \in requests, ServerWrites(r)
      PROVE  ClientInv' /\ HistoryInv' /\ ChecksKeepEdits'
  BY <1>3, WriteStep, WriteKeepsEdits
<1>4. ASSUME NEW r \in requests, Answered(r) \/ SaveFails(r)
      PROVE  ClientInv' /\ UNCHANGED written
  BY <1>4, AnswerStep DEF Answered, SaveSucceeds, SaveConflicts, SaveFails
<1>5. ASSUME NEW c \in Clients, Load(c) \/ LoadFails(c)
      PROVE  ClientInv' /\ UNCHANGED written
  BY <1>5, LoadStep DEF Load, LoadFails
<1>6. ASSUME NEW c \in Clients, Edit(c) \/ Send(c) \/ PollDiffers(c) \/ Reloaded(c)
      PROVE  ClientInv' /\ UNCHANGED written
  BY <1>6, EditStep, SendStep, PollStep, ReloadStep DEF Edit, Send, PollDiffers, Reloaded
<1>7. ASSUME NEW c \in Clients, SaveTimerFires(c) \/ ClickKeepMine(c)
      PROVE  ClientInv' /\ UNCHANGED written
  <2>1. CASE SaveTimerFires(c)
    BY <2>1, SnapshotStep DEF SaveTimerFires
  <2>2. CASE ClickKeepMine(c)
    BY <2>2, SnapshotStep DEF ClickKeepMine
  <2> QED
    BY <1>7, <2>1, <2>2
<1>8. ASSUME NEW c \in Clients, NEW p \in Projects, ClickSwitchFlushing(c, p)
      PROVE  ClientInv' /\ UNCHANGED written
  BY <1>8, SnapshotStep DEF ClickSwitchFlushing
<1>9. ASSUME NEW c \in Clients,
             \/ RetryTimerFires(c) \/ PollReads(c) \/ PollAgrees(c) \/ ClickReload(c)
             \/ ReloadFails(c) \/ Flushed(c) \/ Activated(c) \/ ActivateFails(c) \/ SwitchReloads(c)
      PROVE  ClientInv' /\ UNCHANGED written
  <2>1. UNCHANGED <<written, requests, doc, version, unread, epoch, chain, inFlight, sent>>
    BY <1>9 DEF RetryTimerFires, PollReads, PollAgrees, ClickReload, ReloadFails, Flushed,
                Activated, ActivateFails, SwitchReloads
  <2> QED
    BY <2>1, QuietStep
<1>10. ASSUME NEW c \in Clients, NEW p \in Projects, ClickSwitch(c, p)
       PROVE  ClientInv' /\ UNCHANGED written
  BY <1>10, QuietStep DEF ClickSwitch
<1>11. CASE UNCHANGED vars
  BY <1>1, <1>11, QuietStep DEF vars
<1> QED
  BY <1>1, <1>2, <1>3, <1>4, <1>5, <1>6, <1>7, <1>8, <1>9, <1>10, <1>11 DEF Next, ServerStep

-----------------------------------------------------------------------------
(* What "synced" means *)

\* A client is tracked as before when nothing of its own changes.
LEMMA TrackedOthers ==
  ASSUME NEW d \in Clients, Tracked(d),
         timer'[d] = timer[d], doc'[d] = doc[d], chain'[d] = chain[d], inFlight'[d] = inFlight[d],
         retry'[d] = retry[d], status'[d] = status[d], version'[d] = version[d],
         sent'[d] = sent[d],
         \A r \in requests' : r.client = d => r \in requests,
         Written(doc[d]) => Written(doc[d])'
  PROVE  Tracked(d)'
BY DEF Tracked, Awaited

\* Steps of the server change no client, and its history only grows.
LEMMA TrackedServer ==
  ASSUME TypeOK, NEW r \in requests, ServerStep(r), NEW d \in Clients, Tracked(d)
  PROVE  Tracked(d)'
<1> USE DEF view, saver
<1>1. UNCHANGED <<view, saver>>
  BY DEF ServerStep, ServerRefuses, ServerAccepts, ServerWrites
<1>2. \A S : Written(S) => Written(S)'
  <2>1. CASE ServerWrites(r)
    <3>1. written \in Seq(Entry) /\ written' \in Seq(Entry) /\ Len(written') = Len(written) + 1
          /\ \A i \in 1..Len(written) : written'[i] = written[i]
      BY <2>1, EntriesStay DEF TypeOK
    <3>2. \A i \in DOMAIN written : i \in DOMAIN written' /\ written'[i] = written[i]
      BY <3>1
    <3> QED
      BY <3>2 DEF Written
  <2>2. CASE UNCHANGED written
    BY <2>2 DEF Written
  <2> QED
    BY <2>1, <2>2 DEF ServerStep, ServerRefuses, ServerAccepts
<1>3. \A q \in requests' : \E o \in requests :
         q.client = o.client /\ q.n = o.n /\ q.save = o.save
  <2>1. r \in Request
    BY DEF TypeOK
  <2>2. PICK t \in {"refused", "checked", "saved"}, v \in Nat :
          requests' \subseteq requests \cup {[r EXCEPT !.step = t, !.found = v]}
    <3>1. row[r.project] \in Nat /\ Len(written) + 1 \in Nat
      <4>1. Len(written) \in Nat
        BY DEF TypeOK
      <4>2. r.project \in Projects
        BY DEF TypeOK, Request
      <4>3. row[r.project] \in 0..Len(written)
        BY <4>2 DEF TypeOK, Versions
      <4> QED
        BY <4>1, <4>3
    <3>2. CASE ServerRefuses(r)
      BY <3>1, <3>2 DEF ServerRefuses, Proceed
    <3>3. CASE ServerAccepts(r)
      BY <3>1, <3>3 DEF ServerAccepts, Proceed
    <3>4. CASE ServerWrites(r)
      BY <3>1, <3>4 DEF ServerWrites, Proceed
    <3> QED
      BY <3>2, <3>3, <3>4 DEF ServerStep
  <2>3. [r EXCEPT !.step = t, !.found = v].client = r.client
        /\ [r EXCEPT !.step = t, !.found = v].n = r.n
        /\ [r EXCEPT !.step = t, !.found = v].save = r.save
    BY <2>1 DEF Request
  <2> QED
    BY <2>2, <2>3
<1>4. Written(doc[d]) => Written(doc[d])'
  BY <1>1, <1>2 DEF Written
<1> QED
  BY <1>1, <1>3, <1>4 DEF Tracked, Awaited

LEMMA TrackedAnswer ==
  ASSUME TypeOK, ClientInv, NEW r \in requests, Answered(r) \/ SaveFails(r),
         NEW d \in Clients, Tracked(d)
  PROVE  Tracked(d)'
<1> USE DEF saver, view
<1>1. r.client \in Clients /\ Awaited(r) /\ r \in Request
  BY DEF TypeOK, Request, Answered, SaveSucceeds, SaveConflicts, SaveFails
<1>2. /\ UNCHANGED <<written, timer, doc, chain, sent>>
      /\ requests' \subseteq requests
      /\ \A e \in Clients : e # r.client =>
           /\ inFlight'[e] = inFlight[e] /\ retry'[e] = retry[e]
           /\ status'[e] = status[e] /\ version'[e] = version[e]
      /\ inFlight[r.client] /\ ~inFlight'[r.client]
  BY <1>1 DEF Answered, SaveSucceeds, SaveConflicts, SaveFails, Awaited, TypeOK
<1>3. Written(doc[d]) => Written(doc[d])'
  BY <1>2 DEF Written
<1>4. CASE d # r.client
  BY <1>2, <1>3, <1>4, TrackedOthers
<1>5. CASE d = r.client
  <2>1. r.step = "saved" => Written(r.save.data)
    <3>1. r.found \in 0..Len(written) /\ Len(written) \in Nat /\ DOMAIN written = 1..Len(written)
      BY <1>1 DEF Request, Versions, TypeOK
    <3>2. r.step = "saved" => r.found \in DOMAIN written /\ written[r.found].save = r.save
      BY <3>1 DEF ClientInv, RequestInv
    <3> QED
      BY <3>2 DEF Written
  <2>2. \/ r.step = "saved"
        \/ status'[d] # "synced"
    BY <1>1, <1>5 DEF Answered, SaveSucceeds, SaveConflicts, SaveFails, TypeOK
  <2>3. (r.step = "saved" /\ doc[d] \subseteq r.save.data) => Written(doc[d])
    BY <2>1 DEF Written
  <2> QED
    BY <1>1, <1>2, <1>3, <1>5, <2>2, <2>3 DEF Tracked
<1> QED
  BY <1>4, <1>5

LEMMA TrackedSnapshot ==
  ASSUME TypeOK, NEW c \in Clients, NEW b \in BOOLEAN,
         chain' = [chain EXCEPT ![c] = Append(@, Snapshot(c, b))], UNCHANGED doc
  PROVE  Tracked(c)'
<1>1. chain[c] \in Seq(Save) /\ chain'[c] = Append(chain[c], Snapshot(c, b))
      /\ chain'[c] \in Seq(Save)
  BY SnapshotType DEF TypeOK
<1>2. Snapshot(c, b).data = doc[c]
  BY DEF Snapshot
<1>3. chain'[c] # <<>> /\ chain'[c][Len(chain'[c])] = Snapshot(c, b)
  <2> HIDE DEF Snapshot
  <2> QED
    BY <1>1
<1> QED
  BY <1>2, <1>3 DEF Tracked, Last

LEMMA LastElement ==
  ASSUME NEW T, NEW s \in Seq(T), s # <<>>
  PROVE  Len(s) \in Nat \ {0} /\ Len(Tail(s)) = Len(s) - 1 /\ Head(s) = s[1] /\ Tail(s) \in Seq(T)
OBVIOUS

LEMMA TailLast ==
  ASSUME NEW T, NEW s \in Seq(T), s # <<>>
  PROVE  \/ Tail(s) # <<>> /\ Last(Tail(s)) = Last(s)
         \/ Tail(s) = <<>> /\ Head(s) = Last(s)
<1>1. CASE Tail(s) = <<>>
  <2>1. Len(s) = 1
    <3>1. Len(<<>>) = 0
      OBVIOUS
    <3>2. Len(Tail(s)) = 0
      BY <1>1, <3>1, Zenon
    <3> QED
      BY <3>2, LastElement
  <2> QED
    BY <1>1, <2>1, LastElement DEF Last
<1>2. CASE Tail(s) # <<>>
  <2>1. Len(Tail(s)) \in Nat \ {0} /\ Len(s) \in Nat \ {0} /\ Len(Tail(s)) = Len(s) - 1
    BY <1>2, LastElement
  <2>2. \A k \in 1..(Len(s) - 1) : Tail(s)[k] = s[k + 1]
    OBVIOUS
  <2>3. Tail(s)[Len(s) - 1] = s[(Len(s) - 1) + 1]
    BY <2>1, <2>2
  <2> QED
    BY <1>2, <2>1, <2>3 DEF Last
<1> QED
  BY <1>1, <1>2

LEMMA TrackedSend ==
  ASSUME TypeOK, ClientInv, NEW c \in Clients, Send(c), Tracked(c)
  PROVE  Tracked(c)'
<1> USE DEF view
<1>1. /\ UNCHANGED <<written, doc, timer>> /\ inFlight'[c] /\ ~inFlight[c]
      /\ chain[c] # <<>> /\ chain[c] \in Seq(Save) /\ chain'[c] = Tail(chain[c])
      /\ sent'[c] = sent[c] + 1 /\ sent[c] \in Nat
  BY DEF Send, TypeOK
<1>2. \A r \in requests' : (r.client = c /\ r.n = sent'[c]) => r.save = Head(chain[c])
  <2>1. \A r \in requests : r.n \in Nat /\ r.n <= sent[r.client]
    BY DEF ClientInv, RequestInv, TypeOK, Request
  <2>2. \A r \in requests' : r \in requests \/ r.save = Head(chain[c])
    BY DEF Send
  <2> QED
    BY <1>1, <2>1, <2>2
<1>3. \/ chain'[c] # <<>> /\ Last(chain'[c]) = Last(chain[c])
      \/ chain'[c] = <<>> /\ Head(chain[c]) = Last(chain[c])
  BY <1>1, TailLast
<1>4. timer[c] \/ Written(doc[c]) \/ doc[c] \subseteq Last(chain[c]).data
  BY <1>1 DEF Tracked
<1>5. Written(doc[c]) => Written(doc[c])'
  BY <1>1 DEF Written
<1> QED
  BY <1>1, <1>2, <1>3, <1>4, <1>5 DEF Tracked, Awaited

LEMMA TrackedLoad ==
  ASSUME TypeOK, IdleInv, NEW c \in Clients, Load(c) \/ LoadFails(c) \/ Reloaded(c), Tracked(c)
  PROVE  Tracked(c)'
<1> USE DEF server, saver, view
<1>1. UNCHANGED <<written, requests, timer, retry, chain, inFlight, sent>>
  BY DEF Load, LoadFails, Reloaded
<1>2. ASSUME NEW v \in Versions, v # 0, doc'[c] = Contents(v)
      PROVE  Written(doc[c])'
  <2>1. v \in DOMAIN written
    BY <1>2 DEF Versions, TypeOK
  <2> QED
    BY <1>1, <1>2, <2>1 DEF Written, Contents
<1>3. CASE Load(c)
  <2>1. row[cookie[c]] \in Versions /\ doc'[c] = Contents(row[cookie[c]])
        /\ version'[c] = row[cookie[c]]
    BY <1>3 DEF Load, TypeOK
  <2>2. chain[c] = <<>> /\ ~inFlight[c]
    BY <1>3 DEF Load, IdleInv
  <2> QED
    BY <1>1, <1>2, <2>1, <2>2 DEF Tracked
<1>4. CASE LoadFails(c)
  <2>1. chain[c] = <<>> /\ ~inFlight[c] /\ status'[c] = "offline"
    BY <1>4 DEF LoadFails, IdleInv, TypeOK
  <2> QED
    BY <1>1, <2>1 DEF Tracked
<1>5. CASE Reloaded(c)
  <2>1. PICK r \in reloads[c] : Reloaded(c)!(r)
    BY <1>5 DEF Reloaded
  <2>2. r.version \in Versions
    BY DEF TypeOK, Reload
  <2>3. /\ version'[c] = r.version
        /\ r.version = 0 => doc'[c] = doc[c]
        /\ r.version # 0 => doc'[c] = Contents(r.version)
    BY <2>1 DEF TypeOK
  <2>4. CASE r.version = 0
    <3>1. Written(doc[c]) => Written(doc[c])'
      BY <1>1, <2>3, <2>4 DEF Written
    <3> QED
      BY <1>1, <2>3, <2>4, <3>1 DEF Tracked, Awaited
  <2>5. CASE r.version # 0
    BY <1>2, <2>2, <2>3, <2>5 DEF Tracked
  <2> QED
    BY <2>4, <2>5
<1> QED
  BY <1>3, <1>4, <1>5

LEMMA TrackedStep ==
  TypeOK /\ ClientInv /\ IdleInv /\ TrackedInv /\ [Next]_vars => TrackedInv'
<1> SUFFICES ASSUME TypeOK, ClientInv, IdleInv, TrackedInv, [Next]_vars, NEW d \in Clients
             PROVE  Tracked(d)'
  BY DEF TrackedInv
<1> USE DEF server, saver, view, budget
<1>0. Tracked(d) /\ (UNCHANGED <<written, doc>> => (Written(doc[d]) => Written(doc[d])'))
  BY DEF TrackedInv, Written
<1>1. ASSUME NEW r \in requests, ServerStep(r) \/ Answered(r) \/ SaveFails(r)
      PROVE  Tracked(d)'
  BY <1>0, <1>1, TrackedServer, TrackedAnswer
<1>2. ASSUME NEW c \in Clients, Load(c) \/ LoadFails(c) \/ Reloaded(c)
      PROVE  Tracked(d)'
  <2>1. CASE d = c
    BY <1>0, <1>2, <2>1, TrackedLoad
  <2>2. CASE d # c
    <3>1. UNCHANGED <<written, requests, timer, retry, chain, inFlight, sent>>
          /\ doc'[d] = doc[d] /\ version'[d] = version[d] /\ status'[d] = status[d]
      BY <1>2, <2>2 DEF Load, LoadFails, Reloaded, TypeOK
    <3> QED
      BY <1>0, <3>1 DEF Tracked, Awaited, Written
  <2> QED
    BY <2>1, <2>2
<1>3. ASSUME NEW c \in Clients, Edit(c)
      PROVE  Tracked(d)'
  <2>1. CASE d = c
    BY <1>3, <2>1 DEF Edit, TypeOK, Tracked
  <2>2. CASE d # c
    <3>1. UNCHANGED <<written, requests, version, status, retry, chain, inFlight, sent>>
          /\ doc'[d] = doc[d] /\ timer'[d] = timer[d]
      BY <1>3, <2>2 DEF Edit, TypeOK
    <3> QED
      BY <1>0, <3>1 DEF Tracked, Awaited, Written
  <2> QED
    BY <2>1, <2>2
<1>4. ASSUME NEW c \in Clients, NEW b \in BOOLEAN,
             chain' = [chain EXCEPT ![c] = Append(@, Snapshot(c, b))],
             timer' = timer \/ timer' = [timer EXCEPT ![c] = FALSE],
             UNCHANGED <<server, view, retry, inFlight, sent>>
      PROVE  Tracked(d)'
  <2>1. CASE d = c
    BY <1>4, <2>1, TrackedSnapshot
  <2>2. CASE d # c
    <3>1. chain'[d] = chain[d] /\ timer'[d] = timer[d]
      BY <1>4, <2>2 DEF TypeOK
    <3> QED
      BY <1>0, <1>4, <3>1 DEF Tracked, Awaited, Written
  <2> QED
    BY <2>1, <2>2
<1>5. ASSUME NEW c \in Clients, SaveTimerFires(c)
      PROVE  Tracked(d)'
  BY <1>4, <1>5 DEF SaveTimerFires
<1>6. ASSUME NEW c \in Clients, ClickKeepMine(c)
      PROVE  Tracked(d)'
  BY <1>4, <1>6 DEF ClickKeepMine
<1>7. ASSUME NEW c \in Clients, NEW p \in Projects, ClickSwitchFlushing(c, p)
      PROVE  Tracked(d)'
  BY <1>4, <1>7 DEF ClickSwitchFlushing
<1>8. ASSUME NEW c \in Clients, Send(c)
      PROVE  Tracked(d)'
  <2>1. CASE d = c
    BY <1>0, <1>8, <2>1, TrackedSend
  <2>2. CASE d # c
    <3>1. UNCHANGED <<written, doc, version, status, timer, retry>>
          /\ chain'[d] = chain[d] /\ inFlight'[d] = inFlight[d] /\ sent'[d] = sent[d]
          /\ \A r \in requests' : r.client = d => r \in requests
      BY <1>8, <2>2 DEF Send, TypeOK
    <3> QED
      BY <1>0, <3>1, TrackedOthers
  <2> QED
    BY <2>1, <2>2
<1>9. ASSUME NEW c \in Clients, RetryTimerFires(c) \/ PollDiffers(c)
      PROVE  Tracked(d)'
  <2>1. UNCHANGED <<written, requests, doc, chain, inFlight, sent>>
    BY <1>9 DEF RetryTimerFires, PollDiffers
  <2>2. \/ timer'[d]
        \/ /\ timer'[d] = timer[d] /\ retry'[d] = retry[d]
           /\ \/ status'[d] = "conflict"
              \/ status'[d] = status[d] /\ version'[d] = version[d]
    BY <1>9 DEF RetryTimerFires, PollDiffers, TypeOK
  <2> QED
    BY <1>0, <2>1, <2>2 DEF Tracked, Awaited, Written
<1>10. CASE UNCHANGED <<server, view, saver>>
  BY <1>0, <1>10 DEF Tracked, Awaited, Written
<1>11. ASSUME NEW c \in Clients,
              \/ PollReads(c) \/ PollAgrees(c) \/ ClickReload(c) \/ ReloadFails(c) \/ Flushed(c)
              \/ Activated(c) \/ ActivateFails(c) \/ SwitchReloads(c)
              \/ \E p \in Projects : ClickSwitch(c, p)
       PROVE  Tracked(d)'
  BY <1>10, <1>11 DEF PollReads, PollAgrees, ClickReload, ReloadFails, Flushed, Activated,
                      ActivateFails, SwitchReloads, ClickSwitch
<1>12. CASE UNCHANGED vars
  BY <1>10, <1>12 DEF vars
<1> QED
  BY <1>1, <1>2, <1>3, <1>5, <1>6, <1>7, <1>8, <1>9, <1>11, <1>12 DEF Next

-----------------------------------------------------------------------------
(* Theorems *)

LEMMA InitSync == Init => SyncInv
<1> SUFFICES ASSUME Init PROVE SyncInv
  OBVIOUS
<1>1. TypeOK
  BY InitTypeOK
<1>2. \A i \in DOMAIN written : written[i].over = 0 /\ written[i].expected = 0 /\ i \in Nat /\ i > 0
  <2>1. CASE written = <<>>
    BY <2>1
  <2>2. ASSUME NEW p \in Projects, written = <<Saved(p)>>
        PROVE  \A i \in DOMAIN written :
                 written[i].over = 0 /\ written[i].expected = 0 /\ i \in Nat /\ i > 0
    BY <2>2 DEF Saved
  <2> QED
    BY <2>1, <2>2 DEF Init
<1>3. HistoryInv /\ ChecksKeepEdits
  BY <1>2 DEF HistoryInv, ChecksKeepEdits, Checked
<1>4. IdleInv /\ ChainInv /\ VersionInv /\ RequestInv /\ AwaitedInv
  BY DEF Init, IdleInv, ChainInv, VersionInv, RequestInv, AwaitedInv
<1>5. TrackedInv
  BY DEF Init, TrackedInv, Tracked
<1> QED
  BY <1>1, <1>3, <1>4, <1>5 DEF SyncInv

LEMMA SyncStep == SyncInv /\ [Next]_vars => SyncInv'
<1> SUFFICES ASSUME SyncInv, [Next]_vars PROVE SyncInv'
  OBVIOUS
<1>1. TypeOK' /\ IdleInv'
  BY StepTypeOK, IdleStep DEF SyncInv
<1>2. ClientInv' /\ HistoryInv' /\ ChecksKeepEdits'
  BY ProtectedStep DEF SyncInv, ClientInv
<1>3. TrackedInv'
  BY TrackedStep DEF SyncInv, ClientInv
<1> QED
  BY <1>1, <1>2, <1>3 DEF SyncInv, ClientInv

\* The strengthening that the theorems below follow from is an invariant.
THEOREM SyncInvariant == Spec => []SyncInv
<1> QED
  BY InitSync, SyncStep, PTL DEF Spec

\* Every variable keeps its type; a version is always one that was written.
THEOREM TypeCorrect == Spec => []TypeOK
<1>1. SyncInv => TypeOK
  BY DEF SyncInv
<1> QED
  BY <1>1, SyncInvariant, PTL

\* A save that passed saveWorkspaceState's version check, with nobody writing between check
\* and save, drops no edit of the row it overwrites, as long as its client expects a version
\* it has loaded or saved itself.
THEOREM CheckedSavesKeepEdits == Spec => []ChecksKeepEdits
<1>1. SyncInv => ChecksKeepEdits
  BY DEF SyncInv
<1> QED
  BY <1>1, SyncInvariant, PTL

\* When the page shows "synced" and nothing is debounced, queued, retried or under way, all
\* that the user sees has been written to the table.
THEOREM SyncedIsSaved == Spec => []SyncedMeansSaved
<1>1. SyncInv => SyncedMeansSaved
  BY DEF SyncInv, TrackedInv, Tracked, Written, SyncedMeansSaved, Pending
<1> QED
  BY <1>1, SyncInvariant, PTL
=============================================================================
