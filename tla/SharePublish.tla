----------------------------- MODULE SharePublish -----------------------------
(***************************************************************************)
(* One published notebook: its row in shared_reports, its history in       *)
(* shared_report_versions and the connections its live cells use in        *)
(* shared_report_connections (src/lib/server/shared-reports.ts).           *)
(*                                                                         *)
(* Publishing, rolling back, a new link and the refresh worker are each a  *)
(* sequence of statements without a transaction.  Every statement is an    *)
(* action; op[c] holds the locals of the function that caller c is in.  A  *)
(* statement that fails, or a server that dies, abandons the function      *)
(* where it is.                                                            *)
(*                                                                         *)
(* The history follows a new token (ON UPDATE CASCADE), the connections do *)
(* not: rows of the two tables always carry the token of the report's row, *)
(* and an INSERT with any other token violates the foreign key.  Tokens    *)
(* are numbered in the order they are generated.                           *)
(***************************************************************************)
EXTENDS Naturals, FiniteSets

CONSTANTS
  Publishers,      \* request handlers: publish, roll back, revoke, new link
  Refresher,       \* share-refresh-worker.ts
  Snapshots,
  NoSnapshot,
  Uses,            \* the connections the live cells of a snapshot use
  Retention,       \* VERSION_RETENTION
  MaxShareOps,     \* bound: operations begun
  MaxShareFaults   \* bound: failed statements and reads

ASSUME RefresherAssumption == Refresher \notin Publishers
ASSUME SnapshotAssumption  == NoSnapshot \notin Snapshots
ASSUME RetentionAssumption == Retention \in Nat \ {0}

VARIABLES
  share,        \* the row; token 0 and version 0 before the first publish
  versions,     \* the history: one row per version
  shareConns,   \* the connections kept for the report
  minted,       \* tokens generated so far
  op,           \* per caller: the function it is in and its locals
  acked,        \* publishes whose caller was told they succeeded
  shareOps,
  shareFaults

shareVars == <<share, versions, shareConns, minted, op, acked, shareOps, shareFaults>>

Callers     == Publishers \cup {Refresher}
Connections == UNION {Uses[s] : s \in Snapshots}

NotPublished == [token |-> 0, snap |-> NoSnapshot, version |-> 0, revoked |-> FALSE]

\* conns is the list the function writes, todo what it has not written yet.
\* alone: no other operation was under way since this one began; overtaken: the
\* report was revoked since this one looked whether it is.
Idle == [kind |-> "none", at |-> "idle", token |-> 0, version |-> 0, snap |-> NoSnapshot,
         conns |-> {}, todo |-> {}, alone |-> FALSE, overtaken |-> FALSE]

Kinds == {"none", "publish", "rollback", "refresh", "regenerate"}
Steps == {"idle", "check", "target", "conns", "read", "upsert", "record", "trim", "clear",
          "move", "store", "saved"}

ShareTypeOK ==
  /\ share \in [token : Nat, snap : Snapshots \cup {NoSnapshot}, version : Nat,
                revoked : BOOLEAN]
  /\ versions \subseteq [version : Nat, snap : Snapshots]
  /\ shareConns \subseteq Connections
  /\ minted \in Nat
  /\ op \in [Callers -> [kind : Kinds, at : Steps, token : Nat, version : Nat,
                         snap : Snapshots \cup {NoSnapshot}, conns : SUBSET Connections,
                         todo : SUBSET Connections, alone : BOOLEAN, overtaken : BOOLEAN]]
  /\ acked \subseteq [version : Nat, snap : Snapshots]
  /\ shareOps \in Nat
  /\ shareFaults \in Nat

ShareInit ==
  /\ share = NotPublished
  /\ versions = {}
  /\ shareConns = {}
  /\ minted = 0
  /\ op = [c \in Callers |-> Idle]
  /\ acked = {}
  /\ shareOps = 0
  /\ shareFaults = 0

Exists     == share.token # 0
InStep(c, pc) == op[c].at = pc
Current(c) == op[c].token = share.token
Goes(c, pc) == op' = [op EXCEPT ![c].at = pc]
Throws(c)   == op' = [op EXCEPT ![c] = Idle]

\* Caller c enters a function with the locals l; whoever is under way is no longer alone.
Begins(c, l) ==
  /\ InStep(c, "idle")
  /\ shareOps < MaxShareOps
  /\ shareOps' = shareOps + 1
  /\ op' = [d \in Callers |->
              IF d = c THEN [l EXCEPT !.alone = \A e \in Callers : InStep(e, "idle")]
              ELSE [op[d] EXCEPT !.alone = FALSE]]

-----------------------------------------------------------------------------
(* upsertShare *)

\* What the function takes from the row it has read; a read that fails counts
\* as "no row".
FromRow(l, row) ==
  [l EXCEPT !.at = "upsert", !.version = row.version + 1,
            !.token = IF row.token = 0 THEN minted + 1 ELSE row.token]

Reads(row) ==
  /\ \/ row = share /\ UNCHANGED shareFaults
     \/ row = NotPublished /\ shareFaults < MaxShareFaults /\ shareFaults' = shareFaults + 1
  /\ minted' = IF row.token = 0 THEN minted + 1 ELSE minted

\* A user publishes snapshot s with the connections it uses.
Publish(c, s) ==
  /\ \E row \in {share, NotPublished} :
       /\ Reads(row)
       /\ Begins(c, FromRow([Idle EXCEPT !.kind = "publish", !.snap = s, !.conns = Uses[s]], row))
  /\ UNCHANGED <<share, versions, shareConns, acked>>

\* The same read, for a rollback and for a refresh.
UpsertRead(c) ==
  /\ InStep(c, "read")
  /\ \E row \in {share, NotPublished} :
       /\ Reads(row)
       /\ op' = [op EXCEPT ![c] = FromRow(@, row)]
  /\ UNCHANGED <<share, versions, shareConns, acked, shareOps>>

\* Faulty variant: the token is taken from the INSERT as well.
Upserted_Token(c) == [token |-> op[c].token, snap |-> op[c].snap,
                      version |-> op[c].version, revoked |-> FALSE]

\* INSERT ... ON CONFLICT DO UPDATE: everything but the token.
Upserted(c) == [token |-> IF Exists THEN share.token ELSE op[c].token,
                snap |-> op[c].snap, version |-> op[c].version, revoked |-> FALSE]

Upsert(c) ==
  /\ InStep(c, "upsert")
  /\ share' = Upserted(c)
  /\ Goes(c, "record")
  /\ UNCHANGED <<versions, shareConns, minted, acked, shareOps, shareFaults>>

\* Faulty variant: a version that exists is overwritten.
RecordVersion_Overwrites(c) ==
  /\ InStep(c, "record")
  /\ Current(c)
  /\ versions' = {r \in versions : r.version # op[c].version}
                   \cup {[version |-> op[c].version, snap |-> op[c].snap]}
  /\ Goes(c, "trim")
  /\ UNCHANGED <<share, shareConns, minted, acked, shareOps, shareFaults>>

RecordVersion(c) ==
  /\ InStep(c, "record")
  /\ Current(c)
  /\ \A r \in versions : r.version # op[c].version
  /\ versions' = versions \cup {[version |-> op[c].version, snap |-> op[c].snap]}
  /\ Goes(c, "trim")
  /\ UNCHANGED <<share, shareConns, minted, acked, shareOps, shareFaults>>

\* UNIQUE (token, version), or the foreign key: the row has been changed already.
RecordRefused(c) ==
  /\ InStep(c, "record")
  /\ ~Current(c) \/ \E r \in versions : r.version = op[c].version
  /\ Throws(c)
  /\ UNCHANGED <<share, versions, shareConns, minted, acked, shareOps, shareFaults>>

Trim(c) ==
  /\ InStep(c, "trim")
  /\ versions' = {r \in versions : Current(c) => r.version + Retention > op[c].version}
  /\ Goes(c, "clear")
  /\ UNCHANGED <<share, shareConns, minted, acked, shareOps, shareFaults>>

\* Faulty variant: the connections of the last publish stay.
ClearConnections_None(c) ==
  /\ InStep(c, "clear")
  /\ op' = [op EXCEPT ![c].at = IF op[c].kind = "regenerate" THEN "move" ELSE "store",
                      ![c].todo = op[c].conns \ shareConns]
  /\ UNCHANGED <<share, versions, shareConns, minted, acked, shareOps, shareFaults>>

\* Of upsertShare and of regenerateShareToken.
ClearConnections(c) ==
  /\ InStep(c, "clear")
  /\ shareConns' = IF Current(c) THEN {} ELSE shareConns
  /\ op' = [op EXCEPT ![c].at = IF op[c].kind = "regenerate" THEN "move" ELSE "store",
                      ![c].todo = op[c].conns]
  /\ UNCHANGED <<share, versions, minted, acked, shareOps, shareFaults>>

StoreConnection(c) ==
  /\ InStep(c, "store")
  /\ Current(c)
  /\ \E n \in op[c].todo :
       /\ n \notin shareConns
       /\ shareConns' = shareConns \cup {n}
       /\ op' = [op EXCEPT ![c].todo = @ \ {n}]
  /\ UNCHANGED <<share, versions, minted, acked, shareOps, shareFaults>>

\* UNIQUE (token, connection_id), or the foreign key.
StoreRefused(c) ==
  /\ InStep(c, "store")
  /\ \E n \in op[c].todo : ~Current(c) \/ n \in shareConns
  /\ Throws(c)
  /\ UNCHANGED <<share, versions, shareConns, minted, acked, shareOps, shareFaults>>

StoredAll(c) ==
  /\ InStep(c, "store")
  /\ op[c].todo = {}
  /\ Goes(c, "saved")
  /\ UNCHANGED <<share, versions, shareConns, minted, acked, shareOps, shareFaults>>

\* The row is read back and the caller told.
Answer(c) ==
  /\ InStep(c, "saved")
  /\ acked' = IF op[c].kind = "regenerate" THEN acked
              ELSE acked \cup {[version |-> op[c].version, snap |-> op[c].snap]}
  /\ Throws(c)
  /\ UNCHANGED <<share, versions, shareConns, minted, shareOps, shareFaults>>

-----------------------------------------------------------------------------
(* The callers *)

\* rollbackShareToVersion: the row, the version, the connections, then upsertShare.
Rollback(c) ==
  /\ Exists
  /\ Begins(c, [Idle EXCEPT !.kind = "rollback", !.at = "target", !.token = share.token])
  /\ UNCHANGED <<share, versions, shareConns, minted, acked, shareFaults>>

\* Faulty variant: the version is not looked at before it is published.
RollbackTarget_Unchecked(c) ==
  /\ InStep(c, "target")
  /\ \/ /\ Current(c)
        /\ \E r \in versions : op' = [op EXCEPT ![c].at = "conns", ![c].snap = r.snap]
     \/ Goes(c, "conns")
  /\ UNCHANGED <<share, versions, shareConns, minted, acked, shareOps, shareFaults>>

RollbackTarget(c) ==
  /\ InStep(c, "target")
  /\ \/ /\ Current(c)
        /\ \E r \in versions : op' = [op EXCEPT ![c].at = "conns", ![c].snap = r.snap]
     \/ Throws(c)    \* "That version no longer exists."
  /\ UNCHANGED <<share, versions, shareConns, minted, acked, shareOps, shareFaults>>

\* getShareConnections, for a rollback and for a new link; a read that fails
\* counts as "no connections".
ReadConnections(c) ==
  /\ InStep(c, "conns")
  /\ \E found \in {shareConns, {}} :
       /\ \/ found = (IF Current(c) THEN shareConns ELSE {}) /\ UNCHANGED shareFaults
          \/ found = {} /\ shareFaults < MaxShareFaults /\ shareFaults' = shareFaults + 1
       /\ op' = [op EXCEPT ![c].at = IF op[c].kind = "regenerate" THEN "clear" ELSE "read",
                           ![c].conns = found]
  /\ UNCHANGED <<share, versions, shareConns, minted, acked, shareOps>>

\* runDueShareRefreshes: the due reports are listed, and the workspace is loaded ...
Refresh(s) ==
  /\ Exists /\ ~share.revoked
  /\ Begins(Refresher, [Idle EXCEPT !.kind = "refresh", !.at = "check", !.snap = s,
                                    !.conns = Uses[s]])
  /\ UNCHANGED <<share, versions, shareConns, minted, acked, shareFaults>>

\* Faulty variant: the list is taken to hold the reports that are not revoked.
RefreshChecks_Listed ==
  /\ InStep(Refresher, "check")
  /\ Goes(Refresher, "read")
  /\ UNCHANGED <<share, versions, shareConns, minted, acked, shareOps, shareFaults>>

\* ... then the row is looked at again, and after that the secrets are fetched.
RefreshChecks ==
  /\ InStep(Refresher, "check")
  /\ IF share.revoked THEN Throws(Refresher)
     ELSE op' = [op EXCEPT ![Refresher].at = "read", ![Refresher].overtaken = FALSE]
  /\ UNCHANGED <<share, versions, shareConns, minted, acked, shareOps, shareFaults>>

\* One statement; it is an operation that others overlap with.
Revoke(c) ==
  /\ InStep(c, "idle")
  /\ Exists
  /\ shareOps < MaxShareOps
  /\ shareOps' = shareOps + 1
  /\ share' = [share EXCEPT !.revoked = TRUE]
  /\ op' = [d \in Callers |-> IF InStep(d, "idle") THEN op[d]
                              ELSE [op[d] EXCEPT !.alone = FALSE,
                                                 !.overtaken = ~InStep(d, "check")]]
  /\ UNCHANGED <<versions, shareConns, minted, acked, shareFaults>>

\* regenerateShareToken: the row and the connections are read, the connections
\* deleted, the token updated where it is still the one read, the rest re-inserted.
\* (The new token is generated before the DELETE; all that matters is that it is new.)
Regenerate(c) ==
  /\ Exists
  /\ Begins(c, [Idle EXCEPT !.kind = "regenerate", !.at = "conns", !.token = share.token])
  /\ UNCHANGED <<share, versions, shareConns, minted, acked, shareFaults>>

MoveToken(c) ==
  /\ InStep(c, "move")
  /\ Current(c) => shareConns = {}
  /\ minted' = minted + 1
  /\ share' = IF Current(c) THEN [share EXCEPT !.token = minted + 1] ELSE share
  /\ op' = [op EXCEPT ![c].at = "store", ![c].token = minted + 1]
  /\ UNCHANGED <<versions, shareConns, acked, shareOps, shareFaults>>

\* A connection that refers to the old token was inserted meanwhile.
MoveRefused(c) ==
  /\ InStep(c, "move")
  /\ Current(c) /\ shareConns # {}
  /\ Throws(c)
  /\ UNCHANGED <<share, versions, shareConns, minted, acked, shareOps, shareFaults>>

\* The next statement fails, or the server dies.
StatementFails(c) ==
  /\ ~InStep(c, "idle")
  /\ shareFaults < MaxShareFaults
  /\ shareFaults' = shareFaults + 1
  /\ Throws(c)
  /\ UNCHANGED <<share, versions, shareConns, minted, acked, shareOps>>

ShareNext ==
  \/ \E c \in Publishers : \E s \in Snapshots : Publish(c, s)
  \/ \E c \in Publishers : Rollback(c) \/ RollbackTarget(c) \/ Revoke(c) \/ Regenerate(c)
  \/ \E s \in Snapshots : Refresh(s)
  \/ RefreshChecks
  \/ \E c \in Callers :
       \/ ReadConnections(c) \/ UpsertRead(c) \/ Upsert(c)
       \/ RecordVersion(c) \/ RecordRefused(c) \/ Trim(c)
       \/ ClearConnections(c) \/ MoveToken(c) \/ MoveRefused(c)
       \/ StoreConnection(c) \/ StoreRefused(c) \/ StoredAll(c)
       \/ Answer(c) \/ StatementFails(c)

ShareSpec == ShareInit /\ [][ShareNext]_shareVars

-----------------------------------------------------------------------------
(* What a published report promises *)

\* Whatever races, failed statements and crashes came before: an operation that
\* nothing overlaps and that gets to its end leaves the report whole.  After a
\* publish, a rollback or a refresh the row shows what was published, under a
\* version the history has with the same content, is not revoked, and has the
\* connections that were passed; a new link keeps the connections it found.
LoneOpsComplete ==
  \A c \in Callers : InStep(c, "saved") /\ op[c].alone =>
    /\ Current(c)
    /\ shareConns = op[c].conns
    /\ op[c].kind # "regenerate" =>
         /\ share.snap = op[c].snap /\ share.version = op[c].version /\ ~share.revoked
         /\ [version |-> op[c].version, snap |-> op[c].snap] \in versions

\* A publish whose caller was told it succeeded is in the history with its
\* version and its content, until as many versions as are kept came after it:
\* two publishes that read the same version cannot both be told so.
Recorded(p) == p \in versions \/ \E r \in versions : r.version >= p.version + Retention
AckedPublishIsRecorded == \A p \in acked : Recorded(p)

\* "Regenerate link issues a new token and invalidates the old one": no publish
\* or second new link that read the old token brings it back.
OldLinksStayDead == [][share'.token >= share.token]_share

\* The refresh worker undoes a revocation only when it came after the worker had
\* looked at the row.
RefreshSeesRevoke ==
  [][share.revoked /\ ~share'.revoked /\ op'[Refresher] # op[Refresher]
       => op[Refresher].overtaken]_share

\* "Revoke takes the page down entirely": only a user puts it up again.
RevokeTakesDown ==
  [][share.revoked /\ ~share'.revoked => op'[Refresher] = op[Refresher]]_share
=============================================================================
