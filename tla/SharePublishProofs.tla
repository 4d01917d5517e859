-------------------------- MODULE SharePublishProofs --------------------------
(***************************************************************************)
(* What is proved of a published report, for any callers, snapshots,       *)
(* connections, retention and bounds.                                      *)
(*                                                                         *)
(* The state that breaks a promise is several statements after the one     *)
(* that broke the tie, so the invariant follows a function through its     *)
(* statements: what it has recorded stays recorded (RecordedOK), one that  *)
(* nothing overlapped finds the tables as it left them (AloneOK), and a    *)
(* refresh between its check and its write knows of a revocation           *)
(* (RefreshOK).                                                            *)
(***************************************************************************)
EXTENDS SharePublish, TLAPS

Row   == [token : Nat, snap : Snapshots \cup {NoSnapshot}, version : Nat, revoked : BOOLEAN]
Entry == [version : Nat, snap : Snapshots]
Local == [kind : Kinds, at : Steps, token : Nat, version : Nat,
          snap : Snapshots \cup {NoSnapshot}, conns : SUBSET Connections,
          todo : SUBSET Connections, alone : BOOLEAN, overtaken : BOOLEAN]

Own(l) == [version |-> l.version, snap |-> l.snap]
Saves(l) == l.kind # "regenerate"
Past == {"trim", "clear", "store", "saved"}

\* Which steps belong to which function, and where a snapshot is known.
LocalOK(l) ==
  /\ l.at = "idle" => ~l.alone
  /\ Saves(l) /\ l.at \notin {"idle", "target"} => l.snap \in Snapshots
  /\ l.at = "move" => ~Saves(l)
  /\ ~Saves(l) => l.at \in {"conns", "clear", "move", "store", "saved"}

TokensInv ==
  /\ share.token <= minted
  /\ \A c \in Callers : op[c].token <= minted

RecordedOK(l) == Saves(l) /\ l.at \in Past => Recorded(Own(l))

\* A function that nothing has overlapped finds the tables as it left them.
AloneOK(l) ==
  l.alone =>
    /\ ~Saves(l) \/ l.at \in Past => l.token = share.token
    /\ Saves(l) /\ l.at \in Past \cup {"record"} =>
         share.snap = l.snap /\ share.version = l.version /\ ~share.revoked
    /\ Saves(l) /\ l.at \in Past => Own(l) \in versions
    /\ l.at = "move" => shareConns = {} /\ l.todo = l.conns
    /\ l.at = "store" => l.todo \subseteq l.conns /\ shareConns = l.conns \ l.todo
    /\ l.at = "saved" => shareConns = l.conns

\* The refresh worker has looked at the row before it writes it.
RefreshOK(l) ==
  /\ Saves(l) /\ l.at \notin {"target", "conns"}
  /\ l.at \in {"read", "upsert"} /\ share.revoked => l.overtaken

OthersIdle(c) == \A d \in Callers : d # c => op[d].at = "idle"

ShareInv ==
  /\ ShareTypeOK
  /\ TokensInv
  /\ AckedPublishIsRecorded
  /\ \A c \in Callers : LocalOK(op[c]) /\ RecordedOK(op[c]) /\ AloneOK(op[c])
  /\ \A c \in Callers : op[c].alone => OthersIdle(c)
  /\ RefreshOK(op[Refresher])

-----------------------------------------------------------------------------
(* Steps of one function *)

\* What a statement of a function that is under way leaves of the tables.
TablesKept ==
  /\ share' \in Row /\ share'.token <= minted' /\ (share'.revoked => share.revoked)
  /\ minted' \in Nat /\ minted' >= minted
  /\ versions' \subseteq Entry
  /\ \A p \in Entry : Recorded(p) => Recorded(p)'
  /\ shareConns' \subseteq Connections
  /\ acked' \subseteq Entry
  /\ \A p \in acked' : Recorded(p)'
  /\ shareOps' \in Nat /\ shareFaults' \in Nat

\* ... and of the caller's locals, which become l.
Follows(c, l) ==
  /\ op[c].at # "idle" /\ op' = [op EXCEPT ![c] = l]
  /\ LocalOK(l) /\ l.token <= minted' /\ (l.alone => op[c].alone)
  /\ RecordedOK(l)' /\ AloneOK(l)'
  /\ c = Refresher => RefreshOK(l)'

Same(l, m) ==
  /\ l.kind = m.kind /\ l.token = m.token /\ l.version = m.version /\ l.snap = m.snap
  /\ l.conns = m.conns /\ l.todo = m.todo /\ l.alone = m.alone /\ l.overtaken = m.overtaken

LEMMA OpType ==
  ASSUME ShareInv, NEW c \in Callers
  PROVE  /\ op \in [Callers -> Local] /\ op[c] \in Local /\ share \in Row
         /\ versions \subseteq Entry /\ acked \subseteq Entry
BY DEF ShareInv, ShareTypeOK, Local, Row, Entry

LEMMA LocalFields ==
  ASSUME NEW l \in Local
  PROVE  /\ l.kind \in Kinds /\ l.at \in Steps /\ l.token \in Nat /\ l.version \in Nat
         /\ l.snap \in Snapshots \cup {NoSnapshot} /\ l.conns \subseteq Connections
         /\ l.todo \subseteq Connections /\ l.alone \in BOOLEAN /\ l.overtaken \in BOOLEAN
BY DEF Local

LEMMA RefresherIsCaller == Refresher \in Callers
BY DEF Callers

LEMMA OwnEntry ==
  ASSUME NEW l \in Local, l.snap \in Snapshots
  PROVE  Own(l) \in Entry
BY LocalFields DEF Own, Entry

\* A record that keeps its place in the history while the tables are kept.
LEMMA RecordedStays ==
  ASSUME TablesKept, NEW l \in Local, LocalOK(l), RecordedOK(l)
  PROVE  RecordedOK(l)'
<1>1. CASE Saves(l) /\ l.at \in Past
  <2>1. l.snap \in Snapshots
    BY <1>1 DEF LocalOK, Past
  <2>2. Recorded(Own(l)) /\ Own(l) \in Entry
    BY <1>1, <2>1, OwnEntry DEF RecordedOK
  <2> QED BY <2>2 DEF TablesKept, RecordedOK
<1>2. CASE ~(Saves(l) /\ l.at \in Past)
  BY <1>2 DEF RecordedOK, Saves, Past
<1> QED BY <1>1, <1>2

LEMMA OwnStep ==
  ASSUME ShareInv, NEW c \in Callers, NEW l \in Local, TablesKept, Follows(c, l)
  PROVE  ShareInv'
<1>1. /\ op \in [Callers -> Local] /\ op' \in [Callers -> Local] /\ op'[c] = l
      /\ \A d \in Callers : d # c => op'[d] = op[d]
  BY OpType DEF Follows
<1>2. ShareTypeOK'
  BY <1>1 DEF TablesKept, ShareTypeOK, Row, Entry, Local
<1>3. TokensInv'
  <2>1. \A d \in Callers : op[d].token \in Nat /\ op[d].token <= minted
    BY <1>1, LocalFields DEF ShareInv, TokensInv
  <2>2. minted \in Nat /\ minted' \in Nat /\ minted <= minted' /\ share'.token <= minted'
        /\ l.token <= minted'
    BY DEF TablesKept, Follows, ShareInv, ShareTypeOK
  <2>3. \A d \in Callers : op'[d].token <= minted'
    BY <1>1, <2>1, <2>2
  <2> QED BY <2>2, <2>3 DEF TokensInv
<1>4. AckedPublishIsRecorded'
  BY DEF TablesKept, AckedPublishIsRecorded
<1>5. ASSUME NEW d \in Callers
      PROVE  /\ LocalOK(op[d])' /\ RecordedOK(op[d])' /\ AloneOK(op[d])'
             /\ (op[d].alone => OthersIdle(d))'
  <2>1. CASE d = c
    <3>1. LocalOK(l) /\ RecordedOK(l)' /\ AloneOK(l)' /\ (l.alone => op[c].alone)
      BY DEF Follows
    <3>2. LocalOK(op[d])' /\ RecordedOK(op[d])' /\ AloneOK(op[d])'
      BY <1>1, <2>1, <3>1 DEF LocalOK, RecordedOK, AloneOK, Saves, Own
    <3>3. (op[d].alone => OthersIdle(d))'
      BY <1>1, <2>1, <3>1 DEF ShareInv, OthersIdle
    <3> QED BY <3>2, <3>3
  <2>2. CASE d # c
    <3>1. PICK m \in Local : m = op[d] /\ m = op'[d]
      BY <1>1, <2>2
    <3>2. LocalOK(m) /\ RecordedOK(m)
      BY <3>1 DEF ShareInv
    <3>3. RecordedOK(m)'
      BY <3>2, RecordedStays
    <3>4. ~m.alone
      BY <2>2, <3>1 DEF ShareInv, OthersIdle, Follows
    <3> QED BY <3>1, <3>2, <3>3, <3>4 DEF LocalOK, RecordedOK, AloneOK, Saves, Own
  <2> QED BY <2>1, <2>2
<1>6. RefreshOK(op[Refresher])'
  <2>1. CASE c = Refresher
    BY <1>1, <2>1 DEF Follows, RefreshOK, Saves
  <2>2. CASE c # Refresher
    <3>1. op'[Refresher] = op[Refresher]
      BY <1>1, <2>2, RefresherIsCaller
    <3>2. share'.revoked => share.revoked
      BY DEF TablesKept
    <3> QED BY <3>1, <3>2 DEF ShareInv, RefreshOK, Saves
  <2> QED BY <2>1, <2>2
<1> QED BY <1>2, <1>3, <1>4, <1>5, <1>6 DEF ShareInv

\* A statement that reads, or is refused, leaves the tables as they are.
LEMMA QuietTables ==
  ASSUME ShareInv, shareFaults' \in Nat, UNCHANGED <<share, versions, shareConns, minted, acked, shareOps>>
  PROVE  TablesKept
<1>1. \A p : Recorded(p) => Recorded(p)'
  BY DEF Recorded
<1>2. \A p \in acked' : Recorded(p)'
  BY <1>1 DEF ShareInv, AckedPublishIsRecorded
<1>3. share' \in Row /\ share'.token <= minted'
  BY RefresherIsCaller, OpType DEF ShareInv, TokensInv
<1> QED BY <1>1, <1>2, <1>3 DEF ShareInv, ShareTypeOK, TablesKept, Entry

LEMMA GoesTo ==
  ASSUME ShareInv, NEW c \in Callers, NEW pc \in Steps, Goes(c, pc)
  PROVE  \E l \in Local : op' = [op EXCEPT ![c] = l] /\ l.at = pc /\ Same(l, op[c])
<1>1. PICK m \in Local : m = op[c]
  BY OpType
<1>2. /\ [m EXCEPT !.at = pc] \in Local /\ [m EXCEPT !.at = pc].at = pc
      /\ Same([m EXCEPT !.at = pc], m)
  BY DEF Local, Same
<1>3. op' = [op EXCEPT ![c] = [m EXCEPT !.at = pc]]
  BY <1>1 DEF Goes
<1> QED BY <1>1, <1>2, <1>3

LEMMA IdleType ==
  /\ Idle \in Local /\ Idle.at = "idle" /\ Idle.alone = FALSE /\ Idle.token = 0
  /\ Idle.kind = "none" /\ Idle.overtaken = FALSE
BY DEF Idle, Local, Kinds, Steps

LEMMA ThrowsStep ==
  ASSUME ShareInv, NEW c \in Callers, op[c].at # "idle", Throws(c), TablesKept
  PROVE  ShareInv'
<1>1. LocalOK(Idle) /\ RecordedOK(Idle)' /\ AloneOK(Idle)' /\ RefreshOK(Idle)'
  BY IdleType DEF LocalOK, RecordedOK, AloneOK, RefreshOK, Saves, Past
<1>2. Idle.token <= minted'
  BY IdleType DEF TablesKept
<1>3. Follows(c, Idle)
  BY <1>1, <1>2, IdleType DEF Follows, Throws
<1> QED BY <1>3, IdleType, OwnStep

-----------------------------------------------------------------------------
(* Functions that begin *)

LEMMA BeginStep ==
  ASSUME ShareInv, NEW c \in Callers, NEW l \in Local, Begins(c, l), LocalOK(l),
         l.at \notin Past \cup {"record", "idle", "move"}, l.token <= minted',
         ~Saves(l) => l.token = share.token,
         c = Refresher => l.at = "check" /\ Saves(l),
         minted' \in Nat, minted' >= minted, shareFaults' \in Nat,
         UNCHANGED <<share, versions, shareConns, acked>>
  PROVE  ShareInv'
<1>1. PICK b \in BOOLEAN : b = (\A e \in Callers : InStep(e, "idle"))
  OBVIOUS
<1>2. PICK m \in Local :
        /\ m = [l EXCEPT !.alone = b]
        /\ m.at = l.at /\ m.kind = l.kind /\ m.token = l.token /\ m.version = l.version
        /\ m.snap = l.snap /\ m.conns = l.conns /\ m.todo = l.todo /\ m.alone = b
        /\ m.overtaken = l.overtaken
  <2>1. [l EXCEPT !.alone = b] \in Local
    BY DEF Local
  <2> QED BY <2>1 DEF Local
<1>3. /\ op[c].at = "idle"
      /\ op' = [d \in Callers |-> IF d = c THEN m ELSE [op[d] EXCEPT !.alone = FALSE]]
      /\ shareOps' \in Nat
  BY <1>1, <1>2 DEF Begins, InStep, ShareInv, ShareTypeOK
<1>4. \A d \in Callers : d # c =>
        /\ op'[d] \in Local /\ op'[d].at = op[d].at /\ op'[d].kind = op[d].kind
        /\ op'[d].token = op[d].token /\ op'[d].version = op[d].version
        /\ op'[d].snap = op[d].snap /\ op'[d].alone = FALSE
        /\ op'[d].overtaken = op[d].overtaken
  <2> SUFFICES ASSUME NEW d \in Callers, d # c
               PROVE  /\ op'[d] \in Local /\ op'[d].at = op[d].at /\ op'[d].kind = op[d].kind
                      /\ op'[d].token = op[d].token /\ op'[d].version = op[d].version
                      /\ op'[d].snap = op[d].snap /\ op'[d].alone = FALSE
                      /\ op'[d].overtaken = op[d].overtaken
    OBVIOUS
  <2>1. PICK n \in Local : n = op[d]
    BY OpType
  <2>2. op'[d] = [n EXCEPT !.alone = FALSE]
    BY <1>3, <2>1
  <2> QED BY <2>1, <2>2 DEF Local
<1>5. op'[c] = m /\ DOMAIN op' = Callers /\ op' \in [Callers -> Local]
  BY <1>2, <1>3, <1>4
<1>6. ShareTypeOK'
  BY <1>3, <1>5 DEF ShareInv, ShareTypeOK, Local
<1>7. TokensInv'
  <2>1. share.token <= minted /\ share.token \in Nat /\ minted \in Nat
        /\ \A d \in Callers : op[d].token <= minted /\ op[d].token \in Nat
    BY OpType, LocalFields DEF ShareInv, TokensInv, ShareTypeOK
  <2>2. ASSUME NEW d \in Callers
        PROVE  op'[d].token <= minted'
    <3>1. CASE d = c
      BY <1>2, <1>5, <3>1
    <3>2. CASE d # c
      <4>1. op'[d].token = op[d].token /\ op[d].token \in Nat /\ op[d].token <= minted
        BY <1>4, <2>1, <3>2
      <4> QED BY <2>1, <4>1
    <3> QED BY <3>1, <3>2
  <2> QED BY <2>1, <2>2 DEF TokensInv
<1>8. AckedPublishIsRecorded'
  BY DEF ShareInv, AckedPublishIsRecorded, Recorded
<1>9. ASSUME NEW d \in Callers
      PROVE  /\ LocalOK(op[d])' /\ RecordedOK(op[d])' /\ AloneOK(op[d])'
             /\ (op[d].alone => OthersIdle(d))'
  <2>1. CASE d = c
    <3>1. op'[d] = m /\ m.at \notin Past \cup {"record", "idle", "move", "store", "saved"}
      BY <1>2, <1>5, <2>1 DEF Past
    <3>2. LocalOK(op[d])'
      BY <3>1, <1>2 DEF LocalOK, Saves
    <3>3. RecordedOK(op[d])' /\ AloneOK(op[d])'
      BY <3>1, <1>2 DEF RecordedOK, AloneOK, Saves
    <3>4. (op[d].alone => OthersIdle(d))'
      BY <3>1, <1>1, <1>2, <1>4, <2>1 DEF OthersIdle, InStep
    <3> QED BY <3>2, <3>3, <3>4
  <2>2. CASE d # c
    <3>1. LocalOK(op[d]) /\ RecordedOK(op[d])
      BY DEF ShareInv
    <3>2. LocalOK(op[d])' /\ AloneOK(op[d])' /\ (op[d].alone => OthersIdle(d))'
      BY <3>1, <1>4, <2>2 DEF LocalOK, AloneOK, Saves
    <3>3. RecordedOK(op[d])'
      BY <3>1, <1>4, <2>2 DEF RecordedOK, Recorded, Saves, Own
    <3> QED BY <3>2, <3>3
  <2> QED BY <2>1, <2>2
<1>10. RefreshOK(op[Refresher])'
  <2>1. CASE c = Refresher
    BY <1>2, <1>5, <2>1 DEF RefreshOK, Saves
  <2>2. CASE c # Refresher
    BY <1>4, <2>2, RefresherIsCaller DEF ShareInv, RefreshOK, Saves
  <2> QED BY <2>1, <2>2
<1> QED BY <1>6, <1>7, <1>8, <1>9, <1>10 DEF ShareInv

LEMMA PublisherIsCaller == \A c \in Publishers : c \in Callers /\ c # Refresher
BY RefresherAssumption DEF Callers

\* What FromRow and Reads make of the locals m.
LEMMA FromRowFacts ==
  ASSUME ShareInv, NEW m \in Local, NEW row \in Row, row.token <= minted, Reads(row)
  PROVE  \E l \in Local :
           /\ l = FromRow(m, row)
           /\ l.at = "upsert" /\ l.kind = m.kind /\ l.snap = m.snap /\ l.alone = m.alone
           /\ l.overtaken = m.overtaken /\ l.token <= minted'
           /\ minted' \in Nat /\ minted' >= minted /\ shareFaults' \in Nat
<1>1. minted \in Nat /\ row.token \in Nat /\ row.version \in Nat /\ shareFaults \in Nat
  BY DEF ShareInv, ShareTypeOK, Row
<1>2. minted' \in Nat /\ minted' >= minted /\ shareFaults' \in Nat
  BY <1>1 DEF Reads
<1>3. PICK t \in Nat : t = (IF row.token = 0 THEN minted + 1 ELSE row.token) /\ t <= minted'
  BY <1>1 DEF Reads
<1>4. PICK v \in Nat : v = row.version + 1
  BY <1>1
<1>5. FromRow(m, row) = [m EXCEPT !.at = "upsert", !.version = v, !.token = t]
  BY <1>3, <1>4 DEF FromRow
<1>6. PICK l : l = [m EXCEPT !.at = "upsert", !.version = v, !.token = t]
  OBVIOUS
<1>7. /\ l \in Local /\ l.at = "upsert" /\ l.kind = m.kind /\ l.snap = m.snap
      /\ l.alone = m.alone /\ l.overtaken = m.overtaken /\ l.token = t
  BY <1>6 DEF Local, Steps
<1> QED BY <1>2, <1>3, <1>5, <1>6, <1>7

LEMMA RowsRead ==
  ASSUME ShareInv, NEW row \in {share, NotPublished}
  PROVE  row \in Row /\ row.token <= minted
<1>1. NotPublished \in Row /\ NotPublished.token = 0
  BY DEF NotPublished, Row
<1>2. share.token <= minted /\ minted \in Nat /\ share \in Row
  BY DEF ShareInv, TokensInv, ShareTypeOK, Row
<1> QED BY <1>1, <1>2

LEMMA PublishStep ==
  ASSUME ShareInv, NEW c \in Publishers, NEW s \in Snapshots, Publish(c, s)
  PROVE  ShareInv'
<1>0. PICK m : m = [Idle EXCEPT !.kind = "publish", !.snap = s, !.conns = Uses[s]]
  OBVIOUS
<1>1. m \in Local /\ m.kind = "publish" /\ m.snap = s
  <2>1. Uses[s] \subseteq Connections
    BY DEF Connections
  <2> QED BY <1>0, <2>1 DEF Idle, Local, Kinds, Steps
<1>2. PICK row \in {share, NotPublished} : Reads(row) /\ Begins(c, FromRow(m, row))
  BY <1>0 DEF Publish
<1>3. PICK r \in Row : r = row /\ r.token <= minted /\ Reads(r) /\ Begins(c, FromRow(m, r))
  BY <1>2, RowsRead
<1>4. PICK l \in Local :
        /\ l = FromRow(m, r)
        /\ l.at = "upsert" /\ l.kind = m.kind /\ l.snap = m.snap /\ l.token <= minted'
        /\ minted' \in Nat /\ minted' >= minted /\ shareFaults' \in Nat
  BY <1>1, <1>3, FromRowFacts
<1>5. Begins(c, l) /\ LocalOK(l) /\ Saves(l) /\ l.at \notin Past \cup {"record", "idle", "move"}
  BY <1>1, <1>2, <1>3, <1>4 DEF LocalOK, Saves, Past
<1>6. UNCHANGED <<share, versions, shareConns, acked>>
  BY DEF Publish
<1> QED BY <1>4, <1>5, <1>6, PublisherIsCaller, BeginStep

LEMMA RollbackStep ==
  ASSUME ShareInv, NEW c \in Publishers, Rollback(c)
  PROVE  ShareInv'
<1>1. PICK t \in Nat : t = share.token /\ t <= minted /\ minted \in Nat /\ shareFaults \in Nat
  BY DEF ShareInv, TokensInv, ShareTypeOK
<1>2. PICK l : l = [Idle EXCEPT !.kind = "rollback", !.at = "target", !.token = t]
  OBVIOUS
<1>3. l \in Local /\ l.kind = "rollback" /\ l.at = "target" /\ l.token = t
  BY <1>2 DEF Idle, Local, Kinds, Steps
<1>4. Begins(c, l) /\ UNCHANGED <<share, versions, shareConns, minted, acked, shareFaults>>
  BY <1>1, <1>2 DEF Rollback
<1>5. LocalOK(l) /\ Saves(l) /\ l.at \notin Past \cup {"record", "idle", "move"}
  BY <1>3 DEF LocalOK, Saves, Past
<1>6. minted' \in Nat /\ minted' >= minted /\ shareFaults' \in Nat /\ l.token <= minted'
  BY <1>1, <1>3, <1>4
<1> QED BY <1>3, <1>4, <1>5, <1>6, PublisherIsCaller, BeginStep

LEMMA RegenerateStep ==
  ASSUME ShareInv, NEW c \in Publishers, Regenerate(c)
  PROVE  ShareInv'
<1>1. PICK t \in Nat : t = share.token /\ t <= minted /\ minted \in Nat /\ shareFaults \in Nat
  BY DEF ShareInv, TokensInv, ShareTypeOK
<1>2. PICK l : l = [Idle EXCEPT !.kind = "regenerate", !.at = "conns", !.token = t]
  OBVIOUS
<1>3. l \in Local /\ l.kind = "regenerate" /\ l.at = "conns" /\ l.token = t
  BY <1>2 DEF Idle, Local, Kinds, Steps
<1>4. Begins(c, l) /\ UNCHANGED <<share, versions, shareConns, minted, acked, shareFaults>>
  BY <1>1, <1>2 DEF Regenerate
<1>5. LocalOK(l) /\ l.at \notin Past \cup {"record", "idle", "move"}
  BY <1>3 DEF LocalOK, Saves, Past
<1>6. minted' \in Nat /\ minted' >= minted /\ shareFaults' \in Nat /\ l.token <= minted'
  BY <1>1, <1>3, <1>4
<1> QED BY <1>1, <1>3, <1>4, <1>5, <1>6, PublisherIsCaller, BeginStep

LEMMA RefreshStep ==
  ASSUME ShareInv, NEW s \in Snapshots, Refresh(s)
  PROVE  ShareInv'
<1>1. PICK l : l = [Idle EXCEPT !.kind = "refresh", !.at = "check", !.snap = s, !.conns = Uses[s]]
  OBVIOUS
<1>2. l \in Local /\ l.kind = "refresh" /\ l.at = "check" /\ l.snap = s /\ l.token = 0
  <2>1. Uses[s] \subseteq Connections
    BY DEF Connections
  <2> QED BY <1>1, <2>1 DEF Idle, Local, Kinds, Steps
<1>3. Begins(Refresher, l) /\ UNCHANGED <<share, versions, shareConns, minted, acked, shareFaults>>
  BY <1>1 DEF Refresh
<1>4. LocalOK(l) /\ Saves(l) /\ l.at \notin Past \cup {"record", "idle", "move"}
  BY <1>2 DEF LocalOK, Saves, Past
<1>5. minted' \in Nat /\ minted' >= minted /\ shareFaults' \in Nat /\ l.token <= minted'
  BY <1>2, <1>3 DEF ShareInv, ShareTypeOK
<1> QED BY <1>2, <1>3, <1>4, <1>5, RefresherIsCaller, BeginStep

-----------------------------------------------------------------------------
(* Statements of functions under way *)

LEMMA Under ==
  ASSUME ShareInv, NEW c \in Callers
  PROVE  /\ LocalOK(op[c]) /\ RecordedOK(op[c]) /\ AloneOK(op[c]) /\ op[c].token <= minted
         /\ share.token <= minted /\ share.token \in Nat /\ minted \in Nat
         /\ c = Refresher => RefreshOK(op[c])
         /\ shareFaults \in Nat /\ shareOps \in Nat
BY DEF ShareInv, TokensInv, ShareTypeOK

\* The caller's next step, when the tables have been dealt with.
LEMMA GoesStep ==
  ASSUME ShareInv, NEW c \in Callers, NEW pc \in Steps, op[c].at # "idle", Goes(c, pc), TablesKept,
         \A l \in Local : l.at = pc /\ Same(l, op[c]) =>
           /\ LocalOK(l) /\ RecordedOK(l)' /\ AloneOK(l)' /\ (c = Refresher => RefreshOK(l)')
  PROVE  ShareInv'
<1>1. PICK l \in Local : op' = [op EXCEPT ![c] = l] /\ l.at = pc /\ Same(l, op[c])
  BY GoesTo
<1>2. l.token <= minted' /\ (l.alone => op[c].alone)
  <2>1. l.token = op[c].token /\ l.alone = op[c].alone /\ l.token \in Nat
    BY <1>1, LocalFields DEF Same
  <2>2. minted \in Nat /\ minted' \in Nat /\ minted <= minted' /\ op[c].token <= minted
    BY Under DEF TablesKept
  <2> QED BY <2>1, <2>2
<1>3. Follows(c, l)
  BY <1>1, <1>2 DEF Follows
<1> QED BY <1>3, OwnStep

LEMMA UpsertStep ==
  ASSUME ShareInv, NEW c \in Callers, Upsert(c)
  PROVE  ShareInv'
<1>1. op[c].at = "upsert" /\ Goes(c, "record") /\ share' = Upserted(c)
      /\ UNCHANGED <<versions, shareConns, minted, acked, shareOps, shareFaults>>
  BY DEF Upsert, InStep
<1>2. PICK m \in Local : m = op[c]
  BY OpType
<1>3. /\ share'.snap = m.snap /\ share'.version = m.version /\ share'.revoked = FALSE
      /\ share'.token = (IF Exists THEN share.token ELSE m.token) /\ share' \in Row
  <2>1. PICK t \in Nat : t = (IF Exists THEN share.token ELSE m.token)
    BY LocalFields, Under
  <2>2. share' = [token |-> t, snap |-> m.snap, version |-> m.version, revoked |-> FALSE]
    BY <1>1, <1>2, <2>1 DEF Upserted
  <2> QED BY <2>1, <2>2, LocalFields DEF Row
<1>4. share'.token <= minted'
  BY <1>1, <1>2, <1>3, Under
<1>5. TablesKept
  <2>1. \A p : Recorded(p) => Recorded(p)'
    BY <1>1 DEF Recorded
  <2>2. \A p \in acked' : Recorded(p)'
    BY <1>1, <2>1 DEF ShareInv, AckedPublishIsRecorded
  <2> QED BY <1>1, <1>3, <1>4, <2>1, <2>2 DEF TablesKept, ShareInv, ShareTypeOK, Entry
<1>6. Saves(m) /\ m.snap \in Snapshots
  BY <1>1, <1>2, Under DEF LocalOK
<1>7. ASSUME NEW l \in Local, l.at = "record", Same(l, m)
      PROVE  /\ LocalOK(l) /\ RecordedOK(l)' /\ AloneOK(l)' /\ RefreshOK(l)'
  <2>1. /\ l.kind = m.kind /\ l.snap = m.snap /\ l.version = m.version /\ l.at \notin Past
        /\ l.at = "record" /\ l.at # "saved" /\ Saves(l)
    BY <1>6, <1>7 DEF Same, Past, Saves
  <2>2. LocalOK(l)
    BY <1>6, <2>1 DEF LocalOK
  <2>3. RecordedOK(l)' /\ AloneOK(l)' /\ RefreshOK(l)'
    BY <1>3, <2>1 DEF RecordedOK, AloneOK, RefreshOK, Past, Saves
  <2> QED BY <2>2, <2>3
<1> QED BY <1>1, <1>2, <1>5, <1>7, GoesStep DEF Steps

LEMMA RecordVersionStep ==
  ASSUME ShareInv, NEW c \in Callers, RecordVersion(c)
  PROVE  ShareInv'
<1>1. PICK m \in Local : m = op[c]
  BY OpType
<1>2. /\ m.at = "record" /\ Goes(c, "trim") /\ m.token = share.token
      /\ versions' = versions \cup {Own(m)}
      /\ UNCHANGED <<share, shareConns, minted, acked, shareOps, shareFaults>>
  BY <1>1 DEF RecordVersion, InStep, Current, Own
<1>3. Saves(m) /\ m.snap \in Snapshots /\ LocalOK(m) /\ AloneOK(m)
  BY <1>1, <1>2, Under DEF LocalOK
<1>4. Own(m) \in Entry
  BY <1>3, OwnEntry
<1>5. TablesKept
  <2>1. \A p : Recorded(p) => Recorded(p)'
    BY <1>2 DEF Recorded
  <2>2. \A p \in acked' : Recorded(p)'
    BY <1>2, <2>1 DEF ShareInv, AckedPublishIsRecorded
  <2>3. versions' \subseteq Entry /\ share' \in Row /\ share'.token <= minted'
    BY <1>2, <1>4, OpType, Under
  <2> QED BY <1>2, <2>1, <2>2, <2>3 DEF TablesKept, ShareInv, ShareTypeOK, Entry
<1>6. ASSUME NEW l \in Local, l.at = "trim", Same(l, m)
      PROVE  /\ LocalOK(l) /\ RecordedOK(l)' /\ AloneOK(l)' /\ RefreshOK(l)'
  <2>1. /\ l.kind = m.kind /\ l.snap = m.snap /\ l.version = m.version /\ l.token = m.token
        /\ l.alone = m.alone /\ l.at \in Past /\ Saves(l) /\ Own(l) = Own(m)
    BY <1>3, <1>6 DEF Same, Past, Saves, Own
  <2>2. LocalOK(l)
    BY <1>3, <1>6, <2>1 DEF LocalOK
  <2>3. RecordedOK(l)'
    BY <1>2, <2>1 DEF RecordedOK, Recorded
  <2>4. RefreshOK(l)'
    BY <1>6, <2>1 DEF RefreshOK, Saves
  <2>5. m.alone => share.snap = m.snap /\ share.version = m.version /\ ~share.revoked
    BY <1>2, <1>3 DEF AloneOK
  <2>6. AloneOK(l)'
    BY <1>2, <1>6, <2>1, <2>5 DEF AloneOK, Saves, Past, Own
  <2> QED BY <2>2, <2>3, <2>4, <2>6
<1> QED BY <1>1, <1>2, <1>5, <1>6, GoesStep DEF Steps

LEMMA TrimStep ==
  ASSUME ShareInv, NEW c \in Callers, Trim(c)
  PROVE  ShareInv'
<1>1. PICK m \in Local : m = op[c]
  BY OpType
<1>2. /\ m.at = "trim" /\ Goes(c, "clear")
      /\ versions' = {r \in versions : m.token = share.token => r.version + Retention > m.version}
      /\ UNCHANGED <<share, shareConns, minted, acked, shareOps, shareFaults>>
  BY <1>1 DEF Trim, InStep, Current
<1>3. Saves(m) /\ m.snap \in Snapshots /\ LocalOK(m) /\ AloneOK(m) /\ RecordedOK(m)
  BY <1>1, <1>2, Under DEF LocalOK
<1>4. m.version \in Nat /\ Own(m) \in Entry /\ Own(m).version = m.version
      /\ versions \subseteq Entry
  BY <1>3, OwnEntry, OpType DEF Own, Local
<1>5. PICK n \in Entry : n \in versions /\ n.version >= m.version
  <2>1. Recorded(Own(m))
    BY <1>2, <1>3 DEF RecordedOK, Past
  <2> QED BY <1>4, <2>1, RetentionAssumption DEF Recorded, Entry
<1>6. n \in versions' /\ n.version \in Nat
  BY <1>2, <1>4, <1>5, RetentionAssumption DEF Entry
<1>7. ASSUME NEW p \in Entry, Recorded(p)
      PROVE  Recorded(p)'
  <2>1. p.version \in Nat
    BY DEF Entry
  <2>2. CASE p \in versions'
    BY <2>2 DEF Recorded
  <2>3. CASE p \in versions \ versions'
    <3>1. p.version + Retention <= m.version
      BY <1>2, <1>4, <2>1, <2>3, RetentionAssumption
    <3>2. n.version >= p.version + Retention
      BY <1>4, <1>5, <1>6, <2>1, <3>1, RetentionAssumption
    <3> QED BY <1>6, <3>2 DEF Recorded
  <2>4. CASE p \notin versions
    <3>1. PICK r \in versions : r.version >= p.version + Retention
      BY <1>7, <2>4 DEF Recorded
    <3>2. r.version \in Nat
      BY <1>4 DEF Entry
    <3>3. CASE r \in versions'
      BY <3>1, <3>3 DEF Recorded
    <3>4. CASE r \notin versions'
      <4>1. r.version + Retention <= m.version
        BY <1>2, <1>4, <3>1, <3>2, <3>4, RetentionAssumption
      <4>2. n.version >= p.version + Retention
        BY <1>4, <1>5, <1>6, <2>1, <3>1, <3>2, <4>1, RetentionAssumption
      <4> QED BY <1>6, <4>2 DEF Recorded
    <3> QED BY <3>3, <3>4
  <2> QED BY <2>2, <2>3, <2>4
<1>8. TablesKept
  <2>1. acked \subseteq Entry /\ \A p \in acked : Recorded(p)
    BY OpType DEF ShareInv, AckedPublishIsRecorded
  <2>2. \A p \in acked' : Recorded(p)'
    BY <1>2, <1>7, <2>1
  <2>3. versions' \subseteq Entry /\ share' \in Row /\ share'.token <= minted'
    BY <1>2, <1>4, OpType, Under
  <2> QED BY <1>2, <1>7, <2>2, <2>3 DEF TablesKept, ShareInv, ShareTypeOK, Entry
<1>9. ASSUME NEW l \in Local, l.at = "clear", Same(l, m)
      PROVE  /\ LocalOK(l) /\ RecordedOK(l)' /\ AloneOK(l)' /\ RefreshOK(l)'
  <2>1. /\ l.kind = m.kind /\ l.snap = m.snap /\ l.version = m.version /\ l.token = m.token
        /\ l.alone = m.alone /\ l.at \in Past /\ Saves(l) /\ Own(l) = Own(m)
    BY <1>3, <1>9 DEF Same, Past, Saves, Own
  <2>2. LocalOK(l)
    BY <1>3, <1>9, <2>1 DEF LocalOK
  <2>3. RecordedOK(l)'
    <3>1. Recorded(Own(m))'
      BY <1>2, <1>3, <1>4, <1>7 DEF RecordedOK, Past
    <3> QED BY <2>1, <3>1 DEF RecordedOK
  <2>4. RefreshOK(l)'
    BY <1>9, <2>1 DEF RefreshOK, Saves
  <2>5. m.alone => /\ share.snap = m.snap /\ share.version = m.version /\ ~share.revoked
                   /\ m.token = share.token /\ Own(m) \in versions
    BY <1>2, <1>3 DEF AloneOK, Past
  <2>6. m.alone => Own(m) \in versions'
    BY <1>2, <1>4, <2>5, RetentionAssumption
  <2>7. AloneOK(l)'
    BY <1>2, <1>9, <2>1, <2>5, <2>6 DEF AloneOK, Saves, Past, Own
  <2> QED BY <2>2, <2>3, <2>4, <2>7
<1> QED BY <1>1, <1>2, <1>8, <1>9, GoesStep DEF Steps

\* A step of a function that leaves the tables and gives its caller the locals l.
LEMMA LocalStep ==
  ASSUME ShareInv, NEW c \in Callers, NEW l \in Local, op[c].at # "idle",
         op' = [op EXCEPT ![c] = l], LocalOK(l), l.token <= minted, l.alone => op[c].alone,
         RecordedOK(l), AloneOK(l), c = Refresher => RefreshOK(l), shareFaults' \in Nat,
         UNCHANGED <<share, versions, shareConns, minted, acked, shareOps>>
  PROVE  ShareInv'
<1>1. TablesKept
  BY QuietTables
<1>2. RecordedOK(l)' /\ AloneOK(l)' /\ (c = Refresher => RefreshOK(l)')
  BY DEF RecordedOK, Recorded, AloneOK, RefreshOK, Saves, Own
<1>3. Follows(c, l)
  BY <1>2 DEF Follows
<1> QED BY <1>1, <1>3, OwnStep

LEMMA UpsertReadStep ==
  ASSUME ShareInv, NEW c \in Callers, UpsertRead(c)
  PROVE  ShareInv'
<1>1. PICK m \in Local : m = op[c]
  BY OpType
<1>2. PICK row \in {share, NotPublished} : Reads(row) /\ op' = [op EXCEPT ![c] = FromRow(m, row)]
  BY <1>1 DEF UpsertRead
<1>3. PICK r \in Row : /\ r = row /\ r.token <= minted /\ Reads(r)
                       /\ op' = [op EXCEPT ![c] = FromRow(m, r)]
  BY <1>2, RowsRead
<1>4. PICK l \in Local :
        /\ l = FromRow(m, r)
        /\ l.at = "upsert" /\ l.kind = m.kind /\ l.snap = m.snap /\ l.alone = m.alone
        /\ l.overtaken = m.overtaken /\ l.token <= minted'
        /\ minted' \in Nat /\ minted' >= minted /\ shareFaults' \in Nat
  BY <1>3, FromRowFacts
<1>5. m.at = "read" /\ UNCHANGED <<share, versions, shareConns, acked, shareOps>>
  BY <1>1 DEF UpsertRead, InStep
<1>6. Saves(m) /\ m.snap \in Snapshots /\ (c = Refresher => RefreshOK(m))
  BY <1>1, <1>5, Under DEF LocalOK
<1>7. TablesKept
  <2>1. \A p : Recorded(p) => Recorded(p)'
    BY <1>5 DEF Recorded
  <2>2. \A p \in acked' : Recorded(p)'
    BY <1>5, <2>1 DEF ShareInv, AckedPublishIsRecorded
  <2>3. share' \in Row /\ share'.token <= minted'
    BY <1>4, <1>5, OpType, Under
  <2> QED BY <1>4, <1>5, <2>1, <2>2, <2>3 DEF TablesKept, ShareInv, ShareTypeOK, Entry
<1>8. LocalOK(l) /\ RecordedOK(l)' /\ AloneOK(l)'
  BY <1>4, <1>6 DEF LocalOK, RecordedOK, AloneOK, Saves, Past
<1>9. c = Refresher => RefreshOK(l)'
  BY <1>4, <1>5, <1>6 DEF RefreshOK, Saves
<1>10. Follows(c, l)
  BY <1>1, <1>3, <1>4, <1>5, <1>8, <1>9 DEF Follows
<1> QED BY <1>7, <1>10, OwnStep

LEMMA AnswerStep ==
  ASSUME ShareInv, NEW c \in Callers, Answer(c)
  PROVE  ShareInv'
<1>1. PICK m \in Local : m = op[c]
  BY OpType
<1>2. /\ m.at = "saved" /\ Throws(c)
      /\ acked' = IF m.kind = "regenerate" THEN acked ELSE acked \cup {Own(m)}
      /\ UNCHANGED <<share, versions, shareConns, minted, shareOps, shareFaults>>
  BY <1>1 DEF Answer, InStep, Own
<1>3. LocalOK(m) /\ RecordedOK(m)
  BY <1>1, Under
<1>4. Saves(m) => Own(m) \in Entry /\ Recorded(Own(m))
  <2>1. Saves(m) => m.snap \in Snapshots /\ Recorded(Own(m))
    BY <1>2, <1>3 DEF LocalOK, RecordedOK, Past
  <2> QED BY <2>1, OwnEntry
<1>5. \A p : Recorded(p) => Recorded(p)'
  BY <1>2 DEF Recorded
<1>6. acked' \subseteq Entry /\ \A p \in acked' : Recorded(p)'
  BY <1>2, <1>4, <1>5, OpType DEF Saves, ShareInv, AckedPublishIsRecorded
<1>7. TablesKept
  BY <1>2, <1>5, <1>6, OpType, Under DEF TablesKept, ShareInv, ShareTypeOK, Entry
<1> QED BY <1>1, <1>2, <1>7, ThrowsStep

\* A statement that is refused or fails.
LEMMA RefusedStep ==
  ASSUME ShareInv, NEW c \in Callers, op[c].at # "idle", Throws(c), shareFaults' \in Nat,
         UNCHANGED <<share, versions, shareConns, minted, acked, shareOps>>
  PROVE  ShareInv'
BY QuietTables, ThrowsStep

LEMMA RollbackTargetStep ==
  ASSUME ShareInv, NEW c \in Publishers, RollbackTarget(c)
  PROVE  ShareInv'
<1>1. PICK m \in Local : m = op[c]
  BY OpType, PublisherIsCaller
<1>2. /\ m.at = "target"
      /\ UNCHANGED <<share, versions, shareConns, minted, acked, shareOps, shareFaults>>
  BY <1>1 DEF RollbackTarget, InStep
<1>3. c \in Callers /\ c # Refresher /\ op[c].at # "idle" /\ shareFaults' \in Nat
  BY <1>1, <1>2, PublisherIsCaller, Under
<1>4. CASE Throws(c)
  BY <1>2, <1>3, <1>4, RefusedStep
<1>5. ASSUME NEW r \in versions, op' = [op EXCEPT ![c].at = "conns", ![c].snap = r.snap]
      PROVE  ShareInv'
  <2>1. PICK s \in Snapshots : s = r.snap
    BY OpType, <1>3 DEF Entry
  <2>2. PICK l : l = [m EXCEPT !.at = "conns", !.snap = s]
    OBVIOUS
  <2>3. op' = [op EXCEPT ![c] = l]
    BY <1>1, <1>5, <2>1, <2>2
  <2>4. /\ l \in Local /\ l.at = "conns" /\ l.snap = s /\ l.kind = m.kind
        /\ l.token = m.token /\ l.alone = m.alone
    BY <2>2 DEF Local, Steps
  <2>5. LocalOK(m) /\ m.token <= minted
    BY <1>1, <1>3, Under
  <2>6. LocalOK(l) /\ RecordedOK(l) /\ AloneOK(l)
    BY <1>2, <2>4, <2>5 DEF LocalOK, RecordedOK, AloneOK, Saves, Past
  <2> QED BY <1>1, <1>2, <1>3, <2>3, <2>4, <2>5, <2>6, LocalStep
<1> QED BY <1>4, <1>5 DEF RollbackTarget

LEMMA ReadConnectionsStep ==
  ASSUME ShareInv, NEW c \in Callers, ReadConnections(c)
  PROVE  ShareInv'
<1>1. PICK m \in Local : m = op[c]
  BY OpType
<1>2. /\ m.at = "conns"
      /\ UNCHANGED <<share, versions, shareConns, minted, acked, shareOps>>
  BY <1>1 DEF ReadConnections, InStep
<1>3. PICK found \in SUBSET Connections :
        /\ op' = [op EXCEPT ![c].at = IF op[c].kind = "regenerate" THEN "clear" ELSE "read",
                            ![c].conns = found]
        /\ shareFaults' \in Nat
  <2>1. PICK n \in {shareConns, {}} :
          /\ op' = [op EXCEPT ![c].at = IF op[c].kind = "regenerate" THEN "clear" ELSE "read",
                              ![c].conns = n]
          /\ shareFaults' = shareFaults \/ shareFaults' = shareFaults + 1
    BY DEF ReadConnections
  <2>2. n \in SUBSET Connections /\ shareFaults' \in Nat
    BY <2>1, Under DEF ShareInv, ShareTypeOK
  <2> QED BY <2>1, <2>2
<1>4. PICK pc \in Steps : pc = (IF m.kind = "regenerate" THEN "clear" ELSE "read")
  BY DEF Steps
<1>5. PICK l : l = [m EXCEPT !.at = pc, !.conns = found]
  OBVIOUS
<1>6. op' = [op EXCEPT ![c] = l]
  BY <1>1, <1>3, <1>4, <1>5
<1>7. /\ l \in Local /\ l.at = pc /\ l.snap = m.snap /\ l.kind = m.kind
      /\ l.token = m.token /\ l.alone = m.alone
  BY <1>5 DEF Local
<1>8. LocalOK(m) /\ AloneOK(m) /\ m.token <= minted /\ c # Refresher
  BY <1>1, <1>2, Under DEF RefreshOK
<1>9. LocalOK(l) /\ RecordedOK(l) /\ AloneOK(l)
  BY <1>2, <1>4, <1>7, <1>8 DEF LocalOK, RecordedOK, AloneOK, Saves, Past
<1> QED BY <1>1, <1>2, <1>3, <1>6, <1>7, <1>8, <1>9, LocalStep

LEMMA RefreshChecksStep ==
  ASSUME ShareInv, RefreshChecks
  PROVE  ShareInv'
<1>1. PICK m \in Local : m = op[Refresher]
  BY OpType, RefresherIsCaller
<1>2. /\ m.at = "check"
      /\ UNCHANGED <<share, versions, shareConns, minted, acked, shareOps, shareFaults>>
  BY <1>1 DEF RefreshChecks, InStep
<1>3. shareFaults' \in Nat /\ LocalOK(m) /\ m.token <= minted /\ RefreshOK(m)
  BY <1>1, <1>2, RefresherIsCaller, Under
<1>4. CASE share.revoked
  BY <1>1, <1>2, <1>3, <1>4, RefresherIsCaller, RefusedStep DEF RefreshChecks
<1>5. CASE ~share.revoked
  <2>1. PICK l : l = [m EXCEPT !.at = "read", !.overtaken = FALSE]
    OBVIOUS
  <2>2. op' = [op EXCEPT ![Refresher] = l]
    BY <1>1, <1>5, <2>1 DEF RefreshChecks
  <2>3. /\ l \in Local /\ l.at = "read" /\ l.snap = m.snap /\ l.kind = m.kind
        /\ l.token = m.token /\ l.alone = m.alone
    BY <2>1 DEF Local, Steps
  <2>4. LocalOK(l) /\ RecordedOK(l) /\ AloneOK(l) /\ RefreshOK(l)
    BY <1>2, <1>3, <1>5, <2>3 DEF LocalOK, RecordedOK, AloneOK, RefreshOK, Saves, Past
  <2> QED BY <1>1, <1>2, <1>3, <2>2, <2>3, <2>4, RefresherIsCaller, LocalStep
<1> QED BY <1>4, <1>5

LEMMA ClearConnectionsStep ==
  ASSUME ShareInv, NEW c \in Callers, ClearConnections(c)
  PROVE  ShareInv'
<1>1. PICK m \in Local : m = op[c]
  BY OpType
<1>2. /\ m.at = "clear"
      /\ shareConns' = IF m.token = share.token THEN {} ELSE shareConns
      /\ op' = [op EXCEPT ![c].at = IF op[c].kind = "regenerate" THEN "move" ELSE "store",
                          ![c].todo = op[c].conns]
      /\ UNCHANGED <<share, versions, minted, acked, shareOps, shareFaults>>
  BY <1>1 DEF ClearConnections, InStep, Current
<1>3. PICK pc \in Steps : pc = (IF m.kind = "regenerate" THEN "move" ELSE "store")
  BY DEF Steps
<1>4. PICK l : l = [m EXCEPT !.at = pc, !.todo = m.conns]
  OBVIOUS
<1>5. op' = [op EXCEPT ![c] = l]
  BY <1>1, <1>2, <1>3, <1>4
<1>6. /\ l \in Local /\ l.at = pc /\ l.todo = m.conns /\ l.conns = m.conns /\ l.snap = m.snap
      /\ l.kind = m.kind /\ l.version = m.version /\ l.token = m.token /\ l.alone = m.alone
      /\ Own(l) = Own(m)
  BY <1>4 DEF Local, Own
<1>7. LocalOK(m) /\ RecordedOK(m) /\ AloneOK(m) /\ m.token <= minted
      /\ (c = Refresher => RefreshOK(m))
  BY <1>1, Under
<1>8. TablesKept
  <2>1. \A p : Recorded(p) => Recorded(p)'
    BY <1>2 DEF Recorded
  <2>2. \A p \in acked' : Recorded(p)'
    BY <1>2, <2>1 DEF ShareInv, AckedPublishIsRecorded
  <2>3. share' \in Row /\ share'.token <= minted' /\ shareConns' \subseteq Connections
    BY <1>2, OpType, Under DEF ShareInv, ShareTypeOK
  <2> QED BY <1>2, <2>1, <2>2, <2>3 DEF TablesKept, ShareInv, ShareTypeOK, Entry
<1>9. LocalOK(l) /\ RecordedOK(l)'
  <2>1. LocalOK(l)
    BY <1>2, <1>3, <1>6, <1>7 DEF LocalOK, Saves
  <2>2. Saves(l) => Recorded(Own(l))
    BY <1>2, <1>6, <1>7 DEF RecordedOK, Saves, Past
  <2> QED BY <1>2, <2>1, <2>2 DEF RecordedOK, Recorded
<1>10. AloneOK(l)'
  <2>1. m.alone => /\ m.token = share.token
                   /\ Saves(m) => /\ share.snap = m.snap /\ share.version = m.version
                                  /\ ~share.revoked /\ Own(m) \in versions
    BY <1>2, <1>7 DEF AloneOK, Past
  <2> QED BY <1>2, <1>3, <1>6, <2>1 DEF AloneOK, Saves, Past
<1>11. c = Refresher => RefreshOK(l)'
  BY <1>3, <1>6, <1>7 DEF RefreshOK, Saves
<1>12. Follows(c, l)
  BY <1>1, <1>2, <1>5, <1>6, <1>7, <1>9, <1>10, <1>11 DEF Follows
<1> QED BY <1>6, <1>8, <1>12, OwnStep

LEMMA MoveTokenStep ==
  ASSUME ShareInv, NEW c \in Callers, MoveToken(c)
  PROVE  ShareInv'
<1>1. PICK m \in Local : m = op[c]
  BY OpType
<1>2. LocalOK(m) /\ RecordedOK(m) /\ AloneOK(m) /\ m.token <= minted
      /\ (c = Refresher => RefreshOK(m)) /\ minted \in Nat
  BY <1>1, Under
<1>3. PICK t \in Nat : t = minted + 1
  BY <1>2
<1>4. /\ m.at = "move" /\ minted' = t
      /\ share' = IF m.token = share.token THEN [share EXCEPT !.token = t] ELSE share
      /\ op' = [op EXCEPT ![c].at = "store", ![c].token = t]
      /\ UNCHANGED <<versions, shareConns, acked, shareOps, shareFaults>>
  BY <1>1, <1>3 DEF MoveToken, InStep, Current
<1>5. PICK l : l = [m EXCEPT !.at = "store", !.token = t]
  OBVIOUS
<1>6. op' = [op EXCEPT ![c] = l]
  BY <1>1, <1>4, <1>5
<1>7. /\ l \in Local /\ l.at = "store" /\ l.todo = m.todo /\ l.conns = m.conns
      /\ l.snap = m.snap /\ l.kind = m.kind /\ l.version = m.version /\ l.token = t
      /\ l.alone = m.alone
  BY <1>5 DEF Local, Steps
<1>8. ~Saves(m) /\ ~Saves(l) /\ c # Refresher
  BY <1>2, <1>4, <1>7 DEF LocalOK, RefreshOK, Saves
<1>9. /\ share' \in Row /\ share'.token <= t
      /\ share'.snap = share.snap /\ share'.version = share.version
      /\ share'.revoked = share.revoked
      /\ m.token = share.token => share'.token = t
  <2>1. share \in Row /\ share.token <= minted /\ share.token \in Nat
    BY OpType, Under
  <2>2. CASE m.token = share.token
    BY <1>3, <1>4, <2>1, <2>2 DEF Row
  <2>3. CASE m.token # share.token
    BY <1>2, <1>3, <1>4, <2>1, <2>3
  <2> QED BY <2>2, <2>3
<1>10. TablesKept
  <2>1. \A p : Recorded(p) => Recorded(p)'
    BY <1>4 DEF Recorded
  <2>2. \A p \in acked' : Recorded(p)'
    BY <1>4, <2>1 DEF ShareInv, AckedPublishIsRecorded
  <2>3. minted' \in Nat /\ minted' >= minted /\ share'.token <= minted'
    BY <1>2, <1>3, <1>4, <1>9
  <2> QED BY <1>4, <1>9, <2>1, <2>2, <2>3 DEF TablesKept, ShareInv, ShareTypeOK, Entry
<1>11. LocalOK(l) /\ RecordedOK(l)'
  BY <1>7, <1>8 DEF LocalOK, RecordedOK, Saves
<1>12. AloneOK(l)'
  <2>1. m.alone => m.token = share.token /\ shareConns = {} /\ m.todo = m.conns
    BY <1>2, <1>4, <1>8 DEF AloneOK
  <2>2. UNCHANGED shareConns
    BY <1>4
  <2>3. l.alone => /\ l.token = share'.token
                   /\ l.todo \subseteq l.conns /\ shareConns' = l.conns \ l.todo
    BY <1>7, <1>9, <2>1, <2>2
  <2> QED BY <1>7, <1>8, <2>3 DEF AloneOK, Saves
<1>13. Follows(c, l)
  <2>1. op[c].at # "idle" /\ minted' = t /\ l.token = t /\ t <= t /\ (l.alone => op[c].alone)
    BY <1>1, <1>4, <1>7
  <2> QED BY <1>6, <1>8, <1>11, <1>12, <2>1 DEF Follows
<1> QED BY <1>7, <1>10, <1>13, OwnStep

LEMMA StoreConnectionStep ==
  ASSUME ShareInv, NEW c \in Callers, StoreConnection(c)
  PROVE  ShareInv'
<1>1. PICK m \in Local : m = op[c]
  BY OpType
<1>2. PICK n \in m.todo : /\ m.at = "store" /\ m.token = share.token
                          /\ n \notin shareConns /\ shareConns' = shareConns \cup {n}
                          /\ op' = [op EXCEPT ![c].todo = @ \ {n}]
  BY <1>1 DEF StoreConnection, InStep, Current
<1>3. UNCHANGED <<share, versions, minted, acked, shareOps, shareFaults>>
  BY DEF StoreConnection
<1>4. PICK l : l = [m EXCEPT !.todo = m.todo \ {n}]
  OBVIOUS
<1>5. op' = [op EXCEPT ![c] = l]
  BY <1>1, <1>2, <1>4
<1>6. /\ l \in Local /\ l.at = "store" /\ l.todo = m.todo \ {n} /\ l.conns = m.conns
      /\ l.snap = m.snap /\ l.kind = m.kind /\ l.version = m.version /\ l.token = m.token
      /\ l.alone = m.alone /\ Own(l) = Own(m) /\ n \in Connections
  BY <1>2, <1>4 DEF Local, Own
<1>7. LocalOK(m) /\ RecordedOK(m) /\ AloneOK(m) /\ m.token <= minted
      /\ (c = Refresher => RefreshOK(m))
  BY <1>1, Under
<1>8. TablesKept
  <2>1. \A p : Recorded(p) => Recorded(p)'
    BY <1>3 DEF Recorded
  <2>2. \A p \in acked' : Recorded(p)'
    BY <1>3, <2>1 DEF ShareInv, AckedPublishIsRecorded
  <2>3. share' \in Row /\ share'.token <= minted' /\ shareConns' \subseteq Connections
    BY <1>2, <1>3, <1>6, OpType, Under DEF ShareInv, ShareTypeOK
  <2> QED BY <1>3, <2>1, <2>2, <2>3 DEF TablesKept, ShareInv, ShareTypeOK, Entry
<1>9. LocalOK(l) /\ RecordedOK(l)'
  <2>1. LocalOK(l)
    BY <1>2, <1>6, <1>7 DEF LocalOK, Saves
  <2>2. Saves(l) => Recorded(Own(l))
    BY <1>2, <1>6, <1>7 DEF RecordedOK, Saves, Past
  <2> QED BY <1>3, <2>1, <2>2 DEF RecordedOK, Recorded
<1>10. AloneOK(l)'
  <2>1. m.alone => /\ m.token = share.token
                   /\ m.todo \subseteq m.conns /\ shareConns = m.conns \ m.todo
                   /\ Saves(m) => /\ share.snap = m.snap /\ share.version = m.version
                                  /\ ~share.revoked /\ Own(m) \in versions
    BY <1>2, <1>7 DEF AloneOK, Past
  <2>2. m.alone => l.todo \subseteq l.conns /\ shareConns' = l.conns \ l.todo
    BY <1>2, <1>6, <2>1
  <2> QED BY <1>3, <1>6, <2>1, <2>2 DEF AloneOK, Saves, Past
<1>11. c = Refresher => RefreshOK(l)'
  BY <1>6, <1>7 DEF RefreshOK, Saves
<1>12. Follows(c, l)
  BY <1>1, <1>2, <1>3, <1>5, <1>6, <1>7, <1>9, <1>10, <1>11 DEF Follows
<1> QED BY <1>6, <1>8, <1>12, OwnStep

LEMMA StoredAllStep ==
  ASSUME ShareInv, NEW c \in Callers, StoredAll(c)
  PROVE  ShareInv'
<1>1. PICK m \in Local : m = op[c]
  BY OpType
<1>2. /\ m.at = "store" /\ m.todo = {} /\ Goes(c, "saved")
      /\ UNCHANGED <<share, versions, shareConns, minted, acked, shareOps, shareFaults>>
  BY <1>1 DEF StoredAll, InStep
<1>3. PICK l \in Local : op' = [op EXCEPT ![c] = l] /\ l.at = "saved" /\ Same(l, m)
  BY <1>1, <1>2, GoesTo DEF Steps
<1>4. LocalOK(m) /\ RecordedOK(m) /\ AloneOK(m) /\ m.token <= minted
      /\ (c = Refresher => RefreshOK(m)) /\ shareFaults' \in Nat
  BY <1>1, <1>2, Under
<1>5. LocalOK(l) /\ RecordedOK(l)
  BY <1>2, <1>3, <1>4 DEF LocalOK, RecordedOK, Saves, Past, Own, Same
<1>6. AloneOK(l)
  BY <1>2, <1>3, <1>4 DEF AloneOK, Saves, Past, Own, Same
<1>7. (c = Refresher => RefreshOK(l)) /\ l.token <= minted /\ (l.alone => m.alone)
  BY <1>3, <1>4 DEF RefreshOK, Saves, Same
<1> QED BY <1>1, <1>2, <1>3, <1>4, <1>5, <1>6, <1>7, LocalStep

LEMMA RevokeStep ==
  ASSUME ShareInv, NEW c \in Publishers, Revoke(c)
  PROVE  ShareInv'
<1>1. /\ share' = [share EXCEPT !.revoked = TRUE] /\ shareOps' = shareOps + 1
      /\ op' = [d \in Callers |-> IF InStep(d, "idle") THEN op[d]
                                  ELSE [op[d] EXCEPT !.alone = FALSE,
                                                     !.overtaken = ~InStep(d, "check")]]
      /\ UNCHANGED <<versions, shareConns, minted, acked, shareFaults>>
  BY DEF Revoke
<1>2. share' \in Row /\ share'.token = share.token /\ share.token <= minted
  BY <1>1, OpType, Under, RefresherIsCaller DEF Row
<1>3. ASSUME NEW d \in Callers
      PROVE  /\ op'[d] \in Local /\ op'[d].at = op[d].at /\ op'[d].kind = op[d].kind
             /\ op'[d].token = op[d].token /\ op'[d].version = op[d].version
             /\ op'[d].snap = op[d].snap /\ ~op'[d].alone
             /\ op[d].at \in {"read", "upsert"} => op'[d].overtaken
  <2>1. PICK n \in Local : n = op[d] /\ LocalOK(n)
    BY OpType, Under
  <2>2. CASE n.at = "idle"
    BY <1>1, <2>1, <2>2 DEF InStep, LocalOK
  <2>3. CASE n.at # "idle"
    <3>1. PICK b \in BOOLEAN : b = ~InStep(d, "check")
      OBVIOUS
    <3>2. op'[d] = [n EXCEPT !.alone = FALSE, !.overtaken = b]
      BY <1>1, <2>1, <2>3, <3>1 DEF InStep
    <3> QED BY <2>1, <3>1, <3>2 DEF Local, InStep
  <2> QED BY <2>2, <2>3
<1>4. op' \in [Callers -> Local] /\ shareOps' \in Nat
  <2>1. DOMAIN op' = Callers /\ op' = [d \in Callers |-> op'[d]]
    BY <1>1
  <2>2. shareOps' \in Nat
    <3>1. shareOps' = shareOps + 1
      BY <1>1
    <3>2. shareOps \in Nat
      BY Under, RefresherIsCaller
    <3> QED BY <3>1, <3>2
  <2> QED BY <1>3, <2>1, <2>2
<1>5. ShareTypeOK'
  BY <1>1, <1>2, <1>4 DEF ShareInv, ShareTypeOK, Row, Local
<1>6. TokensInv' /\ AckedPublishIsRecorded'
  BY <1>1, <1>2, <1>3 DEF ShareInv, TokensInv, AckedPublishIsRecorded, Recorded
<1>7. ASSUME NEW d \in Callers
      PROVE  /\ LocalOK(op[d])' /\ RecordedOK(op[d])' /\ AloneOK(op[d])'
             /\ (op[d].alone => OthersIdle(d))'
  <2>1. LocalOK(op[d])' /\ AloneOK(op[d])' /\ (op[d].alone => OthersIdle(d))'
    BY <1>3, Under DEF LocalOK, AloneOK, Saves
  <2>2. RecordedOK(op[d])'
    <3>1. UNCHANGED versions
      BY <1>1
    <3>2. RecordedOK(op[d]) /\ op'[d].at = op[d].at /\ op'[d].kind = op[d].kind
          /\ op'[d].version = op[d].version /\ op'[d].snap = op[d].snap
      BY <1>3, Under
    <3> QED BY <3>1, <3>2 DEF RecordedOK, Recorded, Saves, Own
  <2> QED BY <2>1, <2>2
<1>8. RefreshOK(op[Refresher])'
  BY <1>3, RefresherIsCaller, Under DEF RefreshOK, Saves
<1> QED BY <1>5, <1>6, <1>7, <1>8 DEF ShareInv

-----------------------------------------------------------------------------
(* The theorems *)

LEMMA ShareInitInv ==
  ASSUME ShareInit
  PROVE  ShareInv
<1>1. op \in [Callers -> Local] /\ \A c \in Callers : op[c] = Idle
  BY IdleType DEF ShareInit
<1>2. share.token = 0 /\ share \in Row
  BY DEF ShareInit, NotPublished, Row
<1>3. ShareTypeOK
  BY <1>1, <1>2 DEF ShareInit, ShareTypeOK, Row, Local
<1>4. TokensInv /\ AckedPublishIsRecorded
  BY <1>1, <1>2, IdleType DEF ShareInit, TokensInv, AckedPublishIsRecorded
<1>5. LocalOK(Idle) /\ RecordedOK(Idle) /\ AloneOK(Idle) /\ RefreshOK(Idle)
  BY IdleType DEF LocalOK, RecordedOK, AloneOK, RefreshOK, Saves, Past
<1> QED BY <1>1, <1>3, <1>4, <1>5, IdleType, RefresherIsCaller DEF ShareInv

LEMMA ShareNextInv ==
  ASSUME ShareInv, ShareNext
  PROVE  ShareInv'
<1>1. CASE \E c \in Publishers : \E s \in Snapshots : Publish(c, s)
  BY <1>1, PublishStep
<1>2. CASE \E c \in Publishers : Rollback(c) \/ RollbackTarget(c) \/ Revoke(c) \/ Regenerate(c)
  BY <1>2, RollbackStep, RollbackTargetStep, RevokeStep, RegenerateStep
<1>3. CASE (\E s \in Snapshots : Refresh(s)) \/ RefreshChecks
  BY <1>3, RefreshStep, RefreshChecksStep
<1>4. ASSUME NEW c \in Callers,
             \/ ReadConnections(c) \/ UpsertRead(c) \/ Upsert(c) \/ RecordVersion(c) \/ Trim(c)
             \/ ClearConnections(c) \/ MoveToken(c) \/ StoreConnection(c) \/ StoredAll(c)
             \/ Answer(c)
      PROVE  ShareInv'
  BY <1>4, ReadConnectionsStep, UpsertReadStep, UpsertStep, RecordVersionStep, TrimStep,
     ClearConnectionsStep, MoveTokenStep, StoreConnectionStep, StoredAllStep, AnswerStep
<1>5. ASSUME NEW c \in Callers,
             RecordRefused(c) \/ MoveRefused(c) \/ StoreRefused(c) \/ StatementFails(c)
      PROVE  ShareInv'
  <2>1. /\ op[c].at # "idle" /\ Throws(c) /\ shareFaults' \in Nat
        /\ UNCHANGED <<share, versions, shareConns, minted, acked, shareOps>>
    BY <1>5, Under DEF RecordRefused, MoveRefused, StoreRefused, StatementFails, InStep
  <2> QED BY <2>1, RefusedStep
<1> QED BY <1>1, <1>2, <1>3, <1>4, <1>5 DEF ShareNext

LEMMA ShareStutterInv ==
  ASSUME ShareInv, UNCHANGED shareVars
  PROVE  ShareInv'
BY DEF shareVars, ShareInv, ShareTypeOK, TokensInv, AckedPublishIsRecorded, Recorded, LocalOK,
       RecordedOK, AloneOK, RefreshOK, OthersIdle, Saves, Own

LEMMA ShareInvariant == ShareSpec => []ShareInv
<1> QED BY ShareInitInv, ShareNextInv, ShareStutterInv, PTL DEF ShareSpec

\* Types: whatever is published, rolled back, revoked, moved and refreshed in
\* whatever order, the row, its history, its connections and the locals of the
\* functions have the values the code gives them.
THEOREM ShareTypes == ShareSpec => []ShareTypeOK
<1>1. ShareInv => ShareTypeOK
  BY DEF ShareInv
<1> QED BY <1>1, ShareInvariant, PTL

\* A publish, rollback or refresh that nothing overlapped leaves row, history and
\* connections whole, whatever races, failures and crashes came before it; a new
\* link that nothing overlapped keeps the connections it found.
THEOREM UnoverlappedOpsComplete == ShareSpec => []LoneOpsComplete
<1>1. ShareInv => LoneOpsComplete
  <2> SUFFICES ASSUME ShareInv, NEW c \in Callers, InStep(c, "saved"), op[c].alone
               PROVE  /\ Current(c)
                      /\ shareConns = op[c].conns
                      /\ op[c].kind # "regenerate" =>
                           /\ share.snap = op[c].snap /\ share.version = op[c].version
                           /\ ~share.revoked
                           /\ [version |-> op[c].version, snap |-> op[c].snap] \in versions
    BY DEF LoneOpsComplete
  <2>1. AloneOK(op[c])
    BY Under
  <2> QED BY <2>1 DEF AloneOK, InStep, Current, Past, Saves, Own
<1> QED BY <1>1, ShareInvariant, PTL

\* A publish that was answered stays in the history until as many versions as are
\* kept came after it: no race, rollback or refresh drops it.
THEOREM AnsweredPublishesAreRecorded == ShareSpec => []AckedPublishIsRecorded
<1>1. ShareInv => AckedPublishIsRecorded
  BY DEF ShareInv
<1> QED BY <1>1, ShareInvariant, PTL

\* A statement other than the upsert, the new token and the revocation leaves the row.
LEMMA RowWriters ==
  ASSUME ShareInv, ShareNext, ~UNCHANGED share
  PROVE  \/ \E c \in Callers : Upsert(c)
         \/ \E c \in Callers : MoveToken(c)
         \/ \E c \in Publishers : Revoke(c)
BY DEF ShareNext, Publish, Rollback, RollbackTarget, Regenerate, Refresh, RefreshChecks,
       ReadConnections, UpsertRead, RecordVersion, RecordRefused, Trim, ClearConnections,
       MoveRefused, StoreConnection, StoreRefused, StoredAll, Answer, StatementFails

LEMMA RowWritten ==
  ASSUME ShareInv
  PROVE  /\ \A c \in Callers : MoveToken(c) =>
              share'.revoked = share.revoked /\ share'.token >= share.token
         /\ \A c \in Publishers : Revoke(c) => share'.revoked /\ share'.token = share.token
         /\ \A c \in Callers : Upsert(c) => share'.token >= share.token
<1>1. share \in Row /\ share.token \in Nat /\ share.token <= minted /\ minted \in Nat
  BY RefresherIsCaller, OpType, Under
<1>2. ASSUME NEW c \in Callers, MoveToken(c)
      PROVE  share'.revoked = share.revoked /\ share'.token >= share.token
  <2>1. share' = share \/ share' = [share EXCEPT !.token = minted + 1]
    BY <1>2 DEF MoveToken
  <2> QED BY <1>1, <2>1 DEF Row
<1>3. ASSUME NEW c \in Publishers, Revoke(c)
      PROVE  share'.revoked /\ share'.token = share.token
  BY <1>1, <1>3 DEF Revoke, Row
<1>4. ASSUME NEW c \in Callers, Upsert(c)
      PROVE  share'.token >= share.token
  <2>1. op[c].token \in Nat
    BY OpType, LocalFields
  <2>2. share'.token = (IF Exists THEN share.token ELSE op[c].token)
    BY <1>4 DEF Upsert, Upserted
  <2> QED BY <1>1, <2>1, <2>2 DEF Exists
<1> QED BY <1>2, <1>3, <1>4

LEMMA OldLinksStep ==
  ASSUME ShareInv, ShareNext
  PROVE  share'.token >= share.token
<1>1. share.token \in Nat
  BY RefresherIsCaller, Under
<1>2. CASE UNCHANGED share
  BY <1>1, <1>2
<1>3. CASE ~UNCHANGED share
  BY <1>1, <1>3, RowWriters, RowWritten
<1> QED BY <1>2, <1>3

LEMMA RefreshSeesStep ==
  ASSUME ShareInv, ShareNext, share.revoked, ~share'.revoked, op'[Refresher] # op[Refresher]
  PROVE  op[Refresher].overtaken
<1>1. PICK c \in Callers : Upsert(c)
  BY RowWriters, RowWritten
<1>2. c = Refresher
  BY <1>1, RefresherIsCaller, OpType DEF Upsert, Goes
<1> QED BY <1>1, <1>2, Under DEF RefreshOK, Upsert, InStep

\* A link that was replaced never comes back: not by a publish, nor by another new
\* link, that had read the row before.
THEOREM ReplacedLinksStayDead == ShareSpec => OldLinksStayDead
<1>1. ShareInv /\ [ShareNext]_shareVars => [share'.token >= share.token]_share
  BY OldLinksStep DEF shareVars
<1> QED BY <1>1, ShareInvariant, PTL DEF ShareSpec, OldLinksStayDead

\* The refresh worker puts a revoked report up again only when the revocation came
\* between its look at the row and its write.
THEOREM RefreshesSeeRevocations == ShareSpec => RefreshSeesRevoke
<1>1. ShareInv /\ [ShareNext]_shareVars =>
        [share.revoked /\ ~share'.revoked /\ op'[Refresher] # op[Refresher]
           => op[Refresher].overtaken]_share
  BY RefreshSeesStep DEF shareVars
<1> QED BY <1>1, ShareInvariant, PTL DEF ShareSpec, RefreshSeesRevoke
===============================================================================
