----------------------------- MODULE ServerProofs -----------------------------
(* Proofs about two parts of the server: the Python runner (PythonRunner) and *)
(* the members of an organization (Membership), for any runs, editor          *)
(* requests, processes, users, invitations and requests, and any bounds.      *)
EXTENDS PythonRunner, Membership, SequenceTheorems, FiniteSetTheorems, TLAPS

-----------------------------------------------------------------------------
(* Queues *)

Elems(s) == {s[i] : i \in DOMAIN s}

LEMMA AppendElems ==
  ASSUME NEW S, NEW s \in Seq(S), NEW x \in S
  PROVE  Append(s, x) \in Seq(S) /\ Elems(Append(s, x)) = Elems(s) \cup {x}
<1>1. /\ Append(s, x) \in Seq(S) /\ Len(Append(s, x)) = Len(s) + 1
      /\ \A i \in 1..Len(s) : Append(s, x)[i] = s[i]
      /\ Append(s, x)[Len(s) + 1] = x
  OBVIOUS
<1>2. Len(s) \in Nat /\ DOMAIN s = 1..Len(s) /\ DOMAIN Append(s, x) = 1..(Len(s) + 1)
  BY <1>1
<1> QED BY <1>1, <1>2 DEF Elems

LEMMA ConsElems ==
  ASSUME NEW S, NEW s \in Seq(S), NEW x \in S
  PROVE  <<x>> \o s \in Seq(S) /\ Elems(<<x>> \o s) = Elems(s) \cup {x}
<1>1. /\ <<x>> \o s \in Seq(S) /\ Len(<<x>> \o s) = Len(s) + 1
      /\ (<<x>> \o s)[1] = x
      /\ \A i \in 1..Len(s) : (<<x>> \o s)[i + 1] = s[i]
  OBVIOUS
<1>2. Len(s) \in Nat /\ DOMAIN s = 1..Len(s) /\ DOMAIN (<<x>> \o s) = 1..(Len(s) + 1)
  BY <1>1
<1>3. \A i \in 1..(Len(s) + 1) : i = 1 \/ (i - 1 \in 1..Len(s) /\ i = (i - 1) + 1)
  BY <1>2
<1>4. \A i \in 1..(Len(s) + 1) : (<<x>> \o s)[i] = x \/ \E k \in 1..Len(s) : (<<x>> \o s)[i] = s[k]
  BY <1>1, <1>3
<1>5. \A k \in 1..Len(s) : k + 1 \in 1..(Len(s) + 1) /\ (<<x>> \o s)[k + 1] = s[k]
  BY <1>1, <1>2
<1>6. 1 \in 1..(Len(s) + 1)
  BY <1>2
<1>7. ASSUME NEW e \in Elems(<<x>> \o s) PROVE e \in Elems(s) \cup {x}
  BY <1>2, <1>4 DEF Elems
<1>8. ASSUME NEW e \in Elems(s) PROVE e \in Elems(<<x>> \o s)
  <2>1. PICK k \in 1..Len(s) : e = s[k]
    BY <1>2 DEF Elems
  <2>2. (<<x>> \o s)[k + 1] = e /\ k + 1 \in 1..(Len(s) + 1)
    BY <1>5, <2>1
  <2> QED BY <1>2, <2>2 DEF Elems
<1>9. x \in Elems(<<x>> \o s)
  BY <1>1, <1>2, <1>6 DEF Elems
<1> QED BY <1>1, <1>7, <1>8, <1>9

LEMMA HeadTailElems ==
  ASSUME NEW S, NEW s \in Seq(S), s # <<>>
  PROVE  /\ Head(s) \in S /\ Tail(s) \in Seq(S)
         /\ Elems(s) = {Head(s)} \cup Elems(Tail(s))
<1>1. /\ Head(s) \in S /\ Tail(s) \in Seq(S) /\ Head(s) = s[1]
      /\ Len(s) \in Nat /\ Len(s) >= 1 /\ DOMAIN s = 1..Len(s)
      /\ Len(Tail(s)) = Len(s) - 1 /\ DOMAIN Tail(s) = 1..(Len(s) - 1)
      /\ \A i \in 1..(Len(s) - 1) : Tail(s)[i] = s[i + 1]
  OBVIOUS
<1>2. \A i \in 1..Len(s) : i = 1 \/ \E k \in 1..(Len(s) - 1) : i = k + 1
  BY <1>1
<1>3. \A i \in 1..Len(s) : s[i] = Head(s) \/ \E k \in 1..(Len(s) - 1) : s[i] = Tail(s)[k]
  BY <1>1, <1>2
<1>4. \A k \in 1..(Len(s) - 1) : k + 1 \in 1..Len(s)
  BY <1>1
<1>5. 1 \in 1..Len(s)
  BY <1>1
<1>6. ASSUME NEW e \in Elems(s) PROVE e \in {Head(s)} \cup Elems(Tail(s))
  <2>1. PICK i \in 1..Len(s) : e = s[i]
    BY <1>1 DEF Elems
  <2>2. CASE s[i] = Head(s)
    BY <2>1, <2>2
  <2>3. CASE \E k \in 1..(Len(s) - 1) : s[i] = Tail(s)[k]
    BY <1>1, <2>1, <2>3 DEF Elems
  <2> QED BY <1>3, <2>2, <2>3
<1>7. ASSUME NEW e \in Elems(Tail(s)) PROVE e \in Elems(s)
  <2>1. PICK k \in 1..(Len(s) - 1) : e = Tail(s)[k]
    BY <1>1 DEF Elems
  <2>2. s[k + 1] = e /\ k + 1 \in 1..Len(s)
    BY <1>1, <1>4, <2>1
  <2> QED BY <1>1, <2>2 DEF Elems
<1>8. Head(s) \in Elems(s)
  BY <1>1, <1>5 DEF Elems
<1> QED BY <1>1, <1>6, <1>7, <1>8

LEMMA EmptyElems == Elems(<<>>) = {}
BY DEF Elems

LEMMA HeldElems ==
  ASSUME NEW w \in Processes
  PROVE  Held(w) = Elems(queue[w]) \cup ({pending[w]} \ {NoItem})
BY DEF Held, QueueItems, Expects, Elems

-----------------------------------------------------------------------------
(* Pump *)

\* What a worker has after it was given its next request.
LEMMA PumpFacts ==
  ASSUME PyTypeOK, NEW w \in Processes, NEW q \in Seq(Items), NEW p \in Items \cup {NoItem},
         Pump(w, q, p)
  PROVE  /\ queue' \in [Processes -> Seq(Items)]
         /\ pending' \in [Processes -> Items \cup {NoItem}]
         /\ armed' \in [Processes -> BOOLEAN] /\ owes' \in [Processes -> BOOLEAN]
         /\ \A v \in Processes : v # w => /\ queue'[v] = queue[v] /\ pending'[v] = pending[v]
                                          /\ armed'[v] = armed[v] /\ owes'[v] = owes[v]
         /\ Elems(queue'[w]) \cup ({pending'[w]} \ {NoItem}) = Elems(q) \cup ({p} \ {NoItem})
         /\ queue'[w] # <<>> => pending'[w] # NoItem /\ owes'[w]
         /\ armed'[w] => pending'[w] = NoItem \/ (armed[w] /\ p # NoItem)
         /\ p = NoItem /\ q = <<>> => pending'[w] = NoItem /\ queue'[w] = <<>>
<1> USE DEF PyTypeOK
<1>0. NoItem \notin Items
  BY ItemAssumption DEF Items
<1>1. CASE p = NoItem /\ q # <<>>
  <2>1. Head(q) \in Items /\ Tail(q) \in Seq(Items) /\ Elems(q) = {Head(q)} \cup Elems(Tail(q))
    BY <1>1, HeadTailElems
  <2>2. /\ queue' = [queue EXCEPT ![w] = Tail(q)] /\ pending' = [pending EXCEPT ![w] = Head(q)]
        /\ owes' = [owes EXCEPT ![w] = TRUE] /\ armed' = [armed EXCEPT ![w] = FALSE]
    BY <1>1 DEF Pump
  <2>3. /\ queue'[w] = Tail(q) /\ pending'[w] = Head(q) /\ owes'[w] = TRUE /\ armed'[w] = FALSE
    BY <2>2
  <2>4. Elems(queue'[w]) \cup ({pending'[w]} \ {NoItem}) = Elems(q) \cup ({p} \ {NoItem})
    BY <1>0, <1>1, <2>1, <2>3
  <2>5. /\ queue' \in [Processes -> Seq(Items)] /\ pending' \in [Processes -> Items \cup {NoItem}]
        /\ armed' \in [Processes -> BOOLEAN] /\ owes' \in [Processes -> BOOLEAN]
    BY <2>1, <2>2
  <2> QED BY <1>0, <1>1, <2>1, <2>2, <2>3, <2>4, <2>5
<1>2. CASE ~(p = NoItem /\ q # <<>>)
  <2>2. /\ queue' = [queue EXCEPT ![w] = q] /\ pending' = [pending EXCEPT ![w] = p]
        /\ owes' = [owes EXCEPT ![w] = p # NoItem]
        /\ armed' = [armed EXCEPT ![w] = armed[w] \/ p = NoItem]
    BY <1>2 DEF Pump
  <2>3. /\ queue'[w] = q /\ pending'[w] = p /\ owes'[w] = (p # NoItem)
        /\ armed'[w] = (armed[w] \/ p = NoItem)
    BY <2>2
  <2>4. /\ queue' \in [Processes -> Seq(Items)] /\ pending' \in [Processes -> Items \cup {NoItem}]
        /\ armed' \in [Processes -> BOOLEAN] /\ owes' \in [Processes -> BOOLEAN]
    BY <2>2
  <2> QED BY <1>2, <2>2, <2>3, <2>4
<1> QED BY <1>1, <1>2

-----------------------------------------------------------------------------
(* Types, and what a run's record keeps *)

\* A run's record, as PyTypeOK has it.
Record == [started : BOOLEAN, kept : BOOLEAN, done : BOOLEAN,
           result : Results \cup {"none"}, retry : BOOLEAN,
           told : Results \cup {"nobody", "watching"}]

\* A record that is done or kept belongs to a run that began; one that is done
\* has a result.
Begun ==
  \A j \in Runs : /\ job[j].kept \/ job[j].done => job[j].started
                  /\ job[j].done => job[j].result \in Results

\* No record that is done is reopened or gets another result.
DoneStays == \A j \in Runs : job[j].done => job'[j].done /\ job'[j].result = job[j].result

LEMMA SettledType ==
  ASSUME NEW l \in Record, NEW r \in Results
  PROVE  /\ Settled(l, r) \in Record
         /\ Settled(l, r).started = l.started /\ Settled(l, r).kept = l.kept
         /\ Settled(l, r).done = TRUE /\ Settled(l, r).result = r
         /\ [Settled(l, r) EXCEPT !.done = FALSE] \in Record
         /\ [Settled(l, r) EXCEPT !.done = FALSE].started = l.started
         /\ [Settled(l, r) EXCEPT !.done = FALSE].kept = l.kept
         /\ [Settled(l, r) EXCEPT !.done = FALSE].done = FALSE
BY DEF Record, Settled

LEMMA SettleFacts ==
  ASSUME PyTypeOK, Begun, NEW S, NEW r \in Results, SettleItems(S, r)
  PROVE  /\ job' \in [Runs -> Record] /\ waiting' \subseteq Intels
         /\ Begun' /\ DoneStays
         /\ \A j \in Runs : job'[j].started = job[j].started /\ job'[j].kept = job[j].kept
         /\ \A j \in Runs : ~job'[j].done => ~job[j].done /\ (job[j].kept => j \notin S)
<1>1. \A j \in Runs : /\ job[j] \in Record
                      /\ job'[j] = IF j \in S /\ Settles(j) THEN Settled(job[j], r) ELSE job[j]
  BY DEF PyTypeOK, SettleItems, Record
<1>2. \A j \in Runs : job'[j] \in Record
  BY ZenonT(30), <1>1, SettledType
<1>3. job' = [j \in Runs |-> job'[j]]
  BY DEF SettleItems
<1>4. job' \in [Runs -> Record]
  BY <1>2, <1>3
<1>5. ASSUME NEW j \in Runs
      PROVE  /\ job'[j].started = job[j].started /\ job'[j].kept = job[j].kept
             /\ \/ job[j].kept /\ ~job[j].done /\ job'[j].done /\ job'[j].result = r
                \/ (j \notin S \/ ~Settles(j)) /\ job'[j] = job[j]
  <2>1. CASE j \in S /\ Settles(j)
    <3>1. job'[j] = Settled(job[j], r)
      BY <1>1, <2>1
    <3>2. job[j] \in Record
      BY <1>1
    <3>3. /\ Settled(job[j], r).started = job[j].started /\ Settled(job[j], r).kept = job[j].kept
          /\ Settled(job[j], r).done = TRUE /\ Settled(job[j], r).result = r
      BY <3>2, SettledType
    <3> QED BY <2>1, <3>1, <3>3 DEF Settles
  <2>2. CASE ~(j \in S /\ Settles(j))
    <3>1. job'[j] = job[j]
      BY <1>1, <2>2
    <3> QED BY <2>2, <3>1
  <2> QED BY <2>1, <2>2
<1>6. \A j \in Runs : ~job'[j].done => ~job[j].done /\ (job[j].kept => j \notin S)
  BY <1>5 DEF Settles
<1>7. DoneStays
  BY <1>5 DEF DoneStays
<1>8. Begun'
  BY <1>5 DEF Begun
<1>9. waiting' \subseteq Intels
  BY DEF SettleItems, PyTypeOK
<1> QED BY <1>4, <1>5, <1>6, <1>7, <1>8, <1>9
\* The step of one record.
LEMMA OneRecord ==
  ASSUME PyTypeOK, Begun, NEW j \in Runs, NEW l \in Record, job' = [job EXCEPT ![j] = l],
         l.kept \/ l.done => l.started, l.done => l.result \in Results,
         job[j].done => l.done /\ l.result = job[j].result
  PROVE  /\ job' \in [Runs -> Record] /\ Begun' /\ DoneStays
         /\ job'[j] = l /\ \A k \in Runs : k # j => job'[k] = job[k]
BY DEF PyTypeOK, Begun, DoneStays, Record

\* What the runner keeps true of its processes.
ProcessInv ==
  /\ RunningIsCurrent
  /\ \A w \in Processes :
       /\ w # current => pending[w] = NoItem /\ queue[w] = <<>>
       /\ armed[w] => pending[w] = NoItem
       /\ queue[w] # <<>> => pending[w] # NoItem /\ owes[w]

Has(w, x) == x \in Elems(queue[w]) \/ x = pending[w]

IsOpen(j) == job[j].started /\ ~job[j].done /\ job[j].kept

\* The notebook's worker holds every run and every editor request that is open.
OpenIsHeld ==
  /\ \A j \in Runs : IsOpen(j) => \E w \in Processes : w = current /\ Has(w, j)
  /\ \A i \in waiting \ lost : \E w \in Processes : w = current /\ Has(w, i)

PyInv == PyTypeOK /\ Begun /\ ProcessInv /\ OpenIsHeld

LEMMA PyInitInv ==
  ASSUME PyInit
  PROVE  PyInv
<1>1. \A j \in Runs : job[j] = NoJob
  BY DEF PyInit
<1>2. NoJob \in Record /\ ~NoJob.started /\ ~NoJob.kept /\ ~NoJob.done
  BY DEF NoJob, Record
<1>3. job \in [Runs -> Record]
  BY <1>1, <1>2 DEF PyInit
<1>4. PyTypeOK
  BY <1>3, ProcessesAssumption DEF PyInit, PyTypeOK, Record, Items
<1>5. Begun /\ OpenIsHeld
  BY <1>1, <1>2 DEF PyInit, Begun, OpenIsHeld, IsOpen
<1>6. ProcessInv
  <2>1. \A w \in Processes : w # 0
    BY ProcessesAssumption DEF Processes
  <2> QED BY <2>1 DEF PyInit, ProcessInv, RunningIsCurrent
<1> QED BY <1>4, <1>5, <1>6 DEF PyInv
LEMMA NotZero == \A w \in Processes : w # 0
BY ProcessesAssumption DEF Processes

LEMMA NotNoItem == NoItem \notin Items /\ Runs \subseteq Items /\ Intels \subseteq Items
BY ItemAssumption DEF Items

\* A step that changes records alone, and opens none.
LEMMA RecordStep ==
  ASSUME PyInv, NEW j \in Runs, NEW l \in Record, job' = [job EXCEPT ![j] = l],
         l.kept \/ l.done => l.started, l.done => l.result \in Results,
         job[j].done => l.done /\ l.result = job[j].result,
         l.started /\ ~l.done /\ l.kept => IsOpen(j),
         UNCHANGED <<current, process, queue, pending, armed, owes, waiting, lost>>
  PROVE  PyInv' /\ DoneStays
<1>1. /\ job' \in [Runs -> Record] /\ Begun' /\ DoneStays
      /\ job'[j] = l /\ \A k \in Runs : k # j => job'[k] = job[k]
  BY OneRecord DEF PyInv
<1>2. PyTypeOK'
  BY <1>1 DEF PyInv, PyTypeOK, Record
<1>3. ProcessInv'
  BY DEF PyInv, ProcessInv, RunningIsCurrent
<1>4. OpenIsHeld'
  BY <1>1 DEF PyInv, OpenIsHeld, IsOpen, Has
<1> QED BY <1>1, <1>2, <1>3, <1>4 DEF PyInv

LEMMA SpawnCellStep ==
  ASSUME PyInv, NEW j \in Runs, SpawnCell(j)
  PROVE  PyInv' /\ DoneStays
<1> USE DEF PyInv
<1>1. PICK w \in Processes :
        /\ IF current # 0 THEN w = current
           ELSE process[w] = "none" /\ \A p \in 1..(w - 1) : process[p] # "none"
        /\ current' = w
        /\ process' = [process EXCEPT ![w] = "running"]
        /\ Pump(w, Append(queue[w], j), pending[w])
  BY DEF SpawnCell
<1>1a. queue[w] \in Seq(Items) /\ j \in Items
  BY NotNoItem DEF PyTypeOK
<1>1b. Append(queue[w], j) \in Seq(Items) /\ Elems(Append(queue[w], j)) = Elems(queue[w]) \cup {j}
  BY <1>1a, AppendElems
<1>2. PICK q \in Seq(Items) : q = Append(queue[w], j) /\ Elems(q) = Elems(queue[w]) \cup {j}
  BY <1>1b
<1>2a. PICK p \in Items \cup {NoItem} : p = pending[w] /\ Pump(w, q, p)
  BY <1>1, <1>2 DEF PyTypeOK
<1>3. /\ queue' \in [Processes -> Seq(Items)]
      /\ pending' \in [Processes -> Items \cup {NoItem}]
      /\ armed' \in [Processes -> BOOLEAN] /\ owes' \in [Processes -> BOOLEAN]
      /\ \A v \in Processes : v # w => /\ queue'[v] = queue[v] /\ pending'[v] = pending[v]
                                       /\ armed'[v] = armed[v] /\ owes'[v] = owes[v]
      /\ Elems(queue'[w]) \cup ({pending'[w]} \ {NoItem}) = Elems(q) \cup ({p} \ {NoItem})
      /\ queue'[w] # <<>> => pending'[w] # NoItem /\ owes'[w]
      /\ armed'[w] => pending'[w] = NoItem \/ (armed[w] /\ p # NoItem)
  BY <1>2a, PumpFacts
<1>4. /\ job' \in [Runs -> Record] /\ Begun' /\ DoneStays
      /\ \A k \in Runs : k # j => job'[k] = job[k]
  <2> DEFINE l == [job[j] EXCEPT !.started = TRUE, !.kept = TRUE, !.retry = TRUE]
  <2>1. job[j] \in Record /\ ~job[j].done
    BY DEF SpawnCell, PyTypeOK, Begun, Record
  <2>2. l \in Record /\ l.started = TRUE /\ l.done = FALSE
    BY <2>1 DEF Record
  <2>3. job' = [job EXCEPT ![j] = l]
    BY DEF SpawnCell
  <2> HIDE DEF l
  <2> QED BY <2>1, <2>2, <2>3, OneRecord
<1>5. PyTypeOK'
  BY <1>1, <1>3, <1>4 DEF SpawnCell, PyTypeOK, Record
<1>6. \A x \in Items : x = j \/ Has(w, x) => Has(w, x)'
  BY <1>2, <1>2a, <1>3, NotNoItem DEF Has
<1>7. current # 0 => w = current
  BY <1>1
<1>8. ProcessInv'
  <2>1. RunningIsCurrent'
    BY <1>1, <1>7, NotZero DEF ProcessInv, RunningIsCurrent, PyTypeOK
  <2>2. \A v \in Processes : v # w => v # current
    BY <1>7, NotZero
  <2> QED BY <1>1, <1>2a, <1>3, <2>1, <2>2 DEF ProcessInv
<1>9. OpenIsHeld'
  <2>1. ASSUME NEW k \in Runs, IsOpen(k)' PROVE Has(w, k)'
    <3>1. CASE k = j
      BY <1>6, <3>1, NotNoItem
    <3>2. CASE k # j
      <4>1. IsOpen(k)
        BY <1>4, <2>1, <3>2 DEF IsOpen
      <4>2. PICK v \in Processes : v = current /\ Has(v, k)
        BY <4>1 DEF OpenIsHeld
      <4> QED BY <1>6, <1>7, <4>2, NotZero, NotNoItem
    <3> QED BY <3>1, <3>2
  <2>2. ASSUME NEW i \in waiting' \ lost' PROVE Has(w, i)'
    <3>1. i \in waiting \ lost /\ i \in Items
      BY <2>2, NotNoItem DEF SpawnCell, PyTypeOK
    <3>2. PICK v \in Processes : v = current /\ Has(v, i)
      BY <3>1 DEF OpenIsHeld
    <3> QED BY <1>6, <1>7, <3>1, <3>2, NotZero
  <2> QED BY <1>1, <2>1, <2>2 DEF OpenIsHeld
<1> QED BY <1>4, <1>5, <1>8, <1>9

LEMMA AskIntelStep ==
  ASSUME PyInv, NEW i \in Intels, AskIntel(i)
  PROVE  PyInv' /\ DoneStays
<1> USE DEF PyInv
<1>1. PICK w \in Processes : w = current /\ Pump(w, Append(queue[w], i), pending[w])
  BY DEF AskIntel, PyTypeOK
<1> DEFINE q == Append(queue[w], i)
<1>2. q \in Seq(Items) /\ Elems(q) = Elems(queue[w]) \cup {i}
  BY AppendElems, NotNoItem DEF PyTypeOK
<1>3. /\ queue' \in [Processes -> Seq(Items)]
      /\ pending' \in [Processes -> Items \cup {NoItem}]
      /\ armed' \in [Processes -> BOOLEAN] /\ owes' \in [Processes -> BOOLEAN]
      /\ \A v \in Processes : v # w => /\ queue'[v] = queue[v] /\ pending'[v] = pending[v]
                                       /\ armed'[v] = armed[v] /\ owes'[v] = owes[v]
      /\ Elems(queue'[w]) \cup ({pending'[w]} \ {NoItem}) = Elems(q) \cup ({pending[w]} \ {NoItem})
      /\ queue'[w] # <<>> => pending'[w] # NoItem /\ owes'[w]
      /\ armed'[w] => pending'[w] = NoItem \/ (armed[w] /\ pending[w] # NoItem)
  BY <1>1, <1>2, PumpFacts DEF PyTypeOK
<1>4. /\ UNCHANGED <<current, process, job, lost>> /\ waiting' = waiting \cup {i}
  BY DEF AskIntel
<1>5. PyTypeOK'
  BY <1>3, <1>4 DEF PyTypeOK
<1>6. \A x \in Items : x = i \/ Has(w, x) => Has(w, x)'
  BY <1>2, <1>3, NotNoItem DEF Has
<1>7. ProcessInv'
  BY <1>1, <1>3, <1>4 DEF ProcessInv, RunningIsCurrent
<1>8. OpenIsHeld'
  <2>1. \A k \in Runs : IsOpen(k)' => Has(w, k)'
    BY <1>1, <1>4, <1>6, NotNoItem DEF OpenIsHeld, IsOpen
  <2>2. \A k \in waiting' \ lost' : Has(w, k)'
    BY <1>1, <1>4, <1>6, NotNoItem DEF OpenIsHeld, PyTypeOK
  <2> QED BY <1>1, <1>4, <2>1, <2>2 DEF OpenIsHeld
<1>9. Begun' /\ DoneStays
  BY <1>4 DEF Begun, DoneStays
<1> QED BY <1>5, <1>7, <1>8, <1>9

\* A result, or a line that is none: the pending request ends, the next is sent.
LEMMA WorkerLineStep ==
  ASSUME PyInv, NEW w \in Processes, NEW r \in Results,
         SettleItems(Expects(w), r), Pump(w, queue[w], NoItem),
         UNCHANGED <<current, process, lost>>
  PROVE  PyInv' /\ DoneStays
<1> USE DEF PyInv
<1>1. /\ job' \in [Runs -> Record] /\ waiting' \subseteq Intels
      /\ Begun' /\ DoneStays
      /\ \A j \in Runs : job'[j].started = job[j].started /\ job'[j].kept = job[j].kept
      /\ \A j \in Runs : ~job'[j].done => ~job[j].done /\ (job[j].kept => j \notin Expects(w))
  BY SettleFacts
<1>2. queue[w] \in Seq(Items)
  BY DEF PyTypeOK
<1>3. /\ queue' \in [Processes -> Seq(Items)]
      /\ pending' \in [Processes -> Items \cup {NoItem}]
      /\ armed' \in [Processes -> BOOLEAN] /\ owes' \in [Processes -> BOOLEAN]
      /\ \A v \in Processes : v # w => /\ queue'[v] = queue[v] /\ pending'[v] = pending[v]
                                       /\ armed'[v] = armed[v] /\ owes'[v] = owes[v]
      /\ Elems(queue'[w]) \cup ({pending'[w]} \ {NoItem}) = Elems(queue[w]) \cup ({NoItem} \ {NoItem})
      /\ queue'[w] # <<>> => pending'[w] # NoItem /\ owes'[w]
      /\ armed'[w] => pending'[w] = NoItem
      /\ queue[w] = <<>> => pending'[w] = NoItem /\ queue'[w] = <<>>
  BY <1>2, PumpFacts
<1>4. PyTypeOK'
  BY <1>1, <1>3 DEF PyTypeOK, Record
<1>5. \A x \in Items : Has(w, x) /\ x \notin Expects(w) => Has(w, x)'
  BY <1>3, NotNoItem DEF Has, Expects
<1>6. \A v \in Processes : v # w => \A x : Has(v, x) => Has(v, x)'
  BY <1>3 DEF Has
<1>7. ProcessInv'
  BY <1>3 DEF ProcessInv, RunningIsCurrent
<1>8. OpenIsHeld'
  <2>1. ASSUME NEW k \in Runs, IsOpen(k)' PROVE \E v \in Processes : v = current' /\ Has(v, k)'
    <3>1. IsOpen(k) /\ k \notin Expects(w)
      BY <1>1, <2>1 DEF IsOpen
    <3>2. PICK v \in Processes : v = current /\ Has(v, k)
      BY <3>1 DEF OpenIsHeld
    <3> QED BY <1>5, <1>6, <3>1, <3>2, NotNoItem
  <2>2. ASSUME NEW i \in waiting' \ lost' PROVE \E v \in Processes : v = current' /\ Has(v, i)'
    <3>1. i \in waiting \ lost /\ i \notin Expects(w) /\ i \in Items
      BY <2>2, NotNoItem DEF SettleItems, PyTypeOK
    <3>2. PICK v \in Processes : v = current /\ Has(v, i)
      BY <3>1 DEF OpenIsHeld
    <3> QED BY <1>5, <1>6, <3>1, <3>2
  <2> QED BY <2>1, <2>2 DEF OpenIsHeld
<1> QED BY <1>1, <1>4, <1>7, <1>8
LEMMA RetryStep ==
  ASSUME PyInv, NEW w \in Processes, NEW j \in Runs, InstallAndRetry(w, j)
  PROVE  PyInv' /\ DoneStays
<1> USE DEF PyInv
<1>1. /\ pending[w] = j /\ ~job[j].done /\ job[j].kept /\ job[j].started
      /\ UNCHANGED <<current, process, waiting, lost>>
  BY DEF InstallAndRetry, Settles, Begun
<1>2. w = current
  BY <1>1, NotNoItem DEF ProcessInv
<1> DEFINE q == <<j>> \o queue[w]
<1>3. /\ q \in Seq(Items) /\ Elems(q) = Elems(queue[w]) \cup {j}
      /\ Pump(w, q, NoItem) /\ PyTypeOK
  BY ConsElems, NotNoItem DEF InstallAndRetry, PyTypeOK
<1>4. /\ queue' \in [Processes -> Seq(Items)]
      /\ pending' \in [Processes -> Items \cup {NoItem}]
      /\ armed' \in [Processes -> BOOLEAN] /\ owes' \in [Processes -> BOOLEAN]
      /\ \A v \in Processes : v # w => /\ queue'[v] = queue[v] /\ pending'[v] = pending[v]
                                       /\ armed'[v] = armed[v] /\ owes'[v] = owes[v]
      /\ Elems(queue'[w]) \cup ({pending'[w]} \ {NoItem}) = Elems(q) \cup ({NoItem} \ {NoItem})
      /\ queue'[w] # <<>> => pending'[w] # NoItem /\ owes'[w]
      /\ armed'[w] => pending'[w] = NoItem
  BY <1>3, PumpFacts
<1>5. /\ job' \in [Runs -> Record] /\ Begun' /\ DoneStays
      /\ \A k \in Runs : k # j => job'[k] = job[k]
  <2> DEFINE l == [Settled(job[j], "missing") EXCEPT !.done = FALSE]
  <2>1. job[j] \in Record
    BY DEF PyTypeOK, Record
  <2>2. l \in Record /\ l.started = job[j].started /\ l.done = FALSE
    BY <2>1, SettledType DEF Results
  <2>3. job' = [job EXCEPT ![j] = l]
    BY DEF InstallAndRetry
  <2> HIDE DEF l
  <2> QED BY <1>1, <2>2, <2>3, OneRecord
<1>6. PyTypeOK'
  BY <1>1, <1>4, <1>5 DEF PyTypeOK, Record
<1>7. \A x \in Items : Has(w, x) => Has(w, x)'
  BY <1>1, <1>3, <1>4, NotNoItem DEF Has
<1>8. ProcessInv'
  BY ZenonT(30), <1>1, <1>2, <1>4 DEF ProcessInv, RunningIsCurrent
<1>9. OpenIsHeld'
  <2>1. \A k \in Runs : IsOpen(k)' => Has(w, k)'
    <3> SUFFICES ASSUME NEW k \in Runs, IsOpen(k)' PROVE Has(w, k)'
      OBVIOUS
    <3>1. CASE k = j
      BY <1>1, <1>7, <3>1, NotNoItem DEF Has
    <3>2. CASE k # j
      BY <1>2, <1>5, <1>7, <3>2, NotNoItem DEF OpenIsHeld, IsOpen
    <3> QED BY <3>1, <3>2
  <2>2. \A i \in waiting' \ lost' : Has(w, i)'
    BY <1>1, <1>2, <1>7, NotNoItem DEF OpenIsHeld, PyTypeOK
  <2> QED BY <1>1, <1>2, <2>1, <2>2 DEF OpenIsHeld
<1> QED BY <1>5, <1>6, <1>8, <1>9

LEMMA CancelRunStep ==
  ASSUME PyInv, NEW j \in Runs, CancelRun(j)
  PROVE  PyInv' /\ DoneStays
<1> USE DEF PyInv
<1>1. PICK S : /\ SettleItems(S, "cancelled")
               /\ current # 0 => CancelledBy(current) \subseteq S
  BY DEF CancelRun
<1>2. /\ job' \in [Runs -> Record] /\ waiting' \subseteq Intels
      /\ Begun' /\ DoneStays
      /\ \A k \in Runs : job'[k].started = job[k].started /\ job'[k].kept = job[k].kept
      /\ \A k \in Runs : ~job'[k].done => ~job[k].done /\ (job[k].kept => k \notin S)
  BY <1>1, SettleFacts DEF Results
<1>3. CASE current = 0
  <2>1. UNCHANGED <<current, process, queue, pending, lost, armed, owes>>
    BY <1>3 DEF CancelRun
  <2>2. \A k \in Runs : ~IsOpen(k)'
    BY <1>2, <1>3, NotZero DEF OpenIsHeld, IsOpen
  <2>3. waiting' \ lost' = {}
    BY <1>1, <1>3, <2>1, NotZero DEF OpenIsHeld, SettleItems
  <2>4. PyTypeOK'
    BY <1>2, <2>1 DEF PyTypeOK, Record
  <2>5. ProcessInv'
    BY <2>1 DEF ProcessInv, RunningIsCurrent
  <2> QED BY <1>2, <2>2, <2>3, <2>4, <2>5 DEF OpenIsHeld
<1>4. CASE current # 0
  <2>0. PICK w \in Processes : w = current
    BY <1>4 DEF PyTypeOK
  <2>1. /\ lost' = lost \cup ((QueueItems(w) \cap Intels) \ {pending[w]})
        /\ current' = 0
        /\ process' = [process EXCEPT ![w] = "killed"]
        /\ queue'   = [queue EXCEPT ![w] = <<>>]
        /\ pending' = [pending EXCEPT ![w] = NoItem]
        /\ UNCHANGED <<armed, owes>>
    BY <1>4, <2>0 DEF CancelRun
  <2>2. \A x : x \in Elems(queue[w]) <=> x \in QueueItems(w)
    BY DEF Elems, QueueItems
  <2>3. \A k \in Runs : ~IsOpen(k)'
    <3> SUFFICES ASSUME NEW k \in Runs, IsOpen(k)' PROVE FALSE
      OBVIOUS
    <3>1. IsOpen(k) /\ k \notin S
      BY <1>2 DEF IsOpen
    <3>2. Has(w, k)
      BY <2>0, <3>1 DEF OpenIsHeld
    <3>3. k \in CancelledBy(w)
      BY <2>2, <3>2 DEF Has, CancelledBy
    <3> QED BY <1>1, <1>4, <2>0, <3>1, <3>3
  <2>4. waiting' \ lost' = {}
    <3> SUFFICES ASSUME NEW i \in waiting' \ lost' PROVE FALSE
      OBVIOUS
    <3>1. i \in waiting /\ i \notin S /\ i \notin lost /\ i \in Intels
      BY <1>1, <2>1 DEF SettleItems, PyTypeOK
    <3>2. Has(w, i)
      BY <2>0, <3>1 DEF OpenIsHeld
    <3>3. i \in CancelledBy(w) \/ i \in lost'
      BY <2>1, <2>2, <3>1, <3>2 DEF Has, CancelledBy
    <3> QED BY <1>1, <1>4, <2>0, <3>1, <3>3
  <2>5. PyTypeOK'
    <3>1. queue' \in [Processes -> Seq(Items)]
      BY <2>1 DEF PyTypeOK
    <3>2. lost' \subseteq Intels
      BY <2>1 DEF PyTypeOK
    <3> QED BY <1>2, <2>1, <3>1, <3>2 DEF PyTypeOK, Record
  <2>6. ProcessInv'
    <3>1. \A v \in Processes : v # w => v # current
      BY <2>0
    <3>2. RunningIsCurrent'
      BY <2>0, <2>1, NotZero DEF ProcessInv, RunningIsCurrent, PyTypeOK
    <3>3. ASSUME NEW v \in Processes
          PROVE  pending'[v] = NoItem /\ queue'[v] = <<>>
      BY <2>1, <3>1 DEF ProcessInv, PyTypeOK
    <3> QED BY <3>2, <3>3 DEF ProcessInv
  <2> QED BY <1>2, <2>3, <2>4, <2>5, <2>6 DEF OpenIsHeld
<1> QED BY <1>3, <1>4

LEMMA WorkerExitsStep ==
  ASSUME PyInv, NEW w \in Processes, WorkerExits(w)
  PROVE  PyInv' /\ DoneStays
<1> USE DEF PyInv
<1> DEFINE S == QueueItems(w) \cup Expects(w)
<1>1. /\ SettleItems(S, "error")
      /\ process' = [process EXCEPT ![w] = "exited"]
      /\ current' = IF current = w THEN 0 ELSE current
      /\ queue'   = [queue EXCEPT ![w] = <<>>]
      /\ pending' = [pending EXCEPT ![w] = NoItem]
      /\ owes'    = [owes EXCEPT ![w] = FALSE]
      /\ UNCHANGED <<armed, lost>>
  BY DEF WorkerExits, Leaves
<1>2. /\ job' \in [Runs -> Record] /\ waiting' \subseteq Intels
      /\ Begun' /\ DoneStays
      /\ \A k \in Runs : job'[k].started = job[k].started /\ job'[k].kept = job[k].kept
      /\ \A k \in Runs : ~job'[k].done => ~job[k].done /\ (job[k].kept => k \notin S)
  BY <1>1, SettleFacts DEF Results
<1>3. \A x \in Items : Has(w, x) => x \in S
  BY NotNoItem DEF Has, Elems, QueueItems, Expects
<1>4. PyTypeOK'
  <2>1. queue' \in [Processes -> Seq(Items)]
    BY <1>1 DEF PyTypeOK
  <2>2. /\ pending' \in [Processes -> Items \cup {NoItem}] /\ owes' \in [Processes -> BOOLEAN]
        /\ process' \in [Processes -> {"none", "running", "killed", "exited"}]
        /\ current' \in Processes \cup {0}
    BY <1>1 DEF PyTypeOK
  <2> QED BY <1>1, <1>2, <2>1, <2>2 DEF PyTypeOK, Record
<1>5. ProcessInv'
  <2>1. RunningIsCurrent'
    BY <1>1, NotZero DEF ProcessInv, RunningIsCurrent, PyTypeOK
  <2>2. ASSUME NEW v \in Processes
        PROVE  /\ v # current' => pending'[v] = NoItem /\ queue'[v] = <<>>
               /\ armed'[v] => pending'[v] = NoItem
               /\ queue'[v] # <<>> => pending'[v] # NoItem /\ owes'[v]
    <3>1. CASE v = w
      BY <1>1, <3>1 DEF PyTypeOK
    <3>2. CASE v # w
      <4>1. /\ pending'[v] = pending[v] /\ queue'[v] = queue[v] /\ owes'[v] = owes[v]
            /\ armed'[v] = armed[v]
        BY <1>1, <3>2 DEF PyTypeOK
      <4>2. v # current' => v # current
        BY <1>1, <3>2
      <4> QED BY <4>1, <4>2 DEF ProcessInv
    <3> QED BY <3>1, <3>2
  <2> QED BY <2>1, <2>2 DEF ProcessInv
<1>6. OpenIsHeld'
  <2>1. ASSUME NEW x \in Items, x \notin S, NEW v \in Processes, v = current, Has(v, x)
        PROVE  v = current' /\ Has(v, x)'
    <3>1. v # w
      BY <1>3, <2>1
    <3>2. queue'[v] = queue[v] /\ pending'[v] = pending[v]
      BY <1>1, <3>1 DEF PyTypeOK
    <3> QED BY <1>1, <2>1, <3>1, <3>2 DEF Has
  <2>2. ASSUME NEW k \in Runs, IsOpen(k)' PROVE \E v \in Processes : v = current' /\ Has(v, k)'
    <3>1. IsOpen(k) /\ k \notin S
      BY <1>2, <2>2 DEF IsOpen
    <3> QED BY <2>1, <3>1, NotNoItem DEF OpenIsHeld
  <2>3. ASSUME NEW i \in waiting' \ lost' PROVE \E v \in Processes : v = current' /\ Has(v, i)'
    <3>1. i \in waiting \ lost /\ i \notin S /\ i \in Items
      BY <1>1, <2>3, NotNoItem DEF SettleItems, PyTypeOK
    <3> QED BY <2>1, <3>1 DEF OpenIsHeld
  <2> QED BY <2>2, <2>3 DEF OpenIsHeld
<1> QED BY <1>2, <1>4, <1>5, <1>6

\* The timer of the notebook's worker fires when the worker has nothing to do.
LEMMA IdleFiresStep ==
  ASSUME PyInv, NEW w \in Processes, IdleFires(w)
  PROVE  PyInv' /\ DoneStays
<1> USE DEF PyInv
<1>1. /\ armed[w] /\ armed' = [armed EXCEPT ![w] = FALSE]
      /\ UNCHANGED <<queue, pending, owes, job, waiting, lost>>
  BY DEF IdleFires
<1>2. Begun' /\ DoneStays
  BY <1>1 DEF Begun, DoneStays
<1>3. CASE current # w
  <2>1. UNCHANGED <<current, process>>
    BY <1>3 DEF IdleFires
  <2>2. PyTypeOK'
    BY <1>1, <2>1 DEF PyTypeOK
  <2>3. ProcessInv'
    BY <1>1, <2>1 DEF ProcessInv, RunningIsCurrent, PyTypeOK
  <2>4. OpenIsHeld'
    BY <1>1, <2>1 DEF OpenIsHeld, IsOpen, Has
  <2> QED BY <1>2, <2>2, <2>3, <2>4
<1>4. CASE current = w
  <2>1. current' = 0 /\ process' = [process EXCEPT ![w] = "killed"]
    BY <1>4 DEF IdleFires
  <2>2. pending[w] = NoItem /\ queue[w] = <<>>
    BY <1>1 DEF ProcessInv
  <2>3. \A x \in Items : ~Has(w, x)
    BY <2>2, EmptyElems, NotNoItem DEF Has
  <2>4. PyTypeOK'
    BY <1>1, <2>1 DEF PyTypeOK
  <2>5. ProcessInv'
    <3>1. RunningIsCurrent'
      BY <1>4, <2>1, NotZero DEF ProcessInv, RunningIsCurrent, PyTypeOK
    <3>2. \A v \in Processes : pending[v] = NoItem /\ queue[v] = <<>>
      BY <1>4, <2>2 DEF ProcessInv
    <3> QED BY <1>1, <3>1, <3>2 DEF ProcessInv
  <2>6. OpenIsHeld'
    <3>1. \A k \in Runs : ~IsOpen(k)
      BY <1>4, <2>3, NotNoItem DEF OpenIsHeld
    <3>2. waiting \ lost = {}
      BY <1>4, <2>3, NotNoItem DEF OpenIsHeld, PyTypeOK
    <3> QED BY <1>1, <3>1, <3>2 DEF OpenIsHeld, IsOpen
  <2> QED BY <1>2, <2>4, <2>5, <2>6
<1> QED BY <1>3, <1>4

LEMMA PyStep ==
  ASSUME PyInv, [PyNext]_pyVars
  PROVE  PyInv' /\ DoneStays
<1> DEFINE Rest == UNCHANGED <<current, process, queue, pending, armed, owes, waiting, lost>>
<1>0. ASSUME NEW j \in Runs
      PROVE  /\ job[j] \in Record /\ (job[j].kept \/ job[j].done => job[j].started)
             /\ job[j].done => job[j].result \in Results
  BY DEF PyInv, PyTypeOK, Record, Begun
<1>1. ASSUME NEW j \in Runs, SpawnFails(j) PROVE PyInv' /\ DoneStays
  <2> DEFINE l == [job[j] EXCEPT !.started = TRUE, !.kept = TRUE, !.done = TRUE, !.result = "error"]
  <2>1. /\ l \in Record /\ l.started = TRUE /\ l.done = TRUE /\ l.result \in Results
        /\ ~job[j].done
    BY <1>0, <1>1 DEF Record, SpawnFails, Results
  <2>2. job' = [job EXCEPT ![j] = l] /\ Rest
    BY <1>1 DEF SpawnFails
  <2> HIDE DEF l
  <2> QED BY <2>1, <2>2, RecordStep
<1>2. ASSUME NEW j \in Runs, Watch(j) PROVE PyInv' /\ DoneStays
  <2> DEFINE l == [job[j] EXCEPT !.told = IF job[j].done THEN job[j].result ELSE "watching"]
  <2>1. /\ l \in Record /\ l.started = job[j].started /\ l.kept = job[j].kept
        /\ l.done = job[j].done /\ l.result = job[j].result
    BY <1>0 DEF Record
  <2>2. job' = [job EXCEPT ![j] = l] /\ Rest
    BY <1>2 DEF Watch
  <2> HIDE DEF l
  <2> QED BY <1>0, <2>1, <2>2, RecordStep DEF IsOpen
<1>3. ASSUME NEW j \in Runs, StopWatching(j) PROVE PyInv' /\ DoneStays
  <2> DEFINE l == [job[j] EXCEPT !.told = "nobody"]
  <2>1. /\ l \in Record /\ l.started = job[j].started /\ l.kept = job[j].kept
        /\ l.done = job[j].done /\ l.result = job[j].result
    BY <1>0 DEF Record
  <2>2. job' = [job EXCEPT ![j] = l] /\ Rest
    BY <1>3 DEF StopWatching
  <2> HIDE DEF l
  <2> QED BY <1>0, <2>1, <2>2, RecordStep DEF IsOpen
<1>4. ASSUME NEW j \in Runs, RecordExpires(j) PROVE PyInv' /\ DoneStays
  <2> DEFINE l == [job[j] EXCEPT !.kept = FALSE]
  <2>1. /\ l \in Record /\ l.started = job[j].started /\ l.kept = FALSE
        /\ l.done = job[j].done /\ l.result = job[j].result
    BY <1>0 DEF Record
  <2>2. job' = [job EXCEPT ![j] = l] /\ Rest
    BY <1>4 DEF RecordExpires
  <2> HIDE DEF l
  <2> QED BY <1>0, <2>1, <2>2, RecordStep
<1>5. ASSUME NEW w \in Processes, NEW r \in {"ok", "error", "missing"}, ResultLine(w, r)
      PROVE  PyInv' /\ DoneStays
  <2>1. r \in Results
    BY DEF Results
  <2> QED BY <1>5, <2>1, WorkerLineStep DEF ResultLine
<1>6. ASSUME NEW w \in Processes, BadLine(w) PROVE PyInv' /\ DoneStays
  <2>1. "error" \in Results
    BY DEF Results
  <2> QED BY <1>6, <2>1, WorkerLineStep DEF BadLine
<1>7. CASE UNCHANGED pyVars
  BY <1>7 DEF pyVars, PyInv, PyTypeOK, Begun, ProcessInv, RunningIsCurrent, OpenIsHeld, IsOpen, Has,
              DoneStays
<1> QED BY <1>1, <1>2, <1>3, <1>4, <1>5, <1>6, <1>7, SpawnCellStep, AskIntelStep, RetryStep,
           CancelRunStep, WorkerExitsStep, IdleFiresStep DEF PyNext

\* What the promises say follows from what the runner keeps true.
LEMMA HeldMeansNothingForgotten ==
  ASSUME PyInv
  PROVE  NothingForgotten
<1>1. \A w \in Processes : \A x \in Items : Has(w, x) => x \in Held(w)
  BY HeldElems, NotNoItem DEF Has
<1>2. \A j \in Runs : IsOpen(j) => current # 0 /\ j \in Held(current)
  BY <1>1, NotZero, NotNoItem DEF PyInv, OpenIsHeld
<1>3. \A i \in waiting \ lost : current # 0 /\ i \in Held(current)
  BY <1>1, NotZero, NotNoItem DEF PyInv, OpenIsHeld, PyTypeOK
<1> QED BY <1>2, <1>3 DEF NothingForgotten, IsOpen, PyInv, ProcessInv

LEMMA PyInvariant == PySpec => []PyInv
<1>1. PyInit => PyInv
  BY PyInitInv
<1>2. PyInv /\ [PyNext]_pyVars => PyInv'
  BY PyStep
<1> QED BY <1>1, <1>2, PTL DEF PySpec

\* Every variable keeps its type.
THEOREM PyTypes == PySpec => []PyTypeOK
BY PyInvariant, PTL DEF PyInv

\* However exits, timers and cancellations of older processes overlap with new
\* ones, the process that runs is the one the notebook knows.
THEOREM OneWorkerRuns == PySpec => []RunningIsCurrent
BY PyInvariant, PTL DEF PyInv, ProcessInv

\* A run that is not done is held by the notebook's worker, and so is an editor
\* request that was neither answered nor dropped.
THEOREM NothingIsForgotten == PySpec => []NothingForgotten
<1>1. PyInv => NothingForgotten
  BY HeldMeansNothingForgotten
<1> QED BY <1>1, PyInvariant, PTL

\* What ended a run first is its result, whatever comes later.
THEOREM DoneRunsAreFinal == PySpec => DoneIsFinal
<1>1. PyInv /\ [PyNext]_pyVars
        => [\A j \in Runs : job[j].done => job'[j].done /\ job'[j].result = job[j].result]_job
  BY PyStep DEF DoneStays
<1> QED BY <1>1, PyInvariant, PTL DEF PySpec, DoneIsFinal

-----------------------------------------------------------------------------
(* What the event streams are told *)

\* ToldIsTrue of one record; nobody listens for a run that has not begun.
TellsTruth(l) ==
  /\ l.told = "watching" => ~l.done
  /\ l.told \in Results \ {"missing"} => l.done /\ l.result = l.told
  /\ l.told # "nobody" => l.started

AllTellTruth == \A j \in Runs : TellsTruth(job[j])

\* The end of an open run tells its listener, and nobody was told another end.
LEMMA SettledTells ==
  ASSUME NEW l \in Record, NEW r \in Results, TellsTruth(l), l.started, ~l.done
  PROVE  /\ TellsTruth(Settled(l, r))
         /\ r = "missing" => TellsTruth([Settled(l, r) EXCEPT !.done = FALSE])
<1>1. l.told \notin Results \ {"missing"}
  BY DEF TellsTruth
<1>2. "watching" \notin Results /\ "nobody" \notin Results
  BY DEF Results
<1> DEFINE s == Settled(l, r)
<1>3. /\ s.done = TRUE /\ s.result = r /\ s.started = l.started
      /\ s.told = IF l.told = "watching" THEN r ELSE l.told
  BY DEF Settled, Record
<1>4. /\ [s EXCEPT !.done = FALSE].done = FALSE
      /\ [s EXCEPT !.done = FALSE].told = s.told
      /\ [s EXCEPT !.done = FALSE].started = s.started
  BY SettledType DEF Record
<1> HIDE DEF s
<1>5. TellsTruth(s)
  BY <1>1, <1>2, <1>3 DEF TellsTruth
<1>6. ASSUME r = "missing" PROVE TellsTruth([s EXCEPT !.done = FALSE])
  BY <1>1, <1>2, <1>3, <1>4, <1>6 DEF TellsTruth
<1> QED BY <1>5, <1>6 DEF s

\* Whatever ends, and however many runs at once.
LEMMA SettleTells ==
  ASSUME PyInv, AllTellTruth, NEW S, NEW r \in Results, SettleItems(S, r)
  PROVE  AllTellTruth'
<1> SUFFICES ASSUME NEW j \in Runs PROVE TellsTruth(job'[j])
  BY DEF AllTellTruth, TellsTruth
<1>1. job[j] \in Record /\ TellsTruth(job[j])
  BY DEF PyInv, PyTypeOK, Record, AllTellTruth
<1>2. job'[j] = IF j \in S /\ Settles(j) THEN Settled(job[j], r) ELSE job[j]
  BY DEF SettleItems
<1>3. Settles(j) => job[j].started /\ ~job[j].done
  BY DEF Settles, PyInv, Begun
<1> QED BY <1>1, <1>2, <1>3, SettledTells

\* The same of a step of one record.
LEMMA OneTells ==
  ASSUME PyTypeOK, AllTellTruth, NEW j \in Runs, NEW l, TellsTruth(l), job' = [job EXCEPT ![j] = l]
  PROVE  AllTellTruth'
<1> SUFFICES ASSUME NEW k \in Runs PROVE TellsTruth(job'[k])
  BY DEF AllTellTruth, TellsTruth
<1>1. job'[k] = l \/ job'[k] = job[k]
  BY DEF PyTypeOK
<1> QED BY <1>1 DEF AllTellTruth

LEMMA TellStep ==
  ASSUME PyInv, AllTellTruth, [PyNext]_pyVars
  PROVE  AllTellTruth'
<1>0. ASSUME NEW j \in Runs
      PROVE  /\ job[j] \in Record /\ TellsTruth(job[j]) /\ PyTypeOK
             /\ job[j].kept \/ job[j].done => job[j].started
             /\ job[j].done => job[j].result \in Results
  BY DEF PyInv, PyTypeOK, Record, AllTellTruth, Begun
<1>1. ASSUME NEW j \in Runs, SpawnCell(j) PROVE AllTellTruth'
  <2> DEFINE l == [job[j] EXCEPT !.started = TRUE, !.kept = TRUE, !.retry = TRUE]
  <2>1. /\ l.started = TRUE /\ l.done = job[j].done /\ l.told = job[j].told
        /\ l.result = job[j].result
    BY <1>0 DEF Record
  <2>2. TellsTruth(l)
    BY <1>0, <2>1 DEF TellsTruth
  <2>3. job' = [job EXCEPT ![j] = l]
    BY <1>1 DEF SpawnCell
  <2> HIDE DEF l
  <2> QED BY <1>0, <2>2, <2>3, OneTells
<1>2. ASSUME NEW j \in Runs, SpawnFails(j) PROVE AllTellTruth'
  <2> DEFINE l == [job[j] EXCEPT !.started = TRUE, !.kept = TRUE, !.done = TRUE, !.result = "error"]
  <2>1. l.told = job[j].told
    BY <1>0 DEF Record
  <2>2. job[j].told = "nobody" /\ "nobody" \notin Results
    BY <1>0, <1>2 DEF SpawnFails, TellsTruth, Results
  <2>3. TellsTruth(l)
    BY <2>1, <2>2 DEF TellsTruth
  <2>4. job' = [job EXCEPT ![j] = l]
    BY <1>2 DEF SpawnFails
  <2> HIDE DEF l
  <2> QED BY <1>0, <2>3, <2>4, OneTells
<1>3. ASSUME NEW j \in Runs, Watch(j) PROVE AllTellTruth'
  <2> DEFINE l == [job[j] EXCEPT !.told = IF job[j].done THEN job[j].result ELSE "watching"]
  <2>1. /\ l.started = job[j].started /\ l.done = job[j].done /\ l.result = job[j].result
        /\ l.told = IF job[j].done THEN job[j].result ELSE "watching"
    BY <1>0 DEF Record
  <2>2. TellsTruth(l)
    BY <1>0, <1>3, <2>1 DEF Watch, TellsTruth, Results
  <2>3. job' = [job EXCEPT ![j] = l]
    BY <1>3 DEF Watch
  <2> HIDE DEF l
  <2> QED BY <1>0, <2>2, <2>3, OneTells
<1>4. ASSUME NEW j \in Runs, StopWatching(j) PROVE AllTellTruth'
  <2> DEFINE l == [job[j] EXCEPT !.told = "nobody"]
  <2>1. l.told = "nobody"
    BY <1>0 DEF Record
  <2>2. TellsTruth(l)
    BY <2>1 DEF TellsTruth, Results
  <2>3. job' = [job EXCEPT ![j] = l]
    BY <1>4 DEF StopWatching
  <2> HIDE DEF l
  <2> QED BY <1>0, <2>2, <2>3, OneTells
<1>5. ASSUME NEW j \in Runs, RecordExpires(j) PROVE AllTellTruth'
  <2> DEFINE l == [job[j] EXCEPT !.kept = FALSE]
  <2>1. /\ l.started = job[j].started /\ l.done = job[j].done /\ l.result = job[j].result
        /\ l.told = job[j].told
    BY <1>0 DEF Record
  <2>2. TellsTruth(l)
    BY <1>0, <2>1 DEF TellsTruth
  <2>3. job' = [job EXCEPT ![j] = l]
    BY <1>5 DEF RecordExpires
  <2> HIDE DEF l
  <2> QED BY <1>0, <2>2, <2>3, OneTells
<1>6. ASSUME NEW w \in Processes, NEW j \in Runs, InstallAndRetry(w, j) PROVE AllTellTruth'
  <2> DEFINE l == [Settled(job[j], "missing") EXCEPT !.done = FALSE]
  <2>1. "missing" \in Results
    BY DEF Results
  <2>2. TellsTruth(l)
    BY <1>0, <1>6, <2>1, SettledTells DEF InstallAndRetry, Settles
  <2>3. job' = [job EXCEPT ![j] = l]
    BY <1>6 DEF InstallAndRetry
  <2> HIDE DEF l
  <2> QED BY <1>0, <2>2, <2>3, OneTells
<1>7. ASSUME NEW j \in Runs, CancelRun(j) PROVE AllTellTruth'
  <2>1. \E S : SettleItems(S, "cancelled")
    BY <1>7 DEF CancelRun
  <2>2. "cancelled" \in Results
    BY DEF Results
  <2> QED BY <2>1, <2>2, SettleTells
<1>8. ASSUME NEW w \in Processes, NEW r \in {"ok", "error", "missing"}, ResultLine(w, r)
      PROVE  AllTellTruth'
  BY <1>8, SettleTells DEF ResultLine, Results
<1>9. ASSUME NEW w \in Processes, BadLine(w) \/ WorkerExits(w) PROVE AllTellTruth'
  <2>1. "error" \in Results
    BY DEF Results
  <2> QED BY <1>9, <2>1, SettleTells DEF BadLine, WorkerExits
<1>10. ASSUME UNCHANGED job PROVE AllTellTruth'
  BY <1>10 DEF AllTellTruth
<1> QED BY <1>1, <1>2, <1>3, <1>4, <1>5, <1>6, <1>7, <1>8, <1>9, <1>10
        DEF PyNext, pyVars, AskIntel, IdleFires

\* A stream is told the outcome the run keeps, except that of a run that was
\* tried again, and none waits for a run that is over.
THEOREM StreamsAreToldTheOutcome == PySpec => []ToldIsTrue
<1>1. PyInit => AllTellTruth
  <2>1. PyInit => \A j \in Runs : job[j] = NoJob
    BY DEF PyInit
  <2>2. TellsTruth(NoJob)
    BY DEF NoJob, TellsTruth, Results
  <2> QED BY <2>1, <2>2 DEF AllTellTruth
<1>2. PyInv /\ AllTellTruth /\ [PyNext]_pyVars => AllTellTruth'
  BY TellStep
<1>3. AllTellTruth => ToldIsTrue
  BY DEF AllTellTruth, TellsTruth, ToldIsTrue
<1> QED BY <1>1, <1>2, <1>3, PyInvariant, PTL DEF PySpec

-----------------------------------------------------------------------------
(* Types *)

\* A request's record and an invitation's row, as MemberTypeOK has them.
Request ==
  [kind : {"none", "change", "leave", "accept", "resolve"},
   at : {"idle", "role", "count", "write", "mark", "join", "ensure"}, user : Users \cup {NoUser},
   role : Roles \cup {"none"}, token : Invitations \cup {NoInvitation}, overtaken : BOOLEAN]

InvitationRow == [sent : BOOLEAN, to : Users \cup {NoUser}, role : Roles,
        accepted : Users \cup {NoUser}, revoked : BOOLEAN, expired : BOOLEAN]

\* What a request that will write carries.
Carried ==
  \A r \in Requests :
    /\ req[r].at # "idle" => req[r].user \in Users
    /\ req[r].at \in {"mark", "join"} => req[r].token \in Invitations
    /\ req[r].at \in {"join", "ensure"} => req[r].role \in Roles
    /\ req[r].at = "ensure" => SelfHosted /\ req[r].kind = "resolve"

MemberInv == MemberTypeOK /\ Carried

LEMMA NoRequestType == /\ NoRequest \in Request /\ NoRequest.at = "idle"
                       /\ NoRequest.role = "none" /\ NoRequest.kind = "none"
BY DEF NoRequest, Request

LEMMA MemberInitInv ==
  ASSUME MemberInit
  PROVE  MemberInv
<1>1. req \in [Requests -> Request] /\ \A r \in Requests : req[r].at = "idle"
  BY NoRequestType DEF MemberInit
<1>2. invitation \in [Invitations -> InvitationRow]
  BY DEF MemberInit, NotSent, InvitationRow, Roles
<1>3. role \in [Users -> Roles \cup {"none"}]
  BY DEF MemberInit, Roles
<1> QED BY <1>1, <1>2, <1>3 DEF MemberInit, MemberInv, MemberTypeOK, Carried, Request, InvitationRow

\* A request that starts, moves on or ends keeps what it needs.
LEMMA StartsInv ==
  ASSUME MemberInv, NEW r \in Requests, NEW l \in Request, Starts(r, l),
         l.at # "join", l.user \in Users, l.at = "mark" => l.token \in Invitations,
         l.at = "ensure" => l.role \in Roles /\ SelfHosted /\ l.kind = "resolve"
  PROVE  MemberInv'
BY DEF MemberInv, MemberTypeOK, Carried, Starts, Request

LEMMA EndsInv ==
  ASSUME MemberInv, NEW r \in Requests, Ends(r)
  PROVE  req' \in [Requests -> Request] /\ Carried'
BY NoRequestType DEF MemberInv, MemberTypeOK, Carried, Ends, Request

LEMMA MovesInv ==
  ASSUME MemberInv, NEW r \in Requests, req[r].at # "idle", NEW at \in {"count", "write"},
         req' = [req EXCEPT ![r].at = at]
  PROVE  req' \in [Requests -> Request] /\ Carried'
<1>1. [req[r] EXCEPT !.at = at] \in Request
  BY DEF MemberInv, MemberTypeOK, Request
<1>2. req' \in [Requests -> Request]
  BY <1>1 DEF MemberInv, MemberTypeOK, Request
<1> QED BY <1>2 DEF MemberInv, MemberTypeOK, Carried

LEMMA EndsWithInv ==
  ASSUME MemberInv, NEW r \in Requests, NEW newRole \in [Users -> Roles \cup {"none"}],
         EndsWith(r, newRole)
  PROVE  /\ role' \in [Users -> Roles \cup {"none"}]
         /\ req' \in [Requests -> Request]
         /\ Carried'
<1>1. \A q \in Requests : /\ req[q] \in Request
                          /\ [req[q] EXCEPT !.overtaken = TRUE] \in Request
  <2> TAKE q \in Requests
  <2>1. req[q] \in Request
    BY DEF MemberInv, MemberTypeOK, Request
  <2> QED BY <2>1 DEF Request
<1>2. \A q \in Requests : \/ req'[q] = NoRequest
                          \/ req'[q] = [req[q] EXCEPT !.overtaken = TRUE]
                          \/ req'[q] = req[q]
  BY DEF EndsWith
<1>3. req' \in [Requests -> Request]
  <2>1. \A q \in Requests : req'[q] \in Request
    BY <1>1, <1>2, NoRequestType
  <2>2. req' = [q \in Requests |-> req'[q]]
    BY DEF EndsWith
  <2> QED BY <2>1, <2>2
<1>4. Carried'
  <2> SUFFICES ASSUME NEW q \in Requests
               PROVE  /\ req'[q].at # "idle" => req'[q].user \in Users
                      /\ req'[q].at \in {"mark", "join"} => req'[q].token \in Invitations
                      /\ req'[q].at \in {"join", "ensure"} => req'[q].role \in Roles
                      /\ req'[q].at = "ensure" => SelfHosted /\ req'[q].kind = "resolve"
    BY DEF Carried
  <2> QED BY ZenonT(30), <1>1, <1>2, NoRequestType DEF MemberInv, Carried, Request
<1> QED BY <1>3, <1>4 DEF EndsWith

LEMMA MemberStepInv ==
  ASSUME MemberInv, [MemberNext]_memberVars
  PROVE  MemberInv'
<1> USE DEF MemberInv, MemberTypeOK
<1>1. ASSUME NEW r \in Requests, NEW u \in Users, NEW new \in Roles, ChangeRole(r, u, new)
      PROVE  MemberInv'
  <2> DEFINE l == [NoRequest EXCEPT !.kind = "change", !.user = u, !.role = new,
                                    !.at = IF new = "admin" THEN "write" ELSE "role"]
  <2>1. l \in Request /\ l.at \in {"write", "role"} /\ l.user = u
    BY NoRequestType DEF Request
  <2>2. Starts(r, l)
    BY <1>1 DEF ChangeRole
  <2> HIDE DEF l
  <2> QED BY <2>1, <2>2, StartsInv
<1>2. ASSUME NEW r \in Requests, NEW u \in Users, Leave(r, u) PROVE MemberInv'
  <2> DEFINE l == [NoRequest EXCEPT !.kind = "leave", !.user = u, !.at = "role"]
  <2>1. l \in Request /\ l.at = "role" /\ l.user = u
    BY NoRequestType DEF Request
  <2>2. Starts(r, l)
    BY <1>2 DEF Leave
  <2> HIDE DEF l
  <2> QED BY <2>1, <2>2, StartsInv
<1>3. ASSUME NEW r \in Requests, NEW u \in Users, NEW i \in Invitations, Accept(r, u, i)
      PROVE  MemberInv'
  <2> DEFINE l == [NoRequest EXCEPT !.kind = "accept", !.at = "mark", !.user = u, !.token = i]
  <2>1. l \in Request /\ l.at = "mark" /\ l.user = u /\ l.token = i
    BY NoRequestType DEF Request
  <2>2. Starts(r, l)
    BY <1>3 DEF Accept
  <2> HIDE DEF l
  <2> QED BY <2>1, <2>2, StartsInv
<1>4. ASSUME NEW r \in Requests, NEW u \in Users, DeleteAccount(r, u) PROVE MemberInv'
  <2> DEFINE newRole == [role EXCEPT ![u] = "none"]
  <2>1. newRole \in [Users -> Roles \cup {"none"}] /\ EndsWith(r, newRole)
    BY <1>4 DEF DeleteAccount
  <2> HIDE DEF newRole
  <2> QED BY <1>4, <2>1, EndsWithInv DEF DeleteAccount, Request
<1>5. ASSUME NEW r \in Requests, ReadRole(r) PROVE MemberInv'
  <2>1. req' \in [Requests -> Request] /\ Carried'
    <3>1. CASE Ends(r)
      BY <3>1, EndsInv
    <3>2. CASE req' = [req EXCEPT ![r].at = "count"]
      BY <1>5, <3>2, MovesInv DEF ReadRole
    <3>3. CASE req' = [req EXCEPT ![r].at = "write"]
      BY <1>5, <3>3, MovesInv DEF ReadRole
    <3> QED BY <1>5, <3>1, <3>2, <3>3 DEF ReadRole
  <2> QED BY <1>5, <2>1 DEF ReadRole, Request
<1>6. ASSUME NEW r \in Requests, CountAdmins(r) PROVE MemberInv'
  <2>1. req' \in [Requests -> Request] /\ Carried'
    <3>1. CASE Ends(r)
      BY <3>1, EndsInv
    <3>2. CASE req' = [req EXCEPT ![r].at = "write"]
      BY <1>6, <3>2, MovesInv DEF CountAdmins
    <3> QED BY <1>6, <3>1, <3>2 DEF CountAdmins
  <2> QED BY <1>6, <2>1 DEF CountAdmins, Request
<1>7. ASSUME NEW r \in Requests, WriteRole(r) PROVE MemberInv'
  <2> DEFINE newRole == [role EXCEPT ![req[r].user] =
                           IF @ = "none" \/ req[r].kind = "leave" THEN "none" ELSE req[r].role]
  <2>1. newRole \in [Users -> Roles \cup {"none"}]
    OBVIOUS
  <2>2. EndsWith(r, newRole)
    BY <1>7 DEF WriteRole
  <2> HIDE DEF newRole
  <2> QED BY <1>7, <2>1, <2>2, EndsWithInv DEF WriteRole, Request
<1>8. ASSUME NEW r \in Requests, MarkAccepted(r) PROVE MemberInv'
  <2> DEFINE i == req[r].token
  <2>1. i \in Invitations /\ req[r].user \in Users
    BY <1>8 DEF MarkAccepted, Carried
  <2>2. req' \in [Requests -> Request] /\ Carried' /\ invitation' \in [Invitations -> InvitationRow]
    <3>1. CASE MayMark(i)
      <4>1. /\ invitation' = [invitation EXCEPT ![i].accepted = req[r].user]
            /\ req' = [req EXCEPT ![r].at = "join", ![r].role = invitation[i].role]
        BY <1>8, <3>1 DEF MarkAccepted
      <4>2. invitation[i].role \in Roles
        BY <2>1
      <4>3. invitation' \in [Invitations -> InvitationRow]
        <5>1. invitation[i] \in InvitationRow
          BY <2>1 DEF InvitationRow
        <5>2. [invitation[i] EXCEPT !.accepted = req[r].user] \in InvitationRow
          BY <2>1, <5>1 DEF InvitationRow
        <5> QED BY <4>1, <5>2 DEF InvitationRow
      <4>4. [req[r] EXCEPT !.at = "join", !.role = invitation[i].role] \in Request
        BY ZenonT(30), <4>2 DEF Request
      <4>5. req' \in [Requests -> Request]
        BY <4>1, <4>4 DEF Request
      <4>6. Carried'
        BY <2>1, <4>1, <4>2 DEF Carried
      <4> QED BY <4>3, <4>5, <4>6
    <3>2. CASE ~MayMark(i)
      BY <1>8, <3>2, EndsInv DEF MarkAccepted, InvitationRow
    <3> QED BY <3>1, <3>2
  <2> QED BY <1>8, <2>2 DEF MarkAccepted, Request, InvitationRow
<1>9. ASSUME NEW r \in Requests, Join(r) PROVE MemberInv'
  <2> DEFINE newRole == [role EXCEPT ![req[r].user] = req[r].role]
  <2>1. newRole \in [Users -> Roles \cup {"none"}]
    OBVIOUS
  <2>2. EndsWith(r, newRole)
    BY <1>9 DEF Join
  <2>3. joined' \in [Invitations -> Nat]
    <3>1. req[r].token \in Invitations /\ joined[req[r].token] + 1 \in Nat
      BY <1>9 DEF Join, Carried
    <3> QED BY <1>9, <3>1 DEF Join
  <2> HIDE DEF newRole
  <2> QED BY <1>9, <2>1, <2>2, <2>3, EndsWithInv DEF Join, Request
<1>10. ASSUME NEW r \in Requests, RequestDies(r) PROVE MemberInv'
  BY <1>10, EndsInv DEF RequestDies, Request
<1>11. ASSUME NEW i \in Invitations, NEW u \in Users, NEW new \in Roles, Invite(i, u, new)
       PROVE  MemberInv'
  <2>0. invitation[i] \in InvitationRow
    BY DEF InvitationRow
  <2>1. [invitation[i] EXCEPT !.sent = TRUE, !.to = u, !.role = new] \in InvitationRow
    BY <2>0 DEF InvitationRow
  <2>2. invitation' \in [Invitations -> InvitationRow]
    BY <1>11, <2>1 DEF Invite, InvitationRow
  <2> QED BY <1>11, <2>2 DEF Invite, Carried, InvitationRow
<1>12. ASSUME NEW i \in Invitations, Expires(i) \/ RevokeInvitation(i) PROVE MemberInv'
  <2>0. invitation[i] \in InvitationRow
    BY DEF InvitationRow
  <2>1. /\ [invitation[i] EXCEPT !.expired = TRUE] \in InvitationRow
        /\ [invitation[i] EXCEPT !.revoked = TRUE] \in InvitationRow
    BY <2>0 DEF InvitationRow
  <2>2. invitation' \in [Invitations -> InvitationRow]
    BY ZenonT(30), <1>12, <2>1 DEF Expires, RevokeInvitation, InvitationRow
  <2> QED BY <1>12, <2>2 DEF Expires, RevokeInvitation, Carried, InvitationRow
<1>13. CASE UNCHANGED memberVars
  BY <1>13 DEF memberVars, Carried
<1>14. ASSUME NEW r \in Requests, NEW u \in Users, NEW new \in Roles, ResolveTenant(r, u, new)
       PROVE  MemberInv'
  <2> DEFINE l == [NoRequest EXCEPT !.kind = "resolve", !.at = "ensure", !.user = u, !.role = new]
  <2>1. l \in Request /\ l.at = "ensure" /\ l.user = u /\ l.role = new /\ l.kind = "resolve"
    BY NoRequestType DEF Request
  <2>2. Starts(r, l) /\ SelfHosted
    BY <1>14 DEF ResolveTenant
  <2> HIDE DEF l
  <2> QED BY <2>1, <2>2, StartsInv
<1>15. ASSUME NEW r \in Requests, EnsureMember(r) PROVE MemberInv'
  <2> DEFINE newRole == [role EXCEPT ![req[r].user] = IF @ = "admin" THEN "admin" ELSE req[r].role]
  <2>1. newRole \in [Users -> Roles \cup {"none"}]
    BY DEF Roles
  <2>2. EndsWith(r, newRole)
    BY <1>15 DEF EnsureMember
  <2> HIDE DEF newRole
  <2> QED BY <1>15, <2>1, <2>2, EndsWithInv DEF EnsureMember, Request
<1> QED BY <1>1, <1>2, <1>3, <1>4, <1>5, <1>6, <1>7, <1>8, <1>9, <1>10, <1>11, <1>12, <1>13, <1>14,
           <1>15 DEF MemberNext

\* Every variable keeps its type.
THEOREM MemberTypes == MemberSpec => []MemberTypeOK
<1>1. MemberInit => MemberInv
  BY MemberInitInv
<1>2. MemberInv /\ [MemberNext]_memberVars => MemberInv'
  BY MemberStepInv
<1> QED BY <1>1, <1>2, PTL DEF MemberSpec, MemberInv
-----------------------------------------------------------------------------
(* Invitations *)

Joins(r, i) == req[r].at = "join" /\ req[r].token = i

\* An invitation that nobody has accepted has made no member and is making none;
\* one that was accepted is spent by one request, before or after its insert.
Spent ==
  \A i \in Invitations :
    /\ joined[i] \in {0, 1}
    /\ joined[i] = 1 => invitation[i].accepted # NoUser /\ \A r \in Requests : ~Joins(r, i)
    /\ \A r \in Requests : Joins(r, i) =>
          invitation[i].accepted # NoUser /\ \A q \in Requests : Joins(q, i) => q = r
    /\ invitation[i].accepted # NoUser => ~invitation[i].revoked

\* No request comes to its insert.
NoNewJoins == \A q \in Requests : \A i \in Invitations : Joins(q, i)' => Joins(q, i)

\* An accepted row stays as it is, where it matters.
RowsKept ==
  \A i \in Invitations : /\ invitation'[i].accepted = invitation[i].accepted
                         /\ invitation[i].accepted # NoUser
                              => invitation'[i].revoked = invitation[i].revoked

LEMMA SpentStays ==
  ASSUME Spent, NoNewJoins, RowsKept, joined' = joined
  PROVE  Spent'
BY DEF Spent, NoNewJoins, RowsKept

LEMMA OthersKeepJoins ==
  ASSUME MemberInv, NEW r \in Requests, NEW newRole, EndsWith(r, newRole) \/ Ends(r)
  PROVE  NoNewJoins /\ \A i \in Invitations : ~Joins(r, i)'
<1>1. ASSUME NEW q \in Requests, NEW i \in Invitations, Joins(q, i)' PROVE q # r /\ Joins(q, i)
  <2>1. req[q] \in Request
    BY DEF MemberInv, MemberTypeOK, Request
  <2>2. \/ req'[q] = NoRequest
        \/ q # r /\ req'[q] = [req[q] EXCEPT !.overtaken = TRUE]
        \/ q # r /\ req'[q] = req[q]
    BY DEF EndsWith, Ends, MemberInv, MemberTypeOK
  <2> QED BY <1>1, <2>1, <2>2, NoRequestType DEF Joins, Request
<1> QED BY <1>1 DEF NoNewJoins

LEMMA StartsJoins ==
  ASSUME MemberInv, NEW r \in Requests, NEW l \in Request, l.at # "join", Starts(r, l)
  PROVE  NoNewJoins
BY DEF MemberInv, MemberTypeOK, Starts, NoNewJoins, Joins

LEMMA SpentStep ==
  ASSUME MemberInv, Spent, [MemberNext]_memberVars
  PROVE  Spent'
<1> USE DEF MemberInv, MemberTypeOK
<1>0. ASSUME UNCHANGED <<invitation, joined>>, NoNewJoins PROVE Spent'
  BY <1>0, SpentStays DEF RowsKept
<1>1. ASSUME NEW r \in Requests, NEW u \in Users, NEW new \in Roles, ChangeRole(r, u, new)
      PROVE  Spent'
  <2> DEFINE l == [NoRequest EXCEPT !.kind = "change", !.user = u, !.role = new,
                                    !.at = IF new = "admin" THEN "write" ELSE "role"]
  <2>1. l \in Request /\ l.at # "join"
    BY NoRequestType DEF Request
  <2>2. Starts(r, l)
    BY <1>1 DEF ChangeRole
  <2> HIDE DEF l
  <2> QED BY <1>0, <2>1, <2>2, StartsJoins DEF Starts
<1>2. ASSUME NEW r \in Requests, NEW u \in Users, Leave(r, u) PROVE Spent'
  <2> DEFINE l == [NoRequest EXCEPT !.kind = "leave", !.user = u, !.at = "role"]
  <2>1. l \in Request /\ l.at # "join"
    BY NoRequestType DEF Request
  <2>2. Starts(r, l)
    BY <1>2 DEF Leave
  <2> HIDE DEF l
  <2> QED BY <1>0, <2>1, <2>2, StartsJoins DEF Starts
<1>3. ASSUME NEW r \in Requests, NEW u \in Users, NEW i \in Invitations, Accept(r, u, i)
      PROVE  Spent'
  <2> DEFINE l == [NoRequest EXCEPT !.kind = "accept", !.at = "mark", !.user = u, !.token = i]
  <2>1. l \in Request /\ l.at # "join"
    BY NoRequestType DEF Request
  <2>2. Starts(r, l)
    BY <1>3 DEF Accept
  <2> HIDE DEF l
  <2> QED BY <1>0, <2>1, <2>2, StartsJoins DEF Starts
<1>4. ASSUME NEW r \in Requests, NEW u \in Users, DeleteAccount(r, u) PROVE Spent'
  <2>1. NoNewJoins
    BY <1>4, OthersKeepJoins DEF DeleteAccount
  <2> QED BY <1>0, <1>4, <2>1 DEF DeleteAccount
<1>5. ASSUME NEW r \in Requests, ReadRole(r) PROVE Spent'
  <2>1. NoNewJoins
    BY <1>5, OthersKeepJoins DEF ReadRole, NoNewJoins, Joins
  <2> QED BY <1>0, <1>5, <2>1 DEF ReadRole
<1>6. ASSUME NEW r \in Requests, CountAdmins(r) PROVE Spent'
  <2>1. NoNewJoins
    BY <1>6, OthersKeepJoins DEF CountAdmins, NoNewJoins, Joins
  <2> QED BY <1>0, <1>6, <2>1 DEF CountAdmins
<1>7. ASSUME NEW r \in Requests, WriteRole(r) PROVE Spent'
  <2>1. NoNewJoins
    BY <1>7, OthersKeepJoins DEF WriteRole
  <2> QED BY <1>0, <1>7, <2>1 DEF WriteRole
<1>8. ASSUME NEW r \in Requests, RequestDies(r) PROVE Spent'
  <2>1. NoNewJoins
    BY <1>8, OthersKeepJoins DEF RequestDies
  <2> QED BY <1>0, <1>8, <2>1 DEF RequestDies
<1>9. ASSUME NEW r \in Requests, MarkAccepted(r) PROVE Spent'
  <2> DEFINE i == req[r].token
  <2>1. i \in Invitations /\ req[r].user \in Users /\ req[r].at = "mark"
    BY <1>9 DEF MarkAccepted, Carried
  <2>2. CASE ~MayMark(i)
    <3>1. NoNewJoins
      BY <1>9, <2>2, OthersKeepJoins DEF MarkAccepted
    <3> QED BY <1>0, <1>9, <2>2, <3>1 DEF MarkAccepted
  <2>3. CASE MayMark(i)
    <3>1. /\ invitation[i].accepted = NoUser /\ ~invitation[i].revoked
          /\ joined' = joined
          /\ invitation' = [invitation EXCEPT ![i].accepted = req[r].user]
          /\ req' = [req EXCEPT ![r].at = "join", ![r].role = invitation[i].role]
      BY <1>9, <2>3 DEF MarkAccepted, MayMark, Open
    <3>2. joined[i] = 0 /\ \A q \in Requests : ~Joins(q, i)
      BY <2>1, <3>1 DEF Spent
    <3>3. \A q \in Requests : \A k \in Invitations :
            Joins(q, k)' <=> (Joins(q, k) \/ (q = r /\ k = i))
      BY <2>1, <3>1 DEF Joins
    <3>4. /\ invitation'[i].accepted # NoUser /\ ~invitation'[i].revoked
          /\ \A k \in Invitations : k # i => invitation'[k] = invitation[k]
      BY <2>1, <3>1, NobodyAssumption
    <3> QED
      <4> SUFFICES ASSUME NEW k \in Invitations
                   PROVE  /\ joined[k] \in {0, 1}
                          /\ joined[k] = 1 => invitation'[k].accepted # NoUser
                                               /\ \A q \in Requests : ~Joins(q, k)'
                          /\ \A q \in Requests : Joins(q, k)' =>
                                /\ invitation'[k].accepted # NoUser
                                /\ \A p \in Requests : Joins(p, k)' => p = q
                          /\ invitation'[k].accepted # NoUser => ~invitation'[k].revoked
        BY <3>1 DEF Spent
      <4>1. CASE k = i
        BY <3>2, <3>3, <3>4, <4>1
      <4>2. CASE k # i
        BY <3>3, <3>4, <4>2 DEF Spent
      <4> QED BY <4>1, <4>2
  <2> QED BY <2>2, <2>3
<1>10. ASSUME NEW r \in Requests, Join(r) PROVE Spent'
  <2>0. PICK i \in Invitations : i = req[r].token
    BY <1>10 DEF Join, Carried
  <2>1. /\ Joins(r, i)
        /\ joined' = [joined EXCEPT ![i] = @ + 1] /\ invitation' = invitation
    BY <1>10, <2>0 DEF Join, Joins
  <2>2. NoNewJoins /\ \A k \in Invitations : ~Joins(r, k)'
    BY <1>10, OthersKeepJoins DEF Join
  <2>3. /\ joined[i] = 0 /\ invitation[i].accepted # NoUser
        /\ \A q \in Requests : Joins(q, i) => q = r
    BY <2>1 DEF Spent
  <2>4. joined'[i] = 1 /\ \A k \in Invitations : k # i => joined'[k] = joined[k]
    BY <2>1, <2>3
  <2>5. \A q \in Requests : ~Joins(q, i)'
    BY <2>1, <2>2, <2>3 DEF NoNewJoins
  <2> QED
    <3> SUFFICES ASSUME NEW k \in Invitations
                 PROVE  /\ joined'[k] \in {0, 1}
                        /\ joined'[k] = 1 => invitation[k].accepted # NoUser
                                             /\ \A q \in Requests : ~Joins(q, k)'
                        /\ \A q \in Requests : Joins(q, k)' =>
                              /\ invitation[k].accepted # NoUser
                              /\ \A p \in Requests : Joins(p, k)' => p = q
                        /\ invitation[k].accepted # NoUser => ~invitation[k].revoked
      BY <2>1 DEF Spent
    <3>1. CASE k = i
      BY <2>1, <2>3, <2>4, <2>5, <3>1 DEF Spent
    <3>2. CASE k # i
      BY <2>2, <2>4, <3>2 DEF Spent, NoNewJoins
    <3> QED BY <3>1, <3>2
<1>11. ASSUME NEW i \in Invitations, NEW u \in Users, NEW new \in Roles, Invite(i, u, new)
       PROVE  Spent'
  <2>1. RowsKept
    BY <1>11 DEF Invite, RowsKept
  <2> QED BY <1>11, <2>1, SpentStays DEF Invite, NoNewJoins, Joins
<1>12. ASSUME NEW i \in Invitations, Expires(i) \/ RevokeInvitation(i) PROVE Spent'
  <2>1. RowsKept
    BY <1>12 DEF Expires, RevokeInvitation, RowsKept
  <2> QED BY <1>12, <2>1, SpentStays DEF Expires, RevokeInvitation, NoNewJoins, Joins
<1>13. CASE UNCHANGED memberVars
  BY <1>0, <1>13 DEF memberVars, NoNewJoins, Joins
<1>14. ASSUME NEW r \in Requests, NEW u \in Users, NEW new \in Roles, ResolveTenant(r, u, new)
       PROVE  Spent'
  <2> DEFINE l == [NoRequest EXCEPT !.kind = "resolve", !.at = "ensure", !.user = u, !.role = new]
  <2>1. l \in Request /\ l.at # "join"
    BY NoRequestType DEF Request
  <2>2. Starts(r, l)
    BY <1>14 DEF ResolveTenant
  <2> HIDE DEF l
  <2> QED BY <1>0, <2>1, <2>2, StartsJoins DEF Starts
<1>15. ASSUME NEW r \in Requests, EnsureMember(r) PROVE Spent'
  <2>1. NoNewJoins
    BY <1>15, OthersKeepJoins DEF EnsureMember
  <2> QED BY <1>0, <1>15, <2>1 DEF EnsureMember
<1> QED BY <1>1, <1>2, <1>3, <1>4, <1>5, <1>6, <1>7, <1>8, <1>9, <1>10, <1>11, <1>12, <1>13, <1>14,
           <1>15 DEF MemberNext

LEMMA SpentAtFirst ==
  ASSUME MemberInit
  PROVE  Spent
<1>1. \A r \in Requests : req[r].at = "idle"
  BY NoRequestType DEF MemberInit
<1>2. \A i \in Invitations : joined[i] = 0 /\ invitation[i].accepted = NoUser
  BY DEF MemberInit, NotSent
<1> QED BY <1>1, <1>2 DEF Spent, Joins

LEMMA SpentIsUsedOnce ==
  ASSUME MemberInv, Spent
  PROVE  InvitationUsedOnce
<1> SUFFICES ASSUME NEW i \in Invitations
             PROVE  LET joining == {r \in Requests : req[r].at = "join" /\ req[r].token = i} IN
                    /\ joined[i] + Cardinality(joining) <= 1
                    /\ joining # {} \/ joined[i] > 0 => invitation[i].accepted # NoUser
                    /\ invitation[i].accepted # NoUser => ~invitation[i].revoked
  BY DEF InvitationUsedOnce
<1> DEFINE joining == {r \in Requests : req[r].at = "join" /\ req[r].token = i}
<1>1. \A r \in joining : r \in Requests /\ Joins(r, i)
  BY DEF Joins
<1>2. CASE joining = {}
  <2>1. Cardinality(joining) = 0
    BY <1>2, FS_EmptySet
  <2> QED BY <1>2, <2>1 DEF Spent
<1>3. CASE joining # {}
  <2>1. PICK r : r \in joining
    BY <1>3
  <2>2. joining = {r}
    BY <1>1, <2>1 DEF Spent
  <2>3. Cardinality(joining) = 1
    BY <2>2, FS_Singleton
  <2>4. joined[i] = 0 /\ invitation[i].accepted # NoUser
    BY <1>1, <2>1 DEF Spent
  <2> QED BY <2>3, <2>4 DEF Spent
<1> QED BY <1>2, <1>3

\* However requests that accept the same invitation interleave with each other,
\* with its revocation and with crashes, it makes one member at most.
THEOREM InvitationsAreUsedOnce == MemberSpec => []InvitationUsedOnce
<1>1. MemberInit => MemberInv /\ Spent
  BY MemberInitInv, SpentAtFirst
<1>2. MemberInv /\ Spent /\ [MemberNext]_memberVars => (MemberInv /\ Spent)'
  BY MemberStepInv, SpentStep
<1>3. MemberInv /\ Spent => InvitationUsedOnce
  BY SpentIsUsedOnce
<1> QED BY <1>1, <1>2, <1>3, PTL DEF MemberSpec
-----------------------------------------------------------------------------
(* The last admin *)

\* A request that is about to write, and has read what is still so, promotes,
\* or writes to somebody who is no admin or not the only one.
SafeWrite(r) ==
  req[r].at = "write" /\ ~req[r].overtaken =>
    \/ req[r].kind = "change" /\ req[r].role = "admin"
    \/ role[req[r].user] # "admin"
    \/ Admins \ {req[r].user} # {}

SafeWrites == \A r \in Requests : SafeWrite(r)

\* The count is of two admins or more: another one than any given user.
LEMMA CountShowsAnother ==
  ASSUME ~TooFewAdmins, NEW u
  PROVE  Admins \ {u} # {}
<1> SUFFICES ASSUME Admins \ {u} = {} PROVE FALSE
  OBVIOUS
<1>1. Admins = {} \/ Admins = {u}
  OBVIOUS
<1>2. Cardinality(Admins) <= 1
  BY <1>1, FS_EmptySet, FS_Singleton
<1> QED BY <1>2 DEF TooFewAdmins

\* A request that writes leaves the others unchanged, or marks them overtaken.
LEMMA EndsWithSafe ==
  ASSUME MemberInv, SafeWrites, NEW r \in Requests, NEW newRole, EndsWith(r, newRole)
  PROVE  SafeWrites'
<1> SUFFICES ASSUME NEW q \in Requests, req'[q].at = "write", ~req'[q].overtaken
             PROVE  \/ req'[q].kind = "change" /\ req'[q].role = "admin"
                    \/ role'[req'[q].user] # "admin"
                    \/ Admins' \ {req'[q].user} # {}
  BY DEF SafeWrites, SafeWrite
<1>1. req[q] \in Request
  BY DEF MemberInv, MemberTypeOK, Request
<1>2. req'[q] = IF q = r THEN NoRequest
                ELSE IF newRole # role /\ req[q].at \in {"count", "write"}
                THEN [req[q] EXCEPT !.overtaken = TRUE] ELSE req[q]
  BY DEF EndsWith
<1>3. req'[q] = req[q] /\ role' = role
  BY <1>1, <1>2, NoRequestType DEF EndsWith, Request
<1>4. Admins' = Admins
  BY <1>3 DEF Admins
<1> QED BY <1>3, <1>4 DEF SafeWrites, SafeWrite

\* A step that leaves the members alone and brings no request to its write.
LEMMA SafeStays ==
  ASSUME SafeWrites, role' = role,
         \A q \in Requests : req'[q] = req[q] \/ req'[q].at # "write" \/ SafeWrite(q)'
  PROVE  SafeWrites'
<1>1. Admins' = Admins
  BY DEF Admins
<1> QED BY <1>1 DEF SafeWrites, SafeWrite

LEMMA SafeStep ==
  ASSUME MemberInv, SafeWrites, [MemberNext]_memberVars
  PROVE  SafeWrites'
<1> USE DEF MemberInv, MemberTypeOK
<1>0. ASSUME NEW r \in Requests, Ends(r), role' = role PROVE SafeWrites'
  <2>1. \A q \in Requests : req'[q] = req[q] \/ req'[q].at # "write"
    BY <1>0, NoRequestType DEF Ends
  <2> QED BY <1>0, <2>1, SafeStays
<1>1. ASSUME NEW r \in Requests, NEW u \in Users, NEW new \in Roles, ChangeRole(r, u, new)
      PROVE  SafeWrites'
  <2> DEFINE l == [NoRequest EXCEPT !.kind = "change", !.user = u, !.role = new,
                                    !.at = IF new = "admin" THEN "write" ELSE "role"]
  <2>1. l.at = "write" => l.kind = "change" /\ l.role = "admin"
    BY NoRequestType DEF Request
  <2>2. Starts(r, l)
    BY <1>1 DEF ChangeRole
  <2> HIDE DEF l
  <2>3. role' = role /\ \A q \in Requests : req'[q] = IF q = r THEN l ELSE req[q]
    BY <2>2 DEF Starts
  <2>4. \A q \in Requests : req'[q] = req[q] \/ req'[q].at # "write" \/ SafeWrite(q)'
    BY <2>1, <2>3 DEF SafeWrite
  <2> QED BY <2>3, <2>4, SafeStays
<1>2. ASSUME NEW r \in Requests, NEW u \in Users, Leave(r, u) PROVE SafeWrites'
  <2> DEFINE l == [NoRequest EXCEPT !.kind = "leave", !.user = u, !.at = "role"]
  <2>1. l.at # "write"
    BY NoRequestType DEF Request
  <2>2. Starts(r, l)
    BY <1>2 DEF Leave
  <2> HIDE DEF l
  <2>3. role' = role /\ \A q \in Requests : req'[q] = IF q = r THEN l ELSE req[q]
    BY <2>2 DEF Starts
  <2> QED BY <2>1, <2>3, SafeStays
<1>3. ASSUME NEW r \in Requests, NEW u \in Users, NEW i \in Invitations, Accept(r, u, i)
      PROVE  SafeWrites'
  <2> DEFINE l == [NoRequest EXCEPT !.kind = "accept", !.at = "mark", !.user = u, !.token = i]
  <2>1. l.at # "write"
    BY NoRequestType DEF Request
  <2>2. Starts(r, l)
    BY <1>3 DEF Accept
  <2> HIDE DEF l
  <2>3. role' = role /\ \A q \in Requests : req'[q] = IF q = r THEN l ELSE req[q]
    BY <2>2 DEF Starts
  <2> QED BY <2>1, <2>3, SafeStays
<1>4. ASSUME NEW r \in Requests, NEW u \in Users, DeleteAccount(r, u) PROVE SafeWrites'
  BY <1>4, EndsWithSafe DEF DeleteAccount
<1>5. ASSUME NEW r \in Requests, ReadRole(r) PROVE SafeWrites'
  <2>1. CASE Ends(r)
    BY <1>0, <1>5, <2>1 DEF ReadRole
  <2>2. CASE req' = [req EXCEPT ![r].at = "count"]
    BY <1>5, <2>2, SafeStays DEF ReadRole
  <2>3. CASE ~Ends(r) /\ req' # [req EXCEPT ![r].at = "count"]
    <3>1. role' = role /\ req' = [req EXCEPT ![r].at = "write"] /\ role[req[r].user] # "admin"
      BY <1>5, <2>3 DEF ReadRole
    <3>2. \A q \in Requests : req'[q] = req[q] \/ SafeWrite(q)'
      BY <3>1 DEF SafeWrite
    <3> QED BY <3>1, <3>2, SafeStays
  <2> QED BY <2>1, <2>2, <2>3
<1>6. ASSUME NEW r \in Requests, CountAdmins(r) PROVE SafeWrites'
  <2>1. CASE TooFewAdmins
    BY <1>0, <1>6, <2>1 DEF CountAdmins
  <2>2. CASE ~TooFewAdmins
    <3>1. role' = role /\ req' = [req EXCEPT ![r].at = "write"]
      BY <1>6, <2>2 DEF CountAdmins
    <3>2. Admins' \ {req[r].user} # {}
      BY <2>2, <3>1, CountShowsAnother DEF Admins
    <3>3. req'[r].user = req[r].user /\ \A q \in Requests : q # r => req'[q] = req[q]
      BY <3>1
    <3>4. \A q \in Requests : req'[q] = req[q] \/ SafeWrite(q)'
      BY <3>2, <3>3 DEF SafeWrite
    <3> QED BY <3>1, <3>4, SafeStays
  <2> QED BY <2>1, <2>2
<1>7. ASSUME NEW r \in Requests, WriteRole(r) \/ Join(r) \/ EnsureMember(r) PROVE SafeWrites'
  BY <1>7, EndsWithSafe DEF WriteRole, Join, EnsureMember
<1>8. ASSUME NEW r \in Requests, RequestDies(r) PROVE SafeWrites'
  BY <1>0, <1>8 DEF RequestDies
<1>9. ASSUME NEW r \in Requests, MarkAccepted(r) PROVE SafeWrites'
  <2>1. CASE Ends(r)
    BY <1>0, <1>9, <2>1 DEF MarkAccepted
  <2>2. CASE req' = [req EXCEPT ![r].at = "join", ![r].role = invitation[req[r].token].role]
    BY <1>9, <2>2, SafeStays DEF MarkAccepted
  <2> QED BY <1>9, <2>1, <2>2 DEF MarkAccepted
<1>10. ASSUME NEW i \in Invitations, NEW u \in Users, NEW new \in Roles, Invite(i, u, new)
       PROVE  SafeWrites'
  BY <1>10, SafeStays DEF Invite
<1>11. ASSUME NEW i \in Invitations, Expires(i) \/ RevokeInvitation(i) PROVE SafeWrites'
  BY <1>11, SafeStays DEF Expires, RevokeInvitation
<1>12. CASE UNCHANGED memberVars
  BY <1>12, SafeStays DEF memberVars
<1>13. ASSUME NEW r \in Requests, NEW u \in Users, NEW new \in Roles, ResolveTenant(r, u, new)
       PROVE  SafeWrites'
  <2> DEFINE l == [NoRequest EXCEPT !.kind = "resolve", !.at = "ensure", !.user = u, !.role = new]
  <2>1. l.at # "write"
    BY NoRequestType DEF Request
  <2>2. Starts(r, l)
    BY <1>13 DEF ResolveTenant
  <2> HIDE DEF l
  <2>3. role' = role /\ \A q \in Requests : req'[q] = IF q = r THEN l ELSE req[q]
    BY <2>2 DEF Starts
  <2> QED BY <2>1, <2>3, SafeStays
<1> QED BY <1>1, <1>2, <1>3, <1>4, <1>5, <1>6, <1>7, <1>8, <1>9, <1>10, <1>11, <1>12, <1>13
        DEF MemberNext

\* Only these change the members.
LEMMA WhoChangesRoles ==
  ASSUME MemberInv, [MemberNext]_memberVars, role' # role
  PROVE  \E r \in Requests : \/ WriteRole(r) \/ Join(r) \/ EnsureMember(r)
                             \/ \E v \in Users : DeleteAccount(r, v)
BY DEF MemberNext, memberVars, ChangeRole, ResolveTenant, Leave, Accept, Starts, ReadRole, CountAdmins,
       MarkAccepted, RequestDies, Invite, Expires, RevokeInvitation

\* Each of them is the end of the request that acts.
LEMMA WhoWrites ==
  ASSUME MemberInv, [MemberNext]_memberVars, role' # role
  PROVE  \E q \in Requests : \E newRole :
           /\ EndsWith(q, newRole)
           /\ req[q].at = "write" => WriteRole(q)
<1>1. PICK r \in Requests : \/ WriteRole(r) \/ Join(r) \/ EnsureMember(r)
                           \/ \E v \in Users : DeleteAccount(r, v)
  BY WhoChangesRoles
<1> QED BY <1>1 DEF WriteRole, Join, EnsureMember, DeleteAccount

LEMMA WriteKeepsAdmin ==
  ASSUME MemberInv, SafeWrites, NEW r \in Requests, WriteRole(r), ~req[r].overtaken, Admins # {}
  PROVE  Admins' # {}
<1> DEFINE u == req[r].user
           new == IF role[u] = "none" \/ req[r].kind = "leave" THEN "none" ELSE req[r].role
<1>1. /\ u \in Users /\ req[r].at = "write"
      /\ role' = [role EXCEPT ![u] = new]
  BY DEF WriteRole, EndsWith, MemberInv, Carried
<1>2. PICK a \in Users : role[a] = "admin"
  BY DEF Admins
<1>3. /\ role'[u] = new
      /\ \A v \in Users : v # u => role'[v] = role[v]
  BY <1>1 DEF MemberInv, MemberTypeOK
<1>4. CASE role[u] # "admin"
  BY <1>2, <1>3, <1>4 DEF Admins
<1>5. CASE Admins \ {u} # {}
  BY <1>3, <1>5 DEF Admins
<1>6. CASE role[u] = "admin" /\ req[r].kind = "change" /\ req[r].role = "admin"
  BY <1>1, <1>3, <1>6 DEF Admins
<1> QED BY <1>1, <1>4, <1>5, <1>6 DEF SafeWrites, SafeWrite

\* A change of role or a leave takes the last admin away only when the members
\* changed after it read them.
THEOREM TheLastAdminStays == MemberSpec => LastAdminStays
<1>1. MemberInit => MemberInv /\ SafeWrites
  <2> SUFFICES ASSUME MemberInit PROVE SafeWrites
    BY MemberInitInv
  <2>1. \A r \in Requests : req[r].at = "idle"
    BY NoRequestType DEF MemberInit
  <2> QED BY <2>1 DEF SafeWrites, SafeWrite
<1>2. MemberInv /\ SafeWrites /\ [MemberNext]_memberVars => (MemberInv /\ SafeWrites)'
  BY MemberStepInv, SafeStep
<1>3. MemberInv /\ SafeWrites /\ [MemberNext]_memberVars =>
        [\A r \in Requests :
           req[r].at = "write" /\ req'[r] = NoRequest /\ Admins # {} /\ ~req[r].overtaken
             => Admins' # {}]_role
  <2> SUFFICES ASSUME MemberInv, SafeWrites, [MemberNext]_memberVars, role' # role, NEW r \in Requests,
                      req[r].at = "write", req'[r] = NoRequest, Admins # {}, ~req[r].overtaken
               PROVE  Admins' # {}
    OBVIOUS
  <2>1. PICK q \in Requests : \E newRole : EndsWith(q, newRole) /\ (req[q].at = "write" => WriteRole(q))
    BY WhoWrites
  <2>2. PICK newRole : EndsWith(q, newRole)
    BY <2>1
  <2>3. req[r] \in Request
    BY DEF MemberInv, MemberTypeOK, Request
  <2>4. r # q => req'[r] = req[r] \/ req'[r] = [req[r] EXCEPT !.overtaken = TRUE]
    BY <2>2 DEF EndsWith
  <2>5. r = q
    BY <2>3, <2>4, NoRequestType DEF Request
  <2> QED BY <2>1, <2>5, WriteKeepsAdmin
<1> QED BY <1>1, <1>2, <1>3, PTL DEF MemberSpec, LastAdminStays
-----------------------------------------------------------------------------
(* Members were invited *)

Marks(r, i) == req[r].at = "mark" /\ req[r].token = i

\* A request that marks an invitation acts for the user it was sent to; one that
\* is about to insert the member acts for the user it marked, with its role.
Addressed ==
  \A r \in Requests : \A i \in Invitations :
    /\ Marks(r, i) \/ Joins(r, i) => invitation[i].sent /\ invitation[i].to = req[r].user
    /\ Joins(r, i) => /\ invitation[i].accepted = req[r].user
                      /\ invitation[i].role = req[r].role

\* No request comes to its mark or insert, and those there keep their locals.
CallsKept ==
  \A q \in Requests : req'[q].at \in {"mark", "join"} =>
    /\ req'[q].at = req[q].at /\ req'[q].token = req[q].token
    /\ req'[q].user = req[q].user /\ req'[q].role = req[q].role

\* A row that was sent keeps its address, its role and who accepted it.
SentKept ==
  \A i \in Invitations : invitation[i].sent =>
    /\ invitation'[i].sent /\ invitation'[i].to = invitation[i].to
    /\ invitation'[i].role = invitation[i].role
    /\ invitation'[i].accepted = invitation[i].accepted

LEMMA AddressedStays ==
  ASSUME Addressed, CallsKept, SentKept
  PROVE  Addressed'
BY DEF Addressed, CallsKept, SentKept, Marks, Joins

LEMMA StartsKeepCalls ==
  ASSUME MemberInv, NEW r \in Requests, NEW l \in Request, l.at \notin {"mark", "join"}, Starts(r, l)
  PROVE  CallsKept
BY DEF MemberInv, MemberTypeOK, Starts, CallsKept

LEMMA EndsKeepCalls ==
  ASSUME MemberInv, NEW r \in Requests, NEW newRole, EndsWith(r, newRole) \/ Ends(r)
  PROVE  CallsKept
<1> SUFFICES ASSUME NEW q \in Requests, req'[q].at \in {"mark", "join"}
             PROVE  /\ req'[q].at = req[q].at /\ req'[q].token = req[q].token
                    /\ req'[q].user = req[q].user /\ req'[q].role = req[q].role
  BY DEF CallsKept
<1>1. req[q] \in Request
  BY DEF MemberInv, MemberTypeOK, Request
<1>2. \/ req'[q] = NoRequest
      \/ req'[q] = [req[q] EXCEPT !.overtaken = TRUE]
      \/ req'[q] = req[q]
  BY DEF EndsWith, Ends, MemberInv, MemberTypeOK
<1> QED BY <1>1, <1>2, NoRequestType DEF Request

\* A request that goes on to another statement than the mark or the insert.
LEMMA MovesKeepCalls ==
  ASSUME MemberInv, NEW r \in Requests, NEW at \in {"count", "write"},
         req' = [req EXCEPT ![r].at = at]
  PROVE  CallsKept
BY DEF MemberInv, MemberTypeOK, CallsKept

LEMMA AddressedStep ==
  ASSUME MemberInv, Spent, Addressed, [MemberNext]_memberVars
  PROVE  Addressed'
<1> USE DEF MemberInv, MemberTypeOK
<1>0. ASSUME CallsKept, UNCHANGED invitation PROVE Addressed'
  BY <1>0, AddressedStays DEF SentKept
<1>1. ASSUME NEW r \in Requests, NEW u \in Users, NEW new \in Roles, ChangeRole(r, u, new)
      PROVE  Addressed'
  <2> DEFINE l == [NoRequest EXCEPT !.kind = "change", !.user = u, !.role = new,
                                    !.at = IF new = "admin" THEN "write" ELSE "role"]
  <2>1. l \in Request /\ l.at \notin {"mark", "join"}
    BY NoRequestType DEF Request
  <2>2. Starts(r, l)
    BY <1>1 DEF ChangeRole
  <2> HIDE DEF l
  <2> QED BY <1>0, <2>1, <2>2, StartsKeepCalls DEF Starts
<1>2. ASSUME NEW r \in Requests, NEW u \in Users, Leave(r, u) PROVE Addressed'
  <2> DEFINE l == [NoRequest EXCEPT !.kind = "leave", !.user = u, !.at = "role"]
  <2>1. l \in Request /\ l.at \notin {"mark", "join"}
    BY NoRequestType DEF Request
  <2>2. Starts(r, l)
    BY <1>2 DEF Leave
  <2> HIDE DEF l
  <2> QED BY <1>0, <2>1, <2>2, StartsKeepCalls DEF Starts
<1>3. ASSUME NEW r \in Requests, NEW u \in Users, NEW i \in Invitations, Accept(r, u, i)
      PROVE  Addressed'
  <2> DEFINE l == [NoRequest EXCEPT !.kind = "accept", !.at = "mark", !.user = u, !.token = i]
  <2>1. l.at = "mark" /\ l.user = u /\ l.token = i
    BY NoRequestType DEF Request
  <2>2. /\ Starts(r, l)
        /\ invitation[i].sent /\ invitation[i].to = u
    BY <1>3 DEF Accept, Open
  <2> HIDE DEF l
  <2>3. invitation' = invitation /\ \A q \in Requests : req'[q] = IF q = r THEN l ELSE req[q]
    BY <2>2 DEF Starts
  <2> QED BY <2>1, <2>2, <2>3 DEF Addressed, Marks, Joins
<1>4. ASSUME NEW r \in Requests, NEW u \in Users, DeleteAccount(r, u) PROVE Addressed'
  BY <1>0, <1>4, EndsKeepCalls DEF DeleteAccount
<1>5. ASSUME NEW r \in Requests, ReadRole(r) PROVE Addressed'
  BY <1>0, <1>5, EndsKeepCalls, MovesKeepCalls DEF ReadRole
<1>6. ASSUME NEW r \in Requests, CountAdmins(r) PROVE Addressed'
  BY <1>0, <1>6, EndsKeepCalls, MovesKeepCalls DEF CountAdmins
<1>7. ASSUME NEW r \in Requests, WriteRole(r) \/ Join(r) \/ EnsureMember(r) \/ RequestDies(r)
      PROVE  Addressed'
  BY <1>0, <1>7, EndsKeepCalls DEF WriteRole, Join, EnsureMember, RequestDies
<1>8. ASSUME NEW r \in Requests, MarkAccepted(r) PROVE Addressed'
  <2>0. PICK i \in Invitations : i = req[r].token
    BY <1>8 DEF MarkAccepted, Carried
  <2>1. CASE ~MayMark(i)
    BY <1>0, <1>8, <2>0, <2>1, EndsKeepCalls DEF MarkAccepted
  <2>2. CASE MayMark(i)
    <3>1. /\ Marks(r, i) /\ invitation[i].accepted = NoUser
          /\ invitation' = [invitation EXCEPT ![i].accepted = req[r].user]
          /\ req' = [req EXCEPT ![r].at = "join", ![r].role = invitation[i].role]
      BY <1>8, <2>0, <2>2 DEF MarkAccepted, MayMark, Open, Marks
    <3>2. /\ invitation[i].sent /\ invitation[i].to = req[r].user
          /\ \A q \in Requests : ~Joins(q, i)
      BY <3>1 DEF Addressed, Spent
    <3>3. /\ invitation'[i].sent /\ invitation'[i].to = req[r].user
          /\ invitation'[i].accepted = req[r].user /\ invitation'[i].role = invitation[i].role
          /\ \A k \in Invitations : k # i => invitation'[k] = invitation[k]
      BY <3>1, <3>2
    <3>4. /\ req'[r].at = "join" /\ req'[r].token = i /\ req'[r].user = req[r].user
          /\ req'[r].role = invitation[i].role
          /\ \A q \in Requests : q # r => req'[q] = req[q]
      BY <2>0, <3>1
    <3> SUFFICES ASSUME NEW q \in Requests, NEW k \in Invitations
                 PROVE  /\ Marks(q, k)' \/ Joins(q, k)' =>
                             invitation'[k].sent /\ invitation'[k].to = req'[q].user
                        /\ Joins(q, k)' => /\ invitation'[k].accepted = req'[q].user
                                           /\ invitation'[k].role = req'[q].role
      BY DEF Addressed
    <3>5. CASE q = r
      BY <3>3, <3>4, <3>5 DEF Marks, Joins
    <3>6. CASE q # r /\ k = i
      BY <3>2, <3>3, <3>4, <3>6 DEF Addressed, Marks, Joins
    <3>7. CASE q # r /\ k # i
      BY <3>3, <3>4, <3>7 DEF Addressed, Marks, Joins
    <3> QED BY <3>5, <3>6, <3>7
  <2> QED BY <2>1, <2>2
<1>9. ASSUME NEW i \in Invitations, NEW u \in Users, NEW new \in Roles, Invite(i, u, new)
      PROVE  Addressed'
  BY <1>9, AddressedStays DEF Invite, SentKept, CallsKept
<1>10. ASSUME NEW i \in Invitations, Expires(i) \/ RevokeInvitation(i) PROVE Addressed'
  BY <1>10, AddressedStays DEF Expires, RevokeInvitation, SentKept, CallsKept
<1>11. CASE UNCHANGED memberVars
  BY <1>0, <1>11 DEF memberVars, CallsKept
<1>12. ASSUME NEW r \in Requests, NEW u \in Users, NEW new \in Roles, ResolveTenant(r, u, new)
       PROVE  Addressed'
  <2> DEFINE l == [NoRequest EXCEPT !.kind = "resolve", !.at = "ensure", !.user = u, !.role = new]
  <2>1. l \in Request /\ l.at \notin {"mark", "join"}
    BY NoRequestType DEF Request
  <2>2. Starts(r, l)
    BY <1>12 DEF ResolveTenant
  <2> HIDE DEF l
  <2> QED BY <1>0, <2>1, <2>2, StartsKeepCalls DEF Starts
<1> QED BY <1>1, <1>2, <1>3, <1>4, <1>5, <1>6, <1>7, <1>8, <1>9, <1>10, <1>11, <1>12
        DEF MemberNext

\* What one step does to somebody who is no member.
LEMMA NewMemberStep ==
  ASSUME MemberInv, Spent, Addressed, [MemberNext]_memberVars,
         NEW u \in Users, role[u] = "none", role'[u] # "none"
  PROVE  u \in account /\ (JoinsByInvitation(u) \/ JoinsByDefault(u))
<1> USE DEF MemberInv, MemberTypeOK
<1>1. PICK r \in Requests : \/ WriteRole(r) \/ Join(r) \/ EnsureMember(r)
                           \/ \E v \in Users : DeleteAccount(r, v)
  BY WhoChangesRoles
<1>2. ~WriteRole(r)
  BY DEF WriteRole, EndsWith, Carried
<1>3. ~\E v \in Users : DeleteAccount(r, v)
  BY DEF DeleteAccount, EndsWith
<1>4. CASE Join(r)
  <2>1. /\ req[r].token \in Invitations
        /\ Joins(r, req[r].token)
        /\ role' = [role EXCEPT ![req[r].user] = req[r].role]
        /\ joined' = [joined EXCEPT ![req[r].token] = @ + 1]
    BY <1>4 DEF Join, EndsWith, Carried, Joins
  <2>2. req[r].user = u /\ role'[u] = req[r].role /\ u \in account
    BY <1>4, <2>1 DEF Join, Carried
  <2>3. joined[req[r].token] = 0 /\ joined'[req[r].token] = 1
    BY <2>1 DEF Spent
  <2> QED BY <2>1, <2>2, <2>3 DEF Addressed, JoinsByInvitation
<1>5. CASE EnsureMember(r)
  <2>1. /\ role' = [role EXCEPT ![req[r].user] = IF @ = "admin" THEN "admin" ELSE req[r].role]
        /\ req'[r] = NoRequest
        /\ SelfHosted /\ req[r].kind = "resolve"
    BY <1>5 DEF EnsureMember, EndsWith, Carried
  <2>2. req[r].user = u /\ role'[u] = req[r].role /\ u \in account
    BY <1>5, <2>1 DEF EnsureMember, Carried
  <2> QED BY <2>1, <2>2 DEF JoinsByDefault
<1> QED BY <1>1, <1>2, <1>3, <1>4, <1>5

\* Whatever changes of role, departures, deletions and crashes overlap, a user
\* comes to be a member only by an invitation that was sent to them and that
\* they accepted, once, and with its role; where the app is self-hosted, also by a
\* request of their own.
THEOREM MembersAreInvited == MemberSpec => MembersWereInvited
<1> DEFINE Inv == MemberInv /\ Spent /\ Addressed
<1>1. MemberInit => Inv
  <2>1. MemberInit => \A r \in Requests : req[r].at = "idle"
    BY NoRequestType DEF MemberInit
  <2> QED BY <2>1, MemberInitInv, SpentAtFirst DEF Addressed, Marks, Joins
<1>2. Inv /\ [MemberNext]_memberVars => Inv'
  BY MemberStepInv, SpentStep, AddressedStep
<1>3. Inv /\ [MemberNext]_memberVars =>
        [\A u \in Users : role[u] = "none" /\ role'[u] # "none" =>
           u \in account /\ (JoinsByInvitation(u) \/ JoinsByDefault(u))]_role
  BY NewMemberStep
<1> QED BY <1>1, <1>2, <1>3, PTL DEF MemberSpec, MembersWereInvited
=============================================================================
