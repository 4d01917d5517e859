----------------------------- MODULE PythonRunner -----------------------------
(***************************************************************************)
(* The Python runner of one notebook: src/lib/server/python-runner.ts and  *)
(* the event stream of routes/api/python/logs.  A notebook has at most one *)
(* warm worker process, which runs one request at a time; cells and editor *)
(* requests (complete, hover) share its queue.                             *)
(*                                                                         *)
(* Each action is one callback of the Node event loop: a request handler,  *)
(* a line or the exit of a process, a timer.  The interpreter is resolved  *)
(* synchronously, so nothing comes between the look-up of a worker and its *)
(* entry in the map.  A process that was killed can still deliver a line,  *)
(* and delivers its exit, later.                                           *)
(***************************************************************************)
EXTENDS Naturals, Sequences

CONSTANTS
  Runs,           \* ids of cell runs
  Intels,         \* ids of complete and hover requests
  NoItem,         \* worker.pending === null
  MaxProcesses    \* bound: worker processes spawned

ASSUME ProcessesAssumption == MaxProcesses \in Nat
ASSUME ItemAssumption == Runs \cap Intels = {} /\ NoItem \notin Runs \cup Intels

VARIABLES
  current,    \* workers.get(notebookId): a process, 0 for none
  process,    \* per process: "none", "running", "killed" (exit not yet delivered), "exited"
  queue,      \* per process: worker.queue
  pending,    \* per process: worker.pending
  armed,      \* per process: worker.idleTimer is set
  owes,       \* per process: it was given a request whose answer was not handled yet
  job,        \* per run: its record in jobs, and what its event stream was told
  waiting,    \* intelResolvers
  lost        \* editor requests a cancellation dropped from the queue

pyVars == <<current, process, queue, pending, armed, owes, job, waiting, lost>>

Processes == 1..MaxProcesses
Items     == Runs \cup Intels
Results   == {"ok", "error", "missing", "cancelled"}
QueueItems(w) == {queue[w][i] : i \in DOMAIN queue[w]}

\* kept: the record is in the map; retry: onceDone is registered; told: "nobody"
\* listens, somebody is "watching", or what the listener was told.
NoJob == [started |-> FALSE, kept |-> FALSE, done |-> FALSE, result |-> "none",
          retry |-> FALSE, told |-> "nobody"]

PyTypeOK ==
  /\ current \in Processes \cup {0}
  /\ process \in [Processes -> {"none", "running", "killed", "exited"}]
  /\ queue   \in [Processes -> Seq(Items)]
  /\ pending \in [Processes -> Items \cup {NoItem}]
  /\ armed   \in [Processes -> BOOLEAN]
  /\ owes    \in [Processes -> BOOLEAN]
  /\ job \in [Runs -> [started : BOOLEAN, kept : BOOLEAN, done : BOOLEAN,
                       result : Results \cup {"none"}, retry : BOOLEAN,
                       told : Results \cup {"nobody", "watching"}]]
  /\ waiting \subseteq Intels
  /\ lost    \subseteq Intels

PyInit ==
  /\ current = 0
  /\ process = [w \in Processes |-> "none"]
  /\ queue   = [w \in Processes |-> <<>>]
  /\ pending = [w \in Processes |-> NoItem]
  /\ armed   = [w \in Processes |-> FALSE]
  /\ owes    = [w \in Processes |-> FALSE]
  /\ job     = [j \in Runs |-> NoJob]
  /\ waiting = {}
  /\ lost    = {}

-----------------------------------------------------------------------------
(* Helpers of the callbacks *)

Delivers(w) == process[w] \in {"running", "killed"}

\* Faulty variant: the idle timer is not cleared when the worker gets work.
Pump_TimerKept(w, q, p) ==
  LET next == p = NoItem /\ q # <<>> IN
  /\ queue'   = [queue EXCEPT ![w] = IF next THEN Tail(q) ELSE q]
  /\ pending' = [pending EXCEPT ![w] = IF next THEN Head(q) ELSE p]
  /\ owes'    = [owes EXCEPT ![w] = next \/ p # NoItem]
  /\ armed'   = [armed EXCEPT ![w] = @ \/ (p = NoItem /\ ~next)]

\* pump: worker w, whose queue is q and pending request p, is given its next
\* request unless it has one; with nothing to do it arms its idle timer.
Pump(w, q, p) ==
  LET next == p = NoItem /\ q # <<>> IN
  /\ queue'   = [queue EXCEPT ![w] = IF next THEN Tail(q) ELSE q]
  /\ pending' = [pending EXCEPT ![w] = IF next THEN Head(q) ELSE p]
  /\ owes'    = [owes EXCEPT ![w] = next \/ p # NoItem]
  /\ armed'   = [armed EXCEPT ![w] = IF next THEN FALSE ELSE @ \/ p = NoItem]

\* Faulty variant: a job that is done is settled again.
Settles_Again(j) == job[j].kept

\* completeJob and failJob do nothing for a job without a record or done already.
Settles(j) == job[j].kept /\ ~job[j].done

\* Faulty variant: the cell is told, and the stream that listens is not.
Settled_Untold(l, r) == [l EXCEPT !.done = TRUE, !.result = r, !.retry = FALSE]

\* 'done' is emitted: onceDone goes, and a listener is told.
Settled(l, r) == [l EXCEPT !.done = TRUE, !.result = r, !.retry = FALSE,
                           !.told = IF @ = "watching" THEN r ELSE @]

\* The items in S end with result r: runs that are open, and editor requests.
SettleItems(S, r) ==
  /\ job'     = [j \in Runs |-> IF j \in S /\ Settles(j) THEN Settled(job[j], r) ELSE job[j]]
  /\ waiting' = waiting \ S

-----------------------------------------------------------------------------
(* Requests *)

\* spawnPythonCell: the record, the worker (reused or spawned), the queue, the
\* listener for a missing module.
SpawnCell(j) ==
  /\ ~job[j].started
  /\ \E w \in Processes :
     /\ IF current # 0 THEN w = current
        ELSE process[w] = "none" /\ \A p \in 1..(w - 1) : process[p] # "none"
     /\ current' = w
     /\ process' = [process EXCEPT ![w] = "running"]
     /\ Pump(w, Append(queue[w], j), pending[w])
  /\ job' = [job EXCEPT ![j].started = TRUE, ![j].kept = TRUE, ![j].retry = TRUE]
  /\ UNCHANGED <<waiting, lost>>

\* No interpreter, or the worker's script cannot be written.
SpawnFails(j) ==
  /\ ~job[j].started
  /\ current = 0
  /\ job' = [job EXCEPT ![j].started = TRUE, ![j].kept = TRUE, ![j].done = TRUE,
                        ![j].result = "error"]
  /\ UNCHANGED <<current, process, queue, pending, armed, owes, waiting, lost>>

\* requestPythonIntel, for a warm worker.
AskIntel(i) ==
  /\ i \notin waiting \cup lost
  /\ \A w \in Processes : i \notin QueueItems(w)
  /\ current # 0
  /\ Pump(current, Append(queue[current], i), pending[current])
  /\ waiting' = waiting \cup {i}
  /\ UNCHANGED <<current, process, job, lost>>

CancelledBy(w) == {pending[w]} \cup (QueueItems(w) \cap Runs)

\* cancelPythonJob: the pending request and the queued runs of the worker fail,
\* queued editor requests are dropped, the worker is killed; the job is failed
\* too, should it not be there.
CancelRun(j) ==
  /\ job[j].started
  /\ IF current = 0
     THEN /\ SettleItems({j}, "cancelled")
          /\ UNCHANGED <<current, process, queue, pending, lost>>
     ELSE /\ SettleItems(CancelledBy(current) \cup {j}, "cancelled")
          /\ lost'    = lost \cup ((QueueItems(current) \cap Intels) \ {pending[current]})
          /\ current' = 0
          /\ process' = [process EXCEPT ![current] = "killed"]
          /\ queue'   = [queue EXCEPT ![current] = <<>>]
          /\ pending' = [pending EXCEPT ![current] = NoItem]
  /\ UNCHANGED <<armed, owes>>

\* The event stream of a job: the result if it is done, or a listener.
Watch(j) ==
  /\ job[j].kept
  /\ job[j].told = "nobody"
  /\ job' = [job EXCEPT ![j].told = IF job[j].done THEN job[j].result ELSE "watching"]
  /\ UNCHANGED <<current, process, queue, pending, armed, owes, waiting, lost>>

\* The browser closes the stream.
StopWatching(j) ==
  /\ job[j].told = "watching"
  /\ job' = [job EXCEPT ![j].told = "nobody"]
  /\ UNCHANGED <<current, process, queue, pending, armed, owes, waiting, lost>>

-----------------------------------------------------------------------------
(* The worker process *)

Expects(w) == IF pending[w] = NoItem THEN {} ELSE {pending[w]}

\* handleWorkerLine: the pending request gets its result, the next one is sent.
ResultLine(w, r) ==
  /\ Delivers(w)
  /\ owes[w]
  /\ SettleItems(Expects(w), r)
  /\ Pump(w, queue[w], NoItem)
  /\ UNCHANGED <<current, process, lost>>

\* A result that does not parse fails the pending request.
BadLine(w) ==
  /\ Delivers(w)
  /\ owes[w]
  /\ SettleItems(Expects(w), "error")
  /\ Pump(w, queue[w], NoItem)
  /\ UNCHANGED <<current, process, lost>>

\* The first result of a run names a missing module, and installing it works
\* (synchronously, in the 'done' event): onceDone reopens the job and puts it at
\* the head of the queue; then the event stream, a later listener of the same
\* event, is told the result of the first attempt.
InstallAndRetry(w, j) ==
  /\ Delivers(w)
  /\ owes[w]
  /\ pending[w] = j
  /\ Settles(j)
  /\ job[j].retry
  /\ job' = [job EXCEPT ![j] = [Settled(@, "missing") EXCEPT !.done = FALSE]]
  /\ Pump(w, <<j>> \o queue[w], NoItem)
  /\ UNCHANGED <<current, process, waiting, lost>>

\* Faulty variant: the exit of any process empties the notebook's entry.
Leaves_Any(w) == current # 0

Leaves(w) == current = w

\* The 'exit' event: whatever the worker still had fails.
WorkerExits(w) ==
  /\ Delivers(w)
  /\ process' = [process EXCEPT ![w] = "exited"]
  /\ current' = IF Leaves(w) THEN 0 ELSE current
  /\ SettleItems(QueueItems(w) \cup Expects(w), "error")
  /\ queue'   = [queue EXCEPT ![w] = <<>>]
  /\ pending' = [pending EXCEPT ![w] = NoItem]
  /\ owes'    = [owes EXCEPT ![w] = FALSE]
  /\ UNCHANGED <<armed, lost>>

\* The idle timer: it may outlive its worker.
IdleFires(w) ==
  /\ armed[w]
  /\ armed' = [armed EXCEPT ![w] = FALSE]
  /\ IF current = w
     THEN current' = 0 /\ process' = [process EXCEPT ![w] = "killed"]
     ELSE UNCHANGED <<current, process>>
  /\ UNCHANGED <<queue, pending, owes, job, waiting, lost>>

\* Five minutes after the run began its record goes, done or not.
RecordExpires(j) ==
  /\ job[j].kept
  /\ job' = [job EXCEPT ![j].kept = FALSE]
  /\ UNCHANGED <<current, process, queue, pending, armed, owes, waiting, lost>>

PyNext ==
  \/ \E j \in Runs : \/ SpawnCell(j) \/ SpawnFails(j) \/ CancelRun(j)
                     \/ Watch(j) \/ StopWatching(j) \/ RecordExpires(j)
  \/ \E i \in Intels : AskIntel(i)
  \/ \E w \in Processes : \E r \in {"ok", "error", "missing"} : ResultLine(w, r)
  \/ \E w \in Processes : BadLine(w) \/ WorkerExits(w) \/ IdleFires(w)
  \/ \E w \in Processes : \E j \in Runs : InstallAndRetry(w, j)

PySpec == PyInit /\ [][PyNext]_pyVars

-----------------------------------------------------------------------------
(* What the runner promises *)

Held(w) == QueueItems(w) \cup Expects(w)

\* A process that runs is the notebook's worker: a killed or idle one that exits
\* late never takes a newer one off the map, and none is left running unseen.
RunningIsCurrent == \A w \in Processes : process[w] = "running" <=> w = current

\* No run is forgotten: one that is not done is held by the notebook's worker,
\* and an editor request that has no answer is held there too or was dropped by
\* a cancellation; a worker with a queue has a request to answer.
NothingForgotten ==
  /\ \A j \in Runs : job[j].started /\ ~job[j].done /\ job[j].kept
       => current # 0 /\ j \in Held(current)
  /\ \A i \in waiting \ lost : current # 0 /\ i \in Held(current)
  /\ \A w \in Processes : queue[w] # <<>> => pending[w] # NoItem /\ owes[w]

\* What an event stream is told: the outcome the run keeps, or - the stream of a
\* run that is tried again - the result of the first attempt, which named a
\* missing module.  No stream waits for a run that is over.
ToldIsTrue ==
  \A j \in Runs :
    /\ job[j].told = "watching" => ~job[j].done
    /\ job[j].told \in Results \ {"missing"} => job[j].done /\ job[j].result = job[j].told

\* A run ends once: what a cancellation, an exit or a result decided is not
\* changed by the others when they come later.
DoneIsFinal == [][\A j \in Runs : job[j].done => job'[j].done /\ job'[j].result = job[j].result]_job
=============================================================================
