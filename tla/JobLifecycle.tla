----------------------------- MODULE JobLifecycle -----------------------------
(***************************************************************************)
(* What the cloud job registry promises to the rest of the app, with no    *)
(* leases, clocks, requests or processes: a job is submitted, is started   *)
(* at most once and by at most one worker, and settles.  A settled job     *)
(* keeps its outcome, except that a sweep may still declare it timed out.  *)
(***************************************************************************)
CONSTANTS Jobs, Workers, NoWorker

VARIABLES
  state,  \* of each job
  owner   \* the worker that started it, NoWorker for the app itself

Outcome == {"succeeded", "failed", "cancelled", "timed_out"}
Open    == {"queued", "running"}

Init ==
  /\ state = [j \in Jobs |-> "absent"]
  /\ owner = [j \in Jobs |-> NoWorker]

Submit(j) ==
  /\ state[j] = "absent"
  /\ state' = [state EXCEPT ![j] = "queued"]
  /\ UNCHANGED owner

Start(j, w) ==
  /\ state[j] = "queued"
  /\ state' = [state EXCEPT ![j] = "running"]
  /\ owner' = [owner EXCEPT ![j] = w]

Settle(j, outcome) ==
  /\ state[j] \in Open
  /\ state' = [state EXCEPT ![j] = outcome]
  /\ UNCHANGED owner

TimeOut(S) ==
  /\ \A j \in S : state[j] # "absent"
  /\ state' = [j \in Jobs |-> IF j \in S THEN "timed_out" ELSE state[j]]
  /\ UNCHANGED owner

Next ==
  \/ \E j \in Jobs : Submit(j)
  \/ \E j \in Jobs, w \in Workers \cup {NoWorker} : Start(j, w)
  \/ \E j \in Jobs, outcome \in Outcome : Settle(j, outcome)
  \/ \E S \in SUBSET Jobs : TimeOut(S)

Spec == Init /\ [][Next]_<<state, owner>>
=============================================================================
