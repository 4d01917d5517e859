-------------------------------- MODULE Timeline --------------------------------
(* What undo and redo promise: the states a notebook went through form a line, *)
(* and the two commands walk it without changing it.                           *)
EXTENDS Integers

CONSTANTS States, Depth

VARIABLES line, at

tlVars == <<line, at>>

Positions == DOMAIN line

TlInit == at = 1 /\ line \in [{1} -> States]

\* The state at the present position changes in place.
Amend == at' = at /\ \E s \in States : line' = [line EXCEPT ![at] = s]

\* A new state follows the present one.  What followed before is forgotten, and
\* when the line is full its first state too.
Extend ==
  LET drop == IF at > Depth THEN 1 ELSE 0 IN
  /\ at' = at + 1 - drop
  /\ \E s \in States :
       line' = [i \in 1..at' |-> IF i = at' THEN s ELSE line[i + drop]]

Back    == at > 1 /\ at' = at - 1 /\ UNCHANGED line
Forward == at + 1 \in Positions /\ at' = at + 1 /\ UNCHANGED line

TlNext == Amend \/ Extend \/ Back \/ Forward

TlSpec == TlInit /\ [][TlNext]_tlVars
=============================================================================
