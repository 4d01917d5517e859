------------------------------- MODULE MCBrowser -------------------------------
(* The sync of the workspace and the runs of the cells, as MCApp has the other *)
(* components: they share no state, and one of them moves in a behaviour.      *)
EXTENDS WorkspaceSync, CellRuns, TLC

CONSTANT Parts

VARIABLE part

browserVars == <<vars, cellVars, part>>

\* The browsers are interchangeable; no liveness is checked here.
Symmetry == Permutations(Clients)

\* Each cell reads the ones before it.
ChainUpstream == [c \in Cells |-> 1..(c - 1)]

\* What rests while the cells move is in one of its initial states: nothing saved.
BrowserInit ==
  /\ part \in Parts /\ Init /\ CellInit
  /\ part = "cells" => written = <<>>

BrowserNext ==
  /\ UNCHANGED part
  /\ \/ part = "sync"  /\ Next     /\ UNCHANGED cellVars
     \/ part = "cells" /\ CellNext /\ UNCHANGED vars

BrowserSpec == BrowserInit /\ [][BrowserNext]_browserVars

BrowserTypeOK ==
  /\ part = "sync"  => TypeOK
  /\ part = "cells" => CellTypeOK
=============================================================================
