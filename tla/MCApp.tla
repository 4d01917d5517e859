--------------------------------- MODULE MCApp ---------------------------------
(* The small components in one run.  They share no state, so nothing is lost  *)
(* by letting one of them move in a behaviour, the one Init picks from Parts, *)
(* and the numbers of their states add up instead of multiplying.             *)
EXTENDS QueueExecution, SharePublish, PythonRunner, Membership, NotebookFiles,
        UndoHistory

CONSTANT Parts

VARIABLE part

appVars == <<vars, shareVars, pyVars, memberVars, fileVars, undoVars, part>>

FourJobs == 1..4

\* Every snapshot has a live cell on a connection of its own.
OwnConnection == [s \in Snapshots |-> {s}]

AppInit ==
  /\ part \in Parts
  /\ Init /\ ShareInit /\ PyInit /\ MemberInit /\ FileInit
  /\ UndoInit

AppNext ==
  /\ UNCHANGED part
  /\ \/ /\ part = "jobs" /\ Next
        /\ UNCHANGED <<shareVars, pyVars, memberVars, fileVars, undoVars>>
     \/ /\ part = "shares" /\ ShareNext
        /\ UNCHANGED <<vars, pyVars, memberVars, fileVars, undoVars>>
     \/ /\ part = "python" /\ PyNext
        /\ UNCHANGED <<vars, shareVars, memberVars, fileVars, undoVars>>
     \/ /\ part = "members" /\ MemberNext
        /\ UNCHANGED <<vars, shareVars, pyVars, fileVars, undoVars>>
     \/ /\ part = "files" /\ FileNext
        /\ UNCHANGED <<vars, shareVars, pyVars, memberVars, undoVars>>
     \/ /\ part = "undo" /\ UndoNext
        /\ UNCHANGED <<vars, shareVars, pyVars, memberVars, fileVars>>

AppSpec == AppInit /\ [][AppNext]_appVars

\* The parts that do not move stay as Init left them.
AppTypeOK ==
  /\ part = "jobs"    => TypeOK
  /\ part = "shares"  => ShareTypeOK
  /\ part = "python"  => PyTypeOK
  /\ part = "members" => MemberTypeOK
  /\ part = "files"   => FileTypeOK
  /\ part = "undo"    => UndoTypeOK
=============================================================================
