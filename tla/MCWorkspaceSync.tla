---------------------------- MODULE MCWorkspaceSync ----------------------------
(* Clients are interchangeable: a symmetry set where no liveness is checked. *)
EXTENDS WorkspaceSync, TLC

Symmetry == Permutations(Clients)
=============================================================================
