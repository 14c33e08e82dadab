------------------------------- MODULE MCTasks -------------------------------
(***************************************************************************)
(* Tasks with small sets of clients, renderers and calls.                  *)
(***************************************************************************)
EXTENDS Tasks, TLC

\* Clients, and renderers, are interchangeable in the safety runs.
Symmetry == Permutations(Client) \cup Permutations(Device)
=============================================================================
