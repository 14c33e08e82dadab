---------------------------- MODULE MCHostService ----------------------------
(***************************************************************************)
(* HostService with small sets of clients, renderers, files and responses. *)
(***************************************************************************)
EXTENDS HostService, TLC

\* None of them is told from the others of its kind.
Symmetry ==
    Permutations(Client) \cup Permutations(Ip) \cup Permutations(File)
        \cup Permutations(Response)
=============================================================================
