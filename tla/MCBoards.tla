------------------------------ MODULE MCBoards ------------------------------
(* Orders and presses that differ in their names only.                        *)
EXTENDS Boards, TLC

Symmetric == Permutations(Tickets) \cup Permutations(Presses)
=============================================================================
