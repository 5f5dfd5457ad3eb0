---------------------------- MODULE MCEntryStore ----------------------------
(* EntryStore with four calls: one makes a row and three race on it.  Jobs   *)
(* differ in nothing but their name, so they are symmetric.                 *)
EXTENDS EntryStore, TLC

CONSTANTS j1, j2, j3, j4

MCJob     == {j1, j2, j3, j4}
JobsAlike == Permutations(MCJob)
=============================================================================
