---------------------------- MODULE MCChangeFeed ----------------------------
(***************************************************************************)
(* A small instance of ChangeFeed for TLC.                                 *)
(***************************************************************************)
EXTENDS ChangeFeed

CONSTANTS d, e

(* A synced folder with one of two files in it, and all changes to come;   *)
(* and two files side by side that were not synced yet, and one change.    *)
TwoStarts == {<<[o \in File |-> IF o > Dir THEN Dir ELSE Root], d, 1, TRUE>>,
              <<[o \in File |-> Root], d, MaxRev - 1, FALSE>>}

Names == {d, e}
=============================================================================
