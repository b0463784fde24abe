----------------------------- MODULE MCCommands -----------------------------
(***************************************************************************)
(* Instances of Commands.tla for TLC.  Two of the three contents have the  *)
(* same size, so that a size never identifies bytes; stamps and file ids   *)
(* are numbers, of which there are as many as a state can use.             *)
(***************************************************************************)
EXTENDS Commands

CONSTANTS c1, c2, c3

Bytes  == {c1, c2, c3}
Sizes  == [c \in Bytes |-> IF c = c3 THEN 2 ELSE 1]
Ids    == 1..7
Stamps == 1..9

(* `reconcile --trust-size` and `init --force` write a baseline that was   *)
(* never compared, `push --assume-local-newer` overwrites by request.      *)
Safe == {"sync", "push", "pull", "reconcile", "both", "local", "remote", "init"}

AllFaults == FaultKind

(* The same bytes, bytes of the same size, or none.                        *)
SomeStarts == {None, c1} \X {None, c1, c2}

(* Not between resolve's last look at a file and its os.replace, nor where *)
(* nothing has been read since the last step.                              *)
Saves  == {"idle", "send", "commit", "fetch", "place", "compare",
           "verify", "row"}
Others == {"idle", "send", "again", "check", "fetch", "compare", "verify", "row"}
=============================================================================
