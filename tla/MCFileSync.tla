----------------------------- MODULE MCFileSync -----------------------------
(***************************************************************************)
(* Small instances of FileSync for TLC.                                    *)
(***************************************************************************)
EXTENDS FileSync, TLC

CONSTANTS c1, c2, c3, c4

Sizes == [x \in Content |-> IF x \in {c1, c2} THEN 1 ELSE 2]

DistinctSizes == [x \in Content |->
                      CASE x = c1 -> 1 [] x = c2 -> 2 [] x = c3 -> 3 [] x = c4 -> 4]

(* Contents of one size are interchangeable: Size is the only function of  *)
(* them the program uses.                                                  *)
SameSize == {[x \in Content |-> IF x \in {c1, c2} THEN p[x] ELSE q[x]] :
                 p \in Permutations({c1, c2}), q \in Permutations({c3, c4})}

AllModes == Mode
Attended == {[full |-> f, propagate |-> TRUE, unattended |-> FALSE] : f \in BOOLEAN}

FullAttended == {[full |-> TRUE, propagate |-> TRUE, unattended |-> FALSE]}

DeltaAttended == {[full |-> FALSE, propagate |-> TRUE, unattended |-> FALSE]}

(* The instants in which the code can no longer notice a local change:     *)
(* between the last stat and the effect it guards.                         *)
Windows == {"replace", "fresh", "record", "crecord", "precheck"}
NotInWindows == Pc \ Windows
WhileHashing == NotInWindows \cup {"record"}
AfterReplace == NotInWindows \cup {"fresh"}
AfterRename  == NotInWindows \cup {"precheck"}

(* Other PCs act until the upload has looked the name up, or until the     *)
(* drive has been observed.                                                *)
BeforePut  == Pc \ {"put", "post", "requery"}
BeforePost == Pc \ {"put", "requery"}
BeforeWalk == {"idle", "scan", "tip", "walk", "changes"}
BeforeScan == {"idle", "scan"}

AllFaults  == FaultKind
AllButHash == FaultKind \ {"hash"}
=============================================================================
