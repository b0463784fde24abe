------------------------------ MODULE CatchUp -------------------------------
(***************************************************************************)
(* What reading the drive's changes promises (core/remote.py, and the      *)
(* cursor of `dsync sync` in cli/main.py), whatever the requests it takes: *)
(* a profile's cursor is a revision such that everything last changed at or*)
(* before it is known.  ChangeFeed is the detailed specification.          *)
(*                                                                         *)
(* Some files a pass may lose: told wrong, and not told again before they  *)
(* change or a full pass comes.  A delta pass loses none that was known.   *)
(***************************************************************************)
EXTENDS Naturals

CONSTANTS
    File,           \* the files of the drive
    State,          \* what a file in the synced folder may be
    None,           \* it is not there
    Out             \* it is on the drive, outside the synced folder

VARIABLES
    now,            \* File -> what it is
    rev,            \* File -> the revision of the last change that concerns it
    top,            \* the drive's latest revision
    told,           \* File -> what the profile believes of it: the states it
                    \* has a row for, one at most as long as all goes well
    cursor,         \* the saved revision
    lost            \* the files whose news a pass has lost

drive == <<now, rev, top>>
vars  == <<drive, told, cursor, lost>>

Known(o) == IF now[o] = None THEN {} ELSE {now[o]}

Promised(o, t, c) == rev[o] <= c /\ now[o] # Out => t[o] = Known(o)

Init ==
    /\ now \in [File -> State \cup {None, Out}]
    /\ rev \in [File -> Nat] /\ top \in Nat /\ cursor \in Nat
    /\ told \in [File -> SUBSET State]
    /\ lost = {} /\ cursor <= top
    /\ \A o \in File : rev[o] <= top /\ Promised(o, told, cursor)

(* Files change: what has changed has a revision nobody has seen.          *)
Change ==
    /\ top' > top
    /\ \A o \in File : \/ now'[o] = now[o] /\ rev'[o] = rev[o]
                       \/ top < rev'[o] /\ rev'[o] <= top'
    /\ UNCHANGED <<told, cursor, lost>>

(* A pass ends and saves its cursor.                                       *)
Pass(fresh) ==
    /\ cursor <= cursor' /\ cursor' <= top
    /\ lost' \subseteq fresh
    /\ \A o \in File \ lost' : Promised(o, told', cursor')
    /\ UNCHANGED drive

Delta == Pass(lost \cup {o \in File : rev[o] > cursor})
Full  == Pass(File)

(* A pass is broken off with some of its work done and no cursor saved.    *)
Broken ==
    /\ lost \subseteq lost'
    /\ \A o \in File \ lost' : Promised(o, told', cursor)
    /\ UNCHANGED <<drive, cursor>>

Next == Change \/ Delta \/ Full \/ Broken
Spec == Init /\ [][Next]_vars
=============================================================================
