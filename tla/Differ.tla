------------------------------- MODULE Differ -------------------------------
(***************************************************************************)
(* The three-way comparison of one file key (core/differ.py, _decide_one   *)
(* and its helpers): base record B, local entry L and remote entry R give  *)
(* one decision.  Everything here is a pure operator; FileSync.tla runs it *)
(* inside the whole pass of one path.                                      *)
(*                                                                         *)
(* A record that does not exist, a file that is absent and an entry that   *)
(* was not observed are records whose identifying field is None:           *)
(*   base    [id, lmt, lsz, lc, rver, rsz, rc, st]   no row: st = "none"   *)
(*   local   [mt, sz, c]                             absent: mt = None     *)
(*   remote  [id, ver, sz, c]                        not seen: id = None   *)
(* c, lc and rc stand for an MD5: two files have the same one exactly when *)
(* they hold the same bytes, and None says it is not known.                *)
(***************************************************************************)
EXTENDS Naturals

CONSTANT None

Status == {"none", "synced", "pending_upload", "pending_download", "error"}

Acting == {"UPLOAD_NEW", "UPLOAD_VERSION", "DOWNLOAD_NEW", "DOWNLOAD_UPDATE",
           "CONFLICT", "LOCAL_TRASH", "REMOTE_TRASH", "TOUCH_BASE", "FORGET"}
Kind   == Acting \cup {"none", "PROTECT", "REPORT"}

TrashKinds == {"LOCAL_TRASH", "REMOTE_TRASH"}

NoRow    == [id |-> None, lmt |-> None, lsz |-> None, lc |-> None,
             rver |-> None, rsz |-> None, rc |-> None, st |-> "none"]
NoEntry  == [mt |-> None, sz |-> None, c |-> None]
NoRemote == [id |-> None, ver |-> None, sz |-> None, c |-> None]

Here(e)  == e.mt # None
Seen(r)  == r.id # None

(* Does the base know the local content of the last sync?                  *)
HasBaseline(rec) == rec.lc # None

MetaSame(rec, e) == /\ rec.lmt # None /\ rec.lsz # None
                    /\ rec.lmt = e.mt /\ rec.lsz = e.sz

(* Mutation: the version alone.                                            *)
VersionDiffers(rec, r) == r.ver # None /\ rec.rver # r.ver

(* The file id plays no part: a file trashed and created again under the   *)
(* same name, with the same version number and size, has not changed.      *)
RemoteChanged(rec, r) ==
    \/ r.ver # None /\ rec.rver # r.ver
    \/ rec.rsz # None /\ r.sz # None /\ rec.rsz # r.sz
    \/ rec.rc # None /\ r.c # None /\ rec.rc # r.c

(* lm and rm are what reading the local file and the remote file returned; *)
(* "unknown" is the None of same_content.                                  *)
SameContent(e, r, lm, rm) ==
    IF e.sz # r.sz THEN "no"
    ELSE IF lm = None \/ rm = None THEN "unknown"
    ELSE IF lm = rm THEN "yes" ELSE "no"

(* Does diff read the local file (and so write its MD5 back to the entry)? *)
ReadsLocal(rec, e, r) ==
    /\ Here(e)
    /\ IF rec.id = None THEN Seen(r) /\ e.sz = r.sz
                        ELSE HasBaseline(rec) /\ ~MetaSame(rec, e)

-----------------------------------------------------------------------------
(* Rows 1, 2 and 3: no row for the key, or a row without a file id.        *)
DecideNew(e, r, lm, rm) ==
    IF Here(e) /\ ~Seen(r) THEN "UPLOAD_NEW"
    ELSE IF ~Here(e) /\ Seen(r) THEN "DOWNLOAD_NEW"
    ELSE IF ~Here(e) /\ ~Seen(r) THEN "none"
    ELSE IF SameContent(e, r, lm, rm) = "yes" THEN "TOUCH_BASE"
    ELSE "CONFLICT"

(* Mutation: a deletion does not lose against a change (no row 9).         *)
DecideGoneOnly(rec, r, absent, observed, propagate) ==
    IF absent THEN "FORGET"
    ELSE IF Seen(r) /\ ~HasBaseline(rec) THEN "DOWNLOAD_NEW"
    ELSE IF observed /\ propagate THEN "REMOTE_TRASH"
    ELSE "REPORT"

(* Rows 2, 7, 9 and "gone on both sides": the local file is absent.        *)
DecideGone(rec, r, absent, observed, propagate) ==
    IF absent THEN "FORGET"
    ELSE IF Seen(r) /\ (RemoteChanged(rec, r) \/ ~HasBaseline(rec))
         THEN "DOWNLOAD_NEW"
    ELSE IF observed /\ propagate THEN "REMOTE_TRASH"
    ELSE "REPORT"

(* Mutation: both sides changed is a conflict, whatever they hold.         *)
DecideUnequal(rec, e, r, absent, propagate, lm, rm) ==
    LET lchanged == ~MetaSame(rec, e) /\ lm # rec.lc
        rchanged == Seen(r) /\ RemoteChanged(rec, r)
    IN  IF ~MetaSame(rec, e) /\ lm = None THEN "PROTECT"
        ELSE IF absent /\ lchanged THEN "UPLOAD_NEW"
        ELSE IF absent THEN IF propagate THEN "LOCAL_TRASH" ELSE "REPORT"
        ELSE IF lchanged THEN IF rchanged THEN "CONFLICT" ELSE "UPLOAD_VERSION"
        ELSE IF rchanged THEN "DOWNLOAD_UPDATE"
        ELSE "none"

(* Rows 4, 5, 6, 8 and 10: the local file is there and the base has a      *)
(* baseline.                                                               *)
DecideKnown(rec, e, r, absent, propagate, lm, rm) ==
    LET lchanged == ~MetaSame(rec, e) /\ lm # rec.lc
        rchanged == Seen(r) /\ RemoteChanged(rec, r)
    IN  IF ~MetaSame(rec, e) /\ lm = None THEN "PROTECT"
        ELSE IF absent /\ lchanged THEN "UPLOAD_NEW"
        ELSE IF absent THEN IF propagate THEN "LOCAL_TRASH" ELSE "REPORT"
        ELSE IF lchanged /\ rchanged
             THEN IF SameContent(e, r, lm, rm) = "yes" THEN "TOUCH_BASE"
                                                       ELSE "CONFLICT"
        ELSE IF lchanged THEN "UPLOAD_VERSION"
        ELSE IF rchanged THEN "DOWNLOAD_UPDATE"
        ELSE "none"

(* The decision for one file key.  unobs: the scan could not read the      *)
(* path; deleted: a tombstone was seen; complete: the view is a full walk. *)
Decide(rec, e, r, unobs, deleted, complete, propagate, lm, rm) ==
    LET absent   == deleted \/ (~Seen(r) /\ complete)
        observed == complete \/ Seen(r) \/ deleted
    IN  IF ~Here(e) /\ rec.st # "none" /\ unobs THEN "REPORT"
        ELSE IF rec.id = None THEN DecideNew(e, r, lm, rm)
        ELSE IF ~Here(e) THEN DecideGone(rec, r, absent, observed, propagate)
        ELSE IF ~HasBaseline(rec) THEN "PROTECT"
        ELSE DecideKnown(rec, e, r, absent, propagate, lm, rm)
=============================================================================
