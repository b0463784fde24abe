---------------------------- MODULE MCAutoRunner ----------------------------
(***************************************************************************)
(* Small instances of AutoRunner for TLC.                                  *)
(***************************************************************************)
EXTENDS AutoRunner

R(fault, limited, waits) == [fault |-> fault, limited |-> limited, waits |-> waits]
Written(r) == [written |-> TRUE, rep |-> r]
Lost(f)    == [written |-> FALSE, rep |-> R(f, FALSE, {})]

(* 429 and waiting items are counted only by a sync that got so far.       *)
AllOutcomes ==
    {Written(R("ok", FALSE, {})), Written(R("ok", TRUE, {"deletes"})),
     Written(R("partial", FALSE, {})), Written(R("held", FALSE, {})),
     Written(R("transient", FALSE, {})), Written(R("lasting", FALSE, {})),
     Lost("config"), Lost("locked"), Lost("partial")}

Well == {Written(R("ok", FALSE, {}))}
Failing == Well \cup {Written(R("transient", FALSE, {}))}
Mixed == Failing \cup {Written(R("held", FALSE, {})), Lost("config")}
AllActs == Act
Orderly == Act \ {"garbled"}
=============================================================================
