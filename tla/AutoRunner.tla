----------------------------- MODULE AutoRunner -----------------------------
(***************************************************************************)
(* The automatic loop (auto/runner.py, auto/state.py, auto/notify.py) with *)
(* the marker rule it calls (tools/sync_here.py, reconcile_markers).  A    *)
(* tick reconciles the markers, decides what to run, runs one child after  *)
(* another and saves its state; between the steps time passes, the loop    *)
(* may be killed and people act.                                           *)
(*                                                                         *)
(* Time is counted in ticks.  A time stamp is kept as its age, capped at   *)
(* the longest span anything is compared with; the order of the last syncs *)
(* is kept apart (before), so the cap does not blur it.                    *)
(*                                                                         *)
(* Left out: `--auto now`, status.txt, tick times, the wording of notices. *)
(***************************************************************************)
EXTENDS Naturals, FiniteSets

CONSTANTS
    None,
    Profile,        \* enrolled profiles, numbered in the order of their names
    Day,            \* ticks in a day
    Week,           \* days in a week
    Workdays,       \* the days of the week with an evening sweep
    Gap,            \* day_gap_hours
    Work,           \* work_hours less EOD_LEAD
    Interval,       \* min_interval_sec
    MaxMult,        \* the limit of backoff_mult: 8 in the code
    SlowAt,         \* failures in a row that slow a profile down: 3
    AlarmAt,        \* transient failures in a row that call a person: 5
    AbsentTicks,    \* MARKER_ABSENT_TICKS: 3
    MaxDisable,     \* MAX_AUTO_DISABLE: 1
    Outcomes,       \* how a child may end
    Free,           \* those of them that may happen any number of times
    Acts,           \* what people and the world may do
    MaxEnv          \* bound: such acts, and children that end in another way

(* A child ends with a fault class.  Exits 2 and 3 and a killed child      *)
(* write no report; a report says what waits for a person and whether the  *)
(* server answered 429.                                                    *)
Fault  == {"ok", "partial", "held", "transient", "lasting", "config", "locked"}
Waits  == {"deletes", "conflicts"}
Report == [fault : Fault, limited : BOOLEAN, waits : SUBSET Waits]
Outcome == [written : BOOLEAN, rep : Report]
Notice == {"held", "config", "error"} \cup Waits
Act    == {"crash", "standby", "slow", "edit", "person", "vanish", "unread",
           "garbled"}

ASSUME ProfileAssumption == Profile \subseteq Nat /\ IsFiniteSet(Profile)
ASSUME SpanAssumption == {Day, Week, Gap, Work, Interval, MaxMult} \subseteq Nat \ {0}
ASSUME LimitAssumption ==
    /\ {SlowAt, AbsentTicks, MaxDisable, MaxEnv} \subseteq Nat
    /\ AlarmAt \in Nat \ {0}
ASSUME DomainAssumption ==
    /\ None \notin Nat /\ None \notin Report
    /\ Workdays \subseteq 0 .. Week - 1
    /\ Outcomes \subseteq Outcome /\ Free \subseteq Outcomes /\ Acts \subseteq Act
    /\ \A o \in Outcomes : o.written => o.rep.fault \notin {"config", "locked"}

VARIABLES
    tod, day,       \* time of day, day of the week
    last,           \* last_sync_at in each profile's database, as an age
    before,         \* pairs of profiles, the first synced earlier
    mode,           \* sync_mode in config.toml
    marker,         \* the marker in each root: "there", "gone" or "unsure"
    report,         \* auto/last/<profile>.json
    notices,        \* notices.jsonl: pairs of a profile and a kind
    disk,           \* state.json
    mem,            \* the AutoState of the running loop
    pc,             \* "off", "tick", "run" or "sleep"
    todo,           \* the profiles the tick has yet to run
    cause,          \* the kind of its decision
    since,          \* time since the tick began
    left,           \* acts left
    owed,           \* history: profiles today's evening sweep has yet to run
    missed,         \* history: ticks that saw the marker gone since the last
                    \* tick that came to its end and saw it otherwise
    seen,           \* history: profiles whose marker the running tick saw otherwise
    failed,         \* history: reports of failure in a row
    started         \* history: age of the last start by the loop

clock   == <<tod, day>>
world   == <<mode, marker>>
outside == <<last, before, report, notices>>
loop    == <<pc, todo, cause, since>>
history == <<owed, missed, seen, failed, started>>
vars    == <<clock, world, outside, disk, mem, loop, left, history>>

AtMost(a, b)  == IF a <= b THEN a ELSE b
AtLeast(a, b) == IF a >= b THEN a ELSE b
Cap == LET longest == AtLeast(Gap, Work) IN AtLeast(longest, Interval * MaxMult)

Age == 0 .. Cap
Spend == left > 0 /\ left' = left - 1
May(a) == a \in Acts /\ Spend

FreshEntry == [streak |-> 0, mult |-> 1, parked |-> FALSE, absent |-> 0]
FreshState == [tick |-> None, start |-> None, eod |-> FALSE,
               prof |-> [p \in Profile |-> FreshEntry]]

Init ==
    /\ tod = 0 /\ day = 0
    /\ last = [p \in Profile |-> None]
    /\ before = {x \in Profile \X Profile : x[1] < x[2]}
    /\ mode = [p \in Profile |-> "sync"] /\ marker = [p \in Profile |-> "there"]
    /\ report = [p \in Profile |-> None] /\ notices = {}
    /\ disk = FreshState /\ mem = FreshState
    /\ pc = "off" /\ todo = {} /\ cause = "idle" /\ since = 0 /\ left = MaxEnv
    /\ owed = {}
    /\ missed = [p \in Profile |-> 0] /\ seen = {} /\ failed = [p \in Profile |-> 0]
    /\ started = [p \in Profile |-> None]
-----------------------------------------------------------------------------
(* Time.  last_eod_date is kept as "is it today", so midnight clears it.   *)
Older(a, d)  == IF a = None THEN None ELSE AtMost(a + d, Cap)
Midnight(d)  == tod + d >= Day
Later(st, d) == [st EXCEPT !.tick = Older(@, d), !.start = Older(@, d),
                           !.eod = @ /\ ~Midnight(d)]

Clock(d) ==
    /\ tod' = (tod + d) % Day
    /\ day' = IF Midnight(d) THEN (day + 1) % Week ELSE day

(* Everything that only grows older, in a step of length d.                *)
Elapse(d) ==
    /\ Clock(d)
    /\ last' = [p \in Profile |-> Older(last[p], d)]
    /\ started' = [p \in Profile |-> Older(started[p], d)]
    /\ disk' = Later(disk, d) /\ mem' = Later(mem, d)
    /\ owed' = IF Midnight(d) THEN {} ELSE owed
-----------------------------------------------------------------------------
(* The start of a tick: markers, then the decision.                        *)
Names == {p \in Profile : mode[p] = "sync"}

(* Mutation: an unreadable marker neither counts nor breaks the row.       *)
AbsentUnbroken(p) ==
    CASE marker[p] = "gone"   -> AtMost(mem.prof[p].absent + 1, AbsentTicks)
      [] marker[p] = "unsure" -> mem.prof[p].absent
      [] marker[p] = "there"  -> 0

(* One marker seen: an unreadable one breaks the row of absences.          *)
AbsentAfter(p) ==
    IF marker[p] = "gone" THEN AtMost(mem.prof[p].absent + 1, AbsentTicks) ELSE 0

(* reconcile_markers without re-enabling: too many absences at once are a  *)
(* failure of the disk above them and change nothing.                      *)
Disabled ==
    LET pending == {p \in Names : AbsentAfter(p) >= AbsentTicks}
    IN  IF Cardinality(pending) > MaxDisable THEN {} ELSE pending

(* Writing the mode changes the config's fingerprint: nobody rests.        *)
Reconciled ==
    [p \in Profile |->
        [mem.prof[p] EXCEPT !.absent = IF p \in Names THEN AbsentAfter(p) ELSE @,
                            !.parked = @ /\ Disabled = {}]]

Due(names) == {p \in names :
    last[p] = None \/ last[p] >= Interval * mem.prof[p].mult}

LongestDue(names) == {p \in Due(names) :
    \A q \in Due(names) : <<q, p>> \notin before}

Evening == day \in Workdays /\ ~mem.eod /\ mem.start >= Work

(* Mutation: no evening sweep.                                             *)
DecideNoEvening(names) ==
    IF names = {} THEN [kind |-> "idle", run |-> {}]
    ELSE IF mem.tick = None \/ mem.start = None \/ mem.tick >= Gap
         THEN [kind |-> "sweep_start", run |-> names]
    ELSE [kind |-> IF Due(names) # {} THEN "due" ELSE "idle", run |-> LongestDue(names)]

Decide(names) ==
    IF names = {} THEN [kind |-> "idle", run |-> {}]
    ELSE IF mem.tick = None \/ mem.start = None \/ mem.tick >= Gap
         THEN [kind |-> "sweep_start", run |-> names]
    ELSE IF Evening THEN [kind |-> "sweep_eod", run |-> names]
    ELSE IF Due(names) # {} THEN [kind |-> "due", run |-> LongestDue(names)]
    ELSE [kind |-> "idle", run |-> {}]

(* The names are those from before the markers were reconciled, less the   *)
(* profiles whose database could not be read.                              *)
TickWith(unread) ==
    LET d == Decide(Names \ unread)
    IN  /\ pc = "tick" /\ pc' = "run"
        /\ cause' = d.kind /\ todo' = d.run /\ since' = 0
        /\ mem' = [mem EXCEPT !.prof = Reconciled,
                              !.start = IF d.kind = "sweep_start" THEN 0 ELSE @,
                              !.eod = @ \/ d.kind = "sweep_eod"]
        /\ mode' = [p \in Profile |-> IF p \in Disabled THEN "off" ELSE mode[p]]
        /\ disk' = IF Disabled = {} THEN disk
                   ELSE [disk EXCEPT !.prof = [p \in Profile |->
                            [disk.prof[p] EXCEPT !.parked = FALSE]]]
        /\ owed' = IF d.kind = "sweep_eod" THEN d.run ELSE owed
        /\ missed' = [p \in Profile |->
                IF p \in Names /\ marker[p] = "gone"
                THEN AtMost(missed[p] + 1, AbsentTicks) ELSE missed[p]]
        /\ seen' = {p \in Names : marker[p] # "gone"}
        /\ UNCHANGED <<clock, marker, outside, failed, started>>

Tick == TickWith({}) /\ UNCHANGED left
TickBlind == May("unread") /\ \E p \in Names : TickWith({p})
-----------------------------------------------------------------------------
(* After a child: classify, adjust the period, tell people.                *)

(* The report counts, not the exit code; a child that wrote none leaves    *)
(* the report of an earlier one in place.                                  *)
ReportAfter(p, o) == IF o.written THEN o.rep ELSE report[p]

Classified(p, o) ==
    IF ReportAfter(p, o) = None THEN o.rep.fault ELSE ReportAfter(p, o).fault

Limited(r)  == r # None /\ r.limited
Waiting(r)  == IF r = None THEN {} ELSE r.waits

(* Mutation: a run that was held back ends the row of failures.            *)
StreakForgiving(p, kind) ==
    IF kind \in {"ok", "locked", "held"} THEN 0
    ELSE AtMost(mem.prof[p].streak + 1, AtLeast(SlowAt, AlarmAt))

StreakAfter(p, kind) ==
    IF kind \in {"ok", "locked"} THEN 0
    ELSE AtMost(mem.prof[p].streak + 1, AtLeast(SlowAt, AlarmAt))

(* Mutation: the doubled period has no limit.                              *)
MultUnlimited(p, kind, r) ==
    LET m == mem.prof[p].mult
    IN  IF Limited(r) \/ StreakAfter(p, kind) >= SlowAt THEN 2 * m
        ELSE IF kind = "ok" /\ m > 1 THEN AtLeast(1, (3 * m) \div 4)
        ELSE m

(* 0.75 of a multiple, rounded down to a whole one.                        *)
MultAfter(p, kind, r) ==
    LET m == mem.prof[p].mult
    IN  IF Limited(r) \/ StreakAfter(p, kind) >= SlowAt THEN AtMost(MaxMult, 2 * m)
        ELSE IF kind = "ok" /\ m > 1 THEN AtLeast(1, (3 * m) \div 4)
        ELSE m

EntryAfter(p, kind, r) ==
    [mem.prof[p] EXCEPT !.streak = StreakAfter(p, kind),
                        !.mult   = MultAfter(p, kind, r),
                        !.parked = (kind = "config")]

Told(p) == {k \in Notice : <<p, k>> \in notices}

(* _note_outcome: the notices of a profile after a child of this kind.     *)
NoticesOf(p, kind, r) ==
    LET rest == Told(p) \ {"held"}
    IN  CASE kind = "config" -> Told(p) \cup {"config"}
          [] kind = "held"   -> Told(p) \cup {"held"}
          [] kind = "transient" ->
                IF StreakAfter(p, kind) >= AlarmAt THEN rest \cup {"error"}
                                                   ELSE rest \ {"error"}
          [] kind \in {"lasting", "locked"} -> rest \cup {"error"}
          [] kind \in {"ok", "partial"} -> (rest \ ({"error"} \cup Waits)) \cup Waiting(r)

NotePerson(p, kinds) ==
    notices' = {n \in notices : n[1] # p} \cup {<<p, k>> : k \in kinds}

(* A sync that ends well, or with single files failed, stamps the base.    *)
Settles(o) == o.written /\ o.rep.fault \in {"ok", "partial"}

Synced(p) == {x \in before : x[1] # p /\ x[2] # p}
                \cup {<<q, p>> : q \in Profile \ {p}}

Stamped(p, o) ==
    IF Settles(o) THEN last' = [last EXCEPT ![p] = 0] /\ before' = Synced(p)
                  ELSE UNCHANGED <<last, before>>

FailedAfter(p, o) ==
    CASE ~o.written -> failed[p]
      [] Settles(o) -> 0
      [] OTHER      -> AtMost(failed[p] + 1, AlarmAt)

(* A child of a profile that is switched off is refused: exit 2.           *)
Refused == [written |-> FALSE,
            rep |-> [fault |-> "config", limited |-> FALSE, waits |-> {}]]

MayEnd(p, o) ==
    IF mode[p] = "off" THEN o = Refused /\ UNCHANGED left
    ELSE o \in Outcomes /\ IF o \in Free THEN UNCHANGED left ELSE Spend

Turn(p) == pc = "run" /\ p \in todo /\ \A q \in todo : p <= q

(* What a child leaves, and what the loop keeps in memory of it.           *)
ChildEnds(p, o) ==
    /\ Turn(p) /\ ~mem.prof[p].parked
    /\ report' = [report EXCEPT ![p] = ReportAfter(p, o)]
    /\ Stamped(p, o)
    /\ mem' = [mem EXCEPT !.prof[p] = EntryAfter(p, Classified(p, o), ReportAfter(p, o))]
    /\ owed' = owed \ {p}
    /\ failed' = [failed EXCEPT ![p] = FailedAfter(p, o)]
    /\ started' = [started EXCEPT ![p] = 0]
    /\ UNCHANGED <<clock, world, disk, cause, since, missed>>

RunChild(p, o) ==
    /\ ChildEnds(p, o) /\ MayEnd(p, o)
    /\ todo' = todo \ {p}
    /\ NotePerson(p, NoticesOf(p, Classified(p, o), ReportAfter(p, o)))
    /\ UNCHANGED <<pc, seen>>

(* The list of notices cannot be read (notify.load): the exception ends the*)
(* tick, which saves nothing, and the loop goes on with what is in memory. *)
TickBreaks(p, o) ==
    /\ ChildEnds(p, o) /\ mode[p] = "sync" /\ May("garbled")
    /\ pc' = "sleep" /\ todo' = {} /\ seen' = {}
    /\ UNCHANGED notices

SkipParked(p) ==
    /\ Turn(p) /\ mem.prof[p].parked
    /\ todo' = todo \ {p} /\ owed' = owed \ {p}
    /\ UNCHANGED <<clock, world, outside, disk, mem, pc, cause, since, left,
                   missed, seen, failed, started>>

(* A child may take long: the tick grows older while it runs.              *)
SlowChild ==
    /\ pc = "run" /\ todo # {} /\ May("slow")
    /\ since' = Older(since, Gap) /\ Elapse(Gap)
    /\ UNCHANGED <<before, report, notices, world, pc, todo, cause, missed,
                   seen, failed>>

(* What a finished tick saw counts.                                        *)
Counted == /\ missed' = [p \in Profile |-> IF p \in seen THEN 0 ELSE missed[p]]
           /\ seen' = {}

(* Mutation: the last profile of the tick is left out.                     *)
EndTickShort ==
    /\ pc = "run" /\ Cardinality(todo) <= 1 /\ pc' = "sleep"
    /\ todo' = {}
    /\ mem' = [mem EXCEPT !.tick = since]
    /\ disk' = mem' /\ Counted
    /\ UNCHANGED <<clock, world, outside, cause, since, left, owed, failed, started>>

(* last_tick is the time at which the tick began.                          *)
EndTick ==
    /\ pc = "run" /\ todo = {} /\ pc' = "sleep"
    /\ mem' = [mem EXCEPT !.tick = since]
    /\ disk' = mem' /\ Counted
    /\ UNCHANGED <<clock, world, outside, todo, cause, since, left, owed, failed,
                   started>>

Sleep ==
    /\ pc = "sleep" /\ pc' = "tick" /\ Elapse(1)
    /\ UNCHANGED <<before, report, notices, world, todo, cause, since, left,
                   missed, seen, failed>>

StartLoop ==
    /\ pc = "off" /\ pc' = "tick" /\ mem' = disk
    /\ UNCHANGED <<clock, world, outside, disk, todo, cause, since, left, history>>

Loop == \/ StartLoop \/ Tick \/ EndTick \/ Sleep
        \/ \E p \in Profile : SkipParked(p)
        \/ \E p \in Profile, o \in Outcomes \cup {Refused} : RunChild(p, o)
-----------------------------------------------------------------------------
(* People and the world.                                                   *)

(* The window is closed or the PC goes down; what was not saved is gone.   *)
Down ==
    /\ pc # "off" /\ pc' = "off" /\ May("crash")
    /\ mem' = FreshState /\ todo' = {} /\ cause' = "idle" /\ since' = 0
    /\ failed' = [p \in Profile |-> 0] /\ seen' = {}
    /\ UNCHANGED <<clock, world, notices, disk, owed, missed, started>>

Crash == Down /\ UNCHANGED <<last, before, report>>

(* The same while a child runs that comes to its end without the loop.     *)
KilledInChild(p, o) ==
    /\ Turn(p) /\ ~mem.prof[p].parked /\ mode[p] = "sync" /\ Down
    /\ report' = [report EXCEPT ![p] = ReportAfter(p, o)]
    /\ Stamped(p, o)

Standby ==
    /\ pc \in {"sleep", "off"} /\ May("standby") /\ Elapse(Gap)
    /\ UNCHANGED <<before, report, notices, world, loop, missed, seen, failed>>

Unparked(st) == [st EXCEPT !.prof = [p \in Profile |->
                    [st.prof[p] EXCEPT !.parked = FALSE]]]

EditConfig ==
    /\ May("edit")
    /\ mem' = Unparked(mem) /\ disk' = Unparked(disk)
    /\ UNCHANGED <<clock, world, outside, loop, history>>

MarkerMoves ==
    /\ May("vanish")
    /\ \E p \in Profile : \E m \in {"there", "gone", "unsure"} \ {marker[p]} :
            marker' = [marker EXCEPT ![p] = m]
    /\ UNCHANGED <<clock, mode, outside, disk, mem, loop, history>>

(* synchere.bat in the folder: markers by the rules for people (what was   *)
(* switched off for a missing marker comes back with it), one sync that    *)
(* succeeds, and the notices of the profile are taken for settled.         *)
PersonRuns(p) ==
    /\ May("person") /\ marker[p] = "there"
    /\ mode' = [mode EXCEPT ![p] = "sync"]
    /\ IF mode[p] = "off" THEN mem' = Unparked(mem) /\ disk' = Unparked(disk)
                          ELSE UNCHANGED <<mem, disk>>
    /\ last' = [last EXCEPT ![p] = 0] /\ before' = Synced(p)
    /\ NotePerson(p, {})
    /\ failed' = [failed EXCEPT ![p] = 0]
    /\ UNCHANGED <<clock, marker, report, loop, owed, missed, seen, started>>

(* The same in a folder whose marker is gone: switched off at once.        *)
PersonLeaves(p) ==
    /\ May("person") /\ marker[p] = "gone" /\ mode[p] = "sync"
    /\ mode' = [mode EXCEPT ![p] = "off"]
    /\ mem' = Unparked(mem) /\ disk' = Unparked(disk)
    /\ UNCHANGED <<clock, marker, outside, loop, history>>

Environment == \/ TickBlind \/ SlowChild \/ Crash \/ Standby \/ EditConfig
               \/ MarkerMoves
               \/ \E p \in Profile, o \in Outcomes : KilledInChild(p, o) \/ TickBreaks(p, o)
               \/ \E p \in Profile : PersonRuns(p)
               \/ \E p \in Profile : PersonLeaves(p)

Next == Loop \/ Environment
Spec == Init /\ [][Next]_vars

(* The loop is started at every logon and runs on.                         *)
FairSpec == Spec /\ WF_vars(Loop)
-----------------------------------------------------------------------------
Entry == [streak : Nat, mult : 1 .. MaxMult, parked : BOOLEAN,
          absent : 0 .. AbsentTicks]
State == [tick : Age \cup {None}, start : Age \cup {None}, eod : BOOLEAN,
          prof : [Profile -> Entry]]

(* Every variable stays in its domain; the period of a profile is between  *)
(* one and MaxMult intervals.                                              *)
TypeOK ==
    /\ tod \in 0 .. Day - 1 /\ day \in 0 .. Week - 1
    /\ last \in [Profile -> Age \cup {None}]
    /\ started \in [Profile -> Age \cup {None}]
    /\ before \subseteq Profile \X Profile
    /\ mode \in [Profile -> {"sync", "off"}]
    /\ marker \in [Profile -> {"there", "gone", "unsure"}]
    /\ report \in [Profile -> Report \cup {None}]
    /\ notices \subseteq Profile \X Notice
    /\ disk \in State /\ mem \in State
    /\ pc \in {"off", "tick", "run", "sleep"} /\ todo \subseteq Profile
    /\ cause \in {"idle", "sweep_start", "sweep_eod", "due"}
    /\ since \in Age /\ left \in Nat
    /\ owed \subseteq Profile
    /\ missed \in [Profile -> 0 .. AbsentTicks] /\ seen \subseteq Profile
    /\ failed \in [Profile -> 0 .. AlarmAt]

(* No exception ends a tick.  One that does leaves a begun sweep in memory *)
(* only, and a failure without its notice.                                 *)
Unbroken == "garbled" \notin Acts

(* An evening sweep counts as done for the day only when every profile had *)
(* its turn: a loop killed in the middle of it repeats it (last_eod_date   *)
(* is set before the children run and saved after them).  With Unbroken.   *)
NoSweepForgotten == disk.eod => owed = {}

(* The loop switches a profile off only when so many ticks saw its marker  *)
(* gone since the last one that came to its end and saw it otherwise, never*)
(* several at once, and switches none on.  (A tick that is killed saves    *)
(* nothing: what it saw breaks no row.)                                    *)
CautiousOff ==
    [][pc = "tick" /\ pc' = "run" =>
        LET off == {p \in Profile : mode[p] = "sync" /\ mode'[p] = "off"}
        IN  /\ Cardinality(off) <= MaxDisable
            /\ \A p \in off : missed'[p] >= AbsentTicks
            /\ \A p \in Profile : mode'[p] = "sync" => mode[p] = "sync"]_vars

(* Somebody is told of a profile that keeps failing, however its failures  *)
(* alternate (a transient one takes the notice of another back, and gives  *)
(* its own only after AlarmAt in a row: _note_outcome).  With Unbroken.    *)
PeopleCalled ==
    \A p \in Profile : failed[p] >= AlarmAt => Told(p) \cap {"held", "error"} # {}

(* The strengthening by which the three above are inductive.               *)
(* A sweep begun today is in hand as long as the loop remembers it.        *)
SweepInHand ==
    /\ mem.eod => owed \subseteq todo
    /\ pc # "run" => todo = {}
    /\ pc # "off" /\ disk.eod => mem.eod

(* No counted row of absences, saved or not, is longer than the one seen.  *)
RowsSeen ==
    /\ \A p \in Profile : /\ mem.prof[p].absent <= missed[p]
                          /\ disk.prof[p].absent <= missed[p]
    /\ \A p \in seen : mem.prof[p].absent = 0
    /\ pc # "run" => seen = {}

(* The streak of a profile is no shorter than its failures in a row, and   *)
(* its report is then one of failure: a child without a report adds to it. *)
FailuresKnown ==
    /\ \A p \in Profile : failed[p] > 0 =>
          /\ failed[p] <= mem.prof[p].streak
          /\ report[p] # None /\ report[p].fault \in {"held", "transient", "lasting"}
    /\ pc = "off" => \A p \in Profile : failed[p] = 0

IInv == /\ TypeOK /\ NoSweepForgotten /\ SweepInHand
        /\ RowsSeen /\ PeopleCalled /\ FailuresKnown

(* Every profile that is enrolled and does not rest is run again and       *)
(* again, though another one may be overdue all the time: the sweeps.      *)
EveryoneRuns ==
    \A p \in Profile :
        []<>(started[p] = 0 \/ mode[p] = "off" \/ mem.prof[p].parked)
=============================================================================
