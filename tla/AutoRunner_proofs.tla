------------------------- MODULE AutoRunner_proofs -------------------------
(***************************************************************************)
(* Proofs about AutoRunner for every number of profiles, every calendar,   *)
(* every limit and every way a child may end.                              *)
(***************************************************************************)
EXTENDS AutoRunner, FiniteSetTheorems, TLAPS

(* Ages have a longest one.                                                *)
LEMMA CapType == Cap \in Nat
BY SpanAssumption DEF Cap, AtLeast

(* The lesser and the greater of two numbers.                              *)
LEMMA LeastType ==
    ASSUME NEW a \in Nat, NEW b \in Nat
    PROVE  /\ AtMost(a, b) \in Nat /\ AtMost(a, b) <= a /\ AtMost(a, b) <= b
           /\ AtLeast(a, b) \in Nat /\ AtLeast(a, b) >= a /\ AtLeast(a, b) >= b
BY DEF AtMost, AtLeast

(* What grows older stays an age.                                          *)
LEMMA OlderType ==
    ASSUME NEW a \in Age \cup {None}, NEW d \in Nat
    PROVE  /\ Older(a, d) \in Age \cup {None}
           /\ a \in Age => Older(a, d) \in Age
<1>1. CASE a = None
  <2>1. None \notin Age
    BY CapType, DomainAssumption DEF Age
  <2> QED BY <1>1, <2>1 DEF Older
<1>2. CASE a \in Age
  <2>1. a + d \in Nat /\ a # None
    BY <1>2, CapType, DomainAssumption DEF Age
  <2>2. AtMost(a + d, Cap) \in Age
    BY <2>1, CapType DEF AtMost, Age
  <2> QED BY <2>1, <2>2 DEF Older
<1> QED BY <1>1, <1>2

(* Time touches no profile's entry, and the sweep only at midnight.        *)
LEMMA LaterType ==
    ASSUME NEW st \in State, NEW d \in Nat
    PROVE  /\ Later(st, d) \in State
           /\ Later(st, d).prof = st.prof
           /\ Later(st, d).eod => st.eod /\ ~Midnight(d)
           /\ st.eod /\ ~Midnight(d) => Later(st, d).eod
<1>1. Older(st.tick, d) \in Age \cup {None} /\ Older(st.start, d) \in Age \cup {None}
  BY OlderType DEF State
<1>2. (st.eod /\ ~Midnight(d)) \in BOOLEAN
  BY DEF State
<1> QED BY <1>1, <1>2, Zenon DEF Later, State

(* One tick-length of time keeps what it touches in its domain.            *)
LEMMA ElapseType ==
    ASSUME TypeOK, NEW d \in Nat, Elapse(d)
    PROVE  /\ tod' \in 0 .. Day - 1 /\ day' \in 0 .. Week - 1
           /\ last' \in [Profile -> Age \cup {None}]
           /\ started' \in [Profile -> Age \cup {None}]
           /\ disk' \in State /\ mem' \in State
           /\ mem'.prof = mem.prof /\ disk'.prof = disk.prof
           /\ owed' \subseteq Profile
<1>1. tod' \in 0 .. Day - 1 /\ day' \in 0 .. Week - 1
  BY SpanAssumption DEF TypeOK, Elapse, Clock, Midnight
<1>2. \A p \in Profile : /\ Older(last[p], d) \in Age \cup {None}
                         /\ Older(started[p], d) \in Age \cup {None}
  BY OlderType DEF TypeOK
<1>3. /\ disk' \in State /\ mem' \in State
      /\ mem'.prof = mem.prof /\ disk'.prof = disk.prof
  BY LaterType DEF TypeOK, Elapse
<1> QED BY <1>1, <1>2, <1>3 DEF TypeOK, Elapse
-----------------------------------------------------------------------------
(* The helpers keep their types.                                           *)

(* A loop without a state file begins in State.                            *)
LEMMA FreshType == FreshState \in State
<1>1. FreshEntry \in Entry
  BY SpanAssumption, LimitAssumption DEF FreshEntry, Entry
<1> QED BY <1>1 DEF FreshState, State

(* Forgetting who rests changes nothing else.                              *)
LEMMA UnparkedType ==
    ASSUME NEW st \in State
    PROVE  /\ Unparked(st) \in State /\ Unparked(st).eod = st.eod
           /\ \A p \in Profile :
                  /\ Unparked(st).prof[p].streak = st.prof[p].streak
                  /\ Unparked(st).prof[p].absent = st.prof[p].absent
<1>1. \A p \in Profile : [st.prof[p] EXCEPT !.parked = FALSE] \in Entry
  BY DEF State, Entry
<1> QED BY <1>1 DEF Unparked, State, Entry

(* A row of absences stops at AbsentTicks.                                 *)
LEMMA AbsentType ==
    ASSUME TypeOK, NEW p \in Profile
    PROVE  AbsentAfter(p) \in 0 .. AbsentTicks
BY LimitAssumption DEF AbsentAfter, AtMost, TypeOK, State, Entry

(* Reconciling the markers changes absences and rests only.                *)
LEMMA ReconciledType ==
    ASSUME TypeOK
    PROVE  /\ Reconciled \in [Profile -> Entry]
           /\ \A p \in Profile : Reconciled[p].absent
                 = IF p \in Names THEN AbsentAfter(p) ELSE mem.prof[p].absent
           /\ \A p \in Profile : Reconciled[p].streak = mem.prof[p].streak
<1>1. \A p \in Profile : mem.prof[p] \in Entry /\ AbsentAfter(p) \in 0 .. AbsentTicks
  BY AbsentType DEF TypeOK, State
<1>2. (Disabled = {}) \in BOOLEAN
  OBVIOUS
<1> QED BY <1>1, <1>2 DEF Reconciled, Entry

(* An evening sweep is decided only if none was today.                     *)
LEMMA DecideType ==
    ASSUME NEW names \in SUBSET Profile
    PROVE  /\ Decide(names).kind \in {"idle", "sweep_start", "sweep_eod", "due"}
           /\ Decide(names).run \subseteq Profile
           /\ Decide(names).kind = "sweep_eod" => ~mem.eod
<1>1. LongestDue(names) \subseteq Profile
  BY DEF LongestDue, Due
<1> QED BY <1>1 DEF Decide, Evening

(* A failure lengthens the streak, up to what is ever compared with.       *)
LEMMA StreakType ==
    ASSUME TypeOK, NEW p \in Profile, NEW kind
    PROVE  /\ StreakAfter(p, kind) \in Nat
           /\ kind \notin {"ok", "locked"} =>
                 \A n \in 0 .. AlarmAt : n <= mem.prof[p].streak + 1
                                             => n <= StreakAfter(p, kind)
BY LimitAssumption DEF StreakAfter, AtMost, AtLeast, TypeOK, State, Entry

(* The period stays within its limits.                                     *)
LEMMA MultType ==
    ASSUME TypeOK, NEW p \in Profile, NEW kind, NEW r
    PROVE  MultAfter(p, kind, r) \in 1 .. MaxMult
<1> DEFINE m == mem.prof[p].mult
<1>1. m \in 1 .. MaxMult /\ MaxMult \in Nat
  BY SpanAssumption DEF TypeOK, State, Entry
<1>2. AtMost(MaxMult, 2 * m) \in 1 .. MaxMult
  BY <1>1 DEF AtMost
<1>3. AtLeast(1, (3 * m) \div 4) \in 1 .. MaxMult
  BY <1>1 DEF AtLeast
<1> QED BY <1>1, <1>2, <1>3, Zenon DEF MultAfter

LEMMA EntryType ==
    ASSUME TypeOK, NEW p \in Profile, NEW kind, NEW r
    PROVE  EntryAfter(p, kind, r) \in Entry
<1>1. mem.prof[p] \in Entry
  BY DEF TypeOK, State
<1>2. (kind = "config") \in BOOLEAN
  OBVIOUS
<1> QED BY <1>1, <1>2, StreakType, MultType DEF EntryAfter, Entry

LEMMA OutcomeType == Outcomes \cup {Refused} \subseteq Outcome
<1>1. Refused.rep \in Report
  BY DEF Refused, Report, Fault
<1>2. Refused \in Outcome
  BY <1>1 DEF Refused, Outcome
<1> QED BY <1>2, DomainAssumption

LEMMA ReportType ==
    ASSUME TypeOK, NEW p \in Profile, NEW o \in Outcome
    PROVE  ReportAfter(p, o) \in Report \cup {None}
BY DEF ReportAfter, Outcome, TypeOK

LEMMA StampedType ==
    ASSUME TypeOK, NEW p \in Profile, NEW o, Stamped(p, o)
    PROVE  last' \in [Profile -> Age \cup {None}] /\ before' \subseteq Profile \X Profile
<1>1. 0 \in Age
  BY CapType DEF Age
<1>2. Synced(p) \subseteq Profile \X Profile
  BY DEF Synced, TypeOK
<1> QED BY <1>1, <1>2 DEF Stamped, TypeOK

LEMMA NoticesType ==
    ASSUME NEW p \in Profile, NEW kind \in Fault, NEW r \in Report \cup {None}
    PROVE  NoticesOf(p, kind, r) \subseteq Notice
<1>1. Waiting(r) \subseteq Notice /\ Told(p) \subseteq Notice
  BY DEF Waiting, Report, Waits, Notice, Told
<1>2. {"held", "config", "error"} \subseteq Notice
  BY DEF Notice
<1> QED BY <1>1, <1>2 DEF NoticesOf, Fault

(* The notices of one profile are replaced, the others stay.               *)
LEMMA NotePersonType ==
    ASSUME TypeOK, NEW p \in Profile, NEW kinds \in SUBSET Notice, NotePerson(p, kinds)
    PROVE  /\ notices' \subseteq Profile \X Notice
           /\ Told(p)' = kinds
           /\ \A q \in Profile \ {p} : Told(q)' = Told(q)
BY DEF TypeOK, NotePerson, Told

LEMMA ClassifiedType ==
    ASSUME TypeOK, NEW p \in Profile, NEW o \in Outcome
    PROVE  Classified(p, o) \in Fault
BY DEF Classified, ReportAfter, TypeOK, Outcome, Report

LEMMA FailedType ==
    ASSUME TypeOK, NEW p \in Profile, NEW o
    PROVE  FailedAfter(p, o) \in 0 .. AlarmAt
BY LimitAssumption DEF FailedAfter, AtMost, TypeOK
-----------------------------------------------------------------------------
(* Type correctness, one action at a time.                                 *)

LEMMA TickTypes ==
    ASSUME TypeOK, NEW unread, TickWith(unread), left' \in Nat
    PROVE  TypeOK'
<1> DEFINE d == Decide(Names \ unread)
<1>1. Names \ unread \in SUBSET Profile
  BY DEF Names
<1>2. /\ d.kind \in {"idle", "sweep_start", "sweep_eod", "due"}
      /\ d.run \subseteq Profile
  BY <1>1, DecideType
<1>3. 0 \in Age
  BY CapType DEF Age
<1>4. mem' \in State
  <2>1. (mem.eod \/ d.kind = "sweep_eod") \in BOOLEAN
    BY DEF TypeOK, State
  <2>2. mem \in State /\ mem' = [mem EXCEPT !.prof = Reconciled,
            !.start = IF d.kind = "sweep_start" THEN 0 ELSE @,
            !.eod = @ \/ d.kind = "sweep_eod"]
    BY Zenon DEF TickWith, TypeOK
  <2> HIDE DEF d
  <2> QED BY <2>1, <2>2, <1>3, ReconciledType DEF State
<1>5. disk' \in State
  <2>1. disk' = disk \/ disk' = Unparked(disk)
    BY DEF TickWith, Unparked
  <2> QED BY <2>1, UnparkedType DEF TypeOK
<1>6. mode' \in [Profile -> {"sync", "off"}]
  BY DEF TickWith, TypeOK
<1>7. /\ missed' \in [Profile -> 0 .. AbsentTicks] /\ seen' \subseteq Profile
      /\ owed' \subseteq Profile
  BY <1>2, LimitAssumption DEF TickWith, TypeOK, AtMost, Names
<1>8. pc' = "run" /\ cause' = d.kind /\ todo' = d.run /\ since' = 0
  BY DEF TickWith
<1>9. UNCHANGED <<tod, day, marker, last, before, report, notices, failed, started>>
  BY DEF TickWith, clock, outside
<1> HIDE DEF d
<1> QED BY <1>2, <1>3, <1>4, <1>5, <1>6, <1>7, <1>8, <1>9 DEF TypeOK

LEMMA EndsTypes ==
    ASSUME TypeOK, NEW p \in Profile, NEW o \in Outcome, ChildEnds(p, o)
    PROVE  /\ last' \in [Profile -> Age \cup {None}] /\ before' \subseteq Profile \X Profile
           /\ mem' \in State /\ report' \in [Profile -> Report \cup {None}]
           /\ failed' \in [Profile -> 0 .. AlarmAt]
           /\ started' \in [Profile -> Age \cup {None}] /\ owed' \subseteq Profile
           /\ UNCHANGED <<tod, day, mode, marker, disk, cause, since, missed>>
<1> DEFINE kind == Classified(p, o)
           r    == ReportAfter(p, o)
<1>1. kind \in Fault /\ r \in Report \cup {None}
  BY ClassifiedType, ReportType
<1>2. last' \in [Profile -> Age \cup {None}] /\ before' \subseteq Profile \X Profile
  BY StampedType DEF ChildEnds
<1>3. mem' \in State
  <2>1. mem \in State /\ EntryAfter(p, kind, r) \in Entry
    BY EntryType DEF TypeOK
  <2>2. mem' = [mem EXCEPT !.prof[p] = EntryAfter(p, kind, r)]
    BY DEF ChildEnds
  <2> HIDE DEF kind, r
  <2> QED BY <2>1, <2>2 DEF State
<1>4. report' \in [Profile -> Report \cup {None}]
  BY <1>1 DEF ChildEnds, TypeOK
<1>5. /\ failed' \in [Profile -> 0 .. AlarmAt]
      /\ started' \in [Profile -> Age \cup {None}]
  BY FailedType, CapType DEF ChildEnds, TypeOK, Age
<1>6. /\ owed' \subseteq Profile
      /\ UNCHANGED <<tod, day, mode, marker, disk, cause, since, missed>>
  BY DEF ChildEnds, TypeOK, clock, world
<1> QED BY <1>2, <1>3, <1>4, <1>5, <1>6

LEMMA RunTypes ==
    ASSUME TypeOK, NEW p \in Profile, NEW o \in Outcome, RunChild(p, o)
    PROVE  TypeOK'
<1> DEFINE kind == Classified(p, o)
           r    == ReportAfter(p, o)
<1>1. kind \in Fault /\ r \in Report \cup {None}
  BY ClassifiedType, ReportType
<1>2. NoticesOf(p, kind, r) \subseteq Notice /\ NotePerson(p, NoticesOf(p, kind, r))
  BY <1>1, NoticesType DEF RunChild
<1>3. notices' \subseteq Profile \X Notice
  BY <1>2, NotePersonType
<1>4. /\ todo' \subseteq Profile /\ left' \in Nat /\ UNCHANGED <<pc, seen>>
  BY DEF RunChild, TypeOK, MayEnd, Spend
<1> QED BY <1>3, <1>4, EndsTypes DEF RunChild, TypeOK

LEMMA BreaksTypes ==
    ASSUME TypeOK, NEW p \in Profile, NEW o \in Outcome, TickBreaks(p, o)
    PROVE  TypeOK'
<1>1. /\ todo' = {} /\ seen' = {} /\ pc' = "sleep" /\ notices' = notices /\ left' \in Nat
  BY DEF TickBreaks, TypeOK, May, Spend
<1> QED BY <1>1, EndsTypes DEF TickBreaks, TypeOK

LEMMA PassingTypes ==
    ASSUME TypeOK, SlowChild \/ Sleep \/ Standby
    PROVE  TypeOK'
<1>1. PICK d \in {1, Gap} : Elapse(d)
  BY DEF SlowChild, Sleep, Standby
<1>2. 1 \in Nat /\ Gap \in Nat
  BY SpanAssumption
<1>3. /\ tod' \in 0 .. Day - 1 /\ day' \in 0 .. Week - 1
      /\ last' \in [Profile -> Age \cup {None}]
      /\ started' \in [Profile -> Age \cup {None}]
      /\ disk' \in State /\ mem' \in State /\ owed' \subseteq Profile
  BY <1>1, <1>2, ElapseType
<1>4. since' \in Age
  BY <1>2, OlderType DEF TypeOK, SlowChild, Sleep, Standby, loop
<1>5. left' \in Nat /\ pc' \in {"off", "tick", "run", "sleep"}
  BY DEF TypeOK, SlowChild, Sleep, Standby, May, Spend, loop
<1>6. UNCHANGED <<before, report, notices, mode, marker, todo, cause, missed,
                  seen, failed>>
  BY DEF SlowChild, Sleep, Standby, world, loop
<1> QED BY <1>3, <1>4, <1>5, <1>6 DEF TypeOK

LEMMA DownTypes ==
    ASSUME TypeOK, Down,
           last' \in [Profile -> Age \cup {None}], before' \subseteq Profile \X Profile,
           report' \in [Profile -> Report \cup {None}]
    PROVE  TypeOK'
<1>1. mem' \in State /\ 0 \in Age
  BY FreshType, CapType DEF Down, Age
<1>2. failed' \in [Profile -> 0 .. AlarmAt] /\ left' \in Nat
  BY LimitAssumption DEF Down, May, Spend, TypeOK
<1>3. pc' = "off" /\ todo' = {} /\ cause' = "idle" /\ since' = 0 /\ seen' = {}
  BY DEF Down
<1>4. UNCHANGED <<tod, day, mode, marker, notices, disk, owed, missed, started>>
  BY DEF Down, clock, world
<1> QED BY <1>1, <1>2, <1>3, <1>4 DEF TypeOK

LEMMA PeopleTypes ==
    ASSUME TypeOK, EditConfig \/ MarkerMoves
                     \/ \E p \in Profile : PersonRuns(p) \/ PersonLeaves(p)
    PROVE  TypeOK'
<1>1. mem' \in State /\ disk' \in State
  BY UnparkedType DEF TypeOK, EditConfig, MarkerMoves, PersonRuns, PersonLeaves
<1>2. left' \in Nat
  BY DEF TypeOK, EditConfig, MarkerMoves, PersonRuns, PersonLeaves, May, Spend
<1>3. CASE EditConfig
  BY <1>1, <1>2, <1>3 DEF EditConfig, TypeOK, clock, world, outside, loop, history
<1>4. CASE MarkerMoves
  BY <1>1, <1>2, <1>4 DEF MarkerMoves, TypeOK, clock, outside, loop, history
<1>5. ASSUME NEW p \in Profile, PersonRuns(p)
      PROVE  TypeOK'
  <2>1. notices' \subseteq Profile \X Notice
    BY <1>5, NotePersonType DEF PersonRuns
  <2>2. 0 \in Age /\ Synced(p) \subseteq Profile \X Profile
    BY CapType DEF Age, Synced, TypeOK
  <2> QED BY <1>1, <1>2, <1>5, <2>1, <2>2, LimitAssumption
        DEF PersonRuns, TypeOK, clock, loop
<1>6. ASSUME NEW p \in Profile, PersonLeaves(p)
      PROVE  TypeOK'
  BY <1>1, <1>2, <1>6 DEF PersonLeaves, TypeOK, clock, outside, loop, history
<1> QED BY <1>3, <1>4, <1>5, <1>6

LEMMA TypeInit == Init => TypeOK
<1>1. 0 \in Age /\ FreshState \in State
  BY CapType, FreshType DEF Age
<1> QED BY <1>1, SpanAssumption, LimitAssumption DEF Init, TypeOK

LEMMA TypeStep == TypeOK /\ [Next]_vars => TypeOK'
<1> SUFFICES ASSUME TypeOK, [Next]_vars
             PROVE  TypeOK'
  OBVIOUS
<1>1. CASE StartLoop
  BY <1>1 DEF StartLoop, TypeOK, clock, world, outside, history
<1>2. CASE Tick
  BY <1>2, TickTypes DEF Tick, TypeOK
<1>3. CASE TickBlind
  BY <1>3, TickTypes DEF TickBlind, May, Spend, TypeOK
<1>4. CASE EndTick
  <2>1. mem' \in State
    BY <1>4 DEF EndTick, TypeOK, State
  <2>2. missed' \in [Profile -> 0 .. AbsentTicks] /\ seen' = {}
    BY <1>4, LimitAssumption DEF EndTick, Counted, TypeOK
  <2> QED BY <1>4, <2>1, <2>2 DEF EndTick, TypeOK, clock, world, outside
<1>5. CASE SlowChild \/ Sleep \/ Standby
  BY <1>5, PassingTypes
<1>6. ASSUME NEW p \in Profile, SkipParked(p)
      PROVE  TypeOK'
  BY <1>6 DEF SkipParked, TypeOK, clock, world, outside
<1>7. ASSUME NEW p \in Profile, NEW o \in Outcomes \cup {Refused}, RunChild(p, o)
      PROVE  TypeOK'
  BY <1>7, OutcomeType, RunTypes
<1>8. CASE Crash
  BY <1>8, DownTypes DEF Crash, TypeOK
<1>9. ASSUME NEW p \in Profile, NEW o \in Outcomes, KilledInChild(p, o)
      PROVE  TypeOK'
  <2>1. report' \in [Profile -> Report \cup {None}]
    BY <1>9, OutcomeType, ReportType DEF KilledInChild, TypeOK
  <2> QED BY <1>9, <2>1, StampedType, DownTypes DEF KilledInChild
<1>10. CASE EditConfig \/ MarkerMoves
              \/ \E p \in Profile : PersonRuns(p) \/ PersonLeaves(p)
  BY <1>10, PeopleTypes
<1>11. CASE UNCHANGED vars
  BY <1>11 DEF vars, clock, world, outside, loop, history, TypeOK
<1>12. ASSUME NEW p \in Profile, NEW o \in Outcomes, TickBreaks(p, o)
      PROVE  TypeOK'
  BY <1>12, OutcomeType, BreaksTypes
<1> QED
  BY <1>1, <1>2, <1>3, <1>4, <1>5, <1>6, <1>7, <1>8, <1>9, <1>10, <1>11, <1>12
  DEF Next, Loop, Environment

(* Every variable of the loop, the state file and the outside keeps its    *)
(* domain; a period never leaves 1 .. MaxMult intervals.                   *)
THEOREM TypeCorrect == Spec => []TypeOK
BY TypeInit, TypeStep, PTL DEF Spec
-----------------------------------------------------------------------------
(* The evening sweep.                                                      *)
SweepInv == NoSweepForgotten /\ SweepInHand

LEMMA SweepInit == Init => SweepInv
BY DEF Init, SweepInv, NoSweepForgotten, SweepInHand, FreshState

(* An evening sweep is begun with every profile still to run.              *)
LEMMA TickSweeps ==
    ASSUME TypeOK, SweepInv, NEW unread, TickWith(unread)
    PROVE  SweepInv'
<1> DEFINE d == Decide(Names \ unread)
<1>1. d.kind = "sweep_eod" => ~mem.eod
  BY DecideType DEF Names
<1>2. /\ mem'.eod = (mem.eod \/ d.kind = "sweep_eod")
      /\ disk'.eod = disk.eod
  BY DEF TickWith, TypeOK, State
<1>3. /\ todo' = d.run /\ pc = "tick" /\ pc' = "run"
      /\ owed' = IF d.kind = "sweep_eod" THEN d.run ELSE owed
  BY DEF TickWith
<1> HIDE DEF d
<1>4. CASE d.kind = "sweep_eod"
  BY <1>1, <1>2, <1>3, <1>4 DEF SweepInv, NoSweepForgotten, SweepInHand
<1>5. CASE d.kind # "sweep_eod"
  BY <1>2, <1>3, <1>5 DEF SweepInv, NoSweepForgotten, SweepInHand
<1> QED BY <1>4, <1>5

(* Midnight ends a sweep in memory and on disk alike.                      *)
LEMMA ElapseSweeps ==
    ASSUME TypeOK, SweepInv, NEW d \in Nat, Elapse(d),
           todo' = todo, pc' = "run" => pc = "run", pc = "run" => pc' = "run",
           pc' # "off" => pc # "off"
    PROVE  SweepInv'
<1>1. /\ disk'.eod => disk.eod /\ ~Midnight(d)
      /\ mem'.eod => mem.eod /\ ~Midnight(d)
      /\ mem.eod /\ ~Midnight(d) => mem'.eod
  BY LaterType DEF TypeOK, Elapse
<1>2. owed' = IF Midnight(d) THEN {} ELSE owed
  BY DEF Elapse
<1> QED BY <1>1, <1>2 DEF SweepInv, NoSweepForgotten, SweepInHand

LEMMA SweepStep ==
    ASSUME Unbroken, TypeOK, SweepInv, [Next]_vars
    PROVE  SweepInv'
<1> USE DEF SweepInv, NoSweepForgotten, SweepInHand
<1>1. CASE StartLoop
  BY <1>1 DEF StartLoop, history
<1>2. CASE Tick \/ TickBlind
  <2>1. PICK unread : TickWith(unread)
    BY <1>2 DEF Tick, TickBlind
  <2> QED BY <2>1, TickSweeps
<1>3. CASE EndTick
  <2>1. mem'.eod = mem.eod /\ disk' = mem'
    BY <1>3 DEF EndTick, TypeOK, State
  <2> QED BY <1>3, <2>1 DEF EndTick
<1>4. CASE SlowChild \/ Sleep \/ Standby
  <2>1. PICK d \in Nat : Elapse(d)
    BY <1>4, SpanAssumption DEF SlowChild, Sleep, Standby
  <2> QED BY <1>4, <2>1, ElapseSweeps DEF SlowChild, Sleep, Standby, loop
<1>5. ASSUME NEW p \in Profile, SkipParked(p)
      PROVE  SweepInv'
  BY <1>5 DEF SkipParked, Turn
<1>6. ASSUME NEW p \in Profile, NEW o, RunChild(p, o)
      PROVE  SweepInv'
  <2>1. mem'.eod = mem.eod
    BY <1>6 DEF RunChild, ChildEnds, TypeOK, State
  <2> QED BY <1>6, <2>1 DEF RunChild, ChildEnds, Turn
<1>7. CASE Down
  BY <1>7 DEF Down, FreshState
<1>8. CASE EditConfig \/ MarkerMoves
             \/ \E p \in Profile : PersonRuns(p) \/ PersonLeaves(p)
  <2>1. mem'.eod = mem.eod /\ disk'.eod = disk.eod
    BY <1>8, UnparkedType
    DEF TypeOK, EditConfig, MarkerMoves, PersonRuns, PersonLeaves
  <2>2. UNCHANGED <<pc, todo, owed>>
    BY <1>8 DEF EditConfig, MarkerMoves, PersonRuns, PersonLeaves, loop, history
  <2> QED BY <2>1, <2>2
<1>9. CASE UNCHANGED vars
  BY <1>9 DEF vars, loop, history
<1> QED
  BY <1>1, <1>2, <1>3, <1>4, <1>5, <1>6, <1>7, <1>8, <1>9
  DEF Next, Loop, Environment, Crash, KilledInChild, TickBreaks, May, Unbroken

(* An evening sweep is saved as done only when every profile had its turn, *)
(* wherever the loop is killed, if no exception ends a tick.               *)
THEOREM SweepsComplete ==
    ASSUME Unbroken
    PROVE  Spec => []NoSweepForgotten
<1>1. TypeOK /\ SweepInv /\ [Next]_vars => (TypeOK /\ SweepInv)'
  BY TypeStep, SweepStep
<1>2. SweepInv => NoSweepForgotten
  BY DEF SweepInv
<1> QED BY TypeInit, SweepInit, <1>1, <1>2, PTL DEF Spec
-----------------------------------------------------------------------------
(* Switching off.                                                          *)

LEMMA RowsInit == Init => RowsSeen
BY LimitAssumption DEF Init, RowsSeen, FreshState, FreshEntry

(* A tick counts no absence that it does not see.                          *)
LEMMA TickRows ==
    ASSUME TypeOK, RowsSeen, NEW unread, TickWith(unread)
    PROVE  /\ RowsSeen'
           /\ \A p \in Disabled : missed'[p] >= AbsentTicks
<1>1. ASSUME NEW p \in Profile
      PROVE  /\ mem'.prof[p].absent = IF p \in Names THEN AbsentAfter(p)
                                                     ELSE mem.prof[p].absent
             /\ disk'.prof[p].absent = disk.prof[p].absent
             /\ missed'[p] = IF p \in Names /\ marker[p] = "gone"
                             THEN AtMost(missed[p] + 1, AbsentTicks) ELSE missed[p]
  <2>1. mem'.prof = Reconciled
    BY DEF TickWith, TypeOK, State
  <2>2. disk' = disk \/ disk' = Unparked(disk)
    BY DEF TickWith, Unparked
  <2>3. disk'.prof[p].absent = disk.prof[p].absent
    BY <2>2, UnparkedType DEF TypeOK
  <2> QED BY <2>1, <2>3, ReconciledType DEF TickWith
<1>2. ASSUME NEW p \in Profile
      PROVE  /\ missed[p] \in 0 .. AbsentTicks
             /\ mem.prof[p].absent \in 0 .. AbsentTicks
             /\ disk.prof[p].absent \in 0 .. AbsentTicks
             /\ mem.prof[p].absent <= missed[p]
             /\ disk.prof[p].absent <= missed[p]
  BY DEF TypeOK, State, Entry, RowsSeen
<1>3. ASSUME NEW p \in Profile
      PROVE  /\ mem'.prof[p].absent <= missed'[p]
             /\ disk'.prof[p].absent <= missed'[p]
  BY <1>1, <1>2, LimitAssumption DEF AbsentAfter, AtMost
<1>4. \A p \in seen' : mem'.prof[p].absent = 0
  BY <1>1 DEF TickWith, AbsentAfter, Names
<1>5. ASSUME NEW p \in Disabled
      PROVE  missed'[p] >= AbsentTicks
  <2>1. p \in Profile /\ p \in Names /\ AbsentAfter(p) >= AbsentTicks
    BY DEF Disabled, Names
  <2>2. AbsentAfter(p) \in 0 .. AbsentTicks /\ missed'[p] \in 0 .. AbsentTicks
    BY <2>1, AbsentType, <1>1, <1>2, LimitAssumption DEF AtMost
  <2> QED BY <2>1, <2>2, <1>1, <1>3, LimitAssumption
<1> QED BY <1>3, <1>4, <1>5 DEF RowsSeen, TickWith

LEMMA RowsStep == TypeOK /\ RowsSeen /\ [Next]_vars => RowsSeen'
<1> SUFFICES ASSUME TypeOK, RowsSeen, [Next]_vars
             PROVE  RowsSeen'
  OBVIOUS
<1>1. CASE StartLoop
  BY <1>1 DEF StartLoop, RowsSeen, history
<1>2. CASE Tick \/ TickBlind
  BY <1>2, TickRows DEF Tick, TickBlind
<1>3. CASE EndTick
  <2>1. mem'.prof = mem.prof /\ disk' = mem'
    BY <1>3 DEF EndTick, TypeOK, State
  <2>2. missed' = [p \in Profile |-> IF p \in seen THEN 0 ELSE missed[p]]
    BY <1>3 DEF EndTick, Counted
  <2>3. \A p \in Profile : mem.prof[p].absent <= missed'[p]
    BY <2>2 DEF RowsSeen
  <2> QED BY <1>3, <2>1, <2>3 DEF EndTick, Counted, RowsSeen
<1>4. CASE SlowChild \/ Sleep \/ Standby
  <2>1. PICK d \in Nat : Elapse(d)
    BY <1>4, SpanAssumption DEF SlowChild, Sleep, Standby
  <2>2. mem'.prof = mem.prof /\ disk'.prof = disk.prof
    BY <2>1, ElapseType
  <2>3. UNCHANGED <<missed, seen>> /\ (pc' # "run" => pc # "run")
    BY <1>4 DEF SlowChild, Sleep, Standby, loop
  <2> QED BY <2>2, <2>3 DEF RowsSeen
<1>5. ASSUME NEW p \in Profile, SkipParked(p)
      PROVE  RowsSeen'
  BY <1>5 DEF SkipParked, RowsSeen
<1>6. ASSUME NEW p \in Profile, NEW o, RunChild(p, o)
      PROVE  RowsSeen'
  <2>1. \A q \in Profile : mem'.prof[q].absent = mem.prof[q].absent
    BY <1>6 DEF RunChild, ChildEnds, EntryAfter, TypeOK, State, Entry
  <2>2. UNCHANGED <<disk, missed, seen, pc>>
    BY <1>6 DEF RunChild, ChildEnds
  <2> QED BY <2>1, <2>2 DEF RowsSeen, TypeOK
<1>7. CASE Down
  <2>1. \A p \in Profile : mem'.prof[p].absent = 0
    BY <1>7 DEF Down, FreshState, FreshEntry
  <2>2. UNCHANGED <<disk, missed>> /\ seen' = {}
    BY <1>7 DEF Down
  <2> QED BY <2>1, <2>2 DEF RowsSeen, TypeOK
<1>8. CASE EditConfig \/ MarkerMoves
             \/ \E p \in Profile : PersonRuns(p) \/ PersonLeaves(p)
  <2>1. \A p \in Profile : /\ mem'.prof[p].absent = mem.prof[p].absent
                           /\ disk'.prof[p].absent = disk.prof[p].absent
    BY <1>8, UnparkedType
    DEF TypeOK, EditConfig, MarkerMoves, PersonRuns, PersonLeaves
  <2>2. UNCHANGED <<missed, seen, pc>>
    BY <1>8 DEF EditConfig, MarkerMoves, PersonRuns, PersonLeaves, loop, history
  <2> QED BY <2>1, <2>2 DEF RowsSeen, TypeOK
<1>9. CASE UNCHANGED vars
  BY <1>9 DEF vars, loop, history, RowsSeen
<1>10. ASSUME NEW p \in Profile, NEW o, TickBreaks(p, o)
      PROVE  RowsSeen'
  <2>1. \A q \in Profile : mem'.prof[q].absent = mem.prof[q].absent
    BY <1>10 DEF TickBreaks, ChildEnds, EntryAfter, TypeOK, State, Entry
  <2>2. UNCHANGED <<disk, missed>> /\ seen' = {}
    BY <1>10 DEF TickBreaks, ChildEnds
  <2> QED BY <2>1, <2>2 DEF RowsSeen, TypeOK
<1> QED
  BY <1>1, <1>2, <1>3, <1>4, <1>5, <1>6, <1>7, <1>8, <1>9, <1>10
  DEF Next, Loop, Environment, Crash, KilledInChild

(* What one step may switch off.                                           *)
OffNow == {p \in Profile : mode[p] = "sync" /\ mode'[p] = "off"}

(* A tick disables no group of profiles.                                   *)
LEMMA FewDisabled == Cardinality(Disabled) <= MaxDisable
<1> DEFINE pending == {p \in Names : AbsentAfter(p) >= AbsentTicks}
<1>1. pending \subseteq Profile
  BY DEF Names
<1>2. Cardinality(pending) \in Nat
  BY <1>1, ProfileAssumption, FS_Subset, FS_CardinalityType
<1>3. Cardinality({}) = 0
  BY FS_EmptySet
<1> HIDE DEF pending
<1>4. Disabled = IF Cardinality(pending) > MaxDisable THEN {} ELSE pending
  BY DEF Disabled, pending
<1> QED BY <1>2, <1>3, <1>4, LimitAssumption

(* What a tick switches off had its full row of absences.                  *)
LEMMA TickOff ==
    ASSUME TypeOK, RowsSeen, NEW unread, TickWith(unread)
    PROVE  /\ Cardinality(OffNow) <= MaxDisable
           /\ \A p \in OffNow : missed'[p] >= AbsentTicks
           /\ \A p \in Profile : mode'[p] = "sync" => mode[p] = "sync"
<1>1. mode' = [p \in Profile |-> IF p \in Disabled THEN "off" ELSE mode[p]]
  BY DEF TickWith
<1>2. OffNow = Disabled
  BY <1>1 DEF OffNow, Disabled, Names
<1> QED BY <1>1, <1>2, FewDisabled, TickRows

(* A profile is switched off by the loop only for a full row of absences,  *)
(* and never more than MaxDisable at a time: no other step leads from the  *)
(* start of a tick to its children.                                        *)
THEOREM SwitchedOffCautiously == Spec => CautiousOff
<1> DEFINE Step == pc = "tick" /\ pc' = "run" =>
               /\ Cardinality(OffNow) <= MaxDisable
               /\ \A p \in OffNow : missed'[p] >= AbsentTicks
               /\ \A p \in Profile : mode'[p] = "sync" => mode[p] = "sync"
<1>1. TypeOK /\ RowsSeen /\ [Next]_vars => (TypeOK /\ RowsSeen)'
  BY TypeStep, RowsStep
<1>2. ASSUME TypeOK, RowsSeen, [Next]_vars
      PROVE  [Step]_vars
  <2>1. SUFFICES ASSUME Next, pc = "tick", pc' = "run"
                 PROVE  \E unread : TickWith(unread)
    BY <1>2, TickOff
  <2>2. ~(StartLoop \/ EndTick \/ Sleep \/ SlowChild \/ Crash \/ Standby)
    BY <2>1 DEF StartLoop, EndTick, Sleep, SlowChild, Crash, Down, Standby, loop
  <2>3. ~(EditConfig \/ MarkerMoves)
    BY <2>1 DEF EditConfig, MarkerMoves, loop
  <2>4. ASSUME NEW p \in Profile
        PROVE  ~(SkipParked(p) \/ PersonRuns(p) \/ PersonLeaves(p))
    BY <2>1 DEF SkipParked, Turn, PersonRuns, PersonLeaves, loop
  <2>5. ASSUME NEW p \in Profile, NEW o
        PROVE  ~(RunChild(p, o) \/ KilledInChild(p, o) \/ TickBreaks(p, o))
    BY <2>1 DEF RunChild, ChildEnds, Turn, KilledInChild, Down, TickBreaks
  <2> QED BY <2>1, <2>2, <2>3, <2>4, <2>5
        DEF Next, Loop, Environment, Tick, TickBlind
<1>3. [Step]_vars => [pc = "tick" /\ pc' = "run" =>
        LET off == {p \in Profile : mode[p] = "sync" /\ mode'[p] = "off"}
        IN  /\ Cardinality(off) <= MaxDisable
            /\ \A p \in off : missed'[p] >= AbsentTicks
            /\ \A p \in Profile : mode'[p] = "sync" => mode[p] = "sync"]_vars
  BY DEF OffNow
<1> QED BY TypeInit, RowsInit, <1>1, <1>2, <1>3, PTL DEF Spec, CautiousOff
-----------------------------------------------------------------------------
(* Telling people.                                                         *)
Failure == {"held", "transient", "lasting"}
CallInv == PeopleCalled /\ FailuresKnown

LEMMA CallInit == Init => CallInv
BY LimitAssumption DEF Init, CallInv, PeopleCalled, FailuresKnown

(* The end of a child leaves a profile that fails with its streak, its     *)
(* report and, once it has failed often enough, its notice.                *)
LEMMA RunCalls ==
    ASSUME TypeOK, CallInv, NEW p \in Profile, NEW o \in Outcomes \cup {Refused},
           RunChild(p, o)
    PROVE  CallInv'
<1> DEFINE kind == Classified(p, o)
           r    == ReportAfter(p, o)
<1>1. /\ o \in Outcome /\ kind \in Fault /\ r \in Report \cup {None}
      /\ o.written => o.rep.fault \notin {"config", "locked"}
  BY OutcomeType, ClassifiedType, ReportType, DomainAssumption DEF Refused
<1>2. NoticesOf(p, kind, r) \subseteq Notice /\ NotePerson(p, NoticesOf(p, kind, r))
  BY <1>1, NoticesType DEF RunChild, ChildEnds
<1>3. /\ Told(p)' = NoticesOf(p, kind, r)
      /\ \A q \in Profile \ {p} : Told(q)' = Told(q)
  BY <1>2, NotePersonType
<1>4. /\ \A q \in Profile \ {p} : mem'.prof[q] = mem.prof[q]
      /\ mem'.prof[p].streak = StreakAfter(p, kind)
  <2>1. mem' = [mem EXCEPT !.prof[p] = EntryAfter(p, kind, r)] /\ mem \in State
    BY DEF RunChild, ChildEnds, TypeOK
  <2>2. EntryAfter(p, kind, r).streak = StreakAfter(p, kind)
    BY DEF EntryAfter, TypeOK, State, Entry
  <2> HIDE DEF kind, r
  <2> QED BY <2>1, <2>2 DEF State
<1>5. /\ report' = [report EXCEPT ![p] = r]
      /\ failed' = [failed EXCEPT ![p] = FailedAfter(p, o)] /\ pc' = pc /\ pc = "run"
  BY DEF RunChild, ChildEnds, Turn
<1>6. ASSUME FailedAfter(p, o) > 0
      PROVE  /\ kind \in Failure /\ r # None /\ r.fault = kind
             /\ FailedAfter(p, o) \in 0 .. AlarmAt
             /\ FailedAfter(p, o) <= mem.prof[p].streak + 1
  <2>1. /\ failed[p] \in 0 .. AlarmAt /\ mem.prof[p].streak \in Nat
        /\ failed[p] <= mem.prof[p].streak
        /\ failed[p] > 0 => report[p] # None /\ report[p].fault \in Failure
    BY DEF TypeOK, State, Entry, CallInv, FailuresKnown, Failure
  <2>2. CASE ~o.written
    BY <1>6, <2>1, <2>2 DEF FailedAfter, ReportAfter, Classified
  <2>3. CASE o.written
    <3>1. o.rep \in Report /\ o.rep # None /\ o.rep.fault \in Fault
      BY <1>1, DomainAssumption DEF Outcome, Report
    <3>2. o.rep.fault \in Failure /\ FailedAfter(p, o) = AtMost(failed[p] + 1, AlarmAt)
      BY <1>1, <1>6, <2>3, <3>1 DEF FailedAfter, Settles, Fault, Failure
    <3> QED BY <2>1, <2>3, <3>1, <3>2, LimitAssumption
          DEF ReportAfter, Classified, AtMost
  <2> QED BY <2>2, <2>3
<1>7. ASSUME FailedAfter(p, o) > 0
      PROVE  FailedAfter(p, o) <= mem'.prof[p].streak
  BY <1>4, <1>6, <1>7, StreakType DEF Failure
<1>8. ASSUME FailedAfter(p, o) >= AlarmAt
      PROVE  Told(p)' \cap {"held", "error"} # {}
  <2>1. kind \in Failure /\ StreakAfter(p, kind) >= AlarmAt
    <3>1. FailedAfter(p, o) \in 0 .. AlarmAt /\ FailedAfter(p, o) > 0
      BY <1>8, FailedType, LimitAssumption
    <3>2. StreakAfter(p, kind) \in Nat /\ FailedAfter(p, o) <= StreakAfter(p, kind)
      BY <1>4, <1>7, <3>1, StreakType
    <3> QED BY <1>6, <1>8, <3>1, <3>2, LimitAssumption
  <2> HIDE DEF kind, r
  <2>2. CASE kind = "held"
    BY <1>3, <2>2 DEF NoticesOf
  <2>3. CASE kind = "transient"
    BY <1>3, <2>1, <2>3 DEF NoticesOf
  <2>4. CASE kind = "lasting"
    BY <1>3, <2>4 DEF NoticesOf
  <2> QED BY <2>1, <2>2, <2>3, <2>4 DEF Failure
<1> HIDE DEF kind, r
<1>9. PeopleCalled'
  BY <1>3, <1>5, <1>8 DEF CallInv, PeopleCalled, TypeOK
<1>10. FailuresKnown'
  <2>1. ASSUME NEW q \in Profile, failed'[q] > 0
        PROVE  /\ failed'[q] <= mem'.prof[q].streak
               /\ report'[q] # None /\ report'[q].fault \in Failure
    <3>1. CASE q = p
      BY <1>5, <1>6, <1>7, <2>1, <3>1 DEF TypeOK
    <3>2. CASE q # p
      BY <1>4, <1>5, <2>1, <3>2 DEF TypeOK, CallInv, FailuresKnown, Failure
    <3> QED BY <3>1, <3>2
  <2> QED BY <1>5, <2>1 DEF FailuresKnown, Failure
<1> QED BY <1>9, <1>10 DEF CallInv

(* A step that leaves notices, failures and reports alone.                 *)
LEMMA QuietCalls ==
    ASSUME CallInv, notices' = notices, failed' = failed, report' = report,
           \A p \in Profile : failed[p] > 0 => mem'.prof[p].streak = mem.prof[p].streak,
           pc' = "off" => pc = "off"
    PROVE  CallInv'
BY DEF CallInv, PeopleCalled, FailuresKnown, Told

LEMMA CallStep ==
    ASSUME Unbroken, TypeOK, CallInv, [Next]_vars
    PROVE  CallInv'
<1>1. CASE StartLoop
  <2>1. \A p \in Profile : failed[p] = 0
    BY <1>1 DEF StartLoop, CallInv, FailuresKnown
  <2> QED BY <1>1, <2>1, QuietCalls DEF StartLoop, outside, history
<1>2. CASE Tick \/ TickBlind
  <2>1. PICK unread : TickWith(unread)
    BY <1>2 DEF Tick, TickBlind
  <2>2. \A p \in Profile : mem'.prof[p].streak = mem.prof[p].streak
    BY <2>1, ReconciledType DEF TickWith, TypeOK, State
  <2> QED BY <2>1, <2>2, QuietCalls DEF TickWith, outside
<1>3. CASE EndTick
  <2>1. mem'.prof = mem.prof
    BY <1>3 DEF EndTick, TypeOK, State
  <2> QED BY <1>3, <2>1, QuietCalls DEF EndTick, outside
<1>4. CASE SlowChild \/ Sleep \/ Standby
  <2>1. PICK d \in Nat : Elapse(d)
    BY <1>4, SpanAssumption DEF SlowChild, Sleep, Standby
  <2>2. mem'.prof = mem.prof
    BY <2>1, ElapseType
  <2> QED BY <1>4, <2>2, QuietCalls DEF SlowChild, Sleep, Standby, loop
<1>5. ASSUME NEW p \in Profile, SkipParked(p)
      PROVE  CallInv'
  BY <1>5, QuietCalls DEF SkipParked, outside
<1>6. ASSUME NEW p \in Profile, NEW o \in Outcomes \cup {Refused}, RunChild(p, o)
      PROVE  CallInv'
  BY <1>6, RunCalls
<1>7. CASE Down
  BY <1>7, LimitAssumption DEF Down, CallInv, PeopleCalled, FailuresKnown
<1>8. CASE EditConfig
  BY <1>8, QuietCalls, UnparkedType DEF EditConfig, TypeOK, outside, loop, history
<1>9. CASE MarkerMoves
  BY <1>9, QuietCalls DEF MarkerMoves, outside, loop, history
<1>10. ASSUME NEW p \in Profile, PersonRuns(p)
       PROVE  CallInv'
  <2>1. \A q \in Profile \ {p} : Told(q)' = Told(q)
    BY <1>10, NotePersonType DEF PersonRuns
  <2>2. failed' = [failed EXCEPT ![p] = 0] /\ report' = report /\ pc' = pc
    BY <1>10 DEF PersonRuns, loop
  <2>3. \A q \in Profile : mem'.prof[q].streak = mem.prof[q].streak
    BY <1>10, UnparkedType DEF PersonRuns, TypeOK
  <2> QED BY <2>1, <2>2, <2>3, LimitAssumption
        DEF TypeOK, CallInv, PeopleCalled, FailuresKnown
<1>11. ASSUME NEW p \in Profile, PersonLeaves(p)
       PROVE  CallInv'
  BY <1>11, QuietCalls, UnparkedType DEF PersonLeaves, TypeOK, outside, loop, history
<1>12. CASE UNCHANGED vars
  BY <1>12, QuietCalls DEF vars, outside, loop, history
<1> QED
  BY <1>1, <1>2, <1>3, <1>4, <1>5, <1>6, <1>7, <1>8, <1>9, <1>10, <1>11, <1>12
  DEF Next, Loop, Environment, Crash, KilledInChild, TickBreaks, May, Unbroken

(* A profile that fails AlarmAt times in a row has a notice for a person,  *)
(* in whatever order its kinds of failure come and whichever children die  *)
(* without a report, as long as notices can be written.                    *)
THEOREM FailuresAreTold ==
    ASSUME Unbroken
    PROVE  Spec => []PeopleCalled
<1>1. TypeOK /\ CallInv /\ [Next]_vars => (TypeOK /\ CallInv)'
  BY TypeStep, CallStep
<1>2. CallInv => PeopleCalled
  BY DEF CallInv
<1> QED BY TypeInit, CallInit, <1>1, <1>2, PTL DEF Spec

(* The strengthening as one invariant, the one TLC checks.                 *)
THEOREM Strengthened ==
    ASSUME Unbroken
    PROVE  Spec => []IInv
<1>1. TypeOK /\ SweepInv /\ RowsSeen /\ CallInv /\ [Next]_vars
        => (TypeOK /\ SweepInv /\ RowsSeen /\ CallInv)'
  BY TypeStep, SweepStep, RowsStep, CallStep
<1>2. TypeOK /\ SweepInv /\ RowsSeen /\ CallInv => IInv
  BY DEF SweepInv, CallInv, IInv
<1> QED BY TypeInit, SweepInit, RowsInit, CallInit, <1>1, <1>2, PTL DEF Spec
=============================================================================
