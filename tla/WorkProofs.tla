----------------------------- MODULE WorkProofs -----------------------------
(***************************************************************************)
(* Schedules, verification evidence, company memory and mail: a tick, a     *)
(* request, an admin or a worker reads a record and writes it later.  Each  *)
(* invariant says what is still true of the record when the write comes;    *)
(* the exceptions of the properties are the writes for which nothing is.    *)
(***************************************************************************)
EXTENDS StandingWork, VerificationUpload, CompanyMemory, Notifications, TLAPS, SequenceTheorems,
        FiniteSetTheorems, WellFoundedInduction, NaturalsInduction

-----------------------------------------------------------------------------
(* Standing work. *)

ScheduleRow == [period : Periods \cup {0}, enabled : BOOLEAN, next : Nat, last : -1..Horizon]
TickMemory == [now : 0..Horizon, todo : SUBSET Schedules, paused : SUBSET Schedules]
Edit == [period : Periods \cup {0}, next : Nat]

\* What was listed exists and started its tick in the past.
ListedBefore ==
  \A w \in Ticks : tick[w].now <= hour /\ \A s \in tick[w].todo : schedule[s].period # 0

\* The clock of a schedule is past its last run, unless an edit put it back.
ClockIsAhead ==
  \A s \in Schedules : /\ schedule[s].last <= hour
                       /\ ScheduleExists(s) => schedule[s].last < schedule[s].next \/ s \in putBack
                       /\ edit[s] # NoEdit => ScheduleExists(s) /\ edit[s].period # 0

StandingInv == StandingTypeOK /\ ListedBefore /\ ClockIsAhead

\* A next due time is one, and it is later.
LEMMA NextIsLater ==
  ASSUME NEW p \in Nat \ {0}, NEW from \in Nat
  PROVE  NextRunAfter(p, from) \in Nat /\ NextRunAfter(p, from) > from
<1> DEFINE q == from \div p
<1>1. q \in Nat /\ from = p * q + (from % p) /\ from % p < p /\ from % p \in Nat
  OBVIOUS
<1>2. (q + 1) * p = p * q + p
  BY <1>1
<1>3. p * q \in Nat
  BY <1>1
<1> QED
  BY <1>1, <1>2, <1>3 DEF NextRunAfter

LEMMA StandingInvInit == ASSUME StandingInit PROVE StandingInv
BY StandingAssumption DEF StandingInit, StandingInv, StandingTypeOK, ListedBefore, ClockIsAhead,
  NoEdit, NotListed, ScheduleExists

\* A step that leaves the rows, the edits and the time alone.
LEMMA TicksOnly ==
  ASSUME StandingInv, UNCHANGED <<hour, schedule, occurrences, edit, putBack>>,
         admins' \subseteq Schedules, agents' \subseteq Schedules, failures' \in 0..MaxFailures,
         \A w \in Ticks : tick'[w].now <= hour /\ \A s \in tick'[w].todo : schedule[s].period # 0,
         tick' \in [Ticks -> TickMemory]
  PROVE  StandingInv'
<1>1. StandingTypeOK'
  BY DEF StandingInv, StandingTypeOK, TickMemory
<1>2. ListedBefore' /\ ClockIsAhead'
  BY DEF StandingInv, ListedBefore, ClockIsAhead, ScheduleExists
<1> QED
  BY <1>1, <1>2 DEF StandingInv

\* A tick that handles a schedule remembers less.
LEMMA HandledTick ==
  ASSUME StandingInv, NEW w \in Ticks, NEW s, Handled(w, s)
  PROVE  /\ tick' \in [Ticks -> TickMemory]
         /\ \A v \in Ticks : tick'[v].now <= hour /\ tick'[v].todo \subseteq tick[v].todo
<1>1. tick \in [Ticks -> TickMemory] /\ hour \in Nat /\ Horizon \in Nat
  BY StandingAssumption DEF StandingInv, StandingTypeOK, TickMemory
<1>2. tick'[w] \in TickMemory /\ tick'[w].todo \subseteq tick[w].todo
        /\ tick'[w].now \in {0, tick[w].now}
  <2>1. CASE tick[w].todo = {s}
    BY <1>1, <2>1 DEF Handled, NotListed, TickMemory
  <2>2. CASE tick[w].todo # {s}
    <3> DEFINE m == [tick[w] EXCEPT !.todo = @ \ {s}]
    <3>1. tick[w] \in TickMemory
      BY <1>1
    <3>2. m \in TickMemory /\ m.todo \subseteq tick[w].todo /\ m.now = tick[w].now
      BY <3>1 DEF TickMemory
    <3>3. tick'[w] = IF tick[w].todo = {s} THEN NotListed ELSE m
      BY <1>1 DEF Handled
    <3> HIDE DEF m
    <3> QED
      BY <2>2, <3>2, <3>3
  <2> QED
    BY <2>1, <2>2
<1>3. \A v \in Ticks \ {w} : tick'[v] = tick[v]
  BY <1>1 DEF Handled
<1>4. tick' \in [Ticks -> TickMemory]
  BY <1>1, <1>2, <1>3 DEF Handled
<1>5. \A v \in Ticks : tick[v].now <= hour
  BY DEF StandingInv, ListedBefore
<1> QED
  BY <1>1, <1>2, <1>3, <1>4, <1>5

\* A step that writes the row of schedule s, and nothing of the others.
LEMMA RowWritten ==
  ASSUME StandingInv, NEW s \in Schedules, NEW r \in ScheduleRow,
         schedule' = [schedule EXCEPT ![s] = r], hour' = hour, UNCHANGED <<admins, agents, failures>>,
         occurrences' \subseteq Schedules \X (0..Horizon),
         putBack' \subseteq Schedules, \A q \in Schedules \ {s} : q \in putBack' <=> q \in putBack,
         edit' \in [Schedules -> Edit], \A q \in Schedules : edit'[q] \in {edit[q], NoEdit},
         r.period # 0, r.last <= hour, r.last < r.next \/ s \in putBack',
         tick' \in [Ticks -> TickMemory],
         \A w \in Ticks : tick'[w].now <= hour /\ tick'[w].todo \subseteq tick[w].todo
  PROVE  StandingInv'
<1>1. schedule' \in [Schedules -> ScheduleRow] /\ schedule'[s] = r
        /\ \A q \in Schedules \ {s} : schedule'[q] = schedule[q]
  BY DEF StandingInv, StandingTypeOK, ScheduleRow
<1>2. StandingTypeOK'
  BY <1>1 DEF StandingInv, StandingTypeOK, ScheduleRow, TickMemory, Edit
<1>3. \A w \in Ticks : \A q \in tick'[w].todo : schedule'[q].period # 0
  <2> SUFFICES ASSUME NEW w \in Ticks, NEW q \in tick'[w].todo PROVE schedule'[q].period # 0
    OBVIOUS
  <2>1. q \in Schedules /\ schedule[q].period # 0
    BY DEF StandingInv, StandingTypeOK, ListedBefore
  <2> QED
    BY <1>1, <2>1
<1>4. ListedBefore'
  BY <1>3 DEF ListedBefore
<1>5. ClockIsAhead'
  <2> SUFFICES ASSUME NEW q \in Schedules
               PROVE  /\ schedule'[q].last <= hour'
                      /\ schedule'[q].period # 0 =>
                           schedule'[q].last < schedule'[q].next \/ q \in putBack'
                      /\ edit'[q] # NoEdit => schedule'[q].period # 0 /\ edit'[q].period # 0
    BY DEF ClockIsAhead, ScheduleExists
  <2>1. edit'[q] # NoEdit => edit'[q] = edit[q]
    OBVIOUS
  <2>2. CASE q = s
    BY <1>1, <2>1, <2>2 DEF StandingInv, ClockIsAhead, ScheduleExists
  <2>3. CASE q # s
    BY <1>1, <2>1, <2>3 DEF StandingInv, ClockIsAhead, ScheduleExists
  <2> QED
    BY <2>2, <2>3
<1> QED
  BY <1>2, <1>4, <1>5 DEF StandingInv

LEMMA StandingTypes ==
  ASSUME StandingInv
  PROVE  /\ hour \in 0..Horizon /\ Horizon \in Nat
         /\ schedule \in [Schedules -> ScheduleRow] /\ tick \in [Ticks -> TickMemory]
         /\ edit \in [Schedules -> Edit]
         /\ occurrences \subseteq Schedules \X (0..Horizon)
         /\ Periods \subseteq Nat \ {0}
         /\ putBack \subseteq Schedules
         /\ \A w \in Ticks : tick[w].now <= hour
BY StandingAssumption DEF StandingInv, StandingTypeOK, ScheduleRow, TickMemory, Edit, ListedBefore

LEMMA DispatchKeeps ==
  ASSUME StandingInv, NEW w \in Ticks, NEW s \in Schedules, Dispatch(w, s)
  PROVE  StandingInv'
<1> DEFINE r == [schedule[s] EXCEPT !.last = tick[w].now,
                                    !.next = NextRunAfter(schedule[s].period, tick[w].now)]
<1>1. s \in tick[w].todo /\ tick[w] \in TickMemory /\ schedule[s] \in ScheduleRow
        /\ schedule[s].period # 0
  BY StandingTypes DEF Dispatch, StandingInv, ListedBefore
<1>2. schedule[s].period \in Nat \ {0} /\ tick[w].now \in Nat /\ tick[w].now <= hour
        /\ tick[w].now \in 0..Horizon
  BY <1>1, StandingTypes DEF ScheduleRow, TickMemory
<1>3. /\ NextRunAfter(schedule[s].period, tick[w].now) \in Nat
      /\ NextRunAfter(schedule[s].period, tick[w].now) > tick[w].now
  BY <1>2, NextIsLater
<1>4. r \in ScheduleRow /\ r.period # 0 /\ r.last <= hour /\ r.last < r.next
  <2>1. r.period = schedule[s].period /\ r.last = tick[w].now
          /\ r.next = NextRunAfter(schedule[s].period, tick[w].now)
    BY <1>1 DEF ScheduleRow
  <2>2. tick[w].now \in -1..Horizon
    BY <1>2
  <2>3. r \in ScheduleRow
    BY <1>1, <1>3, <2>2 DEF ScheduleRow
  <2> QED
    BY <1>1, <1>2, <1>3, <2>1, <2>3
<1>5. /\ tick' \in [Ticks -> TickMemory]
      /\ \A v \in Ticks : tick'[v].now <= hour /\ tick'[v].todo \subseteq tick[v].todo
  BY HandledTick DEF Dispatch
<1>6. CASE UNCHANGED <<schedule, occurrences, putBack>>
  <2>1. UNCHANGED <<hour, admins, agents, edit, failures>>
    BY DEF Dispatch
  <2>2. \A v \in Ticks : \A q \in tick'[v].todo : schedule[q].period # 0
    BY <1>5 DEF StandingInv, ListedBefore
  <2> QED
    BY <1>5, <1>6, <2>1, <2>2, TicksOnly DEF StandingInv, StandingTypeOK
<1>7. CASE /\ schedule' = [schedule EXCEPT ![s] = r]
           /\ occurrences' = occurrences \cup {<<s, schedule[s].next>>}
           /\ putBack' = putBack \ {s} /\ Due(s, tick[w].now)
  <2>1. UNCHANGED <<hour, admins, agents, edit, failures>>
    BY DEF Dispatch
  <2>2. schedule[s].next \in 0..Horizon
    BY <1>1, <1>2, <1>7, StandingTypes DEF Due, ScheduleRow
  <2>3. occurrences' \subseteq Schedules \X (0..Horizon)
    BY <1>7, <2>2, StandingTypes
  <2> HIDE DEF r
  <2> QED
    BY <1>4, <1>5, <1>7, <2>1, <2>3, RowWritten, StandingTypes
<1> QED
  BY <1>6, <1>7 DEF Dispatch

LEMMA ScheduleRowKeeps ==
  ASSUME StandingInv, NEW s \in Schedules, UpdateScheduleRow(s)
  PROVE  StandingInv'
<1> DEFINE r == [schedule[s] EXCEPT !.period = edit[s].period, !.next = edit[s].next]
<1>1. schedule[s] \in ScheduleRow /\ edit[s] \in Edit /\ edit[s].period # 0 /\ schedule[s].last <= hour
  BY StandingTypes DEF StandingInv, ClockIsAhead, UpdateScheduleRow
<1>2. r \in ScheduleRow /\ r.period # 0 /\ r.last <= hour
  BY <1>1 DEF ScheduleRow, Edit
<1>3. r.last < r.next \/ s \in putBack'
  BY <1>1 DEF ScheduleRow, Edit, UpdateScheduleRow
<1>4. edit' \in [Schedules -> Edit] /\ \A q \in Schedules : edit'[q] \in {edit[q], NoEdit}
  BY StandingTypes DEF UpdateScheduleRow, Edit, NoEdit
<1>5. schedule' = [schedule EXCEPT ![s] = r]
  BY DEF UpdateScheduleRow
<1>6. putBack' \subseteq Schedules /\ \A q \in Schedules \ {s} : q \in putBack' <=> q \in putBack
  BY StandingTypes DEF UpdateScheduleRow
<1>7. UNCHANGED <<hour, occurrences, admins, agents, tick, failures>>
  BY DEF UpdateScheduleRow
<1> HIDE DEF r
<1> QED
  BY <1>2, <1>3, <1>4, <1>5, <1>6, <1>7, RowWritten, StandingTypes

\* The other writes to a row of task_schedules.
LEMMA RowKeeps ==
  ASSUME StandingInv, NEW s \in Schedules,
         \/ \E period \in Periods : CreateSchedule(s, period)
         \/ SetScheduleEnabled(s)
         \/ \E w \in Ticks : Pause(w, s)
  PROVE  StandingInv'
<1>1. schedule[s] \in ScheduleRow /\ schedule[s].last <= hour /\ hour \in Nat
  BY StandingTypes DEF StandingInv, ClockIsAhead
<1>2. CASE \E period \in Periods : CreateSchedule(s, period)
  <2> PICK period \in Periods : CreateSchedule(s, period)
    BY <1>2
  <2> DEFINE r == [schedule[s] EXCEPT !.period = period, !.enabled = TRUE,
                                      !.next = NextRunAfter(period, hour)]
  <2>1. NextRunAfter(period, hour) \in Nat /\ NextRunAfter(period, hour) > hour
    BY <1>1, NextIsLater, StandingTypes
  <2>2. r \in ScheduleRow /\ r.period # 0 /\ r.last <= hour /\ r.last < r.next
    <3>1. r.period = period /\ r.last = schedule[s].last /\ r.next = NextRunAfter(period, hour)
      BY <1>1 DEF ScheduleRow
    <3>2. r \in ScheduleRow
      BY <1>1, <2>1 DEF ScheduleRow
    <3>3. period # 0 /\ r.last \in Int
      BY <1>1, <3>1, StandingTypes DEF ScheduleRow
    <3> QED
      BY <1>1, <2>1, <3>1, <3>2, <3>3
  <2>3. schedule' = [schedule EXCEPT ![s] = r]
    BY DEF CreateSchedule
  <2>4. UNCHANGED <<hour, occurrences, admins, agents, tick, edit, putBack, failures>>
    BY DEF CreateSchedule
  <2> HIDE DEF r
  <2> QED
    BY <2>2, <2>3, <2>4, RowWritten, StandingTypes
<1>3. CASE SetScheduleEnabled(s)
  <2> DEFINE r == [schedule[s] EXCEPT !.enabled = ~@]
  <2>1. r \in ScheduleRow /\ r.period # 0 /\ r.last = schedule[s].last /\ r.next = schedule[s].next
    BY <1>1, <1>3 DEF ScheduleRow, SetScheduleEnabled, ScheduleExists
  <2>2. r.last < r.next \/ s \in putBack'
    BY <1>3, <2>1 DEF StandingInv, ClockIsAhead, SetScheduleEnabled
  <2>3. schedule' = [schedule EXCEPT ![s] = r]
    BY <1>3 DEF SetScheduleEnabled
  <2>4. UNCHANGED <<hour, occurrences, admins, agents, tick, edit, putBack, failures>>
    BY <1>3 DEF SetScheduleEnabled
  <2> HIDE DEF r
  <2> QED
    BY <1>1, <2>1, <2>2, <2>3, <2>4, RowWritten, StandingTypes
<1>4. CASE \E w \in Ticks : Pause(w, s)
  <2> PICK w \in Ticks : Pause(w, s)
    BY <1>4
  <2> DEFINE r == [schedule[s] EXCEPT !.enabled = FALSE]
  <2>1. schedule[s].period # 0
    BY DEF Pause, StandingInv, ListedBefore
  <2>2. r \in ScheduleRow /\ r.period # 0 /\ r.last = schedule[s].last /\ r.next = schedule[s].next
    BY <1>1, <2>1 DEF ScheduleRow
  <2>3. r.last < r.next \/ s \in putBack'
    BY <2>1, <2>2 DEF StandingInv, ClockIsAhead, ScheduleExists, Pause
  <2>4. schedule' = [schedule EXCEPT ![s] = r]
    BY DEF Pause
  <2>5. UNCHANGED <<hour, occurrences, admins, agents, edit, putBack, failures>>
    BY DEF Pause
  <2>6. /\ tick' \in [Ticks -> TickMemory]
        /\ \A v \in Ticks : tick'[v].now <= hour /\ tick'[v].todo \subseteq tick[v].todo
    BY HandledTick DEF Pause
  <2> HIDE DEF r
  <2> QED
    BY <1>1, <2>2, <2>3, <2>4, <2>5, <2>6, RowWritten, StandingTypes
<1> QED
  BY <1>2, <1>3, <1>4

\* The steps of ticks that leave the rows alone.
LEMMA TickKeeps ==
  ASSUME StandingInv, NEW w \in Ticks,
         ListDue(w) \/ TickCrash(w) \/ \E s \in Schedules : DispatchFails(w, s)
  PROVE  StandingInv'
<1> USE StandingTypes, StandingAssumption
<1>1. admins \subseteq Schedules /\ agents \subseteq Schedules /\ failures \in 0..MaxFailures
  BY DEF StandingInv, StandingTypeOK
<1>2. \A v \in Ticks : \A q \in tick[v].todo : schedule[q].period # 0
  BY DEF StandingInv, ListedBefore
<1>3. CASE ListDue(w)
  <2> DEFINE due == {s \in Schedules : ScheduleExists(s) /\ Due(s, hour)}
             m == [now |-> hour, todo |-> due, paused |-> due \ admins]
  <2>1. m \in TickMemory /\ m.now <= hour /\ \A s \in m.todo : schedule[s].period # 0
    BY DEF TickMemory, ScheduleExists
  <2>2. tick' = [tick EXCEPT ![w] = m]
    BY <1>3 DEF ListDue
  <2>3. UNCHANGED <<hour, schedule, occurrences, admins, agents, edit, putBack, failures>>
    BY <1>3 DEF ListDue
  <2> HIDE DEF m
  <2>4. tick' \in [Ticks -> TickMemory] /\ tick'[w] = m /\ \A v \in Ticks \ {w} : tick'[v] = tick[v]
    BY <2>1, <2>2
  <2> QED
    BY <1>1, <1>2, <2>1, <2>3, <2>4, TicksOnly
<1>4. CASE TickCrash(w)
  <2>1. NotListed \in TickMemory /\ NotListed.now <= hour /\ NotListed.todo = {}
    BY DEF NotListed, TickMemory
  <2>2. tick' = [tick EXCEPT ![w] = NotListed] /\ failures' \in 0..MaxFailures
    BY <1>1, <1>4 DEF TickCrash
  <2>3. UNCHANGED <<hour, schedule, occurrences, admins, agents, edit, putBack>>
    BY <1>4 DEF TickCrash
  <2>4. tick' \in [Ticks -> TickMemory] /\ tick'[w] = NotListed /\ \A v \in Ticks \ {w} : tick'[v] = tick[v]
    BY <2>1, <2>2
  <2> QED
    BY <1>1, <1>2, <2>1, <2>2, <2>3, <2>4, TicksOnly
<1>5. CASE \E s \in Schedules : DispatchFails(w, s)
  <2> PICK s \in Schedules : DispatchFails(w, s)
    BY <1>5
  <2>1. failures' \in 0..MaxFailures
          /\ UNCHANGED <<hour, schedule, occurrences, admins, agents, edit, putBack>>
    BY <1>1 DEF DispatchFails
  <2>2. /\ tick' \in [Ticks -> TickMemory]
        /\ \A v \in Ticks : tick'[v].now <= hour /\ tick'[v].todo \subseteq tick[v].todo
    BY HandledTick DEF DispatchFails
  <2> QED
    BY <1>1, <1>2, <2>1, <2>2, TicksOnly
<1> QED
  BY <1>3, <1>4, <1>5

\* Time, edits and what other modules change.
LEMMA AroundKeeps ==
  ASSUME StandingInv,
         \/ Hour
         \/ \E s \in Schedules : ChangeRole(s) \/ ChangeAgent(s)
         \/ \E s \in Schedules : \E period \in Periods : UpdateSchedule(s, period)
         \/ UNCHANGED standingVars
  PROVE  StandingInv'
<1> USE StandingTypes, StandingAssumption
<1>1. CASE Hour
  <2>1. hour' \in 0..Horizon /\ hour < hour'
    BY <1>1 DEF Hour
  <2>2. UNCHANGED <<schedule, occurrences, admins, agents, tick, edit, putBack, failures>>
    BY <1>1 DEF Hour
  <2>3. StandingTypeOK'
    BY <2>1, <2>2 DEF StandingInv, StandingTypeOK
  <2>4. \A w \in Ticks : tick[w].now \in Nat /\ tick[w].now <= hour
    BY DEF TickMemory
  <2>5. \A s \in Schedules : schedule[s].last \in Int /\ schedule[s].last <= hour
    BY DEF ScheduleRow, StandingInv, ClockIsAhead
  <2>6. ListedBefore'
    BY <2>1, <2>2, <2>4 DEF StandingInv, ListedBefore
  <2>7. ClockIsAhead'
    BY <2>1, <2>2, <2>5 DEF StandingInv, ClockIsAhead, ScheduleExists
  <2> QED
    BY <2>3, <2>6, <2>7 DEF StandingInv
<1>2. CASE \E s \in Schedules : ChangeRole(s) \/ ChangeAgent(s)
  <2>1. admins' \subseteq Schedules /\ agents' \subseteq Schedules
    BY <1>2 DEF ChangeRole, ChangeAgent, StandingInv, StandingTypeOK
  <2>2. UNCHANGED <<hour, schedule, occurrences, edit, putBack, failures, tick>>
    BY <1>2 DEF ChangeRole, ChangeAgent
  <2> QED
    BY <2>1, <2>2, TicksOnly DEF StandingInv, StandingTypeOK, ListedBefore, TickMemory
<1>3. CASE \E s \in Schedules : \E period \in Periods : UpdateSchedule(s, period)
  <2> PICK s \in Schedules : \E period \in Periods : UpdateSchedule(s, period)
    BY <1>3
  <2> PICK period \in Periods : UpdateSchedule(s, period)
    OBVIOUS
  <2> DEFINE e == [period |-> period, next |-> NextRunAfter(period, hour)]
  <2>1. e \in Edit /\ e.period # 0
    BY NextIsLater DEF Edit
  <2>2. UNCHANGED <<hour, schedule, occurrences, admins, agents, tick, putBack, failures>>
    BY DEF UpdateSchedule
  <2>3. edit' = [edit EXCEPT ![s] = e] /\ ScheduleExists(s)
    BY DEF UpdateSchedule
  <2> HIDE DEF e
  <2>4. edit' \in [Schedules -> Edit] /\ edit'[s] = e /\ \A q \in Schedules \ {s} : edit'[q] = edit[q]
    BY <2>1, <2>3
  <2>5. StandingTypeOK'
    BY <2>2, <2>4 DEF StandingInv, StandingTypeOK, Edit
  <2>6. ListedBefore'
    BY <2>2 DEF StandingInv, ListedBefore
  <2>7. ClockIsAhead'
    BY <2>1, <2>2, <2>3, <2>4 DEF StandingInv, ClockIsAhead, ScheduleExists
  <2> QED
    BY <2>5, <2>6, <2>7 DEF StandingInv
<1>4. CASE UNCHANGED standingVars
  BY <1>4 DEF standingVars, StandingInv, StandingTypeOK, ListedBefore, ClockIsAhead, ScheduleExists
<1> QED
  BY <1>1, <1>2, <1>3, <1>4

LEMMA StandingInvNext == ASSUME StandingInv, [StandingNext]_standingVars PROVE StandingInv'
BY DispatchKeeps, ScheduleRowKeeps, RowKeeps, TickKeeps, AroundKeeps DEF StandingNext, Ticking

\* Only a dispatch makes a task, and it looks at the row it has locked.
LEMMA OccursWhenDue ==
  ASSUME StandingInv, [StandingNext]_standingVars, NEW s \in Schedules, NEW t \in 0..Horizon,
         <<s, t>> \in occurrences' \ occurrences
  PROVE  schedule[s].enabled /\ t <= hour /\ (schedule[s].last < t \/ s \in putBack)
<1>1. PICK w \in Ticks : \E q \in Schedules : Dispatch(w, q)
  BY DEF StandingNext, Ticking, standingVars, Hour, CreateSchedule, UpdateSchedule, UpdateScheduleRow,
    SetScheduleEnabled, ChangeRole, ChangeAgent, ListDue, Pause, TickCrash, DispatchFails
<1>2. PICK q \in Schedules : Dispatch(w, q)
  BY <1>1
<1>3. q \in tick[w].todo /\ Due(q, tick[w].now) /\ <<s, t>> = <<q, schedule[q].next>>
  BY <1>2 DEF Dispatch
<1>4. q = s /\ t = schedule[s].next
  BY <1>3
<1>5. schedule[s].period # 0 /\ tick[w].now <= hour /\ tick[w].now \in Nat /\ hour \in Nat
  BY <1>3, <1>4, StandingTypes DEF StandingInv, ListedBefore, TickMemory
<1>6. schedule[s].enabled
  BY <1>3, <1>4, Zenon DEF Due
<1>7. t <= hour
  BY <1>3, <1>4, <1>5, StandingTypes DEF Due, ScheduleRow
<1>8. schedule[s].last < t \/ s \in putBack
  BY <1>4, <1>5 DEF StandingInv, ClockIsAhead, ScheduleExists
<1> QED
  BY <1>6, <1>7, <1>8

\* However many ticks overlap, are late, fail or are repeated (runDueSchedules),
\* a schedule makes a task only when due and enabled, and one for all the time
\* it was not looked at: the tick checks again under the lock of the row and
\* moves the clock past its own time.  An edit of before the last run excepted.
THEOREM OneTaskForAllMissed == StandingSpec => OneTaskPerDueTime
<1>1. StandingInit => StandingInv
  BY StandingInvInit
<1>2. StandingInv /\ [StandingNext]_standingVars => StandingInv'
  BY StandingInvNext
<1>3. StandingInv /\ [StandingNext]_standingVars =>
        [\A s \in Schedules, t \in 0..Horizon :
           <<s, t>> \in occurrences' \ occurrences =>
             /\ schedule[s].enabled /\ t <= hour
             /\ schedule[s].last < t \/ s \in putBack]_standingVars
  BY OccursWhenDue
<1> HIDE DEF StandingInv
<1> QED
  BY <1>1, <1>2, <1>3, PTL DEF StandingSpec, OneTaskPerDueTime

-----------------------------------------------------------------------------
(* Verification evidence. *)

RunnerMemory ==
  [at : RunnerSteps, says : Submissions \cup {NoSubmission}, puts : 0..PutAttempts,
   decision : EvidenceDecisions]
EvidenceRecord == [says : Submissions \cup {NoSubmission}, decision : EvidenceDecisions]
EvidenceAnswers == [says : Submissions, answer : EvidenceDecisions \cup {"conflict"}]

\* The object is the declared one, and what was uploaded stays.
ObjectDeclared ==
  /\ stored \in {NoFile, grant}
  /\ grant = NoFile => ~uploaded /\ stored = NoFile
  /\ uploaded => stored = grant

\* What a request knows at each of its steps.
Redeeming == {"send", "put", "head", "reconcile", "complete"}
Submitting == {"prior", "grants", "objects", "save", "commit"}
Decided == {"save", "commit"}
Known(m) ==
  /\ m.at \in Redeeming => grant # NoFile
  /\ m.at = "complete" => stored = grant
  /\ m.at \in Submitting => m.says \in Submissions
  /\ m.at = "objects" /\ m.says.file # NoFile => uploaded /\ grant = m.says.file
  /\ m.at \in Decided => m.decision # "none"
  /\ m.at \in Decided /\ m.decision = "verified" => uploaded /\ stored = m.says.file
RunnersKnow == \A r \in Runners : Known(runner[r])

\* Who has inserted a record has found none, and there is one of them.
InsertsAlone ==
  \A r \in Runners : /\ RunnerAt(r, "commit") <=> inserting = r
                     /\ RunnerAt(r, "commit") => evidence = NoEvidence

EvidenceInv == VerificationTypeOK /\ ObjectDeclared /\ RunnersKnow /\ InsertsAlone /\ VerifiedIsStored

LEMMA EvidenceInvInit == ASSUME VerificationInit PROVE EvidenceInv
<1>1. NoRun \in RunnerMemory /\ NoEvidence \in EvidenceRecord
  BY VerificationAssumption DEF NoRun, NoEvidence, RunnerMemory, EvidenceRecord, RunnerSteps, EvidenceDecisions
<1>2. VerificationTypeOK
  <2>1. runner \in [Runners -> RunnerMemory] /\ evidence \in EvidenceRecord
    BY <1>1 DEF VerificationInit
  <2>2. told \subseteq [says : Submissions, answer : EvidenceDecisions \cup {"conflict"}]
    BY DEF VerificationInit
  <2>3. astray \in Nat /\ runnerFaults \in 0..MaxRunnerFaults
    BY VerificationAssumption DEF VerificationInit
  <2> QED
    BY <2>1, <2>2, <2>3 DEF VerificationInit, VerificationTypeOK, RunnerMemory, EvidenceRecord
<1>3. ObjectDeclared /\ VerifiedIsStored
  BY DEF VerificationInit, ObjectDeclared, VerifiedIsStored, NoEvidence
<1>4. RunnersKnow
  BY DEF VerificationInit, RunnersKnow, Known, NoRun, Redeeming, Submitting, Decided
<1>5. InsertsAlone
  BY VerificationAssumption DEF VerificationInit, InsertsAlone, RunnerAt, NoRun
<1> QED
  BY <1>2, <1>3, <1>4, <1>5 DEF EvidenceInv

LEMMA EvidenceTypes ==
  ASSUME EvidenceInv
  PROVE  /\ grant \in Files \cup {NoFile} /\ stored \in Files \cup {NoFile}
         /\ expired \in BOOLEAN /\ uploaded \in BOOLEAN /\ astray \in Nat
         /\ runner \in [Runners -> RunnerMemory] /\ evidence \in EvidenceRecord
         /\ inserting \in Runners \cup {NoRunner} /\ told \subseteq EvidenceAnswers
         /\ runnerFaults \in 0..MaxRunnerFaults
         /\ NoFile \notin Files /\ NoRunner \notin Runners /\ PutAttempts \in Nat
BY VerificationAssumption DEF EvidenceInv, VerificationTypeOK, RunnerMemory, EvidenceRecord, EvidenceAnswers

\* What a request knows stays true: a grant is not taken back, an upload not
\* undone and an object not replaced.
EvidenceLasts ==
  /\ grant # NoFile => grant' = grant
  /\ uploaded => uploaded'
  /\ stored # NoFile => stored' = stored

LEMMA KnownLasts ==
  ASSUME EvidenceInv, EvidenceLasts, NEW m \in RunnerMemory, Known(m)
  PROVE  /\ m.at \in Redeeming => grant' # NoFile
         /\ m.at = "complete" => stored' = grant'
         /\ m.at \in Submitting => m.says \in Submissions
         /\ m.at = "objects" /\ m.says.file # NoFile => uploaded' /\ grant' = m.says.file
         /\ m.at \in Decided => m.decision # "none"
         /\ m.at \in Decided /\ m.decision = "verified" => uploaded' /\ stored' = m.says.file
<1>1. uploaded => grant # NoFile /\ stored = grant
  BY DEF EvidenceInv, ObjectDeclared
<1>2. m.at = "complete" => m.at \in Redeeming
  BY DEF Redeeming
<1>3. m.at = "complete" => stored' = grant'
  BY <1>2 DEF Known, EvidenceLasts
<1>4. m.at = "objects" /\ m.says.file # NoFile => uploaded' /\ grant' = m.says.file
  BY <1>1, Zenon DEF Known, EvidenceLasts
<1>5. m.at \in Decided /\ m.decision = "verified" => uploaded' /\ stored' = m.says.file
  BY <1>1, Zenon DEF Known, EvidenceLasts
<1>6. m.at \in Redeeming => grant' # NoFile
  BY DEF Known, EvidenceLasts
<1> QED
  BY <1>3, <1>4, <1>5, <1>6 DEF Known

\* A request moves, and may change the grant and the object; the records stay.
LEMMA RequestMoves ==
  ASSUME EvidenceInv, EvidenceLasts, NEW r \in Runners, NEW m \in RunnerMemory,
         runner' = [runner EXCEPT ![r] = m],
         Known(m)', m.at # "commit", runner[r].at # "commit",
         UNCHANGED <<evidence, inserting>>, told' = told,
         grant' \in Files \cup {NoFile}, stored' \in Files \cup {NoFile},
         expired' \in BOOLEAN, uploaded' \in BOOLEAN, astray' \in Nat,
         runnerFaults' \in 0..MaxRunnerFaults,
         ObjectDeclared'
  PROVE  EvidenceInv'
<1>1. /\ runner' \in [Runners -> RunnerMemory] /\ runner'[r] = m
      /\ \A q \in Runners \ {r} : runner'[q] = runner[q]
  BY EvidenceTypes
<1>2. VerificationTypeOK'
  BY <1>1, EvidenceTypes DEF VerificationTypeOK, RunnerMemory, EvidenceRecord, EvidenceAnswers
<1>3. RunnersKnow'
  <2> SUFFICES ASSUME NEW q \in Runners PROVE Known(runner[q])'
    BY DEF RunnersKnow
  <2>1. CASE q = r
    BY <1>1, <2>1 DEF Known
  <2>2. CASE q # r
    <3>1. runner[q] \in RunnerMemory /\ Known(runner[q])
      BY EvidenceTypes DEF EvidenceInv, RunnersKnow
    <3> QED
      BY <1>1, <2>2, <3>1, KnownLasts DEF Known
  <2> QED
    BY <2>1, <2>2
<1>4. InsertsAlone'
  BY <1>1 DEF EvidenceInv, InsertsAlone, RunnerAt
<1>5. VerifiedIsStored'
  <2>1. uploaded => stored # NoFile
    BY DEF EvidenceInv, ObjectDeclared
  <2>2. (uploaded => stored = grant)'
    BY DEF ObjectDeclared
  <2>3. (evidence.decision = "verified" => uploaded /\ stored = evidence.says.file)'
    BY <2>1, Zenon DEF EvidenceInv, VerifiedIsStored, EvidenceLasts
  <2> QED
    BY <2>2, <2>3 DEF EvidenceInv, VerifiedIsStored
<1> QED
  BY <1>2, <1>3, <1>4, <1>5 DEF EvidenceInv

\* Nobody moves: the grant is given or expires, or a PUT lands.
LEMMA ObjectMoves ==
  ASSUME EvidenceInv, EvidenceLasts, UNCHANGED <<runner, evidence, inserting, told, runnerFaults>>,
         grant' \in Files \cup {NoFile}, stored' \in Files \cup {NoFile},
         expired' \in BOOLEAN, uploaded' \in BOOLEAN, astray' \in Nat,
         ObjectDeclared'
  PROVE  EvidenceInv'
<1>1. VerificationTypeOK'
  BY EvidenceTypes DEF VerificationTypeOK, RunnerMemory, EvidenceRecord, EvidenceAnswers
<1>2. RunnersKnow'
  <2> SUFFICES ASSUME NEW q \in Runners PROVE Known(runner[q])'
    BY DEF RunnersKnow
  <2>1. runner[q] \in RunnerMemory /\ Known(runner[q])
    BY EvidenceTypes DEF EvidenceInv, RunnersKnow
  <2> QED
    BY <2>1, KnownLasts DEF Known
<1>3. InsertsAlone'
  BY DEF EvidenceInv, InsertsAlone, RunnerAt
<1>4. VerifiedIsStored'
  <2>1. uploaded => stored # NoFile
    BY DEF EvidenceInv, ObjectDeclared
  <2>2. (uploaded => stored = grant)'
    BY DEF ObjectDeclared
  <2>3. (evidence.decision = "verified" => uploaded /\ stored = evidence.says.file)'
    BY <2>1, Zenon DEF EvidenceInv, VerifiedIsStored, EvidenceLasts
  <2> QED
    BY <2>2, <2>3 DEF EvidenceInv, VerifiedIsStored
<1> QED
  BY <1>1, <1>2, <1>3, <1>4 DEF EvidenceInv

\* A request moves that only touches the records.
LEMMA RecordMoves ==
  ASSUME EvidenceInv, NEW r \in Runners, NEW m \in RunnerMemory,
         runner' = [runner EXCEPT ![r] = m], Known(m),
         UNCHANGED <<grant, expired, uploaded, stored>>, astray' \in Nat,
         runnerFaults' \in 0..MaxRunnerFaults,
         evidence' \in EvidenceRecord, inserting' \in Runners \cup {NoRunner}, told' \subseteq EvidenceAnswers,
         InsertsAlone',
         evidence'.decision = "verified" => uploaded /\ stored = evidence'.says.file,
         \A t \in told' : /\ evidence' # NoEvidence
                          /\ t.answer = IF t.says = evidence'.says THEN evidence'.decision ELSE "conflict"
  PROVE  EvidenceInv'
<1>1. /\ runner' \in [Runners -> RunnerMemory] /\ runner'[r] = m
      /\ \A q \in Runners \ {r} : runner'[q] = runner[q]
  BY EvidenceTypes
<1>2. VerificationTypeOK'
  BY <1>1, EvidenceTypes DEF VerificationTypeOK, RunnerMemory, EvidenceRecord, EvidenceAnswers
<1>3. RunnersKnow'
  BY <1>1 DEF EvidenceInv, RunnersKnow, Known
<1>4. ObjectDeclared'
  BY DEF EvidenceInv, ObjectDeclared
<1>5. VerifiedIsStored'
  BY DEF EvidenceInv, VerifiedIsStored
<1> QED
  BY <1>2, <1>3, <1>4, <1>5 DEF EvidenceInv

\* A request at another step, with what it has.
RunnerMoved(r, at) == [runner[r] EXCEPT !.at = at]

LEMMA MovedRunner ==
  ASSUME EvidenceInv, NEW r \in Runners, NEW at \in RunnerSteps
  PROVE  /\ runner[r] \in RunnerMemory /\ Known(runner[r])
         /\ RunnerMoved(r, at) \in RunnerMemory
         /\ RunnerMoved(r, at).at = at /\ RunnerMoved(r, at).says = runner[r].says
         /\ RunnerMoved(r, at).decision = runner[r].decision
         /\ RunnerGoes(r, at) => runner' = [runner EXCEPT ![r] = RunnerMoved(r, at)]
<1>1. runner[r] \in RunnerMemory /\ Known(runner[r])
  BY EvidenceTypes DEF EvidenceInv, RunnersKnow
<1> QED
  BY <1>1 DEF RunnerMoved, RunnerGoes, RunnerMemory

LEMMA NoRunKnows ==
  /\ NoRun.at = "idle" /\ Known(NoRun) /\ Known(NoRun)'
  /\ VerificationAssumption => NoRun \in RunnerMemory
BY DEF NoRun, Known, Redeeming, Submitting, Decided, RunnerMemory, RunnerSteps, EvidenceDecisions

LEMMA ObjectKeeps ==
  ASSUME EvidenceInv, GrantExpires \/ PutLands \/ \E file \in Files : RequestUploadGrant(file)
  PROVE  EvidenceInv'
<1> USE EvidenceTypes
<1>1. CASE GrantExpires
  <2>1. UNCHANGED <<runner, evidence, inserting, told, runnerFaults, grant, uploaded, stored, astray>>
          /\ expired' = TRUE
    BY <1>1 DEF GrantExpires, evidenceVars
  <2>2. EvidenceLasts /\ ObjectDeclared'
    BY <2>1 DEF EvidenceLasts, EvidenceInv, ObjectDeclared
  <2> QED
    BY <2>1, <2>2, ObjectMoves
<1>2. CASE PutLands
  <2>1. /\ UNCHANGED <<runner, evidence, inserting, told, runnerFaults, grant, expired, uploaded>>
        /\ astray' \in Nat /\ stored' \in {stored, grant} /\ (stored # NoFile => stored' = stored)
    BY <1>2 DEF PutLands, evidenceVars
  <2>2. EvidenceLasts
    BY <2>1 DEF EvidenceLasts
  <2>3. ObjectDeclared'
    BY <2>1 DEF EvidenceInv, ObjectDeclared
  <2> QED
    BY <2>1, <2>2, <2>3, ObjectMoves
<1>3. CASE \E file \in Files : RequestUploadGrant(file)
  <2>1. /\ UNCHANGED <<runner, evidence, inserting, told, runnerFaults, expired, uploaded, stored, astray>>
        /\ grant = NoFile /\ grant' \in Files
    BY <1>3 DEF RequestUploadGrant, evidenceVars
  <2>2. EvidenceLasts
    BY <2>1 DEF EvidenceLasts
  <2>3. ObjectDeclared'
    BY <2>1 DEF EvidenceInv, ObjectDeclared
  <2> QED
    BY <2>1, <2>2, <2>3, ObjectMoves
<1> QED
  BY <1>1, <1>2, <1>3

\* A redemption on its way: the object stays, and the request learns little.
LEMMA RedeemKeeps ==
  ASSUME EvidenceInv, NEW r \in Runners,
         \/ \E file \in Files : RedeemUploadGrant(r, file)
         \/ BeginPut(r) \/ HeadAfterPut(r) \/ ReconcileExisting(r)
  PROVE  EvidenceInv'
<1> USE EvidenceTypes
<1>1. /\ UNCHANGED <<grant, expired, uploaded, stored, astray, evidence, inserting, told, runnerFaults>>
      /\ runner[r].at # "commit"
  BY DEF RedeemUploadGrant, BeginPut, HeadAfterPut, ReconcileExisting, uploadVars, evidenceVars, RunnerAt
<1>2. EvidenceLasts /\ ObjectDeclared'
  BY <1>1 DEF EvidenceLasts, EvidenceInv, ObjectDeclared
<1>3. \A m \in RunnerMemory :
        runner' = [runner EXCEPT ![r] = m] /\ Known(m) /\ m.at # "commit" => EvidenceInv'
  <2> SUFFICES ASSUME NEW m \in RunnerMemory, runner' = [runner EXCEPT ![r] = m], Known(m),
                      m.at # "commit"
               PROVE  EvidenceInv'
    OBVIOUS
  <2>1. Known(m)'
    BY <1>1 DEF Known
  <2> QED
    BY <1>1, <1>2, <2>1, RequestMoves
<1>4. runner[r].at \in Redeeming => grant # NoFile
  BY MovedRunner DEF RunnerSteps, Known
<1>5. \A at \in {"send", "put", "head", "reconcile"} :
        grant # NoFile /\ RunnerGoes(r, at) => EvidenceInv'
  <2> SUFFICES ASSUME NEW at \in {"send", "put", "head", "reconcile"}, grant # NoFile, RunnerGoes(r, at)
               PROVE  EvidenceInv'
    OBVIOUS
  <2>1. at \in RunnerSteps
    BY DEF RunnerSteps
  <2>2. Known(RunnerMoved(r, at))
    BY <2>1, MovedRunner DEF Known, Submitting, Decided
  <2> QED
    BY <1>3, <2>1, <2>2, MovedRunner
<1>6. RunnerEnds(r) => EvidenceInv'
  BY <1>3, NoRunKnows, VerificationAssumption DEF RunnerEnds
<1>7. CASE \E file \in Files : RedeemUploadGrant(r, file)
  BY <1>5, <1>7 DEF RedeemUploadGrant
<1>8. CASE BeginPut(r)
  <2>1. grant # NoFile
    BY <1>4, <1>8 DEF BeginPut, RunnerAt, Redeeming
  <2>2. CASE runner[r].puts = PutAttempts \/ (runner[r].puts > 0 /\ expired)
    BY <1>6, <1>8, <2>2 DEF BeginPut
  <2>3. CASE ~ (runner[r].puts = PutAttempts \/ (runner[r].puts > 0 /\ expired))
    <3> DEFINE m == [runner[r] EXCEPT !.at = "put", !.puts = runner[r].puts + 1]
    <3>1. runner[r] \in RunnerMemory
      OBVIOUS
    <3>2. runner[r].puts + 1 \in 0..PutAttempts
      BY <2>3, <3>1 DEF RunnerMemory
    <3>3. m \in RunnerMemory /\ m.at = "put"
      BY <3>1, <3>2 DEF RunnerMemory, RunnerSteps
    <3>4. runner' = [runner EXCEPT ![r] = m]
      BY <1>8, <2>3, <3>1 DEF BeginPut, RunnerMemory
    <3> HIDE DEF m
    <3>5. Known(m)
      BY <2>1, <3>3 DEF Known, Submitting, Decided
    <3> QED
      BY <1>3, <3>3, <3>4, <3>5
  <2> QED
    BY <2>2, <2>3
<1>9. CASE HeadAfterPut(r)
  <2>1. grant # NoFile
    BY <1>4, <1>9 DEF HeadAfterPut, RunnerAt, Redeeming
  <2> QED
    BY <1>5, <1>9, <2>1 DEF HeadAfterPut
<1>10. CASE ReconcileExisting(r)
  <2>1. grant # NoFile
    BY <1>4, <1>10 DEF ReconcileExisting, RunnerAt, Redeeming
  <2>2. CASE stored = grant
    <3>1. "complete" \in RunnerSteps
      BY DEF RunnerSteps
    <3>2. Known(RunnerMoved(r, "complete"))
      BY <2>1, <2>2, <3>1, MovedRunner DEF Known, Submitting, Decided
    <3>3. RunnerGoes(r, "complete")
      BY <1>10, <2>2 DEF ReconcileExisting
    <3> QED
      BY <1>3, <3>1, <3>2, <3>3, MovedRunner
  <2>3. CASE stored # grant
    BY <1>6, <1>10, <2>3 DEF ReconcileExisting
  <2> QED
    BY <2>2, <2>3
<1> QED
  BY <1>7, <1>8, <1>9, <1>10

LEMMA PutKeeps ==
  ASSUME EvidenceInv, NEW r \in Runners, PutIfAbsent(r) \/ CompleteUpload(r)
  PROVE  EvidenceInv'
<1> USE EvidenceTypes
<1>1. /\ UNCHANGED <<grant, expired, evidence, inserting, told>>
      /\ runner[r].at \in Redeeming /\ runner[r].at # "commit"
  BY DEF PutIfAbsent, CompleteUpload, evidenceVars, RunnerAt, Redeeming
<1>2. grant # NoFile /\ (runner[r].at = "complete" => stored = grant)
  BY <1>1, MovedRunner DEF RunnerSteps, Known
<1>3. CASE PutIfAbsent(r)
  <2>1. /\ UNCHANGED uploaded /\ runnerFaults' \in 0..MaxRunnerFaults /\ astray' \in Nat
        /\ stored' \in {stored, grant} /\ (stored # NoFile => stored' = stored)
    BY <1>3, VerificationAssumption DEF PutIfAbsent, RunnerFault
  <2>2. EvidenceLasts /\ ObjectDeclared'
    BY <1>1, <2>1 DEF EvidenceLasts, EvidenceInv, ObjectDeclared
  <2>3. PICK at \in {"complete", "reconcile", "head"} :
          RunnerGoes(r, at) /\ (at = "complete" => stored' = grant)
    BY <1>3 DEF PutIfAbsent
  <2>4. at \in RunnerSteps
    BY DEF RunnerSteps
  <2>5. PICK m \in RunnerMemory : m.at = at /\ runner' = [runner EXCEPT ![r] = m]
    BY <2>3, <2>4, MovedRunner
  <2>6. Known(m)'
    BY <1>1, <1>2, <2>3, <2>5 DEF Known, Submitting, Decided
  <2> QED
    BY <1>1, <2>1, <2>2, <2>3, <2>5, <2>6, RequestMoves
<1>4. CASE CompleteUpload(r)
  <2>1. UNCHANGED <<stored, astray, runnerFaults>> /\ uploaded' = TRUE /\ stored = grant
    BY <1>2, <1>4 DEF CompleteUpload, RunnerAt
  <2>2. EvidenceLasts /\ ObjectDeclared'
    BY <1>1, <1>2, <2>1 DEF EvidenceLasts, EvidenceInv, ObjectDeclared
  <2> QED
    BY <1>1, <1>4, <2>1, <2>2, NoRunKnows, RequestMoves, VerificationAssumption DEF CompleteUpload, RunnerEnds
<1> QED
  BY <1>3, <1>4

LEMMA SubmitKeeps ==
  ASSUME EvidenceInv, NEW r \in Runners,
         \/ \E says \in Submissions : IngestEvidence(r, says)
         \/ FindUploadedGrant(r) \/ Adjudicate(r)
  PROVE  EvidenceInv'
<1> USE EvidenceTypes
<1>1. /\ UNCHANGED <<grant, expired, uploaded, stored, astray, evidence, inserting, told, runnerFaults>>
      /\ runner[r].at # "commit"
  BY DEF IngestEvidence, FindUploadedGrant, Adjudicate, uploadVars, evidenceVars, RunnerAt
<1>2. EvidenceLasts /\ ObjectDeclared'
  BY <1>1 DEF EvidenceLasts, EvidenceInv, ObjectDeclared
<1>3. \A m \in RunnerMemory :
        runner' = [runner EXCEPT ![r] = m] /\ Known(m) /\ m.at # "commit" => EvidenceInv'
  <2> SUFFICES ASSUME NEW m \in RunnerMemory, runner' = [runner EXCEPT ![r] = m], Known(m),
                      m.at # "commit"
               PROVE  EvidenceInv'
    OBVIOUS
  <2>1. Known(m)'
    BY <1>1 DEF Known
  <2> QED
    BY <1>1, <1>2, <2>1, RequestMoves
<1>4. runner[r] \in RunnerMemory /\ Known(runner[r])
  BY MovedRunner DEF RunnerSteps
<1>5. CASE \E says \in Submissions : IngestEvidence(r, says)
  <2> PICK says \in Submissions : IngestEvidence(r, says)
    BY <1>5
  <2> DEFINE m == [NoRun EXCEPT !.at = "prior", !.says = says]
  <2>1. m \in RunnerMemory /\ m.at = "prior" /\ m.says = says
    <3>1. NoRun \in RunnerMemory
      BY NoRunKnows, VerificationAssumption
    <3> QED
      BY <3>1 DEF NoRun, RunnerMemory, RunnerSteps
  <2>2. runner' = [runner EXCEPT ![r] = m]
    BY DEF IngestEvidence
  <2> HIDE DEF m
  <2>3. Known(m)
    BY <2>1 DEF Known, Redeeming, Decided
  <2> QED
    BY <1>3, <2>1, <2>2, <2>3
<1>6. \A d \in {"refused", "failed"} :
        runner[r].at \in Submitting /\ runner' = [runner EXCEPT ![r].at = "save", ![r].decision = d]
          => EvidenceInv'
  <2> SUFFICES ASSUME NEW d \in {"refused", "failed"}, runner[r].at \in Submitting,
                      runner' = [runner EXCEPT ![r].at = "save", ![r].decision = d]
               PROVE  EvidenceInv'
    OBVIOUS
  <2> DEFINE m == [runner[r] EXCEPT !.at = "save", !.decision = d]
  <2>1. m \in RunnerMemory /\ m.at = "save" /\ m.says = runner[r].says /\ m.decision = d
    BY <1>4 DEF RunnerMemory, RunnerSteps, EvidenceDecisions
  <2>2. runner' = [runner EXCEPT ![r] = m]
    BY <1>4 DEF RunnerMemory
  <2> HIDE DEF m
  <2>3. Known(m)
    BY <1>4, <2>1 DEF Known, Redeeming
  <2> QED
    BY <1>3, <2>1, <2>2, <2>3
<1>7. CASE FindUploadedGrant(r)
  <2>1. runner[r].at \in Submitting
    BY <1>7 DEF FindUploadedGrant, RunnerAt, Submitting
  <2>2. CASE runner[r].says.file # NoFile /\ ~(uploaded /\ grant = runner[r].says.file)
    BY <1>6, <1>7, <2>1, <2>2 DEF FindUploadedGrant
  <2>3. CASE ~ (runner[r].says.file # NoFile /\ ~(uploaded /\ grant = runner[r].says.file))
    <3>1. "objects" \in RunnerSteps /\ RunnerGoes(r, "objects")
      BY <1>7, <2>3 DEF FindUploadedGrant, RunnerSteps, RunnerGoes
    <3>2. Known(RunnerMoved(r, "objects"))
      BY <1>4, <2>1, <2>3, <3>1, MovedRunner DEF Known, Redeeming, Decided, Submitting
    <3> QED
      BY <1>3, <3>1, <3>2, MovedRunner
  <2> QED
    BY <2>2, <2>3
<1>8. CASE Adjudicate(r)
  <2>1. runner[r].at = "objects" /\ runner[r].at \in Submitting
    BY <1>8 DEF Adjudicate, RunnerAt, Submitting
  <2> DEFINE verified == /\ runner[r].says.report = "passing" /\ runner[r].says.file # NoFile
                         /\ stored = runner[r].says.file
  <2>2. CASE ~ verified
    BY <1>6, <1>8, <2>1, <2>2 DEF Adjudicate
  <2>3. CASE verified
    <3> DEFINE m == [runner[r] EXCEPT !.at = "save", !.decision = "verified"]
    <3>1. m \in RunnerMemory /\ m.at = "save" /\ m.says = runner[r].says /\ m.decision = "verified"
      BY <1>4 DEF RunnerMemory, RunnerSteps, EvidenceDecisions
    <3>2. runner' = [runner EXCEPT ![r] = m]
      BY <1>4, <1>8, <2>3 DEF Adjudicate, RunnerMemory
    <3> HIDE DEF m
    <3>3. uploaded /\ stored = m.says.file
      BY <1>4, <2>1, <2>3, <3>1, Zenon DEF Known
    <3>4. Known(m)
      BY <1>4, <2>1, <3>1, <3>3 DEF Known, Redeeming
    <3> QED
      BY <1>3, <3>1, <3>2, <3>4
  <2> QED
    BY <2>2, <2>3
<1> QED
  BY <1>5, <1>7, <1>8

\* The answer of a record is the right one.
LEMMA AnswerRight ==
  ASSUME EvidenceInv, NEW r \in Runners, Answer(r, AnswerFor(r)), evidence # NoEvidence,
         runner[r].says \in Submissions, UNCHANGED evidence
  PROVE  /\ told' \subseteq EvidenceAnswers
         /\ \A t \in told' : /\ evidence' # NoEvidence
                             /\ t.answer = IF t.says = evidence'.says THEN evidence'.decision ELSE "conflict"
<1> USE EvidenceTypes
<1> DEFINE a == [says |-> runner[r].says, answer |-> AnswerFor(r)]
<1>1. a \in EvidenceAnswers
  BY DEF EvidenceAnswers, AnswerFor, EvidenceRecord
<1>2. a.says = runner[r].says /\ a.answer = AnswerFor(r)
  OBVIOUS
<1>3. told' = told \cup {a}
  BY DEF Answer
<1> HIDE DEF a
<1>4. a.answer = IF a.says = evidence.says THEN evidence.decision ELSE "conflict"
  BY <1>2 DEF AnswerFor
<1>5. \A t \in told : t.answer = IF t.says = evidence.says THEN evidence.decision ELSE "conflict"
  BY DEF EvidenceInv, VerifiedIsStored
<1> QED
  BY <1>1, <1>3, <1>4, <1>5

LEMMA FindKeeps ==
  ASSUME EvidenceInv, NEW r \in Runners, FindExisting(r) \/ SaveEvidence(r)
  PROVE  EvidenceInv'
<1> USE EvidenceTypes
<1>1. UNCHANGED <<grant, expired, uploaded, stored, astray, evidence, runnerFaults>>
  BY DEF FindExisting, SaveEvidence, uploadVars
<1>2. runner[r] \in RunnerMemory /\ Known(runner[r]) /\ runner[r].says \in Submissions
        /\ runner[r].at \in {"prior", "save"}
  BY MovedRunner DEF RunnerSteps, Known, FindExisting, SaveEvidence, RunnerAt, Submitting
<1>3. evidence.decision = "verified" => uploaded /\ stored = evidence.says.file
  BY DEF EvidenceInv, VerifiedIsStored
<1>4. \A t \in told : /\ evidence # NoEvidence
                      /\ t.answer = IF t.says = evidence.says THEN evidence.decision ELSE "conflict"
  BY DEF EvidenceInv, VerifiedIsStored
<1>5. ASSUME RunnerEnds(r), Answer(r, AnswerFor(r)), evidence # NoEvidence, inserting' = inserting
      PROVE  EvidenceInv'
  <2>1. runner'[r] = NoRun /\ \A q \in Runners \ {r} : runner'[q] = runner[q]
    BY <1>5 DEF RunnerEnds
  <2>2. InsertsAlone'
    BY <1>1, <1>2, <1>5, <2>1, NoRunKnows DEF EvidenceInv, InsertsAlone, RunnerAt
  <2> QED
    BY <1>1, <1>2, <1>3, <1>5, <2>2, AnswerRight, NoRunKnows, RecordMoves, VerificationAssumption
    DEF RunnerEnds
<1>6. \A m \in RunnerMemory :
        runner' = [runner EXCEPT ![r] = m] /\ Known(m) /\ m.at # "commit" /\ evidence = NoEvidence
          /\ inserting' = inserting /\ told' = told => EvidenceInv'
  <2> SUFFICES ASSUME NEW m \in RunnerMemory, runner' = [runner EXCEPT ![r] = m], Known(m),
                      m.at # "commit", evidence = NoEvidence, inserting' = inserting, told' = told
               PROVE  EvidenceInv'
    OBVIOUS
  <2>1. runner'[r] = m /\ \A q \in Runners \ {r} : runner'[q] = runner[q]
    OBVIOUS
  <2>2. InsertsAlone'
    BY <1>1, <1>2, <2>1 DEF EvidenceInv, InsertsAlone, RunnerAt
  <2> QED
    BY <1>1, <1>3, <1>4, <2>2, RecordMoves
<1>7. CASE FindExisting(r)
  <2>1. inserting' = inserting /\ runner[r].at = "prior"
    BY <1>7 DEF FindExisting, RunnerAt
  <2>2. CASE evidence # NoEvidence
    BY <1>5, <1>7, <2>1, <2>2 DEF FindExisting
  <2>3. CASE evidence = NoEvidence /\ runner[r].says.report = "unsound"
    <3> DEFINE m == [runner[r] EXCEPT !.at = "save", !.decision = "refused"]
    <3>1. m \in RunnerMemory /\ m.at = "save" /\ m.says = runner[r].says /\ m.decision = "refused"
      BY <1>2 DEF RunnerMemory, RunnerSteps, EvidenceDecisions
    <3>2. runner' = [runner EXCEPT ![r] = m] /\ told' = told
      BY <1>2, <1>7, <2>3 DEF FindExisting, RunnerMemory
    <3> HIDE DEF m
    <3>3. Known(m)
      BY <1>2, <3>1 DEF Known, Redeeming
    <3> QED
      BY <1>6, <2>1, <2>3, <3>1, <3>2, <3>3
  <2>4. CASE evidence = NoEvidence /\ runner[r].says.report # "unsound"
    <3>1. "grants" \in RunnerSteps /\ RunnerGoes(r, "grants") /\ told' = told
      BY <1>7, <2>4 DEF FindExisting, RunnerSteps, RunnerGoes
    <3>2. Known(RunnerMoved(r, "grants"))
      BY <1>2, <3>1, MovedRunner DEF Known, Redeeming, Decided
    <3> QED
      BY <1>6, <2>1, <2>4, <3>1, <3>2, MovedRunner
  <2> QED
    BY <2>2, <2>3, <2>4
<1>8. CASE SaveEvidence(r)
  <2>1. inserting = NoRunner /\ runner[r].at = "save"
    BY <1>8 DEF SaveEvidence, RunnerAt
  <2>2. CASE evidence # NoEvidence
    BY <1>5, <1>8, <2>2 DEF SaveEvidence
  <2>3. CASE evidence = NoEvidence
    <3>1. "commit" \in RunnerSteps /\ RunnerGoes(r, "commit") /\ told' = told /\ inserting' = r
      BY <1>8, <2>3 DEF SaveEvidence, RunnerSteps
    <3>2. PICK m \in RunnerMemory : /\ runner' = [runner EXCEPT ![r] = m] /\ Known(m)
                                    /\ m.at = "commit"
      <4>1. Known(RunnerMoved(r, "commit"))
        BY <1>2, <2>1, <3>1, MovedRunner DEF Known, Redeeming, Decided
      <4> QED
        BY <3>1, <4>1, MovedRunner
    <3>3. runner'[r] = m /\ \A q \in Runners \ {r} : runner'[q] = runner[q]
      BY <3>2
    <3>4. InsertsAlone'
      BY <1>1, <2>1, <2>3, <3>1, <3>2, <3>3 DEF EvidenceInv, InsertsAlone, RunnerAt
    <3> QED
      BY <1>1, <1>3, <1>4, <3>1, <3>2, <3>4, RecordMoves
  <2> QED
    BY <2>2, <2>3
<1> QED
  BY <1>7, <1>8

LEMMA EvidenceCommitKeeps ==
  ASSUME EvidenceInv, NEW r \in Runners, CommitEvidence(r)
  PROVE  EvidenceInv'
<1> USE EvidenceTypes
<1>1. UNCHANGED <<grant, expired, uploaded, stored, astray, runnerFaults>> /\ inserting' = NoRunner
        /\ runner[r].at = "commit" /\ RunnerEnds(r)
  BY DEF CommitEvidence, uploadVars, RunnerAt
<1>2. runner[r] \in RunnerMemory /\ Known(runner[r])
  BY MovedRunner DEF RunnerSteps
<1>3. runner[r].says \in Submissions /\ runner[r].decision # "none"
        /\ (runner[r].decision = "verified" => uploaded /\ stored = runner[r].says.file)
  BY <1>1, <1>2, Zenon DEF Known, Submitting, Decided
<1>4. evidence = NoEvidence /\ inserting = r
  BY <1>1 DEF EvidenceInv, InsertsAlone, RunnerAt
<1>5. told = {}
  BY <1>4 DEF EvidenceInv, VerifiedIsStored
<1>6. /\ evidence' \in EvidenceRecord /\ evidence'.says = runner[r].says
      /\ evidence'.decision = runner[r].decision /\ evidence' # NoEvidence
  BY <1>2, <1>3 DEF CommitEvidence, EvidenceRecord, RunnerMemory, NoEvidence
<1> DEFINE a == [says |-> runner[r].says, answer |-> runner[r].decision]
<1>7. a \in EvidenceAnswers /\ a.says = runner[r].says /\ a.answer = runner[r].decision
  BY <1>2, <1>3 DEF EvidenceAnswers, RunnerMemory
<1>8. told' \subseteq {a}
  BY <1>5 DEF CommitEvidence, Answer
<1> HIDE DEF a
<1>9. /\ told' \subseteq EvidenceAnswers
      /\ \A t \in told' : /\ evidence' # NoEvidence
                          /\ t.answer = IF t.says = evidence'.says THEN evidence'.decision ELSE "conflict"
  BY <1>6, <1>7, <1>8
<1>10. runner'[r] = NoRun /\ \A q \in Runners \ {r} : runner'[q] = runner[q]
  BY <1>1 DEF RunnerEnds
<1>11. InsertsAlone'
  BY <1>1, <1>4, <1>10, NoRunKnows DEF EvidenceInv, InsertsAlone, RunnerAt
<1> QED
  BY <1>1, <1>3, <1>6, <1>9, <1>11, NoRunKnows, RecordMoves, VerificationAssumption DEF RunnerEnds

LEMMA RunnerCrashKeeps ==
  ASSUME EvidenceInv, NEW r \in Runners, RunnerCrash(r)
  PROVE  EvidenceInv'
<1> USE EvidenceTypes
<1>1. UNCHANGED <<grant, expired, uploaded, stored, evidence, told>> /\ RunnerEnds(r)
  BY DEF RunnerCrash
<1>2. runnerFaults' \in 0..MaxRunnerFaults
  BY VerificationAssumption DEF RunnerCrash, RunnerFault
<1>3. astray' \in Nat
  BY DEF RunnerCrash
<1>4. inserting' = IF inserting = r THEN NoRunner ELSE inserting
  BY DEF RunnerCrash
<1>5. runner'[r] = NoRun /\ \A q \in Runners \ {r} : runner'[q] = runner[q]
  BY <1>1 DEF RunnerEnds
<1>6. InsertsAlone'
  BY <1>1, <1>4, <1>5, NoRunKnows DEF EvidenceInv, InsertsAlone, RunnerAt
<1>7. evidence'.decision = "verified" => uploaded /\ stored = evidence'.says.file
  BY <1>1 DEF EvidenceInv, VerifiedIsStored
<1>8. \A t \in told' : /\ evidence' # NoEvidence
                       /\ t.answer = IF t.says = evidence'.says THEN evidence'.decision ELSE "conflict"
  BY <1>1 DEF EvidenceInv, VerifiedIsStored
<1> QED
  BY <1>1, <1>2, <1>3, <1>4, <1>6, <1>7, <1>8, NoRunKnows, RecordMoves, VerificationAssumption DEF RunnerEnds

LEMMA EvidenceInvNext == ASSUME EvidenceInv, [VerificationNext]_verificationVars PROVE EvidenceInv'
<1>1. CASE UNCHANGED verificationVars
  BY <1>1 DEF verificationVars, EvidenceInv, VerificationTypeOK, ObjectDeclared, RunnersKnow, Known,
    InsertsAlone, RunnerAt, VerifiedIsStored
<1>2. CASE VerificationNext
  BY <1>2, ObjectKeeps, RedeemKeeps, PutKeeps, SubmitKeeps, FindKeeps, EvidenceCommitKeeps, RunnerCrashKeeps
  DEF VerificationNext
<1> QED
  BY <1>1, <1>2

\* What counts as uploaded is in the store as declared, what a decision calls
\* verified is there, and all who submit under one key are told the decision on
\* record: for any number of requests, attempts, crashes and answers that are
\* lost (putIfAbsent, reconcileExisting, saveEvidence).
THEOREM VerifiedStaysStored == VerificationSpec => []VerifiedIsStored
<1>1. VerificationInit => EvidenceInv
  BY EvidenceInvInit
<1>2. EvidenceInv /\ [VerificationNext]_verificationVars => EvidenceInv'
  BY EvidenceInvNext
<1>3. EvidenceInv => VerifiedIsStored
  BY DEF EvidenceInv
<1> HIDE DEF EvidenceInv
<1> QED
  BY <1>1, <1>2, <1>3, PTL DEF VerificationSpec

-----------------------------------------------------------------------------
(* Company memory. *)

Version == [status : {"draft", "active", "archived"}, supersedes : Nat]
Decision ==
  [status : {"proposed", "accepted", "rejected", "superseded", "retired"},
   applicability : {"record", "guidance"}, supersedes : Nat]
CuratorReading == [op : {"none", "activate", "archive", "revise", "accept", "accepting", "reject", "retire"},
            row : Nat, prior : Nat,
            choice : {"none", "draft", "active", "keep", "record", "guidance"}]

\* A version, a decision is made from an earlier one.
MemoryTyped ==
  /\ knowledge \in Seq(Version) /\ decisionLog \in Seq(Decision)
  /\ curator \in [Curators -> CuratorReading] /\ asked \in Nat
  /\ \A v \in DOMAIN knowledge : knowledge[v].supersedes < v
  /\ \A d \in DOMAIN decisionLog : decisionLog[d].supersedes < d

\* Admins write rows that exist, and supersede what the row says.
Fits(m) ==
  /\ m.op \in {"activate", "archive", "revise"} => m.row \in DOMAIN knowledge
  /\ m.op \in {"accept", "accepting", "reject", "retire"} => m.row \in DOMAIN decisionLog
  /\ m.op = "revise" => m.choice \in {"draft", "active"}
  /\ m.op \in {"accept", "accepting"} => m.choice \in {"keep", "record", "guidance"}
  /\ m.op = "accepting" => m.prior \in {0, decisionLog[m.row].supersedes}
RowsRead == \A p \in Curators : Fits(curator[p])

\* A version that another is made from, or is about to be.  It is no draft, and
\* like an active one it has silenced the version it was made from.
MadeRow(v) ==
  \/ \E w \in DOMAIN knowledge : knowledge[w].supersedes = v
  \/ \E p \in Curators : curator[p].op = "revise" /\ curator[p].row = v
MadeIsNoDraft == \A v \in DOMAIN knowledge : MadeRow(v) => knowledge[v].status # "draft"
Silenced ==
  \A v \in DOMAIN knowledge :
    LET w == knowledge[v].supersedes
    IN w # 0 /\ (MadeRow(v) \/ knowledge[v].status = "active") /\ knowledge[w].status = "active"
         => w \in revived

\* An acceptance that found no accepted prior overtakes one that is accepted now.
Overtaken ==
  \A p \in Curators :
    LET x == decisionLog[curator[p].row].supersedes
    IN curator[p].op = "accepting" /\ curator[p].prior = 0 /\ x # 0 /\ decisionLog[x].status = "accepted"
         => x \in acceptedLast
SupersededOnce ==
  \A d \in DOMAIN decisionLog :
    LET x == decisionLog[d].supersedes
    IN x # 0 /\ decisionLog[d].status = "accepted" /\ decisionLog[x].status = "accepted"
         => x \in acceptedLast

MemoryInv ==
  /\ MemoryTyped /\ RowsRead
  /\ MadeIsNoDraft /\ Silenced
  /\ Overtaken /\ SupersededOnce

\* What an ancestor of an active version has been through holds of every
\* version in the chain: each has silenced the one before it.
LEMMA SilenceReaches ==
  ASSUME MemoryInv PROVE ReplacedIsSilent
<1>1. ASSUME NEW v \in DOMAIN knowledge, NEW w \in Ancestors(v),
             knowledge[v].status = "active", knowledge[w].status = "active"
      PROVE  w \in revived
  <2> DEFINE S == {x \in DOMAIN knowledge : MadeRow(x) /\ (knowledge[x].status = "active" => x \in revived)}
  <2>1. \A x \in S \cup {v} : knowledge[x].supersedes # 0 => knowledge[x].supersedes \in S
    <3> SUFFICES ASSUME NEW x \in S \cup {v}, knowledge[x].supersedes # 0
                 PROVE  knowledge[x].supersedes \in S
      OBVIOUS
    <3>1. x \in DOMAIN knowledge /\ (MadeRow(x) \/ knowledge[x].status = "active")
      BY <1>1
    <3>2. knowledge[x] \in Version /\ knowledge[x].supersedes < x
      BY <3>1, ElementOfSeq DEF MemoryInv, MemoryTyped
    <3>3. knowledge[x].supersedes \in DOMAIN knowledge
      BY <3>1, <3>2 DEF MemoryInv, MemoryTyped, Version
    <3>4. MadeRow(knowledge[x].supersedes)
      BY <3>1 DEF MadeRow
    <3> QED
      BY <3>1, <3>3, <3>4 DEF MemoryInv, Silenced
  <2>2. S \in SUBSET DOMAIN knowledge
    OBVIOUS
  <2> HIDE DEF S
  <2>3. w \in S
    BY <1>1, <2>1, <2>2 DEF Ancestors
  <2> QED
    BY <1>1, <2>3 DEF S
<1>2. \A d \in DOMAIN decisionLog :
        LET prior == decisionLog[d].supersedes
        IN prior # 0 /\ decisionLog[d].status = "accepted" /\ decisionLog[prior].status = "accepted"
             => prior \in acceptedLast
  BY DEF MemoryInv, SupersededOnce
<1> QED
  BY <1>1, <1>2 DEF ReplacedIsSilent

LEMMA MemoryInvInit == ASSUME CompanyMemoryInit PROVE MemoryInv
<1>1. AtRest \in CuratorReading
  BY DEF AtRest, CuratorReading
<1> QED
  BY <1>1 DEF CompanyMemoryInit, MemoryInv, MemoryTyped, RowsRead, MadeIsNoDraft, Silenced, Overtaken,
    SupersededOnce, Fits, AtRest

LEMMA SameDomain ==
  ASSUME NEW S, NEW s \in Seq(S), NEW f, f \in [DOMAIN s -> S]
  PROVE  f \in Seq(S) /\ DOMAIN f = DOMAIN s
BY LenProperties, SeqDef

LEMMA AppendedRow ==
  ASSUME NEW S, NEW s \in Seq(S), NEW e \in S
  PROVE  /\ Append(s, e) \in Seq(S) /\ Len(s) \in Nat /\ DOMAIN s = 1 .. Len(s)
         /\ DOMAIN Append(s, e) = DOMAIN s \cup {Len(s) + 1}
         /\ Len(s) + 1 \notin DOMAIN s /\ Append(s, e)[Len(s) + 1] = e
         /\ \A v \in DOMAIN s : Append(s, e)[v] = s[v]
BY AppendProperties, LenProperties

LEMMA MemoryTypes ==
  ASSUME MemoryInv
  PROVE  /\ knowledge \in Seq(Version) /\ decisionLog \in Seq(Decision)
         /\ Len(knowledge) \in Nat /\ DOMAIN knowledge = 1 .. Len(knowledge)
         /\ Len(decisionLog) \in Nat /\ DOMAIN decisionLog = 1 .. Len(decisionLog)
         /\ \A v \in DOMAIN knowledge : /\ knowledge[v] \in Version
                                        /\ knowledge[v].supersedes \in {0} \cup DOMAIN knowledge
                                        /\ knowledge[v].supersedes # v
         /\ \A d \in DOMAIN decisionLog : /\ decisionLog[d] \in Decision
                                          /\ decisionLog[d].supersedes \in {0} \cup DOMAIN decisionLog
                                          /\ decisionLog[d].supersedes # d
         /\ curator \in [Curators -> CuratorReading] /\ asked \in Nat
         /\ \A p \in Curators : Fits(curator[p])
<1>1. /\ knowledge \in Seq(Version) /\ decisionLog \in Seq(Decision)
      /\ curator \in [Curators -> CuratorReading] /\ asked \in Nat
      /\ \A p \in Curators : Fits(curator[p])
  BY DEF MemoryInv, MemoryTyped, RowsRead
<1>2. /\ Len(knowledge) \in Nat /\ DOMAIN knowledge = 1 .. Len(knowledge)
      /\ Len(decisionLog) \in Nat /\ DOMAIN decisionLog = 1 .. Len(decisionLog)
  BY <1>1, LenProperties
<1>3. ASSUME NEW v \in DOMAIN knowledge
      PROVE  /\ knowledge[v] \in Version /\ knowledge[v].supersedes # v
             /\ knowledge[v].supersedes \in {0} \cup DOMAIN knowledge
  <2>1. knowledge[v] \in Version
    BY <1>1, <1>2, ElementOfSeq
  <2>2. knowledge[v].supersedes \in Nat /\ knowledge[v].supersedes < v /\ v \in Nat
    BY <1>2, <2>1 DEF MemoryInv, MemoryTyped, Version
  <2> QED
    BY <1>2, <2>1, <2>2
<1>4. ASSUME NEW d \in DOMAIN decisionLog
      PROVE  /\ decisionLog[d] \in Decision /\ decisionLog[d].supersedes # d
             /\ decisionLog[d].supersedes \in {0} \cup DOMAIN decisionLog
  <2>1. decisionLog[d] \in Decision
    BY <1>1, <1>2, ElementOfSeq
  <2>2. decisionLog[d].supersedes \in Nat /\ decisionLog[d].supersedes < d /\ d \in Nat
    BY <1>2, <2>1 DEF MemoryInv, MemoryTyped, Decision
  <2> QED
    BY <1>2, <2>1, <2>2
<1> QED
  BY <1>1, <1>2, <1>3, <1>4

\* Rows stay, so who has read one still fits.
LEMMA RowsStay ==
  ASSUME MemoryInv,
         \A v \in DOMAIN knowledge : v \in DOMAIN knowledge',
         \A d \in DOMAIN decisionLog : /\ d \in DOMAIN decisionLog'
                                       /\ decisionLog'[d].supersedes = decisionLog[d].supersedes,
         \A q \in Curators : curator'[q] = curator[q] \/ Fits(curator'[q])
  PROVE  RowsRead'
<1> SUFFICES ASSUME NEW q \in Curators PROVE Fits(curator[q])'
  BY DEF RowsRead
<1>1. Fits(curator[q])
  BY MemoryTypes
<1>2. Fits(curator'[q])
  BY <1>1
<1> QED
  BY <1>2 DEF Fits

\* The knowledge is left alone, and who turns to revise a version found it active.
LEMMA KnowledgeStays ==
  ASSUME MemoryInv, UNCHANGED <<knowledge, revived>>,
         \A q \in Curators :
           curator'[q].op = "revise" =>
             curator'[q] = curator[q] \/ knowledge[curator'[q].row].status = "active"
  PROVE  MadeIsNoDraft' /\ Silenced'
<1>1. \A v \in DOMAIN knowledge : MadeRow(v)' => MadeRow(v) \/ knowledge[v].status = "active"
  BY DEF MadeRow
<1>2. MadeIsNoDraft'
  <2> SUFFICES ASSUME NEW v \in DOMAIN knowledge, MadeRow(v)' PROVE knowledge[v].status # "draft"
    BY DEF MadeIsNoDraft
  <2> QED
    BY <1>1 DEF MemoryInv, MadeIsNoDraft
<1>3. Silenced'
  <2> SUFFICES ASSUME NEW v \in DOMAIN knowledge, knowledge[v].supersedes # 0,
                      MadeRow(v)' \/ knowledge[v].status = "active",
                      knowledge[knowledge[v].supersedes].status = "active"
               PROVE  knowledge[v].supersedes \in revived
    BY DEF Silenced
  <2> QED
    BY <1>1 DEF MemoryInv, Silenced
<1> QED
  BY <1>2, <1>3

\* The decisions are left alone, and who has begun to accept one with a prior
\* found that prior not accepted, or took it.
LEMMA DecisionsStay ==
  ASSUME MemoryInv, UNCHANGED <<decisionLog, acceptedLast>>,
         \A q \in Curators :
           curator'[q].op = "accepting" =>
             \/ curator'[q] = curator[q]
             \/ LET x == decisionLog[curator'[q].row].supersedes
                IN curator'[q].prior = 0 /\ x # 0 => decisionLog[x].status # "accepted"
  PROVE  Overtaken' /\ SupersededOnce'
<1>1. SupersededOnce'
  BY DEF MemoryInv, SupersededOnce
<1>2. Overtaken'
  <2> SUFFICES ASSUME NEW q \in Curators, curator'[q].op = "accepting", curator'[q].prior = 0,
                      decisionLog[curator'[q].row].supersedes # 0,
                      decisionLog[decisionLog[curator'[q].row].supersedes].status = "accepted"
               PROVE  decisionLog[curator'[q].row].supersedes \in acceptedLast
    BY DEF Overtaken
  <2>1. curator'[q] = curator[q]
    OBVIOUS
  <2> QED
    BY <2>1 DEF MemoryInv, Overtaken
<1> QED
  BY <1>1, <1>2

\* A request that only reads, begins to accept, or ends without a trace.
LEMMA CuratorMoves ==
  ASSUME MemoryInv, UNCHANGED <<knowledge, decisionLog, revived, acceptedLast>>, asked' \in Nat,
         NEW p \in Curators, NEW m \in CuratorReading, curator' = [curator EXCEPT ![p] = m], Fits(m),
         m.op = "revise" => knowledge[m.row].status = "active",
         m.op = "accepting" =>
           LET x == decisionLog[m.row].supersedes
           IN m.prior = 0 /\ x # 0 => decisionLog[x].status # "accepted"
  PROVE  MemoryInv'
<1>1. /\ curator' \in [Curators -> CuratorReading] /\ curator'[p] = m
      /\ \A q \in Curators \ {p} : curator'[q] = curator[q]
  BY MemoryTypes
<1>2. MemoryTyped'
  BY <1>1 DEF MemoryInv, MemoryTyped
<1>3. RowsRead'
  <2>1. \A q \in Curators : curator'[q] = curator[q] \/ Fits(curator'[q])
    BY <1>1
  <2> QED
    BY <2>1, RowsStay
<1>4. MadeIsNoDraft' /\ Silenced'
  <2>1. \A q \in Curators : curator'[q].op = "revise" =>
          curator'[q] = curator[q] \/ knowledge[curator'[q].row].status = "active"
    BY <1>1
  <2> QED
    BY <2>1, KnowledgeStays
<1>5. Overtaken' /\ SupersededOnce'
  <2>1. \A q \in Curators : curator'[q].op = "accepting" =>
          \/ curator'[q] = curator[q]
          \/ LET x == decisionLog[curator'[q].row].supersedes
             IN curator'[q].prior = 0 /\ x # 0 => decisionLog[x].status # "accepted"
    BY <1>1
  <2> QED
    BY <2>1, DecisionsStay
<1> QED
  BY <1>2, <1>3, <1>4, <1>5 DEF MemoryInv

LEMMA RestFits == AtRest \in CuratorReading /\ Fits(AtRest) /\ AtRest.op = "none"
BY DEF AtRest, CuratorReading, Fits

LEMMA ReadKeeps ==
  ASSUME MemoryInv, NEW p \in Curators,
         \/ \E v \in 1..MaxVersions : ReadKnowledge(p, v)
         \/ \E d \in 1..MaxDecisions : ReadDecision(p, d)
  PROVE  MemoryInv'
<1>1. ASSUME NEW op \in {"activate", "archive", "revise", "accept", "reject", "retire"}, NEW row \in Nat,
             NEW choice \in {"none", "draft", "active", "keep", "record", "guidance"},
             Reads(p, op, row, choice),
             op \in {"activate", "archive", "revise"} => row \in DOMAIN knowledge,
             op \in {"accept", "reject", "retire"} => row \in DOMAIN decisionLog,
             op = "revise" => choice \in {"draft", "active"} /\ knowledge[row].status = "active",
             op = "accept" => choice \in {"keep", "record", "guidance"}
      PROVE  MemoryInv'
  <2> DEFINE m == [AtRest EXCEPT !.op = op, !.row = row, !.choice = choice]
  <2>1. m \in CuratorReading /\ m.op = op /\ m.row = row /\ m.choice = choice
    BY DEF AtRest, CuratorReading
  <2>2. curator' = [curator EXCEPT ![p] = m] /\ UNCHANGED <<knowledge, decisionLog, revived, acceptedLast>>
    BY <1>1 DEF Reads
  <2>3. asked' \in Nat
    BY <1>1, MemoryTypes DEF Reads, Requested
  <2> HIDE DEF m
  <2>4. Fits(m)
    BY <1>1, <2>1 DEF Fits
  <2> QED
    BY <1>1, <2>1, <2>2, <2>3, <2>4, CuratorMoves
<1>2. ASSUME NEW v \in 1..MaxVersions, ReadKnowledge(p, v) PROVE MemoryInv'
  <2>1. v \in DOMAIN knowledge /\ v \in Nat
    BY <1>2, MemoryTypes DEF ReadKnowledge
  <2>2. CASE Reads(p, "activate", v, "none") \/ Reads(p, "archive", v, "none")
    BY <1>1, <2>1, <2>2
  <2>3. CASE knowledge[v].status = "active" /\ \E status \in {"draft", "active"} : Reads(p, "revise", v, status)
    BY <1>1, <2>1, <2>3
  <2> QED
    BY <1>2, <2>2, <2>3 DEF ReadKnowledge
<1>3. ASSUME NEW d \in 1..MaxDecisions, ReadDecision(p, d) PROVE MemoryInv'
  <2>1. d \in DOMAIN decisionLog /\ d \in Nat
    BY <1>3, MemoryTypes DEF ReadDecision
  <2>2. CASE Reads(p, "reject", d, "none") \/ Reads(p, "retire", d, "none")
    BY <1>1, <2>1, <2>2
  <2>3. CASE \E promote \in {"keep", "record", "guidance"} : Reads(p, "accept", d, promote)
    BY <1>1, <2>1, <2>3
  <2> QED
    BY <1>3, <2>2, <2>3 DEF ReadDecision
<1> QED
  BY <1>2, <1>3

LEMMA AcceptKeeps ==
  ASSUME MemoryInv, NEW p \in Curators, Accept(p) \/ MemoryRollback(p)
  PROVE  MemoryInv'
<1>1. UNCHANGED <<knowledge, decisionLog, revived, acceptedLast>> /\ asked' \in Nat
  BY MemoryTypes DEF Accept, MemoryRollback
<1>2. CASE MemoryRollback(p)
  BY <1>1, <1>2, RestFits, CuratorMoves DEF MemoryRollback
<1>3. CASE Accept(p)
  <2> DEFINE d == curator[p].row
             x == decisionLog[d].supersedes
             prior == IF x # 0 /\ decisionLog[x].status = "accepted" THEN x ELSE 0
             m == [curator[p] EXCEPT !.op = "accepting", !.prior = prior]
  <2>1. curator[p] \in CuratorReading /\ Fits(curator[p]) /\ curator[p].op = "accept"
    BY <1>3, MemoryTypes DEF Accept
  <2>2. d \in DOMAIN decisionLog /\ curator[p].choice \in {"keep", "record", "guidance"}
    BY <2>1 DEF Fits
  <2>3. x \in Nat /\ prior \in {0, x}
    BY <2>2, MemoryTypes
  <2> HIDE DEF prior
  <2>4. /\ m \in CuratorReading /\ m.op = "accepting" /\ m.row = d /\ m.prior = prior
        /\ m.choice = curator[p].choice
    <3>1. prior \in Nat
      BY <2>3
    <3>2. m \in CuratorReading
      BY <2>1, <3>1 DEF CuratorReading
    <3> QED
      BY <2>1, <3>2 DEF CuratorReading
  <2>5. curator' = [curator EXCEPT ![p] = m]
    BY <1>3, <2>1, MemoryTypes DEF Accept, CuratorReading, prior
  <2> HIDE DEF m
  <2>6. Fits(m)
    BY <2>2, <2>3, <2>4 DEF Fits
  <2>7. m.prior = 0 /\ x # 0 => decisionLog[x].status # "accepted"
    BY <2>4 DEF prior
  <2> QED
    BY <1>1, <2>4, <2>5, <2>6, <2>7, CuratorMoves
<1> QED
  BY <1>2, <1>3

\* A new version; what it is made from is archived if it is active at once.
LEMMA VersionAdded ==
  ASSUME MemoryInv, UNCHANGED <<decisionLog, revived, acceptedLast>>, asked' \in Nat,
         curator' \in [Curators -> CuratorReading],
         \A q \in Curators : curator'[q] = curator[q] \/ curator'[q] = AtRest,
         NEW k \in Seq(Version), DOMAIN k = DOMAIN knowledge,
         \A v \in DOMAIN knowledge : /\ k[v].supersedes = knowledge[v].supersedes
                                     /\ k[v].status \in {knowledge[v].status, "archived"},
         NEW n \in Version, n.supersedes = 0 \/ n.supersedes \in DOMAIN knowledge,
         n.supersedes # 0 => MadeRow(n.supersedes),
         n.status = "active" /\ n.supersedes # 0 => k[n.supersedes].status # "active",
         knowledge' = Append(k, n)
  PROVE  MemoryInv'
<1> DEFINE new == Len(k) + 1
<1>1. /\ knowledge' \in Seq(Version) /\ Len(k) \in Nat
      /\ DOMAIN knowledge' = DOMAIN knowledge \cup {new} /\ new \notin DOMAIN knowledge
      /\ knowledge'[new] = n /\ \A v \in DOMAIN knowledge : knowledge'[v] = k[v]
      /\ DOMAIN knowledge = 1 .. Len(k)
  BY AppendedRow
<1>2. \A v \in DOMAIN knowledge' : knowledge'[v].supersedes < v
  <2>1. n.supersedes < new
    BY <1>1 DEF Version
  <2>2. \A v \in DOMAIN knowledge : knowledge'[v].supersedes < v
    BY <1>1 DEF MemoryInv, MemoryTyped
  <2> QED
    BY <1>1, <2>1, <2>2
<1>3. MemoryTyped'
  BY <1>1, <1>2 DEF MemoryInv, MemoryTyped
<1>4. RowsRead'
  <2>1. \A q \in Curators : curator'[q] = curator[q] \/ Fits(curator'[q])
    BY RestFits
  <2> QED
    BY <1>1, <2>1, RowsStay
<1>5. Overtaken' /\ SupersededOnce'
  BY DecisionsStay, RestFits
<1>6. \A v \in DOMAIN knowledge : MadeRow(v)' => MadeRow(v)
  <2> SUFFICES ASSUME NEW v \in DOMAIN knowledge, MadeRow(v)' PROVE MadeRow(v)
    OBVIOUS
  <2>1. CASE \E w \in DOMAIN knowledge' : knowledge'[w].supersedes = v
    <3> PICK w \in DOMAIN knowledge' : knowledge'[w].supersedes = v
      BY <2>1
    <3>1. CASE w = new
      <4>1. n.supersedes = v /\ v # 0
        BY <1>1, <3>1
      <4> QED
        BY <4>1
    <3>2. CASE w # new
      BY <1>1, <3>2 DEF MadeRow
    <3> QED
      BY <3>1, <3>2
  <2>2. CASE \E p \in Curators : curator'[p].op = "revise" /\ curator'[p].row = v
    BY <2>2, RestFits DEF MadeRow
  <2> QED
    BY <2>1, <2>2 DEF MadeRow
<1>7. ~ MadeRow(new)'
  <2>1. \A w \in DOMAIN knowledge' : knowledge'[w].supersedes # new
    <3>1. n.supersedes # new
      BY <1>1
    <3>2. \A w \in DOMAIN knowledge : knowledge'[w].supersedes # new
      BY <1>1, MemoryTypes
    <3> QED
      BY <1>1, <3>1, <3>2
  <2>2. \A q \in Curators : ~ (curator'[q].op = "revise" /\ curator'[q].row = new)
    BY <1>1, RestFits, MemoryTypes DEF Fits
  <2> QED
    BY <2>1, <2>2 DEF MadeRow
<1> HIDE DEF new
<1>8. MadeIsNoDraft'
  <2> SUFFICES ASSUME NEW v \in DOMAIN knowledge', MadeRow(v)' PROVE knowledge'[v].status # "draft"
    BY DEF MadeIsNoDraft
  <2>1. v \in DOMAIN knowledge
    BY <1>1, <1>7
  <2>2. knowledge[v].status # "draft"
    BY <1>6, <2>1 DEF MemoryInv, MadeIsNoDraft
  <2> QED
    BY <1>1, <2>1, <2>2
<1>9. Silenced'
  <2> SUFFICES ASSUME NEW v \in DOMAIN knowledge', knowledge'[v].supersedes # 0,
                      MadeRow(v)' \/ knowledge'[v].status = "active",
                      knowledge'[knowledge'[v].supersedes].status = "active"
               PROVE  knowledge'[v].supersedes \in revived
    BY DEF Silenced
  <2>1. CASE v = new
    <3>1. n.status = "active" /\ n.supersedes \in DOMAIN knowledge
      BY <1>1, <1>7, <2>1
    <3>2. k[n.supersedes].status # "active"
      BY <1>1, <2>1, <3>1
    <3> QED
      BY <1>1, <2>1, <3>1, <3>2
  <2>2. CASE v \in DOMAIN knowledge
    <3>1. knowledge'[v].supersedes = knowledge[v].supersedes
            /\ (knowledge'[v].status = "active" => knowledge[v].status = "active")
      BY <1>1, <2>2
    <3>2. knowledge[v].supersedes \in DOMAIN knowledge
      BY <2>2, <3>1, MemoryTypes
    <3>3. knowledge[knowledge[v].supersedes].status = "active"
      BY <1>1, <3>1, <3>2
    <3> QED
      BY <1>6, <2>2, <3>1, <3>3 DEF MemoryInv, Silenced
  <2> QED
    BY <1>1, <2>1, <2>2
<1> QED
  BY <1>3, <1>4, <1>5, <1>8, <1>9 DEF MemoryInv

LEMMA CreateMemoryKeeps ==
  ASSUME MemoryInv, NEW p \in Curators, NEW status \in {"draft", "active"}, CreateKnowledge(p, status)
  PROVE  MemoryInv'
<1> DEFINE n == [status |-> status, supersedes |-> 0]
<1>1. n \in Version /\ n.supersedes = 0
  BY DEF Version
<1>2. knowledge' = Append(knowledge, n) /\ UNCHANGED <<decisionLog, curator, revived, acceptedLast>>
  BY DEF CreateKnowledge
<1> HIDE DEF n
<1>3. asked' \in Nat
  BY MemoryTypes DEF CreateKnowledge, Requested
<1> QED
  BY <1>1, <1>2, <1>3, MemoryTypes, VersionAdded

LEMMA DoneRests ==
  ASSUME MemoryInv, NEW p \in Curators, NEW op, Done(p, op)
  PROVE  /\ curator[p].op = op /\ curator[p] \in CuratorReading /\ Fits(curator[p]) /\ asked' \in Nat
         /\ curator' = [curator EXCEPT ![p] = AtRest] /\ curator' \in [Curators -> CuratorReading]
         /\ curator'[p] = AtRest /\ \A q \in Curators \ {p} : curator'[q] = curator[q]
         /\ \A q \in Curators : curator'[q] = curator[q] \/ curator'[q] = AtRest
BY MemoryTypes, RestFits DEF Done

LEMMA ReviseMemoryKeeps ==
  ASSUME MemoryInv, NEW p \in Curators, ReviseKnowledge(p)
  PROVE  MemoryInv'
<1> DEFINE v == curator[p].row
           status == curator[p].choice
           k == IF status = "active" THEN [knowledge EXCEPT ![v].status = "archived"] ELSE knowledge
           n == [status |-> status, supersedes |-> v]
<1>1. Done(p, "revise") /\ UNCHANGED <<decisionLog, revived, acceptedLast>>
  BY DEF ReviseKnowledge
<1>2. v \in DOMAIN knowledge /\ status \in {"draft", "active"} /\ MadeRow(v) /\ v \in Nat
  BY <1>1, DoneRests, MemoryTypes DEF Fits, MadeRow
<1>3. n \in Version /\ n.supersedes = v /\ n.status = status
  BY <1>2 DEF Version
<1>4. knowledge' = Append(k, n)
  BY DEF ReviseKnowledge
<1>5. /\ DOMAIN k = DOMAIN knowledge
      /\ k \in [DOMAIN knowledge -> Version]
      /\ \A w \in DOMAIN knowledge : /\ k[w].supersedes = knowledge[w].supersedes
                                     /\ k[w].status \in {knowledge[w].status, "archived"}
      /\ status = "active" => k[v].status = "archived"
  <2>1. knowledge \in [DOMAIN knowledge -> Version]
    BY MemoryTypes
  <2>2. CASE status # "active"
    BY <2>1, <2>2
  <2>3. CASE status = "active"
    <3> DEFINE f == [knowledge EXCEPT ![v].status = "archived"]
    <3>1. /\ f \in [DOMAIN knowledge -> Version] /\ f[v].status = "archived"
          /\ f[v].supersedes = knowledge[v].supersedes
          /\ \A w \in DOMAIN knowledge \ {v} : f[w] = knowledge[w]
      BY <1>2, <2>1 DEF Version
    <3>2. k = f
      BY <2>3
    <3> HIDE DEF f, k
    <3> QED
      BY <1>2, <3>1, <3>2
  <2> QED
    BY <2>2, <2>3
<1> HIDE DEF k, n
<1>6. k \in Seq(Version)
  BY <1>5, MemoryTypes, SameDomain
<1>7. n.status = "active" => k[n.supersedes].status # "active"
  BY <1>3, <1>5
<1> QED
  BY <1>1, <1>2, <1>3, <1>4, <1>5, <1>6, <1>7, DoneRests, VersionAdded

\* Statuses of versions are written by id.
LEMMA VersionsWritten ==
  ASSUME MemoryInv, NEW p \in Curators, NEW op, Done(p, op), UNCHANGED <<decisionLog, acceptedLast>>,
         knowledge' \in [DOMAIN knowledge -> Version],
         \A v \in DOMAIN knowledge : knowledge'[v].supersedes = knowledge[v].supersedes,
         \A v \in DOMAIN knowledge : knowledge'[v].status = "draft" => knowledge[v].status = "draft",
         Silenced'
  PROVE  MemoryInv'
<1>1. knowledge' \in Seq(Version) /\ DOMAIN knowledge' = DOMAIN knowledge
  BY MemoryTypes, SameDomain
<1>2. MemoryTyped'
  BY <1>1, DoneRests DEF MemoryInv, MemoryTyped
<1>3. RowsRead'
  <2>1. \A q \in Curators : curator'[q] = curator[q] \/ Fits(curator'[q])
    BY DoneRests, RestFits
  <2> QED
    BY <1>1, <2>1, RowsStay
<1>4. Overtaken' /\ SupersededOnce'
  BY DecisionsStay, DoneRests, RestFits
<1>5. MadeIsNoDraft'
  <2> SUFFICES ASSUME NEW v \in DOMAIN knowledge, MadeRow(v)' PROVE knowledge'[v].status # "draft"
    BY <1>1 DEF MadeIsNoDraft
  <2>1. MadeRow(v)
    BY <1>1, DoneRests, RestFits DEF MadeRow
  <2> QED
    BY <2>1 DEF MemoryInv, MadeIsNoDraft
<1> QED
  BY <1>2, <1>3, <1>4, <1>5 DEF MemoryInv

LEMMA ArchiveKeeps ==
  ASSUME MemoryInv, NEW p \in Curators, ArchiveKnowledge(p)
  PROVE  MemoryInv'
<1> DEFINE r == curator[p].row
<1>1. /\ Done(p, "archive") /\ UNCHANGED <<decisionLog, revived, acceptedLast>>
      /\ knowledge' = [knowledge EXCEPT ![r].status = "archived"]
  BY DEF ArchiveKnowledge
<1>2. r \in DOMAIN knowledge
  BY <1>1, DoneRests DEF Fits
<1>3. knowledge \in [DOMAIN knowledge -> Version]
  BY MemoryTypes
<1>4. /\ knowledge' \in [DOMAIN knowledge -> Version]
      /\ knowledge'[r].status = "archived" /\ knowledge'[r].supersedes = knowledge[r].supersedes
      /\ \A v \in DOMAIN knowledge \ {r} : knowledge'[v] = knowledge[v]
  BY <1>1, <1>2, <1>3 DEF Version
<1>5. /\ \A v \in DOMAIN knowledge : knowledge'[v].supersedes = knowledge[v].supersedes
      /\ \A v \in DOMAIN knowledge :
           knowledge'[v].status # knowledge[v].status => knowledge'[v].status = "archived"
  BY <1>4
<1>6. Silenced'
  <2> SUFFICES ASSUME NEW v \in DOMAIN knowledge, knowledge[v].supersedes # 0,
                      MadeRow(v)' \/ knowledge'[v].status = "active",
                      knowledge'[knowledge[v].supersedes].status = "active"
               PROVE  knowledge[v].supersedes \in revived
    BY <1>1, <1>4, <1>5 DEF Silenced
  <2>1. MadeRow(v)' => MadeRow(v)
    BY <1>1, <1>4, <1>5, DoneRests, RestFits DEF MadeRow
  <2>2. knowledge[v].supersedes \in DOMAIN knowledge
    BY MemoryTypes
  <2>3. knowledge[knowledge[v].supersedes].status = "active"
    BY <1>5, <2>2
  <2>4. MadeRow(v) \/ knowledge[v].status = "active"
    BY <1>5, <2>1
  <2> QED
    BY <2>3, <2>4 DEF MemoryInv, Silenced
<1>7. \A v \in DOMAIN knowledge : knowledge'[v].status = "draft" => knowledge[v].status = "draft"
  BY <1>5
<1> HIDE DEF r
<1> QED
  BY <1>1, <1>4, <1>5, <1>6, <1>7, VersionsWritten

LEMMA ActivateKeeps ==
  ASSUME MemoryInv, NEW p \in Curators, ActivateKnowledge(p)
  PROVE  MemoryInv'
<1> DEFINE r == curator[p].row
           prior == knowledge[r].supersedes
<1>1. /\ Done(p, "activate") /\ UNCHANGED <<decisionLog, acceptedLast>>
      /\ knowledge' = [w \in DOMAIN knowledge |->
           IF w = r THEN [knowledge[w] EXCEPT !.status = "active"]
           ELSE IF w = prior THEN [knowledge[w] EXCEPT !.status = "archived"]
           ELSE knowledge[w]]
      /\ revived' = IF knowledge[r].status = "draft" THEN revived ELSE revived \cup {r}
  BY DEF ActivateKnowledge
<1>2. r \in DOMAIN knowledge
  BY <1>1, DoneRests DEF Fits
<1>3. \A v \in DOMAIN knowledge : knowledge[v] \in Version
  BY MemoryTypes
<1>4. prior # r
  BY <1>2, MemoryTypes
<1> HIDE DEF r, prior
<1>5. ASSUME NEW v \in DOMAIN knowledge
      PROVE  /\ knowledge'[v] \in Version /\ knowledge'[v].supersedes = knowledge[v].supersedes
             /\ v = r => knowledge'[v].status = "active"
             /\ v = prior => knowledge'[v].status = "archived"
             /\ v # r /\ v # prior => knowledge'[v] = knowledge[v]
  <2>1. CASE v = r
    BY <1>1, <1>3, <1>4, <2>1 DEF Version
  <2>2. CASE v # r /\ v = prior
    BY <1>1, <1>3, <1>4, <2>2 DEF Version
  <2>3. CASE v # r /\ v # prior
    BY <1>1, <1>3, <1>4, <2>3
  <2> QED
    BY <2>1, <2>2, <2>3
<1>6. knowledge' \in [DOMAIN knowledge -> Version]
  <2>1. DOMAIN knowledge' = DOMAIN knowledge
    BY <1>1
  <2> QED
    BY <1>1, <1>5, <2>1
<1>7. \A v \in DOMAIN knowledge : knowledge'[v].status = "draft" => knowledge[v].status = "draft"
  BY <1>5
<1>8. Silenced'
  <2> SUFFICES ASSUME NEW v \in DOMAIN knowledge, knowledge[v].supersedes # 0,
                      MadeRow(v)' \/ knowledge'[v].status = "active",
                      knowledge'[knowledge[v].supersedes].status = "active"
               PROVE  knowledge[v].supersedes \in revived'
    BY <1>5, <1>6 DEF Silenced
  <2> DEFINE x == knowledge[v].supersedes
  <2>1. MadeRow(v)' => MadeRow(v)
    BY <1>5, <1>6, <1>1, DoneRests, RestFits DEF MadeRow
  <2>2. x \in DOMAIN knowledge /\ x # prior
    BY <1>5, MemoryTypes
  <2>3. v # r
    BY <2>2 DEF prior
  <2>4. MadeRow(v) \/ knowledge[v].status = "active"
    BY <1>5, <2>1, <2>3
  <2>5. CASE x = r
    <3>1. MadeRow(r)
      BY <2>5 DEF MadeRow
    <3>2. knowledge[r].status # "draft"
      BY <1>2, <3>1 DEF MemoryInv, MadeIsNoDraft
    <3> QED
      BY <1>1, <2>5, <3>2
  <2>6. CASE x # r
    <3>1. knowledge[x].status = "active"
      BY <1>5, <2>2, <2>6
    <3>2. x \in revived
      BY <2>4, <3>1 DEF MemoryInv, Silenced
    <3> QED
      BY <1>1, <3>2
  <2> QED
    BY <2>5, <2>6
<1> QED
  BY <1>1, <1>5, <1>6, <1>7, <1>8, VersionsWritten

LEMMA CreateDecisionKeeps ==
  ASSUME MemoryInv, NEW p \in Curators, NEW applicability \in {"record", "guidance"}, NEW prior,
         CreateDecision(p, applicability, prior)
  PROVE  MemoryInv'
<1> DEFINE n == [status |-> "proposed", applicability |-> applicability, supersedes |-> prior]
           new == Len(decisionLog) + 1
<1>1. /\ prior \in 0 .. Len(decisionLog) /\ decisionLog' = Append(decisionLog, n)
      /\ UNCHANGED <<knowledge, curator, revived, acceptedLast>>
  BY DEF CreateDecision
<1>2. asked' \in Nat
  BY MemoryTypes DEF CreateDecision, Requested
<1>3. n \in Decision /\ n.status = "proposed" /\ n.supersedes = prior /\ prior \in Nat /\ prior < new
  BY <1>1, MemoryTypes DEF Decision
<1> HIDE DEF n
<1>4. /\ decisionLog' \in Seq(Decision) /\ DOMAIN decisionLog' = DOMAIN decisionLog \cup {new}
      /\ new \notin DOMAIN decisionLog /\ decisionLog'[new] = n
      /\ \A d \in DOMAIN decisionLog : decisionLog'[d] = decisionLog[d]
  BY <1>1, <1>3, MemoryTypes, AppendedRow
<1>5. MemoryTyped'
  <2>1. \A d \in DOMAIN decisionLog' : decisionLog'[d].supersedes < d
    BY <1>3, <1>4 DEF MemoryInv, MemoryTyped
  <2> QED
    BY <1>1, <1>2, <1>4, <2>1 DEF MemoryInv, MemoryTyped
<1>6. RowsRead'
  BY <1>1, <1>4, RowsStay
<1>7. MadeIsNoDraft' /\ Silenced'
  BY <1>1, KnowledgeStays
<1>8. SupersededOnce'
  <2> SUFFICES ASSUME NEW d \in DOMAIN decisionLog', decisionLog'[d].supersedes # 0,
                      decisionLog'[d].status = "accepted",
                      decisionLog'[decisionLog'[d].supersedes].status = "accepted"
               PROVE  decisionLog'[d].supersedes \in acceptedLast
    BY <1>1 DEF SupersededOnce
  <2>1. d \in DOMAIN decisionLog
    BY <1>3, <1>4
  <2>2. decisionLog[d].supersedes \in DOMAIN decisionLog
    BY <1>4, <2>1, MemoryTypes
  <2> QED
    BY <1>4, <2>1, <2>2 DEF MemoryInv, SupersededOnce
<1>9. Overtaken'
  <2> SUFFICES ASSUME NEW q \in Curators, curator[q].op = "accepting", curator[q].prior = 0,
                      decisionLog'[curator[q].row].supersedes # 0,
                      decisionLog'[decisionLog'[curator[q].row].supersedes].status = "accepted"
               PROVE  decisionLog'[curator[q].row].supersedes \in acceptedLast
    BY <1>1 DEF Overtaken
  <2>1. curator[q].row \in DOMAIN decisionLog
    BY MemoryTypes DEF Fits
  <2>2. decisionLog[curator[q].row].supersedes \in DOMAIN decisionLog
    BY <1>4, <2>1, MemoryTypes
  <2> QED
    BY <1>4, <2>1, <2>2 DEF MemoryInv, Overtaken
<1> QED
  BY <1>5, <1>6, <1>7, <1>8, <1>9 DEF MemoryInv

\* Statuses of decisions are written by id.
LEMMA DecisionsWritten ==
  ASSUME MemoryInv, NEW p \in Curators, NEW op, Done(p, op), UNCHANGED <<knowledge, revived>>,
         decisionLog' \in [DOMAIN decisionLog -> Decision],
         \A d \in DOMAIN decisionLog : decisionLog'[d].supersedes = decisionLog[d].supersedes,
         Overtaken', SupersededOnce'
  PROVE  MemoryInv'
<1>1. decisionLog' \in Seq(Decision) /\ DOMAIN decisionLog' = DOMAIN decisionLog
  BY MemoryTypes, SameDomain
<1>2. MemoryTyped'
  BY <1>1, DoneRests DEF MemoryInv, MemoryTyped
<1>3. RowsRead'
  <2>1. \A q \in Curators : curator'[q] = curator[q] \/ Fits(curator'[q])
    BY DoneRests, RestFits
  <2> QED
    BY <1>1, <2>1, RowsStay
<1>4. MadeIsNoDraft' /\ Silenced'
  BY KnowledgeStays, DoneRests, RestFits
<1> QED
  BY <1>2, <1>3, <1>4 DEF MemoryInv

LEMMA ClosesKeeps ==
  ASSUME MemoryInv, NEW p \in Curators, RejectDecision(p) \/ RetireDecision(p)
  PROVE  MemoryInv'
<1> DEFINE r == curator[p].row
<1>1. PICK op \in {"reject", "retire"} : \E s \in {"rejected", "retired"} : Closes(p, op, s)
  BY DEF RejectDecision, RetireDecision
<1>2. PICK s \in {"rejected", "retired"} : Closes(p, op, s)
  BY <1>1
<1>3. /\ Done(p, op) /\ UNCHANGED <<knowledge, revived, acceptedLast>>
      /\ decisionLog' = [decisionLog EXCEPT ![r].status = s]
  BY <1>2 DEF Closes
<1>4. r \in DOMAIN decisionLog
  BY <1>3, DoneRests DEF Fits
<1>5. decisionLog \in [DOMAIN decisionLog -> Decision]
  BY MemoryTypes
<1>6. /\ decisionLog' \in [DOMAIN decisionLog -> Decision]
      /\ decisionLog'[r].status = s /\ decisionLog'[r].supersedes = decisionLog[r].supersedes
      /\ \A d \in DOMAIN decisionLog \ {r} : decisionLog'[d] = decisionLog[d]
  BY <1>3, <1>4, <1>5 DEF Decision
<1>7. \A d \in DOMAIN decisionLog : /\ decisionLog'[d].supersedes = decisionLog[d].supersedes
                                    /\ decisionLog'[d].status = "accepted" => decisionLog[d].status = "accepted"
  BY <1>6
<1>8. SupersededOnce'
  <2> SUFFICES ASSUME NEW d \in DOMAIN decisionLog, decisionLog[d].supersedes # 0,
                      decisionLog'[d].status = "accepted",
                      decisionLog'[decisionLog[d].supersedes].status = "accepted"
               PROVE  decisionLog[d].supersedes \in acceptedLast
    BY <1>3, <1>6, <1>7 DEF SupersededOnce
  <2>1. decisionLog[d].supersedes \in DOMAIN decisionLog
    BY MemoryTypes
  <2> QED
    BY <1>7, <2>1 DEF MemoryInv, SupersededOnce
<1>9. Overtaken'
  <2> SUFFICES ASSUME NEW q \in Curators, curator'[q].op = "accepting", curator'[q].prior = 0,
                      decisionLog'[curator'[q].row].supersedes # 0,
                      decisionLog'[decisionLog'[curator'[q].row].supersedes].status = "accepted"
               PROVE  decisionLog'[curator'[q].row].supersedes \in acceptedLast
    BY <1>3 DEF Overtaken
  <2>1. curator'[q] = curator[q] /\ curator[q].row \in DOMAIN decisionLog
    BY <1>3, DoneRests, RestFits, MemoryTypes DEF Fits
  <2>2. decisionLog'[curator[q].row].supersedes = decisionLog[curator[q].row].supersedes
    BY <1>7, <2>1
  <2>3. decisionLog[curator[q].row].supersedes \in DOMAIN decisionLog
    BY <2>1, <2>2, MemoryTypes
  <2> QED
    BY <1>7, <2>1, <2>2, <2>3 DEF MemoryInv, Overtaken
<1> HIDE DEF r
<1> QED
  BY <1>3, <1>6, <1>7, <1>8, <1>9, DecisionsWritten

LEMMA CommitAcceptanceKeeps ==
  ASSUME MemoryInv, NEW p \in Curators, CommitAcceptance(p)
  PROVE  MemoryInv'
<1> DEFINE r == curator[p].row
           x == decisionLog[r].supersedes
           prior == curator[p].prior
           promote == curator[p].choice
<1>1. /\ Done(p, "accepting") /\ UNCHANGED <<knowledge, revived>>
      /\ decisionLog' = [e \in DOMAIN decisionLog |->
           IF e = r THEN [decisionLog[e] EXCEPT !.status = "accepted",
                            !.applicability = IF promote = "keep" THEN decisionLog[e].applicability ELSE promote]
           ELSE IF e = prior THEN [decisionLog[e] EXCEPT !.status = "superseded"]
           ELSE decisionLog[e]]
  BY DEF CommitAcceptance
<1>2. /\ acceptedLast \subseteq acceptedLast'
      /\ (\E e \in DOMAIN decisionLog :
            decisionLog[e].supersedes = r /\ (decisionLog[e].status = "accepted" \/ Locked(e)))
           => r \in acceptedLast'
  BY DEF CommitAcceptance
<1>3. r \in DOMAIN decisionLog /\ prior \in {0, x} /\ promote \in {"keep", "record", "guidance"}
        /\ curator[p].op = "accepting"
  BY <1>1, DoneRests DEF Fits
<1>4. \A d \in DOMAIN decisionLog : decisionLog[d] \in Decision
  BY MemoryTypes
<1>5. x # r /\ prior # r
  <2>1. r # 0
    BY <1>3, MemoryTypes
  <2> QED
    BY <1>3, <2>1, MemoryTypes
<1>6. prior = 0 /\ x # 0 /\ decisionLog[x].status = "accepted" => x \in acceptedLast
  BY <1>3 DEF MemoryInv, Overtaken
<1> HIDE DEF r, prior, promote
<1>7. ASSUME NEW e \in DOMAIN decisionLog
      PROVE  /\ decisionLog'[e] \in Decision /\ decisionLog'[e].supersedes = decisionLog[e].supersedes
             /\ e = prior => decisionLog'[e].status = "superseded"
             /\ e # r /\ decisionLog'[e].status = "accepted" => decisionLog[e].status = "accepted"
  <2>1. CASE e = r
    <3> DEFINE a == IF promote = "keep" THEN decisionLog[e].applicability ELSE promote
    <3>1. a \in {"record", "guidance"}
      BY <1>3, <1>4 DEF Decision
    <3>2. decisionLog'[e] = [decisionLog[e] EXCEPT !.status = "accepted", !.applicability = a]
      BY <1>1, <2>1
    <3> HIDE DEF a
    <3> QED
      BY <1>4, <1>5, <2>1, <3>1, <3>2 DEF Decision
  <2>2. CASE e # r /\ e = prior
    BY <1>1, <1>4, <2>2 DEF Decision
  <2>3. CASE e # r /\ e # prior
    BY <1>1, <1>4, <2>3
  <2> QED
    BY <2>1, <2>2, <2>3
<1>8. decisionLog' \in [DOMAIN decisionLog -> Decision]
  <2>1. DOMAIN decisionLog' = DOMAIN decisionLog
    BY <1>1
  <2> QED
    BY <1>1, <1>7, <2>1
<1>9. \A y \in DOMAIN decisionLog : y # r /\ decisionLog'[y].status = "accepted" => decisionLog[y].status = "accepted"
  BY <1>7
<1>10. SupersededOnce'
  <2> SUFFICES ASSUME NEW d \in DOMAIN decisionLog, decisionLog[d].supersedes # 0,
                      decisionLog'[d].status = "accepted",
                      decisionLog'[decisionLog[d].supersedes].status = "accepted"
               PROVE  decisionLog[d].supersedes \in acceptedLast'
    BY <1>7, <1>8 DEF SupersededOnce
  <2>1. decisionLog[d].supersedes \in DOMAIN decisionLog
    BY MemoryTypes
  <2>2. CASE d = r
    <3>1. x \in DOMAIN decisionLog /\ x # prior
      BY <1>7, <2>1, <2>2
    <3>2. prior = 0 /\ decisionLog[x].status = "accepted"
      BY <1>3, <1>5, <1>9, <2>2, <3>1
    <3> QED
      BY <1>2, <1>6, <2>2, <3>2
  <2>3. CASE d # r /\ decisionLog[d].supersedes = r
    BY <1>2, <1>9, <2>3
  <2>4. CASE d # r /\ decisionLog[d].supersedes # r
    <3>1. decisionLog[d].status = "accepted" /\ decisionLog[decisionLog[d].supersedes].status = "accepted"
      BY <1>9, <2>1, <2>4
    <3>2. decisionLog[d].supersedes \in acceptedLast
      BY <3>1 DEF MemoryInv, SupersededOnce
    <3> QED
      BY <1>2, <3>2
  <2> QED
    BY <2>2, <2>3, <2>4
<1>11. Overtaken'
  <2> SUFFICES ASSUME NEW q \in Curators, curator'[q].op = "accepting", curator'[q].prior = 0,
                      decisionLog'[curator'[q].row].supersedes # 0,
                      decisionLog'[decisionLog'[curator'[q].row].supersedes].status = "accepted"
               PROVE  decisionLog'[curator'[q].row].supersedes \in acceptedLast'
    BY DEF Overtaken
  <2> DEFINE d == curator[q].row
             y == decisionLog[d].supersedes
  <2>1. curator'[q] = curator[q] /\ d \in DOMAIN decisionLog
    BY <1>1, DoneRests, RestFits, MemoryTypes DEF Fits
  <2>2. decisionLog'[d].supersedes = y /\ y # 0 /\ decisionLog'[y].status = "accepted"
    BY <1>7, <2>1
  <2>3. y \in DOMAIN decisionLog
    BY <2>1, <2>2, MemoryTypes
  <2>4. y \in acceptedLast'
    <3>1. CASE y = r
      <4>1. Locked(d)
        BY <2>1 DEF Locked
      <4> QED
        BY <1>2, <2>1, <3>1, <4>1
    <3>2. CASE y # r
      <4>1. decisionLog[y].status = "accepted"
        BY <1>9, <2>2, <2>3, <3>2
      <4>2. y \in acceptedLast
        BY <2>1, <2>2, <4>1 DEF MemoryInv, Overtaken
      <4> QED
        BY <1>2, <4>2
    <3> QED
      BY <3>1, <3>2
  <2> QED
    BY <2>1, <2>2, <2>4
<1> QED
  BY <1>1, <1>7, <1>8, <1>10, <1>11, DecisionsWritten

LEMMA MemoryInvNext == ASSUME MemoryInv, [CompanyMemoryNext]_memoryVars PROVE MemoryInv'
<1>1. CASE UNCHANGED memoryVars
  BY <1>1 DEF memoryVars, MemoryInv, MemoryTyped, RowsRead, Fits, MadeIsNoDraft, Silenced, MadeRow,
    Overtaken, SupersededOnce
<1>2. CASE CompanyMemoryNext
  <2> PICK p \in Curators :
        \/ \E status \in {"draft", "active"} : CreateKnowledge(p, status)
        \/ \E v \in 1..MaxVersions : ReadKnowledge(p, v)
        \/ ActivateKnowledge(p) \/ ArchiveKnowledge(p) \/ ReviseKnowledge(p)
        \/ \E applicability \in {"record", "guidance"}, prior \in 0..MaxDecisions : CreateDecision(p, applicability, prior)
        \/ \E d \in 1..MaxDecisions : ReadDecision(p, d)
        \/ Accept(p) \/ CommitAcceptance(p) \/ RejectDecision(p) \/ RetireDecision(p)
        \/ MemoryRollback(p)
    BY <1>2 DEF CompanyMemoryNext
  <2> QED
    BY CreateMemoryKeeps, ReadKeeps, ActivateKeeps, ArchiveKeeps, ReviseMemoryKeeps, CreateDecisionKeeps, AcceptKeeps,
      CommitAcceptanceKeeps, ClosesKeeps
<1> QED
  BY <1>1, <1>2

\* No prompt is given a version together with one it was made from, however long
\* the chain of revisions and however many admins write by id (activateKnowledge,
\* reviseKnowledge), nor a decision together with the one it replaced
\* (acceptDecision); a version revived or a decision accepted last excepted.
THEOREM ReplacedStaysSilent == CompanyMemorySpec => []ReplacedIsSilent
<1>1. CompanyMemoryInit => MemoryInv
  BY MemoryInvInit
<1>2. MemoryInv /\ [CompanyMemoryNext]_memoryVars => MemoryInv'
  BY MemoryInvNext
<1>3. MemoryInv => ReplacedIsSilent
  BY SilenceReaches
<1> HIDE DEF MemoryInv
<1> QED
  BY <1>1, <1>2, <1>3, PTL DEF CompanyMemorySpec

-----------------------------------------------------------------------------
(* Notifications *)

\* An event is in one message: its own, or that of one digest.
LinkedOnce ==
  \A e \in Events : /\ \A k, l \in links[e] : k = l
                    /\ e \in Immediate => links[e] \subseteq {<<"email", e>>}
                    /\ \A k \in links[e] : outbox[k] # "none"

\* Who claimed a message is the only one to send it, and knows what became of it.
Holds(w) == post[w].step \in Outcomes \cup {"send"}
SenderKnows ==
  \A w \in MailWorkers : Holds(w) =>
    LET k == post[w].key
    IN /\ outbox[k] = "sending"
       /\ post[w].step \in {"send", "failed", "suppressed"} => mails[k] = 0
       /\ post[w].step = "sent" => mails[k] = 1
       /\ \A v \in MailWorkers \ {w} : Holds(v) => post[v].key # k

ListedAreImmediate == \A w \in MailWorkers : post[w].todo \subseteq Immediate
SentOnce == \A k \in MessageKeys : mails[k] <= 1
RecordIsTrue ==
  \A k \in MessageKeys : /\ outbox[k] = "sent" => mails[k] = 1
                         /\ outbox[k] \in {"none", "failed", "suppressed"} => mails[k] = 0

OutboxInv ==
  /\ NotificationsTypeOK /\ LinkedOnce /\ SenderKnows /\ ListedAreImmediate /\ SentOnce /\ RecordIsTrue

-----------------------------------------------------------------------------
\* The least of some natural numbers is one of them.
LEMMA LeastIsOne ==
  ASSUME NEW S \in SUBSET Nat, S # {} PROVE Min(S) \in S
<1>1. \E x \in S : \A y \in S : ~ (<<y, x>> \in OpToRel(<, Nat))
  BY NatLessThanWellFounded, WFMin
<1>2. \E x \in S : \A y \in S : x =< y
  <2>1. PICK x \in S : \A y \in S : ~ (<<y, x>> \in OpToRel(<, Nat))
    BY <1>1
  <2>2. \A y \in S : ~ (y < x)
    BY <2>1, Zenon DEF OpToRel
  <2> QED
    BY <2>2
<1> QED
  BY <1>2 DEF Min

PostMemory == [step : {"idle", "route", "digest", "gather", "send"} \cup Outcomes,
               todo : SUBSET Events, now : 0..MaxTime, key : MessageKeys, wanted : BOOLEAN]

LEMMA NoteTypes ==
  ASSUME NotificationsTypeOK
  PROVE  /\ clock \in 0..MaxTime /\ captured \in Nat /\ MaxTime \in Nat /\ crashes \in Nat
         /\ Cardinality(Events) \in Nat /\ Events \subseteq Nat /\ Immediate \subseteq Events
         /\ outbox \in [MessageKeys -> Outcomes \cup {"none", "sending"}]
         /\ links \in [Events -> SUBSET MessageKeys] /\ post \in [MailWorkers -> PostMemory]
         /\ mails \in [MessageKeys -> Nat] /\ NoPost \in PostMemory
         /\ \A e \in Immediate : <<"email", e>> \in MessageKeys
         /\ \A now \in 0..MaxTime : <<"digest", now>> \in MessageKeys
<1>1. Cardinality(Events) \in Nat
  BY NotificationsAssumption, FS_CardinalityType DEF Events
<1>2. Events \subseteq Nat /\ Immediate \subseteq Events
  BY <1>1, NotificationsAssumption DEF Events, Immediate
<1>3. /\ \A e \in Immediate : <<"email", e>> \in MessageKeys
      /\ \A now \in 0..MaxTime : <<"digest", now>> \in MessageKeys
  BY DEF MessageKeys
<1>4. NoPost \in PostMemory
  BY <1>3, NotificationsAssumption DEF NoPost, PostMemory
<1> QED
  BY <1>1, <1>2, <1>3, <1>4, NotificationsAssumption DEF NotificationsTypeOK, PostMemory

LEMMA OutboxInvInit == ASSUME NotificationsInit PROVE OutboxInv
<1>1. NoPost \in PostMemory
  BY NotificationsAssumption DEF NoPost, PostMemory, MessageKeys
<1>2. Cardinality(Events) \in Nat
  BY NotificationsAssumption, FS_CardinalityType DEF Events
<1>3. NotificationsTypeOK
  BY <1>1, <1>2, NotificationsAssumption DEF NotificationsInit, NotificationsTypeOK, PostMemory
<1> QED
  BY <1>3 DEF NotificationsInit, OutboxInv, LinkedOnce, SenderKnows, Holds, NoPost, Outcomes,
    ListedAreImmediate, SentOnce, RecordIsTrue

\* A worker that holds no message afterwards changes nothing that matters.
LEMMA WorkerLetsGo ==
  ASSUME OutboxInv, NEW w \in MailWorkers, NEW m \in PostMemory, post' = [post EXCEPT ![w] = m],
         m.step \in {"idle", "route", "digest", "gather"}, m.todo \subseteq Immediate,
         UNCHANGED <<outbox, links, mails>>, NotificationsTypeOK'
  PROVE  OutboxInv'
<1>1. post'[w] = m /\ \A v \in MailWorkers \ {w} : post'[v] = post[v]
  BY NoteTypes DEF OutboxInv
<1>2. ListedAreImmediate' /\ LinkedOnce' /\ SentOnce' /\ RecordIsTrue'
  BY <1>1 DEF OutboxInv, ListedAreImmediate, LinkedOnce, SentOnce, RecordIsTrue
<1>3. SenderKnows'
  BY <1>1 DEF OutboxInv, SenderKnows, Holds, Outcomes
<1> QED
  BY <1>2, <1>3 DEF OutboxInv

\* Types of the steps that only move a worker.
LEMMA WorkerTypes ==
  ASSUME OutboxInv, NEW w \in MailWorkers, NEW m \in PostMemory, post' = [post EXCEPT ![w] = m],
         UNCHANGED <<clock, settings, events, crashes>>, prefsLock' \in MailWorkers \cup {NoMailWorker}
  PROVE  NotificationsTypeOK'
<1>1. post' \in [MailWorkers -> PostMemory]
  BY NoteTypes DEF OutboxInv
<1> QED
  BY <1>1 DEF OutboxInv, NotificationsTypeOK, PostMemory, settings, events

LEMMA WorldKeeps ==
  ASSUME OutboxInv, Pass \/ Enqueue \/ UpdatePreferences \/ UNCHANGED notificationVars
  PROVE  OutboxInv'
<1>1. NotificationsTypeOK'
  BY NoteTypes DEF OutboxInv, NotificationsTypeOK, Pass, Enqueue, UpdatePreferences, notificationVars,
    settings, events
<1>2. UNCHANGED <<outbox, links, mails, post>>
  BY DEF Pass, Enqueue, UpdatePreferences, notificationVars, settings, events
<1> QED
  BY <1>1, <1>2 DEF OutboxInv, LinkedOnce, SenderKnows, Holds, ListedAreImmediate, SentOnce, RecordIsTrue

LEMMA MailTickKeeps ==
  ASSUME OutboxInv, NEW w \in MailWorkers,
         Tick(w) \/ RouteDone(w) \/ DigestTick(w) \/ Advance(w) \/ Abandon(w)
  PROVE  OutboxInv'
<1>1. /\ clock \in 0..MaxTime /\ NoPost \in PostMemory /\ post \in [MailWorkers -> PostMemory]
      /\ post[w] \in PostMemory /\ emailOn \in BOOLEAN /\ post[w].todo \subseteq Immediate
  BY NoteTypes DEF OutboxInv, NotificationsTypeOK, ListedAreImmediate
<1>2. ListPending(Immediate) \subseteq Immediate /\ Immediate \subseteq Events
  BY DEF ListPending, Pending, Immediate
<1>3. \E m \in PostMemory :
        /\ post' = [post EXCEPT ![w] = m] /\ m.todo \subseteq Immediate
        /\ m.step \in {"idle", "route", "digest", "gather"}
  <2>1. CASE Tick(w)
    <3> DEFINE m == [NoPost EXCEPT !.step = "route", !.now = clock, !.todo = ListPending(Immediate)]
    <3>1. m \in PostMemory /\ m.todo \subseteq Immediate /\ m.step = "route"
      BY <1>1, <1>2 DEF NoPost, PostMemory
    <3> QED
      BY <2>1, <3>1 DEF Tick
  <2>2. CASE RouteDone(w)
    BY <1>1, <2>2 DEF RouteDone, NoPost
  <2>3. CASE DigestTick(w)
    <3> DEFINE m == [NoPost EXCEPT !.step = "digest", !.now = clock, !.wanted = emailOn]
    <3>1. m \in PostMemory /\ m.todo \subseteq Immediate /\ m.step = "digest"
      BY <1>1 DEF NoPost, PostMemory
    <3> QED
      BY <2>3, <3>1 DEF DigestTick
  <2>4. CASE Advance(w)
    <3> DEFINE m == [post[w] EXCEPT !.step = "gather"]
    <3>1. m \in PostMemory /\ m.todo \subseteq Immediate /\ m.step = "gather"
      BY <1>1 DEF PostMemory
    <3>2. \/ post' = [post EXCEPT ![w] = m]
          \/ post' = [post EXCEPT ![w] = NoPost]
      BY <1>1, <2>4 DEF Advance
    <3> QED
      BY <1>1, <3>1, <3>2 DEF NoPost
  <2>5. CASE Abandon(w)
    <3> DEFINE m == [post[w] EXCEPT !.step = "route"]
    <3>1. m \in PostMemory /\ m.todo \subseteq Immediate /\ m.step = "route"
      BY <1>1 DEF PostMemory
    <3>2. post' = [post EXCEPT ![w] = m]
      BY <1>1, <2>5 DEF Abandon
    <3> QED
      BY <3>1, <3>2
  <2> QED
    BY <2>1, <2>2, <2>3, <2>4, <2>5
<1>4. /\ UNCHANGED <<clock, settings, events, crashes>> /\ prefsLock' \in MailWorkers \cup {NoMailWorker}
  BY DEF Tick, RouteDone, DigestTick, Advance, Abandon, OutboxInv, NotificationsTypeOK
<1> QED
  BY <1>3, <1>4, WorkerTypes, WorkerLetsGo DEF events

LEMMA MailCrashKeeps ==
  ASSUME OutboxInv, NEW w \in MailWorkers, MailCrash(w)
  PROVE  OutboxInv'
<1>1. NoPost \in PostMemory /\ post' = [post EXCEPT ![w] = NoPost]
  BY NoteTypes DEF OutboxInv, MailCrash
<1>2. post' \in [MailWorkers -> PostMemory]
  BY <1>1, NoteTypes DEF OutboxInv
<1>3. NotificationsTypeOK'
  BY <1>2, NotificationsAssumption DEF OutboxInv, NotificationsTypeOK, MailCrash, settings, events, PostMemory
<1>4. UNCHANGED <<outbox, links, mails>> /\ NoPost.todo \subseteq Immediate /\ NoPost.step = "idle"
  BY DEF MailCrash, events, NoPost
<1> QED
  BY <1>1, <1>3, <1>4, WorkerLetsGo

-----------------------------------------------------------------------------
\* A step with one message, which no other worker holds.
MessageStep(w, m, k) ==
  /\ post' = [post EXCEPT ![w] = m] /\ m.todo \subseteq Immediate
  /\ \A v \in MailWorkers \ {w} : Holds(v) => post[v].key # k
  /\ outbox' \in [MessageKeys -> Outcomes \cup {"none", "sending"}] /\ mails' \in [MessageKeys -> Nat]
  /\ \A l \in MessageKeys \ {k} : outbox'[l] = outbox[l] /\ mails'[l] = mails[l]
  /\ mails'[k] <= 1
  /\ outbox'[k] = "sent" => mails'[k] = 1
  /\ outbox'[k] \in {"none", "failed", "suppressed"} => mails'[k] = 0
  /\ m.step \in Outcomes \cup {"send"} => m.key = k /\ outbox'[k] = "sending"
  /\ m.step \in {"send", "failed", "suppressed"} => mails'[k] = 0
  /\ m.step = "sent" => mails'[k] = 1

LEMMA MessageMoves ==
  ASSUME OutboxInv, NEW w \in MailWorkers, NEW m \in PostMemory, NEW k \in MessageKeys,
         MessageStep(w, m, k)
  PROVE  SenderKnows' /\ ListedAreImmediate' /\ SentOnce' /\ RecordIsTrue'
<1>1. post'[w] = m /\ \A v \in MailWorkers \ {w} : post'[v] = post[v]
  BY NoteTypes DEF OutboxInv, MessageStep
<1>2. \A v \in MailWorkers : post[v].key \in MessageKeys
  BY NoteTypes DEF OutboxInv, PostMemory
<1>3. SenderKnows'
  <2>1. ASSUME NEW v \in MailWorkers, Holds(v)'
        PROVE  /\ (outbox[post[v].key] = "sending")'
               /\ (post[v].step \in {"send", "failed", "suppressed"} => mails[post[v].key] = 0)'
               /\ (post[v].step = "sent" => mails[post[v].key] = 1)'
    <3>1. CASE v = w
      BY <1>1, <2>1, <3>1 DEF Holds, MessageStep
    <3>2. CASE v # w
      <4>1. Holds(v) /\ post[v].key # k /\ post'[v] = post[v]
        BY <1>1, <2>1, <3>2 DEF Holds, MessageStep
      <4> QED
        BY <1>2, <4>1 DEF OutboxInv, SenderKnows, MessageStep
    <3> QED
      BY <3>1, <3>2
  <2>2. ASSUME NEW v \in MailWorkers, NEW u \in MailWorkers \ {v}, Holds(v)', Holds(u)'
        PROVE  post'[u].key # post'[v].key
    BY <1>1, <2>2 DEF OutboxInv, SenderKnows, Holds, MessageStep
  <2> QED
    BY <2>1, <2>2 DEF SenderKnows
<1>4. ListedAreImmediate' /\ SentOnce' /\ RecordIsTrue'
  BY <1>1 DEF OutboxInv, ListedAreImmediate, SentOnce, RecordIsTrue, MessageStep
<1> QED
  BY <1>3, <1>4

\* A message is inserted under a key that is free, with events that are in none.
LEMMA InsertedOnce ==
  ASSUME OutboxInv, NEW k \in MessageKeys, NEW status \in {"sending", "suppressed"},
         NEW members \in SUBSET Events, outbox[k] = "none", InsertMessage(k, status, members),
         \A e \in members : links[e] = {},
         \A e \in members \cap Immediate : k = <<"email", e>>
  PROVE  /\ outbox' \in [MessageKeys -> Outcomes \cup {"none", "sending"}]
         /\ links' \in [Events -> SUBSET MessageKeys] /\ outbox'[k] = status
         /\ \A l \in MessageKeys \ {k} : outbox'[l] = outbox[l]
         /\ LinkedOnce' /\ mails[k] = 0 /\ \A v \in MailWorkers : Holds(v) => post[v].key # k
<1>1. NotificationsTypeOK /\ outbox \in [MessageKeys -> Outcomes \cup {"none", "sending"}]
      /\ links \in [Events -> SUBSET MessageKeys]
  BY NoteTypes DEF OutboxInv
<1>2. /\ outbox' \in [MessageKeys -> Outcomes \cup {"none", "sending"}] /\ outbox'[k] = status
      /\ \A l \in MessageKeys \ {k} : outbox'[l] = outbox[l]
  BY <1>1 DEF InsertMessage, Outcomes
<1>3. links' \in [Events -> SUBSET MessageKeys]
      /\ \A e \in Events : links'[e] = IF e \in members THEN {k} ELSE links[e]
  BY <1>1 DEF InsertMessage
<1>4. LinkedOnce'
  BY <1>2, <1>3 DEF OutboxInv, LinkedOnce
<1>5. mails[k] = 0 /\ \A v \in MailWorkers : Holds(v) => post[v].key # k
  BY DEF OutboxInv, RecordIsTrue, SenderKnows
<1> QED
  BY <1>2, <1>3, <1>4, <1>5

LEMMA ClaimMessageKeeps ==
  ASSUME OutboxInv, NEW w \in MailWorkers, Claim(w) PROVE OutboxInv'
<1> DEFINE e == Min(post[w].todo)
           k == <<"email", e>>
           rest == [post[w] EXCEPT !.todo = post[w].todo \ {e}]
<1>1. /\ post \in [MailWorkers -> PostMemory] /\ post[w] \in PostMemory /\ post[w].step = "route"
      /\ post[w].todo \subseteq Immediate /\ post[w].todo # {} /\ post[w].todo \subseteq Nat
      /\ Immediate \subseteq Events
  BY NoteTypes DEF OutboxInv, ListedAreImmediate, Claim
<1>2. e \in post[w].todo /\ e \in Immediate
  BY <1>1, LeastIsOne
<1>3. k \in MessageKeys
  BY <1>2, NoteTypes DEF OutboxInv
<1>4. rest \in PostMemory /\ rest.todo \subseteq Immediate /\ rest.step = "route"
  BY <1>1 DEF PostMemory
<1>5. [post EXCEPT ![w].todo = post[w].todo \ {e}] = [post EXCEPT ![w] = rest]
  BY <1>1
<1>6. CASE post' = [post EXCEPT ![w] = rest] /\ UNCHANGED <<outbox, links>>
  <2>1. UNCHANGED <<clock, settings, events, crashes>> /\ prefsLock' \in MailWorkers \cup {NoMailWorker}
    BY <1>6 DEF Claim, settings, events, OutboxInv, NotificationsTypeOK
  <2> QED
    BY <1>4, <1>6, <2>1, WorkerTypes, WorkerLetsGo DEF events
<1>7. ASSUME NEW status \in {"sending", "suppressed"}, NEW m \in PostMemory, m.todo \subseteq Immediate,
             outbox[k] = "none", InsertMessage(k, status, {e}), post' = [post EXCEPT ![w] = m],
             m.step = "route" \/ (m.step = "send" /\ m.key = k /\ status = "sending")
      PROVE  OutboxInv'
  <2>1. links[e] = {}
    BY <1>1, <1>2, <1>7 DEF OutboxInv, LinkedOnce
  <2>2. /\ outbox' \in [MessageKeys -> Outcomes \cup {"none", "sending"}]
        /\ links' \in [Events -> SUBSET MessageKeys] /\ outbox'[k] = status
        /\ \A l \in MessageKeys \ {k} : outbox'[l] = outbox[l]
        /\ LinkedOnce' /\ mails[k] = 0 /\ \A v \in MailWorkers : Holds(v) => post[v].key # k
    BY <1>1, <1>2, <1>3, <1>7, <2>1, InsertedOnce
  <2>3. mails' = mails /\ mails \in [MessageKeys -> Nat]
    BY NoteTypes DEF Claim, OutboxInv
  <2>4. SenderKnows' /\ ListedAreImmediate' /\ SentOnce' /\ RecordIsTrue'
    <3> HIDE DEF k
    <3>1. MessageStep(w, m, k)
      BY <1>3, <1>7, <2>2, <2>3 DEF MessageStep, Outcomes
    <3> QED
      BY <1>3, <1>7, <2>2, <2>3, <3>1, MessageMoves
  <2>5. post' \in [MailWorkers -> PostMemory]
    BY <1>1, <1>7
  <2>6. NotificationsTypeOK'
    BY <2>2, <2>3, <2>5 DEF Claim, settings, OutboxInv, NotificationsTypeOK, PostMemory
  <2> QED
    BY <2>2, <2>4, <2>6 DEF OutboxInv
<1>8. CASE outbox[k] = "none" /\ InsertMessage(k, "suppressed", {e}) /\ post' = [post EXCEPT ![w] = rest]
  BY <1>4, <1>7, <1>8
<1>9. CASE /\ outbox[k] = "none" /\ InsertMessage(k, "sending", {e})
           /\ post' = [[post EXCEPT ![w] = rest] EXCEPT ![w].step = "send", ![w].key = k]
  <2> DEFINE m == [rest EXCEPT !.step = "send", !.key = k]
  <2>1. m \in PostMemory /\ m.todo \subseteq Immediate /\ m.step = "send" /\ m.key = k
    BY <1>3, <1>4 DEF PostMemory
  <2>2. post' = [post EXCEPT ![w] = m]
    BY <1>1, <1>9
  <2> QED
    BY <1>7, <1>9, <2>1, <2>2
<1>10. \/ post' = [post EXCEPT ![w] = rest] /\ UNCHANGED <<outbox, links>>
       \/ outbox[k] = "none" /\ InsertMessage(k, "suppressed", {e}) /\ post' = [post EXCEPT ![w] = rest]
       \/ /\ outbox[k] = "none" /\ InsertMessage(k, "sending", {e})
          /\ post' = [[post EXCEPT ![w] = rest] EXCEPT ![w].step = "send", ![w].key = k]
  BY <1>5 DEF Claim
<1> QED
  BY <1>6, <1>8, <1>9, <1>10

LEMMA SendKeeps ==
  ASSUME OutboxInv, NEW w \in MailWorkers, Send(w) PROVE OutboxInv'
<1> DEFINE k == post[w].key
<1>1. /\ post \in [MailWorkers -> PostMemory] /\ post[w] \in PostMemory /\ post[w].step = "send" /\ Holds(w)
      /\ k \in MessageKeys /\ mails \in [MessageKeys -> Nat] /\ post[w].todo \subseteq Immediate
      /\ outbox \in [MessageKeys -> Outcomes \cup {"none", "sending"}]
  BY NoteTypes DEF OutboxInv, ListedAreImmediate, Send, Holds, PostMemory
<1>2. outbox[k] = "sending" /\ mails[k] = 0 /\ \A v \in MailWorkers \ {w} : Holds(v) => post[v].key # k
  BY <1>1 DEF OutboxInv, SenderKnows
<1>3. PICK outcome \in Outcomes, reached \in BOOLEAN :
        /\ outcome = "sent" => reached
        /\ reached => outcome \in {"sent", "ambiguous"}
        /\ mails' = [mails EXCEPT ![k] = @ + IF reached THEN 1 ELSE 0]
        /\ post' = [post EXCEPT ![w].step = outcome]
  BY DEF Send
<1> DEFINE m == [post[w] EXCEPT !.step = outcome]
<1>4. /\ m \in PostMemory /\ m.step = outcome /\ m.key = k /\ m.todo \subseteq Immediate
      /\ post' = [post EXCEPT ![w] = m]
  BY <1>1, <1>3 DEF PostMemory
<1>5. /\ mails' \in [MessageKeys -> Nat] /\ mails'[k] = IF reached THEN 1 ELSE 0
      /\ \A l \in MessageKeys \ {k} : mails'[l] = mails[l]
  BY <1>1, <1>2, <1>3
<1>6. outbox' = outbox /\ links' = links
  BY DEF Send
<1>7. SenderKnows' /\ ListedAreImmediate' /\ SentOnce' /\ RecordIsTrue'
  <2> HIDE DEF k, m
  <2>1. /\ mails'[k] <= 1 /\ outbox'[k] = "sending"
        /\ m.step \in {"send", "failed", "suppressed"} => mails'[k] = 0
        /\ m.step = "sent" => mails'[k] = 1
    BY <1>1, <1>2, <1>3, <1>4, <1>5, <1>6 DEF Outcomes
  <2>2. \A l \in MessageKeys \ {k} : outbox'[l] = outbox[l] /\ mails'[l] = mails[l]
    BY <1>5, <1>6
  <2>3. outbox' \in [MessageKeys -> Outcomes \cup {"none", "sending"}] /\ mails' \in [MessageKeys -> Nat]
    BY <1>1, <1>5, <1>6
  <2>4. MessageStep(w, m, k)
    BY <1>2, <1>4, <2>1, <2>2, <2>3 DEF MessageStep
  <2> QED
    BY <1>1, <1>4, <2>4, MessageMoves
<1>8. post' \in [MailWorkers -> PostMemory]
  BY <1>1, <1>4
<1>9. NotificationsTypeOK'
  BY <1>5, <1>8 DEF Send, settings, OutboxInv, NotificationsTypeOK, PostMemory
<1>10. LinkedOnce'
  BY <1>6 DEF OutboxInv, LinkedOnce
<1> QED
  BY <1>7, <1>9, <1>10 DEF OutboxInv

LEMMA RecordKeeps ==
  ASSUME OutboxInv, NEW w \in MailWorkers, Record(w) PROVE OutboxInv'
<1> DEFINE k == post[w].key
           m == [post[w] EXCEPT !.step = "route"]
<1>1. /\ post \in [MailWorkers -> PostMemory] /\ post[w] \in PostMemory /\ post[w].step \in Outcomes /\ Holds(w)
      /\ k \in MessageKeys /\ mails \in [MessageKeys -> Nat] /\ post[w].todo \subseteq Immediate
      /\ outbox \in [MessageKeys -> Outcomes \cup {"none", "sending"}]
  BY NoteTypes DEF OutboxInv, ListedAreImmediate, Record, Holds, PostMemory
<1>2. /\ \A v \in MailWorkers \ {w} : Holds(v) => post[v].key # k
      /\ post[w].step \in {"failed", "suppressed"} => mails[k] = 0
      /\ post[w].step = "sent" => mails[k] = 1
  BY <1>1 DEF OutboxInv, SenderKnows
<1>3. /\ m \in PostMemory /\ m.step = "route" /\ m.todo \subseteq Immediate /\ post' = [post EXCEPT ![w] = m]
  BY <1>1 DEF PostMemory, Record
<1>4. /\ outbox' \in [MessageKeys -> Outcomes \cup {"none", "sending"}] /\ outbox'[k] = post[w].step
      /\ \A l \in MessageKeys \ {k} : outbox'[l] = outbox[l]
  BY <1>1 DEF Record
<1>5. mails' = mails /\ links' = links /\ mails[k] <= 1
  BY <1>1 DEF Record, OutboxInv, SentOnce
<1>6. SenderKnows' /\ ListedAreImmediate' /\ SentOnce' /\ RecordIsTrue'
  <2> HIDE DEF k, m
  <2>1. MessageStep(w, m, k)
    BY <1>1, <1>2, <1>3, <1>4, <1>5 DEF MessageStep, Outcomes
  <2> QED
    BY <1>1, <1>2, <1>3, <1>4, <1>5, <2>1, MessageMoves
<1>7. post' \in [MailWorkers -> PostMemory]
  BY <1>1, <1>3
<1>8. NotificationsTypeOK'
  BY <1>4, <1>7 DEF Record, settings, OutboxInv, NotificationsTypeOK, PostMemory
<1>9. LinkedOnce'
  BY <1>1, <1>4, <1>5, NoteTypes DEF OutboxInv, LinkedOnce, Outcomes
<1> QED
  BY <1>6, <1>8, <1>9 DEF OutboxInv

LEMMA GatherKeeps ==
  ASSUME OutboxInv, NEW w \in MailWorkers, Gather(w) PROVE OutboxInv'
<1> DEFINE k == <<"digest", post[w].now>>
           batch == Pending(Events \ Immediate)
<1>1. /\ post \in [MailWorkers -> PostMemory] /\ post[w] \in PostMemory /\ post[w].now \in 0..MaxTime
      /\ k \in MessageKeys /\ NoPost \in PostMemory /\ NoPost.todo = {} /\ NoPost.step = "idle"
      /\ mails \in [MessageKeys -> Nat] /\ MaxTime \in Nat
  BY NoteTypes DEF OutboxInv, PostMemory, NoPost
<1>2. batch \subseteq Events \ Immediate /\ \A e \in batch : links[e] = {}
  BY DEF Pending
<1>3. cursor' \in 0..(MaxTime + 1) /\ prefsLock' \in MailWorkers \cup {NoMailWorker}
  BY <1>1 DEF Gather
<1>4. CASE post' = [post EXCEPT ![w] = NoPost] /\ UNCHANGED <<outbox, links>>
  <2>1. post' \in [MailWorkers -> PostMemory]
    BY <1>1, <1>4
  <2>2. NotificationsTypeOK'
    BY <1>3, <1>4, <2>1 DEF Gather, OutboxInv, NotificationsTypeOK, PostMemory
  <2> QED
    BY <1>1, <1>4, <2>2, WorkerLetsGo DEF Gather
<1>5. ASSUME NEW status \in {"sending", "suppressed"}, NEW m \in PostMemory, m.todo \subseteq Immediate,
             outbox[k] = "none", InsertMessage(k, status, batch), post' = [post EXCEPT ![w] = m],
             m.step = "idle" \/ (m.step = "send" /\ m.key = k /\ status = "sending")
      PROVE  OutboxInv'
  <2>1. /\ outbox' \in [MessageKeys -> Outcomes \cup {"none", "sending"}]
        /\ links' \in [Events -> SUBSET MessageKeys] /\ outbox'[k] = status
        /\ \A l \in MessageKeys \ {k} : outbox'[l] = outbox[l]
        /\ LinkedOnce' /\ mails[k] = 0 /\ \A v \in MailWorkers : Holds(v) => post[v].key # k
    <3> HIDE DEF k, batch
    <3> QED
      BY <1>1, <1>2, <1>5, InsertedOnce
  <2>2. mails' = mails
    BY DEF Gather
  <2>3. SenderKnows' /\ ListedAreImmediate' /\ SentOnce' /\ RecordIsTrue'
    <3> HIDE DEF k
    <3>1. MessageStep(w, m, k)
      BY <1>1, <1>5, <2>1, <2>2 DEF MessageStep, Outcomes
    <3> QED
      BY <1>1, <1>5, <2>1, <2>2, <3>1, MessageMoves
  <2>4. post' \in [MailWorkers -> PostMemory]
    BY <1>1, <1>5
  <2>5. NotificationsTypeOK'
    BY <1>3, <2>1, <2>2, <2>4 DEF Gather, OutboxInv, NotificationsTypeOK, PostMemory
  <2> QED
    BY <2>1, <2>3, <2>5 DEF OutboxInv
<1>6. CASE outbox[k] = "none" /\ InsertMessage(k, "suppressed", batch) /\ post' = [post EXCEPT ![w] = NoPost]
  BY <1>1, <1>5, <1>6
<1>7. CASE /\ outbox[k] = "none" /\ InsertMessage(k, "sending", batch)
           /\ post' = [post EXCEPT ![w] = [NoPost EXCEPT !.step = "send", !.key = k]]
  <2> DEFINE m == [NoPost EXCEPT !.step = "send", !.key = k]
  <2>1. m \in PostMemory /\ m.todo = {} /\ m.step = "send" /\ m.key = k
    BY <1>1 DEF PostMemory, NoPost
  <2> QED
    BY <1>5, <1>7, <2>1
<1> QED
  BY <1>4, <1>6, <1>7 DEF Gather

LEMMA OutboxInvNext == ASSUME OutboxInv, [NotificationsNext]_notificationVars PROVE OutboxInv'
BY WorldKeeps, MailTickKeeps, MailCrashKeeps, ClaimMessageKeeps, SendKeeps, RecordKeeps, GatherKeeps
  DEF NotificationsNext, Route, Digest

\* However many workers tick, crash and start again, however slowly: an event
\* reaches the recipient at most once, and the record of a message is true.
THEOREM OutboxStaysTrue == NotificationsSpec => []OutboxIsTrue
<1>1. NotificationsInit => OutboxInv
  BY OutboxInvInit
<1>2. OutboxInv /\ [NotificationsNext]_notificationVars => OutboxInv'
  BY OutboxInvNext
<1>3. OutboxInv => OutboxIsTrue
  <2>1. SUFFICES ASSUME OutboxInv PROVE OutboxIsTrue
    OBVIOUS
  <2>2. links \in [Events -> SUBSET MessageKeys]
    BY <2>1, NoteTypes DEF OutboxInv
  <2> QED
    BY <2>1, <2>2 DEF OutboxInv, LinkedOnce, SentOnce, RecordIsTrue, OutboxIsTrue
<1> QED
  BY <1>1, <1>2, <1>3, PTL DEF NotificationsSpec

-----------------------------------------------------------------------------
(* Types of company memory. *)

MemoryBounds ==
  /\ Len(knowledge) <= MaxVersions /\ Len(decisionLog) <= MaxDecisions
  /\ \A p \in Curators : /\ curator[p].op = "none" => curator[p] = AtRest
                         /\ curator[p].op # "accepting" => curator[p].prior = 0
  /\ asked <= MaxMemoryRequests
  /\ revived \subseteq DOMAIN knowledge /\ acceptedLast \subseteq DOMAIN decisionLog
MemoryTypesHold == MemoryInv /\ MemoryBounds

\* What every step does to the bounds.
BoundsKept ==
  /\ Len(knowledge') = Len(knowledge) \/ (Len(knowledge) < MaxVersions /\ Len(knowledge') = Len(knowledge) + 1)
  /\ \/ Len(decisionLog') = Len(decisionLog)
     \/ Len(decisionLog) < MaxDecisions /\ Len(decisionLog') = Len(decisionLog) + 1
  /\ \A q \in Curators : \/ curator'[q] = curator[q] \/ curator'[q] = AtRest
                         \/ /\ curator'[q].op # "none"
                            /\ curator'[q].op = "accepting" \/ curator'[q].prior = 0
  /\ asked' = asked \/ (asked < MaxMemoryRequests /\ asked' = asked + 1)
  /\ revived' \subseteq revived \cup DOMAIN knowledge
  /\ acceptedLast' \subseteq acceptedLast \cup DOMAIN decisionLog

LEMMA OneMore ==
  ASSUME NEW n \in Nat, NEW m, NEW max \in Nat, n <= max, m = n \/ (n < max /\ m = n + 1)
  PROVE  m <= max /\ 1..n \subseteq 1..m
OBVIOUS

LEMMA BoundsFollow == ASSUME MemoryTypesHold, MemoryInv', BoundsKept PROVE MemoryBounds'
<1>1. /\ Len(knowledge) \in Nat /\ DOMAIN knowledge = 1..Len(knowledge)
      /\ Len(decisionLog) \in Nat /\ DOMAIN decisionLog = 1..Len(decisionLog) /\ asked \in Nat
  BY MemoryTypes DEF MemoryTypesHold
<1>2. knowledge' \in Seq(Version) /\ decisionLog' \in Seq(Decision)
  BY DEF MemoryInv, MemoryTyped
<1>3. DOMAIN knowledge' = 1..Len(knowledge') /\ DOMAIN decisionLog' = 1..Len(decisionLog')
  BY <1>2, LenProperties
<1>4. /\ Len(knowledge) <= MaxVersions /\ Len(decisionLog) <= MaxDecisions /\ asked <= MaxMemoryRequests
      /\ MaxVersions \in Nat /\ MaxDecisions \in Nat /\ MaxMemoryRequests \in Nat
  BY CompanyMemoryAssumption DEF MemoryTypesHold, MemoryBounds
<1>5. Len(knowledge') <= MaxVersions /\ DOMAIN knowledge \subseteq DOMAIN knowledge'
  <2>1. Len(knowledge') = Len(knowledge) \/ (Len(knowledge) < MaxVersions /\ Len(knowledge') = Len(knowledge) + 1)
    BY DEF BoundsKept
  <2> QED
    BY <1>1, <1>3, <1>4, <2>1, OneMore
<1>6. Len(decisionLog') <= MaxDecisions /\ DOMAIN decisionLog \subseteq DOMAIN decisionLog'
  <2>1. \/ Len(decisionLog') = Len(decisionLog)
        \/ Len(decisionLog) < MaxDecisions /\ Len(decisionLog') = Len(decisionLog) + 1
    BY DEF BoundsKept
  <2> QED
    BY <1>1, <1>3, <1>4, <2>1, OneMore
<1>7. asked' <= MaxMemoryRequests
  BY <1>1, <1>4 DEF BoundsKept
<1>8. \A q \in Curators : /\ curator'[q].op = "none" => curator'[q] = AtRest
                          /\ curator'[q].op # "accepting" => curator'[q].prior = 0
  BY RestFits DEF BoundsKept, MemoryTypesHold, MemoryBounds, AtRest
<1> QED
  BY <1>5, <1>6, <1>7, <1>8 DEF BoundsKept, MemoryTypesHold, MemoryBounds

\* A request is over.
LEMMA DoneKeeps ==
  ASSUME MemoryInv, NEW p \in Curators, NEW op, Done(p, op)
  PROVE  asked' = asked /\ \A q \in Curators : curator'[q] = curator[q] \/ curator'[q] = AtRest
BY MemoryTypes DEF Done

LEMMA BoundsStep ==
  ASSUME MemoryTypesHold, [CompanyMemoryNext]_memoryVars PROVE BoundsKept
<1> USE DEF MemoryTypesHold
<1>1. /\ knowledge \in Seq(Version) /\ decisionLog \in Seq(Decision) /\ curator \in [Curators -> CuratorReading]
      /\ Len(knowledge) \in Nat /\ Len(decisionLog) \in Nat /\ \A p \in Curators : Fits(curator[p])
  BY MemoryTypes
<1>2. ASSUME NEW p \in Curators, NEW status \in {"draft", "active"}, CreateKnowledge(p, status)
      PROVE  BoundsKept
  BY <1>1, <1>2, AppendProperties DEF CreateKnowledge, Requested, BoundsKept, Version
<1>3. ASSUME NEW p \in Curators, NEW row, NEW op \in {"activate", "archive", "revise", "accept", "reject", "retire"},
             NEW choice, Reads(p, op, row, choice)
      PROVE  BoundsKept
  <2> DEFINE m == [AtRest EXCEPT !.op = op, !.row = row, !.choice = choice]
  <2>1. m.op # "none" /\ m.prior = 0
    BY DEF AtRest
  <2>2. curator' = [curator EXCEPT ![p] = m] /\ UNCHANGED <<knowledge, decisionLog, revived, acceptedLast>>
        /\ asked < MaxMemoryRequests /\ asked' = asked + 1
    BY <1>3 DEF Reads, Requested
  <2> HIDE DEF m
  <2>3. \A q \in Curators : curator'[q] = curator[q] \/ (curator'[q].op # "none" /\ curator'[q].prior = 0)
    BY <1>1, <2>1, <2>2
  <2> QED
    BY <2>2, <2>3 DEF BoundsKept
<1>4. ASSUME NEW p \in Curators, NEW v \in 1..MaxVersions, ReadKnowledge(p, v) PROVE BoundsKept
  BY <1>3, <1>4 DEF ReadKnowledge
<1>5. ASSUME NEW p \in Curators, NEW d \in 1..MaxDecisions, ReadDecision(p, d) PROVE BoundsKept
  BY <1>3, <1>5 DEF ReadDecision
<1>6. ASSUME NEW p \in Curators, ActivateKnowledge(p) PROVE BoundsKept
  <2> DEFINE v == curator[p].row
             written == [w \in DOMAIN knowledge |->
                           IF w = v THEN [knowledge[w] EXCEPT !.status = "active"]
                           ELSE IF w = knowledge[v].supersedes THEN [knowledge[w] EXCEPT !.status = "archived"]
                           ELSE knowledge[w]]
  <2>1. /\ Done(p, "activate") /\ knowledge' = written /\ UNCHANGED <<decisionLog, acceptedLast>>
        /\ revived' \subseteq revived \cup {v} /\ v \in DOMAIN knowledge
    BY <1>1, <1>6 DEF ActivateKnowledge, Done, Fits
  <2>2. Len(knowledge') = Len(knowledge)
    <3>1. MemoryInv'
      BY MemoryInvNext
    <3>2. knowledge' \in Seq(Version)
      BY <3>1 DEF MemoryInv, MemoryTyped
    <3>3. DOMAIN knowledge' = DOMAIN knowledge
      BY <2>1
    <3> HIDE DEF written
    <3> QED
      BY <1>1, <3>2, <3>3, LenProperties
  <2> QED
    BY <2>1, <2>2, DoneKeeps DEF BoundsKept
<1>7. ASSUME NEW p \in Curators, ArchiveKnowledge(p) PROVE BoundsKept
  <2>1. Done(p, "archive") /\ UNCHANGED <<decisionLog, revived, acceptedLast>>
        /\ Len(knowledge') = Len(knowledge)
    BY <1>1, <1>7 DEF ArchiveKnowledge
  <2> QED
    BY <2>1, DoneKeeps DEF BoundsKept
<1>8. ASSUME NEW p \in Curators, ReviseKnowledge(p) PROVE BoundsKept
  <2>1. /\ Done(p, "revise") /\ Len(knowledge) < MaxVersions /\ UNCHANGED <<decisionLog, revived, acceptedLast>>
    BY <1>8 DEF ReviseKnowledge
  <2>2. PICK s, e : knowledge' = Append(s, e)
                    /\ (s = knowledge \/ s = [knowledge EXCEPT ![curator[p].row].status = "archived"])
    BY <1>8 DEF ReviseKnowledge
  <2>3. Len(s) = Len(knowledge) /\ Len(Append(s, e)) = Len(s) + 1
    BY <1>1, <2>2
  <2> QED
    BY <2>1, <2>2, <2>3, DoneKeeps DEF BoundsKept
<1>9. ASSUME NEW p \in Curators, NEW applicability \in {"record", "guidance"}, NEW prior \in 0..MaxDecisions,
             CreateDecision(p, applicability, prior)
      PROVE  BoundsKept
  <2> DEFINE e == [status |-> "proposed", applicability |-> applicability, supersedes |-> prior]
  <2>1. e \in Decision /\ decisionLog' = Append(decisionLog, e)
    BY <1>9 DEF CreateDecision, Decision
  <2> HIDE DEF e
  <2>2. Len(decisionLog') = Len(decisionLog) + 1
    BY <1>1, <2>1, AppendProperties
  <2> QED
    BY <1>9, <2>2 DEF CreateDecision, Requested, BoundsKept
<1>10. ASSUME NEW p \in Curators, Accept(p) PROVE BoundsKept
  <2>1. /\ UNCHANGED <<knowledge, decisionLog, asked, revived, acceptedLast>>
        /\ \A q \in Curators \ {p} : curator'[q] = curator[q]
        /\ curator'[p].op = "accepting"
    BY <1>1, <1>10 DEF Accept, CuratorReading
  <2> QED
    BY <2>1 DEF BoundsKept
<1>11. ASSUME NEW p \in Curators, CommitAcceptance(p) PROVE BoundsKept
  <2>1. /\ Done(p, "accepting") /\ UNCHANGED <<knowledge, revived>>
        /\ acceptedLast' \subseteq acceptedLast \cup {curator[p].row} /\ curator[p].row \in DOMAIN decisionLog
        /\ DOMAIN decisionLog' = DOMAIN decisionLog
    BY <1>1, <1>11 DEF CommitAcceptance, Done, Fits
  <2>2. Len(decisionLog') = Len(decisionLog)
    <3>1. MemoryInv'
      BY MemoryInvNext
    <3>2. decisionLog' \in Seq(Decision)
      BY <3>1 DEF MemoryInv, MemoryTyped
    <3> QED
      BY <1>1, <2>1, <3>2, LenProperties
  <2> QED
    BY <2>1, <2>2, DoneKeeps DEF BoundsKept
<1>12. ASSUME NEW p \in Curators, RejectDecision(p) \/ RetireDecision(p) PROVE BoundsKept
  <2>1. PICK op, status : Closes(p, op, status)
    BY <1>12 DEF RejectDecision, RetireDecision
  <2>2. Done(p, op) /\ UNCHANGED <<knowledge, revived, acceptedLast>> /\ Len(decisionLog') = Len(decisionLog)
    BY <1>1, <2>1 DEF Closes
  <2> QED
    BY <2>2, DoneKeeps DEF BoundsKept
<1>13. ASSUME NEW p \in Curators, MemoryRollback(p) PROVE BoundsKept
  BY <1>1, <1>13 DEF MemoryRollback, BoundsKept
<1>14. CASE UNCHANGED memoryVars
  BY <1>14 DEF memoryVars, BoundsKept
<1> QED
  BY <1>2, <1>4, <1>5, <1>6, <1>7, <1>8, <1>9, <1>10, <1>11, <1>12, <1>13, <1>14 DEF CompanyMemoryNext

LEMMA MemoryTypesAreTypes == MemoryTypesHold => CompanyMemoryTypeOK
<1> SUFFICES ASSUME MemoryTypesHold PROVE CompanyMemoryTypeOK
  OBVIOUS
<1> USE DEF MemoryTypesHold
<1>1. \A v \in DOMAIN knowledge :
        knowledge[v] \in [status : {"draft", "active", "archived"}, supersedes : 0..(v - 1)]
  <2> TAKE v \in DOMAIN knowledge
  <2>1. knowledge[v] \in Version /\ knowledge[v].supersedes < v /\ v \in Nat
    BY MemoryTypes DEF MemoryInv, MemoryTyped
  <2>2. knowledge[v].supersedes \in 0..(v - 1)
    BY <2>1 DEF Version
  <2> QED
    BY <2>1, <2>2 DEF Version
<1>2. \A d \in DOMAIN decisionLog :
        decisionLog[d] \in [status : {"proposed", "accepted", "rejected", "superseded", "retired"},
                            applicability : {"record", "guidance"}, supersedes : 0..(d - 1)]
  <2> TAKE d \in DOMAIN decisionLog
  <2>1. decisionLog[d] \in Decision /\ decisionLog[d].supersedes < d /\ d \in Nat
    BY MemoryTypes DEF MemoryInv, MemoryTyped
  <2>2. decisionLog[d].supersedes \in 0..(d - 1)
    BY <2>1 DEF Decision
  <2> QED
    BY <2>1, <2>2 DEF Decision
<1>3. ASSUME NEW p \in Curators
      PROVE  /\ curator[p].row \in 0..(Len(knowledge) + Len(decisionLog))
             /\ curator[p].prior \in 0..Len(decisionLog)
  <2>1. /\ curator[p] \in CuratorReading /\ Fits(curator[p])
        /\ Len(knowledge) \in Nat /\ Len(decisionLog) \in Nat
        /\ DOMAIN knowledge = 1..Len(knowledge) /\ DOMAIN decisionLog = 1..Len(decisionLog)
        /\ \A d \in DOMAIN decisionLog : decisionLog[d].supersedes \in {0} \cup DOMAIN decisionLog
    BY MemoryTypes
  <2>2. CASE curator[p].op = "none"
    BY <2>1, <2>2 DEF MemoryBounds, AtRest
  <2>3. CASE curator[p].op \in {"activate", "archive", "revise"}
    <3>1. curator[p].row \in 1..Len(knowledge) /\ curator[p].prior = 0
      BY <2>1, <2>3 DEF Fits, MemoryBounds
    <3> QED
      BY <2>1, <3>1
  <2>4. CASE curator[p].op \in {"accept", "reject", "retire"}
    <3>1. curator[p].row \in 1..Len(decisionLog) /\ curator[p].prior = 0
      BY <2>1, <2>4 DEF Fits, MemoryBounds
    <3> QED
      BY <2>1, <3>1
  <2>5. CASE curator[p].op = "accepting"
    <3>1. curator[p].row \in 1..Len(decisionLog) /\ curator[p].prior \in 0..Len(decisionLog)
      BY <2>1, <2>5 DEF Fits
    <3> QED
      BY <2>1, <3>1
  <2> QED
    BY <2>1, <2>2, <2>3, <2>4, <2>5 DEF CuratorReading
<1>4. asked \in 0..MaxMemoryRequests
  BY CompanyMemoryAssumption, MemoryTypes DEF MemoryBounds
<1>5. curator \in [Curators -> CuratorReading]
  BY MemoryTypes
<1> QED
  BY <1>1, <1>2, <1>3, <1>4, <1>5 DEF MemoryBounds, CompanyMemoryTypeOK, CuratorReading

LEMMA MemoryTypesInit == ASSUME CompanyMemoryInit PROVE MemoryTypesHold
<1>1. MemoryBounds
  BY CompanyMemoryAssumption DEF CompanyMemoryInit, MemoryBounds, AtRest
<1> QED
  BY <1>1, MemoryInvInit DEF MemoryTypesHold

LEMMA MemoryTypesNext ==
  ASSUME MemoryTypesHold, [CompanyMemoryNext]_memoryVars PROVE MemoryTypesHold'
<1>1. MemoryInv'
  BY MemoryInvNext DEF MemoryTypesHold
<1> QED
  BY <1>1, BoundsStep, BoundsFollow DEF MemoryTypesHold

\* Every step keeps the types of CompanyMemoryTypeOK: knowledge and decisions stay within their
\* bounds, a decision replaces one there is, and what a curator works on is a row there is.
THEOREM MemoryStaysTyped == CompanyMemorySpec => []CompanyMemoryTypeOK
<1>1. CompanyMemoryInit => MemoryTypesHold
  BY MemoryTypesInit
<1>2. MemoryTypesHold /\ [CompanyMemoryNext]_memoryVars => MemoryTypesHold'
  BY MemoryTypesNext
<1> QED
  BY <1>1, <1>2, MemoryTypesAreTypes, PTL DEF CompanyMemorySpec

=============================================================================
