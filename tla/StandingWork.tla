---------------------------- MODULE StandingWork ----------------------------
(***************************************************************************)
(* Standing work: schedules that a tick of the worker, or of the external  *)
(* scheduler, turns into tasks with a queued job.                          *)
(*   src/src/domain/standing/standing.ts, cadence.ts,                      *)
(*   createScheduledOccurrenceTask in domain/tasks/tasks.ts.               *)
(*                                                                         *)
(* A tick handles a schedule in one transaction that holds the lock of its *)
(* row from the first read on: one action.  An edit computes the next due  *)
(* time before it asks for that lock: two actions.                         *)
(***************************************************************************)
EXTENDS Integers, FiniteSets

CONSTANTS
  Schedules,
  Ticks,      \* the processes that tick
  Periods,    \* cadences: due at the multiples of a period
  Horizon,    \* bound on the clock
  MaxFailures \* bound on transactions that fail

ASSUME StandingAssumption ==
  Periods \subseteq Nat \ {0} /\ Horizon \in Nat /\ MaxFailures \in Nat

VARIABLES
  hour,        \* the time
  schedule,    \* task_schedules, a row per schedule
  occurrences, \* identities of the tasks created, each with its queued job
  admins,      \* schedules whose author is a project admin
  agents,      \* schedules whose pinned assignment is valid
  tick,        \* per process: its listing and the time it started
  edit,        \* per schedule: the edit under way
  putBack,     \* ghost: schedules whose clock an edit set to a past of the last run
  failures

standingVars ==
  <<hour, schedule, occurrences, admins, agents, tick, edit, putBack, failures>>

NoEdit == [period |-> 0, next |-> 0]
NotListed == [now |-> 0, todo |-> {}, paused |-> {}]

StandingTypeOK ==
  /\ hour \in 0..Horizon /\ failures \in 0..MaxFailures
  /\ schedule \in [Schedules -> [period : Periods \cup {0}, enabled : BOOLEAN,
                                 next : Nat, last : -1..Horizon]]
  /\ occurrences \subseteq Schedules \X (0..Horizon)
  /\ admins \subseteq Schedules /\ agents \subseteq Schedules /\ putBack \subseteq Schedules
  /\ tick \in [Ticks -> [now : 0..Horizon, todo : SUBSET Schedules, paused : SUBSET Schedules]]
  /\ edit \in [Schedules -> [period : Periods \cup {0}, next : Nat]]

StandingInit ==
  /\ hour = 0 /\ failures = 0
  /\ schedule = [s \in Schedules |-> [period |-> 0, enabled |-> FALSE, next |-> 0, last |-> -1]]
  /\ occurrences = {}
  /\ admins = Schedules /\ agents = Schedules /\ putBack = {}
  /\ tick = [w \in Ticks |-> NotListed]
  /\ edit = [s \in Schedules |-> NoEdit]

\* Seeded bug: a time that is due now counts as the next one.
NextRunAtOrAfter(period, from) == ((from + period - 1) \div period) * period

\* computeNextRunAt: strictly after from.
NextRunAfter(period, from) == (from \div period + 1) * period

ScheduleExists(s) == schedule[s].period # 0
Due(s, now) == schedule[s].enabled /\ schedule[s].next <= now

-----------------------------------------------------------------------------
Hour ==
  /\ hour < Horizon /\ hour' = hour + 1
  /\ UNCHANGED <<schedule, occurrences, admins, agents, tick, edit, putBack, failures>>

CreateSchedule(s, period) ==
  /\ ~ScheduleExists(s) /\ s \in admins \cap agents
  /\ schedule' = [schedule EXCEPT ![s].period = period, ![s].enabled = TRUE,
                                  ![s].next = NextRunAfter(period, hour)]
  /\ UNCHANGED <<hour, occurrences, admins, agents, tick, edit, putBack, failures>>

SetScheduleEnabled(s) ==
  /\ ScheduleExists(s)
  /\ schedule' = [schedule EXCEPT ![s].enabled = ~@]
  /\ UNCHANGED <<hour, occurrences, admins, agents, tick, edit, putBack, failures>>

\* updateSchedule validates, and computes the next due time if the timing changes ...
UpdateSchedule(s, period) ==
  /\ ScheduleExists(s) /\ s \in agents /\ edit[s] = NoEdit
  /\ period # schedule[s].period
  /\ edit' = [edit EXCEPT ![s] = [period |-> period, next |-> NextRunAfter(period, hour)]]
  /\ UNCHANGED <<hour, schedule, occurrences, admins, agents, tick, putBack, failures>>

\* ... and then its UPDATE gets the row.
UpdateScheduleRow(s) ==
  /\ edit[s] # NoEdit
  /\ schedule' = [schedule EXCEPT ![s].period = edit[s].period, ![s].next = edit[s].next]
  /\ putBack' = IF edit[s].next <= schedule[s].last THEN putBack \cup {s} ELSE putBack \ {s}
  /\ edit' = [edit EXCEPT ![s] = NoEdit]
  /\ UNCHANGED <<hour, occurrences, admins, agents, tick, failures>>

\* The author loses or regains the admin role, a pinned employee is disabled
\* or enabled: other modules' doing.
ChangeRole(s) ==
  /\ admins' = IF s \in admins THEN admins \ {s} ELSE admins \cup {s}
  /\ UNCHANGED <<hour, schedule, occurrences, agents, tick, edit, putBack, failures>>

ChangeAgent(s) ==
  /\ agents' = IF s \in agents THEN agents \ {s} ELSE agents \cup {s}
  /\ UNCHANGED <<hour, schedule, occurrences, admins, tick, edit, putBack, failures>>

-----------------------------------------------------------------------------
(* runDueSchedules *)

\* list_due_schedules: the due ones, with the role of their author.
ListDue(w) ==
  /\ tick[w].todo = {}
  /\ LET due == {s \in Schedules : ScheduleExists(s) /\ Due(s, hour)}
     IN /\ due # {}
        /\ tick' = [tick EXCEPT ![w] = [now |-> hour, todo |-> due, paused |-> due \ admins]]
  /\ UNCHANGED <<hour, schedule, occurrences, admins, agents, edit, putBack, failures>>

Handled(w, s) ==
  tick' = [tick EXCEPT ![w] = IF tick[w].todo = {s} THEN NotListed
                              ELSE [tick[w] EXCEPT !.todo = @ \ {s}]]

\* The author was no admin when it was listed.
Pause(w, s) ==
  /\ s \in tick[w].todo \cap tick[w].paused
  /\ schedule' = [schedule EXCEPT ![s].enabled = FALSE]
  /\ Handled(w, s)
  /\ UNCHANGED <<hour, occurrences, admins, agents, edit, putBack, failures>>

\* Seeded bug: what was listed as due is not checked again under the lock.
DispatchUnchecked(w, s) ==
  /\ s \in tick[w].todo \ tick[w].paused
  /\ IF s \in agents /\ <<s, schedule[s].next>> \notin occurrences
     THEN /\ occurrences' = occurrences \cup {<<s, schedule[s].next>>}
          /\ schedule' = [schedule EXCEPT ![s].last = tick[w].now,
                            ![s].next = NextRunAfter(schedule[s].period, tick[w].now)]
          /\ putBack' = putBack \ {s}
     ELSE UNCHANGED <<schedule, occurrences, putBack>>
  /\ Handled(w, s)
  /\ UNCHANGED <<hour, admins, agents, edit, failures>>

\* Under the lock: nothing for a schedule that is no longer due or enabled, or
\* without a valid assignment (it stays due), or whose occurrence has its task
\* (unique index); otherwise the task, its job, and the clock past the tick's now.
Dispatch(w, s) ==
  /\ s \in tick[w].todo \ tick[w].paused
  /\ IF Due(s, tick[w].now) /\ s \in agents /\ <<s, schedule[s].next>> \notin occurrences
     THEN /\ occurrences' = occurrences \cup {<<s, schedule[s].next>>}
          /\ schedule' = [schedule EXCEPT ![s].last = tick[w].now,
                            ![s].next = NextRunAfter(schedule[s].period, tick[w].now)]
          /\ putBack' = putBack \ {s}
     ELSE UNCHANGED <<schedule, occurrences, putBack>>
  /\ Handled(w, s)
  /\ UNCHANGED <<hour, admins, agents, edit, failures>>

\* An error undoes the transaction of the schedule; the tick goes on.
DispatchFails(w, s) ==
  /\ s \in tick[w].todo /\ failures < MaxFailures
  /\ failures' = failures + 1
  /\ Handled(w, s)
  /\ UNCHANGED <<hour, schedule, occurrences, admins, agents, edit, putBack>>

\* The process dies.
TickCrash(w) ==
  /\ tick[w].todo # {} /\ failures < MaxFailures
  /\ failures' = failures + 1
  /\ tick' = [tick EXCEPT ![w] = NotListed]
  /\ UNCHANGED <<hour, schedule, occurrences, admins, agents, edit, putBack>>

Ticking(w) == ListDue(w) \/ \E s \in Schedules : Pause(w, s) \/ Dispatch(w, s)

StandingNext ==
  \/ Hour
  \/ \E s \in Schedules :
       \/ \E period \in Periods : CreateSchedule(s, period) \/ UpdateSchedule(s, period)
       \/ UpdateScheduleRow(s) \/ SetScheduleEnabled(s) \/ ChangeRole(s) \/ ChangeAgent(s)
  \/ \E w \in Ticks : Ticking(w) \/ TickCrash(w) \/ \E s \in Schedules : DispatchFails(w, s)

StandingSpec == StandingInit /\ [][StandingNext]_standingVars

\* The worker ticks every minute, and its statements end.  A schedule that is
\* paused, repinned or whose author changes for ever need not be dispatched.
StandingFairness ==
  /\ \A s \in Schedules : WF_standingVars(UpdateScheduleRow(s))
  /\ \A w \in Ticks : /\ WF_standingVars(ListDue(w))
                      /\ \A s \in Schedules : WF_standingVars(Pause(w, s) \/ Dispatch(w, s))

-----------------------------------------------------------------------------
\* However ticks overlap, are late, fail or are repeated, a schedule makes a
\* task only when it is due and enabled, and one task for all the time it was
\* not looked at (cadence.ts: "a missed or delayed tick runs once, never N
\* times"); an edit that computed its due time before the last run excepted.
OneTaskPerDueTime ==
  [][\A s \in Schedules, t \in 0..Horizon :
       <<s, t>> \in occurrences' \ occurrences =>
         /\ schedule[s].enabled /\ t <= hour
         /\ schedule[s].last < t \/ s \in putBack]_standingVars

\* A due schedule is dispatched, or paused, edited or left without a valid
\* assignment.  It is not when an edit that computed its due time before a run
\* and wrote it after that run put the clock back to the occurrence that has
\* run: every tick then suppresses it and none moves its clock.
DueIsDispatched ==
  \A s \in Schedules :
    ScheduleExists(s) /\ Due(s, hour) /\ s \in agents
      ~> \/ ~Due(s, hour) \/ s \notin agents \cap admins
         \/ s \in putBack /\ <<s, schedule[s].next>> \in occurrences
=============================================================================
