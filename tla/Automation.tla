----------------------------- MODULE Automation -----------------------------
(* One durable schedule: the row of triggers, the rows of trigger_firings,    *)
(* SchedulerEngine#tick and the runs it creates under an idempotency key.     *)
(*                                                                            *)
(* createRun is synchronous in the Manager: nothing of this process runs      *)
(* between the steps of a tick, but the clock moves and the process may die.  *)
(* One Manager lives at a time; the row and its lease survive it.             *)
EXTENDS Integers

CONSTANTS MaxTime,     \* bound on the clock
          Interval, Jitter, LeaseTime, RetryTime,
          Pids         \* a restarted Manager may get the process id of a dead one

ASSUME AutomationAssumption ==
  /\ MaxTime \in Nat /\ Interval \in Nat \ {0}
  /\ Jitter \in Nat /\ LeaseTime \in Nat /\ RetryTime \in Nat

Never == MaxTime + 1
Nobody == 0
Policies == {"skip", "catch-up", "one-shot"}

VARIABLES
  clock,      \* Date.now()
  policy,     \* missed_run_policy and one_shot
  trigger,    \* [next, owner, expires] of the row; a disabled row is never due
  firing,     \* trigger_firings: scheduled_at -> [status, owner]
  fired,      \* the runs: the occurrence in the key, and the tick that created it
  pid, tickPc, \* the Manager, and what its tick does next
  tickNow, occurrence,  \* arguments of tick: now, nextFireAt of the row it claimed
  spoilt      \* history: a tick failed although its run had been created

schedule == <<policy, trigger, firing>>
tick == <<tickPc, tickNow, occurrence>>
automationVars == <<clock, schedule, fired, pid, tick, spoilt>>

Times == 0 .. Never
NoFiring == [status |-> "none", owner |-> Nobody]

AutomationInit ==
  /\ clock = 0 /\ policy \in Policies
  /\ trigger = [next |-> Interval, owner |-> Nobody, expires |-> 0]
  /\ firing = [t \in Times |-> NoFiring]
  /\ fired = {} /\ pid \in Pids
  /\ tickPc = "idle" /\ tickNow = 0 /\ occurrence = 0 /\ spoilt = FALSE

Later(t) == IF t > MaxTime THEN Never ELSE t

-----------------------------------------------------------------------------
\* nextOccurrence: the occurrences that were missed are skipped, or run one by
\* one.  The jitter is a hash of the occurrence.
NextOccurrences(next, firedAt) ==
  LET missed == IF firedAt < next THEN 1 ELSE (firedAt - next) \div Interval + 1
  IN IF policy = "one-shot" THEN {Never}
     ELSE IF policy = "catch-up" THEN {Later(next + Interval)}
     ELSE {Later(next + missed * Interval + j) : j \in 0 .. Jitter}

Unleased(next) == [next |-> next, owner |-> Nobody, expires |-> 0]

\* The firing of the row, if it was claimed by this owner.
Settle(status) ==
  firing' = IF firing[trigger.next].owner = pid
            THEN [firing EXCEPT ![trigger.next].status = status] ELSE firing

\* claimDue: one transaction.  The lease of a dead owner must have expired, also
\* when it had the same process id.
ClaimDue ==
  /\ tickPc = "idle"
  /\ trigger.next <= clock /\ trigger.next # Never
  /\ trigger.owner = Nobody \/ trigger.expires <= clock
  /\ trigger' = [trigger EXCEPT !.owner = pid, !.expires = clock + LeaseTime]
  /\ firing' = IF firing[trigger.next] = NoFiring
               THEN [firing EXCEPT ![trigger.next] = [status |-> "CLAIMED", owner |-> pid]]
               ELSE firing
  /\ tickNow' = clock /\ occurrence' = trigger.next /\ tickPc' = "create"
  /\ UNCHANGED <<clock, policy, fired, pid, spoilt>>

\* The key is that of the occurrence: a second createRun is a replay.
CreateRunOf(key) ==
  /\ tickPc = "create" /\ tickPc' = "complete"
  /\ fired' = IF \E run \in fired : run.key = key THEN fired
              ELSE fired \union {[key |-> key, at |-> tickNow]}
  /\ UNCHANGED <<clock, schedule, pid, tickNow, occurrence, spoilt>>

\* Mutant: the key of the tick.
CreateRunOfTick == CreateRunOf(tickNow)

CreateScheduledRun == CreateRunOf(occurrence)

Complete ==
  /\ tickPc = "complete" /\ tickPc' = "idle"
  /\ IF trigger.owner = pid
     THEN /\ \E next \in NextOccurrences(trigger.next, tickNow) : trigger' = Unleased(next)
          /\ Settle("COMPLETED")
     ELSE UNCHANGED <<trigger, firing>>
  /\ UNCHANGED <<clock, policy, fired, pid, tickNow, occurrence, spoilt>>

\* createRun throws because the Manager shuts down, or because the profile or the
\* session of the schedule is refused; or the database does, in either call.
TickThrows ==
  /\ tickPc \in {"create", "complete"} /\ tickPc' = "fail"
  /\ UNCHANGED <<clock, schedule, fired, pid, tickNow, occurrence, spoilt>>

\* The occurrence is moved by half a minute, and with it the key of the next try.
FailTrigger ==
  /\ tickPc = "fail" /\ tickPc' = "idle"
  /\ IF trigger.owner = pid
     THEN trigger' = Unleased(Later(tickNow + RetryTime)) /\ Settle("FAILED")
     ELSE UNCHANGED <<trigger, firing>>
  /\ spoilt' = (spoilt \/ \E run \in fired : run.key = occurrence)
  /\ UNCHANGED <<clock, policy, fired, pid, tickNow, occurrence>>

ClockTicks ==
  /\ clock < MaxTime /\ clock' = clock + 1
  /\ UNCHANGED <<schedule, fired, pid, tick, spoilt>>

\* The Manager dies and another starts; ensure leaves an existing row alone.
RestartScheduler ==
  /\ pid' \in Pids /\ tickPc' = "idle" /\ tickNow' = 0 /\ occurrence' = 0
  /\ UNCHANGED <<clock, schedule, fired, spoilt>>

AutomationNext ==
  \/ ClaimDue \/ CreateScheduledRun \/ Complete \/ TickThrows \/ FailTrigger
  \/ ClockTicks \/ RestartScheduler

AutomationSpec == AutomationInit /\ [][AutomationNext]_automationVars

-----------------------------------------------------------------------------
(* nextDailyOccurrence: the instants at which a schedule with a time zone and *)
(* a local time fires, across one change of the zone's offset.  Instants and  *)
(* local times are counted in one unit, Day of them to a day.                 *)

CONSTANTS Day, Horizon,  \* bound on the instants considered
          Offsets, Shifts, Lateness  \* of zones, and of ticks

\* No zone skips or repeats more than a day.
ASSUME DailyAssumption ==
  /\ Day \in Nat \ {0} /\ Lateness \in Nat
  /\ Offsets \subseteq Int /\ Shifts \subseteq -Day .. Day

VARIABLES zone,   \* offset before the change, what the change adds, its instant
          timeOfDay,
          due,    \* next_fire_at
  after   \* when the schedule was made, or when the tick fired that served due

dailyVars == <<zone, timeOfDay, due, after>>

\* zonedParts
Local(u) == u + zone.offset + (IF u < zone.at THEN 0 ELSE zone.shift)

\* zonedLocalToUtc: at most six corrections, each by what the last one is off.
CandidateAfter(corrections, target) ==
  LET candidate[i \in 0 .. corrections] ==
        IF i = 0 THEN target
        ELSE LET last == candidate[i - 1] IN last + target - Local(last)
  IN candidate[corrections]

\* Mutant: the offset is looked up once.
CandidateAtOnce(target) == CandidateAfter(1, target)

Candidate(target) == CandidateAfter(6, target)

\* Its final test: the local time does not exist on that day.
Exists(target) == Local(Candidate(target)) = target

\* The local dates of an instant and of the three days that follow.
Targets(start) == {(Local(start) \div Day + d) * Day + timeOfDay : d \in 0 .. 3}

OccurrencesAfter(start) ==
  {Candidate(t) : t \in {u \in Targets(start) : Exists(u) /\ Candidate(u) > start}}

Occurrences == OccurrencesAfter(after)

\* The loop goes through the dates in order, and throws if none is left.
NextDaily ==
  LET all == Occurrences IN CHOOSE u \in all : \A v \in all : Local(u) <= Local(v)

DailyInit ==
  /\ zone \in [offset : Offsets, shift : Shifts, at : 3 * Day .. 4 * Day]
  /\ timeOfDay \in 0 .. Day - 1
  /\ due = 0 /\ after \in 2 * Day .. 4 * Day + 1

\* "catch-up" continues from the occurrence, "skip" from the tick.
DailyNext ==
  /\ Occurrences # {} /\ after < Horizon
  /\ due' = NextDaily
  /\ after' \in due' .. due' + Lateness
  /\ UNCHANGED <<zone, timeOfDay>>

DailySpec == DailyInit /\ [][DailyNext]_dailyVars

-----------------------------------------------------------------------------
(* Properties *)

\* Types of the schedule and its runs.
AutomationTypeOK ==
  /\ clock \in 0 .. MaxTime /\ policy \in Policies /\ pid \in Pids
  /\ trigger.next \in Nat /\ trigger.owner \in Pids \union {Nobody}
  /\ tickPc \in {"idle", "create", "complete", "fail"}
  /\ tickNow \in 0 .. MaxTime /\ spoilt \in BOOLEAN
  /\ \A run \in fired : run.key \in 0 .. MaxTime /\ run.at \in 0 .. MaxTime

\* A schedule survives restarts, expired leases and slow ticks without firing
\* twice for an occurrence: two runs are an interval apart, a backlog that is
\* skipped is run once, and a one-shot schedule runs once.  Only a tick that fails
\* after its run was created, by itself or by a process that died, breaks it: fail
\* moves the occurrence, and the next try has another key.
ScheduleFiresOnce ==
  spoilt \/ \A a, b \in fired : a.key < b.key =>
    /\ policy # "one-shot"
    /\ b.key >= a.key + Interval
    /\ policy = "skip" => b.key > a.at

\* A daily schedule fires at its local time and once a day: the next occurrence
\* is later, no time of day that exists once is passed over, and a local time
\* that the change of the offset repeats is not fired for again; and there always
\* is a next one.
FiresDaily ==
  [][LET passed == {u \in after + 1 .. due' - 1 : Local(u) % Day = timeOfDay}
     IN /\ due' > after /\ Local(due') % Day = timeOfDay
        /\ \A u \in passed : \E v \in u - Day .. u + Day : v # u /\ Local(v) = Local(u)
        /\ due # 0 => Local(due') # Local(due)
        /\ OccurrencesAfter(after') # {}]_dailyVars
=============================================================================
