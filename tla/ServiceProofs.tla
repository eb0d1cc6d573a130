---------------------------- MODULE ServiceProofs ----------------------------
(* Services that share rows and files with those they serve: a schedule fires *)
(* once per occurrence, an approval grants what was approved, a cache entry   *)
(* stays with its readers; keys, tokens, connections and rows with their      *)
(* owners, old archives and rows are read as they were written, and budgets   *)
(* and charges add up.                                                        *)
EXTENDS Automation, Approvals, CacheCatalog, CredentialStore, AccessTokens,
        ProviderConnections, RunAdmission, RequestRoutes, SchemaMigration, WorkspaceArchive,
        ChildBudgets, Metering,
        FiniteSetTheorems, SequenceTheorems, WellFoundedInduction, TLAPS

-----------------------------------------------------------------------------
(* The schedule                                                               *)

\* A tick works on the occurrence it claimed, and knows every run created so far.
TickIsCurrent ==
  /\ \A run \in fired : run.at <= clock
  /\ tickPc # "idle" =>
       /\ trigger.owner = pid /\ trigger.next = occurrence
       /\ occurrence <= tickNow /\ tickNow <= clock
       /\ \A run \in fired : run.at <= tickNow

\* The next occurrence is the one of the last run, or lies beyond all of them.
NextIsBeyond ==
  \A run \in fired :
    \/ run.key = trigger.next
    \/ trigger.next = Never
    \/ /\ policy # "one-shot"
       /\ run.key + Interval <= trigger.next
       /\ policy = "skip" => run.at < trigger.next

\* The inductive invariant: an occurrence fires once because the next one is always beyond
\* all that fired, unless a tick failed after it had created its run.
AutomationInv ==
  AutomationTypeOK /\ TickIsCurrent /\ (spoilt \/ NextIsBeyond) /\ ScheduleFiresOnce

\* Skipping the missed occurrences leaves none of them behind.
LEMMA MissedAreSkipped ==
  ASSUME NEW d \in Nat, NEW n \in Nat \ {0}
  PROVE  /\ d \div n \in Nat
         /\ d < ((d \div n) + 1) * n
         /\ n <= ((d \div n) + 1) * n
  OBVIOUS

\* The next occurrence lies beyond the one that was run, by an interval at least,
\* and a backlog that is skipped lies behind it (nextOccurrence).
LEMMA NextOccurrence ==
  ASSUME NEW due_ \in Nat, NEW now \in Nat, NEW next \in NextOccurrences(due_, now),
         policy \in Policies
  PROVE  /\ next \in Nat
         /\ \/ next = Never
            \/ /\ policy # "one-shot" /\ due_ + Interval <= next
               /\ policy = "skip" => now < next
  <1> USE AutomationAssumption DEF Never, Later
  <1>1. CASE policy = "one-shot"
    BY <1>1 DEF NextOccurrences
  <1>2. CASE policy = "catch-up"
    BY <1>2 DEF NextOccurrences
  <1>3. CASE policy = "skip"
    <2> DEFINE missed == IF now < due_ THEN 1 ELSE (now - due_) \div Interval + 1
    <2>1. PICK j \in 0 .. Jitter : next = Later(due_ + missed * Interval + j)
      BY <1>3 DEF NextOccurrences
    <2>2. missed * Interval \in Nat /\ Interval <= missed * Interval
          /\ now < due_ + missed * Interval
      <3>1. CASE now < due_
        BY <3>1
      <3>2. CASE ~(now < due_)
        <4>1. now - due_ \in Nat
          BY <3>2
        <4>. QED  BY <3>2, <4>1, MissedAreSkipped
      <3>. QED  BY <3>1, <3>2
    <2>. HIDE DEF missed
    <2>. QED  BY <1>3, <2>1, <2>2
  <1>. QED  BY <1>1, <1>2, <1>3 DEF Policies

\* A run that is created is that of the occurrence that was claimed.
LEMMA CreateKeepsInv ==
  ASSUME AutomationInv, CreateScheduledRun
  PROVE  AutomationInv'
  <1> USE AutomationAssumption DEF Never
  <1>1. /\ tickPc = "create" /\ tickPc' = "complete"
        /\ UNCHANGED <<clock, schedule, pid, tickNow, occurrence, spoilt>>
        /\ fired' = fired \/ fired' = fired \union {[key |-> occurrence, at |-> tickNow]}
    BY DEF CreateScheduledRun, CreateRunOf
  <1>2. /\ trigger.next = occurrence /\ occurrence <= tickNow /\ tickNow <= clock
        /\ tickNow \in 0 .. MaxTime /\ occurrence \in 0 .. MaxTime
        /\ trigger.owner = pid
    BY <1>1 DEF AutomationInv, TickIsCurrent, AutomationTypeOK
  <1>3. AutomationTypeOK' /\ TickIsCurrent'
    BY <1>1, <1>2 DEF AutomationInv, AutomationTypeOK, TickIsCurrent, schedule
  <1>4. spoilt \/ NextIsBeyond'
    BY <1>1, <1>2 DEF AutomationInv, NextIsBeyond, schedule
  <1>5. ASSUME ~spoilt, NEW a \in fired', NEW b \in fired', a.key < b.key
        PROVE  /\ policy # "one-shot"
               /\ b.key >= a.key + Interval
               /\ policy = "skip" => b.key > a.at
    <2>1. CASE a \in fired /\ b \in fired
      BY <1>5, <2>1 DEF AutomationInv, ScheduleFiresOnce
    <2>2. CASE a \in fired /\ b = [key |-> occurrence, at |-> tickNow]
      BY <1>2, <1>5, <2>2 DEF AutomationInv, NextIsBeyond
    <2>3. CASE a = [key |-> occurrence, at |-> tickNow] /\ b \in fired
      BY <1>2, <1>5, <2>3 DEF AutomationInv, NextIsBeyond, AutomationTypeOK
    <2>4. CASE a.key = occurrence /\ b.key = occurrence
      BY <1>2, <1>5, <2>4
    <2>. QED  BY <1>1, <1>5, <2>1, <2>2, <2>3, <2>4
  <1>. QED  BY <1>1, <1>3, <1>4, <1>5 DEF AutomationInv, ScheduleFiresOnce, schedule

\* A tick that completes moves the row beyond what it ran.
LEMMA CompleteKeepsInv ==
  ASSUME AutomationInv, Complete
  PROVE  AutomationInv'
  <1> USE AutomationAssumption
  <1>1. /\ tickPc = "complete" /\ tickPc' = "idle" /\ trigger.owner = pid
        /\ trigger.next = occurrence /\ occurrence <= tickNow /\ tickNow <= clock
        /\ \A run \in fired : run.at <= tickNow
        /\ trigger.next \in Nat /\ tickNow \in Nat
    BY DEF Complete, AutomationInv, TickIsCurrent, AutomationTypeOK
  <1>2. PICK next \in NextOccurrences(trigger.next, tickNow) : trigger' = Unleased(next)
    BY <1>1 DEF Complete
  <1>3. /\ next \in Nat
        /\ \/ next = Never
           \/ /\ policy # "one-shot" /\ trigger.next + Interval <= next
              /\ policy = "skip" => tickNow < next
    BY <1>1, <1>2, NextOccurrence DEF AutomationInv, AutomationTypeOK
  <1>4. UNCHANGED <<clock, policy, fired, pid, tickNow, occurrence, spoilt>>
    BY DEF Complete
  <1>5. AutomationTypeOK' /\ TickIsCurrent'
    BY <1>1, <1>2, <1>3, <1>4 DEF AutomationInv, AutomationTypeOK, TickIsCurrent, Unleased
  <1>6. spoilt \/ NextIsBeyond'
    BY <1>1, <1>2, <1>3, <1>4
    DEF AutomationInv, AutomationTypeOK, NextIsBeyond, Unleased, Never
  <1>. QED  BY <1>4, <1>5, <1>6 DEF AutomationInv, ScheduleFiresOnce

\* A tick that fails before its run was created tries again later.
LEMMA FailKeepsInv ==
  ASSUME AutomationInv, FailTrigger
  PROVE  AutomationInv'
  <1> USE AutomationAssumption
  <1>1. /\ tickPc = "fail" /\ tickPc' = "idle" /\ trigger.owner = pid
        /\ trigger.next = occurrence /\ occurrence <= tickNow /\ tickNow <= clock
        /\ clock \in 0 .. MaxTime /\ tickNow \in Nat /\ occurrence \in Nat
    BY DEF FailTrigger, AutomationInv, TickIsCurrent, AutomationTypeOK
  <1>2. /\ trigger' = Unleased(Later(tickNow + RetryTime))
        /\ spoilt' = (spoilt \/ \E run \in fired : run.key = occurrence)
        /\ UNCHANGED <<clock, policy, fired, pid, tickNow, occurrence>>
    BY <1>1 DEF FailTrigger
  <1>3. /\ Later(tickNow + RetryTime) \in Nat
        /\ Later(tickNow + RetryTime) = Never \/ occurrence <= Later(tickNow + RetryTime)
    BY <1>1 DEF Later, Never
  <1>4. AutomationTypeOK' /\ TickIsCurrent'
    BY <1>1, <1>2, <1>3 DEF AutomationInv, AutomationTypeOK, TickIsCurrent, Unleased
  <1>5. ASSUME ~spoilt', NEW run \in fired
        PROVE  \/ Later(tickNow + RetryTime) = Never
               \/ /\ policy # "one-shot"
                  /\ run.key + Interval <= Later(tickNow + RetryTime)
                  /\ policy = "skip" => run.at < Later(tickNow + RetryTime)
    <2>1. run.key # occurrence /\ ~spoilt
      BY <1>2, <1>5
    <2>2. trigger.next # Never
      BY <1>1 DEF Never
    <2>. QED  BY <1>1, <1>3, <2>1, <2>2 DEF AutomationInv, AutomationTypeOK, NextIsBeyond
  <1>6. spoilt' \/ NextIsBeyond'
    BY <1>2, <1>5 DEF NextIsBeyond, Unleased, Never
  <1>. QED  BY <1>2, <1>4, <1>6 DEF AutomationInv, ScheduleFiresOnce

\* Every step of the engine, its clock and its processes keeps the schedule.
LEMMA AutomationStep == AutomationInv /\ [AutomationNext]_automationVars => AutomationInv'
  <1> SUFFICES ASSUME AutomationInv, [AutomationNext]_automationVars PROVE AutomationInv'
    OBVIOUS
  <1> USE AutomationAssumption
      DEF AutomationInv, AutomationTypeOK, TickIsCurrent, NextIsBeyond, ScheduleFiresOnce
  <1>1. CASE ClaimDue
    BY <1>1 DEF ClaimDue, Never
  <1>2. CASE TickThrows
    BY <1>2 DEF TickThrows, schedule
  <1>3. CASE ClockTicks
    BY <1>3 DEF ClockTicks, schedule, tick
  <1>4. CASE RestartScheduler
    BY <1>4 DEF RestartScheduler, schedule
  <1>5. CASE UNCHANGED automationVars
    BY <1>5 DEF automationVars, schedule, tick
  <1>. QED  BY <1>1, <1>2, <1>3, <1>4, <1>5, CreateKeepsInv, CompleteKeepsInv, FailKeepsInv
            DEF AutomationNext

\* The clock stands at zero and no run was created.
LEMMA AutomationInitial == AutomationInit => AutomationInv
  <1> SUFFICES ASSUME AutomationInit PROVE AutomationInv
    OBVIOUS
  <1> USE AutomationAssumption DEF AutomationInit
  <1>1. AutomationTypeOK
    <2>1. trigger.next = Interval /\ trigger.owner = Nobody
      OBVIOUS
    <2>2. spoilt \in BOOLEAN
      OBVIOUS
    <2>3. clock \in 0 .. MaxTime /\ tickNow \in 0 .. MaxTime
      OBVIOUS
    <2>4. policy \in Policies /\ pid \in Pids /\ fired = {} /\ tickPc = "idle"
      OBVIOUS
    <2>. QED  BY <2>1, <2>2, <2>3, <2>4 DEF AutomationTypeOK
  <1>2. TickIsCurrent /\ NextIsBeyond /\ ScheduleFiresOnce
    BY DEF TickIsCurrent, NextIsBeyond, ScheduleFiresOnce
  <1>. QED  BY <1>1, <1>2 DEF AutomationInv

\* Two runs of a schedule are an interval apart and a skipped backlog is run once,
\* for every interval, jitter, lease and clock, unless a tick failed after its run
\* was created (SchedulerEngine#tick, nextOccurrence).
THEOREM SchedulesFireOnce == AutomationSpec => []ScheduleFiresOnce
  <1>1. AutomationInv => ScheduleFiresOnce
    BY DEF AutomationInv
  <1>. QED  BY <1>1, AutomationInitial, AutomationStep, PTL DEF AutomationSpec

-----------------------------------------------------------------------------
(* The daily schedule.  A local time has two instants that may represent it,  *)
(* one in the offset before the change and one in that after it; the          *)
(* correction of the first guess settles on one that does.                    *)

\* Instants of one local time of day are whole days apart.
LEMMA DayAndTime ==
  ASSUME NEW m \in Int
  PROVE  /\ m \div Day \in Int /\ m % Day \in 0 .. Day - 1
         /\ m = (m \div Day) * Day + (m % Day)
  BY DailyAssumption

LEMMA LaterDay ==
  ASSUME NEW j \in Int, NEW k \in Int, j < k
  PROVE  j * Day + Day <= k * Day
  <1>1. PICK n \in Nat : k = j + 1 + n
    BY DailyAssumption
  <1>2. n * Day \in Nat
    BY DailyAssumption
  <1>3. k * Day = j * Day + Day + n * Day
    BY DailyAssumption, <1>1
  <1>. QED  BY DailyAssumption, <1>2, <1>3

LEMMA TimeOfInstant ==
  ASSUME NEW k \in Int, NEW r \in 0 .. Day - 1
  PROVE  (k * Day + r) % Day = r
  <1>1. PICK m \in Int : m = k * Day + r
    BY DailyAssumption
  <1>2. PICK q \in Int : q = m \div Day
    BY <1>1, DayAndTime
  <1>3. PICK s \in 0 .. Day - 1 : s = m % Day
    BY <1>1, DayAndTime
  <1>4. m = q * Day + s
    BY <1>1, <1>2, <1>3, DayAndTime
  <1>5. ~(q < k)
    BY <1>1, <1>3, <1>4, DailyAssumption, LaterDay
  <1>6. ~(k < q)
    BY <1>1, <1>3, <1>4, DailyAssumption, LaterDay
  <1>7. q = k
    BY <1>2, <1>5, <1>6
  <1>8. s = r
    BY <1>1, <1>4, <1>7, DailyAssumption
  <1>. QED  BY <1>1, <1>3, <1>8

\* What the zone and the local time of a schedule can be.
DailyShape ==
  /\ zone \in [offset : Int, shift : -Day .. Day, at : Int] /\ timeOfDay \in 0 .. Day - 1
  /\ due \in Int /\ after \in Int

\* The instant of a local time before the change, and after it.
Early(t) == t - zone.offset
Late(t)  == t - zone.offset - zone.shift

\* One correction leads to the instant in the offset that the last guess has.
Corrected(c, t) == IF c < zone.at THEN Early(t) ELSE Late(t)

LEMMA ZoneNumbers ==
  ASSUME DailyShape
  PROVE  /\ zone.offset \in Int /\ zone.shift \in -Day .. Day /\ zone.shift \in Int
         /\ zone.at \in Int
         /\ Day \in Nat \ {0}
         /\ \A u \in Int : Local(u) \in Int
                           /\ Local(u) = u + zone.offset + (IF u < zone.at THEN 0 ELSE zone.shift)
  BY DailyAssumption DEF DailyShape, Local

\* zonedLocalToUtc makes the first guess and six corrections.
LEMMA SixCorrections ==
  ASSUME DailyShape, NEW t \in Int
  PROVE  \E c \in [0 .. 6 -> Int] :
           /\ c[0] = t /\ Candidate(t) = c[6]
           /\ \A i \in 0 .. 5 : c[i + 1] = Corrected(c[i], t)
  <1>1. \A c \in Int : Corrected(c, t) \in Int /\ c + t - Local(c) = Corrected(c, t)
    BY ZoneNumbers DEF Corrected, Early, Late, Local
  <1>2. PICK a1 \in Int, a2 \in Int, a3 \in Int, a4 \in Int, a5 \in Int, a6 \in Int :
          /\ a1 = Corrected(t, t) /\ a2 = Corrected(a1, t) /\ a3 = Corrected(a2, t)
          /\ a4 = Corrected(a3, t) /\ a5 = Corrected(a4, t) /\ a6 = Corrected(a5, t)
    <2>1. PICK a1 \in Int : a1 = Corrected(t, t)
      BY <1>1
    <2>2. PICK a2 \in Int : a2 = Corrected(a1, t)
      BY <1>1
    <2>3. PICK a3 \in Int : a3 = Corrected(a2, t)
      BY <1>1
    <2>4. PICK a4 \in Int : a4 = Corrected(a3, t)
      BY <1>1
    <2>5. PICK a5 \in Int : a5 = Corrected(a4, t)
      BY <1>1
    <2>6. PICK a6 \in Int : a6 = Corrected(a5, t)
      BY <1>1
    <2>. QED  BY <2>1, <2>2, <2>3, <2>4, <2>5, <2>6
  <1> DEFINE Guesses(c) ==
               c = [i \in 0 .. 6 |-> IF i = 0 THEN t
                                     ELSE LET last == c[i - 1] IN last + t - Local(last)]
             all == [i \in 0 .. 6 |->
                       IF i = 0 THEN t ELSE IF i = 1 THEN a1 ELSE IF i = 2 THEN a2
                       ELSE IF i = 3 THEN a3 ELSE IF i = 4 THEN a4 ELSE IF i = 5 THEN a5 ELSE a6]
             c == CHOOSE c : Guesses(c)
  <1>3. Guesses(all)
    <2>1. /\ all[0] = t /\ all[1] = a1 /\ all[2] = a2 /\ all[3] = a3 /\ all[4] = a4 /\ all[5] = a5
          /\ all[6] = a6
      OBVIOUS
    <2>2. /\ a1 = t + t - Local(t) /\ a2 = a1 + t - Local(a1) /\ a3 = a2 + t - Local(a2)
          /\ a4 = a3 + t - Local(a3) /\ a5 = a4 + t - Local(a4) /\ a6 = a5 + t - Local(a5)
      BY <1>1, <1>2
    <2>3. ASSUME NEW i \in 0 .. 6
          PROVE  all[i] = IF i = 0 THEN t ELSE LET last == all[i - 1] IN last + t - Local(last)
      <3>1. i \in {0, 1, 2, 3, 4, 5, 6}
        OBVIOUS
      <3>. HIDE DEF all
      <3>. QED  BY <2>1, <2>2, <3>1
    <2>4. all = [i \in 0 .. 6 |-> all[i]]
      OBVIOUS
    <2>. HIDE DEF all
    <2>. QED  BY <2>3, <2>4
  <1>4. Guesses(c)
    BY <1>3
  <1>5. Candidate(t) = c[6]
    BY DEF Candidate, CandidateAfter
  <1>. HIDE DEF c, all
  <1>6. c[0] = t /\ \A i \in 1 .. 6 : c[i] = c[i - 1] + t - Local(c[i - 1])
    BY <1>4
  <1>7. DOMAIN c = 0 .. 6 /\ c = [i \in 0 .. 6 |-> c[i]]
    BY <1>4
  <1>. HIDE DEF Guesses
  <1>8. /\ c[1] = Corrected(c[0], t) /\ c[1] \in Int
        /\ c[2] = Corrected(c[1], t) /\ c[2] \in Int
        /\ c[3] = Corrected(c[2], t) /\ c[3] \in Int
        /\ c[4] = Corrected(c[3], t) /\ c[4] \in Int
        /\ c[5] = Corrected(c[4], t) /\ c[5] \in Int
        /\ c[6] = Corrected(c[5], t) /\ c[6] \in Int
    <2>1. c[0] \in Int
      BY <1>6
    <2>2. c[1] = Corrected(c[0], t) /\ c[1] \in Int
      BY <1>1, <1>6, <2>1
    <2>3. c[2] = Corrected(c[1], t) /\ c[2] \in Int
      BY <1>1, <1>6, <2>2
    <2>4. c[3] = Corrected(c[2], t) /\ c[3] \in Int
      BY <1>1, <1>6, <2>3
    <2>5. c[4] = Corrected(c[3], t) /\ c[4] \in Int
      BY <1>1, <1>6, <2>4
    <2>6. c[5] = Corrected(c[4], t) /\ c[5] \in Int
      BY <1>1, <1>6, <2>5
    <2>7. c[6] = Corrected(c[5], t) /\ c[6] \in Int
      BY <1>1, <1>6, <2>6
    <2>. QED  BY <2>2, <2>3, <2>4, <2>5, <2>6, <2>7
  <1>9. \A i \in 0 .. 5 : c[i + 1] = Corrected(c[i], t)
    <2>1. ASSUME NEW i \in 0 .. 5 PROVE c[i + 1] = Corrected(c[i], t)
      <3>1. i \in {0, 1, 2, 3, 4, 5}
        OBVIOUS
      <3>. QED  BY <1>8, <3>1
    <2>. QED  BY <2>1
  <1>10. c \in [0 .. 6 -> Int]
    <2>1. \A i \in 0 .. 6 : c[i] \in Int
      <3>1. ASSUME NEW i \in 0 .. 6 PROVE c[i] \in Int
        <4>1. i \in {0, 1, 2, 3, 4, 5, 6}
          OBVIOUS
        <4>. QED  BY <1>6, <1>8, <4>1
      <3>. QED  BY <3>1
    <2>. QED  BY <1>7, <2>1
  <1>. QED  BY <1>5, <1>6, <1>9, <1>10

\* What is settled on is one of the two instants, and represents the local time if one does.
LEMMA CandidateRepresents ==
  ASSUME DailyShape, NEW t \in Int
  PROVE  /\ Candidate(t) \in Int
         /\ Early(t) < zone.at \/ Late(t) >= zone.at => Exists(t)
  <1>1. PICK c \in [0 .. 6 -> Int] :
          /\ c[0] = t /\ Candidate(t) = c[6]
          /\ \A i \in 0 .. 5 : c[i + 1] = Corrected(c[i], t)
    BY SixCorrections
  <1>6. PICK x \in Int, y \in Int, moment \in Int :
          x = Early(t) /\ y = Late(t) /\ moment = zone.at
    <2>1. Early(t) \in Int /\ Late(t) \in Int
      BY ZoneNumbers DEF Early, Late
    <2>2. zone.at \in Int
      BY ZoneNumbers
    <2>. QED  BY <2>1, <2>2
  <1>2. PICK a4 \in Int, a5 \in Int, a6 \in Int : a4 = c[4] /\ a5 = c[5] /\ a6 = c[6]
    BY <1>1
  <1>3. /\ a5 = IF a4 < moment THEN x ELSE y
        /\ a6 = IF a5 < moment THEN x ELSE y
        /\ a4 \in {x, y}
    <2>1. /\ c[3 + 1] = Corrected(c[3], t) /\ c[4 + 1] = Corrected(c[4], t)
          /\ c[5 + 1] = Corrected(c[5], t)
      BY <1>1
    <2>. QED  BY <1>2, <1>6, <2>1 DEF Corrected
  <1>4. ASSUME x < moment \/ y >= moment
        PROVE  (a6 < moment /\ a6 = x) \/ (a6 >= moment /\ a6 = y)
    <2>1. CASE a5 < moment
      BY <1>3, <1>4, <2>1
    <2>2. CASE a5 >= moment
      BY <1>3, <1>4, <2>2
    <2>. QED  BY <2>1, <2>2
  <1>5. ASSUME x < moment \/ y >= moment
        PROVE  Local(a6) = t
    <2>1. /\ x + zone.offset = t /\ y + zone.offset + zone.shift = t
          /\ Local(a6) = a6 + zone.offset + (IF a6 < moment THEN 0 ELSE zone.shift)
      BY <1>2, <1>6, ZoneNumbers DEF Early, Late
    <2>. QED  BY <1>2, <1>4, <1>5, <1>6, <2>1, ZoneNumbers
  <1>. QED  BY <1>1, <1>2, <1>5, <1>6 DEF Exists

\* A time that some instant represents is found, at an instant at most a day away.
LEMMA RepresentedIsFound ==
  ASSUME DailyShape, NEW u \in Int
  PROVE  /\ Exists(Local(u)) /\ Candidate(Local(u)) \in u - Day .. u + Day
  <1> DEFINE t == Local(u)
  <1>1. t \in Int /\ Candidate(t) \in Int
    BY ZoneNumbers, CandidateRepresents
  <1>2. t = u + zone.offset + (IF u < zone.at THEN 0 ELSE zone.shift)
    BY ZoneNumbers
  <1>. HIDE DEF t
  <1>3. Early(t) < zone.at \/ Late(t) >= zone.at
    BY <1>1, <1>2, ZoneNumbers DEF Early, Late
  <1>4. Exists(t)
    BY <1>1, <1>3, CandidateRepresents
  <1>5. PICK v \in Int : v = Candidate(t)
    BY <1>1
  <1>6. Local(v) = t
    BY <1>4, <1>5 DEF Exists
  <1>7. v + zone.offset + (IF v < zone.at THEN 0 ELSE zone.shift) = t
    BY <1>6, ZoneNumbers
  <1>8. v \in u - Day .. u + Day
    BY <1>1, <1>2, <1>7, ZoneNumbers
  <1>. QED  BY <1>4, <1>5, <1>8 DEF t

\* The local dates that are looked at.
LEMMA FourDates ==
  ASSUME DailyShape, NEW start \in Int
  PROVE  \E first \in Int, k \in Int :
           /\ first = k * Day + timeOfDay /\ k * Day <= Local(start) /\ Local(start) < k * Day + Day
           /\ Targets(start) = {first, first + Day, first + 2 * Day, first + 3 * Day}
  <1>1. timeOfDay \in 0 .. Day - 1 /\ Day \in Nat \ {0} /\ Local(start) \in Int
    BY ZoneNumbers DEF DailyShape
  <1>2. PICK k \in Int : k = Local(start) \div Day
    BY <1>1, DayAndTime
  <1>3. k * Day <= Local(start) /\ Local(start) < k * Day + Day
    <2>1. PICK r \in 0 .. Day - 1 : Local(start) = k * Day + r
      BY <1>1, <1>2, DayAndTime
    <2>2. k * Day \in Int
      BY <1>1
    <2>. QED  BY <1>1, <2>1, <2>2
  <1>4. PICK first \in Int : first = k * Day + timeOfDay
    BY <1>1
  <1>5. \A d \in 0 .. 3 : (k + d) * Day + timeOfDay = first + d * Day
    BY <1>1, <1>4
  <1>6. Targets(start) = {first + d * Day : d \in 0 .. 3}
    BY <1>2, <1>5 DEF Targets
  <1>7. 0 .. 3 = {0, 1, 2, 3}
    OBVIOUS
  <1>8. Targets(start) = {first + 0 * Day, first + 1 * Day, first + 2 * Day, first + 3 * Day}
    BY <1>6, <1>7
  <1>9. first + 0 * Day = first /\ first + 1 * Day = first + Day
    BY <1>1, <1>4
  <1>. QED  BY <1>3, <1>4, <1>8, <1>9

\* Whatever comes later shows at most a day less.
LEMMA LocalTimesKeepUp ==
  ASSUME DailyShape, NEW u \in Int, NEW v \in Int, u <= v
  PROVE  /\ Local(u) <= Local(v) + Day
         /\ u < v => Local(u) < Local(v) + Day
  BY ZoneNumbers

\* A target is two dates ahead, or, when the change skips that time, three: there is one.
LEMMA ThereIsANext ==
  ASSUME DailyShape, NEW start \in Int
  PROVE  OccurrencesAfter(start) # {}
  <1>1. PICK first \in Int, k \in Int :
          /\ first = k * Day + timeOfDay /\ k * Day <= Local(start) /\ Local(start) < k * Day + Day
          /\ Targets(start) = {first, first + Day, first + 2 * Day, first + 3 * Day}
    BY FourDates
  <1>2. PICK here \in Int, moment \in Int, east \in Int, jump \in Int :
          /\ here = Local(start) /\ moment = zone.at /\ east = zone.offset /\ jump = zone.shift
          /\ -Day <= jump /\ jump <= Day /\ Day \in Nat \ {0}
    <2>1. Local(start) \in Int
      BY ZoneNumbers
    <2>2. zone.shift \in Int /\ -Day <= zone.shift /\ zone.shift <= Day /\ Day \in Nat \ {0}
      BY ZoneNumbers
    <2>3. zone.at \in Int /\ zone.offset \in Int
      BY ZoneNumbers
    <2>. QED  BY <2>1, <2>2, <2>3
  <1>3. here < first + Day
    <2>1. PICK midnight \in Int : midnight = k * Day
      BY <1>2
    <2>. QED  BY <1>1, <1>2, <2>1 DEF DailyShape
  <1>4. ASSUME NEW t \in Targets(start), t >= first + 2 * Day, t \in Int, Exists(t)
        PROVE  OccurrencesAfter(start) # {}
    <2>1. PICK v \in Int : v = Candidate(t)
      BY <1>4, CandidateRepresents
    <2>2. Local(v) = t
      BY <1>4, <2>1 DEF Exists
    <2>3. v > start
      <3>1. ~(v <= start)
        <4>1. ASSUME v <= start PROVE FALSE
          <5>1. Local(v) <= Local(start) + Day
            BY <4>1, LocalTimesKeepUp
          <5>. QED  BY <1>2, <1>3, <1>4, <2>2, <5>1
        <4>. QED  BY <4>1
      <3>. QED  BY <3>1
    <2>. QED  BY <1>4, <2>1, <2>3 DEF OccurrencesAfter
  <1>5. PICK two \in Int, three \in Int : two = first + 2 * Day /\ three = first + 3 * Day
    BY <1>2
  <1>6. Exists(two) \/ Exists(three)
    <2>1. Early(two) < moment \/ Late(two) >= moment \/ Late(three) >= moment
      <3>1. /\ Early(two) = two - east /\ Late(two) = two - east - jump
            /\ Late(three) = three - east - jump
        BY <1>2 DEF Early, Late
      <3>. QED  BY <1>2, <1>5, <3>1
    <2>. QED  BY <1>2, <1>5, <2>1, CandidateRepresents
  <1>. QED  BY <1>1, <1>2, <1>4, <1>5, <1>6

\* The occurrence that was served is one the correction settles on, and is over.
DailyInv ==
  /\ DailyShape
  /\ due # 0 => due <= after /\ Candidate(Local(due)) = due

\* A target shows the time of day of the schedule.
LEMMA TargetsShowTheTime ==
  ASSUME DailyShape, NEW start \in Int, NEW t \in Targets(start)
  PROVE  \E k \in Int : t = k * Day + timeOfDay
  <1>1. timeOfDay \in 0 .. Day - 1 /\ Day \in Nat \ {0} /\ Local(start) \in Int
    BY ZoneNumbers DEF DailyShape
  <1>2. PICK k \in Int : k = Local(start) \div Day
    BY <1>1, DayAndTime
  <1>3. PICK d \in 0 .. 3 : t = (k + d) * Day + timeOfDay
    BY <1>2 DEF Targets
  <1>4. k + d \in Int
    OBVIOUS
  <1>. QED  BY <1>3, <1>4

\* The first of the four dates that has an occurrence later than the schedule's last.
LEMMA NextIsFirst ==
  ASSUME DailyShape
  PROVE  /\ NextDaily \in Occurrences
         /\ \A u \in Occurrences : Local(NextDaily) <= Local(u)
  <1>1. PICK first \in Int, k \in Int :
          Targets(after) = {first, first + Day, first + 2 * Day, first + 3 * Day}
    BY FourDates DEF DailyShape
  <1>2. PICK one \in Int, two \in Int, three \in Int :
          /\ one = first + Day /\ two = first + 2 * Day /\ three = first + 3 * Day
          /\ first <= one /\ one <= two /\ two <= three
    BY DailyAssumption
  <1>3. Targets(after) = {first, one, two, three}
    BY <1>1, <1>2
  <1>4. ASSUME NEW u \in Occurrences
        PROVE  Local(u) \in Targets(after) /\ Candidate(Local(u)) = u
    BY <1>4 DEF Occurrences, OccurrencesAfter, Exists
  <1>5. \A u \in Occurrences, v \in Occurrences : Local(u) = Local(v) => u = v
    BY <1>4
  <1>6. Occurrences # {}
    BY ThereIsANext DEF Occurrences, DailyShape
  <1>7. \E u \in Occurrences : \A v \in Occurrences : Local(u) <= Local(v)
    <2> DEFINE Shown(t) == \E u \in Occurrences : Local(u) = t
    <2>1. \A u \in Occurrences : Local(u) \in {first, one, two, three} /\ Shown(Local(u))
      BY <1>3, <1>4
    <2>2. CASE Shown(first)
      <3>1. \A v \in Occurrences : first <= Local(v)
        BY <1>2, <2>1
      <3>. QED  BY <2>2, <3>1
    <2>3. CASE ~Shown(first) /\ Shown(one)
      <3>1. \A v \in Occurrences : Local(v) \in {one, two, three}
        BY <2>1, <2>3
      <3>2. \A v \in Occurrences : one <= Local(v)
        BY <1>2, <3>1
      <3>. QED  BY <2>3, <3>2
    <2>4. CASE ~Shown(first) /\ ~Shown(one) /\ Shown(two)
      <3>1. \A v \in Occurrences : Local(v) \in {two, three}
        BY <2>1, <2>4
      <3>2. \A v \in Occurrences : two <= Local(v)
        BY <1>2, <3>1
      <3>. QED  BY <2>4, <3>2
    <2>5. CASE ~Shown(first) /\ ~Shown(one) /\ ~Shown(two)
      <3>1. \A v \in Occurrences : Local(v) = three
        BY <2>1, <2>5
      <3>. QED  BY <1>2, <1>6, <3>1
    <2>. QED  BY <2>2, <2>3, <2>4, <2>5
  <1>. QED  BY <1>7 DEF NextDaily

\* What the next occurrence is.
LEMMA NextDailyOccurrence ==
  ASSUME DailyShape, NEW next, next = NextDaily
  PROVE  /\ next \in Int /\ next > after /\ Local(next) \in Targets(after)
         /\ Candidate(Local(next)) = next
         /\ \A t \in Targets(after) : Exists(t) /\ Candidate(t) > after => Local(next) <= t
  <1>1. PICK t \in Targets(after) : Exists(t) /\ Candidate(t) > after /\ next = Candidate(t)
    BY NextIsFirst DEF Occurrences, OccurrencesAfter
  <1>2. Local(next) = t
    BY <1>1 DEF Exists
  <1>3. t \in Int
    <2>1. timeOfDay \in Int /\ after \in Int /\ Day \in Int
      BY DailyAssumption DEF DailyShape
    <2>2. PICK k \in Int : t = k * Day + timeOfDay
      BY <1>1, <2>1, TargetsShowTheTime
    <2>. QED  BY <2>1, <2>2
  <1>4. next \in Int
    BY <1>1, <1>3, CandidateRepresents
  <1>5. ASSUME NEW s \in Targets(after), Exists(s), Candidate(s) > after
        PROVE  Local(next) <= s
    <2>1. Candidate(s) \in Occurrences /\ Local(Candidate(s)) = s
      BY <1>5 DEF Occurrences, OccurrencesAfter, Exists
    <2>. QED  BY <2>1, NextIsFirst
  <1>. QED  BY <1>1, <1>2, <1>4, <1>5

\* Two local times with the same time of day are a day apart.
LEMMA ADayBetween ==
  ASSUME NEW j \in Int, NEW k \in Int, NEW r \in Int, j * Day + r < k * Day + r
  PROVE  j * Day + r + Day <= k * Day + r
  <1>1. PICK low \in Int, high \in Int : low = j * Day /\ high = k * Day
    BY DailyAssumption
  <1>2. j < k
    <2>1. CASE k < j
      <3>1. high + Day <= low
        BY <1>1, <2>1, LaterDay
      <3>. QED  BY <1>1, <3>1, DailyAssumption
    <2>2. CASE k = j
      BY <1>1, <2>2
    <2>. QED  BY <2>1, <2>2
  <1>3. low + Day <= high
    BY <1>1, <1>2, LaterDay
  <1>. QED  BY <1>1, <1>3, DailyAssumption

\* A local time that is passed over is one the change repeats, and its other instant is
\* the one that is served.
LEMMA PassedIsRepeated ==
  ASSUME DailyShape, NEW next \in Int, next = NextDaily,
         NEW u \in Int, after < u, u < next, Local(u) % Day = timeOfDay
  PROVE  \E v \in u - Day .. u + Day : v # u /\ Local(v) = Local(u)
  <1>1. PICK first \in Int, k \in Int :
          /\ first = k * Day + timeOfDay /\ k * Day <= Local(after) /\ Local(after) < k * Day + Day
          /\ Targets(after) = {first, first + Day, first + 2 * Day, first + 3 * Day}
    BY FourDates DEF DailyShape
  <1>2. PICK t \in Int : t = Local(u)
    BY ZoneNumbers
  <1>3. PICK j \in Int : t = j * Day + timeOfDay
    <2>1. t % Day = timeOfDay
      BY <1>2
    <2>2. t \div Day \in Int /\ t = (t \div Day) * Day + (t % Day)
      BY <1>2, DayAndTime
    <2>. QED  BY <2>1, <2>2
  <1>4. Day \in Nat \ {0} /\ timeOfDay \in 0 .. Day - 1 /\ after \in Int
    BY ZoneNumbers DEF DailyShape
  <1>5. Exists(t) /\ Candidate(t) \in u - Day .. u + Day /\ Local(Candidate(t)) = Local(u)
    BY <1>2, RepresentedIsFound DEF Exists
  <1>6. CASE Candidate(t) # u
    BY <1>5, <1>6
  <1>7. CASE t < first
    <2>1. t + Day <= first
      BY <1>1, <1>3, <1>4, <1>7, ADayBetween
    <2>2. t < Local(after)
      <3>1. PICK midnight \in Int : midnight = k * Day
        BY <1>4
      <3>2. t + Day <= midnight + timeOfDay /\ midnight <= Local(after)
        BY <1>1, <2>1, <3>1
      <3>. QED  BY <1>4, <3>1, <3>2, ZoneNumbers
    <2>3. /\ Local(after) = after + zone.offset + (IF after < zone.at THEN 0 ELSE zone.shift)
          /\ t = u + zone.offset + (IF u < zone.at THEN 0 ELSE zone.shift)
      BY <1>2, <1>4, ZoneNumbers
    <2>4. zone.offset \in Int /\ zone.shift \in Int /\ zone.at \in Int
      BY ZoneNumbers
    <2>5. /\ after < zone.at /\ u >= zone.at /\ zone.shift < 0
          /\ u + zone.shift < after /\ u + zone.shift \in Int
      BY <1>4, <2>2, <2>3, <2>4
    <2>6. Local(u + zone.shift) = u + zone.shift + zone.offset
      BY <1>4, <2>4, <2>5, ZoneNumbers
    <2>7. Local(u + zone.shift) = Local(u) /\ u + zone.shift # u
      BY <1>2, <2>3, <2>4, <2>5, <2>6
    <2>8. u + zone.shift \in u - Day .. u + Day
      BY <2>5, ZoneNumbers
    <2>. QED  BY <2>7, <2>8
  <1>8. CASE Candidate(t) = u /\ t >= first
    <2>1. PICK shown \in Int : shown = Local(next)
      BY ZoneNumbers
    <2>2. t < shown + Day
      BY <1>2, <2>1, LocalTimesKeepUp
    <2>3. PICK i \in Int : shown = i * Day + timeOfDay
      BY <1>4, <2>1, NextDailyOccurrence, TargetsShowTheTime
    <2>4. t <= shown
      <3>1. CASE shown < t
        <4>1. shown + Day <= t
          BY <1>3, <1>4, <2>3, <3>1, ADayBetween
        <4>. QED  BY <1>4, <2>2, <4>1
      <3>. QED  BY <3>1
    <2>5. t # shown
      BY <1>8, <2>1, NextDailyOccurrence
    <2>6. t + Day <= shown
      BY <1>3, <1>4, <2>3, <2>4, <2>5, ADayBetween
    <2>7. t \in Targets(after)
      <3>1. PICK one \in Int, two \in Int, three \in Int :
              one = first + Day /\ two = first + 2 * Day /\ three = first + 3 * Day
        BY <1>4
      <3>2. shown \in {first, one, two, three}
        BY <1>1, <2>1, <3>1, NextDailyOccurrence
      <3>3. t <= two
        BY <1>4, <2>6, <3>1, <3>2
      <3>4. ~(t < first) /\ (first < t => one <= t) /\ (one < t => two <= t)
        <4>1. first < t => first + Day <= t
          BY <1>1, <1>3, <1>4, ADayBetween
        <4>2. one < t => one + Day <= t
          <5>1. one = (k + 1) * Day + timeOfDay
            BY <1>1, <1>4, <3>1
          <5>2. k + 1 \in Int
            OBVIOUS
          <5>. QED  BY <1>3, <1>4, <5>1, <5>2, ADayBetween
        <4>. QED  BY <1>4, <1>8, <3>1, <4>1, <4>2
      <3>5. t \in {first, one, two}
        BY <3>3, <3>4
      <3>. QED  BY <1>1, <3>1, <3>5
    <2>8. shown <= t
      BY <1>5, <1>8, <2>1, <2>7, NextDailyOccurrence
    <2>. QED  BY <2>4, <2>5, <2>8
  <1>. QED  BY <1>6, <1>7, <1>8

LEMMA DailyInitial ==
  ASSUME DailyInit
  PROVE  DailyInv
  <1>1. zone \in [offset : Int, shift : -Day .. Day, at : Int]
    <2>1. zone \in [offset : Offsets, shift : Shifts, at : 3 * Day .. 4 * Day]
      BY DEF DailyInit
    <2>2. zone.offset \in Offsets /\ zone.shift \in Shifts /\ zone.at \in 3 * Day .. 4 * Day
      BY <2>1
    <2>3. Offsets \subseteq Int /\ Shifts \subseteq -Day .. Day
      BY DailyAssumption
    <2>4. zone.offset \in Int /\ zone.shift \in -Day .. Day
      BY <2>2, <2>3
    <2>5. zone = [offset |-> zone.offset, shift |-> zone.shift, at |-> zone.at]
      BY <2>1
    <2>. QED  BY <2>2, <2>4, <2>5
  <1>2. after \in Int /\ due \in Int /\ timeOfDay \in 0 .. Day - 1
    BY DailyAssumption DEF DailyInit
  <1>. QED  BY <1>1, <1>2 DEF DailyInv, DailyShape, DailyInit

LEMMA DailyStep ==
  ASSUME DailyInv, [DailyNext]_dailyVars
  PROVE  DailyInv'
  <1>1. CASE DailyNext
    <2>1. due' \in Int /\ due' > after /\ Candidate(Local(due')) = due'
      BY <1>1, NextDailyOccurrence DEF DailyInv, DailyNext
    <2>2. zone' = zone /\ timeOfDay' = timeOfDay
      BY <1>1 DEF DailyNext
    <2>3. after' \in Int /\ due' <= after'
      BY <1>1, <2>1, DailyAssumption DEF DailyNext
    <2>4. DailyShape'
      BY <2>1, <2>2, <2>3 DEF DailyInv, DailyShape
    <2>5. (Candidate(Local(due)) = due)'
      BY <2>1, <2>2 DEF Candidate, CandidateAfter, Local
    <2>. QED  BY <2>3, <2>4, <2>5 DEF DailyInv
  <1>2. CASE UNCHANGED dailyVars
    BY <1>2 DEF DailyInv, DailyShape, Candidate, CandidateAfter, Local, dailyVars
  <1>. QED  BY <1>1, <1>2

LEMMA DailyFires ==
  ASSUME DailyInv, DailyInv', DailyNext
  PROVE  LET passed == {u \in after + 1 .. due' - 1 : Local(u) % Day = timeOfDay}
         IN /\ due' > after /\ Local(due') % Day = timeOfDay
            /\ \A u \in passed : \E v \in u - Day .. u + Day : v # u /\ Local(v) = Local(u)
            /\ due # 0 => Local(due') # Local(due)
            /\ OccurrencesAfter(after') # {}
  <1>1. PICK next \in Int : next = due' /\ next = NextDaily
    BY NextDailyOccurrence DEF DailyNext, DailyInv
  <1>2. DailyShape /\ after \in Int /\ due \in Int /\ timeOfDay \in 0 .. Day - 1
    BY DEF DailyInv, DailyShape
  <1>3. next > after /\ Local(next) \in Targets(after) /\ Candidate(Local(next)) = next
    BY <1>1, <1>2, NextDailyOccurrence
  <1>4. Local(next) % Day = timeOfDay
    BY <1>2, <1>3, TargetsShowTheTime, TimeOfInstant
  <1>5. ASSUME NEW u \in after + 1 .. next - 1, Local(u) % Day = timeOfDay
        PROVE  \E v \in u - Day .. u + Day : v # u /\ Local(v) = Local(u)
    BY <1>1, <1>2, <1>5, PassedIsRepeated
  <1>6. due # 0 => Local(next) # Local(due)
    BY <1>2, <1>3 DEF DailyInv
  <1>7. OccurrencesAfter(after') # {}
    <2>1. after' \in Int
      BY DEF DailyInv, DailyShape
    <2>. QED  BY <1>2, <2>1, ThereIsANext
  <1>. QED  BY <1>1, <1>3, <1>4, <1>5, <1>6, <1>7

\* A daily schedule fires at its local time and once a day, whatever its time zone does
\* (nextDailyOccurrence, zonedLocalToUtc): no time of day that exists once is passed
\* over, none is served twice when the change repeats it, and there always is a next one.
THEOREM SchedulesFireDaily == DailySpec => FiresDaily
  <1>1. DailyInv /\ DailyInv' /\ [DailyNext]_dailyVars =>
          [LET passed == {u \in after + 1 .. due' - 1 : Local(u) % Day = timeOfDay}
           IN /\ due' > after /\ Local(due') % Day = timeOfDay
              /\ \A u \in passed : \E v \in u - Day .. u + Day : v # u /\ Local(v) = Local(u)
              /\ due # 0 => Local(due') # Local(due)
              /\ OccurrencesAfter(after') # {}]_dailyVars
    BY DailyFires
  <1>. QED  BY <1>1, DailyInitial, DailyStep, PTL DEF DailySpec, FiresDaily

-----------------------------------------------------------------------------
(* The approval                                                               *)

\* What the row and the call can be, and whose yes an approved row records.
ApprovalIsBound ==
  /\ callPc = "idle" => approval = "none"
  /\ callPc \in {"waiting", "granted"} => runOpen
  /\ approval = "APPROVED" => consent = asked

\* The inductive invariant: a waiter agrees with its row, and the row with what was asked.
ApprovalInv == ApprovalTypeOK /\ WaiterAgreesWithRow /\ ApprovalIsBound

\* No approval was asked for, and the run is open.
LEMMA ApprovalInitInv == ApprovalInit => ApprovalInv
  <1> SUFFICES ASSUME ApprovalInit PROVE ApprovalInv
    OBVIOUS
  <1> USE ApprovalAssumption DEF ApprovalInit, NoConsent
  <1>1. /\ approval = "none" /\ asked = 0 /\ generation = 0 /\ answers = 0
        /\ consent = NoConsent /\ callPc = "idle"
    OBVIOUS
  <1>2. lapsed = FALSE /\ waiter = FALSE /\ runOpen = TRUE /\ aborting = FALSE
    OBVIOUS
  <1>3. WaiterAgreesWithRow
    BY <1>1, <1>2 DEF WaiterAgreesWithRow
  <1>4. ApprovalIsBound
    BY <1>1, <1>2 DEF ApprovalIsBound
  <1>5. ApprovalTypeOK
    <2>1. asked \in 0 .. MaxGeneration /\ consent \in 0 .. NoConsent /\ answers \in Nat
          /\ generation \in 0 .. MaxGeneration
      BY <1>1
    <2>. QED  BY <1>1, <1>2, <2>1 DEF ApprovalTypeOK
  <1>. QED  BY <1>3, <1>4, <1>5 DEF ApprovalInv

\* The timer and the abort listener give up on the call and on its row together.
LEMMA GivingUpKeepsInv ==
  ASSUME ApprovalInv, ApprovalTimesOut \/ AbortApproval
  PROVE  ApprovalInv'
  <1> USE ApprovalAssumption
      DEF ApprovalInv, ApprovalTypeOK, WaiterAgreesWithRow, ApprovalIsBound,
          ApprovalTimesOut, AbortApproval, Resolve, Resolvable, SettleCall
  <1>1. UNCHANGED <<asked, generation, lapsed, runOpen, consent>>
    OBVIOUS
  <1>2. waiter' = FALSE
    OBVIOUS
  <1>3. aborting' \in BOOLEAN
    OBVIOUS
  <1>4. /\ approval' \in {"none", "PENDING", "APPROVED", "DENIED", "EXPIRED"}
        /\ callPc' \in {"idle", "waiting", "granted", "denied", "executed", "lost"}
        /\ answers' \in Nat
    OBVIOUS
  <1>5. /\ callPc' # "waiting"
        /\ callPc' \in {"granted", "executed"} => approval' = "APPROVED"
        /\ answers' = IF approval' \in {"none", "PENDING"} THEN 0 ELSE 1
    OBVIOUS
  <1>6. ~(approval' = "PENDING" /\ runOpen)
    OBVIOUS
  <1>7. WaiterAgreesWithRow'
    BY <1>1, <1>2, <1>5, <1>6 DEF WaiterAgreesWithRow
  <1>8. ApprovalIsBound'
    <2>1. /\ callPc' = "idle" => approval' = "none"
          /\ callPc' \in {"waiting", "granted"} => runOpen
          /\ approval' = "APPROVED" => consent = asked
      OBVIOUS
    <2>. QED  BY <1>1, <2>1 DEF ApprovalIsBound
  <1>. QED  BY <1>1, <1>2, <1>3, <1>4, <1>7, <1>8 DEF ApprovalInv, ApprovalTypeOK

\* An answer of the client decides for the row, and the waiter is told what it says.
LEMMA AnswerKeepsInv ==
  ASSUME ApprovalInv, NEW approved \in BOOLEAN, NEW late \in BOOLEAN,
         ResolveApproval(approved, late)
  PROVE  ApprovalInv'
  <1> USE ApprovalAssumption
      DEF ApprovalInv, ApprovalTypeOK, WaiterAgreesWithRow, ApprovalIsBound, NoConsent,
          ResolveApproval, AnswerOf, Told, Resolve, Resolvable, SettleCall
  <1>1. UNCHANGED <<asked, generation, aborting, runOpen>> /\ approval = "PENDING"
    OBVIOUS
  <1>2. waiter' = FALSE
    OBVIOUS
  <1>3. lapsed' \in BOOLEAN
    OBVIOUS
  <1>4. /\ approval' \in {"none", "PENDING", "APPROVED", "DENIED", "EXPIRED"}
        /\ callPc' \in {"idle", "waiting", "granted", "denied", "executed", "lost"}
        /\ answers' \in Nat /\ consent' \in 0 .. NoConsent
    OBVIOUS
  <1>5. /\ callPc' # "waiting"
        /\ callPc' \in {"granted", "executed"} => approval' = "APPROVED"
        /\ answers' = IF approval' \in {"none", "PENDING"} THEN 0 ELSE 1
    OBVIOUS
  <1>6. ~(approval' = "PENDING" /\ runOpen)
    OBVIOUS
  <1>7. WaiterAgreesWithRow'
    BY <1>1, <1>2, <1>5, <1>6 DEF WaiterAgreesWithRow
  <1>8. ApprovalIsBound'
    <2>1. /\ callPc' = "idle" => approval' = "none"
          /\ callPc' \in {"waiting", "granted"} => runOpen
          /\ approval' = "APPROVED" => consent' = asked
      OBVIOUS
    <2>. QED  BY <1>1, <2>1 DEF ApprovalIsBound
  <1>. QED  BY <1>1, <1>2, <1>3, <1>4, <1>7, <1>8 DEF ApprovalInv, ApprovalTypeOK

\* The world around the call leaves the row and the call in step.
LEMMA SurroundingsKeepInv ==
  ASSUME ApprovalInv, ApprovalLapses \/ PolicyChanges \/ RunOfCallEnds
  PROVE  ApprovalInv'
  <1> USE ApprovalAssumption
      DEF ApprovalInv, ApprovalTypeOK, WaiterAgreesWithRow, ApprovalIsBound,
          ApprovalLapses, PolicyChanges, RunOfCallEnds, row, memory
  <1>1. UNCHANGED <<approval, asked, answers, waiter, callPc, aborting, consent>>
    OBVIOUS
  <1>2. lapsed' \in BOOLEAN
    OBVIOUS
  <1>3. runOpen' \in BOOLEAN
    OBVIOUS
  <1>4. generation' \in 0 .. MaxGeneration
    OBVIOUS
  <1>5. /\ runOpen' => runOpen
        /\ callPc \in {"waiting", "granted"} => runOpen'
    OBVIOUS
  <1>6. WaiterAgreesWithRow' /\ ApprovalIsBound'
    BY <1>1, <1>5 DEF WaiterAgreesWithRow, ApprovalIsBound
  <1>. QED  BY <1>1, <1>2, <1>3, <1>4, <1>6 DEF ApprovalInv, ApprovalTypeOK

\* A restart loses the call and the waiter, and closes the run.
LEMMA RestartKeepsApprovalInv ==
  ASSUME ApprovalInv, ManagerRestarts
  PROVE  ApprovalInv'
  <1>1. /\ UNCHANGED <<approval, asked, answers, generation, lapsed, consent>>
        /\ callPc' = "lost"
    BY DEF ManagerRestarts, row
  <1>2. runOpen' = FALSE /\ waiter' = FALSE /\ aborting' = FALSE
    BY DEF ManagerRestarts
  <1>3. WaiterAgreesWithRow' /\ ApprovalIsBound'
    BY <1>1, <1>2 DEF ApprovalInv, WaiterAgreesWithRow, ApprovalIsBound
  <1>. QED  BY <1>1, <1>2, <1>3 DEF ApprovalInv, ApprovalTypeOK

\* Every step of the call, its client and its surroundings keeps row and call in step.
LEMMA ApprovalStep == ApprovalInv /\ [ApprovalNext]_approvalVars => ApprovalInv'
  <1> SUFFICES ASSUME ApprovalInv, [ApprovalNext]_approvalVars PROVE ApprovalInv'
    OBVIOUS
  <1> USE ApprovalAssumption
      DEF ApprovalInv, ApprovalTypeOK, WaiterAgreesWithRow, ApprovalIsBound, NoConsent
  <1>1. CASE RequestApproval
    BY <1>1 DEF RequestApproval
  <1>2. CASE ExecuteApproved
    BY <1>2 DEF ExecuteApproved, Executable, row
  <1>3. CASE UNCHANGED approvalVars
    BY <1>3 DEF approvalVars, row, memory
  <1> HIDE DEF ApprovalInv
  <1>. QED  BY <1>1, <1>2, <1>3, GivingUpKeepsInv, AnswerKeepsInv, SurroundingsKeepInv,
               RestartKeepsApprovalInv DEF ApprovalNext

\* Whoever answers first, the client, the timer or the abort, decides for the row
\* and for the call alike (#approveToolIfRequired, resolveApproval).
THEOREM WaitersAgreeWithRows == ApprovalSpec => []WaiterAgreesWithRow
  <1>1. ApprovalInv => WaiterAgreesWithRow
    BY DEF ApprovalInv
  <1>. QED  BY <1>1, ApprovalInitInv, ApprovalStep, PTL DEF ApprovalSpec

\* A call starts only under the client's yes to the profile and the route of that
\* moment (#assertApprovalExecutable).
THEOREM ApprovalsAreExecutedAsGiven == ApprovalSpec => ExecutesWhatWasApproved
  <1> DEFINE Given == callPc' = "executed" =>
                        callPc = "executed" \/ (consent = generation /\ ~lapsed)
  <1>1. ApprovalInv /\ [ApprovalNext]_approvalVars => [Given]_approvalVars
    <2> SUFFICES ASSUME ApprovalInv, ApprovalNext, callPc' = "executed", callPc # "executed"
                 PROVE  consent = generation /\ ~lapsed
      OBVIOUS
    <2>1. ExecuteApproved
      BY DEF ApprovalNext, RequestApproval, ApprovalTimesOut, AbortApproval, ResolveApproval,
             SettleCall, ApprovalLapses, PolicyChanges, RunOfCallEnds, ManagerRestarts, memory
    <2>. QED  BY <2>1 DEF ExecuteApproved, Executable, ApprovalInv, ApprovalIsBound
  <1>. QED  BY <1>1, ApprovalInitInv, ApprovalStep, PTL
            DEF ApprovalSpec, ExecutesWhatWasApproved

-----------------------------------------------------------------------------
(* The cache catalogue                                                        *)

\* active_readers counts the read leases.
ReadersAreCounted ==
  /\ IsFiniteSet(readLeases) /\ lapsedReads \subseteq readLeases
  /\ active = Cardinality(readLeases)

\* Only an entry that is staged has a population, and only a population is promoted.
PopulationIsStaged ==
  /\ population.owner # NoOne => entry = "STAGING"
  /\ promoting => population.owner # NoOne

\* The inductive invariant: a held entry is counted, and no population can replace it.
CacheInv == ReadersAreCounted /\ PopulationIsStaged

USE CacheAssumption

\* A vacant entry has no readers.
LEMMA CacheInvInit == CacheInit => CacheInv
BY FS_EmptySet DEF CacheInit, CacheInv, ReadersAreCounted, PopulationIsStaged, Vacant

\* What is left after leases have been counted out, in releaseRead and in the collection.
LEMMA CountedOutOnce ==
  ASSUME ReadersAreCounted, NEW out \in SUBSET readLeases
  PROVE  /\ IsFiniteSet(readLeases \ out)
         /\ active - Cardinality(out) = Cardinality(readLeases \ out)
<1>1. IsFiniteSet(readLeases) /\ out \cap readLeases = out
  BY DEF ReadersAreCounted
<1>2. /\ IsFiniteSet(readLeases \ out)
      /\ Cardinality(readLeases \ out) = Cardinality(readLeases) - Cardinality(readLeases \cap out)
  BY <1>1, FS_Difference
<1>3. readLeases \cap out = out
  BY <1>1
<1> QED
  BY <1>2, <1>3 DEF ReadersAreCounted

\* A lease that is held keeps the count above zero.
LEMMA HeldIsCounted ==
  ASSUME ReadersAreCounted, readLeases \ lapsedReads # {}
  PROVE  active - Cardinality(lapsedReads) # 0
<1>1. /\ IsFiniteSet(readLeases \ lapsedReads)
      /\ active - Cardinality(lapsedReads) = Cardinality(readLeases \ lapsedReads)
  BY CountedOutOnce DEF ReadersAreCounted
<1> QED
  BY <1>1, FS_EmptySet

\* Staging and promoting a tree keep the invariant.
LEMMA PopulationKeepsCacheInv ==
  ASSUME CacheInv,
         \/ \E p \in Publishers : AcquirePopulation(p) \/ StageFiles(p) \/ PromoteRenames(p)
         \/ PromoteCommits \/ PromoteFails \/ PromoteCrashes \/ PopulationLapses \/ TreeDecays
  PROVE  CacheInv'
<1>1. UNCHANGED <<active, readLeases, lapsedReads>>
  BY DEF AcquirePopulation, StageFiles, PromoteRenames, PromoteCommits, PromoteFails,
         PromoteCrashes, PopulationLapses, TreeDecays, cacheReads
<1>2. ReadersAreCounted'
  BY <1>1 DEF CacheInv, ReadersAreCounted
<1>3. PopulationIsStaged'
  <2> USE DEF CacheInv, PopulationIsStaged
  <2>1. ASSUME NEW p \in Publishers, AcquirePopulation(p) PROVE PopulationIsStaged'
    BY <2>1 DEF AcquirePopulation
  <2>2. ASSUME NEW p \in Publishers, StageFiles(p) PROVE PopulationIsStaged'
    BY <2>2 DEF StageFiles
  <2>3. ASSUME NEW p \in Publishers, PromoteRenames(p) PROVE PopulationIsStaged'
    BY <2>3 DEF PromoteRenames, Populates
  <2>4. CASE PromoteCommits
    BY <2>4 DEF PromoteCommits, Vacant
  <2>5. CASE PromoteFails \/ PromoteCrashes
    BY <2>5 DEF PromoteFails, PromoteCrashes
  <2>6. CASE PopulationLapses
    <3>1. population' = [population EXCEPT !.live = FALSE] /\ UNCHANGED entry /\ ~promoting
          /\ promoting' = promoting /\ population.live
      BY <2>6 DEF PopulationLapses
    <3> QED
      BY <3>1
  <2>7. CASE TreeDecays
    BY <2>7 DEF TreeDecays
  <2> QED
    BY <2>1, <2>2, <2>3, <2>4, <2>5, <2>6, <2>7
<1> QED
  BY <1>2, <1>3 DEF CacheInv

\* Readers that come, go or lapse are counted.
LEMMA ReadersKeepCacheInv ==
  ASSUME CacheInv, NEW r \in Readers, AttachReader(r) \/ ReleaseReader(r) \/ ReaderLapses(r)
  PROVE  CacheInv'
<1> USE DEF CacheInv
<1>1. PopulationIsStaged'
  BY DEF PopulationIsStaged, AttachReader, ReleaseReader, ReaderLapses, Quarantine
<1>2. CASE AttachReader(r)
  <2>1. CASE UNCHANGED <<active, readLeases>>
    BY <1>1, <1>2, <2>1 DEF AttachReader, ReadersAreCounted
  <2>2. CASE active' = active + 1 /\ readLeases' = readLeases \cup {r} /\ r \notin readLeases
    <3>1. IsFiniteSet(readLeases') /\ Cardinality(readLeases') = Cardinality(readLeases) + 1
      BY <2>2, FS_AddElement DEF ReadersAreCounted
    <3>2. UNCHANGED lapsedReads
      BY <1>2 DEF AttachReader
    <3> QED
      BY <1>1, <2>2, <3>1, <3>2 DEF ReadersAreCounted
  <2> QED
    BY <1>2, <2>1, <2>2 DEF AttachReader
<1>3. CASE ReleaseReader(r)
  <2> DEFINE out == {r} \cap readLeases
  <2>1. /\ active' = active - Cardinality(out) /\ readLeases' = readLeases \ {r}
        /\ lapsedReads' = lapsedReads \ {r}
    BY <1>3 DEF ReleaseReader, LeasesOut
  <2>2. out \in SUBSET readLeases /\ readLeases' = readLeases \ out
    BY <2>1
  <2>3. IsFiniteSet(readLeases') /\ active' = Cardinality(readLeases')
    BY <2>1, <2>2, CountedOutOnce
  <2> QED
    BY <1>1, <2>1, <2>3 DEF ReadersAreCounted
<1>4. CASE ReaderLapses(r)
  BY <1>1, <1>4 DEF ReaderLapses, ReadersAreCounted
<1> QED
  BY <1>1, <1>2, <1>3, <1>4

\* A collection forgets only leases that lapsed.
LEMMA CollectionKeepsCacheInv ==
  ASSUME CacheInv, NEW overQuota \in BOOLEAN, CollectGarbage(overQuota)
  PROVE  CacheInv'
<1> USE DEF CacheInv
<1>1. CASE DropEntry
  <2>1. /\ entry' = "MISSING" /\ population' = Vacant /\ active' = 0 /\ readLeases' = {}
        /\ lapsedReads' = {} /\ ~promoting'
    BY <1>1 DEF DropEntry, CollectGarbage
  <2> QED
    BY <2>1, FS_EmptySet DEF ReadersAreCounted, PopulationIsStaged, Vacant
<1>2. CASE /\ active' = active - Cardinality(lapsedReads)
           /\ readLeases' = readLeases \ lapsedReads /\ lapsedReads' = {}
           /\ UNCHANGED <<entry, entryToken, population>>
  <2>1. IsFiniteSet(readLeases') /\ active' = Cardinality(readLeases')
    BY <1>2, CountedOutOnce DEF ReadersAreCounted
  <2>2. ~promoting'
    BY DEF CollectGarbage
  <2> QED
    BY <1>2, <2>1, <2>2 DEF ReadersAreCounted, PopulationIsStaged
<1> QED
  BY <1>1, <1>2 DEF CollectGarbage

\* Every step keeps the invariant of the catalogue.
LEMMA CacheInvStep == CacheInv /\ [CacheNext]_cacheVars => CacheInv'
<1> SUFFICES ASSUME CacheInv, [CacheNext]_cacheVars PROVE CacheInv'
  OBVIOUS
<1>1. CASE UNCHANGED cacheVars
  <2>1. /\ UNCHANGED <<entry, population, active, readLeases, lapsedReads>>
        /\ promoting' = promoting
    BY <1>1 DEF cacheVars
  <2> QED
    BY <2>1 DEF CacheInv, ReadersAreCounted, PopulationIsStaged
<1> QED
  BY <1>1, PopulationKeepsCacheInv, ReadersKeepCacheInv, CollectionKeepsCacheInv DEF CacheNext

\* What HeldEntryStays asks of one step.
EntryStays ==
  entry = "READY" /\ tree = "good" /\ readLeases \ lapsedReads # {}
    => entry' = "READY" /\ tree' # "none"

\* An entry that is ready has no population, and the collection counts its readers.
LEMMA HeldEntryStaysInStep == CacheInv /\ [CacheNext]_cacheVars => EntryStays
<1> SUFFICES ASSUME CacheInv, [CacheNext]_cacheVars, entry = "READY", tree = "good",
                    readLeases \ lapsedReads # {}
             PROVE  entry' = "READY" /\ tree' # "none"
  BY DEF EntryStays
<1>1. population.owner = NoOne /\ ~promoting
  BY DEF CacheInv, PopulationIsStaged
<1>2. ASSUME NEW p \in Publishers, AcquirePopulation(p) \/ StageFiles(p) \/ PromoteRenames(p)
      PROVE  entry' = "READY" /\ tree' # "none"
  BY <1>1, <1>2 DEF AcquirePopulation, StageFiles, PromoteRenames, Populates
<1>3. CASE PromoteCommits \/ PromoteFails \/ PromoteCrashes \/ PopulationLapses \/ TreeDecays
  BY <1>1, <1>3 DEF PromoteCommits, PromoteFails, PromoteCrashes, PopulationLapses, TreeDecays
<1>4. ASSUME NEW r \in Readers, AttachReader(r) \/ ReleaseReader(r) \/ ReaderLapses(r)
      PROVE  entry' = "READY" /\ tree' # "none"
  BY <1>4 DEF AttachReader, ReleaseReader, ReaderLapses
<1>5. ASSUME NEW overQuota \in BOOLEAN, CollectGarbage(overQuota)
      PROVE  entry' = "READY" /\ tree' # "none"
  <2>1. active - Cardinality(lapsedReads) # 0
    BY HeldIsCounted DEF CacheInv
  <2> QED
    BY <1>5, <2>1 DEF CollectGarbage, Evictable
<1>6. CASE UNCHANGED cacheVars
  BY <1>6 DEF cacheVars
<1> QED
  BY <1>2, <1>3, <1>4, <1>5, <1>6 DEF CacheNext

\* garbageCollect never takes a whole tree from a reader whose lease has not expired, and
\* no population replaces it: for any number of publishers and readers.
THEOREM HeldEntriesStay == CacheSpec => HeldEntryStays
<1>1. CacheInv /\ [CacheNext]_cacheVars => [EntryStays]_cacheVars
  BY HeldEntryStaysInStep
<1> QED
  BY <1>1, CacheInvInit, CacheInvStep, PTL DEF CacheSpec, HeldEntryStays, EntryStays

-----------------------------------------------------------------------------
(* The secrets of an installation                                             *)

KeyFiles == [SecretKeys -> Nat]

\* The processes that share a file, none of which fails, and one that may fail once.
Shared == kind # "keychain" /\ faults = 0 /\ ~slow
Lone   == kind # "recovery" /\ Cardinality(users) = 1 /\ faults <= 1

StoreTypes ==
  /\ kind \in {"windows", "recovery", "keychain"} /\ users \subseteq Processes
  /\ at \in [Processes -> CredentialSteps] /\ \A p \in Processes : at[p] # "idle" => p \in users
  /\ wanted \in [Processes -> SecretKeys] /\ verb \in [Processes -> Verbs]
  /\ values \in [Processes -> KeyFiles]
  /\ file \in KeyFiles \cup {NoFile} /\ spare \in KeyFiles \cup {NoFile} /\ truth \in KeyFiles
  /\ secrets \in Nat /\ faults \in Nat
  /\ kind = "keychain" => file # NoFile /\ \A p \in Processes : at[p] \notin {"dropped", "aside", "placed"}

\* The lock file is of the process that works, and never one to remove.
KeyLockInv ==
  Shared =>
    /\ \A p \in Processes :
         /\ at[p] \in {"opened", "locked", "read", "dropped", "aside", "placed", "told"} => lockOf = p
         /\ at[p] # "removing"
    /\ "old" \notin marks /\ "orphan" \notin marks

\* The file holds what was changed last; between the removal of its backup and the
\* rename that replaces it, the process that writes has the rest of it.
FileInv ==
  Shared \/ Lone =>
    /\ ~wrong
    /\ (\A p \in Processes : at[p] \notin {"dropped", "aside"}) => OnDisk = truth
    /\ faults = 0 =>
         /\ kind = "windows" => OnDisk = truth
         /\ (\A p \in Processes : at[p] # "aside") => file # NoFile \/ spare = NoFile
    /\ \A p \in Processes :
         /\ at[p] \in {"read", "dropped", "aside"} =>
              /\ \A k \in SecretKeys \ {wanted[p]} : values[p][k] = truth[k]
              /\ verb[p] = "getOrCreate" => truth[wanted[p]] = 0
         /\ at[p] = "aside" => file = NoFile
         /\ at[p] = "placed" =>
              /\ file # NoFile
              /\ faults = 0 /\ kind = "windows" /\ spare # NoFile =>
                   \A k \in SecretKeys \ {wanted[p]} : spare[k] = truth[k]

StoreInv == StoreTypes /\ KeyLockInv /\ FileInv

\* At first the store is empty.
LEMMA StoreInitial == CredentialInit => StoreInv
  <1> SUFFICES ASSUME CredentialInit PROVE StoreInv
    OBVIOUS
  <1>1. Empty \in KeyFiles /\ AnyKey \in SecretKeys
    BY CredentialAssumption DEF Empty, AnyKey, KeyFiles
  <1>2. Empty # NoFile
    BY <1>1, CredentialAssumption DEF KeyFiles
  <1>. QED
    BY <1>1, <1>2 DEF CredentialInit, StoreInv, StoreTypes, KeyLockInv, FileInv, OnDisk,
       CredentialSteps, Verbs

\* Whoever reads or writes is alone.
LEMMA OneWorksAtAFile ==
  ASSUME StoreInv, Shared \/ Lone, NEW p \in Processes, NEW q \in Processes,
         at[p] \in {"locked", "read", "dropped", "aside", "placed"},
         at[q] \in {"locked", "read", "dropped", "aside", "placed"}
  PROVE  p = q
  <1>1. CASE Shared
    BY <1>1 DEF StoreInv, KeyLockInv
  <1>2. CASE Lone
    <2>1. IsFiniteSet(users) /\ p \in users /\ q \in users
      BY CredentialAssumption, FS_Subset DEF StoreInv, StoreTypes
    <2>2. \E x : users = {x}
      BY <1>2, <2>1, FS_Singleton DEF Lone
    <2>. QED  BY <2>1, <2>2
  <1>. QED  BY <1>1, <1>2

\* A command that changes the keychain changes what is the truth of its key.
LEMMA KeychainFollows ==
  ASSUME StoreInv, NEW p \in users, kind = "keychain", InKeychain(p),
         at[p] = "read", at' = [at EXCEPT ![p] = "told"],
         UNCHANGED <<callVars, spare, secrets, lockVars, kind, users>>,
         faults' \in {faults, faults + 1}
  PROVE  StoreInv'
  <1> USE DEF StoreInv, callVars, lockVars
  <1> DEFINE k == wanted[p]  w == values[p][wanted[p]]
  <1>1. p \in Processes /\ k \in SecretKeys /\ w \in Nat /\ file \in KeyFiles
    BY DEF StoreTypes, KeyFiles
  <1>2. /\ file' = [file EXCEPT ![k] = w] /\ truth' = [truth EXCEPT ![k] = w]
        /\ wrong' = (wrong \/ (verb[p] = "getOrCreate" /\ truth[k] # 0))
    BY DEF InKeychain, KeyChanged, Planned
  <1>3. file' \in KeyFiles /\ truth' \in KeyFiles
    BY <1>1, <1>2 DEF KeyFiles, StoreTypes
  <1>4. file # NoFile /\ file' # NoFile
    BY <1>1, <1>3, CredentialAssumption DEF KeyFiles
  <1>5. StoreTypes'
    BY <1>1, <1>3, <1>4 DEF StoreTypes, CredentialSteps
  <1>6. KeyLockInv'
    BY DEF KeyLockInv, Shared
  <1>7. ASSUME (Shared \/ Lone)' PROVE FileInv'
    <2>1. ~Shared /\ Lone
      BY <1>7 DEF Shared, Lone, StoreTypes
    <2>2. \A q \in Processes : at[q] \in {"locked", "read", "dropped", "aside", "placed"} => q = p
      BY <1>1, <2>1, OneWorksAtAFile
    <2>3. file = truth /\ ~wrong /\ (verb[p] = "getOrCreate" => truth[k] = 0)
      BY <1>1, <1>4, <2>1, <2>2 DEF FileInv, OnDisk
    <2>4. file' = truth' /\ ~wrong' /\ OnDisk' = truth'
      BY <1>2, <1>4, <2>3 DEF OnDisk
    <2>5. \A q \in Processes : at'[q] \notin {"read", "dropped", "aside", "placed"}
      BY <1>1, <2>2 DEF StoreTypes
    <2>. QED  BY <1>4, <2>4, <2>5 DEF FileInv
  <1>. QED  BY <1>5, <1>6, <1>7 DEF FileInv

\* Every step of the processes and of the clock keeps the invariant.
LEMMA StoreStep ==
  ASSUME StoreInv, [CredentialNext]_credentialVars
  PROVE  StoreInv'
  <1> USE CredentialAssumption DEF StoreInv, KeyFiles, Step, CredentialSteps, Verbs,
          fileVars, lockVars, callVars, toldVars
  <1>0. AnyKey \in SecretKeys /\ Empty \in KeyFiles
    BY DEF AnyKey, Empty
  <1>1. ASSUME NEW p \in users, Called(p), UNCHANGED <<kind, users>> PROVE StoreInv'
    <2>1. StoreTypes'
      BY <1>0, <1>1 DEF Called, StoreTypes, OnDisk
    <2>2. KeyLockInv'
      BY <1>1 DEF Called, StoreTypes, KeyLockInv, Shared
    <2>3. FileInv'
      BY <1>0, <1>1, OneWorksAtAFile DEF Called, StoreTypes, FileInv, Shared, Lone, OnDisk
    <2>. QED  BY <2>1, <2>2, <2>3
  <1>2. ASSUME NEW p \in users, OpenLock(p), UNCHANGED <<kind, users>> PROVE StoreInv'
    <2>1. StoreTypes'
      BY <1>0, <1>2 DEF OpenLock, StoreTypes, OnDisk
    <2>2. KeyLockInv'
      BY <1>2 DEF OpenLock, StoreTypes, KeyLockInv, Shared
    <2>3. FileInv'
      BY <1>0, <1>2, OneWorksAtAFile DEF OpenLock, StoreTypes, FileInv, Shared, Lone, OnDisk
    <2>. QED  BY <2>1, <2>2, <2>3
  <1>3. ASSUME NEW p \in users, NameLock(p), UNCHANGED <<kind, users>> PROVE StoreInv'
    <2>1. StoreTypes'
      BY <1>0, <1>3 DEF NameLock, StoreTypes, OnDisk
    <2>2. KeyLockInv'
      BY <1>3 DEF NameLock, StoreTypes, KeyLockInv, Shared
    <2>3. FileInv'
      BY <1>0, <1>3, OneWorksAtAFile DEF NameLock, StoreTypes, FileInv, Shared, Lone, OnDisk
    <2>. QED  BY <2>1, <2>2, <2>3
  <1>4. ASSUME NEW p \in users, FindStale(p), UNCHANGED <<kind, users>> PROVE StoreInv'
    <2>1. StoreTypes'
      BY <1>0, <1>4 DEF FindStale, StoreTypes, OnDisk
    <2>2. KeyLockInv'
      BY <1>4 DEF FindStale, StoreTypes, KeyLockInv, Shared
    <2>3. FileInv'
      BY <1>0, <1>4, OneWorksAtAFile DEF FindStale, StoreTypes, FileInv, Shared, Lone, OnDisk
    <2>. QED  BY <2>1, <2>2, <2>3
  <1>5. ASSUME NEW p \in users, RemoveStale(p), UNCHANGED <<kind, users>> PROVE StoreInv'
    <2>1. StoreTypes'
      BY <1>0, <1>5 DEF RemoveStale, StoreTypes, OnDisk
    <2>2. KeyLockInv'
      BY <1>5 DEF RemoveStale, StoreTypes, KeyLockInv, Shared
    <2>3. FileInv'
      BY <1>0, <1>5, OneWorksAtAFile DEF RemoveStale, StoreTypes, FileInv, Shared, Lone, OnDisk
    <2>. QED  BY <2>1, <2>2, <2>3
  <1>6. ASSUME NEW p \in users, LockTimesOut(p), UNCHANGED <<kind, users>> PROVE StoreInv'
    <2>1. StoreTypes'
      BY <1>0, <1>6 DEF LockTimesOut, Forgotten, StoreTypes, OnDisk
    <2>2. KeyLockInv'
      BY <1>6 DEF LockTimesOut, Forgotten, StoreTypes, KeyLockInv, Shared
    <2>3. FileInv'
      BY <1>0, <1>6, OneWorksAtAFile DEF LockTimesOut, Forgotten, StoreTypes, FileInv, Shared,
                                         Lone, OnDisk
    <2>. QED  BY <2>1, <2>2, <2>3
  <1>7. ASSUME NEW p \in users, Unlock(p), UNCHANGED <<kind, users>> PROVE StoreInv'
    <2>1. StoreTypes'
      BY <1>0, <1>7 DEF Unlock, Forgotten, StoreTypes, OnDisk
    <2>2. KeyLockInv'
      BY <1>7 DEF Unlock, Forgotten, StoreTypes, KeyLockInv, Shared
    <2>3. FileInv'
      BY <1>0, <1>7, OneWorksAtAFile DEF Unlock, Forgotten, StoreTypes, FileInv, Shared, Lone,
                                         OnDisk
    <2>. QED  BY <2>1, <2>2, <2>3
  <1>8. ASSUME NEW p \in users, Read(p), UNCHANGED <<kind, users>> PROVE StoreInv'
    <2> DEFINE v == OnDisk[wanted[p]]
    <2>1. OnDisk \in KeyFiles /\ wanted[p] \in SecretKeys /\ v \in Nat /\ p \in Processes
      BY <1>0 DEF StoreTypes, OnDisk
    <2>2. /\ at[p] = "locked" /\ UNCHANGED <<verb, wanted, file, spare, lockVars, truth, faults, cut>>
          /\ \/ /\ at' = [at EXCEPT ![p] = "told"] /\ UNCHANGED <<values, secrets>>
                /\ wrong' = (wrong \/ v # truth[wanted[p]])
             \/ /\ at' = [at EXCEPT ![p] = "read"] /\ UNCHANGED wrong /\ secrets' \in Nat
                /\ verb[p] = "getOrCreate" => v = 0
                /\ \E w \in Nat : values' = [values EXCEPT ![p] = [OnDisk EXCEPT ![wanted[p]] = w]]
      <3>1. CASE GetSecret(p, v)
        BY <1>8, <3>1 DEF Read, GetSecret, Answered
      <3>2. CASE GetOrCreate(p, v)
        BY <1>8, <2>1, <3>2 DEF Read, GetOrCreate, Answered, WriteNew, WriteNext, StoreTypes
      <3>3. CASE SetSecret(p)
        <4>1. /\ at[p] = "locked" /\ at' = [at EXCEPT ![p] = "read"] /\ verb[p] = "set"
              /\ UNCHANGED toldVars /\ secrets' = secrets + 1
              /\ values' = [values EXCEPT ![p] = [OnDisk EXCEPT ![wanted[p]] = secrets']]
              /\ UNCHANGED <<verb, wanted, file, spare, lockVars, faults, cut>>
          BY <1>8, <3>3 DEF Read, SetSecret, WriteNew, WriteNext
        <4>2. secrets' \in Nat
          BY <4>1 DEF StoreTypes
        <4>. HIDE DEF OnDisk
        <4>. QED  BY <4>1, <4>2
      <3>4. CASE DeleteSecret(p, v)
        BY <1>8, <3>4 DEF Read, DeleteSecret, Answered, WriteNext, StoreTypes
      <3>. QED  BY <1>8, <3>1, <3>2, <3>3, <3>4 DEF Read
    <2>3. Shared \/ Lone => OnDisk = truth
      BY <2>1, <2>2, OneWorksAtAFile DEF FileInv
    <2>4. OnDisk' = OnDisk /\ (Shared' => Shared) /\ (Lone' => Lone) /\ UNCHANGED <<kind, users>>
      BY <1>8, <2>2 DEF OnDisk, Shared, Lone
    <2> HIDE DEF OnDisk, v
    <2>5. StoreTypes'
      <3>1. \A w \in Nat : [OnDisk EXCEPT ![wanted[p]] = w] \in KeyFiles
        BY <2>1
      <3>2. values' \in [Processes -> KeyFiles] /\ secrets' \in Nat
        <4>1. values \in [Processes -> KeyFiles] /\ secrets \in Nat
          BY DEF StoreTypes
        <4>2. CASE UNCHANGED <<values, secrets>>
          BY <4>1, <4>2
        <4>3. CASE /\ secrets' \in Nat
                   /\ \E w \in Nat : values' = [values EXCEPT ![p] = [OnDisk EXCEPT ![wanted[p]] = w]]
          <5>1. PICK w \in Nat : values' = [values EXCEPT ![p] = [OnDisk EXCEPT ![wanted[p]] = w]]
            BY <4>3
          <5>2. [OnDisk EXCEPT ![wanted[p]] = w] \in KeyFiles
            BY <3>1
          <5>. HIDE DEF KeyFiles
          <5>. QED  BY <4>1, <4>3, <5>1, <5>2
        <4>. QED  BY <2>2, <4>2, <4>3
      <3>. HIDE DEF KeyFiles
      <3>. QED  BY <1>8, <2>1, <2>2, <3>2 DEF StoreTypes
    <2>6. KeyLockInv'
      BY <1>8 DEF Read, GetSecret, GetOrCreate, SetSecret, DeleteSecret, Answered, WriteNext,
                  WriteNew, StoreTypes, KeyLockInv, Shared
    <2>7. FileInv'
      <3>1. CASE at' = [at EXCEPT ![p] = "told"]
        <4>1. at[p] = "locked" /\ at'[p] = "told" /\ UNCHANGED <<callVars, fileVars, truth, faults>>
          BY <2>1, <2>2, <3>1 DEF StoreTypes
        <4>2. wrong' = (wrong \/ v # truth[wanted[p]])
          BY <2>1, <2>2, <4>1 DEF StoreTypes
        <4>3. Shared \/ Lone => ~wrong'
          BY <2>3, <4>2 DEF FileInv, v
        <4>4. \A q \in Processes : q # p => at'[q] = at[q]
          BY <3>1 DEF StoreTypes
        <4>. HIDE DEF Shared, Lone
        <4>. QED  BY <2>1, <2>3, <2>4, <4>1, <4>3, <4>4 DEF FileInv
      <3>2. CASE at' = [at EXCEPT ![p] = "read"]
        BY <2>1, <2>2, <2>3, <2>4, <3>2 DEF StoreTypes, FileInv, v
      <3>. QED  BY <2>2, <3>1, <3>2
    <2>. QED  BY <2>5, <2>6, <2>7
  <1>9. ASSUME NEW p \in users, CommandFails(p), UNCHANGED <<kind, users>> PROVE StoreInv'
    <2>1. CASE UNCHANGED <<file, toldVars>>
      BY <1>9, <2>1 DEF CommandFails, Fault, StoreTypes, KeyLockInv, FileInv, Shared, Lone,
                        OnDisk
    <2>2. CASE kind = "keychain" /\ InKeychain(p)
      <3>1. /\ at[p] = "read" /\ at' = [at EXCEPT ![p] = "told"]
            /\ UNCHANGED <<callVars, spare, secrets, lockVars>> /\ faults' = faults + 1
        BY <1>9 DEF CommandFails, Fault
      <3>. QED  BY <1>9, <2>2, <3>1, KeychainFollows
    <2>. QED  BY <1>9, <2>1, <2>2 DEF CommandFails
  <1>10. ASSUME NEW p \in users, KeychainChanges(p), UNCHANGED <<kind, users>> PROVE StoreInv'
    BY <1>10, KeychainFollows DEF KeychainChanges, StoreTypes
  <1>11. ASSUME NEW p \in users, DropSpare(p), UNCHANGED <<kind, users>> PROVE StoreInv'
    <2>1. StoreTypes'
      BY <1>0, <1>11 DEF DropSpare, StoreTypes, OnDisk
    <2>2. KeyLockInv'
      BY <1>11 DEF DropSpare, StoreTypes, KeyLockInv, Shared
    <2>3. FileInv'
      BY <1>0, <1>11, OneWorksAtAFile DEF DropSpare, StoreTypes, FileInv, Shared, Lone, OnDisk
    <2>. QED  BY <2>1, <2>2, <2>3
  <1>12. ASSUME NEW p \in users, MoveAside(p), UNCHANGED <<kind, users>> PROVE StoreInv'
    <2>1. StoreTypes'
      BY <1>0, <1>12 DEF MoveAside, StoreTypes, OnDisk
    <2>2. KeyLockInv'
      BY <1>12 DEF MoveAside, StoreTypes, KeyLockInv, Shared
    <2>3. FileInv'
      BY <1>0, <1>12, OneWorksAtAFile DEF MoveAside, StoreTypes, FileInv, Shared, Lone, OnDisk
    <2>. QED  BY <2>1, <2>2, <2>3
  <1>13. ASSUME NEW p \in users, MoveIn(p), UNCHANGED <<kind, users>> PROVE StoreInv'
    <2>1. StoreTypes'
      BY <1>0, <1>13 DEF MoveIn, KeyChanged, Planned, StoreTypes, OnDisk
    <2>2. KeyLockInv'
      BY <1>13 DEF MoveIn, KeyChanged, Planned, StoreTypes, KeyLockInv, Shared
    <2>3. ASSUME (Shared \/ Lone)' PROVE FileInv'
      <3> DEFINE k == wanted[p]  w == values[p][wanted[p]]
      <3>1. /\ p \in Processes /\ k \in SecretKeys /\ w \in Nat /\ values[p] \in KeyFiles
            /\ values[p] # NoFile /\ truth \in KeyFiles
        BY DEF StoreTypes
      <3>2. /\ at[p] = "aside" /\ at' = [at EXCEPT ![p] = "placed"] /\ file' = values[p]
            /\ truth' = [truth EXCEPT ![k] = w]
            /\ wrong' = (wrong \/ (verb[p] = "getOrCreate" /\ truth[k] # 0))
            /\ UNCHANGED <<verb, wanted, values, spare, faults, slow, kind, users>>
        BY <1>13 DEF MoveIn, KeyChanged, Planned
      <3>3. Shared \/ Lone
        BY <2>3, <3>2 DEF Shared, Lone
      <3>4. \A q \in Processes : at[q] \in {"locked", "read", "dropped", "aside", "placed"} => q = p
        BY <3>1, <3>2, <3>3, OneWorksAtAFile
      <3>5. /\ ~wrong /\ (verb[p] = "getOrCreate" => truth[k] = 0) /\ file = NoFile
            /\ \A l \in SecretKeys \ {k} : values[p][l] = truth[l]
            /\ faults = 0 /\ kind = "windows" => OnDisk = truth
        BY <3>1, <3>2, <3>3 DEF FileInv
      <3>6. file' = truth' /\ file' # NoFile /\ OnDisk' = truth' /\ ~wrong'
        BY <3>1, <3>2, <3>5 DEF OnDisk
      <3>7. faults = 0 /\ kind = "windows" /\ spare # NoFile => spare = truth
        BY <3>5 DEF OnDisk
      <3>8. \A q \in Processes : q # p => at'[q] \notin {"read", "dropped", "aside", "placed"}
        BY <3>1, <3>2, <3>4 DEF StoreTypes
      <3>9. at'[p] = "placed" /\ \A l \in SecretKeys \ {k} : truth'[l] = truth[l]
        BY <3>1, <3>2 DEF StoreTypes
      <3>. HIDE DEF OnDisk, Shared, Lone
      <3>. QED  BY <3>1, <3>2, <3>6, <3>7, <3>8, <3>9 DEF FileInv
    <2>. QED  BY <2>1, <2>2, <2>3 DEF FileInv
  <1>14. ASSUME NEW p \in users, WriteFails(p), UNCHANGED <<kind, users>> PROVE StoreInv'
    <2>1. StoreTypes'
      BY <1>0, <1>14 DEF WriteFails, Fault, Cut, StoreTypes, OnDisk
    <2>2. KeyLockInv'
      BY <1>14 DEF WriteFails, Fault, Cut, StoreTypes, KeyLockInv, Shared
    <2>3. ASSUME (Shared \/ Lone)' PROVE FileInv'
      <3> DEFINE k == wanted[p]
      <3>1. /\ p \in Processes /\ k \in SecretKeys /\ truth \in KeyFiles /\ faults \in Nat
            /\ spare \in KeyFiles \cup {NoFile} /\ NoFile \notin KeyFiles
        BY CredentialAssumption DEF StoreTypes
      <3>2. /\ at[p] \in {"aside", "placed"} /\ at' = [at EXCEPT ![p] = "told"]
            /\ faults' = faults + 1 /\ UNCHANGED <<verb, wanted, values, slow, wrong, kind, users>>
        BY <1>14 DEF WriteFails, Fault
      <3>3. \/ /\ spare # NoFile /\ file' = spare /\ spare' = NoFile
               /\ truth' = IF at[p] = "aside" THEN truth ELSE [truth EXCEPT ![k] = spare[k]]
            \/ UNCHANGED <<file, spare, truth>>
        BY <1>14 DEF WriteFails
      <3>4. Lone /\ faults = 0 /\ kind = "windows"
        BY <2>3, <3>1, <3>2 DEF Shared, Lone, StoreTypes
      <3>5. \A q \in Processes : at'[q] \notin {"read", "dropped", "aside", "placed"}
        BY <3>1, <3>2, <3>4, OneWorksAtAFile DEF StoreTypes
      <3>6. ~wrong /\ OnDisk = truth /\ (at[p] = "aside" => file = NoFile)
        BY <3>1, <3>4 DEF FileInv
      <3>7. OnDisk' = truth'
        <4>1. CASE UNCHANGED <<file, spare, truth>>
          BY <3>2, <3>6, <4>1 DEF OnDisk
        <4>2. CASE spare # NoFile /\ file' = spare /\ at[p] = "aside" /\ truth' = truth
          BY <3>4, <3>6, <4>2 DEF OnDisk
        <4>3. CASE /\ spare # NoFile /\ file' = spare /\ at[p] = "placed"
                   /\ truth' = [truth EXCEPT ![k] = spare[k]]
          <5>1. \A l \in SecretKeys \ {k} : spare[l] = truth[l]
            BY <3>1, <3>4, <4>3 DEF FileInv
          <5>2. truth' = spare
            BY <3>1, <4>3, <5>1
          <5>. QED  BY <4>3, <5>2 DEF OnDisk
        <4>. QED  BY <3>2, <3>3, <4>1, <4>2, <4>3
      <3>. HIDE DEF OnDisk, Shared, Lone
      <3>. QED  BY <3>1, <3>2, <3>5, <3>6, <3>7 DEF FileInv
    <2>. QED  BY <2>1, <2>2, <2>3 DEF FileInv
  <1>15. ASSUME NEW p \in users, Succeed(p), UNCHANGED <<kind, users>> PROVE StoreInv'
    <2>1. StoreTypes'
      BY <1>0, <1>15 DEF Succeed, StoreTypes, OnDisk
    <2>2. KeyLockInv'
      BY <1>15 DEF Succeed, StoreTypes, KeyLockInv, Shared
    <2>3. FileInv'
      BY <1>0, <1>15, OneWorksAtAFile DEF Succeed, StoreTypes, FileInv, Shared, Lone, OnDisk
    <2>. QED  BY <2>1, <2>2, <2>3
  <1>16. ASSUME NEW p \in users, ProcessDies(p), UNCHANGED <<kind, users>> PROVE StoreInv'
    <2>1. StoreTypes'
      BY <1>0, <1>16 DEF ProcessDies, Fault, Cut, Forgotten, StoreTypes, OnDisk
    <2>2. KeyLockInv'
      BY <1>16 DEF ProcessDies, Fault, Cut, Forgotten, StoreTypes, KeyLockInv, Shared
    <2>3. FileInv'
      BY <1>0, <1>16, OneWorksAtAFile DEF ProcessDies, Fault, Cut, Forgotten, StoreTypes,
                                          FileInv, Shared, Lone, OnDisk
    <2>. QED  BY <2>1, <2>2, <2>3
  <1>17. ASSUME SecretLockAges, UNCHANGED <<kind, users>> PROVE StoreInv'
    <2>1. StoreTypes'
      BY <1>17 DEF SecretLockAges, StoreTypes
    <2>2. KeyLockInv'
      BY <1>17 DEF SecretLockAges, StoreTypes, KeyLockInv, Shared
    <2>3. FileInv'
      <3>1. (Shared \/ Lone)' => Shared \/ Lone
        BY <1>17, Zenon DEF SecretLockAges, Shared, Lone
      <3>2. UNCHANGED <<at, callVars, fileVars, toldVars, faults, OnDisk, kind>>
        BY <1>17 DEF SecretLockAges, OnDisk
      <3>. HIDE DEF OnDisk, Shared, Lone
      <3>. QED  BY <3>1, <3>2 DEF FileInv
    <2>. QED  BY <2>1, <2>2, <2>3
  <1>18. CASE UNCHANGED credentialVars
    BY <1>18 DEF credentialVars, StoreTypes, KeyLockInv, FileInv, Shared, Lone, OnDisk
  <1> HIDE DEF StoreInv
  <1>. QED
    BY <1>1, <1>2, <1>3, <1>4, <1>5, <1>6, <1>7, <1>8, <1>9, <1>10, <1>11, <1>12, <1>13, <1>14,
       <1>15, <1>16, <1>17, <1>18
    DEF CredentialNext, CredentialStep

\* It keeps the promise of the store.
LEMMA StoreKeeps == StoreInv => KeysSurvive
  BY DEF StoreInv, FileInv, KeysSurvive, Shared, Lone

-----------------------------------------------------------------------------
(* The access of the Gateway                                                  *)

\* A start knows what it does, and a request as what it was authenticated.
GateStates ==
  {Down} \union [at : {"deriving"}, token : AppTokens, scopes : Builds]
  \union [at : {"verifying"}, token : AppTokens, scopes : Builds, seen : Builds]
  \union [at : {"binding", "serving", "closing"}, token : AppTokens]

RequestStates ==
  {Quiescent} \union [at : {"verifying", "ready"}, gate : Gateways, token : Tokens, as : TokenRows]
  \union [at : {"minting"}, gate : Gateways, token : AppTokens, scopes : SUBSET RunScopes]

AccessInv ==
  /\ access \in [Tokens -> TokenRows \union {NoRow}]
  /\ \A t \in AppTokens : access[t] # NoRow => access[t].type = "app"
  /\ \A r \in RunTokens : access[r] # NoRow => access[r].type = "run"
  /\ gate \in [Gateways -> GateStates]
  /\ request \in [GatewayRequests -> RequestStates]
  /\ \A q \in GatewayRequests :
       request[q].at \in {"verifying", "ready"} /\ request[q].as.type = "app" =>
         request[q].token \in AppTokens

\* One app token is in force from the first start that went beyond its token on.
InForceInv ==
  /\ \A t, u \in AppTokens : isActive(t) /\ isActive(u) => t = u
  /\ \A g \in Gateways :
       /\ gate[g].at \in {"verifying", "binding", "serving", "closing"} =>
            access[gate[g].token] # NoRow /\ \E t \in AppTokens : isActive(t)

\* The token that a start verifies has the scopes that it saw, or those that it brings.
UpgradesInv ==
  \A g \in Gateways :
    gate[g].at = "verifying" /\ gate[g].seen # gate[g].scopes
      /\ gate[g].seen \subseteq gate[g].scopes
    => access[gate[g].token].scopes \in {gate[g].seen, gate[g].scopes}

\* Whoever mints was authenticated by an app token, whose scopes it does not exceed.
NarrowInv ==
  /\ RunTokensStayNarrow
  /\ \A r \in RunTokens : access[r] # NoRow => access[access[r].issuer] # NoRow
  /\ \A q \in GatewayRequests :
       request[q].at = "minting" =>
         /\ access[request[q].token] # NoRow
         /\ request[q].scopes \subseteq access[request[q].token].scopes

TokensInv == AccessInv /\ InForceInv /\ (OneUpgrade => UpgradesInv /\ NarrowInv)

\* At first no token is known.
LEMMA TokensInitial == TokensInit => TokensInv
  BY TokensAssumption
  DEF TokensInit, TokensInv, AccessInv, InForceInv, UpgradesInv, NarrowInv, RunTokensStayNarrow,
      GateStates, RequestStates, Tokens, isActive, Down, Quiescent

\* A row whose status or scopes are changed keeps the rest.
LEMMA RowChanges ==
  ASSUME AccessInv, NEW t \in Tokens, access[t] # NoRow, NEW status \in Status
  PROVE  LET newRow == [access[t] EXCEPT !.status = status]
         IN  /\ newRow \in TokenRows /\ newRow # NoRow /\ newRow.type = access[t].type
             /\ newRow.status = status /\ newRow.scopes = access[t].scopes
             /\ newRow.type = "run" => newRow.issuer = access[t].issuer
  <1> DEFINE newRow == [access[t] EXCEPT !.status = status]
  <1>1. access[t] \in TokenRows
    BY DEF AccessInv
  <1>2. CASE access[t] \in [type : {"app"}, scopes : Builds, status : Status]
    <2>1. newRow = [type |-> "app", scopes |-> access[t].scopes, status |-> status]
      BY <1>2
    <2>. QED  BY <1>2, <2>1, TokensAssumption DEF TokenRows
  <1>3. CASE access[t] \in
               [type : {"run"}, scopes : SUBSET RunScopes, issuer : AppTokens, status : Status]
    <2>1. newRow = [type |-> "run", scopes |-> access[t].scopes, issuer |-> access[t].issuer,
                 status |-> status]
      BY <1>3
    <2>. QED  BY <1>3, <2>1, TokensAssumption DEF TokenRows
  <1>. QED  BY <1>1, <1>2, <1>3 DEF TokenRows

\* The row of a run token that is revoked, or that expires.
LEMMA RunTokenEnds ==
  ASSUME AccessInv, NEW r \in RunTokens, access[r] # NoRow, NEW status \in Status,
         access' = [access EXCEPT ![r].status = status]
  PROVE  /\ access' \in [Tokens -> TokenRows \union {NoRow}]
         /\ \A t \in Tokens : t # r => access'[t] = access[t]
         /\ access'[r] # NoRow /\ access'[r].type = "run"
         /\ access'[r].scopes = access[r].scopes /\ access'[r].issuer = access[r].issuer
  <1>1. r \in Tokens /\ access[r].type = "run"
    BY DEF AccessInv, Tokens
  <1>2. LET newRow == [access[r] EXCEPT !.status = status]
        IN  /\ newRow \in TokenRows /\ newRow # NoRow /\ newRow.type = access[r].type
            /\ newRow.scopes = access[r].scopes
            /\ newRow.type = "run" => newRow.issuer = access[r].issuer
    BY <1>1, RowChanges
  <1>3. access' = [access EXCEPT ![r] = [access[r] EXCEPT !.status = status]]
    OBVIOUS
  <1>. QED  BY <1>1, <1>2, <1>3 DEF AccessInv

LEMMA ScopesChange ==
  ASSUME AccessInv, NEW t \in AppTokens, access[t] # NoRow, NEW scopes \in Builds
  PROVE  LET newRow == [access[t] EXCEPT !.scopes = scopes]
         IN  /\ newRow \in TokenRows /\ newRow # NoRow /\ newRow.type = "app"
             /\ newRow.status = access[t].status /\ newRow.scopes = scopes
  <1> DEFINE newRow == [access[t] EXCEPT !.scopes = scopes]
  <1>1. access[t] \in [type : {"app"}, scopes : Builds, status : Status]
    BY DEF AccessInv, TokenRows, Tokens
  <1>2. newRow = [type |-> "app", scopes |-> scopes, status |-> access[t].status]
    BY <1>1
  <1>. QED  BY <1>1, <1>2, TokensAssumption DEF TokenRows

\* Every step of starts, requests and clocks keeps the invariant.
LEMMA TokensStep ==
  ASSUME TokensInv, [TokensNext]_tokenVars
  PROVE  TokensInv'
  <1> USE TokensAssumption DEF TokensInv, GateStates, RequestStates, Tokens, isActive, Down,
                               Quiescent
  <1>1. ASSUME NEW g \in Gateways, NEW t \in AppTokens, NEW build \in Builds, StartGateway(g, t,
               build)
        PROVE  TokensInv'
    <2>1. AccessInv'
      <3>1. CASE access[t] = NoRow
        <4>1. gate' = [gate EXCEPT ![g] = [at |-> "deriving", token |-> t, scopes |-> build]]
          BY <1>1, <3>1 DEF StartGateway
        <4>2. [at |-> "deriving", token |-> t, scopes |-> build] \in GateStates
          OBVIOUS
        <4>. HIDE DEF GateStates, RequestStates
        <4>. QED  BY <1>1, <4>1, <4>2 DEF StartGateway, AccessInv
      <3>2. CASE access[t] # NoRow
        <4>1. gate' = [gate EXCEPT ![g] = [at |-> "verifying", token |-> t, scopes |-> build,
                                           seen |-> access[t].scopes]]
          BY <1>1, <3>2 DEF StartGateway
        <4>2. access[t] \in TokenRows /\ access[t].type = "app"
          BY <3>2 DEF AccessInv
        <4>3. access[t].scopes \in Builds
          BY <4>2 DEF TokenRows
        <4>4. [at |-> "verifying", token |-> t, scopes |-> build, seen |-> access[t].scopes]
                \in GateStates
          BY <4>3
        <4>. HIDE DEF GateStates, RequestStates
        <4>. QED  BY <1>1, <4>1, <4>4 DEF StartGateway, AccessInv
      <3>. QED  BY <3>1, <3>2
    <2>2. InForceInv'
      BY <1>1 DEF StartGateway, AccessInv, InForceInv
    <2>3. OneUpgrade => UpgradesInv'
      BY <1>1 DEF StartGateway, AccessInv, InForceInv, UpgradesInv, OneUpgrade
    <2>4. OneUpgrade => NarrowInv'
      BY <1>1 DEF StartGateway, AccessInv, UpgradesInv, NarrowInv, RunTokensStayNarrow,
                  OneUpgrade
    <2>. QED  BY <2>1, <2>2, <2>3, <2>4 DEF OneUpgrade
  <1>2. ASSUME NEW g \in Gateways, TokenVerified(g) PROVE TokensInv'
    <2> DEFINE t == gate[g].token
    <2>1. /\ gate[g].at = "verifying" /\ t \in AppTokens
          /\ gate[g].scopes \in Builds /\ gate[g].seen \in Builds
          /\ access[t] # NoRow /\ UNCHANGED request
      BY <1>2 DEF TokenVerified, AccessInv, InForceInv
    <2>2. /\ gate' \in [Gateways -> GateStates]
          /\ \A h \in Gateways : h # g => gate'[h] = gate[h]
          /\ gate'[g] \in {[at |-> "binding", token |-> t], Down}
      BY <1>2, <2>1 DEF TokenVerified, AccessInv
    <2>3. CASE UNCHANGED access
      <3>1. AccessInv'
        BY <2>1, <2>2, <2>3 DEF AccessInv
      <3>2. InForceInv'
        BY <2>1, <2>2, <2>3 DEF InForceInv
      <3>3. OneUpgrade => UpgradesInv'
        BY <2>1, <2>2, <2>3 DEF UpgradesInv
      <3>4. OneUpgrade => NarrowInv'
        BY <2>1, <2>2, <2>3 DEF NarrowInv, RunTokensStayNarrow
      <3>. QED  BY <3>1, <3>2, <3>3, <3>4 DEF OneUpgrade
    <2>4. CASE gate[g].seen # gate[g].scopes /\ updateAppScopes(g)
      <3> DEFINE newRow == [access[t] EXCEPT !.scopes = gate[g].scopes]
      <3>1. /\ newRow \in TokenRows /\ newRow # NoRow /\ newRow.type = "app"
            /\ newRow.status = access[t].status /\ newRow.scopes = gate[g].scopes
        BY <2>1, ScopesChange
      <3>2. /\ access' \in [Tokens -> TokenRows \union {NoRow}]
            /\ \A u \in Tokens : u # t => access'[u] = access[u]
            /\ access'[t] = newRow
        BY <2>1, <2>4, <3>1 DEF updateAppScopes, AccessInv
      <3> HIDE DEF newRow
      <3>3. AccessInv'
        BY <2>1, <2>2, <3>1, <3>2 DEF AccessInv
      <3>4. InForceInv'
        <4>1. \A u \in AppTokens : isActive(u)' <=> isActive(u)
          BY <2>1, <3>1, <3>2
        <4>2. \A u \in Tokens : access[u] # NoRow => access'[u] # NoRow
          BY <2>1, <3>1, <3>2
        <4>3. \A h \in Gateways :
                gate'[h].at \in {"verifying", "binding", "serving", "closing"} =>
                  /\ gate[h].at \in {"verifying", "binding", "serving", "closing"}
                  /\ gate'[h].token = gate[h].token /\ gate[h].token \in AppTokens
          BY <2>1, <2>2 DEF AccessInv
        <4>. HIDE DEF isActive, GateStates
        <4>. QED  BY <4>1, <4>2, <4>3 DEF InForceInv
      <3>5. ASSUME OneUpgrade PROVE UpgradesInv'
        <4> SUFFICES ASSUME NEW h \in Gateways, h # g, gate[h].at = "verifying",
                            gate[h].seen # gate[h].scopes, gate[h].seen \subseteq gate[h].scopes
                     PROVE  access'[gate[h].token].scopes \in {gate[h].seen, gate[h].scopes}
          BY <2>2 DEF UpgradesInv
        <4>1. /\ gate[h].token \in AppTokens /\ gate[h].seen \in Builds
              /\ gate[h].scopes \in Builds
          BY DEF AccessInv
        <4>2. access[gate[h].token].scopes \in {gate[h].seen, gate[h].scopes}
          BY <3>5 DEF UpgradesInv
        <4>3. CASE gate[h].token = t
          <5>1. access[t].scopes \in {gate[g].seen, gate[g].scopes}
                /\ gate[g].seen \subseteq gate[g].scopes
            BY <2>1, <2>4, <3>5 DEF UpgradesInv, updateAppScopes
          <5>2. gate[g].scopes \in {gate[h].seen, gate[h].scopes}
            BY <2>1, <2>4, <3>5, <4>1, <4>2, <4>3, <5>1 DEF OneUpgrade
          <5>. QED  BY <3>1, <3>2, <4>3, <5>2
        <4>. QED  BY <3>2, <4>1, <4>2, <4>3
      <3>6. ASSUME OneUpgrade PROVE NarrowInv'
        <4>1. access[t].scopes \subseteq access'[t].scopes
          <5>1. gate[g].seen \subseteq gate[g].scopes
            BY <2>4 DEF updateAppScopes
          <5>2. access[t].scopes \in {gate[g].seen, gate[g].scopes}
            BY <2>1, <2>4, <3>6, <5>1 DEF UpgradesInv
          <5>. QED  BY <3>1, <3>2, <5>1, <5>2
        <4>2. \A u \in AppTokens :
                /\ access[u] # NoRow => access'[u] # NoRow
                /\ access[u].scopes \subseteq access'[u].scopes
          BY <3>1, <3>2, <4>1
        <4>3. \A r \in RunTokens : access'[r] = access[r] /\ (access[r] # NoRow =>
                access[r].issuer \in AppTokens)
          BY <2>1, <3>2 DEF AccessInv, TokenRows
        <4>4. \A q \in GatewayRequests : request[q].at = "minting" => request[q].token \in AppTokens
          BY DEF AccessInv
        <4>. HIDE DEF GateStates, RequestStates
        <4>. QED  BY <2>1, <3>6, <4>2, <4>3, <4>4 DEF NarrowInv, RunTokensStayNarrow
      <3>. QED  BY <3>3, <3>4, <3>5, <3>6 DEF OneUpgrade
    <2>. QED  BY <1>2, <2>3, <2>4 DEF TokenVerified
  <1>3. ASSUME NEW g \in Gateways, TokenDerived(g) PROVE TokensInv'
    <2> DEFINE t == gate[g].token
    <2>1. /\ gate[g].at = "deriving" /\ t \in AppTokens /\ gate[g].scopes \in Builds
          /\ UNCHANGED request
      BY <1>3 DEF TokenDerived, AccessInv
    <2>2. /\ gate' \in [Gateways -> GateStates]
          /\ \A h \in Gateways : h # g => gate'[h] = gate[h]
          /\ gate'[g] \in {[at |-> "binding", token |-> t], Down}
      BY <1>3, <2>1 DEF TokenDerived, AccessInv
    <2>3. CASE access[t] # NoRow
      <3>1. UNCHANGED access /\ gate'[g] = Down
        BY <1>3, <2>1, <2>3 DEF TokenDerived, AccessInv
      <3>2. AccessInv'
        BY <2>1, <2>2, <3>1 DEF AccessInv
      <3>3. InForceInv'
        BY <2>1, <2>2, <3>1 DEF InForceInv
      <3>4. OneUpgrade => UpgradesInv'
        BY <2>1, <2>2, <3>1 DEF UpgradesInv
      <3>5. OneUpgrade => NarrowInv'
        BY <2>1, <2>2, <3>1 DEF NarrowInv, RunTokensStayNarrow
      <3>. QED  BY <3>2, <3>3, <3>4, <3>5 DEF OneUpgrade
    <2>4. CASE access[t] = NoRow
      <3> DEFINE newRow == [type |-> "app", scopes |-> gate[g].scopes, status |-> "active"]
      <3>1. newRow \in TokenRows /\ newRow # NoRow /\ newRow.type = "app" /\ newRow.status = "active"
        BY <2>1 DEF TokenRows, Status
      <3>2. access' = [u \in Tokens |->
              IF u = t THEN newRow
              ELSE IF u \in AppTokens /\ isActive(u) THEN [access[u] EXCEPT !.status = "revoked"]
              ELSE access[u]]
        BY <1>3, <2>1, <2>4 DEF TokenDerived, rotateApp
      <3>3. \A u \in AppTokens : u # t =>
              /\ access'[u] \in TokenRows \union {NoRow} /\ ~isActive(u)'
              /\ access[u] # NoRow =>
                   /\ access'[u] # NoRow /\ access'[u].type = "app"
                   /\ access'[u].scopes = access[u].scopes
              /\ access[u] = NoRow => access'[u] = NoRow
        <4> SUFFICES ASSUME NEW u \in AppTokens, u # t
                     PROVE  /\ access'[u] \in TokenRows \union {NoRow} /\ ~isActive(u)'
                            /\ access[u] # NoRow =>
                                 /\ access'[u] # NoRow /\ access'[u].type = "app"
                                 /\ access'[u].scopes = access[u].scopes
                            /\ access[u] = NoRow => access'[u] = NoRow
          OBVIOUS
        <4>1. CASE isActive(u)
          <5>1. access'[u] = [access[u] EXCEPT !.status = "revoked"]
            BY <3>2, <4>1
          <5>2. "revoked" \in Status /\ access[u] # NoRow /\ access[u].type = "app"
            BY <4>1 DEF Status, AccessInv
          <5>3. /\ access'[u] \in TokenRows /\ access'[u] # NoRow
                /\ access'[u].type = access[u].type /\ access'[u].status = "revoked"
                /\ access'[u].scopes = access[u].scopes
            BY <5>1, <5>2, RowChanges
          <5>. QED  BY <5>2, <5>3
        <4>2. CASE ~isActive(u)
          BY <3>2, <4>2 DEF AccessInv
        <4>. QED  BY <4>1, <4>2
      <3>4. access'[t] = newRow /\ \A r \in RunTokens : access'[r] = access[r]
        BY <2>1, <3>2
      <3>5. access' = [u \in Tokens |-> access'[u]]
        BY <3>2
      <3> HIDE DEF newRow
      <3>6. AccessInv'
        BY <2>1, <2>2, <3>1, <3>3, <3>4, <3>5 DEF AccessInv
      <3>7. InForceInv'
        <4>1. \A u \in AppTokens : isActive(u)' <=> u = t
          BY <3>1, <3>3, <3>4
        <4>2. \A u \in AppTokens : access[u] # NoRow => access'[u] # NoRow
          BY <3>1, <3>3, <3>4
        <4>3. \A h \in Gateways :
                gate'[h].at \in {"verifying", "binding", "serving", "closing"} =>
                  \/ h = g /\ gate'[h].token = t
                  \/ /\ gate[h].at \in {"verifying", "binding", "serving", "closing"}
                     /\ gate'[h].token = gate[h].token /\ gate[h].token \in AppTokens
          BY <2>1, <2>2 DEF AccessInv
        <4>4. access'[t] # NoRow
          BY <3>1, <3>4
        <4>. HIDE DEF isActive, GateStates
        <4>. QED  BY <2>1, <4>1, <4>2, <4>3, <4>4 DEF InForceInv
      <3>8. ASSUME OneUpgrade PROVE UpgradesInv'
        <4> SUFFICES ASSUME NEW h \in Gateways, h # g, gate[h].at = "verifying",
                            gate[h].seen # gate[h].scopes, gate[h].seen \subseteq gate[h].scopes
                     PROVE  access'[gate[h].token].scopes \in {gate[h].seen, gate[h].scopes}
          BY <2>2 DEF UpgradesInv
        <4>1. gate[h].token \in AppTokens /\ access[gate[h].token] # NoRow
          BY DEF AccessInv, InForceInv
        <4>. QED  BY <2>4, <3>3, <3>8, <4>1 DEF UpgradesInv
      <3>9. ASSUME OneUpgrade PROVE NarrowInv'
        <4>1. \A u \in AppTokens : access[u] # NoRow =>
                access'[u] # NoRow /\ access'[u].scopes = access[u].scopes
          BY <2>4, <3>3
        <4>2. \A r \in RunTokens : access'[r] = access[r] /\ (access[r] # NoRow =>
                access[r].issuer \in AppTokens)
          BY <3>4 DEF AccessInv, TokenRows
        <4>3. \A q \in GatewayRequests : request[q].at = "minting" => request[q].token \in AppTokens
          BY DEF AccessInv
        <4>. HIDE DEF GateStates, RequestStates
        <4>. QED  BY <2>1, <3>9, <4>1, <4>2, <4>3 DEF NarrowInv, RunTokensStayNarrow
      <3>. QED  BY <3>6, <3>7, <3>8, <3>9 DEF OneUpgrade
    <2>. QED  BY <2>3, <2>4
  <1>4. ASSUME NEW g \in Gateways, Listen(g) PROVE TokensInv'
    <2>1. AccessInv'
      BY <1>4 DEF Listen, AccessInv
    <2>2. InForceInv'
      BY <1>4 DEF Listen, AccessInv, InForceInv
    <2>3. OneUpgrade => UpgradesInv'
      BY <1>4 DEF Listen, AccessInv, InForceInv, UpgradesInv, OneUpgrade
    <2>4. OneUpgrade => NarrowInv'
      BY <1>4 DEF Listen, AccessInv, UpgradesInv, NarrowInv, RunTokensStayNarrow, OneUpgrade
    <2>. QED  BY <2>1, <2>2, <2>3, <2>4 DEF OneUpgrade
  <1>5. ASSUME NEW g \in Gateways, Shutdown(g) PROVE TokensInv'
    <2>1. AccessInv'
      BY <1>5 DEF Shutdown, AccessInv
    <2>2. InForceInv'
      BY <1>5 DEF Shutdown, AccessInv, InForceInv
    <2>3. OneUpgrade => UpgradesInv'
      BY <1>5 DEF Shutdown, AccessInv, InForceInv, UpgradesInv, OneUpgrade
    <2>4. OneUpgrade => NarrowInv'
      BY <1>5 DEF Shutdown, AccessInv, UpgradesInv, NarrowInv, RunTokensStayNarrow, OneUpgrade
    <2>. QED  BY <2>1, <2>2, <2>3, <2>4 DEF OneUpgrade
  <1>6. ASSUME NEW g \in Gateways, Closed(g) PROVE TokensInv'
    <2>1. AccessInv'
      BY <1>6 DEF Closed, AccessInv
    <2>2. InForceInv'
      BY <1>6 DEF Closed, AccessInv, InForceInv
    <2>3. OneUpgrade => UpgradesInv'
      BY <1>6 DEF Closed, AccessInv, InForceInv, UpgradesInv, OneUpgrade
    <2>4. OneUpgrade => NarrowInv'
      BY <1>6 DEF Closed, AccessInv, UpgradesInv, NarrowInv, RunTokensStayNarrow, OneUpgrade
    <2>. QED  BY <2>1, <2>2, <2>3, <2>4 DEF OneUpgrade
  <1>7. ASSUME NEW g \in Gateways, GatewayCrashes(g) PROVE TokensInv'
    <2>1. AccessInv'
      BY <1>7 DEF GatewayCrashes, AccessInv
    <2>2. InForceInv'
      BY <1>7 DEF GatewayCrashes, AccessInv, InForceInv
    <2>3. OneUpgrade => UpgradesInv'
      BY <1>7 DEF GatewayCrashes, AccessInv, InForceInv, UpgradesInv, OneUpgrade
    <2>4. OneUpgrade => NarrowInv'
      BY <1>7 DEF GatewayCrashes, AccessInv, UpgradesInv, NarrowInv, RunTokensStayNarrow,
                  OneUpgrade
    <2>. QED  BY <2>1, <2>2, <2>3, <2>4 DEF OneUpgrade
  <1>8. ASSUME NEW g \in Gateways, WindowPasses(g) PROVE TokensInv'
    <2>1. AccessInv'
      BY <1>8 DEF WindowPasses, AccessInv
    <2>2. InForceInv'
      BY <1>8 DEF WindowPasses, AccessInv, InForceInv
    <2>3. OneUpgrade => UpgradesInv'
      BY <1>8 DEF WindowPasses, AccessInv, InForceInv, UpgradesInv, OneUpgrade
    <2>4. OneUpgrade => NarrowInv'
      BY <1>8 DEF WindowPasses, AccessInv, UpgradesInv, NarrowInv, RunTokensStayNarrow,
                  OneUpgrade
    <2>. QED  BY <2>1, <2>2, <2>3, <2>4 DEF OneUpgrade
  <1>9. ASSUME NEW g \in Gateways, NEW q \in GatewayRequests, NEW t \in Tokens, Present(q, g, t)
        PROVE  TokensInv'
    <2>1. AccessInv'
      BY <1>9 DEF Present, AccessInv
    <2>2. InForceInv'
      BY <1>9 DEF Present, AccessInv, InForceInv
    <2>3. OneUpgrade => UpgradesInv'
      BY <1>9 DEF Present, AccessInv, InForceInv, UpgradesInv, OneUpgrade
    <2>4. OneUpgrade => NarrowInv'
      BY <1>9 DEF Present, AccessInv, UpgradesInv, NarrowInv, RunTokensStayNarrow, OneUpgrade
    <2>. QED  BY <2>1, <2>2, <2>3, <2>4 DEF OneUpgrade
  <1>10. ASSUME NEW q \in GatewayRequests, Authenticated(q) PROVE TokensInv'
    <2>1. AccessInv'
      BY <1>10 DEF Authenticated, AccessInv
    <2>2. InForceInv'
      BY <1>10 DEF Authenticated, AccessInv, InForceInv
    <2>3. OneUpgrade => UpgradesInv'
      BY <1>10 DEF Authenticated, AccessInv, InForceInv, UpgradesInv, OneUpgrade
    <2>4. OneUpgrade => NarrowInv'
      BY <1>10 DEF Authenticated, AccessInv, UpgradesInv, NarrowInv, RunTokensStayNarrow,
                   OneUpgrade
    <2>. QED  BY <2>1, <2>2, <2>3, <2>4 DEF OneUpgrade
  <1>11. ASSUME NEW q \in GatewayRequests, Refused(q) PROVE TokensInv'
    <2>1. AccessInv'
      BY <1>11 DEF Refused, AccessInv
    <2>2. InForceInv'
      BY <1>11 DEF Refused, AccessInv, InForceInv
    <2>3. OneUpgrade => UpgradesInv'
      BY <1>11 DEF Refused, AccessInv, InForceInv, UpgradesInv, OneUpgrade
    <2>4. OneUpgrade => NarrowInv'
      BY <1>11 DEF Refused, AccessInv, UpgradesInv, NarrowInv, RunTokensStayNarrow, OneUpgrade
    <2>. QED  BY <2>1, <2>2, <2>3, <2>4 DEF OneUpgrade
  <1>12. ASSUME NEW q \in GatewayRequests, NEW scopes \in SUBSET RunScopes, mintRunToken(q,
                scopes)
         PROVE  TokensInv'
    <2>1. AccessInv'
      <3>1. /\ request[q].gate \in Gateways /\ request[q].token \in Tokens
            /\ request[q].as.type = "app" /\ access[request[q].token] # NoRow
        BY <1>12 DEF mintRunToken, Administers, ParentHolds, AccessInv
      <3>2. request[q].token \in AppTokens
        BY <1>12, <3>1 DEF mintRunToken, Administers, AccessInv
      <3>3. [at |-> "minting", gate |-> request[q].gate, token |-> request[q].token,
             scopes |-> scopes] \in RequestStates
        BY <3>1, <3>2
      <3>. HIDE DEF GateStates, RequestStates
      <3>. QED  BY <1>12, <3>3 DEF mintRunToken, AccessInv
    <2>2. InForceInv'
      BY <1>12 DEF mintRunToken, Administers, ParentHolds, AccessInv, InForceInv
    <2>3. OneUpgrade => UpgradesInv'
      BY <1>12 DEF mintRunToken, Administers, ParentHolds, AccessInv, InForceInv, UpgradesInv,
                   OneUpgrade
    <2>4. OneUpgrade => NarrowInv'
      BY <1>12 DEF mintRunToken, Administers, ParentHolds, AccessInv, UpgradesInv, NarrowInv,
                   RunTokensStayNarrow, OneUpgrade
    <2>. QED  BY <2>1, <2>2, <2>3, <2>4 DEF OneUpgrade
  <1>13. ASSUME NEW q \in GatewayRequests, NEW r \in RunTokens, Minted(q, r) PROVE TokensInv'
    <2>1. AccessInv'
      <3> DEFINE newRow == [type |-> "run", scopes |-> request[q].scopes,
                         issuer |-> request[q].token, status |-> "active"]
      <3>1. request[q].token \in AppTokens /\ request[q].scopes \in SUBSET RunScopes
        BY <1>13 DEF Minted, AccessInv
      <3>2. newRow \in TokenRows /\ newRow # NoRow /\ newRow.type = "run"
        BY <3>1 DEF TokenRows, Status
      <3>3. access' = [access EXCEPT ![r] = newRow] /\ UNCHANGED gate
            /\ request' = [request EXCEPT ![q] = Quiescent]
        BY <1>13 DEF Minted
      <3>. HIDE DEF newRow
      <3>. QED  BY <3>2, <3>3 DEF AccessInv
    <2>2. InForceInv'
      BY <1>13 DEF Minted, AccessInv, InForceInv
    <2>3. OneUpgrade => UpgradesInv'
      BY <1>13 DEF Minted, AccessInv, InForceInv, UpgradesInv, OneUpgrade
    <2>4. OneUpgrade => NarrowInv'
      BY <1>13 DEF Minted, AccessInv, UpgradesInv, NarrowInv, RunTokensStayNarrow, OneUpgrade
    <2>. QED  BY <2>1, <2>2, <2>3, <2>4 DEF OneUpgrade
  <1>14. ASSUME NEW q \in GatewayRequests, NEW r \in RunTokens, revoke(q, r) PROVE TokensInv'
    <2>1. /\ access[r] # NoRow /\ access' = [access EXCEPT ![r].status = "revoked"]
          /\ UNCHANGED gate /\ request' = [request EXCEPT ![q] = Quiescent]
      BY <1>14 DEF revoke
    <2>2. "revoked" \in Status
      BY DEF Status
    <2>3. /\ access' \in [Tokens -> TokenRows \union {NoRow}]
          /\ \A t \in Tokens : t # r => access'[t] = access[t]
          /\ access'[r] # NoRow /\ access'[r].type = "run"
          /\ access'[r].scopes = access[r].scopes /\ access'[r].issuer = access[r].issuer
      BY <2>1, <2>2, RunTokenEnds
    <2>4. /\ access[r] # NoRow /\ UNCHANGED gate /\ request' = [request EXCEPT ![q] = Quiescent]
      BY <2>1
    <2>5. AccessInv'
      BY <2>3, <2>4 DEF AccessInv
    <2>6. InForceInv'
      <3>1. \A t \in AppTokens : access'[t] = access[t]
        BY <2>3
      <3>2. \A g \in Gateways : gate[g].at \in {"verifying", "binding", "serving", "closing"} =>
              gate[g].token \in AppTokens
        BY DEF AccessInv
      <3>. HIDE DEF GateStates, RequestStates
      <3>. QED  BY <2>4, <3>1, <3>2 DEF InForceInv
    <2>7. OneUpgrade => UpgradesInv'
      BY <2>3, <2>4 DEF AccessInv, UpgradesInv
    <2>8. OneUpgrade => NarrowInv'
      <3>1. \A t \in AppTokens : access'[t] = access[t]
        BY <2>3
      <3>2. \A k \in RunTokens : access[k] # NoRow => access[k].issuer \in AppTokens
        BY DEF AccessInv, TokenRows
      <3>3. \A k \in RunTokens :
              /\ access'[k] # NoRow <=> access[k] # NoRow
              /\ access[k] # NoRow =>
                   access'[k].scopes = access[k].scopes /\ access'[k].issuer = access[k].issuer
        BY <2>3, <2>4
      <3>4. \A u \in GatewayRequests :
              request'[u].at = "minting" => request'[u] = request[u] /\ request[u].token \in AppTokens
        BY <2>4 DEF AccessInv
      <3>. HIDE DEF GateStates, RequestStates
      <3>. QED  BY <3>1, <3>2, <3>3, <3>4 DEF NarrowInv, RunTokensStayNarrow
    <2>. QED  BY <2>5, <2>6, <2>7, <2>8 DEF OneUpgrade
  <1>15. ASSUME NEW r \in RunTokens, ExpireToken(r) PROVE TokensInv'
    <2>1. /\ access[r] # NoRow /\ access' = [access EXCEPT ![r].status = "expired"]
          /\ UNCHANGED gate /\ UNCHANGED request
      BY <1>15 DEF ExpireToken
    <2>2. "expired" \in Status
      BY DEF Status
    <2>3. /\ access' \in [Tokens -> TokenRows \union {NoRow}]
          /\ \A t \in Tokens : t # r => access'[t] = access[t]
          /\ access'[r] # NoRow /\ access'[r].type = "run"
          /\ access'[r].scopes = access[r].scopes /\ access'[r].issuer = access[r].issuer
      BY <2>1, <2>2, RunTokenEnds
    <2>4. /\ access[r] # NoRow /\ UNCHANGED gate /\ UNCHANGED request
      BY <2>1
    <2>5. AccessInv'
      BY <2>3, <2>4 DEF AccessInv
    <2>6. InForceInv'
      <3>1. \A t \in AppTokens : access'[t] = access[t]
        BY <2>3
      <3>2. \A g \in Gateways : gate[g].at \in {"verifying", "binding", "serving", "closing"} =>
              gate[g].token \in AppTokens
        BY DEF AccessInv
      <3>. HIDE DEF GateStates, RequestStates
      <3>. QED  BY <2>4, <3>1, <3>2 DEF InForceInv
    <2>7. OneUpgrade => UpgradesInv'
      BY <2>3, <2>4 DEF AccessInv, UpgradesInv
    <2>8. OneUpgrade => NarrowInv'
      <3>1. \A t \in AppTokens : access'[t] = access[t]
        BY <2>3
      <3>2. \A k \in RunTokens : access[k] # NoRow => access[k].issuer \in AppTokens
        BY DEF AccessInv, TokenRows
      <3>3. \A k \in RunTokens :
              /\ access'[k] # NoRow <=> access[k] # NoRow
              /\ access[k] # NoRow =>
                   access'[k].scopes = access[k].scopes /\ access'[k].issuer = access[k].issuer
        BY <2>3, <2>4
      <3>4. \A u \in GatewayRequests :
              request'[u].at = "minting" => request'[u] = request[u] /\ request[u].token \in AppTokens
        BY <2>4 DEF AccessInv
      <3>. HIDE DEF GateStates, RequestStates
      <3>. QED  BY <3>1, <3>2, <3>3, <3>4 DEF NarrowInv, RunTokensStayNarrow
    <2>. QED  BY <2>5, <2>6, <2>7, <2>8 DEF OneUpgrade
  <1>16. CASE UNCHANGED tokenVars
    BY <1>16 DEF tokenVars, AccessInv, InForceInv, UpgradesInv, NarrowInv, RunTokensStayNarrow,
                 OneUpgrade
  <1> HIDE DEF TokensInv
  <1>. QED  BY <1>1, <1>2, <1>3, <1>4, <1>5, <1>6, <1>7, <1>8, <1>9, <1>10, <1>11, <1>12, <1>13,
               <1>14, <1>15, <1>16 DEF TokensNext

\* It keeps the promise of the tokens.
LEMMA TokensKeep == TokensInv => TokensAreBound
  <1> SUFFICES ASSUME TokensInv PROVE TokensAreBound
    OBVIOUS
  <1> DEFINE inForce == {t \in AppTokens : isActive(t)}
  <1>1. \A t, u \in inForce : t = u
    BY DEF TokensInv, InForceInv
  <1>2. Cardinality(inForce) <= 1
    <2>1. CASE inForce = {}
      BY <2>1, FS_EmptySet
    <2>2. ASSUME NEW t \in inForce PROVE Cardinality(inForce) <= 1
      <3>1. inForce = {t}
        BY <1>1, <2>2
      <3>. HIDE DEF inForce
      <3>2. Cardinality({t}) = 1
        BY FS_Singleton
      <3>. QED  BY <3>1, <3>2
    <2>. QED  BY <2>1, <2>2
  <1>3. (\E g \in Gateways : gate[g].at \in {"binding", "serving", "closing"}) => inForce # {}
    BY DEF TokensInv, InForceInv
  <1>4. OneAppTokenServes
    BY <1>2, <1>3 DEF OneAppTokenServes
  <1>5. OneUpgrade => RunTokensStayNarrow
    BY DEF TokensInv, NarrowInv
  <1>. QED  BY <1>4, <1>5 DEF TokensAreBound

-----------------------------------------------------------------------------
(* Provider connections                                                       *)

\* The profiles created so far, and whose they are.
Created == 1 .. Len(owner)

\* A row, an operation and an attempt have a profile that was created for their id.
ProfilesInv ==
  /\ owner \in Seq(Connections)
  /\ connection = [c \in Connections |-> connection[c]]
  /\ \A c \in Connections :
       connection[c] # NoConnection =>
         /\ connection[c] \in [status : Statuses, profile : Nat]
         /\ connection[c].profile \in Created /\ owner[connection[c].profile] = c
  /\ admin = [q \in AdminRequests |-> admin[q]]
  /\ \A q \in AdminRequests :
       admin[q] # Waiting =>
         /\ admin[q] \in [at : {"storing", "stored", "forgetting", "forgotten"},
                          id : Connections, profile : Nat]
         /\ admin[q].profile \in Created /\ owner[admin[q].profile] = admin[q].id
  /\ secret \subseteq Created

\* What a run sent is of the connection that it was created with.
AttemptsInv ==
  /\ attempt = [r \in ConnectedRuns |-> attempt[r]]
  /\ sent \in [ConnectedRuns -> SUBSET Nat]
  /\ \A r \in ConnectedRuns :
       \/ attempt[r] = Waiting /\ sent[r] = {}
       \/ /\ attempt[r].at \in {"unresolved", "failed", "bound"} /\ attempt[r].id \in Connections
          /\ attempt[r].at = "bound" =>
               attempt[r].profile \in Created /\ owner[attempt[r].profile] = attempt[r].id
          /\ \A p \in sent[r] : p \in Created /\ owner[p] = attempt[r].id

\* Two operations on one id have disturbed each other.
OverlapsInv ==
  \A q, u \in AdminRequests :
    /\ q # u /\ admin[q] # Waiting /\ admin[u] # Waiting /\ admin[q].id = admin[u].id
    => admin[q].profile \in disturbed

\* An operation that nobody disturbed works on the row that it read.
OperationsInv ==
  \A q \in AdminRequests :
    admin[q] # Waiting /\ admin[q].profile \notin disturbed =>
      /\ Live(admin[q].id) /\ connection[admin[q].id].profile = admin[q].profile
      /\ admin[q].at = "stored" => admin[q].profile \in secret
      /\ admin[q].at = "forgotten" => admin[q].profile \notin secret

\* A profile that nobody disturbed has its secret and its row, also while a login or a
\* deletion has not begun its change.
BackedInv ==
  \A p \in Created :
    /\ p \notin disturbed
    /\ \A q \in AdminRequests : admin[q] # Waiting /\ admin[q].profile = p => admin[q].at # "forgotten"
    => /\ \A c \in Connections :
            Live(c) /\ connection[c].profile = p /\ connection[c].status = "ready" => p \in secret
       /\ p \in secret => Live(owner[p]) /\ connection[owner[p]].profile = p

\* The inductive invariant of the connections.
ConnectionInv == ProfilesInv /\ AttemptsInv /\ OverlapsInv /\ OperationsInv /\ BackedInv

\* At first there are no connections.
LEMMA ConnectionInitial == ConnectionInit => ConnectionInv
  BY DEF ConnectionInit, ConnectionInv, ProfilesInv, AttemptsInv, OverlapsInv, OperationsInv,
         BackedInv, Created, Live, Waiting

\* An operation that goes on keeps its id and its profile.
LEMMA AdminGoesOn ==
  ASSUME ProfilesInv, NEW q \in AdminRequests, admin[q] # Waiting,
         NEW to \in {"stored", "forgotten"}, admin' = [admin EXCEPT ![q].at = to]
  PROVE  /\ admin' = [u \in AdminRequests |-> admin'[u]]
         /\ \A u \in AdminRequests : u # q => admin'[u] = admin[u]
         /\ admin'[q] \in [at : {to}, id : Connections, profile : Nat]
         /\ admin'[q] # Waiting
         /\ admin'[q].id = admin[q].id /\ admin'[q].profile = admin[q].profile
  <1>1. /\ admin' = [u \in AdminRequests |-> IF u = q THEN [admin[q] EXCEPT !.at = to] ELSE admin[u]]
        /\ admin[q] \in [at : {"storing", "stored", "forgetting", "forgotten"},
                         id : Connections, profile : Nat]
    BY DEF ProfilesInv
  <1>2. [admin[q] EXCEPT !.at = to] =
          [at |-> to, id |-> admin[q].id, profile |-> admin[q].profile]
    BY <1>1
  <1>3. admin' = [u \in AdminRequests |-> admin'[u]] /\ \A u \in AdminRequests : u # q => admin'[u] = admin[u]
    BY <1>1
  <1>4. admin'[q] = [at |-> to, id |-> admin[q].id, profile |-> admin[q].profile]
    BY <1>1, <1>2
  <1>5. admin'[q].at # Waiting.at
    BY <1>4 DEF Waiting
  <1>. QED  BY <1>1, <1>3, <1>4, <1>5

\* A row whose status is changed keeps its profile.
LEMMA StatusChanges ==
  ASSUME ProfilesInv, NEW id \in Connections, NEW status \in Statuses,
         connection' = IF Live(id) THEN [connection EXCEPT ![id].status = status] ELSE connection
  PROVE  /\ connection' = [c \in Connections |-> connection'[c]]
         /\ \A c \in Connections : c # id => connection'[c] = connection[c]
         /\ Live(id) => /\ connection'[id] \in [status : Statuses, profile : Nat]
                        /\ connection'[id] # NoConnection
                        /\ connection'[id].profile = connection[id].profile
                        /\ connection'[id].status = status
         /\ ~Live(id) => connection'[id] = NoConnection
  <1>1. CASE Live(id)
    <2>1. connection' = [c \in Connections |->
            IF c = id THEN [connection[id] EXCEPT !.status = status] ELSE connection[c]]
      BY <1>1 DEF ProfilesInv
    <2>2. connection[id] \in [status : Statuses, profile : Nat]
      BY <1>1 DEF ProfilesInv, Live
    <2>3. [connection[id] EXCEPT !.status = status] =
            [status |-> status, profile |-> connection[id].profile]
      BY <2>2
    <2>4. connection'[id] = [status |-> status, profile |-> connection[id].profile]
      BY <2>1, <2>3
    <2>5. connection'[id] \in [status : Statuses, profile : Nat] /\ connection'[id] # NoConnection
      BY <2>2, <2>4, ConnectionAssumption
    <2>6. /\ connection' = [c \in Connections |-> connection'[c]]
          /\ \A c \in Connections : c # id => connection'[c] = connection[c]
      BY <2>1
    <2>. QED  BY <1>1, <2>4, <2>5, <2>6
  <1>2. CASE ~Live(id)
    BY <1>2 DEF ProfilesInv, Live
  <1>. QED  BY <1>1, <1>2

\* Those that overlap on an id are disturbed with the row that they read.
LEMMA OverlappedHas ==
  ASSUME NEW c \in Connections, NEW u \in AdminRequests, admin[u] # Waiting, admin[u].id = c
  PROVE  admin[u].profile \in Overlapped(c) /\ connection[c].profile \in Overlapped(c)
  <1> DEFINE rest == {q \in AdminRequests : admin[q] # Waiting /\ admin[q].id = c}
  <1>1. u \in rest /\ rest # {}
    OBVIOUS
  <1>2. Overlapped(c) = {admin[q].profile : q \in rest} \union {connection[c].profile}
    BY <1>1 DEF Overlapped
  <1>. QED  BY <1>1, <1>2

\* Every step of logins, deletions and runs keeps it.
LEMMA ConnectionStep ==
  ASSUME ConnectionInv, [ConnectionNext]_connectionVars
  PROVE  ConnectionInv'
  <1> USE ConnectionAssumption DEF ConnectionInv, Created, Live, Waiting, Statuses
  <1>1. ASSUME NEW c \in Connections, createProviderConnection(c) PROVE ConnectionInv'
    <2>1. ProfilesInv'
      BY <1>1, SMTT(30) DEF createProviderConnection, NewRow, ProfilesInv
    <2>2. AttemptsInv'
      BY <1>1 DEF createProviderConnection, NewRow, AttemptsInv
    <2>3. OverlapsInv'
      BY <1>1 DEF createProviderConnection, OverlapsInv
    <2>4. OperationsInv'
      BY <1>1 DEF createProviderConnection, NewRow, OperationsInv, OverlapsInv, ProfilesInv
    <2>5. BackedInv'
      BY <1>1 DEF createProviderConnection, NewRow, BackedInv, OverlapsInv, OperationsInv,
                  ProfilesInv
    <2>. QED  BY <2>1, <2>2, <2>3, <2>4, <2>5
  <1>2. ASSUME NEW q \in AdminRequests, NEW c \in Connections, login(q, c) PROVE ConnectionInv'
    <2>1. ProfilesInv'
      BY <1>2 DEF login, BeginAdmin, Overlapped, ProfilesInv
    <2>2. AttemptsInv'
      BY <1>2 DEF login, BeginAdmin, Overlapped, AttemptsInv
    <2>6. /\ \A u \in AdminRequests : admin[u] # Waiting /\ admin[u].id = c =>
               admin[u].profile \in disturbed' /\ connection[c].profile \in disturbed'
          /\ disturbed \subseteq disturbed'
      BY <1>2, OverlappedHas DEF login, BeginAdmin
    <2>7. /\ \A u \in AdminRequests : u # q => admin'[u] = admin[u]
          /\ admin'[q].id = c /\ admin'[q].profile = connection[c].profile
      BY <1>2 DEF login, BeginAdmin, ProfilesInv
    <2>3. OverlapsInv'
      BY <2>6, <2>7 DEF OverlapsInv
    <2>4. OperationsInv'
      BY <1>2 DEF login, BeginAdmin, Overlapped, OperationsInv, OverlapsInv, ProfilesInv
    <2>8. admin[q] = Waiting /\ UNCHANGED <<connection, owner, secret>>
      BY <1>2 DEF login, BeginAdmin
    <2>5. BackedInv'
      <3>1. ASSUME NEW p, p \notin disturbed',
                   \A u \in AdminRequests :
                     admin'[u] # Waiting /\ admin'[u].profile = p => admin'[u].at # "forgotten"
            PROVE  /\ p \notin disturbed
                   /\ \A u \in AdminRequests :
                        admin[u] # Waiting /\ admin[u].profile = p => admin[u].at # "forgotten"
        <4>. HIDE DEF Waiting
        <4>. QED  BY <2>6, <2>7, <2>8, <3>1
      <3>. QED  BY <2>8, <3>1 DEF BackedInv
    <2>. QED  BY <2>1, <2>2, <2>3, <2>4, <2>5
  <1>3. ASSUME NEW q \in AdminRequests, NEW c \in Connections, logout(q, c) PROVE ConnectionInv'
    <2>1. ProfilesInv'
      BY <1>3 DEF logout, BeginAdmin, Overlapped, ProfilesInv
    <2>2. AttemptsInv'
      BY <1>3 DEF logout, BeginAdmin, Overlapped, AttemptsInv
    <2>6. /\ \A u \in AdminRequests : admin[u] # Waiting /\ admin[u].id = c =>
               admin[u].profile \in disturbed' /\ connection[c].profile \in disturbed'
          /\ disturbed \subseteq disturbed'
      BY <1>3, OverlappedHas DEF logout, BeginAdmin
    <2>7. /\ \A u \in AdminRequests : u # q => admin'[u] = admin[u]
          /\ admin'[q].id = c /\ admin'[q].profile = connection[c].profile
      BY <1>3 DEF logout, BeginAdmin, ProfilesInv
    <2>3. OverlapsInv'
      BY <2>6, <2>7 DEF OverlapsInv
    <2>4. OperationsInv'
      BY <1>3 DEF logout, BeginAdmin, Overlapped, OperationsInv, OverlapsInv, ProfilesInv
    <2>8. admin[q] = Waiting /\ UNCHANGED <<connection, owner, secret>>
      BY <1>3 DEF logout, BeginAdmin
    <2>5. BackedInv'
      <3>1. ASSUME NEW p, p \notin disturbed',
                   \A u \in AdminRequests :
                     admin'[u] # Waiting /\ admin'[u].profile = p => admin'[u].at # "forgotten"
            PROVE  /\ p \notin disturbed
                   /\ \A u \in AdminRequests :
                        admin[u] # Waiting /\ admin[u].profile = p => admin[u].at # "forgotten"
        <4>. HIDE DEF Waiting
        <4>. QED  BY <2>6, <2>7, <2>8, <3>1
      <3>. QED  BY <2>8, <3>1 DEF BackedInv
    <2>. QED  BY <2>1, <2>2, <2>3, <2>4, <2>5
  <1>4. ASSUME NEW r \in ConnectedRuns, NEW c \in Connections, createRun(r, c)
        PROVE  ConnectionInv'
    <2>1. ProfilesInv'
      BY <1>4 DEF createRun, ProfilesInv
    <2>2. AttemptsInv'
      BY <1>4 DEF createRun, AttemptsInv
    <2>3. OverlapsInv'
      BY <1>4 DEF createRun, OverlapsInv
    <2>4. OperationsInv'
      BY <1>4 DEF createRun, OperationsInv, OverlapsInv, ProfilesInv
    <2>5. BackedInv'
      BY <1>4 DEF createRun, BackedInv, OverlapsInv, OperationsInv, ProfilesInv
    <2>. QED  BY <2>1, <2>2, <2>3, <2>4, <2>5
  <1>5. ASSUME NEW q \in AdminRequests, SecretStored(q) PROVE ConnectionInv'
    <2>0. /\ admin[q].at = "storing" /\ admin[q] # Waiting
          /\ admin' = [admin EXCEPT ![q].at = "stored"]
          /\ secret' = secret \union {admin[q].profile}
          /\ UNCHANGED <<connection, owner, attempt, sent, disturbed>>
      BY <1>5 DEF SecretStored
    <2>6. /\ admin' = [u \in AdminRequests |-> admin'[u]]
          /\ \A u \in AdminRequests : u # q => admin'[u] = admin[u]
          /\ admin'[q] \in [at : {"stored"}, id : Connections, profile : Nat]
          /\ admin'[q] # Waiting
          /\ admin'[q].id = admin[q].id /\ admin'[q].profile = admin[q].profile
      BY <2>0, AdminGoesOn
    <2>7. /\ admin[q].at = "storing" /\ admin[q] # Waiting
          /\ secret' = secret \union {admin[q].profile}
          /\ UNCHANGED <<connection, owner, attempt, sent, disturbed>>
      BY <2>0
    <2>1. ProfilesInv'
      BY <2>6, <2>7, SMTT(30) DEF ProfilesInv
    <2>2. AttemptsInv'
      BY <2>6, <2>7 DEF AttemptsInv
    <2>3. OverlapsInv'
      BY <2>6, <2>7 DEF OverlapsInv
    <2>4. OperationsInv'
      BY <2>6, <2>7 DEF OperationsInv, OverlapsInv, ProfilesInv
    <2>5. BackedInv'
      <3> SUFFICES ASSUME NEW p \in Created, p \notin disturbed,
                          \A u \in AdminRequests :
                            admin'[u] # Waiting /\ admin'[u].profile = p => admin'[u].at # "forgotten"
                   PROVE  /\ \A c \in Connections :
                               (Live(c) /\ connection[c].profile = p /\ connection[c].status = "ready")
                                 => p \in secret'
                          /\ p \in secret' => Live(owner[p]) /\ connection[owner[p]].profile = p
        BY <2>7 DEF BackedInv
      <3>1. \A u \in AdminRequests :
              admin[u] # Waiting /\ admin[u].profile = p => admin[u].at # "forgotten"
        BY <2>6, <2>7
      <3>2. /\ \A c \in Connections :
                  Live(c) /\ connection[c].profile = p /\ connection[c].status = "ready" => p \in secret
            /\ p \in secret => Live(owner[p]) /\ connection[owner[p]].profile = p
        BY <3>1 DEF BackedInv
      <3>3. p = admin[q].profile => Live(owner[p]) /\ connection[owner[p]].profile = p
        <4>1. p = admin[q].profile => owner[p] = admin[q].id
          BY <2>7 DEF ProfilesInv
        <4>. QED  BY <2>7, <4>1 DEF OperationsInv
      <3>. HIDE DEF Live
      <3>. QED  BY <2>7, <3>2, <3>3
    <2>. QED  BY <2>1, <2>2, <2>3, <2>4, <2>5
  <1>6. ASSUME NEW q \in AdminRequests, LoggedIn(q) PROVE ConnectionInv'
    <2>0. /\ admin[q] # Waiting /\ admin[q].at = "stored"
          /\ admin' = [admin EXCEPT ![q] = Waiting]
          /\ connection' = IF Live(admin[q].id)
               THEN [connection EXCEPT ![admin[q].id].status = "ready"] ELSE connection
          /\ disturbed' = disturbed \union CrossedBy(q)
          /\ UNCHANGED <<owner, secret, attempt, sent>>
      BY <1>6 DEF LoggedIn, updateProviderConnection
    <2> DEFINE id == admin[q].id
    <2>6. id \in Connections /\ admin[q].profile \in Created /\ owner[admin[q].profile] = id
      BY <2>0 DEF ProfilesInv
    <2>7. /\ connection' = [c \in Connections |-> connection'[c]]
          /\ \A c \in Connections : c # id => connection'[c] = connection[c]
          /\ Live(id) => /\ connection'[id] \in [status : Statuses, profile : Nat]
                         /\ connection'[id] # NoConnection
                         /\ connection'[id].profile = connection[id].profile
                         /\ connection'[id].status = "ready"
          /\ ~Live(id) => connection'[id] = NoConnection
      BY <2>0, <2>6, StatusChanges
    <2>8. /\ admin[q] # Waiting /\ admin[q].at = "stored"
          /\ admin' = [u \in AdminRequests |-> IF u = q THEN Waiting ELSE admin[u]]
          /\ disturbed' = disturbed \union CrossedBy(q)
          /\ UNCHANGED <<owner, secret, attempt, sent>>
      BY <2>0 DEF ProfilesInv
    <2>1. ProfilesInv'
      BY <2>6, <2>7, <2>8 DEF CrossedBy, ProfilesInv
    <2>2. AttemptsInv'
      BY <2>6, <2>7, <2>8 DEF CrossedBy, AttemptsInv
    <2>3. OverlapsInv'
      BY <2>6, <2>7, <2>8 DEF CrossedBy, OverlapsInv, ProfilesInv
    <2>4. OperationsInv'
      BY <2>6, <2>7, <2>8 DEF CrossedBy, OperationsInv, OverlapsInv, ProfilesInv
    <2>5. BackedInv'
      <3> SUFFICES ASSUME NEW p \in Created, p \notin disturbed',
                          \A u \in AdminRequests :
                            admin'[u] # Waiting /\ admin'[u].profile = p => admin'[u].at # "forgotten"
                   PROVE  /\ \A c \in Connections :
                               /\ connection'[c] # NoConnection /\ connection'[c].profile = p
                                  /\ connection'[c].status = "ready"
                                  => p \in secret
                          /\ p \in secret =>
                               connection'[owner[p]] # NoConnection /\ connection'[owner[p]].profile = p
        BY <2>8 DEF BackedInv
      <3>1. /\ p \notin disturbed
            /\ \A u \in AdminRequests :
                 admin[u] # Waiting /\ admin[u].profile = p => admin[u].at # "forgotten"
        BY <2>8
      <3>2. p # admin[q].profile => ~(Live(id) /\ connection[id].profile = p)
        BY <2>8 DEF CrossedBy
      <3>3. p = admin[q].profile /\ admin[q].at = "stored" => p \in secret
        BY <2>8, <3>1 DEF OperationsInv
      <3>4. owner[p] \in Connections
        BY DEF ProfilesInv
      <3>5. /\ \A c \in Connections :
                  Live(c) /\ connection[c].profile = p /\ connection[c].status = "ready" => p \in secret
            /\ p \in secret => Live(owner[p]) /\ connection[owner[p]].profile = p
        BY <3>1 DEF BackedInv
      <3>. QED  BY <2>6, <2>7, <2>8, <3>1, <3>2, <3>3, <3>4, <3>5
    <2>. QED  BY <2>1, <2>2, <2>3, <2>4, <2>5
  <1>7. ASSUME NEW q \in AdminRequests, StoreFailed(q) PROVE ConnectionInv'
    <2>0. /\ admin[q] # Waiting /\ admin[q].at = "storing"
          /\ admin' = [admin EXCEPT ![q] = Waiting]
          /\ connection' = IF Live(admin[q].id)
               THEN [connection EXCEPT ![admin[q].id].status = "error"] ELSE connection
          /\ disturbed' = disturbed \union CrossedBy(q)
          /\ UNCHANGED <<owner, secret, attempt, sent>>
      BY <1>7 DEF StoreFailed, updateProviderConnection
    <2> DEFINE id == admin[q].id
    <2>6. id \in Connections /\ admin[q].profile \in Created /\ owner[admin[q].profile] = id
      BY <2>0 DEF ProfilesInv
    <2>7. /\ connection' = [c \in Connections |-> connection'[c]]
          /\ \A c \in Connections : c # id => connection'[c] = connection[c]
          /\ Live(id) => /\ connection'[id] \in [status : Statuses, profile : Nat]
                         /\ connection'[id] # NoConnection
                         /\ connection'[id].profile = connection[id].profile
                         /\ connection'[id].status = "error"
          /\ ~Live(id) => connection'[id] = NoConnection
      BY <2>0, <2>6, StatusChanges
    <2>8. /\ admin[q] # Waiting /\ admin[q].at = "storing"
          /\ admin' = [u \in AdminRequests |-> IF u = q THEN Waiting ELSE admin[u]]
          /\ disturbed' = disturbed \union CrossedBy(q)
          /\ UNCHANGED <<owner, secret, attempt, sent>>
      BY <2>0 DEF ProfilesInv
    <2>1. ProfilesInv'
      BY <2>6, <2>7, <2>8 DEF CrossedBy, ProfilesInv
    <2>2. AttemptsInv'
      BY <2>6, <2>7, <2>8 DEF CrossedBy, AttemptsInv
    <2>3. OverlapsInv'
      BY <2>6, <2>7, <2>8 DEF CrossedBy, OverlapsInv, ProfilesInv
    <2>4. OperationsInv'
      BY <2>6, <2>7, <2>8 DEF CrossedBy, OperationsInv, OverlapsInv, ProfilesInv
    <2>5. BackedInv'
      <3> SUFFICES ASSUME NEW p \in Created, p \notin disturbed',
                          \A u \in AdminRequests :
                            admin'[u] # Waiting /\ admin'[u].profile = p => admin'[u].at # "forgotten"
                   PROVE  /\ \A c \in Connections :
                               /\ connection'[c] # NoConnection /\ connection'[c].profile = p
                                  /\ connection'[c].status = "ready"
                                  => p \in secret
                          /\ p \in secret =>
                               connection'[owner[p]] # NoConnection /\ connection'[owner[p]].profile = p
        BY <2>8 DEF BackedInv
      <3>1. /\ p \notin disturbed
            /\ \A u \in AdminRequests :
                 admin[u] # Waiting /\ admin[u].profile = p => admin[u].at # "forgotten"
        BY <2>8
      <3>2. p # admin[q].profile => ~(Live(id) /\ connection[id].profile = p)
        BY <2>8 DEF CrossedBy
      <3>3. p = admin[q].profile /\ admin[q].at = "stored" => p \in secret
        BY <2>8, <3>1 DEF OperationsInv
      <3>4. owner[p] \in Connections
        BY DEF ProfilesInv
      <3>5. /\ \A c \in Connections :
                  Live(c) /\ connection[c].profile = p /\ connection[c].status = "ready" => p \in secret
            /\ p \in secret => Live(owner[p]) /\ connection[owner[p]].profile = p
        BY <3>1 DEF BackedInv
      <3>. QED  BY <2>6, <2>7, <2>8, <3>1, <3>2, <3>3, <3>4, <3>5
    <2>. QED  BY <2>1, <2>2, <2>3, <2>4, <2>5
  <1>8. ASSUME NEW q \in AdminRequests, SecretForgotten(q) PROVE ConnectionInv'
    <2>0. /\ admin[q].at = "forgetting" /\ admin[q] # Waiting
          /\ admin' = [admin EXCEPT ![q].at = "forgotten"]
          /\ secret' = secret \ {admin[q].profile}
          /\ UNCHANGED <<connection, owner, attempt, sent, disturbed>>
      BY <1>8 DEF SecretForgotten
    <2>6. /\ admin' = [u \in AdminRequests |-> admin'[u]]
          /\ \A u \in AdminRequests : u # q => admin'[u] = admin[u]
          /\ admin'[q] \in [at : {"forgotten"}, id : Connections, profile : Nat]
          /\ admin'[q] # Waiting
          /\ admin'[q].id = admin[q].id /\ admin'[q].profile = admin[q].profile
      BY <2>0, AdminGoesOn
    <2>7. /\ admin[q].at = "forgetting" /\ admin[q] # Waiting
          /\ secret' = secret \ {admin[q].profile}
          /\ UNCHANGED <<connection, owner, attempt, sent, disturbed>>
      BY <2>0
    <2>1. ProfilesInv'
      BY <2>6, <2>7 DEF ProfilesInv
    <2>2. AttemptsInv'
      BY <2>6, <2>7 DEF AttemptsInv
    <2>3. OverlapsInv'
      BY <2>6, <2>7 DEF OverlapsInv
    <2>4. OperationsInv'
      BY <2>6, <2>7 DEF OperationsInv, OverlapsInv, ProfilesInv
    <2>5. BackedInv'
      <3> SUFFICES ASSUME NEW p \in Created, p \notin disturbed,
                          \A u \in AdminRequests :
                            admin'[u] # Waiting /\ admin'[u].profile = p => admin'[u].at # "forgotten"
                   PROVE  /\ \A c \in Connections :
                               Live(c) /\ connection[c].profile = p /\ connection[c].status = "ready"
                               => p \in secret'
                          /\ p \in secret' => Live(owner[p]) /\ connection[owner[p]].profile = p
        BY <2>7 DEF BackedInv
      <3>1. p # admin[q].profile
        BY <2>0, <2>6
      <3>2. \A u \in AdminRequests :
               admin[u] # Waiting /\ admin[u].profile = p => admin[u].at # "forgotten"
        BY <2>6, <3>1
      <3>3. /\ \A c \in Connections :
                  Live(c) /\ connection[c].profile = p /\ connection[c].status = "ready" => p \in secret
            /\ p \in secret => Live(owner[p]) /\ connection[owner[p]].profile = p
        BY <3>2 DEF BackedInv
      <3>. QED  BY <2>7, <3>1, <3>3
    <2>. QED  BY <2>1, <2>2, <2>3, <2>4, <2>5
  <1>9. ASSUME NEW q \in AdminRequests, deleteProviderConnection(q) PROVE ConnectionInv'
    <2>1. ProfilesInv'
      BY <1>9 DEF deleteProviderConnection, CrossedBy, ProfilesInv
    <2>2. AttemptsInv'
      BY <1>9 DEF deleteProviderConnection, CrossedBy, AttemptsInv
    <2>3. OverlapsInv'
      BY <1>9 DEF deleteProviderConnection, CrossedBy, OverlapsInv, ProfilesInv
    <2>4. OperationsInv'
      BY <1>9 DEF deleteProviderConnection, CrossedBy, OperationsInv, OverlapsInv, ProfilesInv
    <2>5. BackedInv'
      BY <1>9 DEF deleteProviderConnection, CrossedBy, BackedInv, OverlapsInv, OperationsInv,
                  ProfilesInv
    <2>. QED  BY <2>1, <2>2, <2>3, <2>4, <2>5
  <1>10. ASSUME NEW q \in AdminRequests, ForgetFailed(q) PROVE ConnectionInv'
    <2>1. ProfilesInv'
      BY <1>10 DEF ForgetFailed, ProfilesInv
    <2>2. AttemptsInv'
      BY <1>10 DEF ForgetFailed, AttemptsInv
    <2>3. OverlapsInv'
      BY <1>10 DEF ForgetFailed, OverlapsInv, ProfilesInv
    <2>4. OperationsInv'
      BY <1>10 DEF ForgetFailed, OperationsInv, OverlapsInv, ProfilesInv
    <2>5. BackedInv'
      BY <1>10 DEF ForgetFailed, BackedInv, OverlapsInv, OperationsInv, ProfilesInv
    <2>. QED  BY <2>1, <2>2, <2>3, <2>4, <2>5
  <1>11. ASSUME NEW r \in ConnectedRuns, resolve(r) PROVE ConnectionInv'
    <2>1. ProfilesInv'
      BY <1>11 DEF resolve, ProfilesInv
    <2>2. AttemptsInv'
      <3> DEFINE c == attempt[r].id
      <3>1. /\ c \in Connections /\ UNCHANGED <<owner, sent>>
            /\ \A p \in sent[r] : p \in Created /\ owner[p] = c
        BY <1>11 DEF resolve, AttemptsInv
      <3>2. \/ /\ attempt' = [attempt EXCEPT ![r] = [at |-> "failed", id |-> c]]
            \/ /\ Live(c)
               /\ attempt' = [attempt EXCEPT ![r] =
                    [at |-> "bound", id |-> c, profile |-> connection[c].profile, cached |-> FALSE]]
        BY <1>11 DEF resolve
      <3>3. Live(c) => connection[c].profile \in Created /\ owner[connection[c].profile] = c
        BY <3>1 DEF ProfilesInv
      <3>. HIDE DEF c
      <3>. QED  BY <3>1, <3>2, <3>3 DEF AttemptsInv
    <2>3. OverlapsInv'
      BY <1>11 DEF resolve, OverlapsInv, ProfilesInv
    <2>4. OperationsInv'
      BY <1>11 DEF resolve, OperationsInv, OverlapsInv, ProfilesInv
    <2>5. BackedInv'
      BY <1>11 DEF resolve, BackedInv, OverlapsInv, OperationsInv, ProfilesInv
    <2>. QED  BY <2>1, <2>2, <2>3, <2>4, <2>5
  <1>12. ASSUME NEW r \in ConnectedRuns, streamTurn(r) PROVE ConnectionInv'
    <2>1. ProfilesInv'
      BY <1>12 DEF streamTurn, Loads, ProfilesInv
    <2>2. AttemptsInv'
      BY <1>12 DEF streamTurn, Loads, AttemptsInv
    <2>3. OverlapsInv'
      BY <1>12 DEF streamTurn, Loads, OverlapsInv, ProfilesInv
    <2>4. OperationsInv'
      BY <1>12 DEF streamTurn, Loads, OperationsInv, OverlapsInv, ProfilesInv
    <2>5. BackedInv'
      BY <1>12 DEF streamTurn, Loads, BackedInv, OverlapsInv, OperationsInv, ProfilesInv
    <2>. QED  BY <2>1, <2>2, <2>3, <2>4, <2>5
  <1>13. ASSUME NEW r \in ConnectedRuns, Unbind(r) PROVE ConnectionInv'
    <2>1. ProfilesInv'
      BY <1>13 DEF Unbind, ProfilesInv
    <2>2. AttemptsInv'
      BY <1>13 DEF Unbind, AttemptsInv
    <2>3. OverlapsInv'
      BY <1>13 DEF Unbind, OverlapsInv, ProfilesInv
    <2>4. OperationsInv'
      BY <1>13 DEF Unbind, OperationsInv, OverlapsInv, ProfilesInv
    <2>5. BackedInv'
      BY <1>13 DEF Unbind, BackedInv, OverlapsInv, OperationsInv, ProfilesInv
    <2>. QED  BY <2>1, <2>2, <2>3, <2>4, <2>5
  <1>14. CASE AdminDies
    <2>1. ProfilesInv'
      BY <1>14 DEF AdminDies, ProfilesInv
    <2>2. AttemptsInv'
      BY <1>14 DEF AdminDies, AttemptsInv
    <2>3. OverlapsInv'
      BY <1>14 DEF AdminDies, OverlapsInv, ProfilesInv
    <2>4. OperationsInv'
      BY <1>14 DEF AdminDies, OperationsInv, OverlapsInv, ProfilesInv
    <2>5. BackedInv'
      BY <1>14 DEF AdminDies, BackedInv, OverlapsInv, OperationsInv, ProfilesInv
    <2>. QED  BY <2>1, <2>2, <2>3, <2>4, <2>5
  <1>15. CASE UNCHANGED connectionVars
    BY <1>15 DEF connectionVars, ProfilesInv, AttemptsInv, OverlapsInv, OperationsInv, BackedInv
  <1> HIDE DEF ConnectionInv
  <1>. QED
    BY <1>1, <1>2, <1>3, <1>4, <1>5, <1>6, <1>7, <1>8, <1>9, <1>10, <1>11, <1>12, <1>13, <1>14,
       <1>15 DEF ConnectionNext

\* It keeps the promise of the connections.
LEMMA ConnectionKeeps == ConnectionInv => ConnectionsAreBacked
  <1> SUFFICES ASSUME ConnectionInv PROVE ConnectionsAreBacked
    OBVIOUS
  <1>1. RunsKeepTheirConnection
    BY DEF ConnectionInv, AttemptsInv, RunsKeepTheirConnection, Profiles
  <1>2. SecretsFollowRows
    <2> SUFFICES ASSUME NEW p \in Created, p \notin disturbed,
                        ~\E q \in AdminRequests : admin[q] # Waiting /\ admin[q].profile = p
                 PROVE  LET newRow == {c \in Connections : Live(c) /\ connection[c].profile = p}
                        IN  /\ \A c \in newRow : connection[c].status = "ready" => p \in secret
                            /\ p \in secret => newRow # {}
      BY DEF SecretsFollowRows, Created
    <2>1. /\ \A c \in Connections :
                Live(c) /\ connection[c].profile = p /\ connection[c].status = "ready" => p \in secret
          /\ p \in secret => Live(owner[p]) /\ connection[owner[p]].profile = p
      BY DEF ConnectionInv, BackedInv
    <2>2. owner[p] \in Connections
      BY DEF ConnectionInv, ProfilesInv, Created
    <2>. QED  BY <2>1, <2>2
  <1>. QED  BY <1>1, <1>2 DEF ConnectionsAreBacked

-----------------------------------------------------------------------------
(* The admission of runs                                                      *)

RunRow == [key : Keys, agent : Nat \ {0}, workspace : WorkspaceNames, session : Sessions]

\* Sessions have the profile of their runs, and profiles are numbered as they are made.
AdmissionInv ==
  /\ runRows \in Seq(RunRow) /\ AdmissionTypeOK /\ SessionsStayBound

LEMMA AdmissionInitial == AdmissionInit => AdmissionInv
  BY AdmissionAssumption
  DEF AdmissionInit, AdmissionInv, AdmissionTypeOK, SessionsStayBound, RowNumbers

\* One more run: its session has its workspace and its profile, if it had any.
LEMMA AdmitsToSession ==
  ASSUME AdmissionInv, NEW key \in Keys, NEW req \in Requests, CreateOrGetRun(key, req)
  PROVE  AdmissionInv'
  <1> DEFINE given == ProfileFor(req.agent)
             named == IF req.session = Unnamed THEN <<"ses", Len(runRows) + 1>> ELSE req.session
             one == [key |-> key, agent |-> given, workspace |-> req.workspace, session |-> named]
             N == Len(runRows)
  <1>1. /\ N < MaxRows /\ given <= MaxRows /\ MaxRows \in Nat
        /\ Accepts(named, given, req.workspace)
        /\ runRows' = Append(runRows, one)
        /\ profiles' = [profiles EXCEPT ![req.agent] = given]
        /\ profileIds' = IF given > profileIds THEN given ELSE profileIds
        /\ sessions' = [sessions EXCEPT ![named] = given]
    BY AdmissionAssumption DEF CreateOrGetRun
  <1>2. /\ runRows \in Seq(RunRow) /\ N \in Nat /\ DOMAIN runRows = 1 .. N
        /\ profileIds \in Nat /\ profiles \in [AgentNames -> 0 .. profileIds]
        /\ sessions \in [Sessions -> 0 .. profileIds]
        /\ profileIds <= MaxRows
        /\ req.agent \in AgentNames /\ req.workspace \in WorkspaceNames
        /\ req.session \in SessionNames \union {Unnamed}
    <2>1. runRows \in Seq(RunRow) /\ AdmissionTypeOK
      BY DEF AdmissionInv
    <2>2. /\ req.agent \in AgentNames /\ req.workspace \in WorkspaceNames
          /\ req.session \in SessionNames \union {Unnamed}
      BY DEF Requests
    <2>. QED  BY <1>1, <2>1, <2>2 DEF AdmissionTypeOK
  <1>3. /\ given \in Nat \ {0} /\ given <= profileIds + 1
        /\ profiles[req.agent] = 0 \/ profiles[req.agent] = given
    BY <1>2 DEF ProfileFor
  <1>4. named \in Sessions
    BY <1>1, <1>2 DEF Sessions
  <1>5. one \in RunRow /\ one.session = named /\ one.agent = given /\ one.workspace = req.workspace
    BY <1>2, <1>3, <1>4 DEF RunRow
  <1> HIDE DEF given, named, one
  <1>6. /\ runRows' \in Seq(RunRow) /\ Len(runRows') = N + 1 /\ DOMAIN runRows' = 1 .. N + 1
        /\ runRows'[N + 1] = one
        /\ \A n \in 1 .. N : runRows'[n] = runRows[n]
    BY <1>1, <1>2, <1>5
  <1>7. \A n \in 1 .. N : runRows[n].session \in Sessions /\ runRows[n].agent \in Nat \ {0}
    <2>1. \A x \in RunRow : x.session \in Sessions /\ x.agent \in Nat \ {0}
      BY DEF RunRow
    <2>. QED  BY <1>2, <2>1
  <1>8. AdmissionTypeOK'
    BY <1>1, <1>2, <1>3, <1>4, <1>6 DEF AdmissionTypeOK
  <1>9. /\ \A m, n \in 1 .. N : runRows[m].session = runRows[n].session =>
             runRows[m].workspace = runRows[n].workspace /\ runRows[m].agent = runRows[n].agent
        /\ \A n \in 1 .. N : /\ sessions[runRows[n].session] = runRows[n].agent
                             /\ \E name \in AgentNames : profiles[name] = runRows[n].agent
    BY <1>2 DEF AdmissionInv, SessionsStayBound, RowNumbers
  <1>10. \A n \in 1 .. N : runRows[n].session = named =>
           runRows[n].agent = given /\ runRows[n].workspace = req.workspace
    <2>1. sessions[named] \in {0, given} /\ BoundTo(named) \subseteq {req.workspace}
      BY <1>1 DEF Accepts
    <2>2. ASSUME NEW n \in 1 .. N, runRows[n].session = named
          PROVE  runRows[n].workspace \in BoundTo(named)
      BY <1>2, <2>2 DEF BoundTo, RowNumbers
    <2>. QED  BY <1>7, <1>9, <2>1, <2>2
  <1>11. \A n \in 1 .. N + 1 : n \in 1 .. N \/ runRows'[n] = one
    BY <1>2, <1>6
  <1>12. \A m, n \in 1 .. N + 1 : runRows'[m].session = runRows'[n].session =>
           runRows'[m].workspace = runRows'[n].workspace /\ runRows'[m].agent = runRows'[n].agent
    BY <1>5, <1>6, <1>9, <1>10, <1>11
  <1>13. \A n \in 1 .. N + 1 : sessions'[runRows'[n].session] = runRows'[n].agent
    BY <1>1, <1>2, <1>4, <1>5, <1>6, <1>7, <1>9, <1>10, <1>11
  <1>14. \A n \in 1 .. N + 1 : \E name \in AgentNames : profiles'[name] = runRows'[n].agent
    <2>1. profiles'[req.agent] = given
      BY <1>1, <1>2
    <2>2. \A name \in AgentNames : profiles[name] # 0 => profiles'[name] = profiles[name]
      BY <1>1, <1>2, <1>3
    <2>3. ASSUME NEW n \in 1 .. N
          PROVE  \E name \in AgentNames : profiles'[name] = runRows'[n].agent
      <3>1. PICK name \in AgentNames : profiles[name] = runRows[n].agent
        BY <1>9
      <3>. QED  BY <1>6, <1>7, <2>2, <3>1
    <2>. QED  BY <1>2, <1>5, <1>11, <2>1, <2>3
  <1>. QED
    BY <1>6, <1>8, <1>12, <1>13, <1>14 DEF AdmissionInv, SessionsStayBound, RowNumbers

\* Admissions, profiles that are made and deleted.
LEMMA AdmissionStep ==
  ASSUME AdmissionInv, [AdmissionNext]_admissionVars
  PROVE  AdmissionInv'
  <1>0. /\ runRows \in Seq(RunRow) /\ profileIds \in Nat /\ MaxRows \in Nat
        /\ Len(runRows) \in 0 .. MaxRows /\ profileIds <= MaxRows
        /\ profiles \in [AgentNames -> 0 .. profileIds]
        /\ sessions \in [Sessions -> 0 .. profileIds]
    BY AdmissionAssumption DEF AdmissionInv, AdmissionTypeOK
  <1>1. CASE UNCHANGED admissionVars
    BY <1>1 DEF admissionVars, AdmissionInv, AdmissionTypeOK, SessionsStayBound, RowNumbers,
                Sessions
  <1>2. ASSUME NEW name \in AgentNames, CreateAgentProfile(name)
        PROVE  AdmissionInv'
    <2>1. AdmissionTypeOK'
      BY <1>0, <1>2 DEF CreateAgentProfile, AdmissionTypeOK
    <2>2. \A n \in RowNumbers : runRows[n].agent # 0
      <3>1. \A x \in RunRow : x.agent # 0
        BY DEF RunRow
      <3>. QED  BY <1>0, <3>1 DEF RowNumbers
    <2>3. UNCHANGED <<runRows, sessions>> /\ \A a \in AgentNames : profiles[a] # 0 => profiles'[a] = profiles[a]
      BY <1>0, <1>2 DEF CreateAgentProfile
    <2>4. SessionsStayBound'
      <3>1. ASSUME NEW n \in RowNumbers
            PROVE  \E a \in AgentNames : profiles'[a] = runRows[n].agent
        <4>1. PICK a \in AgentNames : profiles[a] = runRows[n].agent
          BY DEF AdmissionInv, SessionsStayBound
        <4>. QED  BY <2>2, <2>3, <4>1
      <3>. QED  BY <2>3, <3>1 DEF AdmissionInv, SessionsStayBound, RowNumbers
    <2>. QED  BY <1>0, <2>1, <2>3, <2>4 DEF AdmissionInv
  <1>3. ASSUME NEW name \in AgentNames, DeleteAgentProfile(name)
        PROVE  AdmissionInv'
    <2>1. AdmissionTypeOK'
      BY <1>0, <1>3 DEF DeleteAgentProfile, AdmissionTypeOK
    <2>2. /\ UNCHANGED <<runRows, sessions>> /\ \A a \in AgentNames \ {name} : profiles'[a] = profiles[a]
          /\ \A n \in RowNumbers : runRows[n].agent # profiles[name]
      BY <1>0, <1>3 DEF DeleteAgentProfile
    <2>3. SessionsStayBound'
      <3>1. ASSUME NEW n \in RowNumbers
            PROVE  \E a \in AgentNames : profiles'[a] = runRows[n].agent
        <4>1. PICK a \in AgentNames : profiles[a] = runRows[n].agent
          BY DEF AdmissionInv, SessionsStayBound
        <4>. QED  BY <2>2, <4>1
      <3>. QED  BY <2>2, <3>1 DEF AdmissionInv, SessionsStayBound, RowNumbers
    <2>. QED  BY <1>0, <2>1, <2>2, <2>3 DEF AdmissionInv
  <1>. QED  BY <1>1, <1>2, <1>3, AdmitsToSession DEF AdmissionNext

-----------------------------------------------------------------------------
(* A request on its way through the Gateway and the Manager                   *)

\* What a call may do was compared with the binding of its token before it is made.
RoutesInv ==
  call.at # "none" =>
    /\ \A f \in {"route", "bearer", "run", "at", "outcome", "seen"} : f \in DOMAIN call
    /\ call.route \in Routes /\ call.run \in ServedRuns
    /\ call.at = "naming" => call.route \in ByName
    /\ call.at \in {"asking", "found"} => call.route \in ByName \union ByRun
    /\ call.at = "binding" => call.route = "create"
    /\ call.at = "calling" => call.route \in OwnerWide \/ ownsRun(call.run, call.bearer)
    /\ call.route = "create" => Origin[call.run].owner = call.bearer.owner
    /\ call.at = "acted" =>
         IF call.route \in OwnerWide THEN \A run \in call.seen : samePrincipal(run, call.bearer)
         ELSE /\ ownsRun(call.run, call.bearer)
              /\ call.route # "children" => call.seen = {call.run}
    /\ call.at = "answered" /\ call.outcome = "done" =>
         IF call.route \in OwnerWide THEN \A run \in call.seen : samePrincipal(run, call.bearer)
         ELSE /\ ownsRun(call.run, call.bearer)
              /\ \A run \in call.seen : ownsRun(run, call.bearer)

LEMMA RoutesInitial == RoutesInit => RoutesInv
  BY DEF RoutesInit, RoutesInv

\* The binding is compared before a call acts, and what is shown is of the bearer.
LEMMA RoutesStep ==
  ASSUME RoutesInv, [RoutesNext]_routingVars
  PROVE  RoutesInv'
  <1>1. CASE UNCHANGED call
    BY <1>1 DEF RoutesInv
  <1>2. ASSUME NEW bearer \in Bearers, NEW route \in Routes, NEW run \in ServedRuns,
               Ask(bearer, route, run)
        PROVE  RoutesInv'
    BY <1>2 DEF Ask, RoutesInv, FirstCall, Routes, ByName, ByRun, OwnerWide
  <1>3. CASE BindRequest
    BY <1>3 DEF BindRequest, Answer, RoutesInv, ownsRun, OwnerWide
  <1>4. CASE CheckOwnership
    <2>1. call.at = "found" /\ call.route \notin OwnerWide
      BY <1>4 DEF CheckOwnership, RoutesInv, OwnerWide, ByName, ByRun
    <2>2. CASE ~ownsRun(call.run, call.bearer)
      BY <1>4, <2>2 DEF CheckOwnership, Answer, RoutesInv
    <2>3. CASE ownsRun(call.run, call.bearer) /\ call.route \in {"read", "download"}
      <3>1. call' = [call EXCEPT !.at = "answered", !.outcome = "done", !.seen = {call.run}]
        BY <1>4, <2>3 DEF CheckOwnership, Answer
      <3>. QED  BY <2>1, <2>3, <3>1 DEF RoutesInv
    <2>4. CASE ownsRun(call.run, call.bearer) /\ call.route \notin {"read", "download"}
      BY <1>4, <2>1, <2>4 DEF CheckOwnership, RoutesInv
    <2>. QED  BY <2>2, <2>3, <2>4
  <1>5. CASE PassAnswerOn
    BY <1>5 DEF PassAnswerOn, Answer, ShownOf, RoutesInv, OwnerWide
  <1>6. CASE ClientReads
    BY <1>6 DEF ClientReads, RoutesInv
  <1>7. CASE ManagerUnreachable
    BY <1>7 DEF ManagerUnreachable, Answer, RoutesInv
  <1>8. CASE GetNamed
    BY <1>8 DEF GetNamed, Answer, RoutesInv
  <1>9. CASE GetRun
    BY <1>9 DEF GetRun, Answer, RoutesInv
  <1>10. CASE Call
    <2>1. CASE call.route \in {"create", "list"} \/ OwnerHas(call.run)
      <3>1. call' = [call EXCEPT !.at = "acted", !.outcome = OutcomeOf(call.run), !.seen = SeenBy(call.run)]
        BY <1>10, <2>1 DEF Call
      <3>2. call.route # "children" /\ call.route # "list" => SeenBy(call.run) = {call.run}
        BY DEF SeenBy
      <3>3. call.route = "list" => SeenBy(call.run) = OwnedRows
        BY DEF SeenBy
      <3>4. \A r \in OwnedRows : samePrincipal(r, call.bearer)
        BY DEF OwnedRows, OwnerHas
      <3>5. OwnerHas(call.run) => samePrincipal(call.run, call.bearer)
        BY DEF OwnerHas
      <3>6. call.at = "calling"
        BY <1>10 DEF Call
      <3>. QED
        BY <2>1, <3>1, <3>2, <3>3, <3>4, <3>5, <3>6 DEF RoutesInv, OwnerWide, ownsRun,
                                                        samePrincipal
    <2>2. CASE ~(call.route \in {"create", "list"} \/ OwnerHas(call.run))
      BY <1>10, <2>2 DEF Call, Answer, RoutesInv
    <2>. QED  BY <2>1, <2>2
  <1>. QED
    BY <1>1, <1>2, <1>3, <1>4, <1>5, <1>6, <1>7, <1>8, <1>9, <1>10
    DEF RoutesNext, routingVars, SpawnsChild, Starts, AsksApproval, StopsWaiting, EndsRun,
        Become

LEMMA RoutesInvSuffices == RoutesInv => StaysWithinBinding
  BY DEF RoutesInv, StaysWithinBinding, OwnerWide

-----------------------------------------------------------------------------
(* The rows of an older database                                              *)

\* What is known of the rows at the start.
OriginalInv ==
  /\ \A r \in OldRuns : /\ original.runs[r].user \in UserIds /\ original.runs[r].key = ClientKeys[r]
                        /\ original.runs[r].session <=> original.runs[r].user \in original.sessions
  /\ \A m \in original.messages :
       /\ m.run \in OldRuns /\ m.at \in Nat
       /\ m.session = original.runs[m.run].user /\ m.session \in original.sessions
       /\ m = [session |-> m.session, run |-> m.run, at |-> m.at, sequence |-> 0]
  /\ \A m, p \in original.messages : m.run = p.run => m = p
  /\ original.leases = 1

RowFields == {"user", "session", "key", "cost", "refs", "reported"}
DbFields  == {"version", "profiles", "workspaces", "sessions", "runs", "messages", "leases", "approvals"}

DbShape ==
  /\ DOMAIN db = DbFields /\ DOMAIN db.runs = OldRuns
  /\ \A r \in OldRuns : DOMAIN db.runs[r] = RowFields

\* What each migration has made of the rows, once it was applied.
OldRowsInv ==
  \A r \in OldRuns :
    LET run == db.runs[r]
        old == original.runs[r]
    IN
    /\ run.user = old.user /\ run.session = old.session
    /\ run.key = IF db.version < 2 THEN old.key ELSE scopedIdempotencyKey(old.user, old.key)
    /\ db.version >= 3 => run.refs = [k \in 1 .. (IF run.session THEN 3 ELSE 2) |-> run.user]
    /\ db.version >= 6 => run.reported = WasReported(run.cost)

Numbered == {[m EXCEPT !.sequence = NumberOf(original, m)] : m \in original.messages}

RowsInv ==
  /\ db.version < 3 =>
       db.sessions = original.sessions /\ db.workspaces = original.workspaces /\ db.leases = original.leases
  /\ db.messages = IF db.version < 4 THEN original.messages ELSE Numbered
  /\ db.version >= 3 => \A u \in OwnersOf(db) : u \in DOMAIN db.leases /\ db.leases[u] = original.leases
  /\ db.version >= 5 => \A r \in OldRuns : db.approvals[r] # "PENDING"

\* A migration is applied after those before it.
OpenersInv ==
  /\ db.version \in 1 .. 6
  /\ opener \in [Openers -> {Unopened, [at |-> "open"]} \union [at : {"migrating", "writing"}, next : 2 .. 7]]
  /\ \A p \in Openers : opener[p].at \in {"migrating", "writing"} => opener[p].next <= db.version + 1
  /\ \A p \in Openers : opener[p].at = "writing" => opener[p].next <= 6

MigrationInv == OriginalInv /\ DbShape /\ OldRowsInv /\ RowsInv /\ OpenersInv

\* What stands where in a key that was put together.
LEMMA KeyParts ==
  ASSUME NEW S, NEW two \in Seq(S), NEW u \in Seq(S), NEW one \in Seq(S), NEW k \in Seq(S),
         Len(two) = 2, Len(one) = 1
  PROVE  LET v == two \o u \o one \o k IN
         /\ v[1] = two[1] /\ v[2] = two[2] /\ v[Len(u) + 3] = one[1]
         /\ SubSeq(v, Len(u) + 4, Len(v)) = k
  <1>a. PICK n \in Nat : n = Len(u)
    OBVIOUS
  <1>b. PICK head : head = two \o u
    OBVIOUS
  <1>c. PICK front : front = head \o one
    OBVIOUS
  <1>d. PICK v : v = front \o k
    OBVIOUS
  <1>1. Len(k) \in Nat
    OBVIOUS
  <1>2. head \in Seq(S) /\ Len(head) = 2 + n /\ head[1] = two[1] /\ head[2] = two[2]
    <2>1. /\ two \o u \in Seq(S) /\ Len(two \o u) = Len(two) + Len(u)
          /\ \A i \in 1 .. Len(two) + Len(u) :
               (two \o u)[i] = IF i <= Len(two) THEN two[i] ELSE u[i - Len(two)]
      BY ConcatProperties
    <2>2. Len(two) + Len(u) = 2 + n /\ \A i \in {1, 2} : i \in 1 .. 2 + n /\ i <= 2
      BY <1>a
    <2>. QED  BY <1>b, <2>1, <2>2
  <1>3. /\ front \in Seq(S) /\ Len(front) = n + 3
        /\ front[1] = two[1] /\ front[2] = two[2] /\ front[n + 3] = one[1]
    <2>1. /\ front \in Seq(S) /\ Len(front) = Len(head) + Len(one)
          /\ \A i \in 1 .. Len(head) + Len(one) :
               front[i] = IF i <= Len(head) THEN head[i] ELSE one[i - Len(head)]
      <3>1. /\ head \o one \in Seq(S) /\ Len(head \o one) = Len(head) + Len(one)
            /\ \A i \in 1 .. Len(head) + Len(one) :
                 (head \o one)[i] = IF i <= Len(head) THEN head[i] ELSE one[i - Len(head)]
        BY <1>2, ConcatProperties
      <3>. QED  BY <1>c, <3>1
    <2>2. Len(head) + Len(one) = n + 3 /\ \A i \in {1, 2, n + 3} : i \in 1 .. n + 3
      BY <1>2
    <2>3. n + 3 - Len(head) = 1 /\ ~(n + 3 <= Len(head)) /\ 1 <= Len(head) /\ 2 <= Len(head)
      BY <1>2
    <2>. QED  BY <1>2, <2>1, <2>2, <2>3
  <1>4. /\ v \in Seq(S) /\ Len(v) = n + 3 + Len(k)
        /\ v[1] = front[1] /\ v[2] = front[2] /\ v[n + 3] = front[n + 3]
    <2>1. /\ v \in Seq(S) /\ Len(v) = Len(front) + Len(k)
          /\ \A i \in 1 .. Len(front) + Len(k) :
               v[i] = IF i <= Len(front) THEN front[i] ELSE k[i - Len(front)]
      <3>0. front \in Seq(S)
        BY <1>3
      <3>1. /\ front \o k \in Seq(S) /\ Len(front \o k) = Len(front) + Len(k)
            /\ \A i \in 1 .. Len(front) + Len(k) :
                 (front \o k)[i] = IF i <= Len(front) THEN front[i] ELSE k[i - Len(front)]
        BY <3>0, ConcatProperties
      <3>. QED  BY <1>d, <3>1
    <2>2. \A i \in {1, 2, n + 3} : i \in 1 .. n + 3 + Len(k) /\ i <= n + 3
      BY <1>1
    <2>. QED  BY <1>3, <2>1, <2>2
  <1>5. SubSeq(v, n + 4, Len(v)) = k
    <2>1. CASE Len(k) = 0
      <3>1. SubSeq(v, n + 4, Len(v)) = <<>>
        BY <1>4, <2>1, SubSeqEmpty
      <3>2. k = <<>>
        BY <2>1, EmptySeq
      <3>. QED  BY <3>1, <3>2
    <2>2. CASE Len(k) # 0
      <3>1. PICK i \in Nat : i = n + 4
        OBVIOUS
      <3>2. PICK j \in Nat : j = Len(v)
        BY <1>1, <1>4
      <3>3. /\ i \in Len(front) + 1 .. Len(front) + Len(k) /\ j \in Len(front) + 1 .. Len(front) + Len(k)
            /\ i - Len(front) = 1 /\ j - Len(front) = Len(k)
        BY <1>1, <1>3, <1>4, <2>2, <3>1, <3>2
      <3>4. front \in Seq(S)
        BY <1>3
      <3>5. SubSeq(front \o k, i, j) = SubSeq(k, i - Len(front), j - Len(front))
        BY <3>3, <3>4, SubSeqOfConcat2
      <3>6. SubSeq(k, 1, Len(k)) = k
        BY SubSeqFull
      <3>7. SubSeq(v, i, j) = k
        BY <1>d, <3>3, <3>5, <3>6
      <3>. QED  BY <3>1, <3>2, <3>7
    <2>. QED  BY <2>1, <2>2
  <1>6. two \o u \o one \o k = v
    BY <1>b, <1>c, <1>d
  <1>. QED  BY <1>a, <1>2, <1>3, <1>4, <1>5, <1>6

\* A key that was scoped is the client's again, whatever it and the user's id contain.
LEMMA KeysReturn ==
  ASSUME NEW u \in UserIds, NEW k \in Seq(STRING)
  PROVE  publicIdempotencyKey(scopedIdempotencyKey(u, k)) = k
  <1>1. u \in Seq(STRING) /\ Len(u) \in 1 .. 3
    BY DEF UserIds
  <1>2. PICK n \in 1 .. 3 : Len(u) = n
    BY <1>1
  <1>3. PICK digit : digit = Digits[n]
    OBVIOUS
  <1>4. PICK S : S = STRING \union {digit, ":"}
    OBVIOUS
  <1>5. PICK two \in Seq(S) : two = <<digit, ":">>
    <2>1. \A c, d \in S : <<c, d>> \in Seq(S)
      OBVIOUS
    <2>. QED  BY <1>4, <2>1
  <1>6. Len(two) = 2 /\ two[1] = digit /\ two[2] = ":"
    BY <1>5
  <1>7. PICK one \in Seq(S) : one = <<":">>
    <2>1. \A c \in S : <<c>> \in Seq(S)
      OBVIOUS
    <2>. QED  BY <1>4, <2>1
  <1>8. Len(one) = 1 /\ one[1] = ":"
    BY <1>7
  <1>9. u \in Seq(S) /\ k \in Seq(S)
    BY <1>1, <1>4, SeqMonotonic
  <1>10. PICK v : v = two \o u \o one \o k
    OBVIOUS
  <1>11. /\ v[1] = digit /\ v[2] = ":" /\ v[n + 3] = ":"
         /\ SubSeq(v, n + 4, Len(v)) = k
    <2>1. LET w == two \o u \o one \o k IN
          /\ w[1] = two[1] /\ w[2] = two[2] /\ w[Len(u) + 3] = one[1]
          /\ SubSeq(w, Len(u) + 4, Len(w)) = k
      BY <1>5, <1>6, <1>7, <1>8, <1>9, KeyParts
    <2>. QED  BY <1>2, <1>6, <1>8, <1>10, <2>1
  <1>12. scopedIdempotencyKey(u, k) = v
    BY <1>2, <1>3, <1>5, <1>7, <1>10 DEF scopedIdempotencyKey
  <1>13. (CHOOSE i \in DOMAIN Digits : Digits[i] = v[1]) = n
    <2>1. DOMAIN Digits = {1, 2, 3} /\ \A i \in {1, 2, 3} : Digits[i] = v[1] <=> i = n
      BY <1>2, <1>3, <1>11 DEF Digits
    <2>. QED  BY <1>2, <2>1
  <1>. QED  BY <1>11, <1>12, <1>13 DEF publicIdempotencyKey

\* There are finitely many old rows, and their numbers order them.
LEMMA OldRunsAreNumbers == IsFiniteSet(OldRuns) /\ OldRuns \subseteq Nat \ {0}
  <1>1. ClientKeys \in Seq(Seq(STRING)) /\ OldRuns \subseteq DOMAIN ClientKeys
    BY MigrationAssumption
  <1>2. DOMAIN ClientKeys = 1 .. Len(ClientKeys) /\ Len(ClientKeys) \in Nat
    BY <1>1
  <1>3. IsFiniteSet(1 .. Len(ClientKeys))
    BY <1>2, FS_Interval
  <1>4. IsFiniteSet(OldRuns)
    BY <1>1, <1>2, <1>3, FS_Subset
  <1>. QED  BY <1>1, <1>2, <1>4

\* A message has a number of its own in its session, behind those that are older.
LEMMA NumbersOrder ==
  ASSUME OriginalInv, NEW m \in original.messages, NEW p \in original.messages,
         m # p, m.session = p.session
  PROVE  /\ NumberOf(original, m) # NumberOf(original, p)
         /\ m.at < p.at => NumberOf(original, m) < NumberOf(original, p)
  <1> DEFINE Before(x) == {prior \in original.messages :
               prior.session = x.session /\ (prior.at < x.at \/ (prior.at = x.at /\ prior.run <= x.run))}
  <1>1. /\ \A x \in original.messages : x.run \in OldRuns /\ x.run \in Nat /\ x.at \in Nat
        /\ \A x, y \in original.messages : x.run = y.run => x = y
    BY OldRunsAreNumbers DEF OriginalInv
  <1>2. IsFiniteSet(original.messages)
    <2> DEFINE f == [x \in original.messages |-> x.run]
               R == {x.run : x \in original.messages}
    <2>1. IsFiniteSet(R)
      <3>1. R \subseteq OldRuns
        BY <1>1
      <3>. QED  BY <3>1, OldRunsAreNumbers, FS_Subset
    <2>2. f \in Injection(original.messages, R)
      BY <1>1 DEF Injection, IsInjective
    <2> HIDE DEF R, f
    <2>. QED  BY <2>1, <2>2, FS_Injection
  <1>3. \A x \in original.messages : IsFiniteSet(Before(x)) /\ Cardinality(Before(x)) \in Nat
    <2> SUFFICES ASSUME NEW x \in original.messages
                 PROVE  IsFiniteSet(Before(x)) /\ Cardinality(Before(x)) \in Nat
      OBVIOUS
    <2>1. Before(x) \subseteq original.messages
      OBVIOUS
    <2> HIDE DEF Before
    <2>. QED  BY <1>2, <2>1, FS_Subset, FS_CardinalityType
  <1>4. ASSUME NEW x \in original.messages, NEW y \in original.messages, x # y, x.session = y.session,
               x.at < y.at \/ (x.at = y.at /\ x.run <= y.run)
        PROVE  Cardinality(Before(x)) < Cardinality(Before(y))
    <2>1. x.run # y.run /\ x.run \in Nat /\ y.run \in Nat /\ x.at \in Nat /\ y.at \in Nat
      BY <1>1, <1>4
    <2>2. Before(x) \subseteq Before(y)
      <3>1. ASSUME NEW z \in original.messages, z.session = x.session,
                   z.at < x.at \/ (z.at = x.at /\ z.run <= x.run)
            PROVE  z.session = y.session /\ (z.at < y.at \/ (z.at = y.at /\ z.run <= y.run))
        <4>1. z.run \in Nat /\ z.at \in Nat
          BY <1>1
        <4>. QED  BY <1>4, <2>1, <3>1, <4>1
      <3>. QED  BY <3>1
    <2>3. y \in Before(y)
      BY <1>1
    <2>4. y \notin Before(x)
      BY <1>4, <2>1
    <2>5. IsFiniteSet(Before(y)) /\ IsFiniteSet(Before(x))
      BY <1>3
    <2> HIDE DEF Before
    <2>6. PICK S \in {Before(x)}, T \in {Before(y)} : TRUE
      OBVIOUS
    <2>7. Cardinality(S) <= Cardinality(T) /\ Cardinality(S) # Cardinality(T)
      BY <2>2, <2>3, <2>4, <2>5, FS_Subset
    <2>8. Cardinality(S) \in Nat /\ Cardinality(T) \in Nat
      BY <2>5, FS_CardinalityType
    <2>. QED  BY <2>7, <2>8
  <1>5. \A x \in original.messages : NumberOf(original, x) = Cardinality(Before(x))
    BY DEF NumberOf
  <1>6. CASE m.at < p.at \/ (m.at = p.at /\ m.run <= p.run)
    <2>1. Cardinality(Before(m)) < Cardinality(Before(p))
      BY <1>4, <1>6
    <2>2. Cardinality(Before(m)) \in Nat /\ Cardinality(Before(p)) \in Nat
      BY <1>3
    <2> HIDE DEF Before
    <2>. QED  BY <1>5, <2>1, <2>2
  <1>7. CASE ~(m.at < p.at \/ (m.at = p.at /\ m.run <= p.run))
    <2>1. /\ m.run \in Nat /\ p.run \in Nat /\ m.at \in Nat /\ p.at \in Nat
      BY <1>1
    <2>2. (p.at < m.at \/ (p.at = m.at /\ p.run <= m.run)) /\ ~(m.at < p.at)
      BY <1>7, <2>1
    <2>3. Cardinality(Before(p)) < Cardinality(Before(m))
      BY <1>4, <2>2
    <2>4. Cardinality(Before(m)) \in Nat /\ Cardinality(Before(p)) \in Nat
      BY <1>3
    <2> HIDE DEF Before
    <2>. QED  BY <1>5, <2>2, <2>3, <2>4
  <1>. QED  BY <1>6, <1>7


\* The migrations by their numbers.
LEMMA MigrationsByNumber ==
  /\ DOMAIN Registry = 1 .. 6
  /\ \A d : /\ migration(Registry[2], d) = ScopeKeys(d)
            /\ migration(Registry[3], d) = ScopeOwners(d)
            /\ migration(Registry[4], d) = NumberMessages(d)
            /\ migration(Registry[5], d) = ExpireApprovals(d)
            /\ migration(Registry[6], d) = MarkUsage(d)
  BY DEF Registry, migration

\* A row that a migration writes beside what it changes in it.
SameRowBut(new, old, fields) ==
  DOMAIN new = RowFields /\ \A f \in RowFields \ fields : new[f] = old[f]

\* A migration leaves the tables alone that it does not name.
SameTablesBut(tables, n) ==
  /\ DOMAIN db' = DbFields /\ db'.version = n
  /\ \A f \in DbFields : f \notin tables /\ f # "version" => db'[f] = db[f]

LEMMA KeysMigrated ==
  ASSUME OriginalInv, DbShape, OldRowsInv, RowsInv, original' = original,
         db.version = 1, db' = [ScopeKeys(db) EXCEPT !.version = 2]
  PROVE  DbShape' /\ OldRowsInv' /\ RowsInv'
  <1>1. SameTablesBut({"runs"}, 2) /\ DOMAIN db'.runs = OldRuns
    BY DEF SameTablesBut, ScopeKeys, DbShape, DbFields
  <1>2. \A r \in OldRuns : /\ SameRowBut(db'.runs[r], db.runs[r], {"key"})
                           /\ db'.runs[r].key = scopedIdempotencyKey(db.runs[r].user, db.runs[r].key)
    BY DEF SameRowBut, ScopeKeys, DbShape, DbFields, RowFields
  <1>3. DbShape'
    BY <1>1, <1>2 DEF DbShape, SameTablesBut, SameRowBut
  <1>4. OldRowsInv'
    BY <1>1, <1>2 DEF OldRowsInv, SameTablesBut, SameRowBut, RowFields
  <1>5. RowsInv'
    BY <1>1 DEF RowsInv, SameTablesBut, DbFields
  <1>. QED  BY <1>3, <1>4, <1>5

\* The references of a run are its owner, once the tables have what they resolve to.
LEMMA OwnerRefs ==
  ASSUME NEW u
  PROVE  <<u, u>> \o <<u>> = [k \in 1 .. 3 |-> u] /\ <<u, u>> \o <<>> = [k \in 1 .. 2 |-> u]
  OBVIOUS

LEMMA OwnersMigrated ==
  ASSUME OriginalInv, DbShape, OldRowsInv, RowsInv, original' = original,
         db.version = 2, db' = [ScopeOwners(db) EXCEPT !.version = 3]
  PROVE  DbShape' /\ OldRowsInv' /\ RowsInv'
  <1> DEFINE owning  == db.profiles \union OwnersOf(db)
             working == db.workspaces \union OwnersOf(db)
             kept    == (db.sessions \intersect owning)
                             \union {db.runs[r].user : r \in {q \in OldRuns : db.runs[q].session}}
  <1>1. /\ SameTablesBut({"runs", "profiles", "workspaces", "sessions", "messages", "leases"}, 3)
        /\ DOMAIN db'.runs = OldRuns
        /\ db'.messages = {m \in db.messages : m.session \in kept}
        /\ db'.leases = [u \in working |-> db.leases]
    BY DEF SameTablesBut, ScopeOwners, ScopedLeases, DbShape, DbFields
  <1>2. \A r \in OldRuns :
          /\ SameRowBut(db'.runs[r], db.runs[r], {"refs"})
          /\ db'.runs[r].refs = <<Resolves(db.runs[r].user, owning), Resolves(db.runs[r].user, working)>>
               \o (IF db.runs[r].session THEN <<Resolves(db.runs[r].user, kept)>> ELSE <<>>)
    BY DEF SameRowBut, ScopeOwners, DbShape, DbFields, RowFields
  <1>3. \A r \in OldRuns : /\ Resolves(db.runs[r].user, owning) = db.runs[r].user
                           /\ Resolves(db.runs[r].user, working) = db.runs[r].user
                           /\ db.runs[r].session => Resolves(db.runs[r].user, kept) = db.runs[r].user
    BY DEF Resolves, OwnersOf
  <1>4. \A r \in OldRuns : db'.runs[r].refs = [k \in 1 .. (IF db.runs[r].session THEN 3 ELSE 2) |-> db.runs[r].user]
    <2> SUFFICES ASSUME NEW r \in OldRuns
                 PROVE  db'.runs[r].refs = [k \in 1 .. (IF db.runs[r].session THEN 3 ELSE 2) |-> db.runs[r].user]
      OBVIOUS
    <2>1. PICK u : u = db.runs[r].user
      OBVIOUS
    <2>2. CASE db.runs[r].session
      <3>1. db'.runs[r].refs = <<u, u>> \o <<u>>
        BY <1>2, <1>3, <2>1, <2>2
      <3>2. <<u, u>> \o <<u>> = [k \in 1 .. 3 |-> u]
        BY OwnerRefs
      <3>. QED  BY <2>1, <2>2, <3>1, <3>2
    <2>3. CASE ~db.runs[r].session
      <3>1. db'.runs[r].refs = <<u, u>> \o <<>>
        BY <1>2, <1>3, <2>1, <2>3
      <3>2. <<u, u>> \o <<>> = [k \in 1 .. 2 |-> u]
        BY OwnerRefs
      <3>. QED  BY <2>1, <2>3, <3>1, <3>2
    <2>. QED  BY <2>2, <2>3
  <1>5. \A m \in db.messages : m.session \in kept
    <2>1. db.messages = original.messages
      BY DEF RowsInv
    <2>2. \A m \in original.messages : m.run \in OldRuns /\ m.session = db.runs[m.run].user /\ db.runs[m.run].session
      BY DEF OriginalInv, OldRowsInv
    <2>. QED  BY <2>1, <2>2
  <1> HIDE DEF owning, kept
  <1>6. DbShape'
    BY <1>1, <1>2 DEF DbShape, SameTablesBut, SameRowBut
  <1>7. OldRowsInv'
    <2> SUFFICES ASSUME NEW r \in OldRuns
                 PROVE  LET run == db'.runs[r]
                            old == original.runs[r]
                        IN /\ run.user = old.user /\ run.session = old.session
                           /\ run.key = scopedIdempotencyKey(old.user, old.key)
                           /\ run.refs = [k \in 1 .. (IF run.session THEN 3 ELSE 2) |-> run.user]
      BY <1>1 DEF OldRowsInv, SameTablesBut
    <2>1. /\ db'.runs[r].user = db.runs[r].user /\ db'.runs[r].session = db.runs[r].session
          /\ db'.runs[r].key = db.runs[r].key
      BY <1>2 DEF SameRowBut, RowFields
    <2>2. /\ db.runs[r].user = original.runs[r].user /\ db.runs[r].session = original.runs[r].session
          /\ db.runs[r].key = scopedIdempotencyKey(original.runs[r].user, original.runs[r].key)
      BY DEF OldRowsInv
    <2>. QED  BY <1>4, <2>1, <2>2
  <1>8. RowsInv'
    <2>1. db'.messages = original.messages
      BY <1>1, <1>5 DEF RowsInv
    <2>2. OwnersOf(db') = OwnersOf(db)
      <3>1. \A r \in OldRuns : db'.runs[r].user = db.runs[r].user
        BY <1>2 DEF SameRowBut, RowFields
      <3>. QED  BY <3>1 DEF OwnersOf
    <2>3. \A u \in OwnersOf(db) : u \in working /\ db.leases = original.leases
      BY DEF RowsInv
    <2> HIDE DEF working
    <2>. QED  BY <1>1, <2>1, <2>2, <2>3 DEF RowsInv, SameTablesBut
  <1>. QED  BY <1>6, <1>7, <1>8

LEMMA MessagesMigrated ==
  ASSUME OriginalInv, DbShape, OldRowsInv, RowsInv, original' = original,
         db.version = 3, db' = [NumberMessages(db) EXCEPT !.version = 4]
  PROVE  DbShape' /\ OldRowsInv' /\ RowsInv'
  <1>1. SameTablesBut({"messages"}, 4)
        /\ db'.messages = {[m EXCEPT !.sequence = NumberOf(db, m)] : m \in db.messages}
    BY DEF SameTablesBut, NumberMessages, DbShape, DbFields
  <1>2. db.messages = original.messages
    BY DEF RowsInv
  <1>3. \A m : NumberOf(db, m) = NumberOf(original, m)
    BY <1>2 DEF NumberOf
  <1>4. db'.messages = Numbered
    BY <1>1, <1>2, <1>3 DEF Numbered
  <1>5. Numbered' = Numbered
    BY DEF Numbered
  <1>6. db'.runs = db.runs /\ db'.version = 4 /\ db'.leases = db.leases /\ db'.approvals = db.approvals
    BY <1>1 DEF SameTablesBut, DbFields
  <1>7. DbShape'
    BY <1>1, <1>6 DEF DbShape, SameTablesBut
  <1>8. OldRowsInv'
    BY <1>6 DEF OldRowsInv
  <1>9. RowsInv'
    BY <1>4, <1>5, <1>6 DEF RowsInv, OwnersOf
  <1>. QED  BY <1>7, <1>8, <1>9

LEMMA ApprovalsMigrated ==
  ASSUME OriginalInv, DbShape, OldRowsInv, RowsInv, original' = original,
         db.version = 4, db' = [ExpireApprovals(db) EXCEPT !.version = 5]
  PROVE  DbShape' /\ OldRowsInv' /\ RowsInv'
  <1>1. SameTablesBut({"approvals"}, 5)
        /\ db'.approvals = [r \in OldRuns |-> ExpirePending(db.approvals[r])]
    BY DEF SameTablesBut, ExpireApprovals, DbShape, DbFields
  <1>2. \A r \in OldRuns : db'.approvals[r] # "PENDING"
    BY <1>1 DEF ExpirePending
  <1>3. Numbered' = Numbered
    BY DEF Numbered
  <1>4. db'.runs = db.runs /\ db'.version = 5 /\ db'.leases = db.leases /\ db'.messages = db.messages
    BY <1>1 DEF SameTablesBut, DbFields
  <1>5. DbShape'
    BY <1>1, <1>4 DEF DbShape, SameTablesBut
  <1>6. OldRowsInv'
    BY <1>4 DEF OldRowsInv
  <1>7. RowsInv'
    BY <1>2, <1>3, <1>4 DEF RowsInv, OwnersOf
  <1>. QED  BY <1>5, <1>6, <1>7

LEMMA UsageMigrated ==
  ASSUME OriginalInv, DbShape, OldRowsInv, RowsInv, original' = original,
         db.version = 5, db' = [MarkUsage(db) EXCEPT !.version = 6]
  PROVE  DbShape' /\ OldRowsInv' /\ RowsInv'
  <1>1. SameTablesBut({"runs"}, 6) /\ DOMAIN db'.runs = OldRuns
    BY DEF SameTablesBut, MarkUsage, DbShape, DbFields
  <1>2. \A r \in OldRuns : /\ SameRowBut(db'.runs[r], db.runs[r], {"reported"})
                           /\ db'.runs[r].reported = WasReported(db.runs[r].cost)
    BY DEF SameRowBut, MarkUsage, DbShape, DbFields, RowFields
  <1>3. DbShape'
    BY <1>1, <1>2 DEF DbShape, SameTablesBut, SameRowBut
  <1>4. OldRowsInv'
    BY <1>1, <1>2 DEF OldRowsInv, SameTablesBut, SameRowBut, RowFields
  <1>5. RowsInv'
    <2>1. OwnersOf(db') = OwnersOf(db)
      BY <1>2 DEF OwnersOf, SameRowBut, RowFields
    <2>2. Numbered' = Numbered
      BY DEF Numbered
    <2>3. db'.leases = db.leases /\ db'.messages = db.messages /\ db'.approvals = db.approvals /\ db'.version = 6
      BY <1>1 DEF SameTablesBut, DbFields
    <2>. QED  BY <2>1, <2>2, <2>3 DEF RowsInv
  <1>. QED  BY <1>3, <1>4, <1>5

LEMMA MigrationStep ==
  ASSUME MigrationInv, [MigrationNext]_migrationVars
  PROVE  MigrationInv'
  <1>1. CASE UNCHANGED migrationVars
    BY <1>1 DEF migrationVars, MigrationInv, OriginalInv, DbShape, OldRowsInv, RowsInv,
                OpenersInv,
                OwnersOf, Numbered
  <1>2. ASSUME UNCHANGED <<db, original>>
        PROVE  (OriginalInv /\ DbShape /\ OldRowsInv /\ RowsInv)'
    BY <1>2 DEF MigrationInv, OriginalInv, DbShape, OldRowsInv, RowsInv, OwnersOf, Numbered
  <1>3. ASSUME NEW p \in Openers, OpenStore(p)
        PROVE  MigrationInv'
    BY <1>2, <1>3, MigrationAssumption, MigrationsByNumber DEF MigrationInv, OpenersInv,
                                                               OpenStore, Unopened
  <1>4. ASSUME NEW p \in Openers, BeginMigration(p)
        PROVE  MigrationInv'
    <2>0. BuildOf[p] \in 1 .. 6
      BY MigrationAssumption, MigrationsByNumber
    <2>a. /\ opener[p].at = "migrating" /\ opener[p].next <= BuildOf[p]
          /\ opener[p] \in {Unopened, [at |-> "open"]} \union [at : {"migrating", "writing"}, next : 2 .. 7]
      BY <1>4 DEF MigrationInv, OpenersInv, BeginMigration
    <2>b. opener[p] \in [at : {"migrating", "writing"}, next : 2 .. 7]
      BY <2>a DEF Unopened
    <2>1. opener[p].next \in 2 .. 6
      BY <2>0, <2>a, <2>b
    <2>2. db'.version = db.version
      BY <1>4 DEF BeginMigration
    <2>3. CASE opener' = [opener EXCEPT ![p] = Unopened]
      BY <1>2, <1>4, <2>2, <2>3 DEF MigrationInv, OpenersInv, BeginMigration, Unopened
    <2>4. CASE opener' = [opener EXCEPT ![p].at = "writing"]
      <3>1. opener'[p] = [at |-> "writing", next |-> opener[p].next]
        BY <1>4, <2>4 DEF MigrationInv, OpenersInv, BeginMigration, Unopened
      <3>2. opener' = [opener EXCEPT ![p] = [at |-> "writing", next |-> opener[p].next]]
        BY <2>4, <3>1 DEF MigrationInv, OpenersInv
      <3>. QED  BY <1>2, <1>4, <2>1, <2>2, <3>2 DEF MigrationInv, OpenersInv, BeginMigration,
                                                    Unopened
    <2>. QED  BY <1>4, <2>3, <2>4 DEF BeginMigration
  <1>5. ASSUME NEW p \in Openers, CommitMigration(p)
        PROVE  MigrationInv'
    <2>1. CASE ~RecordsOnce(opener[p].next)
      BY <1>2, <1>5, <2>1 DEF MigrationInv, OpenersInv, CommitMigration, Unopened
    <2>2. CASE RecordsOnce(opener[p].next)
      <3>1. PICK n : n = opener[p].next
        OBVIOUS
      <3>2. n \in 2 .. 6 /\ n = db.version + 1
        BY <1>5, <2>2, <3>1 DEF MigrationInv, OpenersInv, CommitMigration, RecordsOnce, Unopened
      <3>3. db' = [migration(Registry[n], db) EXCEPT !.version = n] /\ original' = original
        BY <1>5, <2>2, <3>1 DEF CommitMigration
      <3>4. DbShape' /\ OldRowsInv' /\ RowsInv'
        <4>1. CASE n = 2
          BY <3>2, <3>3, <4>1, MigrationsByNumber, KeysMigrated DEF MigrationInv, OpenersInv
        <4>2. CASE n = 3
          BY <3>2, <3>3, <4>2, MigrationsByNumber, OwnersMigrated DEF MigrationInv, OpenersInv
        <4>3. CASE n = 4
          BY <3>2, <3>3, <4>3, MigrationsByNumber, MessagesMigrated DEF MigrationInv, OpenersInv
        <4>4. CASE n = 5
          BY <3>2, <3>3, <4>4, MigrationsByNumber, ApprovalsMigrated DEF MigrationInv,
                                                                         OpenersInv
        <4>5. CASE n = 6
          BY <3>2, <3>3, <4>5, MigrationsByNumber, UsageMigrated DEF MigrationInv, OpenersInv
        <4>. QED  BY <3>2, <4>1, <4>2, <4>3, <4>4, <4>5
      <3>5. db'.version = n
        <4>1. "version" \in DOMAIN db'
          BY <3>4 DEF DbShape, DbFields
        <4>. QED  BY <3>3, <4>1
      <3>6. OpenersInv'
        BY <1>5, <2>2, <3>1, <3>2, <3>5 DEF MigrationInv, OpenersInv, CommitMigration, Unopened
      <3>7. OriginalInv'
        BY <3>3 DEF MigrationInv, OriginalInv
      <3>. QED  BY <3>4, <3>6, <3>7 DEF MigrationInv
    <2>. QED  BY <2>1, <2>2
  <1>6. ASSUME NEW p \in Openers, StoreIsOpen(p)
        PROVE  MigrationInv'
    BY <1>2, <1>6 DEF MigrationInv, OpenersInv, StoreIsOpen, Unopened
  <1>7. ASSUME NEW p \in Openers, OpenerEnds(p)
        PROVE  MigrationInv'
    BY <1>2, <1>7 DEF MigrationInv, OpenersInv, OpenerEnds, Unopened
  <1>. QED  BY <1>1, <1>3, <1>4, <1>5, <1>6, <1>7 DEF MigrationNext


LEMMA MigrationInvSuffices ==
  ASSUME MigrationInv
  PROVE  MigrationKeepsRows
  <1>1. db.version \in 1 .. 6 /\ OriginalInv /\ OldRowsInv /\ RowsInv
    BY DEF MigrationInv, OpenersInv
  <1>2. /\ Since("keys") <=> db.version >= 2
        /\ Since("owners") <=> db.version >= 3
        /\ Since("order") <=> db.version >= 4
        /\ Since("approvals") <=> db.version >= 5
        /\ Since("usage") <=> db.version >= 6
    BY <1>1 DEF Since, Registry
  <1>3. RunsAreKept
    <2> SUFFICES ASSUME NEW r \in OldRuns
                 PROVE  LET run == db.runs[r] IN
                        /\ Since("keys") => publicIdempotencyKey(run.key) = original.runs[r].key
                        /\ Since("owners") => run.refs = [k \in 1 .. (IF run.session THEN 3 ELSE 2) |-> run.user]
                        /\ Since("usage") /\ run.cost # 0 => run.reported
      BY DEF RunsAreKept
    <2>1. original.runs[r].user \in UserIds /\ original.runs[r].key \in Seq(STRING)
      <3>1. original.runs[r].user \in UserIds /\ original.runs[r].key = ClientKeys[r]
        BY <1>1 DEF OriginalInv
      <3>2. ClientKeys \in Seq(Seq(STRING)) /\ r \in DOMAIN ClientKeys
        BY MigrationAssumption
      <3>3. ClientKeys[r] \in Seq(STRING)
        BY <3>2
      <3>. QED  BY <3>1, <3>3
    <2>2. Since("keys") => db.runs[r].key = scopedIdempotencyKey(original.runs[r].user, original.runs[r].key)
      <3>1. db.runs[r].key = IF db.version < 2 THEN original.runs[r].key
                             ELSE scopedIdempotencyKey(original.runs[r].user, original.runs[r].key)
        BY <1>1 DEF OldRowsInv
      <3>2. Since("keys") => ~(db.version < 2)
        BY <1>1, <1>2
      <3>. QED  BY <3>1, <3>2
    <2>3. Since("keys") => publicIdempotencyKey(db.runs[r].key) = original.runs[r].key
      BY <2>1, <2>2, KeysReturn
    <2>4. Since("owners") => db.runs[r].refs = [k \in 1 .. (IF db.runs[r].session THEN 3 ELSE 2) |-> db.runs[r].user]
      BY <1>1, <1>2 DEF OldRowsInv
    <2>5. Since("usage") /\ db.runs[r].cost # 0 => db.runs[r].reported
      BY <1>1, <1>2 DEF OldRowsInv, WasReported
    <2>. QED  BY <2>3, <2>4, <2>5
  <1>4. TranscriptsAreKept
    <2>1. CASE db.version < 4
      <3>1. db.messages = original.messages /\ ~Since("order")
        BY <1>1, <1>2, <2>1 DEF RowsInv
      <3>2. \A m \in original.messages : [m EXCEPT !.sequence = 0] = m
        BY <1>1 DEF OriginalInv
      <3>3. {[m EXCEPT !.sequence = 0] : m \in db.messages} = original.messages
        BY <3>1, <3>2
      <3>. QED  BY <3>1, <3>3 DEF TranscriptsAreKept
    <2>2. CASE db.version >= 4
      <3>1. db.messages = Numbered
        BY <1>1, <2>2 DEF RowsInv
      <3>a. PICK Num : Num = [m \in original.messages |-> [m EXCEPT !.sequence = NumberOf(original, m)]]
        OBVIOUS
      <3> DEFINE Zeroed(n) == [n EXCEPT !.sequence = 0]
      <3>2. ASSUME NEW m \in original.messages
            PROVE  /\ Zeroed(Num[m]) = m
                   /\ Num[m].session = m.session /\ Num[m].at = m.at
                   /\ Num[m].sequence = NumberOf(original, m)
        <4>1. m = [session |-> m.session, run |-> m.run, at |-> m.at, sequence |-> 0]
          BY <1>1 DEF OriginalInv
        <4>2. PICK c, q, t, n : c = m.session /\ q = m.run /\ t = m.at /\ n = NumberOf(original, m)
          OBVIOUS
        <4>3. Num[m] = [session |-> c, run |-> q, at |-> t, sequence |-> n]
          BY <3>a, <4>1, <4>2
        <4>4. Zeroed([session |-> c, run |-> q, at |-> t, sequence |-> n])
                = [session |-> c, run |-> q, at |-> t, sequence |-> 0]
          OBVIOUS
        <4>. QED  BY <4>1, <4>2, <4>3, <4>4
      <3>b. Numbered = {Num[m] : m \in original.messages}
        BY <3>a DEF Numbered
      <3>c. {[n EXCEPT !.sequence = 0] : n \in db.messages} = {Zeroed(n) : n \in db.messages}
        OBVIOUS
      <3> HIDE DEF Zeroed
      <3>3. {[m EXCEPT !.sequence = 0] : m \in db.messages} = original.messages
        BY <3>1, <3>2, <3>b, <3>c
      <3>4. ASSUME NEW x \in Numbered, NEW y \in Numbered, x # y, x.session = y.session
            PROVE  x.sequence # y.sequence /\ (x.at < y.at => x.sequence < y.sequence)
        <4>1. PICK m \in original.messages : x = Num[m]
          BY <3>b
        <4>2. PICK p \in original.messages : y = Num[p]
          BY <3>b
        <4>3. /\ m # p /\ m.session = p.session /\ x.at = m.at /\ y.at = p.at
              /\ x.sequence = NumberOf(original, m) /\ y.sequence = NumberOf(original, p)
          BY <3>2, <3>4, <4>1, <4>2
        <4>4. /\ NumberOf(original, m) # NumberOf(original, p)
              /\ m.at < p.at => NumberOf(original, m) < NumberOf(original, p)
          BY <1>1, <4>3, NumbersOrder
        <4>. QED  BY <4>3, <4>4
      <3>. QED  BY <3>1, <3>3, <3>4 DEF TranscriptsAreKept
    <2>. QED  BY <1>1, <2>1, <2>2
  <1>5. GuardsAreKept
    <2>1. original.leases = 1
      BY <1>1 DEF OriginalInv
    <2>. QED  BY <1>1, <1>2, <2>1 DEF GuardsAreKept, RowsInv
  <1>. QED  BY <1>3, <1>4, <1>5 DEF MigrationKeepsRows

\* An old database, and the empty one that stands for it where it is not looked at.
LEMMA LegacyStarts ==
  ASSUME NEW user, \A r \in OldRuns : user[r] \in UserIds,
         NEW time, \A r \in OldRuns : time[r] \in Nat,
         NEW owning, NEW working, NEW kept,
         original = Legacy(user, time, owning, working, kept), db = original,
         opener = [p \in Openers |-> Unopened]
  PROVE  MigrationInv
  <1>1. OriginalInv
    <2> DEFINE m(r) == [session |-> user[r], run |-> r, at |-> time[r], sequence |-> 0]
    <2>0. ASSUME NEW r \in OldRuns
          PROVE  /\ original.runs[r].user = user[r] /\ original.runs[r].key = ClientKeys[r]
                 /\ original.runs[r].session <=> user[r] \in kept
      BY DEF Legacy
    <2>1. /\ original.sessions = kept /\ original.leases = 1
          /\ original.messages = {m(r) : r \in {q \in OldRuns : user[q] \in kept}}
      BY DEF Legacy
    <2>2. \A x \in original.messages : \E r \in OldRuns : x = m(r) /\ user[r] \in kept
      BY <2>1
    <2>3. \A x \in original.messages :
            /\ x.run \in OldRuns /\ x.at \in Nat
            /\ x.session = original.runs[x.run].user /\ x.session \in original.sessions
            /\ x = [session |-> x.session, run |-> x.run, at |-> x.at, sequence |-> 0]
      BY <2>0, <2>1, <2>2
    <2>4. \A x, y \in original.messages : x.run = y.run => x = y
      BY <2>2
    <2>5. ASSUME NEW r \in OldRuns
          PROVE  /\ original.runs[r].user \in UserIds /\ original.runs[r].key = ClientKeys[r]
                 /\ original.runs[r].session <=> original.runs[r].user \in original.sessions
      BY <2>0, <2>1
    <2> HIDE DEF m
    <2>. QED  BY <2>1, <2>3, <2>4, <2>5 DEF OriginalInv
  <1>2. DbShape
    BY DEF DbShape, DbFields, RowFields, Legacy
  <1>3. OldRowsInv
    BY DEF OldRowsInv, Legacy
  <1>4. RowsInv
    BY DEF RowsInv, Legacy
  <1>5. OpenersInv
    BY DEF OpenersInv, Legacy, Unopened
  <1>. QED  BY <1>1, <1>2, <1>3, <1>4, <1>5 DEF MigrationInv

LEMMA MigrationInitial == MigrationInit => MigrationInv
  <1> SUFFICES ASSUME MigrationInit
               PROVE  MigrationInv
    OBVIOUS
  <1>1. PICK user \in [OldRuns -> Users], time \in [OldRuns -> {1, 2}],
             owning, working, kept \in AtMostOne :
               original = Legacy(user, time, owning, working, kept)
    BY DEF MigrationInit
  <1>2. /\ \A r \in OldRuns : user[r] \in UserIds
        /\ \A r \in OldRuns : time[r] \in Nat
    <2>1. \A u \in Users : u \in UserIds
      BY MigrationAssumption
    <2>. QED  BY <1>1, <2>1
  <1>3. db = original /\ opener = [p \in Openers |-> Unopened]
    BY DEF MigrationInit
  <1>. QED  BY <1>1, <1>2, <1>3, LegacyStarts

\* For any owners, keys, builds and openers: an old database keeps its rows.
THEOREM OldRowsStay == MigrationSpec => []MigrationKeepsRows
  <1>. QED  BY MigrationInitial, MigrationStep, MigrationInvSuffices, PTL DEF MigrationSpec

-----------------------------------------------------------------------------
(* Sums.  What SumFunctionOnSet of the community modules is for finite sets of *)
(* numbers: induction over data is by the smallest counterexample.             *)

\* The recursion of a sum over the subsets of a set.
Folded(w, S, iter) ==
  iter = [s \in SUBSET S |-> IF s = {} THEN 0
                             ELSE w[CHOOSE x \in s : TRUE] + iter[s \ {CHOOSE x \in s : TRUE}]]

LEMMA SumIsFold ==
  ASSUME NEW S, NEW w
  PROVE  SumFunctionOnSet(w, S) = (CHOOSE iter : Folded(w, S, iter))[S]
  BY DEF SumFunctionOnSet, FoldFunctionOnSet, MapThenFoldSet, Folded

\* A set of numbers has a least one, and a set of subsets a smallest.
LEMMA LeastNumber ==
  ASSUME NEW T \in SUBSET Nat, T # {}
  PROVE  \E n \in T : \A m \in T : n <= m
  <1> DEFINE R == {p \in Nat \X Nat : p[1] < p[2]}
  <1>1. IsWellFoundedOn(R, Nat)
    BY NatLessThanWellFounded DEF OpToRel
  <1>2. \A m, n \in T : m < n => <<m, n>> \in R
    OBVIOUS
  <1> HIDE DEF R
  <1>3. PICK n \in T : \A m \in T : ~(<<m, n>> \in R)
    BY <1>1, WFMin
  <1>4. \A m \in T : m \in Nat /\ n \in Nat /\ ~(m < n)
    BY <1>2, <1>3
  <1>. QED  BY <1>4

LEMMA SmallestSubset ==
  ASSUME NEW S, IsFiniteSet(S), NEW T \in SUBSET (SUBSET S), T # {}
  PROVE  \E s \in T : \A t \in T : t \subseteq s => t = s
  <1>1. \A s \in SUBSET S : IsFiniteSet(s) /\ Cardinality(s) \in Nat
    BY FS_Subset, FS_CardinalityType
  <1> DEFINE sizes == {Cardinality(s) : s \in T}
  <1>a. sizes \in SUBSET Nat /\ sizes # {}
    BY <1>1
  <1>2. PICK n \in sizes : \A m \in sizes : n <= m
    <2> HIDE DEF sizes
    <2>. QED  BY <1>a, LeastNumber
  <1>3. PICK s \in T : Cardinality(s) = n
    BY <1>2
  <1>4. ASSUME NEW t \in T, t \subseteq s, t # s
        PROVE  FALSE
    <2>1. Cardinality(t) < Cardinality(s)
      <3>1. IsFiniteSet(s) /\ Cardinality(t) \in Nat /\ Cardinality(s) \in Nat
        BY <1>1
      <3>2. Cardinality(t) <= Cardinality(s) /\ (Cardinality(s) = Cardinality(t) => s = t)
        BY <1>4, <3>1, FS_Subset
      <3>. QED  BY <1>4, <3>1, <3>2
    <2>2. n <= Cardinality(t) /\ Cardinality(t) \in Nat
      BY <1>1, <1>2
    <2>. QED  BY <1>1, <1>3, <2>1, <2>2
  <1>. QED  BY <1>4

\* The recursion has a solution: up to any cardinality, hence for all subsets.
LEMMA FoldExists ==
  ASSUME NEW S, IsFiniteSet(S), NEW w
  PROVE  \E iter : Folded(w, S, iter)
  <1> DEFINE Body(iter) == [s \in SUBSET S |-> IF s = {} THEN 0
                     ELSE w[CHOOSE x \in s : TRUE] + iter[s \ {CHOOSE x \in s : TRUE}]]
             Upto(n, iter) == /\ iter = [s \in SUBSET S |-> iter[s]]
                              /\ \A s \in SUBSET S : Cardinality(s) <= n => iter[s] = Body(iter)[s]
             Bad == {n \in Nat : ~ \E iter : Upto(n, iter)}
  <1>1. \A s \in SUBSET S : IsFiniteSet(s) /\ Cardinality(s) \in Nat
    BY FS_Subset, FS_CardinalityType
  <1>0. Bad \in SUBSET Nat
    OBVIOUS
  <1>2. Bad = {}
    <2> SUFFICES ASSUME Bad # {} PROVE FALSE
      OBVIOUS
    <2>1. PICK n \in Bad : \A m \in Bad : n <= m
      <3> HIDE DEF Bad
      <3>. QED  BY <1>0, LeastNumber
    <2>2. \A m \in Nat : m < n => m \notin Bad
      <3> HIDE DEF Bad
      <3>1. n \in Nat
        BY <1>0
      <3>. QED  BY <2>1, <3>1
    <2>3. CASE n = 0
      <3> DEFINE it == [s \in SUBSET S |-> 0]
      <3>1. \A s \in SUBSET S : Cardinality(s) <= 0 => s = {}
        BY <1>1, FS_EmptySet
      <3>2. Upto(0, it)
        BY <3>1
      <3>. QED  BY <2>3, <3>2
    <2>4. CASE n # 0
      <3>1. n - 1 \in Nat /\ n \in Nat /\ n - 1 < n
        BY <2>4
      <3>2. PICK iter : Upto(n - 1, iter)
        BY <2>2, <3>1
      <3> DEFINE it == Body(iter)
      <3>3. ASSUME NEW s \in SUBSET S, Cardinality(s) <= n
            PROVE  it[s] = Body(it)[s]
        <4>1. CASE s = {}
          BY <4>1
        <4>2. CASE s # {}
          <5> DEFINE x == CHOOSE x \in s : TRUE
          <5>1. x \in s
            BY <4>2
          <5>2. Cardinality(s \ {x}) = Cardinality(s) - 1 /\ s \ {x} \in SUBSET S
            BY <1>1, <5>1, FS_RemoveElement
          <5>3. Cardinality(s \ {x}) <= n - 1
            BY <1>1, <3>1, <3>3, <5>2
          <5>4. iter[s \ {x}] = it[s \ {x}]
            BY <3>2, <5>2, <5>3
          <5>5. it[s] = w[x] + iter[s \ {x}] /\ Body(it)[s] = w[x] + it[s \ {x}]
            BY <4>2
          <5>. QED  BY <5>4, <5>5
        <4>. QED  BY <4>1, <4>2
      <3>4. Upto(n, it)
        <4>1. it = [s \in SUBSET S |-> it[s]]
          OBVIOUS
        <4> HIDE DEF it, Body
        <4>. QED  BY <3>3, <4>1
      <3>. QED  BY <3>1, <3>4
    <2>. QED  BY <2>3, <2>4
  <1>3. PICK iter : Upto(Cardinality(S), iter)
    <2>1. Cardinality(S) \in Nat
      BY <1>1
    <2>. QED  BY <1>2, <2>1
  <1>4. \A s \in SUBSET S : Cardinality(s) <= Cardinality(S)
    BY FS_Subset
  <1>5. Folded(w, S, iter)
    <2>1. Body(iter) = iter
      BY <1>3, <1>4
    <2>. QED  BY <2>1 DEF Folded
  <1>. QED  BY <1>5


\* Any solution is a number and does not depend on the order of the choices.
LEMMA FoldIsSum ==
  ASSUME NEW S, IsFiniteSet(S), NEW w, \A x \in S : w[x] \in Nat, NEW iter, Folded(w, S, iter),
         NEW s \in SUBSET S
  PROVE  iter[s] \in Nat /\ \A x \in s : iter[s] = w[x] + iter[s \ {x}]
  <1> DEFINE Good(t) == iter[t] \in Nat /\ \A x \in t : iter[t] = w[x] + iter[t \ {x}]
             bad == {t \in SUBSET S : ~Good(t)}
  <1>1. \A t \in SUBSET S : iter[t] = IF t = {} THEN 0
                 ELSE w[CHOOSE x \in t : TRUE] + iter[t \ {CHOOSE x \in t : TRUE}]
    BY DEF Folded
  <1>2. bad \in SUBSET (SUBSET S)
    OBVIOUS
  <1>3. bad = {}
    <2> SUFFICES ASSUME bad # {} PROVE FALSE
      OBVIOUS
    <2>1. PICK t \in bad : \A u \in bad : u \subseteq t => u = t
      <3> HIDE DEF bad
      <3>. QED  BY <1>2, SmallestSubset
    <2>2. \A u \in SUBSET S : u \subseteq t /\ u # t => Good(u)
      <3>1. \A u \in SUBSET S : u \notin bad => Good(u)
        OBVIOUS
      <3> HIDE DEF bad, Good
      <3>. QED  BY <2>1, <3>1
    <2>3. t \in SUBSET S /\ t # {}
      BY <1>1
    <2>4. PICK c \in t : iter[t] = w[c] + iter[t \ {c}]
      <3>1. (CHOOSE x \in t : TRUE) \in t
        BY <2>3
      <3>. QED  BY <1>1, <2>3, <3>1
    <2>5. Good(t \ {c}) /\ w[c] \in Nat
      <3>1. t \ {c} \in SUBSET S /\ t \ {c} \subseteq t /\ t \ {c} # t
        BY <2>3
      <3> HIDE DEF Good, bad
      <3>. QED  BY <2>2, <2>3, <3>1
    <2>6. ASSUME NEW x \in t, x # c
          PROVE  iter[t] = w[x] + iter[t \ {x}]
      <3>1. /\ t \ {x} \in SUBSET S /\ t \ {x} \subseteq t /\ t \ {x} # t
            /\ w[x] \in Nat /\ x \in t \ {c} /\ c \in t \ {x}
        BY <2>3, <2>6
      <3>2. Good(t \ {x})
        <4> HIDE DEF Good, bad
        <4>. QED  BY <2>2, <3>1
      <3>3. iter[t \ {c}] = w[x] + iter[(t \ {c}) \ {x}] /\ iter[t \ {x}] = w[c] + iter[(t \ {x}) \ {c}]
        BY <2>5, <3>1, <3>2
      <3>4. (t \ {c}) \ {x} = (t \ {x}) \ {c}
        OBVIOUS
      <3>5. iter[(t \ {x}) \ {c}] \in Nat
        <4>1. (t \ {x}) \ {c} \in SUBSET S /\ (t \ {x}) \ {c} \subseteq t /\ (t \ {x}) \ {c} # t
          BY <3>1
        <4>2. Good((t \ {x}) \ {c})
          <5> HIDE DEF Good, bad
          <5>. QED  BY <2>2, <4>1
        <4>. QED  BY <4>2
      <3>. QED  BY <2>4, <2>5, <3>1, <3>3, <3>4, <3>5
    <2>7. Good(t)
      <3>1. iter[t] \in Nat
        BY <2>4, <2>5
      <3>2. \A x \in t : iter[t] = w[x] + iter[t \ {x}]
        BY <2>4, <2>6
      <3>. QED  BY <3>1, <3>2
    <2>. QED  BY <2>7
  <1>. QED  BY <1>3

\* The set that is summed over need not be the one that the recursion was made for.
LEMMA FoldsAgree ==
  ASSUME NEW S, IsFiniteSet(S), NEW T \in SUBSET S, NEW w, NEW v, \A x \in T : w[x] = v[x],
         \A x \in S : w[x] \in Nat,
         NEW iter, Folded(w, S, iter), NEW other, Folded(v, T, other)
  PROVE  \A s \in SUBSET T : iter[s] = other[s]
  <1> DEFINE bad == {s \in SUBSET T : iter[s] # other[s]}
  <1>1. bad \in SUBSET (SUBSET T) /\ IsFiniteSet(T)
    BY FS_Subset
  <1>2. bad = {}
    <2> SUFFICES ASSUME bad # {} PROVE FALSE
      OBVIOUS
    <2>1. PICK s \in bad : \A t \in bad : t \subseteq s => t = s
      <3> HIDE DEF bad
      <3>. QED  BY <1>1, SmallestSubset
    <2>2. s \in SUBSET T /\ s \in SUBSET S /\ iter[s] # other[s]
      OBVIOUS
    <2>3. /\ s = {} => iter[s] = 0 /\ other[s] = 0
          /\ s # {} => /\ iter[s] = w[CHOOSE x \in s : TRUE] + iter[s \ {CHOOSE x \in s : TRUE}]
                       /\ other[s] = v[CHOOSE x \in s : TRUE] + other[s \ {CHOOSE x \in s : TRUE}]
      BY <2>2 DEF Folded
    <2>4. s # {}
      BY <2>2, <2>3
    <2>5. PICK c \in s : iter[s] = w[c] + iter[s \ {c}] /\ other[s] = v[c] + other[s \ {c}]
      <3>1. (CHOOSE x \in s : TRUE) \in s
        BY <2>4
      <3>. QED  BY <2>3, <2>4, <3>1
    <2>6. w[c] = v[c] /\ s \ {c} \in SUBSET T /\ s \ {c} \subseteq s /\ s \ {c} # s
      BY <2>2
    <2>7. s \ {c} \notin bad
      <3> HIDE DEF bad
      <3>. QED  BY <2>1, <2>6
    <2>8. iter[s \ {c}] = other[s \ {c}]
      BY <2>6, <2>7
    <2>. QED  BY <2>2, <2>5, <2>6, <2>8
  <1>. QED  BY <1>2

\* What a sum is: SumFunctionOnSet of the community modules.
LEMMA SumFolds ==
  ASSUME NEW S, IsFiniteSet(S), NEW w
  PROVE  \E iter : Folded(w, S, iter) /\ SumFunctionOnSet(w, S) = iter[S]
  BY SumIsFold, FoldExists

LEMMA SumOfNone ==
  ASSUME NEW w
  PROVE  SumFunctionOnSet(w, {}) = 0
  <1>1. PICK iter : Folded(w, {}, iter) /\ SumFunctionOnSet(w, {}) = iter[{}]
    BY FS_EmptySet, SumFolds
  <1>2. {} \in SUBSET {}
    OBVIOUS
  <1>. QED  BY <1>1, <1>2 DEF Folded

LEMMA SumIsNumber ==
  ASSUME NEW S, IsFiniteSet(S), NEW w, \A x \in S : w[x] \in Nat
  PROVE  SumFunctionOnSet(w, S) \in Nat
  BY SumFolds, FoldIsSum

\* Equal parts have equal sums.
LEMMA SumsEqual ==
  ASSUME NEW S, IsFiniteSet(S), NEW w, \A x \in S : w[x] \in Nat, NEW v, \A x \in S : w[x] = v[x]
  PROVE  SumFunctionOnSet(w, S) = SumFunctionOnSet(v, S)
  <1>1. PICK iter : Folded(w, S, iter) /\ SumFunctionOnSet(w, S) = iter[S]
    BY SumFolds
  <1>2. PICK other : Folded(v, S, other) /\ SumFunctionOnSet(v, S) = other[S]
    BY SumFolds
  <1>3. S \in SUBSET S
    OBVIOUS
  <1>4. iter[S] = other[S]
    BY <1>1, <1>2, <1>3, FoldsAgree
  <1>. QED  BY <1>1, <1>2, <1>4

\* A part can be taken out of a sum.
LEMMA SumWithout ==
  ASSUME NEW S, IsFiniteSet(S), NEW w, \A x \in S : w[x] \in Nat, NEW y \in S
  PROVE  SumFunctionOnSet(w, S) = w[y] + SumFunctionOnSet(w, S \ {y})
  <1>1. PICK iter : Folded(w, S, iter) /\ SumFunctionOnSet(w, S) = iter[S]
    BY SumFolds
  <1>2. IsFiniteSet(S \ {y}) /\ S \ {y} \in SUBSET S
    BY FS_Subset
  <1>3. PICK other : Folded(w, S \ {y}, other) /\ SumFunctionOnSet(w, S \ {y}) = other[S \ {y}]
    BY <1>2, SumFolds
  <1>4. iter[S \ {y}] = other[S \ {y}]
    BY <1>1, <1>2, <1>3, FoldsAgree
  <1>5. iter[S] = w[y] + iter[S \ {y}]
    BY <1>1, FoldIsSum
  <1>. QED  BY <1>1, <1>3, <1>4, <1>5

\* And put into it.
LEMMA SumWith ==
  ASSUME NEW S, IsFiniteSet(S), NEW w, NEW y, y \notin S, \A x \in S \union {y} : w[x] \in Nat
  PROVE  SumFunctionOnSet(w, S \union {y}) = w[y] + SumFunctionOnSet(w, S)
  <1>1. IsFiniteSet(S \union {y}) /\ (S \union {y}) \ {y} = S
    BY FS_AddElement
  <1>. QED  BY <1>1, SumWithout

\* A part is not more than the whole.
LEMMA SumOfPart ==
  ASSUME NEW S, IsFiniteSet(S), NEW w, \A x \in S : w[x] \in Nat, NEW T \in SUBSET S
  PROVE  SumFunctionOnSet(w, T) <= SumFunctionOnSet(w, S)
  <1> DEFINE bad == {U \in SUBSET S : T \subseteq U /\ ~(SumFunctionOnSet(w, T) <= SumFunctionOnSet(w, U))}
  <1>1. bad \in SUBSET (SUBSET S)
    OBVIOUS
  <1>2. \A U \in SUBSET S : IsFiniteSet(U) /\ SumFunctionOnSet(w, U) \in Nat
    BY FS_Subset, SumIsNumber
  <1>3. bad = {}
    <2> SUFFICES ASSUME bad # {} PROVE FALSE
      OBVIOUS
    <2>1. PICK U \in bad : \A V \in bad : V \subseteq U => V = U
      <3> HIDE DEF bad
      <3>. QED  BY <1>1, SmallestSubset
    <2>2. U \in SUBSET S /\ T \subseteq U /\ ~(SumFunctionOnSet(w, T) <= SumFunctionOnSet(w, U))
      OBVIOUS
    <2>3. PICK y \in U : y \notin T
      BY <1>2, <2>2
    <2>4. U \ {y} \in SUBSET S /\ U \ {y} \subseteq U /\ U \ {y} # U /\ T \subseteq U \ {y}
      BY <2>2, <2>3
    <2>5. U \ {y} \notin bad
      <3> HIDE DEF bad
      <3>. QED  BY <2>1, <2>4
    <2>6. SumFunctionOnSet(w, T) <= SumFunctionOnSet(w, U \ {y})
      BY <2>4, <2>5
    <2>7. SumFunctionOnSet(w, U) = w[y] + SumFunctionOnSet(w, U \ {y})
      BY <1>2, <2>2, SumWithout
    <2>8. w[y] \in Nat
      BY <2>2
    <2>. QED  BY <1>2, <2>2, <2>4, <2>6, <2>7, <2>8
  <1>. QED  BY <1>3

-----------------------------------------------------------------------------
(* The reader of an archive.  It accepts only what it has read as headers and  *)
(* payloads one after the other, and for every layout that conforms it stands  *)
(* between two entries of that layout: thus no other reading is possible.      *)

SizesOf(heads) == [h \in heads |-> blocks[h].size]

\* What was admitted so far, up to the first zero block.
ReadAs(heads, upto) ==
  /\ heads \in SUBSET (1 .. upto)
  /\ \A h \in heads : /\ blocks[h].type \in {"file", "directory"}
                      /\ blocks[h].type = "directory" => blocks[h].size = 0
                      /\ h + BlocksOf(blocks[h].size) <= upto
  /\ Tiles(heads, upto)
  /\ Cardinality(heads) = entriesRead /\ SumFunction(SizesOf(heads)) = payload
  /\ \A k \in upto + 1 .. offset : blocks[k].type = "zero"

ReadOf(heads, upto) == {h \in heads : h <= upto}

\* How a reader goes through a layout.
Follows(end, heads, upto) ==
  /\ upto <= end /\ (endBlocks > 0 => upto = end)
  /\ \A h \in ReadOf(heads, upto) : h + BlocksOf(blocks[h].size) <= upto
  /\ entriesRead = Cardinality(ReadOf(heads, upto))
  /\ payload = SumFunction(SizesOf(ReadOf(heads, upto)))

ArchiveShape ==
  /\ ArchiveTypeOK /\ endBlocks <= offset

ArchiveInv ==
  /\ ArchiveShape
  /\ verdict # "thrown" =>
       \E heads \in SUBSET (1 .. Len(blocks)) : ReadAs(heads, offset - endBlocks)
  /\ verdict = "accepted" =>
       endBlocks = 2 /\ \A k \in offset + 1 .. Len(blocks) : blocks[k].type = "zero"
  /\ \A end \in 0 .. Len(blocks) : \A heads \in SUBSET (1 .. end) :
       LaidOut(end, heads) => verdict # "thrown" /\ (verdict = "reading" => Follows(end, heads, offset - endBlocks))

\* A payload is padded to whole blocks.
LEMMA PaddedIsBlocks ==
  ASSUME NEW size \in Nat
  PROVE  Padded(size) \in Nat /\ BlocksOf(size) = Padded(size)
  <1>1. PICK b \in Nat : b = BlockSize /\ b >= 1
    BY ArchiveAssumption
  <1>2. PICK q \in Int : q = (size + b - 1) \div b
    BY <1>1
  <1>3. q \in Nat /\ q * b <= size + b - 1 /\ size + b - 1 < q * b + b
    BY <1>1, <1>2
  <1>4. q <= size
    <2>1. ASSUME q >= size + 1
          PROVE  FALSE
      <3>1. PICK d \in Nat : q = (size + 1) + d
        BY <1>3, <2>1
      <3>2. q * b = (size + 1) * b + d * b /\ d * b >= 0
        BY <1>1, <3>1
      <3>3. (size + 1) * b = size * b + b /\ size * b >= size
        BY <1>1
      <3>. QED  BY <1>1, <1>3, <3>2, <3>3
    <2>. QED  BY <1>3, <2>1
  <1>5. q * b >= size /\ (q = 0 \/ (q - 1) * b < size)
    <2>1. (q - 1) * b = q * b - b
      BY <1>1, <1>3
    <2>. QED  BY <1>1, <1>3, <2>1
  <1>6. ASSUME NEW n \in 0 .. size, n * b >= size, n = 0 \/ (n - 1) * b < size
        PROVE  n = q
    <2>1. ASSUME NEW m \in Nat, NEW k \in Nat, m < k, m * b >= size, (k - 1) * b < size
          PROVE  FALSE
      <3>1. PICK d \in Nat : k - 1 = m + d
        BY <2>1
      <3>2. (k - 1) * b = m * b + d * b /\ d * b >= 0
        BY <1>1, <3>1
      <3>3. m * b \in Int /\ d * b \in Int
        BY <1>1
      <3>. QED  BY <2>1, <3>2, <3>3
    <2>2. ~(n < q)
      BY <1>3, <1>5, <1>6, <2>1
    <2>3. ~(q < n)
      BY <1>3, <1>5, <1>6, <2>1
    <2>. QED  BY <1>3, <2>2, <2>3
  <1>7. q \in 0 .. size
    BY <1>3, <1>4
  <1>8. BlocksOf(size) = CHOOSE n \in 0 .. size : n * b >= size /\ (n = 0 \/ (n - 1) * b < size)
    BY <1>1 DEF BlocksOf
  <1>. QED  BY <1>1, <1>2, <1>3, <1>5, <1>6, <1>7, <1>8 DEF Padded

LEMMA ArchiveBlocks ==
  ASSUME blocks \in Archives
  PROVE  /\ Len(blocks) \in Nat /\ DOMAIN blocks = 1 .. Len(blocks)
         /\ \A k \in 1 .. Len(blocks) :
              /\ blocks[k].size \in Nat
              /\ blocks[k].type \in {"file", "directory", "zero", "denied"}
  <1>1. PICK n \in 0 .. MaxBlocks : blocks \in [1 .. n -> Blocks]
    BY DEF Archives
  <1>2. n \in Nat /\ blocks \in Seq(Blocks) /\ Len(blocks) = n
    BY <1>1, ArchiveAssumption
  <1>3. \A b \in Blocks : b.size \in Nat /\ b.type \in {"file", "directory", "zero", "denied"}
    BY ArchiveAssumption DEF Blocks
  <1>. QED  BY <1>1, <1>2, <1>3

LEMMA PayloadBlocks ==
  ASSUME blocks \in Archives, NEW h \in 1 .. Len(blocks)
  PROVE  blocks[h].size \in Nat /\ BlocksOf(blocks[h].size) \in Nat
  <1>1. blocks[h].size \in Nat
    BY ArchiveBlocks
  <1>. QED  BY <1>1, PaddedIsBlocks

\* Sizes are summed as parts of the sizes of all blocks.
LEMMA SizesAreParts ==
  ASSUME blocks \in Archives, NEW heads \in SUBSET (1 .. Len(blocks))
  PROVE  /\ IsFiniteSet(heads) /\ Cardinality(heads) \in Nat
         /\ SumFunction(SizesOf(heads)) = SumFunctionOnSet(SizesOf(1 .. Len(blocks)), heads)
         /\ SumFunction(SizesOf(heads)) \in Nat
  <1>1. IsFiniteSet(1 .. Len(blocks))
    BY ArchiveBlocks, FS_Interval
  <1>2. IsFiniteSet(heads) /\ Cardinality(heads) \in Nat
    BY <1>1, FS_Subset, FS_CardinalityType
  <1>3. \A h \in heads : SizesOf(heads)[h] \in Nat /\ SizesOf(heads)[h] = SizesOf(1 .. Len(blocks))[h]
    BY ArchiveBlocks DEF SizesOf
  <1>4. SumFunction(SizesOf(heads)) = SumFunctionOnSet(SizesOf(heads), heads)
    BY DEF SumFunction, SizesOf
  <1>5. SumFunctionOnSet(SizesOf(heads), heads) = SumFunctionOnSet(SizesOf(1 .. Len(blocks)), heads)
    BY <1>2, <1>3, SumsEqual
  <1>6. SumFunctionOnSet(SizesOf(heads), heads) \in Nat
    BY <1>2, <1>3, SumIsNumber
  <1>. QED  BY <1>2, <1>4, <1>5, <1>6

LEMMA OneMoreSize ==
  ASSUME blocks \in Archives, NEW heads \in SUBSET (1 .. Len(blocks)), NEW k \in 1 .. Len(blocks), k \notin heads
  PROVE  /\ Cardinality(heads \union {k}) = Cardinality(heads) + 1
         /\ SumFunction(SizesOf(heads \union {k})) = SumFunction(SizesOf(heads)) + blocks[k].size
  <1> DEFINE all == SizesOf(1 .. Len(blocks))
  <1>1. \A x \in 1 .. Len(blocks) : all[x] \in Nat /\ all[x] = blocks[x].size
    BY ArchiveBlocks DEF SizesOf
  <1>2. heads \union {k} \in SUBSET (1 .. Len(blocks))
    OBVIOUS
  <1>3. IsFiniteSet(heads) /\ SumFunction(SizesOf(heads)) = SumFunctionOnSet(all, heads)
    BY SizesAreParts
  <1>4. SumFunction(SizesOf(heads \union {k})) = SumFunctionOnSet(all, heads \union {k})
    BY <1>2, SizesAreParts
  <1>5. SumFunctionOnSet(all, heads) \in Nat
    <2> HIDE DEF all
    <2>. QED  BY <1>1, <1>3, SumIsNumber
  <1>6. SumFunctionOnSet(all, heads \union {k}) = all[k] + SumFunctionOnSet(all, heads)
    <2> HIDE DEF all
    <2>. QED  BY <1>1, <1>2, <1>3, SumWith
  <1>7. all[k] \in Nat /\ all[k] = blocks[k].size
    BY <1>1
  <1>8. Cardinality(heads \union {k}) = Cardinality(heads) + 1
    BY <1>3, FS_AddElement
  <1> HIDE DEF all
  <1>. QED  BY <1>3, <1>4, <1>5, <1>6, <1>7, <1>8

LEMMA PartOfSizes ==
  ASSUME blocks \in Archives, NEW heads \in SUBSET (1 .. Len(blocks)), NEW part \in SUBSET heads
  PROVE  /\ Cardinality(part) <= Cardinality(heads)
         /\ SumFunction(SizesOf(part)) <= SumFunction(SizesOf(heads))
  <1> DEFINE all == SizesOf(1 .. Len(blocks))
  <1>1. \A x \in heads : all[x] \in Nat
    BY ArchiveBlocks DEF SizesOf
  <1>2. /\ IsFiniteSet(heads) /\ SumFunction(SizesOf(heads)) = SumFunctionOnSet(all, heads)
        /\ SumFunction(SizesOf(part)) = SumFunctionOnSet(all, part)
    BY SizesAreParts
  <1>3. SumFunctionOnSet(all, part) <= SumFunctionOnSet(all, heads)
    <2> HIDE DEF all
    <2>. QED  BY <1>1, <1>2, SumOfPart
  <1>4. Cardinality(part) <= Cardinality(heads)
    BY <1>2, FS_Subset
  <1> HIDE DEF all
  <1>. QED  BY <1>2, <1>3, <1>4

\* In a layout a block belongs to one entry only.
LEMMA OneEntryPerBlock ==
  ASSUME blocks \in Archives, NEW end \in 0 .. Len(blocks), NEW heads \in SUBSET (1 .. end), Tiles(heads, end),
         NEW k \in 1 .. end
  PROVE  /\ \E h \in heads : h <= k /\ k <= h + BlocksOf(blocks[h].size)
         /\ \A h, g \in heads :
              /\ h <= k /\ k <= h + BlocksOf(blocks[h].size)
              /\ g <= k /\ k <= g + BlocksOf(blocks[g].size)
              => h = g
  <1> DEFINE over == {h \in heads : h <= k /\ k <= h + BlocksOf(blocks[h].size)}
  <1>1. Cardinality(over) = 1
    BY DEF Tiles
  <1>2. IsFiniteSet(heads) /\ over \in SUBSET heads
    BY ArchiveBlocks, SizesAreParts
  <1>3. IsFiniteSet(over)
    BY <1>2, FS_Subset
  <1>4. PICK x : over = {x}
    <2> HIDE DEF over
    <2>. QED  BY <1>1, <1>3, FS_Singleton
  <1>5. x \in over /\ \A h \in over : h = x
    <2> HIDE DEF over
    <2>. QED  BY <1>4
  <1>. QED  BY <1>5

\* Between two entries of a layout the next block is a header of it, unless it is the end.
LEMMA NextIsHeader ==
  ASSUME blocks \in Archives, NEW end \in 0 .. Len(blocks), NEW heads \in SUBSET (1 .. end), Tiles(heads, end),
         NEW upto \in 0 .. end, upto # end,
         \A h \in heads : h <= upto => h + BlocksOf(blocks[h].size) <= upto
  PROVE  upto + 1 \in heads
  <1>1. upto + 1 \in 1 .. end
    BY ArchiveBlocks
  <1>2. PICK h \in heads : h <= upto + 1 /\ upto + 1 <= h + BlocksOf(blocks[h].size)
    BY <1>1, OneEntryPerBlock
  <1>3. BlocksOf(blocks[h].size) \in Nat
    BY ArchiveBlocks, PaddedIsBlocks
  <1>. QED  BY <1>2, <1>3, ArchiveBlocks

LEMMA ArchiveInitial == ArchiveInit => ArchiveInv
  <1> SUFFICES ASSUME ArchiveInit PROVE ArchiveInv
    OBVIOUS
  <1>1. blocks \in Archives /\ Len(blocks) \in Nat
    BY ArchiveBlocks DEF ArchiveInit
  <1>2. ArchiveShape
    BY <1>1, ArchiveAssumption DEF ArchiveInit, ArchiveShape, ArchiveTypeOK
  <1>3. Cardinality({}) = 0 /\ SumFunction(SizesOf({})) = 0
    <2>1. SumFunction(SizesOf({})) = SumFunctionOnSet(SizesOf(1 .. Len(blocks)), {})
      BY <1>1, SizesAreParts
    <2>. QED  BY <2>1, SumOfNone, FS_EmptySet
  <1>4. ReadAs({}, 0)
    BY <1>3 DEF ArchiveInit, ReadAs, Tiles
  <1>5. ASSUME NEW end \in 0 .. Len(blocks), NEW heads \in SUBSET (1 .. end)
        PROVE  Follows(end, heads, offset - endBlocks)
    <2>1. ReadOf(heads, 0) = {}
      <3>1. end \in Nat /\ \A h \in heads : h \in 1 .. end
        BY <1>1
      <3>2. \A h \in heads : ~(h <= 0)
        BY <3>1
      <3>. QED  BY <3>2 DEF ReadOf
    <2>2. offset - endBlocks = 0 /\ endBlocks = 0 /\ entriesRead = 0 /\ payload = 0 /\ 0 <= end
      BY <1>1 DEF ArchiveInit
    <2>3. Follows(end, heads, 0)
      <3>1. entriesRead = Cardinality(ReadOf(heads, 0)) /\ payload = SumFunction(SizesOf(ReadOf(heads, 0)))
        BY <1>3, <2>1, <2>2
      <3>2. \A h \in ReadOf(heads, 0) : h + BlocksOf(blocks[h].size) <= 0
        BY <2>1
      <3>. QED  BY <2>2, <3>1, <3>2 DEF Follows
    <2>. QED  BY <2>2, <2>3
  <1>. QED  BY <1>1, <1>2, <1>4, <1>5 DEF ArchiveInit, ArchiveInv

LEMMA ArchiveSuffices == ArchiveInv => AcceptsTheFormat
  <1> SUFFICES ASSUME ArchiveInv, verdict # "reading"
               PROVE  verdict = "accepted" <=> Conforms
    BY DEF AcceptsTheFormat
  <1>1. verdict \in {"accepted", "thrown"} /\ blocks \in Archives /\ Len(blocks) \in Nat
    BY ArchiveBlocks DEF ArchiveInv, ArchiveShape, ArchiveTypeOK
  <1>2. CASE verdict = "accepted"
    <2>1. /\ endBlocks = 2 /\ offset \in 2 .. Len(blocks)
          /\ \A k \in offset + 1 .. Len(blocks) : blocks[k].type = "zero"
      BY <1>1, <1>2 DEF ArchiveInv, ArchiveShape, ArchiveTypeOK
    <2>2. PICK heads : ReadAs(heads, offset - 2)
      BY <1>2, <2>1 DEF ArchiveInv
    <2>3. \A k \in (offset - 2) + 1 .. Len(blocks) : blocks[k].type = "zero"
      BY <1>1, <2>1, <2>2 DEF ReadAs
    <2>4. Cardinality(heads) <= MaxFiles /\ SumFunction(SizesOf(heads)) <= MaxBytes
      BY <2>2, ArchiveAssumption DEF ReadAs, ArchiveInv, ArchiveShape, ArchiveTypeOK
    <2>5. LaidOut(offset - 2, heads)
      BY <1>1, <2>1, <2>2, <2>3, <2>4 DEF LaidOut, ReadAs, SizesOf
    <2>6. Conforms
      BY <1>1, <2>1, <2>2, <2>5 DEF Conforms, ReadAs
    <2>. QED  BY <1>2, <2>6
  <1>3. CASE verdict = "thrown"
    BY <1>3 DEF ArchiveInv, Conforms
  <1>. QED  BY <1>1, <1>2, <1>3

LEMMA ArchiveTypes ==
  ASSUME ArchiveShape
  PROVE  /\ blocks \in Archives /\ Len(blocks) \in Nat /\ offset \in 0 .. Len(blocks)
         /\ endBlocks \in 0 .. 2 /\ endBlocks <= offset
         /\ entriesRead \in Nat /\ payload \in Nat /\ MaxFiles \in Nat /\ MaxBytes \in Nat
         /\ offset < Len(blocks) =>
              /\ Header = blocks[offset + 1] /\ Header.size \in Nat
              /\ offset + 1 \in 1 .. Len(blocks)
              /\ Padded(Header.size) \in Nat /\ BlocksOf(Header.size) = Padded(Header.size)
  <1>1. blocks \in Archives /\ Len(blocks) \in Nat /\ offset \in 0 .. Len(blocks)
    BY ArchiveBlocks DEF ArchiveShape, ArchiveTypeOK
  <1>2. endBlocks \in 0 .. 2 /\ endBlocks <= offset /\ entriesRead \in Nat /\ payload \in Nat
    BY ArchiveAssumption DEF ArchiveShape, ArchiveTypeOK
  <1>3. ASSUME offset < Len(blocks)
        PROVE  /\ Header = blocks[offset + 1] /\ Header.size \in Nat
               /\ offset + 1 \in 1 .. Len(blocks)
               /\ Padded(Header.size) \in Nat /\ BlocksOf(Header.size) = Padded(Header.size)
    <2>1. offset + 1 \in 1 .. Len(blocks)
      BY <1>1, <1>3
    <2>2. Header.size \in Nat
      BY <1>1, <2>1, ArchiveBlocks DEF Header
    <2>. QED  BY <2>1, <2>2, PaddedIsBlocks DEF Header
  <1>. QED  BY <1>1, <1>2, <1>3, ArchiveAssumption

\* A zero block belongs to no entry, so that it ends the layout.
LEMMA ZeroKeeps ==
  ASSUME ArchiveInv, ReadZero
  PROVE  ArchiveInv'
  <1>0. /\ verdict = "reading" /\ endBlocks < 2 /\ offset < Len(blocks) /\ Header.type = "zero"
        /\ offset' = offset + 1 /\ endBlocks' = endBlocks + 1
        /\ UNCHANGED <<blocks, entriesRead, payload, verdict>>
    BY DEF ReadZero
  <1>1. /\ blocks \in Archives /\ Len(blocks) \in Nat /\ offset \in 0 .. Len(blocks)
        /\ endBlocks \in 0 .. 2 /\ endBlocks <= offset
        /\ Header = blocks[offset + 1] /\ offset + 1 \in 1 .. Len(blocks)
    BY <1>0, ArchiveTypes DEF ArchiveInv
  <1>2. ArchiveShape'
    BY <1>0, <1>1 DEF ArchiveInv, ArchiveShape, ArchiveTypeOK
  <1>3. PICK upto \in Nat : upto = offset - endBlocks /\ upto <= offset
    BY <1>1
  <1>4. offset' - endBlocks' = upto
    BY <1>0, <1>1, <1>3
  <1>5. PICK done \in SUBSET (1 .. Len(blocks)) : ReadAs(done, upto)
    BY <1>0, <1>3 DEF ArchiveInv
  <1>6. ReadAs(done, upto)'
    <2>1. \A k \in upto + 1 .. offset + 1 : blocks[k].type = "zero"
      BY <1>0, <1>1, <1>3, <1>5 DEF ReadAs
    <2>. QED  BY <1>0, <1>5, <2>1 DEF ReadAs, Tiles, SizesOf, SumFunction
  <1>7. ASSUME NEW end \in 0 .. Len(blocks), NEW heads \in SUBSET (1 .. end), LaidOut(end, heads)
        PROVE  Follows(end, heads, upto)'
    <2>1. Follows(end, heads, upto)
      BY <1>0, <1>3, <1>7 DEF ArchiveInv
    <2>2. upto = end
      <3>1. CASE endBlocks > 0
        BY <1>1, <2>1, <3>1 DEF Follows
      <3>2. CASE endBlocks = 0
        <4>1. upto = offset /\ upto <= end
          BY <1>1, <1>3, <2>1, <3>2 DEF Follows
        <4>2. \A h \in heads : h <= upto => h + BlocksOf(blocks[h].size) <= upto
          BY <2>1 DEF Follows, ReadOf
        <4>3. upto + 1 \notin heads
          BY <1>0, <1>1, <1>7, <4>1 DEF LaidOut
        <4>. QED  BY <1>1, <1>7, <4>1, <4>2, <4>3, NextIsHeader DEF LaidOut
      <3>. QED  BY <1>1, <3>1, <3>2
    <2>. QED  BY <1>0, <2>1, <2>2 DEF Follows, ReadOf, SizesOf, SumFunction
  <1>8. ASSUME NEW end \in 0 .. Len(blocks), NEW heads \in SUBSET (1 .. end), LaidOut(end, heads)'
        PROVE  LaidOut(end, heads)
    BY <1>0, <1>8 DEF LaidOut, Tiles
  <1>9. ASSUME NEW end \in 0 .. Len(blocks), NEW heads \in SUBSET (1 .. end), LaidOut(end, heads)'
        PROVE  Follows(end, heads, offset - endBlocks)'
    <2>1. LaidOut(end, heads)
      BY <1>8, <1>9
    <2>2. Follows(end, heads, upto)'
      BY <1>7, <2>1
    <2>. QED  BY <1>4, <2>2 DEF Follows
  <1>10. (verdict # "thrown" /\ verdict # "accepted")'
    BY <1>0
  <1>. QED  BY <1>0, <1>2, <1>4, <1>5, <1>6, <1>9, <1>10 DEF ArchiveInv


\* Where a layout is being read, the next header is one of its own and is admitted.
LEMMA LayoutIsAdmitted ==
  ASSUME ArchiveInv, verdict = "reading", offset < Len(blocks), Header.type # "zero",
         NEW end \in 0 .. Len(blocks), NEW heads \in SUBSET (1 .. end), LaidOut(end, heads)
  PROVE  /\ endBlocks = 0 /\ Follows(end, heads, offset)
         /\ offset + 1 \in heads /\ offset + 1 \notin ReadOf(heads, offset)
         /\ offset + 1 + Padded(Header.size) <= end
         /\ Admitted
  <1>1. /\ blocks \in Archives /\ Len(blocks) \in Nat /\ offset \in 0 .. Len(blocks)
        /\ endBlocks \in 0 .. 2 /\ endBlocks <= offset
        /\ entriesRead \in Nat /\ payload \in Nat /\ MaxFiles \in Nat /\ MaxBytes \in Nat
        /\ Header = blocks[offset + 1] /\ Header.size \in Nat /\ offset + 1 \in 1 .. Len(blocks)
        /\ Padded(Header.size) \in Nat /\ BlocksOf(Header.size) = Padded(Header.size)
    BY ArchiveTypes DEF ArchiveInv
  <1>2. Follows(end, heads, offset - endBlocks)
    BY DEF ArchiveInv
  <1>3. end >= offset + 1
    BY <1>1 DEF LaidOut
  <1>4. endBlocks = 0 /\ Follows(end, heads, offset)
    <2>1. endBlocks = 0
      BY <1>1, <1>2, <1>3 DEF Follows
    <2>2. offset - endBlocks = offset
      BY <1>1, <2>1
    <2>. QED  BY <1>2, <2>1, <2>2
  <1>5. offset + 1 \in heads
    <2>1. \A h \in heads : h <= offset => h + BlocksOf(blocks[h].size) <= offset
      BY <1>4 DEF Follows, ReadOf
    <2>2. offset \in 0 .. end /\ offset # end
      BY <1>1, <1>3
    <2>. QED  BY <1>1, <2>1, <2>2, NextIsHeader DEF LaidOut
  <1>6. offset + 1 \notin ReadOf(heads, offset) /\ ReadOf(heads, offset) \in SUBSET heads
    BY <1>1 DEF ReadOf
  <1>7. /\ Header.type \in {"file", "directory"} /\ (Header.type = "directory" => Header.size = 0)
        /\ offset + 1 + Padded(Header.size) <= end
    BY <1>1, <1>5 DEF LaidOut
  <1>8. heads \in SUBSET (1 .. Len(blocks))
    BY <1>1
  <1>9. PICK more : more = ReadOf(heads, offset) \union {offset + 1}
    OBVIOUS
  <1>10. /\ Cardinality(more) = Cardinality(ReadOf(heads, offset)) + 1
         /\ SumFunction(SizesOf(more)) = SumFunction(SizesOf(ReadOf(heads, offset))) + Header.size
    BY <1>1, <1>6, <1>8, <1>9, OneMoreSize
  <1>11. Cardinality(more) <= Cardinality(heads) /\ SumFunction(SizesOf(more)) <= SumFunction(SizesOf(heads))
    BY <1>1, <1>5, <1>6, <1>8, <1>9, PartOfSizes
  <1>12. Cardinality(heads) <= MaxFiles /\ SumFunction(SizesOf(heads)) <= MaxBytes
    BY DEF LaidOut, SizesOf
  <1>13. entriesRead + 1 <= Cardinality(heads) /\ payload + Header.size <= SumFunction(SizesOf(heads))
    BY <1>4, <1>10, <1>11 DEF Follows
  <1>14. /\ Cardinality(heads) \in Nat /\ SumFunction(SizesOf(heads)) \in Nat
    BY <1>1, <1>8, SizesAreParts
  <1>15. entriesRead < MaxFiles /\ payload + Header.size <= MaxBytes
    <2>1. PICK c \in Nat, p \in Nat : c = Cardinality(heads) /\ p = SumFunction(SizesOf(heads))
      BY <1>14
    <2>2. PICK size \in Nat : size = Header.size
      BY <1>1
    <2>3. entriesRead + 1 <= c /\ payload + size <= p /\ c <= MaxFiles /\ p <= MaxBytes
      BY <1>12, <1>13, <2>1, <2>2
    <2>4. entriesRead < MaxFiles /\ payload + size <= MaxBytes
      BY <1>1, <2>3
    <2>. QED  BY <2>2, <2>4
  <1>16. offset + 1 + Padded(Header.size) <= Len(blocks)
    BY <1>1, <1>7
  <1>. QED  BY <1>4, <1>5, <1>6, <1>7, <1>15, <1>16 DEF Admitted


\* An admitted entry extends the reading by its header and its payload.
LEMMA EntryTiles ==
  ASSUME ArchiveInv, verdict = "reading", offset < Len(blocks), Header.type # "zero", Admitted
  PROVE  \E heads \in SUBSET (1 .. Len(blocks)) :
           LET upto == offset + 1 + Padded(Header.size)
           IN /\ heads \in SUBSET (1 .. upto)
              /\ \A h \in heads : /\ blocks[h].type \in {"file", "directory"}
                                  /\ blocks[h].type = "directory" => blocks[h].size = 0
                                  /\ h + BlocksOf(blocks[h].size) <= upto
              /\ Tiles(heads, upto)
              /\ Cardinality(heads) = entriesRead + 1
              /\ SumFunction(SizesOf(heads)) = payload + Header.size
  <1>1. /\ blocks \in Archives /\ Len(blocks) \in Nat /\ offset \in 0 .. Len(blocks)
        /\ endBlocks = 0
        /\ Header = blocks[offset + 1] /\ Header.size \in Nat /\ offset + 1 \in 1 .. Len(blocks)
        /\ Padded(Header.size) \in Nat /\ BlocksOf(Header.size) = Padded(Header.size)
    BY ArchiveTypes DEF ArchiveInv, Admitted
  <1>2. PICK done \in SUBSET (1 .. Len(blocks)) : ReadAs(done, offset)
    <2>1. offset - endBlocks = offset
      BY <1>1
    <2>. QED  BY <2>1 DEF ArchiveInv
  <1>3. /\ done \in SUBSET (1 .. offset) /\ Tiles(done, offset)
        /\ \A h \in done : /\ blocks[h].type \in {"file", "directory"}
                           /\ blocks[h].type = "directory" => blocks[h].size = 0
                           /\ h + BlocksOf(blocks[h].size) <= offset
        /\ Cardinality(done) = entriesRead /\ SumFunction(SizesOf(done)) = payload
    BY <1>2 DEF ReadAs
  <1>4. \A h \in done : h \in Nat /\ BlocksOf(blocks[h].size) \in Nat
    BY <1>1, PayloadBlocks
  <1>5. PICK more : more = done \union {offset + 1}
    OBVIOUS
  <1>6. PICK upto \in Nat : upto = offset + 1 + Padded(Header.size)
    BY <1>1
  <1>7. upto <= Len(blocks)
    BY <1>6 DEF Admitted
  <1>8. offset + 1 \notin done
    BY <1>1, <1>3
  <1>9. /\ Cardinality(more) = entriesRead + 1
        /\ SumFunction(SizesOf(more)) = payload + Header.size
    BY <1>1, <1>3, <1>5, <1>8, OneMoreSize
  <1>10. Header.type \in {"file", "directory"} /\ (Header.type = "directory" => Header.size = 0)
    BY <1>1, ArchiveBlocks DEF Admitted
  <1>11. \A h \in more : /\ blocks[h].type \in {"file", "directory"}
                         /\ blocks[h].type = "directory" => blocks[h].size = 0
                         /\ h + BlocksOf(blocks[h].size) <= upto
    <2>1. ASSUME NEW h \in done
          PROVE  h + BlocksOf(blocks[h].size) <= upto
      <3>1. PICK n \in Nat : n = BlocksOf(blocks[h].size)
        BY <1>4
      <3>2. h \in Nat /\ h + n <= offset /\ offset <= upto
        BY <1>1, <1>3, <1>4, <1>6, <3>1
      <3>3. h + n <= upto
        BY <1>1, <3>2
      <3>. QED  BY <3>1, <3>3
    <2>2. (offset + 1) + BlocksOf(blocks[offset + 1].size) <= upto
      <3>1. BlocksOf(blocks[offset + 1].size) = Padded(Header.size)
        BY <1>1
      <3>. QED  BY <1>1, <1>6, <3>1
    <2>. QED  BY <1>1, <1>3, <1>5, <1>10, <2>1, <2>2
  <1>12. more \in SUBSET (1 .. upto) /\ more \in SUBSET (1 .. Len(blocks))
    BY <1>1, <1>3, <1>5, <1>6, <1>7
  <1>13. Tiles(more, upto)
    <2>1. ASSUME NEW k \in 1 .. upto, k <= offset
          PROVE  Cardinality({h \in more : h <= k /\ k <= h + BlocksOf(blocks[h].size)}) = 1
      <3>1. k \in 1 .. offset
        BY <1>1, <1>6, <2>1
      <3>2. ~(offset + 1 <= k)
        BY <1>1, <2>1
      <3>3. {h \in more : h <= k /\ k <= h + BlocksOf(blocks[h].size)}
            = {h \in done : h <= k /\ k <= h + BlocksOf(blocks[h].size)}
        BY <1>5, <3>2
      <3>. QED  BY <1>3, <3>1, <3>3 DEF Tiles
    <2>2. ASSUME NEW k \in 1 .. upto, offset < k
          PROVE  Cardinality({h \in more : h <= k /\ k <= h + BlocksOf(blocks[h].size)}) = 1
      <3>1. \A h \in done : ~(k <= h + BlocksOf(blocks[h].size))
        BY <1>1, <1>3, <1>4, <1>6, <2>2
      <3>2. offset + 1 <= k /\ k <= (offset + 1) + BlocksOf(blocks[offset + 1].size)
        BY <1>1, <1>6, <2>2
      <3>3. {h \in more : h <= k /\ k <= h + BlocksOf(blocks[h].size)} = {offset + 1}
        BY <1>5, <3>1, <3>2
      <3>. QED  BY <3>3, FS_Singleton
    <2>. QED  BY <1>1, <1>6, <2>1, <2>2 DEF Tiles
  <1>. QED  BY <1>6, <1>9, <1>11, <1>12, <1>13

LEMMA EntryKeeps ==
  ASSUME ArchiveInv, ReadEntry
  PROVE  ArchiveInv'
  <1>0. /\ verdict = "reading" /\ offset < Len(blocks) /\ Header.type # "zero"
        /\ UNCHANGED <<blocks, endBlocks>>
    BY DEF ReadEntry
  <1>1. /\ blocks \in Archives /\ Len(blocks) \in Nat /\ offset \in 0 .. Len(blocks)
        /\ endBlocks \in 0 .. 2 /\ endBlocks <= offset
        /\ entriesRead \in Nat /\ payload \in Nat /\ MaxFiles \in Nat /\ MaxBytes \in Nat
        /\ Header = blocks[offset + 1] /\ Header.size \in Nat /\ offset + 1 \in 1 .. Len(blocks)
        /\ Padded(Header.size) \in Nat /\ BlocksOf(Header.size) = Padded(Header.size)
    BY <1>0, ArchiveTypes DEF ArchiveInv
  <1>2. ASSUME NEW end \in 0 .. Len(blocks), NEW heads \in SUBSET (1 .. end), LaidOut(end, heads)'
        PROVE  LaidOut(end, heads)
    BY <1>0, <1>2 DEF LaidOut, Tiles
  <1>3. CASE ~Admitted
    <2>1. verdict' = "thrown" /\ UNCHANGED <<offset, entriesRead, payload>>
      BY <1>3 DEF ReadEntry
    <2>2. ArchiveShape'
      BY <1>0, <2>1 DEF ArchiveInv, ArchiveShape, ArchiveTypeOK
    <2>3. ASSUME NEW end \in 0 .. Len(blocks), NEW heads \in SUBSET (1 .. end), LaidOut(end, heads)'
          PROVE  FALSE
      BY <1>0, <1>2, <1>3, <2>3, LayoutIsAdmitted
    <2>. QED  BY <1>0, <2>1, <2>2, <2>3 DEF ArchiveInv
  <1>4. CASE Admitted
    <2>1. PICK upto \in Nat : upto = offset + 1 + Padded(Header.size)
      BY <1>1
    <2>2. /\ offset' = upto /\ entriesRead' = entriesRead + 1 /\ payload' = payload + Header.size
          /\ verdict' = verdict /\ endBlocks = 0 /\ upto <= Len(blocks)
          /\ entriesRead < MaxFiles /\ payload + Header.size <= MaxBytes
      BY <1>4, <2>1 DEF ReadEntry, Admitted
    <2>3. ArchiveShape'
      <3>1. entriesRead' \in 0 .. MaxFiles
        BY <1>1, <2>2
      <3>2. payload' \in 0 .. MaxBytes
        <4>1. PICK size \in Nat : size = Header.size
          BY <1>1
        <4>2. payload' = payload + size /\ payload + size <= MaxBytes
          BY <2>2, <4>1
        <4>. QED  BY <1>1, <4>2
      <3>3. offset' \in 0 .. Len(blocks) /\ endBlocks' <= offset'
        BY <1>0, <1>1, <2>2
      <3>. QED  BY <1>0, <1>1, <2>2, <3>1, <3>2, <3>3 DEF ArchiveShape, ArchiveTypeOK
    <2>4. offset' - endBlocks' = upto
      BY <1>0, <2>2
    <2>5. \E heads \in SUBSET (1 .. Len(blocks)) : ReadAs(heads, upto)'
      <3>1. PICK heads \in SUBSET (1 .. Len(blocks)) :
              /\ heads \in SUBSET (1 .. upto)
              /\ \A h \in heads : /\ blocks[h].type \in {"file", "directory"}
                                  /\ blocks[h].type = "directory" => blocks[h].size = 0
                                  /\ h + BlocksOf(blocks[h].size) <= upto
              /\ Tiles(heads, upto)
              /\ Cardinality(heads) = entriesRead + 1
              /\ SumFunction(SizesOf(heads)) = payload + Header.size
        BY <1>0, <1>4, <2>1, EntryTiles
      <3>2. \A k \in upto + 1 .. offset' : FALSE
        BY <2>2
      <3>3. ReadAs(heads, upto)'
        BY <1>0, <2>2, <3>1, <3>2 DEF ReadAs, Tiles, SizesOf, SumFunction
      <3>. QED  BY <3>3
    <2>6. ASSUME NEW end \in 0 .. Len(blocks), NEW heads \in SUBSET (1 .. end), LaidOut(end, heads)
          PROVE  Follows(end, heads, upto)'
      <3>1. /\ Follows(end, heads, offset) /\ offset + 1 \in heads
            /\ offset + 1 \notin ReadOf(heads, offset) /\ upto <= end
        BY <1>0, <2>1, <2>6, LayoutIsAdmitted
      <3>2. upto \in 1 .. end /\ heads \in SUBSET (1 .. Len(blocks))
        BY <1>1, <2>1, <3>1
      <3>3. ASSUME NEW h \in heads, h <= upto, offset < h
            PROVE  h = offset + 1
        <4>1. h \in 1 .. end /\ BlocksOf(blocks[h].size) \in Nat
          BY <1>1, <3>2, PayloadBlocks
        <4>2. offset + 1 <= h /\ h <= (offset + 1) + BlocksOf(blocks[offset + 1].size)
          <5>1. BlocksOf(blocks[offset + 1].size) = Padded(Header.size)
            BY <1>1
          <5>. QED  BY <1>1, <2>1, <3>3, <4>1, <5>1
        <4>3. h <= h /\ h <= h + BlocksOf(blocks[h].size)
          BY <4>1
        <4>4. Tiles(heads, end)
          BY <2>6 DEF LaidOut
        <4>5. \A g, f \in heads :
                /\ g <= h /\ h <= g + BlocksOf(blocks[g].size)
                /\ f <= h /\ h <= f + BlocksOf(blocks[f].size)
                => g = f
          BY <1>1, <4>1, <4>4, OneEntryPerBlock
        <4>. QED  BY <3>1, <3>3, <4>2, <4>3, <4>5
      <3>4. ReadOf(heads, upto) = ReadOf(heads, offset) \union {offset + 1}
        <4>1. ASSUME NEW h \in heads
              PROVE  h <= upto <=> h <= offset \/ h = offset + 1
          <5>1. h \in Nat
            <6>1. PICK last \in Nat : last = end
              BY <1>1
            <6>2. h \in 1 .. last
              BY <6>1
            <6>. QED  BY <6>2
          <5>2. offset + 1 <= upto /\ offset \in Nat
            <6>1. PICK rest \in Nat : rest = Padded(Header.size)
              BY <1>1
            <6>. QED  BY <1>1, <2>1, <6>1
          <5>3. h <= upto /\ offset < h => h = offset + 1
            BY <3>3
          <5>. QED  BY <5>1, <5>2, <5>3
        <4>. QED  BY <3>1, <4>1 DEF ReadOf
      <3>5. /\ Cardinality(ReadOf(heads, upto)) = Cardinality(ReadOf(heads, offset)) + 1
            /\ SumFunction(SizesOf(ReadOf(heads, upto))) = SumFunction(SizesOf(ReadOf(heads, offset))) + Header.size
        <4>1. ReadOf(heads, offset) \in SUBSET (1 .. Len(blocks))
          BY <3>2 DEF ReadOf
        <4>. QED  BY <1>1, <3>1, <3>4, <4>1, OneMoreSize
      <3>6. \A h \in ReadOf(heads, upto) : h + BlocksOf(blocks[h].size) <= upto
        <4>1. \A h \in heads : h \in Nat /\ BlocksOf(blocks[h].size) \in Nat
          BY <1>1, <3>2, PayloadBlocks
        <4>2. \A h \in ReadOf(heads, offset) : h \in heads /\ h + BlocksOf(blocks[h].size) <= offset
          BY <3>1 DEF Follows, ReadOf
        <4>3. offset <= upto /\ (offset + 1) + BlocksOf(blocks[offset + 1].size) <= upto
          <5>1. BlocksOf(blocks[offset + 1].size) = Padded(Header.size)
            BY <1>1
          <5>. QED  BY <1>1, <2>1, <5>1
        <4>. QED  BY <1>1, <3>4, <4>1, <4>2, <4>3
      <3>7. ~(endBlocks' > 0)
        BY <1>0, <2>2
      <3>8. entriesRead' = Cardinality(ReadOf(heads, upto)) /\ payload' = SumFunction(SizesOf(ReadOf(heads, upto)))
        BY <2>2, <3>1, <3>5 DEF Follows
      <3>. QED  BY <1>0, <3>1, <3>6, <3>7, <3>8 DEF Follows, SizesOf, ReadOf, SumFunction
    <2>7. ASSUME NEW end \in 0 .. Len(blocks), NEW heads \in SUBSET (1 .. end), LaidOut(end, heads)'
          PROVE  Follows(end, heads, offset - endBlocks)'
      <3>1. LaidOut(end, heads)
        BY <1>2, <2>7
      <3>2. Follows(end, heads, upto)'
        BY <2>6, <3>1
      <3>. QED  BY <2>4, <3>2 DEF Follows
    <2>8. (verdict # "thrown" /\ verdict # "accepted")'
      BY <1>0, <2>2
    <2>. QED  BY <1>0, <2>3, <2>4, <2>5, <2>7, <2>8 DEF ArchiveInv
  <1>. QED  BY <1>3, <1>4


\* What is refused at the end has no layout: its reader would stand before two zero blocks.
LEMMA ConcludeKeeps ==
  ASSUME ArchiveInv, ConcludeArchive
  PROVE  ArchiveInv'
  <1>0. /\ verdict = "reading" /\ (endBlocks = 2 \/ offset = Len(blocks))
        /\ verdict' = IF endBlocks = 2 /\ \A k \in offset + 1 .. Len(blocks) : blocks[k].type = "zero"
                      THEN "accepted" ELSE "thrown"
        /\ UNCHANGED <<blocks, offset, entriesRead, payload, endBlocks>>
    BY DEF ConcludeArchive
  <1>1. /\ blocks \in Archives /\ Len(blocks) \in Nat /\ offset \in 0 .. Len(blocks)
        /\ endBlocks \in 0 .. 2 /\ endBlocks <= offset
    BY ArchiveTypes DEF ArchiveInv
  <1>2. ArchiveShape'
    BY <1>0 DEF ArchiveInv, ArchiveShape, ArchiveTypeOK
  <1>3. \E heads \in SUBSET (1 .. Len(blocks)) : ReadAs(heads, offset - endBlocks)'
    <2>1. PICK heads \in SUBSET (1 .. Len(blocks)) : ReadAs(heads, offset - endBlocks)
      BY <1>0 DEF ArchiveInv
    <2>2. ReadAs(heads, offset - endBlocks)'
      BY <1>0, <2>1 DEF ReadAs, Tiles, SizesOf, SumFunction
    <2>. QED  BY <2>2
  <1>4. ASSUME NEW end \in 0 .. Len(blocks), NEW heads \in SUBSET (1 .. end), LaidOut(end, heads)'
        PROVE  verdict' = "accepted"
    <2>1. LaidOut(end, heads)
      BY <1>0, <1>4 DEF LaidOut, Tiles
    <2>2. Follows(end, heads, offset - endBlocks)
      BY <1>0, <2>1 DEF ArchiveInv
    <2>3. /\ Len(blocks) - end >= 2
          /\ \A k \in end + 1 .. Len(blocks) : blocks[k].type = "zero"
      BY <2>1 DEF LaidOut
    <2>4. offset - endBlocks <= end /\ (endBlocks > 0 => offset - endBlocks = end)
      BY <2>2 DEF Follows
    <2>5. endBlocks = 2
      BY <1>0, <1>1, <2>3, <2>4
    <2>6. \A k \in offset + 1 .. Len(blocks) : blocks[k].type = "zero"
      BY <1>1, <2>3, <2>4, <2>5
    <2>. QED  BY <1>0, <2>5, <2>6
  <1>5. verdict' = "accepted" =>
          endBlocks = 2 /\ \A k \in offset + 1 .. Len(blocks) : blocks[k].type = "zero"
    BY <1>0
  <1>6. verdict' \in {"accepted", "thrown"}
    BY <1>0
  <1>. QED  BY <1>0, <1>2, <1>3, <1>4, <1>5, <1>6 DEF ArchiveInv

\* The invariant is kept by every step of the reader, and by none.
LEMMA ArchiveStep ==
  ASSUME ArchiveInv, [ArchiveNext]_archiveVars
  PROVE  ArchiveInv'
  <1>1. CASE ReadZero
    BY <1>1, ZeroKeeps
  <1>2. CASE ReadEntry
    BY <1>2, EntryKeeps
  <1>3. CASE ConcludeArchive
    BY <1>3, ConcludeKeeps
  <1>4. CASE UNCHANGED archiveVars
    <2>1. UNCHANGED <<blocks, offset, entriesRead, payload, endBlocks, verdict>>
      BY <1>4 DEF archiveVars
    <2>2. ArchiveShape'
      BY <2>1 DEF ArchiveInv, ArchiveShape, ArchiveTypeOK
    <2>3. (offset - endBlocks)' = offset - endBlocks
      BY <2>1
    <2>4. \A heads : ReadAs(heads, offset - endBlocks) => ReadAs(heads, offset - endBlocks)'
      BY <2>1 DEF ReadAs, Tiles, SizesOf, SumFunction
    <2>5. \A end, heads : LaidOut(end, heads)' => LaidOut(end, heads)
      BY <2>1 DEF LaidOut, Tiles
    <2>6. \A end, heads : Follows(end, heads, offset - endBlocks) => Follows(end, heads, offset - endBlocks)'
      BY <2>1 DEF Follows, ReadOf, SizesOf, SumFunction
    <2>. QED  BY <2>1, <2>2, <2>4, <2>5, <2>6 DEF ArchiveInv
  <1>. QED  BY <1>1, <1>2, <1>3, <1>4 DEF ArchiveNext

-----------------------------------------------------------------------------
(* The budgets of a family.  What a run has left over is on the level below    *)
(* it or nowhere: a level and what is left over above it are the level above.  *)

room == [p \in Family |-> family[p].budget - Allocated(p)]

FamilyShape ==
  /\ family \in Seq([parent : Nat, depth : Nat, budget : Nat]) /\ Len(family) \in Nat \ {0}
  /\ usage \in Seq(Nat) /\ Len(usage) = Len(family)
  /\ \A n \in Family : family[n].parent < n

LevelsInv(levels) ==
  \A d \in levels :
    /\ SumFunctionOnSet(budgetOf, Level(d + 1)) + SumFunctionOnSet(room, Level(d))
       = SumFunctionOnSet(budgetOf, Level(d))
    /\ SumFunctionOnSet(budgetOf, Level(d)) <= RootBudget

BudgetInv ==
  /\ FamilyShape
  /\ \A p \in Family : Allocated(p) <= family[p].budget
  /\ LevelsInv(Nat)


LEMMA SumOfOne ==
  ASSUME NEW w, NEW y, w[y] \in Nat
  PROVE  SumFunctionOnSet(w, {y}) = w[y]
  <1>1. SumFunctionOnSet(w, {} \union {y}) = w[y] + SumFunctionOnSet(w, {})
    BY FS_EmptySet, SumWith
  <1>. QED  BY <1>1, SumOfNone

\* One summand is another.
LEMMA SumOtherwise ==
  ASSUME NEW S, IsFiniteSet(S), NEW w, NEW v, \A x \in S : w[x] \in Nat /\ v[x] \in Nat,
         NEW y \in S, \A x \in S \ {y} : v[x] = w[x]
  PROVE  SumFunctionOnSet(v, S) + w[y] = SumFunctionOnSet(w, S) + v[y]
  <1>1. IsFiniteSet(S \ {y})
    BY FS_Subset
  <1>2. SumFunctionOnSet(w, S) = w[y] + SumFunctionOnSet(w, S \ {y})
    BY SumWithout
  <1>3. SumFunctionOnSet(v, S) = v[y] + SumFunctionOnSet(v, S \ {y})
    BY SumWithout
  <1>4. SumFunctionOnSet(v, S \ {y}) = SumFunctionOnSet(w, S \ {y})
    BY <1>1, SumsEqual
  <1>5. SumFunctionOnSet(w, S \ {y}) \in Nat
    BY <1>1, SumIsNumber
  <1>. QED  BY <1>2, <1>3, <1>4, <1>5


LEMMA FamilyValues ==
  ASSUME FamilyShape
  PROVE  /\ Family = 1 .. Len(family) /\ IsFiniteSet(Family) /\ Len(family) \in Nat \ {0}
         /\ \A n \in Family :
              /\ family[n].parent \in Nat /\ family[n].depth \in Nat /\ family[n].budget \in Nat
              /\ family[n].parent < n /\ usage[n] \in Nat /\ budgetOf[n] = family[n].budget
         /\ \A d \in Nat : IsFiniteSet(Level(d)) /\ Level(d) \in SUBSET Family
                           /\ SumFunctionOnSet(budgetOf, Level(d)) \in Nat
         /\ \A p \in Family : /\ IsFiniteSet(Children(p)) /\ Children(p) \in SUBSET Family
                              /\ Allocated(p) \in Nat
  <1>1. Family = 1 .. Len(family) /\ Len(family) \in Nat \ {0}
    BY DEF FamilyShape, Family
  <1>2. IsFiniteSet(Family)
    BY <1>1, FS_Interval
  <1>3. \A n \in Family :
          /\ family[n].parent \in Nat /\ family[n].depth \in Nat /\ family[n].budget \in Nat
          /\ family[n].parent < n /\ usage[n] \in Nat /\ budgetOf[n] = family[n].budget
    <2>1. ASSUME NEW n \in Family
          PROVE  /\ family[n] \in [parent : Nat, depth : Nat, budget : Nat]
                 /\ family[n].parent < n /\ usage[n] \in Nat /\ budgetOf[n] = family[n].budget
      <3>1. n \in 1 .. Len(family) /\ n \in 1 .. Len(usage)
        BY <1>1 DEF FamilyShape
      <3>2. family[n] \in [parent : Nat, depth : Nat, budget : Nat] /\ usage[n] \in Nat
        <4>1. family \in Seq([parent : Nat, depth : Nat, budget : Nat]) /\ usage \in Seq(Nat)
          BY DEF FamilyShape
        <4>. QED  BY <3>1, <4>1, ElementOfSeq
      <3>. QED  BY <3>2 DEF FamilyShape, budgetOf
    <2>. QED  BY <2>1
  <1>4. ASSUME NEW S \in SUBSET Family
        PROVE  IsFiniteSet(S) /\ SumFunctionOnSet(budgetOf, S) \in Nat
    <2>1. \A x \in S : budgetOf[x] \in Nat
      BY <1>3
    <2>. QED  BY <1>2, <2>1, FS_Subset, SumIsNumber
  <1>5. \A d \in Nat : Level(d) \in SUBSET Family
    BY DEF Level
  <1>6. \A p \in Family : Children(p) \in SUBSET Family
    BY DEF Children
  <1>. QED  BY <1>1, <1>2, <1>3, <1>4, <1>5, <1>6 DEF Allocated

LEMMA BudgetInitial == BudgetInit => BudgetInv
  <1> SUFFICES ASSUME BudgetInit PROVE BudgetInv
    OBVIOUS
  <1>1. RootBudget \in Nat /\ Unreported \in Nat
    BY BudgetAssumption DEF Unreported
  <1>2. /\ family = <<[parent |-> 0, depth |-> 0, budget |-> RootBudget]>> /\ Len(family) = 1
        /\ Family = {1} /\ family[1] = [parent |-> 0, depth |-> 0, budget |-> RootBudget]
    BY DEF BudgetInit, Family
  <1>3. FamilyShape
    <2>1. [parent |-> 0, depth |-> 0, budget |-> RootBudget] \in [parent : Nat, depth : Nat, budget : Nat]
      BY <1>1
    <2>2. usage \in Seq(Nat) /\ Len(usage) = 1
      BY <1>1 DEF BudgetInit
    <2>3. family \in Seq([parent : Nat, depth : Nat, budget : Nat])
      BY <1>2, <2>1
    <2>. QED  BY <1>2, <2>2, <2>3 DEF FamilyShape
  <1>4. Allocated(1) = 0
    <2>1. Children(1) = {}
      BY <1>2 DEF Children
    <2>. QED  BY <2>1, SumOfNone DEF Allocated
  <1>5. budgetOf[1] = RootBudget /\ room[1] = RootBudget
    BY <1>1, <1>2, <1>4 DEF budgetOf, room
  <1>6. Level(0) = {1} /\ \A d \in Nat : Level(d + 1) = {}
    BY <1>2 DEF Level
  <1>7. SumFunctionOnSet(budgetOf, {1}) = RootBudget /\ SumFunctionOnSet(room, {1}) = RootBudget
    BY <1>1, <1>5, SumOfOne
  <1>8. ASSUME NEW d \in Nat
        PROVE  /\ SumFunctionOnSet(budgetOf, Level(d + 1)) + SumFunctionOnSet(room, Level(d))
                  = SumFunctionOnSet(budgetOf, Level(d))
               /\ SumFunctionOnSet(budgetOf, Level(d)) <= RootBudget
    <2>1. CASE d = 0
      BY <1>1, <1>6, <1>7, <2>1, SumOfNone
    <2>2. CASE d # 0
      <3>1. Level(d) = {}
        <4>1. PICK c \in Nat : d = c + 1
          BY <2>2
        <4>. QED  BY <1>6, <4>1
      <3>. QED  BY <1>1, <1>6, <3>1, SumOfNone
    <2>. QED  BY <2>1, <2>2
  <1>. QED  BY <1>1, <1>2, <1>3, <1>4, <1>8 DEF BudgetInv, LevelsInv

LEMMA BudgetSuffices == BudgetInv => LevelsStayInBudget
  <1>1. 0 .. MaxDepth \in SUBSET Nat
    BY BudgetAssumption
  <1>. QED  BY <1>1 DEF BudgetInv, LevelsInv, LevelsStayInBudget

\* What a subagent is given was left over to its parent, and its row comes after the others.
LEMMA ChildIsGranted ==
  ASSUME BudgetInv, NEW p \in Family, CreateChild(p)
  PROVE  \E b \in Nat, m \in Nat :
           /\ b + Allocated(p) <= family[p].budget /\ m = Len(family) + 1
           /\ Family' = Family \union {m} /\ m \notin Family /\ p # m
           /\ \A n \in Family : family'[n] = family[n]
           /\ family'[m] = [parent |-> p, depth |-> family[p].depth + 1, budget |-> b]
           /\ FamilyShape'
  <1>0. FamilyShape
    BY DEF BudgetInv
  <1>1. PICK b \in Grantable(p) :
          family' = Append(family, [parent |-> p, depth |-> family[p].depth + 1, budget |-> b])
    BY DEF CreateChild
  <1>2. /\ p \in Nat /\ family[p].depth \in Nat /\ family[p].budget \in Nat /\ usage[p] \in Nat
        /\ Allocated(p) \in Nat /\ Family = 1 .. Len(family) /\ Len(family) \in Nat \ {0}
    BY <1>0, FamilyValues
  <1>3. b \in Nat /\ b + Allocated(p) <= family[p].budget
    <2>1. PICK gone \in Nat : gone = usage[p] + Allocated(p)
      BY <1>2
    <2>2. Remaining(p) = IF usage[p] = Unreported \/ gone >= family[p].budget THEN 0 ELSE family[p].budget - gone
      BY <2>1 DEF Remaining
    <2>3. b \in 1 .. Remaining(p)
      BY DEF Grantable
    <2>4. CASE usage[p] = Unreported \/ gone >= family[p].budget
      BY <2>2, <2>3, <2>4
    <2>5. CASE ~(usage[p] = Unreported \/ gone >= family[p].budget)
      <3>1. PICK used \in Nat, shared \in Nat, whole \in Nat :
              used = usage[p] /\ shared = Allocated(p) /\ whole = family[p].budget
        BY <1>2
      <3>2. Remaining(p) = whole - gone /\ gone = used + shared
        BY <2>1, <2>2, <2>5, <3>1
      <3>3. b \in Nat /\ b <= whole - gone
        BY <2>3, <3>2
      <3>4. b + shared <= whole
        BY <3>2, <3>3
      <3>. QED  BY <3>1, <3>3, <3>4
    <2>. QED  BY <2>4, <2>5
  <1>4. PICK m \in Nat, e \in Nat : m = Len(family) + 1 /\ e = family[p].depth
    BY <1>2
  <1>5. /\ Family' = Family \union {m} /\ m \notin Family /\ p # m
        /\ \A n \in Family : family'[n] = family[n]
        /\ family'[m] = [parent |-> p, depth |-> e + 1, budget |-> b]
    <2>1. family \in Seq([parent : Nat, depth : Nat, budget : Nat])
      BY <1>0 DEF FamilyShape
    <2>2. DOMAIN family' = 1 .. m /\ \A n \in 1 .. m : family'[n] = IF n = m
                THEN [parent |-> p, depth |-> family[p].depth + 1, budget |-> b] ELSE family[n]
      <3>1. PICK last : last = [parent |-> p, depth |-> family[p].depth + 1, budget |-> b]
        OBVIOUS
      <3>2. last \in [parent : Nat, depth : Nat, budget : Nat]
        BY <1>2, <1>3, <3>1
      <3>3. family' = Append(family, last)
        BY <1>1, <3>1
      <3>4. family' \in Seq([parent : Nat, depth : Nat, budget : Nat]) /\ Len(family') = m
        BY <1>4, <2>1, <3>2, <3>3, AppendProperties
      <3>5. \A n \in 1 .. Len(family) : family'[n] = family[n]
        BY <2>1, <3>2, <3>3, AppendProperties
      <3>6. family'[m] = last
        BY <1>4, <2>1, <3>2, <3>3, AppendProperties
      <3>7. DOMAIN family' = 1 .. m
        BY <3>4
      <3>8. \A n \in 1 .. m : n # m => n \in 1 .. Len(family)
        BY <1>2, <1>4
      <3>. QED  BY <3>1, <3>5, <3>6, <3>7, <3>8
    <2>3. Family' = 1 .. m /\ 1 .. m = Family \union {m} /\ m \notin Family
      BY <1>2, <1>4, <2>2 DEF Family
    <2>. QED  BY <1>4, <2>2, <2>3
  <1>6. FamilyShape'
    <2>1. [parent |-> p, depth |-> family[p].depth + 1, budget |-> b] \in [parent : Nat, depth : Nat, budget : Nat]
      BY <1>2, <1>3
    <2>2. family' \in Seq([parent : Nat, depth : Nat, budget : Nat]) /\ Len(family') = Len(family) + 1
      BY <1>0, <1>1, <2>1 DEF FamilyShape
    <2>3. usage' \in Seq(Nat) /\ Len(usage') = Len(usage) + 1
      <3>1. Unreported \in Nat
        BY BudgetAssumption DEF Unreported
      <3>2. usage' = Append(usage, Unreported) /\ usage \in Seq(Nat)
        BY <1>0 DEF CreateChild, FamilyShape
      <3>. QED  BY <3>1, <3>2
    <2>4. ASSUME NEW n \in Family' PROVE family'[n].parent < n
      <3>1. CASE n \in Family
        BY <1>0, <1>5, <3>1 DEF FamilyShape
      <3>2. CASE n = m
        <4>1. p \in 1 .. Len(family) /\ Len(family) \in Nat
          BY <1>2
        <4>2. p < m
          BY <1>4, <4>1
        <4>. QED  BY <1>5, <3>2, <4>2
      <3>. QED  BY <1>5, <3>1, <3>2
    <2>. QED  BY <1>0, <2>2, <2>3, <2>4 DEF FamilyShape
  <1>. QED  BY <1>3, <1>4, <1>5, <1>6

\* A level and what is left over above it stay the level above.
LEMMA ChildKeeps ==
  ASSUME BudgetInv, NEW p \in Family, CreateChild(p)
  PROVE  BudgetInv'
  <1>0. /\ FamilyShape /\ LevelsInv(Nat)
        /\ \A q \in Family : Allocated(q) \in Nat /\ Allocated(q) <= family[q].budget
    BY FamilyValues DEF BudgetInv
  <1>1. PICK b \in Nat, m \in Nat :
          /\ b + Allocated(p) <= family[p].budget /\ m = Len(family) + 1
          /\ Family' = Family \union {m} /\ m \notin Family /\ p # m
          /\ \A n \in Family : family'[n] = family[n]
          /\ family'[m] = [parent |-> p, depth |-> family[p].depth + 1, budget |-> b]
          /\ FamilyShape'
    BY ChildIsGranted
  <1>2. /\ p \in Nat /\ family[p].depth \in Nat /\ family[p].budget \in Nat /\ usage[p] \in Nat
        /\ Allocated(p) \in Nat /\ Family = 1 .. Len(family) /\ Len(family) \in Nat \ {0}
    BY <1>0, FamilyValues
  <1>3. b \in Nat /\ b + Allocated(p) <= family[p].budget
    BY <1>1
  <1>4. PICK e \in Nat : m = Len(family) + 1 /\ e = family[p].depth
    BY <1>1, <1>2
  <1>5. /\ Family' = Family \union {m} /\ m \notin Family /\ p # m
        /\ \A n \in Family : family'[n] = family[n]
        /\ family'[m] = [parent |-> p, depth |-> e + 1, budget |-> b]
    BY <1>1, <1>4
  <1>6. FamilyShape'
    BY <1>1
  <1>7. PICK paid : paid = budgetOf'
    OBVIOUS
  <1>8. paid[m] = b /\ \A n \in Family : paid[n] = budgetOf[n] /\ budgetOf[n] \in Nat
    <2>1. \A n \in Family' : paid[n] = family'[n].budget
      BY <1>7 DEF budgetOf
    <2>2. \A n \in Family : budgetOf[n] = family[n].budget /\ family[n].budget \in Nat
      BY <1>0, FamilyValues
    <2>. QED  BY <1>5, <2>1, <2>2
  <1>9. Level(e + 1)' = Level(e + 1) \union {m} /\ \A d \in Nat : d # e + 1 => Level(d)' = Level(d)
    BY <1>5 DEF Level
  <1>10. /\ Children(p)' = Children(p) \union {m} /\ Children(m)' = {}
         /\ \A q \in Family : q # p => Children(q)' = Children(q)
    <2>1. \A n \in Family : family[n].parent # m
      <3>1. \A n \in Family : n \in 1 .. Len(family) /\ family[n].parent \in Nat /\ family[n].parent < n
        BY <1>0, <1>2, FamilyValues
      <3>. QED  BY <1>2, <1>4, <3>1
    <2>. QED  BY <1>5, <2>1 DEF Children
  <1>11. ASSUME NEW S \in SUBSET Family
         PROVE  /\ SumFunctionOnSet(paid, S) = SumFunctionOnSet(budgetOf, S)
                /\ SumFunctionOnSet(paid, S) \in Nat
                /\ SumFunctionOnSet(paid, S \union {m}) = b + SumFunctionOnSet(budgetOf, S)
    <2>1. IsFiniteSet(S)
      BY <1>0, FamilyValues, FS_Subset
    <2>2. SumFunctionOnSet(budgetOf, S) = SumFunctionOnSet(paid, S)
      BY <1>8, <2>1, SumsEqual
    <2>3. SumFunctionOnSet(budgetOf, S) \in Nat
      BY <1>8, <2>1, SumIsNumber
    <2>4. m \notin S /\ \A x \in S \union {m} : paid[x] \in Nat
      BY <1>3, <1>5, <1>8
    <2>5. SumFunctionOnSet(paid, S \union {m}) = paid[m] + SumFunctionOnSet(paid, S)
      BY <2>1, <2>4, SumWith
    <2>. QED  BY <1>8, <2>2, <2>3, <2>5
  <1>12. /\ Allocated(p)' = b + Allocated(p) /\ Allocated(m)' = 0
         /\ \A q \in Family : q # p => Allocated(q)' = Allocated(q)
    <2>1. \A q : Allocated(q)' = SumFunctionOnSet(paid, Children(q)')
      BY <1>7 DEF Allocated
    <2>2. \A q \in Family : Children(q) \in SUBSET Family /\ Allocated(q) = SumFunctionOnSet(budgetOf, Children(q))
      BY DEF Allocated, Children
    <2>3. Allocated(m)' = 0
      BY <1>10, <2>1, SumOfNone
    <2>4. Allocated(p)' = b + Allocated(p)
      BY <1>10, <1>11, <2>1, <2>2
    <2>5. ASSUME NEW q \in Family, q # p PROVE Allocated(q)' = Allocated(q)
      BY <1>10, <1>11, <2>1, <2>2, <2>5
    <2>. QED  BY <2>3, <2>4, <2>5
  <1>13. \A q \in Family' : Allocated(q)' <= family'[q].budget
    <2>1. ASSUME NEW q \in Family, q # p PROVE Allocated(q)' <= family'[q].budget
      <3>1. Allocated(q) <= family[q].budget
        BY <1>0
      <3>2. Allocated(q)' = Allocated(q) /\ family'[q] = family[q]
        BY <1>5, <1>12, <2>1
      <3>. QED  BY <3>1, <3>2
    <2>2. Allocated(p)' <= family'[p].budget
      <3>1. family'[p] = family[p] /\ Allocated(p)' = b + Allocated(p)
        BY <1>1, <1>5, <1>12
      <3>. QED  BY <1>3, <3>1
    <2>3. Allocated(m)' <= family'[m].budget
      <3>1. family'[m].budget = b /\ Allocated(m)' = 0
        BY <1>5, <1>12
      <3>. QED  BY <1>3, <3>1
    <2>. QED  BY <1>5, <2>1, <2>2, <2>3
  <1>14. PICK left : left = room'
    OBVIOUS
  <1>15. /\ left[m] = b /\ left[p] + b = room[p] /\ left[p] \in Nat
         /\ \A q \in Family : room[q] \in Nat /\ (q # p => left[q] = room[q])
    <2>1. \A q \in Family' : left[q] = family'[q].budget - Allocated(q)'
      BY <1>14 DEF room
    <2>2. \A q \in Family : room[q] = family[q].budget - Allocated(q) /\ room[q] \in Nat
      <3>1. \A q \in Family : Allocated(q) \in Nat /\ family[q].budget \in Nat
        BY <1>0, FamilyValues
      <3>. QED  BY <1>0, <3>1 DEF room
    <2>3. left[m] = b
      BY <1>3, <1>5, <1>12, <2>1
    <2>4. left[p] = family[p].budget - (b + Allocated(p)) /\ room[p] = family[p].budget - Allocated(p)
      BY <1>5, <1>12, <2>1, <2>2
    <2>5. left[p] + b = room[p] /\ left[p] \in Nat
      BY <1>2, <1>3, <2>4
    <2>6. \A q \in Family : q # p => left[q] = room[q]
      BY <1>5, <1>12, <2>1, <2>2
    <2>. QED  BY <2>2, <2>3, <2>5, <2>6
  <1>16. ASSUME NEW S \in SUBSET Family
         PROVE  /\ SumFunctionOnSet(left, S) \in Nat
                /\ SumFunctionOnSet(room, S) \in Nat
                /\ p \in S => SumFunctionOnSet(left, S) + b = SumFunctionOnSet(room, S)
                /\ p \notin S => SumFunctionOnSet(left, S) = SumFunctionOnSet(room, S)
                /\ SumFunctionOnSet(left, S \union {m}) = b + SumFunctionOnSet(left, S)
    <2>1. IsFiniteSet(S) /\ m \notin S
      BY <1>0, <1>5, FamilyValues, FS_Subset
    <2>2. \A x \in S : room[x] \in Nat /\ left[x] \in Nat
      BY <1>15
    <2>3. SumFunctionOnSet(left, S) \in Nat /\ SumFunctionOnSet(room, S) \in Nat
      BY <2>1, <2>2, SumIsNumber
    <2>4. ASSUME p \in S
          PROVE  SumFunctionOnSet(left, S) + b = SumFunctionOnSet(room, S)
      <3>1. SumFunctionOnSet(left, S) + room[p] = SumFunctionOnSet(room, S) + left[p]
        BY <1>15, <2>1, <2>2, <2>4, SumOtherwise
      <3>. QED  BY <1>3, <1>15, <2>3, <3>1
    <2>5. ASSUME p \notin S
          PROVE  SumFunctionOnSet(left, S) = SumFunctionOnSet(room, S)
      <3>1. \A x \in S : left[x] = room[x]
        BY <1>15, <2>5
      <3>. QED  BY <2>1, <2>2, <3>1, SumsEqual
    <2>6. \A x \in S \union {m} : left[x] \in Nat
      BY <1>3, <1>15, <2>2
    <2>7. SumFunctionOnSet(left, S \union {m}) = left[m] + SumFunctionOnSet(left, S)
      BY <2>1, <2>6, SumWith
    <2>. QED  BY <1>15, <2>3, <2>4, <2>5, <2>7
  <1>17. \A d \in Nat : Level(d) \in SUBSET Family /\ (p \in Level(d) <=> d = e)
    BY <1>4 DEF Level
  <1>18. ASSUME NEW d \in Nat
         PROVE  /\ SumFunctionOnSet(paid, Level(d + 1)') + SumFunctionOnSet(left, Level(d)')
                   = SumFunctionOnSet(paid, Level(d)')
                /\ SumFunctionOnSet(paid, Level(d)') <= RootBudget
    <2> DEFINE Sum(c) == SumFunctionOnSet(budgetOf, Level(c))
               Rest(c) == SumFunctionOnSet(room, Level(c))
               NewSum(c) == SumFunctionOnSet(paid, Level(c)')
               NewRest(c) == SumFunctionOnSet(left, Level(c)')
    <2>1. RootBudget \in Nat /\ \A c \in Nat : Sum(c) \in Nat /\ Rest(c) \in Nat /\ c + 1 \in Nat
      <3>1. RootBudget \in Nat
        BY BudgetAssumption
      <3>2. \A c \in Nat : Sum(c) \in Nat
        BY <1>0, FamilyValues
      <3>3. \A c \in Nat : Rest(c) \in Nat
        BY <1>16, <1>17
      <3>. QED  BY <3>1, <3>2, <3>3
    <2>2. \A c \in Nat : Sum(c + 1) + Rest(c) = Sum(c) /\ Sum(c) <= RootBudget
      BY <1>0 DEF LevelsInv
    <2>3. \A c \in Nat : NewSum(c) = IF c = e + 1 THEN b + Sum(c) ELSE Sum(c)
      BY <1>9, <1>11, <1>17
    <2>4. \A c \in Nat : c # e => (c = e + 1 => NewRest(c) = b + Rest(c)) /\ (c # e + 1 => NewRest(c) = Rest(c))
      BY <1>9, <1>16, <1>17
    <2>5. NewRest(e) + b = Rest(e) /\ NewRest(e) \in Nat
      <3>1. e \in Nat /\ e # e + 1
        BY <1>4
      <3>2. Level(e)' = Level(e) /\ Level(e) \in SUBSET Family /\ p \in Level(e)
        BY <1>9, <1>17, <3>1
      <3>. QED  BY <1>16, <3>2
    <2> HIDE DEF Sum, Rest, NewSum, NewRest
    <2>6. NewSum(d + 1) + NewRest(d) = NewSum(d)
      <3>1. CASE d = e
        BY <1>3, <2>1, <2>2, <2>3, <2>5, <3>1
      <3>2. CASE d = e + 1
        BY <1>3, <2>1, <2>2, <2>3, <2>4, <3>2
      <3>3. CASE d # e /\ d # e + 1
        BY <1>3, <2>1, <2>2, <2>3, <2>4, <3>3
      <3>. QED  BY <3>1, <3>2, <3>3
    <2>7. NewSum(d) <= RootBudget
      <3>1. CASE d = e + 1
        BY <1>3, <2>1, <2>2, <2>3, <2>5, <3>1
      <3>2. CASE d # e + 1
        BY <2>2, <2>3, <3>2
      <3>. QED  BY <3>1, <3>2
    <2>. QED  BY <2>6, <2>7 DEF Sum, Rest, NewSum, NewRest
  <1>19. LevelsInv(Nat)'
    BY <1>7, <1>14, <1>18 DEF LevelsInv
  <1>. QED  BY <1>6, <1>13, <1>19 DEF BudgetInv

LEMMA BudgetStep ==
  ASSUME BudgetInv, [BudgetNext]_budgetVars
  PROVE  BudgetInv'
  <1>1. ASSUME UNCHANGED family, usage' \in Seq(Nat), Len(usage') = Len(usage)
        PROVE  BudgetInv'
    <2>1. FamilyShape' /\ Family' = Family /\ budgetOf' = budgetOf
      BY <1>1 DEF BudgetInv, FamilyShape, Family, budgetOf
    <2>2. \A q : Children(q)' = Children(q) /\ Allocated(q)' = Allocated(q)
      BY <1>1, <2>1 DEF Children, Allocated
    <2>3. room' = room /\ \A d : Level(d)' = Level(d)
      BY <1>1, <2>1, <2>2 DEF room, Level
    <2>. QED  BY <1>1, <2>1, <2>2, <2>3 DEF BudgetInv, LevelsInv
  <1>2. usage \in Seq(Nat) /\ Len(usage) = Len(family) /\ Unreported \in Nat
    BY BudgetAssumption DEF BudgetInv, FamilyShape, Unreported
  <1>3. ASSUME NEW n \in Family, CreateChild(n) PROVE BudgetInv'
    BY <1>3, ChildKeeps
  <1>4. ASSUME NEW n \in Family, Spend(n) PROVE BudgetInv'
    <2>1. usage[n] \in Nat
      <3>1. FamilyShape
        BY DEF BudgetInv
      <3>. QED  BY <1>4, <3>1, FamilyValues
    <2>2. PICK more \in Nat : more = IF usage[n] = Unreported THEN 0 ELSE usage[n] + 1
      BY <2>1
    <2>3. usage' = [usage EXCEPT ![n] = more]
      BY <1>4, <2>2 DEF Spend
    <2>4. usage' \in Seq(Nat) /\ Len(usage') = Len(usage)
      <3>1. n \in 1 .. Len(usage)
        BY <1>2, <1>4, FamilyValues DEF BudgetInv
      <3>. QED  BY <1>2, <2>2, <2>3, <3>1, ExceptSeq
    <2>. QED  BY <1>1, <1>4, <2>4 DEF Spend
  <1>5. ASSUME NEW n \in Family, EndOf(n) PROVE BudgetInv'
    BY <1>1, <1>2, <1>5 DEF EndOf
  <1>6. CASE UNCHANGED budgetVars
    BY <1>1, <1>2, <1>6 DEF budgetVars
  <1>. QED  BY <1>3, <1>4, <1>5, <1>6 DEF BudgetNext

\* Nobody has more than the root, spends much beyond what it has, or is deeper than allowed.
FamilyBounds ==
  /\ Len(family) <= MaxFamily /\ ended \subseteq Family
  /\ \A n \in Family :
       /\ family[n].depth <= MaxDepth /\ family[n].budget <= RootBudget /\ usage[n] <= Unreported

\* The bounds and the shape of the family are its type.
LEMMA BoundsSuffice == BudgetInv /\ FamilyBounds => BudgetTypeOK
  <1> SUFFICES ASSUME BudgetInv, FamilyBounds PROVE BudgetTypeOK
    OBVIOUS
  <1>1. FamilyShape /\ MaxDepth \in Nat /\ MaxFamily \in Nat /\ Unreported \in Nat
    BY BudgetAssumption DEF BudgetInv, Unreported
  <1>2. ASSUME NEW n \in Family
        PROVE  /\ family[n].parent \in 0 .. n - 1 /\ family[n].depth \in 0 .. MaxDepth
               /\ usage[n] \in 0 .. Unreported
    <2>1. PICK parent \in Nat, depth \in Nat, used \in Nat :
            /\ parent = family[n].parent /\ depth = family[n].depth /\ used = usage[n]
            /\ parent < n /\ n \in Nat
      <3>1. n \in Nat
        <4>1. n \in 1 .. Len(family) /\ Len(family) \in Nat
          BY <1>1, <1>2, FamilyValues
        <4>. QED  BY <4>1
      <3>2. /\ family[n].parent \in Nat /\ family[n].depth \in Nat /\ usage[n] \in Nat
            /\ family[n].parent < n
        BY <1>1, <1>2, FamilyValues
      <3>. QED  BY <3>1, <3>2
    <2>2. depth <= MaxDepth /\ used <= Unreported
      BY <1>2, <2>1 DEF FamilyBounds
    <2>3. parent \in 0 .. n - 1 /\ depth \in 0 .. MaxDepth /\ used \in 0 .. Unreported
      BY <1>1, <2>1, <2>2
    <2>. QED  BY <2>1, <2>3
  <1>3. Len(family) \in 1 .. MaxFamily /\ Len(usage) = Len(family)
    BY <1>1 DEF FamilyShape, FamilyBounds
  <1>. QED  BY <1>2, <1>3 DEF BudgetTypeOK, FamilyBounds

LEMMA BoundsInitial == BudgetInit => FamilyBounds
  <1> SUFFICES ASSUME BudgetInit PROVE FamilyBounds
    OBVIOUS
  <1>1. /\ RootBudget \in Nat /\ MaxDepth \in Nat /\ MaxFamily \in Nat \ {0} /\ Unreported \in Nat
    BY BudgetAssumption DEF Unreported
  <1>2. /\ Len(family) = 1 /\ Family = {1} /\ family[1] = [parent |-> 0, depth |-> 0, budget |-> RootBudget]
        /\ usage[1] = Unreported /\ ended = {}
    BY DEF BudgetInit, Family
  <1>. QED  BY <1>1, <1>2 DEF FamilyBounds

\* A subagent is one level deeper, with a part of what its parent has; a run goes at most
\* one step beyond its budget.
LEMMA BoundsStep ==
  ASSUME BudgetInv, FamilyBounds, [BudgetNext]_budgetVars
  PROVE  FamilyBounds'
  <1>0. /\ FamilyShape /\ RootBudget \in Nat /\ MaxDepth \in Nat /\ MaxFamily \in Nat
        /\ Unreported = RootBudget + 2
        /\ usage \in Seq(Nat) /\ Len(usage) = Len(family) /\ Family = 1 .. Len(family)
    BY BudgetAssumption, FamilyValues DEF BudgetInv, FamilyShape, Unreported
  <1>1. ASSUME NEW p \in Family, CreateChild(p) PROVE FamilyBounds'
    <2>1. PICK b \in Nat, m \in Nat :
            /\ b + Allocated(p) <= family[p].budget /\ m = Len(family) + 1
            /\ Family' = Family \union {m} /\ m \notin Family /\ p # m
            /\ \A n \in Family : family'[n] = family[n]
            /\ family'[m] = [parent |-> p, depth |-> family[p].depth + 1, budget |-> b]
            /\ FamilyShape'
      BY <1>1, ChildIsGranted
    <2>2. PICK depth \in Nat, whole \in Nat, shared \in Nat :
            depth = family[p].depth /\ whole = family[p].budget /\ shared = Allocated(p)
      BY <1>0, <1>1, FamilyValues
    <2>3. depth < MaxDepth /\ whole <= RootBudget /\ Len(family) < MaxFamily /\ ended' = ended
      BY <1>1, <2>2 DEF CreateChild, FamilyBounds
    <2>4. family'[m].depth <= MaxDepth /\ family'[m].budget <= RootBudget
      <3>1. family'[m].depth = depth + 1 /\ family'[m].budget = b /\ b + shared <= whole
        BY <2>1, <2>2
      <3>2. RootBudget \in Nat /\ MaxDepth \in Nat /\ depth < MaxDepth /\ whole <= RootBudget
        BY <1>0, <2>3
      <3>3. depth + 1 <= MaxDepth
        BY <3>2
      <3>4. b <= RootBudget
        <4>1. b + shared <= whole
          BY <3>1
        <4>. QED  BY <3>2, <4>1
      <3>. QED  BY <3>1, <3>3, <3>4
    <2>5. usage'[m] = Unreported /\ \A n \in Family : usage'[n] = usage[n]
      <3>1. usage' = Append(usage, Unreported)
        BY <1>1 DEF CreateChild
      <3>2. Unreported \in Nat
        BY BudgetAssumption DEF Unreported
      <3>. QED  BY <1>0, <2>1, <3>1, <3>2, AppendProperties
    <2>6. Len(family') <= MaxFamily
      <3>1. 1 .. Len(family') = 1 .. m /\ Len(family') \in Nat
        <4>1. Family' = 1 .. Len(family') /\ Len(family') \in Nat
          <5>1. FamilyShape'
            BY <2>1
          <5>. QED  BY <5>1 DEF FamilyShape, Family
        <4>2. Family \union {m} = 1 .. m
          BY <1>0, <2>1
        <4>. QED  BY <2>1, <4>1, <4>2
      <3>2. Len(family') = m
        BY <3>1
      <3>3. PICK size \in Nat : size = Len(family) /\ m = size + 1 /\ size < MaxFamily
        BY <1>0, <2>1, <2>3 DEF FamilyShape
      <3>. QED  BY <1>0, <3>2, <3>3
    <2>7. Unreported <= Unreported
      BY <1>0
    <2>. QED  BY <2>1, <2>3, <2>4, <2>5, <2>6, <2>7 DEF FamilyBounds
  <1>2. ASSUME NEW n \in Family, Spend(n) PROVE FamilyBounds'
    <2>1. PICK whole \in Nat, used \in Nat : whole = family[n].budget /\ used = usage[n]
      BY <1>0, <1>2, FamilyValues
    <2>2. PICK more \in Nat : more = IF used = Unreported THEN 0 ELSE used + 1
      BY <2>1
    <2>3. more <= Unreported
      <3>1. used = Unreported \/ used <= whole
        BY <1>2, <2>1 DEF Spend
      <3>2. whole <= RootBudget
        BY <1>2, <2>1 DEF FamilyBounds
      <3>3. RootBudget \in Nat /\ Unreported = RootBudget + 2
        BY <1>0
      <3>4. used \in Nat /\ whole \in Nat /\ more = IF used = Unreported THEN 0 ELSE used + 1
        BY <2>1, <2>2
      <3>. QED  BY <3>1, <3>2, <3>3, <3>4
    <2>4. usage' = [usage EXCEPT ![n] = more] /\ UNCHANGED <<family, ended>>
      BY <1>2, <2>1, <2>2 DEF Spend
    <2>5. \A k \in Family : usage'[k] = IF k = n THEN more ELSE usage[k]
      BY <1>0, <2>4
    <2>6. Family' = Family
      BY <2>4 DEF Family
    <2>. QED  BY <2>3, <2>4, <2>5, <2>6 DEF FamilyBounds
  <1>3. ASSUME NEW n \in Family, EndOf(n) PROVE FamilyBounds'
    <2>1. UNCHANGED <<family, usage>> /\ ended' = ended \union {n} /\ Family' = Family
      BY <1>3 DEF EndOf, Family
    <2>. QED  BY <2>1 DEF FamilyBounds
  <1>4. CASE UNCHANGED budgetVars
    <2>1. UNCHANGED <<family, usage, ended>> /\ Family' = Family
      BY <1>4 DEF budgetVars, Family
    <2>. QED  BY <2>1 DEF FamilyBounds
  <1>. QED  BY <1>1, <1>2, <1>3, <1>4 DEF BudgetNext

-----------------------------------------------------------------------------
(* What a run is charged.  Each cost is in the ledger before it is under way    *)
(* to the run, and there until the run has counted it.                          *)

Amount(c) == Max({c, 0})
Prices == [known : BOOLEAN, rate : Nat, long : BOOLEAN]
Costs == Nat \union {NoCost}

MeteringShape ==
  /\ setup \in Setups /\ metering \in Steps \union Ends
  /\ round \in Nat /\ counted \in BOOLEAN /\ reading \in BOOLEAN
  /\ cost \in Costs /\ event \in Costs
  /\ askedModel \in 1 .. Len(Route) /\ plans \in Nat /\ frozen \in Nat /\ snapshotPlan \in Nat
  /\ ledger \in Seq([plan : Nat, model : 1 .. Len(Route), size : Sizes, reported : Costs, cost : Costs])

\* A usage is read once, of a model that may be asked.
ReadingInv ==
  /\ reading => metering \in {"streaming", "FAILED", "CANCELLED"} /\ round > 0
  /\ reading \/ metering \in (Steps \ {"yielded"}) \union {"SUCCEEDED"} => event = NoCost
  /\ reading \/ metering \in {"streaming", "yielded"} => MayAsk(Route[askedModel])

AccountInv ==
  /\ Amount(cost) + Amount(event) = Total
  /\ counted => cost # NoCost
  /\ metering \in Steps /\ halting = "none" => Amount(cost) <= MaxCost
  /\ metering = "SUCCEEDED" =>
       Amount(cost) <= MaxCost /\ (cost # NoCost \/ isTrustedUnmeteredLocalUsageRoute)

\* A turn leaves a row before the next one begins.
LedgerInv ==
  /\ metering \in {"accepted", "prepared"} => round = 0 /\ ledger = <<>>
  /\ metering \in {"asking", "streaming", "yielded"} => round > 0
  /\ metering = "asking" => ~counted
  /\ isTrustedUnmeteredLocalUsageRoute \/
       /\ metering \in {"turn", "yielded", "SUCCEEDED"} => Len(ledger) = round
       /\ metering \in {"asking", "streaming"} => Len(ledger) = IF counted THEN round ELSE round - 1

PlanInv ==
  /\ metering \in {"turn", "asking", "streaming", "yielded"} \/ round > 0 => snapshotPlan = frozen
  /\ \A k \in DOMAIN ledger : ledger[k].plan = snapshotPlan

MeteringInv ==
  MeteringShape /\ ReadingInv /\ AccountInv /\ LedgerInv /\ PlanInv /\ ChargesAreComplete


LEMMA AmountOf ==
  ASSUME NEW c \in Costs
  PROVE  Amount(c) \in Nat /\ Amount(c) = IF c = NoCost THEN 0 ELSE c
  <1>1. c \in Int /\ c >= -1 /\ (c = NoCost <=> c = -1)
    BY DEF Costs, NoCost
  <1>2. PICK a : a = CHOOSE x \in {c, 0} : \A y \in {c, 0} : x >= y
    OBVIOUS
  <1>3. \E x \in {c, 0} : \A y \in {c, 0} : x >= y
    BY <1>1
  <1>4. a \in {c, 0} /\ a >= c /\ a >= 0
    BY <1>1, <1>2, <1>3
  <1>. QED  BY <1>1, <1>2, <1>4 DEF Amount, Max

\* A cost that is known is not below the published price.
LEMMA ChargeIsComplete ==
  ASSUME NEW m \in Prices, NEW size \in Nat, NEW reported \in Costs
  PROVE  LET charged == withAuthoritativeCost(m, size, reported)
         IN  /\ charged \in Costs /\ charged >= reported
             /\ m.known => charged >= Calculated(m, size)
  <1>1. m.rate \in Nat /\ m.known \in BOOLEAN /\ reported \in Int
    BY DEF Prices, Costs, NoCost
  <1>2. PICK price \in Nat : price = Calculated(m, size)
    <2>1. m.rate * size \in Nat
      BY <1>1
    <2>2. m.rate * size * 2 \in Nat /\ m.rate * size * 1 \in Nat
      BY <2>1
    <2>. QED  BY <2>2 DEF Calculated
  <1>3. CASE m.known
    <2>1. PICK charged : charged = CHOOSE x \in {reported, 0, price} : \A y \in {reported, 0, price} : x >= y
      OBVIOUS
    <2>2. \E x \in {reported, 0, price} : \A y \in {reported, 0, price} : x >= y
      BY <1>1
    <2>3. charged \in {reported, 0, price} /\ charged >= reported /\ charged >= 0 /\ charged >= price
      BY <2>1, <2>2
    <2>4. charged \in Nat
      BY <1>1, <2>3
    <2>5. withAuthoritativeCost(m, size, reported) = charged
      BY <1>2, <1>3, <2>1 DEF withAuthoritativeCost, Max
    <2>. QED  BY <1>2, <2>3, <2>4, <2>5 DEF Costs
  <1>4. CASE ~m.known
    BY <1>1, <1>4 DEF withAuthoritativeCost
  <1>. QED  BY <1>3, <1>4

LEMMA RouteIsPriced ==
  ASSUME setup \in Setups
  PROVE  Len(Route) \in Nat \ {0} /\ \A k \in 1 .. Len(Route) : Route[k] \in Prices
  <1>1. /\ setup.provider \in {"fake", "delegated", "direct", "local"}
        /\ setup.prices \in {"none", "zero", "set"}
        /\ setup.official \in BOOLEAN /\ setup.catalog \in BOOLEAN /\ setup.connected \in BOOLEAN
    BY DEF Setups
  <1>2. \A k \in Nat, long \in BOOLEAN : Price(k, long) \in Prices
    BY DEF Price, Prices
  <1>3. ASSUME NEW official \in BOOLEAN
        PROVE  configuredModelPricing(setup, official) \in Prices
    <2>1. NoPrice \in Prices
      BY DEF NoPrice, Prices
    <2>2. CASE setup.prices = "zero"
      BY <1>2, <2>2 DEF configuredModelPricing
    <2>3. CASE setup.prices = "set"
      BY <1>2, <2>3 DEF configuredModelPricing
    <2>4. CASE setup.prices = "none" /\ official
      BY <1>2, <2>4 DEF configuredModelPricing
    <2>5. CASE setup.prices = "none" /\ ~official
      BY <2>1, <2>5 DEF configuredModelPricing
    <2>. QED  BY <1>1, <2>2, <2>3, <2>4, <2>5
  <1>4. resolveModelGateway(setup) \in Seq(Prices) /\ Len(resolveModelGateway(setup)) \in {1, 2}
    <2>1. ASSUME NEW a \in Prices, NEW b \in Prices
          PROVE  /\ <<a>> \in Seq(Prices) /\ Len(<<a>>) \in {1, 2}
                 /\ <<a, b>> \in Seq(Prices) /\ Len(<<a, b>>) \in {1, 2}
      OBVIOUS
    <2>2. configuredDirectModels(setup) \in Seq(Prices) /\ Len(configuredDirectModels(setup)) \in {1, 2}
      BY <1>1, <1>2, <1>3, <2>1 DEF configuredDirectModels
    <2>3. CASE setup.connected
      BY <1>3, <2>1, <2>3 DEF resolveModelGateway
    <2>4. CASE ~setup.connected /\ setup.provider = "fake"
      BY <1>2, <2>1, <2>4 DEF resolveModelGateway
    <2>5. CASE ~setup.connected /\ setup.provider = "delegated"
      BY <1>1, <1>3, <2>1, <2>5 DEF resolveModelGateway
    <2>6. CASE ~setup.connected /\ setup.provider \in {"direct", "local"}
      BY <2>2, <2>6 DEF resolveModelGateway
    <2>. QED  BY <1>1, <2>3, <2>4, <2>5, <2>6
  <1>5. PICK models \in Seq(Prices) : models = resolveModelGateway(setup) /\ Len(models) \in {1, 2}
    BY <1>4
  <1>6. \A k \in 1 .. Len(models) : models[k] \in Prices
    BY <1>5, ElementOfSeq
  <1>7. PICK size \in {1, 2} : size = Len(models)
    BY <1>5
  <1>8. Route = models \/ (Len(models) = 2 /\ Route = <<models[2], models[1]>>)
    BY <1>5 DEF Route, plan
  <1>9. CASE Route = models
    BY <1>9, <1>6, <1>7
  <1>10. CASE Len(models) = 2 /\ Route = <<models[2], models[1]>>
    <2>1. models[1] \in Prices /\ models[2] \in Prices
      <3>1. 1 \in 1 .. Len(models) /\ 2 \in 1 .. Len(models)
        BY <1>10
      <3>. QED  BY <1>6, <3>1
    <2>. QED  BY <1>10, <2>1
  <1>. QED  BY <1>8, <1>9, <1>10

\* A row adds its cost to the total.
LEMMA LedgerGrows ==
  ASSUME NEW Lines, \A l \in Lines : l.cost \in Costs, ledger \in Seq(Lines),
         NEW last \in Lines, ledger' = Append(ledger, last)
  PROVE  /\ ledger' \in Seq(Lines) /\ Len(ledger') = Len(ledger) + 1
         /\ \A k \in 1 .. Len(ledger) : ledger'[k] = ledger[k]
         /\ ledger'[Len(ledger) + 1] = last
         /\ Total \in Nat /\ Total' = Total + Amount(last.cost)
  <1>1. PICK n \in Nat : n = Len(ledger)
    OBVIOUS
  <1>2. DOMAIN ledger = 1 .. n /\ \A k \in 1 .. n : ledger[k] \in Lines
    BY <1>1, ElementOfSeq
  <1>3. /\ ledger' \in Seq(Lines) /\ Len(ledger') = n + 1
        /\ \A k \in 1 .. n : ledger'[k] = ledger[k]
        /\ ledger'[n + 1] = last
    BY <1>1, AppendProperties
  <1>4. DOMAIN ledger' = 1 .. (n + 1)
    BY <1>3
  <1>5. PICK before : before = [k \in DOMAIN ledger |-> Max({ledger[k].cost, 0})]
    OBVIOUS
  <1>6. PICK later : later = [k \in DOMAIN ledger' |-> Max({ledger'[k].cost, 0})]
    OBVIOUS
  <1>7. DOMAIN before = 1 .. n /\ \A k \in 1 .. n : before[k] = Amount(ledger[k].cost) /\ before[k] \in Nat
    BY <1>2, <1>5, AmountOf DEF Amount
  <1>8. DOMAIN later = 1 .. (n + 1) /\ \A k \in 1 .. (n + 1) : later[k] = Amount(ledger'[k].cost)
    BY <1>4, <1>6 DEF Amount
  <1>9. (n + 1) \notin 1 .. n /\ 1 .. (n + 1) = (1 .. n) \union {n + 1}
    BY <1>1
  <1>10. \A k \in 1 .. n : later[k] = before[k]
    BY <1>3, <1>7, <1>8, <1>9
  <1>11. later[n + 1] = Amount(last.cost) /\ later[n + 1] \in Nat
    BY <1>3, <1>8, <1>9, AmountOf
  <1>12. IsFiniteSet(1 .. n)
    BY FS_Interval
  <1>13. SumFunctionOnSet(before, 1 .. n) \in Nat
    BY <1>7, <1>12, SumIsNumber
  <1>14. SumFunctionOnSet(before, 1 .. n) = SumFunctionOnSet(later, 1 .. n)
    BY <1>7, <1>10, <1>12, SumsEqual
  <1>15. SumFunctionOnSet(later, (1 .. n) \union {n + 1}) = later[n + 1] + SumFunctionOnSet(later, 1 .. n)
    <2>1. \A k \in (1 .. n) \union {n + 1} : later[k] \in Nat
      BY <1>7, <1>10, <1>11
    <2>. QED  BY <1>9, <1>12, <2>1, SumWith
  <1>16. Total = SumFunctionOnSet(before, 1 .. n)
    BY <1>5, <1>7 DEF Total, SumFunction
  <1>17. Total' = SumFunctionOnSet(later, 1 .. (n + 1))
    BY <1>6, <1>8 DEF Total, SumFunction
  <1>18. Total \in Nat /\ Total' = Total + Amount(last.cost)
    <2>1. PICK total \in Nat, more \in Nat : total = Total /\ more = Amount(last.cost)
      BY <1>11, <1>13, <1>16
    <2>2. Total' = more + total
      BY <1>9, <1>11, <1>14, <1>15, <1>16, <1>17, <2>1
    <2>. QED  BY <2>1, <2>2
  <1>. QED  BY <1>1, <1>3, <1>18


LEMMA MeteringInitial == MeteringInit => MeteringInv
  <1> SUFFICES ASSUME MeteringInit PROVE MeteringInv
    OBVIOUS
  <1>1. setup \in Setups /\ Len(Route) \in Nat \ {0}
    BY RouteIsPriced DEF MeteringInit
  <1>2. NoCost \in Costs /\ Amount(NoCost) = 0
    <2>1. NoCost \in Costs
      BY DEF Costs
    <2>. QED  BY <2>1, AmountOf
  <1>3. Total = 0
    <2>1. PICK none : none = [k \in DOMAIN ledger |-> Max({ledger[k].cost, 0})]
      OBVIOUS
    <2>2. DOMAIN none = {}
      BY <2>1 DEF MeteringInit
    <2>. QED  BY <2>1, <2>2, SumOfNone DEF Total, SumFunction
  <1>4. MeteringShape
    <2>1. 1 \in 1 .. Len(Route)
      BY <1>1
    <2>2. ledger \in Seq([plan : Nat, model : 1 .. Len(Route), size : Sizes, reported : Costs, cost : Costs])
      BY DEF MeteringInit
    <2>. QED  BY <1>1, <1>2, <2>1, <2>2 DEF MeteringInit, MeteringShape, Steps
  <1>5. ReadingInv
    BY DEF MeteringInit, ReadingInv, Steps
  <1>6. AccountInv
    BY <1>2, <1>3, MeteringAssumption DEF MeteringInit, AccountInv, Steps
  <1>7. LedgerInv
    BY DEF MeteringInit, LedgerInv
  <1>8. PlanInv /\ ChargesAreComplete
    BY DEF MeteringInit, PlanInv, ChargesAreComplete
  <1>. QED  BY <1>4, <1>5, <1>6, <1>7, <1>8 DEF MeteringInv

LEMMA MeteringSuffices == MeteringInv => RunsAreMetered
  <1> SUFFICES ASSUME MeteringInv PROVE RunsAreMetered
    OBVIOUS
  <1>1. /\ Amount(cost) \in Nat /\ Amount(event) \in Nat /\ Amount(NoCost) = 0
        /\ Amount(cost) + Amount(event) = Total
    <2>1. NoCost \in Costs
      BY DEF Costs
    <2>. QED  BY <2>1, AmountOf DEF MeteringInv, MeteringShape, AccountInv
  <1>2. Amount(cost) <= Total
    BY <1>1
  <1>3. ASSUME metering = "SUCCEEDED"
        PROVE  /\ Amount(cost) = Total /\ Total <= MaxCost
               /\ Len(ledger) = round \/ isTrustedUnmeteredLocalUsageRoute
               /\ cost # NoCost \/ isTrustedUnmeteredLocalUsageRoute
    <2>1. Amount(cost) = Total
      BY <1>1, <1>3 DEF MeteringInv, ReadingInv
    <2>. QED  BY <1>3, <2>1 DEF MeteringInv, AccountInv, LedgerInv
  <1>4. AccountIsTrue
    BY <1>2, <1>3 DEF AccountIsTrue, Amount
  <1>5. RouteIsFrozen
    BY DEF MeteringInv, PlanInv, RouteIsFrozen
  <1>. QED  BY <1>4, <1>5 DEF RunsAreMetered, MeteringInv

\* Where no usage is read, the rows stay as they are.
LEMMA LedgerStays ==
  ASSUME MeteringInv, UNCHANGED <<setup, ledger>>
  PROVE  /\ Total' = Total /\ Route' = Route
         /\ isTrustedUnmeteredLocalUsageRoute' = isTrustedUnmeteredLocalUsageRoute
         /\ \A m : MayAsk(m)' = MayAsk(m)
         /\ ChargesAreComplete'
  <1>1. Total' = Total
    BY DEF Total, SumFunction
  <1>2. Route' = Route
    BY DEF Route
  <1>3. isTrustedUnmeteredLocalUsageRoute' = isTrustedUnmeteredLocalUsageRoute /\ Routed' = Routed
    BY DEF isTrustedUnmeteredLocalUsageRoute, Routed
  <1>4. ChargesAreComplete'
    BY <1>2, <1>3 DEF MeteringInv, ChargesAreComplete
  <1>. QED  BY <1>1, <1>2, <1>3, <1>4 DEF MayAsk

LEMMA ShapeOfRun ==
  ASSUME MeteringShape
  PROVE  /\ Amount(cost) \in Nat /\ Amount(event) \in Nat /\ Amount(NoCost) = 0 /\ NoCost \in Costs
         /\ cost # NoCost => Amount(cost) = cost /\ cost \in Nat
         /\ event # NoCost => Amount(event) = event /\ event \in Nat
         /\ Len(Route) \in Nat \ {0} /\ Route[askedModel] \in Prices /\ MaxCost \in Nat /\ Len(ledger) \in Nat
  <1>1. NoCost \in Costs
    BY DEF Costs
  <1>2. cost \in Costs /\ event \in Costs /\ Len(ledger) \in Nat
    BY DEF MeteringShape
  <1>3. Len(Route) \in Nat \ {0} /\ Route[askedModel] \in Prices
    BY RouteIsPriced DEF MeteringShape
  <1>4. \A c \in Costs : c # NoCost => c \in Nat
    BY DEF Costs
  <1>. QED  BY <1>1, <1>2, <1>3, <1>4, AmountOf, MeteringAssumption

\* A usage is read: its row and what is under way to the run grow alike.
LEMMA ReadKeeps ==
  ASSUME MeteringInv, ReadUsage
  PROVE  MeteringInv'
  <1>0. MeteringShape /\ ReadingInv /\ AccountInv /\ LedgerInv /\ PlanInv /\ ChargesAreComplete
    BY DEF MeteringInv
  <1> DEFINE Lines == [plan : Nat, model : 1 .. Len(Route), size : Sizes, reported : Costs, cost : Costs]
  <1>1. PICK size \in Sizes, reported \in Bills \union {NoCost} :
          /\ ledger' = Append(ledger, [plan |-> frozen, model |-> askedModel, size |-> size, reported |-> reported,
                                       cost |-> withAuthoritativeCost(Route[askedModel], size, reported)])
          /\ event' = withAuthoritativeCost(Route[askedModel], size, reported)
    BY DEF ReadUsage
  <1>2. /\ reading /\ ~counted /\ reading' = FALSE
        /\ metering' = IF metering = "streaming" THEN "yielded" ELSE metering
        /\ UNCHANGED <<setup, halting, plans, cached, frozen, snapshotPlan, round, askedModel, counted, cost>>
    BY DEF ReadUsage, routeVars
  <1>3. size \in Nat /\ reported \in Costs /\ Route[askedModel] \in Prices
    BY <1>0, MeteringAssumption, ShapeOfRun DEF Costs
  <1>4. PICK charged : charged = withAuthoritativeCost(Route[askedModel], size, reported)
    OBVIOUS
  <1>5. /\ charged \in Costs /\ charged >= reported
        /\ Route[askedModel].known => charged >= Calculated(Route[askedModel], size)
    BY <1>3, <1>4, ChargeIsComplete
  <1>6. PICK last : last = [plan |-> frozen, model |-> askedModel, size |-> size, reported |-> reported, cost |-> charged]
    OBVIOUS
  <1>7. last \in Lines /\ ledger \in Seq(Lines) /\ \A l \in Lines : l.cost \in Costs
    BY <1>0, <1>3, <1>5, <1>6 DEF MeteringShape
  <1>8. ledger' = Append(ledger, last) /\ event' = charged
    BY <1>1, <1>4, <1>6
  <1>9. /\ ledger' \in Seq(Lines) /\ Len(ledger') = Len(ledger) + 1
        /\ \A k \in 1 .. Len(ledger) : ledger'[k] = ledger[k]
        /\ ledger'[Len(ledger) + 1] = last
        /\ Total \in Nat /\ Total' = Total + Amount(charged)
    <2> HIDE DEF Lines
    <2>1. last.cost = charged
      BY <1>6
    <2>. QED  BY <1>7, <1>8, <2>1, LedgerGrows
  <1>10. /\ Route' = Route /\ Routed' = Routed
         /\ isTrustedUnmeteredLocalUsageRoute' = isTrustedUnmeteredLocalUsageRoute
         /\ \A m : MayAsk(m)' = MayAsk(m)
    BY <1>2 DEF Route, Routed, isTrustedUnmeteredLocalUsageRoute, MayAsk
  <1>11. PICK n \in Nat : n = Len(ledger)
    BY <1>0, ShapeOfRun
  <1>12. DOMAIN ledger = 1 .. n /\ DOMAIN ledger' = 1 .. (n + 1) /\ \A k \in 1 .. (n + 1) : k \in 1 .. n \/ k = n + 1
    BY <1>0, <1>9, <1>11 DEF MeteringShape
  <1>13. MeteringShape'
    BY <1>0, <1>2, <1>5, <1>8, <1>9, <1>10 DEF MeteringShape, Steps, Ends
  <1>14. ReadingInv'
    BY <1>0, <1>2, <1>10 DEF ReadingInv, Steps
  <1>15. AccountInv'
    <2>1. event = NoCost /\ Amount(event) = 0 /\ Amount(cost) \in Nat /\ Amount(charged) \in Nat
      BY <1>0, <1>2, <1>5, ShapeOfRun, AmountOf DEF ReadingInv
    <2>2. Amount(cost) + Amount(charged) = Total'
      BY <1>0, <1>9, <2>1 DEF AccountInv
    <2>. QED  BY <1>0, <1>2, <1>8, <1>10, <2>2 DEF AccountInv, ReadingInv, Steps
  <1>16. LedgerInv'
    BY <1>0, <1>2, <1>9, <1>10, <1>11 DEF LedgerInv, ReadingInv, MeteringShape
  <1>17. PlanInv'
    <2>1. snapshotPlan = frozen /\ last.plan = frozen
      BY <1>0, <1>2, <1>6 DEF PlanInv, ReadingInv
    <2>2. \A k \in 1 .. (n + 1) : ledger'[k].plan = snapshotPlan
      BY <1>0, <1>9, <1>11, <1>12, <2>1 DEF PlanInv
    <2>. QED  BY <1>2, <1>12, <2>1, <2>2 DEF PlanInv
  <1>18. ChargesAreComplete'
    <2>1. Routed => Route[askedModel].known
      BY <1>0, <1>2 DEF ReadingInv, MayAsk
    <2>2. /\ last.cost >= last.reported
          /\ Route[last.model].known => last.cost >= Calculated(Route[last.model], last.size)
          /\ Routed => Route[last.model].known
      BY <1>5, <1>6, <2>1
    <2>3. ASSUME NEW k \in 1 .. (n + 1)
          PROVE  /\ ledger'[k].cost >= ledger'[k].reported
                 /\ Route[ledger'[k].model].known => ledger'[k].cost >= Calculated(Route[ledger'[k].model], ledger'[k].size)
                 /\ Routed => Route[ledger'[k].model].known
      <3>1. CASE k \in 1 .. n
        BY <1>0, <1>9, <1>11, <1>12, <3>1 DEF ChargesAreComplete
      <3>2. CASE k = n + 1
        BY <1>9, <1>11, <2>2, <3>2
      <3>. QED  BY <1>12, <3>1, <3>2
    <2>. QED  BY <1>10, <1>12, <2>3 DEF ChargesAreComplete
  <1>. QED  BY <1>13, <1>14, <1>15, <1>16, <1>17, <1>18 DEF MeteringInv

LEMMA MeteringStep ==
  ASSUME MeteringInv, [MeteringNext]_meteringVars
  PROVE  MeteringInv'
  <1>0. MeteringShape /\ ReadingInv /\ AccountInv /\ LedgerInv /\ PlanInv
    BY DEF MeteringInv
  <1>1. CASE PrepareRoute
    <2>0. /\ UNCHANGED <<setup, ledger>>
          /\ Total' = Total /\ Route' = Route
          /\ isTrustedUnmeteredLocalUsageRoute' = isTrustedUnmeteredLocalUsageRoute
          /\ \A m : MayAsk(m)' = MayAsk(m)
          /\ ChargesAreComplete'
      <3>1. UNCHANGED <<setup, ledger>>
        BY <1>1 DEF PrepareRoute, RunFailed, EndAs, routeVars
      <3>. QED  BY <3>1, LedgerStays
    <2>1. MeteringShape'
      BY <1>0, <1>1, <2>0, ShapeOfRun DEF PrepareRoute, RunFailed, EndAs, routeVars,
                                          MeteringShape, Steps, Ends
    <2>2. ReadingInv'
      BY <1>0, <1>1, <2>0, ShapeOfRun DEF PrepareRoute, RunFailed, EndAs, routeVars, ReadingInv,
                                          LedgerInv, MeteringShape, Steps
    <2>3. AccountInv'
      BY <1>0, <1>1, <2>0, ShapeOfRun DEF PrepareRoute, RunFailed, EndAs, routeVars, AccountInv,
                                          ReadingInv, Steps
    <2>4. LedgerInv'
      BY <1>0, <1>1, <2>0, ShapeOfRun DEF PrepareRoute, RunFailed, EndAs, routeVars, LedgerInv,
                                          MeteringShape
    <2>5. PlanInv'
      BY <1>0, <1>1, <2>0 DEF PrepareRoute, RunFailed, EndAs, routeVars, PlanInv, LedgerInv,
                              MeteringShape
    <2>. QED  BY <2>0, <2>1, <2>2, <2>3, <2>4, <2>5 DEF MeteringInv
  <1>2. CASE FreezeRunSnapshot
    <2>0. /\ UNCHANGED <<setup, ledger>>
          /\ Total' = Total /\ Route' = Route
          /\ isTrustedUnmeteredLocalUsageRoute' = isTrustedUnmeteredLocalUsageRoute
          /\ \A m : MayAsk(m)' = MayAsk(m)
          /\ ChargesAreComplete'
      <3>1. UNCHANGED <<setup, ledger>>
        BY <1>2 DEF FreezeRunSnapshot, persistRunSnapshot, RunFailed, EndAs, routeVars
      <3>. QED  BY <3>1, LedgerStays
    <2>1. MeteringShape'
      BY <1>0, <1>2, <2>0, ShapeOfRun DEF FreezeRunSnapshot, persistRunSnapshot, RunFailed,
                                          EndAs, routeVars, MeteringShape, Steps, Ends
    <2>2. ReadingInv'
      BY <1>0, <1>2, <2>0, ShapeOfRun DEF FreezeRunSnapshot, persistRunSnapshot, RunFailed,
                                          EndAs, routeVars, ReadingInv, LedgerInv,
                                          MeteringShape, Steps
    <2>3. AccountInv'
      BY <1>0, <1>2, <2>0, ShapeOfRun DEF FreezeRunSnapshot, persistRunSnapshot, RunFailed,
                                          EndAs, routeVars, AccountInv, ReadingInv, Steps
    <2>4. LedgerInv'
      BY <1>0, <1>2, <2>0, ShapeOfRun DEF FreezeRunSnapshot, persistRunSnapshot, RunFailed,
                                          EndAs, routeVars, LedgerInv, MeteringShape
    <2>5. PlanInv'
      BY <1>0, <1>2, <2>0 DEF FreezeRunSnapshot, persistRunSnapshot, RunFailed, EndAs,
                              routeVars, PlanInv, LedgerInv, MeteringShape
    <2>. QED  BY <2>0, <2>1, <2>2, <2>3, <2>4, <2>5 DEF MeteringInv
  <1>3. CASE Evict
    <2>0. /\ UNCHANGED <<setup, ledger>>
          /\ Total' = Total /\ Route' = Route
          /\ isTrustedUnmeteredLocalUsageRoute' = isTrustedUnmeteredLocalUsageRoute
          /\ \A m : MayAsk(m)' = MayAsk(m)
          /\ ChargesAreComplete'
      <3>1. UNCHANGED <<setup, ledger>>
        BY <1>3 DEF Evict
      <3>. QED  BY <3>1, LedgerStays
    <2>1. MeteringShape'
      BY <1>0, <1>3, <2>0, ShapeOfRun DEF Evict, MeteringShape, Steps, Ends
    <2>2. ReadingInv'
      BY <1>0, <1>3, <2>0, ShapeOfRun DEF Evict, ReadingInv, LedgerInv, MeteringShape, Steps
    <2>3. AccountInv'
      BY <1>0, <1>3, <2>0, ShapeOfRun DEF Evict, AccountInv, ReadingInv, Steps
    <2>4. LedgerInv'
      BY <1>0, <1>3, <2>0, ShapeOfRun DEF Evict, LedgerInv, MeteringShape
    <2>5. PlanInv'
      BY <1>0, <1>3, <2>0 DEF Evict, PlanInv, LedgerInv, MeteringShape
    <2>. QED  BY <2>0, <2>1, <2>2, <2>3, <2>4, <2>5 DEF MeteringInv
  <1>4. CASE StartRequest
    <2>a. /\ metering = "turn" /\ UNCHANGED <<setup, ledger, halting, plans, frozen, snapshotPlan, event, reading, cost>>
          /\ \/ metering' = "FAILED" /\ UNCHANGED <<round, askedModel, counted>>
             \/ /\ halting = "none" /\ metering' = "asking" /\ round' = round + 1
                /\ askedModel' = 1 /\ counted' = FALSE
      BY <1>4 DEF StartRequest, Persists, RunFailed, EndAs, routeVars
    <2>0. /\ UNCHANGED <<setup, ledger>>
          /\ Total' = Total /\ Route' = Route
          /\ isTrustedUnmeteredLocalUsageRoute' = isTrustedUnmeteredLocalUsageRoute
          /\ \A m : MayAsk(m)' = MayAsk(m)
          /\ ChargesAreComplete'
      BY <2>a, LedgerStays
    <2>1. MeteringShape'
      <3>1. 1 \in 1 .. Len(Route)
        BY <1>0, ShapeOfRun
      <3>2. /\ ledger' \in Seq([plan : Nat, model : 1 .. Len(Route'), size : Sizes, reported : Costs, cost : Costs])
        <4>1. Len(Route') = Len(Route)
          BY <2>0
        <4>. QED  BY <1>0, <2>0, <4>1 DEF MeteringShape
      <3>3. round' \in Nat /\ askedModel' \in 1 .. Len(Route')
        BY <1>0, <2>a, <2>0, <3>1 DEF MeteringShape
      <3>4. counted' \in BOOLEAN /\ metering' \in Steps \union Ends
        BY <1>0, <2>a DEF MeteringShape, Steps, Ends
      <3>. QED  BY <1>0, <2>a, <2>0, <3>2, <3>3, <3>4 DEF MeteringShape
    <2>2. ReadingInv'
      BY <1>0, <2>a, <2>0 DEF ReadingInv, MeteringShape, Steps
    <2>3. AccountInv'
      BY <1>0, <2>a, <2>0 DEF AccountInv, ReadingInv, Steps
    <2>4. LedgerInv'
      <3>1. round \in Nat /\ Len(ledger) \in Nat
        BY <1>0, ShapeOfRun DEF MeteringShape
      <3>2. isTrustedUnmeteredLocalUsageRoute \/ Len(ledger) = round
        BY <1>0, <2>a DEF LedgerInv
      <3>. QED  BY <2>a, <2>0, <3>1, <3>2 DEF LedgerInv
    <2>5. PlanInv'
      BY <1>0, <2>a, <2>0 DEF PlanInv, LedgerInv, MeteringShape
    <2>. QED  BY <2>0, <2>1, <2>2, <2>3, <2>4, <2>5 DEF MeteringInv
  <1>5. CASE PassOver
    <2>0. /\ UNCHANGED <<setup, ledger>>
          /\ Total' = Total /\ Route' = Route
          /\ isTrustedUnmeteredLocalUsageRoute' = isTrustedUnmeteredLocalUsageRoute
          /\ \A m : MayAsk(m)' = MayAsk(m)
          /\ ChargesAreComplete'
      <3>1. UNCHANGED <<setup, ledger>>
        BY <1>5 DEF PassOver, NextRoute, RunFailed, EndAs, routeVars
      <3>. QED  BY <3>1, LedgerStays
    <2>1. MeteringShape'
      BY <1>0, <1>5, <2>0, ShapeOfRun DEF PassOver, NextRoute, RunFailed, EndAs, routeVars,
                                          MeteringShape, Steps, Ends
    <2>2. ReadingInv'
      BY <1>0, <1>5, <2>0, ShapeOfRun DEF PassOver, NextRoute, RunFailed, EndAs, routeVars,
                                          ReadingInv, LedgerInv, MeteringShape, Steps
    <2>3. AccountInv'
      BY <1>0, <1>5, <2>0, ShapeOfRun DEF PassOver, NextRoute, RunFailed, EndAs, routeVars,
                                          AccountInv, ReadingInv, Steps
    <2>4. LedgerInv'
      BY <1>0, <1>5, <2>0, ShapeOfRun DEF PassOver, NextRoute, RunFailed, EndAs, routeVars,
                                          LedgerInv, MeteringShape
    <2>5. PlanInv'
      BY <1>0, <1>5, <2>0 DEF PassOver, NextRoute, RunFailed, EndAs, routeVars, PlanInv,
                              LedgerInv, MeteringShape
    <2>. QED  BY <2>0, <2>1, <2>2, <2>3, <2>4, <2>5 DEF MeteringInv
  <1>6. CASE RefuseRequest
    <2>0. /\ UNCHANGED <<setup, ledger>>
          /\ Total' = Total /\ Route' = Route
          /\ isTrustedUnmeteredLocalUsageRoute' = isTrustedUnmeteredLocalUsageRoute
          /\ \A m : MayAsk(m)' = MayAsk(m)
          /\ ChargesAreComplete'
      <3>1. UNCHANGED <<setup, ledger>>
        BY <1>6 DEF RefuseRequest, RunFailed, EndAs, routeVars
      <3>. QED  BY <3>1, LedgerStays
    <2>1. MeteringShape'
      BY <1>0, <1>6, <2>0, ShapeOfRun DEF RefuseRequest, RunFailed, EndAs, routeVars,
                                          MeteringShape, Steps, Ends
    <2>2. ReadingInv'
      BY <1>0, <1>6, <2>0, ShapeOfRun DEF RefuseRequest, RunFailed, EndAs, routeVars,
                                          ReadingInv, LedgerInv, MeteringShape, Steps
    <2>3. AccountInv'
      BY <1>0, <1>6, <2>0, ShapeOfRun DEF RefuseRequest, RunFailed, EndAs, routeVars,
                                          AccountInv, ReadingInv, Steps
    <2>4. LedgerInv'
      BY <1>0, <1>6, <2>0, ShapeOfRun DEF RefuseRequest, RunFailed, EndAs, routeVars, LedgerInv,
                                          MeteringShape
    <2>5. PlanInv'
      BY <1>0, <1>6, <2>0 DEF RefuseRequest, RunFailed, EndAs, routeVars, PlanInv, LedgerInv,
                              MeteringShape
    <2>. QED  BY <2>0, <2>1, <2>2, <2>3, <2>4, <2>5 DEF MeteringInv
  <1>7. CASE AcceptRequest
    <2>0. /\ UNCHANGED <<setup, ledger>>
          /\ Total' = Total /\ Route' = Route
          /\ isTrustedUnmeteredLocalUsageRoute' = isTrustedUnmeteredLocalUsageRoute
          /\ \A m : MayAsk(m)' = MayAsk(m)
          /\ ChargesAreComplete'
      <3>1. UNCHANGED <<setup, ledger>>
        BY <1>7 DEF AcceptRequest, routeVars
      <3>. QED  BY <3>1, LedgerStays
    <2>1. MeteringShape'
      BY <1>0, <1>7, <2>0, ShapeOfRun DEF AcceptRequest, routeVars, MeteringShape, Steps, Ends
    <2>2. ReadingInv'
      BY <1>0, <1>7, <2>0, ShapeOfRun DEF AcceptRequest, routeVars, ReadingInv, LedgerInv,
                                          MeteringShape, Steps
    <2>3. AccountInv'
      BY <1>0, <1>7, <2>0, ShapeOfRun DEF AcceptRequest, routeVars, AccountInv, ReadingInv,
                                          Steps
    <2>4. LedgerInv'
      BY <1>0, <1>7, <2>0, ShapeOfRun DEF AcceptRequest, routeVars, LedgerInv, MeteringShape
    <2>5. PlanInv'
      BY <1>0, <1>7, <2>0 DEF AcceptRequest, routeVars, PlanInv, LedgerInv, MeteringShape
    <2>. QED  BY <2>0, <2>1, <2>2, <2>3, <2>4, <2>5 DEF MeteringInv
  <1>8. CASE InvalidUsage
    <2>0. /\ UNCHANGED <<setup, ledger>>
          /\ Total' = Total /\ Route' = Route
          /\ isTrustedUnmeteredLocalUsageRoute' = isTrustedUnmeteredLocalUsageRoute
          /\ \A m : MayAsk(m)' = MayAsk(m)
          /\ ChargesAreComplete'
      <3>1. UNCHANGED <<setup, ledger>>
        BY <1>8 DEF InvalidUsage, routeVars
      <3>. QED  BY <3>1, LedgerStays
    <2>1. MeteringShape'
      BY <1>0, <1>8, <2>0, ShapeOfRun DEF InvalidUsage, routeVars, MeteringShape, Steps, Ends
    <2>2. ReadingInv'
      BY <1>0, <1>8, <2>0, ShapeOfRun DEF InvalidUsage, routeVars, ReadingInv, LedgerInv,
                                          MeteringShape, Steps
    <2>3. AccountInv'
      BY <1>0, <1>8, <2>0, ShapeOfRun DEF InvalidUsage, routeVars, AccountInv, ReadingInv, Steps
    <2>4. LedgerInv'
      BY <1>0, <1>8, <2>0, ShapeOfRun DEF InvalidUsage, routeVars, LedgerInv, MeteringShape
    <2>5. PlanInv'
      BY <1>0, <1>8, <2>0 DEF InvalidUsage, routeVars, PlanInv, LedgerInv, MeteringShape
    <2>. QED  BY <2>0, <2>1, <2>2, <2>3, <2>4, <2>5 DEF MeteringInv
  <1>9. CASE TakeUsage
    <2>a. /\ metering = "yielded" /\ halting = "none"
          /\ UNCHANGED <<setup, ledger, plans, frozen, snapshotPlan, round, askedModel>>
          /\ \/ metering' = "FAILED" /\ UNCHANGED <<halting, event, counted, reading, cost>>
             \/ /\ metering' = "streaming" /\ counted' = TRUE /\ reading' = TRUE
                /\ event # NoCost /\ event' = NoCost /\ cost' = Amount(cost) + event
                /\ halting' = IF cost' > MaxCost THEN "budget" ELSE halting
      BY <1>9 DEF TakeUsage, RunFailed, EndAs, routeVars, OverBudget, Amount
    <2>0. /\ UNCHANGED <<setup, ledger>>
          /\ Total' = Total /\ Route' = Route
          /\ isTrustedUnmeteredLocalUsageRoute' = isTrustedUnmeteredLocalUsageRoute
          /\ \A m : MayAsk(m)' = MayAsk(m)
          /\ ChargesAreComplete'
      BY <2>a, LedgerStays
    <2>b. ASSUME event # NoCost, cost' = Amount(cost) + event, event' = NoCost
          PROVE  /\ cost' \in Nat /\ cost' \in Costs /\ cost' # NoCost /\ event' \in Costs
                 /\ Amount(cost') = cost' /\ Amount(cost') + Amount(event') = Total
      <3>1. /\ Amount(cost) \in Nat /\ event \in Nat /\ Amount(event) = event
            /\ NoCost \in Costs /\ Amount(NoCost) = 0 /\ Amount(cost) + Amount(event) = Total
        BY <1>0, <2>b, ShapeOfRun DEF AccountInv
      <3>2. cost' \in Nat /\ cost' # NoCost
        BY <2>b, <3>1 DEF NoCost
      <3>3. cost' \in Costs
        BY <3>2 DEF Costs
      <3>4. PICK c \in Costs : c = cost'
        BY <3>3
      <3>5. Amount(c) = c
        BY <3>2, <3>4, AmountOf
      <3>6. Amount(cost') = Amount(c) /\ Amount(event') = Amount(NoCost)
        BY <2>b, <3>4
      <3>. QED  BY <2>b, <3>1, <3>2, <3>3, <3>4, <3>5, <3>6
    <2>1. MeteringShape'
      BY <1>0, <2>a, <2>0, <2>b DEF MeteringShape, Steps, Ends
    <2>2. ReadingInv'
      BY <1>0, <2>a, <2>0 DEF ReadingInv, LedgerInv, MeteringShape, Steps
    <2>3. AccountInv'
      <3>1. CASE metering' = "FAILED"
        BY <1>0, <2>a, <2>0, <3>1 DEF AccountInv, Steps
      <3>2. CASE metering' # "FAILED"
        <4>1. Amount(cost)' + Amount(event)' = Total' /\ Amount(cost)' = cost' /\ cost' # NoCost /\ cost' \in Nat
          BY <2>a, <2>0, <2>b, <3>2
        <4>2. MaxCost \in Nat
          BY MeteringAssumption
        <4>3. halting' = "none" => cost' <= MaxCost
          BY <2>a, <3>2, <4>1, <4>2
        <4>. QED  BY <2>a, <3>2, <4>1, <4>3 DEF AccountInv
      <3>. QED  BY <3>1, <3>2
    <2>4. LedgerInv'
      BY <1>0, <2>a, <2>0, ShapeOfRun DEF LedgerInv, MeteringShape
    <2>5. PlanInv'
      BY <1>0, <2>a, <2>0 DEF PlanInv, LedgerInv, MeteringShape
    <2>. QED  BY <2>0, <2>1, <2>2, <2>3, <2>4, <2>5 DEF MeteringInv
  <1>10. CASE CompleteTurn
    <2>0. /\ UNCHANGED <<setup, ledger>>
          /\ Total' = Total /\ Route' = Route
          /\ isTrustedUnmeteredLocalUsageRoute' = isTrustedUnmeteredLocalUsageRoute
          /\ \A m : MayAsk(m)' = MayAsk(m)
          /\ ChargesAreComplete'
      <3>1. UNCHANGED <<setup, ledger>>
        BY <1>10 DEF CompleteTurn, Metered, routeVars
      <3>. QED  BY <3>1, LedgerStays
    <2>1. MeteringShape'
      BY <1>0, <1>10, <2>0, ShapeOfRun DEF CompleteTurn, Metered, routeVars, MeteringShape,
                                           Steps, Ends
    <2>2. ReadingInv'
      BY <1>0, <1>10, <2>0, ShapeOfRun DEF CompleteTurn, Metered, routeVars, ReadingInv,
                                           LedgerInv, MeteringShape, Steps
    <2>3. AccountInv'
      BY <1>0, <1>10, <2>0, ShapeOfRun DEF CompleteTurn, Metered, routeVars, AccountInv,
                                           ReadingInv, Steps
    <2>4. LedgerInv'
      BY <1>0, <1>10, <2>0, ShapeOfRun DEF CompleteTurn, Metered, routeVars, LedgerInv,
                                           MeteringShape
    <2>5. PlanInv'
      BY <1>0, <1>10, <2>0 DEF CompleteTurn, Metered, routeVars, PlanInv, LedgerInv,
                               MeteringShape
    <2>. QED  BY <2>0, <2>1, <2>2, <2>3, <2>4, <2>5 DEF MeteringInv
  <1>11. CASE StreamEnds
    <2>0. /\ UNCHANGED <<setup, ledger>>
          /\ Total' = Total /\ Route' = Route
          /\ isTrustedUnmeteredLocalUsageRoute' = isTrustedUnmeteredLocalUsageRoute
          /\ \A m : MayAsk(m)' = MayAsk(m)
          /\ ChargesAreComplete'
      <3>1. UNCHANGED <<setup, ledger>>
        BY <1>11 DEF StreamEnds, RunFailed, EndAs, routeVars
      <3>. QED  BY <3>1, LedgerStays
    <2>1. MeteringShape'
      BY <1>0, <1>11, <2>0, ShapeOfRun DEF StreamEnds, RunFailed, EndAs, routeVars,
                                           MeteringShape, Steps, Ends
    <2>2. ReadingInv'
      BY <1>0, <1>11, <2>0, ShapeOfRun DEF StreamEnds, RunFailed, EndAs, routeVars, ReadingInv,
                                           LedgerInv, MeteringShape, Steps
    <2>3. AccountInv'
      BY <1>0, <1>11, <2>0, ShapeOfRun DEF StreamEnds, RunFailed, EndAs, routeVars, AccountInv,
                                           ReadingInv, Steps
    <2>4. LedgerInv'
      BY <1>0, <1>11, <2>0, ShapeOfRun DEF StreamEnds, RunFailed, EndAs, routeVars, LedgerInv,
                                           MeteringShape
    <2>5. PlanInv'
      BY <1>0, <1>11, <2>0 DEF StreamEnds, RunFailed, EndAs, routeVars, PlanInv, LedgerInv,
                               MeteringShape
    <2>. QED  BY <2>0, <2>1, <2>2, <2>3, <2>4, <2>5 DEF MeteringInv
  <1>12. CASE CancelMetered
    <2>0. /\ UNCHANGED <<setup, ledger>>
          /\ Total' = Total /\ Route' = Route
          /\ isTrustedUnmeteredLocalUsageRoute' = isTrustedUnmeteredLocalUsageRoute
          /\ \A m : MayAsk(m)' = MayAsk(m)
          /\ ChargesAreComplete'
      <3>1. UNCHANGED <<setup, ledger>>
        BY <1>12 DEF CancelMetered, routeVars
      <3>. QED  BY <3>1, LedgerStays
    <2>1. MeteringShape'
      BY <1>0, <1>12, <2>0, ShapeOfRun DEF CancelMetered, routeVars, MeteringShape, Steps, Ends
    <2>2. ReadingInv'
      BY <1>0, <1>12, <2>0, ShapeOfRun DEF CancelMetered, routeVars, ReadingInv, LedgerInv,
                                           MeteringShape, Steps
    <2>3. AccountInv'
      BY <1>0, <1>12, <2>0, ShapeOfRun DEF CancelMetered, routeVars, AccountInv, ReadingInv,
                                           Steps
    <2>4. LedgerInv'
      BY <1>0, <1>12, <2>0, ShapeOfRun DEF CancelMetered, routeVars, LedgerInv, MeteringShape
    <2>5. PlanInv'
      BY <1>0, <1>12, <2>0 DEF CancelMetered, routeVars, PlanInv, LedgerInv, MeteringShape
    <2>. QED  BY <2>0, <2>1, <2>2, <2>3, <2>4, <2>5 DEF MeteringInv
  <1>13. CASE NoticeAbort
    <2>0. /\ UNCHANGED <<setup, ledger>>
          /\ Total' = Total /\ Route' = Route
          /\ isTrustedUnmeteredLocalUsageRoute' = isTrustedUnmeteredLocalUsageRoute
          /\ \A m : MayAsk(m)' = MayAsk(m)
          /\ ChargesAreComplete'
      <3>1. UNCHANGED <<setup, ledger>>
        BY <1>13 DEF NoticeAbort, EndAs, routeVars
      <3>. QED  BY <3>1, LedgerStays
    <2>1. MeteringShape'
      BY <1>0, <1>13, <2>0, ShapeOfRun DEF NoticeAbort, EndAs, routeVars, MeteringShape, Steps,
                                           Ends
    <2>2. ReadingInv'
      BY <1>0, <1>13, <2>0, ShapeOfRun DEF NoticeAbort, EndAs, routeVars, ReadingInv, LedgerInv,
                                           MeteringShape, Steps
    <2>3. AccountInv'
      BY <1>0, <1>13, <2>0, ShapeOfRun DEF NoticeAbort, EndAs, routeVars, AccountInv,
                                           ReadingInv, Steps
    <2>4. LedgerInv'
      BY <1>0, <1>13, <2>0, ShapeOfRun DEF NoticeAbort, EndAs, routeVars, LedgerInv,
                                           MeteringShape
    <2>5. PlanInv'
      BY <1>0, <1>13, <2>0 DEF NoticeAbort, EndAs, routeVars, PlanInv, LedgerInv, MeteringShape
    <2>. QED  BY <2>0, <2>1, <2>2, <2>3, <2>4, <2>5 DEF MeteringInv
  <1>14. CASE MeteredManagerDies
    <2>0. /\ UNCHANGED <<setup, ledger>>
          /\ Total' = Total /\ Route' = Route
          /\ isTrustedUnmeteredLocalUsageRoute' = isTrustedUnmeteredLocalUsageRoute
          /\ \A m : MayAsk(m)' = MayAsk(m)
          /\ ChargesAreComplete'
      <3>1. UNCHANGED <<setup, ledger>>
        BY <1>14 DEF MeteredManagerDies, routeVars
      <3>. QED  BY <3>1, LedgerStays
    <2>1. MeteringShape'
      BY <1>0, <1>14, <2>0, ShapeOfRun DEF MeteredManagerDies, routeVars, MeteringShape, Steps,
                                           Ends
    <2>2. ReadingInv'
      BY <1>0, <1>14, <2>0, ShapeOfRun DEF MeteredManagerDies, routeVars, ReadingInv, LedgerInv,
                                           MeteringShape, Steps
    <2>3. AccountInv'
      BY <1>0, <1>14, <2>0, ShapeOfRun DEF MeteredManagerDies, routeVars, AccountInv,
                                           ReadingInv, Steps
    <2>4. LedgerInv'
      BY <1>0, <1>14, <2>0, ShapeOfRun DEF MeteredManagerDies, routeVars, LedgerInv,
                                           MeteringShape
    <2>5. PlanInv'
      BY <1>0, <1>14, <2>0 DEF MeteredManagerDies, routeVars, PlanInv, LedgerInv, MeteringShape
    <2>. QED  BY <2>0, <2>1, <2>2, <2>3, <2>4, <2>5 DEF MeteringInv
  <1>15. CASE ReadUsage
    BY <1>15, ReadKeeps DEF MeteringInv
  <1>16. CASE UNCHANGED meteringVars
    <2>0. /\ UNCHANGED <<setup, metering, halting, plans, cached, frozen, snapshotPlan, round,
                        askedModel, event, counted, reading, ledger, cost>>
          /\ Total' = Total /\ Route' = Route
          /\ isTrustedUnmeteredLocalUsageRoute' = isTrustedUnmeteredLocalUsageRoute
          /\ \A m : MayAsk(m)' = MayAsk(m)
          /\ ChargesAreComplete'
      <3>1. UNCHANGED <<setup, metering, halting, plans, cached, frozen, snapshotPlan, round,
                       askedModel, event, counted, reading, ledger, cost>>
        BY <1>16 DEF meteringVars
      <3>. QED  BY <3>1, LedgerStays
    <2>. QED  BY <1>0, <2>0 DEF MeteringShape, ReadingInv, AccountInv, LedgerInv, PlanInv,
                                MeteringInv
  <1>. QED
    BY <1>1, <1>2, <1>3, <1>4, <1>5, <1>6, <1>7, <1>8, <1>9, <1>10, <1>11, <1>12, <1>13, <1>14,
       <1>15, <1>16 DEF MeteringNext


-----------------------------------------------------------------------------
(* The types of the catalogue, of the keys and of the tokens                  *)

\* No lease is of a token that the row has not reached, and every reader is one.
CatalogBounds ==
  /\ entry \in {"MISSING", "STAGING", "READY", "QUARANTINED"}
  /\ entryToken \in 0 .. MaxToken /\ grants \in [Publishers -> 0 .. MaxToken]
  /\ population \in [owner : Publishers \cup {NoOne}, token : 0 .. MaxToken, live : BOOLEAN]
  /\ staging \in {"none", "partial", "whole"} /\ tree \in {"none", "good", "damaged"}
  /\ readLeases \subseteq Readers /\ promoting \in BOOLEAN

\* The readers that are counted are readers.
LEMMA CatalogSuffices == CacheInv /\ CatalogBounds => CacheTypeOK
  <1> SUFFICES ASSUME CacheInv, CatalogBounds PROVE CacheTypeOK
    OBVIOUS
  <1>1. /\ Cardinality(readLeases) <= Cardinality(Readers) /\ Cardinality(Readers) \in Nat
        /\ Cardinality(readLeases) \in Nat
    BY CacheAssumption, FS_Subset, FS_CardinalityType DEF CatalogBounds
  <1>2. active = Cardinality(readLeases) /\ lapsedReads \subseteq readLeases
    BY DEF CacheInv, ReadersAreCounted
  <1>3. active \in 0 .. Cardinality(Readers)
    BY <1>1, <1>2
  <1>. QED  BY <1>2, <1>3 DEF CatalogBounds, CacheTypeOK

LEMMA CatalogInitial == CacheInit => CatalogBounds
  <1> SUFFICES ASSUME CacheInit PROVE CatalogBounds
    OBVIOUS
  <1>1. 0 \in 0 .. MaxToken
    BY CacheAssumption
  <1>2. Vacant \in [owner : Publishers \cup {NoOne}, token : 0 .. MaxToken, live : BOOLEAN]
    BY <1>1 DEF Vacant
  <1>3. promoting \in BOOLEAN
    BY DEF CacheInit
  <1>. QED  BY <1>1, <1>2, <1>3 DEF CacheInit, CatalogBounds

LEMMA CatalogStep ==
  ASSUME CatalogBounds, [CacheNext]_cacheVars
  PROVE  CatalogBounds'
  <1> USE DEF CatalogBounds, cacheReads
  <1>0. 0 \in 0 .. MaxToken
        /\ Vacant \in [owner : Publishers \cup {NoOne}, token : 0 .. MaxToken, live : BOOLEAN]
    BY CacheAssumption DEF Vacant
  <1>1. ASSUME NEW p \in Publishers, AcquirePopulation(p) PROVE CatalogBounds'
    <2>1. PICK t \in 0 .. MaxToken : t = entryToken + 1
      BY <1>1, CacheAssumption DEF AcquirePopulation
    <2>2. /\ entry' = "STAGING" /\ entryToken' = t /\ staging' = "partial"
          /\ population' = [owner |-> p, token |-> t, live |-> TRUE]
          /\ grants' = [grants EXCEPT ![p] = t]
          /\ UNCHANGED <<tree, readLeases>> /\ promoting' = promoting
      BY <1>1, <2>1 DEF AcquirePopulation
    <2>3. grants' \in [Publishers -> 0 .. MaxToken]
      BY <2>2
    <2>4. population' \in [owner : Publishers \cup {NoOne}, token : 0 .. MaxToken, live : BOOLEAN]
      BY <2>2
    <2>. QED  BY <2>1, <2>2, <2>3, <2>4
  <1>2. ASSUME NEW p \in Publishers, StageFiles(p) PROVE CatalogBounds'
    BY <1>2 DEF StageFiles
  <1>3. ASSUME NEW p \in Publishers, PromoteRenames(p) PROVE CatalogBounds'
    BY <1>3 DEF PromoteRenames
  <1>4. CASE PromoteCommits
    BY <1>0, <1>4 DEF PromoteCommits
  <1>5. CASE PromoteFails
    BY <1>5 DEF PromoteFails
  <1>6. CASE PromoteCrashes
    BY <1>0, <1>6 DEF PromoteCrashes
  <1>7. CASE PopulationLapses
    <2>1. population' = [population EXCEPT !.live = FALSE]
      BY <1>7 DEF PopulationLapses
    <2>2. population' = [owner |-> population.owner, token |-> population.token, live |-> FALSE]
      BY <2>1
    <2>3. population' \in [owner : Publishers \cup {NoOne}, token : 0 .. MaxToken, live : BOOLEAN]
      BY <2>2
    <2>. QED  BY <1>7, <2>3 DEF PopulationLapses
  <1>8. ASSUME NEW r \in Readers, AttachReader(r) PROVE CatalogBounds'
    BY <1>8 DEF AttachReader, Quarantine
  <1>9. ASSUME NEW r \in Readers, ReleaseReader(r) PROVE CatalogBounds'
    BY <1>9 DEF ReleaseReader
  <1>10. ASSUME NEW r \in Readers, ReaderLapses(r) PROVE CatalogBounds'
    BY <1>10 DEF ReaderLapses
  <1>11. CASE TreeDecays
    BY <1>11 DEF TreeDecays
  <1>12. ASSUME NEW overQuota \in BOOLEAN, CollectGarbage(overQuota) PROVE CatalogBounds'
    <2>1. /\ staging' \in {"none", staging} /\ tree' \in {"none", tree} /\ grants' = grants
          /\ promoting' = promoting
      BY <1>12 DEF CollectGarbage
    <2>2. \/ entry' = "MISSING" /\ entryToken' = 0 /\ population' = Vacant /\ readLeases' = {}
          \/ UNCHANGED <<entry, entryToken, population>> /\ readLeases' \subseteq readLeases
      BY <1>12 DEF CollectGarbage, DropEntry
    <2>. QED  BY <1>0, <2>1, <2>2
  <1>13. CASE UNCHANGED cacheVars
    BY <1>13 DEF cacheVars
  <1>. QED  BY <1>1, <1>2, <1>3, <1>4, <1>5, <1>6, <1>7, <1>8, <1>9, <1>10, <1>11, <1>12, <1>13
            DEF CacheNext

\* What is counted of the failures of a Gateway is below the limit.
FailureBounds == failures \in [Gateways -> 0 .. AuthFailureLimit]

LEMMA FailuresSuffice == TokensInv /\ FailureBounds => TokensTypeOK
  <1> SUFFICES ASSUME TokensInv, FailureBounds PROVE TokensTypeOK
    OBVIOUS
  <1>1. AppTokens \subseteq Tokens /\ RunTokens \subseteq Tokens
    BY DEF Tokens
  <1>. QED  BY <1>1 DEF TokensInv, AccessInv, FailureBounds, TokensTypeOK

LEMMA FailuresInitial == TokensInit => FailureBounds
  BY TokensAssumption DEF TokensInit, FailureBounds

LEMMA FailuresStep ==
  ASSUME FailureBounds, [TokensNext]_tokenVars
  PROVE  FailureBounds'
  <1> USE TokensAssumption DEF FailureBounds
  <1>1. ASSUME NEW q \in GatewayRequests, NEW g \in Gateways, NEW t \in Tokens, Present(q, g, t)
        PROVE  FailureBounds'
    <2>1. failures' = failures \/ failures' = [failures EXCEPT ![g] = failures[g] + 1]
      BY <1>1 DEF Present
    <2>2. failures[g] + 1 \in 0 .. AuthFailureLimit
      BY <1>1 DEF Present, isAuthRateLimited
    <2>. QED  BY <2>1, <2>2
  <1>2. ASSUME \/ failures' = failures \/ \E g : failures' = [failures EXCEPT ![g] = 0]
        PROVE  FailureBounds'
    BY <1>2
  <1>3. ASSUME TokensNext,
               ~\E q \in GatewayRequests, g \in Gateways, t \in Tokens : Present(q, g, t)
        PROVE  \/ failures' = failures \/ \E g : failures' = [failures EXCEPT ![g] = 0]
    BY <1>3 DEF TokensNext, StartGateway, TokenVerified, TokenDerived, Listen, Shutdown, Closed,
                GatewayCrashes, WindowPasses, Authenticated, Refused, mintRunToken, Minted,
                revoke, ExpireToken
  <1>4. CASE UNCHANGED tokenVars
    BY <1>4 DEF tokenVars
  <1>. QED  BY <1>1, <1>2, <1>3, <1>4


\* No file, no copy and no truth is of a value that was not created.
KeyValues == [SecretKeys -> 0 .. MaxSecrets]

KeyBounds ==
  /\ secrets \in 0 .. MaxSecrets /\ faults \in 0 .. MaxFaults
  /\ file \in Contents /\ spare \in Contents /\ truth \in KeyValues
  /\ \A p \in Processes : values[p] \in KeyValues
  /\ lockOf \in Processes \cup {Unlocked} /\ marks \subseteq {"named", "old", "orphan"}

LEMMA KeysSuffice == StoreInv /\ KeyBounds => CredentialTypeOK
  BY DEF StoreInv, StoreTypes, KeyBounds, KeyValues, Contents, CredentialTypeOK

LEMMA KeysInitial == CredentialInit => KeyBounds
  <1> SUFFICES ASSUME CredentialInit PROVE KeyBounds
    OBVIOUS
  <1>1. Empty \in KeyValues /\ 0 \in 0 .. MaxSecrets /\ 0 \in 0 .. MaxFaults
    BY CredentialAssumption DEF Empty, KeyValues
  <1>. QED  BY <1>1 DEF CredentialInit, KeyBounds, Contents, KeyValues

\* What is created is a new value, and what is written was read or created.
LEMMA KeysStep ==
  ASSUME StoreInv, KeyBounds, [CredentialNext]_credentialVars
  PROVE  KeyBounds'
  <1> USE DEF Step, fileVars, lockVars, callVars, toldVars
  <1>0. /\ Empty \in KeyValues /\ NoFile \in Contents /\ KeyValues \subseteq Contents
        /\ 0 \in 0 .. MaxSecrets /\ users \subseteq Processes
        /\ values \in [Processes -> KeyFiles] /\ wanted \in [Processes -> SecretKeys]
        /\ kind = "keychain" => file # NoFile
        /\ \A c \in Contents : c # NoFile => c \in KeyValues
        /\ \A c \in KeyValues, k \in SecretKeys, v \in 0 .. MaxSecrets : [c EXCEPT ![k] = v] \in KeyValues
    BY CredentialAssumption DEF Empty, KeyValues, Contents, StoreInv, StoreTypes
  <1>1. ASSUME NEW p \in users
        PROVE  /\ p \in Processes /\ wanted[p] \in SecretKeys /\ values[p] \in KeyValues
               /\ Planned(p) \in 0 .. MaxSecrets /\ OnDisk \in KeyValues
               /\ OnDisk[wanted[p]] \in 0 .. MaxSecrets
    <2>1. p \in Processes /\ wanted[p] \in SecretKeys /\ values[p] \in KeyValues
      BY <1>0 DEF KeyBounds
    <2>2. OnDisk \in KeyValues
      BY <1>0 DEF OnDisk, KeyBounds
    <2>. QED  BY <2>1, <2>2 DEF Planned, KeyValues
  <1>2. ASSUME NEW p \in users, Forgotten(p) PROVE \A q \in Processes : values'[q] \in KeyValues
    BY <1>0, <1>2 DEF Forgotten, KeyBounds
  <1>3. ASSUME NEW p \in users, Called(p) PROVE KeyBounds'
    BY <1>3 DEF Called, KeyBounds
  <1>4. ASSUME NEW p \in users, OpenLock(p) PROVE KeyBounds'
    BY <1>0, <1>4 DEF OpenLock, KeyBounds
  <1>5. ASSUME NEW p \in users, NameLock(p) PROVE KeyBounds'
    BY <1>5 DEF NameLock, KeyBounds
  <1>6. ASSUME NEW p \in users, FindStale(p) PROVE KeyBounds'
    BY <1>6 DEF FindStale, KeyBounds
  <1>7. ASSUME NEW p \in users, RemoveStale(p) PROVE KeyBounds'
    BY <1>7 DEF RemoveStale, KeyBounds
  <1>8. ASSUME NEW p \in users, LockTimesOut(p) PROVE KeyBounds'
    BY <1>2, <1>8 DEF LockTimesOut, KeyBounds
  <1>9. ASSUME NEW p \in users, Unlock(p) PROVE KeyBounds'
    BY <1>2, <1>9 DEF Unlock, KeyBounds
  <1>10. ASSUME NEW p \in users, Read(p) PROVE KeyBounds'
    <2>1. UNCHANGED <<file, spare, lockOf, marks, truth, faults>>
      BY <1>10 DEF Read, GetSecret, GetOrCreate, SetSecret, DeleteSecret, Answered, WriteNew,
                   WriteNext
    <2>2. \/ UNCHANGED <<values, secrets>>
          \/ secrets < MaxSecrets /\ secrets' = secrets + 1 /\ WriteNext(p, secrets')
          \/ WriteNext(p, 0) /\ secrets' = secrets
      BY <1>10 DEF Read, GetSecret, GetOrCreate, SetSecret, DeleteSecret, Answered, WriteNew
    <2>3. ASSUME NEW v \in 0 .. MaxSecrets, WriteNext(p, v)
          PROVE  \A q \in Processes : values'[q] \in KeyValues
      <3>1. PICK content \in KeyValues : content = [OnDisk EXCEPT ![wanted[p]] = v]
        BY <1>0, <1>1, <2>3
      <3>2. values' = [values EXCEPT ![p] = content]
        BY <2>3, <3>1 DEF WriteNext
      <3>. QED  BY <1>0, <3>1, <3>2 DEF KeyBounds
    <2>4. secrets' \in 0 .. MaxSecrets
      BY <2>2, CredentialAssumption DEF KeyBounds
    <2>5. \A q \in Processes : values'[q] \in KeyValues
      <3>1. CASE UNCHANGED <<values, secrets>>
        BY <3>1 DEF KeyBounds
      <3>2. CASE WriteNext(p, secrets')
        BY <2>3, <2>4, <3>2
      <3>3. CASE WriteNext(p, 0)
        BY <1>0, <2>3, <3>3
      <3>. QED  BY <2>2, <3>1, <3>2, <3>3
    <2>. QED  BY <2>1, <2>4, <2>5 DEF KeyBounds
  <1>11. ASSUME Fault PROVE faults' \in 0 .. MaxFaults
    BY <1>11, CredentialAssumption DEF Fault, KeyBounds
  <1>12. ASSUME NEW p \in users, kind = "keychain", InKeychain(p)
         PROVE  file' \in Contents /\ truth' \in KeyValues
    BY <1>0, <1>1, <1>12 DEF InKeychain, KeyChanged, KeyBounds
  <1>13. ASSUME NEW p \in users, KeychainChanges(p) PROVE KeyBounds'
    <2>1. file' \in Contents /\ truth' \in KeyValues
      BY <1>12, <1>13 DEF KeychainChanges
    <2>. QED  BY <1>13, <2>1 DEF KeychainChanges, KeyBounds
  <1>14. ASSUME NEW p \in users, CommandFails(p) PROVE KeyBounds'
    <2>1. file' \in Contents /\ truth' \in KeyValues
      BY <1>12, <1>14 DEF CommandFails, KeyBounds
    <2>2. UNCHANGED <<values, spare, secrets, lockOf, marks>> /\ Fault
      BY <1>14 DEF CommandFails
    <2>. QED  BY <1>11, <2>1, <2>2 DEF KeyBounds
  <1>15. ASSUME NEW p \in users, DropSpare(p) PROVE KeyBounds'
    BY <1>0, <1>15 DEF DropSpare, KeyBounds
  <1>16. ASSUME NEW p \in users, MoveAside(p) PROVE KeyBounds'
    BY <1>0, <1>16 DEF MoveAside, KeyBounds
  <1>17. ASSUME NEW p \in users, MoveIn(p) PROVE KeyBounds'
    <2>1. file' \in Contents
      BY <1>0, <1>1, <1>17 DEF MoveIn
    <2>2. truth' \in KeyValues
      <3>1. truth' = [truth EXCEPT ![wanted[p]] = Planned(p)]
        BY <1>17 DEF MoveIn, KeyChanged
      <3>. QED  BY <1>0, <1>1, <3>1 DEF KeyBounds
    <2>. QED  BY <1>17, <2>1, <2>2 DEF MoveIn, KeyBounds
  <1>18. ASSUME NEW p \in users, Succeed(p) PROVE KeyBounds'
    BY <1>0, <1>18 DEF Succeed, KeyBounds
  <1>19. ASSUME NEW p \in users, WriteFails(p) PROVE KeyBounds'
    <2>1. UNCHANGED <<values, secrets, lockOf, marks>> /\ Fault
      BY <1>19 DEF WriteFails
    <2>2. \/ spare # NoFile /\ file' = spare /\ spare' = NoFile
             /\ (truth' = truth \/ truth' = [truth EXCEPT ![wanted[p]] = spare[wanted[p]]])
          \/ UNCHANGED <<file, spare, truth>>
      BY <1>19 DEF WriteFails
    <2>3. file' \in Contents /\ spare' \in Contents /\ truth' \in KeyValues
      <3>1. CASE UNCHANGED <<file, spare, truth>>
        BY <3>1 DEF KeyBounds
      <3>2. CASE spare # NoFile /\ file' = spare /\ spare' = NoFile
                 /\ (truth' = truth \/ truth' = [truth EXCEPT ![wanted[p]] = spare[wanted[p]]])
        <4>1. spare \in KeyValues
          BY <1>0, <3>2 DEF KeyBounds
        <4>2. spare[wanted[p]] \in 0 .. MaxSecrets
          BY <1>1, <4>1 DEF KeyValues
        <4>. QED  BY <1>0, <1>1, <3>2, <4>1, <4>2 DEF KeyBounds
      <3>. QED  BY <2>2, <3>1, <3>2
    <2>. QED  BY <1>11, <2>1, <2>3 DEF KeyBounds
  <1>20. ASSUME NEW p \in users, ProcessDies(p) PROVE KeyBounds'
    <2>1. UNCHANGED <<file, spare, secrets, truth, lockOf>> /\ Fault /\ Forgotten(p)
          /\ marks' \subseteq marks \cup {"orphan"}
      BY <1>20 DEF ProcessDies
    <2>. QED  BY <1>2, <1>11, <2>1 DEF KeyBounds
  <1>21. CASE SecretLockAges
    BY <1>21 DEF SecretLockAges, KeyBounds
  <1>22. CASE UNCHANGED credentialVars
    BY <1>22 DEF credentialVars, KeyBounds
  <1>. QED  BY <1>3, <1>4, <1>5, <1>6, <1>7, <1>8, <1>9, <1>10, <1>13, <1>14, <1>15, <1>16,
               <1>17,
               <1>18, <1>19, <1>20, <1>21, <1>22 DEF CredentialNext, CredentialStep

=============================================================================
