-------------------------- MODULE ScheduledReports --------------------------
(***************************************************************************)
(* Scheduled reports (analytics/services/scheduled-report.service.ts): the *)
(* arithmetic of the next run, cron matching, and the runner, which works  *)
(* through the due rows while requests change them.  One report row.  A    *)
(* date is a day number; every run is at midnight, every call after it.    *)
(***************************************************************************)
EXTENDS Integers, Sequences

CONSTANTS
    StartDays,          \* days on which a behaviour may begin
    MaxScheduleChanges, \* bound on requests
    MaxRuns,            \* bound on runs of the report
    MaxReportFaults     \* bound on failed calls of the runner

VARIABLES
    today,              \* the day
    report,             \* the row: isScheduled, frequency, nextRunAt, recipients
    request,            \* the request under way: the row it read
    runner,             \* processScheduledReports: the row it read
    delivered,          \* history: reports made for each due date
    scheduleChanges, reportRuns, reportFaults,
    reportsCrossed      \* history: a request and a run overlapped

vars == <<today, report, request, runner, delivered,
          scheduleChanges, reportRuns, reportFaults, reportsCrossed>>

-----------------------------------------------------------------------------
\* The calendar.  Day 0 is Sunday, 1 January 2023; 2024 is a leap year.
\* The first day of each month, January 2023 being month 0.
FirstDays == <<0, 31, 59, 90, 120, 151, 181, 212, 243, 273, 304, 334,
               365, 396, 425, 456, 486, 517, 547, 578, 609, 639, 670, 700,
               731, 762, 790, 821, 851, 882, 912, 943, 974, 1004, 1035, 1065, 1096>>
FirstOf(m) == FirstDays[m + 1]
MonthOf(d) == CHOOSE m \in 0 .. 35 : FirstOf(m) <= d /\ d < FirstOf(m + 1)

Weekday(d) == d % 7
DayOfMonth(d) == d - FirstOf(MonthOf(d)) + 1
MonthOfYear(d) == (MonthOf(d) % 12) + 1

\* JavaScript's setMonth: the day of the month stays, and what the month is too
\* short for runs on into the one after it.
SetMonth(d, m) == FirstOf(m) + DayOfMonth(d) - 1

-----------------------------------------------------------------------------
Frequencies == {"daily", "weekly", "monthly", "quarterly", "custom"}

\* A cron field is a list of ranges with a step.  The minute and hour are 0.
Every(min, max) == [from |-> min, to |-> max, step |-> 1]
Just(n) == [from |-> n, to |-> n, step |-> 1]
ParseCronField(parts) ==
    UNION {{v \in p.from .. p.to : (v - p.from) % p.step = 0} : p \in parts}

\* Day 7 of the week is Sunday too; a field is restricted unless it is "*".
ParseCron(dom, month, dow) ==
    [dom |-> ParseCronField(dom), month |-> ParseCronField(month),
     dow |-> {v % 7 : v \in ParseCronField(dow)},
     domRestricted |-> dom # {Every(1, 31)}, dowRestricted |-> dow # {Every(0, 7)}]

\* The CUSTOM expression of the model: every tenth day and every Friday.
CustomCron == ParseCron({[from |-> 1, to |-> 31, step |-> 10]}, {Every(1, 12)}, {Just(5)})

CronForFrequency(frequency) ==
    CASE frequency = "daily"     -> ParseCron({Every(1, 31)}, {Every(1, 12)}, {Every(0, 7)})
      [] frequency = "weekly"    -> ParseCron({Every(1, 31)}, {Every(1, 12)}, {Just(0)})
      [] frequency = "monthly"   -> ParseCron({Just(1)}, {Every(1, 12)}, {Every(0, 7)})
      [] frequency = "quarterly" -> ParseCron({Just(1)}, {Just(m) : m \in {1, 4, 7, 10}}, {Every(0, 7)})
      [] frequency = "custom"    -> CustomCron

\* When both day fields are restricted, either may match.
CronMatches(cron, d) ==
    LET dom == DayOfMonth(d) \in cron.dom
        dow == Weekday(d) \in cron.dow
    IN /\ MonthOfYear(d) \in cron.month
       /\ IF cron.domRestricted /\ cron.dowRestricted THEN dom \/ dow
          ELSE (cron.domRestricted => dom) /\ (cron.dowRestricted => dow)

\* calculateNextRunFromCron: the first match after now, within 366 days.
NextRunFromCron(cron, now) ==
    CHOOSE d \in now + 1 .. now + 366 :
        CronMatches(cron, d) /\ \A e \in now + 1 .. d - 1 : ~CronMatches(cron, e)

FirstOfMonth(d) == FirstOf(MonthOf(d))

\* Mutant: on a Sunday the next Sunday is today.
WeeklyToday(frequency, now) ==
    IF frequency = "weekly" /\ Weekday(now) = 0 THEN now
    ELSE NextRunFromCron(CronForFrequency(frequency), now)

CalculateNextRun(frequency, now) ==
    LET quarter == MonthOf(now) \div 3 IN
    CASE frequency = "daily"     -> now + 1
      [] frequency = "weekly"    -> now + 7 - Weekday(now)
      [] frequency = "monthly"   -> FirstOfMonth(SetMonth(now, MonthOf(now) + 1))
      [] frequency = "quarterly" -> FirstOfMonth(SetMonth(now, (quarter + 1) * 3))
      [] frequency = "custom"    -> NextRunFromCron(CustomCron, now)

-----------------------------------------------------------------------------
Idle == [pc |-> "idle"]
Unscheduled == [scheduled |-> FALSE, frequency |-> "daily", next |-> 0, recipients |-> FALSE]
bounds == <<scheduleChanges, reportRuns, reportFaults>>

TypeOK ==
    /\ today \in Nat
    /\ report.scheduled \in BOOLEAN /\ report.frequency \in Frequencies

Init ==
    /\ today \in StartDays
    /\ report = Unscheduled /\ request = Idle /\ runner = Idle
    /\ delivered = [date |-> 0, count |-> 0]
    /\ scheduleChanges = 0 /\ reportRuns = 0 /\ reportFaults = 0 /\ reportsCrossed = FALSE

\* Every request reads the row first; the answer may find it changed.
ReadReport ==
    /\ request.pc = "idle" /\ scheduleChanges < MaxScheduleChanges
    /\ scheduleChanges' = scheduleChanges + 1
    /\ request' = [pc |-> "read", row |-> report]
    /\ reportsCrossed' = (reportsCrossed \/ runner.pc # "idle")
    /\ UNCHANGED <<today, report, runner, delivered, reportRuns, reportFaults>>

SaveReport(row) ==
    /\ request.pc = "read" /\ request' = Idle
    /\ report' = row
    /\ UNCHANGED <<today, runner, delivered, bounds, reportsCrossed>>

ScheduleReport(frequency, recipients) ==
    SaveReport([scheduled |-> TRUE, frequency |-> frequency, recipients |-> recipients,
                next |-> CalculateNextRun(frequency, today)])

UpdateSchedule(frequency) ==
    SaveReport([request.row EXCEPT !.frequency = frequency,
                                   !.next = CalculateNextRun(frequency, today)])

\* isActive alone brings back whatever schedule the row still has.
UpdateActive(active) ==
    request.pc = "read" /\ request.row.next # 0 /\ SaveReport([request.row EXCEPT !.scheduled = active])

\* The columns set to undefined are left out of the UPDATE and keep their values.
RemoveSchedule == request.pc = "read" /\ SaveReport([request.row EXCEPT !.scheduled = FALSE])

Due(row) == row.scheduled /\ row.next <= today

FindDueReports ==
    /\ runner.pc = "idle" /\ Due(report) /\ reportRuns < MaxRuns
    /\ reportRuns' = reportRuns + 1
    /\ runner' = [pc |-> "create", row |-> report]
    /\ reportsCrossed' = (reportsCrossed \/ request.pc # "idle")
    /\ UNCHANGED <<today, report, request, delivered, scheduleChanges, reportFaults>>

\* createReport makes the new report, which is processed in the background.
CreateReport ==
    /\ runner.pc = "create"
    /\ runner' = [runner EXCEPT !.pc = "save"]
    /\ delivered' = [date |-> runner.row.next,
                     count |-> IF delivered.date = runner.row.next THEN delivered.count + 1 ELSE 1]
    /\ UNCHANGED <<today, report, request, bounds, reportsCrossed>>

\* The row is saved as it was read, with its next run; then the report is sent,
\* if it has recipients, and a failure to send is only logged.
SaveNextRun ==
    /\ runner.pc = "save"
    /\ report' = [runner.row EXCEPT !.next = CalculateNextRun(runner.row.frequency, today)]
    /\ runner' = Idle
    /\ UNCHANGED <<today, request, delivered, bounds, reportsCrossed>>

\* A call of the runner fails, or the process ends: the row stays due.
RunFails ==
    /\ runner.pc # "idle" /\ reportFaults < MaxReportFaults
    /\ reportFaults' = reportFaults + 1
    /\ runner' = Idle
    /\ UNCHANGED <<today, report, request, delivered, scheduleChanges, reportRuns, reportsCrossed>>

\* Time passes to the due date or the day after it.
Tick ==
    /\ \E d \in {report.next, report.next + 1} :
          /\ d > today /\ d < FirstOf(24) /\ today' = d
    /\ runner.pc = "idle" /\ request.pc = "idle"
    /\ UNCHANGED <<report, request, runner, delivered, bounds, reportsCrossed>>

Next ==
    \/ ReadReport
    \/ \E f \in Frequencies : UpdateSchedule(f) \/ \E b \in BOOLEAN : ScheduleReport(f, b)
    \/ \E b \in BOOLEAN : UpdateActive(b)
    \/ RemoveSchedule
    \/ FindDueReports \/ CreateReport \/ SaveNextRun \/ RunFails
    \/ Tick

Spec == Init /\ [][Next]_vars

-----------------------------------------------------------------------------
\* A due date is served once, and again only after a failure between making the
\* report and saving the next run: the next run is always later than today,
\* however often the row is scheduled, changed, stopped and brought back.
OncePerDueDate == ~reportsCrossed => delivered.count <= 1 + reportFaults

\* The two ways to compute a next run agree: the date arithmetic of the named
\* frequencies and the cron expression stored for them, up to the 28th.
NextRunIsCron ==
    DayOfMonth(today) <= 28 =>
        CalculateNextRun(report.frequency, today) =
            NextRunFromCron(CronForFrequency(report.frequency), today)
=============================================================================
