--------------------------- MODULE SchedulePicker ---------------------------
(***************************************************************************)
(* The schedule of a job in its form: JobSchedulePicker.tsx over the       *)
(* conversions of utils/jobSchedule.ts, as JobsPage.tsx and the panels for *)
(* templates and reports use them.                                         *)
(*                                                                         *)
(* A cron expression is a record of its five fields.  An expression of     *)
(* another length is one the picker understands as little as one with a    *)
(* month, and is among those.                                              *)
(***************************************************************************)
EXTENDS Integers

CONSTANTS        \* numbers that occur in cron expressions
  CronMinutes,
  CronHours,
  CronDays,
  CronWeekdays

ASSUME SchedulePickerAssumption ==
  /\ 0 \in CronMinutes /\ CronMinutes \subseteq 0..59
  /\ 2 \in CronHours /\ CronHours \subseteq 0..23
  /\ 1 \in CronDays /\ CronDays \subseteq 1..31
  /\ {1, 6} \subseteq CronWeekdays /\ CronWeekdays \subseteq 0..7

VARIABLES
  schedule,  \* the state scheduleConfig of the form
  reopened   \* the stored expression the form was opened with; NoCron once it is edited

scheduleVars == <<schedule, reopened>>

-----------------------------------------------------------------------------

Any == -1     \* "*"
Other == -2   \* a list, a range, a step, a name

Cron ==
  [minute : CronMinutes \cup {Any, Other}, hour : CronHours \cup {Any, Other},
   dom : CronDays \cup {Any, Other}, month : {Any, Other},
   dow : CronWeekdays \cup {Any, Other}]

CronOf(m, h, dom, dow) == [minute |-> m, hour |-> h, dom |-> dom, month |-> Any, dow |-> dow]

NoCron == CronOf(Other, Other, Other, Other)

ScheduleFrequency == {"hourly", "daily", "weekly", "monthly", "custom"}

ScheduleConfig ==
  [frequency : ScheduleFrequency, minute : CronMinutes, hour : CronHours,
   dayOfWeek : CronWeekdays, dayOfMonth : CronDays, customCron : Cron]

DefaultSchedule ==
  [frequency |-> "weekly", minute |-> 0, hour |-> 2, dayOfWeek |-> 1, dayOfMonth |-> 1,
   customCron |-> CronOf(0, 2, Any, 1)]

ScheduleTypeOK == schedule \in ScheduleConfig /\ reopened \in Cron

-----------------------------------------------------------------------------

BugNotAny(field) == field # Any

\* isFixedNumber
IsFixed(field) == field >= 0

BugBuildWithoutDay(c) == CronOf(c.minute, c.hour, Any, Any)

\* buildCronExpression.  The weekday is cut off at Saturday.
BuildCron(c) ==
  CASE c.frequency = "hourly" -> CronOf(c.minute, Any, Any, Any)
    [] c.frequency = "daily" -> CronOf(c.minute, c.hour, Any, Any)
    [] c.frequency = "weekly" ->
         CronOf(c.minute, c.hour, Any, IF c.dayOfWeek > 6 THEN 6 ELSE c.dayOfWeek)
    [] c.frequency = "monthly" -> CronOf(c.minute, c.hour, c.dayOfMonth, Any)
    [] c.frequency = "custom" -> c.customCron

\* The frequency whose choices can express e.
FrequencyOf(e) ==
  IF e.month # Any \/ ~IsFixed(e.minute) THEN "custom"
  ELSE CASE e.hour = Any /\ e.dom = Any /\ e.dow = Any -> "hourly"
         [] IsFixed(e.hour) /\ IsFixed(e.dom) /\ e.dow = Any -> "monthly"
         [] IsFixed(e.hour) /\ e.dom = Any /\ e.dow = Any -> "daily"
         [] IsFixed(e.hour) /\ e.dom = Any /\ IsFixed(e.dow) -> "weekly"
         [] OTHER -> "custom"

\* parseCronExpression: what the frequency has no use for keeps its default.
ParseCron(e) ==
  LET f == FrequencyOf(e) IN
  [frequency |-> f,
   minute |-> IF f # "custom" THEN e.minute ELSE DefaultSchedule.minute,
   hour |-> IF f \in {"daily", "weekly", "monthly"} THEN e.hour ELSE DefaultSchedule.hour,
   dayOfWeek |-> IF f = "weekly" THEN e.dow ELSE DefaultSchedule.dayOfWeek,
   dayOfMonth |-> IF f = "monthly" THEN e.dom ELSE DefaultSchedule.dayOfMonth,
   customCron |-> IF f = "hourly" THEN DefaultSchedule.customCron ELSE e]

-----------------------------------------------------------------------------

ScheduleInit ==
  /\ schedule = DefaultSchedule
  /\ reopened = NoCron

FillIn(e) ==
  /\ reopened' = e
  /\ schedule' = ParseCron(e)

\* The form is filled from a job or a template.  (Nothing remains of what it showed
\* before, so that it is enough to do this in an empty form.)
OpenSchedule(e) == schedule = DefaultSchedule /\ FillIn(e)

UpdateConfig(config) ==
  /\ config # schedule
  /\ schedule' = config
  /\ reopened' = NoCron

\* What each frequency gives a choice of; the text of a cron expression is typed
\* field by field.
ChooseFrequency == \E f \in ScheduleFrequency : UpdateConfig([schedule EXCEPT !.frequency = f])

ChooseMinute ==
  /\ schedule.frequency = "hourly"
  /\ \E m \in CronMinutes : UpdateConfig([schedule EXCEPT !.minute = m])

HandleTimeChange ==
  /\ schedule.frequency \in {"daily", "weekly", "monthly"}
  /\ \E m \in CronMinutes, h \in CronHours : UpdateConfig([schedule EXCEPT !.minute = m, !.hour = h])

ChooseDay ==
  \/ /\ schedule.frequency = "weekly"
     /\ \E d \in CronWeekdays \ {7} : UpdateConfig([schedule EXCEPT !.dayOfWeek = d])
  \/ /\ schedule.frequency = "monthly"
     /\ \E d \in CronDays : UpdateConfig([schedule EXCEPT !.dayOfMonth = d])

TypeCron ==
  /\ schedule.frequency = "custom"
  /\ \E field \in DOMAIN schedule.customCron, text \in -2..59 :
       LET config == [schedule EXCEPT !.customCron[field] = text]
       IN  config.customCron \in Cron /\ UpdateConfig(config)

\* The form is saved and opened again.
SaveSchedule == FillIn(BuildCron(schedule))

ScheduleNext ==
  \/ \E e \in Cron : OpenSchedule(e)
  \/ ChooseFrequency \/ ChooseMinute \/ HandleTimeChange \/ ChooseDay \/ TypeCron
  \/ SaveSchedule

-----------------------------------------------------------------------------

\* A job that is opened and saved for the sake of another field keeps its
\* schedule, whoever wrote it, in whatever form.  (Not weekday 7, a Sunday that
\* the server accepts: it is saved as a Saturday.)
ScheduleSurvivesEditing ==
  (reopened # NoCron /\ reopened.dow # 7) => BuildCron(schedule) = reopened

=============================================================================
