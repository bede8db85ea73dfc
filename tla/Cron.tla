--------------------------------- MODULE Cron ---------------------------------
(***************************************************************************)
(* nextTime and parseField of internal/scheduler/cron.go: the search for   *)
(* the next time a cron expression matches, one action for each way the    *)
(* body of its loop can go.                                                *)
(*                                                                         *)
(* An instant is a number of minutes since the first of January of Year0.  *)
(* Seconds, which nextTime carries along, and changes of the clock by the  *)
(* time zone are left out.  Package time of Go is modelled as far as       *)
(* nextTime uses it: AddDate keeps the day of the month, and a day the     *)
(* month does not have runs over into the month after.                     *)
(***************************************************************************)
EXTENDS Integers, Sequences, FiniteSets

CONSTANTS Year0,           \* the year the calendar begins with
          Weekday0,        \* the day of the week of its first day
          HoursPerDay,     \* 24 in the code
          MinutesPerHour,  \* 60 in the code
          Expressions,     \* the expressions: five fields, each a list of parts
          Asked            \* the instants nextTime is asked about

ASSUME CronAssumption ==
    /\ Year0 \in Nat \ {0}
    /\ Weekday0 \in 0..6
    /\ {HoursPerDay, MinutesPerHour} \subseteq Nat \ {0}
    /\ Asked \subseteq Nat

VARIABLES
    expr,    \* the sets the fields have been parsed into
    after,   \* the instant asked about
    t,       \* the instant the search has come to
    result   \* "search", "found" or "none"

cronVars == <<expr, after, t, result>>

-----------------------------------------------------------------------------
(* The calendar.                                                             *)

IsLeap(y) == y % 4 = 0 /\ (y % 100 # 0 \/ y % 400 = 0)

\* Months are numbered from 0, through all years.
MonthLength(m) ==
    CASE m % 12 = 1 -> IF IsLeap(Year0 + m \div 12) THEN 29 ELSE 28
      [] m % 12 \in {3, 5, 8, 10} -> 30
      [] OTHER -> 31

\* The leap days of the years before y.
LeapDays(y) == ((y - 1) \div 4) - ((y - 1) \div 100) + ((y - 1) \div 400)

DaysBefore == <<0, 31, 59, 90, 120, 151, 181, 212, 243, 273, 304, 334>>

\* The first day of a month; days are numbered from 0.
FirstDay(m) ==
    LET year == m \div 12
    IN  365 * year + LeapDays(Year0 + year) - LeapDays(Year0) + DaysBefore[(m % 12) + 1]
          + (IF IsLeap(Year0 + year) /\ m % 12 >= 2 THEN 1 ELSE 0)

Day(u)        == u \div (HoursPerDay * MinutesPerHour)
Month(u)      == CHOOSE m \in (Day(u) \div 31)..(Day(u) \div 28) :
                    FirstDay(m) <= Day(u) /\ Day(u) < FirstDay(m + 1)
DayOfMonth(u) == Day(u) - FirstDay(Month(u)) + 1
MonthOfYear(u) == (Month(u) % 12) + 1
Weekday(u)    == (Day(u) + Weekday0) % 7
Hour(u)       == (u \div MinutesPerHour) % HoursPerDay
Minute(u)     == u % MinutesPerHour

Midnight(d) == d * HoursPerDay * MinutesPerHour

\* t.AddDate(0, n, 0)
AddMonths(u, n) ==
    Midnight(FirstDay(Month(u) + n) + DayOfMonth(u) - 1)
      + (u % (HoursPerDay * MinutesPerHour))

-----------------------------------------------------------------------------
(* parseField.  A part is "*", base/step, or a number.                       *)

Star       == [kind |-> "star"]
Step(b, n) == [kind |-> "step", base |-> b, by |-> n]
Num(v)     == [kind |-> "num", value |-> v]

Parts == [kind : {"star"}] \cup [kind : {"step"}, base : Int, by : Int] \cup [kind : {"num"}, value : Int]

\* The values a part stands for; a step may start anywhere.
Values(part, lo, hi) ==
    CASE part.kind = "star" -> lo..hi
      [] part.kind = "step" -> {i \in part.base..hi : (i - part.base) % part.by = 0}
      [] part.kind = "num"  -> {part.value}

\* parseField returns at the first "*" or step, and never looks at what follows.
Read(parts) ==
    {k \in DOMAIN parts : \A i \in 1..(k - 1) : parts[i].kind = "num"}

Rejected(parts, lo, hi) ==
    \E k \in Read(parts) :
        \/ parts[k].kind = "num" /\ parts[k].value \notin lo..hi
        \/ parts[k].kind = "step" /\ parts[k].by <= 0

ParseField(parts, lo, hi) == UNION {Values(parts[k], lo, hi) : k \in Read(parts)}

Highest == [minute |-> MinutesPerHour - 1, hour |-> HoursPerDay - 1, day |-> 31,
            month |-> 12, dow |-> 6]
Lowest  == [minute |-> 0, hour |-> 0, day |-> 1, month |-> 1, dow |-> 0]
Fields  == DOMAIN Highest

\* A field has one part or more, between commas.
ASSUME FieldsAssumption == \A e \in Expressions : \A f \in Fields : e[f] \in Seq(Parts) \ {<<>>}

Parsed(e) == [f \in Fields |-> ParseField(e[f], Lowest[f], Highest[f])]

-----------------------------------------------------------------------------
(* nextTime.                                                                 *)

\* An expression that is rejected gives an error and no search.
CronInit ==
    /\ \E e \in Expressions :
         /\ \A f \in Fields : ~Rejected(e[f], Lowest[f], Highest[f])
         /\ expr = Parsed(e)
    /\ after \in Asked
    /\ t = after + 1
    /\ result = "search"

\* The search ends two years on.
End == AddMonths(after, 24)

MonthFits  == MonthOfYear(t) \in expr.month
DayFits    == MonthFits /\ DayOfMonth(t) \in expr.day
DateFits   == DayFits /\ Weekday(t) \in expr.dow
HourFits   == DateFits /\ Hour(t) \in expr.hour
MinuteFits == HourFits /\ Minute(t) \in expr.minute

Searching == result = "search" /\ t < End

MoveTo(u) ==
    /\ t' = u
    /\ UNCHANGED <<expr, after, result>>

\* Mutation: the first of the month t is in.
NextMonthStays ==
    /\ Searching
    /\ ~MonthFits
    /\ MoveTo(Midnight(FirstDay(Month(t))))

\* The month does not match: AddDate(0, 1, 0), then back to the first.
NextMonth ==
    /\ Searching
    /\ ~MonthFits
    /\ MoveTo(Midnight(FirstDay(Month(AddMonths(t, 1)))))

\* Mutation: the time of day is kept.
NextDayKeepsHour ==
    /\ Searching
    /\ MonthFits /\ ~DateFits
    /\ MoveTo(t + HoursPerDay * MinutesPerHour)

\* The day of the month or of the week does not match.
NextDay ==
    /\ Searching
    /\ MonthFits /\ ~DateFits
    /\ MoveTo(Midnight(Day(t) + 1))

NextHour ==
    /\ Searching
    /\ DateFits /\ ~HourFits
    /\ MoveTo((t \div MinutesPerHour + 1) * MinutesPerHour)

NextMinute ==
    /\ Searching
    /\ HourFits /\ ~MinuteFits
    /\ MoveTo(t + 1)

\* Mutation: cron's own rule, either day field will do.
FoundEitherDay ==
    /\ Searching
    /\ MonthFits /\ (DayOfMonth(t) \in expr.day \/ Weekday(t) \in expr.dow)
    /\ Hour(t) \in expr.hour /\ Minute(t) \in expr.minute
    /\ result' = "found"
    /\ UNCHANGED <<expr, after, t>>

Found ==
    /\ Searching
    /\ MinuteFits
    /\ result' = "found"
    /\ UNCHANGED <<expr, after, t>>

GiveUp ==
    /\ result = "search"
    /\ t >= End
    /\ result' = "none"
    /\ UNCHANGED <<expr, after, t>>

CronNext == NextMonth \/ NextDay \/ NextHour \/ NextMinute \/ Found \/ GiveUp

CronSpec == CronInit /\ [][CronNext]_cronVars

\* nextTime runs until it returns.
CronFairSpec == CronSpec /\ WF_cronVars(CronNext)

-----------------------------------------------------------------------------
(* Properties.                                                               *)

CronTypeOK ==
    /\ \A f \in Fields : \A v \in expr[f] : v \in Int /\ v <= Highest[f]
    /\ after \in Asked
    /\ t \in Nat
    /\ result \in {"search", "found", "none"}

\* What an expression means: every field allows the instant.
Allows(u) ==
    /\ Minute(u) \in expr.minute
    /\ Hour(u) \in expr.hour
    /\ DayOfMonth(u) \in expr.day
    /\ MonthOfYear(u) \in expr.month
    /\ Weekday(u) \in expr.dow

\* The instants a step of the search passes over, in one direction only.
Passed == t..(t' - 1)

\* What the search does pass over lies in a month too short to have the day of
\* the month it set out from: February, asked on the 29th to the 31st of January,
\* or a month of 30 days, asked on the 31st of the month before.
SkipsShortMonthsOnly ==
    [][\A u \in Passed : u < End /\ Allows(u) => MonthLength(Month(u)) < DayOfMonth(t)]_cronVars

\* What is found matches, comes after the instant asked about and before the limit.
FoundMatches ==
    result = "found" => Allows(t) /\ after < t /\ t < End

\* The search and its result.
CronInv == CronTypeOK /\ FoundMatches

\* Every search ends, also for an expression that matches never.
SearchEnds == <>(result # "search")

=============================================================================
