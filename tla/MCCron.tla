-------------------------------- MODULE MCCron --------------------------------
(* Instances of the cron search for TLC: days of two hours of two minutes, in*)
(* the years 2027 to 2030, of which 2028 is a leap year.                     *)
EXTENDS Cron

\* The lists tried for each field; the last two of dow are rejected.
Lists ==
    [minute |-> {<<Star>>, <<Num(0)>>},
     hour   |-> {<<Star>>, <<Step(1, 1)>>},
     day    |-> {<<Star>>, <<Num(29)>>, <<Num(31)>>, <<Num(1), Num(15)>>},
     month  |-> {<<Star>>, <<Num(2)>>, <<Step(2, 2), Num(1)>>, <<Num(3), Star>>},
     dow    |-> {<<Star>>, <<Num(1), Num(4)>>, <<Num(7)>>, <<Step(0, 0)>>}]

AllExpressions ==
    [minute : Lists.minute, hour : Lists.hour, day : Lists.day, month : Lists.month,
     dow : Lists.dow]

\* The middle of the last three days of a month and of the first of the next, for
\* months before and after a short one, in a common year and in a leap year.
MonthEnds ==
    {Midnight(FirstDay(m + 1) - k) + 2 : m \in {0, 1, 2, 12, 13}, k \in 0..3}

=============================================================================
