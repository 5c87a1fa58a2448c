---------------------------- MODULE MCArithmetic ----------------------------
(* Times, profiles and months for the algorithms of Arithmetic. *)
EXTENDS Arithmetic, TLC

\* Every choice of times from a day with short gaps around the six-hour marks, and
\* every choice from a night across midnight.
DayTimes == {1440 + x : x \in {0, 5, 360, 391, 700, 745, 753, 1140}}
NightTimes == {1440 + 1020, 1440 + 1400, 1440 + 1439, 2880, 2880 + 25, 2880 + 400}
MCHistory == SUBSET DayTimes \cup SUBSET NightTimes

\* All hours with an afternoon from 14:00, all with one from midnight, the total
\* alone, and no hours.
MCProfiles ==
  {[type |-> "TASK_SHIFT_BASED", enabled |-> {}, afternoon |-> 0],
   [type |-> "WORK_CONTRACT", enabled |-> {"afternoon", "night", "weekend", "public_holiday"}, afternoon |-> 840],
   [type |-> "DPP_DPC", enabled |-> {"afternoon", "weekend"}, afternoon |-> 0],
   [type |-> "EXTERNAL_HOURLY", enabled |-> {}, afternoon |-> 0]}

Dates == INSTANCE TimeMetrics WITH Cases <- {}, Profiles <- {}

\* Easter at a change of months and inside one, with every choice of times from its
\* four days; and every year of two centuries without any.
EasterCase(year, month, marks, shifts, status) ==
  LET friday == Dates!_easter_sunday(year) - 2
      minute(x) == 1440 * friday + x
  IN  [year |-> year, month |-> month,
       times |-> {minute(x) : x \in marks},
       shifts |-> [d \in {friday + x : x \in DOMAIN shifts} |->
                     IF shifts[d - friday] = <<>> THEN <<>>
                     ELSE <<minute(shifts[d - friday][1]), minute(shifts[d - friday][2])>>],
       status |-> [d \in {friday + x : x \in DOMAIN status} |-> status[d - friday]]]
EasterMarks == SUBSET {301, 1324, 1441, 1440 + 843, 2880 + 361, 4320}
EmptyMonth(year) == EasterCase(year, 2, {}, <<>>, <<>>)
MCCases ==
  {EasterCase(year, month, marks, 0 :> <<363, 1083>> @@ 1 :> <<>>, 4 :> "SICKNESS" @@ 5 :> "OFF") :
     year \in {2024, 2025}, month \in {3, 4}, marks \in EasterMarks}
  \cup {EasterCase(2024, month, {1441}, <<>>, 2 :> "PARAGRAPH" @@ 3 :> "HOLIDAY") : month \in {3, 4}}
  \cup {EmptyMonth(year) : year \in 1951 .. 2150}
=============================================================================
