------------------------------ MODULE Calendar ------------------------------
(* The date that ncap-server writes before a line of its log (format_utc,   *)
(* server.rs), and the calendar as a reference.                             *)
EXTENDS Integers

DaysPerEra == 146097

\* Days since the epoch to a date, by arithmetic alone.
Civil(days) ==
  LET shifted == days + 719468
      era == shifted \div DaysPerEra
      ofEra == shifted % DaysPerEra
      yearOfEra ==
        (ofEra - ofEra \div 1460 + ofEra \div 36524 - ofEra \div 146096) \div 365
      ofYear == ofEra - (365 * yearOfEra + yearOfEra \div 4 - yearOfEra \div 100)
      fromMarch == (5 * ofYear + 2) \div 153
      month == IF fromMarch < 10 THEN fromMarch + 3 ELSE fromMarch - 9
  IN  [year |-> yearOfEra + era * 400 + (IF month <= 2 THEN 1 ELSE 0),
       month |-> month,
       day |-> ofYear - (153 * fromMarch + 2) \div 5 + 1]

Time(secs) ==
  [date |-> Civil(secs \div 86400), hour |-> (secs % 86400) \div 3600,
   minute |-> (secs % 3600) \div 60, second |-> secs % 60]

-----------------------------------------------------------------------------
(* The reference: the date that follows a date.                            *)

IsLeap(year) == year % 4 = 0 /\ (year % 100 # 0 \/ year % 400 = 0)

DaysIn(year, month) ==
  IF month = 2 THEN IF IsLeap(year) THEN 29 ELSE 28
  ELSE IF month \in {4, 6, 9, 11} THEN 30 ELSE 31

Tomorrow(date) ==
  IF date.day < DaysIn(date.year, date.month) THEN [date EXCEPT !.day = @ + 1]
  ELSE IF date.month < 12 THEN [date EXCEPT !.month = @ + 1, !.day = 1]
  ELSE [year |-> date.year + 1, month |-> 1, day |-> 1]
=============================================================================
