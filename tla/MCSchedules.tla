---------------------------- MODULE MCSchedules ----------------------------
(* TLC instance of Schedules: the change from Saturday 31 January to        *)
(* Sunday 1 February 2026.                                                  *)
EXTENDS Schedules

CONSTANTS t1, t2, w1, g1

MCFirst == 30 * MinutesPerDay + 23 * 60 + 59   \* 31 January, 23:59 UTC

MCLast == MCFirst + 1

(* UTC and a zone one hour ahead, whose clocks go back at midnight UTC *)
MCOffset ==
  [z \in Zone |-> [n \in MCFirst .. MCLast |->
     IF z = "ahead" /\ n = MCFirst THEN 60 ELSE 0]]

MCPlain ==
  [priority |-> 0, gpus |-> 1, preemptible |-> FALSE, allow_preempt |-> FALSE,
   background |-> FALSE, elastic |-> FALSE, waits |-> FALSE, target |-> None,
   schedule |-> {}]

MCSubmissions ==
  [t \in Task |-> {[MCPlain EXCEPT !.preemptible = (t = t1)]}]

EveryMinute == [f \in CronField |-> {Any}]

(* 0 * * * * *)
EveryHour == [EveryMinute EXCEPT !.minute = {Value(0)}]

(* 0 0 * * 5-7 *)
WeekendMidnight ==
  [EveryMinute EXCEPT !.minute = {Value(0)}, !.hour = {Value(0)},
                      !.weekday = {Values(5, 7)}]

(* */2 0,23 1 2 mon: either day field is enough *)
FirstOrMonday ==
  [EveryMinute EXCEPT !.minute = {AnyEvery(2)}, !.hour = {Value(0), Value(23)},
                      !.day = {Value(1)}, !.month = {Value(2)},
                      !.weekday = {Value(1)}]

(* 59 0 1-31/15 * * *)
FirstAndMiddle ==
  [EveryMinute EXCEPT !.minute = {Value(59)}, !.hour = {Value(0)},
                      !.day = {ValuesEvery(1, 31, 15)}]

MCPlanOf ==
  [p \in Plans |->
     IF p = "both"
     THEN [start |-> EveryHour, stop |-> WeekendMidnight, zone |-> "utc"]
     ELSE [start |-> FirstOrMonday, stop |-> FirstAndMiddle, zone |-> "ahead"]]

MCAsked ==
  [t \in Task |-> IF t = t1 THEN {"both"} ELSE {"local"}]
=============================================================================
