------------------------- MODULE MCReportScheduler -------------------------
(* Two weekdays of two or three slots: short weeks in which a day, a time  *)
(* and both can be wrong, and in which three clocks can differ.  Schedules *)
(* are daily or for the second weekday.                                    *)
EXTENDS ReportScheduler

DailyOrOneDay ==
    [days : {{}, {1}}, time : {0, 1, Blank}, enabled : BOOLEAN]
=============================================================================
