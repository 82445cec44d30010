----------------------- MODULE MCScheduleOccurrences -----------------------
(* One daily and one interval definition; strings, for a job has one or none. *)
EXTENDS ScheduleOccurrences

SomeCalendar == [d \in Definitions |-> IF d = "daily" THEN {1, 2} ELSE {}]
=============================================================================
