------------------------------- MODULE Clock -------------------------------
(***************************************************************************)
(* The clock in the corner of the screen (timer_handler of sys/timer.c):   *)
(* a 16-bit count of ticks, seconds, minutes and hours counted from it,    *)
(* and the digits handed to write_time.  The sleepers that the same        *)
(* handler counts down are in Threads.                                     *)
(***************************************************************************)
EXTENDS Integers

CONSTANTS TickModulus,         \* total_ticks is a uint16_t (65536)
          HourModulus,         \* and so is hours
          TicksPerSecond,      \* what timer_install asks of the PIT (100)
          SecondsPerMinute, MinutesPerHour,    \* 60
          Base                 \* of the digits (10)

VARIABLES total_ticks, total_ticks_secs, mins, hours,
          shown                \* the six digits, as units and tens

Digits(s, m, h) ==
    [seconds_units |-> s % Base, seconds_tens |-> s \div Base,
     minutes_units |-> m % Base, minutes_tens |-> m \div Base,
     hours_units   |-> h % Base, hours_tens   |-> h \div Base]

Init ==
    /\ total_ticks = 0 /\ total_ticks_secs = 0 /\ mins = 0 /\ hours = 0
    /\ shown = Digits(0, 0, 0)

timer_handler_kept ==                \* mutant: the seconds are not reset
    LET ticks == (total_ticks + 1) % TickModulus
        minute == total_ticks_secs + 1 >= SecondsPerMinute
        hour == minute /\ mins + 1 >= MinutesPerHour
    IN  /\ total_ticks' = ticks
        /\ IF ticks % TicksPerSecond # 0
           THEN UNCHANGED <<total_ticks_secs, mins, hours, shown>>
           ELSE /\ total_ticks_secs' = total_ticks_secs + 1
                /\ mins' = IF hour THEN 0 ELSE IF minute THEN mins + 1 ELSE mins
                /\ hours' = IF hour THEN (hours + 1) % HourModulus ELSE hours
                /\ shown' = Digits(total_ticks_secs', mins', hours')

timer_handler ==
    LET ticks == (total_ticks + 1) % TickModulus
        minute == total_ticks_secs + 1 >= SecondsPerMinute
        hour == minute /\ mins + 1 >= MinutesPerHour
    IN  /\ total_ticks' = ticks
        /\ IF ticks % TicksPerSecond # 0
           THEN UNCHANGED <<total_ticks_secs, mins, hours, shown>>
           ELSE /\ total_ticks_secs' = IF minute THEN 0 ELSE total_ticks_secs + 1
                /\ mins' = IF hour THEN 0 ELSE IF minute THEN mins + 1 ELSE mins
                /\ hours' = IF hour THEN (hours + 1) % HourModulus ELSE hours
                /\ shown' = Digits(total_ticks_secs', mins', hours')

(* The time on the screen, in seconds. *)
Shown ==
    LET s == shown.seconds_tens * Base + shown.seconds_units
        m == shown.minutes_tens * Base + shown.minutes_units
        h == shown.hours_tens * Base + shown.hours_units
    IN  (h * MinutesPerHour + m) * SecondsPerMinute + s
=============================================================================
