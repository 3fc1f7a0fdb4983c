------------------------------ MODULE Machine ------------------------------
(***************************************************************************)
(* The processor between the disk and the interrupts.  Thread start sets   *)
(* the disk up and formats it with interrupts on; after that the disk is   *)
(* used by system calls, which poll it with interrupts off, so that a tick *)
(* or a key has to wait until the disk has answered.                       *)
(***************************************************************************)
EXTENDS Integers

CONSTANTS LastSector, Offset, Data, Length, Zeros, NCS, PortType,
          Line, TimerLine, KeyboardLine,
          TickModulus, HourModulus, TicksPerSecond, SecondsPerMinute, MinutesPerHour, Base,
          MaxTicks             \* bound: ticks of the timer

VARIABLES port, cmdtbl, hba, disk, read_buffer, write_buffer, drv, result,
          irr, isr, ifl, cpu,
          total_ticks, total_ticks_secs, mins, hours, shown,
          mode,                \* "boot": start(); "user"; "call": a system call
          ticks                \* timer interrupts delivered so far

diskVars == <<port, cmdtbl, hba, disk, read_buffer, write_buffer, drv, result>>
irqVars == <<irr, isr, ifl, cpu>>
clockVars == <<total_ticks, total_ticks_secs, mins, hours, shown>>
vars == <<diskVars, irqVars, clockVars, mode, ticks>>

A == INSTANCE Ahci
P == INSTANCE Interrupts
C == INSTANCE Clock

ASSUME MachineAssumption ==
    /\ {LastSector, NCS, MaxTicks} \subseteq Nat /\ 0 \in DOMAIN PortType
    /\ Offset \subseteq 0..LastSector /\ Zeros \in Data /\ Length \subseteq 1..2
    /\ Line \subseteq 0..15 \ {2}
    /\ TimerLine \in 0..7 \ {4}    \* the code has 0; the stub of line 15 pushes the number of 4
    /\ {TickModulus, HourModulus, TicksPerSecond, SecondsPerMinute, MinutesPerHour, Base}
          \subseteq Nat \ {0}

Init == A!Init /\ P!Init /\ C!Init /\ mode = "boot" /\ ticks = 0

(* The code that uses the disk, while no interrupt stub runs. *)
InKernel == mode # "user" /\ cpu = P!Running
Others == UNCHANGED <<irqVars, clockVars, mode, ticks>>

request == InKernel /\ A!Calls /\ Others
driver == InKernel /\ A!Driver /\ Others
device(step) == step /\ Others

(* The last thing start() does before it only yields *)
do_exec ==
    /\ mode = "boot" /\ drv.pc = "idle" /\ cpu = P!Running
    /\ mode' = "user"
    /\ UNCHANGED <<diskVars, irqVars, clockVars, ticks>>

(* _isr80, and the iretq that ends it *)
system_call ==
    /\ mode = "user" /\ cpu = P!Running
    /\ mode' = "call" /\ ifl' = FALSE
    /\ UNCHANGED <<diskVars, irr, isr, cpu, clockVars, ticks>>

iretq ==
    /\ mode = "call" /\ drv.pc = "idle"
    /\ mode' = "user" /\ ifl' = TRUE
    /\ UNCHANGED <<diskVars, irr, isr, cpu, clockVars, ticks>>

raise(l) ==
    /\ l = TimerLine => ticks < MaxTicks
    /\ P!raise(l)
    /\ UNCHANGED <<diskVars, clockVars, mode, ticks>>

irq(l) ==
    /\ P!irq(l)
    /\ ticks' = IF l = TimerLine THEN ticks + 1 ELSE ticks
    /\ IF P!Routine(P!PushedNo(l)) = "timer" THEN C!timer_handler ELSE UNCHANGED clockVars
    /\ UNCHANGED <<diskVars, mode>>

Next ==
    \/ request \/ driver \/ do_exec \/ system_call \/ iretq
    \/ device(A!Engine) \/ device(A!Fetch) \/ device(A!Transfer)
    \/ device(A!Finish) \/ device(A!Fail)
    \/ \E l \in Line : raise(l) \/ irq(l)

(* Interrupts leave time for the code they interrupt, and a tick leaves    *)
(* time for the other lines: a handler takes far less than the 10 ms       *)
(* between two ticks.  A system call makes a fixed number of requests.     *)
(* A drive that has a command goes on with it; nothing makes it fail       *)
(* unless it is asked for a sector it does not have.                       *)
Fairness ==
    /\ SF_vars(driver)
    /\ WF_vars(device(A!Engine))
    /\ WF_vars(device(A!Fetch \/ A!Transfer \/ A!Finish \/ A!OutOfRange))
    /\ SF_vars(iretq)
    /\ \A l \in Line : SF_vars(irq(l))

Spec == Init /\ [][Next]_vars /\ Fairness

-----------------------------------------------------------------------------
(* See Ahci: the disk driver, interrupted or not, moves the sectors it is  *)
(* asked for and reports it.                                               *)
DiskIsSectors == A!DiskIsSectors

(* See Ahci: whoever calls the disk driver gets an answer. *)
EveryRequestReturns == A!EveryRequestReturns

(* See Interrupts: no tick and no key waits for ever, although system      *)
(* calls poll the disk with interrupts off.                                *)
EveryLineServed == P!EveryLineServed

(* The clock on the screen never falls behind the ticks delivered to       *)
(* timer_handler, and each overflow of total_ticks makes it at most one    *)
(* second fast, as long as hours has not overflowed.                       *)
ClockFollowsTicks ==
    LET least == ticks \div TicksPerSecond
        most == least + (ticks \div TickModulus)
    IN  most < HourModulus * MinutesPerHour * SecondsPerMinute => C!Shown \in least..most

(* The clock is exact.  It is not: total_ticks overflows at a number that  *)
(* is no multiple of TicksPerSecond.                                       *)
ClockExact == C!Shown = ticks \div TicksPerSecond

(* irq_handler finds a routine in its table for every line, as its comment *)
(* says.  From line 10 on it does not: the stubs push hexadecimal numbers. *)
NeverWild == cpu # P!Wild

(* read_disk returns what the sector holds.  After an error it does not:   *)
(* it ignores the result and returns the buffer as it is.                  *)
ReadIsFresh ==
    [][drv.pc # "idle" /\ drv'.pc = "idle" /\ "op" \in DOMAIN drv /\ drv.op = "read"
          => read_buffer' = disk'[drv.offset]]_vars
=============================================================================
