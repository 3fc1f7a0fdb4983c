----------------------------- MODULE Interrupts -----------------------------
(***************************************************************************)
(* Hardware interrupts: the two controllers as irq_remap sets them up      *)
(* (sys/irq.c), the stubs that push an interrupt number (sys/irq.s), and   *)
(* irq_handler, which looks the routine up and ends the interrupt.         *)
(*                                                                         *)
(* The gates are interrupt gates, so everything from the acceptance of an  *)
(* interrupt to the iretq at the end of the stub runs with interrupts off. *)
(* It is one step.  What a routine does is the business of the module that *)
(* uses this one.                                                          *)
(***************************************************************************)
EXTENDS Integers

CONSTANTS Line,                \* the lines something is connected to
          TimerLine, KeyboardLine

VARIABLES irr, isr,            \* lines requested, lines in service
          ifl,                 \* the interrupt flag of the processor
          cpu                  \* Running, or Wild

Running == "running"
Wild == "wild"                 \* has called whatever lies behind irq_routines

Init == irr = {} /\ isr = {} /\ ifl = TRUE /\ cpu = Running

(* The order in which the controllers serve their lines: the second one    *)
(* is connected to line 2 of the first.                                    *)
Rank(l) == IF l <= 2 THEN 10 * l ELSE IF l >= 8 THEN 20 + l ELSE 30 + 10 * l
Cascade == 2
First(lines) == CHOOSE l \in lines : \A k \in lines : Rank(l) <= Rank(k)

(* An edge on a line that is still requested is lost. *)
raise(l) == irr' = irr \cup {l} /\ UNCHANGED <<isr, ifl, cpu>>

(* The number each stub pushes: it is written in hexadecimal. *)
PushedNo(l) == IF l < 8 THEN 50 + l ELSE IF l < 15 THEN 64 + (l - 8) ELSE 54

(* irq_install_handler, as timer_install and keyboard_install call it *)
irq_routines ==
    [i \in 0..15 |-> IF i = TimerLine THEN "timer"
                     ELSE IF i = KeyboardLine THEN "keyboard" ELSE "none"]

Routine(intNo) ==
    IF intNo - 50 \in DOMAIN irq_routines THEN irq_routines[intNo - 50] ELSE "wild"

(* A command to end an interrupt ends the first one in service. *)
EndFirst(lines, chip) ==
    IF lines \cap chip = {} THEN lines ELSE lines \ {First(lines \cap chip)}

irq_handler_slave(lines, intNo) ==   \* mutant: only the second controller is told
    EndFirst(lines, 8..15)

irq_handler(lines, intNo) ==
    EndFirst(IF intNo >= 40 THEN EndFirst(lines, 8..15) ELSE lines, 0..7)

(* The processor takes the first line requested, unless one before it is   *)
(* in service: stub, routine, end of interrupt, iretq.                     *)
irq(l) ==
    /\ cpu = Running /\ ifl
    /\ l \in irr /\ l = First(irr)
    /\ \A k \in isr : Rank(l) < Rank(k)
    /\ irr' = irr \ {l}
    /\ isr' = irq_handler(isr \cup (IF l >= 8 THEN {l, Cascade} ELSE {l}), PushedNo(l))
    /\ cpu' = IF Routine(PushedNo(l)) = "wild" THEN Wild ELSE Running
    /\ UNCHANGED ifl

(* Every interrupt that is requested is served, whichever line was served  *)
(* before it: irq_handler ends each one at the controller that has it in   *)
(* service.                                                                *)
EveryLineServed == \A l \in Line : l \in irr ~> l \notin irr
=============================================================================
