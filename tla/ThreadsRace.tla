----------------------------- MODULE ThreadsRace -----------------------------
(***************************************************************************)
(* Threads, with the two stretches opened in which a thread is on the run  *)
(* queue, still runs, and can be interrupted: Yield enables interrupts     *)
(* between runnable_kthread and Schedule, and the calls that enabled       *)
(* interrupts themselves (wait, doread) keep them on through the tail of   *)
(* isr_common_stub, between runnable_kthread and next_runnable_kthread.    *)
(* A thread in that stretch is at place "queued".                          *)
(***************************************************************************)
EXTENDS Threads

runnable_kthread ==
    /\ \/ Executing("run") /\ currentThread = Start
       \/ Executing("wait") /\ joinHead[currentThread] = NULL
       \/ Executing("read")
    /\ Goto("queued")
    /\ runQueue' = AppendNode(runQueue, currentThread)
    /\ UNCHANGED <<allThreadList, currentThread, procs, joins, alive, sleeping, ticks, halted>>

Schedule ==
    /\ Executing("queued")
    /\ Goto("run")
    /\ UNCHANGED <<allThreadList, procs, joins, alive, sleeping, ticks>>
    /\ Dispatch(runQueue)

RaceNext ==
    \/ MainSchedules \/ do_exec \/ irq_timer \/ runnable_kthread \/ Schedule
    \/ trap \/ sleep \/ wait \/ doread \/ fork \/ do_execve \/ exit \/ kill

RaceSpec == Init /\ [][RaceNext]_vars

(* A thread that yielded, or came back from a call, is on the run queue    *)
(* until it gets the processor again, as the comment on Yield has it.      *)
NoThreadLost ==
    halted = "no" =>
        \A t \in Thread \ {currentThread} :
            pc[t] \in Live \cup {"queued"} => t \in Members(runQueue)
=============================================================================
