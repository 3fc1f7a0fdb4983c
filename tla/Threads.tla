------------------------------- MODULE Threads -------------------------------
(***************************************************************************)
(* Threads and processes of SBUNIX: the run queue and the context switch   *)
(* (sys/kthread.c, sys/kthread.s, the tails of sys/irq.s and sys/isr.s),   *)
(* the timer tick that preempts and wakes (sys/timer.c), and the system    *)
(* calls and faults that create, block and end threads (sys/isr.c,         *)
(* sys/exec.c).                                                            *)
(*                                                                         *)
(* One processor.  An action is a stretch of code run with interrupts off, *)
(* up to the next instruction that an interrupt can precede.  Two short    *)
(* stretches where the code re-enables interrupts too early are closed     *)
(* here and opened in module ThreadsRace.                                  *)
(***************************************************************************)
EXTENDS ThreadList, FiniteSets

CONSTANTS MaxThreads,      \* bound: kthread pages ever allocated, Main included
          SleepTimes,      \* arguments the programs pass to sleep()
          TicksPerSecond,  \* timer interrupts per second (100 in the code)
          Calls,           \* what the user programs do, a subset of AllCalls
          LastInFirstOut   \* TRUE: a process ends only while it is the youngest

AllCalls == {"trap", "sleep", "wait", "read", "fork", "exec", "exit", "fault"}

ASSUME ThreadsAssumption ==
    /\ MaxThreads \in Nat /\ MaxThreads >= 2
    /\ SleepTimes \subseteq Nat \ {0}
    /\ TicksPerSecond \in Nat \ {0}
    /\ Calls \subseteq AllCalls
    /\ LastInFirstOut \in BOOLEAN

(* A thread is the number of its kthread page: pages come in order from a  *)
(* bump allocator and are never given back.                                *)
Thread == 1..MaxThreads
JoinNode == 1..MaxThreads
Main == 1
Start == 2

VARIABLES
    runQueue, allThreadList,          \* the two lists of kthread.c
    currentThread,
    created,                          \* kthread pages handed out so far
    alive, sleeping, pid, parent,     \* fields of struct Kernel_Thread
    joinHead,                         \* its head.next: the list of its children
    joinNext, joinChild, joinFree,    \* the heap nodes of those lists
    ptable, nextFreePid,
    pc,                               \* where a thread is, or will resume
    ticks,                            \* total_ticks modulo TicksPerSecond
    halted    \* why the machine stopped: "panic" (PANIC), "fault" (a NULL pointer
              \* in the kernel), "loop" (an endless loop, interrupts off), or "no"

lists == <<runQueue, allThreadList>>
procs == <<created, pid, parent, ptable, nextFreePid>>
joins == <<joinHead, joinNext, joinChild, joinFree>>
vars == <<lists, currentThread, procs, joins, alive, sleeping, pc, ticks, halted>>

Live == {"init", "boot", "run", "wait", "read"}     \* has something left to execute
Where == Live \cup {"new", "exited", "killed", "gone"}

LiveThreads == {t \in Thread : pc[t] \in Live}
Schedulable == {t \in Thread : pc[t] \in Live \cup {"killed"}}

-----------------------------------------------------------------------------
(***************************************************************************)
(* The last statement of scheduler_init: both threads are initialised,     *)
(* Start is on the run queue, is_scheduler_on is 1 and interrupts are on;  *)
(* Main is about to call Schedule().                                       *)
(***************************************************************************)
Init ==
    /\ runQueue = AppendNode(EmptyList(Thread), Start)
    /\ allThreadList = AppendNode(AppendNode(EmptyList(Thread), Main), Start)
    /\ currentThread = Main
    /\ created = 2
    /\ alive = [t \in Thread |-> t \in {Main, Start}]
    /\ sleeping = [t \in Thread |-> 0]
    /\ pid = [t \in Thread |-> IF t \in {Main, Start} THEN t ELSE 0]
    /\ parent = [t \in Thread |-> NULL]
    /\ joinHead = [t \in Thread |-> NULL]
    /\ joinNext = [n \in JoinNode |-> NULL]
    /\ joinChild = [n \in JoinNode |-> NULL]
    /\ joinFree = JoinNode
    /\ ptable = [p \in 0..MaxThreads |-> IF p = 2 THEN Start ELSE NULL]
    /\ nextFreePid = 2
    /\ pc = [t \in Thread |-> CASE t = Main -> "init" [] t = Start -> "boot"
                                [] OTHER -> "new"]
    /\ ticks = 0
    /\ halted = "no"

-----------------------------------------------------------------------------
(* next_runnable_kthread: the first thread on the queue that is awake and  *)
(* alive is taken off it; then Switch_To_Thread, or the same instructions  *)
(* in the interrupt stubs.  With no such thread, PANIC spins for ever.     *)
(* (What \E binds to the one element of a set TLC computes only once.)     *)
RunnableEvenDead == {t \in Thread : sleeping'[t] = 0}    \* mutant: alive is not tested
Runnable == {t \in Thread : alive'[t] /\ sleeping'[t] = 0}

Dispatch(queue) ==
    \E awake \in {Runnable} : \E found \in {Crawl(queue.next, queue.head, awake) \cap awake} :
    IF found = {}
    THEN /\ halted' = "panic"
         /\ runQueue' = queue
         /\ UNCHANGED currentThread
    ELSE \E t \in found :
            /\ currentThread' = t
            /\ runQueue' = RemoveNode(queue, t)
            /\ UNCHANGED halted

(* The tail of both interrupt stubs: runnable_kthread(currentThread), then  *)
(* next_runnable_kthread and the switch.                                    *)
Requeue(queue) == \E q \in {AppendNode(queue, currentThread)} : Dispatch(q)

(* currentThread is at place at. *)
Executing(at) == halted = "no" /\ pc[currentThread] = at

(* A user program enters the kernel for reason c: int 0x80 or an exception. *)
UserCalls(c) == c \in Calls /\ Executing("run") /\ currentThread # Start

Goto(at) == pc' = [pc EXCEPT ![currentThread] = at]

(***************************************************************************)
(* Kernel threads.  Main calls Schedule() without queueing itself, for     *)
(* good.  Start loads the shell (do_exec), then yields for ever.           *)
(***************************************************************************)
MainSchedules ==
    /\ Executing("init")
    /\ Goto("gone")
    /\ UNCHANGED <<allThreadList, procs, joins, alive, sleeping, ticks>>
    /\ Dispatch(runQueue)

(* sub_malloc(0,1) hands out the next page, alloc_pid the next pid. *)
k_thread == created + 1

NewThreadOldPid ==      \* mutant: alloc_pid returns nextFreePid++
    /\ created < MaxThreads
    /\ created' = k_thread
    /\ nextFreePid' = nextFreePid + 1
    /\ pid' = [pid EXCEPT ![k_thread] = nextFreePid]
    /\ ptable' = [ptable EXCEPT ![nextFreePid] = k_thread]

NewThread ==
    /\ created < MaxThreads
    /\ created' = k_thread
    /\ nextFreePid' = nextFreePid + 1
    /\ pid' = [pid EXCEPT ![k_thread] = nextFreePid']
    /\ ptable' = [ptable EXCEPT ![nextFreePid'] = k_thread]

do_exec ==
    /\ Executing("boot")
    /\ NewThread
    /\ alive' = [alive EXCEPT ![k_thread] = TRUE]
    /\ sleeping' = [sleeping EXCEPT ![k_thread] = 0]
    /\ pc' = [pc EXCEPT ![k_thread] = "run", ![currentThread] = "run"]
    /\ allThreadList' = AppendNode(allThreadList, k_thread)
    /\ runQueue' = AppendNode(runQueue, k_thread)
    /\ UNCHANGED <<currentThread, parent, joins, ticks, halted>>

YieldUnqueued ==        \* mutant: Yield does not make the thread runnable again
    /\ Executing("run") /\ currentThread = Start
    /\ UNCHANGED <<allThreadList, procs, joins, alive, sleeping, pc, ticks>>
    /\ Dispatch(runQueue)

Yield ==
    /\ Executing("run") /\ currentThread = Start
    /\ UNCHANGED <<allThreadList, procs, joins, alive, sleeping, pc, ticks>>
    /\ Requeue(runQueue)

(***************************************************************************)
(* The timer interrupt.  Once a second every sleeper the loop over the run *)
(* queue meets before currentThread is one second closer to waking; the    *)
(* interrupted thread is preempted.  The 16-bit total_ticks and its wrap   *)
(* are left out.                                                           *)
(***************************************************************************)
Slept == Crawl(runQueue.next, runQueue.head, {currentThread}) \ {currentThread}

timer_handler_below_zero ==     \* mutant: sleeping is decremented when it is 0
    /\ ticks' = (ticks + 1) % TicksPerSecond
    /\ sleeping' = [t \in Thread |-> IF ticks' = 0 /\ t \in Slept
                                     THEN sleeping[t] - 1 ELSE sleeping[t]]

timer_handler ==
    /\ ticks' = (ticks + 1) % TicksPerSecond
    /\ sleeping' = [t \in Thread |-> IF ticks' = 0 /\ sleeping[t] > 0 /\ t \in Slept
                                     THEN sleeping[t] - 1 ELSE sleeping[t]]

irq_timer ==
    /\ halted = "no"
    /\ UNCHANGED <<allThreadList, procs, joins, alive, pc>>
    /\ timer_handler
    /\ IF ticks' = 0 /\ ~ CrawlEnds(runQueue.next, runQueue.head, {currentThread})
       THEN halted' = "loop" /\ UNCHANGED <<runQueue, currentThread>>
       ELSE Requeue(runQueue)

-----------------------------------------------------------------------------
(***************************************************************************)
(* System calls and exceptions.  A call that touches no thread state       *)
(* (write, getpid, open, sbrk, a page fault that maps or copies a page...) *)
(* still ends in the tail of isr_common_stub and gives up the processor.   *)
(***************************************************************************)
trap ==
    /\ UserCalls("trap")
    /\ UNCHANGED <<allThreadList, procs, joins, alive, sleeping, pc, ticks>>
    /\ Requeue(runQueue)

sleep ==
    /\ UserCalls("sleep")
    /\ \E time \in SleepTimes : sleeping' = [sleeping EXCEPT ![currentThread] = time]
    /\ UNCHANGED <<allThreadList, procs, joins, alive, pc, ticks>>
    /\ Requeue(runQueue)

(* wait() and doread() on the keyboard enable interrupts and loop in the   *)
(* kernel; when the loop ends the call returns through the stub.  When a   *)
(* line is complete is left to the environment.                            *)
wait ==
    /\ UserCalls("wait")
    /\ Goto("wait")
    /\ UNCHANGED <<lists, currentThread, procs, joins, alive, sleeping, ticks, halted>>

doread ==
    /\ UserCalls("read")
    /\ Goto("read")
    /\ UNCHANGED <<lists, currentThread, procs, joins, alive, sleeping, ticks, halted>>

wait_return ==
    /\ Executing("wait") /\ joinHead[currentThread] = NULL
    /\ Goto("run")
    /\ UNCHANGED <<allThreadList, procs, joins, alive, sleeping, ticks>>
    /\ Requeue(runQueue)

doread_return ==
    /\ Executing("read")
    /\ Goto("run")
    /\ UNCHANGED <<allThreadList, procs, joins, alive, sleeping, ticks>>
    /\ Requeue(runQueue)

(***************************************************************************)
(* fork: the child starts as a byte copy of its parent, head.next          *)
(* included, before the parent gains a node for it.  append_join_queue     *)
(* clears the node before it walks to the end of the list.                 *)
(***************************************************************************)
NodeAvailable(n) ==    \* sub_malloc reuses a freed node or takes the next new one
    joinChild[n] = NULL => \A m \in JoinNode : m < n => joinChild[m] # NULL

append_join_queue_first(n) ==     \* mutant: the new node replaces the list
    /\ joinChild' = [joinChild EXCEPT ![n] = k_thread]
    /\ joinFree' = joinFree \ {n}
    /\ joinHead' = [joinHead EXCEPT ![k_thread] = joinHead[currentThread],
                                    ![currentThread] = n]
    /\ joinNext' = [joinNext EXCEPT ![n] = NULL]

append_join_queue(n) ==
    LET next == [joinNext EXCEPT ![n] = NULL]
        walked == Crawl(next, joinHead[currentThread], {})
    IN  /\ joinChild' = [joinChild EXCEPT ![n] = k_thread]
        /\ joinFree' = joinFree \ {n}
        /\ joinHead' = [joinHead EXCEPT
              ![k_thread] = joinHead[currentThread],
              ![currentThread] = IF joinHead[currentThread] = NULL THEN n ELSE @]
        /\ joinNext' = [m \in JoinNode |->
              IF next[m] = NULL /\ m \in walked THEN n ELSE next[m]]

fork ==
    /\ UserCalls("fork")
    /\ NewThread
    /\ alive' = [alive EXCEPT ![k_thread] = alive[currentThread]]
    /\ sleeping' = [sleeping EXCEPT ![k_thread] = sleeping[currentThread]]
    /\ parent' = [parent EXCEPT ![k_thread] = currentThread]
    /\ pc' = [pc EXCEPT ![k_thread] = "run"]
    /\ allThreadList' = AppendNode(allThreadList, k_thread)
    /\ UNCHANGED ticks
    /\ \E n \in joinFree :
          /\ NodeAvailable(n)
          /\ append_join_queue(n)
          /\ IF CrawlEnds([joinNext EXCEPT ![n] = NULL], joinHead[currentThread], {})
             THEN Requeue(AppendNode(runQueue, k_thread))
             ELSE halted' = "loop" /\ UNCHANGED <<runQueue, currentThread>>

(* execve of a file that exists: do_exec1 initialises currentThread anew   *)
(* and lists it a second time; do_execve ends in Schedule().               *)
do_execve ==
    /\ UserCalls("exec")
    /\ alive' = [alive EXCEPT ![currentThread] = TRUE]
    /\ sleeping' = [sleeping EXCEPT ![currentThread] = 0]
    /\ allThreadList' = AppendNode(allThreadList, currentThread)
    /\ UNCHANGED <<procs, joins, pc, ticks>>
    /\ Requeue(runQueue)

(***************************************************************************)
(* sys_exit finds the thread to clean up through ptable.  thread_cleanup   *)
(* unlinks it and remove_child frees its node on its parent's list; with   *)
(* no entry, or no node, the code dereferences NULL.                       *)
(***************************************************************************)
victim == ptable[pid[currentThread]]

NodesOf(c) == {n \in JoinNode : joinChild[n] = c}
Searched == Crawl(joinNext, joinHead[parent[victim]], NodesOf(victim))
CleanUpSucceeds ==
    /\ victim # NULL
    /\ parent[victim] # NULL => Searched \cap NodesOf(victim) # {}

remove_child_not == UNCHANGED joins      \* mutant: the parent is not told

remove_child ==
    \E n \in Searched \cap NodesOf(victim) :
       /\ joinHead' = [joinHead EXCEPT ![parent[victim]] = IF @ = n THEN joinNext[n] ELSE @]
       /\ joinNext' = [m \in JoinNode |->
             IF /\ joinHead[parent[victim]] # n
                /\ joinNext[m] = n /\ m \in Searched \ {n}
             THEN joinNext[n] ELSE joinNext[m]]
       /\ joinFree' = joinFree \cup {n}
       /\ UNCHANGED joinChild

sys_exit ==
    /\ IF parent[victim] = NULL THEN UNCHANGED joins ELSE remove_child
    /\ ptable' = [ptable EXCEPT ![pid[currentThread]] = NULL]
    /\ nextFreePid' = nextFreePid - 1
    /\ UNCHANGED <<created, pid, parent>>

(* The programs end in the order LastInFirstOut asks for. *)
MayEnd == LastInFirstOut => pid[currentThread] = nextFreePid

CrashInCleanUp ==
    /\ ~ CleanUpSucceeds
    /\ halted' = "fault"
    /\ UNCHANGED <<lists, currentThread, procs, joins, alive, sleeping, pc, ticks>>

(* int 0x80 with rax = 1: sys_exit, then Schedule() without queueing. *)
exit ==
    /\ UserCalls("exit") /\ MayEnd
    /\ \/ CrashInCleanUp
       \/ /\ CleanUpSucceeds
          /\ Goto("exited")
          /\ sys_exit
          /\ allThreadList' = RemoveNode(allThreadList, victim)
          /\ UNCHANGED <<alive, sleeping, ticks>>
          /\ Dispatch(RemoveNode(runQueue, victim))

(***************************************************************************)
(* page_fault_handler kills the process (segmentation fault, stack         *)
(* overflow): it unlinks currentThread, sys_exit unlinks it again, and the *)
(* tail of isr_common_stub queues the dead thread, which next_runnable     *)
(* skips from then on.                                                     *)
(***************************************************************************)
kill ==
    /\ UserCalls("fault") /\ MayEnd
    /\ \/ CrashInCleanUp
       \/ /\ CleanUpSucceeds
          /\ Goto("killed")
          /\ sys_exit
          /\ alive' = [alive EXCEPT ![currentThread] = FALSE]
          /\ allThreadList' = RemoveNode(RemoveNode(allThreadList, currentThread), victim)
          /\ UNCHANGED <<sleeping, ticks>>
          /\ Requeue(RemoveNode(RemoveNode(runQueue, currentThread), victim))

-----------------------------------------------------------------------------
Next ==
    \/ MainSchedules \/ do_exec \/ Yield \/ irq_timer
    \/ trap \/ sleep \/ wait \/ wait_return \/ doread \/ doread_return
    \/ fork \/ do_execve \/ exit \/ kill

(* The timer keeps ticking, whatever the threads do. *)
Fairness == WF_vars(irq_timer)

Spec == Init /\ [][Next]_vars
FairSpec == Spec /\ Fairness
-----------------------------------------------------------------------------
(* Every variable has its type. *)
TypeOK ==
    /\ runQueue \in ListType(Thread) /\ allThreadList \in ListType(Thread)
    /\ currentThread \in Thread
    /\ created \in 2..MaxThreads
    /\ alive \in [Thread -> BOOLEAN]
    /\ sleeping \in [Thread -> Nat]
    /\ pid \in [Thread -> 0..MaxThreads]
    /\ parent \in [Thread -> Thread \cup {NULL}]
    /\ joinHead \in [Thread -> JoinNode \cup {NULL}]
    /\ joinNext \in [JoinNode -> JoinNode \cup {NULL}]
    /\ joinChild \in [JoinNode -> Thread \cup {NULL}]
    /\ joinFree \subseteq JoinNode
    /\ ptable \in [0..MaxThreads -> Thread \cup {NULL}]
    /\ nextFreePid \in 0..MaxThreads
    /\ pc \in [Thread -> Where]
    /\ ticks \in 0..TicksPerSecond-1
    /\ halted \in {"no", "panic", "fault", "loop"}

(***************************************************************************)
(* kthread.c keeps the run queue intact through every schedule, exit and   *)
(* kill: it is linked both ways and holds exactly the threads that have    *)
(* something left to run other than currentThread, plus the killed ones,   *)
(* which the page fault path puts back.  No thread is lost and none is on  *)
(* the queue while it runs, although sys_exit and page_fault_handler       *)
(* unlink a thread that next_runnable_kthread has already unlinked.        *)
(***************************************************************************)
RunQueueSound ==
    halted = "no" =>
        /\ WellLinked(runQueue)
        /\ Members(runQueue) = Schedulable \ {currentThread}

(* The processor is never given to a thread that exited, was killed, or is *)
(* Main after it left scheduler_init for good.                             *)
DeadNeverRun == halted = "no" => pc[currentThread] \in Live

(* next_runnable_kthread always finds a thread: its PANIC "NULL!!" and the *)
(* PANIC "Nothing to schedule" of Schedule are never reached.              *)
NeverPanics == halted # "panic"

(* remove_child always finds the child, sys_exit always finds the caller   *)
(* in ptable, and no loop over a list of threads or children is endless.   *)
NeverCrashes == halted \notin {"fault", "loop"}

(* ptable leads from the pid of every process that has not ended to that   *)
(* process, which is how sys_exit decides whom to clean up.                *)
PtableSound == \A t \in LiveThreads \ {Main} : ptable[pid[t]] = t

(* allThreadList holds Main and the threads that have not ended, linked    *)
(* both ways.  do_exec1 lists its caller a second time, so it does not.    *)
AllThreadsListed ==
    halted = "no" => /\ WellLinked(allThreadList)
                     /\ Members(allThreadList) = LiveThreads \cup {Main}

(* wait() returns to a process only when none of its children is running   *)
(* any more.                                                               *)
Children(t) == {k \in Thread : parent[k] = t /\ pc[k] \in Live}

WaitSound ==
    [][\A t \in Thread : pc[t] = "wait" /\ pc'[t] = "run" => Children(t) = {}]_vars

(* A thread that has not ended gets the processor again: the round robin   *)
(* over runQueue starves no one although dead threads stay at its front,   *)
(* and timer_handler counts every sleeper down, wherever in the queue it   *)
(* waits, until it runs.                                                   *)
EveryThreadRuns ==
    \A t \in Thread : pc[t] \in Live ~> (currentThread = t \/ halted # "no")

(* A process in wait() with no child left running comes back from it.  The *)
(* loop of wait() is a handful of instructions and a time slice is 10 ms,  *)
(* so a thread that gets the processor again and again tests its list.     *)
WaitReturns(t) == (pc[t] = "wait" /\ Children(t) = {}) ~>
                      (pc[t] # "wait" \/ Children(t) # {} \/ halted # "no")

FairWaitSpec == FairSpec /\ SF_vars(wait_return)

(* ... for the shell, the process that do_exec creates. *)
Shell == 3
ShellWaitReturns == WaitReturns(Shell)

(* ... for every process, as bin/hello/hello.c expects of its children. *)
EveryWaitReturns == \A t \in Thread : WaitReturns(t)

(* No two processes that have not ended have the same pid. *)
PidsUnique ==
    \A t, u \in LiveThreads : pid[t] = pid[u] => t = u

(* The loop of print_process (ps) covers the process that calls it. *)
PsListsCaller ==
    halted = "no" /\ pc[currentThread] = "run" => pid[currentThread] \in 2..nextFreePid-1
=============================================================================
