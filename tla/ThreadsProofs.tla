---------------------------- MODULE ThreadsProofs ----------------------------
(***************************************************************************)
(* The scheduler keeps its run queue intact and always finds a thread to   *)
(* run, and ptable leads from pids to processes, for any number of threads *)
(* and any program, provided that processes end youngest first.  The       *)
(* lemmas that come first are about the list operations of kthread.c, for  *)
(* lists of any length.                                                    *)
(***************************************************************************)
EXTENDS Threads, TLAPS

(* The nodes a loop looks at contain the first one and are closed under    *)
(* the loop's step.                                                        *)
LEMMA CrawlCovers ==
    ASSUME NEW N, NULL \notin N, NEW next \in [N -> N \cup {NULL}],
           NEW from \in N \cup {NULL}, NEW stop
    PROVE  /\ Crawl(next, from, stop) \subseteq N
           /\ Covers(next, from, stop, Crawl(next, from, stop))
<1>1. DOMAIN next = N
  OBVIOUS
<1>2. ASSUME NEW n \in Crawl(next, from, stop) \ stop, next[n] # NULL
      PROVE  next[n] \in Crawl(next, from, stop)
  <2>1. n \in N /\ next[n] \in N
    BY <1>1, <1>2 DEF Crawl
  <2>2. ASSUME NEW S \in SUBSET N, Covers(next, from, stop, S)
        PROVE  next[n] \in S
    <3>1. n \in S
      BY <1>1, <2>2 DEF Crawl
    <3> QED
      BY <3>1, <1>2, <2>2 DEF Covers
  <2> QED
    BY <1>1, <2>1, <2>2 DEF Crawl
<1>3. from # NULL => from \in Crawl(next, from, stop)
  BY <1>1 DEF Crawl, Covers
<1> QED
  BY <1>1, <1>2, <1>3 DEF Crawl, Covers

(* ... and they are the least such set. *)
LEMMA CrawlLeast ==
    ASSUME NEW N, NEW next \in [N -> N \cup {NULL}], NEW from, NEW stop,
           NEW S \in SUBSET N, Covers(next, from, stop, S)
    PROVE  Crawl(next, from, stop) \subseteq S
  BY DEF Crawl

(* The nodes of a list. *)
LEMMA MembersCovered ==
    ASSUME NEW N, NULL \notin N, NEW l \in ListType(N)
    PROVE  /\ Members(l) \subseteq N
           /\ Covers(l.next, l.head, {}, Members(l))
           /\ l.next \in [N -> N \cup {NULL}] /\ l.prev \in [N -> N \cup {NULL}]
           /\ l.head \in N \cup {NULL} /\ l.tail \in N \cup {NULL}
<1>1. /\ l.next \in [N -> N \cup {NULL}] /\ l.prev \in [N -> N \cup {NULL}]
      /\ l.head \in N \cup {NULL} /\ l.tail \in N \cup {NULL}
  BY DEF ListType
<1> QED
  BY <1>1, CrawlCovers DEF Members

(* A list keeps its type. *)
LEMMA ListTypes ==
    ASSUME NEW N, NULL \notin N, NEW l \in ListType(N), NEW n \in N
    PROVE  /\ AppendNode(l, n) \in ListType(N)
           /\ RemoveNode(l, n) \in ListType(N)
<1>1. AppendNode(l, n) \in ListType(N)
  BY DEF AppendNode, ListType
<1>2. RemoveNode(l, n) \in ListType(N)
  BY DEF RemoveNode, ListType
<1> QED
  BY <1>1, <1>2

(* append_run_queue adds its node, at the end, to a well-formed list that  *)
(* does not hold it.                                                       *)
LEMMA AppendAdds ==
    ASSUME NEW N, NULL \notin N, NEW l \in ListType(N), NEW n \in N,
           WellLinked(l), n \notin Members(l)
    PROVE  /\ Members(AppendNode(l, n)) = Members(l) \cup {n}
           /\ WellLinked(AppendNode(l, n))
<1> DEFINE a == AppendNode(l, n)
           M == Members(l)
<1>0. /\ a \in ListType(N) /\ M \subseteq N
      /\ Covers(l.next, l.head, {}, M)
      /\ l.next \in [N -> N \cup {NULL}] /\ l.prev \in [N -> N \cup {NULL}]
      /\ l.head \in N \cup {NULL} /\ l.tail \in N \cup {NULL}
      /\ LinkedOver(l, M)
  BY Zenon, ListTypes, MembersCovered DEF WellLinked
<1>00. /\ a.next \in [N -> N \cup {NULL}] /\ a.prev \in [N -> N \cup {NULL}]
       /\ a.head \in N \cup {NULL} /\ a.tail \in N \cup {NULL}
  BY <1>0 DEF ListType
<1> HIDE DEF M
<1>1. CASE l.tail = NULL
  <2>1. /\ l.head = NULL
        /\ a.head = n /\ a.tail = n
        /\ a.next = [l.next EXCEPT ![n] = NULL]
        /\ a.prev = [l.prev EXCEPT ![n] = NULL]
    BY <1>1, <1>0 DEF AppendNode, LinkedOver
  <2>2. M = {}
    <3>1. Covers(l.next, l.head, {}, {})
      BY <2>1 DEF Covers
    <3> QED
      BY <3>1, <1>0, CrawlLeast DEF M, Members
  <2>3. Members(a) = {n}
    <3>1. Covers(a.next, a.head, {}, {n})
      BY <2>1, <1>0 DEF Covers
    <3>2. Members(a) \subseteq {n}
      BY <3>1, <1>00, CrawlLeast DEF Members
    <3>3. Covers(a.next, a.head, {}, Members(a))
      BY <1>0, MembersCovered
    <3> QED
      BY <3>2, <3>3, <2>1 DEF Covers
  <2>4. LinkedOver(a, {n})
    BY <2>1, <1>0 DEF LinkedOver
  <2> QED
    BY <2>2, <2>3, <2>4 DEF WellLinked, M
<1>2. CASE l.tail # NULL
  <2>1. /\ l.head \in M /\ l.tail \in M /\ n # l.tail
        /\ a.head = l.head /\ a.tail = n
        /\ a.next = [[l.next EXCEPT ![n] = NULL] EXCEPT ![l.tail] = n]
        /\ a.prev = [l.prev EXCEPT ![n] = l.tail]
    BY <1>2, <1>0 DEF AppendNode, LinkedOver, M
  <2>2. \A m \in N : a.next[m] = IF m = l.tail THEN n ELSE IF m = n THEN NULL ELSE l.next[m]
    BY <2>1, <1>0
  <2>3. \A m \in N : a.prev[m] = IF m = n THEN l.tail ELSE l.prev[m]
    BY <2>1, <1>0
  <2>4. Members(a) = M \cup {n}
    <3>1. Covers(a.next, a.head, {}, M \cup {n})
      BY <2>1, <2>2, <1>0 DEF Covers
    <3>2. Members(a) \subseteq M \cup {n}
      BY <3>1, <1>0, <1>00, CrawlLeast DEF Members
    <3>3. Covers(a.next, a.head, {}, Members(a)) /\ Members(a) \subseteq N
      BY <1>0, MembersCovered
    <3>4. Covers(l.next, l.head, {}, Members(a) \cap M)
      BY <3>3, <2>1, <2>2, <1>0 DEF Covers, LinkedOver, M
    <3>5. M \subseteq Members(a)
      BY <3>4, <1>0, CrawlLeast DEF M, Members
    <3>6. n \in Members(a)
      BY <3>5, <3>3, <2>1, <2>2, <1>0 DEF Covers
    <3> QED
      BY <3>2, <3>5, <3>6
  <2>5. n \notin M
    BY DEF M
  <2>6. LinkedOver(a, M \cup {n})
    BY <2>1, <2>2, <2>3, <2>5, <1>0 DEF LinkedOver
  <2> QED
    BY <2>4, <2>6 DEF WellLinked, M
<1> QED
  BY <1>1, <1>2

(* No node of a well-formed list is its own neighbour. *)
LEMMA NoSelfLink ==
    ASSUME NEW N, NULL \notin N, NEW l \in ListType(N),
           WellLinked(l), NEW n \in Members(l)
    PROVE  l.next[n] # n /\ l.prev[n] # n
<1> DEFINE M == Members(l)
<1>0. /\ M \subseteq N /\ Covers(l.next, l.head, {}, M)
      /\ l.next \in [N -> N \cup {NULL}] /\ l.prev \in [N -> N \cup {NULL}]
      /\ l.head \in N \cup {NULL} /\ l.tail \in N \cup {NULL}
      /\ LinkedOver(l, M)
  BY ListTypes, MembersCovered DEF WellLinked
<1> HIDE DEF M
<1>1. n \in M
  BY DEF M
<1> SUFFICES ASSUME l.next[n] = n \/ l.prev[n] = n
             PROVE  FALSE
  OBVIOUS
<1>2. l.next[n] = n /\ l.prev[n] = n /\ n # l.head
  BY <1>0, <1>1 DEF LinkedOver
<1>3. Covers(l.next, l.head, {}, M \ {n})
  BY <1>0, <1>1, <1>2 DEF Covers, LinkedOver
<1>4. M \subseteq M \ {n}
  BY <1>3, <1>0, CrawlLeast DEF M, Members
<1> QED
  BY <1>1, <1>4

(* remove_runnable_kthread takes its node off a well-formed list.  Removing *)
(* the node again, with the links it was left with, changes nothing.        *)
LEMMA RemoveRemoves ==
    ASSUME NEW N, NULL \notin N, NEW l \in ListType(N),
           WellLinked(l), NEW n \in Members(l)
    PROVE  /\ Members(RemoveNode(l, n)) = Members(l) \ {n}
           /\ WellLinked(RemoveNode(l, n))
           /\ RemoveNode(RemoveNode(l, n), n) = RemoveNode(l, n)
<1> DEFINE r == RemoveNode(l, n)
           M == Members(l)
<1>0. /\ M \subseteq N /\ n \in M /\ Covers(l.next, l.head, {}, M)
      /\ l.next \in [N -> N \cup {NULL}] /\ l.prev \in [N -> N \cup {NULL}]
      /\ l.head \in N \cup {NULL} /\ l.tail \in N \cup {NULL}
      /\ LinkedOver(l, M)
  BY ListTypes, MembersCovered DEF WellLinked
<1>00. r \in ListType(N)
  BY <1>0, ListTypes
<1>000. /\ r.next \in [N -> N \cup {NULL}] /\ r.prev \in [N -> N \cup {NULL}]
        /\ r.head \in N \cup {NULL} /\ r.tail \in N \cup {NULL}
  BY <1>00 DEF ListType
<1>1. l.next[n] # n /\ l.prev[n] # n
  BY NoSelfLink
<1>2. /\ r.head = IF l.prev[n] = NULL THEN l.next[n] ELSE l.head
      /\ r.tail = IF l.next[n] = NULL THEN l.prev[n] ELSE l.tail
      /\ \A m \in N : r.next[m] = IF l.prev[n] # NULL /\ m = l.prev[n]
                                   THEN l.next[n] ELSE l.next[m]
      /\ \A m \in N : r.prev[m] = IF l.next[n] # NULL /\ m = l.next[n]
                                   THEN l.prev[n] ELSE l.prev[m]
  BY <1>0 DEF RemoveNode
<1>3. r.next[n] = l.next[n] /\ r.prev[n] = l.prev[n]
  BY <1>0, <1>1, <1>2
<1>4. RemoveNode(r, n) = r
  <2>1. /\ IF r.prev[n] = NULL THEN r.next[n] = r.head ELSE r.next[r.prev[n]] = r.next[n]
        /\ IF r.next[n] = NULL THEN r.prev[n] = r.tail ELSE r.prev[r.next[n]] = r.prev[n]
    BY <1>0, <1>1, <1>2, <1>3
  <2>2. r = [head |-> r.head, tail |-> r.tail, next |-> r.next, prev |-> r.prev]
    BY <1>00 DEF ListType
  <2>3. /\ r.prev[n] # NULL => [r.next EXCEPT ![r.prev[n]] = r.next[n]] = r.next
        /\ r.next[n] # NULL => [r.prev EXCEPT ![r.next[n]] = r.prev[n]] = r.prev
    BY <2>1, <1>000
  <2> HIDE DEF r
  <2> QED
    BY <2>1, <2>2, <2>3 DEF RemoveNode
<1> HIDE DEF M, r
<1>5. Members(r) = M \ {n}
  <2>1. Covers(r.next, r.head, {}, M \ {n})
    BY <1>0, <1>1, <1>2 DEF Covers, LinkedOver
  <2>2. Members(r) \subseteq M \ {n}
    BY <2>1, <1>0, <1>000, CrawlLeast DEF Members
  <2>3. Covers(r.next, r.head, {}, Members(r)) /\ Members(r) \subseteq N
    BY <1>00, MembersCovered
  <2>4. ASSUME l.prev[n] = NULL \/ l.prev[n] \in Members(r)
        PROVE  M \subseteq Members(r) \cup {n}
    <3>1. l.next[n] = NULL \/ l.next[n] \in Members(r)
      BY <2>3, <2>4, <1>0, <1>2 DEF Covers
    <3>2. l.head = NULL \/ l.head = n \/ l.head \in Members(r)
      BY <2>3, <1>0, <1>2 DEF Covers, LinkedOver
    <3>3. Covers(l.next, l.head, {}, Members(r) \cup {n})
      BY <3>1, <3>2, <2>2, <2>3, <1>0, <1>2 DEF Covers, LinkedOver
    <3> QED
      BY <3>3, <2>3, <1>0, CrawlLeast DEF M, Members
  <2>5. ASSUME l.prev[n] # NULL, l.prev[n] \notin Members(r)
        PROVE  M \subseteq Members(r)
    <3>1. Covers(l.next, l.head, {}, Members(r))
      BY <2>5, <2>2, <2>3, <1>0, <1>2 DEF Covers, LinkedOver
    <3> QED
      BY <3>1, <2>3, <1>0, CrawlLeast DEF M, Members
  <2>6. M \subseteq Members(r) \cup {n}
    BY <2>4, <2>5
  <2> QED
    BY <2>2, <2>6
<1>6. LinkedOver(r, M \ {n})
  BY <1>0, <1>1, <1>2 DEF LinkedOver
<1> QED
  BY <1>4, <1>5, <1>6 DEF WellLinked, M, r

(* A loop that looks for a node finds one when the list holds one, and     *)
(* only looks at nodes of the list.                                        *)
LEMMA CrawlFinds ==
    ASSUME NEW N, NULL \notin N, NEW l \in ListType(N), NEW stop,
           NEW m \in Members(l), m \in stop
    PROVE  /\ Crawl(l.next, l.head, stop) \cap stop # {}
           /\ Crawl(l.next, l.head, stop) \subseteq Members(l)
<1> DEFINE C == Crawl(l.next, l.head, stop)
<1>0. /\ Members(l) \subseteq N /\ Covers(l.next, l.head, {}, Members(l))
      /\ l.next \in [N -> N \cup {NULL}] /\ l.head \in N \cup {NULL}
  BY MembersCovered
<1>1. C \subseteq N /\ Covers(l.next, l.head, stop, C)
  BY <1>0, CrawlCovers
<1>2. Covers(l.next, l.head, stop, Members(l))
  BY <1>0 DEF Covers
<1>3. C \subseteq Members(l)
  BY <1>0, <1>2, CrawlLeast
<1>4. ASSUME C \cap stop = {} PROVE FALSE
  <2>1. Covers(l.next, l.head, {}, C)
    BY <1>1, <1>4 DEF Covers
  <2>2. Members(l) \subseteq C
    BY <2>1, <1>0, <1>1, CrawlLeast DEF Members
  <2> QED
    BY <2>2, <1>4
<1> QED
  BY <1>3, <1>4

(* A loop over a well-formed list that stops at no node of it runs off the *)
(* end of the list, having looked at every node.                           *)
LEMMA CrawlToTheEnd ==
    ASSUME NEW N, NULL \notin N, NEW l \in ListType(N), WellLinked(l),
           NEW stop, stop \cap Members(l) = {}
    PROVE  CrawlEnds(l.next, l.head, stop)
<1> DEFINE C == Crawl(l.next, l.head, stop)
<1>0. /\ Members(l) \subseteq N /\ Covers(l.next, l.head, {}, Members(l))
      /\ l.next \in [N -> N \cup {NULL}] /\ l.head \in N \cup {NULL}
      /\ LinkedOver(l, Members(l))
  BY ListTypes, MembersCovered DEF WellLinked
<1>1. C \subseteq N /\ Covers(l.next, l.head, stop, C)
  BY <1>0, CrawlCovers
<1>2. C \subseteq Members(l)
  <2>1. Covers(l.next, l.head, stop, Members(l))
    BY <1>0 DEF Covers
  <2> QED
    BY <1>0, <2>1, CrawlLeast
<1>3. Covers(l.next, l.head, {}, C)
  BY <1>1, <1>2 DEF Covers
<1>4. Members(l) \subseteq C
  BY <1>3, <1>0, <1>1, CrawlLeast DEF Members
<1>5. CASE l.head = NULL
  BY <1>5 DEF CrawlEnds
<1>6. CASE l.head # NULL
  <2>1. l.tail \in C /\ l.next[l.tail] = NULL
    BY <1>0, <1>4, <1>6 DEF LinkedOver
  <2> QED
    BY <2>1 DEF CrawlEnds
<1> QED
  BY <1>5, <1>6

-----------------------------------------------------------------------------
(* Start never sleeps or ends, a pid leads to its process, and where each  *)
(* kind of thread can be.                                                  *)
ProcessInv ==
    /\ nextFreePid \in 2..created
    /\ pid[Start] = 2 /\ pc[Start] \in {"boot", "run"}
    /\ alive[Start] /\ sleeping[Start] = 0
    /\ pc[Main] \in {"init", "gone"}
    /\ \A t \in Thread : t > created <=> pc[t] = "new"
    /\ \A t \in Thread : pc[t] = "killed" => ~ alive[t]
    /\ \A t \in LiveThreads \ {Main} : pid[t] \in 2..nextFreePid /\ ptable[pid[t]] = t
    /\ \A t \in Thread : t # Main => pc[t] \notin {"init", "gone"}
    /\ \A t \in Thread : t # Start => pc[t] # "boot"

(* The run queue, and the links of a user thread that has just been taken  *)
(* off it: removing it again would change nothing.                         *)
SchedulerInv ==
    halted = "no" =>
        /\ WellLinked(runQueue)
        /\ Members(runQueue) = Schedulable \ {currentThread}
        /\ pc[currentThread] \in Live
        /\ currentThread \notin {Main, Start} =>
              RemoveNode(runQueue, currentThread) = runQueue

IInv == TypeOK /\ ProcessInv /\ SchedulerInv /\ NeverPanics

-----------------------------------------------------------------------------
LEMMA ThreadFacts ==
    /\ NULL \notin Thread /\ Main \in Thread /\ Start \in Thread /\ Main # Start
    /\ Thread \subseteq Nat /\ 1..MaxThreads = Thread
  BY ThreadsAssumption DEF Thread, NULL, Main, Start

(* Dispatch, from a well-formed queue of all threads that could ever run:  *)
(* it finds one, which is not dead, and leaves the others queued.          *)
LEMMA DispatchKeeps ==
    ASSUME TypeOK, halted = "no", ProcessInv',
           pc' \in [Thread -> Where], alive' \in [Thread -> BOOLEAN],
           sleeping' \in [Thread -> Nat],
           NEW q \in ListType(Thread), WellLinked(q), Members(q) = Schedulable',
           Dispatch(q)
    PROVE  /\ SchedulerInv' /\ halted' = "no"
           /\ runQueue' \in ListType(Thread) /\ currentThread' \in Thread
<1>1. Start \in Members(q) /\ Start \in Runnable
  BY ThreadFacts DEF ProcessInv, Schedulable, Live, Runnable
<1>2. Crawl(q.next, q.head, Runnable) \cap Runnable # {}
  BY <1>1, ThreadFacts, CrawlFinds
<1>3. Crawl(q.next, q.head, Runnable) \subseteq Members(q)
  BY <1>1, ThreadFacts, CrawlFinds
<1>4. PICK t \in Crawl(q.next, q.head, Runnable) \cap Runnable :
            currentThread' = t /\ runQueue' = RemoveNode(q, t) /\ halted' = halted
  BY <1>2 DEF Dispatch
<1>5. t \in Members(q) /\ t \in Thread
  BY <1>3, <1>4, ThreadFacts, MembersCovered
<1>6. /\ Members(runQueue') = Members(q) \ {t}
      /\ WellLinked(runQueue')
      /\ RemoveNode(runQueue', t) = runQueue'
      /\ runQueue' \in ListType(Thread)
  BY <1>4, <1>5, ThreadFacts, RemoveRemoves, ListTypes
<1>7. Members(runQueue)' = Members(runQueue') /\ WellLinked(runQueue)' = WellLinked(runQueue')
  BY DEF Members, WellLinked, Crawl, Covers, LinkedOver
<1>8. pc'[t] \in Live
  BY <1>4, <1>5 DEF Schedulable, Runnable, ProcessInv
<1> QED
  BY <1>4, <1>5, <1>6, <1>7, <1>8 DEF SchedulerInv

(* Requeue, when no thread begins or ends. *)
LEMMA RequeueKeeps ==
    ASSUME IInv, halted = "no", ProcessInv', Schedulable' = Schedulable,
           pc' \in [Thread -> Where], alive' \in [Thread -> BOOLEAN],
           sleeping' \in [Thread -> Nat], Requeue(runQueue)
    PROVE  /\ SchedulerInv' /\ halted' = "no"
           /\ runQueue' \in ListType(Thread) /\ currentThread' \in Thread
<1> DEFINE q == AppendNode(runQueue, currentThread)
<1>1. /\ runQueue \in ListType(Thread) /\ currentThread \in Thread
      /\ WellLinked(runQueue) /\ Members(runQueue) = Schedulable \ {currentThread}
      /\ currentThread \in Schedulable
  <2>1. runQueue \in ListType(Thread) /\ currentThread \in Thread
    BY DEF IInv, TypeOK
  <2>2. /\ WellLinked(runQueue) /\ Members(runQueue) = Schedulable \ {currentThread}
        /\ pc[currentThread] \in Live
    BY DEF IInv, SchedulerInv
  <2> QED
    BY <2>1, <2>2 DEF Schedulable
<1>2. /\ q \in ListType(Thread) /\ WellLinked(q) /\ Members(q) = Schedulable'
  <2>1. currentThread \notin Members(runQueue)
    BY <1>1
  <2>2. q \in ListType(Thread)
    BY <1>1, ThreadFacts, ListTypes
  <2>3. WellLinked(q) /\ Members(q) = Members(runQueue) \cup {currentThread}
    BY <1>1, <2>1, ThreadFacts, AppendAdds
  <2>4. Schedulable = (Schedulable \ {currentThread}) \cup {currentThread}
    BY <1>1
  <2> QED
    BY <1>1, <2>2, <2>3, <2>4
<1>3. Dispatch(q)
  BY DEF Requeue
<1> HIDE DEF q
<1> QED
  BY <1>2, <1>3, DispatchKeeps DEF IInv

LEMMA InitEstablishes ==
    ASSUME Init PROVE IInv
<1> DEFINE e == EmptyList(Thread)
<1>0. e \in ListType(Thread)
  BY DEF EmptyList, ListType
<1>1. WellLinked(e) /\ Members(e) = {}
  <2>1. Covers(e.next, e.head, {}, {})
    BY DEF EmptyList, Covers
  <2>2. Members(e) \subseteq {}
    BY <2>1, <1>0, ThreadFacts, MembersCovered, CrawlLeast DEF Members
  <2> QED
    BY <2>2 DEF WellLinked, LinkedOver, EmptyList
<1>2. /\ AppendNode(e, Start) \in ListType(Thread)
      /\ WellLinked(AppendNode(e, Start)) /\ Members(AppendNode(e, Start)) = {Start}
  BY <1>0, <1>1, ThreadFacts, AppendAdds, ListTypes
<1>3. AppendNode(AppendNode(e, Main), Start) \in ListType(Thread)
  BY <1>0, ThreadFacts, ListTypes
<1>4. \A t \in Thread : pc[t] = IF t = Main THEN "init" ELSE IF t = Start THEN "boot" ELSE "new"
  BY ThreadFacts DEF Init
<1>5. pc \in [Thread -> Where]
  <2>1. pc = [t \in Thread |-> pc[t]]
    BY DEF Init
  <2>2. \A t \in Thread : pc[t] \in Where
    BY <1>4 DEF Where, Live
  <2> QED
    BY <2>1, <2>2
<1> HIDE DEF e
<1>6. TypeOK
  BY <1>2, <1>3, <1>5, ThreadsAssumption, ThreadFacts
     DEF Init, TypeOK, e, Main, Start, JoinNode, NULL, Thread
<1>7. ProcessInv
  <2>1. nextFreePid \in 2..created /\ pid[Start] = 2 /\ sleeping[Start] = 0
    BY ThreadFacts DEF Init, Start
  <2>4. alive[Start]
    BY ThreadFacts, Zenon DEF Init
  <2>2. \A t \in Thread : t > created <=> pc[t] = "new"
    BY <1>4, ThreadFacts DEF Init, Main, Start, Thread
  <2>3. \A t \in LiveThreads \ {Main} : pid[t] \in 2..nextFreePid /\ ptable[pid[t]] = t
    <3>1. \A t \in LiveThreads \ {Main} : t = Start
      BY <1>4 DEF LiveThreads, Live
    <3>2. pid[Start] = 2 /\ ptable[2] = Start /\ nextFreePid = 2
      BY ThreadFacts, ThreadsAssumption DEF Init, Start
    <3> QED
      BY <3>1, <3>2
  <2> QED
    BY <1>4, <2>1, <2>2, <2>3, <2>4, ThreadFacts DEF ProcessInv
<1>8. SchedulerInv
  BY <1>2, <1>4, ThreadFacts DEF Init, SchedulerInv, Schedulable, Live, e
<1> QED
  BY <1>6, <1>7, <1>8 DEF IInv, NeverPanics, Init

(* Steps that change no field of the process table. *)
LEMMA MainSchedulesKeeps ==
    ASSUME IInv, MainSchedules PROVE IInv'
<1>1. /\ currentThread \in Thread /\ halted = "no" /\ pc[currentThread] = "init"
      /\ pc' = [pc EXCEPT ![currentThread] = "gone"] /\ pc \in [Thread -> Where]
      /\ UNCHANGED <<allThreadList, procs, joins, alive, sleeping, ticks>>
  BY DEF MainSchedules, Executing, Goto, IInv, TypeOK
<1>2. currentThread = Main
  BY <1>1, ThreadFacts DEF IInv, ProcessInv
<1>3. pc' \in [Thread -> Where]
  BY <1>1 DEF Where
<1>4. ProcessInv'
  BY <1>1, <1>2, ThreadFacts DEF IInv, ProcessInv, LiveThreads, Live, procs
<1>5. /\ runQueue \in ListType(Thread) /\ WellLinked(runQueue)
      /\ Members(runQueue) = Schedulable'
  BY <1>1, <1>2, ThreadFacts DEF IInv, TypeOK, SchedulerInv, Schedulable, Live
<1>6. /\ SchedulerInv' /\ halted' = "no"
      /\ runQueue' \in ListType(Thread) /\ currentThread' \in Thread
  <2>1. Dispatch(runQueue)
    BY DEF MainSchedules
  <2>2. alive' \in [Thread -> BOOLEAN] /\ sleeping' \in [Thread -> Nat] /\ TypeOK
    BY <1>1 DEF IInv, TypeOK
  <2> QED
    BY <1>1, <1>3, <1>4, <1>5, <2>1, <2>2, DispatchKeeps
<1>7. TypeOK'
  BY <1>1, <1>3, <1>6 DEF IInv, TypeOK, procs, joins
<1> QED
  BY <1>4, <1>6, <1>7 DEF IInv, NeverPanics

(* A step that gives up the processor: no thread begins or ends, and none  *)
(* of the fields that identify a process changes.                          *)
LEMMA RotateKeeps ==
    ASSUME IInv, halted = "no", Requeue(runQueue), UNCHANGED <<procs, joins>>,
           allThreadList' \in ListType(Thread),
           pc' \in [Thread -> Where], alive' \in [Thread -> BOOLEAN],
           sleeping' \in [Thread -> Nat], ticks' \in 0..TicksPerSecond-1,
           alive'[Start], sleeping'[Start] = 0,
           \A t \in Thread : pc'[t] = pc[t] \/ (t # Start /\ t # Main /\ pc'[t] = "run"
                                                 /\ pc[t] \in Live),
           \A t \in Thread : pc[t] = "killed" => alive'[t] = alive[t]
    PROVE  IInv'
<1>1. LiveThreads' = LiveThreads /\ Schedulable' = Schedulable
  BY DEF LiveThreads, Schedulable, Live
<1>2. ProcessInv'
  <2>1. \A t \in Thread : pc'[t] = "killed" => ~ alive'[t]
    <3>1. \A t \in Thread : pc[t] = "killed" => ~ alive[t]
      BY DEF IInv, ProcessInv
    <3>2. ASSUME NEW t \in Thread, pc'[t] = "killed" PROVE ~ alive'[t]
      <4>1. pc[t] = "killed"
        BY <3>2
      <4> QED
        BY <3>1, <4>1, Zenon
    <3> QED
      BY <3>2
  <2>2. \A t \in Thread : t > created' <=> pc'[t] = "new"
    BY DEF IInv, ProcessInv, procs, Live
  <2> QED
    BY <1>1, <2>1, <2>2, ThreadFacts DEF IInv, ProcessInv, procs
<1>3. /\ SchedulerInv' /\ halted' = "no"
      /\ runQueue' \in ListType(Thread) /\ currentThread' \in Thread
  BY <1>1, <1>2, RequeueKeeps
<1>4. TypeOK'
  BY Zenon, <1>3 DEF IInv, TypeOK, procs, joins
<1> QED
  BY <1>2, <1>3, <1>4 DEF IInv, NeverPanics

LEMMA YieldKeeps ==
    ASSUME IInv, Yield \/ trap PROVE IInv'
<1>1. /\ halted = "no" /\ Requeue(runQueue)
      /\ UNCHANGED <<allThreadList, procs, joins, alive, sleeping, pc, ticks>>
  BY DEF Yield, trap, Executing, UserCalls
<1>2. /\ allThreadList' \in ListType(Thread)
      /\ pc' \in [Thread -> Where] /\ alive' \in [Thread -> BOOLEAN]
      /\ sleeping' \in [Thread -> Nat] /\ ticks' \in 0..TicksPerSecond-1
  BY <1>1 DEF IInv, TypeOK
<1>3. alive'[Start] /\ sleeping'[Start] = 0
  BY <1>1 DEF IInv, ProcessInv
<1> QED
  BY <1>1, <1>2, <1>3, RotateKeeps

(* The thread that makes a call is neither Main nor Start. *)
LEMMA CallerFacts ==
    ASSUME IInv, halted = "no", pc[currentThread] \in {"run", "wait", "read"},
           pc[currentThread] = "run" => currentThread # Start
    PROVE  /\ currentThread \in Thread \ {Main, Start}
           /\ pc[currentThread] \in Live
           /\ currentThread \in LiveThreads
  BY ThreadFacts DEF IInv, TypeOK, ProcessInv, Live, LiveThreads

LEMMA SleepKeeps ==
    ASSUME IInv, sleep PROVE IInv'
<1>1. PICK time \in SleepTimes : sleeping' = [sleeping EXCEPT ![currentThread] = time]
  BY Zenon DEF sleep
<1>2. /\ halted = "no" /\ Requeue(runQueue)
      /\ UNCHANGED <<allThreadList, procs, joins, alive, pc, ticks>>
      /\ pc[currentThread] = "run" /\ currentThread # Start
  BY DEF sleep, Executing, UserCalls
<1>3. currentThread \in Thread
  BY DEF IInv, TypeOK
<1>4. /\ allThreadList' \in ListType(Thread)
      /\ pc' \in [Thread -> Where] /\ alive' \in [Thread -> BOOLEAN]
      /\ ticks' \in 0..TicksPerSecond-1 /\ sleeping \in [Thread -> Nat]
  BY <1>2 DEF IInv, TypeOK
<1>5. sleeping' \in [Thread -> Nat]
  BY <1>1, <1>3, <1>4, ThreadsAssumption
<1>6. alive'[Start] /\ sleeping'[Start] = 0
  BY <1>1, <1>2, <1>3, <1>4, ThreadFacts DEF IInv, ProcessInv
<1> QED
  BY <1>2, <1>4, <1>5, <1>6, RotateKeeps

LEMMA ReturnKeeps ==
    ASSUME IInv, wait_return \/ doread_return PROVE IInv'
<1>1. /\ halted = "no" /\ Requeue(runQueue) /\ pc[currentThread] \in {"wait", "read"}
      /\ pc' = [pc EXCEPT ![currentThread] = "run"]
      /\ UNCHANGED <<allThreadList, procs, joins, alive, sleeping, ticks>>
  BY DEF wait_return, doread_return, Executing, Goto
<1>2. currentThread \in Thread \ {Main, Start} /\ pc[currentThread] \in Live
  BY <1>1, CallerFacts
<1>3. /\ allThreadList' \in ListType(Thread) /\ pc \in [Thread -> Where]
      /\ alive' \in [Thread -> BOOLEAN]
      /\ sleeping' \in [Thread -> Nat] /\ ticks' \in 0..TicksPerSecond-1
  BY <1>1 DEF IInv, TypeOK
<1>4. pc' \in [Thread -> Where]
  BY Zenon, <1>1, <1>3 DEF Where, Live
<1>5. alive'[Start] /\ sleeping'[Start] = 0
  BY <1>1 DEF IInv, ProcessInv
<1>6. \A t \in Thread : pc'[t] = pc[t] \/ (t # Start /\ t # Main /\ pc'[t] = "run"
                                            /\ pc[t] \in Live)
  BY <1>1, <1>2, <1>3
<1> QED
  BY <1>1, <1>3, <1>4, <1>5, <1>6, RotateKeeps

LEMMA ExecveKeeps ==
    ASSUME IInv, do_execve PROVE IInv'
<1>1. /\ halted = "no" /\ Requeue(runQueue) /\ pc[currentThread] = "run"
      /\ currentThread # Start
      /\ alive' = [alive EXCEPT ![currentThread] = TRUE]
      /\ sleeping' = [sleeping EXCEPT ![currentThread] = 0]
      /\ allThreadList' = AppendNode(allThreadList, currentThread)
      /\ UNCHANGED <<procs, joins, pc, ticks>>
  BY DEF do_execve, Executing, UserCalls
<1>2. currentThread \in Thread \ {Main, Start}
  BY <1>1, CallerFacts
<1>3. /\ alive \in [Thread -> BOOLEAN] /\ sleeping \in [Thread -> Nat]
      /\ allThreadList \in ListType(Thread)
      /\ pc' \in [Thread -> Where] /\ ticks' \in 0..TicksPerSecond-1
  BY <1>1 DEF IInv, TypeOK
<1>4. /\ allThreadList' \in ListType(Thread)
      /\ alive' \in [Thread -> BOOLEAN] /\ sleeping' \in [Thread -> Nat]
  BY <1>1, <1>2, <1>3, ThreadFacts, ListTypes
<1>5. alive'[Start] /\ sleeping'[Start] = 0
  <2>1. alive'[Start] = alive[Start] /\ sleeping'[Start] = sleeping[Start]
    BY Zenon, <1>1, <1>2, <1>3, ThreadFacts
  <2> QED
    BY <2>1 DEF IInv, ProcessInv
<1>6. \A t \in Thread : pc[t] = "killed" => alive'[t] = alive[t]
  BY Zenon, <1>1, <1>2, <1>3
<1>7. \A t \in Thread : pc'[t] = pc[t]
  BY <1>1
<1> QED
  BY Zenon, <1>1, <1>3, <1>4, <1>5, <1>6, <1>7, RotateKeeps

LEMMA TimerKeeps ==
    ASSUME IInv, irq_timer PROVE IInv'
<1>1. /\ halted = "no" /\ UNCHANGED <<allThreadList, procs, joins, alive, pc>>
      /\ ticks' = (ticks + 1) % TicksPerSecond
      /\ sleeping' = [t \in Thread |-> IF ticks' = 0 /\ sleeping[t] > 0 /\ t \in Slept
                                       THEN sleeping[t] - 1 ELSE sleeping[t]]
  BY DEF irq_timer, timer_handler
<1>2. /\ runQueue \in ListType(Thread) /\ WellLinked(runQueue)
      /\ currentThread \notin Members(runQueue)
  BY <1>1 DEF IInv, TypeOK, SchedulerInv
<1>3. CrawlEnds(runQueue.next, runQueue.head, {currentThread})
  BY Zenon, <1>2, ThreadFacts, CrawlToTheEnd
<1>4. Requeue(runQueue)
  BY <1>3 DEF irq_timer
<1>5. /\ sleeping \in [Thread -> Nat] /\ ticks \in Nat
      /\ allThreadList' \in ListType(Thread)
      /\ pc' \in [Thread -> Where] /\ alive' \in [Thread -> BOOLEAN]
  BY <1>1, ThreadsAssumption DEF IInv, TypeOK
<1>6. ticks' \in 0..TicksPerSecond-1
  BY <1>1, <1>5, ThreadsAssumption
<1>7. sleeping' \in [Thread -> Nat]
  BY <1>1, <1>5
<1>8. alive'[Start]
  BY <1>1 DEF IInv, ProcessInv
<1>9. sleeping'[Start] = 0
  BY <1>1, <1>5, ThreadFacts DEF IInv, ProcessInv
<1> QED
  BY <1>1, <1>4, <1>5, <1>6, <1>7, <1>8, <1>9, RotateKeeps

(* wait and doread only move the caller to its loop in the kernel. *)
LEMMA BlockKeeps ==
    ASSUME IInv, wait \/ doread PROVE IInv'
<1>1. /\ halted = "no" /\ pc[currentThread] = "run" /\ currentThread # Start
      /\ pc' = [pc EXCEPT ![currentThread] = "wait"] \/ pc' = [pc EXCEPT ![currentThread] = "read"]
      /\ UNCHANGED <<lists, currentThread, procs, joins, alive, sleeping, ticks, halted>>
  BY DEF wait, doread, UserCalls, Executing, Goto
<1>2. currentThread \in Thread \ {Main, Start} /\ pc \in [Thread -> Where]
  BY <1>1, CallerFacts DEF IInv, TypeOK
<1>3. /\ pc' \in [Thread -> Where] /\ pc'[currentThread] \in {"wait", "read"}
      /\ \A t \in Thread : t # currentThread => pc'[t] = pc[t]
  BY <1>1, <1>2 DEF Where, Live
<1>4. LiveThreads' = LiveThreads /\ Schedulable' = Schedulable
  BY <1>1, <1>2, <1>3 DEF LiveThreads, Schedulable, Live
<1>5. TypeOK'
  BY <1>1, <1>3 DEF IInv, TypeOK, lists, procs, joins
<1>6. ProcessInv'
  <2>1. \A t \in Thread : pc'[t] = "killed" => ~ alive'[t]
    BY <1>1, <1>3 DEF IInv, ProcessInv
  <2>2. \A t \in Thread : t > created' <=> pc'[t] = "new"
    BY <1>1, <1>2, <1>3 DEF IInv, ProcessInv, procs
  <2> QED
    BY <1>1, <1>2, <1>3, <1>4, <2>1, <2>2, ThreadFacts DEF IInv, ProcessInv, procs
<1>7. SchedulerInv'
  <2>1. runQueue' = runQueue /\ currentThread' = currentThread /\ halted' = halted
    BY <1>1 DEF lists
  <2>2. Members(runQueue)' = Members(runQueue) /\ WellLinked(runQueue)' = WellLinked(runQueue)
    BY <2>1
  <2>3. RemoveNode(runQueue, currentThread)' = RemoveNode(runQueue, currentThread)
    BY <2>1
  <2>4. pc'[currentThread'] \in Live
    BY <1>3, <2>1 DEF Live
  <2> QED
    BY <1>4, <2>1, <2>2, <2>3, <2>4 DEF IInv, SchedulerInv
<1> QED
  BY <1>1, <1>5, <1>6, <1>7 DEF IInv, NeverPanics

(* A new thread gets a page and a pid that no process has. *)
LEMMA NewThreadFacts ==
    ASSUME IInv, NewThread
    PROVE  /\ k_thread \in Thread /\ pc[k_thread] = "new" /\ k_thread \notin {Main, Start}
           /\ created' \in 2..MaxThreads /\ created' = k_thread
           /\ nextFreePid' \in 2..created' /\ nextFreePid' \in 0..MaxThreads
           /\ pid' \in [Thread -> 0..MaxThreads]
           /\ ptable' \in [0..MaxThreads -> Thread \cup {NULL}]
           /\ pid'[Start] = 2
           /\ \A t \in (LiveThreads \cup {k_thread}) \ {Main} :
                 pid'[t] \in 2..nextFreePid' /\ ptable'[pid'[t]] = t
<1>1. /\ created \in 2..MaxThreads /\ nextFreePid \in 2..created /\ MaxThreads \in Nat
      /\ pid \in [Thread -> 0..MaxThreads]
      /\ ptable \in [0..MaxThreads -> Thread \cup {NULL}]
      /\ pid[Start] = 2
      /\ \A t \in Thread : t > created <=> pc[t] = "new"
      /\ \A t \in LiveThreads \ {Main} : pid[t] \in 2..nextFreePid /\ ptable[pid[t]] = t
  BY ThreadsAssumption DEF IInv, TypeOK, ProcessInv
<1>2. /\ created < MaxThreads /\ created' = k_thread /\ nextFreePid' = nextFreePid + 1
      /\ pid' = [pid EXCEPT ![k_thread] = nextFreePid + 1]
      /\ ptable' = [ptable EXCEPT ![nextFreePid + 1] = k_thread]
      /\ k_thread = created + 1
  BY DEF NewThread, k_thread
<1>3. /\ k_thread \in Thread /\ pc[k_thread] = "new" /\ k_thread \notin {Main, Start}
      /\ created' \in 2..MaxThreads /\ nextFreePid' \in 2..created'
      /\ nextFreePid' \in 0..MaxThreads
  BY <1>1, <1>2 DEF Thread, Main, Start
<1>4. /\ pid' \in [Thread -> 0..MaxThreads]
      /\ ptable' \in [0..MaxThreads -> Thread \cup {NULL}]
      /\ pid'[Start] = 2
  BY <1>1, <1>2, <1>3, ThreadFacts
<1>5. pid'[k_thread] = nextFreePid' /\ ptable'[nextFreePid'] = k_thread
  BY <1>1, <1>2, <1>3
<1>6. ASSUME NEW t \in LiveThreads, t # Main, t # k_thread
      PROVE  pid'[t] \in 2..nextFreePid' /\ ptable'[pid'[t]] = t
  <2>1. t \in Thread /\ pid[t] \in 2..nextFreePid /\ ptable[pid[t]] = t
    BY <1>1, <1>6 DEF LiveThreads
  <2>2. pid'[t] = pid[t]
    BY <1>1, <1>2, <1>6, <2>1
  <2>3. ptable'[pid[t]] = ptable[pid[t]]
    BY <1>1, <1>2, <2>1
  <2> QED
    BY <1>1, <1>2, <2>1, <2>2, <2>3
<1> QED
  BY <1>2, <1>3, <1>4, <1>5, <1>6

LEMMA ExecKeeps ==
    ASSUME IInv, do_exec PROVE IInv'
<1>1. /\ halted = "no" /\ pc[currentThread] = "boot" /\ NewThread
      /\ alive' = [alive EXCEPT ![k_thread] = TRUE]
      /\ sleeping' = [sleeping EXCEPT ![k_thread] = 0]
      /\ pc' = [pc EXCEPT ![k_thread] = "run", ![currentThread] = "run"]
      /\ allThreadList' = AppendNode(allThreadList, k_thread)
      /\ runQueue' = AppendNode(runQueue, k_thread)
      /\ UNCHANGED <<currentThread, parent, joins, ticks, halted>>
  BY DEF do_exec, Executing
<1>2. /\ alive \in [Thread -> BOOLEAN] /\ sleeping \in [Thread -> Nat]
      /\ allThreadList \in ListType(Thread) /\ runQueue \in ListType(Thread)
      /\ pc \in [Thread -> Where] /\ currentThread \in Thread
  BY DEF IInv, TypeOK
<1>3. currentThread = Start
  BY <1>1, <1>2 DEF IInv, ProcessInv
<1>4. k_thread \in Thread /\ pc[k_thread] = "new" /\ k_thread \notin {Main, Start}
  BY <1>1, NewThreadFacts
<1>5. /\ pc' \in [Thread -> Where]
      /\ pc'[k_thread] = "run" /\ pc'[Start] = "run"
      /\ \A t \in Thread : t \notin {k_thread, Start} => pc'[t] = pc[t]
  BY <1>1, <1>2, <1>3, <1>4, ThreadFacts DEF Where, Live
<1>6. /\ alive' \in [Thread -> BOOLEAN] /\ sleeping' \in [Thread -> Nat]
      /\ allThreadList' \in ListType(Thread) /\ runQueue' \in ListType(Thread)
  BY <1>1, <1>2, <1>4, ThreadFacts, ListTypes
<1>7. TypeOK'
  BY Zenon, <1>1, <1>5, <1>6, NewThreadFacts DEF IInv, TypeOK, joins
<1>8. LiveThreads' = LiveThreads \cup {k_thread} /\ Schedulable' = Schedulable \cup {k_thread}
  BY <1>1, <1>3, <1>4, <1>5 DEF LiveThreads, Schedulable, Live
<1>9. ProcessInv'
  <2>1. alive'[Start] = alive[Start] /\ sleeping'[Start] = sleeping[Start]
    BY Zenon, <1>1, <1>2, <1>4, ThreadFacts
  <2>2. \A t \in Thread : pc'[t] = "killed" => ~ alive'[t]
    BY <1>1, <1>2, <1>4, <1>5 DEF IInv, ProcessInv
  <2>3. \A t \in Thread : t > created' <=> pc'[t] = "new"
    <3>1. created' = created + 1 /\ k_thread = created + 1 /\ created \in Nat
      <4>1. created \in Nat
        BY DEF IInv, TypeOK
      <4> QED
        BY <1>1, <4>1 DEF NewThread, k_thread
    <3>2. \A t \in Thread : t > created <=> pc[t] = "new"
      BY DEF IInv, ProcessInv
    <3> QED
      BY <3>1, <3>2, <1>3, <1>1, <1>5, ThreadFacts
  <2>4. /\ nextFreePid' \in 2..created' /\ pid'[Start] = 2
        /\ \A t \in LiveThreads' \ {Main} : pid'[t] \in 2..nextFreePid' /\ ptable'[pid'[t]] = t
    BY <1>1, <1>8, NewThreadFacts
  <2>5. /\ pc'[Main] \in {"init", "gone"}
        /\ \A t \in Thread : t # Main => pc'[t] \notin {"init", "gone"}
        /\ \A t \in Thread : t # Start => pc'[t] # "boot"
    BY <1>4, <1>5, ThreadFacts DEF IInv, ProcessInv
  <2>6. alive'[Start] /\ sleeping'[Start] = 0
    BY <2>1 DEF IInv, ProcessInv
  <2> QED
    BY <1>5, <2>2, <2>3, <2>4, <2>5, <2>6 DEF ProcessInv
<1>10. SchedulerInv'
  <2>1. /\ WellLinked(runQueue) /\ Members(runQueue) = Schedulable \ {currentThread}
        /\ k_thread \notin Schedulable
    BY <1>1, <1>4 DEF IInv, SchedulerInv, Schedulable, Live
  <2>2. WellLinked(runQueue') /\ Members(runQueue') = Members(runQueue) \cup {k_thread}
    BY <1>1, <1>2, <1>4, <2>1, ThreadFacts, AppendAdds
  <2>3. WellLinked(runQueue)' = WellLinked(runQueue') /\ Members(runQueue)' = Members(runQueue')
    BY DEF Members, WellLinked, Crawl, Covers, LinkedOver
  <2>4. currentThread' = Start /\ k_thread # Start
    BY <1>1, <1>3, <1>4
  <2> QED
    BY <1>3, <1>5, <1>8, <2>1, <2>2, <2>3, <2>4 DEF SchedulerInv, Live
<1> QED
  BY <1>1, <1>7, <1>9, <1>10 DEF IInv, NeverPanics

LEMMA ForkKeeps ==
    ASSUME IInv, fork PROVE IInv'
<1>1. /\ halted = "no" /\ pc[currentThread] = "run" /\ currentThread # Start /\ NewThread
      /\ alive' = [alive EXCEPT ![k_thread] = alive[currentThread]]
      /\ sleeping' = [sleeping EXCEPT ![k_thread] = sleeping[currentThread]]
      /\ parent' = [parent EXCEPT ![k_thread] = currentThread]
      /\ pc' = [pc EXCEPT ![k_thread] = "run"]
      /\ allThreadList' = AppendNode(allThreadList, k_thread)
      /\ UNCHANGED ticks
  BY DEF fork, UserCalls, Executing
<1>2. PICK n \in joinFree :
         /\ append_join_queue(n)
         /\ \/ Requeue(AppendNode(runQueue, k_thread))
            \/ halted' = "loop" /\ UNCHANGED <<runQueue, currentThread>>
  BY DEF fork
<1>3. /\ alive \in [Thread -> BOOLEAN] /\ sleeping \in [Thread -> Nat]
      /\ allThreadList \in ListType(Thread) /\ runQueue \in ListType(Thread)
      /\ pc \in [Thread -> Where] /\ parent \in [Thread -> Thread \cup {NULL}]
      /\ joinHead \in [Thread -> JoinNode \cup {NULL}]
      /\ joinNext \in [JoinNode -> JoinNode \cup {NULL}]
      /\ joinChild \in [JoinNode -> Thread \cup {NULL}]
      /\ joinFree \subseteq JoinNode
  BY DEF IInv, TypeOK
<1>4. currentThread \in Thread \ {Main, Start}
  BY <1>1, CallerFacts
<1>5. k_thread \in Thread /\ pc[k_thread] = "new" /\ k_thread \notin {Main, Start}
  BY <1>1, NewThreadFacts
<1>6. /\ pc' \in [Thread -> Where] /\ pc'[k_thread] = "run"
      /\ \A t \in Thread : t # k_thread => pc'[t] = pc[t]
  BY <1>1, <1>3, <1>5 DEF Where, Live
<1>7. /\ alive' \in [Thread -> BOOLEAN] /\ sleeping' \in [Thread -> Nat]
      /\ allThreadList' \in ListType(Thread)
      /\ parent' \in [Thread -> Thread \cup {NULL}]
  BY <1>1, <1>3, <1>4, <1>5, ThreadFacts, ListTypes
<1>8. /\ joinHead' \in [Thread -> JoinNode \cup {NULL}]
      /\ joinNext' \in [JoinNode -> JoinNode \cup {NULL}]
      /\ joinChild' \in [JoinNode -> Thread \cup {NULL}]
      /\ joinFree' \subseteq JoinNode
  BY <1>2, <1>3, <1>4, <1>5 DEF append_join_queue
<1>9. LiveThreads' = LiveThreads \cup {k_thread} /\ Schedulable' = Schedulable \cup {k_thread}
  BY <1>5, <1>6 DEF LiveThreads, Schedulable, Live
<1>10. ProcessInv'
  <2>1. alive'[Start] = alive[Start] /\ sleeping'[Start] = sleeping[Start]
    BY <1>1, <1>3, <1>5, ThreadFacts
  <2>2. \A t \in Thread : pc'[t] = "killed" => ~ alive'[t]
    BY <1>1, <1>3, <1>5, <1>6 DEF IInv, ProcessInv
  <2>3. \A t \in Thread : t > created' <=> pc'[t] = "new"
    <3>1. created' = created + 1 /\ k_thread = created + 1 /\ created \in Nat
      <4>1. created \in Nat
        BY DEF IInv, TypeOK
      <4> QED
        BY <1>1, <4>1 DEF NewThread, k_thread
    <3>2. \A t \in Thread : t > created <=> pc[t] = "new"
      BY DEF IInv, ProcessInv
    <3> QED
      BY <3>1, <3>2, <1>6, ThreadFacts
  <2>4. /\ nextFreePid' \in 2..created' /\ pid'[Start] = 2
        /\ \A t \in LiveThreads' \ {Main} : pid'[t] \in 2..nextFreePid' /\ ptable'[pid'[t]] = t
    BY <1>1, <1>9, NewThreadFacts
  <2>5. /\ pc'[Main] \in {"init", "gone"} /\ pc'[Start] \in {"boot", "run"}
        /\ \A t \in Thread : t # Main => pc'[t] \notin {"init", "gone"}
        /\ \A t \in Thread : t # Start => pc'[t] # "boot"
    BY <1>5, <1>6, ThreadFacts DEF IInv, ProcessInv
  <2>6. alive'[Start] /\ sleeping'[Start] = 0
    BY <2>1 DEF IInv, ProcessInv
  <2> QED
    BY <2>2, <2>3, <2>4, <2>5, <2>6 DEF ProcessInv
<1>11. /\ SchedulerInv' /\ halted' \in {"no", "loop"}
       /\ runQueue' \in ListType(Thread) /\ currentThread' \in Thread
  <2>1. CASE halted' = "loop" /\ UNCHANGED <<runQueue, currentThread>>
    BY <1>3, <1>4, <2>1 DEF SchedulerInv
  <2>2. CASE Requeue(AppendNode(runQueue, k_thread))
    <3> DEFINE q1 == AppendNode(runQueue, k_thread)
               q2 == AppendNode(q1, currentThread)
    <3>1. /\ WellLinked(runQueue) /\ Members(runQueue) = Schedulable \ {currentThread}
          /\ k_thread \notin Schedulable /\ currentThread \in Schedulable
          /\ k_thread # currentThread
      BY <1>1, <1>4, <1>5 DEF IInv, SchedulerInv, Schedulable, Live
    <3>2. /\ q1 \in ListType(Thread) /\ WellLinked(q1)
          /\ Members(q1) = (Schedulable \ {currentThread}) \cup {k_thread}
      BY <1>3, <1>5, <3>1, ThreadFacts, AppendAdds, ListTypes, SMTT(30)
    <3> HIDE DEF q1
    <3>3. currentThread \notin Members(q1)
      BY <3>1, <3>2
    <3>4. /\ q2 \in ListType(Thread) /\ WellLinked(q2)
          /\ Members(q2) = Members(q1) \cup {currentThread}
      BY <1>4, <3>2, <3>3, ThreadFacts, AppendAdds, ListTypes
    <3>5. Members(q2) = Schedulable'
      BY <1>9, <3>1, <3>2, <3>4
    <3>6. Dispatch(q2)
      BY <2>2 DEF Requeue, q1
    <3>7. TypeOK
      BY DEF IInv
    <3> HIDE DEF q2
    <3> QED
      BY <1>1, <1>6, <1>7, <1>10, <3>4, <3>5, <3>6, <3>7, DispatchKeeps
  <2> QED
    BY <1>2, <2>1, <2>2
<1>12. TypeOK'
  BY Zenon, <1>1, <1>6, <1>7, <1>8, <1>11, NewThreadFacts DEF IInv, TypeOK
<1> QED
  BY <1>10, <1>11, <1>12 DEF IInv, NeverPanics

(* sys_exit, called by the youngest process: it cleans up the caller, and  *)
(* the pids of the others stay in use and lead to them.                    *)
LEMMA SysExitFacts ==
    ASSUME LastInFirstOut, IInv, halted = "no", pc[currentThread] = "run",
           currentThread # Start, MayEnd, sys_exit,
           NEW end \in {"exited", "killed"}, Goto(end)
    PROVE  /\ victim = currentThread /\ currentThread \in Thread \ {Main, Start}
           /\ joinHead' \in [Thread -> JoinNode \cup {NULL}]
           /\ joinNext' \in [JoinNode -> JoinNode \cup {NULL}]
           /\ joinChild' \in [JoinNode -> Thread \cup {NULL}]
           /\ joinFree' \subseteq JoinNode
           /\ ptable' \in [0..MaxThreads -> Thread \cup {NULL}]
           /\ nextFreePid' \in 2..created /\ nextFreePid' \in 0..MaxThreads
           /\ UNCHANGED <<created, pid, parent>>
           /\ pc' \in [Thread -> Where] /\ pc'[currentThread] = end
           /\ \A t \in Thread : t # currentThread => pc'[t] = pc[t]
           /\ \A t \in LiveThreads' \ {Main} : pid[t] \in 2..nextFreePid' /\ ptable'[pid[t]] = t
<1>1. currentThread \in Thread \ {Main, Start} /\ currentThread \in LiveThreads
  BY CallerFacts
<1>2. /\ joinHead \in [Thread -> JoinNode \cup {NULL}]
      /\ joinNext \in [JoinNode -> JoinNode \cup {NULL}]
      /\ joinChild \in [JoinNode -> Thread \cup {NULL}]
      /\ joinFree \subseteq JoinNode
      /\ parent \in [Thread -> Thread \cup {NULL}]
      /\ ptable \in [0..MaxThreads -> Thread \cup {NULL}]
      /\ created \in 2..MaxThreads /\ MaxThreads \in Nat
      /\ pid \in [Thread -> 0..MaxThreads]
      /\ pc \in [Thread -> Where]
  BY ThreadsAssumption DEF IInv, TypeOK
<1>3. /\ nextFreePid \in 2..created /\ pid[Start] = 2 /\ pc[Start] \in Live
      /\ \A t \in LiveThreads \ {Main} : pid[t] \in 2..nextFreePid /\ ptable[pid[t]] = t
  BY DEF IInv, ProcessInv, Live
<1>4. victim = currentThread /\ pid[currentThread] = nextFreePid
  BY <1>1, <1>3 DEF victim, MayEnd
<1>5. ptable[2] = Start
  BY <1>3, ThreadFacts DEF LiveThreads
<1>6. nextFreePid # 2
  BY <1>1, <1>3, <1>4, <1>5
<1>7. /\ ptable' = [ptable EXCEPT ![nextFreePid] = NULL]
      /\ nextFreePid' = nextFreePid - 1 /\ UNCHANGED <<created, pid, parent>>
  BY <1>4 DEF sys_exit
<1>8. /\ nextFreePid' \in 2..created /\ nextFreePid' \in 0..MaxThreads
      /\ ptable' \in [0..MaxThreads -> Thread \cup {NULL}]
  BY <1>2, <1>3, <1>6, <1>7
<1>9. /\ joinHead' \in [Thread -> JoinNode \cup {NULL}]
      /\ joinNext' \in [JoinNode -> JoinNode \cup {NULL}]
      /\ joinChild' \in [JoinNode -> Thread \cup {NULL}]
      /\ joinFree' \subseteq JoinNode
  <2>1. CASE parent[victim] = NULL
    BY <1>2, <2>1 DEF sys_exit, joins
  <2>2. CASE parent[victim] # NULL
    <3>1. parent[victim] \in Thread
      BY <1>1, <1>2, <1>4, <2>2
    <3>2. PICK n \in Searched \cap NodesOf(victim) :
            /\ joinHead' = [joinHead EXCEPT ![parent[victim]] =
                               IF @ = n THEN joinNext[n] ELSE @]
            /\ joinNext' = [m \in JoinNode |->
                   IF /\ joinHead[parent[victim]] # n
                      /\ joinNext[m] = n /\ m \in Searched \ {n}
                   THEN joinNext[n] ELSE joinNext[m]]
            /\ joinFree' = joinFree \cup {n} /\ joinChild' = joinChild
      BY <2>2 DEF sys_exit, remove_child
    <3>3. n \in JoinNode
      BY <3>2 DEF NodesOf
    <3> QED
      BY <1>2, <3>1, <3>2, <3>3
  <2> QED
    BY <2>1, <2>2
<1>10. /\ pc' \in [Thread -> Where] /\ pc'[currentThread] = end
       /\ \A t \in Thread : t # currentThread => pc'[t] = pc[t]
  BY <1>1, <1>2 DEF Goto, Where, Live
<1>11. ASSUME NEW t \in LiveThreads', t # Main
       PROVE  pid[t] \in 2..nextFreePid' /\ ptable'[pid[t]] = t
  <2>1. t \in LiveThreads /\ t # currentThread /\ t \in Thread
    BY <1>10, <1>11 DEF LiveThreads, Live
  <2>2. pid[t] \in 2..nextFreePid /\ ptable[pid[t]] = t
    BY <1>3, <1>11, <2>1
  <2>3. pid[t] # nextFreePid
    BY <1>1, <1>3, <1>4, <2>1, <2>2
  <2> QED
    BY <1>2, <1>3, <1>7, <2>2, <2>3
<1> QED
  BY <1>1, <1>4, <1>7, <1>8, <1>9, <1>10, <1>11

LEMMA CrashKeeps ==
    ASSUME IInv, CrashInCleanUp PROVE IInv'
<1>1. /\ halted' = "fault"
      /\ UNCHANGED <<lists, currentThread, procs, joins, alive, sleeping, pc, ticks>>
  BY DEF CrashInCleanUp
<1>2. TypeOK'
  BY <1>1 DEF IInv, TypeOK, lists, procs, joins
<1>3. ProcessInv'
  BY <1>1 DEF IInv, ProcessInv, LiveThreads, procs
<1> QED
  BY <1>1, <1>2, <1>3 DEF IInv, SchedulerInv, NeverPanics

(* What sys_exit leaves of ProcessInv, for a caller that ends as end. *)
LEMMA EndKeepsProcesses ==
    ASSUME LastInFirstOut, IInv, halted = "no", pc[currentThread] = "run",
           currentThread # Start, MayEnd, sys_exit,
           NEW end \in {"exited", "killed"}, Goto(end),
           end = "killed" => alive'[currentThread] = FALSE,
           \A t \in Thread : t # currentThread => alive'[t] = alive[t],
           sleeping' = sleeping
    PROVE  ProcessInv'
<1>1. /\ currentThread \in Thread \ {Main, Start} /\ created' = created /\ pid' = pid
      /\ nextFreePid' \in 2..created'
      /\ pc'[currentThread] = end
      /\ \A t \in Thread : t # currentThread => pc'[t] = pc[t]
      /\ \A t \in LiveThreads' \ {Main} : pid'[t] \in 2..nextFreePid' /\ ptable'[pid'[t]] = t
  BY SysExitFacts
<1>2. /\ pc'[Start] = pc[Start] /\ pc'[Main] = pc[Main] /\ alive'[Start] = alive[Start]
  BY <1>1, ThreadFacts
<1>3. \A t \in Thread : pc'[t] = "killed" => ~ alive'[t]
  BY <1>1 DEF IInv, ProcessInv
<1>4. \A t \in Thread : t > created' <=> pc'[t] = "new"
  BY <1>1 DEF IInv, ProcessInv
<1>5. /\ \A t \in Thread : t # Main => pc'[t] \notin {"init", "gone"}
      /\ \A t \in Thread : t # Start => pc'[t] # "boot"
  BY <1>1 DEF IInv, ProcessInv
<1> QED
  BY <1>1, <1>2, <1>3, <1>4, <1>5 DEF IInv, ProcessInv

LEMMA ExitKeeps ==
    ASSUME LastInFirstOut, IInv, exit PROVE IInv'
<1>1. CASE CrashInCleanUp
  BY <1>1, CrashKeeps
<1>2. CASE ~ CrashInCleanUp
  <2>1. /\ halted = "no" /\ pc[currentThread] = "run" /\ currentThread # Start /\ MayEnd
        /\ sys_exit /\ Goto("exited") /\ UNCHANGED <<alive, sleeping, ticks>>
        /\ allThreadList' = RemoveNode(allThreadList, victim)
        /\ Dispatch(RemoveNode(runQueue, victim))
    BY <1>2 DEF exit, UserCalls, Executing
  <2>2. ProcessInv'
    BY <2>1, EndKeepsProcesses
  <2>3. /\ victim = currentThread /\ currentThread \in Thread \ {Main, Start}
        /\ pc' \in [Thread -> Where] /\ pc'[currentThread] = "exited"
        /\ \A t \in Thread : t # currentThread => pc'[t] = pc[t]
    BY <2>1, SysExitFacts
  <2>4. /\ runQueue \in ListType(Thread) /\ WellLinked(runQueue)
        /\ Members(runQueue) = Schedulable \ {currentThread}
        /\ RemoveNode(runQueue, victim) = runQueue
    BY <2>1, <2>3 DEF IInv, TypeOK, SchedulerInv
  <2>5. Schedulable' = Schedulable \ {currentThread}
    BY <2>3 DEF Schedulable, Live
  <2>6. /\ SchedulerInv' /\ halted' = "no"
        /\ runQueue' \in ListType(Thread) /\ currentThread' \in Thread
    <3>1. Dispatch(runQueue)
      BY <2>1, <2>4
    <3>2. TypeOK /\ alive' \in [Thread -> BOOLEAN] /\ sleeping' \in [Thread -> Nat]
      BY <2>1 DEF IInv, TypeOK
    <3> QED
      BY <2>1, <2>2, <2>3, <2>4, <2>5, <3>1, <3>2, DispatchKeeps
  <2>7. allThreadList' \in ListType(Thread)
    BY <2>1, <2>3, ThreadFacts, ListTypes DEF IInv, TypeOK
  <2>8. TypeOK'
    BY <2>1, <2>3, <2>6, <2>7, SysExitFacts DEF IInv, TypeOK
  <2> QED
    BY <2>2, <2>6, <2>8 DEF IInv, NeverPanics
<1> QED
  BY <1>1, <1>2

LEMMA KillKeeps ==
    ASSUME LastInFirstOut, IInv, kill PROVE IInv'
<1>1. CASE CrashInCleanUp
  BY <1>1, CrashKeeps
<1>2. CASE ~ CrashInCleanUp
  <2>1. /\ halted = "no" /\ pc[currentThread] = "run" /\ currentThread # Start /\ MayEnd
        /\ sys_exit /\ Goto("killed") /\ UNCHANGED <<sleeping, ticks>>
        /\ alive' = [alive EXCEPT ![currentThread] = FALSE]
        /\ allThreadList' = RemoveNode(RemoveNode(allThreadList, currentThread), victim)
        /\ Requeue(RemoveNode(RemoveNode(runQueue, currentThread), victim))
    BY <1>2 DEF kill, UserCalls, Executing
  <2>2. /\ victim = currentThread /\ currentThread \in Thread \ {Main, Start}
        /\ pc' \in [Thread -> Where] /\ pc'[currentThread] = "killed"
        /\ \A t \in Thread : t # currentThread => pc'[t] = pc[t]
    BY <2>1, SysExitFacts
  <2>3. /\ alive' \in [Thread -> BOOLEAN] /\ alive'[currentThread] = FALSE
        /\ \A t \in Thread : t # currentThread => alive'[t] = alive[t]
    BY <2>1, <2>2 DEF IInv, TypeOK
  <2>4. ProcessInv'
    BY <2>1, <2>3, EndKeepsProcesses
  <2>5. /\ runQueue \in ListType(Thread) /\ WellLinked(runQueue)
        /\ Members(runQueue) = Schedulable \ {currentThread}
        /\ RemoveNode(runQueue, currentThread) = runQueue
    BY <2>1, <2>2 DEF IInv, TypeOK, SchedulerInv
  <2>6. Schedulable' = (Schedulable \ {currentThread}) \cup {currentThread}
    BY <2>2 DEF Schedulable, Live
  <2> DEFINE q == AppendNode(runQueue, currentThread)
  <2>7. q \in ListType(Thread) /\ WellLinked(q) /\ Members(q) = Schedulable'
    <3>1. currentThread \notin Members(runQueue)
      BY <2>5
    <3>2. q \in ListType(Thread) /\ WellLinked(q)
          /\ Members(q) = Members(runQueue) \cup {currentThread}
      BY <2>2, <2>5, <3>1, ThreadFacts, AppendAdds, ListTypes
    <3> QED
      BY <2>5, <2>6, <3>2
  <2>8. Dispatch(q)
    BY <2>1, <2>2, <2>5 DEF Requeue
  <2> HIDE DEF q
  <2>9. /\ SchedulerInv' /\ halted' = "no"
        /\ runQueue' \in ListType(Thread) /\ currentThread' \in Thread
    <3>1. TypeOK /\ sleeping' \in [Thread -> Nat]
      BY <2>1 DEF IInv, TypeOK
    <3> QED
      BY <2>1, <2>2, <2>3, <2>4, <2>7, <2>8, <3>1, DispatchKeeps
  <2>10. allThreadList' \in ListType(Thread)
    BY <2>1, <2>2, ThreadFacts, ListTypes DEF IInv, TypeOK
  <2>11. TypeOK'
    BY <2>1, <2>2, <2>3, <2>9, <2>10, SysExitFacts DEF IInv, TypeOK
  <2> QED
    BY <2>4, <2>9, <2>11 DEF IInv, NeverPanics
<1> QED
  BY <1>1, <1>2

-----------------------------------------------------------------------------
(* The inductive invariant: every step of every thread preserves it. *)
THEOREM SchedulerInvariant ==
    ASSUME LastInFirstOut PROVE Spec => []IInv
<1>1. ASSUME IInv, [Next]_vars PROVE IInv'
  <2>1. CASE UNCHANGED vars
    <3>1. /\ UNCHANGED <<runQueue, allThreadList, currentThread, created, pid, parent, ptable,
                         nextFreePid, joinHead, joinNext, joinChild, joinFree>>
          /\ UNCHANGED <<alive, sleeping, pc, ticks, halted>>
      BY <2>1 DEF vars, lists, procs, joins
    <3>2. TypeOK'
      BY <1>1, <3>1 DEF IInv, TypeOK
    <3>3. ProcessInv'
      BY <1>1, <3>1 DEF IInv, ProcessInv, LiveThreads
    <3>4. SchedulerInv'
      <4>1. Members(runQueue)' = Members(runQueue) /\ WellLinked(runQueue)' = WellLinked(runQueue)
        BY <3>1
      <4>2. RemoveNode(runQueue, currentThread)' = RemoveNode(runQueue, currentThread)
        BY <3>1
      <4> QED
        BY <1>1, <3>1, <4>1, <4>2 DEF IInv, SchedulerInv, Schedulable
    <3> QED
      BY <1>1, <3>1, <3>2, <3>3, <3>4 DEF IInv, NeverPanics
  <2>2. CASE Next
    BY <1>1, <2>2, MainSchedulesKeeps, ExecKeeps, YieldKeeps, TimerKeeps, SleepKeeps,
       BlockKeeps, ReturnKeeps, ForkKeeps, ExecveKeeps, ExitKeeps, KillKeeps DEF Next
  <2> QED
    BY <1>1, <2>1, <2>2
<1>2. Init => IInv
  BY InitEstablishes
<1> QED
  BY <1>1, <1>2, PTL DEF Spec

(* While processes end youngest first, the run queue stays well linked and *)
(* holds exactly the threads that can run other than the current one,      *)
(* through schedule, fork, exec, exit and kill (kthread.c, isr.c).         *)
THEOREM RunQueueIsSound ==
    ASSUME LastInFirstOut PROVE Spec => []RunQueueSound
<1>1. IInv => RunQueueSound
  BY DEF IInv, SchedulerInv, RunQueueSound
<1> QED
  BY <1>1, SchedulerInvariant, PTL

(* next_runnable_kthread never reaches its PANIC: the crawl along the run  *)
(* queue always meets a thread that is awake.                              *)
THEOREM SchedulerFindsALiveThread ==
    ASSUME LastInFirstOut PROVE Spec => []NeverPanics
<1>1. IInv => NeverPanics
  BY DEF IInv
<1> QED
  BY <1>1, SchedulerInvariant, PTL

(* The thread schedule() gives the processor to has neither exited nor     *)
(* been killed, and is not Main after it left scheduler_init.              *)
THEOREM OnlyLiveThreadsRun ==
    ASSUME LastInFirstOut PROVE Spec => []DeadNeverRun
<1>1. IInv => DeadNeverRun
  BY DEF IInv, SchedulerInv, DeadNeverRun
<1> QED
  BY <1>1, SchedulerInvariant, PTL

(* The lists, tables and join queues of kthread.c keep their types: every  *)
(* link is a thread or NULL, and every pid an index of ptable.             *)
THEOREM ThreadsAreTyped ==
    ASSUME LastInFirstOut PROVE Spec => []TypeOK
<1>1. IInv => TypeOK
  BY DEF IInv
<1> QED
  BY <1>1, SchedulerInvariant, PTL

(* sys_exit finds the process that called it: ptable leads from the pid of *)
(* every process to that process.                                          *)
THEOREM PtableIsSound ==
    ASSUME LastInFirstOut PROVE Spec => []PtableSound
<1>1. IInv => PtableSound
  BY DEF IInv, ProcessInv, PtableSound
<1> QED
  BY <1>1, SchedulerInvariant, PTL
=============================================================================
