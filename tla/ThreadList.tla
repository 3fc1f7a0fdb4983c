----------------------------- MODULE ThreadList -----------------------------
(***************************************************************************)
(* The intrusive doubly linked lists of sys/kthread.c.  The run queue      *)
(* (Thr_Queue) and the list of all threads (global_thread_list) have the   *)
(* same operations on different link fields of struct Kernel_Thread, so    *)
(* one set of operators models both.  A list is the record of its head,    *)
(* its tail and the two link fields of EVERY thread: the links of a thread *)
(* that is not on the list keep the values they were left with, because    *)
(* the code never clears them.                                             *)
(***************************************************************************)
EXTENDS Naturals

NULL == 0   \* a null pointer; threads and list nodes are numbered from 1

ListType(N) == [head : N \cup {NULL}, tail : N \cup {NULL},
                next : [N -> N \cup {NULL}], prev : [N -> N \cup {NULL}]]

EmptyList(N) == [head |-> NULL, tail |-> NULL,
                 next |-> [n \in N |-> NULL], prev |-> [n \in N |-> NULL]]

(* Mutants of AppendNode: the backward link is forgotten; the node goes to *)
(* the front, as insert_run_queue would put it.                            *)
AppendNodeOneWay(l, n) ==
    IF l.tail = NULL
    THEN [l EXCEPT !.head = n, !.tail = n, !.next[n] = NULL, !.prev[n] = NULL]
    ELSE [l EXCEPT !.tail = n, !.next = [[@ EXCEPT ![n] = NULL] EXCEPT ![l.tail] = n]]

InsertNode(l, n) ==
    IF l.head = NULL
    THEN [l EXCEPT !.head = n, !.tail = n, !.next[n] = NULL, !.prev[n] = NULL]
    ELSE [l EXCEPT !.head = n, !.next[n] = l.head,
                   !.prev = [[@ EXCEPT ![n] = NULL] EXCEPT ![l.head] = n]]

(* append_run_queue, append_global_list_queue *)
AppendNode(l, n) ==
    IF l.tail = NULL
    THEN [head |-> n, tail |-> n,
          next |-> [l.next EXCEPT ![n] = NULL],
          prev |-> [l.prev EXCEPT ![n] = NULL]]
    ELSE [head |-> l.head, tail |-> n,
          next |-> [[l.next EXCEPT ![n] = NULL] EXCEPT ![l.tail] = n],
          prev |-> [l.prev EXCEPT ![n] = l.tail]]

(* remove_runnable_kthread, remove_alllist_kthread: the neighbours that n's *)
(* own links name are joined, whether or not n is on the list.              *)
RemoveNode(l, n) ==
    [head |-> IF l.prev[n] = NULL THEN l.next[n] ELSE l.head,
     tail |-> IF l.next[n] = NULL THEN l.prev[n] ELSE l.tail,
     next |-> IF l.prev[n] = NULL THEN l.next
              ELSE [l.next EXCEPT ![l.prev[n]] = l.next[n]],
     prev |-> IF l.next[n] = NULL THEN l.prev
              ELSE [l.prev EXCEPT ![l.next[n]] = l.prev[n]]]

(***************************************************************************)
(* A loop "while (crawl && !stop(crawl)) crawl = crawl->next": the nodes   *)
(* it looks at, as the least set that holds the first node and the         *)
(* successor of every node it does not stop at.                            *)
(***************************************************************************)
Covers(next, from, stop, S) ==
    /\ from # NULL => from \in S
    /\ \A n \in S \ stop : next[n] # NULL => next[n] \in S

Crawl(next, from, stop) ==
    LET covers == {S \in SUBSET DOMAIN next : Covers(next, from, stop, S)}
    IN  {n \in DOMAIN next : \A S \in covers : n \in S}

(* The loop ends: it finds a node to stop at or runs off the end of the list. *)
CrawlEnds(next, from, stop) ==
    \/ from = NULL
    \/ \E n \in Crawl(next, from, stop) : n \in stop \/ next[n] = NULL

(***************************************************************************)
(* What a well-formed list is: the nodes a loop from the head meets are    *)
(* linked both ways, and the head and the tail are its two ends.           *)
(***************************************************************************)
Members(l) == Crawl(l.next, l.head, {})

LinkedOver(l, M) ==
    /\ l.head = NULL <=> l.tail = NULL
    /\ l.head # NULL => l.head \in M /\ l.prev[l.head] = NULL
    /\ l.tail # NULL => l.tail \in M /\ l.next[l.tail] = NULL
    /\ \A n \in M :
          /\ n # l.tail => l.next[n] \in M /\ l.prev[l.next[n]] = n
          /\ n # l.head => l.prev[n] \in M /\ l.next[l.prev[n]] = n

WellLinked(l) == LinkedOver(l, Members(l))
=============================================================================
