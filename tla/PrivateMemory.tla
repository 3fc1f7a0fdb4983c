---------------------------- MODULE PrivateMemory ----------------------------
(***************************************************************************)
(* What processes may expect of their memory: a process sees its own       *)
(* writes and nobody else's, fork gives the child a copy, exec a fresh     *)
(* image.  AddressSpaces implements this with shared frames.               *)
(***************************************************************************)
EXTENDS Naturals

CONSTANTS Proc, Page, Value,
          NoPage,        \* the contents of a page that is not mapped
          Fresh,         \* the contents of a page mapped on demand
          First,         \* the process that exists at boot
          Image          \* the memory of a program that starts: [Page -> Value or NoPage]

VARIABLES mem, status,
          grown          \* the program and the pages mapped on demand, counted together

Nothing == [pg \in Page |-> NoPage]

Init ==
    /\ mem = [p \in Proc |-> IF p = First THEN Image ELSE Nothing]
    /\ status = [p \in Proc |-> IF p = First THEN "alive" ELSE "unborn"]
    /\ grown = [p \in Proc |-> 1]

Write(p, pg, v) ==
    /\ status[p] = "alive" /\ mem[p][pg] # NoPage
    /\ mem' = [mem EXCEPT ![p][pg] = v]
    /\ UNCHANGED <<status, grown>>

Fork(p, q) ==
    /\ status[p] = "alive" /\ status[q] = "unborn"
    /\ mem' = [mem EXCEPT ![q] = mem[p]]
    /\ status' = [status EXCEPT ![q] = "alive"]
    /\ grown' = [grown EXCEPT ![q] = grown[p]]

Exec(p) ==
    /\ status[p] = "alive"
    /\ mem' = [mem EXCEPT ![p] = Image]
    /\ grown' = [grown EXCEPT ![p] = 1]
    /\ UNCHANGED status

(* On demand, and counted, a process gets a fresh page in its own memory.  *)
(* That there was none before is not promised (GrowthKeepsPages of         *)
(* AddressSpaces), nor that the page is one of the process's.              *)
Map(p) ==
    /\ status[p] = "alive"
    /\ \/ \E pg \in Page : mem' = [mem EXCEPT ![p][pg] = Fresh]
       \/ UNCHANGED mem
    /\ grown' = [grown EXCEPT ![p] = @ + 1]
    /\ UNCHANGED status

Stop(p) ==
    /\ status[p] = "alive"
    /\ status' = [status EXCEPT ![p] = "dead"]
    /\ UNCHANGED <<mem, grown>>

Next ==
    \E p \in Proc :
        \/ \E pg \in Page, v \in Value : Write(p, pg, v)
        \/ \E q \in Proc : Fork(p, q)
        \/ Exec(p)
        \/ Map(p)
        \/ Stop(p)

Spec == Init /\ [][Next]_<<mem, status, grown>>
=============================================================================
