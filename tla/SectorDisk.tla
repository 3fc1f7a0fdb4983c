----------------------------- MODULE SectorDisk -----------------------------
(***************************************************************************)
(* What the file system takes the disk driver for: one request at a time,  *)
(* which moves whole sectors between the disk and a buffer and succeeds    *)
(* exactly when it has moved all of them.  After a failure the disk never  *)
(* moves anything again.                                                   *)
(***************************************************************************)
EXTENDS Integers

CONSTANTS Offset, Data, Length

VARIABLES disk, read_buffer, write_buffer,
          call,          \* Idle, or the request being served
          broken,
          result         \* of the last request: 1 or 0

Idle == [op |-> "none"]
Count(op) == IF op = "write" THEN 2 ELSE 1

Write(o, v, n) ==
    /\ call = Idle
    /\ call' = [op |-> "write", offset |-> o, moved |-> 0]
    /\ write_buffer' = [i \in 0..1 |-> IF i < n THEN v ELSE write_buffer[i]]
    /\ UNCHANGED <<disk, read_buffer, broken, result>>

Read(o) ==
    /\ call = Idle
    /\ call' = [op |-> "read", offset |-> o, moved |-> 0]
    /\ UNCHANGED <<disk, read_buffer, write_buffer, broken, result>>

Move ==
    /\ call # Idle /\ ~ broken
    /\ call.moved < Count(call.op)
    /\ LET s == call.offset + call.moved
       IN  \/ /\ call.op = "write"
              /\ disk' = [disk EXCEPT ![s] = write_buffer[call.moved]]
              /\ UNCHANGED read_buffer
           \/ /\ call.op = "read"
              /\ read_buffer' = disk[s]
              /\ UNCHANGED disk
    /\ call' = [call EXCEPT !.moved = @ + 1]
    /\ UNCHANGED <<write_buffer, broken, result>>

Break ==
    /\ call # Idle /\ ~ broken
    /\ broken' = TRUE
    /\ UNCHANGED <<disk, read_buffer, write_buffer, call, result>>

Return ==
    /\ call # Idle
    /\ broken \/ call.moved = Count(call.op)
    /\ result' = IF broken THEN 0 ELSE 1
    /\ call' = Idle
    /\ UNCHANGED <<disk, read_buffer, write_buffer, broken>>

Init == call = Idle /\ ~ broken

Next ==
    \/ \E o \in Offset : Read(o) \/ \E v \in Data, n \in Length : Write(o, v, n)
    \/ Move \/ Break \/ Return

Spec == Init /\ [][Next]_<<disk, read_buffer, write_buffer, call, broken, result>>
=============================================================================
