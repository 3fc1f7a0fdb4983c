-------------------------------- MODULE Ahci --------------------------------
(***************************************************************************)
(* The disk driver (sys/ahci.c) and the controller it talks to through the *)
(* registers of a port: the set-up of the port, and requests that are      *)
(* issued in a command slot and waited for by polling PxCI and PxIS.       *)
(*                                                                         *)
(* A step of the driver is one access to a register, with the memory it    *)
(* touches up to the next one; the controller and the drive, which are     *)
(* external, work in between.  A buffer is a sector for reads and two for  *)
(* writes, which is what countl asks for.  Of PxIS only TFES is kept; the  *)
(* other bits are cleared where the code clears them and never read.       *)
(***************************************************************************)
EXTENDS Integers, FiniteSets, FiniteSetsExt

CONSTANTS LastSector, Offset,  \* sectors of the disk; those requested
          Data,                \* contents of a sector
          Length,              \* sectors of the buffer that a write fills
          Zeros,               \* contents of the sectors at the start
          NCS,                 \* command slots of the controller, less one
          PortType             \* what check_type finds at each port

Sectors == 0..LastSector
Slots == 0..NCS

VARIABLES port,          \* registers of port 0
          cmdtbl,        \* command header and table of every slot
          hba,           \* what the controller is doing
          disk,
          read_buffer, write_buffer,
          drv,           \* where the driver is, with its local variables
          result         \* what read_interface or write_interface returned
controller == <<port, hba, disk>>
memory == <<cmdtbl, read_buffer, write_buffer>>
vars == <<controller, memory, drv, result>>

NoCommand == [w |-> 0, lba |-> 0, count |-> 0]

(* Whatever the firmware has left of port 0: running or stopped. *)
Init ==
    /\ \E on \in BOOLEAN :
          port = [ci |-> {}, tfes |-> FALSE, st |-> on, fre |-> on, cr |-> on, fr |-> on]
    /\ cmdtbl = [s \in Slots |-> NoCommand]
    /\ hba = [at |-> "idle"]
    /\ disk = [s \in Sectors |-> Zeros]
    /\ read_buffer = Zeros /\ write_buffer = [i \in 0..1 |-> Zeros]
    /\ drv = [pc |-> "probe"]
    /\ result = 1

-----------------------------------------------------------------------------
(* The driver.  probe_port looks for a drive at every port, and sets port  *)
(* 0 up when it has found one.                                             *)
Goto(pc) == drv' = [drv EXCEPT !.pc = pc]

probe_port ==
    /\ drv.pc = "probe"
    /\ Goto(IF \E i \in DOMAIN PortType : PortType[i] = "SATA" THEN "stop" ELSE "idle")
    /\ UNCHANGED <<controller, memory, result>>

stop_cmd ==
    /\ UNCHANGED <<hba, disk, memory, result>>
    /\ \/ drv.pc = "stop" /\ port' = [port EXCEPT !.st = FALSE] /\ Goto("stop_fis")
       \/ drv.pc = "stop_fis" /\ port' = [port EXCEPT !.fre = FALSE] /\ Goto("stopping")

port_rebase ==
    /\ drv.pc = "stopping" /\ ~ port.fr /\ ~ port.cr
    /\ cmdtbl' = [s \in Slots |-> NoCommand]
    /\ Goto("start")
    /\ UNCHANGED <<controller, read_buffer, write_buffer, result>>

start_cmd ==
    /\ UNCHANGED <<hba, disk, memory, result>>
    /\ \/ drv.pc = "start" /\ ~ port.cr
          /\ port' = [port EXCEPT !.fre = TRUE] /\ Goto("start_engine")
       \/ drv.pc = "start_engine" /\ port' = [port EXCEPT !.st = TRUE] /\ Goto("idle")

Request(op, o) ==
    /\ drv.pc = "idle"
    /\ drv' = [pc |-> "clear", op |-> op, offset |-> o, slot |-> -1]
    /\ UNCHANGED <<controller, cmdtbl, read_buffer, result>>

(* The first n sectors of the buffer are overwritten, the rest stays. *)
write_disk(o, v, n) ==
    /\ Request("write", o)
    /\ write_buffer' = [i \in 0..1 |-> IF i < n THEN v ELSE write_buffer[i]]
read_disk(o) == Request("read", o) /\ UNCHANGED write_buffer

(* read_interface and write_interface: port->is = 0xffff does not reach    *)
(* TFES, bit 30.                                                           *)
clear_is_all ==                      \* mutant: TFES is cleared too
    /\ drv.pc = "clear"
    /\ port' = [port EXCEPT !.tfes = FALSE]
    /\ Goto("find")
    /\ UNCHANGED <<hba, disk, memory, result>>

clear_is ==
    /\ drv.pc = "clear"
    /\ Goto("find")
    /\ UNCHANGED <<controller, memory, result>>

Return(value) ==
    /\ result' = value
    /\ drv' = [pc |-> "idle"]
    /\ UNCHANGED <<controller, memory>>

num_of_slots == NCS % 16             \* four of the five bits of the field
FreeSlots == {i \in 0..num_of_slots - 1 : i \notin port.ci}

Command(op, o) == [w |-> IF op = "write" THEN 1 ELSE 0, lba |-> o,
                   count |-> IF op = "write" THEN 2 ELSE 1]

find_cmdslot ==
    /\ drv.pc = "find"
    /\ \/ FreeSlots = {} /\ Return(0)
       \/ /\ FreeSlots # {}
          /\ LET slot == Min(FreeSlots)
             IN  /\ cmdtbl' = [cmdtbl EXCEPT ![slot] = Command(drv.op, drv.offset)]
                 /\ drv' = [drv EXCEPT !.pc = "issue", !.slot = slot]
          /\ UNCHANGED <<controller, read_buffer, write_buffer, result>>

issue ==
    /\ drv.pc = "issue"
    /\ port' = [port EXCEPT !.ci = @ \cup {drv.slot}]
    /\ Goto("poll_ci")
    /\ UNCHANGED <<hba, disk, memory, result>>

poll_ci_any ==                       \* mutant: the bit of the slot is not looked at
    /\ drv.pc = "poll_ci"
    /\ Goto("again")
    /\ UNCHANGED <<controller, memory, result>>

poll_ci ==
    /\ drv.pc = "poll_ci"
    /\ Goto(IF drv.slot \notin port.ci THEN "again" ELSE "poll_is")
    /\ UNCHANGED <<controller, memory, result>>

poll_is ==
    /\ drv.pc = "poll_is"
    /\ \/ port.tfes /\ Return(0)
       \/ ~ port.tfes /\ Goto("poll_ci") /\ UNCHANGED <<controller, memory, result>>

check_again ==
    /\ drv.pc = "again"
    /\ Return(IF port.tfes THEN 0 ELSE 1)

init_ahci == probe_port \/ stop_cmd \/ port_rebase \/ start_cmd
interface == clear_is \/ find_cmdslot \/ issue \/ poll_ci \/ poll_is \/ check_again

-----------------------------------------------------------------------------
(* The controller: its engines follow ST and FRE; it fetches a command     *)
(* that has been issued, moves its sectors, and clears its bit of PxCI.    *)
(* On an error it sets TFES and does nothing until ST is cleared.          *)
Engine ==
    /\ \/ port.cr # port.st /\ port' = [port EXCEPT !.cr = port.st]
       \/ port.fr # port.fre /\ port' = [port EXCEPT !.fr = port.fre]
    /\ UNCHANGED <<hba, disk, memory, drv, result>>

Fetch ==
    /\ hba.at = "idle" /\ port.st /\ port.cr /\ PortType[0] = "SATA"
    /\ \E s \in port.ci : hba' = [at |-> "busy", slot |-> s, cmd |-> cmdtbl[s], moved |-> 0]
    /\ UNCHANGED <<port, disk, memory, drv, result>>

Transfer ==
    LET s == hba.cmd.lba + hba.moved
    IN  /\ hba.at = "busy" /\ hba.moved < hba.cmd.count /\ s \in Sectors
        /\ \/ /\ hba.cmd.w = 1
              /\ disk' = [disk EXCEPT ![s] = write_buffer[hba.moved]]
              /\ UNCHANGED read_buffer
           \/ /\ hba.cmd.w = 0
              /\ read_buffer' = disk[s]
              /\ UNCHANGED disk
        /\ hba' = [hba EXCEPT !.moved = @ + 1]
        /\ UNCHANGED <<port, cmdtbl, write_buffer, drv, result>>

Finish ==
    /\ hba.at = "busy" /\ hba.moved = hba.cmd.count
    /\ port' = [port EXCEPT !.ci = @ \ {hba.slot}]
    /\ hba' = [at |-> "idle"]
    /\ UNCHANGED <<disk, memory, drv, result>>

Fail ==
    /\ hba.at = "busy"
    /\ port' = [port EXCEPT !.tfes = TRUE]
    /\ hba' = [hba EXCEPT !.at = "error"]
    /\ UNCHANGED <<disk, memory, drv, result>>

OutOfRange == hba.at = "busy" /\ hba.cmd.lba + hba.moved \notin Sectors /\ Fail

Calls == \E o \in Offset : read_disk(o) \/ \E v \in Data, n \in Length : write_disk(o, v, n)
Driver == init_ahci \/ interface
Device == Engine \/ Fetch \/ Transfer \/ Finish \/ Fail

Next == Calls \/ Driver \/ Device

Spec == Init /\ [][Next]_vars

-----------------------------------------------------------------------------
(* How far the request being served has come. *)
Requesting == drv.pc \in {"clear", "find", "issue", "poll_ci", "poll_is", "again"}
Moved ==
    IF drv.pc \in {"clear", "find", "issue"} THEN 0
    ELSE IF drv.slot \notin port.ci THEN Command(drv.op, drv.offset).count
    ELSE IF hba.at # "idle" /\ hba.slot = drv.slot THEN hba.moved ELSE 0

SD == INSTANCE SectorDisk
        WITH call <- IF Requesting
                     THEN [op |-> drv.op, offset |-> drv.offset, moved |-> Moved]
                     ELSE [op |-> "none"],
             broken <- hba.at = "error"

(* read_interface and write_interface return 1 exactly when the controller *)
(* has moved all the sectors of this request, whatever it was doing while  *)
(* they polled it; no other request and no left-over command touches the   *)
(* disk or the buffers; and after an error every request fails.            *)
DiskIsSectors == SD!Spec

(* Every call of the driver returns: the polling loops end, after an error *)
(* too, because TFES stays set and is seen again by every later request.   *)
EveryRequestReturns == drv.pc # "idle" ~> drv.pc = "idle"
=============================================================================
