---------------------------- MODULE MachineProofs ----------------------------
(***************************************************************************)
(* The disk driver moves the sectors it is asked for, however the drive,   *)
(* the interrupts and the system calls interleave; and the clock on the    *)
(* screen follows the ticks, for every modulus of total_ticks.             *)
(***************************************************************************)
EXTENDS Machine, FiniteSetTheorems, WellFoundedInduction, TLAPS

(* find_cmdslot has a slot to look at: NCS % 16 is what it reads of the    *)
(* number of slots, less one, of the controller.                           *)
SomeSlot == NCS % 16 # 0

Polling == {"poll_ci", "poll_is"}
Serving == Polling \cup {"clear", "find", "issue", "again"}
Setup == {"probe", "stop", "stop_fis", "stopping", "start", "start_engine", "idle"}
CommandType == [w : {0, 1}, lba : Offset \cup {0}, count : 0..2]

DriverOK ==
    \/ drv \in [pc : Setup]
    \/ drv \in [pc : Serving, op : {"read", "write"}, offset : Offset,
                slot : {-1} \cup A!Slots]

PortOK ==
    /\ port \in [ci : SUBSET A!Slots, tfes : BOOLEAN, st : BOOLEAN, fre : BOOLEAN,
                 cr : BOOLEAN, fr : BOOLEAN]
    /\ cmdtbl \in [A!Slots -> CommandType]

(* TFES is up exactly when the controller has stopped on an error, and the *)
(* command it works on or stopped at has its bit in PxCI.                  *)
ControllerOK ==
    /\ \/ hba = [at |-> "idle"]
       \/ hba \in [at : {"busy", "error"}, slot : A!Slots, cmd : CommandType, moved : 0..2]
    /\ port.tfes <=> hba.at = "error"
    /\ hba.at # "idle" => hba.slot \in port.ci

(* The request being served is the only command there is, until an error   *)
(* leaves one behind; the driver never takes the slot of that one.         *)
ServingOK ==
    /\ drv.pc \in {"issue", "poll_ci", "poll_is"} =>
          drv.slot \in A!Slots /\ cmdtbl[drv.slot] = A!Command(drv.op, drv.offset)
    /\ drv.pc \in {"issue", "again"} => drv.slot \notin port.ci
    /\ hba.at = "idle" => \A s \in port.ci : drv.pc \in Polling /\ s = drv.slot
    /\ hba.at = "busy" =>
          /\ drv.pc \in Polling /\ hba.slot = drv.slot
          /\ \A s \in port.ci : s = drv.slot
          /\ hba.cmd = A!Command(drv.op, drv.offset) /\ hba.moved <= hba.cmd.count
    /\ hba.at = "error" => drv.pc # "again" /\ (drv.pc \in Polling => drv.slot \in port.ci)

DiskInv == DriverOK /\ PortOK /\ ControllerOK /\ ServingOK

SDvars == <<disk, read_buffer, write_buffer,
            IF A!Requesting THEN [op |-> drv.op, offset |-> drv.offset, moved |-> A!Moved]
                            ELSE [op |-> "none"],
            hba.at = "error", result>>

LEMMA ConstantFacts ==
    /\ NCS \in Nat /\ A!num_of_slots \in 0..NCS
    /\ SomeSlot => A!num_of_slots > 0
<1>1. NCS \in Nat
  BY MachineAssumption
<1> QED BY <1>1 DEF A!num_of_slots, SomeSlot

LEMMA DiskInit == A!Init => DiskInv /\ A!SD!Init
<1> SUFFICES ASSUME A!Init PROVE DiskInv /\ A!SD!Init
  OBVIOUS
<1>1. DriverOK /\ PortOK
  BY DEF A!Init, DriverOK, PortOK, Setup, CommandType, A!NoCommand
<1>2. ControllerOK /\ ServingOK
  BY DEF A!Init, ControllerOK, ServingOK, Polling
<1>3. A!SD!Init
  BY DEF A!Init, A!SD!Init, A!Requesting, A!SD!Idle
<1> QED BY <1>1, <1>2, <1>3 DEF DiskInv

-----------------------------------------------------------------------------
(* Setting the port up: nothing has been issued yet. *)
LEMMA SetupKeeps ==
    ASSUME DiskInv, A!init_ahci
    PROVE  DiskInv' /\ UNCHANGED SDvars
<1>1. PICK x \in Setup, y \in Setup : drv.pc = x /\ drv' = [drv EXCEPT !.pc = y]
  BY DEF A!init_ahci, A!probe_port, A!stop_cmd, A!port_rebase, A!start_cmd, A!Goto, Setup
<1>2. drv \in [pc : Setup] /\ drv' \in [pc : Setup] /\ drv.pc \in Setup /\ drv'.pc \in Setup
  BY <1>1 DEF DiskInv, DriverOK, Serving, Setup, Polling
<1>3. /\ UNCHANGED <<hba, disk, read_buffer, write_buffer, result>>
      /\ port' \in [ci : SUBSET A!Slots, tfes : BOOLEAN, st : BOOLEAN, fre : BOOLEAN,
                    cr : BOOLEAN, fr : BOOLEAN]
      /\ port'.ci = port.ci /\ (port'.tfes <=> port.tfes)
      /\ cmdtbl' \in [A!Slots -> CommandType]
  <2>1. CASE A!probe_port
    BY <2>1 DEF A!probe_port, A!controller, A!memory, DiskInv, PortOK
  <2>2. CASE A!stop_cmd
    BY Zenon, <2>2 DEF A!stop_cmd, A!memory, DiskInv, PortOK
  <2>3. CASE A!port_rebase
    <3>1. A!NoCommand \in CommandType
      BY DEF A!NoCommand, CommandType
    <3> QED BY <2>3, <3>1 DEF A!port_rebase, A!controller, DiskInv, PortOK
  <2>4. CASE A!start_cmd
    BY Zenon, <2>4 DEF A!start_cmd, A!memory, DiskInv, PortOK
  <2> QED BY <2>1, <2>2, <2>3, <2>4 DEF A!init_ahci
<1>4. DriverOK' /\ PortOK'
  BY <1>2, <1>3 DEF DriverOK, PortOK
<1>5. ControllerOK'
  BY <1>3 DEF DiskInv, ControllerOK
<1>6. ServingOK'
  BY <1>2, <1>3 DEF DiskInv, ServingOK, Setup, Polling
<1>7. ~ A!Requesting /\ ~ A!Requesting'
  BY <1>2 DEF A!Requesting, Setup
<1> QED BY <1>3, <1>4, <1>5, <1>6, <1>7 DEF DiskInv, SDvars

(* read_disk and write_disk *)
LEMMA CallKeeps ==
    ASSUME DiskInv, A!Calls
    PROVE  DiskInv' /\ A!SD!Next
<1>1. PICK o \in Offset : A!read_disk(o) \/ \E v \in Data, n \in Length : A!write_disk(o, v, n)
  BY DEF A!Calls
<1>2. PICK op \in {"read", "write"} :
          drv.pc = "idle" /\ drv' = [pc |-> "clear", op |-> op, offset |-> o, slot |-> -1]
  BY <1>1 DEF A!read_disk, A!write_disk, A!Request
<1>3. UNCHANGED <<port, hba, disk, cmdtbl, read_buffer, result>>
  BY <1>1 DEF A!read_disk, A!write_disk, A!Request, A!controller
<1>4. DriverOK' /\ PortOK'
  BY <1>2, <1>3 DEF DiskInv, DriverOK, PortOK, Serving
<1>5. ControllerOK'
  BY <1>3 DEF DiskInv, ControllerOK
<1>6. ServingOK'
  BY <1>2, <1>3 DEF DiskInv, ServingOK, Polling
<1>7. CASE A!read_disk(o)
  <2>1. A!SD!Read(o)
    BY <1>3, <1>7 DEF A!read_disk, A!Request, A!SD!Read, A!SD!Idle, A!Requesting, A!Moved
  <2> QED BY <2>1, <1>4, <1>5, <1>6 DEF DiskInv, A!SD!Next
<1>8. ASSUME NEW v \in Data, NEW n \in Length, A!write_disk(o, v, n)
      PROVE  DiskInv' /\ A!SD!Next
  <2>1. A!SD!Write(o, v, n)
    BY <1>3, <1>8 DEF A!write_disk, A!Request, A!SD!Write, A!SD!Idle, A!Requesting, A!Moved
  <2> QED BY <2>1, <1>4, <1>5, <1>6 DEF DiskInv, A!SD!Next
<1> QED BY <1>1, <1>7, <1>8

(* What the driver knows of its request while it serves it *)
LEMMA RequestFacts ==
    ASSUME DiskInv, drv.pc \in Serving
    PROVE  /\ drv \in [pc : Serving, op : {"read", "write"}, offset : Offset,
                       slot : {-1} \cup A!Slots]
           /\ A!Requesting
  BY DEF DiskInv, DriverOK, Serving, Setup, Polling, A!Requesting

(* A step that only moves the driver on *)
LEMMA GotoKeeps ==
    ASSUME DiskInv, drv.pc \in Serving, NEW y \in Serving, drv' = [drv EXCEPT !.pc = y],
           UNCHANGED <<port, hba, disk, cmdtbl, read_buffer, write_buffer, result>>
    PROVE  /\ drv'.op = drv.op /\ drv'.offset = drv.offset /\ drv'.slot = drv.slot
           /\ drv'.pc = y /\ DriverOK' /\ PortOK' /\ ControllerOK'
           /\ A!Requesting /\ A!Requesting'
<1>1. /\ drv \in [pc : Serving, op : {"read", "write"}, offset : Offset,
                   slot : {-1} \cup A!Slots]
      /\ A!Requesting
  BY RequestFacts
<1>2. /\ drv' \in [pc : Serving, op : {"read", "write"}, offset : Offset,
                    slot : {-1} \cup A!Slots]
      /\ drv'.op = drv.op /\ drv'.offset = drv.offset /\ drv'.slot = drv.slot
      /\ drv'.pc = y
  BY <1>1
<1>3. PortOK' /\ ControllerOK'
  BY DEF DiskInv, PortOK, ControllerOK
<1>4. A!Requesting'
  BY <1>2 DEF A!Requesting, Serving, Polling
<1> QED BY <1>1, <1>2, <1>3, <1>4 DEF DriverOK

(* The driver returns when the controller is idle with nothing left, or    *)
(* has stopped on an error.                                                *)
LEMMA ReturnKeeps ==
    ASSUME DiskInv, drv.pc \in Serving, NEW value, A!Return(value),
           hba.at # "busy", hba.at = "idle" => port.ci = {},
           hba.at = "error" \/ A!Moved = A!SD!Count(drv.op),
           value = IF hba.at = "error" THEN 0 ELSE 1
    PROVE  DiskInv' /\ A!SD!Next
<1>1. /\ drv \in [pc : Serving, op : {"read", "write"}, offset : Offset,
                   slot : {-1} \cup A!Slots]
      /\ A!Requesting
  BY RequestFacts
<1>2. /\ result' = value /\ drv' = [pc |-> "idle"]
      /\ UNCHANGED <<port, hba, disk, cmdtbl, read_buffer, write_buffer>>
  BY DEF A!Return, A!controller, A!memory
<1>3. DriverOK' /\ PortOK' /\ ControllerOK' /\ ~ A!Requesting'
  BY <1>2 DEF DiskInv, DriverOK, Setup, PortOK, ControllerOK, A!Requesting
<1>4. ServingOK'
  BY <1>2 DEF DiskInv, ControllerOK, ServingOK, Polling
<1>5. A!SD!Return
  BY <1>1, <1>2, <1>3 DEF A!SD!Return, A!SD!Idle
<1> QED BY <1>3, <1>4, <1>5 DEF DiskInv, A!SD!Next

LEMMA ClearKeeps ==
    ASSUME DiskInv, A!clear_is
    PROVE  DiskInv' /\ UNCHANGED SDvars
<1>1. /\ drv.pc = "clear" /\ drv' = [drv EXCEPT !.pc = "find"]
      /\ UNCHANGED <<port, hba, disk, cmdtbl, read_buffer, write_buffer, result>>
  BY DEF A!clear_is, A!Goto, A!controller, A!memory
<1>2. /\ drv'.op = drv.op /\ drv'.offset = drv.offset /\ drv'.slot = drv.slot
      /\ drv'.pc = "find" /\ DriverOK' /\ PortOK' /\ ControllerOK'
      /\ A!Requesting /\ A!Requesting'
  BY <1>1, GotoKeeps DEF Serving
<1>3. ServingOK'
  BY <1>1, <1>2 DEF DiskInv, ServingOK, Polling
<1>4. A!Moved' = A!Moved
  BY <1>1, <1>2 DEF A!Moved
<1> QED BY <1>1, <1>2, <1>3, <1>4 DEF DiskInv, SDvars

LEMMA PollCiKeeps ==
    ASSUME DiskInv, A!poll_ci
    PROVE  DiskInv' /\ UNCHANGED SDvars
<1>1. PICK y \in {"again", "poll_is"} :
      /\ drv.pc = "poll_ci" /\ drv' = [drv EXCEPT !.pc = y]
      /\ y = IF drv.slot \notin port.ci THEN "again" ELSE "poll_is"
      /\ UNCHANGED <<port, hba, disk, cmdtbl, read_buffer, write_buffer, result>>
  BY DEF A!poll_ci, A!Goto, A!controller, A!memory
<1>2. /\ drv'.op = drv.op /\ drv'.offset = drv.offset /\ drv'.slot = drv.slot
      /\ drv'.pc = y /\ DriverOK' /\ PortOK' /\ ControllerOK'
      /\ A!Requesting /\ A!Requesting'
  BY <1>1, GotoKeeps DEF Serving, Polling
<1>3. ServingOK'
  BY <1>1, <1>2 DEF DiskInv, ServingOK, ControllerOK, Polling
<1>4. A!Moved' = A!Moved
  BY <1>1, <1>2 DEF A!Moved, A!Command
<1> QED BY <1>1, <1>2, <1>3, <1>4 DEF DiskInv, SDvars

LEMMA PollIsKeeps ==
    ASSUME DiskInv, A!poll_is
    PROVE  DiskInv' /\ [A!SD!Next]_SDvars
<1>1. drv.pc = "poll_is" /\ drv.pc \in Serving
  BY DEF A!poll_is, Serving, Polling
<1>2. CASE port.tfes
  <2>1. A!Return(0) /\ hba.at = "error"
    BY <1>2 DEF A!poll_is, DiskInv, ControllerOK
  <2> QED BY <1>1, <2>1, ReturnKeeps
<1>3. CASE ~ port.tfes
  <2>1. /\ drv' = [drv EXCEPT !.pc = "poll_ci"]
        /\ UNCHANGED <<port, hba, disk, cmdtbl, read_buffer, write_buffer, result>>
    BY <1>3 DEF A!poll_is, A!Goto, A!controller, A!memory
  <2>2. /\ drv'.op = drv.op /\ drv'.offset = drv.offset /\ drv'.slot = drv.slot
        /\ drv'.pc = "poll_ci" /\ DriverOK' /\ PortOK' /\ ControllerOK'
        /\ A!Requesting /\ A!Requesting'
    BY <1>1, <2>1, GotoKeeps DEF Serving, Polling
  <2>3. ServingOK'
    BY <1>1, <2>1, <2>2 DEF DiskInv, ServingOK, Polling
  <2>4. A!Moved' = A!Moved
    BY <1>1, <2>1, <2>2 DEF A!Moved, A!Command
  <2> QED BY <2>1, <2>2, <2>3, <2>4 DEF DiskInv, SDvars
<1> QED BY <1>2, <1>3

LEMMA AgainKeeps ==
    ASSUME DiskInv, A!check_again
    PROVE  DiskInv' /\ A!SD!Next
<1>1. /\ drv.pc = "again" /\ drv.pc \in Serving
      /\ A!Return(IF port.tfes THEN 0 ELSE 1)
  BY DEF A!check_again, Serving
<1>2. hba.at = "idle" /\ port.ci = {} /\ ~ port.tfes /\ drv.slot \notin port.ci
  BY <1>1 DEF DiskInv, ControllerOK, ServingOK, Polling
<1>3. A!Moved = A!SD!Count(drv.op)
  BY <1>1, <1>2 DEF A!Moved, A!Command, A!SD!Count
<1> QED BY <1>1, <1>2, <1>3, ReturnKeeps

(* Min of a set of numbers up to n, as find_cmdslot uses it *)
LEMMA MinIn ==
    ASSUME NEW n \in Nat, NEW S \in SUBSET (0..n), S # {}
    PROVE  A!Min(S) \in S
<1> DEFINE Below(k) == 0..k - 1
           T == {Below(k) : k \in S}
<1>1. T \subseteq FiniteSubsetsOf(0..n) /\ T # {}
  <2>1. \A k \in S : Below(k) \in SUBSET (0..n)
    OBVIOUS
  <2>2. \A k \in S : IsFiniteSet(Below(k))
    BY FS_Interval
  <2> QED BY Zenon, <2>1, <2>2 DEF FiniteSubsetsOf
<1>2. PICK x \in T : \A y \in T : ~ (<<y, x>> \in StrictSubsetOrdering(0..n))
  <2> HIDE DEF T
  <2> QED BY <1>1, FS_StrictSubsetOrderingWellFounded, WFMin, Zenon
<1>3. PICK k \in S : x = Below(k)
  OBVIOUS
<1>4. \A j \in S : k <= j
  <2> SUFFICES ASSUME NEW j \in S, j < k PROVE FALSE
    OBVIOUS
  <2>1. Below(j) \subseteq Below(k) /\ j \in Below(k) /\ j \notin Below(j)
    OBVIOUS
  <2>2. Below(j) \in SUBSET (0..n) /\ Below(k) \in SUBSET (0..n)
    OBVIOUS
  <2>3. <<Below(j), Below(k)>> \in StrictSubsetOrdering(0..n)
    <3> HIDE DEF Below
    <3> QED BY <2>1, <2>2 DEF StrictSubsetOrdering
  <2> QED BY Zenon, <1>2, <1>3, <2>3
<1> QED BY Zenon, <1>4 DEF A!Min

(* A slot is taken that no command is in; there is none only after errors. *)
LEMMA FindKeeps ==
    ASSUME SomeSlot, DiskInv, A!find_cmdslot
    PROVE  DiskInv' /\ [A!SD!Next]_SDvars
<1>1. drv.pc = "find" /\ drv.pc \in Serving
  BY DEF A!find_cmdslot, Serving
<1>2. /\ drv \in [pc : Serving, op : {"read", "write"}, offset : Offset,
                   slot : {-1} \cup A!Slots]
      /\ A!Requesting
  BY <1>1, RequestFacts
<1>3. CASE A!FreeSlots = {}
  <2>1. A!Return(0)
    BY <1>3 DEF A!find_cmdslot
  <2>2. 0 \in port.ci
    BY <1>3, ConstantFacts DEF A!FreeSlots
  <2>3. hba.at = "error"
    BY <1>1, <2>2 DEF DiskInv, ControllerOK, ServingOK, Polling
  <2> QED BY <1>1, <2>1, <2>3, ReturnKeeps
<1>4. CASE A!FreeSlots # {}
  <2> DEFINE slot == A!Min(A!FreeSlots)
  <2>1. slot \in A!FreeSlots
    <3>1. NCS \in Nat /\ A!FreeSlots \in SUBSET (0..NCS)
      BY ConstantFacts DEF A!FreeSlots
    <3> QED BY <1>4, <3>1, MinIn
  <2>2. slot \in A!Slots /\ slot \notin port.ci
    BY <2>1, ConstantFacts DEF A!FreeSlots, A!Slots
  <2>3. /\ cmdtbl' = [cmdtbl EXCEPT ![slot] = A!Command(drv.op, drv.offset)]
        /\ drv' = [drv EXCEPT !.pc = "issue", !.slot = slot]
        /\ UNCHANGED <<port, hba, disk, read_buffer, write_buffer, result>>
    BY <1>4 DEF A!find_cmdslot, A!controller
  <2> HIDE DEF slot
  <2>4. /\ drv' \in [pc : Serving, op : {"read", "write"}, offset : Offset,
                      slot : {-1} \cup A!Slots]
        /\ drv'.op = drv.op /\ drv'.offset = drv.offset /\ drv'.slot = slot
        /\ drv'.pc = "issue"
    BY Zenon, <1>2, <2>2, <2>3 DEF Serving
  <2>5. A!Command(drv.op, drv.offset) \in CommandType
    BY <1>2 DEF A!Command, CommandType
  <2>6. DriverOK' /\ PortOK' /\ ControllerOK' /\ A!Requesting'
    BY <2>2, <2>3, <2>4, <2>5 DEF DiskInv, DriverOK, PortOK, ControllerOK, A!Requesting
  <2>7. cmdtbl'[slot] = A!Command(drv.op, drv.offset)
    BY <2>2, <2>3 DEF DiskInv, PortOK
  <2>8. ServingOK'
    BY <1>1, <2>2, <2>3, <2>4, <2>7 DEF DiskInv, ServingOK, Polling, A!Command
  <2>9. A!Moved' = A!Moved
    BY <1>1, <2>4 DEF A!Moved
  <2> QED BY <1>2, <2>3, <2>4, <2>6, <2>8, <2>9 DEF DiskInv, SDvars
<1> QED BY <1>3, <1>4

LEMMA IssueKeeps ==
    ASSUME DiskInv, A!issue
    PROVE  DiskInv' /\ UNCHANGED SDvars
<1>1. /\ drv.pc = "issue" /\ drv' = [drv EXCEPT !.pc = "poll_ci"]
      /\ port' = [port EXCEPT !.ci = port.ci \cup {drv.slot}]
      /\ UNCHANGED <<hba, disk, cmdtbl, read_buffer, write_buffer, result>>
  BY DEF A!issue, A!Goto, A!memory
<1>2. /\ drv \in [pc : Serving, op : {"read", "write"}, offset : Offset,
                   slot : {-1} \cup A!Slots]
      /\ A!Requesting
  BY <1>1, RequestFacts DEF Serving
<1>3. /\ drv' \in [pc : Serving, op : {"read", "write"}, offset : Offset,
                    slot : {-1} \cup A!Slots]
      /\ drv'.op = drv.op /\ drv'.offset = drv.offset /\ drv'.slot = drv.slot
      /\ drv'.pc = "poll_ci" /\ A!Requesting'
  BY <1>1, <1>2 DEF Serving, Polling, A!Requesting
<1>4. drv.slot \in A!Slots /\ drv.slot \notin port.ci
  BY <1>1 DEF DiskInv, ServingOK
<1>5. /\ port' \in [ci : SUBSET A!Slots, tfes : BOOLEAN, st : BOOLEAN, fre : BOOLEAN,
                     cr : BOOLEAN, fr : BOOLEAN]
      /\ port'.ci = port.ci \cup {drv.slot} /\ (port'.tfes <=> port.tfes)
  BY <1>1, <1>4 DEF DiskInv, PortOK
<1>6. DriverOK' /\ PortOK'
  BY <1>1, <1>3, <1>5 DEF DiskInv, DriverOK, PortOK
<1>7. ControllerOK'
  BY <1>1, <1>5 DEF DiskInv, ControllerOK
<1>8. ServingOK'
  BY <1>1, <1>3, <1>4, <1>5 DEF DiskInv, ServingOK, Polling, A!Command
<1>9. A!Moved' = A!Moved
  BY <1>1, <1>3, <1>4, <1>5 DEF DiskInv, ControllerOK, A!Moved
<1> QED BY <1>1, <1>2, <1>3, <1>6, <1>7, <1>8, <1>9 DEF DiskInv, SDvars

-----------------------------------------------------------------------------
(* The controller and the drive *)
LEMMA EngineKeeps ==
    ASSUME DiskInv, A!Engine
    PROVE  DiskInv' /\ UNCHANGED SDvars
<1>1. UNCHANGED <<hba, disk, cmdtbl, read_buffer, write_buffer, drv, result>>
  BY DEF A!Engine, A!memory
<1>2. /\ port' \in [ci : SUBSET A!Slots, tfes : BOOLEAN, st : BOOLEAN, fre : BOOLEAN,
                     cr : BOOLEAN, fr : BOOLEAN]
      /\ port'.ci = port.ci /\ (port'.tfes <=> port.tfes)
  BY DEF A!Engine, DiskInv, PortOK
<1>3. DriverOK' /\ PortOK' /\ ControllerOK'
  BY <1>1, <1>2 DEF DiskInv, DriverOK, PortOK, ControllerOK
<1>4. ServingOK'
  BY <1>1, <1>2 DEF DiskInv, ServingOK, A!Command
<1>5. A!Moved' = A!Moved /\ A!Requesting' = A!Requesting
  BY <1>1, <1>2 DEF A!Moved, A!Requesting, A!Command
<1> QED BY <1>1, <1>3, <1>4, <1>5 DEF DiskInv, SDvars

(* The command it fetches is that of the request being served. *)
LEMMA FetchKeeps ==
    ASSUME DiskInv, A!Fetch
    PROVE  DiskInv' /\ UNCHANGED SDvars
<1>1. PICK s \in port.ci :
          hba' = [at |-> "busy", slot |-> s, cmd |-> cmdtbl[s], moved |-> 0]
  BY DEF A!Fetch
<1>2. /\ hba.at = "idle"
      /\ UNCHANGED <<port, disk, cmdtbl, read_buffer, write_buffer, drv, result>>
  BY DEF A!Fetch, A!memory
<1>3. /\ drv.pc \in Polling /\ s = drv.slot /\ s \in A!Slots
      /\ cmdtbl[s] = A!Command(drv.op, drv.offset) /\ cmdtbl[s] \in CommandType
      /\ cmdtbl[s].count \in 0..2 /\ \A x \in port.ci : x = drv.slot
  BY <1>2 DEF DiskInv, ServingOK, PortOK, Polling, CommandType
<1>4. hba' \in [at : {"busy", "error"}, slot : A!Slots, cmd : CommandType, moved : 0..2]
  BY <1>1, <1>3
<1>5. DriverOK' /\ PortOK'
  BY <1>2 DEF DiskInv, DriverOK, PortOK
<1>6. ControllerOK'
  BY <1>1, <1>2, <1>4 DEF DiskInv, ControllerOK
<1>7. ServingOK'
  BY <1>1, <1>2, <1>3 DEF DiskInv, ServingOK, Polling, A!Command
<1>8. A!Moved' = A!Moved /\ A!Requesting' = A!Requesting
  BY <1>1, <1>2, <1>3 DEF A!Moved, A!Requesting, Polling
<1> QED BY <1>1, <1>2, <1>5, <1>6, <1>7, <1>8 DEF DiskInv, SDvars

(* What is known of a controller that works *)
LEMMA BusyFacts ==
    ASSUME DiskInv, hba.at = "busy"
    PROVE  /\ hba \in [at : {"busy", "error"}, slot : A!Slots, cmd : CommandType,
                       moved : 0..2]
           /\ drv.pc \in Polling /\ hba.slot = drv.slot /\ drv.slot \in port.ci
           /\ \A s \in port.ci : s = drv.slot
           /\ hba.cmd = A!Command(drv.op, drv.offset)
           /\ drv.op \in {"read", "write"}
           /\ hba.cmd.lba = drv.offset /\ hba.cmd.count = A!SD!Count(drv.op)
           /\ (hba.cmd.w = 1 <=> drv.op = "write") /\ (hba.cmd.w = 0 <=> drv.op = "read")
           /\ hba.moved <= hba.cmd.count
           /\ A!Requesting /\ A!Moved = hba.moved /\ ~ port.tfes
<1>1. /\ hba \in [at : {"busy", "error"}, slot : A!Slots, cmd : CommandType, moved : 0..2]
      /\ hba.slot \in port.ci /\ ~ port.tfes
  BY DEF DiskInv, ControllerOK
<1>2. /\ drv.pc \in Polling /\ hba.slot = drv.slot /\ \A s \in port.ci : s = drv.slot
      /\ hba.cmd = A!Command(drv.op, drv.offset) /\ hba.moved <= hba.cmd.count
  BY DEF DiskInv, ServingOK
<1>3. drv.op \in {"read", "write"} /\ A!Requesting
  BY <1>2, RequestFacts DEF Serving
<1>4. A!Moved = hba.moved
  BY <1>1, <1>2 DEF A!Moved, Polling
<1>5. /\ hba.cmd.lba = drv.offset /\ hba.cmd.count = A!SD!Count(drv.op)
      /\ (hba.cmd.w = 1 <=> drv.op = "write") /\ (hba.cmd.w = 0 <=> drv.op = "read")
  BY <1>2, <1>3 DEF A!Command, A!SD!Count
<1> QED BY <1>1, <1>2, <1>3, <1>4, <1>5

LEMMA TransferKeeps ==
    ASSUME DiskInv, A!Transfer
    PROVE  DiskInv' /\ A!SD!Next
<1>1. /\ hba.at = "busy" /\ hba.moved < hba.cmd.count
      /\ hba' = [hba EXCEPT !.moved = hba.moved + 1]
      /\ UNCHANGED <<port, cmdtbl, write_buffer, drv, result>>
  BY DEF A!Transfer
<1>2. /\ hba \in [at : {"busy", "error"}, slot : A!Slots, cmd : CommandType, moved : 0..2]
      /\ drv.pc \in Polling /\ hba.slot = drv.slot /\ drv.slot \in port.ci
      /\ \A s \in port.ci : s = drv.slot
      /\ hba.cmd = A!Command(drv.op, drv.offset)
      /\ drv.op \in {"read", "write"}
      /\ hba.cmd.lba = drv.offset /\ hba.cmd.count = A!SD!Count(drv.op)
      /\ (hba.cmd.w = 1 <=> drv.op = "write") /\ (hba.cmd.w = 0 <=> drv.op = "read")
      /\ A!Requesting /\ A!Moved = hba.moved /\ ~ port.tfes
  BY <1>1, BusyFacts
<1>3. hba.cmd.count \in 0..2
  BY <1>2 DEF CommandType
<1>4. /\ hba' \in [at : {"busy", "error"}, slot : A!Slots, cmd : CommandType, moved : 0..2]
      /\ hba'.at = "busy" /\ hba'.slot = hba.slot /\ hba'.cmd = hba.cmd
      /\ hba'.moved = hba.moved + 1 /\ hba'.moved <= hba'.cmd.count
  <2>1. hba.moved + 1 \in 0..2 /\ hba.moved + 1 <= hba.cmd.count
    BY <1>1, <1>2, <1>3
  <2> QED BY <1>1, <1>2, <2>1
<1>5. DriverOK' /\ PortOK'
  BY <1>1 DEF DiskInv, DriverOK, PortOK
<1>6. ControllerOK'
  BY <1>1, <1>2, <1>4 DEF DiskInv, ControllerOK
<1>7. ServingOK'
  BY <1>1, <1>2, <1>4 DEF DiskInv, ServingOK, A!Command
<1>8. A!Moved' = A!Moved + 1 /\ A!Requesting'
  BY <1>1, <1>2, <1>4 DEF A!Moved, A!Requesting, Polling
<1>9. A!SD!Move
  <2> DEFINE s == drv.offset + A!Moved
  <2>1. \/ /\ drv.op = "write"
           /\ disk' = [disk EXCEPT ![s] = write_buffer[A!Moved]]
           /\ UNCHANGED read_buffer
        \/ /\ drv.op = "read"
           /\ read_buffer' = disk[s]
           /\ UNCHANGED disk
    BY <1>2 DEF A!Transfer
  <2>2. A!Moved < A!SD!Count(drv.op)
    BY <1>1, <1>2
  <2> HIDE DEF s
  <2> QED BY <1>1, <1>2, <1>4, <1>8, <2>1, <2>2 DEF A!SD!Move, A!SD!Idle, s
<1> QED BY <1>5, <1>6, <1>7, <1>9 DEF DiskInv, A!SD!Next

LEMMA FinishKeeps ==
    ASSUME DiskInv, A!Finish
    PROVE  DiskInv' /\ UNCHANGED SDvars
<1>1. /\ hba.at = "busy" /\ hba.moved = hba.cmd.count /\ hba' = [at |-> "idle"]
      /\ port' = [port EXCEPT !.ci = port.ci \ {hba.slot}]
      /\ UNCHANGED <<disk, cmdtbl, read_buffer, write_buffer, drv, result>>
  BY DEF A!Finish, A!memory
<1>2. /\ drv.pc \in Polling /\ hba.slot = drv.slot /\ \A s \in port.ci : s = drv.slot
      /\ hba.cmd = A!Command(drv.op, drv.offset)
      /\ A!Requesting /\ A!Moved = hba.moved /\ ~ port.tfes
  BY <1>1, BusyFacts
<1>3. /\ port' \in [ci : SUBSET A!Slots, tfes : BOOLEAN, st : BOOLEAN, fre : BOOLEAN,
                     cr : BOOLEAN, fr : BOOLEAN]
      /\ port'.ci = port.ci \ {drv.slot} /\ (port'.tfes <=> port.tfes)
  BY <1>1, <1>2 DEF DiskInv, PortOK
<1>4. DriverOK' /\ PortOK'
  BY <1>1, <1>3 DEF DiskInv, DriverOK, PortOK
<1>5. ControllerOK'
  BY <1>1, <1>2, <1>3 DEF DiskInv, ControllerOK
<1>6. ServingOK'
  BY <1>1, <1>2, <1>3 DEF DiskInv, ServingOK, Polling, A!Command
<1>7. A!Moved' = A!Moved /\ A!Requesting'
  BY <1>1, <1>2, <1>3 DEF A!Moved, A!Requesting, Polling, A!Command
<1> QED BY <1>1, <1>2, <1>4, <1>5, <1>6, <1>7 DEF DiskInv, SDvars

LEMMA FailKeeps ==
    ASSUME DiskInv, A!Fail
    PROVE  DiskInv' /\ A!SD!Next
<1>1. /\ hba.at = "busy" /\ hba' = [hba EXCEPT !.at = "error"]
      /\ port' = [port EXCEPT !.tfes = TRUE]
      /\ UNCHANGED <<disk, cmdtbl, read_buffer, write_buffer, drv, result>>
  BY DEF A!Fail, A!memory
<1>2. /\ hba \in [at : {"busy", "error"}, slot : A!Slots, cmd : CommandType, moved : 0..2]
      /\ drv.pc \in Polling /\ hba.slot = drv.slot /\ drv.slot \in port.ci
      /\ drv.op \in {"read", "write"}
      /\ A!Requesting /\ A!Moved = hba.moved
  BY <1>1, BusyFacts
<1>3. /\ port' \in [ci : SUBSET A!Slots, tfes : BOOLEAN, st : BOOLEAN, fre : BOOLEAN,
                     cr : BOOLEAN, fr : BOOLEAN]
      /\ port'.ci = port.ci /\ port'.tfes
  BY Zenon, <1>1 DEF DiskInv, PortOK
<1>4. /\ hba' \in [at : {"busy", "error"}, slot : A!Slots, cmd : CommandType, moved : 0..2]
      /\ hba'.at = "error" /\ hba'.slot = hba.slot /\ hba'.moved = hba.moved
  BY <1>1, <1>2
<1>5. DriverOK' /\ PortOK'
  BY <1>1, <1>3 DEF DiskInv, DriverOK, PortOK
<1>6. ControllerOK'
  BY <1>2, <1>3, <1>4 DEF ControllerOK
<1>7. ServingOK'
  BY <1>1, <1>2, <1>3, <1>4 DEF DiskInv, ServingOK, Polling, A!Command
<1>8. A!Moved' = A!Moved /\ A!Requesting'
  BY <1>1, <1>2, <1>3, <1>4 DEF A!Moved, A!Requesting, Polling, A!Command
<1>9. A!SD!Break
  BY <1>1, <1>2, <1>4, <1>8 DEF A!SD!Break, A!SD!Idle
<1> QED BY <1>5, <1>6, <1>7, <1>9 DEF DiskInv, A!SD!Next

-----------------------------------------------------------------------------
(* The whole machine *)
LEMMA DiskSteps ==
    ASSUME SomeSlot, DiskInv, A!Calls \/ A!Driver \/ A!Device
    PROVE  DiskInv' /\ [A!SD!Next]_SDvars
  BY CallKeeps, SetupKeeps, ClearKeeps, FindKeeps, IssueKeeps, PollCiKeeps, PollIsKeeps,
     AgainKeeps, EngineKeeps, FetchKeeps, TransferKeeps, FinishKeeps, FailKeeps
     DEF A!Driver, A!interface, A!Device

LEMMA DiskStays ==
    ASSUME DiskInv, UNCHANGED diskVars
    PROVE  DiskInv' /\ UNCHANGED SDvars
<1>1. UNCHANGED <<port, cmdtbl, hba, disk, read_buffer, write_buffer, drv, result>>
  BY DEF diskVars
<1>2. DriverOK' /\ PortOK' /\ ControllerOK' /\ ServingOK'
  BY <1>1 DEF DiskInv, DriverOK, PortOK, ControllerOK, ServingOK, A!Command
<1>3. A!Requesting' = A!Requesting /\ A!Moved' = A!Moved
  BY <1>1 DEF A!Requesting, A!Moved, A!Command
<1> QED BY <1>1, <1>2, <1>3 DEF DiskInv, SDvars

LEMMA StepRefines ==
    ASSUME SomeSlot, DiskInv, [Next]_vars
    PROVE  DiskInv' /\ [A!SD!Next]_SDvars
<1>1. \/ A!Calls \/ A!Driver \/ A!Device
      \/ UNCHANGED diskVars
  BY DEF Next, vars, request, driver, device, do_exec, system_call, iretq, raise, irq,
         A!Device
<1> QED BY <1>1, DiskSteps, DiskStays

(* The driver, polling the controller with interrupts coming in between,   *)
(* behaves as a disk that serves one request at a time.  The controller    *)
(* must have a slot that find_cmdslot looks at: where the four bits it     *)
(* reads are zero it finds none, and every request fails.                  *)
THEOREM DriverImplementsSectorDisk ==
    ASSUME SomeSlot
    PROVE  Spec => DiskIsSectors
<1>1. Init => DiskInv /\ A!SD!Init
  BY DiskInit DEF Init
<1>2. DiskInv /\ [Next]_vars => DiskInv' /\ [A!SD!Next]_SDvars
  BY StepRefines
<1> QED BY <1>1, <1>2, PTL DEF Spec, DiskIsSectors, A!DiskIsSectors, A!SD!Spec, SDvars

-----------------------------------------------------------------------------
(* The clock *)
(* Division with remainder *)
LEMMA Euclid ==
    ASSUME NEW a \in Nat, NEW b \in Nat \ {0}
    PROVE  /\ a \div b \in Nat /\ a % b \in 0..b - 1
           /\ a = b * (a \div b) + (a % b)
  OBVIOUS

LEMMA TimesGrows ==
    ASSUME NEW b \in Nat, NEW x \in Int, NEW y \in Int, x <= y
    PROVE  b * x <= b * y
  OBVIOUS

(* The quotient is the only one. *)
LEMMA Quotient ==
    ASSUME NEW b \in Nat \ {0}, NEW q \in Nat, NEW r \in 0..b - 1, NEW a \in Nat,
           a = b * q + r
    PROVE  a \div b = q /\ a % b = r
<1> DEFINE p == a \div b
<1>1. p \in Nat /\ a % b \in 0..b - 1 /\ a = b * p + (a % b)
  BY Zenon, Euclid
<1> HIDE DEF p
<1>2. ~ (p < q)
  <2> SUFFICES ASSUME p + 1 <= q PROVE FALSE
    BY <1>1
  <2>1. b * (p + 1) <= b * q
    BY <1>1, TimesGrows
  <2>2. b * (p + 1) = b * p + b
    BY <1>1
  <2>3. b * p \in Int /\ b * q \in Int
    BY <1>1
  <2> QED BY <1>1, <2>1, <2>2, <2>3
<1>3. ~ (q < p)
  <2> SUFFICES ASSUME q + 1 <= p PROVE FALSE
    BY <1>1
  <2>1. b * (q + 1) <= b * p
    BY <1>1, TimesGrows
  <2>2. b * (q + 1) = b * q + b
    BY <1>1
  <2>3. b * p \in Int /\ b * q \in Int
    BY <1>1
  <2> QED BY <1>1, <2>1, <2>2, <2>3
<1>4. p = q
  BY <1>1, <1>2, <1>3
<1>5. b * p = b * q /\ b * p \in Int
  BY <1>1, <1>4
<1> QED BY <1>1, <1>4, <1>5 DEF p

LEMMA SmallRemainder ==
    ASSUME NEW b \in Nat \ {0}
    PROVE  b % b = 0 /\ \A r \in 0..b - 1 : r % b = r
<1>1. PICK z \in Nat : z = 0
  OBVIOUS
<1>2. PICK u \in Nat : u = 1
  OBVIOUS
<1>3. \A r \in 0..b - 1 : r = b * z + r /\ r \in Nat
  BY <1>1
<1>4. b = b * u + z /\ z \in 0..b - 1
  BY <1>1, <1>2
<1>5. b % b = z
  BY <1>2, <1>4, Quotient
<1>6. \A r \in 0..b - 1 : r % b = r
  BY <1>3, Quotient
<1> QED BY <1>1, <1>5, <1>6

(* One tick more *)
LEMMA NextRemainder ==
    ASSUME NEW b \in Nat \ {0}, NEW r \in Nat
    PROVE  \/ r % b = b - 1 /\ (r + 1) % b = 0
           \/ r % b # b - 1 /\ (r + 1) % b = (r % b) + 1 /\ (r + 1) % b # 0
<1> DEFINE q == r \div b
           x == r % b
<1>1. q \in Nat /\ x \in 0..b - 1 /\ r = b * q + x
  BY Zenon, Euclid
<1> HIDE DEF q, x
<1>2. b * q \in Nat /\ b * (q + 1) = b * q + b
  BY <1>1
<1>3. CASE x = b - 1
  <2>1. r + 1 = b * (q + 1) + 0 /\ q + 1 \in Nat /\ 0 \in 0..b - 1 /\ r + 1 \in Nat
    BY <1>1, <1>2, <1>3
  <2> QED BY <1>3, <2>1, Quotient DEF x
<1>4. CASE x # b - 1
  <2>1. r + 1 = b * q + (x + 1) /\ x + 1 \in 0..b - 1 /\ r + 1 \in Nat
    BY <1>1, <1>2, <1>4
  <2>2. PICK z \in 0..b - 1, a \in Nat : z = x + 1 /\ a = r + 1
    BY <2>1
  <2>3. a % b = z
    <3>1. a = b * q + z /\ q \in Nat
      BY <1>1, <2>1, <2>2
    <3> QED BY <3>1, Quotient
  <2> QED BY <1>1, <1>4, <2>2, <2>3 DEF x
<1> QED BY <1>3, <1>4

(* After n ticks, w overflows of the count r modulo M and s seconds: the   *)
(* seconds are ahead of the ticks, by less than one for each overflow.     *)
Ahead(M, T, n, r, s, w) ==
    /\ n = M * w + r
    /\ n <= T * s + (r % T)
    /\ T * s + (r % T) <= n + w * (T - 1)

LEMMA TickKeepsAhead ==
    ASSUME NEW M \in Nat \ {0}, NEW T \in Nat \ {0}, NEW n \in Nat, NEW r \in 0..M - 1,
           NEW s \in Nat, NEW w \in Nat, Ahead(M, T, n, r, s, w),
           NEW t, t = (r + 1) % M
    PROVE  /\ t \in 0..M - 1
           /\ \E v \in Nat : Ahead(M, T, n + 1, t, IF t % T # 0 THEN s ELSE s + 1, v)
<1>1. r % T \in 0..T - 1 /\ T * s \in Nat /\ M * w \in Nat /\ w * (T - 1) \in Nat
  BY Euclid
<1>2. T * (s + 1) = T * s + T
  OBVIOUS
<1>3. CASE r + 1 < M
  <2>1. t = r + 1
    BY <1>3, SmallRemainder
  <2>2. CASE r % T = T - 1 /\ (r + 1) % T = 0
    <3>1. Ahead(M, T, n + 1, t, s + 1, w)
      BY <1>1, <1>2, <2>1, <2>2 DEF Ahead
    <3> QED BY <1>3, <2>1, <2>2, <3>1
  <2>3. CASE (r + 1) % T = (r % T) + 1 /\ (r + 1) % T # 0
    <3>1. Ahead(M, T, n + 1, t, s, w)
      BY <1>1, <1>2, <2>1, <2>3 DEF Ahead
    <3> QED BY <1>3, <2>1, <2>3, <3>1
  <2> QED BY <2>2, <2>3, NextRemainder
<1>4. CASE r + 1 = M
  <2>1. t = 0 /\ t \in 0..M - 1
    BY <1>4, SmallRemainder
  <2>2. t % T = 0
    BY <2>1, SmallRemainder
  <2>3. M * (w + 1) = M * w + M /\ (w + 1) * (T - 1) = w * (T - 1) + (T - 1)
    OBVIOUS
  <2>4. Ahead(M, T, n + 1, t, s + 1, w + 1)
    BY <1>1, <1>2, <1>4, <2>1, <2>2, <2>3 DEF Ahead
  <2> QED BY <2>1, <2>2, <2>4
<1> QED BY <1>3, <1>4

LEMMA AheadBounds ==
    ASSUME NEW M \in Nat \ {0}, NEW T \in Nat \ {0}, NEW n \in Nat, NEW r \in 0..M - 1,
           NEW s \in Nat, NEW w \in Nat, Ahead(M, T, n, r, s, w)
    PROVE  s \in n \div T .. n \div T + n \div M
<1>1. n \div M = w
  BY Zenon, Quotient DEF Ahead
<1> DEFINE q == n \div T
           y == n % T
           x == r % T
<1>2. q \in Nat /\ y \in 0..T - 1 /\ n = T * q + y /\ x \in 0..T - 1
  <2>1. q \in Nat /\ y \in 0..T - 1 /\ n = T * q + y
    BY Zenon, Euclid
  <2>2. x \in 0..T - 1
    BY Euclid
  <2> QED BY <2>1, <2>2
<1>3. n <= T * s + x /\ T * s + x <= n + w * (T - 1)
  BY DEF Ahead
<1> HIDE DEF q, y, x
<1>4. T * s \in Nat /\ T * q \in Nat /\ T * w \in Nat
  BY <1>2
<1>5. w * (T - 1) = T * w - w
  OBVIOUS
<1>6. ~ (s + 1 <= q)
  <2> SUFFICES ASSUME s + 1 <= q PROVE FALSE
    OBVIOUS
  <2>1. T * (s + 1) <= T * q /\ T * (s + 1) = T * s + T
    BY <1>2, TimesGrows
  <2> QED BY <1>2, <1>3, <1>4, <2>1
<1>7. ~ (q + w + 1 <= s)
  <2> SUFFICES ASSUME q + w + 1 <= s PROVE FALSE
    OBVIOUS
  <2>1. T * (q + w + 1) <= T * s
    BY <1>2, TimesGrows
  <2>2. T * (q + w + 1) = T * q + T * w + T
    BY <1>2
  <2> QED BY <1>2, <1>3, <1>4, <1>5, <2>1, <2>2
<1>8. q <= s /\ s <= q + w
  BY <1>2, <1>6, <1>7
<1> QED BY <1>1, <1>2, <1>8 DEF q

LEMMA ClockConstants ==
    /\ TickModulus \in Nat \ {0} /\ HourModulus \in Nat \ {0} /\ TicksPerSecond \in Nat \ {0}
    /\ SecondsPerMinute \in Nat \ {0} /\ MinutesPerHour \in Nat \ {0}
    /\ Base \in Nat \ {0} /\ Line \subseteq 0..15 /\ TimerLine \in 0..7 \ {4}
  BY MachineAssumption

(* The seconds of h hours and what the clock has counted of the next one *)
Seconds(h) == (h * MinutesPerHour + mins) * SecondsPerMinute + total_ticks_secs

(* What is true of the clock after every tick: h hours have passed. *)
ClockInv ==
    /\ ticks \in Nat /\ total_ticks \in 0..TickModulus - 1
    /\ total_ticks_secs \in 0..SecondsPerMinute - 1
    /\ mins \in 0..MinutesPerHour - 1 /\ hours \in Nat
    /\ shown = C!Digits(total_ticks_secs, mins, hours)
    /\ \E h, w \in Nat : /\ hours = h % HourModulus
                         /\ Ahead(TickModulus, TicksPerSecond, ticks, total_ticks, Seconds(h), w)

(* The digits show the seconds, minutes and hours they are made of. *)
LEMMA DigitsShow ==
    ASSUME ClockInv
    PROVE  C!Shown = Seconds(hours)
<1>1. \A n \in Nat : (n \div Base) * Base + (n % Base) = n
  <2> SUFFICES ASSUME NEW n \in Nat PROVE (n \div Base) * Base + (n % Base) = n
    OBVIOUS
  <2> DEFINE q == n \div Base
  <2>1. q \in Nat /\ n = Base * q + (n % Base)
    BY ClockConstants, Euclid
  <2> HIDE DEF q
  <2>2. Base * q = q * Base
    BY <2>1, ClockConstants
  <2> QED BY <2>1, <2>2 DEF q
<1>2. total_ticks_secs \in Nat /\ mins \in Nat /\ hours \in Nat
  BY DEF ClockInv
<1>3. /\ shown.seconds_tens * Base + shown.seconds_units = total_ticks_secs
      /\ shown.minutes_tens * Base + shown.minutes_units = mins
      /\ shown.hours_tens * Base + shown.hours_units = hours
  BY <1>1, <1>2 DEF ClockInv, C!Digits
<1> QED BY <1>3 DEF C!Shown, Seconds

(* timer_handler runs on the timer's line and on no other. *)
LEMMA TimerRoutine ==
    ASSUME NEW l \in Line
    PROVE  P!Routine(P!PushedNo(l)) = "timer" <=> l = TimerLine
<1>1. l \in 0..15 /\ TimerLine \in 0..7 \ {4}
  BY ClockConstants
<1>2. CASE l < 8
  <2>1. P!PushedNo(l) - 50 = l
    BY <1>1, <1>2 DEF P!PushedNo
  <2> QED BY Zenon, <1>1, <1>2, <2>1 DEF P!Routine, P!irq_routines
<1>3. CASE l >= 8
  <2>1. P!PushedNo(l) - 50 \in Nat /\ P!PushedNo(l) - 50 # TimerLine /\ l # TimerLine
    BY <1>1, <1>3 DEF P!PushedNo
  <2> QED BY <1>1, <2>1 DEF P!Routine, P!irq_routines
<1> QED BY <1>1, <1>2, <1>3

LEMMA ClockStarts == Init => ClockInv
<1> SUFFICES ASSUME Init PROVE ClockInv
  OBVIOUS
<1>1. /\ ticks = 0 /\ total_ticks = 0 /\ total_ticks_secs = 0 /\ mins = 0 /\ hours = 0
      /\ shown = C!Digits(total_ticks_secs, mins, hours)
  BY DEF Init, C!Init
<1>2. Seconds(0) = 0
  BY <1>1, ClockConstants DEF Seconds
<1>3. 0 % TicksPerSecond = 0 /\ 0 % HourModulus = 0
  BY ClockConstants, SmallRemainder
<1>4. Ahead(TickModulus, TicksPerSecond, ticks, total_ticks, Seconds(0), 0)
  BY <1>1, <1>2, <1>3, ClockConstants DEF Ahead
<1> QED BY <1>1, <1>3, <1>4, ClockConstants DEF ClockInv

(* hours counts modulo HourModulus. *)
LEMMA RemainderCounts ==
    ASSUME NEW b \in Nat \ {0}, NEW r \in Nat
    PROVE  ((r % b) + 1) % b = (r + 1) % b
<1>1. r % b \in 0..b - 1
  BY Euclid
<1>2. CASE r % b = b - 1 /\ (r + 1) % b = 0
  <2>1. (r % b) + 1 = b
    BY <1>2
  <2> QED BY <1>2, <2>1, SmallRemainder
<1>3. CASE r % b # b - 1 /\ (r + 1) % b = (r % b) + 1
  <2>1. (r % b) + 1 \in 0..b - 1
    BY <1>1, <1>3
  <2> QED BY <1>3, <2>1, SmallRemainder
<1> QED BY Zenon, <1>2, <1>3, NextRemainder

(* A second more: seconds, minutes and hours roll over together. *)
LEMMA SecondPasses ==
    ASSUME ClockInv, C!timer_handler, ((total_ticks + 1) % TickModulus) % TicksPerSecond = 0,
           NEW h \in Nat, hours = h % HourModulus
    PROVE  /\ \E g \in Nat : hours' = g % HourModulus /\ Seconds(g)' = Seconds(h) + 1
           /\ total_ticks_secs' \in 0..SecondsPerMinute - 1
           /\ mins' \in 0..MinutesPerHour - 1 /\ hours' \in Nat
           /\ shown' = C!Digits(total_ticks_secs, mins, hours)'
<1> DEFINE minute == total_ticks_secs + 1 >= SecondsPerMinute
           hour == minute /\ mins + 1 >= MinutesPerHour
<1> PICK g \in Nat : g = IF hour THEN h + 1 ELSE h
  OBVIOUS
<1>1. /\ total_ticks_secs' = IF minute THEN 0 ELSE total_ticks_secs + 1
      /\ mins' = IF hour THEN 0 ELSE IF minute THEN mins + 1 ELSE mins
      /\ hours' = IF hour THEN (hours + 1) % HourModulus ELSE hours
      /\ shown' = C!Digits(total_ticks_secs', mins', hours')
  BY DEF C!timer_handler
<1>2. /\ total_ticks_secs \in 0..SecondsPerMinute - 1 /\ mins \in 0..MinutesPerHour - 1
      /\ hours \in Nat
  BY DEF ClockInv
<1>3. /\ total_ticks_secs' \in 0..SecondsPerMinute - 1
      /\ mins' \in 0..MinutesPerHour - 1
  BY <1>1, <1>2, ClockConstants
<1>4. hours' = g % HourModulus /\ hours' \in Nat
  <2>1. (hours + 1) % HourModulus = (h + 1) % HourModulus
    BY Zenon, ClockConstants, RemainderCounts
  <2>2. (h + 1) % HourModulus \in Nat
    BY ClockConstants, Euclid
  <2> QED BY <1>1, <1>2, <2>1, <2>2
<1> DEFINE S == SecondsPerMinute
           m == h * MinutesPerHour + mins
<1>5. m \in Nat /\ (m + 1) * S = m * S + S
  BY <1>2, ClockConstants
<1>6. g * MinutesPerHour + mins' = IF minute THEN m + 1 ELSE m
  <2>1. (h + 1) * MinutesPerHour = h * MinutesPerHour + MinutesPerHour
    BY ClockConstants
  <2>2. h * MinutesPerHour \in Nat
    BY ClockConstants
  <2>3. hour => mins + 1 = MinutesPerHour
    BY <1>2, ClockConstants
  <2> QED BY <1>1, <1>2, <2>1, <2>2, <2>3, ClockConstants
<1>7. minute => total_ticks_secs + 1 = S
  BY <1>2, ClockConstants
<1>8. Seconds(g)' = Seconds(h) + 1
  <2> HIDE DEF m
  <2>1. Seconds(h) = m * S + total_ticks_secs
    BY DEF Seconds, m
  <2>2. Seconds(g)' = (IF minute THEN m + 1 ELSE m) * S + total_ticks_secs'
    BY <1>6 DEF Seconds
  <2>3. m * S \in Nat
    BY <1>5, ClockConstants
  <2>4. CASE minute
    BY SMTT(30), <1>1, <1>2, <1>5, <1>7, <2>1, <2>2, <2>3, <2>4, ClockConstants
  <2>5. CASE ~ minute
    BY <1>1, <1>2, <1>5, <2>1, <2>2, <2>3, <2>5
  <2> QED BY <2>4, <2>5
<1> QED BY <1>1, <1>3, <1>4, <1>8

LEMMA TickKeeps ==
    ASSUME ClockInv, C!timer_handler, ticks' = ticks + 1
    PROVE  ClockInv'
<1> DEFINE t == (total_ticks + 1) % TickModulus
<1>1. PICK h \in Nat, w \in Nat :
          /\ hours = h % HourModulus
          /\ Ahead(TickModulus, TicksPerSecond, ticks, total_ticks, Seconds(h), w)
  BY DEF ClockInv
<1>2. total_ticks' = t /\ ticks \in Nat /\ total_ticks \in 0..TickModulus - 1
  BY DEF C!timer_handler, ClockInv
<1>3. Seconds(h) \in Nat
  BY ClockConstants DEF ClockInv, Seconds
<1>4. /\ t \in 0..TickModulus - 1
      /\ \E v \in Nat : Ahead(TickModulus, TicksPerSecond, ticks + 1, t,
                              IF t % TicksPerSecond # 0 THEN Seconds(h) ELSE Seconds(h) + 1, v)
  <2>1. PICK s \in Nat : s = Seconds(h)
    BY <1>3
  <2>2. PICK u : u = t
    OBVIOUS
  <2> HIDE DEF t
  <2>3. u = (total_ticks + 1) % TickModulus
    BY <2>2 DEF t
  <2>4. Ahead(TickModulus, TicksPerSecond, ticks, total_ticks, s, w)
    BY <1>1, <2>1
  <2>5. /\ u \in 0..TickModulus - 1
        /\ \E v \in Nat : Ahead(TickModulus, TicksPerSecond, ticks + 1, u,
                                IF u % TicksPerSecond # 0 THEN s ELSE s + 1, v)
    BY SMTT(30), <1>2, <2>3, <2>4, ClockConstants, TickKeepsAhead
  <2> QED BY <2>1, <2>2, <2>5
<1>5. CASE t % TicksPerSecond # 0
  <2>1. UNCHANGED <<total_ticks_secs, mins, hours, shown>>
    BY <1>5 DEF C!timer_handler
  <2>2. Seconds(h)' = Seconds(h)
    BY <2>1 DEF Seconds
  <2>3. \E v \in Nat : Ahead(TickModulus, TicksPerSecond, ticks', total_ticks', Seconds(h)', v)
    BY <1>2, <1>4, <1>5, <2>2
  <2> QED BY <1>1, <1>2, <1>4, <2>1, <2>3 DEF ClockInv, C!Digits, Ahead
<1>6. CASE t % TicksPerSecond = 0
  <2>1. /\ total_ticks_secs' \in 0..SecondsPerMinute - 1
        /\ mins' \in 0..MinutesPerHour - 1 /\ hours' \in Nat
        /\ shown' = C!Digits(total_ticks_secs, mins, hours)'
    BY <1>1, <1>6, SecondPasses
  <2>2. PICK g \in Nat : hours' = g % HourModulus /\ Seconds(g)' = Seconds(h) + 1
    BY <1>1, <1>6, SecondPasses
  <2>3. \E v \in Nat : Ahead(TickModulus, TicksPerSecond, ticks', total_ticks', Seconds(g)', v)
    BY <1>2, <1>4, <1>6, <2>2
  <2> QED BY <1>2, <1>4, <2>1, <2>2, <2>3 DEF ClockInv, Ahead
<1> QED BY <1>5, <1>6

LEMMA ClockStep ==
    ASSUME ClockInv, [Next]_vars
    PROVE  ClockInv'
<1>1. CASE UNCHANGED <<clockVars, ticks>>
  BY <1>1 DEF ClockInv, clockVars, Seconds, Ahead, C!Digits
<1>2. CASE \E l \in Line : irq(l)
  <2>1. PICK l \in Line : irq(l)
    BY <1>2
  <2>2. CASE l = TimerLine
    <3>1. C!timer_handler /\ ticks' = ticks + 1
      BY <2>1, <2>2, TimerRoutine DEF irq
    <3> QED BY <3>1, TickKeeps
  <2>3. CASE l # TimerLine
    BY <1>1, <2>1, <2>3, TimerRoutine DEF irq
  <2> QED BY <2>2, <2>3
<1> QED BY <1>1, <1>2 DEF Next, vars, request, driver, device, do_exec, system_call, iretq,
                          raise, Others

(* Before hours overflows, it is the number of hours that have passed. *)
LEMMA HoursAreExact ==
    ASSUME ClockInv, NEW h \in Nat,
           Seconds(h) < HourModulus * MinutesPerHour * SecondsPerMinute
    PROVE  h % HourModulus = h
<1> DEFINE M == MinutesPerHour
           S == SecondsPerMinute
           H == HourModulus
<1>1. /\ M \in Nat \ {0} /\ S \in Nat \ {0} /\ H \in Nat \ {0}
      /\ mins \in Nat /\ total_ticks_secs \in Nat
  BY ClockConstants DEF ClockInv
<1>2. (h * M + mins) * S + total_ticks_secs < (H * M) * S
  BY DEF Seconds
<1> HIDE DEF M, S, H
<1>3. ~ (H <= h)
  <2> SUFFICES ASSUME H <= h PROVE FALSE
    OBVIOUS
  <2>1. M * H <= M * h /\ M * H = H * M /\ M * h = h * M
    BY <1>1, TimesGrows
  <2>2. PICK a \in Nat, b \in Nat : a = H * M /\ b = h * M + mins
    BY <1>1
  <2>3. a <= b
    BY <1>1, <2>1, <2>2
  <2>4. S * a <= S * b /\ S * a = a * S /\ S * b = b * S /\ a * S \in Nat /\ b * S \in Nat
    BY <1>1, <2>3, TimesGrows
  <2> QED BY <1>1, <1>2, <2>2, <2>4
<1>4. h \in 0..H - 1
  BY <1>1, <1>3
<1> QED BY <1>1, <1>4, SmallRemainder DEF H

(* The clock never falls behind the ticks that reached timer_handler, and  *)
(* gains at most a second each time the 16-bit total_ticks overflows,      *)
(* until the 16-bit hours do, whatever the moduli, the tick rate and the   *)
(* lengths of minute and hour.                                             *)
THEOREM ClockIsNeverLate == Spec => []ClockFollowsTicks
<1>1. Init => ClockInv
  BY ClockStarts
<1>2. ClockInv /\ [Next]_vars => ClockInv'
  BY ClockStep
<1>3. ClockInv => ClockFollowsTicks
  <2> SUFFICES ASSUME ClockInv PROVE ClockFollowsTicks
    OBVIOUS
  <2>1. PICK h \in Nat, w \in Nat :
            /\ hours = h % HourModulus
            /\ Ahead(TickModulus, TicksPerSecond, ticks, total_ticks, Seconds(h), w)
    BY DEF ClockInv
  <2>2. PICK s \in Nat : s = Seconds(h)
    BY ClockConstants DEF ClockInv, Seconds
  <2>3. ticks \in Nat /\ total_ticks \in 0..TickModulus - 1
    BY DEF ClockInv
  <2> DEFINE least == ticks \div TicksPerSecond
             most == least + (ticks \div TickModulus)
             limit == HourModulus * MinutesPerHour * SecondsPerMinute
  <2>4. s \in least..most
    <3>1. Ahead(TickModulus, TicksPerSecond, ticks, total_ticks, s, w)
      BY <2>1, <2>2
    <3> QED BY Zenon, <2>3, <3>1, AheadBounds, ClockConstants
  <2>5. least \in Nat /\ most \in Nat /\ limit \in Nat
    <3>1. least \in Nat /\ (ticks \div TickModulus) \in Nat
      BY Zenon, <2>3, ClockConstants, Euclid
    <3>2. PICK a \in Nat : a = HourModulus * MinutesPerHour
      BY ClockConstants
    <3>3. a * SecondsPerMinute \in Nat /\ limit = a * SecondsPerMinute
      BY <3>2, ClockConstants
    <3> QED BY <3>1, <3>3
  <2> SUFFICES ASSUME most < limit PROVE C!Shown \in least..most
    BY DEF ClockFollowsTicks
  <2>6. s < limit
    <3> HIDE DEF least, most, limit
    <3> QED BY <2>4, <2>5
  <2>7. h % HourModulus = h
    BY <2>2, <2>6, HoursAreExact
  <2>8. C!Shown = s
    BY <2>1, <2>2, <2>7, DigitsShow
  <2> HIDE DEF least, most, limit
  <2> QED BY <2>4, <2>8
<1> QED BY <1>1, <1>2, <1>3, PTL DEF Spec
=============================================================================
