------------------------------ MODULE StdinRead ------------------------------
(***************************************************************************)
(* Reading a line from the keyboard: doread() on STDIN (sys/isr.c), the    *)
(* keyboard interrupt (sys/kb.c) and write_io_buff (sys/stdfns.c), which   *)
(* share the flags reading and reading_finished and the buffer iobuff.     *)
(* doread runs with interrupts on: a step of a process is one access to    *)
(* the shared variables, in the order of the compiled code, and a key or   *)
(* another process can come between any two.  The handler of an interrupt  *)
(* is one step.                                                            *)
(***************************************************************************)
EXTENDS Integers, Sequences, FiniteSets, SequencesExt

CONSTANTS Proc,          \* processes that read from STDIN
          BufSize,       \* bytes of iobuff (1024); bound: no longer line is typed
          OneAtATime,    \* TRUE: a process reads only while no other does
          KeyModes       \* values of keysAnyTime to consider

ASSUME StdinReadAssumption ==
    /\ BufSize \in Nat /\ BufSize >= 2
    /\ OneAtATime \in BOOLEAN /\ KeyModes \subseteq BOOLEAN

NUL == "nul"
NL == "nl"
Char == {"a", "A", NL}
NoBuffer == 0            \* io_buff before the first read: NULL

VARIABLES reading, reading_finished,
          iobuff,        \* [1..BufSize -> Char or NUL]
          io_buff,       \* index in iobuff where the next character goes
          first_char,    \* the handler has stored a character before
          _shift, _caps,
          pc,            \* the next statement of doread, per process
          result,        \* what the last read of a process copied to its caller
          echoed,        \* ghost: the line on the screen since reading was set; an enter
                         \* that comes before every other key starts it
          faulted,       \* a character was stored through NULL
          keysAnyTime    \* constant; FALSE: keys are struck only while a process waits

keyboard == <<_shift, _caps>>
vars == <<reading, reading_finished, iobuff, io_buff, first_char, keyboard, pc, result,
          echoed, faulted, keysAnyTime>>

Outside == {"user", "busy"}      \* not in doread; "busy": it returned -1
Reading == {"mark", "rewind", "loop", "copy", "release", "finish"}

Init ==
    /\ reading = 0 /\ reading_finished = 1
    /\ iobuff = [i \in 1..BufSize |-> NUL]
    /\ io_buff = NoBuffer
    /\ first_char = 0
    /\ _shift = FALSE /\ _caps = FALSE
    /\ pc = [p \in Proc |-> "user"]
    /\ result = [p \in Proc |-> <<>>]
    /\ echoed = <<>>
    /\ faulted = FALSE
    /\ keysAnyTime \in KeyModes

-----------------------------------------------------------------------------
Step(p, from, to) == ~ faulted /\ pc[p] = from /\ pc' = [pc EXCEPT ![p] = to]

(* doread is called: sti, then the test of reading and that of reading_finished. *)
test_reading(p) ==
    /\ pc[p] \in Outside
    /\ OneAtATime => \A q \in Proc : pc[q] \in Outside
    /\ Step(p, pc[p], IF reading = 1 THEN "busy" ELSE "test")
    /\ UNCHANGED <<reading, reading_finished, iobuff, io_buff, first_char, keyboard,
                   result, echoed, faulted>>

test_finished(p) ==
    /\ Step(p, "test", IF reading_finished = 0 THEN "busy" ELSE "set")
    /\ UNCHANGED <<reading, reading_finished, iobuff, io_buff, first_char, keyboard,
                   result, echoed, faulted>>

set_reading(p) ==
    /\ Step(p, "set", "mark")
    /\ reading' = 1
    /\ echoed' = <<>>
    /\ UNCHANGED <<reading_finished, iobuff, io_buff, first_char, keyboard, result, faulted>>

mark_unfinished(p) ==
    /\ Step(p, "mark", "rewind")
    /\ reading_finished' = 0
    /\ UNCHANGED <<reading, iobuff, io_buff, first_char, keyboard, result, echoed, faulted>>

rewind(p) ==
    /\ Step(p, "rewind", "loop")
    /\ io_buff' = 1
    /\ UNCHANGED <<reading, reading_finished, iobuff, first_char, keyboard, result,
                   echoed, faulted>>

leave_loop(p) ==
    /\ reading # 1
    /\ Step(p, "loop", "copy")
    /\ UNCHANGED <<reading, reading_finished, iobuff, io_buff, first_char, keyboard,
                   result, echoed, faulted>>

(* memcpy(buf, iobuff, strlen(iobuff)) *)
strlen == CHOOSE n \in 0..BufSize :
             /\ \A i \in 1..n : iobuff[i] # NUL
             /\ n < BufSize => iobuff[n + 1] = NUL

copy(p) ==
    /\ Step(p, "copy", "release")
    /\ result' = [result EXCEPT ![p] = [i \in 1..strlen |-> iobuff[i]]]
    /\ UNCHANGED <<reading, reading_finished, iobuff, io_buff, first_char, keyboard,
                   echoed, faulted>>

release(p) ==
    /\ Step(p, "release", "finish")
    /\ reading' = 0
    /\ UNCHANGED <<reading_finished, iobuff, io_buff, first_char, keyboard, result,
                   echoed, faulted>>

finish_silent(p) ==       \* mutant: reading_finished stays 0
    /\ Step(p, "finish", "user")
    /\ UNCHANGED <<reading, reading_finished, iobuff, io_buff, first_char, keyboard,
                   result, echoed, faulted>>

finish(p) ==
    /\ Step(p, "finish", "user")
    /\ reading_finished' = 1
    /\ UNCHANGED <<reading, iobuff, io_buff, first_char, keyboard, result, echoed, faulted>>

-----------------------------------------------------------------------------
(* The keyboard.  Keys are struck at the pace of a person: a line never    *)
(* fills iobuff, and unless keysAnyTime only when a process is in its loop.*)
CanType ==
    /\ ~ faulted
    /\ keysAnyTime \/ reading = 0 \/ \E p \in Proc : pc[p] = "loop"

(* make and break codes of shift, make code of caps lock *)
shift_key ==
    /\ CanType
    /\ _shift' = ~ _shift
    /\ UNCHANGED <<reading, reading_finished, iobuff, io_buff, first_char, _caps, pc,
                   result, echoed, faulted>>

caps_key ==
    /\ CanType
    /\ _caps' = ~ _caps
    /\ UNCHANGED <<reading, reading_finished, iobuff, io_buff, first_char, _shift, pc,
                   result, echoed, faulted>>

keycode_to_ascii(key) == IF key = "a" /\ (_shift \/ _caps) THEN "A" ELSE key

(* *io_buff++ = c *)
Store(c) ==
    IF io_buff = NoBuffer
    THEN faulted' = TRUE /\ UNCHANGED <<iobuff, io_buff>>
    ELSE /\ iobuff' = [iobuff EXCEPT ![io_buff] = c]
         /\ io_buff' = io_buff + 1
         /\ UNCHANGED faulted

write_io_buff_endless(c) ==     \* mutant: enter does not end the read
    /\ IF c = NL /\ first_char = 0
       THEN UNCHANGED <<iobuff, io_buff, faulted>>
       ELSE Store(c)
    /\ first_char' = 1
    /\ UNCHANGED reading

write_io_buff_truncating(c) ==  \* mutant: the enter key is not stored
    /\ IF c = NL THEN UNCHANGED <<iobuff, io_buff, faulted>> ELSE Store(c)
    /\ reading' = IF c = NL /\ first_char = 1 THEN 0 ELSE reading
    /\ first_char' = 1

write_io_buff(c) ==
    /\ IF c = NL /\ first_char = 0
       THEN UNCHANGED <<iobuff, io_buff, faulted>>
       ELSE Store(c)
    /\ reading' = IF c = NL /\ first_char = 1 THEN 0 ELSE reading
    /\ first_char' = 1

keyboard_handler(key) ==
    LET c == keycode_to_ascii(key) IN
    /\ CanType /\ reading # 0
    /\ io_buff < IF key = NL THEN BufSize ELSE BufSize - 1
    /\ write_io_buff(c)
    /\ echoed' = IF c = NL /\ first_char = 0 THEN echoed ELSE Append(echoed, c)
    /\ UNCHANGED <<reading_finished, keyboard, pc, result>>

ProcNext(p) ==
    /\ UNCHANGED keysAnyTime
    /\ \/ test_reading(p) \/ test_finished(p) \/ set_reading(p) \/ mark_unfinished(p)
       \/ rewind(p) \/ leave_loop(p) \/ copy(p) \/ release(p) \/ finish(p)

KeyNext ==
    /\ UNCHANGED keysAnyTime
    /\ \/ shift_key \/ caps_key
       \/ \E key \in {"a", NL} : keyboard_handler(key)

Next == KeyNext \/ \E p \in Proc : ProcNext(p)

Spec == Init /\ [][Next]_vars

(* A process in doread gets the processor again and again (round robin). *)
InRead(p) == pc[p] \notin Outside /\ ProcNext(p)
FairSpec == Spec /\ \A p \in Proc : WF_vars(InRead(p))

-----------------------------------------------------------------------------
(* Every variable has its type; io_buff stays inside iobuff. *)
TypeOK ==
    /\ reading \in {0, 1} /\ reading_finished \in {0, 1} /\ first_char \in {0, 1}
    /\ iobuff \in [1..BufSize -> Char \cup {NUL}]
    /\ io_buff \in 0..BufSize + 1
    /\ _shift \in BOOLEAN /\ _caps \in BOOLEAN /\ faulted \in BOOLEAN
    /\ keysAnyTime \in KeyModes
    /\ pc \in [Proc -> Outside \cup Reading \cup {"test", "set"}]
    /\ \A p \in Proc : result[p] \in Seq(Char)
    /\ echoed \in Seq(Char)

(* When keys are struck only while a process waits, what doread returns    *)
(* starts with the line that was typed, in the case the screen showed, up  *)
(* to and including the enter that ended it.                               *)
LineIsPrefix ==
    ~ keysAnyTime => \A p \in Proc : pc[p] \in {"release", "finish"} =>
        /\ IsPrefix(echoed, result[p])
        /\ echoed # <<>> /\ Last(echoed) = NL

(* doread returns -1 only while another process reads: with one reader at  *)
(* a time the flags are back to idle after every read.                     *)
NeverBusyAlone == \A p \in Proc : pc[p] # "busy"

(* Once enter has been struck the waiting reader comes back from doread,   *)
(* whatever keys came before or come after.                                *)
EnterEndsRead ==
    \A p \in Proc : (pc[p] = "loop" /\ echoed # <<>> /\ Last(echoed) = NL) ~> pc[p] = "user"

(* What doread returns is the line that was typed and nothing else. *)
ReadReturnsLine ==
    \A p \in Proc : pc[p] \in {"release", "finish"} => result[p] = echoed

(* The flags keep a second process from reading while one reads. *)
OneReader == Cardinality({p \in Proc : pc[p] \in Reading}) <= 1
=============================================================================
