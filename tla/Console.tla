------------------------------- MODULE Console -------------------------------
(***************************************************************************)
(* The text screen (sys/stdfns.c): printf with write_char, write_string,   *)
(* convert and update_cursor, cls, the echo of a key and the clock.  The   *)
(* boot thread prints with interrupts on, so the accesses of printf to     *)
(* video_memory, to the static buffer of convert and to the screen are     *)
(* steps of their own; the handler of an interrupt is one step.  A cell    *)
(* stands for the two bytes of a character; the memory moved by a scroll   *)
(* is one step.                                                            *)
(***************************************************************************)
EXTENDS Integers, Sequences, SequencesExt

CONSTANTS Cols,          \* columns of a row (80)
          TextRows,      \* rows that scroll (24); the clock is in the row below
          VgaRows,       \* bound: rows of video memory
          Char,          \* what is typed or printed, besides a new line
          Strings,       \* arguments of %s
          Numbers,       \* arguments of %d: sequences of one or two digits
          Interruptible, \* TRUE: interrupts may come within a printf
          MaxText        \* bound: characters since the last cls

NL == "nl"
Blank == " "
Digit == {"1", "2"}
Size == VgaRows * Cols
ClockCell == (TextRows + 1) * Cols - 1      \* TIMER_MEMORY: the end of the row

ASSUME ConsoleAssumption ==
    /\ {Cols, TextRows, VgaRows, MaxText} \subseteq Nat \ {0}
    /\ VgaRows > TextRows
    /\ {NL, Blank} \cap Char = {}
    /\ Strings \subseteq Seq(Char \cup {NL})
    /\ Numbers \subseteq Seq(Digit) /\ \A n \in Numbers : Len(n) \in 1..2
    /\ Interruptible \in BOOLEAN

VARIABLES screen,        \* [0..Size - 1 -> character]
          video_memory,  \* the cell of the next character
          buf,           \* the end of the static buffer of convert
          pc,            \* of printf: "idle", "load", "put", "cursor", "scroll"
          todo,          \* rest of the string: characters, or cells of buf
          meant,         \* ghost: the same string as the caller meant it
          video, diff,   \* locals of write_char/write_string and update_cursor
          text,          \* ghost: what was put on the screen since the last cls
          clock,         \* ghost: the time written last
          crossed,       \* ghost: a string ended below the rows that scroll since cls
          long           \* ghost: one longer than a row was printed since the clock was
ghosts == <<crossed, long>>
vars == <<screen, video_memory, buf, pc, todo, meant, video, diff, text, clock, ghosts>>

Init ==
    /\ screen = [i \in 0..Size - 1 |-> Blank] /\ video_memory = 0
    /\ buf = [x \in {"buf1", "buf2"} |-> "nul"]
    /\ pc = "idle" /\ todo = <<>> /\ meant = <<>>
    /\ video = 0 /\ diff = 0
    /\ text = <<>> /\ clock = Blank
    /\ crossed = FALSE /\ long = FALSE

-----------------------------------------------------------------------------
Read(x) == IF x \in DOMAIN buf THEN buf[x] ELSE x

(* Where a character goes and what follows it *)
Put(scr, at, c) == IF c = NL THEN scr ELSE [scr EXCEPT ![at] = c]
Advance(at, c) == IF c = NL THEN ((at + Cols) \div Cols) * Cols ELSE at + 1

temp_row(at) == (at \div Cols) - TextRows + 1

Scrolled_short(scr, at) ==                               \* mutant: last row not cleared
    LET t == temp_row(at)
    IN  IF t <= 0 THEN scr
        ELSE [i \in DOMAIN scr |-> IF i < (TextRows - t) * Cols THEN scr[i + t * Cols]
                                   ELSE scr[i]]
Scrolled(scr, at) ==
    LET t == temp_row(at)
    IN  IF t <= 0 THEN scr
        ELSE [i \in DOMAIN scr |->
                CASE i < (TextRows - t) * Cols  -> scr[i + t * Cols]
                  [] i \div Cols = TextRows - 1 -> Blank
                  [] OTHER                      -> scr[i]]
CursorAfter(at) == IF temp_row(at) <= 0 THEN at ELSE (TextRows - 1) * Cols

-----------------------------------------------------------------------------
(* printf calls write_char or write_string. *)
Call(s, m) ==
    /\ pc = "idle" /\ Len(text) + Len(m) <= MaxText
    /\ crossed' = (crossed \/ FoldLeft(Advance, video_memory, m) > TextRows * Cols)
    /\ long' = (long \/ FoldLeft(Advance, Cols - 1, m) > 2 * Cols - 1)
    /\ todo' = s /\ meant' = m /\ pc' = "load"
    /\ UNCHANGED <<screen, video_memory, video, diff, text, clock>>

print_char(c) == Call(<<c>>, <<c>>) /\ UNCHANGED buf
print_string(s) == Call(s, s) /\ UNCHANGED buf

(* convert fills the buffer from its end. *)
print_number(n) ==
    /\ Call(IF Len(n) = 1 THEN <<"buf2">> ELSE <<"buf1", "buf2">>, n)
    /\ buf' = [buf EXCEPT !["buf2"] = Last(n), !["buf1"] = IF Len(n) = 2 THEN n[1] ELSE @]

load ==
    /\ pc = "load" /\ pc' = "put"
    /\ video' = video_memory
    /\ UNCHANGED <<screen, video_memory, buf, todo, meant, diff, text, clock, ghosts>>

put ==
    /\ pc = "put" /\ todo # <<>>
    /\ video < Size
    /\ LET c == Read(Head(todo))
       IN  screen' = Put(screen, video, c) /\ video' = Advance(video, c)
    /\ todo' = Tail(todo) /\ meant' = Tail(meant)
    /\ text' = Append(text, Head(meant))
    /\ UNCHANGED <<video_memory, buf, pc, diff, clock, ghosts>>

store ==
    /\ pc = "put" /\ todo = <<>> /\ pc' = "cursor"
    /\ video_memory' = video
    /\ UNCHANGED <<screen, buf, todo, meant, video, diff, text, clock, ghosts>>

update_cursor ==
    /\ pc = "cursor" /\ pc' = "scroll"
    /\ diff' = video_memory
    /\ UNCHANGED <<screen, video_memory, buf, todo, meant, video, text, clock, ghosts>>

scroll ==
    /\ pc = "scroll" /\ pc' = "idle"
    /\ screen' = Scrolled(screen, diff)
    /\ video_memory' = IF temp_row(diff) > 0 THEN CursorAfter(diff) ELSE video_memory
    /\ video' = 0 /\ diff' = 0          \* the locals are gone
    /\ UNCHANGED <<buf, todo, meant, text, clock, ghosts>>

cls ==
    /\ pc = "idle"
    /\ screen' = [i \in DOMAIN screen |-> IF i <= ClockCell THEN Blank ELSE screen[i]]
    /\ video_memory' = 0
    /\ text' = <<>> /\ clock' = Blank
    /\ crossed' = FALSE /\ long' = FALSE
    /\ UNCHANGED <<buf, pc, todo, meant, video, diff>>

-----------------------------------------------------------------------------
MayInterrupt == Interruptible \/ pc = "idle"

(* keyboard_handler echoes a key with write_char. *)
echo_key(c) ==
    /\ MayInterrupt
    /\ Len(text) + Len(todo) < MaxText /\ video_memory < Size
    /\ LET at == Advance(video_memory, c)
       IN  /\ screen' = Scrolled(Put(screen, video_memory, c), at)
           /\ video_memory' = CursorAfter(at)
    /\ text' = Append(text, c)
    /\ UNCHANGED <<buf, pc, todo, meant, video, diff, clock, ghosts>>

(* timer_handler: write_time converts the digits in the same static buffer. *)
write_time(d) ==
    /\ MayInterrupt
    /\ buf' = [buf EXCEPT !["buf2"] = d]
    /\ screen' = [screen EXCEPT ![ClockCell] = d]
    /\ clock' = d
    /\ long' = (long /\ pc # "idle")
    /\ UNCHANGED <<video_memory, pc, todo, meant, video, diff, text, crossed>>

Next ==
    \/ \E c \in Char \cup {NL} : print_char(c) \/ echo_key(c)
    \/ \E s \in Strings : print_string(s)
    \/ \E n \in Numbers : print_number(n)
    \/ load \/ put \/ store \/ update_cursor \/ scroll \/ cls
    \/ \E d \in Digit : write_time(d)

Spec == Init /\ [][Next]_vars

-----------------------------------------------------------------------------
(* Every variable has its type. *)
TypeOK ==
    /\ screen \in [0..Size - 1 -> Char \cup Digit \cup {Blank, "nul"}]
    /\ video_memory \in 0..Size - 1
    /\ pc \in {"idle", "load", "put", "cursor", "scroll"}
    /\ Len(todo) = Len(meant) /\ Len(text) + Len(todo) <= MaxText
    /\ clock \in Digit \cup {Blank}

(* What a terminal shows: text broken into rows, the last of them *)
AddTo(rows, c) ==
    LET row == Append(Last(rows), c)
    IN  CASE c = NL          -> Append(rows, <<>>)
          [] Len(row) = Cols -> Append(Front(rows), row) \o << <<>> >>
          [] OTHER           -> Append(Front(rows), row)

Shown ==
    LET rows == FoldLeft(AddTo, << <<>> >>, text)
        skip == IF Len(rows) > TextRows THEN Len(rows) - TextRows ELSE 0
    IN  [i \in 0..TextRows * Cols - 1 |->
           LET r == skip + (i \div Cols) + 1
               c == (i % Cols) + 1
           IN  IF r <= Len(rows) /\ c <= Len(rows[r]) THEN rows[r][c] ELSE Blank]

TextIsShown == pc = "idle" => \A i \in 0..TextRows * Cols - 1 : screen[i] = Shown[i]

(* Between two calls the screen shows the last rows of everything that was *)
(* printed or typed since cls, each character once and in its place, as    *)
(* long as no string ran over the end of the last row: write_string writes *)
(* on there, and update_cursor does not scroll that row.                   *)
ScreenShowsText == ~ crossed => TextIsShown

(* printf prints the number it was given: while write_string runs, the     *)
(* buffer of convert still holds its digits.                               *)
NumberIsPrinted == pc = "put" /\ todo # <<>> => Read(Head(todo)) = Head(meant)

ClockIsShown == screen[ClockCell] = clock

=============================================================================
