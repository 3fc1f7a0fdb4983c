--------------------------- MODULE StdinReadProofs ---------------------------
(***************************************************************************)
(* Proofs about doread on STDIN, for any number of processes and any size  *)
(* of iobuff: with one reader at a time the flags reading and              *)
(* reading_finished are idle whenever nobody reads, and the line that was  *)
(* typed reaches the reader.                                               *)
(***************************************************************************)
EXTENDS StdinRead, SequenceTheorems, FiniteSetTheorems, WellFoundedInduction, TLAPS

Typed ==
    /\ reading \in {0, 1} /\ reading_finished \in {0, 1}
    /\ iobuff \in [1..BufSize -> Char \cup {NUL}] /\ io_buff \in Nat
    /\ pc \in [Proc -> Outside \cup Reading \cup {"test", "set"}]
    /\ echoed \in Seq(Char) /\ DOMAIN result = Proc

(* The flags are idle unless somebody is between set_reading and finish. *)
FlagInv ==
    /\ \A p, q \in Proc : pc[p] \in Outside \/ pc[q] \in Outside \/ p = q
    /\ \/ \E p \in Proc : pc[p] \in Reading
       \/ reading = 0 /\ reading_finished = 1
    /\ \A p \in Proc : pc[p] # "busy"
    /\ \A p \in Proc : pc[p] \in {"copy", "release", "finish"} => reading = 0

(* The line so far is at the start of iobuff, and io_buff behind it. *)
Stored ==
    /\ Len(echoed) <= BufSize
    /\ \A i \in 1..Len(echoed) : iobuff[i] = echoed[i]
Ended == echoed # <<>> /\ Last(echoed) = NL

LineInv ==
    \A p \in Proc :
        /\ pc[p] \in {"mark", "rewind"} => reading = 1 /\ echoed = <<>>
        /\ pc[p] = "loop" => /\ Stored /\ io_buff = Len(echoed) + 1
                             /\ reading = 0 => Ended
        /\ pc[p] = "copy" => Stored /\ Ended
        /\ pc[p] \in {"release", "finish"} => IsPrefix(echoed, result[p]) /\ Ended

IInv == Typed /\ FlagInv /\ (~ keysAnyTime => LineInv)

LEMMA InitEstablishes == Init => IInv
<1> SUFFICES ASSUME Init PROVE IInv
  OBVIOUS
<1>1. BufSize \in Nat
  BY StdinReadAssumption
<1>2. Typed
  BY <1>1 DEF Init, Typed, Outside, NoBuffer
<1>3. FlagInv /\ LineInv
  BY DEF Init, FlagInv, LineInv, Outside, Reading
<1> QED BY <1>2, <1>3 DEF IInv

-----------------------------------------------------------------------------
(* strlen finds the end of what is in iobuff. *)
LEMMA LeastIn ==
    ASSUME NEW n \in Nat, NEW S \in SUBSET (0..n), S # {}
    PROVE  \E k \in S : \A j \in S : k <= j
<1> DEFINE Below(k) == 0..k - 1
           T == {Below(k) : k \in S}
<1>1. T \subseteq FiniteSubsetsOf(0..n) /\ T # {}
  <2>1. \A k \in S : Below(k) \in SUBSET (0..n)
    OBVIOUS
  <2>2. \A k \in S : IsFiniteSet(Below(k))
    BY FS_Interval
  <2> QED BY Zenon, <2>1, <2>2 DEF FiniteSubsetsOf
<1>2. PICK x \in T : \A y \in T : ~ (<<y, x>> \in StrictSubsetOrdering(0..n))
  <2> HIDE DEF T
  <2> QED BY <1>1, FS_StrictSubsetOrderingWellFounded, WFMin, Zenon
<1>3. PICK k \in S : x = Below(k)
  OBVIOUS
<1>4. \A j \in S : k <= j
  <2> SUFFICES ASSUME NEW j \in S, j < k PROVE FALSE
    OBVIOUS
  <2>1. Below(j) \subseteq Below(k) /\ j \in Below(k) /\ j \notin Below(j)
    OBVIOUS
  <2>2. Below(j) \in SUBSET (0..n) /\ Below(k) \in SUBSET (0..n)
    OBVIOUS
  <2>3. <<Below(j), Below(k)>> \in StrictSubsetOrdering(0..n)
    <3> HIDE DEF Below
    <3> QED BY <2>1, <2>2 DEF StrictSubsetOrdering
  <2> QED BY Zenon, <1>2, <1>3, <2>3
<1> QED BY <1>4

LEMMA StrlenFacts ==
    /\ strlen \in 0..BufSize
    /\ \A i \in 1..strlen : iobuff[i] # NUL
    /\ strlen < BufSize => iobuff[strlen + 1] = NUL
<1>1. BufSize \in Nat
  BY StdinReadAssumption
<1> DEFINE Ends(n) == /\ \A i \in 1..n : iobuff[i] # NUL
                      /\ n < BufSize => iobuff[n + 1] = NUL
           Z == {n \in 0..BufSize : n < BufSize => iobuff[n + 1] = NUL}
<1>2. BufSize \in Z /\ Z \in SUBSET (0..BufSize)
  BY <1>1
<1>3. PICK k \in Z : \A j \in Z : k <= j
  <2> HIDE DEF Z
  <2> QED BY Zenon, <1>1, <1>2, LeastIn
<1>4. Ends(k)
  <2>1. ASSUME NEW i \in 1..k, iobuff[i] = NUL PROVE FALSE
    <3>1. i - 1 \in Z
      BY <1>1, <1>3, <2>1
    <3> QED BY <1>3, <2>1, <3>1
  <2> QED BY <1>3, <2>1
<1>5. strlen = CHOOSE n \in 0..BufSize : Ends(n)
  BY DEF strlen
<1>6. strlen \in 0..BufSize /\ Ends(strlen)
  <2>1. \E n \in 0..BufSize : Ends(n)
    BY <1>3, <1>4
  <2> HIDE DEF Ends
  <2> QED BY <1>5, <2>1
<1> QED BY <1>6

-----------------------------------------------------------------------------
(* The steps *)
LEMMA StepFacts ==
    ASSUME Typed, NEW p \in Proc, NEW from, NEW to, Step(p, from, to)
    PROVE  /\ pc[p] = from /\ pc'[p] = to /\ DOMAIN pc' = Proc
           /\ \A q \in Proc : q # p => pc'[q] = pc[q]
  BY DEF Typed, Step

LEMMA StoreFacts ==
    ASSUME Typed, NEW key \in {"a", NL}, keyboard_handler(key)
    PROVE  \E c \in Char :
             /\ c = NL <=> key = NL
             /\ write_io_buff(c)
             /\ echoed' = IF c = NL /\ first_char = 0 THEN echoed ELSE Append(echoed, c)
             /\ UNCHANGED <<reading_finished, pc, result>>
             /\ reading # 0 /\ io_buff < BufSize
             /\ ~ keysAnyTime => \E p \in Proc : pc[p] = "loop"
<1>1. BufSize \in Nat
  BY StdinReadAssumption
<1>2. keycode_to_ascii(key) \in Char /\ (keycode_to_ascii(key) = NL <=> key = NL)
  BY DEF keycode_to_ascii, Char, NL
<1>3. io_buff < BufSize
  BY <1>1 DEF keyboard_handler, Typed
<1> QED BY <1>2, <1>3 DEF keyboard_handler, CanType

LEMMA TypedStep ==
    ASSUME Typed, [Next]_vars
    PROVE  Typed'
<1>1. CASE UNCHANGED vars
  BY <1>1 DEF vars, Typed
<1>2. ASSUME NEW p \in Proc, ProcNext(p) PROVE Typed'
  <2>1. pc' \in [Proc -> Outside \cup Reading \cup {"test", "set"}]
    <3>1. \E to \in Outside \cup Reading \cup {"test", "set"} : pc' = [pc EXCEPT ![p] = to]
      BY <1>2 DEF ProcNext, Step, test_reading, test_finished, set_reading, mark_unfinished,
                  rewind, leave_loop, copy, release, finish, Outside, Reading
    <3> QED BY <3>1 DEF Typed
  <2>2. /\ reading' \in {0, 1} /\ reading_finished' \in {0, 1} /\ io_buff' \in Nat
        /\ UNCHANGED iobuff /\ (echoed' = echoed \/ echoed' = <<>>)
        /\ DOMAIN result' = DOMAIN result
    BY <1>2 DEF ProcNext, Typed, test_reading, test_finished, set_reading, mark_unfinished,
                rewind, leave_loop, copy, release, finish
  <2>3. echoed' \in Seq(Char)
    BY Zenon, <2>2, EmptySeq DEF Typed
  <2>4. DOMAIN result' = Proc /\ iobuff' \in [1..BufSize -> Char \cup {NUL}]
    BY <2>2 DEF Typed
  <2> QED BY <2>1, <2>2, <2>3, <2>4 DEF Typed
<1>3. ASSUME NEW key \in {"a", NL}, keyboard_handler(key) PROVE Typed'
  <2>1. PICK c \in Char :
             /\ write_io_buff(c)
             /\ echoed' = IF c = NL /\ first_char = 0 THEN echoed ELSE Append(echoed, c)
             /\ UNCHANGED <<reading_finished, pc, result>>
    BY <1>3, StoreFacts
  <2>2. /\ iobuff' \in [1..BufSize -> Char \cup {NUL}] /\ io_buff' \in Nat
        /\ reading' \in {0, 1}
    BY <2>1 DEF write_io_buff, Store, Typed
  <2> QED BY <2>1, <2>2 DEF Typed
<1>4. CASE shift_key \/ caps_key
  BY <1>4 DEF shift_key, caps_key, Typed
<1> QED BY <1>1, <1>2, <1>3, <1>4 DEF Next, KeyNext

LEMMA FlagStep ==
    ASSUME OneAtATime, Typed, FlagInv, [Next]_vars
    PROVE  FlagInv'
<1>1. CASE UNCHANGED <<pc, reading, reading_finished>>
  BY <1>1 DEF FlagInv
<1>2. ASSUME NEW p \in Proc, test_reading(p) PROVE FlagInv'
  <2>1. \A q \in Proc : pc[q] \in Outside
    BY <1>2 DEF test_reading
  <2>2. reading = 0 /\ reading_finished = 1
    BY <2>1 DEF FlagInv, Outside, Reading
  <2>3. Step(p, pc[p], "test") /\ UNCHANGED <<reading, reading_finished>>
    BY <1>2, <2>2 DEF test_reading
  <2>4. pc'[p] = "test" /\ \A q \in Proc : q # p => pc'[q] = pc[q]
    BY <2>3, StepFacts
  <2> QED BY <2>1, <2>2, <2>3, <2>4 DEF FlagInv, Outside
<1>3. ASSUME NEW p \in Proc, test_finished(p) PROVE FlagInv'
  <2>1. pc[p] = "test"
    BY <1>3 DEF test_finished, Step
  <2>2. reading = 0 /\ reading_finished = 1
    BY <2>1 DEF FlagInv, Outside, Reading
  <2>3. Step(p, "test", "set") /\ UNCHANGED <<reading, reading_finished>>
    BY <1>3, <2>2 DEF test_finished
  <2>4. pc'[p] = "set" /\ \A q \in Proc : q # p => pc'[q] = pc[q]
    BY <2>3, StepFacts
  <2> QED BY <2>1, <2>2, <2>3, <2>4 DEF FlagInv, Outside
<1>4. ASSUME NEW p \in Proc, set_reading(p) \/ mark_unfinished(p) \/ rewind(p) PROVE FlagInv'
  <2>1. PICK from \in {"set", "mark", "rewind"}, to \in {"mark", "rewind", "loop"} :
            Step(p, from, to)
    BY <1>4 DEF set_reading, mark_unfinished, rewind
  <2>2. /\ pc[p] = from /\ pc'[p] = to /\ \A q \in Proc : q # p => pc'[q] = pc[q]
    BY <2>1, StepFacts
  <2>3. \A q \in Proc : q # p => pc'[q] \in Outside
    BY <2>1, <2>2 DEF FlagInv, Outside
  <2> QED BY <2>1, <2>2, <2>3 DEF FlagInv, Outside, Reading
<1>5. ASSUME NEW p \in Proc, leave_loop(p) \/ copy(p) \/ release(p) PROVE FlagInv'
  <2>1. PICK from \in {"loop", "copy", "release"}, to \in {"copy", "release", "finish"} :
            Step(p, from, to)
    BY <1>5 DEF leave_loop, copy, release
  <2>2. /\ pc[p] = from /\ pc'[p] = to /\ \A q \in Proc : q # p => pc'[q] = pc[q]
    BY <2>1, StepFacts
  <2>3. \A q \in Proc : q # p => pc'[q] \in Outside
    BY <2>1, <2>2 DEF FlagInv, Outside
  <2>4. reading' = 0
    BY <1>5 DEF leave_loop, copy, release, FlagInv, Typed, Step
  <2> QED BY <2>1, <2>2, <2>3, <2>4 DEF FlagInv, Outside, Reading
<1>6. ASSUME NEW p \in Proc, finish(p) PROVE FlagInv'
  <2>1. Step(p, "finish", "user") /\ reading_finished' = 1 /\ reading' = reading
    BY <1>6 DEF finish
  <2>2. /\ pc[p] = "finish" /\ pc'[p] = "user" /\ \A q \in Proc : q # p => pc'[q] = pc[q]
    BY <2>1, StepFacts
  <2>3. \A q \in Proc : q # p => pc'[q] \in Outside
    BY <2>2 DEF FlagInv, Outside
  <2>4. reading' = 0
    BY <2>1, <2>2 DEF FlagInv
  <2> QED BY <2>1, <2>2, <2>3, <2>4 DEF FlagInv, Outside
<1>7. ASSUME NEW key \in {"a", NL}, keyboard_handler(key) PROVE FlagInv'
  <2>1. reading # 0 /\ reading' \in {0, reading} /\ UNCHANGED <<reading_finished, pc>>
    BY <1>7 DEF keyboard_handler, write_io_buff
  <2> QED BY <2>1 DEF FlagInv
<1> QED BY <1>1, <1>2, <1>3, <1>4, <1>5, <1>6, <1>7
        DEF Next, KeyNext, ProcNext, shift_key, caps_key, vars

(* A stored character lengthens the line by one. *)
LEMMA LineGrows ==
    ASSUME Typed, Stored, io_buff = Len(echoed) + 1, io_buff < BufSize, NEW c \in Char,
           Store(c), echoed' = Append(echoed, c)
    PROVE  Stored' /\ io_buff' = Len(echoed') + 1 /\ Last(echoed') = c /\ echoed' # <<>>
<1>1. BufSize \in Nat /\ echoed \in Seq(Char) /\ Len(echoed) \in Nat
  BY StdinReadAssumption DEF Typed
<1>2. /\ Len(echoed') = Len(echoed) + 1 /\ echoed'[Len(echoed) + 1] = c
      /\ \A i \in 1..Len(echoed) : echoed'[i] = echoed[i]
  BY <1>1
<1>3. /\ iobuff' = [iobuff EXCEPT ![Len(echoed) + 1] = c]
      /\ io_buff' = Len(echoed) + 2
  BY <1>1 DEF Store, NoBuffer
<1>4. Len(echoed) + 1 \in 1..BufSize /\ iobuff \in [1..BufSize -> Char \cup {NUL}]
  BY <1>1 DEF Typed
<1>5. /\ iobuff'[Len(echoed) + 1] = c
      /\ \A i \in 1..Len(echoed) : iobuff'[i] = iobuff[i]
  BY <1>1, <1>3, <1>4
<1>6. Stored'
  <2>1. Len(echoed') <= BufSize
    BY <1>1, <1>2
  <2>2. ASSUME NEW i \in 1..Len(echoed') PROVE iobuff'[i] = echoed'[i]
    BY <1>1, <1>2, <1>5 DEF Stored
  <2> QED BY <2>1, <2>2 DEF Stored
<1> QED BY <1>1, <1>2, <1>3, <1>6 DEF Last

(* What strlen counts and memcpy copies starts with the stored line. *)
LEMMA CopyIsPrefix ==
    ASSUME Typed, Stored
    PROVE  IsPrefix(echoed, [i \in 1..strlen |-> iobuff[i]])
<1>1. BufSize \in Nat /\ echoed \in Seq(Char) /\ Len(echoed) \in Nat
  BY StdinReadAssumption DEF Typed
<1> DEFINE n == strlen
           t == [i \in 1..n |-> iobuff[i]]
<1>2. n \in 0..BufSize /\ (n < BufSize => iobuff[n + 1] = NUL)
  BY StrlenFacts
<1>3. \A i \in 1..Len(echoed) : iobuff[i] = echoed[i] /\ echoed[i] \in Char
  BY <1>1 DEF Stored
<1>4. NUL \notin Char
  BY DEF NUL, Char, NL
<1>5. Len(echoed) <= n
  <2> SUFFICES ASSUME n < Len(echoed) PROVE FALSE
    BY <1>1, <1>2
  <2>1. n < BufSize /\ n + 1 \in 1..Len(echoed)
    BY <1>1, <1>2 DEF Stored
  <2> QED BY <1>2, <1>3, <1>4, <2>1
<1>6. t \in Seq(Char \cup {NUL}) /\ Len(t) = n
  <2> HIDE DEF n
  <2>1. \A i \in 1..n : iobuff[i] \in Char \cup {NUL}
    BY <1>1, <1>2 DEF Typed
  <2> QED BY <1>2, <2>1
<1>7. SubSeq(t, 1, Len(echoed)) = echoed
  <2> DEFINE u == SubSeq(t, 1, Len(echoed))
             L == Len(echoed)
  <2>1. \A i \in 1..L : t[i] = echoed[i] /\ t[i] \in Char
    BY <1>1, <1>2, <1>3, <1>5
  <2> HIDE DEF t
  <2>2. /\ u \in Seq(Char) /\ Len(u) = L
        /\ \A i \in 1..L : u[i] = t[i]
    BY <1>1, <2>1, SubSeqProperties
  <2> HIDE DEF u
  <2>3. u = echoed
    BY <1>1, <2>1, <2>2, SeqEqual
  <2> QED BY <2>3 DEF u
<1>8. SubSeq(echoed, 1, Len(echoed)) = echoed
  BY <1>1, SubSeqFull
<1> HIDE DEF t
<1>9. IsPrefix(echoed, t)
  BY <1>5, <1>6, <1>7, <1>8 DEF IsPrefix
<1> QED BY <1>9 DEF t

LEMMA LineStep ==
    ASSUME OneAtATime, Typed, FlagInv, ~ keysAnyTime, LineInv, [Next]_vars
    PROVE  LineInv'
<1>1. CASE UNCHANGED <<pc, reading, echoed, iobuff, io_buff, result>>
  BY <1>1 DEF LineInv, Stored, Ended
<1>2. ASSUME NEW p \in Proc, NEW from, from \notin Outside, NEW to,
             Step(p, from, to)
      PROVE  /\ pc[p] = from /\ pc'[p] = to
             /\ \A q \in Proc : q # p => pc'[q] \in Outside
  BY <1>2, StepFacts DEF FlagInv
<1>3. ASSUME NEW p \in Proc, test_reading(p) PROVE LineInv'
  <2>1. PICK to \in {"busy", "test"} : Step(p, pc[p], to)
    BY <1>3 DEF test_reading
  <2>2. \A q \in Proc : pc'[q] \in {"busy", "test", "user"}
    BY <1>3, <2>1, StepFacts DEF test_reading, Outside
  <2> QED BY <2>2 DEF LineInv
<1>4. ASSUME NEW p \in Proc, test_finished(p) PROVE LineInv'
  <2>1. PICK to \in {"busy", "set"} : Step(p, "test", to)
    BY <1>4 DEF test_finished
  <2>2. \A q \in Proc : pc'[q] \in {"busy", "set", "user"}
    BY Zenon, <2>1, <1>2 DEF Outside
  <2> QED BY <2>2 DEF LineInv
<1>5. ASSUME NEW p \in Proc, set_reading(p) PROVE LineInv'
  <2>1. Step(p, "set", "mark") /\ reading' = 1 /\ echoed' = <<>>
    BY <1>5 DEF set_reading
  <2>2. \A q \in Proc : pc'[q] \in {"mark", "busy", "user"}
    BY <2>1, <1>2 DEF Outside
  <2> QED BY <2>1, <2>2 DEF LineInv
<1>6. ASSUME NEW p \in Proc, mark_unfinished(p) PROVE LineInv'
  <2>1. Step(p, "mark", "rewind") /\ UNCHANGED <<reading, echoed>>
    BY <1>6 DEF mark_unfinished
  <2>2. /\ \A q \in Proc : pc'[q] \in {"rewind", "busy", "user"}
        /\ pc[p] = "mark"
    BY <2>1, <1>2 DEF Outside
  <2> QED BY <2>1, <2>2 DEF LineInv
<1>7. ASSUME NEW p \in Proc, rewind(p) PROVE LineInv'
  <2>1. Step(p, "rewind", "loop") /\ io_buff' = 1 /\ UNCHANGED <<reading, echoed, iobuff>>
    BY <1>7 DEF rewind
  <2>2. /\ \A q \in Proc : pc'[q] \in {"loop", "busy", "user"}
        /\ pc[p] = "rewind"
    BY <2>1, <1>2 DEF Outside
  <2>3. reading' = 1 /\ echoed' = <<>> /\ Len(echoed') = 0
    BY <2>1, <2>2 DEF LineInv
  <2>4. Stored'
    BY <2>3, StdinReadAssumption DEF Stored
  <2> QED BY <2>1, <2>2, <2>3, <2>4 DEF LineInv
<1>8. ASSUME NEW p \in Proc, leave_loop(p) PROVE LineInv'
  <2>1. /\ Step(p, "loop", "copy") /\ reading = 0
        /\ UNCHANGED <<reading, echoed, iobuff, io_buff>>
    BY <1>8 DEF leave_loop, Typed
  <2>2. /\ \A q \in Proc : pc'[q] \in {"copy", "busy", "user"}
        /\ pc[p] = "loop"
    BY <2>1, <1>2 DEF Outside
  <2>3. Stored /\ Ended
    BY <2>1, <2>2 DEF LineInv
  <2>4. Stored' /\ Ended'
    BY <2>1, <2>3 DEF Stored, Ended
  <2> QED BY <2>2, <2>4 DEF LineInv
<1>9. ASSUME NEW p \in Proc, copy(p) PROVE LineInv'
  <2>1. /\ Step(p, "copy", "release") /\ UNCHANGED <<echoed>>
        /\ result' = [result EXCEPT ![p] = [i \in 1..strlen |-> iobuff[i]]]
    BY <1>9 DEF copy
  <2>2. /\ \A q \in Proc : q # p => pc'[q] \in Outside
        /\ pc[p] = "copy" /\ pc'[p] = "release"
    BY Zenon, <2>1, <1>2 DEF Outside
  <2>3. Stored /\ Ended
    BY <2>2 DEF LineInv
  <2>4. IsPrefix(echoed, result'[p])
    BY <2>1, <2>3, CopyIsPrefix DEF Typed
  <2>5. IsPrefix(echoed, result[p])' /\ Ended'
    BY Zenon, <2>1, <2>3, <2>4 DEF Ended, IsPrefix
  <2> QED BY <2>2, <2>5 DEF LineInv, Outside
<1>10. ASSUME NEW p \in Proc, release(p) PROVE LineInv'
  <2>1. Step(p, "release", "finish") /\ UNCHANGED <<echoed, result>>
    BY <1>10 DEF release
  <2>2. /\ \A q \in Proc : q # p => pc'[q] \in Outside
        /\ pc[p] = "release" /\ pc'[p] = "finish"
    BY <2>1, <1>2 DEF Outside
  <2>3. IsPrefix(echoed, result[p]) /\ Ended
    BY <2>2 DEF LineInv
  <2>4. IsPrefix(echoed, result[p])' /\ Ended'
    BY <2>1, <2>3 DEF Ended, IsPrefix
  <2> QED BY <2>2, <2>4 DEF LineInv, Outside
<1>11. ASSUME NEW p \in Proc, finish(p) PROVE LineInv'
  <2>1. Step(p, "finish", "user")
    BY <1>11 DEF finish
  <2>2. \A q \in Proc : pc'[q] \in {"busy", "user"}
    BY Zenon, <2>1, <1>2 DEF Outside
  <2> QED BY <2>2 DEF LineInv
<1>12. ASSUME NEW key \in {"a", NL}, keyboard_handler(key) PROVE LineInv'
  <2>1. PICK c \in Char :
             /\ write_io_buff(c)
             /\ echoed' = IF c = NL /\ first_char = 0 THEN echoed ELSE Append(echoed, c)
             /\ UNCHANGED <<reading_finished, pc, result>>
             /\ reading # 0 /\ io_buff < BufSize
             /\ \E p \in Proc : pc[p] = "loop"
    BY <1>12, StoreFacts
  <2>2. PICK p \in Proc : pc[p] = "loop"
    BY <2>1
  <2>3. \A q \in Proc : q # p => pc'[q] \in Outside
    BY <2>1, <2>2 DEF FlagInv, Outside
  <2>4. Stored /\ io_buff = Len(echoed) + 1
    BY <2>2 DEF LineInv
  <2>5. Stored' /\ io_buff' = Len(echoed') + 1 /\ (reading' = 0 => Ended')
    <3>1. CASE c = NL /\ first_char = 0
      <4>1. UNCHANGED <<iobuff, io_buff, echoed, reading>>
        BY <2>1, <3>1 DEF write_io_buff
      <4> QED BY <2>1, <2>4, <4>1 DEF Stored
    <3>2. CASE ~ (c = NL /\ first_char = 0)
      <4>1. /\ Store(c) /\ echoed' = Append(echoed, c)
            /\ reading' = IF c = NL /\ first_char = 1 THEN 0 ELSE reading
        BY <2>1, <3>2 DEF write_io_buff
      <4>2. /\ Stored' /\ io_buff' = Len(echoed') + 1 /\ Last(echoed') = c /\ echoed' # <<>>
        BY <2>1, <2>4, <4>1, LineGrows
      <4>3. reading' = 0 => c = NL
        BY <2>1, <4>1
      <4> QED BY <4>2, <4>3 DEF Ended, Last
    <3> QED BY <3>1, <3>2
  <2> QED BY <2>1, <2>2, <2>3, <2>5 DEF LineInv, Outside
<1> QED BY Zenon, <1>1, <1>3, <1>4, <1>5, <1>6, <1>7, <1>8, <1>9, <1>10, <1>11, <1>12
        DEF Next, KeyNext, ProcNext, shift_key, caps_key, vars

-----------------------------------------------------------------------------
(* The flags, the line in iobuff and what was copied of it are as IInv     *)
(* says, as long as doread is called by one process at a time.             *)
THEOREM StdinInvariant ==
    ASSUME OneAtATime
    PROVE  Spec => []IInv
<1>1. Init => IInv
  BY InitEstablishes
<1>2. IInv /\ [Next]_vars => IInv'
  <2> SUFFICES ASSUME IInv, [Next]_vars PROVE IInv'
    OBVIOUS
  <2>1. keysAnyTime' = keysAnyTime
    BY DEF Next, KeyNext, ProcNext, vars
  <2> QED BY <2>1, TypedStep, FlagStep, LineStep DEF IInv
<1> QED BY <1>1, <1>2, PTL DEF Spec

(* doread never refuses a lone reader: every read leaves the flags idle,   *)
(* whenever the keys come.                                                 *)
THEOREM LoneReaderIsServed ==
    ASSUME OneAtATime
    PROVE  Spec => []NeverBusyAlone
<1>1. IInv => NeverBusyAlone
  BY DEF IInv, FlagInv, NeverBusyAlone
<1> QED BY <1>1, StdinInvariant, PTL

(* A line typed while the reader waits arrives, up to its enter, at the    *)
(* start of what doread copies, in a buffer of any size.                   *)
THEOREM TypedLineArrives ==
    ASSUME OneAtATime
    PROVE  Spec => []LineIsPrefix
<1>1. IInv => LineIsPrefix
  BY DEF IInv, LineInv, LineIsPrefix, Ended
<1> QED BY <1>1, StdinInvariant, PTL
=============================================================================
