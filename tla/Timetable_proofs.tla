--------------------------- MODULE Timetable_proofs ---------------------------
(***************************************************************************)
(* For any configuration, the schedule generator cuts the school day into  *)
(* blocks that lie end to end; and for any periods, entries, teachers and  *)
(* number of overlapping calls, what a call of the timetable service has   *)
(* checked while it ran alone stays apart, within the rules of load, and   *)
(* goes as a whole.  Both components are here because the timetable takes  *)
(* the generator's results.                                                *)
(*                                                                         *)
(* The argument for the timetable: no other call runs beside one that is   *)
(* alone (AloneInv), so that what it found when it looked is still so when *)
(* it writes (LoneInv); that is enough for what it writes to be apart from *)
(* what was checked before (CheckedInv), and no other statement can undo   *)
(* it, because an entry or period that is changed without a check, or      *)
(* whose teachers change, does not count as checked any more.              *)
(***************************************************************************)
EXTENDS Timetable, ScheduleGenerator, FiniteSetTheorems, WellFoundedInduction, TLAPS


-----------------------------------------------------------------------------
(* A set of natural numbers has a least one.                               *)

Less == {ss \in Nat \X Nat : ss[1] < ss[2]}

LEMMA LeastExists ==
  ASSUME NEW T \in SUBSET Nat, T # {}
  PROVE  \E x \in T : \A y \in T : x <= y
<1>1. IsWellFoundedOn(Less, Nat)
  BY NatLessThanWellFounded, Zenon DEF Less, OpToRel
<1>2. PICK x \in T : \A y \in T : ~(<<y, x>> \in Less)
  BY <1>1, WFMin
<1>3. ASSUME NEW y \in T PROVE x <= y
  <2>1. <<y, x>> \in Nat \X Nat /\ <<y, x>>[1] = y /\ <<y, x>>[2] = x
    OBVIOUS
  <2>2. ~(y < x)
    BY <1>2, <2>1 DEF Less
  <2> QED BY <2>2
<1> QED BY <1>3

-----------------------------------------------------------------------------
(* The schedule generator.                                                 *)

LEMMA InputTyped ==
  ASSUME DayTypeOK
  PROVE  /\ input.start \in Nat /\ input.end \in Nat /\ input.teaching \in Int
         /\ input.unallocated \in BOOLEAN
         /\ Configured \in Seq(ScheduleBlockConfig)
         /\ Indices \subseteq Nat
         /\ \A i \in Indices : /\ Configured[i] \in ScheduleBlockConfig
                               /\ Configured[i].duration \in Int
                               /\ Configured[i].at \in Int
                               /\ Configured[i].after \in Int
<1>1. input \in GenerateScheduleInput
  BY InputsAssumption DEF DayTypeOK
<1>2. /\ input.start \in Nat /\ input.end \in Nat /\ input.teaching \in Int
      /\ input.unallocated \in BOOLEAN /\ Configured \in Seq(ScheduleBlockConfig)
  BY <1>1 DEF GenerateScheduleInput, Configured
<1>3. \A i \in Indices : i \in Nat /\ Configured[i] \in ScheduleBlockConfig
  BY <1>2 DEF Indices
<1> QED BY <1>2, <1>3 DEF ScheduleBlockConfig

-----------------------------------------------------------------------------
(* The inductive invariant.  Up to the loop there is no period, and while  *)
(* nothing has failed every block is well formed; in the loop the timed    *)
(* blocks lie within school hours, and as soon as there is a period the    *)
(* cursor has not passed closing time; behind it, the cursor has reached   *)
(* closing time or there was an error.                                     *)

BeforeInv ==
  /\ pc \in {"start", "before"} => periods = 0
  /\ pc = "before" /\ ~failed => \A i \in Indices : WellFormed(Configured[i])
LoopInv ==
  pc \in {"loop", "after", "end"} =>
    /\ TimedWithinHours
    /\ \A i \in Indices : Configured[i].duration > 0
    /\ periods > 0 => cursor <= input.end
EndInv == pc = "end" /\ ~failed => cursor >= input.end

ScheduleInv == DayTypeOK /\ Contiguous /\ BeforeInv /\ LoopInv /\ EndInv /\ ValidCoversDay

LEMMA EarliestFound ==
  ASSUME DayTypeOK, LoopInv, pc = "loop", timed # {}
  PROVE  /\ Earliest \in timed /\ Earliest \in Indices
         /\ \A j \in timed : Configured[Earliest].at <= Configured[j].at
<1> DEFINE T == {Configured[i].at : i \in timed}
<1>1. \A i \in timed : /\ i \in Indices /\ Configured[i].at \in Nat
  BY InputTyped DEF DayTypeOK, LoopInv, TimedWithinHours
<1>2. \E x \in T : \A y \in T : x <= y
  BY <1>1, LeastExists
<1>3. \E i \in timed : \A j \in timed : Configured[i].at <= Configured[j].at
  BY <1>2
<1> QED BY <1>1, <1>3 DEF Earliest

LEMMA BoundaryInHours ==
  ASSUME DayTypeOK, LoopInv, Looping, NothingDue
  PROVE  Boundary \in Int /\ cursor < Boundary /\ Boundary <= input.end
<1>1. CASE timed = {}
  BY <1>1, InputTyped DEF Boundary, Looping
<1>2. CASE timed # {}
  <2>1. Earliest \in timed /\ Earliest \in Indices
    BY <1>2, EarliestFound DEF Looping
  <2>2. /\ TimedEnd(Earliest) <= input.end /\ Configured[Earliest].duration > 0
        /\ Configured[Earliest].at \in Int /\ Configured[Earliest].duration \in Int
    BY <2>1, InputTyped DEF LoopInv, Looping, TimedWithinHours
  <2> QED BY <1>2, <2>2, InputTyped DEF TimedEnd, Boundary, NothingDue
<1> QED BY <1>1, <1>2

(* A block added at the cursor keeps the blocks end to end, if the cursor  *)
(* moves to its end.                                                       *)
LEMMA AddAtCursor ==
  ASSUME DayTypeOK, Contiguous, NEW s \in Int, NEW d \in Int,
         addBlock(s, cursor, d), cursor' = cursor + d, input' = input
  PROVE  /\ Contiguous'
         /\ blocks' \in Seq(GeneratedScheduleBlock)
         /\ Len(blocks') = Len(blocks) + 1 /\ Len(blocks) \in Nat
         /\ cursor' \in Int
<1> DEFINE b == [source |-> s, start |-> cursor, end |-> cursor + d]
<1>1. b \in GeneratedScheduleBlock
  BY DEF GeneratedScheduleBlock, DayTypeOK
<1>2. blocks' = Append(blocks, b)
  BY DEF addBlock
<1>3. b.start = cursor /\ b.end = cursor'
  OBVIOUS
<1> HIDE DEF b
<1>4. /\ blocks' \in Seq(GeneratedScheduleBlock) /\ Len(blocks') = Len(blocks) + 1
      /\ Len(blocks) \in Nat /\ blocks'[Len(blocks) + 1] = b
      /\ \A n \in 1 .. Len(blocks) : blocks'[n] = blocks[n]
  BY <1>1, <1>2 DEF DayTypeOK
<1>5. cursor = IF Len(blocks) = 0 THEN input.start ELSE blocks[Len(blocks)].end
  BY DEF Contiguous, DayTypeOK
<1>6. ASSUME NEW n \in 1 .. Len(blocks')
      PROVE  blocks'[n].start = IF n = 1 THEN input'.start ELSE blocks'[n - 1].end
  <2>1. CASE n = Len(blocks) + 1
    BY <2>1, <1>3, <1>4, <1>5
  <2>2. CASE n \in 1 .. Len(blocks)
    <3>1. n = 1 \/ n - 1 \in 1 .. Len(blocks)
      BY <1>4
    <3> QED BY <2>2, <3>1, <1>4 DEF Contiguous
  <2> QED BY <2>1, <2>2, <1>4
<1>7. cursor' = blocks'[Len(blocks')].end /\ blocks' # <<>>
  BY <1>3, <1>4
<1>8. cursor' \in Int
  BY DEF DayTypeOK
<1> QED BY <1>4, <1>6, <1>7, <1>8 DEF Contiguous

-----------------------------------------------------------------------------
(* Every step keeps the invariant.                                         *)

LEMMA CheckInputKeeps == ScheduleInv /\ CheckInput => ScheduleInv'
<1> SUFFICES ASSUME ScheduleInv, CheckInput PROVE ScheduleInv'
  OBVIOUS
<1>1. DayTypeOK'
  BY DEF ScheduleInv, CheckInput, DayTypeOK, Indices, Configured
<1>2. BeforeInv'
  BY DEF ScheduleInv, CheckInput, BeforeInv, Indices, Configured, WellFormed
<1>3. Contiguous'
  BY DEF ScheduleInv, CheckInput, Contiguous
<1>4. LoopInv' /\ EndInv' /\ ValidCoversDay'
  BY DEF CheckInput, LoopInv, EndInv, ValidCoversDay, Valid
<1> QED BY <1>1, <1>2, <1>3, <1>4 DEF ScheduleInv

LEMMA PlaceBeforeTeachingKeeps == ScheduleInv /\ PlaceBeforeTeaching => ScheduleInv'
<1> SUFFICES ASSUME ScheduleInv, PlaceBeforeTeaching PROVE ScheduleInv'
  OBVIOUS
<1>1. /\ next \in Indices /\ next \in Int /\ Configured[next].duration \in Int
      /\ UNCHANGED <<input, periods, timed, failed, pc>> /\ pc = "before"
      /\ next' \in 1 .. Len(Configured) + 1
  BY InputTyped DEF ScheduleInv, PlaceBeforeTeaching, Indices, DayTypeOK
<1>2. /\ Contiguous' /\ cursor' \in Int /\ blocks' \in Seq(GeneratedScheduleBlock)
      /\ periods \in 0 .. Len(blocks')
  <2>1. CASE UNCHANGED <<blocks, cursor>>
    BY <1>1, <2>1 DEF ScheduleInv, Contiguous, DayTypeOK
  <2>2. CASE /\ addBlock(next, cursor, Configured[next].duration)
             /\ cursor' = cursor + Configured[next].duration
    BY <1>1, <2>2, AddAtCursor DEF ScheduleInv, DayTypeOK
  <2> QED BY <2>1, <2>2 DEF PlaceBeforeTeaching
<1>3. DayTypeOK'
  BY <1>1, <1>2 DEF ScheduleInv, DayTypeOK, Configured, Indices
<1>4. BeforeInv'
  BY <1>1 DEF ScheduleInv, BeforeInv, Configured, Indices, WellFormed
<1>5. LoopInv' /\ EndInv' /\ ValidCoversDay'
  BY <1>1 DEF LoopInv, EndInv, ValidCoversDay, Valid
<1> QED BY <1>2, <1>3, <1>4, <1>5 DEF ScheduleInv

LEMMA CheckTimedKeeps == ScheduleInv /\ CheckTimed => ScheduleInv'
<1> SUFFICES ASSUME ScheduleInv, CheckTimed PROVE ScheduleInv'
  OBVIOUS
<1>1. /\ UNCHANGED <<input, blocks, cursor, periods, timed, next>>
      /\ pc = "before" /\ periods = 0
  BY DEF CheckTimed, ScheduleInv, BeforeInv
<1>2. DayTypeOK' /\ Contiguous'
  BY <1>1 DEF ScheduleInv, CheckTimed, DayTypeOK, Contiguous, Configured, Indices
<1>3. CASE pc' = "loop" /\ ~failed /\ TimedFit /\ UNCHANGED failed
  <2>1. \A i \in Indices : Configured[i].duration > 0
    BY <1>1, <1>3 DEF ScheduleInv, BeforeInv, WellFormed
  <2>2. LoopInv'
    BY <1>1, <1>3, <2>1
       DEF LoopInv, TimedFit, TimedWithinHours, TimedEnd, Configured, Indices
  <2>3. BeforeInv' /\ EndInv' /\ ValidCoversDay'
    BY <1>3 DEF BeforeInv, EndInv, ValidCoversDay, Valid
  <2> QED BY <1>2, <2>2, <2>3 DEF ScheduleInv
<1>4. CASE pc' = "done" /\ failed' = TRUE
  <2>1. BeforeInv' /\ LoopInv' /\ EndInv' /\ ValidCoversDay'
    BY <1>4 DEF BeforeInv, LoopInv, EndInv, ValidCoversDay, Valid
  <2> QED BY <1>2, <2>1 DEF ScheduleInv
<1> QED BY <1>3, <1>4 DEF CheckTimed

LEMMA OverlapEarlierKeeps == ScheduleInv /\ OverlapEarlier => ScheduleInv'
<1> SUFFICES ASSUME ScheduleInv, OverlapEarlier PROVE ScheduleInv'
  OBVIOUS
<1>1. /\ UNCHANGED <<input, blocks, cursor, periods, timed, next>>
      /\ pc = "loop" /\ pc' = "end" /\ failed' = TRUE
  BY DEF OverlapEarlier, Looping
<1>2. DayTypeOK' /\ Contiguous'
  BY <1>1 DEF ScheduleInv, DayTypeOK, Contiguous, Configured, Indices
<1>3. LoopInv'
  BY <1>1 DEF ScheduleInv, LoopInv, TimedWithinHours, TimedEnd, Configured, Indices
<1>4. BeforeInv' /\ EndInv' /\ ValidCoversDay'
  BY <1>1 DEF BeforeInv, EndInv, ValidCoversDay, Valid
<1> QED BY <1>2, <1>3, <1>4 DEF ScheduleInv

(* What the three branches of the loop that place a block have in common.  *)
LEMMA LoopStepKeeps ==
  ASSUME ScheduleInv, pc \in {"loop", "after"},
         NEW s \in Int, NEW d \in Int,
         addBlock(s, cursor, d), cursor' = cursor + d, cursor' <= input.end,
         input' = input, timed' \subseteq timed, failed' = failed,
         pc' \in {"loop", "after"}, next' \in 1 .. Len(Configured) + 1,
         periods' \in {periods, periods + 1}
  PROVE  ScheduleInv'
<1>1. /\ Contiguous' /\ blocks' \in Seq(GeneratedScheduleBlock)
      /\ Len(blocks') = Len(blocks) + 1 /\ Len(blocks) \in Nat /\ cursor' \in Int
  BY AddAtCursor DEF ScheduleInv
<1>2. DayTypeOK'
  BY <1>1 DEF ScheduleInv, DayTypeOK, Configured, Indices
<1>3. LoopInv'
  BY DEF ScheduleInv, LoopInv, TimedWithinHours, TimedEnd, Configured, Indices
<1>4. BeforeInv' /\ EndInv' /\ ValidCoversDay'
  BY DEF BeforeInv, EndInv, ValidCoversDay, Valid
<1> QED BY <1>1, <1>2, <1>3, <1>4 DEF ScheduleInv

LEMMA PlaceTimedKeeps == ScheduleInv /\ PlaceTimed => ScheduleInv'
<1> SUFFICES ASSUME ScheduleInv, PlaceTimed PROVE ScheduleInv'
  OBVIOUS
<1>1. Earliest \in timed /\ Earliest \in Indices /\ Earliest \in Int
  BY EarliestFound, InputTyped DEF ScheduleInv, PlaceTimed, Looping, Indices
<1> DEFINE d == Configured[Earliest].duration
<1>2. d \in Int /\ TimedEnd(Earliest) = cursor + d /\ TimedEnd(Earliest) <= input.end
  BY <1>1, InputTyped
     DEF ScheduleInv, PlaceTimed, Looping, LoopInv, TimedWithinHours, TimedEnd
<1>3. /\ addBlock(Earliest, cursor, d) /\ cursor' = TimedEnd(Earliest)
      /\ timed' \subseteq timed /\ UNCHANGED <<input, periods, next, failed, pc>>
      /\ pc = "loop" /\ next \in 1 .. Len(Configured) + 1
  BY DEF PlaceTimed, Looping, ScheduleInv, DayTypeOK
<1> QED BY <1>1, <1>2, <1>3, LoopStepKeeps

LEMMA FillGapKeeps == ScheduleInv /\ FillGap => ScheduleInv'
<1> SUFFICES ASSUME ScheduleInv, FillGap PROVE ScheduleInv'
  OBVIOUS
<1>1. /\ Boundary \in Int /\ Boundary <= input.end /\ Boundary - cursor \in Int
      /\ cursor + (Boundary - cursor) = Boundary
  BY BoundaryInHours DEF ScheduleInv, FillGap, DayTypeOK
<1>2. /\ UNCHANGED <<input, timed, next, failed, pc>> /\ cursor' = Boundary
      /\ pc = "loop" /\ next \in 1 .. Len(Configured) + 1
      /\ periods' \in {periods, periods + 1}
      /\ \E s \in {Teaching, Gap} : addBlock(s, cursor, Boundary - cursor)
  BY DEF FillGap, Looping, ScheduleInv, DayTypeOK
<1>3. Teaching \in Int /\ Gap \in Int
  BY DEF Teaching, Gap
<1> QED BY <1>1, <1>2, <1>3, LoopStepKeeps

LEMMA PlacePeriodKeeps == ScheduleInv /\ PlacePeriod => ScheduleInv'
<1> SUFFICES ASSUME ScheduleInv, PlacePeriod PROVE ScheduleInv'
  OBVIOUS
<1>1. /\ input.teaching \in Int /\ cursor + input.teaching <= input.end
      /\ 1 \in 1 .. Len(Configured) + 1
  BY BoundaryInHours, InputTyped DEF ScheduleInv, PlacePeriod, DayTypeOK
<1>2. /\ UNCHANGED <<input, timed, failed>> /\ cursor' = cursor + input.teaching
      /\ pc = "loop" /\ pc' = "after" /\ next' = 1 /\ periods' = periods + 1
      /\ addBlock(Teaching, cursor, input.teaching) /\ Teaching \in Int
  BY DEF PlacePeriod, Looping, Teaching
<1> QED BY <1>1, <1>2, LoopStepKeeps

LEMMA PlaceAfterKeeps == ScheduleInv /\ PlaceAfter => ScheduleInv'
<1> SUFFICES ASSUME ScheduleInv, PlaceAfter PROVE ScheduleInv'
  OBVIOUS
<1> DEFINE d == Configured[next].duration
<1>1. /\ next \in Indices /\ next \in Int /\ d \in Int /\ pc = "after"
      /\ UNCHANGED <<input, periods, timed, pc>>
      /\ next' \in 1 .. Len(Configured) + 1
  BY InputTyped DEF ScheduleInv, PlaceAfter, Indices, DayTypeOK
<1>2. CASE /\ cursor + d <= input.end /\ addBlock(next, cursor, d)
           /\ cursor' = cursor + d /\ UNCHANGED failed
  BY <1>1, <1>2, LoopStepKeeps
<1>3. CASE UNCHANGED <<blocks, cursor>> /\ failed' \in {failed, TRUE}
  <2>1. DayTypeOK' /\ Contiguous'
    BY <1>1, <1>3 DEF ScheduleInv, DayTypeOK, Contiguous, Configured, Indices
  <2>2. LoopInv'
    BY <1>1, <1>3 DEF ScheduleInv, LoopInv, TimedWithinHours, TimedEnd, Configured, Indices
  <2>3. BeforeInv' /\ EndInv' /\ ValidCoversDay'
    BY <1>1 DEF BeforeInv, EndInv, ValidCoversDay, Valid
  <2> QED BY <2>1, <2>2, <2>3 DEF ScheduleInv
<1> QED BY <1>2, <1>3 DEF PlaceAfter

LEMMA GoOnKeeps == ScheduleInv /\ GoOn => ScheduleInv'
<1> SUFFICES ASSUME ScheduleInv, GoOn PROVE ScheduleInv'
  OBVIOUS
<1>1. DayTypeOK' /\ Contiguous'
  BY DEF ScheduleInv, GoOn, DayTypeOK, Contiguous, Configured, Indices
<1>2. LoopInv'
  BY DEF ScheduleInv, GoOn, LoopInv, TimedWithinHours, TimedEnd, Configured, Indices
<1>3. BeforeInv' /\ EndInv' /\ ValidCoversDay'
  BY DEF GoOn, BeforeInv, EndInv, ValidCoversDay, Valid
<1> QED BY <1>1, <1>2, <1>3 DEF ScheduleInv

LEMMA LeaveLoopKeeps == ScheduleInv /\ LeaveLoop => ScheduleInv'
<1> SUFFICES ASSUME ScheduleInv, LeaveLoop PROVE ScheduleInv'
  OBVIOUS
<1>1. DayTypeOK' /\ Contiguous'
  BY DEF ScheduleInv, LeaveLoop, DayTypeOK, Contiguous, Configured, Indices
<1>2. LoopInv'
  BY DEF ScheduleInv, LeaveLoop, LoopInv, TimedWithinHours, TimedEnd, Configured, Indices
<1>3. BeforeInv' /\ EndInv' /\ ValidCoversDay'
  BY DEF LeaveLoop, BeforeInv, EndInv, ValidCoversDay, Valid
<1> QED BY <1>1, <1>2, <1>3 DEF ScheduleInv

(* A result is valid only if there was no error in the loop, so that the   *)
(* cursor reached closing time, and if there is a period, so that it is    *)
(* not past it.                                                            *)
LEMMA ResultKeeps == ScheduleInv /\ Result => ScheduleInv'
<1> SUFFICES ASSUME ScheduleInv, Result PROVE ScheduleInv'
  OBVIOUS
<1>1. /\ UNCHANGED <<input, blocks, cursor, periods, timed, next>>
      /\ pc = "end" /\ pc' = "done" /\ failed' \in BOOLEAN
      /\ ~failed' => ~failed /\ periods # 0
  BY Zenon DEF Result
<1>2. DayTypeOK' /\ Contiguous'
  BY <1>1 DEF ScheduleInv, DayTypeOK, Contiguous, Configured, Indices
<1>3. ValidCoversDay'
  <2>1. ASSUME ~failed' PROVE cursor = input.end /\ blocks # <<>> /\ periods > 0
    <3>1. periods > 0 /\ Len(blocks) > 0 /\ cursor \in Int /\ input.end \in Nat
      BY <1>1, <2>1, InputTyped DEF ScheduleInv, DayTypeOK
    <3>2. cursor <= input.end /\ cursor >= input.end
      BY <1>1, <2>1, <3>1 DEF ScheduleInv, LoopInv, EndInv
    <3> QED BY <3>1, <3>2
  <2> QED BY <1>1, <2>1 DEF ValidCoversDay, Valid
<1>4. BeforeInv' /\ LoopInv' /\ EndInv'
  BY <1>1 DEF BeforeInv, LoopInv, EndInv
<1> QED BY <1>2, <1>3, <1>4 DEF ScheduleInv

LEMMA ScheduleInvInitially == DayInit => ScheduleInv
<1> SUFFICES ASSUME DayInit PROVE ScheduleInv
  OBVIOUS
<1>1. input \in GenerateScheduleInput /\ input.start \in Nat /\ Len(Configured) \in Nat
  BY InputsAssumption DEF DayInit, GenerateScheduleInput, Configured
<1>2. <<>> \in Seq(GeneratedScheduleBlock) /\ Len(<<>>) = 0
  OBVIOUS
<1>3. DayTypeOK
  <2>1. blocks \in Seq(GeneratedScheduleBlock) /\ periods \in 0 .. Len(blocks)
    BY <1>2 DEF DayInit
  <2>2. next \in 1 .. Len(Configured) + 1 /\ cursor \in Int
    BY <1>1 DEF DayInit
  <2> QED BY <2>1, <2>2 DEF DayInit, DayTypeOK
<1> QED BY <1>3, <1>2
  DEF DayInit, ScheduleInv, Contiguous, BeforeInv, LoopInv, EndInv, ValidCoversDay, Valid

LEMMA ScheduleInvKept == ScheduleInv /\ [DayNext]_dayVars => ScheduleInv'
<1> SUFFICES ASSUME ScheduleInv, [DayNext]_dayVars PROVE ScheduleInv'
  OBVIOUS
<1>1. CASE UNCHANGED dayVars
  BY <1>1 DEF dayVars, ScheduleInv, DayTypeOK, Contiguous, BeforeInv, LoopInv, EndInv,
              ValidCoversDay, Valid, TimedWithinHours, TimedEnd, Configured, Indices,
              WellFormed
<1> QED BY <1>1, CheckInputKeeps, PlaceBeforeTeachingKeeps, CheckTimedKeeps,
           OverlapEarlierKeeps, PlaceTimedKeeps, FillGapKeeps, PlacePeriodKeeps,
           PlaceAfterKeeps, GoOnKeeps, LeaveLoopKeeps, ResultKeeps DEF DayNext

LEMMA ScheduleInvAlways == DaySpec => []ScheduleInv
BY ScheduleInvInitially, ScheduleInvKept, PTL DEF DaySpec

-----------------------------------------------------------------------------
(* The variables keep their types, and there are never more periods than   *)
(* blocks.                                                                 *)
THEOREM DayTypeCorrect == DaySpec => []DayTypeOK
<1>1. ScheduleInv => DayTypeOK
  BY DEF ScheduleInv
<1> QED BY <1>1, ScheduleInvAlways, PTL

(* The generated blocks lie end to end from the opening of the school to   *)
(* the cursor: addBlock and the movements of the cursor in the branches of *)
(* the loop agree.                                                         *)
THEOREM ContiguousAlways == DaySpec => []Contiguous
<1>1. ScheduleInv => Contiguous
  BY DEF ScheduleInv
<1> QED BY <1>1, ScheduleInvAlways, PTL

(* A schedule that generate calls valid ends with the school day, to the   *)
(* minute, and has a teaching period.                                      *)
THEOREM ValidCoversDayAlways == DaySpec => []ValidCoversDay
<1>1. ScheduleInv => ValidCoversDay
  BY DEF ScheduleInv
<1> QED BY <1>1, ScheduleInvAlways, PTL

(* Together: whatever is configured, a schedule that is called valid cuts  *)
(* the school day into blocks, from its first minute to its last.          *)
THEOREM DayIsCutAlways == DaySpec => []DayIsCut
BY ContiguousAlways, ValidCoversDayAlways, PTL DEF DayIsCut
-----------------------------------------------------------------------------
(* Why every block is where it was configured.  As long as nothing has     *)
(* failed, a block either still waits for its place, and is nowhere yet,   *)
(* or has come to it for good; behind a period the last block is that      *)
(* period or a block configured to follow it.                              *)

Waiting(i) ==
  CASE Configured[i].placement = "BEFORE_TEACHING" -> pc = "before" /\ i >= next
    [] Configured[i].placement = "AT_TIME" -> i \in timed
    [] Configured[i].placement = "AFTER_PERIOD" ->
         \/ Configured[i].after > periods
         \/ Configured[i].after = periods /\ pc = "after" /\ i >= next
PlacedAt(i, n) ==
  /\ PlacesOf(i) = {n}
  /\ Configured[i].placement = "AFTER_PERIOD" => n - 1 \in 1 .. Len(blocks)
  /\ InPlace(i, n)
LeftOut(i) ==
  /\ Configured[i].placement = "AFTER_PERIOD"
  /\ Shortened(Configured[i].after) /\ PlacesOf(i) = {}
Settled(i) == LeftOut(i) \/ \E n \in 1 .. Len(blocks) : PlacedAt(i, n)
Due(i) == IF Waiting(i) THEN PlacesOf(i) = {} ELSE Settled(i)

LastFits ==
  pc = "after" =>
    /\ Len(blocks) > 0
    /\ blocks[Len(blocks)].source \in {Teaching} \cup PlacedAfter
NothingLeft ==
  pc = "done" =>
    /\ timed = {}
    /\ \A i \in Indices : Configured[i].placement = "AFTER_PERIOD"
                            => Configured[i].after <= periods

TimedOnly == \A i \in timed : Configured[i].placement = "AT_TIME"

PlacedInv ==
  /\ pc = "start" => blocks = <<>> /\ next = 1
  /\ pc # "start" /\ ~failed =>
       /\ \A i \in Indices : WellFormed(Configured[i])
       /\ PeriodsUpTo(Len(blocks)) = periods
       /\ \A i \in Indices : Due(i)
       /\ LastFits
       /\ NothingLeft

LEMMA PeriodsCounted ==
  ASSUME NEW f, NEW n \in Nat
  PROVE  LET S == {j \in 1 .. n : f[j].source = Teaching}
         IN  IsFiniteSet(S) /\ Cardinality(S) \in Nat
<1>1. IsFiniteSet(1 .. n)
  BY FS_Interval
<1>2. IsFiniteSet({j \in 1 .. n : f[j].source = Teaching})
  BY <1>1, FS_Subset
<1> QED BY <1>2, FS_CardinalityType

(* What a block that is added changes: its own place, and the number of    *)
(* periods if it is one; everything before it stays as it was.             *)
LEMMA Appended ==
  ASSUME DayTypeOK, NEW s \in Int, NEW c \in Int, NEW d \in Int,
         addBlock(s, c, d), input' = input
  PROVE  /\ Len(blocks) \in Nat /\ Len(blocks') = Len(blocks) + 1
         /\ \A n \in 1 .. Len(blocks) : blocks'[n] = blocks[n]
         /\ blocks'[Len(blocks) + 1] = [source |-> s, start |-> c, end |-> c + d]
         /\ PlacesOf(s)' = PlacesOf(s) \cup {Len(blocks) + 1}
         /\ \A i : i # s => PlacesOf(i)' = PlacesOf(i)
         /\ \A n \in 0 .. Len(blocks) : PeriodsUpTo(n)' = PeriodsUpTo(n)
         /\ PeriodsUpTo(Len(blocks))' =
              PeriodsUpTo(Len(blocks)) + (IF s = Teaching THEN 1 ELSE 0)
<1>0. PICK b : b = [source |-> s, start |-> c, end |-> c + d]
  OBVIOUS
<1>1. b \in GeneratedScheduleBlock /\ b.source = s
  BY <1>0 DEF GeneratedScheduleBlock
<1>2. blocks' = Append(blocks, b)
  BY <1>0 DEF addBlock
<1>3. /\ Len(blocks) \in Nat /\ Len(blocks') = Len(blocks) + 1
      /\ \A n \in 1 .. Len(blocks) : blocks'[n] = blocks[n]
      /\ blocks'[Len(blocks) + 1] = b
  BY <1>1, <1>2 DEF DayTypeOK
<1>4. PICK m : m = Len(blocks)
  OBVIOUS
<1>5. m \in Nat /\ 1 .. m + 1 = (1 .. m) \cup {m + 1} /\ m + 1 \notin 1 .. m
  BY <1>3, <1>4
<1>6. PlacesOf(s)' = PlacesOf(s) \cup {Len(blocks) + 1}
  BY <1>1, <1>3, <1>4, <1>5 DEF PlacesOf
<1>7. ASSUME NEW i, i # s PROVE PlacesOf(i)' = PlacesOf(i)
  BY <1>1, <1>3, <1>4, <1>5, <1>7 DEF PlacesOf
<1>8. ASSUME NEW n \in 0 .. Len(blocks) PROVE PeriodsUpTo(n)' = PeriodsUpTo(n)
  <2>1. \A j \in 1 .. n : blocks'[j] = blocks[j]
    BY <1>3
  <2>2. {j \in 1 .. n : blocks'[j].source = Teaching}
          = {j \in 1 .. n : blocks[j].source = Teaching}
    BY <2>1
  <2> QED BY <2>2 DEF PeriodsUpTo
<1>9. PICK S : S = {j \in 1 .. m : blocks[j].source = Teaching}
  OBVIOUS
<1>10. PICK S2 : S2 = {j \in 1 .. m + 1 : blocks'[j].source = Teaching}
  OBVIOUS
<1>11. IsFiniteSet(S) /\ Cardinality(S) \in Nat /\ m + 1 \notin S
  BY <1>5, <1>9, PeriodsCounted
<1>12. /\ PeriodsUpTo(Len(blocks)) = Cardinality(S)
       /\ PeriodsUpTo(Len(blocks))' = Cardinality(S2)
  BY <1>3, <1>4, <1>9, <1>10 DEF PeriodsUpTo
<1>13. S2 = IF s = Teaching THEN S \cup {m + 1} ELSE S
  <2>1. \A j \in 1 .. m : blocks'[j] = blocks[j]
    BY <1>3, <1>4
  <2>2. blocks'[m + 1].source = s
    BY <1>1, <1>3, <1>4
  <2> QED BY <1>5, <1>9, <1>10, <2>1, <2>2
<1>14. Cardinality(S2) = Cardinality(S) + (IF s = Teaching THEN 1 ELSE 0)
  <2>1. CASE s = Teaching
    <3>1. Cardinality(S \cup {m + 1}) = Cardinality(S) + 1
      BY <1>11, FS_AddElement
    <3> QED BY <2>1, <3>1, <1>13
  <2>2. CASE s # Teaching
    BY <2>2, <1>11, <1>13
  <2> QED BY <2>1, <2>2
<1> QED BY <1>0, <1>3, <1>6, <1>7, <1>8, <1>12, <1>14

LEMMA PlacementKnown ==
  ASSUME DayTypeOK, NEW i \in Indices
  PROVE  Configured[i].placement \in Placements
BY InputTyped DEF ScheduleBlockConfig

(* Whoever has come to his place stays there when another block is added.  *)
LEMMA SettledStays ==
  ASSUME DayTypeOK, NEW s \in Int, NEW c \in Int, NEW d \in Int,
         addBlock(s, c, d), input' = input,
         NEW i \in Indices, i # s, Settled(i)
  PROVE  Settled(i)'
<1>1. /\ Len(blocks) \in Nat /\ Len(blocks') = Len(blocks) + 1
      /\ \A n \in 1 .. Len(blocks) : blocks'[n] = blocks[n]
      /\ PlacesOf(i)' = PlacesOf(i)
      /\ \A n \in 0 .. Len(blocks) : PeriodsUpTo(n)' = PeriodsUpTo(n)
  BY Appended
<1>2. \A n \in 1 .. Len(blocks) :
        n \in 1 .. Len(blocks') /\ PeriodsUpTo(n)' = PeriodsUpTo(n)
  BY <1>1
<1>3. Configured' = Configured /\ Indices' = Indices
  BY DEF Configured, Indices
<1>4. CASE LeftOut(i)
  <2>1. PICK n \in 1 .. Len(blocks) :
          /\ blocks[n].source = Teaching /\ PeriodsUpTo(n) = Configured[i].after
          /\ blocks[n].end - blocks[n].start < input.teaching
    BY <1>4 DEF LeftOut, Shortened
  <2>2. /\ n \in 1 .. Len(blocks')
        /\ blocks'[n].source = Teaching /\ PeriodsUpTo(n)' = Configured'[i].after
        /\ blocks'[n].end - blocks'[n].start < input'.teaching
    BY <1>1, <1>2, <1>3, <2>1
  <2>3. Shortened(Configured[i].after)'
    BY <2>2 DEF Shortened
  <2> QED BY <1>1, <1>3, <1>4, <2>3 DEF Settled, LeftOut
<1>5. ASSUME NEW n \in 1 .. Len(blocks), PlacedAt(i, n) PROVE Settled(i)'
  <2>1. /\ n \in 1 .. Len(blocks') /\ blocks'[n] = blocks[n]
        /\ PeriodsUpTo(n)' = PeriodsUpTo(n) /\ PlacesOf(i)' = {n}
        /\ \A k \in 1 .. Len(blocks) : k \in 1 .. Len(blocks')
    BY <1>1, <1>2, <1>5 DEF PlacedAt
  <2>2. CASE Configured[i].placement = "AFTER_PERIOD"
    <3>1. /\ n - 1 \in 1 .. Len(blocks) /\ n - 1 \in 1 .. Len(blocks')
          /\ blocks'[n - 1] = blocks[n - 1] /\ RightBehind(i, n)
      BY <1>1, <1>5, <2>1, <2>2 DEF PlacedAt, InPlace
    <3>2. RightBehind(i, n)'
      BY <1>3, <2>1, <3>1 DEF RightBehind
    <3> QED BY <1>3, <2>1, <2>2, <3>1, <3>2 DEF Settled, PlacedAt, InPlace
  <2>3. CASE Configured[i].placement # "AFTER_PERIOD"
    <3>1. Configured[i].placement \in {"BEFORE_TEACHING", "AT_TIME"}
      BY <2>3, PlacementKnown DEF Placements
    <3>2. CASE Configured[i].placement = "BEFORE_TEACHING"
      BY <1>3, <1>5, <2>1, <3>2 DEF Settled, PlacedAt, InPlace
    <3>3. CASE Configured[i].placement = "AT_TIME"
      BY <1>3, <1>5, <2>1, <3>3 DEF Settled, PlacedAt, InPlace
    <3> QED BY <3>1, <3>2, <3>3
  <2> QED BY <2>2, <2>3
<1> QED BY <1>4, <1>5 DEF Settled

-----------------------------------------------------------------------------
(* The steps that add no block.                                            *)

LEMMA DueSame ==
  ASSUME UNCHANGED <<input, blocks>>, NEW i \in Indices,
         Due(i), Waiting(i)' <=> Waiting(i)
  PROVE  Due(i)'
<1>1. /\ PlacesOf(i)' = PlacesOf(i)
      /\ Settled(i)' <=> Settled(i)
  BY DEF PlacesOf, Settled, LeftOut, PlacedAt, InPlace, RightBehind, Shortened,
         PeriodsUpTo, Configured, Indices
<1> QED BY <1>1 DEF Due

LEMMA CheckInputPlaces == ScheduleInv /\ PlacedInv /\ CheckInput => PlacedInv'
<1> SUFFICES ASSUME ScheduleInv, PlacedInv, CheckInput PROVE PlacedInv'
  OBVIOUS
<1>1. /\ UNCHANGED <<input, blocks, cursor, periods, next>> /\ pc = "start"
      /\ blocks = <<>> /\ next = 1 /\ periods = 0 /\ DayTypeOK
  BY DEF ScheduleInv, BeforeInv, PlacedInv, CheckInput
<1>2. CASE failed' = TRUE /\ pc' = "done"
  BY <1>2 DEF PlacedInv
<1>3. CASE /\ failed' = \E i \in Indices : ~WellFormed(Configured[i])
           /\ timed' = {i \in Indices : /\ Configured[i].placement = "AT_TIME"
                                        /\ Configured[i].at # NoTime}
           /\ pc' = "before"
  <2>1. CASE failed'
    BY <1>3, <2>1 DEF PlacedInv
  <2>2. CASE ~failed'
    <3>1. \A i \in Indices : WellFormed(Configured[i])
      BY <1>3, <2>2
    <3>2. Len(blocks) = 0 /\ PeriodsUpTo(0)' = 0
      <4>1. {j \in 1 .. 0 : blocks'[j].source = Teaching} = {}
        OBVIOUS
      <4> QED BY <1>1, <4>1, FS_EmptySet DEF PeriodsUpTo
    <3>3. PeriodsUpTo(Len(blocks))' = periods'
      BY <1>1, <3>2
    <3>4. ASSUME NEW i \in Indices PROVE Due(i)'
      <4>1. PlacesOf(i)' = {}
        BY <1>1 DEF PlacesOf
      <4>2. i >= 1 /\ Configured[i].placement \in Placements /\ Configured[i].after \in Int
        BY <1>1, PlacementKnown, InputTyped DEF Indices
      <4>3. Waiting(i)'
        <5>1. CASE Configured[i].placement = "BEFORE_TEACHING"
          BY <1>1, <1>3, <4>2, <5>1 DEF Waiting, Configured
        <5>2. CASE Configured[i].placement = "AT_TIME"
          <6>1. i \in timed'
            BY <1>3, <3>1, <5>2 DEF WellFormed
          <6> QED BY <1>1, <5>2, <6>1 DEF Waiting, Configured
        <5>3. CASE Configured[i].placement = "AFTER_PERIOD"
          <6>1. Configured[i].after > periods'
            BY <1>1, <3>1, <4>2, <5>3 DEF WellFormed
          <6> QED BY <1>1, <5>3, <6>1 DEF Waiting, Configured
        <5> QED BY <4>2, <5>1, <5>2, <5>3 DEF Placements
      <4> QED BY <4>1, <4>3 DEF Due
    <3>5. Configured' = Configured /\ Indices' = Indices
      BY <1>1 DEF Configured, Indices
    <3>6. (\A i \in Indices : WellFormed(Configured[i]))'
      BY <3>1, <3>5 DEF WellFormed
    <3> QED BY <1>3, <3>3, <3>4, <3>5, <3>6 DEF PlacedInv, LastFits, NothingLeft
  <2> QED BY <2>1, <2>2
<1> QED BY <1>2, <1>3 DEF CheckInput

(* What a step that adds no block has to say: that whoever waited waits    *)
(* still, and nobody else.                                                 *)
LEMMA NoBlockPlaces ==
  ASSUME ScheduleInv, PlacedInv, UNCHANGED <<input, blocks, periods>>,
         pc # "start", pc' # "start", failed' \/ ~failed,
         ~failed' => \A i \in Indices : Waiting(i)' <=> Waiting(i),
         ~failed' => LastFits', ~failed' => NothingLeft'
  PROVE  PlacedInv'
<1>1. CASE ~failed'
  <2>1. /\ \A i \in Indices : WellFormed(Configured[i]) /\ Due(i)
        /\ PeriodsUpTo(Len(blocks)) = periods
    BY <1>1 DEF PlacedInv
  <2>2. \A i \in Indices : Due(i)'
    BY <1>1, <2>1, DueSame
  <2>3. Configured' = Configured /\ Indices' = Indices
    BY DEF Configured, Indices
  <2>4. PeriodsUpTo(Len(blocks))' = periods'
    BY <2>1 DEF PeriodsUpTo
  <2>5. (\A i \in Indices : WellFormed(Configured[i]))'
    BY <2>1, <2>3 DEF WellFormed
  <2>6. (\A i \in Indices : Due(i))'
    BY <2>2, <2>3
  <2> QED BY <1>1, <2>4, <2>5, <2>6 DEF PlacedInv
<1>2. CASE failed'
  BY <1>2 DEF PlacedInv
<1> QED BY <1>1, <1>2

LEMMA CheckTimedPlaces == ScheduleInv /\ PlacedInv /\ CheckTimed => PlacedInv'
<1> SUFFICES ASSUME ScheduleInv, PlacedInv, CheckTimed PROVE PlacedInv'
  OBVIOUS
<1>1. /\ UNCHANGED <<input, blocks, cursor, periods, timed, next>>
      /\ pc = "before" /\ next \notin Indices
      /\ \/ failed' = TRUE /\ pc' = "done"
         \/ ~failed /\ ~failed' /\ pc' = "loop"
  BY DEF CheckTimed
<1>2. CASE failed'
  BY <1>1, <1>2 DEF PlacedInv
<1>3. CASE ~failed'
  <2>1. ~failed /\ pc' = "loop"
    BY <1>1, <1>3
  <2>2. ASSUME NEW i \in Indices PROVE Waiting(i)' <=> Waiting(i)
    <3>1. /\ i < next /\ ~(i >= next) /\ Configured[i].placement \in Placements
      BY <1>1, PlacementKnown DEF ScheduleInv, DayTypeOK, Indices
    <3> QED BY <1>1, <2>1, <3>1 DEF Waiting, Configured, Placements
  <2>3. LastFits' /\ NothingLeft'
    BY <2>1 DEF LastFits, NothingLeft
  <2> QED BY <1>1, <1>3, <2>1, <2>2, <2>3, NoBlockPlaces
<1> QED BY <1>2, <1>3

LEMMA OverlapEarlierPlaces == ScheduleInv /\ PlacedInv /\ OverlapEarlier => PlacedInv'
BY DEF OverlapEarlier, PlacedInv

LEMMA GoOnPlaces == ScheduleInv /\ PlacedInv /\ GoOn => PlacedInv'
<1> SUFFICES ASSUME ScheduleInv, PlacedInv, GoOn PROVE PlacedInv'
  OBVIOUS
<1>1. /\ UNCHANGED <<input, blocks, cursor, periods, timed, next, failed>>
      /\ pc = "after" /\ next \notin Indices /\ pc' = "loop"
  BY DEF GoOn
<1>2. ASSUME NEW i \in Indices PROVE Waiting(i)' <=> Waiting(i)
  <2>1. ~(i >= next) /\ Configured[i].placement \in Placements
    BY <1>1, PlacementKnown DEF ScheduleInv, DayTypeOK, Indices
  <2> QED BY <1>1, <2>1 DEF Waiting, Configured, Placements
<1>3. LastFits' /\ NothingLeft'
  BY <1>1 DEF LastFits, NothingLeft
<1> QED BY <1>1, <1>2, <1>3, NoBlockPlaces

LEMMA LeaveLoopPlaces == ScheduleInv /\ PlacedInv /\ LeaveLoop => PlacedInv'
<1> SUFFICES ASSUME ScheduleInv, PlacedInv, LeaveLoop PROVE PlacedInv'
  OBVIOUS
<1>1. /\ UNCHANGED <<input, blocks, cursor, periods, timed, next, failed>>
      /\ pc = "loop" /\ pc' = "end"
  BY DEF LeaveLoop
<1>2. ASSUME NEW i \in Indices PROVE Waiting(i)' <=> Waiting(i)
  BY <1>1, PlacementKnown DEF Waiting, Configured, Placements, ScheduleInv
<1>3. LastFits' /\ NothingLeft'
  BY <1>1 DEF LastFits, NothingLeft
<1> QED BY <1>1, <1>2, <1>3, NoBlockPlaces

LEMMA ResultPlaces == ScheduleInv /\ PlacedInv /\ Result => PlacedInv'
<1> SUFFICES ASSUME ScheduleInv, PlacedInv, Result PROVE PlacedInv'
  OBVIOUS
<1>1. /\ UNCHANGED <<input, blocks, cursor, periods, timed, next>>
      /\ pc = "end" /\ pc' = "done"
      /\ ~failed' => /\ ~failed /\ timed = {}
                     /\ ~ \E i \in Indices : /\ Configured[i].placement = "AFTER_PERIOD"
                                             /\ Configured[i].after > periods
  BY Zenon DEF Result
<1>2. ASSUME NEW i \in Indices PROVE Waiting(i)' <=> Waiting(i)
  BY <1>1, PlacementKnown DEF Waiting, Configured, Placements, ScheduleInv
<1>3. ASSUME ~failed' PROVE LastFits' /\ NothingLeft'
  <2>1. \A i \in Indices : Configured[i].after \in Int
    BY InputTyped DEF ScheduleInv
  <2>2. \A i \in Indices : Configured[i].placement = "AFTER_PERIOD"
                            => Configured[i].after <= periods
    BY <1>1, <1>3, <2>1 DEF ScheduleInv, DayTypeOK
  <2> QED BY <1>1, <1>3, <2>2 DEF LastFits, NothingLeft, Configured, Indices
<1>4. failed' \/ ~failed
  BY <1>1
<1> QED BY <1>1, <1>2, <1>3, <1>4, NoBlockPlaces

-----------------------------------------------------------------------------
(* The steps that add a block.                                             *)

(* A block that was nowhere yet comes to its place if it is added there.   *)
LEMMA OwnPlace ==
  ASSUME DayTypeOK, NEW s \in Indices, NEW c \in Int, NEW d \in Int,
         addBlock(s, c, d), input' = input, PlacesOf(s) = {},
         Configured[s].placement = "BEFORE_TEACHING" => PeriodsUpTo(Len(blocks)) = 0,
         Configured[s].placement = "AT_TIME" => c = Configured[s].at,
         Configured[s].placement = "AFTER_PERIOD" =>
           /\ PeriodsUpTo(Len(blocks)) = Configured[s].after /\ Len(blocks) > 0
           /\ blocks[Len(blocks)].source \in {Teaching} \cup
                {j \in Indices : /\ Configured[j].placement = "AFTER_PERIOD"
                                 /\ Configured[j].after = Configured[s].after}
  PROVE  Settled(s)'
<1>1. s \in Int /\ s # Teaching /\ Configured[s].placement \in Placements
  BY PlacementKnown, InputTyped DEF Indices, Teaching
<1>2. PICK m : m = Len(blocks)
  OBVIOUS
<1>3. PICK n : n = m + 1
  OBVIOUS
<1>4. /\ m \in Nat /\ Len(blocks') = n /\ n \in 1 .. n /\ n - 1 = m
      /\ \A k \in 1 .. m : blocks'[k] = blocks[k]
      /\ blocks'[n] = [source |-> s, start |-> c, end |-> c + d]
      /\ PlacesOf(s)' = {n}
      /\ PeriodsUpTo(Len(blocks))' = PeriodsUpTo(Len(blocks))
  <2>1. PeriodsUpTo(Len(blocks)) \in Nat
    <3>1. Len(blocks) \in Nat
      BY DEF DayTypeOK
    <3> QED BY <3>1, PeriodsCounted DEF PeriodsUpTo
  <2> QED BY <1>1, <1>2, <1>3, <2>1, Appended
<1>5. PeriodsUpTo(n)' = PeriodsUpTo(Len(blocks))
  <2>1. PeriodsUpTo(n)' = PeriodsUpTo(Len(blocks))'
    BY <1>4 DEF PeriodsUpTo
  <2> QED BY <1>4, <2>1
<1>6. Configured' = Configured /\ Indices' = Indices
  BY DEF Configured, Indices
<1>7. n \in 1 .. Len(blocks')
  BY <1>4
<1>8. CASE Configured[s].placement = "BEFORE_TEACHING"
  BY <1>4, <1>5, <1>6, <1>7, <1>8 DEF Settled, PlacedAt, InPlace
<1>9. CASE Configured[s].placement = "AT_TIME"
  BY <1>4, <1>5, <1>6, <1>7, <1>9 DEF Settled, PlacedAt, InPlace
<1>10. CASE Configured[s].placement = "AFTER_PERIOD"
  <2>1. m \in 1 .. m /\ m \in 1 .. Len(blocks') /\ blocks'[n - 1] = blocks[Len(blocks)]
    BY <1>2, <1>3, <1>4, <1>10
  <2>2. RightBehind(s, n)'
    BY <1>5, <1>6, <1>10, <2>1 DEF RightBehind
  <2>3. n - 1 \in 1 .. Len(blocks')
    BY <1>4, <2>1
  <2> QED BY <1>4, <1>6, <1>7, <1>10, <2>2, <2>3 DEF Settled, PlacedAt, InPlace
<1> QED BY <1>1, <1>8, <1>9, <1>10 DEF Placements

LEMMA BlockPlaces ==
  ASSUME ScheduleInv, PlacedInv, pc # "start", pc' # "start", ~failed,
         UNCHANGED input,
         NEW s \in Int, NEW d \in Int, addBlock(s, cursor, d),
         periods' = periods + (IF s = Teaching THEN 1 ELSE 0),
         \A i \in Indices : i # s => \/ Waiting(i)' <=> Waiting(i)
                                     \/ ~Waiting(i)' /\ LeftOut(i)',
         s \in Indices => ~Waiting(s)' /\ Settled(s)',
         LastFits', NothingLeft'
  PROVE  PlacedInv'
<1>1. /\ \A i \in Indices : WellFormed(Configured[i]) /\ Due(i)
      /\ PeriodsUpTo(Len(blocks)) = periods /\ DayTypeOK /\ cursor \in Int
  BY DEF PlacedInv, ScheduleInv, DayTypeOK
<1>2. Configured' = Configured /\ Indices' = Indices
  BY DEF Configured, Indices
<1>3. PeriodsUpTo(Len(blocks))' = periods'
  BY <1>1, Appended
<1>4. ASSUME NEW i \in Indices PROVE Due(i)'
  <2>1. CASE i = s
    BY <2>1 DEF Due
  <2>2. CASE i # s
    <3>1. PlacesOf(i)' = PlacesOf(i)
      BY <1>1, <2>2, Appended
    <3>2. CASE Waiting(i)' /\ Waiting(i)
      BY <1>1, <3>1, <3>2 DEF Due
    <3>3. CASE ~Waiting(i)' /\ ~Waiting(i)
      <4>1. Settled(i)
        BY <1>1, <3>3 DEF Due
      <4>2. Settled(i)'
        BY <1>1, <2>2, <4>1, SettledStays
      <4> QED BY <3>3, <4>2 DEF Due
    <3>4. CASE ~Waiting(i)' /\ LeftOut(i)'
      BY <3>4 DEF Due, Settled
    <3> QED BY <2>2, <3>2, <3>3, <3>4
  <2> QED BY <2>1, <2>2
<1>5. (\A i \in Indices : WellFormed(Configured[i]))'
  BY <1>1, <1>2 DEF WellFormed
<1>6. (\A i \in Indices : Due(i))'
  BY <1>2, <1>4
<1> QED BY <1>3, <1>5, <1>6 DEF PlacedInv

LEMMA FailedPlaces == PlacedInv /\ failed' /\ pc' # "start" => PlacedInv'
BY DEF PlacedInv

LEMMA PlaceBeforeTeachingPlaces ==
  ScheduleInv /\ PlacedInv /\ PlaceBeforeTeaching => PlacedInv'
<1> SUFFICES ASSUME ScheduleInv, PlacedInv, PlaceBeforeTeaching PROVE PlacedInv'
  OBVIOUS
<1>1. /\ next \in Indices /\ next \in Int /\ Configured[next].duration \in Int
      /\ UNCHANGED <<input, periods, timed, failed, pc>> /\ pc = "before"
      /\ next' = next + 1 /\ periods = 0 /\ DayTypeOK /\ next # Teaching
  BY InputTyped DEF ScheduleInv, BeforeInv, PlaceBeforeTeaching, Indices, Teaching
<1>2. CASE failed
  BY <1>1, <1>2, FailedPlaces
<1>3. CASE ~failed
  <2>1. LastFits' /\ NothingLeft'
    BY <1>1 DEF LastFits, NothingLeft
  <2>2. ASSUME NEW i \in Indices, i # next PROVE Waiting(i)' <=> Waiting(i)
    <3>1. (i >= next + 1 <=> i >= next) /\ Configured[i].placement \in Placements
      BY <1>1, <2>2, PlacementKnown DEF Indices
    <3> QED BY <1>1, <3>1 DEF Waiting, Configured, Placements
  <2>3. CASE Configured[next].placement = "BEFORE_TEACHING"
    <3>1. addBlock(next, cursor, Configured[next].duration) /\ cursor \in Int
      BY <2>3 DEF PlaceBeforeTeaching, ScheduleInv, DayTypeOK
    <3>2. PICK s : s = next
      OBVIOUS
    <3>3. Waiting(s) /\ ~Waiting(s)'
      <4>1. s >= next /\ ~(s >= next') /\ Configured'[s] = Configured[s]
        BY <1>1, <3>2 DEF Configured
      <4> QED BY <1>1, <2>3, <3>2, <4>1 DEF Waiting
    <3>4. PlacesOf(s) = {} /\ PeriodsUpTo(Len(blocks)) = 0
      BY <1>1, <1>3, <3>2, <3>3 DEF PlacedInv, Due
    <3>5. Settled(s)'
      BY <1>1, <2>3, <3>1, <3>2, <3>4, OwnPlace
    <3>6. periods' = periods + (IF s = Teaching THEN 1 ELSE 0)
      BY <1>1, <3>2
    <3> QED BY <1>1, <1>3, <2>1, <2>2, <3>1, <3>2, <3>3, <3>5, <3>6, BlockPlaces
  <2>4. CASE Configured[next].placement # "BEFORE_TEACHING"
    <3>1. UNCHANGED blocks
      BY <2>4 DEF PlaceBeforeTeaching
    <3>2. PICK s : s = next
      OBVIOUS
    <3>3. Waiting(s)' <=> Waiting(s)
      <4>1. Configured[s].placement \in {"AT_TIME", "AFTER_PERIOD"}
        BY <1>1, <2>4, <3>2, PlacementKnown DEF Placements
      <4> QED BY <1>1, <4>1 DEF Waiting, Configured
    <3>4. \A i \in Indices : Waiting(i)' <=> Waiting(i)
      BY <2>2, <3>2, <3>3
    <3> QED BY <1>1, <1>3, <2>1, <3>1, <3>4, NoBlockPlaces
  <2> QED BY <2>3, <2>4
<1> QED BY <1>2, <1>3

LEMMA PlaceTimedPlaces == ScheduleInv /\ PlacedInv /\ TimedOnly /\ PlaceTimed => PlacedInv'
<1> SUFFICES ASSUME ScheduleInv, PlacedInv, TimedOnly, PlaceTimed PROVE PlacedInv'
  OBVIOUS
<1>1. PICK s : s = Earliest
  OBVIOUS
<1>2. /\ s \in timed /\ s \in Indices /\ s \in Int /\ s # Teaching
      /\ Configured[s].duration \in Int
      /\ Configured[s].at = cursor /\ addBlock(s, cursor, Configured[s].duration)
      /\ timed' = timed \ {s} /\ UNCHANGED <<input, periods, next, failed, pc>>
      /\ pc = "loop" /\ DayTypeOK /\ cursor \in Int
  BY <1>1, EarliestFound, InputTyped
     DEF ScheduleInv, PlaceTimed, Looping, Indices, Teaching, DayTypeOK
<1>3. CASE failed
  BY <1>2, <1>3, FailedPlaces
<1>4. CASE ~failed
  <2>1. LastFits' /\ NothingLeft'
    BY <1>2 DEF LastFits, NothingLeft
  <2>2. ASSUME NEW i \in Indices, i # s PROVE Waiting(i)' <=> Waiting(i)
    BY <1>2, <2>2, PlacementKnown DEF Waiting, Configured, Placements
  <2>3. Configured[s].placement = "AT_TIME"
    BY <1>2 DEF TimedOnly
  <2>4. Waiting(s) /\ ~Waiting(s)'
    BY <1>2, <2>3 DEF Waiting, Configured
  <2>5. PlacesOf(s) = {}
    BY <1>2, <1>4, <2>4 DEF PlacedInv, Due
  <2>6. Settled(s)'
    BY <1>2, <2>3, <2>5, OwnPlace
  <2>7. periods' = periods + (IF s = Teaching THEN 1 ELSE 0)
    BY <1>2 DEF DayTypeOK
  <2> QED BY <1>2, <1>4, <2>1, <2>2, <2>4, <2>6, <2>7, BlockPlaces
<1> QED BY <1>3, <1>4

LEMMA FillGapPlaces == ScheduleInv /\ PlacedInv /\ FillGap => PlacedInv'
<1> SUFFICES ASSUME ScheduleInv, PlacedInv, FillGap PROVE PlacedInv'
  OBVIOUS
<1>1. /\ UNCHANGED <<input, timed, next, failed, pc>> /\ pc = "loop" /\ DayTypeOK
      /\ cursor \in Int /\ cursor' = Boundary
      /\ \/ periods' = periods + 1 /\ addBlock(Teaching, cursor, Boundary - cursor)
         \/ periods' = periods /\ addBlock(Gap, cursor, Boundary - cursor)
  BY DEF FillGap, Looping, ScheduleInv, DayTypeOK
<1>2. PICK d : d = Boundary - cursor
  OBVIOUS
<1>3. d \in Int /\ d < input.teaching
  BY <1>2, BoundaryInHours DEF FillGap, ScheduleInv, DayTypeOK
<1>4. CASE failed
  BY <1>1, <1>4, FailedPlaces
<1>5. CASE ~failed
  <2>1. LastFits' /\ NothingLeft'
    BY <1>1 DEF LastFits, NothingLeft
  <2>2. CASE periods' = periods /\ addBlock(Gap, cursor, d)
    <3>1. Gap \in Int /\ Gap # Teaching /\ Gap \notin Indices
      BY DEF Gap, Teaching, Indices
    <3>2. ASSUME NEW i \in Indices, i # Gap PROVE Waiting(i)' <=> Waiting(i)
      BY <1>1, <2>2, PlacementKnown DEF Waiting, Configured, Placements
    <3>3. periods' = periods + (IF Gap = Teaching THEN 1 ELSE 0)
      BY <2>2, <3>1 DEF ScheduleInv, DayTypeOK
    <3> QED BY <1>1, <1>3, <1>5, <2>1, <2>2, <3>1, <3>2, <3>3, BlockPlaces
  <2>3. CASE periods' = periods + 1 /\ addBlock(Teaching, cursor, d)
    <3>1. Teaching \in Int /\ Teaching \notin Indices
      BY DEF Teaching, Indices
    <3>2. PICK m : m = Len(blocks)
      OBVIOUS
    <3>3. /\ m \in Nat /\ Len(blocks') = m + 1 /\ periods \in Nat
          /\ blocks'[m + 1] = [source |-> Teaching, start |-> cursor, end |-> cursor + d]
          /\ PeriodsUpTo(Len(blocks))' = periods + 1
      <4>1. PeriodsUpTo(Len(blocks)) = periods
        BY <1>1, <1>5 DEF PlacedInv
      <4> QED BY <1>1, <1>3, <2>3, <3>1, <3>2, <4>1, Appended DEF DayTypeOK
    <3>4. PICK n : n = m + 1
      OBVIOUS
    <3>5. ASSUME NEW i \in Indices, Configured[i].after = periods + 1
          PROVE  Shortened(Configured[i].after)'
      <4>1. PeriodsUpTo(n)' = PeriodsUpTo(Len(blocks))'
        BY <3>3, <3>4 DEF PeriodsUpTo
      <4>2. /\ n \in 1 .. Len(blocks') /\ blocks'[n].source = Teaching
            /\ blocks'[n].end - blocks'[n].start = d
        BY <1>1, <1>3, <3>3, <3>4
      <4>3. Configured'[i] = Configured[i] /\ input' = input
        BY <1>1 DEF Configured
      <4>4. \E k \in 1 .. Len(blocks') :
               /\ blocks'[k].source = Teaching /\ PeriodsUpTo(k)' = Configured'[i].after
               /\ blocks'[k].end - blocks'[k].start < input'.teaching
        BY <1>3, <3>3, <3>5, <4>1, <4>2, <4>3
      <4> QED BY <4>4 DEF Shortened
    <3>6. ASSUME NEW i \in Indices
          PROVE  \/ Waiting(i)' <=> Waiting(i)
                 \/ ~Waiting(i)' /\ LeftOut(i)'
      <4>1. Configured'[i] = Configured[i] /\ Configured[i].after \in Int
        BY <1>1, InputTyped DEF Configured
      <4>2. CASE /\ Configured[i].placement = "AFTER_PERIOD"
                 /\ Configured[i].after = periods + 1
        <5>1. ~Waiting(i)' /\ Waiting(i)
          BY <1>1, <2>3, <3>3, <4>1, <4>2 DEF Waiting
        <5>2. PlacesOf(i) = {}
          BY <1>1, <1>5, <5>1 DEF PlacedInv, Due
        <5>3. PlacesOf(i)' = {}
          BY <1>1, <1>3, <2>3, <3>1, <5>2, Appended
        <5> QED BY <3>5, <4>1, <4>2, <5>1, <5>3 DEF LeftOut
      <4>3. CASE ~(/\ Configured[i].placement = "AFTER_PERIOD"
                   /\ Configured[i].after = periods + 1)
        <5>1. Configured[i].placement = "AFTER_PERIOD" =>
                (Configured[i].after > periods' <=> Configured[i].after > periods)
          BY <2>3, <3>3, <4>1, <4>3
        <5> QED BY <1>1, <2>3, <4>1, <4>3, <5>1, PlacementKnown DEF Waiting, Placements
      <4> QED BY <4>2, <4>3
    <3>7. periods' = periods + (IF Teaching = Teaching THEN 1 ELSE 0)
      BY <2>3
    <3> QED BY <1>1, <1>3, <1>5, <2>1, <2>3, <3>1, <3>6, <3>7, BlockPlaces
  <2> QED BY <1>1, <1>2, <2>2, <2>3
<1> QED BY <1>4, <1>5

LEMMA PlacePeriodPlaces == ScheduleInv /\ PlacedInv /\ PlacePeriod => PlacedInv'
<1> SUFFICES ASSUME ScheduleInv, PlacedInv, PlacePeriod PROVE PlacedInv'
  OBVIOUS
<1>1. /\ UNCHANGED <<input, timed, failed>> /\ pc = "loop" /\ pc' = "after" /\ next' = 1
      /\ periods' = periods + 1 /\ addBlock(Teaching, cursor, input.teaching)
      /\ DayTypeOK /\ cursor \in Int /\ periods \in Nat
  BY DEF PlacePeriod, Looping, ScheduleInv, DayTypeOK
<1>2. Teaching \in Int /\ Teaching \notin Indices /\ input.teaching \in Int
  BY InputTyped DEF ScheduleInv, Teaching, Indices
<1>3. CASE failed
  BY <1>1, <1>3, FailedPlaces
<1>4. CASE ~failed
  <2>1. NothingLeft'
    BY <1>1 DEF NothingLeft
  <2>2. LastFits'
    <3>1. PICK m : m = Len(blocks)
      OBVIOUS
    <3>2. /\ m \in Nat /\ Len(blocks') = m + 1
          /\ blocks'[m + 1].source = Teaching
      <4>1. /\ Len(blocks) \in Nat /\ Len(blocks') = Len(blocks) + 1
            /\ blocks'[Len(blocks) + 1] = [source |-> Teaching, start |-> cursor,
                                           end |-> cursor + input.teaching]
        BY <1>1, <1>2, Appended
      <4> QED BY <3>1, <4>1
    <3> QED BY <3>2 DEF LastFits
  <2>3. ASSUME NEW i \in Indices PROVE Waiting(i)' <=> Waiting(i)
    <3>1. /\ Configured'[i] = Configured[i] /\ Configured[i].after \in Int
          /\ Configured[i].placement \in Placements /\ i >= 1
      BY <1>1, InputTyped, PlacementKnown DEF Configured, Indices
    <3>2. Configured[i].after > periods
            <=> Configured[i].after > periods + 1 \/ Configured[i].after = periods + 1
      BY <1>1, <3>1
    <3> QED BY <1>1, <3>1, <3>2 DEF Waiting, Placements
  <2>4. periods' = periods + (IF Teaching = Teaching THEN 1 ELSE 0)
    BY <1>1
  <2> QED BY <1>1, <1>2, <1>4, <2>1, <2>2, <2>3, <2>4, BlockPlaces
<1> QED BY <1>3, <1>4

LEMMA PlaceAfterPlaces == ScheduleInv /\ PlacedInv /\ PlaceAfter => PlacedInv'
<1> SUFFICES ASSUME ScheduleInv, PlacedInv, PlaceAfter PROVE PlacedInv'
  OBVIOUS
<1>1. /\ next \in Indices /\ next \in Int /\ Configured[next].duration \in Int
      /\ UNCHANGED <<input, periods, timed, pc>> /\ pc = "after"
      /\ next' = next + 1 /\ DayTypeOK /\ next # Teaching /\ cursor \in Int
      /\ periods \in Nat
  BY InputTyped DEF ScheduleInv, PlaceAfter, Indices, Teaching, DayTypeOK
<1>2. PICK s : s = next
  OBVIOUS
<1>3. NothingLeft'
  BY <1>1 DEF NothingLeft
<1>4. ASSUME NEW i \in Indices, i # s PROVE Waiting(i)' <=> Waiting(i)
  <2>1. (i >= next + 1 <=> i >= next) /\ Configured[i].placement \in Placements
    BY <1>1, <1>2, <1>4, PlacementKnown DEF Indices
  <2> QED BY <1>1, <2>1 DEF Waiting, Configured, Placements
<1>5. CASE failed \/ failed'
  <2>1. failed'
    BY <1>5 DEF PlaceAfter, ScheduleInv, DayTypeOK
  <2> QED BY <1>1, <2>1, FailedPlaces
<1>6. CASE /\ ~failed /\ ~failed' /\ s \in PlacedAfter
           /\ addBlock(s, cursor, Configured[s].duration)
  <2>1. /\ Configured[s].placement = "AFTER_PERIOD" /\ Configured[s].after = periods
    BY <1>6 DEF PlacedAfter
  <2>2. Waiting(s) /\ ~Waiting(s)'
    BY <1>1, <1>2, <2>1 DEF Waiting, Configured
  <2>3. /\ PlacesOf(s) = {} /\ PeriodsUpTo(Len(blocks)) = periods
        /\ Len(blocks) > 0 /\ blocks[Len(blocks)].source \in {Teaching} \cup PlacedAfter
    BY <1>1, <1>2, <1>6, <2>2 DEF PlacedInv, Due, LastFits
  <2>4. Settled(s)'
    BY <1>1, <1>2, <1>6, <2>1, <2>3, OwnPlace DEF PlacedAfter
  <2>5. LastFits'
    <3>1. PICK m : m = Len(blocks)
      OBVIOUS
    <3>2. /\ m \in Nat /\ Len(blocks') = m + 1
          /\ blocks'[m + 1].source = s
      <4>1. /\ Len(blocks) \in Nat /\ Len(blocks') = Len(blocks) + 1
            /\ blocks'[Len(blocks) + 1] = [source |-> s, start |-> cursor,
                                           end |-> cursor + Configured[s].duration]
        BY <1>1, <1>2, <1>6, Appended
      <4> QED BY <3>1, <4>1
    <3>3. s \in PlacedAfter'
      BY <1>1, <1>6 DEF PlacedAfter, Configured, Indices
    <3> QED BY <3>2, <3>3 DEF LastFits
  <2>6. periods' = periods + (IF s = Teaching THEN 1 ELSE 0)
    BY <1>1, <1>2
  <2> QED BY <1>1, <1>2, <1>3, <1>4, <1>6, <2>2, <2>4, <2>5, <2>6, BlockPlaces
<1>7. CASE ~failed /\ ~failed' /\ s \notin PlacedAfter /\ UNCHANGED blocks
  <2>1. Waiting(s)' <=> Waiting(s)
    <3>1. /\ Configured'[s] = Configured[s] /\ Configured[s].placement \in Placements
          /\ ~(Configured[s].placement = "AFTER_PERIOD" /\ Configured[s].after = periods)
      BY <1>1, <1>2, <1>7, PlacementKnown DEF PlacedAfter, Configured
    <3> QED BY <1>1, <3>1 DEF Waiting, Placements
  <2>2. LastFits'
    <3>1. LastFits
      BY <1>1, <1>7 DEF PlacedInv
    <3> QED BY <1>1, <1>7, <3>1 DEF LastFits, PlacedAfter, Configured, Indices
  <2>3. \A i \in Indices : Waiting(i)' <=> Waiting(i)
    BY <1>4, <2>1
  <2> QED BY <1>1, <1>3, <1>7, <2>2, <2>3, NoBlockPlaces
<1> QED BY <1>2, <1>5, <1>6, <1>7 DEF PlaceAfter

LEMMA TimedOnlyKept == TimedOnly /\ DayNext => TimedOnly'
<1> SUFFICES ASSUME TimedOnly, DayNext PROVE TimedOnly'
  OBVIOUS
<1>1. UNCHANGED input
  BY DEF DayNext, CheckInput, PlaceBeforeTeaching, CheckTimed, OverlapEarlier,
         PlaceTimed, FillGap, PlacePeriod, PlaceAfter, GoOn, LeaveLoop, Result
<1>2. CASE CheckInput
  BY <1>1, <1>2 DEF TimedOnly, CheckInput, Configured
<1>3. CASE timed' \subseteq timed
  BY <1>1, <1>3 DEF TimedOnly, Configured
<1> QED BY <1>2, <1>3
  DEF DayNext, PlaceBeforeTeaching, CheckTimed, OverlapEarlier, PlaceTimed, FillGap,
      PlacePeriod, PlaceAfter, GoOn, LeaveLoop, Result

LEMMA PlacedInvKept ==
  ScheduleInv /\ PlacedInv /\ TimedOnly /\ [DayNext]_dayVars
    => (ScheduleInv /\ PlacedInv /\ TimedOnly)'
<1> SUFFICES ASSUME ScheduleInv, PlacedInv, TimedOnly, [DayNext]_dayVars
             PROVE  PlacedInv' /\ TimedOnly'
  BY ScheduleInvKept
<1>1. CASE UNCHANGED dayVars
  <2>1. UNCHANGED <<input, blocks, cursor, periods, timed, next, failed, pc>>
    BY <1>1 DEF dayVars
  <2>2. TimedOnly'
    BY <2>1 DEF TimedOnly, Configured
  <2>3. CASE pc = "start"
    BY <2>1, <2>2, <2>3 DEF PlacedInv
  <2>4. CASE pc # "start"
    <3>1. \A i \in Indices : Waiting(i)' <=> Waiting(i)
      BY <2>1 DEF Waiting, Configured
    <3>2. CASE ~failed
      <4>1. LastFits' /\ NothingLeft'
        <5>1. LastFits /\ NothingLeft
          BY <2>4, <3>2 DEF PlacedInv
        <5> QED BY <2>1, <5>1 DEF LastFits, NothingLeft, PlacedAfter, Configured, Indices
      <4> QED BY <2>1, <2>2, <2>4, <3>1, <3>2, <4>1, NoBlockPlaces
    <3>3. CASE failed
      BY <2>1, <2>2, <2>4, <3>3, FailedPlaces
    <3> QED BY <3>2, <3>3
  <2> QED BY <2>3, <2>4
<1>2. CASE DayNext
  BY <1>2, TimedOnlyKept, CheckInputPlaces, PlaceBeforeTeachingPlaces,
     CheckTimedPlaces, OverlapEarlierPlaces, PlaceTimedPlaces, FillGapPlaces,
     PlacePeriodPlaces, PlaceAfterPlaces, GoOnPlaces, LeaveLoopPlaces, ResultPlaces
     DEF DayNext
<1> QED BY <1>1, <1>2

LEMMA PlacedInvSuffices ==
  ScheduleInv /\ PlacedInv => EveryBlockPlaced
<1> SUFFICES ASSUME ScheduleInv, PlacedInv, Valid, NEW i \in Indices
             PROVE  \/ /\ Cardinality(PlacesOf(i)) = 1
                       /\ \A n \in PlacesOf(i) : InPlace(i, n)
                    \/ LeftOut(i)
  BY DEF EveryBlockPlaced, LeftOut
<1>1. Due(i) /\ NothingLeft /\ pc = "done" /\ DayTypeOK
  BY DEF PlacedInv, Valid, ScheduleInv
<1>2. ~Waiting(i)
  <2>1. /\ Configured[i].placement \in Placements /\ Configured[i].after \in Int
        /\ periods \in Nat
    BY <1>1, PlacementKnown, InputTyped DEF DayTypeOK
  <2>2. timed = {} /\ (Configured[i].placement = "AFTER_PERIOD"
                         => ~(Configured[i].after > periods))
    BY <1>1, <2>1 DEF NothingLeft
  <2> QED BY <1>1, <2>1, <2>2 DEF Waiting, Placements
<1>3. CASE LeftOut(i)
  BY <1>3
<1>4. ASSUME NEW n, PlacedAt(i, n)
      PROVE  Cardinality(PlacesOf(i)) = 1 /\ \A k \in PlacesOf(i) : InPlace(i, k)
  BY <1>4, FS_Singleton DEF PlacedAt
<1> QED BY <1>1, <1>2, <1>3, <1>4 DEF Due, Settled

(* Whatever is configured, a schedule that generate calls valid has every  *)
(* block in it once, where it was asked for; only a block that was to      *)
(* follow a period made of left-over time may be missing.                  *)
THEOREM EveryBlockPlacedAlways == DaySpec => []EveryBlockPlaced
<1>1. DayInit => ScheduleInv /\ PlacedInv /\ TimedOnly
  BY ScheduleInvInitially DEF DayInit, PlacedInv, TimedOnly
<1>2. DaySpec => [](ScheduleInv /\ PlacedInv /\ TimedOnly)
  BY <1>1, PlacedInvKept, PTL DEF DaySpec
<1> QED BY <1>2, PlacedInvSuffices, PTL

-----------------------------------------------------------------------------
(* Blocks that lie end to end and last some time do not overlap.           *)

Forward ==
  pc # "start" /\ ~failed =>
    /\ input.teaching > 0
    /\ \A n \in 1 .. Len(blocks) : blocks[n].start < blocks[n].end
BlocksApart ==
  \A m, n \in 1 .. Len(blocks) : m < n => blocks[m].end <= blocks[n].start

LEMMA ForwardAppended ==
  ASSUME DayTypeOK, Forward, pc # "start", ~failed, input' = input,
         NEW s \in Int, NEW d \in Int, addBlock(s, cursor, d), d > 0
  PROVE  Forward'
<1>1. cursor \in Int
  BY DEF DayTypeOK
<1>2. /\ Len(blocks) \in Nat /\ Len(blocks') = Len(blocks) + 1
      /\ \A n \in 1 .. Len(blocks) : blocks'[n] = blocks[n]
      /\ blocks'[Len(blocks) + 1] = [source |-> s, start |-> cursor, end |-> cursor + d]
  BY <1>1, Appended
<1>3. ASSUME NEW n \in 1 .. Len(blocks') PROVE blocks'[n].start < blocks'[n].end
  <2>1. CASE n = Len(blocks) + 1
    <3>1. blocks'[n].start = cursor /\ blocks'[n].end = cursor + d
      BY <1>2, <2>1
    <3> QED BY <1>1, <3>1
  <2>2. CASE n \in 1 .. Len(blocks)
    BY <1>2, <2>2 DEF Forward
  <2> QED BY <1>2, <2>1, <2>2
<1> QED BY <1>3 DEF Forward

LEMMA ForwardKept == ScheduleInv /\ PlacedInv /\ Forward /\ [DayNext]_dayVars => Forward'
<1> SUFFICES ASSUME ScheduleInv, PlacedInv, Forward, [DayNext]_dayVars, ~failed',
                    pc' # "start"
             PROVE  Forward'
  BY DEF Forward
<1>0. /\ DayTypeOK /\ cursor \in Int /\ input.teaching \in Int
      /\ \A i \in Indices : i \in Int /\ Configured[i].duration \in Int
  BY InputTyped DEF ScheduleInv, DayTypeOK, Indices
<1>1. ASSUME pc # "start", ~failed
      PROVE  /\ input.teaching > 0
             /\ \A i \in Indices : Configured[i].duration > 0
  BY <1>1 DEF PlacedInv, WellFormed, Forward
<1>2. CASE UNCHANGED <<input, blocks>> /\ pc # "start" /\ ~failed
  BY <1>2 DEF Forward
<1>3. CASE UNCHANGED dayVars
  BY <1>3 DEF Forward, dayVars
<1>4. CASE CheckInput
  <2>1. /\ UNCHANGED <<input, blocks>> /\ blocks = <<>>
        /\ ~(input.end <= input.start \/ input.teaching <= 0)
    BY <1>4 DEF CheckInput, PlacedInv
  <2>2. input.teaching > 0 /\ Len(blocks') = 0
    BY <1>0, <2>1
  <2> QED BY <2>1, <2>2 DEF Forward
<1>5. CASE PlaceBeforeTeaching
  <2>1. next \in Indices /\ UNCHANGED <<input, failed, pc>> /\ pc # "start"
    BY <1>5 DEF PlaceBeforeTeaching
  <2>2. CASE UNCHANGED blocks
    BY <1>2, <2>1, <2>2
  <2>3. CASE addBlock(next, cursor, Configured[next].duration)
    BY <1>0, <1>1, <2>1, <2>3, ForwardAppended
  <2> QED BY <1>5, <2>2, <2>3 DEF PlaceBeforeTeaching
<1>6. CASE CheckTimed \/ GoOn \/ LeaveLoop
  BY <1>2, <1>6 DEF CheckTimed, GoOn, LeaveLoop
<1>7. CASE Result \/ OverlapEarlier
  BY <1>2, <1>7, Zenon DEF Result, OverlapEarlier
<1>8. CASE PlaceTimed
  <2>1. /\ UNCHANGED <<input, failed, pc>> /\ pc = "loop"
        /\ addBlock(Earliest, cursor, Configured[Earliest].duration)
        /\ Earliest \in Indices
    BY <1>8, EarliestFound DEF PlaceTimed, Looping, ScheduleInv
  <2> QED BY <1>0, <1>1, <2>1, ForwardAppended
<1>9. CASE FillGap
  <2>1. Boundary - cursor \in Int /\ Boundary - cursor > 0
    BY <1>0, <1>9, BoundaryInHours DEF FillGap, ScheduleInv
  <2>2. /\ UNCHANGED <<input, failed, pc>> /\ pc = "loop"
        /\ \E s \in {Teaching, Gap} : addBlock(s, cursor, Boundary - cursor)
    BY <1>9 DEF FillGap, Looping
  <2>3. Teaching \in Int /\ Gap \in Int
    BY DEF Teaching, Gap
  <2> QED BY <1>0, <2>1, <2>2, <2>3, ForwardAppended
<1>10. CASE PlacePeriod
  <2>1. /\ UNCHANGED <<input, failed>> /\ pc = "loop"
        /\ addBlock(Teaching, cursor, input.teaching) /\ Teaching \in Int
    BY <1>10 DEF PlacePeriod, Looping, Teaching
  <2> QED BY <1>0, <1>1, <2>1, ForwardAppended
<1>11. CASE PlaceAfter
  <2>1. next \in Indices /\ UNCHANGED input /\ pc = "after"
    BY <1>11 DEF PlaceAfter
  <2>2. \/ UNCHANGED <<blocks, failed>>
        \/ failed'
        \/ UNCHANGED failed /\ addBlock(next, cursor, Configured[next].duration)
    BY <1>11 DEF PlaceAfter
  <2> QED BY <1>0, <1>1, <1>2, <2>1, <2>2, ForwardAppended
<1> QED BY <1>3, <1>4, <1>5, <1>6, <1>7, <1>8, <1>9, <1>10, <1>11 DEF DayNext

(* The first block that begins too early would begin ahead of the one      *)
(* before it, which begins where that one ends.                            *)
LEMMA ApartFromForward ==
  ASSUME DayTypeOK, Contiguous, Forward, Valid PROVE BlocksApart
<1> SUFFICES ASSUME NEW m \in 1 .. Len(blocks)
             PROVE  \A n \in 1 .. Len(blocks) : m < n => blocks[m].end <= blocks[n].start
  BY DEF BlocksApart
<1>1. /\ Len(blocks) \in Nat
      /\ \A n \in 1 .. Len(blocks) :
           /\ blocks[n].start \in Int /\ blocks[n].end \in Int
           /\ blocks[n].start < blocks[n].end
           /\ n > 1 => blocks[n].start = blocks[n - 1].end
  <2>1. Len(blocks) \in Nat /\ \A n \in 1 .. Len(blocks) : blocks[n] \in GeneratedScheduleBlock
    BY DEF DayTypeOK
  <2>2. \A n \in 1 .. Len(blocks) : blocks[n].start < blocks[n].end
    BY DEF Forward, Valid
  <2>3. \A n \in 1 .. Len(blocks) : n > 1 => blocks[n].start = blocks[n - 1].end
    BY DEF Contiguous
  <2> QED BY <2>1, <2>2, <2>3 DEF GeneratedScheduleBlock
<1>2. PICK T : T = {n \in 1 .. Len(blocks) : m < n /\ ~(blocks[m].end <= blocks[n].start)}
  OBVIOUS
<1>3. CASE T = {}
  BY <1>2, <1>3
<1>4. CASE T # {}
  <2>1. T \in SUBSET Nat
    BY <1>2
  <2>2. PICK n \in T : \A k \in T : n <= k
    BY <1>4, <2>1, LeastExists
  <2>3. /\ n \in 1 .. Len(blocks) /\ m < n /\ ~(blocks[m].end <= blocks[n].start)
        /\ n - 1 \in 1 .. Len(blocks) /\ n - 1 \notin T /\ n > 1
    BY <1>1, <1>2, <2>2
  <2>4. blocks[n].start = blocks[n - 1].end /\ blocks[n - 1].start < blocks[n - 1].end
    BY <1>1, <2>3
  <2>5. m # n - 1
    BY <1>1, <2>3, <2>4
  <2>6. blocks[m].end <= blocks[n - 1].start
    BY <1>2, <2>3, <2>5
  <2>7. \A a, b, c \in Int : a <= b /\ b < c => a <= c
    OBVIOUS
  <2>8. /\ blocks[m].end \in Int /\ blocks[n - 1].start \in Int
        /\ blocks[n - 1].end \in Int
    BY <1>1, <2>3
  <2>9. blocks[m].end <= blocks[n].start
    BY <2>4, <2>6, <2>7, <2>8
  <2> QED BY <2>3, <2>9
<1> QED BY <1>3, <1>4

(* The blocks of a schedule that generate calls valid do not overlap: this *)
(* is what the timetable takes for granted of the days that are generated. *)
THEOREM ValidBlocksApart == DaySpec => [](Valid => BlocksApart)
<1>1. DayInit => ScheduleInv /\ PlacedInv /\ TimedOnly /\ Forward
  BY ScheduleInvInitially DEF DayInit, PlacedInv, TimedOnly, Forward
<1>2. DaySpec => [](ScheduleInv /\ PlacedInv /\ TimedOnly /\ Forward)
  BY <1>1, PlacedInvKept, ForwardKept, PTL DEF DaySpec
<1>3. ScheduleInv /\ PlacedInv /\ TimedOnly /\ Forward => (Valid => BlocksApart)
  BY ApartFromForward DEF ScheduleInv
<1> QED BY <1>2, <1>3, PTL

-----------------------------------------------------------------------------
(* The timetable: its inductive invariant.                                 *)

(* A row, and a call that will save one, has an id that was given out.     *)
RowIds ==
  /\ \A i \in Live : i <= lastPeriod
  /\ \A e \in Placed : e <= lastEntry
  /\ \A pair \in twins : \A e \in pair : e <= lastEntry
IdFits(c) ==
  /\ c.pc = "save period" => c.id <= lastPeriod
  /\ c.pc = "save entry" => c.id <= lastEntry

(* Of the kind of each period a read will delete, it read one it keeps.    *)
PruneFits(c) ==
  c.pc = "prune" =>
    \A j \in c.ids :
      /\ c.read[j] # NoPeriod
      /\ \E i \in PeriodIds \ c.ids : /\ c.read[i] # NoPeriod
                                      /\ Kind(c.read[i]) = Kind(c.read[j])
CallsFit == \A k \in Calls, c \in Call : c = call[k] => IdFits(c) /\ PruneFits(c)

(* A call that is alone is the only one that runs, ...                     *)
AloneInv == \A k \in alone, j \in Calls : j # k => ~Busy(j)

(* ... so that what it found when it looked holds until it has written.    *)
RowsReady(rows) ==
  /\ \A p \in rows : \A i \in Live : period[i].active => Apart(p, period[i])
  /\ \A p, q \in rows : p # q => Apart(p, q)
RowReady(id, row) == \A i \in Live \ {id} : period[i].active => Apart(row, period[i])

NoClash(x, S) ==
  x.period \in Live => \A e \in S, y \in Entry : y = entry[e] => ~Clash(x, y)
FitsLimits(x, n, S) ==
  \A t \in TeachersOf(x) : /\ Load(t, x.day, S) + n <= MaxPerDay
                           /\ WeekLoad(t, S) + n <= MaxPerWeek
                           /\ ~IsAway(t, x.day, x.period)
AsTwins(x, y) ==
  /\ x.double /\ y.double /\ x.class = y.class /\ x.subject = y.subject
  /\ x.day = y.day /\ x.lead = y.lead
BoxesReady(c) ==
  /\ Len(c.boxes) \in {1, 2}
  /\ \A n \in 1 .. Len(c.boxes) :
       /\ NoClash(c.boxes[n], Placed \ c.made)
       /\ c.override \/ FitsLimits(c.boxes[n], Len(c.boxes), Placed)
  /\ Len(c.boxes) = 2 => c.made = {} /\ AsTwins(c.boxes[1], c.boxes[2])
  /\ c.made # {} => \E a \in Placed : c.made = {a} /\ AsTwins(entry[a], c.boxes[1])
EntryReady(c) ==
  /\ NoClash(c.box, Placed \ {c.id})
  /\ c.override \/ FitsLimits(c.box, 1, Placed \ {c.id})

OrderOf(e) == period[entry[e].period].order
NextTo(e, f) == OrderOf(e) = OrderOf(f) + 1 \/ OrderOf(f) = OrderOf(e) + 1
RemoveReady(c) ==
  /\ c.id \notin c.partners
  /\ \A f \in Placed \ {c.id} :
       c.id \in Placed /\ {c.id, f} \in twins /\ NextTo(c.id, f) => f \in c.partners

Ready(c) ==
  /\ c.pc = "insert periods" => RowsReady(c.rows)
  /\ c.pc = "save period" => RowReady(c.id, c.row)
  /\ c.pc = "insert boxes" => BoxesReady(c)
  /\ c.pc = "save entry" => EntryReady(c)
  /\ c.pc = "remove" => RemoveReady(c)
LoneInv == \A k \in alone, c \in Call : c = call[k] => Ready(c)

(* What was checked: no two vetted entries clash, two boxes of one double  *)
(* period are alike, and no teacher has more vetted entries than the rules *)
(* allow, or one in spite of an absence.                                   *)
VettedApart ==
  \A e, f \in vetted, x, y \in Entry :
    e # f /\ {e, f} \notin twins /\ x = entry[e] /\ y = entry[f] => ~Clash(x, y)
TwinsInv == \A e, f \in Placed : {e, f} \in twins /\ e # f => AsTwins(entry[e], entry[f])
Checked == vetted \ forced
LoadInv == \A t \in Teachers : /\ WeekLoad(t, Checked) <= MaxPerWeek
                               /\ \A d \in Days : Load(t, d, Checked) <= MaxPerDay
PresentInv == \A e \in Checked, x \in Entry : x = entry[e] =>
                \A t \in TeachersOf(x) : ~IsAway(t, x.day, x.period)

BaseInv == TypeOK /\ RowIds /\ CallsFit /\ AloneInv
CheckedInv == SoundPeriodsDisjoint /\ VettedApart /\ TwinsInv /\ LoadInv /\ PresentInv
TimetableInv == BaseInv /\ LoneInv /\ CheckedInv
-----------------------------------------------------------------------------
(* Rows and calls.                                                         *)

LEMMA NoRowIsNone == NoPeriod \notin Period /\ NoEntry \notin Entry
<1>1. NoPeriod \notin Period
  BY DEF NoPeriod, Period
<1>2. NoEntry \notin Entry
  BY DEF NoEntry, Entry
<1> QED BY <1>1, <1>2

LEMMA RowsTyped ==
  ASSUME TypeOK
  PROVE  /\ \A i \in PeriodIds : i \in Live <=> period[i] \in Period
         /\ \A e \in EntryIds : e \in Placed <=> entry[e] \in Entry
         /\ Live \subseteq PeriodIds /\ Placed \subseteq EntryIds
BY NoRowIsNone DEF TypeOK, Live, Placed

LEMMA CallTyped ==
  ASSUME TypeOK, NEW k \in Calls
  PROVE  /\ call[k] \in Call
         /\ call[k].pc = "insert periods" => call[k].rows \in SUBSET Period
         /\ call[k].pc = "save period" => call[k].id \in PeriodIds /\ call[k].row \in Period
         /\ call[k].pc \in {"drop periods", "prune"} => call[k].ids \subseteq PeriodIds
         /\ call[k].pc = "prune" => call[k].read \in [PeriodIds -> Period \cup {NoPeriod}]
         /\ call[k].pc = "insert boxes" =>
              /\ call[k].boxes \in Seq(Entry) \ {<<>>} /\ call[k].made \in SUBSET EntryIds
              /\ call[k].override \in BOOLEAN
              /\ call[k].queue \in SUBSET [source : EntryIds, copy : Entry]
         /\ call[k].pc = "copy" =>
              /\ call[k].override \in BOOLEAN
              /\ call[k].queue \in SUBSET [source : EntryIds, copy : Entry]
         /\ call[k].pc = "save entry" =>
              /\ call[k].id \in EntryIds /\ call[k].box \in Entry /\ call[k].override \in BOOLEAN
         /\ call[k].pc = "remove" =>
              call[k].id \in EntryIds /\ call[k].partners \in SUBSET EntryIds
<1>1. call[k] \in Call
  BY DEF TypeOK
<1> QED BY <1>1 DEF Call

-----------------------------------------------------------------------------
(* What a call takes on is typed.                                          *)

LEMMA BoxesFound ==
  ASSUME TypeOK, NEW x \in Entry, NEW boxes \in Boxes(x)
  PROVE  \/ ~x.double /\ boxes = <<x>>
         \/ \E y \in Entry : /\ x.double /\ boxes = <<x, y>>
                             /\ AsTwins(x, y) /\ y.byClass = x.byClass /\ y.staff = x.staff
                             /\ y.room = x.room
<1>1. CASE ~x.double
  BY <1>1 DEF Boxes
<1>2. CASE x.double
  <2>1. PICK j \in Live : boxes = <<x, [x EXCEPT !.period = j]>>
    BY <1>2 DEF Boxes
  <2>2. PICK y : y = [x EXCEPT !.period = j]
    OBVIOUS
  <2>3. y \in Entry
    BY <2>2 DEF Live, Entry
  <2>4. /\ y.double = x.double /\ y.class = x.class /\ y.subject = x.subject
        /\ y.day = x.day /\ y.lead = x.lead /\ y.byClass = x.byClass /\ y.staff = x.staff
        /\ y.room = x.room
    BY <2>2 DEF Entry
  <2> QED BY <1>2, <2>1, <2>2, <2>3, <2>4 DEF AsTwins
<1> QED BY <1>1, <1>2 DEF Entry

LEMMA PlacingTyped ==
  ASSUME TypeOK, NEW x \in Entry, NEW boxes \in Boxes(x), NEW override \in BOOLEAN,
         NEW queue \in SUBSET [source : EntryIds, copy : Entry]
  PROVE  Placing(boxes, override, queue) \in Call
<1>1. boxes \in Seq(Entry) \ {<<>>}
  <2>1. CASE boxes = <<x>>
    BY <2>1
  <2>2. CASE \E y \in Entry : boxes = <<x, y>>
    BY <2>2
  <2> QED BY <2>1, <2>2, BoxesFound
<1> QED BY <1>1 DEF Placing, Call


(* A call that is accepted finds what it needs. *)
LEMMA LoadTyped ==
  ASSUME NEW S \in SUBSET EntryIds, NEW t, NEW d
  PROVE  Load(t, d, S) \in Nat /\ WeekLoad(t, S) \in Nat
<1>1. IsFiniteSet(EntryIds)
  BY TimetableAssumption, FS_Interval DEF EntryIds
<1>2. PICK A, B : /\ A = {e \in S : t \in TeachersOf(entry[e]) /\ entry[e].day = d}
                  /\ B = {e \in S : t \in TeachersOf(entry[e])}
  OBVIOUS
<1>3. A \subseteq EntryIds /\ B \subseteq EntryIds
  BY <1>2
<1>4. Cardinality(A) \in Nat /\ Cardinality(B) \in Nat
  BY <1>1, <1>3, FS_Subset, FS_CardinalityType
<1> QED BY <1>2, <1>4 DEF Load, WeekLoad

LEMMA AcceptedReady ==
  ASSUME TypeOK, NEW x \in Entry, NEW boxes \in Boxes(x), NEW override \in BOOLEAN,
         Accepts(boxes, override), NEW queue
  PROVE  BoxesReady(Placing(boxes, override, queue))
<1>1. PICK c : c = Placing(boxes, override, queue)
  OBVIOUS
<1>2. c.boxes = boxes /\ c.made = {} /\ c.override = override
  BY <1>1 DEF Placing
<1>3. \/ Len(boxes) = 1 /\ ~x.double /\ boxes[1] = x /\ 1 .. Len(boxes) = {1}
      \/ /\ Len(boxes) = 2 /\ AsTwins(boxes[1], boxes[2]) /\ 1 .. Len(boxes) = {1, 2}
         /\ boxes[1].double /\ boxes[2].double
  BY BoxesFound DEF AsTwins
<1>4. DOMAIN boxes = 1 .. Len(boxes)
  <2>1. CASE boxes = <<x>>
    BY <2>1
  <2>2. CASE \E y \in Entry : boxes = <<x, y>>
    BY <2>2
  <2> QED BY <2>1, <2>2, BoxesFound
<1>5. ASSUME NEW n \in 1 .. Len(boxes)
      PROVE  /\ NoClash(boxes[n], Placed)
             /\ override \/ FitsLimits(boxes[n], Len(boxes), Placed)
  <2>1. SlotIsFree(boxes[n], override, {})
    BY <1>4 DEF Accepts
  <2>2. Placed \ {} = Placed
    OBVIOUS
  <2>3. NoClash(boxes[n], Placed)
    BY <2>1, <2>2 DEF SlotIsFree, NoClash
  <2>4. override \/ WithinLimits(boxes[n], Placed)
    BY <2>1, <2>2 DEF SlotIsFree
  <2>5. Len(boxes) = IF boxes[n].double THEN 2 ELSE 1
    BY <1>3
  <2>6. WithinLimits(boxes[n], Placed) => FitsLimits(boxes[n], Len(boxes), Placed)
    BY <2>5 DEF WithinLimits, FitsLimits
  <2> QED BY <2>3, <2>4, <2>6
<1>6. /\ Len(c.boxes) \in {1, 2} /\ c.made = {}
      /\ Len(c.boxes) = 2 => AsTwins(c.boxes[1], c.boxes[2])
  BY <1>2, <1>3
<1>7. Placed \ c.made = Placed
  BY <1>2
<1>8. \A n \in 1 .. Len(c.boxes) :
        /\ NoClash(c.boxes[n], Placed \ c.made)
        /\ c.override \/ FitsLimits(c.boxes[n], Len(c.boxes), Placed)
  BY <1>2, <1>5, <1>7
<1>9. BoxesReady(c)
  BY <1>6, <1>8 DEF BoxesReady
<1> QED BY <1>1, <1>9

LEMMA MovedReady ==
  ASSUME TypeOK, NEW e \in Placed, NEW x \in Entry, NEW override \in BOOLEAN,
         SlotIsFree(x, override, {e})
  PROVE  EntryReady([pc |-> "save entry", id |-> e, box |-> x, override |-> override])
<1>1. NoClash(x, Placed \ {e})
  BY DEF SlotIsFree, NoClash
<1>2. override \/ WithinLimits(x, Placed \ {e})
  BY DEF SlotIsFree
<1>3. ASSUME WithinLimits(x, Placed \ {e}) PROVE FitsLimits(x, 1, Placed \ {e})
  <2>1. PICK n \in {1, 2} : n = IF x.double THEN 2 ELSE 1
    OBVIOUS
  <2>2. ASSUME NEW t \in TeachersOf(x)
        PROVE  /\ Load(t, x.day, Placed \ {e}) + 1 <= MaxPerDay
               /\ WeekLoad(t, Placed \ {e}) + 1 <= MaxPerWeek
               /\ ~IsAway(t, x.day, x.period)
    <3>1. /\ Load(t, x.day, Placed \ {e}) + n <= MaxPerDay
          /\ WeekLoad(t, Placed \ {e}) + n <= MaxPerWeek
          /\ ~IsAway(t, x.day, x.period)
      BY <1>3, <2>1 DEF WithinLimits
    <3>2. PICK a, b \in Nat : a = Load(t, x.day, Placed \ {e}) /\ b = WeekLoad(t, Placed \ {e})
      BY LoadTyped DEF Placed
    <3> QED BY <2>1, <3>1, <3>2, TimetableAssumption
  <2> QED BY <2>2 DEF FitsLimits
<1> QED BY <1>1, <1>2, <1>3 DEF EntryReady

LEMMA DeletionReady ==
  ASSUME TypeOK, TwinsInv, NEW e \in Placed
  PROVE  RemoveReady([pc |-> "remove", id |-> e,
                      partners |-> IF entry[e].double THEN Partners(e) ELSE {}])
<1>1. PICK partners : partners = IF entry[e].double THEN Partners(e) ELSE {}
  OBVIOUS
<1>2. e \notin partners
  BY <1>1 DEF Partners
<1>3. ASSUME NEW f \in Placed \ {e}, {e, f} \in twins, NextTo(e, f) PROVE f \in partners
  <2>1. AsTwins(entry[e], entry[f])
    BY <1>3 DEF TwinsInv
  <2>2. f \in Partners(e)
    BY <1>3, <2>1 DEF Partners, AsTwins, NextTo, OrderOf
  <2> QED BY <1>1, <2>1, <2>2 DEF AsTwins
<1> QED BY <1>1, <1>2, <1>3 DEF RemoveReady

-----------------------------------------------------------------------------
(* A call that begins is typed, fits the rows, and is ready.               *)

Fits(c) == c \in Call /\ IdFits(c) /\ PruneFits(c) /\ Ready(c)

(* Of rows alike, the first in (order, id) is no duplicate. *)
LEMMA FirstOfKindStays ==
  ASSUME TypeOK, NEW j \in Duplicates
  PROVE  \E i \in PeriodIds \ Duplicates : /\ period[i] # NoPeriod
                                           /\ Kind(period[i]) = Kind(period[j])
<1>1. PICK S : S = {i \in Live : Kind(period[i]) = Kind(period[j])}
  OBVIOUS
<1>2. /\ j \in S /\ S \subseteq Live /\ S \subseteq Nat
      /\ \A i \in S : period[i].order \in Nat
  <2>1. \A i \in Live : i \in Nat /\ period[i].order \in Nat
    BY RowsTyped DEF PeriodIds, Period, Live
  <2> QED BY <1>1, <2>1 DEF Duplicates
<1>3. PICK orders : orders = {period[i].order : i \in S}
  OBVIOUS
<1>4. orders \in SUBSET Nat /\ orders # {}
  BY <1>2, <1>3
<1>5. PICK least \in orders : \A o \in orders : least <= o
  BY <1>4, LeastExists
<1>6. PICK T : T = {i \in S : period[i].order = least}
  OBVIOUS
<1>7. T \in SUBSET Nat /\ T # {}
  BY <1>2, <1>3, <1>5, <1>6
<1>8. PICK i \in T : \A m \in T : i <= m
  BY <1>7, LeastExists
<1>9. i \in S /\ period[i].order = least
  BY <1>6
<1>10. i \notin Duplicates
  <2>1. SUFFICES ASSUME NEW m \in Live, Kind(period[m]) = Kind(period[i]), Earlier(m, i)
                 PROVE  FALSE
    BY DEF Duplicates
  <2>2. m \in S
    BY <1>1, <1>9, <2>1
  <2>3. least <= period[m].order /\ period[m].order \in Nat /\ least \in Nat
    BY <1>2, <1>3, <1>4, <1>5, <2>2
  <2>4. ~(period[m].order < period[i].order)
    BY <1>9, <2>3
  <2>5. period[m].order = period[i].order /\ m < i
    BY <2>1, <2>4 DEF Earlier
  <2>6. m \in T
    BY <1>6, <1>9, <2>2, <2>5
  <2> QED BY <1>7, <1>8, <2>5, <2>6
<1> QED BY <1>1, <1>9, <1>10 DEF Live

LEMMA PruneFitsNow ==
  ASSUME TypeOK
  PROVE  Fits([pc |-> "prune", ids |-> Duplicates, read |-> period])
<1>1. PICK ids, read : ids = Duplicates /\ read = period
  OBVIOUS
<1>2. PICK c : c = [pc |-> "prune", ids |-> ids, read |-> read]
  OBVIOUS
<1>3. c.pc = "prune" /\ c.ids = ids /\ c.read = read
  BY <1>2
<1>4. ids \in SUBSET PeriodIds /\ read \in [PeriodIds -> Period \cup {NoPeriod}]
  BY <1>1 DEF Duplicates, Live, TypeOK
<1>5. c \in Call
  BY <1>2, <1>4 DEF Call
<1>6. \A j \in ids : read[j] # NoPeriod
  BY <1>1 DEF Duplicates, Live
<1>7. PruneFits(c)
  BY <1>1, <1>3, <1>6, FirstOfKindStays DEF PruneFits
<1>8. IdFits(c)
  BY <1>3 DEF IdFits
<1>9. Ready(c)
  BY <1>3 DEF Ready
<1> QED BY <1>1, <1>2, <1>5, <1>7, <1>8, <1>9 DEF Fits

LEMMA CreatePeriodFits ==
  ASSUME TypeOK, NEW k, NEW p \in Shapes, CreatePeriod(k, p)
  PROVE  \E todo : Fits(todo) /\ Begins(k, todo)
<1>1. PICK c : c = [pc |-> "insert periods", rows |-> {p}]
  OBVIOUS
<1>2. c.pc = "insert periods" /\ c.rows = {p}
  BY <1>1
<1>3. c \in Call
  <2>1. p \in Period
    BY TimetableAssumption
  <2> QED BY <1>1, <2>1 DEF Call
<1>4. RowsReady(c.rows)
  BY <1>2 DEF CreatePeriod, TimeIsFree, RowsReady
<1>5. IdFits(c) /\ PruneFits(c)
  BY <1>2 DEF IdFits, PruneFits
<1>6. Ready(c)
  BY <1>2, <1>4 DEF Ready
<1> QED BY <1>1, <1>3, <1>5, <1>6 DEF CreatePeriod, Fits

LEMMA UpdatePeriodFits ==
  ASSUME TypeOK, RowIds, NEW k, NEW p \in Shapes, NEW i \in PeriodIds, UpdatePeriod(k, i, p)
  PROVE  \E todo : Fits(todo) /\ Begins(k, todo)
<1>1. PICK c : c = [pc |-> "save period", id |-> i, row |-> p]
  OBVIOUS
<1>2. c.pc = "save period" /\ c.id = i /\ c.row = p
  BY <1>1
<1>3. c \in Call
  BY <1>1, TimetableAssumption DEF Call
<1>4. RowReady(i, p)
  BY DEF UpdatePeriod, TimeIsFree, RowReady
<1>5. IdFits(c) /\ PruneFits(c)
  BY <1>2 DEF IdFits, PruneFits, RowIds, UpdatePeriod
<1>6. Ready(c)
  BY <1>2, <1>4 DEF Ready
<1> QED BY <1>1, <1>3, <1>5, <1>6 DEF UpdatePeriod, Fits

LEMMA GenerateFits ==
  ASSUME TypeOK, NEW k, NEW cut \in Schedules, NEW days \in SUBSET Days,
         NEW classes \in SUBSET Classes, GenerateSchoolDaySchedule(k, cut, days, classes)
  PROVE  \E todo : Fits(todo) /\ Begins(k, todo)
<1>1. PICK rows : rows = RowsOf(cut, days, classes)
  OBVIOUS
<1>2. PICK c : c = [pc |-> "insert periods", rows |-> rows]
  OBVIOUS
<1>3. c.pc = "insert periods" /\ c.rows = rows
  BY <1>2
<1>4. ASSUME NEW b \in cut, NEW d \in days
      PROVE  /\ RowOf(b, d, classes) \in Period
             /\ RowOf(b, d, classes).day = d /\ RowOf(b, d, classes).classes = classes
             /\ RowOf(b, d, classes).start = b.start /\ RowOf(b, d, classes).end = b.end
  <2>1. b \in Period /\ d \in {0} \cup Days
    BY TimetableAssumption
  <2> QED BY <2>1 DEF Period, RowOf
<1>5. \A p \in rows : \E b \in cut, d \in days : p = RowOf(b, d, classes)
  BY <1>1 DEF RowsOf
<1>6. rows \in SUBSET Period
  BY <1>4, <1>5
<1>7. c \in Call
  BY <1>2, <1>6 DEF Call
<1>8. \A d \in days : d # 0
  BY TimetableAssumption
<1>9. ASSUME NEW p \in rows, NEW i \in Live, period[i].active PROVE Apart(p, period[i])
  <2>1. PICK b \in cut, d \in days : p = RowOf(b, d, classes)
    BY <1>5
  <2>2. p.day = d /\ p.classes = classes /\ d # 0
    BY <1>4, <1>8, <2>1
  <2>3. \/ period[i].day \notin days \cup {0}
        \/ ~ForOneClass(period[i], [classes |-> classes])
    BY <1>9 DEF GenerateSchoolDaySchedule
  <2>4. ~OnOneDay(p, period[i]) \/ ~ForOneClass(p, period[i])
    BY <2>2, <2>3 DEF OnOneDay, ForOneClass
  <2> QED BY <2>4 DEF Apart
<1>10. ASSUME NEW p \in rows, NEW q \in rows, p # q PROVE Apart(p, q)
  <2>1. PICK b \in cut, d \in days : p = RowOf(b, d, classes)
    BY <1>5
  <2>2. PICK a \in cut, e \in days : q = RowOf(a, e, classes)
    BY <1>5
  <2>3. CASE d # e
    <3>1. ~OnOneDay(p, q)
      BY <1>4, <1>8, <2>1, <2>2, <2>3 DEF OnOneDay
    <3> QED BY <3>1 DEF Apart
  <2>4. CASE d = e
    <3>1. a # b
      BY <1>10, <2>1, <2>2, <2>4
    <3>2. ~Overlap(b, a)
      BY <3>1, TimetableAssumption
    <3>3. ~Overlap(p, q)
      BY <1>4, <2>1, <2>2, <3>2 DEF Overlap
    <3> QED BY <3>3 DEF Apart
  <2> QED BY <2>3, <2>4
<1>11. RowsReady(c.rows)
  BY <1>3, <1>9, <1>10 DEF RowsReady
<1>12. IdFits(c) /\ PruneFits(c)
  BY <1>3 DEF IdFits, PruneFits
<1>13. Ready(c)
  BY <1>3, <1>11 DEF Ready
<1>14. Begins(k, c)
  BY <1>1, <1>2 DEF GenerateSchoolDaySchedule
<1> QED BY <1>7, <1>12, <1>13, <1>14 DEF Fits

(* Calls of these kinds need nothing they found to hold. *)
LEMMA OthersFit ==
  ASSUME NEW c \in Call, c.pc \in {"idle", "get periods", "drop periods", "copy"}
  PROVE  Fits(c)
BY DEF Fits, IdFits, PruneFits, Ready

LEMMA DeletePeriodFits ==
  ASSUME TypeOK, NEW k, NEW i \in PeriodIds, NEW group \in BOOLEAN, DeletePeriod(k, i, group)
  PROVE  \E todo : Fits(todo) /\ Begins(k, todo)
<1>1. PICK S \in SUBSET PeriodIds : Begins(k, [pc |-> "drop periods", ids |-> S])
  <2>1. CASE group
    BY <2>1 DEF DeletePeriod, Live
  <2>2. CASE ~group
    BY <2>2 DEF DeletePeriod, Live
  <2> QED BY <2>1, <2>2
<1>2. [pc |-> "drop periods", ids |-> S] \in Call
  BY DEF Call
<1> QED BY <1>1, <1>2, OthersFit

LEMMA BeginPeriodsFits ==
  ASSUME TypeOK, RowIds, NEW k \in Calls, BeginPeriods(k)
  PROVE  \/ \E todo : Fits(todo) /\ Begins(k, todo)
         \/ \E i, n \in PeriodIds : ReorderPeriod(k, i, n)
<1>1. ASSUME GetPeriods(k) PROVE \E todo : Fits(todo) /\ Begins(k, todo)
  BY <1>1, PruneFitsNow DEF GetPeriods
<1> QED BY <1>1, CreatePeriodFits, UpdatePeriodFits, GenerateFits, DeletePeriodFits
        DEF BeginPeriods

LEMMA CreateEntryFits ==
  ASSUME TypeOK, NEW k, NEW x \in Entry, NEW override \in BOOLEAN,
         CreateTimetableEntry(k, x, override)
  PROVE  \E todo : Fits(todo) /\ Begins(k, todo)
<1>1. PICK boxes \in Boxes(x) : Accepts(boxes, override) /\ Begins(k, Placing(boxes, override, {}))
  BY DEF CreateTimetableEntry
<1>2. PICK c : c = Placing(boxes, override, {})
  OBVIOUS
<1>3. c \in Call /\ c.pc = "insert boxes"
  BY <1>2, PlacingTyped DEF Placing
<1>4. BoxesReady(c)
  BY <1>1, <1>2, AcceptedReady
<1>5. IdFits(c) /\ PruneFits(c) /\ Ready(c)
  BY <1>3, <1>4 DEF IdFits, PruneFits, Ready
<1> QED BY <1>1, <1>2, <1>3, <1>5 DEF Fits

LEMMA UpdateEntryFits ==
  ASSUME TypeOK, RowIds, NEW k, NEW e \in Placed, NEW x \in Entry, NEW override \in BOOLEAN,
         UpdateTimetableEntry(k, e, x, override)
  PROVE  \E todo : Fits(todo) /\ Begins(k, todo)
<1>1. PICK c : c = [pc |-> "save entry", id |-> e, box |-> x, override |-> override]
  OBVIOUS
<1>2. c.pc = "save entry" /\ c.id = e
  BY <1>1
<1>3. c \in Call
  BY <1>1 DEF Call, Placed
<1>4. EntryReady(c)
  BY <1>1, MovedReady DEF UpdateTimetableEntry
<1>5. IdFits(c) /\ PruneFits(c) /\ Ready(c)
  BY <1>2, <1>4 DEF IdFits, PruneFits, Ready, RowIds
<1> QED BY <1>1, <1>3, <1>5 DEF Fits, UpdateTimetableEntry

LEMMA DeleteEntryFits ==
  ASSUME TypeOK, TwinsInv, NEW k, NEW e \in Placed, DeleteTimetableEntry(k, e)
  PROVE  \E todo : Fits(todo) /\ Begins(k, todo)
<1>1. PICK partners : partners = IF entry[e].double THEN Partners(e) ELSE {}
  OBVIOUS
<1>2. partners \in SUBSET EntryIds
  BY <1>1 DEF Partners, Placed
<1>3. PICK c : c = [pc |-> "remove", id |-> e, partners |-> partners]
  OBVIOUS
<1>4. c.pc = "remove"
  BY <1>3
<1>5. c \in Call
  BY <1>2, <1>3 DEF Call, Placed
<1>6. RemoveReady(c)
  BY <1>1, <1>3, DeletionReady
<1>7. IdFits(c) /\ PruneFits(c) /\ Ready(c)
  BY <1>4, <1>6 DEF IdFits, PruneFits, Ready
<1> QED BY <1>1, <1>3, <1>5, <1>7 DEF Fits, DeleteTimetableEntry

LEMMA BeginEntriesFits ==
  ASSUME TypeOK, RowIds, TwinsInv, NEW k \in Calls, BeginEntries(k)
  PROVE  \E todo : Fits(todo) /\ Begins(k, todo)
<1>1. PICK override \in BOOLEAN :
        \/ \E x \in Wishes : CreateTimetableEntry(k, x, override)
        \/ \E e \in Placed, d \in Days, i \in Live :
             UpdateTimetableEntry(k, e, [entry[e] EXCEPT !.day = d, !.period = i], override)
        \/ \E e \in Placed, staff \in SUBSET Teachers :
             UpdateTimetableEntry(k, e, GiveTo(entry[e], staff), override)
        \/ \E c \in Classes \cup {"all"}, from, to \in Days :
             CopyDayLayout(k, c, from, to, override)
        \/ \E from, to \in Classes, with \in BOOLEAN :
             CloneClassTimetable(k, from, to, with, override)
        \/ \E e \in Placed : DeleteTimetableEntry(k, e)
  BY DEF BeginEntries
<1>2. ASSUME NEW x \in Wishes, CreateTimetableEntry(k, x, override)
      PROVE  \E todo : Fits(todo) /\ Begins(k, todo)
  <2>1. x \in Entry
    BY TimetableAssumption
  <2> QED BY <1>2, <2>1, CreateEntryFits
<1>4. ASSUME NEW e \in Placed, NEW d \in Days, NEW i \in Live
      PROVE  [entry[e] EXCEPT !.day = d, !.period = i] \in Entry
  <2>1. PICK x \in Entry : x = entry[e]
    BY RowsTyped
  <2>2. [x EXCEPT !.day = d, !.period = i] \in Entry
    BY DEF Entry, Live
  <2> QED BY <2>1, <2>2
<1>5. ASSUME NEW e \in Placed, NEW staff \in SUBSET Teachers PROVE GiveTo(entry[e], staff) \in Entry
  <2>1. PICK x \in Entry : x = entry[e]
    BY RowsTyped
  <2>2. PICK lead : lead = IF staff = {} THEN x.lead ELSE CHOOSE t \in staff : TRUE
    OBVIOUS
  <2>3. lead \in Teachers \cup {NoOne}
    BY <2>2 DEF Entry
  <2>4. [x EXCEPT !.staff = staff, !.lead = lead] \in Entry
    BY <2>3 DEF Entry
  <2> QED BY <2>1, <2>2, <2>4 DEF GiveTo
<1>6. ASSUME NEW queue \in SUBSET [source : EntryIds, copy : Entry]
      PROVE  Fits([pc |-> "copy", override |-> override, queue |-> queue])
  <2>1. [pc |-> "copy", override |-> override, queue |-> queue] \in Call
    BY DEF Call
  <2> QED BY <2>1, OthersFit
<1>7. ASSUME NEW c \in Classes \cup {"all"}, NEW from \in Days, NEW to \in Days,
             CopyDayLayout(k, c, from, to, override)
      PROVE  \E todo : Fits(todo) /\ Begins(k, todo)
  <2>1. ASSUME NEW e \in Placed PROVE [source |-> e, copy |-> [entry[e] EXCEPT !.day = to]]
                                         \in [source : EntryIds, copy : Entry]
    <3>1. PICK x \in Entry : x = entry[e]
      BY RowsTyped
    <3>2. [x EXCEPT !.day = to] \in Entry
      BY DEF Entry
    <3> QED BY <3>1, <3>2 DEF Placed
  <2>2. PICK source \in SUBSET Placed :
          Begins(k, [pc |-> "copy", override |-> override,
                     queue |-> {[source |-> e, copy |-> [entry[e] EXCEPT !.day = to]] : e \in source}])
    BY <1>7 DEF CopyDayLayout
  <2>3. PICK queue : queue = {[source |-> e, copy |-> [entry[e] EXCEPT !.day = to]] : e \in source}
    OBVIOUS
  <2>4. queue \in SUBSET [source : EntryIds, copy : Entry]
    BY <2>1, <2>3
  <2> QED BY <1>6, <2>2, <2>3, <2>4
<1>8. ASSUME NEW from \in Classes, NEW to \in Classes, NEW with \in BOOLEAN,
             CloneClassTimetable(k, from, to, with, override)
      PROVE  \E todo : Fits(todo) /\ Begins(k, todo)
  <2> DEFINE Copy(x) == IF with THEN [x EXCEPT !.class = to]
                        ELSE [x EXCEPT !.class = to, !.lead = NoOne, !.staff = {}, !.byClass = FALSE]
  <2>1. ASSUME NEW e \in Placed PROVE [source |-> e, copy |-> Copy(entry[e])]
                                         \in [source : EntryIds, copy : Entry]
    <3>1. PICK x \in Entry : x = entry[e]
      BY RowsTyped
    <3>2. [x EXCEPT !.class = to] \in Entry
      BY DEF Entry
    <3>3. [x EXCEPT !.class = to, !.lead = NoOne, !.staff = {}, !.byClass = FALSE] \in Entry
      BY DEF Entry
    <3> QED BY <3>1, <3>2, <3>3 DEF Placed
  <2>2. PICK source \in SUBSET Placed :
          Begins(k, [pc |-> "copy", override |-> override,
                     queue |-> {[source |-> e, copy |-> Copy(entry[e])] : e \in source}])
    BY <1>8 DEF CloneClassTimetable
  <2> HIDE DEF Copy
  <2>3. PICK queue : queue = {[source |-> e, copy |-> Copy(entry[e])] : e \in source}
    OBVIOUS
  <2>4. queue \in SUBSET [source : EntryIds, copy : Entry]
    BY <2>1, <2>3
  <2> QED BY <1>6, <2>2, <2>3, <2>4
<1> QED BY <1>1, <1>2, <1>4, <1>5, <1>7, <1>8, UpdateEntryFits, DeleteEntryFits

-----------------------------------------------------------------------------
(* The variables keep their types.                                         *)

LEMMA BeginsTyped ==
  ASSUME TypeOK, NEW k \in Calls, NEW todo \in Call, Begins(k, todo)
  PROVE  TypeOK'
<1>1. UNCHANGED <<tables, history>>
  BY DEF Begins
<1>2. call' \in [Calls -> Call] /\ begun' \in 0 .. MaxCalls /\ alone' \subseteq Calls
  BY TimetableAssumption DEF Begins, TypeOK
<1> QED BY <1>1, <1>2 DEF TypeOK, tables, history, Live, Placed

LEMMA GoesTyped ==
  ASSUME TypeOK, NEW k \in Calls, NEW todo \in Call, Goes(k, todo)
  PROVE  call' \in [Calls -> Call] /\ begun' \in 0 .. MaxCalls /\ alone' \subseteq Calls
BY DEF Goes, TypeOK

LEMMA IdleIsCall == Idle \in Call
BY DEF Idle, Call

LEMMA EndsTyped ==
  ASSUME TypeOK, NEW k \in Calls, Ends(k)
  PROVE  call' \in [Calls -> Call] /\ begun' \in 0 .. MaxCalls /\ alone' \subseteq Calls
BY IdleIsCall, GoesTyped DEF Ends

LEMMA PassingTyped ==
  ASSUME TypeOK, Passing
  PROVE  call' \in [Calls -> Call] /\ begun' \in 0 .. MaxCalls /\ alone' \subseteq Calls
BY TimetableAssumption DEF Passing, TypeOK

(* Install puts typed rows under new ids, and leaves the others. *)
LEMMA Installed ==
  ASSUME TypeOK, RowIds, NEW rows \in SUBSET Period, Install(rows)
  PROVE  /\ period' \in [PeriodIds -> Period \cup {NoPeriod}]
         /\ lastPeriod' \in 0 .. MaxPeriods /\ lastPeriod <= lastPeriod'
         /\ Live' = Live \cup lastPeriod + 1 .. lastPeriod'
         /\ \A i \in PeriodIds \ (lastPeriod + 1 .. lastPeriod') : period'[i] = period[i]
         /\ \A i \in lastPeriod + 1 .. lastPeriod' : i \notin Live /\ period'[i] \in rows
         /\ \A i, j \in lastPeriod + 1 .. lastPeriod' : i # j => period'[i] # period'[j]
<1>1. PICK n \in lastPeriod .. MaxPeriods : \E id \in Bijection(rows, lastPeriod + 1 .. n) :
        /\ period' = [i \in PeriodIds |-> IF i \in lastPeriod + 1 .. n
                                          THEN CHOOSE p \in rows : id[p] = i ELSE period[i]]
        /\ lastPeriod' = n
  BY DEF Install
<1>2. PICK id \in Bijection(rows, lastPeriod + 1 .. n) :
        period' = [i \in PeriodIds |-> IF i \in lastPeriod + 1 .. n
                                       THEN CHOOSE p \in rows : id[p] = i ELSE period[i]]
  BY <1>1
<1>3. lastPeriod \in 0 .. MaxPeriods /\ lastPeriod' = n /\ MaxPeriods \in Nat
  BY <1>1, TimetableAssumption DEF TypeOK
<1>4. \A i \in lastPeriod + 1 .. n : i \in PeriodIds
  BY <1>3 DEF PeriodIds
<1>5. \A i \in lastPeriod + 1 .. n : \E p \in rows : id[p] = i
  BY DEF Bijection, Surjection
<1>6. \A i \in lastPeriod + 1 .. n : period'[i] \in rows /\ id[period'[i]] = i
  BY <1>2, <1>4, <1>5
<1>7. \A i \in PeriodIds \ (lastPeriod + 1 .. n) : period'[i] = period[i]
  BY <1>2
<1>8. \A i \in lastPeriod + 1 .. n : i \notin Live
  <2>1. \A i \in Live : i <= lastPeriod
    BY DEF RowIds
  <2> QED BY <2>1, <1>3
<1>9. period' \in [PeriodIds -> Period \cup {NoPeriod}]
  BY <1>2, <1>6, <1>7 DEF TypeOK
<1>10. Live' = Live \cup lastPeriod + 1 .. n
  <2>1. ASSUME NEW i \in PeriodIds PROVE i \in Live' <=> i \in Live \cup lastPeriod + 1 .. n
    BY <1>6, <1>7, NoRowIsNone DEF Live
  <2> QED BY <2>1, <1>4 DEF Live
<1> QED BY <1>3, <1>6, <1>7, <1>8, <1>9, <1>10

LEMMA InstallTyped ==
  ASSUME TypeOK, RowIds, NEW rows \in SUBSET Period, Install(rows),
         UNCHANGED <<entry, lastEntry, classTeacher, rooms, away, vetted, forced, twins>>,
         call' \in [Calls -> Call], begun' \in 0 .. MaxCalls, alone' \subseteq Calls,
         sound' \subseteq sound \cup lastPeriod + 1 .. lastPeriod'
  PROVE  TypeOK'
BY Installed DEF TypeOK, Placed

LEMMA InsertPeriodsTyped ==
  ASSUME TypeOK, RowIds, NEW k \in Calls, InsertPeriods(k)
  PROVE  TypeOK'
<1>1. PICK rows : rows = call[k].rows
  OBVIOUS
<1>2. rows \in SUBSET Period
  BY <1>1, CallTyped DEF InsertPeriods
<1>3. /\ Install(rows) /\ Ends(k)
      /\ UNCHANGED <<entry, lastEntry, classTeacher, rooms, away, vetted, forced, twins>>
      /\ sound' \subseteq sound \cup lastPeriod + 1 .. lastPeriod'
  BY <1>1 DEF InsertPeriods
<1> QED BY <1>2, <1>3, EndsTyped, InstallTyped

LEMMA InitDefaultPeriodsTyped ==
  ASSUME TypeOK, RowIds, InitDefaultPeriods
  PROVE  TypeOK'
<1>1. DefaultSlots \in SUBSET Period
  BY TimetableAssumption
<1>2. /\ Install(DefaultSlots) /\ Passing
      /\ UNCHANGED <<entry, lastEntry, classTeacher, rooms, away, vetted, forced, twins, sound>>
  BY DEF InitDefaultPeriods, history
<1> QED BY <1>1, <1>2, PassingTyped, InstallTyped

LEMMA SavedPeriod ==
  ASSUME TypeOK, NEW k \in Calls, SavePeriod(k)
  PROVE  /\ call[k].pc = "save period" /\ call[k].id \in PeriodIds /\ call[k].row \in Period
         /\ period' = [period EXCEPT ![call[k].id] = call[k].row]
         /\ period' \in [PeriodIds -> Period \cup {NoPeriod}]
         /\ Live' = Live \cup {call[k].id} /\ Placed' = Placed
         /\ vetted' = {e \in vetted : entry[e].period # call[k].id}
         /\ k \in alone => sound' = sound \cup {call[k].id}
         /\ k \notin alone => sound' = sound \ {call[k].id}
         /\ UNCHANGED <<lastPeriod, entry, lastEntry, classTeacher, rooms, away, forced, twins>>
         /\ Ends(k)
<1>1. call[k].pc = "save period"
  BY DEF SavePeriod
<1>2. call[k].id \in PeriodIds /\ call[k].row \in Period
  BY <1>1, CallTyped
<1>3. PICK i : i = call[k].id
  OBVIOUS
<1>4. PICK row : row = call[k].row
  OBVIOUS
<1>5. period' = [period EXCEPT ![i] = row]
  BY <1>3, <1>4 DEF SavePeriod
<1>6. period' \in [PeriodIds -> Period \cup {NoPeriod}] /\ Live' = Live \cup {i}
  BY <1>2, <1>3, <1>4, <1>5, NoRowIsNone DEF TypeOK, Live
<1>7. Placed' = Placed
  BY DEF SavePeriod, Placed
<1> QED BY <1>1, <1>2, <1>3, <1>5, <1>4, <1>6, <1>7 DEF SavePeriod

LEMMA SavePeriodTyped ==
  ASSUME TypeOK, NEW k \in Calls, SavePeriod(k)
  PROVE  TypeOK'
<1>1. PICK i \in PeriodIds : i = call[k].id
  BY SavedPeriod
<1>2. vetted' \subseteq vetted
  BY SavedPeriod
<1>3. sound' \subseteq sound \cup {i}
  <2>1. CASE k \in alone
    BY <1>1, <2>1, SavedPeriod
  <2>2. CASE k \notin alone
    <3>1. sound' = sound \ {call[k].id}
      BY <2>2, SavedPeriod
    <3> QED BY <3>1
  <2> QED BY <2>1, <2>2
<1>4. /\ period' \in [PeriodIds -> Period \cup {NoPeriod}] /\ Live' = Live \cup {i}
      /\ Placed' = Placed
  BY <1>1, SavedPeriod
<1>5. UNCHANGED <<lastPeriod, entry, lastEntry, classTeacher, rooms, away, forced, twins>>
  BY SavedPeriod
<1>6. Ends(k)
  BY SavedPeriod
<1> QED BY <1>2, <1>3, <1>4, <1>5, <1>6, EndsTyped DEF TypeOK

LEMMA Dropped ==
  ASSUME TypeOK, NEW S \in SUBSET PeriodIds, Drop(S)
  PROVE  /\ period' \in [PeriodIds -> Period \cup {NoPeriod}]
         /\ entry' \in [EntryIds -> Entry \cup {NoEntry}]
         /\ away' \in [Teachers -> SUBSET Availability]
         /\ \A t \in Teachers : away'[t] = {a \in away[t] : a.period \notin S}
         /\ Live' = Live \ S
         /\ \A i \in PeriodIds \ S : period'[i] = period[i]
         /\ \A i \in S : period'[i] = NoPeriod
         /\ Placed' = {e \in Placed : entry[e].period \notin S}
         /\ \A e \in Placed' : entry'[e] = entry[e]
         /\ vetted' = vetted \cap Placed' /\ sound' = sound \ S
         /\ UNCHANGED <<lastPeriod, lastEntry, classTeacher, rooms, forced, twins>>
<1>1. /\ period' = [i \in PeriodIds |-> IF i \in S THEN NoPeriod ELSE period[i]]
      /\ entry' = [e \in EntryIds |-> IF e \in {f \in Placed : entry[f].period \in S}
                                      THEN NoEntry ELSE entry[e]]
      /\ away' = [t \in Teachers |-> {a \in away[t] : a.period \notin S}]
      /\ sound' = sound \ S
      /\ vetted' = vetted \ {f \in Placed : entry[f].period \in S}
      /\ UNCHANGED <<lastPeriod, lastEntry, classTeacher, rooms, forced, twins>>
  BY DEF Drop
<1>2. period' \in [PeriodIds -> Period \cup {NoPeriod}]
  BY <1>1 DEF TypeOK
<1>3. entry' \in [EntryIds -> Entry \cup {NoEntry}]
  BY <1>1 DEF TypeOK
<1>4. away' \in [Teachers -> SUBSET Availability]
  BY <1>1 DEF TypeOK
<1>5. \A i \in PeriodIds \ S : period'[i] = period[i]
  BY <1>1
<1>6. \A i \in S : period'[i] = NoPeriod
  BY <1>1
<1>7. Live' = Live \ S
  BY <1>1 DEF Live
<1>8. Placed' = {e \in Placed : entry[e].period \notin S}
  BY <1>1 DEF Placed
<1>9. \A e \in Placed' : entry'[e] = entry[e]
  BY <1>1, <1>8 DEF Placed
<1>10. vetted' = vetted \cap Placed'
  BY <1>1, <1>8 DEF TypeOK
<1>11. \A t \in Teachers : away'[t] = {a \in away[t] : a.period \notin S}
  BY <1>1
<1> QED BY <1>1, <1>2, <1>3, <1>4, <1>5, <1>6, <1>7, <1>8, <1>9, <1>10, <1>11

LEMMA DropPeriodsTyped ==
  ASSUME TypeOK, NEW k \in Calls, DropPeriods(k)
  PROVE  TypeOK'
<1>1. PICK S : S = call[k].ids
  OBVIOUS
<1>2. S \in SUBSET PeriodIds /\ Drop(S) /\ Ends(k)
  BY <1>1, CallTyped DEF DropPeriods
<1>3. \A e \in Placed' : entry'[e].period \in Live' /\ entry'[e].room \in rooms' \cup {NoRoom}
  BY <1>2, Dropped DEF TypeOK
<1> QED BY <1>2, <1>3, Dropped, EndsTyped DEF TypeOK

LEMMA ReorderPeriodTyped ==
  ASSUME TypeOK, NEW k \in Calls, NEW i \in PeriodIds, NEW n \in PeriodIds, ReorderPeriod(k, i, n)
  PROVE  TypeOK' /\ Live' = Live
<1>1. PICK todo \in Call : todo = [pc |-> "get periods"]
  BY DEF Call
<1>2. call' \in [Calls -> Call] /\ begun' \in 0 .. MaxCalls /\ alone' \subseteq Calls
  <2>1. call' = [call EXCEPT ![k] = todo] /\ begun < MaxCalls /\ begun' = begun + 1 /\ alone' = {}
    BY <1>1 DEF ReorderPeriod
  <2> QED BY <2>1, TimetableAssumption DEF TypeOK
<1>3. PICK p \in Period : p = period[i]
  BY RowsTyped DEF ReorderPeriod
<1>4. [p EXCEPT !.order = n] \in Period
  BY DEF Period, PeriodIds
<1>5. period' = [period EXCEPT ![i] = [p EXCEPT !.order = n]]
  BY <1>3 DEF ReorderPeriod
<1>6. period' \in [PeriodIds -> Period \cup {NoPeriod}]
  BY <1>4, <1>5 DEF TypeOK
<1>7. Live' = Live
  BY <1>4, <1>5, NoRowIsNone DEF Live, ReorderPeriod, TypeOK
<1>8. UNCHANGED <<lastPeriod, entry, lastEntry, classTeacher, rooms, away, sound, vetted, forced, twins>>
  BY DEF ReorderPeriod, history
<1> QED BY <1>2, <1>6, <1>7, <1>8 DEF TypeOK, Placed

LEMMA GetPeriodsAgainTyped ==
  ASSUME TypeOK, NEW k \in Calls, GetPeriodsAgain(k)
  PROVE  TypeOK'
<1>1. [pc |-> "prune", ids |-> Duplicates, read |-> period] \in Call
  BY DEF Call, Duplicates, Live, TypeOK
<1>2. call' \in [Calls -> Call] /\ begun' \in 0 .. MaxCalls /\ alone' \subseteq Calls
  BY <1>1, GoesTyped, EndsTyped DEF GetPeriodsAgain
<1>3. UNCHANGED <<tables, history>>
  BY DEF GetPeriodsAgain
<1> QED BY <1>2, <1>3 DEF TypeOK, tables, history, Live, Placed

LEMMA TailTyped ==
  ASSUME NEW S, NEW s \in Seq(S), Len(s) > 1
  PROVE  Tail(s) \in Seq(S) \ {<<>>} /\ Len(Tail(s)) = Len(s) - 1
<1>1. s # <<>> /\ Len(s) \in Nat
  OBVIOUS
<1>2. Tail(s) \in Seq(S) /\ Len(Tail(s)) = Len(s) - 1
  BY <1>1
<1>3. Len(Tail(s)) # 0
  BY <1>1, <1>2
<1>4. Len(<<>>) = 0
  OBVIOUS
<1>5. Tail(s) # <<>>
  BY <1>3, <1>4
<1> QED BY <1>2, <1>5

(* InsertBox: the row goes under a new id. *)
LEMMA BoxInserted ==
  ASSUME TypeOK, RowIds, NEW k \in Calls, InsertBox(k)
  PROVE  /\ call[k].pc = "insert boxes" /\ lastEntry' = lastEntry + 1
         /\ lastEntry \in Nat /\ lastEntry' \in EntryIds /\ lastEntry' \notin Placed
         /\ Head(call[k].boxes) \in Entry
         /\ Head(call[k].boxes).period \in Live
         /\ Head(call[k].boxes).room \in rooms \cup {NoRoom}
         /\ entry' = [entry EXCEPT ![lastEntry'] = Head(call[k].boxes)]
         /\ \A e \in EntryIds \ {lastEntry'} : entry'[e] = entry[e]
         /\ entry'[lastEntry'] = Head(call[k].boxes)
         /\ UNCHANGED <<period, lastPeriod, classTeacher, rooms, away, sound>>
<1>1. PICK e : e = lastEntry + 1
  OBVIOUS
<1>2. PICK x : x = Head(call[k].boxes)
  OBVIOUS
<1>3. /\ call[k].pc = "insert boxes" /\ e <= MaxEntries
      /\ x.period \in Live /\ x.room \in rooms \cup {NoRoom}
      /\ entry' = [entry EXCEPT ![e] = x] /\ lastEntry' = e
      /\ UNCHANGED <<period, lastPeriod, classTeacher, rooms, away, sound>>
  BY <1>1, <1>2 DEF InsertBox
<1>4. lastEntry \in 0 .. MaxEntries /\ MaxEntries \in Nat
  BY TimetableAssumption DEF TypeOK
<1>5. lastEntry \in Nat /\ e \in EntryIds
  <2>1. lastEntry \in Nat /\ 1 <= e /\ e \in Nat
    BY <1>1, <1>4
  <2>2. e <= MaxEntries
    BY <1>3
  <2> QED BY <2>1, <2>2, <1>4 DEF EntryIds
<1>6. e \notin Placed
  <2>1. \A f \in Placed : f <= lastEntry
    BY DEF RowIds
  <2> QED BY <1>1, <1>5, <2>1
<1>7. PICK boxes \in Seq(Entry) \ {<<>>} : boxes = call[k].boxes
  BY <1>3, CallTyped
<1>8. Head(boxes) \in Entry
  BY <1>7
<1>9. entry'[e] = x /\ \A f \in EntryIds \ {e} : entry'[f] = entry[f]
  BY <1>3, <1>5 DEF TypeOK
<1> QED BY <1>1, <1>2, <1>3, <1>5, <1>6, <1>7, <1>8, <1>9

LEMMA InsertBoxTyped ==
  ASSUME TypeOK, RowIds, NEW k \in Calls, InsertBox(k)
  PROVE  TypeOK'
<1>1. PICK e \in EntryIds : e = lastEntry + 1
  BY BoxInserted
<1>2. PICK x \in Entry : x = Head(call[k].boxes)
  BY BoxInserted
<1>3. /\ x.period \in Live /\ x.room \in rooms \cup {NoRoom}
      /\ entry' = [entry EXCEPT ![e] = x] /\ lastEntry' = e
      /\ UNCHANGED <<period, lastPeriod, classTeacher, rooms, away, sound>>
  BY <1>1, <1>2, BoxInserted
<1>4. entry' \in [EntryIds -> Entry \cup {NoEntry}] /\ lastEntry' \in 0 .. MaxEntries
  BY <1>3, TimetableAssumption DEF TypeOK, EntryIds
<1>5. Placed' = Placed \cup {e} /\ Live' = Live
  BY <1>3, NoRowIsNone DEF Placed, TypeOK, Live
<1>6. \A f \in Placed' : entry'[f].period \in Live' /\ entry'[f].room \in rooms' \cup {NoRoom}
  BY <1>3, <1>5 DEF TypeOK, Placed
<1>7. vetted' \subseteq Placed'
  <2>1. vetted' = vetted \cup IF k \in alone THEN {e} ELSE {}
    BY <1>1 DEF InsertBox
  <2> QED BY <2>1, <1>5 DEF TypeOK
<1>8. forced' \subseteq EntryIds
  <2>1. forced' = forced \cup IF call[k].override THEN {e} ELSE {}
    BY <1>1 DEF InsertBox
  <2> QED BY <2>1 DEF TypeOK
<1>9. PICK boxes, made, override, queue :
         boxes = call[k].boxes /\ made = call[k].made /\ override = call[k].override
         /\ queue = call[k].queue
  OBVIOUS
<1>10. /\ boxes \in Seq(Entry) \ {<<>>} /\ made \in SUBSET EntryIds /\ override \in BOOLEAN
       /\ queue \in SUBSET [source : EntryIds, copy : Entry]
       /\ call[k].pc = "insert boxes" /\ call[k] \in Call
  BY <1>9, CallTyped, BoxInserted
<1>11. twins' \subseteq SUBSET EntryIds
  <2>1. twins' = twins \cup IF made # {} /\ k \in alone THEN {made \cup {e}} ELSE {}
    BY <1>1, <1>9 DEF InsertBox
  <2> QED BY <1>10, <2>1 DEF TypeOK
<1>12. call' \in [Calls -> Call] /\ begun' \in 0 .. MaxCalls /\ alone' \subseteq Calls
  <2>1. CASE Len(boxes) > 1
    <3>1. PICK todo : todo = [call[k] EXCEPT !.boxes = Tail(boxes), !.made = made \cup {e}]
      OBVIOUS
    <3>2. Tail(boxes) \in Seq(Entry) \ {<<>>}
      BY <2>1, <1>10, TailTyped
    <3>3. PICK c \in Call : c = call[k] /\ c.pc = "insert boxes"
      BY <1>10
    <3>4. todo \in Call
      BY <3>1, <3>2, <3>3, <1>10 DEF Call
    <3>5. Goes(k, todo)
      BY <2>1, <3>1, <1>1, <1>9 DEF InsertBox
    <3> QED BY <3>4, <3>5, GoesTyped
  <2>2. CASE ~(Len(boxes) > 1) /\ queue = {}
    BY <2>2, <1>9, EndsTyped DEF InsertBox
  <2>3. CASE ~(Len(boxes) > 1) /\ queue # {}
    <3>1. PICK todo : todo = [pc |-> "copy", queue |-> queue, override |-> override]
      OBVIOUS
    <3>2. todo \in Call
      BY <3>1, <1>10 DEF Call
    <3>3. Goes(k, todo)
      BY <2>3, <3>1, <1>9 DEF InsertBox
    <3> QED BY <3>2, <3>3, GoesTyped
  <2> QED BY <2>1, <2>2, <2>3
<1> QED BY <1>3, <1>4, <1>5, <1>6, <1>7, <1>8, <1>11, <1>12 DEF TypeOK

LEMMA CopyNextTyped ==
  ASSUME TypeOK, NEW k \in Calls, CopyNext(k)
  PROVE  TypeOK'
<1>1. PICK override, queue : override = call[k].override /\ queue = call[k].queue
  OBVIOUS
<1>2. /\ call[k].pc = "copy" /\ call[k] \in Call /\ override \in BOOLEAN
      /\ queue \in SUBSET [source : EntryIds, copy : Entry]
  BY <1>1, CallTyped DEF CopyNext
<1>3. PICK item \in queue :
        \/ Ends(k)
        \/ \E boxes \in Boxes(item.copy) :
             \/ Goes(k, Placing(boxes, override, queue \ {item}))
             \/ Goes(k, [call[k] EXCEPT !.queue = queue \ {item}])
  BY <1>1 DEF CopyNext
<1>4. item.copy \in Entry /\ queue \ {item} \in SUBSET [source : EntryIds, copy : Entry]
  BY <1>2
<1>5. PICK c \in Call : c = call[k] /\ c.pc = "copy"
  BY <1>2
<1>6. [c EXCEPT !.queue = queue \ {item}] \in Call
  BY <1>4, <1>5 DEF Call
<1>7. \/ Ends(k)
      \/ \E todo \in Call : Goes(k, todo)
  BY <1>2, <1>3, <1>4, <1>5, <1>6, PlacingTyped
<1>8. call' \in [Calls -> Call] /\ begun' \in 0 .. MaxCalls /\ alone' \subseteq Calls
  BY <1>7, EndsTyped, GoesTyped
<1>9. UNCHANGED <<tables, history>>
  BY DEF CopyNext
<1> QED BY <1>8, <1>9 DEF TypeOK, tables, history, Live, Placed

LEMMA EntrySaved ==
  ASSUME TypeOK, NEW k \in Calls, SaveEntry(k)
  PROVE  /\ call[k].pc = "save entry" /\ call[k].id \in EntryIds /\ call[k].box \in Entry
         /\ call[k].box.period \in Live /\ call[k].box.room \in rooms \cup {NoRoom}
         /\ entry' \in [EntryIds -> Entry \cup {NoEntry}]
         /\ entry'[call[k].id] = call[k].box
         /\ \A e \in EntryIds \ {call[k].id} : entry'[e] = entry[e]
         /\ Placed' = Placed \cup {call[k].id}
         /\ twins' = {pair \in twins : call[k].id \notin pair}
         /\ UNCHANGED <<period, lastPeriod, lastEntry, classTeacher, rooms, away, sound>>
         /\ Ends(k)
<1>1. PICK e, x : e = call[k].id /\ x = call[k].box
  OBVIOUS
<1>2. /\ call[k].pc = "save entry" /\ x.period \in Live /\ x.room \in rooms \cup {NoRoom}
      /\ entry' = [entry EXCEPT ![e] = x] /\ twins' = {pair \in twins : e \notin pair}
      /\ UNCHANGED <<period, lastPeriod, lastEntry, classTeacher, rooms, away, sound>>
      /\ Ends(k)
  BY <1>1 DEF SaveEntry
<1>3. e \in EntryIds /\ x \in Entry
  BY <1>1, <1>2, CallTyped
<1>4. /\ entry' \in [EntryIds -> Entry \cup {NoEntry}] /\ entry'[e] = x
      /\ \A f \in EntryIds \ {e} : entry'[f] = entry[f]
  BY <1>2, <1>3 DEF TypeOK
<1>5. Placed' = Placed \cup {e}
  BY <1>3, <1>4, NoRowIsNone DEF Placed
<1> QED BY <1>1, <1>2, <1>3, <1>4, <1>5

LEMMA SaveEntryTyped ==
  ASSUME TypeOK, NEW k \in Calls, SaveEntry(k)
  PROVE  TypeOK'
<1>1. PICK e \in EntryIds : e = call[k].id
  BY EntrySaved
<1>2. PICK x \in Entry : x = call[k].box
  BY EntrySaved
<1>3. /\ x.period \in Live /\ x.room \in rooms \cup {NoRoom}
      /\ entry' \in [EntryIds -> Entry \cup {NoEntry}] /\ entry'[e] = x
      /\ Placed' = Placed \cup {e}
      /\ \A f \in EntryIds \ {e} : entry'[f] = entry[f]
  BY <1>1, <1>2, EntrySaved
<1>4. twins' \subseteq twins
  BY EntrySaved
<1>5. UNCHANGED <<period, lastPeriod, lastEntry, classTeacher, rooms, away, sound>> /\ Ends(k)
  BY EntrySaved
<1>6. Live' = Live
  BY <1>5 DEF Live
<1>7. \A f \in Placed' : entry'[f].period \in Live' /\ entry'[f].room \in rooms' \cup {NoRoom}
  BY <1>3, <1>5, <1>6 DEF TypeOK, Placed
<1>8. vetted' \subseteq Placed'
  <2>1. vetted' = IF k \in alone THEN vetted \cup {e} ELSE vetted \ {e}
    BY <1>1 DEF SaveEntry
  <2> QED BY <2>1, <1>3 DEF TypeOK
<1>9. forced' \subseteq EntryIds
  <2>1. forced' = IF call[k].override THEN forced \cup {e} ELSE forced \ {e}
    BY <1>1 DEF SaveEntry
  <2> QED BY <2>1 DEF TypeOK
<1> QED BY <1>3, <1>4, <1>5, <1>6, <1>7, <1>8, <1>9, EndsTyped DEF TypeOK

(* Remove takes away one row: the next partner, or in the end the box itself. *)
LEMMA Removed ==
  ASSUME TypeOK, NEW k \in Calls, Remove(k)
  PROVE  \E e \in EntryIds :
           /\ call[k].pc = "remove" /\ call[k].partners \in SUBSET EntryIds
           /\ call[k].partners = {} => e = call[k].id /\ Ends(k)
           /\ call[k].partners # {} =>
                /\ e \in call[k].partners
                /\ Goes(k, [call[k] EXCEPT !.partners = call[k].partners \ {e}])
           /\ entry' \in [EntryIds -> Entry \cup {NoEntry}]
           /\ entry'[e] = NoEntry
           /\ \A f \in EntryIds \ {e} : entry'[f] = entry[f]
           /\ Placed' = Placed \ {e} /\ vetted' = vetted \ {e}
           /\ UNCHANGED <<period, lastPeriod, lastEntry, classTeacher, rooms, away, sound,
                          forced, twins>>
<1>1. PICK partners, id : partners = call[k].partners /\ id = call[k].id
  OBVIOUS
<1>2. call[k].pc = "remove" /\ partners \in SUBSET EntryIds /\ id \in EntryIds
  BY <1>1, CallTyped DEF Remove
<1>3. PICK e \in IF partners = {} THEN {id} ELSE partners :
        /\ entry' = [entry EXCEPT ![e] = NoEntry]
        /\ vetted' = vetted \ {e}
        /\ IF partners = {} THEN Ends(k)
           ELSE Goes(k, [call[k] EXCEPT !.partners = partners \ {e}])
  BY <1>1 DEF Remove
<1>4. e \in EntryIds
  BY <1>2, <1>3
<1>5. /\ entry' \in [EntryIds -> Entry \cup {NoEntry}] /\ entry'[e] = NoEntry
      /\ \A f \in EntryIds \ {e} : entry'[f] = entry[f]
  BY <1>3, <1>4 DEF TypeOK
<1>6. Placed' = Placed \ {e}
  BY <1>4, <1>5 DEF Placed
<1>7. UNCHANGED <<period, lastPeriod, lastEntry, classTeacher, rooms, away, sound, forced, twins>>
  BY DEF Remove
<1>8. partners = {} => e = id /\ Ends(k)
  BY <1>3
<1>9. partners # {} => e \in partners /\ Goes(k, [call[k] EXCEPT !.partners = partners \ {e}])
  BY <1>3
<1> QED BY <1>1, <1>2, <1>3, <1>4, <1>5, <1>6, <1>7, <1>8, <1>9

LEMMA RemoveTyped ==
  ASSUME TypeOK, NEW k \in Calls, Remove(k)
  PROVE  TypeOK'
<1>1. PICK partners : partners = call[k].partners
  OBVIOUS
<1>2. PICK e \in EntryIds :
           /\ call[k].pc = "remove" /\ partners \in SUBSET EntryIds
           /\ partners = {} => Ends(k)
           /\ partners # {} => Goes(k, [call[k] EXCEPT !.partners = partners \ {e}])
           /\ entry' \in [EntryIds -> Entry \cup {NoEntry}]
           /\ \A f \in EntryIds \ {e} : entry'[f] = entry[f]
           /\ Placed' = Placed \ {e} /\ vetted' = vetted \ {e}
           /\ UNCHANGED <<period, lastPeriod, lastEntry, classTeacher, rooms, away, sound,
                          forced, twins>>
  BY <1>1, Removed
<1>3. Live' = Live
  BY <1>2 DEF Live
<1>4. \A f \in Placed' : entry'[f].period \in Live' /\ entry'[f].room \in rooms' \cup {NoRoom}
  BY <1>2, <1>3 DEF TypeOK, Placed
<1>5. call' \in [Calls -> Call] /\ begun' \in 0 .. MaxCalls /\ alone' \subseteq Calls
  <2>1. CASE partners = {}
    BY <2>1, <1>2, EndsTyped
  <2>2. CASE partners # {}
    <3>1. PICK c \in Call : c = call[k] /\ c.pc = "remove"
      BY <1>2, CallTyped
    <3>2. [c EXCEPT !.partners = partners \ {e}] \in Call
      BY <3>1, <1>2 DEF Call
    <3> QED BY <2>2, <3>1, <3>2, <1>2, GoesTyped
  <2> QED BY <2>1, <2>2
<1>6. vetted' \subseteq Placed'
  BY <1>2 DEF TypeOK
<1> QED BY <1>2, <1>3, <1>4, <1>5, <1>6 DEF TypeOK

LEMMA CutOffTyped ==
  ASSUME TypeOK, NEW k \in Calls, CutOff(k)
  PROVE  TypeOK'
BY EndsTyped DEF CutOff, TypeOK, tables, history, Live, Placed

LEMMA ChangeClassTeacherTyped ==
  ASSUME TypeOK, NEW c \in Classes, NEW t \in Teachers, ChangeClassTeacher(c, t)
  PROVE  TypeOK'
<1>1. /\ classTeacher' = [classTeacher EXCEPT ![c] = t]
      /\ vetted' \subseteq vetted
      /\ Passing
      /\ UNCHANGED <<period, lastPeriod, entry, lastEntry, rooms, away, sound, forced, twins>>
  BY DEF ChangeClassTeacher
<1> QED BY <1>1, PassingTyped DEF TypeOK, Live, Placed

(* A room goes, and the entries in it are without a room from then on. *)
LEMMA RoomDeleted ==
  ASSUME TypeOK, NEW r \in Rooms, DeleteRoom(r)
  PROVE  /\ rooms' = rooms \ {r} /\ Placed' = Placed /\ Live' = Live
         /\ entry' \in [EntryIds -> Entry \cup {NoEntry}]
         /\ \A e \in Placed :
              /\ entry'[e].room = IF entry[e].room = r THEN NoRoom ELSE entry[e].room
              /\ entry'[e].class = entry[e].class /\ entry'[e].subject = entry[e].subject
              /\ entry'[e].lead = entry[e].lead /\ entry'[e].staff = entry[e].staff
              /\ entry'[e].byClass = entry[e].byClass /\ entry'[e].day = entry[e].day
              /\ entry'[e].period = entry[e].period /\ entry'[e].double = entry[e].double
         /\ UNCHANGED <<period, lastPeriod, lastEntry, classTeacher, away, history>>
         /\ Passing
<1>1. /\ rooms' = rooms \ {r}
      /\ UNCHANGED <<period, lastPeriod, lastEntry, classTeacher, away, history>>
      /\ Passing
      /\ entry' = [e \in EntryIds |-> IF e \in Placed /\ entry[e].room = r
                                      THEN [entry[e] EXCEPT !.room = NoRoom] ELSE entry[e]]
  BY DEF DeleteRoom
<1>2. ASSUME NEW x \in Entry PROVE [x EXCEPT !.room = NoRoom] \in Entry
  BY DEF Entry
<1>3. ASSUME NEW e \in Placed
      PROVE  /\ entry'[e] \in Entry
             /\ entry'[e].room = IF entry[e].room = r THEN NoRoom ELSE entry[e].room
             /\ entry'[e].class = entry[e].class /\ entry'[e].subject = entry[e].subject
             /\ entry'[e].lead = entry[e].lead /\ entry'[e].staff = entry[e].staff
             /\ entry'[e].byClass = entry[e].byClass /\ entry'[e].day = entry[e].day
             /\ entry'[e].period = entry[e].period /\ entry'[e].double = entry[e].double
  <2>1. PICK x \in Entry : x = entry[e]
    BY RowsTyped
  <2>2. CASE x.room = r
    <3>1. entry'[e] = [x EXCEPT !.room = NoRoom]
      BY <2>1, <2>2, <1>1 DEF Placed
    <3> QED BY <2>1, <2>2, <3>1, <1>2 DEF Entry
  <2>3. CASE x.room # r
    <3>1. entry'[e] = x
      BY <2>1, <2>3, <1>1 DEF Placed
    <3> QED BY <2>1, <2>3, <3>1 DEF Entry
  <2> QED BY <2>2, <2>3
<1>4. \A e \in EntryIds \ Placed : entry'[e] = NoEntry
  BY <1>1 DEF Placed
<1>5. entry' \in [EntryIds -> Entry \cup {NoEntry}]
  <2>1. DOMAIN entry' = EntryIds /\ entry' = [e \in EntryIds |-> entry'[e]]
    BY <1>1
  <2> QED BY <2>1, <1>3, <1>4
<1>6. Placed' = Placed /\ Live' = Live
  BY <1>1, <1>3, <1>4, NoRowIsNone DEF Placed, Live
<1> QED BY <1>1, <1>3, <1>5, <1>6

LEMMA DeleteRoomTyped ==
  ASSUME TypeOK, NEW r \in Rooms, DeleteRoom(r)
  PROVE  TypeOK'
<1>1. /\ UNCHANGED <<period, lastPeriod, lastEntry, classTeacher, away, sound, vetted, forced, twins>>
      /\ Passing /\ rooms' = rooms \ {r} /\ Placed' = Placed /\ Live' = Live
      /\ entry' \in [EntryIds -> Entry \cup {NoEntry}]
  BY RoomDeleted DEF history
<1>2. \A e \in Placed : entry'[e].period \in Live /\ entry'[e].room \in rooms' \cup {NoRoom}
  BY <1>1, RoomDeleted DEF TypeOK
<1> QED BY <1>1, <1>2, PassingTyped DEF TypeOK

LEMMA SetAvailabilityTyped ==
  ASSUME TypeOK, NEW t \in Teachers, NEW a \in Availability, SetAvailability(t, a)
  PROVE  TypeOK'
<1>1. away' = [away EXCEPT ![t] = {b \in away[t] : b.day # a.day \/ b.period # a.period} \cup {a}]
  BY DEF SetAvailability
<1>2. away' \in [Teachers -> SUBSET Availability]
  <2>1. PICK S \in SUBSET Availability :
          S = {b \in away[t] : b.day # a.day \/ b.period # a.period} \cup {a}
    BY DEF TypeOK
  <2>2. away' = [away EXCEPT ![t] = S]
    BY <1>1, <2>1
  <2> QED BY <2>1, <2>2 DEF TypeOK
<1>3. vetted' \subseteq vetted /\ Passing
  BY DEF SetAvailability
<1>4. UNCHANGED <<period, lastPeriod, entry, lastEntry, classTeacher, rooms, sound, forced, twins>>
  BY DEF SetAvailability
<1> QED BY <1>2, <1>3, <1>4, PassingTyped DEF TypeOK, Live, Placed

-----------------------------------------------------------------------------
(* Ids, calls, and who is alone.                                           *)

LEMMA BeginsAlone ==
  ASSUME TypeOK, AloneInv, NEW k \in Calls, NEW todo, Begins(k, todo)
  PROVE  AloneInv'
<1>1. call' = [call EXCEPT ![k] = todo]
  BY DEF Begins
<1>2. \A j \in Calls : j # k => call'[j] = call[j]
  BY <1>1 DEF TypeOK
<1>3. CASE \E j \in Calls : Busy(j)
  BY <1>3 DEF Begins, AloneInv
<1>4. CASE ~\E j \in Calls : Busy(j)
  <2>1. alone' = {k}
    BY <1>4 DEF Begins
  <2> QED BY <2>1, <1>2, <1>4 DEF AloneInv, Busy
<1> QED BY <1>3, <1>4

LEMMA BusyIsAlone ==
  ASSUME AloneInv, NEW k \in Calls, Busy(k)
  PROVE  alone \subseteq {k}
BY DEF AloneInv

LEMMA GoesAlone ==
  ASSUME TypeOK, AloneInv, NEW k \in Calls, Busy(k), NEW todo, Goes(k, todo)
  PROVE  AloneInv'
<1>1. \A j \in Calls : j # k => call'[j] = call[j]
  BY DEF Goes, TypeOK
<1>2. alone' = alone /\ alone \subseteq {k}
  BY BusyIsAlone DEF Goes
<1> QED BY <1>1, <1>2 DEF AloneInv, Busy

LEMMA NoneIsAlone ==
  ASSUME alone' = {}
  PROVE  AloneInv' /\ LoneInv'
BY DEF AloneInv, LoneInv

LEMMA LastsTyped ==
  ASSUME TypeOK
  PROVE  lastPeriod \in Nat /\ lastEntry \in Nat
BY TimetableAssumption DEF TypeOK

(* Ids only grow, so an id that fits goes on fitting. *)
LEMMA IdsFitKept ==
  ASSUME TypeOK, NEW c \in Call, IdFits(c),
         lastPeriod <= lastPeriod', lastPeriod' \in Nat, lastEntry <= lastEntry', lastEntry' \in Nat
  PROVE  IdFits(c)'
<1>1. c.pc = "save period" => c.id \in PeriodIds
  BY DEF Call
<1>2. c.pc = "save entry" => c.id \in EntryIds
  BY DEF Call
<1>3. ASSUME c.pc = "save period" PROVE c.id <= lastPeriod'
  <2>1. c.id \in Nat
    <3>1. c.id \in PeriodIds
      BY <1>1, <1>3
    <3>2. \A i \in PeriodIds : i \in Nat
      BY DEF PeriodIds
    <3> QED BY <3>1, <3>2
  <2>2. c.id <= lastPeriod
    BY <1>3 DEF IdFits
  <2>3. PICK i \in Nat : i = c.id
    BY <2>1
  <2>4. i <= lastPeriod'
    BY <2>2, <2>3, LastsTyped
  <2> QED BY <2>3, <2>4
<1>4. ASSUME c.pc = "save entry" PROVE c.id <= lastEntry'
  <2>1. c.id \in Nat
    <3>1. c.id \in EntryIds
      BY <1>2, <1>4
    <3>2. \A i \in EntryIds : i \in Nat
      BY DEF EntryIds
    <3> QED BY <3>1, <3>2
  <2>2. c.id <= lastEntry
    BY <1>4 DEF IdFits
  <2>3. PICK i \in Nat : i = c.id
    BY <2>1
  <2>4. i <= lastEntry'
    BY <2>2, <2>3, LastsTyped
  <2> QED BY <2>3, <2>4
<1> QED BY <1>3, <1>4 DEF IdFits

LEMMA CallsFitKept ==
  ASSUME TypeOK, CallsFit, NEW k \in Calls, NEW todo, call' = [call EXCEPT ![k] = todo],
         IdFits(todo)', PruneFits(todo),
         lastPeriod <= lastPeriod', lastPeriod' \in Nat, lastEntry <= lastEntry', lastEntry' \in Nat
  PROVE  CallsFit'
<1>1. SUFFICES ASSUME NEW j \in Calls, NEW c \in Call, c = call'[j]
               PROVE  IdFits(c)' /\ PruneFits(c)
  BY DEF CallsFit
<1>2. CASE j = k
  <2>1. c = todo
    BY <1>1, <1>2 DEF TypeOK
  <2> QED BY <2>1
<1>3. CASE j # k
  <2>1. c = call[j]
    BY <1>1, <1>3
  <2>2. IdFits(c) /\ PruneFits(c)
    BY <2>1 DEF CallsFit
  <2> QED BY <2>2, IdsFitKept
<1> QED BY <1>2, <1>3

(* Calls are as they were, or one begins, goes on or ends. *)
LEMMA SameCallsFit ==
  ASSUME TypeOK, CallsFit, call' = call,
         lastPeriod <= lastPeriod', lastPeriod' \in Nat, lastEntry <= lastEntry', lastEntry' \in Nat
  PROVE  CallsFit'
<1>1. SUFFICES ASSUME NEW j \in Calls, NEW c \in Call, c = call[j]
               PROVE  IdFits(c)' /\ PruneFits(c)
  BY DEF CallsFit
<1>2. IdFits(c) /\ PruneFits(c)
  BY <1>1 DEF CallsFit
<1> QED BY <1>2, IdsFitKept

LEMMA IdleFits ==
  IdFits(Idle)' /\ PruneFits(Idle)
BY DEF IdFits, PruneFits, Idle

LEMMA BeginsBase ==
  ASSUME BaseInv, NEW k \in Calls, NEW todo, Fits(todo), Begins(k, todo)
  PROVE  BaseInv'
<1>1. TypeOK' /\ AloneInv'
  BY BeginsTyped, BeginsAlone DEF BaseInv, Fits
<1>2. UNCHANGED <<tables, history>> /\ call' = [call EXCEPT ![k] = todo]
  BY DEF Begins
<1>3. RowIds'
  BY <1>2 DEF BaseInv, RowIds, tables, history, Live, Placed
<1>4. IdFits(todo)'
  BY <1>2 DEF Fits, IdFits, tables
<1>5. TypeOK /\ CallsFit /\ PruneFits(todo)
  BY DEF BaseInv, Fits
<1>6. lastPeriod' = lastPeriod /\ lastEntry' = lastEntry
  BY <1>2 DEF tables
<1>7. lastPeriod <= lastPeriod' /\ lastPeriod' \in Nat /\ lastEntry <= lastEntry' /\ lastEntry' \in Nat
  BY <1>5, <1>6, LastsTyped
<1>8. CallsFit'
  BY <1>2, <1>4, <1>5, <1>7, CallsFitKept
<1> QED BY <1>1, <1>3, <1>8 DEF BaseInv

(* What a step of a call leaves of the invariant if it only ends. *)
LEMMA EndsBase ==
  ASSUME BaseInv, NEW k \in Calls, Busy(k), Ends(k), TypeOK',
         lastPeriod <= lastPeriod', lastEntry <= lastEntry', RowIds'
  PROVE  BaseInv'
<1>1. call' = [call EXCEPT ![k] = Idle]
  BY DEF Ends, Goes
<1>2. AloneInv'
  BY GoesAlone DEF BaseInv, Ends
<1>3. lastPeriod' \in Nat /\ lastEntry' \in Nat
  BY TimetableAssumption DEF TypeOK
<1>4. CallsFit'
  BY <1>1, <1>3, IdleFits, CallsFitKept DEF BaseInv
<1> QED BY <1>2, <1>4 DEF BaseInv

LEMMA PassingBase ==
  ASSUME BaseInv, Passing, TypeOK', lastPeriod <= lastPeriod', lastEntry <= lastEntry', RowIds'
  PROVE  BaseInv'
<1>1. call' = call /\ alone' = {}
  BY DEF Passing
<1>2. lastPeriod' \in Nat /\ lastEntry' \in Nat
  BY TimetableAssumption DEF TypeOK
<1> QED BY <1>1, <1>2, NoneIsAlone, SameCallsFit DEF BaseInv

LEMMA InstalledIds ==
  ASSUME TypeOK, RowIds, NEW rows \in SUBSET Period, Install(rows),
         UNCHANGED <<entry, lastEntry, twins>>
  PROVE  RowIds' /\ lastPeriod <= lastPeriod' /\ lastEntry <= lastEntry'
<1>1. /\ Live' = Live \cup lastPeriod + 1 .. lastPeriod' /\ lastPeriod <= lastPeriod'
      /\ lastPeriod' \in 0 .. MaxPeriods
  BY Installed
<1>2. lastPeriod \in Nat /\ lastPeriod' \in Nat /\ lastEntry \in Nat /\ MaxPeriods \in Nat
  BY <1>1, LastsTyped, TimetableAssumption
<1>3. ASSUME NEW i \in Live' PROVE i <= lastPeriod'
  <2>1. CASE i \in Live
    <3>1. i \in Nat /\ i <= lastPeriod
      BY <2>1 DEF RowIds, Live, PeriodIds
    <3> QED BY <3>1, <1>1, <1>2
  <2>2. CASE i \in lastPeriod + 1 .. lastPeriod'
    BY <2>2, <1>2
  <2> QED BY <2>1, <2>2, <1>1
<1> QED BY <1>1, <1>2, <1>3 DEF RowIds, Placed

LEMMA InsertPeriodsBase ==
  ASSUME BaseInv, NEW k \in Calls, InsertPeriods(k)
  PROVE  BaseInv'
<1>1. PICK rows : rows = call[k].rows
  OBVIOUS
<1>2. /\ rows \in SUBSET Period /\ Install(rows) /\ Ends(k)
      /\ UNCHANGED <<entry, lastEntry, twins>> /\ Busy(k)
  BY <1>1, CallTyped DEF InsertPeriods, BaseInv, Busy
<1> QED BY <1>2, InsertPeriodsTyped, InstalledIds, EndsBase DEF BaseInv

LEMMA InitDefaultPeriodsBase ==
  ASSUME BaseInv, InitDefaultPeriods
  PROVE  BaseInv'
<1>1. DefaultSlots \in SUBSET Period
  BY TimetableAssumption
<1>2. Install(DefaultSlots) /\ Passing /\ UNCHANGED <<entry, lastEntry, twins>>
  BY DEF InitDefaultPeriods, history
<1> QED BY <1>1, <1>2, InitDefaultPeriodsTyped, InstalledIds, PassingBase DEF BaseInv

LEMMA SavePeriodBase ==
  ASSUME BaseInv, NEW k \in Calls, SavePeriod(k)
  PROVE  BaseInv'
<1>1. PICK c \in Call : c = call[k]
  BY CallTyped DEF BaseInv
<1>2. c.pc = "save period" /\ Live' = Live \cup {c.id} /\ Placed' = Placed /\ Ends(k)
  BY <1>1, SavedPeriod DEF BaseInv
<1>3. UNCHANGED <<lastPeriod, lastEntry, twins>>
  BY SavedPeriod DEF BaseInv
<1>4. c.id <= lastPeriod
  BY <1>1, <1>2 DEF BaseInv, CallsFit, IdFits
<1>5. RowIds'
  BY <1>2, <1>3, <1>4 DEF BaseInv, RowIds
<1>6. Busy(k)
  BY <1>1, <1>2 DEF Busy
<1>7. lastPeriod <= lastPeriod' /\ lastEntry <= lastEntry'
  BY <1>3, LastsTyped DEF BaseInv
<1> QED BY <1>2, <1>5, <1>6, <1>7, SavePeriodTyped, EndsBase DEF BaseInv

LEMMA DropPeriodsBase ==
  ASSUME BaseInv, NEW k \in Calls, DropPeriods(k)
  PROVE  BaseInv'
<1>1. PICK S : S = call[k].ids
  OBVIOUS
<1>2. S \in SUBSET PeriodIds /\ Drop(S) /\ Ends(k) /\ Busy(k)
  BY <1>1, CallTyped DEF DropPeriods, BaseInv, Busy
<1>3. Live' \subseteq Live /\ Placed' \subseteq Placed /\ UNCHANGED <<lastPeriod, lastEntry, twins>>
  BY <1>2, Dropped DEF BaseInv
<1>4. RowIds'
  BY <1>3 DEF BaseInv, RowIds
<1>5. lastPeriod <= lastPeriod' /\ lastEntry <= lastEntry'
  BY <1>3, LastsTyped DEF BaseInv
<1> QED BY <1>2, <1>4, <1>5, DropPeriodsTyped, EndsBase DEF BaseInv

LEMMA ReorderPeriodBase ==
  ASSUME BaseInv, NEW k \in Calls, NEW i \in PeriodIds, NEW n \in PeriodIds, ReorderPeriod(k, i, n)
  PROVE  BaseInv'
<1>1. PICK todo : todo = [pc |-> "get periods"]
  OBVIOUS
<1>2. /\ TypeOK' /\ Live' = Live
      /\ call' = [call EXCEPT ![k] = todo] /\ alone' = {}
      /\ UNCHANGED <<lastPeriod, entry, lastEntry, twins>>
  BY <1>1, ReorderPeriodTyped DEF BaseInv, ReorderPeriod, history
<1>3. RowIds'
  BY <1>2 DEF BaseInv, RowIds, Placed
<1>4. IdFits(todo)' /\ PruneFits(todo)
  BY <1>1 DEF IdFits, PruneFits
<1>5. lastPeriod <= lastPeriod' /\ lastEntry <= lastEntry' /\ lastPeriod' \in Nat /\ lastEntry' \in Nat
  BY <1>2, LastsTyped DEF BaseInv
<1>6. CallsFit'
  BY <1>2, <1>4, <1>5, CallsFitKept DEF BaseInv
<1> QED BY <1>2, <1>3, <1>6, NoneIsAlone DEF BaseInv

(* A step of a call that goes on, under no new id. *)
LEMMA GoesBase ==
  ASSUME BaseInv, NEW k \in Calls, Busy(k), NEW todo, Goes(k, todo), TypeOK',
         IdFits(todo)', PruneFits(todo),
         lastPeriod <= lastPeriod', lastEntry <= lastEntry', RowIds'
  PROVE  BaseInv'
<1>1. call' = [call EXCEPT ![k] = todo]
  BY DEF Goes
<1>2. AloneInv'
  BY GoesAlone DEF BaseInv
<1>3. lastPeriod' \in Nat /\ lastEntry' \in Nat
  BY TimetableAssumption DEF TypeOK
<1>4. CallsFit'
  BY <1>1, <1>3, CallsFitKept DEF BaseInv
<1> QED BY <1>2, <1>4 DEF BaseInv

LEMMA GetPeriodsAgainBase ==
  ASSUME BaseInv, NEW k \in Calls, GetPeriodsAgain(k)
  PROVE  BaseInv'
<1>1. /\ UNCHANGED <<tables, history>> /\ Busy(k) /\ TypeOK'
  BY GetPeriodsAgainTyped DEF GetPeriodsAgain, Busy, BaseInv
<1>2. RowIds' /\ lastPeriod <= lastPeriod' /\ lastEntry <= lastEntry'
  BY <1>1, LastsTyped DEF BaseInv, RowIds, tables, history, Live, Placed
<1>3. PICK todo : todo = [pc |-> "prune", ids |-> Duplicates, read |-> period]
  OBVIOUS
<1>4. CASE Goes(k, todo)
  <2>1. IdFits(todo) /\ PruneFits(todo)
    BY <1>3, PruneFitsNow DEF Fits, BaseInv
  <2>2. IdFits(todo)'
    BY <1>1, <2>1 DEF IdFits, tables
  <2> QED BY <1>1, <1>2, <1>4, <2>1, <2>2, GoesBase
<1>5. CASE Ends(k)
  BY <1>1, <1>2, <1>5, EndsBase
<1> QED BY <1>3, <1>4, <1>5 DEF GetPeriodsAgain

(* After a box the same call has another box, a copy or nothing to make. *)
LEMMA BoxGoes ==
  ASSUME TypeOK, RowIds, NEW k \in Calls, InsertBox(k)
  PROVE  \E todo :
           /\ Goes(k, todo)
           /\ \/ todo.pc \in {"idle", "copy"}
              \/ /\ todo.pc = "insert boxes" /\ Len(call[k].boxes) > 1
                 /\ todo.boxes = Tail(call[k].boxes)
                 /\ todo.made = call[k].made \cup {lastEntry'}
                 /\ todo.override = call[k].override
<1>1. PICK boxes, made, override, queue :
         boxes = call[k].boxes /\ made = call[k].made /\ override = call[k].override
         /\ queue = call[k].queue
  OBVIOUS
<1>2. PICK e : e = lastEntry + 1 /\ e = lastEntry'
  BY BoxInserted
<1>3. IF Len(boxes) > 1 THEN Goes(k, [call[k] EXCEPT !.boxes = Tail(boxes), !.made = made \cup {e}])
      ELSE IF queue = {} THEN Ends(k)
      ELSE Goes(k, [pc |-> "copy", queue |-> queue, override |-> override])
  BY <1>1, <1>2 DEF InsertBox
<1>4. CASE Len(boxes) > 1
  <2>1. PICK c \in Call : c = call[k] /\ c.pc = "insert boxes"
    BY CallTyped, BoxInserted
  <2>2. PICK todo : todo = [c EXCEPT !.boxes = Tail(boxes), !.made = made \cup {e}]
    OBVIOUS
  <2>3. /\ todo.pc = "insert boxes" /\ todo.boxes = Tail(boxes) /\ todo.made = made \cup {e}
        /\ todo.override = c.override
    BY <2>1, <2>2 DEF Call
  <2>4. Goes(k, todo)
    BY <1>3, <1>4, <2>1, <2>2
  <2> QED BY <1>1, <1>2, <1>4, <2>1, <2>3, <2>4
<1>5. CASE ~(Len(boxes) > 1) /\ queue = {}
  <2>1. Goes(k, Idle) /\ Idle.pc = "idle"
    BY <1>3, <1>5 DEF Ends, Idle
  <2> QED BY <2>1
<1>6. CASE ~(Len(boxes) > 1) /\ queue # {}
  <2>1. PICK todo : todo = [pc |-> "copy", queue |-> queue, override |-> override]
    OBVIOUS
  <2>2. Goes(k, todo) /\ todo.pc = "copy"
    BY <1>3, <1>6, <2>1
  <2> QED BY <2>2
<1> QED BY <1>4, <1>5, <1>6

(* What is kept besides, if the call is alone. *)
LEMMA BoxPairs ==
  ASSUME TypeOK, RowIds, LoneInv, NEW k \in Calls, InsertBox(k)
  PROVE  \/ twins' = twins
         \/ /\ k \in alone
            /\ \E a \in Placed : /\ twins' = twins \cup {{a, lastEntry'}}
                                 /\ AsTwins(entry[a], Head(call[k].boxes))
<1>1. PICK c \in Call : c = call[k] /\ c.pc = "insert boxes"
  BY CallTyped, BoxInserted
<1>2. PICK e : e = lastEntry + 1 /\ e = lastEntry'
  BY BoxInserted
<1>3. twins' = twins \cup IF c.made # {} /\ k \in alone THEN {c.made \cup {e}} ELSE {}
  BY <1>1, <1>2 DEF InsertBox
<1>4. CASE c.made # {} /\ k \in alone
  <2>1. BoxesReady(c)
    BY <1>1, <1>4 DEF LoneInv, Ready
  <2>2. PICK a \in Placed : c.made = {a} /\ AsTwins(entry[a], c.boxes[1])
    BY <1>4, <2>1 DEF BoxesReady
  <2>3. c.boxes \in Seq(Entry) \ {<<>>}
    BY <1>1, CallTyped
  <2>4. Head(c.boxes) = c.boxes[1]
    BY <2>3
  <2>5. twins' = twins \cup {{a, e}}
    <3>1. c.made \cup {e} = {a, e}
      BY <2>2
    <3> QED BY <1>3, <1>4, <3>1
  <2> QED BY <1>1, <1>2, <1>4, <2>2, <2>4, <2>5
<1>5. CASE ~(c.made # {} /\ k \in alone)
  BY <1>3, <1>5
<1> QED BY <1>4, <1>5

LEMMA InsertBoxBase ==
  ASSUME BaseInv, LoneInv, NEW k \in Calls, InsertBox(k)
  PROVE  BaseInv'
<1>1. PICK e \in EntryIds : e = lastEntry + 1 /\ e = lastEntry'
  BY BoxInserted DEF BaseInv
<1>2. Placed' = Placed \cup {e} /\ Live' = Live
  <2>1. /\ entry'[e] \in Entry /\ \A f \in EntryIds \ {e} : entry'[f] = entry[f]
        /\ UNCHANGED period
    BY <1>1, BoxInserted DEF BaseInv
  <2> QED BY <2>1, NoRowIsNone DEF Placed, Live
<1>3. lastEntry \in Nat /\ lastEntry' \in Nat /\ lastEntry <= lastEntry' /\ lastPeriod <= lastPeriod'
  <2>1. TypeOK /\ lastPeriod' = lastPeriod /\ lastEntry' = lastEntry + 1
    BY <1>1, BoxInserted DEF BaseInv
  <2>2. lastPeriod \in Nat /\ lastEntry \in Nat
    BY <2>1, LastsTyped
  <2> QED BY <2>1, <2>2
<1>4. \A f \in EntryIds : f <= lastEntry => f <= lastEntry'
  BY <1>1, <1>3 DEF EntryIds
<1>5. \A f \in Placed' : f <= lastEntry'
  <2>1. \A f \in Placed : f <= lastEntry'
    BY <1>4 DEF BaseInv, RowIds, Placed
  <2> QED BY <2>1, <1>1, <1>2, <1>3
<1>6. \A pair \in twins' : \A f \in pair : f <= lastEntry'
  <2>1. \A pair \in twins : \A f \in pair : f <= lastEntry'
    BY <1>4 DEF BaseInv, RowIds, TypeOK
  <2>2. \A f \in Placed : f <= lastEntry'
    BY <1>2, <1>5
  <2>3. e <= lastEntry'
    BY <1>1, <1>3
  <2> QED BY <1>1, <2>1, <2>2, <2>3, BoxPairs DEF BaseInv
<1>7. RowIds'
  <2>1. UNCHANGED lastPeriod
    BY BoxInserted DEF BaseInv
  <2> QED BY <2>1, <1>2, <1>5, <1>6 DEF BaseInv, RowIds
<1>8. PICK todo : Goes(k, todo) /\ todo.pc \in {"idle", "copy", "insert boxes"}
  BY BoxGoes DEF BaseInv
<1>9. IdFits(todo)' /\ PruneFits(todo)
  BY <1>8 DEF IdFits, PruneFits
<1>10. Busy(k)
  BY BoxInserted DEF BaseInv, Busy
<1>11. TypeOK'
  BY InsertBoxTyped DEF BaseInv
<1> QED BY <1>3, <1>7, <1>8, <1>9, <1>10, <1>11, GoesBase

LEMMA CopyGoes ==
  ASSUME TypeOK, NEW k \in Calls, CopyNext(k)
  PROVE  \E todo \in Call :
           /\ Goes(k, todo) /\ Ready(todo)
           /\ todo.pc \in {"idle", "copy", "insert boxes"}
<1>1. PICK override, queue : override = call[k].override /\ queue = call[k].queue
  OBVIOUS
<1>2. /\ call[k].pc = "copy" /\ override \in BOOLEAN
      /\ queue \in SUBSET [source : EntryIds, copy : Entry]
  BY <1>1, CallTyped DEF CopyNext
<1>3. PICK c \in Call : c = call[k] /\ c.pc = "copy"
  BY <1>2, CallTyped
<1>4. PICK item \in queue :
        \/ Ends(k)
        \/ \E boxes \in Boxes(item.copy) :
             \/ Accepts(boxes, override) /\ Goes(k, Placing(boxes, override, queue \ {item}))
             \/ Goes(k, [c EXCEPT !.queue = queue \ {item}])
  BY <1>1, <1>3 DEF CopyNext
<1>5. item.copy \in Entry /\ queue \ {item} \in SUBSET [source : EntryIds, copy : Entry]
  BY <1>2
<1>6. CASE Ends(k)
  <2>1. Goes(k, Idle) /\ Idle \in Call /\ Idle.pc = "idle"
    BY <1>6, IdleIsCall DEF Ends, Idle
  <2> QED BY <2>1 DEF Ready
<1>7. ASSUME NEW boxes \in Boxes(item.copy), Accepts(boxes, override),
             Goes(k, Placing(boxes, override, queue \ {item}))
      PROVE  \E todo \in Call : /\ Goes(k, todo) /\ Ready(todo)
                                /\ todo.pc \in {"idle", "copy", "insert boxes"}
  <2>1. PICK todo : todo = Placing(boxes, override, queue \ {item})
    OBVIOUS
  <2>2. todo \in Call /\ todo.pc = "insert boxes"
    BY <1>2, <1>5, <2>1, PlacingTyped DEF Placing
  <2>3. BoxesReady(todo)
    BY <1>2, <1>5, <1>7, <2>1, AcceptedReady
  <2>4. Ready(todo)
    BY <2>2, <2>3 DEF Ready
  <2> QED BY <1>7, <2>1, <2>2, <2>4
<1>8. ASSUME Goes(k, [c EXCEPT !.queue = queue \ {item}])
      PROVE  \E todo \in Call : /\ Goes(k, todo) /\ Ready(todo)
                                /\ todo.pc \in {"idle", "copy", "insert boxes"}
  <2>1. PICK todo : todo = [c EXCEPT !.queue = queue \ {item}]
    OBVIOUS
  <2>2. todo \in Call /\ todo.pc = "copy"
    BY <1>3, <1>5, <2>1 DEF Call
  <2> QED BY <1>8, <2>1, <2>2 DEF Ready
<1> QED BY <1>4, <1>6, <1>7, <1>8

LEMMA CopyNextBase ==
  ASSUME BaseInv, NEW k \in Calls, CopyNext(k)
  PROVE  BaseInv'
<1>1. /\ UNCHANGED <<tables, history>> /\ Busy(k) /\ TypeOK'
  BY CopyNextTyped DEF CopyNext, Busy, BaseInv
<1>2. RowIds' /\ lastPeriod <= lastPeriod' /\ lastEntry <= lastEntry'
  BY <1>1, LastsTyped DEF BaseInv, RowIds, tables, history, Live, Placed
<1>3. PICK todo : Goes(k, todo) /\ todo.pc \in {"idle", "copy", "insert boxes"}
  BY CopyGoes DEF BaseInv
<1>4. IdFits(todo)' /\ PruneFits(todo)
  BY <1>3 DEF IdFits, PruneFits
<1> QED BY <1>1, <1>2, <1>3, <1>4, GoesBase

LEMMA SaveEntryBase ==
  ASSUME BaseInv, NEW k \in Calls, SaveEntry(k)
  PROVE  BaseInv'
<1>1. PICK c \in Call : c = call[k]
  BY CallTyped DEF BaseInv
<1>2. c.pc = "save entry" /\ Placed' = Placed \cup {c.id} /\ twins' \subseteq twins /\ Ends(k)
  BY <1>1, EntrySaved DEF BaseInv
<1>3. UNCHANGED <<period, lastPeriod, lastEntry>>
  BY EntrySaved DEF BaseInv
<1>4. c.id <= lastEntry
  BY <1>1, <1>2 DEF BaseInv, CallsFit, IdFits
<1>5. RowIds'
  BY <1>2, <1>3, <1>4 DEF BaseInv, RowIds, Live
<1>6. Busy(k)
  BY <1>1, <1>2 DEF Busy
<1>7. lastPeriod <= lastPeriod' /\ lastEntry <= lastEntry'
  BY <1>3, LastsTyped DEF BaseInv
<1> QED BY <1>2, <1>5, <1>6, <1>7, SaveEntryTyped, EndsBase DEF BaseInv

LEMMA RemoveBase ==
  ASSUME BaseInv, NEW k \in Calls, Remove(k)
  PROVE  BaseInv'
<1>1. PICK c \in Call : c = call[k]
  BY CallTyped DEF BaseInv
<1>2. PICK e \in EntryIds :
        /\ c.pc = "remove" /\ c.partners \in SUBSET EntryIds
        /\ c.partners = {} => Ends(k)
        /\ c.partners # {} => Goes(k, [c EXCEPT !.partners = c.partners \ {e}])
        /\ Placed' = Placed \ {e}
        /\ UNCHANGED <<period, lastPeriod, lastEntry, twins>>
  BY <1>1, Removed DEF BaseInv
<1>3. RowIds' /\ lastPeriod <= lastPeriod' /\ lastEntry <= lastEntry'
  BY <1>2, LastsTyped DEF BaseInv, RowIds, Live
<1>4. Busy(k) /\ TypeOK'
  BY <1>1, <1>2, RemoveTyped DEF Busy, BaseInv
<1>5. CASE c.partners = {}
  BY <1>2, <1>3, <1>4, <1>5, EndsBase
<1>6. CASE c.partners # {}
  <2>1. PICK todo : todo = [c EXCEPT !.partners = c.partners \ {e}]
    OBVIOUS
  <2>2. todo.pc = "remove"
    BY <1>2, <2>1 DEF Call
  <2>3. IdFits(todo)' /\ PruneFits(todo)
    BY <2>2 DEF IdFits, PruneFits
  <2> QED BY <1>2, <1>3, <1>4, <1>6, <2>1, <2>3, GoesBase
<1> QED BY <1>5, <1>6

LEMMA CutOffBase ==
  ASSUME BaseInv, NEW k \in Calls, CutOff(k)
  PROVE  BaseInv'
<1>1. UNCHANGED <<tables, history>> /\ Ends(k) /\ Busy(k) /\ TypeOK'
  BY CutOffTyped DEF CutOff, BaseInv
<1>2. RowIds' /\ lastPeriod <= lastPeriod' /\ lastEntry <= lastEntry'
  BY <1>1, LastsTyped DEF BaseInv, RowIds, tables, history, Live, Placed
<1> QED BY <1>1, <1>2, EndsBase

LEMMA ChangeClassTeacherBase ==
  ASSUME BaseInv, NEW c \in Classes, NEW t \in Teachers, ChangeClassTeacher(c, t)
  PROVE  BaseInv'
<1>1. /\ UNCHANGED <<period, lastPeriod, entry, lastEntry, twins>> /\ Passing /\ TypeOK'
  BY ChangeClassTeacherTyped DEF ChangeClassTeacher, BaseInv
<1>2. RowIds' /\ lastPeriod <= lastPeriod' /\ lastEntry <= lastEntry'
  BY <1>1, LastsTyped DEF BaseInv, RowIds, Live, Placed
<1> QED BY <1>1, <1>2, PassingBase

LEMMA DeleteRoomBase ==
  ASSUME BaseInv, NEW r \in Rooms, DeleteRoom(r)
  PROVE  BaseInv'
<1>1. /\ UNCHANGED <<lastPeriod, lastEntry, twins>> /\ Live' = Live /\ Placed' = Placed
      /\ Passing /\ TypeOK'
  BY DeleteRoomTyped, RoomDeleted DEF BaseInv, history
<1>2. RowIds' /\ lastPeriod <= lastPeriod' /\ lastEntry <= lastEntry'
  BY <1>1, LastsTyped DEF BaseInv, RowIds
<1> QED BY <1>1, <1>2, PassingBase

LEMMA SetAvailabilityBase ==
  ASSUME BaseInv, NEW t \in Teachers, NEW a \in Availability, SetAvailability(t, a)
  PROVE  BaseInv'
<1>1. /\ UNCHANGED <<period, lastPeriod, entry, lastEntry, twins>> /\ Passing /\ TypeOK'
  BY SetAvailabilityTyped DEF SetAvailability, BaseInv
<1>2. RowIds' /\ lastPeriod <= lastPeriod' /\ lastEntry <= lastEntry'
  BY <1>1, LastsTyped DEF BaseInv, RowIds, Live, Placed
<1> QED BY <1>1, <1>2, PassingBase

(* What goes on around the timetable. *)
LEMMA AroundCases ==
  ASSUME TypeOK, Around
  PROVE  \/ InitDefaultPeriods
         \/ \E c \in Classes, t \in Teachers : ChangeClassTeacher(c, t)
         \/ \E r \in Rooms : DeleteRoom(r)
         \/ \E t \in Teachers, a \in Availability : SetAvailability(t, a)
<1>1. ASSUME NEW slot \in Slots, NEW u \in BOOLEAN,
             NEW s \in {"PENDING", "APPROVED", "REJECTED"}
      PROVE  /\ slot[1] \in Teachers
             /\ [day |-> slot[2], period |-> slot[3], unavailable |-> u, approval |-> s]
                  \in Availability
  <2>1. slot[1] \in Teachers /\ slot[2] \in Days /\ slot[3] \in PeriodIds
    BY TimetableAssumption
  <2> QED BY <2>1 DEF Availability
<1>2. ASSUME NEW slot \in Slots, NEW u \in BOOLEAN,
             SubmitMyAvailability(slot[1], slot[2], slot[3], u)
      PROVE  \E t \in Teachers, a \in Availability : SetAvailability(t, a)
  BY <1>1, <1>2 DEF SubmitMyAvailability
<1>3. ASSUME NEW slot \in Slots, NEW u \in BOOLEAN, NEW s \in {"APPROVED", "REJECTED"},
             AdminSetTeacherAvailability(slot[1], slot[2], slot[3], u, s)
      PROVE  \E t \in Teachers, a \in Availability : SetAvailability(t, a)
  BY <1>1, <1>3 DEF AdminSetTeacherAvailability
<1>4. ASSUME NEW t \in Teachers, NEW a \in away[t], NEW s \in {"APPROVED", "REJECTED"},
             ReviewTeacherAvailability(t, a, s)
      PROVE  \E u \in Teachers, b \in Availability : SetAvailability(u, b)
  <2>1. a \in Availability
    BY DEF TypeOK
  <2>2. [a EXCEPT !.approval = s] \in Availability
    BY <2>1 DEF Availability
  <2> QED BY <1>4, <2>2 DEF ReviewTeacherAvailability
<1> QED BY <1>2, <1>3, <1>4 DEF Around

-----------------------------------------------------------------------------
(* What a call that is alone found keeps.                                  *)

LEMMA TeachersSame ==
  ASSUME UNCHANGED classTeacher, NEW x
  PROVE  TeachersOf(x)' = TeachersOf(x)
BY DEF TeachersOf

LEMMA ClashKept ==
  ASSUME NEW x, NEW y, TeachersOf(x)' = TeachersOf(x), TeachersOf(y)' = TeachersOf(y),
         Overlap(period[x.period], period[y.period])' => Overlap(period[x.period], period[y.period]),
         Clash(x, y)'
  PROVE  Clash(x, y)
BY DEF Clash, Meets

(* A teacher who gets no entry, or one, has no more, or one more. *)
LEMMA LoadKept ==
  ASSUME NEW S \in SUBSET EntryIds, NEW T \in SUBSET EntryIds, NEW t,
         \A e \in T : t \in TeachersOf(entry[e])' =>
           e \in S /\ t \in TeachersOf(entry[e]) /\ entry'[e].day = entry[e].day
  PROVE  /\ WeekLoad(t, T)' \in Nat /\ WeekLoad(t, T)' <= WeekLoad(t, S)
         /\ \A d : Load(t, d, T)' \in Nat /\ Load(t, d, T)' <= Load(t, d, S)
<1>1. IsFiniteSet(EntryIds)
  BY TimetableAssumption, FS_Interval DEF EntryIds
<1>2. WeekLoad(t, T)' \in Nat /\ WeekLoad(t, T)' <= WeekLoad(t, S)
  <2>1. PICK A, B : /\ A = {e \in S : t \in TeachersOf(entry[e])}
                    /\ B = {e \in T : t \in TeachersOf(entry[e])'}
    OBVIOUS
  <2>2. B \subseteq A /\ A \subseteq EntryIds
    BY <2>1
  <2>3. IsFiniteSet(A)
    BY <1>1, <2>2, FS_Subset
  <2>4. Cardinality(B) \in Nat /\ Cardinality(B) <= Cardinality(A)
    BY <2>2, <2>3, FS_Subset, FS_CardinalityType
  <2> QED BY <2>1, <2>4 DEF WeekLoad
<1>3. ASSUME NEW d PROVE Load(t, d, T)' \in Nat /\ Load(t, d, T)' <= Load(t, d, S)
  <2>1. PICK A, B : /\ A = {e \in S : t \in TeachersOf(entry[e]) /\ entry[e].day = d}
                    /\ B = {e \in T : t \in TeachersOf(entry[e])' /\ entry'[e].day = d}
    OBVIOUS
  <2>2. B \subseteq A /\ A \subseteq EntryIds
    BY <2>1
  <2>3. IsFiniteSet(A)
    BY <1>1, <2>2, FS_Subset
  <2>4. Cardinality(B) \in Nat /\ Cardinality(B) <= Cardinality(A)
    BY <2>2, <2>3, FS_Subset, FS_CardinalityType
  <2> QED BY <2>1, <2>4 DEF Load
<1> QED BY <1>2, <1>3

LEMMA OneMore ==
  ASSUME NEW A, NEW B, NEW e, IsFiniteSet(A), B \subseteq A \cup {e}
  PROVE  Cardinality(B) \in Nat /\ Cardinality(A) \in Nat /\ Cardinality(B) <= Cardinality(A) + 1
<1>1. /\ IsFiniteSet(A \cup {e}) /\ Cardinality(A) \in Nat
      /\ Cardinality(A \cup {e}) = IF e \in A THEN Cardinality(A) ELSE Cardinality(A) + 1
  BY FS_AddElement, FS_CardinalityType
<1>2. Cardinality(B) \in Nat /\ Cardinality(B) <= Cardinality(A \cup {e})
  BY <1>1, FS_Subset, FS_CardinalityType
<1> QED BY <1>1, <1>2

LEMMA LoadOneMore ==
  ASSUME NEW S \in SUBSET EntryIds, NEW T \in SUBSET EntryIds, NEW t, NEW f,
         \A e \in T \ {f} : t \in TeachersOf(entry[e])' =>
           e \in S /\ t \in TeachersOf(entry[e]) /\ entry'[e].day = entry[e].day
  PROVE  /\ WeekLoad(t, T)' \in Nat /\ WeekLoad(t, T)' <= WeekLoad(t, S) + 1
         /\ \A d : Load(t, d, T)' \in Nat /\ Load(t, d, T)' <= Load(t, d, S) + 1
<1>1. IsFiniteSet(EntryIds)
  BY TimetableAssumption, FS_Interval DEF EntryIds
<1>2. WeekLoad(t, T)' \in Nat /\ WeekLoad(t, T)' <= WeekLoad(t, S) + 1
  <2>1. PICK A, B : /\ A = {e \in S : t \in TeachersOf(entry[e])}
                    /\ B = {e \in T : t \in TeachersOf(entry[e])'}
    OBVIOUS
  <2>2. B \subseteq A \cup {f} /\ A \subseteq EntryIds
    BY <2>1
  <2>3. IsFiniteSet(A)
    BY <1>1, <2>2, FS_Subset
  <2>4. Cardinality(B) \in Nat /\ Cardinality(B) <= Cardinality(A) + 1
    BY <2>2, <2>3, OneMore
  <2> QED BY <2>1, <2>4 DEF WeekLoad
<1>3. ASSUME NEW d PROVE Load(t, d, T)' \in Nat /\ Load(t, d, T)' <= Load(t, d, S) + 1
  <2>1. PICK A, B : /\ A = {e \in S : t \in TeachersOf(entry[e]) /\ entry[e].day = d}
                    /\ B = {e \in T : t \in TeachersOf(entry[e])' /\ entry'[e].day = d}
    OBVIOUS
  <2>2. B \subseteq A \cup {f} /\ A \subseteq EntryIds
    BY <2>1
  <2>3. IsFiniteSet(A)
    BY <1>1, <2>2, FS_Subset
  <2>4. Cardinality(B) \in Nat /\ Cardinality(B) <= Cardinality(A) + 1
    BY <2>2, <2>3, OneMore
  <2> QED BY <2>1, <2>4 DEF Load
<1> QED BY <1>2, <1>3

LEMMA NoClashKept ==
  ASSUME UNCHANGED <<period, classTeacher>>, NEW S, NEW T, NEW x,
         \A e \in T : e \in S /\ entry'[e] = entry[e], NoClash(x, S)
  PROVE  NoClash(x, T)'
<1>1. SUFFICES ASSUME x.period \in Live', NEW e \in T, NEW y \in Entry, y = entry'[e], Clash(x, y)'
               PROVE  FALSE
  BY DEF NoClash
<1>2. Clash(x, y)
  BY <1>1, TeachersSame, ClashKept
<1>3. x.period \in Live /\ e \in S /\ y = entry[e]
  BY <1>1 DEF Live
<1> QED BY <1>2, <1>3 DEF NoClash

LEMMA FitsSame ==
  ASSUME UNCHANGED <<entry, classTeacher, away>>, NEW S \in SUBSET EntryIds, NEW x,
         NEW n \in Nat, FitsLimits(x, n, S)
  PROVE  FitsLimits(x, n, S)'
<1>1. SUFFICES ASSUME NEW t \in TeachersOf(x)
               PROVE  /\ Load(t, x.day, S)' + n <= MaxPerDay
                      /\ WeekLoad(t, S)' + n <= MaxPerWeek
                      /\ ~IsAway(t, x.day, x.period)'
  BY TeachersSame DEF FitsLimits
<1>2. \A e : TeachersOf(entry[e])' = TeachersOf(entry[e]) /\ entry'[e].day = entry[e].day
  BY DEF TeachersOf
<1>3. PICK d : d = x.day
  OBVIOUS
<1>4. PICK a \in Nat, b \in Nat, v \in Nat, w \in Nat :
        /\ a = Load(t, d, S) /\ b = WeekLoad(t, S)
        /\ v = Load(t, d, S)' /\ w = WeekLoad(t, S)' /\ v <= a /\ w <= b
  BY <1>2, LoadKept, LoadTyped
<1>5. a + n <= MaxPerDay /\ b + n <= MaxPerWeek
  BY <1>1, <1>3, <1>4 DEF FitsLimits
<1>6. v + n <= MaxPerDay /\ w + n <= MaxPerWeek
  BY <1>4, <1>5, TimetableAssumption
<1>7. ~IsAway(t, x.day, x.period)'
  BY <1>1 DEF FitsLimits, IsAway
<1> QED BY <1>3, <1>4, <1>6, <1>7

(* Nothing a call depends on has changed. *)
LEMMA ReadySame ==
  ASSUME TypeOK, UNCHANGED <<period, entry, classTeacher, away, twins>>, NEW c \in Call, Ready(c)
  PROVE  Ready(c)'
<1>1. Placed' = Placed /\ Live' = Live /\ Placed \in SUBSET EntryIds
  BY DEF Placed, Live
<1>2. ASSUME c.pc = "insert periods" PROVE RowsReady(c.rows)'
  BY <1>1, <1>2 DEF Ready, RowsReady
<1>3. ASSUME c.pc = "save period" PROVE RowReady(c.id, c.row)'
  BY <1>1, <1>3 DEF Ready, RowReady
<1>4. ASSUME c.pc = "insert boxes" PROVE BoxesReady(c)'
  <2>1. BoxesReady(c)
    BY <1>4 DEF Ready
  <2>2. PICK boxes, made, override : boxes = c.boxes /\ made = c.made /\ override = c.override
    OBVIOUS
  <2>3. ASSUME NEW n \in 1 .. Len(boxes)
        PROVE  /\ NoClash(boxes[n], Placed \ made)'
               /\ override \/ FitsLimits(boxes[n], Len(boxes), Placed)'
    <3>1. PICK x, S : x = boxes[n] /\ S = Placed
      OBVIOUS
    <3>2. NoClash(x, S \ made) /\ (override \/ FitsLimits(x, Len(boxes), S))
      BY <2>1, <2>2, <3>1 DEF BoxesReady
    <3>3. NoClash(x, S \ made)'
      BY <3>2, NoClashKept
    <3>4. Len(boxes) \in Nat
      BY <2>1, <2>2 DEF BoxesReady
    <3>5. override \/ FitsLimits(x, Len(boxes), S)'
      BY <1>1, <3>1, <3>2, <3>4, FitsSame
    <3> QED BY <1>1, <3>1, <3>3, <3>5 DEF NoClash, FitsLimits, Load, WeekLoad
  <2>4. made # {} => \E a \in Placed' : made = {a} /\ AsTwins(entry'[a], boxes[1])
    BY <1>1, <2>1, <2>2 DEF BoxesReady
  <2>5. Len(boxes) \in {1, 2} /\ (Len(boxes) = 2 => made = {} /\ AsTwins(boxes[1], boxes[2]))
    BY <2>1, <2>2 DEF BoxesReady
  <2> QED BY <2>2, <2>3, <2>4, <2>5 DEF BoxesReady
<1>5. ASSUME c.pc = "save entry" PROVE EntryReady(c)'
  <2>1. EntryReady(c)
    BY <1>5 DEF Ready
  <2>2. PICK x, S, override : x = c.box /\ S = Placed \ {c.id} /\ override = c.override
    OBVIOUS
  <2>3. NoClash(x, S) /\ (override \/ FitsLimits(x, 1, S))
    BY <2>1, <2>2 DEF EntryReady
  <2>4. NoClash(x, S)'
    BY <2>3, NoClashKept
  <2>5. override \/ FitsLimits(x, 1, S)'
    BY <1>1, <2>2, <2>3, FitsSame
  <2> QED BY <1>1, <2>2, <2>4, <2>5 DEF EntryReady, NoClash, FitsLimits, Load, WeekLoad
<1>6. ASSUME c.pc = "remove" PROVE RemoveReady(c)'
  BY <1>1, <1>6 DEF Ready, RemoveReady, NextTo, OrderOf
<1> QED BY <1>2, <1>3, <1>4, <1>5, <1>6 DEF Ready

LEMMA BeginsLone ==
  ASSUME BaseInv, LoneInv, NEW k \in Calls, NEW todo, Fits(todo), Begins(k, todo)
  PROVE  LoneInv'
<1>1. UNCHANGED <<period, entry, classTeacher, away, twins>> /\ call' = [call EXCEPT ![k] = todo]
  BY DEF Begins, tables, history
<1>2. alone' \subseteq {k}
  BY DEF Begins
<1>3. call'[k] = todo
  BY <1>1 DEF BaseInv, TypeOK
<1>4. todo \in Call /\ Ready(todo) /\ TypeOK
  BY DEF BaseInv, Fits
<1>5. Ready(todo)'
  BY <1>1, <1>4, ReadySame
<1> QED BY <1>2, <1>3, <1>5 DEF LoneInv

(* A step of a call: it is the only one that may be alone. *)
LEMMA GoesLone ==
  ASSUME BaseInv, NEW k \in Calls, Busy(k), NEW todo, Goes(k, todo), k \in alone => Ready(todo)'
  PROVE  LoneInv'
<1>1. alone' \subseteq {k} /\ alone' = alone
  BY BusyIsAlone DEF BaseInv, Goes
<1>2. call'[k] = todo
  BY DEF BaseInv, TypeOK, Goes
<1> QED BY <1>1, <1>2 DEF LoneInv

LEMMA DoneLone ==
  ASSUME BaseInv, NEW k \in Calls, Busy(k), NEW todo, Goes(k, todo),
         todo.pc \in {"idle", "copy", "prune", "get periods"}
  PROVE  LoneInv'
<1>1. Ready(todo)'
  BY DEF Ready
<1> QED BY <1>1, GoesLone

LEMMA EndsLone ==
  ASSUME BaseInv, NEW k \in Calls, Busy(k), Ends(k)
  PROVE  LoneInv'
<1>1. Goes(k, Idle) /\ Idle.pc = "idle"
  BY DEF Ends, Idle
<1> QED BY <1>1, DoneLone

LEMMA CopyNextLone ==
  ASSUME BaseInv, NEW k \in Calls, CopyNext(k)
  PROVE  LoneInv'
<1>1. /\ UNCHANGED <<period, entry, classTeacher, away, twins>> /\ Busy(k) /\ TypeOK
  BY DEF CopyNext, tables, history, Busy, BaseInv
<1>2. PICK todo \in Call : Goes(k, todo) /\ Ready(todo)
  BY <1>1, CopyGoes
<1>3. Ready(todo)'
  BY <1>1, <1>2, ReadySame
<1> QED BY <1>1, <1>2, <1>3, GoesLone

LEMMA TailOfTwo ==
  ASSUME NEW S, NEW s \in Seq(S), Len(s) = 2
  PROVE  /\ s[1] \in S /\ s[2] \in S /\ Head(s) = s[1]
         /\ Len(Tail(s)) = 1 /\ Tail(s)[1] = s[2]
<1>1. s[1] \in S /\ s[2] \in S
  <2>1. \A i \in 1 .. Len(s) : s[i] \in S
    OBVIOUS
  <2>2. 1 \in 1 .. 2 /\ 2 \in 1 .. 2
    OBVIOUS
  <2> QED BY <2>1, <2>2
<1>2. Head(s) = s[1]
  OBVIOUS
<1>3. s # <<>>
  OBVIOUS
<1>4. Len(Tail(s)) = 1
  BY <1>3
<1>5. \A i \in 1 .. Len(Tail(s)) : Tail(s)[i] = s[i + 1]
  BY <1>3
<1>6. Tail(s)[1] = s[1 + 1]
  BY <1>4, <1>5
<1> QED BY <1>1, <1>2, <1>4, <1>6

(* The second box of a double period may go in once the first has. *)
LEMMA SecondBoxReady ==
  ASSUME BaseInv, NEW k \in Calls, InsertBox(k), NEW c \in Call, c = call[k], BoxesReady(c),
         Len(c.boxes) > 1, NEW todo, todo.boxes = Tail(c.boxes),
         todo.made = c.made \cup {lastEntry'}, todo.override = c.override
  PROVE  BoxesReady(todo)'
<1>1. PICK e \in EntryIds : e = lastEntry'
  BY BoxInserted DEF BaseInv
<1>2. PICK boxes \in Seq(Entry) \ {<<>>} : boxes = c.boxes
  BY CallTyped, BoxInserted DEF BaseInv
<1>3. /\ Len(boxes) = 2 /\ c.made = {} /\ AsTwins(boxes[1], boxes[2])
      /\ \A n \in 1 .. 2 : /\ NoClash(boxes[n], Placed \ {})
                           /\ c.override \/ FitsLimits(boxes[n], 2, Placed)
  <2>1. Len(boxes) \in {1, 2} /\ Len(boxes) > 1
    BY <1>2 DEF BoxesReady
  <2>3. \A n \in {1, 2} : n > 1 => n = 2
    OBVIOUS
  <2>2. Len(boxes) = 2
    BY <2>1, <2>3
  <2> QED BY <1>2, <2>2 DEF BoxesReady
<1>4. PICK x \in Entry, y \in Entry : x = boxes[1] /\ y = boxes[2]
  BY <1>3, TailOfTwo
<1>5. Len(Tail(boxes)) = 1 /\ Tail(boxes)[1] = y /\ Head(boxes) = x
  BY <1>3, <1>4, TailOfTwo
<1>6. todo.made = {e} /\ Len(todo.boxes) = 1 /\ todo.boxes[1] = y
  BY <1>1, <1>2, <1>3, <1>5
<1>7. /\ e \notin Placed /\ entry'[e] = x /\ \A f \in EntryIds \ {e} : entry'[f] = entry[f]
      /\ UNCHANGED <<period, classTeacher, away>>
  BY <1>1, <1>2, <1>5, BoxInserted DEF BaseInv
<1>8. PICK S \in SUBSET EntryIds : S = Placed
  BY DEF Placed
<1>9. Placed' = S \cup {e}
  BY <1>7, <1>8, NoRowIsNone DEF Placed
<1>10. NoClash(y, Placed \ {e})'
  <2>1. NoClash(y, S)
    <3>1. NoClash(y, Placed \ {}) /\ Placed \ {} = S
      BY <1>3, <1>4, <1>8
    <3> QED BY <3>1
  <2>2. \A f \in S : f \in S /\ entry'[f] = entry[f]
    BY <1>7, <1>8
  <2>3. NoClash(y, S)'
    BY <1>7, <2>1, <2>2, NoClashKept
  <2>4. Placed' \ {e} = S
    BY <1>7, <1>8, <1>9
  <2> QED BY <2>3, <2>4 DEF NoClash
<1>11. ASSUME ~c.override PROVE FitsLimits(y, 1, Placed)'
  <2>1. FitsLimits(y, 2, S)
    BY <1>3, <1>4, <1>8, <1>11
  <2>2. ASSUME NEW t \in TeachersOf(y)
        PROVE  /\ Load(t, y.day, S \cup {e})' + 1 <= MaxPerDay
               /\ WeekLoad(t, S \cup {e})' + 1 <= MaxPerWeek
               /\ ~IsAway(t, y.day, y.period)'
    <3>1. PICK T, d : T = S \cup {e} /\ d = y.day
      OBVIOUS
    <3>2. \A f \in T \ {e} : /\ f \in S /\ entry'[f].day = entry[f].day
                             /\ TeachersOf(entry[f])' = TeachersOf(entry[f])
      BY <1>7, <3>1 DEF TeachersOf
    <3>7. T \in SUBSET EntryIds
      BY <3>1
    <3>3. PICK a \in Nat, b \in Nat, v \in Nat, w \in Nat :
            /\ a = Load(t, d, S) /\ b = WeekLoad(t, S)
            /\ v = Load(t, d, T)' /\ w = WeekLoad(t, T)' /\ v <= a + 1 /\ w <= b + 1
      BY <3>2, <3>7, LoadOneMore, LoadTyped
    <3>4. a + 2 <= MaxPerDay /\ b + 2 <= MaxPerWeek
      BY <2>1, <3>1, <3>3 DEF FitsLimits
    <3>8. \A p, q, m \in Nat : p <= q + 1 /\ q + 2 <= m => p + 1 <= m
      OBVIOUS
    <3>5. v + 1 <= MaxPerDay /\ w + 1 <= MaxPerWeek
      BY <3>3, <3>4, <3>8, TimetableAssumption
    <3>6. ~IsAway(t, y.day, y.period)'
      BY <2>1, <1>7 DEF FitsLimits, IsAway
    <3> QED BY <3>1, <3>3, <3>5, <3>6
  <2>3. TeachersOf(y)' = TeachersOf(y)
    BY <1>7, TeachersSame
  <2> QED BY <1>9, <2>2, <2>3 DEF FitsLimits, Load, WeekLoad
<1>12. \E a \in Placed' : {e} = {a} /\ AsTwins(entry'[a], y)
  BY <1>3, <1>4, <1>7, <1>9
<1>13. ASSUME NEW n \in 1 .. Len(todo.boxes)
       PROVE  /\ NoClash(todo.boxes[n], Placed \ todo.made)'
              /\ todo.override \/ FitsLimits(todo.boxes[n], Len(todo.boxes), Placed)'
  <2>5. Len(todo.boxes) = 1
    BY <1>6
  <2>6. n \in 1 .. 1
    BY <2>5
  <2>1. n = 1
    BY <2>6
  <2>2. todo.boxes[n] = y /\ todo.made = {e} /\ Len(todo.boxes) = 1
    BY <2>1, <1>6
  <2>3. NoClash(todo.boxes[n], Placed \ todo.made)'
    BY <2>2, <1>10
  <2>4. todo.override \/ FitsLimits(todo.boxes[n], Len(todo.boxes), Placed)'
    BY <2>2, <1>11
  <2> QED BY <2>3, <2>4
<1>14. Len(todo.boxes) \in {1, 2} /\ Len(todo.boxes) # 2
  <2>1. Len(todo.boxes) = 1
    BY <1>6
  <2>2. \A n : n = 1 => n \in {1, 2} /\ n # 2
    OBVIOUS
  <2> QED BY <2>1, <2>2, Zenon
<1>15. \E a \in Placed' : todo.made = {a} /\ AsTwins(entry'[a], todo.boxes[1])
  BY <1>6, <1>12, Zenon
<1> QED BY <1>13, <1>14, <1>15 DEF BoxesReady

LEMMA InsertBoxLone ==
  ASSUME BaseInv, LoneInv, NEW k \in Calls, InsertBox(k)
  PROVE  LoneInv'
<1>1. PICK c \in Call : c = call[k] /\ c.pc = "insert boxes"
  BY CallTyped, BoxInserted DEF BaseInv
<1>2. Busy(k)
  BY <1>1 DEF Busy
<1>3. PICK todo :
        /\ Goes(k, todo)
        /\ \/ todo.pc \in {"idle", "copy"}
           \/ /\ todo.pc = "insert boxes" /\ Len(c.boxes) > 1
              /\ todo.boxes = Tail(c.boxes) /\ todo.made = c.made \cup {lastEntry'}
              /\ todo.override = c.override
  BY <1>1, BoxGoes DEF BaseInv
<1>4. CASE todo.pc \in {"idle", "copy"}
  BY <1>2, <1>3, <1>4, DoneLone
<1>5. CASE todo.pc = "insert boxes" /\ todo.pc \notin {"idle", "copy"}
  <2>1. ASSUME k \in alone PROVE Ready(todo)'
    <3>1. BoxesReady(c)
      BY <1>1, <2>1 DEF LoneInv, Ready
    <3>2. BoxesReady(todo)'
      BY <1>1, <1>3, <1>5, <3>1, SecondBoxReady
    <3> QED BY <1>5, <3>2 DEF Ready
  <2> QED BY <1>2, <1>3, <2>1, GoesLone
<1> QED BY <1>3, <1>4, <1>5

(* Of the partners those that are left are still to be removed. *)
LEMMA RemoveLone ==
  ASSUME BaseInv, LoneInv, NEW k \in Calls, Remove(k)
  PROVE  LoneInv'
<1>1. PICK c \in Call : c = call[k]
  BY CallTyped DEF BaseInv
<1>2. PICK e \in EntryIds :
        /\ c.pc = "remove" /\ c.partners \in SUBSET EntryIds
        /\ c.partners = {} => Ends(k)
        /\ c.partners # {} => /\ e \in c.partners
                              /\ Goes(k, [c EXCEPT !.partners = c.partners \ {e}])
        /\ \A f \in EntryIds \ {e} : entry'[f] = entry[f]
        /\ Placed' = Placed \ {e}
        /\ UNCHANGED <<period, twins>>
  BY <1>1, Removed DEF BaseInv
<1>3. Busy(k)
  BY <1>1, <1>2 DEF Busy
<1>4. CASE c.partners = {}
  BY <1>2, <1>3, <1>4, EndsLone
<1>5. CASE c.partners # {}
  <2>1. PICK todo : todo = [c EXCEPT !.partners = c.partners \ {e}]
    OBVIOUS
  <2>2. todo.pc = "remove" /\ todo.id = c.id /\ todo.partners = c.partners \ {e}
    BY <1>2, <2>1 DEF Call
  <2>3. ASSUME k \in alone PROVE Ready(todo)'
    <3>1. RemoveReady(c)
      BY <1>1, <1>2, <2>3 DEF LoneInv, Ready
    <3>2. PICK id : id = c.id
      OBVIOUS
    <3>3. id \notin todo.partners
      BY <2>2, <3>1, <3>2 DEF RemoveReady
    <3>4. ASSUME NEW f \in Placed' \ {id}, id \in Placed', {id, f} \in twins', NextTo(id, f)'
          PROVE  f \in todo.partners
      <4>1. f \in Placed \ {id} /\ id \in Placed /\ {id, f} \in twins /\ f # e /\ id # e
        BY <1>2, <3>4
      <4>2. NextTo(id, f)
        BY <1>2, <3>4, <4>1 DEF NextTo, OrderOf, Placed
      <4>3. f \in c.partners
        BY <3>1, <3>2, <4>1, <4>2 DEF RemoveReady
      <4> QED BY <2>2, <4>1, <4>3
    <3>5. RemoveReady(todo)'
      BY <2>2, <3>2, <3>3, <3>4 DEF RemoveReady
    <3> QED BY <2>2, <3>5 DEF Ready
  <2> QED BY <1>2, <1>3, <1>5, <2>1, <2>3, GoesLone
<1> QED BY <1>4, <1>5

LEMMA OtherStepsLone ==
  ASSUME BaseInv, NEW k \in Calls,
         InsertPeriods(k) \/ SavePeriod(k) \/ DropPeriods(k) \/ GetPeriodsAgain(k)
           \/ SaveEntry(k) \/ CutOff(k)
  PROVE  LoneInv'
<1>1. Busy(k)
  BY DEF InsertPeriods, SavePeriod, DropPeriods, GetPeriodsAgain, SaveEntry, CutOff, Busy
<1>2. ASSUME GetPeriodsAgain(k) PROVE LoneInv'
  <2>1. PICK todo : todo = [pc |-> "prune", ids |-> Duplicates, read |-> period]
    OBVIOUS
  <2>2. todo.pc = "prune"
    BY <2>1
  <2>3. Ends(k) \/ Goes(k, todo)
    BY <1>2, <2>1 DEF GetPeriodsAgain
  <2> QED BY <1>1, <2>2, <2>3, EndsLone, DoneLone
<1>3. ASSUME ~GetPeriodsAgain(k) PROVE Ends(k)
  BY <1>3 DEF InsertPeriods, SavePeriod, DropPeriods, SaveEntry, CutOff
<1> QED BY <1>1, <1>2, <1>3, EndsLone

-----------------------------------------------------------------------------
(* What was checked stays so when rows go or lose what no rule is about.   *)

LEMMA SoundKept ==
  ASSUME SoundPeriodsDisjoint, sound' \subseteq sound,
         \A i \in sound' : /\ period'[i].active = period[i].active
                           /\ period'[i].start = period[i].start /\ period'[i].end = period[i].end
                           /\ period'[i].day = period[i].day
                           /\ period'[i].classes = period[i].classes
  PROVE  SoundPeriodsDisjoint'
<1>1. SUFFICES ASSUME NEW i \in sound', NEW j \in sound', i # j,
                      period'[i].active, period'[j].active
               PROVE  Apart(period'[i], period'[j])
  BY DEF SoundPeriodsDisjoint
<1>2. Apart(period[i], period[j])
  BY <1>1 DEF SoundPeriodsDisjoint
<1> QED BY <1>1, <1>2 DEF Apart, OnOneDay, ForOneClass, Overlap

LEMMA VettedKept ==
  ASSUME TypeOK, VettedApart, vetted' \subseteq vetted, twins \subseteq twins',
         \A e \in vetted' :
           /\ TeachersOf(entry[e])' = TeachersOf(entry[e])
           /\ entry'[e].class = entry[e].class /\ entry'[e].day = entry[e].day
           /\ entry'[e].period = entry[e].period
           /\ entry'[e].room = entry[e].room \/ entry'[e].room = NoRoom
           /\ period'[entry[e].period].start = period[entry[e].period].start
           /\ period'[entry[e].period].end = period[entry[e].period].end
  PROVE  VettedApart'
<1>1. SUFFICES ASSUME NEW e \in vetted', NEW f \in vetted', NEW x \in Entry, NEW y \in Entry,
                      e # f, {e, f} \notin twins', x = entry'[e], y = entry'[f], Clash(x, y)'
               PROVE  FALSE
  BY DEF VettedApart
<1>2. PICK v \in Entry, w \in Entry : v = entry[e] /\ w = entry[f]
  BY RowsTyped DEF TypeOK
<1>3. ~Clash(v, w)
  BY <1>1, <1>2 DEF VettedApart
<1>4. /\ TeachersOf(x)' = TeachersOf(v) /\ TeachersOf(y)' = TeachersOf(w)
      /\ x.class = v.class /\ y.class = w.class /\ x.day = v.day /\ y.day = w.day
      /\ x.period = v.period /\ y.period = w.period
      /\ x.room = v.room \/ x.room = NoRoom
      /\ y.room = w.room \/ y.room = NoRoom
  BY <1>1, <1>2 DEF TeachersOf
<1>5. Overlap(period[x.period], period[y.period])' => Overlap(period[v.period], period[w.period])
  BY <1>1, <1>2, <1>4 DEF Overlap
<1>6. Meets(x, y)' => Meets(v, w)
  BY <1>4, <1>5 DEF Meets
<1> QED BY <1>1, <1>3, <1>4, <1>6 DEF Clash

LEMMA TwinsKept ==
  ASSUME TwinsInv, Placed' \subseteq Placed, twins' \subseteq twins,
         \A e \in Placed' :
           /\ entry'[e].double = entry[e].double /\ entry'[e].class = entry[e].class
           /\ entry'[e].subject = entry[e].subject /\ entry'[e].day = entry[e].day
           /\ entry'[e].lead = entry[e].lead
  PROVE  TwinsInv'
BY DEF TwinsInv, AsTwins

LEMMA DayLoadKept ==
  ASSUME NEW S \in SUBSET EntryIds, NEW T \in SUBSET EntryIds, NEW t, NEW d,
         \A e \in T : t \in TeachersOf(entry[e])' /\ entry'[e].day = d =>
           e \in S /\ t \in TeachersOf(entry[e]) /\ entry[e].day = d
  PROVE  Load(t, d, T)' \in Nat /\ Load(t, d, T)' <= Load(t, d, S)
<1>1. IsFiniteSet(EntryIds)
  BY TimetableAssumption, FS_Interval DEF EntryIds
<1>2. PICK A, B : /\ A = {e \in S : t \in TeachersOf(entry[e]) /\ entry[e].day = d}
                  /\ B = {e \in T : t \in TeachersOf(entry[e])' /\ entry'[e].day = d}
  OBVIOUS
<1>3. B \subseteq A /\ A \subseteq EntryIds
  BY <1>2
<1>4. IsFiniteSet(A)
  BY <1>1, <1>3, FS_Subset
<1>5. Cardinality(B) \in Nat /\ Cardinality(B) <= Cardinality(A)
  BY <1>3, <1>4, FS_Subset, FS_CardinalityType
<1> QED BY <1>2, <1>5 DEF Load

(* A load that is no greater than one within the rules is within them too. *)
LEMMA NoGreater ==
  \A v, a, m \in Nat : v <= a /\ a <= m => v <= m
OBVIOUS

LEMMA LoadsKept ==
  ASSUME TypeOK, LoadInv, Checked' \subseteq Checked,
         \A e \in Checked' : /\ TeachersOf(entry[e])' = TeachersOf(entry[e])
                             /\ entry'[e].day = entry[e].day
  PROVE  LoadInv'
<1>1. PICK S, T : S = Checked /\ T = Checked'
  OBVIOUS
<1>2. S \in SUBSET EntryIds /\ T \in SUBSET EntryIds
  BY <1>1 DEF TypeOK, Checked, Placed
<1>3. ASSUME NEW t \in Teachers
      PROVE  WeekLoad(t, T)' <= MaxPerWeek /\ \A d \in Days : Load(t, d, T)' <= MaxPerDay
  <2>1. \A e \in T : t \in TeachersOf(entry[e])' =>
          e \in S /\ t \in TeachersOf(entry[e]) /\ entry'[e].day = entry[e].day
    BY <1>1
  <2>2. /\ WeekLoad(t, T)' \in Nat /\ WeekLoad(t, T)' <= WeekLoad(t, S)
        /\ \A d : Load(t, d, T)' \in Nat /\ Load(t, d, T)' <= Load(t, d, S)
    BY <1>2, <2>1, LoadKept
  <2>3. WeekLoad(t, S) \in Nat /\ \A d : Load(t, d, S) \in Nat
    BY <1>2, LoadTyped
  <2>4. WeekLoad(t, S) <= MaxPerWeek /\ \A d \in Days : Load(t, d, S) <= MaxPerDay
    BY <1>1 DEF LoadInv
  <2> QED BY <2>2, <2>3, <2>4, NoGreater, TimetableAssumption
<1> QED BY <1>1, <1>3 DEF LoadInv, Load, WeekLoad

LEMMA PresentKept ==
  ASSUME TypeOK, PresentInv, Checked' \subseteq Checked,
         \A e \in Checked' : /\ TeachersOf(entry[e])' = TeachersOf(entry[e])
                             /\ entry'[e].day = entry[e].day
                             /\ entry'[e].period = entry[e].period,
         \A t \in Teachers : away'[t] \subseteq away[t]
  PROVE  PresentInv'
<1>1. SUFFICES ASSUME NEW e \in Checked', NEW x \in Entry, x = entry'[e],
                      NEW t \in TeachersOf(x)', IsAway(t, x.day, x.period)'
               PROVE  FALSE
  BY DEF PresentInv
<1>2. PICK v \in Entry : v = entry[e]
  BY RowsTyped DEF TypeOK, Checked
<1>3. TeachersOf(x)' = TeachersOf(v) /\ x.day = v.day /\ x.period = v.period
  BY <1>1, <1>2 DEF TeachersOf
<1>4. ~IsAway(t, v.day, v.period)
  BY <1>1, <1>2, <1>3 DEF PresentInv
<1>5. t \in Teachers
  <2>1. v.staff \subseteq Teachers /\ v.lead \in Teachers \cup {NoOne} /\ v.class \in Classes
    BY DEF Entry
  <2> QED BY <1>3, <2>1 DEF TeachersOf, TypeOK
<1> QED BY <1>1, <1>3, <1>4, <1>5 DEF IsAway

(* All of it, when no entry changes and no row of a vetted one does. *)
LEMMA RowsGo ==
  ASSUME TypeOK, CheckedInv, vetted' \subseteq vetted, Placed' \subseteq Placed,
         \A e \in Placed' : entry'[e] = entry[e],
         \A e \in vetted' : /\ e \in Placed'
                            /\ period'[entry[e].period].start = period[entry[e].period].start
                            /\ period'[entry[e].period].end = period[entry[e].period].end,
         \A t \in Teachers : away'[t] \subseteq away[t],
         UNCHANGED <<classTeacher, forced, twins>>
  PROVE  VettedApart' /\ TwinsInv' /\ LoadInv' /\ PresentInv'
<1>1. \A e \in vetted' : TeachersOf(entry[e])' = TeachersOf(entry[e]) /\ entry'[e] = entry[e]
  BY DEF TeachersOf
<1>2. VettedApart'
  BY <1>1, VettedKept DEF CheckedInv
<1>3. TwinsInv'
  BY TwinsKept DEF CheckedInv
<1>4. Checked' \subseteq Checked /\ Checked' \subseteq vetted'
  BY DEF Checked
<1>5. LoadInv'
  BY <1>1, <1>4, LoadsKept DEF CheckedInv
<1>6. PresentInv'
  BY <1>1, <1>4, PresentKept DEF CheckedInv
<1> QED BY <1>2, <1>3, <1>5, <1>6

LEMMA SameChecked ==
  ASSUME TypeOK, CheckedInv, UNCHANGED <<tables, history>>
  PROVE  CheckedInv'
<1>1. UNCHANGED <<period, entry, classTeacher, away, sound, vetted, forced, twins>>
  BY DEF tables, history
<1>2. Placed' = Placed /\ vetted \subseteq Placed
  BY <1>1 DEF Placed, TypeOK
<1>3. SoundPeriodsDisjoint'
  BY <1>1, SoundKept DEF CheckedInv
<1> QED BY <1>1, <1>2, <1>3, RowsGo DEF CheckedInv

-----------------------------------------------------------------------------
(* The steps keep what was checked.                                        *)

LEMMA ApartIsSymmetric ==
  ASSUME NEW p, NEW q, Apart(p, q)
  PROVE  Apart(q, p)
BY DEF Apart, OnOneDay, ForOneClass, Overlap

(* The rows that are there stay as they are when others are inserted. *)
LEMMA InstallKeeps ==
  ASSUME TypeOK, RowIds, CheckedInv, NEW rows \in SUBSET Period, Install(rows),
         UNCHANGED <<entry, classTeacher, away, vetted, forced, twins>>
  PROVE  /\ \A i \in Live : period'[i] = period[i]
         /\ VettedApart' /\ TwinsInv' /\ LoadInv' /\ PresentInv'
<1>1. \A i \in Live : period'[i] = period[i]
  BY Installed DEF Live
<1>2. Placed' = Placed /\ vetted \subseteq Placed
  BY DEF Placed, TypeOK
<1>3. \A e \in vetted' : period'[entry[e].period] = period[entry[e].period]
  BY <1>1, <1>2 DEF TypeOK
<1> QED BY <1>1, <1>2, <1>3, RowsGo

LEMMA InsertPeriodsChecked ==
  ASSUME BaseInv, LoneInv, CheckedInv, NEW k \in Calls, InsertPeriods(k)
  PROVE  CheckedInv'
<1>1. PICK c \in Call : c = call[k] /\ c.pc = "insert periods"
  BY CallTyped DEF BaseInv, InsertPeriods
<1>2. PICK rows \in SUBSET Period : rows = c.rows
  BY <1>1, CallTyped DEF BaseInv
<1>3. /\ Install(rows) /\ TypeOK /\ RowIds
      /\ UNCHANGED <<entry, classTeacher, away, vetted, forced, twins>>
  BY <1>1, <1>2 DEF InsertPeriods, BaseInv
<1>4. \A i \in Live : period'[i] = period[i]
  BY <1>3, InstallKeeps
<1>5. SoundPeriodsDisjoint'
  <2>1. CASE k \notin alone
    <3>1. sound' = sound /\ sound \subseteq Live
      BY <1>3, <2>1 DEF InsertPeriods, TypeOK
    <3> QED BY <1>4, <3>1, SoundKept DEF CheckedInv
  <2>2. CASE k \in alone
    <3>1. PICK ids : ids = lastPeriod + 1 .. lastPeriod'
      OBVIOUS
    <3>2. sound' = sound \cup ids /\ sound \subseteq Live
      BY <1>3, <2>2, <3>1 DEF InsertPeriods, TypeOK
    <3>3. /\ \A i \in ids : i \notin Live /\ period'[i] \in rows
          /\ \A i, j \in ids : i # j => period'[i] # period'[j]
      BY <1>3, <3>1, Installed
    <3>4. RowsReady(rows)
      BY <1>1, <1>2, <2>2 DEF LoneInv, Ready
    <3>5. ASSUME NEW i \in ids, NEW j \in ids, i # j PROVE Apart(period'[i], period'[j])
      BY <3>3, <3>4, <3>5 DEF RowsReady
    <3>6. ASSUME NEW i \in ids, NEW j \in sound, period[j].active
          PROVE  Apart(period'[i], period'[j]) /\ Apart(period'[j], period'[i])
      <4>1. j \in Live /\ period'[j] = period[j] /\ period'[i] \in rows
        BY <1>4, <3>2, <3>3
      <4>2. Apart(period'[i], period'[j])
        BY <3>4, <3>6, <4>1 DEF RowsReady
      <4> QED BY <4>2, ApartIsSymmetric
    <3>7. ASSUME NEW i \in sound, NEW j \in sound, i # j, period'[i].active, period'[j].active
          PROVE  Apart(period'[i], period'[j])
      <4>1. period'[i] = period[i] /\ period'[j] = period[j]
        BY <1>4, <3>2
      <4>2. SoundPeriodsDisjoint
        BY DEF CheckedInv
      <4> QED BY <3>7, <4>1, <4>2 DEF SoundPeriodsDisjoint
    <3>8. \A j \in sound : period'[j] = period[j]
      BY <1>4, <3>2
    <3> QED BY <3>2, <3>5, <3>6, <3>7, <3>8 DEF SoundPeriodsDisjoint
  <2> QED BY <2>1, <2>2
<1>6. VettedApart' /\ TwinsInv' /\ LoadInv' /\ PresentInv'
  BY <1>3, InstallKeeps
<1> QED BY <1>5, <1>6 DEF CheckedInv

LEMMA InitDefaultPeriodsChecked ==
  ASSUME BaseInv, CheckedInv, InitDefaultPeriods
  PROVE  CheckedInv'
<1>1. DefaultSlots \in SUBSET Period
  BY TimetableAssumption
<1>2. /\ Install(DefaultSlots) /\ TypeOK /\ RowIds /\ sound' = sound
      /\ UNCHANGED <<entry, classTeacher, away, vetted, forced, twins>>
  BY DEF InitDefaultPeriods, history, BaseInv
<1>3. /\ \A i \in Live : period'[i] = period[i]
      /\ VettedApart' /\ TwinsInv' /\ LoadInv' /\ PresentInv'
  BY <1>1, <1>2, InstallKeeps
<1>4. SoundPeriodsDisjoint'
  <2>1. \A i \in sound' : period'[i] = period[i]
    BY <1>2, <1>3 DEF TypeOK
  <2> QED BY <1>2, <2>1, SoundKept DEF CheckedInv
<1> QED BY <1>3, <1>4 DEF CheckedInv

LEMMA SavePeriodChecked ==
  ASSUME BaseInv, LoneInv, CheckedInv, NEW k \in Calls, SavePeriod(k)
  PROVE  CheckedInv'
<1>1. PICK c \in Call : c = call[k]
  BY CallTyped DEF BaseInv
<1>2. PICK i \in PeriodIds, row \in Period : i = c.id /\ row = c.row
  BY <1>1, SavedPeriod DEF BaseInv
<1>3. /\ c.pc = "save period" /\ period' = [period EXCEPT ![i] = row]
      /\ Placed' = Placed /\ vetted' = {e \in vetted : entry[e].period # i}
      /\ k \in alone => sound' = sound \cup {i}
      /\ k \notin alone => sound' = sound \ {i}
      /\ UNCHANGED <<entry, classTeacher, away, forced, twins>>
  BY <1>1, <1>2, SavedPeriod DEF BaseInv
<1>4. period'[i] = row /\ \A j \in PeriodIds \ {i} : period'[j] = period[j]
  BY <1>3 DEF BaseInv, TypeOK
<1>5. VettedApart' /\ TwinsInv' /\ LoadInv' /\ PresentInv'
  <2>1. TypeOK /\ vetted' \subseteq vetted /\ vetted \subseteq Placed
    BY <1>3 DEF BaseInv, TypeOK
  <2>2. \A e \in vetted' : entry[e].period \in PeriodIds \ {i}
    BY <1>3, <2>1 DEF TypeOK, Live
  <2>3. \A e \in vetted' : period'[entry[e].period] = period[entry[e].period]
    BY <1>4, <2>2
  <2> QED BY <1>3, <2>1, <2>3, RowsGo
<1>6. SoundPeriodsDisjoint'
  <2>1. sound \subseteq Live /\ Live \subseteq PeriodIds
    BY DEF BaseInv, TypeOK, Live
  <2>2. CASE k \notin alone
    <3>1. sound' = sound \ {i}
      BY <1>3, <2>2
    <3>2. \A j \in sound' : period'[j] = period[j]
      BY <1>4, <2>1, <3>1
    <3> QED BY <3>1, <3>2, SoundKept DEF CheckedInv
  <2>3. CASE k \in alone
    <3>1. sound' = sound \cup {i}
      BY <1>3, <2>3
    <3>2. RowReady(i, row)
      BY <1>1, <1>2, <1>3, <2>3 DEF LoneInv, Ready
    <3>3. ASSUME NEW j \in sound \ {i}, period'[j].active
          PROVE  Apart(period'[i], period'[j]) /\ Apart(period'[j], period'[i])
      <4>1. j \in Live \ {i} /\ period'[j] = period[j]
        BY <1>4, <2>1
      <4>2. Apart(period'[i], period'[j])
        BY <1>4, <3>2, <3>3, <4>1 DEF RowReady
      <4> QED BY <4>2, ApartIsSymmetric
    <3>4. ASSUME NEW j \in sound \ {i}, NEW m \in sound \ {i}, j # m,
                 period'[j].active, period'[m].active
          PROVE  Apart(period'[j], period'[m])
      <4>1. period'[j] = period[j] /\ period'[m] = period[m]
        BY <1>4, <2>1
      <4>2. SoundPeriodsDisjoint
        BY DEF CheckedInv
      <4> QED BY <3>4, <4>1, <4>2 DEF SoundPeriodsDisjoint
    <3> QED BY <3>1, <3>3, <3>4 DEF SoundPeriodsDisjoint
  <2> QED BY <2>2, <2>3
<1> QED BY <1>5, <1>6 DEF CheckedInv

LEMMA DropPeriodsChecked ==
  ASSUME BaseInv, CheckedInv, NEW k \in Calls, DropPeriods(k)
  PROVE  CheckedInv'
<1>1. PICK S : S = call[k].ids
  OBVIOUS
<1>2. S \in SUBSET PeriodIds /\ Drop(S) /\ TypeOK
  BY <1>1, CallTyped DEF DropPeriods, BaseInv
<1>3. /\ \A t \in Teachers : away'[t] = {a \in away[t] : a.period \notin S}
      /\ \A i \in PeriodIds \ S : period'[i] = period[i]
      /\ Placed' = {e \in Placed : entry[e].period \notin S}
      /\ \A e \in Placed' : entry'[e] = entry[e]
      /\ vetted' = vetted \cap Placed' /\ sound' = sound \ S
      /\ UNCHANGED <<classTeacher, forced, twins>>
  BY <1>2, Dropped
<1>4. \A e \in vetted' : e \in Placed' /\ period'[entry[e].period] = period[entry[e].period]
  BY <1>2, <1>3 DEF TypeOK, Live
<1>5. \A t \in Teachers : away'[t] \subseteq away[t]
  BY <1>3
<1>6. VettedApart' /\ TwinsInv' /\ LoadInv' /\ PresentInv'
  BY <1>2, <1>3, <1>4, <1>5, RowsGo
<1>7. SoundPeriodsDisjoint'
  <2>1. \A i \in sound' : period'[i] = period[i]
    BY <1>2, <1>3 DEF TypeOK, Live
  <2> QED BY <1>3, <2>1, SoundKept DEF CheckedInv
<1> QED BY <1>6, <1>7 DEF CheckedInv

LEMMA ReorderPeriodChecked ==
  ASSUME BaseInv, CheckedInv, NEW k \in Calls, NEW i \in PeriodIds, NEW n \in PeriodIds,
         ReorderPeriod(k, i, n)
  PROVE  CheckedInv'
<1>1. TypeOK
  BY DEF BaseInv
<1>2. PICK p \in Period : p = period[i]
  BY <1>1, RowsTyped DEF ReorderPeriod
<1>3. PICK q : q = [p EXCEPT !.order = n]
  OBVIOUS
<1>4. /\ q.active = p.active /\ q.start = p.start /\ q.end = p.end /\ q.day = p.day
      /\ q.classes = p.classes
  BY <1>3 DEF Period
<1>5. period' = [period EXCEPT ![i] = q]
  BY <1>2, <1>3 DEF ReorderPeriod
<1>6. \A j \in PeriodIds : /\ period'[j].active = period[j].active
                           /\ period'[j].start = period[j].start /\ period'[j].end = period[j].end
                           /\ period'[j].day = period[j].day
                           /\ period'[j].classes = period[j].classes
  BY <1>1, <1>2, <1>4, <1>5 DEF TypeOK
<1>7. UNCHANGED <<entry, classTeacher, away, sound, vetted, forced, twins>>
  BY DEF ReorderPeriod, history
<1>8. Placed' = Placed /\ vetted \subseteq Placed
  BY <1>1, <1>7 DEF Placed, TypeOK
<1>9. \A e \in vetted' : entry[e].period \in PeriodIds
  BY <1>1, <1>7, <1>8 DEF TypeOK, Live
<1>10. VettedApart' /\ TwinsInv' /\ LoadInv' /\ PresentInv'
  BY <1>1, <1>6, <1>7, <1>8, <1>9, RowsGo
<1>11. SoundPeriodsDisjoint'
  BY <1>1, <1>6, <1>7, SoundKept DEF CheckedInv, TypeOK, Live
<1> QED BY <1>10, <1>11 DEF CheckedInv

LEMMA ClashIsSymmetric ==
  ASSUME NEW x, NEW y, Clash(x, y)
  PROVE  Clash(y, x)
BY DEF Clash, Meets, Overlap

(* One row is written; if it counts as vetted, it was checked. *)
LEMMA WrittenApart ==
  ASSUME TypeOK, VettedApart, UNCHANGED <<period, classTeacher>>, NEW e \in EntryIds,
         \A f \in EntryIds \ {e} : entry'[f] = entry[f],
         vetted' \subseteq vetted \cup {e},
         \A f, g \in vetted \ {e} : {f, g} \in twins => {f, g} \in twins',
         e \in vetted' => \A f \in vetted \ {e}, y \in Entry :
           {e, f} \notin twins' /\ y = entry[f] => ~Clash(entry'[e], y)
  PROVE  VettedApart'
<1>1. SUFFICES ASSUME NEW f \in vetted', NEW g \in vetted', NEW x \in Entry, NEW y \in Entry,
                      f # g, {f, g} \notin twins', x = entry'[f], y = entry'[g], Clash(x, y)'
               PROVE  FALSE
  BY DEF VettedApart
<1>2. Clash(x, y)
  BY <1>1, TeachersSame, ClashKept
<1>3. vetted \subseteq EntryIds
  BY DEF TypeOK, Placed
<1>4. CASE f # e /\ g # e
  <2>1. f \in vetted /\ g \in vetted /\ x = entry[f] /\ y = entry[g] /\ {f, g} \notin twins
    BY <1>1, <1>3, <1>4
  <2> QED BY <1>1, <1>2, <2>1 DEF VettedApart
<1>5. CASE f = e
  <2>1. g \in vetted \ {e} /\ y = entry[g]
    BY <1>1, <1>3, <1>5
  <2> QED BY <1>1, <1>2, <1>5, <2>1
<1>6. CASE g = e
  <2>1. f \in vetted \ {e} /\ x = entry[f] /\ {e, f} \notin twins'
    BY <1>1, <1>3, <1>6
  <2>2. Clash(y, x)
    BY <1>2, ClashIsSymmetric
  <2> QED BY <1>1, <1>6, <2>1, <2>2
<1> QED BY <1>4, <1>5, <1>6

LEMMA WrittenWithin ==
  ASSUME TypeOK, LoadInv, PresentInv, UNCHANGED <<classTeacher, away>>,
         NEW e \in EntryIds, NEW x \in Entry, entry'[e] = x,
         \A f \in EntryIds \ {e} : entry'[f] = entry[f],
         Checked' \subseteq Checked \cup {e},
         e \in Checked' => FitsLimits(x, 1, Placed \ {e})
  PROVE  LoadInv' /\ PresentInv'
<1>1. PICK S, T, R : S = Checked /\ T = Checked' /\ R = Placed \ {e}
  OBVIOUS
<1>2. /\ S \in SUBSET EntryIds /\ T \in SUBSET EntryIds /\ R \in SUBSET EntryIds
      /\ T \subseteq S \cup {e} /\ T \ {e} \subseteq S /\ T \ {e} \subseteq R
  <2>1. Checked \subseteq Placed /\ Placed \subseteq EntryIds
    BY DEF TypeOK, Checked, Placed
  <2> QED BY <1>1, <2>1
<1>3. \A f \in T \ {e} : entry'[f] = entry[f] /\ TeachersOf(entry[f])' = TeachersOf(entry[f])
  BY <1>2 DEF TeachersOf
<1>4. TeachersOf(entry[e])' = TeachersOf(x)
  BY DEF TeachersOf
<1>5. ASSUME NEW t \in Teachers
      PROVE  WeekLoad(t, T)' <= MaxPerWeek /\ \A d \in Days : Load(t, d, T)' <= MaxPerDay
  <2>1. WeekLoad(t, S) <= MaxPerWeek /\ \A d \in Days : Load(t, d, S) <= MaxPerDay
    BY <1>1 DEF LoadInv
  <2>2. WeekLoad(t, S) \in Nat /\ \A d : Load(t, d, S) \in Nat
    BY <1>2, LoadTyped
  <2>3. /\ WeekLoad(t, R) \in Nat /\ Load(t, x.day, R) \in Nat
        /\ WeekLoad(t, T)' \in Nat /\ WeekLoad(t, T)' <= WeekLoad(t, R) + 1
        /\ Load(t, x.day, T)' \in Nat /\ Load(t, x.day, T)' <= Load(t, x.day, R) + 1
    <3>1. \A f \in T \ {e} : t \in TeachersOf(entry[f])' =>
            f \in R /\ t \in TeachersOf(entry[f]) /\ entry'[f].day = entry[f].day
      BY <1>2, <1>3
    <3> QED BY <1>2, <3>1, LoadOneMore, LoadTyped
  <2>4. WeekLoad(t, T)' <= MaxPerWeek
    <3>1. CASE e \in T /\ t \in TeachersOf(x)
      <4>1. WeekLoad(t, R) + 1 <= MaxPerWeek
        BY <1>1, <3>1 DEF FitsLimits
      <4>2. \A v, a, m \in Nat : v <= a + 1 /\ a + 1 <= m => v <= m
        OBVIOUS
      <4> QED BY <2>3, <4>1, <4>2, TimetableAssumption
    <3>2. CASE ~(e \in T /\ t \in TeachersOf(x))
      <4>1. \A f \in T : t \in TeachersOf(entry[f])' =>
              f \in S /\ t \in TeachersOf(entry[f]) /\ entry'[f].day = entry[f].day
        BY <1>2, <1>3, <1>4, <3>2
      <4>2. WeekLoad(t, T)' \in Nat /\ WeekLoad(t, T)' <= WeekLoad(t, S)
        BY <1>2, <4>1, LoadKept
      <4> QED BY <2>1, <2>2, <4>2, NoGreater, TimetableAssumption
    <3> QED BY <3>1, <3>2
  <2>5. ASSUME NEW d \in Days PROVE Load(t, d, T)' <= MaxPerDay
    <3>1. CASE e \in T /\ t \in TeachersOf(x) /\ d = x.day
      <4>1. Load(t, d, R) + 1 <= MaxPerDay
        BY <1>1, <3>1 DEF FitsLimits
      <4>2. \A v, a, m \in Nat : v <= a + 1 /\ a + 1 <= m => v <= m
        OBVIOUS
      <4> QED BY <2>3, <3>1, <4>1, <4>2, TimetableAssumption
    <3>2. CASE ~(e \in T /\ t \in TeachersOf(x) /\ d = x.day)
      <4>1. \A f \in T : t \in TeachersOf(entry[f])' /\ entry'[f].day = d =>
              f \in S /\ t \in TeachersOf(entry[f]) /\ entry[f].day = d
        BY <1>2, <1>3, <1>4, <3>2
      <4>2. Load(t, d, T)' \in Nat /\ Load(t, d, T)' <= Load(t, d, S)
        BY <1>2, <4>1, DayLoadKept
      <4> QED BY <2>1, <2>2, <4>2, NoGreater, TimetableAssumption
    <3> QED BY <3>1, <3>2
  <2> QED BY <2>4, <2>5
<1>6. LoadInv'
  BY <1>1, <1>5 DEF LoadInv, Load, WeekLoad
<1>7. ASSUME NEW f \in T, NEW y \in Entry, y = entry'[f],
             NEW t \in TeachersOf(y)', IsAway(t, y.day, y.period)'
      PROVE  FALSE
  <2>1. TeachersOf(y)' = TeachersOf(y) /\ IsAway(t, y.day, y.period)
    BY <1>7, TeachersSame DEF IsAway
  <2>2. CASE f = e
    BY <1>1, <1>7, <2>1, <2>2 DEF FitsLimits
  <2>3. CASE f # e
    <3>1. f \in Checked /\ y = entry[f]
      BY <1>1, <1>2, <1>3, <1>7, <2>3
    <3> QED BY <1>7, <2>1, <3>1 DEF PresentInv
  <2> QED BY <2>2, <2>3
<1>8. PresentInv'
  BY <1>1, <1>7 DEF PresentInv
<1> QED BY <1>6, <1>8

LEMMA InsertBoxChecked ==
  ASSUME BaseInv, LoneInv, CheckedInv, NEW k \in Calls, InsertBox(k)
  PROVE  CheckedInv'
<1>1. PICK c \in Call : c = call[k] /\ c.pc = "insert boxes"
  BY CallTyped, BoxInserted DEF BaseInv
<1>2. PICK e \in EntryIds : e = lastEntry + 1 /\ e = lastEntry'
  BY BoxInserted DEF BaseInv
<1>3. PICK boxes \in Seq(Entry) \ {<<>>} : boxes = c.boxes
  BY <1>1, CallTyped DEF BaseInv
<1>4. PICK x \in Entry : x = Head(boxes) /\ x = boxes[1]
  BY <1>3
<1>5. /\ x.period \in Live /\ e \notin Placed /\ entry'[e] = x
      /\ \A f \in EntryIds \ {e} : entry'[f] = entry[f]
      /\ UNCHANGED <<period, classTeacher, away, sound>> /\ TypeOK
  BY <1>1, <1>2, <1>3, <1>4, BoxInserted DEF BaseInv
<1>6. /\ vetted' = vetted \cup IF k \in alone THEN {e} ELSE {}
      /\ forced' = forced \cup IF c.override THEN {e} ELSE {}
      /\ twins' = twins \cup IF c.made # {} /\ k \in alone THEN {c.made \cup {e}} ELSE {}
  BY <1>1, <1>2 DEF InsertBox
<1>7. Placed' = Placed \cup {e} /\ vetted \subseteq Placed /\ Placed \subseteq EntryIds
  BY <1>5, NoRowIsNone DEF Placed, TypeOK
<1>8. ASSUME k \in alone
      PROVE  /\ NoClash(x, Placed \ c.made)
             /\ c.override \/ FitsLimits(x, 1, Placed \ {e})
             /\ c.made # {} => \E a \in Placed : c.made = {a} /\ AsTwins(entry[a], x)
  <2>1. BoxesReady(c)
    BY <1>1, <1>8 DEF LoneInv, Ready
  <2>2. PICK n \in {1, 2} : n = Len(boxes)
    BY <1>3, <2>1 DEF BoxesReady
  <2>3. 1 \in 1 .. n
    BY <2>2
  <2>4. NoClash(x, Placed \ c.made) /\ (c.override \/ FitsLimits(x, n, Placed))
    BY <1>3, <1>4, <2>1, <2>2, <2>3 DEF BoxesReady
  <2>5. ASSUME FitsLimits(x, n, Placed) PROVE FitsLimits(x, 1, Placed \ {e})
    <3>1. PICK S \in SUBSET EntryIds : S = Placed /\ S = Placed \ {e}
      BY <1>5, <1>7
    <3>2. ASSUME NEW t \in TeachersOf(x)
          PROVE  /\ Load(t, x.day, S) + 1 <= MaxPerDay
                 /\ WeekLoad(t, S) + 1 <= MaxPerWeek
                 /\ ~IsAway(t, x.day, x.period)
      <4>1. PICK a \in Nat, b \in Nat : a = Load(t, x.day, S) /\ b = WeekLoad(t, S)
        BY LoadTyped
      <4>2. a + n <= MaxPerDay /\ b + n <= MaxPerWeek /\ ~IsAway(t, x.day, x.period)
        BY <2>5, <3>1, <4>1 DEF FitsLimits
      <4>3. \A v, m \in Nat : v + n <= m => v + 1 <= m
        BY <2>2
      <4>4. a + 1 <= MaxPerDay /\ b + 1 <= MaxPerWeek
        BY <4>2, <4>3, TimetableAssumption
      <4> QED BY <4>1, <4>2, <4>4
    <3> QED BY <3>1, <3>2 DEF FitsLimits
  <2>6. c.made # {} => \E a \in Placed : c.made = {a} /\ AsTwins(entry[a], x)
    BY <1>3, <1>4, <2>1 DEF BoxesReady
  <2> QED BY <2>4, <2>5, <2>6
<1>9. VettedApart'
  <2>1. vetted' \subseteq vetted \cup {e} /\ twins \subseteq twins'
    BY <1>6
  <2>2. ASSUME e \in vetted', NEW f \in vetted \ {e}, NEW y \in Entry, {e, f} \notin twins',
               y = entry[f]
        PROVE  ~Clash(x, y)
    <3>1. k \in alone
      BY <1>5, <1>6, <1>7, <2>2
    <3>2. f \notin c.made
      <4>1. SUFFICES ASSUME f \in c.made PROVE FALSE
        OBVIOUS
      <4>2. c.made = {f}
        BY <1>8, <3>1, <4>1
      <4>3. c.made \cup {e} = {e, f}
        BY <4>2
      <4>4. c.made \cup {e} \in twins'
        BY <1>6, <3>1, <4>1
      <4> QED BY <2>2, <4>3, <4>4
    <3>3. f \in Placed \ c.made
      BY <1>7, <2>2, <3>2
    <3> QED BY <1>5, <1>8, <2>2, <3>1, <3>3 DEF NoClash
  <2>3. VettedApart
    BY DEF CheckedInv
  <2> QED BY <1>5, <2>1, <2>2, <2>3, WrittenApart
<1>10. LoadInv' /\ PresentInv'
  <2>1. Checked' \subseteq Checked \cup {e}
    BY <1>6 DEF Checked
  <2>2. ASSUME e \in Checked' PROVE FitsLimits(x, 1, Placed \ {e})
    <3>1. k \in alone /\ ~c.override
      BY <1>5, <1>6, <1>7, <2>2 DEF Checked
    <3> QED BY <1>8, <3>1
  <2>3. LoadInv /\ PresentInv
    BY DEF CheckedInv
  <2> QED BY <1>5, <2>1, <2>2, <2>3, WrittenWithin
<1>11. TwinsInv'
  <2>1. SUFFICES ASSUME NEW f \in Placed', NEW g \in Placed', {f, g} \in twins', f # g
                 PROVE  AsTwins(entry'[f], entry'[g])
    BY DEF TwinsInv
  <2>2. CASE {f, g} \in twins
    <3>1. f <= lastEntry /\ g <= lastEntry
      BY <2>2 DEF BaseInv, RowIds
    <3>2. f # e /\ g # e
      <4>1. lastEntry \in Nat
        BY <1>5, LastsTyped
      <4> QED BY <1>2, <3>1, <4>1
    <3>3. f \in Placed /\ g \in Placed /\ entry'[f] = entry[f] /\ entry'[g] = entry[g]
      BY <1>5, <1>7, <2>1, <3>2
    <3> QED BY <2>1, <2>2, <3>3 DEF CheckedInv, TwinsInv
  <2>3. CASE {f, g} \notin twins
    <3>1. k \in alone /\ c.made # {} /\ {f, g} = c.made \cup {e}
      BY <1>6, <2>1, <2>3
    <3>2. PICK a \in Placed : c.made = {a} /\ AsTwins(entry[a], x)
      BY <1>8, <3>1
    <3>3. (f = a /\ g = e) \/ (f = e /\ g = a)
      BY <2>1, <3>1, <3>2
    <3>4. entry'[a] = entry[a] /\ entry'[e] = x
      BY <1>5, <1>7, <3>2
    <3> QED BY <3>2, <3>3, <3>4 DEF AsTwins
  <2> QED BY <2>2, <2>3
<1>12. SoundPeriodsDisjoint'
  BY <1>5, SoundKept DEF CheckedInv
<1> QED BY <1>9, <1>10, <1>11, <1>12 DEF CheckedInv

LEMMA SaveEntryChecked ==
  ASSUME BaseInv, LoneInv, CheckedInv, NEW k \in Calls, SaveEntry(k)
  PROVE  CheckedInv'
<1>1. PICK c \in Call : c = call[k]
  BY CallTyped DEF BaseInv
<1>2. PICK e \in EntryIds, x \in Entry : e = c.id /\ x = c.box
  BY <1>1, EntrySaved DEF BaseInv
<1>3. /\ c.pc = "save entry" /\ x.period \in Live /\ entry'[e] = x
      /\ \A f \in EntryIds \ {e} : entry'[f] = entry[f]
      /\ Placed' = Placed \cup {e}
      /\ twins' = {pair \in twins : e \notin pair}
      /\ UNCHANGED <<period, classTeacher, away, sound>> /\ TypeOK
  BY <1>1, <1>2, EntrySaved DEF BaseInv
<1>4. /\ vetted' = IF k \in alone THEN vetted \cup {e} ELSE vetted \ {e}
      /\ forced' = IF c.override THEN forced \cup {e} ELSE forced \ {e}
  BY <1>1, <1>2 DEF SaveEntry
<1>5. vetted \subseteq Placed /\ Placed \subseteq EntryIds
  BY <1>3 DEF Placed, TypeOK
<1>6. ASSUME k \in alone
      PROVE  /\ NoClash(x, Placed \ {e})
             /\ c.override \/ FitsLimits(x, 1, Placed \ {e})
  BY <1>1, <1>2, <1>3, <1>6 DEF LoneInv, Ready, EntryReady
<1>7. VettedApart'
  <2>1. vetted' \subseteq vetted \cup {e}
    BY <1>4
  <2>2. \A f, g \in vetted \ {e} : {f, g} \in twins => {f, g} \in twins'
    BY <1>3
  <2>3. ASSUME e \in vetted', NEW f \in vetted \ {e}, NEW y \in Entry, y = entry[f]
        PROVE  ~Clash(x, y)
    <3>1. k \in alone
      BY <1>4, <2>3
    <3> QED BY <1>3, <1>5, <1>6, <2>3, <3>1 DEF NoClash
  <2>4. VettedApart
    BY DEF CheckedInv
  <2> QED BY <1>3, <2>1, <2>2, <2>3, <2>4, WrittenApart
<1>8. LoadInv' /\ PresentInv'
  <2>1. Checked' \subseteq Checked \cup {e}
    BY <1>4 DEF Checked
  <2>2. ASSUME e \in Checked' PROVE FitsLimits(x, 1, Placed \ {e})
    <3>1. k \in alone /\ ~c.override
      BY <1>4, <2>2 DEF Checked
    <3> QED BY <1>6, <3>1
  <2>3. LoadInv /\ PresentInv
    BY DEF CheckedInv
  <2> QED BY <1>3, <2>1, <2>2, <2>3, WrittenWithin
<1>9. TwinsInv'
  <2>1. SUFFICES ASSUME NEW f \in Placed', NEW g \in Placed', {f, g} \in twins', f # g
                 PROVE  AsTwins(entry'[f], entry'[g])
    BY DEF TwinsInv
  <2>2. {f, g} \in twins /\ f # e /\ g # e
    BY <1>3, <2>1
  <2>3. f \in Placed /\ g \in Placed /\ entry'[f] = entry[f] /\ entry'[g] = entry[g]
    BY <1>3, <1>5, <2>1, <2>2
  <2> QED BY <2>1, <2>2, <2>3 DEF CheckedInv, TwinsInv
<1>10. SoundPeriodsDisjoint'
  BY <1>3, SoundKept DEF CheckedInv
<1> QED BY <1>7, <1>8, <1>9, <1>10 DEF CheckedInv

LEMMA RemoveChecked ==
  ASSUME BaseInv, CheckedInv, NEW k \in Calls, Remove(k)
  PROVE  CheckedInv'
<1>1. PICK e \in EntryIds :
        /\ \A f \in EntryIds \ {e} : entry'[f] = entry[f]
        /\ Placed' = Placed \ {e} /\ vetted' = vetted \ {e}
        /\ UNCHANGED <<period, classTeacher, away, sound, forced, twins>>
  BY Removed DEF BaseInv
<1>2. TypeOK /\ vetted \subseteq Placed /\ Placed \subseteq EntryIds
  BY DEF BaseInv, TypeOK, Placed
<1>3. VettedApart' /\ TwinsInv' /\ LoadInv' /\ PresentInv'
  BY <1>1, <1>2, RowsGo
<1>4. SoundPeriodsDisjoint'
  BY <1>1, SoundKept DEF CheckedInv
<1> QED BY <1>3, <1>4 DEF CheckedInv

(* An entry that counts as vetted has the teachers it was checked with. *)
LEMMA ChangeClassTeacherChecked ==
  ASSUME BaseInv, CheckedInv, NEW c \in Classes, NEW t \in Teachers, ChangeClassTeacher(c, t)
  PROVE  CheckedInv'
<1>1. /\ classTeacher' = [classTeacher EXCEPT ![c] = t]
      /\ vetted' = {e \in vetted : ~(entry[e].byClass /\ entry[e].class = c)}
      /\ UNCHANGED <<period, entry, away, sound, forced, twins>>
      /\ TypeOK
  BY DEF ChangeClassTeacher, BaseInv
<1>2. Placed' = Placed /\ vetted \subseteq Placed
  BY <1>1 DEF Placed, TypeOK
<1>3. ASSUME NEW e \in vetted' PROVE TeachersOf(entry[e])' = TeachersOf(entry[e])
  <2>1. PICK x \in Entry : x = entry[e]
    BY <1>1, <1>2, RowsTyped
  <2>2. x.class \in Classes /\ ~(x.byClass /\ x.class = c)
    BY <1>1, <2>1 DEF Entry
  <2>3. x.byClass => classTeacher'[x.class] = classTeacher[x.class]
    BY <1>1, <2>2 DEF TypeOK
  <2>4. TeachersOf(x)' = TeachersOf(x)
    BY <2>3 DEF TeachersOf
  <2> QED BY <1>1, <2>1, <2>4 DEF TeachersOf
<1>4. vetted' \subseteq vetted /\ Checked' \subseteq Checked /\ Checked' \subseteq vetted'
  BY <1>1 DEF Checked
<1>5. VettedApart'
  BY <1>1, <1>3, <1>4, VettedKept DEF CheckedInv
<1>6. TwinsInv'
  BY <1>1, <1>2, TwinsKept DEF CheckedInv
<1>7. LoadInv'
  BY <1>1, <1>3, <1>4, LoadsKept DEF CheckedInv
<1>8. PresentInv'
  BY <1>1, <1>3, <1>4, PresentKept DEF CheckedInv
<1>9. SoundPeriodsDisjoint'
  BY <1>1, SoundKept DEF CheckedInv
<1> QED BY <1>5, <1>6, <1>7, <1>8, <1>9 DEF CheckedInv

LEMMA DeleteRoomChecked ==
  ASSUME BaseInv, CheckedInv, NEW r \in Rooms, DeleteRoom(r)
  PROVE  CheckedInv'
<1>1. /\ UNCHANGED <<period, classTeacher, away, sound, vetted, forced, twins>>
      /\ Placed' = Placed /\ TypeOK
  BY RoomDeleted DEF BaseInv, history
<1>2. ASSUME NEW e \in Placed
      PROVE  /\ entry'[e].room = entry[e].room \/ entry'[e].room = NoRoom
             /\ entry'[e].class = entry[e].class /\ entry'[e].subject = entry[e].subject
             /\ entry'[e].day = entry[e].day /\ entry'[e].period = entry[e].period
             /\ entry'[e].lead = entry[e].lead /\ entry'[e].double = entry[e].double
             /\ TeachersOf(entry[e])' = TeachersOf(entry[e])
  <2>1. /\ entry'[e].room = IF entry[e].room = r THEN NoRoom ELSE entry[e].room
        /\ entry'[e].class = entry[e].class /\ entry'[e].subject = entry[e].subject
        /\ entry'[e].lead = entry[e].lead /\ entry'[e].staff = entry[e].staff
        /\ entry'[e].byClass = entry[e].byClass /\ entry'[e].day = entry[e].day
        /\ entry'[e].period = entry[e].period /\ entry'[e].double = entry[e].double
    BY <1>1, RoomDeleted
  <2>2. TeachersOf(entry[e])' = TeachersOf(entry[e])
    BY <1>1, <2>1 DEF TeachersOf
  <2> QED BY <2>1, <2>2
<1>3. vetted' \subseteq vetted /\ vetted \subseteq Placed /\ Checked' = Checked /\ Checked \subseteq Placed
  BY <1>1 DEF TypeOK, Checked
<1>4. VettedApart'
  BY <1>1, <1>2, <1>3, VettedKept DEF CheckedInv
<1>5. TwinsInv'
  BY <1>1, <1>2, TwinsKept DEF CheckedInv
<1>6. LoadInv'
  BY <1>1, <1>2, <1>3, LoadsKept DEF CheckedInv
<1>7. PresentInv'
  BY <1>1, <1>2, <1>3, PresentKept DEF CheckedInv
<1>8. SoundPeriodsDisjoint'
  BY <1>1, SoundKept DEF CheckedInv
<1> QED BY <1>4, <1>5, <1>6, <1>7, <1>8 DEF CheckedInv

LEMMA SetAvailabilityChecked ==
  ASSUME BaseInv, CheckedInv, NEW t \in Teachers, NEW a \in Availability, SetAvailability(t, a)
  PROVE  CheckedInv'
<1>1. /\ vetted' = {e \in vetted : ~(/\ t \in TeachersOf(entry[e]) /\ entry[e].day = a.day
                                     /\ entry[e].period = a.period)}
      /\ UNCHANGED <<period, entry, classTeacher, sound, forced, twins>> /\ TypeOK
  BY DEF SetAvailability, BaseInv
<1>2. Placed' = Placed /\ vetted \subseteq Placed /\ vetted' \subseteq vetted
  BY <1>1 DEF Placed, TypeOK
<1>3. \A e : TeachersOf(entry[e])' = TeachersOf(entry[e])
  BY <1>1 DEF TeachersOf
<1>4. Checked' \subseteq Checked /\ Checked' \subseteq vetted'
  BY <1>1, <1>2 DEF Checked
<1>5. VettedApart'
  BY <1>1, <1>2, <1>3, VettedKept DEF CheckedInv
<1>6. TwinsInv'
  BY <1>1, <1>2, TwinsKept DEF CheckedInv
<1>7. LoadInv'
  BY <1>1, <1>3, <1>4, LoadsKept DEF CheckedInv
<1>8. PresentInv'
  <2>1. PICK S : S = {b \in away[t] : b.day # a.day \/ b.period # a.period} \cup {a}
    OBVIOUS
  <2>2. away' = [away EXCEPT ![t] = S]
    BY <2>1 DEF SetAvailability
  <2>3. away'[t] = S /\ \A u \in Teachers \ {t} : away'[u] = away[u]
    BY <1>1, <2>2 DEF TypeOK
  <2>4. SUFFICES ASSUME NEW e \in Checked', NEW x \in Entry, x = entry[e],
                        NEW u \in TeachersOf(x), IsAway(u, x.day, x.period)'
                 PROVE  FALSE
    BY <1>1, TeachersSame DEF PresentInv
  <2>5. ~IsAway(u, x.day, x.period)
    BY <1>4, <2>4 DEF CheckedInv, PresentInv
  <2>6. u \in Teachers
    <3>1. x.staff \subseteq Teachers /\ x.lead \in Teachers \cup {NoOne} /\ x.class \in Classes
      BY DEF Entry
    <3> QED BY <1>1, <3>1 DEF TeachersOf, TypeOK
  <2>7. PICK b \in away'[u] : /\ b.day = x.day /\ b.period = x.period
                              /\ b.unavailable /\ b.approval = "APPROVED"
    BY <2>4 DEF IsAway
  <2>8. b \notin away[u]
    BY <2>5, <2>7 DEF IsAway
  <2>9. u = t /\ b = a
    BY <2>1, <2>3, <2>6, <2>7, <2>8
  <2>10. e \in vetted'
    BY <1>4
  <2> QED BY <1>1, <2>4, <2>7, <2>9, <2>10
<1>9. SoundPeriodsDisjoint'
  BY <1>1, SoundKept DEF CheckedInv
<1> QED BY <1>5, <1>6, <1>7, <1>8, <1>9 DEF CheckedInv

-----------------------------------------------------------------------------
(* The invariant holds at first and is kept.                               *)

LEMMA TimetableInitially == Init => TimetableInv
<1> SUFFICES ASSUME Init PROVE TimetableInv
  OBVIOUS
<1>1. TypeOK
  <2>1. Placed = {}
    BY DEF Init, Placed
  <2>2. call \in [Calls -> Call]
    BY IdleIsCall DEF Init
  <2>3. away \in [Teachers -> SUBSET Availability]
    BY DEF Init
  <2>4. entry \in [EntryIds -> Entry \cup {NoEntry}] /\ lastEntry \in 0 .. MaxEntries
    BY TimetableAssumption DEF Init
  <2>5. begun \in 0 .. MaxCalls
    BY TimetableAssumption DEF Init
  <2>6. period \in [PeriodIds -> Period \cup {NoPeriod}] /\ lastPeriod \in 0 .. MaxPeriods
    BY TimetableAssumption DEF Init
  <2>7. classTeacher \in [Classes -> Teachers \cup {NoOne}]
    BY TimetableAssumption DEF Init
  <2> QED BY <2>1, <2>2, <2>3, <2>4, <2>5, <2>6, <2>7 DEF Init, TypeOK
<1>2. RowIds
  <2>1. Placed = {} /\ twins = {} /\ Live = 1 .. lastPeriod
    BY DEF Init, Placed
  <2>2. lastPeriod \in Nat
    BY <1>1, LastsTyped
  <2>3. \A i \in Live : i <= lastPeriod
    BY <2>1, <2>2
  <2> QED BY <2>1, <2>3 DEF RowIds
<1>3. ASSUME NEW k \in Calls, NEW c \in Call, c = call[k] PROVE IdFits(c) /\ PruneFits(c)
  BY <1>3 DEF Init, Idle, IdFits, PruneFits
<1>4. alone = {}
  BY DEF Init
<1>5. BaseInv
  BY <1>1, <1>2, <1>3, <1>4 DEF BaseInv, CallsFit, AloneInv
<1>6. LoneInv
  BY <1>4 DEF LoneInv
<1>7. SoundPeriodsDisjoint
  <2>1. period \in FirstTables /\ sound = {m \in PeriodIds : period[m] # NoPeriod}
    BY DEF Init, Live
  <2>2. \A table \in FirstTables : \A i, j \in {m \in PeriodIds : table[m] # NoPeriod} :
          i # j /\ table[i].active /\ table[j].active => Apart(table[i], table[j])
    BY TimetableAssumption
  <2>3. \A i, j \in {m \in PeriodIds : period[m] # NoPeriod} :
          i # j /\ period[i].active /\ period[j].active => Apart(period[i], period[j])
    BY <2>1, <2>2
  <2> QED BY <2>1, <2>3 DEF SoundPeriodsDisjoint
<1>8. vetted = {} /\ Placed = {} /\ Checked = {}
  BY DEF Init, Placed, Checked
<1>9. LoadInv
  <2>1. ASSUME NEW t PROVE WeekLoad(t, {}) = 0 /\ \A d : Load(t, d, {}) = 0
    <3>1. WeekLoad(t, {}) = 0
      <4>1. {e \in {} : t \in TeachersOf(entry[e])} = {}
        OBVIOUS
      <4> QED BY <4>1, FS_EmptySet DEF WeekLoad
    <3>2. ASSUME NEW d PROVE Load(t, d, {}) = 0
      <4>1. {e \in {} : t \in TeachersOf(entry[e]) /\ entry[e].day = d} = {}
        OBVIOUS
      <4> QED BY <4>1, FS_EmptySet DEF Load
    <3> QED BY <3>1, <3>2
  <2>2. 0 <= MaxPerDay /\ 0 <= MaxPerWeek
    BY TimetableAssumption
  <2> QED BY <1>8, <2>1, <2>2 DEF LoadInv
<1> QED BY <1>5, <1>6, <1>7, <1>8, <1>9
        DEF TimetableInv, CheckedInv, VettedApart, TwinsInv, PresentInv

LEMMA BeginsKeeps ==
  ASSUME TimetableInv, NEW k \in Calls, NEW todo, Fits(todo), Begins(k, todo)
  PROVE  TimetableInv'
<1>1. BaseInv' /\ LoneInv'
  BY BeginsBase, BeginsLone DEF TimetableInv
<1>2. CheckedInv'
  BY SameChecked DEF TimetableInv, BaseInv, Begins
<1> QED BY <1>1, <1>2 DEF TimetableInv

LEMMA StepKeeps ==
  ASSUME TimetableInv, NEW k \in Calls, Step(k)
  PROVE  TimetableInv'
<1>1. BaseInv /\ LoneInv /\ CheckedInv /\ TypeOK
  BY DEF TimetableInv, BaseInv
<1>2. CASE InsertPeriods(k)
  BY <1>1, <1>2, InsertPeriodsBase, OtherStepsLone, InsertPeriodsChecked DEF TimetableInv
<1>3. CASE SavePeriod(k)
  BY <1>1, <1>3, SavePeriodBase, OtherStepsLone, SavePeriodChecked DEF TimetableInv
<1>4. CASE DropPeriods(k)
  BY <1>1, <1>4, DropPeriodsBase, OtherStepsLone, DropPeriodsChecked DEF TimetableInv
<1>5. CASE GetPeriodsAgain(k)
  <2>1. CheckedInv'
    BY <1>1, <1>5, SameChecked DEF GetPeriodsAgain
  <2> QED BY <1>1, <1>5, <2>1, GetPeriodsAgainBase, OtherStepsLone DEF TimetableInv
<1>6. CASE InsertBox(k)
  BY <1>1, <1>6, InsertBoxBase, InsertBoxLone, InsertBoxChecked DEF TimetableInv
<1>7. CASE CopyNext(k)
  <2>1. CheckedInv'
    BY <1>1, <1>7, SameChecked DEF CopyNext
  <2> QED BY <1>1, <1>7, <2>1, CopyNextBase, CopyNextLone DEF TimetableInv
<1>8. CASE SaveEntry(k)
  BY <1>1, <1>8, SaveEntryBase, OtherStepsLone, SaveEntryChecked DEF TimetableInv
<1>9. CASE Remove(k)
  BY <1>1, <1>9, RemoveBase, RemoveLone, RemoveChecked DEF TimetableInv
<1>10. CASE CutOff(k)
  <2>1. CheckedInv'
    BY <1>1, <1>10, SameChecked DEF CutOff
  <2> QED BY <1>1, <1>10, <2>1, CutOffBase, OtherStepsLone DEF TimetableInv
<1> QED BY <1>2, <1>3, <1>4, <1>5, <1>6, <1>7, <1>8, <1>9, <1>10 DEF Step

LEMMA AroundKeeps ==
  ASSUME TimetableInv, Around
  PROVE  TimetableInv'
<1>1. BaseInv /\ CheckedInv /\ TypeOK
  BY DEF TimetableInv, BaseInv
<1>2. ASSUME Passing PROVE LoneInv'
  BY <1>2, NoneIsAlone DEF Passing
<1>3. CASE InitDefaultPeriods
  <2>1. Passing
    BY <1>3 DEF InitDefaultPeriods
  <2> QED BY <1>1, <1>2, <1>3, <2>1, InitDefaultPeriodsBase, InitDefaultPeriodsChecked
          DEF TimetableInv
<1>4. ASSUME NEW c \in Classes, NEW t \in Teachers, ChangeClassTeacher(c, t) PROVE TimetableInv'
  <2>1. Passing
    BY <1>4 DEF ChangeClassTeacher
  <2> QED BY <1>1, <1>2, <1>4, <2>1, ChangeClassTeacherBase, ChangeClassTeacherChecked
          DEF TimetableInv
<1>5. ASSUME NEW r \in Rooms, DeleteRoom(r) PROVE TimetableInv'
  <2>1. Passing
    BY <1>5 DEF DeleteRoom
  <2> QED BY <1>1, <1>2, <1>5, <2>1, DeleteRoomBase, DeleteRoomChecked DEF TimetableInv
<1>6. ASSUME NEW t \in Teachers, NEW a \in Availability, SetAvailability(t, a) PROVE TimetableInv'
  <2>1. Passing
    BY <1>6 DEF SetAvailability
  <2> QED BY <1>1, <1>2, <1>6, <2>1, SetAvailabilityBase, SetAvailabilityChecked
          DEF TimetableInv
<1> QED BY <1>1, <1>3, <1>4, <1>5, <1>6, AroundCases

LEMMA TimetableKept == TimetableInv /\ [Next]_vars => TimetableInv'
<1> SUFFICES ASSUME TimetableInv, [Next]_vars PROVE TimetableInv'
  OBVIOUS
<1>1. TypeOK /\ RowIds /\ TwinsInv
  BY DEF TimetableInv, BaseInv, CheckedInv
<1>2. ASSUME NEW k \in Calls, BeginPeriods(k) PROVE TimetableInv'
  <2>1. ASSUME NEW i \in PeriodIds, NEW n \in PeriodIds, ReorderPeriod(k, i, n)
        PROVE  TimetableInv'
    <3>1. alone' = {}
      BY <2>1 DEF ReorderPeriod
    <3> QED BY <2>1, <3>1, NoneIsAlone, ReorderPeriodBase, ReorderPeriodChecked DEF TimetableInv
  <2> QED BY <1>1, <1>2, <2>1, BeginPeriodsFits, BeginsKeeps
<1>3. ASSUME NEW k \in Calls, BeginEntries(k) PROVE TimetableInv'
  BY <1>1, <1>3, BeginEntriesFits, BeginsKeeps
<1>4. CASE UNCHANGED vars
  <2>1. UNCHANGED <<tables, history>> /\ UNCHANGED <<call, begun, alone>>
    BY <1>4 DEF vars
  <2>2. CheckedInv'
    BY <1>1, <2>1, SameChecked DEF TimetableInv
  <2>3. /\ UNCHANGED <<period, lastPeriod, entry, lastEntry, classTeacher, rooms, away,
                       sound, vetted, forced, twins>>
    BY <2>1 DEF tables, history
  <2>4. TypeOK'
    BY <1>1, <2>1, <2>3 DEF TypeOK, Live, Placed
  <2>5. BaseInv'
    BY <2>1, <2>3, <2>4 DEF TimetableInv, BaseInv, RowIds, CallsFit, IdFits, AloneInv, Busy,
                            Live, Placed
  <2>6. LoneInv'
    BY <1>1, <2>1, <2>3, ReadySame DEF TimetableInv, LoneInv
  <2> QED BY <2>2, <2>5, <2>6 DEF TimetableInv
<1> QED BY <1>2, <1>3, <1>4, StepKeeps, AroundKeeps DEF Next

(* Whatever calls overlap and wherever they are cut off: no two calls that *)
(* nothing overlaps are at work together, what such a call has read or     *)
(* checked is still so when it writes, and what was checked stays apart.   *)
THEOREM TimetableInvAlways == Spec => []TimetableInv
<1> QED BY TimetableInitially, TimetableKept, PTL DEF Spec

(* Every variable of the timetable keeps its type; in particular an entry  *)
(* that is placed is in a period and a room that exist.                    *)
THEOREM TimetableTypeCorrect == Spec => []TypeOK
<1>1. TimetableInv => TypeOK
  BY DEF TimetableInv, BaseInv
<1> QED BY <1>1, TimetableInvAlways, PTL

(* However the calls that checked them alternate with others, entries that *)
(* were checked by a call that ran alone never use a class, a teacher or a *)
(* room twice at a time, and periods checked so never overlap on a day for *)
(* a class.                                                                *)
THEOREM CheckedStaysApartAlways == Spec => []CheckedStaysApart
<1>1. TimetableInv => CheckedStaysApart
  <2>1. SUFFICES ASSUME TimetableInv PROVE VettedNeverClash /\ SoundPeriodsDisjoint
    BY DEF CheckedStaysApart
  <2>2. TypeOK /\ VettedApart /\ SoundPeriodsDisjoint
    BY <2>1 DEF TimetableInv, BaseInv, CheckedInv
  <2>3. \A e \in vetted : entry[e] \in Entry
    BY <2>2, RowsTyped DEF TypeOK
  <2>4. VettedNeverClash
    BY <2>2, <2>3 DEF VettedApart, VettedNeverClash
  <2> QED BY <2>2, <2>4
<1> QED BY <1>1, TimetableInvAlways, PTL

LEMMA LoadOfFewer ==
  ASSUME NEW S \in SUBSET EntryIds, NEW T \in SUBSET S, NEW t
  PROVE  WeekLoad(t, T) <= WeekLoad(t, S) /\ \A d : Load(t, d, T) <= Load(t, d, S)
<1>1. IsFiniteSet(EntryIds)
  BY TimetableAssumption, FS_Interval DEF EntryIds
<1>2. WeekLoad(t, T) <= WeekLoad(t, S)
  <2>1. PICK A, B : /\ A = {e \in S : t \in TeachersOf(entry[e])}
                    /\ B = {e \in T : t \in TeachersOf(entry[e])}
    OBVIOUS
  <2>2. B \subseteq A /\ A \subseteq EntryIds
    BY <2>1
  <2>3. Cardinality(B) <= Cardinality(A)
    BY <1>1, <2>2, FS_Subset
  <2> QED BY <2>1, <2>3 DEF WeekLoad
<1>3. ASSUME NEW d PROVE Load(t, d, T) <= Load(t, d, S)
  <2>1. PICK A, B : /\ A = {e \in S : t \in TeachersOf(entry[e]) /\ entry[e].day = d}
                    /\ B = {e \in T : t \in TeachersOf(entry[e]) /\ entry[e].day = d}
    OBVIOUS
  <2>2. B \subseteq A /\ A \subseteq EntryIds
    BY <2>1
  <2>3. Cardinality(B) <= Cardinality(A)
    BY <1>1, <2>2, FS_Subset
  <2> QED BY <2>1, <2>3 DEF Load
<1> QED BY <1>2, <1>3

(* A teacher all of whose entries were checked, and none forced, is within *)
(* the load of each day and of the week and absent from none of them.      *)
THEOREM WorkloadKeptAlways == Spec => []WorkloadKept
<1>1. TimetableInv => WorkloadKept
  <2>1. SUFFICES ASSUME TimetableInv, NEW t \in Teachers, NEW mine,
                        mine = {e \in Placed : t \in TeachersOf(entry[e])},
                        mine \subseteq vetted \ forced
                 PROVE  /\ WeekLoad(t, mine) <= MaxPerWeek
                        /\ \A d \in Days : Load(t, d, mine) <= MaxPerDay
                        /\ \A e \in mine : ~IsAway(t, entry[e].day, entry[e].period)
    BY DEF WorkloadKept
  <2>2. TypeOK /\ LoadInv /\ PresentInv
    BY <2>1 DEF TimetableInv, BaseInv, CheckedInv
  <2>3. PICK S \in SUBSET EntryIds : S = Checked
    BY <2>2 DEF TypeOK, Checked, Placed
  <2>4. mine \in SUBSET S /\ mine \in SUBSET EntryIds
    BY <2>1, <2>3 DEF Checked
  <2>5. /\ WeekLoad(t, mine) <= WeekLoad(t, S)
        /\ \A d : Load(t, d, mine) <= Load(t, d, S)
    BY <2>4, LoadOfFewer
  <2>6. /\ WeekLoad(t, mine) \in Nat /\ WeekLoad(t, S) \in Nat
        /\ \A d : Load(t, d, mine) \in Nat /\ Load(t, d, S) \in Nat
    BY <2>4, LoadTyped
  <2>7. WeekLoad(t, S) <= MaxPerWeek /\ \A d \in Days : Load(t, d, S) <= MaxPerDay
    BY <2>2, <2>3 DEF LoadInv
  <2>8. WeekLoad(t, mine) <= MaxPerWeek /\ \A d \in Days : Load(t, d, mine) <= MaxPerDay
    BY <2>5, <2>6, <2>7, NoGreater, TimetableAssumption
  <2>9. ASSUME NEW e \in mine PROVE ~IsAway(t, entry[e].day, entry[e].period)
    <3>1. PICK x \in Entry : x = entry[e]
      BY <2>1, <2>2, RowsTyped
    <3>2. e \in Checked /\ t \in TeachersOf(x)
      BY <2>1, <3>1 DEF Checked
    <3> QED BY <2>2, <3>1, <3>2 DEF PresentInv
  <2> QED BY <2>8, <2>9
<1> QED BY <1>1, TimetableInvAlways, PTL

-----------------------------------------------------------------------------
(* What a deletion takes.                                                  *)

(* A call that runs is moved on by its own steps alone. *)
LEMMA OwnStep ==
  ASSUME TypeOK, NEW k \in Calls, Busy(k), call'[k] # call[k], [Next]_vars
  PROVE  Step(k)
<1>1. ASSUME NEW j \in Calls, NEW todo, call' = [call EXCEPT ![j] = todo] PROVE j = k
  BY <1>1 DEF TypeOK
<1>2. ASSUME NEW j \in Calls, Step(j) PROVE j = k
  <2>1. CASE ~CopyNext(j) /\ ~InsertBox(j) /\ ~Remove(j) /\ ~GetPeriodsAgain(j)
    <3>1. Ends(j)
      BY <1>2, <2>1 DEF Step, InsertPeriods, SavePeriod, DropPeriods, SaveEntry, CutOff
    <3> QED BY <1>1, <3>1 DEF Ends, Goes
  <2>2. CASE CopyNext(j)
    BY <1>1, <2>2, CopyGoes DEF Goes
  <2>3. CASE GetPeriodsAgain(j)
    BY <1>1, <2>3 DEF GetPeriodsAgain, Goes, Ends
  <2>4. CASE Remove(j)
    BY <1>1, <2>4 DEF Remove, Goes, Ends
  <2>5. CASE InsertBox(j)
    BY <1>1, <2>5 DEF InsertBox, Goes, Ends
  <2> QED BY <2>1, <2>2, <2>3, <2>4, <2>5
<1>3. ASSUME NEW j \in Calls, ~Busy(j), NEW todo, call' = [call EXCEPT ![j] = todo] PROVE FALSE
  BY <1>1, <1>3
<1>4. ASSUME NEW j \in Calls, BeginPeriods(j) PROVE FALSE
  BY <1>3, <1>4 DEF BeginPeriods, CreatePeriod, UpdatePeriod, GenerateSchoolDaySchedule,
                    DeletePeriod, ReorderPeriod, GetPeriods, Begins
<1>5. ASSUME NEW j \in Calls, BeginEntries(j) PROVE FALSE
  BY <1>3, <1>5 DEF BeginEntries, CreateTimetableEntry, UpdateTimetableEntry, CopyDayLayout,
                    CloneClassTimetable, DeleteTimetableEntry, Begins
<1>6. ASSUME Around PROVE FALSE
  <2>1. Passing
    BY <1>6, AroundCases DEF InitDefaultPeriods, ChangeClassTeacher, DeleteRoom, SetAvailability
  <2> QED BY <2>1 DEF Passing
<1> QED BY <1>2, <1>4, <1>5, <1>6 DEF Next, vars

LEMMA PruneStep ==
  ASSUME TimetableInv, [Next]_vars, NEW k \in Calls,
         call[k].pc = "prune", call'[k].pc = "idle", period' # period,
         \A i \in PeriodIds \ call[k].ids :
            call[k].read[i] # NoPeriod => period[i] = call[k].read[i],
         NEW j \in call[k].ids, period[j] = call[k].read[j]
  PROVE  \E i \in PeriodIds : period'[i] # NoPeriod /\ Kind(period'[i]) = Kind(period[j])
<1>1. TypeOK
  BY DEF TimetableInv, BaseInv
<1>2. PICK c \in Call : c = call[k]
  BY <1>1, CallTyped
<1>3. Step(k)
  <2>1. Busy(k) /\ call'[k] # call[k]
    BY DEF Busy
  <2> QED BY <1>1, <2>1, OwnStep
<1>4. DropPeriods(k) \/ CutOff(k)
  BY <1>3 DEF Step, InsertPeriods, SavePeriod, GetPeriodsAgain, InsertBox, CopyNext, SaveEntry,
              Remove
<1>5. DropPeriods(k)
  BY <1>4 DEF CutOff, tables
<1>6. PICK S : S = c.ids
  OBVIOUS
<1>7. S \in SUBSET PeriodIds /\ Drop(S)
  BY <1>1, <1>2, <1>5, <1>6, CallTyped DEF DropPeriods
<1>8. PICK i \in PeriodIds \ S : c.read[i] # NoPeriod /\ Kind(c.read[i]) = Kind(c.read[j])
  <2>1. PruneFits(c)
    BY <1>2 DEF TimetableInv, BaseInv, CallsFit
  <2> QED BY <1>2, <1>6, <2>1 DEF PruneFits
<1>9. period[i] = c.read[i] /\ period[j] = c.read[j]
  BY <1>2, <1>6, <1>8
<1>10. period'[i] = period[i]
  BY <1>1, <1>7, Dropped
<1> QED BY <1>8, <1>9, <1>10

LEMMA RemoveStep ==
  ASSUME TimetableInv, [Next]_vars, NEW k \in Calls, NEW e \in EntryIds, NEW f \in EntryIds,
         call[k].pc = "remove", call[k].id = e, k \in alone,
         entry[e] # NoEntry, entry'[e] = NoEntry, {e, f} \in twins, f # e, f \in Placed
  PROVE  ~NextTo(e, f)
<1>1. TypeOK /\ e \in Placed
  BY DEF TimetableInv, BaseInv, Placed
<1>2. PICK c \in Call : c = call[k]
  BY <1>1, CallTyped
<1>3. RemoveReady(c)
  BY <1>2 DEF TimetableInv, LoneInv, Ready
<1>4. \A j \in Calls : j # k => ~Busy(j)
  BY DEF TimetableInv, BaseInv, AloneInv
<1>5. Busy(k)
  BY DEF Busy
<1>6. ASSUME NEW j \in Calls, Step(j) PROVE j = k
  <2>1. Busy(j)
    BY <1>6 DEF Step, InsertPeriods, SavePeriod, DropPeriods, GetPeriodsAgain, InsertBox, CopyNext,
                SaveEntry, Remove, CutOff, Busy
  <2> QED BY <1>4, <2>1
<1>7. entry' # entry
  OBVIOUS
<1>8. ASSUME NEW j \in Calls, BeginPeriods(j) PROVE FALSE
  BY <1>7, <1>8 DEF BeginPeriods, CreatePeriod, UpdatePeriod, GenerateSchoolDaySchedule,
                    DeletePeriod, ReorderPeriod, GetPeriods, Begins, tables
<1>9. ASSUME NEW j \in Calls, BeginEntries(j) PROVE FALSE
  BY <1>7, <1>9 DEF BeginEntries, CreateTimetableEntry, UpdateTimetableEntry, CopyDayLayout,
                    CloneClassTimetable, DeleteTimetableEntry, Begins, tables
<1>10. ASSUME Around PROVE FALSE
  <2>1. ASSUME NEW r \in Rooms, DeleteRoom(r) PROVE FALSE
    <3>1. Placed' = Placed
      BY <1>1, <2>1, RoomDeleted
    <3> QED BY <1>1, <3>1 DEF Placed
  <2> QED BY <1>1, <1>7, <1>10, <2>1, AroundCases
          DEF InitDefaultPeriods, ChangeClassTeacher, SetAvailability
<1>11. Step(k)
  BY <1>6, <1>7, <1>8, <1>9, <1>10 DEF Next, vars, tables
<1>12. Remove(k)
  BY <1>7, <1>11 DEF Step, InsertPeriods, SavePeriod, DropPeriods, GetPeriodsAgain, InsertBox,
                     CopyNext, SaveEntry, CutOff, tables
<1>13. PICK g \in EntryIds :
         /\ c.partners = {} => g = c.id
         /\ c.partners # {} => g \in c.partners
         /\ \A h \in EntryIds \ {g} : entry'[h] = entry[h]
  BY <1>1, <1>2, <1>12, Removed
<1>14. g = e
  BY <1>13
<1>15. c.partners = {}
  BY <1>2, <1>3, <1>13, <1>14 DEF RemoveReady
<1> QED BY <1>1, <1>2, <1>3, <1>15 DEF RemoveReady

(* A read that prunes leaves one period of each kind it deletes from, and  *)
(* a deletion that runs alone leaves no half of a double period whose      *)
(* boxes are next to another.                                              *)
THEOREM DeletionsTakeTheirsAlways == Spec => DeletionsTakeTheirs
<1>1. TimetableInv /\ [Next]_vars =>
        [\A k \in Calls :
           /\ call[k].pc = "prune" /\ call'[k].pc = "idle" /\ period' # period
           /\ \A i \in PeriodIds \ call[k].ids :
                call[k].read[i] # NoPeriod => period[i] = call[k].read[i]
           => \A j \in call[k].ids : period[j] = call[k].read[j] =>
                \E i \in PeriodIds : /\ period'[i] # NoPeriod
                                     /\ Kind(period'[i]) = Kind(period[j])]_vars
  BY PruneStep
<1>2. TimetableInv /\ [Next]_vars =>
        [\A k \in Calls, e, f \in EntryIds :
           /\ call[k].pc = "remove" /\ call[k].id = e /\ k \in alone
           /\ entry[e] # NoEntry /\ entry'[e] = NoEntry
           /\ {e, f} \in twins /\ f # e
           /\ f \in Placed
           => LET a == period[entry[e].period].order
                  b == period[entry[f].period].order
              IN  a # b + 1 /\ b # a + 1]_vars
  BY RemoveStep DEF NextTo, OrderOf
<1>3. Spec => PruneKeepsOne
  BY <1>1, TimetableInvAlways, PTL DEF Spec, PruneKeepsOne
<1>4. Spec => DoubleGoesWhole
  BY <1>2, TimetableInvAlways, PTL DEF Spec, DoubleGoesWhole
<1> QED BY <1>3, <1>4 DEF DeletionsTakeTheirs
=============================================================================
