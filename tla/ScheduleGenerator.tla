-------------------------- MODULE ScheduleGenerator --------------------------
(***************************************************************************)
(* How a school day is divided into periods and breaks:                    *)
(* src/src/timetable/services/schedule-generator.service.ts, the loop that *)
(* previewSchoolDaySchedule shows and generateSchoolDaySchedule saves.     *)
(*                                                                         *)
(* A behaviour is one call of generate on one input.  Times are minutes of *)
(* the day; a block of the result is [source, start, end], where source is *)
(* the index of the configured block it comes from, or Teaching, or Gap.   *)
(* Errors are counted as one: `failed' says that the result is not valid.  *)
(***************************************************************************)
EXTENDS Integers, Sequences, FiniteSets

CONSTANT Inputs   \* the configurations generate is called with

Teaching == 0     \* the source of a teaching period
Gap == -1         \* the source of `Unallocated time'
NoTime == -1      \* atTime was left out

Placements == {"BEFORE_TEACHING", "AFTER_PERIOD", "AT_TIME"}
ScheduleBlockConfig == [duration : Int, placement : Placements, after : Int, at : Int]
GenerateScheduleInput == [start : Nat, end : Nat, teaching : Int,
                          blocks : Seq(ScheduleBlockConfig), unallocated : BOOLEAN]
GeneratedScheduleBlock == [source : Int, start : Int, end : Int]

ASSUME InputsAssumption == Inputs \subseteq GenerateScheduleInput

VARIABLES
  input,
  blocks,     \* generated
  cursor,     \* the end of the last block
  periods,    \* periodNumber
  timed,      \* the indices of the timed blocks not yet placed
  next,       \* the configured block a scan has come to
  failed,     \* errors.length > 0
  pc

dayVars == <<input, blocks, cursor, periods, timed, next, failed, pc>>

Configured == input.blocks
Indices == 1 .. Len(Configured)

DayTypeOK ==
  /\ input \in Inputs
  /\ blocks \in Seq(GeneratedScheduleBlock)
  /\ cursor \in Int
  /\ periods \in 0 .. Len(blocks)
  /\ timed \subseteq Indices
  /\ next \in 1 .. Len(Configured) + 1
  /\ failed \in BOOLEAN
  /\ pc \in {"start", "before", "loop", "after", "end", "done"}

DayInit ==
  /\ input \in Inputs
  /\ blocks = <<>>
  /\ cursor = input.start
  /\ periods = 0
  /\ timed = {}
  /\ next = 1
  /\ failed = FALSE
  /\ pc = "start"

addBlock(source, start, duration) ==
  blocks' = Append(blocks, [source |-> source, start |-> start,
                            end |-> start + duration])

WellFormed(b) ==
  /\ b.duration > 0
  /\ b.placement = "AFTER_PERIOD" => b.after >= 1
  /\ b.placement = "AT_TIME" => b.at # NoTime

TimedEnd(i) == Configured[i].at + Configured[i].duration

(* No two timed blocks overlap, and all fit within school hours.           *)
TimedWithinHours ==
  \A i \in timed : input.start <= Configured[i].at /\ TimedEnd(i) <= input.end
TimedFit ==
  /\ TimedWithinHours
  /\ \A i, j \in timed :
       i # j => TimedEnd(i) <= Configured[j].at \/ TimedEnd(j) <= Configured[i].at

(* The first timed block that is left, and how far a period may extend.    *)
Earliest == CHOOSE i \in timed :
              \A j \in timed : Configured[i].at <= Configured[j].at
Boundary == IF timed = {} THEN input.end ELSE Configured[Earliest].at
NothingDue == timed # {} => Configured[Earliest].at > cursor

-----------------------------------------------------------------------------
(* School hours and the duration of a period; then every block by itself.  *)
CheckInput ==
  /\ pc = "start"
  /\ IF input.end <= input.start \/ input.teaching <= 0
     THEN failed' = TRUE /\ pc' = "done" /\ UNCHANGED timed
     ELSE /\ failed' = \E i \in Indices : ~WellFormed(Configured[i])
          /\ timed' = {i \in Indices : /\ Configured[i].placement = "AT_TIME"
                                       /\ Configured[i].at # NoTime}
          /\ pc' = "before"
  /\ UNCHANGED <<input, blocks, cursor, periods, next>>

PlaceBeforeTeaching ==
  /\ pc = "before" /\ next \in Indices
  /\ IF Configured[next].placement = "BEFORE_TEACHING"
     THEN /\ addBlock(next, cursor, Configured[next].duration)
          /\ cursor' = cursor + Configured[next].duration
     ELSE UNCHANGED <<blocks, cursor>>
  /\ next' = next + 1
  /\ UNCHANGED <<input, periods, timed, failed, pc>>

(* Blocks that are malformed, or timed blocks that do not fit, end it.     *)
CheckTimed ==
  /\ pc = "before" /\ next \notin Indices
  /\ IF failed \/ ~TimedFit
     THEN failed' = TRUE /\ pc' = "done"
     ELSE pc' = "loop" /\ UNCHANGED failed
  /\ UNCHANGED <<input, blocks, cursor, periods, timed, next>>

(* while (cursor < schoolEnd)                                              *)
Looping == pc = "loop" /\ cursor < input.end

OverlapEarlier ==
  /\ Looping
  /\ timed # {} /\ Configured[Earliest].at < cursor
  /\ failed' = TRUE
  /\ pc' = "end"
  /\ UNCHANGED <<input, blocks, cursor, periods, timed, next>>

PlaceTimed ==
  /\ Looping
  /\ timed # {} /\ Configured[Earliest].at = cursor
  /\ addBlock(Earliest, cursor, Configured[Earliest].duration)
  /\ cursor' = TimedEnd(Earliest)
  /\ timed' = timed \ {Earliest}
  /\ UNCHANGED <<input, periods, next, failed, pc>>

(* Too short for a period: a shorter one, or unallocated time.             *)
FillGapIfPeriod ==
  /\ Looping /\ NothingDue
  /\ Boundary - cursor < input.teaching
  /\ IF input.unallocated
     THEN /\ periods' = periods + 1
          /\ addBlock(Teaching, cursor, Boundary - cursor)
          /\ cursor' = Boundary
     ELSE UNCHANGED <<periods, blocks, cursor>>
  /\ UNCHANGED <<input, timed, next, failed, pc>>
FillGap ==
  /\ Looping /\ NothingDue
  /\ Boundary - cursor < input.teaching
  /\ IF input.unallocated
     THEN periods' = periods + 1 /\ addBlock(Teaching, cursor, Boundary - cursor)
     ELSE UNCHANGED periods /\ addBlock(Gap, cursor, Boundary - cursor)
  /\ cursor' = Boundary
  /\ UNCHANGED <<input, timed, next, failed, pc>>

PlacePeriod ==
  /\ Looping /\ NothingDue
  /\ Boundary - cursor >= input.teaching
  /\ periods' = periods + 1
  /\ addBlock(Teaching, cursor, input.teaching)
  /\ cursor' = cursor + input.teaching
  /\ next' = 1
  /\ pc' = "after"
  /\ UNCHANGED <<input, timed, failed>>

(* The blocks placed after the period just placed; one that does not fit   *)
(* before closing time is an error, and the scan goes on.                  *)
PlacedAfter == {i \in Indices : /\ Configured[i].placement = "AFTER_PERIOD"
                                /\ Configured[i].after = periods}
PlaceAfterUnbounded ==
  /\ pc = "after" /\ next \in Indices
  /\ IF next \in PlacedAfter
     THEN /\ addBlock(next, cursor, Configured[next].duration)
          /\ cursor' = cursor + Configured[next].duration
     ELSE UNCHANGED <<blocks, cursor>>
  /\ next' = next + 1
  /\ UNCHANGED <<input, periods, timed, failed, pc>>
PlaceAfter ==
  /\ pc = "after" /\ next \in Indices
  /\ LET end == cursor + Configured[next].duration
     IN  \/ /\ next \in PlacedAfter /\ end <= input.end
            /\ addBlock(next, cursor, Configured[next].duration)
            /\ cursor' = end
            /\ UNCHANGED failed
         \/ /\ next \in PlacedAfter /\ end > input.end
            /\ failed' = TRUE
            /\ UNCHANGED <<blocks, cursor>>
         \/ next \notin PlacedAfter /\ UNCHANGED <<blocks, cursor, failed>>
  /\ next' = next + 1
  /\ UNCHANGED <<input, periods, timed, pc>>

GoOn ==
  /\ pc = "after" /\ next \notin Indices
  /\ pc' = "loop"
  /\ UNCHANGED <<input, blocks, cursor, periods, timed, next, failed>>

LeaveLoop ==
  /\ pc = "loop" /\ cursor >= input.end
  /\ pc' = "end"
  /\ UNCHANGED <<input, blocks, cursor, periods, timed, next, failed>>

ResultWithoutTimed ==
  /\ pc = "end"
  /\ failed' = \/ failed
               \/ \E i \in Indices : /\ Configured[i].placement = "AFTER_PERIOD"
                                     /\ Configured[i].after > periods
               \/ periods = 0
  /\ pc' = "done"
  /\ UNCHANGED <<input, blocks, cursor, periods, timed, next>>
Result ==
  /\ pc = "end"
  /\ failed' = \/ failed
               \/ \E i \in Indices : /\ Configured[i].placement = "AFTER_PERIOD"
                                     /\ Configured[i].after > periods
               \/ periods = 0
               \/ timed # {}
  /\ pc' = "done"
  /\ UNCHANGED <<input, blocks, cursor, periods, timed, next>>

DayNext ==
  \/ CheckInput \/ PlaceBeforeTeaching \/ CheckTimed
  \/ OverlapEarlier \/ PlaceTimed \/ FillGap \/ PlacePeriod
  \/ PlaceAfter \/ GoOn
  \/ LeaveLoop \/ Result

DaySpec == DayInit /\ [][DayNext]_dayVars

(* generate is synchronous: once called it runs to its return.             *)
FairDaySpec == DaySpec /\ WF_dayVars(DayNext)

-----------------------------------------------------------------------------
(* What should hold.                                                       *)

Valid == pc = "done" /\ ~failed

(* The blocks lie end to end from the opening of the school, up to the     *)
(* cursor: no overlap and no hole, whichever branch placed them.           *)
Contiguous ==
  /\ \A n \in 1 .. Len(blocks) :
       blocks[n].start = IF n = 1 THEN input.start ELSE blocks[n - 1].end
  /\ cursor = IF blocks = <<>> THEN input.start ELSE blocks[Len(blocks)].end

(* A valid schedule fills the school day to its last minute, not beyond,   *)
(* and has a teaching period.                                              *)
ValidCoversDay ==
  Valid => cursor = input.end /\ blocks # <<>> /\ periods > 0

(* Together: a valid schedule cuts the whole school day into blocks.       *)
DayIsCut == Contiguous /\ ValidCoversDay

(* In a valid schedule every configured block is there once, in its place: *)
(* ahead of the first period, at its time, or directly behind its period   *)
(* and the blocks configured for that period too.  The exception is a      *)
(* block after a period that was made of time left over, which the loop    *)
(* leaves by `continue' before it looks for such blocks.                   *)
PlacesOf(i) == {n \in 1 .. Len(blocks) : blocks[n].source = i}
PeriodsUpTo(n) == Cardinality({j \in 1 .. n : blocks[j].source = Teaching})
Shortened(p) == \E n \in 1 .. Len(blocks) :
                  /\ blocks[n].source = Teaching /\ PeriodsUpTo(n) = p
                  /\ blocks[n].end - blocks[n].start < input.teaching
RightBehind(i, n) ==
  /\ PeriodsUpTo(n) = Configured[i].after
  /\ LET before == blocks[n - 1].source
     IN  before \in {Teaching} \cup {j \in Indices :
           /\ Configured[j].placement = "AFTER_PERIOD"
           /\ Configured[j].after = Configured[i].after}
InPlace(i, n) ==
  CASE Configured[i].placement = "BEFORE_TEACHING" -> PeriodsUpTo(n) = 0
    [] Configured[i].placement = "AT_TIME" -> blocks[n].start = Configured[i].at
    [] Configured[i].placement = "AFTER_PERIOD" -> RightBehind(i, n)
EveryBlockPlaced ==
  Valid => \A i \in Indices :
             \/ Cardinality(PlacesOf(i)) = 1 /\ \A n \in PlacesOf(i) : InPlace(i, n)
             \/ /\ Configured[i].placement = "AFTER_PERIOD"
                /\ Shortened(Configured[i].after) /\ PlacesOf(i) = {}

(* The loop ends, whatever the configuration.                              *)
Terminates == <>(pc = "done")
=============================================================================
