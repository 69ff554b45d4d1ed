------------------------ MODULE MCScheduleGenerator ------------------------
(* ScheduleGenerator for TLC: a day that closes at MaxMinutes and periods  *)
(* of two minutes; every list of up to two blocks, malformed ones too, and *)
(* every list of three blocks that are well formed.                        *)
EXTENDS ScheduleGenerator

CONSTANTS MaxMinutes, MaxDuration

BlockChoices(durations, afters, times) ==
  [duration : durations, placement : {"BEFORE_TEACHING"}, after : {0}, at : {NoTime}]
    \cup [duration : durations, placement : {"AFTER_PERIOD"}, after : afters, at : {NoTime}]
    \cup [duration : durations, placement : {"AT_TIME"}, after : {0}, at : times]

AnyBlock == BlockChoices(0 .. MaxDuration, 0 .. 2, {NoTime} \cup 0 .. MaxMinutes)
GoodBlock == BlockChoices(1 .. MaxDuration, 1 .. 2, 1 .. MaxMinutes)
ListsOf(choices, n) == [1 .. n -> choices]

MCInputs ==
  [start : {1}, end : {1, MaxMinutes}, teaching : {0, 2},
   blocks : UNION {ListsOf(AnyBlock, n) : n \in 0 .. 2}, unallocated : BOOLEAN]
    \cup
  [start : {1}, end : {MaxMinutes}, teaching : {2},
   blocks : ListsOf(GoodBlock, 3), unallocated : BOOLEAN]
=============================================================================
