---------------------------- MODULE MCTimetable ----------------------------
(* Two classes that share teacher Ada and a room; two periods a day, for   *)
(* both classes or one for each.                                           *)
EXTENDS Timetable, TLC

CONSTANTS k1, k2, A, B, Ada, hall

Slot(start, end, order, day, classes) ==
  [name |-> "lesson", start |-> start, end |-> end, order |-> order, day |-> day,
   classes |-> classes, active |-> TRUE]

MCShapes == {Slot(1, 3, 1, 0, {B}), Slot(3, 5, 3, 1, {})}
MCSchedules == {{Slot(5, 7, 3, 0, {})}}
MCDefaultSlots == {Slot(1, 3, 1, 0, {})}

MCTables ==
  LET Table(p, q) == [i \in PeriodIds |-> IF i = 1 THEN p ELSE IF i = 2 THEN q ELSE NoPeriod]
  IN  {Table(Slot(1, 3, 1, 0, {}), Slot(3, 5, 2, 0, {})),
       Table(Slot(1, 3, 1, 0, {A}), Slot(2, 4, 2, 0, {B}))}

Wish(class, lead, byClass, room, slot, double) ==
  [class |-> class, subject |-> "maths", lead |-> lead,
   staff |-> IF lead = NoOne THEN {} ELSE {lead}, byClass |-> byClass, room |-> room,
   day |-> 1, period |-> slot, double |-> double]
MCWishes == {Wish(A, Ada, FALSE, hall, 1, FALSE), Wish(B, NoOne, TRUE, NoRoom, 2, FALSE),
             Wish(B, Ada, FALSE, hall, 1, FALSE), Wish(A, Ada, FALSE, NoRoom, 1, TRUE)}
MCFirstTeachers == (A :> NoOne) @@ (B :> Ada)
MCSlots == {<<Ada, 1, 1>>}
MCTooSmall == {}

CallSymmetry == Permutations({k1, k2})
=============================================================================
