----------------------------- MODULE Timetable -----------------------------
(***************************************************************************)
(* Periods and timetable entries of one school and term, in                *)
(* src/src/timetable/services/timetable.service.ts with the rules of       *)
(* conflict-validator.service.ts.                                          *)
(*                                                                         *)
(* No rule of the timetable stands in the database: a call reads what is   *)
(* there, checks, and writes in a later statement, or in several.  A call  *)
(* here is its check, at one moment, and then one step per statement.      *)
(* Only two things are enforced by PostgreSQL: an entry needs its period   *)
(* and room (a foreign key), and goes when its period goes (CASCADE).      *)
(* A refused call changes nothing and is not a step.                       *)
(***************************************************************************)
EXTENDS Naturals, FiniteSets, Sequences, Functions

CONSTANTS
  Calls,          \* slots in which calls run concurrently
  Classes, Teachers, NoOne, Rooms, NoRoom,
  Days,           \* days of the week that are asked for, not 0
  Shapes,         \* periods an administrator may ask for
  Schedules,      \* results of ScheduleGenerator: sets of blocks for one day
  DefaultSlots,   \* the slots of initDefaultPeriods
  Wishes,         \* entries a user may ask for
  FirstTables,    \* the period tables a term may begin with
  Slots,          \* <<teacher, day, period>> for which availability is submitted
  FirstTeachers,  \* the class teachers it begins with
  TooSmall,       \* <<room, class>>: more students than the room's capacity
  MaxPerDay, MaxPerWeek,   \* teaching load of every teacher
  MaxPeriods, MaxEntries,  \* bounds: ids of periods and entries
  MaxCalls        \* bound: calls begun

PeriodIds == 1 .. MaxPeriods
EntryIds == 1 .. MaxEntries

(* day = 0: every day; classes = {}: every class. *)
Period == [name : STRING, start : Nat, end : Nat, order : Nat, day : {0} \cup Days,
           classes : SUBSET Classes, active : BOOLEAN]
Entry == [class : Classes, subject : STRING, lead : Teachers \cup {NoOne},
          staff : SUBSET Teachers, byClass : BOOLEAN, room : Rooms \cup {NoRoom},
          day : Days, period : PeriodIds, double : BOOLEAN]

Availability == [day : Days, period : PeriodIds, unavailable : BOOLEAN,
                 approval : {"PENDING", "APPROVED", "REJECTED"}]

NoPeriod == [name |-> "none"]
NoEntry == [subject |-> "none"]

(* The periods that may not overlap are those for one class on one day.    *)
OnOneDay(p, q) == p.day = 0 \/ q.day = 0 \/ p.day = q.day
ForOneClass(p, q) == p.classes = {} \/ q.classes = {} \/ p.classes \cap q.classes # {}
Overlap(p, q) == p.start < q.end /\ p.end > q.start
Apart(p, q) == OnOneDay(p, q) /\ ForOneClass(p, q) => ~Overlap(p, q)

(* The blocks of a generated day do not overlap: they lie end to end.      *)
ASSUME TimetableAssumption ==
  /\ 0 \notin Days /\ Days \subseteq Nat
  /\ NoOne \notin Teachers /\ NoRoom \notin Rooms
  /\ Shapes \subseteq Period /\ DefaultSlots \subseteq Period
  /\ Schedules \subseteq SUBSET Period
  /\ \A blocks \in Schedules : \A p, q \in blocks : p # q => ~Overlap(p, q)
  /\ Wishes \subseteq Entry
  /\ Slots \subseteq Teachers \X Days \X PeriodIds
  /\ FirstTables \subseteq [PeriodIds -> Period \cup {NoPeriod}]
  /\ \A table \in FirstTables : \A i, j \in {m \in PeriodIds : table[m] # NoPeriod} :
       i # j /\ table[i].active /\ table[j].active => Apart(table[i], table[j])
  /\ FirstTeachers \in [Classes -> Teachers \cup {NoOne}]
  /\ MaxPerDay \in Nat /\ MaxPerWeek \in Nat /\ MaxCalls \in Nat
  /\ MaxPeriods \in Nat /\ MaxEntries \in Nat

VARIABLES
  period,        \* period[i]: the periods row, or NoPeriod
  lastPeriod,    \* the youngest id; rows are made in the order of their ids
  entry,         \* entry[e]: the timetable_entries row, or NoEntry
  lastEntry,
  classTeacher,  \* classTeacher[c]: classes.classTeacherId
  rooms,         \* rooms that exist
  away,          \* away[t]: the teacher_availabilities rows of teacher t
  call,          \* call[k]: what the call in slot k still has to do
  begun,         \* how many calls were begun
  \* history
  alone,         \* calls that no other call has overlapped so far
  sound,         \* periods whose times were checked by a call that ran alone
  vetted,        \* entries that were checked by a call that ran alone, in periods
                 \* and with teachers that did not change since
  forced,        \* entries placed with allowOverride
  twins          \* {e, f}: two boxes of one double period, placed by a call that ran
                 \* alone and as they were placed

tables == <<period, lastPeriod, entry, lastEntry, classTeacher, rooms, away>>
history == <<sound, vetted, forced, twins>>
vars == <<tables, call, begun, alone, history>>

Idle == [pc |-> "idle"]
Busy(k) == call[k].pc # "idle"

Live == {i \in PeriodIds : period[i] # NoPeriod}
Placed == {e \in EntryIds : entry[e] # NoEntry}

(* A call may begin; every other one running stops being alone. *)
Begins(k, todo) ==
  /\ ~Busy(k) /\ begun < MaxCalls
  /\ begun' = begun + 1
  /\ call' = [call EXCEPT ![k] = todo]
  /\ alone' = IF \E j \in Calls : Busy(j) THEN {} ELSE {k}
  /\ UNCHANGED <<tables, history>>

(* A statement that is a call of its own; it overlaps those that run. *)
Passing ==
  /\ begun < MaxCalls /\ begun' = begun + 1
  /\ alone' = {}
  /\ UNCHANGED call

Goes(k, todo) == call' = [call EXCEPT ![k] = todo] /\ UNCHANGED <<begun, alone>>
Ends(k) == Goes(k, Idle)

(* The call is cut off: an exception, an error of the database, a restart. *)
CutOff(k) == Busy(k) /\ Ends(k) /\ UNCHANGED <<tables, history>>

-----------------------------------------------------------------------------
(* Periods.                                                                *)

(* validatePeriodTime: start before end, and no overlap with an active     *)
(* period but the one being changed.  A day's opening hours, which no      *)
(* property is about, are part of which Shapes are asked for.              *)
TimeIsFree(p, except) ==
  /\ p.start < p.end
  /\ \A i \in Live \ except : period[i].active => Apart(p, period[i])

CreatePeriod(k, p) ==
  /\ p.active /\ TimeIsFree(p, {})
  /\ Begins(k, [pc |-> "insert periods", rows |-> {p}])

UpdatePeriod(k, i, p) ==
  /\ i \in Live /\ TimeIsFree(p, {i})
  /\ Begins(k, [pc |-> "save period", id |-> i, row |-> p])

(* generateSchoolDaySchedule: nothing may be there yet on these days and   *)
(* for these classes, neither periods nor entries.                         *)
RowOf(b, d, classes) == [b EXCEPT !.day = d, !.classes = classes]
RowsOf(blocks, days, classes) == {RowOf(b, d, classes) : b \in blocks, d \in days}
GenerateSchoolDaySchedule(k, blocks, days, classes) ==
  /\ \A i \in Live : period[i].active =>
       \/ period[i].day \notin days \cup {0}
       \/ ~ForOneClass(period[i], [classes |-> classes])
  /\ \A e \in Placed :
       entry[e].day \notin days \/ (classes # {} /\ entry[e].class \notin classes)
  /\ Begins(k, [pc |-> "insert periods", rows |-> RowsOf(blocks, days, classes)])

(* All rows are inserted by one transaction, under the ids that follow. *)
Install(rows) ==
  \E n \in lastPeriod .. MaxPeriods : \E id \in Bijection(rows, lastPeriod + 1 .. n) :
    /\ period' = [i \in PeriodIds |-> IF i \in lastPeriod + 1 .. n
                                      THEN CHOOSE p \in rows : id[p] = i ELSE period[i]]
    /\ lastPeriod' = n
InsertPeriods(k) ==
  /\ call[k].pc = "insert periods"
  /\ Install(call[k].rows)
  /\ sound' = sound \cup IF k \in alone THEN lastPeriod + 1 .. lastPeriod' ELSE {}
  /\ Ends(k)
  /\ UNCHANGED <<entry, lastEntry, classTeacher, rooms, away, vetted, forced, twins>>

(* initDefaultPeriods: no check. *)
InitDefaultPeriods ==
  /\ Install(DefaultSlots)
  /\ Passing
  /\ UNCHANGED <<entry, lastEntry, classTeacher, rooms, away, history>>

(* Repository.save of the object read earlier: all of its columns, and an  *)
(* insert under the old id if the row is gone.                             *)
SavePeriod(k) ==
  LET i == call[k].id
  IN  /\ call[k].pc = "save period"
      /\ period' = [period EXCEPT ![i] = call[k].row]
      /\ sound' = IF k \in alone THEN sound \cup {i} ELSE sound \ {i}
      /\ vetted' = {e \in vetted : entry[e].period # i}
      /\ Ends(k)
      /\ UNCHANGED <<lastPeriod, entry, lastEntry, classTeacher, rooms, away, forced, twins>>

(* The periods in S go, and the entries in them. *)
DropAlone(S) ==
  /\ period' = [i \in PeriodIds |-> IF i \in S THEN NoPeriod ELSE period[i]]
  /\ sound' = sound \ S
  /\ UNCHANGED <<entry, away, vetted, lastPeriod, lastEntry, classTeacher, rooms, forced, twins>>
Drop(S) ==
  LET gone == {e \in Placed : entry[e].period \in S}
  IN  /\ period' = [i \in PeriodIds |-> IF i \in S THEN NoPeriod ELSE period[i]]
      /\ entry' = [e \in EntryIds |-> IF e \in gone THEN NoEntry ELSE entry[e]]
      /\ away' = [t \in Teachers |-> {a \in away[t] : a.period \notin S}]
      /\ sound' = sound \ S
      /\ vetted' = vetted \ gone
      /\ UNCHANGED <<lastPeriod, lastEntry, classTeacher, rooms, forced, twins>>

(* deletePeriod: the period, or all that look like it on whatever day. *)
DeletePeriod(k, i, group) ==
  LET Look(p) == [p EXCEPT !.day = 0, !.active = TRUE]
  IN  /\ i \in Live
      /\ Begins(k, [pc |-> "drop periods", ids |->
           IF group THEN {j \in Live : Look(period[j]) = Look(period[i])} ELSE {i}])

(* reorderPeriods: one update; then the periods are read. *)
ReorderPeriod(k, i, order) ==
  /\ i \in Live
  /\ ~Busy(k) /\ begun < MaxCalls /\ begun' = begun + 1
  /\ period' = [period EXCEPT ![i].order = order]
  /\ call' = [call EXCEPT ![k] = [pc |-> "get periods"]]
  /\ alone' = {}
  /\ UNCHANGED <<lastPeriod, entry, lastEntry, classTeacher, rooms, away, history>>

(* getPeriods: of the rows alike but for their order, all but the first in *)
(* (orderIndex, createdAt) are deleted in the background.                  *)
Kind(p) == [p EXCEPT !.order = 0, !.active = TRUE]
Earlier(i, j) == \/ period[i].order < period[j].order
                 \/ period[i].order = period[j].order /\ i < j
Duplicates == {j \in Live : \E i \in Live : Kind(period[i]) = Kind(period[j]) /\ Earlier(i, j)}

GetPeriods(k) ==
  /\ Duplicates # {}
  /\ Begins(k, [pc |-> "prune", ids |-> Duplicates, read |-> period])
GetPeriodsAgain(k) ==
  /\ call[k].pc = "get periods"
  /\ IF Duplicates = {} THEN Ends(k)
     ELSE Goes(k, [pc |-> "prune", ids |-> Duplicates, read |-> period])
  /\ UNCHANGED <<tables, history>>

DropPeriods(k) == call[k].pc \in {"drop periods", "prune"} /\ Drop(call[k].ids) /\ Ends(k)

-----------------------------------------------------------------------------
(* The rules an entry must keep (validateSlot), against what is there now. *)

TeachersOf(x) == x.staff \cup ({x.lead, IF x.byClass THEN classTeacher[x.class] ELSE NoOne}
                               \ {NoOne})

Meets(x, y) == x.day = y.day /\ Overlap(period[x.period], period[y.period])
Clash(x, y) == /\ Meets(x, y)
               /\ \/ x.class = y.class
                  \/ TeachersOf(x) \cap TeachersOf(y) # {}
                  \/ x.room = y.room /\ x.room # NoRoom

(* The entries teacher t has, on day d or in all. *)
Load(t, d, S) == Cardinality({e \in S : t \in TeachersOf(entry[e]) /\ entry[e].day = d})
WeekLoad(t, S) == Cardinality({e \in S : t \in TeachersOf(entry[e])})

IsAway(t, d, i) == \E a \in away[t] : /\ a.day = d /\ a.period = i
                                     /\ a.unavailable /\ a.approval = "APPROVED"

(* A double period counts twice, at each of its two boxes.  An override    *)
(* lifts the rules about load, absence and room size, not the clashes.     *)
LimitOffByOne(x, others) ==
  /\ \A t \in TeachersOf(x) : /\ Load(t, x.day, others) <= MaxPerDay
                              /\ WeekLoad(t, others) <= MaxPerWeek
                              /\ ~IsAway(t, x.day, x.period)
  /\ <<x.room, x.class>> \notin TooSmall
WithinLimits(x, others) ==
  LET n == IF x.double THEN 2 ELSE 1
  IN  /\ \A t \in TeachersOf(x) : /\ Load(t, x.day, others) + n <= MaxPerDay
                                  /\ WeekLoad(t, others) + n <= MaxPerWeek
                                  /\ ~IsAway(t, x.day, x.period)
      /\ <<x.room, x.class>> \notin TooSmall
SlotIsFreeForClass(x, override, except) ==
  LET others == Placed \ except
  IN  /\ x.period \in Live => \A e \in others : ~(x.class = entry[e].class /\ Meets(x, entry[e]))
      /\ override \/ WithinLimits(x, others)
SlotIsFree(x, override, except) ==
  LET others == Placed \ except
  IN  /\ x.period \in Live => \A e \in others : ~Clash(x, entry[e])
      /\ override \/ WithinLimits(x, others)

-----------------------------------------------------------------------------
(* createTimetableEntry.                                                   *)

(* The boxes of an entry.  The second of a double is the active period of  *)
(* the next greater order, of whatever day, class or kind.  No boxes:      *)
(* 'Period not found', 'last period of the day'.                           *)
Behind(i) == {j \in Live : period[j].active /\ period[j].order > period[i].order}
Boxes(x) ==
  IF ~x.double THEN {<<x>>}
  ELSE {<<x, [x EXCEPT !.period = j]>> : j \in
          {m \in Live : /\ x.period \in Live /\ period[x.period].active
                       /\ m \in Behind(x.period)
                       /\ \A n \in Behind(x.period) : period[m].order <= period[n].order}}
Accepts(boxes, override) ==
  \A n \in DOMAIN boxes : SlotIsFree(boxes[n], override, {})

(* made: boxes of this entry already inserted.  queue: copies the call has *)
(* still to create, each with the row it is made from.                     *)
Placing(boxes, override, queue) ==
  [pc |-> "insert boxes", boxes |-> boxes, made |-> {}, override |-> override, queue |-> queue]

CreateTimetableEntry(k, x, override) ==
  \E boxes \in Boxes(x) : /\ Accepts(boxes, override)
                          /\ Begins(k, Placing(boxes, override, {}))

(* One row is inserted, if its period and its room still exist. *)
InsertBox(k) ==
  LET x == Head(call[k].boxes)
      e == lastEntry + 1
      made == call[k].made \cup {e}
  IN  /\ call[k].pc = "insert boxes"
      /\ e <= MaxEntries
      /\ x.period \in Live /\ x.room \in rooms \cup {NoRoom}
      /\ entry' = [entry EXCEPT ![e] = x]
      /\ lastEntry' = e
      /\ vetted' = vetted \cup IF k \in alone THEN {e} ELSE {}
      /\ forced' = forced \cup IF call[k].override THEN {e} ELSE {}
      /\ twins' = twins \cup IF call[k].made # {} /\ k \in alone THEN {made} ELSE {}
      /\ IF Len(call[k].boxes) > 1
           THEN Goes(k, [call[k] EXCEPT !.boxes = Tail(call[k].boxes), !.made = made])
         ELSE IF call[k].queue = {} THEN Ends(k)
         ELSE Goes(k, [pc |-> "copy", queue |-> call[k].queue, override |-> call[k].override])
      /\ UNCHANGED <<period, lastPeriod, classTeacher, rooms, away, sound>>

(* copyDayLayout and cloneClassTimetable: the rows are read once and       *)
(* created again one after the other; refusals are skipped, an exception   *)
(* ends the call. *)
CopyDayLayout(k, class, from, to, override) ==
  LET source == {e \in Placed : entry[e].day = from /\ class \in {"all", entry[e].class}}
  IN  /\ source # {}
      /\ Begins(k, [pc |-> "copy", override |-> override,
                    queue |-> {[source |-> e, copy |-> [entry[e] EXCEPT !.day = to]] :
                                 e \in source}])

CloneClassTimetable(k, from, to, copyTeachers, override) ==
  LET source == {e \in Placed : entry[e].class = from}
      Copy(x) == IF copyTeachers THEN [x EXCEPT !.class = to]
                 ELSE [x EXCEPT !.class = to, !.lead = NoOne, !.staff = {}, !.byClass = FALSE]
  IN  /\ source # {}
      /\ Begins(k, [pc |-> "copy", override |-> override,
                    queue |-> {[source |-> e, copy |-> Copy(entry[e])] : e \in source}])

CopyNext(k) ==
  /\ call[k].pc = "copy"
  /\ \E next \in call[k].queue :
       LET rest == call[k].queue \ {next}
       IN  \/ Boxes(next.copy) = {} /\ Ends(k)
           \/ \E boxes \in Boxes(next.copy) :
                IF Accepts(boxes, call[k].override)
                  THEN Goes(k, Placing(boxes, call[k].override, rest))
                ELSE IF rest = {} THEN Ends(k)
                ELSE Goes(k, [call[k] EXCEPT !.queue = rest])
  /\ UNCHANGED <<tables, history>>

-----------------------------------------------------------------------------
(* updateTimetableEntry: one box is moved or given to others; the object   *)
(* read is checked as it will be and saved whole, under its old id even if *)
(* the row is gone by then.  The class and the other box stay.             *)
(* If a list of teachers is given, its first leads; the old lead stays if  *)
(* the list is empty.                                                      *)
GiveTo(x, staff) ==
  [x EXCEPT !.staff = staff, !.lead = IF staff = {} THEN x.lead ELSE CHOOSE t \in staff : TRUE]

UpdateTimetableEntry(k, e, x, override) ==
  /\ e \in Placed
  /\ SlotIsFree(x, override, {e})
  /\ Begins(k, [pc |-> "save entry", id |-> e, box |-> x, override |-> override])

SaveEntry(k) ==
  LET e == call[k].id
      x == call[k].box
  IN  /\ call[k].pc = "save entry"
      /\ x.period \in Live /\ x.room \in rooms \cup {NoRoom}
      /\ entry' = [entry EXCEPT ![e] = x]
      /\ vetted' = IF k \in alone THEN vetted \cup {e} ELSE vetted \ {e}
      /\ forced' = IF call[k].override THEN forced \cup {e} ELSE forced \ {e}
      /\ twins' = {pair \in twins : e \notin pair}
      /\ Ends(k)
      /\ UNCHANGED <<period, lastPeriod, lastEntry, classTeacher, rooms, away, sound>>

(* deleteTimetableEntry: with a box of a double period goes every box of   *)
(* the same lesson right before or behind it; each is a statement, the box *)
(* itself the last.                                                        *)
PartnersBehind(e) ==
  {f \in Placed \ {e} :
     /\ entry[f].double /\ entry[f].class = entry[e].class /\ entry[f].day = entry[e].day
     /\ period[entry[f].period].order = period[entry[e].period].order + 1}
Partners(e) ==
  LET x == entry[e]
      order == period[x.period].order
  IN  {f \in Placed \ {e} :
         LET y == entry[f]
         IN  /\ y.double /\ y.class = x.class /\ y.subject = x.subject /\ y.day = x.day
             /\ x.lead = NoOne \/ y.lead = x.lead
             /\ \/ period[y.period].order = order + 1
                \/ order = period[y.period].order + 1}

DeleteTimetableEntry(k, e) ==
  /\ e \in Placed
  /\ Begins(k, [pc |-> "remove", id |-> e,
                partners |-> IF entry[e].double THEN Partners(e) ELSE {}])

Remove(k) ==
  LET ids == IF call[k].partners = {} THEN {call[k].id} ELSE call[k].partners
  IN  /\ call[k].pc = "remove"
      /\ \E e \in ids :
           /\ entry' = [entry EXCEPT ![e] = NoEntry]
           /\ vetted' = vetted \ {e}
           /\ IF call[k].partners = {} THEN Ends(k)
              ELSE Goes(k, [call[k] EXCEPT !.partners = call[k].partners \ {e}])
      /\ UNCHANGED <<period, lastPeriod, lastEntry, classTeacher, rooms, away, sound,
                     forced, twins>>

-----------------------------------------------------------------------------
(* What other parts of the system change under the timetable.              *)

(* The class gets another class teacher. *)
ChangeClassTeacher(c, t) ==
  /\ t # classTeacher[c]
  /\ classTeacher' = [classTeacher EXCEPT ![c] = t]
  /\ vetted' = {e \in vetted : ~(entry[e].byClass /\ entry[e].class = c)}
  /\ Passing
  /\ UNCHANGED <<period, lastPeriod, entry, lastEntry, rooms, away, sound, forced, twins>>

(* deleteRoom: ON DELETE SET NULL. *)
DeleteRoom(r) ==
  /\ r \in rooms /\ rooms' = rooms \ {r}
  /\ entry' = [e \in EntryIds |-> IF e \in Placed /\ entry[e].room = r
                                  THEN [entry[e] EXCEPT !.room = NoRoom] ELSE entry[e]]
  /\ Passing
  /\ UNCHANGED <<period, lastPeriod, lastEntry, classTeacher, away, history>>

(* submitMyAvailability, adminSetTeacherAvailability and                   *)
(* reviewTeacherAvailability: the one row of a teacher, day and period.    *)
(* From then on the entries there are not vetted against it.               *)
SetAvailability(t, a) ==
  /\ a.period \in Live
  /\ away' = [away EXCEPT ![t] =
       {b \in away[t] : b.day # a.day \/ b.period # a.period} \cup {a}]
  /\ vetted' = {e \in vetted : ~(/\ t \in TeachersOf(entry[e]) /\ entry[e].day = a.day
                                 /\ entry[e].period = a.period)}
  /\ Passing
  /\ UNCHANGED <<period, lastPeriod, entry, lastEntry, classTeacher, rooms, sound, forced, twins>>

SubmitMyAvailability(t, d, i, unavailable) ==
  SetAvailability(t, [day |-> d, period |-> i, unavailable |-> unavailable,
                      approval |-> "PENDING"])
AdminSetTeacherAvailability(t, d, i, unavailable, approval) ==
  SetAvailability(t, [day |-> d, period |-> i, unavailable |-> unavailable,
                      approval |-> approval])
ReviewTeacherAvailability(t, a, approval) ==
  a \in away[t] /\ SetAvailability(t, [a EXCEPT !.approval = approval])

-----------------------------------------------------------------------------
Call ==
  [pc : {"idle", "get periods"}] \cup
  [pc : {"insert periods"}, rows : SUBSET Period] \cup
  [pc : {"save period"}, id : PeriodIds, row : Period] \cup
  [pc : {"drop periods"}, ids : SUBSET PeriodIds] \cup
  [pc : {"prune"}, ids : SUBSET PeriodIds, read : [PeriodIds -> Period \cup {NoPeriod}]] \cup
  [pc : {"insert boxes"}, boxes : Seq(Entry) \ {<<>>}, made : SUBSET EntryIds, override : BOOLEAN,
   queue : SUBSET [source : EntryIds, copy : Entry]] \cup
  [pc : {"copy"}, override : BOOLEAN, queue : SUBSET [source : EntryIds, copy : Entry]] \cup
  [pc : {"save entry"}, id : EntryIds, box : Entry, override : BOOLEAN] \cup
  [pc : {"remove"}, id : EntryIds, partners : SUBSET EntryIds]

TypeOK ==
  /\ period \in [PeriodIds -> Period \cup {NoPeriod}] /\ lastPeriod \in 0 .. MaxPeriods
  /\ entry \in [EntryIds -> Entry \cup {NoEntry}] /\ lastEntry \in 0 .. MaxEntries
  /\ classTeacher \in [Classes -> Teachers \cup {NoOne}]
  /\ rooms \subseteq Rooms
  /\ \A e \in Placed : entry[e].period \in Live /\ entry[e].room \in rooms \cup {NoRoom}
  /\ away \in [Teachers -> SUBSET Availability]
  /\ call \in [Calls -> Call] /\ begun \in 0 .. MaxCalls /\ alone \subseteq Calls
  /\ sound \subseteq Live /\ vetted \subseteq Placed /\ forced \subseteq EntryIds
  /\ twins \subseteq SUBSET EntryIds

Init ==
  /\ period \in FirstTables
  /\ lastPeriod \in 0 .. MaxPeriods /\ Live = 1 .. lastPeriod
  /\ entry = [e \in EntryIds |-> NoEntry] /\ lastEntry = 0
  /\ classTeacher = FirstTeachers
  /\ rooms = Rooms
  /\ away = [t \in Teachers |-> {}]
  /\ call = [k \in Calls |-> Idle] /\ begun = 0 /\ alone = {}
  /\ sound = Live /\ vetted = {} /\ forced = {} /\ twins = {}

(* A call on periods begins. *)
BeginPeriods(k) ==
  \/ \E p \in Shapes : CreatePeriod(k, p) \/ \E i \in PeriodIds : UpdatePeriod(k, i, p)
  \/ \E blocks \in Schedules, days \in (SUBSET Days) \ {{}}, classes \in SUBSET Classes :
       GenerateSchoolDaySchedule(k, blocks, days, classes)
  \/ \E i \in PeriodIds, group \in BOOLEAN : DeletePeriod(k, i, group)
  \/ \E i, n \in PeriodIds : ReorderPeriod(k, i, n)
  \/ GetPeriods(k)

(* A call on entries begins. *)
BeginEntries(k) ==
  \E override \in BOOLEAN :
    \/ \E x \in Wishes : CreateTimetableEntry(k, x, override)
    \/ \E e \in Placed, d \in Days, i \in Live :
         UpdateTimetableEntry(k, e, [entry[e] EXCEPT !.day = d, !.period = i], override)
    \/ \E e \in Placed, staff \in SUBSET Teachers :
         UpdateTimetableEntry(k, e, GiveTo(entry[e], staff), override)
    \/ \E c \in Classes \cup {"all"}, from, to \in Days : CopyDayLayout(k, c, from, to, override)
    \/ \E from, to \in Classes, with \in BOOLEAN : CloneClassTimetable(k, from, to, with, override)
    \/ \E e \in Placed : DeleteTimetableEntry(k, e)

(* The next statement of a call. *)
Step(k) ==
  \/ InsertPeriods(k) \/ SavePeriod(k) \/ DropPeriods(k) \/ GetPeriodsAgain(k)
  \/ InsertBox(k) \/ CopyNext(k) \/ SaveEntry(k) \/ Remove(k) \/ CutOff(k)

Around ==
  \/ InitDefaultPeriods
  \/ \E c \in Classes, t \in Teachers : ChangeClassTeacher(c, t)
  \/ \E r \in Rooms : DeleteRoom(r)
  \/ \E slot \in Slots, u \in BOOLEAN :
       \/ SubmitMyAvailability(slot[1], slot[2], slot[3], u)
       \/ \E a \in {"APPROVED", "REJECTED"} :
            AdminSetTeacherAvailability(slot[1], slot[2], slot[3], u, a)
  \/ \E t \in Teachers : \E a \in away[t], s \in {"APPROVED", "REJECTED"} :
       ReviewTeacherAvailability(t, a, s)

Next == (\E k \in Calls : BeginPeriods(k) \/ BeginEntries(k) \/ Step(k)) \/ Around

Spec == Init /\ [][Next]_vars

-----------------------------------------------------------------------------
(* Correctness.                                                            *)

(* Entries whose calls ran alone never use a class, a teacher (the class   *)
(* teacher included) or a room twice at a time, whatever other calls do,   *)
(* the two boxes of one double period excepted (second box: any period).   *)
VettedNeverClash ==
  \A e, f \in vetted : e # f /\ {e, f} \notin twins => ~Clash(entry[e], entry[f])

(* A teacher all of whose entries were checked and none forced is within   *)
(* the load of each day and of the week, and absent from none of them.     *)
WorkloadKept ==
  \A t \in Teachers :
    LET mine == {e \in Placed : t \in TeachersOf(entry[e])}
    IN  mine \subseteq vetted \ forced =>
          /\ WeekLoad(t, mine) <= MaxPerWeek
          /\ \A d \in Days : Load(t, d, mine) <= MaxPerDay
          /\ \A e \in mine : ~IsAway(t, entry[e].day, entry[e].period)

(* Active periods checked by calls that ran alone, created, changed or     *)
(* generated, never overlap on a day for a class.                          *)
SoundPeriodsDisjoint ==
  \A i, j \in sound :
    i # j /\ period[i].active /\ period[j].active => Apart(period[i], period[j])

(* What was checked holds: entries do not clash and periods do not overlap,*)
(* however the calls that checked them alternate with others.              *)
CheckedStaysApart == VettedNeverClash /\ SoundPeriodsDisjoint

(* 'Prune exact duplicates': a read that prunes leaves one period of each  *)
(* kind it deletes from, however many reads prune at once, unless a period *)
(* it meant to keep was changed or removed meanwhile.                      *)
PruneKeepsOne ==
  [][\A k \in Calls :
       /\ call[k].pc = "prune" /\ call'[k].pc = "idle" /\ period' # period
       /\ \A i \in PeriodIds \ call[k].ids :
            call[k].read[i] # NoPeriod => period[i] = call[k].read[i]
       => \A j \in call[k].ids : period[j] = call[k].read[j] =>
            \E i \in PeriodIds : /\ period'[i] # NoPeriod
                                 /\ Kind(period'[i]) = Kind(period[j])]_vars

(* 'If double period, also delete adjacent partner slot': a deletion that  *)
(* runs alone leaves no half of a double whose boxes are next to another.  *)
DoubleGoesWhole ==
  [][\A k \in Calls, e, f \in EntryIds :
       /\ call[k].pc = "remove" /\ call[k].id = e /\ k \in alone
       /\ entry[e] # NoEntry /\ entry'[e] = NoEntry
       /\ {e, f} \in twins /\ f # e
       /\ f \in Placed
       => LET a == period[entry[e].period].order
              b == period[entry[f].period].order
          IN  a # b + 1 /\ b # a + 1]_vars

(* Deletions of either kind take what they should and no more. *)
DeletionsTakeTheirs == PruneKeepsOne /\ DoubleGoesWhole
=============================================================================
