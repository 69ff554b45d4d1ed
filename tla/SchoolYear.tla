----------------------------- MODULE SchoolYear -----------------------------
(***************************************************************************)
(* Sessions and terms, in src/src/terms/terms.service.ts, and what is      *)
(* counted in them, the attendance of pupils and staff, in                 *)
(* src/src/attendance/attendance.service.ts.                               *)
(*                                                                         *)
(* activateTerm is four updates without a transaction.  Attendance is read *)
(* and saved; a save compares the object with the row as it is by then and *)
(* writes the columns that differ.  Only one day is modelled: the rows of  *)
(* another day are other rows.  UNIQUE(student, date) and UNIQUE(user,     *)
(* date) make the rows a function.                                         *)
(***************************************************************************)
EXTENDS Naturals, FiniteSets, FiniteSetsExt

CONSTANTS
  Calls,             \* slots in which calls run concurrently
  Schools, Home,     \* the attendance is that of school Home
  Sessions, SchoolOf, \* SchoolOf[e]: the school of session e
  Pupils, Classes, Staff,
  Registers,         \* payloads of markStudentAttendance: functions i -> [pupil, status]
  Corrections,       \* payloads of manualStaffAttendance: [in, out], 0 if not given
  StartTime,         \* schoolStartTime
  FirstTerms,        \* FirstTerms[t]: terms that are there already
  MaxTerms, MaxTime, MaxCalls \* bounds: ids of terms, the time of day, calls begun

TermIds == 1 .. MaxTerms
NoTerm == [status |-> "none"]
SessionState == {"none", "closed", "active"}
Term == [session : Sessions, status : {"active", "closed"}]
Statuses == {"present", "absent", "late"}
NoMark == [status |-> "none"]
Mark == [class : Classes, term : TermIds, status : Statuses]
NoClock == [in |-> 0, out |-> 0, late |-> FALSE, manual |-> FALSE, row |-> FALSE]
Clock == [in : 0 .. MaxTime, out : 0 .. MaxTime, late : BOOLEAN, manual : BOOLEAN,
          row : BOOLEAN]
Columns == {"in", "out", "late", "manual"}

ASSUME SchoolYearAssumption ==
  /\ Home \in Schools /\ SchoolOf \in [Sessions -> Schools]
  /\ MaxTerms \in Nat /\ MaxTime \in Nat \ {0} /\ MaxCalls \in Nat
  /\ StartTime \in 0 .. MaxTime
  /\ FirstTerms \in [TermIds -> Term \cup {NoTerm}]
  /\ \E n \in 0 .. MaxTerms : \A t \in TermIds : FirstTerms[t] # NoTerm <=> t <= n
  /\ \A r \in Registers : \A i \in DOMAIN r : r[i] \in [pupil : Pupils, status : Statuses]
  /\ Corrections \subseteq [in : 0 .. MaxTime, out : 0 .. MaxTime]

VARIABLES
  session,   \* session[e]: sessions.isActive, or "none"
  term,      \* term[t]: the terms row; ids in the order of createdAt
  lastTerm,
  mark,      \* mark[p]: the student_attendance row of the day
  clock,     \* clock[u]: the staff_attendance row of the day
  now,       \* the time of day
  call,      \* call[k]: what the call in slot k has read and does next
  begun,     \* calls begun
  \* history
  alone,     \* calls that no other call has overlapped
  opened,    \* opened[s]: the term a lone activateTerm opened, 0 if something came after
  given,     \* given[p]: what a lone register said of p, {} if another call came after
  corrected, \* corrected[u]: the clock-in a lone correction gave, 0 if none
  touched    \* staff whose row was ever corrected

vars == <<session, term, lastTerm, mark, clock, now, call, begun, alone,
          opened, given, corrected, touched>>
year == <<session, term, lastTerm>>
days == <<mark, clock, now>>

Present == {t \in TermIds : term[t] # NoTerm}
SchoolOfTerm(t) == SchoolOf[term[t].session]
TermsOf(s) == {t \in Present : SchoolOfTerm(t) = s}

Idle == [pc |-> "idle", term |-> 0, class |-> "none", register |-> <<>>, todo |-> <<>>,
         user |-> "none", object |-> NoClock, cols |-> {}, manual |-> 0]
At(k, pc) == call[k].pc = pc

Begins(k, first) ==
  /\ At(k, "idle") /\ begun < MaxCalls /\ begun' = begun + 1
  /\ call' = [call EXCEPT ![k] = first]
  /\ alone' = IF \E j \in Calls : ~At(j, "idle") THEN {} ELSE {k}
(* A call of one statement. *)
Passes == begun < MaxCalls /\ begun' = begun + 1 /\ alone' = {} /\ call' = call

Goes(k, pc) == call' = [call EXCEPT ![k].pc = pc] /\ UNCHANGED <<begun, alone>>
Ends(k) == call' = [call EXCEPT ![k] = Idle] /\ UNCHANGED <<begun, alone>>

(* The call is cut off: an exception, an error of the database, a restart. *)
CutOff(k) ==
  /\ ~At(k, "idle") /\ Ends(k)
  /\ UNCHANGED <<year, days, opened, given, corrected, touched>>

Tick ==
  /\ now < MaxTime /\ now' = now + 1
  /\ UNCHANGED <<year, mark, clock, call, begun, alone, opened, given, corrected, touched>>

-----------------------------------------------------------------------------
(* Sessions and terms.                                                     *)

CreateSession(e) ==
  /\ session[e] = "none" /\ Passes
  /\ session' = [session EXCEPT ![e] = "closed"]
  /\ UNCHANGED <<term, lastTerm, days, opened, given, corrected, touched>>

CreateTerm(e) ==
  LET t == lastTerm + 1
  IN  /\ session[e] # "none" /\ t <= MaxTerms /\ Passes
      /\ term' = [term EXCEPT ![t] = [session |-> e, status |-> "closed"]]
      /\ lastTerm' = t
      /\ UNCHANGED <<session, days, opened, given, corrected, touched>>

ActivateTerm(k, t) ==
  /\ t \in Present
  /\ Begins(k, [Idle EXCEPT !.pc = "deactivate sessions", !.term = t])
  /\ opened' = [opened EXCEPT ![SchoolOfTerm(t)] = 0]
  /\ UNCHANGED <<year, days, given, corrected, touched>>

DeactivateSessions(k) ==
  LET s == SchoolOfTerm(call[k].term)
  IN  /\ At(k, "deactivate sessions")
      /\ session' = [e \in Sessions |-> IF SchoolOf[e] = s /\ session[e] = "active"
                                        THEN "closed" ELSE session[e]]
      /\ Goes(k, "activate session")
      /\ UNCHANGED <<term, lastTerm, days, opened, given, corrected, touched>>

ActivateSession(k) ==
  /\ At(k, "activate session")
  /\ session' = [session EXCEPT ![term[call[k].term].session] = "active"]
  /\ Goes(k, "close terms")
  /\ UNCHANGED <<term, lastTerm, days, opened, given, corrected, touched>>

CloseTermsOfSession(k) ==
  /\ At(k, "close terms")
  /\ term' = [t \in TermIds |->
       IF t \in Present /\ term[t].session = term[call[k].term].session
       THEN [term[t] EXCEPT !.status = "closed"] ELSE term[t]]
  /\ Goes(k, "open term")
  /\ UNCHANGED <<session, lastTerm, days, opened, given, corrected, touched>>
CloseTerms(k) ==
  /\ At(k, "close terms")
  /\ term' = [t \in TermIds |-> IF t \in TermsOf(SchoolOfTerm(call[k].term))
                                THEN [term[t] EXCEPT !.status = "closed"] ELSE term[t]]
  /\ Goes(k, "open term")
  /\ UNCHANGED <<session, lastTerm, days, opened, given, corrected, touched>>

OpenTerm(k) ==
  LET t == call[k].term
  IN  /\ At(k, "open term")
      /\ term' = [term EXCEPT ![t].status = "active"]
      /\ opened' = IF k \in alone THEN [opened EXCEPT ![SchoolOfTerm(t)] = t] ELSE opened
      /\ Ends(k)
      /\ UNCHANGED <<session, lastTerm, days, given, corrected, touched>>

(* unlockTerm closes no other term and leaves the sessions alone. *)
SetStatus(t, status) ==
  /\ t \in Present /\ Passes
  /\ term' = [term EXCEPT ![t].status = status]
  /\ opened' = [opened EXCEPT ![SchoolOfTerm(t)] = 0]
  /\ UNCHANGED <<session, lastTerm, days, given, corrected, touched>>
CloseTerm(t) == SetStatus(t, "closed")
UnlockTerm(t) == SetStatus(t, "active")

-----------------------------------------------------------------------------
(* The attendance of pupils.                                               *)

(* The term a mark counts in: the one created last, open or not. *)
LatestTermOfAll == Max(Present)
LatestTerm == Max(TermsOf(Home))

PupilsOf(register) == {register[i].pupil : i \in DOMAIN register}

MarkStudentAttendance(k, c, register) ==
  /\ TermsOf(Home) # {}
  /\ Begins(k, [Idle EXCEPT !.pc = "mark", !.term = LatestTerm, !.class = c,
                 !.register = register, !.todo = [i \in DOMAIN register |-> "find"]])
  /\ given' = [p \in Pupils |-> IF p \in PupilsOf(register) THEN {} ELSE given[p]]
  /\ UNCHANGED <<year, days, opened, corrected, touched>>

Does(k, i, next) == call' = [call EXCEPT ![k].todo[i] = next] /\ UNCHANGED <<begun, alone>>
Todo(k, i, what) == At(k, "mark") /\ call[k].todo[i] = what

FindMarkOfClass(k, i) ==
  LET p == call[k].register[i].pupil
  IN  /\ Todo(k, i, "find")
      /\ Does(k, i, IF mark[p] # NoMark /\ mark[p].class = call[k].class
                    THEN "update" ELSE "insert")
      /\ UNCHANGED <<year, days, opened, given, corrected, touched>>
FindMark(k, i) ==
  /\ Todo(k, i, "find")
  /\ Does(k, i, IF mark[call[k].register[i].pupil] # NoMark THEN "update" ELSE "insert")
  /\ UNCHANGED <<year, days, opened, given, corrected, touched>>

(* UNIQUE(student, date) refuses the second insert; the other records go on.*)
InsertMark(k, i) ==
  LET c == call[k]
      p == c.register[i].pupil
  IN  /\ Todo(k, i, "insert")
      /\ IF mark[p] # NoMark THEN mark' = mark /\ Does(k, i, "refused")
         ELSE /\ mark' = [mark EXCEPT ![p] = [class |-> c.class, term |-> c.term,
                                              status |-> c.register[i].status]]
              /\ Does(k, i, "done")
      /\ UNCHANGED <<year, clock, now, opened, given, corrected, touched>>

UpdateMark(k, i) ==
  /\ Todo(k, i, "update")
  /\ mark' = [mark EXCEPT ![call[k].register[i].pupil].status = call[k].register[i].status]
  /\ Does(k, i, "done")
  /\ UNCHANGED <<year, clock, now, opened, given, corrected, touched>>

Marked(k) == /\ At(k, "mark")
             /\ \A i \in DOMAIN call[k].todo : call[k].todo[i] \in {"done", "refused"}

EndMark(k) ==
  LET r == call[k].register
      failed == \E i \in DOMAIN r : call[k].todo[i] = "refused"
  IN  /\ Marked(k) /\ Ends(k)
      /\ given' = [p \in Pupils |->
           IF k \in alone /\ ~failed /\ p \in PupilsOf(r)
           THEN {r[i].status : i \in {j \in DOMAIN r : r[j].pupil = p}} ELSE given[p]]
      /\ UNCHANGED <<year, days, opened, corrected, touched>>

-----------------------------------------------------------------------------
(* The attendance of staff.                                                *)

(* clockAction uploads the photo first; the QR code needs no photo. *)
ClockAction(k, u) ==
  /\ Begins(k, [Idle EXCEPT !.pc = "photo", !.user = u])
  /\ UNCHANGED <<year, days, opened, given, corrected, touched>>
MarkAttendanceWithQr(k, u) ==
  /\ Begins(k, [Idle EXCEPT !.pc = "scan", !.user = u])
  /\ UNCHANGED <<year, days, opened, given, corrected, touched>>

ClockedInOnTheDot(r) == [r EXCEPT !.in = now, !.late = now >= StartTime, !.row = TRUE]
ClockedIn(r) == [r EXCEPT !.in = now, !.late = now > StartTime, !.row = TRUE]

(* The row is read; a second photo clocks out once, a second scan always.  *)
ReadClock(k) ==
  LET r == clock[call[k].user]
  IN  /\ call[k].pc \in {"photo", "scan"}
      /\ IF At(k, "photo") /\ r.in # 0 /\ r.out # 0 THEN Ends(k)
         ELSE /\ call' = [call EXCEPT ![k].object = IF r.in = 0 THEN ClockedIn(r)
                                                    ELSE [r EXCEPT !.out = now],
                          ![k].pc = IF r.row THEN "compare" ELSE "insert"]
              /\ UNCHANGED <<begun, alone>>
      /\ UNCHANGED <<year, days, opened, given, corrected, touched>>

(* manualStaffAttendance.  What was late stays late. *)
ManualStaffAttendance(k, u, c) ==
  LET r == clock[u]
  IN  /\ Begins(k, [Idle EXCEPT !.user = u, !.manual = c.in,
           !.pc = IF r.row THEN "compare" ELSE "insert",
           !.object = [in |-> IF c.in # 0 THEN c.in ELSE r.in,
                       out |-> IF c.out # 0 THEN c.out ELSE r.out,
                       late |-> r.late, manual |-> TRUE, row |-> TRUE]])
      /\ touched' = touched \cup {u}
      /\ UNCHANGED <<year, days, opened, given, corrected>>

(* A correction stands until the next; a call that overlapped may undo it. *)
Corrects(k) ==
  LET u == call[k].user
  IN  corrected' = [corrected EXCEPT ![u] =
        IF k \notin alone THEN 0
        ELSE IF call[k].manual # 0 THEN call[k].manual ELSE corrected[u]]

InsertClock(k) ==
  LET u == call[k].user
  IN  /\ At(k, "insert") /\ Ends(k)
      /\ IF clock[u].row THEN clock' = clock /\ corrected' = corrected
         ELSE clock' = [clock EXCEPT ![u] = call[k].object] /\ Corrects(k)
      /\ UNCHANGED <<year, mark, now, opened, given, touched>>

CompareClock(k) ==
  /\ At(k, "compare")
  /\ call' = [call EXCEPT ![k].pc = "write", ![k].cols =
       {c \in Columns : call[k].object[c] # clock[call[k].user][c]}]
  /\ UNCHANGED <<year, days, begun, alone, opened, given, corrected, touched>>

WriteClock(k) ==
  LET u == call[k].user
  IN  /\ At(k, "write") /\ Ends(k)
      /\ clock' = [clock EXCEPT ![u] =
           [c \in DOMAIN NoClock |-> IF c \in call[k].cols THEN call[k].object[c]
                                     ELSE clock[u][c]]]
      /\ Corrects(k)
      /\ UNCHANGED <<year, mark, now, opened, given, touched>>

-----------------------------------------------------------------------------
Pcs == {"idle", "deactivate sessions", "activate session", "close terms", "open term",
        "mark", "photo", "scan", "insert", "compare", "write"}
Todos == UNION {[DOMAIN r -> {"find", "insert", "update", "done", "refused"}] :
                r \in Registers \cup {<<>>}}
Call ==
  [pc : Pcs, term : 0 .. MaxTerms, class : Classes \cup {"none"},
   register : Registers \cup {<<>>}, todo : Todos, user : Staff \cup {"none"},
   object : Clock, cols : SUBSET Columns, manual : 0 .. MaxTime]

TypeOK ==
  /\ session \in [Sessions -> SessionState]
  /\ term \in [TermIds -> Term \cup {NoTerm}] /\ lastTerm \in 0 .. MaxTerms
  /\ Present = 1 .. lastTerm
  /\ \A t \in Present : session[term[t].session] # "none"
  /\ mark \in [Pupils -> Mark \cup {NoMark}]
  /\ \A p \in Pupils : mark[p] # NoMark => mark[p].term \in TermsOf(Home)
  /\ clock \in [Staff -> Clock] /\ now \in 0 .. MaxTime
  /\ call \in [Calls -> Call] /\ begun \in 0 .. MaxCalls /\ alone \subseteq Calls
  /\ opened \in [Schools -> 0 .. MaxTerms] /\ given \in [Pupils -> SUBSET Statuses]
  /\ corrected \in [Staff -> 0 .. MaxTime] /\ touched \subseteq Staff

Init ==
  /\ term = FirstTerms /\ lastTerm = Cardinality(Present)
  /\ session = [e \in Sessions |->
       IF \E t \in Present : term[t].session = e /\ term[t].status = "active" THEN "active"
       ELSE IF \E t \in Present : term[t].session = e THEN "closed" ELSE "none"]
  /\ mark = [p \in Pupils |-> NoMark] /\ clock = [u \in Staff |-> NoClock] /\ now = 1
  /\ call = [k \in Calls |-> Idle] /\ begun = 0 /\ alone = {}
  /\ opened = [s \in Schools |-> 0] /\ given = [p \in Pupils |-> {}]
  /\ corrected = [u \in Staff |-> 0] /\ touched = {}

Begin(k) ==
  \/ \E t \in TermIds : ActivateTerm(k, t)
  \/ \E c \in Classes, r \in Registers : MarkStudentAttendance(k, c, r)
  \/ \E u \in Staff : \/ ClockAction(k, u) \/ MarkAttendanceWithQr(k, u)
                      \/ \E c \in Corrections : ManualStaffAttendance(k, u, c)

Step(k) ==
  \/ DeactivateSessions(k) \/ ActivateSession(k) \/ CloseTerms(k) \/ OpenTerm(k)
  \/ \E i \in DOMAIN call[k].todo : FindMark(k, i) \/ InsertMark(k, i) \/ UpdateMark(k, i)
  \/ EndMark(k) \/ ReadClock(k) \/ InsertClock(k) \/ CompareClock(k) \/ WriteClock(k)
  \/ CutOff(k)

Next ==
  \/ \E k \in Calls : Begin(k) \/ Step(k)
  \/ \E e \in Sessions : CreateSession(e) \/ CreateTerm(e)
  \/ \E t \in TermIds : CloseTerm(t) \/ UnlockTerm(t)
  \/ Tick

Spec == Init /\ [][Next]_vars

-----------------------------------------------------------------------------
(* Correctness.                                                            *)

Open(s) == {t \in TermsOf(s) : term[t].status = "active"}

(* 'The session the active term belongs to becomes the active session, and *)
(* all other sessions are deactivated': after a lone activation, and until *)
(* someone opens or closes a term, a school has one open term and its      *)
(* session is the active one; other schools are left alone.                *)
OneTermOpen ==
  \A s \in Schools : opened[s] # 0 =>
    /\ Open(s) = {opened[s]}
    /\ {e \in Sessions : SchoolOf[e] = s /\ session[e] = "active"} = {term[opened[s]].session}

(* A lone register is taken as it was given and refused only if it names a *)
(* pupil twice, in whatever class he was marked before.                    *)
MarkedAsGiven ==
  /\ \A p \in Pupils : given[p] # {} => mark[p].status \in given[p]
  /\ \A k \in alone :
       \A i \in DOMAIN call[k].todo : call[k].todo[i] = "refused" =>
         \E j \in DOMAIN call[k].todo \ {i} :
           call[k].register[j].pupil = call[k].register[i].pupil

(* A day is counted in the term that is open, if terms are created in the  *)
(* order in which they are opened and not before their time.               *)
MarksUnderOpenTerm ==
  \A k \in alone : At(k, "mark") /\ opened[Home] = Max(TermsOf(Home) \cup {0})
    /\ opened[Home] # 0 => call[k].term = opened[Home]

(* What a class register leaves behind: the marks given, in the open term. *)
RegisterKept == MarkedAsGiven /\ MarksUnderOpenTerm

(* Whoever is not corrected by hand clocks in once, late or in time, and   *)
(* clocks out after that, however many photos and scans overlap; and the   *)
(* clock-in of a lone correction stands, unless a call overlapped.         *)
ClocksInOrder ==
  /\ \A u \in Staff \ touched : clock[u].row =>
       /\ clock[u].in # 0 /\ (clock[u].late <=> clock[u].in > StartTime)
       /\ clock[u].out # 0 => clock[u].in <= clock[u].out
  /\ \A u \in Staff : corrected[u] # 0 => clock[u].in = corrected[u]
=============================================================================
