-------------------------- MODULE SchoolYear_proofs --------------------------
(***************************************************************************)
(* For any schools, sessions, registers, staff and number of overlapping   *)
(* calls: a lone activation leaves one term open, a lone register is kept  *)
(* as it was given and counts in the open term, and clocks stay in order.  *)
(*                                                                         *)
(* A step of a call touches the year, the marks or the clocks.  Each of    *)
(* the three has an invariant of its own on top of TypeInv, and two lemmas:*)
(* the steps that touch it keep it, and so does every other step.          *)
(***************************************************************************)
EXTENDS SchoolYear, FiniteSetTheorems, TLAPS

Activating == {"deactivate sessions", "activate session", "close terms", "open term"}
Saving == {"insert", "compare", "write"}
OfClock == Saving \cup {"photo", "scan"}

(* What a call has read by the time it reaches each statement.             *)
CallFits(c) ==
  /\ c.pc \in Activating => c.term \in Present
  /\ c.pc = "mark" => /\ c.term \in TermsOf(Home) /\ c.class \in Classes
                      /\ c.register \in Registers /\ DOMAIN c.todo = DOMAIN c.register
                      /\ \A i \in DOMAIN c.todo :
                           c.todo[i] = "update" => mark[c.register[i].pupil] # NoMark
  /\ c.pc # "mark" => DOMAIN c.todo = {}
  /\ c.pc \in OfClock => c.user \in Staff

CallsInv == \A k \in Calls : CallFits(call[k])
(* A call that no other overlaps is the only one that runs.                *)
AloneInv == \A k \in alone, j \in Calls : ~At(k, "idle") /\ j # k => At(j, "idle")
TypeInv == TypeOK /\ CallsInv /\ AloneInv

-----------------------------------------------------------------------------
(* The year.  While a term of a school is being activated nothing is       *)
(* promised; a lone activation prepares its promise statement by statement.*)
ActiveSessions(s) == {e \in Sessions : SchoolOf[e] = s /\ session[e] = "active"}
Prepared(k) ==
  LET t == call[k].term
      s == SchoolOfTerm(t)
  IN  /\ At(k, "activate session") => ActiveSessions(s) = {}
      /\ call[k].pc \in {"close terms", "open term"} => ActiveSessions(s) = {term[t].session}
      /\ At(k, "open term") => Open(s) = {}
ActivatingInv ==
  \A k \in Calls : call[k].pc \in Activating => opened[SchoolOfTerm(call[k].term)] = 0
PreparedInv == \A k \in alone : Prepared(k)
YearInv == OneTermOpen /\ ActivatingInv /\ PreparedInv

(* The marks.  A lone register has done with each of its records what the  *)
(* record asks for, and finds another row only where it made one itself.   *)
SamePupil(c, i) == {j \in DOMAIN c.register : c.register[j].pupil = c.register[i].pupil}
RecordFits(c, i) ==
  LET m == mark[c.register[i].pupil]
      others == {j \in SamePupil(c, i) : c.todo[j] = "done"}
  IN  /\ c.todo[i] = "done" => \E j \in others : m.status = c.register[j].status
      /\ c.todo[i] = "insert" => m = NoMark \/ others # {}
      /\ c.todo[i] = "refused" => \E j \in SamePupil(c, i) : j # i
AskedInv ==
  \A k \in Calls : At(k, "mark") => \A p \in PupilsOf(call[k].register) : given[p] = {}
RegisterInv ==
  \A k \in alone : At(k, "mark") =>
    /\ call[k].term = LatestTerm
    /\ \A i \in DOMAIN call[k].register : RecordFits(call[k], i)
KeptInv == \A p \in Pupils : given[p] # {} => mark[p].status \in given[p]
MarksInv == AskedInv /\ RegisterInv /\ KeptInv

(* The clocks.  What a photo or a scan is about to save of someone whom    *)
(* nobody corrects is a first clock-in or a later clock-out; and a lone    *)
(* call leaves a corrected clock-in as it is, or corrects it again.        *)
ClockFits(r) ==
  /\ ~r.row => r.in = 0 /\ r.out = 0 /\ ~r.manual
  /\ r.row => r.in # 0 /\ r.in <= now /\ (r.late <=> r.in > StartTime)
              /\ ~r.manual /\ (r.out # 0 => r.in <= r.out)
SaveFits(c) ==
  LET r == clock[c.user]
  IN  /\ c.pc = "insert" => c.object.row /\ c.object.in # 0 /\ c.object.out = 0
      /\ c.pc \in {"compare", "write"} =>
           /\ r.row /\ c.object.row /\ c.object.in = r.in /\ c.object.late = r.late
           /\ c.object.manual = r.manual
      /\ c.pc = "write" => c.cols \subseteq {"out"}
LoneSaveFits(c) ==
  LET r == clock[c.user]
  IN  /\ c.manual # 0 => c.object.in = c.manual
      /\ c.manual = 0 /\ corrected[c.user] # 0 => c.object.in = r.in
      /\ c.pc = "write" /\ "in" \notin c.cols => c.object.in = r.in
CallSaves(c) ==
  /\ c.pc \in {"photo", "scan"} => c.manual = 0
  /\ c.pc \in Saving /\ c.user \notin touched => SaveFits(c) /\ ClockFits(c.object)
SavesInv == \A k \in Calls : CallSaves(call[k])
LoneInv == \A k \in alone : call[k].pc \in Saving => LoneSaveFits(call[k])
RowsInv == \A u \in Staff \ touched : ClockFits(clock[u])
CorrectedInv == \A u \in Staff : corrected[u] # 0 => clock[u].in = corrected[u]
ClocksInv == now # 0 /\ RowsInv /\ CorrectedInv /\ SavesInv /\ LoneInv

-----------------------------------------------------------------------------
(* The terms of a school are finitely many and have a last one.            *)

Farther == OpToRel(<, Nat)

LEMMA LastIsThere ==
  ASSUME NEW n \in Nat, NEW T \in SUBSET (0 .. n), T # {}
  PROVE  Max(T) \in T /\ \A t \in T : Max(T) >= t
<1> DEFINE gaps == {n - t : t \in T}
<1>1. IsWellFoundedOn(Farther, Nat)
  BY NatLessThanWellFounded, Zenon DEF Farther
<1>2. gaps \subseteq Nat /\ gaps # {}
  OBVIOUS
<1>3. PICK x \in gaps : \A y \in gaps : ~(<<y, x>> \in Farther)
  <2> HIDE DEF gaps
  <2> QED BY <1>1, <1>2, WFMin
<1>4. PICK t \in T : x = n - t
  BY <1>3
<1>5. ASSUME NEW u \in T PROVE t >= u
  <2> DEFINE y == n - u
  <2>1. y \in gaps /\ y \in Nat /\ x \in Nat
    BY <1>2, <1>3
  <2>2. ~(y < x)
    <3> HIDE DEF y, gaps
    <3>1. ~(<<y, x>> \in Farther)
      BY <1>3, <2>1
    <3>2. <<y, x>> \in Nat \X Nat /\ <<y, x>>[1] = y /\ <<y, x>>[2] = x
      BY <2>1
    <3>3. y < x => <<y, x>> \in Farther
      BY <3>2, Zenon DEF Farther, OpToRel
    <3> QED BY <3>1, <3>3
  <2> QED BY <1>4, <2>2
<1>6. \E m \in T : \A u \in T : m >= u
  BY <1>5
<1> QED BY <1>6 DEF Max

LEMMA LatestIsThere ==
  ASSUME TypeOK, TermsOf(Home) # {}
  PROVE  LatestTerm \in TermsOf(Home) /\ \A t \in TermsOf(Home) : LatestTerm >= t
<1>1. MaxTerms \in Nat /\ TermsOf(Home) \in SUBSET (0 .. MaxTerms)
  BY SchoolYearAssumption DEF TermsOf, Present, TermIds
<1> QED BY <1>1, LastIsThere DEF LatestTerm

LEMMA LatestOrNone ==
  ASSUME TypeOK, TermsOf(Home) # {}
  PROVE  Max(TermsOf(Home) \cup {0}) = LatestTerm
<1> DEFINE T == TermsOf(Home)
<1>1. MaxTerms \in Nat /\ T \in SUBSET (1 .. MaxTerms)
  BY SchoolYearAssumption DEF TermsOf, Present, TermIds
<1>2. T \cup {0} \in SUBSET (0 .. MaxTerms)
  BY <1>1
<1>3. /\ Max(T \cup {0}) \in T \cup {0}
      /\ \A t \in T \cup {0} : Max(T \cup {0}) >= t
  <2> HIDE DEF T
  <2> QED BY <1>1, <1>2, LastIsThere
<1>4. LatestTerm \in T /\ \A t \in T : LatestTerm >= t
  BY LatestIsThere
<1>5. Max(T \cup {0}) = LatestTerm
  <2> DEFINE m == Max(T \cup {0})
  <2>1. m \in T \cup {0} /\ LatestTerm \in T /\ m >= LatestTerm
    BY <1>3, <1>4
  <2>2. m \in T => LatestTerm >= m
    BY <1>4
  <2> HIDE DEF T, m
  <2>3. m \in Nat /\ LatestTerm \in Nat /\ LatestTerm > 0
    BY <1>1, <2>1
  <2>4. m = LatestTerm
    BY <2>1, <2>2, <2>3
  <2> QED BY <2>4 DEF m
<1> QED BY <1>5

-----------------------------------------------------------------------------
(* Types.                                                                  *)

SameTerms ==
  /\ term' \in [TermIds -> Term \cup {NoTerm}] /\ lastTerm' = lastTerm
  /\ Present' = Present /\ \A t \in Present : term'[t].session = term[t].session

LEMMA SameTermsOf ==
  ASSUME SameTerms
  PROVE  \A s : TermsOf(s)' = TermsOf(s)
BY DEF SameTerms, TermsOf, SchoolOfTerm

LEMMA TermIsRow ==
  ASSUME TypeOK, NEW t \in Present
  PROVE  /\ t \in TermIds /\ term[t] \in Term /\ SchoolOfTerm(t) \in Schools
         /\ term[t].session \in Sessions
<1>1. t \in TermIds /\ term[t] \in Term
  BY DEF TypeOK, Present
<1>2. term[t].session \in Sessions
  BY <1>1 DEF Term
<1> QED BY <1>1, <1>2, SchoolYearAssumption DEF SchoolOfTerm

LEMMA TermIsNotNone ==
  ASSUME NEW row \in Term PROVE row # NoTerm
<1>1. row.status \in {"active", "closed"}
  BY DEF Term
<1>2. NoTerm.status = "none"
  BY DEF NoTerm
<1> QED BY <1>1, <1>2

LEMMA MarkIsNotNone ==
  ASSUME NEW m \in Mark PROVE m # NoMark
<1>1. m.status \in {"present", "absent", "late"}
  BY DEF Mark, Statuses
<1>2. NoMark.status = "none"
  BY DEF NoMark
<1> QED BY <1>1, <1>2

LEMMA IdleFits == /\ Idle \in Call /\ CallFits(Idle) /\ Idle.pc = "idle"
                  /\ DOMAIN Idle.todo = {}
<1>1. <<>> \in Todos
  <2>1. <<>> \in [DOMAIN <<>> -> {"find", "insert", "update", "done", "refused"}]
    OBVIOUS
  <2> QED BY <2>1 DEF Todos
<1>2. NoClock \in Clock
  BY SchoolYearAssumption DEF NoClock, Clock
<1>3. 0 \in 0 .. MaxTerms /\ 0 \in 0 .. MaxTime
  BY SchoolYearAssumption
<1> QED BY <1>1, <1>2, <1>3 DEF Idle, Call, Pcs, CallFits, Activating, OfClock, Saving

LEMMA BeginsType ==
  ASSUME TypeInv, NEW k \in Calls, NEW first \in Call, CallFits(first), Begins(k, first),
         UNCHANGED <<year, days>>,
         opened' \in [Schools -> 0 .. MaxTerms], given' \in [Pupils -> SUBSET Statuses],
         corrected' \in [Staff -> 0 .. MaxTime], touched' \subseteq Staff
  PROVE  TypeInv'
<1>1. /\ UNCHANGED <<session, term, lastTerm, mark, clock, now>>
      /\ At(k, "idle") /\ call' = [call EXCEPT ![k] = first]
      /\ begun < MaxCalls /\ begun' = begun + 1
      /\ alone' = {} \/ (alone' = {k} /\ \A j \in Calls : At(j, "idle"))
  BY DEF Begins, year, days
<1>2. call \in [Calls -> Call] /\ Present' = Present
  BY <1>1 DEF TypeInv, TypeOK, Present
<1>3. \A s : TermsOf(s)' = TermsOf(s)
  BY <1>1, <1>2 DEF TermsOf, SchoolOfTerm
<1>4. TypeOK'
  BY <1>1, <1>2, <1>3, SchoolYearAssumption DEF TypeInv, TypeOK
<1>5. ASSUME NEW j \in Calls PROVE CallFits(call[j])'
  <2>1. CallFits(call'[j])
    BY <1>1, <1>2 DEF TypeInv, CallsInv
  <2> QED BY <1>1, <1>2, <1>3, <2>1 DEF CallFits
<1>6. AloneInv'
  BY <1>1, <1>2 DEF AloneInv, At
<1> QED BY <1>4, <1>5, <1>6 DEF TypeInv, CallsInv

LEMMA StepType ==
  ASSUME TypeInv, NEW k \in Calls, ~At(k, "idle"),
         NEW c \in Call, CallFits(c), call' = [call EXCEPT ![k] = c],
         UNCHANGED <<begun, alone, now>>, SameTerms,
         session' \in [Sessions -> SessionState],
         \A e \in Sessions : session[e] # "none" => session'[e] # "none",
         mark' \in [Pupils -> Mark \cup {NoMark}],
         \A p \in Pupils : mark[p] # NoMark => mark'[p] # NoMark,
         \A p \in Pupils : mark'[p] # NoMark => mark'[p].term \in TermsOf(Home),
         clock' \in [Staff -> Clock],
         opened' \in [Schools -> 0 .. MaxTerms], given' \in [Pupils -> SUBSET Statuses],
         corrected' \in [Staff -> 0 .. MaxTime], touched' \subseteq Staff
  PROVE  TypeInv'
<1>1. call \in [Calls -> Call] /\ \A s : TermsOf(s)' = TermsOf(s)
  BY SameTermsOf DEF TypeInv, TypeOK
<1>2. TypeOK'
  <2>1. \A t \in Present' : (session[term[t].session] # "none")'
    BY TermIsRow DEF TypeInv, TypeOK, SameTerms
  <2>2. \A p \in Pupils : (mark[p] # NoMark => mark[p].term \in TermsOf(Home))'
    BY <1>1
  <2> QED BY <1>1, <2>1, <2>2 DEF TypeInv, TypeOK, SameTerms
<1>3. CallsInv'
  <2>1. ASSUME NEW j \in Calls PROVE CallFits(call[j])'
    <3>1. CallFits(call'[j])
      BY <1>1 DEF TypeInv, CallsInv
    <3>2. call'[j].pc = "mark" =>
            \A i \in DOMAIN call'[j].todo : call'[j].register[i].pupil \in Pupils
      BY <3>1, SchoolYearAssumption DEF CallFits
    <3> QED BY <1>1, <3>1, <3>2 DEF CallFits, SameTerms
  <2> QED BY <2>1 DEF CallsInv
<1>4. AloneInv'
  BY <1>1 DEF TypeInv, AloneInv, At
<1> QED BY <1>2, <1>3, <1>4 DEF TypeInv

LEMMA GoesFits ==
  ASSUME TypeInv, NEW k \in Calls, call[k].pc \in Activating, NEW pc \in Activating, Goes(k, pc)
  PROVE  /\ UNCHANGED <<begun, alone>> /\ ~At(k, "idle") /\ call[k].term \in Present
         /\ \E c \in Call : /\ call' = [call EXCEPT ![k] = c] /\ CallFits(c)
                            /\ c.pc = pc /\ c.term = call[k].term
<1> DEFINE c == [call[k] EXCEPT !.pc = pc]
<1>1. call[k] \in Call /\ call \in [Calls -> Call] /\ CallFits(call[k])
  BY DEF TypeInv, TypeOK, CallsInv
<1>2. c \in Call /\ c.pc = pc /\ c.term = call[k].term /\ c.todo = call[k].todo
  BY <1>1 DEF Call, Pcs, Activating
<1>3. CallFits(c)
  BY <1>1, <1>2 DEF CallFits, Activating, OfClock, Saving
<1>4. call' = [call EXCEPT ![k] = c] /\ UNCHANGED <<begun, alone>>
  BY <1>1 DEF Goes
<1>5. call[k].term \in Present /\ ~At(k, "idle")
  BY <1>1 DEF CallFits, Activating, At
<1> HIDE DEF c
<1> QED BY <1>2, <1>3, <1>4, <1>5

LEMMA YearSame ==
  ASSUME TypeOK, UNCHANGED year
  PROVE  /\ SameTerms /\ session' \in [Sessions -> SessionState]
         /\ \A e \in Sessions : session[e] # "none" => session'[e] # "none"
BY DEF TypeOK, year, SameTerms, Present

LEMMA DaysSame ==
  ASSUME TypeOK, UNCHANGED days
  PROVE  /\ now' = now /\ mark' \in [Pupils -> Mark \cup {NoMark}]
         /\ \A p \in Pupils : mark[p] # NoMark => mark'[p] # NoMark
         /\ \A p \in Pupils : mark'[p] # NoMark => mark'[p].term \in TermsOf(Home)
         /\ clock' \in [Staff -> Clock]
BY DEF TypeOK, days

LEMMA StatusesChange ==
  ASSUME TypeOK, NEW T \in SUBSET Present, NEW status \in {"active", "closed"},
         term' = [t \in TermIds |-> IF t \in T THEN [term[t] EXCEPT !.status = status]
                                    ELSE term[t]],
         lastTerm' = lastTerm
  PROVE  SameTerms
<1>1. ASSUME NEW t \in T
      PROVE  /\ [term[t] EXCEPT !.status = status] \in Term
             /\ [term[t] EXCEPT !.status = status] # NoTerm
             /\ [term[t] EXCEPT !.status = status].session = term[t].session
  <2>1. term[t] \in Term
    BY TermIsRow
  <2>2. [term[t] EXCEPT !.status = status] \in Term
    BY <2>1 DEF Term
  <2> QED BY <2>1, <2>2, TermIsNotNone DEF Term
<1>2. term' \in [TermIds -> Term \cup {NoTerm}]
  BY <1>1 DEF TypeOK, Present
<1>3. Present' = Present
  BY <1>1, <1>2 DEF Present
<1>4. \A t \in Present : term'[t].session = term[t].session
  BY <1>1 DEF Present
<1> QED BY <1>2, <1>3, <1>4 DEF SameTerms

LEMMA YearStepsType ==
  ASSUME TypeInv, NEW k \in Calls,
         DeactivateSessions(k) \/ ActivateSession(k) \/ CloseTerms(k) \/ OpenTerm(k)
  PROVE  TypeInv'
<1>1. TypeOK /\ call[k].pc \in Activating
  BY DEF TypeInv, DeactivateSessions, ActivateSession, CloseTerms, OpenTerm, At, Activating
<1>2. call[k].term \in Present /\ ~At(k, "idle")
  BY <1>1 DEF TypeInv, CallsInv, CallFits, Activating, At
<1>3. UNCHANGED <<days, given, corrected, touched>>
  BY DEF DeactivateSessions, ActivateSession, CloseTerms, OpenTerm
<1>4. /\ given' \in [Pupils -> SUBSET Statuses] /\ corrected' \in [Staff -> 0 .. MaxTime]
      /\ touched' \subseteq Staff
  BY <1>1, <1>3 DEF TypeOK
<1>5. CASE DeactivateSessions(k)
  <2>1. /\ session' \in [Sessions -> SessionState]
        /\ \A e \in Sessions : session[e] # "none" => session'[e] # "none"
    BY <1>1, <1>5 DEF DeactivateSessions, TypeOK, SessionState
  <2>2. SameTerms /\ opened' \in [Schools -> 0 .. MaxTerms]
    BY <1>1, <1>5 DEF DeactivateSessions, TypeOK, SameTerms, Present
  <2>3. PICK c \in Call : call' = [call EXCEPT ![k] = c] /\ CallFits(c)
    BY <1>1, <1>5, GoesFits DEF DeactivateSessions, Activating
  <2>4. UNCHANGED <<begun, alone>>
    BY <1>5 DEF DeactivateSessions, Goes
  <2> QED BY <1>1, <1>2, <1>3, <1>4, <2>1, <2>2, <2>3, <2>4, DaysSame, StepType
<1>6. CASE ActivateSession(k)
  <2>1. /\ session' \in [Sessions -> SessionState]
        /\ \A e \in Sessions : session[e] # "none" => session'[e] # "none"
    BY <1>1, <1>6 DEF ActivateSession, TypeOK, SessionState
  <2>2. SameTerms /\ opened' \in [Schools -> 0 .. MaxTerms]
    BY <1>1, <1>6 DEF ActivateSession, TypeOK, SameTerms, Present
  <2>3. PICK c \in Call : call' = [call EXCEPT ![k] = c] /\ CallFits(c)
    BY <1>1, <1>6, GoesFits DEF ActivateSession, Activating
  <2>4. UNCHANGED <<begun, alone>>
    BY <1>6 DEF ActivateSession, Goes
  <2> QED BY <1>1, <1>2, <1>3, <1>4, <2>1, <2>2, <2>3, <2>4, DaysSame, StepType
<1>7. CASE CloseTerms(k)
  <2>1. /\ session' \in [Sessions -> SessionState]
        /\ \A e \in Sessions : session[e] # "none" => session'[e] # "none"
        /\ opened' \in [Schools -> 0 .. MaxTerms]
    BY <1>1, <1>7 DEF CloseTerms, TypeOK
  <2>2. SameTerms
    <3>1. TermsOf(SchoolOfTerm(call[k].term)) \in SUBSET Present
      BY DEF TermsOf
    <3> QED BY <1>1, <1>7, <3>1, StatusesChange DEF CloseTerms
  <2>3. PICK c \in Call : call' = [call EXCEPT ![k] = c] /\ CallFits(c)
    BY <1>1, <1>7, GoesFits DEF CloseTerms, Activating
  <2>4. UNCHANGED <<begun, alone>>
    BY <1>7 DEF CloseTerms, Goes
  <2> QED BY <1>1, <1>2, <1>3, <1>4, <2>1, <2>2, <2>3, <2>4, DaysSame, StepType
<1>8. CASE OpenTerm(k)
  <2>1. /\ session' \in [Sessions -> SessionState]
        /\ \A e \in Sessions : session[e] # "none" => session'[e] # "none"
    BY <1>1, <1>8 DEF OpenTerm, TypeOK
  <2>2. opened' \in [Schools -> 0 .. MaxTerms]
    <3>1. opened \in [Schools -> 0 .. MaxTerms] /\ call[k].term \in 0 .. MaxTerms
      BY <1>1, <1>2, SchoolYearAssumption DEF TypeOK, Present, TermIds
    <3>2. \/ opened' = opened
          \/ opened' = [opened EXCEPT ![SchoolOfTerm(call[k].term)] = call[k].term]
      BY <1>8 DEF OpenTerm
    <3> QED BY <3>1, <3>2
  <2>3. SameTerms
    <3>1. term' = [t \in TermIds |-> IF t \in {call[k].term}
                     THEN [term[t] EXCEPT !.status = "active"] ELSE term[t]]
      BY <1>1, <1>2, <1>8 DEF OpenTerm, TypeOK
    <3>2. {call[k].term} \in SUBSET Present /\ lastTerm' = lastTerm
      BY <1>2, <1>8 DEF OpenTerm
    <3> QED BY <1>1, <3>1, <3>2, StatusesChange
  <2>4. call' = [call EXCEPT ![k] = Idle] /\ UNCHANGED <<begun, alone>>
    BY <1>8 DEF OpenTerm, Ends
  <2> QED BY <1>1, <1>2, <1>3, <1>4, <2>1, <2>2, <2>3, <2>4, DaysSame, IdleFits, StepType
<1> QED BY <1>5, <1>6, <1>7, <1>8

LEMMA YearChangesType ==
  ASSUME TypeInv,
         \/ \E e \in Sessions : CreateSession(e) \/ CreateTerm(e)
         \/ \E t \in TermIds : CloseTerm(t) \/ UnlockTerm(t)
  PROVE  TypeInv'
<1>1. TypeOK /\ call \in [Calls -> Call]
  BY DEF TypeInv, TypeOK
<1>2. /\ call' = call /\ alone' = {} /\ begun < MaxCalls /\ begun' = begun + 1
      /\ UNCHANGED <<mark, clock, now, given, corrected, touched>>
  BY DEF CreateSession, CreateTerm, CloseTerm, UnlockTerm, SetStatus, Passes, days
<1>3. begun' \in 0 .. MaxCalls
  BY <1>1, <1>2, SchoolYearAssumption DEF TypeOK
<1>4. AloneInv'
  BY <1>2 DEF AloneInv
<1>5. CASE \E e \in Sessions : CreateSession(e)
  <2>1. PICK e \in Sessions : CreateSession(e)
    BY <1>5
  <2>2. SameTerms /\ UNCHANGED <<term, lastTerm, opened>>
    BY <1>1, <2>1 DEF CreateSession, SameTerms, Present, TypeOK
  <2>3. \A s : TermsOf(s)' = TermsOf(s)
    BY <2>2, SameTermsOf
  <2>4. \A x \in Present : session'[term[x].session] # "none"
    BY <1>1, <2>1, TermIsRow DEF CreateSession, TypeOK
  <2>5. TypeOK'
    BY <1>1, <1>2, <1>3, <2>1, <2>2, <2>3, <2>4 DEF CreateSession, TypeOK, SessionState, SameTerms
  <2>6. CallsInv'
    BY <1>2, <2>2, <2>3 DEF TypeInv, CallsInv, CallFits, SameTerms
  <2> QED BY <1>4, <2>5, <2>6 DEF TypeInv
<1>6. CASE \E e \in Sessions : CreateTerm(e)
  <2>1. PICK e \in Sessions : CreateTerm(e)
    BY <1>6
  <2> DEFINE new == lastTerm + 1
             row == [session |-> e, status |-> "closed"]
  <2>2. /\ new \in TermIds /\ new \notin Present /\ lastTerm' = new /\ row \in Term
        /\ term' = [term EXCEPT ![new] = row] /\ UNCHANGED <<session, opened>>
        /\ session[e] # "none"
    BY <1>1, <2>1, SchoolYearAssumption DEF CreateTerm, TypeOK, TermIds, Term
  <2>3. Present' = Present \cup {new} /\ \A x \in Present : term'[x] = term[x]
    BY <1>1, <2>2, TermIsNotNone DEF TypeOK, Present
  <2>4. \A s : TermsOf(s) \subseteq TermsOf(s)'
    BY <2>3 DEF TermsOf, SchoolOfTerm
  <2>5. Present' = 1 .. lastTerm' /\ lastTerm' \in 0 .. MaxTerms
    BY <1>1, <2>2, <2>3 DEF TypeOK, TermIds
  <2>6. \A x \in Present' : session'[term'[x].session] # "none"
    BY <1>1, <2>2, <2>3 DEF TypeOK
  <2>7. term' \in [TermIds -> Term \cup {NoTerm}]
    BY <1>1, <2>2 DEF TypeOK
  <2>8. TypeOK'
    <3> HIDE DEF new, row
    <3> QED BY <1>1, <1>2, <1>3, <2>2, <2>4, <2>5, <2>6, <2>7 DEF TypeOK
  <2>9. CallsInv'
    <3> HIDE DEF new, row
    <3> QED BY <1>2, <2>3, <2>4 DEF TypeInv, CallsInv, CallFits
  <2> QED BY <1>4, <2>8, <2>9 DEF TypeInv
<1>7. CASE \E t \in TermIds : CloseTerm(t) \/ UnlockTerm(t)
  <2>1. PICK t \in TermIds, status \in {"active", "closed"} : SetStatus(t, status)
    BY <1>7 DEF CloseTerm, UnlockTerm
  <2>2. /\ t \in Present /\ UNCHANGED <<session, lastTerm>>
        /\ term' = [term EXCEPT ![t].status = status]
        /\ opened' = [opened EXCEPT ![SchoolOfTerm(t)] = 0]
    BY <2>1 DEF SetStatus
  <2>3. SameTerms
    <3>1. term' = [x \in TermIds |-> IF x \in {t}
                     THEN [term[x] EXCEPT !.status = status] ELSE term[x]]
      BY <1>1, <2>2 DEF TypeOK
    <3>2. {t} \in SUBSET Present
      BY <2>2
    <3> QED BY <1>1, <2>2, <3>1, <3>2, StatusesChange
  <2>4. \A s : TermsOf(s)' = TermsOf(s)
    BY <2>3, SameTermsOf
  <2>5. opened' \in [Schools -> 0 .. MaxTerms]
    <3>1. opened \in [Schools -> 0 .. MaxTerms] /\ 0 \in 0 .. MaxTerms
      BY <1>1, SchoolYearAssumption DEF TypeOK
    <3> QED BY <2>2, <3>1
  <2>6. \A x \in Present' : session'[term'[x].session] # "none"
    BY <1>1, <2>2, <2>3 DEF TypeOK, SameTerms
  <2>7. TypeOK'
    BY <1>1, <1>2, <1>3, <2>2, <2>3, <2>4, <2>5, <2>6 DEF TypeOK, SameTerms
  <2>8. CallsInv'
    BY <1>2, <2>3, <2>4 DEF TypeInv, CallsInv, CallFits, SameTerms
  <2> QED BY <1>4, <2>7, <2>8 DEF TypeInv
<1> QED BY <1>5, <1>6, <1>7

LEMMA BeginType ==
  ASSUME TypeInv, NEW k \in Calls, Begin(k)
  PROVE  TypeInv'
<1>1. TypeOK /\ Idle \in Call /\ DOMAIN Idle.todo = {}
  BY IdleFits DEF TypeInv
<1>2. ASSUME NEW t \in TermIds, ActivateTerm(k, t) PROVE TypeInv'
  <2> DEFINE first == [Idle EXCEPT !.pc = "deactivate sessions", !.term = t]
  <2>1. t \in Present /\ t \in 0 .. MaxTerms
    BY <1>2, SchoolYearAssumption DEF ActivateTerm, TermIds
  <2>2. first \in Call /\ CallFits(first)
    <3>1. first \in Call /\ first.pc = "deactivate sessions" /\ first.term = t
          /\ first.todo = Idle.todo
      BY <1>1, <2>1 DEF Call, Pcs
    <3> HIDE DEF first
    <3> QED BY <1>1, <2>1, <3>1 DEF CallFits, OfClock, Saving
  <2>3. /\ Begins(k, first) /\ UNCHANGED <<year, days, given, corrected, touched>>
        /\ opened' = [opened EXCEPT ![SchoolOfTerm(t)] = 0]
    BY <1>2 DEF ActivateTerm
  <2>4. opened' \in [Schools -> 0 .. MaxTerms]
    <3>1. opened \in [Schools -> 0 .. MaxTerms] /\ 0 \in 0 .. MaxTerms
      BY <1>1, SchoolYearAssumption DEF TypeOK
    <3> QED BY <2>3, <3>1
  <2>5. /\ given' \in [Pupils -> SUBSET Statuses] /\ corrected' \in [Staff -> 0 .. MaxTime]
        /\ touched' \subseteq Staff
    BY <1>1, <2>3 DEF TypeOK
  <2> HIDE DEF first
  <2> QED BY <2>2, <2>3, <2>4, <2>5, BeginsType
<1>3. ASSUME NEW c \in Classes, NEW r \in Registers, MarkStudentAttendance(k, c, r)
      PROVE  TypeInv'
  <2> DEFINE first == [Idle EXCEPT !.pc = "mark", !.term = LatestTerm, !.class = c,
                        !.register = r, !.todo = [i \in DOMAIN r |-> "find"]]
  <2>1. LatestTerm \in TermsOf(Home) /\ LatestTerm \in 0 .. MaxTerms
    BY <1>1, <1>3, LatestIsThere, SchoolYearAssumption
    DEF MarkStudentAttendance, TermsOf, Present, TermIds
  <2>2. [i \in DOMAIN r |-> "find"] \in Todos
    <3>1. [i \in DOMAIN r |-> "find"]
            \in [DOMAIN r -> {"find", "insert", "update", "done", "refused"}]
      OBVIOUS
    <3> QED BY <3>1 DEF Todos
  <2>3. first \in Call
    BY <1>1, <2>1, <2>2 DEF Idle, Call, Pcs
  <2>4. CallFits(first)
    BY <2>1 DEF Idle, CallFits, Activating, OfClock, Saving
  <2>5. /\ Begins(k, first) /\ UNCHANGED <<year, days, opened, corrected, touched>>
        /\ given' = [p \in Pupils |-> IF p \in PupilsOf(r) THEN {} ELSE given[p]]
    BY <1>3 DEF MarkStudentAttendance
  <2>6. given' \in [Pupils -> SUBSET Statuses]
    BY <1>1, <2>5 DEF TypeOK
  <2>7. /\ opened' \in [Schools -> 0 .. MaxTerms] /\ corrected' \in [Staff -> 0 .. MaxTime]
        /\ touched' \subseteq Staff
    BY <1>1, <2>5 DEF TypeOK
  <2> HIDE DEF first
  <2> QED BY <2>3, <2>4, <2>5, <2>6, <2>7, BeginsType
<1>4. ASSUME NEW u \in Staff, ClockAction(k, u) \/ MarkAttendanceWithQr(k, u) PROVE TypeInv'
  <2>1. PICK pc \in {"photo", "scan"} :
          /\ Begins(k, [Idle EXCEPT !.pc = pc, !.user = u])
          /\ UNCHANGED <<year, days, opened, given, corrected, touched>>
    BY <1>4 DEF ClockAction, MarkAttendanceWithQr
  <2> DEFINE first == [Idle EXCEPT !.pc = pc, !.user = u]
  <2>2. first \in Call /\ CallFits(first)
    <3>1. first \in Call /\ first.pc = pc /\ first.user = u /\ first.todo = Idle.todo
      BY <1>1 DEF Call, Pcs
    <3> HIDE DEF first
    <3> QED BY <1>1, <3>1 DEF CallFits, Activating
  <2>3. Begins(k, first)
    BY <2>1
  <2>4. /\ opened' \in [Schools -> 0 .. MaxTerms] /\ given' \in [Pupils -> SUBSET Statuses]
        /\ corrected' \in [Staff -> 0 .. MaxTime] /\ touched' \subseteq Staff
    BY <1>1, <2>1 DEF TypeOK
  <2> HIDE DEF first
  <2> QED BY <2>1, <2>2, <2>3, <2>4, BeginsType
<1>5. ASSUME NEW u \in Staff, NEW c \in Corrections, ManualStaffAttendance(k, u, c)
      PROVE  TypeInv'
  <2> DEFINE r == clock[u]
             object == [in |-> IF c.in # 0 THEN c.in ELSE r.in,
                        out |-> IF c.out # 0 THEN c.out ELSE r.out,
                        late |-> r.late, manual |-> TRUE, row |-> TRUE]
             first == [Idle EXCEPT !.user = u, !.manual = c.in,
                        !.pc = IF r.row THEN "compare" ELSE "insert", !.object = object]
  <2>1. c.in \in 0 .. MaxTime /\ c.out \in 0 .. MaxTime /\ r \in Clock
    BY <1>1, SchoolYearAssumption DEF TypeOK
  <2>2. object \in Clock
    BY <2>1 DEF Clock
  <2>3. first \in Call /\ CallFits(first)
    <3>1. first \in Call /\ first.pc \in {"compare", "insert"} /\ first.user = u
          /\ first.todo = Idle.todo
      <4> HIDE DEF object, r
      <4> QED BY <1>1, <2>1, <2>2 DEF Call, Pcs
    <3> HIDE DEF first
    <3> QED BY <1>1, <3>1 DEF CallFits, Activating
  <2>4. Begins(k, first) /\ touched' = touched \cup {u}
        /\ UNCHANGED <<year, days, opened, given, corrected>>
    BY <1>5 DEF ManualStaffAttendance
  <2>5. /\ opened' \in [Schools -> 0 .. MaxTerms] /\ given' \in [Pupils -> SUBSET Statuses]
        /\ corrected' \in [Staff -> 0 .. MaxTime] /\ touched' \subseteq Staff
    BY <1>1, <2>4 DEF TypeOK
  <2> HIDE DEF first
  <2> QED BY <2>3, <2>4, <2>5, BeginsType
<1> QED BY <1>2, <1>3, <1>4, <1>5 DEF Begin

LEMMA TickType ==
  ASSUME TypeInv, Tick
  PROVE  TypeInv'
<1>1. /\ now < MaxTime /\ now' = now + 1
      /\ UNCHANGED <<session, term, lastTerm, mark, clock, call, begun, alone, opened, given,
                     corrected, touched>>
  BY DEF Tick, year
<1>2. now' \in 0 .. MaxTime
  BY <1>1, SchoolYearAssumption DEF TypeInv, TypeOK
<1>3. Present' = Present /\ \A s : TermsOf(s)' = TermsOf(s)
  BY <1>1 DEF Present, TermsOf, SchoolOfTerm
<1>4. TypeOK'
  BY <1>1, <1>2, <1>3 DEF TypeInv, TypeOK
<1>5. CallsInv'
  BY <1>1, <1>3 DEF TypeInv, CallsInv, CallFits
<1>6. AloneInv'
  BY <1>1 DEF TypeInv, AloneInv, At
<1> QED BY <1>4, <1>5, <1>6 DEF TypeInv

LEMMA RegisterStepsType ==
  ASSUME TypeInv, NEW k \in Calls,
         \/ \E i \in DOMAIN call[k].todo : FindMark(k, i) \/ InsertMark(k, i) \/ UpdateMark(k, i)
         \/ EndMark(k)
  PROVE  TypeInv'
<1>1. TypeOK /\ call[k] \in Call /\ CallFits(call[k]) /\ call \in [Calls -> Call]
  BY DEF TypeInv, TypeOK, CallsInv
<1>2. /\ At(k, "mark") /\ ~At(k, "idle")
      /\ UNCHANGED <<year, clock, now, begun, alone, opened, corrected, touched>>
  BY DEF FindMark, InsertMark, UpdateMark, EndMark, Marked, Todo, Does, Ends, At, days
<1>3. /\ call[k].term \in TermsOf(Home) /\ call[k].class \in Classes
      /\ call[k].register \in Registers /\ DOMAIN call[k].todo = DOMAIN call[k].register
      /\ call[k].term \in TermIds
  BY <1>1, <1>2 DEF CallFits, At, TermsOf, Present
<1>4. /\ SameTerms /\ session' \in [Sessions -> SessionState]
      /\ \A e \in Sessions : session[e] # "none" => session'[e] # "none"
  BY <1>1, <1>2, YearSame
<1>5. /\ opened' \in [Schools -> 0 .. MaxTerms] /\ corrected' \in [Staff -> 0 .. MaxTime]
      /\ touched' \subseteq Staff /\ clock' \in [Staff -> Clock] /\ now' = now
  BY <1>1, <1>2 DEF TypeOK
<1>6. ASSUME NEW i \in DOMAIN call[k].todo,
             FindMark(k, i) \/ InsertMark(k, i) \/ UpdateMark(k, i)
      PROVE  TypeInv'
  <2>1. PICK next \in {"find", "insert", "update", "done", "refused"} :
          /\ Does(k, i, next)
          /\ next = "update" => mark[call[k].register[i].pupil] # NoMark
    BY <1>6 DEF FindMark, InsertMark, UpdateMark
  <2> DEFINE c == [call[k] EXCEPT !.todo[i] = next]
             p == call[k].register[i].pupil
  <2>2. c \in Call /\ CallFits(c)
    <3>1. [call[k].todo EXCEPT ![i] = next] \in Todos
      <4>1. call[k].todo \in [DOMAIN call[k].register ->
                                {"find", "insert", "update", "done", "refused"}]
        BY <1>1, <1>3 DEF Call, Todos
      <4> QED BY <1>3, <4>1 DEF Todos
    <3>2. DOMAIN [call[k].todo EXCEPT ![i] = next] = DOMAIN call[k].todo
      OBVIOUS
    <3>3. c = [call[k] EXCEPT !.todo = [call[k].todo EXCEPT ![i] = next]]
      BY <1>1 DEF Call
    <3>4. /\ c \in Call /\ c.pc = call[k].pc /\ c.term = call[k].term
          /\ c.class = call[k].class /\ c.register = call[k].register
          /\ c.todo = [call[k].todo EXCEPT ![i] = next]
      <4> HIDE DEF c
      <4> QED BY <1>1, <3>1, <3>3 DEF Call
    <3> HIDE DEF c
    <3>6. \A j \in DOMAIN c.todo : c.todo[j] = "update" => mark[c.register[j].pupil] # NoMark
      <4> HIDE DEF c
      <4> QED BY <1>1, <1>2, <2>1, <3>2, <3>4 DEF CallFits, At
    <3> HIDE DEF c, p
    <3> QED BY <1>2, <1>3, <3>2, <3>4, <3>6 DEF CallFits, At, Activating, OfClock, Saving
  <2>3. call' = [call EXCEPT ![k] = c]
    BY <1>1, <2>1 DEF Does
  <2>4. p \in Pupils /\ call[k].register[i].status \in Statuses
    BY <1>3, SchoolYearAssumption
  <2>5. /\ mark' \in [Pupils -> Mark \cup {NoMark}]
        /\ \A q \in Pupils : mark[q] # NoMark => mark'[q] # NoMark
        /\ \A q \in Pupils : mark'[q] # NoMark => mark'[q].term \in TermsOf(Home)
    <3>1. CASE FindMark(k, i)
      BY <1>1, <3>1 DEF FindMark, days, TypeOK
    <3>2. CASE InsertMark(k, i)
      <4> DEFINE m == [class |-> call[k].class, term |-> call[k].term,
                       status |-> call[k].register[i].status]
      <4>1. m \in Mark
        BY <1>3, <2>4 DEF Mark
      <4>2. mark' = mark \/ mark' = [mark EXCEPT ![p] = m]
        BY <3>2 DEF InsertMark
      <4>3. m.term \in TermsOf(Home) /\ m # NoMark
        BY <1>3, <4>1, MarkIsNotNone
      <4> HIDE DEF m, p
      <4> QED BY <1>1, <4>1, <4>2, <4>3 DEF TypeOK
    <3>3. CASE UpdateMark(k, i)
      <4> DEFINE m == [mark[p] EXCEPT !.status = call[k].register[i].status]
      <4>1. mark' = [mark EXCEPT ![p] = m]
        BY <1>1, <3>3 DEF UpdateMark
      <4>2. mark[p] # NoMark
        BY <1>1, <1>2, <3>3 DEF CallFits, UpdateMark, Todo, At
      <4>3. m \in Mark /\ m.term \in TermsOf(Home)
        BY <1>1, <2>4, <4>2 DEF TypeOK, Mark
      <4>4. m # NoMark
        BY <4>3, MarkIsNotNone
      <4> HIDE DEF m, p
      <4> QED BY <1>1, <4>1, <4>3, <4>4 DEF TypeOK
    <3> QED BY <1>6, <3>1, <3>2, <3>3
  <2>6. given' \in [Pupils -> SUBSET Statuses]
    BY <1>1, <1>6 DEF FindMark, InsertMark, UpdateMark, TypeOK
  <2> HIDE DEF c
  <2> QED BY <1>2, <1>4, <1>5, <2>2, <2>3, <2>5, <2>6, StepType
<1>7. CASE EndMark(k)
  <2>1. mark' = mark /\ call' = [call EXCEPT ![k] = Idle]
    BY <1>7 DEF EndMark, Ends, days
  <2>2. \A j \in DOMAIN call[k].register : call[k].register[j].status \in Statuses
    BY <1>3, SchoolYearAssumption
  <2>3. given' \in [Pupils -> SUBSET Statuses]
    BY <1>1, <1>7, <2>2 DEF EndMark, TypeOK
  <2>4. /\ mark' \in [Pupils -> Mark \cup {NoMark}]
        /\ \A q \in Pupils : mark[q] # NoMark => mark'[q] # NoMark
        /\ \A q \in Pupils : mark'[q] # NoMark => mark'[q].term \in TermsOf(Home)
    BY <1>1, <2>1 DEF TypeOK
  <2> QED BY <1>2, <1>4, <1>5, <2>1, <2>3, <2>4, IdleFits, StepType
<1> QED BY <1>6, <1>7

LEMMA EndsType ==
  ASSUME TypeInv, NEW k \in Calls, ~At(k, "idle"), Ends(k),
         UNCHANGED <<year, mark, now, opened, given, touched>>,
         clock' \in [Staff -> Clock], corrected' \in [Staff -> 0 .. MaxTime]
  PROVE  TypeInv'
<1>1. TypeOK /\ call' = [call EXCEPT ![k] = Idle] /\ UNCHANGED <<begun, alone, now>>
  BY DEF TypeInv, Ends
<1>2. /\ SameTerms /\ session' \in [Sessions -> SessionState]
      /\ \A e \in Sessions : session[e] # "none" => session'[e] # "none"
  BY <1>1, YearSame
<1>3. /\ mark' \in [Pupils -> Mark \cup {NoMark}]
      /\ \A q \in Pupils : mark[q] # NoMark => mark'[q] # NoMark
      /\ \A q \in Pupils : mark'[q] # NoMark => mark'[q].term \in TermsOf(Home)
  BY <1>1 DEF TypeOK
<1>4. /\ opened' \in [Schools -> 0 .. MaxTerms] /\ given' \in [Pupils -> SUBSET Statuses]
      /\ touched' \subseteq Staff
  BY <1>1 DEF TypeOK
<1> QED BY <1>1, <1>2, <1>3, <1>4, IdleFits, StepType

LEMMA MovesType ==
  ASSUME TypeInv, NEW k \in Calls, NEW c \in Call, ~At(k, "idle"),
         call[k].pc \in OfClock, c.pc \in Saving, c.user = call[k].user, c.todo = call[k].todo,
         call' = [call EXCEPT ![k] = c],
         UNCHANGED <<year, days, begun, alone, opened, given, corrected, touched>>
  PROVE  TypeInv'
<1>1. TypeOK /\ CallFits(call[k])
  BY DEF TypeInv, CallsInv
<1>2. CallFits(c)
  BY <1>1 DEF CallFits, OfClock, Saving, Activating
<1>3. /\ opened' \in [Schools -> 0 .. MaxTerms] /\ given' \in [Pupils -> SUBSET Statuses]
      /\ corrected' \in [Staff -> 0 .. MaxTime] /\ touched' \subseteq Staff
  BY <1>1 DEF TypeOK
<1> QED BY <1>1, <1>2, <1>3, YearSame, DaysSame, StepType

LEMMA CorrectsType ==
  ASSUME TypeInv, NEW k \in Calls, call[k].user \in Staff, Corrects(k)
  PROVE  corrected' \in [Staff -> 0 .. MaxTime]
<1>1. corrected \in [Staff -> 0 .. MaxTime] /\ call[k].manual \in 0 .. MaxTime /\ 0 \in 0 .. MaxTime
  BY SchoolYearAssumption DEF TypeInv, TypeOK, Call
<1>2. PICK v \in 0 .. MaxTime : corrected' = [corrected EXCEPT ![call[k].user] = v]
  BY <1>1 DEF Corrects
<1> QED BY <1>1, <1>2

LEMMA ClockStepsType ==
  ASSUME TypeInv, NEW k \in Calls,
         ReadClock(k) \/ InsertClock(k) \/ CompareClock(k) \/ WriteClock(k) \/ CutOff(k)
  PROVE  TypeInv'
<1>1. TypeOK /\ call[k] \in Call /\ CallFits(call[k]) /\ call \in [Calls -> Call]
  BY DEF TypeInv, TypeOK, CallsInv
<1>2. CASE CutOff(k)
  BY <1>1, <1>2, EndsType DEF CutOff, days, TypeOK
<1>3. CASE ~CutOff(k)
  <2>1. call[k].pc \in OfClock /\ ~At(k, "idle")
    BY <1>3 DEF ReadClock, InsertClock, CompareClock, WriteClock, At, OfClock, Saving
  <2>2. call[k].user \in Staff /\ clock[call[k].user] \in Clock
    BY <1>1, <2>1 DEF CallFits, TypeOK
  <2>3. CASE ReadClock(k)
    <3> DEFINE r == clock[call[k].user]
               object == IF r.in = 0 THEN ClockedIn(r) ELSE [r EXCEPT !.out = now]
               pc == IF r.row THEN "compare" ELSE "insert"
               c == [call[k] EXCEPT !.object = object, !.pc = pc]
    <3>1. UNCHANGED <<year, days, opened, given, corrected, touched>>
      BY <2>3 DEF ReadClock
    <3>2. CASE Ends(k)
      BY <1>1, <2>1, <3>1, <3>2, EndsType DEF days, TypeOK
    <3>3. CASE ~Ends(k)
      <4>1. call' = [call EXCEPT ![k] = c] /\ UNCHANGED <<begun, alone>>
        BY <1>1, <2>3, <3>3 DEF ReadClock
      <4>2. object \in Clock
        <5>1. r \in Clock /\ now \in 0 .. MaxTime
          BY <1>1, <2>2 DEF TypeOK
        <5>2. ClockedIn(r) \in Clock
          <6> HIDE DEF r
          <6>1. CASE now > StartTime
            <7>1. ClockedIn(r) = [r EXCEPT !.in = now, !.late = TRUE, !.row = TRUE]
              BY <5>1, <6>1, SchoolYearAssumption DEF ClockedIn
            <7> QED BY <5>1, <7>1 DEF Clock
          <6>2. CASE ~(now > StartTime)
            <7>1. ClockedIn(r) = [r EXCEPT !.in = now, !.late = FALSE, !.row = TRUE]
              <8>1. (now > StartTime) = FALSE
                <9>1. now \in Int /\ StartTime \in Int
                  BY <5>1, SchoolYearAssumption
                <9> QED BY <6>2, <9>1
              <8> QED BY <8>1, Zenon DEF ClockedIn
            <7> QED BY <5>1, <7>1 DEF Clock
          <6> QED BY <6>1, <6>2
        <5>3. [r EXCEPT !.out = now] \in Clock
          <6> HIDE DEF r
          <6> QED BY <5>1 DEF Clock
        <5> QED BY <5>2, <5>3
      <4>3. pc \in Saving
        BY DEF Saving
      <4>4. c \in Call /\ c.pc = pc /\ c.user = call[k].user /\ c.todo = call[k].todo
        <5> HIDE DEF object, pc
        <5> QED BY <1>1, <4>2, <4>3 DEF Call, Pcs, Saving
      <4> HIDE DEF c, pc
      <4> QED BY <2>1, <3>1, <4>1, <4>3, <4>4, MovesType
    <3> QED BY <3>2, <3>3
  <2>4. CASE CompareClock(k)
    <3> DEFINE cols == {x \in Columns : call[k].object[x] # clock[call[k].user][x]}
               c == [call[k] EXCEPT !.pc = "write", !.cols = cols]
    <3>1. call' = [call EXCEPT ![k] = c]
          /\ UNCHANGED <<year, days, begun, alone, opened, given, corrected, touched>>
      BY <1>1, <2>4 DEF CompareClock
    <3>2. c \in Call /\ c.pc = "write" /\ c.user = call[k].user /\ c.todo = call[k].todo
      <4>1. cols \in SUBSET Columns
        OBVIOUS
      <4> HIDE DEF cols
      <4> QED BY <1>1, <4>1 DEF Call, Pcs
    <3>3. c.pc \in Saving
      BY <3>2 DEF Saving
    <3> HIDE DEF c
    <3> QED BY <2>1, <3>1, <3>2, <3>3, MovesType
  <2>5. CASE InsertClock(k)
    <3>1. Ends(k) /\ UNCHANGED <<year, mark, now, opened, given, touched>>
      BY <2>5 DEF InsertClock
    <3>2. corrected' \in [Staff -> 0 .. MaxTime]
      BY <1>1, <2>2, <2>5, CorrectsType DEF InsertClock, TypeOK
    <3>3. clock' \in [Staff -> Clock]
      <4>1. call[k].object \in Clock
        BY <1>1 DEF Call
      <4> QED BY <1>1, <2>5, <4>1 DEF InsertClock, TypeOK
    <3> QED BY <2>1, <3>1, <3>2, <3>3, EndsType
  <2>6. CASE WriteClock(k)
    <3> DEFINE row == [x \in DOMAIN NoClock |-> IF x \in call[k].cols THEN call[k].object[x]
                                                ELSE clock[call[k].user][x]]
    <3>1. Ends(k) /\ UNCHANGED <<year, mark, now, opened, given, touched>>
      BY <2>6 DEF WriteClock
    <3>2. corrected' \in [Staff -> 0 .. MaxTime]
      BY <2>2, <2>6, CorrectsType DEF WriteClock
    <3>3. row \in Clock
      <4>1. call[k].object \in Clock
        BY <1>1 DEF Call
      <4> QED BY <2>2, <4>1 DEF Clock, NoClock
    <3>4. clock' = [clock EXCEPT ![call[k].user] = row]
      BY <2>6 DEF WriteClock
    <3>5. clock' \in [Staff -> Clock]
      <4> HIDE DEF row
      <4> QED BY <1>1, <3>3, <3>4 DEF TypeOK
    <3> QED BY <2>1, <3>1, <3>2, <3>5, EndsType
  <2> QED BY <1>3, <2>3, <2>4, <2>5, <2>6
<1> QED BY <1>2, <1>3

LEMMA TypeStep ==
  ASSUME TypeInv, [Next]_vars
  PROVE  TypeInv'
<1>1. CASE UNCHANGED vars
  <2>1. UNCHANGED <<session, term, lastTerm, mark, clock, now, call, begun, alone, opened,
                    given, corrected, touched>>
    BY <1>1 DEF vars
  <2>2. Present' = Present /\ \A s : TermsOf(s)' = TermsOf(s)
    BY <2>1 DEF Present, TermsOf, SchoolOfTerm
  <2>3. TypeOK'
    BY <2>1, <2>2 DEF TypeInv, TypeOK
  <2>4. CallsInv'
    BY <2>1, <2>2 DEF TypeInv, CallsInv, CallFits
  <2>5. AloneInv'
    BY <2>1 DEF TypeInv, AloneInv, At
  <2> QED BY <2>3, <2>4, <2>5 DEF TypeInv
<1>2. CASE Next
  BY <1>2, BeginType, YearStepsType, RegisterStepsType, ClockStepsType, YearChangesType, TickType
  DEF Next, Step
<1> QED BY <1>1, <1>2

LEMMA TypeStart ==
  ASSUME Init
  PROVE  TypeInv
<1>1. PICK n \in 0 .. MaxTerms : \A t \in TermIds : FirstTerms[t] # NoTerm <=> t <= n
  BY SchoolYearAssumption
<1>2. n \in Nat /\ MaxTerms \in Nat /\ n <= MaxTerms
  BY SchoolYearAssumption
<1>3. Present = 1 .. n
  BY <1>1, <1>2 DEF Init, Present, TermIds
<1>4. Cardinality(1 .. n) = n
  <2>1. Cardinality(1 .. n) = IF 1 > n THEN 0 ELSE n - 1 + 1
    BY <1>2, FS_Interval
  <2> QED BY <1>2, <2>1
<1>5. lastTerm = n
  BY <1>3, <1>4 DEF Init
<1>6. /\ 0 \in 0 .. MaxTerms /\ 0 \in 0 .. MaxTime /\ 0 \in 0 .. MaxCalls
      /\ NoClock \in Clock
  BY SchoolYearAssumption DEF NoClock, Clock
<1>7. now \in 0 .. MaxTime
  BY SchoolYearAssumption DEF Init
<1>8. session \in [Sessions -> SessionState]
  BY DEF Init, SessionState
<1>9. ASSUME NEW t \in Present PROVE session[term[t].session] # "none"
  <2>1. term \in [TermIds -> Term \cup {NoTerm}]
    BY SchoolYearAssumption DEF Init
  <2>2. term[t].session \in Sessions
    BY <2>1 DEF Present, Term
  <2> QED BY <2>2 DEF Init
<1>10. TypeOK
  <2>1. term \in [TermIds -> Term \cup {NoTerm}] /\ call \in [Calls -> Call]
    BY SchoolYearAssumption, IdleFits DEF Init
  <2> QED BY <1>1, <1>3, <1>5, <1>6, <1>7, <1>8, <1>9, <2>1 DEF Init, TypeOK
<1>11. CallsInv /\ AloneInv
  BY IdleFits DEF Init, CallsInv, AloneInv
<1> QED BY <1>10, <1>11 DEF TypeInv

(* Rows, terms and the registers under way keep their types, no mark names *)
(* a term of another school, and no term a session that is not there.      *)
THEOREM TypeAlways == Spec => []TypeOK
<1>1. Spec => []TypeInv
  BY TypeStart, TypeStep, PTL DEF Spec
<1>2. TypeInv => TypeOK
  BY DEF TypeInv
<1> QED BY <1>1, <1>2, PTL

-----------------------------------------------------------------------------
(* The year.                                                               *)

LEMMA YearKept ==
  ASSUME YearInv, UNCHANGED <<year, opened>>,
         \A j \in Calls : call'[j].pc \in Activating => call'[j] = call[j],
         alone' \subseteq Calls,
         \A j \in alone' : call'[j].pc \in Activating => j \in alone
  PROVE  YearInv'
<1>1. /\ UNCHANGED <<session, term, lastTerm>> /\ Present' = Present
      /\ \A s : TermsOf(s)' = TermsOf(s) /\ Open(s)' = Open(s)
                /\ ActiveSessions(s)' = ActiveSessions(s)
      /\ \A t : SchoolOfTerm(t)' = SchoolOfTerm(t)
  BY DEF year, Present, TermsOf, Open, ActiveSessions, SchoolOfTerm
<1>2. OneTermOpen'
  BY <1>1 DEF YearInv, OneTermOpen, ActiveSessions
<1>3. ActivatingInv'
  BY <1>1 DEF YearInv, ActivatingInv
<1>4. PreparedInv'
  <2> SUFFICES ASSUME NEW k \in alone' PROVE Prepared(k)'
    BY DEF PreparedInv
  <2>1. CASE call'[k].pc \in Activating
    <3>1. Prepared(k) /\ call'[k] = call[k]
      BY <2>1 DEF YearInv, PreparedInv
    <3> QED BY <1>1, <3>1 DEF Prepared, At
  <2>2. CASE call'[k].pc \notin Activating
    BY <2>2 DEF Prepared, At, Activating
  <2> QED BY <2>1, <2>2
<1> QED BY <1>2, <1>3, <1>4 DEF YearInv

(* Steps after which something is still promised only of other schools.    *)
LEMMA SchoolChanges ==
  ASSUME TypeOK, YearInv, SameTerms, NEW s \in Schools,
         opened'[s] = 0, \A x \in Schools \ {s} : opened'[x] = opened[x],
         \A x \in Schools \ {s} : Open(x)' = Open(x) /\ ActiveSessions(x)' = ActiveSessions(x)
  PROVE  OneTermOpen'
<1> SUFFICES ASSUME NEW x \in Schools, opened'[x] # 0
             PROVE  /\ Open(x)' = {opened'[x]}
                    /\ ActiveSessions(x)' = {term'[opened'[x]].session}
  BY DEF OneTermOpen, ActiveSessions
<1>1. x # s /\ opened'[x] = opened[x]
  OBVIOUS
<1>2. Open(x) = {opened[x]} /\ ActiveSessions(x) = {term[opened[x]].session}
  BY <1>1 DEF YearInv, OneTermOpen, ActiveSessions
<1>3. opened[x] \in Present
  BY <1>2 DEF Open, TermsOf
<1> QED BY <1>1, <1>2, <1>3 DEF SameTerms

LEMMA SameTermsOfSchool ==
  ASSUME SameTerms, NEW s, \A t \in TermsOf(s) : term'[t] = term[t]
  PROVE  Open(s)' = Open(s)
BY SameTermsOf DEF Open

LEMMA SetStatusYear ==
  ASSUME TypeInv, YearInv, NEW t \in TermIds, NEW status \in {"active", "closed"},
         SetStatus(t, status)
  PROVE  YearInv'
<1> DEFINE s == SchoolOfTerm(t)
<1>1. TypeOK /\ t \in Present /\ s \in Schools /\ UNCHANGED <<session, lastTerm, call>>
      /\ alone' = {} /\ term' = [term EXCEPT ![t].status = status]
      /\ opened' = [opened EXCEPT ![s] = 0]
  BY TermIsRow DEF TypeInv, SetStatus, Passes
<1>2. SameTerms
  <2>1. term' = [x \in TermIds |-> IF x \in {t} THEN [term[x] EXCEPT !.status = status]
                                   ELSE term[x]]
    BY <1>1 DEF TypeOK
  <2>2. {t} \in SUBSET Present
    BY <1>1
  <2> QED BY <1>1, <2>1, <2>2, StatusesChange
<1>3. opened'[s] = 0 /\ \A x \in Schools \ {s} : opened'[x] = opened[x]
  BY <1>1 DEF TypeOK
<1>4. ASSUME NEW x \in Schools \ {s}
      PROVE  Open(x)' = Open(x) /\ ActiveSessions(x)' = ActiveSessions(x)
  <2>1. \A y \in TermsOf(x) : term'[y] = term[y]
    BY <1>1 DEF TermsOf, TypeOK
  <2> QED BY <1>1, <1>2, <2>1, SameTermsOfSchool DEF ActiveSessions
<1>5. OneTermOpen'
  BY <1>1, <1>2, <1>3, <1>4, SchoolChanges
<1>6. ActivatingInv'
  <2> SUFFICES ASSUME NEW k \in Calls, call[k].pc \in Activating
               PROVE  opened'[SchoolOfTerm(call[k].term)'] = 0
    BY <1>1 DEF ActivatingInv
  <2>1. call[k].term \in Present
    BY DEF TypeInv, CallsInv, CallFits
  <2>2. SchoolOfTerm(call[k].term)' = SchoolOfTerm(call[k].term)
    BY <1>1, <1>2, <2>1 DEF SchoolOfTerm, SameTerms
  <2> QED BY <1>1, <1>3, <2>1, <2>2, TermIsRow DEF YearInv, ActivatingInv
<1>7. PreparedInv'
  BY <1>1 DEF PreparedInv
<1> QED BY <1>5, <1>6, <1>7 DEF YearInv

LEMMA CreateSessionYear ==
  ASSUME TypeInv, YearInv, NEW e \in Sessions, CreateSession(e)
  PROVE  YearInv'
<1>1. /\ session[e] = "none" /\ session' = [session EXCEPT ![e] = "closed"]
      /\ UNCHANGED <<term, lastTerm, opened, call>> /\ alone' = {} /\ TypeOK
  BY DEF CreateSession, Passes, TypeInv
<1>2. \A s : ActiveSessions(s)' = ActiveSessions(s)
  BY <1>1 DEF ActiveSessions, TypeOK
<1>3. \A s : Open(s)' = Open(s)
  BY <1>1 DEF Open, TermsOf, Present, SchoolOfTerm
<1>4. OneTermOpen'
  BY <1>1, <1>2, <1>3 DEF YearInv, OneTermOpen, ActiveSessions
<1>5. ActivatingInv'
  BY <1>1 DEF YearInv, ActivatingInv, SchoolOfTerm
<1> QED BY <1>1, <1>4, <1>5 DEF YearInv, PreparedInv

LEMMA CreateTermYear ==
  ASSUME TypeInv, YearInv, NEW e \in Sessions, CreateTerm(e)
  PROVE  YearInv'
<1> DEFINE new == lastTerm + 1
<1>1. /\ new \in TermIds /\ new \notin Present /\ TypeOK
      /\ term' = [term EXCEPT ![new] = [session |-> e, status |-> "closed"]]
      /\ UNCHANGED <<session, opened, call>> /\ alone' = {}
  BY SchoolYearAssumption DEF CreateTerm, Passes, TypeInv, TypeOK, TermIds
<1>2. \A t \in Present : term'[t] = term[t] /\ SchoolOfTerm(t)' = SchoolOfTerm(t)
  <2> HIDE DEF new
  <2> QED BY <1>1 DEF TypeOK, Present, SchoolOfTerm
<1>3. term'[new].status = "closed"
  <2> HIDE DEF new
  <2> QED BY <1>1 DEF TypeOK
<1>4. Present' \subseteq Present \cup {new} /\ Present \subseteq Present'
  <2>1. [session |-> e, status |-> "closed"] # NoTerm
    BY TermIsNotNone DEF Term
  <2> HIDE DEF new
  <2> QED BY <1>1, <2>1 DEF TypeOK, Present
<1>5. \A s : Open(s)' = Open(s)
  <2> HIDE DEF new
  <2> QED BY <1>1, <1>2, <1>3, <1>4 DEF Open, TermsOf
<1>6. \A s \in Schools : opened[s] # 0 => opened[s] \in Present
  BY DEF YearInv, OneTermOpen, Open, TermsOf
<1>7. OneTermOpen'
  <2> HIDE DEF new
  <2> QED BY <1>1, <1>2, <1>5, <1>6 DEF YearInv, OneTermOpen
<1>8. ActivatingInv'
  <2> HIDE DEF new
  <2>1. \A k \in Calls : call[k].pc \in Activating => call[k].term \in Present
    BY DEF TypeInv, CallsInv, CallFits
  <2> QED BY <1>1, <1>2, <2>1 DEF YearInv, ActivatingInv
<1> QED BY <1>1, <1>7, <1>8 DEF YearInv, PreparedInv

LEMMA ActivateTermYear ==
  ASSUME TypeInv, YearInv, NEW k \in Calls, NEW t \in TermIds, ActivateTerm(k, t)
  PROVE  YearInv'
<1> DEFINE s == SchoolOfTerm(t)
<1>1. /\ TypeOK /\ t \in Present /\ s \in Schools /\ opened' = [opened EXCEPT ![s] = 0]
      /\ UNCHANGED <<session, term, lastTerm>> /\ alone' \subseteq {k}
  BY TermIsRow DEF TypeInv, ActivateTerm, Begins, year
<1>2. /\ call \in [Calls -> Call] /\ Idle \in Call
      /\ call' = [call EXCEPT ![k] = [Idle EXCEPT !.pc = "deactivate sessions", !.term = t]]
  BY IdleFits DEF ActivateTerm, Begins, TypeInv, TypeOK
<1>3. call'[k].pc = "deactivate sessions" /\ call'[k].term = t
  BY <1>2 DEF Call
<1>4. SameTerms
  BY <1>1, YearSame DEF year
<1>5. opened'[s] = 0 /\ \A x \in Schools \ {s} : opened'[x] = opened[x]
  BY <1>1 DEF TypeOK
<1>6. \A x : Open(x)' = Open(x) /\ ActiveSessions(x)' = ActiveSessions(x)
  BY <1>1 DEF Open, TermsOf, Present, SchoolOfTerm, ActiveSessions
<1>7. OneTermOpen'
  BY <1>1, <1>4, <1>5, <1>6, SchoolChanges
<1>8. ActivatingInv'
  <2> SUFFICES ASSUME NEW j \in Calls, call'[j].pc \in Activating
               PROVE  opened'[SchoolOfTerm(call[j].term)'] = 0
    BY DEF ActivatingInv
  <2>1. \A x : SchoolOfTerm(x)' = SchoolOfTerm(x)
    BY <1>1 DEF SchoolOfTerm
  <2>2. CASE j = k
    BY <1>3, <1>5, <2>1, <2>2
  <2>3. CASE j # k
    <3>1. call'[j] = call[j] /\ SchoolOfTerm(call[j].term) \in Schools
      BY <1>1, <1>2, <2>3, TermIsRow DEF TypeInv, CallsInv, CallFits
    <3> QED BY <1>5, <2>1, <3>1 DEF YearInv, ActivatingInv
  <2> QED BY <2>2, <2>3
<1>9. PreparedInv'
  BY <1>1, <1>3 DEF PreparedInv, Prepared, At
<1> QED BY <1>7, <1>8, <1>9 DEF YearInv

LEMMA OthersIdle ==
  ASSUME TypeInv, NEW k \in Calls, ~At(k, "idle"), NEW j \in alone, j # k
  PROVE  call[j].pc = "idle"
BY DEF TypeInv, AloneInv, At, TypeOK

LEMMA YearMoves ==
  ASSUME TypeInv, YearInv, NEW k \in Calls, call[k].pc \in Activating,
         NEW pc \in Activating, Goes(k, pc), SameTerms, opened' = opened,
         \A x \in Schools \ {SchoolOfTerm(call[k].term)} :
           Open(x)' = Open(x) /\ ActiveSessions(x)' = ActiveSessions(x),
         k \in alone => Prepared(k)'
  PROVE  YearInv'
<1> DEFINE t == call[k].term
           s == SchoolOfTerm(t)
<1>1. TypeOK /\ t \in Present /\ s \in Schools /\ alone' = alone /\ ~At(k, "idle")
  BY GoesFits, TermIsRow DEF TypeInv
<1>2. opened[s] = 0
  BY DEF YearInv, ActivatingInv
<1>3. PICK c \in Call : call' = [call EXCEPT ![k] = c] /\ c.pc = pc /\ c.term = t
  BY GoesFits
<1>4. OneTermOpen'
  BY <1>1, <1>2, SchoolChanges
<1>5. \A x \in Present : SchoolOfTerm(x)' = SchoolOfTerm(x)
  BY DEF SameTerms, SchoolOfTerm
<1>6. ActivatingInv'
  <2> SUFFICES ASSUME NEW j \in Calls, call'[j].pc \in Activating
               PROVE  opened[SchoolOfTerm(call[j].term)'] = 0
    BY DEF ActivatingInv
  <2>1. CASE j = k
    BY <1>1, <1>2, <1>3, <1>5, <2>1 DEF TypeOK
  <2>2. CASE j # k
    <3>1. call'[j] = call[j]
      BY <1>1, <1>3, <2>2 DEF TypeOK
    <3>2. call[j].term \in Present
      BY <3>1 DEF TypeInv, CallsInv, CallFits
    <3> QED BY <1>5, <3>1, <3>2 DEF YearInv, ActivatingInv
  <2> QED BY <2>1, <2>2
<1>7. PreparedInv'
  <2> SUFFICES ASSUME NEW j \in alone, j # k PROVE Prepared(j)'
    BY <1>1 DEF PreparedInv
  <2>1. call'[j] = call[j] /\ call[j].pc = "idle"
    BY <1>1, <1>3, OthersIdle DEF TypeOK
  <2> QED BY <2>1 DEF Prepared, At
<1> QED BY <1>4, <1>6, <1>7 DEF YearInv

LEMMA YearStepsYear ==
  ASSUME TypeInv, YearInv, NEW k \in Calls,
         DeactivateSessions(k) \/ ActivateSession(k) \/ CloseTerms(k)
  PROVE  YearInv'
<1> PICK t : t = call[k].term
  OBVIOUS
<1> PICK s : s = SchoolOfTerm(t)
  OBVIOUS
<1>1. TypeOK /\ call[k].pc \in Activating
  BY DEF TypeInv, DeactivateSessions, ActivateSession, CloseTerms, At, Activating
<1>2. t \in Present /\ term[t].session \in Sessions /\ SchoolOf[term[t].session] = s
  BY <1>1, TermIsRow DEF TypeInv, CallsInv, CallFits, SchoolOfTerm
<1>3. ASSUME NEW pc \in Activating, Goes(k, pc)
      PROVE  call'[k].pc = pc /\ call'[k].term = t
  <2>1. PICK c \in Call : call' = [call EXCEPT ![k] = c] /\ c.pc = pc /\ c.term = t
    BY <1>1, <1>3, GoesFits
  <2> QED BY <1>1, <2>1 DEF TypeOK
<1>4. CASE DeactivateSessions(k)
  <2>1. /\ session' = [e \in Sessions |-> IF SchoolOf[e] = s /\ session[e] = "active"
                                          THEN "closed" ELSE session[e]]
        /\ UNCHANGED <<term, lastTerm, opened>> /\ Goes(k, "activate session")
        /\ "activate session" \in Activating
    BY <1>4 DEF DeactivateSessions, Activating
  <2>2. SameTerms
    BY <1>1, <2>1 DEF SameTerms, TypeOK, Present
  <2>3. \A x : Open(x)' = Open(x)
    BY <2>1 DEF Open, TermsOf, Present, SchoolOfTerm
  <2>4. \A x : x # s => ActiveSessions(x)' = ActiveSessions(x)
    BY <2>1 DEF ActiveSessions
  <2>5. ActiveSessions(s)' = {}
    BY <2>1 DEF ActiveSessions, SchoolOfTerm
  <2>6. SchoolOfTerm(call[k].term)' = s
    BY <1>3, <2>1 DEF SchoolOfTerm
  <2>7. Prepared(k)'
    BY <1>3, <2>1, <2>5, <2>6 DEF Prepared, At, ActiveSessions
  <2> QED BY <1>1, <2>1, <2>2, <2>3, <2>4, <2>7, YearMoves
<1>5. CASE ActivateSession(k)
  <2>1. /\ session' = [session EXCEPT ![term[t].session] = "active"]
        /\ UNCHANGED <<term, lastTerm, opened>> /\ Goes(k, "close terms")
        /\ "close terms" \in Activating /\ At(k, "activate session")
    BY <1>5 DEF ActivateSession, Activating
  <2>2. SameTerms
    BY <1>1, <2>1 DEF SameTerms, TypeOK, Present
  <2>3. \A x : Open(x)' = Open(x)
    BY <2>1 DEF Open, TermsOf, Present, SchoolOfTerm
  <2>4. \A x : x # s => ActiveSessions(x)' = ActiveSessions(x)
    BY <1>1, <1>2, <2>1 DEF ActiveSessions, TypeOK
  <2>5. ASSUME k \in alone PROVE ActiveSessions(s)' = {term[t].session}
    <3>1. ActiveSessions(s) = {}
      BY <2>1, <2>5 DEF YearInv, PreparedInv, Prepared
    <3> QED BY <1>1, <1>2, <2>1, <3>1 DEF ActiveSessions, TypeOK
  <2>6. SchoolOfTerm(call[k].term)' = s
    BY <1>3, <2>1 DEF SchoolOfTerm
  <2>7. k \in alone => Prepared(k)'
    BY <1>3, <2>1, <2>5, <2>6 DEF Prepared, At, ActiveSessions
  <2> QED BY <1>1, <2>1, <2>2, <2>3, <2>4, <2>7, YearMoves
<1>6. CASE CloseTerms(k)
  <2>1. /\ term' = [x \in TermIds |-> IF x \in TermsOf(s)
                                      THEN [term[x] EXCEPT !.status = "closed"] ELSE term[x]]
        /\ UNCHANGED <<session, lastTerm, opened>> /\ Goes(k, "open term")
        /\ "open term" \in Activating /\ At(k, "close terms")
    BY <1>6 DEF CloseTerms, Activating
  <2>2. SameTerms
    <3>1. TermsOf(s) \in SUBSET Present
      BY DEF TermsOf
    <3> QED BY <1>1, <2>1, <3>1, StatusesChange
  <2>3. \A x : ActiveSessions(x)' = ActiveSessions(x)
    BY <2>1 DEF ActiveSessions
  <2>4. ASSUME NEW x, x # s PROVE Open(x)' = Open(x)
    <3>1. \A y \in TermsOf(x) : term'[y] = term[y]
      BY <2>1, <2>4 DEF TermsOf, Present
    <3> QED BY <2>2, <3>1, SameTermsOfSchool
  <2>5. Open(s)' = {}
    <3>1. \A y \in TermsOf(s) : term'[y].status = "closed"
      <4> SUFFICES ASSUME NEW y \in TermsOf(s) PROVE term'[y].status = "closed"
        OBVIOUS
      <4>1. y \in Present /\ term[y] \in Term
        BY <1>1, TermIsRow DEF TermsOf
      <4> QED BY <2>1, <4>1 DEF Term, Present
    <3>2. TermsOf(s)' = TermsOf(s)
      BY <2>2, SameTermsOf
    <3> QED BY <3>1, <3>2 DEF Open
  <2>6. SchoolOfTerm(call[k].term)' = s /\ term'[t].session = term[t].session
    BY <1>2, <1>3, <2>1, <2>2 DEF SchoolOfTerm, SameTerms
  <2>7. ASSUME k \in alone PROVE Prepared(k)'
    <3>1. ActiveSessions(s) = {term[t].session}
      BY <2>1, <2>7 DEF YearInv, PreparedInv, Prepared, At
    <3>2. ActiveSessions(s)' = {term'[t].session}
      BY <2>3, <2>6, <3>1
    <3> QED BY <1>3, <2>1, <2>5, <2>6, <3>2 DEF Prepared, At, ActiveSessions, Open
  <2> QED BY <1>1, <2>1, <2>2, <2>3, <2>4, <2>7, YearMoves
<1> QED BY <1>4, <1>5, <1>6

LEMMA OpenTermYear ==
  ASSUME TypeInv, YearInv, NEW k \in Calls, OpenTerm(k)
  PROVE  YearInv'
<1> PICK t : t = call[k].term
  OBVIOUS
<1> PICK s : s = SchoolOfTerm(t)
  OBVIOUS
<1>1. /\ TypeOK /\ At(k, "open term") /\ call[k].pc \in Activating /\ ~At(k, "idle")
      /\ call' = [call EXCEPT ![k] = Idle] /\ UNCHANGED <<session, lastTerm, alone>>
      /\ term' = [term EXCEPT ![t].status = "active"]
      /\ opened' = IF k \in alone THEN [opened EXCEPT ![s] = t] ELSE opened
  BY DEF TypeInv, OpenTerm, Ends, At, Activating
<1>2. t \in Present /\ t \in TermIds /\ t # 0 /\ s \in Schools /\ term[t] \in Term
  <2>1. t \in Present
    BY <1>1 DEF TypeInv, CallsInv, CallFits
  <2>2. t \in TermIds /\ s \in Schools /\ term[t] \in Term
    BY <1>1, <2>1, TermIsRow
  <2> QED BY <2>1, <2>2 DEF TermIds
<1>3. SameTerms
  <2>1. term' = [x \in TermIds |-> IF x \in {t} THEN [term[x] EXCEPT !.status = "active"]
                                   ELSE term[x]]
    BY <1>1, <1>2 DEF TypeOK
  <2>2. {t} \in SUBSET Present
    BY <1>2
  <2> QED BY <1>1, <2>1, <2>2, StatusesChange
<1>4. ASSUME NEW x, x # s PROVE Open(x)' = Open(x)
  <2>1. \A y \in TermsOf(x) : term'[y] = term[y]
    <3>1. t \notin TermsOf(x)
      BY <1>4 DEF TermsOf
    <3> QED BY <1>1, <3>1 DEF TermsOf, Present, TypeOK
  <2> QED BY <1>3, <2>1, SameTermsOfSchool
<1>5. \A x : ActiveSessions(x)' = ActiveSessions(x)
  BY <1>1 DEF ActiveSessions
<1>6. /\ call \in [Calls -> Call] /\ call'[k] = Idle
      /\ \A j \in Calls : j # k => call'[j] = call[j]
  BY <1>1 DEF TypeOK
<1>7. PreparedInv'
  <2> SUFFICES ASSUME NEW j \in alone, j \in Calls PROVE Prepared(j)'
    BY <1>1 DEF PreparedInv, TypeOK
  <2>1. call'[j].pc = "idle"
    BY <1>1, <1>6, IdleFits, OthersIdle
  <2> QED BY <2>1 DEF Prepared, At
<1>8. CASE k \notin alone
  <2>1. opened' = opened
    BY <1>1, <1>8
  <2>2. opened[s] = 0
    BY <1>1 DEF YearInv, ActivatingInv
  <2>3. OneTermOpen'
    BY <1>1, <1>2, <1>3, <1>4, <1>5, <2>1, <2>2, SchoolChanges
  <2>4. ActivatingInv'
    <3> SUFFICES ASSUME NEW j \in Calls, call'[j].pc \in Activating
                 PROVE  opened[SchoolOfTerm(call[j].term)'] = 0
      BY <2>1 DEF ActivatingInv
    <3>1. call'[j] = call[j]
      BY <1>6, IdleFits DEF Activating
    <3>2. call[j].term \in Present
      BY <3>1 DEF TypeInv, CallsInv, CallFits
    <3>3. SchoolOfTerm(call[j].term)' = SchoolOfTerm(call[j].term)
      BY <1>3, <3>1, <3>2 DEF SameTerms, SchoolOfTerm
    <3> QED BY <3>1, <3>3 DEF YearInv, ActivatingInv
  <2> QED BY <1>7, <2>3, <2>4 DEF YearInv
<1>9. CASE k \in alone
  <2>1. opened' = [opened EXCEPT ![s] = t] /\ opened \in [Schools -> 0 .. MaxTerms]
    BY <1>1, <1>9 DEF TypeOK
  <2>2. Open(s) = {} /\ ActiveSessions(s) = {term[t].session}
    BY <1>1, <1>9 DEF YearInv, PreparedInv, Prepared, At
  <2>3. Open(s)' = {t}
    <3>1. TermsOf(s)' = TermsOf(s) /\ t \in TermsOf(s)
      BY <1>2, <1>3, SameTermsOf DEF TermsOf
    <3>2. \A y \in TermsOf(s) : term[y].status # "active"
      BY <2>2 DEF Open
    <3>3. term'[t].status = "active" /\ \A y \in TermsOf(s) \ {t} : term'[y] = term[y]
      <4>1. term \in [TermIds -> Term \cup {NoTerm}]
        BY <1>1 DEF TypeOK
      <4>2. [term[t] EXCEPT !.status = "active"].status = "active"
        BY <1>2 DEF Term
      <4>3. TermsOf(s) \subseteq TermIds
        BY DEF TermsOf, Present
      <4> QED BY <1>1, <1>2, <4>1, <4>2, <4>3
    <3> QED BY <3>1, <3>2, <3>3 DEF Open
  <2>4. ASSUME NEW x \in Schools, opened'[x] # 0
        PROVE  /\ Open(x)' = {opened'[x]}
               /\ ActiveSessions(x)' = {term'[opened'[x]].session}
    <3>1. CASE x = s
      BY <1>2, <1>3, <1>5, <2>1, <2>2, <2>3, <3>1 DEF SameTerms
    <3>2. CASE x # s
      <4>1. opened'[x] = opened[x] /\ opened[x] # 0
        BY <2>1, <2>4, <3>2
      <4>2. Open(x) = {opened[x]} /\ ActiveSessions(x) = {term[opened[x]].session}
        BY <4>1 DEF YearInv, OneTermOpen, ActiveSessions
      <4>3. opened[x] \in Present
        BY <4>2 DEF Open, TermsOf
      <4> QED BY <1>3, <1>4, <1>5, <3>2, <4>1, <4>2, <4>3 DEF SameTerms
    <3> QED BY <3>1, <3>2
  <2>5. OneTermOpen'
    BY <2>4 DEF OneTermOpen, ActiveSessions
  <2>6. ActivatingInv'
    <3>1. \A j \in Calls : call'[j].pc = "idle"
      BY <1>1, <1>6, <1>9, IdleFits DEF TypeInv, AloneInv, At
    <3> QED BY <3>1 DEF ActivatingInv, Activating
  <2> QED BY <1>7, <2>5, <2>6 DEF YearInv
<1> QED BY <1>8, <1>9

(* A call that is not about terms, as it begins and as it goes on.         *)
LEMMA OtherCallYear ==
  ASSUME TypeInv, YearInv, UNCHANGED <<year, opened>>, NEW k \in Calls, NEW c \in Call,
         call' = [call EXCEPT ![k] = c], c.pc \notin Activating,
         alone' = alone \/ alone' \subseteq {k}
  PROVE  YearInv'
<1>1. /\ call'[k] = c /\ \A j \in Calls : j # k => call'[j] = call[j]
      /\ alone \subseteq Calls
  BY DEF TypeInv, TypeOK
<1> QED BY <1>1, YearKept

LEMMA CallPcs ==
  ASSUME TypeInv, NEW k \in Calls
  PROVE  call[k] \in Call /\ call \in [Calls -> Call] /\ Idle \in Call /\ Idle.pc = "idle"
BY IdleFits DEF TypeInv, TypeOK

LEMMA BeginShape ==
  ASSUME TypeInv, NEW k \in Calls, Begin(k)
  PROVE  /\ UNCHANGED days /\ alone' \subseteq {k} /\ At(k, "idle")
         /\ UNCHANGED year /\ call'[k] \in Call /\ call' = [call EXCEPT ![k] = call'[k]]
         /\ \/ /\ \E t \in TermIds : ActivateTerm(k, t)
               /\ call'[k].pc = "deactivate sessions"
            \/ /\ \E c \in Classes, r \in Registers : MarkStudentAttendance(k, c, r)
               /\ call'[k].pc = "mark"
            \/ /\ call'[k].pc \in {"photo", "scan"} /\ call'[k].manual = 0
               /\ UNCHANGED <<opened, given, corrected, touched>>
            \/ /\ \E u \in Staff, c \in Corrections : ManualStaffAttendance(k, u, c)
               /\ call'[k].pc \in {"compare", "insert"}
<1>1. /\ UNCHANGED days /\ UNCHANGED year /\ alone' \subseteq {k} /\ At(k, "idle") /\ TypeInv'
  BY BeginType DEF Begin, ActivateTerm, MarkStudentAttendance, ClockAction, MarkAttendanceWithQr,
                   ManualStaffAttendance, Begins
<1>2. ASSUME NEW first, Begins(k, first)
      PROVE  call'[k] = first /\ call' = [call EXCEPT ![k] = call'[k]] /\ call'[k] \in Call
  BY <1>1, <1>2, CallPcs DEF Begins, TypeInv, TypeOK
<1>3. ASSUME NEW t \in TermIds, ActivateTerm(k, t)
      PROVE  /\ call' = [call EXCEPT ![k] = call'[k]] /\ call'[k] \in Call
             /\ call'[k].pc = "deactivate sessions"
  <2> DEFINE first == [Idle EXCEPT !.pc = "deactivate sessions", !.term = t]
  <2>1. first.pc = "deactivate sessions"
    BY CallPcs DEF Call
  <2>2. Begins(k, first)
    BY <1>3 DEF ActivateTerm
  <2> HIDE DEF first
  <2> QED BY <1>2, <2>1, <2>2
<1>4. ASSUME NEW c \in Classes, NEW r \in Registers, MarkStudentAttendance(k, c, r)
      PROVE  /\ call' = [call EXCEPT ![k] = call'[k]] /\ call'[k] \in Call
             /\ call'[k].pc = "mark"
  <2> DEFINE first == [Idle EXCEPT !.pc = "mark", !.term = LatestTerm, !.class = c,
                        !.register = r, !.todo = [i \in DOMAIN r |-> "find"]]
  <2>1. first.pc = "mark"
    BY CallPcs DEF Call
  <2>2. Begins(k, first)
    BY <1>4 DEF MarkStudentAttendance
  <2> HIDE DEF first
  <2> QED BY <1>2, <2>1, <2>2
<1>5. ASSUME NEW u \in Staff, ClockAction(k, u) \/ MarkAttendanceWithQr(k, u)
      PROVE  /\ call' = [call EXCEPT ![k] = call'[k]] /\ call'[k] \in Call
             /\ call'[k].pc \in {"photo", "scan"} /\ call'[k].manual = 0
             /\ UNCHANGED <<opened, given, corrected, touched>>
  <2>1. PICK pc \in {"photo", "scan"} : Begins(k, [Idle EXCEPT !.pc = pc, !.user = u])
    BY <1>5 DEF ClockAction, MarkAttendanceWithQr
  <2>2. /\ [Idle EXCEPT !.pc = pc, !.user = u].pc = pc
        /\ [Idle EXCEPT !.pc = pc, !.user = u].manual = 0
    BY DEF Idle
  <2>3. UNCHANGED <<opened, given, corrected, touched>>
    BY <1>5 DEF ClockAction, MarkAttendanceWithQr
  <2> QED BY <1>2, <2>1, <2>2, <2>3
<1>6. ASSUME NEW u \in Staff, NEW c \in Corrections, ManualStaffAttendance(k, u, c)
      PROVE  /\ call' = [call EXCEPT ![k] = call'[k]] /\ call'[k] \in Call
             /\ call'[k].pc \in {"compare", "insert"}
  <2>1. PICK object : Begins(k, [Idle EXCEPT !.user = u, !.manual = c.in,
                        !.pc = IF clock[u].row THEN "compare" ELSE "insert", !.object = object])
    BY <1>6 DEF ManualStaffAttendance
  <2> DEFINE first == [Idle EXCEPT !.user = u, !.manual = c.in,
                        !.pc = IF clock[u].row THEN "compare" ELSE "insert", !.object = object]
  <2>2. first.pc \in {"compare", "insert"}
    BY CallPcs DEF Call
  <2>3. Begins(k, first)
    BY <2>1
  <2> HIDE DEF first
  <2> QED BY <1>2, <2>2, <2>3
<1> QED BY <1>1, <1>3, <1>4, <1>5, <1>6 DEF Begin

LEMMA BeginYear ==
  ASSUME TypeInv, YearInv, NEW k \in Calls, Begin(k)
  PROVE  YearInv'
<1>1. CASE \E t \in TermIds : ActivateTerm(k, t)
  BY <1>1, ActivateTermYear
<1>2. CASE ~\E t \in TermIds : ActivateTerm(k, t)
  <2>1. opened' = opened /\ call'[k].pc \notin Activating
    BY <1>2, BeginShape DEF MarkStudentAttendance, ManualStaffAttendance, Activating
  <2> QED BY <2>1, BeginShape, OtherCallYear
<1> QED BY <1>1, <1>2

LEMMA RegisterShape ==
  ASSUME TypeInv, NEW k \in Calls,
         \/ \E i \in DOMAIN call[k].todo : FindMark(k, i) \/ InsertMark(k, i) \/ UpdateMark(k, i)
         \/ EndMark(k)
  PROVE  /\ call[k].pc = "mark" /\ call'[k].pc \in {"mark", "idle"} /\ call'[k] \in Call
         /\ call' = [call EXCEPT ![k] = call'[k]]
         /\ UNCHANGED <<year, clock, now, begun, alone, opened, corrected, touched>>
<1>1. TypeInv' /\ call[k] \in Call /\ call \in [Calls -> Call] /\ Idle.pc = "idle"
  BY RegisterStepsType, CallPcs
<1>2. /\ call[k].pc = "mark"
      /\ UNCHANGED <<year, clock, now, begun, alone, opened, corrected, touched>>
  BY DEF FindMark, InsertMark, UpdateMark, EndMark, Marked, Todo, Does, Ends, At, days
<1>3. PICK c : call' = [call EXCEPT ![k] = c] /\ c.pc \in {"mark", "idle"}
  <2>1. CASE EndMark(k)
    BY <1>1, <2>1 DEF EndMark, Ends
  <2>2. CASE ~EndMark(k)
    <3>1. PICK i, next : Does(k, i, next)
      BY <2>2 DEF FindMark, InsertMark, UpdateMark
    <3>2. [call[k] EXCEPT !.todo[i] = next].pc = call[k].pc
      BY <1>1 DEF Call
    <3> QED BY <1>2, <3>1, <3>2 DEF Does
  <2> QED BY <2>1, <2>2
<1>4. call'[k] = c /\ call'[k] \in Call
  BY <1>1, <1>3 DEF TypeInv, TypeOK
<1> QED BY <1>2, <1>3, <1>4

LEMMA ClockShape ==
  ASSUME TypeInv, NEW k \in Calls,
         ReadClock(k) \/ InsertClock(k) \/ CompareClock(k) \/ WriteClock(k) \/ CutOff(k)
  PROVE  /\ ~At(k, "idle") /\ call'[k].pc \in Saving \cup {"idle"} /\ call'[k] \in Call
         /\ call' = [call EXCEPT ![k] = call'[k]]
         /\ UNCHANGED <<year, mark, now, begun, alone, opened, given, touched>>
<1>1. TypeInv' /\ call[k] \in Call /\ call \in [Calls -> Call] /\ Idle.pc = "idle"
  BY ClockStepsType, CallPcs
<1>2. /\ ~At(k, "idle")
      /\ UNCHANGED <<year, mark, now, begun, alone, opened, given, touched>>
  BY DEF ReadClock, InsertClock, CompareClock, WriteClock, CutOff, Ends, At, days
<1>3. PICK c : call' = [call EXCEPT ![k] = c] /\ c.pc \in Saving \cup {"idle"}
  <2>1. CASE Ends(k)
    BY <1>1, <2>1 DEF Ends
  <2>2. CASE ReadClock(k) /\ ~Ends(k)
    <3> DEFINE r == clock[call[k].user]
               object == IF r.in = 0 THEN ClockedIn(r) ELSE [r EXCEPT !.out = now]
               pc == IF r.row THEN "compare" ELSE "insert"
    <3>1. call' = [call EXCEPT ![k] = [call[k] EXCEPT !.object = object, !.pc = pc]]
      BY <1>1, <2>2 DEF ReadClock
    <3>2. [call[k] EXCEPT !.object = object, !.pc = pc].pc = pc
      <4> HIDE DEF object, pc
      <4> QED BY <1>1 DEF Call
    <3>3. pc \in Saving
      BY DEF Saving
    <3> HIDE DEF object, pc
    <3> QED BY <3>1, <3>2, <3>3
  <2>3. CASE CompareClock(k)
    <3>1. PICK cols :
            call' = [call EXCEPT ![k] = [call[k] EXCEPT !.pc = "write", !.cols = cols]]
      BY <1>1, <2>3 DEF CompareClock
    <3>2. [call[k] EXCEPT !.pc = "write", !.cols = cols].pc = "write"
      BY <1>1 DEF Call
    <3> QED BY <3>1, <3>2 DEF Saving
  <2> QED BY <2>1, <2>2, <2>3 DEF InsertClock, WriteClock, CutOff
<1>4. call'[k] = c /\ call'[k] \in Call
  BY <1>1, <1>3 DEF TypeInv, TypeOK
<1> QED BY <1>2, <1>3, <1>4

LEMMA YearStep ==
  ASSUME TypeInv, YearInv, [Next]_vars
  PROVE  YearInv'
<1>0. alone \subseteq Calls
  BY DEF TypeInv, TypeOK
<1>1. CASE UNCHANGED vars \/ Tick
  <2>1. UNCHANGED <<year, opened, call, alone>>
    BY <1>1 DEF vars, Tick, year
  <2> QED BY <1>0, <2>1, YearKept
<1>2. ASSUME NEW k \in Calls, Begin(k) PROVE YearInv'
  BY <1>2, BeginYear
<1>3. ASSUME NEW k \in Calls, Step(k) PROVE YearInv'
  <2>1. CASE DeactivateSessions(k) \/ ActivateSession(k) \/ CloseTerms(k)
    BY <2>1, YearStepsYear
  <2>2. CASE OpenTerm(k)
    BY <2>2, OpenTermYear
  <2>3. CASE \/ \E i \in DOMAIN call[k].todo :
                  FindMark(k, i) \/ InsertMark(k, i) \/ UpdateMark(k, i)
             \/ EndMark(k)
    <3>1. call'[k].pc \notin Activating
      BY <2>3, RegisterShape DEF Activating
    <3> QED BY <2>3, <3>1, RegisterShape, OtherCallYear
  <2>4. CASE ReadClock(k) \/ InsertClock(k) \/ CompareClock(k) \/ WriteClock(k) \/ CutOff(k)
    <3>1. call'[k].pc \notin Activating
      BY <2>4, ClockShape DEF Activating, Saving
    <3> QED BY <2>4, <3>1, ClockShape, OtherCallYear
  <2> QED BY <1>3, <2>1, <2>2, <2>3, <2>4 DEF Step
<1>4. CASE \E e \in Sessions : CreateSession(e) \/ CreateTerm(e)
  BY <1>4, CreateSessionYear, CreateTermYear
<1>5. CASE \E t \in TermIds : CloseTerm(t) \/ UnlockTerm(t)
  BY <1>5, SetStatusYear DEF CloseTerm, UnlockTerm
<1> QED BY <1>1, <1>2, <1>3, <1>4, <1>5 DEF Next

LEMMA YearStart ==
  ASSUME Init
  PROVE  YearInv
<1>1. \A k \in Calls : call[k].pc = "idle"
  BY IdleFits DEF Init
<1> QED BY <1>1 DEF Init, YearInv, OneTermOpen, ActivatingInv, PreparedInv, Activating

(* After a lone activateTerm, and until someone opens or closes a term, a  *)
(* school has one open term and its session is the active one.             *)
THEOREM OneTermOpenAlways == Spec => []OneTermOpen
<1>1. Spec => [](TypeInv /\ YearInv)
  BY TypeStart, TypeStep, YearStart, YearStep, PTL DEF Spec
<1>2. YearInv => OneTermOpen
  BY DEF YearInv
<1> QED BY <1>1, <1>2, PTL

-----------------------------------------------------------------------------
(* The marks.                                                              *)

LEMMA MarksKept ==
  ASSUME MarksInv, UNCHANGED <<mark, given>>, alone' \subseteq Calls,
         \A j \in Calls : call'[j].pc = "mark" => call'[j] = call[j],
         \A j \in alone' : call'[j].pc = "mark" => j \in alone /\ LatestTerm' = LatestTerm
  PROVE  MarksInv'
<1>1. AskedInv'
  BY DEF MarksInv, AskedInv, At
<1>2. RegisterInv'
  <2> SUFFICES ASSUME NEW k \in alone', call'[k].pc = "mark"
               PROVE  /\ call'[k].term = LatestTerm'
                      /\ \A i \in DOMAIN call'[k].register : RecordFits(call[k], i)'
    BY DEF RegisterInv, At
  <2>1. call'[k] = call[k] /\ k \in alone /\ LatestTerm' = LatestTerm
    OBVIOUS
  <2>2. /\ call[k].term = LatestTerm
        /\ \A i \in DOMAIN call[k].register : RecordFits(call[k], i)
    BY <2>1 DEF MarksInv, RegisterInv, At
  <2> QED BY <2>1, <2>2 DEF RecordFits, SamePupil
<1>3. KeptInv'
  BY DEF MarksInv, KeptInv
<1> QED BY <1>1, <1>2, <1>3 DEF MarksInv

LEMMA SameLatest ==
  ASSUME SameTerms
  PROVE  LatestTerm' = LatestTerm
<1>1. TermsOf(Home)' = TermsOf(Home)
  BY SameTermsOf
<1> QED BY <1>1 DEF LatestTerm

LEMMA MarkStudentAttendanceMarks ==
  ASSUME TypeInv, MarksInv, NEW k \in Calls, NEW c \in Classes, NEW r \in Registers,
         MarkStudentAttendance(k, c, r)
  PROVE  MarksInv'
<1> DEFINE first == [Idle EXCEPT !.pc = "mark", !.term = LatestTerm, !.class = c,
                      !.register = r, !.todo = [i \in DOMAIN r |-> "find"]]
<1>1. /\ call' = [call EXCEPT ![k] = first] /\ UNCHANGED <<year, mark>>
      /\ given' = [p \in Pupils |-> IF p \in PupilsOf(r) THEN {} ELSE given[p]]
      /\ alone' \subseteq {k}
  BY DEF MarkStudentAttendance, Begins, days
<1>2. first.term = LatestTerm /\ first.register = r /\ first.todo = [i \in DOMAIN r |-> "find"]
  BY CallPcs DEF Call
<1>3. /\ call'[k] = first /\ \A j \in Calls : j # k => call'[j] = call[j]
  <2> HIDE DEF first
  <2> QED BY <1>1, CallPcs
<1>4. LatestTerm' = LatestTerm
  BY <1>1, YearSame, SameLatest DEF TypeInv
<1>5. \A i \in Registers : PupilsOf(i) \subseteq Pupils
  BY SchoolYearAssumption DEF PupilsOf
<1>6. AskedInv'
  <2> SUFFICES ASSUME NEW j \in Calls, call'[j].pc = "mark", NEW p \in PupilsOf(call'[j].register)
               PROVE  given'[p] = {}
    BY DEF AskedInv, At
  <2>1. CASE j = k
    <3>1. p \in PupilsOf(r) /\ p \in Pupils
      BY <1>2, <1>3, <1>5, <2>1
    <3> QED BY <1>1, <3>1
  <2>2. CASE j # k
    <3>1. call'[j] = call[j] /\ call[j].register \in Registers /\ given[p] = {}
      BY <1>3, <2>2 DEF TypeInv, CallsInv, CallFits, MarksInv, AskedInv, At
    <3>2. p \in Pupils
      BY <1>5, <3>1
    <3> QED BY <1>1, <3>1, <3>2
  <2> QED BY <2>1, <2>2
<1>7. RegisterInv'
  <2>1. ASSUME NEW i \in DOMAIN r PROVE RecordFits(call[k], i)'
    <3>1. call'[k].todo[i] = "find"
      BY <1>2, <1>3
    <3> QED BY <3>1 DEF RecordFits
  <2>2. call'[k].term = LatestTerm /\ call'[k].register = r
    BY <1>2, <1>3
  <2> QED BY <1>1, <1>4, <2>1, <2>2 DEF RegisterInv, At
<1>8. KeptInv'
  BY <1>1 DEF MarksInv, KeptInv
<1> QED BY <1>6, <1>7, <1>8 DEF MarksInv

LEMMA DoesShape ==
  ASSUME TypeInv, NEW k \in Calls, NEW i \in DOMAIN call[k].todo, NEW next, Does(k, i, next)
  PROVE  /\ call'[k].register = call[k].register /\ call'[k].term = call[k].term
         /\ call'[k].pc = call[k].pc
         /\ call'[k].todo = [call[k].todo EXCEPT ![i] = next]
         /\ \A j \in Calls : j # k => call'[j] = call[j]
BY CallPcs DEF Does, Call

(* What a step does to the record it is about, and to no other.            *)
LEMMA RecordMarks ==
  ASSUME TypeInv, MarksInv, NEW k \in Calls, call[k].pc = "mark",
         NEW i \in DOMAIN call[k].todo, NEW next, Does(k, i, next),
         UNCHANGED <<year, given>>, call[k].todo[i] # "done",
         \A q \in Pupils : q # call[k].register[i].pupil => mark'[q] = mark[q],
         next # "done" => mark' = mark,
         next = "done" => mark'[call[k].register[i].pupil].status = call[k].register[i].status,
         k \in alone /\ next # "done" => RecordFits(call[k], i)'
  PROVE  MarksInv'
<1> PICK c : c = call[k]
  OBVIOUS
<1> PICK d : d = call'[k]
  OBVIOUS
<1>1. /\ d.register = c.register /\ d.term = c.term /\ d.pc = "mark"
      /\ d.todo = [c.todo EXCEPT ![i] = next]
      /\ \A j \in Calls : j # k => call'[j] = call[j]
      /\ alone' = alone /\ alone \subseteq Calls /\ LatestTerm' = LatestTerm
  BY DoesShape, YearSame, SameLatest DEF Does, TypeInv, TypeOK
<1>2. /\ c.register \in Registers /\ DOMAIN c.todo = DOMAIN c.register
      /\ \A j \in DOMAIN c.register : c.register[j].pupil \in Pupils
      /\ i \in DOMAIN c.register
  BY SchoolYearAssumption DEF TypeInv, CallsInv, CallFits
<1>3. \A p \in PupilsOf(c.register) : given[p] = {}
  BY DEF MarksInv, AskedInv, At
<1>4. AskedInv'
  BY <1>1, <1>3 DEF MarksInv, AskedInv, At
<1>5. KeptInv'
  <2>1. given[c.register[i].pupil] = {}
    BY <1>2, <1>3 DEF PupilsOf
  <2> QED BY <2>1 DEF MarksInv, KeptInv
<1>6. RegisterInv'
  <2> SUFFICES ASSUME NEW j \in alone, call'[j].pc = "mark"
               PROVE  /\ call'[j].term = LatestTerm'
                      /\ \A x \in DOMAIN call'[j].register : RecordFits(call[j], x)'
    BY <1>1 DEF RegisterInv, At
  <2>1. j = k
    BY <1>1, OthersIdle DEF At
  <2>2. c.term = LatestTerm /\ \A x \in DOMAIN c.register : RecordFits(c, x)
    BY <2>1 DEF MarksInv, RegisterInv, At
  <2>3. ASSUME NEW x \in DOMAIN c.register, x # i PROVE RecordFits(d, x)'
    <3>1. /\ d.todo[x] = c.todo[x] /\ d.register[x] = c.register[x]
          /\ SamePupil(d, x) = SamePupil(c, x) /\ SamePupil(c, x) \subseteq DOMAIN c.register
      BY <1>1, <1>2, <2>3 DEF SamePupil
    <3>2. RecordFits(c, x) /\ c.register[x].pupil \in Pupils
      BY <1>2, <2>2
    <3> DEFINE was == {y \in SamePupil(c, x) : c.todo[y] = "done"}
               is == {y \in SamePupil(c, x) : d.todo[y] = "done"}
    <3>3. was \subseteq is
      BY <1>1, <1>2
    <3>4. d.todo[x] = "done" => \E y \in is : mark'[d.register[x].pupil].status = d.register[y].status
      <4>1. CASE next = "done" /\ i \in SamePupil(c, x)
        <5>1. i \in is /\ c.register[i].pupil = c.register[x].pupil
          BY <1>1, <1>2, <4>1 DEF SamePupil
        <5> QED BY <1>1, <3>1, <4>1, <5>1
      <4>2. CASE ~(next = "done" /\ i \in SamePupil(c, x))
        <5>1. mark'[c.register[x].pupil] = mark[c.register[x].pupil]
          BY <1>2, <3>2, <4>2 DEF SamePupil
        <5> QED BY <1>1, <3>1, <3>2, <3>3, <5>1 DEF RecordFits
      <4> QED BY <4>1, <4>2
    <3>5. d.todo[x] = "insert" => mark'[d.register[x].pupil] = NoMark \/ is # {}
      <4>1. CASE next = "done" /\ i \in SamePupil(c, x)
        BY <1>1, <1>2, <4>1
      <4>2. CASE ~(next = "done" /\ i \in SamePupil(c, x))
        <5>1. mark'[c.register[x].pupil] = mark[c.register[x].pupil]
          BY <1>2, <3>2, <4>2 DEF SamePupil
        <5> QED BY <3>1, <3>2, <3>3, <5>1 DEF RecordFits
      <4> QED BY <4>1, <4>2
    <3>6. d.todo[x] = "refused" => \E y \in SamePupil(d, x) : y # x
      BY <3>1, <3>2 DEF RecordFits
    <3>7. {y \in SamePupil(d, x) : d.todo[y] = "done"} = is
      BY <3>1
    <3> HIDE DEF is
    <3> QED BY <3>4, <3>5, <3>6, <3>7 DEF RecordFits
  <2>4. RecordFits(d, i)'
    <3>1. CASE next = "done"
      <4>1. i \in SamePupil(d, i) /\ d.todo[i] = "done" /\ d.register[i] = c.register[i]
        BY <1>1, <1>2, <3>1 DEF SamePupil
      <4> QED BY <3>1, <4>1 DEF RecordFits
    <3>2. CASE next # "done"
      BY <2>1, <3>2 DEF RecordFits
    <3> QED BY <3>1, <3>2
  <2>5. call'[j].term = LatestTerm' /\ DOMAIN call'[j].register = DOMAIN c.register
    BY <1>1, <2>1, <2>2
  <2>6. ASSUME NEW x \in DOMAIN c.register PROVE RecordFits(call[j], x)'
    <3>1. RecordFits(d, x)'
      BY <2>3, <2>4
    <3> QED BY <2>1, <3>1 DEF RecordFits, SamePupil
  <2> QED BY <2>5, <2>6
<1> QED BY <1>4, <1>5, <1>6 DEF MarksInv

LEMMA RecordStepsMarks ==
  ASSUME TypeInv, MarksInv, NEW k \in Calls, NEW i \in DOMAIN call[k].todo,
         FindMark(k, i) \/ InsertMark(k, i) \/ UpdateMark(k, i)
  PROVE  MarksInv'
<1> PICK p : p = call[k].register[i].pupil
  OBVIOUS
<1>1. /\ call[k].pc = "mark" /\ UNCHANGED <<year, given>> /\ call[k].todo[i] # "done"
      /\ call[k].todo[i] \in {"find", "insert", "update"}
  BY DEF FindMark, InsertMark, UpdateMark, Todo, At, days
<1>2. /\ call[k].register \in Registers /\ DOMAIN call[k].todo = DOMAIN call[k].register
      /\ p \in Pupils /\ call[k].register[i].status \in Statuses
      /\ mark \in [Pupils -> Mark \cup {NoMark}]
      /\ call[k].todo[i] = "update" => mark[p] # NoMark
  BY <1>1, SchoolYearAssumption DEF TypeInv, TypeOK, CallsInv, CallFits
<1>3. ASSUME NEW next, Does(k, i, next)
      PROVE  /\ call'[k].todo[i] = next /\ call'[k].register = call[k].register
             /\ \A j \in DOMAIN call[k].todo : j # i => call'[k].todo[j] = call[k].todo[j]
  <2>1. /\ call'[k].register = call[k].register
        /\ call'[k].todo = [call[k].todo EXCEPT ![i] = next]
    BY <1>3, DoesShape
  <2> QED BY <2>1
<1>4. CASE FindMark(k, i)
  <2>1. PICK next \in {"update", "insert"} :
          Does(k, i, next) /\ (next = "insert" => mark[p] = NoMark)
    BY <1>4 DEF FindMark
  <2>2. mark' = mark
    BY <1>4 DEF FindMark, days
  <2>3. RecordFits(call[k], i)'
    BY <1>3, <2>1, <2>2 DEF RecordFits
  <2> QED BY <1>1, <2>1, <2>2, <2>3, RecordMarks
<1>5. CASE InsertMark(k, i) /\ mark[p] # NoMark
  <2>1. Does(k, i, "refused") /\ mark' = mark
    BY <1>5 DEF InsertMark
  <2>2. k \in alone => RecordFits(call[k], i)'
    <3> SUFFICES ASSUME k \in alone PROVE \E j \in SamePupil(call'[k], i) : j # i
      BY <1>3, <2>1 DEF RecordFits
    <3>1. RecordFits(call[k], i) /\ call[k].todo[i] = "insert"
      BY <1>1, <1>2, <1>5 DEF MarksInv, RegisterInv, At, InsertMark, Todo
    <3>2. PICK j \in SamePupil(call[k], i) : call[k].todo[j] = "done"
      BY <1>5, <3>1 DEF RecordFits
    <3>3. j # i
      BY <3>1, <3>2
    <3> QED BY <1>3, <2>1, <3>2, <3>3 DEF SamePupil
  <2> QED BY <1>1, <2>1, <2>2, RecordMarks
<1>6. CASE InsertMark(k, i) /\ mark[p] = NoMark
  <2> DEFINE m == [class |-> call[k].class, term |-> call[k].term,
                   status |-> call[k].register[i].status]
  <2>1. Does(k, i, "done") /\ mark' = [mark EXCEPT ![p] = m]
    BY <1>6 DEF InsertMark
  <2>2. mark'[p].status = call[k].register[i].status
        /\ \A q \in Pupils : q # p => mark'[q] = mark[q]
    BY <1>2, <2>1
  <2> QED BY <1>1, <2>1, <2>2, RecordMarks
<1>7. CASE UpdateMark(k, i)
  <2> DEFINE m == [mark[p] EXCEPT !.status = call[k].register[i].status]
  <2>1. Does(k, i, "done") /\ mark' = [mark EXCEPT ![p] = m] /\ mark[p] # NoMark
    BY <1>2, <1>7 DEF UpdateMark, Todo
  <2>2. m.status = call[k].register[i].status
    BY <1>2, <2>1 DEF Mark
  <2>3. mark'[p].status = call[k].register[i].status
        /\ \A q \in Pupils : q # p => mark'[q] = mark[q]
    <3> HIDE DEF m
    <3> QED BY <1>2, <2>1, <2>2
  <2> QED BY <1>1, <2>1, <2>3, RecordMarks
<1> QED BY <1>4, <1>5, <1>6, <1>7

LEMMA EndMarkMarks ==
  ASSUME TypeInv, MarksInv, NEW k \in Calls, EndMark(k)
  PROVE  MarksInv'
<1> PICK c : c = call[k]
  OBVIOUS
<1>1. /\ c.pc = "mark" /\ ~At(k, "idle") /\ UNCHANGED <<year, mark, alone>>
      /\ \A i \in DOMAIN c.todo : c.todo[i] \in {"done", "refused"}
      /\ call' = [call EXCEPT ![k] = Idle]
  BY DEF EndMark, Marked, At, days, Ends
<1>2. /\ call'[k] = Idle /\ \A j \in Calls : j # k => call'[j] = call[j]
      /\ DOMAIN c.todo = DOMAIN c.register /\ alone \subseteq Calls
  BY <1>1, CallPcs DEF TypeInv, TypeOK, CallsInv, CallFits
<1>3. LatestTerm' = LatestTerm
  BY <1>1, YearSame, SameLatest DEF TypeInv
<1>4. \A j \in alone : call'[j].pc = "idle"
  BY <1>1, <1>2, CallPcs, OthersIdle
<1>5. RegisterInv'
  BY <1>1, <1>4 DEF RegisterInv, At
<1>6. CASE given' = given
  BY <1>1, <1>2, <1>4, <1>6, CallPcs, MarksKept
<1>7. CASE given' # given
  <2> DEFINE named == PupilsOf(c.register)
             said(p) == {c.register[i].status : i \in {j \in DOMAIN c.register :
                                                         c.register[j].pupil = p}}
  <2>1. /\ given' = [p \in Pupils |-> IF k \in alone /\ ~(\E i \in DOMAIN c.register : c.todo[i] = "refused")
                                        /\ p \in named THEN said(p) ELSE given[p]]
    BY DEF EndMark
  <2>2. k \in alone /\ \A i \in DOMAIN c.register : c.todo[i] = "done"
    <3>1. given \in [Pupils -> SUBSET Statuses]
      BY DEF TypeInv, TypeOK
    <3>2. k \in alone /\ ~(\E i \in DOMAIN c.register : c.todo[i] = "refused")
      <4> HIDE DEF said, named
      <4> QED BY <1>7, <2>1, <3>1
    <3> QED BY <1>1, <1>2, <3>2
  <2>3. AskedInv'
    <3>1. \A j \in Calls : call'[j].pc = "idle"
      BY <1>1, <1>2, <2>2, CallPcs DEF TypeInv, AloneInv, At
    <3> QED BY <3>1 DEF AskedInv, At
  <2>4. ASSUME NEW p \in named PROVE mark[p].status \in said(p)
    <3>1. PICK i \in DOMAIN c.register : c.register[i].pupil = p
      BY DEF PupilsOf
    <3>2. RecordFits(c, i)
      BY <1>1, <2>2 DEF MarksInv, RegisterInv, At
    <3>3. PICK j \in SamePupil(c, i) : mark[p].status = c.register[j].status
      BY <2>2, <3>1, <3>2 DEF RecordFits
    <3> QED BY <3>1, <3>3 DEF SamePupil
  <2>5. KeptInv'
    <3> HIDE DEF said, named
    <3> QED BY <1>1, <2>1, <2>4 DEF MarksInv, KeptInv
  <2> QED BY <1>5, <2>3, <2>5 DEF MarksInv
<1> QED BY <1>6, <1>7

(* Steps that are not about a register.                                    *)
LEMMA OtherCallMarks ==
  ASSUME TypeInv, MarksInv, UNCHANGED <<mark, given>>, SameTerms, NEW k \in Calls, NEW c \in Call,
         call' = [call EXCEPT ![k] = c], c.pc # "mark", alone' = alone \/ alone' \subseteq {k}
  PROVE  MarksInv'
<1>1. /\ call'[k] = c /\ \A j \in Calls : j # k => call'[j] = call[j]
      /\ alone \subseteq Calls /\ LatestTerm' = LatestTerm
  BY SameLatest DEF TypeInv, TypeOK
<1> QED BY <1>1, MarksKept

LEMMA BeginMarks ==
  ASSUME TypeInv, MarksInv, NEW k \in Calls, Begin(k)
  PROVE  MarksInv'
<1>1. CASE \E c \in Classes, r \in Registers : MarkStudentAttendance(k, c, r)
  BY <1>1, MarkStudentAttendanceMarks
<1>2. CASE ~\E c \in Classes, r \in Registers : MarkStudentAttendance(k, c, r)
  <2>1. call'[k].pc # "mark" /\ given' = given
    BY <1>2, BeginShape DEF ActivateTerm, ManualStaffAttendance
  <2>2. mark' = mark /\ SameTerms
    BY BeginShape, YearSame DEF days, TypeInv
  <2> QED BY <2>1, <2>2, BeginShape, OtherCallMarks
<1> QED BY <1>1, <1>2

LEMMA YearStepsShape ==
  ASSUME TypeInv, NEW k \in Calls,
         DeactivateSessions(k) \/ ActivateSession(k) \/ CloseTerms(k) \/ OpenTerm(k)
  PROVE  /\ SameTerms /\ UNCHANGED <<mark, clock, now, alone, given, corrected, touched>>
         /\ call'[k] \in Call /\ call' = [call EXCEPT ![k] = call'[k]]
         /\ call'[k].pc \in Activating \cup {"idle"} /\ ~At(k, "idle")
<1>1. TypeInv' /\ call[k] \in Call /\ call \in [Calls -> Call] /\ Idle.pc = "idle"
  BY YearStepsType, CallPcs
<1>2. /\ UNCHANGED <<mark, clock, now, alone, given, corrected, touched>>
      /\ call[k].pc \in Activating /\ ~At(k, "idle")
  BY DEF DeactivateSessions, ActivateSession, CloseTerms, OpenTerm, days, Goes, Ends, At, Activating
<1>3. PICK c : call' = [call EXCEPT ![k] = c] /\ c.pc \in Activating \cup {"idle"}
  <2>1. CASE Ends(k)
    BY <1>1, <2>1 DEF Ends
  <2>2. CASE ~Ends(k)
    <3>1. PICK pc \in Activating : Goes(k, pc)
      BY <2>2 DEF DeactivateSessions, ActivateSession, CloseTerms, OpenTerm, Activating
    <3> QED BY <1>2, <3>1, GoesFits
  <2> QED BY <2>1, <2>2
<1>4. call'[k] = c /\ call'[k] \in Call
  BY <1>1, <1>3 DEF TypeInv, TypeOK
<1>5. SameTerms
  <2>1. PICK T \in SUBSET Present, status \in {"active", "closed"} :
          term' = [t \in TermIds |-> IF t \in T THEN [term[t] EXCEPT !.status = status]
                                     ELSE term[t]]
    <3>1. CASE DeactivateSessions(k) \/ ActivateSession(k)
      <4>1. term' = [t \in TermIds |-> IF t \in {} THEN [term[t] EXCEPT !.status = "closed"]
                                       ELSE term[t]]
        BY <3>1 DEF DeactivateSessions, ActivateSession, TypeInv, TypeOK
      <4>2. {} \in SUBSET Present /\ "closed" \in {"active", "closed"}
        OBVIOUS
      <4> QED BY <4>1, <4>2, Zenon
    <3>2. CASE CloseTerms(k)
      BY <3>2 DEF CloseTerms, TermsOf
    <3>3. CASE OpenTerm(k)
      <4>1. term' = [t \in TermIds |-> IF t \in {call[k].term}
                       THEN [term[t] EXCEPT !.status = "active"] ELSE term[t]]
        BY <3>3 DEF OpenTerm, TypeInv, TypeOK
      <4>2. {call[k].term} \in SUBSET Present
        BY <1>2 DEF TypeInv, CallsInv, CallFits
      <4> QED BY <4>1, <4>2
    <3> QED BY <3>1, <3>2, <3>3
  <2>2. lastTerm' = lastTerm
    BY DEF DeactivateSessions, ActivateSession, CloseTerms, OpenTerm
  <2> QED BY <2>1, <2>2, StatusesChange DEF TypeInv
<1> QED BY <1>2, <1>3, <1>4, <1>5

LEMMA MarksStep ==
  ASSUME TypeInv, MarksInv, [Next]_vars
  PROVE  MarksInv'
<1>0. alone \subseteq Calls /\ TypeOK
  BY DEF TypeInv, TypeOK
<1>1. CASE UNCHANGED vars \/ Tick
  <2>1. UNCHANGED <<year, mark, given, call, alone>>
    BY <1>1 DEF vars, Tick, year
  <2>2. LatestTerm' = LatestTerm
    BY <1>0, <2>1, YearSame, SameLatest
  <2> QED BY <1>0, <2>1, <2>2, MarksKept
<1>2. ASSUME NEW k \in Calls, Begin(k) PROVE MarksInv'
  BY <1>2, BeginMarks
<1>3. ASSUME NEW k \in Calls, Step(k) PROVE MarksInv'
  <2>1. CASE DeactivateSessions(k) \/ ActivateSession(k) \/ CloseTerms(k) \/ OpenTerm(k)
    <3>1. call'[k].pc # "mark"
      BY <2>1, YearStepsShape DEF Activating
    <3> QED BY <2>1, <3>1, YearStepsShape, OtherCallMarks
  <2>2. CASE \E i \in DOMAIN call[k].todo : FindMark(k, i) \/ InsertMark(k, i) \/ UpdateMark(k, i)
    BY <2>2, RecordStepsMarks
  <2>3. CASE EndMark(k)
    BY <2>3, EndMarkMarks
  <2>4. CASE ReadClock(k) \/ InsertClock(k) \/ CompareClock(k) \/ WriteClock(k) \/ CutOff(k)
    <3>1. call'[k].pc # "mark" /\ SameTerms
      BY <1>0, <2>4, ClockShape, YearSame DEF Saving
    <3> QED BY <2>4, <3>1, ClockShape, OtherCallMarks
  <2> QED BY <1>3, <2>1, <2>2, <2>3, <2>4 DEF Step
<1>4. CASE \/ \E e \in Sessions : CreateSession(e) \/ CreateTerm(e)
           \/ \E t \in TermIds : CloseTerm(t) \/ UnlockTerm(t)
  <2>1. UNCHANGED <<mark, given, call>> /\ alone' = {}
    BY <1>4 DEF CreateSession, CreateTerm, CloseTerm, UnlockTerm, SetStatus, Passes, days
  <2> QED BY <2>1, MarksKept
<1> QED BY <1>1, <1>2, <1>3, <1>4 DEF Next

LEMMA MarksStart ==
  ASSUME Init
  PROVE  MarksInv
<1>1. \A k \in Calls : call[k].pc = "idle"
  BY IdleFits DEF Init
<1> QED BY <1>1 DEF Init, MarksInv, AskedInv, RegisterInv, KeptInv, At

(* A lone register is kept as it was given, is refused only for a pupil it *)
(* names twice, and counts in the term a lone activation has opened, if    *)
(* that is the last one created.                                           *)
THEOREM RegisterKeptAlways == Spec => []RegisterKept
<1>1. Spec => [](TypeInv /\ MarksInv)
  BY TypeStart, TypeStep, MarksStart, MarksStep, PTL DEF Spec
<1>2. TypeInv /\ MarksInv => RegisterKept
  <2> SUFFICES ASSUME TypeInv, MarksInv PROVE MarkedAsGiven /\ MarksUnderOpenTerm
    BY DEF RegisterKept
  <2>1. ASSUME NEW k \in alone, NEW i \in DOMAIN call[k].todo, call[k].todo[i] = "refused"
        PROVE  \E j \in DOMAIN call[k].todo \ {i} :
                 call[k].register[j].pupil = call[k].register[i].pupil
    <3>1. CallFits(call[k])
      BY DEF TypeInv, TypeOK, CallsInv
    <3>2. At(k, "mark") /\ DOMAIN call[k].todo = DOMAIN call[k].register
      BY <3>1 DEF CallFits, At
    <3>3. RecordFits(call[k], i)
      BY <3>2 DEF MarksInv, RegisterInv
    <3> QED BY <2>1, <3>2, <3>3 DEF RecordFits, SamePupil
  <2>2. MarkedAsGiven
    BY <2>1 DEF MarksInv, KeptInv, MarkedAsGiven
  <2>3. ASSUME NEW k \in alone, At(k, "mark"), opened[Home] = Max(TermsOf(Home) \cup {0})
        PROVE  call[k].term = opened[Home]
    <3>1. call[k].term = LatestTerm /\ TermsOf(Home) # {}
      BY <2>3 DEF MarksInv, RegisterInv, TypeInv, TypeOK, CallsInv, CallFits, At
    <3> QED BY <2>3, <3>1, LatestOrNone DEF TypeInv
  <2> QED BY <2>2, <2>3 DEF MarksUnderOpenTerm
<1> QED BY <1>1, <1>2, PTL

-----------------------------------------------------------------------------
(* The clocks.                                                             *)

LEMMA RowIsClock ==
  ASSUME NEW r \in Clock
  PROVE  /\ r.in \in Nat /\ r.out \in Nat /\ r.late \in BOOLEAN /\ r.manual \in BOOLEAN
         /\ r.row \in BOOLEAN
BY SchoolYearAssumption DEF Clock

LEMMA ClockStillFits ==
  ASSUME TypeInv, NEW r \in Clock, ClockFits(r), now' \in Nat, now' >= now
  PROVE  ClockFits(r)'
<1>1. r.in \in Nat /\ now \in Nat
  BY RowIsClock, SchoolYearAssumption DEF TypeInv, TypeOK
<1> QED BY <1>1 DEF ClockFits

(* Steps that leave the rows alone and save nothing yet.                   *)
LEMMA ClocksKept ==
  ASSUME TypeInv, ClocksInv, UNCHANGED <<clock, corrected, touched>>,
         now' \in Nat, now' >= now, alone' \subseteq Calls,
         \A k \in Calls : \/ call'[k] = call[k] /\ (k \in alone' => k \in alone)
                          \/ call'[k].pc \notin OfClock
                          \/ call'[k].pc \in {"photo", "scan"} /\ call'[k].manual = 0
  PROVE  ClocksInv'
<1>1. /\ now \in Nat /\ \A u \in Staff : clock[u] \in Clock
      /\ \A k \in Calls : call[k].object \in Clock
  BY SchoolYearAssumption DEF TypeInv, TypeOK, Call
<1>2. now' # 0 /\ CorrectedInv'
  BY <1>1 DEF ClocksInv, CorrectedInv
<1>3. RowsInv'
  BY <1>1, ClockStillFits DEF ClocksInv, RowsInv
<1>4. ASSUME NEW k \in Calls PROVE CallSaves(call[k])'
  <2>1. CASE call'[k] = call[k]
    <3>1. CallSaves(call[k])
      BY DEF ClocksInv, SavesInv
    <3>2. PICK o \in Clock : o = call[k].object
      BY <1>1
    <3>3. ClockFits(o) => ClockFits(o)'
      BY ClockStillFits
    <3>4. ClockFits(call[k].object) => ClockFits(call[k].object)'
      BY <2>1, <3>2, <3>3 DEF ClockFits
    <3>5. SaveFits(call[k]) => SaveFits(call[k])'
      BY <2>1 DEF SaveFits
    <3> QED BY <2>1, <3>1, <3>4, <3>5 DEF CallSaves
  <2>2. CASE call'[k].pc \notin Saving /\ (call'[k].pc \in {"photo", "scan"} => call'[k].manual = 0)
    BY <2>2 DEF CallSaves
  <2> QED BY <2>1, <2>2 DEF OfClock, Saving
<1>5. ASSUME NEW k \in alone', call'[k].pc \in Saving PROVE LoneSaveFits(call[k])'
  <2>1. call'[k] = call[k] /\ k \in alone
    BY <1>5 DEF OfClock, Saving
  <2>2. LoneSaveFits(call[k])
    BY <1>5, <2>1 DEF ClocksInv, LoneInv
  <2> QED BY <2>1, <2>2 DEF LoneSaveFits
<1> QED BY <1>2, <1>3, <1>4, <1>5 DEF ClocksInv, SavesInv, LoneInv

(* A call with an object to save.                                          *)
LEMMA SaveMoves ==
  ASSUME TypeInv, ClocksInv, NEW k \in Calls, NEW c \in Call, call' = [call EXCEPT ![k] = c],
         UNCHANGED <<clock, corrected, now>>, touched \subseteq touched', c.pc \in Saving,
         alone' = alone \/ alone' \subseteq {k},
         c.user \notin touched' => SaveFits(c) /\ ClockFits(c.object),
         k \in alone' => LoneSaveFits(c)
  PROVE  ClocksInv'
<1>1. /\ call'[k] = c /\ \A j \in Calls : j # k => call'[j] = call[j]
      /\ alone' \subseteq Calls
  BY DEF TypeInv, TypeOK
<1>2. now' # 0 /\ CorrectedInv' /\ RowsInv'
  BY DEF ClocksInv, CorrectedInv, RowsInv, ClockFits
<1>3. ASSUME NEW j \in Calls PROVE CallSaves(call[j])'
  <2>1. CASE j = k
    BY <1>1, <2>1 DEF CallSaves, SaveFits, ClockFits, Saving
  <2>2. CASE j # k
    <3>1. CallSaves(call[j]) /\ call'[j] = call[j]
      BY <1>1, <2>2 DEF ClocksInv, SavesInv
    <3> QED BY <3>1 DEF CallSaves, SaveFits, ClockFits
  <2> QED BY <2>1, <2>2
<1>4. ASSUME NEW j \in alone', call'[j].pc \in Saving PROVE LoneSaveFits(call[j])'
  <2>1. CASE j = k
    BY <1>1, <1>4, <2>1 DEF LoneSaveFits
  <2>2. CASE j # k
    <3>1. call'[j] = call[j] /\ LoneSaveFits(call[j])
      BY <1>1, <1>4, <2>2 DEF ClocksInv, LoneInv
    <3> QED BY <3>1 DEF LoneSaveFits
  <2> QED BY <2>1, <2>2
<1> QED BY <1>2, <1>3, <1>4 DEF ClocksInv, SavesInv, LoneInv

(* A call that has written its row ends.                                   *)
LEMMA SaveEnds ==
  ASSUME TypeInv, ClocksInv, NEW k \in Calls, ~At(k, "idle"), Ends(k),
         NEW u \in Staff, NEW row \in Clock, clock' = [clock EXCEPT ![u] = row],
         UNCHANGED <<now, touched>>,
         \A v \in Staff \ {u} : corrected'[v] = corrected[v],
         corrected'[u] # 0 => row.in = corrected'[u],
         u \notin touched => ClockFits(row),
         u \notin touched /\ clock[u].row =>
           row.row /\ row.in = clock[u].in /\ row.late = clock[u].late /\ row.manual = clock[u].manual
  PROVE  ClocksInv'
<1>1. /\ call'[k] = Idle /\ \A j \in Calls : j # k => call'[j] = call[j]
      /\ alone' = alone /\ alone \subseteq Calls /\ Idle.pc = "idle"
      /\ clock'[u] = row /\ \A v \in Staff \ {u} : clock'[v] = clock[v]
  BY CallPcs DEF TypeInv, TypeOK, Ends
<1>2. now' # 0 /\ CorrectedInv'
  BY <1>1 DEF ClocksInv, CorrectedInv
<1>3. RowsInv'
  BY <1>1 DEF ClocksInv, RowsInv, ClockFits
<1>4. ASSUME NEW j \in Calls PROVE CallSaves(call[j])'
  <2>1. CASE j = k
    BY <1>1, <2>1 DEF CallSaves, Saving
  <2>2. CASE j # k
    <3>1. CallSaves(call[j]) /\ call'[j] = call[j]
      BY <1>1, <2>2 DEF ClocksInv, SavesInv
    <3>2. CASE call[j].pc \in Saving /\ call[j].user \notin touched
      <4>1. call[j].user \in Staff /\ SaveFits(call[j]) /\ ClockFits(call[j].object)
        BY <3>1, <3>2 DEF CallSaves, TypeInv, CallsInv, CallFits, OfClock
      <4>2. SaveFits(call[j])'
        BY <1>1, <3>1, <3>2, <4>1 DEF SaveFits
      <4>3. ClockFits(call[j].object)' /\ call'[j].pc \notin {"photo", "scan"}
        BY <3>1, <3>2, <4>1 DEF ClockFits, Saving
      <4> QED BY <4>2, <4>3 DEF CallSaves
    <3>3. CASE ~(call[j].pc \in Saving /\ call[j].user \notin touched)
      BY <3>1, <3>3 DEF CallSaves
    <3> QED BY <3>2, <3>3
  <2> QED BY <2>1, <2>2
<1>5. \A j \in alone : call'[j].pc \notin Saving
  BY <1>1, OthersIdle DEF Saving
<1> QED BY <1>1, <1>2, <1>3, <1>4, <1>5 DEF ClocksInv, SavesInv, LoneInv

LEMMA BeginClocks ==
  ASSUME TypeInv, ClocksInv, NEW k \in Calls, Begin(k)
  PROVE  ClocksInv'
<1>1. /\ alone' \subseteq {k} /\ UNCHANGED <<clock, now>> /\ call' = [call EXCEPT ![k] = call'[k]]
      /\ call'[k] \in Call /\ now \in Nat /\ TypeOK
  <2>1. TypeOK /\ now \in Nat
    BY SchoolYearAssumption DEF TypeInv, TypeOK
  <2>2. UNCHANGED days /\ alone' \subseteq {k}
    BY BeginShape, Zenon
  <2>3. call' = [call EXCEPT ![k] = call'[k]] /\ call'[k] \in Call
    BY BeginShape, Zenon
  <2> QED BY <2>1, <2>2, <2>3 DEF days
<1>2. CASE \E u \in Staff, c \in Corrections : ManualStaffAttendance(k, u, c)
  <2>1. PICK u \in Staff, c \in Corrections : ManualStaffAttendance(k, u, c)
    BY <1>2
  <2> DEFINE r == clock[u]
             object == [in |-> IF c.in # 0 THEN c.in ELSE r.in,
                        out |-> IF c.out # 0 THEN c.out ELSE r.out,
                        late |-> r.late, manual |-> TRUE, row |-> TRUE]
             pc == IF r.row THEN "compare" ELSE "insert"
             first == [Idle EXCEPT !.user = u, !.manual = c.in, !.pc = pc, !.object = object]
  <2>2. /\ call' = [call EXCEPT ![k] = first] /\ touched' = touched \cup {u}
        /\ corrected' = corrected
    BY <2>1 DEF ManualStaffAttendance, Begins
  <2>3. /\ first.user = u /\ first.manual = c.in /\ first.pc = pc /\ first.object = object
        /\ object.in = (IF c.in # 0 THEN c.in ELSE r.in) /\ pc \in {"compare", "insert"}
    BY CallPcs DEF Call
  <2>4. call'[k] = first
    <3> HIDE DEF first
    <3> QED BY <2>2 DEF TypeInv, TypeOK
  <2> HIDE DEF first, pc, object
  <2>5. LoneSaveFits(first)
    BY <2>3 DEF LoneSaveFits
  <2> QED BY <1>1, <2>2, <2>3, <2>4, <2>5, SaveMoves DEF Saving
<1>3. CASE ~\E u \in Staff, c \in Corrections : ManualStaffAttendance(k, u, c)
  <2>1. UNCHANGED <<corrected, touched>>
    BY <1>3, BeginShape DEF ActivateTerm, MarkStudentAttendance
  <2>2. \/ call'[k].pc \notin OfClock
        \/ call'[k].pc \in {"photo", "scan"} /\ call'[k].manual = 0
    BY <1>3, BeginShape DEF OfClock, Saving
  <2>3. \A j \in Calls : j # k => call'[j] = call[j]
    BY <1>1 DEF TypeOK
  <2> QED BY <1>1, <2>1, <2>2, <2>3, ClocksKept
<1> QED BY <1>2, <1>3

LEMMA ReadClockClocks ==
  ASSUME TypeInv, ClocksInv, NEW k \in Calls, ReadClock(k)
  PROVE  ClocksInv'
<1> DEFINE u == call[k].user
           r == clock[u]
           object == IF r.in = 0 THEN ClockedIn(r) ELSE [r EXCEPT !.out = now]
           pc == IF r.row THEN "compare" ELSE "insert"
           c == [call[k] EXCEPT !.object = object, !.pc = pc]
<1>1. /\ UNCHANGED <<clock, now, alone, corrected, touched>> /\ call[k].pc \in {"photo", "scan"}
      /\ call'[k] \in Call /\ call' = [call EXCEPT ![k] = call'[k]]
  BY ClockShape DEF ReadClock, days
<1>2. /\ TypeOK /\ now \in Nat /\ alone \subseteq Calls /\ u \in Staff /\ r \in Clock
      /\ \A j \in Calls : j # k => call'[j] = call[j]
  BY <1>1, SchoolYearAssumption DEF TypeInv, TypeOK, CallsInv, CallFits, OfClock
<1>3. CASE Ends(k)
  <2>1. call'[k].pc \notin OfClock
    BY <1>3, CallPcs DEF Ends, OfClock, Saving
  <2> QED BY <1>1, <1>2, <2>1, ClocksKept
<1>4. CASE ~Ends(k)
  <2>1. call' = [call EXCEPT ![k] = c]
    BY <1>4, CallPcs DEF ReadClock
  <2>2. c.object = object /\ c.pc = pc /\ c.user = u /\ c.manual = call[k].manual
    <3> HIDE DEF object, pc
    <3> QED BY CallPcs DEF Call
  <2>3. call'[k] = c
    <3> HIDE DEF c
    <3> QED BY <1>2, <2>1 DEF TypeOK
  <2>4. c.manual = 0 /\ pc \in {"compare", "insert"}
    BY <1>1, <2>2 DEF ClocksInv, SavesInv, CallSaves
  <2>5. /\ r.in = 0 => /\ object.in = now /\ object.out = r.out /\ (object.late <=> now > StartTime)
                       /\ object.manual = r.manual /\ object.row
        /\ r.in # 0 => /\ object.in = r.in /\ object.out = now /\ object.late = r.late
                       /\ object.manual = r.manual /\ object.row = r.row
    <3> HIDE DEF u
    <3> QED BY <1>2 DEF ClockedIn, Clock
  <2>6. ASSUME u \notin touched PROVE SaveFits(c) /\ ClockFits(object)
    <3>1. ClockFits(r) /\ now # 0
      BY <1>2, <2>6 DEF ClocksInv, RowsInv
    <3>2. r.in \in Nat /\ r.out \in Nat
      BY <1>2, RowIsClock
    <3> HIDE DEF u, r, object, c, pc
    <3>3. ClockFits(object)
      BY <1>2, <2>5, <3>1, <3>2 DEF ClockFits
    <3>4. r.row <=> pc = "compare"
      BY DEF pc
    <3>5. SaveFits(c)
      BY <1>2, <2>2, <2>4, <2>5, <3>1, <3>4 DEF SaveFits, ClockFits, r
    <3> QED BY <3>3, <3>5
  <2>7. LoneSaveFits(c)
    <3>1. corrected[u] # 0 => r.in # 0
      BY <1>2 DEF ClocksInv, CorrectedInv
    <3> HIDE DEF object, pc, c
    <3> QED BY <2>2, <2>4, <2>5, <3>1 DEF LoneSaveFits
  <2> HIDE DEF c, object, pc
  <2> QED BY <1>1, <2>2, <2>3, <2>4, <2>6, <2>7, SaveMoves DEF Saving
<1> QED BY <1>3, <1>4

LEMMA CompareClockClocks ==
  ASSUME TypeInv, ClocksInv, NEW k \in Calls, CompareClock(k)
  PROVE  ClocksInv'
<1> DEFINE r == clock[call[k].user]
           cols == {x \in Columns : call[k].object[x] # r[x]}
           c == [call[k] EXCEPT !.pc = "write", !.cols = cols]
<1>1. /\ UNCHANGED <<clock, now, alone, corrected, touched>> /\ call[k].pc = "compare"
      /\ call' = [call EXCEPT ![k] = c]
  BY CallPcs DEF CompareClock, days, At
<1>2. /\ c.pc = "write" /\ c.cols = cols /\ c.user = call[k].user /\ c.manual = call[k].manual
      /\ c.object = call[k].object
  <2> HIDE DEF cols
  <2> QED BY CallPcs DEF Call
<1>3. call'[k] = c /\ call'[k] \in Call
  <2>1. call'[k] \in Call
    BY ClockShape
  <2> HIDE DEF c
  <2> QED BY <1>1, <2>1 DEF TypeInv, TypeOK
<1> HIDE DEF c
<1>4. ASSUME c.user \notin touched PROVE SaveFits(c) /\ ClockFits(c.object)
  <2>1. SaveFits(call[k]) /\ ClockFits(c.object)
    BY <1>1, <1>2, <1>4 DEF ClocksInv, SavesInv, CallSaves, Saving
  <2>2. cols \subseteq {"out"}
    BY <1>1, <2>1 DEF SaveFits, Columns
  <2> QED BY <1>1, <1>2, <2>1, <2>2 DEF SaveFits
<1>5. ASSUME k \in alone PROVE LoneSaveFits(c)
  <2>1. LoneSaveFits(call[k])
    BY <1>1, <1>5 DEF ClocksInv, LoneInv, Saving
  <2>2. "in" \notin cols => c.object.in = r.in
    BY <1>2 DEF Columns
  <2> QED BY <1>2, <2>1, <2>2 DEF LoneSaveFits
<1> QED BY <1>1, <1>2, <1>3, <1>4, <1>5, SaveMoves DEF Saving

LEMMA CorrectsClocks ==
  ASSUME TypeInv, ClocksInv, NEW k \in Calls, call[k].pc \in Saving, Corrects(k)
  PROVE  /\ call[k].user \in Staff
         /\ \A v \in Staff \ {call[k].user} : corrected'[v] = corrected[v]
         /\ corrected'[call[k].user] # 0 =>
              LoneSaveFits(call[k]) /\ call[k].object.in = corrected'[call[k].user]
<1> DEFINE u == call[k].user
<1>1. u \in Staff /\ corrected \in [Staff -> 0 .. MaxTime]
  BY DEF TypeInv, TypeOK, CallsInv, CallFits, OfClock
<1>2. corrected' = [corrected EXCEPT ![u] = IF k \notin alone THEN 0
                                           ELSE IF call[k].manual # 0 THEN call[k].manual
                                           ELSE corrected[u]]
  BY DEF Corrects
<1>3. \A v \in Staff \ {u} : corrected'[v] = corrected[v]
  BY <1>1, <1>2
<1>4. ASSUME corrected'[u] # 0
      PROVE  LoneSaveFits(call[k]) /\ call[k].object.in = corrected'[u]
  <2>1. k \in alone
    BY <1>1, <1>2, <1>4
  <2>2. corrected'[u] = IF call[k].manual # 0 THEN call[k].manual ELSE corrected[u]
    BY <1>1, <1>2, <2>1
  <2>3. LoneSaveFits(call[k]) /\ (corrected[u] # 0 => clock[u].in = corrected[u])
    BY <1>1, <2>1 DEF ClocksInv, LoneInv, CorrectedInv
  <2> QED BY <1>4, <2>2, <2>3 DEF LoneSaveFits
<1> QED BY <1>1, <1>3, <1>4

LEMMA InsertClockClocks ==
  ASSUME TypeInv, ClocksInv, NEW k \in Calls, InsertClock(k)
  PROVE  ClocksInv'
<1>1. /\ ~At(k, "idle") /\ call[k].pc \in Saving /\ Ends(k) /\ UNCHANGED <<now, touched>>
  BY DEF InsertClock, At, Saving
<1>2. TypeOK /\ now \in Nat /\ call[k] \in Call /\ call[k].object \in Clock /\ call[k].user \in Staff
  BY <1>1, SchoolYearAssumption DEF TypeInv, TypeOK, Call, CallsInv, CallFits, OfClock
<1>3. CASE clock[call[k].user].row
  <2>1. call'[k].pc \notin OfClock /\ alone' = alone /\ alone \subseteq Calls
    BY <1>1, <1>2, CallPcs DEF Ends, OfClock, Saving, TypeOK
  <2>2. UNCHANGED <<clock, corrected>> /\ \A j \in Calls : j # k => call'[j] = call[j]
    BY <1>1, <1>2, <1>3 DEF InsertClock, Ends, TypeOK
  <2> QED BY <1>1, <1>2, <2>1, <2>2, ClocksKept
<1>4. CASE ~clock[call[k].user].row
  <2>1. clock' = [clock EXCEPT ![call[k].user] = call[k].object] /\ Corrects(k)
    BY <1>4 DEF InsertClock
  <2>2. call[k].user \notin touched => ClockFits(call[k].object)
    BY <1>1 DEF ClocksInv, SavesInv, CallSaves
  <2> QED BY <1>1, <1>2, <1>4, <2>1, <2>2, CorrectsClocks, SaveEnds
<1> QED BY <1>3, <1>4

LEMMA WriteClockClocks ==
  ASSUME TypeInv, ClocksInv, NEW k \in Calls, WriteClock(k)
  PROVE  ClocksInv'
<1> DEFINE u == call[k].user
           r == clock[u]
           o == call[k].object
           row == [x \in DOMAIN NoClock |-> IF x \in call[k].cols THEN o[x] ELSE r[x]]
<1>1. /\ ~At(k, "idle") /\ call[k].pc = "write" /\ call[k].pc \in Saving /\ Ends(k)
      /\ UNCHANGED <<now, touched>> /\ Corrects(k) /\ clock' = [clock EXCEPT ![u] = row]
  BY DEF WriteClock, At, Saving
<1>2. TypeOK /\ now \in Nat /\ o \in Clock /\ u \in Staff /\ r \in Clock
  BY <1>1, SchoolYearAssumption DEF TypeInv, TypeOK, Call, CallsInv, CallFits, OfClock
<1>3. /\ row \in Clock
      /\ row.in = (IF "in" \in call[k].cols THEN o.in ELSE r.in)
      /\ row.out = (IF "out" \in call[k].cols THEN o.out ELSE r.out)
      /\ row.late = (IF "late" \in call[k].cols THEN o.late ELSE r.late)
      /\ row.manual = (IF "manual" \in call[k].cols THEN o.manual ELSE r.manual)
      /\ row.row = (IF "row" \in call[k].cols THEN o.row ELSE r.row)
  <2> HIDE DEF u, r, o
  <2> QED BY <1>2 DEF Clock, NoClock
<1> HIDE DEF row
<1>4. ASSUME corrected'[u] # 0 PROVE row.in = corrected'[u]
  BY <1>1, <1>3, <1>4, CorrectsClocks DEF LoneSaveFits
<1>5. ASSUME u \notin touched
      PROVE  /\ ClockFits(row) /\ row.row /\ row.in = r.in /\ row.late = r.late
             /\ row.manual = r.manual
  <2>1. SaveFits(call[k]) /\ ClockFits(o) /\ ClockFits(r)
    BY <1>1, <1>2, <1>5 DEF ClocksInv, SavesInv, CallSaves, RowsInv
  <2>2. /\ r.row /\ o.row /\ o.in = r.in /\ o.late = r.late /\ o.manual = r.manual
        /\ call[k].cols \subseteq {"out"}
    BY <1>1, <2>1 DEF SaveFits
  <2>3. /\ row.row = r.row /\ row.in = r.in /\ row.late = r.late /\ row.manual = r.manual
        /\ row.out \in {o.out, r.out}
    BY <1>3, <2>2
  <2> HIDE DEF r, o
  <2> QED BY <2>1, <2>2, <2>3 DEF ClockFits
<1> QED BY <1>1, <1>2, <1>3, <1>4, <1>5, CorrectsClocks, SaveEnds

LEMMA ClocksStep ==
  ASSUME TypeInv, ClocksInv, [Next]_vars
  PROVE  ClocksInv'
<1>0. alone \subseteq Calls /\ TypeOK /\ now \in Nat
  BY SchoolYearAssumption DEF TypeInv, TypeOK
<1>1. CASE UNCHANGED vars \/ Tick
  <2>1. UNCHANGED <<clock, corrected, touched, call, alone>> /\ (now' = now \/ now' = now + 1)
    BY <1>1 DEF vars, Tick
  <2>2. now' \in Nat /\ now' >= now
    BY <1>0, <2>1
  <2> QED BY <1>0, <2>1, <2>2, ClocksKept
<1>2. ASSUME NEW k \in Calls, Begin(k) PROVE ClocksInv'
  BY <1>2, BeginClocks
<1>3. ASSUME NEW k \in Calls, Step(k) PROVE ClocksInv'
  <2>1. ASSUME call'[k].pc \notin OfClock, call' = [call EXCEPT ![k] = call'[k]], alone' = alone,
               UNCHANGED <<clock, now, corrected, touched>>
        PROVE  ClocksInv'
    <3>1. \A j \in Calls : j # k => call'[j] = call[j]
      BY <1>0, <2>1 DEF TypeOK
    <3> QED BY <1>0, <2>1, <3>1, ClocksKept
  <2>2. CASE DeactivateSessions(k) \/ ActivateSession(k) \/ CloseTerms(k) \/ OpenTerm(k)
    <3>1. call'[k].pc \notin OfClock
      BY <2>2, YearStepsShape DEF Activating, OfClock, Saving
    <3> QED BY <2>1, <2>2, <3>1, YearStepsShape
  <2>3. CASE \/ \E i \in DOMAIN call[k].todo :
                  FindMark(k, i) \/ InsertMark(k, i) \/ UpdateMark(k, i)
             \/ EndMark(k)
    <3>1. call'[k].pc \notin OfClock
      BY <2>3, RegisterShape DEF OfClock, Saving
    <3> QED BY <2>1, <2>3, <3>1, RegisterShape
  <2>4. CASE CutOff(k)
    <3>1. call'[k].pc \notin OfClock
      BY <2>4, CallPcs DEF CutOff, Ends, OfClock, Saving
    <3> QED BY <2>1, <2>4, <3>1, ClockShape DEF CutOff, days
  <2> QED BY <1>3, <2>2, <2>3, <2>4, ReadClockClocks, InsertClockClocks, CompareClockClocks,
             WriteClockClocks DEF Step
<1>4. CASE \/ \E e \in Sessions : CreateSession(e) \/ CreateTerm(e)
           \/ \E t \in TermIds : CloseTerm(t) \/ UnlockTerm(t)
  <2>1. UNCHANGED <<clock, now, corrected, touched, call>> /\ alone' = {}
    BY <1>4 DEF CreateSession, CreateTerm, CloseTerm, UnlockTerm, SetStatus, Passes, days
  <2> QED BY <1>0, <2>1, ClocksKept
<1> QED BY <1>1, <1>2, <1>3, <1>4 DEF Next

LEMMA ClocksStart ==
  ASSUME Init
  PROVE  ClocksInv
<1>1. \A k \in Calls : call[k].pc = "idle"
  BY IdleFits DEF Init
<1>2. \A u \in Staff : ~clock[u].row /\ clock[u].in = 0 /\ clock[u].out = 0 /\ ~clock[u].manual
  BY DEF Init, NoClock
<1> QED BY <1>1, <1>2 DEF Init, ClocksInv, RowsInv, CorrectedInv, SavesInv, LoneInv, ClockFits,
                          CallSaves, Saving

(* Whoever nobody corrects clocks in once, late or in time, and clocks out *)
(* after that, however many photos and scans overlap; and the clock-in of  *)
(* a lone correction stands, unless a call overlapped.                     *)
THEOREM ClocksInOrderAlways == Spec => []ClocksInOrder
<1>1. Spec => [](TypeInv /\ ClocksInv)
  BY TypeStart, TypeStep, ClocksStart, ClocksStep, PTL DEF Spec
<1>2. TypeInv /\ ClocksInv => ClocksInOrder
  BY DEF ClocksInv, RowsInv, CorrectedInv, ClockFits, ClocksInOrder
<1> QED BY <1>1, <1>2, PTL
=============================================================================
