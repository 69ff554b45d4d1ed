--------------------------- MODULE Requests_proofs ---------------------------
(***************************************************************************)
(* For any endpoints, roles, classes, subjects and number of changes made  *)
(* by others: what a request was answered for was once the caller's, and   *)
(* while nothing changes nobody is refused what the application shows them.*)
(***************************************************************************)
EXTENDS Requests, TLAPS

(* What the decorators agree on: guards stand before what they check, and  *)
(* one endpoint lets its caller choose whose timetable it prints.          *)
Shaped(e) ==
  /\ e.guards # {} => "jwt" \in e.guards
  /\ e.roles # {} => "roles" \in e.guards
  /\ e.permission # NoPermission => "permission" \in e.guards
  /\ "target" \in e.needs \cup e.may => e.name = "exportTimetablePdf"

LEMMA OpenShaped == \A names : \A e \in Open(names) : Shaped(e)
BY DEF Open, Row, Shaped
LEMMA SelfServiceShaped == \A names : \A e \in SelfService(names) : Shaped(e)
BY DEF SelfService, Row, Shaped
LEMMA ForRolesShaped == \A roles, names : \A e \in ForRoles(roles, names) : Shaped(e)
BY DEF ForRoles, Row, Shaped
LEMMA AskingOfShaped ==
  \A roles, resource, action, needs, may, names :
    "target" \notin needs \cup may =>
      \A e \in AskingOf(roles, resource, action, needs, may, names) : Shaped(e)
BY DEF AskingOf, Row, Shaped
LEMMA AskingShaped ==
  \A resource, action, needs, may, names :
    "target" \notin needs \cup may =>
      \A e \in Asking(resource, action, needs, may, names) : Shaped(e)
BY AskingOfShaped DEF Asking
LEMMA TargetShaped ==
  \A roles, resource, action, needs, may :
    \A e \in AskingOf(roles, resource, action, needs, may, {"exportTimetablePdf"}) : Shaped(e)
BY DEF AskingOf, Row, Shaped

LEMMA EndpointsShaped == \A e \in Endpoints : Shaped(e)
<1>1. \A e \in AccessAEndpoints : Shaped(e)
  BY ForRolesShaped DEF AccessAEndpoints
<1>2. \A e \in AccessBEndpoints : Shaped(e)
  BY ForRolesShaped DEF AccessBEndpoints
<1>3. \A e \in AppEndpoints : Shaped(e)
  BY OpenShaped DEF AppEndpoints
<1>4. \A e \in AttendanceAEndpoints : Shaped(e)
  BY AskingShaped DEF AttendanceAEndpoints
<1>5. \A e \in AttendanceBEndpoints : Shaped(e)
  BY AskingShaped DEF AttendanceBEndpoints
<1>6. \A e \in AuthEndpoints : Shaped(e)
  BY OpenShaped, SelfServiceShaped DEF AuthEndpoints
<1>7. \A e \in ClassesAEndpoints : Shaped(e)
  BY AskingShaped DEF ClassesAEndpoints
<1>8. \A e \in ClassesBEndpoints : Shaped(e)
  BY AskingShaped DEF ClassesBEndpoints
<1>9. \A e \in CommunicationEndpoints : Shaped(e)
  BY AskingShaped DEF CommunicationEndpoints
<1>10. \A e \in DashboardEndpoints : Shaped(e)
  BY ForRolesShaped, AskingShaped DEF DashboardEndpoints
<1>11. \A e \in ExpenseBudgetsEndpoints : Shaped(e)
  BY AskingShaped DEF ExpenseBudgetsEndpoints
<1>12. \A e \in ExpenseRecurringEndpoints : Shaped(e)
  BY AskingShaped DEF ExpenseRecurringEndpoints
<1>13. \A e \in ExpenseReportsEndpoints : Shaped(e)
  BY AskingShaped DEF ExpenseReportsEndpoints
<1>14. \A e \in ExpenseRequestsEndpoints : Shaped(e)
  BY AskingShaped DEF ExpenseRequestsEndpoints
<1>15. \A e \in ExpenseVendorsEndpoints : Shaped(e)
  BY AskingShaped DEF ExpenseVendorsEndpoints
<1>16. \A e \in ExpensesAEndpoints : Shaped(e)
  BY AskingShaped DEF ExpensesAEndpoints
<1>17. \A e \in ExpensesBEndpoints : Shaped(e)
  BY ForRolesShaped, AskingShaped DEF ExpensesBEndpoints
<1>18. \A e \in PettyCashEndpoints : Shaped(e)
  BY AskingShaped DEF PettyCashEndpoints
<1>19. \A e \in FeesAEndpoints : Shaped(e)
  BY AskingShaped DEF FeesAEndpoints
<1>20. \A e \in FeesBEndpoints : Shaped(e)
  BY AskingShaped DEF FeesBEndpoints
<1>21. \A e \in FeesCEndpoints : Shaped(e)
  BY ForRolesShaped, AskingShaped DEF FeesCEndpoints
<1>22. \A e \in FeesDEndpoints : Shaped(e)
  BY AskingShaped DEF FeesDEndpoints
<1>23. \A e \in IdCardsAEndpoints : Shaped(e)
  BY AskingShaped DEF IdCardsAEndpoints
<1>24. \A e \in IdCardsBEndpoints : Shaped(e)
  BY AskingShaped DEF IdCardsBEndpoints
<1>25. \A e \in MarketingEndpoints : Shaped(e)
  BY OpenShaped DEF MarketingEndpoints
<1>26. \A e \in PdfEndpoints : Shaped(e)
  BY AskingShaped DEF PdfEndpoints
<1>27. \A e \in ResultsAEndpoints : Shaped(e)
  BY AskingShaped DEF ResultsAEndpoints
<1>28. \A e \in ResultsBEndpoints : Shaped(e)
  BY AskingShaped DEF ResultsBEndpoints
<1>29. \A e \in ResultsCEndpoints : Shaped(e)
  BY AskingShaped DEF ResultsCEndpoints
<1>30. \A e \in SchoolsAEndpoints : Shaped(e)
  BY OpenShaped, SelfServiceShaped, ForRolesShaped DEF SchoolsAEndpoints
<1>31. \A e \in SchoolsBEndpoints : Shaped(e)
  BY ForRolesShaped DEF SchoolsBEndpoints
<1>32. \A e \in StudentsAEndpoints : Shaped(e)
  BY AskingOfShaped, AskingShaped DEF StudentsAEndpoints
<1>33. \A e \in StudentsBEndpoints : Shaped(e)
  BY AskingShaped DEF StudentsBEndpoints
<1>34. \A e \in SubjectsEndpoints : Shaped(e)
  BY AskingShaped DEF SubjectsEndpoints
<1>35. \A e \in TermsEndpoints : Shaped(e)
  BY ForRolesShaped, AskingShaped DEF TermsEndpoints
<1>36. \A e \in TimetableAEndpoints : Shaped(e)
  BY AskingOfShaped DEF TimetableAEndpoints
<1>37. \A e \in TimetableBEndpoints : Shaped(e)
  BY AskingOfShaped DEF TimetableBEndpoints
<1>38. \A e \in TimetableCEndpoints : Shaped(e)
  BY AskingOfShaped, AskingShaped DEF TimetableCEndpoints
<1>39. \A e \in TimetableDEndpoints : Shaped(e)
  BY AskingOfShaped, AskingShaped, TargetShaped DEF TimetableDEndpoints
<1>40. \A e \in UploadEndpoints : Shaped(e)
  BY AskingShaped DEF UploadEndpoints
<1>41. \A e \in UsersAEndpoints : Shaped(e)
  BY ForRolesShaped, AskingShaped DEF UsersAEndpoints
<1>42. \A e \in UsersBEndpoints : Shaped(e)
  BY ForRolesShaped, AskingShaped DEF UsersBEndpoints
<1> QED
  BY <1>1, <1>2, <1>3, <1>4, <1>5, <1>6, <1>7, <1>8, <1>9, <1>10, <1>11, <1>12, <1>13, <1>14, <1>15, <1>16, <1>17, <1>18, <1>19, <1>20, <1>21, <1>22, <1>23, <1>24, <1>25, <1>26, <1>27, <1>28, <1>29, <1>30, <1>31, <1>32, <1>33, <1>34, <1>35, <1>36, <1>37, <1>38, <1>39, <1>40, <1>41, <1>42 DEF Endpoints

-----------------------------------------------------------------------------
(* Types.                                                                  *)

HeldType == [roles : SUBSET Roles, scopes : SUBSET Roles, permits : SUBSET Roles]

LEMMA FactsTyped ==
  ASSUME TypeOK' PROVE Facts' \in HeldType
<1>1. CASE request' = Idle
  BY <1>1 DEF Facts, Nothing, HeldType
<1>2. CASE request' # Idle
  <2>1. {account'.role, request'.as} \ {Nobody} \subseteq Roles
    BY <1>2 DEF TypeOK
  <2> QED BY <1>2, <2>1 DEF Facts, HeldType, TypeOK
<1> QED BY <1>1, <1>2

LEMMA GoesTyped ==
  ASSUME TypeOK, request # Idle, NEW stage \in Stages, Goes(stage), UNCHANGED <<school, changes>>
  PROVE  TypeOK'
<1>1. /\ request'.at \in Stages /\ request'.as = request.as /\ request'.to = request.to
      /\ request'.args = request.args /\ request'.since = request.since
  BY DEF Goes, TypeOK
<1> QED BY <1>1 DEF TypeOK, school

LEMMA StageIsBusy ==
  ASSUME NEW stage \in Stages, request.at = stage PROVE request # Idle
BY DEF Stages, Idle

RequestTyped ==
  \/ request = Idle
  \/ /\ request.at \in Stages /\ request.as \in Roles \cup {Nobody}
     /\ [to |-> request.to, args |-> request.args] \in Asked
     /\ request.since \in 0..changes

LEMMA ChangeTyped ==
  ASSUME TypeOK, Change PROVE changes' \in 0..MaxChanges /\ RequestTyped'
<1>1. changes' \in 0..MaxChanges /\ 0..changes \subseteq 0..changes'
  BY RequestsAssumption DEF Change, TypeOK
<1> QED BY <1>1 DEF Change, TypeOK, RequestTyped

LEMMA MadeRow ==
  ASSUME NEW t \in {Nobody, Actor, Colleague}, NEW l \in BOOLEAN, NEW o \in BOOLEAN
  PROVE  [main |-> t, listed |-> l, ours |-> o] \in SubjectRows
BY DEF SubjectRows

LEMMA RowTyped ==
  ASSUME NEW row \in SubjectRows \cup {NoRow} PROVE row.listed \in BOOLEAN /\ row.ours \in BOOLEAN
<1>1. CASE row \in SubjectRows
  BY <1>1 DEF SubjectRows
<1>2. CASE row = NoRow
  <2>1. row.listed = FALSE /\ row.ours = FALSE
    BY <1>2 DEF NoRow
  <2> QED BY <2>1, Zenon
<1> QED BY <1>1, <1>2

LEMMA CurriculumTyped ==
  ASSUME TypeOK, NEW rows \in [Classes \X Subjects -> SubjectRows \cup {NoRow}], Curriculum(rows)
  PROVE  TypeOK'
BY ChangeTyped DEF TypeOK, RequestTyped, Curriculum

LEMMA OthersTyped ==
  ASSUME TypeOK, Others PROVE TypeOK'
<1> USE ChangeTyped DEF RequestTyped
<1>1. ASSUME NEW r \in Roles, UpdateUser(r) PROVE TypeOK'
  BY <1>1 DEF TypeOK, UpdateUser
<1>2. CASE DeactivateUser \/ ActivateUser \/ SignIn
  BY <1>2 DEF TypeOK, DeactivateUser, ActivateUser, SignIn
<1>3. ASSUME NEW d \in {"none", "GRANT", "DENY"}, SetUserPermission(d) PROVE TypeOK'
  BY <1>3 DEF TypeOK, SetUserPermission
<1>4. CASE LinkParent \/ UnlinkParent
  BY <1>4 DEF TypeOK, LinkParent, UnlinkParent
<1>5. ASSUME NEW c \in Classes, PromoteStudents(c) PROVE TypeOK'
  BY <1>5 DEF TypeOK, PromoteStudents
<1>6. ASSUME NEW c \in Classes, NEW t \in {Actor, Colleague}, AssignClassTeacher(c, t) PROVE TypeOK'
  BY <1>6 DEF TypeOK, AssignClassTeacher
<1> HIDE ChangeTyped
<1> HIDE DEF RequestTyped
<1>7. ASSUME NEW c \in Classes, GetClassSubjectAssignments(c) PROVE TypeOK'
  BY <1>7, CurriculumTyped DEF GetClassSubjectAssignments, TypeOK, SubjectRows
<1>8. ASSUME NEW c \in Classes, NEW subjects \in SUBSET Subjects, AssignSubjectsToClass(c, subjects)
      PROVE  TypeOK'
  BY <1>8, CurriculumTyped DEF AssignSubjectsToClass, TypeOK, SubjectRows
<1>9. ASSUME NEW at \in Classes \X Subjects, RemoveClassSubjectAssignment(at) PROVE TypeOK'
  BY <1>9, CurriculumTyped DEF RemoveClassSubjectAssignment, TypeOK
<1>10. ASSUME NEW at \in Classes \X Subjects, NEW t \in {Actor, Colleague}, AssignSubjectTeacher(at, t)
       PROVE  TypeOK'
  BY <1>10, CurriculumTyped DEF AssignSubjectTeacher, TypeOK, SubjectRows
<1>11. ASSUME NEW at \in Classes \X Subjects, NEW t \in {Actor, Colleague},
              NEW list \in SUBSET {Actor, Colleague}, AssignClassSubject(at, t, list)
       PROVE  TypeOK'
  <2> DEFINE row == subjectRow[at]
             ids == IF list # {} THEN list ELSE {t} \ {Nobody}
             listed == IF ids = {} THEN row.listed ELSE Actor \in ids
  <2>1. row \in SubjectRows \cup {NoRow}
    BY DEF TypeOK
  <2>2. (IF t = Nobody /\ row # NoRow THEN row.main ELSE t) \in {Nobody, Actor, Colleague}
    BY <2>1 DEF SubjectRows
  <2>3. listed \in BOOLEAN
    <3>1. row.listed \in BOOLEAN /\ (Actor \in ids) \in BOOLEAN
      BY <2>1, RowTyped
    <3> HIDE DEF row, ids
    <3> QED BY <3>1, Zenon
  <2>4. [main |-> IF t = Nobody /\ row # NoRow THEN row.main ELSE t, listed |-> listed,
         ours |-> TRUE] \in SubjectRows
    BY <2>2, <2>3, MadeRow
  <2> QED BY <1>11, <2>4, CurriculumTyped DEF AssignClassSubject, TypeOK
<1>12. ASSUME NEW at \in Classes \X Subjects, NEW t \in {Actor, Colleague},
              NEW list \in SUBSET {Actor, Colleague}, UpdateClassSubjectAssignment(at, t, list)
       PROVE  TypeOK'
  <2> DEFINE row == subjectRow[at]
             listed == IF list = {} THEN row.listed ELSE Actor \in list
  <2>1. row \in SubjectRows \cup {NoRow}
    BY DEF TypeOK
  <2>2. listed \in BOOLEAN
    <3>1. row.listed \in BOOLEAN /\ (Actor \in list) \in BOOLEAN
      BY <2>1, RowTyped
    <3> HIDE DEF row
    <3> QED BY <3>1, Zenon
  <2>3. [main |-> t, listed |-> listed, ours |-> TRUE] \in SubjectRows
    BY <2>2, MadeRow
  <2> QED BY <1>12, <2>3, CurriculumTyped DEF UpdateClassSubjectAssignment, TypeOK
<1> QED
  BY <1>1, <1>2, <1>3, <1>4, <1>5, <1>6, <1>7, <1>8, <1>9, <1>10, <1>11, <1>12 DEF Others

LEMMA OwnStepTyped ==
  ASSUME TypeOK, Send \/ Identify \/ CheckScope \/ CheckPermission \/ Handle \/ Leave
  PROVE  TypeOK'
<1>1. CASE Send
  <2>1. PICK asked \in Asked :
          request' = [at |-> "sent", to |-> asked.to, args |-> asked.args, as |-> Nobody,
                      since |-> changes]
    BY <1>1 DEF Send
  <2>2. [to |-> asked.to, args |-> asked.args] = asked
    BY DEF Asked
  <2>3. changes \in 0..changes
    BY RequestsAssumption DEF TypeOK
  <2> QED BY <1>1, <2>1, <2>2, <2>3 DEF Send, TypeOK, school, Stages
<1>2. CASE Identify
  <2>1. request # Idle
    BY <1>2, StageIsBusy DEF Identify, Step, Stages
  <2>2. CASE \E stage \in Stages : Goes(stage)
    BY <1>2, <2>1, <2>2, GoesTyped DEF Identify, Step
  <2>3. CASE request' = [request EXCEPT !.as = CallerRole,
               !.at = IF "permission" \in request.to.guards THEN "scope" ELSE "handler"]
    <3>1. /\ request'.at \in Stages /\ request'.as \in Roles /\ request'.to = request.to
          /\ request'.args = request.args /\ request'.since = request.since
      BY <2>1, <2>3 DEF TypeOK, CallerRole, Stages
    <3> QED BY <1>2, <2>1, <3>1 DEF TypeOK, school, Identify, Step
  <2> QED BY <1>2, <2>2, <2>3 DEF Identify, Stages
<1>3. CASE CheckScope
  BY <1>3, StageIsBusy, GoesTyped DEF CheckScope, Step, Stages
<1>4. CASE CheckPermission
  BY <1>4, StageIsBusy, GoesTyped DEF CheckPermission, Step, Stages
<1>5. CASE Handle
  BY <1>5, StageIsBusy, GoesTyped DEF Handle, Step, Stages
<1>6. CASE Leave
  BY <1>6 DEF Leave, TypeOK, school
<1> QED BY <1>1, <1>2, <1>3, <1>4, <1>5, <1>6

LEMMA InitTyped == Init => TypeOK
BY RequestsAssumption DEF Init, TypeOK, SubjectRows

(* Whatever a caller sends and others change, the tables and the request   *)
(* keep their types: a request names what exists, for a known role.        *)
THEOREM TypeAlways == Spec => []TypeOK
<1>1. TypeOK /\ [Next]_vars => TypeOK'
  <2> SUFFICES ASSUME TypeOK, [Next]_vars PROVE TypeOK'
    OBVIOUS
  <2>1. CASE UNCHANGED vars
    BY <2>1 DEF vars, school, TypeOK
  <2>2. CASE Next
    BY <2>2, OwnStepTyped, OthersTyped DEF Next
  <2> QED BY <2>1, <2>2
<1> QED BY <1>1, InitTyped, PTL DEF Spec

-----------------------------------------------------------------------------
(* What the record scope admits, kind by kind, is the caller's own.        *)

LEMMA ClassIsOwn ==
  ASSUME NEW role, NEW c, assertClass(role, c) PROVE c \in OwnClasses(role)
<1>1. c \in Classes
  BY DEF assertClass
<1>2. CASE role = "SUBJECT_TEACHER"
  <2>1. PICK s \in Subjects : Teaches(c, s)
    BY <1>2 DEF assertClass
  <2>2. <<c, s>> \in Taught
    BY <1>1, <2>1 DEF Teaches, Taught
  <2>3. c \in {at[1] : at \in Taught}
    BY <2>2
  <2> QED BY <1>2, <2>3 DEF OwnClasses
<1>3. CASE role # "SUBJECT_TEACHER"
  BY <1>1, <1>3 DEF OwnClasses, assertClass
<1> QED BY <1>2, <1>3

LEMMA LessonIsOwn ==
  ASSUME NEW role, NEW c \in Classes, NEW s \in Subjects,
         role = "SUBJECT_TEACHER" => Teaches(c, s)
  PROVE  <<c, s>> \in OwnLessons(role)
BY DEF OwnLessons, Taught, Teaches

LEMMA StudentIsOwn ==
  ASSUME TypeOK, NEW role, NEW p, assertStudent(role, p) PROVE p \in OwnPupils(role)
<1>1. CASE role = "PARENT"
  BY <1>1 DEF assertStudent, OwnPupils
<1>2. CASE role \in Teachers
  <2>1. pupilClass \in OwnClasses(role)
    BY <1>2, ClassIsOwn DEF assertStudent
  <2> QED BY <1>2, <2>1 DEF assertStudent, OwnPupils, Teachers
<1>3. CASE role \notin Teachers /\ role # "PARENT"
  <2>1. pupilClass \in OwnClasses(role)
    BY <1>3 DEF OwnClasses, TypeOK, Teachers
  <2> QED BY <1>3, <2>1 DEF assertStudent, OwnPupils
<1> QED BY <1>1, <1>2, <1>3

LEMMA SubjectIsOwn ==
  ASSUME NEW role, NEW s, NEW classes, SubjectInScope(role, s, classes),
         role # "SUBJECT_TEACHER" => Classes # {}
  PROVE  s \in {at[2] : at \in OwnLessons(role)}
<1>1. PICK c \in Classes : role = "SUBJECT_TEACHER" => Teaches(c, s)
  BY DEF SubjectInScope
<1>2. <<c, s>> \in OwnLessons(role)
  BY <1>1, LessonIsOwn DEF SubjectInScope
<1> QED BY <1>2

LEMMA VisitedIsOwn ==
  ASSUME TypeOK, NEW e, Shaped(e), NEW args, DOMAIN args \subseteq e.needs \cup e.may,
         NEW role, assertArguments(role, e, args), e.permission.resource \in Academic
  PROVE  InOwnRecords(role, args)
<1>1. ASSUME NEW k \in DOMAIN args PROVE visit(role, args, k)
  BY DEF assertArguments
<1>2. ASSUME NEW kind \in {"class", "toClass", "sheet"}
      PROVE  Named(args, kind) \subseteq OwnClasses(role)
  <2> SUFFICES ASSUME kind \in DOMAIN args PROVE args[kind] \in OwnClasses(role)
    BY DEF Named
  <2>1. assertClass(role, args[kind])
    BY <1>1 DEF visit, SheetInScope
  <2> QED BY <2>1, ClassIsOwn
<1>3. ASSUME NEW kind \in {"student", "result"}
      PROVE  Named(args, kind) \subseteq OwnPupils(role)
  <2> SUFFICES ASSUME kind \in DOMAIN args PROVE args[kind] \in OwnPupils(role)
    BY DEF Named
  <2>1. assertStudent(role, args[kind])
    BY <1>1 DEF visit
  <2> QED BY <2>1, StudentIsOwn
<1>4. ASSUME NEW kind \in {"subject", "subjects"}
      PROVE  Named(args, kind) \subseteq {at[2] : at \in OwnLessons(role)}
  <2> SUFFICES ASSUME kind \in DOMAIN args
               PROVE  args[kind] \in {at[2] : at \in OwnLessons(role)}
    BY DEF Named
  <2>1. PICK classes : SubjectInScope(role, args[kind], classes)
    BY <1>1 DEF visit
  <2> QED BY <2>1, SubjectIsOwn, RequestsAssumption
<1>5. (Named(args, "class") \cup Named(args, "sheet")) \X Named(args, "subject")
        \subseteq OwnLessons(role)
  <2> SUFFICES ASSUME NEW c \in Named(args, "class") \cup Named(args, "sheet"),
                      NEW s \in Named(args, "subject")
               PROVE  <<c, s>> \in OwnLessons(role)
    OBVIOUS
  <2>1. "subject" \in DOMAIN args /\ s = args["subject"] /\ visit(role, args, "subject")
    BY <1>1 DEF Named
  <2>2. s \in Subjects
    BY <2>1 DEF visit, SubjectInScope
  <2>3. CASE c \in Named(args, "class")
    <3>1. "class" \in DOMAIN args /\ c = args["class"] /\ visit(role, args, "class")
      BY <1>1, <2>3 DEF Named
    <3>2. c \in Classes
      BY <3>1 DEF visit, assertClass
    <3>3. role = "SUBJECT_TEACHER" => Teaches(c, s)
      BY <2>1, <3>1 DEF visit, SubjectInScope
    <3> QED BY <2>2, <3>2, <3>3, LessonIsOwn
  <2>4. CASE c \in Named(args, "sheet")
    <3>1. "sheet" \in DOMAIN args /\ c = args["sheet"] /\ visit(role, args, "sheet")
      BY <1>1, <2>4 DEF Named
    <3>2. SheetInScope(role, c, Named(args, "subject"))
      BY <3>1 DEF visit
    <3>3. c \in Classes
      BY <3>2 DEF SheetInScope, assertClass
    <3>4. role = "SUBJECT_TEACHER" => Teaches(c, s)
      BY <3>2 DEF SheetInScope
    <3> QED BY <2>2, <3>3, <3>4, LessonIsOwn
  <2> QED BY <2>3, <2>4
<1>6. {FirstClass} \X Named(args, "score") \subseteq OwnLessons(role)
  <2> SUFFICES ASSUME "score" \in DOMAIN args
               PROVE  <<FirstClass, args["score"]>> \in OwnLessons(role)
    BY DEF Named
  <2>1. /\ SheetInScope(role, FirstClass, {args["score"]})
        /\ SubjectInScope(role, args["score"], Classes)
    BY <1>1 DEF visit
  <2>2. args["score"] \in Subjects /\ (role = "SUBJECT_TEACHER" => Teaches(FirstClass, args["score"]))
    BY <2>1 DEF SheetInScope, SubjectInScope
  <2> QED BY <2>2, LessonIsOwn, RequestsAssumption
<1>7. Named(args, "target") \subseteq
        OwnClasses(role) \cup {Actor} \cup (IF role \in Restricted THEN {} ELSE {Colleague})
  <2> SUFFICES ASSUME "target" \in DOMAIN args
               PROVE  args["target"] \in OwnClasses(role) \cup {Actor}
                        \cup (IF role \in Restricted THEN {} ELSE {Colleague})
    BY DEF Named
  <2>1. args["target"] \in {Actor, Colleague} \/ assertClass(role, args["target"])
    BY <1>1 DEF visit
  <2>2. role \in Restricted => args["target"] # Colleague
    BY DEF Shaped, assertArguments, OperationOpen
  <2> QED BY <2>1, <2>2, ClassIsOwn
<1>8. ASSUME NEW kind \in {"term", "session", "staff"} PROVE Foreign \notin Named(args, kind)
  BY <1>1 DEF visit, Named
<1> QED BY <1>2, <1>3, <1>4, <1>5, <1>6, <1>7, <1>8 DEF InOwnRecords

-----------------------------------------------------------------------------
(* What each guard has found was true when it looked, and is remembered.   *)

Identified(e, r) == r \in held.roles /\ (e.roles = {} \/ r \in e.roles \cup {"SUPER_ADMIN"})
Cleared(e, r) ==
  e.permission # NoPermission /\ r # "SUPER_ADMIN" => r \in held.scopes /\ r \in held.permits

EntitledInv ==
  request # Idle /\ request.to.guards # {} =>
    /\ request.at \notin {"sent", "refused"} =>
         request.as \in Roles /\ Identified(request.to, request.as)
    /\ request.at = "permission" => request.as \in held.scopes
    /\ request.at \in {"handler", "answered"} => Cleared(request.to, request.as)

IInv == TypeOK /\ held \in HeldType /\ EntitledInv

LEMMA HeldTyped ==
  ASSUME TypeOK', held \in HeldType, Observe PROVE held' \in HeldType
<1>1. Facts' \in HeldType
  BY FactsTyped
<1>2. CASE Idle \in {request, request'}
  BY <1>1, <1>2 DEF Observe
<1>3. CASE Idle \notin {request, request'}
  <2>1. held' = [part \in DOMAIN held |-> held[part] \cup Facts'[part]]
    BY <1>3 DEF Observe
  <2>2. DOMAIN held = {"roles", "scopes", "permits"}
    BY DEF HeldType
  <2> QED BY <1>1, <2>1, <2>2 DEF HeldType
<1> QED BY <1>2, <1>3

(* Nothing that was true is forgotten while the request is under way, and  *)
(* what is true now is added.                                              *)
LEMMA HeldGrows ==
  ASSUME TypeOK', held \in HeldType, Observe, request # Idle, request' # Idle
  PROVE  /\ held.roles \cup Facts'.roles \subseteq held'.roles
         /\ held.scopes \cup Facts'.scopes \subseteq held'.scopes
         /\ held.permits \cup Facts'.permits \subseteq held'.permits
<1>1. held' = [part \in DOMAIN held |-> held[part] \cup Facts'[part]]
  BY DEF Observe
<1>2. DOMAIN held = {"roles", "scopes", "permits"}
  BY DEF HeldType
<1> QED BY <1>1, <1>2

LEMMA GoesKeeps ==
  ASSUME TypeOK, request # Idle, NEW stage, Goes(stage)
  PROVE  /\ request'.at = stage /\ request'.to = request.to
         /\ request'.args = request.args /\ request'.as = request.as
         /\ request'.since = request.since
BY DEF Goes, TypeOK

LEMMA ServedIsShaped ==
  ASSUME TypeOK, request # Idle
  PROVE  /\ Shaped(request.to)
         /\ DOMAIN request.args \subseteq request.to.needs \cup request.to.may
<1>1. [to |-> request.to, args |-> request.args] \in Asked
  BY DEF TypeOK
<1>2. PICK e \in Served :
        [to |-> request.to, args |-> request.args]
          \in {[to |-> e, args |-> a] : a \in {x \in Arguments(e) : Wellformed(x)}}
  BY <1>1, Zenon DEF Asked
<1>3. request.to = e /\ request.args \in Arguments(e)
  BY <1>2
<1> QED BY <1>3, EndpointsShaped, RequestsAssumption DEF Arguments

LEMMA InitEntitled == Init => IInv
<1> SUFFICES ASSUME Init PROVE IInv
  OBVIOUS
<1>1. held \in HeldType
  BY DEF Init, HeldType
<1> QED BY <1>1, InitTyped DEF Init, IInv, EntitledInv

(* Others leave the request as it is.                                      *)
LEMMA OthersEntitled ==
  ASSUME IInv, TypeOK', request' = request, Observe PROVE EntitledInv'
<1> SUFFICES ASSUME request' # Idle PROVE EntitledInv'
  BY DEF EntitledInv
<1>1. /\ held.roles \subseteq held'.roles /\ held.scopes \subseteq held'.scopes
      /\ held.permits \subseteq held'.permits
  BY HeldGrows DEF IInv
<1> QED BY <1>1 DEF IInv, EntitledInv, Identified, Cleared

LEMMA IdentifyEntitled ==
  ASSUME IInv, TypeOK', Identify, Observe PROVE EntitledInv'
<1> DEFINE e == request.to
           r == account.role
<1>1. /\ request.at = "sent" /\ request # Idle /\ UNCHANGED <<account, decision>>
  BY StageIsBusy DEF Identify, Step, Stages, school
<1>2. TypeOK /\ r \in Roles
  BY DEF IInv, TypeOK
<1>3. Shaped(e)
  BY <1>1, <1>2, ServedIsShaped
<1>4. CASE "jwt" \notin e.guards
  <2>1. e.guards = {}
    BY <1>3, <1>4 DEF Shaped
  <2>2. Goes("handler")
    BY <1>4 DEF Identify
  <2>3. request'.to = e
    BY <1>1, <1>2, <2>2, GoesKeeps
  <2> QED BY <2>1, <2>3 DEF EntitledInv
<1>5. CASE "jwt" \in e.guards /\ (~account.isActive \/ ("roles" \in e.guards /\ ~RolesPass(e, r)))
  <2>1. Goes("refused")
    BY <1>5 DEF Identify, CallerRole
  <2>2. request'.at = "refused"
    BY <1>1, <1>2, <2>1, GoesKeeps
  <2> QED BY <2>2 DEF EntitledInv
<1>6. CASE /\ "jwt" \in e.guards /\ account.isActive /\ ("roles" \in e.guards => RolesPass(e, r))
  <2>1. request' = [request EXCEPT !.as = r,
                      !.at = IF "permission" \in e.guards THEN "scope" ELSE "handler"]
    BY <1>6 DEF Identify, CallerRole
  <2>2. /\ request'.as = r /\ request'.to = e
        /\ request'.at = IF "permission" \in e.guards THEN "scope" ELSE "handler"
    BY <1>1, <1>2, <2>1 DEF TypeOK
  <2>3. request' # Idle
    BY <2>2 DEF Idle
  <2>4. r \in held'.roles
    <3>1. r \in Facts'.roles
      BY <1>1, <1>6, <2>3 DEF Facts
    <3> QED BY <1>1, <2>3, <3>1, HeldGrows DEF IInv
  <2>5. e.roles = {} \/ r \in e.roles \cup {"SUPER_ADMIN"}
    BY <1>3, <1>6 DEF Shaped, RolesPass
  <2>6. request'.at = "handler" => e.permission = NoPermission
    BY <1>3, <2>2 DEF Shaped
  <2> QED BY <1>2, <2>2, <2>4, <2>5, <2>6 DEF EntitledInv, Identified, Cleared
<1> QED BY <1>4, <1>5, <1>6

(* A guard that sends the request on, or away.                             *)
LEMMA KeptIdentified ==
  ASSUME IInv, TypeOK', Observe, request # Idle, request.at \notin {"sent", "refused"},
         request.to.guards # {}, NEW stage \in Stages, Goes(stage)
  PROVE  /\ request' # Idle /\ request.as \in Roles \ {Nobody}
         /\ request'.at = stage /\ request'.to = request.to
         /\ request'.args = request.args /\ request'.as = request.as
         /\ Identified(request.to, request.as) /\ Identified(request.to, request.as)'
<1>1. /\ request'.at = stage /\ request'.to = request.to
      /\ request'.args = request.args /\ request'.as = request.as
  BY GoesKeeps DEF IInv
<1>2. request' # Idle
  BY <1>1 DEF Stages, Idle
<1>3. request.as \in Roles /\ Identified(request.to, request.as)
  BY DEF IInv, EntitledInv
<1>4. held.roles \subseteq held'.roles
  BY <1>2, HeldGrows DEF IInv
<1> QED BY <1>1, <1>2, <1>3, <1>4, RequestsAssumption DEF Identified

LEMMA ScopeEntitled ==
  ASSUME IInv, TypeOK', CheckScope, Observe PROVE EntitledInv'
<1> DEFINE e == request.to
           r == request.as
<1>1. /\ TypeOK /\ request.at = "scope" /\ request # Idle
      /\ UNCHANGED <<account, decision, classTeacher, subjectRow, pupilClass, linked>>
  BY StageIsBusy DEF CheckScope, Step, Stages, school, IInv
<1>2. PICK stage \in {"handler", "permission", "refused"} : Goes(stage)
  BY DEF CheckScope
<1>3. request'.to = e /\ request'.at = stage
  BY <1>1, <1>2, GoesKeeps
<1> SUFFICES ASSUME stage # "refused", e.guards # {} PROVE EntitledInv'
  BY <1>3 DEF EntitledInv
<1>4. /\ request' # Idle /\ r \in Roles \ {Nobody} /\ request'.args = request.args
      /\ request'.as = r /\ Identified(e, r)'
  BY <1>1, <1>2, KeptIdentified DEF Stages
<1>5. CASE r = "SUPER_ADMIN"
  <2>1. Goes("handler")
    BY <1>5 DEF CheckScope
  <2>2. request'.at = "handler"
    BY <1>1, <2>1, GoesKeeps
  <2> QED BY <1>3, <1>4, <1>5, <2>2 DEF EntitledInv, Cleared, Identified
<1>6. CASE r # "SUPER_ADMIN" /\ stage = "permission"
  <2>1. assertArguments(r, e, request.args)
    <3>1. CASE assertArguments(r, e, request.args)
      BY <3>1
    <3>2. CASE ~assertArguments(r, e, request.args)
      <4>1. Goes("refused")
        BY <1>6, <3>2 DEF CheckScope
      <4> QED BY <1>1, <1>3, <1>6, <4>1, GoesKeeps
    <3> QED BY <3>1, <3>2
  <2>2. e.permission.resource \in Academic => InOwnRecords(r, request.args)
    BY <1>1, <2>1, VisitedIsOwn, ServedIsShaped
  <2>3. InOwnRecords(r, request.args)' <=> InOwnRecords(r, request.args)
    BY <1>1, <1>4 DEF InOwnRecords, OwnClasses, OwnLessons, OwnPupils, Taught, Named
  <2>4. r \in Facts'.scopes
    BY <1>3, <1>4, <2>2, <2>3 DEF Facts
  <2>5. r \in held'.scopes
    BY <1>1, <1>4, <2>4, HeldGrows DEF IInv
  <2> QED BY <1>3, <1>4, <1>6, <2>5 DEF EntitledInv, Identified
<1>7. CASE r # "SUPER_ADMIN" /\ stage = "handler"
  <2>1. Goes("permission") \/ Goes("refused")
    BY <1>7 DEF CheckScope
  <2> QED BY <1>1, <1>3, <1>7, <2>1, GoesKeeps
<1> QED BY <1>2, <1>5, <1>6, <1>7

LEMMA PermissionEntitled ==
  ASSUME IInv, TypeOK', CheckPermission, Observe PROVE EntitledInv'
<1> DEFINE e == request.to
           r == request.as
<1>1. /\ TypeOK /\ request.at = "permission" /\ request # Idle /\ UNCHANGED decision
  BY StageIsBusy DEF CheckPermission, Step, Stages, school, IInv
<1>2. PICK stage \in {"handler", "refused"} :
        Goes(stage) /\ (stage = "handler" => HasPermission(r, e.permission))
  BY DEF CheckPermission
<1>3. request'.to = e /\ request'.at = stage
  BY <1>1, <1>2, GoesKeeps
<1> SUFFICES ASSUME stage = "handler", e.guards # {} PROVE EntitledInv'
  BY <1>2, <1>3 DEF EntitledInv
<1>4. /\ request' # Idle /\ r \in Roles \ {Nobody} /\ request'.as = r /\ Identified(e, r)'
  BY <1>1, <1>2, KeptIdentified DEF Stages
<1>5. r \in held.scopes
  BY <1>1 DEF IInv, EntitledInv
<1>6. r \in Facts'.permits
  BY <1>1, <1>2, <1>3, <1>4 DEF Facts, HasPermission
<1>7. r \in held'.scopes /\ r \in held'.permits
  BY <1>1, <1>4, <1>5, <1>6, HeldGrows DEF IInv
<1> QED BY <1>3, <1>4, <1>7 DEF EntitledInv, Cleared, Identified

LEMMA HandleEntitled ==
  ASSUME IInv, TypeOK', Handle, Observe PROVE EntitledInv'
<1> DEFINE e == request.to
           r == request.as
<1>1. /\ TypeOK /\ request.at = "handler" /\ request # Idle
  BY StageIsBusy DEF Handle, Step, Stages, IInv
<1>2. PICK stage \in {"answered", "refused"} : Goes(stage)
  BY DEF Handle
<1>3. request'.to = e /\ request'.at = stage
  BY <1>1, <1>2, GoesKeeps
<1> SUFFICES ASSUME e.guards # {} PROVE EntitledInv'
  BY <1>3 DEF EntitledInv
<1>4. /\ request' # Idle /\ r \in Roles \ {Nobody} /\ request'.as = r /\ Identified(e, r)'
  BY <1>1, <1>2, KeptIdentified DEF Stages
<1>5. Cleared(e, r)
  BY <1>1 DEF IInv, EntitledInv
<1>6. held.scopes \subseteq held'.scopes /\ held.permits \subseteq held'.permits
  BY <1>1, <1>4, HeldGrows DEF IInv
<1> QED BY <1>2, <1>3, <1>4, <1>5, <1>6 DEF EntitledInv, Cleared, Identified

LEMMA EntitledKept == IInv /\ [Next]_vars => IInv'
<1> SUFFICES ASSUME IInv, [Next]_vars PROVE IInv'
  OBVIOUS
<1>1. CASE UNCHANGED vars
  BY <1>1 DEF IInv, EntitledInv, Identified, Cleared, TypeOK, HeldType, vars, school
<1>2. CASE Next
  <2>1. TypeOK'
    BY <1>2, OwnStepTyped, OthersTyped DEF Next, IInv
  <2>2. held' \in HeldType
    BY <1>2, <2>1, HeldTyped DEF Next, IInv
  <2>3. EntitledInv'
    <3>1. CASE Send
      BY <3>1 DEF Send, EntitledInv, Idle
    <3>2. CASE Leave
      BY <3>2 DEF Leave, EntitledInv
    <3>3. CASE Others
      <4>1. request' = request
        BY <3>3 DEF Others, Change, Curriculum, UpdateUser, DeactivateUser, ActivateUser,
             SignIn, SetUserPermission, LinkParent, UnlinkParent, PromoteStudents,
             GetClassSubjectAssignments, AssignClassTeacher, AssignSubjectsToClass,
             RemoveClassSubjectAssignment, AssignSubjectTeacher, AssignClassSubject,
             UpdateClassSubjectAssignment
      <4> QED BY <1>2, <2>1, <4>1, OthersEntitled DEF Next
    <3> QED
      BY <1>2, <2>1, <3>1, <3>2, <3>3, IdentifyEntitled, ScopeEntitled, PermissionEntitled,
         HandleEntitled DEF Next
  <2> QED BY <2>1, <2>2, <2>3 DEF IInv
<1> QED BY <1>1, <1>2

LEMMA InvEntitles == IInv => AnsweredWhileEntitled
<1> SUFFICES ASSUME IInv, request.at = "answered", request.to.guards # {}
             PROVE  AnsweredWhileEntitled
  BY DEF AnsweredWhileEntitled
<1>1. /\ request.as \in Roles /\ Identified(request.to, request.as)
      /\ Cleared(request.to, request.as)
  BY StageIsBusy DEF IInv, EntitledInv, Stages
<1> QED BY <1>1 DEF AnsweredWhileEntitled, Identified, Cleared

(* A request behind the guards is answered only for a role that the active *)
(* account had since the request was sent, whose own records it names and  *)
(* that was permitted what it does: at any endpoint of the table, for any  *)
(* classes and subjects, however often the school changes meanwhile.       *)
THEOREM EntitledAlways == Spec => []AnsweredWhileEntitled
BY InitEntitled, EntitledKept, InvEntitles, PTL DEF Spec

-----------------------------------------------------------------------------
(* Nobody is locked out.  What the decorators say of the operations that   *)
(* parents and teachers are shown: who asks for them may, by default.      *)

Shown == ParentOperations \cup {"class", "classById"}
Fitting(e) ==
  /\ "roles" \in e.guards /\ e.roles = {} => e.permission # NoPermission
  /\ e.name \in ParentOperations =>
       /\ e.roles = {} \/ "PARENT" \in e.roles
       /\ e.permission.action = "READ" /\ e.permission.resource \in Readable["PARENT"]
  /\ e.name \in {"class", "classById"} =>
       /\ e.roles = {} /\ e.permission = [resource |-> "CLASSES", action |-> "READ"]
       /\ e.needs = {"class"} /\ e.may = {}

LEMMA OpenFitting ==
  \A names : names \cap Shown = {} => \A e \in Open(names) : Fitting(e)
BY DEF Open, Row, Fitting, Shown
LEMMA SelfServiceFitting ==
  \A names : names \cap Shown = {} => \A e \in SelfService(names) : Fitting(e)
BY DEF SelfService, Row, Fitting, Shown
LEMMA ForRolesFitting ==
  \A roles, names :
    roles # {} /\ names \cap Shown = {} => \A e \in ForRoles(roles, names) : Fitting(e)
BY DEF ForRoles, Row, Fitting, Shown
LEMMA AskingOfFitting ==
  \A roles, resource, action, needs, may, names :
    resource # "none" /\ names \cap Shown = {} =>
      \A e \in AskingOf(roles, resource, action, needs, may, names) : Fitting(e)
BY DEF AskingOf, Row, Fitting, Shown, NoPermission
LEMMA AskingFitting ==
  \A resource, action, needs, may, names :
    resource # "none" /\ names \cap Shown = {} =>
      \A e \in Asking(resource, action, needs, may, names) : Fitting(e)
BY AskingOfFitting DEF Asking
LEMMA ShownFitting ==
  ASSUME NEW roles, NEW resource, NEW needs, NEW may, NEW names,
         roles = {} \/ "PARENT" \in roles,
         resource # "none", resource \in Readable["PARENT"],
         names \cap {"class", "classById"} = {},
         NEW e \in AskingOf(roles, resource, "READ", needs, may, names)
  PROVE  Fitting(e)
<1>1. /\ e.roles = roles /\ e.permission = [resource |-> resource, action |-> "READ"]
      /\ e.name \in names
  BY DEF AskingOf, Row
<1>2. /\ e.permission.action = "READ" /\ e.permission.resource = resource
      /\ e.permission # NoPermission
  BY <1>1 DEF NoPermission
<1> QED BY <1>1, <1>2 DEF Fitting
LEMMA ClassFitting ==
  \A e \in Asking("CLASSES", "READ", {"class"}, {}, {"class", "classById"}) : Fitting(e)
BY DEF Asking, AskingOf, Row, Fitting, NoPermission, ParentOperations

LEMMA ParentReads ==
  Readable["PARENT"] = {"STUDENTS", "RESULTS", "ATTENDANCE", "CLASSES", "SUBJECTS",
                        "TIMETABLE", "FEES", "COMMUNICATION"}
BY DEF Readable, Everyone, Teachers

LEMMA EndpointsFitting == \A e \in Endpoints : Fitting(e)
<1>1. \A e \in AccessAEndpoints : Fitting(e)
  BY ForRolesFitting
  DEF AccessAEndpoints, Shown, ParentOperations, Everyone
<1>2. \A e \in AccessBEndpoints : Fitting(e)
  BY ForRolesFitting
  DEF AccessBEndpoints, Shown, ParentOperations
<1>3. \A e \in AppEndpoints : Fitting(e)
  BY OpenFitting
  DEF AppEndpoints, Shown, ParentOperations
<1>4. \A e \in AttendanceAEndpoints : Fitting(e)
  BY AskingFitting, ParentReads, ShownFitting
  DEF AttendanceAEndpoints, Shown, ParentOperations, Asking
<1>5. \A e \in AttendanceBEndpoints : Fitting(e)
  BY AskingFitting
  DEF AttendanceBEndpoints, Shown, ParentOperations
<1>6. \A e \in AuthEndpoints : Fitting(e)
  BY OpenFitting, SelfServiceFitting
  DEF AuthEndpoints, Shown, ParentOperations
<1>7. \A e \in ClassesAEndpoints : Fitting(e)
  BY AskingFitting, ParentReads, ShownFitting, ClassFitting
  DEF ClassesAEndpoints, Shown, ParentOperations, Asking
<1>8. \A e \in ClassesBEndpoints : Fitting(e)
  BY AskingFitting
  DEF ClassesBEndpoints, Shown, ParentOperations
<1>9. \A e \in CommunicationEndpoints : Fitting(e)
  BY AskingFitting
  DEF CommunicationEndpoints, Shown, ParentOperations
<1>10. \A e \in DashboardEndpoints : Fitting(e)
  BY ForRolesFitting, AskingFitting
  DEF DashboardEndpoints, Shown, ParentOperations, Everyone
<1>11. \A e \in ExpenseBudgetsEndpoints : Fitting(e)
  BY AskingFitting
  DEF ExpenseBudgetsEndpoints, Shown, ParentOperations
<1>12. \A e \in ExpenseRecurringEndpoints : Fitting(e)
  BY AskingFitting
  DEF ExpenseRecurringEndpoints, Shown, ParentOperations
<1>13. \A e \in ExpenseReportsEndpoints : Fitting(e)
  BY AskingFitting
  DEF ExpenseReportsEndpoints, Shown, ParentOperations
<1>14. \A e \in ExpenseRequestsEndpoints : Fitting(e)
  BY AskingFitting
  DEF ExpenseRequestsEndpoints, Shown, ParentOperations
<1>15. \A e \in ExpenseVendorsEndpoints : Fitting(e)
  BY AskingFitting
  DEF ExpenseVendorsEndpoints, Shown, ParentOperations
<1>16. \A e \in ExpensesAEndpoints : Fitting(e)
  BY AskingFitting
  DEF ExpensesAEndpoints, Shown, ParentOperations
<1>17. \A e \in ExpensesBEndpoints : Fitting(e)
  BY ForRolesFitting, AskingFitting
  DEF ExpensesBEndpoints, Shown, ParentOperations
<1>18. \A e \in PettyCashEndpoints : Fitting(e)
  BY AskingFitting
  DEF PettyCashEndpoints, Shown, ParentOperations
<1>19. \A e \in FeesAEndpoints : Fitting(e)
  BY AskingFitting
  DEF FeesAEndpoints, Shown, ParentOperations
<1>20. \A e \in FeesBEndpoints : Fitting(e)
  BY AskingFitting, ParentReads, ShownFitting
  DEF FeesBEndpoints, Shown, ParentOperations, Asking
<1>21. \A e \in FeesCEndpoints : Fitting(e)
  BY ForRolesFitting, AskingFitting, ParentReads, ShownFitting
  DEF FeesCEndpoints, Shown, ParentOperations, Asking
<1>22. \A e \in FeesDEndpoints : Fitting(e)
  BY AskingFitting, ParentReads, ShownFitting
  DEF FeesDEndpoints, Shown, ParentOperations, Asking
<1>23. \A e \in IdCardsAEndpoints : Fitting(e)
  BY AskingFitting
  DEF IdCardsAEndpoints, Shown, ParentOperations
<1>24. \A e \in IdCardsBEndpoints : Fitting(e)
  BY AskingFitting
  DEF IdCardsBEndpoints, Shown, ParentOperations
<1>25. \A e \in MarketingEndpoints : Fitting(e)
  BY OpenFitting
  DEF MarketingEndpoints, Shown, ParentOperations
<1>26. \A e \in PdfEndpoints : Fitting(e)
  BY AskingFitting
  DEF PdfEndpoints, Shown, ParentOperations
<1>27. \A e \in ResultsAEndpoints : Fitting(e)
  BY AskingFitting
  DEF ResultsAEndpoints, Shown, ParentOperations
<1>28. \A e \in ResultsBEndpoints : Fitting(e)
  BY AskingFitting, ParentReads, ShownFitting
  DEF ResultsBEndpoints, Shown, ParentOperations, Asking
<1>29. \A e \in ResultsCEndpoints : Fitting(e)
  BY AskingFitting
  DEF ResultsCEndpoints, Shown, ParentOperations
<1>30. \A e \in SchoolsAEndpoints : Fitting(e)
  BY OpenFitting, SelfServiceFitting, ForRolesFitting
  DEF SchoolsAEndpoints, Shown, ParentOperations
<1>31. \A e \in SchoolsBEndpoints : Fitting(e)
  BY ForRolesFitting
  DEF SchoolsBEndpoints, Shown, ParentOperations
<1>32. \A e \in StudentsAEndpoints : Fitting(e)
  BY AskingOfFitting, AskingFitting, ParentReads, ShownFitting
  DEF StudentsAEndpoints, Shown, ParentOperations, Asking
<1>33. \A e \in StudentsBEndpoints : Fitting(e)
  BY AskingFitting
  DEF StudentsBEndpoints, Shown, ParentOperations
<1>34. \A e \in SubjectsEndpoints : Fitting(e)
  BY AskingFitting
  DEF SubjectsEndpoints, Shown, ParentOperations
<1>35. \A e \in TermsEndpoints : Fitting(e)
  BY ForRolesFitting, AskingFitting
  DEF TermsEndpoints, Shown, ParentOperations, Everyone
<1>36. \A e \in TimetableAEndpoints : Fitting(e)
  BY AskingOfFitting
  DEF TimetableAEndpoints, Shown, ParentOperations
<1>37. \A e \in TimetableBEndpoints : Fitting(e)
  BY AskingOfFitting
  DEF TimetableBEndpoints, Shown, ParentOperations
<1>38. \A e \in TimetableCEndpoints : Fitting(e)
  BY AskingOfFitting, AskingFitting
  DEF TimetableCEndpoints, Shown, ParentOperations
<1>39. \A e \in TimetableDEndpoints : Fitting(e)
  BY AskingOfFitting, AskingFitting, ParentReads, ShownFitting
  DEF TimetableDEndpoints, Shown, ParentOperations, Asking
<1>40. \A e \in UploadEndpoints : Fitting(e)
  BY AskingFitting
  DEF UploadEndpoints, Shown, ParentOperations
<1>41. \A e \in UsersAEndpoints : Fitting(e)
  BY ForRolesFitting, AskingFitting
  DEF UsersAEndpoints, Shown, ParentOperations, Everyone
<1>42. \A e \in UsersBEndpoints : Fitting(e)
  BY ForRolesFitting, AskingFitting
  DEF UsersBEndpoints, Shown, ParentOperations, Everyone
<1> QED
  BY <1>1, <1>2, <1>3, <1>4, <1>5, <1>6, <1>7, <1>8, <1>9, <1>10, <1>11, <1>12, <1>13, <1>14,
     <1>15, <1>16, <1>17, <1>18, <1>19, <1>20, <1>21, <1>22, <1>23, <1>24, <1>25, <1>26,
     <1>27, <1>28, <1>29, <1>30, <1>31, <1>32, <1>33, <1>34, <1>35, <1>36, <1>37, <1>38,
     <1>39, <1>40, <1>41, <1>42
  DEF Endpoints

(* The requests that are to be answered while nothing changes, and why     *)
(* every guard on their way lets them pass.                                *)
Owned(role, e, args) ==
  \/ role = "PARENT" /\ LinkedChild(e, args)
  \/ role \in Teachers /\ ListedClass(role, e, args)
  \/ /\ role = "SCHOOL_ADMIN" /\ OnlyOurs(args)
     /\ e.roles = {} \/ role \in e.roles

LEMMA ServedFits ==
  ASSUME TypeOK, request # Idle
  PROVE  /\ Fitting(request.to)
         /\ DOMAIN request.args \subseteq request.to.needs \cup request.to.may
         /\ request.to.needs \subseteq DOMAIN request.args
         /\ Wellformed(request.args)
<1>1. [to |-> request.to, args |-> request.args] \in Asked
  BY DEF TypeOK
<1>2. PICK e \in Served :
        [to |-> request.to, args |-> request.args]
          \in {[to |-> e, args |-> a] : a \in {x \in Arguments(e) : Wellformed(x)}}
  BY <1>1, Zenon DEF Asked
<1>3. request.to = e /\ request.args \in Arguments(e) /\ Wellformed(request.args)
  BY <1>2
<1>4. PICK given \in SUBSET e.may :
        request.args \in [e.needs \cup given -> UNION {Ids(k) : k \in e.needs \cup given}]
  BY <1>3, Zenon DEF Arguments
<1>5. DOMAIN request.args = e.needs \cup given
  BY <1>4
<1>6. Fitting(e)
  BY EndpointsFitting, RequestsAssumption
<1> QED BY <1>3, <1>5, <1>6

LEMMA ParentPasses ==
  ASSUME NEW e, Fitting(e), NEW args, Wellformed(args), LinkedChild(e, args), decision # "DENY"
  PROVE  /\ "roles" \in e.guards => RolesPass(e, "PARENT")
         /\ assertArguments("PARENT", e, args) /\ HasPermission("PARENT", e.permission)
         /\ "PARENT" \in Admitted(e.name)
<1>1. /\ e.name \in ParentOperations /\ DOMAIN args \subseteq {"student", "term"}
      /\ OnlyOurs(args) /\ ("student" \in DOMAIN args => linked)
  BY DEF LinkedChild
<1>2. "roles" \in e.guards => RolesPass(e, "PARENT")
  BY <1>1 DEF Fitting, RolesPass
<1>3. OperationOpen("PARENT", e.name, args)
  BY <1>1 DEF OperationOpen, ParentOperations, SchoolWide
<1>4. ASSUME NEW k \in DOMAIN args PROVE visit("PARENT", args, k)
  <2>1. args[k] \in Ids(k) /\ args[k] # Foreign
    BY <1>1 DEF Wellformed, OnlyOurs
  <2>2. CASE k = "student"
    BY <1>1, <2>1, <2>2 DEF visit, Ids, assertStudent, Teachers
  <2>3. CASE k = "term"
    BY <2>1, <2>3 DEF visit
  <2> QED BY <1>1, <2>2, <2>3
<1>5. HasPermission("PARENT", e.permission)
  <2>1. e.permission.action = "READ" /\ e.permission.resource \in Readable["PARENT"]
    BY <1>1 DEF Fitting
  <2> QED BY <2>1 DEF HasPermission, DefaultRolePermissions
<1>6. "PARENT" \in Admitted(e.name)
  BY <1>1 DEF Admitted, ParentOperations, Everyone
<1> QED BY <1>2, <1>3, <1>4, <1>5, <1>6 DEF assertArguments

LEMMA TeacherPasses ==
  ASSUME NEW role \in Teachers, NEW e, Fitting(e), NEW args, Wellformed(args),
         DOMAIN args \subseteq e.needs \cup e.may, e.needs \subseteq DOMAIN args,
         ListedClass(role, e, args), decision # "DENY"
  PROVE  /\ "roles" \in e.guards => RolesPass(e, role)
         /\ assertArguments(role, e, args) /\ HasPermission(role, e.permission)
         /\ role \in Admitted(e.name)
<1>1. /\ e.name \in {"class", "classById"} /\ args["class"] \in getClassesForTeacher(role)
      /\ \A s \in Subjects :
           subjectRow[<<args["class"], s>>] # NoRow => subjectRow[<<args["class"], s>>].ours
  BY DEF ListedClass
<1>2. /\ e.permission = [resource |-> "CLASSES", action |-> "READ"] /\ e.roles = {}
      /\ DOMAIN args = {"class"}
  BY <1>1 DEF Fitting
<1>3. "roles" \in e.guards => RolesPass(e, role)
  BY <1>2 DEF Fitting, RolesPass
<1>4. OperationOpen(role, e.name, args)
  BY <1>1 DEF OperationOpen, SchoolWide, SubjectTeacherUses, Teachers
<1>5. assertClass(role, args["class"])
  <2>1. args["class"] \in Classes
    BY <1>1 DEF getClassesForTeacher
  <2>2. role = "CLASS_TEACHER" => classTeacher[args["class"]] = Actor
    BY <1>1 DEF getClassesForTeacher
  <2>3. ASSUME role = "SUBJECT_TEACHER"
        PROVE  \E s \in Subjects : Teaches(args["class"], s)
    <3>1. PICK s \in Subjects : \/ subjectRow[<<args["class"], s>>].main = Actor
                                \/ subjectRow[<<args["class"], s>>].listed
      BY <1>1, <2>3 DEF getClassesForTeacher
    <3>2. subjectRow[<<args["class"], s>>].ours
      <4>1. NoRow.main = "no row" /\ ~NoRow.listed
        BY DEF NoRow
      <4>2. subjectRow[<<args["class"], s>>] # NoRow
        BY <3>1, <4>1, NamesAssumption
      <4> QED BY <1>1, <4>2
    <3> QED BY <3>1, <3>2 DEF Teaches
  <2> QED BY <2>1, <2>2, <2>3 DEF assertClass, Teachers
<1>6. \A k \in DOMAIN args : visit(role, args, k)
  BY <1>2, <1>5 DEF visit
<1>7. HasPermission(role, e.permission)
  <2>1. e.permission.action = "READ" /\ e.permission.resource = "CLASSES"
    BY <1>2
  <2>2. "CLASSES" \in Readable[role]
    BY DEF Readable, Everyone, Teachers
  <2> QED BY <2>1, <2>2 DEF HasPermission, DefaultRolePermissions
<1>8. role \in Admitted(e.name)
  BY <1>1 DEF Admitted, Everyone, Teachers
<1> QED BY <1>3, <1>4, <1>6, <1>7, <1>8 DEF assertArguments

LEMMA AdminPasses ==
  ASSUME NEW e, Fitting(e), NEW args, Wellformed(args), OnlyOurs(args),
         e.roles = {} \/ "SCHOOL_ADMIN" \in e.roles
  PROVE  /\ "roles" \in e.guards => RolesPass(e, "SCHOOL_ADMIN")
         /\ assertArguments("SCHOOL_ADMIN", e, args)
         /\ HasPermission("SCHOOL_ADMIN", e.permission)
         /\ "SCHOOL_ADMIN" \in Admitted(e.name)
<1> DEFINE r == "SCHOOL_ADMIN"
<1>1. "roles" \in e.guards => RolesPass(e, r)
  BY DEF Fitting, RolesPass
<1>2. r \notin Restricted /\ OperationOpen(r, e.name, args)
  BY DEF OperationOpen, Restricted, Teachers
<1>3. /\ \A c \in Classes : assertClass(r, c)
      /\ assertStudent(r, Pupil)
      /\ \A s \in Subjects : \A cs : SubjectInScope(r, s, cs)
  BY DEF assertClass, assertStudent, SubjectInScope, Teachers
<1>4. ASSUME NEW k \in DOMAIN args PROVE visit(r, args, k)
  <2>1. args[k] \in Ids(k) /\ args[k] # Foreign
    BY DEF Wellformed, OnlyOurs
  <2>2. CASE k \in {"class", "toClass", "sheet"}
    <3>1. args[k] \in Classes
      BY <2>1, <2>2 DEF Ids
    <3> QED BY <1>3, <2>2, <3>1 DEF visit, SheetInScope
  <2>3. CASE k \in {"subject", "subjects", "score"}
    <3>1. args[k] \in Subjects
      BY <2>1, <2>3 DEF Ids
    <3>2. CASE k = "score"
      BY <1>3, <3>1, <3>2, RequestsAssumption DEF visit, SheetInScope
    <3> QED BY <1>3, <2>3, <3>1, <3>2 DEF visit
  <2>4. CASE k \in {"student", "result"}
    <3>1. args[k] = Pupil
      BY <2>1, <2>4 DEF Ids
    <3> QED BY <1>3, <2>4, <3>1 DEF visit
  <2>5. CASE k = "target"
    <3>1. args[k] \in Classes \cup {Actor, Colleague}
      BY <2>1, <2>5 DEF Ids
    <3> QED BY <1>3, <2>5, <3>1 DEF visit
  <2>6. CASE k \notin {"class", "toClass", "sheet", "subject", "subjects", "score", "student",
                       "result", "target"}
    BY <2>1, <2>6 DEF visit
  <2> QED BY <2>2, <2>3, <2>4, <2>5, <2>6
<1>5. HasPermission(r, e.permission) /\ r \in Admitted(e.name)
  BY DEF HasPermission, Administrators, Admitted, CanAssignClassTeacher,
         CanManageClassSubjects, AdminRoles, Everyone, Restricted, Teachers
<1> QED BY <1>1, <1>2, <1>4, <1>5 DEF assertArguments

LEMMA OwnedPasses ==
  ASSUME TypeOK, request # Idle, decision # "DENY",
         NEW role, Owned(role, request.to, request.args)
  PROVE  /\ "roles" \in request.to.guards => RolesPass(request.to, role)
         /\ assertArguments(role, request.to, request.args)
         /\ HasPermission(role, request.to.permission)
         /\ role \in Admitted(request.to.name)
         /\ ~(/\ request.to.name \in {"assignSubjectsToClass", "assignSubjectTeacher"}
              /\ role = "CLASS_TEACHER")
         /\ role # "SUPER_ADMIN"
<1>1. /\ Fitting(request.to) /\ Wellformed(request.args)
      /\ DOMAIN request.args \subseteq request.to.needs \cup request.to.may
      /\ request.to.needs \subseteq DOMAIN request.args
  BY ServedFits
<1>2. CASE role = "PARENT" /\ LinkedChild(request.to, request.args)
  BY <1>1, <1>2, ParentPasses
<1>3. CASE role \in Teachers /\ ListedClass(role, request.to, request.args)
  <2>1. request.to.name \in {"class", "classById"}
    BY <1>3 DEF ListedClass
  <2> QED BY <1>1, <1>3, <2>1, TeacherPasses DEF Teachers
<1>4. CASE /\ role = "SCHOOL_ADMIN" /\ OnlyOurs(request.args)
           /\ request.to.roles = {} \/ role \in request.to.roles
  BY <1>1, <1>4, AdminPasses
<1> QED BY <1>2, <1>3, <1>4 DEF Owned

-----------------------------------------------------------------------------
(* While nothing changes, the request is sent on for the role that the     *)
(* account has.                                                            *)
ServedInv ==
  request # Idle /\ Quiet /\ account.isActive /\ decision # "DENY"
    /\ Owned(account.role, request.to, request.args) =>
    /\ request.at # "refused"
    /\ request.at = "sent" => request.as = Nobody
    /\ request.at \in {"scope", "permission"} => request.as = account.role
    /\ request.at = "handler" => request.as \in {Nobody, account.role}

LEMMA InvServes == TypeOK /\ ServedInv => OwnRecordsServed
<1> SUFFICES ASSUME TypeOK, ServedInv, request.at = "refused", Quiet, account.isActive,
                    decision # "DENY"
             PROVE  ~Owned(account.role, request.to, request.args)
  BY DEF OwnRecordsServed, Owned
<1> QED BY StageIsBusy DEF ServedInv, Stages

LEMMA OwnStepServed ==
  ASSUME TypeOK, ServedInv, Identify \/ CheckScope \/ CheckPermission \/ Handle
  PROVE  ServedInv'
<1>0. PICK r, e, args : r = account.role /\ e = request.to /\ args = request.args
  OBVIOUS
<1>1. /\ request # Idle /\ UNCHANGED <<school, changes>>
      /\ request.at \in {"sent", "scope", "permission", "handler"}
  BY StageIsBusy DEF Identify, CheckScope, CheckPermission, Handle, Step, Stages
<1>2. /\ UNCHANGED <<account, decision, classTeacher, subjectRow, pupilClass, linked, changes>>
  BY <1>1 DEF school
<1>3. /\ request'.to = e /\ request'.args = args /\ request'.since = request.since
  <2>1. ASSUME NEW stage, Goes(stage)
        PROVE  /\ request'.to = request.to /\ request'.args = request.args
               /\ request'.since = request.since
    BY <1>1, <2>1, GoesKeeps
  <2>2. CASE CheckScope \/ CheckPermission \/ Handle
    BY <1>0, <2>1, <2>2 DEF CheckScope, CheckPermission, Handle
  <2>3. CASE Identify
    <3>1. \/ Goes("handler") \/ Goes("refused")
          \/ request' = [request EXCEPT !.as = r,
                            !.at = IF "permission" \in e.guards THEN "scope" ELSE "handler"]
      BY <1>0, <2>3 DEF Identify, CallerRole
    <3>2. CASE request' = [request EXCEPT !.as = r,
                             !.at = IF "permission" \in e.guards THEN "scope" ELSE "handler"]
      BY <1>0, <1>1, <3>2 DEF TypeOK
    <3> QED BY <1>0, <2>1, <3>1, <3>2
  <2> QED BY <2>2, <2>3
<1> SUFFICES ASSUME Quiet, account.isActive, decision # "DENY", Owned(r, e, args)
             PROVE  /\ request'.at # "refused" /\ request'.at # "sent"
                    /\ request'.at \in {"scope", "permission"} => request'.as = r
                    /\ request'.at = "handler" => request'.as \in {Nobody, r}
  <2>1. Owned(r, e, args)' <=> Owned(r, e, args)
    BY <1>2 DEF Owned, LinkedChild, ListedClass, getClassesForTeacher, OnlyOurs
  <2> QED BY <1>0, <1>2, <1>3, <2>1 DEF ServedInv, Quiet
<1>4. /\ "roles" \in e.guards => RolesPass(e, r)
      /\ assertArguments(r, e, args) /\ HasPermission(r, e.permission)
      /\ r \in Admitted(e.name) /\ r # "SUPER_ADMIN"
      /\ ~(e.name \in {"assignSubjectsToClass", "assignSubjectTeacher"} /\ r = "CLASS_TEACHER")
  BY <1>0, <1>1, OwnedPasses
<1>5. /\ request.at = "sent" => request.as = Nobody
      /\ request.at \in {"scope", "permission"} => request.as = r
      /\ request.at = "handler" => request.as \in {Nobody, r}
  BY <1>0, <1>1 DEF ServedInv
<1>6. CASE Identify
  <2>1. request.at = "sent" /\ request.as = Nobody
    BY <1>5, <1>6 DEF Identify, Step
  <2>2. \/ Goes("handler")
        \/ request' = [request EXCEPT !.as = r,
                         !.at = IF "permission" \in e.guards THEN "scope" ELSE "handler"]
    BY <1>0, <1>4, <1>6 DEF Identify, CallerRole
  <2>3. CASE Goes("handler")
    BY <1>1, <2>1, <2>3, GoesKeeps
  <2>4. CASE request' = [request EXCEPT !.as = r,
                           !.at = IF "permission" \in e.guards THEN "scope" ELSE "handler"]
    <3>1. request'.as = r /\ request'.at \in {"scope", "handler"}
      BY <1>1, <2>4 DEF TypeOK
    <3> QED BY <3>1
  <2> QED BY <2>2, <2>3, <2>4
<1>7. CASE CheckScope
  <2>1. request.as = r
    BY <1>5, <1>7 DEF CheckScope, Step
  <2>2. Goes("permission")
    BY <1>0, <1>4, <1>7, <2>1 DEF CheckScope
  <2> QED BY <1>1, <2>1, <2>2, GoesKeeps
<1>8. CASE CheckPermission
  <2>1. request.as = r
    BY <1>5, <1>8 DEF CheckPermission, Step
  <2>2. Goes("handler")
    BY <1>0, <1>4, <1>8, <2>1 DEF CheckPermission
  <2> QED BY <1>1, <2>1, <2>2, GoesKeeps
<1>9. CASE Handle
  <2>1. request.as \in {Nobody, r}
    BY <1>5, <1>9 DEF Handle, Step
  <2>2. Nobody # "CLASS_TEACHER"
    BY NamesAssumption DEF Everyone
  <2>3. Goes("answered")
    BY <1>0, <1>4, <1>9, <2>1, <2>2 DEF Handle
  <2> QED BY <1>1, <2>1, <2>3, GoesKeeps
<1> QED BY <1>6, <1>7, <1>8, <1>9

LEMMA ServedKept == TypeOK /\ ServedInv /\ [Next]_vars => ServedInv'
<1> SUFFICES ASSUME TypeOK, ServedInv, [Next]_vars PROVE ServedInv'
  OBVIOUS
<1>1. CASE Send
  <2>1. request'.at = "sent" /\ request'.as = Nobody
    BY <1>1 DEF Send
  <2> QED BY <2>1 DEF ServedInv
<1>2. CASE Leave
  BY <1>2 DEF Leave, ServedInv
<1>3. CASE Others
  <2>0. Change
    BY <1>3, Zenon DEF Others, Curriculum, UpdateUser, DeactivateUser, ActivateUser,
         SignIn, SetUserPermission, LinkParent, UnlinkParent, PromoteStudents,
         GetClassSubjectAssignments, AssignClassTeacher, AssignSubjectsToClass,
         RemoveClassSubjectAssignment, AssignSubjectTeacher, AssignClassSubject,
         UpdateClassSubjectAssignment
  <2>1. request' = request /\ changes' = changes + 1
    BY <2>0 DEF Change
  <2>2. request # Idle => request.since # changes + 1
    BY RequestsAssumption DEF TypeOK
  <2> QED BY <2>1, <2>2 DEF ServedInv, Quiet
<1>4. CASE UNCHANGED vars
  <2>1. UNCHANGED <<account, decision, classTeacher, subjectRow, pupilClass, linked, changes,
                    request>>
    BY <1>4 DEF vars, school
  <2> QED BY <2>1 DEF ServedInv, Quiet, Owned, LinkedChild, ListedClass, getClassesForTeacher,
                      OnlyOurs
<1> QED BY <1>1, <1>2, <1>3, <1>4, OwnStepServed DEF Next

LEMMA ServedInvariance == Spec => [](TypeOK /\ ServedInv)
<1>1. Init => TypeOK /\ ServedInv
  BY InitTyped DEF Init, ServedInv
<1>2. TypeOK /\ [Next]_vars => TypeOK'
  <2>1. TypeOK /\ UNCHANGED vars => TypeOK'
    BY DEF TypeOK, vars, school
  <2> QED BY <2>1, OwnStepTyped, OthersTyped DEF Next
<1> QED BY <1>1, <1>2, ServedKept, PTL DEF Spec

(* Nobody is locked out of what the application shows them, at whatever    *)
(* endpoint of the table and in whatever school: while nothing changes, a  *)
(* linked parent, a teacher of a listed class and a school administrator   *)
(* are not refused.                                                        *)
THEOREM OwnRecordsServedAlways == Spec => []OwnRecordsServed
BY ServedInvariance, InvServes, PTL
=============================================================================
