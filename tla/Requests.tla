------------------------------ MODULE Requests ------------------------------
(***************************************************************************)
(* A caller's requests on their way through the guards: JwtAuthGuard with  *)
(* JwtAccessStrategy, RolesGuard and PermissionGuard of src/src/common,    *)
(* and the record scope of src/src/access/record-scope.service.ts, while   *)
(* administrators change the caller's account and assignments.             *)
(*                                                                         *)
(* Each guard awaits the database, so the caller a request is answered for *)
(* may have another role, class or pupil by the time of the next check.    *)
(* The class and its subjects are those of src/src/classes.  One caller,   *)
(* one pupil and one school are followed; Foreign stands for any record of *)
(* another school, or of none.                                             *)
(***************************************************************************)
EXTENDS Endpoints, Naturals

CONSTANTS Served,        \* the endpoints that are asked
          Roles,         \* the roles the account is given
          Classes, Subjects, Pupil,
          Actor,         \* the account behind the requests
          Colleague,     \* another teacher
          Nobody, Foreign,
          FirstClass, FirstSubject, \* a colleague teaches it in the actor's class
          LegacyClass,   \* its rows of class_subjects are from before schoolId
          MaxChanges     \* bound: changes made by others

ASSUME RequestsAssumption ==
  /\ Served \subseteq Endpoints
  /\ Roles \subseteq Everyone
  /\ {FirstClass, LegacyClass} \subseteq Classes /\ FirstSubject \in Subjects
  /\ MaxChanges \in Nat
  /\ Nobody \notin Roles   \* stands for a caller that is not known

(* Accounts are no names of roles, and the mark of a missing row is none.  *)
ASSUME NamesAssumption ==
  Nobody \notin Everyone /\ "no row" \notin {Nobody, Actor, Colleague}

VARIABLES
  account,       \* users: the actor's role and isActive
  token,         \* the role written into the access token
  decision,      \* an administrator's decision on what is being asked
  classTeacher,  \* classes.classTeacherId
  subjectRow,    \* class_subjects, by class and subject
  pupilClass,    \* students.currentClassId of the pupil
  linked,        \* whether student_parents ties the pupil to the actor
  request,       \* the request in flight
  held,          \* history: what was true of the caller since it was sent
  changes        \* changes so far

school == <<account, token, decision, classTeacher, subjectRow, pupilClass, linked>>
vars == <<school, request, held, changes>>

NoRow == [main |-> "no row", listed |-> FALSE, ours |-> FALSE]
SubjectRows == [main : {Nobody, Actor, Colleague}, listed : BOOLEAN, ours : BOOLEAN]
Idle == [at |-> "idle"]
Stages == {"sent", "scope", "permission", "handler", "answered", "refused"}

(* What an argument of each kind can name.  There is a result sheet per     *)
(* class, and the pupil has a score in every subject on FirstClass's.      *)
Ids(kind) ==
  CASE kind \in {"class", "toClass", "sheet"} -> Classes \cup {Foreign}
    [] kind \in {"subject", "subjects", "score"} -> Subjects \cup {Foreign}
    [] kind \in {"student", "result"} -> {Pupil, Foreign}
    [] kind = "target" -> Classes \cup {Actor, Colleague, Foreign}
    [] OTHER -> {"ours", Foreign}

Arguments(e) ==
  UNION {[e.needs \cup given -> UNION {Ids(k) : k \in e.needs \cup given}] :
           given \in SUBSET e.may}
Wellformed(args) == \A k \in DOMAIN args : args[k] \in Ids(k)
Asked == UNION {{[to |-> e, args |-> a] : a \in {x \in Arguments(e) : Wellformed(x)}} :
                  e \in Served}

TypeOK ==
  /\ account \in [role : Roles, isActive : BOOLEAN]
  /\ token \in Roles
  /\ decision \in {"none", "GRANT", "DENY"}
  /\ classTeacher \in [Classes -> {Actor, Colleague}]
  /\ subjectRow \in [Classes \X Subjects -> SubjectRows \cup {NoRow}]
  /\ pupilClass \in Classes
  /\ linked \in BOOLEAN
  /\ changes \in 0..MaxChanges
  /\ \/ request = Idle
     \/ /\ request.at \in Stages /\ request.as \in Roles \cup {Nobody}
        /\ [to |-> request.to, args |-> request.args] \in Asked
        /\ request.since \in 0..changes

Init ==
  /\ \E r \in Roles : account = [role |-> r, isActive |-> TRUE] /\ token = r
  /\ decision = "none"
  /\ classTeacher = [c \in Classes |-> IF c = FirstClass THEN Actor ELSE Colleague]
  /\ subjectRow = [at \in Classes \X Subjects |->
       [main |-> IF (at[1] = FirstClass) = (at[2] = FirstSubject) THEN Colleague ELSE Actor,
        listed |-> FALSE, ours |-> at[1] # LegacyClass]]
  /\ pupilClass = FirstClass /\ linked = TRUE
  /\ request = Idle /\ changes = 0
  /\ held = [roles |-> {}, scopes |-> {}, permits |-> {}]

(***************************************************************************)
(* The record scope of record-scope.service.ts.                            *)
(***************************************************************************)
Teaches(c, s) ==
  /\ subjectRow[<<c, s>>].ours
  /\ subjectRow[<<c, s>>].main = Actor \/ subjectRow[<<c, s>>].listed

assertClass(role, c) ==
  /\ c \in Classes
  /\ role = "CLASS_TEACHER" => classTeacher[c] = Actor
  /\ role = "SUBJECT_TEACHER" => \E s \in Subjects : Teaches(c, s)
  /\ role # "PARENT"

assertStudent(role, p) ==
  /\ p = Pupil
  /\ role = "PARENT" => linked
  /\ role \in Teachers => assertClass(role, pupilClass)

SubjectInScope(role, s, classes) ==
  /\ s \in Subjects
  /\ role = "SUBJECT_TEACHER" => \E c \in classes : c \in Classes /\ Teaches(c, s)

SheetInScope(role, sheet, subjects) ==
  /\ assertClass(role, sheet)
  /\ role = "SUBJECT_TEACHER" =>
       \A s \in subjects : s \in Subjects /\ Teaches(sheet, s)

Named(args, kind) == {args[k] : k \in {kind} \cap DOMAIN args}

visit(role, args, k) ==
  CASE k \in {"class", "toClass"} -> assertClass(role, args[k])
    [] k = "student" -> assertStudent(role, args[k])
    [] k = "result" -> assertStudent(role, args[k])
    [] k = "sheet" -> SheetInScope(role, args[k], Named(args, "subject"))
    [] k = "subject" ->
         SubjectInScope(role, args[k],
                        IF "class" \in DOMAIN args THEN {args["class"]} ELSE Classes)
    [] k = "subjects" -> SubjectInScope(role, args[k], Classes)
    [] k = "score" -> /\ SheetInScope(role, FirstClass, {args[k]})
                      /\ SubjectInScope(role, args[k], Classes)
                      /\ assertStudent(role, Pupil)
    [] k = "target" -> args[k] \in {Actor, Colleague} \/ assertClass(role, args[k])
    [] OTHER -> args[k] # Foreign

(* The operations a role may ask for at all.  Names in the lists that no    *)
(* endpoint has are left out.                                              *)
ParentOperations ==
  {"student", "myChildren", "studentAttendance", "studentAttendanceSummary",
   "studentResult", "myChildResults", "childTimetable", "myChildrenTimetables",
   "myStudentInvoices", "invoice", "paymentSubmission", "paymentReceipt",
   "bankAccounts"}
SchoolWide ==
  {"archivedStudents", "guardianStudents", "staffAttendanceLog",
   "staffAttendanceOverview", "classAttendanceOverview", "unmarkedClasses",
   "manualStaffAttendance", "pendingPrincipalApprovals"}
SubjectTeacherUses(name, args) ==
  /\ name \in {"classScores", "resultAnalytics"} => "subject" \in DOMAIN args
  /\ name # "studentResult"
OperationOpen(role, name, args) ==
  /\ role \in Restricted => name \notin SchoolWide
  /\ role = "PARENT" => name \in ParentOperations
  /\ role = "SUBJECT_TEACHER" => SubjectTeacherUses(name, args)
  /\ role \in Restricted /\ name = "exportTimetablePdf" =>
       "target" \in DOMAIN args /\ args["target"] # Colleague

assertArguments(role, e, args) ==
  e.permission.resource \in Academic =>
    /\ OperationOpen(role, e.name, args)
    /\ \A k \in DOMAIN args : visit(role, args, k)

HasPermission(role, p) ==
  \/ role \in Administrators
  \/ /\ decision # "DENY"
     /\ decision = "GRANT" \/ DefaultRolePermissions(role, p)

(***************************************************************************)
(* What the caller may be answered for, said apart from the checks: the    *)
(* records that are the caller's own in each role.                         *)
(***************************************************************************)
Taught == {at \in Classes \X Subjects :
             /\ subjectRow[at].ours
             /\ subjectRow[at].main = Actor \/ subjectRow[at].listed}
OwnClasses(role) ==
  CASE role = "CLASS_TEACHER" -> {c \in Classes : classTeacher[c] = Actor}
    [] role = "SUBJECT_TEACHER" -> {at[1] : at \in Taught}
    [] role = "PARENT" -> {}
    [] OTHER -> Classes
OwnLessons(role) == IF role = "SUBJECT_TEACHER" THEN Taught ELSE Classes \X Subjects
OwnPupils(role) ==
  CASE role = "PARENT" -> IF linked THEN {Pupil} ELSE {}
    [] OTHER -> IF pupilClass \in OwnClasses(role) THEN {Pupil} ELSE {}

InOwnRecords(role, args) ==
  /\ \A kind \in {"class", "toClass", "sheet"} : Named(args, kind) \subseteq OwnClasses(role)
  /\ \A kind \in {"student", "result"} : Named(args, kind) \subseteq OwnPupils(role)
  /\ \A kind \in {"subject", "subjects"} :
       Named(args, kind) \subseteq {at[2] : at \in OwnLessons(role)}
  /\ (Named(args, "class") \cup Named(args, "sheet")) \X Named(args, "subject")
       \subseteq OwnLessons(role)
  /\ {FirstClass} \X Named(args, "score") \subseteq OwnLessons(role)
  /\ Named(args, "target") \subseteq
       OwnClasses(role) \cup {Actor} \cup (IF role \in Restricted THEN {} ELSE {Colleague})
  /\ \A kind \in {"term", "session", "staff"} : Foreign \notin Named(args, kind)

Nothing == [roles |-> {}, scopes |-> {}, permits |-> {}]
Facts ==
  IF request = Idle THEN Nothing
  ELSE LET to == request.to
           callers == {account.role, request.as} \ {Nobody}
       IN [roles |-> IF account.isActive THEN {account.role} ELSE {},
           scopes |-> {r \in callers : to.permission.resource \in Academic
                                      => InOwnRecords(r, request.args)},
           permits |-> {r \in callers : HasPermission(r, to.permission)}]
Observe ==
  held' = IF Idle \in {request, request'} THEN Facts'
          ELSE [part \in DOMAIN held |-> held[part] \cup Facts'[part]]

(***************************************************************************)
(* The request.                                                            *)
(***************************************************************************)
Goes(stage) == request' = [request EXCEPT !.at = stage]
Step(stage) == request.at = stage /\ UNCHANGED <<school, changes>>

Send ==
  /\ request = Idle
  /\ \E asked \in Asked :
       request' = [at |-> "sent", to |-> asked.to, args |-> asked.args, as |-> Nobody,
                   since |-> changes]
  /\ UNCHANGED <<school, changes>>

(* RolesGuard.canActivate: without @Roles there has to be a permission.    *)
RolesPass(e, role) ==
  IF e.roles = {} THEN e.permission # NoPermission
  ELSE role = "SUPER_ADMIN" \/ role \in e.roles

(* JwtAccessStrategy.validate reads the account; the token says only whose. *)
CallerRoleOfToken == token
CallerRole == account.role

(* JwtAuthGuard and, on what it found, RolesGuard.                         *)
Identify ==
  /\ Step("sent")
  /\ LET e == request.to
     IN IF "jwt" \notin e.guards THEN Goes("handler")
        ELSE IF ~account.isActive \/ ("roles" \in e.guards /\ ~RolesPass(e, CallerRole))
        THEN Goes("refused")
        ELSE request' = [request EXCEPT !.as = CallerRole,
               !.at = IF "permission" \in e.guards THEN "scope" ELSE "handler"]

(* PermissionGuard.canActivate up to recordScope.assertArguments.          *)
CheckScope ==
  /\ Step("scope")
  /\ IF request.as = "SUPER_ADMIN" THEN Goes("handler")
     ELSE IF assertArguments(request.as, request.to, request.args)
     THEN Goes("permission") ELSE Goes("refused")

CheckPermission ==
  /\ Step("permission")
  /\ IF HasPermission(request.as, request.to.permission)
     THEN Goes("handler") ELSE Goes("refused")

(* The body of the resolver.                                               *)
isClassTeacherOfClass(c) == classTeacher[c] = Actor
Handle ==
  /\ Step("handler")
  /\ IF /\ request.as = Nobody \/ request.as \in Admitted(request.to.name)
        /\ request.to.name \in {"assignSubjectsToClass", "assignSubjectTeacher"}
             /\ request.as = "CLASS_TEACHER" => isClassTeacherOfClass(request.args["class"])
     THEN Goes("answered") ELSE Goes("refused")

Leave ==
  /\ request.at \in {"answered", "refused"}
  /\ request' = Idle
  /\ UNCHANGED <<school, changes>>

(* The classes that schoolClasses and classes list to a teacher; myClasses  *)
(* leaves the role out.                                                    *)
ClassesOfAnyRole(role) ==
  {c \in Classes : \/ classTeacher[c] = Actor
                   \/ \E s \in Subjects : \/ subjectRow[<<c, s>>].main = Actor
                                           \/ subjectRow[<<c, s>>].listed}
getClassesForTeacher(role) ==
  {c \in Classes :
     \/ role # "SUBJECT_TEACHER" /\ classTeacher[c] = Actor
     \/ role # "CLASS_TEACHER" /\ \E s \in Subjects :
          subjectRow[<<c, s>>].main = Actor \/ subjectRow[<<c, s>>].listed}

(***************************************************************************)
(* What others change meanwhile.                                           *)
(***************************************************************************)
Change == changes < MaxChanges /\ changes' = changes + 1 /\ UNCHANGED request

UpdateUser(role) ==
  /\ Change /\ account' = [account EXCEPT !.role = role]
  /\ UNCHANGED <<token, decision, classTeacher, subjectRow, pupilClass, linked>>
DeactivateUser ==
  /\ Change /\ account' = [account EXCEPT !.isActive = FALSE]
  /\ UNCHANGED <<token, decision, classTeacher, subjectRow, pupilClass, linked>>
ActivateUser ==
  /\ Change /\ account' = [account EXCEPT !.isActive = TRUE]
  /\ UNCHANGED <<token, decision, classTeacher, subjectRow, pupilClass, linked>>
SignIn ==
  /\ Change /\ account.isActive /\ token' = account.role
  /\ UNCHANGED <<account, decision, classTeacher, subjectRow, pupilClass, linked>>
SetUserPermission(effect) ==
  /\ Change /\ decision' = effect
  /\ UNCHANGED <<account, token, classTeacher, subjectRow, pupilClass, linked>>
LinkParent ==
  /\ Change /\ linked' = TRUE
  /\ UNCHANGED <<account, token, decision, classTeacher, subjectRow, pupilClass>>
UnlinkParent ==
  /\ Change /\ linked' = FALSE
  /\ UNCHANGED <<account, token, decision, classTeacher, subjectRow, pupilClass>>
PromoteStudents(c) ==
  /\ Change /\ pupilClass' = c
  /\ UNCHANGED <<account, token, decision, classTeacher, subjectRow, linked>>

AssignClassTeacher(c, t) ==
  /\ Change /\ classTeacher' = [classTeacher EXCEPT ![c] = t]
  /\ UNCHANGED <<account, token, decision, subjectRow, pupilClass, linked>>

Curriculum(rows) ==
  /\ Change /\ subjectRow' = rows
  /\ UNCHANGED <<account, token, decision, classTeacher, pupilClass, linked>>

AssignSubjectsToClass(c, subjects) ==
  Curriculum([at \in Classes \X Subjects |->
    IF at[1] # c THEN subjectRow[at]
    ELSE IF at[2] \notin subjects THEN NoRow
    ELSE IF subjectRow[at] # NoRow THEN subjectRow[at]
    ELSE [main |-> Nobody, listed |-> FALSE, ours |-> TRUE]])

AssignSubjectTeacher(at, t) ==
  subjectRow[at] # NoRow /\ Curriculum([subjectRow EXCEPT ![at].main = t])

(* assignClassSubject of the timetable: teacherIds defaults to the teacher, *)
(* and to what the row has when neither is given.                          *)
AssignClassSubject(at, t, list) ==
  LET row == subjectRow[at]
      ids == IF list # {} THEN list ELSE {t} \ {Nobody}
  IN Curriculum([subjectRow EXCEPT ![at] =
       [main |-> IF t = Nobody /\ row # NoRow THEN row.main ELSE t,
        listed |-> IF ids = {} THEN row.listed ELSE Actor \in ids,
        ours |-> TRUE]])

(* updateClassSubjectAssignment finds only rows of the school; an empty     *)
(* list would write '' into a uuid column, which the database refuses.     *)
UpdateClassSubjectAssignment(at, t, list) ==
  /\ subjectRow[at].ours /\ (list # {} => t \in list)
  /\ Curriculum([subjectRow EXCEPT ![at] =
       [main |-> t, listed |-> IF list = {} THEN subjectRow[at].listed ELSE Actor \in list,
        ours |-> TRUE]])
RemoveClassSubjectAssignment(at) ==
  subjectRow[at].ours /\ Curriculum([subjectRow EXCEPT ![at] = NoRow])

(* Opening the list writes the school into the rows that miss it.          *)
GetClassSubjectAssignments(c) ==
  Curriculum([at \in Classes \X Subjects |->
    IF at[1] = c /\ subjectRow[at] # NoRow
    THEN [subjectRow[at] EXCEPT !.ours = TRUE] ELSE subjectRow[at]])

Others ==
  \/ \E r \in Roles : UpdateUser(r)
  \/ DeactivateUser \/ ActivateUser \/ SignIn
  \/ \E d \in {"none", "GRANT", "DENY"} : SetUserPermission(d)
  \/ LinkParent \/ UnlinkParent
  \/ \E c \in Classes :
       \/ PromoteStudents(c) \/ GetClassSubjectAssignments(c)
       \/ \E t \in {Actor, Colleague} : AssignClassTeacher(c, t)
       \/ \E subjects \in SUBSET Subjects : AssignSubjectsToClass(c, subjects)
  \/ \E at \in Classes \X Subjects :
       \/ RemoveClassSubjectAssignment(at)
       \/ \E t \in {Actor, Colleague} :
            \/ AssignSubjectTeacher(at, t)
            \/ \E list \in SUBSET {Actor, Colleague} :
                 AssignClassSubject(at, t, list) \/ UpdateClassSubjectAssignment(at, t, list)

Next ==
  /\ Send \/ Identify \/ CheckScope \/ CheckPermission \/ Handle \/ Leave \/ Others
  /\ Observe

Spec == Init /\ [][Next]_vars

(***************************************************************************)
(* Properties.                                                             *)
(***************************************************************************)

(* A request behind the guards is answered only for a role that the active *)
(* account had at some moment since the request was sent, a role its       *)
(* endpoint asks for, whose own records it names, and that was permitted   *)
(* what it does: whatever changed between the awaits of the guards.        *)
AnsweredWhileEntitled ==
  request.at = "answered" /\ request.to.guards # {} =>
    \E r \in held.roles :
      LET e == request.to
      IN /\ e.roles = {} \/ r \in e.roles \cup {"SUPER_ADMIN"}
         /\ e.permission # NoPermission /\ r # "SUPER_ADMIN" =>
              r \in held.scopes /\ r \in held.permits

Quiet == request.since = changes
OnlyOurs(args) == \A k \in DOMAIN args : args[k] # Foreign
LinkedChild(e, args) ==
  /\ e.name \in ParentOperations
  /\ DOMAIN args \subseteq {"student", "term"} /\ OnlyOurs(args)
  /\ "student" \in DOMAIN args => linked
ListedClass(role, e, args) ==
  /\ e.name \in {"class", "classById"}
  /\ args["class"] \in getClassesForTeacher(role)
  /\ \A s \in Subjects :
       subjectRow[<<args["class"], s>>] # NoRow => subjectRow[<<args["class"], s>>].ours

(* Nobody is locked out of what the application shows them: while nothing  *)
(* changes, a parent is answered about a linked child by every operation   *)
(* meant for parents, a teacher about every class of the teacher's list,   *)
(* and a school administrator about any record of the school, by every     *)
(* endpoint that does not ask for another role.  (Rows of class_subjects   *)
(* from before the schoolId column are listed but not admitted.)           *)
OwnRecordsServed ==
  request.at = "refused" /\ Quiet /\ account.isActive /\ decision # "DENY" =>
    LET e == request.to IN
    /\ ~(account.role = "PARENT" /\ LinkedChild(e, request.args))
    /\ ~(account.role \in Teachers /\ ListedClass(account.role, e, request.args))
    /\ ~(/\ account.role = "SCHOOL_ADMIN" /\ OnlyOurs(request.args)
         /\ e.roles = {} \/ account.role \in e.roles)

=============================================================================
