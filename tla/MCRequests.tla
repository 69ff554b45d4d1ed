---------------------------- MODULE MCRequests ----------------------------
(* Two classes and two subjects; of endpoints the guards cannot tell apart *)
(* one is asked.                                                           *)
EXTENDS Requests, TLC

CONSTANTS c1, c2, m1, m2, pupil, actor, colleague, nobody, foreign

ToldByName == ParentOperations \cup SchoolWide \cup
  {"classScores", "resultAnalytics", "exportTimetablePdf", "class",
   "assignClassTeacher", "assignSubjectsToClass", "assignSubjectTeacher",
   "activeStaffQrCode", "createUser", "dashboardIncomeAnalytics",
   "dashboardAttendanceAnalytics"}
MCRoles == Everyone \ {"VICE_PRINCIPAL", "HEAD_TEACHER", "BURSAR"}

Group(e) ==
  <<e.guards, e.roles, e.needs, e.may, e.permission.resource \in Academic,
    {r \in MCRoles : DefaultRolePermissions(r, e.permission)},
    IF e.name \in ToldByName THEN e.name ELSE "">>
Representative == [g \in {Group(e) : e \in Endpoints} |->
                     CHOOSE e \in Endpoints : Group(e) = g]
MCServed == {Representative[Group(e)] : e \in Endpoints}
=============================================================================
