------------------------------ MODULE Endpoints ------------------------------
(***************************************************************************)
(* What every endpoint of the API asks of its caller: the decorators of    *)
(* the resolvers and of the health controller.                             *)
(*                                                                         *)
(* An endpoint is a record of its name, the guards that stand before it,   *)
(* the roles of @Roles ({} without the decorator), the permission of       *)
(* @RequirePermission, and the kinds of records its arguments name, as     *)
(* record-scope.service.ts tells them apart: needs are always there, may   *)
(* are the nullable ones.  A list of ids stands for any one of them, and   *)
(* arguments whose keys the scope never looks at are left out.             *)
(***************************************************************************)

Everyone == {"SUPER_ADMIN", "SCHOOL_ADMIN", "PRINCIPAL", "VICE_PRINCIPAL",
             "HEAD_TEACHER", "CLASS_TEACHER", "SUBJECT_TEACHER", "BURSAR", "PARENT"}
Leadership == {"PRINCIPAL", "VICE_PRINCIPAL", "HEAD_TEACHER"}
Administrators == {"SUPER_ADMIN", "SCHOOL_ADMIN"}
AdminRoles == Administrators \cup Leadership
Teachers == {"CLASS_TEACHER", "SUBJECT_TEACHER"}
Restricted == Teachers \cup {"PARENT"}

(* The resources whose records belong to classes, pupils and subjects.     *)
Academic == {"STUDENTS", "CLASSES", "SUBJECTS", "ATTENDANCE", "RESULTS",
             "TIMETABLE", "FEES", "ID_CARDS"}

NoPermission == [resource |-> "none", action |-> "none"]

Row(guards, roles, permission, needs, may, names) ==
  {[name |-> n, guards |-> guards, roles |-> roles, permission |-> permission,
    needs |-> needs, may |-> may] : n \in names}

Open(names) == Row({}, {}, NoPermission, {}, {}, names)
SelfService(names) == Row({"jwt"}, {}, NoPermission, {}, {}, names)

(* Where PermissionGuard stands too it finds no permission to ask for, and  *)
(* passes the caller for the roles.                                        *)
ForRoles(roles, names) == Row({"jwt", "roles"}, roles, NoPermission, {}, {}, names)
AskingOf(roles, resource, action, needs, may, names) ==
  Row({"jwt", "roles", "permission"}, roles,
      [resource |-> resource, action |-> action], needs, may, names)
Asking(resource, action, needs, may, names) ==
  AskingOf({}, resource, action, needs, may, names)

(***************************************************************************)
(* The resolvers, in the order of their files.                             *)
(***************************************************************************)

AccessAEndpoints ==
  UNION {ForRoles(Everyone, {"getMyPermissions", "myEffectivePermissions"}),
         ForRoles({"SUPER_ADMIN", "SCHOOL_ADMIN"},
              {"userEffectivePermissions", "getAllPermissions",
               "updateRolePermission", "permissionGroups",
               "permissionGroupPermissions", "userPermissionGroups",
               "userPermissionOverrides"})}

AccessBEndpoints ==
  UNION {ForRoles({"SUPER_ADMIN", "SCHOOL_ADMIN"},
              {"createPermissionGroup", "updatePermissionGroup",
               "deletePermissionGroup", "setPermissionGroupPermissions",
               "assignPermissionGroup", "removePermissionGroup",
               "setUserPermission", "removeUserPermission"})}

AppEndpoints ==
  UNION {Open({"checkHealth", "checkRootHealth"})}

AttendanceAEndpoints ==
  UNION {Asking("ATTENDANCE", "READ", {"class"}, {}, {"classAttendance"}),
         Asking("ATTENDANCE", "READ", {"student", "term"}, {},
              {"studentAttendance", "studentAttendanceSummary"}),
         Asking("ATTENDANCE", "READ", {}, {},
              {"staffAttendanceLog", "staffAttendanceHistory",
               "unmarkedClasses"})}

AttendanceBEndpoints ==
  UNION {Asking("ATTENDANCE", "READ", {}, {},
              {"staffAttendanceOverview", "classAttendanceOverview",
               "activeStaffQrCode", "markAttendanceWithQr"}),
         Asking("ATTENDANCE", "UPDATE", {"class", "student"}, {},
              {"markStudentAttendance"}),
         Asking("ATTENDANCE", "UPDATE", {}, {},
              {"clockAction", "manualStaffAttendance"})}

AuthEndpoints ==
  UNION {Open({"register", "login", "refreshTokens", "forgotPassword",
               "resetPassword", "verifyEmail", "resendVerificationEmail"}),
         SelfService({"logout", "updateExpoPushToken"})}

ClassesAEndpoints ==
  UNION {Asking("CLASSES", "CREATE", {}, {"staff"}, {"createClass"}),
         Asking("CLASSES", "READ", {}, {},
              {"schoolClasses", "classes", "myClasses"}),
         Asking("CLASSES", "READ", {"class"}, {}, {"class", "classById"})}

ClassesBEndpoints ==
  UNION {Asking("CLASSES", "UPDATE", {"class", "staff"}, {},
              {"assignClassTeacher"}),
         Asking("CLASSES", "UPDATE", {"class", "subjects"}, {},
              {"assignSubjectsToClass"}),
         Asking("CLASSES", "UPDATE", {"class", "staff", "subject"}, {},
              {"assignSubjectTeacher"})}

CommunicationEndpoints ==
  UNION {Asking("COMMUNICATION", "READ", {}, {},
              {"announcement", "announcements", "announcementsPage"}),
         Asking("COMMUNICATION", "MANAGE", {}, {}, {"adminAnnouncementsPage"}),
         Asking("COMMUNICATION", "CREATE", {}, {}, {"createAnnouncement"}),
         Asking("COMMUNICATION", "UPDATE", {}, {}, {"updateAnnouncement"}),
         Asking("COMMUNICATION", "PUBLISH", {}, {}, {"publishAnnouncement"}),
         Asking("COMMUNICATION", "DELETE", {}, {}, {"deleteAnnouncement"})}

DashboardEndpoints ==
  UNION {ForRoles(Everyone \ {"PARENT"}, {"dashboardAnalytics"}),
         Asking("FEES", "READ", {}, {"term"}, {"dashboardIncomeAnalytics"}),
         Asking("ATTENDANCE", "READ", {}, {"term"},
              {"dashboardAttendanceAnalytics"}),
         Asking("STUDENTS", "READ", {}, {}, {"dashboardOverview"})}

ExpenseBudgetsEndpoints ==
  UNION {Asking("EXPENSES", "UPDATE", {}, {},
              {"setExpenseBudget", "bulkSetExpenseBudgets"}),
         Asking("EXPENSES", "READ", {}, {}, {"expenseBudgets"})}

ExpenseRecurringEndpoints ==
  UNION {Asking("EXPENSES", "READ", {}, {}, {"recurringExpenses"}),
         Asking("EXPENSES", "CREATE", {}, {}, {"createRecurringExpense"}),
         Asking("EXPENSES", "UPDATE", {}, {},
              {"updateRecurringExpense", "markRecurringExpenseRecorded"})}

ExpenseReportsEndpoints ==
  UNION {Asking("EXPENSES", "READ", {}, {},
              {"expenseSummary", "expenseSpendingByCategory",
               "expenseMonthlyTrends", "expenseSpendingByDepartment",
               "expenseSpendingByVendor"})}

ExpenseRequestsEndpoints ==
  UNION {Asking("EXPENSES", "CREATE", {}, {},
              {"createExpenseRequest", "convertRequestToExpense"}),
         Asking("EXPENSES", "UPDATE", {}, {},
              {"updateExpenseRequest", "fundExpenseRequest",
               "recordExpenseRequestPayment", "cancelExpenseRequest"}),
         Asking("EXPENSES", "APPROVE", {}, {},
              {"approveExpenseRequest", "rejectExpenseRequest"}),
         Asking("EXPENSES", "READ", {}, {},
              {"expenseRequests", "expenseRequest",
               "expenseRequestActivities"})}

ExpenseVendorsEndpoints ==
  UNION {Asking("EXPENSES", "READ", {}, {},
              {"expenseVendors", "expenseVendorSpend"}),
         Asking("EXPENSES", "CREATE", {}, {}, {"createExpenseVendor"}),
         Asking("EXPENSES", "UPDATE", {}, {}, {"updateExpenseVendor"})}

ExpensesAEndpoints ==
  UNION {Asking("EXPENSES", "READ", {}, {},
              {"expenseCategories", "expenseDepartments"}),
         Asking("EXPENSES", "CREATE", {}, {},
              {"createExpenseCategory", "createExpenseDepartment",
               "createExpense"}),
         Asking("EXPENSES", "UPDATE", {}, {},
              {"updateExpenseCategory", "saveExpenseCategory"}),
         Asking("EXPENSES", "DELETE", {}, {}, {"deleteExpenseCategory"})}

ExpensesBEndpoints ==
  UNION {Asking("EXPENSES", "UPDATE", {}, {}, {"updateExpense"}),
         Asking("EXPENSES", "DELETE", {}, {}, {"voidExpense"}),
         Asking("EXPENSES", "READ", {}, {},
              {"expenses", "expense", "checkDuplicateExpense",
               "expenseActivities"}),
         ForRoles({"SUPER_ADMIN", "SCHOOL_ADMIN"}, {"archivedExpenses"})}

PettyCashEndpoints ==
  UNION {Asking("EXPENSES", "READ", {}, {},
              {"pettyCashAccount", "pettyCashTransactions"}),
         Asking("EXPENSES", "CREATE", {}, {}, {"replenishPettyCash"})}

FeesAEndpoints ==
  UNION {Asking("FEES", "READ", {}, {},
              {"feeClassLookup", "feeCategories", "allFeeCategories",
               "feeStructure"}),
         Asking("FEES", "READ", {}, {"class"}, {"feeStudentLookup"}),
         Asking("FEES", "CREATE", {}, {}, {"createFeeCategory"}),
         Asking("FEES", "UPDATE", {}, {},
              {"updateFeeCategory", "updateFeeStructureAmount",
               "deactivateFeeStructure"}),
         Asking("FEES", "CREATE", {"session"}, {"class", "term"},
              {"createFeeStructure"}),
         Asking("FEES", "CREATE", {"session"}, {"term"},
              {"bulkCreateFeeStructures"}),
         Asking("FEES", "READ", {"session"}, {"class", "term"},
              {"feeStructures"})}

FeesBEndpoints ==
  UNION {Asking("FEES", "UPDATE", {"student"}, {}, {"bulkCreateFeeOverrides"}),
         Asking("FEES", "READ", {}, {"class", "session", "student", "term"},
              {"feeOverrides", "invoices"}),
         Asking("FEES", "UPDATE", {}, {},
              {"removeFeeOverride", "updateBankAccount"}),
         Asking("FEES", "CREATE", {}, {}, {"createBankAccount"}),
         Asking("FEES", "READ", {}, {},
              {"bankAccounts", "resolvedBankAccounts", "invoice"}),
         Asking("FEES", "CREATE", {"session"}, {"term"}, {"generateInvoices"}),
         Asking("FEES", "READ", {}, {"class", "session", "term"},
              {"feeOverview"})}

FeesCEndpoints ==
  UNION {Asking("FEES", "READ", {"student"}, {}, {"myStudentInvoices"}),
         Asking("FEES", "READ", {"class"}, {"session", "term"},
              {"classInvoices", "classFeeLedger"}),
         ForRoles({"PARENT"},
              {"submitPaymentBatch", "myPaymentSubmissions",
               "myPaymentSubmissionsPage"}),
         Asking("FEES", "READ", {}, {},
              {"paymentSubmission", "pendingApprovalQueue",
               "schoolPaymentShares"})}

FeesDEndpoints ==
  UNION {Asking("FEES", "CREATE", {"student"}, {}, {"recordOfflinePayment"}),
         Asking("FEES", "APPROVE", {}, {},
              {"approvePaymentShare", "rejectPaymentShare"}),
         Asking("FEES", "CONFIGURE", {}, {},
              {"upsertApprovalConfig", "upsertStaffFeeVisibility"}),
         Asking("FEES", "READ", {}, {},
              {"approvalConfigs", "paymentReceipt", "receiptTemplates",
               "staffFeeVisibilityConfigs"}),
         Asking("FEES", "UPDATE", {}, {}, {"setDefaultReceiptTemplate"}),
         Asking("FEES", "CREATE", {}, {}, {"createReceiptTemplate"})}

IdCardsAEndpoints ==
  UNION {Asking("ID_CARDS", "READ", {}, {},
              {"idCardTemplates", "idCardTemplate", "schoolIdCardSettings",
               "renderStaffIdCard"}),
         Asking("ID_CARDS", "UPDATE", {}, {}, {"updateSchoolIdCardSettings"}),
         Asking("ID_CARDS", "READ", {"student"}, {}, {"renderStudentIdCard"})}

IdCardsBEndpoints ==
  UNION {Asking("ID_CARDS", "READ", {}, {"class", "student"},
              {"renderBatchStudentIdCards"}),
         Asking("ID_CARDS", "READ", {}, {}, {"renderBatchStaffIdCards"}),
         Asking("ID_CARDS", "GENERATE", {"student"}, {},
              {"generateStudentIdCardPdf"}),
         Asking("ID_CARDS", "GENERATE", {}, {},
              {"generateStaffIdCardPdf", "generateBatchStaffIdCardsPdf"}),
         Asking("ID_CARDS", "GENERATE", {}, {"class", "student"},
              {"generateBatchStudentIdCardsPdf"})}

MarketingEndpoints ==
  UNION {Open({"marketingLandingPage"})}

PdfEndpoints ==
  UNION {Asking("RESULTS", "READ", {"result"}, {}, {"generateReportCard"}),
         Asking("RESULTS", "READ", {"sheet"}, {}, {"generateBulkReportCards"})}

ResultsAEndpoints ==
  UNION {Asking("RESULTS", "READ", {"sheet"}, {}, {"resultSheet"}),
         Asking("RESULTS", "READ", {"class", "term"}, {},
              {"resultSheetsByClass"}),
         Asking("RESULTS", "READ", {}, {},
              {"pendingPrincipalApprovals", "resultStats"}),
         Asking("RESULTS", "READ", {}, {"class", "term"},
              {"schoolResultSheets"}),
         Asking("RESULTS", "READ", {}, {"term"}, {"myScoringAssignments"}),
         Asking("RESULTS", "READ", {"class", "session", "term"}, {"subject"},
              {"resultAnalytics"})}

ResultsBEndpoints ==
  UNION {Asking("RESULTS", "READ", {"class", "term"}, {"subject"},
              {"classScores"}),
         Asking("RESULTS", "READ", {"student", "term"}, {}, {"studentResult"}),
         Asking("RESULTS", "READ", {"student"}, {}, {"myChildResults"}),
         Asking("RESULTS", "READ", {"sheet"}, {}, {"mySubjectScores"}),
         Asking("RESULTS", "CREATE", {"class", "term"}, {},
              {"createResultSheet"}),
         Asking("RESULTS", "UPDATE", {"sheet", "student"}, {"subject"},
              {"saveSubjectScores"}),
         Asking("RESULTS", "UPDATE", {"sheet"}, {},
              {"submitForAdminReview", "submitForPrincipalApproval"})}

ResultsCEndpoints ==
  UNION {Asking("RESULTS", "APPROVE", {"sheet"}, {}, {"approveResult"}),
         Asking("RESULTS", "PUBLISH", {"sheet"}, {}, {"publishResultSheet"}),
         Asking("RESULTS", "UPDATE", {"sheet"}, {}, {"returnResult"}),
         Asking("RESULTS", "UPDATE", {"score"}, {}, {"saveTeacherRemark"}),
         Asking("RESULTS", "UPDATE", {"result"}, {},
              {"savePrincipalRemark", "saveClassTeacherRemark"}),
         Asking("RESULTS", "READ", {}, {}, {"archivedResultSheets"}),
         Asking("RESULTS", "ARCHIVE", {"sheet"}, {},
              {"archiveResultSheet", "unarchiveResultSheet"})}

SchoolsAEndpoints ==
  UNION {Open({"registerSchool"}),
         ForRoles({"SUPER_ADMIN"},
              {"schools", "school", "schoolUsageStats",
               "schoolAdminAccounts"}),
         SelfService({"mySchool"})}

SchoolsBEndpoints ==
  UNION {ForRoles({"SUPER_ADMIN"},
              {"platformStats", "schoolTypeOptions", "createSchool",
               "deactivateSchool", "activateSchool"}),
         ForRoles({"SUPER_ADMIN", "SCHOOL_ADMIN"},
              {"updateSchool", "uploadSchoolLogo", "uploadSchoolStamp",
               "regenerateQrCode"})}

StudentsAEndpoints ==
  UNION {Asking("STUDENTS", "READ", {"class"}, {}, {"studentsByClass"}),
         Asking("STUDENTS", "READ", {"student"}, {}, {"student"}),
         AskingOf({"PARENT"}, "STUDENTS", "READ", {}, {}, {"myChildren"}),
         Asking("STUDENTS", "READ", {}, {},
              {"guardianStudents", "searchStudents"}),
         Asking("STUDENTS", "READ", {}, {"class"}, {"studentsPage"})}

StudentsBEndpoints ==
  UNION {Asking("STUDENTS", "READ", {}, {"class"}, {"studentStatistics"}),
         Asking("STUDENTS", "CREATE", {"class"}, {},
              {"createStudent", "bulkImportStudents"}),
         Asking("STUDENTS", "UPDATE", {"student"}, {"class"},
              {"updateStudent"}),
         Asking("STUDENTS", "UPDATE", {"staff", "student"}, {},
              {"linkParent", "unlinkParent"}),
         Asking("STUDENTS", "READ", {"student"}, {}, {"studentParents"}),
         Asking("STUDENTS", "CREATE", {"student"}, {}, {"uploadPassportPhoto"}),
         Asking("STUDENTS", "UPDATE", {"class", "student"}, {"toClass"},
              {"promoteStudents"}),
         Asking("STUDENTS", "READ", {}, {}, {"archivedStudents"})}

SubjectsEndpoints ==
  UNION {Asking("SUBJECTS", "CREATE", {}, {}, {"createSubject"}),
         Asking("SUBJECTS", "UPDATE", {"subject"}, {}, {"updateSubject"}),
         Asking("SUBJECTS", "READ", {"subject"}, {}, {"subject"}),
         Asking("SUBJECTS", "READ", {}, {}, {"subjects", "schoolSubjects"}),
         Asking("SUBJECTS", "DELETE", {"subject"}, {}, {"deleteSubject"})}

TermsEndpoints ==
  UNION {ForRoles(Everyone,
              {"activeTerm", "term", "session", "sessions",
               "termsBySession"}),
         Asking("SETTINGS", "CREATE", {}, {}, {"createSession", "createTerm"}),
         Asking("SETTINGS", "UPDATE", {}, {},
              {"activateTerm", "closeTerm", "unlockTerm",
               "updateTotalSchoolDays"})}

TimetableAEndpoints ==
  UNION {AskingOf(AdminRoles, "TIMETABLE", "CONFIGURE", {}, {},
              {"previewSchoolDaySchedule", "generateSchoolDaySchedule",
               "createRoom", "updateRoom", "deleteRoom",
               "initDefaultSchoolDays", "updateSchoolDay",
               "initDefaultPeriods"}),
         AskingOf(AdminRoles \cup Teachers, "TIMETABLE", "READ", {}, {},
              {"rooms"}),
         AskingOf(AdminRoles \cup Teachers \cup {"PARENT"}, "TIMETABLE", "READ", {}, {},
              {"schoolDays", "periods"})}

TimetableBEndpoints ==
  UNION {AskingOf(AdminRoles, "TIMETABLE", "CONFIGURE", {}, {},
              {"createPeriod", "updatePeriod", "deletePeriod",
               "reorderPeriods", "createNonTeachingSlot",
               "updateNonTeachingSlot", "deleteNonTeachingSlot"}),
         AskingOf(AdminRoles \cup Teachers, "TIMETABLE", "READ", {}, {},
              {"nonTeachingSlots"}),
         AskingOf(AdminRoles \cup Teachers, "TIMETABLE", "READ", {"class"}, {},
              {"classSubjectAssignments"}),
         AskingOf(AdminRoles, "TIMETABLE", "ASSIGN", {"class", "subject"}, {"staff"},
              {"assignClassSubject"}),
         AskingOf(AdminRoles, "TIMETABLE", "ASSIGN", {}, {"staff"},
              {"updateClassSubjectAssignment"})}

TimetableCEndpoints ==
  UNION {AskingOf(AdminRoles, "TIMETABLE", "ASSIGN", {}, {},
              {"removeClassSubjectAssignment"}),
         AskingOf(AdminRoles, "TIMETABLE", "CONFIGURE", {"staff"}, {},
              {"updateTeacherWorkload"}),
         AskingOf(AdminRoles, "TIMETABLE", "CONFIGURE", {}, {},
              {"updateTeachersWorkload"}),
         AskingOf(AdminRoles, "TIMETABLE", "READ", {}, {"staff"},
              {"teacherAvailabilities"}),
         Asking("TIMETABLE", "READ", {}, {}, {"myAvailabilities"}),
         Asking("TIMETABLE", "UPDATE", {}, {}, {"submitMyAvailability"}),
         AskingOf(AdminRoles, "TIMETABLE", "UPDATE", {"staff"}, {},
              {"adminSetTeacherAvailability"}),
         AskingOf(AdminRoles, "TIMETABLE", "UPDATE", {}, {},
              {"reviewTeacherAvailability"}),
         AskingOf(AdminRoles \cup Teachers, "TIMETABLE", "READ", {"term"},
              {"class", "staff"},
              {"timetableEntries"})}

TimetableDEndpoints ==
  UNION {AskingOf(AdminRoles, "TIMETABLE", "CREATE",
              {"class", "subject", "term"}, {"staff"},
              {"createTimetableEntry"}),
         AskingOf(AdminRoles, "TIMETABLE", "UPDATE", {}, {"staff", "subject"},
              {"updateTimetableEntry"}),
         AskingOf(AdminRoles, "TIMETABLE", "DELETE", {}, {},
              {"deleteTimetableEntry"}),
         AskingOf(AdminRoles, "TIMETABLE", "CONFIGURE", {"term"}, {"class"},
              {"copyDayLayout"}),
         AskingOf(AdminRoles, "TIMETABLE", "CONFIGURE", {"term"}, {},
              {"cloneClassTimetable"}),
         Asking("TIMETABLE", "READ", {}, {"term"},
              {"myTimetable", "myChildrenTimetables"}),
         Asking("TIMETABLE", "READ", {"student"}, {"term"}, {"childTimetable"}),
         AskingOf(AdminRoles \cup Teachers, "TIMETABLE", "READ", {"term"}, {"target"},
              {"exportTimetablePdf"})}

UploadEndpoints ==
  UNION {Asking("STUDENTS", "CREATE", {}, {}, {"singleUpload"})}

UsersAEndpoints ==
  UNION {ForRoles(Everyone, {"me"}),
         Asking("USERS", "READ", {}, {},
              {"user", "schoolUsers", "schoolTeachers"}),
         Asking("USERS", "CREATE", {}, {}, {"createUser"}),
         Asking("USERS", "UPDATE", {}, {}, {"assignUserToSchool"}),
         Asking("USERS", "UPDATE", {}, {}, {"updateUser"})}

UsersBEndpoints ==
  UNION {ForRoles(Everyone, {"updateMyAdminThemePreference", "changePassword"}),
         Asking("USERS", "UPDATE", {}, {},
              {"adminResetPassword", "deactivateUser", "activateUser"}),
         ForRoles({"SUPER_ADMIN"}, {"adminResetSchoolPassword"}),
         Asking("USERS", "CREATE", {}, {}, {"uploadAvatar"}),
         Asking("USERS", "CREATE", {}, {}, {"uploadUserAvatar"})}

Endpoints ==
  UNION {AccessAEndpoints, AccessBEndpoints, AppEndpoints,
         AttendanceAEndpoints, AttendanceBEndpoints, AuthEndpoints,
         ClassesAEndpoints, ClassesBEndpoints, CommunicationEndpoints,
         DashboardEndpoints, ExpenseBudgetsEndpoints,
         ExpenseRecurringEndpoints, ExpenseReportsEndpoints,
         ExpenseRequestsEndpoints, ExpenseVendorsEndpoints,
         ExpensesAEndpoints, ExpensesBEndpoints, PettyCashEndpoints,
         FeesAEndpoints, FeesBEndpoints, FeesCEndpoints, FeesDEndpoints,
         IdCardsAEndpoints, IdCardsBEndpoints, MarketingEndpoints,
         PdfEndpoints, ResultsAEndpoints, ResultsBEndpoints,
         ResultsCEndpoints, SchoolsAEndpoints, SchoolsBEndpoints,
         StudentsAEndpoints, StudentsBEndpoints, SubjectsEndpoints,
         TermsEndpoints, TimetableAEndpoints, TimetableBEndpoints,
         TimetableCEndpoints, TimetableDEndpoints, UploadEndpoints,
         UsersAEndpoints, UsersBEndpoints}

(***************************************************************************)
(* Roles that the body of a resolver still turns away.                     *)
(***************************************************************************)
CanAssignClassTeacher == AdminRoles
CanManageClassSubjects == Everyone \ {"SUBJECT_TEACHER", "PARENT"}

Admitted(name) ==
  CASE name = "assignClassTeacher" -> CanAssignClassTeacher
    [] name \in {"assignSubjectsToClass", "assignSubjectTeacher"} -> CanManageClassSubjects
    [] name \in {"activeStaffQrCode", "createUser"} -> AdminRoles
    [] name = "dashboardIncomeAnalytics" -> Everyone \ {"PARENT"}
    [] name = "dashboardAttendanceAnalytics" -> Everyone \ Restricted
    [] OTHER -> Everyone

(***************************************************************************)
(* The rows seeded for a new school: getDefaultRolePermissions.  Actions    *)
(* other than these four have no column, and no role has them by default.  *)
(***************************************************************************)
Readable ==
  [r \in Everyone |->
     CASE r \in Teachers ->
            {"STUDENTS", "RESULTS", "ATTENDANCE", "CLASSES", "SUBJECTS",
             "TIMETABLE", "COMMUNICATION"}
       [] r = "PARENT" ->
            {"STUDENTS", "RESULTS", "ATTENDANCE", "CLASSES", "SUBJECTS",
             "TIMETABLE", "FEES", "COMMUNICATION"}
       [] OTHER -> {}]
Writable ==
  [r \in Everyone |->
     CASE r = "CLASS_TEACHER" ->
            [CREATE |-> {"RESULTS", "ATTENDANCE", "STUDENTS"},
             UPDATE |-> {"RESULTS", "ATTENDANCE", "STUDENTS", "CLASSES"}]
       [] r = "SUBJECT_TEACHER" ->
            [CREATE |-> {"RESULTS", "ATTENDANCE"}, UPDATE |-> {"RESULTS", "ATTENDANCE"}]
       [] OTHER -> [CREATE |-> {}, UPDATE |-> {}]]

DefaultRolePermissions(role, p) ==
  /\ p.action \in {"CREATE", "READ", "UPDATE", "DELETE"}
  /\ \/ role \in Administrators
     \/ role \in Leadership /\ p.resource \notin {"SETTINGS", "ACCESS"}
     \/ role = "BURSAR" /\ p.resource \in {"FEES", "EXPENSES"}
     \/ p.action = "READ" /\ p.resource \in Readable[role]
     \/ p.action \in {"CREATE", "UPDATE"} /\ p.resource \in Writable[role][p.action]

=============================================================================
