---------------------------- MODULE ResultSheets ----------------------------
(***************************************************************************)
(* One result sheet of a class and term, from its creation to publication, *)
(* in src/src/results/results.service.ts and utils/grading.util.ts.        *)
(*                                                                         *)
(* Only the creation is a transaction.  Every other call reads, checks and *)
(* writes in separate statements:                                          *)
(*                                                                         *)
(*   scores    saving -> [counting -> [advancing -> ranking -> ranked ->]] *)
(*             totalling -> totalled -> idle                               *)
(*   approve, publish     advancing -> ranking -> ranked -> idle           *)
(*   submit, return       advancing -> idle                                *)
(*   remark, archive      writing -> idle                                  *)
(*                                                                         *)
(* Reads that one call starts together are one step, and so is one         *)
(* Repository.save: it writes the whole object it is given, stale columns  *)
(* included.  Two calls that enter the same student for the first time     *)
(* find one row, not two.                                                  *)
(***************************************************************************)
EXTENDS Integers, FiniteSets, Functions

CONSTANTS Pupils, Subjects,
          Tasks,        \* slots in which calls run concurrently
          Scores,       \* scores that are entered for a student and subject; Unset
                        \* for a student without any component
          MaxScore      \* totalMaxScore: what the components of a subject add up to

Unset == -1

ASSUME SheetAssumption ==
  /\ MaxScore \in Nat \ {0} /\ Scores \subseteq {Unset} \cup 0..MaxScore
  /\ IsFiniteSet(Pupils) /\ IsFiniteSet(Subjects)

VARIABLES
  sheetStatus, \* result_sheets.status, or "ABSENT"
  score,       \* score[st][sub]: subject_scores row, or NoRow
  result,      \* result[st]: student_results row, or NoRow
  sound,       \* history: the totals were last written by a call that ran alone
               \* and to its end
  lone,        \* history: the calls that run without having met another
  task         \* task[k]: place and memory of the call in slot k

sheetVars == <<sheetStatus, score, result, sound, lone, task>>
tables == <<sheetStatus, score, result>>
history == <<sound, lone>>

Statuses == {"DRAFT", "SCORES_ENTERED", "PENDING_ADMIN_REVIEW",
             "PENDING_PRINCIPAL_APPROVAL", "RETURNED", "PUBLISHED"}
NoRow == [none |-> TRUE]
ScoreRow  == [total : {Unset} \cup 0..MaxScore, submitted : BOOLEAN]
ResultRow == [total : {Unset} \cup Nat, position : {Unset} \cup Nat]
NoTask == [pc |-> "idle"]

Given == UNION {[group -> Scores] : group \in (SUBSET Pupils) \ {{}}}
Rows  == [Pupils -> ResultRow \cup {NoRow}]

(* What a call has in memory when it comes to each of its statements.      *)
Task ==
  {NoTask}
    \cup [pc : {"saving"}, subject : Subjects, given : Given, submit : BOOLEAN,
          done : SUBSET Pupils]
    \cup [pc : {"counting", "totalling"}]
    \cup [pc : {"advancing", "ranking"}, to : Statuses, rank : BOOLEAN, last : BOOLEAN]
    \cup [pc : {"ranked"}, last : BOOLEAN, rows : Rows]
    \cup [pc : {"totalled"}, rows : Rows]
    \cup [pc : {"writing"}, what : {"score"}, pupil : Pupils, subject : Subjects,
          row : ScoreRow]
    \cup [pc : {"writing"}, what : {"result"}, pupil : Pupils, row : ResultRow]
    \cup [pc : {"writing"}, what : {"status"}, status : Statuses]

SheetTypeOK ==
  /\ sheetStatus \in Statuses \cup {"ABSENT"}
  /\ score \in [Pupils -> [Subjects -> ScoreRow \cup {NoRow}]]
  /\ result \in [Pupils -> ResultRow \cup {NoRow}]
  /\ \A st \in Pupils : result[st] = NoRow => \A sub \in Subjects : score[st][sub] = NoRow
  /\ sound \in BOOLEAN /\ lone \subseteq Tasks
  /\ task \in [Tasks -> Task]

SheetInit ==
  /\ sheetStatus = "ABSENT"
  /\ score = [st \in Pupils |-> [sub \in Subjects |-> NoRow]]
  /\ result = [st \in Pupils |-> NoRow]
  /\ sound = TRUE /\ lone = {}
  /\ task = [k \in Tasks |-> NoTask]

-----------------------------------------------------------------------------
(* Totals, percentages, grades and positions.                              *)

OnSheet == {st \in Pupils : result[st] # NoRow}
SubjectsOf(st) == {sub \in Subjects : score[st][sub] # NoRow}
Points(row) == IF row.total = Unset THEN 0 ELSE row.total    \* totalScore || 0

TotalOf(points) == FoldFunction(+, 0, points)
SubjectTotal(st) == TotalOf([sub \in SubjectsOf(st) |-> Points(score[st][sub])])

(* The most st could have: subjectScores.length || 1 subjects. *)
Obtainable(st) ==
  MaxScore * (IF SubjectsOf(st) = {} THEN 1 ELSE Cardinality(SubjectsOf(st)))

(* computeStudentPercentage, in hundredths of a percent: toFixed(2). *)
Percentage(st) == (20000 * SubjectTotal(st) + Obtainable(st)) \div (2 * Obtainable(st))

(* calculateGrade, WAEC: 1 is A1 and 9 is F9. *)
WAECBounds == <<75, 70, 65, 60, 55, 50, 45, 40>>
Grade(points, max) ==
  1 + Cardinality({i \in DOMAIN WAECBounds : 100 * points < WAECBounds[i] * max})

(* The students of a sheet, the best first; equal ones in any order. *)
Ranked ==
  CHOOSE order \in [1 .. Cardinality(OnSheet) -> OnSheet] :
    /\ \A st \in OnSheet : \E i \in DOMAIN order : order[i] = st
    /\ \A i, j \in DOMAIN order : i < j => Percentage(order[i]) >= Percentage(order[j])

(* The i-th shares the position of the one before if their percentages are *)
(* equal, and has position i otherwise.                                    *)
Positions ==
  LET pos[i \in DOMAIN Ranked] ==
        IF i > 1 /\ Percentage(Ranked[i]) = Percentage(Ranked[i - 1])
        THEN pos[i - 1] ELSE i
  IN  [st \in OnSheet |-> pos[CHOOSE i \in DOMAIN Ranked : Ranked[i] = st]]

-----------------------------------------------------------------------------
(* createResultSheet: a row per student of the class, and per subject.     *)
CreateResultSheet(class) ==
  /\ sheetStatus = "ABSENT"
  /\ sheetStatus' = "DRAFT"
  /\ result' = [st \in Pupils |->
        IF st \in class THEN [total |-> Unset, position |-> Unset] ELSE NoRow]
  /\ score' = [st \in Pupils |-> [sub \in Subjects |->
        IF st \in class THEN [total |-> Unset, submitted |-> FALSE] ELSE NoRow]]
  /\ UNCHANGED <<history, task>>

-----------------------------------------------------------------------------
Begin(k, next) ==
  /\ task[k] = NoTask
  /\ task' = [task EXCEPT ![k] = next]
  /\ IF \A other \in Tasks : task[other] = NoTask
     THEN lone' = {k} /\ UNCHANGED sound
     ELSE lone' = {} /\ sound' = FALSE
  /\ UNCHANGED tables

GoTo(k, next) == task' = [task EXCEPT ![k] = next] /\ UNCHANGED lone
End(k) == task' = [task EXCEPT ![k] = NoTask] /\ lone' = lone \ {k}

(* assertSheetIsEditable, for a sheet that exists. *)
Editable == sheetStatus \notin {"ABSENT", "PUBLISHED"}

(* validateSubmitPayload counts students; it does not compare them with    *)
(* those of the sheet.                                                     *)
Complete(given) ==
  Cardinality({st \in DOMAIN given : given[st] # Unset}) >= Cardinality(OnSheet)

(* saveSubjectScores, saveAdminScores: given[st] = Unset is a student    *)
(* without component scores.                                               *)
SaveScores(k, sub, given, submit) ==
  /\ Editable
  /\ submit => Complete(given)
  /\ Begin(k, [pc |-> "saving", subject |-> sub, given |-> given, submit |-> submit,
               done |-> {st \in DOMAIN given :
                           score[st][sub] # NoRow /\ score[st][sub].submitted}])

(* A student who joined the class later gets a row. *)
WithoutRow(st) == result
WithRow(st) == IF result[st] # NoRow THEN result
               ELSE [result EXCEPT ![st] = [total |-> Unset, position |-> Unset]]

SaveScore(k, st) ==
  LET c == task[k]
      rest == [s \in DOMAIN c.given \ {st} |-> c.given[s]]
  IN  /\ c.pc = "saving" /\ st \in DOMAIN c.given
      /\ score' = [score EXCEPT ![st][c.subject] =
           [total |-> IF c.given[st] = Unset THEN 0 ELSE c.given[st],
            submitted |-> c.submit \/ st \in c.done]]
      /\ result' = WithRow(st)
      /\ task' = [task EXCEPT ![k] =
           IF DOMAIN rest # {} THEN [c EXCEPT !.given = rest]
           ELSE IF c.submit THEN [pc |-> "counting"] ELSE [pc |-> "totalling"]]
      /\ UNCHANGED <<sheetStatus, history>>

(* checkAndAdvanceStatus. *)
CountSubmitted(k) ==
  /\ task[k].pc = "counting"
  /\ task' = [task EXCEPT ![k] =
       IF /\ \A st \in Pupils : \A sub \in SubjectsOf(st) : score[st][sub].submitted
          /\ sheetStatus \in {"DRAFT", "RETURNED"}
       THEN [pc |-> "advancing", to |-> "SCORES_ENTERED", rank |-> TRUE, last |-> FALSE]
       ELSE [pc |-> "totalling"]]
  /\ UNCHANGED <<tables, history>>

-----------------------------------------------------------------------------
(* The decisions: a check of the status that was read, and an update of    *)
(* the status alone.                                                       *)

DecideOnSheet(k, to, rank) ==
  Begin(k, [pc |-> "advancing", to |-> to, rank |-> rank, last |-> TRUE])

SubmitForAdminReview(k)       == Editable /\ DecideOnSheet(k, "PENDING_ADMIN_REVIEW", FALSE)
SubmitForPrincipalApproval(k) == Editable /\ DecideOnSheet(k, "PENDING_PRINCIPAL_APPROVAL", FALSE)
ReturnResult(k)               == Editable /\ DecideOnSheet(k, "RETURNED", FALSE)
ApproveResultUnranked(k)      == Editable /\ DecideOnSheet(k, "PUBLISHED", FALSE)
ApproveResult(k)              == Editable /\ DecideOnSheet(k, "PUBLISHED", TRUE)
PublishResultSheet(k) == sheetStatus = "SCORES_ENTERED" /\ DecideOnSheet(k, "PUBLISHED", TRUE)

UpdateStatus(k) ==
  /\ task[k].pc = "advancing"
  /\ sheetStatus' = task[k].to
  /\ IF task[k].rank THEN GoTo(k, [task[k] EXCEPT !.pc = "ranking"]) ELSE End(k)
  /\ UNCHANGED <<score, result, sound>>

-----------------------------------------------------------------------------
(* calculatePositions and recalculateStudentTotals: the student_results    *)
(* are read with their scores, and saved together.                         *)

ReadForRankingUntotalled(k) ==
  /\ task[k].pc = "ranking"
  /\ task' = [task EXCEPT ![k] = [pc |-> "ranked", last |-> task[k].last,
       rows |-> [st \in Pupils |-> IF st \notin OnSheet THEN NoRow ELSE
                   [result[st] EXCEPT !.position = Positions[st]]]]]
  /\ UNCHANGED <<tables, history>>
ReadForRanking(k) ==
  /\ task[k].pc = "ranking"
  /\ task' = [task EXCEPT ![k] = [pc |-> "ranked", last |-> task[k].last,
       rows |-> [st \in Pupils |-> IF st \notin OnSheet THEN NoRow ELSE
                   [total |-> SubjectTotal(st), position |-> Positions[st]]]]]
  /\ UNCHANGED <<tables, history>>

ReadForTotals(k) ==
  /\ task[k].pc = "totalling"
  /\ task' = [task EXCEPT ![k] = [pc |-> "totalled",
       rows |-> [st \in Pupils |-> IF st \notin OnSheet THEN NoRow ELSE
                   [result[st] EXCEPT !.total = SubjectTotal(st)]]]]
  /\ UNCHANGED <<tables, history>>

SaveRows(k) ==
  /\ result' = [st \in Pupils |->
        IF task[k].rows[st] # NoRow THEN task[k].rows[st] ELSE result[st]]
  /\ sound' = (sound \/ k \in lone)
  /\ UNCHANGED <<sheetStatus, score>>

SavePositions(k) ==
  /\ task[k].pc = "ranked"
  /\ SaveRows(k)
  /\ IF task[k].last THEN End(k) ELSE GoTo(k, [pc |-> "totalling"])

SaveTotals(k) == task[k].pc = "totalled" /\ SaveRows(k) /\ End(k)

-----------------------------------------------------------------------------
(* Remarks and archiving save the object they read.  The remark itself is  *)
(* left out; what matters is what else is written.                         *)

SaveTeacherRemark(k, st, sub) ==
  /\ Editable /\ score[st][sub] # NoRow
  /\ Begin(k, [pc |-> "writing", what |-> "score", pupil |-> st, subject |-> sub,
               row |-> score[st][sub]])

(* savePrincipalRemark, saveClassTeacherRemark *)
SaveResultRemark(k, st) ==
  /\ Editable /\ result[st] # NoRow
  /\ Begin(k, [pc |-> "writing", what |-> "result", pupil |-> st, row |-> result[st]])

(* archiveResultSheet, unarchiveResultSheet; isArchived itself is left out.*)
ArchiveResultSheet(k) ==
  /\ sheetStatus # "ABSENT"
  /\ Begin(k, [pc |-> "writing", what |-> "status", status |-> sheetStatus])

WriteBack(k) ==
  LET c == task[k]
  IN  /\ c.pc = "writing"
      /\ \/ /\ c.what = "score"
            /\ score' = [score EXCEPT ![c.pupil][c.subject] = c.row]
            /\ UNCHANGED <<sheetStatus, result>>
         \/ /\ c.what = "result"
            /\ result' = [result EXCEPT ![c.pupil] = c.row]
            /\ UNCHANGED <<sheetStatus, score>>
         \/ /\ c.what = "status"
            /\ sheetStatus' = c.status
            /\ UNCHANGED <<score, result>>
      /\ End(k)
      /\ UNCHANGED sound

(* The call is cut off between two statements; what it wrote stays. *)
CutShort(k) ==
  /\ task[k] # NoTask
  /\ End(k)
  /\ sound' = FALSE
  /\ UNCHANGED tables

-----------------------------------------------------------------------------
SheetNext ==
  \/ \E class \in SUBSET Pupils : CreateResultSheet(class)
  \/ \E k \in Tasks :
       \/ \E sub \in Subjects, given \in Given, submit \in BOOLEAN :
            SaveScores(k, sub, given, submit)
       \/ SubmitForAdminReview(k) \/ SubmitForPrincipalApproval(k) \/ ReturnResult(k)
       \/ ApproveResult(k) \/ PublishResultSheet(k)
       \/ \E st \in Pupils :
            \/ SaveScore(k, st) \/ SaveResultRemark(k, st)
            \/ \E sub \in Subjects : SaveTeacherRemark(k, st, sub)
       \/ ArchiveResultSheet(k)
       \/ CountSubmitted(k) \/ UpdateStatus(k)
       \/ ReadForRanking(k) \/ SavePositions(k) \/ ReadForTotals(k) \/ SaveTotals(k)
       \/ WriteBack(k) \/ CutShort(k)

SheetSpec == SheetInit /\ [][SheetNext]_sheetVars

-----------------------------------------------------------------------------
(* Correctness.                                                            *)

Idling == \A k \in Tasks : task[k] = NoTask

(* Whatever overlapped or failed before, one call that runs alone and to   *)
(* its end repairs the totals: each is the sum of the scores on the sheet, *)
(* and stays so until calls overlap or fail again.                         *)
SoundTotalsAddUp ==
  Idling /\ sound => \A st \in OnSheet : Points(result[st]) = SubjectTotal(st)

(* A sheet that was then published ranks its students as a competition     *)
(* does: one more than the number of students with a higher percentage.    *)
RankedByPercentage ==
  Idling /\ sound /\ sheetStatus = "PUBLISHED" =>
    \A st \in OnSheet :
      result[st].position =
        1 + Cardinality({o \in OnSheet : Percentage(o) > Percentage(st)})

(* No student is placed before one with a better grade: the percentages    *)
(* that rank are rounded, those that grade are not.                        *)
GradesFollowRanking ==
  Idling /\ sound /\ sheetStatus = "PUBLISHED" =>
    \A a, b \in OnSheet :
      result[a].position < result[b].position =>
        Grade(result[a].total, Obtainable(a)) <= Grade(result[b].total, Obtainable(b))

(* Both at once: what parents see as position and grade fits together.     *)
PublishedRanking == RankedByPercentage /\ GradesFollowRanking
=============================================================================
