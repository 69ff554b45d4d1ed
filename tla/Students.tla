------------------------------ MODULE Students ------------------------------
(***************************************************************************)
(* Students of one school, their admission numbers and the accounts of     *)
(* their guardians, in src/src/students/students.service.ts.               *)
(*                                                                         *)
(* createStudent and bulkImportStudents are transactions that hold the     *)
(* advisory lock of the school and year from their first statement on;     *)
(* what they insert is seen by others when they commit.  Every other       *)
(* operation is a series of statements on its own.  A call is              *)
(*                                                                         *)
(*   take numbers -> [find parent -> [make parent] -> find link ->         *)
(*                    add link]* -> commit -> [mail]              or       *)
(*   update row -> read links -> [unlink -> count -> [delete parent]]* ->  *)
(*                 [find parent -> ... -> add link]* -> [mail]             *)
(*                                                                         *)
(* or one statement (add link, remove link, move).  It ends early when     *)
(* PostgreSQL refuses a statement: the unique keys on the e-mail of users  *)
(* and on (student, parent), and the foreign keys of the links.            *)
(***************************************************************************)
EXTENDS Naturals, FiniteSets, Sequences, Functions

CONSTANTS
  Calls,          \* slots in which calls run concurrently
  Pupils,         \* students that may be entered
  Classes, NoClass,
  Emails,
  EntryClasses,   \* classes that take new students
  GuardianLists,  \* lists of guardians' e-mails a caller may give
  NoList,         \* that none is given
  Edits,          \* <<class, list>>: what a caller may change
  FirstUsers,     \* accounts that are there already, by id
  Kept,           \* those of them to which other tables refer
  MaxUsers, MaxLinks, \* bounds: ids of users and links
  MaxCalls        \* bound: calls begun

UserIds == 1 .. MaxUsers

(* here: of this school. *)
User == [email : Emails, role : {"PARENT", "STAFF"}, here : BOOLEAN]
NoUser == [role |-> "NONE"]
Student == [class : Classes, archived : BOOLEAN, number : Nat]
NoStudent == [archived |-> FALSE]
Link == [id : Nat, pupil : Pupils, parent : UserIds]

ASSUME StudentsAssumption ==
  /\ GuardianLists \subseteq Seq(Emails)
  /\ FirstUsers \in Seq(User) /\ Len(FirstUsers) <= MaxUsers
  /\ \A i, j \in DOMAIN FirstUsers : FirstUsers[i].email = FirstUsers[j].email => i = j
  /\ MaxUsers \in Nat /\ MaxLinks \in Nat /\ MaxCalls \in Nat
  /\ EntryClasses \subseteq Classes
  /\ Edits \subseteq (Classes \cup {NoClass}) \X (GuardianLists \cup {NoList})
  /\ NoClass \notin Classes /\ NoList \notin GuardianLists
  /\ IsFiniteSet(Pupils)

VARIABLES
  student,       \* student[s]: the students row, or NoStudent
  lastSequence,  \* admission_sequences.lastSequence; 0 also for no row
  user,          \* user[i]: the users row, or NoUser
  lastUser,
  links,         \* student_parents rows
  lastLink,
  call,          \* call[k]: what the call in slot k knows and does next
  begun,         \* calls begun
  \* history
  mailed,        \* accounts to which a setup mail with a reset token was sent
  made,          \* accounts committed by the calls of this module
  intended,      \* intended[s]: guardians given by the calls on s that finished
  disturbed,     \* disturbed[s]: calls on s overlapped, failed or were cut off
  released       \* accounts from which unlinkParent took a child

tables == <<student, lastSequence, user, lastUser, links, lastLink>>
history == <<mailed, made, intended, disturbed, released>>
vars == <<tables, call, begun, history>>

Present(s) == student[s] # NoStudent

(* list: the guardians given; todo: those still to be linked.  start: the  *)
(* first number of a transaction, which holds the lock, else 0.  fresh:    *)
(* accounts the call inserted.                                             *)
Idle == [pc |-> "idle", op |-> "none", pupils |-> {}, class |-> NoClass, from |-> NoClass,
         list |-> <<>>, todo |-> <<>>, drop |-> {}, parent |-> 0, found |-> NoUser,
         start |-> 0, fresh |-> {}]

Busy(k) == call[k].pc # "idle"
At(k, pc) == call[k].pc = pc
Holds(k) == call[k].start # 0
On(s) == {k \in Calls : s \in call[k].pupils}

Begins(k, first) ==
  /\ ~Busy(k) /\ begun < MaxCalls /\ begun' = begun + 1
  /\ call' = [call EXCEPT ![k] = first]
  /\ disturbed' = [s \in Pupils |-> disturbed[s] \/ (s \in first.pupils /\ On(s) # {})]
  /\ UNCHANGED <<tables, mailed, made, intended, released>>

Goes(k, next) == call' = [call EXCEPT ![k] = next] /\ UNCHANGED begun
Ends(k) == Goes(k, Idle)

(* A statement is refused, or the call is cut off by an error or a restart;*)
(* a transaction is rolled back.                                           *)
Fails(k) ==
  /\ Ends(k)
  /\ IF Holds(k)
       THEN /\ user' = [i \in UserIds |-> IF i \in call[k].fresh THEN NoUser ELSE user[i]]
            /\ links' = {l \in links : l.pupil \notin call[k].pupils}
       ELSE UNCHANGED <<user, links>>
  /\ disturbed' = [s \in Pupils |-> disturbed[s] \/ (s \in call[k].pupils /\ Present(s))]
  /\ UNCHANGED <<student, lastSequence, lastUser, lastLink, mailed, made, intended, released>>
CutOff(k) == Busy(k) /\ Fails(k)

Pupil(k) == CHOOSE s \in call[k].pupils : TRUE
InList(list) == {list[n] : n \in DOMAIN list}
EmailsOf(s) == {user[l.parent].email : l \in {x \in links : x.pupil = s}}

(* The accounts a statement of call k sees: what a transaction under way   *)
(* has inserted only it sees, and the links of a student only when he is.  *)
UsersSeen(k) == {i \in UserIds : user[i] # NoUser}
                  \ UNION {call[j].fresh : j \in {j \in Calls \ {k} : Holds(j)}}
Children(p) == {l.pupil : l \in {x \in links : x.parent = p /\ Present(x.pupil)}}
Awaited(p) == \E l \in links : l.parent = p /\ ~Present(l.pupil)

-----------------------------------------------------------------------------
(* createStudent and bulkImportStudents.                                   *)

CreateStudent(k, s, c, list) ==
  /\ ~Present(s) /\ On(s) = {}
  /\ Begins(k, [Idle EXCEPT !.op = "create", !.pc = "take numbers", !.pupils = {s},
                            !.class = c, !.list = list, !.todo = list])

(* Guardians given with the rows of a file are not read. *)
BulkImportStudents(k, S, c) ==
  /\ S # {} /\ \A s \in S : ~Present(s) /\ On(s) = {}
  /\ Begins(k, [Idle EXCEPT !.op = "create", !.pc = "take numbers", !.pupils = S,
                            !.class = c])

(* Where a call goes when guardians are still to be linked, or none is. *)
Onward(k, todo, fresh) ==
  IF todo # <<>> THEN "find parent"
  ELSE IF call[k].op = "create" THEN "commit"
  ELSE IF fresh # {} THEN "mail" ELSE "finish"

(* getNextAdmissionSequence: the lock, then the counter. *)
TakeNumbersUnlocked(k) ==
  /\ At(k, "take numbers")
  /\ Goes(k, [call[k] EXCEPT !.start = lastSequence + 1, !.pc = Onward(k, call[k].todo, {})])
  /\ UNCHANGED <<tables, history>>
TakeNumbers(k) ==
  /\ At(k, "take numbers") /\ ~\E j \in Calls : Holds(j)
  /\ Goes(k, [call[k] EXCEPT !.start = lastSequence + 1, !.pc = Onward(k, call[k].todo, {})])
  /\ UNCHANGED <<tables, history>>

Commit(k) ==
  LET S == call[k].pupils
      last == call[k].start + Cardinality(S) - 1
  IN  /\ At(k, "commit")
      /\ \E new \in Bijection(S, call[k].start .. last) :
           student' = [s \in Pupils |->
             IF s \in S THEN [class |-> call[k].class, archived |-> FALSE, number |-> new[s]]
             ELSE student[s]]
      /\ lastSequence' = last
      /\ made' = made \cup call[k].fresh
      /\ intended' = [s \in Pupils |-> IF s \in S THEN InList(call[k].list) ELSE intended[s]]
      /\ IF call[k].fresh = {} THEN Ends(k)
         ELSE Goes(k, [call[k] EXCEPT !.pc = "mail", !.start = 0])
      /\ UNCHANGED <<user, lastUser, links, lastLink, mailed, disturbed, released>>

(* sendParentAccessSetupEmails; what becomes of the mails is not awaited. *)
SendMails(k) ==
  /\ At(k, "mail")
  /\ mailed' = mailed \cup call[k].fresh
  /\ IF call[k].op = "create" THEN Ends(k) ELSE Goes(k, [call[k] EXCEPT !.pc = "finish"])
  /\ UNCHANGED <<tables, made, intended, disturbed, released>>

-----------------------------------------------------------------------------
(* The guardians of createStudent and updateStudent, one after the other.  *)

Email(k) == Head(call[k].todo)
Matches(k) == {i \in UsersSeen(k) : user[i].here /\ user[i].email = Email(k)}

(* No account is created below; an updateStudent with another phone number *)
(* saves the account it finds. *)
FindParent(k) ==
  /\ At(k, "find parent")
  /\ IF Matches(k) = {}
       THEN Goes(k, [call[k] EXCEPT !.pc = "make parent"])
       ELSE \E i \in Matches(k), pc \in {"find link", "save phone"} :
              /\ pc = "save phone" => call[k].op = "update"
              /\ Goes(k, [call[k] EXCEPT !.pc = pc, !.parent = i, !.found = user[i]])
  /\ UNCHANGED <<tables, history>>

(* The e-mail is unique among all schools; an insert waits for that of a   *)
(* transaction under way. *)
EmailTaken(k, email) == \E i \in UsersSeen(k) : user[i].email = email
EmailAwaited(k, email) ==
  \E i \in UserIds \ UsersSeen(k) : user[i] # NoUser /\ user[i].email = email

MakeParent(k) ==
  LET i == lastUser + 1
  IN  /\ At(k, "make parent") /\ ~EmailAwaited(k, Email(k))
      /\ IF EmailTaken(k, Email(k)) THEN Fails(k)
         ELSE /\ i <= MaxUsers
              /\ user' = [user EXCEPT ![i] =
                            [email |-> Email(k), role |-> "PARENT", here |-> TRUE]]
              /\ lastUser' = i
              /\ made' = IF Holds(k) THEN made ELSE made \cup {i}
              /\ Goes(k, [call[k] EXCEPT !.pc = "find link", !.parent = i,
                                         !.fresh = call[k].fresh \cup {i}])
              /\ UNCHANGED <<student, lastSequence, links, lastLink, mailed, intended,
                             disturbed, released>>

(* Repository.save of the account found: it is inserted again, under its   *)
(* id, if it was deleted meanwhile.                                        *)
SavePhone(k) ==
  LET i == call[k].parent
  IN  /\ At(k, "save phone") /\ ~EmailAwaited(k, Email(k))
      /\ IF user[i] = NoUser /\ EmailTaken(k, Email(k)) THEN Fails(k)
         ELSE /\ user' = [user EXCEPT ![i] = call[k].found]
              /\ Goes(k, [call[k] EXCEPT !.pc = "find link"])
              /\ UNCHANGED <<student, lastSequence, lastUser, links, lastLink, history>>

LinkedAnyone(s, p) == \E l \in links : l.parent = p
Linked(s, p) == \E l \in links : l.pupil = s /\ l.parent = p

FindLink(k) ==
  LET todo == Tail(call[k].todo)
  IN  /\ At(k, "find link")
      /\ IF Linked(Pupil(k), call[k].parent)
           THEN Goes(k, [call[k] EXCEPT !.todo = todo, !.pc = Onward(k, todo, call[k].fresh)])
           ELSE Goes(k, [call[k] EXCEPT !.pc = "add link"])
      /\ UNCHANGED <<tables, history>>

(* Unique (student, parent), and the account must still be there. *)
AddLink(k) ==
  LET s == Pupil(k)
      p == call[k].parent
      todo == IF call[k].todo = <<>> THEN <<>> ELSE Tail(call[k].todo)
  IN  /\ At(k, "add link")
      /\ IF Linked(s, p) \/ user[p] = NoUser THEN Fails(k)
         ELSE /\ lastLink < MaxLinks
              /\ lastLink' = lastLink + 1
              /\ links' = links \cup {[id |-> lastLink + 1, pupil |-> s, parent |-> p]}
              /\ Goes(k, [call[k] EXCEPT !.todo = todo, !.pc = Onward(k, todo, call[k].fresh)])
              /\ UNCHANGED <<student, lastSequence, user, lastUser, history>>

-----------------------------------------------------------------------------
(* updateStudent.                                                          *)

(* class = NoClass: it is not given.  list = NoList: guardians are not.    *)
UpdateStudent(k, s, c, list) ==
  /\ Present(s)
  /\ Begins(k, [Idle EXCEPT !.op = IF list = NoList THEN "edit" ELSE "update",
                            !.pc = "update row", !.pupils = {s}, !.class = c,
                            !.list = IF list = NoList THEN <<>> ELSE list,
                            !.todo = IF list = NoList THEN <<>> ELSE list])

UpdateRow(k) ==
  LET s == Pupil(k)
  IN  /\ At(k, "update row")
      /\ student' = IF call[k].class = NoClass THEN student
                    ELSE [student EXCEPT ![s].class = call[k].class]
      /\ Goes(k, [call[k] EXCEPT !.pc = IF call[k].op = "edit" THEN "finish"
                                        ELSE "read links"])
      /\ UNCHANGED <<lastSequence, user, lastUser, links, lastLink, history>>

(* Links to guardians that are not given any more are to go. *)
ReadLinks(k) ==
  LET drop == {l \in links : l.pupil = Pupil(k)
                             /\ user[l.parent].email \notin InList(call[k].list)}
  IN  /\ At(k, "read links")
      /\ Goes(k, [call[k] EXCEPT !.drop = drop, !.pc =
                    IF drop # {} THEN "unlink" ELSE Onward(k, call[k].todo, {})])
      /\ UNCHANGED <<tables, history>>

AfterDrop(k, drop) == IF drop # {} THEN "unlink" ELSE Onward(k, call[k].todo, {})

UnlinkCountingLast(k) ==
  /\ At(k, "unlink")
  /\ \E l \in call[k].drop :
       LET drop == call[k].drop \ {l}
       IN  /\ links' = links \ {l}
           /\ Goes(k, [call[k] EXCEPT !.drop = drop, !.parent = l.parent,
                         !.pc = IF drop = {} THEN "count" ELSE "unlink"])
  /\ UNCHANGED <<student, lastSequence, user, lastUser, lastLink, history>>
Unlink(k) ==
  /\ At(k, "unlink")
  /\ \E l \in call[k].drop :
       /\ links' = links \ {l}
       /\ Goes(k, [call[k] EXCEPT !.drop = call[k].drop \ {l}, !.parent = l.parent,
                                  !.pc = "count"])
  /\ UNCHANGED <<student, lastSequence, user, lastUser, lastLink, history>>

CountChildren(k) ==
  /\ At(k, "count")
  /\ Goes(k, [call[k] EXCEPT !.pc = IF Children(call[k].parent) = {} THEN "delete parent"
                                    ELSE AfterDrop(k, call[k].drop)])
  /\ UNCHANGED <<tables, history>>

(* Whatever the role of the account; refused while another row refers to   *)
(* it, and waiting for the transaction of a link under way.                *)
DeleteParent(k) ==
  LET p == call[k].parent
  IN  /\ At(k, "delete parent") /\ ~Awaited(p)
      /\ IF Children(p) # {} \/ p \in Kept THEN Fails(k)
         ELSE /\ user' = [user EXCEPT ![p] = NoUser]
              /\ Goes(k, [call[k] EXCEPT !.pc = AfterDrop(k, call[k].drop)])
              /\ UNCHANGED <<student, lastSequence, lastUser, links, lastLink, history>>

-----------------------------------------------------------------------------
(* linkParent, unlinkParent and promoteStudents: a read and a statement.   *)

LinkParent(k, s, p) ==
  /\ Present(s) /\ p \in UsersSeen(k) /\ user[p].here /\ user[p].role = "PARENT"
  /\ Begins(k, [Idle EXCEPT !.op = "link", !.pc = "add link", !.pupils = {s}, !.parent = p,
                            !.found = user[p]])

UnlinkParent(k, l) ==
  /\ l \in links /\ Present(l.pupil)
  /\ Begins(k, [Idle EXCEPT !.op = "unlink", !.pc = "remove link", !.pupils = {l.pupil},
                            !.drop = {l}, !.parent = l.parent, !.found = user[l.parent]])

RemoveLink(k) ==
  /\ At(k, "remove link")
  /\ links' = links \ call[k].drop
  /\ released' = released \cup {call[k].parent}
  /\ Goes(k, [call[k] EXCEPT !.pc = "finish"])
  /\ UNCHANGED <<student, lastSequence, user, lastUser, lastLink, mailed, made, intended,
                 disturbed>>

(* What the call was for is done, and the student is read again. *)
Finish(k) ==
  LET s == Pupil(k)
      email == {call[k].found.email}
  IN  /\ At(k, "finish")
      /\ intended' = [intended EXCEPT ![s] =
           CASE call[k].op = "update" -> InList(call[k].list)
             [] call[k].op = "link"   -> intended[s] \cup email
             [] call[k].op = "unlink" -> intended[s] \ email
             [] OTHER -> intended[s]]
      /\ Ends(k)
      /\ UNCHANGED <<tables, mailed, made, disturbed, released>>

(* to = NoClass: the students graduate and are archived. *)
Movable(S, from) == {s \in S : Present(s) /\ student[s].class = from /\ ~student[s].archived}
PromoteStudents(k, S, from, to) ==
  /\ Movable(S, from) # {}
  /\ Begins(k, [Idle EXCEPT !.op = "promote", !.pc = "move", !.pupils = Movable(S, from),
                            !.class = to, !.from = from])

Move(k) ==
  LET to == call[k].class
  IN  /\ At(k, "move")
      /\ student' = [s \in Pupils |->
           IF s \notin call[k].pupils THEN student[s]
           ELSE IF to = NoClass THEN [student[s] EXCEPT !.archived = TRUE]
           ELSE [student[s] EXCEPT !.class = to]]
      /\ Ends(k)
      /\ UNCHANGED <<lastSequence, user, lastUser, links, lastLink, history>>

-----------------------------------------------------------------------------
Call ==
  [pc : {"idle", "take numbers", "find parent", "make parent", "save phone", "find link",
         "add link", "commit", "mail", "update row", "read links", "unlink", "count",
         "delete parent", "remove link", "move", "finish"},
   op : {"none", "create", "edit", "update", "link", "unlink", "promote"},
   pupils : SUBSET Pupils, class : Classes \cup {NoClass}, from : Classes \cup {NoClass},
   list : Seq(Emails), todo : Seq(Emails), drop : SUBSET Link, parent : UserIds \cup {0},
   found : User \cup {NoUser}, start : Nat, fresh : SUBSET UserIds]

TypeOK ==
  /\ student \in [Pupils -> Student \cup {NoStudent}]
  /\ lastSequence \in Nat
  /\ user \in [UserIds -> User \cup {NoUser}] /\ lastUser \in 0 .. MaxUsers
  /\ links \subseteq Link /\ \A l \in links : user[l.parent] # NoUser
  /\ lastLink \in 0 .. MaxLinks
  /\ call \in [Calls -> Call] /\ begun \in 0 .. MaxCalls
  /\ mailed \subseteq UserIds /\ made \subseteq UserIds /\ released \subseteq UserIds
  /\ intended \in [Pupils -> SUBSET Emails]
  /\ disturbed \in [Pupils -> BOOLEAN]

Init ==
  /\ student = [s \in Pupils |-> NoStudent] /\ lastSequence = 0
  /\ user = [i \in UserIds |-> IF i \in DOMAIN FirstUsers THEN FirstUsers[i] ELSE NoUser]
  /\ lastUser = Len(FirstUsers)
  /\ links = {} /\ lastLink = 0
  /\ call = [k \in Calls |-> Idle] /\ begun = 0
  /\ mailed = {} /\ made = {}
  /\ intended = [s \in Pupils |-> {}]
  /\ disturbed = [s \in Pupils |-> FALSE]
  /\ released = {}

Begin(k) ==
  \/ \E s \in Pupils, c \in EntryClasses, list \in GuardianLists : CreateStudent(k, s, c, list)
  \/ \E S \in SUBSET Pupils, c \in EntryClasses : BulkImportStudents(k, S, c)
  \/ \E s \in Pupils, e \in Edits : UpdateStudent(k, s, e[1], e[2])
  \/ \E s \in Pupils, p \in UserIds : LinkParent(k, s, p)
  \/ \E l \in links : UnlinkParent(k, l)
  \/ \E S \in SUBSET Pupils, c \in Classes, d \in Classes \cup {NoClass} :
       PromoteStudents(k, S, c, d)

(* The next statement of a call. *)
Step(k) ==
  \/ TakeNumbers(k) \/ Commit(k) \/ SendMails(k)
  \/ FindParent(k) \/ MakeParent(k) \/ SavePhone(k) \/ FindLink(k) \/ AddLink(k)
  \/ UpdateRow(k) \/ ReadLinks(k) \/ Unlink(k) \/ CountChildren(k) \/ DeleteParent(k)
  \/ RemoveLink(k) \/ Finish(k) \/ Move(k)

Next == \E k \in Calls : Begin(k) \/ Step(k) \/ CutOff(k)

Spec == Init /\ [][Next]_vars

-----------------------------------------------------------------------------
(* Correctness.                                                            *)

(* The numbers of the students are an admission book: given in order, none *)
(* twice and none left out, whatever transactions wait, fail or are undone.*)
Book == INSTANCE AdmissionBook
          WITH lastSequence <- lastSequence,
               number <- [s \in Pupils |-> IF Present(s) THEN student[s].number ELSE 0]
ImplementsBook == Book!BookSpec

(* A student whose calls neither overlapped nor failed has the guardians   *)
(* that were given for him, whatever was done meanwhile for children who   *)
(* share a guardian with him.                                              *)
GuardiansAsGiven ==
  \A s \in Pupils :
    Present(s) /\ On(s) = {} /\ ~disturbed[s] => EmailsOf(s) = intended[s]

(* 'Unlink & delete any parent whose email was removed': if every call has *)
(* gone through, though they overlapped for different children, no account *)
(* of a guardian is left without a child but by unlinkParent.              *)
NoChildlessParent ==
  (\A s \in Pupils : On(s) = {} /\ ~disturbed[s]) =>
    \A i \in UserIds \ DOMAIN FirstUsers :
      user[i] # NoUser /\ i \notin released => Children(i) # {}

(* Nobody is invited to an account whose transaction was undone. *)
InvitedToAccounts == mailed \subseteq made

(* The accounts of guardians come and go with the children.                *)
AccountsFollowChildren == NoChildlessParent /\ InvitedToAccounts
=============================================================================
