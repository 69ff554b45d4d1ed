------------------------------ MODULE Accounts ------------------------------
(***************************************************************************)
(* Accounts, their sessions and their schools, in                          *)
(* src/src/users/user-account-provisioning.service.ts, users.service.ts    *)
(* and user-password.service.ts, src/src/auth/auth.service.ts and          *)
(* src/src/schools/schools.service.ts.                                     *)
(*                                                                         *)
(* Every operation reads, checks, hashes or waits, and then updates the    *)
(* columns it is about; only registerSchool is a transaction.  A call here *)
(* is one step per statement that reads or writes users or schools; the    *)
(* first read is the step it begins with.                                  *)
(*                                                                         *)
(* UNIQUE stands behind e-mail and staffId.  Nothing stands behind one     *)
(* leader per school: the index of migration 1774709361454 is dropped by   *)
(* migration 1777967803857.                                                *)
(***************************************************************************)
EXTENDS Naturals, FiniteSets, FiniteSetsExt

CONSTANTS
  Calls,        \* slots in which calls run concurrently
  Emails, Schools, NoSchool, Prefixes,
  Prefix,       \* Prefix[s]: the letters of a school's name that begin its numbers
  Leaders,      \* roles a school has once: singleLeadershipRoles
  Hires,        \* [email, role, school]: accounts a caller may ask for
  NewRoles,     \* roles an account may be given later
  FirstUsers,   \* accounts and schools that are there already
  FirstSchools,
  ThreeDigits,  \* the greatest number of three digits, 999
  MaxUsers, MaxCalls \* bounds: ids of accounts, calls begun

UserIds == 1 .. MaxUsers
Roles == {"super_admin", "school_admin", "principal", "vice_principal", "head_teacher",
          "class_teacher", "subject_teacher", "parent"}

(* number = 0: no staffId.  refresh, reset and verify: the column is set.  *)
(* live: the reset token is not over.  legacy: the password is the default *)
(* that parents once had.                                                  *)
User == [email : Emails, role : Roles, school : Schools \cup {NoSchool}, active : BOOLEAN,
         prefix : Prefixes, number : Nat, legacy : BOOLEAN, refresh : BOOLEAN,
         reset : BOOLEAN, live : BOOLEAN, verified : BOOLEAN, verify : BOOLEAN]
NoUser == [role |-> "none"]

(* The unique keys of users: e-mail and staffId.                           *)
Distinct(rows) ==
  \A i, j \in UserIds : i # j /\ rows[i] # NoUser /\ rows[j] # NoUser =>
    /\ rows[i].email # rows[j].email
    /\ rows[i].number # 0 => \/ rows[i].number # rows[j].number
                             \/ rows[i].prefix # rows[j].prefix

ASSUME AccountsAssumption ==
  /\ NoSchool \notin Schools /\ Leaders \subseteq Roles \ {"school_admin"}
  /\ Prefix \in [Schools -> Prefixes] /\ Prefixes # {}
  /\ Hires \subseteq [email : Emails, role : Roles, school : Schools \cup {NoSchool}]
  /\ NewRoles \subseteq Roles
  /\ FirstUsers \in [UserIds -> User \cup {NoUser}] /\ Distinct(FirstUsers)
  /\ \E n \in 0 .. MaxUsers : \A i \in UserIds : FirstUsers[i] # NoUser <=> i <= n
  /\ \A i \in UserIds : FirstUsers[i] # NoUser => ~(FirstUsers[i].verified /\ FirstUsers[i].verify)
  /\ FirstSchools \in [Schools -> {"none", "active", "inactive"}]
  /\ \A i \in UserIds : FirstUsers[i] # NoUser /\ FirstUsers[i].school # NoSchool =>
       FirstSchools[FirstUsers[i].school] # "none"
  /\ ThreeDigits \in Nat /\ MaxUsers \in Nat /\ MaxCalls \in Nat

VARIABLES
  user,       \* user[i]: the users row, or NoUser
  lastUser,
  school,     \* school[s]: schools.isActive, or "none"
  call,       \* call[k]: what the call in slot k has read and does next
  begun,      \* calls begun
  \* history
  alone,      \* calls that no other call has overlapped
  vetted,     \* accounts whose role, school and activity a lone call has checked
  moved,      \* accounts that were given to another school, or came from one
  raced,      \* accounts on which two calls overlapped, or one was cut off
  signedOut,  \* accounts whose sessions were ended and that did not log in since
  spent,      \* accounts whose reset token was used and not replaced since
  settled     \* schools a lone call switched on or off, and no admin changed since

tables == <<user, lastUser, school>>
history == <<vetted, moved, raced, signedOut, spent, settled>>
vars == <<tables, call, begun, alone, history>>

Present == {i \in UserIds : user[i] # NoUser}

Idle == [pc |-> "idle", op |-> "none", id |-> 0, email |-> "none", role |-> "none",
         school |-> NoSchool, number |-> 0, active |-> FALSE, legacy |-> FALSE]
Busy(k) == call[k].pc # "idle"
At(k, pc) == call[k].pc = pc

Races(i) == IF i # 0 /\ \E j \in Calls : call[j].id = i THEN {i} ELSE {}

Begins(k, first) ==
  /\ ~Busy(k) /\ begun < MaxCalls /\ begun' = begun + 1
  /\ call' = [call EXCEPT ![k] = first]
  /\ alone' = IF \E j \in Calls : Busy(j) THEN {} ELSE {k}
  /\ raced' = raced \cup Races(first.id)
  /\ UNCHANGED <<tables, vetted, moved, signedOut, spent, settled>>

Goes(k, pc) == call' = [call EXCEPT ![k].pc = pc] /\ UNCHANGED <<begun, alone>>
Ends(k) == call' = [call EXCEPT ![k] = Idle] /\ UNCHANGED <<begun, alone>>
Refused(k) == Ends(k) /\ UNCHANGED <<tables, history>>

(* The call is cut off: an exception, an error of the database, a restart. *)
CutOff(k) ==
  /\ Busy(k) /\ Ends(k)
  /\ raced' = raced \cup (IF call[k].id = 0 THEN {} ELSE {call[k].id})
  /\ UNCHANGED <<tables, vetted, moved, signedOut, spent, settled>>

(* An update of columns of row i; it changes nothing if the row is gone. *)
Sets(i, row) == user' = [user EXCEPT ![i] = row] /\ UNCHANGED <<lastUser, school>>
Admins(s) == {i \in Present : user[i].school = s /\ user[i].role = "school_admin"}

(* The account is new or changed: it counts as vetted if a lone call has   *)
(* checked it, and the school of an administrator is not settled any more. *)
Changes(k, i, checked) ==
  /\ vetted' = IF checked /\ k \in alone THEN vetted \cup {i} ELSE vetted \ {i}
  /\ settled' = {s \in settled : i \notin Admins(s) /\ i \notin Admins(s)'}

-----------------------------------------------------------------------------
(* createUser, auth.register and registerSchool.                           *)

(* generateStaffId: one more than the last number in the order of strings, *)
(* in which three digits come after four.                                  *)
Numbers(s) ==
  {user[i].number : i \in {j \in Present : /\ user[j].school = s /\ user[j].number # 0
                                           /\ user[j].prefix = Prefix[s]}}
GenerateStaffId(s) ==
  LET short == Numbers(s) \cap 1 .. ThreeDigits
  IN  IF Numbers(s) = {} THEN 1
      ELSE IF short # {} THEN Max(short) + 1 ELSE Max(Numbers(s)) + 1

IsStaff(role) == role \notin {"parent", "super_admin"}

CreateUser(k, hire) ==
  LET s == hire.school
  IN  /\ s \in Schools /\ school[s] # "none"
      /\ Begins(k, [Idle EXCEPT !.op = "create", !.pc = "check leader",
           !.email = hire.email, !.role = hire.role, !.school = s,
           !.number = IF IsStaff(hire.role) THEN GenerateStaffId(s) ELSE 0])

(* ensureUniqueLeadershipRolePerSchool: one such row is looked at, and the *)
(* account itself, if it is the one, does not count.                       *)
InactiveLeadersOf(s, role) ==
  {i \in Present : user[i].school = s /\ user[i].role = role /\ ~user[i].active}
LeadersOf(s, role) ==
  {i \in Present : user[i].school = s /\ user[i].role = role /\ user[i].active}

CheckLeader(k) ==
  LET c == call[k]
  IN  /\ At(k, "check leader")
      /\ LET found == IF c.role \in Leaders /\ c.school # NoSchool
                       THEN LeadersOf(c.school, c.role) ELSE {}
         IN  \/ found \ {c.id} # {} /\ Refused(k)
             \/ /\ found = {} \/ c.id \in found
                /\ Goes(k, CASE c.op = "create" -> "insert user"
                             [] c.op = "role" -> "set role" [] c.op = "school" -> "set school")
                /\ UNCHANGED <<tables, history>>

NewUser(c, active, verify) ==
  [email |-> c.email, role |-> c.role, school |-> c.school, active |-> active,
   prefix |-> IF c.school = NoSchool THEN CHOOSE p \in Prefixes : TRUE ELSE Prefix[c.school],
   number |-> c.number, legacy |-> FALSE, refresh |-> FALSE, reset |-> FALSE,
   live |-> FALSE, verified |-> FALSE, verify |-> verify]

EmailTakenByActive(e) == \E i \in Present : user[i].email = e /\ user[i].active
EmailTaken(e) == \E i \in Present : user[i].email = e
NumberTaken(c) == /\ c.number # 0
                  /\ \E i \in Present : /\ user[i].number = c.number
                                        /\ user[i].prefix = Prefix[c.school]

InsertUser(k) ==
  LET i == lastUser + 1
  IN  /\ At(k, "insert user") /\ i <= MaxUsers
      /\ IF EmailTaken(call[k].email) \/ NumberTaken(call[k]) THEN Refused(k)
         ELSE /\ user' = [user EXCEPT ![i] = NewUser(call[k], TRUE, FALSE)]
              /\ lastUser' = i
              /\ Changes(k, i, TRUE)
              /\ Ends(k)
              /\ UNCHANGED <<school, moved, raced, signedOut, spent>>

(* register: role and school are the caller's, and no leader is looked for.*)
(* The random id of a school that is not there yet is not to be guessed.   *)
Register(k, hire) ==
  /\ hire.school \in Schools => school[hire.school] # "none"
  /\ ~EmailTaken(hire.email)
  /\ Begins(k, [Idle EXCEPT !.op = "register", !.pc = "insert registered",
                 !.email = hire.email, !.role = hire.role, !.school = hire.school])

InsertRegistered(k) ==
  LET i == lastUser + 1
  IN  /\ At(k, "insert registered") /\ i <= MaxUsers
      /\ IF EmailTaken(call[k].email) THEN Refused(k)
         ELSE /\ user' = [user EXCEPT ![i] = NewUser(call[k], TRUE, TRUE)]
              /\ lastUser' = i
              /\ Changes(k, i, FALSE)
              /\ call' = [call EXCEPT ![k].pc = "issue", ![k].id = i]
              /\ UNCHANGED <<school, begun, alone, moved, raced, signedOut, spent>>

(* registerSchool: school and administrator in one transaction, both       *)
(* inactive until a super administrator approves the school.               *)
RegisterSchool(k, s, e) ==
  /\ school[s] = "none" /\ ~EmailTaken(e)
  /\ Begins(k, [Idle EXCEPT !.op = "register school", !.pc = "insert school",
                 !.email = e, !.role = "school_admin", !.school = s])

InsertSchool(k) ==
  LET i == lastUser + 1
      s == call[k].school
  IN  /\ At(k, "insert school") /\ i <= MaxUsers
      /\ IF EmailTaken(call[k].email) \/ school[s] # "none" THEN Refused(k)
         ELSE /\ user' = [user EXCEPT ![i] = NewUser(call[k], FALSE, FALSE)]
              /\ school' = [school EXCEPT ![s] = "inactive"]
              /\ lastUser' = i
              /\ settled' = IF k \in alone THEN settled \cup {s} ELSE settled
              /\ Ends(k)
              /\ UNCHANGED <<vetted, moved, raced, signedOut, spent>>

(* createSchool: active from the beginning, without an account. *)
CreateSchool(s) ==
  /\ school[s] = "none" /\ begun < MaxCalls /\ begun' = begun + 1
  /\ school' = [school EXCEPT ![s] = "active"]
  /\ alone' = {}
  /\ UNCHANGED <<user, lastUser, call, history>>

-----------------------------------------------------------------------------
(* updateUser with a role, assignSchool, activateUser and deactivateUser.  *)

UpdateUser(k, i, role) ==
  /\ i \in Present
  /\ Begins(k, [Idle EXCEPT !.op = "role", !.pc = "check leader", !.id = i, !.role = role,
                            !.school = user[i].school])
AssignSchool(k, i, s) ==
  /\ i \in Present /\ school[s] # "none"
  /\ Begins(k, [Idle EXCEPT !.op = "school", !.pc = "check leader", !.id = i,
                            !.role = user[i].role, !.school = s])

SetRole(k) ==
  LET i == call[k].id
  IN  /\ At(k, "set role")
      /\ Sets(i, [user[i] EXCEPT !.role = call[k].role])
      /\ Changes(k, i, user[i].active /\ user[i].role # call[k].role)
      /\ Ends(k)
      /\ UNCHANGED <<moved, raced, signedOut, spent>>

(* The staffId stays that of the old school. *)
SetSchool(k) ==
  LET i == call[k].id
  IN  /\ At(k, "set school")
      /\ Sets(i, [user[i] EXCEPT !.school = call[k].school])
      /\ Changes(k, i, user[i].active /\ user[i].school # call[k].school)
      /\ moved' = moved \cup {i}
      /\ Ends(k)
      /\ UNCHANGED <<raced, signedOut, spent>>

DeactivateUser(k, i) ==
  /\ i \in Present
  /\ Begins(k, [Idle EXCEPT !.op = "deactivate", !.pc = "set active", !.id = i])
ActivateUser(k, i) ==
  /\ i \in Present
  /\ Begins(k, [Idle EXCEPT !.op = "activate", !.pc = "set active", !.id = i])

(* No leader is looked for. *)
SetActive(k) ==
  LET i == call[k].id
  IN  /\ At(k, "set active")
      /\ Sets(i, [user[i] EXCEPT !.active = call[k].op = "activate"])
      /\ Changes(k, i, FALSE)
      /\ Ends(k)
      /\ UNCHANGED <<moved, raced, signedOut, spent>>

(* activateSchool and deactivateSchool: the school, then its admins. *)
ActivateSchool(k, s) ==
  /\ school[s] # "none"
  /\ Begins(k, [Idle EXCEPT !.op = "activate", !.pc = "set school active", !.school = s])
DeactivateSchool(k, s) ==
  /\ school[s] # "none"
  /\ Begins(k, [Idle EXCEPT !.op = "deactivate", !.pc = "set school active", !.school = s])

SetSchoolActive(k) ==
  /\ At(k, "set school active")
  /\ school' = [school EXCEPT ![call[k].school] =
                  IF call[k].op = "activate" THEN "active" ELSE "inactive"]
  /\ settled' = settled \ {call[k].school}
  /\ Goes(k, "set admins active")
  /\ UNCHANGED <<user, lastUser, vetted, moved, raced, signedOut, spent>>

SetAdminsActive(k) ==
  /\ At(k, "set admins active")
  /\ user' = [i \in UserIds |->
       IF i \in Admins(call[k].school)
       THEN [user[i] EXCEPT !.active = call[k].op = "activate"] ELSE user[i]]
  /\ settled' = IF k \in alone THEN settled \cup {call[k].school} ELSE settled
  /\ Ends(k)
  /\ UNCHANGED <<school, lastUser, vetted, moved, raced, signedOut, spent>>

-----------------------------------------------------------------------------
(* Sessions and passwords.                                                 *)

(* validateUser: the password fits the row read; the school is read next.  *)
Login(k, i) ==
  /\ i \in Present
  /\ Begins(k, [Idle EXCEPT !.op = "login", !.id = i, !.role = user[i].role,
       !.school = user[i].school, !.active = user[i].active, !.legacy = user[i].legacy,
       !.pc = IF user[i].role # "super_admin" /\ user[i].school # NoSchool
              THEN "read school" ELSE "check legacy"])

ReadSchoolOnly(k) ==
  /\ At(k, "read school")
  /\ IF school[call[k].school] = "inactive" THEN Refused(k)
     ELSE Goes(k, "check legacy") /\ UNCHANGED <<tables, history>>
ReadSchool(k) ==
  /\ At(k, "read school")
  /\ IF school[call[k].school] = "inactive" \/ ~call[k].active THEN Refused(k)
     ELSE Goes(k, "check legacy") /\ UNCHANGED <<tables, history>>

(* rejectLegacyParentPassword: the default password is replaced by one that*)
(* nobody knows, and a mail lets the parent choose another.                *)
CheckLegacy(k) ==
  LET i == call[k].id
  IN  /\ At(k, "check legacy")
      /\ IF call[k].legacy /\ call[k].role = "parent"
           THEN /\ Sets(i, [user[i] EXCEPT !.legacy = FALSE, !.reset = TRUE, !.live = TRUE])
                /\ spent' = spent \ {i}
                /\ Ends(k)
                /\ UNCHANGED <<vetted, moved, raced, signedOut, settled>>
           ELSE Goes(k, "issue") /\ UNCHANGED <<tables, history>>

(* refreshTokens.  bcrypt compares the first 72 bytes, which the tokens of *)
(* one account have in common: as long as one is stored, each matches.     *)
RefreshTokens(k, i) ==
  /\ i \in Present /\ user[i].refresh
  /\ Begins(k, [Idle EXCEPT !.op = "refresh", !.pc = "issue", !.id = i])

(* generateTokens: the new refresh token is stored. *)
GenerateTokens(k) ==
  LET i == call[k].id
  IN  /\ At(k, "issue")
      /\ Sets(i, [user[i] EXCEPT !.refresh = TRUE])
      /\ signedOut' = IF call[k].op = "refresh" THEN signedOut ELSE signedOut \ {i}
      /\ Ends(k)
      /\ UNCHANGED <<vetted, moved, raced, spent, settled>>

(* One statement; whoever logs out is logged in and active. *)
Logout(i) ==
  /\ i \in Present /\ user[i].active /\ begun < MaxCalls /\ begun' = begun + 1
  /\ Sets(i, [user[i] EXCEPT !.refresh = FALSE])
  /\ signedOut' = signedOut \cup {i}
  /\ raced' = raced \cup Races(i)
  /\ alone' = {}
  /\ UNCHANGED <<call, vetted, moved, spent, settled>>

ForgotPassword(k, i) ==
  /\ i \in Present
  /\ Begins(k, [Idle EXCEPT !.op = "forgot", !.pc = "set reset", !.id = i])
SetReset(k) ==
  LET i == call[k].id
  IN  /\ At(k, "set reset")
      /\ Sets(i, [user[i] EXCEPT !.reset = TRUE, !.live = TRUE])
      /\ spent' = spent \ {i}
      /\ Ends(k)
      /\ UNCHANGED <<vetted, moved, raced, signedOut, settled>>

(* Half an hour has gone by. *)
ResetExpires(i) ==
  /\ i \in Present /\ user[i].live
  /\ Sets(i, [user[i] EXCEPT !.live = FALSE])
  /\ UNCHANGED <<call, begun, alone, history>>

ResetPassword(k, i) ==
  /\ i \in Present /\ user[i].reset /\ user[i].live
  /\ Begins(k, [Idle EXCEPT !.op = "reset", !.pc = "set password", !.id = i])
(* changePassword and adminResetPassword; adminResetSchoolPassword for the *)
(* administrator of the school. *)
ChangePassword(k, i) ==
  /\ i \in Present
  /\ Begins(k, [Idle EXCEPT !.op = "change", !.pc = "set password", !.id = i])

SetPasswordAndStay(k) ==
  LET i == call[k].id
      row == [user[i] EXCEPT !.legacy = FALSE]
  IN  /\ At(k, "set password")
      /\ Sets(i, IF call[k].op = "reset"
                 THEN [row EXCEPT !.reset = FALSE, !.live = FALSE, !.refresh = FALSE] ELSE row)
      /\ signedOut' = signedOut \cup {i}
      /\ spent' = IF call[k].op = "reset" THEN spent \cup {i} ELSE spent
      /\ Ends(k)
      /\ UNCHANGED <<vetted, moved, raced, settled>>
SetPassword(k) ==
  LET i == call[k].id
      row == [user[i] EXCEPT !.legacy = FALSE, !.refresh = FALSE]
  IN  /\ At(k, "set password")
      /\ Sets(i, IF call[k].op = "reset" THEN [row EXCEPT !.reset = FALSE, !.live = FALSE]
                 ELSE row)
      /\ signedOut' = signedOut \cup {i}
      /\ spent' = IF call[k].op = "reset" THEN spent \cup {i} ELSE spent
      /\ Ends(k)
      /\ UNCHANGED <<vetted, moved, raced, settled>>

VerifyEmail(k, i) ==
  /\ i \in Present /\ user[i].verify
  /\ Begins(k, [Idle EXCEPT !.op = "verify", !.pc = "set verified", !.id = i])
ResendVerificationEmail(k, i) ==
  /\ i \in Present /\ ~user[i].verified
  /\ Begins(k, [Idle EXCEPT !.op = "resend", !.pc = "set verified", !.id = i])
SetVerified(k) ==
  LET i == call[k].id
  IN  /\ At(k, "set verified")
      /\ Sets(i, IF call[k].op = "verify"
                 THEN [user[i] EXCEPT !.verified = TRUE, !.verify = FALSE]
                 ELSE [user[i] EXCEPT !.verify = TRUE])
      /\ Ends(k)
      /\ UNCHANGED history

-----------------------------------------------------------------------------
Pcs == {"idle", "check leader", "insert user", "insert registered", "insert school",
        "set role", "set school", "set active", "set school active", "set admins active",
        "read school", "check legacy", "issue", "set reset", "set password", "set verified"}
Ops == {"none", "create", "register", "register school", "role", "school", "activate",
        "deactivate", "login", "refresh", "forgot", "reset", "change", "verify", "resend"}
Call ==
  [pc : Pcs, op : Ops, id : UserIds \cup {0}, email : Emails \cup {"none"}, role : Roles \cup {"none"},
   school : Schools \cup {NoSchool}, number : Nat, active : BOOLEAN, legacy : BOOLEAN]

TypeOK ==
  /\ user \in [UserIds -> User \cup {NoUser}] /\ lastUser \in 0 .. MaxUsers
  /\ school \in [Schools -> {"none", "active", "inactive"}]
  /\ call \in [Calls -> Call] /\ begun \in 0 .. MaxCalls /\ alone \subseteq Calls
  /\ vetted \subseteq Present /\ moved \subseteq Present /\ raced \subseteq Present
  /\ signedOut \subseteq Present /\ spent \subseteq Present /\ settled \subseteq Schools
  /\ Distinct(user)

(* The staffId of account i begins with the letters of its school. *)
OwnNumber(i) == user[i].school # NoSchool /\ user[i].prefix = Prefix[user[i].school]

Init ==
  /\ user = FirstUsers /\ lastUser = Cardinality(Present)
  /\ school = FirstSchools
  /\ call = [k \in Calls |-> Idle] /\ begun = 0 /\ alone = {}
  /\ moved = {i \in Present : user[i].number # 0 /\ ~OwnNumber(i)}
  /\ vetted = {} /\ raced = {} /\ signedOut = {} /\ spent = {} /\ settled = {}

BeginStaff(k) ==
  \/ \E hire \in Hires : CreateUser(k, hire) \/ Register(k, hire)
  \/ \E s \in Schools, e \in Emails : RegisterSchool(k, s, e)
  \/ \E i \in UserIds, role \in NewRoles : UpdateUser(k, i, role)
  \/ \E i \in UserIds, s \in Schools : AssignSchool(k, i, s)
  \/ \E i \in UserIds : ActivateUser(k, i) \/ DeactivateUser(k, i)
  \/ \E s \in Schools : ActivateSchool(k, s) \/ DeactivateSchool(k, s)

BeginSession(k) ==
  \E i \in UserIds :
    \/ Login(k, i) \/ RefreshTokens(k, i) \/ ForgotPassword(k, i) \/ ResetPassword(k, i)
    \/ ChangePassword(k, i) \/ VerifyEmail(k, i) \/ ResendVerificationEmail(k, i)

Step(k) ==
  \/ CheckLeader(k) \/ InsertUser(k) \/ InsertRegistered(k) \/ InsertSchool(k)
  \/ SetRole(k) \/ SetSchool(k) \/ SetActive(k) \/ SetSchoolActive(k) \/ SetAdminsActive(k)
  \/ ReadSchool(k) \/ CheckLegacy(k) \/ GenerateTokens(k)
  \/ SetReset(k) \/ SetPassword(k) \/ SetVerified(k) \/ CutOff(k)

Next ==
  \/ \E k \in Calls : BeginStaff(k) \/ BeginSession(k) \/ Step(k)
  \/ \E s \in Schools : CreateSchool(s)
  \/ \E i \in UserIds : Logout(i) \/ ResetExpires(i)

Spec == Init /\ [][Next]_vars

-----------------------------------------------------------------------------
(* Correctness.                                                            *)

Leading(i) == user[i].active /\ user[i].role \in Leaders /\ user[i].school # NoSchool
Rivals(i, j) == /\ i # j /\ Leading(i) /\ Leading(j)
                /\ user[i].role = user[j].role /\ user[i].school = user[j].school

(* 'This school already has an active Principal': a school has one active  *)
(* leader of each kind, as far as accounts were made and changed by lone   *)
(* calls that looked for one; activation and self-registration do not.     *)
VettedLeadersAlone == \A i, j \in vetted : ~Rivals(i, j)

(* A lone hire is never refused for its number, unless someone came from   *)
(* another school, another school's numbers begin with the same letters,   *)
(* or a year has had a thousand of them.                                   *)
LoneHireHasNumber ==
  \A k \in alone :
    /\ At(k, "insert user") /\ moved = {}
    /\ \A s \in Schools : Prefix[s] = Prefix[call[k].school] => s = call[k].school
    /\ \A i \in Present : user[i].number < ThreeDigits
    => ~NumberTaken(call[k])

(* Who is hired by the book neither stands in another's place nor fails.   *)
HiresFit == VettedLeadersAlone /\ LoneHireHasNumber

(* A session that was ended, by logout or by a new password, stays ended   *)
(* until the next login, if no other call on the account overlapped.       *)
SignedOutStays == \A i \in signedOut \ raced : ~user[i].refresh

(* A reset token is good for one new password. *)
ResetOnce == \A i \in spent \ raced : ~user[i].reset

(* Who has confirmed the address is not asked again. *)
VerifiedStays == \A i \in Present \ raced : user[i].verified => ~user[i].verify

(* Tokens of the three kinds end when they should and do not come back.    *)
TokensStayEnded == SignedOutStays /\ ResetOnce /\ VerifiedStays

(* 'Inactive pending Super Admin verification', or suspended: the          *)
(* administrators of a school are let in when the school is.               *)
AdminsFollowSchool ==
  \A s \in settled : \A i \in Admins(s) : user[i].active <=> school[s] = "active"

(* 'Your account is currently inactive': a login that runs alone gives     *)
(* tokens to active members of active schools only.                        *)
LoginsAreActive ==
  [][\A k \in alone :
       LET i == call[k].id
       IN  /\ At(k, "issue") /\ call[k].op = "login" /\ user' # user
           /\ user[i].role # "super_admin" /\ user[i].school # NoSchool
           => user[i].active /\ school[user[i].school] # "inactive"]_vars

(* The password every parent once had opens no session. *)
NoLegacySession ==
  [][\A k \in Calls :
       At(k, "issue") /\ call[k].op = "login" /\ call[k].role = "parent"
       /\ user' # user => ~user[call[k].id].legacy]_vars

(* Nobody is let in who is to be kept out, and no administrator is kept    *)
(* out of a school that is open.                                           *)
DoorsKept == []AdminsFollowSchool /\ LoginsAreActive /\ NoLegacySession
=============================================================================
