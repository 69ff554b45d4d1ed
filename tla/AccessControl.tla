---------------------------- MODULE AccessControl ----------------------------
(***************************************************************************)
(* Who may do what in one school: src/src/access/access.service.ts.        *)
(*                                                                         *)
(* Four tables decide: the rows of role_permissions (one per role and      *)
(* resource, for the school and, with schoolId NULL, as a global           *)
(* template), permission_groups with their permission_group_permissions,   *)
(* user_permission_groups, and the individual overrides of                 *)
(* user_permissions.  No foreign key ties them together: what keeps them   *)
(* consistent is the lock on the permission_groups row that                *)
(* deletePermissionGroup, setPermissionGroupPermissions and                *)
(* assignPermissionGroup take, from their first statement to their commit. *)
(*                                                                         *)
(* call[c] is what call c of an administrator carries from one statement   *)
(* to a later one; an operation of a single statement is a single action.  *)
(* check[k] is a hasPermission in progress, which is up to five queries.   *)
(***************************************************************************)
EXTENDS Naturals

CONSTANTS Roles,            \* UserRole
          SuperAdmin, SchoolAdmin, Principal,
          Management,       \* the roles that share the profile of Principal
          Resources,        \* AppResource
          Actions,          \* PermissionAction
          LegacyActions,    \* read, create, update, delete: flags of a role row
          DefaultFlags,     \* getDefaultRolePermissions
          Staff,            \* users of the school who are not its administrators
          RoleOf,
          Groups,           \* ids of permission groups, created or not
          Calls,            \* calls of administrators, and seedings, in flight
          Checks            \* calls of hasPermission in flight

ASSUME ConstantsAssumption ==
  /\ {SuperAdmin, SchoolAdmin} \cap Management = {}
  /\ {SuperAdmin, SchoolAdmin} \cup Management \subseteq Roles
  /\ Principal \in Management
  /\ LegacyActions \subseteq Actions
  /\ DefaultFlags \in [Roles \X Resources -> SUBSET LegacyActions]
  /\ \A a, b \in Management, r \in Resources :
       DefaultFlags[<<a, r>>] = DefaultFlags[<<b, r>>]
  /\ RoleOf \in [Staff -> Roles \ {SuperAdmin, SchoolAdmin}]

VARIABLES
  roleRow,    \* the rows of role_permissions: a function on their unique keys
  seeded,     \* createSchool has started the seeding of the school's rows
  group,      \* group[g]: the permission_groups row
  holds,      \* permission_group_permissions: pairs <<group, permission>>
  assigned,   \* user_permission_groups: pairs <<user, group>>
  override,   \* override[<<u, p>>]: the effect of the user_permissions row
  call, check,
  ever,       \* history, per check: the facts that held at some moment of it
  always      \* history, per check: the facts that held all through it

tables == <<roleRow, seeded, group, holds, assigned, override>>
vars == <<tables, call, check, ever, always>>

Permissions == Resources \X Actions
Scopes == {"GLOBAL", "SCHOOL"}
RowKeys == {k \in Scopes \X Roles \X Resources : k[1] = "SCHOOL" => k[2] # SuperAdmin}

(* The rows a scope has: a school has none for the platform's role.        *)
SeededRows(scope) ==
  {scope} \X (IF scope = "SCHOOL" THEN Roles \ {SuperAdmin} ELSE Roles) \X Resources

Idle == [op |-> "idle"]
DeleteCall  == [op : {"delete"}, group : Groups]
ReplaceCall == [op : {"replace"}, group : Groups, perms : SUBSET Permissions]
AssignCall  == [op : {"assign"}, group : Groups, user : Staff, found : BOOLEAN]
SetCall     == [op : {"set"}, user : Staff, perm : Permissions,
                effect : {"GRANT", "DENY"}, found : BOOLEAN]
SeedCall    == [op : {"seed"}, missing : SUBSET RowKeys]
CheckCall   == [at : {"role", "assignments", "groups", "permissions", "override"},
                user : Staff, perm : Permissions, allowed : BOOLEAN,
                seen : SUBSET Groups]
Answer == [at : {"answered"}, answer : BOOLEAN]
NoCheck == [at |-> "idle"]

TypeOK ==
  /\ DOMAIN roleRow \subseteq RowKeys
  /\ roleRow \in [DOMAIN roleRow -> SUBSET LegacyActions]
  /\ seeded \in BOOLEAN
  /\ group \in [Groups -> {"absent", "active", "inactive", "deleted"}]
  /\ holds \subseteq Groups \X Permissions
  /\ assigned \subseteq Staff \X Groups
  /\ override \in [Staff \X Permissions -> {"NONE", "GRANT", "DENY"}]
  /\ call \in [Calls -> {Idle} \cup DeleteCall \cup ReplaceCall \cup AssignCall
                          \cup SetCall \cup SeedCall]
  /\ check \in [Checks -> {NoCheck} \cup CheckCall \cup Answer]

(* A platform whose last release knew the resources `known'.               *)
Init ==
  /\ \E known \in SUBSET Resources :
       roleRow = [k \in {"GLOBAL"} \X Roles \X known |-> DefaultFlags[<<k[2], k[3]>>]]
  /\ seeded = FALSE
  /\ group = [g \in Groups |-> "absent"]
  /\ holds = {} /\ assigned = {}
  /\ override = [x \in Staff \X Permissions |-> "NONE"]
  /\ call = [c \in Calls |-> Idle]
  /\ check = [k \in Checks |-> NoCheck]
  /\ ever = [k \in Checks |-> {}]
  /\ always = [k \in Checks |-> {}]

Stands(g) == group[g] \in {"active", "inactive"}

(* FOR UPDATE on the row of g, held until the transaction ends.            *)
NeverLocked(g) == FALSE
Locked(g) == \E c \in Calls : /\ call[c].op \in {"delete", "replace", "assign"}
                              /\ call[c].group = g

Begin(c, operation) == /\ call[c] = Idle
                       /\ call' = [call EXCEPT ![c] = operation]
                       /\ UNCHANGED tables
Finish(c) == call' = [call EXCEPT ![c] = Idle]

-----------------------------------------------------------------------------
(* Permission groups.                                                      *)

CreatePermissionGroup(g) ==
  /\ group[g] = "absent"
  /\ group' = [group EXCEPT ![g] = "active"]
  /\ UNCHANGED <<roleRow, seeded, holds, assigned, override, call>>

(* One UPDATE, which waits for the row's lock.                             *)
UpdatePermissionGroup(g, isActive) ==
  /\ Stands(g) /\ ~Locked(g)
  /\ group' = [group EXCEPT ![g] = isActive]
  /\ UNCHANGED <<roleRow, seeded, holds, assigned, override, call>>

(* Lock and count: a group with assignments is refused.                    *)
DeletePermissionGroup(c, g) ==
  /\ Stands(g) /\ ~Locked(g)
  /\ \A u \in Staff : <<u, g>> \notin assigned
  /\ Begin(c, [op |-> "delete", group |-> g])

CommitDelete(c) ==
  /\ call[c].op = "delete"
  /\ group' = [group EXCEPT ![call[c].group] = "deleted"]
  /\ holds' = {h \in holds : h[1] # call[c].group}
  /\ Finish(c)
  /\ UNCHANGED <<roleRow, seeded, assigned, override>>

SetPermissionGroupPermissions(c, g, perms) ==
  /\ Stands(g) /\ ~Locked(g)
  /\ Begin(c, [op |-> "replace", group |-> g, perms |-> perms])

CommitReplace(c) ==
  /\ call[c].op = "replace"
  /\ holds' = {h \in holds : h[1] # call[c].group}
                \cup ({call[c].group} \X call[c].perms)
  /\ Finish(c)
  /\ UNCHANGED <<roleRow, seeded, group, assigned, override>>

AssignPermissionGroup(c, u, g) ==
  /\ Stands(g) /\ ~Locked(g)
  /\ Begin(c, [op |-> "assign", group |-> g, user |-> u,
               found |-> <<u, g>> \in assigned])

(* An assignment that was found is returned, and nothing written.          *)
CommitAssign(c) ==
  /\ call[c].op = "assign"
  /\ assigned' = IF call[c].found THEN assigned
                 ELSE assigned \cup {<<call[c].user, call[c].group>>}
  /\ Finish(c)
  /\ UNCHANGED <<roleRow, seeded, group, holds, override>>

(* One DELETE, without the lock.                                           *)
RemovePermissionGroup(u, g) ==
  /\ Stands(g)
  /\ <<u, g>> \in assigned
  /\ assigned' = assigned \ {<<u, g>>}
  /\ UNCHANGED <<roleRow, seeded, group, holds, override, call>>

-----------------------------------------------------------------------------
(* Individual overrides: UNIQUE (userId, resource, action).                *)

SetUserPermission(c, u, p, effect) ==
  Begin(c, [op |-> "set", user |-> u, perm |-> p, effect |-> effect,
            found |-> override[<<u, p>>] # "NONE"])

(* The row that was found is updated, or inserted again if it has been     *)
(* deleted since; the INSERT of a row that was not found fails if another  *)
(* call has inserted it.                                                   *)
SaveUserPermission(c) ==
  /\ call[c].op = "set"
  /\ LET at == <<call[c].user, call[c].perm>>
     IN  override' = IF ~call[c].found /\ override[at] # "NONE" THEN override
                     ELSE [override EXCEPT ![at] = call[c].effect]
  /\ Finish(c)
  /\ UNCHANGED <<roleRow, seeded, group, holds, assigned>>

(* A call that had found the row now holds one that is gone.               *)
RemoveUserPermission(u, p) ==
  /\ override[<<u, p>>] # "NONE"
  /\ override' = [override EXCEPT ![<<u, p>>] = "NONE"]
  /\ call' = [c \in Calls |->
                IF call[c].op = "set" /\ call[c].user = u /\ call[c].perm = p
                THEN [call[c] EXCEPT !.found = FALSE] ELSE call[c]]
  /\ UNCHANGED <<roleRow, seeded, group, holds, assigned>>

-----------------------------------------------------------------------------
(* Role defaults.                                                          *)

(* permissionProfile: the three management roles are one profile.          *)
PermissionProfile(role) == IF role \in Management THEN Principal ELSE role
SameProfile(a, b) == PermissionProfile(a) = PermissionProfile(b)

(* updateRolePermission: one UPDATE over the rows of the profile.          *)
UpdateRolePermission(key, flags) ==
  /\ key \in DOMAIN roleRow
  /\ key[2] \notin {SuperAdmin, SchoolAdmin}
  /\ roleRow' = [k \in DOMAIN roleRow |->
                   IF k[1] = key[1] /\ SameProfile(k[2], key[2]) /\ k[3] = key[3]
                   THEN flags ELSE roleRow[k]]
  /\ UNCHANGED <<seeded, group, holds, assigned, override, call>>

(* seedGlobalDefaultPermissions, at the start of every instance, and       *)
(* seedDefaultPermissions, in the background of createSchool.              *)
SeedGlobalDefaultPermissions(c) ==
  /\ SeededRows("GLOBAL") \ DOMAIN roleRow # {}
  /\ Begin(c, [op |-> "seed", missing |-> SeededRows("GLOBAL") \ DOMAIN roleRow])

SeedDefaultPermissions(c) ==
  /\ ~seeded /\ seeded' = TRUE
  /\ call[c] = Idle
  /\ call' = [call EXCEPT ![c] =
                [op |-> "seed", missing |-> SeededRows("SCHOOL") \ DOMAIN roleRow]]
  /\ UNCHANGED <<roleRow, group, holds, assigned, override>>

(* INSERT ... ON CONFLICT DO NOTHING.                                      *)
InsertOverwriting(keys) ==
  [k \in DOMAIN roleRow \cup keys |->
     IF k \in keys THEN DefaultFlags[<<k[2], k[3]>>] ELSE roleRow[k]]
InsertOrIgnore(keys) ==
  [k \in DOMAIN roleRow \cup keys |->
     IF k \in DOMAIN roleRow THEN roleRow[k] ELSE DefaultFlags[<<k[2], k[3]>>]]

InsertRows(c) ==
  /\ call[c].op = "seed"
  /\ roleRow' = InsertOrIgnore(call[c].missing)
  /\ Finish(c)
  /\ UNCHANGED <<seeded, group, holds, assigned, override>>

(* The connection is lost: the transaction rolls back, the call fails.     *)
Fail(c) == call[c] # Idle /\ Finish(c) /\ UNCHANGED tables

-----------------------------------------------------------------------------
(* hasPermission, for anyone but an administrator, who is answered at      *)
(* once: the row of the role, the user's assignments, the active groups    *)
(* among them, their permissions, and the override last.                   *)

RoleAllows(u, p) ==
  LET key == <<"SCHOOL", PermissionProfile(RoleOf[u]), p[1]>>
  IN  /\ p[2] \in LegacyActions
      /\ key \in DOMAIN roleRow
      /\ p[2] \in roleRow[key]

Goes(k, next) == check' = [check EXCEPT ![k] = next]

HasPermission(k, u, p) ==
  /\ check[k].at \in {"idle", "answered"}
  /\ Goes(k, [at |-> "role", user |-> u, perm |-> p, allowed |-> FALSE, seen |-> {}])

ReadRole(k) ==
  /\ check[k].at = "role"
  /\ Goes(k, [check[k] EXCEPT !.at = "assignments",
                              !.allowed = RoleAllows(check[k].user, check[k].perm)])

ReadAssignments(k) ==
  /\ check[k].at = "assignments"
  /\ LET found == {g \in Groups : <<check[k].user, g>> \in assigned}
     IN  Goes(k, [check[k] EXCEPT !.at = IF found = {} THEN "override" ELSE "groups",
                                  !.seen = found])

ReadEveryGroup(k) ==
  /\ check[k].at = "groups"
  /\ Goes(k, [check[k] EXCEPT !.at = "permissions"])
ReadGroups(k) ==
  /\ check[k].at = "groups"
  /\ LET found == {g \in check[k].seen : group[g] = "active"}
     IN  Goes(k, [check[k] EXCEPT !.at = IF found = {} THEN "override" ELSE "permissions",
                                  !.seen = found])

ReadGroupPermissions(k) ==
  /\ check[k].at = "permissions"
  /\ Goes(k, [check[k] EXCEPT !.at = "override", !.seen = {},
                !.allowed = @ \/ \E g \in check[k].seen : <<g, check[k].perm>> \in holds])

ReadOverride(k) ==
  /\ check[k].at = "override"
  /\ LET effect == override[<<check[k].user, check[k].perm>>]
     IN  Goes(k, [at |-> "answered",
                  answer |-> \/ effect = "GRANT"
                             \/ effect = "NONE" /\ check[k].allowed])

CheckStep(k) ==
  /\ \/ \E u \in Staff, p \in Permissions : HasPermission(k, u, p)
     \/ ReadRole(k) \/ ReadAssignments(k) \/ ReadGroups(k)
     \/ ReadGroupPermissions(k) \/ ReadOverride(k)
  /\ UNCHANGED <<tables, call>>

-----------------------------------------------------------------------------
Transaction(c) ==
  \/ \E g \in Groups :
       \/ DeletePermissionGroup(c, g)
       \/ \E perms \in SUBSET Permissions : SetPermissionGroupPermissions(c, g, perms)
       \/ \E u \in Staff : AssignPermissionGroup(c, u, g)
  \/ \E u \in Staff, p \in Permissions, effect \in {"GRANT", "DENY"} :
       SetUserPermission(c, u, p, effect)
  \/ SeedGlobalDefaultPermissions(c) \/ SeedDefaultPermissions(c)
  \/ CommitDelete(c) \/ CommitReplace(c) \/ CommitAssign(c)
  \/ SaveUserPermission(c) \/ InsertRows(c) \/ Fail(c)

Statement ==
  \/ \E g \in Groups :
       \/ CreatePermissionGroup(g)
       \/ \E isActive \in {"active", "inactive"} : UpdatePermissionGroup(g, isActive)
       \/ \E u \in Staff : RemovePermissionGroup(u, g)
  \/ \E u \in Staff, p \in Permissions : RemoveUserPermission(u, p)
  \/ \E key \in DOMAIN roleRow, flags \in SUBSET LegacyActions :
       UpdateRolePermission(key, flags)

(* History: what holds of the user and the permission a check is about.    *)
Facts(u, p) ==
  {<<f>> : f \in {x \in {"role"} : RoleAllows(u, p)} \cup {override[<<u, p>>]}}
    \cup {<<"member", g>> : g \in {x \in Groups : <<u, x>> \in assigned}}
    \cup {<<"active", g>> : g \in {x \in Groups : group[x] = "active"}}
    \cup {<<"holds", g>> : g \in {x \in Groups : <<x, p>> \in holds}}

Observe ==
  LET Facts2(k) == Facts(check[k].user, check[k].perm)'
      Pending(k) == check'[k] \in CheckCall
  IN  /\ ever' = [k \in Checks |-> IF ~Pending(k) THEN {}
                                   ELSE ever[k] \cup Facts2(k)]
      /\ always' = [k \in Checks |->
                      CASE ~Pending(k) -> {}
                        [] Pending(k) /\ check[k] \notin CheckCall -> Facts2(k)
                        [] OTHER -> always[k] \cap Facts2(k)]

Next ==
  /\ \/ \E c \in Calls : Transaction(c) /\ UNCHANGED check
     \/ Statement /\ UNCHANGED check
     \/ \E k \in Checks : CheckStep(k)
  /\ Observe

Spec == Init /\ [][Next]_vars

-----------------------------------------------------------------------------
(* What should hold.                                                       *)

(* `Assigned groups cannot be deleted': an assignment and a permission     *)
(* belong to a group that exists, although no foreign key asks for it and  *)
(* deletion, replacement and assignment may be under way together.         *)
NothingDangles ==
  /\ \A x \in assigned : Stands(x[2])
  /\ \A h \in holds : Stands(h[1])

(* `Editing it synchronizes the three stored profiles': the rows of the    *)
(* management roles are there together and say the same, in every scope,   *)
(* whatever seeding does meanwhile.                                        *)
ManagementProfilesAgree ==
  \A s \in Scopes, r \in Resources, a, b \in Management :
    <<s, a, r>> \in DOMAIN roleRow =>
      /\ <<s, b, r>> \in DOMAIN roleRow
      /\ roleRow[<<s, a, r>>] = roleRow[<<s, b, r>>]

(* The stored tables make sense in any state that a check may read.        *)
TablesSound == NothingDangles /\ ManagementProfilesAgree

(* `Seeding inserts missing rows without overwriting administrator         *)
(* decisions': only updateRolePermission changes a row, and no row goes.   *)
DecisionsSurviveSeeding ==
  [][\A k \in DOMAIN roleRow :
       /\ k \in DOMAIN roleRow'
       /\ roleRow'[k] # roleRow[k] =>
            UpdateRolePermission(k, roleRow'[k])]_roleRow

(* The documented precedence: defaults, then active groups, then the       *)
(* individual override; refused by `denials' and allowed by `facts'.       *)
Contract(facts, denials) ==
  /\ <<"DENY">> \notin denials
  /\ \/ <<"GRANT">> \in facts
     \/ <<"role">> \in facts
     \/ \E g \in Groups : {<<"member", g>>, <<"active", g>>, <<"holds", g>>} \subseteq facts

(* The answer is put together from queries made at different moments.  It  *)
(* is TRUE whenever a reason to allow stood all through the call and no    *)
(* denial stood at any moment of it; and it is not TRUE when no reason     *)
(* ever stood, or a denial stood all along.                                *)
AnswerIsBracketed ==
  [][\A k \in Checks :
       check[k].at = "override" /\ check'[k].at = "answered" =>
         /\ Contract(always[k], ever[k]) => check'[k].answer
         /\ check'[k].answer => Contract(ever[k], always[k])]_vars
=============================================================================
