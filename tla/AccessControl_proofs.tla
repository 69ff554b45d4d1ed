------------------------ MODULE AccessControl_proofs ------------------------
(***************************************************************************)
(* What holds of AccessControl for any number of users, groups, resources, *)
(* overlapping calls and permission checks: the tables keep their types,   *)
(* nothing refers to a group that is gone, the management profiles agree   *)
(* and seeding overwrites no decision.  In the second half, the answer of  *)
(* hasPermission: put together from queries at five moments, it is still   *)
(* bounded by the documented precedence over what held during the check.   *)
(***************************************************************************)
EXTENDS AccessControl, TLAPS

CallType == {Idle} \cup DeleteCall \cup ReplaceCall \cup AssignCall \cup SetCall
              \cup SeedCall

(* What one step does to the tables and the calls, whatever it observes.   *)
Change == \/ \E c \in Calls : Transaction(c) /\ UNCHANGED check
          \/ Statement /\ UNCHANGED check
          \/ \E k \in Checks : CheckStep(k)
          \/ UNCHANGED vars

LEMMA StepIsChange == [Next]_vars => Change
BY DEF Next, Change

LEMMA BeginTyped ==
  ASSUME TypeOK, NEW c \in Calls, NEW operation \in CallType, Begin(c, operation),
         UNCHANGED check
  PROVE  TypeOK'
BY DEF TypeOK, Begin, tables, CallType

LEMMA FinishTyped ==
  ASSUME TypeOK, NEW c \in Calls, Finish(c)
  PROVE  call' \in [Calls -> CallType]
BY DEF TypeOK, Finish, CallType

(* Rows that are inserted are rows of their scope.                         *)
LEMMA InsertTyped ==
  ASSUME TypeOK, NEW keys \in SUBSET RowKeys
  PROVE  /\ DOMAIN InsertOrIgnore(keys) \subseteq RowKeys
         /\ InsertOrIgnore(keys) \in [DOMAIN InsertOrIgnore(keys) -> SUBSET LegacyActions]
<1>1. ASSUME NEW k \in RowKeys PROVE DefaultFlags[<<k[2], k[3]>>] \in SUBSET LegacyActions
  BY ConstantsAssumption DEF RowKeys
<1>2. DOMAIN InsertOrIgnore(keys) = DOMAIN roleRow \cup keys
  BY DEF InsertOrIgnore
<1>3. DOMAIN roleRow \subseteq RowKeys /\ roleRow \in [DOMAIN roleRow -> SUBSET LegacyActions]
  BY DEF TypeOK
<1> QED BY <1>1, <1>2, <1>3 DEF InsertOrIgnore

LEMMA TransactionTyped ==
  ASSUME TypeOK, NEW c \in Calls, Transaction(c), UNCHANGED check
  PROVE  TypeOK'
<1>1. ASSUME NEW g \in Groups, DeletePermissionGroup(c, g) PROVE TypeOK'
  BY <1>1, BeginTyped DEF DeletePermissionGroup, CallType, DeleteCall
<1>2. ASSUME NEW g \in Groups, NEW perms \in SUBSET Permissions,
             SetPermissionGroupPermissions(c, g, perms)
      PROVE  TypeOK'
  BY <1>2, BeginTyped DEF SetPermissionGroupPermissions, CallType, ReplaceCall
<1>3. ASSUME NEW g \in Groups, NEW u \in Staff, AssignPermissionGroup(c, u, g) PROVE TypeOK'
  <2> DEFINE found == <<u, g>> \in assigned
             operation == [op |-> "assign", group |-> g, user |-> u, found |-> found]
  <2>1. found \in BOOLEAN
    OBVIOUS
  <2>2. Begin(c, operation)
    BY <1>3 DEF AssignPermissionGroup
  <2> HIDE DEF found
  <2>3. operation \in CallType
    BY <2>1, Zenon DEF CallType, AssignCall
  <2> HIDE DEF operation
  <2> QED BY <2>2, <2>3, BeginTyped
<1>4. ASSUME NEW u \in Staff, NEW p \in Permissions, NEW effect \in {"GRANT", "DENY"},
             SetUserPermission(c, u, p, effect)
      PROVE  TypeOK'
  <2> DEFINE found == override[<<u, p>>] # "NONE"
             operation == [op |-> "set", user |-> u, perm |-> p, effect |-> effect,
                           found |-> found]
  <2>1. found \in BOOLEAN
    OBVIOUS
  <2>2. Begin(c, operation)
    BY <1>4 DEF SetUserPermission
  <2> HIDE DEF found
  <2>3. operation \in CallType
    BY <2>1, Zenon DEF CallType, SetCall
  <2> HIDE DEF operation
  <2> QED BY <2>2, <2>3, BeginTyped
<1>5. SeededRows("GLOBAL") \subseteq RowKeys /\ SeededRows("SCHOOL") \subseteq RowKeys
  BY DEF SeededRows, RowKeys, Scopes
<1>6. CASE SeedGlobalDefaultPermissions(c)
  BY <1>5, <1>6, BeginTyped DEF SeedGlobalDefaultPermissions, CallType, SeedCall
<1>7. CASE SeedDefaultPermissions(c)
  BY <1>5, <1>7 DEF SeedDefaultPermissions, TypeOK, SeedCall
<1>8. CASE CommitDelete(c)
  BY <1>8, FinishTyped DEF CommitDelete, TypeOK, CallType
<1>9. CASE CommitReplace(c)
  <2>1. call[c].group \in Groups /\ call[c].perms \in SUBSET Permissions
    BY <1>9 DEF CommitReplace, TypeOK, Idle, DeleteCall, ReplaceCall, AssignCall, SetCall,
                SeedCall
  <2>2. holds' \subseteq Groups \X Permissions
    BY <1>9, <2>1 DEF CommitReplace, TypeOK
  <2> QED BY <1>9, <2>2, FinishTyped DEF CommitReplace, TypeOK, CallType
<1>10. CASE CommitAssign(c)
  <2>1. call[c].group \in Groups /\ call[c].user \in Staff
    BY <1>10 DEF CommitAssign, TypeOK, Idle, DeleteCall, ReplaceCall, AssignCall, SetCall,
                 SeedCall
  <2>2. assigned' \subseteq Staff \X Groups
    BY <1>10, <2>1 DEF CommitAssign, TypeOK
  <2> QED BY <1>10, <2>2, FinishTyped DEF CommitAssign, TypeOK, CallType
<1>11. CASE SaveUserPermission(c)
  <2>1. call[c].effect \in {"GRANT", "DENY"}
    BY <1>11 DEF SaveUserPermission, TypeOK, Idle, DeleteCall, ReplaceCall, AssignCall,
                 SetCall, SeedCall
  <2>2. override' \in [Staff \X Permissions -> {"NONE", "GRANT", "DENY"}]
    BY <1>11, <2>1 DEF SaveUserPermission, TypeOK
  <2> QED BY <1>11, <2>2, FinishTyped DEF SaveUserPermission, TypeOK, CallType
<1>12. CASE InsertRows(c)
  <2>1. call[c].missing \in SUBSET RowKeys
    BY <1>12 DEF InsertRows, TypeOK, Idle, DeleteCall, ReplaceCall, AssignCall, SetCall,
                 SeedCall
  <2>2. roleRow' = InsertOrIgnore(call[c].missing)
    BY <1>12 DEF InsertRows
  <2>3. DOMAIN roleRow' \subseteq RowKeys /\ roleRow' \in [DOMAIN roleRow' -> SUBSET LegacyActions]
    BY <2>1, <2>2, InsertTyped
  <2>4. call' \in [Calls -> CallType] /\ UNCHANGED <<seeded, group, holds, assigned, override>>
    BY <1>12, FinishTyped DEF InsertRows
  <2> QED BY <2>3, <2>4 DEF TypeOK, CallType
<1>13. CASE Fail(c)
  BY <1>13, FinishTyped DEF Fail, TypeOK, tables, CallType
<1> QED
  BY <1>1, <1>2, <1>3, <1>4, <1>6, <1>7, <1>8, <1>9, <1>10, <1>11, <1>12, <1>13
  DEF Transaction

LEMMA StatementTyped ==
  ASSUME TypeOK, Statement, UNCHANGED check
  PROVE  TypeOK'
<1>1. ASSUME NEW g \in Groups, CreatePermissionGroup(g) PROVE TypeOK'
  BY <1>1 DEF CreatePermissionGroup, TypeOK
<1>2. ASSUME NEW g \in Groups, NEW isActive \in {"active", "inactive"},
             UpdatePermissionGroup(g, isActive)
      PROVE  TypeOK'
  BY <1>2 DEF UpdatePermissionGroup, TypeOK
<1>3. ASSUME NEW g \in Groups, NEW u \in Staff, RemovePermissionGroup(u, g) PROVE TypeOK'
  BY <1>3 DEF RemovePermissionGroup, TypeOK
<1>4. ASSUME NEW u \in Staff, NEW p \in Permissions, RemoveUserPermission(u, p)
      PROVE  TypeOK'
  <2>1. override' \in [Staff \X Permissions -> {"NONE", "GRANT", "DENY"}]
    BY <1>4 DEF RemoveUserPermission, TypeOK
  <2>2. call' \in [Calls -> CallType]
    <3>1. ASSUME NEW c \in Calls, call[c].op = "set"
          PROVE  [call[c] EXCEPT !.found = FALSE] \in SetCall
      <4>1. call[c] \in SetCall
        BY <3>1 DEF TypeOK, Idle, DeleteCall, ReplaceCall, AssignCall, SetCall, SeedCall
      <4> QED BY <4>1 DEF SetCall
    <3>2. ASSUME NEW c \in Calls PROVE call'[c] \in CallType
      BY <1>4, <3>1 DEF RemoveUserPermission, TypeOK, CallType
    <3> QED BY <1>4, <3>2 DEF RemoveUserPermission
  <2> QED BY <1>4, <2>1, <2>2 DEF RemoveUserPermission, TypeOK, CallType
<1>5. ASSUME NEW key \in DOMAIN roleRow, NEW flags \in SUBSET LegacyActions,
             UpdateRolePermission(key, flags)
      PROVE  TypeOK'
  BY <1>5 DEF UpdateRolePermission, TypeOK
<1> QED BY <1>1, <1>2, <1>3, <1>4, <1>5 DEF Statement

LEMMA CheckTyped ==
  ASSUME TypeOK, NEW k \in Checks, CheckStep(k)
  PROVE  TypeOK'
<1> DEFINE now == check[k]
           Typed(next) == next \in {NoCheck} \cup CheckCall \cup Answer
<1>1. ASSUME NEW next, Typed(next), Goes(k, next) PROVE TypeOK'
  <2>1. UNCHANGED <<tables, call>>
    BY DEF CheckStep
  <2> QED BY <1>1, <2>1 DEF Goes, TypeOK, tables
<1>2. ASSUME now.at \in {"role", "assignments", "groups", "permissions", "override"}
      PROVE  now \in CheckCall
  BY <1>2 DEF TypeOK, NoCheck, Answer
<1>3. ASSUME NEW u \in Staff, NEW p \in Permissions, HasPermission(k, u, p) PROVE TypeOK'
  BY <1>1, <1>3 DEF HasPermission, CheckCall
<1>4. CASE ReadRole(k)
  <2> DEFINE allowed == RoleAllows(now.user, now.perm)
             next == [now EXCEPT !.at = "assignments", !.allowed = allowed]
  <2>1. allowed \in BOOLEAN
    BY DEF RoleAllows
  <2>2. now \in CheckCall /\ Goes(k, next)
    BY <1>2, <1>4 DEF ReadRole
  <2> HIDE DEF allowed
  <2>3. next \in CheckCall
    BY <2>1, <2>2 DEF CheckCall
  <2> HIDE DEF next
  <2> QED BY <1>1, <2>2, <2>3
<1>5. CASE ReadAssignments(k)
  <2> DEFINE found == {g \in Groups : <<now.user, g>> \in assigned}
             at == IF found = {} THEN "override" ELSE "groups"
             next == [now EXCEPT !.at = at, !.seen = found]
  <2>1. found \in SUBSET Groups /\ at \in {"override", "groups"}
    OBVIOUS
  <2>2. now \in CheckCall /\ Goes(k, next)
    BY <1>2, <1>5 DEF ReadAssignments
  <2> HIDE DEF found, at
  <2>3. next \in CheckCall
    BY <2>1, <2>2 DEF CheckCall
  <2> HIDE DEF next
  <2> QED BY <1>1, <2>2, <2>3
<1>6. CASE ReadGroups(k)
  <2> DEFINE found == {g \in now.seen : group[g] = "active"}
             at == IF found = {} THEN "override" ELSE "permissions"
             next == [now EXCEPT !.at = at, !.seen = found]
  <2>1. now \in CheckCall /\ Goes(k, next)
    BY <1>2, <1>6 DEF ReadGroups
  <2>2. found \in SUBSET Groups /\ at \in {"override", "permissions"}
    BY <2>1 DEF CheckCall
  <2> HIDE DEF found, at
  <2>3. next \in CheckCall
    BY <2>1, <2>2 DEF CheckCall
  <2> HIDE DEF next
  <2> QED BY <1>1, <2>1, <2>3
<1>7. CASE ReadGroupPermissions(k)
  <2> DEFINE allowed == now.allowed \/ \E g \in now.seen : <<g, now.perm>> \in holds
             next == [now EXCEPT !.at = "override", !.seen = {}, !.allowed = allowed]
  <2>1. allowed \in BOOLEAN
    OBVIOUS
  <2>2. now \in CheckCall /\ Goes(k, next)
    BY <1>2, <1>7 DEF ReadGroupPermissions
  <2> HIDE DEF allowed
  <2>3. next \in CheckCall
    BY <2>1, <2>2 DEF CheckCall
  <2> HIDE DEF next
  <2> QED BY <1>1, <2>2, <2>3
<1>8. CASE ReadOverride(k)
  <2> DEFINE effect == override[<<now.user, now.perm>>]
             answer == \/ effect = "GRANT"
                       \/ effect = "NONE" /\ now.allowed
             next == [at |-> "answered", answer |-> answer]
  <2>1. answer \in BOOLEAN
    OBVIOUS
  <2>2. Goes(k, next)
    BY <1>8 DEF ReadOverride
  <2> HIDE DEF answer
  <2>3. next \in Answer
    BY <2>1, Zenon DEF Answer
  <2> HIDE DEF next
  <2> QED BY <1>1, <2>2, <2>3
<1> QED BY <1>3, <1>4, <1>5, <1>6, <1>7, <1>8 DEF CheckStep

(* The tables hold rows of their types, the school none of the platform's  *)
(* role, and a call carries what its operation needs.                      *)
THEOREM TypeCorrect == Spec => []TypeOK
<1>1. Init => TypeOK
  <2> SUFFICES ASSUME Init PROVE TypeOK
    OBVIOUS
  <2>1. PICK known \in SUBSET Resources :
          roleRow = [k \in {"GLOBAL"} \X Roles \X known |-> DefaultFlags[<<k[2], k[3]>>]]
    BY DEF Init
  <2>2. DOMAIN roleRow = {"GLOBAL"} \X Roles \X known
    BY <2>1
  <2>3. DOMAIN roleRow \subseteq RowKeys
    BY <2>2 DEF RowKeys, Scopes
  <2>4. roleRow \in [DOMAIN roleRow -> SUBSET LegacyActions]
    BY <2>1, ConstantsAssumption
  <2> QED BY <2>3, <2>4 DEF Init, TypeOK
<1>2. TypeOK /\ [Next]_vars => TypeOK'
  <2> SUFFICES ASSUME TypeOK, [Next]_vars PROVE TypeOK'
    OBVIOUS
  <2>1. CASE UNCHANGED vars
    BY <2>1 DEF TypeOK, vars, tables
  <2> QED BY <2>1, StepIsChange, TransactionTyped, StatementTyped, CheckTyped DEF Change
<1> QED BY <1>1, <1>2, PTL DEF Spec

-----------------------------------------------------------------------------
(* Groups.  A call that holds the lock of a group is alone with it, the    *)
(* group stands until that call ends, and one that will be deleted has no  *)
(* assignment: none can be inserted without the lock.                      *)

Locks(c) == call[c].op \in {"delete", "replace", "assign"}
LockedStands == \A c \in Calls : Locks(c) => Stands(call[c].group)
OneHolder == \A c, d \in Calls :
               Locks(c) /\ Locks(d) /\ call[c].group = call[d].group => c = d
DeletedUnassigned == \A c \in Calls : call[c].op = "delete" =>
                       \A u \in Staff : <<u, call[c].group>> \notin assigned
GroupInv == LockedStands /\ OneHolder /\ DeletedUnassigned /\ NothingDangles

(* A step that takes no lock and leaves the group tables alone.            *)
LEMMA GroupInvStable ==
  ASSUME TypeOK, GroupInv, UNCHANGED <<group, holds, assigned>>,
         \A c \in Calls : Locks(c)' => call'[c] = call[c]
  PROVE  GroupInv'
<1>1. ASSUME NEW c \in Calls, Locks(c)' PROVE Locks(c) /\ call'[c] = call[c]
  BY <1>1 DEF Locks
<1>2. \A g : Stands(g)' = Stands(g)
  BY DEF Stands
<1>3. LockedStands'
  BY <1>1, <1>2 DEF GroupInv, LockedStands
<1>4. OneHolder'
  BY <1>1 DEF GroupInv, OneHolder
<1>5. DeletedUnassigned'
  BY <1>1 DEF GroupInv, DeletedUnassigned, Locks
<1>6. NothingDangles'
  BY <1>2 DEF GroupInv, NothingDangles
<1> QED BY <1>3, <1>4, <1>5, <1>6 DEF GroupInv

(* A transaction begins on a group that stands and that nobody holds.      *)
LEMMA GroupInvLock ==
  ASSUME TypeOK, GroupInv, NEW c \in Calls, NEW g \in Groups,
         Stands(g), ~Locked(g), NEW operation, Begin(c, operation),
         operation.group = g,
         operation.op = "delete" => \A u \in Staff : <<u, g>> \notin assigned
  PROVE  GroupInv'
<1>1. call'[c] = operation /\ \A d \in Calls \ {c} : call'[d] = call[d]
  BY DEF Begin, TypeOK
<1>2. UNCHANGED <<group, holds, assigned>>
  BY DEF Begin, tables
<1>3. \A d \in Calls : Locks(d) => call[d].group # g
  BY DEF Locked, Locks
<1>4. \A h : Stands(h)' = Stands(h)
  BY <1>2 DEF Stands
<1>5. ASSUME NEW d \in Calls, d # c PROVE Locks(d)' = Locks(d)
  BY <1>1, <1>5 DEF Locks
<1>6. LockedStands'
  BY <1>1, <1>4, <1>5 DEF GroupInv, LockedStands
<1>7. OneHolder'
  BY <1>1, <1>3, <1>5 DEF GroupInv, OneHolder
<1>8. DeletedUnassigned'
  BY <1>1, <1>2 DEF GroupInv, DeletedUnassigned
<1>9. NothingDangles'
  BY <1>2, <1>4 DEF GroupInv, NothingDangles
<1> QED BY <1>6, <1>7, <1>8, <1>9 DEF GroupInv

(* The end of a call: the others keep what they hold.                      *)
LEMMA FinishLocks ==
  ASSUME TypeOK, NEW c \in Calls, Finish(c)
  PROVE  /\ ~Locks(c)'
         /\ \A d \in Calls \ {c} : call'[d] = call[d] /\ Locks(d)' = Locks(d)
BY DEF TypeOK, Finish, Idle, Locks

LEMMA GroupInvTransaction ==
  ASSUME TypeOK, GroupInv, NEW c \in Calls, Transaction(c)
  PROVE  GroupInv'
<1>1. ASSUME NEW g \in Groups, DeletePermissionGroup(c, g) PROVE GroupInv'
  BY <1>1, GroupInvLock DEF DeletePermissionGroup
<1>2. ASSUME NEW g \in Groups, NEW perms \in SUBSET Permissions,
             SetPermissionGroupPermissions(c, g, perms)
      PROVE  GroupInv'
  BY <1>2, GroupInvLock DEF SetPermissionGroupPermissions
<1>3. ASSUME NEW g \in Groups, NEW u \in Staff, AssignPermissionGroup(c, u, g)
      PROVE  GroupInv'
  BY <1>3, GroupInvLock DEF AssignPermissionGroup
<1>4. ASSUME NEW u \in Staff, NEW p \in Permissions, NEW effect \in {"GRANT", "DENY"},
             SetUserPermission(c, u, p, effect)
      PROVE  GroupInv'
  BY <1>4, GroupInvStable DEF SetUserPermission, Begin, tables, Locks, TypeOK
<1>5. CASE SeedGlobalDefaultPermissions(c)
  BY <1>5, GroupInvStable DEF SeedGlobalDefaultPermissions, Begin, tables, Locks, TypeOK
<1>6. CASE SeedDefaultPermissions(c)
  BY <1>6, GroupInvStable DEF SeedDefaultPermissions, Locks, TypeOK
<1>7. CASE CommitDelete(c)
  <2> DEFINE g == call[c].group
  <2>1. g \in Groups /\ Locks(c) /\ group' = [group EXCEPT ![g] = "deleted"]
    BY <1>7 DEF CommitDelete, Locks, TypeOK, Idle, DeleteCall, ReplaceCall, AssignCall,
                SetCall, SeedCall
  <2>2. \A h \in Groups : h # g => Stands(h)' = Stands(h)
    BY <2>1 DEF Stands, TypeOK
  <2>3. ~Locks(c)' /\ \A d \in Calls \ {c} : call'[d] = call[d] /\ Locks(d)' = Locks(d)
    BY <1>7, FinishLocks DEF CommitDelete
  <2>4. \A d \in Calls \ {c} : Locks(d) => call[d].group # g /\ call[d].group \in Groups
    BY <2>1 DEF GroupInv, OneHolder, Locks, TypeOK, Idle, DeleteCall, ReplaceCall,
                AssignCall, SetCall, SeedCall
  <2>5. \A x \in assigned : x[2] \in Groups /\ x[2] # g
    <3>1. \A u \in Staff : <<u, g>> \notin assigned
      BY <1>7 DEF GroupInv, DeletedUnassigned, CommitDelete
    <3> QED BY <3>1 DEF TypeOK
  <2>6. holds' = {h \in holds : h[1] # g} /\ assigned' = assigned
    BY <1>7 DEF CommitDelete
  <2> HIDE DEF g
  <2>7. LockedStands'
    BY <2>2, <2>3, <2>4 DEF GroupInv, LockedStands
  <2>8. OneHolder'
    BY <2>3 DEF GroupInv, OneHolder
  <2>9. DeletedUnassigned'
    BY <2>3, <2>6 DEF GroupInv, DeletedUnassigned, Locks
  <2>10. NothingDangles'
    BY <2>2, <2>5, <2>6 DEF GroupInv, NothingDangles, TypeOK
  <2> QED BY <2>7, <2>8, <2>9, <2>10 DEF GroupInv
<1>8. CASE CommitReplace(c)
  <2>1. ~Locks(c)' /\ \A d \in Calls \ {c} : call'[d] = call[d] /\ Locks(d)' = Locks(d)
    BY <1>8, FinishLocks DEF CommitReplace
  <2>2. UNCHANGED <<group, assigned>> /\ \A h : Stands(h)' = Stands(h)
    BY <1>8 DEF CommitReplace, Stands
  <2>3. Stands(call[c].group)
    BY <1>8 DEF CommitReplace, GroupInv, LockedStands, Locks
  <2>4. \A h \in holds' : Stands(h[1])
    BY <1>8, <2>3 DEF CommitReplace, GroupInv, NothingDangles
  <2>5. LockedStands'
    BY <2>1, <2>2 DEF GroupInv, LockedStands
  <2>6. OneHolder'
    BY <2>1 DEF GroupInv, OneHolder
  <2>7. DeletedUnassigned'
    BY <2>1, <2>2 DEF GroupInv, DeletedUnassigned, Locks
  <2> QED BY <2>2, <2>4, <2>5, <2>6, <2>7 DEF GroupInv, NothingDangles
<1>9. CASE CommitAssign(c)
  <2>1. ~Locks(c)' /\ \A d \in Calls \ {c} : call'[d] = call[d] /\ Locks(d)' = Locks(d)
    BY <1>9, FinishLocks DEF CommitAssign
  <2>2. UNCHANGED <<group, holds>> /\ \A h : Stands(h)' = Stands(h)
    BY <1>9 DEF CommitAssign, Stands
  <2>3. Locks(c) /\ Stands(call[c].group)
    BY <1>9 DEF CommitAssign, GroupInv, LockedStands, Locks
  <2>4. assigned' \subseteq assigned \cup {<<call[c].user, call[c].group>>}
    BY <1>9 DEF CommitAssign
  <2>5. \A x \in assigned' : Stands(x[2])
    BY <2>3, <2>4 DEF GroupInv, NothingDangles
  <2>6. LockedStands'
    BY <2>1, <2>2 DEF GroupInv, LockedStands
  <2>7. OneHolder'
    BY <2>1 DEF GroupInv, OneHolder
  <2>8. DeletedUnassigned'
    <3> SUFFICES ASSUME NEW d \in Calls, call'[d].op = "delete", NEW u \in Staff
                 PROVE  <<u, call'[d].group>> \notin assigned'
      BY DEF DeletedUnassigned
    <3>1. d # c /\ call'[d] = call[d] /\ Locks(d)
      BY <2>1 DEF Locks
    <3>2. call[d].group # call[c].group
      BY <2>3, <3>1 DEF GroupInv, OneHolder
    <3>3. <<u, call[d].group>> \notin assigned
      BY <3>1 DEF GroupInv, DeletedUnassigned
    <3> QED BY <2>4, <3>1, <3>2, <3>3
  <2> QED BY <2>2, <2>5, <2>6, <2>7, <2>8 DEF GroupInv, NothingDangles
<1>10. CASE SaveUserPermission(c)
  BY <1>10, FinishLocks, GroupInvStable DEF SaveUserPermission
<1>11. CASE InsertRows(c)
  BY <1>11, FinishLocks, GroupInvStable DEF InsertRows
<1>12. CASE Fail(c)
  BY <1>12, FinishLocks, GroupInvStable DEF Fail, tables
<1> QED
  BY <1>1, <1>2, <1>3, <1>4, <1>5, <1>6, <1>7, <1>8, <1>9, <1>10, <1>11, <1>12
  DEF Transaction

LEMMA GroupInvStatement ==
  ASSUME TypeOK, GroupInv, Statement
  PROVE  GroupInv'
<1>1. ASSUME NEW g \in Groups, NEW now \in {"active", "inactive"}, group[g] # "deleted",
             group' = [group EXCEPT ![g] = now], UNCHANGED <<holds, assigned, call>>
      PROVE  GroupInv'
  <2>1. \A h \in Groups : Stands(h) => Stands(h)'
    BY <1>1 DEF Stands, TypeOK
  <2>2. \A d \in Calls : Locks(d)' = Locks(d) /\ (Locks(d) => call[d].group \in Groups)
    BY <1>1 DEF Locks, TypeOK, Idle, DeleteCall, ReplaceCall, AssignCall, SetCall, SeedCall
  <2>3. LockedStands' /\ OneHolder' /\ DeletedUnassigned'
    BY <1>1, <2>1, <2>2 DEF GroupInv, LockedStands, OneHolder, DeletedUnassigned
  <2>4. NothingDangles'
    BY <1>1, <2>1 DEF GroupInv, NothingDangles, TypeOK
  <2> QED BY <2>3, <2>4 DEF GroupInv
<1>2. ASSUME NEW g \in Groups, CreatePermissionGroup(g) PROVE GroupInv'
  BY <1>1, <1>2 DEF CreatePermissionGroup
<1>3. ASSUME NEW g \in Groups, NEW isActive \in {"active", "inactive"},
             UpdatePermissionGroup(g, isActive)
      PROVE  GroupInv'
  BY <1>1, <1>3 DEF UpdatePermissionGroup, Stands
<1>4. ASSUME NEW g \in Groups, NEW u \in Staff, RemovePermissionGroup(u, g) PROVE GroupInv'
  <2>1. assigned' \subseteq assigned /\ UNCHANGED <<group, holds, call>>
    BY <1>4 DEF RemovePermissionGroup
  <2>2. \A h : Stands(h)' = Stands(h)
    BY <2>1 DEF Stands
  <2> QED
    BY <2>1, <2>2 DEF GroupInv, LockedStands, OneHolder, DeletedUnassigned, NothingDangles,
                      Locks
<1>5. ASSUME NEW u \in Staff, NEW p \in Permissions, RemoveUserPermission(u, p)
      PROVE  GroupInv'
  <2>1. \A c \in Calls : call'[c] # call[c] => call[c].op = "set" /\ call'[c].op = "set"
    <3>1. ASSUME NEW c \in Calls, call[c].op = "set"
          PROVE  [call[c] EXCEPT !.found = FALSE].op = "set"
      BY <3>1 DEF TypeOK, Idle, DeleteCall, ReplaceCall, AssignCall, SetCall, SeedCall
    <3> QED BY <1>5, <3>1 DEF RemoveUserPermission
  <2>2. \A c \in Calls : Locks(c)' => call'[c] = call[c]
    BY <2>1 DEF Locks
  <2> QED BY <1>5, <2>2, GroupInvStable DEF RemoveUserPermission
<1>6. ASSUME NEW key \in DOMAIN roleRow, NEW flags \in SUBSET LegacyActions,
             UpdateRolePermission(key, flags)
      PROVE  GroupInv'
  BY <1>6, GroupInvStable DEF UpdateRolePermission
<1> QED BY <1>2, <1>3, <1>4, <1>5, <1>6 DEF Statement

(* `Assigned groups cannot be deleted', whatever overlaps: assignments and *)
(* group permissions belong to groups that exist.                          *)
THEOREM NothingDanglesAlways == Spec => []NothingDangles
<1>1. Init => GroupInv
  BY DEF Init, GroupInv, LockedStands, OneHolder, DeletedUnassigned, NothingDangles, Locks,
         Idle
<1>2. TypeOK /\ GroupInv /\ [Next]_vars => GroupInv'
  <2> SUFFICES ASSUME TypeOK, GroupInv, [Next]_vars PROVE GroupInv'
    OBVIOUS
  <2>1. ASSUME NEW k \in Checks, CheckStep(k) PROVE GroupInv'
    BY <2>1, GroupInvStable DEF CheckStep, tables
  <2>2. CASE UNCHANGED vars
    BY <2>2, GroupInvStable DEF vars, tables
  <2> QED BY <2>1, <2>2, StepIsChange, GroupInvTransaction, GroupInvStatement DEF Change
<1>3. GroupInv => NothingDangles
  BY DEF GroupInv
<1> QED BY <1>1, <1>2, <1>3, TypeCorrect, PTL DEF Spec

-----------------------------------------------------------------------------
(* Role rows.  A seeding inserts the rows of all management roles or of    *)
(* none, so that the profile is never half there.                          *)

RowOf(s, role, r) == <<s, role, r>>
SeedsWholeProfiles ==
  \A c \in Calls : call[c].op = "seed" =>
    \A s \in Scopes, r \in Resources, a, b \in Management :
      RowOf(s, a, r) \in call[c].missing =>
        RowOf(s, b, r) \in call[c].missing \cup DOMAIN roleRow
RowInv == ManagementProfilesAgree /\ SeedsWholeProfiles

LEMMA ManagementRows ==
  ASSUME NEW s \in Scopes, NEW r \in Resources, NEW a \in Management
  PROVE  /\ RowOf(s, a, r) \in SeededRows(s)
         /\ \A t \in Scopes : RowOf(s, a, r) \in SeededRows(t) => t = s
         /\ a \notin {SuperAdmin, SchoolAdmin}
         /\ PermissionProfile(a) = Principal
BY ConstantsAssumption DEF Scopes, SeededRows, RowOf, PermissionProfile

(* A step that leaves the rows alone and begins no seeding.                *)
LEMMA RowInvStable ==
  ASSUME TypeOK, RowInv, UNCHANGED roleRow,
         \A c \in Calls : call'[c].op = "seed" => call'[c] = call[c]
  PROVE  RowInv'
<1>1. ManagementProfilesAgree'
  BY DEF RowInv, ManagementProfilesAgree
<1>2. SeedsWholeProfiles'
  <2> SUFFICES ASSUME NEW c \in Calls, call'[c].op = "seed",
                      NEW s \in Scopes, NEW r \in Resources,
                      NEW a \in Management, NEW b \in Management,
                      RowOf(s, a, r) \in call'[c].missing
               PROVE  RowOf(s, b, r) \in call'[c].missing \cup DOMAIN roleRow
    BY DEF SeedsWholeProfiles
  <2> QED BY DEF RowInv, SeedsWholeProfiles
<1> QED BY <1>1, <1>2 DEF RowInv

LEMMA RowInvSeed ==
  ASSUME TypeOK, RowInv, NEW c \in Calls, NEW t \in Scopes, UNCHANGED roleRow,
         call' = [call EXCEPT ![c] =
                   [op |-> "seed", missing |-> SeededRows(t) \ DOMAIN roleRow]]
  PROVE  RowInv'
<1>1. ManagementProfilesAgree'
  BY DEF RowInv, ManagementProfilesAgree
<1>2. SeedsWholeProfiles'
  <2> SUFFICES ASSUME NEW d \in Calls, call'[d].op = "seed",
                      NEW s \in Scopes, NEW r \in Resources,
                      NEW a \in Management, NEW b \in Management,
                      RowOf(s, a, r) \in call'[d].missing
               PROVE  RowOf(s, b, r) \in call'[d].missing \cup DOMAIN roleRow
    BY DEF SeedsWholeProfiles
  <2>1. CASE d = c
    <3>1. call'[d].missing = SeededRows(t) \ DOMAIN roleRow
      BY <2>1 DEF TypeOK
    <3>2. t = s /\ RowOf(s, b, r) \in SeededRows(t)
      BY <3>1, ManagementRows
    <3> QED BY <3>1, <3>2
  <2>2. CASE d # c
    <3>1. call'[d] = call[d]
      BY <2>2 DEF TypeOK
    <3> QED BY <3>1 DEF RowInv, SeedsWholeProfiles
  <2> QED BY <2>1, <2>2
<1> QED BY <1>1, <1>2 DEF RowInv

LEMMA RowInvInsert ==
  ASSUME TypeOK, RowInv, NEW c \in Calls, InsertRows(c)
  PROVE  RowInv'
<1> DEFINE missing == call[c].missing
<1>1. /\ DOMAIN roleRow' = DOMAIN roleRow \cup missing
      /\ \A k \in DOMAIN roleRow : roleRow'[k] = roleRow[k]
      /\ \A k \in missing \ DOMAIN roleRow : roleRow'[k] = DefaultFlags[<<k[2], k[3]>>]
  BY DEF InsertRows, InsertOrIgnore
<1>2. ASSUME NEW s \in Scopes, NEW r \in Resources, NEW a \in Management,
             NEW b \in Management, RowOf(s, a, r) \in DOMAIN roleRow'
      PROVE  /\ RowOf(s, b, r) \in DOMAIN roleRow'
             /\ roleRow'[RowOf(s, a, r)] = roleRow'[RowOf(s, b, r)]
  <2>1. CASE RowOf(s, a, r) \in DOMAIN roleRow
    BY <1>1, <2>1 DEF RowInv, ManagementProfilesAgree, RowOf
  <2>2. CASE RowOf(s, a, r) \notin DOMAIN roleRow
    <3>1. RowOf(s, b, r) \notin DOMAIN roleRow
      BY <2>2 DEF RowInv, ManagementProfilesAgree, RowOf
    <3>2. RowOf(s, a, r) \in missing /\ RowOf(s, b, r) \in missing
      BY <1>1, <1>2, <2>2, <3>1 DEF RowInv, SeedsWholeProfiles, InsertRows
    <3>3. DefaultFlags[<<a, r>>] = DefaultFlags[<<b, r>>]
      BY ConstantsAssumption
    <3> QED BY <1>1, <2>2, <3>1, <3>2, <3>3 DEF RowOf
  <2> QED BY <2>1, <2>2
<1>3. ManagementProfilesAgree'
  BY <1>2 DEF ManagementProfilesAgree, RowOf
<1>4. SeedsWholeProfiles'
  <2> SUFFICES ASSUME NEW d \in Calls, call'[d].op = "seed",
                      NEW s \in Scopes, NEW r \in Resources,
                      NEW a \in Management, NEW b \in Management,
                      RowOf(s, a, r) \in call'[d].missing
               PROVE  RowOf(s, b, r) \in call'[d].missing \cup DOMAIN roleRow'
    BY DEF SeedsWholeProfiles
  <2>1. call'[d] = call[d]
    BY DEF InsertRows, Finish, Idle, TypeOK
  <2> QED BY <1>1, <2>1 DEF RowInv, SeedsWholeProfiles
<1> QED BY <1>3, <1>4 DEF RowInv

LEMMA RowInvUpdate ==
  ASSUME TypeOK, RowInv, NEW key \in DOMAIN roleRow, NEW flags,
         UpdateRolePermission(key, flags)
  PROVE  RowInv'
<1>1. /\ DOMAIN roleRow' = DOMAIN roleRow
      /\ \A k \in DOMAIN roleRow :
           roleRow'[k] = IF k[1] = key[1] /\ SameProfile(k[2], key[2]) /\ k[3] = key[3]
                         THEN flags ELSE roleRow[k]
  BY DEF UpdateRolePermission
<1>2. \A a, b \in Management : SameProfile(a, key[2]) = SameProfile(b, key[2])
  BY DEF SameProfile, PermissionProfile
<1>3. ManagementProfilesAgree'
  BY <1>1, <1>2 DEF RowInv, ManagementProfilesAgree
<1>4. SeedsWholeProfiles'
  BY <1>1 DEF RowInv, SeedsWholeProfiles, UpdateRolePermission
<1> QED BY <1>3, <1>4 DEF RowInv

(* The three management roles have one profile in every scope, through     *)
(* edits, seedings and their overlaps.                                     *)
THEOREM ManagementProfilesAgreeAlways == Spec => []ManagementProfilesAgree
<1>1. Init => RowInv
  <2> SUFFICES ASSUME Init PROVE RowInv
    OBVIOUS
  <2>1. PICK known \in SUBSET Resources :
          roleRow = [k \in {"GLOBAL"} \X Roles \X known |-> DefaultFlags[<<k[2], k[3]>>]]
    BY DEF Init
  <2>2. Management \subseteq Roles
    BY ConstantsAssumption
  <2>3. ManagementProfilesAgree
    BY <2>1, <2>2, ConstantsAssumption DEF ManagementProfilesAgree
  <2>4. SeedsWholeProfiles
    BY DEF Init, SeedsWholeProfiles, Idle
  <2> QED BY <2>3, <2>4 DEF RowInv
<1>2. TypeOK /\ RowInv /\ [Next]_vars => RowInv'
  <2> SUFFICES ASSUME TypeOK, RowInv, [Next]_vars PROVE RowInv'
    OBVIOUS
  <2>1. ASSUME NEW c \in Calls, Transaction(c) PROVE RowInv'
    <3>1. ASSUME NEW operation, operation.op # "seed", Begin(c, operation) PROVE RowInv'
      BY <3>1, RowInvStable DEF Begin, tables, TypeOK
    <3>2. ASSUME Finish(c), UNCHANGED roleRow PROVE RowInv'
      BY <3>2, RowInvStable DEF Finish, Idle, TypeOK
    <3>3. ASSUME NEW g \in Groups, DeletePermissionGroup(c, g) PROVE RowInv'
      BY <3>1, <3>3 DEF DeletePermissionGroup
    <3>4. ASSUME NEW g \in Groups, NEW perms \in SUBSET Permissions,
                 SetPermissionGroupPermissions(c, g, perms)
          PROVE  RowInv'
      BY <3>1, <3>4 DEF SetPermissionGroupPermissions
    <3>5. ASSUME NEW g \in Groups, NEW u \in Staff, AssignPermissionGroup(c, u, g)
          PROVE  RowInv'
      BY <3>1, <3>5 DEF AssignPermissionGroup
    <3>6. ASSUME NEW u \in Staff, NEW p \in Permissions, NEW effect \in {"GRANT", "DENY"},
                 SetUserPermission(c, u, p, effect)
          PROVE  RowInv'
      BY <3>1, <3>6 DEF SetUserPermission
    <3>7. CASE SeedGlobalDefaultPermissions(c)
      BY <3>7, RowInvSeed DEF SeedGlobalDefaultPermissions, Begin, tables, Scopes
    <3>8. CASE SeedDefaultPermissions(c)
      BY <3>8, RowInvSeed DEF SeedDefaultPermissions, Scopes
    <3> QED
      BY <2>1, <3>2, <3>3, <3>4, <3>5, <3>6, <3>7, <3>8, RowInvInsert
      DEF Transaction, CommitDelete, CommitReplace, CommitAssign, SaveUserPermission, Fail,
          tables
  <2>2. CASE Statement
    <3>1. ASSUME UNCHANGED <<roleRow, call>> PROVE RowInv'
      BY <3>1, RowInvStable
    <3>2. ASSUME NEW u \in Staff, NEW p \in Permissions, RemoveUserPermission(u, p)
          PROVE  RowInv'
      <4>1. \A c \in Calls : call'[c].op = "seed" => call'[c] = call[c]
        <5>1. ASSUME NEW c \in Calls, call[c].op = "set"
              PROVE  [call[c] EXCEPT !.found = FALSE].op = "set"
          BY <5>1 DEF TypeOK, Idle, DeleteCall, ReplaceCall, AssignCall, SetCall, SeedCall
        <5> QED BY <3>2, <5>1 DEF RemoveUserPermission
      <4> QED BY <3>2, <4>1, RowInvStable DEF RemoveUserPermission
    <3> QED
      BY <2>2, <3>1, <3>2, RowInvUpdate
      DEF Statement, CreatePermissionGroup, UpdatePermissionGroup, RemovePermissionGroup
  <2>3. ASSUME NEW k \in Checks, CheckStep(k) PROVE RowInv'
    BY <2>3, RowInvStable DEF CheckStep, tables
  <2>4. CASE UNCHANGED vars
    BY <2>4, RowInvStable DEF vars, tables
  <2> QED BY <2>1, <2>2, <2>3, <2>4, StepIsChange DEF Change
<1>3. RowInv => ManagementProfilesAgree
  BY DEF RowInv
<1> QED BY <1>1, <1>2, <1>3, TypeCorrect, PTL DEF Spec

-----------------------------------------------------------------------------
(* Seeding decides what is missing before it inserts; that a row an        *)
(* administrator has edited meanwhile stays as it is rests on the INSERT,  *)
(* which leaves rows that exist alone.  So every change of a row is an     *)
(* administrator's, of that row or of another one of its profile.          *)
LEMMA SeedingKeepsRows ==
  ASSUME NEW c \in Calls, InsertRows(c), NEW k \in DOMAIN roleRow
  PROVE  k \in DOMAIN roleRow' /\ roleRow'[k] = roleRow[k]
BY DEF InsertRows, InsertOrIgnore

LEMMA UpdateChangesProfile ==
  ASSUME NEW key \in DOMAIN roleRow, NEW flags, UpdateRolePermission(key, flags),
         NEW k \in DOMAIN roleRow
  PROVE  /\ k \in DOMAIN roleRow'
         /\ roleRow'[k] # roleRow[k] => UpdateRolePermission(k, roleRow'[k])
<1>1. k \in DOMAIN roleRow'
  BY DEF UpdateRolePermission
<1>2. ASSUME roleRow'[k] # roleRow[k] PROVE UpdateRolePermission(k, roleRow'[k])
  <2>1. /\ roleRow'[k] = flags
        /\ k[1] = key[1] /\ SameProfile(k[2], key[2]) /\ k[3] = key[3]
    BY <1>2 DEF UpdateRolePermission
  <2>2. k[2] \notin {SuperAdmin, SchoolAdmin}
    BY <2>1, ConstantsAssumption DEF UpdateRolePermission, SameProfile, PermissionProfile
  <2>3. \A x : SameProfile(x, k[2]) <=> SameProfile(x, key[2])
    BY <2>1 DEF SameProfile
  <2>4. roleRow' = [x \in DOMAIN roleRow |->
                     IF x[1] = k[1] /\ SameProfile(x[2], k[2]) /\ x[3] = k[3]
                     THEN flags ELSE roleRow[x]]
    BY <2>1, <2>3 DEF UpdateRolePermission
  <2> QED BY <2>1, <2>2, <2>4 DEF UpdateRolePermission
<1> QED BY <1>1, <1>2

(* Whatever seedings and edits overlap, no role row disappears, and a row  *)
(* changes only by an administrator's update of its profile.               *)
THEOREM DecisionsSurviveSeedingAlways == Spec => DecisionsSurviveSeeding
<1> DEFINE Survives ==
      \A k \in DOMAIN roleRow :
        /\ k \in DOMAIN roleRow'
        /\ roleRow'[k] # roleRow[k] => UpdateRolePermission(k, roleRow'[k])
<1>1. [Next]_vars => [Survives]_roleRow
  <2> SUFFICES ASSUME [Next]_vars, roleRow' # roleRow PROVE Survives
    OBVIOUS
  <2>1. ASSUME NEW c \in Calls, Transaction(c) PROVE Survives
    <3>1. InsertRows(c)
      BY <2>1
      DEF Transaction, DeletePermissionGroup, SetPermissionGroupPermissions,
          AssignPermissionGroup, SetUserPermission, SeedGlobalDefaultPermissions,
          SeedDefaultPermissions, CommitDelete, CommitReplace, CommitAssign,
          SaveUserPermission, Fail, Begin, tables
    <3> QED BY <3>1, SeedingKeepsRows
  <2>2. CASE Statement
    <3>1. PICK key \in DOMAIN roleRow, flags \in SUBSET LegacyActions :
            UpdateRolePermission(key, flags)
      BY <2>2
      DEF Statement, CreatePermissionGroup, UpdatePermissionGroup, RemovePermissionGroup,
          RemoveUserPermission
    <3> QED BY <3>1, UpdateChangesProfile
  <2>3. ASSUME NEW k \in Checks, CheckStep(k) PROVE FALSE
    BY <2>3 DEF CheckStep, tables
  <2> QED BY <2>1, <2>2, <2>3, StepIsChange DEF Change, vars, tables
<1> QED BY <1>1, PTL DEF Spec, DecisionsSurviveSeeding

(* What a permission check may read at any moment: no assignment and no    *)
(* permission of a group that is gone, and one profile of the management   *)
(* roles, whichever calls, seedings included, are under way.               *)
THEOREM TablesSoundAlways == Spec => []TablesSound
BY NothingDanglesAlways, ManagementProfilesAgreeAlways, PTL DEF TablesSound

-----------------------------------------------------------------------------
(* The answer of hasPermission.                                            *)

LEMMA PairsAreNoSingletons == \A x, y, z : <<x>> # <<y, z>>
<1> SUFFICES ASSUME NEW x, NEW y, NEW z, <<x>> = <<y, z>> PROVE FALSE
  OBVIOUS
<1>1. DOMAIN <<x>> = 1 .. 1 /\ DOMAIN <<y, z>> = 1 .. 2
  OBVIOUS
<1> QED BY <1>1

(* A fact is in the history exactly when the tables say so. *)
LEMMA FactsMeaning ==
  ASSUME TypeOK, NEW u \in Staff, NEW p \in Permissions
  PROVE  /\ <<"role">> \in Facts(u, p) <=> RoleAllows(u, p)
         /\ \A e \in {"GRANT", "DENY"} : <<e>> \in Facts(u, p) <=> override[<<u, p>>] = e
         /\ \A g \in Groups :
              /\ <<"member", g>> \in Facts(u, p) <=> <<u, g>> \in assigned
              /\ <<"active", g>> \in Facts(u, p) <=> group[g] = "active"
              /\ <<"holds", g>> \in Facts(u, p) <=> <<g, p>> \in holds
<1> DEFINE single == {x \in {"role"} : RoleAllows(u, p)} \cup {override[<<u, p>>]}
<1>1. override[<<u, p>>] \in {"NONE", "GRANT", "DENY"}
  BY DEF TypeOK
<1>2. \A x : <<x>> \in Facts(u, p) <=> x \in single
  <2>1. \A x, y : <<x>> = <<y>> <=> x = y
    OBVIOUS
  <2> QED BY <2>1, PairsAreNoSingletons DEF Facts
<1>3. \A a \in {"member", "active", "holds"}, g \in Groups :
        <<a, g>> \in Facts(u, p) <=>
          \/ a = "member" /\ <<u, g>> \in assigned
          \/ a = "active" /\ group[g] = "active"
          \/ a = "holds" /\ <<g, p>> \in holds
  BY PairsAreNoSingletons DEF Facts
<1> QED BY <1>1, <1>2, <1>3

-----------------------------------------------------------------------------
(* What a check in progress carries.  always[k] holds now, and what holds  *)
(* now is in ever[k]; so a fact that stood all along was found by the      *)
(* query that looked for it, and a fact that a query found is in ever[k].  *)

InProgress(k) == check[k] \in CheckCall
Now(k) == Facts(check[k].user, check[k].perm)
Member(g) == <<"member", g>>
Active(g) == <<"active", g>>
Holds(g)  == <<"holds", g>>
Reason(facts) ==
  \/ <<"role">> \in facts
  \/ \E g \in Groups : Member(g) \in facts /\ Active(g) \in facts /\ Holds(g) \in facts

HistoryInv(k) == always[k] \subseteq Now(k) /\ Now(k) \subseteq ever[k]

(* Nothing that stood all along was missed. *)
NoneMissed(k) ==
  /\ check[k].at # "role" /\ <<"role">> \in always[k] => check[k].allowed
  /\ \A g \in Groups :
       Member(g) \in always[k] =>
         /\ check[k].at = "groups" => g \in check[k].seen
         /\ Active(g) \in always[k] =>
              /\ check[k].at = "permissions" => g \in check[k].seen
              /\ Holds(g) \in always[k] /\ check[k].at = "override" => check[k].allowed

(* Nothing is carried that never stood. *)
NoneInvented(k) ==
  /\ check[k].allowed => Reason(ever[k])
  /\ \A g \in check[k].seen :
       /\ check[k].at \in {"groups", "permissions"} => Member(g) \in ever[k]
       /\ check[k].at = "permissions" => Active(g) \in ever[k]

CheckInv == \A k \in Checks :
              InProgress(k) => HistoryInv(k) /\ NoneMissed(k) /\ NoneInvented(k)

(* What Observe adds to the history of a check.                            *)
LEMMA Observed ==
  ASSUME NEW k \in Checks, Observe, InProgress(k)'
  PROVE  /\ ever'[k] = ever[k] \cup Now(k)'
         /\ always'[k] = IF InProgress(k) THEN always[k] \cap Now(k)' ELSE Now(k)'
BY DEF Observe, InProgress, Now

(* Another call, or another check, took the step. *)
LEMMA OthersKeepCheck ==
  ASSUME CheckInv, NEW k \in Checks, Observe, InProgress(k)', check'[k] = check[k]
  PROVE  (HistoryInv(k) /\ NoneMissed(k) /\ NoneInvented(k))'
<1>1. InProgress(k)
  BY DEF InProgress
<1>2. HistoryInv(k) /\ NoneMissed(k) /\ NoneInvented(k)
  BY <1>1 DEF CheckInv
<1>3. ever'[k] = ever[k] \cup Now(k)' /\ always'[k] = always[k] \cap Now(k)'
  BY <1>1, Observed
<1>4. HistoryInv(k)'
  BY <1>3 DEF HistoryInv
<1>5. NoneMissed(k)'
  BY <1>2, <1>3 DEF NoneMissed, Member, Active, Holds
<1>6. NoneInvented(k)'
  BY <1>2, <1>3 DEF NoneInvented, Reason, Member, Active, Holds
<1> QED BY <1>4, <1>5, <1>6

(* A query of the check itself, which reads the tables as they are. *)
LEMMA QueryKeepsCheck ==
  ASSUME TypeOK, CheckInv, NEW k \in Checks, Observe, CheckStep(k), InProgress(k)'
  PROVE  (HistoryInv(k) /\ NoneMissed(k) /\ NoneInvented(k))'
<1>1. ASSUME NEW u \in Staff, NEW p \in Permissions PROVE Facts(u, p)' = Facts(u, p)
  BY DEF CheckStep, tables, Facts, RoleAllows
<1>2. CASE \E u \in Staff, p \in Permissions : HasPermission(k, u, p)
  <2>1. PICK u \in Staff, p \in Permissions : HasPermission(k, u, p)
    BY <1>2
  <2>2. ~InProgress(k)
    BY <2>1 DEF HasPermission, InProgress, CheckCall
  <2>3. check'[k] = [at |-> "role", user |-> u, perm |-> p, allowed |-> FALSE, seen |-> {}]
    BY <2>1 DEF HasPermission, Goes, TypeOK
  <2>4. ever'[k] = ever[k] \cup Now(k)' /\ always'[k] = Now(k)'
    BY <2>2, Observed
  <2> QED BY <2>3, <2>4 DEF HistoryInv, NoneMissed, NoneInvented
<1>3. CASE InProgress(k)
  <2> DEFINE u == check[k].user
             p == check[k].perm
  <2>1. /\ u \in Staff /\ p \in Permissions /\ check[k].seen \subseteq Groups
        /\ check[k].allowed \in BOOLEAN
    BY <1>3 DEF InProgress, CheckCall
  <2>2. HistoryInv(k) /\ NoneMissed(k) /\ NoneInvented(k)
    BY <1>3 DEF CheckInv
  <2>3. /\ ReadRole(k) \/ ReadAssignments(k) \/ ReadGroups(k) \/ ReadGroupPermissions(k)
        /\ check'[k].user = u /\ check'[k].perm = p
    <3>1. ~ReadOverride(k)
      BY DEF ReadOverride, Goes, InProgress, CheckCall, TypeOK
    <3>2. ~\E v \in Staff, q \in Permissions : HasPermission(k, v, q)
      BY <1>3 DEF HasPermission, InProgress, CheckCall
    <3>3. ReadRole(k) \/ ReadAssignments(k) \/ ReadGroups(k) \/ ReadGroupPermissions(k)
      BY <3>1, <3>2 DEF CheckStep
    <3>4. \A x, y, z : LET c == [check[k] EXCEPT !.at = x, !.allowed = y]
                           d == [check[k] EXCEPT !.at = x, !.seen = z]
                           e == [check[k] EXCEPT !.at = x, !.seen = z, !.allowed = y]
                       IN  /\ c.user = u /\ d.user = u /\ e.user = u
                           /\ c.perm = p /\ d.perm = p /\ e.perm = p
      BY <1>3 DEF InProgress, CheckCall
    <3>5. ReadRole(k) => check'[k].user = u /\ check'[k].perm = p
      BY <3>4 DEF ReadRole, Goes, TypeOK
    <3>6. ReadAssignments(k) => check'[k].user = u /\ check'[k].perm = p
      BY <3>4 DEF ReadAssignments, Goes, TypeOK
    <3>7. ReadGroups(k) => check'[k].user = u /\ check'[k].perm = p
      BY <3>4 DEF ReadGroups, Goes, TypeOK
    <3>8. ReadGroupPermissions(k) => check'[k].user = u /\ check'[k].perm = p
      BY <3>4 DEF ReadGroupPermissions, Goes, TypeOK
    <3> QED BY <3>3, <3>5, <3>6, <3>7, <3>8
  <2>4. Now(k)' = Now(k)
    BY <1>1, <2>1, <2>3 DEF Now
  <2>5. ever'[k] = ever[k] /\ always'[k] = always[k]
    BY <1>3, <2>2, <2>4, Observed DEF HistoryInv
  <2>6. HistoryInv(k)'
    BY <2>2, <2>4, <2>5 DEF HistoryInv
  <2>7. /\ <<"role">> \in Now(k) <=> RoleAllows(u, p)
        /\ \A g \in Groups : /\ Member(g) \in Now(k) <=> <<u, g>> \in assigned
                             /\ Active(g) \in Now(k) <=> group[g] = "active"
                             /\ Holds(g) \in Now(k) <=> <<g, p>> \in holds
    BY <2>1, FactsMeaning DEF Now, Member, Active, Holds
  <2>8. CASE ReadRole(k)
    <3>1. check'[k] = [check[k] EXCEPT !.at = "assignments", !.allowed = RoleAllows(u, p)]
      BY <2>8 DEF ReadRole, Goes, TypeOK
    <3>2. check'[k].at = "assignments" /\ check'[k].allowed = RoleAllows(u, p)
      BY <1>3, <3>1 DEF InProgress, CheckCall
    <3>3. NoneMissed(k)'
      BY <2>2, <2>5, <2>7, <3>2 DEF NoneMissed, HistoryInv
    <3>4. NoneInvented(k)'
      BY <2>2, <2>5, <2>7, <3>2 DEF NoneInvented, HistoryInv, Reason
    <3> QED BY <2>6, <3>3, <3>4
  <2>9. CASE ReadAssignments(k)
    <3> DEFINE found == {g \in Groups : <<u, g>> \in assigned}
    <3>1. check'[k] = [check[k] EXCEPT !.at = IF found = {} THEN "override" ELSE "groups",
                                       !.seen = found]
      BY <2>9 DEF ReadAssignments, Goes, TypeOK
    <3>2. /\ check[k].at = "assignments"
          /\ check'[k].at = IF found = {} THEN "override" ELSE "groups"
          /\ check'[k].seen = found /\ check'[k].allowed = check[k].allowed
      BY <1>3, <2>9, <3>1 DEF ReadAssignments, InProgress, CheckCall
    <3>3. NoneMissed(k)'
      BY <2>2, <2>5, <2>7, <3>2 DEF NoneMissed, HistoryInv
    <3>4. NoneInvented(k)'
      BY <2>2, <2>5, <2>7, <3>2 DEF NoneInvented, HistoryInv
    <3> QED BY <2>6, <3>3, <3>4
  <2>10. CASE ReadGroups(k)
    <3> DEFINE found == {g \in check[k].seen : group[g] = "active"}
    <3>1. check'[k] = [check[k] EXCEPT !.at = IF found = {} THEN "override" ELSE "permissions",
                                       !.seen = found]
      BY <2>10 DEF ReadGroups, Goes, TypeOK
    <3>2. /\ check[k].at = "groups"
          /\ check'[k].at = IF found = {} THEN "override" ELSE "permissions"
          /\ check'[k].seen = found /\ check'[k].allowed = check[k].allowed
      BY <1>3, <2>10, <3>1 DEF ReadGroups, InProgress, CheckCall
    <3>3. NoneMissed(k)'
      BY <2>2, <2>5, <2>7, <3>2 DEF NoneMissed, HistoryInv
    <3>4. NoneInvented(k)'
      BY <2>1, <2>2, <2>5, <2>7, <3>2 DEF NoneInvented, HistoryInv
    <3> QED BY <2>6, <3>3, <3>4
  <2>11. CASE ReadGroupPermissions(k)
    <3> DEFINE held == \E g \in check[k].seen : <<g, p>> \in holds
    <3>1. check'[k] = [check[k] EXCEPT !.at = "override", !.seen = {},
                                       !.allowed = @ \/ held]
      BY <2>11 DEF ReadGroupPermissions, Goes, TypeOK
    <3>2. /\ check[k].at = "permissions" /\ check'[k].at = "override"
          /\ check'[k].seen = {} /\ check'[k].allowed = (check[k].allowed \/ held)
      BY <1>3, <2>11, <3>1 DEF ReadGroupPermissions, InProgress, CheckCall
    <3>3. NoneMissed(k)'
      BY <2>2, <2>5, <2>7, <3>2 DEF NoneMissed, HistoryInv
    <3>4. held => Reason(ever[k])
      BY <2>1, <2>2, <2>7, <3>2 DEF NoneInvented, HistoryInv, Reason
    <3>5. NoneInvented(k)'
      BY <2>2, <2>5, <3>2, <3>4 DEF NoneInvented
    <3> QED BY <2>6, <3>3, <3>5
  <2> QED BY <2>3, <2>8, <2>9, <2>10, <2>11
<1> QED
  BY <1>2, <1>3
  DEF CheckStep, ReadRole, ReadAssignments, ReadGroups, ReadGroupPermissions, ReadOverride,
      InProgress, CheckCall, TypeOK, NoCheck, Answer

LEMMA CheckInvAlways == Spec => []CheckInv
<1>1. Init => CheckInv
  BY DEF Init, CheckInv, InProgress, CheckCall, NoCheck
<1>2. TypeOK /\ CheckInv /\ [Next]_vars => CheckInv'
  <2> SUFFICES ASSUME TypeOK, CheckInv, [Next]_vars, NEW k \in Checks, InProgress(k)'
               PROVE  (HistoryInv(k) /\ NoneMissed(k) /\ NoneInvented(k))'
    BY DEF CheckInv
  <2>1. CASE UNCHANGED vars
    <3>1. InProgress(k) /\ Now(k)' = Now(k)
      BY <2>1 DEF vars, tables, InProgress, Now, Facts, RoleAllows
    <3>2. HistoryInv(k) /\ NoneMissed(k) /\ NoneInvented(k)
      BY <3>1 DEF CheckInv
    <3>3. HistoryInv(k)'
      BY <2>1, <3>1, <3>2 DEF vars, HistoryInv
    <3>4. NoneMissed(k)'
      BY <2>1, <3>2 DEF vars, NoneMissed, Member, Active, Holds
    <3>5. NoneInvented(k)'
      BY <2>1, <3>2 DEF vars, NoneInvented, Reason, Member, Active, Holds
    <3> QED BY <3>3, <3>4, <3>5
  <2>2. CASE Next /\ CheckStep(k)
    BY <2>2, QueryKeepsCheck DEF Next
  <2>3. CASE Next /\ ~CheckStep(k)
    <3>1. Observe
      BY <2>3 DEF Next
    <3>2. check'[k] = check[k]
      <4>1. ASSUME NEW j \in Checks, CheckStep(j), j # k PROVE check'[k] = check[k]
        BY <4>1 DEF CheckStep, HasPermission, ReadRole, ReadAssignments, ReadGroups,
                    ReadGroupPermissions, ReadOverride, Goes, TypeOK
      <4> QED BY <2>3, <4>1 DEF Next
    <3> QED BY <3>1, <3>2, OthersKeepCheck
  <2> QED BY <2>1, <2>2, <2>3
<1> QED BY <1>1, <1>2, TypeCorrect, PTL DEF Spec

-----------------------------------------------------------------------------
(* hasPermission says yes whenever a reason to allow stood all through the *)
(* call and no denial at any moment of it, and never when no reason stood  *)
(* at any moment or a denial stood all along.                              *)
THEOREM AnswerIsBracketedAlways == Spec => AnswerIsBracketed
<1> DEFINE Bracketed ==
      \A k \in Checks :
        check[k].at = "override" /\ check'[k].at = "answered" =>
          /\ Contract(always[k], ever[k]) => check'[k].answer
          /\ check'[k].answer => Contract(ever[k], always[k])
<1>1. TypeOK /\ CheckInv /\ [Next]_vars => [Bracketed]_vars
  <2> SUFFICES ASSUME TypeOK, CheckInv, [Next]_vars, NEW k \in Checks,
                      check[k].at = "override", check'[k].at = "answered"
               PROVE  /\ Contract(always[k], ever[k]) => check'[k].answer
                      /\ check'[k].answer => Contract(ever[k], always[k])
    OBVIOUS
  <2> DEFINE u == check[k].user
             p == check[k].perm
             effect == override[<<u, p>>]
  <2>1. InProgress(k)
    BY DEF TypeOK, NoCheck, Answer, InProgress
  <2>2. u \in Staff /\ p \in Permissions /\ check[k].allowed \in BOOLEAN
    BY <2>1 DEF InProgress, CheckCall
  <2>3. HistoryInv(k) /\ NoneMissed(k) /\ NoneInvented(k)
    BY <2>1 DEF CheckInv
  <2>4. check'[k].answer = (effect = "GRANT" \/ (effect = "NONE" /\ check[k].allowed))
    <3>1. CASE check'[k] = check[k]
      BY <3>1
    <3>2. CASE CheckStep(k)
      <4>1. ReadOverride(k)
        BY <3>2 DEF CheckStep, HasPermission, ReadRole, ReadAssignments, ReadGroups,
                    ReadGroupPermissions
      <4>2. check'[k] = [at |-> "answered",
                         answer |-> effect = "GRANT" \/ (effect = "NONE" /\ check[k].allowed)]
        BY <4>1 DEF ReadOverride, Goes, TypeOK
      <4> QED BY <4>2
    <3>3. ASSUME NEW j \in Checks, CheckStep(j), j # k PROVE check'[k] = check[k]
      BY <3>3 DEF CheckStep, HasPermission, ReadRole, ReadAssignments, ReadGroups,
                  ReadGroupPermissions, ReadOverride, Goes, TypeOK
    <3> QED BY <3>1, <3>2, <3>3 DEF Next, vars
  <2>5. /\ effect \in {"NONE", "GRANT", "DENY"}
        /\ <<"GRANT">> \in Now(k) <=> effect = "GRANT"
        /\ <<"DENY">> \in Now(k) <=> effect = "DENY"
    BY <2>2, FactsMeaning DEF Now, TypeOK
  <2>6. \A facts : \A denials : Contract(facts, denials) <=>
          /\ <<"DENY">> \notin denials
          /\ <<"GRANT">> \in facts \/ Reason(facts)
    BY DEF Contract, Reason, Member, Active, Holds
  <2>7. ASSUME Contract(always[k], ever[k]) PROVE check'[k].answer
    <3>1. effect # "DENY"
      BY <2>3, <2>5, <2>6, <2>7 DEF HistoryInv
    <3>2. <<"GRANT">> \in always[k] => effect = "GRANT"
      BY <2>3, <2>5 DEF HistoryInv
    <3>3. Reason(always[k]) => check[k].allowed
      BY <2>3 DEF Reason, NoneMissed
    <3> QED BY <2>4, <2>5, <2>6, <2>7, <3>1, <3>2, <3>3
  <2>8. ASSUME check'[k].answer PROVE Contract(ever[k], always[k])
    <3>1. <<"DENY">> \notin always[k]
      BY <2>3, <2>4, <2>5, <2>8 DEF HistoryInv
    <3>2. effect = "GRANT" => <<"GRANT">> \in ever[k]
      BY <2>3, <2>5 DEF HistoryInv
    <3>3. check[k].allowed => Reason(ever[k])
      BY <2>3 DEF NoneInvented
    <3> QED BY <2>4, <2>6, <2>8, <3>1, <3>2, <3>3
  <2> QED BY <2>7, <2>8
<1> QED BY <1>1, TypeCorrect, CheckInvAlways, PTL DEF Spec, AnswerIsBracketed
=============================================================================
