--------------------------- MODULE Accounts_proofs ---------------------------
(***************************************************************************)
(* For any accounts, schools and number of overlapping calls: e-mails and  *)
(* staff numbers stay unique; a session, a reset token and a verification  *)
(* token that have ended stay so on every account whose calls do not       *)
(* overlap; who is hired by calls that nothing overlaps neither stands in  *)
(* another leader's place nor fails for the number; and nobody is let in   *)
(* who is to be kept out.                                                  *)
(***************************************************************************)
EXTENDS Accounts, FiniteSetTheorems, TLAPS

(* What a call has read by the time it reaches each statement.             *)
RowPcs == {"set role", "set school", "set active", "read school", "check legacy", "issue",
           "set reset", "set password", "set verified"}
Inserts == {"insert user", "insert registered", "insert school"}
CallFits(c) ==
  /\ c.id \in Present \cup {0}
  /\ c.pc \in RowPcs => c.id \in Present
  /\ c.pc = "check leader" =>
       /\ c.op \in {"create", "role", "school"} /\ c.role \in Roles
       /\ IF c.op = "create" THEN c.email \in Emails /\ c.school \in Schools
          ELSE c.id \in Present
       /\ c.op = "school" => c.school \in Schools
  /\ c.pc \in Inserts => c.email \in Emails /\ c.role \in Roles
  /\ c.pc \in {"insert registered", "insert school"} => c.number = 0
  /\ c.pc = "set role" => c.role \in Roles
  /\ c.pc \in {"read school", "check legacy"} => c.op = "login"
  /\ c.pc = "insert registered" => c.op = "register"
  /\ c.pc \in {"insert user", "insert school", "set school", "read school",
               "set school active", "set admins active"} => c.school \in Schools

(* No other call has come between since the call looked at its account.    *)
Pending(c) ==
  /\ c.pc = "issue" /\ c.op = "refresh" => c.id \notin signedOut
  /\ c.pc = "set verified" /\ c.op # "verify" => ~user[c.id].verified

RowsInv == Present = 1 .. lastUser
CallsInv == \A k \in Calls : CallFits(call[k])
RacesInv ==
  \A j, k \in Calls : j # k /\ call[j].id = call[k].id /\ call[k].id # 0 => call[k].id \in raced
PendingInv ==
  \A k \in Calls : call[k].id # 0 /\ call[k].id \notin raced => Pending(call[k])
IInv ==
  /\ TypeOK /\ RowsInv /\ CallsInv /\ RacesInv /\ PendingInv
  /\ TokensStayEnded

LEMMA UserIsRow ==
  ASSUME NEW row \in User PROVE row # NoUser
<1>1. row.role \in Roles
  BY DEF User
<1>2. NoUser.role \notin Roles
  BY DEF NoUser, Roles
<1> QED BY <1>1, <1>2

LEMMA PresentRow ==
  ASSUME TypeOK, NEW i \in Present PROVE user[i] \in User /\ i \in UserIds /\ i # 0
BY DEF TypeOK, Present, UserIds

LEMMA IdleFits == Idle \in Call /\ CallFits(Idle) /\ Pending(Idle)
BY DEF Idle, Call, Pcs, Ops, CallFits, RowPcs, Inserts, Pending

-----------------------------------------------------------------------------
(* Steps that change the calls and no account.                             *)

LEMMA BeginsKeeps ==
  ASSUME IInv, NEW k \in Calls, NEW first \in Call, CallFits(first),
         first.id \notin raced => Pending(first), Begins(k, first)
  PROVE  IInv'
<1>1. /\ UNCHANGED <<user, lastUser, school, vetted, moved, signedOut, spent, settled>>
      /\ call' = [call EXCEPT ![k] = first] /\ ~Busy(k)
      /\ raced' = raced \cup Races(first.id) /\ begun' = begun + 1 /\ begun < MaxCalls
      /\ alone' \subseteq Calls
  BY DEF Begins, tables
<1>2. Present' = Present
  BY <1>1 DEF Present
<1>3. Races(first.id) \subseteq Present
  BY DEF Races, CallFits
<1>4. call \in [Calls -> Call]
  BY DEF IInv, TypeOK
<1>5. TypeOK'
  BY <1>1, <1>2, <1>3, AccountsAssumption DEF IInv, TypeOK
<1>6. RowsInv'
  BY <1>1, <1>2 DEF IInv, RowsInv
<1>7. CallsInv'
  BY <1>1, <1>2, <1>4 DEF IInv, CallsInv, CallFits
<1>8. RacesInv'
  <2> SUFFICES ASSUME NEW i \in Calls, NEW j \in Calls, i # j,
                      call'[i].id = call'[j].id, call'[j].id # 0
               PROVE  call'[j].id \in raced'
    BY DEF RacesInv
  <2>1. CASE i # k /\ j # k
    BY <1>1, <1>4, <2>1 DEF IInv, RacesInv
  <2>2. CASE i = k
    BY <1>1, <1>4, <2>2 DEF Races
  <2>3. CASE j = k
    BY <1>1, <1>4, <2>3 DEF Races
  <2> QED BY <2>1, <2>2, <2>3
<1>9. PendingInv'
  BY <1>1, <1>4 DEF IInv, PendingInv, Pending
<1>10. TokensStayEnded'
  BY <1>1, <1>2 DEF IInv, TokensStayEnded, SignedOutStays, ResetOnce, VerifiedStays
<1> QED BY <1>5, <1>6, <1>7, <1>8, <1>9, <1>10 DEF IInv

LEMMA CallKeeps ==
  ASSUME IInv, NEW k \in Calls, NEW c \in Call, CallFits(c), c.id \in {0, call[k].id},
         c.id # 0 /\ c.id \notin raced => Pending(c),
         call' = [call EXCEPT ![k] = c],
         UNCHANGED <<user, lastUser, begun, alone, vetted, moved, signedOut, spent>>,
         school' \in [Schools -> {"none", "active", "inactive"}],
         raced' = raced \/ (raced' = raced \cup {call[k].id} /\ call[k].id # 0),
         settled' \subseteq Schools
  PROVE  IInv'
<1>1. UNCHANGED <<user, lastUser>> /\ Present' = Present
  BY DEF Present
<1>2. call \in [Calls -> Call]
  BY DEF IInv, TypeOK
<1>3. raced \subseteq raced' /\ raced' \subseteq Present
  BY DEF IInv, TypeOK, CallsInv, CallFits
<1>4. TypeOK'
  BY <1>1, <1>2, <1>3 DEF IInv, TypeOK
<1>5. RowsInv'
  BY <1>1 DEF IInv, RowsInv
<1>6. CallsInv'
  BY <1>1, <1>2 DEF IInv, CallsInv, CallFits
<1>7. RacesInv'
  BY <1>2, <1>3 DEF IInv, RacesInv
<1>8. PendingInv'
  BY <1>1, <1>2, <1>3 DEF IInv, PendingInv, Pending
<1>9. TokensStayEnded'
  BY <1>1, <1>3 DEF IInv, TokensStayEnded, SignedOutStays, ResetOnce, VerifiedStays
<1> QED BY <1>4, <1>5, <1>6, <1>7, <1>8, <1>9 DEF IInv

-----------------------------------------------------------------------------
(* Steps that change one account, and end.                                 *)

LEMMA RowKeeps ==
  ASSUME IInv, NEW k \in Calls, NEW row \in User,
         call[k].pc \in RowPcs,
         Sets(call[k].id, row),
         Ends(k), raced' = raced,
         row.email = user[call[k].id].email, row.number = user[call[k].id].number,
         row.prefix = user[call[k].id].prefix,
         vetted' \subseteq Present, moved' \subseteq Present, settled' \subseteq Schools,
         signedOut' \subseteq signedOut \cup {call[k].id}, spent' \subseteq spent \cup {call[k].id},
         call[k].id \notin raced =>
           /\ call[k].id \in signedOut' => ~row.refresh
           /\ call[k].id \in spent' => ~row.reset
           /\ row.verified => ~row.verify
  PROVE  IInv'
<1> DEFINE i == call[k].id
<1>1. /\ user' = [user EXCEPT ![i] = row] /\ UNCHANGED <<lastUser, school, begun, alone>>
      /\ call' = [call EXCEPT ![k] = Idle]
  BY DEF Sets, Ends
<1>2. i \in Present /\ i \in UserIds /\ i # 0
  <2>1. CallFits(call[k])
    BY DEF IInv, CallsInv
  <2>2. i \in Present
    BY <2>1 DEF CallFits
  <2> QED BY <2>2 DEF Present, UserIds
<1>3. user \in [UserIds -> User \cup {NoUser}] /\ call \in [Calls -> Call]
  BY DEF IInv, TypeOK
<1>4. Present' = Present
  BY <1>1, <1>2, <1>3, UserIsRow DEF Present
<1>5. TypeOK'
  <2>1. Distinct(user)'
    <3>1. Distinct(user)
      BY DEF IInv, TypeOK
    <3> QED BY <1>1, <1>2, <1>3, <3>1 DEF Distinct, Present
  <2>2. user' \in [UserIds -> User \cup {NoUser}]
    BY <1>1, <1>2, <1>3
  <2>3. call' \in [Calls -> Call]
    BY <1>1, <1>3, IdleFits
  <2>4. signedOut' \subseteq Present /\ spent' \subseteq Present /\ raced' \subseteq Present
    BY <1>2 DEF IInv, TypeOK
  <2> QED BY <1>1, <1>4, <2>1, <2>2, <2>3, <2>4 DEF IInv, TypeOK
<1>6. RowsInv'
  BY <1>1, <1>4 DEF IInv, RowsInv
<1>7. CallsInv'
  <2>1. ASSUME NEW j \in Calls PROVE CallFits(call[j])'
    <3>1. CASE j = k
      BY <1>1, <1>3, <3>1 DEF Idle, CallFits, RowPcs, Inserts
    <3>2. CASE j # k
      BY <1>1, <1>3, <1>4, <3>2 DEF IInv, CallsInv, CallFits
    <3> QED BY <3>1, <3>2
  <2> QED BY <2>1 DEF CallsInv
<1>8. RacesInv'
  BY <1>1, <1>3 DEF IInv, RacesInv, Idle
<1>9. PendingInv'
  <2> SUFFICES ASSUME NEW j \in Calls, call'[j].id # 0, call'[j].id \notin raced
               PROVE  Pending(call[j])'
    BY DEF PendingInv
  <2>1. j # k /\ call'[j] = call[j]
    BY <1>1, <1>3 DEF Idle
  <2>2. call[j].id # i
    BY <1>2, <2>1 DEF IInv, RacesInv
  <2>3. Pending(call[j])
    BY <2>1 DEF IInv, PendingInv
  <2>4. user'[call[j].id] = user[call[j].id] \/ call[j].pc # "set verified"
    <3>1. call[j].pc = "set verified" => call[j].id \in UserIds
      BY DEF IInv, CallsInv, CallFits, RowPcs, Present
    <3> QED BY <1>1, <1>3, <2>2, <3>1
  <2> QED BY <2>1, <2>2, <2>3, <2>4 DEF Pending
<1>10. TokensStayEnded'
  <2>1. ASSUME NEW m \in Present, m # i PROVE user'[m] = user[m]
    BY <1>1, <1>3, <2>1 DEF Present
  <2>2. user'[i] = row
    BY <1>1, <1>2, <1>3
  <2>3. SignedOutStays'
    BY <2>1, <2>2 DEF IInv, TokensStayEnded, SignedOutStays, TypeOK
  <2>4. ResetOnce'
    BY <2>1, <2>2 DEF IInv, TokensStayEnded, ResetOnce, TypeOK
  <2>5. VerifiedStays'
    BY <1>4, <2>1, <2>2 DEF IInv, TokensStayEnded, VerifiedStays
  <2> QED BY <2>3, <2>4, <2>5 DEF TokensStayEnded
<1> QED BY <1>5, <1>6, <1>7, <1>8, <1>9, <1>10 DEF IInv

-----------------------------------------------------------------------------
(* Steps that add an account.                                              *)

LEMMA InsertKeeps ==
  ASSUME IInv, NEW k \in Calls, NEW row \in User, NEW c \in Call,
         lastUser + 1 <= MaxUsers, user' = [user EXCEPT ![lastUser + 1] = row],
         lastUser' = lastUser + 1, call' = [call EXCEPT ![k] = c],
         c = Idle \/ (c.id = lastUser + 1 /\ c.pc = "issue" /\ c.op # "refresh"),
         \A j \in Present :
           /\ user[j].email # row.email
           /\ row.number # 0 => user[j].number # row.number \/ user[j].prefix # row.prefix,
         ~row.verified,
         UNCHANGED <<begun, alone, moved, raced, signedOut, spent>>,
         vetted' \subseteq vetted \cup {lastUser + 1}, settled' \subseteq Schools,
         school' \in [Schools -> {"none", "active", "inactive"}]
  PROVE  IInv'
<1> DEFINE i == lastUser + 1
<1>1. /\ user \in [UserIds -> User \cup {NoUser}] /\ call \in [Calls -> Call]
      /\ lastUser \in Nat /\ i \in UserIds /\ Present = 1 .. lastUser /\ i \notin Present /\ i # 0
  BY AccountsAssumption DEF IInv, TypeOK, RowsInv, UserIds
<1>2. Present' = Present \cup {i}
  BY <1>1, UserIsRow DEF Present
<1>3. \A m \in Present : user'[m] = user[m]
  BY <1>1 DEF Present
<1>4. user'[i] = row
  BY <1>1
<1>5. TypeOK'
  <2>1. Distinct(user)'
    <3> SUFFICES ASSUME NEW m \in Present', NEW n \in Present', m # n
                 PROVE  /\ user'[m].email # user'[n].email
                        /\ user'[m].number # 0 => \/ user'[m].number # user'[n].number
                                                  \/ user'[m].prefix # user'[n].prefix
      BY DEF Distinct, Present
    <3>1. CASE m = i
      BY <1>2, <1>3, <1>4, <3>1
    <3>2. CASE n = i
      BY <1>2, <1>3, <1>4, <3>2
    <3>3. CASE m # i /\ n # i
      BY <1>2, <1>3, <3>3 DEF IInv, TypeOK, Distinct, Present
    <3> QED BY <3>1, <3>2, <3>3
  <2>2. user' \in [UserIds -> User \cup {NoUser}] /\ call' \in [Calls -> Call]
    BY <1>1
  <2>3. lastUser' \in 0 .. MaxUsers
    BY <1>1, AccountsAssumption
  <2>4. /\ vetted' \subseteq Present' /\ moved' \subseteq Present' /\ raced' \subseteq Present'
        /\ signedOut' \subseteq Present' /\ spent' \subseteq Present'
    BY <1>2 DEF IInv, TypeOK
  <2> QED BY <2>1, <2>2, <2>3, <2>4 DEF IInv, TypeOK
<1>6. RowsInv'
  BY <1>1, <1>2 DEF RowsInv
<1>7. CallsInv'
  <2>1. ASSUME NEW j \in Calls PROVE CallFits(call[j])'
    <3>1. CASE j = k /\ c = Idle
      BY <1>1, <3>1 DEF Idle, CallFits, RowPcs, Inserts
    <3>2. CASE j = k /\ c # Idle
      BY <1>1, <1>2, <3>2 DEF CallFits, RowPcs, Inserts
    <3>3. CASE j # k
      <4>1. CallFits(call[j]) /\ call'[j] = call[j]
        BY <1>1, <3>3 DEF IInv, CallsInv
      <4>2. Present \subseteq Present'
        BY <1>2
      <4> QED BY <4>1, <4>2 DEF CallFits, RowPcs, Inserts
    <3> QED BY <3>1, <3>2, <3>3
  <2> QED BY <2>1 DEF CallsInv
<1>8. ASSUME NEW j \in Calls PROVE call[j].id # i
  BY <1>1 DEF IInv, CallsInv, CallFits
<1>9. RacesInv'
  BY <1>1, <1>8 DEF IInv, RacesInv, Idle
<1>10. PendingInv'
  <2> SUFFICES ASSUME NEW j \in Calls, call'[j].id # 0, call'[j].id \notin raced
               PROVE  Pending(call[j])'
    BY DEF PendingInv
  <2>1. CASE j = k
    <3>1. call'[j] = c /\ (c.id = i /\ c.pc = "issue" /\ c.op # "refresh")
      BY <1>1, <2>1 DEF Idle
    <3>2. call'[j].pc = "issue" /\ call'[j].op # "refresh"
      BY <3>1
    <3> QED BY <3>2 DEF Pending
  <2>2. CASE j # k
    <3>1. call'[j] = call[j] /\ Pending(call[j])
      BY <1>1, <2>2 DEF IInv, PendingInv
    <3>2. call[j].id \in Present
      <4>1. CallFits(call[j])
        BY DEF IInv, CallsInv
      <4> QED BY <2>2, <1>1, <4>1 DEF CallFits
    <3>3. user'[call[j].id] = user[call[j].id]
      BY <1>3, <3>2
    <3>4. signedOut' = signedOut /\ call'[j].id = call[j].id /\ call'[j].pc = call[j].pc
          /\ call'[j].op = call[j].op
      BY <3>1
    <3> QED BY <3>1, <3>3, <3>4 DEF Pending
  <2> QED BY <2>1, <2>2
<1>11. TokensStayEnded'
  <2>1. signedOut \subseteq Present /\ spent \subseteq Present
    BY DEF IInv, TypeOK
  <2>2. SignedOutStays' /\ ResetOnce'
    BY <1>3, <2>1 DEF IInv, TokensStayEnded, SignedOutStays, ResetOnce
  <2>3. VerifiedStays'
    BY <1>2, <1>3, <1>4 DEF IInv, TokensStayEnded, VerifiedStays
  <2> QED BY <2>2, <2>3 DEF TokensStayEnded
<1> QED BY <1>5, <1>6, <1>7, <1>9, <1>10, <1>11 DEF IInv

-----------------------------------------------------------------------------
(* The numbers of staff.                                                   *)

LEMMA MaxOfNumbers ==
  ASSUME NEW n \in Nat, NEW T \in SUBSET (1 .. n), T # {}, NEW f, \A i \in T : f[i] \in Nat
  PROVE  /\ Max({f[i] : i \in T}) \in {f[i] : i \in T}
         /\ \A i \in T : Max({f[j] : j \in T}) >= f[i]
<1> DEFINE above(i) == {j \in T : f[j] > f[i]}
           family == {above(i) : i \in T}
<1>1. IsFiniteSet(T)
  <2>1. IsFiniteSet(1 .. n)
    BY FS_Interval
  <2> QED BY <2>1, FS_Subset
<1>2. IsWellFoundedOn(StrictSubsetOrdering(T), SUBSET T)
  BY <1>1, FS_StrictSubsetOrderingWellFounded, FS_FiniteSubsetsOfFinite
<1>3. family \subseteq SUBSET T /\ family # {}
  OBVIOUS
<1>4. \E A \in family : \A B \in family : <<B, A>> \notin StrictSubsetOrdering(T)
  <2> HIDE DEF family
  <2> QED BY <1>2, <1>3, WFMin
<1>5. PICK i \in T : \A B \in family : <<B, above(i)>> \notin StrictSubsetOrdering(T)
  BY <1>4
<1>6. ASSUME NEW j \in above(i) PROVE FALSE
  <2>1. j \in T /\ f[j] > f[i]
    BY <1>6
  <2>2. above(j) \subseteq above(i) /\ j \notin above(j)
    <3>1. f[i] \in Nat /\ f[j] \in Nat /\ \A m \in T : f[m] \in Nat
      BY <2>1
    <3>2. ~(f[j] > f[j]) /\ \A m \in T : f[m] > f[j] => f[m] > f[i]
      BY <2>1, <3>1
    <3> QED BY <3>2
  <2>3. <<above(j), above(i)>> \in StrictSubsetOrdering(T)
    BY <1>6, <2>2 DEF StrictSubsetOrdering
  <2> QED BY <1>5, <2>1, <2>3
<1>7. \A j \in T : f[i] >= f[j]
  BY <1>6
<1>8. \E x \in {f[j] : j \in T} : \A y \in {f[j] : j \in T} : x >= y
  BY <1>5, <1>7
<1> QED BY <1>8 DEF Max

LEMMA NumberOfStaff ==
  ASSUME TypeOK, NEW s \in Schools
  PROVE  GenerateStaffId(s) \in Nat
<1> DEFINE T == {j \in Present : /\ user[j].school = s /\ user[j].number # 0
                                 /\ user[j].prefix = Prefix[s]}
           f == [i \in UserIds |-> user[i].number]
           U == {j \in T : f[j] \in 1 .. ThreeDigits}
<1>1. \A j \in T : j \in UserIds /\ f[j] = user[j].number /\ f[j] \in Nat
  BY PresentRow DEF User
<1>2. Numbers(s) = {f[i] : i \in T}
  BY <1>1 DEF Numbers
<1>3. Numbers(s) \cap 1 .. ThreeDigits = {f[i] : i \in U}
  BY <1>2
<1>4. MaxUsers \in Nat /\ T \in SUBSET (1 .. MaxUsers) /\ U \in SUBSET (1 .. MaxUsers)
  BY <1>1, AccountsAssumption DEF UserIds
<1>5. CASE Numbers(s) = {}
  BY <1>5 DEF GenerateStaffId
<1>6. CASE Numbers(s) # {} /\ Numbers(s) \cap 1 .. ThreeDigits = {}
  <2>1. Max({f[i] : i \in T}) \in {f[i] : i \in T}
    <3>1. T # {} /\ \A i \in T : f[i] \in Nat
      BY <1>1, <1>2, <1>6
    <3> HIDE DEF T, f, U
    <3> QED BY <1>4, <3>1, MaxOfNumbers
  <2>2. Max(Numbers(s)) \in Nat
    BY <1>1, <1>2, <2>1
  <2> QED BY <1>6, <2>2 DEF GenerateStaffId
<1>7. CASE Numbers(s) \cap 1 .. ThreeDigits # {}
  <2>1. Max({f[i] : i \in U}) \in {f[i] : i \in U}
    <3>1. U # {} /\ \A i \in U : f[i] \in Nat
      BY <1>1, <1>3, <1>7
    <3> HIDE DEF U, f
    <3> QED BY <1>4, <3>1, MaxOfNumbers
  <2>2. Max(Numbers(s) \cap 1 .. ThreeDigits) \in Nat
    BY <1>1, <1>3, <2>1
  <2>3. Numbers(s) # {}
    BY <1>7
  <2> QED BY <1>7, <2>2, <2>3 DEF GenerateStaffId
<1> QED BY <1>5, <1>6, <1>7

LEMMA NewUserFits ==
  ASSUME NEW c \in Call, c.email \in Emails, c.role \in Roles,
         NEW active \in BOOLEAN, NEW verify \in BOOLEAN
  PROVE  /\ NewUser(c, active, verify) \in User
         /\ NewUser(c, active, verify).email = c.email
         /\ NewUser(c, active, verify).number = c.number
         /\ c.school \in Schools => NewUser(c, active, verify).prefix = Prefix[c.school]
         /\ ~NewUser(c, active, verify).verified
<1>1. (CHOOSE p \in Prefixes : TRUE) \in Prefixes
  BY AccountsAssumption
<1>2. c.school \in Schools => c.school # NoSchool /\ Prefix[c.school] \in Prefixes
  BY AccountsAssumption
<1>3. c.school \in Schools \cup {NoSchool} /\ c.number \in Nat
  BY DEF Call
<1> QED BY <1>1, <1>2, <1>3 DEF NewUser, User

-----------------------------------------------------------------------------
(* The calls begin.                                                        *)

LEMMA BeginStaffKeeps ==
  ASSUME IInv, NEW k \in Calls, BeginStaff(k)
  PROVE  IInv'
<1>0. TypeOK /\ 0 \notin UserIds
  BY DEF IInv, UserIds
<1>1. ASSUME NEW hire \in Hires, CreateUser(k, hire) PROVE IInv'
  <2> DEFINE first == [Idle EXCEPT !.op = "create", !.pc = "check leader",
                !.email = hire.email, !.role = hire.role, !.school = hire.school,
                !.number = IF IsStaff(hire.role) THEN GenerateStaffId(hire.school) ELSE 0]
  <2>1. hire.school \in Schools /\ hire.email \in Emails /\ hire.role \in Roles
    BY <1>1, AccountsAssumption DEF CreateUser
  <2>2. first.number \in Nat
    BY <1>0, <2>1, NumberOfStaff DEF Idle
  <2>3. first \in Call
    BY <2>1, <2>2 DEF Idle, Call, Pcs, Ops
  <2>4. CallFits(first) /\ Pending(first)
    BY <2>1 DEF Idle, CallFits, RowPcs, Inserts, Pending
  <2>5. Begins(k, first)
    BY <1>1 DEF CreateUser
  <2> QED BY <2>3, <2>4, <2>5, BeginsKeeps
<1>2. ASSUME NEW hire \in Hires, Register(k, hire) PROVE IInv'
  <2> DEFINE first == [Idle EXCEPT !.op = "register", !.pc = "insert registered",
                 !.email = hire.email, !.role = hire.role, !.school = hire.school]
  <2>1. hire.school \in Schools \cup {NoSchool} /\ hire.email \in Emails /\ hire.role \in Roles
    BY AccountsAssumption
  <2>2. first \in Call /\ CallFits(first) /\ Pending(first)
    BY <2>1 DEF Idle, Call, Pcs, Ops, CallFits, RowPcs, Inserts, Pending
  <2>3. Begins(k, first)
    BY <1>2 DEF Register
  <2> QED BY <2>2, <2>3, BeginsKeeps
<1>3. ASSUME NEW s \in Schools, NEW e \in Emails, RegisterSchool(k, s, e) PROVE IInv'
  <2> DEFINE first == [Idle EXCEPT !.op = "register school", !.pc = "insert school",
                 !.email = e, !.role = "school_admin", !.school = s]
  <2>1. first \in Call /\ CallFits(first) /\ Pending(first)
    BY DEF Idle, Call, Pcs, Ops, CallFits, RowPcs, Inserts, Pending, Roles
  <2>2. Begins(k, first)
    BY <1>3 DEF RegisterSchool
  <2> QED BY <2>1, <2>2, BeginsKeeps
<1>4. ASSUME NEW i \in UserIds, NEW role \in NewRoles, UpdateUser(k, i, role) PROVE IInv'
  <2> DEFINE first == [Idle EXCEPT !.op = "role", !.pc = "check leader", !.id = i,
                            !.role = role, !.school = user[i].school]
  <2>1. i \in Present /\ user[i] \in User /\ role \in Roles
    BY <1>0, <1>4, PresentRow, AccountsAssumption DEF UpdateUser
  <2>2. user[i].school \in Schools \cup {NoSchool}
    BY <2>1 DEF User
  <2>3. first \in Call /\ CallFits(first) /\ Pending(first)
    BY <2>1, <2>2 DEF Idle, Call, Pcs, Ops, CallFits, RowPcs, Inserts, Pending
  <2>4. Begins(k, first)
    BY <1>4 DEF UpdateUser
  <2> QED BY <2>3, <2>4, BeginsKeeps
<1>5. ASSUME NEW i \in UserIds, NEW s \in Schools, AssignSchool(k, i, s) PROVE IInv'
  <2> DEFINE first == [Idle EXCEPT !.op = "school", !.pc = "check leader", !.id = i,
                            !.role = user[i].role, !.school = s]
  <2>1. i \in Present /\ user[i] \in User
    BY <1>0, <1>5, PresentRow DEF AssignSchool
  <2>2. user[i].role \in Roles
    BY <2>1 DEF User
  <2>3. first \in Call /\ CallFits(first) /\ Pending(first)
    BY <2>1, <2>2 DEF Idle, Call, Pcs, Ops, CallFits, RowPcs, Inserts, Pending
  <2>4. Begins(k, first)
    BY <1>5 DEF AssignSchool
  <2> QED BY <2>3, <2>4, BeginsKeeps
<1>6. ASSUME NEW i \in UserIds, ActivateUser(k, i) \/ DeactivateUser(k, i) PROVE IInv'
  <2>1. PICK op \in {"activate", "deactivate"} :
          Begins(k, [Idle EXCEPT !.op = op, !.pc = "set active", !.id = i])
    BY <1>6 DEF ActivateUser, DeactivateUser
  <2> DEFINE first == [Idle EXCEPT !.op = op, !.pc = "set active", !.id = i]
  <2>2. i \in Present
    BY <1>6 DEF ActivateUser, DeactivateUser
  <2>3. first \in Call /\ CallFits(first) /\ Pending(first)
    BY <2>2 DEF Idle, Call, Pcs, Ops, CallFits, RowPcs, Inserts, Pending
  <2> QED BY <2>1, <2>3, BeginsKeeps
<1>7. ASSUME NEW s \in Schools, ActivateSchool(k, s) \/ DeactivateSchool(k, s) PROVE IInv'
  <2>1. PICK op \in {"activate", "deactivate"} :
          Begins(k, [Idle EXCEPT !.op = op, !.pc = "set school active", !.school = s])
    BY <1>7 DEF ActivateSchool, DeactivateSchool
  <2> DEFINE first == [Idle EXCEPT !.op = op, !.pc = "set school active", !.school = s]
  <2>2. first \in Call /\ CallFits(first) /\ Pending(first)
    BY DEF Idle, Call, Pcs, Ops, CallFits, RowPcs, Inserts, Pending
  <2> QED BY <2>1, <2>2, BeginsKeeps
<1> QED BY <1>1, <1>2, <1>3, <1>4, <1>5, <1>6, <1>7 DEF BeginStaff

-----------------------------------------------------------------------------
LEMMA BeginSessionKeeps ==
  ASSUME IInv, NEW k \in Calls, BeginSession(k)
  PROVE  IInv'
<1>0. TypeOK
  BY DEF IInv
<1> PICK i \in UserIds :
      \/ Login(k, i) \/ RefreshTokens(k, i) \/ ForgotPassword(k, i) \/ ResetPassword(k, i)
      \/ ChangePassword(k, i) \/ VerifyEmail(k, i) \/ ResendVerificationEmail(k, i)
  BY DEF BeginSession
<1>1. i \in Present /\ user[i] \in User
  <2>1. i \in Present
    BY DEF Login, RefreshTokens, ForgotPassword, ResetPassword, ChangePassword, VerifyEmail,
           ResendVerificationEmail
  <2> QED BY <1>0, <2>1, PresentRow
<1>2. CASE Login(k, i)
  <2> DEFINE first == [Idle EXCEPT !.op = "login", !.id = i, !.role = user[i].role,
       !.school = user[i].school, !.active = user[i].active, !.legacy = user[i].legacy,
       !.pc = IF user[i].role # "super_admin" /\ user[i].school # NoSchool
              THEN "read school" ELSE "check legacy"]
  <2>1. /\ user[i].role \in Roles /\ user[i].school \in Schools \cup {NoSchool}
        /\ user[i].active \in BOOLEAN /\ user[i].legacy \in BOOLEAN
    BY <1>1 DEF User
  <2>2. first.pc \in {"read school", "check legacy"}
        /\ (first.pc = "read school" => user[i].school \in Schools)
    BY <2>1 DEF Idle
  <2>3. first \in Call
    BY <1>1, <2>1 DEF Idle, Call, Pcs, Ops
  <2>4. CallFits(first) /\ Pending(first)
    BY <1>1, <2>2 DEF Idle, CallFits, RowPcs, Inserts, Pending
  <2>5. Begins(k, first)
    BY <1>2 DEF Login
  <2> QED BY <2>3, <2>4, <2>5, BeginsKeeps
<1>3. CASE RefreshTokens(k, i)
  <2> DEFINE first == [Idle EXCEPT !.op = "refresh", !.pc = "issue", !.id = i]
  <2>1. first \in Call /\ CallFits(first)
    BY <1>1 DEF Idle, Call, Pcs, Ops, CallFits, RowPcs, Inserts
  <2>2. i \notin raced => i \notin signedOut
    BY <1>3 DEF RefreshTokens, IInv, TokensStayEnded, SignedOutStays
  <2>3. first.id \notin raced => Pending(first)
    BY <2>2 DEF Idle, Pending
  <2>4. Begins(k, first)
    BY <1>3 DEF RefreshTokens
  <2> QED BY <2>1, <2>3, <2>4, BeginsKeeps
<1>4. CASE ForgotPassword(k, i) \/ ResetPassword(k, i) \/ ChangePassword(k, i) \/ VerifyEmail(k, i)
  <2>1. PICK op \in {"forgot", "reset", "change", "verify"},
             pc \in {"set reset", "set password", "set verified"} :
          /\ pc = "set verified" => op = "verify"
          /\ Begins(k, [Idle EXCEPT !.op = op, !.pc = pc, !.id = i])
    BY <1>4 DEF ForgotPassword, ResetPassword, ChangePassword, VerifyEmail
  <2> DEFINE first == [Idle EXCEPT !.op = op, !.pc = pc, !.id = i]
  <2>2. first \in Call /\ CallFits(first) /\ Pending(first)
    BY <1>1, <2>1 DEF Idle, Call, Pcs, Ops, CallFits, RowPcs, Inserts, Pending
  <2> QED BY <2>1, <2>2, BeginsKeeps
<1>5. CASE ResendVerificationEmail(k, i)
  <2> DEFINE first == [Idle EXCEPT !.op = "resend", !.pc = "set verified", !.id = i]
  <2>1. first \in Call /\ CallFits(first) /\ Pending(first)
    BY <1>1, <1>5 DEF ResendVerificationEmail, Idle, Call, Pcs, Ops, CallFits, RowPcs, Inserts,
                      Pending
  <2>2. Begins(k, first)
    BY <1>5 DEF ResendVerificationEmail
  <2> QED BY <2>1, <2>2, BeginsKeeps
<1> QED BY <1>2, <1>3, <1>4, <1>5

-----------------------------------------------------------------------------
(* The steps of a call that has begun.                                     *)

LEMMA MovesKeeps ==
  ASSUME IInv, NEW k \in Calls, NEW pc \in Pcs,
         Goes(k, pc), UNCHANGED <<user, lastUser, vetted, moved, raced, signedOut, spent>>,
         school' \in [Schools -> {"none", "active", "inactive"}], settled' \subseteq Schools,
         CallFits([call[k] EXCEPT !.pc = pc]),
         pc = "issue" => call[k].op # "refresh", pc # "set verified"
  PROVE  IInv'
<1> DEFINE c == [call[k] EXCEPT !.pc = pc]
<1>1. call[k] \in Call /\ call \in [Calls -> Call]
  BY DEF IInv, TypeOK
<1>2. c \in Call /\ c.id = call[k].id /\ c.pc = pc /\ c.op = call[k].op
  BY <1>1 DEF Call
<1>3. Pending(c)
  BY <1>2 DEF Pending
<1>4. call' = [call EXCEPT ![k] = c] /\ UNCHANGED <<begun, alone>>
  BY <1>1 DEF Goes
<1> HIDE DEF c
<1> QED BY <1>2, <1>3, <1>4, CallKeeps DEF c

LEMMA EndsKeeps ==
  ASSUME IInv, NEW k \in Calls, Refused(k) \/ CutOff(k)
  PROVE  IInv'
<1>1. /\ UNCHANGED <<user, lastUser, school, begun, alone, vetted, moved, signedOut, spent, settled>>
      /\ call' = [call EXCEPT ![k] = Idle]
      /\ raced' = raced \/ (raced' = raced \cup {call[k].id} /\ call[k].id # 0)
  BY DEF Refused, CutOff, Ends, tables, history
<1>2. Idle.id = 0
  BY DEF Idle
<1>3. school' \in [Schools -> {"none", "active", "inactive"}] /\ settled' \subseteq Schools
  BY <1>1 DEF IInv, TypeOK
<1> QED BY <1>1, <1>2, <1>3, IdleFits, CallKeeps

LEMMA LooksKeep ==
  ASSUME IInv, NEW k \in Calls,
         CheckLeader(k) \/ ReadSchool(k) \/ SetSchoolActive(k)
  PROVE  IInv'
<1>1. CallFits(call[k]) /\ call[k] \in Call /\ school \in [Schools -> {"none", "active", "inactive"}]
      /\ settled \subseteq Schools
  BY DEF IInv, CallsInv, TypeOK
<1>2. CASE CheckLeader(k)
  <2>1. CASE Refused(k)
    BY <2>1, EndsKeeps
  <2>2. CASE ~Refused(k)
    <3>1. call[k].op \in {"create", "role", "school"} /\ call[k].pc = "check leader"
      BY <1>1, <1>2 DEF CheckLeader, At, CallFits
    <3>2. PICK pc \in {"insert user", "set role", "set school"} :
            /\ Goes(k, pc) /\ UNCHANGED <<tables, history>>
            /\ pc = "insert user" => call[k].op = "create"
            /\ pc = "set role" => call[k].op = "role"
            /\ pc = "set school" => call[k].op = "school"
      BY <1>2, <2>2, <3>1 DEF CheckLeader
    <3>3. CallFits([call[k] EXCEPT !.pc = pc])
      BY <1>1, <3>1, <3>2 DEF CallFits, Call, RowPcs, Inserts
    <3> QED BY <1>1, <3>2, <3>3, MovesKeeps DEF tables, history, Pcs
  <2> QED BY <2>1, <2>2
<1>3. CASE ReadSchool(k)
  <2>1. CASE Refused(k)
    BY <2>1, EndsKeeps
  <2>2. CASE ~Refused(k)
    <3>1. Goes(k, "check legacy") /\ UNCHANGED <<tables, history>> /\ call[k].pc = "read school"
      BY <1>3, <2>2 DEF ReadSchool, At
    <3>2. CallFits([call[k] EXCEPT !.pc = "check legacy"])
      BY <1>1, <3>1 DEF CallFits, Call, RowPcs, Inserts
    <3> QED BY <1>1, <3>1, <3>2, MovesKeeps DEF tables, history, Pcs
  <2> QED BY <2>1, <2>2
<1>4. CASE SetSchoolActive(k)
  <2>1. Goes(k, "set admins active") /\ call[k].pc = "set school active"
    BY <1>4 DEF SetSchoolActive, At
  <2>2. CallFits([call[k] EXCEPT !.pc = "set admins active"])
    BY <1>1, <2>1 DEF CallFits, Call, RowPcs, Inserts
  <2>3. school' \in [Schools -> {"none", "active", "inactive"}] /\ settled' \subseteq Schools
    BY <1>1, <1>4 DEF SetSchoolActive
  <2>4. UNCHANGED <<user, lastUser, vetted, moved, raced, signedOut, spent>>
    BY <1>4 DEF SetSchoolActive
  <2> QED BY <2>1, <2>2, <2>3, <2>4, MovesKeeps DEF Pcs
<1> QED BY <1>2, <1>3, <1>4

-----------------------------------------------------------------------------
(* The steps that change an account.                                       *)

LEMMA ChangesFits ==
  ASSUME TypeOK, NEW k \in Calls, NEW i \in Present, NEW checked, Changes(k, i, checked)
  PROVE  vetted' \subseteq Present /\ settled' \subseteq Schools
BY DEF Changes, TypeOK

LEMMA RowStep ==
  ASSUME IInv, NEW k \in Calls, call[k].pc \in RowPcs
  PROVE  /\ call[k].id \in Present /\ user[call[k].id] \in User /\ call[k] \in Call
         /\ TypeOK /\ CallFits(call[k])
         /\ call[k].id \notin raced =>
              /\ call[k].id \in signedOut => ~user[call[k].id].refresh
              /\ call[k].id \in spent => ~user[call[k].id].reset
              /\ user[call[k].id].verified => ~user[call[k].id].verify
              /\ Pending(call[k])
<1>1. TypeOK /\ CallFits(call[k])
  BY DEF IInv, CallsInv
<1>2. call[k].id \in Present
  BY <1>1 DEF CallFits
<1>3. user[call[k].id] \in User /\ call[k].id # 0 /\ call[k] \in Call
  BY <1>1, <1>2, PresentRow DEF TypeOK
<1>4. call[k].id \notin raced =>
        /\ call[k].id \in signedOut => ~user[call[k].id].refresh
        /\ call[k].id \in spent => ~user[call[k].id].reset
        /\ user[call[k].id].verified => ~user[call[k].id].verify
  BY <1>2 DEF IInv, TokensStayEnded, SignedOutStays, ResetOnce, VerifiedStays
<1>5. call[k].id \notin raced => Pending(call[k])
  BY <1>3 DEF IInv, PendingInv
<1> QED BY <1>1, <1>2, <1>3, <1>4, <1>5

LEMMA SetsStaffKeep ==
  ASSUME IInv, NEW k \in Calls, SetRole(k) \/ SetSchool(k) \/ SetActive(k)
  PROVE  IInv'
<1> DEFINE i == call[k].id
<1>1. call[k].pc \in {"set role", "set school", "set active"}
  BY DEF SetRole, SetSchool, SetActive, At
<1>2. call[k].pc \in RowPcs
  BY <1>1 DEF RowPcs
<1>3. user[i] \in User
  BY <1>2, RowStep
<1>4. PICK row \in User :
        /\ Sets(i, row)
        /\ row.email = user[i].email /\ row.number = user[i].number /\ row.prefix = user[i].prefix
        /\ row.refresh = user[i].refresh /\ row.reset = user[i].reset
        /\ row.verified = user[i].verified /\ row.verify = user[i].verify
  <2>1. CASE SetRole(k)
    <3>1. call[k].role \in Roles
      BY <1>2, <2>1, RowStep DEF SetRole, At, CallFits
    <3>2. [user[i] EXCEPT !.role = call[k].role] \in User
      BY <1>3, <3>1 DEF User
    <3>3. Sets(i, [user[i] EXCEPT !.role = call[k].role])
      BY <2>1 DEF SetRole
    <3> QED BY <1>3, <3>2, <3>3 DEF User
  <2>2. CASE SetSchool(k)
    <3>1. call[k].school \in Schools
      BY <1>2, <2>2, RowStep DEF SetSchool, At, CallFits
    <3>2. [user[i] EXCEPT !.school = call[k].school] \in User
      BY <1>3, <3>1 DEF User
    <3>3. Sets(i, [user[i] EXCEPT !.school = call[k].school])
      BY <2>2 DEF SetSchool
    <3> QED BY <1>3, <3>2, <3>3 DEF User
  <2>3. CASE SetActive(k)
    <3>1. [user[i] EXCEPT !.active = (call[k].op = "activate")] \in User
      BY <1>3 DEF User
    <3>2. Sets(i, [user[i] EXCEPT !.active = (call[k].op = "activate")])
      BY <2>3 DEF SetActive
    <3> QED BY <1>3, <3>1, <3>2 DEF User
  <2> QED BY <2>1, <2>2, <2>3
<1>5. Ends(k) /\ UNCHANGED <<raced, signedOut, spent>> /\ \E checked : Changes(k, i, checked)
  BY DEF SetRole, SetSchool, SetActive
<1>6. i \in Present /\ TypeOK
  BY <1>2, RowStep
<1>7. vetted' \subseteq Present /\ settled' \subseteq Schools
  BY <1>5, <1>6, ChangesFits
<1>8. moved' \subseteq Present
  BY <1>6 DEF SetRole, SetSchool, SetActive, TypeOK
<1>9. i \notin raced =>
        /\ i \in signedOut' => ~row.refresh
        /\ i \in spent' => ~row.reset
        /\ row.verified => ~row.verify
  BY <1>2, <1>4, <1>5, RowStep
<1> QED BY <1>2, <1>4, <1>5, <1>7, <1>8, <1>9, RowKeeps

(* A step that is to end a token leaves it ended.                          *)
LEMMA SessionRowKeeps ==
  ASSUME IInv, NEW k \in Calls, NEW row \in User,
         call[k].pc \in RowPcs, Sets(call[k].id, row), Ends(k),
         row.email = user[call[k].id].email, row.number = user[call[k].id].number,
         row.prefix = user[call[k].id].prefix,
         UNCHANGED <<vetted, moved, raced, settled>>,
         signedOut' \subseteq signedOut \cup {call[k].id},
         spent' \subseteq spent \cup {call[k].id},
         call[k].id \notin raced =>
           /\ call[k].id \in signedOut' => ~row.refresh
           /\ call[k].id \in spent' => ~row.reset
           /\ row.verified => ~row.verify
  PROVE  IInv'
<1>1. vetted' \subseteq Present /\ moved' \subseteq Present /\ settled' \subseteq Schools /\ raced' = raced
  BY DEF IInv, TypeOK
<1> QED BY <1>1, RowKeeps

LEMMA SetsSessionKeep ==
  ASSUME IInv, NEW k \in Calls,
         GenerateTokens(k) \/ SetReset(k) \/ SetPassword(k) \/ SetVerified(k)
  PROVE  IInv'
<1> DEFINE i == call[k].id
<1>1. call[k].pc \in RowPcs
  BY DEF GenerateTokens, SetReset, SetPassword, SetVerified, At, RowPcs
<1>2. user[i] \in User /\ CallFits(call[k])
  BY <1>1, RowStep
<1>3. CASE GenerateTokens(k)
  <2> DEFINE row == [user[i] EXCEPT !.refresh = TRUE]
  <2>1. /\ row \in User /\ row.email = user[i].email /\ row.number = user[i].number
        /\ row.prefix = user[i].prefix /\ row.reset = user[i].reset
        /\ row.verified = user[i].verified /\ row.verify = user[i].verify
    BY <1>2 DEF User
  <2>2. /\ Sets(i, row) /\ Ends(k) /\ UNCHANGED <<vetted, moved, raced, settled, spent>>
        /\ call[k].pc = "issue"
        /\ signedOut' = IF call[k].op = "refresh" THEN signedOut ELSE signedOut \ {i}
    BY <1>3 DEF GenerateTokens, At
  <2>3. i \notin raced => i \notin signedOut'
    BY <1>1, <2>2, RowStep DEF Pending
  <2>4. i \notin raced => /\ i \in spent' => ~row.reset
                          /\ row.verified => ~row.verify
    BY <1>1, <2>1, <2>2, RowStep
  <2> HIDE DEF row
  <2> QED BY <1>1, <2>1, <2>2, <2>3, <2>4, SessionRowKeeps
<1>4. CASE SetReset(k)
  <2> DEFINE row == [user[i] EXCEPT !.reset = TRUE, !.live = TRUE]
  <2>1. /\ row \in User /\ row.email = user[i].email /\ row.number = user[i].number
        /\ row.prefix = user[i].prefix /\ row.refresh = user[i].refresh
        /\ row.verified = user[i].verified /\ row.verify = user[i].verify
    BY <1>2 DEF User
  <2>2. /\ Sets(i, row) /\ Ends(k) /\ UNCHANGED <<vetted, moved, raced, settled, signedOut>>
        /\ spent' = spent \ {i}
    BY <1>4 DEF SetReset
  <2>3. i \notin raced => /\ i \in signedOut' => ~row.refresh
                          /\ row.verified => ~row.verify
    BY <1>1, <2>1, <2>2, RowStep
  <2> HIDE DEF row
  <2> QED BY <1>1, <2>1, <2>2, <2>3, SessionRowKeeps
<1>5. CASE SetPassword(k)
  <2>1. PICK row \in User :
          /\ Sets(i, row)
          /\ row.email = user[i].email /\ row.number = user[i].number
          /\ row.prefix = user[i].prefix /\ ~row.refresh
          /\ row.verified = user[i].verified /\ row.verify = user[i].verify
          /\ row.reset = IF call[k].op = "reset" THEN FALSE ELSE user[i].reset
    <3> DEFINE old == [user[i] EXCEPT !.legacy = FALSE, !.refresh = FALSE]
               row == IF call[k].op = "reset" THEN [old EXCEPT !.reset = FALSE, !.live = FALSE]
                      ELSE old
    <3>1. /\ old \in User /\ old.email = user[i].email /\ old.number = user[i].number
          /\ old.prefix = user[i].prefix /\ ~old.refresh
          /\ old.verified = user[i].verified /\ old.verify = user[i].verify
          /\ old.reset = user[i].reset
      BY <1>2 DEF User
    <3>2. Sets(i, row)
      BY <1>5 DEF SetPassword
    <3> HIDE DEF old
    <3>3. /\ row \in User /\ row.email = user[i].email /\ row.number = user[i].number
          /\ row.prefix = user[i].prefix /\ ~row.refresh
          /\ row.verified = user[i].verified /\ row.verify = user[i].verify
          /\ row.reset = IF call[k].op = "reset" THEN FALSE ELSE user[i].reset
      BY <3>1 DEF User
    <3> QED BY <3>2, <3>3
  <2>2. /\ Ends(k) /\ UNCHANGED <<vetted, moved, raced, settled>>
        /\ signedOut' = signedOut \cup {i}
        /\ spent' = IF call[k].op = "reset" THEN spent \cup {i} ELSE spent
    BY <1>5 DEF SetPassword
  <2>3. i \notin raced => /\ i \in spent' => ~row.reset
                          /\ row.verified => ~row.verify
    BY <1>1, <2>1, <2>2, RowStep
  <2> QED BY <1>1, <2>1, <2>2, <2>3, SessionRowKeeps
<1>6. CASE SetVerified(k)
  <2>1. PICK row \in User :
          /\ Sets(i, row)
          /\ row.email = user[i].email /\ row.number = user[i].number
          /\ row.prefix = user[i].prefix /\ row.refresh = user[i].refresh
          /\ row.reset = user[i].reset
          /\ IF call[k].op = "verify" THEN ~row.verify ELSE row.verified = user[i].verified
    <3>1. CASE call[k].op = "verify"
      <4>1. Sets(i, [user[i] EXCEPT !.verified = TRUE, !.verify = FALSE])
        BY <1>6, <3>1 DEF SetVerified
      <4>2. [user[i] EXCEPT !.verified = TRUE, !.verify = FALSE] \in User
        BY <1>2 DEF User
      <4> QED BY <1>2, <3>1, <4>1, <4>2 DEF User
    <3>2. CASE call[k].op # "verify"
      <4>1. Sets(i, [user[i] EXCEPT !.verify = TRUE])
        BY <1>6, <3>2 DEF SetVerified
      <4>2. [user[i] EXCEPT !.verify = TRUE] \in User
        BY <1>2 DEF User
      <4> QED BY <1>2, <3>2, <4>1, <4>2 DEF User
    <3> QED BY <3>1, <3>2
  <2>2. /\ Ends(k) /\ UNCHANGED <<vetted, moved, raced, settled, signedOut, spent>>
        /\ call[k].pc = "set verified"
    BY <1>6 DEF SetVerified, At, history
  <2>3. i \notin raced => /\ i \in signedOut' => ~row.refresh
                          /\ i \in spent' => ~row.reset
                          /\ row.verified => ~row.verify
    BY <1>1, <2>1, <2>2, RowStep DEF Pending
  <2> QED BY <1>1, <2>1, <2>2, <2>3, SessionRowKeeps
<1> QED BY <1>3, <1>4, <1>5, <1>6

LEMMA CheckLegacyKeeps ==
  ASSUME IInv, NEW k \in Calls, CheckLegacy(k)
  PROVE  IInv'
<1> DEFINE i == call[k].id
           row == [user[i] EXCEPT !.legacy = FALSE, !.reset = TRUE, !.live = TRUE]
<1>1. call[k].pc \in RowPcs /\ call[k].pc = "check legacy"
  BY DEF CheckLegacy, At, RowPcs
<1>2. user[i] \in User /\ CallFits(call[k]) /\ TypeOK /\ call[k] \in Call
  BY <1>1, RowStep
<1>3. CASE call[k].legacy /\ call[k].role = "parent"
  <2>1. /\ row \in User /\ row.email = user[i].email /\ row.number = user[i].number
        /\ row.prefix = user[i].prefix /\ row.refresh = user[i].refresh
        /\ row.verified = user[i].verified /\ row.verify = user[i].verify
    BY <1>2 DEF User
  <2>2. /\ Sets(i, row) /\ Ends(k) /\ UNCHANGED <<vetted, moved, raced, settled, signedOut>>
        /\ spent' = spent \ {i}
    BY <1>3 DEF CheckLegacy
  <2>3. i \notin raced => /\ i \in signedOut' => ~row.refresh
                          /\ row.verified => ~row.verify
    BY <1>1, <2>1, <2>2, RowStep
  <2> HIDE DEF row
  <2> QED BY <1>1, <2>1, <2>2, <2>3, SessionRowKeeps
<1>4. CASE ~(call[k].legacy /\ call[k].role = "parent")
  <2>1. Goes(k, "issue") /\ UNCHANGED <<tables, history>>
    BY <1>4 DEF CheckLegacy
  <2>2. CallFits([call[k] EXCEPT !.pc = "issue"]) /\ call[k].op # "refresh"
    BY <1>1, <1>2 DEF CallFits, Call, RowPcs, Inserts
  <2>3. school' \in [Schools -> {"none", "active", "inactive"}] /\ settled' \subseteq Schools
    BY <1>2, <2>1 DEF TypeOK, tables, history
  <2> QED BY <2>1, <2>2, <2>3, MovesKeeps DEF tables, history, Pcs
<1> QED BY <1>3, <1>4

-----------------------------------------------------------------------------
(* The steps that insert an account.                                       *)

LEMMA InsertsKeep ==
  ASSUME IInv, NEW k \in Calls, InsertUser(k) \/ InsertRegistered(k) \/ InsertSchool(k)
  PROVE  IInv'
<1> DEFINE i == lastUser + 1
<1>1. /\ call[k] \in Call /\ CallFits(call[k]) /\ TypeOK /\ RowsInv
      /\ settled \subseteq Schools /\ school \in [Schools -> {"none", "active", "inactive"}]
      /\ call \in [Calls -> Call] /\ i # 0
  BY DEF IInv, CallsInv, TypeOK
<1>2. call[k].pc \in Inserts
  BY DEF InsertUser, InsertRegistered, InsertSchool, At, Inserts
<1>3. call[k].email \in Emails /\ call[k].role \in Roles
  BY <1>1, <1>2 DEF CallFits
<1>4. CASE Refused(k)
  BY <1>4, EndsKeeps
<1>5. ASSUME ~EmailTaken(call[k].email), NEW j \in Present PROVE user[j].email # call[k].email
  BY <1>5 DEF EmailTaken
<1>6. CASE InsertUser(k) /\ ~Refused(k)
  <2> DEFINE row == NewUser(call[k], TRUE, FALSE)
  <2>1. /\ i <= MaxUsers /\ user' = [user EXCEPT ![i] = row] /\ lastUser' = i
        /\ Changes(k, i, TRUE) /\ Ends(k) /\ ~EmailTaken(call[k].email) /\ ~NumberTaken(call[k])
        /\ UNCHANGED <<school, moved, raced, signedOut, spent>>
    BY <1>6 DEF InsertUser
  <2>2. call[k].school \in Schools
    BY <1>1, <1>6 DEF InsertUser, At, CallFits
  <2>3. /\ row \in User /\ row.email = call[k].email /\ row.number = call[k].number
        /\ row.prefix = Prefix[call[k].school] /\ ~row.verified
    BY <1>1, <1>3, <2>2, NewUserFits
  <2> HIDE DEF row
  <2>4. \A j \in Present :
          /\ user[j].email # row.email
          /\ row.number # 0 => user[j].number # row.number \/ user[j].prefix # row.prefix
    BY <1>5, <2>1, <2>3 DEF NumberTaken
  <2>5. call' = [call EXCEPT ![k] = Idle] /\ UNCHANGED <<begun, alone>>
    BY <2>1 DEF Ends
  <2>6. vetted' \subseteq vetted \cup {i} /\ settled' \subseteq Schools
    BY <1>1, <2>1 DEF Changes
  <2>7. school' \in [Schools -> {"none", "active", "inactive"}]
    BY <1>1, <2>1
  <2> QED BY <2>1, <2>3, <2>4, <2>5, <2>6, <2>7, IdleFits, InsertKeeps
<1>7. CASE InsertRegistered(k) /\ ~Refused(k)
  <2> DEFINE row == NewUser(call[k], TRUE, TRUE)
             c == [call[k] EXCEPT !.pc = "issue", !.id = i]
  <2>1. /\ i <= MaxUsers /\ user' = [user EXCEPT ![i] = row] /\ lastUser' = i
        /\ Changes(k, i, FALSE) /\ ~EmailTaken(call[k].email)
        /\ call' = [call EXCEPT ![k].pc = "issue", ![k].id = i]
        /\ UNCHANGED <<school, begun, alone, moved, raced, signedOut, spent>>
    BY <1>7 DEF InsertRegistered
  <2>2. call[k].number = 0 /\ call[k].op = "register"
    BY <1>1, <1>7 DEF InsertRegistered, At, CallFits
  <2>3. /\ row \in User /\ row.email = call[k].email /\ row.number = 0 /\ ~row.verified
    BY <1>1, <1>3, <2>2, NewUserFits
  <2>4. /\ c \in Call /\ c.id = i /\ c.pc = "issue" /\ c.op # "refresh"
        /\ call' = [call EXCEPT ![k] = c]
    <3>1. i \in UserIds
      BY <1>1, <2>1, AccountsAssumption DEF UserIds, TypeOK
    <3> QED BY <1>1, <2>1, <2>2, <3>1 DEF Call, Pcs
  <2> HIDE DEF row, c
  <2>5. \A j \in Present :
          /\ user[j].email # row.email
          /\ row.number # 0 => user[j].number # row.number \/ user[j].prefix # row.prefix
    BY <1>5, <2>1, <2>3
  <2>6. vetted' \subseteq vetted \cup {i} /\ settled' \subseteq Schools
    BY <1>1, <2>1 DEF Changes
  <2>7. school' \in [Schools -> {"none", "active", "inactive"}]
    BY <1>1, <2>1
  <2>8. c = Idle \/ (c.id = lastUser + 1 /\ c.pc = "issue" /\ c.op # "refresh")
    BY <2>4
  <2>9. UNCHANGED <<begun, alone, moved, raced, signedOut, spent>>
    BY <2>1
  <2> QED BY <2>1, <2>3, <2>4, <2>5, <2>6, <2>7, <2>8, <2>9, InsertKeeps
<1>8. CASE InsertSchool(k) /\ ~Refused(k)
  <2> DEFINE row == NewUser(call[k], FALSE, FALSE)
  <2>1. /\ i <= MaxUsers /\ user' = [user EXCEPT ![i] = row] /\ lastUser' = i
        /\ school' = [school EXCEPT ![call[k].school] = "inactive"]
        /\ settled' = IF k \in alone THEN settled \cup {call[k].school} ELSE settled
        /\ Ends(k) /\ ~EmailTaken(call[k].email)
        /\ UNCHANGED <<vetted, moved, raced, signedOut, spent>>
    BY <1>8 DEF InsertSchool
  <2>2. call[k].number = 0 /\ call[k].school \in Schools
    BY <1>1, <1>8 DEF InsertSchool, At, CallFits
  <2>3. /\ row \in User /\ row.email = call[k].email /\ row.number = 0 /\ ~row.verified
    BY <1>1, <1>3, <2>2, NewUserFits
  <2> HIDE DEF row
  <2>4. \A j \in Present : user[j].email # row.email
    BY <1>5, <2>1, <2>3
  <2>5. call' = [call EXCEPT ![k] = Idle] /\ UNCHANGED <<begun, alone>>
    BY <2>1 DEF Ends
  <2>6. /\ vetted' \subseteq vetted \cup {i} /\ settled' \subseteq Schools
        /\ school' \in [Schools -> {"none", "active", "inactive"}]
    BY <1>1, <2>1, <2>2
  <2> QED BY <2>1, <2>3, <2>4, <2>5, <2>6, IdleFits, InsertKeeps
<1> QED BY <1>4, <1>6, <1>7, <1>8

-----------------------------------------------------------------------------
(* Steps that touch other columns, and calls of one statement.             *)

LEMMA ColumnsKeep ==
  ASSUME IInv,
         user' \in [UserIds -> User \cup {NoUser}], lastUser' = lastUser,
         \A i \in UserIds : user'[i] = NoUser <=> user[i] = NoUser,
         \A i \in Present :
           /\ user'[i].email = user[i].email /\ user'[i].number = user[i].number
           /\ user'[i].prefix = user[i].prefix /\ user'[i].reset = user[i].reset
           /\ user'[i].verified = user[i].verified /\ user'[i].verify = user[i].verify
           /\ i \in signedOut' \ raced' => ~user'[i].refresh,
         call' \in [Calls -> Call], \A k \in Calls : call'[k] \in {call[k], Idle},
         begun' \in 0 .. MaxCalls, alone' \subseteq Calls,
         school' \in [Schools -> {"none", "active", "inactive"}], settled' \subseteq Schools,
         UNCHANGED <<vetted, moved, spent>>,
         raced \subseteq raced', raced' \subseteq Present, signedOut' \subseteq Present,
         \A k \in Calls : call[k].id \in signedOut' => call[k].id \in signedOut \cup raced'
  PROVE  IInv'
<1>1. Present' = Present
  BY DEF Present
<1>2. TypeOK'
  <2>1. Distinct(user)'
    BY DEF IInv, TypeOK, Distinct, Present
  <2> QED BY <1>1, <2>1 DEF IInv, TypeOK
<1>3. RowsInv'
  BY <1>1 DEF IInv, RowsInv
<1>4. CallsInv'
  <2> SUFFICES ASSUME NEW k \in Calls PROVE CallFits(call[k])'
    BY DEF CallsInv
  <2>1. CallFits(call[k])
    BY DEF IInv, CallsInv
  <2>2. CASE call'[k] = call[k]
    BY <1>1, <2>1, <2>2 DEF CallFits
  <2>3. CASE call'[k] = Idle
    BY <2>3 DEF Idle, CallFits, RowPcs, Inserts
  <2> QED BY <2>2, <2>3
<1>5. RacesInv'
  BY DEF IInv, RacesInv, Idle
<1>6. PendingInv'
  <2> SUFFICES ASSUME NEW k \in Calls, call'[k].id # 0, call'[k].id \notin raced'
               PROVE  Pending(call[k])'
    BY DEF PendingInv
  <2>1. call'[k] = call[k]
    BY DEF Idle
  <2>2. Pending(call[k]) /\ call[k].id \in Present
    BY <2>1 DEF IInv, PendingInv, CallsInv, CallFits
  <2>3. /\ call'[k].id = call[k].id /\ call'[k].pc = call[k].pc /\ call'[k].op = call[k].op
        /\ user'[call[k].id].verified = user[call[k].id].verified
        /\ call[k].id \in signedOut' => call[k].id \in signedOut
    BY <2>1, <2>2
  <2> QED BY <2>2, <2>3 DEF Pending
<1>7. TokensStayEnded'
  <2>1. SignedOutStays'
    BY DEF SignedOutStays
  <2>2. ResetOnce' /\ VerifiedStays'
    BY <1>1 DEF IInv, TypeOK, TokensStayEnded, ResetOnce, VerifiedStays
  <2> QED BY <2>1, <2>2 DEF TokensStayEnded
<1> QED BY <1>2, <1>3, <1>4, <1>5, <1>6, <1>7 DEF IInv

LEMMA OthersKeep ==
  ASSUME IInv,
         \/ \E k \in Calls : SetAdminsActive(k)
         \/ \E s \in Schools : CreateSchool(s)
         \/ \E i \in UserIds : Logout(i) \/ ResetExpires(i)
  PROVE  IInv'
<1>1. /\ user \in [UserIds -> User \cup {NoUser}] /\ call \in [Calls -> Call] /\ TypeOK
      /\ school \in [Schools -> {"none", "active", "inactive"}] /\ settled \subseteq Schools
      /\ begun \in 0 .. MaxCalls /\ alone \subseteq Calls
      /\ signedOut \subseteq Present /\ raced \subseteq Present
  BY DEF IInv, TypeOK
<1>2. \A i \in signedOut \ raced : ~user[i].refresh
  BY DEF IInv, TokensStayEnded, SignedOutStays
<1>3. ASSUME NEW k \in Calls, SetAdminsActive(k) PROVE IInv'
  <2> DEFINE on == call[k].op = "activate"
             new(i) == [user[i] EXCEPT !.active = on]
  <2>1. /\ user' = [i \in UserIds |-> IF i \in Admins(call[k].school) THEN new(i) ELSE user[i]]
        /\ settled' = IF k \in alone THEN settled \cup {call[k].school} ELSE settled
        /\ call' = [call EXCEPT ![k] = Idle]
        /\ UNCHANGED <<school, lastUser, vetted, moved, raced, signedOut, spent, begun, alone>>
    BY <1>3 DEF SetAdminsActive, Ends
  <2>2. call[k].school \in Schools
    <3>1. CallFits(call[k])
      BY DEF IInv, CallsInv
    <3> QED BY <1>3, <3>1 DEF SetAdminsActive, At, CallFits
  <2>3. ASSUME NEW i \in Present
        PROVE  /\ new(i) \in User
               /\ new(i).email = user[i].email /\ new(i).number = user[i].number
               /\ new(i).prefix = user[i].prefix /\ new(i).reset = user[i].reset
               /\ new(i).verified = user[i].verified /\ new(i).verify = user[i].verify
               /\ new(i).refresh = user[i].refresh
    <3>1. user[i] \in User
      BY <1>1, PresentRow
    <3>2. on \in BOOLEAN
      OBVIOUS
    <3> HIDE DEF on
    <3> QED BY <3>1, <3>2 DEF User
  <2> HIDE DEF new
  <2>4. /\ user' \in [UserIds -> User \cup {NoUser}]
        /\ \A i \in UserIds : user'[i] = NoUser <=> user[i] = NoUser
        /\ \A i \in Present :
             /\ user'[i].email = user[i].email /\ user'[i].number = user[i].number
             /\ user'[i].prefix = user[i].prefix /\ user'[i].reset = user[i].reset
             /\ user'[i].verified = user[i].verified /\ user'[i].verify = user[i].verify
             /\ user'[i].refresh = user[i].refresh
    <3>1. \A i \in UserIds : user'[i] = user[i] \/ (i \in Present /\ user'[i] = new(i))
      BY <2>1 DEF Admins
    <3>2. \A i \in Present : i \in UserIds /\ user[i] # NoUser
      BY DEF Present
    <3>3. /\ \A i \in UserIds : user'[i] \in User \cup {NoUser}
          /\ \A i \in UserIds : user'[i] = NoUser <=> user[i] = NoUser
      BY <1>1, <2>3, <3>1, <3>2, UserIsRow
    <3>4. user' \in [UserIds -> User \cup {NoUser}]
      BY <2>1, <3>3
    <3> QED BY <2>3, <3>1, <3>2, <3>3, <3>4
  <2>5. settled' \subseteq Schools
    BY <1>1, <2>1, <2>2
  <2>6. call' \in [Calls -> Call] /\ \A j \in Calls : call'[j] \in {call[j], Idle}
    BY <1>1, <2>1, IdleFits
  <2> QED BY <1>1, <1>2, <2>1, <2>4, <2>5, <2>6, ColumnsKeep
<1>4. ASSUME NEW s \in Schools, CreateSchool(s) PROVE IInv'
  <2>1. /\ UNCHANGED <<user, lastUser, call, vetted, moved, raced, signedOut, spent, settled>>
        /\ alone' = {} /\ begun' = begun + 1 /\ begun < MaxCalls
        /\ school' = [school EXCEPT ![s] = "active"]
    BY <1>4 DEF CreateSchool, history
  <2>2. begun' \in 0 .. MaxCalls
    BY <1>1, <2>1, AccountsAssumption
  <2>3. school' \in [Schools -> {"none", "active", "inactive"}]
    BY <1>1, <2>1
  <2> QED BY <1>1, <1>2, <2>1, <2>2, <2>3, ColumnsKeep
<1>5. ASSUME NEW i \in UserIds, Logout(i) PROVE IInv'
  <2> DEFINE row == [user[i] EXCEPT !.refresh = FALSE]
  <2>1. /\ i \in Present /\ user' = [user EXCEPT ![i] = row]
        /\ begun' = begun + 1 /\ begun < MaxCalls /\ alone' = {}
        /\ signedOut' = signedOut \cup {i} /\ raced' = raced \cup Races(i)
        /\ UNCHANGED <<lastUser, school, call, vetted, moved, spent, settled>>
    BY <1>5 DEF Logout, Sets
  <2>2. user[i] \in User /\ user[i] # NoUser
    BY <1>1, <2>1, PresentRow, UserIsRow
  <2>3. /\ row \in User /\ row.email = user[i].email /\ row.number = user[i].number
        /\ row.prefix = user[i].prefix /\ row.reset = user[i].reset
        /\ row.verified = user[i].verified /\ row.verify = user[i].verify /\ ~row.refresh
    BY <2>2 DEF User
  <2> HIDE DEF row
  <2>4. /\ user' \in [UserIds -> User \cup {NoUser}]
        /\ \A j \in UserIds : user'[j] = NoUser <=> user[j] = NoUser
    BY <1>1, <2>1, <2>2, <2>3, UserIsRow
  <2>5. \A j \in Present :
          /\ user'[j].email = user[j].email /\ user'[j].number = user[j].number
          /\ user'[j].prefix = user[j].prefix /\ user'[j].reset = user[j].reset
          /\ user'[j].verified = user[j].verified /\ user'[j].verify = user[j].verify
          /\ j \in signedOut' \ raced' => ~user'[j].refresh
    BY <1>1, <1>2, <2>1, <2>3 DEF Present
  <2>6. Races(i) \subseteq {i} /\ \A k \in Calls : call[k].id = i => i \in Races(i)
    <3>1. i # 0
      BY DEF UserIds
    <3> QED BY <3>1 DEF Races
  <2>7. begun' \in 0 .. MaxCalls
    BY <1>1, <2>1, AccountsAssumption
  <2>8. /\ raced \subseteq raced' /\ raced' \subseteq Present /\ signedOut' \subseteq Present
        /\ \A k \in Calls : call[k].id \in signedOut' => call[k].id \in signedOut \cup raced'
    BY <1>1, <2>1, <2>6
  <2> QED BY <1>1, <2>1, <2>4, <2>5, <2>7, <2>8, ColumnsKeep
<1>6. ASSUME NEW i \in UserIds, ResetExpires(i) PROVE IInv'
  <2> DEFINE row == [user[i] EXCEPT !.live = FALSE]
  <2>1. /\ i \in Present /\ user' = [user EXCEPT ![i] = row]
        /\ UNCHANGED <<lastUser, school, call, begun, alone, vetted, moved, raced, signedOut,
                       spent, settled>>
    BY <1>6 DEF ResetExpires, Sets, history
  <2>2. user[i] \in User /\ user[i] # NoUser
    BY <1>1, <2>1, PresentRow, UserIsRow
  <2>3. /\ row \in User /\ row.email = user[i].email /\ row.number = user[i].number
        /\ row.prefix = user[i].prefix /\ row.reset = user[i].reset
        /\ row.verified = user[i].verified /\ row.verify = user[i].verify
        /\ row.refresh = user[i].refresh
    BY <2>2 DEF User
  <2> HIDE DEF row
  <2>4. /\ user' \in [UserIds -> User \cup {NoUser}]
        /\ \A j \in UserIds : user'[j] = NoUser <=> user[j] = NoUser
    BY <1>1, <2>1, <2>2, <2>3, UserIsRow
  <2>5. \A j \in Present :
          /\ user'[j].email = user[j].email /\ user'[j].number = user[j].number
          /\ user'[j].prefix = user[j].prefix /\ user'[j].reset = user[j].reset
          /\ user'[j].verified = user[j].verified /\ user'[j].verify = user[j].verify
          /\ user'[j].refresh = user[j].refresh
    BY <1>1, <2>1, <2>3 DEF Present
  <2> QED BY <1>1, <1>2, <2>1, <2>4, <2>5, ColumnsKeep
<1> QED BY <1>3, <1>4, <1>5, <1>6

-----------------------------------------------------------------------------
(* The invariant.                                                          *)

LEMMA InitFits == Init => IInv
<1> SUFFICES ASSUME Init PROVE IInv
  OBVIOUS
<1>1. /\ user = FirstUsers /\ lastUser = Cardinality(Present) /\ school = FirstSchools
      /\ call = [k \in Calls |-> Idle] /\ begun = 0 /\ alone = {}
      /\ moved \subseteq Present /\ vetted = {} /\ raced = {} /\ signedOut = {} /\ spent = {} /\ settled = {}
  BY DEF Init
<1>2. PICK n \in 0 .. MaxUsers : \A i \in UserIds : FirstUsers[i] # NoUser <=> i <= n
  BY AccountsAssumption
<1>3. n \in Nat /\ MaxUsers \in Nat /\ n <= MaxUsers
  BY <1>2, AccountsAssumption
<1>4. Present = 1 .. n
  BY <1>1, <1>2, <1>3 DEF Present, UserIds
<1>5. lastUser = n
  BY <1>1, <1>3, <1>4, FS_Interval
<1>6. TypeOK
  BY <1>1, <1>3, <1>5, IdleFits, AccountsAssumption DEF TypeOK
<1>7. RowsInv
  BY <1>4, <1>5 DEF RowsInv
<1>8. CallsInv /\ RacesInv /\ PendingInv
  BY <1>1, IdleFits DEF CallsInv, RacesInv, PendingInv, Idle
<1>9. TokensStayEnded
  BY <1>1, AccountsAssumption
  DEF TokensStayEnded, SignedOutStays, ResetOnce, VerifiedStays, Present
<1> QED BY <1>6, <1>7, <1>8, <1>9 DEF IInv

LEMMA NextKeeps == IInv /\ [Next]_vars => IInv'
<1> SUFFICES ASSUME IInv, [Next]_vars PROVE IInv'
  OBVIOUS
<1>1. ASSUME NEW k \in Calls, BeginStaff(k) \/ BeginSession(k) PROVE IInv'
  BY <1>1, BeginStaffKeeps, BeginSessionKeeps
<1>2. ASSUME NEW k \in Calls, Step(k) PROVE IInv'
  <2>1. CASE CheckLeader(k) \/ ReadSchool(k) \/ SetSchoolActive(k)
    BY <2>1, LooksKeep
  <2>2. CASE InsertUser(k) \/ InsertRegistered(k) \/ InsertSchool(k)
    BY <2>2, InsertsKeep
  <2>3. CASE SetRole(k) \/ SetSchool(k) \/ SetActive(k)
    BY <2>3, SetsStaffKeep
  <2>4. CASE SetAdminsActive(k)
    BY <2>4, OthersKeep
  <2>5. CASE CheckLegacy(k)
    BY <2>5, CheckLegacyKeeps
  <2>6. CASE GenerateTokens(k) \/ SetReset(k) \/ SetPassword(k) \/ SetVerified(k)
    BY <2>6, SetsSessionKeep
  <2>7. CASE CutOff(k)
    BY <2>7, EndsKeeps
  <2> QED BY <1>2, <2>1, <2>2, <2>3, <2>4, <2>5, <2>6, <2>7 DEF Step
<1>3. ASSUME NEW s \in Schools, CreateSchool(s) PROVE IInv'
  BY <1>3, OthersKeep
<1>4. ASSUME NEW i \in UserIds, Logout(i) \/ ResetExpires(i) PROVE IInv'
  BY <1>4, OthersKeep
<1>5. CASE UNCHANGED vars
  <2>1. UNCHANGED <<user, lastUser, school, call, begun, alone, vetted, moved, raced, signedOut,
                    spent, settled>>
    BY <1>5 DEF vars, tables, history
  <2>2. /\ user \in [UserIds -> User \cup {NoUser}] /\ call \in [Calls -> Call]
        /\ school \in [Schools -> {"none", "active", "inactive"}] /\ settled \subseteq Schools
        /\ begun \in 0 .. MaxCalls /\ alone \subseteq Calls
        /\ signedOut \subseteq Present /\ raced \subseteq Present
        /\ \A i \in signedOut \ raced : ~user[i].refresh
    BY DEF IInv, TypeOK, TokensStayEnded, SignedOutStays
  <2> QED BY <2>1, <2>2, ColumnsKeep
<1> QED BY <1>1, <1>2, <1>3, <1>4, <1>5 DEF Next

LEMMA Invariance == Spec => []IInv
BY InitFits, NextKeeps, PTL DEF Spec

(* Whatever calls overlap and wherever they are cut off, e-mails and staff *)
(* numbers stay unique, and accounts are numbered without gaps.            *)
THEOREM TypeAlways == Spec => []TypeOK
<1>1. IInv => TypeOK
  BY DEF IInv
<1> QED BY <1>1, Invariance, PTL

(* A session that was ended, a reset token that was used and a verification*)
(* that was completed stay so, on every account on which no two calls      *)
(* overlapped since.                                                       *)
THEOREM TokensEndedAlways == Spec => []TokensStayEnded
<1>1. IInv => TokensStayEnded
  BY DEF IInv
<1> QED BY <1>1, Invariance, PTL

-----------------------------------------------------------------------------
(* Hires and doors.  HiresFit and the doors speak of calls that nothing    *)
(* overlapped: what such a call has read is still so when it acts.         *)

AloneInv == \A k \in alone, j \in Calls : j # k => ~Busy(j)

LoneFits(c) ==
  /\ c.pc = "insert user" \/ (c.pc = "check leader" /\ c.op = "create") =>
       c.id = 0 /\ c.number \in {0, GenerateStaffId(c.school)}
  /\ c.pc = "set role" \/ (c.pc = "check leader" /\ c.op = "role") =>
       user[c.id].school = c.school
  /\ c.pc = "set school" \/ (c.pc = "check leader" /\ c.op = "school") =>
       user[c.id].role = c.role
  /\ c.pc \in {"insert user", "set role", "set school"}
       /\ c.role \in Leaders /\ c.school # NoSchool =>
       \/ LeadersOf(c.school, c.role) = {}
       \/ c.id \in LeadersOf(c.school, c.role)
  /\ c.pc \in {"read school", "check legacy", "issue"} /\ c.op = "login" =>
       /\ user[c.id].role = c.role /\ user[c.id].school = c.school
       /\ user[c.id].active = c.active
  /\ c.pc \in {"check legacy", "issue"} /\ c.op = "login"
       /\ c.role # "super_admin" /\ c.school # NoSchool =>
       c.active /\ school[c.school] # "inactive"
  /\ c.pc = "set admins active" =>
       school[c.school] = IF c.op = "activate" THEN "active" ELSE "inactive"
LoneInv == \A k \in alone : LoneFits(call[k])

(* No password becomes the old default one again. *)
LegacyFits(c) ==
  c.op = "login" /\ c.pc \in {"read school", "check legacy", "issue"} =>
    /\ user[c.id].legacy => c.legacy
    /\ c.pc = "issue" /\ c.role = "parent" => ~c.legacy
LegacyInv == \A k \in Calls : LegacyFits(call[k])

(* Accounts and calls are of schools that are there. *)
There(s) == s # NoSchool => school[s] # "none"
ThereFits(c) == c.pc # "insert school" => There(c.school)
ThereInv == (\A i \in Present : There(user[i].school)) /\ \A k \in Calls : ThereFits(call[k])

(* A school is not settled while a call is about to switch its admins. *)
SettledInv ==
  /\ AdminsFollowSchool
  /\ \A s \in settled : school[s] # "none"
  /\ \A k \in Calls : At(k, "set admins active") => call[k].school \notin settled

NumbersInv == \A i \in Present \ moved : user[i].number # 0 => OwnNumber(i)

CallsDoor == AloneInv /\ LoneInv /\ LegacyInv /\ ThereInv
RowsDoor == SettledInv /\ NumbersInv /\ VettedLeadersAlone
DInv == CallsDoor /\ RowsDoor

LEMMA IdleDoor == LoneFits(Idle) /\ LegacyFits(Idle) /\ ThereFits(Idle)
BY DEF Idle, LoneFits, LegacyFits, ThereFits, There

(* A step of call k that changes accounts: nobody else is alone, and what  *)
(* others have read of the old password is still an upper bound.           *)
LEMMA StepKeepsCalls ==
  ASSUME IInv, CallsDoor, NEW k \in Calls, NEW c \in Call, Busy(k),
         call' = [call EXCEPT ![k] = c], alone' \in {alone, {}},
         \A i \in Present : user'[i].legacy => user[i].legacy,
         \A s \in Schools : school[s] # "none" => school'[s] # "none",
         \A i \in Present' : There(user[i].school)',
         c = Idle \/ (LegacyFits(c)' /\ ThereFits(c)' /\ (k \in alone => LoneFits(c)'))
  PROVE  CallsDoor'
<1>1. call \in [Calls -> Call] /\ alone \subseteq Calls
  BY DEF IInv, TypeOK
<1>2. LoneFits(Idle)' /\ LegacyFits(Idle)' /\ ThereFits(Idle)'
  BY DEF Idle, LoneFits, LegacyFits, ThereFits, There
<1>3. call'[k] = c /\ \A j \in Calls \ {k} : call'[j] = call[j]
  BY <1>1
<1>4. AloneInv'
  BY <1>1, <1>3 DEF CallsDoor, AloneInv, Busy
<1>5. LoneInv'
  <2> SUFFICES ASSUME NEW j \in Calls, j \in alone' PROVE LoneFits(call[j])'
    BY <1>1 DEF LoneInv
  <2>1. j = k /\ k \in alone
    BY <1>1 DEF CallsDoor, AloneInv
  <2> QED BY <1>2, <1>3, <2>1
<1>6. LegacyInv'
  <2> SUFFICES ASSUME NEW j \in Calls PROVE LegacyFits(call[j])'
    BY DEF LegacyInv
  <2>1. CASE j = k
    BY <1>2, <1>3, <2>1
  <2>2. CASE j # k
    <3>1. call'[j] = call[j] /\ LegacyFits(call[j]) /\ CallFits(call[j])
      BY <1>3, <2>2 DEF CallsDoor, LegacyInv, IInv, CallsInv
    <3>2. call[j].pc \in {"read school", "check legacy", "issue"} => call[j].id \in Present
      BY <3>1 DEF CallFits, RowPcs
    <3> QED BY <3>1, <3>2 DEF LegacyFits
  <2> QED BY <2>1, <2>2
<1>7. ThereInv'
  <2> SUFFICES ASSUME NEW j \in Calls PROVE ThereFits(call[j])'
    BY DEF ThereInv
  <2>1. CASE j = k
    BY <1>2, <1>3, <2>1
  <2>2. CASE j # k
    <3>1. call'[j] = call[j] /\ ThereFits(call[j]) /\ call[j].school \in Schools \cup {NoSchool}
      BY <1>1, <1>3, <2>2 DEF CallsDoor, ThereInv, Call
    <3> QED BY <3>1 DEF ThereFits, There
  <2> QED BY <2>1, <2>2
<1> QED BY <1>4, <1>5, <1>6, <1>7 DEF CallsDoor

(* A step that leaves role, school and activity of every account. *)
LEMMA StandingKept ==
  ASSUME IInv, RowsDoor, Present' = Present,
         \A i \in Present : /\ user'[i].role = user[i].role
                            /\ user'[i].school = user[i].school
                            /\ user'[i].active = user[i].active
                            /\ user'[i].number = user[i].number
                            /\ user'[i].prefix = user[i].prefix,
         UNCHANGED <<vetted, moved, settled>>,
         \A s \in Schools : school'[s] # school[s] => school[s] = "none",
         \A k \in Calls : call'[k].pc = "set admins active" =>
           call'[k] = call[k] \/ call'[k].school \notin settled
  PROVE  RowsDoor'
<1>1. vetted \subseteq Present /\ settled \subseteq Schools
  BY DEF IInv, TypeOK
<1>2. \A s \in settled : school'[s] = school[s] /\ school[s] # "none"
  BY <1>1 DEF RowsDoor, SettledInv
<1>3. \A s \in Schools : Admins(s)' = Admins(s)
  BY DEF Admins
<1>4. AdminsFollowSchool'
  <2>1. \A s \in settled : \A i \in Admins(s) : user'[i].active = user[i].active
    BY DEF Admins
  <2>2. \A s \in settled : \A i \in Admins(s) : user[i].active <=> school[s] = "active"
    BY DEF RowsDoor, SettledInv, AdminsFollowSchool
  <2>3. \A s \in settled : \A i \in Admins(s) : user'[i].active <=> school'[s] = "active"
    BY <1>2, <2>1, <2>2
  <2> QED BY <1>1, <1>3, <2>3 DEF AdminsFollowSchool
<1>5. SettledInv'
  BY <1>2, <1>4 DEF RowsDoor, SettledInv, At
<1>6. NumbersInv'
  BY DEF RowsDoor, NumbersInv, OwnNumber
<1>7. VettedLeadersAlone'
  <2>1. ASSUME NEW i \in vetted, NEW j \in vetted PROVE Rivals(i, j)' => Rivals(i, j)
    <3>1. i \in Present /\ j \in Present
      BY <1>1
    <3> QED BY <3>1 DEF Rivals, Leading
  <2> QED BY <2>1 DEF RowsDoor, VettedLeadersAlone
<1> QED BY <1>5, <1>6, <1>7 DEF RowsDoor

LEMMA BeginsKeepsDoors ==
  ASSUME IInv, DInv, NEW k \in Calls, NEW first \in Call,
         LoneFits(first), LegacyFits(first), ThereFits(first),
         first.pc # "set admins active", Begins(k, first)
  PROVE  DInv'
<1>1. /\ UNCHANGED <<user, lastUser, school, vetted, moved, signedOut, spent, settled>>
      /\ call' = [call EXCEPT ![k] = first] /\ ~Busy(k)
      /\ alone' = IF \E j \in Calls : Busy(j) THEN {} ELSE {k}
      /\ call \in [Calls -> Call]
  BY DEF Begins, tables, IInv, TypeOK
<1>2. call'[k] = first /\ \A j \in Calls \ {k} : call'[j] = call[j]
  BY <1>1
<1>3. Present' = Present
  BY <1>1 DEF Present
<1>4. AloneInv'
  BY <1>1, <1>2 DEF AloneInv, Busy
<1>5. LoneInv'
  <2>1. alone' \subseteq {k}
    BY <1>1
  <2>2. /\ LeadersOf(first.school, first.role)' = LeadersOf(first.school, first.role)
        /\ GenerateStaffId(first.school)' = GenerateStaffId(first.school)
    BY <1>1, <1>3 DEF LeadersOf, GenerateStaffId, Numbers
  <2>3. LoneFits(first)'
    BY <1>1, <2>2 DEF LoneFits
  <2>4. LoneFits(call[k])'
    BY <1>2, <2>3
  <2> QED BY <2>1, <2>4 DEF LoneInv
<1>6. LegacyInv' /\ ThereInv'
  BY <1>1, <1>2, <1>3 DEF DInv, CallsDoor, LegacyInv, LegacyFits, ThereInv, ThereFits, There
<1>7. RowsDoor'
  BY <1>1, <1>2, <1>3, StandingKept DEF DInv
<1> QED BY <1>4, <1>5, <1>6, <1>7 DEF DInv, CallsDoor

LEMMA BeginStaffKeepsDoors ==
  ASSUME IInv, DInv, NEW k \in Calls, BeginStaff(k)
  PROVE  DInv'
<1>0. TypeOK /\ \A i \in Present : There(user[i].school)
  BY DEF IInv, DInv, CallsDoor, ThereInv
<1>1. ASSUME NEW hire \in Hires, CreateUser(k, hire) PROVE DInv'
  <2> DEFINE first == [Idle EXCEPT !.op = "create", !.pc = "check leader",
                !.email = hire.email, !.role = hire.role, !.school = hire.school,
                !.number = IF IsStaff(hire.role) THEN GenerateStaffId(hire.school) ELSE 0]
  <2>1. hire.school \in Schools /\ hire.email \in Emails /\ hire.role \in Roles
        /\ school[hire.school] # "none"
    BY <1>1, AccountsAssumption DEF CreateUser
  <2>2. first.number \in Nat
    BY <1>0, <2>1, NumberOfStaff DEF Idle
  <2>3. first \in Call
    BY <2>1, <2>2 DEF Idle, Call, Pcs, Ops
  <2>4. LoneFits(first) /\ LegacyFits(first) /\ ThereFits(first)
    BY <2>1 DEF Idle, LoneFits, LegacyFits, ThereFits, There
  <2>5. Begins(k, first) /\ first.pc # "set admins active"
    BY <1>1 DEF CreateUser, Idle
  <2> QED BY <2>3, <2>4, <2>5, BeginsKeepsDoors
<1>2. ASSUME NEW hire \in Hires, Register(k, hire) PROVE DInv'
  <2> DEFINE first == [Idle EXCEPT !.op = "register", !.pc = "insert registered",
                 !.email = hire.email, !.role = hire.role, !.school = hire.school]
  <2>1. /\ hire.school \in Schools \cup {NoSchool} /\ hire.email \in Emails
        /\ hire.role \in Roles /\ There(hire.school)
    BY <1>2, AccountsAssumption DEF Register, There
  <2>2. first \in Call /\ LoneFits(first) /\ LegacyFits(first) /\ ThereFits(first)
    BY <2>1 DEF Idle, Call, Pcs, Ops, LoneFits, LegacyFits, ThereFits
  <2>3. Begins(k, first) /\ first.pc # "set admins active"
    BY <1>2 DEF Register, Idle
  <2> QED BY <2>2, <2>3, BeginsKeepsDoors
<1>3. ASSUME NEW s \in Schools, NEW e \in Emails, RegisterSchool(k, s, e) PROVE DInv'
  <2> DEFINE first == [Idle EXCEPT !.op = "register school", !.pc = "insert school",
                 !.email = e, !.role = "school_admin", !.school = s]
  <2>1. first \in Call /\ LoneFits(first) /\ LegacyFits(first) /\ ThereFits(first)
    BY DEF Idle, Call, Pcs, Ops, Roles, LoneFits, LegacyFits, ThereFits
  <2>2. Begins(k, first) /\ first.pc # "set admins active"
    BY <1>3 DEF RegisterSchool, Idle
  <2> QED BY <2>1, <2>2, BeginsKeepsDoors
<1>4. ASSUME NEW i \in UserIds, NEW role \in NewRoles, UpdateUser(k, i, role) PROVE DInv'
  <2> DEFINE first == [Idle EXCEPT !.op = "role", !.pc = "check leader", !.id = i,
                            !.role = role, !.school = user[i].school]
  <2>1. i \in Present /\ user[i] \in User /\ role \in Roles
    BY <1>0, <1>4, PresentRow, AccountsAssumption DEF UpdateUser
  <2>2. user[i].school \in Schools \cup {NoSchool} /\ There(user[i].school)
    BY <1>0, <2>1 DEF User
  <2>3. first \in Call /\ LoneFits(first) /\ LegacyFits(first) /\ ThereFits(first)
    BY <2>1, <2>2 DEF Idle, Call, Pcs, Ops, LoneFits, LegacyFits, ThereFits
  <2>4. Begins(k, first) /\ first.pc # "set admins active"
    BY <1>4 DEF UpdateUser, Idle
  <2> QED BY <2>3, <2>4, BeginsKeepsDoors
<1>5. ASSUME NEW i \in UserIds, NEW s \in Schools, AssignSchool(k, i, s) PROVE DInv'
  <2> DEFINE first == [Idle EXCEPT !.op = "school", !.pc = "check leader", !.id = i,
                            !.role = user[i].role, !.school = s]
  <2>1. i \in Present /\ user[i] \in User /\ school[s] # "none"
    BY <1>0, <1>5, PresentRow DEF AssignSchool
  <2>2. user[i].role \in Roles
    BY <2>1 DEF User
  <2>3. first \in Call /\ LoneFits(first) /\ LegacyFits(first) /\ ThereFits(first)
    BY <2>1, <2>2 DEF Idle, Call, Pcs, Ops, LoneFits, LegacyFits, ThereFits, There
  <2>4. Begins(k, first) /\ first.pc # "set admins active"
    BY <1>5 DEF AssignSchool, Idle
  <2> QED BY <2>3, <2>4, BeginsKeepsDoors
<1>6. ASSUME NEW i \in UserIds, ActivateUser(k, i) \/ DeactivateUser(k, i) PROVE DInv'
  <2>1. PICK op \in {"activate", "deactivate"} :
          Begins(k, [Idle EXCEPT !.op = op, !.pc = "set active", !.id = i])
    BY <1>6 DEF ActivateUser, DeactivateUser
  <2> DEFINE first == [Idle EXCEPT !.op = op, !.pc = "set active", !.id = i]
  <2>2. first \in Call /\ LoneFits(first) /\ LegacyFits(first) /\ ThereFits(first)
    BY DEF Idle, Call, Pcs, Ops, LoneFits, LegacyFits, ThereFits, There
  <2>3. first.pc # "set admins active"
    BY DEF Idle
  <2> QED BY <2>1, <2>2, <2>3, BeginsKeepsDoors
<1>7. ASSUME NEW s \in Schools, ActivateSchool(k, s) \/ DeactivateSchool(k, s) PROVE DInv'
  <2>1. PICK op \in {"activate", "deactivate"} :
          Begins(k, [Idle EXCEPT !.op = op, !.pc = "set school active", !.school = s])
    BY <1>7 DEF ActivateSchool, DeactivateSchool
  <2> DEFINE first == [Idle EXCEPT !.op = op, !.pc = "set school active", !.school = s]
  <2>2. first \in Call /\ LoneFits(first) /\ LegacyFits(first) /\ ThereFits(first)
    BY <1>7 DEF Idle, Call, Pcs, Ops, LoneFits, LegacyFits, ThereFits, There,
                ActivateSchool, DeactivateSchool
  <2>3. first.pc # "set admins active"
    BY DEF Idle
  <2> QED BY <2>1, <2>2, <2>3, BeginsKeepsDoors
<1> QED BY <1>1, <1>2, <1>3, <1>4, <1>5, <1>6, <1>7 DEF BeginStaff

LEMMA BeginSessionKeepsDoors ==
  ASSUME IInv, DInv, NEW k \in Calls, BeginSession(k)
  PROVE  DInv'
<1> PICK i \in UserIds :
      \/ Login(k, i) \/ RefreshTokens(k, i) \/ ForgotPassword(k, i) \/ ResetPassword(k, i)
      \/ ChangePassword(k, i) \/ VerifyEmail(k, i) \/ ResendVerificationEmail(k, i)
  BY DEF BeginSession
<1>1. i \in Present /\ user[i] \in User /\ There(user[i].school)
  <2>1. i \in Present
    BY DEF Login, RefreshTokens, ForgotPassword, ResetPassword, ChangePassword, VerifyEmail,
           ResendVerificationEmail
  <2> QED BY <2>1, PresentRow DEF IInv, DInv, CallsDoor, ThereInv
(* The school is read only of those who have one. *)
<1>2. CASE Login(k, i)
  <2> DEFINE first == [Idle EXCEPT !.op = "login", !.id = i, !.role = user[i].role,
       !.school = user[i].school, !.active = user[i].active, !.legacy = user[i].legacy,
       !.pc = IF user[i].role # "super_admin" /\ user[i].school # NoSchool
              THEN "read school" ELSE "check legacy"]
  <2>1. /\ user[i].role \in Roles /\ user[i].school \in Schools \cup {NoSchool}
        /\ user[i].active \in BOOLEAN /\ user[i].legacy \in BOOLEAN
    BY <1>1 DEF User
  <2>2. /\ first.op = "login" /\ first.id = i /\ first.role = user[i].role
        /\ first.school = user[i].school /\ first.active = user[i].active
        /\ first.legacy = user[i].legacy
        /\ first.pc = IF user[i].role # "super_admin" /\ user[i].school # NoSchool
                      THEN "read school" ELSE "check legacy"
    BY DEF Idle
  <2>3. first \in Call
    BY <1>1, <2>1 DEF Idle, Call, Pcs, Ops
  <2>4. Begins(k, first)
    BY <1>2 DEF Login
  <2> HIDE DEF first
  <2>5. LoneFits(first) /\ LegacyFits(first) /\ ThereFits(first) /\ first.pc # "set admins active"
    BY <1>1, <2>2 DEF LoneFits, LegacyFits, ThereFits
  <2> QED BY <2>3, <2>4, <2>5, BeginsKeepsDoors
<1>3. CASE ~Login(k, i)
  <2>1. PICK op \in {"refresh", "forgot", "reset", "change", "verify", "resend"},
             pc \in {"issue", "set reset", "set password", "set verified"} :
          Begins(k, [Idle EXCEPT !.op = op, !.pc = pc, !.id = i])
    BY <1>3 DEF RefreshTokens, ForgotPassword, ResetPassword, ChangePassword, VerifyEmail,
                ResendVerificationEmail
  <2> DEFINE first == [Idle EXCEPT !.op = op, !.pc = pc, !.id = i]
  <2>2. /\ first \in Call /\ LoneFits(first) /\ LegacyFits(first) /\ ThereFits(first)
        /\ first.pc # "set admins active"
    BY <1>1, <2>1 DEF Idle, Call, Pcs, Ops, LoneFits, LegacyFits, ThereFits, There
  <2> QED BY <2>1, <2>2, BeginsKeepsDoors
<1> QED BY <1>2, <1>3

-----------------------------------------------------------------------------
(* Steps that leave everybody's standing.                                  *)

StandingSame ==
  /\ Present' = Present
  /\ \A i \in Present : /\ user'[i].role = user[i].role
                        /\ user'[i].school = user[i].school
                        /\ user'[i].active = user[i].active
                        /\ user'[i].number = user[i].number
                        /\ user'[i].prefix = user[i].prefix
                        /\ user'[i].legacy => user[i].legacy

LEMMA LoneFitsSame ==
  ASSUME StandingSame, school' = school, NEW c \in Call, CallFits(c)
  PROVE  LoneFits(c)' <=> LoneFits(c)
<1>1. LeadersOf(c.school, c.role)' = LeadersOf(c.school, c.role)
  BY DEF StandingSame, LeadersOf
<1>2. GenerateStaffId(c.school)' = GenerateStaffId(c.school)
  <2>1. Numbers(c.school)' = Numbers(c.school)
    BY DEF StandingSame, Numbers
  <2> QED BY <2>1 DEF GenerateStaffId
<1>3. c.pc \in RowPcs \/ (c.pc = "check leader" /\ c.op # "create") => c.id \in Present
  BY DEF CallFits
<1> QED BY <1>1, <1>2, <1>3 DEF LoneFits, StandingSame, RowPcs

(* A step of no call: at most everybody stops being alone. *)
LEMMA TouchKeepsDoors ==
  ASSUME IInv, DInv, StandingSame, UNCHANGED <<call, vetted, moved, settled>>,
         alone' = {} \/ (alone' = alone /\ school' = school),
         \A s \in Schools : school'[s] # school[s] => school[s] = "none"
  PROVE  DInv'
<1>1. call \in [Calls -> Call] /\ alone \subseteq Calls /\ \A k \in Calls : CallFits(call[k])
  BY DEF IInv, TypeOK, CallsInv
<1>2. AloneInv'
  BY DEF DInv, CallsDoor, AloneInv, Busy
<1>3. LoneInv'
  <2>1. CASE alone' = {}
    BY <2>1 DEF LoneInv
  <2>2. CASE alone' = alone /\ school' = school
    <3> SUFFICES ASSUME NEW k \in Calls, k \in alone PROVE LoneFits(call[k])'
      BY <1>1, <2>2 DEF LoneInv
    <3>1. PICK c \in Call : c = call[k]
      BY <1>1
    <3>2. LoneFits(c) /\ CallFits(c)
      BY <1>1, <3>1 DEF DInv, CallsDoor, LoneInv
    <3>3. LoneFits(c)'
      BY <2>2, <3>2, LoneFitsSame
    <3> QED BY <3>1, <3>3
  <2> QED BY <2>1, <2>2
<1>4. LegacyInv'
  <2> SUFFICES ASSUME NEW k \in Calls PROVE LegacyFits(call[k])'
    BY DEF LegacyInv
  <2>1. CallFits(call[k]) /\ LegacyFits(call[k])
    BY <1>1 DEF DInv, CallsDoor, LegacyInv
  <2> QED BY <2>1 DEF StandingSame, CallFits, LegacyFits, RowPcs
<1>5. ThereInv'
  <2>1. \A s \in Schools \cup {NoSchool} : There(s) => There(s)'
    BY DEF There
  <2>2. \A i \in Present : user[i].school \in Schools \cup {NoSchool}
    <3>1. \A i \in Present : user[i] \in User
      BY PresentRow DEF IInv
    <3> QED BY <3>1 DEF User
  <2>3. \A k \in Calls : call[k].school \in Schools \cup {NoSchool}
    BY <1>1 DEF Call
  <2>4. \A i \in Present' : There(user[i].school)'
    BY <2>1, <2>2 DEF StandingSame, DInv, CallsDoor, ThereInv
  <2>5. \A k \in Calls : ThereFits(call[k])'
    BY <2>1, <2>3 DEF DInv, CallsDoor, ThereInv, ThereFits
  <2> QED BY <2>4, <2>5 DEF ThereInv
<1>6. RowsDoor'
  BY StandingKept DEF DInv, StandingSame
<1> QED BY <1>2, <1>3, <1>4, <1>5, <1>6 DEF DInv, CallsDoor

(* A call ends. *)
LEMMA EndsKeepsDoors ==
  ASSUME IInv, DInv, NEW k \in Calls, Busy(k), Ends(k), StandingSame,
         UNCHANGED <<school, vetted, moved, settled>>
  PROVE  DInv'
<1>1. call' = [call EXCEPT ![k] = Idle] /\ alone' = alone /\ call \in [Calls -> Call]
  BY DEF Ends, IInv, TypeOK
<1>2. \A i \in Present' : There(user[i].school)'
  BY DEF StandingSame, DInv, CallsDoor, ThereInv, There
<1>3. CallsDoor'
  BY <1>1, <1>2, IdleFits, StepKeepsCalls DEF DInv, StandingSame
<1>4. \A j \in Calls : call'[j].pc = "set admins active" => call'[j] = call[j]
  BY <1>1 DEF Idle
<1>5. RowsDoor'
  BY <1>4, StandingKept DEF DInv, StandingSame
<1> QED BY <1>3, <1>5 DEF DInv

(* A call has read and goes on. *)
LEMMA MovesKeepsDoors ==
  ASSUME IInv, DInv, NEW k \in Calls, Busy(k), NEW pc \in Pcs, Goes(k, pc),
         UNCHANGED <<tables, history>>,
         LegacyFits([call[k] EXCEPT !.pc = pc]), CallFits([call[k] EXCEPT !.pc = pc]),
         k \in alone => LoneFits([call[k] EXCEPT !.pc = pc]),
         call[k].pc # "insert school", pc # "set admins active"
  PROVE  DInv'
<1>0. call \in [Calls -> Call]
  BY DEF IInv, TypeOK
<1>1. PICK c \in Call : c = [call[k] EXCEPT !.pc = pc]
  BY <1>0 DEF Call
<1>2. /\ call' = [call EXCEPT ![k] = c] /\ alone' = alone
      /\ UNCHANGED <<user, school, vetted, moved, settled>>
  BY <1>0, <1>1 DEF Goes, tables, history
<1>3. c.pc = pc /\ c.school = call[k].school
  BY <1>0, <1>1 DEF Call
<1>4. StandingSame
  BY <1>2 DEF StandingSame, Present
<1>5. ThereFits(c)'
  BY <1>2, <1>3 DEF DInv, CallsDoor, ThereInv, ThereFits, There
<1>6. LegacyFits(c)' /\ (k \in alone => LoneFits(c)')
  <2>1. k \in alone => LoneFits(c)'
    BY <1>1, <1>2, <1>4, LoneFitsSame
  <2>2. LegacyFits(c)'
    BY <1>1, <1>2 DEF LegacyFits
  <2> QED BY <2>1, <2>2
<1>7. CallsDoor'
  <2>1. \A i \in Present' : There(user[i].school)'
    BY <1>2, <1>4 DEF StandingSame, DInv, CallsDoor, ThereInv, There
  <2> QED BY <1>2, <1>4, <1>5, <1>6, <2>1, StepKeepsCalls DEF DInv, StandingSame
<1>8. RowsDoor'
  <2>1. \A j \in Calls : call'[j].pc = "set admins active" => call'[j] = call[j]
    BY <1>0, <1>2, <1>3
  <2> QED BY <1>2, <1>4, <2>1, StandingKept DEF DInv, StandingSame
<1> QED BY <1>7, <1>8 DEF DInv

LEMMA SetsStanding ==
  ASSUME IInv, NEW i \in Present, NEW row \in User, Sets(i, row),
         row.role = user[i].role, row.school = user[i].school, row.active = user[i].active,
         row.number = user[i].number, row.prefix = user[i].prefix,
         row.legacy => user[i].legacy
  PROVE  StandingSame /\ school' = school
<1>1. user \in [UserIds -> User \cup {NoUser}] /\ i \in UserIds
  BY DEF IInv, TypeOK, Present
<1>2. user' = [user EXCEPT ![i] = row] /\ school' = school
  BY DEF Sets
<1>3. Present' = Present
  BY <1>1, <1>2, UserIsRow DEF Present
<1>4. \A j \in Present : j \in UserIds /\ user'[j] = IF j = i THEN row ELSE user[j]
  BY <1>1, <1>2 DEF Present
<1> QED BY <1>2, <1>3, <1>4 DEF StandingSame

LEMMA RefusedKeepsDoors ==
  ASSUME IInv, DInv, NEW k \in Calls, Busy(k), Refused(k) \/ CutOff(k)
  PROVE  DInv'
<1>1. /\ Ends(k) /\ UNCHANGED <<user, school, vetted, moved, settled>>
  BY DEF Refused, CutOff, tables, history
<1>2. StandingSame
  BY <1>1 DEF StandingSame, Present
<1> QED BY <1>1, <1>2, EndsKeepsDoors

(* Tokens and passwords. *)
LEMMA SessionStepKeepsDoors ==
  ASSUME IInv, DInv, NEW k \in Calls,
         GenerateTokens(k) \/ SetReset(k) \/ SetPassword(k) \/ SetVerified(k)
  PROVE  DInv'
<1> DEFINE i == call[k].id
<1>1. call[k].pc \in {"issue", "set reset", "set password", "set verified"}
  BY DEF GenerateTokens, SetReset, SetPassword, SetVerified, At
<1>2. i \in Present /\ user[i] \in User
  BY <1>1, RowStep DEF RowPcs
<1>3. Ends(k) /\ UNCHANGED <<vetted, moved, settled>>
  BY DEF GenerateTokens, SetReset, SetPassword, SetVerified, history
<1>4. PICK row \in User :
        /\ Sets(i, row)
        /\ row.role = user[i].role /\ row.school = user[i].school /\ row.active = user[i].active
        /\ row.number = user[i].number /\ row.prefix = user[i].prefix
        /\ row.legacy => user[i].legacy
  <2>1. CASE GenerateTokens(k)
    <3> DEFINE row == [user[i] EXCEPT !.refresh = TRUE]
    <3>1. Sets(i, row) /\ row \in User
      BY <1>2, <2>1 DEF GenerateTokens, User
    <3>2. /\ row.role = user[i].role /\ row.school = user[i].school
          /\ row.active = user[i].active /\ row.number = user[i].number
          /\ row.prefix = user[i].prefix /\ row.legacy = user[i].legacy
      BY <1>2 DEF User
    <3> HIDE DEF row
    <3> QED BY <3>1, <3>2
  <2>2. CASE SetReset(k)
    <3> DEFINE row == [user[i] EXCEPT !.reset = TRUE, !.live = TRUE]
    <3>1. Sets(i, row) /\ row \in User
      BY <1>2, <2>2 DEF SetReset, User
    <3>2. /\ row.role = user[i].role /\ row.school = user[i].school
          /\ row.active = user[i].active /\ row.number = user[i].number
          /\ row.prefix = user[i].prefix /\ row.legacy = user[i].legacy
      BY <1>2 DEF User
    <3> HIDE DEF row
    <3> QED BY <3>1, <3>2
  <2>3. CASE SetPassword(k)
    <3> DEFINE base == [user[i] EXCEPT !.legacy = FALSE, !.refresh = FALSE]
               row == IF call[k].op = "reset"
                      THEN [base EXCEPT !.reset = FALSE, !.live = FALSE] ELSE base
    <3>1. Sets(i, row)
      BY <2>3 DEF SetPassword
    <3>2. /\ base \in User /\ base.role = user[i].role /\ base.school = user[i].school
          /\ base.active = user[i].active /\ base.number = user[i].number
          /\ base.prefix = user[i].prefix /\ ~base.legacy
      BY <1>2 DEF User
    <3> HIDE DEF base
    <3>3. /\ row \in User /\ row.role = base.role /\ row.school = base.school
          /\ row.active = base.active /\ row.number = base.number
          /\ row.prefix = base.prefix /\ row.legacy = base.legacy
      BY <3>2 DEF User
    <3> HIDE DEF row
    <3> QED BY <3>1, <3>2, <3>3
  <2>4. CASE SetVerified(k)
    <3> DEFINE row == IF call[k].op = "verify"
                      THEN [user[i] EXCEPT !.verified = TRUE, !.verify = FALSE]
                      ELSE [user[i] EXCEPT !.verify = TRUE]
    <3>1. Sets(i, row)
      BY <2>4 DEF SetVerified
    <3>2. /\ row \in User /\ row.role = user[i].role /\ row.school = user[i].school
          /\ row.active = user[i].active /\ row.number = user[i].number
          /\ row.prefix = user[i].prefix /\ row.legacy = user[i].legacy
      BY <1>2 DEF User
    <3> HIDE DEF row
    <3> QED BY <3>1, <3>2
  <2> QED BY <2>1, <2>2, <2>3, <2>4
<1>5. StandingSame /\ school' = school
  BY <1>2, <1>4, SetsStanding
<1> QED BY <1>1, <1>3, <1>5, EndsKeepsDoors DEF Busy

(* What the checks of a lone call find goes with it to the statement.      *)
LEMMA CheckLeaderKeepsDoors ==
  ASSUME IInv, DInv, NEW k \in Calls, CheckLeader(k)
  PROVE  DInv'
<1> DEFINE c == call[k]
<1>1. c \in Call /\ CallFits(c) /\ c.pc = "check leader" /\ Busy(k) /\ (k \in alone => LoneFits(c))
  BY DEF IInv, TypeOK, CallsInv, CheckLeader, At, Busy, DInv, CallsDoor, LoneInv
<1>2. CASE Refused(k)
  BY <1>1, <1>2, RefusedKeepsDoors
<1>3. CASE ~Refused(k)
  <2> DEFINE found == IF c.role \in Leaders /\ c.school # NoSchool
                      THEN LeadersOf(c.school, c.role) ELSE {}
  <2>1. c.op \in {"create", "role", "school"}
    BY <1>1 DEF CallFits
  <2>2. PICK pc \in {"insert user", "set role", "set school"} :
          /\ Goes(k, pc) /\ UNCHANGED <<tables, history>>
          /\ pc = "insert user" => c.op = "create"
          /\ pc = "set role" => c.op = "role"
          /\ pc = "set school" => c.op = "school"
          /\ found = {} \/ c.id \in found
    BY <1>3, <2>1 DEF CheckLeader
  <2> DEFINE d == [c EXCEPT !.pc = pc]
  <2>3. /\ d.pc = pc /\ d.op = c.op /\ d.id = c.id /\ d.email = c.email /\ d.role = c.role
        /\ d.school = c.school /\ d.number = c.number
    BY <1>1 DEF Call
  <2> HIDE DEF d
  <2>4. LegacyFits(d) /\ CallFits(d)
    BY <1>1, <2>2, <2>3 DEF LegacyFits, CallFits, RowPcs, Inserts
  <2>5. k \in alone => LoneFits(d)
    <3> HIDE DEF c
    <3> QED BY <1>1, <2>2, <2>3 DEF LoneFits
  <2>6. pc \in Pcs /\ pc # "set admins active"
    BY DEF Pcs
  <2> QED BY <1>1, <2>2, <2>4, <2>5, <2>6, MovesKeepsDoors DEF d
<1> QED BY <1>2, <1>3

LEMMA ReadSchoolKeepsDoors ==
  ASSUME IInv, DInv, NEW k \in Calls, ReadSchool(k)
  PROVE  DInv'
<1> DEFINE c == call[k]
<1>1. /\ c \in Call /\ CallFits(c) /\ c.pc = "read school" /\ c.op = "login" /\ Busy(k)
      /\ (k \in alone => LoneFits(c)) /\ LegacyFits(c)
  BY DEF IInv, TypeOK, CallsInv, ReadSchool, At, Busy, DInv, CallsDoor, LoneInv, LegacyInv, CallFits
<1>2. CASE Refused(k)
  BY <1>1, <1>2, RefusedKeepsDoors
<1>3. CASE ~Refused(k)
  <2>1. /\ Goes(k, "check legacy") /\ UNCHANGED <<tables, history>>
        /\ school[c.school] # "inactive" /\ c.active
    BY <1>3 DEF ReadSchool
  <2> DEFINE d == [c EXCEPT !.pc = "check legacy"]
  <2>2. /\ d.pc = "check legacy" /\ d.op = c.op /\ d.id = c.id /\ d.role = c.role
        /\ d.school = c.school /\ d.active = c.active /\ d.legacy = c.legacy
    BY <1>1 DEF Call
  <2> HIDE DEF d
  <2>3. LegacyFits(d) /\ CallFits(d)
    BY <1>1, <2>2 DEF LegacyFits, CallFits, RowPcs, Inserts
  <2>4. k \in alone => LoneFits(d)
    <3> HIDE DEF c
    <3> QED BY <1>1, <2>1, <2>2 DEF LoneFits
  <2> QED BY <1>1, <2>1, <2>3, <2>4, MovesKeepsDoors DEF d, Pcs
<1> QED BY <1>2, <1>3

LEMMA CheckLegacyKeepsDoors ==
  ASSUME IInv, DInv, NEW k \in Calls, CheckLegacy(k)
  PROVE  DInv'
<1> DEFINE c == call[k]
<1>1. /\ c \in Call /\ CallFits(c) /\ c.pc = "check legacy" /\ c.op = "login" /\ Busy(k)
      /\ (k \in alone => LoneFits(c)) /\ LegacyFits(c)
  BY DEF IInv, TypeOK, CallsInv, CheckLegacy, At, Busy, DInv, CallsDoor, LoneInv, LegacyInv, CallFits
<1>2. c.id \in Present /\ user[c.id] \in User
  BY <1>1, RowStep DEF RowPcs
<1>3. CASE c.legacy /\ c.role = "parent"
  <2> DEFINE row == [user[c.id] EXCEPT !.legacy = FALSE, !.reset = TRUE, !.live = TRUE]
  <2>1. Sets(c.id, row) /\ Ends(k) /\ UNCHANGED <<vetted, moved, settled>>
    BY <1>3 DEF CheckLegacy
  <2>2. /\ row \in User /\ row.role = user[c.id].role /\ row.school = user[c.id].school
        /\ row.active = user[c.id].active /\ row.number = user[c.id].number
        /\ row.prefix = user[c.id].prefix /\ ~row.legacy
    BY <1>2 DEF User
  <2> HIDE DEF row
  <2>3. StandingSame /\ school' = school
    BY <1>2, <2>1, <2>2, SetsStanding
  <2> QED BY <1>1, <2>1, <2>3, EndsKeepsDoors
<1>4. CASE ~(c.legacy /\ c.role = "parent")
  <2>1. Goes(k, "issue") /\ UNCHANGED <<tables, history>>
    BY <1>4 DEF CheckLegacy
  <2> DEFINE d == [c EXCEPT !.pc = "issue"]
  <2>2. /\ d.pc = "issue" /\ d.op = c.op /\ d.id = c.id /\ d.role = c.role
        /\ d.school = c.school /\ d.active = c.active /\ d.legacy = c.legacy
    BY <1>1 DEF Call
  <2> HIDE DEF d
  <2>3. LegacyFits(d) /\ CallFits(d)
    BY <1>1, <1>4, <2>2 DEF LegacyFits, CallFits, RowPcs, Inserts
  <2>4. k \in alone => LoneFits(d)
    <3> HIDE DEF c
    <3> QED BY <1>1, <2>2 DEF LoneFits
  <2> QED BY <1>1, <2>1, <2>3, <2>4, MovesKeepsDoors DEF d, Pcs
<1> QED BY <1>3, <1>4

-----------------------------------------------------------------------------
(* A school is switched, and then its administrators.                      *)

LEMMA SetSchoolActiveKeepsDoors ==
  ASSUME IInv, DInv, NEW k \in Calls, SetSchoolActive(k)
  PROVE  DInv'
<1> DEFINE c == call[k]
           on == IF c.op = "activate" THEN "active" ELSE "inactive"
<1>1. /\ call \in [Calls -> Call] /\ school \in [Schools -> {"none", "active", "inactive"}]
      /\ c \in Call /\ c.pc = "set school active" /\ Busy(k) /\ settled \subseteq Schools
      /\ vetted \subseteq Present
  BY DEF IInv, TypeOK, SetSchoolActive, At, Busy
<1>2. PICK s \in Schools : s = c.school
  <2>1. CallFits(c)
    BY DEF IInv, CallsInv
  <2> QED BY <1>1, <2>1 DEF CallFits
<1>3. PICK d \in Call : d = [c EXCEPT !.pc = "set admins active"]
  BY <1>1 DEF Call, Pcs
<1>4. d.pc = "set admins active" /\ d.op = c.op /\ d.school = s
  BY <1>1, <1>2, <1>3 DEF Call
<1>5. /\ school' = [school EXCEPT ![s] = on] /\ settled' = settled \ {s}
      /\ call' = [call EXCEPT ![k] = d] /\ alone' = alone /\ UNCHANGED <<user, vetted, moved>>
  BY <1>1, <1>2, <1>3 DEF SetSchoolActive, Goes
<1>6. Present' = Present
  BY <1>5 DEF Present
<1>7. CallsDoor'
  <2>1. school'[s] = on /\ on # "none" /\ \A t \in Schools : school[t] # "none" => school'[t] # "none"
    BY <1>1, <1>5
  <2>2. \A i \in Present' : There(user[i].school)'
    <3>1. \A i \in Present : user[i] \in User
      BY PresentRow DEF IInv
    <3> QED BY <1>5, <1>6, <2>1, <3>1 DEF DInv, CallsDoor, ThereInv, There, User
  <2>3. LegacyFits(d)' /\ ThereFits(d)' /\ LoneFits(d)'
    <3> HIDE DEF c
    <3> QED BY <1>4, <2>1 DEF LegacyFits, ThereFits, There, LoneFits
  <2> QED BY <1>1, <1>5, <2>1, <2>2, <2>3, StepKeepsCalls DEF DInv
<1>8. SettledInv'
  <2>1. \A t \in Schools : Admins(t)' = Admins(t)
    BY <1>5, <1>6 DEF Admins
  <2>2. \A t \in settled' : t \in settled /\ t \in Schools /\ school'[t] = school[t]
    BY <1>1, <1>5
  <2>3. AdminsFollowSchool'
    <3>1. \A t \in settled : \A i \in Admins(t) : user[i].active <=> school[t] = "active"
      BY DEF DInv, RowsDoor, SettledInv, AdminsFollowSchool
    <3>2. \A t \in settled' : \A i \in Admins(t)' : user'[i].active <=> school'[t] = "active"
      <4>1. user' = user
        BY <1>5
      <4> QED BY <2>1, <2>2, <3>1, <4>1
    <3> QED BY <3>2 DEF AdminsFollowSchool
  <2>4. \A j \in Calls : call'[j].pc = "set admins active" => call'[j].school \notin settled'
    BY <1>1, <1>4, <1>5 DEF DInv, RowsDoor, SettledInv, At
  <2> QED BY <2>2, <2>3, <2>4 DEF DInv, RowsDoor, SettledInv, At
<1>9. NumbersInv' /\ VettedLeadersAlone'
  BY <1>5, <1>6 DEF DInv, RowsDoor, NumbersInv, OwnNumber, VettedLeadersAlone, Rivals, Leading
<1> QED BY <1>7, <1>8, <1>9 DEF DInv, RowsDoor

LEMMA SetAdminsActiveKeepsDoors ==
  ASSUME IInv, DInv, NEW k \in Calls, SetAdminsActive(k)
  PROVE  DInv'
<1> DEFINE c == call[k]
           on == c.op = "activate"
<1>1. /\ call \in [Calls -> Call] /\ user \in [UserIds -> User \cup {NoUser}]
      /\ c \in Call /\ c.pc = "set admins active" /\ Busy(k) /\ settled \subseteq Schools
      /\ vetted \subseteq Present /\ (k \in alone => LoneFits(c)) /\ ThereFits(c)
      /\ c.school \notin settled
  BY DEF IInv, TypeOK, SetAdminsActive, At, Busy, DInv, CallsDoor, LoneInv, ThereInv, RowsDoor,
         SettledInv
<1>2. PICK s \in Schools : s = c.school
  <2>1. CallFits(c)
    BY DEF IInv, CallsInv
  <2> QED BY <1>1, <2>1 DEF CallFits
<1>3. /\ user' = [i \in UserIds |->
                    IF i \in Admins(s) THEN [user[i] EXCEPT !.active = on] ELSE user[i]]
      /\ settled' = IF k \in alone THEN settled \cup {s} ELSE settled
      /\ call' = [call EXCEPT ![k] = Idle] /\ alone' = alone
      /\ UNCHANGED <<school, vetted, moved>>
  BY <1>2 DEF SetAdminsActive, Ends
<1>4. school[s] # "none" /\ (k \in alone => (on <=> school[s] = "active"))
  <2>1. school[s] # "none"
    BY <1>1, <1>2, AccountsAssumption DEF ThereFits, There
  <2>2. k \in alone => school[s] = IF on THEN "active" ELSE "inactive"
    BY <1>1, <1>2 DEF LoneFits
  <2> QED BY <2>1, <2>2
<1>5. ASSUME NEW i \in Present
      PROVE  /\ i \in UserIds /\ user'[i] \in User
             /\ user'[i].role = user[i].role /\ user'[i].school = user[i].school
             /\ user'[i].number = user[i].number /\ user'[i].prefix = user[i].prefix
             /\ user'[i].legacy = user[i].legacy
             /\ user'[i].active = IF i \in Admins(s) THEN on ELSE user[i].active
  <2>1. user[i] \in User /\ i \in UserIds /\ on \in BOOLEAN
    BY PresentRow DEF IInv
  <2>2. user'[i] = IF i \in Admins(s) THEN [user[i] EXCEPT !.active = on] ELSE user[i]
    BY <1>3, <2>1
  <2> HIDE DEF on
  <2> QED BY <2>1, <2>2 DEF User
<1>6. Present' = Present
  <2>1. \A i \in UserIds : i \notin Present => user'[i] = user[i]
    BY <1>3 DEF Admins
  <2>2. \A i \in Present : user'[i] # NoUser
    BY <1>5, UserIsRow
  <2> QED BY <2>1, <2>2 DEF Present
<1>7. CallsDoor'
  <2>1. \A i \in Present' : There(user[i].school)'
    <3>1. \A i \in Present : user'[i].school = user[i].school /\ There(user[i].school)
      BY <1>5 DEF DInv, CallsDoor, ThereInv
    <3> QED BY <1>3, <1>6, <3>1 DEF There
  <2> QED BY <1>1, <1>3, <1>5, <2>1, IdleFits, StepKeepsCalls DEF DInv
<1> HIDE DEF on
<1>8. SettledInv'
  <2>1. \A t \in Schools : Admins(t)' = Admins(t)
    BY <1>5, <1>6 DEF Admins
  <2>2. \A t \in settled' : t \in settled \/ (t = s /\ k \in alone)
    BY <1>3
  <2>3. ASSUME NEW t \in Schools, t \in settled', NEW i \in Admins(t)
        PROVE  user'[i].active <=> school[t] = "active"
    <3>1. i \in Present /\ user[i].school = t
      BY DEF Admins
    <3>2. CASE t = s /\ k \in alone
      BY <1>4, <1>5, <3>1, <3>2, <2>3
    <3>3. CASE t \in settled
      <4>1. t # s
        BY <1>1, <1>2, <3>3
      <4>2. i \notin Admins(s)
        BY <3>1, <4>1 DEF Admins
      <4>3. user[i].active <=> school[t] = "active"
        BY <3>3 DEF DInv, RowsDoor, SettledInv, AdminsFollowSchool
      <4> QED BY <1>5, <3>1, <4>2, <4>3
    <3> QED BY <2>2, <2>3, <3>2, <3>3
  <2>5. AdminsFollowSchool'
    <3>1. settled' \subseteq Schools
      BY <1>1, <2>2
    <3>2. \A t \in settled' : \A i \in Admins(t)' : user'[i].active <=> school'[t] = "active"
      BY <1>3, <2>1, <2>3, <3>1
    <3> QED BY <3>2 DEF AdminsFollowSchool
  <2>4. ASSUME NEW j \in Calls, call'[j].pc = "set admins active"
        PROVE  call'[j].school \notin settled'
    <3>1. j # k /\ call'[j] = call[j]
      BY <1>1, <1>3, <2>4 DEF Idle
    <3>2. k \notin alone
      BY <2>4, <3>1 DEF DInv, CallsDoor, AloneInv, Busy
    <3>3. settled' = settled /\ call[j].pc = "set admins active"
      BY <1>3, <2>4, <3>1, <3>2
    <3> QED BY <3>1, <3>3 DEF DInv, RowsDoor, SettledInv, At
  <2> QED BY <1>3, <1>4, <2>2, <2>5, <2>4 DEF DInv, RowsDoor, SettledInv, At
<1>9. NumbersInv'
  <2>1. ASSUME NEW i \in Present \ moved PROVE (user[i].number # 0 => OwnNumber(i))'
    <3>1. user[i].number # 0 => OwnNumber(i)
      BY DEF DInv, RowsDoor, NumbersInv
    <3> QED BY <1>5, <3>1 DEF OwnNumber
  <2> QED BY <1>3, <1>6, <2>1 DEF NumbersInv
(* No administrator is a leader. *)
<1>10. VettedLeadersAlone'
  <2>1. ASSUME NEW i \in vetted, Leading(i)' PROVE i \in Present /\ Leading(i)
    <3>1. i \in Present /\ user[i].role \in Leaders
      BY <1>1, <1>5, <2>1 DEF Leading
    <3>2. i \notin Admins(s)
      BY <3>1, AccountsAssumption DEF Admins
    <3> QED BY <1>5, <2>1, <3>1, <3>2 DEF Leading
  <2>2. ASSUME NEW i \in vetted, NEW j \in vetted, Rivals(i, j)' PROVE FALSE
    <3>1. i \in Present /\ j \in Present /\ Leading(i) /\ Leading(j)
      BY <2>1, <2>2 DEF Rivals
    <3>2. Rivals(i, j)
      BY <1>5, <2>2, <3>1 DEF Rivals
    <3> QED BY <3>2 DEF DInv, RowsDoor, VettedLeadersAlone
  <2> QED BY <1>3, <2>2 DEF VettedLeadersAlone
<1> QED BY <1>7, <1>8, <1>9, <1>10 DEF DInv, RowsDoor

-----------------------------------------------------------------------------
(* An account is new or gets another role, school or activity: it counts   *)
(* as vetted only if a lone call found no other leader.                    *)
LEMMA ChangesKeepRows ==
  ASSUME IInv, DInv, NEW k \in Calls, NEW i \in UserIds, NEW row \in User,
         user' = [user EXCEPT ![i] = row], school' = school,
         NEW checked, Changes(k, i, checked), moved \subseteq moved',
         \A j \in Calls : call'[j].pc = "set admins active" => call'[j] = call[j],
         checked /\ k \in alone /\ row.role \in Leaders /\ row.school # NoSchool =>
           \A j \in vetted \ {i} :
             ~(Leading(j) /\ user[j].role = row.role /\ user[j].school = row.school),
         i \notin moved' /\ row.number # 0 =>
           row.school # NoSchool /\ row.prefix = Prefix[row.school]
  PROVE  RowsDoor'
<1>1. /\ user \in [UserIds -> User \cup {NoUser}] /\ vetted \subseteq Present
      /\ settled \subseteq Schools
  BY DEF IInv, TypeOK
<1>2. user'[i] = row /\ \A j \in Present \ {i} : user'[j] = user[j]
  BY <1>1 DEF Present
<1>3. Present' = Present \cup {i}
  BY <1>1, UserIsRow DEF Present
<1>4. SettledInv'
  <2>1. \A t \in settled' : t \in settled /\ i \notin Admins(t) /\ i \notin Admins(t)'
    BY DEF Changes
  <2>2. ASSUME NEW t \in settled', NEW j \in Admins(t)'
        PROVE  user'[j].active <=> school'[t] = "active"
    <3>1. j # i /\ t \in settled
      BY <2>1
    <3>2. j \in Admins(t) /\ user'[j] = user[j]
      BY <1>2, <1>3, <3>1 DEF Admins
    <3>3. user[j].active <=> school[t] = "active"
      BY <3>1, <3>2 DEF DInv, RowsDoor, SettledInv, AdminsFollowSchool
    <3> QED BY <3>2, <3>3
  <2>3. AdminsFollowSchool'
    BY <2>2 DEF AdminsFollowSchool
  <2>4. \A j \in Calls : call'[j].pc = "set admins active" => call'[j].school \notin settled'
    BY <2>1 DEF DInv, RowsDoor, SettledInv, At
  <2>5. \A t \in settled' : school'[t] # "none"
    BY <2>1 DEF DInv, RowsDoor, SettledInv
  <2> QED BY <2>3, <2>4, <2>5 DEF SettledInv, At
<1>5. NumbersInv'
  <2> SUFFICES ASSUME NEW j \in Present', j \notin moved', user'[j].number # 0
               PROVE  OwnNumber(j)'
    BY DEF NumbersInv
  <2>1. CASE j = i
    BY <1>2, <2>1 DEF OwnNumber
  <2>2. CASE j # i
    <3>1. j \in Present \ moved /\ user'[j] = user[j]
      BY <1>2, <1>3, <2>2
    <3>2. OwnNumber(j)
      BY <3>1 DEF DInv, RowsDoor, NumbersInv
    <3> QED BY <3>1, <3>2 DEF OwnNumber
  <2> QED BY <2>1, <2>2
<1>6. VettedLeadersAlone'
  <2>1. vetted' \subseteq vetted \cup {i} /\ (i \in vetted' => checked /\ k \in alone)
    BY DEF Changes
  <2>2. \A j \in vetted \ {i} : user'[j] = user[j]
    BY <1>1, <1>2
  <2>3. ASSUME NEW j \in vetted \ {i}, i \in vetted' PROVE ~Rivals(i, j)' /\ ~Rivals(j, i)'
    BY <1>2, <2>1, <2>2, <2>3 DEF Rivals, Leading
  <2>4. ASSUME NEW j \in vetted \ {i}, NEW m \in vetted \ {i} PROVE ~Rivals(j, m)'
    <3>1. ~Rivals(j, m)
      BY DEF DInv, RowsDoor, VettedLeadersAlone
    <3> QED BY <2>2, <3>1 DEF Rivals, Leading
  <2>5. ~Rivals(i, i)'
    BY DEF Rivals
  <2>6. ASSUME NEW j \in vetted', NEW m \in vetted' PROVE ~Rivals(j, m)'
    <3>1. CASE j = i /\ m = i
      BY <3>1 DEF Rivals
    <3>2. CASE j = i /\ m # i
      BY <2>1, <2>3, <3>2
    <3>3. CASE j # i /\ m = i
      BY <2>1, <2>3, <3>3
    <3>4. CASE j # i /\ m # i
      BY <2>1, <2>4, <3>4
    <3> QED BY <3>1, <3>2, <3>3, <3>4
  <2> QED BY <2>6 DEF VettedLeadersAlone
<1> QED BY <1>4, <1>5, <1>6 DEF RowsDoor

LEMMA SetsStaffKeepDoors ==
  ASSUME IInv, DInv, NEW k \in Calls, SetRole(k) \/ SetSchool(k) \/ SetActive(k)
  PROVE  DInv'
<1> DEFINE c == call[k]
<1>0. PICK i \in UserIds : i = c.id
  <2>1. c.pc \in RowPcs
    BY DEF SetRole, SetSchool, SetActive, At, RowPcs
  <2> QED BY <2>1, RowStep DEF Present
<1>1. /\ c.pc \in {"set role", "set school", "set active"} /\ c \in Call /\ CallFits(c)
      /\ i \in Present /\ user[i] \in User /\ Busy(k) /\ (k \in alone => LoneFits(c))
      /\ ThereFits(c) /\ call \in [Calls -> Call] /\ vetted \subseteq Present
  <2>1. c.pc \in {"set role", "set school", "set active"}
    BY DEF SetRole, SetSchool, SetActive, At
  <2> QED BY <1>0, <2>1, RowStep
          DEF RowPcs, Busy, DInv, CallsDoor, LoneInv, ThereInv, IInv, TypeOK
<1>2. call' = [call EXCEPT ![k] = Idle] /\ alone' = alone /\ school' = school
  BY DEF SetRole, SetSchool, SetActive, Ends, Sets
<1>3. \A j \in Calls : call'[j].pc = "set admins active" => call'[j] = call[j]
  BY <1>1, <1>2 DEF Idle
(* In each case the row, and what a lone call knows of it. *)
<1>4. \E row \in User, checked \in BOOLEAN :
        /\ user' = [user EXCEPT ![i] = row] /\ Changes(k, i, checked) /\ moved \subseteq moved'
        /\ row.number = user[i].number /\ row.prefix = user[i].prefix
        /\ row.legacy = user[i].legacy /\ There(row.school)
        /\ i \notin moved' => row.school = user[i].school
        /\ checked /\ k \in alone /\ row.role \in Leaders /\ row.school # NoSchool =>
             LeadersOf(row.school, row.role) \subseteq {i}
  <2>1. CASE SetRole(k)
    <3> DEFINE row == [user[i] EXCEPT !.role = c.role]
               checked == user[i].active /\ user[i].role # c.role
    <3>1. c.role \in Roles /\ c.pc = "set role"
      BY <1>1, <2>1 DEF SetRole, At, CallFits
    <3>2. /\ row \in User /\ row.role = c.role /\ row.school = user[i].school
          /\ row.number = user[i].number /\ row.prefix = user[i].prefix
          /\ row.legacy = user[i].legacy
      BY <1>1, <3>1 DEF User
    <3>3. user' = [user EXCEPT ![i] = row] /\ Changes(k, i, checked) /\ moved' = moved
      BY <1>0, <2>1 DEF SetRole, Sets
    <3>4. There(row.school)
      BY <1>1, <3>2 DEF DInv, CallsDoor, ThereInv
    <3>5. ASSUME checked, k \in alone, row.role \in Leaders, row.school # NoSchool
          PROVE  LeadersOf(row.school, row.role) \subseteq {i}
      <4>1. row.school = c.school
        BY <1>0, <1>1, <3>1, <3>2, <3>5 DEF LoneFits
      <4>2. i \notin LeadersOf(c.school, c.role)
        BY <3>5 DEF LeadersOf
      <4> HIDE DEF row
      <4> QED BY <1>0, <1>1, <3>1, <3>2, <3>5, <4>1, <4>2 DEF LoneFits
    <3>6. checked \in BOOLEAN
      <4>1. user[i].active \in BOOLEAN
        BY <1>1 DEF User
      <4> QED BY <4>1
    <3> HIDE DEF row, checked
    <3> QED BY <3>2, <3>3, <3>4, <3>5, <3>6
  <2>2. CASE SetSchool(k)
    <3> DEFINE row == [user[i] EXCEPT !.school = c.school]
               checked == user[i].active /\ user[i].school # c.school
    <3>1. c.school \in Schools /\ c.pc = "set school"
      BY <1>1, <2>2 DEF SetSchool, At, CallFits
    <3>2. /\ row \in User /\ row.role = user[i].role /\ row.school = c.school
          /\ row.number = user[i].number /\ row.prefix = user[i].prefix
          /\ row.legacy = user[i].legacy
      BY <1>1, <3>1 DEF User
    <3>3. user' = [user EXCEPT ![i] = row] /\ Changes(k, i, checked) /\ moved' = moved \cup {i}
      BY <1>0, <2>2 DEF SetSchool, Sets
    <3>4. There(row.school)
      BY <1>1, <3>1, <3>2 DEF ThereFits
    <3>5. ASSUME checked, k \in alone, row.role \in Leaders, row.school # NoSchool
          PROVE  LeadersOf(row.school, row.role) \subseteq {i}
      <4>1. row.role = c.role
        BY <1>0, <1>1, <3>1, <3>2, <3>5 DEF LoneFits
      <4>2. i \notin LeadersOf(c.school, c.role)
        BY <3>5 DEF LeadersOf
      <4> HIDE DEF row
      <4> QED BY <1>0, <1>1, <3>1, <3>2, <3>5, <4>1, <4>2 DEF LoneFits
    <3>6. checked \in BOOLEAN
      <4>1. user[i].active \in BOOLEAN
        BY <1>1 DEF User
      <4> QED BY <4>1
    <3> HIDE DEF row, checked
    <3> QED BY <3>2, <3>3, <3>4, <3>5, <3>6
  <2>3. CASE SetActive(k)
    <3> DEFINE row == [user[i] EXCEPT !.active = c.op = "activate"]
    <3>1. /\ row \in User /\ row.school = user[i].school /\ row.number = user[i].number
          /\ row.prefix = user[i].prefix /\ row.legacy = user[i].legacy
      BY <1>1 DEF User
    <3>2. user' = [user EXCEPT ![i] = row] /\ Changes(k, i, FALSE) /\ moved' = moved
      BY <1>0, <2>3 DEF SetActive, Sets
    <3>3. There(row.school)
      BY <1>1, <3>1 DEF DInv, CallsDoor, ThereInv
    <3> HIDE DEF row
    <3> QED BY <3>1, <3>2, <3>3
  <2> QED BY <2>1, <2>2, <2>3
<1>5. PICK row \in User, checked \in BOOLEAN :
        /\ user' = [user EXCEPT ![i] = row] /\ Changes(k, i, checked) /\ moved \subseteq moved'
        /\ row.number = user[i].number /\ row.prefix = user[i].prefix
        /\ row.legacy = user[i].legacy /\ There(row.school)
        /\ i \notin moved' => row.school = user[i].school
        /\ checked /\ k \in alone /\ row.role \in Leaders /\ row.school # NoSchool =>
             LeadersOf(row.school, row.role) \subseteq {i}
  BY <1>4
<1>6. Present' = Present /\ user'[i] = row /\ \A j \in Present \ {i} : user'[j] = user[j]
  <2>1. user \in [UserIds -> User \cup {NoUser}]
    BY DEF IInv, TypeOK
  <2> QED BY <1>1, <1>5, <2>1, UserIsRow DEF Present
<1>7. CallsDoor'
  <2>1. \A j \in Present' : There(user[j].school)'
    BY <1>2, <1>5, <1>6 DEF DInv, CallsDoor, ThereInv, There
  <2>2. \A j \in Present : user'[j].legacy => user[j].legacy
    BY <1>5, <1>6
  <2> QED BY <1>1, <1>2, <2>1, <2>2, IdleFits, StepKeepsCalls DEF DInv
<1>8. RowsDoor'
  <2>1. checked /\ k \in alone /\ row.role \in Leaders /\ row.school # NoSchool =>
          \A j \in vetted \ {i} :
            ~(Leading(j) /\ user[j].role = row.role /\ user[j].school = row.school)
    BY <1>1, <1>5 DEF LeadersOf, Leading
  <2>2. i \notin moved' /\ row.number # 0 =>
          row.school # NoSchool /\ row.prefix = Prefix[row.school]
    BY <1>1, <1>5 DEF DInv, RowsDoor, NumbersInv, OwnNumber
  <2> QED BY <1>2, <1>3, <1>5, <2>1, <2>2, ChangesKeepRows
<1> QED BY <1>7, <1>8 DEF DInv

LEMMA InsertsKeepDoors ==
  ASSUME IInv, DInv, NEW k \in Calls, InsertUser(k) \/ InsertRegistered(k) \/ InsertSchool(k)
  PROVE  DInv'
<1> DEFINE c == call[k]
<1>1. /\ c \in Call /\ CallFits(c) /\ c.pc \in Inserts /\ Busy(k) /\ TypeOK
      /\ (k \in alone => LoneFits(c)) /\ ThereFits(c) /\ call \in [Calls -> Call]
      /\ vetted \subseteq Present /\ settled \subseteq Schools
      /\ school \in [Schools -> {"none", "active", "inactive"}]
      /\ user \in [UserIds -> User \cup {NoUser}]
  BY DEF InsertUser, InsertRegistered, InsertSchool, At, Inserts, Busy, IInv, TypeOK, CallsInv,
         DInv, CallsDoor, LoneInv, ThereInv
<1>2. c.email \in Emails /\ c.role \in Roles /\ c.school \in Schools \cup {NoSchool}
  BY <1>1 DEF CallFits, Call
<1>3. CASE Refused(k)
  BY <1>1, <1>3, RefusedKeepsDoors
<1>4. CASE ~Refused(k)
  <2>1. lastUser + 1 <= MaxUsers
    BY <1>4 DEF InsertUser, InsertRegistered, InsertSchool
  <2>2. PICK i \in UserIds : i = lastUser + 1
    BY <1>1, <2>1, AccountsAssumption DEF UserIds, TypeOK
  <2>3. i \notin Present
    BY <1>1, <2>2 DEF IInv, RowsInv, TypeOK
  <2>4. PICK row \in User :
          /\ user' = [user EXCEPT ![i] = row]
          /\ row.role = c.role /\ row.school = c.school /\ row.number = c.number
          /\ row.prefix = Prefix[c.school] \/ c.school = NoSchool
          /\ InsertSchool(k) => ~row.active
    <3>1. PICK active \in BOOLEAN, verify \in BOOLEAN :
            user' = [user EXCEPT ![i] = NewUser(c, active, verify)]
            /\ (InsertSchool(k) => ~active)
      BY <1>1, <1>4, <2>2 DEF InsertUser, InsertRegistered, InsertSchool, At
    <3> DEFINE row == NewUser(c, active, verify)
    <3>2. row \in User /\ row.number = c.number
      BY <1>1, <1>2, NewUserFits
    <3>3. /\ row.role = c.role /\ row.school = c.school /\ row.active = active
          /\ row.prefix = Prefix[c.school] \/ c.school = NoSchool
      BY DEF NewUser
    <3> HIDE DEF row
    <3> QED BY <3>1, <3>2, <3>3 DEF row
  <2>5. /\ Present' = Present \cup {i} /\ user'[i] = row
        /\ \A j \in Present : user'[j] = user[j]
    BY <1>1, <2>3, <2>4, UserIsRow DEF Present
  <2>6. \A j \in Present : user'[j].legacy => user[j].legacy
    BY <2>5
  <2>7. CASE InsertSchool(k)
    <3>1. PICK s \in Schools : s = c.school
      BY <1>1, <2>7 DEF InsertSchool, At, CallFits
    <3>2. /\ school[s] = "none" /\ school' = [school EXCEPT ![s] = "inactive"]
          /\ settled' = IF k \in alone THEN settled \cup {s} ELSE settled
          /\ call' = [call EXCEPT ![k] = Idle] /\ alone' = alone /\ UNCHANGED <<vetted, moved>>
          /\ c.number = 0
      BY <1>1, <1>4, <2>7, <3>1 DEF InsertSchool, Ends, At, CallFits
    <3>3. /\ \A t \in Schools : school[t] # "none" => school'[t] = school[t]
          /\ school'[s] = "inactive"
      BY <1>1, <3>2
    <3>4. \A j \in Present : There(user[j].school) /\ user[j] \in User
      BY <1>1, PresentRow DEF DInv, CallsDoor, ThereInv
    <3>5. \A j \in Present : user[j].school \in Schools \cup {NoSchool} /\ user[j].school # s
      BY <3>2, <3>4, AccountsAssumption DEF There, User
    <3>6. CallsDoor'
      <4>1. \A j \in Present' : There(user[j].school)'
        <5>1. There(row.school)'
          BY <2>4, <3>1, <3>3 DEF There
        <5>2. \A j \in Present : There(user[j].school)'
          BY <2>5, <3>3, <3>4, <3>5 DEF There
        <5>3. There(user[i].school)'
          BY <2>5, <5>1
        <5> QED BY <2>5, <5>2, <5>3
      <4>2. \A t \in Schools : school[t] # "none" => school'[t] # "none"
        BY <3>3
      <4> QED BY <1>1, <2>6, <3>2, <4>1, <4>2, IdleFits, StepKeepsCalls DEF DInv
    <3>7. AdminsFollowSchool'
      <4>1. ASSUME NEW t \in settled', NEW j \in Admins(t)'
            PROVE  user'[j].active <=> school'[t] = "active"
        <5>1. t \in settled \/ t = s
          BY <3>2
        <5>2. CASE t = s
          <6>1. j = i
            BY <2>5, <3>5, <5>2 DEF Admins
          <6> QED BY <2>4, <2>5, <2>7, <3>3, <5>2, <6>1
        <5>3. CASE t # s
          <6>1. school[t] # "none" /\ t \in settled /\ t \in Schools
            BY <1>1, <5>1, <5>3 DEF DInv, RowsDoor, SettledInv
          <6>2. j \in Admins(t) /\ user'[j] = user[j]
            BY <2>4, <2>5, <3>1, <5>3 DEF Admins
          <6>3. user[j].active <=> school[t] = "active"
            BY <6>1, <6>2 DEF DInv, RowsDoor, SettledInv, AdminsFollowSchool
          <6> QED BY <3>3, <6>1, <6>2, <6>3
        <5> QED BY <5>2, <5>3
      <4> QED BY <4>1 DEF AdminsFollowSchool
    <3>8. SettledInv'
      <4>1. \A t \in settled' : school'[t] # "none"
        BY <1>1, <3>2, <3>3 DEF DInv, RowsDoor, SettledInv
      <4>2. ASSUME NEW j \in Calls, call'[j].pc = "set admins active"
            PROVE  call'[j].school \notin settled'
        <5>1. j # k /\ call'[j] = call[j]
          BY <1>1, <3>2, <4>2 DEF Idle
        <5>2. k \notin alone
          BY <4>2, <5>1 DEF DInv, CallsDoor, AloneInv, Busy
        <5>3. settled' = settled /\ call[j].pc = "set admins active"
          BY <3>2, <4>2, <5>1, <5>2
        <5> QED BY <5>1, <5>3 DEF DInv, RowsDoor, SettledInv, At
      <4> QED BY <3>7, <4>1, <4>2 DEF SettledInv, At
    <3>9. NumbersInv'
      <4> SUFFICES ASSUME NEW j \in Present', j \notin moved', user'[j].number # 0
                   PROVE  OwnNumber(j)'
        BY DEF NumbersInv
      <4>1. j \in Present /\ user'[j] = user[j] /\ j \notin moved
        BY <2>4, <2>5, <3>2
      <4>2. OwnNumber(j)
        BY <4>1 DEF DInv, RowsDoor, NumbersInv
      <4> QED BY <4>1, <4>2 DEF OwnNumber
    <3>10. VettedLeadersAlone'
      <4>1. ASSUME NEW j \in vetted, NEW m \in vetted PROVE ~Rivals(j, m)'
        <5>1. ~Rivals(j, m) /\ user'[j] = user[j] /\ user'[m] = user[m]
          BY <1>1, <2>5 DEF DInv, RowsDoor, VettedLeadersAlone
        <5> QED BY <5>1 DEF Rivals, Leading
      <4> QED BY <3>2, <4>1 DEF VettedLeadersAlone
    <3> QED BY <3>6, <3>8, <3>9, <3>10 DEF DInv, RowsDoor
  <2>8. CASE ~InsertSchool(k)
    <3>1. PICK checked \in BOOLEAN :
            /\ Changes(k, i, checked) /\ UNCHANGED <<school, alone, moved>>
            /\ checked => c.pc = "insert user"
      BY <1>4, <2>2, <2>8 DEF InsertUser, InsertRegistered, Ends, At
    <3>2. PICK d \in Call :
            /\ call' = [call EXCEPT ![k] = d] /\ d.pc # "set admins active"
            /\ d = Idle \/ (d.pc = "issue" /\ d.op # "login" /\ d.school = c.school)
      <4>1. CASE InsertUser(k)
        BY <1>4, <4>1, IdleFits DEF InsertUser, Ends, Idle
      <4>2. CASE InsertRegistered(k)
        <5> DEFINE d == [c EXCEPT !.pc = "issue", !.id = i]
        <5>1. call' = [call EXCEPT ![k] = d]
          BY <1>1, <1>4, <2>2, <4>2 DEF InsertRegistered
        <5>2. c.op = "register"
          BY <1>1, <4>2 DEF InsertRegistered, At, CallFits
        <5>3. d \in Call /\ d.pc = "issue" /\ d.op = c.op /\ d.school = c.school
          BY <1>1 DEF Call, Pcs
        <5> HIDE DEF d
        <5> QED BY <5>1, <5>2, <5>3
      <4> QED BY <2>8, <4>1, <4>2
    <3>3. There(c.school)
      BY <1>1, <2>8 DEF InsertUser, InsertRegistered, At, ThereFits
    <3>4. CallsDoor'
      <4>1. \A j \in Present' : There(user[j].school)'
        BY <2>4, <2>5, <3>1, <3>3 DEF DInv, CallsDoor, ThereInv, There
      <4>2. d = Idle \/ (LegacyFits(d)' /\ ThereFits(d)' /\ LoneFits(d)')
        BY <3>1, <3>2, <3>3 DEF LegacyFits, ThereFits, There, LoneFits
      <4> QED BY <1>1, <2>6, <3>1, <3>2, <4>1, <4>2, StepKeepsCalls DEF DInv
    <3>5. RowsDoor'
      <4>1. ASSUME checked, k \in alone, row.role \in Leaders, row.school # NoSchool,
                   NEW j \in vetted \ {i}
            PROVE  ~(Leading(j) /\ user[j].role = row.role /\ user[j].school = row.school)
        <5>1. LeadersOf(c.school, c.role) = {}
          <6>1. c.id = 0 /\ 0 \notin Present
            <7>1. c.pc = "insert user"
              BY <3>1, <4>1
            <7>2. LoneFits(c)
              BY <1>1, <4>1
            <7>3. 0 \notin Present
              BY AccountsAssumption DEF Present, UserIds
            <7> QED BY <7>1, <7>2, <7>3 DEF LoneFits
          <6> QED BY <1>1, <2>4, <3>1, <4>1, <6>1 DEF LoneFits, LeadersOf
        <5> QED BY <1>1, <2>4, <5>1 DEF LeadersOf, Leading
      <4>2. row.number # 0 => row.school # NoSchool /\ row.prefix = Prefix[row.school]
        <5>1. c.number # 0 => c.school \in Schools
          BY <1>1, <2>8 DEF InsertUser, InsertRegistered, At, CallFits
        <5> QED BY <2>4, <5>1, AccountsAssumption
      <4>3. \A j \in Calls : call'[j].pc = "set admins active" => call'[j] = call[j]
        BY <1>1, <3>2
      <4> QED BY <2>4, <3>1, <4>1, <4>2, <4>3, ChangesKeepRows
    <3> QED BY <3>4, <3>5 DEF DInv
  <2> QED BY <2>7, <2>8
<1> QED BY <1>3, <1>4

-----------------------------------------------------------------------------
(* A step of no call, and the induction.                                   *)
LEMMA OthersKeepDoors ==
  ASSUME IInv, DInv,
         \/ \E s \in Schools : CreateSchool(s)
         \/ \E i \in UserIds : Logout(i) \/ ResetExpires(i)
         \/ UNCHANGED vars
  PROVE  DInv'
<1>1. ASSUME NEW s \in Schools, CreateSchool(s) PROVE DInv'
  <2>1. /\ school[s] = "none" /\ school' = [school EXCEPT ![s] = "active"] /\ alone' = {}
        /\ UNCHANGED <<user, call, vetted, moved, settled>>
    BY <1>1 DEF CreateSchool, history
  <2>2. StandingSame
    BY <2>1 DEF StandingSame, Present
  <2>3. \A t \in Schools : school'[t] # school[t] => school[t] = "none"
    BY <2>1 DEF IInv, TypeOK
  <2> QED BY <2>1, <2>2, <2>3, TouchKeepsDoors
<1>2. ASSUME NEW i \in UserIds, Logout(i) \/ ResetExpires(i) PROVE DInv'
  <2>1. i \in Present /\ user[i] \in User
    BY <1>2, PresentRow DEF Logout, ResetExpires, IInv
  <2>2. /\ UNCHANGED <<call, vetted, moved, settled>>
        /\ alone' = {} \/ alone' = alone
    BY <1>2 DEF Logout, ResetExpires, history
  <2>3. PICK row \in User :
          /\ Sets(i, row)
          /\ row.role = user[i].role /\ row.school = user[i].school /\ row.active = user[i].active
          /\ row.number = user[i].number /\ row.prefix = user[i].prefix
          /\ row.legacy = user[i].legacy
    <3>1. CASE Logout(i)
      <4> DEFINE row == [user[i] EXCEPT !.refresh = FALSE]
      <4>1. Sets(i, row)
        BY <3>1 DEF Logout
      <4>2. /\ row \in User /\ row.role = user[i].role /\ row.school = user[i].school
            /\ row.active = user[i].active /\ row.number = user[i].number
            /\ row.prefix = user[i].prefix /\ row.legacy = user[i].legacy
        BY <2>1 DEF User
      <4> HIDE DEF row
      <4> QED BY <4>1, <4>2
    <3>2. CASE ResetExpires(i)
      <4> DEFINE row == [user[i] EXCEPT !.live = FALSE]
      <4>1. Sets(i, row)
        BY <3>2 DEF ResetExpires
      <4>2. /\ row \in User /\ row.role = user[i].role /\ row.school = user[i].school
            /\ row.active = user[i].active /\ row.number = user[i].number
            /\ row.prefix = user[i].prefix /\ row.legacy = user[i].legacy
        BY <2>1 DEF User
      <4> HIDE DEF row
      <4> QED BY <4>1, <4>2
    <3> QED BY <1>2, <3>1, <3>2
  <2>4. StandingSame /\ school' = school
    BY <2>1, <2>3, SetsStanding
  <2> QED BY <2>2, <2>4, TouchKeepsDoors
<1>3. CASE UNCHANGED vars
  <2>1. UNCHANGED <<user, school, call, alone, vetted, moved, settled>>
    BY <1>3 DEF vars, tables, history
  <2>2. StandingSame
    BY <2>1 DEF StandingSame, Present
  <2> QED BY <2>1, <2>2, TouchKeepsDoors
<1> QED BY <1>1, <1>2, <1>3

LEMMA InitDoors == Init => DInv
<1> SUFFICES ASSUME Init PROVE DInv
  OBVIOUS
<1>1. /\ user = FirstUsers /\ school = FirstSchools /\ call = [k \in Calls |-> Idle]
      /\ alone = {} /\ vetted = {} /\ settled = {}
      /\ moved = {i \in Present : user[i].number # 0 /\ ~OwnNumber(i)}
  BY DEF Init
<1>2. \A i \in Present : There(user[i].school)
  BY <1>1, AccountsAssumption DEF Present, There
<1>3. CallsDoor
  <2>1. \A k \in Calls : ThereFits(call[k]) /\ LegacyFits(call[k])
    BY <1>1, IdleDoor
  <2> QED BY <1>1, <1>2, <2>1 DEF CallsDoor, AloneInv, LoneInv, LegacyInv, ThereInv
<1>4. SettledInv
  <2>1. \A k \in Calls : call[k].pc = "idle"
    BY <1>1 DEF Idle
  <2> QED BY <1>1, <2>1 DEF SettledInv, AdminsFollowSchool, At
<1>5. RowsDoor
  BY <1>1, <1>4 DEF RowsDoor, NumbersInv, VettedLeadersAlone
<1> QED BY <1>3, <1>5 DEF DInv

LEMMA NextKeepsDoors == IInv /\ DInv /\ [Next]_vars => DInv'
<1> SUFFICES ASSUME IInv, DInv, [Next]_vars PROVE DInv'
  OBVIOUS
<1>1. ASSUME NEW k \in Calls, BeginStaff(k) \/ BeginSession(k) PROVE DInv'
  BY <1>1, BeginStaffKeepsDoors, BeginSessionKeepsDoors
<1>2. ASSUME NEW k \in Calls, Step(k) PROVE DInv'
  <2>1. CASE CheckLeader(k)
    BY <2>1, CheckLeaderKeepsDoors
  <2>2. CASE InsertUser(k) \/ InsertRegistered(k) \/ InsertSchool(k)
    BY <2>2, InsertsKeepDoors
  <2>3. CASE SetRole(k) \/ SetSchool(k) \/ SetActive(k)
    BY <2>3, SetsStaffKeepDoors
  <2>4. CASE SetSchoolActive(k)
    BY <2>4, SetSchoolActiveKeepsDoors
  <2>5. CASE SetAdminsActive(k)
    BY <2>5, SetAdminsActiveKeepsDoors
  <2>6. CASE ReadSchool(k)
    BY <2>6, ReadSchoolKeepsDoors
  <2>7. CASE CheckLegacy(k)
    BY <2>7, CheckLegacyKeepsDoors
  <2>8. CASE GenerateTokens(k) \/ SetReset(k) \/ SetPassword(k) \/ SetVerified(k)
    BY <2>8, SessionStepKeepsDoors
  <2>9. CASE CutOff(k)
    BY <2>9, RefusedKeepsDoors DEF CutOff
  <2> QED BY <1>2, <2>1, <2>2, <2>3, <2>4, <2>5, <2>6, <2>7, <2>8, <2>9 DEF Step
<1>3. ASSUME NEW s \in Schools, CreateSchool(s) PROVE DInv'
  BY <1>3, OthersKeepDoors
<1>4. ASSUME NEW i \in UserIds, Logout(i) \/ ResetExpires(i) PROVE DInv'
  BY <1>4, OthersKeepDoors
<1>5. CASE UNCHANGED vars
  BY <1>5, OthersKeepDoors
<1> QED BY <1>1, <1>2, <1>3, <1>4, <1>5 DEF Next

LEMMA DoorsInvariance == Spec => [](IInv /\ DInv)
<1>1. Init => IInv /\ DInv
  BY InitFits, InitDoors
<1>2. IInv /\ DInv /\ [Next]_vars => (IInv /\ DInv)'
  BY NextKeeps, NextKeepsDoors
<1> QED BY <1>1, <1>2, PTL DEF Spec

(* The next number of a school is above those that it has, as long as all  *)
(* of them have three digits.                                              *)
LEMMA NumberIsNew ==
  ASSUME TypeOK, NEW s \in Schools, NEW i \in Present,
         user[i].school = s, user[i].prefix = Prefix[s], user[i].number # 0,
         \A j \in Present : user[j].number < ThreeDigits
  PROVE  user[i].number # GenerateStaffId(s)
<1> DEFINE T == {j \in Present : /\ user[j].school = s /\ user[j].number # 0
                                 /\ user[j].prefix = Prefix[s]}
           f == [j \in UserIds |-> user[j].number]
<1>1. /\ \A j \in T : f[j] = user[j].number /\ f[j] \in 1 .. ThreeDigits
      /\ i \in T /\ T \subseteq 1 .. MaxUsers /\ MaxUsers \in Nat
  <2>1. \A j \in Present : user[j].number \in Nat /\ j \in UserIds
    BY PresentRow DEF User
  <2>2. ThreeDigits \in Nat /\ MaxUsers \in Nat
    BY AccountsAssumption
  <2> QED BY <2>1, <2>2 DEF UserIds
<1>2. Numbers(s) = {f[j] : j \in T}
  BY <1>1 DEF Numbers
<1>3. Numbers(s) \cap 1 .. ThreeDigits = {f[j] : j \in T} /\ {f[j] : j \in T} # {}
  BY <1>1, <1>2
<1>4. GenerateStaffId(s) = Max({f[j] : j \in T}) + 1
  BY <1>2, <1>3 DEF GenerateStaffId
<1>5. /\ Max({f[j] : j \in T}) \in {f[j] : j \in T}
      /\ \A j \in T : Max({f[m] : m \in T}) >= f[j]
  <2>1. T \in SUBSET (1 .. MaxUsers) /\ T # {} /\ MaxUsers \in Nat /\ \A j \in T : f[j] \in Nat
    BY <1>1
  <2> HIDE DEF T, f
  <2>2. Max({f[j] : j \in T}) \in {f[j] : j \in T}
    BY <2>1, MaxOfNumbers
  <2>3. \A j \in T : Max({f[m] : m \in T}) >= f[j]
    BY <2>1, MaxOfNumbers
  <2> QED BY <2>2, <2>3
<1>6. Max({f[j] : j \in T}) \in Nat /\ f[i] \in Nat /\ Max({f[j] : j \in T}) >= f[i]
  <2>1. i \in T /\ \A j \in T : f[j] \in Nat
    BY <1>1
  <2> HIDE DEF T, f
  <2> QED BY <1>5, <2>1
<1> QED BY <1>1, <1>4, <1>6

LEMMA HireHasNumber == IInv /\ DInv => LoneHireHasNumber
<1> SUFFICES ASSUME IInv, DInv, NEW k \in alone, At(k, "insert user"), moved = {},
                    \A s \in Schools : Prefix[s] = Prefix[call[k].school] => s = call[k].school,
                    \A i \in Present : user[i].number < ThreeDigits,
                    NumberTaken(call[k])
             PROVE  FALSE
  BY DEF LoneHireHasNumber
<1>1. /\ k \in Calls /\ TypeOK /\ call[k].school \in Schools
      /\ call[k].number \in {0, GenerateStaffId(call[k].school)}
  BY DEF IInv, TypeOK, CallsInv, CallFits, At, DInv, CallsDoor, LoneInv, LoneFits
<1>2. PICK i \in Present : /\ user[i].number = call[k].number
                           /\ user[i].prefix = Prefix[call[k].school]
  BY DEF NumberTaken
<1>3. call[k].number # 0
  BY DEF NumberTaken
<1>4. OwnNumber(i) /\ user[i].school \in Schools
  <2>1. OwnNumber(i)
    BY <1>2, <1>3 DEF DInv, RowsDoor, NumbersInv
  <2>2. user[i].school \in Schools \cup {NoSchool}
    BY <1>1, PresentRow DEF User
  <2> QED BY <2>1, <2>2 DEF OwnNumber
<1>5. user[i].school = call[k].school
  BY <1>2, <1>4 DEF OwnNumber
<1> QED BY <1>1, <1>2, <1>3, <1>5, NumberIsNew

(* Calls that nothing overlaps hire by the book: of the accounts that they *)
(* made or changed no two lead one school in one role, and no number that  *)
(* they were given is taken, however other calls overlap before and after. *)
THEOREM HiresFitAlways == Spec => []HiresFit
<1>1. IInv /\ DInv => HiresFit
  BY HireHasNumber DEF HiresFit, DInv, RowsDoor
<1> QED BY <1>1, DoorsInvariance, PTL

(* What a lone login has found of the account and its school still holds   *)
(* when the tokens are stored, and the password that every parent had is   *)
(* never one that a login of theirs ends with.                             *)
LEMMA LoginsFit ==
  ASSUME IInv, DInv
  PROVE  /\ \A k \in alone :
              /\ At(k, "issue") /\ call[k].op = "login"
              /\ user[call[k].id].role # "super_admin" /\ user[call[k].id].school # NoSchool
              => user[call[k].id].active /\ school[user[call[k].id].school] # "inactive"
         /\ \A k \in Calls :
              At(k, "issue") /\ call[k].op = "login" /\ call[k].role = "parent" =>
              ~user[call[k].id].legacy
<1>1. ASSUME NEW k \in alone, At(k, "issue"), call[k].op = "login",
             user[call[k].id].role # "super_admin", user[call[k].id].school # NoSchool
      PROVE  user[call[k].id].active /\ school[user[call[k].id].school] # "inactive"
  <2> DEFINE c == call[k]
  <2>1. c.pc = "issue" /\ c.op = "login" /\ LoneFits(c)
    BY <1>1 DEF DInv, CallsDoor, LoneInv, At
  <2> HIDE DEF c
  <2>2. /\ user[c.id].role = c.role /\ user[c.id].school = c.school
        /\ user[c.id].active = c.active
    BY <2>1 DEF LoneFits
  <2>3. c.role # "super_admin" /\ c.school # NoSchool
    BY <1>1, <2>2 DEF c
  <2>4. c.active /\ school[c.school] # "inactive"
    BY <2>1, <2>3 DEF LoneFits
  <2> QED BY <2>2, <2>4 DEF c
<1>2. ASSUME NEW k \in Calls, At(k, "issue"), call[k].op = "login", call[k].role = "parent"
      PROVE  ~user[call[k].id].legacy
  <2>1. LegacyFits(call[k])
    BY DEF DInv, CallsDoor, LegacyInv
  <2>2. user[call[k].id].legacy \in BOOLEAN
    <3>1. call[k].id \in Present
      BY <1>2 DEF IInv, CallsInv, CallFits, RowPcs, At
    <3> QED BY <3>1, PresentRow DEF IInv, User
  <2> QED BY <1>2, <2>1, <2>2 DEF LegacyFits, At
<1> QED BY <1>1, <1>2

(* The administrators of a school are let in when the school is, since a   *)
(* lone call last switched it; a lone login lets only active members of    *)
(* active schools in; the password of all parents opens no session.        *)
THEOREM DoorsKeptAlways == Spec => DoorsKept
<1>1. IInv /\ DInv => AdminsFollowSchool
  BY DEF DInv, RowsDoor, SettledInv
<1>2. IInv /\ DInv =>
        [\A k \in alone :
           LET i == call[k].id
           IN  /\ At(k, "issue") /\ call[k].op = "login" /\ user' # user
               /\ user[i].role # "super_admin" /\ user[i].school # NoSchool
               => user[i].active /\ school[user[i].school] # "inactive"]_vars
  BY LoginsFit
<1>3. IInv /\ DInv =>
        [\A k \in Calls :
           At(k, "issue") /\ call[k].op = "login" /\ call[k].role = "parent"
           /\ user' # user => ~user[call[k].id].legacy]_vars
  BY LoginsFit
<1>4. Spec => []AdminsFollowSchool
  BY <1>1, DoorsInvariance, PTL
<1>5. Spec => LoginsAreActive
  BY <1>2, DoorsInvariance, PTL DEF LoginsAreActive
<1>6. Spec => NoLegacySession
  BY <1>3, DoorsInvariance, PTL DEF NoLegacySession
<1> QED BY <1>4, <1>5, <1>6 DEF DoorsKept
=============================================================================
