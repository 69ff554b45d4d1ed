--------------------------- MODULE Students_proofs ---------------------------
(***************************************************************************)
(* For any pupils, guardians, accounts, forms and number of overlapping    *)
(* calls: admission numbers are those of AdmissionBook; a pupil whose      *)
(* calls nothing disturbs has the guardians that were given for him; and   *)
(* no account that was made for a child is left without one.               *)
(* A call is followed from statement to statement by what it holds there   *)
(* (Formed), and each step by what it does to the tables and to the calls. *)
(***************************************************************************)
EXTENDS Students, FiniteSetTheorems, TLAPS

(* A creation whose rows are not there yet, a call that links the account  *)
(* it has found or made, and one that tends the guardians of one pupil.    *)
Entering(c) == c.op = "create" /\ c.pc # "mail"
Linking(c) == c.pc \in {"save phone", "find link"} \/ (c.pc = "add link" /\ c.op # "link")
Dropping(c) == c.pc \in {"unlink", "count", "delete parent"}

(* Where a call of each kind may be, and what it carries there.            *)
Placed(c) ==
  /\ c.op = "none" <=> c.pc = "idle"
  /\ c.op = "create" => c.pc \in {"take numbers", "find parent", "make parent", "find link",
                                  "add link", "commit", "mail"}
  /\ c.op = "edit" => c.pc \in {"update row", "finish"}
  /\ c.op = "update" =>
       c.pc \in {"update row", "read links", "unlink", "count", "delete parent", "find parent",
                 "make parent", "save phone", "find link", "add link", "mail", "finish"}
  /\ c.op = "link" => c.pc \in {"add link", "finish"}
  /\ c.op = "unlink" => c.pc \in {"remove link", "finish"}
  /\ c.op = "promote" => c.pc = "move"

Carried(c) ==
  /\ c.start # 0 <=> Entering(c) /\ c.pc # "take numbers"
  /\ c.op = "none" <=> c.pupils = {}
  /\ c.op = "create" => c.class \in Classes
  /\ c.list # <<>> \/ c.op \in {"edit", "update", "link", "unlink"} =>
       \E s \in Pupils : c.pupils = {s}
  /\ c.op \notin {"create", "update"} => c.list = <<>> /\ c.fresh = {}
  /\ Linking(c) \/ c.pc \in {"count", "delete parent", "add link", "remove link"} =>
       c.parent \in UserIds
  /\ c.pc = "save phone" \/ c.op \in {"link", "unlink"} => c.found \in User
  /\ \A l \in c.drop : l.pupil \in c.pupils /\ (c.op = "unlink" => l.parent = c.parent)
  /\ c.drop # {} => Dropping(c) \/ c.op = "unlink"

(* The guardians still to be linked are the last of those given.           *)
Listed(c) ==
  /\ c.list = <<>> => c.todo = <<>>
  /\ InList(c.todo) \subseteq InList(c.list)
  /\ Linking(c) \/ c.pc \in {"find parent", "make parent"} => c.todo # <<>>
  /\ c.pc \in {"commit", "mail", "finish"} => c.todo = <<>>
  /\ Dropping(c) \/ c.pc \in {"take numbers", "update row", "read links"} =>
       c.todo = c.list /\ c.fresh = {}

Formed(c) == Placed(c) /\ Carried(c) /\ Listed(c)

(* Pupils are entered by one call each, under the lock, and stay.          *)
PupilsInv ==
  /\ \A k \in Calls : Formed(call[k])
  /\ \A k \in Calls : \A s \in call[k].pupils : Present(s) <=> ~Entering(call[k])
  /\ \A j, k \in Calls : \A s \in call[j].pupils \cap call[k].pupils :
       Entering(call[j]) => j = k
  /\ \A j, k \in Calls : Holds(j) /\ Holds(k) => j = k

BookInv ==
  /\ \A k \in Calls : Holds(k) => call[k].start = lastSequence + 1
  /\ \A s \in Pupils : Present(s) => student[s].number # 0

(* The unique and foreign keys, and that what a transaction under way has  *)
(* made is nobody else's business.                                         *)
KeysInv ==
  /\ \A i \in UserIds : i > lastUser => user[i] = NoUser
  /\ \A i, j \in UserIds :
       user[i] # NoUser /\ user[j] # NoUser /\ user[i].email = user[j].email => i = j
  /\ \A l, m \in links : l.pupil = m.pupil /\ l.parent = m.parent => l = m
  /\ \A l \in links : ~Present(l.pupil) => \E k \in Calls : Holds(k) /\ l.pupil \in call[k].pupils
  /\ \A k \in Calls : /\ call[k].parent <= lastUser
                      /\ \A i \in call[k].fresh : i <= lastUser
                      /\ \A l \in call[k].drop : l.parent <= lastUser

SecretInv ==
  \A j \in Calls : \A i \in call[j].fresh : Holds(j) =>
    /\ \A l \in links : l.parent = i => l.pupil \in call[j].pupils
    /\ \A k \in Calls \ {j} : call[k].parent # i /\ \A l \in call[k].drop : l.parent # i

(* The account a call is about to link or unlink has, while it is there,   *)
(* the e-mail the call knows it by, though it be deleted and saved again.  *)
Knows(c) == Linking(c) \/ c.pc \in {"add link", "remove link"}
Mail(c) == IF c.op \in {"link", "unlink"} THEN c.found.email ELSE Head(c.todo)
KnowledgeInv ==
  /\ \A k \in Calls :
       /\ Knows(call[k]) /\ user[call[k].parent] # NoUser =>
            user[call[k].parent].email = Mail(call[k])
       /\ call[k].pc = "save phone" => call[k].found.email = Mail(call[k])
  /\ \A j, k \in Calls :
       Knows(call[j]) /\ Knows(call[k]) /\ call[j].parent = call[k].parent =>
         Mail(call[j]) = Mail(call[k])

Base == TypeOK /\ PupilsInv /\ KeysInv /\ SecretInv /\ KnowledgeInv

(* What a call that nothing disturbs has done for the guardians of s.      *)
Rebuilt(c, s) ==
  /\ InList(c.list) \subseteq EmailsOf(s) \cup InList(c.todo)
  /\ \A l \in links : l.pupil = s =>
       l \in c.drop \/ user[l.parent].email \in InList(c.list)
Tended(c, s) ==
  /\ c.op = "create" => IF c.pc = "mail" THEN EmailsOf(s) = intended[s] ELSE Rebuilt(c, s)
  /\ c.op = "update" /\ c.pc \notin {"update row", "read links"} => Rebuilt(c, s)
  /\ (c.op \in {"edit", "promote"} \/ (c.op \in {"link", "unlink"} /\ c.pc # "finish")) =>
       EmailsOf(s) = intended[s]
  /\ c.pc = "remove link" => \E l \in links : c.drop = {l}
  /\ c.pc = "finish" /\ c.op = "link" => EmailsOf(s) = intended[s] \cup {c.found.email}
  /\ c.pc = "finish" /\ c.op = "unlink" => EmailsOf(s) = intended[s] \ {c.found.email}
(* He is on no call, or on one that tends him.                             *)
Minding(s) ==
  /\ \A j, k \in On(s) : j = k
  /\ \A k \in On(s) : Tended(call[k], s)
  /\ Present(s) /\ On(s) = {} => EmailsOf(s) = intended[s]
GuardiansInv == \A s \in Pupils : ~disturbed[s] => Minding(s)

(* Who sees to an account without a child.                                 *)
Answers(c, i) ==
  \/ c.op = "update" /\ Linking(c) /\ c.parent = i
  \/ c.pc \in {"count", "delete parent"} /\ c.parent = i
  \/ c.start # 0 /\ i \in c.fresh
AnsweredInv ==
  (\A s \in Pupils : ~disturbed[s]) =>
    \A i \in UserIds \ DOMAIN FirstUsers :
      user[i] # NoUser /\ i \notin released =>
        Children(i) # {} \/ \E k \in Calls : Answers(call[k], i)
(* A transaction links every account it makes.                             *)
FreshInv ==
  \A k \in Calls : Holds(k) => \A i \in call[k].fresh :
    (Linking(call[k]) /\ call[k].parent = i) \/ \E l \in links : l.parent = i
InvitedInv ==
  /\ mailed \subseteq made
  /\ \A k \in Calls : ~Holds(k) => call[k].fresh \subseteq made

-----------------------------------------------------------------------------
(* What each statement does to the record of its call.                     *)

Frame(k) == /\ call' \in [Calls -> Call]
            /\ \A j \in Calls \ {k} : call'[j] = call[j]
(* All it carries on from its beginning to its end.                        *)
Same(c, d) == /\ d.op = c.op /\ d.pupils = c.pupils /\ d.class = c.class /\ d.from = c.from
              /\ d.list = c.list

LEMMA GoesTo ==
  ASSUME TypeOK, NEW k \in Calls, NEW next \in Call, Goes(k, next)
  PROVE  Frame(k) /\ call'[k] = next
BY DEF TypeOK, Goes, Frame

(* A call that ends becomes Idle. *)
LEMMA IdleIsCall == Idle \in Call
BY DEF Idle, Call

LEMMA EndsIdle ==
  ASSUME TypeOK, NEW k \in Calls, Ends(k)
  PROVE  Frame(k) /\ call'[k] = Idle
BY GoesTo, IdleIsCall DEF Ends

(* Rows and their absence differ. *)
LEMMA NotAUser == NoUser \notin User /\ \A u \in User : u.role # "NONE" /\ u.email \in Emails
BY DEF NoUser, User

LEMMA NotAStudent == NoStudent \notin Student
<1>1. \A r \in Student : "number" \in DOMAIN r
  BY DEF Student
<1>2. "number" \notin DOMAIN NoStudent
  BY DEF NoStudent
<1> QED BY <1>1, <1>2

(* The fields of a call, by TypeOK. *)
LEMMA CallFields ==
  ASSUME TypeOK, NEW k \in Calls
  PROVE  /\ call[k] \in Call
         /\ call[k].op \in {"none", "create", "edit", "update", "link", "unlink", "promote"}
         /\ call[k].pupils \subseteq Pupils /\ call[k].class \in Classes \cup {NoClass}
         /\ call[k].from \in Classes \cup {NoClass}
         /\ call[k].list \in Seq(Emails) /\ call[k].todo \in Seq(Emails)
         /\ call[k].drop \subseteq Link /\ call[k].parent \in UserIds \cup {0}
         /\ call[k].found \in User \cup {NoUser} /\ call[k].start \in Nat
         /\ call[k].fresh \subseteq UserIds
<1>1. call[k] \in Call
  BY DEF TypeOK
<1> QED BY <1>1 DEF Call

(* Where the loop over the guardians goes on. *)
LEMMA OnwardIs ==
  ASSUME NEW k \in Calls, NEW todo, NEW fresh
  PROVE  Onward(k, todo, fresh) =
           IF todo # <<>> THEN "find parent"
           ELSE IF call[k].op = "create" THEN "commit"
           ELSE IF fresh # {} THEN "mail" ELSE "finish"
BY DEF Onward

LEMMA OnwardTyped ==
  \A k \in Calls : \A todo, fresh :
    Onward(k, todo, fresh) \in {"find parent", "commit", "mail", "finish"}
BY DEF Onward

(* Each statement: where its call stands after it and what it carries.     *)
(* Fields that are not named are kept.                                     *)
LEMMA TakeNumbersCall ==
  ASSUME TypeOK, NEW k \in Calls, TakeNumbers(k)
  PROVE  /\ Frame(k) /\ Same(call[k], call'[k])
         /\ call'[k].todo = call[k].todo /\ call'[k].drop = call[k].drop
         /\ call'[k].parent = call[k].parent /\ call'[k].found = call[k].found
         /\ call'[k].fresh = call[k].fresh /\ call'[k].start = lastSequence + 1
         /\ call'[k].pc = Onward(k, call[k].todo, {})
<1>0. PICK pc : pc = Onward(k, call[k].todo, {})
  OBVIOUS
<1>1. PICK next : next = [call[k] EXCEPT !.start = lastSequence + 1, !.pc = pc]
  OBVIOUS
<1>4. pc \in {"find parent", "commit", "mail", "finish"}
  BY <1>0, OnwardTyped
<1>5. lastSequence + 1 \in Nat
  BY DEF TypeOK
<1>2. next \in Call /\ Same(call[k], next) /\ next.todo = call[k].todo
        /\ next.drop = call[k].drop /\ next.parent = call[k].parent
        /\ next.found = call[k].found /\ next.fresh = call[k].fresh
        /\ next.start = lastSequence + 1 /\ next.pc = pc
  BY <1>1, <1>4, <1>5, CallFields DEF Call, Same
<1>3. Goes(k, next)
  BY <1>0, <1>1 DEF TakeNumbers
<1> QED BY <1>0, <1>2, <1>3, GoesTo

LEMMA FindParentCall ==
  ASSUME TypeOK, NEW k \in Calls, FindParent(k)
  PROVE  /\ Frame(k) /\ Same(call[k], call'[k])
         /\ call'[k].todo = call[k].todo /\ call'[k].drop = call[k].drop
         /\ call'[k].fresh = call[k].fresh /\ call'[k].start = call[k].start
         /\ \/ /\ Matches(k) = {} /\ call'[k].pc = "make parent"
               /\ call'[k].parent = call[k].parent /\ call'[k].found = call[k].found
            \/ /\ call'[k].pc \in {"find link", "save phone"}
               /\ call'[k].pc = "save phone" => call[k].op = "update"
               /\ call'[k].parent \in Matches(k)
               /\ call'[k].found = user[call'[k].parent]
<1>1. CASE Matches(k) = {}
  <2>1. PICK next : next = [call[k] EXCEPT !.pc = "make parent"]
    OBVIOUS
  <2>2. next \in Call /\ Same(call[k], next) /\ next.todo = call[k].todo
          /\ next.drop = call[k].drop /\ next.parent = call[k].parent
          /\ next.found = call[k].found /\ next.fresh = call[k].fresh
          /\ next.start = call[k].start /\ next.pc = "make parent"
    BY <2>1, CallFields DEF Call, Same
  <2>3. Goes(k, next)
    BY <1>1, <2>1 DEF FindParent
  <2> QED BY <1>1, <2>2, <2>3, GoesTo
<1>2. CASE Matches(k) # {}
  <2>1. PICK i \in Matches(k), pc \in {"find link", "save phone"} :
          /\ pc = "save phone" => call[k].op = "update"
          /\ Goes(k, [call[k] EXCEPT !.pc = pc, !.parent = i, !.found = user[i]])
    BY <1>2 DEF FindParent
  <2>2. i \in UserIds /\ user[i] \in User \cup {NoUser}
    BY DEF Matches, UsersSeen, TypeOK
  <2>3. PICK next : next = [call[k] EXCEPT !.pc = pc, !.parent = i, !.found = user[i]]
    OBVIOUS
  <2>4. next \in Call /\ Same(call[k], next) /\ next.todo = call[k].todo
          /\ next.drop = call[k].drop /\ next.parent = i
          /\ next.found = user[i] /\ next.fresh = call[k].fresh
          /\ next.start = call[k].start /\ next.pc = pc
    BY <2>2, <2>3, CallFields DEF Call, Same
  <2>5. Goes(k, next)
    BY <2>1, <2>3
  <2> QED BY <2>1, <2>4, <2>5, GoesTo
<1> QED BY <1>1, <1>2

(* Of a statement that is not refused, as those below.                     *)
LEMMA MakeParentCall ==
  ASSUME TypeOK, NEW k \in Calls, MakeParent(k), ~EmailTaken(k, Email(k))
  PROVE  /\ Frame(k) /\ Same(call[k], call'[k])
         /\ call'[k].todo = call[k].todo /\ call'[k].drop = call[k].drop
         /\ call'[k].found = call[k].found /\ call'[k].start = call[k].start
         /\ call'[k].pc = "find link" /\ call'[k].parent = lastUser + 1
         /\ call'[k].fresh = call[k].fresh \cup {lastUser + 1}
         /\ lastUser + 1 \in UserIds
<1>1. lastUser + 1 \in UserIds
  <2>1. lastUser \in 0 .. MaxUsers /\ MaxUsers \in Nat
    BY StudentsAssumption DEF TypeOK
  <2>2. lastUser + 1 <= MaxUsers
    BY DEF MakeParent
  <2> QED BY <2>1, <2>2 DEF UserIds
<1>2. PICK next : next = [call[k] EXCEPT !.pc = "find link", !.parent = lastUser + 1,
                                         !.fresh = call[k].fresh \cup {lastUser + 1}]
  OBVIOUS
<1>3. next \in Call /\ Same(call[k], next) /\ next.todo = call[k].todo
        /\ next.drop = call[k].drop /\ next.parent = lastUser + 1
        /\ next.found = call[k].found /\ next.fresh = call[k].fresh \cup {lastUser + 1}
        /\ next.start = call[k].start /\ next.pc = "find link"
  BY <1>1, <1>2, CallFields DEF Call, Same
<1>4. Goes(k, next)
  BY <1>2 DEF MakeParent
<1> QED BY <1>1, <1>3, <1>4, GoesTo

LEMMA SavePhoneCall ==
  ASSUME TypeOK, NEW k \in Calls, SavePhone(k),
         ~(user[call[k].parent] = NoUser /\ EmailTaken(k, Email(k)))
  PROVE  /\ Frame(k) /\ Same(call[k], call'[k])
         /\ call'[k].todo = call[k].todo /\ call'[k].drop = call[k].drop
         /\ call'[k].fresh = call[k].fresh /\ call'[k].start = call[k].start
         /\ call'[k].pc = "find link" /\ call'[k].parent = call[k].parent
         /\ call'[k].found = call[k].found
<1>1. PICK next : next = [call[k] EXCEPT !.pc = "find link"]
  OBVIOUS
<1>2. next \in Call /\ Same(call[k], next) /\ next.todo = call[k].todo
        /\ next.drop = call[k].drop /\ next.parent = call[k].parent
        /\ next.found = call[k].found /\ next.fresh = call[k].fresh
        /\ next.start = call[k].start /\ next.pc = "find link"
  BY <1>1, CallFields DEF Call, Same
<1>3. Goes(k, next)
  BY <1>1 DEF SavePhone
<1> QED BY <1>2, <1>3, GoesTo

(* One guardian less is to be linked.                                      *)
LEMMA TailTyped ==
  ASSUME TypeOK, NEW k \in Calls, call[k].todo # <<>>
  PROVE  Tail(call[k].todo) \in Seq(Emails)
BY CallFields

LEMMA FindLinkCall ==
  ASSUME TypeOK, NEW k \in Calls, FindLink(k), call[k].todo # <<>>
  PROVE  /\ Frame(k) /\ Same(call[k], call'[k])
         /\ call'[k].drop = call[k].drop
         /\ call'[k].fresh = call[k].fresh /\ call'[k].start = call[k].start
         /\ call'[k].parent = call[k].parent /\ call'[k].found = call[k].found
         /\ \/ /\ Linked(Pupil(k), call[k].parent) /\ call'[k].todo = Tail(call[k].todo)
               /\ call'[k].pc = Onward(k, Tail(call[k].todo), call[k].fresh)
            \/ /\ ~Linked(Pupil(k), call[k].parent) /\ call'[k].todo = call[k].todo
               /\ call'[k].pc = "add link"
<1>1. CASE Linked(Pupil(k), call[k].parent)
  <2>0. PICK pc : pc = Onward(k, Tail(call[k].todo), call[k].fresh)
    OBVIOUS
  <2>5. PICK todo : todo = Tail(call[k].todo)
    OBVIOUS
  <2>1. PICK next : next = [call[k] EXCEPT !.todo = todo, !.pc = pc]
    OBVIOUS
  <2>4. pc \in {"find parent", "commit", "mail", "finish"} /\ todo \in Seq(Emails)
    BY <2>0, <2>5, OnwardTyped, TailTyped
  <2>2. next \in Call /\ Same(call[k], next) /\ next.todo = todo
          /\ next.drop = call[k].drop /\ next.parent = call[k].parent
          /\ next.found = call[k].found /\ next.fresh = call[k].fresh
          /\ next.start = call[k].start
          /\ next.pc = pc
    BY <2>1, <2>4, CallFields DEF Call, Same
  <2>3. Goes(k, next)
    BY <1>1, <2>0, <2>1, <2>5 DEF FindLink
  <2> QED BY <1>1, <2>0, <2>2, <2>3, <2>5, GoesTo
<1>2. CASE ~Linked(Pupil(k), call[k].parent)
  <2>1. PICK next : next = [call[k] EXCEPT !.pc = "add link"]
    OBVIOUS
  <2>2. next \in Call /\ Same(call[k], next) /\ next.todo = call[k].todo
          /\ next.drop = call[k].drop /\ next.parent = call[k].parent
          /\ next.found = call[k].found /\ next.fresh = call[k].fresh
          /\ next.start = call[k].start /\ next.pc = "add link"
    BY <2>1, CallFields DEF Call, Same
  <2>3. Goes(k, next)
    BY <1>2, <2>1 DEF FindLink
  <2> QED BY <1>2, <2>2, <2>3, GoesTo
<1> QED BY <1>1, <1>2

LEMMA AddLinkCall ==
  ASSUME TypeOK, NEW k \in Calls, AddLink(k),
         ~(Linked(Pupil(k), call[k].parent) \/ user[call[k].parent] = NoUser)
  PROVE  /\ Frame(k) /\ Same(call[k], call'[k])
         /\ call'[k].drop = call[k].drop
         /\ call'[k].fresh = call[k].fresh /\ call'[k].start = call[k].start
         /\ call'[k].parent = call[k].parent /\ call'[k].found = call[k].found
         /\ call'[k].todo = (IF call[k].todo = <<>> THEN <<>> ELSE Tail(call[k].todo))
         /\ call'[k].pc = Onward(k, call'[k].todo, call[k].fresh)
<1>0. PICK todo : todo = IF call[k].todo = <<>> THEN <<>> ELSE Tail(call[k].todo)
  OBVIOUS
<1>1. todo \in Seq(Emails)
  <2>1. <<>> \in Seq(Emails)
    OBVIOUS
  <2> QED BY <1>0, <2>1, TailTyped
<1>2. PICK pc : pc = Onward(k, todo, call[k].fresh)
  OBVIOUS
<1>3. pc \in {"find parent", "commit", "mail", "finish"}
  BY <1>2, OnwardTyped
<1>4. PICK next : next = [call[k] EXCEPT !.todo = todo, !.pc = pc]
  OBVIOUS
<1>5. next \in Call /\ Same(call[k], next) /\ next.todo = todo
        /\ next.drop = call[k].drop /\ next.parent = call[k].parent
        /\ next.found = call[k].found /\ next.fresh = call[k].fresh
        /\ next.start = call[k].start /\ next.pc = pc
  BY <1>1, <1>3, <1>4, CallFields DEF Call, Same
<1>6. Goes(k, next)
  BY <1>0, <1>2, <1>4 DEF AddLink
<1> QED BY <1>0, <1>2, <1>5, <1>6, GoesTo

Places == {"idle", "take numbers", "find parent", "make parent", "save phone", "find link",
           "add link", "commit", "mail", "update row", "read links", "unlink", "count",
           "delete parent", "remove link", "move", "finish"}

(* The call only goes on. *)
LEMMA OnlyPlace ==
  ASSUME TypeOK, NEW k \in Calls, NEW pc \in Places, Goes(k, [call[k] EXCEPT !.pc = pc])
  PROVE  /\ Frame(k) /\ Same(call[k], call'[k])
         /\ call'[k].todo = call[k].todo /\ call'[k].drop = call[k].drop
         /\ call'[k].parent = call[k].parent /\ call'[k].found = call[k].found
         /\ call'[k].fresh = call[k].fresh /\ call'[k].start = call[k].start
         /\ call'[k].pc = pc
<1>1. PICK next : next = [call[k] EXCEPT !.pc = pc]
  OBVIOUS
<1>2. next \in Call /\ Same(call[k], next) /\ next.todo = call[k].todo
        /\ next.drop = call[k].drop /\ next.parent = call[k].parent
        /\ next.found = call[k].found /\ next.fresh = call[k].fresh
        /\ next.start = call[k].start /\ next.pc = pc
  BY <1>1, CallFields DEF Call, Same, Places
<1> QED BY <1>1, <1>2, GoesTo

LEMMA UpdateRowCall ==
  ASSUME TypeOK, NEW k \in Calls, UpdateRow(k)
  PROVE  /\ Frame(k) /\ Same(call[k], call'[k])
         /\ call'[k].todo = call[k].todo /\ call'[k].drop = call[k].drop
         /\ call'[k].parent = call[k].parent /\ call'[k].found = call[k].found
         /\ call'[k].fresh = call[k].fresh /\ call'[k].start = call[k].start
         /\ call'[k].pc = IF call[k].op = "edit" THEN "finish" ELSE "read links"
<1>1. PICK pc \in Places : pc = IF call[k].op = "edit" THEN "finish" ELSE "read links"
  BY DEF Places
<1>2. Goes(k, [call[k] EXCEPT !.pc = pc])
  BY <1>1 DEF UpdateRow
<1> QED BY <1>1, <1>2, OnlyPlace

(* updateStudent after a link is removed: the next one, or the new         *)
(* guardians.                                                              *)
LEMMA AfterDropPlace ==
  \A k \in Calls : \A drop :
    /\ AfterDrop(k, drop) \in Places
    /\ AfterDrop(k, drop) = IF drop # {} THEN "unlink"
                            ELSE Onward(k, call[k].todo, {})
BY OnwardTyped DEF AfterDrop, Places

LEMMA AfterDropTyped ==
  \A k \in Calls : \A drop :
    AfterDrop(k, drop) \in {"unlink", "find parent", "commit", "mail", "finish"}
BY OnwardTyped DEF AfterDrop

LEMMA CountChildrenCall ==
  ASSUME TypeOK, NEW k \in Calls, CountChildren(k)
  PROVE  /\ Frame(k) /\ Same(call[k], call'[k])
         /\ call'[k].todo = call[k].todo /\ call'[k].drop = call[k].drop
         /\ call'[k].parent = call[k].parent /\ call'[k].found = call[k].found
         /\ call'[k].fresh = call[k].fresh /\ call'[k].start = call[k].start
         /\ call'[k].pc = IF Children(call[k].parent) = {} THEN "delete parent"
                          ELSE AfterDrop(k, call[k].drop)
<1>1. PICK pc \in Places : pc = IF Children(call[k].parent) = {} THEN "delete parent"
                                ELSE AfterDrop(k, call[k].drop)
  BY AfterDropPlace DEF Places
<1>2. Goes(k, [call[k] EXCEPT !.pc = pc])
  BY <1>1 DEF CountChildren
<1> QED BY <1>1, <1>2, OnlyPlace

LEMMA DeleteParentCall ==
  ASSUME TypeOK, NEW k \in Calls, DeleteParent(k),
         ~(Children(call[k].parent) # {} \/ call[k].parent \in Kept)
  PROVE  /\ Frame(k) /\ Same(call[k], call'[k])
         /\ call'[k].todo = call[k].todo /\ call'[k].drop = call[k].drop
         /\ call'[k].parent = call[k].parent /\ call'[k].found = call[k].found
         /\ call'[k].fresh = call[k].fresh /\ call'[k].start = call[k].start
         /\ call'[k].pc = AfterDrop(k, call[k].drop)
<1>1. PICK pc \in Places : pc = AfterDrop(k, call[k].drop)
  BY AfterDropPlace
<1>2. Goes(k, [call[k] EXCEPT !.pc = pc])
  BY <1>1 DEF DeleteParent
<1> QED BY <1>1, <1>2, OnlyPlace

LEMMA RemoveLinkCall ==
  ASSUME TypeOK, NEW k \in Calls, RemoveLink(k)
  PROVE  /\ Frame(k) /\ Same(call[k], call'[k])
         /\ call'[k].todo = call[k].todo /\ call'[k].drop = call[k].drop
         /\ call'[k].parent = call[k].parent /\ call'[k].found = call[k].found
         /\ call'[k].fresh = call[k].fresh /\ call'[k].start = call[k].start
         /\ call'[k].pc = "finish"
BY OnlyPlace DEF RemoveLink, Places

(* The links of s to accounts whose e-mails are not in the list.           *)
Dropped(s, list) == {l \in links : l.pupil = s /\ user[l.parent].email \notin InList(list)}

LEMMA ReadLinksCall ==
  ASSUME TypeOK, NEW k \in Calls, ReadLinks(k)
  PROVE  /\ Frame(k) /\ Same(call[k], call'[k])
         /\ call'[k].todo = call[k].todo /\ call'[k].drop = Dropped(Pupil(k), call[k].list)
         /\ call'[k].parent = call[k].parent /\ call'[k].found = call[k].found
         /\ call'[k].fresh = call[k].fresh /\ call'[k].start = call[k].start
         /\ call'[k].pc = AfterDrop(k, call'[k].drop)
<1>1. PICK drop : drop = Dropped(Pupil(k), call[k].list)
  OBVIOUS
<1>2. drop \subseteq Link
  BY <1>1 DEF Dropped, TypeOK
<1>3. PICK pc \in Places : pc = AfterDrop(k, drop)
  BY AfterDropPlace
<1>4. PICK next : next = [call[k] EXCEPT !.drop = drop, !.pc = pc]
  OBVIOUS
<1>5. next \in Call /\ Same(call[k], next) /\ next.todo = call[k].todo
        /\ next.drop = drop /\ next.parent = call[k].parent
        /\ next.found = call[k].found /\ next.fresh = call[k].fresh
        /\ next.start = call[k].start /\ next.pc = pc
  BY <1>2, <1>4, CallFields DEF Call, Same, Places
<1>6. Goes(k, next)
  BY <1>1, <1>3, <1>4, AfterDropPlace DEF ReadLinks, Dropped
<1> QED BY <1>1, <1>3, <1>5, <1>6, GoesTo

LEMMA UnlinkCall ==
  ASSUME TypeOK, NEW k \in Calls, NEW l \in call[k].drop,
         Goes(k, [call[k] EXCEPT !.drop = call[k].drop \ {l}, !.parent = l.parent,
                                 !.pc = "count"])
  PROVE  /\ Frame(k) /\ Same(call[k], call'[k])
         /\ call'[k].todo = call[k].todo /\ call'[k].drop = call[k].drop \ {l}
         /\ call'[k].parent = l.parent /\ call'[k].found = call[k].found
         /\ call'[k].fresh = call[k].fresh /\ call'[k].start = call[k].start
         /\ call'[k].pc = "count"
<1>1. call[k].drop \ {l} \subseteq Link /\ l.parent \in UserIds
  BY CallFields DEF Link
<1>2. PICK drop : drop = call[k].drop \ {l}
  OBVIOUS
<1>3. PICK next : next = [call[k] EXCEPT !.drop = drop, !.parent = l.parent, !.pc = "count"]
  OBVIOUS
<1>4. drop \subseteq Link
  BY <1>1, <1>2
<1>5. next \in Call /\ Same(call[k], next) /\ next.todo = call[k].todo
        /\ next.drop = drop /\ next.parent = l.parent
        /\ next.found = call[k].found /\ next.fresh = call[k].fresh
        /\ next.start = call[k].start /\ next.pc = "count"
  BY <1>1, <1>3, <1>4, CallFields DEF Call, Same
<1>6. Goes(k, next)
  BY <1>2, <1>3
<1> QED BY <1>2, <1>5, <1>6, GoesTo

LEMMA CommitCall ==
  ASSUME TypeOK, NEW k \in Calls, Commit(k)
  PROVE  /\ Frame(k)
         /\ \/ call[k].fresh = {} /\ call'[k] = Idle
            \/ /\ call[k].fresh # {} /\ Same(call[k], call'[k])
               /\ call'[k].todo = call[k].todo /\ call'[k].drop = call[k].drop
               /\ call'[k].parent = call[k].parent /\ call'[k].found = call[k].found
               /\ call'[k].fresh = call[k].fresh /\ call'[k].start = 0
               /\ call'[k].pc = "mail"
<1>1. CASE call[k].fresh = {}
  BY <1>1, EndsIdle DEF Commit
<1>2. CASE call[k].fresh # {}
  <2>1. PICK next : next = [call[k] EXCEPT !.pc = "mail", !.start = 0]
    OBVIOUS
  <2>2. next \in Call /\ Same(call[k], next) /\ next.todo = call[k].todo
          /\ next.drop = call[k].drop /\ next.parent = call[k].parent
          /\ next.found = call[k].found /\ next.fresh = call[k].fresh
          /\ next.start = 0 /\ next.pc = "mail"
    BY <2>1, CallFields DEF Call, Same
  <2>3. Goes(k, next)
    BY <1>2, <2>1 DEF Commit
  <2> QED BY <1>2, <2>2, <2>3, GoesTo
<1> QED BY <1>1, <1>2

LEMMA SendMailsCall ==
  ASSUME TypeOK, NEW k \in Calls, SendMails(k)
  PROVE  /\ Frame(k)
         /\ \/ call[k].op = "create" /\ call'[k] = Idle
            \/ /\ call[k].op # "create" /\ Same(call[k], call'[k])
               /\ call'[k].todo = call[k].todo /\ call'[k].drop = call[k].drop
               /\ call'[k].parent = call[k].parent /\ call'[k].found = call[k].found
               /\ call'[k].fresh = call[k].fresh /\ call'[k].start = call[k].start
               /\ call'[k].pc = "finish"
<1>1. CASE call[k].op = "create"
  BY <1>1, EndsIdle DEF SendMails
<1>2. CASE call[k].op # "create"
  BY <1>2, OnlyPlace DEF SendMails, Places
<1> QED BY <1>1, <1>2

-----------------------------------------------------------------------------
(* The record a call begins with.                                          *)

(* How each operation begins: the record of its call. *)
LEMMA BeginsWith ==
  ASSUME TypeOK, NEW k \in Calls, NEW first \in Call, Begins(k, first)
  PROVE  Frame(k) /\ call'[k] = first
BY DEF TypeOK, Begins, Frame

LEMMA InListOf ==
  /\ InList(<<>>) = {}
  /\ \A q \in Seq(Emails) : InList(q) \subseteq Emails
  /\ \A q \in Seq(Emails) : q # <<>> =>
       /\ Head(q) \in InList(q) /\ InList(Tail(q)) \subseteq InList(q)
       /\ InList(q) \subseteq {Head(q)} \cup InList(Tail(q))
<1>1. InList(<<>>) = {}
  BY DEF InList
<1>2. ASSUME NEW q \in Seq(Emails) PROVE InList(q) \subseteq Emails
  BY DEF InList
<1>3. ASSUME NEW q \in Seq(Emails), q # <<>>
      PROVE  /\ Head(q) \in InList(q) /\ InList(Tail(q)) \subseteq InList(q)
             /\ InList(q) \subseteq {Head(q)} \cup InList(Tail(q))
  <2>1. Len(q) \in Nat \ {0} /\ DOMAIN q = 1 .. Len(q) /\ Head(q) = q[1]
    BY <1>3
  <2>2. DOMAIN Tail(q) = 1 .. Len(q) - 1 /\ \A n \in 1 .. Len(q) - 1 : Tail(q)[n] = q[n + 1]
    BY <1>3, <2>1
  <2>3. Head(q) \in InList(q)
    BY <2>1 DEF InList
  <2>4. \A n \in 1 .. Len(q) - 1 : n + 1 \in 1 .. Len(q)
    BY <2>1
  <2>5. InList(Tail(q)) \subseteq InList(q)
    BY <2>1, <2>2, <2>4 DEF InList
  <2>6. \A n \in 1 .. Len(q) : n # 1 => n - 1 \in 1 .. Len(q) - 1 /\ n = (n - 1) + 1
    BY <2>1
  <2>7. ASSUME NEW n \in 1 .. Len(q) PROVE q[n] \in {Head(q)} \cup InList(Tail(q))
    <3>1. CASE n = 1
      BY <2>1, <3>1
    <3>2. CASE n # 1
      <4>1. n - 1 \in DOMAIN Tail(q) /\ Tail(q)[n - 1] = q[n]
        BY <2>2, <2>6, <3>2
      <4> QED BY <4>1 DEF InList
    <3> QED BY <3>1, <3>2
  <2> QED BY <2>1, <2>3, <2>5, <2>7 DEF InList
<1> QED BY <1>1, <1>2, <1>3

(* What all begin with. *)
Fresh(c) == c.drop = {} /\ c.fresh = {} /\ c.start = 0

LEMMA IdleFields ==
  /\ Idle \in Call /\ Fresh(Idle) /\ Idle.list = <<>> /\ Idle.todo = <<>> /\ Idle.parent = 0
  /\ Idle.op = "none" /\ Idle.pc = "idle" /\ Idle.pupils = {} /\ Idle.drop = {}
  /\ Idle.fresh = {} /\ Idle.start = 0
BY IdleIsCall DEF Idle, Fresh

LEMMA CreateStudentCall ==
  ASSUME TypeOK, NEW k \in Calls, NEW s \in Pupils, NEW c \in EntryClasses,
         NEW list \in GuardianLists, CreateStudent(k, s, c, list)
  PROVE  /\ Formed(call'[k]) /\ Frame(k) /\ Fresh(call'[k]) /\ call'[k].op = "create"
         /\ call'[k].pc = "take numbers" /\ call'[k].pupils = {s} /\ call'[k].class = c
         /\ call'[k].list = list /\ call'[k].todo = list /\ call'[k].parent = 0
<1>1. c \in Classes /\ list \in Seq(Emails)
  BY StudentsAssumption
<1>2. PICK first : first = [Idle EXCEPT !.op = "create", !.pc = "take numbers", !.pupils = {s},
                              !.class = c, !.list = list, !.todo = list]
  OBVIOUS
<1>3. first \in Call /\ Fresh(first) /\ first.op = "create" /\ first.pc = "take numbers"
        /\ first.pupils = {s} /\ first.class = c /\ first.list = list /\ first.todo = list
        /\ first.parent = 0
  BY <1>1, <1>2, IdleFields DEF Call, Fresh
<1>4. Begins(k, first)
  BY <1>2 DEF CreateStudent
<1>8. Placed(first)
  BY <1>3 DEF Placed
<1>9. Carried(first)
  BY <1>1, <1>3 DEF Carried, Linking, Dropping, Entering, Fresh
<1>10. Listed(first)
  BY <1>1, <1>3, InListOf DEF Listed, Linking, Dropping, Fresh
<1> QED BY <1>3, <1>4, <1>8, <1>9, <1>10, BeginsWith DEF Formed

LEMMA BulkImportCall ==
  ASSUME TypeOK, NEW k \in Calls, NEW S \in SUBSET Pupils, NEW c \in EntryClasses,
         BulkImportStudents(k, S, c)
  PROVE  /\ Formed(call'[k]) /\ Frame(k) /\ Fresh(call'[k]) /\ call'[k].op = "create"
         /\ call'[k].pc = "take numbers" /\ call'[k].pupils = S /\ call'[k].class = c
         /\ call'[k].list = <<>> /\ call'[k].todo = <<>> /\ call'[k].parent = 0
<1>1. c \in Classes
  BY StudentsAssumption
<1>5. S # {}
  BY DEF BulkImportStudents
<1>2. PICK first : first = [Idle EXCEPT !.op = "create", !.pc = "take numbers", !.pupils = S,
                              !.class = c]
  OBVIOUS
<1>3. first \in Call /\ Fresh(first) /\ first.op = "create" /\ first.pc = "take numbers"
        /\ first.pupils = S /\ first.class = c /\ first.list = <<>> /\ first.todo = <<>>
        /\ first.parent = 0
  BY <1>1, <1>2, IdleFields DEF Call, Fresh
<1>4. Begins(k, first)
  BY <1>2 DEF BulkImportStudents
<1>8. Placed(first)
  BY <1>3 DEF Placed
<1>9. Carried(first)
  BY <1>1, <1>3, <1>5 DEF Carried, Linking, Dropping, Entering, Fresh
<1>10. Listed(first)
  BY <1>1, <1>3, <1>5, InListOf DEF Listed, Linking, Dropping, Fresh
<1> QED BY <1>3, <1>4, <1>8, <1>9, <1>10, BeginsWith DEF Formed

LEMMA UpdateStudentCall ==
  ASSUME TypeOK, NEW k \in Calls, NEW s \in Pupils, NEW e \in Edits,
         UpdateStudent(k, s, e[1], e[2])
  PROVE  /\ Formed(call'[k]) /\ Frame(k) /\ Fresh(call'[k]) /\ call'[k].op \in {"edit", "update"}
         /\ call'[k].pc = "update row" /\ call'[k].pupils = {s}
         /\ call'[k].todo = call'[k].list /\ call'[k].parent = 0
         /\ call'[k].op = "edit" => call'[k].list = <<>>
<1>1. /\ e[1] \in Classes \cup {NoClass}
      /\ e[2] # NoList => e[2] \in Seq(Emails)
  BY StudentsAssumption
<1>2. PICK op, list : /\ op = IF e[2] = NoList THEN "edit" ELSE "update"
                      /\ list = IF e[2] = NoList THEN <<>> ELSE e[2]
  OBVIOUS
<1>3. op \in {"edit", "update"} /\ list \in Seq(Emails) /\ (op = "edit" => list = <<>>)
  <2>1. <<>> \in Seq(Emails)
    OBVIOUS
  <2> QED BY <1>1, <1>2, <2>1
<1>4. PICK class : class = e[1]
  OBVIOUS
<1>5. PICK first : first = [Idle EXCEPT !.op = op, !.pc = "update row", !.pupils = {s},
                              !.class = class, !.list = list, !.todo = list]
  OBVIOUS
<1>6. class \in Classes \cup {NoClass}
  BY <1>1, <1>4
<1>7. first \in Call /\ Fresh(first) /\ first.op = op /\ first.pc = "update row"
        /\ first.pupils = {s} /\ first.list = list /\ first.todo = list /\ first.parent = 0
  BY <1>3, <1>5, <1>6, IdleFields DEF Call, Fresh
<1>12. Begins(k, first)
  BY <1>2, <1>4, <1>5 DEF UpdateStudent
<1>8. Placed(first)
  BY <1>3, <1>7 DEF Placed
<1>9. Carried(first)
  BY <1>3, <1>7 DEF Carried, Linking, Dropping, Entering, Fresh
<1>10. Listed(first)
  BY <1>3, <1>7, InListOf DEF Listed, Linking, Dropping, Fresh
<1> QED BY <1>3, <1>7, <1>12, <1>8, <1>9, <1>10, BeginsWith DEF Formed

LEMMA LinkParentCall ==
  ASSUME TypeOK, NEW k \in Calls, NEW s \in Pupils, NEW p \in UserIds, LinkParent(k, s, p)
  PROVE  /\ Formed(call'[k]) /\ Frame(k) /\ Fresh(call'[k]) /\ call'[k].op = "link"
         /\ call'[k].pc = "add link" /\ call'[k].pupils = {s}
         /\ call'[k].list = <<>> /\ call'[k].todo = <<>> /\ call'[k].parent = p
         /\ call'[k].found = user[p] /\ user[p] \in User
<1>1. user[p] \in User
  BY DEF TypeOK, LinkParent, UsersSeen
<1>2. PICK first : first = [Idle EXCEPT !.op = "link", !.pc = "add link", !.pupils = {s},
                              !.parent = p, !.found = user[p]]
  OBVIOUS
<1>3. first \in Call /\ Fresh(first) /\ first.op = "link" /\ first.pc = "add link"
        /\ first.pupils = {s} /\ first.list = <<>> /\ first.todo = <<>> /\ first.parent = p
        /\ first.found = user[p]
  BY <1>1, <1>2, IdleFields DEF Call, Fresh
<1>4. Begins(k, first)
  BY <1>2 DEF LinkParent
<1>8. Placed(first)
  BY <1>3 DEF Placed
<1>9. Carried(first)
  BY <1>1, <1>3 DEF Carried, Linking, Dropping, Entering, Fresh
<1>10. Listed(first)
  BY <1>1, <1>3, InListOf DEF Listed, Linking, Dropping, Fresh
<1> QED BY <1>1, <1>3, <1>4, <1>8, <1>9, <1>10, BeginsWith DEF Formed

LEMMA UnlinkParentCall ==
  ASSUME TypeOK, NEW k \in Calls, NEW l \in links, UnlinkParent(k, l)
  PROVE  /\ Formed(call'[k]) /\ Frame(k) /\ call'[k].fresh = {} /\ call'[k].start = 0 /\ call'[k].drop = {l}
         /\ call'[k].op = "unlink"
         /\ call'[k].pc = "remove link" /\ call'[k].pupils = {l.pupil}
         /\ call'[k].list = <<>> /\ call'[k].todo = <<>> /\ call'[k].parent = l.parent
         /\ call'[k].found = user[l.parent]
         /\ user[l.parent] \in User /\ l.parent \in UserIds /\ l.pupil \in Pupils
<1>1. l \in Link /\ l.parent \in UserIds /\ l.pupil \in Pupils
  BY DEF TypeOK, Link
<1>2. user[l.parent] \in User
  BY <1>1 DEF TypeOK
<1>3. PICK pupil, parent, found :
        pupil = l.pupil /\ parent = l.parent /\ found = user[l.parent]
  OBVIOUS
<1>4. PICK first : first = [Idle EXCEPT !.op = "unlink", !.pc = "remove link",
                              !.pupils = {pupil}, !.drop = {l}, !.parent = parent,
                              !.found = found]
  OBVIOUS
<1>5. pupil \in Pupils /\ parent \in UserIds /\ found \in User
  BY <1>1, <1>2, <1>3
<1>6. first \in Call /\ first.fresh = {} /\ first.start = 0 /\ first.drop = {l}
        /\ first.op = "unlink" /\ first.pc = "remove link"
        /\ first.pupils = {pupil} /\ first.list = <<>> /\ first.todo = <<>>
        /\ first.parent = parent /\ first.found = found
  BY <1>1, <1>4, <1>5, IdleFields DEF Call
<1>7. Begins(k, first)
  BY <1>3, <1>4 DEF UnlinkParent
<1>8. Placed(first)
  <2>1. first.op = "unlink" /\ first.pc = "remove link"
    BY <1>6
  <2> QED BY <2>1 DEF Placed
<1>9. Carried(first)
  <2>1. \A x \in first.drop : x.pupil \in first.pupils /\ x.parent = first.parent
    BY <1>3, <1>6
  <2>2. first.op = "unlink" /\ first.pc = "remove link"
    BY <1>6
  <2> QED BY <1>5, <1>6, <2>1, <2>2 DEF Carried, Linking, Dropping, Entering
<1>10. Listed(first)
  BY <1>1, <1>5, <1>6, InListOf DEF Listed, Linking, Dropping, Fresh
<1> QED BY <1>1, <1>2, <1>3, <1>6, <1>7, <1>8, <1>9, <1>10, BeginsWith DEF Formed

LEMMA PromoteStudentsCall ==
  ASSUME TypeOK, NEW k \in Calls, NEW S \in SUBSET Pupils, NEW c \in Classes,
         NEW d \in Classes \cup {NoClass}, PromoteStudents(k, S, c, d)
  PROVE  /\ Formed(call'[k]) /\ Frame(k) /\ Fresh(call'[k]) /\ call'[k].op = "promote"
         /\ call'[k].pc = "move" /\ call'[k].pupils = Movable(S, c)
         /\ call'[k].list = <<>> /\ call'[k].todo = <<>> /\ call'[k].parent = 0
         /\ Movable(S, c) \subseteq Pupils /\ \A s \in Movable(S, c) : Present(s)
<1>1. Movable(S, c) \subseteq Pupils /\ \A s \in Movable(S, c) : Present(s)
  BY DEF Movable
<1>2. PICK T : T = Movable(S, c)
  OBVIOUS
<1>7. T # {}
  BY <1>2 DEF PromoteStudents
<1>3. PICK first : first = [Idle EXCEPT !.op = "promote", !.pc = "move", !.pupils = T,
                              !.class = d, !.from = c]
  OBVIOUS
<1>4. T \subseteq Pupils
  BY <1>1, <1>2
<1>5. first \in Call /\ Fresh(first) /\ first.op = "promote" /\ first.pc = "move"
        /\ first.pupils = T /\ first.list = <<>> /\ first.todo = <<>> /\ first.parent = 0
  BY <1>3, <1>4, IdleFields DEF Call, Fresh
<1>6. Begins(k, first)
  BY <1>2, <1>3 DEF PromoteStudents
<1>8. Placed(first)
  BY <1>5 DEF Placed
<1>9. Carried(first)
  BY <1>4, <1>5, <1>7 DEF Carried, Linking, Dropping, Entering, Fresh
<1>10. Listed(first)
  BY <1>4, <1>5, <1>7, InListOf DEF Listed, Linking, Dropping, Fresh
<1> QED BY <1>1, <1>2, <1>5, <1>6, <1>8, <1>9, <1>10, BeginsWith DEF Formed

-----------------------------------------------------------------------------
(* Calls are well formed wherever they are.                                *)

(* A statement of a call that is neither its first, its last nor its       *)
(* commit, and is not refused.                                             *)
Advances(k) ==
  \/ FindParent(k) \/ FindLink(k) \/ UpdateRow(k) \/ ReadLinks(k) \/ Unlink(k)
  \/ CountChildren(k) \/ RemoveLink(k)
  \/ MakeParent(k) /\ ~EmailTaken(k, Email(k))
  \/ SavePhone(k) /\ ~(user[call[k].parent] = NoUser /\ EmailTaken(k, Email(k)))
  \/ AddLink(k) /\ ~(Linked(Pupil(k), call[k].parent) \/ user[call[k].parent] = NoUser)
  \/ DeleteParent(k) /\ ~(Children(call[k].parent) # {} \/ call[k].parent \in Kept)

(* A step begins or ends a call, or it advances it. *)
LEMMA StepKinds ==
  ASSUME NEW k \in Calls, Step(k)
  PROVE  \/ TakeNumbers(k) \/ Commit(k) \/ SendMails(k) \/ Finish(k) \/ Move(k)
         \/ Advances(k) \/ (Busy(k) /\ Fails(k))
<1>1. CASE MakeParent(k)
  BY <1>1 DEF MakeParent, Advances, At, Busy
<1>2. CASE SavePhone(k)
  BY <1>2 DEF SavePhone, Advances, At, Busy
<1>3. CASE AddLink(k)
  BY <1>3 DEF AddLink, Advances, At, Busy
<1>4. CASE DeleteParent(k)
  BY <1>4 DEF DeleteParent, Advances, At, Busy
<1> QED BY <1>1, <1>2, <1>3, <1>4 DEF Step, Advances

(* Its place and its guardians change, what it is for does not.            *)
LEMMA OnwardFormed ==
  ASSUME TypeOK, NEW k \in Calls, NEW d, Formed(call[k]), Same(call[k], d),
         call[k].op \in {"create", "update"}, call[k].pc # "mail",
         call[k].start # 0 <=> call[k].op = "create", d.start = call[k].start,
         d.fresh = call[k].fresh, d.drop = {}, d.todo \in Seq(Emails),
         InList(d.todo) \subseteq InList(call[k].todo), call[k].todo = <<>> => d.todo = <<>>,
         d.pc = Onward(k, d.todo, d.fresh)
  PROVE  Formed(d) /\ (d.pc \notin {"take numbers", "mail"} \/ d.op = "update")
<1>1. \/ d.pc = "find parent" /\ d.todo # <<>>
      \/ d.pc = "commit" /\ d.op = "create" /\ d.todo = <<>>
      \/ d.pc \in {"mail", "finish"} /\ d.op = "update" /\ d.todo = <<>>
  <2>1. d.pc = Onward(k, d.todo, d.fresh) /\ d.op = call[k].op
    BY DEF Same
  <2>2. CASE d.todo # <<>>
    BY <2>1, <2>2 DEF Onward
  <2>3. CASE d.todo = <<>> /\ d.op = "create"
    BY <2>1, <2>3 DEF Onward
  <2>4. CASE d.todo = <<>> /\ d.op = "update"
    BY <2>1, <2>4 DEF Onward
  <2> QED BY <2>1, <2>2, <2>3, <2>4
<1>2. Placed(d)
  BY <1>1 DEF Placed, Same
<1>3. Carried(d)
  BY <1>1 DEF Carried, Linking, Dropping, Entering, Same, Formed
<1>4. Listed(d)
  BY <1>1 DEF Listed, Linking, Dropping, Same, Formed
<1> QED BY <1>1, <1>2, <1>3, <1>4 DEF Formed, Same

(* Formed is kept by each kind of step. *)
LEMMA AfterDropFormed ==
  ASSUME TypeOK, NEW k \in Calls, NEW d, Formed(call[k]), Same(call[k], d),
         call[k].pc \in {"read links", "count", "delete parent"}, d.start = call[k].start,
         d.fresh = call[k].fresh, d.todo = call[k].todo,
         \A l \in d.drop : l.pupil \in call[k].pupils, d.pc = AfterDrop(k, d.drop)
  PROVE  Formed(d) /\ d.op = "update"
<1>1. call[k].op = "update" /\ call[k].fresh = {} /\ call[k].start = 0
        /\ call[k].todo \in Seq(Emails)
  <2>1. call[k].op = "update" /\ call[k].todo \in Seq(Emails)
    BY CallFields DEF Formed, Placed
  <2>2. call[k].fresh = {}
    BY DEF Formed, Listed, Dropping
  <2>3. call[k].start = 0
    BY <2>1 DEF Formed, Carried, Entering
  <2> QED BY <2>1, <2>2, <2>3
<1>2. CASE d.drop # {}
  <2>1. d.pc = "unlink"
    BY <1>2, AfterDropPlace
  <2>2. Placed(d)
    BY <1>1, <2>1 DEF Placed, Same
  <2>3. Carried(d)
    <3>1. d.op = "update" /\ d.start = 0 /\ d.pupils = call[k].pupils /\ d.list = call[k].list
      BY <1>1 DEF Same
    <3>2. d.pupils # {} /\ \E s \in Pupils : d.pupils = {s}
      BY <1>1, <3>1 DEF Carried, Formed
    <3> QED BY <2>1, <3>1, <3>2 DEF Carried, Linking, Dropping, Entering, Same
  <2>4. Listed(d)
    <3>1. call[k].todo = call[k].list /\ (call[k].list = <<>> => call[k].todo = <<>>)
      BY DEF Formed, Listed, Dropping
    <3>2. d.todo = d.list /\ d.fresh = {}
      BY <1>1, <3>1 DEF Same
    <3> QED BY <2>1, <3>2 DEF Listed, Linking, Dropping
  <2> QED BY <1>1, <2>2, <2>3, <2>4 DEF Formed, Same
<1>3. CASE d.drop = {}
  <2>1. d.pc = Onward(k, d.todo, d.fresh)
    <3>1. d.todo = call[k].todo /\ d.fresh = {} /\ d.pc = AfterDrop(k, {})
      BY <1>1, <1>3
    <3> QED BY <3>1 DEF AfterDrop
  <2>2. call[k].start # 0 <=> call[k].op = "create"
    BY <1>1
  <2>3. d.todo \in Seq(Emails)
    BY <1>1
  <2> QED BY <1>1, <1>3, <2>1, <2>2, <2>3, OnwardFormed DEF Same
<1> QED BY <1>2, <1>3

LEMMA AdvancesFormed ==
  ASSUME TypeOK, NEW k \in Calls, Formed(call[k]), Advances(k)
  PROVE  /\ Frame(k) /\ Same(call[k], call'[k]) /\ call'[k].start = call[k].start
         /\ Formed(call'[k]) /\ call[k].pc \notin {"idle", "take numbers", "mail"}
         /\ (call[k].op = "create" => call'[k].pc \notin {"take numbers", "mail"})
<1> USE DEF Formed, Placed, Carried, Listed, Linking, Dropping, Entering, Same, At
<1>0. call[k].todo \in Seq(Emails) /\ call[k].list \in Seq(Emails)
  BY CallFields
<1>1. CASE FindParent(k)
  <2>1. call[k].pc = "find parent"
    BY <1>1 DEF FindParent
  <2>2. Matches(k) \subseteq UserIds /\ \A i \in Matches(k) : user[i] \in User
    BY DEF Matches, UsersSeen, TypeOK
  <2> QED BY <1>1, <2>1, <2>2, FindParentCall
<1>2. CASE FindLink(k)
  <2>1. call[k].pc = "find link"
    BY <1>2 DEF FindLink
  <2>2. call[k].todo # <<>> /\ call[k].drop = {} /\ call[k].op \in {"create", "update"}
    BY <2>1
  <2>3. Frame(k) /\ Same(call[k], call'[k]) /\ call'[k].start = call[k].start
    BY <1>2, <2>2, FindLinkCall
  <2>4. CASE Linked(Pupil(k), call[k].parent)
    <3>1. /\ call'[k].fresh = call[k].fresh /\ call'[k].drop = {}
          /\ call'[k].todo = Tail(call[k].todo)
          /\ call'[k].pc = Onward(k, call'[k].todo, call'[k].fresh)
      BY <1>2, <2>2, <2>4, FindLinkCall
    <3>2. /\ call'[k].todo \in Seq(Emails)
          /\ InList(call'[k].todo) \subseteq InList(call[k].todo)
      BY <1>0, <2>2, <3>1, InListOf, TailTyped
    <3>3. call[k].start # 0 <=> call[k].op = "create"
      BY <2>1
    <3> HIDE DEF Formed, Same
    <3>4. Formed(call'[k])
            /\ (call'[k].pc \notin {"take numbers", "mail"} \/ call'[k].op = "update")
      BY <2>1, <2>2, <2>3, <3>1, <3>2, <3>3, OnwardFormed
    <3> QED BY <2>1, <2>2, <2>3, <3>4 DEF Same
  <2>5. CASE ~Linked(Pupil(k), call[k].parent)
    BY <1>2, <2>1, <2>2, <2>5, FindLinkCall
  <2> QED BY <2>4, <2>5
<1>3. CASE UpdateRow(k)
  <2>1. call[k].pc = "update row"
    BY <1>3 DEF UpdateRow
  <2> QED BY <1>3, <2>1, UpdateRowCall
<1>4. CASE ReadLinks(k)
  <2>1. call[k].pc = "read links"
    BY <1>4 DEF ReadLinks
  <2>2. \A l \in Dropped(Pupil(k), call[k].list) : l.pupil \in call[k].pupils
    BY <2>1 DEF Dropped, Pupil
  <2> HIDE DEF Formed, Same
  <2>3. Formed(call'[k]) /\ call'[k].op = "update"
    BY <1>4, <2>1, <2>2, ReadLinksCall, AfterDropFormed
  <2> QED BY <1>4, <2>1, <2>3, ReadLinksCall DEF Same
<1>5. CASE Unlink(k)
  <2>1. call[k].pc = "unlink"
    BY <1>5 DEF Unlink
  <2>2. PICK l \in call[k].drop :
          Goes(k, [call[k] EXCEPT !.drop = call[k].drop \ {l}, !.parent = l.parent,
                                  !.pc = "count"])
    BY <1>5 DEF Unlink
  <2>3. l.parent \in UserIds
    BY CallFields DEF Link
  <2> QED BY <2>1, <2>2, <2>3, UnlinkCall
<1>6. CASE CountChildren(k)
  <2>1. call[k].pc = "count"
    BY <1>6 DEF CountChildren
  <2>2. CASE Children(call[k].parent) = {}
    BY <1>6, <2>1, <2>2, CountChildrenCall
  <2>3. CASE Children(call[k].parent) # {}
    <3>1. \A l \in call[k].drop : l.pupil \in call[k].pupils
      OBVIOUS
    <3> HIDE DEF Formed, Same
    <3>2. Formed(call'[k]) /\ call'[k].op = "update"
      BY <1>6, <2>1, <2>3, <3>1, CountChildrenCall, AfterDropFormed
    <3> QED BY <1>6, <2>1, <3>2, CountChildrenCall DEF Same
  <2> QED BY <2>2, <2>3
<1>7. CASE RemoveLink(k)
  <2>1. call[k].pc = "remove link"
    BY <1>7 DEF RemoveLink
  <2> QED BY <1>7, <2>1, RemoveLinkCall
<1>8. CASE MakeParent(k) /\ ~EmailTaken(k, Email(k))
  <2>1. call[k].pc = "make parent"
    BY <1>8 DEF MakeParent
  <2> QED BY <1>8, <2>1, MakeParentCall
<1>9. CASE SavePhone(k) /\ ~(user[call[k].parent] = NoUser /\ EmailTaken(k, Email(k)))
  <2>1. call[k].pc = "save phone"
    BY <1>9 DEF SavePhone
  <2> QED BY <1>9, <2>1, SavePhoneCall
<1>10. CASE AddLink(k) /\ ~(Linked(Pupil(k), call[k].parent) \/ user[call[k].parent] = NoUser)
  <2>1. call[k].pc = "add link"
    BY <1>10 DEF AddLink
  <2>2. /\ Frame(k) /\ Same(call[k], call'[k]) /\ call'[k].start = call[k].start
        /\ call'[k].drop = call[k].drop /\ call'[k].fresh = call[k].fresh
        /\ call'[k].parent = call[k].parent /\ call'[k].found = call[k].found
        /\ call'[k].todo = (IF call[k].todo = <<>> THEN <<>> ELSE Tail(call[k].todo))
        /\ call'[k].pc = Onward(k, call'[k].todo, call[k].fresh)
    BY <1>10, AddLinkCall
  <2>3. CASE call[k].op = "link"
    <3>1. call[k].todo = <<>> /\ call[k].fresh = {} /\ call[k].drop = {} /\ call[k].list = <<>>
      BY <2>1, <2>3
    <3>2. call'[k].todo = <<>> /\ call'[k].pc = "finish"
      <4> HIDE DEF Formed, Same
      <4>1. call'[k].todo = <<>>
        BY <2>2, <3>1
      <4>2. call'[k].pc = Onward(k, <<>>, {})
        BY <2>2, <3>1, <4>1
      <4> QED BY <2>3, <4>1, <4>2 DEF Onward
    <3>3. Placed(call'[k])
      BY <2>2, <2>3, <3>2
    <3>4. Carried(call'[k])
      BY <2>1, <2>2, <2>3, <3>1, <3>2
    <3>5. InList(call'[k].todo) = {}
      BY <3>2, InListOf
    <3>6. Listed(call'[k])
      BY <3>2, <3>5
    <3> QED BY <2>1, <2>2, <2>3, <3>3, <3>4, <3>6
  <2>4. CASE call[k].op # "link"
    <3>1. /\ call[k].todo # <<>> /\ call[k].drop = {} /\ call[k].op \in {"create", "update"}
          /\ call[k].start # 0 <=> call[k].op = "create"
      BY <2>1, <2>4
    <3>2. /\ call'[k].todo \in Seq(Emails)
          /\ InList(call'[k].todo) \subseteq InList(call[k].todo)
      BY <1>0, <2>2, <3>1, InListOf, TailTyped
    <3> HIDE DEF Formed, Same
    <3>3. Formed(call'[k])
            /\ (call'[k].pc \notin {"take numbers", "mail"} \/ call'[k].op = "update")
      BY <2>1, <2>2, <3>1, <3>2, OnwardFormed
    <3> QED BY <2>1, <2>2, <3>3 DEF Same
  <2> QED BY <2>3, <2>4
<1>11. CASE DeleteParent(k) /\ ~(Children(call[k].parent) # {} \/ call[k].parent \in Kept)
  <2>1. call[k].pc = "delete parent"
    BY <1>11 DEF DeleteParent
  <2>2. \A l \in call[k].drop : l.pupil \in call[k].pupils
    OBVIOUS
  <2> HIDE DEF Formed, Same
  <2>3. Formed(call'[k]) /\ call'[k].op = "update"
    BY <1>11, <2>1, <2>2, DeleteParentCall, AfterDropFormed
  <2> QED BY <1>11, <2>1, <2>3, DeleteParentCall DEF Same
<1> QED BY <1>1, <1>2, <1>3, <1>4, <1>5, <1>6, <1>7, <1>8, <1>9, <1>10, <1>11 DEF Advances

LEMMA IdleFormed == Formed(Idle) /\ ~Entering(Idle)
BY IdleFields, InListOf
   DEF Formed, Placed, Carried, Listed, Linking, Dropping, Entering, Fresh

(* A call that begins is Formed, and names pupils that are there unless it *)
(* enters them.                                                            *)
LEMMA BeginFormed ==
  ASSUME TypeOK, NEW k \in Calls, Begin(k)
  PROVE  /\ Frame(k) /\ Formed(call'[k]) /\ call'[k].start = 0
         /\ \/ /\ Entering(call'[k])
               /\ \A s \in call'[k].pupils : ~Present(s) /\ On(s) = {}
            \/ ~Entering(call'[k]) /\ \A s \in call'[k].pupils : Present(s)
<1>1. ASSUME NEW s \in Pupils, NEW c \in EntryClasses, NEW list \in GuardianLists,
             CreateStudent(k, s, c, list)
      PROVE  /\ Frame(k) /\ Formed(call'[k]) /\ call'[k].start = 0 /\ Entering(call'[k])
             /\ \A x \in call'[k].pupils : ~Present(x) /\ On(x) = {}
  <2>1. ~Present(s) /\ On(s) = {} /\ c \in Classes
    BY <1>1, StudentsAssumption DEF CreateStudent
  <2>2. /\ Formed(call'[k]) /\ Frame(k) /\ call'[k].pupils = {s}
        /\ call'[k].op = "create" /\ call'[k].pc = "take numbers"
    BY <1>1, CreateStudentCall
  <2>3. call'[k].start = 0
    BY <1>1, CreateStudentCall DEF Fresh
  <2> QED BY <2>1, <2>2, <2>3 DEF Entering
<1>2. ASSUME NEW S \in SUBSET Pupils, NEW c \in EntryClasses, BulkImportStudents(k, S, c)
      PROVE  /\ Frame(k) /\ Formed(call'[k]) /\ call'[k].start = 0 /\ Entering(call'[k])
             /\ \A x \in call'[k].pupils : ~Present(x) /\ On(x) = {}
  <2>1. /\ S # {} /\ \A s \in S : ~Present(s) /\ On(s) = {}
        /\ c \in Classes
    BY <1>2, StudentsAssumption DEF BulkImportStudents
  <2>2. /\ Formed(call'[k]) /\ Frame(k) /\ call'[k].pupils = S
        /\ call'[k].op = "create" /\ call'[k].pc = "take numbers"
    BY <1>2, BulkImportCall
  <2>3. call'[k].start = 0
    BY <1>2, BulkImportCall DEF Fresh
  <2> QED BY <2>1, <2>2, <2>3 DEF Entering
<1>3. ASSUME NEW s \in Pupils, NEW e \in Edits, UpdateStudent(k, s, e[1], e[2])
      PROVE  /\ Frame(k) /\ Formed(call'[k]) /\ call'[k].start = 0 /\ ~Entering(call'[k])
             /\ \A x \in call'[k].pupils : Present(x)
  <2>1. Present(s)
    BY <1>3 DEF UpdateStudent
  <2>2. /\ Formed(call'[k]) /\ Frame(k) /\ call'[k].pupils = {s}
        /\ call'[k].op # "create"
    BY <1>3, UpdateStudentCall
  <2>3. call'[k].start = 0
    BY <1>3, UpdateStudentCall DEF Fresh
  <2> QED BY <2>1, <2>2, <2>3 DEF Entering
<1>4. ASSUME NEW s \in Pupils, NEW p \in UserIds, LinkParent(k, s, p)
      PROVE  /\ Frame(k) /\ Formed(call'[k]) /\ call'[k].start = 0 /\ ~Entering(call'[k])
             /\ \A x \in call'[k].pupils : Present(x)
  <2>1. Present(s)
    BY <1>4 DEF LinkParent
  <2>2. /\ Formed(call'[k]) /\ Frame(k) /\ call'[k].pupils = {s}
        /\ call'[k].op # "create"
    BY <1>4, LinkParentCall
  <2>3. call'[k].start = 0
    BY <1>4, LinkParentCall DEF Fresh
  <2> QED BY <2>1, <2>2, <2>3 DEF Entering
<1>5. ASSUME NEW l \in links, UnlinkParent(k, l)
      PROVE  /\ Frame(k) /\ Formed(call'[k]) /\ call'[k].start = 0 /\ ~Entering(call'[k])
             /\ \A x \in call'[k].pupils : Present(x)
  <2>1. Present(l.pupil)
    BY <1>5 DEF UnlinkParent
  <2>2. /\ Formed(call'[k]) /\ Frame(k) /\ call'[k].pupils = {l.pupil}
        /\ call'[k].op # "create"
    BY <1>5, UnlinkParentCall
  <2>3. call'[k].start = 0
    BY <1>5, UnlinkParentCall DEF Fresh
  <2> QED BY <2>1, <2>2, <2>3 DEF Entering
<1>6. ASSUME NEW S \in SUBSET Pupils, NEW c \in Classes, NEW d \in Classes \cup {NoClass},
             PromoteStudents(k, S, c, d)
      PROVE  /\ Frame(k) /\ Formed(call'[k]) /\ call'[k].start = 0 /\ ~Entering(call'[k])
             /\ \A x \in call'[k].pupils : Present(x)
  <2>1. Movable(S, c) # {}
    BY <1>6 DEF PromoteStudents
  <2>2. /\ Formed(call'[k]) /\ Frame(k) /\ call'[k].pupils = Movable(S, c)
        /\ call'[k].op # "create"
             /\ \A x \in Movable(S, c) : Present(x)
    BY <1>6, PromoteStudentsCall
  <2>3. call'[k].start = 0
    BY <1>6, PromoteStudentsCall DEF Fresh
  <2> QED BY <2>1, <2>2, <2>3 DEF Entering
<1> QED BY <1>1, <1>2, <1>3, <1>4, <1>5, <1>6 DEF Begin

-----------------------------------------------------------------------------
(* Pupils are entered by one call each, and stay.                          *)

(* The one pupil of an edit, a link or an unlink. *)
LEMMA PupilIs ==
  ASSUME TypeOK, NEW k \in Calls, Formed(call[k]), call[k].pupils # {}
  PROVE  /\ Pupil(k) \in call[k].pupils /\ Pupil(k) \in Pupils
         /\ (call[k].list # <<>> \/ call[k].op \in {"edit", "update", "link", "unlink"} =>
               call[k].pupils = {Pupil(k)})
<1>1. Pupil(k) \in call[k].pupils
  BY DEF Pupil
<1> QED BY <1>1, CallFields DEF Formed, Carried

(* What PupilsInv asks of a step that changes one call. *)
LEMMA PupilsFollow ==
  ASSUME TypeOK, PupilsInv, NEW k \in Calls, Frame(k), Formed(call'[k]),
         \A s \in call'[k].pupils : Present(s)' <=> ~Entering(call'[k]),
         \A j \in Calls \ {k} : \A s \in call[j].pupils : Present(s)' <=> Present(s),
         \A j \in Calls \ {k} : \A s \in call[j].pupils \cap call'[k].pupils :
           ~Entering(call[j]) /\ ~Entering(call'[k]),
         call'[k].start # 0 => \A j \in Calls \ {k} : ~Holds(j)
  PROVE  PupilsInv'
<1>1. ASSUME NEW j \in Calls PROVE Formed(call[j])'
  <2>1. Formed(call'[j])
    BY DEF PupilsInv, Frame
  <2> QED BY <2>1 DEF Formed, Placed, Carried, Listed, Linking, Dropping, Entering, InList
<1>2. ASSUME NEW j \in Calls, NEW s \in call'[j].pupils
      PROVE  Present(s)' <=> ~Entering(call'[j])
  BY <1>2 DEF PupilsInv, Frame
<1>3. ASSUME NEW i \in Calls, NEW j \in Calls, NEW s \in call'[i].pupils \cap call'[j].pupils,
             Entering(call'[i])
      PROVE  i = j
  BY <1>3 DEF PupilsInv, Frame
<1>4. ASSUME NEW i \in Calls, NEW j \in Calls, Holds(i)', Holds(j)' PROVE i = j
  BY <1>4 DEF PupilsInv, Frame, Holds
<1>5. \A j \in Calls : \A s \in call'[j].pupils : Present(s)' <=> ~Entering(call[j])'
  BY <1>2 DEF Entering
<1>6. \A i, j \in Calls : \A s \in call'[i].pupils \cap call'[j].pupils :
        Entering(call[i])' => i = j
  BY <1>3 DEF Entering
<1> QED BY <1>1, <1>4, <1>5, <1>6 DEF PupilsInv

(* A new class or the archive is for students that are there.              *)
LEMMA RowsStay ==
  ASSUME TypeOK, PupilsInv, NEW k \in Calls, UNCHANGED student \/ UpdateRow(k) \/ Move(k)
  PROVE  /\ student' \in [Pupils -> Student \cup {NoStudent}]
         /\ \A s \in Pupils : /\ Present(s)' <=> Present(s)
                              /\ Present(s) => student'[s].number = student[s].number
<1>0. Formed(call[k]) /\ student \in [Pupils -> Student \cup {NoStudent}]
  BY DEF TypeOK, PupilsInv
<1>1. CASE UNCHANGED student
  BY <1>0, <1>1 DEF Present
<1>2. ASSUME NEW s \in Pupils, Present(s), NEW c \in Classes
      PROVE  /\ [student[s] EXCEPT !.class = c] \in Student
             /\ [student[s] EXCEPT !.class = c].number = student[s].number
             /\ [student[s] EXCEPT !.archived = TRUE] \in Student
             /\ [student[s] EXCEPT !.archived = TRUE].number = student[s].number
  <2>1. student[s] \in Student
    BY <1>0, <1>2 DEF Present
  <2> QED BY <2>1 DEF Student
<1>3. CASE UpdateRow(k)
  <2>1. call[k].pc = "update row" /\ call[k].op \in {"edit", "update"}
    BY <1>0, <1>3, CallFields DEF UpdateRow, At, Formed, Placed
  <2>2. Pupil(k) \in Pupils /\ Present(Pupil(k))
    <3>1. call[k].pupils # {} /\ ~Entering(call[k])
      BY <1>0, <2>1 DEF Formed, Carried, Entering
    <3> QED BY <1>0, <3>1, PupilIs DEF PupilsInv
  <2>3. CASE call[k].class = NoClass
    BY <1>0, <1>3, <2>3 DEF UpdateRow, Present
  <2>4. CASE call[k].class # NoClass
    <3>1. call[k].class \in Classes
      BY <2>4, CallFields
    <3>2. student' = [student EXCEPT ![Pupil(k)].class = call[k].class]
      BY <1>3, <2>4 DEF UpdateRow
    <3>3. PICK row : row = [student[Pupil(k)] EXCEPT !.class = call[k].class]
      OBVIOUS
    <3>4. row \in Student /\ row.number = student[Pupil(k)].number
      BY <1>2, <2>2, <3>1, <3>3
    <3>5. student' = [student EXCEPT ![Pupil(k)] = row]
      BY <3>2, <3>3
    <3> QED BY <1>0, <2>2, <3>4, <3>5, NotAStudent DEF Present
  <2> QED BY <2>3, <2>4
<1>4. CASE Move(k)
  <2>1. call[k].pc = "move"
    BY <1>4 DEF Move, At
  <2>2. \A s \in call[k].pupils : s \in Pupils /\ Present(s)
    <3>1. ~Entering(call[k])
      BY <1>0, <2>1 DEF Formed, Placed, Entering
    <3> QED BY <3>1, CallFields DEF PupilsInv
  <2>3. ASSUME NEW s \in Pupils
        PROVE  \/ student'[s] = student[s]
               \/ /\ Present(s) /\ student'[s] \in Student
                  /\ student'[s].number = student[s].number
    <3>1. CASE s \notin call[k].pupils
      BY <1>4, <3>1 DEF Move
    <3>2. CASE s \in call[k].pupils /\ call[k].class = NoClass
      <4>1. student'[s] = [student[s] EXCEPT !.archived = TRUE]
        BY <1>4, <3>2 DEF Move
      <4>2. PICK c \in Classes : TRUE
        BY <1>0, <2>2, <3>2 DEF Present, Student
      <4> QED BY <1>2, <2>2, <3>2, <4>1, <4>2
    <3>3. CASE s \in call[k].pupils /\ call[k].class # NoClass
      <4>1. student'[s] = [student[s] EXCEPT !.class = call[k].class]
        BY <1>4, <3>3 DEF Move
      <4>2. call[k].class \in Classes
        BY <3>3, CallFields
      <4> QED BY <1>2, <2>2, <3>3, <4>1, <4>2
    <3> QED BY <3>1, <3>2, <3>3
  <2>4. student' \in [Pupils -> Student \cup {NoStudent}]
    <3>1. \A s \in Pupils : student'[s] \in Student \cup {NoStudent}
      BY <1>0, <2>3
    <3>2. student' = [s \in Pupils |-> student'[s]]
      BY <1>4 DEF Move
    <3> QED BY <3>1, <3>2
  <2> QED BY <2>3, <2>4, NotAStudent DEF Present
<1> QED BY <1>1, <1>3, <1>4

(* A commit makes the rows of its pupils, numbered one after another from  *)
(* where the lock found the counter.                                       *)
LEMMA CommitRows ==
  ASSUME TypeOK, PupilsInv, NEW k \in Calls, Commit(k)
  PROVE  /\ call[k].op = "create" /\ call[k].pc = "commit" /\ Holds(k)
         /\ call[k].pupils \subseteq Pupils /\ \A s \in call[k].pupils : ~Present(s)
         /\ student' \in [Pupils -> Student \cup {NoStudent}]
         /\ Cardinality(call[k].pupils) \in Nat \ {0}
         /\ lastSequence' = call[k].start + Cardinality(call[k].pupils) - 1
         /\ lastSequence' \in Nat
         /\ \A s \in Pupils : Present(s)' <=> Present(s) \/ s \in call[k].pupils
         /\ \E new \in Bijection(call[k].pupils, call[k].start .. lastSequence') :
              \A s \in Pupils : IF s \in call[k].pupils
                                THEN student'[s].number = new[s]
                                       /\ new[s] \in call[k].start .. lastSequence'
                                ELSE student'[s] = student[s]
<1>1. Formed(call[k]) /\ call[k].pc = "commit"
  BY DEF PupilsInv, Commit, At
<1>2. call[k].op = "create" /\ Holds(k) /\ call[k].class \in Classes
  <2>1. call[k].op = "create"
    BY <1>1, CallFields DEF Formed, Placed
  <2> QED BY <1>1, <2>1 DEF Formed, Carried, Entering, Holds
<1>3. call[k].pupils \subseteq Pupils /\ call[k].pupils # {}
  BY <1>1, <1>2, CallFields DEF Formed, Carried
<1>4. \A s \in call[k].pupils : ~Present(s)
  BY <1>1, <1>2 DEF PupilsInv, Entering
<1>5. Cardinality(call[k].pupils) \in Nat \ {0}
  <2>1. IsFiniteSet(call[k].pupils)
    BY <1>3, StudentsAssumption, FS_Subset
  <2> QED BY <1>3, <2>1, FS_CardinalityType, FS_EmptySet
<1>6. lastSequence' = call[k].start + Cardinality(call[k].pupils) - 1
  BY DEF Commit
<1>7. call[k].start \in Nat \ {0}
  BY <1>2, CallFields DEF Holds
<1>8. lastSequence' \in Nat
  BY <1>5, <1>6, <1>7
<1>9. PICK new \in Bijection(call[k].pupils, call[k].start .. lastSequence') :
        student' = [s \in Pupils |->
          IF s \in call[k].pupils
          THEN [class |-> call[k].class, archived |-> FALSE, number |-> new[s]]
          ELSE student[s]]
  BY <1>6 DEF Commit
<1>10. \A s \in call[k].pupils : new[s] \in call[k].start .. lastSequence'
  BY <1>9 DEF Bijection, Injection
<1>11. ASSUME NEW s \in Pupils
       PROVE  IF s \in call[k].pupils
              THEN /\ student'[s] \in Student /\ student'[s].number = new[s]
                   /\ new[s] \in call[k].start .. lastSequence'
              ELSE student'[s] = student[s]
  <2>1. CASE s \in call[k].pupils
    <3>1. student'[s] = [class |-> call[k].class, archived |-> FALSE, number |-> new[s]]
      BY <1>9, <2>1
    <3>2. new[s] \in Nat
      BY <1>7, <1>8, <1>10, <2>1
    <3> QED BY <1>2, <1>10, <2>1, <3>1, <3>2 DEF Student
  <2>2. CASE s \notin call[k].pupils
    BY <1>9, <2>2
  <2> QED BY <2>1, <2>2
<1>12. student' \in [Pupils -> Student \cup {NoStudent}]
  <2>1. \A s \in Pupils : student'[s] \in Student \cup {NoStudent}
    BY <1>11 DEF TypeOK
  <2>2. student' = [s \in Pupils |-> student'[s]]
    BY <1>9
  <2> QED BY <2>1, <2>2
<1>13. \A s \in Pupils : Present(s)' <=> Present(s) \/ s \in call[k].pupils
  BY <1>11, NotAStudent DEF Present
<1> QED BY <1>1, <1>2, <1>3, <1>4, <1>5, <1>6, <1>8, <1>9, <1>11, <1>12, <1>13

(* Who changes the students. *)
LEMMA BeginTables ==
  ASSUME NEW k \in Calls, Begin(k)
  PROVE  UNCHANGED <<tables, mailed, made, intended, released>>
BY DEF Begin, Begins, CreateStudent, BulkImportStudents, UpdateStudent, LinkParent,
       UnlinkParent, PromoteStudents

LEMMA AdvancesRows ==
  ASSUME NEW k \in Calls, Advances(k)
  PROVE  UNCHANGED student \/ UpdateRow(k)
BY DEF Advances, FindParent, FindLink, ReadLinks, Unlink, CountChildren, RemoveLink, MakeParent,
       SavePhone, AddLink, DeleteParent, tables

LEMMA FailsCall ==
  ASSUME TypeOK, NEW k \in Calls, Fails(k)
  PROVE  Frame(k) /\ call'[k] = Idle /\ UNCHANGED student
BY EndsIdle DEF Fails

(* Every step, by what it is to the records of calls and students.         *)
LEMMA NextKinds ==
  ASSUME NEW k \in Calls, Begin(k) \/ Step(k) \/ CutOff(k)
  PROVE  \/ Begin(k) \/ TakeNumbers(k) \/ Commit(k) \/ SendMails(k) \/ Finish(k) \/ Move(k)
         \/ Advances(k) \/ (Busy(k) /\ Fails(k))
BY StepKinds DEF CutOff

(* Pupils are entered by one call each and stay, whatever step is taken. *)
LEMMA PupilsKept ==
  ASSUME TypeOK, PupilsInv, NEW k \in Calls, Begin(k) \/ Step(k) \/ CutOff(k)
  PROVE  PupilsInv'
<1>0. Formed(call[k]) /\ \A j \in Calls : call[j].pupils \subseteq Pupils
  BY CallFields DEF PupilsInv
<1>1. CASE Begin(k)
  <2>1. \A s \in Pupils : Present(s)' <=> Present(s)
    BY <1>1, BeginTables, RowsStay DEF tables
  <2>2. /\ Frame(k) /\ Formed(call'[k]) /\ call'[k].start = 0
        /\ \/ /\ Entering(call'[k])
              /\ \A s \in call'[k].pupils : ~Present(s) /\ On(s) = {}
           \/ ~Entering(call'[k]) /\ \A s \in call'[k].pupils : Present(s)
    BY <1>1, BeginFormed
  <2>3. call'[k].pupils \subseteq Pupils
    BY <2>2 DEF Frame, Call
  <2>4. \A s \in call'[k].pupils : Present(s)' <=> ~Entering(call'[k])
    BY <2>1, <2>2, <2>3
  <2>5. \A j \in Calls \ {k} : \A s \in call[j].pupils : Present(s)' <=> Present(s)
    BY <1>0, <2>1
  <2>6. \A j \in Calls \ {k} : \A s \in call[j].pupils \cap call'[k].pupils :
          ~Entering(call[j]) /\ ~Entering(call'[k])
    BY <2>2 DEF PupilsInv, On
  <2> QED BY <2>2, <2>4, <2>5, <2>6, PupilsFollow
<1>2. CASE TakeNumbers(k)
  <2>1. \A s \in Pupils : Present(s)' <=> Present(s)
    BY <1>2, RowsStay DEF TakeNumbers, tables
  <2>2. /\ call[k].pc = "take numbers" /\ ~\E j \in Calls : Holds(j)
        /\ call[k].op = "create" /\ call[k].todo \in Seq(Emails)
        /\ call[k].drop = {} /\ call[k].fresh = {} /\ call[k].class \in Classes
        /\ lastSequence + 1 # 0
    <3>1. call[k].pc = "take numbers" /\ ~\E j \in Calls : Holds(j)
      BY <1>2 DEF TakeNumbers, At
    <3>2. call[k].op = "create" /\ call[k].todo \in Seq(Emails)
      BY <1>0, <3>1, CallFields DEF Formed, Placed
    <3>3. call[k].drop = {} /\ call[k].class \in Classes
      BY <1>0, <3>1, <3>2 DEF Formed, Carried, Dropping
    <3>4. call[k].fresh = {}
      BY <1>0, <3>1 DEF Formed, Listed
    <3>5. lastSequence + 1 # 0
      BY DEF TypeOK
    <3> QED BY <3>1, <3>2, <3>3, <3>4, <3>5
  <2>3. /\ Frame(k) /\ Same(call[k], call'[k])
        /\ call'[k].todo = call[k].todo /\ call'[k].drop = {} /\ call'[k].fresh = {}
        /\ call'[k].start = lastSequence + 1
        /\ call'[k].pc = Onward(k, call[k].todo, {})
    BY <1>2, <2>2, TakeNumbersCall
  <2>4. \/ call'[k].pc = "find parent" /\ call'[k].todo # <<>>
        \/ call'[k].pc = "commit" /\ call'[k].todo = <<>>
    BY <2>2, <2>3 DEF Onward
  <2>5. Formed(call'[k])
    <3>1. call'[k].op = "create"
      BY <2>2, <2>3 DEF Same
    <3>2. Placed(call'[k])
      BY <2>4, <3>1 DEF Placed
    <3>3. Carried(call'[k])
      BY <1>0, <2>2, <2>3, <2>4, <3>1 DEF Formed, Carried, Linking, Dropping, Entering, Same
    <3>4. Listed(call'[k])
      BY <1>0, <2>3, <2>4, <3>1 DEF Formed, Listed, Linking, Dropping, Same
    <3> QED BY <3>2, <3>3, <3>4 DEF Formed
  <2>6. Entering(call[k]) /\ Entering(call'[k]) /\ call'[k].pupils = call[k].pupils
    BY <2>2, <2>3, <2>4 DEF Entering, Same
  <2>7. \A s \in call'[k].pupils : Present(s)' <=> ~Entering(call'[k])
    BY <1>0, <2>1, <2>6 DEF PupilsInv
  <2>8. \A j \in Calls \ {k} : \A s \in call[j].pupils : Present(s)' <=> Present(s)
    BY <1>0, <2>1
  <2>9. \A j \in Calls \ {k} : \A s \in call[j].pupils \cap call'[k].pupils :
          ~Entering(call[j]) /\ ~Entering(call'[k])
    BY <2>6 DEF PupilsInv
  <2> QED BY <2>2, <2>3, <2>5, <2>7, <2>8, <2>9, PupilsFollow
<1>3. CASE Commit(k)
  <2>1. /\ Frame(k) /\ \A s \in Pupils : Present(s)' <=> Present(s) \/ s \in call[k].pupils
        /\ Entering(call[k]) /\ call[k].op = "create" /\ call[k].pc = "commit"
    BY <1>3, CommitCall, CommitRows DEF Entering
  <2>2. \A j \in Calls \ {k} : \A s \in call[j].pupils : s \notin call[k].pupils
    BY <2>1 DEF PupilsInv
  <2>3. \A j \in Calls \ {k} : \A s \in call[j].pupils : Present(s)' <=> Present(s)
    BY <1>0, <2>1, <2>2
  <2>4. CASE call[k].fresh = {}
    <3>1. call'[k] = Idle
      BY <1>3, <2>4, CommitCall
    <3> QED BY <2>1, <2>3, <3>1, IdleFormed, IdleFields, PupilsFollow
  <2>5. CASE call[k].fresh # {}
    <3>1. /\ Same(call[k], call'[k]) /\ call'[k].todo = call[k].todo
          /\ call'[k].drop = call[k].drop /\ call'[k].fresh = call[k].fresh
          /\ call'[k].start = 0 /\ call'[k].pc = "mail"
      BY <1>3, <2>5, CommitCall
    <3>2. call'[k].op = "create" /\ call'[k].pupils = call[k].pupils /\ ~Entering(call'[k])
      BY <2>1, <3>1 DEF Same, Entering
    <3>3. Formed(call'[k])
      <4>1. Placed(call'[k])
        BY <3>1, <3>2 DEF Placed
      <4>2. Carried(call'[k])
        BY <1>0, <2>1, <3>1, <3>2 DEF Formed, Carried, Linking, Dropping, Entering, Same
      <4>3. Listed(call'[k])
        BY <1>0, <2>1, <3>1, <3>2 DEF Formed, Listed, Linking, Dropping, Same
      <4> QED BY <4>1, <4>2, <4>3 DEF Formed
    <3>4. \A s \in call'[k].pupils : Present(s)' <=> ~Entering(call'[k])
      BY <1>0, <2>1, <3>2
    <3>5. \A j \in Calls \ {k} : \A s \in call[j].pupils \cap call'[k].pupils :
            ~Entering(call[j]) /\ ~Entering(call'[k])
      BY <2>2, <3>2
    <3> QED BY <2>1, <2>3, <3>1, <3>3, <3>4, <3>5, PupilsFollow
  <2> QED BY <2>4, <2>5
<1>4. CASE call'[k] = Idle /\ Frame(k) /\ \A s \in Pupils : Present(s)' <=> Present(s)
  <2>1. \A j \in Calls \ {k} : \A s \in call[j].pupils : Present(s)' <=> Present(s)
    BY <1>0, <1>4
  <2> QED BY <1>4, <2>1, IdleFormed, IdleFields, PupilsFollow
<1>5. CASE SendMails(k)
  <2>1. \A s \in Pupils : Present(s)' <=> Present(s)
    BY <1>5, RowsStay DEF SendMails, tables
  <2>2. CASE call[k].op = "create"
    BY <1>4, <1>5, <2>1, <2>2, SendMailsCall
  <2>3. CASE call[k].op # "create"
    <3>1. /\ Frame(k) /\ Same(call[k], call'[k])
          /\ call'[k].todo = call[k].todo /\ call'[k].drop = call[k].drop
          /\ call'[k].fresh = call[k].fresh /\ call'[k].start = call[k].start
          /\ call'[k].pc = "finish"
      BY <1>5, <2>3, SendMailsCall
    <3>2. call[k].pc = "mail" /\ call[k].op = "update"
      BY <1>0, <1>5, <2>3, CallFields DEF SendMails, At, Formed, Placed
    <3>3. call'[k].op = "update" /\ call'[k].pupils = call[k].pupils
      BY <3>1, <3>2 DEF Same
    <3>4. ~Entering(call[k]) /\ ~Entering(call'[k])
      BY <3>2, <3>3 DEF Entering
    <3>5. Formed(call'[k])
      <4>1. Placed(call'[k])
        BY <3>1, <3>3 DEF Placed
      <4>2. Carried(call'[k])
        BY <1>0, <3>1, <3>2, <3>3 DEF Formed, Carried, Linking, Dropping, Entering, Same
      <4>3. Listed(call'[k])
        BY <1>0, <3>1, <3>2, <3>3 DEF Formed, Listed, Linking, Dropping, Same
      <4> QED BY <4>1, <4>2, <4>3 DEF Formed
    <3>6. \A s \in call'[k].pupils : Present(s)' <=> ~Entering(call'[k])
      BY <1>0, <2>1, <3>3, <3>4 DEF PupilsInv
    <3>7. \A j \in Calls \ {k} : \A s \in call[j].pupils : Present(s)' <=> Present(s)
      BY <1>0, <2>1
    <3>8. \A j \in Calls \ {k} : \A s \in call[j].pupils \cap call'[k].pupils :
            ~Entering(call[j]) /\ ~Entering(call'[k])
      BY <3>3, <3>4 DEF PupilsInv
    <3>9. call'[k].start = 0
      BY <1>0, <3>1, <3>2 DEF Formed, Carried, Entering
    <3> QED BY <3>1, <3>5, <3>6, <3>7, <3>8, <3>9, PupilsFollow
  <2> QED BY <2>2, <2>3
<1>6. CASE Finish(k)
  BY <1>4, <1>6, RowsStay, EndsIdle DEF Finish, tables
<1>7. CASE Move(k)
  BY <1>4, <1>7, RowsStay, EndsIdle DEF Move
<1>8. CASE Fails(k)
  BY <1>4, <1>8, RowsStay, FailsCall
<1>9. CASE Advances(k)
  <2>1. \A s \in Pupils : Present(s)' <=> Present(s)
    BY <1>9, RowsStay, AdvancesRows
  <2>2. /\ Frame(k) /\ Same(call[k], call'[k]) /\ call'[k].start = call[k].start
        /\ Formed(call'[k]) /\ call[k].pc \notin {"idle", "take numbers", "mail"}
        /\ (call[k].op = "create" => call'[k].pc \notin {"take numbers", "mail"})
    BY <1>0, <1>9, AdvancesFormed
  <2>3. call'[k].pupils = call[k].pupils /\ (Entering(call'[k]) <=> Entering(call[k]))
    BY <2>2 DEF Same, Entering
  <2>4. \A s \in call'[k].pupils : Present(s)' <=> ~Entering(call'[k])
    BY <1>0, <2>1, <2>3 DEF PupilsInv
  <2>5. \A j \in Calls \ {k} : \A s \in call[j].pupils : Present(s)' <=> Present(s)
    BY <1>0, <2>1
  <2>6. \A j \in Calls \ {k} : \A s \in call[j].pupils \cap call'[k].pupils :
          ~Entering(call[j]) /\ ~Entering(call'[k])
    BY <2>3 DEF PupilsInv
  <2>7. call'[k].start # 0 => \A j \in Calls \ {k} : ~Holds(j)
    BY <2>2 DEF PupilsInv, Holds
  <2> QED BY <2>2, <2>4, <2>5, <2>6, <2>7, PupilsFollow
<1> QED BY <1>1, <1>2, <1>3, <1>5, <1>6, <1>7, <1>8, <1>9, NextKinds

-----------------------------------------------------------------------------
(* The keys, what transactions keep to themselves, and what calls know.    *)

(* The call may go on to link or unlink an account it has known, or one it *)
(* sees.                                                                   *)
Learns(c, d) ==
  Knows(d) =>
    \/ Knows(c) /\ d.parent = c.parent /\ Mail(d) = Mail(c) /\ d.pc # "save phone"
    \/ /\ d.parent \in UserIds /\ user[d.parent] # NoUser /\ user[d.parent].email = Mail(d)
       /\ d.pc = "save phone" => d.found.email = Mail(d)

(* It refers to accounts given out and not kept from it.                   *)
Refers(k, d) ==
  /\ d.parent <= lastUser /\ d.fresh \subseteq call[k].fresh
  /\ \A l \in d.drop : l.parent <= lastUser
  /\ \A j \in Calls \ {k} : Holds(j) =>
       \A i \in call[j].fresh : d.parent # i /\ \A l \in d.drop : l.parent # i
  /\ d.start # 0 => d.fresh = {} \/ (Holds(k) /\ d.pupils = call[k].pupils)

(* A step that leaves accounts and links alone.                            *)
LEMMA QuietKeepsBase ==
  ASSUME Base, NEW k \in Calls, Frame(k), UNCHANGED <<user, lastUser, links>>,
         Learns(call[k], call'[k]), Refers(k, call'[k]),
         \A l \in links : Present(l.pupil) => Present(l.pupil)',
         Holds(k) => \/ \A s \in call[k].pupils : Present(s)'
                     \/ Holds(k)' /\ call'[k].pupils = call[k].pupils
  PROVE  KeysInv' /\ SecretInv' /\ KnowledgeInv'
<1>1. KeysInv'
  <2>1. ASSUME NEW l \in links, ~Present(l.pupil)'
        PROVE  \E j \in Calls : Holds(j)' /\ l.pupil \in call'[j].pupils
    <3>1. PICK j \in Calls : Holds(j) /\ l.pupil \in call[j].pupils
      BY <2>1 DEF Base, KeysInv
    <3>2. CASE j = k
      BY <2>1, <3>1, <3>2
    <3>3. CASE j # k
      BY <3>1, <3>3 DEF Frame, Holds
    <3> QED BY <3>2, <3>3
  <2>2. ASSUME NEW j \in Calls
        PROVE  /\ call'[j].parent <= lastUser
               /\ \A i \in call'[j].fresh : i <= lastUser
               /\ \A l \in call'[j].drop : l.parent <= lastUser
    BY DEF Base, KeysInv, Refers, Frame
  <2> QED BY <2>1, <2>2 DEF Base, KeysInv
<1>2. SecretInv'
  <2> SUFFICES ASSUME NEW j \in Calls, NEW i \in call'[j].fresh, Holds(j)'
               PROVE  /\ \A l \in links : l.parent = i => l.pupil \in call'[j].pupils
                      /\ \A m \in Calls \ {j} : call'[m].parent # i
                                                /\ \A l \in call'[m].drop : l.parent # i
    BY DEF SecretInv
  <2>1. CASE j = k
    <3>1. Holds(k) /\ i \in call[k].fresh /\ call'[k].pupils = call[k].pupils
      BY <2>1 DEF Refers, Holds
    <3> QED BY <2>1, <3>1 DEF Base, SecretInv, Frame
  <2>2. CASE j # k
    <3>1. call'[j] = call[j] /\ Holds(j) /\ i \in call[j].fresh
      BY <2>2 DEF Frame, Holds
    <3>2. ASSUME NEW m \in Calls \ {j}
          PROVE  call'[m].parent # i /\ \A l \in call'[m].drop : l.parent # i
      <4>1. CASE m = k
        BY <2>2, <3>1, <4>1 DEF Refers
      <4>2. CASE m # k
        BY <3>1, <4>2 DEF Base, SecretInv, Frame
      <4> QED BY <4>1, <4>2
    <3> QED BY <3>1, <3>2 DEF Base, SecretInv
  <2> QED BY <2>1, <2>2
<1>3. KnowledgeInv'
  <2>1. ASSUME NEW j \in Calls
        PROVE  /\ Knows(call'[j]) /\ user[call'[j].parent] # NoUser =>
                    user[call'[j].parent].email = Mail(call'[j])
               /\ call'[j].pc = "save phone" => call'[j].found.email = Mail(call'[j])
    <3>1. CASE j # k
      BY <3>1 DEF Base, KnowledgeInv, Frame
    <3>2. CASE j = k
      <4>1. call'[k].pc = "save phone" => Knows(call'[k])
        BY DEF Knows, Linking
      <4> QED BY <3>2, <4>1 DEF Base, KnowledgeInv, Learns
    <3> QED BY <3>1, <3>2
  <2>2. ASSUME NEW j \in Calls \ {k}, Knows(call[j]), Knows(call'[k]),
               call[j].parent = call'[k].parent
        PROVE  Mail(call[j]) = Mail(call'[k])
    <3>1. CASE Knows(call[k]) /\ call'[k].parent = call[k].parent
                 /\ Mail(call'[k]) = Mail(call[k])
      BY <2>2, <3>1 DEF Base, KnowledgeInv
    <3>2. CASE user[call'[k].parent] # NoUser
                 /\ user[call'[k].parent].email = Mail(call'[k])
      BY <2>2, <3>2 DEF Base, KnowledgeInv
    <3> QED BY <2>2, <3>1, <3>2 DEF Learns
  <2>3. ASSUME NEW i \in Calls, NEW j \in Calls, Knows(call'[i]), Knows(call'[j]),
               call'[i].parent = call'[j].parent
        PROVE  Mail(call'[i]) = Mail(call'[j])
    <3>1. CASE i = j
      BY <3>1
    <3>2. CASE i # j /\ i # k /\ j # k
      <4>1. call'[i] = call[i] /\ call'[j] = call[j]
        BY <3>2 DEF Frame
      <4>2. Knows(call[i]) /\ Knows(call[j]) /\ call[i].parent = call[j].parent
        BY <2>3, <4>1
      <4>3. Mail(call[i]) = Mail(call[j])
        BY <4>2 DEF Base, KnowledgeInv
      <4> QED BY <4>1, <4>3
    <3>3. CASE i # k /\ j = k
      <4>1. call'[i] = call[i]
        BY <3>3 DEF Frame
      <4> QED BY <2>2, <2>3, <3>3, <4>1
    <3>4. CASE i = k /\ j # k
      <4>1. call'[j] = call[j]
        BY <3>4 DEF Frame
      <4> QED BY <2>2, <2>3, <3>4, <4>1
    <3> QED BY <3>1, <3>2, <3>3, <3>4
  <2>4. \A j \in Calls : /\ Knows(call[j])' <=> Knows(call'[j])
                         /\ Mail(call[j])' = Mail(call'[j])
    BY DEF Knows, Mail, Linking
  <2> QED BY <2>1, <2>3, <2>4 DEF KnowledgeInv
<1> QED BY <1>1, <1>2, <1>3

(* A creation holds the lock from its numbers to its commit. *)
LEMMA HoldsEntering ==
  ASSUME PupilsInv, NEW k \in Calls
  PROVE  /\ Holds(k) <=> Entering(call[k]) /\ call[k].pc # "take numbers"
         /\ Entering(call[k]) <=> call[k].op = "create" /\ call[k].pc # "mail"
BY DEF PupilsInv, Formed, Carried, Holds, Entering

(* What a query sees and what a committed link refers to is nobody's       *)
(* secret.                                                                 *)
LEMMA SeenIsOpen ==
  ASSUME Base, NEW k \in Calls, NEW p \in UsersSeen(k)
  PROVE  /\ p \in UserIds /\ user[p] \in User /\ user[p] # NoUser /\ p <= lastUser
         /\ \A j \in Calls \ {k} : Holds(j) => p \notin call[j].fresh
<1>1. p \in UserIds /\ user[p] # NoUser /\ \A j \in Calls \ {k} : Holds(j) => p \notin call[j].fresh
  BY DEF UsersSeen
<1>2. p <= lastUser
  <2>1. lastUser \in Nat /\ p \in Nat
    BY <1>1, StudentsAssumption DEF Base, TypeOK, UserIds
  <2> QED BY <1>1, <2>1 DEF Base, KeysInv
<1> QED BY <1>1, <1>2 DEF Base, TypeOK

LEMMA LinkIsOpen ==
  ASSUME Base, NEW l \in links, Present(l.pupil)
  PROVE  /\ l.parent \in UserIds /\ user[l.parent] \in User /\ user[l.parent] # NoUser
         /\ l.parent <= lastUser /\ l.pupil \in Pupils
         /\ \A j \in Calls : Holds(j) => l.parent \notin call[j].fresh
<1>1. l.parent \in UserIds /\ user[l.parent] # NoUser /\ l.pupil \in Pupils
  BY DEF Base, TypeOK, Link
<1>2. l.parent <= lastUser
  <2>1. lastUser \in Nat /\ l.parent \in Nat
    BY <1>1, StudentsAssumption DEF Base, TypeOK, UserIds
  <2> QED BY <1>1, <2>1 DEF Base, KeysInv
<1>3. ASSUME NEW j \in Calls, Holds(j), l.parent \in call[j].fresh PROVE FALSE
  <2>1. l.pupil \in call[j].pupils
    BY <1>3 DEF Base, SecretInv
  <2>2. Entering(call[j])
    BY <1>3, HoldsEntering DEF Base
  <2> QED BY <2>1, <2>2 DEF Base, PupilsInv
<1> QED BY <1>1, <1>2, <1>3 DEF Base, TypeOK

(* A step that looks nothing up knows no more than before. *)
LEMMA RefersStill ==
  ASSUME Base, NEW k \in Calls, NEW d, d.parent = call[k].parent,
         d.drop \subseteq call[k].drop, d.fresh \subseteq call[k].fresh,
         d.start # 0 => d.fresh = {} \/ (Holds(k) /\ d.pupils = call[k].pupils)
  PROVE  Refers(k, d)
BY DEF Base, KeysInv, SecretInv, Refers

(* A call that begins keeps the keys, the secrets and the knowledge. *)
LEMMA BeginKeeps ==
  ASSUME Base, NEW k \in Calls, Begin(k)
  PROVE  KeysInv' /\ SecretInv' /\ KnowledgeInv'
<1>1. ~Holds(k)
  <2>1. Idle.pc = "idle" /\ ~Busy(k)
    BY IdleFields DEF Begin, Begins, CreateStudent, BulkImportStudents, UpdateStudent, LinkParent,
       UnlinkParent, PromoteStudents
  <2>2. call[k].op = "none"
    BY <2>1 DEF Base, PupilsInv, Formed, Placed, Busy
  <2> QED BY <2>2, HoldsEntering DEF Base
<1>2. UNCHANGED <<student, user, lastUser, links>>
  BY BeginTables DEF tables
<1>3. Frame(k) /\ call'[k].start = 0
  BY BeginFormed DEF Base
<1>4. \A l \in links : Present(l.pupil) => Present(l.pupil)'
  BY <1>2 DEF Present
<1>5. 0 <= lastUser /\ TypeOK
  BY StudentsAssumption DEF Base, TypeOK
<1>6. ASSUME call'[k].drop = {}, call'[k].fresh = {}, call'[k].parent = 0
      PROVE  Refers(k, call'[k])
  BY <1>3, <1>5, <1>6, CallFields DEF Refers, UserIds
<1>7. ASSUME NEW s \in Pupils, NEW c \in EntryClasses, NEW list \in GuardianLists,
             CreateStudent(k, s, c, list)
      PROVE  Refers(k, call'[k]) /\ Learns(call[k], call'[k])
  BY <1>5, <1>6, <1>7, CreateStudentCall DEF Fresh, Learns, Knows, Linking
<1>8. ASSUME NEW S \in SUBSET Pupils, NEW c \in EntryClasses, BulkImportStudents(k, S, c)
      PROVE  Refers(k, call'[k]) /\ Learns(call[k], call'[k])
  BY <1>5, <1>6, <1>8, BulkImportCall DEF Fresh, Learns, Knows, Linking
<1>9. ASSUME NEW s \in Pupils, NEW e \in Edits, UpdateStudent(k, s, e[1], e[2])
      PROVE  Refers(k, call'[k]) /\ Learns(call[k], call'[k])
  BY <1>5, <1>6, <1>9, UpdateStudentCall DEF Fresh, Learns, Knows, Linking
<1>10. ASSUME NEW S \in SUBSET Pupils, NEW c \in Classes, NEW d \in Classes \cup {NoClass},
              PromoteStudents(k, S, c, d)
       PROVE  Refers(k, call'[k]) /\ Learns(call[k], call'[k])
  BY <1>5, <1>6, <1>10, PromoteStudentsCall DEF Fresh, Learns, Knows, Linking
<1>11. ASSUME NEW s \in Pupils, NEW p \in UserIds, LinkParent(k, s, p)
       PROVE  Refers(k, call'[k]) /\ Learns(call[k], call'[k])
  <2>1. /\ call'[k].parent = p /\ call'[k].found = user[p] /\ call'[k].op = "link"
        /\ call'[k].pc = "add link" /\ call'[k].drop = {} /\ call'[k].fresh = {}
    BY <1>5, <1>11, LinkParentCall DEF Fresh
  <2>2. /\ user[p] # NoUser /\ p <= lastUser
        /\ \A j \in Calls \ {k} : Holds(j) => p \notin call[j].fresh
    BY <1>11, SeenIsOpen DEF LinkParent
  <2>3. Refers(k, call'[k])
    BY <1>3, <2>1, <2>2 DEF Refers
  <2> QED BY <2>1, <2>2, <2>3 DEF Learns, Mail
<1>12. ASSUME NEW l \in links, UnlinkParent(k, l)
       PROVE  Refers(k, call'[k]) /\ Learns(call[k], call'[k])
  <2>1. /\ call'[k].parent = l.parent /\ call'[k].found = user[l.parent]
        /\ call'[k].op = "unlink" /\ call'[k].pc = "remove link" /\ call'[k].drop = {l}
        /\ call'[k].fresh = {} /\ l.parent \in UserIds
    BY <1>5, <1>12, UnlinkParentCall
  <2>2. /\ user[l.parent] # NoUser /\ l.parent <= lastUser
        /\ \A j \in Calls : Holds(j) => l.parent \notin call[j].fresh
    BY <1>12, LinkIsOpen DEF UnlinkParent
  <2>3. Refers(k, call'[k])
    BY <1>3, <2>1, <2>2 DEF Refers
  <2> QED BY <2>1, <2>2, <2>3 DEF Learns, Mail
<1>13. Refers(k, call'[k]) /\ Learns(call[k], call'[k])
  BY <1>7, <1>8, <1>9, <1>10, <1>11, <1>12 DEF Begin
<1> QED BY <1>1, <1>2, <1>3, <1>4, <1>13, QuietKeepsBase

(* The call is over, or will be; it links nobody any more.                 *)
LEMMA LastKeeps ==
  ASSUME Base, NEW k \in Calls,
         TakeNumbers(k) \/ Commit(k) \/ SendMails(k) \/ Finish(k) \/ Move(k)
  PROVE  KeysInv' /\ SecretInv' /\ KnowledgeInv'
<1>0. TypeOK /\ PupilsInv /\ Formed(call[k]) /\ 0 <= lastUser /\ links \subseteq Link
  BY StudentsAssumption DEF Base, TypeOK, PupilsInv
<1>1. ASSUME call'[k] = Idle PROVE Refers(k, call'[k]) /\ Learns(call[k], call'[k])
  BY <1>0, <1>1, IdleFields, CallFields DEF Refers, Learns, Knows, Linking, UserIds
<1>2. \A l \in links : Present(l.pupil) => Present(l.pupil)'
  <2>1. CASE ~Commit(k)
    <3>1. UNCHANGED student \/ Move(k)
      BY <2>1 DEF TakeNumbers, SendMails, Finish, tables
    <3> QED BY <1>0, <3>1, RowsStay DEF Link
  <2>2. CASE Commit(k)
    BY <1>0, <2>2, CommitRows DEF Link
  <2> QED BY <2>1, <2>2
<1>3. CASE TakeNumbers(k)
  <2>1. /\ Frame(k) /\ UNCHANGED <<user, lastUser, links>> /\ ~Holds(k)
        /\ call[k].pc = "take numbers"
    BY <1>0, <1>3, TakeNumbersCall DEF TakeNumbers, At, tables
  <2>2. call[k].fresh = {}
    BY <1>0, <2>1 DEF Formed, Listed
  <2>3. /\ call'[k].parent = call[k].parent /\ call'[k].drop = call[k].drop
        /\ call'[k].fresh = {} /\ call'[k].pc = Onward(k, call[k].todo, {})
    BY <1>0, <1>3, <2>2, TakeNumbersCall
  <2>4. Refers(k, call'[k])
    BY <2>3, RefersStill
  <2>5. Learns(call[k], call'[k])
    <3>1. call'[k].pc \in {"find parent", "commit", "mail", "finish"}
      BY <2>3, OnwardTyped
    <3> QED BY <3>1 DEF Learns, Knows, Linking
  <2> QED BY <1>2, <2>1, <2>4, <2>5, QuietKeepsBase
<1>4. CASE Commit(k)
  <2>1. Frame(k) /\ UNCHANGED <<user, lastUser, links>>
    BY <1>0, <1>4, CommitCall DEF Commit
  <2>2. \A s \in call[k].pupils : Present(s)'
    BY <1>0, <1>4, CommitRows
  <2>3. Refers(k, call'[k]) /\ Learns(call[k], call'[k])
    <3>1. CASE call[k].fresh = {}
      BY <1>0, <1>1, <1>4, <3>1, CommitCall
    <3>2. CASE call[k].fresh # {}
      <4>1. /\ call'[k].parent = call[k].parent /\ call'[k].drop = call[k].drop
            /\ call'[k].fresh = call[k].fresh /\ call'[k].start = 0 /\ call'[k].pc = "mail"
        BY <1>0, <1>4, <3>2, CommitCall
      <4>2. Refers(k, call'[k])
        BY <4>1, RefersStill
      <4> QED BY <4>1, <4>2 DEF Learns, Knows, Linking
    <3> QED BY <3>1, <3>2
  <2> QED BY <1>2, <2>1, <2>2, <2>3, QuietKeepsBase
<1>5. CASE SendMails(k)
  <2>1. Frame(k) /\ UNCHANGED <<user, lastUser, links>> /\ ~Holds(k)
    <3>1. call[k].pc = "mail"
      BY <1>5 DEF SendMails, At
    <3> QED BY <1>0, <1>5, <3>1, SendMailsCall, HoldsEntering DEF SendMails, tables
  <2>2. Refers(k, call'[k]) /\ Learns(call[k], call'[k])
    <3>1. CASE call[k].op = "create"
      BY <1>0, <1>1, <1>5, <3>1, SendMailsCall
    <3>2. CASE call[k].op # "create"
      <4>1. /\ call'[k].parent = call[k].parent /\ call'[k].drop = call[k].drop
            /\ call'[k].fresh = call[k].fresh /\ call'[k].start = call[k].start
            /\ call'[k].pc = "finish"
        BY <1>0, <1>5, <3>2, SendMailsCall
      <4>2. Refers(k, call'[k])
        BY <2>1, <4>1, RefersStill DEF Holds
      <4> QED BY <4>1, <4>2 DEF Learns, Knows, Linking
    <3> QED BY <3>1, <3>2
  <2> QED BY <1>2, <2>1, <2>2, QuietKeepsBase
<1>6. CASE Finish(k) \/ Move(k)
  <2>1. Frame(k) /\ call'[k] = Idle /\ UNCHANGED <<user, lastUser, links>>
    BY <1>0, <1>6, EndsIdle DEF Finish, Move, tables
  <2>2. ~Holds(k)
    <3>1. call[k].pc \in {"finish", "move"}
      BY <1>6 DEF Finish, Move, At
    <3>2. call[k].op # "create"
      BY <1>0, <3>1 DEF Formed, Placed
    <3> QED BY <1>0, <3>2, HoldsEntering
  <2> QED BY <1>1, <1>2, <2>1, <2>2, QuietKeepsBase
<1> QED BY <1>3, <1>4, <1>5, <1>6

(* It looks something up. *)
LEMMA LookKeeps ==
  ASSUME Base, NEW k \in Calls,
         FindParent(k) \/ FindLink(k) \/ UpdateRow(k) \/ ReadLinks(k) \/ CountChildren(k)
  PROVE  KeysInv' /\ SecretInv' /\ KnowledgeInv'
<1>0. TypeOK /\ PupilsInv /\ Formed(call[k]) /\ links \subseteq Link
  BY DEF Base, TypeOK, PupilsInv
<1>1. Advances(k)
  BY DEF Advances
<1>2. Frame(k) /\ Same(call[k], call'[k]) /\ call'[k].start = call[k].start
  BY <1>0, <1>1, AdvancesFormed
<1>3. UNCHANGED <<user, lastUser, links>>
  BY DEF FindParent, FindLink, UpdateRow, ReadLinks, CountChildren, tables
<1>4. \A l \in links : Present(l.pupil) => Present(l.pupil)'
  BY <1>0, <1>1, AdvancesRows, RowsStay DEF Link
<1>5. Holds(k) => Holds(k)' /\ call'[k].pupils = call[k].pupils
  BY <1>2 DEF Holds, Same
<1>6. ASSUME call'[k].parent = call[k].parent, call'[k].drop = call[k].drop,
             call'[k].fresh = call[k].fresh
      PROVE  Refers(k, call'[k])
  BY <1>2, <1>6, RefersStill DEF Holds, Same
<1>7. Refers(k, call'[k]) /\ Learns(call[k], call'[k])
  <2>1. CASE FindParent(k)
    <3>1. /\ call'[k].todo = call[k].todo /\ call'[k].drop = call[k].drop
          /\ call'[k].fresh = call[k].fresh
          /\ \/ /\ call'[k].pc = "make parent" /\ call'[k].parent = call[k].parent
             \/ /\ call'[k].pc \in {"find link", "save phone"}
                /\ call'[k].parent \in Matches(k)
                /\ call'[k].found = user[call'[k].parent]
      BY <1>0, <2>1, FindParentCall
    <3>2. CASE call'[k].pc = "make parent" /\ call'[k].parent = call[k].parent
      BY <1>6, <3>1, <3>2 DEF Learns, Knows, Linking
    <3>3. CASE /\ call'[k].pc \in {"find link", "save phone"}
               /\ call'[k].parent \in Matches(k)
               /\ call'[k].found = user[call'[k].parent]
      <4>1. /\ call'[k].parent \in UsersSeen(k)
            /\ user[call'[k].parent].email = Head(call'[k].todo)
        BY <3>1, <3>3 DEF Matches, Email
      <4>2. /\ call'[k].parent \in UserIds /\ user[call'[k].parent] # NoUser
            /\ call'[k].parent <= lastUser
            /\ \A j \in Calls \ {k} : Holds(j) => call'[k].parent \notin call[j].fresh
        BY <4>1, SeenIsOpen
      <4>3. Refers(k, call'[k])
        <5>1. /\ \A l \in call[k].drop : l.parent <= lastUser
              /\ \A j \in Calls \ {k} : Holds(j) =>
                   \A i \in call[j].fresh : \A l \in call[k].drop : l.parent # i
          BY DEF Base, KeysInv, SecretInv
        <5> QED BY <1>2, <3>1, <4>2, <5>1 DEF Refers, Holds, Same
      <4>4. call'[k].op \in {"create", "update"}
        <5>1. call[k].pc = "find parent"
          BY <2>1 DEF FindParent, At
        <5> QED BY <1>0, <1>2, <5>1, CallFields DEF Formed, Placed, Same
      <4> QED BY <3>3, <4>1, <4>2, <4>3, <4>4 DEF Learns, Mail
    <3> QED BY <3>1, <3>2, <3>3
  <2>2. CASE FindLink(k)
    <3>0. call[k].pc = "find link" /\ call[k].todo # <<>>
      BY <1>0, <2>2 DEF FindLink, At, Formed, Listed, Linking
    <3>1. /\ call'[k].drop = call[k].drop /\ call'[k].fresh = call[k].fresh
          /\ call'[k].parent = call[k].parent
          /\ \/ call'[k].pc = Onward(k, Tail(call[k].todo), call[k].fresh)
             \/ call'[k].pc = "add link" /\ call'[k].todo = call[k].todo
      BY <1>0, <2>2, <3>0, FindLinkCall
    <3>2. call[k].op \in {"create", "update"}
      BY <1>0, <3>0, CallFields DEF Formed, Placed
    <3>3. Knows(call'[k]) => call'[k].pc = "add link" /\ call'[k].todo = call[k].todo
      BY <3>1, OnwardTyped DEF Knows, Linking
    <3>4. Knows(call[k])
      BY <3>0 DEF Knows, Linking
    <3>5. call'[k].todo = call[k].todo => Mail(call'[k]) = Mail(call[k])
      BY <1>2, <3>2 DEF Mail, Same
    <3> QED BY <1>6, <3>1, <3>3, <3>4, <3>5 DEF Learns
  <2>3. CASE UpdateRow(k)
    BY <1>0, <1>6, <2>3, UpdateRowCall DEF Learns, Knows, Linking
  <2>4. CASE ReadLinks(k)
    <3>1. call[k].pc = "read links" /\ call[k].op = "update"
      BY <1>0, <2>4, CallFields DEF ReadLinks, At, Formed, Placed
    <3>2. /\ call'[k].drop = Dropped(Pupil(k), call[k].list)
          /\ call'[k].parent = call[k].parent /\ call'[k].fresh = call[k].fresh
          /\ call'[k].pc = AfterDrop(k, call'[k].drop)
      BY <1>0, <2>4, ReadLinksCall
    <3>3. Present(Pupil(k)) /\ ~Holds(k)
      <4>1. ~Entering(call[k]) /\ call[k].pupils # {}
        BY <1>0, <3>1 DEF Entering, Formed, Carried
      <4> QED BY <1>0, <4>1, PupilIs, HoldsEntering DEF PupilsInv
    <3>4. \A l \in call'[k].drop : l \in links /\ Present(l.pupil)
      BY <3>2, <3>3 DEF Dropped
    <3>5. /\ call[k].parent <= lastUser
          /\ \A j \in Calls \ {k} : Holds(j) => \A i \in call[j].fresh : call[k].parent # i
      BY DEF Base, KeysInv, SecretInv
    <3>6. Refers(k, call'[k])
      BY <1>2, <3>2, <3>3, <3>4, <3>5, LinkIsOpen DEF Refers, Holds
    <3>7. call'[k].pc \in {"unlink", "find parent", "commit", "mail", "finish"}
      BY <3>2, AfterDropTyped
    <3> QED BY <3>6, <3>7 DEF Learns, Knows, Linking
  <2>5. CASE CountChildren(k)
    <3>1. /\ call'[k].drop = call[k].drop
          /\ call'[k].parent = call[k].parent /\ call'[k].fresh = call[k].fresh
          /\ call'[k].pc = IF Children(call[k].parent) = {} THEN "delete parent"
                           ELSE AfterDrop(k, call[k].drop)
      BY <1>0, <2>5, CountChildrenCall
    <3>2. call'[k].pc \in {"delete parent", "unlink", "find parent", "commit", "mail", "finish"}
      BY <3>1, AfterDropTyped
    <3> QED BY <1>6, <3>1, <3>2 DEF Learns, Knows, Linking
  <2> QED BY <2>1, <2>2, <2>3, <2>4, <2>5
<1> QED BY <1>2, <1>3, <1>4, <1>5, <1>7, QuietKeepsBase

-----------------------------------------------------------------------------
(* Type correctness.                                                       *)

(* TypeOK, table by table. *)
LEMMA CallsTyped ==
  ASSUME TypeOK, PupilsInv, NEW k \in Calls, Begin(k) \/ Step(k) \/ CutOff(k)
  PROVE  Frame(k)
<1>1. Formed(call[k])
  BY DEF PupilsInv
<1> QED BY <1>1, NextKinds, BeginFormed, TakeNumbersCall, CommitCall, SendMailsCall, EndsIdle,
           AdvancesFormed, FailsCall DEF Finish, Move

LEMMA RowsTyped ==
  ASSUME TypeOK, PupilsInv, NEW k \in Calls, Begin(k) \/ Step(k) \/ CutOff(k)
  PROVE  student' \in [Pupils -> Student \cup {NoStudent}] /\ lastSequence' \in Nat
<1>1. CASE Commit(k)
  BY <1>1, CommitRows
<1>2. CASE ~Commit(k)
  <2>1. UNCHANGED student \/ UpdateRow(k) \/ Move(k)
    BY <1>2, NextKinds, BeginTables, AdvancesRows, FailsCall
    DEF TakeNumbers, SendMails, Finish, tables
  <2>2. UNCHANGED lastSequence
    BY <1>2, NextKinds, BeginTables
    DEF TakeNumbers, SendMails, Finish, Move, Fails, Advances, FindParent, FindLink, UpdateRow,
        ReadLinks, Unlink, CountChildren, RemoveLink, MakeParent, SavePhone, AddLink,
        DeleteParent, tables
  <2> QED BY <2>1, <2>2, RowsStay DEF TypeOK
<1> QED BY <1>1, <1>2

(* A new link is between a pupil and an account that are there.            *)
LEMMA AddLinkTyped ==
  ASSUME TypeOK, NEW k \in Calls, Formed(call[k]), AddLink(k),
         ~(Linked(Pupil(k), call[k].parent) \/ user[call[k].parent] = NoUser)
  PROVE  /\ lastLink' = lastLink + 1 /\ lastLink' \in 0 .. MaxLinks
         /\ call[k].parent \in UserIds /\ Pupil(k) \in call[k].pupils /\ Pupil(k) \in Pupils
         /\ \E new \in Link : /\ new.pupil = Pupil(k) /\ new.parent = call[k].parent
                              /\ links' = links \cup {new}
<1>1. call[k].pc = "add link" /\ call[k].op # "none"
  BY CallFields DEF AddLink, At, Formed, Placed
<1>2. call[k].pupils # {} /\ call[k].parent \in UserIds
  BY <1>1 DEF Formed, Carried
<1>3. lastLink' = lastLink + 1 /\ lastLink < MaxLinks
  BY DEF AddLink
<1>4. lastLink' \in Nat /\ lastLink' \in 0 .. MaxLinks
  BY <1>3, StudentsAssumption DEF TypeOK
<1>5. PICK s, p, id : s = Pupil(k) /\ p = call[k].parent /\ id = lastLink + 1
  OBVIOUS
<1>6. PICK new : new = [id |-> id, pupil |-> s, parent |-> p]
  OBVIOUS
<1>7. s \in Pupils /\ p \in UserIds /\ id \in Nat /\ s \in call[k].pupils
  BY <1>2, <1>3, <1>4, <1>5, PupilIs
<1>8. new \in Link /\ new.pupil = s /\ new.parent = p
  BY <1>6, <1>7 DEF Link
<1>9. links' = links \cup {new}
  BY <1>5, <1>6 DEF AddLink
<1> QED BY <1>3, <1>4, <1>5, <1>7, <1>8, <1>9

LEMMA SavePhoneTyped ==
  ASSUME TypeOK, NEW k \in Calls, Formed(call[k]), SavePhone(k),
         ~(user[call[k].parent] = NoUser /\ EmailTaken(k, Email(k)))
  PROVE  /\ call[k].parent \in UserIds /\ call[k].found \in User /\ call[k].op = "update"
         /\ call[k].pc = "save phone"
         /\ user' = [user EXCEPT ![call[k].parent] = call[k].found]
         /\ user' \in [UserIds -> User \cup {NoUser}]
<1>1. call[k].pc = "save phone"
  BY DEF SavePhone, At
<1>2. call[k].parent \in UserIds /\ call[k].found \in User /\ call[k].op = "update"
  BY <1>1, CallFields DEF Formed, Placed, Carried, Linking
<1>3. user' = [user EXCEPT ![call[k].parent] = call[k].found]
  BY DEF SavePhone
<1> QED BY <1>1, <1>2, <1>3 DEF TypeOK

LEMMA MakeParentTyped ==
  ASSUME TypeOK, NEW k \in Calls, Formed(call[k]), MakeParent(k), ~EmailTaken(k, Email(k))
  PROVE  /\ lastUser' = lastUser + 1 /\ lastUser' \in UserIds /\ lastUser' \in 0 .. MaxUsers
         /\ Email(k) \in Emails /\ call[k].pc = "make parent"
         /\ call[k].op \in {"create", "update"}
         /\ \E new \in User : /\ new.email = Email(k)
                              /\ user' = [user EXCEPT ![lastUser + 1] = new]
         /\ user' \in [UserIds -> User \cup {NoUser}]
<1>1. call[k].pc = "make parent" /\ call[k].todo \in Seq(Emails)
  BY CallFields DEF MakeParent, At
<1>2. call[k].todo # <<>> /\ call[k].op \in {"create", "update"}
  BY <1>1, CallFields DEF Formed, Placed, Listed
<1>3. Email(k) \in Emails
  BY <1>1, <1>2, InListOf DEF Email
<1>4. lastUser' = lastUser + 1 /\ lastUser + 1 \in UserIds
  BY MakeParentCall DEF MakeParent
<1>5. PICK email : email = Email(k)
  OBVIOUS
<1>6. PICK new : new = [email |-> email, role |-> "PARENT", here |-> TRUE]
  OBVIOUS
<1>7. new \in User /\ new.email = email
  BY <1>3, <1>5, <1>6 DEF User
<1>8. user' = [user EXCEPT ![lastUser + 1] = new]
  BY <1>5, <1>6 DEF MakeParent
<1>9. lastUser' \in 0 .. MaxUsers
  BY <1>4 DEF UserIds
<1> QED BY <1>1, <1>2, <1>3, <1>4, <1>5, <1>7, <1>8, <1>9 DEF TypeOK

(* Nobody's account goes while links refer to it.                          *)
LEMMA DeleteParentTyped ==
  ASSUME TypeOK, NEW k \in Calls, DeleteParent(k),
         ~(Children(call[k].parent) # {} \/ call[k].parent \in Kept)
  PROVE  /\ user' = [user EXCEPT ![call[k].parent] = NoUser]
         /\ user' \in [UserIds -> User \cup {NoUser}]
         /\ \A l \in links : l.parent # call[k].parent
<1>1. user' = [user EXCEPT ![call[k].parent] = NoUser]
  BY DEF DeleteParent
<1>2. ASSUME NEW l \in links, l.parent = call[k].parent PROVE FALSE
  <2>1. ~Present(l.pupil)
    BY <1>2 DEF Children
  <2> QED BY <1>2, <2>1 DEF DeleteParent, Awaited
<1> QED BY <1>1, <1>2 DEF TypeOK

(* What is rolled back is nobody else's.                                   *)
LEMMA FailsTyped ==
  ASSUME Base, NEW k \in Calls, Fails(k)
  PROVE  /\ user' \in [UserIds -> User \cup {NoUser}]
         /\ links' \subseteq links /\ \A l \in links' : user'[l.parent] # NoUser
         /\ disturbed' \in [Pupils -> BOOLEAN]
         /\ \A i \in UserIds : user'[i] = user[i] \/ user'[i] = NoUser
<1> USE DEF Base, TypeOK
<1>1. CASE Holds(k)
  <2>1. /\ user' = [i \in UserIds |-> IF i \in call[k].fresh THEN NoUser ELSE user[i]]
        /\ links' = {l \in links : l.pupil \notin call[k].pupils}
    BY <1>1 DEF Fails
  <2>2. ASSUME NEW l \in links' PROVE user'[l.parent] # NoUser
    <3>1. l \in links /\ l.parent \in UserIds /\ user[l.parent] # NoUser
      BY <2>1 DEF Link
    <3>2. l.parent \notin call[k].fresh
      BY <1>1, <2>1, <3>1 DEF SecretInv
    <3> QED BY <2>1, <3>1, <3>2
  <2> QED BY <2>1, <2>2 DEF Fails
<1>2. CASE ~Holds(k)
  BY <1>2 DEF Fails
<1> QED BY <1>1, <1>2

LEMMA AccountsTyped ==
  ASSUME Base, NEW k \in Calls, Begin(k) \/ Step(k) \/ CutOff(k)
  PROVE  /\ user' \in [UserIds -> User \cup {NoUser}] /\ lastUser' \in 0 .. MaxUsers
         /\ links' \subseteq Link /\ \A l \in links' : user'[l.parent] # NoUser
         /\ lastLink' \in 0 .. MaxLinks
<1>0. TypeOK /\ Formed(call[k])
  BY DEF Base, PupilsInv
<1>a. \A l \in links : l \in Link /\ l.parent \in UserIds /\ user[l.parent] # NoUser
  BY <1>0 DEF TypeOK, Link
<1>1. CASE UNCHANGED <<user, lastUser, links, lastLink>>
  BY <1>0, <1>1 DEF TypeOK
<1>2. CASE Fails(k)
  BY <1>0, <1>2, FailsTyped DEF Fails, TypeOK
<1>3. CASE MakeParent(k) /\ ~EmailTaken(k, Email(k))
  <2>1. UNCHANGED <<links, lastLink>>
    BY <1>3 DEF MakeParent
  <2>2. PICK new \in User : user' = [user EXCEPT ![lastUser + 1] = new]
    BY <1>0, <1>3, MakeParentTyped
  <2>3. user' \in [UserIds -> User \cup {NoUser}] /\ lastUser' \in 0 .. MaxUsers
    BY <1>0, <1>3, MakeParentTyped
  <2>4. \A i \in UserIds : user[i] # NoUser => user'[i] # NoUser
    BY <1>0, <2>2, NotAUser DEF TypeOK
  <2> QED BY <1>0, <1>a, <2>1, <2>3, <2>4 DEF TypeOK
<1>4. CASE SavePhone(k) /\ ~(user[call[k].parent] = NoUser /\ EmailTaken(k, Email(k)))
  <2>1. UNCHANGED <<lastUser, links, lastLink>>
    BY <1>4 DEF SavePhone
  <2>2. \A i \in UserIds : user[i] # NoUser => user'[i] # NoUser
    BY <1>0, <1>4, SavePhoneTyped, NotAUser DEF TypeOK
  <2> QED BY <1>0, <1>4, <1>a, <2>1, <2>2, SavePhoneTyped DEF TypeOK
<1>5. CASE AddLink(k) /\ ~(Linked(Pupil(k), call[k].parent) \/ user[call[k].parent] = NoUser)
  <2>1. UNCHANGED <<user, lastUser>>
    BY <1>5 DEF AddLink
  <2>2. /\ lastLink' \in 0 .. MaxLinks
        /\ \E new \in Link : new.parent = call[k].parent /\ links' = links \cup {new}
    BY <1>0, <1>5, AddLinkTyped
  <2> QED BY <1>0, <1>5, <1>a, <2>1, <2>2 DEF TypeOK
<1>6. CASE DeleteParent(k) /\ ~(Children(call[k].parent) # {} \/ call[k].parent \in Kept)
  <2>1. UNCHANGED <<lastUser, links, lastLink>>
    BY <1>6 DEF DeleteParent
  <2>2. \A l \in links : user'[l.parent] # NoUser
    BY <1>0, <1>6, <1>a, DeleteParentTyped DEF TypeOK
  <2> QED BY <1>0, <1>6, <1>a, <2>1, <2>2, DeleteParentTyped DEF TypeOK
<1>7. CASE Unlink(k) \/ RemoveLink(k)
  <2>1. UNCHANGED <<user, lastUser, lastLink>> /\ links' \subseteq links
    BY <1>7 DEF Unlink, RemoveLink
  <2> QED BY <1>0, <1>a, <2>1 DEF TypeOK
<1>8. CASE \/ Begin(k) \/ TakeNumbers(k) \/ Commit(k) \/ SendMails(k) \/ Finish(k) \/ Move(k)
           \/ FindParent(k) \/ FindLink(k) \/ UpdateRow(k) \/ ReadLinks(k) \/ CountChildren(k)
  <2>1. UNCHANGED <<user, lastUser, links, lastLink>>
    BY <1>8, BeginTables
    DEF TakeNumbers, Commit, SendMails, Finish, Move, FindParent, FindLink, UpdateRow,
        ReadLinks, CountChildren, tables
  <2> QED BY <1>1, <2>1
<1> QED BY <1>2, <1>3, <1>4, <1>5, <1>6, <1>7, <1>8, NextKinds DEF Advances

LEMMA HistoryTyped ==
  ASSUME Base, NEW k \in Calls, Begin(k) \/ Step(k) \/ CutOff(k)
  PROVE  /\ begun' \in 0 .. MaxCalls
         /\ mailed' \subseteq UserIds /\ made' \subseteq UserIds /\ released' \subseteq UserIds
         /\ intended' \in [Pupils -> SUBSET Emails]
         /\ disturbed' \in [Pupils -> BOOLEAN]
<1>0. TypeOK /\ Formed(call[k]) /\ call[k].fresh \subseteq UserIds
        /\ InList(call[k].list) \subseteq Emails
  BY CallFields, InListOf DEF Base, PupilsInv
<1>1. CASE UNCHANGED <<begun, history>>
  BY <1>0, <1>1 DEF TypeOK, history
<1>2. CASE Begin(k)
  <2>1. /\ UNCHANGED <<mailed, made, intended, released>>
        /\ begun < MaxCalls /\ begun' = begun + 1
        /\ disturbed' \in [Pupils -> BOOLEAN]
    <3>1. ASSUME NEW first, Begins(k, first)
          PROVE  /\ begun < MaxCalls /\ begun' = begun + 1
                 /\ disturbed' \in [Pupils -> BOOLEAN]
      BY <1>0, <3>1 DEF Begins, TypeOK
    <3> QED BY <1>2, <3>1, BeginTables
        DEF Begin, CreateStudent, BulkImportStudents, UpdateStudent, LinkParent, UnlinkParent,
            PromoteStudents
  <2> QED BY <1>0, <2>1, StudentsAssumption DEF TypeOK
<1>3. CASE Fails(k)
  BY <1>0, <1>3, FailsTyped DEF Fails, Ends, Goes, TypeOK
<1>4. CASE Commit(k)
  <2>1. /\ UNCHANGED <<begun, mailed, disturbed, released>> /\ made' = made \cup call[k].fresh
        /\ intended' = [s \in Pupils |-> IF s \in call[k].pupils THEN InList(call[k].list)
                                         ELSE intended[s]]
    BY <1>4 DEF Commit, Ends, Goes
  <2> QED BY <1>0, <2>1 DEF TypeOK
<1>5. CASE SendMails(k)
  <2>1. UNCHANGED <<begun, made, intended, disturbed, released>>
          /\ mailed' = mailed \cup call[k].fresh
    BY <1>5 DEF SendMails, Ends, Goes
  <2> QED BY <1>0, <2>1 DEF TypeOK
<1>6. CASE Finish(k)
  <2>1. /\ UNCHANGED <<begun, mailed, made, disturbed, released>>
        /\ intended' = [intended EXCEPT ![Pupil(k)] =
             CASE call[k].op = "update" -> InList(call[k].list)
               [] call[k].op = "link"   -> intended[Pupil(k)] \cup {call[k].found.email}
               [] call[k].op = "unlink" -> intended[Pupil(k)] \ {call[k].found.email}
               [] OTHER -> intended[Pupil(k)]]
    BY <1>6 DEF Finish, Ends, Goes
  <2>2. Pupil(k) \in Pupils
    <3>1. call[k].pc = "finish"
      BY <1>6 DEF Finish, At
    <3>2. call[k].pupils # {}
      BY <1>0, <3>1 DEF Formed, Placed, Carried
    <3> QED BY <1>0, <3>2, PupilIs
  <2>3. call[k].op = "link" => call[k].found.email \in Emails
    BY <1>0, NotAUser DEF Formed, Carried
  <2>4. intended' \in [Pupils -> SUBSET Emails]
    <3>1. PICK E : E = (CASE call[k].op = "update" -> InList(call[k].list)
               [] call[k].op = "link"   -> intended[Pupil(k)] \cup {call[k].found.email}
               [] call[k].op = "unlink" -> intended[Pupil(k)] \ {call[k].found.email}
               [] OTHER -> intended[Pupil(k)])
      OBVIOUS
    <3>2. intended[Pupil(k)] \subseteq Emails /\ intended \in [Pupils -> SUBSET Emails]
      BY <1>0, <2>2 DEF TypeOK
    <3>3. E \subseteq Emails
      BY <1>0, <2>3, <3>1, <3>2
    <3>4. intended' = [intended EXCEPT ![Pupil(k)] = E]
      BY <2>1, <3>1
    <3> QED BY <3>2, <3>3, <3>4
  <2> QED BY <1>0, <2>1, <2>4 DEF TypeOK
<1>7. CASE MakeParent(k) /\ ~EmailTaken(k, Email(k))
  <2>1. /\ UNCHANGED <<begun, mailed, intended, disturbed, released>>
        /\ made' \subseteq made \cup {lastUser + 1}
    BY <1>7 DEF MakeParent, Goes
  <2>2. lastUser + 1 \in UserIds
    BY <1>0, <1>7, MakeParentTyped
  <2> QED BY <1>0, <2>1, <2>2 DEF TypeOK
<1>8. CASE RemoveLink(k)
  <2>1. /\ UNCHANGED <<begun, mailed, made, intended, disturbed>>
        /\ released' = released \cup {call[k].parent} /\ call[k].pc = "remove link"
    BY <1>8 DEF RemoveLink, Goes, At
  <2>2. call[k].parent \in UserIds
    BY <1>0, <2>1 DEF Formed, Carried
  <2> QED BY <1>0, <2>1, <2>2 DEF TypeOK
<1>9. CASE \/ TakeNumbers(k) \/ Move(k) \/ FindParent(k) \/ FindLink(k) \/ UpdateRow(k)
           \/ ReadLinks(k) \/ CountChildren(k) \/ Unlink(k)
           \/ SavePhone(k) /\ ~(user[call[k].parent] = NoUser /\ EmailTaken(k, Email(k)))
           \/ AddLink(k) /\ ~(Linked(Pupil(k), call[k].parent) \/ user[call[k].parent] = NoUser)
           \/ DeleteParent(k) /\ ~(Children(call[k].parent) # {} \/ call[k].parent \in Kept)
  <2>1. UNCHANGED <<begun, history>>
    BY <1>9 DEF TakeNumbers, Move, FindParent, FindLink, UpdateRow, ReadLinks, CountChildren,
                Unlink, SavePhone, AddLink, DeleteParent, Goes, Ends, history
  <2> QED BY <1>1, <2>1
<1> QED BY <1>2, <1>3, <1>4, <1>5, <1>6, <1>7, <1>8, <1>9, NextKinds DEF Advances

LEMMA TypeKept ==
  ASSUME Base, NEW k \in Calls, Begin(k) \/ Step(k) \/ CutOff(k)
  PROVE  TypeOK'
BY CallsTyped, RowsTyped, AccountsTyped, HistoryTyped DEF Base, TypeOK, Frame

-----------------------------------------------------------------------------
(* The statements that write accounts and links keep the keys.             *)

(* What Base says of every row. *)
LEMMA BaseFields ==
  ASSUME Base
  PROVE  /\ TypeOK /\ PupilsInv /\ lastUser \in Nat
         /\ \A k \in Calls : Formed(call[k])
         /\ \A l \in links : /\ l \in Link /\ l.parent \in UserIds /\ l.pupil \in Pupils
                             /\ user[l.parent] # NoUser
         /\ \A i \in UserIds : i \in Nat /\ user[i] \in User \cup {NoUser}
BY StudentsAssumption DEF Base, TypeOK, PupilsInv, Link, UserIds

(* Links only go, accounts only go or come with the e-mail they are known  *)
(* by, and the call knows no more than before.                             *)
LEMMA WritesKeepBase ==
  ASSUME Base, NEW k \in Calls, Frame(k), UNCHANGED <<student, lastUser>>,
         links' \subseteq links, \A i \in UserIds : user'[i] = user[i] \/ user'[i] = NoUser,
         Knows(call'[k]) => /\ Knows(call[k]) /\ call'[k].parent = call[k].parent
                            /\ Mail(call'[k]) = Mail(call[k]) /\ call'[k].pc # "save phone",
         Refers(k, call'[k]),
         Holds(k) => \/ \A l \in links' : l.pupil \notin call[k].pupils
                     \/ Holds(k)' /\ call'[k].pupils = call[k].pupils
  PROVE  KeysInv' /\ SecretInv' /\ KnowledgeInv'
<1>1. KeysInv'
  <2>1. ASSUME NEW l \in links', ~Present(l.pupil)'
        PROVE  \E j \in Calls : Holds(j)' /\ l.pupil \in call'[j].pupils
    <3>0. ~Present(l.pupil) /\ l \in links
      BY <2>1 DEF Present
    <3>1. PICK j \in Calls : Holds(j) /\ l.pupil \in call[j].pupils
      BY <3>0 DEF Base, KeysInv
    <3>2. CASE j = k
      BY <2>1, <3>1, <3>2
    <3>3. CASE j # k
      BY <3>1, <3>3 DEF Frame, Holds
    <3> QED BY <3>2, <3>3
  <2>2. ASSUME NEW j \in Calls
        PROVE  /\ call'[j].parent <= lastUser
               /\ \A i \in call'[j].fresh : i <= lastUser
               /\ \A l \in call'[j].drop : l.parent <= lastUser
    BY DEF Base, KeysInv, Refers, Frame
  <2>3. \A i \in UserIds : i > lastUser => user'[i] = NoUser
    BY DEF Base, KeysInv
  <2>4. ASSUME NEW i \in UserIds, NEW j \in UserIds, user'[i] # NoUser, user'[j] # NoUser,
               user'[i].email = user'[j].email
        PROVE  i = j
    <3>1. user'[i] = user[i] /\ user'[j] = user[j]
      BY <2>4
    <3> QED BY <2>4, <3>1 DEF Base, KeysInv
  <2>5. ASSUME NEW l \in links', NEW m \in links', l.pupil = m.pupil, l.parent = m.parent
        PROVE  l = m
    BY <2>5 DEF Base, KeysInv
  <2> QED BY <2>1, <2>2, <2>3, <2>4, <2>5 DEF KeysInv
<1>2. SecretInv'
  <2> SUFFICES ASSUME NEW j \in Calls, NEW i \in call'[j].fresh, Holds(j)'
               PROVE  /\ \A l \in links' : l.parent = i => l.pupil \in call'[j].pupils
                      /\ \A m \in Calls \ {j} : call'[m].parent # i
                                                /\ \A l \in call'[m].drop : l.parent # i
    BY DEF SecretInv
  <2>1. CASE j = k
    <3>1. Holds(k) /\ i \in call[k].fresh /\ call'[k].pupils = call[k].pupils
      BY <2>1 DEF Refers, Holds
    <3> QED BY <2>1, <3>1 DEF Base, SecretInv, Frame
  <2>2. CASE j # k
    <3>1. call'[j] = call[j] /\ Holds(j) /\ i \in call[j].fresh
      BY <2>2 DEF Frame, Holds
    <3>2. ASSUME NEW m \in Calls \ {j}
          PROVE  call'[m].parent # i /\ \A l \in call'[m].drop : l.parent # i
      <4>1. CASE m = k
        BY <2>2, <3>1, <4>1 DEF Refers
      <4>2. CASE m # k
        BY <3>1, <4>2 DEF Base, SecretInv, Frame
      <4> QED BY <4>1, <4>2
    <3> QED BY <3>1, <3>2 DEF Base, SecretInv
  <2> QED BY <2>1, <2>2
<1>3. KnowledgeInv'
  <2>0. \A j \in Calls : call[j].parent \in UserIds \cup {0}
    BY BaseFields, CallFields
  <2>1. ASSUME NEW j \in Calls
        PROVE  Knows(call'[j]) => /\ Knows(call[j]) /\ call'[j].parent = call[j].parent
                                  /\ Mail(call'[j]) = Mail(call[j])
    BY DEF Frame
  <2>2. ASSUME NEW j \in Calls, Knows(call[j])
        PROVE  call[j].parent \in UserIds
    BY <2>2, BaseFields DEF Knows, Linking, Formed, Carried
  <2>3. ASSUME NEW j \in Calls, Knows(call'[j]), user'[call'[j].parent] # NoUser
        PROVE  user'[call'[j].parent].email = Mail(call'[j])
    <3>1. /\ Knows(call[j]) /\ call'[j].parent = call[j].parent /\ Mail(call'[j]) = Mail(call[j])
          /\ call[j].parent \in UserIds
      BY <2>1, <2>2, <2>3
    <3>2. user'[call[j].parent] = user[call[j].parent] /\ user[call[j].parent] # NoUser
      BY <2>3, <3>1
    <3>3. user[call[j].parent].email = Mail(call[j])
      BY <3>1, <3>2 DEF Base, KnowledgeInv
    <3> QED BY <3>1, <3>2, <3>3
  <2>4. ASSUME NEW j \in Calls, call'[j].pc = "save phone"
        PROVE  call'[j].found.email = Mail(call'[j])
    <3>1. j # k
      BY <2>4 DEF Knows, Linking
    <3> QED BY <2>4, <3>1 DEF Base, KnowledgeInv, Frame
  <2>5. ASSUME NEW i \in Calls, NEW j \in Calls, Knows(call'[i]), Knows(call'[j]),
               call'[i].parent = call'[j].parent
        PROVE  Mail(call'[i]) = Mail(call'[j])
    BY <2>1, <2>5 DEF Base, KnowledgeInv
  <2>6. \A j \in Calls : /\ Knows(call[j])' <=> Knows(call'[j])
                         /\ Mail(call[j])' = Mail(call'[j])
    BY DEF Knows, Mail, Linking
  <2> QED BY <2>3, <2>4, <2>5, <2>6 DEF KnowledgeInv
<1> QED BY <1>1, <1>2, <1>3

(* Rows that go, links that come and accounts that come keep the keys, the *)
(* secrets and the knowledge.                                              *)
LEMMA RemovalsKeep ==
  ASSUME Base, NEW k \in Calls,
         \/ Unlink(k) \/ RemoveLink(k) \/ Fails(k)
         \/ DeleteParent(k) /\ ~(Children(call[k].parent) # {} \/ call[k].parent \in Kept)
  PROVE  KeysInv' /\ SecretInv' /\ KnowledgeInv'
<1>0. TypeOK /\ PupilsInv /\ Formed(call[k]) /\ 0 <= lastUser
  BY BaseFields
<1>1. CASE Fails(k)
  <2>1. Frame(k) /\ call'[k] = Idle /\ UNCHANGED <<student, lastUser>>
    BY <1>0, <1>1, FailsCall DEF Fails
  <2>2. links' \subseteq links /\ \A i \in UserIds : user'[i] = user[i] \/ user'[i] = NoUser
    BY <1>1, FailsTyped
  <2>3. Refers(k, call'[k]) /\ ~Knows(call'[k])
    BY <1>0, <2>1, IdleFields, CallFields DEF Refers, Knows, Linking, UserIds
  <2>4. Holds(k) => \A l \in links' : l.pupil \notin call[k].pupils
    BY <1>1 DEF Fails
  <2> QED BY <2>1, <2>2, <2>3, <2>4, WritesKeepBase
<1>2. CASE Unlink(k)
  <2>1. PICK l \in call[k].drop :
          /\ links' = links \ {l}
          /\ Goes(k, [call[k] EXCEPT !.drop = call[k].drop \ {l}, !.parent = l.parent,
                                     !.pc = "count"])
    BY <1>2 DEF Unlink
  <2>2. UNCHANGED <<student, user, lastUser>> /\ call[k].pc = "unlink"
    BY <1>2 DEF Unlink, At
  <2>3. /\ Frame(k) /\ Same(call[k], call'[k]) /\ call'[k].drop = call[k].drop \ {l}
        /\ call'[k].parent = l.parent /\ call'[k].fresh = call[k].fresh
        /\ call'[k].start = call[k].start /\ call'[k].pc = "count"
    BY <1>0, <2>1, UnlinkCall
  <2>4. ~Knows(call'[k])
    BY <2>3 DEF Knows, Linking
  <2>5. ~Holds(k)
    BY <1>0, <2>2, HoldsEntering DEF Formed, Placed
  <2>6. Refers(k, call'[k])
    BY <2>3, <2>5 DEF Base, KeysInv, SecretInv, Refers, Holds
  <2> QED BY <2>1, <2>2, <2>3, <2>4, <2>5, <2>6, WritesKeepBase
<1>3. CASE RemoveLink(k)
  <2>1. /\ UNCHANGED <<student, user, lastUser>> /\ call[k].pc = "remove link"
        /\ links' \subseteq links
    BY <1>3 DEF RemoveLink, At
  <2>2. /\ Frame(k) /\ Same(call[k], call'[k]) /\ call'[k].drop = call[k].drop
        /\ call'[k].parent = call[k].parent /\ call'[k].fresh = call[k].fresh
        /\ call'[k].start = call[k].start /\ call'[k].pc = "finish"
    BY <1>0, <1>3, RemoveLinkCall
  <2>3. ~Knows(call'[k])
    BY <2>2 DEF Knows, Linking
  <2>4. ~Holds(k)
    BY <1>0, <2>1, HoldsEntering DEF Formed, Placed
  <2>5. Refers(k, call'[k])
    BY <2>2, <2>4, RefersStill DEF Holds
  <2> QED BY <2>1, <2>2, <2>3, <2>4, <2>5, WritesKeepBase
<1>4. CASE DeleteParent(k) /\ ~(Children(call[k].parent) # {} \/ call[k].parent \in Kept)
  <2>1. UNCHANGED <<student, lastUser, links>> /\ call[k].pc = "delete parent"
    BY <1>4 DEF DeleteParent, At
  <2>2. /\ Frame(k) /\ Same(call[k], call'[k]) /\ call'[k].drop = call[k].drop
        /\ call'[k].parent = call[k].parent /\ call'[k].fresh = call[k].fresh
        /\ call'[k].start = call[k].start /\ call'[k].pc = AfterDrop(k, call[k].drop)
    BY <1>0, <1>4, DeleteParentCall
  <2>3. ~Knows(call'[k])
    BY <2>2, AfterDropTyped DEF Knows, Linking
  <2>4. ~Holds(k)
    BY <1>0, <2>1, HoldsEntering DEF Formed, Placed
  <2>5. Refers(k, call'[k])
    BY <2>2, <2>4, RefersStill DEF Holds
  <2>6. \A i \in UserIds : user'[i] = user[i] \/ user'[i] = NoUser
    BY <1>0, <1>4, DeleteParentTyped DEF TypeOK
  <2> QED BY <2>1, <2>2, <2>3, <2>4, <2>5, <2>6, WritesKeepBase
<1> QED BY <1>1, <1>2, <1>3, <1>4

LEMMA AddLinkKeeps ==
  ASSUME Base, NEW k \in Calls, AddLink(k),
         ~(Linked(Pupil(k), call[k].parent) \/ user[call[k].parent] = NoUser)
  PROVE  KeysInv' /\ SecretInv' /\ KnowledgeInv'
<1>0. TypeOK /\ PupilsInv /\ Formed(call[k])
  BY BaseFields
<1>1. /\ call[k].parent \in UserIds /\ Pupil(k) \in call[k].pupils /\ Pupil(k) \in Pupils
      /\ \E new \in Link : /\ new.pupil = Pupil(k) /\ new.parent = call[k].parent
                           /\ links' = links \cup {new}
  BY <1>0, AddLinkTyped
<1>2. PICK new \in Link : /\ new.pupil = Pupil(k) /\ new.parent = call[k].parent
                          /\ links' = links \cup {new}
  BY <1>1
<1>3. /\ Frame(k) /\ Same(call[k], call'[k]) /\ call'[k].drop = call[k].drop
      /\ call'[k].fresh = call[k].fresh /\ call'[k].start = call[k].start
      /\ call'[k].parent = call[k].parent
      /\ call'[k].pc = Onward(k, call'[k].todo, call[k].fresh)
  BY <1>0, AddLinkCall
<1>4. UNCHANGED <<student, user, lastUser>> /\ call[k].pc = "add link"
  BY DEF AddLink, At
<1>5. call'[k].pupils = call[k].pupils /\ (Holds(k)' <=> Holds(k))
  BY <1>3 DEF Same, Holds
<1>6. ~Knows(call'[k])
  BY <1>3, OnwardTyped DEF Knows, Linking
<1>7. KeysInv'
  <2>1. ASSUME NEW l \in links', ~Present(l.pupil)'
        PROVE  \E j \in Calls : Holds(j)' /\ l.pupil \in call'[j].pupils
    <3>1. ~Present(l.pupil)
      BY <1>4, <2>1 DEF Present
    <3>2. CASE l \in links
      <4>1. PICK j \in Calls : Holds(j) /\ l.pupil \in call[j].pupils
        BY <3>1, <3>2 DEF Base, KeysInv
      <4>2. CASE j = k
        BY <1>5, <4>1, <4>2
      <4>3. CASE j # k
        BY <1>3, <4>1, <4>3 DEF Frame, Holds
      <4> QED BY <4>2, <4>3
    <3>3. CASE l = new
      <4>1. Entering(call[k])
        BY <1>0, <1>1, <1>2, <3>1, <3>3 DEF PupilsInv
      <4>2. Holds(k)
        BY <1>0, <1>4, <4>1, HoldsEntering
      <4> QED BY <1>1, <1>2, <1>5, <3>3, <4>2
    <3> QED BY <1>2, <2>1, <3>2, <3>3
  <2>2. ASSUME NEW l \in links', NEW m \in links', l.pupil = m.pupil, l.parent = m.parent
        PROVE  l = m
    <3>1. \A x \in links : ~(x.pupil = new.pupil /\ x.parent = new.parent)
      BY <1>2 DEF Linked
    <3> QED BY <1>2, <2>2, <3>1 DEF Base, KeysInv
  <2>3. ASSUME NEW j \in Calls
        PROVE  /\ call'[j].parent <= lastUser
               /\ \A i \in call'[j].fresh : i <= lastUser
               /\ \A l \in call'[j].drop : l.parent <= lastUser
    BY <1>3 DEF Base, KeysInv, Frame
  <2> QED BY <1>4, <2>1, <2>2, <2>3 DEF Base, KeysInv
<1>8. SecretInv'
  <2> SUFFICES ASSUME NEW j \in Calls, NEW i \in call'[j].fresh, Holds(j)'
               PROVE  /\ \A l \in links' : l.parent = i => l.pupil \in call'[j].pupils
                      /\ \A m \in Calls \ {j} : call'[m].parent # i
                                                /\ \A l \in call'[m].drop : l.parent # i
    BY DEF SecretInv
  <2>1. /\ i \in call[j].fresh /\ Holds(j) /\ call'[j].pupils = call[j].pupils
        /\ \A m \in Calls : call'[m].parent = call[m].parent /\ call'[m].drop = call[m].drop
    BY <1>3, <1>5 DEF Frame, Holds
  <2>2. new.parent = i => j = k
    BY <1>2, <2>1 DEF Base, SecretInv
  <2> QED BY <1>1, <1>2, <2>1, <2>2 DEF Base, SecretInv
<1>9. KnowledgeInv'
  <2>1. \A j \in Calls : /\ Knows(call[j])' <=> Knows(call'[j])
                         /\ Mail(call[j])' = Mail(call'[j])
    BY DEF Knows, Mail, Linking
  <2>2. ASSUME NEW j \in Calls, Knows(call'[j])
        PROVE  call'[j] = call[j] /\ Knows(call[j])
    BY <1>3, <1>6, <2>2 DEF Frame
  <2>3. ASSUME NEW j \in Calls, Knows(call'[j]), user'[call'[j].parent] # NoUser
        PROVE  user'[call'[j].parent].email = Mail(call'[j])
    BY <1>4, <2>2, <2>3 DEF Base, KnowledgeInv
  <2>4. ASSUME NEW j \in Calls, call'[j].pc = "save phone"
        PROVE  call'[j].found.email = Mail(call'[j])
    <3>1. Knows(call'[j])
      BY <2>4 DEF Knows, Linking
    <3> QED BY <2>2, <2>4, <3>1 DEF Base, KnowledgeInv
  <2>5. ASSUME NEW i \in Calls, NEW j \in Calls, Knows(call'[i]), Knows(call'[j]),
               call'[i].parent = call'[j].parent
        PROVE  Mail(call'[i]) = Mail(call'[j])
    <3>1. /\ call'[i] = call[i] /\ Knows(call[i])
          /\ call'[j] = call[j] /\ Knows(call[j])
      BY <2>2, <2>5
    <3>2. call[i].parent = call[j].parent
      BY <2>5, <3>1
    <3>3. Mail(call[i]) = Mail(call[j])
      BY <3>1, <3>2 DEF Base, KnowledgeInv
    <3> QED BY <3>1, <3>3
  <2> QED BY <2>1, <2>3, <2>4, <2>5 DEF KnowledgeInv
<1> QED BY <1>7, <1>8, <1>9

(* Priming a call primes what it knows. *)
LEMMA MailIs ==
  \A j \in Calls : Knows(call[j])' = Knows(call'[j]) /\ Mail(call[j])' = Mail(call'[j])
BY DEF Knows, Mail, Linking

(* An e-mail that no account has, seen or not, is free.                    *)
LEMMA FreeEmail ==
  ASSUME NEW k \in Calls, NEW email, ~EmailTaken(k, email), ~EmailAwaited(k, email)
  PROVE  \A i \in UserIds : user[i] # NoUser => user[i].email # email
BY DEF EmailTaken, EmailAwaited, UsersSeen

LEMMA MakeParentKeeps ==
  ASSUME Base, NEW k \in Calls, MakeParent(k), ~EmailTaken(k, Email(k))
  PROVE  KeysInv' /\ SecretInv' /\ KnowledgeInv'
<1>0. TypeOK /\ PupilsInv /\ Formed(call[k]) /\ lastUser \in Nat
  BY BaseFields
<1>1. /\ lastUser + 1 \in UserIds /\ lastUser' = lastUser + 1
      /\ call[k].op \in {"create", "update"}
      /\ \E new \in User : /\ new.email = Email(k)
                           /\ user' = [user EXCEPT ![lastUser + 1] = new]
  BY <1>0, MakeParentTyped, MakeParentCall
<1>2. PICK new \in User : /\ new.email = Email(k)
                          /\ user' = [user EXCEPT ![lastUser + 1] = new]
  BY <1>1
<1>3. /\ Frame(k) /\ Same(call[k], call'[k])
      /\ call'[k].todo = call[k].todo /\ call'[k].drop = call[k].drop
      /\ call'[k].start = call[k].start /\ call'[k].pc = "find link"
      /\ call'[k].parent = lastUser + 1 /\ call'[k].fresh = call[k].fresh \cup {lastUser + 1}
  BY <1>0, MakeParentCall
<1>4. PICK i : i = lastUser + 1
  OBVIOUS
<1>5. /\ i \in UserIds /\ i \in Nat /\ user[i] = NoUser /\ user'[i] = new /\ new # NoUser
      /\ \A j \in UserIds : j # i => user'[j] = user[j]
  <2>1. i \in UserIds /\ i \in Nat /\ i > lastUser
    BY <1>0, <1>1, <1>4
  <2>2. user[i] = NoUser
    BY <2>1 DEF Base, KeysInv
  <2> QED BY <1>0, <1>2, <1>4, <2>1, <2>2, NotAUser DEF TypeOK
<1>6. UNCHANGED <<student, links>>
  BY DEF MakeParent
<1>7. \A l \in links : l.parent # i /\ l.parent \in UserIds
  BY <1>5, BaseFields
<1>8. \A j \in Calls : /\ call[j].parent # i /\ \A p \in call[j].fresh : p # i
                       /\ \A l \in call[j].drop : l.parent # i
  <2>1. ~(i <= lastUser)
    BY <1>0, <1>4
  <2> QED BY <2>1 DEF Base, KeysInv
<1>9. \A j \in UserIds : user[j] # NoUser => user[j].email # new.email
  <2>1. ~EmailAwaited(k, Email(k))
    BY DEF MakeParent
  <2> QED BY <1>2, <2>1, FreeEmail
<1>10. call'[k].pupils = call[k].pupils /\ \A j \in Calls : Holds(j)' <=> Holds(j)
  BY <1>3 DEF Same, Holds, Frame
<1>a. /\ call'[k].parent = i /\ call'[k].fresh = call[k].fresh \cup {i}
      /\ call'[k].drop = call[k].drop /\ \A j \in Calls \ {k} : call'[j] = call[j]
  BY <1>3, <1>4 DEF Frame
<1>11. KeysInv'
  <2>1. ASSUME NEW l \in links', ~Present(l.pupil)'
        PROVE  \E j \in Calls : Holds(j)' /\ l.pupil \in call'[j].pupils
    <3>1. ~Present(l.pupil) /\ l \in links
      BY <1>6, <2>1 DEF Present
    <3>2. PICK j \in Calls : Holds(j) /\ l.pupil \in call[j].pupils
      BY <3>1 DEF Base, KeysInv
    <3> QED BY <1>3, <1>10, <3>2 DEF Frame
  <2>2. ASSUME NEW j \in Calls
        PROVE  /\ call'[j].parent <= lastUser'
               /\ \A p \in call'[j].fresh : p <= lastUser'
               /\ \A l \in call'[j].drop : l.parent <= lastUser'
    <3>1. /\ call[j].parent <= lastUser /\ call[j].parent \in Nat
          /\ \A p \in call[j].fresh : p <= lastUser /\ p \in Nat
          /\ \A l \in call[j].drop : l.parent <= lastUser /\ l.parent \in Nat
      BY <1>0, BaseFields, CallFields DEF Base, KeysInv, Link
    <3>2. CASE j # k
      <4>1. call'[j] = call[j]
        BY <1>3, <3>2 DEF Frame
      <4> QED BY <1>0, <1>1, <3>1, <4>1
    <3>3. CASE j = k
      <4>1. i <= lastUser' /\ lastUser' = lastUser + 1
        BY <1>0, <1>1, <1>4
      <4> QED BY <1>0, <1>a, <3>1, <3>3, <4>1
    <3> QED BY <3>2, <3>3
  <2>3. ASSUME NEW p \in UserIds, p > lastUser' PROVE user'[p] = NoUser
    <3>1. p > lastUser /\ p # i
      BY <1>0, <1>1, <1>4, <2>3, BaseFields
    <3> QED BY <1>5, <3>1 DEF Base, KeysInv
  <2>4. ASSUME NEW p \in UserIds, NEW q \in UserIds, user'[p] # NoUser, user'[q] # NoUser,
               user'[p].email = user'[q].email
        PROVE  p = q
    <3>1. CASE p # i /\ q # i
      BY <1>5, <2>4, <3>1 DEF Base, KeysInv
    <3>2. CASE p = i \/ q = i
      BY <1>5, <1>9, <2>4, <3>2
    <3> QED BY <3>1, <3>2
  <2>5. \A l, m \in links' : l.pupil = m.pupil /\ l.parent = m.parent => l = m
    BY <1>6 DEF Base, KeysInv
  <2> QED BY <2>1, <2>2, <2>3, <2>4, <2>5 DEF KeysInv
<1>12. SecretInv'
  <2> SUFFICES ASSUME NEW j \in Calls, NEW p \in call'[j].fresh, Holds(j)'
               PROVE  /\ \A l \in links' : l.parent = p => l.pupil \in call'[j].pupils
                      /\ \A m \in Calls \ {j} : call'[m].parent # p
                                                /\ \A l \in call'[m].drop : l.parent # p
    BY DEF SecretInv
  <2>1. /\ Holds(j) /\ call'[j].pupils = call[j].pupils
        /\ \A m \in Calls : call'[m].drop = call[m].drop
    BY <1>3, <1>10 DEF Frame
  <2>2. CASE p = i
    <3>1. j = k
      BY <1>3, <1>8, <2>2 DEF Frame
    <3> QED BY <1>3, <1>6, <1>7, <1>8, <2>1, <2>2, <3>1 DEF Frame
  <2>3. CASE p # i
    <3>1. p \in call[j].fresh
      BY <1>a, <2>3
    <3>2. ASSUME NEW m \in Calls \ {j} PROVE call'[m].parent # p
      <4>1. call[m].parent # p
        BY <2>1, <3>1 DEF Base, SecretInv
      <4> QED BY <1>a, <2>3, <4>1
    <3> QED BY <1>6, <2>1, <3>1, <3>2 DEF Base, SecretInv
  <2> QED BY <2>2, <2>3
<1>13. KnowledgeInv'
  <2>1. Mail(call'[k]) = Email(k) /\ call'[k].parent = i /\ call'[k].pc # "save phone"
    <3>1. call'[k].op \in {"create", "update"}
      BY <1>1, <1>3 DEF Same
    <3> QED BY <1>3, <1>4, <3>1 DEF Mail, Email
  <2>2. ASSUME NEW j \in Calls, j # k
        PROVE  call'[j] = call[j] /\ call[j].parent # i
    BY <1>3, <1>8, <2>2 DEF Frame
  <2>3. ASSUME NEW j \in Calls, Knows(call'[j]), user'[call'[j].parent] # NoUser
        PROVE  user'[call'[j].parent].email = Mail(call'[j])
    <3>1. CASE j = k
      BY <1>2, <1>5, <2>1, <3>1
    <3>2. CASE j # k
      <4>1. call'[j] = call[j] /\ Knows(call[j]) /\ call[j].parent # i
        BY <2>2, <2>3, <3>2
      <4>2. call[j].parent \in UserIds
        BY <4>1, BaseFields DEF Knows, Linking, Formed, Carried
      <4>3. user'[call[j].parent] = user[call[j].parent]
        BY <1>5, <4>1, <4>2
      <4> QED BY <2>3, <4>1, <4>3 DEF Base, KnowledgeInv
    <3> QED BY <3>1, <3>2
  <2>4. ASSUME NEW j \in Calls, call'[j].pc = "save phone"
        PROVE  call'[j].found.email = Mail(call'[j])
    BY <2>1, <2>2, <2>4 DEF Base, KnowledgeInv
  <2>5. ASSUME NEW j \in Calls, NEW m \in Calls, Knows(call'[j]), Knows(call'[m]),
               call'[j].parent = call'[m].parent
        PROVE  Mail(call'[j]) = Mail(call'[m])
    <3>1. CASE j = k \/ m = k
      BY <2>1, <2>2, <2>5, <3>1
    <3>2. CASE j # k /\ m # k
      <4>1. call'[j] = call[j] /\ call'[m] = call[m]
        BY <2>2, <3>2
      <4>2. Knows(call[j]) /\ Knows(call[m]) /\ call[j].parent = call[m].parent
        BY <2>5, <4>1
      <4>3. Mail(call[j]) = Mail(call[m])
        BY <4>2 DEF Base, KnowledgeInv
      <4> QED BY <4>1, <4>3
    <3> QED BY <3>1, <3>2
  <2> QED BY <2>3, <2>4, <2>5, MailIs DEF KnowledgeInv
<1> QED BY <1>11, <1>12, <1>13

(* An account saved again has the e-mail it had, or one that is free.      *)
LEMMA SavePhoneKeeps ==
  ASSUME Base, NEW k \in Calls, SavePhone(k),
         ~(user[call[k].parent] = NoUser /\ EmailTaken(k, Email(k)))
  PROVE  KeysInv' /\ SecretInv' /\ KnowledgeInv'
<1>0. TypeOK /\ PupilsInv /\ Formed(call[k]) /\ lastUser \in Nat
  BY BaseFields
<1>1. PICK i : i = call[k].parent
  OBVIOUS
<1>2. PICK found : found = call[k].found
  OBVIOUS
<1>3. /\ i \in UserIds /\ found \in User /\ found # NoUser /\ call[k].op = "update"
      /\ call[k].pc = "save phone" /\ user' = [user EXCEPT ![i] = found]
  BY <1>0, <1>1, <1>2, SavePhoneTyped, NotAUser
<1>4. user'[i] = found /\ \A j \in UserIds : j # i => user'[j] = user[j]
  BY <1>0, <1>3 DEF TypeOK
<1>5. /\ Frame(k) /\ Same(call[k], call'[k]) /\ call'[k].todo = call[k].todo
      /\ call'[k].drop = call[k].drop /\ call'[k].fresh = call[k].fresh
      /\ call'[k].start = call[k].start /\ call'[k].pc = "find link"
      /\ call'[k].parent = call[k].parent
  BY <1>0, SavePhoneCall
<1>6. UNCHANGED <<student, lastUser, links>>
  BY DEF SavePhone
<1>7. Knows(call[k]) /\ Mail(call[k]) = Email(k) /\ found.email = Email(k)
  <2>1. Knows(call[k]) /\ Mail(call[k]) = Email(k)
    BY <1>3 DEF Knows, Linking, Mail, Email
  <2> QED BY <1>2, <1>3, <2>1 DEF Base, KnowledgeInv
<1>8. \A j \in UserIds : user[j] # NoUser /\ user[j].email = found.email => j = i
  <2>1. CASE user[i] = NoUser
    <3>1. ~EmailTaken(k, Email(k)) /\ ~EmailAwaited(k, Email(k))
      BY <1>1, <2>1 DEF SavePhone
    <3> QED BY <1>7, <3>1, FreeEmail
  <2>2. CASE user[i] # NoUser
    <3>1. user[i].email = found.email
      BY <1>1, <1>7, <2>2 DEF Base, KnowledgeInv
    <3> QED BY <1>3, <2>2, <3>1 DEF Base, KeysInv
  <2> QED BY <2>1, <2>2
<1>9. i <= lastUser /\ i \in Nat
  BY <1>1, <1>3, BaseFields DEF Base, KeysInv
<1>10. call'[k].pupils = call[k].pupils /\ \A j \in Calls : Holds(j)' <=> Holds(j)
  BY <1>5 DEF Same, Holds, Frame
<1>11. \A j \in Calls : /\ call'[j].parent = call[j].parent /\ call'[j].drop = call[j].drop
                        /\ call'[j].fresh = call[j].fresh /\ call'[j].pupils = call[j].pupils
  BY <1>5, <1>10 DEF Frame
<1>12. KeysInv'
  <2>1. ASSUME NEW l \in links', ~Present(l.pupil)'
        PROVE  \E j \in Calls : Holds(j)' /\ l.pupil \in call'[j].pupils
    <3>1. ~Present(l.pupil) /\ l \in links
      BY <1>6, <2>1 DEF Present
    <3>2. PICK j \in Calls : Holds(j) /\ l.pupil \in call[j].pupils
      BY <3>1 DEF Base, KeysInv
    <3> QED BY <1>10, <1>11, <3>2
  <2>2. ASSUME NEW j \in Calls
        PROVE  /\ call'[j].parent <= lastUser
               /\ \A p \in call'[j].fresh : p <= lastUser
               /\ \A l \in call'[j].drop : l.parent <= lastUser
    BY <1>11 DEF Base, KeysInv
  <2>3. ASSUME NEW p \in UserIds, p > lastUser PROVE user'[p] = NoUser
    <3>1. p # i
      BY <1>0, <1>9, <2>3, BaseFields
    <3> QED BY <1>4, <2>3, <3>1 DEF Base, KeysInv
  <2>4. ASSUME NEW p \in UserIds, NEW q \in UserIds, user'[p] # NoUser, user'[q] # NoUser,
               user'[p].email = user'[q].email
        PROVE  p = q
    <3>1. CASE p # i /\ q # i
      BY <1>4, <2>4, <3>1 DEF Base, KeysInv
    <3>2. CASE p = i \/ q = i
      BY <1>4, <1>8, <2>4, <3>2
    <3> QED BY <3>1, <3>2
  <2>5. \A l, m \in links' : l.pupil = m.pupil /\ l.parent = m.parent => l = m
    BY <1>6 DEF Base, KeysInv
  <2> QED BY <1>6, <2>1, <2>2, <2>3, <2>4, <2>5 DEF KeysInv
<1>13. SecretInv'
  BY <1>6, <1>10, <1>11 DEF Base, SecretInv
<1>14. KnowledgeInv'
  <2>1. Mail(call'[k]) = Mail(call[k]) /\ call'[k].pc # "save phone"
    <3>1. call'[k].op = "update" /\ call'[k].todo = call[k].todo /\ call'[k].pc = "find link"
      BY <1>3, <1>5 DEF Same
    <3> QED BY <1>3, <3>1 DEF Mail
  <2>2. ASSUME NEW j \in Calls, Knows(call'[j])
        PROVE  /\ Knows(call[j]) /\ Mail(call'[j]) = Mail(call[j])
               /\ call'[j].parent = call[j].parent
    BY <1>5, <1>7, <1>11, <2>1, <2>2 DEF Frame
  <2>3. ASSUME NEW j \in Calls, Knows(call'[j]), user'[call'[j].parent] # NoUser
        PROVE  user'[call'[j].parent].email = Mail(call'[j])
    <3>1. CASE call[j].parent = i
      <4>1. Mail(call[j]) = Mail(call[k])
        BY <1>1, <1>7, <2>2, <2>3, <3>1 DEF Base, KnowledgeInv
      <4> QED BY <1>4, <1>7, <2>2, <2>3, <3>1, <4>1
    <3>2. CASE call[j].parent # i
      <4>1. call[j].parent \in UserIds
        BY <2>2, <2>3, BaseFields DEF Knows, Linking, Formed, Carried
      <4>2. user'[call[j].parent] = user[call[j].parent]
        BY <1>4, <3>2, <4>1
      <4>3. user[call[j].parent].email = Mail(call[j])
        BY <2>2, <2>3, <4>2 DEF Base, KnowledgeInv
      <4> QED BY <2>2, <2>3, <4>2, <4>3
    <3> QED BY <3>1, <3>2
  <2>4. ASSUME NEW j \in Calls, call'[j].pc = "save phone"
        PROVE  call'[j].found.email = Mail(call'[j])
    <3>1. call'[j] = call[j]
      BY <1>5, <2>1, <2>4 DEF Frame
    <3> QED BY <2>4, <3>1 DEF Base, KnowledgeInv
  <2>5. ASSUME NEW j \in Calls, NEW m \in Calls, Knows(call'[j]), Knows(call'[m]),
               call'[j].parent = call'[m].parent
        PROVE  Mail(call'[j]) = Mail(call'[m])
    <3>1. /\ Knows(call[j]) /\ Knows(call[m]) /\ call[j].parent = call[m].parent
          /\ Mail(call'[j]) = Mail(call[j]) /\ Mail(call'[m]) = Mail(call[m])
      BY <2>2, <2>5
    <3> QED BY <3>1 DEF Base, KnowledgeInv
  <2> QED BY <2>3, <2>4, <2>5, MailIs DEF KnowledgeInv
<1> QED BY <1>12, <1>13, <1>14

-----------------------------------------------------------------------------
(* The base is inductive.                                                  *)

(* Base holds at first and is kept. *)
LEMMA InitBase == Init => Base
<1> SUFFICES ASSUME Init PROVE Base
  OBVIOUS
<1>1. /\ \A k \in Calls : call[k] = Idle
      /\ \A k \in Calls : call[k].start = 0 /\ call[k].pupils = {} /\ call[k].drop = {}
                          /\ call[k].fresh = {} /\ call[k].parent = 0 /\ call[k].pc = "idle"
  BY IdleFields DEF Init
<1>2. Len(FirstUsers) \in 0 .. MaxUsers /\ DOMAIN FirstUsers = 1 .. Len(FirstUsers)
  BY StudentsAssumption
<1>3. \A i \in UserIds : IF i \in DOMAIN FirstUsers
                         THEN user[i] = FirstUsers[i] /\ user[i] \in User
                         ELSE user[i] = NoUser
  BY StudentsAssumption DEF Init
<1>4. TypeOK
  <2>1. call \in [Calls -> Call] /\ begun \in 0 .. MaxCalls
    BY IdleFields, StudentsAssumption DEF Init
  <2>2. student \in [Pupils -> Student \cup {NoStudent}] /\ lastSequence \in Nat
    BY DEF Init
  <2>3. user \in [UserIds -> User \cup {NoUser}] /\ lastUser \in 0 .. MaxUsers
    BY <1>2, <1>3 DEF Init
  <2>4. links = {} /\ lastLink \in 0 .. MaxLinks
    BY StudentsAssumption DEF Init
  <2> QED BY <2>1, <2>2, <2>3, <2>4 DEF Init, TypeOK
<1>5. PupilsInv
  BY <1>1, IdleFormed DEF PupilsInv, Holds
<1>6. KeysInv
  <2>1. \A i \in UserIds : i > lastUser => user[i] = NoUser
    BY <1>2, <1>3 DEF Init
  <2>2. \A i, j \in UserIds :
          user[i] # NoUser /\ user[j] # NoUser /\ user[i].email = user[j].email => i = j
    BY <1>3, StudentsAssumption
  <2>3. \A k \in Calls : call[k].parent <= lastUser
    BY <1>1, <1>2 DEF Init
  <2>4. links = {}
    BY DEF Init
  <2> QED BY <1>1, <2>1, <2>2, <2>3, <2>4 DEF KeysInv
<1>7. SecretInv
  BY <1>1 DEF SecretInv
<1>8. KnowledgeInv
  BY <1>1 DEF KnowledgeInv, Knows, Linking
<1> QED BY <1>4, <1>5, <1>6, <1>7, <1>8 DEF Base

LEMMA BaseKept == Base /\ [Next]_vars => Base'
<1>1. ASSUME Base, NEW k \in Calls, Begin(k) \/ Step(k) \/ CutOff(k)
      PROVE  Base'
  <2>1. TypeOK' /\ PupilsInv'
    BY <1>1, TypeKept, PupilsKept DEF Base
  <2>2. KeysInv' /\ SecretInv' /\ KnowledgeInv'
    <3>1. CASE Begin(k)
      BY <1>1, <3>1, BeginKeeps
    <3>2. CASE Fails(k)
      BY <1>1, <3>2, RemovalsKeep
    <3>3. CASE ~Fails(k) /\ (MakeParent(k) \/ SavePhone(k) \/ AddLink(k) \/ DeleteParent(k))
      <4>1. CASE MakeParent(k)
        <5>1. ~EmailTaken(k, Email(k))
          BY <3>3, <4>1 DEF MakeParent
        <5> QED BY <1>1, <4>1, <5>1, MakeParentKeeps
      <4>2. CASE SavePhone(k)
        <5>1. ~(user[call[k].parent] = NoUser /\ EmailTaken(k, Email(k)))
          BY <3>3, <4>2 DEF SavePhone
        <5> QED BY <1>1, <4>2, <5>1, SavePhoneKeeps
      <4>3. CASE AddLink(k)
        <5>1. ~(Linked(Pupil(k), call[k].parent) \/ user[call[k].parent] = NoUser)
          BY <3>3, <4>3 DEF AddLink
        <5> QED BY <1>1, <4>3, <5>1, AddLinkKeeps
      <4>4. CASE DeleteParent(k)
        <5>1. ~(Children(call[k].parent) # {} \/ call[k].parent \in Kept)
          BY <3>3, <4>4 DEF DeleteParent
        <5> QED BY <1>1, <4>4, <5>1, RemovalsKeep
      <4> QED BY <3>3, <4>1, <4>2, <4>3, <4>4
    <3>4. CASE Step(k) /\ ~Fails(k)
               /\ ~(MakeParent(k) \/ SavePhone(k) \/ AddLink(k) \/ DeleteParent(k))
      BY <1>1, <3>4, LastKeeps, LookKeeps, RemovalsKeep DEF Step
    <3> QED BY <1>1, <3>1, <3>2, <3>3, <3>4 DEF CutOff
  <2> QED BY <2>1, <2>2 DEF Base
<1>2. ASSUME Base, UNCHANGED vars PROVE Base'
  <2>1. UNCHANGED <<student, lastSequence, user, lastUser, links, lastLink, call, begun, mailed,
                    made, intended, disturbed, released>>
    BY <1>2 DEF vars, tables, history
  <2>2. TypeOK'
    BY <1>2, <2>1 DEF Base, TypeOK
  <2>3. PupilsInv'
    BY <1>2, <2>1 DEF Base, PupilsInv, Present, Holds
  <2>4. KeysInv'
    BY <1>2, <2>1 DEF Base, KeysInv, Present, Holds
  <2>5. SecretInv'
    BY <1>2, <2>1 DEF Base, SecretInv, Holds
  <2>6. KnowledgeInv'
    BY <1>2, <2>1, MailIs DEF Base, KnowledgeInv
  <2> QED BY <2>2, <2>3, <2>4, <2>5, <2>6 DEF Base
<1> QED BY <1>1, <1>2 DEF Next

(* Calls hold what their place says, a pupil is entered by one call, the   *)
(* keys of the tables hold, a transaction's accounts are its own, and the  *)
(* account a call is about to link has the e-mail the call looked up.      *)
THEOREM BaseAlways == Spec => []Base
BY InitBase, BaseKept, PTL DEF Spec

(* Every table and every call keep their type, whatever the calls do.      *)
THEOREM TypeAlways == Spec => []TypeOK
<1>1. Base => TypeOK
  BY DEF Base
<1> QED BY <1>1, BaseAlways, PTL

-----------------------------------------------------------------------------
(* The book.                                                               *)

(* Only a commit gives numbers, and none is changed.                       *)
LEMMA NumbersStay ==
  ASSUME Base, NEW k \in Calls, Begin(k) \/ Step(k) \/ CutOff(k), ~Commit(k)
  PROVE  /\ UNCHANGED lastSequence
         /\ \A s \in Pupils : /\ Present(s)' <=> Present(s)
                              /\ Present(s) => student'[s].number = student[s].number
<1>0. TypeOK /\ PupilsInv /\ Formed(call[k])
  BY BaseFields
<1>1. UNCHANGED student \/ UpdateRow(k) \/ Move(k)
  BY <1>0, NextKinds, BeginTables, AdvancesRows, FailsCall
  DEF TakeNumbers, SendMails, Finish, tables
<1>2. UNCHANGED lastSequence
  BY NextKinds, BeginTables
  DEF TakeNumbers, SendMails, Finish, Move, Fails, Advances, FindParent, FindLink, UpdateRow,
      ReadLinks, Unlink, CountChildren, RemoveLink, MakeParent, SavePhone, AddLink,
      DeleteParent, tables
<1> QED BY <1>0, <1>1, <1>2, RowsStay

(* Only a commit gives numbers. *)
LEMMA CommitNumbers ==
  ASSUME Base, NEW k \in Calls, Commit(k)
  PROVE  /\ Frame(k) /\ call[k].start \in Nat \ {0} /\ Holds(k)
         /\ call'[k].start = 0 /\ call[k].pupils \subseteq Pupils
         /\ \A s \in call[k].pupils : ~Present(s)
         /\ \A s \in Pupils : /\ Present(s)' <=> Present(s) \/ s \in call[k].pupils
                              /\ IF s \in call[k].pupils
                                 THEN student'[s].number \in call[k].start .. lastSequence'
                                 ELSE student'[s] = student[s]
<1>0. TypeOK /\ PupilsInv /\ Formed(call[k])
  BY BaseFields
<1>1. Holds(k) /\ call[k].start \in Nat \ {0}
  BY <1>0, CommitRows, CallFields DEF Holds
<1>2. Frame(k) /\ call'[k].start = 0
  BY <1>0, CommitCall, IdleFields
<1> QED BY <1>0, <1>1, <1>2, CommitRows

(* Between the lock and the commit nobody moves the counter. *)
LEMMA BookKept ==
  ASSUME Base, BookInv, NEW k \in Calls, Begin(k) \/ Step(k) \/ CutOff(k)
  PROVE  BookInv'
<1>0. TypeOK /\ PupilsInv /\ Formed(call[k])
  BY BaseFields
<1>1. CASE Commit(k)
  <2>1. ASSUME NEW j \in Calls PROVE ~Holds(j)'
    BY <1>0, <1>1, CommitNumbers DEF Frame, Holds, PupilsInv
  <2>2. ASSUME NEW s \in Pupils, Present(s)' PROVE student'[s].number # 0
    <3>1. CASE s \in call[k].pupils
      BY <1>1, <3>1, CommitNumbers
    <3>2. CASE s \notin call[k].pupils
      BY <1>1, <2>2, <3>2, CommitNumbers DEF BookInv
    <3> QED BY <3>1, <3>2
  <2> QED BY <2>1, <2>2 DEF BookInv
<1>2. CASE ~Commit(k)
  <2>1. ASSUME NEW j \in Calls, Holds(j)' PROVE call'[j].start = lastSequence' + 1
    <3>1. Frame(k) /\ (call'[k].start \in {0, call[k].start} \/ call'[k].start = lastSequence + 1)
      <4>1. CASE Begin(k)
        BY <1>0, <4>1, BeginFormed
      <4>2. CASE TakeNumbers(k)
        BY <1>0, <4>2, TakeNumbersCall
      <4>3. CASE SendMails(k)
        BY <1>0, <4>3, SendMailsCall, IdleFields
      <4>4. CASE Finish(k) \/ Move(k) \/ Fails(k)
        BY <1>0, <4>4, EndsIdle, FailsCall, IdleFields DEF Finish, Move
      <4>5. CASE Advances(k)
        BY <1>0, <4>5, AdvancesFormed
      <4> QED BY <1>2, <4>1, <4>2, <4>3, <4>4, <4>5, NextKinds
    <3>2. CASE j = k
      BY <1>2, <2>1, <3>1, <3>2, NumbersStay DEF BookInv, Holds
    <3>3. CASE j # k
      BY <1>2, <2>1, <3>1, <3>3, NumbersStay DEF BookInv, Holds, Frame
    <3> QED BY <3>2, <3>3
  <2>2. ASSUME NEW s \in Pupils, Present(s)' PROVE student'[s].number # 0
    BY <1>2, <2>2, NumbersStay DEF BookInv
  <2> QED BY <2>1, <2>2 DEF BookInv
<1> QED BY <1>1, <1>2

(* The counter and the numbers agree throughout. *)
LEMMA BookInvAlways == Spec => []BookInv
<1>1. Init => BookInv
  BY IdleFields DEF Init, BookInv, Holds, Present
<1>2. Base /\ BookInv /\ [Next]_vars => BookInv'
  <2>1. ASSUME Base, BookInv, UNCHANGED vars PROVE BookInv'
    BY <2>1 DEF BookInv, Holds, Present, vars, tables
  <2> QED BY <2>1, BookKept DEF Next
<1> QED BY <1>1, <1>2, BaseAlways, PTL DEF Spec

(* A commit admits its pupils to the book; everything else leaves it       *)
(* alone.                                                                  *)
LEMMA BookStep ==
  ASSUME Base, BookInv, NEW k \in Calls, Commit(k), NEW S, S = call[k].pupils
  PROVE  Book!Admit(S) /\ S \subseteq Pupils
<1>0. TypeOK /\ PupilsInv
  BY BaseFields
<1>1. S = call[k].pupils
  OBVIOUS
<1>2. /\ call[k].start = lastSequence + 1 /\ S \subseteq Pupils /\ \A s \in S : ~Present(s)
      /\ \A s \in Pupils : Present(s)' <=> Present(s) \/ s \in S
  BY <1>1, CommitNumbers DEF BookInv
<1>3. /\ Cardinality(S) \in Nat /\ lastSequence' = call[k].start + Cardinality(S) - 1
      /\ \E new \in Bijection(S, call[k].start .. lastSequence') :
           \A s \in Pupils : IF s \in S THEN student'[s].number = new[s]
                             ELSE student'[s] = student[s]
  BY <1>0, <1>1, CommitRows
<1>4. lastSequence' = lastSequence + Cardinality(S)
  BY <1>0, <1>2, <1>3 DEF TypeOK
<1>5. PICK new \in Bijection(S, lastSequence + 1 .. lastSequence') :
        \A s \in Pupils : IF s \in S THEN student'[s].number = new[s]
                          ELSE student'[s] = student[s]
  BY <1>2, <1>3
<1>6. \A s \in S : [t \in Pupils |-> IF Present(t) THEN student[t].number ELSE 0][s] = 0
  BY <1>2
<1>7. [s \in Pupils |-> IF Present(s) THEN student[s].number ELSE 0]'
        = [s \in Pupils |-> IF s \in S THEN new[s] ELSE
             [t \in Pupils |-> IF Present(t) THEN student[t].number ELSE 0][s]]
  <2>1. ASSUME NEW s \in Pupils
        PROVE  (IF Present(s)' THEN student'[s].number ELSE 0)
                 = IF s \in S THEN new[s] ELSE IF Present(s) THEN student[s].number ELSE 0
    BY <1>2, <1>5
  <2> QED BY <2>1
<1>8. \E m \in Bijection(S, lastSequence + 1 .. lastSequence') :
        [s \in Pupils |-> IF Present(s) THEN student[s].number ELSE 0]'
          = [s \in Pupils |-> IF s \in S THEN m[s] ELSE
               [t \in Pupils |-> IF Present(t) THEN student[t].number ELSE 0][s]]
  BY <1>7, Zenon
<1>9. /\ Book!Cardinality(S) = Cardinality(S)
      /\ Book!Bijection(S, lastSequence + 1 .. lastSequence')
           = Bijection(S, lastSequence + 1 .. lastSequence')
  BY DEF Cardinality, Book!Cardinality, Bijection, Injection, Surjection, IsInjective,
         Book!Bijection, Book!Injection, Book!Surjection, Book!IsInjective
<1>10. Book!Admit(S)
  BY <1>4, <1>6, <1>8, <1>9 DEF Book!Admit
<1> QED BY <1>2, <1>10

(* Calls of createStudent and of the import take the admission numbers of  *)
(* the abstract book, one after another and never twice, whatever fails.   *)
THEOREM StudentsImplementBook == Spec => ImplementsBook
<1>1. Init => Book!BookInit
  BY DEF Init, Book!BookInit, Present
<1>2. Base /\ BookInv /\ [Next]_vars => [\E S \in SUBSET Pupils : Book!Admit(S)]_Book!bookVars
  <2> SUFFICES ASSUME Base, BookInv, [Next]_vars
               PROVE  [\E S \in SUBSET Pupils : Book!Admit(S)]_Book!bookVars
    OBVIOUS
  <2>1. ASSUME NEW k \in Calls, Commit(k) PROVE \E S \in SUBSET Pupils : Book!Admit(S)
    <3>1. PICK S : S = call[k].pupils
      OBVIOUS
    <3>2. Book!Admit(S) /\ S \in SUBSET Pupils
      BY <2>1, <3>1, BookStep
    <3> QED BY <3>2
  <2>2. ASSUME NEW k \in Calls, Begin(k) \/ Step(k) \/ CutOff(k), ~Commit(k)
        PROVE  UNCHANGED Book!bookVars
    BY <2>2, NumbersStay DEF Book!bookVars
  <2>3. CASE UNCHANGED vars
    BY <2>3 DEF Book!bookVars, Present, vars, tables
  <2> QED BY <2>1, <2>2, <2>3 DEF Next
<1> QED BY <1>1, <1>2, BaseAlways, BookInvAlways, PTL DEF Spec, ImplementsBook, Book!BookSpec

-----------------------------------------------------------------------------
(* The guardians of a student whom nothing disturbs.                       *)

(* Which steps change the accounts, and which the links. *)
LEMMA UsersMove ==
  ASSUME NEW k \in Calls, Begin(k) \/ Step(k) \/ CutOff(k)
  PROVE  \/ UNCHANGED user
         \/ Fails(k)
         \/ MakeParent(k) /\ ~EmailTaken(k, Email(k))
         \/ SavePhone(k) /\ ~(user[call[k].parent] = NoUser /\ EmailTaken(k, Email(k)))
         \/ DeleteParent(k) /\ ~(Children(call[k].parent) # {} \/ call[k].parent \in Kept)
BY NextKinds, BeginTables
DEF TakeNumbers, Commit, SendMails, Finish, Move, Advances, FindParent, FindLink, UpdateRow,
    ReadLinks, Unlink, CountChildren, RemoveLink, AddLink, tables

LEMMA LinksMove ==
  ASSUME NEW k \in Calls, Begin(k) \/ Step(k) \/ CutOff(k)
  PROVE  \/ UNCHANGED links
         \/ Fails(k)
         \/ AddLink(k) /\ ~(Linked(Pupil(k), call[k].parent) \/ user[call[k].parent] = NoUser)
         \/ Unlink(k)
         \/ RemoveLink(k)
BY NextKinds, BeginTables
DEF TakeNumbers, Commit, SendMails, Finish, Move, Advances, FindParent, FindLink, UpdateRow,
    ReadLinks, CountChildren, MakeParent, SavePhone, DeleteParent, tables

(* The e-mail of an account does not change while it is linked.            *)
LEMMA LinkedMails ==
  ASSUME Base, NEW k \in Calls, Begin(k) \/ Step(k) \/ CutOff(k),
         NEW l \in links, l \in links'
  PROVE  user'[l.parent].email = user[l.parent].email
<1>0. TypeOK /\ PupilsInv /\ Formed(call[k]) /\ lastUser \in Nat
  BY BaseFields
<1>1. PICK i : i = l.parent
  OBVIOUS
<1>2. i \in UserIds /\ user[i] # NoUser
  BY <1>1, BaseFields
<1>3. CASE UNCHANGED user
  BY <1>3
<1>4. CASE Fails(k)
  BY <1>1, <1>2, <1>4, FailsTyped
<1>5. CASE MakeParent(k) /\ ~EmailTaken(k, Email(k))
  <2>1. PICK new \in User : user' = [user EXCEPT ![lastUser + 1] = new]
    BY <1>0, <1>5, MakeParentTyped
  <2>2. i # lastUser + 1
    <3>1. ~(i > lastUser)
      BY <1>2 DEF Base, KeysInv
    <3> QED BY <1>0, <3>1
  <2> QED BY <1>0, <1>1, <1>2, <2>1, <2>2 DEF TypeOK
<1>6. CASE SavePhone(k) /\ ~(user[call[k].parent] = NoUser /\ EmailTaken(k, Email(k)))
  <2>1. /\ user' = [user EXCEPT ![call[k].parent] = call[k].found]
        /\ call[k].pc = "save phone"
    BY <1>0, <1>6, SavePhoneTyped
  <2>2. Knows(call[k]) /\ call[k].found.email = Mail(call[k])
    BY <2>1 DEF Base, KnowledgeInv, Knows, Linking
  <2>3. CASE i = call[k].parent
    <3>1. user[i].email = Mail(call[k])
      BY <1>2, <2>2, <2>3 DEF Base, KnowledgeInv
    <3>2. user'[i] = call[k].found
      BY <1>0, <1>2, <2>1, <2>3 DEF TypeOK
    <3> QED BY <1>1, <2>2, <3>1, <3>2
  <2>4. CASE i # call[k].parent
    BY <1>0, <1>1, <1>2, <2>1, <2>4 DEF TypeOK
  <2> QED BY <2>3, <2>4
<1>7. CASE DeleteParent(k) /\ ~(Children(call[k].parent) # {} \/ call[k].parent \in Kept)
  BY <1>0, <1>1, <1>2, <1>7, DeleteParentTyped DEF TypeOK
<1> QED BY <1>3, <1>4, <1>5, <1>6, <1>7, UsersMove

(* A call changes the links of the students it is about.                   *)
Relinked(s) == \E l \in links \cup links' : l.pupil = s /\ ~(l \in links <=> l \in links')

(* A step relinks only the pupils of its own call. *)
LEMMA OwnLinksMove ==
  ASSUME Base, NEW k \in Calls, Begin(k) \/ Step(k) \/ CutOff(k), NEW s,
         s \notin call[k].pupils
  PROVE  ~Relinked(s)
<1>0. TypeOK /\ PupilsInv /\ Formed(call[k])
  BY BaseFields
<1>1. \A l \in call[k].drop : l.pupil \in call[k].pupils
  BY <1>0 DEF Formed, Carried
<1>2. CASE UNCHANGED links
  BY <1>2 DEF Relinked
<1>3. CASE Fails(k)
  BY <1>3 DEF Fails, Relinked
<1>4. CASE AddLink(k) /\ ~(Linked(Pupil(k), call[k].parent) \/ user[call[k].parent] = NoUser)
  <2>1. PICK new \in Link : /\ new.pupil = Pupil(k) /\ links' = links \cup {new}
                            /\ Pupil(k) \in call[k].pupils
    BY <1>0, <1>4, AddLinkTyped
  <2> QED BY <2>1 DEF Relinked
<1>5. CASE Unlink(k)
  BY <1>1, <1>5 DEF Unlink, Relinked
<1>6. CASE RemoveLink(k)
  BY <1>1, <1>6 DEF RemoveLink, Relinked
<1> QED BY <1>2, <1>3, <1>4, <1>5, <1>6, LinksMove

(* The e-mails of the guardians of a pupil change only with his links: an  *)
(* account that has a child keeps its e-mail.                              *)
LEMMA EmailsStay ==
  ASSUME Base, NEW k \in Calls, Begin(k) \/ Step(k) \/ CutOff(k), NEW s, ~Relinked(s)
  PROVE  EmailsOf(s)' = EmailsOf(s)
<1>1. \A l \in links : l \in links' => user'[l.parent].email = user[l.parent].email
  BY LinkedMails
<1> QED BY <1>1 DEF EmailsOf, Relinked

(* What is intended for him, and that he is there, changes with his calls. *)
LEMMA HistoryOwn ==
  ASSUME Base, NEW k \in Calls, Begin(k) \/ Step(k) \/ CutOff(k), NEW s \in Pupils
  PROVE  /\ disturbed[s] => disturbed'[s]
         /\ s \notin call[k].pupils => /\ intended'[s] = intended[s]
                                       /\ Present(s)' <=> Present(s)
<1>0. TypeOK /\ PupilsInv /\ Formed(call[k])
  BY BaseFields
<1>1. disturbed[s] => disturbed'[s]
  <2>1. CASE Begin(k)
    BY <2>1 DEF Begin, Begins, CreateStudent, BulkImportStudents, UpdateStudent, LinkParent,
                UnlinkParent, PromoteStudents
  <2>2. CASE Fails(k)
    BY <2>2 DEF Fails
  <2>3. CASE ~Begin(k) /\ ~Fails(k)
    BY <2>3, NextKinds
    DEF TakeNumbers, Commit, SendMails, Finish, Move, Advances, FindParent, FindLink, UpdateRow,
        ReadLinks, CountChildren, MakeParent, SavePhone, DeleteParent, AddLink, Unlink,
        RemoveLink, history
  <2> QED BY <2>1, <2>2, <2>3
<1>2. ASSUME s \notin call[k].pupils PROVE intended'[s] = intended[s]
  <2>1. CASE Begin(k)
    BY <2>1, BeginTables
  <2>2. CASE Commit(k)
    BY <1>2, <2>2 DEF Commit
  <2>3. CASE Finish(k)
    <3>1. call[k].pupils # {}
      BY <1>0, <2>3 DEF Finish, At, Formed, Placed, Carried
    <3>2. Pupil(k) \in call[k].pupils
      BY <1>0, <3>1, PupilIs
    <3>3. PICK e : intended' = [intended EXCEPT ![Pupil(k)] = e]
      BY <2>3 DEF Finish
    <3> QED BY <1>0, <1>2, <3>2, <3>3 DEF TypeOK
  <2>4. CASE ~Begin(k) /\ ~Commit(k) /\ ~Finish(k)
    BY <2>4, NextKinds
    DEF TakeNumbers, SendMails, Fails, Move, Advances, FindParent, FindLink, UpdateRow,
        ReadLinks, CountChildren, MakeParent, SavePhone, DeleteParent, AddLink, Unlink,
        RemoveLink, history
  <2> QED BY <2>1, <2>2, <2>3, <2>4
<1>3. ASSUME s \notin call[k].pupils PROVE Present(s)' <=> Present(s)
  BY <1>3, CommitNumbers, NumbersStay
<1> QED BY <1>1, <1>2, <1>3

LEMMA EmailsIn ==
  ASSUME NEW s, NEW l \in links, l.pupil = s
  PROVE  user[l.parent].email \in EmailsOf(s)
BY DEF EmailsOf

(* A step about others is none to a pupil that is minded. *)
LEMMA TendedStays ==
  ASSUME Base, NEW k \in Calls, Begin(k) \/ Step(k) \/ CutOff(k), NEW s,
         NEW j \in Calls, call'[j] = call[j], s \in call[j].pupils, ~Relinked(s),
         intended'[s] = intended[s], Tended(call[j], s)
  PROVE  Tended(call[j], s)'
<1>1. EmailsOf(s)' = EmailsOf(s)
  BY EmailsStay
<1>2. PICK c : c = call[j]
  OBVIOUS
<1>3. ASSUME Rebuilt(c, s) PROVE Rebuilt(call[j], s)'
  <2>1. ASSUME NEW l \in links', l.pupil = s, l \notin c.drop
        PROVE  user'[l.parent].email \in InList(c.list)
    <3>1. l \in links
      BY <2>1 DEF Relinked
    <3> QED BY <1>3, <2>1, <3>1, LinkedMails DEF Rebuilt
  <2> QED BY <1>1, <1>2, <1>3, <2>1 DEF Rebuilt
<1>4. ASSUME c.pc = "remove link" PROVE \E l \in links' : c.drop = {l}
  <2>1. PICK l \in links : c.drop = {l}
    BY <1>2, <1>4 DEF Tended
  <2>2. c.op = "unlink" /\ l.pupil \in c.pupils
    BY <1>2, <1>4, <2>1, BaseFields, CallFields DEF Formed, Placed, Carried
  <2>3. l.pupil = s
    <3>1. Formed(c) /\ s \in c.pupils
      BY <1>2, BaseFields
    <3>2. PICK t : c.pupils = {t}
      BY <2>2, <3>1 DEF Formed, Carried
    <3> QED BY <2>2, <3>1, <3>2
  <2> QED BY <2>1, <2>3 DEF Relinked
<1>5. Tended(c, s)
  BY <1>2
<1> QED BY <1>1, <1>2, <1>3, <1>4, <1>5 DEF Tended

LEMMA OthersMinded ==
  ASSUME Base, NEW k \in Calls, Begin(k) \/ Step(k) \/ CutOff(k), NEW s \in Pupils,
         s \notin call[k].pupils, s \notin call'[k].pupils, Minding(s)
  PROVE  Minding(s)'
<1>1. Frame(k) /\ ~Relinked(s) /\ intended'[s] = intended[s] /\ (Present(s)' <=> Present(s))
  BY BaseFields, CallsTyped, OwnLinksMove, HistoryOwn
<1>2. On(s)' = On(s)
  BY <1>1 DEF On, Frame
<1>3. ASSUME NEW j \in On(s)
      PROVE  Tended(call[j], s)'
  <2>1. j \in Calls /\ s \in call[j].pupils /\ j # k /\ Tended(call[j], s)
    BY <1>3 DEF On, Minding
  <2> QED BY <1>1, <2>1, TendedStays DEF Frame
<1>4. EmailsOf(s)' = EmailsOf(s)
  BY <1>1, EmailsStay
<1> QED BY <1>1, <1>2, <1>3, <1>4 DEF Minding

(* A pupil that is minded is on one call at most; it goes on with him, or  *)
(* lets him go as given.                                                   *)
LEMMA MindedAlone ==
  ASSUME NEW k \in Calls, NEW s, s \in call[k].pupils, Minding(s)
  PROVE  On(s) = {k} /\ Tended(call[k], s)
BY DEF Minding, On

LEMMA MindedGoesOn ==
  ASSUME NEW k \in Calls, Frame(k), NEW s, On(s) \subseteq {k}, s \in call'[k].pupils,
         Tended(call[k], s)'
  PROVE  Minding(s)'
<1>1. On(s)' = {k}
  BY DEF On, Frame
<1> QED BY <1>1 DEF Minding

LEMMA MindedEnds ==
  ASSUME NEW k \in Calls, Frame(k), NEW s, On(s) = {k}, call'[k] = Idle,
         Present(s)' => EmailsOf(s)' = intended'[s]
  PROVE  Minding(s)'
<1>1. On(s)' = {}
  BY IdleFields DEF On, Frame
<1> QED BY <1>1 DEF Minding

(* Of what a call is rebuilding nothing is lost.                           *)
LEMMA RebuiltGoes ==
  ASSUME Base, NEW k \in Calls, Begin(k) \/ Step(k) \/ CutOff(k), NEW s,
         Rebuilt(call[k], s), call'[k].list = call[k].list,
         InList(call[k].list) \cap EmailsOf(s) \subseteq EmailsOf(s)' \cup InList(call'[k].todo),
         InList(call[k].todo) \subseteq EmailsOf(s)' \cup InList(call'[k].todo),
         \A l \in links' : l.pupil = s =>
           \/ l \in links /\ (l \in call[k].drop => l \in call'[k].drop)
           \/ user'[l.parent].email \in InList(call[k].list)
  PROVE  Rebuilt(call[k], s)'
<1>1. PICK c : c = call[k]
  OBVIOUS
<1>2. PICK d : d = call'[k]
  OBVIOUS
<1>3. d.list = c.list /\ InList(c.list) \subseteq EmailsOf(s)' \cup InList(d.todo)
  BY <1>1, <1>2 DEF Rebuilt
<1>4. ASSUME NEW l \in links', l.pupil = s, l \notin d.drop
      PROVE  user'[l.parent].email \in InList(c.list)
  <2>1. CASE l \in links /\ l \notin c.drop
    <3>1. user[l.parent].email \in InList(c.list)
      BY <1>1, <1>4, <2>1 DEF Rebuilt
    <3> QED BY <1>4, <2>1, <3>1, LinkedMails
  <2>2. CASE user'[l.parent].email \in InList(c.list)
    BY <2>2
  <2> QED BY <1>1, <1>2, <1>4, <2>1, <2>2
<1> QED BY <1>2, <1>3, <1>4 DEF Rebuilt

(* A statement that leaves the links alone.                                *)
LEMMA RebuiltStays ==
  ASSUME Base, NEW k \in Calls, Begin(k) \/ Step(k) \/ CutOff(k), NEW s,
         Rebuilt(call[k], s), UNCHANGED links, call'[k].list = call[k].list,
         call'[k].todo = call[k].todo, call'[k].drop = call[k].drop
  PROVE  Rebuilt(call[k], s)'
<1>1. EmailsOf(s)' = EmailsOf(s)
  BY EmailsStay DEF Relinked
<1> QED BY <1>1, RebuiltGoes

(* Between the old links and the last new one, Rebuilt is all there is. *)
LEMMA TendedNext ==
  ASSUME NEW k \in Calls, NEW s, Formed(call'[k]), call'[k].op \in {"create", "update"},
         call'[k].op = "create" => call'[k].pc # "mail",
         Rebuilt(call[k], s)'
  PROVE  Tended(call[k], s)'
<1>1. PICK d : d = call'[k]
  OBVIOUS
<1>2. d.pc # "remove link" /\ d.op \in {"create", "update"} /\ (d.op = "create" => d.pc # "mail")
  BY <1>1 DEF Formed, Placed
<1> QED BY <1>1, <1>2 DEF Tended

LEMMA TendedRebuilt ==
  ASSUME NEW c, NEW s, Tended(c, s), c.op \in {"create", "update"},
         c.pc \notin {"mail", "update row", "read links"}
  PROVE  Rebuilt(c, s)
BY DEF Tended

(* What each statement of a call that goes on does for his guardians.      *)
LEMMA LookTends ==
  ASSUME Base, NEW k \in Calls, NEW s, s \in call[k].pupils, Tended(call[k], s),
         \/ FindParent(k) \/ CountChildren(k)
         \/ MakeParent(k) /\ ~EmailTaken(k, Email(k))
         \/ SavePhone(k) /\ ~(user[call[k].parent] = NoUser /\ EmailTaken(k, Email(k)))
         \/ DeleteParent(k) /\ ~(Children(call[k].parent) # {} \/ call[k].parent \in Kept)
         \/ FindLink(k) /\ ~Linked(Pupil(k), call[k].parent)
  PROVE  Tended(call[k], s)'
<1>0. TypeOK /\ PupilsInv /\ Formed(call[k]) /\ Advances(k) /\ Step(k)
  BY BaseFields DEF Advances, Step
<1>1. /\ call[k].pc \in {"find parent", "make parent", "save phone", "find link", "count",
                         "delete parent"}
      /\ UNCHANGED links
  BY DEF FindParent, CountChildren, MakeParent, SavePhone, DeleteParent, FindLink, At, tables
<1>2. call[k].op \in {"create", "update"} /\ (call[k].pc # "find link" \/ call[k].todo # <<>>)
  BY <1>0, <1>1, CallFields DEF Formed, Placed, Listed, Linking
<1>3. Rebuilt(call[k], s)
  BY <1>1, <1>2, TendedRebuilt
<1>4. /\ Same(call[k], call'[k]) /\ Formed(call'[k])
      /\ call[k].op = "create" => call'[k].pc \notin {"take numbers", "mail"}
  BY <1>0, AdvancesFormed
<1>5. call'[k].todo = call[k].todo /\ call'[k].drop = call[k].drop
  <2>1. CASE FindParent(k)
    BY <1>0, <2>1, FindParentCall
  <2>2. CASE CountChildren(k)
    BY <1>0, <2>2, CountChildrenCall
  <2>3. CASE MakeParent(k) /\ ~EmailTaken(k, Email(k))
    BY <1>0, <2>3, MakeParentCall
  <2>4. CASE SavePhone(k) /\ ~(user[call[k].parent] = NoUser /\ EmailTaken(k, Email(k)))
    BY <1>0, <2>4, SavePhoneCall
  <2>5. CASE DeleteParent(k) /\ ~(Children(call[k].parent) # {} \/ call[k].parent \in Kept)
    BY <1>0, <2>5, DeleteParentCall
  <2>6. CASE FindLink(k) /\ ~Linked(Pupil(k), call[k].parent)
    <3>1. call[k].todo # <<>>
      BY <1>2, <2>6 DEF FindLink, At
    <3> QED BY <1>0, <2>6, <3>1, FindLinkCall
  <2> QED BY <2>1, <2>2, <2>3, <2>4, <2>5, <2>6
<1>6. call'[k].list = call[k].list /\ call'[k].op = call[k].op
  BY <1>4 DEF Same
<1>7. Rebuilt(call[k], s)'
  BY <1>0, <1>1, <1>3, <1>5, <1>6, RebuiltStays
<1> QED BY <1>2, <1>4, <1>6, <1>7, TendedNext

(* The pupil of a call that still has guardians to link.                   *)
LEMMA PupilOf ==
  ASSUME Base, NEW k \in Calls, NEW s, s \in call[k].pupils,
         call[k].todo # <<>> \/ call[k].op \in {"edit", "update", "link", "unlink"}
  PROVE  s = Pupil(k) /\ s \in Pupils /\ call[k].pupils = {s}
<1>1. TypeOK /\ Formed(call[k]) /\ call[k].pupils # {}
  BY BaseFields
<1>2. call[k].list # <<>> \/ call[k].op \in {"edit", "update", "link", "unlink"}
  BY <1>1 DEF Formed, Listed
<1> QED BY <1>1, <1>2, PupilIs, CallFields

(* Each statement of a call tends its pupils on. *)
LEMMA FoundTends ==
  ASSUME Base, NEW k \in Calls, NEW s, s \in call[k].pupils, Tended(call[k], s),
         FindLink(k), Linked(Pupil(k), call[k].parent)
  PROVE  Tended(call[k], s)'
<1>0. TypeOK /\ PupilsInv /\ Formed(call[k]) /\ Advances(k) /\ Step(k)
  BY BaseFields DEF Advances, Step
<1>1. call[k].pc = "find link" /\ UNCHANGED links
  BY DEF FindLink, At, tables
<1>2. call[k].op \in {"create", "update"} /\ call[k].todo # <<>>
  BY <1>0, <1>1, CallFields DEF Formed, Placed, Listed, Linking
<1>3. Rebuilt(call[k], s)
  BY <1>1, <1>2, TendedRebuilt
<1>4. /\ Same(call[k], call'[k]) /\ Formed(call'[k])
      /\ call[k].op = "create" => call'[k].pc \notin {"take numbers", "mail"}
  BY <1>0, AdvancesFormed
<1>5. call'[k].todo = Tail(call[k].todo) /\ call'[k].drop = call[k].drop
  BY <1>0, <1>2, FindLinkCall
<1>6. call'[k].list = call[k].list /\ call'[k].op = call[k].op
  BY <1>4 DEF Same
<1>7. EmailsOf(s)' = EmailsOf(s)
  BY <1>0, <1>1, EmailsStay DEF Relinked
<1>8. Head(call[k].todo) \in EmailsOf(s)
  <2>1. PICK l \in links : l.pupil = s /\ l.parent = call[k].parent
    BY <1>2, PupilOf DEF Linked
  <2>2. Knows(call[k]) /\ Mail(call[k]) = Head(call[k].todo)
    BY <1>1, <1>2 DEF Knows, Linking, Mail
  <2>3. user[l.parent].email = Head(call[k].todo)
    BY <2>1, <2>2, BaseFields DEF Base, KnowledgeInv
  <2> QED BY <2>1, <2>3, EmailsIn
<1>9. InList(call[k].todo) \subseteq EmailsOf(s)' \cup InList(call'[k].todo)
  BY <1>0, <1>2, <1>5, <1>7, <1>8, CallFields, InListOf
<1>10. Rebuilt(call[k], s)'
  BY <1>0, <1>1, <1>3, <1>5, <1>6, <1>7, <1>9, RebuiltGoes
<1> QED BY <1>2, <1>4, <1>6, <1>10, TendedNext

LEMMA AddTends ==
  ASSUME Base, NEW k \in Calls, NEW s, s \in call[k].pupils, Tended(call[k], s), AddLink(k),
         ~(Linked(Pupil(k), call[k].parent) \/ user[call[k].parent] = NoUser)
  PROVE  Tended(call[k], s)'
<1>0. TypeOK /\ PupilsInv /\ Formed(call[k]) /\ Advances(k) /\ Step(k)
  BY BaseFields DEF Advances, Step
<1>1. call[k].pc = "add link" /\ UNCHANGED <<user, intended>>
  BY DEF AddLink, At, history
<1>2. /\ call[k].op \in {"create", "update", "link"}
      /\ call[k].op # "link" => call[k].todo # <<>>
  BY <1>0, <1>1, CallFields DEF Formed, Placed, Listed, Linking
<1>3. s = Pupil(k)
  BY <1>2, PupilOf
<1>4. PICK new \in Link : /\ new.pupil = s /\ new.parent = call[k].parent
                          /\ links' = links \cup {new}
  BY <1>0, <1>3, AddLinkTyped
<1>5. /\ Same(call[k], call'[k]) /\ Formed(call'[k])
      /\ call[k].op = "create" => call'[k].pc \notin {"take numbers", "mail"}
  BY <1>0, AdvancesFormed
<1>6. /\ call'[k].todo = (IF call[k].todo = <<>> THEN <<>> ELSE Tail(call[k].todo))
      /\ call'[k].drop = call[k].drop /\ call'[k].found = call[k].found
      /\ call'[k].pc = Onward(k, call'[k].todo, call[k].fresh)
  BY <1>0, AddLinkCall
<1>7. user[new.parent].email = Mail(call[k])
  BY <1>1, <1>4 DEF Base, KnowledgeInv, Knows
<1>8. EmailsOf(s)' = EmailsOf(s) \cup {Mail(call[k])}
  BY <1>1, <1>4, <1>7 DEF EmailsOf
<1>9. call'[k].list = call[k].list /\ call'[k].op = call[k].op
  BY <1>5 DEF Same
<1>10. CASE call[k].op # "link"
  <2>1. Rebuilt(call[k], s)
    BY <1>1, <1>2, <1>10, TendedRebuilt
  <2>2. Mail(call[k]) = Head(call[k].todo) /\ call[k].todo # <<>>
    BY <1>2, <1>10 DEF Mail
  <2>3. InList(call[k].todo) \subseteq EmailsOf(s)' \cup InList(call'[k].todo)
    BY <1>0, <1>6, <1>8, <2>2, CallFields, InListOf
  <2>4. Mail(call[k]) \in InList(call[k].list)
    <3>1. Head(call[k].todo) \in InList(call[k].todo)
      BY <1>0, <2>2, CallFields, InListOf
    <3>2. InList(call[k].todo) \subseteq InList(call[k].list)
      BY <1>0 DEF Formed, Listed
    <3> QED BY <2>2, <3>1, <3>2
  <2>5. ASSUME NEW l \in links', l.pupil = s
        PROVE  \/ l \in links /\ (l \in call[k].drop => l \in call'[k].drop)
               \/ user'[l.parent].email \in InList(call[k].list)
    BY <1>1, <1>4, <1>6, <1>7, <2>4
  <2>6. Rebuilt(call[k], s)'
    BY <1>0, <1>8, <1>9, <2>1, <2>3, <2>5, RebuiltGoes
  <2> QED BY <1>2, <1>5, <1>9, <1>10, <2>6, TendedNext
<1>11. CASE call[k].op = "link"
  <2>1. EmailsOf(s) = intended[s] /\ Mail(call[k]) = call[k].found.email
    BY <1>1, <1>11 DEF Tended, Mail
  <2>2. PICK d : d = call'[k]
    OBVIOUS
  <2>3. d.op = "link" /\ d.pc # "remove link" /\ d.found.email = Mail(call[k])
    BY <1>5, <1>6, <1>9, <1>11, <2>1, <2>2 DEF Formed, Placed
  <2>4. EmailsOf(s)' = intended'[s] \cup {d.found.email}
    BY <1>1, <1>8, <2>1, <2>3
  <2>5. d.pc = "finish"
    <3>1. call[k].list = <<>> /\ call[k].fresh = {}
      BY <1>0, <1>11 DEF Formed, Carried
    <3>2. call[k].todo = <<>>
      BY <1>0, <3>1 DEF Formed, Listed
    <3>3. call'[k].todo = <<>> /\ call'[k].pc = Onward(k, <<>>, {})
      BY <1>6, <3>1, <3>2
    <3>4. Onward(k, <<>>, {}) = "finish"
      BY <1>11, OnwardIs
    <3> QED BY <2>2, <3>3, <3>4
  <2> QED BY <2>2, <2>3, <2>4, <2>5 DEF Tended
<1> QED BY <1>10, <1>11

LEMMA RowTends ==
  ASSUME Base, NEW k \in Calls, NEW s, s \in call[k].pupils, Tended(call[k], s), UpdateRow(k)
  PROVE  Tended(call[k], s)'
<1>0. TypeOK /\ PupilsInv /\ Formed(call[k]) /\ Step(k)
  BY BaseFields DEF Step
<1>1. call[k].pc = "update row" /\ UNCHANGED <<links, intended>>
  BY DEF UpdateRow, At, history
<1>2. call[k].op \in {"edit", "update"}
  BY <1>0, <1>1, CallFields DEF Formed, Placed
<1>3. PICK d : d = call'[k]
  OBVIOUS
<1>4. d.op = call[k].op /\ d.pc = IF d.op = "edit" THEN "finish" ELSE "read links"
  BY <1>0, <1>3, UpdateRowCall DEF Same
<1>5. EmailsOf(s)' = EmailsOf(s)
  BY <1>0, <1>1, EmailsStay DEF Relinked
<1>6. d.op = "edit" => EmailsOf(s)' = intended'[s]
  BY <1>1, <1>4, <1>5 DEF Tended
<1> QED BY <1>2, <1>3, <1>4, <1>6 DEF Tended

LEMMA ReadTends ==
  ASSUME Base, NEW k \in Calls, NEW s, s \in call[k].pupils, Tended(call[k], s), ReadLinks(k)
  PROVE  Tended(call[k], s)'
<1>0. TypeOK /\ PupilsInv /\ Formed(call[k]) /\ Advances(k) /\ Step(k)
  BY BaseFields DEF Advances, Step
<1>1. call[k].pc = "read links" /\ UNCHANGED <<user, links>>
  BY DEF ReadLinks, At, tables
<1>2. call[k].op = "update" /\ call[k].todo = call[k].list
  BY <1>0, <1>1, CallFields DEF Formed, Placed, Listed
<1>3. s = Pupil(k)
  BY <1>2, PupilOf
<1>4. /\ Same(call[k], call'[k]) /\ Formed(call'[k])
  BY <1>0, AdvancesFormed
<1>5. PICK d : d = call'[k]
  OBVIOUS
<1>6. /\ d.todo = d.list /\ d.list = call[k].list /\ d.op = "update"
      /\ d.drop = Dropped(s, call[k].list)
  BY <1>0, <1>2, <1>3, <1>4, <1>5, ReadLinksCall DEF Same
<1>7. \A l \in links : l.pupil = s => l \in d.drop \/ user[l.parent].email \in InList(d.list)
  BY <1>6 DEF Dropped
<1>8. Rebuilt(call[k], s)'
  BY <1>1, <1>5, <1>6, <1>7 DEF Rebuilt
<1> QED BY <1>4, <1>5, <1>6, <1>8, TendedNext

LEMMA UnlinkTends ==
  ASSUME Base, NEW k \in Calls, NEW s, s \in call[k].pupils, Tended(call[k], s), Unlink(k)
  PROVE  Tended(call[k], s)'
<1>0. TypeOK /\ PupilsInv /\ Formed(call[k]) /\ Advances(k) /\ Step(k)
  BY BaseFields DEF Advances, Step
<1>1. call[k].pc = "unlink"
  BY DEF Unlink, At
<1>2. call[k].op = "update" /\ call[k].todo = call[k].list
  BY <1>0, <1>1, CallFields DEF Formed, Placed, Listed, Dropping
<1>3. Rebuilt(call[k], s)
  BY <1>1, <1>2, TendedRebuilt
<1>4. PICK l \in call[k].drop :
        /\ links' = links \ {l}
        /\ Goes(k, [call[k] EXCEPT !.drop = call[k].drop \ {l}, !.parent = l.parent,
                                   !.pc = "count"])
  BY DEF Unlink
<1>5. /\ Same(call[k], call'[k]) /\ call'[k].todo = call[k].todo
      /\ call'[k].drop = call[k].drop \ {l}
  BY <1>0, <1>4, UnlinkCall
<1>6. call'[k].list = call[k].list /\ call'[k].op = "update" /\ Formed(call'[k])
  BY <1>0, <1>2, <1>5, AdvancesFormed DEF Same
<1>7. \A x \in links' : x \in links /\ (x \in call[k].drop => x \in call'[k].drop)
  BY <1>4, <1>5
<1>8. Rebuilt(call[k], s)'
  BY <1>0, <1>2, <1>3, <1>5, <1>6, <1>7, RebuiltGoes
<1> QED BY <1>6, <1>8, TendedNext

LEMMA RemoveTends ==
  ASSUME Base, NEW k \in Calls, NEW s, s \in call[k].pupils, Tended(call[k], s), RemoveLink(k)
  PROVE  Tended(call[k], s)'
<1>0. TypeOK /\ PupilsInv /\ Formed(call[k]) /\ Advances(k) /\ Step(k)
  BY BaseFields DEF Advances, Step
<1>1. call[k].pc = "remove link" /\ UNCHANGED <<user, intended>> /\ links' = links \ call[k].drop
  BY DEF RemoveLink, At
<1>2. call[k].op = "unlink"
  BY <1>0, <1>1, CallFields DEF Formed, Placed
<1>3. EmailsOf(s) = intended[s] /\ \E l \in links : call[k].drop = {l}
  BY <1>1, <1>2 DEF Tended
<1>4. PICK l \in links : call[k].drop = {l}
  BY <1>3
<1>5. call[k].pupils = {s}
  BY <1>2, PupilOf
<1>6. l.pupil = s /\ l.parent = call[k].parent
  BY <1>0, <1>2, <1>4, <1>5 DEF Formed, Carried
<1>7. user[l.parent].email = call[k].found.email
  <2>1. Knows(call[k]) /\ Mail(call[k]) = call[k].found.email
    BY <1>1, <1>2 DEF Knows, Mail
  <2> QED BY <1>6, <2>1, BaseFields DEF Base, KnowledgeInv
<1>8. ASSUME NEW x \in links, x.pupil = s
      PROVE  user[x.parent].email = user[l.parent].email => x = l
  <2>1. user[x.parent].email = user[l.parent].email => x.parent = l.parent
    BY BaseFields DEF Base, KeysInv
  <2> QED BY <1>6, <1>8, <2>1 DEF Base, KeysInv
<1>9. EmailsOf(s)' = EmailsOf(s) \ {call[k].found.email}
  <2>1. ASSUME NEW x \in links', x.pupil = s
        PROVE  user[x.parent].email \in EmailsOf(s) \ {call[k].found.email}
    <3>1. x \in links /\ x # l
      BY <1>1, <1>4, <2>1
    <3> QED BY <1>7, <1>8, <2>1, <3>1, EmailsIn
  <2>2. ASSUME NEW x \in links, x.pupil = s, user[x.parent].email # call[k].found.email
        PROVE  x \in links'
    BY <1>1, <1>4, <1>7, <2>2
  <2>3. EmailsOf(s)' = {user[x.parent].email : x \in {y \in links' : y.pupil = s}}
    BY <1>1 DEF EmailsOf
  <2> QED BY <2>1, <2>2, <2>3 DEF EmailsOf
<1>10. PICK d : d = call'[k]
  OBVIOUS
<1>11. d.op = "unlink" /\ d.pc = "finish" /\ d.found = call[k].found
  BY <1>0, <1>2, <1>10, RemoveLinkCall DEF Same
<1>12. EmailsOf(s)' = intended'[s] \ {d.found.email}
  BY <1>1, <1>3, <1>9, <1>11
<1> QED BY <1>10, <1>11, <1>12 DEF Tended

LEMMA AdvancesTends ==
  ASSUME Base, NEW k \in Calls, NEW s, s \in call[k].pupils, Tended(call[k], s), Advances(k)
  PROVE  Tended(call[k], s)'
BY LookTends, FoundTends, AddTends, RowTends, ReadTends, UnlinkTends, RemoveTends DEF Advances

(* A student who is there has no links of another's making, and one who is *)
(* not there and on no call has none at all.                               *)
LEMMA BeginMinded ==
  ASSUME Base, NEW k \in Calls, Begin(k), NEW s \in Pupils, s \in call'[k].pupils,
         ~disturbed'[s], Minding(s)
  PROVE  Minding(s)'
<1>0. TypeOK /\ UNCHANGED <<user, links, intended, student>>
  BY BaseFields, BeginTables DEF tables
<1>1. On(s) = {}
  <2>1. ASSUME NEW first \in Call, Begins(k, first) PROVE On(s) = {}
    <3>1. call'[k] = first
      BY <1>0, <2>1, BeginsWith
    <3> QED BY <2>1, <3>1 DEF Begins
  <2>2. \E first : Begins(k, first)
    BY DEF Begin, CreateStudent, BulkImportStudents, UpdateStudent, LinkParent, UnlinkParent,
           PromoteStudents
  <2>3. PICK first : Begins(k, first)
    BY <2>2
  <2>4. call'[k] = first
    BY <1>0, <2>3 DEF Begins, TypeOK
  <2> QED BY <1>0, <2>3, <2>4 DEF Begins, TypeOK
<1>2. EmailsOf(s)' = EmailsOf(s)
  BY <1>0, EmailsStay DEF Relinked
<1>3. Frame(k)
  BY <1>0, BeginFormed
<1>4. PICK d : d = call'[k]
  OBVIOUS
<1>5. ASSUME d.op = "create", d.todo = d.list, d.pc = "take numbers", ~Present(s)
      PROVE  Tended(call[k], s)'
  <2>1. \A l \in links : l.pupil # s
    BY <1>1, <1>5 DEF Base, KeysInv, On
  <2>2. Rebuilt(call[k], s)'
    BY <1>0, <1>4, <1>5, <2>1 DEF Rebuilt
  <2> QED BY <1>4, <1>5, <2>2 DEF Tended
<1>6. ASSUME Present(s), d.op \in {"edit", "update", "link", "unlink", "promote"},
             d.pc # "finish", d.op = "update" => d.pc = "update row",
             d.pc = "remove link" => \E l \in links : d.drop = {l}
      PROVE  Tended(call[k], s)'
  <2>1. EmailsOf(s)' = intended'[s]
    BY <1>0, <1>1, <1>2, <1>6 DEF Minding
  <2> QED BY <1>0, <1>4, <1>6, <2>1 DEF Tended
<1>7. IF d.op = "create" /\ d.pc = "take numbers" THEN ~Present(s)
      ELSE d.op # "create" => Present(s)
  BY <1>0, <1>4, BeginFormed DEF Entering
<1>9. Tended(call[k], s)'
  <2>1. ASSUME NEW t \in Pupils, NEW c \in EntryClasses, NEW list \in GuardianLists,
               CreateStudent(k, t, c, list)
        PROVE  Tended(call[k], s)'
    <3>1. ~Present(s)
      BY <1>0, <1>4, <1>7, <2>1, CreateStudentCall
    <3> QED BY <1>0, <1>4, <1>5, <2>1, <3>1, CreateStudentCall
  <2>2. ASSUME NEW S \in SUBSET Pupils, NEW c \in EntryClasses, BulkImportStudents(k, S, c)
        PROVE  Tended(call[k], s)'
    <3>1. ~Present(s)
      BY <1>0, <1>4, <1>7, <2>2, BulkImportCall
    <3> QED BY <1>0, <1>4, <1>5, <2>2, <3>1, BulkImportCall
  <2>3. ASSUME NEW t \in Pupils, NEW e \in Edits, UpdateStudent(k, t, e[1], e[2])
        PROVE  Tended(call[k], s)'
    <3>1. Present(s)
      BY <1>0, <1>4, <1>7, <2>3, UpdateStudentCall
    <3> QED BY <1>0, <1>4, <1>6, <2>3, <3>1, UpdateStudentCall
  <2>4. ASSUME NEW t \in Pupils, NEW p \in UserIds, LinkParent(k, t, p)
        PROVE  Tended(call[k], s)'
    <3>1. Present(s)
      BY <1>0, <1>4, <1>7, <2>4, LinkParentCall
    <3> QED BY <1>0, <1>4, <1>6, <2>4, <3>1, LinkParentCall
  <2>5. ASSUME NEW l \in links, UnlinkParent(k, l)
        PROVE  Tended(call[k], s)'
    <3>1. Present(s)
      BY <1>0, <1>4, <1>7, <2>5, UnlinkParentCall
    <3> QED BY <1>0, <1>4, <1>6, <2>5, <3>1, UnlinkParentCall
  <2>6. ASSUME NEW S \in SUBSET Pupils, NEW c \in Classes, NEW e \in Classes \cup {NoClass},
               PromoteStudents(k, S, c, e)
        PROVE  Tended(call[k], s)'
    <3>1. Present(s)
      BY <1>0, <1>4, <1>7, <2>6, PromoteStudentsCall
    <3> QED BY <1>0, <1>4, <1>6, <2>6, <3>1, PromoteStudentsCall
  <2> QED BY <2>1, <2>2, <2>3, <2>4, <2>5, <2>6 DEF Begin
<1> QED BY <1>1, <1>3, <1>9, MindedGoesOn

(* Calls that begin or end what they do to a pupil at once. *)
LEMMA TakeNumbersMinded ==
  ASSUME Base, NEW k \in Calls, TakeNumbers(k), NEW s, s \in call[k].pupils, Minding(s)
  PROVE  Minding(s)'
<1>0. TypeOK /\ PupilsInv /\ Formed(call[k]) /\ Step(k)
  BY BaseFields DEF Step
<1>1. call[k].pc = "take numbers" /\ UNCHANGED links
  BY DEF TakeNumbers, At, tables
<1>2. call[k].op = "create"
  BY <1>0, <1>1, CallFields DEF Formed, Placed
<1>3. On(s) = {k} /\ Tended(call[k], s)
  BY MindedAlone
<1>4. Rebuilt(call[k], s)
  BY <1>1, <1>2, <1>3, TendedRebuilt
<1>5. /\ Frame(k) /\ Same(call[k], call'[k]) /\ call'[k].todo = call[k].todo
      /\ call'[k].drop = call[k].drop /\ call'[k].pc = Onward(k, call[k].todo, {})
  BY <1>0, TakeNumbersCall
<1>6. call'[k].list = call[k].list /\ call'[k].op = "create" /\ call'[k].pupils = call[k].pupils
  BY <1>2, <1>5 DEF Same
<1>7. call'[k].pc # "mail" /\ Formed(call'[k])
  <2>1. Onward(k, call[k].todo, {}) # "mail"
    BY <1>2, OnwardIs
  <2> QED BY <1>0, <1>5, <2>1, PupilsKept DEF PupilsInv
<1>8. Rebuilt(call[k], s)'
  BY <1>0, <1>1, <1>4, <1>5, <1>6, RebuiltStays
<1>9. Tended(call[k], s)'
  BY <1>6, <1>7, <1>8, TendedNext
<1> QED BY <1>3, <1>5, <1>6, <1>9, MindedGoesOn

(* Nothing is left to do, and the list is what is linked.                  *)
LEMMA RebuiltAll ==
  ASSUME NEW c, NEW s, Rebuilt(c, s), InList(c.todo) = {}, c.drop = {}
  PROVE  EmailsOf(s) = InList(c.list)
BY DEF Rebuilt, EmailsOf

LEMMA CommitMinded ==
  ASSUME Base, NEW k \in Calls, Commit(k), NEW s \in Pupils, s \in call[k].pupils, Minding(s)
  PROVE  Minding(s)'
<1>0. TypeOK /\ PupilsInv /\ Formed(call[k]) /\ Step(k)
  BY BaseFields DEF Step
<1>1. /\ call[k].op = "create" /\ call[k].pc = "commit" /\ UNCHANGED links
      /\ intended'[s] = InList(call[k].list)
  BY <1>0, CommitRows DEF Commit
<1>2. On(s) = {k} /\ Tended(call[k], s)
  BY MindedAlone
<1>3. Rebuilt(call[k], s)
  BY <1>1, <1>2, TendedRebuilt
<1>4. InList(call[k].todo) = {} /\ call[k].drop = {}
  <2>1. call[k].todo = <<>>
    BY <1>0, <1>1 DEF Formed, Listed
  <2>2. call[k].drop = {}
    BY <1>0, <1>1 DEF Formed, Carried, Dropping
  <2> QED BY <2>1, <2>2, InListOf
<1>5. EmailsOf(s)' = intended'[s]
  BY <1>0, <1>1, <1>3, <1>4, RebuiltAll, EmailsStay DEF Relinked
<1>6. CASE call'[k] = Idle
  BY <1>0, <1>2, <1>5, <1>6, CommitCall, MindedEnds
<1>7. CASE call'[k] # Idle
  <2>1. Frame(k) /\ Same(call[k], call'[k]) /\ call'[k].pc = "mail"
    BY <1>0, <1>7, CommitCall
  <2>2. call'[k].op = "create" /\ call'[k].pupils = call[k].pupils
    BY <1>1, <2>1 DEF Same
  <2>3. PICK d : d = call'[k]
    OBVIOUS
  <2>4. Tended(call[k], s)'
    BY <1>5, <2>1, <2>2, <2>3 DEF Tended
  <2> QED BY <1>2, <2>1, <2>2, <2>4, MindedGoesOn
<1> QED BY <1>6, <1>7

LEMMA SendMailsMinded ==
  ASSUME Base, NEW k \in Calls, SendMails(k), NEW s \in Pupils, s \in call[k].pupils, Minding(s)
  PROVE  Minding(s)'
<1>0. TypeOK /\ PupilsInv /\ Formed(call[k]) /\ Step(k)
  BY BaseFields DEF Step
<1>1. call[k].pc = "mail" /\ UNCHANGED <<links, intended>>
  BY DEF SendMails, At, tables
<1>2. On(s) = {k} /\ Tended(call[k], s)
  BY MindedAlone
<1>3. EmailsOf(s)' = EmailsOf(s)
  BY <1>0, <1>1, EmailsStay DEF Relinked
<1>4. CASE call[k].op = "create"
  <2>1. EmailsOf(s) = intended[s]
    BY <1>1, <1>2, <1>4 DEF Tended
  <2> QED BY <1>0, <1>1, <1>2, <1>3, <1>4, <2>1, SendMailsCall, MindedEnds
<1>5. CASE call[k].op # "create"
  <2>1. call[k].op = "update"
    BY <1>0, <1>1, <1>5, CallFields DEF Formed, Placed
  <2>2. /\ Frame(k) /\ Same(call[k], call'[k]) /\ call'[k].todo = call[k].todo
        /\ call'[k].drop = call[k].drop
    BY <1>0, <1>5, SendMailsCall
  <2>3. call'[k].list = call[k].list /\ call'[k].op = "update" /\ call'[k].pupils = call[k].pupils
    BY <2>1, <2>2 DEF Same
  <2>4. Rebuilt(call[k], s)
    BY <1>1, <1>2, <2>1 DEF Tended
  <2>5. Rebuilt(call[k], s)'
    BY <1>0, <1>1, <2>2, <2>3, <2>4, RebuiltStays
  <2>6. Formed(call'[k])
    BY <1>0, PupilsKept DEF PupilsInv
  <2>7. Tended(call[k], s)'
    BY <2>3, <2>5, <2>6, TendedNext
  <2> QED BY <1>2, <2>2, <2>3, <2>7, MindedGoesOn
<1> QED BY <1>4, <1>5

LEMMA FinishMinded ==
  ASSUME Base, NEW k \in Calls, Finish(k), NEW s \in Pupils, s \in call[k].pupils, Minding(s)
  PROVE  Minding(s)'
<1>0. TypeOK /\ PupilsInv /\ Formed(call[k]) /\ Step(k)
  BY BaseFields DEF Step
<1>1. call[k].pc = "finish" /\ UNCHANGED links
  BY DEF Finish, At, tables
<1>2. On(s) = {k} /\ Tended(call[k], s)
  BY MindedAlone
<1>3. call[k].op \in {"edit", "update", "link", "unlink"}
  BY <1>0, <1>1, CallFields DEF Formed, Placed
<1>4. s = Pupil(k)
  BY <1>3, PupilOf
<1>5. EmailsOf(s)' = EmailsOf(s)
  BY <1>0, <1>1, EmailsStay DEF Relinked
<1>6. intended'[s] = CASE call[k].op = "update" -> InList(call[k].list)
                       [] call[k].op = "link"   -> intended[s] \cup {call[k].found.email}
                       [] call[k].op = "unlink" -> intended[s] \ {call[k].found.email}
                       [] OTHER -> intended[s]
  BY <1>0, <1>4 DEF Finish, TypeOK
<1>7. EmailsOf(s) = intended'[s]
  <2>1. CASE call[k].op = "update"
    <3>1. Rebuilt(call[k], s)
      BY <1>1, <1>2, <2>1, TendedRebuilt
    <3>2. call[k].todo = <<>>
      BY <1>0, <1>1 DEF Formed, Listed
    <3>3. call[k].drop = {}
      BY <1>0, <1>1, <2>1 DEF Formed, Carried, Dropping
    <3>4. EmailsOf(s) = InList(call[k].list)
      BY <3>1, <3>2, <3>3, InListOf, RebuiltAll
    <3> QED BY <1>6, <2>1, <3>4
  <2>2. CASE call[k].op = "link"
    BY <1>1, <1>2, <1>6, <2>2 DEF Tended
  <2>3. CASE call[k].op = "unlink"
    BY <1>1, <1>2, <1>6, <2>3 DEF Tended
  <2>4. CASE call[k].op = "edit"
    BY <1>1, <1>2, <1>6, <2>4 DEF Tended
  <2> QED BY <1>3, <2>1, <2>2, <2>3, <2>4
<1>8. Frame(k) /\ call'[k] = Idle
  BY <1>0, EndsIdle DEF Finish
<1> QED BY <1>2, <1>5, <1>7, <1>8, MindedEnds

LEMMA MoveMinded ==
  ASSUME Base, NEW k \in Calls, Move(k), NEW s \in Pupils, s \in call[k].pupils, Minding(s)
  PROVE  Minding(s)'
<1>0. TypeOK /\ PupilsInv /\ Formed(call[k]) /\ Step(k)
  BY BaseFields DEF Step
<1>1. call[k].pc = "move" /\ UNCHANGED <<links, intended>>
  BY DEF Move, At, history
<1>2. On(s) = {k} /\ Tended(call[k], s)
  BY MindedAlone
<1>3. call[k].op = "promote"
  BY <1>0, <1>1, CallFields DEF Formed, Placed
<1>4. EmailsOf(s)' = intended'[s]
  BY <1>0, <1>1, <1>2, <1>3, EmailsStay DEF Relinked, Tended
<1> QED BY <1>0, <1>2, <1>4, EndsIdle, MindedEnds DEF Move

LEMMA FailsMinded ==
  ASSUME Base, NEW k \in Calls, Fails(k), NEW s \in Pupils, s \in call[k].pupils,
         ~disturbed'[s], Minding(s)
  PROVE  Minding(s)'
<1>0. TypeOK
  BY BaseFields
<1>1. ~Present(s) /\ UNCHANGED student
  BY DEF Fails
<1>2. ~Present(s)'
  BY <1>1 DEF Present
<1>3. On(s) = {k} /\ Frame(k) /\ call'[k] = Idle
  BY <1>0, MindedAlone, FailsCall
<1> QED BY <1>2, <1>3, MindedEnds

(* Together: a step keeps GuardiansInv. *)
LEMMA GuardiansKept ==
  ASSUME Base, GuardiansInv, NEW k \in Calls, Begin(k) \/ Step(k) \/ CutOff(k)
  PROVE  GuardiansInv'
<1> SUFFICES ASSUME NEW s \in Pupils, ~disturbed'[s]
             PROVE  Minding(s)'
  BY DEF GuardiansInv
<1>1. Minding(s)
  BY HistoryOwn DEF GuardiansInv
<1>2. CASE s \notin call[k].pupils /\ s \notin call'[k].pupils
  BY <1>1, <1>2, OthersMinded
<1>3. CASE s \in call[k].pupils /\ ~Begin(k)
  <2>1. CASE Advances(k)
    <3>1. On(s) = {k} /\ Tended(call[k], s)
      BY <1>1, <1>3, MindedAlone
    <3>2. Tended(call[k], s)'
      BY <1>3, <2>1, <3>1, AdvancesTends
    <3>3. Frame(k) /\ Same(call[k], call'[k])
      BY <2>1, BaseFields, AdvancesFormed
    <3>4. s \in call'[k].pupils
      BY <1>3, <3>3 DEF Same
    <3> QED BY <3>1, <3>2, <3>3, <3>4, MindedGoesOn
  <2>2. CASE ~Advances(k)
    BY <1>1, <1>3, <2>2, NextKinds, TakeNumbersMinded, CommitMinded, SendMailsMinded,
       FinishMinded, MoveMinded, FailsMinded
  <2> QED BY <2>1, <2>2
<1>4. CASE Begin(k)
  <2>1. ~Busy(k)
    BY <1>4 DEF Begin, Begins, CreateStudent, BulkImportStudents, UpdateStudent, LinkParent,
                UnlinkParent, PromoteStudents
  <2>2. call[k].pupils = {}
    BY <2>1, BaseFields DEF Busy, Formed, Placed, Carried
  <2> QED BY <1>1, <1>2, <1>4, <2>2, BeginMinded
<1>5. CASE s \in call'[k].pupils /\ s \notin call[k].pupils /\ ~Begin(k)
  <2>1. call'[k] = Idle \/ Same(call[k], call'[k])
    BY <1>5, NextKinds, BaseFields, TakeNumbersCall, CommitCall, SendMailsCall, EndsIdle,
       AdvancesFormed, FailsCall DEF Finish, Move
  <2> QED BY <1>5, <2>1, IdleFields DEF Same
<1> QED BY <1>2, <1>3, <1>4, <1>5

(* Every pupil that is not disturbed is minded throughout. *)
LEMMA GuardiansInvAlways == Spec => []GuardiansInv
<1>1. Init => GuardiansInv
  <2> SUFFICES ASSUME Init, NEW s \in Pupils PROVE Minding(s)
    BY DEF GuardiansInv
  <2>1. On(s) = {} /\ ~Present(s)
    BY IdleFields DEF Init, On, Present
  <2> QED BY <2>1 DEF Minding
<1>2. Base /\ GuardiansInv /\ [Next]_vars => GuardiansInv'
  <2>1. ASSUME GuardiansInv, UNCHANGED vars PROVE GuardiansInv'
    <3>1. UNCHANGED <<student, user, links, call, intended, disturbed>>
      BY <2>1 DEF vars, tables, history
    <3>2. ASSUME NEW s \in Pupils
          PROVE  /\ On(s)' = On(s) /\ EmailsOf(s)' = EmailsOf(s) /\ (Present(s)' <=> Present(s))
                 /\ \A k \in Calls : Tended(call[k], s) => Tended(call[k], s)'
      <4>1. On(s)' = On(s) /\ EmailsOf(s)' = EmailsOf(s) /\ (Present(s)' <=> Present(s))
        BY <3>1 DEF On, EmailsOf, Present
      <4>2. ASSUME NEW k \in Calls, Tended(call[k], s) PROVE Tended(call[k], s)'
        BY <3>1, <4>1, <4>2 DEF Tended, Rebuilt
      <4> QED BY <4>1, <4>2
    <3>3. ASSUME NEW s \in Pupils, Minding(s) PROVE Minding(s)'
      BY <3>1, <3>2, <3>3 DEF Minding, On
    <3> QED BY <2>1, <3>1, <3>3 DEF GuardiansInv
  <2> QED BY <2>1, GuardiansKept DEF Next
<1> QED BY <1>1, <1>2, BaseAlways, PTL DEF Spec

(* GuardiansAsGiven, for every number of pupils, accounts and calls: a     *)
(* pupil no call is about and nothing has disturbed has the guardians his  *)
(* forms, links and unlinks gave, although updateStudent rebuilds them one *)
(* by one and deletes accounts that lose their last child.                 *)
THEOREM GuardiansAsGivenAlways == Spec => []GuardiansAsGiven
<1>1. GuardiansInv => GuardiansAsGiven
  BY DEF GuardiansInv, GuardiansAsGiven, Minding
<1> QED BY <1>1, GuardiansInvAlways, PTL

-----------------------------------------------------------------------------
(* Accounts and children.                                                  *)

(* A pupil and his links keep an account. *)
LEMMA ChildOf ==
  ASSUME NEW l \in links, Present(l.pupil) PROVE Children(l.parent) # {}
BY DEF Children

(* Pupils that were entered stay. *)
LEMMA PresentStays ==
  ASSUME Base, NEW k \in Calls, Begin(k) \/ Step(k) \/ CutOff(k)
  PROVE  \A s \in Pupils : Present(s) => Present(s)'
BY CommitNumbers, NumbersStay

(* A call that advances keeps the accounts it has made.                    *)
LEMMA AdvancesFresh ==
  ASSUME TypeOK, PupilsInv, NEW k \in Calls, Advances(k)
  PROVE  IF MakeParent(k) /\ ~EmailTaken(k, Email(k))
         THEN /\ call'[k].fresh = call[k].fresh \cup {lastUser + 1}
              /\ call'[k].parent = lastUser + 1 /\ call'[k].pc = "find link"
         ELSE call'[k].fresh = call[k].fresh
<1>0. Formed(call[k])
  BY DEF PupilsInv
<1>1. CASE MakeParent(k) /\ ~EmailTaken(k, Email(k))
  BY <1>1, MakeParentCall
<1>2. CASE FindLink(k)
  <2>1. call[k].todo # <<>>
    BY <1>0, <1>2 DEF FindLink, At, Formed, Listed, Linking
  <2> QED BY <1>2, <2>1, FindLinkCall DEF FindLink, MakeParent, At
<1>3. CASE Unlink(k)
  BY <1>3, UnlinkCall DEF Unlink, MakeParent, At
<1>4. CASE ~(MakeParent(k) /\ ~EmailTaken(k, Email(k))) /\ ~FindLink(k) /\ ~Unlink(k)
  BY <1>4, FindParentCall, UpdateRowCall, ReadLinksCall, CountChildrenCall, RemoveLinkCall,
     SavePhoneCall, AddLinkCall, DeleteParentCall DEF Advances
<1> QED BY <1>1, <1>2, <1>3, <1>4

(* A transaction links every account it makes, and nobody else takes the   *)
(* link.                                                                   *)
LEMMA FreshOthers ==
  ASSUME Base, FreshInv, NEW k \in Calls, Begin(k) \/ Step(k) \/ CutOff(k),
         NEW j \in Calls \ {k}, Holds(j), NEW i \in call[j].fresh,
         NEW l \in links, l.parent = i
  PROVE  l \in links'
<1>1. CASE Fails(k)
  <2>1. ~Holds(k)
    BY BaseFields DEF PupilsInv
  <2> QED BY <1>1, <2>1 DEF Fails
<1>2. CASE AddLink(k) /\ ~(Linked(Pupil(k), call[k].parent) \/ user[call[k].parent] = NoUser)
  BY <1>2 DEF AddLink
<1>3. CASE Unlink(k) \/ RemoveLink(k)
  <2>1. l \notin call[k].drop
    BY DEF Base, SecretInv
  <2> QED BY <1>3, <2>1 DEF Unlink, RemoveLink
<1> QED BY <1>1, <1>2, <1>3, LinksMove

LEMMA FreshOwn ==
  ASSUME Base, FreshInv, NEW k \in Calls, Advances(k), Holds(k), NEW i \in call'[k].fresh
  PROVE  (Linking(call'[k]) /\ call'[k].parent = i) \/ \E l \in links' : l.parent = i
<1>0. TypeOK /\ PupilsInv /\ Formed(call[k])
  BY BaseFields
<1>1. call[k].op = "create" /\ call[k].pc # "mail"
  BY <1>0, HoldsEntering
<1>2. call'[k].op = "create"
  BY <1>0, <1>1, AdvancesFormed DEF Same
<1>3. CASE MakeParent(k) /\ ~EmailTaken(k, Email(k))
  <2>1. CASE i \in call[k].fresh
    <3>1. call[k].pc = "make parent" /\ UNCHANGED links
      BY <1>3 DEF MakeParent, At
    <3> QED BY <2>1, <3>1 DEF FreshInv, Linking
  <2>2. CASE i \notin call[k].fresh
    BY <1>0, <1>3, <2>2, AdvancesFresh DEF Linking
  <2> QED BY <2>1, <2>2
<1>4. CASE ~(MakeParent(k) /\ ~EmailTaken(k, Email(k)))
  <2>0. i \in call[k].fresh
    BY <1>0, <1>4, AdvancesFresh
  <2>1. CASE FindParent(k)
    <3>1. call[k].pc = "find parent" /\ UNCHANGED links
      BY <2>1 DEF FindParent, At, tables
    <3> QED BY <2>0, <3>1 DEF FreshInv, Linking
  <2>2. CASE FindLink(k)
    <3>1. call[k].todo # <<>> /\ UNCHANGED links
      BY <1>0, <2>2 DEF FindLink, At, Formed, Listed, Linking, tables
    <3>2. \/ call[k].parent = i
          \/ \E l \in links : l.parent = i
      BY <2>0 DEF FreshInv
    <3>3. \/ Linked(Pupil(k), call[k].parent)
          \/ call'[k].pc = "add link" /\ call'[k].parent = call[k].parent
      BY <1>0, <2>2, <3>1, FindLinkCall
    <3> QED BY <1>2, <3>1, <3>2, <3>3 DEF Linked, Linking
  <2>3. CASE AddLink(k) /\ ~(Linked(Pupil(k), call[k].parent) \/ user[call[k].parent] = NoUser)
    <3>1. PICK new \in Link : new.parent = call[k].parent /\ links' = links \cup {new}
      BY <1>0, <2>3, AddLinkTyped
    <3> QED BY <2>0, <3>1 DEF FreshInv
  <2>4. CASE \/ UpdateRow(k) \/ ReadLinks(k) \/ Unlink(k) \/ CountChildren(k) \/ RemoveLink(k)
             \/ SavePhone(k) \/ DeleteParent(k)
    <3>1. call[k].pc \in {"update row", "read links", "unlink", "count", "remove link",
                          "save phone", "delete parent"}
      BY <2>4 DEF UpdateRow, ReadLinks, Unlink, CountChildren, RemoveLink, SavePhone,
                  DeleteParent, At
    <3> QED BY <1>0, <1>1, <3>1 DEF Formed, Placed
  <2> QED BY <1>4, <2>1, <2>2, <2>3, <2>4 DEF Advances
<1> QED BY <1>3, <1>4

LEMMA FreshKept ==
  ASSUME Base, FreshInv, NEW k \in Calls, Begin(k) \/ Step(k) \/ CutOff(k)
  PROVE  FreshInv'
<1>0. TypeOK /\ PupilsInv /\ Formed(call[k]) /\ Frame(k)
  BY BaseFields, CallsTyped
<1>1. ASSUME NEW j \in Calls, Holds(j)', NEW i \in call'[j].fresh
      PROVE  (Linking(call'[j]) /\ call'[j].parent = i) \/ \E l \in links' : l.parent = i
  <2>1. CASE j # k
    <3>1. call'[j] = call[j] /\ Holds(j) /\ i \in call[j].fresh
      BY <1>0, <1>1, <2>1 DEF Frame, Holds
    <3>2. (Linking(call[j]) /\ call[j].parent = i) \/ \E l \in links : l.parent = i
      BY <3>1 DEF FreshInv
    <3> QED BY <2>1, <3>1, <3>2, FreshOthers
  <2>2. CASE j = k
    <3>1. CASE Advances(k)
      <4>1. Holds(k)
        BY <1>0, <1>1, <2>2, <3>1, AdvancesFormed DEF Holds
      <4> QED BY <1>1, <2>2, <3>1, <4>1, FreshOwn
    <3>2. CASE TakeNumbers(k)
      <4>1. call[k].fresh = {}
        BY <1>0, <3>2 DEF TakeNumbers, At, Formed, Listed
      <4> QED BY <1>0, <1>1, <2>2, <3>2, <4>1, TakeNumbersCall
    <3>3. CASE SendMails(k)
      <4>1. call[k].start = 0
        BY <1>0, <3>3 DEF SendMails, At, Formed, Carried, Entering
      <4> QED BY <1>0, <1>1, <2>2, <3>3, <4>1, SendMailsCall, IdleFields DEF Holds
    <3>4. CASE Begin(k) \/ Commit(k) \/ Finish(k) \/ Move(k) \/ Fails(k)
      <4>1. call'[k].start = 0
        BY <1>0, <3>4, BeginFormed, CommitCall, EndsIdle, FailsCall, IdleFields DEF Finish, Move
      <4> QED BY <1>1, <2>2, <4>1 DEF Holds
    <3> QED BY <3>1, <3>2, <3>3, <3>4, NextKinds
  <2> QED BY <2>1, <2>2
<1>2. \A j \in Calls : Linking(call[j])' <=> Linking(call'[j])
  BY DEF Linking
<1> QED BY <1>1, <1>2 DEF FreshInv

(* Priming a call primes what it answers for. *)
LEMMA AnswersIs ==
  \A j \in Calls : \A i : Answers(call[j], i)' <=> Answers(call'[j], i)
BY DEF Answers, Linking

(* An account that comes is answered for by the call that makes it or      *)
(* saves it again.                                                         *)
LEMMA ComesAnswered ==
  ASSUME Base, NEW k \in Calls, Begin(k) \/ Step(k) \/ CutOff(k),
         NEW i \in UserIds, user[i] = NoUser, user'[i] # NoUser
  PROVE  Answers(call'[k], i)
<1>0. TypeOK /\ PupilsInv /\ Formed(call[k])
  BY BaseFields
<1>1. CASE MakeParent(k) /\ ~EmailTaken(k, Email(k))
  <2>1. call[k].op \in {"create", "update"} /\ call[k].pc = "make parent"
        /\ \E new \in User : user' = [user EXCEPT ![lastUser + 1] = new]
    BY <1>0, <1>1, MakeParentTyped
  <2>2. i = lastUser + 1
    BY <1>0, <2>1 DEF TypeOK
  <2>3. /\ call'[k].pc = "find link" /\ call'[k].parent = i /\ i \in call'[k].fresh
        /\ call'[k].start = call[k].start /\ call'[k].op = call[k].op
    BY <1>0, <1>1, <2>2, MakeParentCall DEF Same
  <2>4. CASE call[k].op = "update"
    BY <2>3, <2>4 DEF Answers, Linking
  <2>5. CASE call[k].op = "create"
    <3>1. Holds(k)
      BY <1>0, <2>1, <2>5, HoldsEntering
    <3> QED BY <2>3, <3>1 DEF Answers, Holds
  <2> QED BY <2>1, <2>4, <2>5
<1>2. CASE SavePhone(k) /\ ~(user[call[k].parent] = NoUser /\ EmailTaken(k, Email(k)))
  <2>1. call[k].op = "update" /\ user' = [user EXCEPT ![call[k].parent] = call[k].found]
    BY <1>0, <1>2, SavePhoneTyped
  <2>2. i = call[k].parent
    BY <1>0, <2>1 DEF TypeOK
  <2>3. call'[k].op = "update" /\ call'[k].pc = "find link" /\ call'[k].parent = i
    BY <1>0, <1>2, <2>1, <2>2, SavePhoneCall DEF Same
  <2> QED BY <2>3 DEF Answers, Linking
<1>3. CASE Fails(k)
  BY <1>3, FailsTyped
<1>4. CASE DeleteParent(k) /\ ~(Children(call[k].parent) # {} \/ call[k].parent \in Kept)
  BY <1>0, <1>4, DeleteParentTyped DEF TypeOK
<1> QED BY <1>1, <1>2, <1>3, <1>4, UsersMove

(* A child is taken from it by a call that counts those left, or by        *)
(* unlinkParent.                                                           *)
LEMMA ChildLost ==
  ASSUME Base, NEW k \in Calls, Begin(k) \/ Step(k) \/ CutOff(k),
         NEW i \in UserIds, Children(i) # {}, i \notin released'
  PROVE  Children(i)' # {} \/ Answers(call'[k], i)
<1>0. TypeOK /\ PupilsInv /\ Formed(call[k])
  BY BaseFields
<1>1. PICK l \in links : l.parent = i /\ Present(l.pupil)
  BY DEF Children
<1>2. Present(l.pupil)'
  BY <1>1, BaseFields, PresentStays
<1>3. CASE l \in links'
  BY <1>1, <1>2, <1>3 DEF Children
<1>4. CASE l \notin links'
  <2>1. CASE Fails(k)
    <3>1. Holds(k) /\ l.pupil \in call[k].pupils
      BY <1>4, <2>1 DEF Fails
    <3>2. Entering(call[k])
      BY <1>0, <3>1, HoldsEntering
    <3> QED BY <1>0, <1>1, <3>1, <3>2 DEF PupilsInv
  <2>2. CASE AddLink(k) /\ ~(Linked(Pupil(k), call[k].parent) \/ user[call[k].parent] = NoUser)
    BY <1>4, <2>2 DEF AddLink
  <2>3. CASE Unlink(k)
    <3>1. PICK x \in call[k].drop :
            /\ links' = links \ {x}
            /\ Goes(k, [call[k] EXCEPT !.drop = call[k].drop \ {x}, !.parent = x.parent,
                                       !.pc = "count"])
      BY <2>3 DEF Unlink
    <3>2. x = l
      BY <1>4, <3>1
    <3>3. call'[k].pc = "count" /\ call'[k].parent = i
      BY <1>0, <1>1, <3>1, <3>2, UnlinkCall
    <3> QED BY <3>3 DEF Answers
  <2>4. CASE RemoveLink(k)
    <3>1. l \in call[k].drop /\ call[k].parent \in released' /\ call[k].pc = "remove link"
      BY <1>4, <2>4 DEF RemoveLink, At
    <3>2. call[k].op = "unlink"
      BY <1>0, <3>1, CallFields DEF Formed, Placed
    <3>3. l.parent = call[k].parent
      BY <1>0, <3>1, <3>2 DEF Formed, Carried
    <3> QED BY <1>1, <3>1, <3>3
  <2> QED BY <1>4, <2>1, <2>2, <2>3, <2>4, LinksMove
<1> QED BY <1>3, <1>4

(* The pupil of a call that is under way and is not entering him is there. *)
LEMMA PupilThere ==
  ASSUME Base, NEW k \in Calls, call[k].op = "update"
  PROVE  Pupil(k) \in call[k].pupils /\ Pupil(k) \in Pupils /\ Present(Pupil(k))
<1>1. TypeOK /\ PupilsInv /\ Formed(call[k])
  BY BaseFields
<1>2. call[k].pupils # {}
  BY <1>1 DEF Formed, Carried
<1>3. Pupil(k) \in call[k].pupils /\ Pupil(k) \in Pupils
  BY <1>1, <1>2, PupilIs
<1> QED BY <1>1, <1>3 DEF PupilsInv, Entering

(* Who answers for an account goes on to, or has seen to it.               *)
LEMMA AnswererGoesOn ==
  ASSUME Base, NEW k \in Calls, Advances(k), NEW i \in UserIds, user'[i] # NoUser,
         Answers(call[k], i)
  PROVE  Children(i)' # {} \/ Answers(call'[k], i)
<1>0. TypeOK /\ PupilsInv /\ Formed(call[k]) /\ Step(k)
  BY BaseFields DEF Advances, Step
<1>1. /\ Same(call[k], call'[k]) /\ call'[k].start = call[k].start
      /\ call'[k].op = call[k].op
  BY <1>0, AdvancesFormed DEF Same
<1>2. CASE call[k].start # 0 /\ i \in call[k].fresh
  <2>1. i \in call'[k].fresh
    BY <1>0, <1>2, AdvancesFresh
  <2> QED BY <1>1, <1>2, <2>1 DEF Answers
<1>3. CASE call[k].op = "update" /\ Linking(call[k]) /\ call[k].parent = i
  <2>0. PICK s : s = Pupil(k)
    OBVIOUS
  <2>1. s \in Pupils /\ Present(s)'
    <3>1. s \in Pupils /\ Present(s)
      BY <1>3, <2>0, PupilThere
    <3> QED BY <3>1, <1>0, BaseFields, PresentStays
  <2>2. CASE SavePhone(k) /\ ~(user[call[k].parent] = NoUser /\ EmailTaken(k, Email(k)))
    <3>1. call'[k].pc = "find link" /\ call'[k].parent = i
      BY <1>0, <1>3, <2>2, SavePhoneCall
    <3> QED BY <1>1, <1>3, <3>1 DEF Answers, Linking
  <2>3. CASE FindLink(k)
    <3>1. call[k].todo # <<>> /\ UNCHANGED links
      BY <1>0, <2>3 DEF FindLink, At, Formed, Listed, Linking, tables
    <3>2. CASE Linked(Pupil(k), call[k].parent)
      <4>1. PICK l \in links : l.pupil = s /\ l.parent = i
        BY <1>3, <2>0, <3>2 DEF Linked
      <4> QED BY <2>1, <3>1, <4>1 DEF Children
    <3>3. CASE ~Linked(Pupil(k), call[k].parent)
      <4>1. call'[k].pc = "add link" /\ call'[k].parent = i
        BY <1>0, <1>3, <2>3, <3>1, <3>3, FindLinkCall
      <4> QED BY <1>1, <1>3, <4>1 DEF Answers, Linking
    <3> QED BY <3>2, <3>3
  <2>4. CASE AddLink(k) /\ ~(Linked(Pupil(k), call[k].parent) \/ user[call[k].parent] = NoUser)
    <3>1. PICK new \in Link : /\ new.pupil = s /\ new.parent = call[k].parent
                              /\ links' = links \cup {new}
      BY <1>0, <2>0, <2>4, AddLinkTyped
    <3> QED BY <1>3, <2>1, <3>1 DEF Children
  <2>5. CASE \/ FindParent(k) \/ UpdateRow(k) \/ ReadLinks(k) \/ Unlink(k) \/ CountChildren(k)
             \/ RemoveLink(k) \/ MakeParent(k) \/ DeleteParent(k)
    BY <1>3, <2>5
    DEF FindParent, UpdateRow, ReadLinks, Unlink, CountChildren, RemoveLink, MakeParent,
        DeleteParent, At, Linking
  <2> QED BY <2>2, <2>3, <2>4, <2>5 DEF Advances
<1>4. CASE call[k].pc \in {"count", "delete parent"} /\ call[k].parent = i
  <2>1. CASE CountChildren(k)
    <3>1. UNCHANGED <<student, links>>
      BY <2>1 DEF CountChildren, tables
    <3>2. Children(i)' = Children(i)
      BY <3>1 DEF Children, Present
    <3>3. CASE Children(i) # {}
      BY <3>2, <3>3
    <3>4. CASE Children(i) = {}
      <4>1. call'[k].pc = "delete parent" /\ call'[k].parent = i
        BY <1>0, <1>4, <2>1, <3>4, CountChildrenCall
      <4> QED BY <4>1 DEF Answers
    <3> QED BY <3>3, <3>4
  <2>2. CASE DeleteParent(k) /\ ~(Children(call[k].parent) # {} \/ call[k].parent \in Kept)
    BY <1>0, <1>4, <2>2, DeleteParentTyped DEF TypeOK
  <2>3. CASE \/ FindParent(k) \/ FindLink(k) \/ UpdateRow(k) \/ ReadLinks(k) \/ Unlink(k)
             \/ RemoveLink(k) \/ MakeParent(k) \/ SavePhone(k) \/ AddLink(k)
    BY <1>4, <2>3
    DEF FindParent, FindLink, UpdateRow, ReadLinks, Unlink, RemoveLink, MakeParent, SavePhone,
        AddLink, At
  <2> QED BY <2>1, <2>2, <2>3 DEF Advances
<1> QED BY <1>2, <1>3, <1>4 DEF Answers

(* It is cut off only with a disturbance, or the account goes with it.     *)
LEMMA AnswererEnds ==
  ASSUME Base, FreshInv, NEW k \in Calls, Begin(k) \/ Step(k) \/ CutOff(k), ~Advances(k),
         NEW i \in UserIds, user'[i] # NoUser, \A s \in Pupils : ~disturbed'[s],
         Answers(call[k], i)
  PROVE  Children(i)' # {}
<1>0. TypeOK /\ PupilsInv /\ Formed(call[k])
  BY BaseFields
<1>1. CASE Commit(k)
  <2>1. call[k].op = "create" /\ call[k].pc = "commit" /\ Holds(k) /\ UNCHANGED links
    BY <1>0, <1>1, CommitRows DEF Commit
  <2>2. i \in call[k].fresh
    BY <2>1 DEF Answers
  <2>3. PICK l \in links : l.parent = i
    BY <2>1, <2>2 DEF FreshInv, Linking
  <2>4. l.pupil \in call[k].pupils
    BY <2>1, <2>2, <2>3 DEF Base, SecretInv
  <2>5. Present(l.pupil)'
    BY <1>1, <2>4, BaseFields, CommitNumbers
  <2> QED BY <2>1, <2>3, <2>5 DEF Children
<1>2. CASE Fails(k)
  <2>1. CASE call[k].start # 0 /\ i \in call[k].fresh
    BY <1>2, <2>1 DEF Fails, Holds
  <2>2. CASE ~(call[k].start # 0 /\ i \in call[k].fresh)
    <3>1. call[k].op = "update"
      BY <1>0, <2>2, CallFields DEF Answers, Formed, Placed
    <3> QED BY <1>2, <3>1, PupilThere DEF Fails
  <2> QED BY <2>1, <2>2
<1>3. CASE Begin(k) \/ TakeNumbers(k) \/ SendMails(k) \/ Finish(k) \/ Move(k)
  <2>1. call[k].pc \in {"idle", "take numbers", "mail", "finish", "move"}
    BY <1>3 DEF TakeNumbers, SendMails, Finish, Move, At, Busy, Begin, Begins, CreateStudent,
                BulkImportStudents, UpdateStudent, LinkParent, UnlinkParent, PromoteStudents
  <2>2. call[k].start = 0
    <3>1. call[k].pc \in {"idle", "finish", "move"} => call[k].op # "create"
      BY <1>0 DEF Formed, Placed
    <3> QED BY <1>0, <2>1, <3>1 DEF Formed, Carried, Entering
  <2> QED BY <2>1, <2>2 DEF Answers, Linking
<1> QED BY <1>1, <1>2, <1>3, NextKinds

(* Nobody's account is left alone while nothing disturbs the pupils. *)
LEMMA AnsweredKept ==
  ASSUME Base, FreshInv, AnsweredInv, NEW k \in Calls, Begin(k) \/ Step(k) \/ CutOff(k)
  PROVE  AnsweredInv'
<1> SUFFICES ASSUME \A s \in Pupils : ~disturbed'[s], NEW i \in UserIds \ DOMAIN FirstUsers,
                    user'[i] # NoUser, i \notin released'
             PROVE  Children(i)' # {} \/ \E j \in Calls : Answers(call'[j], i)
  BY AnswersIs DEF AnsweredInv
<1>0. Frame(k)
  BY BaseFields, CallsTyped
<1>1. (\A s \in Pupils : ~disturbed[s]) /\ i \notin released
  <2>1. released \subseteq released'
    <3>1. CASE Begin(k)
      BY <3>1, BeginTables
    <3>2. CASE ~Begin(k)
      BY <3>2, NextKinds
      DEF TakeNumbers, Commit, SendMails, Fails, Move, Finish, Advances, FindParent, FindLink,
          UpdateRow, ReadLinks, CountChildren, MakeParent, SavePhone, DeleteParent, AddLink,
          Unlink, RemoveLink, history
    <3> QED BY <3>1, <3>2
  <2> QED BY <2>1, HistoryOwn
<1>2. CASE user[i] = NoUser
  BY <1>2, ComesAnswered
<1>3. CASE Children(i) # {}
  BY <1>3, ChildLost
<1>4. ASSUME NEW j \in Calls, Answers(call[j], i)
      PROVE  Children(i)' # {} \/ \E m \in Calls : Answers(call'[m], i)
  <2>1. CASE j # k
    BY <1>0, <1>4, <2>1 DEF Frame
  <2>2. CASE j = k
    BY <1>4, <2>2, AnswererGoesOn, AnswererEnds
  <2> QED BY <2>1, <2>2
<1> QED BY <1>1, <1>2, <1>3, <1>4 DEF AnsweredInv

(* Mails go only to accounts that are committed.                           *)
LEMMA InvitedKept ==
  ASSUME Base, InvitedInv, NEW k \in Calls, Begin(k) \/ Step(k) \/ CutOff(k)
  PROVE  InvitedInv'
<1>0. TypeOK /\ PupilsInv /\ Formed(call[k]) /\ Frame(k)
  BY BaseFields, CallsTyped
<1>1. ASSUME made \subseteq made', mailed' \subseteq made',
             call'[k].start = 0 => call'[k].fresh \subseteq made'
      PROVE  InvitedInv'
  BY <1>0, <1>1 DEF InvitedInv, Frame, Holds
<1>2. CASE Begin(k)
  <2>1. call'[k].fresh = {}
    BY <1>0, <1>2, CreateStudentCall, BulkImportCall, UpdateStudentCall, LinkParentCall,
       UnlinkParentCall, PromoteStudentsCall DEF Begin, Fresh
  <2> QED BY <1>1, <1>2, <2>1, BeginTables DEF InvitedInv
<1>3. CASE TakeNumbers(k)
  <2>1. call'[k].start # 0
    <3>1. lastSequence + 1 # 0
      BY <1>0 DEF TypeOK
    <3> QED BY <1>0, <1>3, <3>1, TakeNumbersCall
  <2> QED BY <1>1, <1>3, <2>1 DEF TakeNumbers, InvitedInv, history
<1>4. CASE Commit(k)
  <2>1. made' = made \cup call[k].fresh /\ UNCHANGED mailed
    BY <1>4 DEF Commit
  <2>2. call'[k].fresh \subseteq call[k].fresh
    BY <1>0, <1>4, CommitCall, IdleFields
  <2> QED BY <1>1, <2>1, <2>2 DEF InvitedInv
<1>5. CASE SendMails(k)
  <2>1. call[k].start = 0
    BY <1>0, <1>5 DEF SendMails, At, Formed, Carried, Entering
  <2>2. call[k].fresh \subseteq made
    BY <2>1 DEF InvitedInv, Holds
  <2>3. call'[k].fresh \subseteq call[k].fresh
    BY <1>0, <1>5, SendMailsCall, IdleFields
  <2> QED BY <1>1, <1>5, <2>2, <2>3 DEF SendMails, InvitedInv
<1>6. CASE Finish(k) \/ Move(k) \/ Fails(k)
  <2>1. call'[k].fresh = {}
    BY <1>0, <1>6, EndsIdle, FailsCall, IdleFields DEF Finish, Move
  <2> QED BY <1>1, <1>6, <2>1 DEF Finish, Move, Fails, InvitedInv, history
<1>7. CASE Advances(k)
  <2>1. call'[k].start = call[k].start
    BY <1>0, <1>7, AdvancesFormed
  <2>2. CASE MakeParent(k) /\ ~EmailTaken(k, Email(k))
    <3>1. /\ call'[k].fresh = call[k].fresh \cup {lastUser + 1} /\ UNCHANGED mailed
          /\ made' = IF Holds(k) THEN made ELSE made \cup {lastUser + 1}
      BY <1>0, <1>7, <2>2, AdvancesFresh DEF MakeParent
    <3> QED BY <1>1, <2>1, <3>1 DEF InvitedInv, Holds
  <2>3. CASE ~(MakeParent(k) /\ ~EmailTaken(k, Email(k)))
    <3>1. call'[k].fresh = call[k].fresh
      BY <1>0, <1>7, <2>3, AdvancesFresh
    <3>2. UNCHANGED <<mailed, made>>
      BY <1>7, <2>3
      DEF Advances, FindParent, FindLink, UpdateRow, ReadLinks, CountChildren, SavePhone,
          DeleteParent, AddLink, Unlink, RemoveLink, history
    <3> QED BY <1>1, <2>1, <3>1, <3>2 DEF InvitedInv, Holds
  <2> QED BY <2>2, <2>3
<1> QED BY <1>2, <1>3, <1>4, <1>5, <1>6, <1>7, NextKinds

(* What AccountsFollowChildren follows from, beside Base.                  *)
ChildrenInv == FreshInv /\ AnsweredInv /\ InvitedInv

(* All three hold throughout. *)
LEMMA ChildrenInvAlways == Spec => []ChildrenInv
<1>1. Init => ChildrenInv
  <2> SUFFICES ASSUME Init PROVE ChildrenInv
    OBVIOUS
  <2>1. FreshInv /\ InvitedInv
    BY IdleFields DEF Init, FreshInv, InvitedInv, Holds
  <2>2. AnsweredInv
    BY DEF Init, AnsweredInv
  <2> QED BY <2>1, <2>2 DEF ChildrenInv
<1>2. Base /\ ChildrenInv /\ [Next]_vars => ChildrenInv'
  <2>1. ASSUME ChildrenInv, UNCHANGED vars PROVE ChildrenInv'
    <3>1. UNCHANGED <<student, user, links, call, mailed, made, disturbed, released>>
      BY <2>1 DEF vars, tables, history
    <3>2. \A i : Children(i)' = Children(i)
      BY <3>1 DEF Children, Present
    <3>3. FreshInv'
      BY <2>1, <3>1 DEF ChildrenInv, FreshInv, Holds, Linking
    <3>4. AnsweredInv'
      BY <2>1, <3>1, <3>2, AnswersIs DEF ChildrenInv, AnsweredInv
    <3>5. InvitedInv'
      BY <2>1, <3>1 DEF ChildrenInv, InvitedInv, Holds
    <3> QED BY <3>3, <3>4, <3>5 DEF ChildrenInv
  <2> QED BY <2>1, FreshKept, AnsweredKept, InvitedKept DEF Next, ChildrenInv
<1> QED BY <1>1, <1>2, BaseAlways, PTL DEF Spec

(* AccountsFollowChildren, for every number of pupils, accounts and calls: *)
(* once the calls about the pupils are over, and no failure or call not in *)
(* its place has disturbed one of them, no guardian's account that was     *)
(* made for a child is left without one, except where unlinkParent may     *)
(* leave it; and mails go only to accounts that are committed.             *)
THEOREM AccountsFollowChildrenAlways == Spec => []AccountsFollowChildren
<1>1. Base /\ ChildrenInv => AccountsFollowChildren
  <2> SUFFICES ASSUME Base, ChildrenInv PROVE AccountsFollowChildren
    OBVIOUS
  <2>1. ASSUME \A s \in Pupils : On(s) = {} /\ ~disturbed[s],
               NEW i \in UserIds \ DOMAIN FirstUsers, user[i] # NoUser, i \notin released,
               Children(i) = {}
        PROVE  FALSE
    <3>1. PICK k \in Calls : Answers(call[k], i)
      BY <2>1 DEF ChildrenInv, AnsweredInv
    <3>2. TypeOK /\ Formed(call[k])
      BY BaseFields
    <3>3. call[k].op # "none"
      BY <3>1, <3>2 DEF Answers, Formed, Placed, Carried, Entering
    <3>4. call[k].pupils # {} /\ call[k].pupils \subseteq Pupils
      BY <3>2, <3>3, CallFields DEF Formed, Carried
    <3> QED BY <2>1, <3>4 DEF On
  <2>2. NoChildlessParent
    BY <2>1 DEF NoChildlessParent
  <2>3. InvitedToAccounts
    BY DEF ChildrenInv, InvitedInv, InvitedToAccounts
  <2> QED BY <2>2, <2>3 DEF AccountsFollowChildren
<1> QED BY <1>1, BaseAlways, ChildrenInvAlways, PTL
=============================================================================
