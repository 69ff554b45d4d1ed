SPECIFICATION Spec
CONSTANTS
  c1 = c1  c2 = c2  m1 = m1  m2 = m2  pupil = pupil
  actor = actor  colleague = colleague  nobody = nobody  foreign = foreign
  Served <- MCServed
  Roles <- MCRoles
  Classes = {c1, c2}
  Subjects = {m1, m2}
  Pupil = pupil
  Actor = actor
  Colleague = colleague
  Nobody = nobody
  Foreign = foreign
  FirstClass = c1
  FirstSubject = m1
  LegacyClass = c2
  MaxChanges = 1
INVARIANTS  OwnRecordsServed
