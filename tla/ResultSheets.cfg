SPECIFICATION SheetSpec
CONSTANTS
  k1 = k1  k2 = k2  ann = ann  ben = ben  maths = maths  english = english
  Pupils = {ann, ben}
  Subjects = {maths}
  Tasks = {k1, k2}
  Scores = {2}
  MaxScore = 3
SYMMETRY CallSymmetry
INVARIANTS SheetTypeOK SoundTotalsAddUp 
