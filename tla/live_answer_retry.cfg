SPECIFICATION Spec
SYMMETRY Symmetry
CONSTANTS
  Names = {n1}
  Tokens = {t1}
  Items = {q1}
  Frozen = {q1}
  Activities = {q1}
  Points = {1}
  Commands = {k1, k2, k3}
  AnswerIds = {a1, a2}
  Submitters = {s1, s2}
  Joiners = {j1, j2}
  Readers = {}
  Nobody = Nobody
  NoItem = NoItem
PROPERTIES
  AnswerRetryReturnsOriginal
