SPECIFICATION Spec
SYMMETRY Symmetry
CONSTANTS
  Names = {n1}
  Tokens = {t1}
  Items = {q1, c1, u1}
  Frozen = {q1, c1}
  Activities = {q1}
  Points = {1}
  Commands = {k1, k2, k3, k4, k5}
  AnswerIds = {a1}
  Submitters = {s1}
  Joiners = {j1}
  Readers = {}
  Nobody = Nobody
  NoItem = NoItem
INVARIANTS
  TypeOK
  RowIsLegal
  LedgerTellsEveryVersion
  VersionsHaveOneCause
PROPERTIES
  CommandRetryReturnsOriginal
  ImplementsRun
