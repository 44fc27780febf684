SPECIFICATION Spec
CONSTANTS
  r0 = r0
  r1 = r1
  r2 = r2
  r3 = r3
  s1 = s1
  s2 = s2
  s3 = s3
  f1 = f1
  f2 = f2
  Runs = {r0, r1, r2, r3}
  Initial = r0
  Slots = {s1, s2, s3}
  Fields = {f1}
  Renewed = Renewed
  NoRun = NoRun
  MaxVersion = 8
  MaxRevision = 2
SYMMETRY MCSymmetry
INVARIANTS TaskTypeOK LiveRunIsLatest OpenQuestionStopsTask LostWorkIsDebt
PROPERTY ImplementsLifecycle
CHECK_DEADLOCK FALSE
