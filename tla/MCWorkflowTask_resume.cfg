SPECIFICATION FairTaskSpec
CONSTANTS
  r0 = r0
  r1 = r1
  r2 = r2
  r3 = r3
  s1 = s1
  s2 = s2
  s3 = s3
  f1 = f1
  f2 = f2
  Runs = {r0, r1}
  Initial = r0
  Slots = {s1}
  Fields = {f1}
  Renewed = Renewed
  NoRun = NoRun
  MaxVersion = 6
  MaxRevision = 2
PROPERTY ResumeIntentNotLost
CHECK_DEADLOCK FALSE
