CONSTANTS
  t1 = t1
  t2 = t2
  t3 = t3
  t4 = t4
  hello = hello
  native = native
  amd64 = amd64
  NoRef = NoRef
  Thread = {t1, t2, t3, t4}
  Ref = {hello, native, amd64}
  MaxAttempts = 2
  Mode <- MCMode
  Image <- MCImage
  Compat <- MCCompat
SPECIFICATION FairSpec
INVARIANTS
  GuardExclusive
  NoLostWakeup
  WorkDeduplicated
  BuiltOnce
  ReadyImageStays
PROPERTY EveryoneServed
CHECK_DEADLOCK FALSE
