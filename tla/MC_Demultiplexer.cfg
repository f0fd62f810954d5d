\* Two subscribers sharing one or two keys, two writes per key, two
\* upstream subscriptions: enough for a teardown or a source error and a
\* restart while the old loop is still running.
CONSTANTS
  s1 = s1
  s2 = s2
  k1 = k1
  k2 = k2
  Subs <- TwoSubs
  Keys <- TwoKeys
  MaxVer = 2
  MaxGen = 2
SYMMETRY SubSymmetry
SPECIFICATION Spec
INVARIANTS
  TypeOK
  RegisteredLive
  AtMostOneUpstream
  LatestDelivered
\* With every write made and MaxGen subscriptions used, an idle
\* demultiplexer waits for a subscriber that the bound no longer admits.
CHECK_DEADLOCK FALSE
