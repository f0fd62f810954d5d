\* A collector that returns keys and errors together (a compound
\* collector with one failing source), against tokens that select no key.
CONSTANTS
  ka = ka
  nokid = nokid
  a1 = a1
  a2 = a2
  x = x
  y = y
  u1 = u1
  u2 = u2
  noaud = noaud
  nomax = nomax
  Kids <- OneKid
  NoKid = nokid
  Algs <- TwoAlgs
  Secrets <- TwoSecrets
  Auds <- TwoAuds
  NoAud = noaud
  DefaultAuds <- DefaultAud
  MaxAge = 2
  KeyLifetimes <- ShortLife
  NoMax = nomax
  KeyAudiences <- RestrictedAud
  TokenDurations <- Durations
  TokenAudiences <- TokenAuds
  MaxKeys = 2
SPECIFICATION Spec
INVARIANTS
  MissTriggersRefresh
