CONSTANTS
  s1 = s1
  s2 = s2
  c1 = c1
  c2 = c2
  Servers = {s1, s2}
  Channels = {c1, c2}
  Turns = {t1}
  Reloads = {r1, r2}
  Jobs = {r1, r2}
  Configs <- MCConfigs
  MaxOut = 1
  MaxTroubles = 1
SPECIFICATION Spec
INVARIANTS TypeOK 
 
CHECK_DEADLOCK FALSE
