CONSTANTS
  Objs = {o1, o2, o3, o4, o5, o6}
  Consolidators = {c1}
  Learners = {l1}
  NoObj = NoObj
  MaxMsgs = 3
  MaxTroubles = 2
SPECIFICATION SessionSpec
INVARIANTS SessionTypeOK SavedOnce FileIsTheConversation
VIEW View
CONSTRAINT OneHazard
CHECK_DEADLOCK FALSE
