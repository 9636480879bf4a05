CONSTANTS
  m1 = m1
  m2 = m2
  m3 = m3
  Order <- MCOrder
  Tabs = {t1, t2}
  FirstTab = t1
  NoMsg = NoMsg
  NoTab = NoTab
  Budgets <- MCBudgets
SPECIFICATION Spec
INVARIANTS  OneChat AnswerCounts
PROPERTY ProcessingEnds
CHECK_DEADLOCK FALSE
