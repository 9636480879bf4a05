----------------------------- MODULE MCWebChats -----------------------------
\* Instance of WebChats for TLC: three messages and no question, or two messages
\* and a question, and either a stop or a trouble.
EXTENDS WebChats

CONSTANTS m1, m2, m3
MCOrder == <<m1, m2, m3>>
MCBudgets == {[sends |-> 3, stops |-> 1, troubles |-> 1, asks |-> 0],
              [sends |-> 2, stops |-> 1, troubles |-> 0, asks |-> 1],
              [sends |-> 2, stops |-> 0, troubles |-> 1, asks |-> 1]}
=============================================================================
