--------------------------- MODULE MCMemoryFiles ---------------------------
EXTENDS MemoryFiles

CONSTANTS a, b

\* One session is consolidated and archived; another, whose chunk tells of the
\* user, is learnt from and archived.
MCJobs == [kind : {"tokens", "archive"}, chunk : {a}] \cup [kind : {"learn", "archive"}, chunk : {b}]
MCPersonal == {b}

\* The jobs that have begun, or were done before.
Begun ==
  {j \in Jobs : \/ job[j].pc # "idle"
                \/ j.chunk \in (CASE j.kind = "tokens" -> passed
                                  [] j.kind = "learn" -> learned
                                  [] OTHER -> cleared)}

\* Bound: once there was a disturbance, two jobs, and three with the forgets.
Crowd ==
  left < MaxTroubles =>
    /\ Cardinality(Begun) <= 2
    /\ Cardinality(Begun) + Cardinality({f \in Forgetters : forget[f].pc # "idle"}) <= 3
=============================================================================
