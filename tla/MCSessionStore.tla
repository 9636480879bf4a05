--------------------------- MODULE MCSessionStore ---------------------------
(* Instance of SessionStore for TLC: one chat, its consolidator and learner, *)
(* two processes.                                                           *)
EXTENDS SessionStore, TLC

\* The places that refer to a session object, in some order.
BgSeq == SetToSeq(Bgs)
SaverSeq == SetToSeq(Savers)
Refs == <<turn.obj, cache["gateway"], cache["webui"]>>
          \o [i \in DOMAIN BgSeq |-> bg[BgSeq[i]].obj]
          \o [i \in DOMAIN SaverSeq |-> saver[SaverSeq[i]].obj]

\* Which object it is does not matter, but who shares it; objects nobody refers
\* to are garbage.
View ==
  LET refs == Refs
      First(i) == CHOOSE j \in 1..i : refs[j] = refs[i] /\ \A k \in 1..(j - 1) : refs[k] # refs[i]
      Shares == [i \in DOMAIN refs |-> IF refs[i] = NoObj THEN 0 ELSE First(i)] IN
  <<Shares, [i \in DOMAIN refs |-> IF Shares[i] = i THEN obj[refs[i]] ELSE EmptySession],
    turn.pc, [b \in Bgs |-> <<bg[b].pc, bg[b].n>>],
    [s \in Savers |-> [saver[s] EXCEPT !.obj = NoObj]],
    stamp, known, file, left, said, saved, rev, hazards>>

\* At most one kind of disturbance in a behaviour.
OneHazard == Cardinality(hazards \ {"split"}) <= 1
=============================================================================
