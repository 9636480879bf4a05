---------------------------- MODULE MCLoopBody ----------------------------
(* One session: two messages, two responses of the model, two disturbances. *)
EXTENDS LoopBody

MCLimits == {0, 1}

\* _find_legal_start as the code computes it: a scan that begins anew behind each
\* result whose call was not declared since it last began.
ScannedPart(seq) ==
  LET Scan(acc, m) ==
        IF m.role = "tool" /\ m.id \notin acc.declared
        THEN [declared |-> {}, part |-> <<>>]
        ELSE [declared |-> acc.declared \cup m.calls, part |-> Append(acc.part, m)]
  IN FoldLeft(Scan, [declared |-> {}, part |-> <<>>], seq).part

ASSUME ScanAgrees ==
  LET some == {User(1), Assistant(1, {11, 12}), Assistant(2, {11}), Result(11), Result(12)}
  IN \A seq \in BoundedSeq(some, 5) : LegalPart(seq) = ScannedPart(seq)
=============================================================================
