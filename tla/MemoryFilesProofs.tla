------------------------- MODULE MemoryFilesProofs -------------------------
(***************************************************************************)
(* Theorems about the long-term memory, for any chunks, jobs and number of *)
(* disturbances: every copy that no write has made stale agrees with its   *)
(* file, from which LinesMoveForAReason follows; what is archived is there *)
(* once; what is forgotten is kept.                                        *)
(***************************************************************************)
EXTENDS MemoryFiles, SequenceTheorems, TLAPS

-----------------------------------------------------------------------------
(* The invariants *)

\* One job at a time writes: the keeper's lock.
Exclusive ==
  \A j, k \in Jobs : job[j].pc = "flushing" /\ job[k].pc = "flushing" => j = k

\* Whoever has a file open and empty is there to fill it.
GapsAreFilled ==
  \A f \in gap : \/ editor.pc = "flushing" /\ editor.file = f
                 \/ \E j \in Jobs : job[j].pc = "flushing" /\ Head(job[j].todo) = f

\* What a job at pc has still to write, by what it does.
Shape(r) ==
  /\ r.pc \in {"idle", "done"} <=> r.act = "none"
  /\ r.pc \in {"idle", "done", "asking", "ending"} <=> r.todo = <<>>
  /\ r.todo # <<>> /\ Head(r.todo) = "HISTORY" => r.pc = "writing" /\ r.act \in {"summary", "raw"}
  /\ r.act = "raw" => r.todo \in {<<>>, <<"HISTORY">>} /\ r.pc # "asking"
  /\ r.act = "compact" => r.todo \in {<<>>, <<"MEMORY">>}
  /\ r.act = "learn" /\ r.blank => r.todo = <<>>

\* A forget in progress has a needle, and nothing for the quarantine before it has
\* read MEMORY.md.
ForgetShape(r) ==
  /\ r.pc # "idle" => r.needle \in Chunks
  /\ r.pc \in {"idle", "MEMORY"} => r.took = {}

Shapes ==
  /\ \A j \in Jobs : Shape(job[j])
  /\ \A x \in Forgetters : ForgetShape(forget[x])

\* The copies a job has of files t, of which those in g are empty, agree with them.
AgreesWith(r, t, g) ==
  \A f \in Copies(r) \ r.stale :
    r.seen[f] = t[f] /\ (f \in g => r.pc = "flushing" /\ Head(r.todo) = f)

JobsAgree == \A j \in Jobs : AgreesWith(job[j], text, gap)

EditorAgrees ==
  editor.pc # "closed" /\ ~editor.stale =>
    /\ editor.seen = text[editor.file]
    /\ editor.file \in gap => editor.pc = "flushing"
    /\ editor.pc = "flushing" =>
         editor.new \subseteq editor.seen
         /\ {editor.file} \X (editor.seen \ editor.new) \subseteq dropped

ForgetsAgree ==
  \A x \in Forgetters : forget[x].pc \in Files /\ ~forget[x].stale =>
    /\ forget[x].seen = text[forget[x].pc]
    /\ forget[x].pc \notin gap
    /\ <<forget[x].pc, forget[x].needle>> \in dropped

CopyInv == Exclusive /\ JobsAgree /\ EditorAgrees /\ ForgetsAgree

\* A job of an archive, or of a consolidation by tokens, has appended its chunk.
HasAppended(r) ==
  /\ r.act \in {"summary", "raw"} /\ r.pc # "asking"
  /\ r.todo = <<>> \/ Head(r.todo) # "HISTORY"

Archiving(j) == job[j].act \in {"summary", "raw"}

JobArchive(j) ==
  /\ j.kind = "tokens" => job[j].act \in {"none", "summary", "raw"} /\ job[j].pc # "done"
  /\ j.kind = "learn" => job[j].act \in {"none", "learn", "compact"} /\ job[j].pc # "done"
  /\ j.kind = "archive" => job[j].act # "learn"
  /\ HasAppended(job[j]) => appended[j.chunk] > 0
  /\ j.kind = "archive" /\ job[j].pc # "idle" => j.chunk \in cleared
  /\ j.kind = "archive" /\ (job[j].pc = "done" \/ job[j].act = "compact") =>
       appended[j.chunk] > 0 \/ j.chunk \in excused
  /\ j.kind = "archive" /\ Archiving(j) =>
       appended[j.chunk] > 0 \/ j.chunk \in excused \/ job[j].tries <= failures

JobsArchive == \A j \in Jobs : JobArchive(j)

PassedArchived == \A c \in passed : appended[c] > 0

OnceAt(c) ==
  c \notin again =>
    /\ appended[c] <= 1
    /\ \A j, k \in Jobs : j.chunk = c /\ k.chunk = c /\ Archiving(j) /\ Archiving(k) => j = k
    /\ appended[c] = 1 =>
         /\ \A j \in Jobs : j.chunk = c /\ Archiving(j) => HasAppended(job[j])
         /\ c \in passed \cup cleared \/ \E j \in Jobs : j.chunk = c /\ Archiving(j)

Once == \A c \in Chunks : OnceAt(c)

ArchInv == JobsArchive /\ PassedArchived /\ Once

-----------------------------------------------------------------------------
(* Types *)

\* The records a job is made anew of.
LEMMA NewRecords ==
  /\ Idle \in JobType /\ Idle.pc = "idle" /\ Idle.act = "none" /\ Idle.todo = <<>>
  /\ NoForget \in RequestType /\ NoForget.pc = "idle" /\ NoForget.took = {}
  /\ Closed \in EditorType /\ Closed.pc = "closed"
  /\ Nothing \in [Files -> SUBSET Chunks]
  BY DEF Idle, NoForget, Closed, Nothing, JobType, RequestType, EditorType, Todos, Files, MaxFailures

\* What readers see of a file is what it tells of, or nothing.
LEMMA SeenFacts ==
  ASSUME TypeOK, NEW f \in Files
  PROVE  Seen(f) \in SUBSET Chunks /\ (f \notin gap => Seen(f) = text[f])
  BY DEF Seen, TypeOK, FilesOK

\* A job that asks holds copies of what it saw, stale where a file was empty.
LEMMA AskingFacts ==
  ASSUME TypeOK, NEW j \in Jobs, NEW t \in 0 .. MaxFailures - 1
  PROVE  /\ Asking(j, t) \in JobType
         /\ Asking(j, t).pc = "asking" /\ Asking(j, t).todo = <<>> /\ Asking(j, t).tries = t
         /\ Asking(j, t).act = (IF j.kind = "learn" THEN "learn" ELSE "summary")
         /\ Asking(j, t).stale = gap \ {"HISTORY"}
         /\ \A f \in {"MEMORY", "USER"} : Asking(j, t).seen[f] = Seen(f)
  <1> DEFINE S == [f \in Files |-> IF f = "HISTORY" THEN {} ELSE Seen(f)]
  <1>1. S \in [Files -> SUBSET Chunks] BY SeenFacts
  <1>2. gap \ {"HISTORY"} \in SUBSET Files BY DEF TypeOK, FilesOK
  <1>3. Asking(j, t) =
          [Idle EXCEPT !.pc = "asking", !.act = IF j.kind = "learn" THEN "learn" ELSE "summary",
                       !.seen = S, !.stale = gap \ {"HISTORY"}, !.tries = t]
    BY DEF Asking
  <1> HIDE DEF S
  <1>6. Asking(j, t) = [pc |-> "asking", act |-> IF j.kind = "learn" THEN "learn" ELSE "summary",
                        todo |-> <<>>, seen |-> S, stale |-> gap \ {"HISTORY"},
                        blank |-> FALSE, tries |-> t]
    BY <1>3 DEF Idle
  <1>4. Asking(j, t) \in JobType BY <1>1, <1>2, <1>6 DEF JobType, Todos
  <1>5. \A f \in {"MEMORY", "USER"} : S[f] = Seen(f) BY DEF S, Files
  <1> QED BY <1>4, <1>5, <1>6

\* A job that compacts holds a copy of MEMORY.md.
LEMMA CompactingFacts ==
  ASSUME TypeOK
  PROVE  /\ Compacting \in JobType
         /\ Compacting.pc = "asking" /\ Compacting.todo = <<>> /\ Compacting.act = "compact"
         /\ Compacting.stale = gap \cap {"MEMORY"}
         /\ Compacting.seen["MEMORY"] = Seen("MEMORY")
  <1> DEFINE S == [Nothing EXCEPT !["MEMORY"] = Seen("MEMORY")]
  <1>1. S \in [Files -> SUBSET Chunks] /\ S["MEMORY"] = Seen("MEMORY")
    BY SeenFacts DEF Nothing, Files
  <1>2. gap \cap {"MEMORY"} \in SUBSET Files BY DEF Files
  <1>3. Compacting = [Idle EXCEPT !.pc = "asking", !.act = "compact", !.seen = S,
                                  !.stale = gap \cap {"MEMORY"}]
    BY NewRecords DEF Compacting, Idle
  <1> HIDE DEF S
  <1>5. Compacting = [pc |-> "asking", act |-> "compact", todo |-> <<>>, seen |-> S,
                      stale |-> gap \cap {"MEMORY"}, blank |-> FALSE, tries |-> 0]
    BY <1>3 DEF Idle
  <1>4. Compacting \in JobType BY <1>1, <1>2, <1>5 DEF JobType, Todos, MaxFailures
  <1> QED BY <1>1, <1>5, <1>4

\* A job that has ended is idle; an archive is done, and not begun again.
LEMMA EndedFacts ==
  ASSUME NEW j \in Jobs
  PROVE  /\ Ended(j) \in JobType
         /\ Ended(j).pc = (IF j.kind = "archive" THEN "done" ELSE "idle")
         /\ Ended(j).act = "none" /\ Ended(j).todo = <<>>
  <1>1. Idle \in JobType BY NewRecords
  <1>2. CASE j.kind = "archive"
    <2>1. Ended(j) = [Idle EXCEPT !.pc = "done"] BY <1>2 DEF Ended
    <2> QED BY <1>1, <1>2, <2>1, NewRecords DEF JobType
  <1>3. CASE j.kind # "archive" BY <1>3, NewRecords DEF Ended
  <1> QED BY <1>2, <1>3

\* Tidying touches the copies only.
LEMMA TidiedFacts ==
  ASSUME NEW r \in JobType
  PROVE  /\ Tidied(r) \in JobType
         /\ Tidied(r).pc = r.pc /\ Tidied(r).act = r.act /\ Tidied(r).todo = r.todo
         /\ Tidied(r).blank = r.blank /\ Tidied(r).tries = r.tries
         /\ Tidied(r).stale = r.stale \cap Copies(r)
         /\ \A f \in Files \cap Copies(r) : Tidied(r).seen[f] = r.seen[f]
         /\ Copies(Tidied(r)) = Copies(r)
  <1> DEFINE S == [f \in Files |-> IF f \in Copies(r) THEN r.seen[f] ELSE {}]
  <1>1. S \in [Files -> SUBSET Chunks] BY DEF JobType
  <1>2. \A f \in Files \cap Copies(r) : S[f] = r.seen[f] OBVIOUS
  <1>3. Tidied(r) = [r EXCEPT !.seen = S, !.stale = r.stale \cap Copies(r)] BY DEF Tidied
  <1>4. r.stale \cap Copies(r) \in SUBSET Files BY DEF JobType
  <1> HIDE DEF S
  <1>5. Tidied(r) \in JobType BY <1>1, <1>3, <1>4 DEF JobType
  <1>6. /\ Tidied(r).pc = r.pc /\ Tidied(r).act = r.act /\ Tidied(r).todo = r.todo
        /\ Tidied(r).blank = r.blank /\ Tidied(r).tries = r.tries
        /\ Tidied(r).stale = r.stale \cap Copies(r) /\ Tidied(r).seen = S
    BY <1>3 DEF JobType
  <1>7. Copies(Tidied(r)) = Copies(r) BY <1>6 DEF Copies
  <1> QED BY <1>2, <1>5, <1>6, <1>7

\* A write makes copies stale and touches nothing else of a job.
LEMMA OutdatedFacts ==
  ASSUME NEW f \in Files, NEW jobs \in [Jobs -> JobType]
  PROVE  /\ Outdated(f, jobs) \in [Jobs -> JobType]
         /\ \A j \in Jobs : LET r == Outdated(f, jobs)[j] IN
              /\ r.pc = jobs[j].pc /\ r.act = jobs[j].act /\ r.todo = jobs[j].todo
              /\ r.blank = jobs[j].blank /\ r.tries = jobs[j].tries /\ r.seen = jobs[j].seen
              /\ r.stale = IF f \in Copies(jobs[j]) THEN jobs[j].stale \cup {f}
                           ELSE jobs[j].stale
  <1>1. \A j \in Jobs : Outdated(f, jobs)[j] =
           IF f \in Copies(jobs[j])
           THEN [jobs[j] EXCEPT !.stale = jobs[j].stale \cup {f}] ELSE jobs[j]
    BY DEF Outdated
  <1>2. \A j \in Jobs : jobs[j] \in JobType OBVIOUS
  <1>3. ASSUME NEW j \in Jobs PROVE Outdated(f, jobs)[j] \in JobType
    <2> DEFINE T == jobs[j].stale \cup {f}
    <2>1. T \in SUBSET Files BY <1>2 DEF JobType
    <2>2. [jobs[j] EXCEPT !.stale = T] \in JobType
      <3> HIDE DEF T
      <3> QED BY <1>2, <2>1 DEF JobType
    <2> QED BY <1>1, <1>2, <2>2
  <1>4. Outdated(f, jobs) \in [Jobs -> JobType] BY <1>3 DEF Outdated
  <1>5. ASSUME NEW j \in Jobs
        PROVE  LET r == Outdated(f, jobs)[j] IN
              /\ r.pc = jobs[j].pc /\ r.act = jobs[j].act /\ r.todo = jobs[j].todo
              /\ r.blank = jobs[j].blank /\ r.tries = jobs[j].tries /\ r.seen = jobs[j].seen
              /\ r.stale = IF f \in Copies(jobs[j]) THEN jobs[j].stale \cup {f}
                           ELSE jobs[j].stale
    BY <1>1, <1>2 DEF JobType
  <1> QED BY <1>4, <1>5
-----------------------------------------------------------------------------
(* What a job has to write *)

\* An entry for HISTORY.md comes first; of the files of facts there is one.
LEMMA TodoFacts ==
  ASSUME NEW t \in Todos, t # <<>>
  PROVE  /\ Head(t) \in Files /\ Tail(t) \in Todos
         /\ Len(t) = 1 <=> Tail(t) = <<>>
         /\ Tail(t) # <<>> => Head(Tail(t)) # "HISTORY"
         /\ Head(t) # "HISTORY" => Tail(t) = <<>> /\ t = <<Head(t)>>
  <1>1. CASE t = <<"HISTORY">> BY <1>1 DEF Files, Todos
  <1>2. CASE t = <<"MEMORY">> BY <1>2 DEF Files, Todos
  <1>3. CASE t = <<"USER">> BY <1>3 DEF Files, Todos
  <1>4. CASE t = <<"HISTORY", "MEMORY">> BY <1>4 DEF Files, Todos
  <1>5. CASE t = <<"HISTORY", "USER">> BY <1>5 DEF Files, Todos
  <1> QED BY <1>1, <1>2, <1>3, <1>4, <1>5 DEF Todos

\* The copies a job has once it is answered are those it is to write.
LEMMA CopiesFacts ==
  ASSUME NEW r, r.todo \in Todos, r.pc # "asking"
  PROVE  /\ Copies(r) \subseteq {"MEMORY", "USER"}
         /\ \A f \in {"MEMORY", "USER"} : f \in Copies(r) <=> r.todo \in {<<f>>, <<"HISTORY", f>>}
  <1>0. Copies(r) = {r.todo[i] : i \in 1..Len(r.todo)} \ {"HISTORY"} BY DEF Copies
  <1>1. CASE r.todo = <<>> BY <1>0, <1>1
  <1>2. CASE r.todo = <<"HISTORY">> BY <1>0, <1>2
  <1>3. CASE r.todo = <<"MEMORY">> BY <1>0, <1>3
  <1>4. CASE r.todo = <<"USER">> BY <1>0, <1>4
  <1>5. CASE r.todo = <<"HISTORY", "MEMORY">> BY <1>0, <1>5
  <1>6. CASE r.todo = <<"HISTORY", "USER">> BY <1>0, <1>6
  <1> QED BY <1>1, <1>2, <1>3, <1>4, <1>5, <1>6 DEF Todos

\* Jobs without a file of facts to write have no copies that could be wrong.
LEMMA NoCopies ==
  ASSUME NEW r, r.pc # "asking", r.todo \in {<<>>, <<"HISTORY">>}, NEW t, NEW g
  PROVE  AgreesWith(r, t, g)
  <1>1. r.todo \in Todos BY DEF Todos
  <1>2. Copies(r) = {} BY <1>1, CopiesFacts
  <1> QED BY <1>2 DEF AgreesWith

\* An entry and a file of facts.
LEMMA EntryFirst ==
  ASSUME NEW f \in Files
  PROVE  <<"HISTORY">> \o <<f>> = <<"HISTORY", f>>
  <1> DEFINE s == <<"HISTORY">> \o <<f>>
  <1>1. <<"HISTORY">> \in Seq(Files) /\ <<f>> \in Seq(Files) /\ <<"HISTORY", f>> \in Seq(Files)
    BY DEF Files
  <1>2. s \in Seq(Files) BY <1>1, ConcatProperties
  <1>3. Len(s) = 2 /\ s[1] = "HISTORY" /\ s[2] = f OBVIOUS
  <1> HIDE DEF s
  <1>4. \A i \in 1..Len(s) : s[i] = <<"HISTORY", f>>[i] BY <1>3
  <1>5. s = <<"HISTORY", f>> BY <1>1, <1>2, <1>3, <1>4, SeqEqual
  <1> QED BY <1>5 DEF s

\* Consolidation writes an entry first; learning writes none, and nothing at all
\* when the update was blank.
LEMMA ToWriteFacts ==
  ASSUME NEW j \in Jobs, NEW blank \in BOOLEAN
  PROVE  /\ ToWrite(j, blank) \in Todos
         /\ job[j].act = "summary" => ToWrite(j, blank) # <<>> /\ Head(ToWrite(j, blank)) = "HISTORY"
         /\ job[j].act # "summary" =>
              ToWrite(j, blank) \in {<<>>, <<"MEMORY">>, <<"USER">>}
              /\ (blank => ToWrite(j, blank) = <<>>)
  <1>1. WritesMemory(j, blank) \in BOOLEAN /\ WritesUser(j, blank) \in BOOLEAN
    BY DEF WritesMemory, WritesUser
  <1>2. ~(WritesMemory(j, blank) /\ WritesUser(j, blank))
    BY DEF WritesMemory, WritesUser
  <1>3. job[j].act # "summary" /\ blank => ~WritesMemory(j, blank) /\ ~WritesUser(j, blank)
    BY DEF WritesMemory, WritesUser
  <1> DEFINE h == IF job[j].act = "summary" THEN <<"HISTORY">> ELSE <<>>
  <1>4. CASE WritesMemory(j, blank)
    <2>1. ToWrite(j, blank) = (h \o <<"MEMORY">>) \o <<>> BY <1>2, <1>4 DEF ToWrite
    <2>2. CASE job[j].act = "summary"
      <3>1. ToWrite(j, blank) = <<"HISTORY", "MEMORY">> BY <2>1, <2>2, EntryFirst DEF Files
      <3> QED BY <2>2, <3>1 DEF Todos
    <2>3. CASE job[j].act # "summary"
      <3>1. ToWrite(j, blank) = <<"MEMORY">> BY <2>1, <2>3
      <3> QED BY <1>3, <1>4, <2>3, <3>1 DEF Todos
    <2> QED BY <2>2, <2>3
  <1>5. CASE WritesUser(j, blank)
    <2>1. ToWrite(j, blank) = (h \o <<>>) \o <<"USER">> BY <1>2, <1>5 DEF ToWrite
    <2>2. CASE job[j].act = "summary"
      <3>1. ToWrite(j, blank) = <<"HISTORY", "USER">> BY <2>1, <2>2, EntryFirst DEF Files
      <3> QED BY <2>2, <3>1 DEF Todos
    <2>3. CASE job[j].act # "summary"
      <3>1. ToWrite(j, blank) = <<"USER">> BY <2>1, <2>3
      <3> QED BY <1>3, <1>5, <2>3, <3>1 DEF Todos
    <2> QED BY <2>2, <2>3
  <1>6. CASE ~WritesMemory(j, blank) /\ ~WritesUser(j, blank)
    <2>1. ToWrite(j, blank) = (h \o <<>>) \o <<>> BY <1>6 DEF ToWrite
    <2> QED BY <2>1 DEF Todos
  <1> QED BY <1>4, <1>5, <1>6

\* After the write of a file the job has the rest to write, and no new copies.
LEMMA WroteFacts ==
  ASSUME TypeOK, NEW j \in Jobs, job[j].pc \in {"writing", "flushing"}, job[j].todo # <<>>
  PROVE  /\ Wrote(j) \in JobType
         /\ Wrote(j).pc = IF Tail(job[j].todo) = <<>> THEN "ending" ELSE "writing"
         /\ Wrote(j).todo = Tail(job[j].todo)
         /\ Wrote(j).act = job[j].act /\ Wrote(j).blank = job[j].blank
         /\ Wrote(j).tries = job[j].tries
         /\ Copies(Wrote(j)) \subseteq Copies(job[j])
         /\ \A f \in Copies(Wrote(j)) : /\ Wrote(j).seen[f] = job[j].seen[f]
                                        /\ f \in Wrote(j).stale <=> f \in job[j].stale
  <1> DEFINE q == IF Len(job[j].todo) = 1 THEN "ending" ELSE "writing"
             r == [job[j] EXCEPT !.pc = q, !.todo = Tail(job[j].todo)]
  <1>1. job[j] \in JobType BY DEF TypeOK, JobsOK
  <1>2. job[j].todo \in Todos BY <1>1 DEF JobType
  <1>3. Tail(job[j].todo) \in Todos /\ (Len(job[j].todo) = 1 <=> Tail(job[j].todo) = <<>>)
    BY <1>2, TodoFacts
  <1>4. q \in {"ending", "writing"} OBVIOUS
  <1>5. q = IF Tail(job[j].todo) = <<>> THEN "ending" ELSE "writing" BY <1>3
  <1>6. Wrote(j) = Tidied(r) BY DEF Wrote
  <1> HIDE DEF q
  <1>7. /\ r \in JobType /\ r.pc = q /\ r.todo = Tail(job[j].todo)
        /\ r.act = job[j].act /\ r.blank = job[j].blank /\ r.tries = job[j].tries
        /\ r.seen = job[j].seen /\ r.stale = job[j].stale
    BY <1>1, <1>3, <1>4 DEF JobType
  <1> HIDE DEF r
  <1>8. Copies(r) \subseteq Copies(job[j])
    <2>1. Copies(r) = {r.todo[i] : i \in 1..Len(r.todo)} \ {"HISTORY"} BY <1>4, <1>7 DEF Copies
    <2>2. Copies(job[j]) = {job[j].todo[i] : i \in 1..Len(job[j].todo)} \ {"HISTORY"} BY DEF Copies
    <2>3. CASE job[j].todo = <<"HISTORY", "MEMORY">> BY <1>7, <2>1, <2>2, <2>3
    <2>4. CASE job[j].todo = <<"HISTORY", "USER">> BY <1>7, <2>1, <2>2, <2>4
    <2>5. CASE job[j].todo \in {<<"HISTORY">>, <<"MEMORY">>, <<"USER">>} BY <1>7, <2>1, <2>5
    <2> QED BY <1>2, <2>3, <2>4, <2>5 DEF Todos
  <1>9. Copies(r) \subseteq Files BY <1>7, <1>4, CopiesFacts DEF Files, JobType
  <1>10. /\ Tidied(r) \in JobType
         /\ Tidied(r).pc = r.pc /\ Tidied(r).act = r.act /\ Tidied(r).todo = r.todo
         /\ Tidied(r).blank = r.blank /\ Tidied(r).tries = r.tries
         /\ Tidied(r).stale = r.stale \cap Copies(r)
         /\ \A f \in Files \cap Copies(r) : Tidied(r).seen[f] = r.seen[f]
         /\ Copies(Tidied(r)) = Copies(r)
    BY <1>7, TidiedFacts
  <1>11. \A f \in Copies(Wrote(j)) : /\ Wrote(j).seen[f] = job[j].seen[f]
                                     /\ f \in Wrote(j).stale <=> f \in job[j].stale
    BY <1>6, <1>7, <1>9, <1>10
  <1> QED BY <1>5, <1>6, <1>7, <1>8, <1>10, <1>11
-----------------------------------------------------------------------------
(* What becomes of a job *)

\* A job that asks has read the files as they are.
LEMMA AskingAgrees ==
  ASSUME TypeOK, NEW j \in Jobs, NEW t \in 0 .. MaxFailures - 1
  PROVE  Shape(Asking(j, t)) /\ AgreesWith(Asking(j, t), text, gap)
  <1> DEFINE r == Asking(j, t)
  <1>1. /\ r.pc = "asking" /\ r.todo = <<>> /\ r.act \in {"learn", "summary"}
        /\ r.stale = gap \ {"HISTORY"}
        /\ \A f \in {"MEMORY", "USER"} : r.seen[f] = Seen(f)
    BY AskingFacts
  <1> HIDE DEF r
  <1>2. Copies(r) = {"MEMORY", "USER"} BY <1>1 DEF Copies
  <1>3. Shape(r) BY <1>1 DEF Shape
  <1>4. AgreesWith(r, text, gap) BY <1>1, <1>2, SeenFacts DEF AgreesWith, Files
  <1> QED BY <1>3, <1>4 DEF r

\* A job that compacts has read MEMORY.md as it is.
LEMMA CompactingAgrees ==
  ASSUME TypeOK
  PROVE  Shape(Compacting) /\ AgreesWith(Compacting, text, gap)
  <1> DEFINE r == Compacting
  <1>1. /\ r.pc = "asking" /\ r.todo = <<>> /\ r.act = "compact"
        /\ r.stale = gap \cap {"MEMORY"} /\ r.seen["MEMORY"] = Seen("MEMORY")
    BY CompactingFacts
  <1> HIDE DEF r
  <1>2. Copies(r) = {"MEMORY"} BY <1>1 DEF Copies
  <1>3. Shape(r) BY <1>1 DEF Shape
  <1>4. AgreesWith(r, text, gap) BY <1>1, <1>2, SeenFacts DEF AgreesWith, Files
  <1> QED BY <1>3, <1>4 DEF r

\* After consolidation or learning a job has ended or compacts.
LEMMA AfterwardsFacts ==
  ASSUME TypeOK, NEW j \in Jobs, NEW r \in Afterwards(j)
  PROVE  /\ r \in JobType /\ Shape(r) /\ AgreesWith(r, text, gap)
         /\ r.pc # "flushing" /\ r.act \in {"none", "compact"}
         /\ j.kind = "tokens" => r.pc = "idle"
         /\ j.kind = "learn" => r.pc # "done"
  <1>1. CASE r = Idle
    <2>1. Shape(r) BY <1>1, NewRecords DEF Shape
    <2> QED BY <1>1, <2>1, NewRecords, NoCopies
  <1>2. CASE r = Ended(j) /\ j.kind # "tokens"
    <2>1. Shape(r) BY <1>2, EndedFacts DEF Shape
    <2> QED BY <1>2, <2>1, EndedFacts, NoCopies
  <1>3. CASE r = Compacting /\ j.kind # "tokens"
    BY <1>3, CompactingFacts, CompactingAgrees
  <1> QED BY <1>1, <1>2, <1>3 DEF Afterwards

\* After a failed consolidation a job archives raw, tries again, or has ended.
LEMMA FailedFacts ==
  ASSUME TypeOK, NEW j \in Jobs, NEW r \in Failed(j)
  PROVE  /\ r \in JobType /\ Shape(r) /\ AgreesWith(r, text, gap) /\ r.pc # "flushing"
         /\ \/ /\ failures + 1 >= MaxFailures
               /\ r.pc = "writing" /\ r.act = "raw" /\ r.todo = <<"HISTORY">>
               /\ r.tries = job[j].tries
            \/ /\ j.kind = "archive" /\ job[j].tries + 1 < MaxFailures
               /\ r.pc = "asking" /\ r.act = "summary" /\ r.todo = <<>>
               /\ r.tries = job[j].tries + 1
            \/ /\ failures + 1 < MaxFailures /\ r \in Afterwards(j)
               /\ j.kind = "archive" => job[j].tries + 1 >= MaxFailures
  <1>0. job[j] \in JobType /\ job[j].tries \in 0 .. MaxFailures - 1 /\ failures \in Nat
    BY DEF TypeOK, JobsOK, SessionsOK, JobType
  <1>1. CASE failures + 1 >= MaxFailures
    <2> DEFINE q == [job[j] EXCEPT !.pc = "writing", !.act = "raw", !.todo = <<"HISTORY">>]
    <2>1. r = Tidied(q) BY <1>1 DEF Failed
    <2>2. q \in JobType /\ q.pc = "writing" /\ q.act = "raw" /\ q.todo = <<"HISTORY">>
          /\ q.tries = job[j].tries
      BY <1>0 DEF JobType, Todos
    <2> HIDE DEF q
    <2>3. /\ r \in JobType /\ r.pc = "writing" /\ r.act = "raw" /\ r.todo = <<"HISTORY">>
          /\ r.tries = job[j].tries
      BY <2>1, <2>2, TidiedFacts
    <2>4. Shape(r) BY <2>3 DEF Shape
    <2> QED BY <1>1, <2>3, <2>4, NoCopies
  <1>2. CASE failures + 1 < MaxFailures /\ j.kind = "archive" /\ job[j].tries + 1 < MaxFailures
    <2>1. job[j].tries + 1 \in 0 .. MaxFailures - 1 BY <1>0, <1>2 DEF MaxFailures
    <2>2. r = Asking(j, job[j].tries + 1) BY <1>0, <1>2 DEF Failed, MaxFailures
    <2> QED BY <1>2, <2>1, <2>2, AskingFacts, AskingAgrees
  <1>3. CASE failures + 1 < MaxFailures /\ ~(j.kind = "archive" /\ job[j].tries + 1 < MaxFailures)
    <2>1. r \in Afterwards(j) BY <1>0, <1>3 DEF Failed, MaxFailures
    <2> QED BY <1>0, <1>3, <2>1, AfterwardsFacts DEF MaxFailures
  <1> QED BY <1>0, <1>1, <1>2, <1>3 DEF MaxFailures

-----------------------------------------------------------------------------
(* What a write does to the copies of others *)

\* Copies that a write of file f has not made stale agree with the files after it.
LEMMA OutdatedAgrees ==
  ASSUME NEW f \in Files, NEW jobs \in [Jobs -> JobType], NEW j \in Jobs,
         NEW t, NEW g, NEW t2, NEW g2,
         \A h \in Files \ {f} : t2[h] = t[h] /\ (h \in g2 => h \in g),
         AgreesWith(jobs[j], t, g)
  PROVE  AgreesWith(Outdated(f, jobs)[j], t2, g2)
  <1> DEFINE r == Outdated(f, jobs)[j]
  <1>1. /\ r.pc = jobs[j].pc /\ r.act = jobs[j].act /\ r.todo = jobs[j].todo
        /\ r.seen = jobs[j].seen
        /\ r.stale = IF f \in Copies(jobs[j]) THEN jobs[j].stale \cup {f} ELSE jobs[j].stale
    BY OutdatedFacts
  <1> HIDE DEF r
  <1>2. Copies(r) = Copies(jobs[j]) BY <1>1 DEF Copies
  <1>3. \A h \in Copies(r) \ r.stale : h \in Copies(jobs[j]) \ jobs[j].stale /\ h # f
    BY <1>1, <1>2
  <1>4. Copies(jobs[j]) \subseteq Files
    <2>1. jobs[j].todo \in Todos BY DEF JobType
    <2>2. CASE jobs[j].pc # "asking" BY <2>1, <2>2, CopiesFacts DEF Files
    <2>3. CASE jobs[j].pc = "asking" BY <2>3 DEF Copies, Files
    <2> QED BY <2>2, <2>3
  <1>5. AgreesWith(r, t2, g2) BY <1>1, <1>2, <1>3, <1>4 DEF AgreesWith
  <1> QED BY <1>5 DEF r

\* A write makes the editor's copy of the file stale, and nothing else.
LEMMA OutdatedEditorFacts ==
  ASSUME TypeOK, NEW f \in Files
  PROVE  LET e == OutdatedEditor(f) IN
         /\ e \in EditorType
         /\ e.pc = editor.pc /\ e.file = editor.file /\ e.seen = editor.seen /\ e.new = editor.new
         /\ e.stale <=> editor.stale \/ (editor.pc # "closed" /\ editor.file = f)
  <1>1. editor \in EditorType BY DEF TypeOK, FilesOK
  <1>2. CASE editor.pc # "closed" /\ editor.file = f
    <2>1. OutdatedEditor(f) = [editor EXCEPT !.stale = TRUE] BY <1>2 DEF OutdatedEditor
    <2> QED BY <1>1, <1>2, <2>1 DEF EditorType
  <1>3. CASE ~(editor.pc # "closed" /\ editor.file = f)
    <2>1. OutdatedEditor(f) = editor BY <1>3 DEF OutdatedEditor
    <2>2. editor.stale \in BOOLEAN BY <1>1 DEF EditorType
    <2>3. editor.stale <=> editor.stale \/ (editor.pc # "closed" /\ editor.file = f) BY <1>3, <2>2
    <2> QED BY <1>1, <2>1, <2>3
  <1> QED BY <1>2, <1>3

\* A write makes the copies of the file that forgets have stale, and nothing else.
LEMMA OutdatedForgetsFacts ==
  ASSUME NEW f \in Files, NEW fs \in [Forgetters -> RequestType]
  PROVE  /\ OutdatedForgets(f, fs) \in [Forgetters -> RequestType]
         /\ \A x \in Forgetters : LET r == OutdatedForgets(f, fs)[x] IN
              /\ r.pc = fs[x].pc /\ r.needle = fs[x].needle /\ r.seen = fs[x].seen
              /\ r.took = fs[x].took
              /\ r.stale <=> fs[x].stale \/ fs[x].pc = f
  <1>1. \A x \in Forgetters : fs[x] \in RequestType OBVIOUS
  <1>2. \A x \in Forgetters : OutdatedForgets(f, fs)[x] =
           IF fs[x].pc = f THEN [fs[x] EXCEPT !.stale = TRUE] ELSE fs[x]
    BY DEF OutdatedForgets
  <1>3. ASSUME NEW x \in Forgetters
        PROVE  LET r == OutdatedForgets(f, fs)[x] IN
              /\ r \in RequestType
              /\ r.pc = fs[x].pc /\ r.needle = fs[x].needle /\ r.seen = fs[x].seen
              /\ r.took = fs[x].took
              /\ r.stale <=> fs[x].stale \/ fs[x].pc = f
    <2>1. CASE fs[x].pc = f
      <3>1. OutdatedForgets(f, fs)[x] = [fs[x] EXCEPT !.stale = TRUE] BY <1>2, <2>1
      <3> QED BY <1>1, <2>1, <3>1 DEF RequestType
    <2>2. CASE fs[x].pc # f BY <1>1, <1>2, <2>2
    <2> QED BY <2>1, <2>2
  <1>4. OutdatedForgets(f, fs) \in [Forgetters -> RequestType] BY <1>3 DEF OutdatedForgets
  <1> QED BY <1>3, <1>4
-----------------------------------------------------------------------------
(* The steps of a job *)

\* An answered job has its files to write, and copies of these.
LEMMA AnsweredFacts ==
  ASSUME TypeOK, NEW j \in Jobs, Answered(j)
  PROVE  /\ job[j].pc = "asking" /\ job[j].act # "compact"
         /\ job' = [job EXCEPT ![j] = job'[j]]
         /\ job'[j] \in JobType
         /\ \E blank \in BOOLEAN : job'[j].blank = blank /\ job'[j].todo = ToWrite(j, blank)
         /\ job'[j].pc = IF job'[j].todo = <<>> THEN "ending" ELSE "writing"
         /\ job'[j].act = job[j].act /\ job'[j].tries = job[j].tries
         /\ \A f \in Copies(job'[j]) : /\ f \in Copies(job[j])
                                       /\ job'[j].seen[f] = job[j].seen[f]
                                       /\ f \in job'[j].stale <=> f \in job[j].stale
  <1>1. PICK blank \in BOOLEAN :
          job' = [job EXCEPT ![j] = Tidied(
            [job[j] EXCEPT !.pc = IF ToWrite(j, blank) = <<>> THEN "ending" ELSE "writing",
                           !.todo = ToWrite(j, blank), !.blank = blank])]
    BY DEF Answered
  <1> DEFINE w == ToWrite(j, blank)
             q == IF w = <<>> THEN "ending" ELSE "writing"
             r == [job[j] EXCEPT !.pc = q, !.todo = w, !.blank = blank]
  <1>2. job \in [Jobs -> JobType] /\ job[j] \in JobType BY DEF TypeOK, JobsOK
  <1>3. job'[j] = Tidied(r) /\ job' = [job EXCEPT ![j] = job'[j]] BY <1>1, <1>2
  <1>4. w \in Todos BY ToWriteFacts
  <1>5. q \in {"ending", "writing"} OBVIOUS
  <1>6. q = IF w = <<>> THEN "ending" ELSE "writing" OBVIOUS
  <1>7. job[j].pc = "asking" /\ job[j].act # "compact" BY DEF Answered
  <1>8. w = ToWrite(j, blank) OBVIOUS
  <1> HIDE DEF q, w
  <1>9. /\ r \in JobType /\ r.pc = q /\ r.todo = w /\ r.blank = blank /\ r.act = job[j].act
        /\ r.tries = job[j].tries /\ r.seen = job[j].seen /\ r.stale = job[j].stale
    BY <1>2, <1>4, <1>5 DEF JobType
  <1> HIDE DEF r
  <1>10. Copies(r) \subseteq {"MEMORY", "USER"} BY <1>4, <1>5, <1>9, CopiesFacts
  <1>11. Copies(job[j]) = {"MEMORY", "USER"} BY <1>7 DEF Copies
  <1>12. /\ Tidied(r) \in JobType
         /\ Tidied(r).pc = r.pc /\ Tidied(r).act = r.act /\ Tidied(r).todo = r.todo
         /\ Tidied(r).blank = r.blank /\ Tidied(r).tries = r.tries
         /\ Tidied(r).stale = r.stale \cap Copies(r)
         /\ \A f \in Files \cap Copies(r) : Tidied(r).seen[f] = r.seen[f]
         /\ Copies(Tidied(r)) = Copies(r)
    BY <1>9, TidiedFacts
  <1>13. \A f \in Copies(job'[j]) : /\ f \in Copies(job[j])
                                    /\ job'[j].seen[f] = job[j].seen[f]
                                    /\ f \in job'[j].stale <=> f \in job[j].stale
    BY <1>3, <1>9, <1>10, <1>11, <1>12 DEF Files
  <1>14. job'[j].blank = blank /\ job'[j].todo = ToWrite(j, blank) BY <1>3, <1>8, <1>9, <1>12
  <1>15. job'[j].pc = IF job'[j].todo = <<>> THEN "ending" ELSE "writing"
    BY <1>3, <1>6, <1>9, <1>12
  <1> QED BY <1>3, <1>7, <1>9, <1>12, <1>13, <1>14, <1>15

\* A compaction that is answered writes MEMORY.md from the copy it has.
LEMMA CompactedFacts ==
  ASSUME TypeOK, NEW j \in Jobs, Compacted(j)
  PROVE  /\ job[j].pc = "asking" /\ job[j].act = "compact"
         /\ job' = [job EXCEPT ![j] = job'[j]]
         /\ job'[j] \in JobType
         /\ job'[j].pc = "writing" /\ job'[j].todo = <<"MEMORY">>
         /\ job'[j].act = job[j].act /\ job'[j].tries = job[j].tries
         /\ job'[j].seen = job[j].seen /\ job'[j].stale = job[j].stale
         /\ Copies(job'[j]) = Copies(job[j])
  <1>1. job \in [Jobs -> JobType] /\ job[j] \in JobType BY DEF TypeOK, JobsOK
  <1>2. job[j].pc = "asking" /\ job[j].act = "compact" BY DEF Compacted
  <1>3. job'[j] = [job[j] EXCEPT !.pc = "writing", !.todo = <<"MEMORY">>]
        /\ job' = [job EXCEPT ![j] = job'[j]]
    BY <1>1 DEF Compacted
  <1>4. /\ job'[j] \in JobType
        /\ job'[j].pc = "writing" /\ job'[j].todo = <<"MEMORY">>
        /\ job'[j].act = job[j].act /\ job'[j].tries = job[j].tries
        /\ job'[j].seen = job[j].seen /\ job'[j].stale = job[j].stale
    BY <1>1, <1>3 DEF JobType, Todos
  <1>5. Copies(job[j]) = {"MEMORY"} BY <1>2 DEF Copies
  <1>6. Copies(job'[j]) = {"MEMORY"} BY <1>4 DEF Copies
  <1> QED BY <1>2, <1>3, <1>4, <1>5, <1>6

\* A consolidation that fails counts it, and the job goes on as Failed says.
LEMMA FailsFacts ==
  ASSUME TypeOK, NEW j \in Jobs, Fails(j)
  PROVE  failures' = failures + 1 /\ \E r \in Failed(j) : job' = [job EXCEPT ![j] = r]
  BY DEF Fails

\* A job without an answer, by what it asked for.
LEMMA UnansweredFacts ==
  ASSUME TypeOK, NEW j \in Jobs, Unanswered(j)
  PROVE  /\ job[j].pc = "asking"
         /\ \/ job[j].act = "summary" /\ Fails(j)
            \/ /\ job[j].act = "learn" /\ failures' = failures
               /\ \E r \in Afterwards(j) : job' = [job EXCEPT ![j] = r]
            \/ /\ job[j].act \notin {"summary", "learn"} /\ failures' = failures
               /\ job' = [job EXCEPT ![j] = Ended(j)]
  BY DEF Unanswered

\* A job whose write fails, by what it wrote.
LEMMA WriteFailsFacts ==
  ASSUME TypeOK, NEW j \in Jobs, WriteFails(j)
  PROVE  /\ job[j].pc \in {"writing", "flushing"}
         /\ \/ /\ job[j].act = "summary" /\ Fails(j) /\ excused' = excused
               /\ again' = IF Head(job[j].todo) = "HISTORY" THEN again ELSE again \cup {j.chunk}
            \/ /\ job[j].act = "raw" /\ failures' = failures /\ again' = again
               /\ job' = [job EXCEPT ![j] = Ended(j)]
               /\ excused' = excused \cup (IF j.kind = "archive" THEN {j.chunk} ELSE {})
            \/ /\ job[j].act = "learn" /\ UNCHANGED <<failures, excused, again>>
               /\ \E r \in Afterwards(j) : job' = [job EXCEPT ![j] = r]
            \/ /\ job[j].act \notin {"summary", "raw", "learn"}
               /\ UNCHANGED <<failures, excused, again>>
               /\ job' = [job EXCEPT ![j] = Ended(j)]
  BY DEF WriteFails

\* A job that ends has ended or compacts.
LEMMA EndsFacts ==
  ASSUME TypeOK, NEW j \in Jobs, Ends(j)
  PROVE  /\ job[j].pc = "ending"
         /\ \/ job[j].act = "compact" /\ job' = [job EXCEPT ![j] = Ended(j)]
            \/ job[j].act # "compact" /\ \E r \in Afterwards(j) : job' = [job EXCEPT ![j] = r]
  BY DEF Ends

\* Breaking off empties files only that were empty already.
LEMMA BrokenOffFacts ==
  ASSUME TypeOK, NEW fs, BrokenOff(fs)
  PROVE  /\ text' \in [Files -> SUBSET Chunks] /\ gap' \subseteq gap
         /\ \A f \in Files : text'[f] \subseteq text[f]
         /\ \A f \in Files : f \notin fs \cap gap => text'[f] = text[f] /\ (f \in gap' <=> f \in gap)
         /\ editor.pc = "flushing" => text'[editor.file] = text[editor.file]
                                      /\ (editor.file \in gap' <=> editor.file \in gap)
         /\ \A f \in fs \cap gap' : editor.pc = "flushing" /\ f = editor.file
  <1>1. text \in [Files -> SUBSET Chunks] /\ gap \subseteq Files /\ editor \in EditorType
    BY DEF TypeOK, FilesOK
  <1>2. editor.file \in Files BY <1>1 DEF EditorType
  <1> QED BY <1>1, <1>2 DEF BrokenOff
-----------------------------------------------------------------------------
(* Type correctness *)

\* A job changed to a job.
LEMMA JobChanged ==
  ASSUME TypeOK, NEW j \in Jobs, NEW r \in JobType, job' = [job EXCEPT ![j] = r]
  PROVE  JobsOK' /\ job'[j] = r /\ \A k \in Jobs \ {j} : job'[k] = job[k]
  BY DEF TypeOK, JobsOK

\* The gateway starts with jobs, sessions and files of their types.
LEMMA TypeInit == Init => TypeOK
  <1> SUFFICES ASSUME Init PROVE TypeOK
    OBVIOUS
  <1>1. JobsOK BY NewRecords DEF Init, JobsOK
  <1>2. SessionsOK BY MemoryAssumption DEF Init, SessionsOK
  <1>3. FilesOK
    <2>1. quar \in [older : SUBSET (Files \X Chunks), newest : SUBSET (Files \X Chunks)]
      BY DEF Init
    <2>2. forget \in [Forgetters -> RequestType] BY NewRecords DEF Init
    <2> QED BY <2>1, <2>2, NewRecords DEF Init, FilesOK
  <1>4. GhostsOK BY DEF Init, GhostsOK
  <1> QED BY <1>1, <1>2, <1>3, <1>4 DEF TypeOK

\* Every step keeps the types.
LEMMA TypeStep == TypeOK /\ Shapes /\ [Next]_vars => TypeOK'
  <1> SUFFICES ASSUME TypeOK, Shapes, [Next]_vars PROVE TypeOK'
    OBVIOUS
  <1> USE DEF disk, sessions, webui, ghosts
  <1>j. \A j \in Jobs : j.chunk \in Chunks BY MemoryAssumption
  <1>t. 0 \in 0 .. MaxFailures - 1 BY DEF MaxFailures
  <1>f. /\ text \in [Files -> SUBSET Chunks] /\ gap \subseteq Files
        /\ editor \in EditorType /\ forget \in [Forgetters -> RequestType]
        /\ \A f \in Files : Seen(f) \subseteq Chunks
    BY SeenFacts DEF TypeOK, FilesOK
  <1>h. \A j \in Jobs : job[j] \in JobType /\ job[j].todo \in Todos /\ job[j].seen \in [Files -> SUBSET Chunks]
    BY DEF TypeOK, JobsOK, JobType
  <1>g. \A j \in Jobs : job[j].todo # <<>> => Head(job[j].todo) \in Files BY <1>h, TodoFacts
  <1>n. ASSUME NEW j \in Jobs, NEW f \in Files PROVE New(j, f) \subseteq Chunks
    BY <1>h, <1>j DEF New
  <1>o. ASSUME NEW f \in Files, NEW n \in SUBSET Chunks, NEW now \in Overwritten(f, n)
        PROVE  now \subseteq Chunks
    BY <1>f DEF Overwritten
  <1>w. \A j \in Jobs : job[j].pc \in {"writing", "flushing"} => job[j].todo # <<>>
    BY DEF Shapes, Shape
  <1>1. ASSUME NEW j \in Jobs, Begins(j) PROVE TypeOK'
    <2>1. JobsOK' BY <1>1, <1>t, AskingFacts, JobChanged DEF Begins
    <2> QED BY <1>1, <2>1 DEF Begins, TypeOK, SessionsOK, FilesOK, GhostsOK
  <1>2. ASSUME NEW j \in Jobs, Archives(j) PROVE TypeOK'
    <2>1. CASE j.chunk \in passed
      <3>1. JobsOK' BY <1>2, <2>1 DEF Archives, TypeOK, JobsOK
      <3> QED BY <1>2, <2>1, <3>1, <1>j DEF Archives, TypeOK, SessionsOK, FilesOK, GhostsOK
    <2>2. CASE j.chunk \notin passed
      <3>1. JobsOK' BY <1>2, <2>2, <1>t, AskingFacts, JobChanged DEF Archives
      <3>2. again' \subseteq Chunks BY <1>2, <2>2, <1>j DEF Archives, TypeOK, GhostsOK
      <3> QED BY <1>2, <2>2, <3>1, <3>2, <1>j DEF Archives, TypeOK, SessionsOK, FilesOK, GhostsOK
    <2> QED BY <2>1, <2>2
  <1>3. ASSUME NEW j \in Jobs, Answered(j) PROVE TypeOK'
    <2>1. JobsOK' BY <1>3, AnsweredFacts, JobChanged
    <2>2. left' \in 0..MaxTroubles BY <1>3, MemoryAssumption DEF Answered, TypeOK, SessionsOK
    <2> QED BY <1>3, <2>1, <2>2 DEF Answered, TypeOK, SessionsOK, FilesOK, GhostsOK
  <1>4. ASSUME NEW j \in Jobs, Compacted(j) PROVE TypeOK'
    <2>1. JobsOK' BY <1>4, CompactedFacts, JobChanged
    <2> QED BY <1>4, <2>1 DEF Compacted, TypeOK, SessionsOK, FilesOK, GhostsOK
  <1>fails. ASSUME NEW j \in Jobs, Fails(j) PROVE JobsOK' /\ failures' \in Nat
    BY <1>fails, FailsFacts, FailedFacts, JobChanged DEF TypeOK, SessionsOK
  <1>5. ASSUME NEW j \in Jobs, Unanswered(j) PROVE TypeOK'
    <2>1. JobsOK' /\ failures' \in Nat
      BY <1>5, <1>fails, UnansweredFacts, AfterwardsFacts, EndedFacts, JobChanged
         DEF TypeOK, SessionsOK
    <2> QED BY <1>5, <2>1 DEF Unanswered, TypeOK, SessionsOK, FilesOK, GhostsOK
  <1>6. ASSUME NEW j \in Jobs, Appends(j) PROVE TypeOK'
    <2>0. "HISTORY" \in Files BY DEF Files
    <2>1. JobsOK'
      <3>1. job[j].todo # <<>> BY <1>6, <1>w DEF Appends
      <3> QED BY <1>6, <3>1, WroteFacts, JobChanged DEF Appends
    <2>2. FilesOK'
      <3>1. text' \in [Files -> SUBSET Chunks] BY <1>6, <1>f, <1>j, <2>0 DEF Appends
      <3>2. editor' \in EditorType BY <1>6, <2>0, OutdatedEditorFacts DEF Appends
      <3>3. forget' \in [Forgetters -> RequestType]
        BY <1>6, <1>f, <2>0, OutdatedForgetsFacts DEF Appends
      <3> QED BY <1>6, <3>1, <3>2, <3>3 DEF Appends, TypeOK, FilesOK
    <2>3. GhostsOK' BY <1>6, <1>j DEF Appends, TypeOK, GhostsOK
    <2> QED BY <1>6, <2>1, <2>2, <2>3 DEF Appends, TypeOK, SessionsOK
  <1>7. ASSUME NEW j \in Jobs, Opens(j) PROVE TypeOK'
    <2> DEFINE f == Head(job[j].todo)
    <2>1. f \in Files BY <1>7, <1>w, <1>g DEF Opens
    <2>2. JobsOK'
      <3> DEFINE r == [job[j] EXCEPT !.pc = "flushing"]
      <3>1. job' = [Outdated(f, job) EXCEPT ![j] = r] BY <1>7 DEF Opens
      <3>2. r \in JobType BY <1>h DEF JobType
      <3>3. Outdated(f, job) \in [Jobs -> JobType] BY <2>1, OutdatedFacts DEF TypeOK, JobsOK
      <3> HIDE DEF r, f
      <3> QED BY <3>1, <3>2, <3>3 DEF JobsOK
    <2>3. FilesOK'
      <3>1. editor' \in EditorType BY <1>7, <2>1, OutdatedEditorFacts DEF Opens
      <3>2. forget' \in [Forgetters -> RequestType]
        BY <1>7, <1>f, <2>1, OutdatedForgetsFacts DEF Opens
      <3>3. gap' \subseteq Files BY <1>7, <1>f, <2>1 DEF Opens
      <3> QED BY <1>7, <3>1, <3>2, <3>3 DEF Opens, TypeOK, FilesOK
    <2> QED BY <1>7, <2>2, <2>3 DEF Opens, TypeOK, SessionsOK, GhostsOK
  <1>8. ASSUME NEW j \in Jobs, Flushes(j) PROVE TypeOK'
    <2> DEFINE f == Head(job[j].todo)
    <2>1. f \in Files BY <1>8, <1>w, <1>g DEF Flushes
    <2>2. JobsOK'
      <3>1. job' = [Outdated(f, job) EXCEPT ![j] = Wrote(j)] BY <1>8 DEF Flushes
      <3>2. Wrote(j) \in JobType BY <1>8, <1>w, WroteFacts DEF Flushes
      <3>3. Outdated(f, job) \in [Jobs -> JobType] BY <2>1, OutdatedFacts DEF TypeOK, JobsOK
      <3> HIDE DEF f
      <3> QED BY <3>1, <3>2, <3>3 DEF JobsOK
    <2>3. FilesOK'
      <3>1. editor' \in EditorType BY <1>8, <2>1, OutdatedEditorFacts DEF Flushes
      <3>2. forget' \in [Forgetters -> RequestType]
        BY <1>8, <1>f, <2>1, OutdatedForgetsFacts DEF Flushes
      <3>3. gap' \subseteq Files BY <1>8, <1>f DEF Flushes
      <3>4. PICK now \in Overwritten(f, New(j, f)) : text' = [text EXCEPT ![f] = now]
        BY <1>8 DEF Flushes
      <3>5. now \subseteq Chunks BY <1>n, <1>o, <2>1, <3>4
      <3>6. text' \in [Files -> SUBSET Chunks] BY <1>f, <3>4, <3>5
      <3> QED BY <1>8, <3>1, <3>2, <3>3, <3>6 DEF Flushes, TypeOK, FilesOK
    <2>4. GhostsOK' BY <1>8 DEF Flushes, TypeOK, GhostsOK
    <2> QED BY <1>8, <2>2, <2>3, <2>4 DEF Flushes, TypeOK, SessionsOK
  <1>9. ASSUME NEW j \in Jobs, Ends(j) PROVE TypeOK'
    <2>1. JobsOK' BY <1>9, EndsFacts, AfterwardsFacts, EndedFacts, JobChanged
    <2>2. failures' \in Nat /\ excused' \subseteq Chunks
      BY <1>9, <1>j DEF Ends, Resets, TypeOK, SessionsOK, GhostsOK
    <2>3. passed' \subseteq Chunks /\ learned' \subseteq Chunks
      BY <1>9, <1>j DEF Ends, TypeOK, SessionsOK
    <2> QED BY <1>9, <2>1, <2>2, <2>3 DEF Ends, TypeOK, SessionsOK, FilesOK, GhostsOK
  <1>10. ASSUME NEW j \in Jobs, WriteFails(j) PROVE TypeOK'
    <2>1. JobsOK' /\ failures' \in Nat
      BY <1>10, <1>fails, WriteFailsFacts, AfterwardsFacts, EndedFacts, JobChanged
         DEF TypeOK, SessionsOK
    <2>2. FilesOK' BY <1>10, BrokenOffFacts DEF WriteFails, TypeOK, FilesOK
    <2>3. GhostsOK' BY <1>10, <1>j, WriteFailsFacts DEF WriteFails, TypeOK, GhostsOK
    <2>4. left' \in 0..MaxTroubles BY <1>10, MemoryAssumption DEF WriteFails, TypeOK, SessionsOK
    <2> QED BY <1>10, <2>1, <2>2, <2>3, <2>4 DEF WriteFails, TypeOK, SessionsOK
  <1>11. ASSUME NEW x \in Forgetters, NEW c \in Chunks, ForgetReads(x, c) PROVE TypeOK'
    <2>1. forget' \in [Forgetters -> RequestType]
      <3> DEFINE r == [pc |-> "MEMORY", needle |-> c, seen |-> Seen("MEMORY"),
                       stale |-> "MEMORY" \in gap, took |-> {}]
      <3>1. Seen("MEMORY") \in SUBSET Chunks BY <1>f DEF Files
      <3>2. r \in RequestType BY <3>1 DEF RequestType
      <3>3. forget' = [forget EXCEPT ![x] = r] BY <1>11 DEF ForgetReads
      <3> QED BY <1>f, <3>2, <3>3
    <2>2. left' \in 0..MaxTroubles BY <1>11, MemoryAssumption DEF ForgetReads, TypeOK, SessionsOK
    <2>3. dropped' \subseteq Files \X Chunks BY <1>11 DEF ForgetReads, TypeOK, GhostsOK, Files
    <2> QED BY <1>11, <2>1, <2>2, <2>3
         DEF ForgetReads, TypeOK, JobsOK, SessionsOK, FilesOK, GhostsOK
  <1>r. \A x \in Forgetters :
          /\ forget[x] \in RequestType /\ forget[x].seen \subseteq Chunks
          /\ forget[x].took \subseteq Files \X Chunks
    BY <1>f DEF RequestType
  <1>k. ASSUME NEW x \in Forgetters, forget[x].pc \in Files
        PROVE  /\ Takes(x) \subseteq Files \X Chunks /\ Took(x) \subseteq Files \X Chunks
               /\ OtherForgets(x) \in [Forgetters -> RequestType]
    <2>1. Takes(x) \subseteq Files \X Chunks BY <1>k, <1>r DEF Takes
    <2>2. Took(x) \subseteq Files \X Chunks BY <1>r, <2>1 DEF Took
    <2>3. OtherForgets(x) \in [Forgetters -> RequestType]
      BY <1>k, <1>f, OutdatedForgetsFacts DEF OtherForgets
    <2> QED BY <2>1, <2>2, <2>3
  <1>v. ASSUME NEW x \in Forgetters, forget[x].pc \in Files, ForgetWrites(x)
        PROVE  /\ text' \in [Files -> SUBSET Chunks] /\ gap' \subseteq Files
               /\ job' \in [Jobs -> JobType] /\ editor' \in EditorType
    <2>1. CASE Takes(x) = {} BY <1>v, <1>f, <2>1 DEF ForgetWrites, TypeOK, JobsOK
    <2>2. CASE Takes(x) # {}
      <3>1. job' \in [Jobs -> JobType]
        BY <1>v, <2>2, OutdatedFacts DEF ForgetWrites, TypeOK, JobsOK
      <3>2. editor' \in EditorType BY <1>v, <2>2, OutdatedEditorFacts DEF ForgetWrites
      <3>3. text' \in [Files -> SUBSET Chunks] /\ gap' \subseteq Files
        BY <1>v, <1>f, <1>r, <2>2 DEF ForgetWrites
      <3> QED BY <3>1, <3>2, <3>3
    <2> QED BY <2>1, <2>2
  <1>12. ASSUME NEW x \in Forgetters, ForgetMemory(x) PROVE TypeOK'
    <2>1. forget[x].pc \in Files BY <1>12 DEF ForgetMemory, Files
    <2>2. forget' \in [Forgetters -> RequestType]
      <3> DEFINE s == Seen("HISTORY")
                 t == Took(x)
                 b == "HISTORY" \in gap
                 r == [forget[x] EXCEPT !.pc = "HISTORY", !.seen = s, !.stale = b, !.took = t]
      <3>1. forget' = [OtherForgets(x) EXCEPT ![x] = r] BY <1>12 DEF ForgetMemory
      <3>2. s \in SUBSET Chunks /\ t \in SUBSET (Files \X Chunks) BY <1>f, <1>k, <2>1 DEF Files
      <3>5. b \in BOOLEAN OBVIOUS
      <3> HIDE DEF s, t, b
      <3>3. r \in RequestType BY <1>r, <3>2, <3>5 DEF RequestType
      <3>4. OtherForgets(x) \in [Forgetters -> RequestType] BY <1>k, <2>1
      <3> HIDE DEF r
      <3> QED BY <3>1, <3>3, <3>4
    <2>3. gone' \subseteq Files \X Chunks BY <1>12, <1>k, <2>1 DEF ForgetMemory, TypeOK, GhostsOK
    <2>4. dropped' \subseteq Files \X Chunks
      <3>1. forget[x].needle \in Chunks BY <1>12 DEF ForgetMemory, Shapes, ForgetShape
      <3> QED BY <1>12, <3>1 DEF ForgetMemory, TypeOK, GhostsOK, Files
    <2> QED BY <1>12, <1>v, <2>1, <2>2, <2>3, <2>4
         DEF ForgetMemory, TypeOK, JobsOK, SessionsOK, FilesOK, GhostsOK
  <1>13. ASSUME NEW x \in Forgetters, ForgetHistory(x) PROVE TypeOK'
    <2>1. forget[x].pc \in Files BY <1>13 DEF ForgetHistory, Files
    <2>2. forget' \in [Forgetters -> RequestType]
      <3> DEFINE t == Took(x)
                 r == [forget[x] EXCEPT !.pc = "quarantine", !.seen = {}, !.stale = FALSE,
                                        !.took = t]
      <3>1. forget' = [OtherForgets(x) EXCEPT ![x] = IF t = {} THEN NoForget ELSE r]
        BY <1>13 DEF ForgetHistory
      <3>2. t \in SUBSET (Files \X Chunks) BY <1>k, <2>1
      <3> HIDE DEF t
      <3>3. r \in RequestType BY <1>r, <3>2 DEF RequestType
      <3>4. OtherForgets(x) \in [Forgetters -> RequestType] BY <1>k, <2>1
      <3> HIDE DEF r
      <3> QED BY <3>1, <3>3, <3>4, NewRecords
    <2>3. gone' \subseteq Files \X Chunks BY <1>13, <1>k, <2>1 DEF ForgetHistory, TypeOK, GhostsOK
    <2> QED BY <1>13, <1>v, <2>1, <2>2, <2>3
         DEF ForgetHistory, TypeOK, JobsOK, SessionsOK, FilesOK, GhostsOK
  <1>14. ASSUME NEW x \in Forgetters, Quarantines(x) PROVE TypeOK'
    <2>0. /\ quar.older \subseteq Files \X Chunks /\ quar.newest \subseteq Files \X Chunks
          /\ quar \in [older : SUBSET (Files \X Chunks), newest : SUBSET (Files \X Chunks)]
      BY DEF TypeOK, FilesOK
    <2>1. forget' \in [Forgetters -> RequestType] BY <1>14, <1>f, NewRecords DEF Quarantines
    <2>2. /\ quar' \in [older : SUBSET (Files \X Chunks), newest : SUBSET (Files \X Chunks)]
          /\ unkept' \subseteq Files \X Chunks
      <3>1. CASE /\ quar' = [quar EXCEPT !.newest = forget[x].took]
                 /\ unkept' = unkept \cup quar.newest
        BY <1>r, <2>0, <3>1 DEF TypeOK, GhostsOK
      <3>2. CASE /\ quar' = [older |-> quar.older \cup quar.newest, newest |-> forget[x].took]
                 /\ unkept' = unkept
        BY <1>r, <2>0, <3>2 DEF TypeOK, GhostsOK
      <3> QED BY <1>14, <3>1, <3>2 DEF Quarantines
    <2> QED BY <1>14, <2>1, <2>2
         DEF Quarantines, TypeOK, JobsOK, SessionsOK, FilesOK, GhostsOK
  <1>15. ASSUME NEW f \in Files, EditorLoads(f) PROVE TypeOK'
    <2>1. editor' \in EditorType
      <3> DEFINE s == Seen(f)
                 b == f \in gap
      <3>1. editor' = [Closed EXCEPT !.pc = "shown", !.file = f, !.seen = s, !.stale = b]
        BY <1>15 DEF EditorLoads
      <3>2. s \in SUBSET Chunks /\ b \in BOOLEAN BY <1>f
      <3> HIDE DEF s, b
      <3> QED BY <3>1, <3>2, NewRecords DEF EditorType
    <2>2. left' \in 0..MaxTroubles BY <1>15, MemoryAssumption DEF EditorLoads, TypeOK, SessionsOK
    <2> QED BY <1>15, <2>1, <2>2 DEF EditorLoads, TypeOK, JobsOK, SessionsOK, FilesOK, GhostsOK
  <1>e. editor.file \in Files /\ editor.seen \subseteq Chunks /\ editor.new \subseteq Chunks
    BY <1>f DEF EditorType
  <1>p. ASSUME job' = Outdated(editor.file, job), forget' = OutdatedForgets(editor.file, forget)
        PROVE  JobsOK' /\ forget' \in [Forgetters -> RequestType]
    <2>1. job' \in [Jobs -> JobType] BY <1>p, <1>e, OutdatedFacts DEF TypeOK, JobsOK
    <2>2. forget' \in [Forgetters -> RequestType] BY <1>p, <1>e, <1>f, OutdatedForgetsFacts
    <2> QED BY <2>1, <2>2 DEF JobsOK
  <1>16. ASSUME EditorOpens PROVE TypeOK'
    <2>1. PICK out \in SUBSET editor.seen :
            /\ editor' = [editor EXCEPT !.pc = "flushing", !.new = editor.seen \ out]
            /\ dropped' = dropped \cup ({editor.file} \X out)
      BY <1>16 DEF EditorOpens
    <2>2. editor' \in EditorType BY <1>f, <1>e, <2>1 DEF EditorType
    <2>3. dropped' \subseteq Files \X Chunks BY <1>e, <2>1 DEF TypeOK, GhostsOK
    <2>4. gap' \subseteq Files BY <1>16, <1>e, <1>f DEF EditorOpens
    <2>5. JobsOK' /\ forget' \in [Forgetters -> RequestType] BY <1>16, <1>p DEF EditorOpens
    <2> QED BY <1>16, <2>2, <2>3, <2>4, <2>5
         DEF EditorOpens, TypeOK, SessionsOK, FilesOK, GhostsOK
  <1>17. ASSUME EditorFlushes PROVE TypeOK'
    <2>1. PICK now \in Overwritten(editor.file, editor.new) :
            text' = [text EXCEPT ![editor.file] = now]
      BY <1>17 DEF EditorFlushes
    <2>2. text' \in [Files -> SUBSET Chunks] BY <1>e, <1>f, <1>o, <2>1
    <2>3. JobsOK' /\ forget' \in [Forgetters -> RequestType] BY <1>17, <1>p DEF EditorFlushes
    <2> QED BY <1>17, <2>2, <2>3, <1>f, NewRecords
         DEF EditorFlushes, TypeOK, SessionsOK, FilesOK, GhostsOK
  <1>18. ASSUME GatewayRestarts PROVE TypeOK'
    <2>1. JobsOK' BY <1>18, NewRecords, EndedFacts DEF GatewayRestarts, JobsOK
    <2>2. FilesOK'
      <3>1. forget' \in [Forgetters -> RequestType] BY <1>18, <1>f, NewRecords DEF GatewayRestarts
      <3> QED BY <1>18, <3>1, BrokenOffFacts DEF GatewayRestarts, TypeOK, FilesOK
    <2>3. GhostsOK' 
      <3>1. unkept' \subseteq Files \X Chunks
        BY <1>18, <1>r DEF GatewayRestarts, TypeOK, GhostsOK, Forgetters
      <3>2. excused' \subseteq Chunks /\ again' \subseteq Chunks
        BY <1>18, <1>j DEF GatewayRestarts, TypeOK, GhostsOK
      <3> QED BY <1>18, <3>1, <3>2 DEF GatewayRestarts, TypeOK, GhostsOK
    <2>4. left' \in 0..MaxTroubles
      BY <1>18, MemoryAssumption DEF GatewayRestarts, TypeOK, SessionsOK
    <2> QED BY <1>18, <2>1, <2>2, <2>3, <2>4 DEF GatewayRestarts, TypeOK, SessionsOK
  <1>19. CASE UNCHANGED vars
    BY <1>19 DEF vars, TypeOK, JobsOK, SessionsOK, FilesOK, GhostsOK
  <1> QED BY <1>1, <1>2, <1>3, <1>4, <1>5, <1>6, <1>7, <1>8, <1>9, <1>10, <1>11, <1>12, <1>13,
             <1>14, <1>15, <1>16, <1>17, <1>18, <1>19 DEF Next, Forgets
-----------------------------------------------------------------------------
(* Shapes *)

\* The shape of a job does not depend on its copies.
LEMMA SameShape ==
  ASSUME NEW r, NEW q, Shape(r), q.pc = r.pc, q.act = r.act, q.todo = r.todo, q.blank = r.blank
  PROVE  Shape(q)
  BY DEF Shape

\* A job that has written a file keeps its shape.
LEMMA WroteShape ==
  ASSUME TypeOK, Shapes, NEW j \in Jobs, job[j].pc \in {"writing", "flushing"}
  PROVE  Shape(Wrote(j)) /\ Wrote(j).pc # "flushing"
  <1>1. Shape(job[j]) /\ job[j].todo \in Todos BY DEF Shapes, TypeOK, JobsOK, JobType
  <1>2. job[j].todo # <<>> BY <1>1 DEF Shape
  <1>3. /\ Wrote(j).pc = IF Tail(job[j].todo) = <<>> THEN "ending" ELSE "writing"
        /\ Wrote(j).todo = Tail(job[j].todo)
        /\ Wrote(j).act = job[j].act /\ Wrote(j).blank = job[j].blank
    BY <1>2, WroteFacts
  <1>4. /\ Tail(job[j].todo) # <<>> => Head(Tail(job[j].todo)) # "HISTORY"
        /\ Head(job[j].todo) # "HISTORY" => Tail(job[j].todo) = <<>>
    BY <1>1, <1>2, TodoFacts
  <1>5. job[j].act # "none" /\ ~(job[j].act = "learn" /\ job[j].blank) BY <1>1, <1>2 DEF Shape
  <1>6. job[j].act \in {"raw", "compact"} => Tail(job[j].todo) = <<>>
    <2>1. Tail(<<"HISTORY">>) = <<>> /\ Tail(<<"MEMORY">>) = <<>> OBVIOUS
    <2>2. job[j].act \in {"raw", "compact"} => job[j].todo \in {<<"HISTORY">>, <<"MEMORY">>}
      BY <1>1, <1>2 DEF Shape
    <2> QED BY <2>1, <2>2
  <1> QED BY <1>3, <1>4, <1>5, <1>6 DEF Shape

\* Writes of others leave the shapes of jobs as they are, and of forgets.
LEMMA OutdatedShape ==
  ASSUME TypeOK, Shapes, NEW f \in Files
  PROVE  /\ \A j \in Jobs : Shape(Outdated(f, job)[j])
         /\ \A x \in Forgetters : ForgetShape(OutdatedForgets(f, forget)[x])
  <1>1. job \in [Jobs -> JobType] /\ forget \in [Forgetters -> RequestType]
    BY DEF TypeOK, JobsOK, FilesOK
  <1>2. ASSUME NEW j \in Jobs PROVE Shape(Outdated(f, job)[j])
    <2> DEFINE r == Outdated(f, job)[j]
    <2>1. r.pc = job[j].pc /\ r.act = job[j].act /\ r.todo = job[j].todo /\ r.blank = job[j].blank
      BY <1>1, OutdatedFacts
    <2>2. Shape(job[j]) BY DEF Shapes
    <2> HIDE DEF r
    <2>3. Shape(r) BY <2>1, <2>2, SameShape
    <2> QED BY <2>3 DEF r
  <1>3. ASSUME NEW x \in Forgetters PROVE ForgetShape(OutdatedForgets(f, forget)[x])
    BY <1>1, OutdatedForgetsFacts DEF Shapes, ForgetShape
  <1> QED BY <1>2, <1>3

\* A job that is idle has nothing to write.
LEMMA ShapesInit == Init => Shapes
  BY NewRecords DEF Init, Shapes, Shape, ForgetShape

\* Every step leaves jobs and forgets with what fits where they are.
LEMMA ShapesStep == TypeOK /\ Shapes /\ [Next]_vars => Shapes'
  <1> SUFFICES ASSUME TypeOK, Shapes, [Next]_vars PROVE Shapes'
    OBVIOUS
  <1> USE DEF disk, sessions, webui, ghosts
  <1>h. /\ job \in [Jobs -> JobType] /\ forget \in [Forgetters -> RequestType]
        /\ \A j \in Jobs : Shape(job[j]) /\ job[j] \in JobType /\ job[j].todo \in Todos
        /\ \A x \in Forgetters : ForgetShape(forget[x])
    BY DEF TypeOK, JobsOK, FilesOK, JobType, Shapes
  <1>t. 0 \in 0 .. MaxFailures - 1 BY DEF MaxFailures
  <1>w. \A j \in Jobs : job[j].pc \in {"writing", "flushing"} =>
           job[j].todo # <<>> /\ Head(job[j].todo) \in Files
    BY <1>h, TodoFacts DEF Shape
  <1>s. ASSUME NEW j \in Jobs, NEW r \in JobType, job' = [job EXCEPT ![j] = r], Shape(r),
               forget' = forget
        PROVE  Shapes'
    BY <1>s, <1>h DEF Shapes
  <1>fails. ASSUME NEW j \in Jobs, Fails(j), forget' = forget PROVE Shapes'
    BY <1>fails, <1>s, FailsFacts, FailedFacts
  <1>ended. ASSUME NEW j \in Jobs PROVE Ended(j) \in JobType /\ Shape(Ended(j))
    BY EndedFacts DEF Shape
  <1>1. ASSUME NEW j \in Jobs, Begins(j) PROVE Shapes'
    BY <1>1, <1>s, <1>t, AskingFacts, AskingAgrees DEF Begins
  <1>2. ASSUME NEW j \in Jobs, Archives(j) PROVE Shapes'
    <2>1. CASE j.chunk \in passed BY <1>2, <2>1 DEF Archives, Shapes
    <2>2. CASE j.chunk \notin passed
      BY <1>2, <2>2, <1>s, <1>t, AskingFacts, AskingAgrees DEF Archives
    <2> QED BY <2>1, <2>2
  <1>3. ASSUME NEW j \in Jobs, Answered(j) PROVE Shapes'
    <2>1. PICK blank \in BOOLEAN : job'[j].blank = blank /\ job'[j].todo = ToWrite(j, blank)
      BY <1>3, AnsweredFacts
    <2> DEFINE w == ToWrite(j, blank)
    <2>2. /\ w \in Todos /\ (job[j].act = "summary" => w # <<>> /\ Head(w) = "HISTORY")
          /\ job[j].act # "summary" =>
               w \in {<<>>, <<"MEMORY">>, <<"USER">>} /\ (blank => w = <<>>)
      BY ToWriteFacts
    <2> HIDE DEF w
    <2>3. /\ job[j].pc = "asking" /\ job[j].act # "compact"
          /\ job'[j].pc = IF w = <<>> THEN "ending" ELSE "writing"
          /\ job'[j].act = job[j].act /\ job'[j].todo = w /\ job'[j].blank = blank
      BY <1>3, <2>1, AnsweredFacts DEF w
    <2>4. job[j].act \notin {"none", "raw"}
      <3>1. Shape(job[j]) /\ job[j].todo = <<>> BY <1>h, <2>3 DEF Shape
      <3>2. job[j].act # "none" BY <2>3, <3>1 DEF Shape
      <3>3. job[j].act # "raw" BY <2>3, <3>1 DEF Shape
      <3> QED BY <3>2, <3>3
    <2>5. Shape(job'[j])
      <3>1. CASE job[j].act = "summary" BY <2>2, <2>3, <3>1 DEF Shape
      <3>2. CASE job[j].act # "summary" 
        <4>1. Head(<<"MEMORY">>) = "MEMORY" /\ Head(<<"USER">>) = "USER" OBVIOUS
        <4>2. w # <<>> => Head(w) # "HISTORY" BY <2>2, <3>2, <4>1
        <4> QED BY <2>2, <2>3, <2>4, <3>2, <4>2 DEF Shape
      <3> QED BY <3>1, <3>2
    <2> QED BY <1>3, <1>s, <2>5, AnsweredFacts DEF Answered
  <1>4. ASSUME NEW j \in Jobs, Compacted(j) PROVE Shapes'
    <2>1. Head(<<"MEMORY">>) = "MEMORY" OBVIOUS
    <2> DEFINE r == job'[j]
    <2>2. r.pc = "writing" /\ r.todo = <<"MEMORY">> /\ r.act = "compact" BY <1>4, CompactedFacts
    <2> HIDE DEF r
    <2>3. Shape(r) BY <2>1, <2>2 DEF Shape
    <2>4. Shape(job'[j]) BY <2>3 DEF r
    <2> QED BY <1>4, <1>s, <2>4, CompactedFacts DEF Compacted
  <1>5. ASSUME NEW j \in Jobs, Unanswered(j) PROVE Shapes'
    <2>1. forget' = forget BY <1>5 DEF Unanswered
    <2> QED BY <1>5, <2>1, <1>s, <1>fails, <1>ended, UnansweredFacts, AfterwardsFacts
  <1>forgets. ASSUME NEW f \in Files, forget' = OutdatedForgets(f, forget)
              PROVE  \A x \in Forgetters : ForgetShape(forget'[x])
    BY <1>forgets, OutdatedShape
  <1>6. ASSUME NEW j \in Jobs, Appends(j) PROVE Shapes'
    <2>1. job' = [job EXCEPT ![j] = Wrote(j)] BY <1>6 DEF Appends
    <2>2. Shape(Wrote(j)) BY <1>6, WroteShape DEF Appends
    <2>3. \A x \in Forgetters : ForgetShape(forget'[x]) BY <1>6, <1>forgets DEF Appends, Files
    <2> QED BY <1>h, <2>1, <2>2, <2>3 DEF Shapes
  <1>outdated. ASSUME NEW j \in Jobs, NEW r, NEW f \in Files, Shape(r),
                      job' = [Outdated(f, job) EXCEPT ![j] = r],
                      forget' = OutdatedForgets(f, forget)
               PROVE  Shapes'
    <2>1. Outdated(f, job) \in [Jobs -> JobType] BY <1>h, OutdatedFacts
    <2>2. \A k \in Jobs : job'[k] = IF k = j THEN r ELSE Outdated(f, job)[k]
      BY <1>outdated, <2>1
    <2> QED BY <1>outdated, <1>forgets, <2>2, OutdatedShape DEF Shapes
  <1>7. ASSUME NEW j \in Jobs, Opens(j) PROVE Shapes'
    <2> DEFINE r == [job[j] EXCEPT !.pc = "flushing"]
               f == Head(job[j].todo)
    <2>1. f \in Files /\ f # "HISTORY" /\ job[j].pc = "writing" /\ job[j].todo # <<>>
      BY <1>7, <1>w DEF Opens
    <2>2. /\ r.pc = "flushing" /\ r.act = job[j].act /\ r.todo = job[j].todo /\ r.blank = job[j].blank
      BY <1>h DEF JobType
    <2>3. Shape(job[j]) BY <1>h
    <2>4. job' = [Outdated(f, job) EXCEPT ![j] = r] /\ forget' = OutdatedForgets(f, forget)
      BY <1>7 DEF Opens
    <2> HIDE DEF r
    <2>5. Shape(r) BY <2>1, <2>2, <2>3 DEF Shape
    <2> QED BY <1>outdated, <2>1, <2>4, <2>5
  <1>8. ASSUME NEW j \in Jobs, Flushes(j) PROVE Shapes'
    <2> DEFINE f == Head(job[j].todo)
    <2>1. f \in Files BY <1>8, <1>w DEF Flushes
    <2>2. job' = [Outdated(f, job) EXCEPT ![j] = Wrote(j)] /\ forget' = OutdatedForgets(f, forget)
      BY <1>8 DEF Flushes
    <2>3. Shape(Wrote(j)) BY <1>8, WroteShape DEF Flushes
    <2> QED BY <1>outdated, <2>1, <2>2, <2>3
  <1>9. ASSUME NEW j \in Jobs, Ends(j) PROVE Shapes'
    <2>1. forget' = forget BY <1>9 DEF Ends
    <2> QED BY <1>9, <2>1, <1>s, <1>ended, EndsFacts, AfterwardsFacts
  <1>10. ASSUME NEW j \in Jobs, WriteFails(j) PROVE Shapes'
    <2>1. forget' = forget BY <1>10 DEF WriteFails
    <2> QED BY <1>10, <2>1, <1>s, <1>fails, <1>ended, WriteFailsFacts, AfterwardsFacts
  <1>11. ASSUME NEW x \in Forgetters, NEW c \in Chunks, ForgetReads(x, c) PROVE Shapes'
    <2> DEFINE r == [pc |-> "MEMORY", needle |-> c, seen |-> Seen("MEMORY"),
                     stale |-> "MEMORY" \in gap, took |-> {}]
    <2>1. forget' = [forget EXCEPT ![x] = r] /\ job' = job BY <1>11 DEF ForgetReads
    <2>2. ForgetShape(r) BY DEF ForgetShape
    <2> QED BY <1>h, <2>1, <2>2 DEF Shapes
  <1>writes. ASSUME NEW x \in Forgetters, forget[x].pc \in Files, ForgetWrites(x)
             PROVE  /\ \A j \in Jobs : Shape(job'[j])
                    /\ \A y \in Forgetters : ForgetShape(OtherForgets(x)[y])
                    /\ OtherForgets(x) \in [Forgetters -> RequestType]
    <2>1. CASE Takes(x) = {} BY <1>writes, <1>h, <2>1 DEF ForgetWrites, OtherForgets
    <2>2. CASE Takes(x) # {}
      BY <1>writes, <1>h, <2>2, OutdatedShape, OutdatedForgetsFacts DEF ForgetWrites, OtherForgets
    <2> QED BY <2>1, <2>2
  <1>12. ASSUME NEW x \in Forgetters, ForgetMemory(x) PROVE Shapes'
    <2> DEFINE r == [forget[x] EXCEPT !.pc = "HISTORY", !.seen = Seen("HISTORY"),
                                      !.stale = "HISTORY" \in gap, !.took = Took(x)]
    <2>1. forget[x].pc = "MEMORY" /\ ForgetWrites(x) /\ forget' = [OtherForgets(x) EXCEPT ![x] = r]
      BY <1>12 DEF ForgetMemory
    <2>2. r.pc = "HISTORY" /\ r.needle = forget[x].needle BY <1>h DEF RequestType
    <2> HIDE DEF r
    <2>3. ForgetShape(r) BY <1>h, <2>1, <2>2 DEF ForgetShape
    <2> QED BY <1>writes, <2>1, <2>3 DEF Files, Shapes
  <1>13. ASSUME NEW x \in Forgetters, ForgetHistory(x) PROVE Shapes'
    <2> DEFINE q == [forget[x] EXCEPT !.pc = "quarantine", !.seen = {}, !.stale = FALSE,
                                      !.took = Took(x)]
               r == IF Took(x) = {} THEN NoForget ELSE q
    <2>1. forget[x].pc = "HISTORY" /\ ForgetWrites(x) /\ forget' = [OtherForgets(x) EXCEPT ![x] = r]
      BY <1>13 DEF ForgetHistory
    <2>2. q.pc = "quarantine" /\ q.needle = forget[x].needle BY <1>h DEF RequestType
    <2> HIDE DEF q
    <2>3. ForgetShape(r) BY <1>h, <2>1, <2>2, NewRecords DEF ForgetShape
    <2> HIDE DEF r
    <2> QED BY <1>writes, <2>1, <2>3 DEF Files, Shapes
  <1>14. ASSUME NEW x \in Forgetters, Quarantines(x) PROVE Shapes'
    <2>1. forget' = [forget EXCEPT ![x] = NoForget] /\ job' = job BY <1>14 DEF Quarantines
    <2>2. ForgetShape(NoForget) BY NewRecords DEF ForgetShape
    <2> QED BY <1>h, <2>1, <2>2 DEF Shapes
  <1>15. ASSUME NEW f \in Files, EditorLoads(f) PROVE Shapes'
    BY <1>15 DEF EditorLoads, Shapes
  <1>16. ASSUME job' = Outdated(editor.file, job), forget' = OutdatedForgets(editor.file, forget)
         PROVE  Shapes'
    <2>1. editor.file \in Files BY DEF TypeOK, FilesOK, EditorType
    <2> QED BY <1>16, <2>1, OutdatedShape DEF Shapes
  <1>17. ASSUME GatewayRestarts PROVE Shapes'
    <2>1. \A j \in Jobs : Shape(job'[j])
      <3>1. \A j \in Jobs : job'[j] \in {Idle, Ended(j)} BY <1>17 DEF GatewayRestarts
      <3>2. Shape(Idle) BY NewRecords DEF Shape
      <3> QED BY <1>ended, <3>1, <3>2
    <2>2. forget' = [forget EXCEPT !["tool"] = NoForget] BY <1>17 DEF GatewayRestarts
    <2>3. ForgetShape(NoForget) BY NewRecords DEF ForgetShape
    <2> QED BY <1>h, <2>1, <2>2, <2>3 DEF Shapes
  <1>18. CASE UNCHANGED vars BY <1>18 DEF vars, Shapes
  <1> QED BY <1>1, <1>2, <1>3, <1>4, <1>5, <1>6, <1>7, <1>8, <1>9, <1>10, <1>11, <1>12, <1>13,
             <1>14, <1>15, <1>16, <1>17, <1>18 DEF Next, Forgets, EditorOpens, EditorFlushes

\* Type correctness: every step of a job, a forget, the memory page or a restart
\* leaves every variable in its type, for any chunks and any jobs.
THEOREM MemoryType == Spec => []TypeOK
  <1>1. Init => TypeOK /\ Shapes BY TypeInit, ShapesInit
  <1>2. TypeOK /\ Shapes /\ [Next]_vars => TypeOK' /\ Shapes' BY TypeStep, ShapesStep
  <1> QED BY <1>1, <1>2, PTL DEF Spec
-----------------------------------------------------------------------------
(* What is forgotten is kept *)

\* What forgets have taken stays where it is while others write.
LEMMA TookKept ==
  ASSUME TypeOK, ForgottenIsKept, gone' = gone, quar' = quar, unkept' = unkept,
         \/ forget' = forget
         \/ \E f \in Files : forget' = OutdatedForgets(f, forget)
  PROVE  ForgottenIsKept'
  <1>1. \A x \in Forgetters : forget'[x].took = forget[x].took
    BY OutdatedForgetsFacts DEF TypeOK, FilesOK
  <1> QED BY <1>1 DEF ForgottenIsKept

\* Every step keeps what forgets have taken out.
LEMMA QuarStep == TypeOK /\ Shapes /\ ForgottenIsKept /\ [Next]_vars => ForgottenIsKept'
  <1> SUFFICES ASSUME TypeOK, Shapes, ForgottenIsKept, [Next]_vars PROVE ForgottenIsKept'
    OBVIOUS
  <1> USE DEF webui
  <1>h. /\ forget \in [Forgetters -> RequestType]
        /\ \A x \in Forgetters : forget[x] \in RequestType /\ ForgetShape(forget[x])
    BY DEF TypeOK, FilesOK, Shapes
  <1>k. gone \subseteq quar.older \cup quar.newest \cup unkept
                        \cup UNION {forget[x].took : x \in Forgetters}
    BY DEF ForgottenIsKept
  <1>1. ASSUME NEW j \in Jobs,
               Begins(j) \/ Archives(j) \/ Answered(j) \/ Compacted(j) \/ Unanswered(j)
                 \/ Ends(j) \/ WriteFails(j)
        PROVE  ForgottenIsKept'
    <2>1. UNCHANGED <<forget, quar, gone, unkept>>
      BY <1>1 DEF Begins, Archives, Answered, Compacted, Unanswered, Ends, WriteFails
    <2> QED BY <2>1, TookKept
  <1>2. ASSUME NEW j \in Jobs, Appends(j) \/ Opens(j) \/ Flushes(j) PROVE ForgottenIsKept'
    <2>1. UNCHANGED <<quar, gone, unkept>> BY <1>2 DEF Appends, Opens, Flushes
    <2>2. \E f \in Files : forget' = OutdatedForgets(f, forget)
      <3>1. CASE Appends(j) BY <3>1 DEF Appends, Files
      <3>2. CASE Opens(j) \/ Flushes(j)
        <4>1. Shape(job[j]) /\ job[j].todo \in Todos BY DEF Shapes, TypeOK, JobsOK, JobType
        <4>2. job[j].todo # <<>> BY <3>2, <4>1 DEF Opens, Flushes, Shape
        <4>3. Head(job[j].todo) \in Files BY <4>1, <4>2, TodoFacts
        <4> QED BY <3>2, <4>3 DEF Opens, Flushes
      <3> QED BY <1>2, <3>1, <3>2
    <2> QED BY <2>1, <2>2, TookKept
  <1>3. ASSUME EditorOpens \/ EditorFlushes PROVE ForgottenIsKept'
    <2>1. UNCHANGED <<quar, gone, unkept>> BY <1>3 DEF EditorOpens, EditorFlushes
    <2>2. editor.file \in Files BY DEF TypeOK, FilesOK, EditorType
    <2>3. forget' = OutdatedForgets(editor.file, forget) BY <1>3 DEF EditorOpens, EditorFlushes
    <2> QED BY <2>1, <2>2, <2>3, TookKept
  <1>4. ASSUME NEW f \in Files, EditorLoads(f) PROVE ForgottenIsKept'
    BY <1>4, TookKept DEF EditorLoads
  <1>5. ASSUME NEW x \in Forgetters, NEW c \in Chunks, ForgetReads(x, c) PROVE ForgottenIsKept'
    <2>1. forget[x].took = {} BY <1>5, <1>h DEF ForgetReads, ForgetShape
    <2>2. \A y \in Forgetters : forget'[y].took = forget[y].took
      BY <1>5, <1>h, <2>1 DEF ForgetReads
    <2> QED BY <1>5, <1>k, <2>2 DEF ForgetReads, ForgottenIsKept
  <1>6. ASSUME NEW x \in Forgetters, ForgetMemory(x) \/ ForgetHistory(x) PROVE ForgottenIsKept'
    <2>1. forget[x].pc \in Files BY <1>6 DEF ForgetMemory, ForgetHistory, Files
    <2>2. /\ OtherForgets(x) \in [Forgetters -> RequestType]
          /\ \A y \in Forgetters : OtherForgets(x)[y].took = forget[y].took
      BY <1>h, <2>1, OutdatedForgetsFacts DEF OtherForgets
    <2>3. forget'[x].took = Took(x)
      <3> DEFINE t == Took(x)
                 m == [forget[x] EXCEPT !.pc = "HISTORY", !.seen = Seen("HISTORY"),
                                        !.stale = "HISTORY" \in gap, !.took = t]
                 q == [forget[x] EXCEPT !.pc = "quarantine", !.seen = {}, !.stale = FALSE,
                                        !.took = t]
      <3>1. \/ forget' = [OtherForgets(x) EXCEPT ![x] = m]
            \/ forget' = [OtherForgets(x) EXCEPT ![x] = IF t = {} THEN NoForget ELSE q]
        BY <1>6 DEF ForgetMemory, ForgetHistory
      <3> HIDE DEF t
      <3>2. m.took = t /\ q.took = t BY <1>h DEF RequestType
      <3> HIDE DEF m, q
      <3>3. forget'[x].took = t BY <2>2, <3>1, <3>2, NewRecords
      <3> QED BY <3>3 DEF t
    <2>4. \A y \in Forgetters \ {x} : forget'[y].took = forget[y].took
      BY <1>6, <2>2 DEF ForgetMemory, ForgetHistory
    <2>5. Took(x) = forget[x].took \cup Takes(x) BY DEF Took
    <2>6. gone' = gone \cup Takes(x) /\ quar' = quar /\ unkept' = unkept
      BY <1>6 DEF ForgetMemory, ForgetHistory
    <2> QED BY <1>k, <2>3, <2>4, <2>5, <2>6 DEF ForgottenIsKept
  <1>7. ASSUME NEW x \in Forgetters, Quarantines(x) PROVE ForgottenIsKept'
    <2>1. forget'[x].took = {} /\ \A y \in Forgetters \ {x} : forget'[y].took = forget[y].took
      BY <1>7, <1>h, NewRecords DEF Quarantines
    <2>2. /\ gone' = gone
          /\ quar.older \cup quar.newest \cup unkept \cup forget[x].took
               \subseteq quar'.older \cup quar'.newest \cup unkept'
      BY <1>7 DEF Quarantines, TypeOK, FilesOK
    <2> QED BY <1>k, <2>1, <2>2 DEF ForgottenIsKept
  <1>8. ASSUME GatewayRestarts PROVE ForgottenIsKept'
    <2>1. \A y \in Forgetters \ {"tool"} : forget'[y] = forget[y]
      BY <1>8, <1>h DEF GatewayRestarts
    <2>2. gone' = gone /\ quar' = quar /\ unkept' = unkept \cup forget["tool"].took
      BY <1>8 DEF GatewayRestarts
    <2> QED BY <1>k, <2>1, <2>2 DEF ForgottenIsKept
  <1>9. CASE UNCHANGED vars BY <1>9, TookKept DEF vars
  <1> QED BY <1>1, <1>2, <1>3, <1>4, <1>5, <1>6, <1>7, <1>8, <1>9 DEF Next, Forgets

\* What a forget has taken out of the files is in quarantine once it has ended, and
\* with the forget before that, for any other writers and at any time (memory.py:286).
THEOREM ForgottenKept == Spec => []ForgottenIsKept
  <1>1. Init => TypeOK /\ Shapes BY TypeInit, ShapesInit
  <1>2. Init => ForgottenIsKept BY DEF Init, ForgottenIsKept
  <1>3. TypeOK /\ Shapes /\ ForgottenIsKept /\ [Next]_vars => (TypeOK /\ Shapes /\ ForgottenIsKept)'
    BY TypeStep, ShapesStep, QuarStep
  <1> QED BY <1>1, <1>2, <1>3, PTL DEF Spec
-----------------------------------------------------------------------------
(* Copies that are not stale agree with their files *)

\* The files a job may have copies of.
LEMMA CopiesInFiles ==
  ASSUME NEW r \in JobType
  PROVE  Copies(r) \subseteq {"MEMORY", "USER"}
  <1>1. r.todo \in Todos BY DEF JobType
  <1>2. CASE r.pc # "asking" BY <1>1, <1>2, CopiesFacts
  <1>3. CASE r.pc = "asking" BY <1>3 DEF Copies
  <1> QED BY <1>2, <1>3

\* Agreement is a matter of the files a job has copies of.
LEMMA AgreesStill ==
  ASSUME NEW r, NEW t, NEW g, NEW t2, NEW g2, AgreesWith(r, t, g),
         \A f \in Copies(r) \ r.stale : t2[f] = t[f] /\ (f \in g2 => f \in g)
  PROVE  AgreesWith(r, t2, g2)
  BY DEF AgreesWith

\* A job changes while nothing is written.
LEMMA CopyQuiet ==
  ASSUME TypeOK, CopyInv, NEW j \in Jobs, NEW r, job' = [job EXCEPT ![j] = r],
         AgreesWith(r, text, gap), r.pc # "flushing",
         UNCHANGED <<text, gap, editor, forget, dropped>>
  PROVE  CopyInv'
  <1>1. job \in [Jobs -> JobType] BY DEF TypeOK, JobsOK
  <1>2. \A k \in Jobs : job'[k] = IF k = j THEN r ELSE job[k] BY <1>1
  <1>3. Exclusive' BY <1>2 DEF CopyInv, Exclusive
  <1>4. JobsAgree'
    <2>1. ASSUME NEW k \in Jobs PROVE AgreesWith(job'[k], text, gap)
      BY <1>2 DEF CopyInv, JobsAgree
    <2>2. text' = text /\ gap' = gap OBVIOUS
    <2> QED BY <2>1, <2>2 DEF JobsAgree
  <1>5. EditorAgrees' BY DEF CopyInv, EditorAgrees
  <1>6. ForgetsAgree' BY DEF CopyInv, ForgetsAgree
  <1> QED BY <1>3, <1>4, <1>5, <1>6 DEF CopyInv

\* A write of file f leaves the copies of the other files as good as they were,
\* those of the memory page ...
LEMMA EditorOutdated ==
  ASSUME TypeOK, EditorAgrees, NEW f \in Files, editor' = OutdatedEditor(f),
         \A h \in Files \ {f} : text'[h] = text[h] /\ (h \in gap' => h \in gap),
         dropped \ ({f} \X Chunks) \subseteq dropped'
  PROVE  EditorAgrees'
  <1>1. editor \in EditorType BY DEF TypeOK, FilesOK
  <1>2. /\ editor'.pc = editor.pc /\ editor'.file = editor.file /\ editor'.seen = editor.seen
        /\ editor'.new = editor.new
        /\ editor'.stale <=> editor.stale \/ (editor.pc # "closed" /\ editor.file = f)
    BY OutdatedEditorFacts
  <1> SUFFICES ASSUME editor'.pc # "closed", ~editor'.stale
               PROVE  /\ editor'.seen = text'[editor'.file]
                      /\ editor'.file \in gap' => editor'.pc = "flushing"
                      /\ editor'.pc = "flushing" =>
                           editor'.new \subseteq editor'.seen
                           /\ {editor'.file} \X (editor'.seen \ editor'.new) \subseteq dropped'
    BY DEF EditorAgrees
  <1>3. editor.pc # "closed" /\ ~editor.stale /\ editor.file # f BY <1>2
  <1>4. editor.file \in Files BY <1>1 DEF EditorType
  <1>5. /\ editor.seen = text[editor.file] /\ (editor.file \in gap => editor.pc = "flushing")
        /\ editor.pc = "flushing" =>
             editor.new \subseteq editor.seen
             /\ {editor.file} \X (editor.seen \ editor.new) \subseteq dropped
    BY <1>3 DEF EditorAgrees
  <1>6. ({editor.file} \X (editor.seen \ editor.new)) \cap ({f} \X Chunks) = {} BY <1>3
  <1> QED BY <1>2, <1>3, <1>4, <1>5, <1>6

\* ... and those of the forgets.
LEMMA ForgetsOutdated ==
  ASSUME TypeOK, ForgetsAgree, NEW f \in Files,
         \A h \in Files \ {f} : text'[h] = text[h] /\ (h \in gap' => h \in gap),
         dropped \ ({f} \X Chunks) \subseteq dropped',
         NEW x \in Forgetters, forget'[x] = OutdatedForgets(f, forget)[x],
         forget'[x].pc \in Files, ~forget'[x].stale
  PROVE  /\ forget'[x].seen = text'[forget'[x].pc]
         /\ forget'[x].pc \notin gap'
         /\ <<forget'[x].pc, forget'[x].needle>> \in dropped'
  <1>1. forget \in [Forgetters -> RequestType] BY DEF TypeOK, FilesOK
  <1>2. /\ forget'[x].pc = forget[x].pc /\ forget'[x].needle = forget[x].needle
        /\ forget'[x].seen = forget[x].seen
        /\ forget'[x].stale <=> forget[x].stale \/ forget[x].pc = f
    BY <1>1, OutdatedForgetsFacts
  <1>3. ~forget[x].stale /\ forget[x].pc # f BY <1>2
  <1> QED BY <1>2, <1>3 DEF ForgetsAgree

\* A write of file f by whoever keeps the copies of the jobs and forgets right.
LEMMA CopyWrite ==
  ASSUME TypeOK, CopyInv, NEW f \in Files,
         \A h \in Files \ {f} : text'[h] = text[h] /\ (h \in gap' => h \in gap),
         dropped \ ({f} \X Chunks) \subseteq dropped'
  PROVE  /\ \A j \in Jobs : AgreesWith(Outdated(f, job)[j], text', gap')
         /\ editor' = OutdatedEditor(f) => EditorAgrees'
         /\ forget' = OutdatedForgets(f, forget) => ForgetsAgree'
  <1>1. job \in [Jobs -> JobType] BY DEF TypeOK, JobsOK
  <1>2. ASSUME NEW j \in Jobs PROVE AgreesWith(Outdated(f, job)[j], text', gap')
    <2>1. AgreesWith(job[j], text, gap) BY DEF CopyInv, JobsAgree
    <2> QED BY <1>1, <2>1, OutdatedAgrees
  <1>3. ASSUME editor' = OutdatedEditor(f) PROVE EditorAgrees'
    BY <1>3, EditorOutdated DEF CopyInv
  <1>4. ASSUME forget' = OutdatedForgets(f, forget) PROVE ForgetsAgree'
    <2>1. ForgetsAgree BY DEF CopyInv
    <2>2. \A x \in Forgetters : forget'[x].pc \in Files /\ ~forget'[x].stale =>
            /\ forget'[x].seen = text'[forget'[x].pc]
            /\ forget'[x].pc \notin gap'
            /\ <<forget'[x].pc, forget'[x].needle>> \in dropped'
      BY <1>4, <2>1, ForgetsOutdated
    <2> QED BY <2>2 DEF ForgetsAgree
  <1> QED BY <1>2, <1>3, <1>4

\* Writers that break off leave the copies as good as they were.
LEMMA CopyBroken ==
  ASSUME TypeOK, CopyInv, NEW fs, BrokenOff(fs), editor' = editor, dropped' = dropped
  PROVE  /\ EditorAgrees'
         /\ forget' = forget => ForgetsAgree'
         /\ \A r \in JobType : AgreesWith(r, text, gap) /\ r.pc # "flushing" =>
                                 AgreesWith(r, text', gap')
  <1>1. \A f \in Files : f \notin gap => text'[f] = text[f] /\ f \notin gap' BY BrokenOffFacts
  <1>2. editor.file \in Files BY DEF TypeOK, FilesOK, EditorType
  <1>3. EditorAgrees'
    <2>1. editor.pc # "closed" /\ ~editor.stale => text'[editor.file] = text[editor.file]
      BY <1>1, <1>2, BrokenOffFacts DEF CopyInv, EditorAgrees
    <2>2. editor.pc # "closed" /\ ~editor.stale /\ editor.file \in gap' => editor.pc = "flushing"
      BY <1>1, <1>2 DEF CopyInv, EditorAgrees
    <2> QED BY <2>1, <2>2 DEF CopyInv, EditorAgrees
  <1>4. forget' = forget => ForgetsAgree' BY <1>1 DEF CopyInv, ForgetsAgree
  <1>5. ASSUME NEW r \in JobType, AgreesWith(r, text, gap), r.pc # "flushing"
        PROVE  AgreesWith(r, text', gap')
    <2>1. \A f \in Copies(r) \ r.stale : f \in Files /\ f \notin gap
      BY <1>5, CopiesInFiles DEF AgreesWith, Files
    <2> QED BY <1>1, <1>5, <2>1, AgreesStill
  <1> QED BY <1>3, <1>4, <1>5
\* A job that neither has nor had a file open agrees where it has no new copies.
LEMMA AgreesOn ==
  ASSUME NEW r, NEW q, NEW t, NEW g, AgreesWith(r, t, g), r.pc # "flushing",
         \A f \in Copies(q) : /\ f \in Copies(r) /\ q.seen[f] = r.seen[f]
                              /\ f \in q.stale <=> f \in r.stale
  PROVE  AgreesWith(q, t, g)
  BY DEF AgreesWith

\* At first nobody has a copy.
LEMMA CopyInit == Init => CopyInv
  <1> SUFFICES ASSUME Init PROVE CopyInv
    OBVIOUS
  <1>1. JobsAgree
    <2>1. \A j \in Jobs : job[j] = Idle BY DEF Init
    <2>2. AgreesWith(Idle, text, gap) BY NewRecords, NoCopies
    <2> QED BY <2>1, <2>2 DEF JobsAgree
  <1>2. Exclusive BY NewRecords DEF Init, Exclusive
  <1>3. EditorAgrees BY NewRecords DEF Init, EditorAgrees
  <1>4. ForgetsAgree BY NewRecords DEF Init, ForgetsAgree, Files
  <1> QED BY <1>1, <1>2, <1>3, <1>4 DEF CopyInv

\* Every step leaves the copies that are not stale in agreement with the files.
LEMMA CopyStep == TypeOK /\ Shapes /\ CopyInv /\ [Next]_vars => CopyInv'
  <1> SUFFICES ASSUME TypeOK, Shapes, CopyInv, [Next]_vars PROVE CopyInv'
    OBVIOUS
  <1> USE DEF disk, sessions, webui, ghosts
  <1>t. 0 \in 0 .. MaxFailures - 1 BY DEF MaxFailures
  <1>h. /\ job \in [Jobs -> JobType] /\ forget \in [Forgetters -> RequestType]
        /\ editor \in EditorType /\ editor.file \in Files
        /\ text \in [Files -> SUBSET Chunks] /\ gap \subseteq Files
        /\ \A j \in Jobs : Shape(job[j]) /\ job[j] \in JobType /\ job[j].todo \in Todos
        /\ \A x \in Forgetters : forget[x] \in RequestType
    BY DEF TypeOK, JobsOK, FilesOK, JobType, EditorType, Shapes
  <1>w. \A j \in Jobs : job[j].pc \in {"writing", "flushing"} =>
           job[j].todo # <<>> /\ Head(job[j].todo) \in Files
    BY <1>h, TodoFacts DEF Shape
  <1>a. \A j \in Jobs : AgreesWith(job[j], text, gap) BY DEF CopyInv, JobsAgree
  <1>ended. ASSUME NEW j \in Jobs
            PROVE  /\ Ended(j) \in JobType /\ Ended(j).pc # "flushing"
                   /\ \A t, g : AgreesWith(Ended(j), t, g)
    BY EndedFacts, NoCopies
  <1>1. ASSUME NEW j \in Jobs, Begins(j) PROVE CopyInv'
    BY <1>1, <1>t, AskingFacts, AskingAgrees, CopyQuiet DEF Begins
  <1>2. ASSUME NEW j \in Jobs, Archives(j) PROVE CopyInv'
    <2>1. CASE j.chunk \in passed
      BY <1>2, <2>1 DEF Archives, CopyInv, Exclusive, JobsAgree, EditorAgrees, ForgetsAgree
    <2>2. CASE j.chunk \notin passed
      BY <1>2, <2>2, <1>t, AskingFacts, AskingAgrees, CopyQuiet DEF Archives
    <2> QED BY <2>1, <2>2
  <1>3. ASSUME NEW j \in Jobs, Answered(j) PROVE CopyInv'
    <2> DEFINE r == job'[j]
    <2>1. /\ job[j].pc = "asking" /\ job' = [job EXCEPT ![j] = r]
          /\ r.pc = IF r.todo = <<>> THEN "ending" ELSE "writing"
          /\ \A f \in Copies(r) : /\ f \in Copies(job[j]) /\ r.seen[f] = job[j].seen[f]
                                  /\ f \in r.stale <=> f \in job[j].stale
      BY <1>3, AnsweredFacts
    <2> HIDE DEF r
    <2>2. AgreesWith(r, text, gap) BY <1>a, <2>1, AgreesOn
    <2> QED BY <1>3, <2>1, <2>2, CopyQuiet DEF Answered
  <1>4. ASSUME NEW j \in Jobs, Compacted(j) PROVE CopyInv'
    <2> DEFINE r == job'[j]
    <2>1. /\ job[j].pc = "asking" /\ job' = [job EXCEPT ![j] = r] /\ r.pc = "writing"
          /\ Copies(r) = Copies(job[j]) /\ r.seen = job[j].seen /\ r.stale = job[j].stale
      BY <1>4, CompactedFacts
    <2> HIDE DEF r
    <2>2. AgreesWith(r, text, gap) BY <1>a, <2>1, AgreesOn
    <2> QED BY <1>4, <2>1, <2>2, CopyQuiet DEF Compacted
  <1>5. ASSUME NEW j \in Jobs, Unanswered(j) PROVE CopyInv'
    <2>1. PICK r \in Failed(j) \cup Afterwards(j) \cup {Ended(j)} : job' = [job EXCEPT ![j] = r]
      BY <1>5, UnansweredFacts, FailsFacts
    <2>2. AgreesWith(r, text, gap) /\ r.pc # "flushing"
      BY <1>ended, <2>1, FailedFacts, AfterwardsFacts
    <2>3. UNCHANGED <<text, gap, editor, forget, dropped>> BY <1>5 DEF Unanswered
    <2> QED BY <2>1, <2>2, <2>3, CopyQuiet
  <1>6. ASSUME NEW j \in Jobs, Appends(j) PROVE CopyInv'
    <2>1. /\ job[j].pc = "writing" /\ Head(job[j].todo) = "HISTORY" /\ ~Locked
          /\ job' = [job EXCEPT ![j] = Wrote(j)]
          /\ editor' = OutdatedEditor("HISTORY") /\ forget' = OutdatedForgets("HISTORY", forget)
      BY <1>6 DEF Appends
    <2>2. \A h \in Files \ {"HISTORY"} : text'[h] = text[h] /\ (h \in gap' => h \in gap)
      BY <1>6, <1>h DEF Appends
    <2>3. dropped \ ({"HISTORY"} \X Chunks) \subseteq dropped' 
      <3>1. j.chunk \in Chunks BY MemoryAssumption
      <3> QED BY <1>6, <3>1 DEF Appends
    <2>4. EditorAgrees' /\ ForgetsAgree' BY <2>1, <2>2, <2>3, CopyWrite DEF Files
    <2>5. /\ Wrote(j) \in JobType /\ Wrote(j).pc # "flushing"
          /\ \A f \in Copies(Wrote(j)) : /\ f \in Copies(job[j])
                                         /\ Wrote(j).seen[f] = job[j].seen[f]
                                         /\ f \in Wrote(j).stale <=> f \in job[j].stale
      BY <1>w, <2>1, WroteFacts
    <2>6. AgreesWith(Wrote(j), text, gap) BY <1>a, <2>1, <2>5, AgreesOn
    <2>7. \A k \in Jobs : /\ job'[k] \in JobType /\ AgreesWith(job'[k], text, gap)
                          /\ job'[k].pc # "flushing"
      BY <1>a, <1>h, <2>1, <2>5, <2>6 DEF Locked
    <2>8. \A k \in Jobs : AgreesWith(job'[k], text', gap')
      <3>1. ASSUME NEW k \in Jobs, NEW f \in Copies(job'[k])
            PROVE  text'[f] = text[f] /\ (f \in gap' => f \in gap)
        BY <2>2, <2>7, <3>1, CopiesInFiles DEF Files
      <3> QED BY <2>7, <3>1, AgreesStill
    <2> QED BY <2>4, <2>7, <2>8 DEF CopyInv, Exclusive, JobsAgree
  <1>7. ASSUME NEW j \in Jobs, Opens(j) PROVE CopyInv'
    <2> DEFINE f == Head(job[j].todo)
               r == [job[j] EXCEPT !.pc = "flushing"]
    <2>1. /\ job[j].pc = "writing" /\ f \in Files /\ ~Locked
          /\ job' = [Outdated(f, job) EXCEPT ![j] = r]
          /\ editor' = OutdatedEditor(f) /\ forget' = OutdatedForgets(f, forget)
          /\ text' = text /\ gap' = gap \cup {f} /\ dropped' = dropped
      BY <1>7, <1>w DEF Opens
    <2>2. /\ r.pc = "flushing" /\ r.todo = job[j].todo /\ r.seen = job[j].seen
          /\ r.stale = job[j].stale
      BY <1>h DEF JobType
    <2>3. f = Head(r.todo) BY <2>2
    <2> HIDE DEF r, f
    <2>4. /\ \A k \in Jobs : AgreesWith(Outdated(f, job)[k], text', gap')
          /\ EditorAgrees' /\ ForgetsAgree'
      BY <2>1, CopyWrite
    <2>5. Copies(r) = Copies(job[j]) BY <2>1, <2>2 DEF Copies
    <2>6. AgreesWith(r, text', gap')
      <3>1. \A h \in Copies(job[j]) \ job[j].stale : job[j].seen[h] = text[h] /\ h \notin gap
        BY <1>a, <2>1 DEF AgreesWith
      <3> QED BY <2>1, <2>2, <2>3, <2>5, <3>1 DEF AgreesWith
    <2>7. /\ Outdated(f, job) \in [Jobs -> JobType]
          /\ \A k \in Jobs : Outdated(f, job)[k].pc = job[k].pc
      BY <1>h, <2>1, OutdatedFacts
    <2>8. \A k \in Jobs : job'[k] = IF k = j THEN r ELSE Outdated(f, job)[k] BY <2>1, <2>7
    <2>9. Exclusive' BY <2>1, <2>7, <2>8 DEF Locked, Exclusive
    <2>10. JobsAgree' BY <2>4, <2>6, <2>8 DEF JobsAgree
    <2> QED BY <2>4, <2>9, <2>10 DEF CopyInv
  <1>8. ASSUME NEW j \in Jobs, Flushes(j) PROVE CopyInv'
    <2> DEFINE f == Head(job[j].todo)
               r == Wrote(j)
    <2>1. /\ job[j].pc = "flushing" /\ f \in Files
          /\ job' = [Outdated(f, job) EXCEPT ![j] = r]
          /\ editor' = OutdatedEditor(f) /\ forget' = OutdatedForgets(f, forget)
      BY <1>8, <1>w DEF Flushes
    <2>2. \A h \in Files \ {f} : text'[h] = text[h] /\ (h \in gap' => h \in gap)
      BY <1>8, <1>h, <2>1 DEF Flushes
    <2>3. dropped \ ({f} \X Chunks) \subseteq dropped'
      <3>1. j.chunk \in Chunks BY MemoryAssumption
      <3> QED BY <1>8, <3>1 DEF Flushes
    <2>4. r.pc # "asking" /\ r.pc # "flushing" /\ r.todo = <<>>
      <3>1. Head(job[j].todo) # "HISTORY" BY <1>h, <1>w, <2>1 DEF Shape
      <3>2. Tail(job[j].todo) = <<>> BY <1>h, <1>w, <2>1, <3>1, TodoFacts
      <3> QED BY <1>w, <2>1, <3>2, WroteFacts
    <2> HIDE DEF r, f
    <2>5. /\ \A k \in Jobs : AgreesWith(Outdated(f, job)[k], text', gap')
          /\ EditorAgrees' /\ ForgetsAgree'
      BY <2>1, <2>2, <2>3, CopyWrite
    <2>6. AgreesWith(r, text', gap') BY <2>4, NoCopies
    <2>7. /\ Outdated(f, job) \in [Jobs -> JobType]
          /\ \A k \in Jobs : Outdated(f, job)[k].pc = job[k].pc
      BY <1>h, <2>1, OutdatedFacts
    <2>8. \A k \in Jobs : job'[k] = IF k = j THEN r ELSE Outdated(f, job)[k] BY <2>1, <2>7
    <2>9. Exclusive' BY <2>1, <2>4, <2>7, <2>8 DEF CopyInv, Exclusive
    <2>10. JobsAgree' BY <2>5, <2>6, <2>8 DEF JobsAgree
    <2> QED BY <2>5, <2>9, <2>10 DEF CopyInv
  <1>9. ASSUME NEW j \in Jobs, Ends(j) PROVE CopyInv'
    <2>1. PICK r \in Afterwards(j) \cup {Ended(j)} : job' = [job EXCEPT ![j] = r]
      BY <1>9, EndsFacts
    <2>2. AgreesWith(r, text, gap) /\ r.pc # "flushing" BY <1>ended, <2>1, AfterwardsFacts
    <2>3. UNCHANGED <<text, gap, editor, forget, dropped>> BY <1>9 DEF Ends
    <2> QED BY <2>1, <2>2, <2>3, CopyQuiet
  <1>10. ASSUME NEW j \in Jobs, WriteFails(j) PROVE CopyInv'
    <2> DEFINE fs == IF job[j].pc = "flushing" THEN {Head(job[j].todo)} ELSE {}
    <2>1. PICK r \in Failed(j) \cup Afterwards(j) \cup {Ended(j)} : job' = [job EXCEPT ![j] = r]
      BY <1>10, WriteFailsFacts, FailsFacts
    <2>2. r \in JobType /\ AgreesWith(r, text, gap) /\ r.pc # "flushing"
      BY <1>ended, <2>1, FailedFacts, AfterwardsFacts
    <2>3. BrokenOff(fs) /\ editor' = editor /\ forget' = forget /\ dropped' = dropped
      BY <1>10 DEF WriteFails
    <2>f. \A f \in fs : job[j].pc = "flushing" /\ f = Head(job[j].todo) OBVIOUS
    <2> HIDE DEF fs
    <2>4. EditorAgrees' /\ ForgetsAgree' /\ AgreesWith(r, text', gap') BY <2>2, <2>3, CopyBroken
    <2>5. \A k \in Jobs : job'[k] = IF k = j THEN r ELSE job[k] BY <1>h, <2>1
    <2>6. ASSUME NEW k \in Jobs \ {j} PROVE AgreesWith(job[k], text', gap')
      <3>1. ASSUME NEW f \in Copies(job[k]) \ job[k].stale
            PROVE  text'[f] = text[f] /\ (f \in gap' => f \in gap)
        <4>1. f \in Files BY <1>h, CopiesInFiles DEF Files
        <4>2. CASE f \in fs \cap gap
          <5>1. job[k].pc = "flushing" BY <1>a, <4>2 DEF AgreesWith
          <5> QED BY <2>f, <4>2, <5>1 DEF CopyInv, Exclusive
        <4>3. CASE f \notin fs \cap gap BY <2>3, <4>1, <4>3, BrokenOffFacts
        <4> QED BY <4>2, <4>3
      <3> QED BY <1>a, <3>1, AgreesStill
    <2>7. Exclusive' BY <2>2, <2>5 DEF CopyInv, Exclusive
    <2>8. JobsAgree' BY <2>4, <2>5, <2>6 DEF JobsAgree
    <2> QED BY <2>4, <2>7, <2>8 DEF CopyInv
  <1>11. ASSUME NEW x \in Forgetters, NEW c \in Chunks, ForgetReads(x, c) PROVE CopyInv'
    <2>1. /\ forget'[x].pc = "MEMORY" /\ forget'[x].needle = c /\ forget'[x].seen = Seen("MEMORY")
          /\ ~forget'[x].stale => "MEMORY" \notin gap
      BY <1>11, <1>h DEF ForgetReads
    <2>2. \A y \in Forgetters \ {x} : forget'[y] = forget[y] BY <1>11 DEF ForgetReads
    <2>3. UNCHANGED <<text, gap, job, editor>> /\ dropped' = dropped \cup {<<"MEMORY", c>>}
      BY <1>11 DEF ForgetReads
    <2>4. Seen("MEMORY") = text["MEMORY"] \/ "MEMORY" \in gap BY DEF Seen
    <2>5. ForgetsAgree' BY <2>1, <2>2, <2>3, <2>4 DEF CopyInv, ForgetsAgree
    <2>6. EditorAgrees' BY <2>3 DEF CopyInv, EditorAgrees
    <2>7. Exclusive' BY <2>3 DEF CopyInv, Exclusive
    <2>8. JobsAgree' BY <1>a, <2>3 DEF JobsAgree
    <2> QED BY <2>5, <2>6, <2>7, <2>8 DEF CopyInv
  <1>writes. ASSUME NEW x \in Forgetters, forget[x].pc \in Files, ForgetWrites(x),
                    dropped \subseteq dropped'
             PROVE  /\ Exclusive' /\ JobsAgree' /\ EditorAgrees'
                    /\ \A h \in Files \ {forget[x].pc} :
                          text'[h] = text[h] /\ (h \in gap' <=> h \in gap)
                    /\ \A y \in Forgetters :
                         \/ OtherForgets(x)[y] = OutdatedForgets(forget[x].pc, forget)[y]
                         \/ OtherForgets(x)[y] = forget[y] /\ text' = text /\ gap' = gap
    <2> DEFINE f == forget[x].pc
    <2>1. CASE Takes(x) = {}
      BY <1>writes, <1>a, <2>1
         DEF ForgetWrites, OtherForgets, CopyInv, Exclusive, JobsAgree, EditorAgrees
    <2>2. CASE Takes(x) # {}
      <3>1. job' = Outdated(f, job) /\ editor' = OutdatedEditor(f)
        BY <1>writes, <2>2 DEF ForgetWrites
      <3>2. \A h \in Files \ {f} : text'[h] = text[h] /\ (h \in gap' <=> h \in gap)
        BY <1>writes, <1>h, <2>2 DEF ForgetWrites
      <3>3. /\ \A k \in Jobs : AgreesWith(Outdated(f, job)[k], text', gap')
            /\ EditorAgrees'
        BY <1>writes, <3>1, <3>2, CopyWrite
      <3>4. \A k \in Jobs : Outdated(f, job)[k].pc = job[k].pc BY <1>h, <1>writes, OutdatedFacts
      <3>5. Exclusive' BY <3>1, <3>4 DEF CopyInv, Exclusive
      <3>6. JobsAgree' BY <3>1, <3>3 DEF JobsAgree
      <3>7. OtherForgets(x) = OutdatedForgets(f, forget) BY <2>2 DEF OtherForgets
      <3> QED BY <3>2, <3>3, <3>5, <3>6, <3>7
    <2> QED BY <2>1, <2>2
  <1>others. ASSUME NEW x \in Forgetters, forget[x].pc \in Files, ForgetWrites(x),
                    dropped \subseteq dropped', NEW y \in Forgetters,
                    forget'[y] = OtherForgets(x)[y],
                    forget'[y].pc \in Files, ~forget'[y].stale
             PROVE  /\ forget'[y].seen = text'[forget'[y].pc]
                    /\ forget'[y].pc \notin gap'
                    /\ <<forget'[y].pc, forget'[y].needle>> \in dropped'
    <2>1. CASE OtherForgets(x)[y] = OutdatedForgets(forget[x].pc, forget)[y]
      <3>1. \A h \in Files \ {forget[x].pc} : text'[h] = text[h] /\ (h \in gap' => h \in gap)
        BY <1>others, <1>writes
      <3>2. dropped \ ({forget[x].pc} \X Chunks) \subseteq dropped' BY <1>others
      <3>3. ForgetsAgree BY DEF CopyInv
      <3>4. forget'[y] = OutdatedForgets(forget[x].pc, forget)[y] BY <1>others, <2>1
      <3> QED BY <1>others, <3>1, <3>2, <3>3, <3>4, ForgetsOutdated
    <2>2. CASE OtherForgets(x)[y] = forget[y] /\ text' = text /\ gap' = gap
      BY <1>others, <2>2 DEF CopyInv, ForgetsAgree
    <2> QED BY <1>others, <1>writes, <2>1, <2>2
  <1>typed. ASSUME NEW x \in Forgetters, forget[x].pc \in Files
            PROVE  OtherForgets(x) \in [Forgetters -> RequestType]
    BY <1>typed, <1>h, OutdatedForgetsFacts DEF OtherForgets
  <1>12. ASSUME NEW x \in Forgetters, ForgetMemory(x) PROVE CopyInv'
    <2> DEFINE s == Seen("HISTORY")
               b == "HISTORY" \in gap
               t == Took(x)
               r == [forget[x] EXCEPT !.pc = "HISTORY", !.seen = s, !.stale = b, !.took = t]
    <2>1. /\ forget[x].pc = "MEMORY" /\ ForgetWrites(x)
          /\ forget' = [OtherForgets(x) EXCEPT ![x] = r]
          /\ dropped' = dropped \cup {<<"HISTORY", forget[x].needle>>}
      BY <1>12 DEF ForgetMemory
    <2>2. s = text["HISTORY"] \/ "HISTORY" \in gap BY DEF Seen
    <2>3. b = ("HISTORY" \in gap) OBVIOUS
    <2> HIDE DEF s, b, t
    <2>4. r.pc = "HISTORY" /\ r.needle = forget[x].needle /\ r.seen = s /\ (r.stale <=> b)
      BY <1>h, <2>3 DEF RequestType
    <2> HIDE DEF r
    <2>5. forget'[x] = r /\ \A y \in Forgetters \ {x} : forget'[y] = OtherForgets(x)[y]
      BY <1>typed, <2>1 DEF Files
    <2>6. /\ Exclusive' /\ JobsAgree' /\ EditorAgrees'
          /\ text'["HISTORY"] = text["HISTORY"] /\ ("HISTORY" \in gap' <=> "HISTORY" \in gap)
      BY <1>writes, <2>1 DEF Files
    <2>7. ForgetsAgree'
      <3>1. \A y \in Forgetters \ {x} : forget'[y].pc \in Files /\ ~forget'[y].stale =>
              /\ forget'[y].seen = text'[forget'[y].pc]
              /\ forget'[y].pc \notin gap'
              /\ <<forget'[y].pc, forget'[y].needle>> \in dropped'
        BY <1>others, <2>1, <2>5 DEF Files
      <3>2. ~r.stale => s = text'["HISTORY"] /\ "HISTORY" \notin gap'
        BY <2>2, <2>3, <2>4, <2>6
      <3> QED BY <2>1, <2>4, <2>5, <3>1, <3>2 DEF ForgetsAgree
    <2> QED BY <2>6, <2>7 DEF CopyInv
  <1>13. ASSUME NEW x \in Forgetters, ForgetHistory(x) PROVE CopyInv'
    <2> DEFINE t == Took(x)
               q == [forget[x] EXCEPT !.pc = "quarantine", !.seen = {}, !.stale = FALSE,
                                      !.took = t]
               r == IF t = {} THEN NoForget ELSE q
    <2>1. /\ forget[x].pc = "HISTORY" /\ ForgetWrites(x)
          /\ forget' = [OtherForgets(x) EXCEPT ![x] = r] /\ dropped' = dropped
      BY <1>13 DEF ForgetHistory
    <2> HIDE DEF t
    <2>2. q.pc = "quarantine" BY <1>h DEF RequestType
    <2> HIDE DEF q
    <2>3. r.pc \notin Files BY <2>2, NewRecords DEF Files
    <2> HIDE DEF r
    <2>4. forget'[x] = r /\ \A y \in Forgetters \ {x} : forget'[y] = OtherForgets(x)[y]
      BY <1>typed, <2>1 DEF Files
    <2>5. Exclusive' /\ JobsAgree' /\ EditorAgrees' BY <1>writes, <2>1 DEF Files
    <2>6. ForgetsAgree'
      <3>1. \A y \in Forgetters \ {x} : forget'[y].pc \in Files /\ ~forget'[y].stale =>
              /\ forget'[y].seen = text'[forget'[y].pc]
              /\ forget'[y].pc \notin gap'
              /\ <<forget'[y].pc, forget'[y].needle>> \in dropped'
        BY <1>others, <2>1, <2>4 DEF Files
      <3> QED BY <2>3, <2>4, <3>1 DEF ForgetsAgree
    <2> QED BY <2>5, <2>6 DEF CopyInv
  <1>14. ASSUME NEW x \in Forgetters, Quarantines(x) PROVE CopyInv'
    <2>1. UNCHANGED <<text, gap, job, editor, dropped>> BY <1>14 DEF Quarantines
    <2>2. forget' = [forget EXCEPT ![x] = NoForget] BY <1>14 DEF Quarantines
    <2>3. ForgetsAgree' BY <1>h, <2>1, <2>2, NewRecords DEF CopyInv, ForgetsAgree, Files
    <2>4. JobsAgree' BY <1>a, <2>1 DEF JobsAgree
    <2> QED BY <2>1, <2>3, <2>4 DEF CopyInv, Exclusive, EditorAgrees
  <1>15. ASSUME NEW f \in Files, EditorLoads(f) PROVE CopyInv'
    <2> DEFINE s == Seen(f)
               b == f \in gap
    <2>1. /\ UNCHANGED <<text, gap, job, forget, dropped>>
          /\ editor' = [Closed EXCEPT !.pc = "shown", !.file = f, !.seen = s, !.stale = b]
      BY <1>15 DEF EditorLoads
    <2>2. s = text[f] \/ f \in gap BY DEF Seen
    <2>3. b = (f \in gap) /\ b \in BOOLEAN OBVIOUS
    <2> HIDE DEF s, b
    <2>4. editor'.pc = "shown" /\ editor'.file = f /\ editor'.seen = s /\ (editor'.stale <=> b)
      BY <2>1, <2>3 DEF Closed
    <2>5. EditorAgrees' BY <2>1, <2>2, <2>3, <2>4 DEF EditorAgrees
    <2>6. JobsAgree' BY <1>a, <2>1 DEF JobsAgree
    <2> QED BY <2>1, <2>5, <2>6 DEF CopyInv, Exclusive, ForgetsAgree
  <1>16. ASSUME EditorOpens \/ EditorFlushes PROVE CopyInv'
    <2> DEFINE f == editor.file
    <2>1. job' = Outdated(f, job) /\ forget' = OutdatedForgets(f, forget)
      BY <1>16 DEF EditorOpens, EditorFlushes
    <2>2. \A h \in Files \ {f} : text'[h] = text[h] /\ (h \in gap' => h \in gap)
      BY <1>16, <1>h DEF EditorOpens, EditorFlushes
    <2>3. dropped \subseteq dropped' BY <1>16 DEF EditorOpens, EditorFlushes
    <2>4. /\ \A k \in Jobs : AgreesWith(Outdated(f, job)[k], text', gap')
          /\ ForgetsAgree'
      BY <1>h, <2>1, <2>2, <2>3, CopyWrite
    <2>5. \A k \in Jobs : Outdated(f, job)[k].pc = job[k].pc BY <1>h, OutdatedFacts
    <2>6. Exclusive' BY <2>1, <2>5 DEF CopyInv, Exclusive
    <2>7. JobsAgree' BY <2>1, <2>4 DEF JobsAgree
    <2>8. EditorAgrees'
      <3>1. CASE EditorFlushes BY <3>1, NewRecords DEF EditorFlushes, EditorAgrees
      <3>2. CASE EditorOpens
        <4>1. PICK out \in SUBSET editor.seen :
                /\ editor' = [editor EXCEPT !.pc = "flushing", !.new = editor.seen \ out]
                /\ dropped' = dropped \cup ({editor.file} \X out)
          BY <3>2 DEF EditorOpens
        <4>2. /\ editor'.pc = "flushing" /\ editor'.file = editor.file
              /\ editor'.seen = editor.seen /\ editor'.new = editor.seen \ out
              /\ editor'.stale = editor.stale
          BY <1>h, <4>1 DEF EditorType
        <4>3. editor.pc = "shown" /\ text' = text BY <3>2 DEF EditorOpens
        <4>4. ~editor.stale => editor.seen = text[editor.file] BY <4>3 DEF CopyInv, EditorAgrees
        <4>5. editor.seen \ (editor.seen \ out) = out OBVIOUS
        <4> QED BY <4>1, <4>2, <4>3, <4>4, <4>5 DEF EditorAgrees
      <3> QED BY <1>16, <3>1, <3>2
    <2> QED BY <2>4, <2>6, <2>7, <2>8 DEF CopyInv
  <1>17. ASSUME GatewayRestarts PROVE CopyInv'
    <2> DEFINE fs == {Head(job[j].todo) : j \in {i \in Jobs : job[i].pc = "flushing"}}
    <2>1. /\ BrokenOff(fs) /\ editor' = editor /\ dropped' = dropped
          /\ forget' = [forget EXCEPT !["tool"] = NoForget]
      BY <1>17 DEF GatewayRestarts
    <2> HIDE DEF fs
    <2>2. EditorAgrees' BY <2>1, CopyBroken
    <2>3. \A f \in Files : f \notin gap => text'[f] = text[f] /\ f \notin gap'
      BY <2>1, BrokenOffFacts
    <2>4. ForgetsAgree' BY <1>h, <2>1, <2>3, NewRecords DEF CopyInv, ForgetsAgree, Files
    <2>5. \A j \in Jobs : job'[j].pc # "flushing" /\ AgreesWith(job'[j], text', gap')
      <3>1. \A j \in Jobs : job'[j] \in {Idle, Ended(j)} BY <1>17 DEF GatewayRestarts
      <3>2. AgreesWith(Idle, text', gap') BY NewRecords, NoCopies
      <3> QED BY <1>ended, <3>1, <3>2, NewRecords
    <2> QED BY <2>2, <2>4, <2>5 DEF CopyInv, Exclusive, JobsAgree
  <1>18. CASE UNCHANGED vars
    <2>1. UNCHANGED <<text, gap, job, editor, forget, dropped>> BY <1>18 DEF vars
    <2>2. JobsAgree' BY <1>a, <2>1 DEF JobsAgree
    <2> QED BY <2>1, <2>2 DEF CopyInv, Exclusive, EditorAgrees, ForgetsAgree
  <1> QED BY <1>1, <1>2, <1>3, <1>4, <1>5, <1>6, <1>7, <1>8, <1>9, <1>10, <1>11, <1>12, <1>13,
             <1>14, <1>15, <1>16, <1>17, <1>18 DEF Next, Forgets
-----------------------------------------------------------------------------
(* What is archived, and how often *)

\* A job is told by its kind and its chunk.
LEMMA JobsDiffer ==
  ASSUME NEW j \in Jobs, NEW k \in Jobs, j.kind = k.kind, j.chunk = k.chunk
  PROVE  j = k
  BY MemoryAssumption

\* A job is of one of three kinds, and at a chunk.
LEMMA KindsOfJobs == \A j \in Jobs : j.kind \in {"tokens", "archive", "learn"} /\ j.chunk \in Chunks
  BY MemoryAssumption DEF Kinds

\* A job that does not change, or opens a file, is as archived as it was.
LEMMA ArchKept ==
  ASSUME TypeOK, NEW k \in Jobs, JobArchive(k),
         job'[k].act = job[k].act, job'[k].todo = job[k].todo, job'[k].tries = job[k].tries,
         job'[k].pc = job[k].pc \/ {job[k].pc, job'[k].pc} \subseteq {"writing", "flushing"},
         appended'[k.chunk] \in Nat, appended[k.chunk] <= appended'[k.chunk],
         cleared \subseteq cleared', excused \subseteq excused', failures' \in Nat,
         failures <= failures' \/ (k.kind = "archive" /\ Archiving(k) => k.chunk \in excused')
  PROVE  JobArchive(k)'
  <1>1. failures \in Nat /\ job[k].tries \in Nat /\ appended[k.chunk] \in Nat
    BY KindsOfJobs DEF TypeOK, SessionsOK, JobsOK, JobType, GhostsOK, MaxFailures
  <1>2. HasAppended(job'[k]) => HasAppended(job[k]) BY DEF HasAppended
  <1>3. Archiving(k)' <=> Archiving(k) BY DEF Archiving
  <1> QED BY <1>1, <1>2, <1>3 DEF JobArchive

\* Where nothing is appended, and nobody begins to archive, a chunk is as often
\* in HISTORY.md as it was.
LEMMA OnceKept ==
  ASSUME NEW c \in Chunks, OnceAt(c), again \subseteq again', appended'[c] = appended[c],
         passed \subseteq passed', cleared \subseteq cleared',
         c \notin again' => \A j \in Jobs : j.chunk = c =>
           /\ Archiving(j)' => Archiving(j)
           /\ Archiving(j)' /\ HasAppended(job[j]) => HasAppended(job'[j])
           /\ Archiving(j) /\ HasAppended(job[j]) /\ ~Archiving(j)' => c \in passed' \cup cleared'
  PROVE  OnceAt(c)'
  <1> SUFFICES ASSUME c \notin again'
               PROVE  /\ appended'[c] <= 1
                      /\ \A j, k \in Jobs : j.chunk = c /\ k.chunk = c
                                            /\ Archiving(j)' /\ Archiving(k)' => j = k
                      /\ appended'[c] = 1 =>
                           /\ \A j \in Jobs : j.chunk = c /\ Archiving(j)' => HasAppended(job'[j])
                           /\ c \in passed' \cup cleared' \/ \E j \in Jobs : j.chunk = c /\ Archiving(j)'
    BY DEF OnceAt
  <1>1. c \notin again OBVIOUS
  <1> QED BY <1>1 DEF OnceAt

\* A job that has yet to append its chunk is the first to do so.
LEMMA NotYet ==
  ASSUME TypeOK, Once, NEW j \in Jobs, Archiving(j), ~HasAppended(job[j]), j.chunk \notin again
  PROVE  appended[j.chunk] = 0
  <1>1. j.chunk \in Chunks /\ appended[j.chunk] \in Nat BY KindsOfJobs DEF TypeOK, GhostsOK
  <1>2. OnceAt(j.chunk) BY <1>1 DEF Once
  <1> QED BY <1>1, <1>2 DEF OnceAt

\* A chunk that no session has passed, and no job is at, was not appended.
LEMMA Untouched ==
  ASSUME TypeOK, Once, NEW c \in Chunks, c \notin again, c \notin passed \cup cleared,
         \A j \in Jobs : j.chunk = c => ~Archiving(j)
  PROVE  appended[c] = 0
  <1>1. appended[c] \in Nat BY DEF TypeOK, GhostsOK
  <1>2. OnceAt(c) BY DEF Once
  <1> QED BY <1>1, <1>2 DEF OnceAt

\* While no job gets further with archiving, and nothing is appended, all stays.
LEMMA ArchQuiet ==
  ASSUME TypeOK, ArchInv, UNCHANGED <<failures, passed, cleared, appended, excused, again>>,
         \A k \in Jobs : /\ job'[k].act = job[k].act /\ job'[k].tries = job[k].tries
                         /\ job'[k].pc = "idle" <=> job[k].pc = "idle"
                         /\ job'[k].pc = "done" <=> job[k].pc = "done"
                         /\ HasAppended(job'[k]) <=> HasAppended(job[k])
  PROVE  ArchInv'
  <1>1. ASSUME NEW k \in Jobs PROVE JobArchive(k)'
    <2>1. JobArchive(k) BY DEF ArchInv, JobsArchive
    <2> QED BY <2>1 DEF JobArchive, Archiving
  <1>2. ASSUME NEW c \in Chunks PROVE OnceAt(c)'
    <2>1. OnceAt(c) BY DEF ArchInv, Once
    <2>2. \A j \in Jobs : Archiving(j)' <=> Archiving(j) BY DEF Archiving
    <2> QED BY <2>1, <2>2, OnceKept
  <1>3. PassedArchived' BY DEF ArchInv, PassedArchived
  <1> QED BY <1>1, <1>2, <1>3 DEF ArchInv, JobsArchive, Once

\* One job changes and nothing is appended: it is enough to look at that job.
LEMMA ArchJob ==
  ASSUME TypeOK, ArchInv, NEW j \in Jobs, NEW r, job' = [job EXCEPT ![j] = r],
         appended' = appended, passed \subseteq passed', cleared \subseteq cleared',
         excused \subseteq excused', again \subseteq again', failures' \in Nat,
         failures <= failures' \/
           (\A k \in Jobs \ {j} : k.kind = "archive" /\ Archiving(k) => k.chunk \in excused'),
         JobArchive(j)',
         passed' \subseteq passed \cup {j.chunk}, j.chunk \in passed' => appended[j.chunk] > 0,
         Archiving(j)' => Archiving(j),
         j.chunk \notin again' /\ Archiving(j) /\ HasAppended(job[j]) =>
           \/ Archiving(j)' /\ HasAppended(job'[j])
           \/ ~Archiving(j)' /\ j.chunk \in passed' \cup cleared'
  PROVE  ArchInv'
  <1>1. \A k \in Jobs : appended[k.chunk] \in Nat BY KindsOfJobs DEF TypeOK, GhostsOK
  <1>2. job \in [Jobs -> JobType] BY DEF TypeOK, JobsOK
  <1>3. \A k \in Jobs \ {j} : job'[k] = job[k] BY <1>2
  <1>4. ASSUME NEW k \in Jobs \ {j} PROVE JobArchive(k)'
    <2>1. JobArchive(k) BY DEF ArchInv, JobsArchive
    <2>2. appended'[k.chunk] \in Nat /\ appended[k.chunk] <= appended'[k.chunk] BY <1>1
    <2> QED BY <1>3, <2>1, <2>2, ArchKept
  <1>5. ASSUME NEW c \in Chunks PROVE OnceAt(c)'
    <2>1. OnceAt(c) BY DEF ArchInv, Once
    <2>2. \A k \in Jobs \ {j} : (Archiving(k)' <=> Archiving(k)) BY <1>3 DEF Archiving
    <2>3. c \notin again' => \A k \in Jobs : k.chunk = c =>
           /\ Archiving(k)' => Archiving(k)
           /\ Archiving(k)' /\ HasAppended(job[k]) => HasAppended(job'[k])
           /\ Archiving(k) /\ HasAppended(job[k]) /\ ~Archiving(k)' => c \in passed' \cup cleared'
      BY <1>3, <2>2
    <2> QED BY <2>1, <2>3, OnceKept
  <1>6. PassedArchived' BY DEF ArchInv, PassedArchived
  <1> QED BY <1>4, <1>5, <1>6 DEF ArchInv, JobsArchive, Once
\* A job that begins to archive is the first and only one at its chunk.
LEMMA ArchBegins ==
  ASSUME TypeOK, ArchInv, NEW j \in Jobs, NEW r, job' = [job EXCEPT ![j] = r],
         ~HasAppended(r), j.chunk \notin passed \cup cleared, JobArchive(j)',
         UNCHANGED <<appended, passed, excused, failures>>, cleared \subseteq cleared',
         again \subseteq again',
         j.chunk \notin again' => \A k \in Jobs : k.chunk = j.chunk => ~Archiving(k)
  PROVE  ArchInv'
  <1>1. failures \in Nat /\ \A k \in Jobs : k.chunk \in Chunks /\ appended[k.chunk] \in Nat
    BY KindsOfJobs DEF TypeOK, SessionsOK, GhostsOK
  <1>2. job \in [Jobs -> JobType] BY DEF TypeOK, JobsOK
  <1>3. (\A k \in Jobs \ {j} : job'[k] = job[k]) /\ job'[j] = r BY <1>2
  <1>4. ASSUME NEW k \in Jobs \ {j} PROVE JobArchive(k)'
    <2>1. JobArchive(k) BY DEF ArchInv, JobsArchive
    <2>2. /\ appended'[k.chunk] \in Nat /\ appended[k.chunk] <= appended'[k.chunk]
          /\ failures' \in Nat /\ failures <= failures'
      BY <1>1
    <2> QED BY <1>3, <2>1, <2>2, ArchKept
  <1>5. ASSUME NEW c \in Chunks PROVE OnceAt(c)'
    <2>1. CASE c # j.chunk
      <3>1. OnceAt(c) BY DEF ArchInv, Once
      <3>2. \A k \in Jobs : k.chunk = c => k # j /\ (Archiving(k)' <=> Archiving(k))
        BY <1>3, <2>1 DEF Archiving
      <3> QED BY <1>3, <3>1, <3>2, OnceKept
    <2>2. CASE c = j.chunk /\ c \in again' BY <2>2 DEF OnceAt
    <2>3. CASE c = j.chunk /\ c \notin again'
      <3>1. \A k \in Jobs : k.chunk = c => ~Archiving(k) BY <2>3
      <3>2. appended[c] = 0 BY <2>3, <3>1, Untouched DEF ArchInv
      <3>3. \A k \in Jobs : k.chunk = c /\ Archiving(k)' => k = j
        BY <1>3, <3>1 DEF Archiving
      <3> QED BY <3>2, <3>3 DEF OnceAt
    <2> QED BY <2>1, <2>2, <2>3
  <1>6. PassedArchived' BY DEF ArchInv, PassedArchived
  <1> QED BY <1>3, <1>4, <1>5, <1>6 DEF ArchInv, JobsArchive, Once

\* A failed consolidation: nothing is lost of what was appended.
LEMMA ArchFails ==
  ASSUME TypeOK, Shapes, ArchInv, NEW j \in Jobs, job[j].act = "summary", Fails(j),
         UNCHANGED <<appended, passed, cleared, excused>>, again \subseteq again',
         HasAppended(job[j]) => j.chunk \in again'
  PROVE  ArchInv'
  <1>1. PICK r \in Failed(j) : job' = [job EXCEPT ![j] = r] BY FailsFacts
  <1>2. failures' = failures + 1 /\ failures \in Nat BY FailsFacts DEF TypeOK, SessionsOK
  <1>3. /\ job \in [Jobs -> JobType] /\ job[j] \in JobType /\ job[j].tries \in 0 .. MaxFailures - 1
        /\ appended[j.chunk] \in Nat
    BY KindsOfJobs DEF TypeOK, JobsOK, JobType, GhostsOK
  <1>4. job'[j] = r BY <1>1, <1>3
  <1>5. JobArchive(j) /\ Archiving(j) /\ j.kind # "learn" /\ job[j].pc \notin {"idle", "done"}
    <2>1. JobArchive(j) /\ Shape(job[j]) BY DEF ArchInv, JobsArchive, Shapes
    <2> QED BY <2>1 DEF JobArchive, Archiving, Shape
  <1>6. JobArchive(j)'
    <2>1. CASE /\ failures + 1 >= MaxFailures
               /\ r.pc = "writing" /\ r.act = "raw" /\ r.todo = <<"HISTORY">>
               /\ r.tries = job[j].tries
      <3>1. Head(<<"HISTORY">>) = "HISTORY" OBVIOUS
      <3>2. ~HasAppended(r) BY <2>1, <3>1 DEF HasAppended
      <3>3. r.tries <= failures' BY <1>2, <1>3, <2>1 DEF MaxFailures
      <3> QED BY <1>4, <1>5, <2>1, <3>2, <3>3 DEF JobArchive, Archiving
    <2>2. CASE /\ j.kind = "archive" /\ job[j].tries + 1 < MaxFailures
               /\ r.pc = "asking" /\ r.act = "summary" /\ r.todo = <<>>
               /\ r.tries = job[j].tries + 1
      <3>1. ~HasAppended(r) BY <2>2 DEF HasAppended
      <3>2. job[j].tries <= failures => r.tries <= failures' BY <1>2, <1>3, <2>2
      <3> QED BY <1>4, <1>5, <2>2, <3>1, <3>2 DEF JobArchive, Archiving
    <2>3. CASE /\ failures + 1 < MaxFailures /\ r \in Afterwards(j)
               /\ j.kind = "archive" => job[j].tries + 1 >= MaxFailures
      <3>1. r.act \in {"none", "compact"} /\ (j.kind = "tokens" => r.pc = "idle")
            /\ (r.pc \in {"idle", "done"} <=> r.act = "none")
        BY <2>3, AfterwardsFacts DEF Shape
      <3>2. ~HasAppended(r) BY <3>1 DEF HasAppended
      <3>3. j.kind = "archive" => ~(job[j].tries <= failures)
        BY <1>2, <1>3, <2>3 DEF MaxFailures
      <3>4. j.kind = "tokens" => r.act = "none" /\ r.pc # "done" BY <3>1
      <3> QED BY <1>4, <1>5, <3>1, <3>2, <3>3, <3>4 DEF JobArchive, Archiving
    <2> QED BY <2>1, <2>2, <2>3, FailedFacts
  <1>7. j.chunk \in passed => appended[j.chunk] > 0 BY DEF ArchInv, PassedArchived
  <1>8. failures' \in Nat /\ failures <= failures' BY <1>2
  <1> QED BY <1>1, <1>5, <1>6, <1>7, <1>8, ArchJob

\* A job that goes to rest, or on to compact, without a failed consolidation.
LEMMA ArchRests ==
  ASSUME TypeOK, Shapes, ArchInv, NEW j \in Jobs, NEW r,
         job' = [job EXCEPT ![j] = r], r.act \in {"none", "compact"},
         r.pc \in {"idle", "done"} <=> r.act = "none",
         j.kind = "tokens" => r.pc = "idle", j.kind = "learn" => r.pc # "done",
         job[j].pc # "idle",
         UNCHANGED <<appended, cleared, again>>,
         passed' = (IF j.kind = "tokens" /\ HasAppended(job[j]) THEN passed \cup {j.chunk} ELSE passed),
         excused \subseteq excused', failures' \in Nat,
         failures <= failures' \/
           (\A k \in Jobs \ {j} : k.kind = "archive" /\ Archiving(k) => k.chunk \in excused'),
         j.kind = "archive" => appended[j.chunk] > 0 \/ j.chunk \in excused'
  PROVE  ArchInv'
  <1>1. job \in [Jobs -> JobType] BY DEF TypeOK, JobsOK
  <1>2. job'[j] = r BY <1>1
  <1>3. JobArchive(j) BY DEF ArchInv, JobsArchive
  <1>4. ~HasAppended(r) /\ ~Archiving(j)' BY <1>2 DEF HasAppended, Archiving
  <1>5. j.kind = "tokens" => r.act = "none" /\ r.pc # "done" OBVIOUS
  <1>6. JobArchive(j)' BY <1>2, <1>3, <1>4, <1>5 DEF JobArchive
  <1>7. passed \subseteq passed' /\ passed' \subseteq passed \cup {j.chunk} OBVIOUS
  <1>8. j.chunk \in passed' => appended[j.chunk] > 0
    BY <1>3 DEF ArchInv, PassedArchived, JobArchive
  <1>9. Archiving(j) /\ HasAppended(job[j]) => j.chunk \in passed' \cup cleared'
    <2>1. j.kind \in {"tokens", "archive", "learn"} BY KindsOfJobs
    <2> QED BY <1>3, <2>1 DEF JobArchive, Archiving
  <1> QED BY <1>4, <1>6, <1>7, <1>8, <1>9, ArchJob

\* At first nothing is archived.
LEMMA ArchInit == Init => ArchInv
  <1> SUFFICES ASSUME Init PROVE ArchInv
    OBVIOUS
  <1>1. \A j \in Jobs : job[j].pc = "idle" /\ job[j].act = "none" /\ j.chunk \in Chunks
    BY NewRecords, KindsOfJobs DEF Init
  <1>2. JobsArchive BY <1>1 DEF JobsArchive, JobArchive, HasAppended, Archiving
  <1>3. PassedArchived BY DEF Init, PassedArchived
  <1>4. Once BY <1>1 DEF Init, Once, OnceAt, Archiving
  <1> QED BY <1>2, <1>3, <1>4 DEF ArchInv
\* Every step of the gateway, the forgets and the editor.
LEMMA ArchStep == TypeOK /\ Shapes /\ ArchInv /\ [Next]_vars => ArchInv'
  <1> SUFFICES ASSUME TypeOK, Shapes, ArchInv, [Next]_vars PROVE ArchInv'
    OBVIOUS
  <1> USE DEF disk, sessions, webui, ghosts
  <1>n. /\ failures \in Nat /\ job \in [Jobs -> JobType]
        /\ \A j \in Jobs : appended[j.chunk] \in Nat /\ job[j] \in JobType /\ job[j].todo \in Todos
    BY KindsOfJobs DEF TypeOK, SessionsOK, JobsOK, JobType, GhostsOK
  <1>k. \A j \in Jobs : /\ JobArchive(j) /\ Shape(job[j]) /\ j.chunk \in Chunks
                        /\ j.kind \in {"tokens", "archive", "learn"}
    BY KindsOfJobs DEF ArchInv, JobsArchive, Shapes
  <1>p. \A c \in passed : appended[c] > 0 BY DEF ArchInv, PassedArchived
  <1>copies. ASSUME NEW f \in Files, job' \in {job, Outdated(f, job)},
                    UNCHANGED <<failures, passed, cleared, appended, excused, again>>
             PROVE  ArchInv'
    <2>1. \A k \in Jobs : /\ job'[k].act = job[k].act /\ job'[k].tries = job[k].tries
                          /\ job'[k].pc = job[k].pc /\ job'[k].todo = job[k].todo
      <3>1. CASE job' = job BY <3>1
      <3>2. CASE job' = Outdated(f, job) BY <1>n, <3>2, OutdatedFacts
      <3> QED BY <1>copies, <3>1, <3>2
    <2>2. \A k \in Jobs : HasAppended(job'[k]) <=> HasAppended(job[k]) BY <2>1 DEF HasAppended
    <2> QED BY <1>copies, <2>1, <2>2, ArchQuiet
  <1>1. ASSUME NEW j \in Jobs, Begins(j) PROVE ArchInv'
    <2> DEFINE r == Asking(j, 0)
    <2>1. /\ r.pc = "asking" /\ r.todo = <<>>
          /\ r.act = (IF j.kind = "learn" THEN "learn" ELSE "summary")
      <3>1. 0 \in 0 .. MaxFailures - 1 BY DEF MaxFailures
      <3> QED BY <3>1, AskingFacts
    <2>2. /\ job' = [job EXCEPT ![j] = r] /\ job[j].pc = "idle"
          /\ UNCHANGED <<failures, passed, cleared, appended, excused, again>>
          /\ j.kind \in {"tokens", "learn"}
          /\ j.chunk \notin cleared /\ (j.kind = "tokens" => j.chunk \notin passed)
      BY <1>1 DEF Begins
    <2> HIDE DEF r
    <2>3. job'[j] = r /\ ~HasAppended(r) BY <1>n, <2>1, <2>2 DEF HasAppended
    <2>4. job[j].act = "none" BY <1>k, <2>2 DEF Shape
    <2>5. JobArchive(j)' BY <2>1, <2>2, <2>3 DEF JobArchive
    <2>6. CASE j.kind = "learn"
      <3>1. ~Archiving(j) /\ ~Archiving(j)' BY <2>1, <2>3, <2>4, <2>6 DEF Archiving
      <3>2. failures' \in Nat /\ failures <= failures' BY <1>n, <2>2
      <3>3. j.chunk \in passed' => appended[j.chunk] > 0 BY <1>p, <2>2
      <3> QED BY <2>2, <2>5, <3>1, <3>2, <3>3, ArchJob
    <2>7. CASE j.kind = "tokens"
      <3>1. ASSUME NEW k \in Jobs, k.chunk = j.chunk PROVE ~Archiving(k)
        <4>1. CASE k.kind = "tokens"
          <5>1. k = j BY <2>7, <3>1, <4>1, JobsDiffer
          <5> QED BY <2>4, <5>1 DEF Archiving
        <4>2. CASE k.kind = "archive" BY <1>k, <2>2, <3>1, <4>2 DEF JobArchive, Shape, Archiving
        <4>3. CASE k.kind = "learn" BY <1>k, <4>3 DEF JobArchive, Archiving
        <4> QED BY <1>k, <4>1, <4>2, <4>3
      <3> QED BY <2>2, <2>3, <2>5, <2>7, <3>1, ArchBegins
    <2> QED BY <2>2, <2>6, <2>7
  <1>2. ASSUME NEW j \in Jobs, Archives(j) PROVE ArchInv'
    <2>1. /\ j.kind = "archive" /\ j.chunk \notin cleared /\ cleared' = cleared \cup {j.chunk}
          /\ UNCHANGED <<failures, passed, appended, excused>>
      BY <1>2 DEF Archives
    <2>2. job[j].pc = "idle" /\ job[j].act = "none" BY <1>k, <2>1 DEF JobArchive, Shape
    <2>3. CASE j.chunk \in passed
      <3>1. job' = job /\ again' = again BY <1>2, <2>3 DEF Archives
      <3>2. job' = [job EXCEPT ![j] = job[j]] BY <1>n, <3>1
      <3>3. ~Archiving(j) /\ ~Archiving(j)' /\ ~HasAppended(job[j])
        BY <2>2, <3>1 DEF Archiving, HasAppended
      <3>4. JobArchive(j)' BY <2>1, <2>2, <3>1, <3>3 DEF JobArchive
      <3>5. failures' \in Nat /\ failures <= failures' BY <1>n, <2>1
      <3>6. j.chunk \in passed' => appended[j.chunk] > 0 BY <1>p, <2>1
      <3>7. cleared \subseteq cleared' BY <2>1
      <3> QED BY <2>1, <3>1, <3>2, <3>3, <3>4, <3>5, <3>6, <3>7, ArchJob
    <2>4. CASE j.chunk \notin passed
      <3> DEFINE r == Asking(j, 0)
      <3>1. r.pc = "asking" /\ r.todo = <<>> /\ r.act = "summary" /\ r.tries = 0
        <4>1. 0 \in 0 .. MaxFailures - 1 BY DEF MaxFailures
        <4> QED BY <2>1, <4>1, AskingFacts
      <3>2. /\ job' = [job EXCEPT ![j] = r]
            /\ again' = again \cup {k.chunk : k \in {i \in Jobs :
                          i.chunk = j.chunk /\ i.kind = "tokens" /\ UnderWay(i)}}
        BY <1>2, <2>4 DEF Archives
      <3> HIDE DEF r
      <3>3. job'[j] = r /\ ~HasAppended(r) BY <1>n, <3>1, <3>2 DEF HasAppended
      <3>4. JobArchive(j)' BY <1>n, <2>1, <3>1, <3>3 DEF JobArchive, Archiving
      <3>5. ASSUME j.chunk \notin again', NEW k \in Jobs, k.chunk = j.chunk PROVE ~Archiving(k)
        <4>1. CASE k.kind = "tokens"
          <5>1. ~UnderWay(k) BY <3>2, <3>5, <4>1
          <5> QED BY <1>k, <5>1 DEF UnderWay, Archiving, Shape
        <4>2. CASE k.kind = "archive"
          <5>1. k = j BY <2>1, <3>5, <4>2, JobsDiffer
          <5> QED BY <2>2, <5>1 DEF Archiving
        <4>3. CASE k.kind = "learn" BY <1>k, <4>3 DEF JobArchive, Archiving
        <4> QED BY <1>k, <4>1, <4>2, <4>3
      <3>6. again \subseteq again' BY <3>2
      <3> QED BY <2>1, <2>4, <3>2, <3>3, <3>4, <3>5, <3>6, ArchBegins
    <2> QED BY <2>3, <2>4
  <1>3. ASSUME NEW j \in Jobs, Answered(j) PROVE ArchInv'
    <2>1. /\ job[j].pc = "asking" /\ job' = [job EXCEPT ![j] = job'[j]]
          /\ job'[j].pc = IF job'[j].todo = <<>> THEN "ending" ELSE "writing"
          /\ job'[j].act = job[j].act /\ job'[j].tries = job[j].tries
      BY <1>3, AnsweredFacts
    <2>2. UNCHANGED <<failures, passed, cleared, appended, excused, again>>
      BY <1>3 DEF Answered
    <2>3. ~HasAppended(job'[j])
      <3>1. CASE job[j].act = "summary"
        <4>1. PICK blank \in BOOLEAN : job'[j].todo = ToWrite(j, blank) BY <1>3, AnsweredFacts
        <4>2. job'[j].todo # <<>> /\ Head(job'[j].todo) = "HISTORY" BY <3>1, <4>1, ToWriteFacts
        <4> QED BY <4>2 DEF HasAppended
      <3>2. CASE job[j].act # "summary"
        <4>1. job[j].act # "raw" BY <1>k, <2>1 DEF Shape
        <4> QED BY <2>1, <3>2, <4>1 DEF HasAppended
      <3> QED BY <3>1, <3>2
    <2>4. ~HasAppended(job[j]) BY <2>1 DEF HasAppended
    <2>5. job'[j].pc \notin {"idle", "done"} BY <2>1
    <2>6. Archiving(j)' <=> Archiving(j) BY <2>1 DEF Archiving
    <2>7. JobArchive(j)'
      <3>1. JobArchive(j) BY <1>k
      <3> QED BY <2>1, <2>2, <2>3, <2>5, <2>6, <3>1 DEF JobArchive
    <2> QED BY <1>n, <1>p, <2>1, <2>2, <2>4, <2>6, <2>7, ArchJob
  <1>4. ASSUME NEW j \in Jobs, Compacted(j) PROVE ArchInv'
    <2>1. /\ job[j].act = "compact" /\ job[j].pc = "asking" /\ job' = [job EXCEPT ![j] = job'[j]]
          /\ job'[j].act = "compact" /\ job'[j].pc = "writing"
      BY <1>4, CompactedFacts
    <2>2. UNCHANGED <<failures, passed, cleared, appended, excused, again>>
      BY <1>4 DEF Compacted
    <2>3. ~HasAppended(job'[j]) /\ ~HasAppended(job[j]) /\ ~Archiving(j) /\ ~Archiving(j)'
      BY <2>1 DEF HasAppended, Archiving
    <2>4. JobArchive(j)'
      <3>1. JobArchive(j) BY <1>k
      <3> QED BY <2>1, <2>2, <2>3, <3>1 DEF JobArchive
    <2> QED BY <1>n, <1>p, <2>1, <2>2, <2>3, <2>4, ArchJob
  <1>5. ASSUME NEW j \in Jobs, Unanswered(j) PROVE ArchInv'
    <2>1. job[j].pc = "asking" /\ UNCHANGED <<passed, cleared, appended, excused, again>>
      BY <1>5 DEF Unanswered
    <2>2. ~HasAppended(job[j]) BY <2>1 DEF HasAppended
    <2>3. CASE job[j].act = "summary" /\ Fails(j) BY <2>1, <2>2, <2>3, ArchFails
    <2>4. CASE job[j].act # "summary" /\ failures' = failures
      <3>1. PICK r \in Afterwards(j) \cup {Ended(j)} : job' = [job EXCEPT ![j] = r]
        BY <1>5, <2>4, UnansweredFacts
      <3>2. job[j].act \in {"learn", "compact"} BY <1>k, <1>n, <2>1, <2>4 DEF Shape, JobType
      <3>3. /\ r.act \in {"none", "compact"} /\ (r.pc \in {"idle", "done"} <=> r.act = "none")
            /\ (j.kind = "tokens" => r.pc = "idle") /\ (j.kind = "learn" => r.pc # "done")
        BY <3>1, AfterwardsFacts, EndedFacts DEF Shape
      <3>4. j.kind = "archive" => appended[j.chunk] > 0 \/ j.chunk \in excused'
        BY <1>k, <2>1, <3>2 DEF JobArchive
      <3>5. failures' \in Nat /\ failures <= failures' BY <1>n, <2>4
      <3> QED BY <2>1, <2>2, <3>1, <3>3, <3>4, <3>5, ArchRests
    <2> QED BY <1>5, <2>3, <2>4, UnansweredFacts
  <1>6. ASSUME NEW j \in Jobs, Appends(j) PROVE ArchInv'
    <2>1. /\ job[j].pc = "writing" /\ Head(job[j].todo) = "HISTORY"
          /\ job' = [job EXCEPT ![j] = Wrote(j)]
          /\ appended' = [appended EXCEPT ![j.chunk] = @ + 1]
          /\ UNCHANGED <<failures, passed, cleared, excused, again>>
      BY <1>6 DEF Appends
    <2>2. job[j].todo # <<>> /\ job[j].act \in {"summary", "raw"} BY <1>k, <2>1 DEF Shape
    <2>3. /\ Wrote(j).pc \in {"ending", "writing"} /\ Wrote(j).act = job[j].act
          /\ Wrote(j).tries = job[j].tries /\ Wrote(j).todo = Tail(job[j].todo)
      BY <2>1, <2>2, WroteFacts
    <2>4. job'[j] = Wrote(j) /\ \A k \in Jobs \ {j} : job'[k] = job[k] BY <1>n, <2>1
    <2>5. HasAppended(Wrote(j)) /\ ~HasAppended(job[j])
      <3>1. Tail(job[j].todo) # <<>> => Head(Tail(job[j].todo)) # "HISTORY"
        BY <1>n, <2>2, TodoFacts
      <3> QED BY <2>1, <2>2, <2>3, <3>1 DEF HasAppended
    <2>6. /\ appended'[j.chunk] = appended[j.chunk] + 1
          /\ \A c \in Chunks : appended[c] \in Nat /\ appended'[c] \in Nat
                               /\ appended[c] <= appended'[c]
                               /\ (c # j.chunk => appended'[c] = appended[c])
      BY <1>k, <2>1 DEF TypeOK, GhostsOK
    <2>7. ASSUME NEW k \in Jobs PROVE JobArchive(k)'
      <3>1. JobArchive(k) /\ k.chunk \in Chunks BY <1>k
      <3>2. CASE k # j
        <4>1. job'[k] = job[k] BY <2>4, <3>2
        <4> QED BY <1>n, <2>1, <2>6, <3>1, <4>1, ArchKept
      <3>3. CASE k = j
        <4>1. appended'[j.chunk] > 0 BY <1>k, <2>6
        <4>2. job[j].pc \notin {"idle", "done"} /\ Wrote(j).pc \notin {"idle", "done"}
          BY <2>1, <2>3
        <4> QED BY <2>1, <2>2, <2>3, <2>4, <3>1, <3>3, <4>1, <4>2 DEF JobArchive
      <3> QED BY <3>2, <3>3
    <2>8. ASSUME NEW c \in Chunks PROVE OnceAt(c)'
      <3>1. OnceAt(c) BY DEF ArchInv, Once
      <3>2. \A k \in Jobs : Archiving(k)' <=> Archiving(k) BY <2>3, <2>4 DEF Archiving
      <3>3. CASE c # j.chunk
        <4>1. \A k \in Jobs : k.chunk = c => job'[k] = job[k] BY <2>4, <3>3
        <4> QED BY <2>1, <2>6, <3>1, <3>2, <3>3, <4>1, OnceKept
      <3>4. CASE c = j.chunk /\ c \in again BY <2>1, <3>4 DEF OnceAt
      <3>5. CASE c = j.chunk /\ c \notin again
        <4>1. Archiving(j) BY <2>2 DEF Archiving
        <4>2. appended[c] = 0 BY <2>5, <3>5, <4>1, NotYet DEF ArchInv
        <4>3. appended'[c] = 1 BY <2>6, <3>5, <4>2
        <4>4. \A k, l \in Jobs : k.chunk = c /\ l.chunk = c /\ Archiving(k) /\ Archiving(l) => k = l
          BY <3>1, <3>5 DEF OnceAt
        <4>5. \A k \in Jobs : k.chunk = c /\ Archiving(k)' => k = j
          BY <3>2, <3>5, <4>1, <4>4
        <4>6. Archiving(j)' /\ HasAppended(job'[j]) BY <2>4, <2>5, <3>2, <4>1
        <4> QED BY <3>5, <4>3, <4>5, <4>6 DEF OnceAt
      <3> QED BY <3>3, <3>4, <3>5
    <2>9. PassedArchived'
      <3>1. \A c \in passed : c \in Chunks BY DEF TypeOK, SessionsOK
      <3> QED BY <1>p, <2>1, <2>6, <3>1 DEF PassedArchived
    <2> QED BY <2>7, <2>8, <2>9 DEF ArchInv, JobsArchive, Once
  <1>7. ASSUME NEW j \in Jobs, Opens(j) PROVE ArchInv'
    <2> DEFINE f == Head(job[j].todo)
               r == [job[j] EXCEPT !.pc = "flushing"]
    <2>1. /\ job[j].pc = "writing" /\ job' = [Outdated(f, job) EXCEPT ![j] = r]
          /\ UNCHANGED <<failures, passed, cleared, appended, excused, again>>
      BY <1>7 DEF Opens
    <2>2. f \in Files BY <1>k, <1>n, <2>1, TodoFacts DEF Shape
    <2>3. /\ r.pc = "flushing" /\ r.act = job[j].act /\ r.todo = job[j].todo
          /\ r.tries = job[j].tries
      BY <1>n DEF JobType
    <2>4. Outdated(f, job) \in [Jobs -> JobType] BY <1>n, <2>2, OutdatedFacts
    <2> HIDE DEF f, r
    <2>5. \A k \in Jobs : /\ job'[k].act = job[k].act /\ job'[k].tries = job[k].tries
                          /\ job'[k].todo = job[k].todo
                          /\ job'[k].pc = IF k = j THEN "flushing" ELSE job[k].pc
      BY <1>n, <2>1, <2>2, <2>3, <2>4, OutdatedFacts
    <2>6. \A k \in Jobs : HasAppended(job'[k]) <=> HasAppended(job[k])
      BY <2>1, <2>5 DEF HasAppended
    <2> QED BY <2>1, <2>5, <2>6, ArchQuiet
  <1>8. ASSUME NEW j \in Jobs, Flushes(j) PROVE ArchInv'
    <2> DEFINE f == Head(job[j].todo)
    <2>1. /\ job[j].pc = "flushing" /\ job' = [Outdated(f, job) EXCEPT ![j] = Wrote(j)]
          /\ UNCHANGED <<failures, passed, cleared, appended, excused, again>>
      BY <1>8 DEF Flushes
    <2>2. job[j].todo # <<>> BY <1>k, <2>1 DEF Shape
    <2>3. f \in Files /\ f # "HISTORY" BY <1>k, <1>n, <2>1, <2>2, TodoFacts DEF Shape
    <2>4. Tail(job[j].todo) = <<>> BY <1>n, <2>2, <2>3, TodoFacts
    <2>5. /\ Wrote(j).pc = "ending" /\ Wrote(j).act = job[j].act /\ Wrote(j).todo = <<>>
          /\ Wrote(j).tries = job[j].tries
      BY <2>1, <2>2, <2>4, WroteFacts
    <2>6. Outdated(f, job) \in [Jobs -> JobType] BY <1>n, <2>3, OutdatedFacts
    <2>7. HasAppended(Wrote(j)) <=> HasAppended(job[j])
      BY <2>1, <2>3, <2>5 DEF HasAppended
    <2> HIDE DEF f
    <2>8. \A k \in Jobs \ {j} : /\ job'[k].act = job[k].act /\ job'[k].tries = job[k].tries
                                /\ job'[k].todo = job[k].todo /\ job'[k].pc = job[k].pc
      <3>1. \A k \in Jobs \ {j} : job'[k] = Outdated(f, job)[k] BY <2>1, <2>6
      <3>2. \A k \in Jobs : LET o == Outdated(f, job)[k] IN
              /\ o.act = job[k].act /\ o.tries = job[k].tries
              /\ o.todo = job[k].todo /\ o.pc = job[k].pc
        BY <1>n, <2>3, OutdatedFacts
      <3> QED BY <3>1, <3>2
    <2>9. job'[j] = Wrote(j) BY <2>1, <2>6
    <2>10. \A k \in Jobs \ {j} : HasAppended(job'[k]) <=> HasAppended(job[k])
      BY <2>8 DEF HasAppended
    <2>11. \A k \in Jobs : /\ job'[k].act = job[k].act /\ job'[k].tries = job[k].tries
                           /\ job'[k].pc = "idle" <=> job[k].pc = "idle"
                           /\ job'[k].pc = "done" <=> job[k].pc = "done"
                           /\ HasAppended(job'[k]) <=> HasAppended(job[k])
      BY <2>1, <2>5, <2>7, <2>8, <2>9, <2>10
    <2> QED BY <2>1, <2>11, ArchQuiet
  <1>9. ASSUME NEW j \in Jobs, Ends(j) PROVE ArchInv'
    <2>1. /\ job[j].pc = "ending" /\ job[j].todo = <<>> /\ job[j].act # "none"
          /\ UNCHANGED <<cleared, appended, again>>
          /\ passed' = IF j.kind = "tokens" THEN passed \cup {j.chunk} ELSE passed
      BY <1>9, <1>k DEF Ends, Shape
    <2>2. HasAppended(job[j]) <=> job[j].act \in {"summary", "raw"} BY <2>1 DEF HasAppended
    <2>3. j.kind = "tokens" => HasAppended(job[j]) BY <1>k, <2>1, <2>2 DEF JobArchive
    <2>4. passed' = IF j.kind = "tokens" /\ HasAppended(job[j]) THEN passed \cup {j.chunk} ELSE passed
      BY <2>1, <2>3
    <2>5. j.kind = "archive" => appended[j.chunk] > 0 \/ j.chunk \in excused
      <3>1. job[j].act \in {"summary", "raw", "learn", "compact"} BY <1>n, <2>1 DEF JobType
      <3> QED BY <1>k, <2>2, <3>1 DEF JobArchive
    <2>6. PICK r \in Afterwards(j) \cup {Ended(j)} :
            job' = [job EXCEPT ![j] = r] /\ (r = Ended(j) \/ r \in Afterwards(j))
      BY <1>9, EndsFacts
    <2>7. /\ r.act \in {"none", "compact"} /\ (r.pc \in {"idle", "done"} <=> r.act = "none")
          /\ (j.kind = "tokens" => r.pc = "idle") /\ (j.kind = "learn" => r.pc # "done")
      BY <2>6, AfterwardsFacts, EndedFacts DEF Shape
    <2>8. /\ excused \subseteq excused' /\ failures' \in Nat
          /\ failures <= failures' \/
               (\A k \in Jobs \ {j} : k.kind = "archive" /\ Archiving(k) => k.chunk \in excused')
      <3>1. CASE job[j].act \in {"summary", "raw"}
        <4>1. /\ failures' = 0
              /\ excused' = excused \cup
                   {k.chunk : k \in {i \in Jobs \ {j} : i.kind = "archive" /\ UnderWay(i)}}
          BY <1>9, <3>1 DEF Ends, Resets
        <4>2. \A k \in Jobs : Archiving(k) => UnderWay(k) BY <1>k DEF Archiving, UnderWay, Shape
        <4> QED BY <4>1, <4>2
      <3>2. CASE job[j].act \notin {"summary", "raw"}
        <4>1. failures' = failures /\ excused' = excused BY <1>9, <3>2 DEF Ends
        <4> QED BY <1>n, <4>1
      <3> QED BY <3>1, <3>2
    <2>9. j.kind = "archive" => appended[j.chunk] > 0 \/ j.chunk \in excused' BY <2>5, <2>8
    <2>10. job[j].pc # "idle" BY <2>1
    <2> QED BY <2>1, <2>4, <2>6, <2>7, <2>8, <2>9, <2>10, ArchRests
  <1>10. ASSUME NEW j \in Jobs, WriteFails(j) PROVE ArchInv'
    <2>1. /\ job[j].pc \in {"writing", "flushing"} /\ UNCHANGED <<passed, cleared, appended>>
      BY <1>10 DEF WriteFails
    <2>2. job[j].todo # <<>> /\ job[j].act # "none" BY <1>k, <2>1 DEF Shape
    <2>3. HasAppended(job[j]) <=> job[j].act \in {"summary", "raw"} /\ Head(job[j].todo) # "HISTORY"
      BY <2>1, <2>2 DEF HasAppended
    <2>4. CASE job[j].act = "summary"
      <3>1. /\ Fails(j) /\ excused' = excused
            /\ again' = IF Head(job[j].todo) = "HISTORY" THEN again ELSE again \cup {j.chunk}
        BY <1>10, <2>4, WriteFailsFacts
      <3>2. again \subseteq again' /\ (HasAppended(job[j]) => j.chunk \in again') BY <2>3, <3>1
      <3> QED BY <2>1, <2>4, <3>1, <3>2, ArchFails
    <2>5. CASE job[j].act # "summary"
      <3>1. PICK r \in Afterwards(j) \cup {Ended(j)} : job' = [job EXCEPT ![j] = r]
        BY <1>10, <2>5, WriteFailsFacts
      <3>2. job[j].act \in {"raw", "learn", "compact"} BY <1>n, <2>2, <2>5 DEF JobType
      <3>3. /\ r.act \in {"none", "compact"} /\ (r.pc \in {"idle", "done"} <=> r.act = "none")
            /\ (j.kind = "tokens" => r.pc = "idle") /\ (j.kind = "learn" => r.pc # "done")
        BY <3>1, AfterwardsFacts, EndedFacts DEF Shape
      <3>4. ~HasAppended(job[j])
        <4>1. job[j].act = "raw" => job[j].todo = <<"HISTORY">> BY <1>k, <2>2 DEF Shape
        <4>2. Head(<<"HISTORY">>) = "HISTORY" OBVIOUS
        <4> QED BY <2>3, <3>2, <4>1, <4>2
      <3>5. failures' = failures /\ again' = again /\ excused \subseteq excused'
            /\ (j.kind = "archive" /\ job[j].act = "raw" => j.chunk \in excused')
        BY <1>10, <2>5, WriteFailsFacts
      <3>6. j.kind = "archive" => appended[j.chunk] > 0 \/ j.chunk \in excused'
        BY <1>k, <2>1, <3>2, <3>5 DEF JobArchive
      <3>7. failures' \in Nat /\ failures <= failures' BY <1>n, <3>5
      <3>8. job[j].pc # "idle" BY <2>1
      <3> QED BY <2>1, <3>1, <3>3, <3>4, <3>5, <3>6, <3>7, <3>8, ArchRests
    <2> QED BY <2>4, <2>5
  <1>11. ASSUME NEW x \in Forgetters, Forgets(x) PROVE ArchInv'
    <2>1. UNCHANGED <<failures, passed, cleared, appended, excused, again>>
      BY <1>11 DEF Forgets, ForgetReads, ForgetMemory, ForgetHistory, Quarantines
    <2>2. \E f \in Files : job' \in {job, Outdated(f, job)}
      <3>1. CASE job' = job BY <3>1 DEF Files
      <3>2. CASE ForgetMemory(x) BY <3>2 DEF ForgetMemory, ForgetWrites, Files
      <3>3. CASE ForgetHistory(x) BY <3>3 DEF ForgetHistory, ForgetWrites, Files
      <3> QED BY <1>11, <3>1, <3>2, <3>3 DEF Forgets, ForgetReads, Quarantines
    <2> QED BY <1>copies, <2>1, <2>2
  <1>12. ASSUME NEW f \in Files, EditorLoads(f) PROVE ArchInv'
    BY <1>12, <1>copies DEF EditorLoads
  <1>13. ASSUME EditorOpens \/ EditorFlushes PROVE ArchInv'
    <2>1. editor.file \in Files BY DEF TypeOK, FilesOK, EditorType
    <2>2. job' = Outdated(editor.file, job)
          /\ UNCHANGED <<failures, passed, cleared, appended, excused, again>>
      BY <1>13 DEF EditorOpens, EditorFlushes
    <2> QED BY <1>copies, <2>1, <2>2
  <1>14. ASSUME GatewayRestarts PROVE ArchInv'
    <2>1. /\ job' = [j \in Jobs |-> IF job[j].pc = "idle" THEN Idle ELSE Ended(j)]
          /\ failures' = 0 /\ UNCHANGED <<passed, cleared, appended>>
          /\ excused \subseteq excused'
          /\ \A j \in Jobs : j.kind = "archive" /\ UnderWay(j) => j.chunk \in excused'
          /\ again \subseteq again'
          /\ \A j \in Jobs : j.kind = "tokens" /\ UnderWay(j) => j.chunk \in again'
      BY <1>14 DEF GatewayRestarts
    <2>2. \A j \in Jobs : Archiving(j) => UnderWay(j) BY <1>k DEF Archiving, UnderWay, Shape
    <2>3. \A j \in Jobs : /\ job'[j].act = "none" /\ job'[j].pc \in {"idle", "done"}
                          /\ (job'[j].pc # "idle" => job[j].pc # "idle" /\ j.kind = "archive")
      BY <2>1, NewRecords, EndedFacts
    <2>4. ASSUME NEW j \in Jobs PROVE JobArchive(j)'
      <3>1. ~HasAppended(job'[j]) /\ ~Archiving(j)' BY <2>3 DEF HasAppended, Archiving
      <3>2. job[j].pc # "idle" => job[j].pc = "done" \/ job[j].act = "compact" \/ Archiving(j)
                                  \/ job[j].act = "learn"
        BY <1>n, <1>k DEF Shape, Archiving, JobType
      <3>3. JobArchive(j) BY <1>k
      <3>4. j.kind = "archive" /\ job[j].pc # "idle" =>
              j.chunk \in cleared /\ (appended[j.chunk] > 0 \/ j.chunk \in excused')
        BY <2>1, <2>2, <3>2, <3>3 DEF JobArchive
      <3>5. j.kind # "archive" => job'[j].pc = "idle" BY <2>3
      <3> QED BY <2>1, <2>3, <3>1, <3>4, <3>5 DEF JobArchive
    <2>5. ASSUME NEW c \in Chunks PROVE OnceAt(c)'
      <3>1. OnceAt(c) BY DEF ArchInv, Once
      <3>2. \A j \in Jobs : ~Archiving(j)' BY <2>3 DEF Archiving
      <3>3. ASSUME c \notin again', NEW j \in Jobs, j.chunk = c, Archiving(j)
            PROVE  c \in passed' \cup cleared'
        <4>1. j.kind = "archive" BY <1>k, <2>1, <2>2, <3>3 DEF JobArchive, Archiving
        <4>2. job[j].pc # "idle" BY <1>k, <3>3 DEF Archiving, Shape
        <4> QED BY <1>k, <2>1, <3>3, <4>1, <4>2 DEF JobArchive
      <3> QED BY <2>1, <3>1, <3>2, <3>3, OnceKept
    <2>6. PassedArchived' BY <1>p, <2>1 DEF PassedArchived
    <2> QED BY <2>4, <2>5, <2>6 DEF ArchInv, JobsArchive, Once
  <1>15. CASE UNCHANGED vars
    <2>1. job' = job /\ UNCHANGED <<failures, passed, cleared, appended, excused, again>>
      BY <1>15 DEF vars
    <2> QED BY <2>1, ArchQuiet
  <1> QED
    BY <1>1, <1>2, <1>3, <1>4, <1>5, <1>6, <1>7, <1>8, <1>9, <1>10, <1>11, <1>12, <1>13, <1>14,
       <1>15 DEF Next

\* A stretch of messages that a session's cursor has passed, or that an archive has
\* reported as archived, is in HISTORY.md, once but for what is said at ArchivedOnce.
THEOREM ArchivesOnce == Spec => []ArchivedOnce
  <1>1. TypeOK /\ ArchInv => ArchivedOnce
    <2> SUFFICES ASSUME TypeOK, ArchInv PROVE ArchivedOnce
      OBVIOUS
    <2>1. \A c \in passed : appended[c] > 0 BY DEF ArchInv, PassedArchived
    <2>2. \A j \in Jobs : JobArchive(j) BY DEF ArchInv, JobsArchive
    <2>3. \A c \in Chunks : appended[c] > 1 => c \in again
      BY DEF ArchInv, Once, OnceAt, TypeOK, GhostsOK
    <2> QED BY <2>1, <2>2, <2>3 DEF ArchivedOnce, JobArchive
  <1>2. Init => TypeOK /\ Shapes /\ ArchInv BY TypeInit, ShapesInit, ArchInit
  <1>3. TypeOK /\ Shapes /\ ArchInv /\ [Next]_vars => (TypeOK /\ Shapes /\ ArchInv)'
    BY TypeStep, ShapesStep, ArchStep
  <1> QED BY <1>1, <1>2, <1>3, PTL DEF Spec
-----------------------------------------------------------------------------
(* Files that are open and empty are filled *)

\* Whoever had a file open still has it open, and no other file was opened.
LEMMA GapsKept ==
  ASSUME GapsAreFilled, gap' \subseteq gap,
         editor.pc = "flushing" => editor'.pc = "flushing" /\ editor'.file = editor.file,
         \A j \in Jobs : job[j].pc = "flushing" =>
           job'[j].pc = "flushing" /\ job'[j].todo = job[j].todo
  PROVE  GapsAreFilled'
  BY DEF GapsAreFilled

\* Opening makes a gap, and closing or breaking off fills it or leaves none.
LEMMA GapsStep == TypeOK /\ Shapes /\ JobsArchive /\ GapsAreFilled /\ [Next]_vars => GapsAreFilled'
  <1> SUFFICES ASSUME TypeOK, Shapes, JobsArchive, GapsAreFilled, [Next]_vars PROVE GapsAreFilled'
    OBVIOUS
  <1> USE DEF disk
  <1>h. /\ job \in [Jobs -> JobType] /\ editor \in EditorType /\ editor.file \in Files
        /\ \A j \in Jobs : Shape(job[j]) /\ job[j] \in JobType /\ job[j].todo \in Todos
    BY DEF TypeOK, JobsOK, FilesOK, JobType, EditorType, Shapes
  <1>w. \A j \in Jobs : job[j].pc \in {"writing", "flushing"} =>
           job[j].todo # <<>> /\ Head(job[j].todo) \in Files
    BY <1>h, TodoFacts DEF Shape
  <1>quiet. ASSUME NEW j \in Jobs, NEW r, job' = [job EXCEPT ![j] = r], job[j].pc # "flushing",
                   gap' = gap, editor' = editor
            PROVE  GapsAreFilled'
    BY <1>h, <1>quiet, GapsKept
  <1>outdated. ASSUME NEW f \in Files
               PROVE  /\ Outdated(f, job) \in [Jobs -> JobType]
                      /\ \A j \in Jobs : /\ Outdated(f, job)[j].pc = job[j].pc
                                         /\ Outdated(f, job)[j].todo = job[j].todo
                      /\ OutdatedEditor(f).pc = editor.pc /\ OutdatedEditor(f).file = editor.file
    BY <1>h, OutdatedFacts, OutdatedEditorFacts
  <1>1. ASSUME NEW j \in Jobs, Begins(j) PROVE GapsAreFilled'
    <2>1. job[j].pc = "idle" /\ job' = [job EXCEPT ![j] = Asking(j, 0)] BY <1>1 DEF Begins
    <2> QED BY <1>1, <1>quiet, <2>1 DEF Begins, webui
  <1>2. ASSUME NEW j \in Jobs, Archives(j) PROVE GapsAreFilled'
    <2>1. gap' = gap /\ editor' = editor /\ job[j].pc = "idle"
      BY <1>2 DEF Archives, webui, JobsArchive, JobArchive
    <2>2. CASE job' = job BY <2>1, <2>2, GapsKept
    <2>3. CASE job' = [job EXCEPT ![j] = Asking(j, 0)] BY <1>quiet, <2>1, <2>3
    <2> QED BY <1>2, <2>2, <2>3 DEF Archives
  <1>3. ASSUME NEW j \in Jobs, Answered(j) PROVE GapsAreFilled'
    BY <1>3, <1>quiet, AnsweredFacts DEF Answered, webui
  <1>4. ASSUME NEW j \in Jobs, Compacted(j) PROVE GapsAreFilled'
    <2>1. job[j].pc = "asking" /\ job' = [job EXCEPT ![j] = job'[j]] BY <1>4, CompactedFacts
    <2>2. gap' = gap /\ editor' = editor BY <1>4 DEF Compacted, webui
    <2> QED BY <1>quiet, <2>1, <2>2
  <1>fails. ASSUME NEW j \in Jobs, Fails(j) PROVE \E r : job' = [job EXCEPT ![j] = r]
    BY <1>fails DEF Fails
  <1>5. ASSUME NEW j \in Jobs, Unanswered(j) PROVE GapsAreFilled'
    <2>1. \E r : job' = [job EXCEPT ![j] = r] BY <1>5, <1>fails, UnansweredFacts
    <2> QED BY <1>5, <1>quiet, <2>1 DEF Unanswered, webui
  <1>6. ASSUME NEW j \in Jobs, Appends(j) PROVE GapsAreFilled'
    <2>1. /\ job[j].pc # "flushing" /\ gap' \subseteq gap /\ editor' = OutdatedEditor("HISTORY")
          /\ job' = [job EXCEPT ![j] = Wrote(j)]
      BY <1>6 DEF Appends
    <2>2. editor'.pc = editor.pc /\ editor'.file = editor.file BY <1>outdated, <2>1 DEF Files
    <2> QED BY <1>h, <2>1, <2>2, GapsKept
  <1>7. ASSUME NEW j \in Jobs, Opens(j) PROVE GapsAreFilled'
    <2> DEFINE f == Head(job[j].todo)
               r == [job[j] EXCEPT !.pc = "flushing"]
    <2>1. /\ job[j].pc = "writing" /\ job' = [Outdated(f, job) EXCEPT ![j] = r]
          /\ gap' = gap \cup {f} /\ editor' = OutdatedEditor(f)
      BY <1>7 DEF Opens
    <2>2. f \in Files BY <1>w, <2>1
    <2>3. r.pc = "flushing" /\ r.todo = job[j].todo BY <1>h DEF JobType
    <2>4. f = Head(job[j].todo) OBVIOUS
    <2> HIDE DEF f, r
    <2>5. job'[j] = r /\ \A k \in Jobs \ {j} : job'[k] = Outdated(f, job)[k]
      BY <1>outdated, <2>1, <2>2
    <2>6. \A k \in Jobs \ {j} : job'[k].pc = job[k].pc /\ job'[k].todo = job[k].todo
      BY <1>outdated, <2>2, <2>5
    <2>7. editor'.pc = editor.pc /\ editor'.file = editor.file BY <1>outdated, <2>1, <2>2
    <2>8. job'[j].pc = "flushing" /\ Head(job'[j].todo) = f BY <2>3, <2>4, <2>5
    <2> QED BY <2>1, <2>6, <2>7, <2>8 DEF GapsAreFilled
  <1>8. ASSUME NEW j \in Jobs, Flushes(j) PROVE GapsAreFilled'
    <2> DEFINE f == Head(job[j].todo)
    <2>1. /\ job[j].pc = "flushing" /\ job' = [Outdated(f, job) EXCEPT ![j] = Wrote(j)]
          /\ gap' = gap \ {f} /\ editor' = OutdatedEditor(f)
      BY <1>8 DEF Flushes
    <2>2. f \in Files BY <1>w, <2>1
    <2>3. \A k \in Jobs \ {j} : job'[k] = Outdated(f, job)[k] BY <1>outdated, <2>1, <2>2
    <2>4. \A k \in Jobs \ {j} : job'[k].pc = job[k].pc /\ job'[k].todo = job[k].todo
      BY <1>outdated, <2>2, <2>3
    <2>5. editor'.pc = editor.pc /\ editor'.file = editor.file BY <1>outdated, <2>1, <2>2
    <2> QED BY <2>1, <2>4, <2>5 DEF GapsAreFilled
  <1>9. ASSUME NEW j \in Jobs, Ends(j) PROVE GapsAreFilled'
    BY <1>9, <1>quiet, EndsFacts DEF Ends, webui
  <1>10. ASSUME NEW j \in Jobs, WriteFails(j) PROVE GapsAreFilled'
    <2> DEFINE fs == IF job[j].pc = "flushing" THEN {Head(job[j].todo)} ELSE {}
    <2>1. BrokenOff(fs) /\ editor' = editor BY <1>10 DEF WriteFails, webui
    <2>2. gap' \subseteq gap /\ \A f \in fs \cap gap' : editor.pc = "flushing" /\ f = editor.file
      BY <2>1, BrokenOffFacts
    <2>3. \E r : job' = [job EXCEPT ![j] = r] BY <1>10, <1>fails, WriteFailsFacts
    <2>4. \A k \in Jobs \ {j} : job'[k] = job[k] BY <1>h, <2>3
    <2> QED BY <2>1, <2>2, <2>4 DEF GapsAreFilled
  <1>forgets. ASSUME NEW x \in Forgetters, forget[x].pc \in Files, ForgetWrites(x)
              PROVE  GapsAreFilled'
    <2>1. CASE UNCHANGED <<disk, job, editor>> BY <2>1, GapsKept
    <2>2. CASE /\ gap' = gap \ {forget[x].pc} /\ job' = Outdated(forget[x].pc, job)
               /\ editor' = OutdatedEditor(forget[x].pc)
      BY <1>forgets, <1>outdated, <2>2, GapsKept
    <2> QED BY <1>forgets, <2>1, <2>2 DEF ForgetWrites
  <1>11. ASSUME NEW x \in Forgetters, Forgets(x) PROVE GapsAreFilled'
    <2>1. CASE ForgetMemory(x) BY <1>forgets, <2>1 DEF ForgetMemory, Files
    <2>2. CASE ForgetHistory(x) BY <1>forgets, <2>2 DEF ForgetHistory, Files
    <2>3. CASE Quarantines(x) \/ \E c \in Chunks : ForgetReads(x, c)
      BY <2>3, GapsKept DEF Quarantines, ForgetReads
    <2> QED BY <1>11, <2>1, <2>2, <2>3 DEF Forgets
  <1>12. ASSUME NEW f \in Files, EditorLoads(f) PROVE GapsAreFilled'
    BY <1>12, GapsKept DEF EditorLoads
  <1>13. ASSUME EditorOpens PROVE GapsAreFilled'
    <2>1. /\ gap' = gap \cup {editor.file} /\ job' = Outdated(editor.file, job)
          /\ editor'.pc = "flushing" /\ editor'.file = editor.file
          /\ editor.pc # "flushing"
      BY <1>13, <1>h DEF EditorOpens, EditorType
    <2> QED BY <1>outdated, <1>h, <2>1 DEF GapsAreFilled
  <1>14. ASSUME EditorFlushes PROVE GapsAreFilled'
    <2>1. gap' = gap \ {editor.file} /\ job' = Outdated(editor.file, job)
      BY <1>14 DEF EditorFlushes
    <2> QED BY <1>outdated, <1>h, <2>1 DEF GapsAreFilled
  <1>15. ASSUME GatewayRestarts PROVE GapsAreFilled'
    <2> DEFINE fs == {Head(job[j].todo) : j \in {i \in Jobs : job[i].pc = "flushing"}}
    <2>1. BrokenOff(fs) /\ editor' = editor BY <1>15 DEF GatewayRestarts
    <2>2. gap' \subseteq gap /\ \A f \in fs \cap gap' : editor.pc = "flushing" /\ f = editor.file
      BY <2>1, BrokenOffFacts
    <2> QED BY <2>1, <2>2 DEF GapsAreFilled
  <1>16. CASE UNCHANGED vars BY <1>16, GapsKept DEF vars
  <1> QED
    BY <1>1, <1>2, <1>3, <1>4, <1>5, <1>6, <1>7, <1>8, <1>9, <1>10, <1>11, <1>12, <1>13, <1>14,
       <1>15, <1>16 DEF Next
-----------------------------------------------------------------------------
(* Lines move for a reason *)

\* Every step that changes a file.
LEMMA LinesStep ==
  TypeOK /\ Shapes /\ CopyInv /\ GapsAreFilled /\ Next =>
    \A f \in Files, c \in Chunks : LineMoves(f, c)
  <1> SUFFICES ASSUME TypeOK, Shapes, CopyInv, GapsAreFilled, Next
               PROVE  \A f \in Files, c \in Chunks : LineMoves(f, c)
    OBVIOUS
  <1> DEFINE Goal == \A f \in Files, c \in Chunks : LineMoves(f, c)
  <1> USE DEF disk
  <1>h. /\ job \in [Jobs -> JobType] /\ forget \in [Forgetters -> RequestType]
        /\ text \in [Files -> SUBSET Chunks] /\ editor.file \in Files
        /\ \A j \in Jobs : Shape(job[j]) /\ job[j] \in JobType /\ job[j].todo \in Todos
    BY DEF TypeOK, JobsOK, FilesOK, JobType, EditorType, Shapes
  <1>w. \A j \in Jobs : job[j].pc \in {"writing", "flushing"} =>
           job[j].todo # <<>> /\ Head(job[j].todo) \in Files
    BY <1>h, TodoFacts DEF Shape
  <1>quiet. ASSUME text' = text PROVE Goal
    BY <1>quiet DEF LineMoves
  <1>broken. ASSUME NEW fs, BrokenOff(fs), left' < left PROVE Goal
    <2>1. \A f \in Files : text'[f] \subseteq text[f] BY <1>broken, BrokenOffFacts
    <2> QED BY <1>broken, <2>1 DEF LineMoves
  <1>1. ASSUME NEW j \in Jobs, Appends(j) PROVE Goal
    <2>1. /\ job[j].pc = "writing" /\ job[j].todo # <<>>
          /\ text' = [text EXCEPT !["HISTORY"] = Seen("HISTORY") \cup {j.chunk}]
          /\ job' = [job EXCEPT ![j] = Wrote(j)]
          /\ editor' = OutdatedEditor("HISTORY")
      BY <1>1, <1>w DEF Appends
    <2>2. TakesIn(j.chunk)
      <3>1. Wrote(j).todo = Tail(job[j].todo) BY <2>1, WroteFacts
      <3>2. Tail(job[j].todo) # job[j].todo
        <4>1. CASE Tail(job[j].todo) = <<>> BY <2>1, <4>1
        <4>2. CASE Tail(job[j].todo) # <<>>
          <5>1. Head(job[j].todo) = "HISTORY" BY <1>1 DEF Appends
          <5>2. Head(Tail(job[j].todo)) # "HISTORY" BY <1>h, <2>1, <4>2, TodoFacts
          <5> QED BY <5>1, <5>2
        <4> QED BY <4>1, <4>2
      <3>3. job'[j] # job[j] BY <1>h, <2>1, <3>1, <3>2
      <3> QED BY <2>1, <3>3 DEF TakesIn
    <2>3. CASE "HISTORY" \notin gap
      <3>1. text'["HISTORY"] = text["HISTORY"] \cup {j.chunk}
            /\ \A f \in Files \ {"HISTORY"} : text'[f] = text[f]
        BY <1>h, <2>1, <2>3 DEF Seen, Files
      <3> QED BY <2>2, <3>1 DEF LineMoves
    <2>4. CASE "HISTORY" \in gap
      <3>1. text'["HISTORY"] = {j.chunk} /\ \A f \in Files \ {"HISTORY"} : text'[f] = text[f]
        BY <1>h, <2>1, <2>4 DEF Seen, Files
      <3>2. editor.pc = "flushing"
        <4>1. \A i \in Jobs : ~(job[i].pc = "flushing" /\ Head(job[i].todo) = "HISTORY")
          BY <1>h, <1>w DEF Shape
        <4> QED BY <2>4, <4>1 DEF GapsAreFilled
      <3>3. editor'.pc = "flushing" BY <2>1, <3>2, OutdatedEditorFacts DEF Files
      <3>4. Meets("HISTORY") BY <2>4, <3>3 DEF Meets
      <3> QED BY <2>2, <3>1, <3>4 DEF LineMoves
    <2> QED BY <2>3, <2>4
  <1>2. ASSUME NEW j \in Jobs, Flushes(j) PROVE Goal
    <2> DEFINE f == Head(job[j].todo)
               n == New(j, f)
    <2>1. PICK now \in Overwritten(f, n) : text' = [text EXCEPT ![f] = now]
      BY <1>2 DEF Flushes
    <2>2. /\ job[j].pc = "flushing" /\ job' = [Outdated(f, job) EXCEPT ![j] = Wrote(j)]
      BY <1>2 DEF Flushes
    <2>3. f \in {"MEMORY", "USER"} /\ job[j].todo = <<f>>
      <3>1. f \in Files /\ f # "HISTORY" BY <1>h, <1>w, <2>2 DEF Shape
      <3>2. job[j].todo = <<f>> BY <1>h, <1>w, <2>2, <3>1, TodoFacts
      <3> QED BY <3>1, <3>2 DEF Files
    <2>4. n = IF job[j].act = "compact" THEN job[j].seen[f]
              ELSE IF job[j].blank THEN {}
              ELSE job[j].seen[f] \cup (IF Home(j.chunk) = f THEN {j.chunk} ELSE {})
      BY DEF New
    <2>5. f = Head(job[j].todo) OBVIOUS
    <2>6. n \subseteq now /\ now \subseteq n \cup text[f]
      BY <2>1 DEF Overwritten
    <2> HIDE DEF f, n
    <2>7. job'[j] # job[j] /\ job'[j].pc # "flushing"
      <3>1. Outdated(f, job) \in [Jobs -> JobType] BY <1>h, <2>3, OutdatedFacts DEF Files
      <3>2. job'[j] = Wrote(j) BY <2>2, <3>1
      <3>3. Wrote(j).pc \in {"ending", "writing"} BY <1>w, <2>2, WroteFacts
      <3> QED BY <2>2, <3>2, <3>3
    <2>8. f \in job[j].stale => Overtakes(f) BY <2>2, <2>5, <2>7 DEF Overtakes
    <2>9. f \notin job[j].stale => job[j].seen[f] = text[f]
      <3>1. f \in Copies(job[j]) BY <1>h, <2>2, <2>3, CopiesFacts
      <3> QED BY <3>1 DEF CopyInv, JobsAgree, AgreesWith
    <2>10. job[j].act # "compact" /\ job[j].blank => WritesBlank(f)
      <3>1. job[j].act \notin {"none", "raw", "learn"} \/ ~job[j].blank \/ job[j].act = "compact"
        <4>1. job[j].todo # <<>> /\ job[j].todo # <<"HISTORY">>
          <5>1. Head(<<"HISTORY">>) = "HISTORY" BY DEF Files
          <5> QED BY <1>w, <2>2, <2>3, <2>5, <5>1
        <4> QED BY <1>h, <2>2, <4>1 DEF Shape
      <3>2. job[j].act \in {"none", "summary", "raw", "learn", "compact"} BY <1>h DEF JobType
      <3> QED BY <2>2, <2>5, <2>7, <3>1, <3>2 DEF WritesBlank
    <2>11. TakesIn(j.chunk) BY <2>2, <2>7 DEF TakesIn
    <2>12. text'[f] = now /\ \A h \in Files \ {f} : text'[h] = text[h]
      BY <1>h, <2>1, <2>3 DEF Files
    <2>13. ASSUME NEW c \in text[f] \ text'[f] PROVE Overtakes(f) \/ WritesBlank(f)
      <3>1. c \notin n BY <2>6, <2>12, <2>13
      <3> QED BY <2>4, <2>8, <2>9, <2>10, <2>13, <3>1
    <2>14. ASSUME NEW c \in text'[f] \ text[f] PROVE Overtakes(f) \/ TakesIn(c)
      <3>1. c \in n BY <2>6, <2>12, <2>14
      <3>2. c \in job[j].seen[f] \/ c = j.chunk BY <2>4, <3>1
      <3> QED BY <2>8, <2>9, <2>11, <2>14, <3>2
    <2> QED BY <2>12, <2>13, <2>14 DEF LineMoves
  <1>forgets. ASSUME NEW x \in Forgetters, forget[x].pc \in Files, forget'[x].pc # forget[x].pc,
                     ForgetWrites(x), dropped \subseteq dropped'
              PROVE  Goal
    <2> DEFINE f == forget[x].pc
    <2>1. CASE text' = text BY <1>quiet, <2>1
    <2>2. CASE text' = [text EXCEPT ![f] = forget[x].seen \ {forget[x].needle}]
      <3>1. text'[f] = forget[x].seen \ {forget[x].needle}
            /\ \A h \in Files \ {f} : text'[h] = text[h]
        BY <1>forgets, <1>h, <2>2
      <3>2. CASE forget[x].stale
        <4>1. Overtakes(f) BY <1>forgets, <3>2 DEF Overtakes
        <4> QED BY <3>1, <4>1 DEF LineMoves
      <3>3. CASE ~forget[x].stale
        <4>1. forget[x].seen = text[f] /\ <<f, forget[x].needle>> \in dropped
          BY <1>forgets, <3>3 DEF CopyInv, ForgetsAgree
        <4> QED BY <1>forgets, <3>1, <4>1 DEF LineMoves
      <3> QED BY <3>2, <3>3
    <2> QED BY <1>forgets, <2>1, <2>2 DEF ForgetWrites
  <1>3. ASSUME NEW x \in Forgetters, ForgetMemory(x) PROVE Goal
    <2>1. forget[x].pc = "MEMORY" /\ ForgetWrites(x) /\ dropped \subseteq dropped'
      BY <1>3 DEF ForgetMemory
    <2>2. forget'[x].pc = "HISTORY"
      <3>1. OtherForgets(x) \in [Forgetters -> RequestType]
        BY <1>h, <2>1, OutdatedForgetsFacts DEF OtherForgets, Files
      <3> DEFINE r == [forget[x] EXCEPT !.pc = "HISTORY", !.seen = Seen("HISTORY"),
                                        !.stale = "HISTORY" \in gap, !.took = Took(x)]
      <3>2. forget' = [OtherForgets(x) EXCEPT ![x] = r] BY <1>3 DEF ForgetMemory
      <3>3. r.pc = "HISTORY" BY <1>h DEF RequestType
      <3> HIDE DEF r
      <3> QED BY <3>1, <3>2, <3>3
    <2> QED BY <1>forgets, <2>1, <2>2 DEF Files
  <1>4. ASSUME NEW x \in Forgetters, ForgetHistory(x) PROVE Goal
    <2>1. forget[x].pc = "HISTORY" /\ ForgetWrites(x) /\ dropped \subseteq dropped'
      BY <1>4 DEF ForgetHistory
    <2>2. forget'[x].pc # "HISTORY"
      <3>1. OtherForgets(x) \in [Forgetters -> RequestType]
        BY <1>h, <2>1, OutdatedForgetsFacts DEF OtherForgets, Files
      <3> DEFINE r == [forget[x] EXCEPT !.pc = "quarantine", !.seen = {}, !.stale = FALSE,
                                        !.took = Took(x)]
      <3>2. forget' = [OtherForgets(x) EXCEPT ![x] = IF Took(x) = {} THEN NoForget ELSE r]
        BY <1>4 DEF ForgetHistory
      <3>3. r.pc = "quarantine" BY <1>h DEF RequestType
      <3> HIDE DEF r
      <3> QED BY <3>1, <3>2, <3>3, NewRecords
    <2> QED BY <1>forgets, <2>1, <2>2 DEF Files
  <1>5. ASSUME EditorFlushes PROVE Goal
    <2> DEFINE f == editor.file
    <2>1. PICK now \in Overwritten(f, editor.new) : text' = [text EXCEPT ![f] = now]
      BY <1>5 DEF EditorFlushes
    <2>2. editor.pc = "flushing" /\ editor' = Closed /\ dropped' = dropped BY <1>5 DEF EditorFlushes
    <2>3. editor.new \subseteq now /\ now \subseteq editor.new \cup text[f]
      BY <2>1 DEF Overwritten
    <2>4. text'[f] = now /\ \A h \in Files \ {f} : text'[h] = text[h] BY <1>h, <2>1
    <2>5. CASE editor.stale
      <3>1. Overtakes(f) BY <2>2, <2>5 DEF Overtakes
      <3> QED BY <2>4, <3>1 DEF LineMoves
    <2>6. CASE ~editor.stale
      <3>1. /\ editor.seen = text[f] /\ editor.new \subseteq text[f]
            /\ \A c \in text[f] \ editor.new : <<f, c>> \in dropped
        BY <2>2, <2>6 DEF CopyInv, EditorAgrees
      <3> QED BY <2>2, <2>3, <2>4, <3>1 DEF LineMoves
    <2> QED BY <2>5, <2>6
  <1>6. ASSUME NEW j \in Jobs, WriteFails(j) PROVE Goal
    <2>1. left \in Nat /\ left' = left - 2
          /\ BrokenOff(IF job[j].pc = "flushing" THEN {Head(job[j].todo)} ELSE {})
      BY <1>6, MemoryAssumption DEF WriteFails, TypeOK, SessionsOK
    <2> QED BY <1>broken, <2>1
  <1>7. ASSUME GatewayRestarts PROVE Goal
    <2>1. left \in Nat /\ left' = left - 2
          /\ BrokenOff({Head(job[j].todo) : j \in {i \in Jobs : job[i].pc = "flushing"}})
      BY <1>7, MemoryAssumption DEF GatewayRestarts, TypeOK, SessionsOK
    <2> QED BY <1>broken, <2>1
  <1>8. ASSUME NEW j \in Jobs,
               \/ Begins(j) \/ Archives(j) \/ Answered(j) \/ Compacted(j) \/ Unanswered(j)
               \/ Opens(j) \/ Ends(j)
        PROVE  Goal
    BY <1>8, <1>quiet DEF Begins, Archives, Answered, Compacted, Unanswered, Opens, Ends
  <1>9. ASSUME NEW x \in Forgetters, Quarantines(x) \/ \E c \in Chunks : ForgetReads(x, c) PROVE Goal
    BY <1>9, <1>quiet DEF Quarantines, ForgetReads
  <1>10. ASSUME (\E f \in Files : EditorLoads(f)) \/ EditorOpens PROVE Goal
    BY <1>10, <1>quiet DEF EditorLoads, EditorOpens
  <1> QED BY <1>1, <1>2, <1>3, <1>4, <1>5, <1>6, <1>7, <1>8, <1>9, <1>10 DEF Next, Forgets

\* A file loses a line only when a user asked for that or its writer was overtaken,
\* blank or broken off, and a forgotten line comes back only from such a writer or
\* from messages taken in later.
THEOREM LinesMove == Spec => LinesMoveForAReason
  <1> DEFINE I == TypeOK /\ Shapes /\ CopyInv /\ ArchInv /\ GapsAreFilled
  <1>1. Init => I
    <2>1. Init => GapsAreFilled BY DEF Init, GapsAreFilled
    <2> QED BY <2>1, TypeInit, ShapesInit, CopyInit, ArchInit
  <1>2. I /\ [Next]_vars => I'
    BY TypeStep, ShapesStep, CopyStep, ArchStep, GapsStep DEF ArchInv
  <1>3. I /\ [Next]_vars => [\A f \in Files, c \in Chunks : LineMoves(f, c)]_vars
    BY LinesStep
  <1> QED BY <1>1, <1>2, <1>3, PTL DEF Spec, LinesMoveForAReason
=============================================================================
