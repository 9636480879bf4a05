---------------------------- MODULE MemoryFiles ----------------------------
(***************************************************************************)
(* The long-term memory (agent/memory.py: ScentKeeper, PackMemory): what   *)
(* is taken from the sessions into MEMORY.md, USER.md and HISTORY.md by    *)
(* consolidation, archiving and proactive learning; compaction; forgetting *)
(* (the agent's tool and the WebUI); and the WebUI's editor.               *)
(*                                                                         *)
(* Everybody reads a whole file and later writes a whole file: a provider  *)
(* call or a human lies between.  The file lock belongs to a ScentKeeper   *)
(* object.  The gateway's jobs share one; the tool has its own, and the    *)
(* WebUI, another process, makes one for every request.                    *)
(*                                                                         *)
(* A file is the set of the chunks it tells of.  A chunk is a stretch of   *)
(* messages of one session; the provider is taken to keep what it is shown *)
(* and to add the chunk, unless its answer is of no use or blank.          *)
(***************************************************************************)
EXTENDS Naturals, Sequences, FiniteSets

Kinds == {"tokens", "archive", "learn"}

CONSTANTS
  Chunks,        \* stretches of messages, each of a session of its own
  Personal,      \* the chunks that tell of the user: they go to USER.md
  Jobs,          \* the jobs considered: a kind and a chunk each
  NoChunk,       \* no chunk
  MaxTroubles    \* bound: confirmed forgets, and (each counts as two) visits to the
                 \* editor, writes that fail, blank answers, kills of the gateway

ASSUME MemoryAssumption ==
  /\ Personal \subseteq Chunks
  /\ Jobs \subseteq [kind : Kinds, chunk : Chunks]
  /\ NoChunk \notin Chunks
  /\ MaxTroubles \in Nat

Files == {"MEMORY", "USER", "HISTORY"}
Forgetters == {"tool", "web"}
MaxFailures == 3     \* _MAX_FAILURES_BEFORE_RAW_ARCHIVE

VARIABLES
  text,        \* what each file tells of
  gap,         \* the files that are open for writing and empty as yet
  job,         \* the jobs
  failures,    \* _consecutive_failures of the agent's keeper
  passed,      \* the chunks before last_consolidated
  learned,     \* the chunks before last_learned
  cleared,     \* the chunks whose session was cleared (/new) or archived
  editor,      \* the WebUI's memory page
  forget,      \* the forgets in progress
  quar,        \* memory/quarantine: the newest file, and the older ones
  left,        \* what is left of the bound
  appended,    \* history: how often a chunk was written to HISTORY.md
  excused,     \* history: archives that were crossed, killed or met a full disk
  again,       \* history: chunks somebody else had under way, or had to redo
  dropped,     \* history: what a user asked to go, and where from
  gone,        \* history: what finished forgets have taken out
  unkept       \* history: what was in a quarantine file overwritten, or not yet written

vars == <<text, gap, job, failures, passed, learned, cleared, editor, forget, quar, left,
          appended, excused, again, dropped, gone, unkept>>
disk == <<text, gap>>
sessions == <<passed, learned, cleared>>
webui == <<editor, forget, quar, gone, unkept>>
ghosts == <<appended, excused, again>>

-----------------------------------------------------------------------------
Nothing == [f \in Files |-> {}]
Idle == [pc |-> "idle", act |-> "none", todo |-> <<>>, seen |-> Nothing, stale |-> {},
         blank |-> FALSE, tries |-> 0]
Closed == [pc |-> "closed", file |-> "MEMORY", seen |-> {}, new |-> {}, stale |-> FALSE]
NoForget == [pc |-> "idle", needle |-> NoChunk, seen |-> {}, stale |-> FALSE, took |-> {}]

Init ==
  /\ text = Nothing
  /\ gap = {}
  /\ job = [j \in Jobs |-> Idle]
  /\ failures = 0
  /\ passed = {} /\ learned = {} /\ cleared = {}
  /\ editor = Closed
  /\ forget = [a \in Forgetters |-> NoForget]
  /\ quar = [older |-> {}, newest |-> {}]
  /\ left = MaxTroubles
  /\ appended = [c \in Chunks |-> 0]
  /\ excused = {} /\ again = {}
  /\ dropped = {} /\ gone = {} /\ unkept = {}

Home(c) == IF c \in Personal THEN "USER" ELSE "MEMORY"

\* A reader sees nothing of a file that a writer has opened and not yet filled.
Seen(f) == IF f \in gap THEN {} ELSE text[f]

\* forget_memory_lines runs from end to end without an await: with the tool in
\* it, the gateway's event loop does nothing else; its writing threads go on.
LoopFree == forget["tool"].pc = "idle"

\* The agent's keeper has its lock taken: by a job, from opening to closing.
Locked == \E j \in Jobs : job[j].pc = "flushing"

\* A job that has its session's lock; compaction comes after it.
UnderWay(j) == job[j].pc \notin {"idle", "done"} /\ job[j].act # "compact"

-----------------------------------------------------------------------------
(* Whose copies of a file a write makes stale *)

\* The files of which a job has a copy that it may yet write.
Copies(r) ==
  IF r.pc = "asking" THEN IF r.act = "compact" THEN {"MEMORY"} ELSE {"MEMORY", "USER"}
  ELSE {r.todo[i] : i \in 1..Len(r.todo)} \ {"HISTORY"}

Outdated(f, jobs) ==
  [j \in Jobs |-> IF f \in Copies(jobs[j]) THEN [jobs[j] EXCEPT !.stale = @ \cup {f}] ELSE jobs[j]]

\* The copies that are not needed any more go.
Tidied(r) ==
  [r EXCEPT !.seen = [f \in Files |-> IF f \in Copies(r) THEN r.seen[f] ELSE {}],
            !.stale = @ \cap Copies(r)]

OutdatedForgets(f, fs) ==
  [a \in Forgetters |-> IF fs[a].pc = f THEN [fs[a] EXCEPT !.stale = TRUE] ELSE fs[a]]

OutdatedEditor(f) ==
  IF editor.pc # "closed" /\ editor.file = f THEN [editor EXCEPT !.stale = TRUE] ELSE editor

\* What is in the file after new was written to it from its start: when others
\* wrote to it since it was opened, the end of theirs may stick out.
Overwritten(f, new) == IF f \in gap THEN {new} ELSE {new, new \cup text[f]}

\* Files their writer breaks off from: those that are empty stay so, unless the
\* memory page is about to fill them.
BrokenOff(files) ==
  LET lost == (files \cap gap) \ (IF editor.pc = "flushing" THEN {editor.file} ELSE {})
  IN /\ text' = [f \in Files |-> IF f \in lost THEN {} ELSE text[f]]
     /\ gap' = gap \ lost

-----------------------------------------------------------------------------
(* The jobs of the gateway *)

\* A job with a prompt made of the files as they are now.
Asking(j, tries) ==
  [Idle EXCEPT !.pc = "asking", !.act = IF j.kind = "learn" THEN "learn" ELSE "summary",
               !.seen = [f \in Files |-> IF f = "HISTORY" THEN {} ELSE Seen(f)],
               !.stale = gap \ {"HISTORY"}, !.tries = tries]

\* maybe_compact_memory: nothing when the file is short enough.
Compacting ==
  [Idle EXCEPT !.pc = "asking", !.act = "compact", !.seen["MEMORY"] = Seen("MEMORY"),
               !.stale = gap \cap {"MEMORY"}]

Ended(j) == IF j.kind = "archive" THEN [Idle EXCEPT !.pc = "done"] ELSE Idle

\* What comes after consolidation or learning has returned for good.
Afterwards(j) ==
  IF j.kind = "tokens" THEN {Idle}
  ELSE {Ended(j)} \cup (IF Seen("MEMORY") # {} THEN {Compacting} ELSE {})

\* maybe_consolidate_by_tokens and maybe_proactive_learn, after a turn, when
\* they find enough to do and have got the session's lock.
Begins(j) ==
  /\ j.kind \in {"tokens", "learn"}
  /\ LoopFree /\ job[j].pc = "idle"
  /\ j.chunk \notin cleared \cup (IF j.kind = "tokens" THEN passed ELSE learned)
  /\ ~\E k \in Jobs : k.chunk = j.chunk /\ k.kind # "archive" /\ UnderWay(k)
  /\ job' = [job EXCEPT ![j] = Asking(j, 0)]
  /\ UNCHANGED <<disk, failures, sessions, webui, left, ghosts, dropped>>

\* /new, or archive in the WebUI: the session loses its messages, and what was
\* not consolidated of them goes to archive_snapshot in the background.
Archives(j) ==
  /\ j.kind = "archive" /\ j.chunk \notin cleared
  /\ LoopFree
  /\ cleared' = cleared \cup {j.chunk}
  /\ IF j.chunk \in passed THEN UNCHANGED <<job, again>>
     ELSE /\ job' = [job EXCEPT ![j] = Asking(j, 0)]
          /\ again' = again \cup {k.chunk : k \in {i \in Jobs :
                        i.chunk = j.chunk /\ i.kind = "tokens" /\ UnderWay(i)}}
  /\ UNCHANGED <<disk, failures, passed, learned, webui, left, appended, excused, dropped>>

\* What job j writes to a file.
New(j, f) ==
  IF job[j].act = "compact" THEN job[j].seen[f]
  ELSE IF job[j].blank THEN {}
  ELSE job[j].seen[f] \cup (IF Home(j.chunk) = f THEN {j.chunk} ELSE {})

\* Mutant: learning writes a blank update, as consolidation does.
WritesMemoryBlankToo(j, blank) ==
  IF blank THEN job[j].seen["MEMORY"] # {}
  ELSE Home(j.chunk) = "MEMORY" /\ j.chunk \notin job[j].seen["MEMORY"]

\* MEMORY.md is written when it changes; learning ignores a blank update.
WritesMemory(j, blank) ==
  IF blank THEN job[j].act = "summary" /\ job[j].seen["MEMORY"] # {}
  ELSE Home(j.chunk) = "MEMORY" /\ j.chunk \notin job[j].seen["MEMORY"]

\* USER.md is written when it changes, and never made blank.
WritesUser(j, blank) ==
  ~blank /\ Home(j.chunk) = "USER" /\ j.chunk \notin job[j].seen["USER"]

ToWrite(j, blank) ==
  (IF job[j].act = "summary" THEN <<"HISTORY">> ELSE <<>>)
    \o (IF WritesMemory(j, blank) THEN <<"MEMORY">> ELSE <<>>)
    \o (IF WritesUser(j, blank) THEN <<"USER">> ELSE <<>>)

\* The provider calls the tool it was given, with the fields it was asked for.
Answered(j) ==
  /\ job[j].pc = "asking" /\ job[j].act # "compact" /\ LoopFree
  /\ \E blank \in BOOLEAN :
       /\ blank => left > 1
       /\ left' = IF blank THEN left - 2 ELSE left
       /\ job' = [job EXCEPT ![j] = Tidied(
            [@ EXCEPT !.pc = IF ToWrite(j, blank) = <<>> THEN "ending" ELSE "writing",
                      !.todo = ToWrite(j, blank), !.blank = blank])]
  /\ UNCHANGED <<disk, failures, sessions, webui, ghosts, dropped>>

\* The provider has made the file shorter.
Compacted(j) ==
  /\ job[j].pc = "asking" /\ job[j].act = "compact" /\ LoopFree
  /\ job' = [job EXCEPT ![j].pc = "writing", ![j].todo = <<"MEMORY">>]
  /\ UNCHANGED <<disk, failures, sessions, webui, left, ghosts, dropped>>

\* Mutant: the third failure in a row gives up as the first two do.
FailedNeverRaw(j) ==
  IF j.kind = "archive" /\ job[j].tries + 1 < MaxFailures THEN {Asking(j, job[j].tries + 1)}
  ELSE Afterwards(j)

\* _fail_or_raw_archive, and what its caller makes of it: archive_snapshot
\* tries three times and returns, the others return.
Failed(j) ==
  IF failures + 1 >= MaxFailures
  THEN {Tidied([job[j] EXCEPT !.pc = "writing", !.act = "raw", !.todo = <<"HISTORY">>])}
  ELSE IF j.kind = "archive" /\ job[j].tries + 1 < MaxFailures THEN {Asking(j, job[j].tries + 1)}
  ELSE Afterwards(j)

\* A consolidation fails: the failure is counted, for all sessions together.
Fails(j) ==
  /\ failures' = failures + 1
  /\ \E next \in Failed(j) : job' = [job EXCEPT ![j] = next]

\* Of no use: no tool call, fields missing or null, an error, an exception.
Unanswered(j) ==
  /\ job[j].pc = "asking" /\ LoopFree
  /\ CASE job[j].act = "summary" -> Fails(j)
       [] job[j].act = "learn" ->
            /\ \E next \in Afterwards(j) : job' = [job EXCEPT ![j] = next]
            /\ UNCHANGED failures
       [] OTHER -> job' = [job EXCEPT ![j] = Ended(j)] /\ UNCHANGED failures
  /\ UNCHANGED <<disk, sessions, webui, left, ghosts, dropped>>

\* The job after its write of a file.
Wrote(j) ==
  Tidied([job[j] EXCEPT !.pc = IF Len(job[j].todo) = 1 THEN "ending" ELSE "writing",
                        !.todo = Tail(@)])

\* append_history, in a thread, under the keeper's lock.
Appends(j) ==
  /\ job[j].pc = "writing" /\ Head(job[j].todo) = "HISTORY" /\ ~Locked
  /\ text' = [text EXCEPT !["HISTORY"] = Seen("HISTORY") \cup {j.chunk}]
  /\ gap' = gap \ {"HISTORY"}
  /\ job' = [job EXCEPT ![j] = Wrote(j)]
  /\ editor' = OutdatedEditor("HISTORY")
  /\ forget' = OutdatedForgets("HISTORY", forget)
  /\ appended' = [appended EXCEPT ![j.chunk] = @ + 1]
  /\ dropped' = dropped \ {<<"HISTORY", j.chunk>>}
  /\ UNCHANGED <<failures, sessions, quar, gone, unkept, left, excused, again>>

\* write_long_term, write_user_profile: opening the file empties it ...
Opens(j) ==
  /\ job[j].pc = "writing" /\ Head(job[j].todo) # "HISTORY" /\ ~Locked
  /\ LET f == Head(job[j].todo) IN
       /\ gap' = gap \cup {f}
       /\ job' = [Outdated(f, job) EXCEPT ![j] = [job[j] EXCEPT !.pc = "flushing"]]
       /\ editor' = OutdatedEditor(f)
       /\ forget' = OutdatedForgets(f, forget)
  /\ UNCHANGED <<text, failures, sessions, quar, gone, unkept, left, ghosts, dropped>>

\* ... and closing it fills it.
Flushes(j) ==
  /\ job[j].pc = "flushing"
  /\ LET f == Head(job[j].todo) IN
       /\ \E now \in Overwritten(f, New(j, f)) : text' = [text EXCEPT ![f] = now]
       /\ gap' = gap \ {f}
       /\ job' = [Outdated(f, job) EXCEPT ![j] = Wrote(j)]
       /\ editor' = OutdatedEditor(f)
       /\ forget' = OutdatedForgets(f, forget)
       /\ dropped' = IF j.chunk \in New(j, f) /\ job[j].act # "compact"
                     THEN dropped \ {<<f, j.chunk>>} ELSE dropped
  /\ UNCHANGED <<failures, sessions, quar, gone, unkept, left, ghosts>>

\* Consolidation (or the raw archive) has returned True: failures start again,
\* for all sessions; archives that are still trying are crossed.
Resets(j) ==
  /\ failures' = 0
  /\ excused' = excused \cup
       {k.chunk : k \in {i \in Jobs \ {j} : i.kind = "archive" /\ UnderWay(i)}}

\* The caller moves its cursor on, here.
Ends(j) ==
  /\ job[j].pc = "ending" /\ LoopFree
  /\ IF job[j].act \in {"summary", "raw"} THEN Resets(j) ELSE UNCHANGED <<failures, excused>>
  /\ passed' = IF j.kind = "tokens" THEN passed \cup {j.chunk} ELSE passed
  /\ learned' = IF job[j].act = "learn" THEN learned \cup {j.chunk} ELSE learned
  /\ IF job[j].act = "compact" THEN job' = [job EXCEPT ![j] = Ended(j)]
     ELSE \E next \in Afterwards(j) : job' = [job EXCEPT ![j] = next]
  /\ UNCHANGED <<disk, cleared, webui, left, appended, again, dropped>>

\* A write raises, perhaps with the file open and empty.  Consolidation counts
\* it as a failure; a raw archive ends the job with an exception.
WriteFails(j) ==
  /\ job[j].pc \in {"writing", "flushing"} /\ left > 1 /\ LoopFree
  /\ job[j].pc = "writing" => ~Locked
  /\ left' = left - 2
  /\ BrokenOff(IF job[j].pc = "flushing" THEN {Head(job[j].todo)} ELSE {})
  /\ CASE job[j].act = "summary" ->
            /\ Fails(j)
            /\ again' = IF Head(job[j].todo) = "HISTORY" THEN again ELSE again \cup {j.chunk}
            /\ UNCHANGED excused
       [] job[j].act = "raw" ->
            /\ job' = [job EXCEPT ![j] = Ended(j)]
            /\ excused' = excused \cup (IF j.kind = "archive" THEN {j.chunk} ELSE {})
            /\ UNCHANGED <<failures, again>>
       [] job[j].act = "learn" ->
            /\ \E next \in Afterwards(j) : job' = [job EXCEPT ![j] = next]
            /\ UNCHANGED <<failures, excused, again>>
       [] OTHER ->
            /\ job' = [job EXCEPT ![j] = Ended(j)]
            /\ UNCHANGED <<failures, excused, again>>
  /\ UNCHANGED <<sessions, webui, appended, dropped>>

-----------------------------------------------------------------------------
(* Forgetting: forget_memory_lines with confirm, by the agent or the WebUI *)

\* The lines of MEMORY.md are read.
ForgetReads(a, c) ==
  /\ forget[a].pc = "idle" /\ left > 0
  /\ left' = left - 1
  /\ forget' = [forget EXCEPT ![a] = [pc |-> "MEMORY", needle |-> c, seen |-> Seen("MEMORY"),
                                      stale |-> "MEMORY" \in gap, took |-> {}]]
  /\ dropped' = dropped \cup {<<"MEMORY", c>>}
  /\ UNCHANGED <<disk, job, failures, sessions, editor, quar, gone, unkept, ghosts>>

\* What forget a takes out of the file it has read.
Takes(a) ==
  IF forget[a].needle \in forget[a].seen THEN {<<forget[a].pc, forget[a].needle>>} ELSE {}

\* The lines that do not match are written back; nothing when all of them stay.
ForgetWrites(a) ==
  IF Takes(a) = {} THEN UNCHANGED <<disk, job, editor>>
  ELSE /\ text' = [text EXCEPT ![forget[a].pc] = forget[a].seen \ {forget[a].needle}]
       /\ gap' = gap \ {forget[a].pc}
       /\ job' = Outdated(forget[a].pc, job)
       /\ editor' = OutdatedEditor(forget[a].pc)

\* The other forget, when this one writes.
OtherForgets(a) ==
  IF Takes(a) = {} THEN forget ELSE OutdatedForgets(forget[a].pc, forget)

\* Mutant: only the lines of the last file are kept for the quarantine.
TookLast(a) == Takes(a)

\* All that forget a has taken out, once it is done with the file it has read.
Took(a) == forget[a].took \cup Takes(a)

\* MEMORY.md is written, then HISTORY.md read.
ForgetMemory(a) ==
  /\ forget[a].pc = "MEMORY"
  /\ ForgetWrites(a)
  /\ forget' = [OtherForgets(a) EXCEPT ![a] =
                  [forget[a] EXCEPT !.pc = "HISTORY", !.seen = Seen("HISTORY"),
                                    !.stale = "HISTORY" \in gap, !.took = Took(a)]]
  /\ gone' = gone \cup Takes(a)
  /\ dropped' = dropped \cup {<<"HISTORY", forget[a].needle>>}
  /\ UNCHANGED <<failures, sessions, quar, unkept, left, ghosts>>

\* HISTORY.md is written.
ForgetHistory(a) ==
  /\ forget[a].pc = "HISTORY"
  /\ ForgetWrites(a)
  /\ forget' = [OtherForgets(a) EXCEPT ![a] =
                  IF Took(a) = {} THEN NoForget
                  ELSE [forget[a] EXCEPT !.pc = "quarantine", !.seen = {}, !.stale = FALSE,
                                         !.took = Took(a)]]
  /\ gone' = gone \cup Takes(a)
  /\ UNCHANGED <<failures, sessions, quar, unkept, left, ghosts, dropped>>

\* The quarantine file is named by the second: one of the same second before
\* it is overwritten.
Quarantines(a) ==
  /\ forget[a].pc = "quarantine"
  /\ \E sameSecond \in BOOLEAN :
       IF sameSecond
       THEN /\ quar' = [quar EXCEPT !.newest = forget[a].took]
            /\ unkept' = unkept \cup quar.newest
       ELSE /\ quar' = [older |-> quar.older \cup quar.newest, newest |-> forget[a].took]
            /\ UNCHANGED unkept
  /\ forget' = [forget EXCEPT ![a] = NoForget]
  /\ UNCHANGED <<disk, job, failures, sessions, editor, gone, left, ghosts, dropped>>

Forgets(a) ==
  \/ \E c \in Chunks : ForgetReads(a, c)
  \/ ForgetMemory(a) \/ ForgetHistory(a) \/ Quarantines(a)

-----------------------------------------------------------------------------
(* The memory page of the WebUI *)

WebFree == forget["web"].pc = "idle"

\* The page shows a file ...
EditorLoads(f) ==
  /\ editor.pc = "closed" /\ left > 1 /\ WebFree
  /\ left' = left - 2
  /\ editor' = [Closed EXCEPT !.pc = "shown", !.file = f, !.seen = Seen(f),
                                  !.stale = f \in gap]
  /\ UNCHANGED <<disk, job, failures, sessions, forget, quar, gone, unkept, ghosts, dropped>>

\* ... and saves it, with lines taken out; no lock keeps others from the file.
EditorOpens ==
  /\ editor.pc = "shown" /\ WebFree
  /\ \E out \in SUBSET editor.seen :
       /\ editor' = [editor EXCEPT !.pc = "flushing", !.new = editor.seen \ out]
       /\ dropped' = dropped \cup ({editor.file} \X out)
  /\ gap' = gap \cup {editor.file}
  /\ job' = Outdated(editor.file, job)
  /\ forget' = OutdatedForgets(editor.file, forget)
  /\ UNCHANGED <<text, failures, sessions, quar, gone, unkept, left, ghosts>>

EditorFlushes ==
  /\ editor.pc = "flushing"
  /\ \E now \in Overwritten(editor.file, editor.new) : text' = [text EXCEPT ![editor.file] = now]
  /\ gap' = gap \ {editor.file}
  /\ job' = Outdated(editor.file, job)
  /\ forget' = OutdatedForgets(editor.file, forget)
  /\ editor' = Closed
  /\ UNCHANGED <<failures, sessions, quar, gone, unkept, left, ghosts, dropped>>

-----------------------------------------------------------------------------
\* The gateway is killed and started again.  Files it had open stay empty, an
\* archive in the background is never heard of again.
GatewayRestarts ==
  /\ left > 1
  /\ left' = left - 2
  /\ BrokenOff({Head(job[j].todo) : j \in {i \in Jobs : job[i].pc = "flushing"}})
  /\ job' = [j \in Jobs |-> IF job[j].pc = "idle" THEN Idle ELSE Ended(j)]
  /\ failures' = 0
  /\ excused' = excused \cup {j.chunk : j \in {i \in Jobs : i.kind = "archive" /\ UnderWay(i)}}
  /\ again' = again \cup {j.chunk : j \in {i \in Jobs : i.kind = "tokens" /\ UnderWay(i)}}
  /\ forget' = [forget EXCEPT !["tool"] = NoForget]
  /\ unkept' = unkept \cup forget["tool"].took
  /\ UNCHANGED <<sessions, editor, quar, gone, appended, dropped>>

Next ==
  \/ \E j \in Jobs :
       \/ Begins(j) \/ Archives(j) \/ Answered(j) \/ Compacted(j) \/ Unanswered(j)
       \/ Appends(j) \/ Opens(j) \/ Flushes(j) \/ Ends(j) \/ WriteFails(j)
  \/ \E a \in Forgetters : Forgets(a)
  \/ \E f \in Files : EditorLoads(f)
  \/ EditorOpens \/ EditorFlushes
  \/ GatewayRestarts

Spec == Init /\ [][Next]_vars

-----------------------------------------------------------------------------
\* What a job may have to write: an entry for HISTORY.md, a file of facts.
Todos == {<<>>, <<"HISTORY">>, <<"MEMORY">>, <<"USER">>, <<"HISTORY", "MEMORY">>,
          <<"HISTORY", "USER">>}

JobType ==
  [pc : {"idle", "asking", "writing", "flushing", "ending", "done"},
   act : {"none", "summary", "raw", "learn", "compact"},
   todo : Todos,
   seen : [Files -> SUBSET Chunks], stale : SUBSET Files, blank : BOOLEAN,
   tries : 0 .. MaxFailures - 1]

RequestType ==
  [pc : {"idle", "MEMORY", "HISTORY", "quarantine"}, needle : Chunks \cup {NoChunk},
   seen : SUBSET Chunks, stale : BOOLEAN, took : SUBSET (Files \X Chunks)]

EditorType ==
  [pc : {"closed", "shown", "flushing"}, file : Files, seen : SUBSET Chunks,
   new : SUBSET Chunks, stale : BOOLEAN]

JobsOK == job \in [Jobs -> JobType]

SessionsOK ==
  /\ failures \in Nat
  /\ passed \subseteq Chunks /\ learned \subseteq Chunks /\ cleared \subseteq Chunks
  /\ left \in 0..MaxTroubles

FilesOK ==
  /\ text \in [Files -> SUBSET Chunks] /\ gap \subseteq Files
  /\ editor \in EditorType
  /\ forget \in [Forgetters -> RequestType]
  /\ quar \in [older : SUBSET (Files \X Chunks), newest : SUBSET (Files \X Chunks)]

GhostsOK ==
  /\ appended \in [Chunks -> Nat]
  /\ excused \subseteq Chunks /\ again \subseteq Chunks
  /\ dropped \subseteq Files \X Chunks
  /\ gone \subseteq Files \X Chunks /\ unkept \subseteq Files \X Chunks

TypeOK == JobsOK /\ SessionsOK /\ FilesOK /\ GhostsOK

\* A stretch of messages that a session's cursor has passed, or that an archive
\* has reported as archived, was written to HISTORY.md (memory.py:872, :971):
\* as a summary, or raw once the provider has failed three times.  The failures
\* are counted for all sessions together: the success of another job between
\* two tries leaves an archive with neither; so does a killed gateway.  And it
\* was written once, unless a write failed after it, or /new archived what a
\* consolidation was at.
ArchivedOnce ==
  \A c \in Chunks :
    /\ c \in passed => appended[c] > 0
    /\ (\E j \in Jobs : j.chunk = c /\ j.kind = "archive"
                        /\ (job[j].pc = "done" \/ job[j].act = "compact"))
         => appended[c] > 0 \/ c \in excused
    /\ appended[c] > 1 => c \in again

\* Somebody writes file f in this step from a copy that had become stale, or was
\* taken while another had the file open and empty: there
\* is no lock between the keepers, nor one around reading, asking and writing.
Overtakes(f) ==
  \/ \E j \in Jobs : /\ job[j].pc = "flushing" /\ job'[j] # job[j]
                     /\ Head(job[j].todo) = f /\ f \in job[j].stale /\ job'[j].pc # "flushing"
  \/ editor.pc = "flushing" /\ editor' = Closed /\ editor.file = f /\ editor.stale
  \/ \E a \in Forgetters : forget[a].pc = f /\ forget'[a].pc # f /\ forget[a].stale

\* A job writes its own chunk in this step.
TakesIn(c) ==
  \E j \in Jobs : j.chunk = c /\ job[j].pc \in {"writing", "flushing"} /\ job'[j] # job[j]

\* A consolidation whose update was blank writes it in this step: it has no
\* check for that, as learning and USER.md have.
WritesBlank(f) ==
  \E j \in Jobs : /\ job[j].pc = "flushing" /\ job'[j] # job[j] /\ Head(job[j].todo) = f
                  /\ job[j].blank /\ job[j].act = "summary"

\* An entry is appended to the history in this step, which the memory page has
\* emptied and not yet filled.
Meets(f) == f = "HISTORY" /\ f \in gap /\ editor'.pc = "flushing"

\* Chunk c leaves file f, or comes back to it, in this step for one of the reasons.
LineMoves(f, c) ==
  /\ c \in text[f] \ text'[f] =>
       \/ <<f, c>> \in dropped' \/ Overtakes(f) \/ WritesBlank(f)
       \/ Meets(f) \/ left' < left
  /\ c \in text'[f] \ text[f] /\ <<f, c>> \in dropped => Overtakes(f) \/ TakesIn(c)

\* A file loses a line only when a user asked for that, or its writer had read
\* it before somebody else wrote it, or wrote a consolidation's blank answer, or
\* broke off, or came between the two halves of another's writing; and a line a
\* user asked to go comes back only from such a writer or from a stretch of
\* messages that is taken in later.
LinesMoveForAReason == [][\A f \in Files, c \in Chunks : LineMoves(f, c)]_vars

\* What a forget has taken out of the files is in quarantine (memory.py:286),
\* once it has ended, however the other writers come between; unless another
\* forget of the same second has overwritten the file, or the gateway was
\* killed before it was written.
ForgottenIsKept ==
  gone \subseteq quar.older \cup quar.newest \cup unkept
                   \cup UNION {forget[a].took : a \in Forgetters}
=============================================================================
