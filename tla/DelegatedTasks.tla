--------------------------- MODULE DelegatedTasks ---------------------------
(***************************************************************************)
(* The delegated work of one session: SubagentManager (agent/subagent.py)  *)
(* and its history TaskRuns (agent/task_runs.py), with the commands that   *)
(* reach it: stop, /new, the gateway's subagent_cancel, _forget, _private. *)
(*                                                                         *)
(* A task is an asyncio task, a row of the history and, when it ends by    *)
(* itself, an announcement on the bus.  All of the gateway's code up to an *)
(* await is one step; only the writes of the history are cut up further,   *)
(* because the WebUI is another process and hides a session by a marker    *)
(* file.  A bus queue is unbounded, so publishing never waits.             *)
(***************************************************************************)
EXTENDS Naturals, FiniteSets

CONSTANTS
  Spawned,      \* tasks of spawn: their row is there before they start
  Meas,         \* MEA loops: they make their row when they start
  Outcomes,     \* how a worker may end by itself
  MaxResets,    \* bound: /new commands and deletions
  MaxStops,     \* bound: stops and cancellations
  MaxRestarts   \* bound: restarts of the gateway

ASSUME BoundsAssumption ==
  MaxResets \in Nat /\ MaxStops \in Nat /\ MaxRestarts \in Nat
ASSUME OutcomesAssumption ==
  Outcomes \subseteq {"succeeded", "failed", "timed_out", "incomplete"}
ASSUME KindsAssumption == Spawned \cap Meas = {}

Tasks == Spawned \cup Meas
TERMINAL == {"succeeded", "failed", "cancelled", "timed_out", "incomplete"}
Statuses == {"absent", "running"} \cup TERMINAL
Commands == {"stop", "new", "forget"}

VARIABLES
  task,        \* the asyncio tasks: how far, of which generation, cancelled?
  generation,  \* generations[key]
  rows,        \* runs.sessions[key]
  loaded,      \* key in runs.sessions
  file,        \* the history's file: is it there, and its rows
  marker,      \* the .private file
  private,     \* key in runs.private
  write,       \* the save in progress: "idle", "replace" or "recheck"
  hide,        \* the WebUI's request: "idle", "unlink", "tell" or "forget"
  latch,       \* _stop_modes[key]
  waits,       \* the tasks each command has cancelled and waits for
  busy,        \* the commands in progress
  inbox,       \* announcements on the bus: tasks and their generation
  left,        \* what is left of each bound
  conv,        \* history: the number of the conversation
  born,        \* history: the conversation a task was started in
  reported,    \* history: task and conversation of each report
  odd          \* history: "late", a task started while its session was being
               \* forgotten; "killed", a kill between a write and its recheck

store == <<rows, loaded, file, private, write>>
vars == <<task, generation, rows, loaded, file, marker, private, write, hide, latch,
          waits, busy, inbox, left, conv, born, reported, odd>>

NoTask == [pc |-> "none", gen |-> 0, cancel |-> FALSE]
NoRows == [t \in Tasks |-> "absent"]
NoFile == [exists |-> FALSE, rows |-> NoRows]

Init ==
  /\ task = [t \in Tasks |-> NoTask]
  /\ generation = 0
  /\ rows = NoRows
  /\ loaded = FALSE
  /\ file = NoFile
  /\ marker = FALSE /\ private = FALSE
  /\ write = "idle" /\ hide = "idle"
  /\ latch = "none"
  /\ waits = [c \in Commands |-> {}]
  /\ busy = {}
  /\ inbox = {}
  /\ left = [resets |-> MaxResets, stops |-> MaxStops, restarts |-> MaxRestarts]
  /\ conv = 0
  /\ born = [t \in Tasks |-> 0]
  /\ reported = {}
  /\ odd = {}

\* The gateway's event loop is not inside a save.
LoopFree == write = "idle"

Alive(t) == task[t].pc \in {"created", "working"}
Tracked == {t \in Tasks : task[t].pc \in {"created", "working", "ended"}}

-----------------------------------------------------------------------------
(* TaskRuns *)

\* snapshot() of a session not loaded yet: what was running ended with the
\* gateway; nothing is read of a private one.
RowsRead ==
  IF marker \/ private \/ ~file.exists THEN NoRows
  ELSE [t \in Tasks |-> IF file.rows[t] = "running" THEN "incomplete" ELSE file.rows[t]]

Rows == IF loaded THEN rows ELSE RowsRead

\* put(): a terminal row stays as it is, and is not saved again.
Put(t, status) ==
  /\ loaded' = TRUE
  /\ private' = (private \/ marker)
  /\ IF Rows[t] \in TERMINAL
     THEN rows' = Rows /\ UNCHANGED write
     ELSE /\ rows' = [Rows EXCEPT ![t] = status]
          /\ write' = IF private \/ marker THEN "idle" ELSE "replace"
  /\ UNCHANGED file

\* _status(): nothing, when the session has been reset since.
SetStatus(t, status) ==
  IF task[t].gen = generation THEN Put(t, status) ELSE UNCHANGED store

\* _save(): os.replace, or it raises and is logged ...
Replaces ==
  /\ write = "replace"
  /\ \/ file' = [exists |-> TRUE, rows |-> rows] /\ write' = "recheck"
     \/ UNCHANGED file /\ write' = "idle"
  /\ UNCHANGED <<task, generation, rows, loaded, marker, private, hide, latch, waits,
                 busy, inbox, left, conv, born, reported, odd>>

\* Mutant: the marker is not looked at again.
RechecksNothing ==
  /\ write = "recheck"
  /\ write' = "idle"
  /\ UNCHANGED <<task, generation, rows, loaded, file, marker, private, hide, latch, waits,
                 busy, inbox, left, conv, born, reported, odd>>

\* ... and the marker is looked at again.
Rechecks ==
  /\ write = "recheck"
  /\ file' = IF marker THEN NoFile ELSE file
  /\ write' = "idle"
  /\ UNCHANGED <<task, generation, rows, loaded, marker, private, hide, latch, waits,
                 busy, inbox, left, conv, born, reported, odd>>

\* subagent_snapshot: the history is shown.
LooksUp ==
  /\ LoopFree /\ ~loaded
  /\ rows' = RowsRead /\ loaded' = TRUE /\ private' = (private \/ marker)
  /\ UNCHANGED <<task, generation, file, marker, write, hide, latch, waits, busy, inbox,
                 left, conv, born, reported, odd>>

-----------------------------------------------------------------------------
(* The tasks *)

\* A turn delegates: no turn runs beside /new, whose turn has the session's
\* lock, but one may run while a stop waits or the session is being deleted.
Delegates(t) ==
  /\ LoopFree /\ "new" \notin busy
  /\ task[t].pc = "none"
  /\ task' = [task EXCEPT ![t] = [pc |-> "created", gen |-> generation, cancel |-> FALSE]]
  /\ IF t \in Spawned THEN Put(t, "running") ELSE UNCHANGED store
  /\ born' = [born EXCEPT ![t] = conv]
  /\ odd' = IF "forget" \in busy THEN odd \cup {"late"} ELSE odd
  /\ UNCHANGED <<generation, marker, hide, latch, waits, busy, inbox, left, conv, reported>>

\* Its first step.  An MEA loop takes the generation, and makes its row, here.
Starts(t) ==
  /\ LoopFree
  /\ task[t].pc = "created" /\ ~task[t].cancel
  /\ IF t \in Meas
     THEN /\ task' = [task EXCEPT ![t].pc = "working", ![t].gen = generation]
          /\ Put(t, "running")
     ELSE /\ task' = [task EXCEPT ![t].pc = "working"]
          /\ UNCHANGED store
  /\ UNCHANGED <<generation, marker, hide, latch, waits, busy, inbox, left, conv, born, reported, odd>>

\* It ends by itself: the answer, an error, the timeout, the iteration limit.
\* The row is settled and the result announced.
Finishes(t, status) ==
  /\ LoopFree
  /\ task[t].pc = "working" /\ ~task[t].cancel
  /\ task' = [task EXCEPT ![t].pc = "ended"]
  /\ SetStatus(t, status)
  /\ inbox' = inbox \cup {[task |-> t, gen |-> task[t].gen]}
  /\ UNCHANGED <<generation, marker, hide, latch, waits, busy, left, conv, born, reported, odd>>

\* It meets the latch, or is cancelled: nothing is announced.  A task cancelled
\* before its first step never runs, so that its row stays as it was.
Stopped(t) ==
  /\ LoopFree
  /\ \/ task[t].pc = "working" /\ (task[t].cancel \/ latch # "none") /\ SetStatus(t, "cancelled")
     \/ task[t].pc = "created" /\ task[t].cancel /\ UNCHANGED store
  /\ task' = [task EXCEPT ![t].pc = "ended"]
  /\ UNCHANGED <<generation, marker, hide, latch, waits, busy, inbox, left, conv, born, reported, odd>>

\* Mutant: the callback only takes the task off the registries.
CleanupOfRegistries(t) ==
  /\ LoopFree
  /\ task[t].pc = "ended"
  /\ task' = [task EXCEPT ![t].pc = "gone"]
  /\ latch' = IF Tracked = {t} THEN "none" ELSE latch
  /\ UNCHANGED <<generation, rows, loaded, file, marker, private, write, hide, waits, busy,
                 inbox, left, conv, born, reported, odd>>

\* Mutant: the latch outlives the last task.
CleanupKeepsLatch(t) ==
  /\ LoopFree
  /\ task[t].pc = "ended"
  /\ task' = [task EXCEPT ![t].pc = "gone"]
  /\ IF t \in Spawned /\ rows[t] \notin TERMINAL
     THEN Put(t, IF task[t].cancel THEN "cancelled" ELSE "failed") ELSE UNCHANGED store
  /\ UNCHANGED <<generation, marker, hide, latch, waits, busy, inbox, left, conv, born, reported, odd>>

\* The done callback: settle the row of a spawned task that has not settled it,
\* of whatever generation; the latch goes with the last task.
Cleanup(t) ==
  /\ LoopFree
  /\ task[t].pc = "ended"
  /\ task' = [task EXCEPT ![t].pc = "gone"]
  /\ IF t \in Spawned /\ rows[t] \notin TERMINAL
     THEN Put(t, IF task[t].cancel THEN "cancelled" ELSE "failed") ELSE UNCHANGED store
  /\ latch' = IF Tracked = {t} THEN "none" ELSE latch
  /\ UNCHANGED <<generation, marker, hide, waits, busy, inbox, left, conv, born, reported, odd>>

\* Mutant: whatever comes is a turn of the conversation.
DeliversAny(m) ==
  /\ LoopFree /\ "new" \notin busy
  /\ inbox' = inbox \ {m}
  /\ reported' = reported \cup {[task |-> m.task, conv |-> conv]}
  /\ UNCHANGED <<task, generation, rows, loaded, file, marker, private, write, hide, latch,
                 waits, busy, left, conv, born, odd>>

\* The announcement comes to a turn (_process_message), which drops it when the
\* session has been reset since.
Delivers(m) ==
  /\ LoopFree /\ "new" \notin busy
  /\ inbox' = inbox \ {m}
  /\ reported' = IF m.gen = generation
                 THEN reported \cup {[task |-> m.task, conv |-> conv]} ELSE reported
  /\ UNCHANGED <<task, generation, rows, loaded, file, marker, private, write, hide, latch,
                 waits, busy, left, conv, born, odd>>

-----------------------------------------------------------------------------
(* Commands *)

\* cancel_by_session: cancel what is alive, then wait for it.
CancelsSession(c) ==
  /\ c \notin busy
  /\ busy' = busy \cup {c}
  /\ waits' = [waits EXCEPT ![c] = {t \in Tasks : Alive(t)}]
  /\ task' = [t \in Tasks |-> IF Alive(t) THEN [task[t] EXCEPT !.cancel = TRUE] ELSE task[t]]

\* A task waited for has ended, and its callback has run.
Waited(c) == c \in busy /\ \A t \in waits[c] : task[t].pc = "gone"

\* The next generation, with an empty history.  A task that has ended may still
\* have its callback to come.
Reset ==
  /\ generation' = generation + 1
  /\ rows' = NoRows /\ loaded' = TRUE
  /\ file' = NoFile
  /\ conv' = conv + 1
  /\ odd' = IF \E t \in Tasks : task[t].pc = "ended" THEN odd \cup {"late"} ELSE odd

\* _handle_stop, hard: request_stop, then cancel_by_session.
StopBegins ==
  /\ LoopFree /\ left.stops > 0
  /\ left' = [left EXCEPT !.stops = @ - 1]
  /\ latch' = IF \E t \in Tasks : Alive(t) THEN "hard" ELSE latch
  /\ CancelsSession("stop")
  /\ UNCHANGED <<generation, rows, loaded, file, marker, private, write, hide, inbox, conv,
                 born, reported, odd>>

StopEnds ==
  /\ LoopFree /\ Waited("stop")
  /\ busy' = busy \ {"stop"} /\ waits' = [waits EXCEPT !["stop"] = {}]
  /\ UNCHANGED <<task, generation, rows, loaded, file, marker, private, write, hide, latch,
                 inbox, left, conv, born, reported, odd>>

\* /stop idle: the latch only.
IdleStop ==
  /\ LoopFree /\ left.stops > 0
  /\ \E t \in Tasks : Alive(t)
  /\ left' = [left EXCEPT !.stops = @ - 1]
  /\ latch' = "when_idle"
  /\ UNCHANGED <<task, generation, rows, loaded, file, marker, private, write, hide, waits,
                 busy, inbox, conv, born, reported, odd>>

\* cancel_task, asked for in the WebUI.
CancelsOne(t) ==
  /\ LoopFree /\ left.stops > 0
  /\ Alive(t)
  /\ left' = [left EXCEPT !.stops = @ - 1]
  /\ task' = [task EXCEPT ![t].cancel = TRUE]
  /\ UNCHANGED <<generation, rows, loaded, file, marker, private, write, hide, latch, waits,
                 busy, inbox, conv, born, reported, odd>>

\* /new: a hard stop, then the next generation and an empty history.
NewBegins ==
  /\ LoopFree /\ left.resets > 0
  /\ left' = [left EXCEPT !.resets = @ - 1]
  /\ latch' = IF \E t \in Tasks : Alive(t) THEN "hard" ELSE latch
  /\ CancelsSession("new")
  /\ UNCHANGED <<generation, rows, loaded, file, marker, private, write, hide, inbox, conv,
                 born, reported, odd>>

NewEnds ==
  /\ LoopFree /\ Waited("new")
  /\ busy' = busy \ {"new"} /\ waits' = [waits EXCEPT !["new"] = {}]
  /\ Reset
  /\ UNCHANGED <<task, marker, private, write, hide, latch, inbox, left, born, reported>>

\* The session becomes private, or is deleted, in the WebUI: the marker, ...
Hides ==
  /\ hide = "idle" /\ left.resets > 0
  /\ left' = [left EXCEPT !.resets = @ - 1]
  /\ marker' = TRUE
  /\ hide' = "unlink"
  /\ UNCHANGED <<task, generation, rows, loaded, file, private, write, latch, waits, busy,
                 inbox, conv, born, reported, odd>>

\* ... then the file, ...
HideUnlinks ==
  /\ hide = "unlink"
  /\ file' = NoFile
  /\ hide' = "tell"
  /\ UNCHANGED <<task, generation, rows, loaded, marker, private, write, latch, waits, busy,
                 inbox, left, conv, born, reported, odd>>

\* ... then the gateway is told (subagent_private), ...
HideTells ==
  /\ LoopFree /\ hide = "tell"
  /\ private' = TRUE /\ file' = NoFile
  /\ hide' = "idle"
  /\ UNCHANGED <<task, generation, rows, loaded, marker, write, latch, waits, busy, inbox,
                 left, conv, born, reported, odd>>

\* ... or to forget the session (subagent_forget): turns go on meanwhile.
ForgetBegins ==
  /\ LoopFree /\ hide = "tell"
  /\ hide' = "forget"
  /\ CancelsSession("forget")
  /\ UNCHANGED <<generation, rows, loaded, file, marker, private, write, latch, inbox, left,
                 conv, born, reported, odd>>

ForgetEnds ==
  /\ LoopFree /\ Waited("forget")
  /\ busy' = busy \ {"forget"} /\ waits' = [waits EXCEPT !["forget"] = {}]
  /\ hide' = "idle"
  /\ Reset
  /\ UNCHANGED <<task, marker, private, write, latch, inbox, left, born, reported>>

\* The gateway is killed and started again: the files are what is left.
GatewayRestarts ==
  /\ left.restarts > 0
  /\ left' = [left EXCEPT !.restarts = @ - 1]
  /\ task' = [t \in Tasks |-> IF task[t].pc = "none" THEN task[t] ELSE [task[t] EXCEPT !.pc = "gone"]]
  /\ generation' = 0
  /\ rows' = NoRows /\ loaded' = FALSE
  /\ private' = FALSE
  /\ write' = "idle"
  /\ hide' = IF hide = "forget" THEN "idle" ELSE hide
  /\ latch' = "none"
  /\ waits' = [c \in Commands |-> {}]
  /\ busy' = {}
  /\ inbox' = {}
  /\ odd' = IF write = "recheck" THEN odd \cup {"killed"} ELSE odd
  /\ UNCHANGED <<file, marker, conv, born, reported>>

Next ==
  \/ Replaces \/ Rechecks \/ LooksUp
  \/ \E t \in Tasks :
       \/ Delegates(t) \/ Starts(t) \/ Stopped(t) \/ Cleanup(t) \/ CancelsOne(t)
       \/ \E status \in Outcomes : Finishes(t, status)
  \/ \E m \in inbox : Delivers(m)
  \/ StopBegins \/ StopEnds \/ IdleStop \/ NewBegins \/ NewEnds
  \/ Hides \/ HideUnlinks \/ HideTells \/ ForgetBegins \/ ForgetEnds
  \/ GatewayRestarts

\* The loop goes on with what is ready, and a worker comes to its next look at
\* the latch: the provider and the tools answer.  Nothing obliges a worker to
\* end by itself (the timeout is off by default), a turn to delegate, a user to
\* command or the bus to deliver.
Fairness ==
  /\ WF_vars(Replaces) /\ WF_vars(Rechecks)
  /\ \A t \in Tasks : WF_vars(Starts(t)) /\ WF_vars(Stopped(t)) /\ WF_vars(Cleanup(t))

Spec == Init /\ [][Next]_vars /\ Fairness

-----------------------------------------------------------------------------
TypeOK ==
  /\ task \in [Tasks -> [pc : {"none", "created", "working", "ended", "gone"}, gen : Nat,
                         cancel : BOOLEAN]]
  /\ generation \in Nat
  /\ rows \in [Tasks -> Statuses] /\ loaded \in BOOLEAN
  /\ ~loaded => rows = NoRows
  /\ file \in [exists : BOOLEAN, rows : [Tasks -> Statuses]]
  /\ marker \in BOOLEAN /\ private \in BOOLEAN
  /\ write \in {"idle", "replace", "recheck"}
  /\ hide \in {"idle", "unlink", "tell", "forget"}
  /\ latch \in {"none", "hard", "when_idle"}
  /\ waits \in [Commands -> SUBSET Tasks] /\ busy \subseteq Commands
  /\ inbox \subseteq [task : Tasks, gen : Nat]
  /\ left \in [resets : Nat, stops : Nat, restarts : Nat]
  /\ conv \in Nat /\ born \in [Tasks -> Nat]
  /\ reported \subseteq [task : Tasks, conv : Nat]
  /\ odd \subseteq {"late", "killed"}

\* No row says "running" for ever: its task is still tracked, and its callback
\* to come, whether it was cancelled before its first step or died.
RunningIsTracked ==
  \A t \in Tasks : rows[t] = "running" => t \in Tracked

\* A conversation shows and hears only of its own tasks: those of before a /new
\* or a deletion leave no row behind and are not reported, unless one was
\* delegated while its session was being deleted.
NothingFromBefore ==
  "late" \notin odd =>
    /\ \A r \in reported : born[r.task] = r.conv
    /\ \A t \in Tasks : rows[t] # "absent" => born[t] = conv

\* What a private session's workers did is on disk no more once the WebUI has
\* deleted it, whatever save was under way, unless the gateway was killed there.
PrivateLeavesNoFile ==
  marker /\ write = "idle" /\ hide # "unlink" /\ "killed" \notin odd => ~file.exists

\* A stop is over some day: the latch, which ends every worker that meets it,
\* goes with the workers it was meant for and those started meanwhile.
LatchClears == latch # "none" ~> latch = "none"
=============================================================================
