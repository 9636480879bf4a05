---------------------------- MODULE AgentProofs ----------------------------
(***************************************************************************)
(* The work of the agent: first what it delegates (DelegatedTasks, for any *)
(* tasks, outcomes and bounds), then its own turns (LoopBody, for any      *)
(* limits and bounds), last the journal of those turns as the file it is   *)
(* (JournalLog, for any inputs, operations and bounds).                    *)
(*                                                                         *)
(* Of DelegatedTasks, what a write of the history does to its rows is      *)
(* stated once, and each invariant is then shown action by action.         *)
(*                                                                         *)
(* Of LoopBody, the lists come first: parts of them, and the messages that *)
(* may yet come before the model (Said), with what a step adds to them     *)
(* (SaidStep).  On these rest four invariants: AllCounted, that messages   *)
(* and calls are numbered as they come; CallsAnswered, that each call of   *)
(* the turn has its result or is due; AllSince, that nothing there was     *)
(* said before the last /new; AllOnce, that a list has behind its index    *)
(* just what the session lacks.                                            *)
(*                                                                         *)
(* Of JournalLog, the refinement of TurnJournal.  First what one appended  *)
(* row does to each scan (LastAppend, OpenTurnAppend and the like), then   *)
(* which answers of the scans make each step of the abstract journal       *)
(* (Commits, CrashesBeforeOpen and the like).  The invariant, LogInv, says *)
(* of each call how far its rows have got and what the scans answer there  *)
(* (Progress); a row then leads from one stage to the next or ends the     *)
(* call, and a crash at any stage is a crash of the abstract journal.      *)
(***************************************************************************)
EXTENDS DelegatedTasks, LoopBody, JournalLog, FiniteSetTheorems, SequenceTheorems,
        WellFoundedInduction, TLAPS

-----------------------------------------------------------------------------
(* The history.                                                            *)

\* Reading the history yields rows, of which none is running that was not
\* before, and none is there that was neither in memory nor in the file.
LEMMA RowsFacts ==
  ASSUME TypeOK
  PROVE  /\ Rows \in [Tasks -> Statuses]
         /\ \A t \in Tasks : /\ Rows[t] = "running" => rows[t] = "running"
                             /\ Rows[t] # "absent" => rows[t] # "absent" \/ file.rows[t] # "absent"
<1> USE DEF TypeOK, Rows, RowsRead, NoRows, Statuses, TERMINAL
<1>1. CASE loaded
  BY <1>1
<1>2. CASE ~loaded
  BY <1>2
<1> QED BY <1>1, <1>2

\* put() changes one row, and that one only while it is not terminal.
LEMMA PutFacts ==
  ASSUME TypeOK, NEW t \in Tasks, NEW s \in Statuses, Put(t, s)
  PROVE  /\ rows' \in [Tasks -> Statuses] /\ loaded' = TRUE
         /\ private' \in BOOLEAN /\ write' \in {write, "idle", "replace"} /\ file' = file
         /\ \A u \in Tasks \ {t} : rows'[u] = Rows[u]
         /\ rows'[t] = IF Rows[t] \in TERMINAL THEN Rows[t] ELSE s
<1>1. Rows \in [Tasks -> Statuses]
  BY RowsFacts
<1>2. private \in BOOLEAN /\ marker \in BOOLEAN
  BY DEF TypeOK
<1> HIDE DEF Rows
<1>3. CASE Rows[t] \in TERMINAL
  BY <1>1, <1>2, <1>3 DEF Put
<1>4. CASE Rows[t] \notin TERMINAL
  BY <1>1, <1>2, <1>4 DEF Put
<1> QED BY <1>3, <1>4

\* What a step may do to the history's variables keeps their types.
StoreType ==
  /\ rows \in [Tasks -> Statuses] /\ loaded \in BOOLEAN
  /\ ~loaded => rows = NoRows
  /\ file \in [exists : BOOLEAN, rows : [Tasks -> Statuses]]
  /\ private \in BOOLEAN
  /\ write \in {"idle", "replace", "recheck"}

LEMMA PutType ==
  ASSUME TypeOK, NEW t \in Tasks, NEW s \in Statuses, Put(t, s)
  PROVE  StoreType'
<1>1. file \in [exists : BOOLEAN, rows : [Tasks -> Statuses]] /\ write \in {"idle", "replace", "recheck"}
  BY DEF TypeOK
<1> QED BY <1>1, PutFacts DEF StoreType

LEMMA UnchangedType ==
  ASSUME TypeOK, UNCHANGED store
  PROVE  StoreType'
BY DEF TypeOK, StoreType, store

LEMMA SetStatusType ==
  ASSUME TypeOK, NEW t \in Tasks, NEW s \in Statuses, SetStatus(t, s)
  PROVE  StoreType'
BY PutType, UnchangedType DEF SetStatus

-----------------------------------------------------------------------------
(* Types.                                                                  *)

TaskType == [Tasks -> [pc : {"none", "created", "working", "ended", "gone"}, gen : Nat,
                       cancel : BOOLEAN]]

\* The rest of the state, but for the tasks and the history.
RestType ==
  /\ generation \in Nat
  /\ marker \in BOOLEAN
  /\ hide \in {"idle", "unlink", "tell", "forget"}
  /\ latch \in {"none", "hard", "when_idle"}
  /\ waits \in [Commands -> SUBSET Tasks] /\ busy \subseteq Commands
  /\ inbox \subseteq [task : Tasks, gen : Nat]
  /\ left \in [resets : Nat, stops : Nat, restarts : Nat]
  /\ conv \in Nat /\ born \in [Tasks -> Nat]
  /\ reported \subseteq [task : Tasks, conv : Nat]
  /\ odd \subseteq {"late", "killed"}

LEMMA TypeParts == TypeOK <=> StoreType /\ task \in TaskType /\ RestType
BY DEF TypeOK, StoreType, TaskType, RestType

LEMMA InitType == Init => TypeOK
<1> SUFFICES ASSUME Init PROVE TypeOK
  OBVIOUS
<1>1. StoreType
  BY DEF Init, StoreType, NoRows, NoFile, Statuses
<1>2. task \in TaskType
  BY DEF Init, TaskType, NoTask
<1>3. RestType
  BY BoundsAssumption DEF Init, RestType, Commands
<1> QED BY <1>1, <1>2, <1>3, TypeParts

\* The steps of the tasks keep the types.
LEMMA TaskStepType ==
  ASSUME TypeOK, NEW t \in Tasks,
         \/ Delegates(t) \/ Starts(t) \/ Stopped(t) \/ Cleanup(t) \/ CancelsOne(t)
         \/ \E status \in Outcomes : Finishes(t, status)
  PROVE  TypeOK'
<1> USE DEF Statuses, TERMINAL
<1>0. StoreType /\ task \in TaskType /\ RestType
  BY TypeParts
<1>1. CASE Delegates(t)
  <2>1. StoreType'
    BY <1>1, PutType, UnchangedType DEF Delegates
  <2>2. task' \in TaskType
    BY <1>0, <1>1 DEF Delegates, TaskType, RestType
  <2>3. RestType'
    BY <1>0, <1>1 DEF Delegates, RestType
  <2> QED BY <2>1, <2>2, <2>3 DEF TypeOK, StoreType, TaskType, RestType
<1>2. CASE Starts(t)
  <2>1. StoreType'
    BY <1>2, PutType, UnchangedType DEF Starts
  <2>2. task' \in TaskType
    BY <1>0, <1>2 DEF Starts, TaskType, RestType
  <2>3. RestType'
    BY <1>0, <1>2 DEF Starts, RestType
  <2> QED BY <2>1, <2>2, <2>3 DEF TypeOK, StoreType, TaskType, RestType
<1>3. CASE Stopped(t)
  <2>1. StoreType'
    BY <1>3, SetStatusType, UnchangedType DEF Stopped
  <2>2. task' \in TaskType
    BY <1>0, <1>3 DEF Stopped, TaskType
  <2>3. RestType'
    BY <1>0, <1>3 DEF Stopped, RestType
  <2> QED BY <2>1, <2>2, <2>3 DEF TypeOK, StoreType, TaskType, RestType
<1>4. CASE Cleanup(t)
  <2>1. StoreType'
    BY <1>4, PutType, UnchangedType DEF Cleanup
  <2>2. task' \in TaskType
    BY <1>0, <1>4 DEF Cleanup, TaskType
  <2>3. RestType'
    BY <1>0, <1>4 DEF Cleanup, RestType
  <2> QED BY <2>1, <2>2, <2>3 DEF TypeOK, StoreType, TaskType, RestType
<1>5. CASE CancelsOne(t)
  <2>1. StoreType'
    BY <1>5, UnchangedType DEF CancelsOne, store
  <2>2. task' \in TaskType
    BY <1>0, <1>5 DEF CancelsOne, TaskType
  <2>3. RestType'
    BY <1>0, <1>5 DEF CancelsOne, RestType
  <2> QED BY <2>1, <2>2, <2>3 DEF TypeOK, StoreType, TaskType, RestType
<1>6. ASSUME NEW status \in Outcomes, Finishes(t, status)
      PROVE  TypeOK'
  <2>1. StoreType'
    BY <1>6, SetStatusType, OutcomesAssumption DEF Finishes
  <2>2. task' \in TaskType
    BY <1>0, <1>6 DEF Finishes, TaskType
  <2>3. RestType'
    BY <1>0, <1>6 DEF Finishes, RestType, TaskType
  <2> QED BY <2>1, <2>2, <2>3 DEF TypeOK, StoreType, TaskType, RestType
<1> QED BY <1>1, <1>2, <1>3, <1>4, <1>5, <1>6

\* The steps of the history keep the types, ...
LEMMA HistoryStepType ==
  ASSUME TypeOK, Replaces \/ Rechecks \/ LooksUp \/ Hides \/ HideUnlinks \/ HideTells
  PROVE  TypeOK'
<1>1. CASE Replaces
  <2>1. /\ rows \in [Tasks -> Statuses]
        /\ file \in [exists : BOOLEAN, rows : [Tasks -> Statuses]]
    BY DEF TypeOK
  <2>2. [exists |-> TRUE, rows |-> rows] \in [exists : BOOLEAN, rows : [Tasks -> Statuses]]
    BY <2>1
  <2>3. file' \in [exists : BOOLEAN, rows : [Tasks -> Statuses]]
    BY <1>1, <2>1, <2>2 DEF Replaces
  <2> QED BY <1>1, <2>3 DEF TypeOK, Replaces
<1>2. CASE Rechecks
  BY <1>2 DEF TypeOK, Rechecks, NoFile, NoRows, Statuses
<1>3. CASE LooksUp
  <2>1. RowsRead \in [Tasks -> Statuses]
    BY DEF TypeOK, RowsRead, NoRows, Statuses, TERMINAL
  <2> HIDE DEF RowsRead
  <2> QED BY <1>3, <2>1 DEF TypeOK, LooksUp
<1>4. CASE Hides
  BY <1>4 DEF TypeOK, Hides
<1>5. CASE HideUnlinks
  BY <1>5 DEF TypeOK, HideUnlinks, NoFile, NoRows, Statuses
<1>6. CASE HideTells
  BY <1>6 DEF TypeOK, HideTells, NoFile, NoRows, Statuses
<1> QED BY <1>1, <1>2, <1>3, <1>4, <1>5, <1>6

\* ... and so do the commands and a restart.
LEMMA CommandStepType ==
  ASSUME TypeOK,
         \/ \E m \in inbox : Delivers(m)
         \/ StopBegins \/ StopEnds \/ IdleStop \/ NewBegins \/ NewEnds
         \/ ForgetBegins \/ ForgetEnds \/ GatewayRestarts
  PROVE  TypeOK'
<1>0. StoreType /\ task \in TaskType /\ RestType
  BY TypeParts
<1>1. ASSUME NEW m \in inbox, Delivers(m)
      PROVE  TypeOK'
  <2>1. StoreType' /\ task' \in TaskType
    BY <1>0, <1>1 DEF Delivers, StoreType
  <2>2. RestType'
    BY <1>0, <1>1 DEF Delivers, RestType
  <2> QED BY <2>1, <2>2 DEF TypeOK, StoreType, TaskType, RestType
<1>2. ASSUME NEW c \in Commands, CancelsSession(c)
      PROVE  /\ task' \in TaskType
             /\ waits' \in [Commands -> SUBSET Tasks] /\ busy' \subseteq Commands
  BY <1>0, <1>2 DEF CancelsSession, TaskType, RestType, Alive
<1>3. Reset => /\ generation' \in Nat /\ conv' \in Nat /\ odd' \subseteq {"late", "killed"}
               /\ rows' = NoRows /\ loaded' = TRUE /\ file' = NoFile
  BY <1>0 DEF Reset, RestType
<1>4. NoRows \in [Tasks -> Statuses] /\ NoFile \in [exists : BOOLEAN, rows : [Tasks -> Statuses]]
  BY DEF NoRows, NoFile, Statuses
<1>5. CASE StopBegins
  <2>1. StoreType'
    BY <1>0, <1>5 DEF StopBegins, StoreType
  <2>2. task' \in TaskType /\ RestType'
    BY <1>0, <1>2, <1>5 DEF StopBegins, RestType, Commands
  <2> QED BY <2>1, <2>2 DEF TypeOK, StoreType, TaskType, RestType
<1>6. CASE StopEnds
  BY <1>6 DEF TypeOK, StopEnds, Commands
<1>7. CASE IdleStop
  BY <1>7 DEF TypeOK, IdleStop
<1>8. CASE NewBegins
  <2>1. StoreType'
    BY <1>0, <1>8 DEF NewBegins, StoreType
  <2>2. task' \in TaskType /\ RestType'
    BY <1>0, <1>2, <1>8 DEF NewBegins, RestType, Commands
  <2> QED BY <2>1, <2>2 DEF TypeOK, StoreType, TaskType, RestType
<1>9. CASE NewEnds
  <2>1. StoreType'
    BY <1>0, <1>3, <1>4, <1>9 DEF NewEnds, StoreType
  <2>2. task' \in TaskType /\ RestType'
    BY <1>0, <1>3, <1>9 DEF NewEnds, RestType, Commands
  <2> QED BY <2>1, <2>2 DEF TypeOK, StoreType, TaskType, RestType
<1>10. CASE ForgetBegins
  <2>1. StoreType'
    BY <1>0, <1>10 DEF ForgetBegins, StoreType
  <2>2. task' \in TaskType /\ RestType'
    BY <1>0, <1>2, <1>10 DEF ForgetBegins, RestType, Commands
  <2> QED BY <2>1, <2>2 DEF TypeOK, StoreType, TaskType, RestType
<1>11. CASE ForgetEnds
  <2>1. StoreType'
    BY <1>0, <1>3, <1>4, <1>11 DEF ForgetEnds, StoreType
  <2>2. task' \in TaskType /\ RestType'
    BY <1>0, <1>3, <1>11 DEF ForgetEnds, RestType, Commands
  <2> QED BY <2>1, <2>2 DEF TypeOK, StoreType, TaskType, RestType
<1>12. CASE GatewayRestarts
  <2>1. StoreType'
    BY <1>0, <1>4, <1>12 DEF GatewayRestarts, StoreType
  <2>2. task' \in TaskType
    BY <1>0, <1>12 DEF GatewayRestarts, TaskType
  <2>3. RestType'
    BY <1>0, <1>12 DEF GatewayRestarts, RestType, Commands
  <2> QED BY <2>1, <2>2, <2>3 DEF TypeOK, StoreType, TaskType, RestType
<1> QED BY <1>1, <1>5, <1>6, <1>7, <1>8, <1>9, <1>10, <1>11, <1>12

LEMMA StepType == TypeOK /\ [Next]_vars => TypeOK'
<1> SUFFICES ASSUME TypeOK, [Next]_vars PROVE TypeOK'
  OBVIOUS
<1>1. CASE UNCHANGED vars
  BY <1>1 DEF TypeOK, vars
<1>2. CASE Next
  BY <1>2, TaskStepType, HistoryStepType, CommandStepType DEF Next
<1> QED BY <1>1, <1>2

\* The tasks, the history, the commands and the bus keep their types (TypeOK),
\* whatever the tasks and however they end.
THEOREM DelegatedType == Spec => []TypeOK
BY InitType, StepType, PTL DEF Spec

-----------------------------------------------------------------------------
(* Running rows.  An MEA loop whose row runs is at work in the present     *)
(* generation: its end settles the row, and a reset empties the history.   *)

RunsWell(t) ==
  rows[t] = "running" =>
    /\ t \in Tracked
    /\ t \in Meas => task[t].pc = "working" /\ task[t].gen = generation

RunInv == TypeOK /\ \A t \in Tasks : RunsWell(t)

\* A put makes no row run but its own.
LEMMA PutRuns ==
  ASSUME TypeOK, NEW t \in Tasks, NEW s \in Statuses, Put(t, s),
         NEW u \in Tasks, rows'[u] = "running"
  PROVE  IF u = t THEN s = "running" ELSE rows[u] = "running"
BY PutFacts, RowsFacts DEF TERMINAL

\* Nor does it touch a row that does not run but to write its own status.
LEMMA SetStatusRuns ==
  ASSUME TypeOK, NEW t \in Tasks, NEW s \in TERMINAL, SetStatus(t, s),
         NEW u \in Tasks, rows'[u] = "running"
  PROVE  rows[u] = "running" /\ (u = t => task[t].gen # generation)
<1>1. s \in Statuses /\ s # "running"
  BY DEF Statuses, TERMINAL
<1>2. CASE task[t].gen = generation
  BY <1>1, <1>2, PutRuns DEF SetStatus
<1>3. CASE task[t].gen # generation
  BY <1>3 DEF SetStatus, store
<1> QED BY <1>2, <1>3

LEMMA RunTaskStep ==
  ASSUME RunInv, NEW t \in Tasks, NEW u \in Tasks, rows'[u] = "running",
         \/ Delegates(t) \/ Starts(t) \/ Stopped(t) \/ Cleanup(t) \/ CancelsOne(t)
         \/ \E status \in Outcomes : Finishes(t, status)
  PROVE  RunsWell(u)'
<1>0. /\ TypeOK /\ RunsWell(u) /\ task \in TaskType /\ Spawned \cap Meas = {}
      /\ "running" \in Statuses
  BY TypeParts, KindsAssumption DEF RunInv, Statuses
<1>1. CASE Delegates(t)
  <2>1. generation' = generation /\ task'[u] = IF u = t THEN task'[t] ELSE task[u]
    BY <1>0, <1>1 DEF Delegates, TaskType
  <2>2. task'[t].pc = "created" /\ task[t].pc = "none"
    BY <1>0, <1>1 DEF Delegates, TaskType
  <2>3. CASE t \in Spawned
    BY <1>0, <1>1, <2>1, <2>2, <2>3, PutRuns DEF Delegates, RunsWell, Tracked
  <2>4. CASE t \notin Spawned
    BY <1>0, <1>1, <2>1, <2>2, <2>4 DEF Delegates, RunsWell, Tracked, store
  <2> QED BY <2>3, <2>4
<1>2. CASE Starts(t)
  <2>1. generation' = generation /\ task'[u] = IF u = t THEN task'[t] ELSE task[u]
    BY <1>0, <1>2 DEF Starts, TaskType
  <2>2. /\ task'[t].pc = "working" /\ task[t].pc = "created"
        /\ t \in Meas => task'[t].gen = generation
    BY <1>0, <1>2 DEF Starts, TaskType
  <2>3. CASE t \in Meas
    BY <1>0, <1>2, <2>1, <2>2, <2>3, PutRuns DEF Starts, RunsWell, Tracked
  <2>4. CASE t \notin Meas
    BY <1>0, <1>2, <2>1, <2>2, <2>4 DEF Starts, RunsWell, Tracked, store
  <2> QED BY <2>3, <2>4
<1>3. CASE Stopped(t)
  <2>1. generation' = generation /\ task'[u] = IF u = t THEN task'[t] ELSE task[u]
    BY <1>0, <1>3 DEF Stopped, TaskType
  <2>2. task'[t].pc = "ended"
    BY <1>0, <1>3 DEF Stopped, TaskType
  <2>3. CASE task[t].pc = "working" /\ SetStatus(t, "cancelled")
    <3>1. rows[u] = "running" /\ (u = t => task[t].gen # generation)
      BY <1>0, <2>3, SetStatusRuns DEF TERMINAL
    <3> QED BY <1>0, <2>1, <2>2, <3>1 DEF RunsWell, Tracked
  <2>4. CASE task[t].pc = "created" /\ UNCHANGED store
    BY <1>0, <2>1, <2>2, <2>4 DEF RunsWell, Tracked, store
  <2> QED BY <1>3, <2>3, <2>4 DEF Stopped
<1>4. CASE Cleanup(t)
  <2>1. generation' = generation /\ task'[u] = IF u = t THEN task'[t] ELSE task[u]
    BY <1>0, <1>4 DEF Cleanup, TaskType
  <2>2. task'[t].pc = "gone" /\ task[t].pc = "ended"
    BY <1>0, <1>4 DEF Cleanup, TaskType
  <2>3. rows[u] = "running" /\ (u = t => t \in Meas)
    <3>1. CASE t \in Spawned /\ rows[t] \notin TERMINAL
      <4>1. PICK s \in {"cancelled", "failed"} : Put(t, s)
        BY <1>4, <3>1 DEF Cleanup
      <4> QED BY <1>0, <4>1, PutRuns DEF Statuses, TERMINAL
    <3>2. CASE ~(t \in Spawned /\ rows[t] \notin TERMINAL)
      BY <1>4, <3>2 DEF Cleanup, store, TERMINAL, Tasks
    <3> QED BY <3>1, <3>2
  <2> QED BY <1>0, <2>1, <2>2, <2>3 DEF RunsWell, Tracked
<1>5. CASE CancelsOne(t)
  BY <1>0, <1>5 DEF CancelsOne, TaskType, RunsWell, Tracked
<1>6. ASSUME NEW s \in Outcomes, Finishes(t, s)
      PROVE  RunsWell(u)'
  <2>1. generation' = generation /\ task'[u] = IF u = t THEN task'[t] ELSE task[u]
    BY <1>0, <1>6 DEF Finishes, TaskType
  <2>2. task'[t].pc = "ended" /\ task[t].pc = "working"
    BY <1>0, <1>6 DEF Finishes, TaskType
  <2>3. rows[u] = "running" /\ (u = t => task[t].gen # generation)
    BY <1>0, <1>6, SetStatusRuns, OutcomesAssumption DEF Finishes, TERMINAL
  <2> QED BY <1>0, <2>1, <2>2, <2>3 DEF RunsWell, Tracked
<1> QED BY <1>1, <1>2, <1>3, <1>4, <1>5, <1>6

LEMMA RunOtherStep ==
  ASSUME RunInv, NEW u \in Tasks, rows'[u] = "running",
         \/ Replaces \/ Rechecks \/ LooksUp
         \/ \E m \in inbox : Delivers(m)
         \/ StopBegins \/ StopEnds \/ IdleStop \/ NewBegins \/ NewEnds
         \/ Hides \/ HideUnlinks \/ HideTells \/ ForgetBegins \/ ForgetEnds
         \/ GatewayRestarts
  PROVE  RunsWell(u)'
<1>0. TypeOK /\ RunsWell(u) /\ task \in TaskType
  BY TypeParts DEF RunInv
<1>1. CASE UNCHANGED <<task, generation, rows>>
  BY <1>0, <1>1 DEF RunsWell, Tracked
<1>2. CASE LooksUp
  BY <1>0, <1>2, RowsFacts DEF LooksUp, Rows, RunsWell, Tracked
<1>3. ASSUME NEW c \in Commands, CancelsSession(c), UNCHANGED <<generation, rows>>
      PROVE  RunsWell(u)'
  BY <1>0, <1>3 DEF CancelsSession, TaskType, RunsWell, Tracked
<1>4. CASE rows' = NoRows
  BY <1>4 DEF NoRows
<1> QED
  BY <1>1, <1>2, <1>3, <1>4
  DEF Replaces, Rechecks, Delivers, StopBegins, StopEnds, IdleStop, NewBegins, NewEnds, Reset,
      Hides, HideUnlinks, HideTells, ForgetBegins, ForgetEnds, GatewayRestarts, Commands

\* A row that says "running" has a task that is still tracked, so that its
\* callback is to come (RunningIsTracked): after any stop, /new, deletion or
\* restart, and for a worker cancelled before its first step.
THEOREM RunningRowsTracked == Spec => []RunningIsTracked
<1>1. Init => RunInv
  BY InitType DEF Init, RunInv, RunsWell, NoRows
<1>2. RunInv /\ [Next]_vars => RunInv'
  <2> SUFFICES ASSUME RunInv, [Next]_vars, NEW u \in Tasks, rows'[u] = "running"
               PROVE  RunsWell(u)'
    BY StepType DEF RunInv, RunsWell
  <2>1. CASE UNCHANGED vars
    BY <2>1 DEF RunInv, RunsWell, Tracked, vars
  <2>2. CASE Next
    BY <2>2, RunTaskStep, RunOtherStep DEF Next
  <2> QED BY <2>1, <2>2
<1>3. RunInv => RunningIsTracked
  BY DEF RunInv, RunsWell, RunningIsTracked
<1> QED BY <1>1, <1>2, <1>3, PTL DEF Spec

-----------------------------------------------------------------------------
(* Private sessions.  Once the WebUI has unlinked the file, only a write   *)
(* that has not been rechecked can have put one back.                      *)

Erased == marker /\ hide # "unlink" /\ "killed" \notin odd /\ write # "recheck" => ~file.exists

PrivateInv == TypeOK /\ Erased

\* A put only asks for a write.
LEMMA StoreKeepsFile ==
  ASSUME TypeOK, NEW t \in Tasks, NEW s \in Statuses,
         Put(t, s) \/ SetStatus(t, s) \/ UNCHANGED store
  PROVE  file' = file /\ write' \in {write, "idle", "replace"}
BY PutFacts DEF SetStatus, store

LEMMA ErasedTaskStep ==
  ASSUME PrivateInv, NEW t \in Tasks,
         \/ Delegates(t) \/ Starts(t) \/ Stopped(t) \/ Cleanup(t) \/ CancelsOne(t)
         \/ \E status \in Outcomes : Finishes(t, status)
  PROVE  Erased'
<1>0. TypeOK /\ Erased /\ {"running", "cancelled", "failed"} \cup Outcomes \subseteq Statuses
  BY OutcomesAssumption DEF PrivateInv, Statuses, TERMINAL
<1>1. /\ file' = file /\ write = "idle" /\ write' \in {"idle", "replace"}
      /\ marker' = marker /\ hide' = hide /\ odd \subseteq odd'
  <2>1. PICK s \in Statuses : Put(t, s) \/ SetStatus(t, s) \/ UNCHANGED store
    BY <1>0 DEF Delegates, Starts, Stopped, Cleanup, CancelsOne, Finishes, store
  <2>2. /\ write = "idle"
        /\ marker' = marker /\ hide' = hide /\ odd \subseteq odd'
    BY DEF Delegates, Starts, Stopped, Cleanup, CancelsOne, Finishes, LoopFree
  <2> QED BY <1>0, <2>1, <2>2, StoreKeepsFile
<1> QED BY <1>0, <1>1 DEF Erased

LEMMA ErasedOtherStep ==
  ASSUME PrivateInv,
         \/ Replaces \/ Rechecks \/ LooksUp
         \/ \E m \in inbox : Delivers(m)
         \/ StopBegins \/ StopEnds \/ IdleStop \/ NewBegins \/ NewEnds
         \/ Hides \/ HideUnlinks \/ HideTells \/ ForgetBegins \/ ForgetEnds
         \/ GatewayRestarts
  PROVE  Erased'
<1>0. TypeOK /\ Erased
  BY DEF PrivateInv
<1>1. CASE UNCHANGED <<file, marker, write, hide, odd>>
  BY <1>0, <1>1 DEF Erased
<1>2. CASE file' = NoFile
  BY <1>2 DEF Erased, NoFile
<1>3. CASE Replaces
  BY <1>0, <1>3 DEF Erased, Replaces
<1>5. CASE Rechecks
  BY <1>0, <1>5 DEF Erased, Rechecks, NoFile
<1>4. CASE Hides \/ ForgetBegins \/ GatewayRestarts
  BY <1>0, <1>4 DEF Erased, Hides, ForgetBegins, GatewayRestarts
<1> QED
  BY <1>1, <1>2, <1>3, <1>4, <1>5
  DEF LooksUp, Delivers, StopBegins, StopEnds, IdleStop, NewBegins, NewEnds, Reset,
      HideUnlinks, HideTells, ForgetEnds

\* The WebUI deletes the history of a session it makes private while the gateway
\* may be writing it; the file is gone in the end (PrivateLeavesNoFile), because
\* every write looks at the marker once more.
THEOREM PrivateHistoryErased == Spec => []PrivateLeavesNoFile
<1>1. Init => PrivateInv
  BY InitType DEF Init, PrivateInv, Erased
<1>2. PrivateInv /\ [Next]_vars => PrivateInv'
  <2> SUFFICES ASSUME PrivateInv, [Next]_vars PROVE Erased'
    BY StepType DEF PrivateInv
  <2>1. CASE UNCHANGED vars
    BY <2>1 DEF PrivateInv, Erased, vars
  <2>2. CASE Next
    BY <2>2, ErasedTaskStep, ErasedOtherStep DEF Next
  <2> QED BY <2>1, <2>2
<1>3. PrivateInv => PrivateLeavesNoFile
  BY DEF PrivateInv, Erased, PrivateLeavesNoFile
<1> QED BY <1>1, <1>2, <1>3, PTL DEF Spec

-----------------------------------------------------------------------------
(* Conversations.  A task that is tracked, or has a row in memory or in    *)
(* the file, is of the present conversation; a reset waits for whatever    *)
(* was alive; and no generation is ahead of the present one.               *)

Known(t) == rows[t] # "absent" \/ file.rows[t] # "absent" \/ t \in Tracked

UnstartedIsUnknown ==
  \A t \in Tasks : task[t].pc = "none" =>
    /\ ~Known(t)
    /\ \A m \in inbox : m.task # t
    /\ \A r \in reported : r.task # t

NoGenerationAhead ==
  /\ \A t \in Tracked : task[t].gen <= generation
  /\ \A m \in inbox : m.gen <= generation

OfThisConversation ==
  "late" \notin odd =>
    /\ \A t \in Tasks : Known(t) => born[t] = conv
    /\ \A m \in inbox : m.gen = generation => born[m.task] = conv
    /\ \A r \in reported : born[r.task] = r.conv

ResetsWait ==
  "late" \notin odd =>
    \A c \in busy \cap {"new", "forget"} : \A t \in Tasks : Alive(t) => t \in waits[c]

SinceInv ==
  TypeOK /\ UnstartedIsUnknown /\ NoGenerationAhead /\ OfThisConversation /\ ResetsWait

\* A step that neither delegates a task nor resets the session nor ends the
\* gateway: nothing it makes known, announces or reports is new.
Quiet ==
  /\ generation' = generation /\ conv' = conv /\ born' = born /\ odd \subseteq odd'
  /\ \A t \in Tasks :
       /\ task'[t].pc = "none" <=> task[t].pc = "none"
       /\ Known(t)' => Known(t)
       /\ t \in Tracked' => t \in Tracked /\ task'[t].gen \in {task[t].gen, generation}
  /\ \A m \in inbox' : m \in inbox \/ (m.task \in Tracked /\ m.gen = task[m.task].gen)
  /\ \A r \in reported' :
       r \in reported \/ \E m \in inbox : m.gen = generation /\ r = [task |-> m.task, conv |-> conv]
  /\ \A c \in busy' \cap {"new", "forget"} : \A t \in Tasks :
       Alive(t)' => t \in waits'[c] \/ (c \in busy /\ Alive(t) /\ waits'[c] = waits[c])

LEMMA QuietKeeps ==
  ASSUME SinceInv, TypeOK', Quiet
  PROVE  SinceInv'
<1>0. /\ TypeOK /\ UnstartedIsUnknown /\ NoGenerationAhead /\ OfThisConversation /\ ResetsWait
      /\ generation \in Nat /\ task \in TaskType
      /\ inbox \subseteq [task : Tasks, gen : Nat]
  BY DEF SinceInv, TypeOK, TaskType
<1>1. UnstartedIsUnknown'
  BY <1>0 DEF UnstartedIsUnknown, Quiet, Tracked
<1>2. NoGenerationAhead'
  BY <1>0 DEF NoGenerationAhead, Quiet, Tracked, TaskType
<1>3. OfThisConversation'
  <2> SUFFICES ASSUME "late" \notin odd'
               PROVE  /\ \A t \in Tasks : Known(t)' => born'[t] = conv'
                      /\ \A m \in inbox' : m.gen = generation' => born'[m.task] = conv'
                      /\ \A r \in reported' : born'[r.task] = r.conv
    BY DEF OfThisConversation
  <2>1. \A t \in Tasks : Known(t)' => born'[t] = conv'
    BY <1>0 DEF OfThisConversation, Quiet
  <2>2. \A m \in inbox' : m.gen = generation' => born'[m.task] = conv'
    BY <1>0 DEF OfThisConversation, Quiet, Known, Tracked
  <2>3. \A r \in reported' : born'[r.task] = r.conv
    BY <1>0 DEF OfThisConversation, Quiet
  <2> QED BY <2>1, <2>2, <2>3
<1>4. ResetsWait'
  BY <1>0 DEF ResetsWait, Quiet
<1> QED BY <1>1, <1>2, <1>3, <1>4 DEF SinceInv

\* What is put, or left alone, makes no row appear but that of a tracked task.
LEMMA StoreKnows ==
  ASSUME TypeOK, TypeOK', NEW t \in Tracked, NEW s \in Statuses, NEW u \in Tasks,
         Put(t, s) \/ SetStatus(t, s) \/ UNCHANGED store,
         u \in Tracked' => u \in Tracked
  PROVE  Known(u)' => Known(u)
<1>0. t \in Tasks
  BY DEF Tracked
<1>1. CASE Put(t, s)
  BY <1>0, <1>1, PutFacts, RowsFacts DEF Known
<1>2. CASE UNCHANGED store
  BY <1>2 DEF Known, store
<1> QED BY <1>0, <1>1, <1>2 DEF SetStatus

\* The steps of a task that has been delegated are quiet.
LEMMA TaskStepQuiet ==
  ASSUME SinceInv, TypeOK', NEW t \in Tasks,
         \/ Starts(t) \/ Stopped(t) \/ Cleanup(t) \/ CancelsOne(t)
         \/ \E status \in Outcomes : Finishes(t, status)
  PROVE  Quiet
<1>0. /\ TypeOK /\ task \in TaskType
      /\ {"running", "cancelled", "failed"} \cup Outcomes \subseteq Statuses
  BY OutcomesAssumption DEF SinceInv, Statuses, TERMINAL, TypeOK, TaskType
<1>1. t \in Tracked
  BY DEF Starts, Stopped, Cleanup, CancelsOne, Finishes, Tracked, Alive
<1>2. \A u \in Tasks :
        /\ task'[u].pc = "none" <=> task[u].pc = "none"
        /\ u \in Tracked' => u \in Tracked /\ task'[u].gen \in {task[u].gen, generation}
        /\ Alive(u)' => Alive(u)
  <2>1. CASE Starts(t)
    BY <1>0, <2>1 DEF Starts, TaskType, Tracked, Alive
  <2>2. CASE Stopped(t)
    BY <1>0, <2>2 DEF Stopped, TaskType, Tracked, Alive
  <2>3. CASE Cleanup(t)
    BY <1>0, <2>3 DEF Cleanup, TaskType, Tracked, Alive
  <2>4. CASE CancelsOne(t)
    BY <1>0, <2>4 DEF CancelsOne, TaskType, Tracked, Alive
  <2>5. ASSUME NEW s \in Outcomes, Finishes(t, s)
        PROVE  \A u \in Tasks :
                 /\ task'[u].pc = "none" <=> task[u].pc = "none"
                 /\ u \in Tracked' => u \in Tracked /\ task'[u].gen \in {task[u].gen, generation}
                 /\ Alive(u)' => Alive(u)
    BY <1>0, <2>5 DEF Finishes, TaskType, Tracked, Alive
  <2> QED BY <2>1, <2>2, <2>3, <2>4, <2>5
<1>3. \A u \in Tasks : Known(u)' => Known(u)
  <2>1. PICK s \in Statuses : Put(t, s) \/ SetStatus(t, s) \/ UNCHANGED store
    BY <1>0 DEF Starts, Stopped, Cleanup, CancelsOne, Finishes, store
  <2> QED BY <1>0, <1>1, <1>2, <2>1, StoreKnows
<1>4. \A m \in inbox' : m \in inbox \/ (m.task \in Tracked /\ m.gen = task[m.task].gen)
  BY <1>1 DEF Starts, Stopped, Cleanup, CancelsOne, Finishes
<1>5. UNCHANGED <<generation, conv, born, odd, busy, waits, reported>>
  BY DEF Starts, Stopped, Cleanup, CancelsOne, Finishes
<1> QED BY <1>2, <1>3, <1>4, <1>5 DEF Quiet

\* So are those of the history, the bus and the commands that reset nothing.
LEMMA OtherStepQuiet ==
  ASSUME SinceInv, TypeOK',
         \/ Replaces \/ Rechecks \/ LooksUp
         \/ \E m \in inbox : Delivers(m)
         \/ StopBegins \/ StopEnds \/ IdleStop \/ NewBegins
         \/ Hides \/ HideUnlinks \/ HideTells \/ ForgetBegins
  PROVE  Quiet
<1>0. TypeOK /\ task \in TaskType
  BY DEF SinceInv, TypeOK, TaskType
<1>1. CASE Replaces
  BY <1>1 DEF Replaces, Quiet, Known, Tracked, Alive
<1>2. CASE Rechecks
  BY <1>2 DEF Rechecks, Quiet, Known, Tracked, Alive, NoFile, NoRows
<1>3. CASE LooksUp
  BY <1>0, <1>3, RowsFacts DEF LooksUp, Rows, Quiet, Known, Tracked, Alive
<1>4. ASSUME NEW m \in inbox, Delivers(m)
      PROVE  Quiet
  BY <1>4 DEF Delivers, Quiet, Known, Tracked, Alive
<1>5. ASSUME NEW c \in Commands, CancelsSession(c),
             UNCHANGED <<generation, conv, born, odd, rows, file, inbox, reported>>
      PROVE  Quiet
  <2>1. \A t \in Tasks :
          /\ task'[t].pc = task[t].pc /\ task'[t].gen = task[t].gen
          /\ t \in Tracked' <=> t \in Tracked
          /\ Alive(t)' <=> Alive(t)
    BY <1>0, <1>5 DEF CancelsSession, TaskType, Tracked, Alive
  <2>2. \A d \in busy' \cap {"new", "forget"} : \A t \in Tasks :
          Alive(t)' => t \in waits'[d] \/ (d \in busy /\ Alive(t) /\ waits'[d] = waits[d])
    BY <1>0, <1>5, <2>1 DEF CancelsSession, TypeOK, Commands
  <2> QED BY <1>5, <2>1, <2>2 DEF Quiet, Known
<1>6. CASE StopBegins \/ NewBegins \/ ForgetBegins
  BY <1>5, <1>6 DEF StopBegins, NewBegins, ForgetBegins, Commands
<1>7. CASE StopEnds
  BY <1>0, <1>7 DEF StopEnds, Quiet, Known, Tracked, Alive, TypeOK, Commands
<1>8. CASE IdleStop \/ Hides
  BY <1>8 DEF IdleStop, Hides, Quiet, Known, Tracked, Alive
<1>9. CASE HideUnlinks \/ HideTells
  BY <1>9 DEF HideUnlinks, HideTells, Quiet, Known, Tracked, Alive, NoFile, NoRows
<1> QED BY <1>1, <1>2, <1>3, <1>4, <1>6, <1>7, <1>8, <1>9

\* A task that is delegated belongs to the conversation; nothing is known of it.
LEMMA DelegatesKeeps ==
  ASSUME SinceInv, TypeOK', NEW t \in Tasks, Delegates(t)
  PROVE  SinceInv'
<1>0. /\ TypeOK /\ UnstartedIsUnknown /\ NoGenerationAhead /\ OfThisConversation /\ ResetsWait
      /\ generation \in Nat /\ task \in TaskType /\ born \in [Tasks -> Nat]
      /\ inbox \subseteq [task : Tasks, gen : Nat] /\ reported \subseteq [task : Tasks, conv : Nat]
  BY DEF SinceInv, TypeOK, TaskType
<1>a. file' = file
  BY <1>0, PutFacts DEF Delegates, store, Statuses
<1>1. /\ UNCHANGED <<generation, inbox, reported, conv, busy, waits, file>>
      /\ odd \subseteq odd' /\ "new" \notin busy /\ ("forget" \in busy => "late" \in odd')
      /\ task[t].pc = "none" /\ t \in Tracked' /\ task'[t].gen = generation
      /\ task'[t].pc # "none" /\ born'[t] = conv
  BY <1>0, <1>a DEF Delegates, TaskType, Tracked
<1>2. \A u \in Tasks \ {t} : task'[u] = task[u] /\ born'[u] = born[u] /\ (Known(u)' => Known(u))
  <2>1. \A u \in Tasks \ {t} : task'[u] = task[u] /\ born'[u] = born[u]
    BY <1>0 DEF Delegates, TaskType
  <2>2. \A u \in Tasks \ {t} : rows'[u] \in {rows[u], Rows[u]}
    BY <1>0, PutFacts DEF Delegates, store, Statuses
  <2> QED BY <1>0, <1>1, <2>1, <2>2, RowsFacts DEF Known, Tracked
<1>3. (\A m \in inbox : m.task # t) /\ (\A r \in reported : r.task # t)
  BY <1>0, <1>1 DEF UnstartedIsUnknown
<1>4. UnstartedIsUnknown'
  BY <1>0, <1>1, <1>2 DEF UnstartedIsUnknown, Known, Tracked
<1>5. NoGenerationAhead'
  BY <1>0, <1>1, <1>2 DEF NoGenerationAhead, Tracked
<1>6. OfThisConversation'
  BY <1>0, <1>1, <1>2, <1>3 DEF OfThisConversation
<1>7. ResetsWait'
  BY <1>0, <1>1 DEF ResetsWait
<1> QED BY <1>4, <1>5, <1>6, <1>7 DEF SinceInv

\* A reset, once what it waited for is over, finds nothing alive.
LEMMA ResetKeeps ==
  ASSUME SinceInv, TypeOK', NEW c \in {"new", "forget"},
         Waited(c), Reset, busy' = busy \ {c}, UNCHANGED <<task, inbox, born, reported>>
  PROVE  SinceInv'
<1>0. /\ TypeOK /\ UnstartedIsUnknown /\ NoGenerationAhead /\ OfThisConversation /\ ResetsWait
      /\ generation \in Nat /\ task \in TaskType
      /\ inbox \subseteq [task : Tasks, gen : Nat] /\ generation' = generation + 1
  BY DEF SinceInv, TypeOK, TaskType, Reset
<1>1. \A t \in Tasks : (t \in Tracked' <=> t \in Tracked) /\ (Known(t)' <=> t \in Tracked)
  BY DEF Known, Tracked, Reset, NoRows, NoFile
<1>2. ASSUME "late" \notin odd'
      PROVE  "late" \notin odd /\ Tracked = {}
  <2>1. "late" \notin odd /\ \A t \in Tasks : task[t].pc # "ended"
    BY <1>2 DEF Reset
  <2>2. \A t \in Tasks : ~Alive(t)
    BY <1>0, <2>1 DEF ResetsWait, Waited, Alive
  <2> QED BY <2>1, <2>2 DEF Tracked, Alive
<1>3. UnstartedIsUnknown'
  BY <1>0, <1>1 DEF UnstartedIsUnknown, Tracked
<1>4. NoGenerationAhead'
  BY <1>0 DEF NoGenerationAhead, Tracked, TaskType
<1>5. OfThisConversation'
  <2>1. \A m \in inbox : m.gen # generation'
    BY <1>0 DEF NoGenerationAhead
  <2> QED BY <1>0, <1>1, <1>2, <2>1 DEF OfThisConversation
<1>6. ResetsWait'
  BY <1>0, <1>2 DEF ResetsWait, Alive, Tracked
<1> QED BY <1>3, <1>4, <1>5, <1>6 DEF SinceInv

\* After a restart only the file is known.
LEMMA RestartKeeps ==
  ASSUME SinceInv, TypeOK', GatewayRestarts
  PROVE  SinceInv'
<1>0. /\ TypeOK /\ UnstartedIsUnknown /\ OfThisConversation /\ task \in TaskType
  BY DEF SinceInv, TypeOK, TaskType
<1>1. /\ UNCHANGED <<conv, born, reported, file>> /\ inbox' = {} /\ busy' = {} /\ odd \subseteq odd'
      /\ rows' = NoRows
  BY DEF GatewayRestarts
<1>2. \A t \in Tasks : (task'[t].pc = "none" <=> task[t].pc = "none") /\ t \notin Tracked'
  BY <1>0 DEF GatewayRestarts, TaskType, Tracked
<1>3. \A t \in Tasks : Known(t)' => Known(t)
  BY <1>1, <1>2 DEF Known, NoRows
<1>4. UnstartedIsUnknown'
  BY <1>0, <1>1, <1>2, <1>3 DEF UnstartedIsUnknown
<1>5. NoGenerationAhead'
  BY <1>1, <1>2 DEF NoGenerationAhead, Tracked
<1>6. OfThisConversation'
  BY <1>0, <1>1, <1>3 DEF OfThisConversation
<1>7. ResetsWait'
  BY <1>1 DEF ResetsWait
<1> QED BY <1>4, <1>5, <1>6, <1>7 DEF SinceInv

LEMMA SinceStep == SinceInv /\ [Next]_vars => SinceInv'
<1> SUFFICES ASSUME SinceInv, [Next]_vars PROVE SinceInv'
  OBVIOUS
<1>0. TypeOK'
  BY StepType DEF SinceInv
<1>1. CASE UNCHANGED vars
  BY <1>1 DEF SinceInv, TypeOK, UnstartedIsUnknown, NoGenerationAhead, OfThisConversation,
              ResetsWait, Known, Tracked, Alive, vars
<1>2. ASSUME NEW t \in Tasks, Delegates(t)
      PROVE  SinceInv'
  BY <1>0, <1>2, DelegatesKeeps
<1>3. ASSUME NEW t \in Tasks,
             \/ Starts(t) \/ Stopped(t) \/ Cleanup(t) \/ CancelsOne(t)
             \/ \E status \in Outcomes : Finishes(t, status)
      PROVE  SinceInv'
  BY <1>0, <1>3, TaskStepQuiet, QuietKeeps
<1>4. CASE \/ Replaces \/ Rechecks \/ LooksUp
           \/ \E m \in inbox : Delivers(m)
           \/ StopBegins \/ StopEnds \/ IdleStop \/ NewBegins
           \/ Hides \/ HideUnlinks \/ HideTells \/ ForgetBegins
  BY <1>0, <1>4, OtherStepQuiet, QuietKeeps
<1>5. CASE NewEnds
  BY <1>0, <1>5, ResetKeeps DEF NewEnds
<1>6. CASE ForgetEnds
  BY <1>0, <1>6, ResetKeeps DEF ForgetEnds
<1>7. CASE GatewayRestarts
  BY <1>0, <1>7, RestartKeeps
<1> QED BY <1>1, <1>2, <1>3, <1>4, <1>5, <1>6, <1>7 DEF Next

\* A conversation shows no row of a task of an earlier one and hears none of
\* their results (NothingFromBefore), through any number of stops, resets and
\* restarts, unless a reset left a task behind it.
THEOREM ConversationsApart == Spec => []NothingFromBefore
<1>1. Init => SinceInv
  <2> SUFFICES ASSUME Init PROVE SinceInv
    OBVIOUS
  <2>1. \A t \in Tasks : ~Known(t) /\ task[t].pc = "none"
    BY DEF Init, Known, Tracked, NoRows, NoFile, NoTask
  <2>2. inbox = {} /\ reported = {} /\ busy = {} /\ Tracked = {}
    BY <2>1 DEF Init, Tracked
  <2> QED BY <2>1, <2>2, InitType
          DEF SinceInv, UnstartedIsUnknown, NoGenerationAhead, OfThisConversation, ResetsWait
<1>2. SinceInv => NothingFromBefore
  BY DEF SinceInv, OfThisConversation, NothingFromBefore, Known
<1> QED BY <1>1, <1>2, SinceStep, PTL DEF Spec

-----------------------------------------------------------------------------
(* Least and greatest numbers, and parts of a list                         *)

LEMMA Least ==
  ASSUME NEW S \in SUBSET Nat, S # {}
  PROVE  \E m \in S : \A k \in S : m <= k
<1> DEFINE Less == {ss \in Nat \X Nat : ss[1] < ss[2]}
<1>1. IsWellFoundedOn(Less, Nat)
  BY NatLessThanWellFounded DEF OpToRel
<1>2. PICK m \in S : \A k \in S : ~(<<k, m>> \in Less)
  <2> HIDE DEF Less
  <2> QED BY <1>1, WFMin
<1>3. ASSUME NEW k \in S PROVE m <= k
  <2>1. k \in Nat /\ m \in Nat
    OBVIOUS
  <2>2. k < m => <<k, m>> \in Less
    BY <2>1
  <2> HIDE DEF Less
  <2> QED BY <1>2, <2>1, <2>2
<1> QED BY <1>3

LEMMA Greatest ==
  ASSUME NEW n \in Nat, NEW S \in SUBSET (1..n), S # {}
  PROVE  \E m \in S : \A k \in S : k <= m
<1> DEFINE T == {i \in Nat : n - i \in S}
<1>1. T \in SUBSET Nat /\ T # {}
  <2>1. PICK k \in S : TRUE
    OBVIOUS
  <2>2. n - k \in Nat /\ n - (n - k) = k
    OBVIOUS
  <2> QED BY <2>1, <2>2
<1>2. PICK i \in T : \A j \in T : i <= j
  BY <1>1, Least
<1>3. ASSUME NEW k \in S PROVE k <= n - i
  <2>1. k \in 1..n /\ n - k \in Nat /\ n - (n - k) = k
    OBVIOUS
  <2>2. n - k \in T
    BY <2>1
  <2>3. i <= n - k /\ i \in Nat
    BY <1>1, <1>2, <2>2
  <2> HIDE DEF T
  <2> QED BY <2>1, <2>3
<1>4. n - i \in S
  BY <1>2
<1> QED BY <1>3, <1>4

\* A list without its first n messages.
Behind(list, n) == SubSeq(list, n + 1, Len(list))

LEMMA BehindIs ==
  ASSUME NEW S, NEW list \in Seq(S), NEW n \in 0..Len(list)
  PROVE  /\ Behind(list, n) \in Seq(S) /\ Len(Behind(list, n)) = Len(list) - n
         /\ \A i \in 1 .. Len(list) - n : Behind(list, n)[i] = list[n + i]
<1>1. \A i \in n + 1 .. Len(list) : list[i] \in S
  OBVIOUS
<1>2. n + 1 \in Int /\ Len(list) \in Int
  OBVIOUS
<1>3. /\ Behind(list, n) \in Seq(S)
      /\ Len(Behind(list, n)) = IF n + 1 <= Len(list) THEN Len(list) - (n + 1) + 1 ELSE 0
      /\ \A i \in 1 .. Len(list) - (n + 1) + 1 : Behind(list, n)[i] = list[n + 1 + i - 1]
  BY <1>1, <1>2, SubSeqProperties DEF Behind
<1>4. Len(Behind(list, n)) = Len(list) - n
  BY <1>3
<1>5. ASSUME NEW i \in 1 .. Len(list) - n PROVE Behind(list, n)[i] = list[n + i]
  <2>1. i \in 1 .. Len(list) - (n + 1) + 1 /\ n + 1 + i - 1 = n + i
    OBVIOUS
  <2> QED BY <1>3, <2>1
<1> QED BY <1>3, <1>4, <1>5

LEMMA BehindBehind ==
  ASSUME NEW S, NEW list \in Seq(S), NEW n \in 0..Len(list), NEW k \in 0 .. Len(list) - n
  PROVE  n + k \in 0..Len(list) /\ Behind(Behind(list, n), k) = Behind(list, n + k)
<1> DEFINE p == Behind(list, n)
<1>1. /\ p \in Seq(S) /\ Len(p) = Len(list) - n
      /\ \A i \in 1 .. Len(list) - n : p[i] = list[n + i]
  BY BehindIs
<1>2. n + k \in 0..Len(list) /\ k \in 0..Len(p)
  BY <1>1
<1>3. /\ Behind(list, n + k) \in Seq(S) /\ Len(Behind(list, n + k)) = Len(list) - (n + k)
      /\ \A i \in 1 .. Len(list) - (n + k) : Behind(list, n + k)[i] = list[n + k + i]
  BY <1>2, BehindIs
<1>4. /\ Behind(p, k) \in Seq(S) /\ Len(Behind(p, k)) = Len(p) - k
      /\ \A i \in 1 .. Len(p) - k : Behind(p, k)[i] = p[k + i]
  <2> HIDE DEF p
  <2> QED BY <1>1, <1>2, BehindIs
<1>5. Len(Behind(p, k)) = Len(Behind(list, n + k))
  <2> HIDE DEF p
  <2>1. Len(list) \in Nat /\ n \in Nat /\ k \in Nat
    BY LenProperties
  <2>2. Len(p) - k = Len(list) - (n + k)
    BY <1>1, <2>1
  <2>3. Len(Behind(p, k)) = Len(p) - k /\ Len(Behind(list, n + k)) = Len(list) - (n + k)
    BY <1>3, <1>4
  <2> QED BY <2>2, <2>3, Zenon
<1>6. ASSUME NEW i \in 1 .. Len(Behind(p, k)) PROVE Behind(p, k)[i] = Behind(list, n + k)[i]
  <2>1. i \in 1 .. Len(p) - k /\ i \in 1 .. Len(list) - (n + k) /\ k + i \in 1 .. Len(list) - n
    <3> HIDE DEF p
    <3> QED BY <1>1, <1>4
  <2>2. Behind(p, k)[i] = p[k + i] /\ p[k + i] = list[n + (k + i)]
    BY <1>1, <1>4, <2>1
  <2>3. n + (k + i) = n + k + i
    BY <2>1
  <2> QED BY <1>3, <2>1, <2>2, <2>3
<1>7. Behind(p, k) = Behind(list, n + k)
  <2> HIDE DEF p
  <2> QED BY <1>3, <1>4, <1>5, <1>6, SeqEqual
<1> QED BY <1>2, <1>7

LEMMA LegalPartIs ==
  ASSUME NEW list \in Lists
  PROVE  \E n \in 0..Len(list) : LegalPart(list) = Behind(list, n)
<1> DEFINE legal(n) == \A i \in n + 1 .. Len(list) :
             list[i].role = "tool" => \E j \in n + 1 .. i - 1 : list[i].id \in list[j].calls
           good(n) == legal(n) /\ \A k \in 0 .. n - 1 : ~legal(k)
           starts == {n \in 0..Len(list) : legal(n)}
<1>1. Len(list) \in Nat
  BY DEF Lists
<1>2. legal(Len(list))
  BY <1>1
<1>3. starts \in SUBSET Nat /\ Len(list) \in starts
  BY <1>1, <1>2
<1>4. PICK n \in starts : \A k \in starts : n <= k
  <2> HIDE DEF starts
  <2> QED BY <1>3, Least
<1>5. n \in 0..Len(list) /\ legal(n)
  BY <1>4
<1>6. ASSUME NEW k \in 0 .. n - 1 PROVE ~legal(k)
  <2>1. k \in 0..Len(list) /\ k < n
    BY <1>1, <1>5
  <2>2. legal(k) => k \in starts
    BY <2>1
  <2> HIDE DEF legal, starts
  <2> QED BY <1>4, <1>5, <2>1, <2>2
<1> DEFINE start == CHOOSE m \in 0..Len(list) : good(m)
<1>7. good(n)
  <2> HIDE DEF legal
  <2> QED BY <1>5, <1>6
<1>8. start \in 0..Len(list)
  <2> HIDE DEF good
  <2> QED BY <1>5, <1>7
<1>9. LegalPart(list) = Behind(list, start)
  BY DEF LegalPart, Behind
<1> QED BY <1>8, <1>9

LEMMA HistoryIs ==
  ASSUME NEW list \in Lists, NEW from \in 0..Len(list)
  PROVE  \E n \in 0..Len(list) : History(list, from) = Behind(list, n)
<1> DEFINE tail == Behind(list, from)
           starts == {i \in DOMAIN tail : tail[i].role = "user"}
           first == CHOOSE i \in starts : \A j \in starts : i <= j
           part == IF starts = {} THEN tail ELSE Behind(tail, first - 1)
<1>1. tail \in Lists /\ Len(tail) = Len(list) - from /\ Len(list) \in Nat
  BY BehindIs DEF Lists
<1>2. \E k \in 0 .. Len(list) - from : part = Behind(list, from + k)
  <2>1. CASE starts = {}
    BY <2>1, <1>1
  <2>2. CASE starts # {}
    <3>1. starts \in SUBSET Nat /\ starts \subseteq 1..Len(tail)
      BY <1>1 DEF Lists
    <3>2. \E i \in starts : \A j \in starts : i <= j
      <4> HIDE DEF starts
      <4> QED BY <2>2, <3>1, Least
    <3>3. first \in starts
      <4> HIDE DEF starts
      <4> QED BY <3>2
    <3>4. first - 1 \in 0 .. Len(list) - from
      <4> HIDE DEF starts, first
      <4> QED BY <1>1, <3>1, <3>3
    <3>5. part = Behind(tail, first - 1)
      BY <2>2
    <3>6. Behind(tail, first - 1) = Behind(list, from + (first - 1))
      <4> HIDE DEF first
      <4> QED BY <3>4, BehindBehind DEF Lists
    <3> HIDE DEF first, part, tail
    <3> QED BY <3>4, <3>5, <3>6
  <2> QED BY <2>1, <2>2
<1>3. History(list, from) = LegalPart(part)
  <2>1. starts # {} => Behind(tail, first - 1) = SubSeq(tail, first, Len(tail))
    <3>1. first \in Int => first - 1 + 1 = first
      <4> HIDE DEF first
      <4> QED OBVIOUS
    <3>2. starts # {} => first \in Int
      <4>1. starts \in SUBSET Nat
        BY <1>1 DEF Lists
      <4>2. starts # {} => \E i \in starts : \A j \in starts : i <= j
        <5> HIDE DEF starts
        <5> QED BY <4>1, Least
      <4>3. starts # {} => first \in starts
        <5> HIDE DEF starts
        <5> QED BY <4>2
      <4>4. starts # {} => first \in Nat
        <5> HIDE DEF starts, first
        <5> QED BY <4>1, <4>3
      <4> HIDE DEF starts, first
      <4> QED BY <4>4
    <3> HIDE DEF first, starts, tail
    <3> QED BY <3>1, <3>2 DEF Behind
  <2>2. tail = SubSeq(list, from + 1, Len(list))
    BY DEF Behind
  <2>3. History(list, from) =
          LegalPart(IF starts = {} THEN tail ELSE SubSeq(tail, first, Len(tail)))
    BY <2>2 DEF History
  <2> HIDE DEF first, starts, tail
  <2> QED BY <2>1, <2>3
<1>4. PICK k \in 0 .. Len(list) - from : part = Behind(list, from + k)
  BY <1>2
<1>5. from + k \in 0..Len(list)
  BY <1>1
<1>6. part \in Lists /\ Len(part) = Len(list) - (from + k)
  <2> HIDE DEF part
  <2> QED BY <1>4, <1>5, BehindIs DEF Lists
<1>7. PICK n \in 0..Len(part) : LegalPart(part) = Behind(part, n)
  <2> HIDE DEF part
  <2> QED BY <1>6, LegalPartIs
<1>8. Behind(part, n) = Behind(list, from + k + n) /\ from + k + n \in 0..Len(list)
  <2> HIDE DEF part
  <2>1. n \in 0 .. Len(list) - (from + k)
    BY <1>6
  <2> QED BY <1>4, <1>5, <2>1, BehindBehind DEF Lists
<1> QED BY <1>3, <1>7, <1>8

LEMMA ResumedIs ==
  ASSUME NEW saved, NEW initial \in Lists
  PROVE  \/ Resumed(saved, initial) = saved
         \/ \E i \in DOMAIN initial :
              initial[i].role = "user" /\ Resumed(saved, initial) = Append(saved, initial[i])
<1> DEFINE mine == {i \in DOMAIN initial : initial[i].role = "user"}
           last == CHOOSE i \in mine : \A j \in mine : j <= i
<1>1. mine # {} => last \in mine
  <2>1. Len(initial) \in Nat /\ mine \in SUBSET (1..Len(initial))
    BY DEF Lists
  <2>2. mine # {} => \E i \in mine : \A j \in mine : j <= i
    <3> HIDE DEF mine
    <3> QED BY <2>1, Greatest
  <2> HIDE DEF mine
  <2> QED BY <2>2
<1>2. Resumed(saved, initial) = IF mine = {} \/ Last(saved) = initial[last]
                                THEN saved ELSE Append(saved, initial[last])
  BY DEF Resumed
<1>3. mine # {} => last \in DOMAIN initial /\ initial[last].role = "user"
  BY <1>1
<1> HIDE DEF mine, last
<1> QED BY <1>2, <1>3
-----------------------------------------------------------------------------
(* The messages there are, and their numbers                               *)

\* Every message that may yet come before the model.
Said == ToSet(transcript) \cup ToSet(disk) \cup ToSet(checkpoint) \cup ToSet(messages)
          \cup ToSet(steering.msgs)

\* The model's messages and reports are numbered as they come, and so are calls.
Counted(m) ==
  /\ m.role = "assistant" => m.id \in 0 - troubles .. made
  /\ m.role = "tool" => m.id <= 10 * made + 9

AllCounted ==
  /\ \A m \in Said : Counted(m)
  /\ \A k \in DOMAIN batch : batch[k] <= 10 * made + 9
  /\ turn.made <= made /\ (at = "starting" => turn.made = made)
  /\ \A i \in DOMAIN steering.msgs : steering.msgs[i].role = "user"
  /\ at = "idle" => messages = <<>>

-----------------------------------------------------------------------------
(* The calls of the turn                                                   *)

\* Call c of message i has its result behind it.
HasResult(list, i, c) ==
  \E j \in i + 1 .. Len(list) :
    list[j] = Result(c) /\ \A k \in i + 1 .. j : list[k].role = "tool"

\* ... or is still to be answered, and nothing else has been said since.
IsDue(list, i, c) ==
  at = "tools" /\ c \in ToSet(batch) /\ \A k \in i + 1 .. Len(list) : list[k].role = "tool"

CallsAnswered ==
  at \in {"loop", "asking", "tools", "saving"} =>
    \A i \in DOMAIN messages :
      messages[i].role = "assistant" /\ messages[i].id > turn.made =>
        \A c \in messages[i].calls : HasResult(messages, i, c) \/ IsDue(messages, i, c)

-----------------------------------------------------------------------------
(* What has been said since the last /new                                  *)

IsSince(m) ==
  /\ m.role = "user" /\ m.id > 0 => m.id > past.users
  /\ m.role = "assistant" /\ m.id > 0 => m.id > past.made

AllSince ==
  /\ past.users <= users /\ past.made <= made
  /\ ~past.overlapped =>
       /\ \A m \in Said : IsSince(m)
       /\ again = 0 \/ again > past.users
       /\ at # "idle" => turn.user = 0 \/ turn.user > past.users
       /\ clearing => at = "idle" /\ again = 0

-----------------------------------------------------------------------------
(* What a turn has said that the session does not have                     *)

Spoken(m) == m.role \in {"assistant", "tool"}

Single(list) ==
  \A i, j \in DOMAIN list : list[i] = list[j] /\ Spoken(list[i]) => i = j

\* Of a list, the first n are in the session, the others are not, and are said once.
Adds(list, n, old) ==
  /\ n <= Len(list)
  /\ \A i \in 1..n : list[i] \in ToSet(old)
  /\ \A i \in n + 1 .. Len(list) : Spoken(list[i]) =>
       /\ list[i] \notin ToSet(old)
       /\ \A j \in n + 1 .. Len(list) : list[i] = list[j] => i = j

AllOnce ==
  past.shifted \/ past.overlapped \/
    /\ Single(transcript) /\ Single(disk)
    /\ at \notin {"idle", "saving"} => Adds(messages, skip, transcript)
    /\ at = "saving" => ToSet(messages) \subseteq ToSet(transcript)
    /\ IsInjective(batch)
    /\ \A k \in DOMAIN batch : Result(batch[k]) \notin ToSet(transcript) \cup ToSet(messages)

-----------------------------------------------------------------------------
(* Types                                                                   *)

LEMMA MessageTypes ==
  /\ Note \in MessageType /\ Pivot \in MessageType
  /\ \A u \in Nat : User(u) \in MessageType /\ Report(u) \in MessageType /\ Result(u) \in MessageType
  /\ \A a \in Nat, cs \in SUBSET Nat : Assistant(a, cs) \in MessageType
BY DEF MessageType, Roles, Note, Pivot, User, Report, Result, Assistant

LEMMA ListTypes ==
  /\ <<>> \in Lists /\ \A m \in MessageType : <<m>> \in Lists
  /\ \A s, t \in Lists : s \o t \in Lists /\ Len(s \o t) = Len(s) + Len(t)
  /\ \A s \in Lists, m \in MessageType : Append(s, m) \in Lists /\ Len(Append(s, m)) = Len(s) + 1
  /\ \A s \in Lists : Len(s) \in Nat /\ DOMAIN s = 1..Len(s)
BY DEF Lists

LEMMA BatchTypes ==
  ASSUME NEW cs \in Seq(Nat)
  PROVE  /\ Results(cs) \in Lists /\ Len(Results(cs)) = Len(cs)
         /\ \A k \in 1..Len(cs) : Results(cs)[k] = Result(cs[k])
         /\ ToSet(cs) \in SUBSET Nat
<1>1. Len(cs) \in Nat /\ \A k \in 1..Len(cs) : cs[k] \in Nat /\ Result(cs[k]) \in MessageType
  BY MessageTypes
<1>2. Results(cs) = [k \in 1..Len(cs) |-> Result(cs[k])]
  BY DEF Results
<1>3. Results(cs) \in [1..Len(cs) -> MessageType]
  BY <1>1, <1>2
<1>4. Results(cs) \in Lists /\ Len(Results(cs)) = Len(cs)
  BY <1>1, <1>3 DEF Lists
<1>5. ToSet(cs) \in SUBSET Nat
  BY <1>1 DEF ToSet
<1> QED BY <1>2, <1>4, <1>5

LEMMA CallsOfType ==
  ASSUME NEW a \in Nat, NEW n \in 1..MaxBatch
  PROVE  /\ CallsOf(a, n) \in Seq(Nat) /\ Len(CallsOf(a, n)) = n /\ CallsOf(a, n) # <<>>
         /\ \A k \in 1..n : CallsOf(a, n)[k] = 10 * a + k
<1>1. n \in Nat /\ n > 0
  BY CapsAssumption
<1>2. CallsOf(a, n) = [k \in 1..n |-> 10 * a + k]
  BY DEF CallsOf
<1>3. CallsOf(a, n) \in [1..n -> Nat]
  BY <1>1, <1>2
<1>4. CallsOf(a, n) \in Seq(Nat) /\ Len(CallsOf(a, n)) = n
  BY <1>1, <1>3
<1>5. CallsOf(a, n) # <<>>
  BY <1>1, <1>4
<1> QED BY <1>2, <1>4, <1>5

LEMMA PivotsType == \A p \in Pivots : p \in Lists
BY MessageTypes, ListTypes DEF Pivots

LEMMA TypesInit == LoopInit => LoopTypeOK
<1> SUFFICES ASSUME LoopInit PROVE LoopTypeOK
  OBVIOUS
<1>1. {0} \subseteq Nat /\ 0 \in 0..HardCap /\ <<>> \in Seq(Nat) /\ 0 \in 0..Len(<<>>)
  BY CapsAssumption
<1>2. config \in [private : BOOLEAN, limit : Limits]
  BY DEF LoopInit
<1>3. steering \in [there : BOOLEAN, msgs : Lists]
  BY ListTypes DEF LoopInit, Closed
<1>4. turn \in [user : Nat, open : BOOLEAN, made : Nat]
      /\ past \in [shifted : BOOLEAN, overlapped : BOOLEAN, users : Nat, made : Nat]
  BY DEF LoopInit
<1>5. transcript \in Lists /\ disk \in Lists /\ checkpoint \in Lists /\ messages \in Lists
  BY ListTypes DEF LoopInit
<1>6. cursor \in 0..Len(transcript) /\ cursor <= Len(disk)
  BY DEF LoopInit
<1>7. /\ at = "idle" /\ skip = 0 /\ iteration = 0 /\ answered = FALSE /\ running = FALSE
      /\ batch = <<>> /\ stopIdle = FALSE /\ openOp = FALSE /\ clearing = FALSE /\ again = 0
      /\ users = 0 /\ made = 0 /\ troubles = 0 /\ checkpoint = <<>> /\ disk = <<>>
  BY DEF LoopInit
<1> QED BY <1>1, <1>2, <1>3, <1>4, <1>5, <1>6, <1>7 DEF LoopTypeOK

\* A turn's history is a part of the session.
LEMMA HistoryType ==
  ASSUME LoopTypeOK
  PROVE  /\ History(transcript, cursor) \in Lists
         /\ \E n \in 0..Len(transcript) : History(transcript, cursor) = Behind(transcript, n)
<1>1. transcript \in Lists /\ cursor \in 0..Len(transcript)
  BY DEF LoopTypeOK
<1>2. PICK n \in 0..Len(transcript) : History(transcript, cursor) = Behind(transcript, n)
  BY <1>1, HistoryIs
<1>3. Behind(transcript, n) \in Lists
  BY <1>1, BehindIs DEF Lists
<1> QED BY <1>2, <1>3

\* The list a turn begins with.
Initial(input, note) ==
  History(transcript, cursor) \o (IF note THEN <<Note>> ELSE <<>>) \o <<input>>

LEMMA InitialType ==
  ASSUME LoopTypeOK, NEW input \in MessageType, NEW note \in BOOLEAN
  PROVE  Initial(input, note) \in Lists
<1>1. (IF note THEN <<Note>> ELSE <<>>) \in Lists /\ <<input>> \in Lists
  BY ListTypes, MessageTypes
<1> QED BY <1>1, HistoryType, ListTypes DEF Initial

LEMMA ResumedType ==
  ASSUME NEW saved \in Lists, NEW initial \in Lists
  PROVE  Resumed(saved, initial) \in Lists
<1>1. \A i \in DOMAIN initial : initial[i] \in MessageType
  BY DEF Lists
<1>2. ASSUME NEW i \in DOMAIN initial PROVE Append(saved, initial[i]) \in Lists
  BY <1>1, ListTypes
<1>3. \/ Resumed(saved, initial) = saved
      \/ \E i \in DOMAIN initial : Resumed(saved, initial) = Append(saved, initial[i])
  BY ResumedIs
<1> QED BY <1>2, <1>3

LEMMA TypesBegins ==
  ASSUME LoopTypeOK, NEW input \in MessageType, NEW presaved \in {0, 1}, NEW note \in BOOLEAN,
         presaved = 1 => input.id \in Nat, Begins(input, presaved, note), {users', troubles'} \subseteq Nat
  PROVE  LoopTypeOK'
<1> USE DEF LoopTypeOK
<1>1. Initial(input, note) \in Lists
  BY InitialType
<1>2. messages' = IF checkpoint # <<>> THEN Resumed(checkpoint, Initial(input, note))
                                       ELSE Initial(input, note)
  BY DEF Begins, Initial
<1>3. messages' \in Lists
  BY <1>1, <1>2, ResumedType
<1>4. /\ transcript' \in Lists /\ disk' \in Lists /\ cursor' \in 0..Len(transcript')
      /\ ~config'.private => cursor' <= Len(disk')
      /\ config'.private => disk' = <<>>
  <2>1. transcript' \in {transcript, Append(transcript, input)} /\ cursor' = cursor /\ config' = config
        /\ disk' = IF config.private THEN disk ELSE transcript'
    BY DEF Begins
  <2>2. /\ transcript \in Lists /\ disk \in Lists /\ cursor \in 0..Len(transcript)
        /\ ~config.private => cursor <= Len(disk)
        /\ config.private => disk = <<>>
    OBVIOUS
  <2> HIDE DEF LoopTypeOK
  <2>3. transcript' \in Lists /\ Len(transcript) \in Nat /\ Len(transcript') \in Nat
        /\ Len(transcript') >= Len(transcript)
    <3>1. CASE transcript' = transcript
      BY <2>2, <3>1, ListTypes
    <3>2. CASE transcript' = Append(transcript, input)
      <4>1. Append(transcript, input) \in Lists /\ Len(transcript) \in Nat
            /\ Len(Append(transcript, input)) = Len(transcript) + 1
        BY <2>2, ListTypes
      <4> QED BY <3>2, <4>1
    <3> QED BY <2>1, <3>1, <3>2
  <2> QED BY <2>1, <2>2, <2>3
<1>5. skip' \in Nat
  <2>1. Len(History(transcript, cursor)) \in Nat
    BY HistoryType, ListTypes
  <2>2. skip' = Len(History(transcript, cursor)) + presaved
    BY DEF Begins
  <2> QED BY <2>1, <2>2
<1>6. turn' \in [user : Nat, open : BOOLEAN, made : Nat]
  <2>1. (IF presaved = 1 THEN input.id ELSE 0) \in Nat /\ made \in Nat
    OBVIOUS
  <2> QED BY <2>1 DEF Begins
<1>7. past' \in [shifted : BOOLEAN, overlapped : BOOLEAN, users : Nat, made : Nat]
  <2>1. \E a, b \in BOOLEAN : past' = [past EXCEPT !.shifted = a, !.overlapped = b]
    <3>1. (past.shifted \/ checkpoint # <<>> \/ note) \in BOOLEAN /\ (past.overlapped \/ clearing) \in BOOLEAN
      OBVIOUS
    <3> QED BY <3>1, Zenon DEF Begins
  <2> QED BY <2>1
<1>8. /\ at' = "starting" /\ at = "idle" /\ openOp' = FALSE /\ again' = 0
      /\ UNCHANGED <<config, cursor, checkpoint, iteration, answered, batch, running, steering,
                     stopIdle, clearing, made>>
  BY DEF Begins
<1> QED BY <1>3, <1>4, <1>5, <1>6, <1>7, <1>8

LEMMA TypesGoes ==
  ASSUME LoopTypeOK, NEW list \in Lists, GoesIntoSession(list)
  PROVE  transcript' \in Lists /\ messages' \in Lists /\ Len(transcript) <= Len(transcript')
<1>1. transcript \in Lists /\ skip \in Nat
  BY DEF LoopTypeOK
<1>2. SubSeq(list, skip + 1, Len(list)) \in Lists
  <2>1. \A i \in skip + 1 .. Len(list) : list[i] \in MessageType
    BY <1>1 DEF Lists
  <2>2. skip + 1 \in Int /\ Len(list) \in Int
    BY <1>1, ListTypes
  <2> QED BY <2>1, <2>2, SubSeqProperties DEF Lists
<1>3. transcript' = transcript \o SubSeq(list, skip + 1, Len(list)) /\ messages' = list
  BY DEF GoesIntoSession
<1> HIDE DEF GoesIntoSession
<1> QED BY <1>1, <1>2, <1>3, ListTypes

\* What a turn leaves when its list goes into the session.
LEMMA TypesLeft ==
  ASSUME LoopTypeOK, NEW list \in Lists, GoesIntoSession(list),
         UNCHANGED <<config, disk, cursor, skip, openOp, turn, again, clearing, users, past>>,
         steering' \in {steering, Closed}, checkpoint' \in {checkpoint, list, <<>>},
         config.private => checkpoint' = checkpoint, {made', troubles'} \subseteq Nat
  PROVE  LoopTypeOK'
<1> USE DEF LoopTypeOK
<1>1. transcript' \in Lists /\ messages' \in Lists /\ Len(transcript) <= Len(transcript')
  BY TypesGoes
<1>2. cursor' \in 0..Len(transcript') /\ (~config'.private => cursor' <= Len(disk'))
  BY <1>1, ListTypes
<1>3. Closed \in [there : BOOLEAN, msgs : Lists] /\ <<>> \in Lists /\ <<>> \in Seq(Nat)
  BY ListTypes DEF Closed
<1>4. /\ at' = "saving" /\ iteration' = 0 /\ answered' = FALSE /\ batch' = <<>>
      /\ running' = FALSE /\ stopIdle' = FALSE
  BY DEF GoesIntoSession
<1>5. 0 \in 0..HardCap
  BY CapsAssumption
<1>6. checkpoint' \in Lists /\ steering' \in [there : BOOLEAN, msgs : Lists]
  BY <1>3
<1>7. config'.private => checkpoint' = <<>> /\ disk' = <<>>
  OBVIOUS
<1> QED BY <1>1, <1>2, <1>3, <1>4, <1>5, <1>6, <1>7

LEMMA TypesLeaves ==
  ASSUME LoopTypeOK, NEW list \in Lists, NEW keep, Leaves(list, keep), made' \in Nat
  PROVE  LoopTypeOK'
<1>1. /\ GoesIntoSession(list) /\ steering' = Closed
      /\ UNCHANGED <<config, disk, cursor, skip, openOp, turn, again, clearing, users, troubles, past>>
      /\ checkpoint' \in {checkpoint, list, <<>>} /\ (config.private => checkpoint' = checkpoint)
  BY DEF Leaves
<1>2. troubles' \in Nat
  BY <1>1 DEF LoopTypeOK
<1> QED BY <1>1, <1>2, TypesLeft

\* What a turn leaves when it ends otherwise.
LEMMA TypesNoTurn ==
  ASSUME LoopTypeOK, NoTurn,
         \/ transcript' = transcript /\ cursor' = cursor /\ disk' \in {disk, transcript}
         \/ transcript' = disk /\ disk' = disk /\ cursor' = IF config.private THEN 0 ELSE cursor,
         config.private => disk' = disk,
         steering' \in {steering, Closed},
         stopIdle' \in BOOLEAN, openOp' \in BOOLEAN, clearing' \in BOOLEAN,
         turn' \in {turn, [turn EXCEPT !.open = FALSE]}, again' \in Nat, troubles' \in Nat,
         UNCHANGED <<config, checkpoint, users, made, past>>
  PROVE  LoopTypeOK'
<1> USE DEF LoopTypeOK
<1>1. transcript' \in Lists /\ disk' \in Lists
  OBVIOUS
<1>2. cursor' \in 0..Len(transcript') /\ (~config'.private => cursor' <= Len(disk'))
  <2>1. /\ transcript \in Lists /\ disk \in Lists /\ cursor \in 0..Len(transcript)
        /\ ~config.private => cursor <= Len(disk)
        /\ config' = config
    OBVIOUS
  <2>2. Len(transcript) \in Nat /\ Len(disk) \in Nat
    BY <2>1, ListTypes
  <2> HIDE DEF LoopTypeOK
  <2> QED BY <2>1, <2>2
<1>3. Closed \in [there : BOOLEAN, msgs : Lists] /\ <<>> \in Lists /\ <<>> \in Seq(Nat)
  BY ListTypes DEF Closed
<1>4. steering' \in [there : BOOLEAN, msgs : Lists] /\ turn' \in [user : Nat, open : BOOLEAN, made : Nat]
  BY <1>3
<1>5. 0 \in 0..HardCap
  BY CapsAssumption
<1>6. config'.private => checkpoint' = <<>> /\ disk' = <<>>
  OBVIOUS
<1> QED BY <1>1, <1>2, <1>3, <1>4, <1>5, <1>6 DEF NoTurn

\* A step that leaves the session and its file alone.
LEMMA TypesGoOn ==
  ASSUME LoopTypeOK, UNCHANGED <<config, session, skip, turn, again, clearing, past>>,
         checkpoint' \in {checkpoint, messages'}, config.private => checkpoint' = checkpoint,
         messages' \in Lists, at' \in {"starting", "loop", "asking", "tools", "saving", "idle"},
         iteration' \in 0..HardCap, {answered', running', stopIdle', openOp'} \subseteq BOOLEAN,
         batch' \in Seq(Nat), at' = "tools" <=> batch' # <<>>,
         steering' \in [there : BOOLEAN, msgs : Lists], {users', made', troubles'} \subseteq Nat
  PROVE  LoopTypeOK'
BY DEF LoopTypeOK, session

LEMMA SteeredList == LoopTypeOK => messages \o steering.msgs \in Lists
BY ListTypes DEF LoopTypeOK

LEMMA AnswersType ==
  ASSUME LoopTypeOK, at = "tools", Answers
  PROVE  /\ messages' \in Lists /\ batch' \in Seq(Nat) /\ (at' = "tools" <=> batch' # <<>>)
         /\ at' \in {"loop", "tools"} /\ running' = FALSE
         /\ Head(batch) \in Nat /\ Len(batch) > 0
<1>1. batch \in Seq(Nat) /\ batch # <<>> /\ messages \in Lists
  BY DEF LoopTypeOK
<1>2. Head(batch) \in Nat /\ Tail(batch) \in Seq(Nat) /\ Len(Tail(batch)) = Len(batch) - 1
      /\ Len(batch) > 0 /\ Len(batch) \in Nat
  BY <1>1
<1>3. Tail(batch) # <<>> <=> Len(batch) # 1
  <2> DEFINE rest == Tail(batch)
  <2>1. rest \in Seq(Nat) /\ Len(rest) = Len(batch) - 1
    BY <1>2
  <2> HIDE DEF rest
  <2>2. rest # <<>> <=> Len(rest) # 0
    BY <2>1, EmptySeq
  <2>3. rest # <<>> <=> Len(batch) # 1
    BY <1>2, <2>1, <2>2
  <2> QED BY <2>3 DEF rest
<1>4. PICK p \in Pivots :
        messages' = messages \o <<Result(Head(batch))>> \o (IF Len(batch) = 1 THEN p ELSE <<>>)
  BY DEF Answers
<1>5. (IF Len(batch) = 1 THEN p ELSE <<>>) \in Lists /\ <<Result(Head(batch))>> \in Lists
  BY <1>2, PivotsType, ListTypes, MessageTypes
<1>6. messages' \in Lists
  BY <1>1, <1>4, <1>5, ListTypes
<1> QED BY <1>2, <1>3, <1>6 DEF Answers

LEMMA TypesRuns ==
  ASSUME LoopTypeOK, Runs
  PROVE  LoopTypeOK'
<1> USE DEF counts, journal, loop, session
<1>1. /\ config \in [private : BOOLEAN, limit : Limits] /\ messages \in Lists
      /\ steering \in [there : BOOLEAN, msgs : Lists] /\ batch \in Seq(Nat)
      /\ {users, made, troubles} \subseteq Nat /\ iteration \in 0..HardCap
      /\ {answered, running, stopIdle, openOp} \subseteq BOOLEAN
      /\ (at = "tools" <=> batch # <<>>)
  BY DEF LoopTypeOK
<1>2. messages \o steering.msgs \in Lists
  BY SteeredList
<1>3. CASE Refuses
  BY <1>1, <1>3, TypesLeft DEF Refuses
<1>4. CASE EntersLoop
  <2>1. steering' \in [there : BOOLEAN, msgs : Lists]
    BY <1>1, <1>4 DEF EntersLoop
  <2> QED BY <1>1, <1>4, <2>1, TypesGoOn DEF EntersLoop
<1>5. CASE MaxIterations \/ HardStepCap \/ WallTimeout \/ OverLimit \/ ErrorReply
  <2>1. \E list \in {messages, messages \o steering.msgs}, keep \in BOOLEAN :
          Leaves(list, keep) /\ made' = made
    BY <1>1, <1>5 DEF MaxIterations, HardStepCap, WallTimeout, OverLimit, ErrorReply
  <2> QED BY <1>1, <1>2, <2>1, TypesLeaves
<1>6. CASE Iterates
  <2>1. iteration < HardCap /\ iteration' = iteration + 1 /\ at = "loop"
    BY <1>6 DEF Iterates, MayIterate
  <2>2. iteration' \in 0..HardCap
    BY <1>1, <2>1, CapsAssumption
  <2>3. steering' \in [there : BOOLEAN, msgs : Lists]
    BY <1>1, <1>6, ListTypes DEF Iterates
  <2> QED BY <1>1, <1>2, <1>6, <2>1, <2>2, <2>3, TypesGoOn DEF Iterates
<1>7. CASE Replies
  <2> DEFINE list == Append(messages, Assistant(made + 1, {}))
  <2>1. made + 1 \in Nat /\ made' = made + 1 /\ at = "asking"
    BY <1>1, <1>7 DEF Replies
  <2>2. list \in Lists
    BY <1>1, <2>1, MessageTypes, ListTypes
  <2>3. \/ Leaves(list, FALSE)
        \/ /\ messages' = list /\ answered' = TRUE /\ at' = "loop"
           /\ UNCHANGED <<config, session, checkpoint, skip, iteration, batch, running, steering,
                          journal, clearing, users, troubles, past>>
    BY <1>7 DEF Replies
  <2> HIDE DEF list
  <2>4. CASE Leaves(list, FALSE)
    BY <2>1, <2>2, <2>4, TypesLeaves
  <2> QED BY <1>1, <2>1, <2>2, <2>3, <2>4, TypesGoOn
<1>8. CASE \E n \in 1..MaxBatch : CallsTools(n)
  <2>1. PICK n \in 1..MaxBatch : CallsTools(n)
    BY <1>8
  <2> DEFINE cs == CallsOf(made + 1, n)
  <2>2. made + 1 \in Nat
    BY <1>1
  <2>3. cs \in Seq(Nat) /\ cs # <<>>
    BY <2>2, CallsOfType
  <2>4. ToSet(cs) \in SUBSET Nat
    <3> HIDE DEF cs
    <3> QED BY <2>3, BatchTypes
  <2>5. /\ messages' = Append(messages, Assistant(made + 1, ToSet(cs))) /\ batch' = cs
        /\ made' = made + 1 /\ at = "asking" /\ at' = "tools"
        /\ UNCHANGED <<config, session, checkpoint, skip, iteration, answered, running, steering,
                    journal, clearing, users, troubles, past>>
    BY <2>1 DEF CallsTools
  <2> HIDE DEF cs
  <2>6. messages' \in Lists
    BY <1>1, <2>2, <2>4, <2>5, ListTypes, MessageTypes
  <2> QED BY <1>1, <2>2, <2>3, <2>5, <2>6, TypesGoOn
<1>9. CASE AnswersUnrun \/ EndsTool
  <2>1. at = "tools" /\ Answers /\ openOp' \in BOOLEAN
    BY <1>1, <1>9 DEF AnswersUnrun, EndsTool
  <2>2. /\ UNCHANGED <<config, session, checkpoint, skip, iteration, answered, steering, stopIdle,
                       turn, again, clearing, counts, past>>
    BY <2>1 DEF Answers
  <2> QED BY <1>1, <2>1, <2>2, AnswersType, TypesGoOn
<1>10. CASE StartsTool
  BY <1>1, <1>10, TypesGoOn DEF StartsTool
<1>11. CASE HaltsWhenIdle
  <2>1. PICK p \in Pivots : Leaves(messages \o Results(batch) \o p, FALSE)
    BY <1>11 DEF HaltsWhenIdle
  <2>2. messages \o Results(batch) \o p \in Lists /\ made' = made
    BY <1>1, <1>11, PivotsType, BatchTypes, ListTypes DEF HaltsWhenIdle
  <2> QED BY <1>1, <2>1, <2>2, TypesLeaves
<1>12. CASE Saved
  BY <1>1, <1>12, TypesNoTurn DEF Saved, LoopTypeOK
<1> QED BY <1>3, <1>4, <1>5, <1>6, <1>7, <1>8, <1>9, <1>10, <1>11, <1>12 DEF Runs

LEMMA TypesStep ==
  ASSUME LoopTypeOK, [LoopNext]_loopVars
  PROVE  LoopTypeOK'
<1> USE DEF counts, journal, loop, session
<1>1. /\ config \in [private : BOOLEAN, limit : Limits] /\ messages \in Lists
      /\ steering \in [there : BOOLEAN, msgs : Lists] /\ batch \in Seq(Nat)
      /\ {users, made, troubles, again} \subseteq Nat /\ iteration \in 0..HardCap
      /\ {answered, running, stopIdle, openOp, clearing} \subseteq BOOLEAN
      /\ (at = "tools" <=> batch # <<>>)
      /\ transcript \in Lists /\ disk \in Lists /\ checkpoint \in Lists
      /\ (config.private => checkpoint = <<>> /\ disk = <<>>)
  BY DEF LoopTypeOK
<1>0. openOp \in BOOLEAN /\ clearing \in BOOLEAN /\ FALSE \in BOOLEAN
  BY DEF LoopTypeOK
<1>2. CASE Receives
  <2>1. users + 1 \in Nat /\ User(users + 1) \in MessageType /\ User(users + 1).id = users + 1
    BY <1>1, MessageTypes DEF User
  <2> QED BY <1>1, <1>2, <2>1, TypesBegins DEF Receives
<1>3. CASE Redelivers
  <2>1. User(again) \in MessageType /\ User(again).id = again
    BY <1>1, MessageTypes DEF User
  <2> QED BY <1>1, <1>3, <2>1, TypesBegins DEF Redelivers
<1>4. CASE Reports
  <2>1. troubles + 1 \in Nat /\ Report(troubles + 1) \in MessageType
    BY <1>1, MessageTypes
  <2>2. Begins(Report(troubles + 1), 0, FALSE) /\ users' = users /\ troubles' = troubles + 1
    BY <1>4 DEF Reports, Trouble
  <2>3. {users', troubles'} \subseteq Nat
    BY <1>1, <2>1, <2>2
  <2>4. 0 \in {0, 1} /\ FALSE \in BOOLEAN /\ (0 = 1 => Report(troubles + 1).id \in Nat)
    OBVIOUS
  <2> HIDE DEF counts, journal, loop, session
  <2> QED BY <2>1, <2>2, <2>3, <2>4, TypesBegins
<1>5. CASE Runs
  BY <1>5, TypesRuns
<1>6. CASE JournalFails
  <2>1. PICK p \in Pivots :
          /\ GoesIntoSession(messages \o Results(batch) \o p)
          /\ checkpoint' = IF config.private THEN checkpoint ELSE <<>>
    BY <1>6 DEF JournalFails
  <2>2. messages \o Results(batch) \o p \in Lists
    BY <1>1, PivotsType, BatchTypes, ListTypes
  <2> QED BY <1>1, <1>6, <2>1, <2>2, TypesLeft DEF JournalFails, Trouble
<1>7. CASE TurnFails
  <2>1. /\ NoTurn /\ troubles' = troubles + 1 /\ stopIdle' = FALSE
        /\ UNCHANGED <<config, session, checkpoint, steering, openOp, turn, again, clearing, users, made, past>>
    BY <1>7 DEF TurnFails, Trouble
  <2>2. /\ transcript' = transcript /\ cursor' = cursor /\ disk' = disk /\ steering' = steering
        /\ turn' = turn /\ again' = again /\ openOp' = openOp /\ clearing' = clearing
        /\ UNCHANGED <<config, checkpoint, users, made, past>>
    BY <2>1
  <2>3. stopIdle' \in BOOLEAN /\ openOp' \in BOOLEAN /\ clearing' \in BOOLEAN
    BY <1>0, <2>1, <2>2, Zenon
  <2>4. again' \in Nat /\ troubles' \in Nat
    BY <1>1, <2>1, <2>2
  <2> QED BY <2>1, <2>2, <2>3, <2>4, TypesNoTurn
<1>8. CASE Steers
  <2>1. User(users') \in MessageType /\ users' \in Nat
    BY <1>1, <1>8, MessageTypes DEF Steers
  <2>2. steering' \in [there : BOOLEAN, msgs : Lists]
    <3>1. Append(steering.msgs, User(users')) \in Lists
      BY <1>1, <2>1, ListTypes
    <3> QED BY <1>1, <1>8, <3>1 DEF Steers
  <2> QED BY <1>1, <1>8, <2>1, <2>2 DEF Steers, LoopTypeOK
<1>9. CASE StopsWhenIdle
  <2>1. turn' \in [user : Nat, open : BOOLEAN, made : Nat]
    BY <1>9 DEF StopsWhenIdle, LoopTypeOK
  <2>2. /\ troubles' \in Nat /\ stopIdle' = TRUE
        /\ UNCHANGED <<config, session, checkpoint, loop, steering, openOp, again, clearing, users,
                       made, past>>
    BY <1>1, <1>9 DEF StopsWhenIdle, Trouble
  <2> QED BY <1>1, <2>1, <2>2 DEF LoopTypeOK
<1>10. CASE Stops
  <2>1. disk' \in {disk, transcript} /\ (config.private => disk' = disk)
    BY <1>10 DEF Stops, Cancelled
  <2>2. /\ NoTurn /\ troubles' = troubles + 1 /\ stopIdle' = FALSE /\ openOp' = FALSE
        /\ again' = 0 /\ turn' = [turn EXCEPT !.open = FALSE] /\ clearing' \in BOOLEAN
        /\ UNCHANGED <<config, transcript, cursor, checkpoint, steering, users, made, past>>
    BY <1>1, <1>10 DEF Stops, Cancelled, Trouble
  <2>3. /\ transcript' = transcript /\ cursor' = cursor /\ steering' = steering
        /\ UNCHANGED <<config, checkpoint, users, made, past>>
    BY <2>2
  <2>4. stopIdle' \in BOOLEAN /\ openOp' \in BOOLEAN /\ clearing' \in BOOLEAN
    BY <1>0, <2>2, Zenon
  <2>5. again' \in Nat /\ troubles' \in Nat
    BY <1>1, <2>2
  <2> QED BY <2>1, <2>2, <2>3, <2>4, <2>5, TypesNoTurn
<1>11. CASE NewStops
  <2>1. disk' \in {disk, transcript} /\ (config.private => disk' = disk)
    BY <1>11 DEF NewStops, Cancelled
  <2>2. /\ NoTurn /\ troubles' = troubles + 1 /\ stopIdle' = FALSE /\ openOp' = FALSE
        /\ again' = 0 /\ turn' = [turn EXCEPT !.open = FALSE] /\ clearing' \in BOOLEAN
        /\ UNCHANGED <<config, transcript, cursor, checkpoint, steering, users, made, past>>
    BY <1>1, <1>11 DEF NewStops, Cancelled, Trouble
  <2>3. /\ transcript' = transcript /\ cursor' = cursor /\ steering' = steering
        /\ UNCHANGED <<config, checkpoint, users, made, past>>
    BY <2>2
  <2>4. stopIdle' \in BOOLEAN /\ openOp' \in BOOLEAN /\ clearing' \in BOOLEAN
    BY <1>0, <2>2, Zenon
  <2>5. again' \in Nat /\ troubles' \in Nat
    BY <1>1, <2>2
  <2> QED BY <2>1, <2>2, <2>3, <2>4, <2>5, TypesNoTurn
<1>12. CASE NewClears
  <2>1. past' \in [shifted : BOOLEAN, overlapped : BOOLEAN, users : Nat, made : Nat]
    BY <1>1, <1>12 DEF NewClears, LoopTypeOK
  <2>2. /\ <<>> \in Lists /\ 0 \in 0..Len(<<>>) /\ Closed \in [there : BOOLEAN, msgs : Lists]
    BY ListTypes DEF Closed
  <2>3. /\ transcript' = <<>> /\ disk' = <<>> /\ cursor' = 0 /\ checkpoint' = <<>>
        /\ steering' = Closed /\ clearing' = FALSE
        /\ UNCHANGED <<config, loop, journal, counts>>
    BY <1>12 DEF NewClears
  <2>4. 0 <= Len(disk')
    BY <2>3
  <2> QED BY <1>1, <2>1, <2>2, <2>3, <2>4 DEF LoopTypeOK
<1>13. CASE Crashes
  <2>1. again' \in Nat /\ {stopIdle', openOp', clearing'} \subseteq BOOLEAN
    BY <1>1, <1>13 DEF Crashes, LoopTypeOK
  <2> QED BY <1>1, <1>13, <2>1, TypesNoTurn DEF Crashes, Trouble
<1>14. CASE Consolidates
  <2>1. cursor' \in 0..Len(transcript)
    BY <1>1, <1>14, ListTypes DEF Consolidates, LoopTypeOK
  <2> QED BY <1>1, <1>14, <2>1 DEF Consolidates, Trouble, LoopTypeOK
<1>15. CASE Rewinds
  <2>1. PICK k \in 0 .. Len(transcript) - 1 : transcript' = LegalPart(SubSeq(transcript, 1, k))
    BY <1>15 DEF Rewinds
  <2>2. SubSeq(transcript, 1, k) \in Lists
    BY <1>1, ListTypes DEF Lists
  <2>3. PICK n \in 0..Len(SubSeq(transcript, 1, k)) :
          transcript' = Behind(SubSeq(transcript, 1, k), n)
    BY <2>1, <2>2, LegalPartIs
  <2>4. transcript' \in Lists
    BY <2>2, <2>3, BehindIs DEF Lists
  <2>5. cursor' \in 0..Len(transcript')
    <3>1. cursor \in Nat /\ Len(transcript') \in Nat
      BY <2>4, ListTypes DEF LoopTypeOK
    <3> QED BY <1>15, <3>1 DEF Rewinds
  <2> QED BY <1>1, <1>15, <2>4, <2>5 DEF Rewinds, Trouble, LoopTypeOK
<1>16. CASE UNCHANGED loopVars
  BY <1>16 DEF loopVars, LoopTypeOK
<1> QED BY <1>2, <1>3, <1>4, <1>5, <1>6, <1>7, <1>8, <1>9, <1>10, <1>11, <1>12, <1>13, <1>14,
           <1>15, <1>16 DEF LoopNext

-----------------------------------------------------------------------------
(* What a step adds to what has been said                                  *)

LEMMA SetOfList ==
  /\ ToSet(<<>>) = {} /\ \A m \in MessageType : ToSet(<<m>>) = {m}
  /\ \A s \in Lists : ToSet(s) = {s[i] : i \in 1..Len(s)} /\ ToSet(s) \subseteq MessageType
  /\ \A s, t \in Lists : ToSet(s \o t) = ToSet(s) \cup ToSet(t)
  /\ \A s \in Lists, m \in MessageType : ToSet(Append(s, m)) = ToSet(s) \cup {m}
  /\ \A s \in Lists, n \in Nat : n <= Len(s) => ToSet(Behind(s, n)) \subseteq ToSet(s)
<1>1. ToSet(<<>>) = {} /\ \A m \in MessageType : ToSet(<<m>>) = {m}
  BY DEF ToSet
<1>2. ASSUME NEW s \in Lists
      PROVE  ToSet(s) = {s[i] : i \in 1..Len(s)} /\ ToSet(s) \subseteq MessageType
  BY DEF ToSet, Lists
<1>3. ASSUME NEW s \in Lists, NEW t \in Lists
      PROVE  ToSet(s \o t) = ToSet(s) \cup ToSet(t)
  <2>1. /\ s \o t \in Lists /\ Len(s \o t) = Len(s) + Len(t) /\ Len(s) \in Nat /\ Len(t) \in Nat
        /\ \A i \in 1 .. Len(s) + Len(t) : (s \o t)[i] = IF i <= Len(s) THEN s[i] ELSE t[i - Len(s)]
    BY ConcatProperties, ListTypes DEF Lists
  <2>2. ToSet(s \o t) = {(s \o t)[i] : i \in 1 .. Len(s) + Len(t)}
    BY <1>2, <2>1
  <2>3. ASSUME NEW i \in 1..Len(s) PROVE s[i] \in ToSet(s \o t)
    BY <2>1, <2>2
  <2>4. ASSUME NEW i \in 1..Len(t) PROVE t[i] \in ToSet(s \o t)
    <3>1. Len(s) + i \in 1 .. Len(s) + Len(t) /\ ~(Len(s) + i <= Len(s)) /\ Len(s) + i - Len(s) = i
      BY <2>1
    <3>2. (s \o t)[Len(s) + i] = t[i]
      BY <2>1, <3>1
    <3> QED BY <2>2, <3>1, <3>2
  <2>5. ASSUME NEW i \in 1 .. Len(s) + Len(t) PROVE (s \o t)[i] \in ToSet(s) \cup ToSet(t)
    <3>1. i <= Len(s) \/ i - Len(s) \in 1..Len(t)
      BY <2>1
    <3> QED BY <1>2, <2>1, <3>1
  <2> QED BY <1>2, <2>2, <2>3, <2>4, <2>5
<1>4. ASSUME NEW s \in Lists, NEW m \in MessageType
      PROVE  ToSet(Append(s, m)) = ToSet(s) \cup {m}
  <2>1. <<m>> \in Lists /\ Append(s, m) = s \o <<m>>
    BY ListTypes DEF Lists
  <2> QED BY <1>1, <1>3, <2>1
<1>5. ASSUME NEW s \in Lists, NEW n \in Nat, n <= Len(s)
      PROVE  ToSet(Behind(s, n)) \subseteq ToSet(s)
  <2>1. Len(s) \in Nat /\ n \in 0..Len(s)
    BY <1>5, ListTypes
  <2>2. /\ Behind(s, n) \in Lists /\ Len(Behind(s, n)) = Len(s) - n
        /\ \A i \in 1 .. Len(s) - n : Behind(s, n)[i] = s[n + i]
    BY <2>1, BehindIs DEF Lists
  <2>3. ASSUME NEW i \in 1 .. Len(s) - n PROVE Behind(s, n)[i] \in ToSet(s)
    <3>1. n + i \in 1..Len(s)
      BY <2>1
    <3> QED BY <1>2, <2>2, <3>1
  <2> QED BY <1>2, <2>2, <2>3
<1> QED BY <1>1, <1>2, <1>3, <1>4, <1>5

LEMMA SetOfPivots == \A p \in Pivots : p \in Lists /\ ToSet(p) \subseteq {Pivot}
BY PivotsType, SetOfList, MessageTypes DEF Pivots

LEMMA SetOfResults ==
  ASSUME NEW cs \in Seq(Nat)
  PROVE  /\ Results(cs) \in Lists
         /\ \A m \in ToSet(Results(cs)) : \E k \in DOMAIN cs : m = Result(cs[k])
<1>1. Len(cs) \in Nat /\ DOMAIN cs = 1..Len(cs)
  OBVIOUS
<1>2. Results(cs) \in Lists /\ Len(Results(cs)) = Len(cs)
      /\ \A k \in 1..Len(cs) : Results(cs)[k] = Result(cs[k])
  BY BatchTypes
<1>3. ToSet(Results(cs)) = {Results(cs)[k] : k \in 1..Len(cs)}
  BY <1>2, SetOfList
<1> QED BY <1>1, <1>2, <1>3

LEMMA SetOfInitial ==
  ASSUME LoopTypeOK, NEW input \in MessageType, NEW note \in BOOLEAN
  PROVE  ToSet(Initial(input, note)) \subseteq ToSet(transcript) \cup {Note, input}
<1> DEFINE notes == IF note THEN <<Note>> ELSE <<>>
<1>1. transcript \in Lists /\ <<input>> \in Lists /\ ToSet(<<input>>) = {input}
  BY ListTypes, SetOfList DEF LoopTypeOK
<1>2. notes \in Lists /\ ToSet(notes) \subseteq {Note}
  <2>1. <<Note>> \in Lists /\ ToSet(<<Note>>) = {Note} /\ <<>> \in Lists /\ ToSet(<<>>) = {}
    BY ListTypes, SetOfList, MessageTypes
  <2> QED BY <2>1
<1>3. PICK n \in 0..Len(transcript) : History(transcript, cursor) = Behind(transcript, n)
  BY HistoryType
<1>4. History(transcript, cursor) \in Lists
  BY HistoryType
<1>5. ToSet(History(transcript, cursor)) \subseteq ToSet(transcript)
  <2>1. n \in Nat /\ n <= Len(transcript)
    BY <1>1, ListTypes
  <2> QED BY <1>1, <1>3, <2>1, SetOfList
<1>6. Initial(input, note) = History(transcript, cursor) \o notes \o <<input>>
  BY DEF Initial
<1>7. History(transcript, cursor) \o notes \in Lists
  <2> HIDE DEF notes
  <2> QED BY <1>2, <1>4, ListTypes
<1>8. ToSet(Initial(input, note)) = ToSet(History(transcript, cursor)) \cup ToSet(notes) \cup {input}
  <2> HIDE DEF notes
  <2> QED BY <1>1, <1>2, <1>4, <1>6, <1>7, SetOfList
<1> HIDE DEF notes
<1> QED BY <1>2, <1>5, <1>8

LEMMA SetOfResumed ==
  ASSUME NEW saved \in Lists, NEW initial \in Lists
  PROVE  ToSet(Resumed(saved, initial)) \subseteq ToSet(saved) \cup ToSet(initial)
<1>1. CASE Resumed(saved, initial) = saved
  BY <1>1
<1>2. CASE \E i \in DOMAIN initial : Resumed(saved, initial) = Append(saved, initial[i])
  <2>1. PICK i \in DOMAIN initial : Resumed(saved, initial) = Append(saved, initial[i])
    BY <1>2
  <2>2. initial[i] \in ToSet(initial) /\ initial[i] \in MessageType
    BY <2>1 DEF ToSet, Lists
  <2> QED BY <2>1, <2>2, SetOfList
<1> QED BY <1>1, <1>2, ResumedIs

\* What a step may add.
NewMessage(m) ==
  \/ m \in {Note, Pivot}
  \/ users' = users + 1 /\ m = User(users')
  \/ again # 0 /\ m = User(again)
  \/ troubles' = troubles + 1 /\ m = Report(troubles')
  \/ made' = made + 1 /\ \E cs \in SUBSET Nat : m = Assistant(made', cs)
  \/ \E k \in DOMAIN batch : m = Result(batch[k])

LEMMA SaidBegins ==
  ASSUME LoopTypeOK, NEW input \in MessageType, NEW presaved, NEW note \in BOOLEAN,
         Begins(input, presaved, note)
  PROVE  \A m \in Said' : m \in Said \/ m \in {Note, input}
<1>1. transcript \in Lists /\ checkpoint \in Lists
  BY DEF LoopTypeOK
<1>2. Initial(input, note) \in Lists /\ ToSet(Initial(input, note)) \subseteq Said \cup {Note, input}
  BY InitialType, SetOfInitial DEF Said
<1>3. messages' = IF checkpoint # <<>> THEN Resumed(checkpoint, Initial(input, note))
                                       ELSE Initial(input, note)
  BY DEF Begins, Initial
<1>4. ToSet(messages') \subseteq Said \cup {Note, input}
  <2>1. ToSet(Resumed(checkpoint, Initial(input, note)))
          \subseteq ToSet(checkpoint) \cup ToSet(Initial(input, note))
    BY <1>1, <1>2, SetOfResumed
  <2> QED BY <1>2, <1>3, <2>1 DEF Said
<1>5. /\ transcript' \in {transcript, Append(transcript, input)} /\ disk' \in {disk, transcript'}
      /\ UNCHANGED <<checkpoint, steering>>
  BY DEF Begins
<1>6. ToSet(transcript') \subseteq ToSet(transcript) \cup {input}
  <2>1. ToSet(Append(transcript, input)) = ToSet(transcript) \cup {input}
    BY <1>1, SetOfList
  <2> QED BY <1>5, <2>1
<1>7. ToSet(disk') \subseteq ToSet(disk) \cup ToSet(transcript')
  BY <1>5
<1>8. ToSet(checkpoint') = ToSet(checkpoint) /\ ToSet(steering'.msgs) = ToSet(steering.msgs)
  BY <1>5
<1>9. Said' = ToSet(transcript') \cup ToSet(disk') \cup ToSet(checkpoint') \cup ToSet(messages')
              \cup ToSet(steering'.msgs)
  BY DEF Said
<1> QED BY <1>4, <1>6, <1>7, <1>8, <1>9, Zenon DEF Said

\* A list of the turn goes into the session, and perhaps becomes the checkpoint.
LEMMA SaidGoes ==
  ASSUME LoopTypeOK, NEW list \in Lists, GoesIntoSession(list), disk' = disk,
         checkpoint' \in {checkpoint, list, <<>>}, steering' \in {steering, Closed}
  PROVE  Said' \subseteq Said \cup ToSet(list)
<1>1. transcript \in Lists /\ skip \in Nat
  BY DEF LoopTypeOK
<1>2. ToSet(SubSeq(list, skip + 1, Len(list))) \subseteq ToSet(list)
  <2>1. CASE skip <= Len(list)
    BY <1>1, <2>1, SetOfList DEF Behind
  <2>2. CASE ~(skip <= Len(list))
    <3>1. Len(list) \in Nat
      BY ListTypes
    <3>2. SubSeq(list, skip + 1, Len(list)) = <<>>
      BY <1>1, <2>2, <3>1, SubSeqEmpty
    <3> QED BY <3>2, SetOfList
  <2> QED BY <2>1, <2>2
<1>3. SubSeq(list, skip + 1, Len(list)) \in Lists
  <2>1. \A i \in skip + 1 .. Len(list) : list[i] \in MessageType
    BY <1>1 DEF Lists
  <2>2. skip + 1 \in Int /\ Len(list) \in Int
    BY <1>1, ListTypes
  <2> QED BY <2>1, <2>2, SubSeqProperties DEF Lists
<1>4. transcript' = transcript \o SubSeq(list, skip + 1, Len(list)) /\ messages' = list
  BY DEF GoesIntoSession
<1>5. ToSet(transcript') \subseteq ToSet(transcript) \cup ToSet(list)
  BY <1>1, <1>2, <1>3, <1>4, SetOfList
<1>6. ToSet(steering'.msgs) \subseteq ToSet(steering.msgs)
  BY SetOfList DEF Closed
<1>7. ToSet(checkpoint') \subseteq ToSet(checkpoint) \cup ToSet(list)
  BY SetOfList
<1>8. Said' = ToSet(transcript') \cup ToSet(disk') \cup ToSet(checkpoint') \cup ToSet(messages')
              \cup ToSet(steering'.msgs)
  BY DEF Said
<1> QED BY <1>4, <1>5, <1>6, <1>7, <1>8, Zenon DEF Said

LEMMA SaidSame ==
  ASSUME UNCHANGED <<transcript, disk, checkpoint, messages, steering>>
  PROVE  Said' = Said
BY DEF Said

LEMMA SaidNoTurn ==
  ASSUME NoTurn, transcript' \in {transcript, disk}, disk' \in {disk, transcript},
         steering' \in {steering, Closed}, checkpoint' = checkpoint
  PROVE  Said' \subseteq Said
<1>1. ToSet(messages') = {} /\ ToSet(steering'.msgs) \subseteq ToSet(steering.msgs)
  BY SetOfList DEF NoTurn, Closed
<1>2. ToSet(transcript') \subseteq Said /\ ToSet(disk') \subseteq Said
  BY DEF Said
<1>3. Said' = ToSet(transcript') \cup ToSet(disk') \cup ToSet(checkpoint') \cup ToSet(messages')
              \cup ToSet(steering'.msgs)
  BY DEF Said
<1>4. ToSet(checkpoint') \subseteq Said
  BY DEF Said
<1>5. ToSet(steering.msgs) \subseteq Said
  BY DEF Said
<1> QED BY <1>1, <1>2, <1>3, <1>4, <1>5, Zenon

\* The list of the turn grows, and may become the checkpoint.
LEMMA SaidLonger ==
  ASSUME UNCHANGED <<transcript, disk>>, checkpoint' \in {checkpoint, messages'},
         ToSet(steering'.msgs) \subseteq ToSet(steering.msgs)
  PROVE  Said' \subseteq Said \cup ToSet(messages')
<1>1. Said' = ToSet(transcript') \cup ToSet(disk') \cup ToSet(checkpoint') \cup ToSet(messages')
              \cup ToSet(steering'.msgs)
  BY DEF Said
<1>2. ToSet(checkpoint') \subseteq ToSet(checkpoint) \cup ToSet(messages')
  OBVIOUS
<1>3. ToSet(transcript') = ToSet(transcript) /\ ToSet(disk') = ToSet(disk)
  OBVIOUS
<1> QED BY <1>1, <1>2, <1>3, Zenon DEF Said

LEMMA SaidLeaves ==
  ASSUME LoopTypeOK, NEW list \in Lists, NEW keep, Leaves(list, keep)
  PROVE  Said' \subseteq Said \cup ToSet(list)
<1>1. GoesIntoSession(list) /\ disk' = disk /\ steering' = Closed
      /\ checkpoint' \in {checkpoint, list, <<>>}
  BY DEF Leaves
<1> QED BY <1>1, SaidGoes

LEMMA SaidAnswers ==
  ASSUME LoopTypeOK, at = "tools", Answers
  PROVE  \A m \in Said' : m \in Said \/ NewMessage(m)
<1>1. batch \in Seq(Nat) /\ batch # <<>> /\ messages \in Lists
  BY DEF LoopTypeOK
<1>2. Head(batch) = batch[1] /\ 1 \in DOMAIN batch /\ Head(batch) \in Nat
  BY <1>1
<1>3. PICK p \in Pivots :
        messages' = messages \o <<Result(Head(batch))>> \o (IF Len(batch) = 1 THEN p ELSE <<>>)
  BY DEF Answers
<1> DEFINE end == IF Len(batch) = 1 THEN p ELSE <<>>
           one == <<Result(Head(batch))>>
<1>4. end \in Lists /\ ToSet(end) \subseteq {Pivot}
  <2>1. p \in Lists /\ ToSet(p) \subseteq {Pivot} /\ <<>> \in Lists /\ ToSet(<<>>) = {}
    BY SetOfPivots, SetOfList, ListTypes
  <2> QED BY <2>1
<1>5. one \in Lists /\ ToSet(one) = {Result(Head(batch))}
  BY <1>2, ListTypes, MessageTypes, SetOfList
<1>6. messages' = messages \o one \o end
  BY <1>3
<1> HIDE DEF end, one
<1>7. messages \o one \in Lists /\ ToSet(messages \o one) = ToSet(messages) \cup ToSet(one)
  BY <1>1, <1>5, ListTypes, SetOfList
<1>8. ToSet(messages') = ToSet(messages) \cup ToSet(one) \cup ToSet(end)
  BY <1>4, <1>6, <1>7, SetOfList
<1>9. Said' \subseteq Said \cup ToSet(messages')
  BY SaidLonger DEF Answers, session
<1>10. ToSet(messages) \subseteq Said
  BY DEF Said
<1>11. NewMessage(Pivot) /\ NewMessage(Result(Head(batch)))
  BY <1>2 DEF NewMessage
<1> QED BY <1>4, <1>5, <1>8, <1>9, <1>10, <1>11

LEMMA SaidHalted ==
  ASSUME LoopTypeOK, NEW p \in Pivots
  PROVE  /\ messages \o Results(batch) \o p \in Lists
         /\ \A m \in ToSet(messages \o Results(batch) \o p) : m \in Said \/ NewMessage(m)
<1>1. messages \in Lists /\ batch \in Seq(Nat)
  BY DEF LoopTypeOK
<1>2. Results(batch) \in Lists /\ \A m \in ToSet(Results(batch)) : NewMessage(m)
  BY <1>1, SetOfResults DEF NewMessage
<1>3. p \in Lists /\ ToSet(p) \subseteq {Pivot} /\ NewMessage(Pivot)
  BY SetOfPivots DEF NewMessage
<1> DEFINE s == messages \o Results(batch)
<1>4. s \in Lists /\ ToSet(s) = ToSet(messages) \cup ToSet(Results(batch))
  BY <1>1, <1>2, ListTypes, SetOfList
<1>5. s \o p \in Lists /\ ToSet(s \o p) = ToSet(messages) \cup ToSet(Results(batch)) \cup ToSet(p)
  <2> HIDE DEF s
  <2>1. s \o p \in Lists
    BY <1>3, <1>4, ListTypes
  <2>2. ToSet(s \o p) = ToSet(s) \cup ToSet(p)
    BY <1>3, <1>4, SetOfList
  <2> QED BY <1>4, <2>1, <2>2
<1>6. ToSet(messages) \subseteq Said
  BY DEF Said
<1> QED BY <1>2, <1>3, <1>5, <1>6

LEMMA SaidRuns ==
  ASSUME LoopTypeOK, Runs
  PROVE  \A m \in Said' : m \in Said \/ NewMessage(m)
<1> USE DEF session
<1>1. messages \in Lists /\ steering.msgs \in Lists /\ made \in Nat
  BY DEF LoopTypeOK
<1>2. messages \o steering.msgs \in Lists /\ ToSet(messages) \subseteq Said
      /\ ToSet(steering.msgs) \subseteq Said /\ ToSet(messages \o steering.msgs) \subseteq Said
  BY <1>1, SteeredList, SetOfList DEF Said
<1>3. CASE Refuses
  <2>1. Said' \subseteq Said \cup ToSet(messages)
    BY <1>1, <1>3, SaidGoes DEF Refuses
  <2> QED BY <1>2, <2>1
<1>4. CASE EntersLoop
  <2>1. ToSet(steering'.msgs) = ToSet(steering.msgs) /\ messages' = messages
    BY <1>4 DEF EntersLoop, LoopTypeOK
  <2>2. Said' \subseteq Said \cup ToSet(messages')
    BY <1>4, <2>1, SaidLonger DEF EntersLoop
  <2> QED BY <1>2, <2>1, <2>2
<1>5. CASE MaxIterations \/ HardStepCap \/ WallTimeout \/ OverLimit \/ ErrorReply
  <2>1. PICK list \in {messages, messages \o steering.msgs}, keep \in BOOLEAN : Leaves(list, keep)
    BY <1>5 DEF MaxIterations, HardStepCap, WallTimeout, OverLimit, ErrorReply, LoopTypeOK
  <2>2. list \in Lists /\ ToSet(list) \subseteq Said
    BY <1>1, <1>2, <2>1
  <2> QED BY <2>1, <2>2, SaidLeaves
<1>6. CASE Iterates
  <2>1. messages' = messages \o steering.msgs /\ ToSet(steering'.msgs) = {}
    BY <1>6, SetOfList DEF Iterates, LoopTypeOK
  <2>2. Said' \subseteq Said \cup ToSet(messages')
    BY <1>6, <2>1, SaidLonger DEF Iterates
  <2> QED BY <1>2, <2>1, <2>2
<1>7. CASE Replies
  <2> DEFINE m == Assistant(made + 1, {})
             list == Append(messages, m)
  <2>1. m \in MessageType /\ list \in Lists
    <3>1. made + 1 \in Nat /\ {} \in SUBSET Nat
      BY <1>1
    <3>2. m \in MessageType
      BY <3>1, MessageTypes
    <3> HIDE DEF m
    <3> QED BY <1>1, <3>2, ListTypes
  <2>2. NewMessage(m)
    BY <1>7 DEF Replies, NewMessage
  <2>3. ToSet(list) = ToSet(messages) \cup {m}
    <3> HIDE DEF m
    <3> QED BY <1>1, <2>1, SetOfList
  <2>4. \/ Leaves(list, FALSE)
        \/ messages' = list /\ UNCHANGED <<session, checkpoint, steering>>
    BY <1>7 DEF Replies
  <2> HIDE DEF list, m
  <2>5. Said' \subseteq Said \cup ToSet(list)
    <3>1. CASE Leaves(list, FALSE)
      BY <2>1, <3>1, SaidLeaves
    <3>2. CASE messages' = list /\ UNCHANGED <<session, checkpoint, steering>>
      BY <3>2, SaidLonger
    <3> QED BY <2>4, <3>1, <3>2
  <2> QED BY <1>2, <2>2, <2>3, <2>5
<1>8. CASE \E n \in 1..MaxBatch : CallsTools(n)
  <2>1. PICK n \in 1..MaxBatch : CallsTools(n)
    BY <1>8
  <2> DEFINE m == Assistant(made + 1, ToSet(CallsOf(made + 1, n)))
  <2>2. ToSet(CallsOf(made + 1, n)) \in SUBSET Nat
    <3>1. CallsOf(made + 1, n) \in Seq(Nat)
      BY <1>1, CallsOfType
    <3> QED BY <3>1, BatchTypes
  <2>3. m \in MessageType
    BY <1>1, <2>2, MessageTypes
  <2>4. NewMessage(m)
    BY <2>1, <2>2 DEF CallsTools, NewMessage
  <2>5. messages' = Append(messages, m) /\ UNCHANGED <<session, checkpoint, steering>>
    BY <2>1 DEF CallsTools
  <2> HIDE DEF m
  <2>6. ToSet(messages') = ToSet(messages) \cup {m}
    BY <1>1, <2>3, <2>5, SetOfList
  <2>7. Said' \subseteq Said \cup ToSet(messages')
    BY <2>5, SaidLonger
  <2> QED BY <1>2, <2>4, <2>6, <2>7
<1>9. CASE AnswersUnrun \/ EndsTool
  BY <1>9, SaidAnswers DEF AnswersUnrun, EndsTool
<1>10. CASE StartsTool
  BY <1>10, SaidSame DEF StartsTool
<1>11. CASE HaltsWhenIdle
  <2>1. PICK p \in Pivots : Leaves(messages \o Results(batch) \o p, FALSE)
    BY <1>11 DEF HaltsWhenIdle
  <2>2. Said' \subseteq Said \cup ToSet(messages \o Results(batch) \o p)
    BY <2>1, SaidHalted, SaidLeaves
  <2> QED BY <2>2, SaidHalted
<1>12. CASE Saved
  <2>1. Said' \subseteq Said
    BY <1>12, SaidNoTurn DEF Saved
  <2> QED BY <2>1
<1> QED BY <1>3, <1>4, <1>5, <1>6, <1>7, <1>8, <1>9, <1>10, <1>11, <1>12 DEF Runs

LEMMA SaidStep ==
  ASSUME LoopTypeOK, [LoopNext]_loopVars
  PROVE  \A m \in Said' : m \in Said \/ NewMessage(m)
<1> USE DEF session, loop
<1>1. /\ {users, made, troubles, again} \subseteq Nat /\ transcript \in Lists /\ disk \in Lists
      /\ steering.msgs \in Lists
  BY DEF LoopTypeOK
<1>2. CASE Receives
  <2>1. User(users + 1) \in MessageType /\ NewMessage(User(users + 1)) /\ NewMessage(Note)
    BY <1>1, <1>2, MessageTypes DEF Receives, NewMessage
  <2> QED BY <1>2, <2>1, SaidBegins DEF Receives
<1>3. CASE Redelivers
  <2>1. User(again) \in MessageType /\ NewMessage(User(again)) /\ NewMessage(Note)
        /\ openOp \in BOOLEAN
    BY <1>1, <1>3, MessageTypes DEF Redelivers, NewMessage, LoopTypeOK
  <2> QED BY <1>3, <2>1, SaidBegins DEF Redelivers
<1>4. CASE Reports
  <2>1. Report(troubles + 1) \in MessageType /\ NewMessage(Report(troubles + 1)) /\ NewMessage(Note)
    BY <1>1, <1>4, MessageTypes DEF Reports, Trouble, NewMessage
  <2> QED BY <1>4, <2>1, SaidBegins DEF Reports
<1>5. CASE Runs
  BY <1>5, SaidRuns
<1>6. CASE JournalFails
  <2>1. PICK p \in Pivots :
          /\ GoesIntoSession(messages \o Results(batch) \o p)
          /\ checkpoint' = IF config.private THEN checkpoint ELSE <<>>
    BY <1>6 DEF JournalFails
  <2>2. Said' \subseteq Said \cup ToSet(messages \o Results(batch) \o p)
    BY <1>6, <2>1, SaidHalted, SaidGoes DEF JournalFails
  <2> QED BY <2>2, SaidHalted
<1>7. CASE TurnFails \/ Stops \/ NewStops \/ Crashes
  <2>1. Said' \subseteq Said
    BY <1>7, SaidNoTurn DEF TurnFails, Stops, NewStops, Crashes, Cancelled
  <2> QED BY <2>1
<1>8. CASE Steers
  <2>1. steering'.msgs = Append(steering.msgs, User(users')) /\ users' = users + 1
        /\ UNCHANGED <<transcript, disk, checkpoint, messages>>
    BY <1>8 DEF Steers, LoopTypeOK
  <2>2. User(users') \in MessageType
    BY <1>1, <2>1, MessageTypes
  <2>3. ToSet(steering'.msgs) = ToSet(steering.msgs) \cup {User(users')}
    BY <1>1, <2>1, <2>2, SetOfList
  <2>4. Said' = ToSet(transcript) \cup ToSet(disk) \cup ToSet(checkpoint) \cup ToSet(messages)
              \cup ToSet(steering'.msgs)
    BY <2>1 DEF Said
  <2>5. NewMessage(User(users'))
    BY <2>1 DEF NewMessage
  <2> QED BY <2>3, <2>4, <2>5 DEF Said
<1>9. CASE StopsWhenIdle
  BY <1>9, SaidSame DEF StopsWhenIdle
<1>10. CASE NewClears
  <2>1. Said' = ToSet(messages)
    BY <1>10, SetOfList DEF NewClears, Said, Closed
  <2> QED BY <2>1 DEF Said
<1>11. CASE Consolidates
  <2>1. Said' \subseteq Said
    BY <1>11 DEF Consolidates, Said
  <2> QED BY <2>1
<1>12. CASE Rewinds
  <2>1. ToSet(transcript') \subseteq ToSet(transcript) /\ disk' = transcript'
        /\ UNCHANGED <<checkpoint, messages, steering>>
    <3>1. PICK k \in 0 .. Len(transcript) - 1 : transcript' = LegalPart(SubSeq(transcript, 1, k))
      BY <1>12 DEF Rewinds
    <3>2. SubSeq(transcript, 1, k) \in Lists /\ ToSet(SubSeq(transcript, 1, k)) \subseteq ToSet(transcript)
      <4>1. Len(transcript) \in Nat /\ k \in Nat /\ k <= Len(transcript)
        BY <1>1, ListTypes
      <4>2. \A i \in 1..k : transcript[i] \in MessageType /\ transcript[i] \in ToSet(transcript)
        BY <1>1, <4>1 DEF Lists, ToSet
      <4>3. 1 \in Int /\ k \in Int
        BY <4>1
      <4>4. /\ SubSeq(transcript, 1, k) \in Seq(MessageType)
            /\ Len(SubSeq(transcript, 1, k)) = IF 1 <= k THEN k - 1 + 1 ELSE 0
            /\ \A i \in 1 .. k - 1 + 1 : SubSeq(transcript, 1, k)[i] = transcript[1 + i - 1]
        BY <4>2, <4>3, SubSeqProperties
      <4>5. SubSeq(transcript, 1, k) \in Lists /\ Len(SubSeq(transcript, 1, k)) = k
            /\ \A i \in 1..k : SubSeq(transcript, 1, k)[i] = transcript[i]
        BY <4>1, <4>4 DEF Lists
      <4>6. ToSet(SubSeq(transcript, 1, k)) = {SubSeq(transcript, 1, k)[i] : i \in 1..k}
        <5> DEFINE q == SubSeq(transcript, 1, k)
        <5>1. q \in Lists /\ Len(q) = k
          BY <4>5
        <5> HIDE DEF q
        <5>2. ToSet(q) = {q[i] : i \in 1..Len(q)}
          BY <5>1, SetOfList
        <5>3. ToSet(q) = {q[i] : i \in 1..k}
          BY <5>1, <5>2
        <5> QED BY <5>3 DEF q
      <4> QED BY <4>2, <4>5, <4>6
    <3>3. PICK n \in 0..Len(SubSeq(transcript, 1, k)) :
            transcript' = Behind(SubSeq(transcript, 1, k), n)
      BY <3>1, <3>2, LegalPartIs
    <3>4. n \in Nat /\ n <= Len(SubSeq(transcript, 1, k))
      BY <3>2, ListTypes
    <3>5. ToSet(transcript') \subseteq ToSet(SubSeq(transcript, 1, k))
      BY <3>2, <3>3, <3>4, SetOfList
    <3> QED BY <1>12, <3>2, <3>5 DEF Rewinds
  <2>2. Said' \subseteq Said
    BY <2>1 DEF Said
  <2> QED BY <2>2
<1>13. CASE UNCHANGED loopVars
  BY <1>13, SaidSame DEF loopVars
<1> QED BY <1>2, <1>3, <1>4, <1>5, <1>6, <1>7, <1>8, <1>9, <1>10, <1>11, <1>12, <1>13
        DEF LoopNext

-----------------------------------------------------------------------------
(* What a step does to the parts of the loop                               *)

\* The counters, the turn and its batch from one state to the next.
LEMMA LoopSteps ==
  ASSUME LoopTypeOK, [LoopNext]_loopVars
  PROVE  /\ users' \in {users, users + 1} /\ made' \in {made, made + 1}
         /\ troubles' \in {troubles, troubles + 1}
         /\ at' = "idle" => messages' = <<>> \/ (at = "idle" /\ messages' = messages)
         /\ turn'.made = turn.made \/ (turn'.made = made /\ made' = made)
         /\ at' = "starting" =>
              made' = made /\ (turn'.made = made \/ (at = "starting" /\ turn'.made = turn.made))
         /\ \/ batch' \in {batch, <<>>}
            \/ batch # <<>> /\ batch' = Tail(batch)
            \/ made' = made + 1 /\ \E n \in 1..MaxBatch : batch' = CallsOf(made', n)
         /\ \/ steering'.msgs \in {steering.msgs, <<>>}
            \/ steering'.msgs = Append(steering.msgs, User(users'))
<1> USE DEF session, loop, journal, counts, Trouble
<1>1. turn \in [user : Nat, open : BOOLEAN, made : Nat] /\ steering \in [there : BOOLEAN, msgs : Lists]
  BY DEF LoopTypeOK
<1>2. CASE Receives \/ Redelivers \/ Reports
  <2>1. UNCHANGED <<batch, steering, made>> /\ at' = "starting" /\ turn'.made = made
    BY <1>2 DEF Receives, Redelivers, Reports, Begins
  <2>2. users' \in {users, users + 1} /\ troubles' \in {troubles, troubles + 1}
    BY <1>2 DEF Receives, Redelivers, Reports
  <2> QED BY <2>1, <2>2
<1>3. CASE Refuses
  BY <1>3 DEF Refuses, GoesIntoSession
<1>4. CASE EntersLoop
  BY <1>1, <1>4 DEF EntersLoop
<1>5. CASE MaxIterations \/ HardStepCap \/ WallTimeout \/ OverLimit \/ ErrorReply
  BY <1>1, <1>5 DEF MaxIterations, HardStepCap, WallTimeout, OverLimit, ErrorReply, Leaves,
                    GoesIntoSession, Closed
<1>6. CASE Iterates
  BY <1>1, <1>6 DEF Iterates
<1>7. CASE Replies
  BY <1>1, <1>7 DEF Replies, Leaves, GoesIntoSession, Closed
<1>8. CASE \E n \in 1..MaxBatch : CallsTools(n)
  BY <1>1, <1>8 DEF CallsTools
<1>9. CASE AnswersUnrun \/ EndsTool
  <2>1. at = "tools" /\ Answers
    BY <1>9 DEF AnswersUnrun, EndsTool
  <2>2. batch # <<>> /\ at' \in {"loop", "tools"}
    BY <2>1 DEF LoopTypeOK, Answers
  <2>3. batch' = Tail(batch) /\ UNCHANGED <<turn, steering, users, made, troubles>>
    BY <2>1 DEF Answers
  <2> QED BY <2>2, <2>3
<1>10. CASE StartsTool
  BY <1>10 DEF StartsTool
<1>11. CASE HaltsWhenIdle
  BY <1>11 DEF HaltsWhenIdle, Leaves, GoesIntoSession, Closed
<1>12. CASE Saved
  BY <1>1, <1>12 DEF Saved, NoTurn
<1>13. CASE JournalFails
  BY <1>13 DEF JournalFails, GoesIntoSession, Closed
<1>14. CASE TurnFails \/ Stops \/ NewStops \/ Crashes
  BY <1>1, <1>14 DEF TurnFails, Stops, NewStops, Crashes, Cancelled, NoTurn, Closed
<1>15. CASE Steers
  BY <1>1, <1>15 DEF Steers
<1>16. CASE StopsWhenIdle
  BY <1>1, <1>16 DEF StopsWhenIdle
<1>17. CASE NewClears \/ Consolidates \/ Rewinds
  BY <1>17 DEF NewClears, Consolidates, Rewinds, Closed
<1>18. CASE UNCHANGED loopVars
  BY <1>18 DEF loopVars
<1> QED BY <1>2, <1>3, <1>4, <1>5, <1>6, <1>7, <1>8, <1>9, <1>10, <1>11, <1>12, <1>13, <1>14,
           <1>15, <1>16, <1>17, <1>18 DEF LoopNext, Runs

LEMMA SaidType == LoopTypeOK => Said \subseteq MessageType
<1> SUFFICES ASSUME LoopTypeOK PROVE Said \subseteq MessageType
  OBVIOUS
<1>1. /\ transcript \in Lists /\ disk \in Lists /\ checkpoint \in Lists /\ messages \in Lists
      /\ steering.msgs \in Lists
  BY DEF LoopTypeOK
<1>2. \A s \in Lists : ToSet(s) \subseteq MessageType
  BY SetOfList
<1> QED BY <1>1, <1>2 DEF Said

-----------------------------------------------------------------------------
(* The numbers of the messages                                             *)

LEMMA CountedInit == LoopInit => AllCounted
<1> SUFFICES ASSUME LoopInit PROVE AllCounted
  OBVIOUS
<1>1. Said = {}
  BY SetOfList DEF LoopInit, Said, Closed
<1>2. batch = <<>> /\ messages = <<>> /\ steering.msgs = <<>> /\ turn.made = 0 /\ made = 0
  BY DEF LoopInit, Closed
<1> QED BY <1>1, <1>2 DEF AllCounted

LEMMA CountedStep ==
  ASSUME LoopTypeOK, AllCounted, [LoopNext]_loopVars
  PROVE  AllCounted'
<1>1. {users, made, troubles} \subseteq Nat /\ batch \in Seq(Nat) /\ Said \subseteq MessageType
      /\ turn.made \in Nat /\ steering.msgs \in Lists
  BY SaidType DEF LoopTypeOK
<1>2. made' \in Nat /\ made <= made' /\ troubles' \in Nat /\ troubles <= troubles'
  BY <1>1, LoopSteps
<1>3. ASSUME NEW m \in Said' PROVE Counted(m)'
  <2>1. m \in Said \/ NewMessage(m)
    BY SaidStep
  <2>2. CASE m \in Said
    <3>1. m.id \in Int /\ Counted(m)
      BY <1>1, <2>2 DEF MessageType, AllCounted
    <3> QED BY <1>1, <1>2, <3>1 DEF Counted
  <2>3. CASE m \in {Note, Pivot} \/ m.role = "user"
    BY <2>3 DEF Counted, Note, Pivot
  <2>4. CASE troubles' = troubles + 1 /\ m = Report(troubles')
    BY <1>1, <1>2, <2>4 DEF Counted, Report
  <2>5. CASE made' = made + 1 /\ \E cs \in SUBSET Nat : m = Assistant(made', cs)
    BY <1>1, <1>2, <2>5 DEF Counted, Assistant
  <2>6. CASE \E k \in DOMAIN batch : m = Result(batch[k])
    <3>1. PICK k \in DOMAIN batch : m = Result(batch[k])
      BY <2>6
    <3>2. batch[k] \in Nat /\ batch[k] <= 10 * made + 9
      BY <1>1 DEF AllCounted
    <3> QED BY <1>1, <1>2, <3>1, <3>2 DEF Counted, Result
  <2>7. \A u : User(u).role = "user"
    BY DEF User
  <2> QED BY <2>1, <2>2, <2>3, <2>4, <2>5, <2>6, <2>7 DEF NewMessage
<1>4. ASSUME NEW k \in DOMAIN batch' PROVE batch'[k] <= 10 * made' + 9
  <2>1. CASE batch' = batch
    <3>1. batch[k] \in Nat /\ batch[k] <= 10 * made + 9
      BY <1>1, <2>1 DEF AllCounted
    <3> QED BY <1>1, <1>2, <2>1, <3>1
  <2>2. CASE batch' = <<>>
    BY <2>2
  <2>3. CASE batch # <<>> /\ batch' = Tail(batch)
    <3>1. k + 1 \in DOMAIN batch /\ batch'[k] = batch[k + 1] /\ batch[k + 1] \in Nat
      BY <1>1, <2>3
    <3>2. batch[k + 1] <= 10 * made + 9
      BY <3>1 DEF AllCounted
    <3> QED BY <1>1, <1>2, <3>1, <3>2
  <2>4. CASE \E n \in 1..MaxBatch : batch' = CallsOf(made', n)
    <3>1. PICK n \in 1..MaxBatch : batch' = CallsOf(made', n)
      BY <2>4
    <3>2. CallsOf(made', n) \in Seq(Nat) /\ Len(CallsOf(made', n)) = n
          /\ \A i \in 1..n : CallsOf(made', n)[i] = 10 * made' + i
      BY <1>2, CallsOfType
    <3>3. k \in 1..n /\ n <= 9 /\ n \in Nat
      BY <3>1, <3>2, CapsAssumption
    <3> QED BY <1>2, <3>1, <3>2, <3>3
  <2> QED BY <2>1, <2>2, <2>3, <2>4, LoopSteps
<1>5. turn'.made <= made' /\ (at' = "starting" => turn'.made = made')
  <2>1. turn.made <= made /\ (at = "starting" => turn.made = made)
    BY DEF AllCounted
  <2> QED BY <1>1, <1>2, <2>1, LoopSteps
<1>6. ASSUME NEW i \in DOMAIN steering'.msgs PROVE steering'.msgs[i].role = "user"
  <2>1. CASE steering'.msgs \in {steering.msgs, <<>>}
    BY <2>1 DEF AllCounted
  <2>2. CASE steering'.msgs = Append(steering.msgs, User(users'))
    <3>1. CASE i = Len(steering.msgs) + 1
      BY <1>1, <2>2, <3>1 DEF User, Lists
    <3>2. CASE i \in 1..Len(steering.msgs)
      <4>1. steering'.msgs[i] = steering.msgs[i] /\ i \in DOMAIN steering.msgs
        BY <1>1, <2>2, <3>2 DEF Lists
      <4> QED BY <4>1 DEF AllCounted
    <3> QED BY <1>1, <2>2, <3>1, <3>2 DEF Lists
  <2> QED BY <2>1, <2>2, LoopSteps
<1>7. at' = "idle" => messages' = <<>>
  BY LoopSteps DEF AllCounted
<1> QED BY <1>3, <1>4, <1>5, <1>6, <1>7 DEF AllCounted

-----------------------------------------------------------------------------
(* The results of the turn's calls                                         *)

\* Within a longer list, the messages of the first are where they were.
LEMMA Longer ==
  ASSUME NEW list \in Lists, NEW more \in Lists
  PROVE  /\ list \o more \in Lists
         /\ Len(list) \in Nat /\ Len(more) \in Nat /\ Len(list \o more) = Len(list) + Len(more)
         /\ \A i \in 1..Len(list) : (list \o more)[i] = list[i]
         /\ \A i \in 1..Len(more) : (list \o more)[Len(list) + i] = more[i]
         /\ \A i \in DOMAIN (list \o more) :
              i \in 1..Len(list) \/ \E j \in 1..Len(more) : i = Len(list) + j
<1>1. /\ list \o more \in Lists /\ Len(list \o more) = Len(list) + Len(more)
      /\ Len(list) \in Nat /\ Len(more) \in Nat
  BY ListTypes
<1>2. \A i \in 1 .. Len(list) + Len(more) :
        (list \o more)[i] = IF i <= Len(list) THEN list[i] ELSE more[i - Len(list)]
  BY ConcatProperties DEF Lists
<1>3. ASSUME NEW i \in 1..Len(list) PROVE (list \o more)[i] = list[i]
  BY <1>1, <1>2
<1>4. ASSUME NEW i \in 1..Len(more) PROVE (list \o more)[Len(list) + i] = more[i]
  <2>1. Len(list) + i \in 1 .. Len(list) + Len(more) /\ ~(Len(list) + i <= Len(list))
        /\ Len(list) + i - Len(list) = i
    BY <1>1
  <2> QED BY <1>2, <2>1
<1>5. ASSUME NEW i \in DOMAIN (list \o more)
      PROVE  i \in 1..Len(list) \/ \E j \in 1..Len(more) : i = Len(list) + j
  <2>1. i \in 1 .. Len(list) + Len(more)
    BY <1>1, ListTypes
  <2>2. CASE i <= Len(list)
    BY <1>1, <2>1, <2>2
  <2>3. CASE ~(i <= Len(list))
    <3>1. i - Len(list) \in 1..Len(more) /\ i = Len(list) + (i - Len(list))
      BY <1>1, <2>1, <2>3
    <3> QED BY <3>1
  <2> QED BY <2>2, <2>3
<1> QED BY <1>1, <1>3, <1>4, <1>5

LEMMA ResultStays ==
  ASSUME NEW list \in Lists, NEW more \in Lists, NEW i \in 1..Len(list), NEW c,
         HasResult(list, i, c)
  PROVE  HasResult(list \o more, i, c)
<1>1. PICK j \in i + 1 .. Len(list) :
        list[j] = Result(c) /\ \A k \in i + 1 .. j : list[k].role = "tool"
  BY DEF HasResult
<1>2. /\ Len(list) \in Nat /\ Len(more) \in Nat /\ Len(list \o more) = Len(list) + Len(more)
      /\ \A k \in 1..Len(list) : (list \o more)[k] = list[k]
  BY Longer
<1>3. j \in i + 1 .. Len(list \o more)
  BY <1>2
<1>4. \A k \in i + 1 .. j : (list \o more)[k] = list[k]
  BY <1>2
<1>5. (list \o more)[j] = list[j]
  BY <1>2
<1> QED BY <1>1, <1>3, <1>4, <1>5 DEF HasResult

\* The messages of the turn whose calls are to have results.
Mine(m) == m.role = "assistant" /\ m.id > turn.made

\* A call of the turn has its result, or was due and gets it now.
LEMMA AnsweredLonger ==
  ASSUME LoopTypeOK, CallsAnswered, at \in {"loop", "asking", "tools"}, turn'.made = turn.made,
         NEW more \in Lists, messages' = messages \o more,
         \A i \in DOMAIN more : ~Mine(more[i]) \/ more[i].calls = {},
         \A i \in DOMAIN messages : \A c \in messages[i].calls :
           IsDue(messages, i, c) => HasResult(messages', i, c) \/ IsDue(messages, i, c)'
  PROVE  CallsAnswered'
<1> SUFFICES ASSUME NEW i \in DOMAIN messages', messages'[i].role = "assistant",
                    messages'[i].id > turn'.made, NEW c \in messages'[i].calls
             PROVE  HasResult(messages, i, c)' \/ IsDue(messages, i, c)'
  BY DEF CallsAnswered
<1>1. messages \in Lists /\ DOMAIN messages = 1..Len(messages) /\ DOMAIN more = 1..Len(more)
  BY ListTypes DEF LoopTypeOK
<1>2. CASE i \in 1..Len(messages)
  <2>1. messages'[i] = messages[i]
    BY <1>1, <1>2, Longer
  <2>2. HasResult(messages, i, c) \/ IsDue(messages, i, c)
    BY <1>1, <1>2, <2>1 DEF CallsAnswered
  <2>3. HasResult(messages, i, c) => HasResult(messages', i, c)
    BY <1>1, <1>2, ResultStays
  <2>4. HasResult(messages', i, c) => HasResult(messages, i, c)'
    BY DEF HasResult
  <2>5. IsDue(messages, i, c) => HasResult(messages', i, c) \/ IsDue(messages, i, c)'
    BY <1>1, <1>2, <2>1
  <2> QED BY <2>2, <2>3, <2>4, <2>5, Zenon
<1>3. CASE \E j \in 1..Len(more) : i = Len(messages) + j
  <2>1. PICK j \in 1..Len(more) : i = Len(messages) + j
    BY <1>3
  <2>2. messages'[i] = more[j]
    BY <1>1, <2>1, Longer
  <2>3. ~Mine(more[j])
    BY <1>1, <2>2
  <2> QED BY <2>2, <2>3 DEF Mine
<1> QED BY <1>1, <1>2, <1>3, Longer

LEMMA AnsweredSame ==
  ASSUME CallsAnswered, UNCHANGED <<messages, batch>>, turn'.made = turn.made,
         \/ at' = at
         \/ at \in {"loop", "asking"} /\ at' \in {"loop", "asking", "saving"}
  PROVE  CallsAnswered'
<1> SUFFICES ASSUME at' \in {"loop", "asking", "tools", "saving"}, NEW i \in DOMAIN messages,
                    messages[i].role = "assistant", messages[i].id > turn.made,
                    NEW c \in messages[i].calls
             PROVE  HasResult(messages, i, c)' \/ IsDue(messages, i, c)'
  BY DEF CallsAnswered
<1>1. HasResult(messages, i, c) \/ IsDue(messages, i, c)
  BY DEF CallsAnswered
<1>2. HasResult(messages, i, c) => HasResult(messages, i, c)'
  BY DEF HasResult
<1>3. IsDue(messages, i, c) => IsDue(messages, i, c)'
  BY DEF IsDue
<1> QED BY <1>1, <1>2, <1>3

\* Before the turn has said anything, there is nothing to answer.
LEMMA AnsweredNone ==
  ASSUME AllCounted, at = "starting", UNCHANGED <<messages, made>>, turn'.made = turn.made,
         LoopTypeOK
  PROVE  CallsAnswered'
<1>1. turn.made = made /\ made \in Nat
  BY DEF AllCounted, LoopTypeOK
<1>2. ASSUME NEW i \in DOMAIN messages, messages[i].role = "assistant" PROVE ~(messages[i].id > made)
  <2>1. messages[i] \in Said
    BY DEF Said, ToSet
  <2>2. messages[i].id \in 0 - troubles .. made /\ troubles \in Nat
    BY <1>2, <2>1 DEF AllCounted, Counted, LoopTypeOK
  <2> QED BY <1>1, <2>2
<1> QED BY <1>1, <1>2 DEF CallsAnswered

LEMMA Joined == \A s, t, u \in Lists : s \o t \o u = s \o (t \o u)
BY ConcatAssociative DEF Lists

LEMMA AnsweredAnswers ==
  ASSUME LoopTypeOK, CallsAnswered, at = "tools", Answers
  PROVE  CallsAnswered'
<1>1. batch \in Seq(Nat) /\ batch # <<>> /\ messages \in Lists /\ Len(batch) \in Nat
  BY DEF LoopTypeOK
<1>2. Head(batch) = batch[1] /\ Head(batch) \in Nat
  BY <1>1
<1>3. PICK p \in Pivots :
        messages' = messages \o <<Result(Head(batch))>> \o (IF Len(batch) = 1 THEN p ELSE <<>>)
  BY DEF Answers
<1> DEFINE end == IF Len(batch) = 1 THEN p ELSE <<>>
           one == <<Result(Head(batch))>>
           more == one \o end
<1>4. end \in Lists /\ (end = <<>> \/ end = <<Pivot>>)
  BY ListTypes, MessageTypes DEF Pivots
<1>5. one \in Lists /\ Len(one) = 1 /\ one[1] = Result(Head(batch))
  BY <1>2, ListTypes, MessageTypes
<1>6. more \in Lists /\ more[1] = Result(Head(batch)) /\ Len(more) >= 1
      /\ \A i \in DOMAIN more : more[i] \in {Result(Head(batch)), Pivot}
  <2>1. CASE end = <<>>
    <3>1. more = one
      <4> HIDE DEF one, end
      <4> QED BY <1>5, <2>1 DEF Lists
    <3> HIDE DEF one, end, more
    <3>2. more \in Lists /\ Len(more) = 1 /\ more[1] = Result(Head(batch))
      BY <1>5, <3>1
    <3>3. \A i \in DOMAIN more : i = 1
      BY <3>2, ListTypes
    <3> QED BY <3>2, <3>3
  <2>2. CASE end = <<Pivot>>
    <3>1. end \in Lists /\ Len(end) = 1 /\ end[1] = Pivot
      <4> HIDE DEF end
      <4> QED BY <1>4, <2>2
    <3>2. /\ more \in Lists /\ Len(more) = Len(one) + Len(end)
          /\ \A i \in 1..Len(one) : more[i] = one[i]
          /\ \A i \in 1..Len(end) : more[Len(one) + i] = end[i]
      <4> HIDE DEF one, end
      <4> QED BY <1>5, <3>1, Longer
    <3> HIDE DEF one, end, more
    <3>3. DOMAIN more = 1..2 /\ more[1] = one[1] /\ more[2] = end[1] /\ Len(more) = 2
      BY <1>5, <3>1, <3>2, ListTypes
    <3> QED BY <1>5, <3>1, <3>2, <3>3
  <2> QED BY <1>4, <2>1, <2>2
<1>7. messages' = messages \o more
  <2> HIDE DEF one, end
  <2>1. messages' = messages \o one \o end
    BY <1>3 DEF one, end
  <2> QED BY <1>1, <1>4, <1>5, <2>1, Joined
<1>8. \A i \in DOMAIN more : ~Mine(more[i])
  <2> HIDE DEF more
  <2> QED BY <1>6 DEF Mine, Result, Pivot
<1>9. ASSUME NEW i \in DOMAIN messages, NEW c \in messages[i].calls, IsDue(messages, i, c)
      PROVE  HasResult(messages', i, c) \/ IsDue(messages, i, c)'
  <2>1. c \in ToSet(batch) /\ \A k \in i + 1 .. Len(messages) : messages[k].role = "tool"
    BY <1>9 DEF IsDue
  <2>2. i \in 1..Len(messages) /\ Len(messages) \in Nat
    BY <1>1, ListTypes
  <2>3. /\ Len(messages') = Len(messages) + Len(more)
        /\ \A k \in 1..Len(messages) : messages'[k] = messages[k]
        /\ \A k \in 1..Len(more) : messages'[Len(messages) + k] = more[k]
        /\ Len(more) \in Nat
    <3> HIDE DEF more
    <3> QED BY <1>1, <1>6, <1>7, Longer
  <2>4. messages'[Len(messages) + 1] = Result(Head(batch)) /\ Len(messages) + 1 <= Len(messages')
    <3> HIDE DEF more
    <3> QED BY <1>6, <2>2, <2>3
  <2>5. \A k \in i + 1 .. Len(messages) + 1 : messages'[k].role = "tool"
    <3>1. ASSUME NEW k \in i + 1 .. Len(messages) PROVE messages'[k].role = "tool"
      BY <2>1, <2>2, <2>3
    <3>2. messages'[Len(messages) + 1].role = "tool"
      BY <2>4 DEF Result
    <3> QED BY <2>2, <3>1, <3>2
  <2>6. CASE c = Head(batch)
    <3>1. Len(messages) + 1 \in i + 1 .. Len(messages')
      <4> HIDE DEF more
      <4> QED BY <1>6, <2>2, <2>3
    <3> HIDE DEF more
    <3> QED BY <2>4, <2>5, <2>6, <3>1 DEF HasResult
  <2>7. CASE c # Head(batch)
    <3>1. PICK k \in 1..Len(batch) : c = batch[k]
      BY <1>1, <2>1 DEF ToSet
    <3>2. k > 1 /\ Len(batch) # 1
      BY <1>1, <1>2, <2>7, <3>1
    <3>3. batch' = Tail(batch) /\ at' = "tools"
      BY <3>2 DEF Answers
    <3>4. c \in ToSet(batch')
      <4>1. k - 1 \in DOMAIN Tail(batch) /\ Tail(batch)[k - 1] = batch[k]
        BY <1>1, <3>1, <3>2
      <4> QED BY <3>1, <3>3, <4>1 DEF ToSet
    <3>5. Len(messages') = Len(messages) + 1
      <4>1. more = one
        <5>1. end = <<>>
          BY <3>2
        <5> HIDE DEF one, end
        <5> QED BY <1>5, <5>1 DEF Lists
      <4> HIDE DEF one, end, more
      <4> QED BY <1>5, <2>3, <4>1
    <3> HIDE DEF more
    <3> QED BY <2>5, <3>3, <3>4, <3>5 DEF IsDue
  <2> QED BY <2>6, <2>7
<1>10. turn' = turn
  BY DEF Answers
<1> HIDE DEF more
<1> QED BY <1>6, <1>7, <1>8, <1>9, <1>10, AnsweredLonger

LEMMA AnsweredHalted ==
  ASSUME LoopTypeOK, CallsAnswered, at = "tools", turn'.made = turn.made, at' = "saving",
         NEW p \in Pivots, messages' = messages \o Results(batch) \o p
  PROVE  CallsAnswered'
<1>1. batch \in Seq(Nat) /\ messages \in Lists /\ Len(batch) \in Nat
  BY DEF LoopTypeOK
<1> DEFINE results == Results(batch)
           more == results \o p
<1>2. p \in Lists /\ results \in Lists /\ Len(results) = Len(batch)
      /\ \A k \in 1..Len(batch) : results[k] = Result(batch[k])
  BY <1>1, PivotsType, BatchTypes
<1> HIDE DEF results
<1>3. /\ more \in Lists /\ Len(more) = Len(batch) + Len(p) /\ Len(p) \in Nat
      /\ \A k \in 1..Len(batch) : more[k] = Result(batch[k])
      /\ \A k \in DOMAIN more : k \in 1..Len(batch) \/ \E j \in 1..Len(p) : k = Len(batch) + j
      /\ \A j \in 1..Len(p) : more[Len(batch) + j] = p[j]
  <2>1. /\ more \in Lists /\ Len(more) = Len(results) + Len(p) /\ Len(p) \in Nat
        /\ \A k \in 1..Len(results) : more[k] = results[k]
        /\ \A k \in DOMAIN more : k \in 1..Len(results) \/ \E j \in 1..Len(p) : k = Len(results) + j
        /\ \A j \in 1..Len(p) : more[Len(results) + j] = p[j]
    BY <1>2, Longer
  <2> HIDE DEF more
  <2> QED BY <1>2, <2>1
<1>4. messages' = messages \o more
  BY <1>1, <1>2, Joined DEF results
<1>5. \A k \in DOMAIN more : ~Mine(more[k])
  <2>1. \A j \in 1..Len(p) : p[j] = Pivot
    BY DEF Pivots
  <2>2. ~Mine(Pivot) /\ \A c : ~Mine(Result(c))
    BY DEF Mine, Result, Pivot
  <2> HIDE DEF more
  <2> QED BY <1>3, <2>1, <2>2
<1> HIDE DEF more
<1>6. ASSUME NEW i \in DOMAIN messages, NEW c \in messages[i].calls, IsDue(messages, i, c)
      PROVE  HasResult(messages', i, c)
  <2>1. \A k \in i + 1 .. Len(messages) : messages[k].role = "tool"
    BY <1>6 DEF IsDue
  <2>2. PICK n \in 1..Len(batch) : c = batch[n]
    BY <1>1, <1>6 DEF IsDue, ToSet
  <2>3. i \in 1..Len(messages) /\ Len(messages) \in Nat
    BY <1>1, ListTypes
  <2>4. /\ Len(messages') = Len(messages) + Len(more)
        /\ \A k \in 1..Len(messages) : messages'[k] = messages[k]
        /\ \A k \in 1..Len(more) : messages'[Len(messages) + k] = more[k]
    <3>1. more \in Lists
      BY <1>3
    <3> QED BY <1>1, <1>4, <3>1, Longer
  <2>5. \A k \in 1..n : k \in 1..Len(more) /\ messages'[Len(messages) + k] = Result(batch[k])
    BY <1>1, <1>3, <2>4
  <2>6. ASSUME NEW k \in i + 1 .. Len(messages) + n PROVE messages'[k].role = "tool"
    <3>1. CASE k <= Len(messages)
      BY <2>1, <2>3, <2>4, <3>1
    <3>2. CASE ~(k <= Len(messages))
      <4>1. k - Len(messages) \in 1..n /\ Len(messages) + (k - Len(messages)) = k
        BY <2>3, <3>2
      <4>2. messages'[k] = Result(batch[k - Len(messages)])
        BY <2>5, <4>1
      <4> QED BY <4>2 DEF Result
    <3> QED BY <3>1, <3>2
  <2>7. Len(messages) + n \in i + 1 .. Len(messages')
    BY <1>1, <1>3, <2>3, <2>4
  <2>8. messages'[Len(messages) + n] = Result(c)
    <3>1. n \in 1..n
      BY <1>1
    <3> QED BY <2>2, <2>5, <3>1
  <2> QED BY <2>6, <2>7, <2>8 DEF HasResult
<1> QED BY <1>3, <1>4, <1>5, <1>6, AnsweredLonger

LEMMA AnsweredInit == LoopInit => CallsAnswered
BY DEF LoopInit, CallsAnswered

LEMMA AnsweredStep ==
  ASSUME LoopTypeOK, AllCounted, CallsAnswered, [LoopNext]_loopVars
  PROVE  CallsAnswered'
<1> USE DEF session, loop, journal, counts
<1>1. /\ messages \in Lists /\ made \in Nat /\ steering.msgs \in Lists
      /\ turn \in [user : Nat, open : BOOLEAN, made : Nat]
  BY DEF LoopTypeOK
<1>2. CASE Receives \/ Redelivers \/ Reports
  <2>1. at' = "starting"
    BY <1>2 DEF Receives, Redelivers, Reports, Begins
  <2> QED BY <2>1 DEF CallsAnswered
<1>3. CASE Refuses \/ EntersLoop
  <2>1. at = "starting" /\ UNCHANGED <<messages, made, turn>>
    BY <1>3 DEF Refuses, EntersLoop, GoesIntoSession
  <2> QED BY <2>1, AnsweredNone
<1>4. CASE MaxIterations \/ HardStepCap \/ OverLimit \/ ErrorReply
  <2>1. at \in {"loop", "asking"} /\ at' = "saving" /\ UNCHANGED <<messages, turn>>
    BY <1>4 DEF MaxIterations, HardStepCap, OverLimit, ErrorReply, Leaves, GoesIntoSession
  <2>2. batch = <<>> /\ batch' = <<>>
    BY <1>4, <2>1 DEF MaxIterations, HardStepCap, OverLimit, ErrorReply, Leaves, GoesIntoSession,
                      LoopTypeOK
  <2> QED BY <2>1, <2>2, AnsweredSame
<1>5. CASE WallTimeout \/ Iterates
  <2>1. at = "loop" /\ messages' = messages \o steering.msgs /\ turn' = turn
    BY <1>5 DEF WallTimeout, Iterates, MayIterate, Leaves, GoesIntoSession
  <2>2. \A i \in DOMAIN steering.msgs : ~Mine(steering.msgs[i])
    BY DEF AllCounted, Mine
  <2>3. \A i \in DOMAIN messages : \A c \in messages[i].calls : ~IsDue(messages, i, c)
    BY <2>1 DEF IsDue
  <2> QED BY <1>1, <2>1, <2>2, <2>3, AnsweredLonger
<1>6. CASE Replies
  <2> DEFINE m == Assistant(made + 1, {})
  <2>1. m \in MessageType /\ m.calls = {}
    <3>1. made + 1 \in Nat /\ {} \in SUBSET Nat
      BY <1>1
    <3> QED BY <3>1, MessageTypes DEF Assistant
  <2>2. at = "asking" /\ messages' = Append(messages, m) /\ turn' = turn
    BY <1>6 DEF Replies, Leaves, GoesIntoSession
  <2>3. <<m>> \in Lists /\ messages' = messages \o <<m>>
        /\ \A i \in DOMAIN <<m>> : <<m>>[i].calls = {}
    <3> HIDE DEF m
    <3> QED BY <1>1, <2>1, <2>2, ListTypes DEF Lists
  <2>4. \A i \in DOMAIN messages : \A c \in messages[i].calls : ~IsDue(messages, i, c)
    BY <2>2 DEF IsDue
  <2> HIDE DEF m
  <2> QED BY <1>1, <2>2, <2>3, <2>4, AnsweredLonger
<1>7. CASE \E n \in 1..MaxBatch : CallsTools(n)
  <2>1. PICK n \in 1..MaxBatch : CallsTools(n)
    BY <1>7
  <2> DEFINE m == Assistant(made + 1, ToSet(CallsOf(made + 1, n)))
  <2>2. m \in MessageType /\ m.calls = ToSet(CallsOf(made + 1, n))
    <3>1. made + 1 \in Nat /\ CallsOf(made + 1, n) \in Seq(Nat)
      BY <1>1, CallsOfType
    <3>2. ToSet(CallsOf(made + 1, n)) \in SUBSET Nat
      BY <3>1, BatchTypes
    <3> QED BY <3>1, <3>2, MessageTypes DEF Assistant
  <2>3. at = "asking" /\ at' = "tools" /\ messages' = Append(messages, m) /\ turn' = turn
        /\ batch' = CallsOf(made + 1, n)
    BY <2>1 DEF CallsTools
  <2> HIDE DEF m
  <2>4. /\ Len(messages) \in Nat /\ Len(messages') = Len(messages) + 1
        /\ messages'[Len(messages) + 1] = m
        /\ \A k \in 1..Len(messages) : messages'[k] = messages[k]
    BY <1>1, <2>2, <2>3 DEF Lists
  <2>5. ASSUME NEW i \in DOMAIN messages', messages'[i].role = "assistant",
               messages'[i].id > turn'.made, NEW c \in messages'[i].calls
        PROVE  HasResult(messages, i, c)' \/ IsDue(messages, i, c)'
    <3>1. i \in 1 .. Len(messages) + 1
      BY <1>1, <2>2, <2>3, <2>4 DEF Lists
    <3>2. CASE i = Len(messages) + 1
      <4>1. c \in ToSet(batch') /\ at' = "tools"
        BY <2>2, <2>3, <2>4, <2>5, <3>2
      <4>2. \A k \in i + 1 .. Len(messages') : messages'[k].role = "tool"
        BY <2>4, <3>2
      <4> QED BY <4>1, <4>2 DEF IsDue
    <3>3. CASE i \in 1..Len(messages)
      <4>1. messages[i] = messages'[i] /\ i \in DOMAIN messages
        BY <1>1, <2>4, <3>3, ListTypes
      <4>2. HasResult(messages, i, c)
        BY <2>3, <2>5, <4>1 DEF CallsAnswered, IsDue
      <4>3. <<m>> \in Lists /\ messages' = messages \o <<m>>
        BY <1>1, <2>2, <2>3, ListTypes DEF Lists
      <4>4. HasResult(messages', i, c)
        BY <1>1, <3>3, <4>2, <4>3, ResultStays
      <4> QED BY <4>4 DEF HasResult
    <3> QED BY <2>4, <3>1, <3>2, <3>3
  <2> QED BY <2>5 DEF CallsAnswered
<1>8. CASE AnswersUnrun \/ EndsTool
  BY <1>8, AnsweredAnswers DEF AnswersUnrun, EndsTool
<1>9. CASE StartsTool \/ Steers \/ Consolidates \/ Rewinds \/ NewClears
  <2>1. UNCHANGED <<messages, batch, at, turn>>
    BY <1>9 DEF StartsTool, Steers, Consolidates, Rewinds, NewClears
  <2> QED BY <2>1, AnsweredSame
<1>10. CASE StopsWhenIdle
  <2>1. UNCHANGED <<messages, batch, at>> /\ turn'.made = turn.made
    BY <1>1, <1>10 DEF StopsWhenIdle
  <2> QED BY <2>1, AnsweredSame
<1>11. CASE HaltsWhenIdle
  <2>1. PICK p \in Pivots : Leaves(messages \o Results(batch) \o p, FALSE)
    BY <1>11 DEF HaltsWhenIdle
  <2>2. messages' = messages \o Results(batch) \o p /\ at' = "saving" /\ turn' = turn /\ at = "tools"
    BY <1>11, <2>1 DEF HaltsWhenIdle, Leaves, GoesIntoSession
  <2> QED BY <2>2, AnsweredHalted
<1>12. CASE JournalFails
  <2>1. PICK p \in Pivots : GoesIntoSession(messages \o Results(batch) \o p)
    BY <1>12 DEF JournalFails
  <2>2. messages' = messages \o Results(batch) \o p /\ at' = "saving" /\ turn' = turn /\ at = "tools"
    BY <1>12, <2>1 DEF JournalFails, GoesIntoSession
  <2> QED BY <2>2, AnsweredHalted
<1>13. CASE Saved \/ TurnFails \/ Stops \/ NewStops \/ Crashes
  <2>1. at' = "idle"
    BY <1>13 DEF Saved, TurnFails, Stops, NewStops, Crashes, Cancelled, NoTurn
  <2> QED BY <2>1 DEF CallsAnswered
<1>14. CASE UNCHANGED loopVars
  <2>1. UNCHANGED <<messages, batch, at, turn>>
    BY <1>14 DEF loopVars
  <2> QED BY <2>1, AnsweredSame
<1> QED BY <1>2, <1>3, <1>4, <1>5, <1>6, <1>7, <1>8, <1>9, <1>10, <1>11, <1>12, <1>13, <1>14
        DEF LoopNext, Runs

-----------------------------------------------------------------------------
(* What /new leaves behind                                                 *)

LEMMA SinceNewInit == LoopInit => AllSince
<1> SUFFICES ASSUME LoopInit PROVE AllSince
  OBVIOUS
<1>1. Said = {}
  BY SetOfList DEF LoopInit, Said, Closed
<1>2. past.users = 0 /\ past.made = 0 /\ users = 0 /\ made = 0 /\ again = 0 /\ clearing = FALSE
      /\ at = "idle"
  BY DEF LoopInit
<1> QED BY <1>1, <1>2 DEF AllSince

\* A turn that begins before /new has cleared the session overlaps it.
LEMMA SinceNewBegins ==
  ASSUME LoopTypeOK, AllSince, NEW input \in MessageType, NEW presaved \in {0, 1},
         NEW note \in BOOLEAN, Begins(input, presaved, note), ~past'.overlapped
  PROVE  /\ ~past.overlapped /\ ~clearing /\ ~clearing' /\ again' = 0 /\ at' # "idle"
         /\ turn'.user = IF presaved = 1 THEN input.id ELSE 0
         /\ past'.users = past.users /\ past'.made = past.made
<1>1. past \in [shifted : BOOLEAN, overlapped : BOOLEAN, users : Nat, made : Nat]
      /\ clearing \in BOOLEAN
  BY DEF LoopTypeOK
<1>2. past'.overlapped = (past.overlapped \/ clearing)
      /\ past'.users = past.users /\ past'.made = past.made
  BY <1>1 DEF Begins
<1>3. clearing' = clearing /\ again' = 0 /\ at' = "starting"
      /\ turn'.user = IF presaved = 1 THEN input.id ELSE 0
  BY DEF Begins
<1> QED BY <1>1, <1>2, <1>3

LEMMA SinceNewTurns ==
  ASSUME LoopTypeOK, AllSince, LoopNext, ~past'.overlapped, ~NewClears
  PROVE  /\ ~past.overlapped /\ past'.users = past.users /\ past'.made = past.made
         /\ again' = 0 \/ again' > past.users
         /\ at' # "idle" => turn'.user = 0 \/ turn'.user > past.users
         /\ clearing' => at' = "idle" /\ again' = 0
<1> USE DEF session, loop, journal, counts
<1>1. turn \in [user : Nat, open : BOOLEAN, made : Nat] /\ users \in Nat /\ past.users \in Nat
      /\ past.users <= users /\ again \in Nat /\ troubles \in Nat
  BY DEF LoopTypeOK, AllSince
<1>2. CASE Receives
  <2>1. User(users + 1) \in MessageType /\ Begins(User(users + 1), 1, FALSE)
    <3>1. users + 1 \in Nat
      BY <1>1
    <3>2. Begins(User(users + 1), 1, FALSE)
      BY <1>2 DEF Receives
    <3> QED BY <3>1, <3>2, MessageTypes
  <2>2. /\ ~past.overlapped /\ ~clearing' /\ again' = 0
        /\ turn'.user = User(users + 1).id
        /\ past'.users = past.users /\ past'.made = past.made
    BY <2>1, SinceNewBegins
  <2>3. User(users + 1).id = users + 1
    BY DEF User
  <2> QED BY <1>1, <2>2, <2>3
<1>3. CASE Redelivers
  <2>1. User(again) \in MessageType /\ Begins(User(again), 1, openOp) /\ openOp \in BOOLEAN
    BY <1>1, <1>3, MessageTypes DEF Redelivers, LoopTypeOK
  <2>2. /\ ~past.overlapped /\ ~clearing' /\ again' = 0
        /\ turn'.user = User(again).id
        /\ past'.users = past.users /\ past'.made = past.made
    BY <2>1, SinceNewBegins
  <2>3. User(again).id = again /\ again # 0
    BY <1>3 DEF User, Redelivers
  <2>4. again > past.users
    BY <2>2, <2>3 DEF AllSince
  <2> QED BY <2>2, <2>3, <2>4
<1>4. CASE Reports
  <2>1. Report(troubles + 1) \in MessageType /\ Begins(Report(troubles + 1), 0, FALSE)
    <3>1. troubles + 1 \in Nat
      BY <1>1
    <3>2. Begins(Report(troubles + 1), 0, FALSE)
      BY <1>4 DEF Reports
    <3> QED BY <3>1, <3>2, MessageTypes
  <2> DEFINE input == Report(troubles + 1)
  <2> HIDE DEF input
  <2>2. /\ ~past.overlapped /\ ~clearing' /\ again' = 0
        /\ turn'.user = IF 0 = 1 THEN input.id ELSE 0
        /\ past'.users = past.users /\ past'.made = past.made
    <3>1. input \in MessageType /\ Begins(input, 0, FALSE) /\ 0 \in {0, 1} /\ FALSE \in BOOLEAN
      BY <2>1 DEF input
    <3> QED BY <3>1, SinceNewBegins, Zenon
  <2> QED BY <2>2
<1>5. CASE ~Receives /\ ~Redelivers /\ ~Reports
  <2>1. past' = past
    BY <1>5 DEF LoopNext, Runs, Refuses, EntersLoop, MaxIterations, HardStepCap, WallTimeout, Iterates,
                OverLimit, ErrorReply, Replies, CallsTools, AnswersUnrun, StartsTool, EndsTool,
                HaltsWhenIdle, Saved, JournalFails, TurnFails, Steers, StopsWhenIdle, Stops, NewStops,
                Crashes, Consolidates, Rewinds, Leaves, Answers
  <2>2. /\ ~past.overlapped
        /\ again = 0 \/ again > past.users
        /\ at # "idle" => turn.user = 0 \/ turn.user > past.users
        /\ clearing => at = "idle" /\ again = 0
    BY <2>1 DEF AllSince
  <2>3. CASE Crashes
    <3>1. at' = "idle" /\ clearing' = FALSE /\ again' = IF at # "idle" /\ turn.open THEN turn.user ELSE 0
      BY <2>3 DEF Crashes, NoTurn
    <3> QED BY <2>1, <2>2, <3>1
  <2>4. CASE Stops \/ NewStops
    <3>1. at' = "idle" /\ again' = 0
      BY <2>4 DEF Stops, NewStops, Cancelled, NoTurn
    <3> QED BY <2>1, <2>2, <3>1
  <2>5. CASE TurnFails \/ Saved
    <3>1. at' = "idle" /\ UNCHANGED <<again, clearing>>
      BY <2>5 DEF TurnFails, Saved, NoTurn
    <3> QED BY <2>1, <2>2, <3>1
  <2>6. CASE StopsWhenIdle
    <3>1. UNCHANGED <<at, again, clearing>> /\ turn'.user = turn.user
      BY <1>1, <2>6 DEF StopsWhenIdle
    <3> QED BY <2>1, <2>2, <3>1
  <2>7. CASE Steers \/ Consolidates \/ Rewinds
    <3>1. UNCHANGED <<at, again, clearing, turn>>
      BY <2>7 DEF Steers, Consolidates, Rewinds
    <3> QED BY <2>1, <2>2, <3>1
  <2>8. CASE JournalFails
    <3>1. UNCHANGED <<again, clearing, turn>> /\ at = "tools"
      BY <2>8 DEF JournalFails
    <3> QED BY <2>1, <2>2, <3>1
  <2>9. CASE Runs /\ ~Saved
    <3>1. UNCHANGED <<again, clearing, turn>> /\ at # "idle"
      BY <2>9 DEF Runs, Refuses, EntersLoop, MaxIterations, HardStepCap, WallTimeout, Iterates,
                OverLimit, ErrorReply, Replies, CallsTools, AnswersUnrun, StartsTool, EndsTool,
                HaltsWhenIdle, Leaves, Answers, MayIterate
    <3> QED BY <2>1, <2>2, <3>1
  <2> QED BY <1>5, <2>3, <2>4, <2>5, <2>6, <2>7, <2>8, <2>9 DEF LoopNext
<1> QED BY <1>2, <1>3, <1>4, <1>5

LEMMA SinceNewStep ==
  ASSUME LoopTypeOK, AllCounted, AllSince, [LoopNext]_loopVars
  PROVE  AllSince'
<1> USE DEF session, loop, journal, counts
<1>1. /\ {users, made, troubles} \subseteq Nat /\ past.users \in Nat /\ past.made \in Nat
      /\ past.users <= users /\ past.made <= made /\ batch \in Seq(Nat)
  BY DEF LoopTypeOK, AllSince
<1>2. users' \in {users, users + 1} /\ made' \in {made, made + 1} /\ troubles' \in {troubles, troubles + 1}
  BY LoopSteps
<1>3. CASE NewClears
  <2>1. /\ past'.users = users /\ past'.made = made /\ past'.overlapped = past.overlapped
        /\ UNCHANGED <<users, made, at, turn, again, messages>> /\ clearing /\ ~clearing'
    BY <1>3 DEF NewClears, LoopTypeOK
  <2>2. Said' = ToSet(messages)
    BY <1>3, SetOfList DEF NewClears, Said, Closed
  <2>3. ~past.overlapped => Said' = {} /\ at = "idle" /\ again = 0
    BY <2>1, <2>2, SetOfList DEF AllSince, AllCounted
  <2> QED BY <1>1, <2>1, <2>3 DEF AllSince
<1>4. CASE UNCHANGED loopVars
  <2>1. UNCHANGED <<past, users, made, again, at, turn, clearing>> /\ Said' = Said
    BY <1>4, SaidSame DEF loopVars
  <2> QED BY <2>1 DEF AllSince, IsSince
<1>5. CASE LoopNext /\ ~NewClears
  <2>1. past'.users = past.users /\ past'.made = past.made
    <3>1. past \in [shifted : BOOLEAN, overlapped : BOOLEAN, users : Nat, made : Nat]
      BY DEF LoopTypeOK
    <3> QED BY <1>5, <3>1 DEF LoopNext, Runs, Refuses, EntersLoop, MaxIterations, HardStepCap,
                WallTimeout, Iterates, Receives, Redelivers, Reports, Begins,
                OverLimit, ErrorReply, Replies, CallsTools, AnswersUnrun, StartsTool, EndsTool,
                HaltsWhenIdle, Saved, JournalFails, TurnFails, Steers, StopsWhenIdle, Stops, NewStops,
                Crashes, Consolidates, Rewinds, Leaves, Answers
  <2>2. past'.users <= users' /\ past'.made <= made'
    BY <1>1, <1>2, <2>1
  <2>3. ASSUME ~past'.overlapped
        PROVE  /\ \A m \in Said' : IsSince(m)'
               /\ again' = 0 \/ again' > past'.users
               /\ at' # "idle" => turn'.user = 0 \/ turn'.user > past'.users
               /\ clearing' => at' = "idle" /\ again' = 0
    <3>1. /\ ~past.overlapped
          /\ again' = 0 \/ again' > past.users
          /\ at' # "idle" => turn'.user = 0 \/ turn'.user > past.users
          /\ clearing' => at' = "idle" /\ again' = 0
      BY <1>5, <2>3, SinceNewTurns
    <3>2. ASSUME NEW m \in Said' PROVE IsSince(m)'
      <4>1. m \in Said \/ NewMessage(m)
        BY <1>5, SaidStep
      <4>2. CASE m \in Said
        BY <2>1, <3>1, <4>2 DEF AllSince, IsSince
      <4>3. CASE m \in {Note, Pivot}
        BY <4>3 DEF IsSince, Note, Pivot
      <4>4. CASE users' = users + 1 /\ m = User(users')
        BY <1>1, <2>1, <4>4 DEF IsSince, User
      <4>5. CASE again # 0 /\ m = User(again)
        <5>1. again > past.users
          BY <3>1, <4>5 DEF AllSince
        <5> QED BY <2>1, <4>5, <5>1 DEF IsSince, User
      <4>6. CASE troubles' = troubles + 1 /\ m = Report(troubles')
        BY <1>1, <4>6 DEF IsSince, Report
      <4>7. CASE made' = made + 1 /\ \E cs \in SUBSET Nat : m = Assistant(made', cs)
        BY <1>1, <2>1, <4>7 DEF IsSince, Assistant
      <4>8. CASE \E k \in DOMAIN batch : m = Result(batch[k])
        BY <4>8 DEF IsSince, Result
      <4> QED BY <4>1, <4>2, <4>3, <4>4, <4>5, <4>6, <4>7, <4>8 DEF NewMessage
    <3> QED BY <2>1, <3>1, <3>2
  <2> QED BY <2>2, <2>3 DEF AllSince
<1> QED BY <1>3, <1>4, <1>5

-----------------------------------------------------------------------------
(* What the session has once                                               *)

LEMMA SingleAppend ==
  ASSUME NEW list \in Lists, NEW m \in MessageType, Single(list), Spoken(m) => m \notin ToSet(list)
  PROVE  Single(Append(list, m))
<1> DEFINE new == Append(list, m)
<1>1. Len(list) \in Nat /\ new \in Lists /\ Len(new) = Len(list) + 1 /\ new[Len(list) + 1] = m
      /\ \A i \in 1..Len(list) : new[i] = list[i]
  BY DEF Lists
<1>2. \A i \in 1..Len(list) : list[i] \in ToSet(list) /\ i \in DOMAIN list
  <2>1. ToSet(list) = {list[i] : i \in 1..Len(list)} /\ DOMAIN list = 1..Len(list)
    BY SetOfList, ListTypes
  <2> QED BY <2>1
<1>3. DOMAIN new = 1 .. Len(list) + 1
  <2> HIDE DEF new
  <2> QED BY <1>1, ListTypes
<1> HIDE DEF new
<1>4. ASSUME NEW i \in DOMAIN new, NEW j \in DOMAIN new, new[i] = new[j], Spoken(new[i])
      PROVE  i = j
  <2>1. (i \in 1..Len(list) \/ i = Len(list) + 1) /\ (j \in 1..Len(list) \/ j = Len(list) + 1)
    BY <1>1, <1>3
  <2>2. CASE i \in 1..Len(list) /\ j \in 1..Len(list)
    <3>1. list[i] = list[j] /\ Spoken(list[i])
      BY <1>1, <1>4, <2>2
    <3> QED BY <1>2, <2>2, <3>1 DEF Single
  <2>3. CASE i = Len(list) + 1 /\ j \in 1..Len(list)
    BY <1>1, <1>2, <1>4, <2>3
  <2>4. CASE i \in 1..Len(list) /\ j = Len(list) + 1
    BY <1>1, <1>2, <1>4, <2>4
  <2> QED BY <2>1, <2>2, <2>3, <2>4
<1> QED BY <1>4 DEF Single, new

LEMMA SingleBehind ==
  ASSUME NEW list \in Lists, NEW n \in 0..Len(list), Single(list)
  PROVE  Single(Behind(list, n))
<1> DEFINE q == Behind(list, n)
<1>1. /\ q \in Lists /\ Len(q) = Len(list) - n /\ Len(list) \in Nat
      /\ \A i \in 1 .. Len(list) - n : q[i] = list[n + i]
  <2>1. Len(list) \in Nat /\ list \in Seq(MessageType)
    BY ListTypes DEF Lists
  <2>2. /\ q \in Seq(MessageType) /\ Len(q) = Len(list) - n
        /\ \A i \in 1 .. Len(list) - n : q[i] = list[n + i]
    BY <2>1, BehindIs
  <2> HIDE DEF q
  <2> QED BY <2>1, <2>2 DEF Lists
<1> HIDE DEF q
<1>2. DOMAIN q = 1 .. Len(list) - n /\ DOMAIN list = 1..Len(list)
  BY <1>1, ListTypes
<1>3. ASSUME NEW i \in DOMAIN q, NEW j \in DOMAIN q, q[i] = q[j], Spoken(q[i]) PROVE i = j
  <2>1. n + i \in DOMAIN list /\ n + j \in DOMAIN list /\ q[i] = list[n + i] /\ q[j] = list[n + j]
    BY <1>1, <1>2
  <2>2. n + i = n + j
    BY <1>3, <2>1 DEF Single
  <2> QED BY <1>2, <2>2
<1> QED BY <1>3 DEF Single, q

\* The first k messages of a list.
LEMMA FrontIs ==
  ASSUME NEW list \in Lists, NEW k \in 0..Len(list)
  PROVE  /\ SubSeq(list, 1, k) \in Lists /\ Len(SubSeq(list, 1, k)) = k
         /\ \A i \in 1..k : SubSeq(list, 1, k)[i] = list[i]
<1>1. Len(list) \in Nat /\ k \in Nat /\ k <= Len(list)
  BY ListTypes
<1>2. \A i \in 1..k : list[i] \in MessageType
  BY <1>1 DEF Lists
<1>3. 1 \in Int /\ k \in Int
  BY <1>1
<1>4. /\ SubSeq(list, 1, k) \in Seq(MessageType)
      /\ Len(SubSeq(list, 1, k)) = IF 1 <= k THEN k - 1 + 1 ELSE 0
      /\ \A i \in 1 .. k - 1 + 1 : SubSeq(list, 1, k)[i] = list[1 + i - 1]
  BY <1>2, <1>3, SubSeqProperties
<1> QED BY <1>1, <1>4 DEF Lists

LEMMA SingleFront ==
  ASSUME NEW list \in Lists, NEW k \in 0..Len(list), Single(list)
  PROVE  Single(SubSeq(list, 1, k))
<1> DEFINE q == SubSeq(list, 1, k)
<1>1. q \in Lists /\ Len(q) = k /\ Len(list) \in Nat /\ \A i \in 1..k : q[i] = list[i]
  BY FrontIs, ListTypes
<1> HIDE DEF q
<1>2. DOMAIN q = 1..k /\ \A i \in 1..k : i \in DOMAIN list
  BY <1>1, ListTypes
<1> QED BY <1>1, <1>2 DEF Single, q

\* What is added to a list is in the session neither before nor after.
LEMMA AddsLonger ==
  ASSUME NEW list \in Lists, NEW n \in Nat, NEW old, Adds(list, n, old), NEW more \in Lists,
         \A i \in DOMAIN more : Spoken(more[i]) =>
           more[i] \notin ToSet(old) \cup ToSet(list) /\ \A j \in DOMAIN more : more[i] = more[j] => i = j
  PROVE  Adds(list \o more, n, old)
<1> DEFINE new == list \o more
<1>1. /\ Len(list) \in Nat /\ Len(more) \in Nat /\ Len(new) = Len(list) + Len(more)
      /\ \A i \in 1..Len(list) : new[i] = list[i]
      /\ \A i \in 1..Len(more) : new[Len(list) + i] = more[i]
  BY Longer
<1>2. DOMAIN more = 1..Len(more) /\ \A i \in 1..Len(list) : list[i] \in ToSet(list)
  BY ListTypes, SetOfList
<1>3. \A i \in n + 1 .. Len(new) : i \in n + 1 .. Len(list) \/ i - Len(list) \in 1..Len(more)
  <2> HIDE DEF new
  <2> QED BY <1>1
<1> HIDE DEF new
<1>4. n <= Len(list)
  BY DEF Adds
<1>5. \A i \in 1..n : new[i] \in ToSet(old)
  <2>1. \A i \in 1..n : i \in 1..Len(list) /\ list[i] \in ToSet(old)
    BY <1>1, <1>4 DEF Adds
  <2> QED BY <1>1, <2>1
<1>6. ASSUME NEW i \in n + 1 .. Len(new), Spoken(new[i])
      PROVE  new[i] \notin ToSet(old) /\ \A j \in n + 1 .. Len(new) : new[i] = new[j] => i = j
  <2>1. CASE i \in n + 1 .. Len(list)
    <3>1. new[i] = list[i] /\ i \in 1..Len(list)
      BY <1>1, <2>1
    <3>2. list[i] \notin ToSet(old) /\ \A j \in n + 1 .. Len(list) : list[i] = list[j] => i = j
      BY <1>6, <2>1, <3>1 DEF Adds
    <3>3. ASSUME NEW j \in n + 1 .. Len(new), new[i] = new[j] PROVE i = j
      <4>1. CASE j \in n + 1 .. Len(list)
        <5>1. new[j] = list[j]
          BY <1>1, <4>1
        <5> QED BY <3>1, <3>2, <3>3, <4>1, <5>1
      <4>2. CASE j - Len(list) \in 1..Len(more)
        <5>1. Len(list) + (j - Len(list)) = j
          BY <1>1
        <5>2. new[j] = more[j - Len(list)]
          BY <1>1, <4>2, <5>1
        <5>3. more[j - Len(list)] = list[i] /\ Spoken(more[j - Len(list)])
          BY <1>6, <3>1, <3>3, <5>2
        <5>4. list[i] \notin ToSet(list)
          BY <1>2, <4>2, <5>3
        <5> QED BY <1>2, <3>1, <5>4
      <4> QED BY <1>3, <4>1, <4>2
    <3> QED BY <3>1, <3>2, <3>3
  <2>2. CASE i - Len(list) \in 1..Len(more)
    <3>1. Len(list) + (i - Len(list)) = i
      BY <1>1
    <3>2. new[i] = more[i - Len(list)]
      BY <1>1, <2>2, <3>1
    <3>3. /\ new[i] \notin ToSet(old) /\ new[i] \notin ToSet(list)
          /\ \A j \in 1..Len(more) : new[i] = more[j] => i - Len(list) = j
      BY <1>2, <1>6, <2>2, <3>2
    <3>4. ASSUME NEW j \in n + 1 .. Len(new), new[i] = new[j] PROVE i = j
      <4>1. CASE j \in n + 1 .. Len(list)
        <5>1. new[j] = list[j] /\ list[j] \in ToSet(list)
          BY <1>1, <1>2, <4>1
        <5> QED BY <3>3, <3>4, <5>1
      <4>2. CASE j - Len(list) \in 1..Len(more)
        <5>1. Len(list) + (j - Len(list)) = j
          BY <1>1
        <5>2. new[j] = more[j - Len(list)]
          BY <1>1, <4>2, <5>1
        <5>3. i - Len(list) = j - Len(list)
          BY <3>3, <3>4, <4>2, <5>2
        <5> QED BY <1>1, <5>3
      <4> QED BY <1>3, <4>1, <4>2
    <3> QED BY <3>3, <3>4
  <2> QED BY <1>3, <1>6, <2>1, <2>2
<1>7. n <= Len(new)
  BY <1>1, <1>4
<1> QED BY <1>5, <1>6, <1>7 DEF Adds, new

\* What the session has once, and all of, when the turn has left it.
LEMMA GoesOnce ==
  ASSUME LoopTypeOK, NEW list \in Lists, GoesIntoSession(list), Single(transcript),
         Adds(list, skip, transcript)
  PROVE  Single(transcript') /\ ToSet(messages') \subseteq ToSet(transcript')
<1>1. transcript \in Lists /\ skip \in Nat /\ skip <= Len(list) /\ Len(list) \in Nat
  BY ListTypes DEF LoopTypeOK, Adds
<1> DEFINE tail == Behind(list, skip)
<1>2. transcript' = transcript \o tail /\ messages' = list
  BY DEF GoesIntoSession, Behind
<1>3. tail \in Lists /\ Len(tail) = Len(list) - skip
      /\ \A i \in 1 .. Len(list) - skip : tail[i] = list[skip + i]
  <2>1. skip \in 0..Len(list) /\ list \in Seq(MessageType)
    BY <1>1 DEF Lists
  <2>2. /\ tail \in Seq(MessageType) /\ Len(tail) = Len(list) - skip
        /\ \A i \in 1 .. Len(list) - skip : tail[i] = list[skip + i]
    BY <2>1, BehindIs
  <2> HIDE DEF tail
  <2> QED BY <2>2 DEF Lists
<1> HIDE DEF tail
<1>4. /\ transcript' \in Lists /\ Len(transcript) \in Nat
      /\ Len(transcript') = Len(transcript) + Len(tail) /\ Len(tail) \in Nat
      /\ \A i \in 1..Len(transcript) : transcript'[i] = transcript[i]
      /\ \A i \in 1..Len(tail) : transcript'[Len(transcript) + i] = tail[i]
      /\ \A i \in DOMAIN transcript' :
           i \in 1..Len(transcript) \/ \E j \in 1..Len(tail) : i = Len(transcript) + j
  BY <1>1, <1>2, <1>3, Longer
<1>5. ToSet(list) \subseteq ToSet(transcript')
  <2>1. ToSet(transcript') = ToSet(transcript) \cup ToSet(tail)
    BY <1>1, <1>2, <1>3, SetOfList
  <2>2. ASSUME NEW i \in 1..Len(list) PROVE list[i] \in ToSet(transcript')
    <3>1. CASE i <= skip
      <4>1. i \in 1..skip
        BY <1>1, <3>1
      <4> QED BY <2>1, <4>1 DEF Adds
    <3>2. CASE ~(i <= skip)
      <4>1. i - skip \in 1..Len(tail) /\ skip + (i - skip) = i
        BY <1>1, <1>3, <3>2
      <4>2. tail[i - skip] = list[i]
        BY <1>3, <4>1
      <4>3. tail[i - skip] \in ToSet(tail)
        BY <1>3, <4>1, SetOfList
      <4> QED BY <2>1, <4>2, <4>3
    <3> QED BY <3>1, <3>2
  <2>3. ToSet(list) = {list[i] : i \in 1..Len(list)}
    BY SetOfList
  <2> QED BY <2>2, <2>3
<1>6. \A i \in 1..Len(transcript) : transcript[i] \in ToSet(transcript) /\ i \in DOMAIN transcript
  BY <1>1, SetOfList, ListTypes
<1>7. \A i \in 1..Len(tail) : Spoken(tail[i]) =>
        tail[i] \notin ToSet(transcript) /\ \A j \in 1..Len(tail) : tail[i] = tail[j] => i = j
  <2>1. \A i \in 1..Len(tail) : skip + i \in skip + 1 .. Len(list) /\ tail[i] = list[skip + i]
    BY <1>1, <1>3
  <2>2. ASSUME NEW i \in 1..Len(tail), Spoken(tail[i]), NEW j \in 1..Len(tail), tail[i] = tail[j]
        PROVE  i = j
    <3>1. skip + i = skip + j
      BY <2>1, <2>2 DEF Adds
    <3> QED BY <1>1, <3>1
  <2>3. ASSUME NEW i \in 1..Len(tail), Spoken(tail[i]) PROVE tail[i] \notin ToSet(transcript)
    BY <2>1, <2>3 DEF Adds
  <2> QED BY <2>2, <2>3
<1>8. ASSUME NEW i \in DOMAIN transcript', NEW j \in DOMAIN transcript',
             transcript'[i] = transcript'[j], Spoken(transcript'[i])
      PROVE  i = j
  <2>1. CASE i \in 1..Len(transcript) /\ j \in 1..Len(transcript)
    <3>1. transcript[i] = transcript[j] /\ Spoken(transcript[i])
      BY <1>4, <1>8, <2>1
    <3> QED BY <1>6, <2>1, <3>1 DEF Single
  <2>2. CASE i \in 1..Len(transcript) /\ \E k \in 1..Len(tail) : j = Len(transcript) + k
    <3>1. PICK k \in 1..Len(tail) : j = Len(transcript) + k
      BY <2>2
    <3>2. tail[k] = transcript[i] /\ Spoken(tail[k])
      BY <1>4, <1>8, <2>2, <3>1
    <3> QED BY <1>6, <1>7, <2>2, <3>2
  <2>3. CASE j \in 1..Len(transcript) /\ \E k \in 1..Len(tail) : i = Len(transcript) + k
    <3>1. PICK k \in 1..Len(tail) : i = Len(transcript) + k
      BY <2>3
    <3>2. tail[k] = transcript[j] /\ Spoken(tail[k])
      BY <1>4, <1>8, <2>3, <3>1
    <3> QED BY <1>6, <1>7, <2>3, <3>2
  <2>4. CASE (\E k \in 1..Len(tail) : i = Len(transcript) + k) /\ \E k \in 1..Len(tail) : j = Len(transcript) + k
    <3>1. PICK k \in 1..Len(tail) : i = Len(transcript) + k
      BY <2>4
    <3>2. PICK l \in 1..Len(tail) : j = Len(transcript) + l
      BY <2>4
    <3>3. tail[k] = tail[l] /\ Spoken(tail[k])
      BY <1>4, <1>8, <3>1, <3>2
    <3> QED BY <1>7, <3>1, <3>2, <3>3
  <2> QED BY <1>4, <2>1, <2>2, <2>3, <2>4
<1> QED BY <1>2, <1>5, <1>8 DEF Single

\* As long as no turn has begun from a checkpoint, with a note or while /new waited.
Plain == ~past.shifted /\ ~past.overlapped

\* The parts of AllOnce.
SessionOnce == Single(transcript) /\ Single(disk)
BatchNew ==
  /\ IsInjective(batch)
  /\ \A k \in DOMAIN batch : Result(batch[k]) \notin ToSet(transcript) \cup ToSet(messages)
TurnOnce ==
  /\ at \notin {"idle", "saving"} => Adds(messages, skip, transcript)
  /\ at = "saving" => ToSet(messages) \subseteq ToSet(transcript)

LEMMA OnceIs == AllOnce <=> (Plain => SessionOnce /\ TurnOnce /\ BatchNew)
BY DEF AllOnce, Plain, SessionOnce, TurnOnce, BatchNew

LEMMA NoBatch == batch' = <<>> => BatchNew'
BY DEF BatchNew, IsInjective

LEMMA OnceInit == LoopInit => AllOnce
<1> SUFFICES ASSUME LoopInit PROVE AllOnce
  OBVIOUS
<1>1. transcript = <<>> /\ disk = <<>> /\ at = "idle" /\ batch = <<>>
  BY DEF LoopInit
<1> QED BY <1>1 DEF AllOnce, Single, IsInjective

LEMMA OnceBegins ==
  ASSUME LoopTypeOK, SessionOnce, NEW input \in MessageType, NEW presaved \in {0, 1},
         Begins(input, presaved, FALSE), checkpoint = <<>>,
         presaved = 1 => ~Spoken(input), input \notin ToSet(transcript) \/ ~Spoken(input)
  PROVE  SessionOnce' /\ TurnOnce' /\ BatchNew'
<1>1. transcript \in Lists /\ at = "idle" /\ at' = "starting" /\ batch' = batch /\ batch = <<>>
  BY DEF LoopTypeOK, Begins
<1> DEFINE history == History(transcript, cursor)
<1>2. history \in Lists /\ Len(history) \in Nat /\ ToSet(history) \subseteq ToSet(transcript)
  <2>1. PICK n \in 0..Len(transcript) : history = Behind(transcript, n)
    BY HistoryType
  <2>2. n \in Nat /\ n <= Len(transcript)
    BY <1>1, ListTypes
  <2>3. ToSet(history) \subseteq ToSet(transcript)
    <3> HIDE DEF history
    <3> QED BY <1>1, <2>1, <2>2, SetOfList
  <2>4. history \in Lists
    BY HistoryType
  <2> HIDE DEF history
  <2> QED BY <2>3, <2>4, ListTypes
<1>3. messages' = history \o <<>> \o <<input>> /\ skip' = Len(history) + presaved
  BY DEF Begins
<1>4. /\ transcript' = IF presaved = 1 THEN Append(transcript, input) ELSE transcript
      /\ disk' \in {disk, transcript'}
  BY DEF Begins
<1> HIDE DEF history
<1>5. messages' = history \o <<input>>
  <2>1. history \o <<>> = history
    BY <1>2 DEF Lists
  <2> QED BY <1>3, <2>1
<1>6. <<input>> \in Lists /\ Len(<<input>>) = 1 /\ <<input>>[1] = input
  BY ListTypes
<1>7. /\ messages' \in Lists /\ Len(messages') = Len(history) + 1
      /\ \A i \in 1..Len(history) : messages'[i] = history[i]
      /\ messages'[Len(history) + 1] = input
  <2> DEFINE one == <<input>>
  <2>1. one \in Lists /\ Len(one) = 1 /\ one[1] = input /\ messages' = history \o one
    BY <1>5, <1>6
  <2> HIDE DEF one
  <2>2. /\ messages' \in Lists /\ Len(messages') = Len(history) + Len(one)
        /\ \A i \in 1..Len(history) : messages'[i] = history[i]
        /\ \A i \in 1..Len(one) : messages'[Len(history) + i] = one[i]
    BY <1>2, <2>1, Longer
  <2>3. 1 \in 1..Len(one)
    BY <2>1
  <2> QED BY <2>1, <2>2, <2>3
<1>8. Single(transcript') /\ Single(disk')
  <2>1. Single(transcript) /\ Single(disk)
    BY DEF SessionOnce
  <2>2. presaved = 1 => Single(Append(transcript, input))
    BY <1>1, <2>1, SingleAppend
  <2> QED BY <1>4, <2>1, <2>2
<1>9. ToSet(transcript) \subseteq ToSet(transcript') /\ (presaved = 1 => input \in ToSet(transcript'))
  <2>1. ToSet(Append(transcript, input)) = ToSet(transcript) \cup {input}
    BY <1>1, SetOfList
  <2> QED BY <1>4, <2>1
<1>10. \A i \in 1..Len(history) : messages'[i] \in ToSet(transcript')
  <2>1. \A i \in 1..Len(history) : history[i] \in ToSet(history)
    BY <1>2, SetOfList
  <2> QED BY <1>2, <1>7, <1>9, <2>1
<1>11. Adds(messages', skip', transcript')
  <2>1. CASE presaved = 1
    <3>1. skip' = Len(messages')
      BY <1>2, <1>3, <1>7, <2>1
    <3>2. ASSUME NEW i \in 1..skip' PROVE messages'[i] \in ToSet(transcript')
      <4>1. i \in 1..Len(history) \/ i = Len(history) + 1
        BY <1>2, <1>3, <2>1
      <4> QED BY <1>7, <1>9, <1>10, <2>1, <4>1
    <3>3. skip' \in Nat /\ skip' + 1 .. Len(messages') = {}
      BY <1>2, <1>7, <3>1
    <3> QED BY <3>1, <3>2, <3>3 DEF Adds
  <2>2. CASE presaved = 0
    <3>1. skip' = Len(history) /\ transcript' = transcript
      BY <1>2, <1>3, <1>4, <2>2
    <3>2. \A i \in skip' + 1 .. Len(messages') : i = Len(history) + 1
      BY <1>2, <1>7, <3>1
    <3>3. skip' <= Len(messages')
      BY <1>2, <1>7, <3>1
    <3> QED BY <1>7, <1>10, <3>1, <3>2, <3>3 DEF Adds
  <2> QED BY <2>1, <2>2
<1>12. Adds(messages, skip, transcript)'
  BY <1>11 DEF Adds
<1>13. SessionOnce'
  BY <1>8 DEF SessionOnce, Single
<1>14. TurnOnce'
  BY <1>1, <1>12 DEF TurnOnce
<1> QED BY <1>1, <1>13, <1>14, NoBatch

LEMMA OnceGoes ==
  ASSUME LoopTypeOK, SessionOnce, NEW list \in Lists, GoesIntoSession(list), disk' = disk,
         Adds(list, skip, transcript)
  PROVE  SessionOnce' /\ TurnOnce' /\ BatchNew'
<1>1. Single(transcript) /\ Single(disk)
  BY DEF SessionOnce
<1>2. Single(transcript') /\ ToSet(messages') \subseteq ToSet(transcript')
  BY <1>1, GoesOnce
<1>3. at' = "saving" /\ batch' = <<>>
  BY DEF GoesIntoSession
<1>4. SessionOnce'
  BY <1>1, <1>2 DEF SessionOnce, Single
<1>5. TurnOnce'
  BY <1>2, <1>3 DEF TurnOnce
<1> QED BY <1>3, <1>4, <1>5, NoBatch

LEMMA OnceSame ==
  ASSUME SessionOnce, TurnOnce, BatchNew,
         UNCHANGED <<transcript, disk, messages, skip, batch>>,
         at' = at \/ (at \notin {"idle", "saving"} /\ at' \notin {"idle", "saving"})
  PROVE  SessionOnce' /\ TurnOnce' /\ BatchNew'
<1>1. SessionOnce'
  BY DEF SessionOnce, Single
<1>2. BatchNew'
  BY DEF BatchNew, IsInjective
<1>3. Adds(messages, skip, transcript) => Adds(messages, skip, transcript)'
  BY DEF Adds
<1>4. TurnOnce'
  BY <1>3 DEF TurnOnce
<1> QED BY <1>1, <1>2, <1>4

\* The list of the turn has grown by more, and the turn goes on.
LEMMA OnceLonger ==
  ASSUME LoopTypeOK, SessionOnce, TurnOnce, at \notin {"idle", "saving"},
         at' \notin {"idle", "saving"}, UNCHANGED <<transcript, disk, skip>>,
         Adds(messages', skip, transcript)
  PROVE  SessionOnce' /\ TurnOnce'
<1>1. SessionOnce'
  BY DEF SessionOnce, Single
<1>2. Adds(messages, skip, transcript)'
  BY DEF Adds
<1> QED BY <1>1, <1>2 DEF TurnOnce

LEMMA OnceIdle ==
  ASSUME SessionOnce, at' = "idle", batch' = <<>>,
         transcript' \in {transcript, disk}, disk' \in {disk, transcript}
  PROVE  SessionOnce' /\ TurnOnce' /\ BatchNew'
<1>1. Single(transcript) /\ Single(disk)
  BY DEF SessionOnce
<1>2. Single(transcript') /\ Single(disk')
  BY <1>1
<1>3. SessionOnce'
  BY <1>2 DEF SessionOnce, Single
<1>4. TurnOnce'
  BY DEF TurnOnce
<1> QED BY <1>3, <1>4, NoBatch

\* A message the model has not made yet is nowhere, nor is a result of its calls.
LEMMA Unsaid ==
  ASSUME LoopTypeOK, AllCounted
  PROVE  /\ \A cs : Assistant(made + 1, cs) \notin Said
         /\ \A k \in Nat : k > 0 => Result(10 * (made + 1) + k) \notin Said
         /\ Report(troubles + 1) \notin Said
<1>1. made \in Nat /\ troubles \in Nat
  BY DEF LoopTypeOK
<1>2. \A m \in Said : Counted(m)
  BY DEF AllCounted
<1>3. ASSUME NEW cs PROVE ~Counted(Assistant(made + 1, cs))
  BY <1>1 DEF Counted, Assistant
<1>4. ASSUME NEW k \in Nat, k > 0 PROVE ~Counted(Result(10 * (made + 1) + k))
  BY <1>1, <1>4 DEF Counted, Result
<1>5. ~Counted(Report(troubles + 1))
  BY <1>1 DEF Counted, Report
<1> QED BY <1>2, <1>3, <1>4, <1>5

\* The batch's results are new to the list, and one by one are the list's next.
LEMMA OnceAnswers ==
  ASSUME LoopTypeOK, SessionOnce, TurnOnce, BatchNew, at = "tools", Answers
  PROVE  SessionOnce' /\ TurnOnce' /\ BatchNew'
<1>1. /\ batch \in Seq(Nat) /\ batch # <<>> /\ messages \in Lists /\ Len(batch) \in Nat
      /\ skip \in Nat /\ Head(batch) = batch[1] /\ Head(batch) \in Nat /\ 1 \in DOMAIN batch
      /\ DOMAIN batch = 1..Len(batch)
  BY DEF LoopTypeOK
<1> DEFINE result == Result(Head(batch))
           one == <<result>>
<1>2. PICK p \in Pivots :
        messages' = messages \o <<Result(Head(batch))>> \o (IF Len(batch) = 1 THEN p ELSE <<>>)
  BY DEF Answers
<1> DEFINE end == IF Len(batch) = 1 THEN p ELSE <<>>
<1>3. /\ UNCHANGED <<transcript, disk, skip>> /\ batch' = Tail(batch)
      /\ at' \in {"loop", "tools"}
  BY DEF Answers, session
<1>4. result \in MessageType /\ result \notin ToSet(transcript) \cup ToSet(messages)
  BY <1>1, MessageTypes DEF BatchNew
<1>5. end \in Lists /\ ToSet(end) \subseteq {Pivot} /\ \A i \in DOMAIN end : ~Spoken(end[i])
  <2>1. p \in Lists /\ ToSet(p) \subseteq {Pivot} /\ <<>> \in Lists /\ ToSet(<<>>) = {}
    BY SetOfPivots, SetOfList, ListTypes
  <2>2. end \in Lists /\ ToSet(end) \subseteq {Pivot}
    BY <2>1
  <2> HIDE DEF end
  <2>3. \A i \in DOMAIN end : end[i] = Pivot
    BY <2>2 DEF ToSet
  <2> QED BY <2>2, <2>3 DEF Spoken, Pivot
<1>6. messages' = messages \o one \o end
  BY <1>2
<1> HIDE DEF result, end
<1>7. one \in Lists /\ ToSet(one) = {result} /\ \A i \in DOMAIN one : i = 1 /\ one[i] = result
  <2>1. one \in Lists /\ ToSet(one) = {result}
    BY <1>4, ListTypes, SetOfList
  <2>2. \A i \in DOMAIN one : i = 1 /\ one[i] = result
    OBVIOUS
  <2> QED BY <2>1, <2>2
<1> HIDE DEF one
<1>8. Adds(messages, skip, transcript)
  BY DEF TurnOnce
<1>9. messages \o one \in Lists /\ Adds(messages \o one, skip, transcript)
  <2>1. \A i \in DOMAIN one : one[i] \notin ToSet(transcript) \cup ToSet(messages)
          /\ \A j \in DOMAIN one : one[i] = one[j] => i = j
    BY <1>4, <1>7
  <2> QED BY <1>1, <1>7, <1>8, <2>1, AddsLonger, ListTypes
<1>10. Adds(messages', skip, transcript)
  <2> DEFINE list == messages \o one
  <2>1. list \in Lists /\ Adds(list, skip, transcript) /\ messages' = list \o end
    BY <1>6, <1>9
  <2> HIDE DEF list
  <2> QED BY <1>1, <1>5, <2>1, AddsLonger
<1>11. SessionOnce' /\ TurnOnce'
  BY <1>3, <1>10, OnceLonger
<1>12. ToSet(messages') = ToSet(messages) \cup {result} \cup ToSet(end)
  <2>1. ToSet(messages \o one) = ToSet(messages) \cup ToSet(one)
    BY <1>1, <1>7, SetOfList
  <2>2. ToSet(messages') = ToSet(messages \o one) \cup ToSet(end)
    BY <1>5, <1>6, <1>9, SetOfList
  <2> QED BY <1>7, <2>1, <2>2
<1>13. ASSUME NEW k \in DOMAIN Tail(batch)
       PROVE  /\ k + 1 \in DOMAIN batch /\ Tail(batch)[k] = batch[k + 1] /\ k \in Nat
              /\ Result(Tail(batch)[k]) \notin ToSet(transcript') \cup ToSet(messages')
  <2>1. k + 1 \in DOMAIN batch /\ Tail(batch)[k] = batch[k + 1] /\ k \in Nat /\ k + 1 # 1
    BY <1>1
  <2>2. Result(batch[k + 1]) \notin ToSet(transcript) \cup ToSet(messages)
    BY <2>1 DEF BatchNew
  <2>3. batch[k + 1] # Head(batch)
    BY <1>1, <2>1 DEF BatchNew, IsInjective
  <2>4. Result(batch[k + 1]) # result
    BY <2>3 DEF result, Result
  <2>5. Result(batch[k + 1]) # Pivot
    BY DEF Result, Pivot
  <2> QED BY <1>3, <1>5, <1>12, <2>1, <2>2, <2>4, <2>5
<1>14. IsInjective(Tail(batch))
  <2>1. ASSUME NEW i \in DOMAIN Tail(batch), NEW j \in DOMAIN Tail(batch), Tail(batch)[i] = Tail(batch)[j]
        PROVE  i = j
    <3>1. i + 1 \in DOMAIN batch /\ j + 1 \in DOMAIN batch /\ i \in Nat /\ j \in Nat
          /\ batch[i + 1] = batch[j + 1]
      BY <1>13, <2>1
    <3>2. i + 1 = j + 1
      BY <3>1 DEF BatchNew, IsInjective
    <3> QED BY <3>1, <3>2
  <2> QED BY <2>1 DEF IsInjective
<1>15. BatchNew'
  BY <1>3, <1>13, <1>14 DEF BatchNew, IsInjective
<1> QED BY <1>11, <1>15

LEMMA HaltedAdds ==
  ASSUME LoopTypeOK, TurnOnce, BatchNew, at = "tools", NEW p \in Pivots
  PROVE  /\ messages \o Results(batch) \o p \in Lists
         /\ Adds(messages \o Results(batch) \o p, skip, transcript)
<1>1. /\ batch \in Seq(Nat) /\ messages \in Lists /\ skip \in Nat /\ Adds(messages, skip, transcript)
      /\ DOMAIN batch = 1..Len(batch)
  BY DEF LoopTypeOK, TurnOnce
<1> DEFINE results == Results(batch)
<1>2. /\ results \in Lists /\ Len(results) = Len(batch)
      /\ \A k \in 1..Len(batch) : results[k] = Result(batch[k])
  BY <1>1, BatchTypes
<1> HIDE DEF results
<1>3. DOMAIN results = DOMAIN batch
  BY <1>1, <1>2, ListTypes
<1>4. ASSUME NEW i \in DOMAIN results
      PROVE  /\ results[i] \notin ToSet(transcript) \cup ToSet(messages)
             /\ \A j \in DOMAIN results : results[i] = results[j] => i = j
  <2>1. results[i] = Result(batch[i]) /\ Result(batch[i]) \notin ToSet(transcript) \cup ToSet(messages)
    BY <1>1, <1>2, <1>3 DEF BatchNew
  <2>2. ASSUME NEW j \in DOMAIN results, results[i] = results[j] PROVE i = j
    <3>1. Result(batch[i]) = Result(batch[j])
      BY <1>1, <1>2, <1>3, <2>2
    <3>2. batch[i] = batch[j]
      BY <3>1 DEF Result
    <3> QED BY <1>3, <3>2 DEF BatchNew, IsInjective
  <2> QED BY <2>1, <2>2
<1> DEFINE list == messages \o results
<1>5. list \in Lists /\ Adds(list, skip, transcript)
  BY <1>1, <1>2, <1>4, AddsLonger, ListTypes
<1> HIDE DEF list
<1>6. p \in Lists /\ \A i \in DOMAIN p : ~Spoken(p[i])
  <2>1. p \in Lists /\ \A i \in DOMAIN p : p[i] = Pivot
    BY PivotsType DEF Pivots
  <2> QED BY <2>1 DEF Spoken, Pivot
<1>7. list \o p \in Lists /\ Adds(list \o p, skip, transcript)
  BY <1>1, <1>5, <1>6, AddsLonger, ListTypes
<1> QED BY <1>7 DEF list, results

LEMMA OnceRuns ==
  ASSUME LoopTypeOK, AllCounted, SessionOnce, TurnOnce, BatchNew, Runs
  PROVE  SessionOnce' /\ TurnOnce' /\ BatchNew'
<1> USE DEF session, loop, journal, counts
<1>1. /\ messages \in Lists /\ transcript \in Lists /\ steering.msgs \in Lists /\ made \in Nat
      /\ skip \in Nat /\ batch \in Seq(Nat) /\ (at = "tools" <=> batch # <<>>)
  BY DEF LoopTypeOK
<1>2. ToSet(messages) \subseteq Said /\ ToSet(transcript) \subseteq Said
  BY DEF Said
<1>3. at \notin {"idle", "saving"} => Adds(messages, skip, transcript)
  BY DEF TurnOnce
<1>4. ASSUME at \notin {"idle", "saving"}
      PROVE  /\ messages \o steering.msgs \in Lists
             /\ Adds(messages \o steering.msgs, skip, transcript)
  <2>1. \A i \in DOMAIN steering.msgs : ~Spoken(steering.msgs[i])
    BY DEF AllCounted, Spoken
  <2> QED BY <1>1, <1>3, <1>4, <2>1, SteeredList, AddsLonger
<1>5. ASSUME at \notin {"idle", "saving"}, NEW cs \in SUBSET Nat
      PROVE  /\ Append(messages, Assistant(made + 1, cs)) \in Lists
             /\ Adds(Append(messages, Assistant(made + 1, cs)), skip, transcript)
  <2> DEFINE m == Assistant(made + 1, cs)
             one == <<m>>
  <2>1. m \in MessageType /\ m \notin ToSet(transcript) \cup ToSet(messages)
    <3>1. made + 1 \in Nat
      BY <1>1
    <3>2. m \in MessageType
      BY <3>1, MessageTypes
    <3>3. m \notin Said
      BY Unsaid
    <3> HIDE DEF m
    <3> QED BY <1>2, <3>2, <3>3
  <2>2. one \in Lists /\ Append(messages, m) = messages \o one
        /\ \A i \in DOMAIN one : i = 1 /\ one[i] = m
    <3> HIDE DEF m
    <3> QED BY <1>1, <2>1, ListTypes DEF Lists
  <2> HIDE DEF m, one
  <2>3. \A i \in DOMAIN one :
          one[i] \notin ToSet(transcript) \cup ToSet(messages) /\ \A j \in DOMAIN one : i = j
    BY <2>1, <2>2
  <2>4. Adds(messages \o one, skip, transcript)
    BY <1>1, <1>3, <1>5, <2>2, <2>3, AddsLonger
  <2>5. messages \o one \in Lists
    BY <1>1, <2>2, ListTypes
  <2> QED BY <2>2, <2>4, <2>5 DEF m
<1>6. CASE Refuses
  BY <1>1, <1>3, <1>6, OnceGoes DEF Refuses
<1>7. CASE EntersLoop
  <2>1. at = "starting" /\ at' = "loop" /\ UNCHANGED <<transcript, disk, messages, skip, batch>>
    BY <1>7 DEF EntersLoop
  <2> QED BY <2>1, OnceSame
<1>8. CASE MaxIterations \/ HardStepCap \/ WallTimeout \/ OverLimit \/ ErrorReply
  <2>1. PICK list \in {messages, messages \o steering.msgs}, keep \in BOOLEAN : Leaves(list, keep)
    BY <1>8 DEF MaxIterations, HardStepCap, WallTimeout, OverLimit, ErrorReply, LoopTypeOK
  <2>2. at \in {"loop", "asking"}
    BY <1>8 DEF MaxIterations, HardStepCap, WallTimeout, OverLimit, ErrorReply, MayIterate
  <2>3. list \in Lists /\ Adds(list, skip, transcript)
    BY <1>1, <1>3, <1>4, <2>1, <2>2
  <2>4. GoesIntoSession(list) /\ disk' = disk
    BY <2>1 DEF Leaves
  <2> QED BY <2>3, <2>4, OnceGoes
<1>9. CASE Iterates
  <2>1. at = "loop" /\ at' = "asking" /\ UNCHANGED <<transcript, disk, skip, batch>>
        /\ messages' = messages \o steering.msgs
    BY <1>9 DEF Iterates, MayIterate
  <2>2. SessionOnce' /\ TurnOnce'
    BY <1>4, <2>1, OnceLonger
  <2>3. batch' = <<>>
    BY <1>1, <2>1
  <2> QED BY <2>2, <2>3, NoBatch
<1>10. CASE Replies
  <2> DEFINE list == Append(messages, Assistant(made + 1, {}))
  <2>1. at = "asking" /\ {} \in SUBSET Nat
    BY <1>10 DEF Replies
  <2>2. list \in Lists /\ Adds(list, skip, transcript)
    BY <1>5, <2>1
  <2>3. \/ Leaves(list, FALSE)
        \/ /\ messages' = list /\ at' = "loop" /\ UNCHANGED <<transcript, disk, skip, batch>>
    BY <1>10 DEF Replies
  <2> HIDE DEF list
  <2>4. CASE Leaves(list, FALSE)
    <3>1. GoesIntoSession(list) /\ disk' = disk
      BY <2>4 DEF Leaves
    <3> QED BY <2>2, <3>1, OnceGoes
  <2>5. CASE messages' = list /\ at' = "loop" /\ UNCHANGED <<transcript, disk, skip, batch>>
    <3>1. batch' = <<>>
      BY <1>1, <2>1, <2>5
    <3>2. SessionOnce' /\ TurnOnce'
      BY <2>1, <2>2, <2>5, OnceLonger
    <3> QED BY <3>1, <3>2, NoBatch
  <2> QED BY <2>3, <2>4, <2>5
<1>11. CASE \E n \in 1..MaxBatch : CallsTools(n)
  <2>1. PICK n \in 1..MaxBatch : CallsTools(n)
    BY <1>11
  <2> DEFINE cs == CallsOf(made + 1, n)
  <2>2. /\ cs \in Seq(Nat) /\ Len(cs) = n /\ n \in Nat
        /\ \A k \in 1..n : cs[k] = 10 * (made + 1) + k
        /\ ToSet(cs) \in SUBSET Nat
    <3>1. made + 1 \in Nat /\ n \in Nat
      BY <1>1, CapsAssumption
    <3>2. cs \in Seq(Nat) /\ Len(cs) = n /\ \A k \in 1..n : cs[k] = 10 * (made + 1) + k
      BY <3>1, CallsOfType
    <3> HIDE DEF cs
    <3>3. ToSet(cs) \in SUBSET Nat
      BY <3>2, BatchTypes
    <3> QED BY <3>1, <3>2, <3>3
  <2> DEFINE m == Assistant(made + 1, ToSet(cs))
  <2>3. /\ at = "asking" /\ at' = "tools" /\ messages' = Append(messages, m)
        /\ UNCHANGED <<transcript, disk, skip>> /\ batch' = cs
    BY <2>1 DEF CallsTools
  <2> HIDE DEF cs
  <2>4. messages' \in Lists /\ Adds(messages', skip, transcript)
    BY <1>5, <2>2, <2>3
  <2>5. SessionOnce' /\ TurnOnce'
    BY <2>3, <2>4, OnceLonger
  <2>6. m \in MessageType /\ m.role = "assistant"
    <3>1. made + 1 \in Nat
      BY <1>1
    <3> QED BY <2>2, <3>1, MessageTypes DEF Assistant
  <2> HIDE DEF m
  <2>7. ToSet(messages') = ToSet(messages) \cup {m}
    BY <1>1, <2>3, <2>6, SetOfList
  <2>8. ASSUME NEW k \in 1..n
        PROVE  Result(cs[k]) \notin ToSet(transcript') \cup ToSet(messages')
    <3>1. k \in Nat /\ k > 0 /\ cs[k] = 10 * (made + 1) + k
      BY <2>2
    <3>2. Result(cs[k]) \notin Said
      BY <3>1, Unsaid
    <3>3. Result(cs[k]) # m
      BY <2>6 DEF Result
    <3> QED BY <1>2, <2>3, <2>7, <3>2, <3>3
  <2>9. DOMAIN cs = 1..n
    BY <2>2
  <2>10. IsInjective(cs)
    BY <1>1, <2>2, <2>9 DEF IsInjective
  <2>11. BatchNew'
    BY <2>3, <2>8, <2>9, <2>10 DEF BatchNew, IsInjective
  <2> QED BY <2>5, <2>11
<1>12. CASE AnswersUnrun \/ EndsTool
  <2>1. at = "tools" /\ Answers
    BY <1>12 DEF AnswersUnrun, EndsTool
  <2> QED BY <2>1, OnceAnswers
<1>13. CASE StartsTool
  <2>1. at' = at /\ UNCHANGED <<transcript, disk, messages, skip, batch>>
    BY <1>13 DEF StartsTool
  <2> QED BY <2>1, OnceSame
<1>14. CASE HaltsWhenIdle
  <2>1. PICK p \in Pivots : Leaves(messages \o Results(batch) \o p, FALSE)
    BY <1>14 DEF HaltsWhenIdle
  <2>2. GoesIntoSession(messages \o Results(batch) \o p) /\ disk' = disk /\ at = "tools"
    BY <1>14, <2>1 DEF HaltsWhenIdle, Leaves
  <2>3. /\ messages \o Results(batch) \o p \in Lists
        /\ Adds(messages \o Results(batch) \o p, skip, transcript)
    BY <2>2, HaltedAdds
  <2> QED BY <2>2, <2>3, OnceGoes
<1>15. CASE Saved
  <2>1. at' = "idle" /\ batch' = <<>> /\ transcript' = transcript /\ disk' \in {disk, transcript}
    BY <1>15 DEF Saved, NoTurn
  <2> QED BY <2>1, OnceIdle
<1> QED BY <1>6, <1>7, <1>8, <1>9, <1>10, <1>11, <1>12, <1>13, <1>14, <1>15 DEF Runs

LEMMA OnceStep ==
  ASSUME LoopTypeOK, AllCounted, AllSince, AllOnce, [LoopNext]_loopVars
  PROVE  AllOnce'
<1> USE DEF session, loop, journal, counts
<1>1. /\ past \in [shifted : BOOLEAN, overlapped : BOOLEAN, users : Nat, made : Nat]
      /\ transcript \in Lists /\ users \in Nat /\ again \in Nat /\ troubles \in Nat
      /\ (at = "tools" <=> batch # <<>>)
  BY DEF LoopTypeOK
<1> SUFFICES ASSUME Plain' PROVE SessionOnce' /\ TurnOnce' /\ BatchNew'
  BY DEF AllOnce, Plain, SessionOnce, TurnOnce, BatchNew
<1>2. ASSUME NEW input, NEW presaved, NEW note \in BOOLEAN, Begins(input, presaved, note)
      PROVE  Plain /\ checkpoint = <<>> /\ note = FALSE
  <2>1. past'.shifted = (past.shifted \/ checkpoint # <<>> \/ note)
        /\ past'.overlapped = (past.overlapped \/ clearing)
    BY <1>1, <1>2 DEF Begins
  <2> QED BY <2>1 DEF Plain
<1>3. ASSUME SessionOnce /\ TurnOnce /\ BatchNew, [LoopNext]_loopVars, Plain
      PROVE  SessionOnce' /\ TurnOnce' /\ BatchNew'
  <2>1. CASE Receives
    <3> DEFINE input == User(users + 1)
    <3>1. Begins(input, 1, FALSE)
      BY <2>1 DEF Receives
    <3>2. input \in MessageType /\ ~Spoken(input)
      <4>1. users + 1 \in Nat
        BY <1>1
      <4> QED BY <4>1, MessageTypes DEF Spoken, User
    <3> HIDE DEF input
    <3>3. checkpoint = <<>> /\ 1 \in {0, 1}
      BY <1>2, <3>1
    <3> QED BY <1>3, <3>1, <3>2, <3>3, OnceBegins
  <2>2. CASE Redelivers
    <3> DEFINE input == User(again)
    <3>1. Begins(input, 1, openOp) /\ openOp \in BOOLEAN
      BY <2>2 DEF Redelivers, LoopTypeOK
    <3>2. input \in MessageType /\ ~Spoken(input)
      BY <1>1, MessageTypes DEF Spoken, User
    <3> HIDE DEF input
    <3>3. checkpoint = <<>> /\ openOp = FALSE /\ 1 \in {0, 1}
      BY <1>2, <3>1
    <3>4. Begins(input, 1, FALSE)
      BY <3>1, <3>3
    <3> QED BY <1>3, <3>2, <3>3, <3>4, OnceBegins
  <2>3. CASE Reports
    <3> DEFINE input == Report(troubles + 1)
    <3>1. Begins(input, 0, FALSE)
      BY <2>3 DEF Reports
    <3>2. input \in MessageType
      <4>1. troubles + 1 \in Nat
        BY <1>1
      <4> QED BY <4>1, MessageTypes
    <3>3. input \notin ToSet(transcript)
      BY Unsaid DEF Said
    <3> HIDE DEF input
    <3>4. checkpoint = <<>> /\ 0 \in {0, 1}
      BY <1>2, <3>1
    <3>5. 0 # 1
      OBVIOUS
    <3> QED BY <1>3, <3>1, <3>2, <3>3, <3>4, <3>5, OnceBegins
  <2>4. CASE Runs
    BY <1>3, <2>4, OnceRuns
  <2>5. CASE JournalFails
    <3>1. PICK p \in Pivots : GoesIntoSession(messages \o Results(batch) \o p)
      BY <2>5 DEF JournalFails
    <3>2. at = "tools" /\ disk' = disk
      BY <2>5 DEF JournalFails
    <3>3. /\ messages \o Results(batch) \o p \in Lists
          /\ Adds(messages \o Results(batch) \o p, skip, transcript)
      BY <1>3, <3>2, HaltedAdds
    <3> QED BY <1>3, <3>1, <3>2, <3>3, OnceGoes
  <2>6. CASE TurnFails \/ Stops \/ NewStops \/ Crashes
    <3>1. at' = "idle" /\ batch' = <<>> /\ transcript' \in {transcript, disk} /\ disk' \in {disk, transcript}
      BY <2>6 DEF TurnFails, Stops, NewStops, Crashes, Cancelled, NoTurn
    <3> QED BY <1>3, <3>1, OnceIdle
  <2>7. CASE Steers \/ StopsWhenIdle
    <3>1. at' = at /\ UNCHANGED <<transcript, disk, messages, skip, batch>>
      BY <2>7 DEF Steers, StopsWhenIdle
    <3> QED BY <1>3, <3>1, OnceSame
  <2>8. CASE NewClears
    <3>1. transcript' = <<>> /\ disk' = <<>> /\ UNCHANGED <<at, batch>> /\ clearing
      BY <2>8 DEF NewClears
    <3>2. at' = "idle" /\ batch' = <<>>
      BY <1>1, <1>3, <3>1 DEF AllSince, Plain
    <3>3. SessionOnce'
      BY <3>1 DEF SessionOnce, Single
    <3>4. TurnOnce'
      BY <3>2 DEF TurnOnce
    <3> QED BY <3>2, <3>3, <3>4, NoBatch
  <2>9. CASE Consolidates
    <3>1. at' = at /\ disk' = transcript /\ UNCHANGED <<transcript, messages, skip, batch>>
      BY <2>9 DEF Consolidates
    <3>2. SessionOnce'
      BY <1>3, <3>1 DEF SessionOnce, Single
    <3>3. BatchNew'
      BY <1>3, <3>1 DEF BatchNew, IsInjective
    <3>4. TurnOnce'
      <4>1. Adds(messages, skip, transcript) => Adds(messages, skip, transcript)'
        BY <3>1 DEF Adds
      <4> QED BY <1>3, <3>1, <4>1 DEF TurnOnce
    <3> QED BY <3>2, <3>3, <3>4
  <2>10. CASE Rewinds
    <3>1. at = "idle" /\ at' = at /\ disk' = transcript' /\ batch' = batch
      BY <2>10 DEF Rewinds
    <3>2. PICK k \in 0 .. Len(transcript) - 1 : transcript' = LegalPart(SubSeq(transcript, 1, k))
      BY <2>10 DEF Rewinds
    <3>3. k \in 0..Len(transcript)
      <4>1. Len(transcript) \in Nat
        BY <1>1, ListTypes
      <4> QED BY <4>1
    <3> DEFINE q == SubSeq(transcript, 1, k)
    <3>4. q \in Lists /\ Single(q)
      <4>1. Single(transcript)
        BY <1>3 DEF SessionOnce
      <4> QED BY <1>1, <3>3, <4>1, FrontIs, SingleFront
    <3>5. transcript' = LegalPart(q)
      BY <3>2
    <3> HIDE DEF q
    <3>6. PICK n \in 0..Len(q) : LegalPart(q) = Behind(q, n)
      BY <3>4, LegalPartIs
    <3>7. Single(transcript') /\ Single(disk')
      BY <3>1, <3>4, <3>5, <3>6, SingleBehind
    <3>8. SessionOnce'
      BY <3>7 DEF SessionOnce, Single
    <3>9. TurnOnce' /\ batch' = <<>>
      BY <1>1, <3>1 DEF TurnOnce
    <3> QED BY <3>8, <3>9, NoBatch
  <2>11. CASE UNCHANGED loopVars
    <3>1. at' = at /\ UNCHANGED <<transcript, disk, messages, skip, batch>>
      BY <2>11 DEF loopVars
    <3> QED BY <1>3, <3>1, OnceSame
  <2> QED BY <1>3, <2>1, <2>2, <2>3, <2>4, <2>5, <2>6, <2>7, <2>8, <2>9, <2>10, <2>11 DEF LoopNext
<1>4. Plain
  <2>1. CASE Receives \/ Redelivers \/ Reports
    <3>1. openOp \in BOOLEAN
      BY DEF LoopTypeOK
    <3> QED BY <1>2, <2>1, <3>1 DEF Receives, Redelivers, Reports
  <2>2. CASE NewClears
    BY <1>1, <2>2 DEF NewClears, Plain
  <2>3. CASE UNCHANGED loopVars
    BY <2>3 DEF loopVars, Plain
  <2>4. CASE LoopNext /\ ~Receives /\ ~Redelivers /\ ~Reports /\ ~NewClears
    <3>1. past' = past
      BY <2>4 DEF LoopNext, Runs, Refuses, EntersLoop, MaxIterations, HardStepCap, WallTimeout, Iterates,
                OverLimit, ErrorReply, Replies, CallsTools, AnswersUnrun, StartsTool, EndsTool,
                HaltsWhenIdle, Saved, JournalFails, TurnFails, Steers, StopsWhenIdle, Stops, NewStops,
                Crashes, Consolidates, Rewinds, Leaves, Answers
    <3> QED BY <3>1 DEF Plain
  <2> QED BY <2>1, <2>2, <2>3, <2>4
<1>5. SessionOnce /\ TurnOnce /\ BatchNew
  BY <1>4, OnceIs
<1> QED BY <1>3, <1>4, <1>5

-----------------------------------------------------------------------------
(* The theorems                                                            *)

\* In every state every component has its type: the cursor points into the
\* session and its file, a batch is being answered exactly while the loop is at
\* its tools, and a private session leaves neither a checkpoint nor a file.
THEOREM LoopIsTyped == LoopSpec => []LoopTypeOK
<1>1. LoopTypeOK /\ [LoopNext]_loopVars => LoopTypeOK'
  BY TypesStep
<1> QED BY <1>1, TypesInit, PTL DEF LoopSpec

LEMMA LoopIsCounted == LoopSpec => []AllCounted
<1>1. LoopTypeOK /\ AllCounted /\ [LoopNext]_loopVars => AllCounted'
  BY CountedStep
<1> QED BY <1>1, CountedInit, LoopIsTyped, PTL DEF LoopSpec

\* Whichever way a batch ends, the provider is asked next, and the session gets
\* the turn, with a result right behind the calls for each of them.
THEOREM BatchesCompleteHolds == LoopSpec => []BatchesComplete
<1>1. LoopTypeOK /\ AllCounted /\ CallsAnswered /\ [LoopNext]_loopVars => CallsAnswered'
  BY AnsweredStep
<1>2. CallsAnswered => BatchesComplete
  <2> SUFFICES ASSUME CallsAnswered, at \in {"loop", "asking", "saving"}, NEW i \in DOMAIN messages,
                      messages[i].role = "assistant", messages[i].id > turn.made,
                      NEW c \in messages[i].calls
               PROVE  HasResult(messages, i, c)
    BY DEF BatchesComplete, HasResult
  <2>1. HasResult(messages, i, c) \/ IsDue(messages, i, c)
    BY DEF CallsAnswered
  <2> QED BY <2>1 DEF IsDue
<1> QED BY <1>1, <1>2, AnsweredInit, LoopIsTyped, LoopIsCounted, PTL DEF LoopSpec

LEMMA LoopIsSince == LoopSpec => []AllSince
<1>1. LoopTypeOK /\ AllCounted /\ AllSince /\ [LoopNext]_loopVars => AllSince'
  BY SinceNewStep
<1> QED BY <1>1, SinceNewInit, LoopIsTyped, LoopIsCounted, PTL DEF LoopSpec

\* No prompt after /new shows what was said before it, but for a turn that began
\* while /new was waiting.
THEOREM NewForgetsHolds == LoopSpec => []NewForgets
<1>1. AllSince => NewForgets
  <2> SUFFICES ASSUME AllSince, ~past.overlapped, NEW i \in DOMAIN messages
               PROVE  IsSince(messages[i])
    BY DEF NewForgets, IsSince
  <2>1. messages[i] \in Said
    BY DEF Said, ToSet
  <2> QED BY <2>1 DEF AllSince
<1> QED BY <1>1, LoopIsSince, PTL

\* The session has all a turn said when the turn ends, and has it once, unless a
\* turn began from a checkpoint, with an interruption note or while /new waited.
THEOREM TurnsKeptOnceHolds == LoopSpec => []TurnsKeptOnce
<1>1. LoopTypeOK /\ AllCounted /\ AllSince /\ AllOnce /\ [LoopNext]_loopVars => AllOnce'
  BY OnceStep
<1>2. AllOnce => TurnsKeptOnce
  BY DEF AllOnce, TurnsKeptOnce, Single, Spoken
<1> QED BY <1>1, <1>2, OnceInit, LoopIsTyped, LoopIsCounted, LoopIsSince, PTL DEF LoopSpec

-----------------------------------------------------------------------------
(* Scans of the journal.  A row appended last decides the scans that look  *)
(* for its kind, and leaves the others as they were.                       *)
Scopes == 0 .. MaxTurn
TurnRows == [kind : {"turn"}, id : 1 .. MaxTurn, status : {"open", "done"},
             input : Inputs \cup {NoInput}]
InputRows == [kind : {"input"}, id : Inputs, status : {"open", "done"}]
OpRows == [kind : {"operation"}, id : Ops, turn : Scopes,
           status : {"ready", "awaiting", "finished", "canceled", "interrupted"}]
StopRows == [kind : {"stop"}, mode : {"none", "hard", "when_idle"}]
Row == TurnRows \cup InputRows \cup OpRows \cup StopRows

LEMMA MaxIs ==
  ASSUME NEW N \in SUBSET Nat, NEW n \in N, \A m \in N : m <= n
  PROVE  Max(N) = n
<1>1. Max(N) \in N /\ \A m \in N : Max(N) >= m
  BY DEF Max
<1>2. Max(N) \in Nat /\ n \in Nat /\ Max(N) >= n /\ Max(N) <= n
  BY <1>1
<1> QED BY <1>2

LEMMA MaxExists ==
  ASSUME NEW k \in Nat, NEW N \in SUBSET (1 .. k), N # {}
  PROVE  Max(N) \in N /\ \A m \in N : m <= Max(N)
<1>1. PICK n \in N : \A m \in N : m <= n
  BY Greatest
<1> QED BY <1>1, MaxIs

LEMMA RowAppended ==
  ASSUME NEW l \in Seq(Row), NEW r \in Row
  PROVE  /\ Append(l, r) \in Seq(Row)
         /\ Len(l) \in Nat /\ DOMAIN l = 1 .. Len(l)
         /\ DOMAIN Append(l, r) = 1 .. (Len(l) + 1)
         /\ \A n \in 1 .. Len(l) : Append(l, r)[n] = l[n]
         /\ Append(l, r)[Len(l) + 1] = r
BY AppendProperties, LenProperties

\* The rows of one kind, and of these the ones a scan looks for.
LEMMA RowsOfAppend ==
  ASSUME NEW l \in Seq(Row), NEW r \in Row, NEW kind
  PROVE  /\ RowsOf(l, kind) \subseteq 1 .. Len(l)
         /\ RowsOf(Append(l, r), kind) =
              IF r.kind = kind THEN RowsOf(l, kind) \cup {Len(l) + 1} ELSE RowsOf(l, kind)
         /\ \A n \in RowsOf(l, kind) : Append(l, r)[n] = l[n]
         /\ Append(l, r)[Len(l) + 1] = r /\ Len(l) + 1 \notin RowsOf(l, kind)
BY RowAppended DEF RowsOf

LEMMA LastAppend ==
  ASSUME NEW l \in Seq(Row), NEW r \in Row, NEW N \in SUBSET (1 .. Len(l)), NEW d
  PROVE  /\ LastIn(Append(l, r), N, d) = LastIn(l, N, d)
         /\ LastIn(Append(l, r), N \cup {Len(l) + 1}, d) = r
<1> USE RowAppended
<1>1. LastIn(Append(l, r), N, d) = LastIn(l, N, d)
  <2>1. N # {} => Max(N) \in 1 .. Len(l)
    BY MaxExists
  <2> QED BY <2>1 DEF LastIn
<1>2. Max(N \cup {Len(l) + 1}) = Len(l) + 1
  <2>0. Len(l) \in Nat /\ Len(l) + 1 \in N \cup {Len(l) + 1}
    OBVIOUS
  <2> HIDE RowAppended
  <2>1. N \cup {Len(l) + 1} \in SUBSET Nat /\ \A m \in N \cup {Len(l) + 1} : m <= Len(l) + 1
    <3>1. ASSUME NEW m \in N \cup {Len(l) + 1} PROVE m \in Nat /\ m <= Len(l) + 1
      <4>1. m \in 1 .. Len(l) \/ m = Len(l) + 1
        OBVIOUS
      <4> QED BY <2>0, <4>1
    <3> QED BY <3>1
  <2> QED BY <2>0, <2>1, MaxIs
<1>3. LastIn(Append(l, r), N \cup {Len(l) + 1}, d) = r
  BY <1>2 DEF LastIn
<1> QED BY <1>1, <1>3

LEMMA InputStatusAppend ==
  ASSUME NEW l \in Seq(Row), NEW r \in Row, NEW i
  PROVE  InputStatusIn(Append(l, r), i) =
           IF r.kind = "input" /\ r.id = i THEN r.status ELSE InputStatusIn(l, i)
<1> DEFINE N == {n \in RowsOf(l, "input") : l[n].id = i}
           M == {n \in RowsOf(Append(l, r), "input") : Append(l, r)[n].id = i}
<1>1. N \in SUBSET (1 .. Len(l))
  BY RowsOfAppend
<1>2. M = IF r.kind = "input" /\ r.id = i THEN N \cup {Len(l) + 1} ELSE N
  BY RowsOfAppend
<1>3. /\ InputStatusIn(l, i) = LastIn(l, N, [status |-> "unseen"]).status
      /\ InputStatusIn(Append(l, r), i) = LastIn(Append(l, r), M, [status |-> "unseen"]).status
  BY DEF InputStatusIn
<1> HIDE DEF N, M
<1>4. CASE r.kind = "input" /\ r.id = i
  BY <1>1, <1>2, <1>3, <1>4, LastAppend
<1>5. CASE ~ (r.kind = "input" /\ r.id = i)
  BY <1>1, <1>2, <1>3, <1>5, LastAppend
<1> QED BY <1>4, <1>5

LEMMA OpStatusAppend ==
  ASSUME NEW l \in Seq(Row), NEW r \in Row, NEW t, NEW o
  PROVE  OpStatusIn(Append(l, r), t, o) =
           IF r.kind = "operation" /\ r.id = o /\ r.turn = t THEN r.status ELSE OpStatusIn(l, t, o)
<1> DEFINE N == {n \in RowsOf(l, "operation") : l[n].id = o /\ l[n].turn = t}
           M == {n \in RowsOf(Append(l, r), "operation") :
                   Append(l, r)[n].id = o /\ Append(l, r)[n].turn = t}
<1>1. N \in SUBSET (1 .. Len(l))
  BY RowsOfAppend
<1>2. M = IF r.kind = "operation" /\ r.id = o /\ r.turn = t THEN N \cup {Len(l) + 1} ELSE N
  BY RowsOfAppend
<1>3. /\ OpStatusIn(l, t, o) = LastIn(l, N, [status |-> "none"]).status
      /\ OpStatusIn(Append(l, r), t, o) = LastIn(Append(l, r), M, [status |-> "none"]).status
  BY DEF OpStatusIn
<1> HIDE DEF N, M
<1> QED BY <1>1, <1>2, <1>3, LastAppend

LEMMA StopModeAppend ==
  ASSUME NEW l \in Seq(Row), NEW r \in Row
  PROVE  StopModeIn(Append(l, r)) = IF r.kind = "stop" THEN r.mode ELSE StopModeIn(l)
<1>1. RowsOf(l, "stop") \in SUBSET (1 .. Len(l))
  BY RowsOfAppend
<1>2. RowsOf(Append(l, r), "stop") =
        IF r.kind = "stop" THEN RowsOf(l, "stop") \cup {Len(l) + 1} ELSE RowsOf(l, "stop")
  BY RowsOfAppend
<1> DEFINE N == RowsOf(l, "stop")
           M == RowsOf(Append(l, r), "stop")
<1>3. /\ StopModeIn(l) = LastIn(l, N, [mode |-> "none"]).mode
      /\ StopModeIn(Append(l, r)) = LastIn(Append(l, r), M, [mode |-> "none"]).mode
  BY DEF StopModeIn
<1>4. N \in SUBSET (1 .. Len(l)) /\ M = IF r.kind = "stop" THEN N \cup {Len(l) + 1} ELSE N
  BY <1>1, <1>2
<1> HIDE DEF N, M
<1>5. CASE r.kind = "stop"
  BY <1>3, <1>4, <1>5, LastAppend
<1>6. CASE r.kind # "stop"
  BY <1>3, <1>4, <1>6, LastAppend
<1> QED BY <1>5, <1>6

LEMMA InputOfAppend ==
  ASSUME NEW l \in Seq(Row), NEW r \in Row, NEW t
  PROVE  InputOfTurn(Append(l, r), t) =
           IF r.kind = "turn" /\ r.id = t /\ r.status = "open" THEN r.input ELSE InputOfTurn(l, t)
<1> DEFINE N == {n \in RowsOf(l, "turn") : l[n].id = t /\ l[n].status = "open"}
           M == {n \in RowsOf(Append(l, r), "turn") :
                   Append(l, r)[n].id = t /\ Append(l, r)[n].status = "open"}
<1>1. N \in SUBSET (1 .. Len(l))
  BY RowsOfAppend
<1>2. M = IF r.kind = "turn" /\ r.id = t /\ r.status = "open" THEN N \cup {Len(l) + 1} ELSE N
  BY RowsOfAppend
<1>3. /\ InputOfTurn(l, t) = LastIn(l, N, [input |-> NoInput]).input
      /\ InputOfTurn(Append(l, r), t) = LastIn(Append(l, r), M, [input |-> NoInput]).input
  BY DEF InputOfTurn
<1> HIDE DEF N, M
<1> QED BY <1>1, <1>2, <1>3, LastAppend

\* The newest turn, and the open one.
TurnIds(l) == {l[n].id : n \in RowsOf(l, "turn")}
Opened(l) == {n \in RowsOf(l, "turn") : l[n].status = "open"}

LEMMA TurnRowsAre ==
  ASSUME NEW l \in Seq(Row), NEW n \in RowsOf(l, "turn")
  PROVE  l[n] \in TurnRows /\ l[n].id \in 1 .. MaxTurn /\ l[n].status \in {"open", "done"}
<1>1. l[n] \in Row /\ l[n].kind = "turn"
  BY LenProperties DEF RowsOf
<1>2. l[n] \in TurnRows
  BY <1>1 DEF Row, TurnRows, InputRows, OpRows, StopRows
<1> QED BY <1>2 DEF TurnRows

LEMMA LastTurnIs ==
  ASSUME NEW l \in Seq(Row)
  PROVE  /\ LastTurnIn(l) \in Scopes
         /\ \A n \in RowsOf(l, "turn") : l[n].id <= LastTurnIn(l)
         /\ LastTurnIn(l) # 0 => LastTurnIn(l) \in TurnIds(l)
<1>0. MaxTurn \in Nat /\ TurnIds(l) \in SUBSET (1 .. MaxTurn)
  BY RowsAssumption, TurnRowsAre DEF TurnIds
<1>1. LastTurnIn(l) = Max({0} \cup TurnIds(l))
  BY DEF LastTurnIn, TurnIds
<1>2. CASE TurnIds(l) = {}
  <2>1. Max({0}) = 0
    BY MaxIs
  <2>2. LastTurnIn(l) = 0
    BY <1>1, <1>2, <2>1
  <2>3. RowsOf(l, "turn") = {}
    BY <1>2 DEF TurnIds
  <2> QED BY <1>0, <2>2, <2>3 DEF Scopes
<1>3. CASE TurnIds(l) # {}
  <2> DEFINE n == Max(TurnIds(l))
  <2>1. n \in TurnIds(l) /\ \A m \in TurnIds(l) : m <= n
    BY <1>0, <1>3, MaxExists
  <2> HIDE DEF n
  <2>2. Max({0} \cup TurnIds(l)) = n
    <3>1. {0} \cup TurnIds(l) \in SUBSET Nat /\ n \in {0} \cup TurnIds(l)
      BY <1>0, <2>1
    <3>2. \A m \in {0} \cup TurnIds(l) : m <= n
      BY <1>0, <2>1
    <3> QED BY <3>1, <3>2, MaxIs
  <2>3. LastTurnIn(l) = n
    BY <1>1, <2>2
  <2>4. \A k \in RowsOf(l, "turn") : l[k].id \in TurnIds(l)
    BY DEF TurnIds
  <2> QED BY <1>0, <2>1, <2>3, <2>4 DEF Scopes
<1> QED BY <1>2, <1>3

LEMMA LastTurnAppend ==
  ASSUME NEW l \in Seq(Row), NEW r \in Row
  PROVE  LastTurnIn(Append(l, r)) =
           IF r.kind = "turn" /\ r.id > LastTurnIn(l) THEN r.id ELSE LastTurnIn(l)
<1> DEFINE m == Append(l, r)
           S == {0} \cup TurnIds(m)
<1>0. MaxTurn \in Nat /\ m \in Seq(Row) /\ LastTurnIn(m) = Max(S) /\ S \in SUBSET Nat
  <2>1. MaxTurn \in Nat /\ m \in Seq(Row)
    BY RowAppended, RowsAssumption
  <2> HIDE DEF m
  <2>2. TurnIds(m) \in SUBSET (1 .. MaxTurn)
    BY <2>1, TurnRowsAre DEF TurnIds
  <2>3. LastTurnIn(m) = Max(S)
    BY DEF LastTurnIn, TurnIds
  <2>4. S \in SUBSET Nat
    BY <2>1, <2>2
  <2> QED BY <2>1, <2>3, <2>4
<1>1. TurnIds(m) = IF r.kind = "turn" THEN TurnIds(l) \cup {r.id} ELSE TurnIds(l)
  BY RowsOfAppend DEF TurnIds
<1>2. /\ LastTurnIn(l) \in Nat /\ LastTurnIn(l) \in {0} \cup TurnIds(l)
      /\ \A t \in TurnIds(l) : t <= LastTurnIn(l)
  BY LastTurnIs DEF TurnIds, Scopes
<1> HIDE DEF m
<1>3. CASE r.kind = "turn" /\ r.id > LastTurnIn(l)
  <2>0. r.id \in Nat
    BY <1>0, <1>1, <1>3
  <2>1. r.id \in S /\ \A t \in S : t <= r.id
    <3>1. \A t \in TurnIds(l) : t \in Nat
      BY <1>0, <1>1
    <3> QED BY <2>0, <3>1, <1>1, <1>2, <1>3
  <2> HIDE DEF S
  <2> QED BY <1>0, <1>3, <2>1, MaxIs DEF m
<1>4. CASE ~ (r.kind = "turn" /\ r.id > LastTurnIn(l))
  <2>1. LastTurnIn(l) \in S /\ \A t \in S : t <= LastTurnIn(l)
    BY <1>0, <1>1, <1>2, <1>4
  <2> HIDE DEF S
  <2> QED BY <1>0, <1>4, <2>1, MaxIs DEF m
<1> QED BY <1>3, <1>4 DEF m

ClosedAfter(l, n) ==
  \E m \in RowsOf(l, "turn") : m > n /\ l[m].status = "done" /\ l[m].id = l[n].id

LEMMA OpenTurnIs ==
  ASSUME NEW l \in Seq(Row)
  PROVE  /\ OpenTurnIn(l) = IF Opened(l) = {} \/ ClosedAfter(l, Max(Opened(l))) THEN 0
                            ELSE l[Max(Opened(l))].id
         /\ Opened(l) # {} => Max(Opened(l)) \in Opened(l)
         /\ OpenTurnIn(l) \in 0 .. LastTurnIn(l)
<1>1. OpenTurnIn(l) = IF Opened(l) = {} \/ ClosedAfter(l, Max(Opened(l))) THEN 0
                      ELSE l[Max(Opened(l))].id
  BY DEF OpenTurnIn, Opened, ClosedAfter
<1>2. Opened(l) # {} => Max(Opened(l)) \in Opened(l)
  <2>1. Len(l) \in Nat /\ Opened(l) \in SUBSET (1 .. Len(l))
    BY LenProperties DEF Opened, RowsOf
  <2> QED BY <2>1, MaxExists
<1>3. OpenTurnIn(l) \in 0 .. LastTurnIn(l)
  <2>1. LastTurnIn(l) \in Nat
    BY LastTurnIs, RowsAssumption DEF Scopes
  <2>2. ASSUME NEW n \in Opened(l) PROVE l[n].id \in 0 .. LastTurnIn(l)
    BY <2>1, LastTurnIs, TurnRowsAre, RowsAssumption DEF Opened
  <2> QED BY <1>1, <1>2, <2>1, <2>2
<1> QED BY <1>1, <1>2, <1>3

LEMMA OpenTurnAppend ==
  ASSUME NEW l \in Seq(Row), NEW r \in Row
  PROVE  /\ r.kind = "turn" /\ r.status = "open" => OpenTurnIn(Append(l, r)) = r.id
         /\ r.kind = "turn" /\ r.status = "done" /\ r.id = OpenTurnIn(l) /\ r.id # 0
              => OpenTurnIn(Append(l, r)) = 0
         /\ r.kind # "turn" => OpenTurnIn(Append(l, r)) = OpenTurnIn(l)
<1> DEFINE m == Append(l, r)
           k == Len(l) + 1
<1>0. /\ m \in Seq(Row) /\ Len(l) \in Nat /\ m[k] = r
      /\ \A kind : RowsOf(l, kind) \subseteq 1 .. Len(l)
      /\ RowsOf(m, "turn") = IF r.kind = "turn" THEN RowsOf(l, "turn") \cup {k} ELSE RowsOf(l, "turn")
      /\ \A n \in RowsOf(l, "turn") : m[n] = l[n]
  BY RowAppended, RowsOfAppend
<1> HIDE DEF m, k
<1>1. CASE r.kind = "turn" /\ r.status = "open"
  <2>1. Opened(m) = Opened(l) \cup {k}
    BY <1>0, <1>1 DEF Opened
  <2>2. Max(Opened(m)) = k
    <3>1. Opened(m) \in SUBSET Nat /\ k \in Opened(m) /\ \A n \in Opened(m) : n <= k
      BY <1>0, <2>1 DEF k, Opened
    <3> QED BY <3>1, MaxIs
  <2>3. ~ ClosedAfter(m, k)
    BY <1>0, <1>1 DEF ClosedAfter, k
  <2> QED BY <1>0, <1>1, <2>1, <2>2, <2>3, OpenTurnIs DEF m
<1>2. CASE ~ (r.kind = "turn" /\ r.status = "open")
  <2>1. Opened(m) = Opened(l)
    BY <1>0, <1>2 DEF Opened
  <2>2. Opened(l) # {} => /\ Max(Opened(l)) \in RowsOf(l, "turn") /\ Max(Opened(l)) < k
                          /\ m[Max(Opened(l))] = l[Max(Opened(l))]
    BY <1>0, OpenTurnIs DEF Opened, k
  <2>3. CASE r.kind = "turn" /\ r.status = "done" /\ r.id = OpenTurnIn(l) /\ r.id # 0
    <3>1. Opened(l) # {} /\ r.id = l[Max(Opened(l))].id
      BY <2>3, OpenTurnIs
    <3>2. ClosedAfter(m, Max(Opened(m)))
      BY <1>0, <2>1, <2>2, <2>3, <3>1 DEF ClosedAfter
    <3> QED BY <1>0, <2>3, <3>2, OpenTurnIs DEF m
  <2>4. CASE r.kind # "turn"
    <3>1. Opened(l) # {} => ClosedAfter(m, Max(Opened(m))) = ClosedAfter(l, Max(Opened(l)))
      BY <1>0, <2>1, <2>2, <2>4 DEF ClosedAfter
    <3>2. OpenTurnIn(m) = OpenTurnIn(l)
      BY <1>0, <2>1, <2>2, <3>1, OpenTurnIs
    <3> QED BY <2>4, <3>2 DEF m
  <2> QED BY <1>2, <2>3, <2>4 DEF m
<1> QED BY <1>1, <1>2
-----------------------------------------------------------------------------
(* What one log says that another does not.                                *)
SameInputOf(b, l) == \A t \in 1 .. MaxTurn : InputOfTurn(l, t) = InputOfTurn(b, t)
SameTurns(b, l) ==
  LastTurnIn(l) = LastTurnIn(b) /\ OpenTurnIn(l) = OpenTurnIn(b) /\ SameInputOf(b, l)
SameInputs(b, l) == \A i \in Inputs : InputStatusIn(l, i) = InputStatusIn(b, i)
SameOps(b, l) == \A t \in Scopes, o \in Ops : OpStatusIn(l, t, o) = OpStatusIn(b, t, o)
SameStop(b, l) == StopModeIn(l) = StopModeIn(b)

TurnIsClosed(b, l) ==
  LastTurnIn(l) = LastTurnIn(b) /\ OpenTurnIn(l) = 0 /\ SameInputOf(b, l)

TurnIsOpened(b, l, i) ==
  /\ LastTurnIn(l) = LastTurnIn(b) + 1 /\ OpenTurnIn(l) = LastTurnIn(b) + 1
  /\ \A t \in 1 .. MaxTurn :
       InputOfTurn(l, t) = IF t = LastTurnIn(b) + 1 THEN i ELSE InputOfTurn(b, t)

OpenInput(b) == InputOfTurn(b, OpenTurnIn(b))
ClosedStatus(b, i) ==
  IF OpenTurnIn(b) # 0 /\ OpenInput(b) = i THEN "done" ELSE InputStatusIn(b, i)
InputsAreClosed(b, l) == \A i \in Inputs : InputStatusIn(l, i) = ClosedStatus(b, i)

OpensAt(b, i) ==
  (i \in Inputs => InputStatusIn(b, i) = "unseen") /\ LastTurnIn(b) < MaxTurn

OpIs(b, l, t, o, s) ==
  \A u \in Scopes, p \in Ops :
    OpStatusIn(l, u, p) = IF u = t /\ p = o THEN s ELSE OpStatusIn(b, u, p)

PendingIn(b) == {o \in Ops : OpStatusIn(b, OpenTurnIn(b), o) \in OpenStatus}
Marked(b, l, S, s) ==
  \A t \in Scopes, o \in Ops :
    OpStatusIn(l, t, o) = IF t = OpenTurnIn(b) /\ o \in S THEN s ELSE OpStatusIn(b, t, o)

\* The same of the journal, where logs are what Visible was and is.
LEMMA JournalTurns ==
  ASSUME NEW b, NEW m, Visible = b, Visible' = m
  PROVE  /\ SameTurns(b, m) => UNCHANGED <<LastTurnIn(Visible), OpenTurnIn(Visible),
                                 [t \in 1 .. MaxTurn |-> InputOfTurn(Visible, t)]>>
         /\ SameInputs(b, m) => UNCHANGED [i \in Inputs |-> InputStatusIn(Visible, i)]
         /\ SameOps(b, m) =>
              UNCHANGED [t \in 0 .. MaxTurn |-> [o \in Ops |-> OpStatusIn(Visible, t, o)]]
         /\ SameStop(b, m) => UNCHANGED StopModeIn(Visible)
BY DEF SameTurns, SameInputOf, SameInputs, SameOps, SameStop, Scopes

LEMMA Commits ==
  ASSUME NEW b \in Seq(Row), NEW m, Visible = b, Visible' = m, OpenTurnIn(b) # 0,
         TurnIsClosed(b, m), InputsAreClosed(b, m), SameOps(b, m), SameStop(b, m),
         UNCHANGED <<calls, runs>>
  PROVE  Journal!CommitTurn
<1>1. OpenTurnIn(b) \in 1 .. MaxTurn
  BY OpenTurnIs, LastTurnIs, RowsAssumption DEF Scopes
<1> QED BY <1>1 DEF Journal!CommitTurn, Journal!ClosedInputs, TurnIsClosed, SameInputOf,
        InputsAreClosed, ClosedStatus, OpenInput, SameOps, SameStop, Scopes

LEMMA Opens ==
  ASSUME NEW b \in Seq(Row), NEW m, Visible = b, Visible' = m,
         NEW i \in Inputs \cup {NoInput}, OpensAt(b, i), TurnIsOpened(b, m, i),
         \A j \in Inputs : InputStatusIn(m, j) = IF j = i THEN "open" ELSE ClosedStatus(b, j),
         SameOps(b, m), SameStop(b, m), UNCHANGED <<calls, runs>>
  PROVE  Journal!OpenTurn(i)
<1>1. /\ OpenTurnIn(b) # 0 => OpenTurnIn(b) \in 1 .. MaxTurn
      /\ LastTurnIn(b) + 1 \in 1 .. MaxTurn /\ LastTurnIn(b) < MaxTurn
  BY OpenTurnIs, LastTurnIs, RowsAssumption DEF Scopes, OpensAt
<1>2. Journal!TurnOpened(i)
  BY <1>1 DEF Journal!TurnOpened, TurnIsOpened
<1>3. Journal!OpensTurn(i)
  BY DEF Journal!OpensTurn, OpensAt
<1>4. \A j \in Inputs : Journal!ClosedInputs[j] = ClosedStatus(b, j)
  BY <1>1 DEF Journal!ClosedInputs, ClosedStatus, OpenInput
<1>5. [j \in Inputs |-> InputStatusIn(Visible, j)]' =
        IF i = NoInput THEN Journal!ClosedInputs ELSE [Journal!ClosedInputs EXCEPT ![i] = "open"]
  <2>1. Journal!ClosedInputs = [j \in Inputs |-> ClosedStatus(b, j)]
    BY <1>4 DEF Journal!ClosedInputs
  <2>2. [j \in Inputs |-> InputStatusIn(Visible, j)]' =
          [j \in Inputs |-> IF j = i THEN "open" ELSE ClosedStatus(b, j)]
    OBVIOUS
  <2> QED BY <2>1, <2>2, RowsAssumption
<1>6. UNCHANGED <<[t \in 0 .. MaxTurn |-> [o \in Ops |-> OpStatusIn(Visible, t, o)]],
                  StopModeIn(Visible)>>
  BY DEF SameOps, SameStop, Scopes
<1> QED BY <1>2, <1>3, <1>5, <1>6 DEF Journal!OpenTurn

\* A crash keeps what is on record of operations and stops, unless it cuts a
\* call about those.
LEMMA CrashLoses ==
  ASSUME NEW b, NEW m, Visible = b, Visible' = m, SameOps(b, m), SameStop(b, m),
         calls' = {}, UNCHANGED runs
  PROVE  Journal!Lost
BY DEF Journal!Lost, SameOps, SameStop, Scopes

LEMMA CrashesIdle ==
  ASSUME NEW b, Visible = b, Visible' = b, calls' = {}, UNCHANGED runs
  PROVE  Journal!JournalCrash
BY CrashLoses DEF Journal!JournalCrash, SameOps, SameStop

LEMMA CrashesInClose ==
  ASSUME NEW b \in Seq(Row), NEW m, Visible = b, Visible' = m,
         OpenTurnIn(b) # 0, OpenInput(b) # NoInput, TurnIsClosed(b, m), SameInputs(b, m),
         SameOps(b, m), SameStop(b, m), calls' = {}, UNCHANGED runs
  PROVE  Journal!CrashInClose
<1>1. OpenTurnIn(b) \in 1 .. MaxTurn
  BY OpenTurnIs, LastTurnIs, RowsAssumption DEF Scopes
<1> QED BY <1>1, CrashLoses
        DEF Journal!CrashInClose, TurnIsClosed, SameInputOf, SameInputs, OpenInput

LEMMA ClosedInputsAre ==
  ASSUME NEW b \in Seq(Row), NEW m, Visible = b, Visible' = m, InputsAreClosed(b, m)
  PROVE  [i \in Inputs |-> InputStatusIn(Visible, i)]' = Journal!ClosedInputs
<1>1. OpenTurnIn(b) # 0 => OpenTurnIn(b) \in 1 .. MaxTurn
  BY OpenTurnIs, LastTurnIs, RowsAssumption DEF Scopes
<1> QED BY <1>1 DEF Journal!ClosedInputs, InputsAreClosed, ClosedStatus, OpenInput

LEMMA CrashesBeforeOpen ==
  ASSUME NEW b \in Seq(Row), NEW m, Visible = b, Visible' = m,
         NEW i \in Inputs \cup {NoInput}, OpensAt(b, i), OpenTurnIn(b) # 0,
         TurnIsClosed(b, m), InputsAreClosed(b, m),
         SameOps(b, m), SameStop(b, m), calls' = {}, UNCHANGED runs
  PROVE  Journal!CrashBeforeOpen(i)
<1>1. Journal!OpensTurn(i)
  BY DEF Journal!OpensTurn, OpensAt
<1> QED BY <1>1, CrashLoses, ClosedInputsAre
        DEF Journal!CrashBeforeOpen, TurnIsClosed, SameInputOf

LEMMA CrashesAfterOpen ==
  ASSUME NEW b \in Seq(Row), NEW m, Visible = b, Visible' = m,
         NEW i \in Inputs, OpensAt(b, i), TurnIsOpened(b, m, i), InputsAreClosed(b, m),
         SameOps(b, m), SameStop(b, m), calls' = {}, UNCHANGED runs
  PROVE  Journal!CrashAfterOpen(i)
<1>1. LastTurnIn(b) + 1 \in 1 .. MaxTurn /\ LastTurnIn(b) < MaxTurn
  BY LastTurnIs, RowsAssumption DEF Scopes, OpensAt
<1>2. Journal!TurnOpened(i)
  BY <1>1 DEF Journal!TurnOpened, TurnIsOpened
<1>3. Journal!OpensTurn(i) /\ i # NoInput
  BY RowsAssumption DEF Journal!OpensTurn, OpensAt
<1> QED BY <1>2, <1>3, CrashLoses, ClosedInputsAre DEF Journal!CrashAfterOpen

\* One operation is given a status.
LEMMA SetsOp ==
  ASSUME NEW b, NEW m, Visible = b, Visible' = m, NEW t \in Scopes, NEW o \in Ops, NEW s,
         OpIs(b, m, t, o, s)
  PROVE  Journal!SetOp(t, o, s)
BY DEF Journal!SetOp, OpIs, Scopes

LEMMA StartsCall ==
  ASSUME NEW b, NEW m, Visible = b, Visible' = m, NEW t \in Scopes, NEW o \in Ops,
         t <= LastTurnIn(b), StopModeIn(b) = "none", OpStatusIn(b, t, o) = "none",
         OpIs(b, m, t, o, "awaiting"), SameTurns(b, m), SameInputs(b, m), SameStop(b, m),
         calls' = calls \cup {<<t, o>>}, runs' = [runs EXCEPT ![t][o] = @ + 1]
  PROVE  Journal!StartCall(t, o)
BY SetsOp, JournalTurns DEF Journal!StartCall, Scopes

LEMMA CrashesInClaim ==
  ASSUME NEW b, NEW m, Visible = b, Visible' = m, NEW t \in Scopes, NEW o \in Ops,
         t <= LastTurnIn(b), StopModeIn(b) = "none", OpStatusIn(b, t, o) = "none",
         NEW s \in OpenStatus, OpIs(b, m, t, o, s),
         SameTurns(b, m), SameInputs(b, m), SameStop(b, m), calls' = {}, UNCHANGED runs
  PROVE  Journal!CrashInClaim(t, o)
BY SetsOp, JournalTurns DEF Journal!CrashInClaim, Scopes, OpenStatus, Journal!OpenStatus

LEMMA Interrupts ==
  ASSUME NEW b, NEW m, Visible = b, Visible' = m, NEW t \in Scopes, NEW o \in Ops,
         t <= LastTurnIn(b), StopModeIn(b) = "none", OpStatusIn(b, t, o) \in OpenStatus,
         OpIs(b, m, t, o, "interrupted"),
         SameTurns(b, m), SameInputs(b, m), SameStop(b, m), UNCHANGED <<calls, runs>>
  PROVE  Journal!InterruptCall(t, o)
BY SetsOp, JournalTurns DEF Journal!InterruptCall, Scopes, OpenStatus, Journal!OpenStatus

LEMMA FinishesCall ==
  ASSUME NEW b, NEW m, Visible = b, Visible' = m, NEW t \in Scopes, NEW o \in Ops, NEW s,
         <<t, o>> \in calls, OpIs(b, m, t, o, s),
         SameTurns(b, m), SameInputs(b, m), SameStop(b, m),
         calls' = calls \ {<<t, o>>}, UNCHANGED runs
  PROVE  Journal!FinishCall(t, o, s)
BY SetsOp, JournalTurns DEF Journal!FinishCall

\* Operations of the open scope are given a status.
LEMMA PendingIs ==
  ASSUME NEW b \in Seq(Row), Visible = b
  PROVE  Journal!Pending = PendingIn(b)
<1>1. OpenTurnIn(b) \in 0 .. MaxTurn
  BY OpenTurnIs, LastTurnIs, RowsAssumption DEF Scopes
<1> QED BY <1>1 DEF Journal!Pending, PendingIn, OpenStatus, Journal!OpenStatus

LEMMA MarksPending ==
  ASSUME NEW b \in Seq(Row), NEW m, Visible = b, Visible' = m, NEW S, NEW s, Marked(b, m, S, s)
  PROVE  Journal!MarkPending(S, s)
<1>1. OpenTurnIn(b) \in 0 .. MaxTurn
  BY OpenTurnIs, LastTurnIs, RowsAssumption DEF Scopes
<1> QED BY <1>1 DEF Journal!MarkPending, Marked, Scopes

LEMMA Consumes ==
  ASSUME NEW b \in Seq(Row), NEW m, Visible = b, Visible' = m, PendingIn(b) # {},
         Marked(b, m, PendingIn(b), "interrupted"),
         SameTurns(b, m), SameInputs(b, m), SameStop(b, m), UNCHANGED <<calls, runs>>
  PROVE  Journal!ConsumeInterruptions
BY PendingIs, MarksPending, JournalTurns DEF Journal!ConsumeInterruptions

LEMMA CrashesInConsume ==
  ASSUME NEW b \in Seq(Row), NEW m, Visible = b, Visible' = m,
         NEW S \in SUBSET PendingIn(b), S # PendingIn(b), Marked(b, m, S, "interrupted"),
         SameTurns(b, m), SameInputs(b, m), SameStop(b, m), calls' = {}, UNCHANGED runs
  PROVE  Journal!CrashInConsume
BY PendingIs, MarksPending, JournalTurns DEF Journal!CrashInConsume

LEMMA RequestsStop ==
  ASSUME NEW b \in Seq(Row), NEW m, Visible = b, Visible' = m, NEW mode,
         IF mode = "hard" THEN Marked(b, m, PendingIn(b), "canceled") ELSE SameOps(b, m),
         StopModeIn(m) = mode,
         SameTurns(b, m), SameInputs(b, m), UNCHANGED <<calls, runs>>
  PROVE  Journal!RequestStop(mode)
BY PendingIs, MarksPending, JournalTurns DEF Journal!RequestStop

LEMMA CrashesInStop ==
  ASSUME NEW b \in Seq(Row), NEW m, Visible = b, Visible' = m,
         NEW S \in SUBSET PendingIn(b), S # PendingIn(b), Marked(b, m, S, "canceled"),
         StopModeIn(m) = "hard",
         SameTurns(b, m), SameInputs(b, m), calls' = {}, UNCHANGED runs
  PROVE  Journal!CrashInStop
BY PendingIs, MarksPending, JournalTurns DEF Journal!CrashInStop

LEMMA Clears ==
  ASSUME NEW b, NEW m, Visible = b, Visible' = m, StopModeIn(b) # "none",
         StopModeIn(m) = "none",
         SameTurns(b, m), SameInputs(b, m), SameOps(b, m), UNCHANGED <<calls, runs>>
  PROVE  Journal!ClearStop
BY JournalTurns DEF Journal!ClearStop

-----------------------------------------------------------------------------
(* Calls in progress.  b is the log when the call began and l the log now; *)
(* rest is what is still to append, next what the caller does after it.    *)
DoneRows(b) ==
  IF OpenInput(b) = NoInput THEN <<>> ELSE <<InputRow(OpenInput(b), "done")>>
NewInputRows(i) == IF i = NoInput THEN <<>> ELSE <<InputRow(i, "open")>>
NewRows(b, i) == <<TurnRow(LastTurnIn(b) + 1, "open", i)>> \o NewInputRows(i)

\* What may follow the rows that close a turn.
AfterClose(b) ==
  {<<>>} \cup {NewRows(b, i) : i \in {i \in Inputs \cup {NoInput} : OpensAt(b, i)}}

\* Marks of some operations, each once.
Marks(b, q, s) == [n \in DOMAIN q |-> OpRow(OpenTurnIn(b), q[n], s)]
Left(q) == {q[n] : n \in DOMAIN q}
Orders(b) == {q \in Seq(PendingIn(b)) : \A n, k \in DOMAIN q : q[n] = q[k] => n = k}

Closing(b, l, rest, next) ==
  /\ l = b /\ next = Nothing /\ OpenTurnIn(b) # 0
  /\ \E x \in AfterClose(b) :
       rest = <<TurnRow(OpenTurnIn(b), "done", NoInput)>> \o (DoneRows(b) \o x)

HalfClosed(b, l, rest, next) ==
  /\ next = Nothing /\ OpenTurnIn(b) # 0 /\ OpenInput(b) # NoInput
  /\ TurnIsClosed(b, l) /\ SameInputs(b, l) /\ SameOps(b, l) /\ SameStop(b, l)
  /\ \E x \in AfterClose(b) : rest = <<InputRow(OpenInput(b), "done")>> \o x

Opening(b, l, rest, next) ==
  /\ next = Nothing
  /\ TurnIsClosed(b, l) /\ InputsAreClosed(b, l) /\ SameOps(b, l) /\ SameStop(b, l)
  /\ \E i \in Inputs \cup {NoInput} : OpensAt(b, i) /\ rest = NewRows(b, i)

HalfOpen(b, l, rest, next) ==
  /\ next = Nothing
  /\ \E i \in Inputs :
       /\ OpensAt(b, i) /\ rest = <<InputRow(i, "open")>>
       /\ TurnIsOpened(b, l, i)
  /\ InputsAreClosed(b, l) /\ SameOps(b, l) /\ SameStop(b, l)

ClaimRows(t, o, s) ==
  IF s = "none" THEN <<OpRow(t, o, "ready"), OpRow(t, o, "awaiting")>>
  ELSE IF s = "ready" THEN <<OpRow(t, o, "awaiting")>> ELSE <<>>

Claiming(b, l, rest, next) ==
  /\ SameTurns(b, l) /\ SameInputs(b, l) /\ SameStop(b, l) /\ StopModeIn(b) = "none"
  /\ \E t \in Scopes, o \in Ops, s \in {"none"} \cup OpenStatus :
       /\ t <= LastTurnIn(b) /\ OpStatusIn(b, t, o) = "none"
       /\ OpIs(b, l, t, o, s)
       /\ rest = ClaimRows(t, o, s) /\ next = <<"start", t, o>>

Interrupting(b, l, rest, next) ==
  /\ l = b /\ next = Nothing /\ StopModeIn(b) = "none"
  /\ \E t \in Scopes, o \in Ops :
       /\ t <= LastTurnIn(b) /\ OpStatusIn(b, t, o) \in OpenStatus
       /\ rest = <<OpRow(t, o, "interrupted")>>

Ending(b, l, rest, next, begun) ==
  /\ l = b
  /\ \E t \in Scopes, o \in Ops, s \in {"finished", "canceled"} :
       /\ <<t, o>> \in begun
       /\ rest = <<OpRow(t, o, s)>> /\ next = <<"end", t, o>>

Consuming(b, l, rest, next) ==
  /\ next = Nothing /\ SameTurns(b, l) /\ SameInputs(b, l) /\ SameStop(b, l)
  /\ \E q \in Orders(b) :
       /\ q # <<>> /\ rest = Marks(b, q, "interrupted")
       /\ Marked(b, l, PendingIn(b) \ Left(q), "interrupted")

Stopping(b, l, rest, next) ==
  /\ l = b /\ next = Nothing
  /\ \E mode \in {"hard", "when_idle"}, q \in Orders(b) :
       /\ rest = <<StopRow(mode)>> \o Marks(b, q, "canceled")
       /\ IF mode = "hard" THEN Left(q) = PendingIn(b) ELSE q = <<>>

Canceling(b, l, rest, next) ==
  /\ next = Nothing /\ SameTurns(b, l) /\ SameInputs(b, l) /\ StopModeIn(l) = "hard"
  /\ \E q \in Orders(b) :
       /\ q # <<>> /\ rest = Marks(b, q, "canceled")
       /\ Marked(b, l, PendingIn(b) \ Left(q), "canceled")

Clearing(b, l, rest, next) ==
  /\ l = b /\ next = Nothing /\ StopModeIn(b) # "none" /\ rest = <<StopRow("none")>>

Progress(b, l, rest, next, begun) ==
  \/ Closing(b, l, rest, next) \/ HalfClosed(b, l, rest, next)
  \/ Opening(b, l, rest, next) \/ HalfOpen(b, l, rest, next)
  \/ Claiming(b, l, rest, next) \/ Interrupting(b, l, rest, next)
  \/ Ending(b, l, rest, next, begun)
  \/ Consuming(b, l, rest, next)
  \/ Stopping(b, l, rest, next) \/ Canceling(b, l, rest, next)
  \/ Clearing(b, l, rest, next)

\* Between two rows of a call, the log reads as one of the states it passes.
LogInv ==
  /\ log \in Seq(Row) /\ base \in 0 .. Len(log)
  /\ ~ Idle => Progress(SubSeq(log, 1, base), log, todo, after, calls)

-----------------------------------------------------------------------------
(* Rows and lists of rows.                                                 *)
LEMMA RowsAre ==
  /\ \A t \in 1 .. MaxTurn, i \in Inputs \cup {NoInput}, s \in {"open", "done"} :
       TurnRow(t, s, i) \in Row
  /\ \A i \in Inputs, s \in {"open", "done"} : InputRow(i, s) \in Row
  /\ \A t \in Scopes, o \in Ops,
        s \in {"ready", "awaiting", "finished", "canceled", "interrupted"} : OpRow(t, o, s) \in Row
  /\ \A mode \in {"none", "hard", "when_idle"} : StopRow(mode) \in Row
BY DEF TurnRow, InputRow, OpRow, StopRow, Row, TurnRows, InputRows, OpRows, StopRows

LEMMA ConsIs ==
  ASSUME NEW a \in Row, NEW s \in Seq(Row)
  PROVE  /\ <<a>> \o s \in Seq(Row) /\ <<a>> \o s # <<>>
         /\ Head(<<a>> \o s) = a /\ Tail(<<a>> \o s) = s
<1>1. <<a>> \in Seq(Row) /\ Len(<<a>>) = 1 /\ <<a>>[1] = a
  OBVIOUS
<1>2. /\ <<a>> \o s \in Seq(Row) /\ Len(<<a>> \o s) = 1 + Len(s) /\ Len(s) \in Nat
      /\ \A n \in 1 .. 1 + Len(s) : (<<a>> \o s)[n] = IF n <= 1 THEN a ELSE s[n - 1]
  BY <1>1, ConcatProperties, LenProperties
<1> DEFINE c == <<a>> \o s
<1> HIDE DEF c
<1>3. c # <<>> /\ Head(c) = a
  BY <1>2 DEF c
<1>4. Tail(c) \in Seq(Row) /\ Len(Tail(c)) = Len(s)
  BY <1>2, <1>3, HeadTailProperties DEF c
<1>5. \A n \in 1 .. Len(s) : Tail(c)[n] = s[n]
  <2>1. \A n \in 1 .. Len(s) : Tail(c)[n] = c[n + 1]
    BY <1>2, <1>3, <1>4, HeadTailProperties DEF c
  <2> QED BY <1>2, <2>1 DEF c
<1>6. Tail(c) = s
  BY <1>4, <1>5, SeqEqual
<1> QED BY <1>2, <1>3, <1>6 DEF c

LEMMA OneRow ==
  ASSUME NEW a \in Row
  PROVE  <<a>> \in Seq(Row) /\ <<a>> # <<>> /\ Head(<<a>>) = a /\ Tail(<<a>>) = <<>>
OBVIOUS

LEMMA OpenInputIs ==
  ASSUME NEW l \in Seq(Row)
  PROVE  /\ \A t : InputOfTurn(l, t) \in Inputs \cup {NoInput}
         /\ OpenTurnIn(l) \in Scopes /\ LastTurnIn(l) \in Scopes /\ OpenTurnIn(l) <= LastTurnIn(l)
         /\ OpenTurnIn(l) # 0 => OpenTurnIn(l) \in 1 .. MaxTurn
<1>1. ASSUME NEW t PROVE InputOfTurn(l, t) \in Inputs \cup {NoInput}
  <2> DEFINE N == {n \in RowsOf(l, "turn") : l[n].id = t /\ l[n].status = "open"}
  <2>1. N # {} => Max(N) \in RowsOf(l, "turn")
    <3>1. Len(l) \in Nat /\ N \in SUBSET (1 .. Len(l))
      BY LenProperties DEF RowsOf
    <3> QED BY <3>1, MaxExists
  <2>2. N # {} => l[Max(N)] \in TurnRows
    BY <2>1, TurnRowsAre
  <2>3. InputOfTurn(l, t) = (IF N = {} THEN [input |-> NoInput] ELSE l[Max(N)]).input
    BY DEF InputOfTurn, LastIn
  <2> QED BY <2>2, <2>3 DEF TurnRows
<1>2. /\ OpenTurnIn(l) \in Scopes /\ LastTurnIn(l) \in Scopes /\ OpenTurnIn(l) <= LastTurnIn(l)
      /\ OpenTurnIn(l) # 0 => OpenTurnIn(l) \in 1 .. MaxTurn
  BY OpenTurnIs, LastTurnIs, RowsAssumption DEF Scopes
<1> QED BY <1>1, <1>2

MarkStatus == {"canceled", "interrupted"}

LEMMA MarksAre ==
  ASSUME NEW b \in Seq(Row), NEW q \in Orders(b), NEW s \in MarkStatus
  PROVE  /\ Marks(b, q, s) \in Seq(Row) /\ (Marks(b, q, s) = <<>> <=> q = <<>>)
         /\ q # <<>> =>
              /\ Head(Marks(b, q, s)) = OpRow(OpenTurnIn(b), q[1], s)
              /\ Tail(q) \in Orders(b) /\ Tail(Marks(b, q, s)) = Marks(b, Tail(q), s)
              /\ q[1] \in PendingIn(b) /\ Left(q) = Left(Tail(q)) \cup {q[1]}
              /\ q[1] \notin Left(Tail(q)) /\ Left(q) \subseteq PendingIn(b)
<1> DEFINE P == PendingIn(b)
           m == Marks(b, q, s)
<1>1. /\ q \in Seq(P) /\ Len(q) \in Nat /\ DOMAIN q = 1 .. Len(q)
      /\ \A n \in 1 .. Len(q) : q[n] \in P /\ q[n] \in Ops
      /\ \A n, k \in 1 .. Len(q) : q[n] = q[k] => n = k
  BY LenProperties DEF Orders, PendingIn
<1>2. /\ m \in Seq(Row) /\ Len(m) = Len(q)
      /\ \A n \in 1 .. Len(q) : m[n] = OpRow(OpenTurnIn(b), q[n], s)
  <2>1. \A n \in 1 .. Len(q) : OpRow(OpenTurnIn(b), q[n], s) \in Row
    BY <1>1, OpenInputIs, RowsAre DEF MarkStatus
  <2> QED BY <1>1, <2>1 DEF Marks
<1> HIDE DEF P, m
<1>3. ASSUME q # <<>>
      PROVE  /\ Head(m) = OpRow(OpenTurnIn(b), q[1], s)
             /\ Tail(q) \in Orders(b) /\ Tail(m) = Marks(b, Tail(q), s)
             /\ q[1] \in P /\ Left(q) = Left(Tail(q)) \cup {q[1]}
             /\ q[1] \notin Left(Tail(q)) /\ Left(q) \subseteq P
  <2> DEFINE r == Tail(q)
  <2>1. Len(q) \in Nat \ {0} /\ 1 \in 1 .. Len(q) /\ m # <<>>
    BY <1>1, <1>2, <1>3, EmptySeq
  <2>2. /\ r \in Seq(P) /\ Len(r) = Len(q) - 1 /\ DOMAIN r = 1 .. Len(r)
        /\ \A n \in 1 .. Len(r) : r[n] = q[n + 1] /\ n + 1 \in 1 .. Len(q)
    BY <1>1, <1>3, <2>1, HeadTailProperties, LenProperties
  <2> HIDE DEF r
  <2>3. r \in Orders(b)
    <3>1. ASSUME NEW n \in 1 .. Len(r), NEW k \in 1 .. Len(r), r[n] = r[k] PROVE n = k
      <4>1. /\ n + 1 \in 1 .. Len(q) /\ k + 1 \in 1 .. Len(q)
            /\ q[n + 1] = q[k + 1]
        BY <2>2, <3>1
      <4>2. n + 1 = k + 1
        BY <1>1, <4>1
      <4> QED BY <2>1, <2>2, <4>2
    <3> QED BY <2>2, <3>1 DEF Orders, P
  <2>4. Left(q) = Left(r) \cup {q[1]}
    <3>1. \A n \in 1 .. Len(q) : n = 1 \/ (n - 1 \in 1 .. Len(r) /\ r[n - 1] = q[n])
      BY <1>1, <2>1, <2>2
    <3>2. Left(q) = {q[n] : n \in 1 .. Len(q)} /\ Left(r) = {r[n] : n \in 1 .. Len(r)}
      BY <1>1, <2>2 DEF Left
    <3>3. ASSUME NEW o \in Left(q) PROVE o = q[1] \/ o \in Left(r)
      BY <3>1, <3>2
    <3>4. q[1] \in Left(q) /\ Left(r) \subseteq Left(q)
      BY <2>1, <2>2, <3>2
    <3> QED BY <3>3, <3>4
  <2>5. q[1] \notin Left(r)
    BY <1>1, <2>1, <2>2 DEF Left
  <2>6. Tail(m) = Marks(b, r, s)
    <3>1. /\ Tail(m) \in Seq(Row) /\ Len(Tail(m)) = Len(r)
          /\ \A n \in 1 .. Len(r) : Tail(m)[n] = m[n + 1]
      BY <1>2, <2>1, <2>2, HeadTailProperties
    <3>2. \A n \in 1 .. Len(r) : m[n + 1] = OpRow(OpenTurnIn(b), r[n], s)
      BY <1>2, <2>2
    <3>3. \A n \in 1 .. Len(r) : OpRow(OpenTurnIn(b), r[n], s) \in Row
      BY <1>1, <2>2, OpenInputIs, RowsAre DEF MarkStatus
    <3>4. /\ Marks(b, r, s) \in Seq(Row) /\ Len(Marks(b, r, s)) = Len(r)
          /\ \A n \in 1 .. Len(r) : Marks(b, r, s)[n] = OpRow(OpenTurnIn(b), r[n], s)
      BY <2>1, <2>2, <3>3 DEF Marks
    <3> QED BY <3>1, <3>2, <3>4, SeqEqual
  <2>7. Head(m) = OpRow(OpenTurnIn(b), q[1], s)
    BY <1>2, <2>1
  <2>8. q[1] \in P /\ Left(q) \subseteq P
    BY <1>1, <2>1 DEF Left
  <2> QED BY <2>3, <2>4, <2>5, <2>6, <2>7, <2>8 DEF r
<1>4. m = <<>> <=> q = <<>>
  BY <1>1, <1>2, EmptySeq
<1> QED BY <1>2, <1>3, <1>4 DEF P, m

LEMMA MarksEmpty ==
  ASSUME NEW b \in Seq(Row), NEW q \in Orders(b), NEW s \in MarkStatus
  PROVE  Marks(b, q, s) = <<>> <=> q = <<>>
BY MarksAre

LEMMA OneIsLeft ==
  ASSUME NEW b \in Seq(Row), NEW q \in Orders(b), q # <<>>
  PROVE  PendingIn(b) \ Left(q) # PendingIn(b)
<1>1. "canceled" \in MarkStatus
  BY DEF MarkStatus
<1>2. q[1] \in PendingIn(b) /\ Left(q) = Left(Tail(q)) \cup {q[1]}
  BY <1>1, MarksAre
<1> QED BY <1>2

-----------------------------------------------------------------------------
(* What one more row does to a call in progress.                           *)
LEMMA OtherRows ==
  ASSUME NEW l \in Seq(Row), NEW r \in Row
  PROVE  /\ r.kind # "turn" => SameTurns(l, Append(l, r))
         /\ r.kind # "input" => SameInputs(l, Append(l, r))
         /\ r.kind # "operation" => SameOps(l, Append(l, r))
         /\ r.kind # "stop" => SameStop(l, Append(l, r))
BY LastTurnAppend, OpenTurnAppend, InputOfAppend, InputStatusAppend, OpStatusAppend, StopModeAppend
   DEF SameTurns, SameInputOf, SameInputs, SameOps, SameStop

LEMMA SameFollows ==
  ASSUME NEW b, NEW l, NEW m
  PROVE  /\ SameTurns(l, m) =>
              /\ SameTurns(b, l) => SameTurns(b, m)
              /\ TurnIsClosed(b, l) => TurnIsClosed(b, m)
              /\ \A i : TurnIsOpened(b, l, i) => TurnIsOpened(b, m, i)
         /\ SameInputs(l, m) =>
              /\ SameInputs(b, l) => SameInputs(b, m)
              /\ InputsAreClosed(b, l) => InputsAreClosed(b, m)
         /\ SameOps(l, m) =>
              /\ SameOps(b, l) => SameOps(b, m)
              /\ \A S, s : Marked(b, l, S, s) => Marked(b, m, S, s)
         /\ SameStop(b, l) /\ SameStop(l, m) => SameStop(b, m)
BY DEF SameTurns, SameInputOf, TurnIsClosed, TurnIsOpened, SameInputs, InputsAreClosed,
       SameOps, Marked, SameStop

CommitEffect(b, m) ==
  /\ OpenTurnIn(b) # 0 /\ TurnIsClosed(b, m) /\ InputsAreClosed(b, m)
  /\ SameOps(b, m) /\ SameStop(b, m)

OpenEffect(b, m) ==
  \E i \in Inputs \cup {NoInput} :
    /\ OpensAt(b, i) /\ TurnIsOpened(b, m, i)
    /\ \A j \in Inputs : InputStatusIn(m, j) = IF j = i THEN "open" ELSE ClosedStatus(b, j)
    /\ SameOps(b, m) /\ SameStop(b, m)

LEMMA NewRowsAre ==
  ASSUME NEW b \in Seq(Row), NEW i \in Inputs \cup {NoInput}, OpensAt(b, i)
  PROVE  /\ NewInputRows(i) \in Seq(Row) /\ NewRows(b, i) \in Seq(Row) /\ NewRows(b, i) # <<>>
         /\ TurnRow(LastTurnIn(b) + 1, "open", i) \in Row
         /\ Head(NewRows(b, i)) = TurnRow(LastTurnIn(b) + 1, "open", i)
         /\ Tail(NewRows(b, i)) = NewInputRows(i)
<1>1. LastTurnIn(b) + 1 \in 1 .. MaxTurn
  BY OpenInputIs, RowsAssumption DEF OpensAt, Scopes
<1>2. TurnRow(LastTurnIn(b) + 1, "open", i) \in Row
  BY <1>1, RowsAre
<1>3. NewInputRows(i) \in Seq(Row)
  BY RowsAre, OneRow DEF NewInputRows
<1> QED BY <1>2, <1>3, ConsIs DEF NewRows

LEMMA AfterCloseIs ==
  ASSUME NEW b \in Seq(Row), NEW x \in AfterClose(b)
  PROVE  /\ x \in Seq(Row) /\ DoneRows(b) \in Seq(Row)
         /\ x # <<>> => \E i \in Inputs \cup {NoInput} : OpensAt(b, i) /\ x = NewRows(b, i)
<1>1. DoneRows(b) \in Seq(Row)
  BY OpenInputIs, RowsAre, OneRow DEF DoneRows, OpenInput
<1>2. x \in Seq(Row)
  <2>1. x = <<>> \/ \E i \in Inputs \cup {NoInput} : OpensAt(b, i) /\ x = NewRows(b, i)
    BY DEF AfterClose
  <2>2. ASSUME NEW i \in Inputs \cup {NoInput}, OpensAt(b, i), x = NewRows(b, i)
        PROVE  x \in Seq(Row)
    BY <2>2, NewRowsAre
  <2>3. x = <<>> => x \in Seq(Row)
    OBVIOUS
  <2> QED BY <2>1, <2>2, <2>3
<1> QED BY <1>1, <1>2 DEF AfterClose

LEMMA ClosedThen ==
  ASSUME NEW b \in Seq(Row), NEW m, NEW x \in AfterClose(b), OpenTurnIn(b) # 0,
         TurnIsClosed(b, m), InputsAreClosed(b, m), SameOps(b, m), SameStop(b, m)
  PROVE  IF x = <<>> THEN CommitEffect(b, m) ELSE Opening(b, m, x, Nothing)
BY AfterCloseIs DEF CommitEffect, Opening

LEMMA ClosingGoes ==
  ASSUME NEW b \in Seq(Row), NEW rest, NEW next, Closing(b, b, rest, next)
  PROVE  /\ rest # <<>> /\ Head(rest) \in Row
         /\ IF Tail(rest) = <<>> THEN CommitEffect(b, Append(b, Head(rest)))
            ELSE \/ HalfClosed(b, Append(b, Head(rest)), Tail(rest), next)
                 \/ Opening(b, Append(b, Head(rest)), Tail(rest), next)
<1> DEFINE t == OpenTurnIn(b)
           r == TurnRow(t, "done", NoInput)
           m == Append(b, r)
<1>1. PICK x \in AfterClose(b) : rest = <<r>> \o (DoneRows(b) \o x)
  BY DEF Closing
<1>2. next = Nothing /\ t # 0 /\ t \in 1 .. MaxTurn /\ r \in Row
  BY OpenInputIs, RowsAre DEF Closing
<1>3. x \in Seq(Row) /\ DoneRows(b) \in Seq(Row) /\ DoneRows(b) \o x \in Seq(Row)
  BY AfterCloseIs, ConcatProperties
<1>4. rest # <<>> /\ Head(rest) = r /\ Tail(rest) = DoneRows(b) \o x
  BY <1>1, <1>2, <1>3, ConsIs
<1>5. r.kind = "turn" /\ r.id = t /\ r.status = "done"
  BY DEF TurnRow
<1> HIDE DEF r
<1>6. SameInputs(b, m) /\ SameOps(b, m) /\ SameStop(b, m)
  BY <1>2, <1>5, OtherRows
<1>7. TurnIsClosed(b, m)
  <2>1. OpenTurnIn(m) = 0
    BY <1>2, <1>5, OpenTurnAppend
  <2>2. LastTurnIn(m) = LastTurnIn(b)
    <3>1. ~ (t > LastTurnIn(b))
      BY OpenInputIs, RowsAssumption DEF Scopes
    <3> QED BY <1>2, <1>5, <3>1, LastTurnAppend
  <2>3. SameInputOf(b, m)
    BY <1>2, <1>5, InputOfAppend DEF SameInputOf
  <2> QED BY <2>1, <2>2, <2>3 DEF TurnIsClosed
<1> HIDE DEF m
<1>8. CASE OpenInput(b) = NoInput
  <2>1. InputsAreClosed(b, m)
    BY <1>6, <1>8, RowsAssumption DEF InputsAreClosed, ClosedStatus, SameInputs
  <2>2. DoneRows(b) \o x = x
    BY <1>3, <1>8, ConcatEmptySeq DEF DoneRows
  <2> QED BY <1>2, <1>4, <1>6, <1>7, <2>1, <2>2, ClosedThen DEF m
<1>9. CASE OpenInput(b) # NoInput
  <2>1. InputRow(OpenInput(b), "done") \in Row
    BY <1>9, OpenInputIs, RowsAre DEF OpenInput
  <2>2. Tail(rest) = <<InputRow(OpenInput(b), "done")>> \o x
    BY <1>4, <1>9 DEF DoneRows
  <2>3. Tail(rest) # <<>>
    BY <1>3, <2>1, <2>2, ConsIs
  <2>4. HalfClosed(b, m, Tail(rest), next)
    BY <1>2, <1>6, <1>7, <1>9, <2>2 DEF HalfClosed
  <2> QED BY <1>2, <1>4, <2>3, <2>4 DEF m
<1> QED BY <1>8, <1>9

LEMMA HalfClosedGoes ==
  ASSUME NEW b \in Seq(Row), NEW l \in Seq(Row), NEW rest, NEW next,
         HalfClosed(b, l, rest, next)
  PROVE  /\ rest # <<>> /\ Head(rest) \in Row
         /\ IF Tail(rest) = <<>> THEN CommitEffect(b, Append(l, Head(rest)))
            ELSE Opening(b, Append(l, Head(rest)), Tail(rest), next)
<1> DEFINE r == InputRow(OpenInput(b), "done")
           m == Append(l, r)
<1>1. PICK x \in AfterClose(b) : rest = <<r>> \o x
  BY DEF HalfClosed
<1>2. /\ next = Nothing /\ OpenTurnIn(b) # 0 /\ r \in Row /\ x \in Seq(Row)
      /\ r.kind = "input" /\ r.id = OpenInput(b) /\ r.status = "done"
  BY OpenInputIs, RowsAre, AfterCloseIs DEF HalfClosed, OpenInput, InputRow
<1>3. rest # <<>> /\ Head(rest) = r /\ Tail(rest) = x
  BY <1>1, <1>2, ConsIs
<1> HIDE DEF r
<1>4. SameTurns(l, m) /\ SameOps(l, m) /\ SameStop(l, m)
  BY <1>2, OtherRows
<1>5. InputsAreClosed(b, m)
  <2>1. \A i \in Inputs : InputStatusIn(m, i) = IF i = OpenInput(b) THEN "done" ELSE InputStatusIn(l, i)
    BY <1>2, InputStatusAppend
  <2> QED BY <1>2, <2>1 DEF InputsAreClosed, ClosedStatus, HalfClosed, SameInputs
<1> HIDE DEF m
<1>6. TurnIsClosed(b, m) /\ SameOps(b, m) /\ SameStop(b, m)
  BY <1>4, SameFollows DEF HalfClosed
<1> QED BY <1>2, <1>3, <1>5, <1>6, ClosedThen DEF m

LEMMA OpeningGoes ==
  ASSUME NEW b \in Seq(Row), NEW l \in Seq(Row), NEW rest, NEW next, Opening(b, l, rest, next)
  PROVE  /\ rest # <<>> /\ Head(rest) \in Row
         /\ IF Tail(rest) = <<>> THEN OpenEffect(b, Append(l, Head(rest)))
            ELSE HalfOpen(b, Append(l, Head(rest)), Tail(rest), next)
<1>1. PICK i \in Inputs \cup {NoInput} : OpensAt(b, i) /\ rest = NewRows(b, i)
  BY DEF Opening
<1> DEFINE t == LastTurnIn(b) + 1
           r == TurnRow(t, "open", i)
           m == Append(l, r)
<1>2. r \in Row /\ rest # <<>> /\ Head(rest) = r /\ Tail(rest) = NewInputRows(i)
  BY <1>1, NewRowsAre
<1>3. r.kind = "turn" /\ r.id = t /\ r.status = "open" /\ r.input = i
  BY DEF TurnRow
<1> HIDE DEF r
<1>4. SameInputs(l, m) /\ SameOps(l, m) /\ SameStop(l, m)
  BY <1>2, <1>3, OtherRows
<1>5. TurnIsOpened(b, m, i)
  <2>1. OpenTurnIn(m) = t
    BY <1>2, <1>3, OpenTurnAppend
  <2>2. LastTurnIn(m) = t
    <3>1. LastTurnIn(l) = LastTurnIn(b) /\ t > LastTurnIn(b)
      BY OpenInputIs, RowsAssumption DEF Opening, TurnIsClosed, Scopes
    <3> QED BY <1>2, <1>3, <3>1, LastTurnAppend
  <2>3. \A u \in 1 .. MaxTurn : InputOfTurn(m, u) = IF u = t THEN i ELSE InputOfTurn(b, u)
    <3>1. \A u \in 1 .. MaxTurn : InputOfTurn(l, u) = InputOfTurn(b, u)
      BY DEF Opening, TurnIsClosed, SameInputOf
    <3> QED BY <1>2, <1>3, <3>1, InputOfAppend
  <2> QED BY <2>1, <2>2, <2>3 DEF TurnIsOpened
<1> HIDE DEF m
<1>6. InputsAreClosed(b, m) /\ SameOps(b, m) /\ SameStop(b, m)
  BY <1>4, SameFollows DEF Opening
<1>7. CASE i = NoInput
  <2>1. Tail(rest) = <<>>
    BY <1>2, <1>7 DEF NewInputRows
  <2>2. \A j \in Inputs : InputStatusIn(m, j) = IF j = i THEN "open" ELSE ClosedStatus(b, j)
    BY <1>6, <1>7, RowsAssumption DEF InputsAreClosed
  <2>3. OpenEffect(b, m)
    BY <1>1, <1>5, <1>6, <2>2 DEF OpenEffect
  <2> QED BY <1>2, <2>1, <2>3 DEF m
<1>8. CASE i # NoInput
  <2>1. i \in Inputs /\ Tail(rest) = <<InputRow(i, "open")>>
    BY <1>2, <1>8 DEF NewInputRows
  <2>2. HalfOpen(b, m, Tail(rest), next)
    BY <1>1, <1>5, <1>6, <2>1 DEF HalfOpen, Opening
  <2>3. Tail(rest) # <<>>
    BY <2>1
  <2> QED BY <1>2, <2>2, <2>3 DEF m
<1> QED BY <1>7, <1>8

LEMMA HalfOpenGoes ==
  ASSUME NEW b \in Seq(Row), NEW l \in Seq(Row), NEW rest, NEW next, HalfOpen(b, l, rest, next)
  PROVE  /\ rest # <<>> /\ Head(rest) \in Row /\ Tail(rest) = <<>>
         /\ OpenEffect(b, Append(l, Head(rest)))
<1>1. PICK i \in Inputs : /\ OpensAt(b, i) /\ rest = <<InputRow(i, "open")>>
                          /\ TurnIsOpened(b, l, i)
  BY DEF HalfOpen
<1> DEFINE r == InputRow(i, "open")
           m == Append(l, r)
<1>2. r \in Row /\ r.kind = "input" /\ r.id = i /\ r.status = "open"
  BY RowsAre DEF InputRow
<1>3. rest # <<>> /\ Head(rest) = r /\ Tail(rest) = <<>>
  BY <1>1, <1>2, OneRow
<1> HIDE DEF r
<1>4. SameTurns(l, m) /\ SameOps(l, m) /\ SameStop(l, m)
  BY <1>2, OtherRows
<1>5. \A j \in Inputs : InputStatusIn(m, j) = IF j = i THEN "open" ELSE ClosedStatus(b, j)
  <2>1. \A j \in Inputs : InputStatusIn(m, j) = IF j = i THEN "open" ELSE InputStatusIn(l, j)
    BY <1>2, InputStatusAppend
  <2> QED BY <2>1 DEF HalfOpen, InputsAreClosed
<1> HIDE DEF m
<1>6. TurnIsOpened(b, m, i) /\ SameOps(b, m) /\ SameStop(b, m)
  BY <1>1, <1>4, SameFollows DEF HalfOpen
<1>7. OpenEffect(b, m)
  BY <1>1, <1>5, <1>6 DEF OpenEffect
<1> QED BY <1>2, <1>3, <1>7 DEF m

\* A row about one operation.
LEMMA OpRowIs ==
  ASSUME NEW l \in Seq(Row), NEW t \in Scopes, NEW o \in Ops,
         NEW s \in {"ready", "awaiting", "finished", "canceled", "interrupted"}
  PROVE  /\ OpRow(t, o, s) \in Row
         /\ OpIs(l, Append(l, OpRow(t, o, s)), t, o, s)
         /\ SameTurns(l, Append(l, OpRow(t, o, s))) /\ SameInputs(l, Append(l, OpRow(t, o, s)))
         /\ SameStop(l, Append(l, OpRow(t, o, s)))
<1> DEFINE r == OpRow(t, o, s)
<1>1. r \in Row /\ r.kind = "operation" /\ r.id = o /\ r.turn = t /\ r.status = s
  BY RowsAre DEF OpRow
<1> HIDE DEF r
<1>2. OpIs(l, Append(l, r), t, o, s)
  BY <1>1, OpStatusAppend DEF OpIs
<1> QED BY <1>1, <1>2, OtherRows DEF r

LEMMA ClaimingGoes ==
  ASSUME NEW b \in Seq(Row), NEW l \in Seq(Row), NEW rest, NEW next,
         Claiming(b, l, rest, next), rest # <<>>
  PROVE  /\ Head(rest) \in Row /\ next[1] = "start"
         /\ Claiming(b, Append(l, Head(rest)), Tail(rest), next)
<1>1. PICK t \in Scopes, o \in Ops, s \in {"none"} \cup OpenStatus :
        /\ t <= LastTurnIn(b) /\ OpStatusIn(b, t, o) = "none"
        /\ OpIs(b, l, t, o, s)
        /\ rest = ClaimRows(t, o, s) /\ next = <<"start", t, o>>
  BY DEF Claiming
<1> DEFINE new == IF s = "none" THEN "ready" ELSE "awaiting"
           r == OpRow(t, o, new)
           m == Append(l, r)
<1>2. s # "awaiting"
  BY <1>1 DEF ClaimRows
<1>3. r \in Row /\ OpIs(l, m, t, o, new) /\ SameTurns(l, m) /\ SameInputs(l, m) /\ SameStop(l, m)
  BY OpRowIs
<1>4. Head(rest) = r /\ Tail(rest) = ClaimRows(t, o, new) /\ new \in {"none"} \cup OpenStatus
  BY <1>1, <1>2 DEF ClaimRows, OpenStatus
<1> HIDE DEF r, new, m
<1>5. OpIs(b, m, t, o, new)
  BY <1>1, <1>3 DEF OpIs
<1>6. SameTurns(b, m) /\ SameInputs(b, m) /\ SameStop(b, m) /\ StopModeIn(b) = "none"
  BY <1>3, SameFollows DEF Claiming
<1>7. Claiming(b, m, Tail(rest), next)
  BY <1>1, <1>4, <1>5, <1>6 DEF Claiming
<1> QED BY <1>1, <1>3, <1>4, <1>7 DEF m

InterruptEffect(b, m) ==
  /\ SameTurns(b, m) /\ SameInputs(b, m) /\ SameStop(b, m) /\ StopModeIn(b) = "none"
  /\ \E t \in Scopes, o \in Ops :
       /\ t <= LastTurnIn(b) /\ OpStatusIn(b, t, o) \in OpenStatus
       /\ OpIs(b, m, t, o, "interrupted")

LEMMA InterruptingGoes ==
  ASSUME NEW b \in Seq(Row), NEW rest, NEW next, Interrupting(b, b, rest, next)
  PROVE  /\ rest # <<>> /\ Head(rest) \in Row /\ Tail(rest) = <<>>
         /\ InterruptEffect(b, Append(b, Head(rest)))
<1>1. PICK t \in Scopes, o \in Ops :
        /\ t <= LastTurnIn(b) /\ OpStatusIn(b, t, o) \in OpenStatus
        /\ rest = <<OpRow(t, o, "interrupted")>>
  BY DEF Interrupting
<1> DEFINE r == OpRow(t, o, "interrupted")
<1>2. /\ r \in Row /\ OpIs(b, Append(b, r), t, o, "interrupted")
      /\ SameTurns(b, Append(b, r)) /\ SameInputs(b, Append(b, r)) /\ SameStop(b, Append(b, r))
  BY OpRowIs
<1> HIDE DEF r
<1>3. rest # <<>> /\ Head(rest) = r /\ Tail(rest) = <<>>
  BY <1>1, <1>2, OneRow DEF r
<1>4. InterruptEffect(b, Append(b, r))
  BY <1>1, <1>2 DEF InterruptEffect, Interrupting
<1> QED BY <1>2, <1>3, <1>4

EndEffect(b, m, next, begun) ==
  /\ SameTurns(b, m) /\ SameInputs(b, m) /\ SameStop(b, m)
  /\ \E t \in Scopes, o \in Ops, s \in {"finished", "canceled"} :
       <<t, o>> \in begun /\ OpIs(b, m, t, o, s) /\ next = <<"end", t, o>>

LEMMA EndingGoes ==
  ASSUME NEW b \in Seq(Row), NEW rest, NEW next, NEW begun, Ending(b, b, rest, next, begun)
  PROVE  /\ rest # <<>> /\ Head(rest) \in Row /\ Tail(rest) = <<>> /\ next[1] = "end"
         /\ EndEffect(b, Append(b, Head(rest)), next, begun)
<1>1. PICK t \in Scopes, o \in Ops, s \in {"finished", "canceled"} :
        /\ <<t, o>> \in begun
        /\ rest = <<OpRow(t, o, s)>> /\ next = <<"end", t, o>>
  BY DEF Ending
<1> DEFINE r == OpRow(t, o, s)
<1>2. /\ r \in Row /\ OpIs(b, Append(b, r), t, o, s)
      /\ SameTurns(b, Append(b, r)) /\ SameInputs(b, Append(b, r)) /\ SameStop(b, Append(b, r))
  BY OpRowIs
<1> HIDE DEF r
<1>3. rest # <<>> /\ Head(rest) = r /\ Tail(rest) = <<>>
  BY <1>1, <1>2, OneRow DEF r
<1>4. EndEffect(b, Append(b, r), next, begun)
  BY <1>1, <1>2 DEF EndEffect
<1> QED BY <1>1, <1>2, <1>3, <1>4

\* Each mark of a pending operation adds it to the marked ones.
LEMMA MarkAdds ==
  ASSUME NEW b \in Seq(Row), NEW l \in Seq(Row), NEW q \in Orders(b), q # <<>>,
         NEW s \in MarkStatus,
         Marked(b, l, PendingIn(b) \ Left(q), s)
  PROVE  LET rest == Marks(b, q, s)
             m == Append(l, Head(rest))
         IN  /\ rest # <<>> /\ Head(rest) \in Row
             /\ SameTurns(l, m) /\ SameInputs(l, m) /\ SameStop(l, m)
             /\ Tail(q) \in Orders(b) /\ Tail(rest) = Marks(b, Tail(q), s)
             /\ Tail(rest) = <<>> <=> Tail(q) = <<>>
             /\ Marked(b, m, PendingIn(b) \ Left(Tail(q)), s)
<1>0. /\ Marks(b, q, s) # <<>>
      /\ Head(Marks(b, q, s)) = OpRow(OpenTurnIn(b), q[1], s)
      /\ Tail(q) \in Orders(b) /\ Tail(Marks(b, q, s)) = Marks(b, Tail(q), s)
      /\ q[1] \in PendingIn(b) /\ Left(q) = Left(Tail(q)) \cup {q[1]}
      /\ q[1] \notin Left(Tail(q)) /\ Left(q) \subseteq PendingIn(b)
  <2>1. Marks(b, q, s) = <<>> <=> q = <<>>
    BY MarksAre
  <2>2. Head(Marks(b, q, s)) = OpRow(OpenTurnIn(b), q[1], s)
    BY MarksAre
  <2>3. Tail(q) \in Orders(b) /\ Tail(Marks(b, q, s)) = Marks(b, Tail(q), s)
    BY MarksAre
  <2>4. q[1] \in PendingIn(b) /\ Left(q) = Left(Tail(q)) \cup {q[1]}
    BY MarksAre
  <2>5. q[1] \notin Left(Tail(q)) /\ Left(q) \subseteq PendingIn(b)
    BY MarksAre
  <2> QED BY <2>1, <2>2, <2>3, <2>4, <2>5
<1> DEFINE o == q[1]
           t == OpenTurnIn(b)
           rest == Marks(b, q, s)
           r == OpRow(t, o, s)
           m == Append(l, r)
           P == PendingIn(b)
<1>1. /\ rest # <<>> /\ Head(rest) = r /\ Tail(q) \in Orders(b) /\ Tail(rest) = Marks(b, Tail(q), s)
      /\ o \in P /\ Left(q) = Left(Tail(q)) \cup {o} /\ o \notin Left(Tail(q)) /\ Left(q) \subseteq P
  BY <1>0
<1>2. Tail(rest) = <<>> <=> Tail(q) = <<>>
  <2>1. Marks(b, Tail(q), s) = <<>> <=> Tail(q) = <<>>
    <3> HIDE DEF o, t, r, m, rest, P
    <3> QED BY <1>0, MarksEmpty
  <2> QED BY <1>0, <2>1
<1>3. o \in Ops /\ t \in Scopes
  BY <1>1, OpenInputIs DEF PendingIn
<1>4. r \in Row /\ OpIs(l, m, t, o, s) /\ SameTurns(l, m) /\ SameInputs(l, m) /\ SameStop(l, m)
  BY <1>3, OpRowIs DEF MarkStatus
<1> HIDE DEF o, r, m, rest, P
<1>5. P \ Left(Tail(q)) = (P \ Left(q)) \cup {o}
  BY <1>1
<1>6. Marked(b, m, P \ Left(Tail(q)), s)
  <2>1. \A u \in Scopes, p \in Ops :
          OpStatusIn(m, u, p) = IF u = t /\ p = o THEN s ELSE OpStatusIn(l, u, p)
    BY <1>4 DEF OpIs
  <2>2. \A u \in Scopes, p \in Ops :
          OpStatusIn(l, u, p) = IF u = t /\ p \in P \ Left(q) THEN s ELSE OpStatusIn(b, u, p)
    BY DEF Marked, P
  <2> QED BY <1>5, <2>1, <2>2 DEF Marked
<1> QED BY <1>1, <1>2, <1>4, <1>6 DEF m, rest, P

ConsumeEffect(b, m) ==
  /\ SameTurns(b, m) /\ SameInputs(b, m) /\ SameStop(b, m)
  /\ PendingIn(b) # {} /\ Marked(b, m, PendingIn(b), "interrupted")

LEMMA ConsumingGoes ==
  ASSUME NEW b \in Seq(Row), NEW l \in Seq(Row), NEW rest, NEW next, Consuming(b, l, rest, next)
  PROVE  /\ rest # <<>> /\ Head(rest) \in Row
         /\ IF Tail(rest) = <<>> THEN ConsumeEffect(b, Append(l, Head(rest)))
            ELSE Consuming(b, Append(l, Head(rest)), Tail(rest), next)
<1>1. PICK q \in Orders(b) :
        /\ q # <<>> /\ rest = Marks(b, q, "interrupted")
        /\ Marked(b, l, PendingIn(b) \ Left(q), "interrupted")
  BY DEF Consuming
<1> DEFINE m == Append(l, Head(rest))
<1>2. /\ rest # <<>> /\ Head(rest) \in Row
      /\ SameTurns(l, m) /\ SameInputs(l, m) /\ SameStop(l, m)
      /\ Tail(q) \in Orders(b) /\ Tail(rest) = Marks(b, Tail(q), "interrupted")
      /\ Tail(rest) = <<>> <=> Tail(q) = <<>>
      /\ Marked(b, m, PendingIn(b) \ Left(Tail(q)), "interrupted")
  BY <1>1, MarkAdds DEF MarkStatus
<1> HIDE DEF m
<1>3. SameTurns(b, m) /\ SameInputs(b, m) /\ SameStop(b, m) /\ next = Nothing
  BY <1>2, SameFollows DEF Consuming
<1>4. CASE Tail(rest) = <<>>
  <2>1. Left(Tail(q)) = {}
    BY <1>2, <1>4 DEF Left
  <2>2. PendingIn(b) # {}
    BY <1>1, MarksAre DEF MarkStatus
  <2> QED BY <1>2, <1>3, <1>4, <2>1, <2>2 DEF ConsumeEffect, m
<1>5. CASE Tail(rest) # <<>>
  <2>1. Consuming(b, m, Tail(rest), next)
    BY <1>2, <1>3, <1>5 DEF Consuming
  <2> QED BY <1>2, <1>5, <2>1 DEF m
<1> QED BY <1>4, <1>5

StopEffect(b, m) ==
  /\ SameTurns(b, m) /\ SameInputs(b, m)
  /\ \/ StopModeIn(m) = "hard" /\ Marked(b, m, PendingIn(b), "canceled")
     \/ StopModeIn(m) = "when_idle" /\ SameOps(b, m)

LEMMA StoppingGoes ==
  ASSUME NEW b \in Seq(Row), NEW rest, NEW next, Stopping(b, b, rest, next)
  PROVE  /\ rest # <<>> /\ Head(rest) \in Row
         /\ IF Tail(rest) = <<>> THEN StopEffect(b, Append(b, Head(rest)))
            ELSE Canceling(b, Append(b, Head(rest)), Tail(rest), next)
<1>1. PICK mode \in {"hard", "when_idle"}, q \in Orders(b) :
        /\ rest = <<StopRow(mode)>> \o Marks(b, q, "canceled")
        /\ IF mode = "hard" THEN Left(q) = PendingIn(b) ELSE q = <<>>
  BY DEF Stopping
<1> DEFINE r == StopRow(mode)
           m == Append(b, r)
<1>2. r \in Row /\ r.kind = "stop" /\ r.mode = mode
  BY RowsAre DEF StopRow
<1>3. Marks(b, q, "canceled") \in Seq(Row) /\ (Marks(b, q, "canceled") = <<>> <=> q = <<>>)
  BY MarksAre DEF MarkStatus
<1>4. rest # <<>> /\ Head(rest) = r /\ Tail(rest) = Marks(b, q, "canceled")
  BY <1>1, <1>2, <1>3, ConsIs
<1> HIDE DEF r
<1>5. SameTurns(b, m) /\ SameInputs(b, m) /\ SameOps(b, m) /\ StopModeIn(m) = mode
  BY <1>2, OtherRows, StopModeAppend
<1> HIDE DEF m
<1>6. Marked(b, m, {}, "canceled")
  BY <1>5 DEF Marked, SameOps
<1>7. CASE q = <<>>
  <2>1. mode = "hard" => PendingIn(b) = {}
    BY <1>1, <1>7 DEF Left
  <2> QED BY <1>2, <1>3, <1>4, <1>5, <1>6, <1>7, <2>1 DEF StopEffect, m
<1>8. CASE q # <<>>
  <2>1. mode = "hard" /\ PendingIn(b) \ Left(q) = {}
    BY <1>1, <1>8
  <2>2. Canceling(b, m, Tail(rest), next)
    BY <1>4, <1>5, <1>6, <1>8, <2>1 DEF Canceling, Stopping
  <2> QED BY <1>2, <1>3, <1>4, <1>8, <2>2 DEF m
<1> QED BY <1>7, <1>8

LEMMA CancelingGoes ==
  ASSUME NEW b \in Seq(Row), NEW l \in Seq(Row), NEW rest, NEW next, Canceling(b, l, rest, next)
  PROVE  /\ rest # <<>> /\ Head(rest) \in Row
         /\ IF Tail(rest) = <<>> THEN StopEffect(b, Append(l, Head(rest)))
            ELSE Canceling(b, Append(l, Head(rest)), Tail(rest), next)
<1>1. PICK q \in Orders(b) :
        /\ q # <<>> /\ rest = Marks(b, q, "canceled")
        /\ Marked(b, l, PendingIn(b) \ Left(q), "canceled")
  BY DEF Canceling
<1> DEFINE m == Append(l, Head(rest))
<1>2. /\ rest # <<>> /\ Head(rest) \in Row
      /\ SameTurns(l, m) /\ SameInputs(l, m) /\ SameStop(l, m)
      /\ Tail(q) \in Orders(b) /\ Tail(rest) = Marks(b, Tail(q), "canceled")
      /\ Tail(rest) = <<>> <=> Tail(q) = <<>>
      /\ Marked(b, m, PendingIn(b) \ Left(Tail(q)), "canceled")
  BY <1>1, MarkAdds DEF MarkStatus
<1> HIDE DEF m
<1>3. SameTurns(b, m) /\ SameInputs(b, m) /\ StopModeIn(m) = "hard" /\ next = Nothing
  BY <1>2, SameFollows DEF Canceling, SameStop
<1>4. CASE Tail(rest) = <<>>
  <2>1. Left(Tail(q)) = {}
    BY <1>2, <1>4 DEF Left
  <2> QED BY <1>2, <1>3, <1>4, <2>1 DEF StopEffect, m
<1>5. CASE Tail(rest) # <<>>
  <2>1. Canceling(b, m, Tail(rest), next)
    BY <1>2, <1>3, <1>5 DEF Canceling
  <2> QED BY <1>2, <1>5, <2>1 DEF m
<1> QED BY <1>4, <1>5

ClearEffect(b, m) ==
  /\ SameTurns(b, m) /\ SameInputs(b, m) /\ SameOps(b, m)
  /\ StopModeIn(b) # "none" /\ StopModeIn(m) = "none"

LEMMA ClearingGoes ==
  ASSUME NEW b \in Seq(Row), NEW rest, NEW next, Clearing(b, b, rest, next)
  PROVE  /\ rest # <<>> /\ Head(rest) \in Row /\ Tail(rest) = <<>>
         /\ ClearEffect(b, Append(b, Head(rest)))
<1> DEFINE r == StopRow("none")
<1>1. r \in Row /\ r.kind = "stop" /\ r.mode = "none" /\ rest = <<r>>
  BY RowsAre DEF StopRow, Clearing
<1> HIDE DEF r
<1>2. rest # <<>> /\ Head(rest) = r /\ Tail(rest) = <<>>
  BY <1>1, OneRow
<1>3. ClearEffect(b, Append(b, r))
  BY <1>1, OtherRows, StopModeAppend DEF ClearEffect, Clearing
<1> QED BY <1>1, <1>2, <1>3

-----------------------------------------------------------------------------
(* Calls begin.                                                            *)
LEMMA PendingIsFinite ==
  ASSUME NEW b \in Seq(Row)
  PROVE  IsFiniteSet(PendingIn(b))
<1> DEFINE P == PendingIn(b)
           D == {n \in RowsOf(b, "operation") : b[n].id \in P}
           f == [n \in D |-> b[n].id]
<1>1. IsFiniteSet(D)
  <2>1. IsFiniteSet(1 .. Len(b)) /\ D \in SUBSET (1 .. Len(b))
    <3>1. Len(b) \in Nat /\ DOMAIN b = 1 .. Len(b)
      BY LenProperties
    <3>2. IsFiniteSet(1 .. Len(b))
      BY <3>1, FS_Interval
    <3> QED BY <3>1, <3>2 DEF RowsOf
  <2> QED BY <2>1, FS_Subset
<1>2. ASSUME NEW o \in P PROVE \E n \in D : b[n].id = o
  <2> DEFINE N == {n \in RowsOf(b, "operation") : b[n].id = o /\ b[n].turn = OpenTurnIn(b)}
  <2>1. OpStatusIn(b, OpenTurnIn(b), o) = LastIn(b, N, [status |-> "none"]).status
    BY DEF OpStatusIn
  <2>2. OpStatusIn(b, OpenTurnIn(b), o) # "none"
    BY DEF PendingIn, OpenStatus
  <2>3. N # {}
    BY <2>1, <2>2 DEF LastIn
  <2> QED BY <2>3
<1>3. f \in Surjection(D, P)
  BY <1>2 DEF Surjection
<1> HIDE DEF D, f, P
<1> QED BY <1>1, <1>3, FS_Surjection DEF P

LEMMA OrderIs ==
  ASSUME NEW b \in Seq(Row), NEW q \in SetToSeqs(PendingIn(b))
  PROVE  q \in Orders(b) /\ Left(q) = PendingIn(b)
<1> DEFINE P == PendingIn(b)
           c == Cardinality(P)
<1>1. IsFiniteSet(P) /\ c \in Nat
  BY PendingIsFinite, FS_CardinalityType
<1>2. /\ q \in [1 .. c -> P]
      /\ \A i, j \in 1 .. c : i # j => q[i] # q[j]
  BY DEF SetToSeqs
<1> HIDE DEF P, c
<1>3. q \in Injection(1 .. c, P)
  BY <1>2 DEF Injection, IsInjective
<1>4. IsFiniteSet(1 .. c) /\ Cardinality(1 .. c) = c
  BY <1>1, FS_Interval
<1>5. q \in Surjection(1 .. c, P)
  BY <1>1, <1>3, <1>4, FS_Injection DEF c
<1>6. Left(q) = P
  BY <1>2, <1>5 DEF Left, Surjection
<1>7. q \in Orders(b)
  <2>1. q \in Seq(P)
    BY <1>1, <1>2
  <2> QED BY <1>2, <2>1 DEF Orders, P
<1> QED BY <1>6, <1>7 DEF P

LEMMA MarkRowsAre ==
  ASSUME log \in Seq(Row), NEW s, NEW rs \in MarkRows(s)
  PROVE  \E q \in Orders(log) : Left(q) = PendingIn(log) /\ rs = Marks(log, q, s)
<1>1. PICK q \in SetToSeqs(PendingIn(log)) :
        rs = [n \in DOMAIN q |-> OpRow(OpenTurnIn(log), q[n], s)]
  BY DEF MarkRows, PendingIn
<1> QED BY <1>1, OrderIs DEF Marks

LEMMA CallBegins ==
  ASSUME LogInv, NEW rs, NEW next, Call(rs, next), Progress(log, log, rs, next, calls)
  PROVE  LogInv' /\ UNCHANGED Journal!journalVars
<1>1. /\ log \in Seq(Row) /\ log' = log /\ base' = Len(log) /\ Idle /\ ~ Idle'
      /\ todo' = rs /\ after' = next /\ UNCHANGED <<calls, runs>>
  BY DEF LogInv, Call, Idle
<1>2. SubSeq(log', 1, base') = log
  BY <1>1, SubSeqFull
<1>3. Visible' = Visible
  BY <1>1, <1>2 DEF Visible
<1>4. LogInv'
  <2>1. log' \in Seq(Row) /\ base' \in 0 .. Len(log')
    BY <1>1, LenProperties
  <2>2. Progress(SubSeq(log', 1, base'), log', todo', after', calls')
    BY <1>1, <1>2
  <2> QED BY <2>1, <2>2 DEF LogInv
<1> QED BY <1>1, <1>3, <1>4 DEF Journal!journalVars

LEMMA SameAsItself ==
  ASSUME NEW l
  PROVE  SameTurns(l, l) /\ SameInputs(l, l) /\ SameOps(l, l) /\ SameStop(l, l)
         /\ \A s : Marked(l, l, {}, s)
BY DEF SameTurns, SameInputOf, SameInputs, SameOps, SameStop, Marked

LEMMA CloseRowsAre ==
  ASSUME log \in Seq(Row)
  PROVE  /\ OpenTurnIn(log) = 0 => CloseRows = <<>>
         /\ OpenTurnIn(log) # 0 =>
              CloseRows = <<TurnRow(OpenTurnIn(log), "done", NoInput)>> \o DoneRows(log)
BY DEF CloseRows, DoneRows, OpenInput

LEMMA AcceptBegins ==
  ASSUME LogInv, NEW i \in Inputs \cup {NoInput}, AcceptInput(i)
  PROVE  LogInv' /\ UNCHANGED Journal!journalVars
<1> DEFINE t == OpenTurnIn(log)
           r == TurnRow(t, "done", NoInput)
           n == <<TurnRow(LastTurnIn(log) + 1, "open", i)>>
<1>1. log \in Seq(Row) /\ OpensAt(log, i) /\ Call(OpenRows(i), Nothing)
  BY DEF LogInv, AcceptInput, OpensAt
<1>2. /\ NewInputRows(i) \in Seq(Row) /\ NewRows(log, i) \in Seq(Row) /\ n \in Seq(Row)
      /\ NewRows(log, i) = n \o NewInputRows(i)
  BY <1>1, NewRowsAre, OneRow DEF NewRows
<1>3. OpenRows(i) = (CloseRows \o n) \o NewInputRows(i)
  BY DEF OpenRows, NewInputRows
<1>4. NewRows(log, i) \in AfterClose(log)
  BY <1>1 DEF AfterClose
<1>5. DoneRows(log) \in Seq(Row)
  BY <1>1, <1>4, AfterCloseIs
<1> HIDE DEF n
<1>6. CASE t = 0
  <2>1. CloseRows = <<>>
    BY <1>1, <1>6, CloseRowsAre
  <2>2. OpenRows(i) = NewRows(log, i)
    BY <1>2, <1>3, <2>1, ConcatEmptySeq
  <2>3. Opening(log, log, NewRows(log, i), Nothing)
    BY <1>1, <1>6, SameAsItself
       DEF Opening, TurnIsClosed, SameTurns, InputsAreClosed, ClosedStatus
  <2> QED BY <1>1, <2>2, <2>3, CallBegins DEF Progress
<1>7. CASE t # 0
  <2>1. r \in Row /\ <<r>> \in Seq(Row)
    BY <1>1, <1>7, OpenInputIs, RowsAre, OneRow
  <2> HIDE DEF r
  <2>2. CloseRows = <<r>> \o DoneRows(log)
    BY <1>1, <1>7, CloseRowsAre DEF r
  <2>3. CloseRows \in Seq(Row)
    BY <1>5, <2>1, <2>2, ConcatProperties
  <2>4. OpenRows(i) = CloseRows \o NewRows(log, i)
    BY <1>2, <1>3, <2>3, ConcatAssociative
  <2>5. OpenRows(i) = <<r>> \o (DoneRows(log) \o NewRows(log, i))
    <3>1. (<<r>> \o DoneRows(log)) \o NewRows(log, i) = <<r>> \o (DoneRows(log) \o NewRows(log, i))
      BY <1>2, <1>5, <2>1, ConcatAssociative
    <3> QED BY <2>2, <2>4, <3>1
  <2>6. Closing(log, log, OpenRows(i), Nothing)
    BY <1>4, <1>7, <2>5 DEF Closing, r
  <2> QED BY <1>1, <2>6, CallBegins DEF Progress
<1> QED BY <1>6, <1>7

LEMMA CommitBegins ==
  ASSUME LogInv, CommitTurn
  PROVE  LogInv' /\ UNCHANGED Journal!journalVars
<1>1. log \in Seq(Row) /\ Call(CloseRows, Nothing) /\ CloseRows # <<>>
  BY DEF LogInv, CommitTurn, Call
<1>2. OpenTurnIn(log) # 0
  BY <1>1, CloseRowsAre
<1>3. <<>> \in AfterClose(log)
  BY DEF AfterClose
<1>4. DoneRows(log) \o <<>> = DoneRows(log)
  BY <1>1, <1>3, AfterCloseIs, ConcatEmptySeq
<1>5. Closing(log, log, CloseRows, Nothing)
  BY <1>1, <1>2, <1>3, <1>4, CloseRowsAre DEF Closing
<1> QED BY <1>1, <1>5, CallBegins DEF Progress

LEMMA ClaimBegins ==
  ASSUME LogInv, NEW t \in Scopes, NEW o \in Ops, Claim(t, o)
  PROVE  LogInv' /\ UNCHANGED Journal!journalVars
<1>0. t <= LastTurnIn(log) /\ StopModeIn(log) = "none"
  BY DEF Claim
<1>1. CASE /\ OpStatusIn(log, t, o) = "none"
           /\ Call(<<OpRow(t, o, "ready"), OpRow(t, o, "awaiting")>>, <<"start", t, o>>)
  <2>1. OpIs(log, log, t, o, "none")
    BY <1>1 DEF OpIs
  <2>2. Claiming(log, log, ClaimRows(t, o, "none"), <<"start", t, o>>)
    BY <1>0, <1>1, <2>1, SameAsItself DEF Claiming
  <2> QED BY <1>1, <2>2, CallBegins DEF Progress, ClaimRows
<1>2. CASE /\ OpStatusIn(log, t, o) \in OpenStatus
           /\ Call(<<OpRow(t, o, "interrupted")>>, Nothing)
  <2>1. Interrupting(log, log, <<OpRow(t, o, "interrupted")>>, Nothing)
    BY <1>0, <1>2 DEF Interrupting
  <2> QED BY <1>2, <2>1, CallBegins DEF Progress
<1> QED BY <1>1, <1>2 DEF Claim

LEMMA RunEndBegins ==
  ASSUME LogInv, NEW t \in Scopes, NEW o \in Ops, RunEnds(t, o)
  PROVE  LogInv' /\ UNCHANGED Journal!journalVars
<1>1. PICK s \in {"finished", "canceled"} : Call(<<OpRow(t, o, s)>>, <<"end", t, o>>)
  BY DEF RunEnds
<1>2. Ending(log, log, <<OpRow(t, o, s)>>, <<"end", t, o>>, calls)
  BY DEF Ending, RunEnds
<1> QED BY <1>1, <1>2, CallBegins DEF Progress

LEMMA ConsumeBegins ==
  ASSUME LogInv, ConsumeInterruptions
  PROVE  LogInv' /\ UNCHANGED Journal!journalVars
<1>1. PICK rs \in MarkRows("interrupted") : Call(rs, Nothing)
  BY DEF ConsumeInterruptions
<1>2. log \in Seq(Row) /\ rs # <<>>
  BY <1>1 DEF LogInv, Call
<1>3. PICK q \in Orders(log) : Left(q) = PendingIn(log) /\ rs = Marks(log, q, "interrupted")
  BY <1>2, MarkRowsAre
<1>4. q # <<>>
  BY <1>2, <1>3, MarksEmpty DEF MarkStatus
<1>5. Marked(log, log, PendingIn(log) \ Left(q), "interrupted")
  BY <1>3, SameAsItself
<1>6. Consuming(log, log, rs, Nothing)
  BY <1>3, <1>4, <1>5, SameAsItself DEF Consuming
<1> QED BY <1>1, <1>6, CallBegins DEF Progress

LEMMA StopCallBegins ==
  ASSUME LogInv, NEW mode \in {"hard", "when_idle"}, RequestStop(mode)
  PROVE  LogInv' /\ UNCHANGED Journal!journalVars
<1>1. PICK rs \in IF mode = "hard" THEN MarkRows("canceled") ELSE {<<>>} :
        Call(<<StopRow(mode)>> \o rs, Nothing)
  BY DEF RequestStop
<1>2. log \in Seq(Row)
  BY DEF LogInv
<1>3. \E q \in Orders(log) : /\ rs = Marks(log, q, "canceled")
                             /\ IF mode = "hard" THEN Left(q) = PendingIn(log) ELSE q = <<>>
  <2>1. CASE mode = "hard"
    BY <1>1, <1>2, <2>1, MarkRowsAre
  <2>2. CASE mode # "hard"
    <3>1. rs = <<>> /\ <<>> \in Orders(log)
      BY <1>1, <2>2 DEF Orders
    <3>2. Marks(log, <<>>, "canceled") = <<>>
      BY <1>2, <3>1, MarksEmpty DEF MarkStatus
    <3> QED BY <2>2, <3>1, <3>2
  <2> QED BY <2>1, <2>2
<1>4. Stopping(log, log, <<StopRow(mode)>> \o rs, Nothing)
  BY <1>3 DEF Stopping
<1> QED BY <1>1, <1>4, CallBegins DEF Progress

LEMMA ClearBegins ==
  ASSUME LogInv, ClearStop
  PROVE  LogInv' /\ UNCHANGED Journal!journalVars
<1>1. Clearing(log, log, <<StopRow("none")>>, Nothing)
  BY DEF ClearStop, Clearing
<1> QED BY <1>1, CallBegins DEF ClearStop, Progress

-----------------------------------------------------------------------------
(* Rows are appended.  Until the last one nothing is visible of the call;  *)
(* the last one makes the whole call visible.                              *)
LEMMA RowIsAppended ==
  ASSUME LogInv, AppendRow, Head(todo) \in Row
  PROVE  /\ log \in Seq(Row) /\ log' = Append(log, Head(todo)) /\ log' \in Seq(Row)
         /\ base' = base /\ base' \in 0 .. Len(log') /\ ~ Idle
         /\ SubSeq(log', 1, base') = SubSeq(log, 1, base)
         /\ SubSeq(log, 1, base) \in Seq(Row) /\ Visible = SubSeq(log, 1, base)
         /\ todo' = Tail(todo) /\ UNCHANGED runs
<1>1. /\ log \in Seq(Row) /\ Len(log) \in Nat /\ base \in 0 .. Len(log) /\ base' = base
      /\ log' = Append(log, Head(todo)) /\ ~ Idle
      /\ todo' = Tail(todo) /\ UNCHANGED runs
  BY LenProperties DEF LogInv, AppendRow, Idle
<1>2. /\ log' \in Seq(Row) /\ Len(log') = Len(log) + 1
      /\ \A n \in 1 .. Len(log) : log'[n] = log[n]
  BY <1>1, AppendProperties
<1>3. base' \in 0 .. Len(log')
  BY <1>1, <1>2
<1>4. /\ SubSeq(log, 1, base) \in Seq(Row) /\ Len(SubSeq(log, 1, base)) = base
      /\ \A n \in 1 .. base : SubSeq(log, 1, base)[n] = log[n]
  <2>1. \A n \in 1 .. base : log[n] \in Row
    BY <1>1, LenProperties
  <2> QED BY <1>1, <2>1, SubSeqProperties
<1>5. /\ SubSeq(log', 1, base) \in Seq(Row) /\ Len(SubSeq(log', 1, base)) = base
      /\ \A n \in 1 .. base : SubSeq(log', 1, base)[n] = log'[n]
  <2>1. \A n \in 1 .. base : log'[n] \in Row
    BY <1>1, <1>2, LenProperties
  <2> QED BY <1>1, <2>1, SubSeqProperties
<1>6. SubSeq(log', 1, base) = SubSeq(log, 1, base)
  <2>1. \A n \in 1 .. base : SubSeq(log', 1, base)[n] = SubSeq(log, 1, base)[n]
    BY <1>1, <1>2, <1>4, <1>5
  <2> DEFINE s1 == SubSeq(log', 1, base)
             s2 == SubSeq(log, 1, base)
  <2>2. /\ s1 \in Seq(Row) /\ s2 \in Seq(Row) /\ Len(s1) = Len(s2)
        /\ \A n \in 1 .. Len(s1) : s1[n] = s2[n]
    BY <1>4, <1>5, <2>1
  <2> HIDE DEF s1, s2
  <2>3. s1 = s2
    BY <2>2, SeqEqual
  <2> QED BY <2>3 DEF s1, s2
<1> QED BY <1>1, <1>2, <1>3, <1>4, <1>6 DEF Visible

LEMMA GoesOn ==
  ASSUME LogInv, AppendRow, Head(todo) \in Row, Tail(todo) # <<>> \/ after[1] = "start",
         Progress(SubSeq(log, 1, base), Append(log, Head(todo)), Tail(todo), after, calls)
  PROVE  LogInv' /\ UNCHANGED Journal!journalVars
<1>1. /\ log \in Seq(Row) /\ log' = Append(log, Head(todo)) /\ log' \in Seq(Row)
      /\ base' = base /\ base' \in 0 .. Len(log') /\ ~ Idle
      /\ SubSeq(log', 1, base') = SubSeq(log, 1, base)
      /\ SubSeq(log, 1, base) \in Seq(Row) /\ Visible = SubSeq(log, 1, base)
      /\ todo' = Tail(todo) /\ UNCHANGED runs
  BY RowIsAppended
<1>2. UNCHANGED <<calls, after>>
  BY DEF AppendRow
<1>3. ~ Idle'
  BY <1>1, <1>2 DEF Idle, Nothing
<1>4. Visible' = Visible
  BY <1>1, <1>3 DEF Visible
<1>5. LogInv'
  BY <1>1, <1>2 DEF LogInv
<1> QED BY <1>1, <1>2, <1>4, <1>5 DEF Journal!journalVars

LEMMA ItEnds ==
  ASSUME LogInv, AppendRow, Head(todo) \in Row, Tail(todo) = <<>>,
         after = Nothing \/ after[1] = "end"
  PROVE  /\ LogInv' /\ UNCHANGED runs /\ SubSeq(log, 1, base) \in Seq(Row)
         /\ Visible = SubSeq(log, 1, base) /\ Visible' = Append(log, Head(todo))
         /\ IF after = Nothing THEN UNCHANGED calls
            ELSE calls' = calls \ {<<after[2], after[3]>>}
<1>1. /\ log \in Seq(Row) /\ log' = Append(log, Head(todo)) /\ log' \in Seq(Row)
      /\ base' = base /\ base' \in 0 .. Len(log') /\ ~ Idle
      /\ SubSeq(log, 1, base) \in Seq(Row) /\ Visible = SubSeq(log, 1, base)
      /\ todo' = Tail(todo) /\ UNCHANGED runs
  BY RowIsAppended
<1>2. /\ after' = Nothing
      /\ IF after = Nothing THEN UNCHANGED calls ELSE calls' = calls \ {<<after[2], after[3]>>}
  BY DEF AppendRow, Nothing
<1>3. Idle'
  BY <1>1, <1>2 DEF Idle
<1>4. Visible' = log'
  BY <1>3 DEF Visible
<1>5. LogInv'
  BY <1>1, <1>3 DEF LogInv
<1> QED BY <1>1, <1>2, <1>4, <1>5

\* One row later: the call goes on, or it has been made.
LEMMA AppendRefines ==
  ASSUME LogInv, AppendRow
  PROVE  LogInv' /\ [Journal!JournalNext]_(Journal!journalVars)
<1> DEFINE b == SubSeq(log, 1, base)
           m == Append(log, Head(todo))
<1>1. /\ log \in Seq(Row) /\ b \in Seq(Row) /\ todo # <<>> /\ ~ Idle
      /\ Progress(b, log, todo, after, calls)
  <2>1. log \in Seq(Row) /\ todo # <<>> /\ ~ Idle /\ base \in 0 .. Len(log)
    BY DEF LogInv, AppendRow, Idle
  <2>2. \A n \in 1 .. base : log[n] \in Row
    BY <2>1, LenProperties
  <2>3. b \in Seq(Row)
    BY <2>1, <2>2, LenProperties, SubSeqProperties
  <2> QED BY <2>1, <2>3 DEF LogInv
<1>2. ASSUME Head(todo) \in Row, Tail(todo) # <<>> \/ after[1] = "start",
             Progress(b, m, Tail(todo), after, calls)
      PROVE  LogInv' /\ UNCHANGED Journal!journalVars
  BY <1>2, GoesOn
<1>3. ASSUME Head(todo) \in Row, Tail(todo) = <<>>, after = Nothing
      PROVE  /\ LogInv' /\ UNCHANGED <<calls, runs>>
             /\ Visible = b /\ Visible' = m
  BY <1>3, ItEnds
<1> HIDE DEF b, m
<1>commit. ASSUME Head(todo) \in Row, Tail(todo) = <<>>, after = Nothing, CommitEffect(b, m)
      PROVE  LogInv' /\ Journal!CommitTurn
  BY <1>1, <1>3, <1>commit, Commits DEF CommitEffect
<1>open. ASSUME Head(todo) \in Row, Tail(todo) = <<>>, after = Nothing, OpenEffect(b, m)
      PROVE  LogInv' /\ Journal!JournalNext
  <2>1. PICK i \in Inputs \cup {NoInput} :
          /\ OpensAt(b, i) /\ TurnIsOpened(b, m, i)
          /\ \A j \in Inputs : InputStatusIn(m, j) = IF j = i THEN "open" ELSE ClosedStatus(b, j)
          /\ SameOps(b, m) /\ SameStop(b, m)
    BY <1>open DEF OpenEffect
  <2>2. LogInv' /\ Journal!OpenTurn(i)
    BY <1>1, <1>3, <1>open, <2>1, Opens
  <2> QED BY <2>2 DEF Journal!JournalNext
<1>stop. ASSUME Head(todo) \in Row, Tail(todo) = <<>>, after = Nothing, StopEffect(b, m)
      PROVE  LogInv' /\ Journal!JournalNext
  <2> DEFINE mode == StopModeIn(m)
  <2>1. /\ SameTurns(b, m) /\ SameInputs(b, m) /\ mode \in {"hard", "when_idle"}
        /\ IF mode = "hard" THEN Marked(b, m, PendingIn(b), "canceled") ELSE SameOps(b, m)
    BY <1>stop DEF StopEffect
  <2> HIDE DEF mode
  <2>2. LogInv' /\ Journal!RequestStop(mode)
    BY <1>1, <1>3, <1>stop, <2>1, RequestsStop DEF mode
  <2> QED BY <2>1, <2>2 DEF Journal!JournalNext, Journal!StopModes
<1>4. CASE Closing(b, log, todo, after)
  <2>1. log = b /\ after = Nothing
    BY <1>4 DEF Closing
  <2>2. /\ Head(todo) \in Row
        /\ IF Tail(todo) = <<>> THEN CommitEffect(b, m)
           ELSE HalfClosed(b, m, Tail(todo), after) \/ Opening(b, m, Tail(todo), after)
    BY <1>1, <1>4, <2>1, ClosingGoes DEF m
  <2> QED BY <1>2, <1>commit, <2>1, <2>2 DEF Progress, Journal!JournalNext
<1>5. CASE HalfClosed(b, log, todo, after)
  <2>1. after = Nothing
    BY <1>5 DEF HalfClosed
  <2>2. /\ Head(todo) \in Row
        /\ IF Tail(todo) = <<>> THEN CommitEffect(b, m) ELSE Opening(b, m, Tail(todo), after)
    BY <1>1, <1>5, HalfClosedGoes DEF m
  <2> QED BY <1>2, <1>commit, <2>1, <2>2 DEF Progress, Journal!JournalNext
<1>6. CASE Opening(b, log, todo, after)
  <2>1. after = Nothing
    BY <1>6 DEF Opening
  <2>2. /\ Head(todo) \in Row
        /\ IF Tail(todo) = <<>> THEN OpenEffect(b, m) ELSE HalfOpen(b, m, Tail(todo), after)
    BY <1>1, <1>6, OpeningGoes DEF m
  <2> QED BY <1>2, <1>open, <2>1, <2>2 DEF Progress
<1>7. CASE HalfOpen(b, log, todo, after)
  <2>1. after = Nothing
    BY <1>7 DEF HalfOpen
  <2>2. Head(todo) \in Row /\ Tail(todo) = <<>> /\ OpenEffect(b, m)
    BY <1>1, <1>7, HalfOpenGoes DEF m
  <2> QED BY <1>open, <2>1, <2>2
<1>8. CASE Claiming(b, log, todo, after)
  <2>1. Head(todo) \in Row /\ after[1] = "start" /\ Claiming(b, m, Tail(todo), after)
    BY <1>1, <1>8, ClaimingGoes DEF m
  <2> QED BY <1>2, <2>1 DEF Progress
<1>9. CASE Interrupting(b, log, todo, after)
  <2>1. log = b /\ after = Nothing
    BY <1>9 DEF Interrupting
  <2>2. Head(todo) \in Row /\ Tail(todo) = <<>> /\ InterruptEffect(b, m)
    BY <1>1, <1>9, <2>1, InterruptingGoes DEF m
  <2>3. PICK t \in Scopes, o \in Ops :
          /\ t <= LastTurnIn(b) /\ OpStatusIn(b, t, o) \in OpenStatus
          /\ OpIs(b, m, t, o, "interrupted")
    BY <2>2 DEF InterruptEffect
  <2>4. LogInv' /\ Journal!InterruptCall(t, o)
    BY <1>3, <2>1, <2>2, <2>3, Interrupts DEF InterruptEffect
  <2> QED BY <2>4 DEF Journal!JournalNext, Journal!Scopes, Scopes
<1>10. CASE Ending(b, log, todo, after, calls)
  <2>1. log = b
    BY <1>10 DEF Ending
  <2>2. /\ Head(todo) \in Row /\ Tail(todo) = <<>> /\ after[1] = "end"
        /\ EndEffect(b, m, after, calls)
    BY <1>1, <1>10, <2>1, EndingGoes DEF m
  <2>3. PICK t \in Scopes, o \in Ops, s \in {"finished", "canceled"} :
          <<t, o>> \in calls /\ OpIs(b, m, t, o, s) /\ after = <<"end", t, o>>
    BY <2>2 DEF EndEffect
  <2>4. /\ LogInv' /\ UNCHANGED runs /\ Visible = b /\ Visible' = m
        /\ calls' = calls \ {<<t, o>>}
    BY <2>2, <2>3, ItEnds DEF b, m, Nothing
  <2>5. Journal!FinishCall(t, o, s)
    BY <2>2, <2>3, <2>4, FinishesCall DEF EndEffect
  <2> QED BY <2>4, <2>5 DEF Journal!JournalNext, Journal!Scopes, Scopes
<1>11. CASE Consuming(b, log, todo, after)
  <2>1. after = Nothing
    BY <1>11 DEF Consuming
  <2>2. /\ Head(todo) \in Row
        /\ IF Tail(todo) = <<>> THEN ConsumeEffect(b, m) ELSE Consuming(b, m, Tail(todo), after)
    BY <1>1, <1>11, ConsumingGoes DEF m
  <2>3. CASE Tail(todo) = <<>>
    <3>1. LogInv' /\ Journal!ConsumeInterruptions
      BY <1>1, <1>3, <2>1, <2>2, <2>3, Consumes DEF ConsumeEffect
    <3> QED BY <3>1 DEF Journal!JournalNext
  <2> QED BY <1>2, <2>2, <2>3 DEF Progress
<1>12. CASE Stopping(b, log, todo, after)
  <2>1. log = b /\ after = Nothing
    BY <1>12 DEF Stopping
  <2>2. /\ Head(todo) \in Row
        /\ IF Tail(todo) = <<>> THEN StopEffect(b, m) ELSE Canceling(b, m, Tail(todo), after)
    BY <1>1, <1>12, <2>1, StoppingGoes DEF m
  <2> QED BY <1>2, <1>stop, <2>1, <2>2 DEF Progress
<1>13. CASE Canceling(b, log, todo, after)
  <2>1. after = Nothing
    BY <1>13 DEF Canceling
  <2>2. /\ Head(todo) \in Row
        /\ IF Tail(todo) = <<>> THEN StopEffect(b, m) ELSE Canceling(b, m, Tail(todo), after)
    BY <1>1, <1>13, CancelingGoes DEF m
  <2> QED BY <1>2, <1>stop, <2>1, <2>2 DEF Progress
<1>14. CASE Clearing(b, log, todo, after)
  <2>1. log = b /\ after = Nothing
    BY <1>14 DEF Clearing
  <2>2. Head(todo) \in Row /\ Tail(todo) = <<>> /\ ClearEffect(b, m)
    BY <1>1, <1>14, <2>1, ClearingGoes DEF m
  <2>3. LogInv' /\ Journal!ClearStop
    BY <1>3, <2>1, <2>2, Clears DEF ClearEffect
  <2> QED BY <2>3 DEF Journal!JournalNext
<1> QED BY <1>1, <1>4, <1>5, <1>6, <1>7, <1>8, <1>9, <1>10, <1>11, <1>12, <1>13, <1>14 DEF Progress

-----------------------------------------------------------------------------
(* run() begins, and crashes.                                              *)

\* With no rows left, only a claim that was won is still to come to its end.
LEMMA OnlyClaimsWait ==
  ASSUME NEW b \in Seq(Row), NEW l \in Seq(Row), NEW next, NEW begun,
         Progress(b, l, <<>>, next, begun)
  PROVE  Claiming(b, l, <<>>, next)
<1>1. ~ Closing(b, l, <<>>, next) /\ ~ Interrupting(b, l, <<>>, next)
      /\ ~ Ending(b, l, <<>>, next, begun) /\ ~ Stopping(b, l, <<>>, next)
      /\ ~ Clearing(b, l, <<>>, next)
  <2>1. CASE l = b
    BY <2>1, ClosingGoes, InterruptingGoes, EndingGoes, StoppingGoes, ClearingGoes
  <2>2. CASE l # b
    BY <2>2 DEF Closing, Interrupting, Ending, Stopping, Clearing
  <2> QED BY <2>1, <2>2
<1>2. ~ HalfClosed(b, l, <<>>, next) /\ ~ Opening(b, l, <<>>, next)
      /\ ~ HalfOpen(b, l, <<>>, next) /\ ~ Consuming(b, l, <<>>, next)
      /\ ~ Canceling(b, l, <<>>, next)
  BY HalfClosedGoes, OpeningGoes, HalfOpenGoes, ConsumingGoes, CancelingGoes
<1> QED BY <1>1, <1>2 DEF Progress

LEMMA BaseIs ==
  ASSUME LogInv
  PROVE  log \in Seq(Row) /\ SubSeq(log, 1, base) \in Seq(Row)
<1>1. log \in Seq(Row) /\ base \in 0 .. Len(log) /\ Len(log) \in Nat
  BY LenProperties DEF LogInv
<1>2. \A n \in 1 .. base : log[n] \in Row
  BY <1>1, LenProperties
<1> QED BY <1>1, <1>2, SubSeqProperties

LEMMA StartRefines ==
  ASSUME LogInv, StartRun
  PROVE  LogInv' /\ Journal!JournalNext
<1> DEFINE b == SubSeq(log, 1, base)
<1>1. log \in Seq(Row) /\ b \in Seq(Row)
  BY BaseIs
<1>2. /\ ~ Idle /\ Visible = b /\ Idle' /\ Visible' = log
      /\ Progress(b, log, <<>>, after, calls)
  BY DEF StartRun, Idle, Visible, LogInv, Nothing
<1>3. LogInv'
  BY <1>2 DEF StartRun, LogInv
<1> HIDE DEF b
<1>4. Claiming(b, log, <<>>, after)
  BY <1>1, <1>2, OnlyClaimsWait
<1>5. PICK t \in Scopes, o \in Ops, s \in {"none"} \cup OpenStatus :
        /\ t <= LastTurnIn(b) /\ OpStatusIn(b, t, o) = "none" /\ OpIs(b, log, t, o, s)
        /\ <<>> = ClaimRows(t, o, s) /\ after = <<"start", t, o>>
  BY <1>4 DEF Claiming
<1>6. s = "awaiting"
  BY <1>5 DEF ClaimRows, OpenStatus
<1>7. calls' = calls \cup {<<t, o>>} /\ runs' = [runs EXCEPT ![t][o] = @ + 1]
  BY <1>5 DEF StartRun
<1>8. SameTurns(b, log) /\ SameInputs(b, log) /\ SameStop(b, log) /\ StopModeIn(b) = "none"
  BY <1>4 DEF Claiming
<1>9. Journal!StartCall(t, o)
  BY <1>2, <1>5, <1>6, <1>7, <1>8, StartsCall
<1> QED BY <1>3, <1>9 DEF Journal!JournalNext, Journal!Scopes, Scopes

LEMMA CrashesUnseen ==
  ASSUME NEW b, NEW m, Visible = b, Visible' = m,
         SameTurns(b, m), SameInputs(b, m), SameOps(b, m), SameStop(b, m),
         calls' = {}, UNCHANGED runs
  PROVE  Journal!JournalCrash
BY CrashLoses, JournalTurns DEF Journal!JournalCrash

\* A crash leaves the rows written so far: the call not made at all, or one of
\* the ways to cut it.
LEMMA CrashRefines ==
  ASSUME LogInv, Crash
  PROVE  LogInv' /\ Journal!JournalNext
<1> DEFINE b == SubSeq(log, 1, base)
<1>1. log \in Seq(Row) /\ b \in Seq(Row)
  BY BaseIs
<1>2. Idle' /\ Visible' = log /\ log' = log /\ calls' = {} /\ UNCHANGED <<base, runs>>
  BY DEF Crash, Idle, Visible
<1>3. LogInv'
  BY <1>2 DEF LogInv
<1>4. ~ Idle => Visible = b /\ Progress(b, log, todo, after, calls)
  BY DEF LogInv, Visible
<1> HIDE DEF b
<1>5. Journal!JournalCrash \/ Journal!Crashes
  <2>1. CASE Idle
    <3>1. Visible = log
      BY <2>1 DEF Visible
    <3> QED BY <1>2, <3>1, CrashesIdle
  <2>2. CASE ~ Idle /\ log = b
    BY <1>2, <1>4, <2>2, CrashesIdle
  <2>3. CASE ~ Idle /\ HalfClosed(b, log, todo, after)
    <3>1. Journal!CrashInClose
      BY <1>1, <1>2, <1>4, <2>3, CrashesInClose DEF HalfClosed
    <3> QED BY <3>1 DEF Journal!Crashes
  <2>4. CASE ~ Idle /\ Opening(b, log, todo, after)
    <3>1. PICK i \in Inputs \cup {NoInput} : OpensAt(b, i)
      BY <2>4 DEF Opening
    <3>2. /\ TurnIsClosed(b, log) /\ InputsAreClosed(b, log)
          /\ SameOps(b, log) /\ SameStop(b, log)
      BY <2>4 DEF Opening
    <3>3. CASE OpenTurnIn(b) = 0
      <4>1. SameTurns(b, log) /\ SameInputs(b, log)
        BY <3>2, <3>3 DEF TurnIsClosed, SameTurns, InputsAreClosed, ClosedStatus, SameInputs
      <4> QED BY <1>2, <1>4, <2>4, <3>2, <4>1, CrashesUnseen
    <3>4. CASE OpenTurnIn(b) # 0
      <4>1. Journal!CrashBeforeOpen(i)
        BY <1>1, <1>2, <1>4, <2>4, <3>1, <3>2, <3>4, CrashesBeforeOpen
      <4> QED BY <4>1 DEF Journal!Crashes
    <3> QED BY <3>3, <3>4
  <2>5. CASE ~ Idle /\ HalfOpen(b, log, todo, after)
    <3>1. PICK i \in Inputs : OpensAt(b, i) /\ TurnIsOpened(b, log, i)
      BY <2>5 DEF HalfOpen
    <3>2. InputsAreClosed(b, log) /\ SameOps(b, log) /\ SameStop(b, log)
      BY <2>5 DEF HalfOpen
    <3>3. Journal!CrashAfterOpen(i)
      BY <1>1, <1>2, <1>4, <2>5, <3>1, <3>2, CrashesAfterOpen
    <3> QED BY <3>3 DEF Journal!Crashes
  <2>6. CASE ~ Idle /\ Claiming(b, log, todo, after)
    <3>1. /\ SameTurns(b, log) /\ SameInputs(b, log) /\ SameStop(b, log)
          /\ StopModeIn(b) = "none"
      BY <2>6 DEF Claiming
    <3>2. PICK t \in Scopes, o \in Ops, s \in {"none"} \cup OpenStatus :
            t <= LastTurnIn(b) /\ OpStatusIn(b, t, o) = "none" /\ OpIs(b, log, t, o, s)
      BY <2>6 DEF Claiming
    <3>3. CASE s = "none"
      <4>1. SameOps(b, log)
        BY <3>2, <3>3 DEF OpIs, SameOps
      <4> QED BY <1>2, <1>4, <2>6, <3>1, <4>1, CrashesUnseen
    <3>4. CASE s \in OpenStatus
      <4>1. Journal!CrashInClaim(t, o)
        BY <1>2, <1>4, <2>6, <3>1, <3>2, <3>4, CrashesInClaim
      <4> QED BY <4>1 DEF Journal!Crashes, Journal!Scopes, Scopes
    <3> QED BY <3>3, <3>4
  <2>7. CASE ~ Idle /\ Consuming(b, log, todo, after)
    <3>1. PICK q \in Orders(b) :
            q # <<>> /\ Marked(b, log, PendingIn(b) \ Left(q), "interrupted")
      BY <2>7 DEF Consuming
    <3>2. PendingIn(b) \ Left(q) # PendingIn(b)
      BY <1>1, <3>1, OneIsLeft
    <3>3. SameTurns(b, log) /\ SameInputs(b, log) /\ SameStop(b, log)
      BY <2>7 DEF Consuming
    <3>4. Journal!CrashInConsume
      BY <1>1, <1>2, <1>4, <2>7, <3>1, <3>2, <3>3, CrashesInConsume
    <3> QED BY <3>4 DEF Journal!Crashes
  <2>8. CASE ~ Idle /\ Canceling(b, log, todo, after)
    <3>1. PICK q \in Orders(b) :
            q # <<>> /\ Marked(b, log, PendingIn(b) \ Left(q), "canceled")
      BY <2>8 DEF Canceling
    <3>2. PendingIn(b) \ Left(q) # PendingIn(b)
      BY <1>1, <3>1, OneIsLeft
    <3>3. SameTurns(b, log) /\ SameInputs(b, log) /\ StopModeIn(log) = "hard"
      BY <2>8 DEF Canceling
    <3>4. Journal!CrashInStop
      BY <1>1, <1>2, <1>4, <2>8, <3>1, <3>2, <3>3, CrashesInStop
    <3> QED BY <3>4 DEF Journal!Crashes
  <2>9. ASSUME ~ Idle, log # b
        PROVE  \/ HalfClosed(b, log, todo, after) \/ Opening(b, log, todo, after)
               \/ HalfOpen(b, log, todo, after) \/ Claiming(b, log, todo, after)
               \/ Consuming(b, log, todo, after) \/ Canceling(b, log, todo, after)
    BY <1>4, <2>9 DEF Progress, Closing, Interrupting, Ending, Stopping, Clearing
  <2> QED BY <2>1, <2>2, <2>3, <2>4, <2>5, <2>6, <2>7, <2>8, <2>9
<1> QED BY <1>3, <1>5 DEF Journal!JournalNext, Journal!Crashes

-----------------------------------------------------------------------------
LEMMA LogInitRefines == LogInit => LogInv /\ Journal!JournalInit
<1> SUFFICES ASSUME LogInit PROVE LogInv /\ Journal!JournalInit
  OBVIOUS
<1>1. Idle /\ log = <<>> /\ base = 0 /\ Len(log) = 0
  BY DEF LogInit, Idle
<1>2. LogInv
  BY <1>1 DEF LogInv
<1>3. Visible = <<>>
  BY <1>1 DEF Visible
<1>4. \A kind : RowsOf(<<>>, kind) = {}
  BY DEF RowsOf
<1>5. /\ \A t : InputOfTurn(<<>>, t) = NoInput
      /\ \A i : InputStatusIn(<<>>, i) = "unseen"
      /\ \A t, o : OpStatusIn(<<>>, t, o) = "none"
      /\ StopModeIn(<<>>) = "none" /\ OpenTurnIn(<<>>) = 0
  BY <1>4 DEF InputOfTurn, InputStatusIn, OpStatusIn, StopModeIn, OpenTurnIn, LastIn
<1>6. LastTurnIn(<<>>) = 0
  <2>1. <<>> \in Seq(Row) /\ TurnIds(<<>>) = {}
    BY <1>4 DEF TurnIds
  <2> QED BY <2>1, LastTurnIs
<1> QED BY <1>2, <1>3, <1>5, <1>6
        DEF LogInit, Journal!JournalInit, Journal!Turns, Journal!Scopes

LEMMA LogStepRefines ==
  LogInv /\ [LogNext]_logVars => LogInv' /\ [Journal!JournalNext]_(Journal!journalVars)
<1> SUFFICES ASSUME LogInv, [LogNext]_logVars
             PROVE  LogInv' /\ [Journal!JournalNext]_(Journal!journalVars)
  OBVIOUS
<1>1. CASE \E i \in Inputs \cup {NoInput} : AcceptInput(i)
  BY <1>1, AcceptBegins
<1>2. CASE CommitTurn
  BY <1>2, CommitBegins
<1>3. CASE \E t \in 0 .. MaxTurn, o \in Ops : Claim(t, o) \/ RunEnds(t, o)
  BY <1>3, ClaimBegins, RunEndBegins DEF Scopes
<1>4. CASE ConsumeInterruptions
  BY <1>4, ConsumeBegins
<1>5. CASE \E mode \in {"hard", "when_idle"} : RequestStop(mode)
  BY <1>5, StopCallBegins
<1>6. CASE ClearStop
  BY <1>6, ClearBegins
<1>7. CASE AppendRow
  BY <1>7, AppendRefines
<1>8. CASE StartRun
  BY <1>8, StartRefines
<1>9. CASE Crash
  BY <1>9, CrashRefines
<1>10. CASE UNCHANGED logVars
  BY <1>10 DEF logVars, LogInv, Idle, Visible, Journal!journalVars
<1> QED BY <1>1, <1>2, <1>3, <1>4, <1>5, <1>6, <1>7, <1>8, <1>9, <1>10 DEF LogNext

(* The file of rows implements the journal that keeps only what the scans  *)
(* answer: whatever the calls and wherever a crash cuts them, the log reads *)
(* as after a whole call of TurnJournal or one of its crashes               *)
(* (turn_journal.py:187-302).                                              *)
THEOREM LogImplementsJournal == LogSpec => ImplementsJournal
BY LogInitRefines, LogStepRefines, PTL DEF LogSpec, ImplementsJournal, Journal!JournalSpec
=============================================================================
