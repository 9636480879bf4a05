------------------------- MODULE SessionTurnsProofs -------------------------
(***************************************************************************)
(* The turns of a session stay with their messages, for any messages,      *)
(* keys, operations and bounds.                                            *)
(*                                                                         *)
(* None of the properties is inductive.  They rest on who holds the lock   *)
(* (one message at a time is in its turn, as long as all have the key of   *)
(* the session), on scopes being numbered upwards (a turn opened now has   *)
(* nothing on record, a call in progress is of an older one), and on where *)
(* a message works: in the turn of its input, until a stop is recorded or  *)
(* has cancelled it, for only a direct stop replaces a turn at work.       *)
(*                                                                         *)
(* The last part is about the journal by itself, JournalSpec: any calls and *)
(* crashes in any order.  Its inductive invariant says how much of an      *)
(* operation's history its row tells: while the row is missing or "ready", *)
(* run() was never entered; afterwards at most once, and the row never     *)
(* goes back.                                                              *)
(***************************************************************************)
EXTENDS SessionTurns, TLAPS

OwnOnly == \A t \in Tasks : key[t] = Own
Working(t) == pc[t] \in {"accepted", "loop", "tool"}

\* Who is in its turn holds the lock of its key; a message that has not come has
\* the session's own.
LockHeld ==
  /\ \A t \in Tasks : pc[t] \in InTurn => holder[key[t]] = t
  /\ \A t \in Tasks : pc[t] = "new" => key[t] = Own

\* Scopes of turns not opened are empty, and no call is of one.
ScopesAreFresh ==
  /\ \A s \in Scopes, o \in Ops : s > lastTurn => opStatus[s][o] = "none"
  /\ \A c \in calls : c[1] <= lastTurn
  /\ \A t \in Tasks : pc[t] = "tool" => call[t] \in Scopes \X Ops /\ call[t][1] <= lastTurn

\* What NothingLeftOpen says, of a turn that awaits a tool too.
OpenIsRunning ==
  openTurn # 0 \/ OwnOnly =>
    \A t \in Tasks : pc[t] \in {"loop", "tool"} =>
      \A o \in Pending : <<openTurn, o>> \in calls

\* The input of a message in its turn is not unseen, and an open input is that
\* of the open turn.
InputsKept ==
  /\ \A i \in Inputs : inputStatus[i] = "open" => openTurn # 0 /\ inputOf[openTurn] = i
  /\ \A t \in Tasks : pc[t] \in InTurn /\ input[t] # NoInput => inputStatus[input[t]] # "unseen"

\* The open turn is that of the message in it or the anonymous one of a direct
\* stop; a task that may still start tools has its own.
OwnTurn ==
  \A t \in Tasks :
    /\ pc[t] \in InTurn /\ openTurn # 0 => inputOf[openTurn] \in {input[t], NoInput}
    /\ Working(t) /\ t \notin cancel /\ (stopMode = "none" \/ stopping) =>
         openTurn # 0 /\ inputOf[openTurn] = input[t]
    /\ pc[t] = "tool" => call[t][1] # 0 /\ inputOf[call[t][1]] = input[t]

\* A turn is closed once its input is saved.
SavedFirst ==
  /\ \A t \in Tasks : pc[t] = "landed" /\ input[t] # NoInput => input[t] \in saved
  /\ \A i \in Inputs :
       /\ lastTurn # 0 /\ inputOf[lastTurn] = i /\ inputStatus[i] = "done" => i \in saved
       /\ i \in committed => inputStatus[i] = "done"

IInv ==
  /\ TypeOK /\ LockHeld /\ ScopesAreFresh /\ OpenIsRunning
  /\ Orderly => InputsKept /\ OwnTurn /\ SavedFirst

-----------------------------------------------------------------------------
(* Types.                                                                  *)

\* The tasks' part of TypeOK.
TasksType ==
  /\ pc \in [Tasks -> {"new", "waiting", "ended"} \cup InTurn]
  /\ key \in [Tasks -> Keys]
  /\ input \in [Tasks -> Inputs \cup {NoInput}]
  /\ call \in [Tasks -> {NoCall} \cup (Scopes \X Ops)]
  /\ holder \in [Keys -> Tasks \cup {Nobody}]
  /\ cancel \subseteq Tasks
  /\ stopping \in BOOLEAN
  /\ saved \cup committed \subseteq Inputs
  /\ torn \in BOOLEAN

LEMMA TypeParts == TypeOK <=> JournalTypeOK /\ TasksType
BY DEF TypeOK, TasksType

\* The next turn is a turn; the open scope is a scope.
LEMMA ScopeFacts ==
  ASSUME JournalTypeOK
  PROVE  /\ openTurn \in Scopes /\ 0 \in Scopes
         /\ lastTurn < MaxTurn => lastTurn + 1 \in Turns /\ lastTurn + 1 \in Scopes
         /\ Turns \subseteq Scopes /\ Scopes \subseteq Nat
BY InputAssumption, TurnAssumption DEF JournalTypeOK, Scopes, Turns

\* Closing the open turn makes inputs done.
LEMMA ClosedType ==
  ASSUME JournalTypeOK
  PROVE  ClosedInputs \in [Inputs -> {"unseen", "open", "done"}]
BY DEF JournalTypeOK, ClosedInputs

\* Recording a status keeps the table of operations one.
LEMMA StatusType ==
  ASSUME JournalTypeOK, NEW s \in OpStatus
  PROVE  /\ \A t, o : SetOp(t, o, s) => opStatus' \in [Scopes -> [Ops -> OpStatus]]
         /\ \A S : MarkPending(S, s) => opStatus' \in [Scopes -> [Ops -> OpStatus]]
<1>1. ASSUME NEW t, NEW o, SetOp(t, o, s)
      PROVE  opStatus' \in [Scopes -> [Ops -> OpStatus]]
  BY <1>1 DEF SetOp, JournalTypeOK
<1>2. ASSUME NEW S, MarkPending(S, s)
      PROVE  opStatus' \in [Scopes -> [Ops -> OpStatus]]
  BY <1>2 DEF MarkPending, JournalTypeOK
<1> QED BY <1>1, <1>2

\* A turn opened: the newest, with its input.
LEMMA OpenedType ==
  ASSUME JournalTypeOK, NEW i \in Inputs \cup {NoInput}, TurnOpened(i)
  PROVE  /\ lastTurn' \in Scopes /\ openTurn' = lastTurn'
         /\ inputOf' \in [Turns -> Inputs \cup {NoInput}]
BY ScopeFacts DEF JournalTypeOK, TurnOpened

\* Each journal call keeps the journal's types.
LEMMA OpenTurnType ==
  ASSUME JournalTypeOK, NEW i \in Inputs \cup {NoInput}, OpenTurn(i)
  PROVE  JournalTypeOK'
<1>1. inputStatus' \in [Inputs -> {"unseen", "open", "done"}]
  BY ClosedType DEF OpenTurn
<1> QED BY <1>1, OpenedType DEF OpenTurn, JournalTypeOK

LEMMA CommitTurnType ==
  ASSUME JournalTypeOK, CommitTurn
  PROVE  JournalTypeOK'
BY ClosedType DEF CommitTurn, JournalTypeOK

\* The journal keeps its type over whatever a task does to it.
LEMMA TaskJournalType ==
  ASSUME TypeOK, NEW t \in Tasks, Step(t)
  PROVE  JournalTypeOK'
<1> USE TypeParts
<1>0. input[t] \in Inputs \cup {NoInput}
  BY DEF TasksType
<1>1. CASE UNCHANGED journalVars
  BY <1>1 DEF journalVars, JournalTypeOK
<1>2. CASE Enter(t)
  BY <1>0, <1>1, <1>2, OpenTurnType DEF Enter
<1>3. CASE StartLoop(t)
  <2>1. CASE ConsumeInterruptions
    BY <2>1, StatusType DEF ConsumeInterruptions, JournalTypeOK, OpStatus, SettledStatus
  <2> QED BY <1>1, <1>3, <2>1 DEF StartLoop
<1>4. ASSUME NEW o \in Ops, StartTool(t, o) \/ RefuseTool(t, o)
      PROVE  JournalTypeOK'
  <2>1. CASE StartCall(openTurn, o)
    <3>1. opStatus' \in [Scopes -> [Ops -> OpStatus]]
      BY <2>1, StatusType DEF StartCall, OpStatus, OpenStatus
    <3>2. calls' \subseteq Scopes \X Ops
      BY <2>1, ScopeFacts DEF StartCall, JournalTypeOK
    <3>3. runs' \in [Scopes -> [Ops -> Nat]]
      BY <2>1, ScopeFacts DEF StartCall, JournalTypeOK
    <3> QED BY <2>1, <3>1, <3>2, <3>3 DEF StartCall, JournalTypeOK
  <2>2. CASE InterruptCall(openTurn, o)
    BY <2>2, StatusType DEF InterruptCall, JournalTypeOK, OpStatus, SettledStatus
  <2> QED BY <1>4, <2>1, <2>2 DEF StartTool, RefuseTool
<1>5. ASSUME NEW s \in {"finished", "canceled"}, FinishTool(t, s)
      PROVE  JournalTypeOK'
  <2>1. s \in OpStatus
    BY DEF OpStatus, SettledStatus
  <2> QED BY <1>5, <2>1, StatusType DEF FinishTool, FinishCall, JournalTypeOK
<1>6. CASE HaltLoop(t) \/ Reply(t) \/ LoopFails(t)
  BY <1>6 DEF HaltLoop, Reply, LoopFails, StopCleared, JournalTypeOK, StopModes
<1>7. CASE Commit(t)
  BY <1>1, <1>7, CommitTurnType DEF Commit
<1>8. CASE Cancelled(t)
  <2>1. opStatus' \in [Scopes -> [Ops -> OpStatus]]
    BY <1>8, StatusType DEF Cancelled, JournalTypeOK, OpStatus, SettledStatus
  <2> QED BY <1>8, <2>1 DEF Cancelled, StopCleared, JournalTypeOK, StopModes
<1>9. CASE DropDuplicate(t) \/ AnswerEarly(t) \/ NoReply(t) \/ SaveLands(t)
  BY <1>1, <1>9 DEF DropDuplicate, AnswerEarly, NoReply, SaveLands
<1> QED BY <1>2, <1>3, <1>4, <1>5, <1>6, <1>7, <1>8, <1>9 DEF Step

\* ... and over the stops and crashes.
LEMMA StopJournalType ==
  ASSUME TypeOK, NEW mode \in {"hard", "when_idle"}, BusStop(mode) \/ DirectStop(mode)
  PROVE  JournalTypeOK'
<1> USE TypeParts
<1>0. mode \in StopModes
  BY DEF StopModes
<1>1. CASE BusStop(mode)
  <2>1. opStatus' \in [Scopes -> [Ops -> OpStatus]]
    BY <1>1, StatusType DEF BusStop, RequestStop, JournalTypeOK, OpStatus, SettledStatus
  <2> QED BY <1>0, <1>1, <2>1 DEF BusStop, RequestStop, JournalTypeOK
<1>2. CASE DirectStop(mode)
  BY <1>0, <1>2, OpenedType, ClosedType DEF DirectStop, JournalTypeOK
<1> QED BY <1>1, <1>2

LEMMA CrashJournalType ==
  ASSUME TypeOK, Crash
  PROVE  JournalTypeOK'
<1> USE TypeParts
<1>1. CASE JournalCrash
  BY <1>1 DEF JournalCrash, Lost, JournalTypeOK
<1>2. CASE CrashInClose
  BY <1>2 DEF CrashInClose, Lost, JournalTypeOK
<1>3. ASSUME NEW t \in Tasks, CrashBeforeOpen(input[t])
      PROVE  JournalTypeOK'
  BY <1>3, ClosedType DEF CrashBeforeOpen, Lost, JournalTypeOK
<1>4. ASSUME NEW t \in Tasks, CrashAfterOpen(input[t])
      PROVE  JournalTypeOK'
  <2>1. input[t] \in Inputs \cup {NoInput}
    BY DEF TasksType
  <2> QED BY <1>4, <2>1, OpenedType, ClosedType DEF CrashAfterOpen, Lost, JournalTypeOK
<1>5. ASSUME NEW o \in Ops, CrashInClaim(openTurn, o)
      PROVE  JournalTypeOK'
  <2>1. opStatus' \in [Scopes -> [Ops -> OpStatus]]
    BY <1>5, StatusType DEF CrashInClaim, OpStatus
  <2> QED BY <1>5, <2>1 DEF CrashInClaim, JournalTypeOK
<1>6. CASE CrashInConsume
  <2>1. opStatus' \in [Scopes -> [Ops -> OpStatus]]
    BY <1>6, StatusType DEF CrashInConsume, OpStatus, SettledStatus
  <2> QED BY <1>6, <2>1 DEF CrashInConsume, JournalTypeOK
<1>7. CASE CrashInStop
  <2>1. opStatus' \in [Scopes -> [Ops -> OpStatus]]
    BY <1>7, StatusType DEF CrashInStop, OpStatus, SettledStatus
  <2> QED BY <1>7, <2>1 DEF CrashInStop, JournalTypeOK, StopModes
<1> QED BY <1>1, <1>2, <1>3, <1>4, <1>5, <1>6, <1>7 DEF Crash, TornCall

LEMMA JournalTypeStep ==
  ASSUME TypeOK, [Next]_vars
  PROVE  JournalTypeOK'
<1>1. CASE UNCHANGED journalVars
  BY <1>1, TypeParts DEF journalVars, JournalTypeOK
<1>2. ASSUME NEW t \in Tasks, NEW i \in Inputs \cup {NoInput}, NEW k \in Keys, Deliver(t, i, k)
      PROVE  JournalTypeOK'
  BY <1>1, <1>2 DEF Deliver
<1>3. CASE IdleStopInVain
  BY <1>3, TypeParts, OpenTurnType DEF IdleStopInVain
<1>4. CASE StopEnds
  BY <1>4, TypeParts DEF StopEnds, StopCleared, JournalTypeOK, StopModes
<1>5. CASE UNCHANGED vars
  BY <1>1, <1>5 DEF vars, journalVars
<1> QED BY <1>2, <1>3, <1>4, <1>5, TaskJournalType, StopJournalType, CrashJournalType DEF Next

\* A task that ends keeps the tasks' types, and so does one that goes on.
LEMMA EndsType ==
  ASSUME TasksType, NEW t \in Tasks, Ends(t)
  PROVE  /\ pc' \in [Tasks -> {"new", "waiting", "ended"} \cup InTurn]
         /\ holder' \in [Keys -> Tasks \cup {Nobody}]
         /\ cancel' \subseteq Tasks
         /\ UNCHANGED <<key, input, stopping>>
BY DEF TasksType, Ends, Goto

LEMMA GoesOnType ==
  ASSUME TasksType, NEW t \in Tasks, NEW there \in {"waiting"} \cup InTurn, Goto(t, there)
  PROVE  pc' \in [Tasks -> {"new", "waiting", "ended"} \cup InTurn]
BY DEF TasksType, Goto

LEMMA InpType ==
  ASSUME TasksType, NEW t \in Tasks
  PROVE  Inp(saved, t) \subseteq Inputs /\ Inp(committed, t) \subseteq Inputs
BY DEF TasksType, Inp

LEMMA StepTasksType ==
  ASSUME TypeOK, NEW t \in Tasks, Step(t)
  PROVE  TasksType'
<1> USE TypeParts, InpType
<1>1. CASE DropDuplicate(t) \/ AnswerEarly(t) \/ LoopFails(t)
  BY <1>1, EndsType DEF DropDuplicate, AnswerEarly, LoopFails, ghosts, TasksType
<1>2. CASE Commit(t)
  BY <1>2, EndsType DEF Commit, TasksType
<1>3. CASE Cancelled(t)
  <2>1. call' \in [Tasks -> {NoCall} \cup (Scopes \X Ops)]
    BY <1>3 DEF Cancelled, TasksType
  <2>2. saved' \subseteq Inputs
    BY <1>3 DEF Cancelled, TasksType
  <2> QED BY <1>3, <2>1, <2>2, EndsType DEF Cancelled, TasksType
<1>4. CASE Enter(t)
  <2>1. holder' \in [Keys -> Tasks \cup {Nobody}]
    BY <1>4 DEF Enter, TasksType
  <2> QED BY <1>4, <2>1, GoesOnType DEF Enter, TasksType, InTurn, ghosts
<1>5. CASE NoReply(t) \/ SaveLands(t)
  BY <1>5, GoesOnType DEF NoReply, SaveLands, KeepTask, TasksType, InTurn
<1>6. CASE StartLoop(t) \/ HaltLoop(t) \/ Reply(t)
  BY <1>6, GoesOnType DEF StartLoop, HaltLoop, Reply, KeepTask, TasksType, InTurn, ghosts
<1>7. ASSUME NEW o \in Ops, StartTool(t, o)
      PROVE  TasksType'
  <2>1. call' \in [Tasks -> {NoCall} \cup (Scopes \X Ops)]
    BY <1>7, ScopeFacts DEF StartTool, TasksType
  <2> QED BY <1>7, <2>1, GoesOnType DEF StartTool, KeepTask, TasksType, InTurn, ghosts
<1>8. ASSUME NEW o \in Ops, RefuseTool(t, o)
      PROVE  TasksType'
  BY <1>8 DEF RefuseTool, taskVars, ghosts, TasksType
<1>9. ASSUME NEW s \in {"finished", "canceled"}, FinishTool(t, s)
      PROVE  TasksType'
  <2>1. call' \in [Tasks -> {NoCall} \cup (Scopes \X Ops)]
    BY <1>9 DEF FinishTool, TasksType
  <2> QED BY <1>9, <2>1, GoesOnType DEF FinishTool, KeepTask, TasksType, InTurn, ghosts
<1> QED BY <1>1, <1>2, <1>3, <1>4, <1>5, <1>6, <1>7, <1>8, <1>9 DEF Step

LEMMA TasksTypeStep ==
  ASSUME TypeOK, [Next]_vars
  PROVE  TasksType'
<1> USE TypeParts
<1>1. ASSUME NEW t \in Tasks, NEW i \in Inputs \cup {NoInput}, NEW k \in Keys, Deliver(t, i, k)
      PROVE  TasksType'
  BY <1>1, GoesOnType DEF Deliver, TasksType, ghosts
<1>2. ASSUME NEW mode \in {"hard", "when_idle"}, BusStop(mode) \/ DirectStop(mode)
      PROVE  TasksType'
  BY <1>2 DEF BusStop, DirectStop, StopTasks, OwnTasks, KeepTurns, TasksType
<1>3. CASE IdleStopInVain \/ StopEnds
  BY <1>3 DEF IdleStopInVain, StopEnds, KeepTurns, TasksType
<1>4. CASE Crash
  <2>1. pc' \in [Tasks -> {"new", "waiting", "ended"} \cup InTurn]
    BY <1>4 DEF Crash
  <2>2. torn' \in BOOLEAN
    BY <1>4 DEF Crash, TornCall, TasksType
  <2>3. holder' \in [Keys -> Tasks \cup {Nobody}] /\ call' \in [Tasks -> {NoCall} \cup (Scopes \X Ops)]
    BY <1>4 DEF Crash
  <2> QED BY <1>4, <2>1, <2>2, <2>3 DEF Crash, TasksType
<1>5. CASE UNCHANGED vars
  BY <1>5 DEF vars, taskVars, ghosts, TasksType
<1> QED BY <1>1, <1>2, <1>3, <1>4, <1>5, StepTasksType DEF Next

\* Every step keeps the types.
LEMMA TypeStep ==
  ASSUME TypeOK, [Next]_vars
  PROVE  TypeOK'
BY JournalTypeStep, TasksTypeStep DEF TypeOK, TasksType

-----------------------------------------------------------------------------
(* Who moves, and the locks.                                               *)

\* A step moves one task: it ends, enters its turn, or goes on in it.
LEMMA StepMoves ==
  ASSUME TypeOK, NEW t \in Tasks, Step(t)
  PROVE  /\ UNCHANGED <<key, input, stopping, crashes, stops>>
         /\ \A u \in Tasks \ {t} : /\ pc'[u] = pc[u] /\ call'[u] = call[u]
                                   /\ u \in cancel' <=> u \in cancel
         /\ \/ Ends(t)
            \/ Enter(t)
            \/ pc[t] \in InTurn /\ pc'[t] \in InTurn /\ UNCHANGED <<holder, cancel>>
<1> USE TypeParts DEF TasksType, bounds
<1>1. CASE DropDuplicate(t) \/ AnswerEarly(t) \/ LoopFails(t) \/ Commit(t) \/ Cancelled(t)
  BY <1>1 DEF DropDuplicate, AnswerEarly, LoopFails, Commit, Cancelled, Ends, Goto
<1>2. CASE Enter(t)
  BY <1>2 DEF Enter, Goto
<1>3. CASE NoReply(t) \/ SaveLands(t) \/ StartLoop(t) \/ HaltLoop(t) \/ Reply(t)
  BY <1>3 DEF NoReply, SaveLands, StartLoop, HaltLoop, Reply, At, KeepTask, Goto, InTurn
<1>4. ASSUME NEW o \in Ops, StartTool(t, o)
      PROVE  /\ UNCHANGED <<key, input, stopping, crashes, stops, holder, cancel>>
             /\ \A u \in Tasks \ {t} : pc'[u] = pc[u] /\ call'[u] = call[u]
             /\ pc[t] \in InTurn /\ pc'[t] \in InTurn
  BY <1>4 DEF StartTool, At, KeepTask, Goto, InTurn
<1>5. ASSUME NEW o \in Ops, RefuseTool(t, o)
      PROVE  /\ UNCHANGED <<key, input, stopping, crashes, stops, holder, cancel>>
             /\ \A u \in Tasks \ {t} : pc'[u] = pc[u] /\ call'[u] = call[u]
             /\ pc[t] \in InTurn /\ pc'[t] \in InTurn
  BY <1>5 DEF RefuseTool, At, taskVars, InTurn
<1>6. ASSUME NEW s \in {"finished", "canceled"}, FinishTool(t, s)
      PROVE  /\ UNCHANGED <<key, input, stopping, crashes, stops, holder, cancel>>
             /\ \A u \in Tasks \ {t} : pc'[u] = pc[u] /\ call'[u] = call[u]
             /\ pc[t] \in InTurn /\ pc'[t] \in InTurn
  BY <1>6 DEF FinishTool, At, KeepTask, Goto, InTurn
<1> QED BY <1>1, <1>2, <1>3, <1>4, <1>5, <1>6 DEF Step

\* The lock is handed over whole: who enters a turn takes it, who ends gives it back.
LEMMA LockStep ==
  ASSUME TypeOK, LockHeld, [Next]_vars
  PROVE  LockHeld'
<1> USE TypeParts, KeyAssumption DEF TasksType, LockHeld
<1>1. ASSUME NEW t \in Tasks, NEW i \in Inputs \cup {NoInput}, NEW k \in Keys, Deliver(t, i, k)
      PROVE  LockHeld'
  BY <1>1 DEF Deliver, Goto, InTurn
<1>2. ASSUME NEW t \in Tasks, Step(t)
      PROVE  LockHeld'
  <2>1. CASE Ends(t)
    BY <1>2, <2>1, StepMoves DEF Ends, Goto, InTurn
  <2>2. CASE Enter(t)
    BY <1>2, <2>2, StepMoves DEF Enter, MayEnter, Goto, InTurn
  <2>3. CASE pc[t] \in InTurn /\ pc'[t] \in InTurn /\ UNCHANGED <<holder, cancel>>
    BY <1>2, <2>3, StepMoves DEF InTurn
  <2> QED BY <1>2, <2>1, <2>2, <2>3, StepMoves
<1>3. ASSUME NEW mode \in {"hard", "when_idle"}, BusStop(mode) \/ DirectStop(mode)
      PROVE  LockHeld'
  BY <1>3 DEF BusStop, DirectStop, KeepTurns
<1>4. CASE IdleStopInVain \/ StopEnds
  BY <1>4 DEF IdleStopInVain, StopEnds, KeepTurns
<1>5. CASE Crash
  BY <1>5 DEF Crash, InTurn
<1>6. CASE UNCHANGED vars
  BY <1>6 DEF vars, taskVars
<1> QED BY <1>1, <1>2, <1>3, <1>4, <1>5, <1>6 DEF Next

\* While no other key is routed here, one message is in its turn.
LEMMA OneInTurn ==
  ASSUME LockHeld, OwnOnly, NEW t \in Tasks, NEW u \in Tasks,
         pc[t] \in InTurn, pc[u] \in InTurn
  PROVE  t = u
BY DEF LockHeld, OwnOnly

\* ... and no other enters.
LEMMA NobodyEnters ==
  ASSUME LockHeld, OwnOnly, NEW t \in Tasks, NEW u \in Tasks, pc[t] \in InTurn, Enter(u)
  PROVE  FALSE
BY KeyAssumption DEF LockHeld, OwnOnly, Enter, MayEnter

\* The keys were the session's own before if they are after a step.
LEMMA OwnBefore ==
  ASSUME TypeOK, LockHeld, [Next]_vars
  PROVE  /\ OwnOnly' => OwnOnly
         /\ Orderly' => Orderly
<1> USE TypeParts DEF TasksType, LockHeld, OwnOnly
<1>1. ASSUME NEW t \in Tasks, NEW i \in Inputs \cup {NoInput}, NEW k \in Keys, Deliver(t, i, k)
      PROVE  (OwnOnly' => OwnOnly) /\ (torn => torn')
  BY <1>1 DEF Deliver, ghosts
<1>2. ASSUME NEW t \in Tasks, Step(t)
      PROVE  UNCHANGED <<key, torn>>
  BY <1>2, StepMoves DEF Step, DropDuplicate, Enter, AnswerEarly, NoReply, StartLoop, StartTool, RefuseTool,
       FinishTool, HaltLoop, Reply, LoopFails, SaveLands, Commit, Cancelled, ghosts
<1>3. ASSUME NEW mode \in {"hard", "when_idle"}, BusStop(mode) \/ DirectStop(mode)
      PROVE  UNCHANGED <<key, torn>>
  BY <1>3 DEF BusStop, DirectStop, KeepTurns
<1>4. CASE IdleStopInVain \/ StopEnds
  BY <1>4 DEF IdleStopInVain, StopEnds, KeepTurns, Orderly
<1>5. CASE Crash
  BY <1>5 DEF Crash, TornCall, Orderly
<1>6. CASE UNCHANGED vars
  BY <1>6 DEF vars, taskVars, ghosts, Orderly
<1> QED BY <1>1, <1>2, <1>3, <1>4, <1>5, <1>6 DEF Next, Orderly

-----------------------------------------------------------------------------
(* Scopes.                                                                 *)

\* A scope that was opened changes, and none that was not.
LEMMA RowsOfOpened ==
  ASSUME JournalTypeOK, ScopesAreFresh, NEW c \in Scopes, c <= lastTurn, lastTurn' = lastTurn,
         \A s \in Scopes \ {c} : opStatus'[s] = opStatus[s]
  PROVE  \A s \in Scopes, o \in Ops : s > lastTurn' => opStatus'[s][o] = "none"
<1>1. lastTurn \in Nat /\ \A s \in Scopes : s \in Nat
  BY ScopeFacts DEF JournalTypeOK
<1>2. \A s \in Scopes : s > lastTurn => s # c
  BY <1>1
<1> QED BY <1>2 DEF ScopesAreFresh

\* Recording one operation, or all of the open scope, changes no other scope.
LEMMA RowsChanged ==
  ASSUME JournalTypeOK, NEW s
  PROVE  /\ \A c, o : SetOp(c, o, s) => \A d \in Scopes \ {c} : opStatus'[d] = opStatus[d]
         /\ \A S : MarkPending(S, s) =>
              \A d \in Scopes \ {openTurn} : opStatus'[d] = opStatus[d]
         /\ openTurn <= lastTurn
<1>1. openTurn <= lastTurn
  BY ScopeFacts DEF JournalTypeOK
<1>2. ASSUME NEW c, NEW o, SetOp(c, o, s)
      PROVE  \A d \in Scopes \ {c} : opStatus'[d] = opStatus[d]
  BY <1>2 DEF SetOp, JournalTypeOK
<1>3. ASSUME NEW S, MarkPending(S, s)
      PROVE  \A d \in Scopes \ {openTurn} : opStatus'[d] = opStatus[d]
  BY <1>3 DEF MarkPending, JournalTypeOK
<1> QED BY <1>1, <1>2, <1>3

\* Opening a turn leaves the scopes of later ones empty.
LEMMA ScopesOfOpened ==
  ASSUME TypeOK, ScopesAreFresh, NEW i, TurnOpened(i), UNCHANGED opStatus,
         calls' \subseteq calls, \A t \in Tasks : pc'[t] = "tool" => pc[t] = "tool" /\ call'[t] = call[t]
  PROVE  ScopesAreFresh'
<1>1. lastTurn \in Nat /\ lastTurn' = lastTurn + 1
  BY TypeParts, ScopeFacts DEF TurnOpened, JournalTypeOK
<1>2. \A s \in Scopes : s \in Nat
  BY TypeParts, ScopeFacts
<1>3. \A s \in Scopes, o \in Ops : s > lastTurn' => opStatus'[s][o] = "none"
  BY <1>1, <1>2 DEF ScopesAreFresh
<1>4. \A c \in calls : c[1] \in Nat
  BY <1>2, TypeParts DEF JournalTypeOK
<1>5. \A c \in calls' : c[1] <= lastTurn'
  BY <1>1, <1>4 DEF ScopesAreFresh
<1>6. \A t \in Tasks : pc'[t] = "tool" => call'[t] \in Scopes \X Ops /\ call'[t][1] <= lastTurn'
  BY <1>1, <1>2 DEF ScopesAreFresh
<1> QED BY <1>3, <1>5, <1>6 DEF ScopesAreFresh

\* A task starts calls in the open scope only, which is one that was opened.
LEMMA ScopesTaskStep ==
  ASSUME TypeOK, ScopesAreFresh, NEW t \in Tasks, Step(t)
  PROVE  ScopesAreFresh'
<1> USE TypeParts
<1>0. \A u \in Tasks \ {t} : pc'[u] = pc[u] /\ call'[u] = call[u]
  BY StepMoves
<1>1. CASE UNCHANGED <<lastTurn, opStatus, calls, call>> /\ pc'[t] # "tool"
  BY <1>0, <1>1 DEF ScopesAreFresh
<1>2. CASE DropDuplicate(t) \/ AnswerEarly(t) \/ NoReply(t) \/ HaltLoop(t) \/ Reply(t)
           \/ LoopFails(t) \/ SaveLands(t) \/ Commit(t)
  BY <1>1, <1>2 DEF DropDuplicate, AnswerEarly, NoReply, HaltLoop, Reply, LoopFails, SaveLands, Commit,
                    Ends, Goto, journalVars, CommitTurn, TasksType
<1>3. CASE Enter(t)
  <2>1. pc'[t] = "accepted" /\ UNCHANGED call
    BY <1>3 DEF Enter, Goto, TasksType
  <2>2. CASE OpenTurn(input[t])
    BY <1>0, <2>1, <2>2, ScopesOfOpened DEF OpenTurn
  <2> QED BY <1>1, <1>3, <2>1, <2>2 DEF Enter, journalVars
<1>4. CASE StartLoop(t)
  <2>1. pc'[t] = "loop" /\ UNCHANGED call
    BY <1>4 DEF StartLoop, Goto, TasksType
  <2>2. CASE ConsumeInterruptions
    BY <1>0, <2>1, <2>2, RowsChanged, RowsOfOpened, ScopeFacts DEF ConsumeInterruptions, ScopesAreFresh
  <2> QED BY <1>1, <1>4, <2>1, <2>2 DEF StartLoop, journalVars
<1>5. ASSUME NEW o \in Ops, StartTool(t, o)
      PROVE  ScopesAreFresh'
  <2>1. /\ lastTurn' = lastTurn /\ calls' = calls \cup {<<openTurn, o>>}
        /\ SetOp(openTurn, o, "awaiting") /\ call'[t] = <<openTurn, o>>
    BY <1>5 DEF StartTool, StartCall, TasksType
  <2>2. \A v \in Scopes, p \in Ops : v > lastTurn' => opStatus'[v][p] = "none"
    BY <2>1, RowsChanged, RowsOfOpened, ScopeFacts
  <2>3. openTurn <= lastTurn /\ openTurn \in Scopes
    BY RowsChanged, ScopeFacts
  <2>4. \A c \in calls' : c[1] <= lastTurn'
    BY <2>1, <2>3 DEF ScopesAreFresh
  <2>5. call'[t] \in Scopes \X Ops /\ call'[t][1] <= lastTurn'
    BY <2>1, <2>3
  <2>6. \A u \in Tasks : pc'[u] = "tool" => call'[u] \in Scopes \X Ops /\ call'[u][1] <= lastTurn'
    <3> TAKE u \in Tasks
    <3>1. CASE u = t
      BY <2>5, <3>1
    <3>2. CASE u # t
      BY <1>0, <2>1, <3>2 DEF ScopesAreFresh
    <3> QED BY <3>1, <3>2
  <2> QED BY <2>2, <2>4, <2>6 DEF ScopesAreFresh
<1>6. ASSUME NEW o \in Ops, RefuseTool(t, o)
      PROVE  ScopesAreFresh'
  <2>1. /\ UNCHANGED <<lastTurn, calls, pc, call>> /\ SetOp(openTurn, o, "interrupted")
    BY <1>6 DEF RefuseTool, InterruptCall, taskVars
  <2> QED BY <2>1, RowsChanged, RowsOfOpened, ScopeFacts DEF ScopesAreFresh
<1>7. ASSUME NEW s \in {"finished", "canceled"}, FinishTool(t, s)
      PROVE  ScopesAreFresh'
  <2>1. /\ UNCHANGED lastTurn /\ calls' \subseteq calls /\ pc[t] = "tool" /\ pc'[t] = "loop"
        /\ SetOp(call[t][1], call[t][2], s)
    BY <1>7 DEF FinishTool, At, Goto, FinishCall, TasksType
  <2>2. call[t][1] \in Scopes /\ call[t][1] <= lastTurn
    BY <2>1 DEF ScopesAreFresh
  <2>3. \A v \in Scopes, o \in Ops : v > lastTurn' => opStatus'[v][o] = "none"
    BY <2>1, <2>2, RowsChanged, RowsOfOpened
  <2> QED BY <1>0, <2>1, <2>3 DEF ScopesAreFresh
<1>8. CASE Cancelled(t)
  <2>1. /\ UNCHANGED lastTurn /\ calls' \subseteq calls /\ pc'[t] = "ended"
        /\ \/ pc[t] = "tool" /\ SetOp(call[t][1], call[t][2], "canceled")
           \/ UNCHANGED opStatus
    BY <1>8 DEF Cancelled, Ends, Goto, TasksType
  <2>2. pc[t] = "tool" => call[t][1] \in Scopes /\ call[t][1] <= lastTurn
    BY DEF ScopesAreFresh
  <2> QED BY <1>0, <2>1, <2>2, RowsChanged, RowsOfOpened DEF ScopesAreFresh
<1> QED BY <1>2, <1>3, <1>4, <1>5, <1>6, <1>7, <1>8 DEF Step

\* A crash ends the calls; the rows it cuts are of the open scope.
LEMMA ScopesCrash ==
  ASSUME TypeOK, ScopesAreFresh, Crash
  PROVE  ScopesAreFresh'
<1> USE TypeParts
<1>0. calls' = {} /\ \A t \in Tasks : pc'[t] # "tool"
  BY DEF Crash, TornCall, JournalCrash, CrashInClose, CrashBeforeOpen, CrashAfterOpen, CrashInClaim,
         CrashInConsume, CrashInStop, Lost
<1>1. CASE UNCHANGED <<lastTurn, opStatus>>
  BY <1>0, <1>1 DEF ScopesAreFresh
<1>2. ASSUME NEW t \in Tasks, CrashAfterOpen(input[t])
      PROVE  ScopesAreFresh'
  BY <1>0, <1>2, ScopesOfOpened DEF CrashAfterOpen, Lost
<1>3. CASE /\ lastTurn' = lastTurn
           /\ \E c, o, s : c \in {openTurn} /\ SetOp(c, o, s)
  BY <1>0, <1>3, RowsChanged, RowsOfOpened, ScopeFacts DEF ScopesAreFresh
<1>4. CASE /\ lastTurn' = lastTurn /\ \E S, s : MarkPending(S, s)
  BY <1>0, <1>4, RowsChanged, RowsOfOpened, ScopeFacts DEF ScopesAreFresh
<1>5. CASE JournalCrash \/ CrashInClose \/ \E t \in Tasks : CrashBeforeOpen(input[t])
  BY <1>1, <1>5 DEF JournalCrash, CrashInClose, CrashBeforeOpen, Lost
<1>6. CASE \E o \in Ops : CrashInClaim(openTurn, o)
  BY <1>3, <1>6 DEF CrashInClaim
<1>7. CASE CrashInConsume \/ CrashInStop
  BY <1>4, <1>7 DEF CrashInConsume, CrashInStop
<1> QED BY <1>2, <1>5, <1>6, <1>7 DEF Crash, TornCall

\* No step writes to a scope that was not opened.
LEMMA ScopesStep ==
  ASSUME TypeOK, ScopesAreFresh, [Next]_vars
  PROVE  ScopesAreFresh'
<1> USE TypeParts
<1>1. ASSUME NEW t \in Tasks, NEW i \in Inputs \cup {NoInput}, NEW k \in Keys, Deliver(t, i, k)
      PROVE  ScopesAreFresh'
  BY <1>1 DEF Deliver, Goto, journalVars, TasksType, ScopesAreFresh
<1>2. ASSUME NEW mode \in {"hard", "when_idle"}, BusStop(mode)
      PROVE  ScopesAreFresh'
  <2>1. UNCHANGED <<lastTurn, calls, pc, call>>
    BY <1>2 DEF BusStop, RequestStop, KeepTurns
  <2>2. CASE MarkPending(Pending, "canceled")
    BY <2>1, <2>2, RowsChanged, RowsOfOpened, ScopeFacts DEF ScopesAreFresh
  <2>3. CASE UNCHANGED opStatus
    BY <2>1, <2>3 DEF ScopesAreFresh
  <2> QED BY <1>2, <2>2, <2>3 DEF BusStop, RequestStop
<1>3. ASSUME NEW mode \in {"hard", "when_idle"}, DirectStop(mode)
      PROVE  ScopesAreFresh'
  BY <1>3, ScopesOfOpened DEF DirectStop, KeepTurns
<1>4. CASE IdleStopInVain
  BY <1>4, ScopesOfOpened DEF IdleStopInVain, OpenTurn, KeepTurns
<1>5. CASE StopEnds
  BY <1>5 DEF StopEnds, ScopesAreFresh
<1>6. CASE UNCHANGED vars
  BY <1>6 DEF vars, journalVars, taskVars, ScopesAreFresh
<1> QED BY <1>1, <1>2, <1>3, <1>4, <1>5, <1>6, ScopesTaskStep, ScopesCrash DEF Next

-----------------------------------------------------------------------------
(* Calls on record as open run.                                            *)

\* While the open scope is the same, calls may only join those that run, and
\* operations become open only with their call.
LEMMA OpenKept ==
  ASSUME TypeOK, OpenIsRunning, UNCHANGED openTurn, OwnOnly' => OwnOnly,
         \A t \in Tasks : pc'[t] \in {"loop", "tool"} => pc[t] \in {"loop", "tool"},
         \A o \in Ops : /\ opStatus'[openTurn][o] \in OpenStatus =>
                             \/ opStatus[openTurn][o] \in OpenStatus
                             \/ <<openTurn, o>> \in calls'
                        /\ <<openTurn, o>> \in calls =>
                             \/ <<openTurn, o>> \in calls'
                             \/ opStatus'[openTurn][o] \notin OpenStatus
  PROVE  OpenIsRunning'
BY DEF OpenIsRunning, Pending

\* A turn just opened has nothing open.
LEMMA OpenedIsEmpty ==
  ASSUME TypeOK, ScopesAreFresh, NEW i, TurnOpened(i), UNCHANGED opStatus
  PROVE  OpenIsRunning'
<1>1. /\ openTurn' \in Scopes /\ openTurn' > lastTurn
  BY TypeParts, ScopeFacts DEF TurnOpened, JournalTypeOK
<1>2. \A o \in Ops : opStatus'[openTurn'][o] = "none"
  BY <1>1 DEF ScopesAreFresh
<1> QED BY <1>2 DEF OpenIsRunning, Pending, OpenStatus

\* What becomes of a row that is set, and of one that is marked.
LEMMA RowSet ==
  ASSUME JournalTypeOK, NEW c \in Scopes, NEW o \in Ops, NEW s, SetOp(c, o, s)
  PROVE  /\ opStatus'[c][o] = s
         /\ \A d \in Scopes, p \in Ops : <<d, p>> # <<c, o>> => opStatus'[d][p] = opStatus[d][p]
BY DEF JournalTypeOK, SetOp

LEMMA RowsMarked ==
  ASSUME JournalTypeOK, NEW s, MarkPending(Pending, s), s \notin OpenStatus
  PROVE  \A o \in Ops : opStatus'[openTurn][o] \notin OpenStatus
BY ScopeFacts DEF JournalTypeOK, MarkPending, Pending

\* A task that starts its loop notes what is open; whoever is in the loop is the
\* only one to start calls in the open scope.
LEMMA OpenTaskStep ==
  ASSUME TypeOK, LockHeld, ScopesAreFresh, OpenIsRunning, NEW t \in Tasks, Step(t)
  PROVE  OpenIsRunning'
<1> USE TypeParts
<1>0. /\ \A u \in Tasks \ {t} : pc'[u] = pc[u] /\ call'[u] = call[u]
      /\ OwnOnly' => OwnOnly
      /\ openTurn \in Scopes
  BY StepMoves, ScopeFacts DEF OwnOnly
<1>1. CASE /\ UNCHANGED <<openTurn, opStatus, calls>>
           /\ pc'[t] \in {"loop", "tool"} => pc[t] \in {"loop", "tool"}
  BY <1>0, <1>1, OpenKept
<1>2. CASE DropDuplicate(t) \/ AnswerEarly(t) \/ NoReply(t) \/ HaltLoop(t) \/ Reply(t)
           \/ LoopFails(t) \/ SaveLands(t)
  BY <1>1, <1>2 DEF DropDuplicate, AnswerEarly, NoReply, HaltLoop, Reply, LoopFails, SaveLands,
                    Ends, Goto, journalVars, TasksType
<1>3. CASE Commit(t)
  <2>1. pc[t] = "landed" /\ pc'[t] = "ended"
    BY <1>3 DEF Commit, At, Ends, Goto, TasksType
  <2>2. CASE CommitTurn
    <3>1. openTurn' = 0
      BY <2>2 DEF CommitTurn
    <3>2. OwnOnly' => \A u \in Tasks : pc'[u] \notin {"loop", "tool"}
      BY <1>0, <2>1, OneInTurn DEF InTurn
    <3> QED BY <3>1, <3>2 DEF OpenIsRunning
  <2> QED BY <1>1, <1>3, <2>1, <2>2 DEF Commit, journalVars
<1>4. CASE Enter(t)
  <2>1. pc'[t] = "accepted"
    BY <1>4 DEF Enter, Goto, TasksType
  <2>2. CASE OpenTurn(input[t])
    BY <2>2, OpenedIsEmpty DEF OpenTurn
  <2> QED BY <1>1, <1>4, <2>1, <2>2 DEF Enter, journalVars
<1>5. CASE StartLoop(t)
  <2>1. CASE ConsumeInterruptions
    <3>1. \A o \in Ops : opStatus'[openTurn][o] \notin OpenStatus
      BY <2>1, RowsMarked DEF ConsumeInterruptions, OpenStatus
    <3> QED BY <2>1, <3>1 DEF ConsumeInterruptions, OpenIsRunning, Pending
  <2>2. CASE Pending = {} /\ UNCHANGED journalVars
    BY <2>2 DEF OpenIsRunning, Pending, journalVars
  <2> QED BY <1>5, <2>1, <2>2 DEF StartLoop
<1>6. ASSUME NEW o \in Ops, StartTool(t, o)
      PROVE  OpenIsRunning'
  <2>1. /\ UNCHANGED openTurn /\ calls' = calls \cup {<<openTurn, o>>} /\ pc[t] = "loop"
        /\ SetOp(openTurn, o, "awaiting")
    BY <1>6 DEF StartTool, StartCall, At
  <2>2. \A p \in Ops : p # o => opStatus'[openTurn][p] = opStatus[openTurn][p]
    BY <1>0, <2>1, RowSet
  <2> QED BY <1>0, <2>1, <2>2, OpenKept
<1>7. ASSUME NEW o \in Ops, RefuseTool(t, o)
      PROVE  OpenIsRunning'
  <2>1. /\ UNCHANGED <<openTurn, calls, pc>> /\ SetOp(openTurn, o, "interrupted")
    BY <1>7 DEF RefuseTool, InterruptCall, taskVars
  <2>2. \A p \in Ops : p # o => opStatus'[openTurn][p] = opStatus[openTurn][p]
    BY <1>0, <2>1, RowSet
  <2>3. opStatus'[openTurn][o] \notin OpenStatus
    BY <1>0, <2>1, RowSet DEF OpenStatus
  <2> QED BY <1>0, <2>1, <2>2, <2>3, OpenKept
<1>8. ASSUME NEW s \in {"finished", "canceled"}, pc[t] = "tool", UNCHANGED openTurn,
             SetOp(call[t][1], call[t][2], s), calls' = calls \ {call[t]}
      PROVE  OpenIsRunning'
  <2>1. PICK c \in Scopes, o \in Ops : call[t] = <<c, o>>
    BY <1>8 DEF ScopesAreFresh
  <2>2. /\ opStatus'[c][o] \notin OpenStatus
        /\ \A d \in Scopes, p \in Ops : <<d, p>> # <<c, o>> => opStatus'[d][p] = opStatus[d][p]
    BY <1>8, <2>1, RowSet DEF OpenStatus
  <2>3. \A p \in Ops : <<openTurn, p>> \in calls =>
          <<openTurn, p>> \in calls' \/ opStatus'[openTurn][p] \notin OpenStatus
    BY <1>8, <2>1, <2>2
  <2>4. \A p \in Ops : opStatus'[openTurn][p] \in OpenStatus => opStatus[openTurn][p] \in OpenStatus
    BY <1>0, <2>2
  <2> QED BY <1>0, <1>8, <2>3, <2>4, OpenKept
<1>9. ASSUME NEW s \in {"finished", "canceled"}, FinishTool(t, s)
      PROVE  OpenIsRunning'
  <2>1. PICK c \in Scopes, o \in Ops : call[t] = <<c, o>>
    BY <1>9 DEF FinishTool, At, ScopesAreFresh
  <2>2. calls' = calls \ {call[t]}
    BY <1>9, <2>1 DEF FinishTool, FinishCall
  <2> QED BY <1>8, <1>9, <2>2 DEF FinishTool, At, FinishCall
<1>10. CASE Cancelled(t)
  <2>1. UNCHANGED openTurn /\ pc'[t] = "ended"
    BY <1>10 DEF Cancelled, Ends, Goto, TasksType
  <2> QED BY <1>1, <1>8, <1>10, <2>1 DEF Cancelled
<1> QED BY <1>2, <1>3, <1>4, <1>5, <1>6, <1>7, <1>9, <1>10 DEF Step

\* Nor does any other step leave an open call behind for a loop at work.
LEMMA OpenStep ==
  ASSUME TypeOK, LockHeld, ScopesAreFresh, OpenIsRunning, [Next]_vars
  PROVE  OpenIsRunning'
<1> USE TypeParts
<1>0. OwnOnly' => OwnOnly
  BY OwnBefore
<1>1. ASSUME NEW t \in Tasks, NEW i \in Inputs \cup {NoInput}, NEW k \in Keys, Deliver(t, i, k)
      PROVE  OpenIsRunning'
  BY <1>0, <1>1, OpenKept DEF Deliver, Goto, journalVars, TasksType
<1>2. ASSUME NEW mode \in {"hard", "when_idle"}, BusStop(mode)
      PROVE  OpenIsRunning'
  <2>1. UNCHANGED <<openTurn, calls, pc>>
    BY <1>2 DEF BusStop, RequestStop, KeepTurns
  <2>2. CASE MarkPending(Pending, "canceled")
    <3>1. \A o \in Ops : opStatus'[openTurn][o] \notin OpenStatus
      BY <2>2, RowsMarked DEF OpenStatus
    <3> QED BY <2>1, <3>1 DEF OpenIsRunning, Pending
  <2>3. CASE UNCHANGED opStatus
    BY <1>0, <2>1, <2>3, OpenKept
  <2> QED BY <1>2, <2>2, <2>3 DEF BusStop, RequestStop
<1>3. ASSUME NEW mode \in {"hard", "when_idle"}, DirectStop(mode)
      PROVE  OpenIsRunning'
  BY <1>3, OpenedIsEmpty DEF DirectStop
<1>4. CASE IdleStopInVain
  BY <1>4, OpenedIsEmpty DEF IdleStopInVain, OpenTurn
<1>5. CASE StopEnds
  BY <1>0, <1>5, OpenKept DEF StopEnds
<1>6. CASE Crash
  BY <1>6 DEF Crash, OpenIsRunning
<1>7. CASE UNCHANGED vars
  BY <1>0, <1>7, OpenKept DEF vars, journalVars, taskVars
<1> QED BY <1>1, <1>2, <1>3, <1>4, <1>5, <1>6, <1>7, OpenTaskStep DEF Next

-----------------------------------------------------------------------------
(* Inputs, while the journal is whole and no other key is routed here.     *)

\* What closing the open turn, and opening one, makes of the inputs.
LEMMA ClosedFacts ==
  ASSUME JournalTypeOK, \A i \in Inputs : inputStatus[i] = "open" => openTurn # 0 /\ inputOf[openTurn] = i,
         NEW i \in Inputs
  PROVE  /\ ClosedInputs[i] # "open"
         /\ ClosedInputs[i] = "unseen" => inputStatus[i] = "unseen"
         /\ inputStatus[i] = "done" => ClosedInputs[i] = "done"
         /\ ClosedInputs[i] = "done" =>
              inputStatus[i] = "done" \/ (openTurn # 0 /\ inputOf[openTurn] = i)
BY DEF ClosedInputs, JournalTypeOK

LEMMA OpenedFacts ==
  ASSUME JournalTypeOK, NEW i \in Inputs \cup {NoInput}, OpenTurn(i)
  PROVE  /\ openTurn' = lastTurn' /\ openTurn' # 0 /\ lastTurn' = lastTurn + 1
         /\ inputOf'[openTurn'] = i
         /\ \A c \in Scopes : c # 0 /\ c <= lastTurn => inputOf'[c] = inputOf[c]
         /\ i \in Inputs => inputStatus'[i] = "open"
         /\ \A j \in Inputs \ {i} : inputStatus'[j] = ClosedInputs[j]
<1>1. /\ openTurn' = lastTurn' /\ openTurn' # 0 /\ lastTurn' = lastTurn + 1
      /\ lastTurn + 1 \in Turns /\ lastTurn \in Nat
  BY ScopeFacts DEF JournalTypeOK, OpenTurn, TurnOpened
<1>2. inputOf'[openTurn'] = i
  BY <1>1 DEF JournalTypeOK, OpenTurn, TurnOpened
<1>3. \A c \in Scopes : c # 0 /\ c <= lastTurn => inputOf'[c] = inputOf[c]
  BY <1>1 DEF JournalTypeOK, OpenTurn, TurnOpened, Scopes, Turns
<1>4. /\ i \in Inputs => inputStatus'[i] = "open"
      /\ \A j \in Inputs \ {i} : inputStatus'[j] = ClosedInputs[j]
  BY ClosedType, InputAssumption, TurnAssumption DEF OpenTurn
<1> QED BY <1>1, <1>2, <1>3, <1>4

\* The journal after a step of the three kinds there are: the turns as they
\* were, the open one closed, or a new one open.
SameTurns == UNCHANGED <<lastTurn, openTurn, inputOf, inputStatus>>

LEMMA TurnEffects ==
  ASSUME TypeOK, Orderly', [Next]_vars
  PROVE  \/ SameTurns
         \/ \E t \in Tasks : Commit(t) /\ CommitTurn
         \/ \E t \in Tasks : Enter(t) /\ OpenTurn(input[t])
         \/ /\ \E mode \in {"hard", "when_idle"} : DirectStop(mode) /\ stopMode' # "none"
            /\ OpensTurn(NoInput) /\ TurnOpened(NoInput) /\ inputStatus' = ClosedInputs
         \/ IdleStopInVain /\ OpenTurn(NoInput)
<1> USE DEF SameTurns
<1>1. ASSUME NEW t \in Tasks, Step(t)
      PROVE  \/ SameTurns
             \/ Commit(t) /\ CommitTurn
             \/ Enter(t) /\ OpenTurn(input[t])
  BY <1>1 DEF Step, DropDuplicate, Enter, AnswerEarly, NoReply, StartLoop, StartTool, RefuseTool,
       FinishTool, HaltLoop, Reply, LoopFails, SaveLands, Commit, Cancelled, journalVars,
       ConsumeInterruptions, StartCall, InterruptCall, FinishCall
<1>2. ASSUME NEW t \in Tasks, NEW i \in Inputs \cup {NoInput}, NEW k \in Keys, Deliver(t, i, k)
      PROVE  SameTurns
  BY <1>2 DEF Deliver, journalVars
<1>3. ASSUME NEW mode \in {"hard", "when_idle"}, BusStop(mode)
      PROVE  SameTurns
  BY <1>3 DEF BusStop, RequestStop
<1>4. ASSUME NEW mode \in {"hard", "when_idle"}, DirectStop(mode)
      PROVE  /\ DirectStop(mode) /\ stopMode' # "none"
             /\ OpensTurn(NoInput) /\ TurnOpened(NoInput) /\ inputStatus' = ClosedInputs
  BY <1>4, InputAssumption, TurnAssumption DEF DirectStop, OpensTurn
<1>5. CASE IdleStopInVain
  BY <1>5 DEF IdleStopInVain
<1>6. CASE StopEnds
  BY <1>6 DEF StopEnds
<1>7. CASE Crash
  BY <1>7 DEF Crash, TornCall, Orderly, JournalCrash
<1>8. CASE UNCHANGED vars
  BY <1>8 DEF vars, journalVars
<1> QED BY <1>1, <1>2, <1>3, <1>4, <1>5, <1>6, <1>7, <1>8 DEF Next

\* A direct stop opens an anonymous turn like any other.
LEMMA AnonymousFacts ==
  ASSUME JournalTypeOK, TurnOpened(NoInput), inputStatus' = ClosedInputs
  PROVE  /\ openTurn' = lastTurn' /\ openTurn' # 0 /\ lastTurn' = lastTurn + 1
         /\ inputOf'[openTurn'] = NoInput
         /\ \A c \in Scopes : c # 0 /\ c <= lastTurn => inputOf'[c] = inputOf[c]
         /\ \A j \in Inputs : inputStatus'[j] = ClosedInputs[j]
<1>1. /\ openTurn' = lastTurn' /\ openTurn' # 0 /\ lastTurn' = lastTurn + 1
      /\ lastTurn + 1 \in Turns /\ lastTurn \in Nat
  BY ScopeFacts DEF JournalTypeOK, TurnOpened
<1>2. inputOf'[openTurn'] = NoInput
  BY <1>1 DEF JournalTypeOK, TurnOpened
<1>3. \A c \in Scopes : c # 0 /\ c <= lastTurn => inputOf'[c] = inputOf[c]
  BY <1>1 DEF JournalTypeOK, TurnOpened, Scopes, Turns
<1> QED BY <1>1, <1>2, <1>3

\* Who is in its turn after a step was in it, or enters it.
LEMMA InTurnBefore ==
  ASSUME TypeOK, [Next]_vars, NEW t \in Tasks, pc'[t] \in InTurn
  PROVE  /\ pc[t] \in InTurn \/ Enter(t)
         /\ input'[t] = input[t]
<1> USE TypeParts DEF TasksType
<1>1. ASSUME NEW u \in Tasks, NEW i \in Inputs \cup {NoInput}, NEW k \in Keys, Deliver(u, i, k)
      PROVE  pc[t] \in InTurn /\ input'[t] = input[t]
  BY <1>1 DEF Deliver, Goto, InTurn
<1>2. ASSUME NEW u \in Tasks, Step(u)
      PROVE  (pc[t] \in InTurn \/ Enter(t)) /\ input'[t] = input[t]
  <2>1. ~Ends(t)
    BY DEF Ends, Goto, InTurn
  <2> QED BY <1>2, <2>1, StepMoves
<1>3. ASSUME NEW mode \in {"hard", "when_idle"}, BusStop(mode) \/ DirectStop(mode)
      PROVE  UNCHANGED <<pc, input>>
  BY <1>3 DEF BusStop, DirectStop, KeepTurns
<1>4. CASE IdleStopInVain \/ StopEnds
  BY <1>4 DEF IdleStopInVain, StopEnds, KeepTurns
<1>5. CASE Crash
  BY <1>5 DEF Crash, InTurn
<1>6. CASE UNCHANGED vars
  BY <1>6 DEF vars, taskVars
<1> QED BY <1>1, <1>2, <1>3, <1>4, <1>5, <1>6 DEF Next

\* An open input stays the input of the open turn: both rows are written together.
LEMMA InputsStep ==
  ASSUME TypeOK, LockHeld, Orderly', InputsKept, [Next]_vars
  PROVE  InputsKept'
<1> USE TypeParts
<1>0. OwnOnly
  BY OwnBefore DEF Orderly, OwnOnly
<1>1. /\ \A i \in Inputs : inputStatus'[i] = "open" => openTurn' # 0 /\ inputOf'[openTurn'] = i
      /\ \A i \in Inputs : inputStatus[i] # "unseen" => inputStatus'[i] # "unseen"
  <2>1. CASE SameTurns
    BY <2>1 DEF SameTurns, InputsKept
  <2>2. ASSUME CommitTurn
        PROVE  <1>1!1 /\ <1>1!2
    BY <2>2, ClosedFacts DEF CommitTurn, InputsKept
  <2>3. ASSUME NEW i \in Inputs \cup {NoInput}, OpenTurn(i)
        PROVE  <1>1!1 /\ <1>1!2
    BY <2>3, ClosedFacts, OpenedFacts DEF InputsKept
  <2>4. ASSUME TurnOpened(NoInput), inputStatus' = ClosedInputs
        PROVE  <1>1!1 /\ <1>1!2
    BY <2>4, ClosedFacts, AnonymousFacts DEF InputsKept
  <2> QED BY <2>1, <2>2, <2>3, <2>4, TurnEffects DEF TasksType
<1>2. ASSUME NEW t \in Tasks, pc'[t] \in InTurn, input'[t] # NoInput
      PROVE  inputStatus'[input'[t]] # "unseen"
  <2>1. input'[t] = input[t] /\ input[t] \in Inputs
    BY <1>2, InTurnBefore DEF TasksType
  <2>2. CASE pc[t] \in InTurn
    BY <1>1, <1>2, <2>1, <2>2 DEF InputsKept
  <2>3. CASE Enter(t)
    <3>1. CASE OpenTurn(input[t])
      BY <2>1, <3>1, OpenedFacts
    <3>2. CASE ~OpensTurn(input[t])
      BY <1>1, <2>1, <3>2 DEF OpensTurn
    <3> QED BY <2>3, <3>1, <3>2 DEF Enter
  <2> QED BY <1>2, <2>2, <2>3, InTurnBefore
<1> QED BY <1>1, <1>2 DEF InputsKept

-----------------------------------------------------------------------------
(* The turn a message works in, under the same conditions.                 *)

\* A message that goes on in a turn, its own or another's, finds an open input
\* only as its own: it works where its input was recorded.
LEMMA EntersOwnTurn ==
  ASSUME TypeOK, InputsKept, NEW t \in Tasks, Enter(t)
  PROVE  openTurn' # 0 /\ inputOf'[openTurn'] = input[t]
<1> USE TypeParts DEF TasksType
<1>1. CASE OpenTurn(input[t])
  BY <1>1, OpenedFacts
<1>2. CASE ~OpensTurn(input[t]) /\ UNCHANGED journalVars
  <2>1. input[t] \in Inputs /\ inputStatus[input[t]] = "open"
    BY <1>2 DEF Enter, OpensTurn, Accepts, JournalTypeOK
  <2> QED BY <1>2, <2>1 DEF InputsKept, journalVars
<1> QED BY <1>1, <1>2 DEF Enter

\* A scope that has been opened keeps its input.
LEMMA InputOfKept ==
  ASSUME TypeOK, Orderly', [Next]_vars, NEW c \in Scopes, c # 0, c <= lastTurn
  PROVE  inputOf'[c] = inputOf[c]
<1> USE TypeParts
<1>1. CASE SameTurns
  BY <1>1 DEF SameTurns
<1>2. ASSUME CommitTurn
      PROVE  inputOf'[c] = inputOf[c]
  BY <1>2 DEF CommitTurn
<1>3. ASSUME NEW i \in Inputs \cup {NoInput}, OpenTurn(i)
      PROVE  inputOf'[c] = inputOf[c]
  BY <1>3, OpenedFacts
<1>4. ASSUME TurnOpened(NoInput), inputStatus' = ClosedInputs
      PROVE  inputOf'[c] = inputOf[c]
  BY <1>4, AnonymousFacts
<1> QED BY <1>1, <1>2, <1>3, <1>4, TurnEffects DEF TasksType

\* The open turn of whoever is in a turn is its own or an anonymous one.
LEMMA OpenTurnOf ==
  ASSUME TypeOK, LockHeld, Orderly', InputsKept, OwnTurn, [Next]_vars,
         NEW t \in Tasks, pc'[t] \in InTurn, openTurn' # 0
  PROVE  inputOf'[openTurn'] \in {input'[t], NoInput}
<1> USE TypeParts
<1>0. /\ OwnOnly
      /\ input'[t] = input[t]
      /\ pc[t] \in InTurn \/ Enter(t)
  BY OwnBefore, InTurnBefore DEF Orderly, OwnOnly
<1>1. CASE Enter(t)
  BY <1>0, <1>1, EntersOwnTurn
<1>2. CASE pc[t] \in InTurn /\ SameTurns
  BY <1>0, <1>2 DEF SameTurns, OwnTurn
<1>3. CASE \E u \in Tasks : Commit(u) /\ CommitTurn
  BY <1>3 DEF CommitTurn
<1>4. CASE pc[t] \in InTurn /\ \E u \in Tasks : Enter(u)
  BY <1>0, <1>4, NobodyEnters
<1>5. ASSUME TurnOpened(NoInput), inputStatus' = ClosedInputs
      PROVE  inputOf'[openTurn'] = NoInput
  BY <1>5, AnonymousFacts
<1>6. CASE IdleStopInVain /\ OpenTurn(NoInput)
  BY <1>6, OpenedFacts
<1> QED BY <1>0, <1>1, <1>2, <1>3, <1>4, <1>5, <1>6, TurnEffects

\* A task at work entered by this step or was at work, with the turns and the
\* stop as they were; a task out of its turn leaves both alone.
LEMMA WorkersStep ==
  ASSUME TypeOK, NEW t \in Tasks, Step(t)
  PROVE  /\ Working(t)' => \/ Enter(t)
                           \/ Working(t) /\ SameTurns /\ UNCHANGED <<stopMode, cancel>>
         /\ pc[t] \notin InTurn => \/ Enter(t)
                                   \/ SameTurns /\ UNCHANGED stopMode
<1> USE TypeParts DEF TasksType
<1>1. CASE Enter(t)
  BY <1>1
<1>2. CASE DropDuplicate(t)
  BY <1>2 DEF DropDuplicate, Ends, Goto, Working, SameTurns, journalVars
<1>3. CASE AnswerEarly(t) \/ LoopFails(t) \/ Commit(t)
  BY <1>3 DEF AnswerEarly, LoopFails, Commit, At, Ends, Goto, Working, InTurn
<1>4. CASE NoReply(t) \/ SaveLands(t) \/ HaltLoop(t) \/ Reply(t)
  BY <1>4 DEF NoReply, SaveLands, HaltLoop, Reply, At, Goto, Working, InTurn
<1>5. CASE StartLoop(t)
  BY <1>5 DEF StartLoop, ConsumeInterruptions, At, KeepTask, Working, InTurn, SameTurns, journalVars
<1>6. ASSUME NEW o \in Ops, StartTool(t, o)
      PROVE  pc[t] = "loop" /\ SameTurns /\ UNCHANGED <<stopMode, cancel>>
  BY <1>6 DEF StartTool, StartCall, At, KeepTask, SameTurns
<1>7. ASSUME NEW o \in Ops, RefuseTool(t, o)
      PROVE  pc[t] = "loop" /\ SameTurns /\ UNCHANGED <<stopMode, cancel>>
  BY <1>7 DEF RefuseTool, InterruptCall, At, taskVars, SameTurns
<1>8. ASSUME NEW s \in {"finished", "canceled"}, FinishTool(t, s)
      PROVE  pc[t] = "tool" /\ SameTurns /\ UNCHANGED <<stopMode, cancel>>
  BY <1>8 DEF FinishTool, FinishCall, At, KeepTask, SameTurns
<1>9. CASE Cancelled(t)
  BY <1>9 DEF Cancelled, Ends, Goto, Working, InTurn, SameTurns
<1> QED BY <1>1, <1>2, <1>3, <1>4, <1>5, <1>6, <1>7, <1>8, <1>9 DEF Step, Working, InTurn

\* A task that no stop has reached works in its own turn: the stop that opened an
\* anonymous one is on record, or has cancelled the task.
LEMMA WorksInOwn ==
  ASSUME TypeOK, LockHeld, Orderly', InputsKept, OwnTurn, [Next]_vars,
         NEW t \in Tasks, Working(t)', t \notin cancel', stopMode' = "none" \/ stopping'
  PROVE  openTurn' # 0 /\ inputOf'[openTurn'] = input'[t]
<1> USE TypeParts DEF TasksType
<1>0. /\ OwnOnly
      /\ input'[t] = input[t]
      /\ pc[t] \in InTurn \/ Enter(t)
  BY OwnBefore, InTurnBefore DEF Orderly, OwnOnly, Working, InTurn
<1>1. CASE /\ SameTurns /\ Working(t) /\ t \notin cancel
           /\ stopMode = "none" \/ stopping
  BY <1>0, <1>1 DEF SameTurns, OwnTurn
<1>2. ASSUME NEW u \in Tasks, NEW i \in Inputs \cup {NoInput}, NEW k \in Keys, Deliver(u, i, k)
      PROVE  <1>1!1
  BY <1>2 DEF Deliver, Goto, Working, SameTurns, journalVars
<1>3. ASSUME Step(t), ~Enter(t)
      PROVE  <1>1!1
  BY <1>3, WorkersStep, StepMoves
<1>4. ASSUME NEW u \in Tasks \ {t}, Step(u)
      PROVE  <1>1!1
  <2>1. pc[t] = pc'[t] /\ pc[t] \in InTurn
    BY <1>4, StepMoves DEF Working, InTurn
  <2>2. pc[u] \notin InTurn /\ ~Enter(u)
    BY <1>0, <1>4, <2>1, OneInTurn, NobodyEnters
  <2> QED BY <1>4, <2>1, <2>2, WorkersStep, StepMoves DEF Working
<1>5. ASSUME NEW mode \in {"hard", "when_idle"}, BusStop(mode) \/ DirectStop(mode)
      PROVE  FALSE
  <2>1. mode = "hard" /\ UNCHANGED pc
    BY <1>5 DEF BusStop, DirectStop, RequestStop, StopTasks, KeepTurns
  <2>2. t \in OwnTasks
    BY <1>0, <2>1 DEF OwnTasks, Active, OwnOnly, Working, InTurn
  <2> QED BY <1>5, <2>1, <2>2 DEF BusStop, DirectStop, StopTasks
<1>6. CASE IdleStopInVain
  BY <1>0, <1>6 DEF IdleStopInVain, OwnTasks, Active, OwnOnly, KeepTurns, Working, InTurn
<1>7. ASSUME StopEnds
      PROVE  <1>1!1
  BY <1>7 DEF StopEnds, Working, SameTurns
<1>8. CASE Crash
  BY <1>8 DEF Crash, Working
<1>9. ASSUME UNCHANGED vars
      PROVE  <1>1!1
  BY <1>9 DEF vars, journalVars, taskVars, Working, SameTurns
<1>10. CASE Enter(t)
  BY <1>0, <1>10, EntersOwnTurn
<1> QED BY <1>1, <1>2, <1>3, <1>4, <1>5, <1>6, <1>7, <1>8, <1>9, <1>10 DEF Next

\* A task that awaits a tool did so before, or starts it.
LEMMA ToolBefore ==
  ASSUME TypeOK, [Next]_vars, NEW t \in Tasks, pc'[t] = "tool"
  PROVE  \/ pc[t] = "tool" /\ call'[t] = call[t]
         \/ \E o \in Ops : StartTool(t, o)
<1> USE TypeParts DEF TasksType
<1>1. ASSUME NEW u \in Tasks, NEW i \in Inputs \cup {NoInput}, NEW k \in Keys, Deliver(u, i, k)
      PROVE  pc[t] = "tool" /\ call'[t] = call[t]
  BY <1>1 DEF Deliver, Goto
<1>2. ASSUME NEW u \in Tasks \ {t}, Step(u)
      PROVE  pc[t] = "tool" /\ call'[t] = call[t]
  BY <1>2, StepMoves
<1>3. ASSUME NEW o \in Ops, RefuseTool(t, o)
      PROVE  pc[t] = "tool" /\ call'[t] = call[t]
  BY <1>3 DEF RefuseTool, taskVars
<1>4. CASE DropDuplicate(t) \/ AnswerEarly(t) \/ LoopFails(t) \/ Commit(t) \/ Cancelled(t)
  BY <1>4 DEF DropDuplicate, AnswerEarly, LoopFails, Commit, Cancelled, Ends, Goto
<1>5. CASE NoReply(t) \/ SaveLands(t) \/ HaltLoop(t) \/ Reply(t) \/ StartLoop(t) \/ Enter(t)
  BY <1>5 DEF NoReply, SaveLands, HaltLoop, Reply, StartLoop, Enter, Goto
<1>6. ASSUME NEW s \in {"finished", "canceled"}, FinishTool(t, s)
      PROVE  FALSE
  BY <1>6 DEF FinishTool, Goto
<1>7. ASSUME Step(t)
      PROVE  \/ pc[t] = "tool" /\ call'[t] = call[t]
             \/ \E o \in Ops : StartTool(t, o)
  BY <1>3, <1>4, <1>5, <1>6, <1>7 DEF Step
<1>8. ASSUME NEW mode \in {"hard", "when_idle"}, BusStop(mode) \/ DirectStop(mode)
      PROVE  UNCHANGED <<pc, call>>
  BY <1>8 DEF BusStop, DirectStop, KeepTurns
<1>9. CASE IdleStopInVain \/ StopEnds
  BY <1>9 DEF IdleStopInVain, StopEnds, KeepTurns
<1>10. CASE Crash
  BY <1>10 DEF Crash
<1>11. CASE UNCHANGED vars
  BY <1>11 DEF vars, taskVars
<1> QED BY <1>1, <1>2, <1>7, <1>8, <1>9, <1>10, <1>11 DEF Next

\* A call is made in the scope that holds the caller's input.
LEMMA CallsInOwn ==
  ASSUME TypeOK, LockHeld, ScopesAreFresh, Orderly', OwnTurn, [Next]_vars,
         NEW t \in Tasks, pc'[t] = "tool"
  PROVE  call'[t][1] # 0 /\ inputOf'[call'[t][1]] = input'[t]
<1> USE TypeParts
<1>0. input'[t] = input[t]
  BY InTurnBefore DEF InTurn
<1>1. CASE pc[t] = "tool" /\ call'[t] = call[t]
  <2>1. /\ call[t][1] \in Scopes /\ call[t][1] <= lastTurn
        /\ call[t][1] # 0 /\ inputOf[call[t][1]] = input[t]
    BY <1>1 DEF ScopesAreFresh, OwnTurn
  <2> QED BY <1>0, <1>1, <2>1, InputOfKept
<1>2. ASSUME NEW o \in Ops, StartTool(t, o)
      PROVE  call'[t][1] # 0 /\ inputOf'[call'[t][1]] = input'[t]
  <2>1. openTurn # 0 /\ inputOf[openTurn] = input[t]
    BY <1>2 DEF StartTool, StartCall, At, OwnTurn, Working
  <2>2. call'[t][1] = openTurn /\ UNCHANGED inputOf
    BY <1>2 DEF StartTool, StartCall, TasksType
  <2> QED BY <1>0, <2>1, <2>2
<1> QED BY <1>1, <1>2, ToolBefore

\* Messages stay in their own turns.
LEMMA OwnTurnStep ==
  ASSUME TypeOK, LockHeld, ScopesAreFresh, Orderly', InputsKept, OwnTurn, [Next]_vars
  PROVE  OwnTurn'
BY OpenTurnOf, WorksInOwn, CallsInOwn DEF OwnTurn, Working

-----------------------------------------------------------------------------
(* Commits and saves, under the same conditions.                           *)

\* What is saved stays saved; who has landed had its input saved by then; and
\* only a task that commits adds to the committed inputs.
LEMMA SavesStep ==
  ASSUME TypeOK, [Next]_vars
  PROVE  /\ saved \subseteq saved'
         /\ \A t \in Tasks : pc'[t] = "landed" =>
              \/ pc[t] = "landed"
              \/ input[t] # NoInput => input[t] \in saved'
         /\ \/ UNCHANGED committed
            \/ \E t \in Tasks : Commit(t) /\ committed' = Inp(committed, t)
<1> USE TypeParts DEF TasksType
<1> DEFINE Landed(t) == pc'[t] = "landed" =>
                          \/ pc[t] = "landed"
                          \/ input[t] # NoInput => input[t] \in saved'
<1>1. ASSUME NEW t \in Tasks, NEW i \in Inputs \cup {NoInput}, NEW k \in Keys, Deliver(t, i, k)
      PROVE  UNCHANGED <<saved, committed>> /\ \A u \in Tasks : Landed(u)
  BY <1>1 DEF Deliver, Goto, ghosts
<1>2. ASSUME NEW t \in Tasks, Step(t)
      PROVE  /\ saved \subseteq saved' /\ \A u \in Tasks : Landed(u)
             /\ \/ UNCHANGED committed
                \/ Commit(t) /\ committed' = Inp(committed, t)
  <2>1. \A u \in Tasks \ {t} : Landed(u)
    BY <1>2, StepMoves
  <2>2. CASE NoReply(t) \/ SaveLands(t)
    BY <2>1, <2>2 DEF NoReply, SaveLands, Inp
  <2>3. CASE Commit(t)
    BY <2>1, <2>3 DEF Commit, Ends, Goto
  <2>4. CASE Cancelled(t)
    BY <2>1, <2>4 DEF Cancelled, Ends, Goto, Inp
  <2>5. CASE DropDuplicate(t) \/ AnswerEarly(t) \/ LoopFails(t) \/ HaltLoop(t) \/ Reply(t)
             \/ Enter(t) \/ StartLoop(t)
    BY <2>1, <2>5 DEF DropDuplicate, AnswerEarly, LoopFails, HaltLoop, Reply, Enter, StartLoop,
                      Ends, Goto, ghosts
  <2>6. ASSUME NEW o \in Ops, StartTool(t, o) \/ RefuseTool(t, o)
        PROVE  UNCHANGED <<saved, committed>> /\ Landed(t)
    BY <2>6 DEF StartTool, RefuseTool, Goto, ghosts, taskVars
  <2>7. ASSUME NEW s \in {"finished", "canceled"}, FinishTool(t, s)
        PROVE  UNCHANGED <<saved, committed>> /\ Landed(t)
    BY <2>7 DEF FinishTool, Goto, ghosts
  <2> QED BY <1>2, <2>1, <2>2, <2>3, <2>4, <2>5, <2>6, <2>7 DEF Step
<1>3. ASSUME NEW mode \in {"hard", "when_idle"}, BusStop(mode) \/ DirectStop(mode)
      PROVE  UNCHANGED <<saved, committed, pc>>
  BY <1>3 DEF BusStop, DirectStop, KeepTurns
<1>4. CASE IdleStopInVain \/ StopEnds
  BY <1>4 DEF IdleStopInVain, StopEnds, KeepTurns
<1>5. CASE Crash
  BY <1>5 DEF Crash
<1>6. CASE UNCHANGED vars
  BY <1>6 DEF vars, taskVars, ghosts
<1> QED BY <1>1, <1>2, <1>3, <1>4, <1>5, <1>6 DEF Next

\* A done input stays done.
LEMMA DoneStays ==
  ASSUME TypeOK, Orderly', InputsKept, [Next]_vars, NEW i \in Inputs, inputStatus[i] = "done"
  PROVE  inputStatus'[i] = "done"
<1> USE TypeParts
<1>0. ClosedInputs[i] = "done"
  BY ClosedFacts DEF InputsKept
<1>1. CASE SameTurns
  BY <1>1 DEF SameTurns
<1>2. ASSUME CommitTurn
      PROVE  inputStatus'[i] = "done"
  BY <1>0, <1>2 DEF CommitTurn
<1>3. ASSUME NEW j \in Inputs \cup {NoInput}, OpenTurn(j)
      PROVE  inputStatus'[i] = "done"
  <2>1. i # j
    BY <1>3 DEF OpenTurn, OpensTurn
  <2> QED BY <1>0, <1>3, <2>1, OpenedFacts
<1>4. CASE inputStatus' = ClosedInputs
  BY <1>0, <1>4
<1> QED BY <1>1, <1>2, <1>3, <1>4, TurnEffects DEF TasksType

\* The newest turn's input is closed by its own task, which has landed.
LEMMA ClosedIsSaved ==
  ASSUME TypeOK, Orderly', InputsKept, OwnTurn, SavedFirst, [Next]_vars, NEW i \in Inputs,
         lastTurn' # 0, inputOf'[lastTurn'] = i, inputStatus'[i] = "done"
  PROVE  i \in saved'
<1> USE TypeParts, InputAssumption, TurnAssumption
<1>0. saved \subseteq saved'
  BY SavesStep
<1>1. CASE SameTurns
  BY <1>0, <1>1 DEF SameTurns, SavedFirst
<1>2. ASSUME NEW t \in Tasks, Commit(t), CommitTurn
      PROVE  i \in saved'
  <2>1. /\ UNCHANGED <<lastTurn, inputOf>> /\ inputStatus' = ClosedInputs
        /\ openTurn # 0 /\ pc[t] = "landed"
    BY <1>2 DEF CommitTurn, Commit, At
  <2>2. CASE inputStatus[i] = "done"
    BY <1>0, <2>1, <2>2 DEF SavedFirst
  <2>3. CASE inputOf[openTurn] = i
    BY <1>0, <2>1, <2>3 DEF OwnTurn, SavedFirst, InTurn
  <2> QED BY <2>1, <2>2, <2>3, ClosedFacts DEF InputsKept
<1>3. ASSUME NEW j \in Inputs \cup {NoInput}, OpenTurn(j)
      PROVE  FALSE
  BY <1>3, OpenedFacts
<1>4. ASSUME TurnOpened(NoInput), inputStatus' = ClosedInputs
      PROVE  FALSE
  BY <1>4, AnonymousFacts
<1> QED BY <1>1, <1>2, <1>3, <1>4, TurnEffects DEF TasksType

\* Whose task went through commit_turn is done.
LEMMA CommittedIsDone ==
  ASSUME TypeOK, Orderly', InputsKept, SavedFirst, [Next]_vars, NEW i \in Inputs, i \in committed'
  PROVE  inputStatus'[i] = "done"
<1> USE TypeParts, InputAssumption, TurnAssumption
<1>1. CASE i \in committed
  BY <1>1, DoneStays DEF SavedFirst
<1>2. CASE i \notin committed
  <2>1. PICK t \in Tasks : Commit(t) /\ input[t] = i
    BY <1>2, SavesStep DEF Inp
  <2>2. inputStatus[i] \in {"open", "done"}
    BY <2>1 DEF Commit, At, InputsKept, InTurn, JournalTypeOK
  <2>3. CASE inputStatus[i] = "done"
    BY <2>3, DoneStays
  <2>4. CASE inputStatus[i] = "open"
    <3>1. openTurn # 0 /\ inputOf[openTurn] = i
      BY <2>4 DEF InputsKept
    <3> QED BY <2>1, <3>1 DEF Commit, CommitTurn, ClosedInputs
  <2> QED BY <2>2, <2>3, <2>4
<1> QED BY <1>1, <1>2

\* Commits follow saves.
LEMMA SavedFirstStep ==
  ASSUME TypeOK, Orderly', InputsKept, OwnTurn, SavedFirst, [Next]_vars
  PROVE  SavedFirst'
<1>1. \A t \in Tasks : pc'[t] = "landed" /\ input'[t] # NoInput => input'[t] \in saved'
  BY SavesStep, InTurnBefore DEF SavedFirst, InTurn
<1> QED BY <1>1, ClosedIsSaved, CommittedIsDone DEF SavedFirst

-----------------------------------------------------------------------------
(* The invariant.                                                          *)

LEMMA InitInv == Init => IInv
<1> SUFFICES ASSUME Init
             PROVE  IInv
  OBVIOUS
<1>1. TypeOK
  <2>1. JournalTypeOK
    BY InputAssumption, TurnAssumption DEF Init, JournalInit, JournalTypeOK, Scopes, Turns, StopModes, OpStatus
  <2>2. TasksType
    BY KeyAssumption DEF Init, TasksType
  <2> QED BY <2>1, <2>2, TypeParts
<1>2. LockHeld /\ ScopesAreFresh /\ OpenIsRunning
  BY ScopeFacts, TypeParts, <1>1
     DEF Init, JournalInit, LockHeld, ScopesAreFresh, OpenIsRunning, InTurn
<1>3. InputsKept /\ OwnTurn /\ SavedFirst
  BY DEF Init, JournalInit, InputsKept, OwnTurn, SavedFirst, Working, InTurn
<1> QED BY <1>1, <1>2, <1>3 DEF IInv

\* Once a row was torn or another key routed here, neither is ever undone; so what
\* is promised of an orderly journal held before the step.
LEMMA StepInv == IInv /\ [Next]_vars => IInv'
<1> SUFFICES ASSUME IInv, [Next]_vars
             PROVE  IInv'
  OBVIOUS
<1>1. TypeOK' /\ LockHeld' /\ ScopesAreFresh' /\ OpenIsRunning'
  BY TypeStep, LockStep, ScopesStep, OpenStep DEF IInv
<1>2. ASSUME Orderly'
      PROVE  InputsKept' /\ OwnTurn' /\ SavedFirst'
  BY <1>2, OwnBefore, InputsStep, OwnTurnStep, SavedFirstStep DEF IInv
<1> QED BY <1>1, <1>2 DEF IInv

LEMMA Invariant == Spec => []IInv
BY InitInv, StepInv, PTL DEF Spec

-----------------------------------------------------------------------------
(* The theorems.                                                           *)

\* Every state _process_message, _run_agent_loop and the stop handlers reach has
\* its types: no turn is opened past the bound, no call awaited in a scope that
\* does not exist.
THEOREM TurnsType == Spec => []TypeOK
<1>1. IInv => TypeOK
  BY DEF IInv
<1> QED BY <1>1, Invariant, PTL

\* A loop that is at work has told the provider of every call a crash or an
\* earlier task of its scope left open (consume_interruptions before the loop):
\* what is on record as open there is running.
THEOREM NothingIsLeftOpen == Spec => []NothingLeftOpen
<1>1. IInv => NothingLeftOpen
  BY DEF IInv, OpenIsRunning, NothingLeftOpen, OwnOnly
<1> QED BY <1>1, Invariant, PTL

\* accept_input lets a redelivery go on in its own turn and no other, and a tool
\* call is recorded in the turn of the message that asked for it, whatever stops
\* open anonymous turns meanwhile and wherever crashes end the process.
THEOREM StaysInTurn == Spec => []StaysInOwnTurn
<1>1. IInv => StaysInOwnTurn
  BY DEF IInv, InputsKept, OwnTurn, StaysInOwnTurn
<1> QED BY <1>1, Invariant, PTL

\* The task that commits the newest turn's input has saved it (commit_turn after
\* the awaited save), and no redelivery finds a committed input to do again.
THEOREM CommitAfterSave == Spec => []CommitFollowsSave
<1>1. IInv => CommitFollowsSave
  BY DEF IInv, SavedFirst, CommitFollowsSave
<1> QED BY <1>1, Invariant, PTL
-----------------------------------------------------------------------------
(* The journal by itself, over the same variables.                         *)

\* What the row of an operation says about its past.
RowTellsRuns ==
  \A t \in Scopes, o \in Ops :
    /\ runs[t][o] <= 1
    /\ opStatus[t][o] \in {"none", "ready"} => runs[t][o] = 0
    /\ <<t, o>> \in calls => runs[t][o] = 1

\* No scope beyond the newest turn has rows.
FreshScope ==
  \A t \in Scopes, o \in Ops : t > lastTurn => opStatus[t][o] = "none"

JournalInv == JournalTypeOK /\ RowTellsRuns /\ FreshScope

-----------------------------------------------------------------------------
\* Initially nothing was opened, recorded or started.
LEMMA JournalInitType == JournalInit => JournalTypeOK
BY InputAssumption, TurnAssumption DEF JournalInit, JournalTypeOK, Turns, Scopes, StopModes, OpStatus

\* Writing one status of one operation keeps the type of the table, and sets
\* that entry only (mark).
LEMMA SetOpType ==
  ASSUME opStatus \in [Scopes -> [Ops -> OpStatus]],
         NEW t \in Scopes, NEW o \in Ops, NEW s \in OpStatus, SetOp(t, o, s)
  PROVE  /\ opStatus' \in [Scopes -> [Ops -> OpStatus]]
         /\ \A u \in Scopes, p \in Ops :
              opStatus'[u][p] = IF u = t /\ p = o THEN s ELSE opStatus[u][p]
BY DEF SetOp

\* Marking a set of operations of the current scope keeps the type of the
\* table, and sets those entries only (consume_interruptions, request_stop).
LEMMA MarkPendingType ==
  ASSUME opStatus \in [Scopes -> [Ops -> OpStatus]], openTurn \in Scopes,
         NEW S \in SUBSET Ops, NEW s \in OpStatus, MarkPending(S, s)
  PROVE  /\ opStatus' \in [Scopes -> [Ops -> OpStatus]]
         /\ \A u \in Scopes, p \in Ops :
              opStatus'[u][p] = IF u = openTurn /\ p \in S THEN s ELSE opStatus[u][p]
BY DEF MarkPending

\* The statuses after the open turn's input is marked done are statuses.
LEMMA ClosedInputsType ==
  ASSUME inputStatus \in [Inputs -> {"unseen", "open", "done"}]
  PROVE  ClosedInputs \in [Inputs -> {"unseen", "open", "done"}]
BY DEF ClosedInputs

\* Opening a turn keeps the types of what describes the turns.
LEMMA TurnOpenedType ==
  ASSUME JournalTypeOK, NEW i \in Inputs \cup {NoInput}, TurnOpened(i)
  PROVE  /\ lastTurn' \in Scopes
         /\ lastTurn' = lastTurn + 1
         /\ openTurn' = lastTurn'
         /\ inputOf' \in [Turns -> Inputs \cup {NoInput}]
BY InputAssumption, TurnAssumption DEF JournalTypeOK, TurnOpened, Scopes, Turns

\* Every call, every late answer and every crash keeps the types.
LEMMA JournalStepType == JournalTypeOK /\ [JournalNext]_journalVars => JournalTypeOK'
<1> SUFFICES ASSUME JournalTypeOK, [JournalNext]_journalVars PROVE JournalTypeOK'
  OBVIOUS
<1> USE DEF JournalTypeOK
<1>a. openTurn \in Scopes
  BY InputAssumption, TurnAssumption DEF Scopes
<1>b. Pending \in SUBSET Ops
  BY DEF Pending
<1>1. ASSUME NEW i \in Inputs \cup {NoInput}, OpenTurn(i) PROVE JournalTypeOK'
  <2>1. inputStatus' \in [Inputs -> {"unseen", "open", "done"}]
    BY <1>1, ClosedInputsType DEF OpenTurn
  <2> QED
    BY <1>1, <2>1, TurnOpenedType DEF OpenTurn
<1>2. CASE CommitTurn
  BY <1>2, ClosedInputsType DEF CommitTurn
<1>3. ASSUME NEW t \in Scopes, NEW o \in Ops, StartCall(t, o) PROVE JournalTypeOK'
  <2>1. opStatus' \in [Scopes -> [Ops -> OpStatus]]
    BY <1>3, SetOpType DEF StartCall, OpStatus, OpenStatus
  <2>2. runs' \in [Scopes -> [Ops -> Nat]]
    BY <1>3 DEF StartCall
  <2>3. calls' \subseteq Scopes \X Ops
    BY <1>3 DEF StartCall
  <2> QED
    BY <1>3, <2>1, <2>2, <2>3 DEF StartCall
<1>4. ASSUME NEW t \in Scopes, NEW o \in Ops, InterruptCall(t, o) PROVE JournalTypeOK'
  <2>1. opStatus' \in [Scopes -> [Ops -> OpStatus]]
    BY <1>4, SetOpType DEF InterruptCall, OpStatus, SettledStatus
  <2> QED
    BY <1>4, <2>1 DEF InterruptCall
<1>5. ASSUME NEW t \in Scopes, NEW o \in Ops, NEW s \in {"finished", "canceled"},
             FinishCall(t, o, s)
      PROVE JournalTypeOK'
  <2>1. opStatus' \in [Scopes -> [Ops -> OpStatus]]
    BY <1>5, SetOpType DEF FinishCall, OpStatus, SettledStatus
  <2> QED
    BY <1>5, <2>1 DEF FinishCall
<1>6. CASE ConsumeInterruptions
  <2>1. opStatus' \in [Scopes -> [Ops -> OpStatus]]
    BY <1>6, <1>a, <1>b, MarkPendingType DEF ConsumeInterruptions, OpStatus, SettledStatus
  <2> QED
    BY <1>6, <2>1 DEF ConsumeInterruptions
<1>7. ASSUME NEW mode \in StopModes \ {"none"}, RequestStop(mode) PROVE JournalTypeOK'
  <2>1. opStatus' \in [Scopes -> [Ops -> OpStatus]]
    BY <1>7, <1>a, <1>b, MarkPendingType DEF RequestStop, OpStatus, SettledStatus
  <2> QED
    BY <1>7, <2>1 DEF RequestStop
<1>8. CASE ClearStop
  BY <1>8 DEF ClearStop, StopModes
<1>9. CASE JournalCrash \/ CrashInClose
  BY <1>9, <1>a, InputAssumption, TurnAssumption DEF JournalCrash, CrashInClose, Lost
<1>10. ASSUME NEW i \in Inputs \cup {NoInput}, CrashBeforeOpen(i) PROVE JournalTypeOK'
  BY <1>10, ClosedInputsType DEF CrashBeforeOpen, Lost
<1>11. ASSUME NEW i \in Inputs \cup {NoInput}, CrashAfterOpen(i) PROVE JournalTypeOK'
  BY <1>11, ClosedInputsType, TurnOpenedType DEF CrashAfterOpen, Lost
<1>12. ASSUME NEW t \in Scopes, NEW o \in Ops, CrashInClaim(t, o) PROVE JournalTypeOK'
  <2>1. PICK s \in OpenStatus : SetOp(t, o, s)
    BY <1>12 DEF CrashInClaim
  <2>2. opStatus' \in [Scopes -> [Ops -> OpStatus]]
    BY <2>1, SetOpType DEF OpStatus
  <2> QED
    BY <1>12, <2>2 DEF CrashInClaim
<1>13. CASE CrashInConsume
  <2>1. PICK S \in SUBSET Pending : MarkPending(S, "interrupted")
    BY <1>13 DEF CrashInConsume
  <2>2. opStatus' \in [Scopes -> [Ops -> OpStatus]]
    BY <2>1, <1>a, <1>b, MarkPendingType DEF OpStatus, SettledStatus
  <2> QED
    BY <1>13, <2>2 DEF CrashInConsume
<1>14. CASE CrashInStop
  <2>1. PICK S \in SUBSET Pending : MarkPending(S, "canceled")
    BY <1>14 DEF CrashInStop
  <2>2. opStatus' \in [Scopes -> [Ops -> OpStatus]]
    BY <2>1, <1>a, <1>b, MarkPendingType DEF OpStatus, SettledStatus
  <2> QED
    BY <1>14, <2>2 DEF CrashInStop, StopModes
<1>15. CASE UNCHANGED journalVars
  BY <1>15 DEF journalVars
<1> QED
  BY <1>1, <1>2, <1>3, <1>4, <1>5, <1>6, <1>7, <1>8, <1>9, <1>10, <1>11, <1>12,
     <1>13, <1>14, <1>15 DEF JournalNext, Crashes

\* Each fold of the log keeps its type over every call and every crash, and
\* the open turn is always the newest one.
THEOREM JournalType == JournalSpec => []JournalTypeOK
<1>1. JournalInit => JournalTypeOK
  BY JournalInitType
<1>2. JournalTypeOK /\ [JournalNext]_journalVars => JournalTypeOK'
  BY JournalStepType
<1> QED
  BY <1>1, <1>2, PTL DEF JournalSpec

-----------------------------------------------------------------------------
(* What one step may do to one operation. *)

SameRun(t, o) ==
  /\ runs'[t][o] = runs[t][o]
  /\ <<t, o>> \in calls' => <<t, o>> \in calls

\* Nothing happens to it, or it is recorded and perhaps started, or an
\* operation that is open or running is settled.
RowStep(t, o) ==
  \/ /\ opStatus'[t][o] = opStatus[t][o]
     /\ SameRun(t, o)
  \/ /\ opStatus[t][o] = "none"
     /\ t <= lastTurn
     /\ opStatus'[t][o] \in OpenStatus
     /\ \/ SameRun(t, o)
        \/ opStatus'[t][o] = "awaiting" /\ runs'[t][o] = runs[t][o] + 1
  \/ /\ opStatus[t][o] \in OpenStatus \/ <<t, o>> \in calls
     /\ opStatus'[t][o] \in SettledStatus
     /\ SameRun(t, o)

\* The calls of the journal and the crashes, one by one, do no more.
LEMMA StepRows ==
  JournalTypeOK /\ [JournalNext]_journalVars => \A t \in Scopes, o \in Ops : RowStep(t, o)
<1> SUFFICES ASSUME JournalTypeOK, [JournalNext]_journalVars, NEW u \in Scopes, NEW p \in Ops
             PROVE  RowStep(u, p)
  OBVIOUS
<1> USE DEF RowStep, SameRun
<1>a. /\ opStatus \in [Scopes -> [Ops -> OpStatus]]
      /\ runs \in [Scopes -> [Ops -> Nat]]
      /\ openTurn \in Scopes
  BY InputAssumption, TurnAssumption DEF JournalTypeOK, Scopes
<1>1. CASE UNCHANGED <<opStatus, calls, runs>>
  BY <1>1
<1>2. CASE UNCHANGED <<opStatus, runs>> /\ calls' = {}
  BY <1>2
<1>3. ASSUME NEW t \in Scopes, NEW o \in Ops, StartCall(t, o) PROVE RowStep(u, p)
  <2>1. opStatus'[u][p] = IF u = t /\ p = o THEN "awaiting" ELSE opStatus[u][p]
    BY <1>3, <1>a, SetOpType DEF StartCall, OpStatus, OpenStatus
  <2>2. runs'[u][p] = IF u = t /\ p = o THEN runs[u][p] + 1 ELSE runs[u][p]
    BY <1>3, <1>a DEF StartCall
  <2>3. <<u, p>> \in calls' => <<u, p>> \in calls \/ (u = t /\ p = o)
    BY <1>3 DEF StartCall
  <2>4. CASE u = t /\ p = o
    BY <2>1, <2>2, <2>4, <1>3 DEF StartCall, OpenStatus
  <2>5. CASE ~(u = t /\ p = o)
    BY <2>1, <2>2, <2>3, <2>5
  <2> QED
    BY <2>4, <2>5
<1>4. ASSUME NEW t \in Scopes, NEW o \in Ops, InterruptCall(t, o) PROVE RowStep(u, p)
  <2>1. opStatus'[u][p] = IF u = t /\ p = o THEN "interrupted" ELSE opStatus[u][p]
    BY <1>4, <1>a, SetOpType DEF InterruptCall, OpStatus, SettledStatus
  <2> QED
    BY <2>1, <1>4 DEF InterruptCall, SettledStatus
<1>5. ASSUME NEW t \in Scopes, NEW o \in Ops, NEW s \in {"finished", "canceled"},
             FinishCall(t, o, s)
      PROVE RowStep(u, p)
  <2>1. opStatus'[u][p] = IF u = t /\ p = o THEN s ELSE opStatus[u][p]
    BY <1>5, <1>a, SetOpType DEF FinishCall, OpStatus, SettledStatus
  <2> QED
    BY <2>1, <1>5 DEF FinishCall, SettledStatus
<1>6. CASE ConsumeInterruptions
  <2>1. opStatus'[u][p] = IF u = openTurn /\ p \in Pending
                          THEN "interrupted" ELSE opStatus[u][p]
    BY <1>6, <1>a DEF ConsumeInterruptions, MarkPending
  <2> QED
    BY <2>1, <1>6 DEF ConsumeInterruptions, Pending, SettledStatus
<1>7. ASSUME NEW mode \in StopModes \ {"none"}, RequestStop(mode) PROVE RowStep(u, p)
  <2>1. CASE mode = "hard"
    <3>1. opStatus'[u][p] = IF u = openTurn /\ p \in Pending
                            THEN "canceled" ELSE opStatus[u][p]
      BY <1>7, <2>1, <1>a DEF RequestStop, MarkPending
    <3> QED
      BY <3>1, <1>7 DEF RequestStop, Pending, SettledStatus
  <2>2. CASE mode # "hard"
    BY <1>7, <2>2, <1>1 DEF RequestStop
  <2> QED
    BY <2>1, <2>2
<1>8. ASSUME NEW t \in Scopes, NEW o \in Ops, CrashInClaim(t, o) PROVE RowStep(u, p)
  <2>1. PICK s \in OpenStatus : SetOp(t, o, s)
    BY <1>8 DEF CrashInClaim
  <2>2. opStatus'[u][p] = IF u = t /\ p = o THEN s ELSE opStatus[u][p]
    BY <2>1, <1>a DEF SetOp
  <2> QED
    BY <2>2, <1>8 DEF CrashInClaim
<1>9. ASSUME CrashInConsume PROVE RowStep(u, p)
  <2>1. PICK S \in SUBSET Pending : MarkPending(S, "interrupted")
    BY <1>9 DEF CrashInConsume
  <2>2. opStatus'[u][p] = IF u = openTurn /\ p \in S
                          THEN "interrupted" ELSE opStatus[u][p]
    BY <2>1, <1>a DEF MarkPending
  <2> QED
    BY <2>2, <1>9 DEF CrashInConsume, Pending, SettledStatus
<1>10. ASSUME CrashInStop PROVE RowStep(u, p)
  <2>1. PICK S \in SUBSET Pending : MarkPending(S, "canceled")
    BY <1>10 DEF CrashInStop
  <2>2. opStatus'[u][p] = IF u = openTurn /\ p \in S
                          THEN "canceled" ELSE opStatus[u][p]
    BY <2>1, <1>a DEF MarkPending
  <2> QED
    BY <2>2, <1>10 DEF CrashInStop, Pending, SettledStatus
<1>11. ASSUME NEW i \in Inputs \cup {NoInput}, OpenTurn(i) PROVE RowStep(u, p)
  BY <1>11, <1>1 DEF OpenTurn
<1>12. CASE CommitTurn \/ ClearStop
  BY <1>12, <1>1 DEF CommitTurn, ClearStop
<1>13. CASE JournalCrash \/ CrashInClose
  BY <1>13, <1>2 DEF JournalCrash, CrashInClose, Lost
<1>14. ASSUME NEW i \in Inputs \cup {NoInput}, CrashBeforeOpen(i) \/ CrashAfterOpen(i)
       PROVE RowStep(u, p)
  BY <1>14, <1>2 DEF CrashBeforeOpen, CrashAfterOpen, Lost
<1>15. CASE UNCHANGED journalVars
  BY <1>15, <1>1 DEF journalVars
<1> QED
  BY <1>3, <1>4, <1>5, <1>6, <1>7, <1>8, <1>9, <1>10, <1>11, <1>12, <1>13, <1>14,
     <1>15 DEF JournalNext, Crashes

\* What one step may do to the turns: a turn that becomes open is the next
\* one, and no operation is written in the same step.
LEMMA StepTurns ==
  JournalTypeOK /\ [JournalNext]_journalVars =>
    /\ lastTurn <= lastTurn'
    /\ openTurn' \in {0, openTurn} \/ (openTurn' = lastTurn + 1 /\ UNCHANGED opStatus)
<1> SUFFICES ASSUME JournalTypeOK, [JournalNext]_journalVars
             PROVE  /\ lastTurn <= lastTurn'
                    /\ \/ openTurn' \in {0, openTurn}
                       \/ openTurn' = lastTurn + 1 /\ UNCHANGED opStatus
  OBVIOUS
<1>a. lastTurn \in Nat
  BY InputAssumption, TurnAssumption DEF JournalTypeOK, Scopes
<1>1. CASE UNCHANGED <<lastTurn, openTurn>>
  BY <1>1, <1>a
<1>2. CASE lastTurn' = lastTurn /\ openTurn' = 0
  BY <1>2, <1>a
<1>3. ASSUME NEW i \in Inputs \cup {NoInput}, OpenTurn(i) \/ CrashAfterOpen(i)
      PROVE  lastTurn <= lastTurn' /\ openTurn' = lastTurn + 1 /\ UNCHANGED opStatus
  BY <1>3, <1>a DEF OpenTurn, CrashAfterOpen, TurnOpened, Lost
<1>4. CASE CommitTurn \/ CrashInClose
  BY <1>4, <1>2 DEF CommitTurn, CrashInClose
<1>5. ASSUME NEW i \in Inputs \cup {NoInput}, CrashBeforeOpen(i)
      PROVE  lastTurn' = lastTurn /\ openTurn' = 0
  BY <1>5 DEF CrashBeforeOpen
<1>6. ASSUME NEW t \in Scopes, NEW o \in Ops,
             \/ StartCall(t, o) \/ InterruptCall(t, o) \/ CrashInClaim(t, o)
             \/ \E s \in {"finished", "canceled"} : FinishCall(t, o, s)
      PROVE  UNCHANGED <<lastTurn, openTurn>>
  BY <1>6 DEF StartCall, InterruptCall, CrashInClaim, FinishCall
<1>7. CASE ConsumeInterruptions \/ ClearStop \/ JournalCrash \/ CrashInConsume \/ CrashInStop
  BY <1>7, <1>1 DEF ConsumeInterruptions, ClearStop, JournalCrash, CrashInConsume, CrashInStop
<1>8. ASSUME NEW mode \in StopModes \ {"none"}, RequestStop(mode)
      PROVE  UNCHANGED <<lastTurn, openTurn>>
  BY <1>8 DEF RequestStop
<1>9. CASE UNCHANGED journalVars
  BY <1>9, <1>1 DEF journalVars
<1> QED
  BY <1>1, <1>2, <1>3, <1>4, <1>5, <1>6, <1>7, <1>8, <1>9 DEF JournalNext, Crashes

\* What one step may do to an input: it never goes back.
LEMMA StepInputs ==
  JournalTypeOK /\ [JournalNext]_journalVars =>
    \A i \in Inputs : /\ inputStatus[i] = "done" => inputStatus'[i] = "done"
                      /\ inputStatus[i] = "open" => inputStatus'[i] # "unseen"
<1> SUFFICES ASSUME JournalTypeOK, [JournalNext]_journalVars, NEW j \in Inputs
             PROVE  /\ inputStatus[j] = "done" => inputStatus'[j] = "done"
                    /\ inputStatus[j] = "open" => inputStatus'[j] # "unseen"
  OBVIOUS
<1>a. inputStatus \in [Inputs -> {"unseen", "open", "done"}]
  BY DEF JournalTypeOK
<1>b. ClosedInputs[j] \in {"done", inputStatus[j]}
  BY DEF ClosedInputs
<1>1. CASE UNCHANGED inputStatus \/ inputStatus' = ClosedInputs
  BY <1>1, <1>b
<1>2. ASSUME NEW i \in Inputs \cup {NoInput}, OpenTurn(i)
      PROVE  /\ inputStatus[j] = "done" => inputStatus'[j] = "done"
             /\ inputStatus[j] = "open" => inputStatus'[j] # "unseen"
  <2>1. ClosedInputs \in [Inputs -> {"unseen", "open", "done"}]
    BY <1>a, ClosedInputsType
  <2>2. CASE i = j
    BY <1>2, <2>2, <2>1 DEF OpenTurn, OpensTurn
  <2>3. CASE i # j
    BY <1>2, <2>3, <2>1, <1>b DEF OpenTurn
  <2> QED
    BY <2>2, <2>3
<1>3. CASE CommitTurn \/ CrashInClose \/ ConsumeInterruptions \/ ClearStop \/ JournalCrash
           \/ CrashInConsume \/ CrashInStop
  BY <1>3, <1>1 DEF CommitTurn, CrashInClose, ConsumeInterruptions, ClearStop, JournalCrash,
     CrashInConsume, CrashInStop
<1>4. ASSUME NEW i \in Inputs \cup {NoInput}, CrashBeforeOpen(i) \/ CrashAfterOpen(i)
      PROVE  inputStatus' = ClosedInputs
  BY <1>4 DEF CrashBeforeOpen, CrashAfterOpen
<1>5. ASSUME NEW t \in Scopes, NEW o \in Ops,
             \/ StartCall(t, o) \/ InterruptCall(t, o) \/ CrashInClaim(t, o)
             \/ \E s \in {"finished", "canceled"} : FinishCall(t, o, s)
      PROVE  UNCHANGED inputStatus
  BY <1>5 DEF StartCall, InterruptCall, CrashInClaim, FinishCall
<1>6. ASSUME NEW mode \in StopModes \ {"none"}, RequestStop(mode)
      PROVE  UNCHANGED inputStatus
  BY <1>6 DEF RequestStop
<1>7. CASE UNCHANGED journalVars
  BY <1>7, <1>1 DEF journalVars
<1> QED
  BY <1>1, <1>2, <1>3, <1>4, <1>5, <1>6, <1>7 DEF JournalNext, Crashes

-----------------------------------------------------------------------------
(* The inductive invariant. *)

LEMMA JournalInvInit == JournalInit => JournalInv
<1> SUFFICES ASSUME JournalInit PROVE RowTellsRuns /\ FreshScope
  BY JournalInitType DEF JournalInv
<1> QED
  BY DEF JournalInit, RowTellsRuns, FreshScope

LEMMA JournalInvStep == JournalInv /\ [JournalNext]_journalVars => JournalInv'
<1> SUFFICES ASSUME JournalInv, [JournalNext]_journalVars PROVE JournalInv'
  OBVIOUS
<1>1. JournalTypeOK /\ JournalTypeOK'
  BY JournalStepType DEF JournalInv
<1>2. RowTellsRuns'
  <2> SUFFICES ASSUME NEW t \in Scopes, NEW o \in Ops
               PROVE  /\ runs'[t][o] <= 1
                      /\ opStatus'[t][o] \in {"none", "ready"} => runs'[t][o] = 0
                      /\ <<t, o>> \in calls' => runs'[t][o] = 1
    BY DEF RowTellsRuns
  <2>1. RowStep(t, o)
    BY <1>1, StepRows
  <2>2. /\ runs[t][o] <= 1
        /\ opStatus[t][o] \in {"none", "ready"} => runs[t][o] = 0
        /\ <<t, o>> \in calls => runs[t][o] = 1
    BY DEF JournalInv, RowTellsRuns
  <2>3. runs[t][o] \in Nat /\ runs'[t][o] \in Nat
    BY <1>1 DEF JournalTypeOK
  <2> QED
    BY <2>1, <2>2, <2>3 DEF RowStep, SameRun, OpenStatus, SettledStatus
<1>3. FreshScope'
  <2> SUFFICES ASSUME NEW t \in Scopes, NEW o \in Ops, t > lastTurn'
               PROVE  opStatus'[t][o] = "none"
    BY DEF FreshScope
  <2>1. t \in Nat /\ lastTurn \in Nat /\ lastTurn' \in Nat
    BY <1>1, InputAssumption, TurnAssumption DEF JournalTypeOK, Scopes
  <2>2. t > lastTurn /\ opStatus[t][o] = "none"
    BY <1>1, <2>1, StepTurns DEF JournalInv, FreshScope
  <2>3. <<t, o>> \notin calls
    BY <2>2 DEF JournalInv, RowTellsRuns
  <2> QED
    BY <1>1, <2>1, <2>2, <2>3, StepRows DEF RowStep, OpenStatus
<1> QED
  BY <1>1, <1>2, <1>3 DEF JournalInv

\* The history and the log agree, and no scope is written before its turn.
THEOREM JournalInvariant == JournalSpec => []JournalInv
BY JournalInvInit, JournalInvStep, PTL DEF JournalSpec

\* The journal's first promise: an operation id is started at most once in its
\* turn scope, over any number of crashes, redeliveries, stops and late calls.
THEOREM StartedAtMostOnce == JournalSpec => []AtMostOnce
<1>1. JournalInv => AtMostOnce
  BY DEF JournalInv, RowTellsRuns, AtMostOnce
<1> QED
  BY <1>1, JournalInvariant, PTL

\* Whatever was started is on record as started or settled.
THEOREM RecordedFirst == JournalSpec => []RecordedBeforeIO
<1>1. ASSUME JournalInv PROVE RecordedBeforeIO
  <2> SUFFICES ASSUME NEW t \in Scopes, NEW o \in Ops, runs[t][o] > 0
               PROVE  opStatus[t][o] \in {"awaiting"} \cup SettledStatus
    BY <1>1, Zenon DEF RecordedBeforeIO, JournalInv, RowTellsRuns
  <2>1. opStatus[t][o] \in OpStatus
    BY <1>1 DEF JournalInv, JournalTypeOK
  <2>2. opStatus[t][o] \in {"none", "ready"} => runs[t][o] = 0
    BY <1>1, Zenon DEF JournalInv, RowTellsRuns
  <2>3. opStatus[t][o] \notin {"none", "ready"}
    BY <2>2
  <2> QED
    BY <2>1, <2>3 DEF OpStatus, OpenStatus
<1> QED
  BY <1>1, JournalInvariant, PTL

\* A turn that is opened finds no rows of its id.
THEOREM OpenedFresh == JournalSpec => TurnsStartFresh
<1>1. JournalInv /\ [JournalNext]_journalVars =>
        [openTurn' \notin {0, openTurn} =>
           \A o \in Ops : opStatus'[openTurn'][o] = "none"]_journalVars
  <2> SUFFICES ASSUME JournalInv, [JournalNext]_journalVars, openTurn' \notin {0, openTurn}, NEW o \in Ops
               PROVE  opStatus'[openTurn'][o] = "none"
    OBVIOUS
  <2>1. JournalTypeOK /\ JournalTypeOK'
    BY JournalStepType DEF JournalInv
  <2>2. openTurn' = lastTurn + 1 /\ opStatus' = opStatus
    BY <2>1, StepTurns
  <2>3. openTurn' \in Scopes /\ lastTurn \in Nat
    BY <2>1, InputAssumption, TurnAssumption DEF JournalTypeOK, Scopes
  <2> QED
    BY <2>2, <2>3 DEF JournalInv, FreshScope
<1> QED
  BY <1>1, JournalInvariant, PTL DEF JournalSpec, TurnsStartFresh

\* No input is forgotten and no duplicate revived.
THEOREM InputsAdvance == JournalSpec => InputsOnlyAdvance
<1>1. JournalTypeOK /\ [JournalNext]_journalVars =>
        [\A i \in Inputs : /\ inputStatus[i] = "done" => inputStatus'[i] = "done"
                           /\ inputStatus[i] = "open" => inputStatus'[i] # "unseen"]_journalVars
  BY StepInputs
<1> QED
  BY <1>1, JournalType, PTL DEF JournalSpec, InputsOnlyAdvance

\* A settled operation is never open again.
THEOREM SettledForGood == JournalSpec => SettledStaysSettled
<1>1. JournalTypeOK /\ [JournalNext]_journalVars =>
        [\A t \in Scopes, o \in Ops :
           opStatus[t][o] \in SettledStatus => opStatus'[t][o] \in SettledStatus]_journalVars
  BY StepRows DEF RowStep, OpenStatus, SettledStatus
<1> QED
  BY <1>1, JournalType, PTL DEF JournalSpec, SettledStaysSettled

\* Neither is taken back.
THEOREM RecordsAdvance == JournalSpec => RecordsOnlyAdvance
  BY InputsAdvance, SettledForGood, PTL DEF RecordsOnlyAdvance
=============================================================================
