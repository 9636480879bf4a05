---------------------------- MODULE SessionTurns ----------------------------
(***************************************************************************)
(* The turns of one session, from a delivered message to the committed     *)
(* turn (agent/loop.py: _dispatch, _process_message, _run_agent_loop,      *)
(* _handle_stop), over the session's turn journal (TurnJournal).           *)
(*                                                                         *)
(* Each message is a task; between two awaits a task runs alone, so a step *)
(* of this module is what the code does from one await to the next.  A     *)
(* message waits for the lock of the key it ARRIVED under, which is not    *)
(* always the key of the session it is routed to: Keys has more than one   *)
(* element when other keys are routed to this session.  How the lock of a  *)
(* key works is the business of SessionLocks; here it is held or free.     *)
(***************************************************************************)
EXTENDS TurnJournal, FiniteSets

CONSTANTS
  Tasks,         \* deliveries; a redelivery is another task with the same input
  Keys, Own,     \* the keys messages arrive under, and the session's own
  Nobody,        \* no task holds the lock
  MaxRouted,     \* bound on messages of other keys
  MaxCrashes,    \* bound on crashes
  MaxStops       \* bound on stop commands

ASSUME KeyAssumption == Own \in Keys /\ Nobody \notin Tasks

VARIABLES
  pc,            \* how far each task is
  key,           \* the key it arrived under
  input,         \* its input id
  call,          \* the <<scope, op>> it awaits while pc is "tool"
  holder,        \* who holds the lock of each key
  cancel,        \* tasks with a CancelledError on its way
  stopping,      \* is a hard stop waiting for the tasks it cancelled?
  saved,         \* inputs whose turn is in the session file
  committed,     \* inputs whose task went through commit_turn
  torn,          \* has a crash cut a journal call between two of its rows?
  crashes, stops

taskVars == <<pc, key, input, call, holder, cancel, stopping>>
ghosts == <<saved, committed, torn>>
bounds == <<crashes, stops>>
vars == <<journalVars, taskVars, ghosts, bounds>>

NoCall == <<0, "none">>
InTurn == {"accepted", "loop", "tool", "saving", "landed"}
Active(t) == pc[t] \in InTurn \cup {"waiting"}

\* Every variable has its type; only inputs with an id are remembered.
TypeOK ==
  /\ JournalTypeOK
  /\ pc \in [Tasks -> {"new", "waiting", "ended"} \cup InTurn]
  /\ key \in [Tasks -> Keys]
  /\ input \in [Tasks -> Inputs \cup {NoInput}]
  /\ call \in [Tasks -> {NoCall} \cup (Scopes \X Ops)]
  /\ holder \in [Keys -> Tasks \cup {Nobody}]
  /\ cancel \subseteq Tasks
  /\ stopping \in BOOLEAN
  /\ saved \cup committed \subseteq Inputs
  /\ torn \in BOOLEAN

Init ==
  /\ JournalInit
  /\ pc = [t \in Tasks |-> "new"]
  /\ key = [t \in Tasks |-> Own]
  /\ input = [t \in Tasks |-> NoInput]
  /\ call = [t \in Tasks |-> NoCall]
  /\ holder = [k \in Keys |-> Nobody]
  /\ cancel = {}
  /\ stopping = FALSE
  /\ saved = {} /\ committed = {}
  /\ torn = FALSE
  /\ crashes = 0 /\ stops = 0

-----------------------------------------------------------------------------
(* Small parts. *)

At(t, here) == pc[t] = here /\ t \notin cancel
Goto(t, there) == pc' = [pc EXCEPT ![t] = there]

\* The task ends and gives its lock back.
Ends(t) ==
  /\ Goto(t, "ended")
  /\ holder' = [k \in Keys |-> IF holder[k] = t THEN Nobody ELSE holder[k]]
  /\ cancel' = cancel \ {t}
  /\ UNCHANGED <<key, input, stopping>>

KeepTask == UNCHANGED <<key, input, holder, cancel, stopping>>

Inp(S, t) == IF input[t] = NoInput THEN S ELSE S \cup {input[t]}

\* The finally of _run_agent_loop: whatever stop is recorded is cleared.
StopCleared == stopMode' = "none"

-----------------------------------------------------------------------------
(* A message. *)

Deliver(t, i, k) ==
  /\ pc[t] = "new"
  /\ k # Own => Cardinality({u \in Tasks : key[u] # Own}) < MaxRouted
  /\ Goto(t, "waiting")
  /\ key' = [key EXCEPT ![t] = k]
  /\ input' = [input EXCEPT ![t] = i]
  /\ UNCHANGED <<journalVars, call, holder, cancel, stopping, ghosts, bounds>>

\* The lock is free: screen the input.
MayEnter(t) == At(t, "waiting") /\ holder[key[t]] = Nobody

DropDuplicate(t) ==
  /\ MayEnter(t)
  /\ ~Accepts(input[t])
  /\ Ends(t)
  /\ UNCHANGED <<journalVars, call, ghosts, bounds>>

Enter(t) ==
  /\ MayEnter(t)
  /\ Accepts(input[t])
  /\ IF OpensTurn(input[t]) THEN OpenTurn(input[t]) ELSE UNCHANGED journalVars
  /\ Goto(t, "accepted")
  /\ holder' = [holder EXCEPT ![key[t]] = t]
  /\ UNCHANGED <<key, input, call, cancel, stopping, ghosts, bounds>>

\* A command or a refusal answers before the loop and commits nothing.
AnswerEarly(t) ==
  /\ At(t, "accepted")
  /\ Ends(t)
  /\ UNCHANGED <<journalVars, call, ghosts, bounds>>

\* no_reply: the user entry is all there is to save.
NoReply(t) ==
  /\ At(t, "accepted")
  /\ Goto(t, "landed")
  /\ saved' = Inp(saved, t)
  /\ KeepTask
  /\ UNCHANGED <<journalVars, call, committed, torn, bounds>>

\* Mutant: nobody asks the journal for interrupted calls.
StartLoopUnaware(t) ==
  /\ At(t, "accepted")
  /\ Goto(t, "loop")
  /\ KeepTask
  /\ UNCHANGED <<journalVars, call, ghosts, bounds>>

\* The user entry is on disk: note the interrupted calls, start the loop.
StartLoop(t) ==
  /\ At(t, "accepted")
  /\ IF Pending # {} THEN ConsumeInterruptions ELSE UNCHANGED journalVars
  /\ Goto(t, "loop")
  /\ KeepTask
  /\ UNCHANGED <<call, ghosts, bounds>>

\* The provider asked for a tool: claim it in the scope open now and run it.
StartTool(t, o) ==
  /\ At(t, "loop")
  /\ StartCall(openTurn, o)
  /\ Goto(t, "tool")
  /\ call' = [call EXCEPT ![t] = <<openTurn, o>>]
  /\ KeepTask
  /\ UNCHANGED <<ghosts, bounds>>

\* The claim found the call unfinished; a settled one is answered from the
\* journal and changes nothing.
RefuseTool(t, o) ==
  /\ At(t, "loop")
  /\ InterruptCall(openTurn, o)
  /\ UNCHANGED <<taskVars, ghosts, bounds>>

FinishTool(t, s) ==
  /\ At(t, "tool")
  /\ FinishCall(call[t][1], call[t][2], s)
  /\ Goto(t, "loop")
  /\ call' = [call EXCEPT ![t] = NoCall]
  /\ KeepTask
  /\ UNCHANGED <<ghosts, bounds>>

\* The claim found a stop: the loop ends with the stop's text as its answer.
HaltLoop(t) ==
  /\ At(t, "loop")
  /\ stopMode # "none"
  /\ StopCleared
  /\ Goto(t, "saving")
  /\ KeepTask
  /\ UNCHANGED <<lastTurn, openTurn, inputOf, inputStatus, opStatus, calls, runs,
                 call, saved, committed, torn, bounds>>

\* The provider's final answer.
Reply(t) ==
  /\ At(t, "loop")
  /\ StopCleared
  /\ Goto(t, "saving")
  /\ KeepTask
  /\ UNCHANGED <<lastTurn, openTurn, inputOf, inputStatus, opStatus, calls, runs,
                 call, saved, committed, torn, bounds>>

\* An error in the loop, answered by _dispatch; nothing is committed.
LoopFails(t) ==
  /\ At(t, "loop")
  /\ StopCleared
  /\ Ends(t)
  /\ UNCHANGED <<lastTurn, openTurn, inputOf, inputStatus, opStatus, calls, runs,
                 call, saved, committed, torn, bounds>>

\* The session file is replaced; the task has not been resumed yet.
SaveLands(t) ==
  /\ At(t, "saving")
  /\ Goto(t, "landed")
  /\ saved' = Inp(saved, t)
  /\ KeepTask
  /\ UNCHANGED <<journalVars, call, committed, torn, bounds>>

\* Mutant: the turn is committed before its save is awaited.
CommitEarly(t) ==
  /\ At(t, "saving")
  /\ IF openTurn # 0 THEN CommitTurn ELSE UNCHANGED journalVars
  /\ committed' = Inp(committed, t)
  /\ Ends(t)
  /\ UNCHANGED <<call, saved, torn, bounds>>

\* commit_turn closes whatever turn is open now.
Commit(t) ==
  /\ At(t, "landed")
  /\ IF openTurn # 0 THEN CommitTurn ELSE UNCHANGED journalVars
  /\ committed' = Inp(committed, t)
  /\ Ends(t)
  /\ UNCHANGED <<call, saved, torn, bounds>>

-----------------------------------------------------------------------------
(* Stops. *)

MoreStops == stops < MaxStops /\ ~stopping /\ stops' = stops + 1 /\ UNCHANGED crashes
OwnTasks == {t \in Tasks : Active(t) /\ key[t] = Own}

\* A hard stop cancels the tasks registered under the session's own key.  An
\* idle one only leaves its mark; background workers may be what it is for, so
\* it need not find a task.
StopTasks(mode) ==
  /\ cancel' = IF mode = "hard" THEN cancel \cup OwnTasks ELSE cancel
  /\ stopping' = (mode = "hard")

KeepTurns == UNCHANGED <<pc, key, input, call, holder, saved, committed, torn>>

\* /stop or /stop idle from a channel: run() handles it.
BusStop(mode) ==
  /\ MoreStops
  /\ RequestStop(mode)
  /\ StopTasks(mode)
  /\ KeepTurns

\* The same from process_direct, which screens the command as an input first:
\* an anonymous turn replaces the running one before the stop is recorded.
DirectStop(mode) ==
  /\ MoreStops
  /\ TurnOpened(NoInput)
  /\ inputStatus' = ClosedInputs
  /\ stopMode' = mode
  /\ StopTasks(mode)
  /\ UNCHANGED <<opStatus, calls, runs>>
  /\ KeepTurns

\* Mutant: the running task is overlooked.
IdleStopInVainAlways ==
  /\ MoreStops
  /\ OpenTurn(NoInput)
  /\ KeepTurns
  /\ UNCHANGED <<cancel, stopping>>

\* "No active scent to stop": a direct idle stop that finds nothing running
\* has opened its anonymous turn all the same.
IdleStopInVain ==
  /\ MoreStops
  /\ OwnTasks = {}
  /\ OpenTurn(NoInput)
  /\ KeepTurns
  /\ UNCHANGED <<cancel, stopping>>

\* Every cancelled task is over: the hard stop clears its own mark.
StopEnds ==
  /\ stopping
  /\ cancel = {}
  /\ stopping' = FALSE
  /\ StopCleared
  /\ UNCHANGED <<lastTurn, openTurn, inputOf, inputStatus, opStatus, calls, runs>>
  /\ UNCHANGED <<pc, key, input, call, holder, cancel, saved, committed, torn, bounds>>

\* A cancelled task unwinds from the await it is at.  In the loop its finally
\* clears the stop; a save it was awaiting may still reach the disk.
Cancelled(t) ==
  /\ t \in cancel
  /\ Ends(t)
  /\ IF pc[t] = "tool"
     THEN /\ SetOp(call[t][1], call[t][2], "canceled")
          /\ calls' = calls \ {call[t]}
     ELSE UNCHANGED <<opStatus, calls>>
  /\ call' = [call EXCEPT ![t] = NoCall]
  /\ IF pc[t] \in {"loop", "tool"} THEN StopCleared ELSE UNCHANGED stopMode
  /\ saved' \in IF pc[t] = "saving" THEN {saved, Inp(saved, t)} ELSE {saved}
  /\ UNCHANGED <<lastTurn, openTurn, inputOf, inputStatus, runs>>
  /\ UNCHANGED <<committed, torn, bounds>>

-----------------------------------------------------------------------------
(* Crashes: the process restarts with the journal and the session file. *)

\* The journal calls a crash may cut are those some task is about to make.
TornCall ==
  /\ torn' = TRUE
  /\ \/ \E t \in Tasks : At(t, "landed") /\ CrashInClose
     \/ \E t \in Tasks :
          /\ MayEnter(t)
          /\ OpensTurn(input[t])
          /\ \/ CrashInClose
             \/ CrashBeforeOpen(input[t])
             \/ CrashAfterOpen(input[t])
     \/ \E t \in Tasks, o \in Ops : At(t, "loop") /\ CrashInClaim(openTurn, o)
     \/ \E t \in Tasks : At(t, "accepted") /\ CrashInConsume
     \/ stops < MaxStops /\ CrashInStop

Crash ==
  /\ crashes < MaxCrashes
  /\ crashes' = crashes + 1
  /\ (JournalCrash /\ UNCHANGED torn) \/ TornCall
  /\ pc' = [t \in Tasks |-> IF pc[t] = "new" THEN "new" ELSE "ended"]
  /\ call' = [t \in Tasks |-> NoCall]
  /\ holder' = [k \in Keys |-> Nobody]
  /\ cancel' = {}
  /\ stopping' = FALSE
  /\ UNCHANGED <<key, input, saved, committed, stops>>

-----------------------------------------------------------------------------
Step(t) ==
  \/ DropDuplicate(t) \/ Enter(t) \/ AnswerEarly(t) \/ NoReply(t) \/ StartLoop(t)
  \/ \E o \in Ops : StartTool(t, o) \/ RefuseTool(t, o)
  \/ \E s \in {"finished", "canceled"} : FinishTool(t, s)
  \/ HaltLoop(t) \/ Reply(t) \/ LoopFails(t) \/ SaveLands(t) \/ Commit(t)
  \/ Cancelled(t)

Next ==
  \/ \E t \in Tasks, i \in Inputs \cup {NoInput}, k \in Keys : Deliver(t, i, k)
  \/ \E t \in Tasks : Step(t)
  \/ \E mode \in {"hard", "when_idle"} : BusStop(mode) \/ DirectStop(mode)
  \/ IdleStopInVain
  \/ StopEnds
  \/ Crash

Spec == Init /\ [][Next]_vars

-----------------------------------------------------------------------------
\* consume_interruptions runs before the loop does: while a turn is at work, a
\* call on record as open in the scope that is open now is really running,
\* whatever a crash has torn.  What a crash cut off was told to the provider;
\* nothing is silently waited for.  Only scope 0 is shared: once a task of
\* another key has committed the turn this one works in, it finds there what
\* crashes left to nobody.
NothingLeftOpen ==
  openTurn # 0 \/ (\A u \in Tasks : key[u] = Own) =>
    \A t \in Tasks : pc[t] = "loop" => \A o \in Pending : <<openTurn, o>> \in calls

-----------------------------------------------------------------------------
(* Properties as long as every journal call reaches the disk whole and no
   message of another key is routed here. *)

Orderly == ~torn /\ \A t \in Tasks : key[t] = Own

\* "A redelivery resumes that same turn": an open input is always the input
\* of the open turn, so accept_input, which only looks at the input, lets a
\* redelivery go on in its own turn and no other; a tool call is recorded in the
\* turn of the message that asked for it, also when a direct /stop opened an
\* anonymous turn meanwhile.
StaysInOwnTurn ==
  Orderly =>
    /\ \A i \in Inputs : inputStatus[i] = "open" => openTurn # 0 /\ inputOf[openTurn] = i
    /\ \A t \in Tasks : pc[t] = "tool" => inputOf[call[t][1]] = input[t]

\* The newest turn's input is done only once it is saved, so that nothing but a
\* later turn closes a turn that was not saved; and once its task has gone
\* through commit_turn, "a redelivery of its input is a duplicate".
CommitFollowsSave ==
  Orderly => \A i \in Inputs :
    /\ lastTurn # 0 /\ inputOf[lastTurn] = i /\ inputStatus[i] = "done" => i \in saved
    /\ i \in committed => inputStatus[i] = "done"
=============================================================================
