---------------------------- MODULE TurnJournal ----------------------------
(***************************************************************************)
(* The append-only turn journal of one session (agent/turn_journal.py).    *)
(*                                                                         *)
(* The code keeps a file of JSON rows and answers every question by        *)
(* scanning it.  Here the rows are folded into what the scans return: the  *)
(* open turn, the status of each input, the status of each operation in    *)
(* each turn scope, and the stop mode.  A call of the journal runs to its  *)
(* end without an await, so it is one step, but each row is fsynced on its *)
(* own: the Crash... actions are the journals a crash between two rows of  *)
(* one call leaves behind.                                                 *)
(***************************************************************************)
EXTENDS Naturals

CONSTANTS
  Inputs,        \* input ids, e.g. "telegram:9"
  NoInput,       \* a message without an input id
  Ops,           \* operation ids (tool call ids)
  MaxTurn        \* bound on the number of turns opened

ASSUME InputAssumption == NoInput \notin Inputs
ASSUME TurnAssumption == MaxTurn \in Nat

Turns == 1..MaxTurn
Scopes == 0..MaxTurn        \* 0 is the scope of a caller that opened no turn
StopModes == {"none", "hard", "when_idle"}
OpenStatus == {"ready", "awaiting"}     \* "canceling" is in _OPEN, no code writes it
SettledStatus == {"finished", "canceled", "interrupted"} \* completed or failed
OpStatus == {"none"} \cup OpenStatus \cup SettledStatus

VARIABLES
  lastTurn,      \* the largest turn id in the journal
  openTurn,      \* _open_turn: the turn opened and not closed, 0 if none
  inputOf,       \* the input recorded in each turn's row
  inputStatus,   \* _input_status
  opStatus,      \* _operations: status of each operation of each turn scope
  stopMode,      \* stop_mode
  calls,         \* volatile: the <<scope, op>> whose run() is in progress
  runs           \* history: how often run() was started for each <<scope, op>>

journal == <<lastTurn, openTurn, inputOf, inputStatus, opStatus, stopMode>>
journalVars == <<lastTurn, openTurn, inputOf, inputStatus, opStatus, stopMode, calls, runs>>

\* Each fold of the log has its type; the open turn, if any, is the newest one
\* (_open_turn, _open_turn_record).
JournalTypeOK ==
  /\ lastTurn \in Scopes
  /\ openTurn \in {0, lastTurn}
  /\ inputOf \in [Turns -> Inputs \cup {NoInput}]
  /\ inputStatus \in [Inputs -> {"unseen", "open", "done"}]
  /\ opStatus \in [Scopes -> [Ops -> OpStatus]]
  /\ stopMode \in StopModes
  /\ calls \subseteq Scopes \X Ops
  /\ runs \in [Scopes -> [Ops -> Nat]]

JournalInit ==
  /\ lastTurn = 0
  /\ openTurn = 0
  /\ inputOf = [t \in Turns |-> NoInput]
  /\ inputStatus = [i \in Inputs |-> "unseen"]
  /\ opStatus = [t \in Scopes |-> [o \in Ops |-> "none"]]
  /\ stopMode = "none"
  /\ calls = {}
  /\ runs = [t \in Scopes |-> [o \in Ops |-> 0]]

-----------------------------------------------------------------------------
(* Turns and inputs. *)

\* The answer of accept_input for a call made now.
Accepts(i) == i \in Inputs => inputStatus[i] # "done"

\* accept_input opens a turn only for an anonymous or unseen input; an open
\* one is resumed and a done one dropped without writing a row.
OpensTurn(i) == i \in Inputs => inputStatus[i] = "unseen"

\* The input statuses once the open turn's "input done" row is written.
ClosedInputs ==
  [i \in Inputs |-> IF openTurn # 0 /\ inputOf[openTurn] = i
                    THEN "done" ELSE inputStatus[i]]

\* Mutant: the next id is counted from the open turn, not from all of them.
TurnOpenedAfterOpen(i) ==
  /\ openTurn < MaxTurn
  /\ lastTurn' = IF openTurn < lastTurn THEN lastTurn ELSE openTurn + 1
  /\ openTurn' = openTurn + 1
  /\ inputOf' = [inputOf EXCEPT ![openTurn + 1] = i]

\* The rows of the turn itself: "turn open" for the next id.
TurnOpened(i) ==
  /\ lastTurn < MaxTurn
  /\ lastTurn' = lastTurn + 1
  /\ openTurn' = lastTurn + 1
  /\ inputOf' = [inputOf EXCEPT ![lastTurn + 1] = i]

\* accept_input of an input that opens a turn: whatever turn was open is
\* closed, and its input marked done, whether or not it was ever saved.
OpenTurn(i) ==
  /\ OpensTurn(i)
  /\ TurnOpened(i)
  /\ inputStatus' = IF i = NoInput THEN ClosedInputs
                    ELSE [ClosedInputs EXCEPT ![i] = "open"]
  /\ UNCHANGED <<opStatus, stopMode, calls, runs>>

\* commit_turn: "turn done", then "input done"; nothing when no turn is open.
CommitTurn ==
  /\ openTurn # 0
  /\ openTurn' = 0
  /\ inputStatus' = ClosedInputs
  /\ UNCHANGED <<lastTurn, inputOf, opStatus, stopMode, calls, runs>>

\* A crash loses whatever was running; the rows written stay.
Lost == calls' = {} /\ UNCHANGED <<opStatus, stopMode, runs>>

JournalCrash ==
  /\ Lost
  /\ UNCHANGED <<lastTurn, openTurn, inputOf, inputStatus>>

\* A crash in _close_open_turn after "turn done" and before "input done": the
\* input stays open although no turn of its own is.
CrashInClose ==
  /\ openTurn # 0
  /\ inputOf[openTurn] # NoInput
  /\ openTurn' = 0
  /\ Lost
  /\ UNCHANGED <<lastTurn, inputOf, inputStatus>>

\* A crash in _open_turn_record after the old turn was closed.
CrashBeforeOpen(i) ==
  /\ OpensTurn(i)
  /\ openTurn # 0
  /\ openTurn' = 0
  /\ inputStatus' = ClosedInputs
  /\ Lost
  /\ UNCHANGED <<lastTurn, inputOf>>

\* A crash after "turn open" and before "input open": the turn names an input
\* that has no row of its own.
CrashAfterOpen(i) ==
  /\ i # NoInput
  /\ OpensTurn(i)
  /\ TurnOpened(i)
  /\ inputStatus' = ClosedInputs
  /\ Lost

-----------------------------------------------------------------------------
(* Operations. *)

SetOp(t, o, s) == opStatus' = [opStatus EXCEPT ![t][o] = s]

\* The open operations of the caller's own scope.
Pending == {o \in Ops : opStatus[openTurn][o] \in OpenStatus}

\* Mutant: an operation that did not finish is started again.
StartCallAgain(t, o) ==
  /\ t <= lastTurn
  /\ stopMode = "none"
  /\ opStatus[t][o] \in {"none", "interrupted"}
  /\ SetOp(t, o, "awaiting")
  /\ calls' = calls \cup {<<t, o>>}
  /\ runs' = [runs EXCEPT ![t][o] = @ + 1]
  /\ UNCHANGED <<lastTurn, openTurn, inputOf, inputStatus, stopMode>>

\* execute_claimed wins the claim: "ready" and "awaiting" are on disk before
\* run() is entered, with no await in between.
StartCall(t, o) ==
  /\ t <= lastTurn
  /\ stopMode = "none"
  /\ opStatus[t][o] = "none"
  /\ SetOp(t, o, "awaiting")
  /\ calls' = calls \cup {<<t, o>>}
  /\ runs' = [runs EXCEPT ![t][o] = @ + 1]
  /\ UNCHANGED <<lastTurn, openTurn, inputOf, inputStatus, stopMode>>

\* A crash between the rows of a claim, or between them and run().
CrashInClaim(t, o) ==
  /\ t <= lastTurn
  /\ stopMode = "none"
  /\ opStatus[t][o] = "none"
  /\ \E s \in OpenStatus : SetOp(t, o, s)
  /\ calls' = {}
  /\ UNCHANGED <<lastTurn, openTurn, inputOf, inputStatus, stopMode, runs>>

\* A claim of an id that is already open in this scope: it is marked
\* interrupted and not started again.
InterruptCall(t, o) ==
  /\ t <= lastTurn
  /\ stopMode = "none"
  /\ opStatus[t][o] \in OpenStatus
  /\ SetOp(t, o, "interrupted")
  /\ UNCHANGED <<lastTurn, openTurn, inputOf, inputStatus, stopMode, calls, runs>>

\* run() returned, raised or was cancelled: its outcome is recorded in the
\* scope captured at the claim, over whatever was marked meanwhile.
FinishCall(t, o, s) ==
  /\ <<t, o>> \in calls
  /\ SetOp(t, o, s)
  /\ calls' = calls \ {<<t, o>>}
  /\ UNCHANGED <<lastTurn, openTurn, inputOf, inputStatus, stopMode, runs>>

MarkPending(S, s) ==
  opStatus' = [opStatus EXCEPT ![openTurn] =
                 [o \in Ops |-> IF o \in S THEN s ELSE @[o]]]

\* consume_interruptions: every open operation of the scope is interrupted,
\* the ones whose run() another task still awaits included.
ConsumeInterruptions ==
  /\ Pending # {}
  /\ MarkPending(Pending, "interrupted")
  /\ UNCHANGED <<lastTurn, openTurn, inputOf, inputStatus, stopMode, calls, runs>>

CrashInConsume ==
  /\ \E S \in SUBSET Pending : S # Pending /\ MarkPending(S, "interrupted")
  /\ calls' = {}
  /\ UNCHANGED <<lastTurn, openTurn, inputOf, inputStatus, stopMode, runs>>

-----------------------------------------------------------------------------
(* Stops. *)

RequestStop(mode) ==
  /\ stopMode' = mode
  /\ IF mode = "hard" THEN MarkPending(Pending, "canceled")
                      ELSE UNCHANGED opStatus
  /\ UNCHANGED <<lastTurn, openTurn, inputOf, inputStatus, calls, runs>>

CrashInStop ==
  /\ stopMode' = "hard"
  /\ \E S \in SUBSET Pending : S # Pending /\ MarkPending(S, "canceled")
  /\ calls' = {}
  /\ UNCHANGED <<lastTurn, openTurn, inputOf, inputStatus, runs>>

ClearStop ==
  /\ stopMode # "none"
  /\ stopMode' = "none"
  /\ UNCHANGED <<lastTurn, openTurn, inputOf, inputStatus, opStatus, calls, runs>>

-----------------------------------------------------------------------------
Crashes ==
  \/ JournalCrash
  \/ CrashInClose
  \/ \E i \in Inputs \cup {NoInput} : CrashBeforeOpen(i) \/ CrashAfterOpen(i)
  \/ \E t \in Scopes, o \in Ops : CrashInClaim(t, o)
  \/ CrashInConsume
  \/ CrashInStop

JournalNext ==
  \/ \E i \in Inputs \cup {NoInput} : OpenTurn(i)
  \/ CommitTurn
  \/ \E t \in Scopes, o \in Ops :
       \/ StartCall(t, o)
       \/ InterruptCall(t, o)
       \/ \E s \in {"finished", "canceled"} : FinishCall(t, o, s)
  \/ ConsumeInterruptions
  \/ \E mode \in StopModes \ {"none"} : RequestStop(mode)
  \/ ClearStop
  \/ Crashes

JournalSpec == JournalInit /\ [][JournalNext]_journalVars

-----------------------------------------------------------------------------
(* What the journal promises. *)

\* "The same id is never executed twice": within one turn scope run() is
\* started at most once for an operation id, over crashes, redeliveries,
\* stops, and claims of the same id by the loop and by workers that captured
\* the scope earlier.
AtMostOnce == \A t \in Scopes, o \in Ops : runs[t][o] <= 1

\* "A tool call is recorded before any I/O": whatever has been started has a
\* row, and while it runs it is known to the journal as started; a settled
\* operation never looks unstarted to a later claim.
RecordedBeforeIO ==
  \A t \in Scopes, o \in Ops :
    /\ runs[t][o] > 0 => opStatus[t][o] \in {"awaiting"} \cup SettledStatus
    /\ <<t, o>> \in calls => runs[t][o] = 1

\* A turn starts with a scope of its own: no operation id of an earlier turn,
\* of a crashed one or of a worker that outlived one can be taken for a call
\* of the turn just opened (_open_turn_record picks an id never used).
TurnsStartFresh ==
  [][openTurn' \notin {0, openTurn} =>
       \A o \in Ops : opStatus'[openTurn'][o] = "none"]_journalVars

\* An input is never forgotten and a duplicate is never revived: whatever
\* happens, a done input stays done and an open one is not unseen again.
InputsOnlyAdvance ==
  [][\A i \in Inputs :
       /\ inputStatus[i] = "done" => inputStatus'[i] = "done"
       /\ inputStatus[i] = "open" => inputStatus'[i] # "unseen"]_journalVars

\* A settled operation is never reopened: once an outcome is recorded, no
\* step makes the journal say the operation is still running.
SettledStaysSettled ==
  [][\A t \in Scopes, o \in Ops :
       opStatus[t][o] \in SettledStatus => opStatus'[t][o] \in SettledStatus]_journalVars

\* Nothing on record is taken back, over crashes, stops and late results: of no
\* input and of no operation.
RecordsOnlyAdvance == InputsOnlyAdvance /\ SettledStaysSettled
=============================================================================
