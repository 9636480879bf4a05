----------------------------- MODULE JournalLog -----------------------------
(***************************************************************************)
(* The turn journal as the file it is: a sequence of rows, appended and    *)
(* fsynced one at a time, and the scans that read it back                  *)
(* (agent/turn_journal.py).                                                *)
(*                                                                         *)
(* A call of the journal decides its rows from the log it finds, then      *)
(* appends them one by one.  Nothing else in the process runs meanwhile    *)
(* (no await), but a crash may end the call after any row.  TurnJournal is *)
(* the abstraction of this module: a call is one step there, and each way  *)
(* a crash may cut it is one of its Crash actions.                         *)
(***************************************************************************)
EXTENDS Naturals, Sequences, FiniteSetsExt, SequencesExt

CONSTANTS
  Inputs, NoInput, Ops, MaxTurn,
  MaxRows        \* bound on the length of the log

ASSUME RowsAssumption == NoInput \notin Inputs /\ MaxTurn \in Nat /\ MaxRows \in Nat

VARIABLES
  log,           \* the rows on disk
  base,          \* length of the log when the call in progress began
  todo,          \* rows the call in progress has still to append
  after,         \* what the caller does next: <<"start" | "end", scope, op>>
  calls,         \* volatile: the <<scope, op>> whose run() is in progress
  runs           \* history: how often run() was started

logVars == <<log, base, todo, after, calls, runs>>

Nothing == <<"nothing", 0, "nothing">>

TurnRow(t, s, i) == [kind |-> "turn", id |-> t, status |-> s, input |-> i]
InputRow(i, s) == [kind |-> "input", id |-> i, status |-> s]
OpRow(t, o, s) == [kind |-> "operation", id |-> o, turn |-> t, status |-> s]
StopRow(mode) == [kind |-> "stop", mode |-> mode]

-----------------------------------------------------------------------------
(* The scans. *)

RowsOf(l, kind) == {n \in DOMAIN l : l[n].kind = kind}

\* The last row of a set of row numbers decides; dflt when there is none.
LastIn(l, N, dflt) == IF N = {} THEN dflt ELSE l[Max(N)]

\* _open_turn: the last turn opened, unless a later row closes it.
OpenTurnIn(l) ==
  LET opened == {n \in RowsOf(l, "turn") : l[n].status = "open"}
      n == Max(opened)
      closed == \E m \in RowsOf(l, "turn") :
                  m > n /\ l[m].status = "done" /\ l[m].id = l[n].id
  IN  IF opened = {} \/ closed THEN 0 ELSE l[n].id

LastTurnIn(l) == Max({0} \cup {l[n].id : n \in RowsOf(l, "turn")})

\* The input of a turn, from its "open" row.
InputOfTurn(l, t) ==
  LastIn(l, {n \in RowsOf(l, "turn") : l[n].id = t /\ l[n].status = "open"},
         [input |-> NoInput]).input

InputStatusIn(l, i) ==
  LastIn(l, {n \in RowsOf(l, "input") : l[n].id = i}, [status |-> "unseen"]).status

OpStatusIn(l, t, o) ==
  LastIn(l, {n \in RowsOf(l, "operation") : l[n].id = o /\ l[n].turn = t},
         [status |-> "none"]).status

StopModeIn(l) == LastIn(l, RowsOf(l, "stop"), [mode |-> "none"]).mode

-----------------------------------------------------------------------------
(* Calls: the rows each one appends. *)

OpenStatus == {"ready", "awaiting"}

\* Mutant: the input's row is written before its turn's.
CloseRowsInputFirst ==
  LET t == OpenTurnIn(log)
      i == InputOfTurn(log, t)
  IN  IF t = 0 THEN <<>>
      ELSE (IF i = NoInput THEN <<>> ELSE <<InputRow(i, "done")>>)
           \o <<TurnRow(t, "done", NoInput)>>

\* _close_open_turn
CloseRows ==
  LET t == OpenTurnIn(log)
      i == InputOfTurn(log, t)
  IN  IF t = 0 THEN <<>>
      ELSE <<TurnRow(t, "done", NoInput)>>
           \o (IF i = NoInput THEN <<>> ELSE <<InputRow(i, "done")>>)

\* _open_turn_record
OpenRows(i) ==
  CloseRows \o <<TurnRow(LastTurnIn(log) + 1, "open", i)>>
            \o (IF i = NoInput THEN <<>> ELSE <<InputRow(i, "open")>>)

\* One mark for each open operation of the current scope, in some order.
MarkRows(s) ==
  LET t == OpenTurnIn(log)
      pending == {o \in Ops : OpStatusIn(log, t, o) \in OpenStatus}
  IN  {[n \in DOMAIN order |-> OpRow(t, order[n], s)] : order \in SetToSeqs(pending)}

Idle == todo = <<>> /\ after = Nothing

Call(rs, next) ==
  /\ Idle
  /\ rs # <<>>
  /\ Len(log) + Len(rs) <= MaxRows
  /\ base' = Len(log)
  /\ todo' = rs
  /\ after' = next
  /\ UNCHANGED <<log, calls, runs>>

AcceptInput(i) ==
  /\ i \in Inputs => InputStatusIn(log, i) = "unseen"
  /\ LastTurnIn(log) < MaxTurn
  /\ Call(OpenRows(i), Nothing)

CommitTurn == Call(CloseRows, Nothing)

Claim(t, o) ==
  /\ t <= LastTurnIn(log)
  /\ StopModeIn(log) = "none"
  /\ LET s == OpStatusIn(log, t, o) IN
       \/ /\ s = "none"
          /\ Call(<<OpRow(t, o, "ready"), OpRow(t, o, "awaiting")>>, <<"start", t, o>>)
       \/ /\ s \in OpenStatus
          /\ Call(<<OpRow(t, o, "interrupted")>>, Nothing)

\* run() returned, raised, or was cancelled.
RunEnds(t, o) ==
  /\ <<t, o>> \in calls
  /\ \E s \in {"finished", "canceled"} : Call(<<OpRow(t, o, s)>>, <<"end", t, o>>)

ConsumeInterruptions == \E rs \in MarkRows("interrupted") : Call(rs, Nothing)

RequestStop(mode) ==
  \E rs \in IF mode = "hard" THEN MarkRows("canceled") ELSE {<<>>} :
    Call(<<StopRow(mode)>> \o rs, Nothing)

ClearStop == StopModeIn(log) # "none" /\ Call(<<StopRow("none")>>, Nothing)

\* _append.  The caller goes on as soon as its last row is on disk, except
\* that run() starts in a step of its own: a crash may still come first.
AppendRow ==
  /\ todo # <<>>
  /\ log' = Append(log, Head(todo))
  /\ todo' = Tail(todo)
  /\ IF Tail(todo) = <<>> /\ after[1] = "end"
     THEN calls' = calls \ {<<after[2], after[3]>>} /\ after' = Nothing
     ELSE UNCHANGED <<calls, after>>
  /\ UNCHANGED <<base, runs>>

StartRun ==
  /\ todo = <<>>
  /\ after[1] = "start"
  /\ calls' = calls \cup {<<after[2], after[3]>>}
  /\ runs' = [runs EXCEPT ![after[2]][after[3]] = @ + 1]
  /\ after' = Nothing
  /\ UNCHANGED <<log, base, todo>>

Crash ==
  /\ todo' = <<>>
  /\ after' = Nothing
  /\ calls' = {}
  /\ UNCHANGED <<log, base, runs>>

LogInit ==
  /\ log = <<>>
  /\ base = 0
  /\ todo = <<>>
  /\ after = Nothing
  /\ calls = {}
  /\ runs = [t \in 0..MaxTurn |-> [o \in Ops |-> 0]]

LogNext ==
  \/ \E i \in Inputs \cup {NoInput} : AcceptInput(i)
  \/ CommitTurn
  \/ \E t \in 0..MaxTurn, o \in Ops : Claim(t, o) \/ RunEnds(t, o)
  \/ ConsumeInterruptions
  \/ \E mode \in {"hard", "when_idle"} : RequestStop(mode)
  \/ ClearStop
  \/ AppendRow
  \/ StartRun
  \/ Crash

LogSpec == LogInit /\ [][LogNext]_logVars

-----------------------------------------------------------------------------
\* The log as a caller may rely on it: a call in progress has not happened.
Visible == IF Idle THEN log ELSE SubSeq(log, 1, base)

Journal == INSTANCE TurnJournal WITH
  lastTurn <- LastTurnIn(Visible),
  openTurn <- OpenTurnIn(Visible),
  inputOf <- [t \in 1..MaxTurn |-> InputOfTurn(Visible, t)],
  inputStatus <- [i \in Inputs |-> InputStatusIn(Visible, i)],
  opStatus <- [t \in 0..MaxTurn |-> [o \in Ops |-> OpStatusIn(Visible, t, o)]],
  stopMode <- StopModeIn(Visible)

\* Appending rows one by one and reading them back by scanning, with crashes
\* between any two rows, is the journal of TurnJournal: no crash leaves a log
\* that reads as anything but one of its crash outcomes.
ImplementsJournal == Journal!JournalSpec
=============================================================================
