---------------------------- MODULE SessionLocks ----------------------------
(***************************************************************************)
(* How the agent serialises the messages of one session key                *)
(* (agent/loop.py: run, _dispatch, process_direct, _remove_active_task,    *)
(* _handle_stop).                                                          *)
(*                                                                         *)
(* Messages of the bus get a task each, registered before it starts; a     *)
(* direct call registers and asks for the lock in one go.  The lock object *)
(* is created on demand, kept in a table under the session key, and        *)
(* dropped by whichever task leaves the registry empty.  /stop swaps the   *)
(* registry out and cancels what was in it.  Everything between two awaits *)
(* is one step.                                                            *)
(***************************************************************************)
EXTENDS Naturals, Sequences, FiniteSets, SequencesExt

CONSTANTS
  Msgs,          \* messages that start a turn
  Stops          \* hard stop commands

ASSUME ActorsAssumption == Msgs \cap Stops = {} /\ IsFiniteSet(Msgs)

Locks == 1..Cardinality(Msgs)      \* a lock object per acquisition, at most
Actors == Msgs \cup Stops

VARIABLES
  pc,            \* where each message or command is
  via,           \* "bus" or "direct": how it came in
  ready,         \* tasks created by run() that the event loop has not started
  active,        \* _active_tasks[key]; empty also stands for "no entry"
  cancel,        \* the actors with a CancelledError on its way
  table,         \* _session_locks[key]; 0 for "no entry"
  lockOf,        \* the lock object a task got from the table
  locked,        \* asyncio.Lock._locked of each lock object
  waiters,       \* asyncio.Lock._waiters, oldest first
  woken,         \* the waiters whose future was resolved
  drain,         \* the tasks a stop command still waits for
  arrived,       \* history: messages in the order they asked for the lock
  entered        \* history: messages in the order they got it

vars == <<pc, via, ready, active, cancel, table, lockOf, locked, waiters,
          woken, drain, arrived, entered>>

\* Every variable has its type; the queue of a lock object holds exactly the
\* messages that wait for it, each once (asyncio.Lock._waiters), and only
\* those can have been woken.
TypeOK ==
  /\ pc \in [Actors -> {"new", "created", "waiting", "inside", "ended",
                        "draining", "done"}]
  /\ via \in [Actors -> {"bus", "direct"}]
  /\ Range(ready) \subseteq Msgs
  /\ active \subseteq Actors
  /\ cancel \subseteq Actors
  /\ table \in {0} \cup Locks
  /\ lockOf \in [Msgs -> {0} \cup Locks]
  /\ locked \in [Locks -> BOOLEAN]
  /\ \A l \in Locks :
       /\ IsInjective(waiters[l])
       /\ Range(waiters[l]) = {m \in Msgs : pc[m] = "waiting" /\ lockOf[m] = l}
  /\ woken \subseteq {m \in Msgs : pc[m] = "waiting"}
  /\ drain \in [Stops -> SUBSET Actors]

Init ==
  /\ pc = [a \in Actors |-> "new"]
  /\ via = [a \in Actors |-> "bus"]
  /\ ready = <<>>
  /\ active = {}
  /\ cancel = {}
  /\ table = 0
  /\ lockOf = [m \in Msgs |-> 0]
  /\ locked = [l \in Locks |-> FALSE]
  /\ waiters = [l \in Locks |-> <<>>]
  /\ woken = {}
  /\ drain = [s \in Stops |-> {}]
  /\ arrived = <<>>
  /\ entered = <<>>

-----------------------------------------------------------------------------
(* asyncio.Lock *)

\* _wake_up_first: resolve the oldest future, unless it already is.
WakeFirst(ws) == IF ws = <<>> \/ Head(ws) \in cancel THEN {} ELSE {Head(ws)}

\* deque.remove: the queue without the waiter that leaves it.
Without(ws, m) ==
  LET i == CHOOSE i \in DOMAIN ws : ws[i] = m
  IN  [j \in 1..(Len(ws) - 1) |-> IF j < i THEN ws[j] ELSE ws[j + 1]]

\* The table's lock, created when there is none.
UsedLocks == {lockOf[m] : m \in Msgs} \ {0}
Lookup(l) == IF table # 0 THEN l = table
             ELSE l = CHOOSE k \in Locks : k \notin UsedLocks

\* acquire(): at once when it is free and nobody waits, else join the queue.
Acquire(m) ==
  \E l \in Locks :
    /\ Lookup(l)
    /\ table' = l
    /\ lockOf' = [lockOf EXCEPT ![m] = l]
    /\ arrived' = Append(arrived, m)
    /\ IF ~locked[l] /\ \A w \in Range(waiters[l]) : w \in cancel /\ w \notin woken
       THEN /\ pc' = [pc EXCEPT ![m] = "inside"]
            /\ locked' = [locked EXCEPT ![l] = TRUE]
            /\ entered' = Append(entered, m)
            /\ UNCHANGED waiters
       ELSE /\ pc' = [pc EXCEPT ![m] = "waiting"]
            /\ waiters' = [waiters EXCEPT ![l] = Append(@, m)]
            /\ UNCHANGED <<locked, entered>>

\* Mutant: the lock object is dropped though a turn holds it.
RemoveActiveUnasked(a, lks) ==
  /\ active' = active \ {a}
  /\ table' = IF active # {} /\ active' = {} THEN 0 ELSE table

\* Mutant: the lock object is dropped as soon as nobody holds it.
RemoveActiveEager(a, lks) ==
  /\ active' = active \ {a}
  /\ table' = IF table # 0 /\ ~lks[table] THEN 0 ELSE table

\* _remove_active_task, run when the lock states are lks.
RemoveActive(a, lks) ==
  /\ active' = active \ {a}
  /\ table' = IF active # {} /\ active' = {} /\ table # 0 /\ ~lks[table]
              THEN 0 ELSE table

-----------------------------------------------------------------------------
(* Messages *)

BusBlocked == \E s \in Stops : pc[s] = "draining" /\ via[s] = "bus"

\* run(): create the task and register it; run() itself awaits a bus stop.
Deliver(m) ==
  /\ pc[m] = "new"
  /\ ~BusBlocked
  /\ pc' = [pc EXCEPT ![m] = "created"]
  /\ ready' = Append(ready, m)
  /\ active' = active \cup {m}
  /\ UNCHANGED <<via, cancel, table, lockOf, locked, waiters, woken, drain,
                 arrived, entered>>

\* _dispatch starts.  A task cancelled before its first step never runs.
Begin ==
  /\ ready # <<>>
  /\ ready' = Tail(ready)
  /\ IF Head(ready) \in cancel
     THEN /\ pc' = [pc EXCEPT ![Head(ready)] = "ended"]
          /\ UNCHANGED <<table, lockOf, locked, waiters, arrived, entered>>
     ELSE Acquire(Head(ready))
  /\ UNCHANGED <<via, active, cancel, woken, drain>>

\* process_direct: register, then take the lock.
DirectArrive(m) ==
  /\ pc[m] = "new"
  /\ via' = [via EXCEPT ![m] = "direct"]
  /\ active' = active \cup {m}
  /\ Acquire(m)
  /\ UNCHANGED <<ready, cancel, woken, drain>>

\* A waiter whose future was resolved takes the lock.
Resume(m) ==
  /\ pc[m] = "waiting"
  /\ m \in woken
  /\ m \notin cancel
  /\ pc' = [pc EXCEPT ![m] = "inside"]
  /\ locked' = [locked EXCEPT ![lockOf[m]] = TRUE]
  /\ waiters' = [waiters EXCEPT ![lockOf[m]] = Without(@, m)]
  /\ woken' = woken \ {m}
  /\ entered' = Append(entered, m)
  /\ UNCHANGED <<via, ready, active, cancel, table, lockOf, drain, arrived>>

\* A task that is done is forgotten: how it came, its lock, its cancellation.
Forget(m) ==
  /\ pc' = [pc EXCEPT ![m] = "done"]
  /\ via' = [via EXCEPT ![m] = "bus"]
  /\ lockOf' = [lockOf EXCEPT ![m] = 0]
  /\ cancel' = cancel \ {m}

\* The end of a task: a direct call unregisters itself in its finally, a bus
\* task is unregistered by its done callback, later.
End(m, lks) ==
  IF via[m] = "direct"
  THEN Forget(m) /\ RemoveActive(m, lks)
  ELSE pc' = [pc EXCEPT ![m] = "ended"] /\ UNCHANGED <<active, table, via, lockOf, cancel>>

\* A cancelled waiter leaves the queue and passes the wake-up on.
CancelWaiting(m) ==
  /\ pc[m] = "waiting"
  /\ m \in cancel
  /\ waiters' = [waiters EXCEPT ![lockOf[m]] = Without(@, m)]
  /\ woken' = (woken \ {m}) \cup
       (IF locked[lockOf[m]] THEN {} ELSE WakeFirst(waiters'[lockOf[m]]))
  /\ End(m, locked)
  /\ UNCHANGED <<ready, locked, drain, arrived, entered>>

\* Mutant: nobody is woken.
LeaveQuietly(m) ==
  /\ pc[m] = "inside"
  /\ locked' = [locked EXCEPT ![lockOf[m]] = FALSE]
  /\ End(m, locked')
  /\ UNCHANGED <<ready, waiters, woken, drain, arrived, entered>>

\* The turn is over (or was cancelled): release, and wake the next in line.
Leave(m) ==
  /\ pc[m] = "inside"
  /\ locked' = [locked EXCEPT ![lockOf[m]] = FALSE]
  /\ woken' = woken \cup WakeFirst(waiters[lockOf[m]])
  /\ End(m, locked')
  /\ UNCHANGED <<ready, waiters, drain, arrived, entered>>

\* The done callback of a bus task, run after the task has ended.
DoneCallback(m) ==
  /\ pc[m] = "ended"
  /\ Forget(m)
  /\ RemoveActive(m, locked)
  /\ UNCHANGED <<ready, locked, waiters, woken, drain, arrived, entered>>

-----------------------------------------------------------------------------
(* /stop *)

Over(a) == pc[a] \in {"ended", "done"}

\* _handle_stop: swap the registry, cancel what was in it, then wait for it.
\* From the bus it runs in run() itself; direct, in a registered task.
Stop(s, how) ==
  /\ pc[s] = "new"
  /\ how = "bus" => ~BusBlocked
  /\ pc' = [pc EXCEPT ![s] = "draining"]
  /\ via' = [via EXCEPT ![s] = how]
  /\ active' = IF how = "direct" THEN {s} ELSE {}
  /\ LET targets == {a \in active : ~Over(a)} IN
       /\ cancel' = cancel \cup targets
       /\ drain' = [drain EXCEPT ![s] = targets]
  /\ UNCHANGED <<ready, table, lockOf, locked, waiters, woken, arrived, entered>>

\* A stop cancelled by another stop swallows the error and gives up waiting
\* for the task it was awaiting.
SkipOne(s) ==
  /\ pc[s] = "draining"
  /\ s \in cancel
  /\ cancel' = cancel \ {s}
  /\ \E a \in drain[s] : drain' = [drain EXCEPT ![s] = @ \ {a}]
  /\ UNCHANGED <<pc, via, ready, active, table, lockOf, locked, waiters, woken,
                 arrived, entered>>

StopEnds(s) ==
  /\ pc[s] = "draining"
  /\ \A a \in drain[s] : Over(a)
  /\ pc' = [pc EXCEPT ![s] = "done"]
  /\ cancel' = cancel \ {s}
  /\ drain' = [drain EXCEPT ![s] = {}]
  /\ IF via[s] = "direct" THEN RemoveActive(s, locked)
                          ELSE UNCHANGED <<active, table>>
  /\ UNCHANGED <<via, ready, lockOf, locked, waiters, woken, arrived, entered>>

-----------------------------------------------------------------------------
Next ==
  \/ Begin
  \/ \E m \in Msgs : \/ Deliver(m)
                     \/ DirectArrive(m)
                     \/ Resume(m)
                     \/ CancelWaiting(m)
                     \/ Leave(m)
                     \/ DoneCallback(m)
  \/ \E s \in Stops : \/ \E how \in {"bus", "direct"} : Stop(s, how)
                      \/ SkipOne(s)
                      \/ StopEnds(s)

\* The event loop runs every ready callback, and every turn ends: provider
\* calls and tools have timeouts, iterations a cap.
Fairness ==
  /\ WF_vars(Begin)
  /\ \A m \in Msgs : /\ WF_vars(Resume(m))
                     /\ WF_vars(CancelWaiting(m))
                     /\ WF_vars(Leave(m))
                     /\ WF_vars(DoneCallback(m))
  /\ \A s \in Stops : WF_vars(SkipOne(s)) /\ WF_vars(StopEnds(s))

SafeSpec == Init /\ [][Next]_vars

Spec == SafeSpec /\ Fairness

-----------------------------------------------------------------------------
\* _dispatch: "Process a message under the per-session lock".  Dropping the
\* lock object while a hand-over is under way must never let a newcomer
\* create a second one and run beside the turn in progress.
OneTurnAtATime == Cardinality({m \in Msgs : pc[m] = "inside"}) <= 1

\* Whoever still runs or will run holds the lock object a newcomer will find.
SameLock ==
  \A m \in Msgs : pc[m] = "inside" \/ (pc[m] = "waiting" /\ m \notin cancel)
                  => lockOf[m] = table

Earlier(s, n, m) == \E i, j \in DOMAIN s : i < j /\ s[i] = n /\ s[j] = m

\* The messages of a session run in the order they asked for the lock, each
\* once, except for those cancelled meanwhile: no later message overtakes a
\* waiting one.
InOrder ==
  /\ IsInjective(arrived)
  /\ \A i, j \in DOMAIN entered : i < j => Earlier(arrived, entered[i], entered[j])
  /\ \A m \in Msgs : pc[m] = "waiting" /\ m \notin cancel =>
       \A n \in Range(entered) : Earlier(arrived, n, m)

\* No wake-up is lost and no stop waits for ever: a message that was accepted
\* gets its turn or was cancelled by a stop, and then leaves; a stop is answered,
\* two that cancel each other included.
EveryoneEnds ==
  /\ \A m \in Msgs : pc[m] # "new" ~> pc[m] = "done"
  /\ \A s \in Stops : pc[s] = "draining" ~> pc[s] = "done"
=============================================================================
