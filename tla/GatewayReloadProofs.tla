------------------------- MODULE GatewayReloadProofs -------------------------
(***************************************************************************)
(* What a saved configuration becomes, proved for any servers, channels,   *)
(* callers, configurations and bounds (GatewayReload).  Two invariants are *)
(* carried from step to step.  McpInv follows the connections: what each   *)
(* stage of a connect still has to do, which sessions, wrapped tools and   *)
(* offered tools agree, and, once a connect has succeeded, that they are   *)
(* those configured.  ChannelInv follows the tables of the channels: what  *)
(* a reload has still to stop, and that object, task and polling go        *)
(* together.  Each names the entries of odd that it depends on, so a       *)
(* failure that the code leaves behind weakens no more than it must.       *)
(***************************************************************************)
EXTENDS GatewayReload, FiniteSetTheorems, TLAPS

Versions == [Servers -> Nat]
AtWork == {"lock", "remove", "link"}
Steps == AtWork \cup {"get", "final", "ended"}

WorkerType == [pc : Steps, by : Callers \cup {"nobody"}, cfg : Versions, old : BOOLEAN,
               todo : SUBSET Servers]

\* Every variable of the connections is of its type; a connect has a caller.
McpTypes ==
  /\ servers \in Versions /\ sessions \in Versions /\ configs \in Versions
  /\ wrapped \subseteq Servers /\ offers \subseteq Servers /\ down \subseteq Servers
  /\ connected \in BOOLEAN
  /\ worker \in WorkerType
  /\ worker.pc \in AtWork => worker.by \in Callers
  /\ registry \in {"none", "present", "old"}
  /\ heal \in [Servers -> [pc : {"none", "lock", "link"}, version : Nat, old : BOOLEAN]]

\* The lock is with the worker while it opens and closes, or with one healing server.
Locked ==
  /\ mutex \in {"free", "worker"} \cup Servers
  /\ mutex = "worker" <=> worker.pc \in {"remove", "link"}
  /\ \A s \in Servers : mutex = s <=> heal[s].pc = "link"

\* At most one caller waits, and connecting says whether one does.
Waiting ==
  /\ connecting \in BOOLEAN /\ requests \in Seq(Callers)
  /\ call \in [Callers -> {"idle", "waiting", "returned", "failed"}]
  /\ connecting <=> \E c \in Callers : call[c] = "waiting"
  /\ \A c, d \in Callers : call[c] = "waiting" /\ call[d] = "waiting" => c = d

\* A reload that has not begun has not asked for a connect.
Phases ==
  /\ phase \in [Reloads -> {"none", "agent", "channels", "done", "failed"}]
  /\ \A r \in Reloads : phase[r] = "none" => call[r] = "idle"

\* A session is of its config, and just the configured servers' tools are wrapped; a
\* server that is down or being healed has no session; the worker's list is what is left
\* to remove, or to open: all that is missing and not down.
Sessions ==
  /\ \A s \in Servers : sessions[s] \in {0, configs[s]}
  /\ wrapped = On(configs)
  /\ \A s \in down : sessions[s] = 0
  /\ \A s \in Servers : heal[s].pc = "link" => /\ sessions[s] = 0 /\ heal[s].version # 0
                                               /\ connected => heal[s].version = configs[s]
  /\ worker.pc = "remove" => worker.todo = {s \in On(sessions) : configs[s] # worker.cfg[s]}
  /\ worker.pc = "link" => /\ worker.todo \subseteq On(worker.cfg) \ On(sessions)
                           /\ On(worker.cfg) \ On(sessions) \subseteq worker.todo \cup down

\* Unless one stayed away, a server with a config has its session or is being healed.
Up ==
  "unhealed" \notin odd =>
    \A s \in Servers : configs[s] = sessions[s] \/ (heal[s].pc = "link" /\ sessions[s] = 0)

\* Unless a reload met it, the worker works with the present servers and registry.
Current ==
  "linking" \notin odd /\ worker.pc \in AtWork => ~worker.old /\ worker.cfg = servers

\* When the worker opens sessions, those with another config have been removed.
Matched ==
  "unhealed" \notin odd /\ worker.pc = "link" =>
     \A s \in Servers : configs[s] \in {0, worker.cfg[s]}

\* Connected, the sessions are those of the present servers, but for the ones down or
\* being healed, and their tools are offered, or will be when the worker has linked.
Right ==
  connected /\ odd \cap {"linking", "unhealed"} = {} =>
    /\ \A s \in Servers : configs[s] \in {0, servers[s]}
    /\ \A s \in Servers : s \in down \/ heal[s].pc = "link" \/ sessions[s] = servers[s]
    /\ worker.pc # "link" /\ "halfLinked" \notin odd => wrapped \subseteq offers

\* No tools are offered but the wrapped ones.
NoOther == odd \cap {"linking", "toolsLeft"} = {} => offers \subseteq wrapped

McpInv ==
  /\ servers = file.mcp
  /\ McpTypes /\ Locked /\ Waiting /\ Phases
  /\ Sessions /\ Up /\ Current /\ Matched /\ Right /\ NoOther
-----------------------------------------------------------------------------
(* The MCP servers: one lemma per action.                                  *)

LEMMA IdleWorker == Idle \in WorkerType /\ NoServers \in Versions
BY DEF Idle, NoServers, WorkerType, Steps, AtWork, Versions

LEMMA OldChanges ==
  ASSUME NEW w \in WorkerType, NEW o \in BOOLEAN
  PROVE  LET v == [w EXCEPT !.old = o]
         IN v \in WorkerType /\ v.cfg = w.cfg /\ v.pc = w.pc /\ v.todo = w.todo /\ v.by = w.by
BY DEF WorkerType

LEMMA InitMcp == Init => McpInv
<1> SUFFICES ASSUME Init PROVE McpInv
  OBVIOUS
<1>0. file.mcp \in Versions
  BY ReloadAssumption DEF Init, Versions
<1>1. McpTypes
  <2>1. worker \in WorkerType /\ sessions \in Versions /\ configs \in Versions
    BY IdleWorker DEF Init, McpInit
  <2>2. heal \in [Servers -> [pc : {"none", "lock", "link"}, version : Nat, old : BOOLEAN]]
    BY DEF Init, McpInit, NoHeal
  <2>3. worker.pc \notin AtWork
    BY DEF Init, McpInit, Idle, AtWork
  <2> QED
    BY <1>0, <2>1, <2>2, <2>3 DEF Init, McpInit, McpTypes
<1>2. Locked
  BY McpAssumption DEF Init, McpInit, Locked, Idle, NoHeal
<1>3. Waiting /\ Phases
  <2>1. requests \in Seq(Callers)
    BY DEF Init, McpInit
  <2> QED
    BY <2>1 DEF Init, McpInit, Waiting, Phases, Callers
<1>4. Sessions /\ Up /\ Current /\ Matched /\ Right /\ NoOther
  BY DEF Init, McpInit, Sessions, Up, Current, Matched, Right, NoOther, Idle, NoHeal, NoServers, On,
         AtWork
<1> QED
  BY <1>1, <1>2, <1>3, <1>4 DEF Init, McpInit, McpInv

\* connect() and the answers keep at most one caller waiting.
LEMMA AskingIsWaiting ==
  ASSUME Waiting, NEW c \in Callers, call[c] = "idle", NEW is, NEW cfg, Asks(c, is, cfg)
  PROVE  Waiting' /\ \A d \in Callers \ {c} : call'[d] = call[d]
<1>1. CASE is \/ connecting \/ On(cfg) = {}
  BY <1>1 DEF Asks, Waiting
<1>2. CASE ~(is \/ connecting \/ On(cfg) = {})
  <2>1. requests' = Append(requests, c)
    BY <1>2 DEF Asks
  <2>2. requests' \in Seq(Callers)
    BY <2>1 DEF Waiting
  <2> QED
    BY <1>2, <2>2 DEF Asks, Waiting
<1> QED
  BY <1>1, <1>2

LEMMA AnsweringIsDone ==
  ASSUME Waiting, NEW c \in Callers, NEW how \in {"returned", "failed"}, Answers(c, how),
         requests' \in Seq(Callers)
  PROVE  Waiting' /\ \A d \in Callers : call[d] = "idle" => call'[d] = "idle"
BY DEF Answers, Waiting

\* A step of the callers alone.
LEMMA CallsKeep ==
  ASSUME McpInv, UNCHANGED <<servers, connected, link, heal, file, odd>>,
         worker' = Revived \/ worker' = worker, Waiting', Phases'
  PROVE  McpInv'
<1>1. worker' = worker \/ (worker' = Idle /\ worker.pc = "ended")
  BY DEF Revived
<1>2. worker' \in WorkerType
      /\ (worker' = worker \/ (worker'.pc = "get" /\ worker.pc = "ended"))
  <2>1. worker \in WorkerType /\ Idle.pc = "get"
    BY DEF McpInv, McpTypes, Idle
  <2> QED
    BY <1>1, <2>1, IdleWorker
<1>3. McpTypes'
  BY <1>2 DEF McpInv, McpTypes, link, AtWork
<1>4. Locked'
  BY <1>2 DEF McpInv, Locked, link
<1>5. Sessions' /\ Up'
  BY <1>2 DEF McpInv, Sessions, Up, link, On
<1>6. Current' /\ Matched' /\ Right' /\ NoOther'
  BY <1>2 DEF McpInv, Current, Matched, Right, NoOther, link, On, AtWork
<1> QED
  BY <1>3, <1>4, <1>5, <1>6 DEF McpInv

LEMMA ConnectsMcp ==
  ASSUME McpInv, NEW t \in Turns, TurnConnects(t)
  PROVE  McpInv'
<1>1. t \in Callers /\ t \notin Reloads
  BY McpAssumption DEF Callers
<1>2. Waiting' /\ \A d \in Callers \ {t} : call'[d] = call[d]
  BY <1>1, AskingIsWaiting DEF McpInv, TurnConnects, Connect
<1>3. Phases'
  BY <1>1, <1>2 DEF McpInv, Phases, TurnConnects, Ours, own, Callers
<1> QED
  BY <1>2, <1>3, CallsKeep DEF TurnConnects, Connect, Ours, own

LEMMA TurnCancelledMcp ==
  ASSUME McpInv, NEW t \in Turns, TurnCancelled(t)
  PROVE  McpInv'
<1>1. t \in Callers /\ requests' \in Seq(Callers)
  BY DEF Callers, McpInv, Waiting, TurnCancelled, Abandons
<1>2. Waiting' /\ \A d \in Callers : call[d] = "idle" => call'[d] = "idle"
  BY <1>1, AnsweringIsDone DEF McpInv, TurnCancelled, Abandons
<1>3. Phases'
  BY <1>2 DEF McpInv, Phases, TurnCancelled, Ours, own, Callers
<1> QED
  BY <1>2, <1>3, CallsKeep DEF TurnCancelled, Abandons, Ours, own

LEMMA BreaksMcp ==
  ASSUME McpInv, NEW s \in Servers, ConnectionBreaks(s)
  PROVE  McpInv'
<1>1. /\ UNCHANGED <<servers, connected, connecting, requests, worker, call, link, file, phase,
                     odd>>
      /\ heal[s].pc = "none" /\ heal' = [heal EXCEPT ![s] = [NoHeal EXCEPT !.pc = "lock"]]
  BY DEF ConnectionBreaks, Breaks, Ours, own
<1>2. heal' \in [Servers -> [pc : {"none", "lock", "link"}, version : Nat, old : BOOLEAN]]
      /\ \A u \in Servers : (heal'[u].pc = "link" <=> heal[u].pc = "link")
                             /\ (heal[u].pc = "link" => heal'[u] = heal[u])
  BY <1>1 DEF McpInv, McpTypes, NoHeal
<1>3. McpTypes' /\ Locked' /\ Waiting' /\ Phases'
  BY <1>1, <1>2 DEF McpInv, McpTypes, Locked, Waiting, Phases, link
<1>4. Sessions' /\ Up' /\ Current' /\ Matched' /\ Right' /\ NoOther'
  BY <1>1, <1>2 DEF McpInv, Sessions, Up, Current, Matched, Right, NoOther, link, On
<1>s. servers' = file'.mcp
  BY <1>1 DEF McpInv
<1> QED
  BY <1>s, <1>3, <1>4 DEF McpInv
-----------------------------------------------------------------------------
LEMMA TakesMcp ==
  ASSUME McpInv, Takes, UNCHANGED <<own, odd>>
  PROVE  McpInv'
<1> DEFINE c == Head(requests)
<1>1. c \in Callers /\ requests' \in Seq(Callers)
  BY DEF McpInv, Waiting, Takes
<1>2. UNCHANGED <<servers, connected, link, heal, file, phase, odd>>
  BY DEF Takes, own
<1>3. CASE On(servers) = {}
  <2>1. Answers(c, "returned") /\ worker' = worker
    BY <1>3 DEF Takes
  <2>2. Waiting' /\ \A d \in Callers : call[d] = "idle" => call'[d] = "idle"
    BY <1>1, <2>1, AnsweringIsDone DEF McpInv
  <2>3. Phases'
    BY <1>2, <2>2 DEF McpInv, Phases, Callers
  <2> QED
    BY <1>2, <2>1, <2>2, <2>3, CallsKeep
<1>4. CASE On(servers) # {}
  <2>1. /\ worker' = [Idle EXCEPT !.pc = "lock", !.by = c, !.cfg = servers]
        /\ UNCHANGED <<call, connecting>> /\ worker.pc = "get"
    BY <1>4 DEF Takes
  <2>2. worker' \in WorkerType
    BY <1>1, <2>1 DEF McpInv, McpTypes, WorkerType, Idle, Steps, AtWork
  <2>3. worker'.pc = "lock" /\ ~worker'.old /\ worker'.cfg = servers /\ worker'.by \in Callers
    BY <1>1, <2>1 DEF Idle
  <2>4. Waiting' /\ Phases'
    BY <1>1, <1>2, <2>1 DEF McpInv, Waiting, Phases
  <2>5. McpTypes' /\ Locked'
    BY <1>2, <2>1, <2>2, <2>3 DEF McpInv, McpTypes, Locked, link
  <2>6. Sessions' /\ Up' /\ Current' /\ Matched' /\ Right' /\ NoOther'
    BY <1>2, <2>1, <2>3 DEF McpInv, Sessions, Up, Current, Matched, Right, NoOther, link, On
  <2> QED
    BY <1>2, <2>4, <2>5, <2>6 DEF McpInv
<1> QED
  BY <1>3, <1>4

LEMMA LocksMcp ==
  ASSUME McpInv, Locks, UNCHANGED <<own, odd>>
  PROVE  McpInv'
<1> DEFINE left == {s \in On(sessions) : configs[s] # worker.cfg[s]}
<1>1. /\ UNCHANGED <<servers, connected, connecting, requests, call, sessions, configs, wrapped,
                     offers, heal, down, file, phase, odd>>
      /\ worker.pc = "lock" /\ mutex = "free" /\ mutex' = "worker"
      /\ registry' \in {"none", "present", "old"}
      /\ worker' = [worker EXCEPT !.pc = "remove", !.todo = left]
  BY DEF Locks, own, Registered
<1>2. worker' \in WorkerType
  BY <1>1 DEF McpInv, McpTypes, WorkerType, Steps, AtWork, On
<1>3. /\ worker'.pc = "remove" /\ worker'.todo = left
      /\ worker'.old = worker.old /\ worker'.cfg = worker.cfg /\ worker'.by = worker.by
  BY <1>1 DEF McpInv, McpTypes, WorkerType
<1>4. McpTypes'
  BY <1>1, <1>2, <1>3 DEF McpInv, McpTypes, AtWork
<1>5. Locked'
  BY <1>1, <1>3, McpAssumption DEF McpInv, Locked
<1>6. Waiting' /\ Phases'
  BY <1>1 DEF McpInv, Waiting, Phases
<1>7. Sessions' /\ Up' /\ Current' /\ Matched' /\ Right' /\ NoOther'
  BY <1>1, <1>3 DEF McpInv, Sessions, Up, Current, Matched, Right, NoOther, On, AtWork
<1>s. servers' = file'.mcp
  BY <1>1 DEF McpInv
<1> QED
  BY <1>s, <1>4, <1>5, <1>6, <1>7 DEF McpInv

LEMMA RemovesMcp ==
  ASSUME McpInv, NEW s \in Servers, Removes(s), UNCHANGED <<own, odd>>
  PROVE  McpInv'
<1>1. /\ UNCHANGED <<servers, connected, connecting, requests, call, registry, mutex, heal, file,
                     phase, odd>>
      /\ worker.pc = "remove" /\ s \in worker.todo
      /\ worker' = [worker EXCEPT !.todo = @ \ {s}]
      /\ sessions' = [sessions EXCEPT ![s] = 0] /\ configs' = [configs EXCEPT ![s] = 0]
      /\ wrapped' = wrapped \ {s} /\ down' = down \ {s}
      /\ offers' = IF worker.old \/ s \notin wrapped THEN offers ELSE offers \ {s}
  BY DEF Removes, own
<1>2. worker' \in WorkerType
  BY <1>1 DEF McpInv, McpTypes, WorkerType, Steps, AtWork, On
<1>3. /\ worker'.pc = "remove" /\ worker'.todo = worker.todo \ {s}
      /\ worker'.old = worker.old /\ worker'.cfg = worker.cfg /\ worker'.by = worker.by
  BY <1>1 DEF McpInv, McpTypes, WorkerType
<1>4. /\ sessions' \in Versions /\ configs' \in Versions
      /\ sessions'[s] = 0 /\ configs'[s] = 0
      /\ \A u \in Servers \ {s} : sessions'[u] = sessions[u] /\ configs'[u] = configs[u]
  BY <1>1 DEF McpInv, McpTypes, Versions
<1>5. McpTypes'
  BY <1>1, <1>2, <1>3, <1>4 DEF McpInv, McpTypes, AtWork
<1>6. Locked' /\ Waiting' /\ Phases'
  BY <1>1, <1>3 DEF McpInv, Locked, Waiting, Phases
<1>7. \A u \in Servers : heal[u].pc # "link"
  BY <1>1, McpAssumption DEF McpInv, Locked
<1>8. Sessions' /\ Up'
  BY <1>1, <1>3, <1>4, <1>7 DEF McpInv, Sessions, Up, On
<1>9. Current' /\ Matched' /\ NoOther'
  BY <1>1, <1>3 DEF McpInv, Current, Matched, NoOther, AtWork
<1>10. Right'
  <2> SUFFICES ASSUME connected, odd \cap {"linking", "unhealed"} = {}
               PROVE  FALSE
    BY <1>1 DEF Right
  <2>1. worker.cfg = servers
    BY <1>1 DEF McpInv, Current, AtWork
  <2>2. s \in On(sessions) /\ configs[s] # servers[s]
    BY <1>1, <2>1 DEF McpInv, Sessions
  <2>3. sessions[s] = configs[s] /\ configs[s] # 0
    BY <2>2 DEF McpInv, Sessions, On
  <2> QED
    BY <2>2, <2>3 DEF McpInv, Right
<1>s. servers' = file'.mcp
  BY <1>1 DEF McpInv
<1> QED
  BY <1>s, <1>5, <1>6, <1>8, <1>9, <1>10 DEF McpInv

LEMMA RemovedMcp ==
  ASSUME McpInv, Removed, UNCHANGED <<own, odd>>
  PROVE  McpInv'
<1>1. /\ UNCHANGED <<servers, connected, connecting, requests, call, link, heal, file, phase, odd>>
      /\ worker.pc = "remove" /\ worker.todo = {}
      /\ worker' = [worker EXCEPT !.pc = "link", !.todo = On(worker.cfg) \ On(sessions)]
  BY DEF Removed, own
<1>2. worker' \in WorkerType
  BY <1>1 DEF McpInv, McpTypes, WorkerType, Steps, AtWork, On
<1>3. /\ worker'.pc = "link" /\ worker'.todo = On(worker.cfg) \ On(sessions)
      /\ worker'.old = worker.old /\ worker'.cfg = worker.cfg /\ worker'.by = worker.by
  BY <1>1 DEF McpInv, McpTypes, WorkerType
<1>4. McpTypes'
  BY <1>1, <1>2, <1>3 DEF McpInv, McpTypes, AtWork, link
<1>5. Locked' /\ Waiting' /\ Phases'
  BY <1>1, <1>3 DEF McpInv, Locked, Waiting, Phases, link
<1>6. \A u \in Servers : heal[u].pc # "link"
  BY <1>1, McpAssumption DEF McpInv, Locked
<1>7. Sessions' /\ Up' /\ Current' /\ Right' /\ NoOther'
  BY <1>1, <1>3 DEF McpInv, Sessions, Up, Current, Right, NoOther, On, AtWork, link
<1>8. Matched'
  <2> SUFFICES ASSUME "unhealed" \notin odd, NEW u \in Servers
               PROVE  configs[u] \in {0, worker.cfg[u]}
    BY <1>1, <1>3 DEF Matched, link
  <2>1. configs[u] = sessions[u]
    BY <1>6 DEF McpInv, Up
  <2> QED
    BY <1>1, <2>1 DEF McpInv, Sessions, On
<1>s. servers' = file'.mcp
  BY <1>1 DEF McpInv
<1> QED
  BY <1>s, <1>4, <1>5, <1>7, <1>8 DEF McpInv

LEMMA LinksMcp ==
  ASSUME McpInv, NEW s \in Servers, Links(s), UNCHANGED <<own, odd>>
  PROVE  McpInv'
<1>1. /\ UNCHANGED <<servers, connected, connecting, requests, call, offers, registry, mutex,
                     heal, file, phase, odd>>
      /\ worker.pc = "link" /\ s \in worker.todo
      /\ worker' = [worker EXCEPT !.todo = @ \ {s}]
  BY DEF Links, own
<1>2. worker' \in WorkerType
  BY <1>1 DEF McpInv, McpTypes, WorkerType, Steps, AtWork, On
<1>3. /\ worker'.pc = "link" /\ worker'.todo = worker.todo \ {s}
      /\ worker'.old = worker.old /\ worker'.cfg = worker.cfg /\ worker'.by = worker.by
  BY <1>1 DEF McpInv, McpTypes, WorkerType
<1>4. \A u \in Servers : heal[u].pc # "link"
  BY <1>1, McpAssumption DEF McpInv, Locked
<1>5. worker.cfg[s] # 0 /\ sessions[s] = 0 /\ worker.cfg \in Versions
  BY <1>1 DEF McpInv, Sessions, On, McpTypes, WorkerType
<1>6. Locked' /\ Waiting' /\ Phases'
  BY <1>1, <1>3 DEF McpInv, Locked, Waiting, Phases
<1>7. Current'
  BY <1>1, <1>3 DEF McpInv, Current, AtWork
<1>8. CASE /\ sessions' = [sessions EXCEPT ![s] = worker.cfg[s]]
           /\ configs' = [configs EXCEPT ![s] = worker.cfg[s]]
           /\ wrapped' = wrapped \cup {s} /\ down' = down \ {s}
  <2>1. /\ sessions' \in Versions /\ configs' \in Versions
        /\ sessions'[s] = worker.cfg[s] /\ configs'[s] = worker.cfg[s]
        /\ \A u \in Servers \ {s} : sessions'[u] = sessions[u] /\ configs'[u] = configs[u]
    BY <1>5, <1>8 DEF McpInv, McpTypes, Versions
  <2>2. McpTypes'
    BY <1>1, <1>2, <1>3, <1>8, <2>1 DEF McpInv, McpTypes, AtWork
  <2>3. Sessions' /\ Up'
    BY <1>1, <1>3, <1>4, <1>5, <1>8, <2>1 DEF McpInv, Sessions, Up, On
  <2>4. Matched' /\ NoOther'
    BY <1>1, <1>3, <1>8, <2>1 DEF McpInv, Matched, NoOther
  <2>5. Right'
    BY <1>1, <1>3, <1>4, <1>8, <2>1 DEF McpInv, Current, AtWork, Right
  <2>s. servers' = file'.mcp
    BY <1>1 DEF McpInv
  <2> QED
    BY <2>s, <1>6, <1>7, <2>2, <2>3, <2>4, <2>5 DEF McpInv
<1>9. CASE down' = down \cup {s} /\ UNCHANGED <<sessions, configs, wrapped>>
  <2>1. McpTypes'
    BY <1>1, <1>2, <1>3, <1>9 DEF McpInv, McpTypes, AtWork
  <2>2. Sessions' /\ Up'
    BY <1>1, <1>3, <1>4, <1>5, <1>9 DEF McpInv, Sessions, Up, On
  <2>3. Matched' /\ NoOther' /\ Right'
    BY <1>1, <1>3, <1>9 DEF McpInv, Matched, NoOther, Right
  <2>s. servers' = file'.mcp
    BY <1>1 DEF McpInv
  <2> QED
    BY <2>s, <1>6, <1>7, <2>1, <2>2, <2>3 DEF McpInv
<1> QED
  BY <1>8, <1>9 DEF Links, Opens

LEMMA LinkedMcp ==
  ASSUME McpInv, Linked, UNCHANGED <<own, odd>>
  PROVE  McpInv'
<1>1. /\ UNCHANGED <<servers, requests, sessions, configs, wrapped, registry, heal, down,
                     file, phase, odd>>
      /\ worker.pc = "link" /\ worker.todo = {} /\ worker' = Idle
      /\ offers' = IF worker.old \/ On(sessions) = {} THEN offers ELSE offers \cup wrapped
      /\ connected' = TRUE /\ mutex' = "free"
      /\ Answers(worker.by, "returned")
  BY DEF Linked, own
<1>2. worker' \in WorkerType /\ worker'.pc = "get"
  BY <1>1, IdleWorker DEF Idle
<1>3. \A u \in Servers : heal[u].pc # "link"
  BY <1>1, McpAssumption DEF McpInv, Locked
<1>4. worker.by \in Callers /\ requests' \in Seq(Callers)
  BY <1>1 DEF McpInv, McpTypes, AtWork, Waiting
<1>5. Waiting' /\ \A d \in Callers : call[d] = "idle" => call'[d] = "idle"
  BY <1>1, <1>4, AnsweringIsDone DEF McpInv
<1>6. Phases'
  BY <1>1, <1>5 DEF McpInv, Phases, Callers
<1>7. McpTypes'
  BY <1>1, <1>2 DEF McpInv, McpTypes, AtWork
<1>8. Locked'
  BY <1>1, <1>2, <1>3, McpAssumption DEF McpInv, Locked
<1>9. Sessions' /\ Up' /\ Current' /\ Matched' /\ NoOther'
  BY <1>1, <1>2, <1>3 DEF McpInv, Sessions, Up, Current, Matched, NoOther, On, AtWork
<1>10. Right'
  <2> SUFFICES ASSUME odd \cap {"linking", "unhealed"} = {}
               PROVE  /\ \A u \in Servers : configs[u] \in {0, servers[u]}
                      /\ \A u \in Servers : u \in down \/ sessions[u] = servers[u]
                      /\ wrapped \subseteq offers'
    BY <1>1, <1>2 DEF Right
  <2>1. worker.cfg = servers /\ ~worker.old
    BY <1>1 DEF McpInv, Current, AtWork
  <2>2. \A u \in Servers : configs[u] \in {0, servers[u]} /\ configs[u] = sessions[u]
    BY <1>1, <1>3, <2>1 DEF McpInv, Matched, Up
  <2>3. \A u \in Servers : u \in down \/ sessions[u] = servers[u]
    BY <1>1, <2>1, <2>2 DEF McpInv, Sessions, On
  <2>4. wrapped = On(sessions)
    BY <2>2 DEF McpInv, Sessions, On
  <2> QED
    BY <1>1, <2>1, <2>2, <2>3, <2>4
<1>s. servers' = file'.mcp
  BY <1>1 DEF McpInv
<1> QED
  BY <1>s, <1>5, <1>6, <1>7, <1>8, <1>9, <1>10 DEF McpInv

LEMMA EndsMcp ==
  ASSUME McpInv, Ends, UNCHANGED own, odd' = odd \cup {"toolsLeft"}
  PROVE  McpInv'
<1>1. /\ UNCHANGED <<servers, connecting, requests, call, offers, mutex, heal, down, file, phase>>
      /\ worker.pc = "final" /\ worker' = [Idle EXCEPT !.pc = "ended"]
      /\ sessions' = NoServers /\ configs' = NoServers /\ wrapped' = {} /\ registry' = "none"
      /\ connected' = FALSE
  BY DEF Ends, own
<1>2. worker' \in WorkerType /\ worker'.pc = "ended"
  BY <1>1, IdleWorker DEF Idle, WorkerType, Steps
<1>3. McpTypes'
  BY <1>1, <1>2, IdleWorker DEF McpInv, McpTypes, AtWork
<1>4. Locked' /\ Waiting' /\ Phases'
  BY <1>1, <1>2 DEF McpInv, Locked, Waiting, Phases
<1>5. Sessions' /\ Up' /\ Current' /\ Matched' /\ Right' /\ NoOther'
  BY <1>1, <1>2 DEF McpInv, McpTypes, Sessions, Up, Current, Matched, Right, NoOther, On, AtWork,
                    NoServers
<1>s. servers' = file'.mcp
  BY <1>1 DEF McpInv
<1> QED
  BY <1>s, <1>3, <1>4, <1>5 DEF McpInv

LEMMA HealLocksMcp ==
  ASSUME McpInv, NEW s \in Servers, HealLocks(s), UNCHANGED <<own, odd>>
  PROVE  McpInv'
<1>1. /\ UNCHANGED <<servers, connected, connecting, requests, worker, call, configs, wrapped,
                     offers, registry, down, file, phase, odd>>
      /\ heal[s].pc = "lock" /\ mutex = "free"
  BY DEF HealLocks, own
<1>2. McpTypes /\ Locked /\ Sessions
  BY DEF McpInv
<1>3. worker.pc \notin {"remove", "link"} /\ \A u \in Servers : heal[u].pc # "link"
  BY <1>1, <1>2, McpAssumption DEF Locked
<1>4. Waiting' /\ Phases' /\ Current' /\ Matched' /\ NoOther'
  BY <1>1 DEF McpInv, Waiting, Phases, Current, Matched, NoOther
<1>5. CASE registry = "none" \/ configs[s] = 0
  <2>1. heal' = [heal EXCEPT ![s] = NoHeal] /\ UNCHANGED <<mutex, sessions>>
    BY <1>5 DEF HealLocks
  <2>2. heal' \in [Servers -> [pc : {"none", "lock", "link"}, version : Nat, old : BOOLEAN]]
        /\ \A u \in Servers : heal'[u].pc # "link"
    BY <1>2, <1>3, <2>1 DEF McpTypes, NoHeal
  <2>3. McpTypes' /\ Locked'
    BY <1>1, <1>2, <1>3, <2>1, <2>2 DEF McpTypes, Locked
  <2>4. Sessions' /\ Up' /\ Right'
    BY <1>1, <1>3, <2>1, <2>2 DEF McpInv, Sessions, Up, Right, On
  <2>s. servers' = file'.mcp
    BY <1>1 DEF McpInv
  <2> QED
    BY <2>s, <1>4, <2>3, <2>4 DEF McpInv
<1>6. CASE ~(registry = "none" \/ configs[s] = 0)
  <2>1. /\ heal' = [heal EXCEPT ![s] = [pc |-> "link", version |-> configs[s],
                                        old |-> registry = "old"]]
        /\ mutex' = s /\ sessions' = [sessions EXCEPT ![s] = 0]
    BY <1>6 DEF HealLocks
  <2>2. configs[s] \in Nat
    BY <1>2 DEF McpTypes, Versions
  <2>3. /\ heal' \in [Servers -> [pc : {"none", "lock", "link"}, version : Nat, old : BOOLEAN]]
        /\ heal'[s].pc = "link" /\ heal'[s].version = configs[s]
        /\ \A u \in Servers \ {s} : heal'[u].pc # "link"
    BY <1>2, <1>3, <2>1, <2>2 DEF McpTypes
  <2>4. /\ sessions' \in Versions /\ sessions'[s] = 0
        /\ \A u \in Servers \ {s} : sessions'[u] = sessions[u]
    BY <1>2, <2>1 DEF McpTypes, Versions
  <2>5. McpTypes'
    BY <1>1, <1>2, <2>3, <2>4 DEF McpTypes
  <2>6. Locked'
    BY <1>1, <1>2, <1>3, <2>1, <2>3, McpAssumption DEF Locked
  <2>7. Sessions' /\ Up'
    <3>1. \A u \in Servers : heal'[u].pc = "link" =>
            sessions'[u] = 0 /\ heal'[u].version # 0 /\ heal'[u].version = configs'[u]
      BY <1>1, <1>6, <2>3, <2>4
    <3>2. \A u \in Servers : sessions'[u] \in {0, configs'[u]}
      BY <1>1, <1>2, <2>4 DEF Sessions
    <3>3. \A u \in down' : sessions'[u] = 0
      BY <1>1, <1>2, <2>4 DEF Sessions, McpTypes
    <3>4. Sessions'
      BY <1>1, <1>2, <1>3, <3>1, <3>2, <3>3 DEF Sessions, On
    <3>5. Up'
      BY <1>1, <1>3, <2>3, <2>4 DEF McpInv, Up
    <3> QED
      BY <3>4, <3>5
  <2>8. Right'
    BY <1>1, <1>3, <2>3, <2>4 DEF McpInv, Right
  <2>s. servers' = file'.mcp
    BY <1>1 DEF McpInv
  <2> QED
    BY <2>s, <1>4, <2>5, <2>6, <2>7, <2>8 DEF McpInv
<1> QED
  BY <1>5, <1>6

LEMMA HealLinksMcp ==
  ASSUME McpInv, NEW s \in Servers, HealLinks(s), UNCHANGED own,
         odd \subseteq odd', s \in down' => "unhealed" \in odd'
  PROVE  McpInv'
<1> DEFINE version == heal[s].version
<1>1. /\ UNCHANGED <<servers, connected, connecting, requests, worker, call, file, phase>>
      /\ heal[s].pc = "link" /\ heal' = [heal EXCEPT ![s] = NoHeal]
      /\ offers' = IF heal[s].old \/ On(sessions') = {} THEN offers ELSE offers \cup wrapped'
      /\ registry' \in {"none", "present", "old"} /\ mutex' = "free"
  BY DEF HealLinks, own, Registered
<1>2. McpTypes /\ Locked /\ Sessions
  BY DEF McpInv
<1>3. /\ mutex = s /\ worker.pc \notin {"remove", "link"}
      /\ \A u \in Servers \ {s} : heal[u].pc # "link"
  BY <1>1, <1>2, McpAssumption DEF Locked
<1>4. sessions[s] = 0 /\ version # 0 /\ version \in Nat /\ (connected => version = configs[s])
  BY <1>1, <1>2 DEF Sessions, McpTypes
<1>5. /\ heal' \in [Servers -> [pc : {"none", "lock", "link"}, version : Nat, old : BOOLEAN]]
      /\ \A u \in Servers : heal'[u].pc # "link"
  BY <1>1, <1>2, <1>3 DEF McpTypes, NoHeal
<1>6. Locked'
  BY <1>1, <1>2, <1>3, <1>5, McpAssumption DEF Locked
<1>7. Waiting' /\ Phases'
  BY <1>1 DEF McpInv, Waiting, Phases
<1>8. Current' /\ Matched'
  BY <1>1, <1>3 DEF McpInv, Current, Matched
<1>9. CASE /\ sessions' = [sessions EXCEPT ![s] = version]
           /\ configs' = [configs EXCEPT ![s] = version]
           /\ wrapped' = wrapped \cup {s} /\ down' = down \ {s}
  <2>1. /\ sessions' \in Versions /\ configs' \in Versions
        /\ sessions'[s] = version /\ configs'[s] = version
        /\ \A u \in Servers \ {s} : sessions'[u] = sessions[u] /\ configs'[u] = configs[u]
    BY <1>2, <1>4, <1>9 DEF McpTypes, Versions
  <2>2. McpTypes'
    BY <1>1, <1>2, <1>5, <1>9, <2>1 DEF McpTypes
  <2>3. wrapped' = On(configs')
    BY <1>2, <1>4, <1>9, <2>1 DEF Sessions, On
  <2>4. \A u \in down' : sessions'[u] = 0
    BY <1>2, <1>9, <2>1 DEF Sessions, McpTypes
  <2>5. \A u \in Servers : sessions'[u] \in {0, configs'[u]}
    BY <1>2, <2>1 DEF Sessions
  <2>6. Sessions'
    BY <1>1, <1>3, <1>5, <2>3, <2>4, <2>5 DEF Sessions
  <2>7. Up'
    BY <1>3, <2>1 DEF McpInv, Up
  <2>8. NoOther'
    BY <1>1, <1>9 DEF McpInv, NoOther
  <2>9. Right'
    <3> SUFFICES ASSUME connected, odd' \cap {"linking", "unhealed"} = {}
                 PROVE  /\ \A u \in Servers : configs'[u] \in {0, servers[u]}
                        /\ \A u \in Servers : u \in down' \/ sessions'[u] = servers[u]
                        /\ worker.pc # "link" /\ "halfLinked" \notin odd' =>
                              wrapped' \subseteq offers'
      BY <1>1 DEF Right
    <3>1. Right /\ odd \cap {"linking", "unhealed"} = {}
      BY DEF McpInv
    <3>2. \A u \in Servers : configs'[u] = configs[u]
      BY <1>4, <2>1
    <3>3. \A u \in Servers : configs'[u] \in {0, servers[u]}
      BY <3>1, <3>2 DEF Right
    <3>4. \A u \in Servers : u \in down' \/ sessions'[u] = servers[u]
      BY <1>3, <1>4, <1>9, <2>1, <3>1, <3>3 DEF Right
    <3>5. s \in wrapped /\ wrapped' = wrapped
      BY <1>2, <1>4, <1>9 DEF Sessions, On
    <3>6. ASSUME worker.pc # "link", "halfLinked" \notin odd'
          PROVE  wrapped' \subseteq offers'
      BY <1>1, <3>1, <3>5, <3>6 DEF Right
    <3> QED
      BY <3>3, <3>4, <3>6
  <2>s. servers' = file'.mcp
    BY <1>1 DEF McpInv
  <2> QED
    BY <2>s, <1>6, <1>7, <1>8, <2>2, <2>6, <2>7, <2>8, <2>9 DEF McpInv
<1>10. CASE down' = down \cup {s} /\ UNCHANGED <<sessions, configs, wrapped>>
  <2>1. "unhealed" \in odd'
    BY <1>10
  <2>2. McpTypes'
    BY <1>1, <1>2, <1>5, <1>10 DEF McpTypes
  <2>3. Sessions' /\ Up'
    BY <1>1, <1>2, <1>3, <1>4, <1>5, <1>10, <2>1 DEF Sessions, Up, On
  <2>4. NoOther' /\ Right'
    BY <1>1, <1>10, <2>1 DEF McpInv, NoOther, Right
  <2>s. servers' = file'.mcp
    BY <1>1 DEF McpInv
  <2> QED
    BY <2>s, <1>6, <1>7, <1>8, <2>2, <2>3, <2>4 DEF McpInv
<1> QED
  BY <1>9, <1>10 DEF HealLinks, Opens

LEMMA CancelsWorkerMcp ==
  ASSUME McpInv, CancelsWorker
  PROVE  McpInv'
<1>1. /\ UNCHANGED <<servers, connected, requests, sessions, configs, wrapped, offers, registry,
                     heal, down, file, phase>>
      /\ odd' = odd \cup (IF worker.pc = "link" THEN {"halfLinked"} ELSE {})
  BY DEF CancelsWorker, WorkerCancelled, own
<1>2. McpTypes /\ Locked /\ Sessions /\ Up /\ Right /\ NoOther
  BY DEF McpInv
<1>3. ASSUME worker' \in WorkerType, worker'.pc \in {"get", "final"},
             mutex' = IF mutex = "worker" THEN "free" ELSE mutex, Waiting', Phases'
      PROVE  McpInv'
  <2>1. McpTypes'
    BY <1>1, <1>2, <1>3 DEF McpTypes, AtWork
  <2>2. Locked'
    BY <1>1, <1>2, <1>3, McpAssumption DEF Locked
  <2>3. Sessions' /\ Up' /\ Current' /\ Matched' /\ NoOther'
    BY <1>1, <1>2, <1>3 DEF Sessions, Up, Current, Matched, NoOther, On, AtWork
  <2>4. Right'
    BY <1>1, <1>2, <1>3 DEF Right
  <2>s. servers' = file'.mcp
    BY <1>1 DEF McpInv
  <2> QED
    BY <2>s, <1>3, <2>1, <2>2, <2>3, <2>4 DEF McpInv
<1>4. CASE /\ worker.pc = "get" /\ worker' = [Idle EXCEPT !.pc = "final"]
           /\ UNCHANGED <<mutex, call, connecting>>
  <2>1. worker' \in WorkerType /\ worker'.pc = "final"
    BY <1>4, IdleWorker DEF Idle, WorkerType, Steps
  <2>2. Waiting' /\ Phases'
    BY <1>1, <1>4 DEF McpInv, Waiting, Phases
  <2>3. mutex' = IF mutex = "worker" THEN "free" ELSE mutex
    BY <1>2, <1>4 DEF Locked
  <2> QED
    BY <1>3, <2>1, <2>2, <2>3
<1>5. CASE /\ worker.pc \in AtWork /\ worker' = Idle
           /\ mutex' = IF mutex = "worker" THEN "free" ELSE mutex
           /\ Answers(worker.by, "failed")
  <2>1. worker' \in WorkerType /\ worker'.pc = "get"
    BY <1>5, IdleWorker DEF Idle
  <2>2. worker.by \in Callers /\ requests' \in Seq(Callers)
    BY <1>1, <1>2, <1>5 DEF McpTypes, McpInv, Waiting
  <2>3. Waiting' /\ \A d \in Callers : call[d] = "idle" => call'[d] = "idle"
    BY <1>5, <2>2, AnsweringIsDone DEF McpInv
  <2>4. Phases'
    BY <1>1, <2>3 DEF McpInv, Phases, Callers
  <2> QED
    BY <1>3, <1>5, <2>1, <2>3, <2>4
<1> QED
  BY <1>4, <1>5 DEF CancelsWorker, WorkerCancelled, AtWork

LEMMA SavesMcp ==
  ASSUME McpInv, NEW r \in Reloads, NEW cfg \in Configs, Saves(r, cfg)
  PROVE  McpInv'
<1> DEFINE mcp == cfg.mcp
           stays == connected /\ mcp = servers
           connects == mcp # servers /\ On(mcp) # {}
           revived == IF connects THEN Revived ELSE worker
<1>1. /\ phase[r] = "none" /\ file' = cfg /\ mcp \in Versions /\ r \in Callers
      /\ odd' = odd \cup (IF Reloading # {} THEN {"overlap"} ELSE {})
                    \cup (IF Linking THEN {"linking"} ELSE {})
  BY ReloadAssumption DEF Saves, Versions, Callers
<1>2. /\ servers' = mcp /\ connected' = stays
      /\ offers' = IF On(sessions) = {} THEN {} ELSE wrapped
      /\ registry' = IF registry = "present" THEN "old" ELSE registry
      /\ heal' = [s \in Servers |-> [heal[s] EXCEPT !.old = heal[s].pc = "link"]]
      /\ worker' = [revived EXCEPT !.old = worker.pc \in AtWork]
      /\ IF connects THEN Asks(r, stays, mcp)
         ELSE call' = [call EXCEPT ![r] = "returned"] /\ UNCHANGED <<connecting, requests>>
      /\ UNCHANGED <<sessions, configs, wrapped, mutex, down>>
  BY DEF Saves, Reconfigure, StaysConnected, AtWork
<1>3. McpTypes /\ Locked /\ Sessions /\ Up
  BY DEF McpInv
<1>4. call[r] = "idle" /\ phase \in [Reloads -> {"none", "agent", "channels", "done", "failed"}]
  BY <1>1 DEF McpInv, Phases
<1>5. Waiting' /\ \A d \in Callers \ {r} : call'[d] = call[d]
  <2>1. CASE connects
    BY <1>1, <1>2, <1>4, <2>1, AskingIsWaiting DEF McpInv
  <2>2. CASE ~connects
    BY <1>1, <1>2, <1>4, <2>2 DEF McpInv, Waiting
  <2> QED
    BY <2>1, <2>2
<1>6. \E p \in {"agent", "channels", "done"} : phase' = [phase EXCEPT ![r] = p]
  BY DEF Saves, GoesOn
<1>7. Phases'
  BY <1>4, <1>5, <1>6 DEF McpInv, Phases, Callers
<1>8. revived \in WorkerType /\ (revived = worker \/ (revived.pc = "get" /\ worker.pc = "ended"))
  <2>1. worker \in WorkerType /\ Idle.pc = "get"
    BY <1>3 DEF McpTypes, Idle
  <2>2. revived = worker \/ (revived = Idle /\ worker.pc = "ended")
    BY DEF Revived
  <2> QED
    BY <2>1, <2>2, IdleWorker
<1>9. /\ worker' \in WorkerType /\ worker'.cfg = revived.cfg /\ worker'.pc = revived.pc
      /\ worker'.todo = revived.todo /\ worker'.by = revived.by
  <2>1. (worker.pc \in AtWork) \in BOOLEAN
    OBVIOUS
  <2> QED
    BY <1>2, <1>8, <2>1, OldChanges, Zenon
<1>10. \/ /\ worker'.pc = worker.pc /\ worker'.todo = worker.todo /\ worker'.cfg = worker.cfg
          /\ worker'.by = worker.by
       \/ worker'.pc = "get" /\ worker.pc = "ended"
  BY <1>8, <1>9
<1>11. /\ heal' \in [Servers -> [pc : {"none", "lock", "link"}, version : Nat, old : BOOLEAN]]
       /\ \A s \in Servers : heal'[s].pc = heal[s].pc /\ heal'[s].version = heal[s].version
  BY <1>2, <1>3 DEF McpTypes
<1>12. McpTypes'
  BY <1>1, <1>2, <1>3, <1>9, <1>10, <1>11 DEF McpTypes, AtWork
<1>13. Locked'
  BY <1>2, <1>3, <1>10, <1>11 DEF Locked
<1>14. Sessions' /\ Up'
  <2>1. \A s \in Servers : heal'[s].pc = "link" => heal[s].pc = "link"
    BY <1>11
  <2>2. \A s \in Servers : sessions[s] \in {0, configs[s]}
    BY <1>3 DEF Sessions
  <2>3. /\ \A s \in Servers : heal'[s].pc = "link" =>
               sessions[s] = 0 /\ heal'[s].version # 0 /\ (stays => heal'[s].version = configs[s])
        /\ \A s \in down : sessions[s] = 0
    BY <1>3, <1>11 DEF Sessions
  <2>4. /\ worker'.pc = "remove" =>
             worker'.todo = {s \in On(sessions) : configs[s] # worker'.cfg[s]}
        /\ worker'.pc = "link" => /\ worker'.todo \subseteq On(worker'.cfg) \ On(sessions)
                                  /\ On(worker'.cfg) \ On(sessions) \subseteq worker'.todo \cup down
    BY <1>3, <1>10 DEF Sessions
  <2>5. wrapped' = On(configs') /\ On(sessions') = On(sessions)
    BY <1>2, <1>3 DEF Sessions, On
  <2>6. Sessions'
    BY <1>2, <2>2, <2>3, <2>4, <2>5 DEF Sessions
  <2>7. Up'
    BY <1>1, <1>2, <1>3, <1>11 DEF Up
  <2> QED
    BY <2>6, <2>7
<1>15. Current' /\ Matched'
  <2>1. Current'
    BY <1>1, <1>10 DEF Current, Linking, AtWork
  <2>2. Matched'
    BY <1>1, <1>2, <1>10 DEF McpInv, Matched
  <2> QED
    BY <2>1, <2>2
<1>16. NoOther'
  BY <1>2 DEF NoOther
<1>17. Right'
  <2> SUFFICES ASSUME connected, mcp = servers, odd' \cap {"linking", "unhealed"} = {}
               PROVE  /\ \A u \in Servers : configs[u] \in {0, servers[u]}
                      /\ \A u \in Servers : u \in down \/ heal'[u].pc = "link"
                                                      \/ sessions[u] = servers[u]
                      /\ worker'.pc # "link" /\ "halfLinked" \notin odd' => wrapped \subseteq offers'
    BY <1>2 DEF Right
  <2>1. odd \cap {"linking", "unhealed"} = {} /\ ~Linking
    BY <1>1
  <2>2. wrapped = On(sessions)
    BY <1>3, <2>1 DEF Sessions, Up, Linking, On
  <2> QED
    BY <1>2, <1>11, <2>1, <2>2 DEF McpInv, Right
<1>s. servers' = file'.mcp
  BY <1>1, <1>2
<1> QED
  BY <1>s, <1>2, <1>5, <1>7, <1>12, <1>13, <1>14, <1>15, <1>16, <1>17 DEF McpInv

\* The steps of the channels and of the reloads among them touch nothing of the servers.
LEMMA ElsewhereMcp ==
  ASSUME McpInv, UNCHANGED <<mcpVars, file>>, Phases', odd' = odd \/ odd' = odd \cup {"failed"}
  PROVE  McpInv'
<1>1. UNCHANGED <<servers, connected, connecting, requests, worker, call, sessions, configs, wrapped,
                  offers, registry, mutex, down, heal, file>>
  BY DEF mcpVars, link
<1>2. \A o \in {"linking", "unhealed", "halfLinked", "toolsLeft"} : o \in odd' <=> o \in odd
  OBVIOUS
<1>3. McpTypes' /\ Locked' /\ Waiting'
  BY <1>1 DEF McpInv, McpTypes, Locked, Waiting
<1>4. Sessions' /\ Up' /\ Current' /\ Matched'
  BY <1>1, <1>2 DEF McpInv, Sessions, Up, Current, Matched, On
<1>5. Right' /\ NoOther'
  BY <1>1, <1>2 DEF McpInv, Right, NoOther
<1>s. servers' = file'.mcp
  BY <1>1 DEF McpInv
<1> QED
  BY <1>s, <1>3, <1>4, <1>5 DEF McpInv

LEMMA McpStepMcp ==
  ASSUME McpInv, McpStep
  PROVE  McpInv'
<1>1. UNCHANGED own /\ McpWorks
      /\ odd' = odd \cup (IF WorkerEnds THEN {"toolsLeft"} ELSE {})
                    \cup (IF \E s \in Servers : StaysAway(s) THEN {"unhealed"} ELSE {})
  BY DEF McpStep
<1>2. ASSUME worker' = worker \/ worker.pc # "final",
             heal' = heal \/ \A s \in Servers : heal[s].pc # "link"
      PROVE  odd' = odd
  <2>1. ~\E s \in Servers : StaysAway(s)
    BY <1>2 DEF StaysAway
  <2>2. ~WorkerEnds
    BY <1>2 DEF WorkerEnds
  <2> QED
    BY <1>1, <2>1, <2>2
<1>3. CASE Takes
  BY <1>1, <1>2, <1>3, TakesMcp DEF Takes
<1>4. CASE Locks
  BY <1>1, <1>2, <1>4, LocksMcp DEF Locks
<1>5. ASSUME NEW s \in Servers, Removes(s) PROVE McpInv'
  BY <1>1, <1>2, <1>5, RemovesMcp DEF Removes
<1>6. ASSUME NEW s \in Servers, Links(s) PROVE McpInv'
  BY <1>1, <1>2, <1>6, LinksMcp DEF Links
<1>7. CASE Removed
  BY <1>1, <1>2, <1>7, RemovedMcp DEF Removed
<1>8. CASE Linked
  BY <1>1, <1>2, <1>8, LinkedMcp DEF Linked
<1>9. CASE Ends
  <2>1. ~\E s \in Servers : StaysAway(s)
    BY <1>9 DEF Ends, StaysAway
  <2>2. WorkerEnds
    BY <1>9 DEF Ends, WorkerEnds, Idle
  <2> QED
    BY <1>1, <1>9, <2>1, <2>2, EndsMcp
<1>10. ASSUME NEW s \in Servers, HealLocks(s) PROVE McpInv'
  <2>1. \A u \in Servers : heal[u].pc # "link"
    BY <1>10, McpAssumption DEF HealLocks, McpInv, Locked
  <2> QED
    BY <1>2, <1>10, <2>1, HealLocksMcp, <1>1 DEF HealLocks
<1>11. ASSUME NEW s \in Servers, HealLinks(s) PROVE McpInv'
  <2>1. s \in down' => StaysAway(s)
    BY <1>11 DEF HealLinks, StaysAway, McpInv, McpTypes, NoHeal
  <2> QED
    BY <1>1, <1>11, <2>1, HealLinksMcp
<1> QED
  BY <1>1, <1>3, <1>4, <1>5, <1>6, <1>7, <1>8, <1>9, <1>10, <1>11 DEF McpWorks
-----------------------------------------------------------------------------
\* A finite set in a sequence: each of its members is there once.
LEMMA SetInSequence ==
  ASSUME NEW S, IsFiniteSet(S)
  PROVE  LET q == SetToSeq(S)
             at(c) == CHOOSE i \in DOMAIN q : q[i] = c
         IN /\ q \in Seq(S) /\ DOMAIN q = 1..Len(q) /\ Range(q) = S
            /\ \A c \in S : at(c) \in 1..Len(q) /\ q[at(c)] = c
            /\ \A i \in 1..Len(q) : q[i] \in S /\ at(q[i]) = i
<1> DEFINE n == Cardinality(S)
           q == SetToSeq(S)
           at(c) == CHOOSE i \in DOMAIN q : q[i] = c
<1>1. n \in Nat /\ ExistsBijection(1..n, S)
  BY FS_CardinalityType
<1>2. PICK f \in Bijection(1..n, S) : TRUE
  BY <1>1 DEF ExistsBijection
<1>3. f \in [1..n -> S] /\ IsInjective(f)
  BY <1>2 DEF Bijection, Injection
<1>4. q \in [1..n -> S] /\ IsInjective(q)
  BY <1>3 DEF SetToSeq
<1>5. q \in Injection(1..n, S)
  BY <1>4 DEF Injection
<1>6. IsFiniteSet(1..n) /\ Cardinality(1..n) = n
  BY <1>1, FS_Interval
<1>7. q \in Surjection(1..n, S)
  BY <1>5, <1>6, FS_Injection
<1>8. \A c \in S : \E i \in 1..n : q[i] = c
  BY <1>7 DEF Surjection
<1>9. q \in Seq(S) /\ Len(q) = n /\ DOMAIN q = 1..n
  BY <1>1, <1>4
<1> HIDE DEF q, n
<1>10. \A c \in S : at(c) \in 1..n /\ q[at(c)] = c
  BY <1>8, <1>9
<1>11. \A i \in 1..n : q[i] \in S /\ at(q[i]) = i
  <2> TAKE i \in 1..n
  <2>1. q[i] \in S
    BY <1>4
  <2>2. at(q[i]) \in 1..n /\ q[at(q[i])] = q[i]
    BY <1>10, <2>1
  <2> QED
    BY <2>1, <2>2, <1>4, <1>9 DEF IsInjective
<1>12. Range(q) = S
  BY <1>4, <1>8, <1>9 DEF Range
<1> QED
  BY <1>9, <1>10, <1>11, <1>12 DEF q

Objects == [channel : Channels, version : Nat]
Sections == [Channels -> Nat]

\* The channels in T, and no other, have got new objects of their own, n.
Started(cfg, table, task, polls, T, n) ==
  /\ made' \in Seq(Objects) /\ Len(made') \in Nat /\ Len(made) <= Len(made')
  /\ \A i \in 1..Len(made) : made'[i] = made[i]
  /\ \A c \in T : /\ n[c] \in (Len(made) + 1)..Len(made')
                 /\ made'[n[c]] = [channel |-> c, version |-> cfg[c]]
  /\ channels' = [c \in Channels |-> IF c \in T THEN n[c] ELSE table[c]]
  /\ tasks' = [c \in Channels |-> IF c \in T THEN n[c] ELSE task[c]]
  /\ polling' = polls \cup {n[c] : c \in T}
  /\ missing' = {c \in Enabled(cfg) : table[c] = 0} \ T

\* What Starts does, without the sequence it is written with.
LEMMA StartsMakes ==
  ASSUME made \in Seq(Objects), NEW cfg \in Sections, NEW table, NEW task, NEW polls,
         Starts(cfg, table, task, polls)
  PROVE  \E T \in SUBSET {c \in Enabled(cfg) : table[c] = 0} : \E n \in [T -> Nat] :
           Started(cfg, table, task, polls, T, n)
<1> DEFINE all == {c \in Enabled(cfg) : table[c] = 0}
<1>1. PICK failed \in SUBSET all :
        LET q == SetToSeq(all \ failed)
            number(c) == Len(made) + (CHOOSE i \in DOMAIN q : q[i] = c)
        IN /\ made' = made \o [i \in DOMAIN q |-> [channel |-> q[i], version |-> cfg[q[i]]]]
           /\ channels' = [c \in Channels |-> IF c \in Range(q) THEN number(c) ELSE table[c]]
           /\ tasks' = [c \in Channels |-> IF c \in Range(q) THEN number(c) ELSE task[c]]
           /\ polling' = polls \cup {number(c) : c \in Range(q)}
           /\ missing' = failed
  BY DEF Starts
<1> DEFINE T == all \ failed
           q == SetToSeq(T)
           at(c) == CHOOSE i \in DOMAIN q : q[i] = c
           n == [c \in T |-> Len(made) + at(c)]
           more == [i \in DOMAIN q |-> [channel |-> q[i], version |-> cfg[q[i]]]]
<1>2. T \subseteq Channels /\ IsFiniteSet(T)
  BY ChannelAssumption, FS_Subset DEF Enabled
<1>3. /\ q \in Seq(T) /\ DOMAIN q = 1..Len(q) /\ Range(q) = T
      /\ \A c \in T : at(c) \in 1..Len(q) /\ q[at(c)] = c
      /\ \A i \in 1..Len(q) : q[i] \in T
  BY <1>2, SetInSequence
<1>a. /\ made' = made \o more
      /\ channels' = [c \in Channels |-> IF c \in Range(q) THEN Len(made) + at(c) ELSE table[c]]
      /\ tasks' = [c \in Channels |-> IF c \in Range(q) THEN Len(made) + at(c) ELSE task[c]]
      /\ polling' = polls \cup {Len(made) + at(c) : c \in Range(q)}
      /\ missing' = failed
  BY <1>1, Zenon
<1>4. /\ made' = made \o more
      /\ channels' = [c \in Channels |-> IF c \in T THEN Len(made) + at(c) ELSE table[c]]
      /\ tasks' = [c \in Channels |-> IF c \in T THEN Len(made) + at(c) ELSE task[c]]
      /\ polling' = polls \cup {Len(made) + at(c) : c \in T}
      /\ missing' = failed
  <2> HIDE DEF q, at, T, more
  <2>1. Range(q) = T
    BY <1>3
  <2> QED
    BY <1>a, <2>1
<1> HIDE DEF q
<1>5. Len(q) \in Nat /\ Len(made) \in Nat
  BY <1>3
<1>6. /\ more \in Seq(Objects) /\ Len(more) = Len(q)
      /\ \A i \in 1..Len(q) : more[i] = [channel |-> q[i], version |-> cfg[q[i]]]
  <2>1. \A i \in 1..Len(q) : [channel |-> q[i], version |-> cfg[q[i]]] \in Objects
    BY <1>2, <1>3 DEF Objects, Sections
  <2>2. more \in [1..Len(q) -> Objects]
    BY <1>3, <2>1
  <2> QED
    BY <1>3, <1>5, <2>2
<1> HIDE DEF at, all, T
<1>7. n \in [T -> Nat] /\ \A c \in T : n[c] = Len(made) + at(c)
  BY <1>3, <1>5
<1> HIDE DEF more, n
<1>8. /\ made' \in Seq(Objects) /\ Len(made') = Len(made) + Len(q)
      /\ \A i \in 1..Len(made) : made'[i] = made[i]
      /\ \A i \in 1..Len(q) : made'[Len(made) + i] = more[i]
  <2>0. more \in Seq(Objects)
    BY <1>6
  <2>1. /\ made \o more \in Seq(Objects) /\ Len(made \o more) = Len(made) + Len(more)
        /\ \A i \in 1..Len(made) : (made \o more)[i] = made[i]
        /\ \A i \in 1..Len(more) : (made \o more)[Len(made) + i] = more[i]
    BY <2>0
  <2>2. made' = made \o more /\ Len(more) = Len(q)
    BY <1>4, <1>6
  <2> QED
    BY <2>1, <2>2, Zenon
<1>9. \A c \in T : /\ n[c] \in (Len(made) + 1)..Len(made')
                  /\ made'[n[c]] = [channel |-> c, version |-> cfg[c]]
  <2> TAKE c \in T
  <2>1. at(c) \in 1..Len(q) /\ q[at(c)] = c /\ n[c] = Len(made) + at(c)
    BY <1>3, <1>7
  <2>2. made'[n[c]] = more[at(c)]
    BY <1>8, <2>1
  <2> QED
    BY <1>5, <1>6, <1>8, <2>1, <2>2
<1>10. /\ channels' = [c \in Channels |-> IF c \in T THEN n[c] ELSE table[c]]
       /\ tasks' = [c \in Channels |-> IF c \in T THEN n[c] ELSE task[c]]
       /\ polling' = polls \cup {n[c] : c \in T}
  BY <1>4, <1>7
<1>11. T \in SUBSET all /\ missing' = all \ T
  BY <1>4 DEF T
<1> QED
  <2> USE DEF all
  <2>1. T \in SUBSET {c \in Enabled(cfg) : table[c] = 0}
    BY <1>11
  <2>2. Len(made') \in Nat /\ Len(made) <= Len(made')
    BY <1>5, <1>8
  <2> QED
    BY <1>7, <1>8, <1>9, <1>10, <1>11, <2>1, <2>2, Zenon DEF Started

\* The tables of the channels, and what the reloads are stopping, are of their types.
TablesType ==
  /\ made \in Seq(Objects)
  /\ channels \in [Channels -> 0..Len(made)] /\ tasks \in [Channels -> 0..Len(made)]
  /\ polling \subseteq 1..Len(made) /\ missing \subseteq Channels

StopType ==
  /\ stop \in [Reloads -> [at : Channels \cup {"none"}, awaits : {"nothing", "stop", "task"},
                           rest : SUBSET Channels]]
  /\ \A r \in Reloads : stop[r].at \in Channels <=> stop[r].awaits # "nothing"

\* An object is of the channel it is listed for, and was made for a version that is on.
Each == \A c \in Channels : channels[c] # 0 =>
          made[channels[c]].channel = c /\ made[channels[c]].version # 0

Polled == polling = {channels[c] : c \in Channels} \ {0}

\* Each channel's task polls for its object, and no other task polls.
Settled == Each /\ Polled /\ tasks = channels

\* The tables are those of the channels' configuration cfg.
Runs(cfg) ==
  /\ Settled
  /\ \A c \in Channels : channels[c] # 0 => made[channels[c]].version = cfg[c]
  /\ \A c \in Channels : channels[c] = 0 => cfg[c] = 0 \/ c \in missing
  /\ \A c \in missing : channels[c] = 0

\* Reload r takes channels out: the one it stops is out already, though its task may be
\* in the table yet; and whatever is not as in cfg is among those left to stop.
Stopping(r, cfg) ==
  /\ Each /\ Polled
  /\ stop[r].at \in Channels /\ channels[stop[r].at] = 0
  /\ \A c \in Channels : tasks[c] = channels[c]
                          \/ (c = stop[r].at /\ stop[r].awaits = "stop" /\ made[tasks[c]].channel = c)
  /\ \A c \in Channels \ stop[r].rest :
        channels[c] # 0 => made[channels[c]].version = cfg[c]

\* That is what ReloadTakesEffect says of the channels.
LEMMA RunsIsSaved ==
  ASSUME TablesType, file.channels \in Sections
  PROVE  Runs(file.channels) => ChannelsAsSaved
<1> SUFFICES ASSUME Runs(file.channels) PROVE ChannelsAsSaved
  OBVIOUS
<1>1. ASSUME NEW c \in Channels
      PROVE  IF file.channels[c] = 0 \/ c \in missing THEN channels[c] = 0
             ELSE channels[c] # 0
                    /\ made[channels[c]] = [channel |-> c, version |-> file.channels[c]]
  <2>1. CASE channels[c] = 0
    BY <2>1 DEF Runs
  <2>2. CASE channels[c] # 0
    <3>1. made[channels[c]] \in Objects
      BY <2>2 DEF TablesType
    <3>2. made[channels[c]].channel = c /\ made[channels[c]].version = file.channels[c]
          /\ file.channels[c] # 0 /\ c \notin missing
      BY <2>2 DEF Runs, Settled, Each
    <3>3. made[channels[c]] = [channel |-> c, version |-> file.channels[c]]
      BY <3>1, <3>2 DEF Objects
    <3> QED
      BY <2>2, <3>2, <3>3
  <2> QED
    BY <2>1, <2>2
<1> QED
  BY <1>1 DEF ChannelsAsSaved, Runs, Settled, Polled

\* The new channels are started in tables of this form.
LEMMA StartsRuns ==
  ASSUME TablesType, NEW cfg \in Sections, Starts(cfg, channels, tasks, polling)
  PROVE  /\ TablesType'
         /\ Settled /\ (\A c \in Channels : channels[c] # 0 => made[channels[c]].version = cfg[c])
              => Runs(cfg)'
<1>1. PICK T \in SUBSET {c \in Enabled(cfg) : channels[c] = 0} :
        \E n \in [T -> Nat] : Started(cfg, channels, tasks, polling, T, n)
  <2>1. made \in Seq(Objects)
    BY DEF TablesType
  <2> QED
    BY <2>1, StartsMakes, Zenon
<1>2. PICK n \in [T -> Nat] : Started(cfg, channels, tasks, polling, T, n)
  BY <1>1, Zenon
<1>3. /\ Len(made') \in Nat /\ Len(made) <= Len(made')
      /\ \A i \in 1..Len(made) : made'[i] = made[i]
      /\ \A c \in T : /\ n[c] \in (Len(made) + 1)..Len(made')
                     /\ made'[n[c]] = [channel |-> c, version |-> cfg[c]]
      /\ channels' = [c \in Channels |-> IF c \in T THEN n[c] ELSE channels[c]]
      /\ tasks' = [c \in Channels |-> IF c \in T THEN n[c] ELSE tasks[c]]
      /\ polling' = polling \cup {n[c] : c \in T}
      /\ missing' = {c \in Enabled(cfg) : channels[c] = 0} \ T
  BY <1>2, Zenon DEF Started
<1>4. /\ channels \in [Channels -> 0..Len(made)] /\ tasks \in [Channels -> 0..Len(made)]
      /\ polling \subseteq 1..Len(made) /\ Len(made) \in Nat
      /\ T \subseteq Channels /\ \A c \in T : cfg[c] # 0 /\ channels[c] = 0
  BY DEF TablesType, Enabled
<1>5. /\ \A c \in T : /\ channels'[c] = n[c] /\ tasks'[c] = n[c]
                     /\ n[c] \in 1..Len(made') /\ n[c] # 0
      /\ \A c \in Channels \ T : channels'[c] = channels[c] /\ tasks'[c] = tasks[c]
  <2>1. \A c \in T : n[c] \in 1..Len(made') /\ n[c] # 0
    <3> TAKE c \in T
    <3>1. n[c] \in (Len(made) + 1)..Len(made') /\ Len(made') \in Nat
      BY <1>3
    <3> QED
      BY <1>4, <3>1
  <2>2. /\ \A c \in T : channels'[c] = n[c] /\ tasks'[c] = n[c]
        /\ \A c \in Channels \ T : channels'[c] = channels[c] /\ tasks'[c] = tasks[c]
    <3>1. /\ channels' = [c \in Channels |-> IF c \in T THEN n[c] ELSE channels[c]]
          /\ tasks' = [c \in Channels |-> IF c \in T THEN n[c] ELSE tasks[c]]
      BY <1>3
    <3> QED
      BY <1>4, <3>1
  <2> QED
    BY <2>1, <2>2
<1>6. TablesType'
  <2>1. made' \in Seq(Objects)
    BY <1>2, Zenon DEF Started
  <2>2. channels' \in [Channels -> 0..Len(made')] /\ tasks' \in [Channels -> 0..Len(made')]
    <3>1. /\ DOMAIN channels' = Channels /\ DOMAIN tasks' = Channels
          /\ channels' = [c \in Channels |-> channels'[c]] /\ tasks' = [c \in Channels |-> tasks'[c]]
      BY <1>3, Zenon
    <3>2. Len(made') \in Nat /\ Len(made) <= Len(made')
      BY <1>3
    <3>3. \A c \in Channels : channels'[c] \in 0..Len(made') /\ tasks'[c] \in 0..Len(made')
      BY <1>4, <1>5, <3>2
    <3> QED
      BY <3>1, <3>3
  <2>3. polling' \subseteq 1..Len(made') /\ missing' \subseteq Channels
    <3>1. /\ polling' = polling \cup {n[c] : c \in T}
          /\ missing' = {c \in Enabled(cfg) : channels[c] = 0} \ T
          /\ Len(made') \in Nat /\ Len(made) <= Len(made')
      BY <1>3
    <3>2. \A c \in T : n[c] \in 1..Len(made')
      BY <1>5
    <3>3. polling \subseteq 1..Len(made')
      BY <1>4, <3>1
    <3>4. polling' \subseteq 1..Len(made')
      BY <3>1, <3>2, <3>3
    <3> QED
      BY <3>1, <3>4 DEF Enabled
  <2> QED
    BY <2>1, <2>2, <2>3 DEF TablesType
<1>7. ASSUME Settled, \A c \in Channels : channels[c] # 0 => made[channels[c]].version = cfg[c]
      PROVE  Runs(cfg)'
  <2>1. \A c \in Channels \ T : channels[c] # 0 => made'[channels'[c]] = made[channels[c]]
    BY <1>3, <1>4, <1>5
  <2>2. \A c \in Channels : channels'[c] # 0 =>
          made'[channels'[c]].channel = c /\ made'[channels'[c]].version = cfg[c] /\ cfg[c] # 0
    <3> TAKE c \in Channels
    <3>1. CASE c \in T
      <4>1. made'[channels'[c]] = [channel |-> c, version |-> cfg[c]]
        BY <1>3, <1>5, <3>1
      <4> QED
        BY <1>4, <3>1, <4>1
    <3>2. CASE c \notin T
      BY <1>5, <1>7, <2>1, <3>2 DEF Settled, Each
    <3> QED
      BY <3>1, <3>2
  <2>3. tasks' = channels'
    BY <1>3, <1>7 DEF Settled
  <2>4. polling' = {channels'[c] : c \in Channels} \ {0}
    <3>1. polling = {channels[c] : c \in Channels} \ {0}
      BY <1>7 DEF Settled, Polled
    <3>2. polling' = polling \cup {n[c] : c \in T}
      BY <1>3
    <3>3. /\ T \subseteq Channels /\ \A c \in T : channels[c] = 0
          /\ \A c \in T : channels'[c] = n[c] /\ n[c] # 0
          /\ \A c \in Channels \ T : channels'[c] = channels[c]
      BY <1>4, <1>5
    <3>4. ASSUME NEW x
          PROVE  x \in polling' <=> x # 0 /\ \E c \in Channels : x = channels'[c]
      <4>1. CASE \E c \in T : x = n[c]
        BY <3>2, <3>3, <4>1
      <4>2. CASE ~\E c \in T : x = n[c]
        BY <3>1, <3>2, <3>3, <4>2
      <4> QED
        BY <4>1, <4>2
    <3> QED
      BY <3>4
  <2>5. missing' = {c \in Channels : cfg[c] # 0 /\ channels[c] = 0} \ T
    BY <1>3 DEF Enabled
  <2>6. /\ \A c \in Channels : channels'[c] = 0 => cfg[c] = 0 \/ c \in missing'
        /\ \A c \in missing' : channels'[c] = 0
    BY <1>5, <2>5
  <2> QED
    BY <2>2, <2>3, <2>4, <2>6 DEF Runs, Settled, Each, Polled
<1> QED
  BY <1>6, <1>7

\* reconfigure takes the next channel out of the tables, or starts the new ones.
LEMMA NextChannelRuns ==
  ASSUME TablesType, StopType, NEW r \in Reloads, NEW cfg \in Sections,
         NEW rest \in SUBSET Channels, NextChannel(r, cfg, rest)
  PROVE  /\ TablesType' /\ StopType'
         /\ Settled /\ (\A c \in Channels \ rest : channels[c] # 0 =>
                                                     made[channels[c]].version = cfg[c])
              => \/ stop'[r] = Nothing /\ Runs(cfg)'
                 \/ stop'[r] # Nothing /\ Stopping(r, cfg)'
<1> DEFINE left == {c \in rest : channels[c] # 0 \/ tasks[c] # 0}
<1>1. CASE left = {} /\ stop' = [stop EXCEPT ![r] = Nothing]
             /\ Starts(cfg, channels, tasks, polling)
  <2>1. StopType' /\ stop'[r] = Nothing
    BY <1>1, ChannelAssumption DEF StopType, Nothing
  <2>2. \A c \in rest : channels[c] = 0
    BY <1>1
  <2> QED
    BY <1>1, <2>1, <2>2, StartsRuns
<1>2. ASSUME NEW c \in left,
             stop' = [stop EXCEPT ![r] = [at |-> c, rest |-> left \ {c},
                        awaits |-> IF channels[c] # 0 THEN "stop" ELSE "task"]],
             IF channels[c] # 0
             THEN /\ channels' = [channels EXCEPT ![c] = 0] /\ polling' = polling \ {channels[c]}
                  /\ UNCHANGED tasks
             ELSE /\ tasks' = [tasks EXCEPT ![c] = 0] /\ polling' = polling \ {tasks[c]}
                  /\ UNCHANGED channels,
             UNCHANGED <<made, missing>>
      PROVE  /\ TablesType' /\ StopType'
             /\ Settled /\ (\A d \in Channels \ rest : channels[d] # 0 =>
                                                         made[channels[d]].version = cfg[d])
                  => stop'[r] # Nothing /\ Stopping(r, cfg)'
  <2>1. c \in Channels /\ left \ {c} \in SUBSET Channels
    OBVIOUS
  <2>2. TablesType'
    <3>1. Len(made) \in Nat /\ 0 \in 0..Len(made)
      BY DEF TablesType
    <3> QED
      BY <1>2, <2>1, <3>1 DEF TablesType
  <2>3. /\ stop'[r].at = c /\ stop'[r].rest = left \ {c}
        /\ stop'[r].awaits = IF channels[c] # 0 THEN "stop" ELSE "task"
    BY <1>2 DEF StopType
  <2> HIDE DEF left
  <2>4. StopType'
    BY <1>2, <2>1 DEF StopType
  <2>5. stop'[r] # Nothing
    BY <2>1, <2>3, ChannelAssumption DEF Nothing
  <2>6. ASSUME Settled, \A d \in Channels \ rest : channels[d] # 0 =>
                          made[channels[d]].version = cfg[d]
        PROVE  Stopping(r, cfg)'
    <3>1. channels[c] # 0
      BY <2>1, <2>6 DEF Settled, left
    <3>2. /\ channels' = [channels EXCEPT ![c] = 0] /\ polling' = polling \ {channels[c]}
          /\ tasks' = channels /\ made' = made /\ stop'[r].awaits = "stop"
      BY <1>2, <2>3, <2>6, <3>1 DEF Settled
    <3>3. channels'[c] = 0 /\ \A d \in Channels \ {c} : channels'[d] = channels[d]
      BY <2>1, <3>2 DEF TablesType
    <3>4. Each'
      BY <2>6, <3>2, <3>3 DEF Settled, Each
    <3>5. \A d \in Channels \ {c} : channels[d] # channels[c]
      BY <2>1, <2>6, <3>1 DEF Settled, Each
    <3>6. Polled'
      BY <2>1, <2>6, <3>2, <3>3, <3>5 DEF Settled, Polled
    <3>7. \A d \in Channels \ (left \ {c}) : channels'[d] # 0 => made'[channels'[d]].version = cfg[d]
      BY <2>6, <3>2, <3>3 DEF left
    <3>8. \A d \in Channels : tasks'[d] = channels'[d] \/ (d = c /\ made'[tasks'[d]].channel = d)
      BY <2>6, <3>1, <3>2, <3>3 DEF Settled, Each
    <3> QED
      BY <2>1, <2>3, <3>2, <3>3, <3>4, <3>6, <3>7, <3>8 DEF Stopping
  <2> QED
    BY <2>2, <2>4, <2>5, <2>6
<1> QED
  BY <1>1, <1>2 DEF NextChannel

\* The channel is stopped, or its task is: the reload goes on to the next one.
LEMMA StopsRuns ==
  ASSUME TablesType, StopType, NEW r \in Reloads, NEW cfg \in Sections,
         Stopped(r, cfg) \/ TaskEnded(r, cfg)
  PROVE  /\ TablesType' /\ StopType'
         /\ Stopping(r, cfg)
              => \/ stop'[r] = Nothing /\ Runs(cfg)'
                 \/ stop'[r] # Nothing /\ Stopping(r, cfg)'
<1> DEFINE c == stop[r].at
           rest == stop[r].rest
           Kept == \A d \in Channels \ rest : channels[d] # 0 => made[channels[d]].version = cfg[d]
<1>1. c \in Channels /\ rest \in SUBSET Channels
  BY DEF StopType, Stopped, TaskEnded
<1>2. ASSUME NextChannel(r, cfg, rest), Stopping(r, cfg) => Settled
      PROVE  /\ TablesType' /\ StopType'
             /\ Stopping(r, cfg)
                  => \/ stop'[r] = Nothing /\ Runs(cfg)'
                     \/ stop'[r] # Nothing /\ Stopping(r, cfg)'
  <2>1. Stopping(r, cfg) => Settled /\ Kept
    BY <1>2 DEF Stopping
  <2> QED
    BY <1>1, <1>2, <2>1, NextChannelRuns
<1>3. CASE TaskEnded(r, cfg)
  <2>1. Stopping(r, cfg) => Settled
    <3> SUFFICES ASSUME Stopping(r, cfg) PROVE tasks = channels
      BY DEF Stopping, Settled
    <3>1. \A d \in Channels : tasks[d] = channels[d]
      BY <1>3 DEF Stopping, TaskEnded
    <3> QED
      BY <3>1 DEF TablesType
  <2> QED
    BY <1>2, <1>3, <2>1 DEF TaskEnded
<1>4. CASE stop[r].awaits = "stop" /\ tasks[c] = 0 /\ NextChannel(r, cfg, rest)
  <2>1. Stopping(r, cfg) => Settled
    <3> SUFFICES ASSUME Stopping(r, cfg) PROVE tasks = channels
      BY DEF Stopping, Settled
    <3>1. \A d \in Channels : tasks[d] = channels[d]
      BY <1>4 DEF Stopping
    <3> QED
      BY <3>1 DEF TablesType
  <2> QED
    BY <1>2, <1>4, <2>1
<1>5. CASE /\ stop[r].awaits = "stop" /\ tasks[c] # 0
           /\ tasks' = [tasks EXCEPT ![c] = 0] /\ polling' = polling \ {tasks[c]}
           /\ stop' = [stop EXCEPT ![r].awaits = "task"]
           /\ UNCHANGED <<made, channels, missing>>
  <2>1. TablesType'
    <3>1. Len(made) \in Nat /\ 0 \in 0..Len(made)
      BY DEF TablesType
    <3> QED
      BY <1>1, <1>5, <3>1 DEF TablesType
  <2>2. /\ stop'[r].at = c /\ stop'[r].rest = rest /\ stop'[r].awaits = "task"
        /\ \A q \in Reloads \ {r} : stop'[q] = stop[q]
    BY <1>5 DEF StopType
  <2>3. StopType'
    BY <1>1, <1>5, <2>2 DEF StopType
  <2>4. stop'[r] # Nothing
    BY <2>2 DEF Nothing
  <2>5. ASSUME Stopping(r, cfg) PROVE Stopping(r, cfg)'
    <3>1. tasks'[c] = 0 /\ \A d \in Channels \ {c} : tasks'[d] = tasks[d]
      BY <1>1, <1>5 DEF TablesType
    <3>2. \A d \in Channels : tasks'[d] = channels'[d]
      BY <1>5, <2>5, <3>1 DEF Stopping
    <3>3. channels[c] = 0 /\ made[tasks[c]].channel = c
      BY <1>1, <1>5, <2>5 DEF Stopping
    <3>4. \A d \in Channels : channels[d] # 0 => channels[d] # tasks[c]
      BY <2>5, <3>3 DEF Stopping, Each
    <3>5. polling' = polling
      <4>1. tasks[c] \notin polling
        BY <1>5, <2>5, <3>4 DEF Stopping, Polled
      <4> QED
        BY <1>5, <4>1
    <3>6. Each' /\ Polled'
      BY <1>5, <2>5, <3>5 DEF Stopping, Each, Polled
    <3> QED
      BY <1>1, <1>5, <2>2, <2>5, <3>2, <3>3, <3>6 DEF Stopping
  <2> QED
    BY <2>1, <2>3, <2>4, <2>5
<1> QED
  BY <1>3, <1>4, <1>5 DEF Stopped

\* The reload turns to the channels.
LEMMA GoesOnRuns ==
  ASSUME TablesType, StopType, NEW r \in Reloads, NEW cfg \in Configs, GoesOn(r, cfg)
  PROVE  /\ TablesType' /\ StopType' /\ helpers' = cfg
         /\ Settled => \/ phase' = [phase EXCEPT ![r] = "done"] /\ Runs(cfg.channels)'
                       \/ phase' = [phase EXCEPT ![r] = "channels"] /\ Stopping(r, cfg.channels)'
<1> DEFINE section == cfg.channels
           rest == {c \in Channels : channels[c] # 0 /\ made[channels[c]].version # section[c]}
<1>1. section \in Sections
  BY ReloadAssumption DEF Sections
<1>2. NextChannel(r, section, rest) /\ rest \in SUBSET Channels /\ helpers' = cfg
      /\ phase' = [phase EXCEPT ![r] = IF stop'[r] = Nothing THEN "done" ELSE "channels"]
  BY DEF GoesOn, Differ
<1>3. \A c \in Channels \ rest : channels[c] # 0 => made[channels[c]].version = section[c]
  OBVIOUS
<1> HIDE DEF section, rest
<1>4. /\ TablesType' /\ StopType'
      /\ Settled => \/ stop'[r] = Nothing /\ Runs(section)'
                    \/ stop'[r] # Nothing /\ Stopping(r, section)'
  BY <1>1, <1>2, <1>3, NextChannelRuns
<1> QED
  BY <1>2, <1>4 DEF section
-----------------------------------------------------------------------------
\* No reload met another one or was cut short.
Calm == odd \cap {"failed", "overlap"} = {}

ChannelTypes ==
  /\ file \in Configs /\ new \in [Reloads -> Configs]
  /\ TablesType /\ StopType

Outgoing == [channel : Channels, origin : Channels]

DeliveryType ==
  /\ outbound \in Seq(Outgoing)
  /\ published \in 0..MaxOut /\ dropped \in Nat

\* One reload at a time, with the configuration last saved: none under way, it has been
\* taken over; under way, the channels are as before or being replaced by it.
Taken ==
  /\ \A r, q \in Reloading : r = q
  /\ \A r \in Reloading : new[r] = file
  /\ Reloading = {} => helpers = file /\ Runs(file.channels)
  /\ \A r \in Reloads : phase[r] = "agent" => Settled
  /\ \A r \in Reloads : phase[r] = "channels" => helpers = file /\ Stopping(r, file.channels)

ChannelInv == ChannelTypes /\ DeliveryType /\ (Calm => Taken /\ dropped = 0)

Inv == McpInv /\ ChannelInv

LEMMA SavesChannels ==
  ASSUME Inv, NEW r \in Reloads, NEW cfg \in Configs, Saves(r, cfg)
  PROVE  ChannelInv'
<1>1. /\ phase[r] = "none" /\ file' = cfg /\ new' = [new EXCEPT ![r] = cfg]
      /\ UNCHANGED delivery
      /\ \/ GoesOn(r, cfg)
         \/ phase' = [phase EXCEPT ![r] = "agent"] /\ UNCHANGED <<helpers, tables, stop>>
      /\ odd' = odd \cup (IF Reloading # {} THEN {"overlap"} ELSE {})
                    \cup (IF Linking THEN {"linking"} ELSE {})
  BY DEF Saves
<1>2. /\ TablesType /\ StopType
      /\ phase \in [Reloads -> {"none", "agent", "channels", "done", "failed"}]
      /\ new \in [Reloads -> Configs] /\ file \in Configs
  BY DEF Inv, McpInv, Phases, ChannelInv, ChannelTypes
<1>3. DeliveryType' /\ dropped' = dropped
  BY <1>1 DEF Inv, ChannelInv, DeliveryType, delivery
<1>4. TablesType' /\ StopType'
  <2>1. CASE GoesOn(r, cfg)
    BY <1>2, <2>1, GoesOnRuns
  <2>2. CASE UNCHANGED <<tables, stop>>
    BY <1>2, <2>2 DEF tables, TablesType, StopType
  <2> QED
    BY <1>1, <2>1, <2>2
<1>5. ChannelTypes'
  BY <1>1, <1>2, <1>4 DEF ChannelTypes
<1>6. ASSUME Calm' PROVE Taken' /\ dropped' = 0
  <2>1. Calm /\ Reloading = {}
    BY <1>1, <1>6 DEF Calm
  <2>2. Settled /\ dropped = 0
    BY <2>1 DEF Inv, ChannelInv, Taken, Runs
  <2>3. \A q \in Reloads : phase[q] \notin {"agent", "channels"}
    BY <2>1 DEF Reloading
  <2>4. new'[r] = file'
    BY <1>1, <1>2
  <2>5. CASE phase' = [phase EXCEPT ![r] = "done"] /\ Runs(cfg.channels)' /\ helpers' = cfg
    <3>1. \A q \in Reloads : phase'[q] \notin {"agent", "channels"}
      BY <1>2, <2>3, <2>5
    <3>2. Reloading' = {}
      BY <3>1 DEF Reloading
    <3> QED
      BY <1>1, <1>3, <2>2, <2>5, <3>1, <3>2 DEF Taken
  <2>6. CASE phase' = [phase EXCEPT ![r] = "channels"] /\ Stopping(r, cfg.channels)' /\ helpers' = cfg
    <3>1. phase'[r] = "channels" /\ \A q \in Reloads \ {r} : phase'[q] \notin {"agent", "channels"}
      BY <1>2, <2>3, <2>6
    <3>2. Reloading' = {r}
      BY <3>1 DEF Reloading
    <3> QED
      BY <1>1, <1>3, <2>2, <2>4, <2>6, <3>1, <3>2 DEF Taken
  <2>7. CASE phase' = [phase EXCEPT ![r] = "agent"] /\ UNCHANGED <<helpers, tables, stop>>
    <3>1. phase'[r] = "agent" /\ \A q \in Reloads \ {r} : phase'[q] \notin {"agent", "channels"}
      BY <1>2, <2>3, <2>7
    <3>2. Reloading' = {r}
      BY <3>1 DEF Reloading
    <3>3. Settled'
      BY <2>2, <2>7 DEF Settled, Each, Polled, tables
    <3> QED
      BY <1>3, <2>2, <2>4, <3>1, <3>2, <3>3 DEF Taken
  <2> QED
    BY <1>1, <1>2, <2>2, <2>5, <2>6, <2>7, GoesOnRuns
<1> QED
  BY <1>3, <1>5, <1>6 DEF ChannelInv

LEMMA AgentDoneKeeps ==
  ASSUME Inv, NEW r \in Reloads, AgentDone(r)
  PROVE  Inv'
<1>1. /\ phase[r] = "agent" /\ GoesOn(r, new[r])
      /\ UNCHANGED <<mcpVars, delivery, file, new, troubles, odd>>
  BY DEF AgentDone
<1>2. /\ TablesType /\ StopType
      /\ phase \in [Reloads -> {"none", "agent", "channels", "done", "failed"}]
      /\ new \in [Reloads -> Configs] /\ file \in Configs
  BY DEF Inv, McpInv, Phases, ChannelInv, ChannelTypes
<1>a. PICK cfg \in Configs : cfg = new[r]
  BY <1>2
<1>3. DeliveryType' /\ dropped' = dropped
  BY <1>1 DEF Inv, ChannelInv, DeliveryType, delivery
<1>4. /\ TablesType' /\ StopType' /\ helpers' = cfg
      /\ Settled =>
           \/ phase' = [phase EXCEPT ![r] = "done"] /\ Runs(cfg.channels)'
           \/ phase' = [phase EXCEPT ![r] = "channels"] /\ Stopping(r, cfg.channels)'
  <2>1. GoesOn(r, cfg)
    BY <1>1, <1>a
  <2> QED
    BY <1>2, <2>1, GoesOnRuns
<1>5. ChannelTypes'
  BY <1>1, <1>2, <1>4 DEF ChannelTypes
<1>6. \E p \in {"channels", "done"} : phase' = [phase EXCEPT ![r] = p]
  BY <1>1 DEF GoesOn
<1>7. McpInv'
  <2>1. call' = call
    BY <1>1 DEF mcpVars
  <2>2. Phases'
    BY <1>1, <1>2, <1>6, <2>1 DEF Inv, McpInv, Phases
  <2> QED
    BY <1>1, <2>2, ElsewhereMcp DEF Inv
<1>8. ASSUME Calm' PROVE Taken' /\ dropped' = 0
  <2>1. Taken /\ dropped = 0
    BY <1>1, <1>8 DEF Calm, Inv, ChannelInv
  <2>2. Settled /\ cfg = file
    BY <1>1, <1>a, <2>1 DEF Taken, Reloading
  <2>3. \A q \in Reloads \ {r} : phase[q] \notin {"agent", "channels"}
    BY <1>1, <2>1 DEF Taken, Reloading
  <2>4. CASE phase' = [phase EXCEPT ![r] = "done"] /\ Runs(cfg.channels)'
    <3>1. \A q \in Reloads : phase'[q] \notin {"agent", "channels"}
      BY <1>2, <2>3, <2>4
    <3>2. Reloading' = {}
      BY <3>1 DEF Reloading
    <3> QED
      BY <1>1, <1>3, <1>4, <2>1, <2>2, <2>4, <3>1, <3>2 DEF Taken
  <2>5. CASE phase' = [phase EXCEPT ![r] = "channels"] /\ Stopping(r, cfg.channels)'
    <3>1. phase'[r] = "channels" /\ \A q \in Reloads \ {r} : phase'[q] \notin {"agent", "channels"}
      BY <1>2, <2>3, <2>5
    <3>2. Reloading' = {r}
      BY <3>1 DEF Reloading
    <3>3. Stopping(r, file.channels)'
      BY <1>1, <2>2, <2>5 DEF Stopping
    <3>4. new' = new /\ file' = file /\ helpers' = file
      BY <1>1, <1>4, <2>2
    <3> QED
      BY <1>3, <1>a, <2>1, <2>2, <3>1, <3>2, <3>3, <3>4 DEF Taken
  <2> QED
    BY <1>4, <2>2, <2>4, <2>5
<1> QED
  BY <1>3, <1>5, <1>7, <1>8 DEF Inv, ChannelInv

LEMMA AgentFailedKeeps ==
  ASSUME Inv, NEW r \in Reloads, AgentFailed(r)
  PROVE  Inv'
<1>1. /\ phase' = [phase EXCEPT ![r] = "failed"] /\ odd' = odd \cup {"failed"}
      /\ UNCHANGED <<mcpVars, channelVars, file, new, helpers, troubles>>
  BY DEF AgentFailed
<1>2. ChannelTypes' /\ DeliveryType' /\ ~Calm'
  BY <1>1 DEF Inv, ChannelInv, ChannelTypes, DeliveryType, Calm, channelVars, tables, delivery,
              TablesType, StopType
<1>3. Phases'
  <2>1. call' = call
    BY <1>1 DEF mcpVars
  <2> QED
    BY <1>1, <2>1 DEF Inv, McpInv, Phases
<1>4. McpInv'
  BY <1>1, <1>3, ElsewhereMcp DEF Inv
<1> QED
  BY <1>2, <1>4 DEF Inv, ChannelInv

LEMMA StopsChannelsKeeps ==
  ASSUME Inv, NEW r \in Reloads, StopsChannels(r)
  PROVE  Inv'
<1>1. /\ phase[r] = "channels"
      /\ Stopped(r, new[r].channels) \/ TaskEnded(r, new[r].channels)
      /\ phase' = [phase EXCEPT ![r] = IF stop'[r] = Nothing THEN "done" ELSE "channels"]
      /\ UNCHANGED <<mcpVars, delivery, file, new, helpers, troubles, odd>>
  BY DEF StopsChannels
<1>2. /\ TablesType /\ StopType
      /\ phase \in [Reloads -> {"none", "agent", "channels", "done", "failed"}]
      /\ new \in [Reloads -> Configs] /\ file \in Configs
  BY DEF Inv, McpInv, Phases, ChannelInv, ChannelTypes
<1>a. PICK cfg \in Configs : cfg = new[r]
  BY <1>2
<1>3. DeliveryType' /\ dropped' = dropped
  BY <1>1 DEF Inv, ChannelInv, DeliveryType, delivery
<1>4. /\ TablesType' /\ StopType'
      /\ Stopping(r, cfg.channels) =>
           \/ stop'[r] = Nothing /\ Runs(cfg.channels)'
           \/ stop'[r] # Nothing /\ Stopping(r, cfg.channels)'
  <2>1. cfg.channels \in Sections
    BY ReloadAssumption DEF Sections
  <2>2. Stopped(r, cfg.channels) \/ TaskEnded(r, cfg.channels)
    BY <1>1, <1>a
  <2> QED
    BY <1>2, <2>1, <2>2, StopsRuns
<1>5. ChannelTypes'
  BY <1>1, <1>2, <1>4 DEF ChannelTypes
<1>6. McpInv'
  <2>1. call' = call
    BY <1>1 DEF mcpVars
  <2>2. Phases'
    BY <1>1, <1>2, <2>1 DEF Inv, McpInv, Phases
  <2> QED
    BY <1>1, <2>2, ElsewhereMcp DEF Inv
<1>7. ASSUME Calm' PROVE Taken' /\ dropped' = 0
  <2>1. Taken /\ dropped = 0
    BY <1>1, <1>7 DEF Calm, Inv, ChannelInv
  <2>2. Stopping(r, file.channels) /\ cfg = file /\ helpers = file
    BY <1>1, <1>a, <2>1 DEF Taken, Reloading
  <2>3. \A q \in Reloads \ {r} : phase[q] \notin {"agent", "channels"}
    BY <1>1, <2>1 DEF Taken, Reloading
  <2>4. CASE stop'[r] = Nothing /\ Runs(cfg.channels)'
    <3>1. \A q \in Reloads : phase'[q] \notin {"agent", "channels"}
      BY <1>1, <1>2, <2>3, <2>4
    <3>2. Reloading' = {}
      BY <3>1 DEF Reloading
    <3> QED
      BY <1>1, <1>3, <2>1, <2>2, <2>4, <3>1, <3>2 DEF Taken
  <2>5. CASE stop'[r] # Nothing /\ Stopping(r, cfg.channels)'
    <3>1. phase'[r] = "channels" /\ \A q \in Reloads \ {r} : phase'[q] \notin {"agent", "channels"}
      BY <1>1, <1>2, <2>3, <2>5
    <3>2. Reloading' = {r}
      BY <3>1 DEF Reloading
    <3>3. Stopping(r, file.channels)'
      BY <1>1, <2>2, <2>5 DEF Stopping
    <3>4. new' = new /\ file' = file /\ helpers' = file
      BY <1>1, <2>2
    <3> QED
      BY <1>3, <1>a, <2>1, <2>2, <3>1, <3>2, <3>3, <3>4 DEF Taken
  <2> QED
    BY <1>4, <2>2, <2>4, <2>5
<1> QED
  BY <1>3, <1>5, <1>6, <1>7 DEF Inv, ChannelInv

\* Steps of the servers, and of the messages, leave the tables of the channels.
LEMMA TablesStay ==
  ASSUME Inv, UNCHANGED <<tables, stop, own>>, odd \subseteq odd'
  PROVE  /\ ChannelTypes' /\ (Calm' => Calm /\ Taken')
<1>1. ChannelTypes'
  BY DEF Inv, ChannelInv, ChannelTypes, TablesType, StopType, tables, own
<1>2. ASSUME Calm' PROVE Calm /\ Taken'
  <2>1. Calm
    BY <1>2 DEF Calm
  <2> QED
    BY <2>1 DEF Inv, ChannelInv, Taken, Reloading, Runs, Settled, Stopping, Each, Polled, tables, own
<1> QED
  BY <1>1, <1>2

LEMMA ServersStepKeeps ==
  ASSUME Inv, McpInv', UNCHANGED <<channelVars, own>>, odd \subseteq odd'
  PROVE  Inv'
<1>1. DeliveryType' /\ dropped' = dropped /\ UNCHANGED <<tables, stop, own>>
  BY DEF Inv, ChannelInv, DeliveryType, channelVars, delivery
<1> QED
  BY <1>1, TablesStay DEF Inv, ChannelInv

LEMMA SendsKeeps ==
  ASSUME Inv, NEW c \in Channels, Sends(c)
  PROVE  Inv'
<1>1. PICK origin \in Channels : Publishes(c, origin)
  BY DEF Sends
<1>2. UNCHANGED <<mcpVars, tables, stop, own, troubles, odd>>
  BY DEF Sends, Elsewhere
<1>3. outbound' \in Seq(Outgoing)
  <2>1. outbound \in Seq(Outgoing) /\ [channel |-> c, origin |-> origin] \in Outgoing
    BY DEF Inv, ChannelInv, DeliveryType, Outgoing
  <2> QED
    BY <1>1, <2>1 DEF Publishes
<1>4. published' \in 0..MaxOut /\ dropped' = dropped
  BY <1>1, ChannelAssumption DEF Publishes, Inv, ChannelInv, DeliveryType
<1>5. DeliveryType'
  BY <1>3, <1>4 DEF Inv, ChannelInv, DeliveryType
<1>6. McpInv'
  <2>1. call' = call /\ phase' = phase /\ file' = file
    BY <1>2 DEF mcpVars, own
  <2>2. Phases'
    BY <2>1 DEF Inv, McpInv, Phases
  <2> QED
    BY <1>2, <2>1, <2>2, ElsewhereMcp DEF Inv
<1> QED
  BY <1>2, <1>4, <1>5, <1>6, TablesStay DEF Inv, ChannelInv

LEMMA DispatchKeeps ==
  ASSUME Inv, DispatchStep
  PROVE  Inv'
<1> DEFINE msg == Head(outbound)
           c == msg.channel
<1>1. /\ outbound # <<>> /\ published' = published
      /\ \/ outbound' = Tail(outbound)
         \/ outbound' = Append(Tail(outbound), [channel |-> msg.origin, origin |-> msg.origin])
      /\ dropped' = IF channels[c] = 0 /\ c \in Expected THEN dropped + 1 ELSE dropped
  BY DEF DispatchStep, Dispatches
<1>2. UNCHANGED <<mcpVars, tables, stop, own, troubles, odd>>
  BY DEF DispatchStep, Elsewhere
<1>3. outbound \in Seq(Outgoing)
  BY DEF Inv, ChannelInv, DeliveryType
<1>4. /\ msg \in Outgoing
      /\ Tail(outbound) \in Seq(Outgoing)
  <2>1. outbound # <<>>
    BY <1>1
  <2>2. Head(outbound) \in Outgoing
    BY <1>3, <2>1
  <2>3. Tail(outbound) \in Seq(Outgoing)
    BY <1>3, <2>1
  <2> QED
    BY <2>2, <2>3
<1>6. [channel |-> msg.origin, origin |-> msg.origin] \in Outgoing
  BY <1>4 DEF Outgoing
<1> HIDE DEF msg
<1>7. outbound' \in Seq(Outgoing)
  BY <1>1, <1>4, <1>6
<1>8. dropped' \in Nat
  BY <1>1 DEF Inv, ChannelInv, DeliveryType
<1>9. DeliveryType'
  BY <1>1, <1>7, <1>8 DEF Inv, ChannelInv, DeliveryType
<1>10. Calm => dropped' = 0
  <2> SUFFICES ASSUME Calm, c \in Expected PROVE channels[c] # 0
    BY <1>1 DEF Inv, ChannelInv
  <2>1. Reloading = {} /\ c \in Enabled(file.channels) \ missing
    BY DEF Expected
  <2> QED
    BY <2>1 DEF Inv, ChannelInv, Taken, Runs, Enabled
<1>11. McpInv'
  <2>1. call' = call /\ phase' = phase /\ file' = file
    BY <1>2 DEF mcpVars, own
  <2>2. Phases'
    BY <2>1 DEF Inv, McpInv, Phases
  <2> QED
    BY <1>2, <2>1, <2>2, ElsewhereMcp DEF Inv
<1> QED
  BY <1>2, <1>9, <1>10, <1>11, TablesStay DEF Inv, ChannelInv
-----------------------------------------------------------------------------
LEMMA InitChannels == Init => ChannelInv
<1> SUFFICES ASSUME Init PROVE ChannelInv
  OBVIOUS
<1> DEFINE cfg == file.channels
           on == Enabled(cfg)
           q == SetToSeq(on)
           at(c) == CHOOSE i \in DOMAIN q : q[i] = c
<1>1. file \in Configs /\ cfg \in Sections /\ new = [r \in Reloads |-> file]
      /\ phase = [r \in Reloads |-> "none"] /\ helpers = file
  BY ReloadAssumption DEF Init, Sections
<1>2. on \subseteq Channels /\ IsFiniteSet(on) /\ \A c \in Channels : c \in on <=> cfg[c] # 0
  BY ChannelAssumption, FS_Subset DEF Enabled
<1>3. /\ q \in Seq(on) /\ DOMAIN q = 1..Len(q)
      /\ \A c \in on : at(c) \in 1..Len(q) /\ q[at(c)] = c
      /\ \A i \in 1..Len(q) : q[i] \in on /\ at(q[i]) = i
  BY <1>2, SetInSequence
<1>4. /\ made = [i \in DOMAIN q |-> [channel |-> q[i], version |-> cfg[q[i]]]]
      /\ channels = [c \in Channels |-> IF cfg[c] = 0 THEN 0 ELSE at(c)] /\ tasks = channels
      /\ polling = DOMAIN q /\ missing = {}
      /\ stop = [r \in Jobs |-> Nothing]
      /\ outbound = <<>> /\ published = 0 /\ dropped = 0
  BY DEF Init, ChannelInit
<1> HIDE DEF q, at, on
<1>5. Len(q) \in Nat /\ made \in Seq(Objects) /\ Len(made) = Len(q)
      /\ \A i \in 1..Len(q) : made[i] = [channel |-> q[i], version |-> cfg[q[i]]]
  <2>1. Len(q) \in Nat
    BY <1>3
  <2>2. \A i \in 1..Len(q) : [channel |-> q[i], version |-> cfg[q[i]]] \in Objects
    BY <1>1, <1>2, <1>3 DEF Objects, Sections
  <2>3. made = [i \in 1..Len(q) |-> [channel |-> q[i], version |-> cfg[q[i]]]]
    BY <1>3, <1>4
  <2>4. made \in [1..Len(q) -> Objects]
    BY <2>2, <2>3
  <2> QED
    BY <2>1, <2>3, <2>4
<1>6. /\ \A c \in on : channels[c] = at(c) /\ channels[c] \in 1..Len(q)
      /\ \A c \in Channels \ on : channels[c] = 0
  BY <1>2, <1>3, <1>4
<1>7. TablesType
  <2>1. \A c \in Channels : channels[c] \in 0..Len(q)
    BY <1>5, <1>6
  <2>2. channels \in [Channels -> 0..Len(made)]
    BY <1>4, <1>5, <2>1
  <2> QED
    BY <1>3, <1>4, <1>5, <2>2 DEF TablesType
<1>8. StopType
  BY <1>4, ChannelAssumption, ReloadAssumption DEF StopType, Nothing
<1>9. DeliveryType
  BY <1>4, ChannelAssumption DEF DeliveryType
<1>10. Runs(cfg)
  <2>1. \A c \in Channels : channels[c] # 0 =>
          made[channels[c]].channel = c /\ made[channels[c]].version = cfg[c] /\ cfg[c] # 0
    <3> TAKE c \in Channels
    <3>1. CASE c \in on
      <4>1. made[channels[c]] = [channel |-> q[at(c)], version |-> cfg[q[at(c)]]] /\ q[at(c)] = c
        BY <1>3, <1>5, <1>6, <3>1
      <4> QED
        BY <1>2, <3>1, <4>1
    <3>2. CASE c \notin on
      BY <1>6, <3>2
    <3> QED
      BY <3>1, <3>2
  <2>2. polling = {channels[c] : c \in Channels} \ {0}
    <3>1. polling = 1..Len(q)
      BY <1>3, <1>4
    <3>2. \A i \in 1..Len(q) : q[i] \in Channels /\ channels[q[i]] = i
      BY <1>2, <1>3, <1>6
    <3>3. \A c \in Channels : channels[c] # 0 => channels[c] \in 1..Len(q)
      BY <1>6
    <3> QED
      BY <1>5, <3>1, <3>2, <3>3
  <2>3. \A c \in Channels : channels[c] = 0 => cfg[c] = 0
    BY <1>2, <1>6
  <2> QED
    BY <1>4, <2>1, <2>2, <2>3 DEF Runs, Settled, Each, Polled
<1>11. Taken
  BY <1>1, <1>10 DEF Taken, Reloading
<1> QED
  BY <1>1, <1>4, <1>7, <1>8, <1>9, <1>11 DEF ChannelInv, ChannelTypes

LEMMA StutterKeeps == Inv /\ UNCHANGED vars => Inv'
<1> SUFFICES ASSUME Inv, UNCHANGED vars PROVE Inv'
  OBVIOUS
<1>1. UNCHANGED <<mcpVars, channelVars, own, odd>> /\ file' = file /\ phase' = phase
  BY DEF vars, own
<1>2. call' = call
  BY <1>1 DEF mcpVars
<1>3. Phases'
  BY <1>1, <1>2 DEF Inv, McpInv, Phases
<1>4. McpInv'
  BY <1>1, <1>3, ElsewhereMcp DEF Inv
<1> QED
  BY <1>1, <1>4, ServersStepKeeps

LEMMA StepKeeps == Inv /\ [Next]_vars => Inv'
<1> SUFFICES ASSUME Inv, Next PROVE Inv'
  BY StutterKeeps
<1>1. ASSUME NEW r \in Reloads, NEW cfg \in Configs, Saves(r, cfg) PROVE Inv'
  BY <1>1, SavesMcp, SavesChannels DEF Inv
<1>2. ASSUME NEW r \in Reloads, AgentDone(r) \/ AgentFailed(r) \/ StopsChannels(r) PROVE Inv'
  BY <1>2, AgentDoneKeeps, AgentFailedKeeps, StopsChannelsKeeps
<1>3. ASSUME NEW t \in Turns, TurnConnects(t) PROVE Inv'
  <2>1. UNCHANGED <<channelVars, own, odd>>
    BY <1>3 DEF TurnConnects, Ours
  <2> QED
    BY <1>3, <2>1, ConnectsMcp, ServersStepKeeps DEF Inv
<1>4. ASSUME NEW t \in Turns, TurnCancelled(t) PROVE Inv'
  <2>1. UNCHANGED <<channelVars, own, odd>>
    BY <1>4 DEF TurnCancelled, Ours
  <2> QED
    BY <1>4, <2>1, TurnCancelledMcp, ServersStepKeeps DEF Inv
<1>5. CASE CancelsWorker
  <2>1. UNCHANGED <<channelVars, own>> /\ odd \subseteq odd'
    BY <1>5 DEF CancelsWorker
  <2> QED
    BY <1>5, <2>1, CancelsWorkerMcp, ServersStepKeeps DEF Inv
<1>6. ASSUME NEW s \in Servers, ConnectionBreaks(s) PROVE Inv'
  <2>1. UNCHANGED <<channelVars, own, odd>>
    BY <1>6 DEF ConnectionBreaks, Ours
  <2> QED
    BY <1>6, <2>1, BreaksMcp, ServersStepKeeps DEF Inv
<1>7. CASE McpStep
  <2>1. UNCHANGED <<channelVars, own>> /\ odd \subseteq odd'
    BY <1>7 DEF McpStep
  <2> QED
    BY <1>7, <2>1, McpStepMcp, ServersStepKeeps DEF Inv
<1>8. ASSUME NEW c \in Channels, Sends(c) PROVE Inv'
  BY <1>8, SendsKeeps
<1>9. CASE DispatchStep
  BY <1>9, DispatchKeeps
<1> QED
  BY <1>1, <1>2, <1>3, <1>4, <1>5, <1>6, <1>7, <1>8, <1>9 DEF Next

LEMMA InvIsTyped == Inv => TypeOK
<1> SUFFICES ASSUME Inv PROVE McpTypeOK /\ ChannelTypeOK
  BY DEF TypeOK
<1>1. McpTypeOK
  <2>1. /\ {On(servers), On(sessions), On(configs), wrapped, offers, down} \subseteq SUBSET Servers
        /\ connected \in BOOLEAN /\ registry \in {"none", "present", "old"}
    BY DEF Inv, McpInv, McpTypes, On
  <2>2. /\ worker.pc \in {"get", "lock", "remove", "link", "final", "ended"}
        /\ worker.by \in Callers \cup {"nobody"}
    BY DEF Inv, McpInv, McpTypes, WorkerType, Steps, AtWork
  <2>3. \A s \in Servers : heal[s].pc \in {"none", "lock", "link"}
    BY DEF Inv, McpInv, McpTypes
  <2>4. /\ requests \in Seq(Callers)
        /\ call \in [Callers -> {"idle", "waiting", "returned", "failed"}]
        /\ connecting = \E c \in Callers : call[c] = "waiting"
    BY DEF Inv, McpInv, Waiting
  <2>5. /\ mutex \in {"free", "worker"} \cup Servers
        /\ (mutex = "worker") = (worker.pc \in {"remove", "link"})
        /\ \A s \in Servers : (mutex = s) = (heal[s].pc = "link")
    BY DEF Inv, McpInv, Locked
  <2> QED
    BY <2>1, <2>2, <2>3, <2>4, <2>5 DEF McpTypeOK
<1>2. ChannelTypeOK
  <2>1. /\ made \in Seq([channel : Channels, version : Nat])
        /\ \A c \in Channels : {channels[c], tasks[c]} \subseteq 0..Len(made)
        /\ polling \subseteq DOMAIN made /\ missing \subseteq Channels
    BY DEF Inv, ChannelInv, ChannelTypes, TablesType, Objects
  <2>2. \A r \in Jobs : (stop[r].at \in Channels) = (stop[r].awaits \in {"stop", "task"})
    BY ReloadAssumption DEF Inv, ChannelInv, ChannelTypes, StopType
  <2> QED
    BY <2>1, <2>2 DEF ChannelTypeOK, Inv, ChannelInv, DeliveryType, Outgoing
<1> QED
  BY <1>1, <1>2

LEMMA InvTakesEffect == Inv => ReloadTakesEffect
<1> SUFFICES ASSUME Inv PROVE ReloadTakesEffect
  OBVIOUS
<1>1. Calm => dropped = 0
  BY DEF Inv, ChannelInv
<1>2. ASSUME Rest, Calm PROVE helpers = file /\ ChannelsAsSaved
  <2>1. helpers = file /\ Runs(file.channels)
    BY <1>2 DEF Inv, ChannelInv, Taken, Rest
  <2>2. TablesType /\ file.channels \in Sections
    BY ReloadAssumption DEF Inv, ChannelInv, ChannelTypes, Sections
  <2> QED
    BY <2>1, <2>2, RunsIsSaved
<1>3. servers = file.mcp
  BY DEF Inv, McpInv
<1>4. ASSUME Rest, connected, odd \cap {"linking", "unhealed"} = {}
      PROVE  McpAsSaved
  <2>1. /\ worker.pc = "get" /\ \A s \in Servers : heal[s].pc = "none"
        /\ sessions \in Versions /\ wrapped = On(configs) /\ offers \subseteq Servers
    BY <1>4 DEF Rest, Inv, McpInv, McpTypes, Sessions
  <2>2. /\ \A u \in Servers : configs[u] \in {0, servers[u]}
        /\ \A u \in Servers : u \in down \/ sessions[u] = servers[u]
        /\ "halfLinked" \notin odd => wrapped \subseteq offers
    BY <1>4, <2>1 DEF Inv, McpInv, Right
  <2>3. \A u \in Servers : configs[u] = sessions[u]
    BY <1>4, <2>1 DEF Inv, McpInv, Up
  <2>4. \A s \in Servers : sessions[s] = IF s \in down THEN 0 ELSE file.mcp[s]
    BY <1>3, <2>2 DEF Inv, McpInv, Sessions
  <2>5. On(sessions) = wrapped
    BY <2>1, <2>3 DEF On
  <2>6. wrapped \subseteq On(file.mcp)
    BY <1>3, <2>1, <2>2 DEF On
  <2>7. "toolsLeft" \notin odd => offers \subseteq wrapped
    BY <1>4 DEF Inv, McpInv, NoOther
  <2> QED
    BY <2>2, <2>4, <2>5, <2>6, <2>7 DEF McpAsSaved
<1> QED
  BY <1>1, <1>2, <1>3, <1>4 DEF ReloadTakesEffect, Calm

\* The inductive invariant of the connections and the channels.
THEOREM ReloadInvariant == Spec => []Inv
<1>1. Init => Inv
  BY InitMcp, InitChannels DEF Inv
<1> QED
  BY <1>1, StepKeeps, PTL DEF Spec

\* Every state is of its type; the lock of the connections is with whoever opens or
\* closes one, and a connect is under way just when a caller waits.
THEOREM ReloadType == Spec => []TypeOK
BY ReloadInvariant, InvIsTyped, PTL

\* What was last saved is what runs once reloads and connections are at rest, but for
\* the failures ReloadTakesEffect names, whatever turns, cancellations and broken
\* connections come between; and no message to a channel that is on is turned away.
THEOREM ReloadEffect == Spec => []ReloadTakesEffect
BY ReloadInvariant, InvTakesEffect, PTL
=============================================================================
