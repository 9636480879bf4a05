----------------------------- MODULE McpManager -----------------------------
(***************************************************************************)
(* The connections to MCP servers (agent/mcp_manager.py,                   *)
(* agent/tools/mcp.py).  One worker task opens and closes them, on request *)
(* of turns and reloads that wait for its answer; a tool call or a read    *)
(* that meets a broken connection reconnects its server beside the worker, *)
(* under one lock.  The tools of a server are wrapped once and offered by  *)
(* a registry (SkillVault) that a reload replaces.  Servers are configured *)
(* with a version, 0 for not at all.  Left out: the exit stacks that free  *)
(* a connection's resources, and close(), called when the program ends.    *)
(***************************************************************************)
EXTENDS Naturals, Sequences

CONSTANTS
  Servers,     \* names of MCP servers
  Turns,       \* tasks that connect before they handle a message
  Reloads      \* tasks of _do_reload

ASSUME McpAssumption == Turns \cap Reloads = {} /\ Servers \cap {"free", "worker"} = {}

Callers == Turns \cup Reloads
NoServers == [s \in Servers |-> 0]
On(cfg) == {s \in Servers : cfg[s] # 0}

VARIABLES
  servers,     \* _mcp_servers
  connected,   \* _mcp_connected
  connecting,  \* _mcp_connecting
  requests,    \* _mcp_queue, as the callers that wait in it
  worker,      \* _worker_task: where it is, for whom, with which servers
  call,        \* where a caller is: idle, waiting, returned, failed
  sessions,    \* _mcp_sessions, with the version each was opened with
  configs,     \* _mcp_configs
  wrapped,     \* the servers in _mcp_wrapped_tools
  offers,      \* the servers whose tools the present registry has
  registry,    \* _registry: none, the present one, or an old one
  mutex,       \* _mcp_lock: free, or worker, or a server that reconnects
  heal,        \* reconnect_server(s)
  down         \* servers that did not answer when last asked to connect

link == <<sessions, configs, wrapped, offers, registry, mutex, down>>
mcpVars == <<servers, connected, connecting, requests, worker, call, link, heal>>

Idle == [pc |-> "get", by |-> "nobody", cfg |-> NoServers, old |-> FALSE, todo |-> {}]
NoHeal == [pc |-> "none", version |-> 0, old |-> FALSE]

McpInit(cfg) ==
  /\ servers = cfg /\ connected = FALSE /\ connecting = FALSE
  /\ requests = <<>> /\ worker = Idle /\ call = [c \in Callers |-> "idle"]
  /\ sessions = NoServers /\ configs = NoServers /\ wrapped = {} /\ offers = {}
  /\ registry = "none" /\ mutex = "free"
  /\ heal = [s \in Servers |-> NoHeal] /\ down = {}
-----------------------------------------------------------------------------
(* The callers.                                                            *)

\* A worker that has ended is replaced before anything else.
Revived == IF worker.pc = "ended" THEN Idle ELSE worker

\* connect(): a request, unless there is nothing to do or another one waits.
Asks(c, isConnected, cfg) ==
  IF isConnected \/ connecting \/ On(cfg) = {}
  THEN call' = [call EXCEPT ![c] = "returned"] /\ UNCHANGED <<connecting, requests>>
  ELSE /\ call' = [call EXCEPT ![c] = "waiting"]
       /\ connecting' = TRUE /\ requests' = Append(requests, c)

Connect(c) ==
  /\ call[c] = "idle" /\ worker' = Revived
  /\ Asks(c, connected, servers)
  /\ UNCHANGED <<servers, connected, link, heal>>

\* A caller's future is done, and a connecting one's finally runs; a caller that
\* was cancelled meanwhile has run it already.
Answers(c, how) ==
  /\ call' = IF call[c] = "waiting" THEN [call EXCEPT ![c] = how] ELSE call
  /\ connecting' = (connecting /\ call[c] # "waiting")

\* The caller's own task is cancelled while it waits.
Abandons(c) ==
  /\ call[c] = "waiting"
  /\ Answers(c, "failed")
  /\ UNCHANGED <<servers, connected, requests, worker, link, heal>>

\* Mutant: the new servers are taken over, the flag is not.
StillConnected(cfg) == connected

\* reconfigure().
StaysConnected(cfg) == connected /\ cfg = servers

\* ShibaBrain.reconfigure, as far as the await: the new servers, a new registry with
\* the wrapped tools there are, and a connect if the servers have changed.  What is
\* under way goes on with the servers and the registry it was given.
Reconfigure(r, cfg) ==
  LET connects == cfg # servers /\ On(cfg) # {}
  IN /\ servers' = cfg /\ connected' = StaysConnected(cfg)
     /\ offers' = IF On(sessions) = {} THEN {} ELSE wrapped
     /\ registry' = IF registry = "present" THEN "old" ELSE registry
     /\ heal' = [s \in Servers |-> [heal[s] EXCEPT !.old = heal[s].pc = "link"]]
     /\ worker' = [(IF connects THEN Revived ELSE worker) EXCEPT
                      !.old = worker.pc \in {"lock", "remove", "link"}]
     /\ IF connects THEN Asks(r, StaysConnected(cfg), cfg)
        ELSE call' = [call EXCEPT ![r] = "returned"] /\ UNCHANGED <<connecting, requests>>
     /\ UNCHANGED <<sessions, configs, wrapped, mutex, down>>
-----------------------------------------------------------------------------
(* The worker.                                                             *)

\* The next request: its servers and its registry are those of this moment.
Takes ==
  /\ worker.pc = "get" /\ requests # <<>>
  /\ requests' = Tail(requests)
  /\ LET c == Head(requests)
     IN IF On(servers) = {}
        THEN Answers(c, "returned") /\ UNCHANGED worker
        ELSE /\ worker' = [Idle EXCEPT !.pc = "lock", !.by = c, !.cfg = servers]
             /\ UNCHANGED <<call, connecting>>
  /\ UNCHANGED <<servers, connected, link, heal>>

Registered(old) == IF old THEN "old" ELSE "present"

\* connect_mcp_servers has the lock: servers gone or changed are removed ...
Locks ==
  /\ worker.pc = "lock" /\ mutex = "free" /\ mutex' = "worker"
  /\ registry' = Registered(worker.old)
  /\ worker' = [worker EXCEPT !.pc = "remove",
                              !.todo = {s \in On(sessions) : configs[s] # worker.cfg[s]}]
  /\ UNCHANGED <<servers, connected, connecting, requests, call, sessions, configs, wrapped,
                 offers, heal, down>>

Removes(s) ==
  /\ worker.pc = "remove" /\ s \in worker.todo
  /\ worker' = [worker EXCEPT !.todo = @ \ {s}]
  /\ sessions' = [sessions EXCEPT ![s] = 0] /\ configs' = [configs EXCEPT ![s] = 0]
  /\ wrapped' = wrapped \ {s}
  /\ offers' = IF worker.old \/ s \notin wrapped THEN offers ELSE offers \ {s}
  /\ down' = down \ {s}
  /\ UNCHANGED <<servers, connected, connecting, requests, call, registry, mutex, heal>>

Removed ==
  /\ worker.pc = "remove" /\ worker.todo = {}
  /\ worker' = [worker EXCEPT !.pc = "link", !.todo = On(worker.cfg) \ On(sessions)]
  /\ UNCHANGED <<servers, connected, connecting, requests, call, link, heal>>

\* A server answers and lists its tools, or does not.
Opens(s, version) ==
  \/ /\ sessions' = [sessions EXCEPT ![s] = version]
     /\ configs' = [configs EXCEPT ![s] = version]
     /\ wrapped' = wrapped \cup {s}
     /\ down' = down \ {s}
  \/ down' = down \cup {s} /\ UNCHANGED <<sessions, configs, wrapped>>

\* ... the missing ones are connected one after the other ...
Links(s) ==
  /\ worker.pc = "link" /\ s \in worker.todo
  /\ worker' = [worker EXCEPT !.todo = @ \ {s}]
  /\ Opens(s, worker.cfg[s])
  /\ UNCHANGED <<servers, connected, connecting, requests, call, offers, registry, mutex, heal>>

\* ... and all their tools registered.
Linked ==
  /\ worker.pc = "link" /\ worker.todo = {} /\ worker' = Idle
  /\ offers' = IF worker.old \/ On(sessions) = {} THEN offers ELSE offers \cup wrapped
  /\ connected' = TRUE /\ mutex' = "free"
  /\ Answers(worker.by, "returned")
  /\ UNCHANGED <<servers, requests, sessions, configs, wrapped, registry, heal, down>>

\* The worker ends: the connections are closed, and forgotten without the lock.
Ends ==
  /\ worker.pc = "final" /\ worker' = [Idle EXCEPT !.pc = "ended"]
  /\ sessions' = NoServers /\ configs' = NoServers /\ wrapped' = {} /\ registry' = "none"
  /\ connected' = FALSE
  /\ UNCHANGED <<servers, connecting, requests, call, offers, mutex, heal, down>>

\* Mutant: a connect that is cancelled leaves its caller without an answer.
WorkerCancelledQuietly ==
  /\ \/ worker.pc = "get" /\ worker' = [Idle EXCEPT !.pc = "final"] /\ UNCHANGED mutex
     \/ /\ worker.pc \in {"lock", "remove", "link"} /\ worker' = Idle
        /\ mutex' = IF mutex = "worker" THEN "free" ELSE mutex
  /\ UNCHANGED <<servers, connected, connecting, requests, call, sessions, configs, wrapped,
                 offers, registry, heal, down>>

\* The worker's task is cancelled, by a connection whose scope breaks or with all
\* tasks of the gateway: while it waits for a request it ends; a request under way
\* fails instead, its caller gets the cancellation, and the sessions stay listed.
WorkerCancelled ==
  /\ \/ /\ worker.pc = "get" /\ worker' = [Idle EXCEPT !.pc = "final"]
        /\ UNCHANGED <<mutex, call, connecting>>
     \/ /\ worker.pc \in {"lock", "remove", "link"} /\ worker' = Idle
        /\ mutex' = IF mutex = "worker" THEN "free" ELSE mutex
        /\ Answers(worker.by, "failed")
  /\ UNCHANGED <<servers, connected, requests, sessions, configs, wrapped, offers, registry,
                 heal, down>>
-----------------------------------------------------------------------------
(* Self-healing.                                                           *)

\* A call or a read meets a broken connection.
Breaks(s) ==
  /\ configs[s] # 0 /\ heal[s].pc = "none"
  /\ heal' = [heal EXCEPT ![s] = [NoHeal EXCEPT !.pc = "lock"]]
  /\ UNCHANGED <<servers, connected, connecting, requests, worker, call, link>>

\* Mutant: a server is reconnected without the lock.
HealLocksNothing(s) ==
  /\ heal[s].pc = "lock"
  /\ IF registry = "none" \/ configs[s] = 0
     THEN heal' = [heal EXCEPT ![s] = NoHeal] /\ UNCHANGED sessions
     ELSE /\ heal' = [heal EXCEPT ![s] = [pc |-> "link", version |-> configs[s],
                                          old |-> registry = "old"]]
          /\ sessions' = [sessions EXCEPT ![s] = 0]
  /\ UNCHANGED <<servers, connected, connecting, requests, worker, call, configs, wrapped, offers,
                 registry, mutex, down>>

HealLocks(s) ==
  /\ heal[s].pc = "lock" /\ mutex = "free"
  /\ IF registry = "none" \/ configs[s] = 0
     THEN heal' = [heal EXCEPT ![s] = NoHeal] /\ UNCHANGED <<mutex, sessions>>
     ELSE /\ heal' = [heal EXCEPT ![s] = [pc |-> "link", version |-> configs[s],
                                          old |-> registry = "old"]]
          /\ mutex' = s /\ sessions' = [sessions EXCEPT ![s] = 0]
  /\ UNCHANGED <<servers, connected, connecting, requests, worker, call, configs, wrapped, offers,
                 registry, down>>

HealLinks(s) ==
  /\ heal[s].pc = "link" /\ heal' = [heal EXCEPT ![s] = NoHeal]
  /\ Opens(s, heal[s].version)
  /\ offers' = IF heal[s].old \/ On(sessions') = {} THEN offers ELSE offers \cup wrapped'
  /\ registry' = Registered(heal[s].old) /\ mutex' = "free"
  /\ UNCHANGED <<servers, connected, connecting, requests, worker, call>>
-----------------------------------------------------------------------------
McpWorks ==
  \/ Takes \/ Locks \/ (\E s \in Servers : Removes(s) \/ Links(s)) \/ Removed \/ Linked
  \/ Ends
  \/ \E s \in Servers : HealLocks(s) \/ HealLinks(s)

McpTypeOK ==
  /\ {On(servers), On(sessions), On(configs), wrapped, offers, down} \subseteq SUBSET Servers
  /\ connected \in BOOLEAN
  /\ requests \in Seq(Callers)
  /\ worker.pc \in {"get", "lock", "remove", "link", "final", "ended"}
  /\ worker.by \in Callers \cup {"nobody"}
  /\ call \in [Callers -> {"idle", "waiting", "returned", "failed"}]
  /\ registry \in {"none", "present", "old"}
  /\ \A s \in Servers : heal[s].pc \in {"none", "lock", "link"}
  \* A connect waits just when one is known to be under way.
  /\ connecting = \E c \in Callers : call[c] = "waiting"
  \* The lock is with whom it says, and with no other.
  /\ mutex \in {"free", "worker"} \cup Servers
  /\ (mutex = "worker") = (worker.pc \in {"remove", "link"})
  /\ \A s \in Servers : (mutex = s) = (heal[s].pc = "link")
=============================================================================
