--------------------------- MODULE GatewayReload ----------------------------
(***************************************************************************)
(* The gateway takes over a configuration the WebUI has saved              *)
(* (cli/gateway.py: _do_reload): first the agent with its MCP servers      *)
(* (McpManager), then the channels (ChannelManager).  Each saving makes a  *)
(* task of its own, which reads the file at its start; nothing keeps two   *)
(* of them apart.  Turns connect to the MCP servers meanwhile, tools meet  *)
(* broken connections, and messages go out.                                *)
(***************************************************************************)
EXTENDS McpManager, ChannelManager

CONSTANTS
  Configs,      \* the configurations that are saved: MCP servers and channels
  MaxTroubles   \* bound: cancelled tasks and broken connections

ASSUME ReloadAssumption ==
  /\ Jobs = Reloads
  /\ Configs \subseteq [mcp : [Servers -> Nat], channels : [Channels -> Nat]]

VARIABLES
  file,      \* the configuration last saved
  phase,     \* per reload: none, agent, channels, done, failed
  new,       \* the configuration it has read
  helpers,   \* the configuration of the subagents and the consolidator
  troubles,
  odd        \* what went wrong: a reload met another one (overlap), or the worker or a
             \* healing connection at work (linking), or its connect was cancelled (failed);
             \* the worker ended and left its tools (toolsLeft), or was cancelled between
             \* two connections (halfLinked); a broken server did not come back (unhealed)

own == <<file, phase, new, helpers>>
vars == <<mcpVars, channelVars, own, troubles, odd>>

Init ==
  /\ file \in Configs
  /\ McpInit(file.mcp) /\ ChannelInit(file.channels)
  /\ phase = [r \in Reloads |-> "none"] /\ new = [r \in Reloads |-> file]
  /\ helpers = file
  /\ troubles = 0 /\ odd = {}

Trouble == troubles < MaxTroubles /\ troubles' = troubles + 1
Reloading == {r \in Reloads : phase[r] \in {"agent", "channels"}}
Linking ==
  worker.pc \in {"lock", "remove", "link"} \/ \E s \in Servers : heal[s].pc = "link"
-----------------------------------------------------------------------------
\* The rest of agent.reconfigure after its await, and channels.reconfigure up to its
\* first await.
GoesOn(r, cfg) ==
  /\ helpers' = cfg
  /\ Differ(r, cfg.channels)
  /\ phase' = [phase EXCEPT ![r] = IF stop'[r] = Nothing THEN "done" ELSE "channels"]

\* A configuration is saved and its reload begins.
Saves(r, cfg) ==
  /\ phase[r] = "none" /\ cfg # file
  /\ file' = cfg /\ new' = [new EXCEPT ![r] = cfg]
  /\ Reconfigure(r, cfg.mcp)
  /\ IF call'[r] = "returned" THEN GoesOn(r, cfg)
     ELSE phase' = [phase EXCEPT ![r] = "agent"] /\ UNCHANGED <<helpers, tables, stop>>
  /\ odd' = odd \cup (IF Reloading # {} THEN {"overlap"} ELSE {})
                \cup (IF Linking THEN {"linking"} ELSE {})
  /\ UNCHANGED <<delivery, troubles>>

AgentDone(r) ==
  /\ phase[r] = "agent" /\ call[r] = "returned"
  /\ GoesOn(r, new[r])
  /\ UNCHANGED <<mcpVars, delivery, file, new, troubles, odd>>

\* The cancellation of the connect it awaits is no Exception: the reload ends there.
AgentFailed(r) ==
  /\ phase[r] = "agent" /\ call[r] = "failed"
  /\ phase' = [phase EXCEPT ![r] = "failed"]
  /\ odd' = odd \cup {"failed"}
  /\ UNCHANGED <<mcpVars, channelVars, file, new, helpers, troubles>>

StopsChannels(r) ==
  /\ phase[r] = "channels"
  /\ Stopped(r, new[r].channels) \/ TaskEnded(r, new[r].channels)
  /\ phase' = [phase EXCEPT ![r] = IF stop'[r] = Nothing THEN "done" ELSE @]
  /\ UNCHANGED <<mcpVars, delivery, file, new, helpers, troubles, odd>>
-----------------------------------------------------------------------------
Ours == UNCHANGED <<channelVars, own, odd>>

TurnConnects(t) == Connect(t) /\ Ours /\ UNCHANGED troubles
TurnCancelled(t) == Trouble /\ Abandons(t) /\ Ours
ConnectionBreaks(s) == Trouble /\ Breaks(s) /\ Ours

CancelsWorker ==
  /\ Trouble /\ WorkerCancelled
  /\ odd' = odd \cup (IF worker.pc = "link" THEN {"halfLinked"} ELSE {})
  /\ UNCHANGED <<channelVars, own>>

WorkerEnds == worker.pc = "final" /\ worker'.pc = "ended"
StaysAway(s) == heal[s].pc = "link" /\ heal'[s].pc = "none" /\ s \in down'

McpStep ==
  /\ McpWorks
  /\ odd' = odd \cup (IF WorkerEnds THEN {"toolsLeft"} ELSE {})
                \cup (IF \E s \in Servers : StaysAway(s) THEN {"unhealed"} ELSE {})
  /\ UNCHANGED <<channelVars, own, troubles>>

\* The channels a message finds while no reload is under way.
Expected == IF Reloading = {} THEN Enabled(file.channels) \ missing ELSE {}

Elsewhere == UNCHANGED <<mcpVars, tables, stop, own, troubles, odd>>
Sends(c) == (\E origin \in Channels : Publishes(c, origin)) /\ Elsewhere
DispatchStep == Dispatches(Expected) /\ Elsewhere

Next ==
  \/ \E r \in Reloads :
       \/ \E cfg \in Configs : Saves(r, cfg)
       \/ AgentDone(r) \/ AgentFailed(r) \/ StopsChannels(r)
  \/ \E t \in Turns : TurnConnects(t) \/ TurnCancelled(t)
  \/ CancelsWorker \/ (\E s \in Servers : ConnectionBreaks(s)) \/ McpStep
  \/ (\E c \in Channels : Sends(c)) \/ DispatchStep

Fairness ==
  /\ WF_vars(McpStep) /\ WF_vars(DispatchStep)
  /\ \A r \in Reloads : WF_vars(AgentDone(r) \/ AgentFailed(r) \/ StopsChannels(r))

Spec == Init /\ [][Next]_vars /\ Fairness
-----------------------------------------------------------------------------
\* The two managers are in states of their types; the lock of the connections is with
\* whoever opens or closes one, and a connect is under way just when a caller waits.
TypeOK == McpTypeOK /\ ChannelTypeOK

Rest ==
  /\ Reloading = {} /\ worker.pc = "get" /\ requests = <<>>
  /\ \A s \in Servers : heal[s].pc = "none"

McpAsSaved ==
  /\ \A s \in Servers : sessions[s] = IF s \in down THEN 0 ELSE file.mcp[s]
  /\ "halfLinked" \notin odd => On(sessions) \subseteq offers
  /\ "toolsLeft" \notin odd => wrapped \cup offers \subseteq On(file.mcp)

ChannelsAsSaved ==
  /\ \A c \in Channels :
       IF file.channels[c] = 0 \/ c \in missing THEN channels[c] = 0
       ELSE channels[c] # 0 /\ made[channels[c]] = [channel |-> c, version |-> file.channels[c]]
  /\ tasks = channels
  /\ polling = {channels[c] : c \in Channels} \ {0}

\* Once the reloads and the MCP work are over, what runs is what was last saved: the
\* servers that answer are connected as configured and all their tools offered, those
\* of no other; each channel that can be made is there once, polled by its own task,
\* and no message to it was turned away while no reload was under way.  The exceptions
\* are what the code leaves behind: the channels and helpers are not those saved after
\* reloads that met each other or whose connect was cancelled; the servers are not after
\* a reload in the midst of a connect, or when a broken one did not come back; and tools
\* are missing, or left over, where the worker was cancelled between two connections,
\* or ended.
ReloadTakesEffect ==
  /\ Rest =>
       /\ odd \cap {"failed", "overlap"} = {} => helpers = file /\ ChannelsAsSaved
       /\ servers = file.mcp
       /\ connected /\ odd \cap {"linking", "unhealed"} = {} => McpAsSaved
  /\ odd \cap {"failed", "overlap"} = {} => dropped = 0

\* Unless the worker has ended and waits for the next connect, every turn and every
\* reload that waits for the servers gets an answer, and every reload comes to its
\* end, whatever is cancelled meanwhile and however reloads overlap.
EveryoneAnswered ==
  <>[](worker.pc = "ended" \/ (Reloading = {} /\ \A c \in Callers : call[c] # "waiting"))
=============================================================================
