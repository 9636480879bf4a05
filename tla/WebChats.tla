------------------------------ MODULE WebChats ------------------------------
(***************************************************************************)
(* The chat of one session between the browser tabs, the WebUI's WebSocket *)
(* handler (webui/ws_handler.py), its client of the gateway                *)
(* (webui/gateway_client.py) and the gateway's chats (cli/gateway.py).     *)
(*                                                                         *)
(* A tab's handler takes one command at a time.  A message that comes      *)
(* while the session is processing is offered to the running turn (steer)  *)
(* and queued when the turn does not take it; the deque it is queued in is *)
(* the one the handler got before it asked.  The job that runs a message   *)
(* starts the next one when it ends, or takes everything down.  A stop in  *)
(* the WebUI ends the job, not the gateway's chat.                         *)
(*                                                                         *)
(* A turn's tool may ask the user (agent/tools/interactive.py): the hub    *)
(* (agent/interactive.py) sends the question with the session's emitter,   *)
(* the tabs show it, and the first answer the hub takes is the tool's,     *)
(* unless the question times out.                                          *)
(***************************************************************************)
EXTENDS Naturals, Sequences, FiniteSets, SequencesExt

CONSTANTS
  Order,       \* the messages users send, each once, in this order
  Tabs,        \* the browser tabs that show the session
  FirstTab,    \* the one the first message comes from (the tabs differ in nothing)
  NoMsg,       \* no message
  NoTab,       \* no tab
  Budgets      \* bounds of a behaviour: messages sent; stops and cancelled requests;
               \* turns that fail, answers and connections lost, restarts; questions

Msgs == Range(Order)

ASSUME OrderAssumption == Order \in Seq(Msgs) /\ IsInjective(Order)
ASSUME NothingAssumption == NoMsg \notin Msgs /\ NoTab \notin Tabs /\ FirstTab \in Tabs
ASSUME BudgetsAssumption ==
  Budgets \subseteq [sends : 0..Len(Order), stops : Nat, troubles : Nat, asks : Nat]
\* What the gateway answers of is told apart: a tab's request, a chat, a question.
ASSUME WireAssumption ==
  /\ Tabs \cap Msgs = {}
  /\ (Tabs \cup Msgs) \cap (Msgs \X (Msgs \cup {NoMsg})) = {}

VARIABLES
  tab,         \* each tab's handler: idle, acking, or what became of its steering
  proc,        \* processing_state[key] is there
  queue,       \* _session_queues[key]; an absent deque is an empty one
  holds,       \* the handlers whose deque is the one in _session_queues
  job,         \* run_agent_job of each message: how far, cancelled?
  registered,  \* _session_tasks[key]
  chat,        \* the gateway's chat of each message
  steering,    \* the gateway's _steering_queues[key]: is it there, its messages
  wire,        \* what the gateway has answered: steering of a tab, chat of a message
  emitter,     \* whose events the hub's emitter of the session sends
  ask,         \* the question of each message's turn: how far, by whose emitter, the tool's result
  hub,         \* the hub's table: the questions in it, the answers their futures hold
  shown,       \* the questions the tabs have shown
  told,        \* what each tab was told of its answer: taken or not
  left,        \* what is left of each bound
  sent,        \* history: the messages sent
  handled,     \* history: how often each message came before the model
  stopped,     \* history: messages a stop has taken away
  odd          \* history: what has gone wrong

webui == <<proc, queue, holds, job, registered>>
gateway == <<chat, steering, wire, emitter>>
asks == <<ask, hub, shown, told>>
vars == <<tab, webui, gateway, asks, left, sent, handled, stopped, odd>>

Init ==
  /\ tab = [t \in Tabs |-> [pc |-> "idle", msg |-> NoMsg]]
  /\ proc = FALSE
  /\ queue = <<>> /\ holds = {}
  /\ job = [m \in Msgs |-> [pc |-> "none", cancel |-> FALSE]]
  /\ registered = NoMsg
  /\ chat = [m \in Msgs |-> "none"]
  /\ steering = [open |-> FALSE, msgs |-> <<>>]
  /\ wire = <<>> /\ emitter = NoMsg
  /\ ask = [m \in Msgs |-> [pc |-> "none", via |-> NoMsg, got |-> NoTab]]
  /\ hub = [pending |-> {}, answer |-> [m \in Msgs |-> NoTab]]
  /\ shown = {} /\ told = {}
  /\ left \in Budgets
  /\ sent = {} /\ stopped = {} /\ odd = {}
  /\ handled = [m \in Msgs |-> 0]

Idle == [pc |-> "idle", msg |-> NoMsg]
Trouble == left.troubles > 0 /\ left' = [left EXCEPT !.troubles = @ - 1]
InLoop == {m \in Msgs : chat[m] = "looping"}
Asking(m) == ask[m].pc \in {"emitting", "waiting", "expired"}
Thinks(m) == chat[m] = "looping" /\ ~Asking(m)   \* no tool of the turn waits for the user
InTurn == {m \in Msgs : chat[m] \in {"running", "looping", "closing"}}   \* has the session's lock
Active(m) == job[m].pc \in {"created", "streaming", "answered"}
Arrives(a) == wire # <<>> /\ Head(wire) = a /\ wire' = Tail(wire)   \* _recv_loop

-----------------------------------------------------------------------------
(* _handle_user_message *)

\* Mutant: a session that is processing is not noticed.
SendsAnyway(t, m) ==
  /\ tab[t].pc = "idle" /\ Cardinality(sent) < left.sends /\ m = Order[Cardinality(sent) + 1]
  /\ sent = {} => t = FirstTab
  /\ sent' = sent \cup {m}
  /\ holds' = holds \cup {t}
  /\ tab' = [tab EXCEPT ![t] = [pc |-> "acking", msg |-> m]]
  /\ proc' = TRUE
  /\ UNCHANGED <<queue, job, registered, gateway, asks, left, handled, stopped, odd>>

\* While the session is processing the turn is offered the message; else the
\* session is processing from here on, and the acknowledgements are sent.
Sends(t, m) ==
  /\ tab[t].pc = "idle" /\ Cardinality(sent) < left.sends /\ m = Order[Cardinality(sent) + 1]
  /\ sent = {} => t = FirstTab
  /\ sent' = sent \cup {m}
  /\ holds' = holds \cup {t}
  /\ tab' = [tab EXCEPT ![t] = [pc |-> IF proc THEN "steering" ELSE "acking", msg |-> m]]
  /\ proc' = TRUE
  /\ UNCHANGED <<queue, job, registered, gateway, asks, left, handled, stopped, odd>>

\* ... and then its job is made.
MakesJob(t) ==
  /\ tab[t].pc = "acking"
  /\ tab' = [tab EXCEPT ![t] = Idle]
  /\ job' = [job EXCEPT ![tab[t].msg].pc = "created"]
  /\ registered' = tab[t].msg
  /\ UNCHANGED <<proc, queue, holds, gateway, asks, left, sent, handled, stopped, odd>>

\* The gateway takes the message while there is a steering queue, which a turn
\* that failed leaves behind.
Injects(t) ==
  /\ tab[t].pc = "steering"
  /\ IF steering.open
     THEN /\ steering' = [steering EXCEPT !.msgs = Append(@, tab[t].msg)]
          /\ tab' = [tab EXCEPT ![t].pc = "injected"]
          /\ odd' = IF InLoop = {} THEN odd \cup {"leftOver"} ELSE odd
     ELSE tab' = [tab EXCEPT ![t].pc = "refused"] /\ UNCHANGED <<steering, odd>>
  /\ wire' = Append(wire, t)
  /\ UNCHANGED <<webui, chat, emitter, asks, left, sent, handled, stopped>>

\* What a handler that waits for the gateway knows when request() returns None.
Unanswered(pc) == IF pc \in {"replying", "taken", "denied"} THEN "untold" ELSE "unanswered"

\* The answers a request waited for that nobody waits for now are dropped.
Without(answers, t) ==
  IF \E i \in DOMAIN answers : answers[i] = t
  THEN LET i == CHOOSE i \in DOMAIN answers : answers[i] = t
       IN  [j \in 1..(Len(answers) - 1) |-> IF j < i THEN answers[j] ELSE answers[j + 1]]
  ELSE answers

\* request() returns None: the question is lost, or its answer comes too late.
AnswerLost(t) ==
  /\ tab[t].pc \in {"steering", "injected", "replying", "taken"}
  /\ Trouble
  /\ tab' = [tab EXCEPT ![t].pc = Unanswered(@)]
  /\ wire' = Without(wire, t)
  /\ odd' = IF tab[t].pc \in {"injected", "taken"} THEN odd \cup {"answerLost"} ELSE odd
  /\ UNCHANGED <<webui, chat, steering, emitter, asks, sent, handled, stopped>>

\* The message is with the turn: acknowledged.
Acknowledges(t) ==
  /\ tab[t].pc = "injected" /\ Arrives(t)
  /\ tab' = [tab EXCEPT ![t] = Idle]
  /\ UNCHANGED <<webui, chat, steering, emitter, asks, left, sent, handled, stopped, odd>>

\* The message is acknowledged as queued, in the deque of before the question.
Queues(t) ==
  /\ \/ tab[t].pc = "refused" /\ Arrives(t)
     \/ tab[t].pc = "unanswered" /\ UNCHANGED wire
  /\ IF t \in holds
     THEN queue' = Append(queue, tab[t].msg) /\ UNCHANGED odd
     ELSE odd' = odd \cup {"orphan"} /\ UNCHANGED queue
  /\ tab' = [tab EXCEPT ![t] = Idle]
  /\ UNCHANGED <<proc, holds, job, registered, chat, steering, emitter, asks, left, sent,
                 handled, stopped>>

-----------------------------------------------------------------------------
(* run_agent_job *)

\* Its first step: the chat is asked for.
JobStarts(m) ==
  /\ job[m].pc = "created" /\ ~job[m].cancel
  /\ job' = [job EXCEPT ![m].pc = "streaming"]
  /\ proc' = TRUE
  /\ chat' = [chat EXCEPT ![m] = "sent"]
  /\ UNCHANGED <<tab, queue, holds, registered, steering, wire, emitter, asks, left, sent,
                 handled, stopped, odd>>

\* Cancelled before its first step: its finally does not run.
JobNeverStarts(m) ==
  /\ job[m].pc = "created" /\ job[m].cancel
  /\ job' = [job EXCEPT ![m].pc = "ended"]
  /\ odd' = odd \cup {"stuck"}
  /\ UNCHANGED <<tab, proc, queue, holds, registered, gateway, asks, left, sent, handled, stopped>>

\* Mutant: processing_state outlives the last job.
FinallyKeepsState(m) ==
  IF queue # <<>>
  THEN /\ job' = [job EXCEPT ![m].pc = "ended", ![Head(queue)].pc = "created"]
       /\ registered' = Head(queue)
       /\ queue' = Tail(queue)
       /\ UNCHANGED <<proc, holds>>
  ELSE /\ job' = [job EXCEPT ![m].pc = "ended"]
       /\ registered' = NoMsg
       /\ queue' = <<>> /\ holds' = {}
       /\ UNCHANGED proc

\* The next message of the deque, or the end of the processing.
Finally(m) ==
  IF queue # <<>>
  THEN /\ job' = [job EXCEPT ![m].pc = "ended", ![Head(queue)].pc = "created"]
       /\ registered' = Head(queue)
       /\ queue' = Tail(queue)
       /\ UNCHANGED <<proc, holds>>
  ELSE /\ job' = [job EXCEPT ![m].pc = "ended"]
       /\ registered' = NoMsg
       /\ proc' = FALSE
       /\ queue' = <<>> /\ holds' = {}

\* The chat's answer comes; with its job gone it is dropped.
JobHears(m) ==
  /\ Arrives(m)
  /\ job' = IF job[m].pc = "streaming" THEN [job EXCEPT ![m].pc = "answered"] ELSE job
  /\ UNCHANGED <<tab, proc, queue, holds, registered, chat, steering, emitter, asks, left, sent,
                 handled, stopped, odd>>

\* The answer is passed on, or the job was cancelled, or its stream broke off.
JobEnds(m) ==
  /\ \/ job[m].pc = "answered" /\ UNCHANGED left
     \/ job[m].pc = "streaming" /\ (chat[m] = "lost" \/ job[m].cancel) /\ UNCHANGED left
     \/ job[m].pc = "streaming" /\ Trouble
  /\ Finally(m)
  /\ odd' = IF chat[m] \in {"done", "lost"} THEN odd ELSE odd \cup {"abandoned"}
  /\ UNCHANGED <<tab, gateway, asks, sent, handled, stopped>>

\* _handle_stop, from any tab: the deque goes; the job is cancelled, or, when
\* there is none, the session processes no more.
Stop(t) ==
  /\ tab[t].pc = "idle" /\ left.stops > 0
  /\ left' = [left EXCEPT !.stops = @ - 1]
  /\ stopped' = (stopped \cup Range(queue) \cup {registered}) \ {NoMsg}
  /\ queue' = <<>> /\ holds' = {}
  /\ IF registered # NoMsg
     THEN /\ job' = [job EXCEPT ![registered].cancel = TRUE]
          /\ UNCHANGED <<proc, odd>>
     ELSE /\ proc' = FALSE
          /\ odd' = IF \E u \in Tabs : tab[u].pc = "acking" THEN odd \cup {"gap"} ELSE odd
          /\ UNCHANGED job
  /\ UNCHANGED <<tab, registered, gateway, asks, sent, handled>>

-----------------------------------------------------------------------------
(* A question to the user: InteractiveHub.request, resolve *)

Forgotten(m) == [hub EXCEPT !.pending = @ \ {m}]

\* A tool asks: in the table, and to be sent; with no emitter it is answered so
\* at once.
Asks(m) ==
  /\ Thinks(m) /\ ask[m].pc = "none" /\ left.asks > 0
  /\ left' = [left EXCEPT !.asks = @ - 1]
  /\ IF emitter = NoMsg
     THEN ask' = [ask EXCEPT ![m] = [@ EXCEPT !.pc = "noUI"]] /\ UNCHANGED hub
     ELSE /\ ask' = [ask EXCEPT ![m] = [@ EXCEPT !.pc = "emitting", !.via = emitter]]
          /\ hub' = [hub EXCEPT !.pending = @ \cup {m}]
  /\ UNCHANGED <<tab, webui, gateway, shown, told, sent, handled, stopped, odd>>

Emitted(m) ==
  /\ ask[m].pc = "emitting"
  /\ ask' = [ask EXCEPT ![m].pc = "waiting"]
  /\ wire' = Append(wire, <<m, ask[m].via>>)
  /\ UNCHANGED <<tab, webui, chat, steering, emitter, hub, shown, told, left, sent, handled,
                 stopped, odd>>

\* The job of the chat it came by passes the question on to the session's tabs.
QuestionHeard(m) ==
  /\ Arrives(<<m, ask[m].via>>)
  /\ shown' = IF job[ask[m].via].pc = "streaming" THEN shown \cup {m} ELSE shown
  /\ UNCHANGED <<tab, webui, chat, steering, emitter, ask, hub, told, left, sent, handled,
                 stopped, odd>>

\* A tab answers, and drops its card.
Replies(t, m) ==
  /\ tab[t].pc = "idle" /\ m \in shown
  /\ \A ok \in BOOLEAN : <<m, t, ok>> \notin told
  /\ tab' = [tab EXCEPT ![t] = [pc |-> "replying", msg |-> m]]
  /\ UNCHANGED <<webui, gateway, asks, left, sent, handled, stopped, odd>>

\* Mutant: an answer that is there already is not noticed.
ResolvesAgain(t) ==
  /\ tab[t].pc = "replying"
  /\ LET m == tab[t].msg IN
       IF m \in hub.pending
       THEN /\ hub' = [hub EXCEPT !.answer[m] = t]
            /\ tab' = [tab EXCEPT ![t].pc = "taken"]
       ELSE tab' = [tab EXCEPT ![t].pc = "denied"] /\ UNCHANGED hub
  /\ wire' = Append(wire, t)
  /\ UNCHANGED <<webui, chat, steering, emitter, ask, shown, told, left, sent, handled, stopped,
                 odd>>

\* resolve(): taken when the question is in the table and has no answer yet.
Resolves(t) ==
  /\ tab[t].pc = "replying"
  /\ LET m == tab[t].msg IN
       IF m \in hub.pending /\ hub.answer[m] = NoTab
       THEN /\ hub' = [hub EXCEPT !.answer[m] = t]
            /\ tab' = [tab EXCEPT ![t].pc = "taken"]
       ELSE tab' = [tab EXCEPT ![t].pc = "denied"] /\ UNCHANGED hub
  /\ wire' = Append(wire, t)
  /\ UNCHANGED <<webui, chat, steering, emitter, ask, shown, told, left, sent, handled, stopped,
                 odd>>

\* interactive_ack: the tab is told whether its answer was taken.
IsTold(t) ==
  /\ \/ tab[t].pc \in {"taken", "denied"} /\ Arrives(t)
     \/ tab[t].pc = "untold" /\ UNCHANGED wire
  /\ told' = told \cup {<<tab[t].msg, t, tab[t].pc = "taken">>}
  /\ tab' = [tab EXCEPT ![t] = Idle]
  /\ UNCHANGED <<webui, chat, steering, emitter, ask, hub, shown, left, sent, handled, stopped,
                 odd>>

\* The tool gets the answer.
AnswerHeard(m) ==
  /\ ask[m].pc = "waiting" /\ hub.answer[m] # NoTab
  /\ ask' = [ask EXCEPT ![m] = [@ EXCEPT !.pc = "answered", !.got = hub.answer[m]]]
  /\ hub' = Forgotten(m)
  /\ UNCHANGED <<tab, webui, gateway, shown, told, left, sent, handled, stopped, odd>>

\* The wait is over its time, an answer just given or not ...
Expires(m) ==
  /\ ask[m].pc = "waiting"
  /\ ask' = [ask EXCEPT ![m].pc = "expired"]
  /\ UNCHANGED <<tab, webui, gateway, hub, shown, told, left, sent, handled, stopped, odd>>

\* ... and then the tool is told so, and the question goes from the table.
TimedOut(m) ==
  /\ ask[m].pc = "expired"
  /\ ask' = [ask EXCEPT ![m].pc = "timeout"]
  /\ hub' = Forgotten(m)
  /\ odd' = IF hub.answer[m] # NoTab THEN odd \cup {"late"} ELSE odd
  /\ UNCHANGED <<tab, webui, gateway, shown, told, left, sent, handled, stopped>>

-----------------------------------------------------------------------------
(* The gateway's chats: _run_chat, with the turn of process_direct *)

\* The session's emitter is this chat's, before the turn has the lock.
ChatBegins(m) ==
  /\ chat[m] = "sent"
  /\ chat' = [chat EXCEPT ![m] = "waiting"]
  /\ emitter' = m
  /\ UNCHANGED <<tab, webui, steering, wire, asks, left, sent, handled, stopped, odd>>

TurnBegins(m) ==
  /\ chat[m] = "waiting" /\ InTurn = {}
  /\ chat' = [chat EXCEPT ![m] = "running"]
  /\ handled' = [handled EXCEPT ![m] = @ + 1]
  /\ UNCHANGED <<tab, webui, steering, wire, emitter, asks, left, sent, stopped, odd>>

\* _run_agent_loop: from here on the turn can be steered.
LoopBegins(m) ==
  /\ chat[m] = "running"
  /\ chat' = [chat EXCEPT ![m] = "looping"]
  /\ steering' = [steering EXCEPT !.open = TRUE]
  /\ UNCHANGED <<tab, webui, wire, emitter, asks, left, sent, handled, stopped, odd>>

\* Mutant: the steering queue is not emptied.
TakesSteeringKeeps(m) ==
  /\ Thinks(m) /\ steering.msgs # <<>>
  /\ handled' = [n \in Msgs |-> IF Contains(steering.msgs, n) THEN handled[n] + 1 ELSE handled[n]]
  /\ UNCHANGED <<tab, webui, gateway, asks, left, sent, stopped, odd>>

\* An iteration takes what was injected.
TakesSteering(m) ==
  /\ Thinks(m) /\ steering.msgs # <<>>
  /\ handled' = [n \in Msgs |-> IF Contains(steering.msgs, n) THEN handled[n] + 1 ELSE handled[n]]
  /\ steering' = [steering EXCEPT !.msgs = <<>>]
  /\ UNCHANGED <<tab, webui, chat, wire, emitter, asks, left, sent, stopped, odd>>

Closed == [open |-> FALSE, msgs |-> <<>>]

\* The model's last word, with nothing injected meanwhile ...
LoopEnds(m) ==
  /\ Thinks(m) /\ steering.msgs = <<>>
  /\ chat' = [chat EXCEPT ![m] = "closing"]
  /\ steering' = Closed
  /\ UNCHANGED <<tab, webui, wire, emitter, asks, left, sent, handled, stopped, odd>>

\* ... or a limit or a halted call ends the loop, whatever was injected.
LoopBreaks(m) ==
  /\ Thinks(m) /\ steering.msgs # <<>>
  /\ Trouble
  /\ chat' = [chat EXCEPT ![m] = "closing"]
  /\ steering' = Closed
  /\ odd' = odd \cup {"dropped"}
  /\ UNCHANGED <<tab, webui, wire, emitter, asks, sent, handled, stopped>>

\* The turn raises: the steering queue stays.
TurnFails(m) ==
  /\ chat[m] = "running" \/ Thinks(m)
  /\ Trouble
  /\ chat' = [chat EXCEPT ![m] = "leaving"]
  /\ odd' = IF steering.msgs # <<>> THEN odd \cup {"leftOver"} ELSE odd
  /\ UNCHANGED <<tab, webui, steering, wire, emitter, asks, sent, handled, stopped>>

\* The user cancels the request (_handle_cancel): the chat's task is cancelled
\* where it is, and answers so.  A question goes from the table, but for one
\* whose event is being sent.
ChatCancelled(m) ==
  /\ chat[m] \in {"waiting", "running", "looping", "closing"} /\ left.stops > 0
  /\ left' = [left EXCEPT !.stops = @ - 1]
  /\ stopped' = stopped \cup {m}
  /\ chat' = [chat EXCEPT ![m] = "leaving"]
  /\ odd' = IF m \in InLoop /\ steering.msgs # <<>> THEN odd \cup {"leftOver"} ELSE odd
  /\ ask' = IF Asking(m) THEN [ask EXCEPT ![m].pc = "cancelled"] ELSE ask
  /\ hub' = IF Asking(m) /\ ask[m].pc # "emitting" THEN Forgotten(m) ELSE hub
  /\ UNCHANGED <<tab, webui, steering, wire, emitter, shown, told, sent, handled>>

\* The turn is saved, the session's lock given back.
TurnEnds(m) ==
  /\ chat[m] = "closing"
  /\ chat' = [chat EXCEPT ![m] = "leaving"]
  /\ UNCHANGED <<tab, webui, steering, wire, emitter, asks, left, sent, handled, stopped, odd>>

\* The session's emitter, whosever it is, is taken down; the answer is sent.
ChatEnds(m) ==
  /\ chat[m] = "leaving"
  /\ chat' = [chat EXCEPT ![m] = "done"]
  /\ emitter' = NoMsg
  /\ wire' = Append(wire, m)
  /\ UNCHANGED <<tab, webui, steering, asks, left, sent, handled, stopped, odd>>

\* The gateway is killed: its chats, what they were to take and what it has
\* answered are lost; the WebUI's connection ends every request.
GatewayRestarts ==
  /\ Trouble
  /\ chat' = [m \in Msgs |-> IF chat[m] = "none" \/ (chat[m] = "done" /\ ~Contains(wire, m))
                             THEN chat[m] ELSE "lost"]
  /\ steering' = Closed
  /\ wire' = <<>> /\ emitter' = NoMsg
  /\ tab' = [t \in Tabs |-> IF tab[t].pc \in {"steering", "injected", "refused", "replying",
                                               "taken", "denied"}
                            THEN [tab[t] EXCEPT !.pc = Unanswered(@)] ELSE tab[t]]
  /\ ask' = [m \in Msgs |-> IF Asking(m) THEN [ask[m] EXCEPT !.pc = "cancelled"] ELSE ask[m]]
  /\ hub' = [pending |-> {}, answer |-> [m \in Msgs |-> NoTab]]
  /\ odd' = odd \cup {"restart"}
                \cup {o \in {"answerLost"} : \E t \in Tabs : tab[t].pc \in {"injected", "taken"}}
  /\ UNCHANGED <<webui, shown, told, sent, handled, stopped>>

Next ==
  \/ \E t \in Tabs :
       \/ \E m \in Msgs : Sends(t, m)
       \/ \E m \in Msgs : Replies(t, m)
       \/ MakesJob(t) \/ Injects(t) \/ AnswerLost(t) \/ Acknowledges(t) \/ Queues(t) \/ Stop(t)
       \/ Resolves(t) \/ IsTold(t)
  \/ \E m \in Msgs :
       \/ JobStarts(m) \/ JobNeverStarts(m) \/ JobHears(m) \/ JobEnds(m)
       \/ ChatBegins(m) \/ TurnBegins(m) \/ LoopBegins(m) \/ TakesSteering(m)
       \/ LoopEnds(m) \/ LoopBreaks(m)
       \/ TurnFails(m) \/ ChatCancelled(m) \/ TurnEnds(m) \/ ChatEnds(m)
       \/ Asks(m) \/ Emitted(m) \/ QuestionHeard(m) \/ AnswerHeard(m) \/ Expires(m) \/ TimedOut(m)
  \/ GatewayRestarts

\* Handlers, jobs and chats go on; a turn comes to its end; a question, answered
\* or not, has its timeout.
Fairness ==
  /\ \A t \in Tabs : WF_vars(MakesJob(t)) /\ WF_vars(Injects(t)) /\ WF_vars(Acknowledges(t))
                     /\ WF_vars(Queues(t)) /\ WF_vars(Resolves(t)) /\ WF_vars(IsTold(t))
  /\ \A m \in Msgs :
       /\ WF_vars(JobStarts(m)) /\ WF_vars(JobNeverStarts(m)) /\ WF_vars(JobHears(m))
       /\ WF_vars(JobEnds(m))
       /\ WF_vars(ChatBegins(m)) /\ WF_vars(TurnBegins(m)) /\ WF_vars(LoopBegins(m))
       /\ WF_vars(TakesSteering(m)) /\ WF_vars(LoopEnds(m)) /\ WF_vars(TurnEnds(m))
       /\ WF_vars(ChatEnds(m))
       /\ WF_vars(Emitted(m)) /\ WF_vars(QuestionHeard(m)) /\ WF_vars(AnswerHeard(m))
       /\ WF_vars(Expires(m)) /\ WF_vars(TimedOut(m))

Spec == Init /\ [][Next]_vars /\ Fairness

-----------------------------------------------------------------------------
\* Nothing is going on.
Rest ==
  /\ \A t \in Tabs : tab[t].pc = "idle"
  /\ \A m \in Msgs : ~Active(m) /\ chat[m] \in {"none", "done", "lost"}

\* No message reaches the model twice, by its own turn and by steering, unless
\* the gateway's answer to the steering was lost; and when all is quiet each has,
\* but for those stopped, and those that one of the steps named in "odd" lost:
\* an abandoned chat and a stop between two steps of a handler lose none.
HandledOnce ==
  /\ "answerLost" \notin odd => \A m \in Msgs : handled[m] <= 1
  /\ Rest /\ odd \subseteq {"abandoned", "gap"} =>
       \A m \in sent \ stopped : handled[m] = 1

\* One message of the session at a time has a job in the WebUI, however many tabs
\* show it; and while no chat was abandoned, a turn's questions go to its own
\* chat (interactive.py: an emitter per session).  A stop between the step that
\* marks the session and the one that makes the job lets a second job in.
OneChat ==
  "gap" \notin odd =>
    /\ Cardinality({m \in Msgs : Active(m)}) <= 1
    /\ "abandoned" \notin odd => \A m \in InTurn : emitter = m

\* A question that is waited for is on its way to the tabs or there: it has the
\* emitter of its own chat, unless a chat was abandoned by its job, or a stop came
\* between two steps of a handler.
QuestionSeen ==
  odd \cap {"abandoned", "gap", "restart"} = {} =>
    \A m \in Msgs : /\ ask[m].pc # "noUI"
                    /\ ask[m].pc = "waiting" => m \in shown \/ Contains(wire, <<m, ask[m].via>>)

\* One answer to a question is taken, and whoever is told so gave the one the tool
\* gets; whoever is told it was not taken did not.  What breaks this is an answer
\* in the moment the wait is over (taken, and a credential stored, though the tool
\* is told "timeout"), an acknowledgement that is lost, and a turn cancelled or
\* killed.
AnswerTaken ==
  /\ \A m \in Msgs, t, u \in Tabs : <<m, t, TRUE>> \in told /\ <<m, u, TRUE>> \in told => t = u
  /\ \A m \in Msgs, t \in Tabs :
       /\ <<m, t, TRUE>> \in told /\ ask[m].pc \in {"answered", "timeout"} /\ "late" \notin odd =>
            ask[m].got = t
       /\ <<m, t, FALSE>> \in told /\ "answerLost" \notin odd => ask[m].got # t

\* A question reaches the tabs, and its answer the tool: what the user is told of
\* it is true.
AnswerCounts == QuestionSeen /\ AnswerTaken

\* A session that is processing comes to rest: the tabs' spinner ends, whatever
\* fails on the way.  The exception is a job cancelled before its first step,
\* whose finally never runs.
ProcessingEnds == proc ~> ~proc \/ "stuck" \in odd
=============================================================================
