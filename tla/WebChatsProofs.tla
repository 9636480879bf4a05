--------------------------- MODULE WebChatsProofs ---------------------------
(***************************************************************************)
(* One chat at a time, each message once, and answers that count, for any  *)
(* messages, tabs and bounds.                                              *)
(*                                                                         *)
(* Which message has a job is decided by the handlers, the jobs and the    *)
(* stops (OneJob); that a chat of the gateway is its job's chat, and the   *)
(* emitter the chat's, follows from it (OwnChat).                          *)
(*                                                                         *)
(* A message is in one handler's hands, or once in the deque, or has a job *)
(* (OnePlace), so it comes before the model once (Once); it waits, or is   *)
(* with the turn, or has been there (NoneLost); and while something waits  *)
(* there is a turn to take it and a job to go on (Steered, Busy).          *)
(*                                                                         *)
(* A chat that has answered is over (Answered) and a question is a looping *)
(* turn's, by its own chat (AskLoop, ViaOwn), so a job is there to pass it *)
(* on.  The hub takes one answer to it (TakenIsAnswer), the one in the     *)
(* table and the tool's (AnswerIsTaken), and each tab is told once.        *)
(***************************************************************************)
EXTENDS WebChats, FiniteSetTheorems, TLAPS

TabPcs == {"idle", "acking", "steering", "injected", "refused", "unanswered", "replying", "taken",
           "denied", "untold"}
JobPcs == {"none", "created", "streaming", "answered", "ended"}
ChatPcs == {"none", "sent", "waiting", "running", "looping", "closing", "leaving", "done", "lost"}

\* Types of the variables the argument is about; a handler at work has a message.
TabType ==
  /\ tab \in [Tabs -> [pc : TabPcs, msg : Msgs \cup {NoMsg}]]
  /\ \A t \in Tabs : tab[t].pc # "idle" => tab[t].msg \in Msgs
JobType ==
  /\ queue \in Seq(Msgs)
  /\ job \in [Msgs -> [pc : JobPcs, cancel : BOOLEAN]]
  /\ registered \in Msgs \cup {NoMsg}
ChatType ==
  chat \in [Msgs -> ChatPcs]
ChatsType == TabType /\ JobType /\ ChatType

Live(m) == chat[m] \in {"sent", "waiting", "running", "looping", "closing", "leaving"}

\* One message has a job, the registered one, or one handler is about to make
\* it; the session is marked for as long.
OneJob ==
  /\ \A m, n \in Msgs : Active(m) /\ Active(n) => m = n
  /\ \A m \in Msgs : Active(m) => proc /\ registered = m
  /\ \A t \in Tabs : tab[t].pc = "acking" =>
       /\ proc
       /\ \A m \in Msgs : ~Active(m)
       /\ \A u \in Tabs : tab[u].pc = "acking" => u = t

\* A chat is under way for a job that waits for it, and has the emitter.
OwnChat ==
  \A m \in Msgs : Live(m) => /\ job[m].pc \in {"streaming", "answered"}
                             /\ chat[m] # "sent" => emitter = m

OneChatInv ==
  /\ ChatsType
  /\ "gap" \notin odd => OneJob
  /\ "gap" \notin odd /\ "abandoned" \notin odd => OwnChat

-----------------------------------------------------------------------------
(* Types.                                                                  *)

\* At the start.
LEMMA TypeInit == Init => ChatsType
BY NothingAssumption DEF Init, ChatsType, TabType, JobType, ChatType, TabPcs, JobPcs, ChatPcs

\* A handler goes on with its message.
LEMMA HandlerGoesOn ==
  ASSUME TabType, NEW t \in Tabs, tab[t].pc # "idle", NEW p \in TabPcs,
         tab' = [tab EXCEPT ![t].pc = p]
  PROVE  TabType'
BY DEF TabType

\* Every step.
LEMMA TabTypeStep ==
  ASSUME TabType, [Next]_vars
  PROVE  TabType'
<1>1. ASSUME NEW t \in Tabs, NEW m \in Msgs, Sends(t, m) \/ Replies(t, m)
      PROVE  TabType'
  BY <1>1 DEF Sends, Replies, TabType, TabPcs
<1>2. ASSUME NEW t \in Tabs, MakesJob(t) \/ Acknowledges(t) \/ Queues(t) \/ IsTold(t)
      PROVE  TabType'
  <2>1. tab' = [tab EXCEPT ![t] = Idle]
    BY <1>2 DEF MakesJob, Acknowledges, Queues, IsTold
  <2> QED BY <2>1 DEF Idle, TabType, TabPcs
<1>3. ASSUME NEW t \in Tabs, Injects(t)
      PROVE  TabType'
  <2>1. tab[t].pc # "idle" /\ \E p \in {"injected", "refused"} : tab' = [tab EXCEPT ![t].pc = p]
    BY <1>3 DEF Injects
  <2> QED BY <2>1, HandlerGoesOn DEF TabPcs
<1>4. ASSUME NEW t \in Tabs, AnswerLost(t)
      PROVE  TabType'
  <2>1. tab[t].pc # "idle"
    BY <1>4 DEF AnswerLost
  <2>2. tab' = [tab EXCEPT ![t].pc = Unanswered(tab[t].pc)]
    BY <1>4 DEF AnswerLost
  <2>3. Unanswered(tab[t].pc) \in TabPcs
    BY DEF Unanswered, TabPcs
  <2> QED BY <2>1, <2>2, <2>3, HandlerGoesOn
<1>5. ASSUME NEW t \in Tabs, Resolves(t)
      PROVE  TabType'
  <2>1. tab[t].pc # "idle" /\ \E p \in {"taken", "denied"} : tab' = [tab EXCEPT ![t].pc = p]
    BY <1>5 DEF Resolves
  <2> QED BY <2>1, HandlerGoesOn DEF TabPcs
<1>6. CASE GatewayRestarts
  BY <1>6 DEF GatewayRestarts, Unanswered, TabType, TabPcs
<1>7. ASSUME NEW t \in Tabs, Stop(t)
      PROVE  TabType'
  BY <1>7 DEF Stop, TabType
<1>8. ASSUME NEW m \in Msgs, JobStarts(m) \/ JobNeverStarts(m) \/ JobHears(m) \/ JobEnds(m)
      PROVE  TabType'
  BY <1>8 DEF JobStarts, JobNeverStarts, JobHears, JobEnds, TabType
<1>9. ASSUME NEW m \in Msgs,
              \/ ChatBegins(m) \/ TurnBegins(m) \/ LoopBegins(m) \/ TakesSteering(m) \/ LoopEnds(m)
              \/ LoopBreaks(m) \/ TurnFails(m) \/ ChatCancelled(m) \/ TurnEnds(m) \/ ChatEnds(m)
       PROVE  TabType'
  BY <1>9 DEF ChatBegins, TurnBegins, LoopBegins, TakesSteering, LoopEnds, LoopBreaks, TurnFails,
               ChatCancelled, TurnEnds, ChatEnds, TabType
<1>10. ASSUME NEW m \in Msgs,
              Asks(m) \/ Emitted(m) \/ QuestionHeard(m) \/ AnswerHeard(m) \/ Expires(m) \/ TimedOut(m)
       PROVE  TabType'
  BY <1>10 DEF Asks, Emitted, QuestionHeard, AnswerHeard, Expires, TimedOut, TabType
<1>11. CASE UNCHANGED vars
  BY <1>11 DEF vars, TabType
<1> QED BY <1>1, <1>2, <1>3, <1>4, <1>5, <1>6, <1>7, <1>8, <1>9, <1>10, <1>11 DEF Next

\* Every step: jobs, the queue, the registered one.
LEMMA JobTypeStep ==
  ASSUME ChatsType, [Next]_vars
  PROVE  JobType'
<1>0. TabType /\ JobType
  BY DEF ChatsType
<1>1. ASSUME NEW t \in Tabs, NEW m \in Msgs, Sends(t, m) \/ Replies(t, m)
      PROVE  JobType'
  BY <1>0, <1>1 DEF Sends, Replies, JobType, webui
<1>2. ASSUME NEW t \in Tabs, Injects(t) \/ AnswerLost(t) \/ Acknowledges(t) \/ Resolves(t) \/ IsTold(t)
      PROVE  JobType'
  BY <1>0, <1>2 DEF Injects, AnswerLost, Acknowledges, Resolves, IsTold, JobType, webui
<1>3. ASSUME NEW t \in Tabs, MakesJob(t)
      PROVE  JobType'
  <2>1. tab[t].msg \in Msgs
    BY <1>0, <1>3 DEF MakesJob, TabType
  <2> QED BY <1>0, <1>3, <2>1 DEF MakesJob, JobType, JobPcs
<1>4. ASSUME NEW t \in Tabs, Queues(t)
      PROVE  JobType'
  <2>1. tab[t].msg \in Msgs
    BY <1>0, <1>4 DEF Queues, TabType
  <2>2. queue' \in {queue, Append(queue, tab[t].msg)} /\ UNCHANGED <<job, registered>>
    BY <1>4 DEF Queues
  <2> QED BY <1>0, <2>1, <2>2 DEF JobType
<1>5. ASSUME NEW t \in Tabs, Stop(t)
      PROVE  JobType'
  <2>1. queue' = <<>> /\ UNCHANGED registered
    BY <1>5 DEF Stop
  <2>2. CASE registered # NoMsg
    <3>1. job' = [job EXCEPT ![registered].cancel = TRUE]
      BY <1>5, <2>2 DEF Stop
    <3>2. registered \in Msgs
      BY <1>0, <2>2 DEF JobType
    <3>3. job' \in [Msgs -> [pc : JobPcs, cancel : BOOLEAN]]
      BY <1>0, <3>1, <3>2 DEF JobType
    <3>4. queue' \in Seq(Msgs)
      BY <2>1
    <3> QED BY <2>1, <3>2, <3>3, <3>4 DEF JobType
  <2>3. CASE registered = NoMsg
    BY <1>0, <1>5, <2>1, <2>3 DEF Stop, JobType
  <2> QED BY <2>2, <2>3
<1>6. ASSUME NEW m \in Msgs, JobStarts(m) \/ JobNeverStarts(m) \/ JobHears(m)
      PROVE  JobType'
  <2>1. UNCHANGED <<queue, registered>> /\ \E p \in JobPcs : job' \in {job, [job EXCEPT ![m].pc = p]}
    BY <1>6 DEF JobStarts, JobNeverStarts, JobHears, JobPcs
  <2> QED BY <1>0, <2>1 DEF JobType
<1>7. ASSUME NEW m \in Msgs, Finally(m)
      PROVE  JobType'
  <2>1. CASE queue # <<>>
    <3>1. Head(queue) \in Msgs /\ Tail(queue) \in Seq(Msgs)
      BY <1>0, <2>1 DEF JobType
    <3>2. job' = [job EXCEPT ![m].pc = "ended", ![Head(queue)].pc = "created"]
      BY <1>7, <2>1 DEF Finally
    <3>3. [job EXCEPT ![m].pc = "ended"] \in [Msgs -> [pc : JobPcs, cancel : BOOLEAN]]
      BY <1>0 DEF JobType, JobPcs
    <3>4. job' \in [Msgs -> [pc : JobPcs, cancel : BOOLEAN]]
      BY <3>1, <3>2, <3>3 DEF JobPcs
    <3> QED BY <1>7, <2>1, <3>1, <3>4 DEF Finally, JobType
  <2>2. CASE queue = <<>>
    <3>1. job' = [job EXCEPT ![m].pc = "ended"] /\ registered' = NoMsg /\ queue' = <<>>
      BY <1>7, <2>2 DEF Finally
    <3> QED BY <1>0, <3>1 DEF JobType, JobPcs
  <2> QED BY <2>1, <2>2
<1>8. ASSUME NEW m \in Msgs, JobEnds(m)
      PROVE  Finally(m)
  BY <1>8 DEF JobEnds
<1>9. ASSUME NEW m \in Msgs,
              \/ ChatBegins(m) \/ TurnBegins(m) \/ LoopBegins(m) \/ TakesSteering(m) \/ LoopEnds(m)
              \/ LoopBreaks(m) \/ TurnFails(m) \/ ChatCancelled(m) \/ TurnEnds(m) \/ ChatEnds(m)
      PROVE  JobType'
  BY <1>0, <1>9 DEF ChatBegins, TurnBegins, LoopBegins, TakesSteering, LoopEnds, LoopBreaks,
                    TurnFails, ChatCancelled, TurnEnds, ChatEnds, JobType, webui
<1>10. ASSUME NEW m \in Msgs,
              Asks(m) \/ Emitted(m) \/ QuestionHeard(m) \/ AnswerHeard(m) \/ Expires(m) \/ TimedOut(m)
       PROVE  JobType'
  BY <1>0, <1>10 DEF Asks, Emitted, QuestionHeard, AnswerHeard, Expires, TimedOut, JobType, webui
<1>11. CASE GatewayRestarts
  BY <1>0, <1>11 DEF GatewayRestarts, JobType, webui
<1>12. CASE UNCHANGED vars
  BY <1>0, <1>12 DEF vars, JobType, webui
<1> QED BY <1>1, <1>2, <1>3, <1>4, <1>5, <1>6, <1>7, <1>8, <1>9, <1>10, <1>11, <1>12 DEF Next

\* Every step: the chats.
LEMMA ChatTypeStep ==
  ASSUME ChatType, [Next]_vars
  PROVE  ChatType'
<1>1. ASSUME NEW t \in Tabs, NEW m \in Msgs, Sends(t, m) \/ Replies(t, m)
      PROVE  ChatType'
  BY <1>1 DEF Sends, Replies, ChatType, gateway
<1>2. ASSUME NEW t \in Tabs,
             \/ MakesJob(t) \/ Injects(t) \/ AnswerLost(t) \/ Acknowledges(t) \/ Queues(t) \/ Stop(t)
             \/ Resolves(t) \/ IsTold(t)
      PROVE  ChatType'
  BY <1>2 DEF MakesJob, Injects, AnswerLost, Acknowledges, Queues, Stop, Resolves, IsTold,
              ChatType, gateway
<1>3. ASSUME NEW m \in Msgs, JobNeverStarts(m) \/ JobHears(m) \/ JobEnds(m)
      PROVE  ChatType'
  BY <1>3 DEF JobNeverStarts, JobHears, JobEnds, ChatType, gateway
<1>4. ASSUME NEW m \in Msgs,
              \/ JobStarts(m)
              \/ ChatBegins(m) \/ TurnBegins(m) \/ LoopBegins(m) \/ TakesSteering(m) \/ LoopEnds(m)
              \/ LoopBreaks(m) \/ TurnFails(m) \/ ChatCancelled(m) \/ TurnEnds(m) \/ ChatEnds(m)
      PROVE  ChatType'
  BY <1>4 DEF JobStarts, ChatBegins, TurnBegins, LoopBegins, TakesSteering, LoopEnds, LoopBreaks,
              TurnFails, ChatCancelled, TurnEnds, ChatEnds, ChatType, ChatPcs
<1>5. ASSUME NEW m \in Msgs,
              Asks(m) \/ Emitted(m) \/ QuestionHeard(m) \/ AnswerHeard(m) \/ Expires(m) \/ TimedOut(m)
      PROVE  ChatType'
  BY <1>5 DEF Asks, Emitted, QuestionHeard, AnswerHeard, Expires, TimedOut, ChatType, gateway
<1>6. CASE GatewayRestarts
  BY <1>6 DEF GatewayRestarts, ChatType, ChatPcs
<1>7. CASE UNCHANGED vars
  BY <1>7 DEF vars, ChatType, gateway
<1> QED BY <1>1, <1>2, <1>3, <1>4, <1>5, <1>6, <1>7 DEF Next

\* Every step: types.
LEMMA TypeStep ==
  ASSUME ChatsType, [Next]_vars
  PROVE  ChatsType'
BY TabTypeStep, JobTypeStep, ChatTypeStep DEF ChatsType

-----------------------------------------------------------------------------
(* One job.                                                                *)

\* What went wrong is not forgotten.
LEMMA OddStays ==
  ASSUME [Next]_vars
  PROVE  odd \subseteq odd'
<1>1. ASSUME NEW t \in Tabs, NEW m \in Msgs, Sends(t, m) \/ Replies(t, m)
      PROVE  odd \subseteq odd'
  BY <1>1 DEF Sends, Replies
<1>2. ASSUME NEW t \in Tabs, MakesJob(t) \/ Acknowledges(t) \/ Resolves(t) \/ IsTold(t)
      PROVE  odd \subseteq odd'
  BY <1>2 DEF MakesJob, Acknowledges, Resolves, IsTold
<1>3. ASSUME NEW t \in Tabs, Injects(t)
      PROVE  odd \subseteq odd'
  BY <1>3 DEF Injects
<1>4. ASSUME NEW t \in Tabs, AnswerLost(t)
      PROVE  odd \subseteq odd'
  BY <1>4 DEF AnswerLost
<1>5. ASSUME NEW t \in Tabs, Queues(t)
      PROVE  odd \subseteq odd'
  BY <1>5 DEF Queues
<1>6. ASSUME NEW t \in Tabs, Stop(t)
      PROVE  odd \subseteq odd'
  BY <1>6 DEF Stop
<1>7. ASSUME NEW m \in Msgs, JobStarts(m) \/ JobNeverStarts(m) \/ JobHears(m) \/ JobEnds(m)
      PROVE  odd \subseteq odd'
  BY <1>7 DEF JobStarts, JobNeverStarts, JobHears, JobEnds
<1>8. ASSUME NEW m \in Msgs,
              \/ ChatBegins(m) \/ TurnBegins(m) \/ LoopBegins(m) \/ TakesSteering(m) \/ LoopEnds(m)
              \/ LoopBreaks(m) \/ TurnEnds(m) \/ ChatEnds(m)
      PROVE  odd \subseteq odd'
  BY <1>8 DEF ChatBegins, TurnBegins, LoopBegins, TakesSteering, LoopEnds, LoopBreaks, TurnEnds, ChatEnds
<1>9. ASSUME NEW m \in Msgs, TurnFails(m) \/ ChatCancelled(m) \/ TimedOut(m)
      PROVE  odd \subseteq odd'
  BY <1>9 DEF TurnFails, ChatCancelled, TimedOut
<1>10. ASSUME NEW m \in Msgs,
              Asks(m) \/ Emitted(m) \/ QuestionHeard(m) \/ AnswerHeard(m) \/ Expires(m)
       PROVE  odd \subseteq odd'
  BY <1>10 DEF Asks, Emitted, QuestionHeard, AnswerHeard, Expires
<1>11. CASE GatewayRestarts
  BY <1>11 DEF GatewayRestarts
<1>12. CASE UNCHANGED vars
  BY <1>12 DEF vars
<1> QED BY <1>1, <1>2, <1>3, <1>4, <1>5, <1>6, <1>7, <1>8, <1>9, <1>10, <1>11, <1>12 DEF Next

\* A step that leaves the jobs alone and makes no handler acknowledge.
LEMMA SameJobs ==
  ASSUME OneJob, UNCHANGED <<proc, job, registered>>,
         \A t \in Tabs : tab'[t].pc = "acking" => tab[t].pc = "acking"
  PROVE  OneJob'
BY DEF OneJob, Active

\* The handlers' steps.
LEMMA OneJobTabs ==
  ASSUME ChatsType, OneJob, "gap" \notin odd', NEW t \in Tabs,
         \/ \E m \in Msgs : Sends(t, m) \/ Replies(t, m)
         \/ MakesJob(t) \/ Injects(t) \/ AnswerLost(t) \/ Acknowledges(t) \/ Queues(t) \/ Stop(t)
         \/ Resolves(t) \/ IsTold(t)
  PROVE  OneJob'
<1>0. TabType /\ JobType
  BY DEF ChatsType
<1>1. ASSUME NEW m \in Msgs, Sends(t, m)
      PROVE  OneJob'
  <2>1. proc' = TRUE /\ UNCHANGED <<job, registered>>
    BY <1>1 DEF Sends
  <2>2. tab' = [tab EXCEPT ![t] = [pc |-> IF proc THEN "steering" ELSE "acking", msg |-> m]]
    BY <1>1 DEF Sends
  <2>3. CASE proc
    BY <1>0, <2>1, <2>2, <2>3 DEF OneJob, Active, TabType
  <2>4. CASE ~proc
    BY <1>0, <2>1, <2>2, <2>4 DEF OneJob, Active, TabType
  <2> QED BY <2>3, <2>4
<1>2. CASE MakesJob(t)
  <2>1. tab[t].pc = "acking" /\ tab[t].msg \in Msgs
    BY <1>0, <1>2 DEF MakesJob, TabType
  <2>2. job' = [job EXCEPT ![tab[t].msg].pc = "created"] /\ registered' = tab[t].msg /\ UNCHANGED proc
    BY <1>2 DEF MakesJob
  <2>3. proc /\ \A m \in Msgs : ~Active(m)
    BY <2>1 DEF OneJob
  <2>4. \A m \in Msgs : Active(m)' => m = tab[t].msg
    BY <1>0, <2>2, <2>3 DEF Active, JobType
  <2>5. \A u \in Tabs : tab'[u].pc # "acking"
    BY <1>0, <1>2, <2>1 DEF MakesJob, OneJob, TabType, Idle
  <2> QED BY <2>2, <2>3, <2>4, <2>5 DEF OneJob
<1>3. CASE Injects(t)
  <2>1. \E p \in {"injected", "refused"} : tab' = [tab EXCEPT ![t].pc = p]
    BY <1>3 DEF Injects
  <2> QED BY <1>0, <1>3, <2>1, SameJobs DEF Injects, webui, TabType
<1>4. CASE AnswerLost(t)
  <2>1. tab' = [tab EXCEPT ![t].pc = Unanswered(tab[t].pc)]
    BY <1>4 DEF AnswerLost
  <2> QED BY <1>0, <1>4, <2>1, SameJobs DEF AnswerLost, Unanswered, webui, TabType
<1>5. CASE Acknowledges(t) \/ Queues(t) \/ IsTold(t)
  <2>1. tab' = [tab EXCEPT ![t] = Idle] /\ UNCHANGED <<proc, job, registered>>
    BY <1>5 DEF Acknowledges, Queues, IsTold, webui
  <2> QED BY <1>0, <2>1, SameJobs DEF Idle, TabType
<1>6. CASE Resolves(t)
  <2>1. \E p \in {"taken", "denied"} : tab' = [tab EXCEPT ![t].pc = p]
    BY <1>6 DEF Resolves
  <2> QED BY <1>0, <1>6, <2>1, SameJobs DEF Resolves, webui, TabType
<1>7. ASSUME NEW m \in Msgs, Replies(t, m)
      PROVE  OneJob'
  <2>1. tab' = [tab EXCEPT ![t] = [pc |-> "replying", msg |-> m]] /\ UNCHANGED <<proc, job, registered>>
    BY <1>7 DEF Replies, webui
  <2> QED BY <1>0, <2>1, SameJobs DEF TabType
<1>8. CASE Stop(t)
  <2>1. UNCHANGED <<tab, registered>>
    BY <1>8 DEF Stop
  <2>2. CASE registered # NoMsg
    <3>1. job' = [job EXCEPT ![registered].cancel = TRUE] /\ UNCHANGED proc
      BY <1>8, <2>2 DEF Stop
    <3>2. \A m \in Msgs : job'[m].pc = job[m].pc
      BY <1>0, <3>1 DEF JobType
    <3> QED BY <2>1, <3>1, <3>2 DEF OneJob, Active
  <2>3. CASE registered = NoMsg
    <3>1. UNCHANGED job
      BY <1>8, <2>3 DEF Stop
    <3>2. \A u \in Tabs : tab[u].pc # "acking"
      BY <1>8, <2>3 DEF Stop
    <3>3. \A m \in Msgs : ~Active(m)
      BY <2>3, NothingAssumption DEF OneJob
    <3> QED BY <2>1, <3>1, <3>2, <3>3 DEF OneJob, Active
  <2> QED BY <2>2, <2>3
<1> QED BY <1>1, <1>2, <1>3, <1>4, <1>5, <1>6, <1>7, <1>8

\* A job's end: the next message of the deque, or none, has the job now.
LEMMA FinallyJobs ==
  ASSUME JobType, OneJob, NEW m \in Msgs, Active(m), Finally(m), UNCHANGED tab
  PROVE  /\ OneJob'
         /\ \A n \in Msgs : Active(n)' => job'[n].pc = "created"
<1>1. \A n \in Msgs : n # m => ~Active(n)
  BY DEF OneJob
<1>2. \A t \in Tabs : tab'[t].pc # "acking"
  BY DEF OneJob
<1>3. CASE queue # <<>>
  <2>1. Head(queue) \in Msgs
    BY <1>3 DEF JobType
  <2>2. /\ job' = [job EXCEPT ![m].pc = "ended", ![Head(queue)].pc = "created"]
        /\ registered' = Head(queue) /\ UNCHANGED proc
    BY <1>3 DEF Finally
  <2>3. \A n \in Msgs : job'[n].pc = IF n = Head(queue) THEN "created"
                                     ELSE IF n = m THEN "ended" ELSE job[n].pc
    BY <2>1, <2>2 DEF JobType
  <2>4. \A n \in Msgs : Active(n)' => n = Head(queue)
    BY <1>1, <2>3 DEF Active
  <2>5. proc
    BY DEF OneJob
  <2> QED BY <1>2, <2>2, <2>3, <2>4, <2>5 DEF OneJob
<1>4. CASE queue = <<>>
  <2>1. job' = [job EXCEPT ![m].pc = "ended"]
    BY <1>4 DEF Finally
  <2>2. \A n \in Msgs : ~Active(n)'
    BY <1>1, <2>1 DEF Active, JobType
  <2> QED BY <1>2, <2>2 DEF OneJob
<1> QED BY <1>3, <1>4

\* The jobs' steps.
LEMMA OneJobJobs ==
  ASSUME ChatsType, OneJob, NEW m \in Msgs,
         JobStarts(m) \/ JobNeverStarts(m) \/ JobHears(m) \/ JobEnds(m)
  PROVE  OneJob'
<1>0. TabType /\ JobType
  BY DEF ChatsType
<1>1. CASE JobStarts(m)
  <2>1. Active(m) /\ job' = [job EXCEPT ![m].pc = "streaming"] /\ proc' = TRUE /\ UNCHANGED <<tab, registered>>
    BY <1>1 DEF JobStarts, Active
  <2>2. \A n \in Msgs : Active(n)' => Active(n)
    BY <1>0, <2>1 DEF Active, JobType
  <2> QED BY <2>1, <2>2 DEF OneJob
<1>2. CASE JobNeverStarts(m)
  <2>1. job' = [job EXCEPT ![m].pc = "ended"] /\ UNCHANGED <<tab, proc, registered>>
    BY <1>2 DEF JobNeverStarts
  <2>2. \A n \in Msgs : Active(n)' => Active(n)
    BY <1>0, <2>1 DEF Active, JobType
  <2> QED BY <2>1, <2>2 DEF OneJob
<1>3. CASE JobHears(m)
  <2>1. UNCHANGED <<tab, proc, registered>>
    BY <1>3 DEF JobHears
  <2>2. \A n \in Msgs : Active(n)' => Active(n)
    BY <1>0, <1>3 DEF JobHears, Active, JobType
  <2> QED BY <2>1, <2>2 DEF OneJob
<1>4. CASE JobEnds(m)
  BY <1>0, <1>4, FinallyJobs DEF JobEnds, Active
<1> QED BY <1>1, <1>2, <1>3, <1>4

\* Every step.
LEMMA OneJobStep ==
  ASSUME ChatsType, OneJob, "gap" \notin odd', [Next]_vars
  PROVE  OneJob'
<1>1. ASSUME NEW t \in Tabs,
             \/ \E m \in Msgs : Sends(t, m) \/ Replies(t, m)
             \/ MakesJob(t) \/ Injects(t) \/ AnswerLost(t) \/ Acknowledges(t) \/ Queues(t) \/ Stop(t)
             \/ Resolves(t) \/ IsTold(t)
      PROVE  OneJob'
  BY <1>1, OneJobTabs
<1>2. ASSUME NEW m \in Msgs, JobStarts(m) \/ JobNeverStarts(m) \/ JobHears(m) \/ JobEnds(m)
      PROVE  OneJob'
  BY <1>2, OneJobJobs
<1>3. ASSUME NEW m \in Msgs,
              \/ ChatBegins(m) \/ TurnBegins(m) \/ LoopBegins(m) \/ TakesSteering(m) \/ LoopEnds(m)
              \/ LoopBreaks(m) \/ TurnFails(m) \/ ChatCancelled(m) \/ TurnEnds(m) \/ ChatEnds(m)
      PROVE  OneJob'
  BY <1>3, SameJobs DEF ChatBegins, TurnBegins, LoopBegins, TakesSteering, LoopEnds, LoopBreaks,
                        TurnFails, ChatCancelled, TurnEnds, ChatEnds, webui
<1>4. ASSUME NEW m \in Msgs,
              Asks(m) \/ Emitted(m) \/ QuestionHeard(m) \/ AnswerHeard(m) \/ Expires(m) \/ TimedOut(m)
      PROVE  OneJob'
  BY <1>4, SameJobs DEF Asks, Emitted, QuestionHeard, AnswerHeard, Expires, TimedOut, webui
<1>5. CASE GatewayRestarts
  <2>1. \A t \in Tabs : tab'[t].pc = "acking" => tab[t].pc = "acking"
    BY <1>5 DEF GatewayRestarts, Unanswered, ChatsType, TabType
  <2> QED BY <1>5, <2>1, SameJobs DEF GatewayRestarts, webui
<1>6. CASE UNCHANGED vars
  BY <1>6, SameJobs DEF vars, webui
<1> QED BY <1>1, <1>2, <1>3, <1>4, <1>5, <1>6 DEF Next

-----------------------------------------------------------------------------
(* Its chat.                                                               *)

\* A step that leaves the jobs' progress alone, and starts no chat.
LEMMA SameChats ==
  ASSUME OwnChat, \A m \in Msgs : job'[m].pc = job[m].pc, UNCHANGED emitter,
         \A m \in Msgs : Live(m)' => Live(m) /\ (chat'[m] # "sent" => chat[m] # "sent")
  PROVE  OwnChat'
BY DEF OwnChat

\* The handlers' steps.
LEMMA OwnChatTabs ==
  ASSUME ChatsType, OneJob, OwnChat, NEW t \in Tabs,
         \/ \E m \in Msgs : Sends(t, m) \/ Replies(t, m)
         \/ MakesJob(t) \/ Injects(t) \/ AnswerLost(t) \/ Acknowledges(t) \/ Queues(t) \/ Stop(t)
         \/ Resolves(t) \/ IsTold(t)
  PROVE  OwnChat'
<1>0. TabType /\ JobType
  BY DEF ChatsType
<1>1. ASSUME NEW m \in Msgs, Sends(t, m) \/ Replies(t, m)
      PROVE  OwnChat'
  BY <1>1, SameChats DEF Sends, Replies, webui, gateway, Live
<1>2. CASE Injects(t) \/ AnswerLost(t) \/ Acknowledges(t) \/ Queues(t) \/ Resolves(t) \/ IsTold(t)
  BY <1>2, SameChats DEF Injects, AnswerLost, Acknowledges, Queues, Resolves, IsTold, webui, Live
<1>3. CASE MakesJob(t)
  <2>1. \A m \in Msgs : ~Live(m)
    BY <1>0, <1>3 DEF MakesJob, OneJob, OwnChat, Active
  <2>2. UNCHANGED chat
    BY <1>3 DEF MakesJob, gateway
  <2> QED BY <2>1, <2>2 DEF OwnChat, Live
<1>4. CASE Stop(t)
  <2>1. UNCHANGED <<chat, emitter>>
    BY <1>4 DEF Stop, gateway
  <2>2. \A m \in Msgs : job'[m].pc = job[m].pc
    <3>1. CASE registered # NoMsg
      BY <1>0, <1>4, <3>1 DEF Stop, JobType
    <3>2. CASE registered = NoMsg
      BY <1>4, <3>2 DEF Stop
    <3> QED BY <3>1, <3>2
  <2> QED BY <2>1, <2>2, SameChats DEF Live
<1> QED BY <1>1, <1>2, <1>3, <1>4

\* The jobs' steps.
LEMMA OwnChatJobs ==
  ASSUME ChatsType, OneJob, OwnChat, "abandoned" \notin odd', NEW m \in Msgs,
         JobStarts(m) \/ JobNeverStarts(m) \/ JobHears(m) \/ JobEnds(m)
  PROVE  OwnChat'
<1>0. TabType /\ JobType /\ ChatType
  BY DEF ChatsType
<1>1. CASE JobStarts(m)
  <2>1. Active(m) /\ job' = [job EXCEPT ![m].pc = "streaming"] /\ chat' = [chat EXCEPT ![m] = "sent"]
    BY <1>1 DEF JobStarts, Active
  <2>2. \A n \in Msgs : n # m => ~Live(n)
    BY <2>1 DEF OneJob, OwnChat, Active
  <2> QED BY <1>0, <2>1, <2>2 DEF OwnChat, Live, JobType, ChatType
<1>2. CASE JobNeverStarts(m)
  <2>1. job' = [job EXCEPT ![m].pc = "ended"] /\ job[m].pc = "created" /\ UNCHANGED <<chat, emitter>>
    BY <1>2 DEF JobNeverStarts, gateway
  <2>2. ~Live(m)
    BY <2>1 DEF OwnChat
  <2> QED BY <1>0, <2>1, <2>2 DEF OwnChat, Live, JobType
<1>3. CASE JobHears(m)
  <2>1. UNCHANGED <<chat, emitter>>
    BY <1>3 DEF JobHears
  <2>2. job' \in {job, [job EXCEPT ![m].pc = "answered"]}
    BY <1>3 DEF JobHears
  <2>3. CASE job' = job
    BY <2>1, <2>3 DEF OwnChat, Live
  <2>4. CASE job' = [job EXCEPT ![m].pc = "answered"]
    BY <1>0, <2>1, <2>4 DEF OwnChat, Live, JobType
  <2> QED BY <2>2, <2>3, <2>4
<1>4. CASE JobEnds(m)
  <2>1. Active(m) /\ Finally(m) /\ UNCHANGED <<tab, chat>>
    BY <1>4 DEF JobEnds, Active, gateway
  <2>2. ~Live(m)
    BY <1>4 DEF JobEnds, Live
  <2>3. \A n \in Msgs : ~Live(n)
    BY <2>1, <2>2 DEF OneJob, OwnChat, Active
  <2> QED BY <2>1, <2>3 DEF OwnChat, Live
<1> QED BY <1>1, <1>2, <1>3, <1>4

\* The chats' steps: another chat would have another job.
LEMMA OwnChatChats ==
  ASSUME ChatsType, OneJob, OwnChat, NEW m \in Msgs,
         \/ ChatBegins(m) \/ TurnBegins(m) \/ LoopBegins(m) \/ TakesSteering(m) \/ LoopEnds(m)
         \/ LoopBreaks(m) \/ TurnFails(m) \/ ChatCancelled(m) \/ TurnEnds(m) \/ ChatEnds(m)
  PROVE  OwnChat'
<1>0. ChatType
  BY DEF ChatsType
<1>1. Live(m) => \A n \in Msgs : n # m => ~Live(n)
  BY DEF OneJob, OwnChat, Active
<1>2. CASE ChatBegins(m)
  <2>1. Live(m) /\ chat' = [chat EXCEPT ![m] = "waiting"] /\ emitter' = m /\ UNCHANGED job
    BY <1>2 DEF ChatBegins, Live, webui
  <2> QED BY <1>0, <1>1, <2>1 DEF OwnChat, Live, ChatType
<1>3. CASE ChatEnds(m)
  <2>1. Live(m) /\ chat' = [chat EXCEPT ![m] = "done"] /\ UNCHANGED job
    BY <1>3 DEF ChatEnds, Live, webui
  <2> QED BY <1>0, <1>1, <2>1 DEF OwnChat, Live, ChatType
<1>4. CASE TakesSteering(m)
  BY <1>4, SameChats DEF TakesSteering, webui, Live
<1>5. CASE TurnBegins(m) \/ LoopBegins(m) \/ LoopEnds(m) \/ LoopBreaks(m) \/ TurnFails(m)
           \/ ChatCancelled(m) \/ TurnEnds(m)
  <2>1. UNCHANGED <<job, emitter>>
    BY <1>5 DEF TurnBegins, LoopBegins, LoopEnds, LoopBreaks, TurnFails, ChatCancelled, TurnEnds, webui
  <2>2. Live(m) /\ chat[m] # "sent"
    BY <1>5 DEF TurnBegins, LoopBegins, LoopEnds, LoopBreaks, TurnFails, ChatCancelled, TurnEnds, Live,
                Thinks
  <2>3. \E p \in ChatPcs : chat' = [chat EXCEPT ![m] = p]
    BY <1>5 DEF TurnBegins, LoopBegins, LoopEnds, LoopBreaks, TurnFails, ChatCancelled, TurnEnds, ChatPcs
  <2>4. \A n \in Msgs : Live(n)' => Live(n) /\ (chat'[n] # "sent" => chat[n] # "sent")
    BY <1>0, <2>2, <2>3 DEF Live, ChatType
  <2> QED BY <2>1, <2>4, SameChats
<1> QED BY <1>2, <1>3, <1>4, <1>5

\* Every step.
LEMMA OwnChatStep ==
  ASSUME ChatsType, OneJob, OwnChat, "abandoned" \notin odd', [Next]_vars
  PROVE  OwnChat'
<1>1. ASSUME NEW t \in Tabs,
             \/ \E m \in Msgs : Sends(t, m) \/ Replies(t, m)
             \/ MakesJob(t) \/ Injects(t) \/ AnswerLost(t) \/ Acknowledges(t) \/ Queues(t) \/ Stop(t)
             \/ Resolves(t) \/ IsTold(t)
      PROVE  OwnChat'
  BY <1>1, OwnChatTabs
<1>2. ASSUME NEW m \in Msgs, JobStarts(m) \/ JobNeverStarts(m) \/ JobHears(m) \/ JobEnds(m)
      PROVE  OwnChat'
  BY <1>2, OwnChatJobs
<1>3. ASSUME NEW m \in Msgs,
              \/ ChatBegins(m) \/ TurnBegins(m) \/ LoopBegins(m) \/ TakesSteering(m) \/ LoopEnds(m)
              \/ LoopBreaks(m) \/ TurnFails(m) \/ ChatCancelled(m) \/ TurnEnds(m) \/ ChatEnds(m)
      PROVE  OwnChat'
  BY <1>3, OwnChatChats
<1>4. ASSUME NEW m \in Msgs,
              Asks(m) \/ Emitted(m) \/ QuestionHeard(m) \/ AnswerHeard(m) \/ Expires(m) \/ TimedOut(m)
      PROVE  OwnChat'
  BY <1>4, SameChats DEF Asks, Emitted, QuestionHeard, AnswerHeard, Expires, TimedOut, webui, gateway,
                         Live
<1>5. CASE GatewayRestarts
  BY <1>5 DEF GatewayRestarts, OwnChat, Live
<1>6. CASE UNCHANGED vars
  BY <1>6, SameChats DEF vars, webui, gateway, Live
<1> QED BY <1>1, <1>2, <1>3, <1>4, <1>5, <1>6 DEF Next

-----------------------------------------------------------------------------

\* At the start nothing is under way.
LEMMA OneChatInit == Init => OneChatInv
<1> SUFFICES ASSUME Init PROVE OneChatInv
  OBVIOUS
<1>1. \A m \in Msgs : ~Active(m) /\ ~Live(m)
  BY DEF Init, Active, Live
<1>2. \A t \in Tabs : tab[t].pc # "acking"
  BY DEF Init
<1> QED BY <1>1, <1>2, TypeInit DEF OneChatInv, OneJob, OwnChat

\* Every step: one job, its own chat.
LEMMA OneChatInvStep == OneChatInv /\ [Next]_vars => OneChatInv'
BY TypeStep, OddStays, OneJobStep, OwnChatStep DEF OneChatInv

\* One message of a session at a time has a job in the WebUI, and a turn's events
\* go to its own chat, whatever the messages, tabs and bounds (ws_handler.py,
\* the hub's emitters), with the exceptions OneChat names.
THEOREM OneChatAlways == Spec => []OneChat
<1>1. Init => OneChatInv
  BY OneChatInit
<1>2. OneChatInv /\ [Next]_vars => OneChatInv'
  BY OneChatInvStep
<1>3. OneChatInv => OneChat
  <2> SUFFICES ASSUME OneChatInv, "gap" \notin odd PROVE
        /\ Cardinality({m \in Msgs : Active(m)}) <= 1
        /\ "abandoned" \notin odd => \A m \in InTurn : emitter = m
    BY DEF OneChat
  <2>1. CASE \E m \in Msgs : Active(m)
    <3>1. PICK m \in Msgs : Active(m)
      BY <2>1
    <3>2. {n \in Msgs : Active(n)} = {m}
      BY <3>1 DEF OneChatInv, OneJob
    <3> QED BY <3>2, FS_Singleton DEF OneChatInv, OwnChat, InTurn, Live
  <2>2. CASE ~\E m \in Msgs : Active(m)
    <3>1. {n \in Msgs : Active(n)} = {}
      BY <2>2
    <3> QED BY <3>1, FS_EmptySet DEF OneChatInv, OwnChat, InTurn, Live
  <2> QED BY <2>1, <2>2
<1> QED BY <1>1, <1>2, <1>3, PTL DEF Spec

-----------------------------------------------------------------------------
(* Where a message is.                                                     *)

\* A handler has a message in hand.
HandPcs == {"acking", "steering", "injected", "refused", "unanswered"}

\* Messages are sent in their order, as far as the bound allows.
SentInv ==
  /\ left \in [sends : 0..Len(Order), stops : Nat, troubles : Nat, asks : Nat]
  /\ sent \subseteq Msgs /\ IsFiniteSet(sent)
  /\ \A i \in 1..Len(Order) : Order[i] \in sent <=> i <= Cardinality(sent)

\* A message is in one handler's hands, or once in the deque, or has a job: it
\* gets there once, and has no chat before its job has begun.
InHands ==
  \A t \in Tabs : tab[t].pc \in HandPcs =>
    /\ tab[t].msg \in sent /\ job[tab[t].msg].pc = "none" /\ tab[t].msg \notin Range(queue)
    /\ \A u \in Tabs : tab[u].pc \in HandPcs /\ tab[u].msg = tab[t].msg => u = t
InQueue ==
  /\ IsInjective(queue)
  /\ \A m \in Range(queue) : m \in sent /\ job[m].pc = "none"
InJob ==
  \A m \in Msgs : /\ job[m].pc # "none" => m \in sent
                  /\ job[m].pc \in {"none", "created"} => chat[m] = "none"
OnePlace == InHands /\ InQueue /\ InJob

PlaceInv == ChatsType /\ SentInv /\ OnePlace

\* A message that joins the deque is its last.
LEMMA QueueAppend ==
  ASSUME NEW S, NEW q \in Seq(S), NEW m \in S
  PROVE  /\ Append(q, m) \in Seq(S)
         /\ Range(Append(q, m)) = Range(q) \cup {m}
         /\ IsInjective(q) /\ m \notin Range(q) => IsInjective(Append(q, m))
<1>1. /\ Append(q, m) \in Seq(S) /\ Len(Append(q, m)) = Len(q) + 1
      /\ \A i \in 1..Len(q) : Append(q, m)[i] = q[i]
      /\ Append(q, m)[Len(q) + 1] = m
      /\ DOMAIN Append(q, m) = 1..(Len(q) + 1) /\ DOMAIN q = 1..Len(q) /\ Len(q) \in Nat
  OBVIOUS
<1>2. \A i \in 1..(Len(q) + 1) : i \in 1..Len(q) \/ i = Len(q) + 1
  BY <1>1
<1>3. IsInjective(q) /\ m \notin Range(q) => IsInjective(Append(q, m))
  BY <1>1, <1>2 DEF IsInjective, Range
<1>4. Range(Append(q, m)) = Range(q) \cup {m}
  BY <1>1, <1>2 DEF Range
<1> QED BY <1>1, <1>3, <1>4

\* The first of the deque is in it once.
LEMMA QueueTail ==
  ASSUME NEW S, NEW q \in Seq(S), q # <<>>
  PROVE  /\ Head(q) \in Range(q) /\ Head(q) \in S
         /\ Tail(q) \in Seq(S)
         /\ Range(q) = Range(Tail(q)) \cup {Head(q)}
         /\ IsInjective(q) => IsInjective(Tail(q)) /\ Head(q) \notin Range(Tail(q))
<1>1. /\ Len(q) \in Nat \ {0} /\ DOMAIN q = 1..Len(q) /\ Head(q) = q[1] /\ Head(q) \in S
      /\ Tail(q) \in Seq(S) /\ Len(Tail(q)) = Len(q) - 1 /\ DOMAIN Tail(q) = 1..(Len(q) - 1)
      /\ \A i \in 1..(Len(q) - 1) : Tail(q)[i] = q[i + 1]
  OBVIOUS
<1>2. IsInjective(q) => IsInjective(Tail(q))
  BY <1>1 DEF IsInjective
<1>3. IsInjective(q) => Head(q) \notin Range(Tail(q))
  BY <1>1 DEF IsInjective, Range
<1>4. ASSUME NEW x \in Range(q), x # Head(q)
      PROVE  x \in Range(Tail(q))
  <2>1. PICK i \in 1..Len(q) : q[i] = x
    BY <1>1 DEF Range
  <2>2. i - 1 \in 1..(Len(q) - 1) /\ Tail(q)[i - 1] = x
    BY <1>1, <1>4, <2>1
  <2> QED BY <1>1, <2>2 DEF Range
<1>5. \A x \in Range(Tail(q)) : x \in Range(q)
  BY <1>1 DEF Range
<1>6. Head(q) \in Range(q)
  BY <1>1 DEF Range
<1> QED BY <1>1, <1>2, <1>3, <1>4, <1>5, <1>6

\* Sending: the next message, not sent before.
LEMMA SendsNext ==
  ASSUME SentInv, NEW t \in Tabs, NEW m \in Msgs, Sends(t, m)
  PROVE  m \notin sent /\ SentInv'
<1> DEFINE n == Cardinality(sent)
<1>1. n \in Nat /\ n < left.sends /\ left.sends \in 0..Len(Order) /\ m = Order[n + 1]
      /\ sent' = sent \cup {m} /\ UNCHANGED left
  BY FS_CardinalityType DEF SentInv, Sends
<1>2. Len(Order) \in Nat /\ DOMAIN Order = 1..Len(Order)
  BY OrderAssumption
<1> HIDE DEF n
<1>3. n + 1 \in 1..Len(Order) /\ ~(n + 1 <= n)
  BY <1>1, <1>2
<1>4. m \notin sent
  BY <1>1, <1>3 DEF SentInv, n
<1>5. IsFiniteSet(sent') /\ Cardinality(sent') = n + 1
  BY <1>1, <1>4, FS_AddElement DEF SentInv, n
<1>6. ASSUME NEW i \in 1..Len(Order)
      PROVE  Order[i] \in sent' <=> i <= n + 1
  <2>1. Order[i] = m <=> i = n + 1
    BY <1>1, <1>2, <1>3, OrderAssumption DEF IsInjective
  <2>2. Order[i] \in sent <=> i <= n
    BY DEF SentInv, n
  <2> QED BY <1>1, <1>2, <2>1, <2>2
<1> QED BY <1>1, <1>4, <1>5, <1>6 DEF SentInv

\* Every step: the messages sent, and what is left of the bounds.
LEMMA SentStep ==
  ASSUME SentInv, [Next]_vars
  PROVE  SentInv' /\ sent \subseteq sent'
<1>1. ASSUME NEW t \in Tabs, NEW m \in Msgs, Sends(t, m)
      PROVE  SentInv' /\ sent \subseteq sent'
  BY <1>1, SendsNext DEF Sends
<1>2. ASSUME UNCHANGED sent, \/ UNCHANGED left
                             \/ left.stops > 0 /\ left' = [left EXCEPT !.stops = @ - 1]
                             \/ left.asks > 0 /\ left' = [left EXCEPT !.asks = @ - 1]
                             \/ left.troubles > 0 /\ left' = [left EXCEPT !.troubles = @ - 1]
      PROVE  SentInv' /\ sent \subseteq sent'
  BY <1>2 DEF SentInv
<1>3. ASSUME NEW t \in Tabs,
             \/ \E m \in Msgs : Replies(t, m)
             \/ MakesJob(t) \/ Injects(t) \/ AnswerLost(t) \/ Acknowledges(t) \/ Queues(t) \/ Stop(t)
             \/ Resolves(t) \/ IsTold(t)
      PROVE  SentInv' /\ sent \subseteq sent'
  BY <1>2, <1>3 DEF Replies, MakesJob, Injects, AnswerLost, Acknowledges, Queues, Stop, Resolves,
                    IsTold, Trouble
<1>4. ASSUME NEW m \in Msgs, JobStarts(m) \/ JobNeverStarts(m) \/ JobHears(m) \/ JobEnds(m)
      PROVE  SentInv' /\ sent \subseteq sent'
  BY <1>2, <1>4 DEF JobStarts, JobNeverStarts, JobHears, JobEnds, Trouble
<1>5. ASSUME NEW m \in Msgs,
              \/ ChatBegins(m) \/ TurnBegins(m) \/ LoopBegins(m) \/ TakesSteering(m) \/ LoopEnds(m)
              \/ LoopBreaks(m) \/ TurnFails(m) \/ ChatCancelled(m) \/ TurnEnds(m) \/ ChatEnds(m)
      PROVE  SentInv' /\ sent \subseteq sent'
  BY <1>2, <1>5 DEF ChatBegins, TurnBegins, LoopBegins, TakesSteering, LoopEnds, LoopBreaks,
                    TurnFails, ChatCancelled, TurnEnds, ChatEnds, Trouble
<1>6. ASSUME NEW m \in Msgs,
              Asks(m) \/ Emitted(m) \/ QuestionHeard(m) \/ AnswerHeard(m) \/ Expires(m) \/ TimedOut(m)
      PROVE  SentInv' /\ sent \subseteq sent'
  BY <1>2, <1>6 DEF Asks, Emitted, QuestionHeard, AnswerHeard, Expires, TimedOut
<1>7. CASE GatewayRestarts
  BY <1>2, <1>7 DEF GatewayRestarts, Trouble
<1>8. CASE UNCHANGED vars
  BY <1>2, <1>8 DEF vars
<1> QED BY <1>1, <1>3, <1>4, <1>5, <1>6, <1>7, <1>8 DEF Next

\* A step that leaves the jobs and the deque alone, and puts no message in a hand.
LEMMA SamePlaces ==
  ASSUME OnePlace, UNCHANGED <<queue, sent>>, \A m \in Msgs : job'[m].pc = job[m].pc,
         \A t \in Tabs : tab'[t].pc \in HandPcs => tab[t].pc \in HandPcs /\ tab'[t].msg = tab[t].msg,
         \A m \in Msgs : job[m].pc \in {"none", "created"} /\ chat[m] = "none" => chat'[m] = "none",
         TabType, queue \in Seq(Msgs)
  PROVE  OnePlace'
<1>1. \A t \in Tabs : tab[t].pc \in HandPcs => tab[t].msg \in Msgs
  BY DEF TabType, HandPcs
<1>2. Range(queue) \subseteq Msgs
  BY DEF Range
<1>3. InHands'
  BY <1>1 DEF OnePlace, InHands
<1>4. InQueue'
  BY <1>2 DEF OnePlace, InQueue
<1>5. InJob'
  BY DEF OnePlace, InJob
<1> QED BY <1>3, <1>4, <1>5 DEF OnePlace

\* The handlers' steps: sending, making the job, queueing.
LEMMA PlaceTabs ==
  ASSUME PlaceInv, NEW t \in Tabs,
         \/ \E m \in Msgs : Sends(t, m) \/ Replies(t, m)
         \/ MakesJob(t) \/ Injects(t) \/ AnswerLost(t) \/ Acknowledges(t) \/ Queues(t) \/ Stop(t)
         \/ Resolves(t) \/ IsTold(t)
  PROVE  OnePlace'
<1>0. TabType /\ JobType /\ ChatType /\ OnePlace /\ SentInv /\ InHands /\ InQueue /\ InJob
  BY DEF PlaceInv, ChatsType, OnePlace
<1>q. queue \in Seq(Msgs) /\ Range(queue) \subseteq Msgs
  BY <1>0 DEF JobType, Range
<1>m. tab[t].pc \in HandPcs => tab[t].msg \in Msgs
  BY <1>0 DEF TabType, HandPcs
<1>1. ASSUME NEW m \in Msgs, Sends(t, m)
      PROVE  OnePlace'
  <2>1. m \notin sent /\ sent' = sent \cup {m} /\ UNCHANGED <<queue, job, chat>>
    BY <1>0, <1>1, SendsNext DEF Sends, gateway
  <2>2. \E p \in {"steering", "acking"} : tab' = [tab EXCEPT ![t] = [pc |-> p, msg |-> m]]
    BY <1>1 DEF Sends
  <2>3. tab'[t].msg = m /\ \A u \in Tabs : u # t => tab'[u] = tab[u]
    BY <1>0, <2>2 DEF TabType
  <2>4. job[m].pc = "none" /\ m \notin Range(queue)
    BY <1>0, <2>1 DEF InJob, InQueue
  <2>5. InHands'
    BY <1>0, <2>1, <2>3, <2>4 DEF InHands
  <2> QED BY <1>0, <2>1, <2>5 DEF OnePlace, InQueue, InJob
<1>2. CASE MakesJob(t)
  <2>1. /\ tab[t].pc = "acking" /\ tab[t].pc \in HandPcs
        /\ job' = [job EXCEPT ![tab[t].msg].pc = "created"]
        /\ tab' = [tab EXCEPT ![t] = Idle] /\ UNCHANGED <<queue, sent, chat>>
    BY <1>2 DEF MakesJob, gateway, HandPcs
  <2>2. /\ \A m \in Msgs : job'[m].pc = IF m = tab[t].msg THEN "created" ELSE job[m].pc
        /\ \A u \in Tabs : tab'[u].pc \in HandPcs => u # t /\ tab'[u] = tab[u]
    BY <1>0, <1>m, <2>1 DEF JobType, TabType, Idle, HandPcs
  <2>3. /\ tab[t].msg \in Msgs /\ tab[t].msg \in sent /\ job[tab[t].msg].pc = "none"
        /\ tab[t].msg \notin Range(queue)
    BY <1>0, <1>m, <2>1 DEF InHands
  <2>4. \A u \in Tabs : tab[u].pc \in HandPcs => tab[u].msg \in Msgs
    BY <1>0 DEF TabType, HandPcs
  <2>5. InHands'
    BY <1>0, <2>1, <2>2, <2>3, <2>4 DEF InHands
  <2>6. InQueue' /\ InJob'
    BY <1>0, <1>q, <2>1, <2>2, <2>3 DEF InQueue, InJob
  <2> QED BY <2>5, <2>6 DEF OnePlace
<1>3. CASE Queues(t)
  <2>1. /\ tab[t].pc \in HandPcs /\ tab' = [tab EXCEPT ![t] = Idle] /\ UNCHANGED <<job, chat, sent>>
        /\ queue' \in {queue, Append(queue, tab[t].msg)}
    BY <1>3 DEF Queues, HandPcs
  <2>2. tab[t].msg \in sent /\ job[tab[t].msg].pc = "none" /\ tab[t].msg \notin Range(queue)
    BY <1>0, <2>1 DEF InHands
  <2>a. /\ Range(Append(queue, tab[t].msg)) = Range(queue) \cup {tab[t].msg}
        /\ IsInjective(queue) => IsInjective(Append(queue, tab[t].msg))
    BY <1>m, <1>q, <2>1, <2>2, QueueAppend
  <2>3. Range(queue') \subseteq Range(queue) \cup {tab[t].msg} /\ IsInjective(queue')
    BY <1>0, <2>1, <2>a DEF InQueue
  <2>4. \A u \in Tabs : tab'[u].pc \in HandPcs => u # t /\ tab'[u] = tab[u]
    BY <1>0, <2>1 DEF TabType, Idle, HandPcs
  <2>5. InHands'
    BY <1>0, <2>1, <2>3, <2>4 DEF InHands
  <2>6. InQueue' /\ InJob'
    BY <1>0, <2>1, <2>2, <2>3 DEF InQueue, InJob
  <2> QED BY <2>5, <2>6 DEF OnePlace
<1>4. CASE Stop(t)
  <2>1. UNCHANGED <<tab, chat, sent>> /\ queue' = <<>>
    BY <1>4 DEF Stop, gateway
  <2>2. \A m \in Msgs : job'[m].pc = job[m].pc
    <3>1. CASE registered # NoMsg
      BY <1>0, <1>4, <3>1 DEF Stop, JobType
    <3>2. CASE registered = NoMsg
      BY <1>4, <3>2 DEF Stop
    <3> QED BY <3>1, <3>2
  <2>3. Range(queue') = {} /\ IsInjective(queue')
    BY <2>1 DEF Range, IsInjective
  <2>4. \A u \in Tabs : tab[u].pc \in HandPcs => tab[u].msg \in Msgs
    BY <1>0 DEF TabType, HandPcs
  <2>5. InHands'
    BY <1>0, <2>1, <2>2, <2>3, <2>4 DEF InHands
  <2>6. InQueue' /\ InJob'
    BY <1>0, <2>1, <2>2, <2>3 DEF InQueue, InJob
  <2> QED BY <2>5, <2>6 DEF OnePlace
<1>5. ASSUME UNCHANGED <<queue, sent, job, chat>>,
             tab[t].pc = "idle" \/ tab[t].pc \notin HandPcs \/ tab'[t].pc \notin HandPcs
               \/ (tab[t].pc \in HandPcs /\ tab'[t].msg = tab[t].msg),
             \A u \in Tabs : u # t => tab'[u] = tab[u],
             tab'[t].pc \in HandPcs => tab[t].pc \in HandPcs
      PROVE  OnePlace'
  BY <1>0, <1>5, <1>q, SamePlaces DEF HandPcs
<1>6. ASSUME NEW m \in Msgs, Replies(t, m)
      PROVE  OnePlace'
  BY <1>0, <1>5, <1>6 DEF Replies, webui, gateway, TabType, HandPcs
<1>7. CASE Acknowledges(t) \/ IsTold(t)
  <2>1. tab' = [tab EXCEPT ![t] = Idle] /\ UNCHANGED <<queue, sent, job, chat>>
    BY <1>7 DEF Acknowledges, IsTold, webui
  <2> QED BY <1>0, <1>5, <2>1 DEF Idle, TabType, HandPcs
<1>8. CASE Injects(t)
  <2>1. /\ tab[t].pc \in HandPcs /\ UNCHANGED <<queue, sent, job, chat>>
        /\ \E p \in {"injected", "refused"} : tab' = [tab EXCEPT ![t].pc = p]
    BY <1>8 DEF Injects, webui, HandPcs
  <2> QED BY <1>0, <1>5, <2>1 DEF TabType
<1>9. CASE Resolves(t)
  <2>1. /\ UNCHANGED <<queue, sent, job, chat>>
        /\ \E p \in {"taken", "denied"} : tab' = [tab EXCEPT ![t].pc = p]
    BY <1>9 DEF Resolves, webui
  <2> QED BY <1>0, <1>5, <2>1 DEF TabType, HandPcs
<1>10. CASE AnswerLost(t)
  <2>1. /\ UNCHANGED <<queue, sent, job, chat>>
        /\ tab' = [tab EXCEPT ![t].pc = Unanswered(tab[t].pc)]
        /\ tab[t].pc \in {"steering", "injected", "replying", "taken"}
    BY <1>10 DEF AnswerLost, webui
  <2> QED BY <1>0, <1>5, <2>1 DEF TabType, HandPcs, Unanswered
<1> QED BY <1>1, <1>2, <1>3, <1>4, <1>6, <1>7, <1>8, <1>9, <1>10

\* The jobs' steps: a job starts its chat, or ends and hands on to the next.
LEMMA PlaceJobs ==
  ASSUME PlaceInv, NEW m \in Msgs,
         JobStarts(m) \/ JobNeverStarts(m) \/ JobHears(m) \/ JobEnds(m)
  PROVE  OnePlace'
<1>0. TabType /\ JobType /\ ChatType /\ OnePlace /\ InHands /\ InQueue /\ InJob
  BY DEF PlaceInv, ChatsType, OnePlace
<1>q. queue \in Seq(Msgs) /\ Range(queue) \subseteq Msgs
  BY <1>0 DEF JobType, Range
<1>m. \A u \in Tabs : tab[u].pc \in HandPcs => tab[u].msg \in Msgs
  BY <1>0 DEF TabType, HandPcs
<1>1. CASE JobStarts(m)
  <2>1. /\ job[m].pc = "created" /\ UNCHANGED <<tab, queue, sent>>
        /\ \A n \in Msgs : job'[n].pc = IF n = m THEN "streaming" ELSE job[n].pc
        /\ \A n \in Msgs : n # m => chat'[n] = chat[n]
    BY <1>0, <1>1 DEF JobStarts, JobType, ChatType
  <2> QED BY <1>0, <1>q, <1>m, <2>1 DEF OnePlace, InHands, InQueue, InJob
<1>2. CASE JobNeverStarts(m)
  <2>1. /\ job[m].pc = "created" /\ UNCHANGED <<tab, queue, sent, chat>>
        /\ \A n \in Msgs : job'[n].pc = IF n = m THEN "ended" ELSE job[n].pc
    BY <1>0, <1>2 DEF JobNeverStarts, JobType, gateway
  <2> QED BY <1>0, <1>q, <1>m, <2>1 DEF OnePlace, InHands, InQueue, InJob
<1>3. CASE JobHears(m)
  <2>1. /\ UNCHANGED <<tab, queue, sent, chat>>
        /\ \/ job' = job
           \/ job[m].pc = "streaming" /\ job' = [job EXCEPT ![m].pc = "answered"]
    BY <1>3 DEF JobHears
  <2>2. \A n \in Msgs : job'[n].pc = job[n].pc \/ (job[n].pc = "streaming" /\ job'[n].pc = "answered")
    BY <1>0, <2>1 DEF JobType
  <2> QED BY <1>0, <1>q, <1>m, <2>1, <2>2 DEF OnePlace, InHands, InQueue, InJob
<1>4. CASE JobEnds(m)
  <2>1. /\ job[m].pc \in {"answered", "streaming"} /\ UNCHANGED <<tab, sent, chat>> /\ Finally(m)
    BY <1>4 DEF JobEnds, gateway
  <2>2. CASE queue # <<>>
    <3> DEFINE h == Head(queue)
    <3>1. /\ h \in Range(queue) /\ h \in Msgs /\ Range(Tail(queue)) \subseteq Range(queue)
          /\ IsInjective(Tail(queue)) /\ h \notin Range(Tail(queue))
      BY <1>0, <1>q, <2>2, QueueTail DEF InQueue
    <3>2. h \in sent /\ job[h].pc = "none" /\ h # m
      BY <1>0, <2>1, <3>1 DEF InQueue
    <3>3. /\ job' = [job EXCEPT ![m].pc = "ended", ![h].pc = "created"]
          /\ queue' = Tail(queue)
      BY <2>1, <2>2 DEF Finally
    <3>4. \A n \in Msgs : job'[n].pc = IF n = h THEN "created" ELSE IF n = m THEN "ended" ELSE job[n].pc
      BY <1>0, <3>1, <3>3 DEF JobType
    <3> HIDE DEF h
    <3>5. \A u \in Tabs : tab[u].pc \in HandPcs => tab[u].msg # h /\ tab[u].msg # m
      BY <1>0, <2>1, <3>1 DEF InHands
    <3>6. InHands'
      BY <1>0, <1>m, <2>1, <3>1, <3>3, <3>4, <3>5 DEF InHands
    <3>7. InQueue'
      BY <1>0, <1>q, <2>1, <3>1, <3>2, <3>3, <3>4 DEF InQueue
    <3>8. InJob'
      BY <1>0, <2>1, <3>1, <3>2, <3>4 DEF InJob
    <3> QED BY <3>6, <3>7, <3>8 DEF OnePlace
  <2>3. CASE queue = <<>>
    <3>1. /\ queue' = <<>>
          /\ \A n \in Msgs : job'[n].pc = IF n = m THEN "ended" ELSE job[n].pc
      BY <1>0, <2>1, <2>3 DEF Finally, JobType
    <3> QED BY <1>0, <1>q, <1>m, <2>1, <2>3, <3>1 DEF OnePlace, InHands, InQueue, InJob
  <2> QED BY <2>2, <2>3
<1> QED BY <1>1, <1>2, <1>3, <1>4

\* Every step.
LEMMA PlaceStep ==
  ASSUME PlaceInv, [Next]_vars
  PROVE  PlaceInv'
<1>0. ChatsType /\ TabType /\ JobType /\ ChatType /\ OnePlace /\ SentInv /\ queue \in Seq(Msgs)
  BY DEF PlaceInv, ChatsType, JobType
<1>a. OnePlace /\ TabType /\ queue \in Seq(Msgs)
  BY <1>0
<1>1. ASSUME NEW t \in Tabs,
             \/ \E m \in Msgs : Sends(t, m) \/ Replies(t, m)
             \/ MakesJob(t) \/ Injects(t) \/ AnswerLost(t) \/ Acknowledges(t) \/ Queues(t) \/ Stop(t)
             \/ Resolves(t) \/ IsTold(t)
      PROVE  OnePlace'
  BY <1>1, PlaceTabs
<1>2. ASSUME NEW m \in Msgs, JobStarts(m) \/ JobNeverStarts(m) \/ JobHears(m) \/ JobEnds(m)
      PROVE  OnePlace'
  BY <1>2, PlaceJobs
<1>3. ASSUME NEW m \in Msgs,
              \/ ChatBegins(m) \/ TurnBegins(m) \/ LoopBegins(m) \/ TakesSteering(m) \/ LoopEnds(m)
              \/ LoopBreaks(m) \/ TurnFails(m) \/ ChatCancelled(m) \/ TurnEnds(m) \/ ChatEnds(m)
      PROVE  OnePlace'
  <2>1. UNCHANGED <<tab, queue, sent, job>>
    BY <1>3 DEF ChatBegins, TurnBegins, LoopBegins, TakesSteering, LoopEnds, LoopBreaks, TurnFails,
                ChatCancelled, TurnEnds, ChatEnds, webui
  <2>2. chat' = chat \/ (chat[m] # "none" /\ \A n \in Msgs : n # m => chat'[n] = chat[n])
    BY <1>0, <1>3 DEF ChatBegins, TurnBegins, LoopBegins, TakesSteering, LoopEnds, LoopBreaks, TurnFails,
                ChatCancelled, TurnEnds, ChatEnds, Thinks, ChatType
  <2>3. \A n \in Msgs : chat[n] = "none" => chat'[n] = "none"
    BY <2>2
  <2> QED BY <1>a, <2>1, <2>3, SamePlaces
<1>4. ASSUME NEW m \in Msgs,
              Asks(m) \/ Emitted(m) \/ QuestionHeard(m) \/ AnswerHeard(m) \/ Expires(m) \/ TimedOut(m)
      PROVE  OnePlace'
  BY <1>0, <1>4, SamePlaces DEF Asks, Emitted, QuestionHeard, AnswerHeard, Expires, TimedOut, webui,
                                gateway
<1>5. ASSUME GatewayRestarts
      PROVE  OnePlace'
  <2>1. UNCHANGED <<queue, sent, job>> /\ \A m \in Msgs : chat[m] = "none" => chat'[m] = "none"
    BY <1>5 DEF GatewayRestarts, webui
  <2>2. \A t \in Tabs : tab'[t].pc \in HandPcs => tab[t].pc \in HandPcs /\ tab'[t].msg = tab[t].msg
    BY <1>0, <1>5 DEF GatewayRestarts, Unanswered, TabType, HandPcs
  <2> QED BY <1>a, <2>1, <2>2, SamePlaces
<1>6. ASSUME UNCHANGED vars
      PROVE  OnePlace'
  <2>1. UNCHANGED <<tab, queue, sent, job, chat>>
    BY <1>6 DEF vars, webui, gateway
  <2> QED BY <1>a, <2>1, SamePlaces
<1>7. OnePlace'
  BY <1>1, <1>2, <1>3, <1>4, <1>5, <1>6 DEF Next
<1> QED BY <1>0, <1>7, TypeStep, SentStep DEF PlaceInv

\* At the start no message is anywhere.
LEMMA PlaceInit == Init => PlaceInv
<1> SUFFICES ASSUME Init PROVE PlaceInv
  OBVIOUS
<1>1. SentInv
  <2>1. left \in Budgets /\ sent = {}
    BY DEF Init
  <2>2. IsFiniteSet(sent) /\ Cardinality(sent) = 0
    BY <2>1, FS_EmptySet
  <2>3. \A i \in 1..Len(Order) : ~(i <= 0)
    BY OrderAssumption
  <2> QED BY <2>1, <2>2, <2>3, BudgetsAssumption DEF SentInv
<1>2. OnePlace
  BY DEF Init, OnePlace, InHands, InQueue, InJob, HandPcs, Range, IsInjective
<1> QED BY <1>1, <1>2, TypeInit DEF PlaceInv

-----------------------------------------------------------------------------
(* Each message once.                                                      *)

\* A message that is still to be handled: not yet sent, or in a hand, the deque,
\* or a job or chat whose turn has not begun.
Waiting(m) ==
  \/ m \notin sent
  \/ \E t \in Tabs : tab[t].msg = m /\ tab[t].pc \in {"acking", "steering", "refused", "unanswered"}
  \/ m \in Range(queue)
  \/ job[m].pc = "created"
  \/ chat[m] \in {"sent", "waiting"}

HandledType ==
  /\ steering \in [open : BOOLEAN, msgs : Seq(Msgs)]
  /\ handled \in [Msgs -> Nat]

\* What waits or is to steer a turn has not been handled, and is not both.
Once ==
  "answerLost" \notin odd => \A m \in Msgs :
    /\ handled[m] <= 1
    /\ Waiting(m) => handled[m] = 0 /\ ~Contains(steering.msgs, m)
    /\ Contains(steering.msgs, m) => handled[m] = 0

\* What was sent is somewhere until it is handled.
NoneLost ==
  odd \subseteq {"abandoned", "gap"} =>
    \A m \in sent \ stopped : Waiting(m) \/ Contains(steering.msgs, m) \/ handled[m] >= 1

\* Somebody will take what is to steer ...
Steered == "leftOver" \notin odd /\ steering.msgs # <<>> => InLoop # {}

\* ... and while the session is processing somebody will hand on the deque.
Marked == proc \/ queue # <<>> \/ \E t \in Tabs : t \in holds /\ tab[t].pc \in HandPcs
SomebodyWorks == (\E m \in Msgs : Active(m)) \/ (\E t \in Tabs : tab[t].pc = "acking")
Busy == "stuck" \notin odd /\ Marked => SomebodyWorks

\* The elements of a sequence that grows or shrinks.
LEMMA ContainsFacts ==
  ASSUME NEW S, NEW s \in Seq(S), NEW a \in S
  PROVE  /\ \A x : Contains(s, x) <=> x \in Range(s)
         /\ \A x : Contains(Append(s, a), x) <=> Contains(s, x) \/ x = a
         /\ s # <<>> => Contains(s, Head(s))
         /\ s # <<>> => \A x : Contains(Tail(s), x) => Contains(s, x)
         /\ s # <<>> => \A x : Contains(s, x) => x = Head(s) \/ Contains(Tail(s), x)
<1>1. Len(s) \in Nat /\ DOMAIN s = 1..Len(s)
  OBVIOUS
<1>2. \A q \in Seq(S) : \A x : Contains(q, x) <=> x \in Range(q)
  BY DEF Contains, Range
<1>3. Append(s, a) \in Seq(S) /\ Range(Append(s, a)) = Range(s) \cup {a}
  BY QueueAppend
<1>4. ASSUME s # <<>>
      PROVE  Head(s) \in Range(s) /\ Tail(s) \in Seq(S) /\ Range(s) = Range(Tail(s)) \cup {Head(s)}
  BY <1>4, QueueTail
<1>5. \A x : Contains(Append(s, a), x) <=> Contains(s, x) \/ x = a
  BY <1>2, <1>3
<1>6. s # <<>> => /\ Contains(s, Head(s))
                  /\ \A x : Contains(Tail(s), x) => Contains(s, x)
                  /\ \A x : Contains(s, x) => x = Head(s) \/ Contains(Tail(s), x)
  BY <1>2, <1>4
<1> QED BY <1>2, <1>5, <1>6

\* The empty sequence.
LEMMA NothingIn == \A x : ~Contains(<<>>, x)
BY DEF Contains

\* Every step: types.
LEMMA HandledTypeStep ==
  ASSUME HandledType, ChatsType, [Next]_vars
  PROVE  HandledType'
<1>c. Closed \in [open : BOOLEAN, msgs : Seq(Msgs)]
  <2>1. <<>> \in Seq(Msgs)
    OBVIOUS
  <2> QED BY <2>1 DEF Closed
<1>1. ASSUME NEW t \in Tabs, NEW m \in Msgs, Sends(t, m) \/ Replies(t, m)
      PROVE  HandledType'
  BY <1>1 DEF Sends, Replies, HandledType, gateway
<1>2. ASSUME NEW t \in Tabs,
             MakesJob(t) \/ AnswerLost(t) \/ Acknowledges(t) \/ Queues(t) \/ Stop(t) \/ Resolves(t) \/ IsTold(t)
      PROVE  HandledType'
  BY <1>2 DEF MakesJob, AnswerLost, Acknowledges, Queues, Stop, Resolves, IsTold, HandledType, gateway
<1>3. ASSUME NEW t \in Tabs, Injects(t)
      PROVE  HandledType'
  <2>1. tab[t].msg \in Msgs
    BY <1>3 DEF Injects, ChatsType, TabType
  <2>2. steering' = steering \/ steering' = [steering EXCEPT !.msgs = Append(@, tab[t].msg)]
    BY <1>3 DEF Injects
  <2>3. UNCHANGED handled
    BY <1>3 DEF Injects
  <2>4. Append(steering.msgs, tab[t].msg) \in Seq(Msgs)
    BY <2>1 DEF HandledType
  <2> QED BY <2>2, <2>3, <2>4 DEF HandledType
<1>4. ASSUME NEW m \in Msgs, JobStarts(m) \/ JobNeverStarts(m) \/ JobHears(m) \/ JobEnds(m)
      PROVE  HandledType'
  BY <1>4 DEF JobStarts, JobNeverStarts, JobHears, JobEnds, HandledType, gateway
<1>5. ASSUME NEW m \in Msgs,
              \/ ChatBegins(m) \/ TurnBegins(m) \/ LoopBegins(m) \/ LoopEnds(m)
              \/ LoopBreaks(m) \/ TurnFails(m) \/ ChatCancelled(m) \/ TurnEnds(m) \/ ChatEnds(m)
      PROVE  HandledType'
  <2>1. steering' \in {steering, Closed, [steering EXCEPT !.open = TRUE]}
    BY <1>5 DEF ChatBegins, TurnBegins, LoopBegins, LoopEnds, LoopBreaks, TurnFails, ChatCancelled,
                TurnEnds, ChatEnds
  <2>2. handled' \in {handled, [handled EXCEPT ![m] = @ + 1]}
    BY <1>5 DEF ChatBegins, TurnBegins, LoopBegins, LoopEnds, LoopBreaks, TurnFails, ChatCancelled,
                TurnEnds, ChatEnds
  <2>3. handled' \in [Msgs -> Nat]
    BY <2>2 DEF HandledType
  <2> QED BY <1>c, <2>1, <2>3 DEF HandledType
<1>6. ASSUME NEW m \in Msgs, TakesSteering(m)
      PROVE  HandledType'
  <2>1. <<>> \in Seq(Msgs) /\ steering' = [steering EXCEPT !.msgs = <<>>]
    BY <1>6 DEF TakesSteering
  <2>2. handled' = [k \in Msgs |-> IF Contains(steering.msgs, k) THEN handled[k] + 1 ELSE handled[k]]
    BY <1>6 DEF TakesSteering
  <2>3. handled' \in [Msgs -> Nat]
    BY <2>2 DEF HandledType
  <2> QED BY <2>1, <2>3 DEF HandledType
<1>7. ASSUME NEW m \in Msgs,
              Asks(m) \/ Emitted(m) \/ QuestionHeard(m) \/ AnswerHeard(m) \/ Expires(m) \/ TimedOut(m)
      PROVE  HandledType'
  BY <1>7 DEF Asks, Emitted, QuestionHeard, AnswerHeard, Expires, TimedOut, HandledType, gateway
<1>8. CASE GatewayRestarts
  BY <1>c, <1>8 DEF GatewayRestarts, HandledType
<1>9. CASE UNCHANGED vars
  BY <1>9 DEF vars, HandledType, gateway
<1> QED BY <1>1, <1>2, <1>3, <1>4, <1>5, <1>6, <1>7, <1>8, <1>9 DEF Next

\* No step puts back among the waiting what was not, but for the question whose
\* answer is lost.
LEMMA WaitingBefore ==
  ASSUME PlaceInv, [Next]_vars, "answerLost" \notin odd', NEW n \in Msgs
  PROVE  Waiting(n)' => Waiting(n)
<1>0. TabType /\ JobType /\ ChatType /\ SentInv
  BY DEF PlaceInv, ChatsType
<1>q. queue \in Seq(Msgs)
  BY <1>0 DEF JobType
<1>1. ASSUME UNCHANGED <<sent, queue>>, \A m \in Msgs : job'[m].pc = "created" => job[m].pc = "created",
             \A m \in Msgs : chat'[m] \in {"sent", "waiting"} => chat[m] \in {"sent", "waiting"},
             \A t \in Tabs : tab'[t].pc \in {"acking", "steering", "refused", "unanswered"} =>
               tab[t].pc \in {"acking", "steering", "refused", "unanswered"} /\ tab'[t].msg = tab[t].msg
      PROVE  Waiting(n)' => Waiting(n)
  BY <1>1 DEF Waiting
<1>2. ASSUME NEW t \in Tabs, NEW m \in Msgs, Sends(t, m)
      PROVE  Waiting(n)' => Waiting(n)
  <2>1. m \notin sent /\ sent' = sent \cup {m} /\ UNCHANGED <<queue, job, chat>>
    BY <1>0, <1>2, SendsNext DEF Sends, gateway
  <2>2. \E p \in {"steering", "acking"} : tab' = [tab EXCEPT ![t] = [pc |-> p, msg |-> m]]
    BY <1>2 DEF Sends
  <2>3. tab'[t].msg = m /\ \A u \in Tabs : u # t => tab'[u] = tab[u]
    BY <1>0, <2>2 DEF TabType
  <2> QED BY <2>1, <2>3 DEF Waiting
<1>3. ASSUME NEW t \in Tabs, MakesJob(t)
      PROVE  Waiting(n)' => Waiting(n)
  <2>1. /\ tab[t].pc = "acking" /\ tab[t].msg \in Msgs
        /\ job' = [job EXCEPT ![tab[t].msg].pc = "created"]
        /\ tab' = [tab EXCEPT ![t] = Idle] /\ UNCHANGED <<queue, sent, chat>>
    BY <1>0, <1>3 DEF MakesJob, gateway, TabType
  <2>2. \A m \in Msgs : job'[m].pc = "created" => job[m].pc = "created" \/ m = tab[t].msg
    BY <1>0, <2>1 DEF JobType
  <2>3. \A u \in Tabs : u # t => tab'[u] = tab[u]
    BY <1>0, <2>1 DEF TabType
  <2>4. tab'[t].pc = "idle"
    BY <1>0, <2>1 DEF TabType, Idle
  <2> QED BY <2>1, <2>2, <2>3, <2>4 DEF Waiting
<1>4. ASSUME NEW t \in Tabs, Queues(t)
      PROVE  Waiting(n)' => Waiting(n)
  <2>1. /\ tab[t].pc \in {"refused", "unanswered"} /\ tab[t].msg \in Msgs
        /\ tab' = [tab EXCEPT ![t] = Idle] /\ UNCHANGED <<job, chat, sent>>
        /\ queue' \in {queue, Append(queue, tab[t].msg)}
    BY <1>0, <1>4 DEF Queues, TabType
  <2>a. Range(Append(queue, tab[t].msg)) = Range(queue) \cup {tab[t].msg}
    BY <1>q, <2>1, QueueAppend
  <2>2. Range(queue') \subseteq Range(queue) \cup {tab[t].msg}
    BY <2>1, <2>a
  <2>3. tab'[t].pc = "idle" /\ \A u \in Tabs : u # t => tab'[u] = tab[u]
    BY <1>0, <2>1 DEF TabType, Idle
  <2> QED BY <2>1, <2>2, <2>3 DEF Waiting
<1>5. ASSUME NEW t \in Tabs, Stop(t)
      PROVE  Waiting(n)' => Waiting(n)
  <2>1. UNCHANGED <<tab, chat, sent>> /\ queue' = <<>>
    BY <1>5 DEF Stop, gateway
  <2>3. Range(queue') = {}
    BY <2>1 DEF Range
  <2>2. \A m \in Msgs : job'[m].pc = job[m].pc
    <3>1. CASE registered # NoMsg
      BY <1>0, <1>5, <3>1 DEF Stop, JobType
    <3>2. CASE registered = NoMsg
      BY <1>5, <3>2 DEF Stop
    <3> QED BY <3>1, <3>2
  <2> QED BY <2>1, <2>2, <2>3 DEF Waiting
<1>6. ASSUME NEW t \in Tabs, NEW m \in Msgs, Replies(t, m)
      PROVE  Waiting(n)' => Waiting(n)
  BY <1>0, <1>1, <1>6 DEF Replies, webui, gateway, TabType
<1>7. ASSUME NEW t \in Tabs, Acknowledges(t) \/ IsTold(t)
      PROVE  Waiting(n)' => Waiting(n)
  <2>1. tab' = [tab EXCEPT ![t] = Idle] /\ UNCHANGED <<queue, sent, job, chat>>
    BY <1>7 DEF Acknowledges, IsTold, webui
  <2> QED BY <1>0, <1>1, <2>1 DEF Idle, TabType
<1>8. ASSUME NEW t \in Tabs, Injects(t) \/ Resolves(t)
      PROVE  Waiting(n)' => Waiting(n)
  <2>1. /\ UNCHANGED <<queue, sent, job, chat>>
        /\ \E p \in {"injected", "refused", "taken", "denied"} :
             /\ tab' = [tab EXCEPT ![t].pc = p]
             /\ p = "refused" => tab[t].pc = "steering"
    BY <1>8 DEF Injects, Resolves, webui
  <2> QED BY <1>0, <1>1, <2>1 DEF TabType
<1>9. ASSUME NEW t \in Tabs, AnswerLost(t)
      PROVE  Waiting(n)' => Waiting(n)
  <2>1. /\ UNCHANGED <<queue, sent, job, chat>> /\ tab[t].pc \in {"steering", "replying"}
        /\ tab' = [tab EXCEPT ![t].pc = Unanswered(tab[t].pc)]
    BY <1>9 DEF AnswerLost, webui
  <2> QED BY <1>0, <1>1, <2>1 DEF TabType, Unanswered
<1>10. ASSUME NEW m \in Msgs, JobStarts(m)
      PROVE  Waiting(n)' => Waiting(n)
  <2>1. /\ job[m].pc = "created" /\ UNCHANGED <<tab, queue, sent>>
        /\ \A k \in Msgs : k # m => job'[k] = job[k] /\ chat'[k] = chat[k]
    BY <1>0, <1>10 DEF JobStarts, JobType, ChatType
  <2> QED BY <2>1 DEF Waiting
<1>11. ASSUME NEW m \in Msgs, JobNeverStarts(m) \/ JobHears(m)
      PROVE  Waiting(n)' => Waiting(n)
  <2>1. /\ UNCHANGED <<tab, queue, sent, chat>>
        /\ job' = job \/ \E p \in {"ended", "answered"} : job' = [job EXCEPT ![m].pc = p]
    BY <1>11 DEF JobNeverStarts, JobHears, gateway
  <2> QED BY <1>0, <1>1, <2>1 DEF JobType
<1>12. ASSUME NEW m \in Msgs, JobEnds(m)
      PROVE  Waiting(n)' => Waiting(n)
  <2>1. UNCHANGED <<tab, sent, chat>> /\ Finally(m)
    BY <1>12 DEF JobEnds, gateway
  <2>2. CASE queue # <<>>
    <3>1. /\ Head(queue) \in Range(queue) /\ Head(queue) \in Msgs
          /\ Range(Tail(queue)) \subseteq Range(queue)
      BY <1>q, <2>2, QueueTail
    <3>2. job' = [job EXCEPT ![m].pc = "ended", ![Head(queue)].pc = "created"] /\ queue' = Tail(queue)
      BY <2>1, <2>2 DEF Finally
    <3>3. \A k \in Msgs : job'[k].pc = "created" => job[k].pc = "created" \/ k = Head(queue)
      BY <1>0, <3>1, <3>2 DEF JobType
    <3> QED BY <2>1, <3>1, <3>2, <3>3 DEF Waiting
  <2>3. CASE queue = <<>>
    <3>1. job' = [job EXCEPT ![m].pc = "ended"] /\ queue' = queue
      BY <2>1, <2>3 DEF Finally
    <3> QED BY <1>0, <1>1, <2>1, <3>1 DEF JobType
  <2> QED BY <2>2, <2>3
<1>13. ASSUME NEW m \in Msgs,
              \/ ChatBegins(m) \/ TurnBegins(m) \/ LoopBegins(m) \/ TakesSteering(m) \/ LoopEnds(m)
              \/ LoopBreaks(m) \/ TurnFails(m) \/ ChatCancelled(m) \/ TurnEnds(m) \/ ChatEnds(m)
      PROVE  Waiting(n)' => Waiting(n)
  <2>1. UNCHANGED <<tab, queue, sent, job>>
    BY <1>13 DEF ChatBegins, TurnBegins, LoopBegins, TakesSteering, LoopEnds, LoopBreaks, TurnFails,
                ChatCancelled, TurnEnds, ChatEnds, webui
  <2>2. \A k \in Msgs : chat'[k] \in {"sent", "waiting"} => chat[k] \in {"sent", "waiting"}
    BY <1>0, <1>13 DEF ChatBegins, TurnBegins, LoopBegins, TakesSteering, LoopEnds, LoopBreaks, TurnFails,
                ChatCancelled, TurnEnds, ChatEnds, ChatType
  <2> QED BY <1>1, <2>1, <2>2
<1>14. ASSUME NEW m \in Msgs,
              Asks(m) \/ Emitted(m) \/ QuestionHeard(m) \/ AnswerHeard(m) \/ Expires(m) \/ TimedOut(m)
      PROVE  Waiting(n)' => Waiting(n)
  BY <1>1, <1>14 DEF Asks, Emitted, QuestionHeard, AnswerHeard, Expires, TimedOut, webui, gateway
<1>15. ASSUME GatewayRestarts
      PROVE  Waiting(n)' => Waiting(n)
  <2>1. UNCHANGED <<queue, sent, job>> /\ \A k \in Msgs : chat'[k] \notin {"sent", "waiting"}
    BY <1>0, <1>15 DEF GatewayRestarts, webui, ChatType
  <2>2. \A t \in Tabs : tab[t].pc \notin {"injected", "taken"}
    BY <1>15 DEF GatewayRestarts
  <2>3. \A t \in Tabs : tab'[t].pc \in {"acking", "steering", "refused", "unanswered"} =>
               tab[t].pc \in {"acking", "steering", "refused", "unanswered"} /\ tab'[t].msg = tab[t].msg
    BY <1>0, <1>15, <2>2 DEF GatewayRestarts, Unanswered, TabType
  <2> QED BY <1>1, <2>1, <2>3
<1>16. ASSUME UNCHANGED vars
      PROVE  Waiting(n)' => Waiting(n)
  BY <1>1, <1>16 DEF vars, webui, gateway
<1> QED BY <1>2, <1>3, <1>4, <1>5, <1>6, <1>7, <1>8, <1>9, <1>10, <1>11, <1>12, <1>13, <1>14, <1>15, <1>16
     DEF Next

\* A message that goes to the turn, or has its turn, waits no more.
LEMMA InjectedWaitsNoMore ==
  ASSUME PlaceInv, HandledType, NEW t \in Tabs, Injects(t), steering.open
  PROVE  tab[t].msg \in Msgs /\ \A m \in Msgs : m = tab[t].msg => Waiting(m) /\ ~Waiting(m)'
<1>0. TabType /\ InHands /\ InJob
  BY DEF PlaceInv, ChatsType, OnePlace
<1>1. /\ tab[t].pc = "steering" /\ tab[t].pc \in HandPcs /\ tab[t].msg \in Msgs
      /\ tab' = [tab EXCEPT ![t].pc = "injected"] /\ UNCHANGED <<queue, job, chat, sent>>
  BY <1>0 DEF Injects, webui, TabType, HandPcs
<1>2. /\ tab[t].msg \in sent /\ job[tab[t].msg].pc = "none" /\ tab[t].msg \notin Range(queue)
      /\ chat[tab[t].msg] = "none"
  BY <1>0, <1>1 DEF InHands, InJob
<1>3. /\ \A u \in Tabs : u # t /\ tab[u].msg = tab[t].msg => tab[u].pc \notin HandPcs
      /\ tab'[t].pc = "injected" /\ \A u \in Tabs : u # t => tab'[u] = tab[u]
  BY <1>0, <1>1 DEF InHands, TabType
<1>4. \A u \in Tabs : tab'[u].msg = tab[t].msg =>
        tab'[u].pc \notin {"acking", "steering", "refused", "unanswered"}
  BY <1>3 DEF HandPcs
<1> QED BY <1>1, <1>2, <1>4 DEF Waiting

\* A turn that begins has waited.
LEMMA BegunWaitsNoMore ==
  ASSUME PlaceInv, NEW m \in Msgs, TurnBegins(m)
  PROVE  Waiting(m) /\ ~Waiting(m)'
<1>0. ChatType /\ InHands /\ InQueue /\ InJob
  BY DEF PlaceInv, ChatsType, OnePlace
<1>1. chat[m] = "waiting" /\ chat' = [chat EXCEPT ![m] = "running"] /\ UNCHANGED <<tab, queue, job, sent>>
  BY DEF TurnBegins, webui
<1>2. job[m].pc \notin {"none", "created"} /\ m \in sent /\ m \notin Range(queue)
  BY <1>0, <1>1 DEF InJob, InQueue
<1>3. \A u \in Tabs : tab[u].msg = m => tab[u].pc \notin {"acking", "steering", "refused", "unanswered"}
  BY <1>0, <1>2 DEF InHands, HandPcs
<1>4. chat'[m] = "running"
  BY <1>0, <1>1 DEF ChatType
<1> QED BY <1>1, <1>2, <1>3, <1>4 DEF Waiting

\* What the steps do with the messages that are to steer, and that were handled.
LEMMA SteeringSteps ==
  ASSUME PlaceInv, HandledType, [Next]_vars
  PROVE  \/ steering'.msgs \in {steering.msgs, <<>>} /\ UNCHANGED handled
         \/ \E t \in Tabs : /\ Injects(t) /\ steering.open
                            /\ steering'.msgs = Append(steering.msgs, tab[t].msg) /\ UNCHANGED handled
         \/ \E m \in Msgs : TurnBegins(m)
         \/ \E m \in Msgs : TakesSteering(m)
<1> DEFINE Goal ==
         \/ steering'.msgs \in {steering.msgs, <<>>} /\ UNCHANGED handled
         \/ \E t \in Tabs : /\ Injects(t) /\ steering.open
                            /\ steering'.msgs = Append(steering.msgs, tab[t].msg) /\ UNCHANGED handled
         \/ \E m \in Msgs : TurnBegins(m)
         \/ \E m \in Msgs : TakesSteering(m)
<1>1. ASSUME UNCHANGED handled, steering' \in {steering, [steering EXCEPT !.open = TRUE], Closed}
      PROVE  steering'.msgs \in {steering.msgs, <<>>} /\ UNCHANGED handled
  BY <1>1 DEF HandledType, Closed
<1>2. ASSUME NEW t \in Tabs, NEW m \in Msgs, Sends(t, m) \/ Replies(t, m)
      PROVE  Goal
  BY <1>1, <1>2 DEF Sends, Replies, gateway
<1>3. ASSUME NEW t \in Tabs,
             MakesJob(t) \/ AnswerLost(t) \/ Acknowledges(t) \/ Queues(t) \/ Stop(t) \/ Resolves(t) \/ IsTold(t)
      PROVE  Goal
  BY <1>1, <1>3 DEF MakesJob, AnswerLost, Acknowledges, Queues, Stop, Resolves, IsTold, gateway
<1>4. ASSUME NEW t \in Tabs, Injects(t)
      PROVE  Goal
  <2>1. CASE steering.open
    <3>1. steering' = [steering EXCEPT !.msgs = Append(@, tab[t].msg)] /\ UNCHANGED handled
      BY <1>4, <2>1 DEF Injects
    <3>2. steering'.msgs = Append(steering.msgs, tab[t].msg)
      BY <3>1 DEF HandledType
    <3> QED BY <1>4, <2>1, <3>1, <3>2
  <2>2. CASE ~steering.open
    BY <1>1, <1>4, <2>2 DEF Injects
  <2> QED BY <2>1, <2>2
<1>5. ASSUME NEW m \in Msgs, JobStarts(m) \/ JobNeverStarts(m) \/ JobHears(m) \/ JobEnds(m)
      PROVE  Goal
  BY <1>1, <1>5 DEF JobStarts, JobNeverStarts, JobHears, JobEnds, gateway
<1>6. ASSUME NEW m \in Msgs,
              \/ ChatBegins(m) \/ LoopBegins(m) \/ LoopEnds(m)
              \/ LoopBreaks(m) \/ TurnFails(m) \/ ChatCancelled(m) \/ TurnEnds(m) \/ ChatEnds(m)
      PROVE  Goal
  <2>1. UNCHANGED handled /\ steering' \in {steering, [steering EXCEPT !.open = TRUE], Closed}
    BY <1>6 DEF ChatBegins, LoopBegins, LoopEnds, LoopBreaks, TurnFails, ChatCancelled, TurnEnds, ChatEnds
  <2> QED BY <1>1, <2>1
<1>7. ASSUME NEW m \in Msgs,
              Asks(m) \/ Emitted(m) \/ QuestionHeard(m) \/ AnswerHeard(m) \/ Expires(m) \/ TimedOut(m)
      PROVE  Goal
  BY <1>1, <1>7 DEF Asks, Emitted, QuestionHeard, AnswerHeard, Expires, TimedOut, gateway
<1>8. ASSUME GatewayRestarts
      PROVE  Goal
  BY <1>1, <1>8 DEF GatewayRestarts
<1>9. ASSUME UNCHANGED vars
      PROVE  Goal
  BY <1>1, <1>9 DEF vars, gateway
<1> HIDE DEF Goal
<1>10. ASSUME NEW m \in Msgs, TurnBegins(m)
       PROVE  Goal
  BY <1>10 DEF Goal
<1>11. ASSUME NEW m \in Msgs, TakesSteering(m)
       PROVE  Goal
  BY <1>11 DEF Goal
<1>12. Goal
  BY <1>2, <1>3, <1>4, <1>5, <1>6, <1>7, <1>8, <1>9, <1>10, <1>11 DEF Next
<1> QED BY <1>12 DEF Goal

\* Every step: a message is handled only when it waited or was to steer, and then
\* it does so no more.
LEMMA OnceStep ==
  ASSUME PlaceInv, HandledType, Once, [Next]_vars
  PROVE  Once'
<1> SUFFICES ASSUME "answerLost" \notin odd', NEW n \in Msgs
             PROVE  /\ handled'[n] <= 1
                    /\ Waiting(n)' => handled'[n] = 0 /\ ~Contains(steering'.msgs, n)
                    /\ Contains(steering'.msgs, n) => handled'[n] = 0
  BY DEF Once
<1>1. /\ handled[n] <= 1
      /\ Waiting(n) => handled[n] = 0 /\ ~Contains(steering.msgs, n)
      /\ Contains(steering.msgs, n) => handled[n] = 0
  BY OddStays DEF Once
<1>2. Waiting(n)' => Waiting(n)
  BY WaitingBefore
<1>3. ChatType /\ handled \in [Msgs -> Nat] /\ steering.msgs \in Seq(Msgs) /\ handled[n] \in Nat
  BY DEF HandledType, PlaceInv, ChatsType
<1>4. CASE steering'.msgs \in {steering.msgs, <<>>} /\ UNCHANGED handled
  BY <1>1, <1>2, <1>4, NothingIn
<1>5. ASSUME NEW t \in Tabs, Injects(t), steering.open,
             steering'.msgs = Append(steering.msgs, tab[t].msg), UNCHANGED handled
      PROVE  /\ handled'[n] <= 1
             /\ Waiting(n)' => handled'[n] = 0 /\ ~Contains(steering'.msgs, n)
             /\ Contains(steering'.msgs, n) => handled'[n] = 0
  <2>1. tab[t].msg \in Msgs /\ (n = tab[t].msg => Waiting(n) /\ ~Waiting(n)')
    BY <1>5, InjectedWaitsNoMore
  <2>2. \A x : Contains(Append(steering.msgs, tab[t].msg), x) <=> Contains(steering.msgs, x) \/ x = tab[t].msg
    BY <1>3, <2>1, ContainsFacts
  <2>3. Contains(steering'.msgs, n) <=> Contains(steering.msgs, n) \/ n = tab[t].msg
    BY <1>5, <2>2
  <2>4. handled'[n] = handled[n]
    BY <1>5
  <2>5. CASE n = tab[t].msg
    BY <1>1, <2>1, <2>4, <2>5
  <2>6. CASE n # tab[t].msg
    BY <1>1, <1>2, <2>3, <2>4, <2>6
  <2> QED BY <2>5, <2>6
<1>6. ASSUME NEW m \in Msgs, TurnBegins(m)
      PROVE  /\ handled'[n] <= 1
             /\ Waiting(n)' => handled'[n] = 0 /\ ~Contains(steering'.msgs, n)
             /\ Contains(steering'.msgs, n) => handled'[n] = 0
  <2>1. Waiting(m) /\ ~Waiting(m)'
    BY <1>6, BegunWaitsNoMore
  <2>2. handled' = [handled EXCEPT ![m] = @ + 1] /\ steering' = steering
    BY <1>6 DEF TurnBegins
  <2>3. handled'[n] = IF n = m THEN handled[n] + 1 ELSE handled[n]
    BY <1>3, <2>2
  <2> QED BY <1>1, <1>2, <2>1, <2>2, <2>3
<1>7. ASSUME NEW m \in Msgs, TakesSteering(m)
      PROVE  /\ handled'[n] <= 1
             /\ Waiting(n)' => handled'[n] = 0 /\ ~Contains(steering'.msgs, n)
             /\ Contains(steering'.msgs, n) => handled'[n] = 0
  <2>1. /\ steering'.msgs = <<>>
        /\ handled'[n] = IF Contains(steering.msgs, n) THEN handled[n] + 1 ELSE handled[n]
    BY <1>7 DEF TakesSteering, HandledType
  <2> QED BY <1>1, <1>2, <1>3, <2>1, NothingIn
<1> QED BY <1>4, <1>5, <1>6, <1>7, SteeringSteps

\* A turn that could be steered is over only when nothing is left to steer it, or
\* what is left is recorded as such.
LEMMA SteeredStep ==
  ASSUME PlaceInv, HandledType, Steered, [Next]_vars
  PROVE  Steered'
<1>0. ChatType /\ InJob
  BY DEF PlaceInv, ChatsType, OnePlace
<1>1. ASSUME steering'.msgs = steering.msgs, odd \subseteq odd', InLoop \subseteq InLoop'
      PROVE  Steered'
  BY <1>1 DEF Steered
<1>2. ASSUME steering'.msgs = <<>>
      PROVE  Steered'
  BY <1>2 DEF Steered
<1>3. odd \subseteq odd'
  BY OddStays
<1>4. ASSUME NEW t \in Tabs, Injects(t)
      PROVE  Steered'
  <2>1. UNCHANGED chat
    BY <1>4 DEF Injects
  <2>2. CASE steering.open
    BY <1>4, <2>1, <2>2 DEF Injects, Steered, InLoop
  <2>3. CASE ~steering.open
    BY <1>1, <1>3, <1>4, <2>1, <2>3 DEF Injects, InLoop
  <2> QED BY <2>2, <2>3
<1>5. ASSUME NEW t \in Tabs, NEW m \in Msgs, Sends(t, m) \/ Replies(t, m)
      PROVE  Steered'
  BY <1>1, <1>3, <1>5 DEF Sends, Replies, gateway, InLoop
<1>6. ASSUME NEW t \in Tabs,
             MakesJob(t) \/ AnswerLost(t) \/ Acknowledges(t) \/ Queues(t) \/ Stop(t) \/ Resolves(t) \/ IsTold(t)
      PROVE  Steered'
  BY <1>1, <1>3, <1>6 DEF MakesJob, AnswerLost, Acknowledges, Queues, Stop, Resolves, IsTold, gateway, InLoop
<1>7. ASSUME NEW m \in Msgs, JobNeverStarts(m) \/ JobHears(m) \/ JobEnds(m)
      PROVE  Steered'
  BY <1>1, <1>3, <1>7 DEF JobNeverStarts, JobHears, JobEnds, gateway, InLoop
<1>8. ASSUME NEW m \in Msgs, LoopEnds(m) \/ LoopBreaks(m) \/ TakesSteering(m)
      PROVE  Steered'
  BY <1>2, <1>8 DEF LoopEnds, LoopBreaks, TakesSteering, Closed, HandledType
<1>9. ASSUME NEW m \in Msgs, TurnFails(m) \/ ChatCancelled(m)
      PROVE  Steered'
  <2>1. UNCHANGED steering
    BY <1>9 DEF TurnFails, ChatCancelled
  <2>2. CASE steering.msgs = <<>>
    BY <1>2, <2>1, <2>2
  <2>3. CASE steering.msgs # <<>> /\ m \in InLoop
    BY <1>9, <2>3 DEF TurnFails, ChatCancelled, Steered
  <2>4. CASE m \notin InLoop
    <3>1. InLoop' = InLoop
      BY <1>0, <1>9, <2>4 DEF TurnFails, ChatCancelled, InLoop, ChatType
    <3> QED BY <1>1, <1>3, <2>1, <3>1
  <2> QED BY <2>2, <2>3, <2>4
<1>10. ASSUME NEW m \in Msgs,
              JobStarts(m) \/ ChatBegins(m) \/ TurnBegins(m) \/ LoopBegins(m) \/ TurnEnds(m) \/ ChatEnds(m)
      PROVE  Steered'
  <2>1. steering'.msgs = steering.msgs
    BY <1>10 DEF JobStarts, ChatBegins, TurnBegins, LoopBegins, TurnEnds, ChatEnds, HandledType
  <2>2. chat[m] # "looping"
    BY <1>0, <1>10 DEF JobStarts, ChatBegins, TurnBegins, LoopBegins, TurnEnds, ChatEnds, InJob
  <2>3. \A k \in Msgs : k # m => chat'[k] = chat[k]
    BY <1>0, <1>10 DEF JobStarts, ChatBegins, TurnBegins, LoopBegins, TurnEnds, ChatEnds, ChatType
  <2> QED BY <1>1, <1>3, <2>1, <2>2, <2>3 DEF InLoop
<1>11. ASSUME NEW m \in Msgs,
              Asks(m) \/ Emitted(m) \/ QuestionHeard(m) \/ AnswerHeard(m) \/ Expires(m) \/ TimedOut(m)
      PROVE  Steered'
  BY <1>1, <1>3, <1>11 DEF Asks, Emitted, QuestionHeard, AnswerHeard, Expires, TimedOut, gateway, InLoop
<1>12. CASE GatewayRestarts
  BY <1>2, <1>12 DEF GatewayRestarts, Closed
<1>13. CASE UNCHANGED vars
  BY <1>1, <1>3, <1>13 DEF vars, gateway, InLoop
<1> QED BY <1>4, <1>5, <1>6, <1>7, <1>8, <1>9, <1>10, <1>11, <1>12, <1>13 DEF Next

\* Every step: as long as the session is marked somebody works on it.
LEMMA BusyStep ==
  ASSUME ChatsType, Busy, [Next]_vars
  PROVE  Busy'
<1>0. TabType /\ JobType
  BY DEF ChatsType
<1>1. odd \subseteq odd'
  BY OddStays
<1>2. ASSUME Marked' => Marked, SomebodyWorks => SomebodyWorks'
      PROVE  Busy'
  BY <1>1, <1>2 DEF Busy
<1>3. ASSUME SomebodyWorks'
      PROVE  Busy'
  BY <1>3 DEF Busy
<1>4. ASSUME UNCHANGED <<proc, queue, holds>>, \A m \in Msgs : job'[m].pc = job[m].pc,
             \A t \in Tabs : tab'[t].pc \in HandPcs => tab[t].pc \in HandPcs,
             \A t \in Tabs : tab'[t].pc = "acking" <=> tab[t].pc = "acking"
      PROVE  Busy'
  <2>1. Marked' => Marked
    BY <1>4 DEF Marked
  <2>2. SomebodyWorks => SomebodyWorks'
    BY <1>4 DEF SomebodyWorks, Active
  <2> QED BY <1>2, <2>1, <2>2
<1>5. ASSUME NEW t \in Tabs, NEW m \in Msgs, Sends(t, m)
      PROVE  Busy'
  <2>1. /\ proc' = TRUE /\ UNCHANGED job /\ tab[t].pc = "idle"
        /\ tab' = [tab EXCEPT ![t] = [pc |-> IF proc THEN "steering" ELSE "acking", msg |-> m]]
    BY <1>5 DEF Sends
  <2>2. CASE proc
    <3>1. SomebodyWorks => SomebodyWorks'
      BY <1>0, <2>1 DEF SomebodyWorks, Active, TabType
    <3>2. Marked
      BY <2>2 DEF Marked
    <3> QED BY <1>2, <3>1, <3>2
  <2>3. CASE ~proc
    BY <1>0, <1>3, <2>1, <2>3 DEF SomebodyWorks, TabType
  <2> QED BY <2>2, <2>3
<1>6. ASSUME NEW t \in Tabs, MakesJob(t)
      PROVE  Busy'
  BY <1>0, <1>3, <1>6 DEF MakesJob, SomebodyWorks, Active, TabType, JobType
<1>7. ASSUME NEW t \in Tabs, Queues(t)
      PROVE  Busy'
  <2>1. /\ tab[t].pc \in HandPcs /\ tab[t].pc # "acking" /\ tab' = [tab EXCEPT ![t] = Idle]
        /\ UNCHANGED <<proc, holds, job>>
        /\ t \notin holds => UNCHANGED queue
    BY <1>7 DEF Queues, HandPcs
  <2>2. SomebodyWorks => SomebodyWorks'
    BY <1>0, <2>1 DEF SomebodyWorks, Active, TabType
  <2>3. CASE t \in holds
    <3>1. Marked
      BY <2>1, <2>3 DEF Marked
    <3> QED BY <1>2, <2>2, <3>1
  <2>4. CASE t \notin holds
    <3>1. Marked' => Marked
      BY <1>0, <2>1, <2>4 DEF Marked, TabType, Idle, HandPcs
    <3> QED BY <1>2, <2>2, <3>1
  <2> QED BY <2>3, <2>4
<1>8. ASSUME NEW t \in Tabs, Stop(t)
      PROVE  Busy'
  <2>1. UNCHANGED tab /\ queue' = <<>> /\ holds' = {} /\ (proc' = proc \/ proc' = FALSE)
    BY <1>8 DEF Stop
  <2>2. \A m \in Msgs : job'[m].pc = job[m].pc
    <3>1. CASE registered # NoMsg
      BY <1>0, <1>8, <3>1 DEF Stop, JobType
    <3>2. CASE registered = NoMsg
      BY <1>8, <3>2 DEF Stop
    <3> QED BY <3>1, <3>2
  <2>3. Marked' => Marked
    BY <2>1 DEF Marked
  <2>4. SomebodyWorks => SomebodyWorks'
    BY <2>1, <2>2 DEF SomebodyWorks, Active
  <2> QED BY <1>2, <2>3, <2>4
<1>9. ASSUME NEW t \in Tabs, NEW m \in Msgs, Replies(t, m)
      PROVE  Busy'
  BY <1>0, <1>4, <1>9 DEF Replies, webui, TabType, HandPcs
<1>10. ASSUME NEW t \in Tabs, Acknowledges(t) \/ IsTold(t)
      PROVE  Busy'
  <2>1. tab[t].pc # "acking" /\ tab' = [tab EXCEPT ![t] = Idle] /\ UNCHANGED <<proc, queue, holds, job>>
    BY <1>10 DEF Acknowledges, IsTold, webui
  <2> QED BY <1>0, <1>4, <2>1 DEF Idle, TabType, HandPcs
<1>11. ASSUME NEW t \in Tabs, Injects(t) \/ Resolves(t)
      PROVE  Busy'
  <2>1. /\ UNCHANGED <<proc, queue, holds, job>> /\ tab[t].pc # "acking"
        /\ \E p \in {"injected", "refused", "taken", "denied"} :
             /\ tab' = [tab EXCEPT ![t].pc = p]
             /\ p \in {"injected", "refused"} => tab[t].pc = "steering"
    BY <1>11 DEF Injects, Resolves, webui
  <2> QED BY <1>0, <1>4, <2>1 DEF TabType, HandPcs
<1>12. ASSUME NEW t \in Tabs, AnswerLost(t)
      PROVE  Busy'
  <2>1. /\ UNCHANGED <<proc, queue, holds, job>> /\ tab[t].pc \in {"steering", "injected", "replying", "taken"}
        /\ tab' = [tab EXCEPT ![t].pc = Unanswered(tab[t].pc)]
    BY <1>12 DEF AnswerLost, webui
  <2> QED BY <1>0, <1>4, <2>1 DEF TabType, Unanswered, HandPcs
<1>13. ASSUME NEW m \in Msgs, JobStarts(m)
      PROVE  Busy'
  BY <1>0, <1>3, <1>13 DEF JobStarts, SomebodyWorks, Active, JobType
<1>14. ASSUME NEW m \in Msgs, JobNeverStarts(m)
      PROVE  Busy'
  BY <1>14 DEF JobNeverStarts, Busy
<1>15. ASSUME NEW m \in Msgs, JobHears(m)
      PROVE  Busy'
  <2>1. /\ UNCHANGED <<tab, proc, queue, holds>>
        /\ \/ job' = job
           \/ job[m].pc = "streaming" /\ job' = [job EXCEPT ![m].pc = "answered"]
    BY <1>15 DEF JobHears
  <2>2. \A k \in Msgs : Active(k) => Active(k)'
    BY <1>0, <2>1 DEF Active, JobType
  <2>3. Marked' => Marked
    BY <2>1 DEF Marked
  <2>4. SomebodyWorks => SomebodyWorks'
    BY <2>1, <2>2 DEF SomebodyWorks
  <2> QED BY <1>2, <2>3, <2>4
<1>16. ASSUME NEW m \in Msgs, JobEnds(m)
      PROVE  Busy'
  <2>1. UNCHANGED tab /\ Finally(m)
    BY <1>16 DEF JobEnds
  <2>2. CASE queue # <<>>
    <3>1. Head(queue) \in Msgs
      BY <1>0, <2>2 DEF JobType
    <3>2. job' = [job EXCEPT ![m].pc = "ended", ![Head(queue)].pc = "created"]
      BY <2>1, <2>2 DEF Finally
    <3>3. job'[Head(queue)].pc = "created"
      BY <1>0, <3>1, <3>2 DEF JobType
    <3> QED BY <1>3, <3>1, <3>3 DEF SomebodyWorks, Active
  <2>3. CASE queue = <<>>
    <3>1. ~Marked'
      BY <2>1, <2>3 DEF Finally, Marked
    <3> QED BY <3>1 DEF Busy
  <2> QED BY <2>2, <2>3
<1>17. ASSUME NEW m \in Msgs,
              \/ ChatBegins(m) \/ TurnBegins(m) \/ LoopBegins(m) \/ TakesSteering(m) \/ LoopEnds(m)
              \/ LoopBreaks(m) \/ TurnFails(m) \/ ChatCancelled(m) \/ TurnEnds(m) \/ ChatEnds(m)
      PROVE  Busy'
  <2>1. UNCHANGED <<tab, proc, queue, holds, job>>
    BY <1>17 DEF ChatBegins, TurnBegins, LoopBegins, TakesSteering, LoopEnds, LoopBreaks, TurnFails,
                ChatCancelled, TurnEnds, ChatEnds, webui
  <2> QED BY <1>4, <2>1
<1>18. ASSUME NEW m \in Msgs,
              Asks(m) \/ Emitted(m) \/ QuestionHeard(m) \/ AnswerHeard(m) \/ Expires(m) \/ TimedOut(m)
      PROVE  Busy'
  BY <1>4, <1>18 DEF Asks, Emitted, QuestionHeard, AnswerHeard, Expires, TimedOut, webui
<1>19. CASE GatewayRestarts
  <2>1. UNCHANGED <<proc, queue, holds, job>>
    BY <1>19 DEF GatewayRestarts, webui
  <2>2. \A t \in Tabs : (tab'[t].pc \in HandPcs => tab[t].pc \in HandPcs)
                       /\ (tab'[t].pc = "acking" <=> tab[t].pc = "acking")
    BY <1>0, <1>19 DEF GatewayRestarts, Unanswered, TabType, HandPcs
  <2> QED BY <1>4, <2>1, <2>2
<1>20. CASE UNCHANGED vars
  BY <1>4, <1>20 DEF vars, webui
<1> QED BY <1>5, <1>6, <1>7, <1>8, <1>9, <1>10, <1>11, <1>12, <1>13, <1>14, <1>15, <1>16, <1>17, <1>18,
           <1>19, <1>20 DEF Next

\* Who waits goes on waiting in a step that moves no message.
LEMMA WaitsOn ==
  ASSUME UNCHANGED <<sent, queue>>, NEW n \in Msgs,
         job[n].pc = "created" => job'[n].pc = "created",
         chat[n] \in {"sent", "waiting"} => chat'[n] \in {"sent", "waiting"},
         \A t \in Tabs : tab[t].msg = n /\ tab[t].pc \in {"acking", "steering", "refused", "unanswered"} =>
           tab'[t].msg = n /\ tab'[t].pc \in {"acking", "steering", "refused", "unanswered"}
  PROVE  Waiting(n) => Waiting(n)'
BY DEF Waiting

\* What has been sent and was not stopped is kept by the handlers' steps ...
LEMMA TabsKeep ==
  ASSUME PlaceInv, HandledType, odd' \subseteq {"abandoned", "gap"}, NEW n \in sent', n \notin stopped',
         n \in sent \ stopped => Waiting(n) \/ Contains(steering.msgs, n) \/ handled[n] >= 1,
         NEW t \in Tabs,
         \/ \E m \in Msgs : Sends(t, m) \/ Replies(t, m)
         \/ MakesJob(t) \/ Injects(t) \/ AnswerLost(t) \/ Acknowledges(t) \/ Queues(t) \/ Stop(t)
         \/ Resolves(t) \/ IsTold(t)
  PROVE  Waiting(n)' \/ Contains(steering'.msgs, n) \/ handled'[n] >= 1
<1> DEFINE Kept == Waiting(n)' \/ Contains(steering'.msgs, n) \/ handled'[n] >= 1
           Waits == {"acking", "steering", "refused", "unanswered"}
<1>0. TabType /\ JobType /\ SentInv
  BY DEF PlaceInv, ChatsType
<1>q. queue \in Seq(Msgs)
  BY <1>0 DEF JobType
<1>1. ASSUME n \in sent \ stopped, UNCHANGED <<steering, handled>>, n \in Msgs, Waiting(n) => Waiting(n)'
      PROVE  Kept
  BY <1>1
<1>2. ASSUME NEW m \in Msgs, Sends(t, m)
      PROVE  Kept
  <2>1. /\ sent' = sent \cup {m} /\ tab[t].pc = "idle"
        /\ UNCHANGED <<queue, job, chat, steering, handled, stopped>>
    BY <1>2 DEF Sends, gateway
  <2>2. \E p \in {"steering", "acking"} : tab' = [tab EXCEPT ![t] = [pc |-> p, msg |-> m]]
    BY <1>2 DEF Sends
  <2>3. tab'[t].msg = m /\ tab'[t].pc \in {"steering", "acking"} /\ \A u \in Tabs : u # t => tab'[u] = tab[u]
    BY <1>0, <2>2 DEF TabType
  <2>4. CASE n = m
    BY <2>3, <2>4 DEF Waiting
  <2>5. CASE n # m
    <3>1. n \in sent \ stopped
      BY <2>1, <2>5
    <3>2. Waiting(n) => Waiting(n)'
      BY <2>1, <2>3, <3>1 DEF Waiting
    <3> QED BY <2>1, <3>1, <3>2
  <2> QED BY <2>4, <2>5
<1>3. CASE MakesJob(t)
  <2>1. /\ tab[t].pc = "acking" /\ tab[t].msg \in Msgs
        /\ job' = [job EXCEPT ![tab[t].msg].pc = "created"]
        /\ tab' = [tab EXCEPT ![t] = Idle] /\ UNCHANGED <<queue, sent, chat, steering, handled, stopped>>
    BY <1>0, <1>3 DEF MakesJob, gateway, TabType
  <2>2. n \in Msgs /\ n \in sent \ stopped
    BY <1>0, <2>1 DEF SentInv
  <2>3. job'[tab[t].msg].pc = "created" /\ (job[n].pc = "created" => job'[n].pc = "created")
    BY <1>0, <2>1, <2>2 DEF JobType
  <2>4. \A u \in Tabs : u # t => tab'[u] = tab[u]
    BY <1>0, <2>1 DEF TabType
  <2>5. Waiting(n) => Waiting(n)'
    BY <2>1, <2>2, <2>3, <2>4 DEF Waiting
  <2> QED BY <2>1, <2>2, <2>5
<1>4. CASE Injects(t)
  <2>1. tab[t].pc = "steering" /\ UNCHANGED <<queue, sent, job, chat, handled, stopped>>
    BY <1>4 DEF Injects, webui
  <2>2. n \in Msgs /\ n \in sent \ stopped
    BY <1>0, <2>1 DEF SentInv
  <2>3. CASE steering.open
    <3>1. tab' = [tab EXCEPT ![t].pc = "injected"] /\ steering' = [steering EXCEPT !.msgs = Append(@, tab[t].msg)]
      BY <1>4, <2>3 DEF Injects
    <3>2. tab[t].msg \in Msgs
      BY <1>0, <2>1 DEF TabType
    <3>3. steering'.msgs = Append(steering.msgs, tab[t].msg) /\ steering.msgs \in Seq(Msgs)
      BY <3>1 DEF HandledType
    <3>4. \A x : Contains(Append(steering.msgs, tab[t].msg), x) <=> Contains(steering.msgs, x) \/ x = tab[t].msg
      BY <3>2, <3>3, ContainsFacts
    <3>5. Contains(steering'.msgs, n) <=> Contains(steering.msgs, n) \/ n = tab[t].msg
      BY <3>3, <3>4
    <3>6. \A u \in Tabs : u # t => tab'[u] = tab[u]
      BY <1>0, <3>1 DEF TabType
    <3>7. n # tab[t].msg /\ Waiting(n) => Waiting(n)'
      BY <2>1, <3>6 DEF Waiting
    <3> QED BY <2>1, <2>2, <3>5, <3>7
  <2>4. CASE ~steering.open
    <3>1. tab' = [tab EXCEPT ![t].pc = "refused"] /\ UNCHANGED steering
      BY <1>4, <2>4 DEF Injects
    <3>2. Waiting(n) => Waiting(n)'
      BY <1>0, <2>1, <2>2, <3>1, WaitsOn DEF TabType
    <3> QED BY <2>1, <2>2, <3>1, <3>2
  <2> QED BY <2>3, <2>4
<1>5. CASE AnswerLost(t)
  <2>1. /\ UNCHANGED <<queue, sent, job, chat, steering, handled, stopped>>
        /\ tab[t].pc \in {"steering", "replying"}
        /\ tab' = [tab EXCEPT ![t].pc = Unanswered(tab[t].pc)]
    BY <1>5 DEF AnswerLost, webui
  <2>2. n \in Msgs /\ n \in sent \ stopped
    BY <1>0, <2>1 DEF SentInv
  <2>3. Waiting(n) => Waiting(n)'
    BY <1>0, <2>1, <2>2, WaitsOn DEF TabType, Unanswered
  <2> QED BY <2>1, <2>2, <2>3
<1>6. CASE Acknowledges(t) \/ IsTold(t)
  <2>1. /\ UNCHANGED <<queue, sent, job, chat, steering, handled, stopped>>
        /\ tab[t].pc \notin Waits /\ tab' = [tab EXCEPT ![t] = Idle]
    BY <1>6 DEF Acknowledges, IsTold, webui
  <2>2. n \in Msgs /\ n \in sent \ stopped
    BY <1>0, <2>1 DEF SentInv
  <2>3. Waiting(n) => Waiting(n)'
    BY <1>0, <2>1, <2>2, WaitsOn DEF TabType
  <2> QED BY <2>1, <2>2, <2>3
<1>7. CASE Queues(t)
  <2>1. /\ tab' = [tab EXCEPT ![t] = Idle] /\ UNCHANGED <<job, chat, sent, steering, handled, stopped>>
        /\ tab[t].pc # "idle" /\ queue' = Append(queue, tab[t].msg)
    BY <1>7 DEF Queues
  <2>2. n \in Msgs /\ n \in sent \ stopped /\ tab[t].msg \in Msgs
    BY <1>0, <2>1 DEF SentInv, TabType
  <2>3. Range(queue') = Range(queue) \cup {tab[t].msg}
    BY <1>q, <2>1, <2>2, QueueAppend
  <2>4. \A u \in Tabs : u # t => tab'[u] = tab[u]
    BY <1>0, <2>1 DEF TabType
  <2>5. Waiting(n) => Waiting(n)'
    BY <2>1, <2>2, <2>3, <2>4 DEF Waiting
  <2> QED BY <2>1, <2>2, <2>5
<1>8. CASE Stop(t)
  <2>1. /\ UNCHANGED <<tab, chat, sent, steering, handled>> /\ queue' = <<>>
        /\ stopped' = (stopped \cup Range(queue) \cup {registered}) \ {NoMsg}
    BY <1>8 DEF Stop, gateway
  <2>2. n \in Msgs /\ n \in sent \ stopped /\ n \notin Range(queue)
    BY <1>0, <2>1, NothingAssumption DEF SentInv
  <2>3. job'[n].pc = job[n].pc
    <3>1. CASE registered # NoMsg
      BY <1>0, <1>8, <2>2, <3>1 DEF Stop, JobType
    <3>2. CASE registered = NoMsg
      BY <1>8, <3>2 DEF Stop
    <3> QED BY <3>1, <3>2
  <2>4. Waiting(n) => Waiting(n)'
    BY <2>1, <2>2, <2>3 DEF Waiting
  <2> QED BY <2>1, <2>2, <2>4
<1>9. ASSUME NEW m \in Msgs, Replies(t, m)
      PROVE  Kept
  <2>1. /\ UNCHANGED <<queue, sent, job, chat, steering, handled, stopped>>
        /\ tab[t].pc = "idle" /\ tab' = [tab EXCEPT ![t] = [pc |-> "replying", msg |-> m]]
    BY <1>9 DEF Replies, webui, gateway
  <2>2. n \in Msgs /\ n \in sent \ stopped
    BY <1>0, <2>1 DEF SentInv
  <2>3. Waiting(n) => Waiting(n)'
    BY <1>0, <2>1, <2>2, WaitsOn DEF TabType
  <2> QED BY <2>1, <2>2, <2>3
<1>10. CASE Resolves(t)
  <2>1. /\ UNCHANGED <<queue, sent, job, chat, steering, handled, stopped>>
        /\ tab[t].pc = "replying" /\ \E p \in {"taken", "denied"} : tab' = [tab EXCEPT ![t].pc = p]
    BY <1>10 DEF Resolves, webui
  <2>2. n \in Msgs /\ n \in sent \ stopped
    BY <1>0, <2>1 DEF SentInv
  <2>3. Waiting(n) => Waiting(n)'
    BY <1>0, <2>1, <2>2, WaitsOn DEF TabType
  <2> QED BY <2>1, <2>2, <2>3
<1> QED BY <1>2, <1>3, <1>4, <1>5, <1>6, <1>7, <1>8, <1>9, <1>10

\* ... by the jobs' ...
LEMMA JobsKeep ==
  ASSUME PlaceInv, odd' \subseteq {"abandoned", "gap"}, NEW n \in sent', n \notin stopped',
         n \in sent \ stopped => Waiting(n) \/ Contains(steering.msgs, n) \/ handled[n] >= 1,
         NEW m \in Msgs, JobStarts(m) \/ JobNeverStarts(m) \/ JobHears(m) \/ JobEnds(m)
  PROVE  Waiting(n)' \/ Contains(steering'.msgs, n) \/ handled'[n] >= 1
<1>0. JobType /\ ChatType /\ SentInv
  BY DEF PlaceInv, ChatsType
<1>q. queue \in Seq(Msgs)
  BY <1>0 DEF JobType
<1>1. UNCHANGED <<tab, sent, steering, handled, stopped>>
  BY DEF JobStarts, JobNeverStarts, JobHears, JobEnds, gateway
<1>2. n \in Msgs /\ n \in sent \ stopped
  BY <1>0, <1>1 DEF SentInv
<1>3. ASSUME JobStarts(m)
      PROVE  Waiting(n) => Waiting(n)'
  <2>1. /\ UNCHANGED queue /\ chat'[m] = "sent"
        /\ n # m => job'[n] = job[n] /\ chat'[n] = chat[n]
    BY <1>0, <1>2, <1>3 DEF JobStarts, JobType, ChatType
  <2> QED BY <1>1, <1>2, <2>1 DEF Waiting
<1>4. ASSUME JobHears(m)
      PROVE  Waiting(n) => Waiting(n)'
  <2>1. /\ UNCHANGED <<chat, queue>>
        /\ \/ job' = job
           \/ job[m].pc = "streaming" /\ job' = [job EXCEPT ![m].pc = "answered"]
    BY <1>4 DEF JobHears
  <2>2. job[n].pc = "created" => job'[n].pc = "created"
    BY <1>0, <1>2, <2>1 DEF JobType
  <2> QED BY <1>1, <1>2, <2>1, <2>2, WaitsOn
<1>5. ASSUME JobEnds(m)
      PROVE  Waiting(n) => Waiting(n)'
  <2>1. Finally(m) /\ job[m].pc # "created" /\ UNCHANGED chat
    BY <1>5 DEF JobEnds, gateway
  <2>2. CASE queue # <<>>
    <3>1. /\ Head(queue) \in Msgs /\ Range(queue) = Range(Tail(queue)) \cup {Head(queue)}
      BY <1>q, <2>2, QueueTail
    <3>2. job' = [job EXCEPT ![m].pc = "ended", ![Head(queue)].pc = "created"] /\ queue' = Tail(queue)
      BY <2>1, <2>2 DEF Finally
    <3>3. job'[Head(queue)].pc = "created" /\ (job[n].pc = "created" => job'[n].pc = "created")
      BY <1>0, <1>2, <2>1, <3>1, <3>2 DEF JobType
    <3> QED BY <1>1, <1>2, <2>1, <3>1, <3>2, <3>3 DEF Waiting
  <2>3. CASE queue = <<>>
    <3>1. job' = [job EXCEPT ![m].pc = "ended"] /\ queue' = queue
      BY <2>1, <2>3 DEF Finally
    <3>2. job[n].pc = "created" => job'[n].pc = "created"
      BY <1>0, <1>2, <2>1, <3>1 DEF JobType
    <3> QED BY <1>1, <1>2, <2>1, <3>1, <3>2, WaitsOn
  <2> QED BY <2>2, <2>3
<1>6. ~JobNeverStarts(m)
  BY DEF JobNeverStarts
<1>7. Waiting(n) => Waiting(n)'
  BY <1>3, <1>4, <1>5, <1>6
<1> QED BY <1>1, <1>2, <1>7

\* ... and by the chats'.
LEMMA ChatsKeep ==
  ASSUME PlaceInv, HandledType, odd' \subseteq {"abandoned", "gap"}, NEW n \in sent', n \notin stopped',
         n \in sent \ stopped => Waiting(n) \/ Contains(steering.msgs, n) \/ handled[n] >= 1,
         NEW m \in Msgs,
              \/ ChatBegins(m) \/ TurnBegins(m) \/ LoopBegins(m) \/ TakesSteering(m) \/ LoopEnds(m)
              \/ LoopBreaks(m) \/ TurnFails(m) \/ ChatCancelled(m) \/ TurnEnds(m) \/ ChatEnds(m)
  PROVE  Waiting(n)' \/ Contains(steering'.msgs, n) \/ handled'[n] >= 1
<1>0. ChatType /\ SentInv
  BY DEF PlaceInv, ChatsType
<1>1. UNCHANGED <<tab, queue, sent, job>>
  BY DEF ChatBegins, TurnBegins, LoopBegins, TakesSteering, LoopEnds, LoopBreaks, TurnFails,
         ChatCancelled, TurnEnds, ChatEnds, webui
<1>2. /\ n \in Msgs /\ n \in sent \ stopped
      /\ ChatCancelled(m) => n # m
  <2>1. UNCHANGED stopped \/ (ChatCancelled(m) /\ stopped' = stopped \cup {m})
    BY DEF ChatBegins, TurnBegins, LoopBegins, TakesSteering, LoopEnds, LoopBreaks, TurnFails,
           ChatCancelled, TurnEnds, ChatEnds
  <2>2. ChatCancelled(m) => stopped' = stopped \cup {m}
    BY DEF ChatCancelled
  <2> QED BY <1>0, <1>1, <2>1, <2>2 DEF SentInv
<1>3. ~LoopBreaks(m)
  BY DEF LoopBreaks
<1>4. CASE TurnBegins(m)
  <2>1. chat' = [chat EXCEPT ![m] = "running"] /\ handled' = [handled EXCEPT ![m] = @ + 1] /\ UNCHANGED steering
    BY <1>4 DEF TurnBegins
  <2>2. CASE n = m
    BY <1>2, <2>1, <2>2 DEF HandledType
  <2>3. CASE n # m
    <3>1. handled'[n] = handled[n] /\ chat'[n] = chat[n]
      BY <1>0, <1>2, <2>1, <2>3 DEF HandledType, ChatType
    <3>2. Waiting(n) => Waiting(n)'
      BY <1>1, <1>2, <3>1, WaitsOn
    <3> QED BY <1>2, <2>1, <3>1, <3>2
  <2> QED BY <2>2, <2>3
<1>5. CASE TakesSteering(m)
  <2>1. handled'[n] = IF Contains(steering.msgs, n) THEN handled[n] + 1 ELSE handled[n]
    BY <1>2, <1>5 DEF TakesSteering
  <2>2. UNCHANGED chat
    BY <1>5 DEF TakesSteering
  <2>3. Waiting(n) => Waiting(n)'
    BY <1>1, <1>2, <2>2, WaitsOn
  <2>4. handled[n] \in Nat
    BY <1>2 DEF HandledType
  <2> QED BY <1>2, <2>1, <2>3, <2>4
<1>6. CASE ChatBegins(m) \/ LoopBegins(m) \/ LoopEnds(m) \/ TurnFails(m) \/ ChatCancelled(m)
           \/ TurnEnds(m) \/ ChatEnds(m)
  <2>1. UNCHANGED handled /\ steering'.msgs = steering.msgs
    BY <1>6 DEF ChatBegins, LoopBegins, LoopEnds, TurnFails, ChatCancelled, TurnEnds, ChatEnds, Closed,
                HandledType
  <2>2. chat[n] \in {"sent", "waiting"} => chat'[n] \in {"sent", "waiting"}
    BY <1>0, <1>2, <1>6 DEF ChatBegins, LoopBegins, LoopEnds, TurnFails, ChatCancelled, TurnEnds, ChatEnds,
                            ChatType, Thinks
  <2>3. Waiting(n) => Waiting(n)'
    BY <1>1, <1>2, <2>2, WaitsOn
  <2> QED BY <1>2, <2>1, <2>3
<1> QED BY <1>3, <1>4, <1>5, <1>6

\* Every step.
LEMMA NoneLostStep ==
  ASSUME PlaceInv, HandledType, NoneLost, [Next]_vars
  PROVE  NoneLost'
<1> SUFFICES ASSUME odd' \subseteq {"abandoned", "gap"}, NEW n \in sent', n \notin stopped'
             PROVE  Waiting(n)' \/ Contains(steering'.msgs, n) \/ handled'[n] >= 1
  BY DEF NoneLost
<1> DEFINE Kept == Waiting(n)' \/ Contains(steering'.msgs, n) \/ handled'[n] >= 1
<1>1. n \in sent \ stopped => Waiting(n) \/ Contains(steering.msgs, n) \/ handled[n] >= 1
  BY OddStays DEF NoneLost
<1>2. ASSUME NEW t \in Tabs,
             \/ \E m \in Msgs : Sends(t, m) \/ Replies(t, m)
             \/ MakesJob(t) \/ Injects(t) \/ AnswerLost(t) \/ Acknowledges(t) \/ Queues(t) \/ Stop(t)
             \/ Resolves(t) \/ IsTold(t)
      PROVE  Kept
  BY <1>1, <1>2, TabsKeep
<1>3. ASSUME NEW m \in Msgs, JobStarts(m) \/ JobNeverStarts(m) \/ JobHears(m) \/ JobEnds(m)
      PROVE  Kept
  BY <1>1, <1>3, JobsKeep
<1>4. ASSUME NEW m \in Msgs,
              \/ ChatBegins(m) \/ TurnBegins(m) \/ LoopBegins(m) \/ TakesSteering(m) \/ LoopEnds(m)
              \/ LoopBreaks(m) \/ TurnFails(m) \/ ChatCancelled(m) \/ TurnEnds(m) \/ ChatEnds(m)
      PROVE  Kept
  BY <1>1, <1>4, ChatsKeep
<1>5. ASSUME UNCHANGED <<tab, queue, sent, job, chat, steering, handled, stopped>>
      PROVE  Kept
  <2>1. Waiting(n) => Waiting(n)'
    BY <1>5 DEF Waiting
  <2> QED BY <1>1, <1>5, <2>1
<1>6. ASSUME NEW m \in Msgs,
              Asks(m) \/ Emitted(m) \/ QuestionHeard(m) \/ AnswerHeard(m) \/ Expires(m) \/ TimedOut(m)
      PROVE  Kept
  BY <1>5, <1>6 DEF Asks, Emitted, QuestionHeard, AnswerHeard, Expires, TimedOut, webui, gateway
<1>7. ~GatewayRestarts
  <2> SUFFICES ASSUME GatewayRestarts PROVE FALSE
    OBVIOUS
  <2>1. "restart" \in odd'
    BY DEF GatewayRestarts
  <2>2. odd' \subseteq {"abandoned", "gap"}
    BY <1>1
  <2> QED BY <2>1, <2>2
<1>8. ASSUME UNCHANGED vars
      PROVE  Kept
  BY <1>5, <1>8 DEF vars, webui, gateway
<1> HIDE DEF Kept
<1>9. Kept
  BY <1>2, <1>3, <1>4, <1>6, <1>7, <1>8 DEF Next
<1> QED BY <1>9 DEF Kept

HandledInv == PlaceInv /\ HandledType /\ Once /\ NoneLost /\ Steered /\ Busy

\* Each message comes before the model once, its own turn or as steering, for any
\* messages, tabs and bounds, unless the answer to its steering was lost; and once
\* all is quiet it has come, but for what stops and the named failures took away
\* (ws_handler.py, inject_steering_message, _run_chat).
THEOREM MessagesHandledOnce == Spec => []HandledOnce
<1>1. Init => HandledInv
  <2> SUFFICES ASSUME Init PROVE HandledInv
    OBVIOUS
  <2>1. steering = [open |-> FALSE, msgs |-> <<>>] /\ handled = [m \in Msgs |-> 0] /\ sent = {}
    BY DEF Init
  <2>2. HandledType
    <3>1. <<>> \in Seq(Msgs)
      OBVIOUS
    <3> QED BY <2>1, <3>1 DEF HandledType
  <2>3. Once /\ NoneLost /\ Steered
    BY <2>1, NothingIn DEF Once, NoneLost, Steered
  <2>4. Busy
    BY DEF Init, Busy, Marked, HandPcs
  <2> QED BY <2>2, <2>3, <2>4, PlaceInit DEF HandledInv
<1>2. HandledInv /\ [Next]_vars => HandledInv'
  <2> SUFFICES ASSUME HandledInv, [Next]_vars PROVE HandledInv'
    OBVIOUS
  <2>1. PlaceInv /\ HandledType /\ ChatsType
    BY DEF HandledInv, PlaceInv
  <2> QED BY <2>1, PlaceStep, HandledTypeStep, OnceStep, NoneLostStep, SteeredStep, BusyStep
          DEF HandledInv
<1>3. HandledInv => HandledOnce
  <2> SUFFICES ASSUME HandledInv PROVE HandledOnce
    OBVIOUS
  <2>1. "answerLost" \notin odd => \A m \in Msgs : handled[m] <= 1
    BY DEF HandledInv, Once
  <2>2. ASSUME Rest, odd \subseteq {"abandoned", "gap"}, NEW m \in sent \ stopped
        PROVE  handled[m] = 1
    <3>1. m \in Msgs /\ handled[m] \in Nat /\ steering.msgs \in Seq(Msgs)
      BY DEF HandledInv, PlaceInv, SentInv, HandledType
    <3>2. (\A k \in Msgs : ~Active(k)) /\ (\A t \in Tabs : tab[t].pc = "idle")
      BY <2>2 DEF Rest
    <3>3. queue = <<>>
      BY <2>2, <3>2 DEF HandledInv, Busy, SomebodyWorks, Marked
    <3>4. m \notin Range(queue)
      BY <3>3 DEF Range
    <3>5. ~Waiting(m)
      BY <2>2, <3>1, <3>2, <3>4 DEF Waiting, Active, Rest
    <3>6. steering.msgs = <<>>
      BY <2>2 DEF HandledInv, Steered, InLoop, Rest
    <3>7. ~Contains(steering.msgs, m)
      BY <3>6, NothingIn
    <3>8. handled[m] >= 1
      BY <2>2, <3>5, <3>7 DEF HandledInv, NoneLost
    <3> QED BY <2>1, <2>2, <3>1, <3>8
  <2> QED BY <2>1, <2>2 DEF HandledOnce
<1> QED BY <1>1, <1>2, <1>3, PTL DEF Spec

-----------------------------------------------------------------------------
(* Questions: types, and what the gateway has answered.                    *)

AskPcs == {"none", "noUI", "emitting", "waiting", "answered", "expired", "timeout", "cancelled"}
Wired == Tabs \cup Msgs \cup (Msgs \X (Msgs \cup {NoMsg}))

AskType ==
  /\ ask \in [Msgs -> [pc : AskPcs, via : Msgs \cup {NoMsg}, got : Tabs \cup {NoTab}]]
  /\ hub \in [pending : SUBSET Msgs, answer : [Msgs -> Tabs \cup {NoTab}]]
  /\ emitter \in Msgs \cup {NoMsg}
WireType == wire \in Seq(Wired)

\* Dropping what a request waited for leaves the other answers there.
LEMMA WithoutFacts ==
  ASSUME NEW S, NEW s \in Seq(S), NEW t
  PROVE  /\ Without(s, t) \in Seq(S)
         /\ \A x : Contains(Without(s, t), x) => Contains(s, x)
         /\ \A x : x # t /\ Contains(s, x) => Contains(Without(s, t), x)
<1>0. DOMAIN s = 1..Len(s) /\ Len(s) \in Nat /\ s \in [1..Len(s) -> S]
  OBVIOUS
<1>1. CASE ~\E i \in DOMAIN s : s[i] = t
  <2>1. Without(s, t) = s
    BY <1>1 DEF Without
  <2> QED BY <2>1
<1>2. CASE \E i \in DOMAIN s : s[i] = t
  <2> DEFINE k == CHOOSE i \in DOMAIN s : s[i] = t
             w == [j \in 1..(Len(s) - 1) |-> IF j < k THEN s[j] ELSE s[j + 1]]
  <2>1. k \in 1..Len(s) /\ s[k] = t
    BY <1>0, <1>2
  <2>2. Without(s, t) = w
    BY <1>2 DEF Without
  <2> HIDE DEF k
  <2>3. Len(s) - 1 \in Nat
    BY <1>0, <2>1
  <2>4. \A j \in 1..(Len(s) - 1) : w[j] \in S
    BY <1>0, <2>1
  <2>5. w \in Seq(S) /\ Len(w) = Len(s) - 1 /\ DOMAIN w = 1..(Len(s) - 1)
    BY <2>3, <2>4
  <2>6. ASSUME NEW x, Contains(w, x)
        PROVE  Contains(s, x)
    <3>1. PICK j \in 1..(Len(s) - 1) : w[j] = x
      BY <2>5, <2>6 DEF Contains
    <3>2. j \in 1..Len(s) /\ j + 1 \in 1..Len(s) /\ (s[j] = x \/ s[j + 1] = x)
      BY <1>0, <2>1, <3>1
    <3> QED BY <3>2 DEF Contains
  <2>7. ASSUME NEW x, x # t, Contains(s, x)
        PROVE  Contains(w, x)
    <3>1. PICK i \in 1..Len(s) : s[i] = x
      BY <2>7 DEF Contains
    <3>2. i # k
      BY <2>1, <2>7, <3>1
    <3>3. CASE i < k
      <4>1. i \in 1..(Len(s) - 1) /\ w[i] = x
        BY <1>0, <2>1, <3>1, <3>3
      <4> QED BY <2>5, <4>1 DEF Contains
    <3>4. CASE i > k
      <4>1. i - 1 \in 1..(Len(s) - 1) /\ w[i - 1] = x
        BY <1>0, <2>1, <3>1, <3>4
      <4> QED BY <2>5, <4>1 DEF Contains
    <3> QED BY <1>0, <2>1, <3>1, <3>2, <3>3, <3>4
  <2> QED BY <2>2, <2>5, <2>6, <2>7
<1> QED BY <1>1, <1>2

\* What may become of what the gateway has answered.
LEMMA WireSteps ==
  ASSUME [Next]_vars
  PROVE  \/ UNCHANGED wire
         \/ \E t \in Tabs : wire' = Append(wire, t) \/ Arrives(t) \/ wire' = Without(wire, t)
         \/ \E m \in Msgs : Arrives(m)
         \/ \E m \in Msgs : ChatEnds(m) /\ wire' = Append(wire, m)
         \/ \E m \in Msgs : Emitted(m) /\ wire' = Append(wire, <<m, ask[m].via>>)
         \/ \E m \in Msgs : QuestionHeard(m) /\ Arrives(<<m, ask[m].via>>)
         \/ GatewayRestarts /\ wire' = <<>>
<1> DEFINE Goal ==
         \/ UNCHANGED wire
         \/ \E t \in Tabs : wire' = Append(wire, t) \/ Arrives(t) \/ wire' = Without(wire, t)
         \/ \E m \in Msgs : Arrives(m)
         \/ \E m \in Msgs : ChatEnds(m) /\ wire' = Append(wire, m)
         \/ \E m \in Msgs : Emitted(m) /\ wire' = Append(wire, <<m, ask[m].via>>)
         \/ \E m \in Msgs : QuestionHeard(m) /\ Arrives(<<m, ask[m].via>>)
         \/ GatewayRestarts /\ wire' = <<>>
<1>1. ASSUME NEW t \in Tabs,
             (\E m \in Msgs : Sends(t, m) \/ Replies(t, m)) \/ MakesJob(t) \/ Stop(t)
      PROVE  Goal
  BY <1>1 DEF Sends, Replies, MakesJob, Stop, gateway
<1>2. ASSUME NEW t \in Tabs,
             Injects(t) \/ AnswerLost(t) \/ Acknowledges(t) \/ Queues(t) \/ Resolves(t) \/ IsTold(t)
      PROVE  Goal
  BY <1>2 DEF Injects, AnswerLost, Acknowledges, Queues, Resolves, IsTold
<1>3. ASSUME NEW m \in Msgs, JobStarts(m) \/ JobNeverStarts(m) \/ JobHears(m) \/ JobEnds(m)
      PROVE  Goal
  BY <1>3 DEF JobStarts, JobNeverStarts, JobHears, JobEnds, gateway
<1>4. ASSUME NEW m \in Msgs,
              \/ ChatBegins(m) \/ TurnBegins(m) \/ LoopBegins(m) \/ TakesSteering(m) \/ LoopEnds(m)
              \/ LoopBreaks(m) \/ TurnFails(m) \/ ChatCancelled(m) \/ TurnEnds(m)
      PROVE  Goal
  BY <1>4 DEF ChatBegins, TurnBegins, LoopBegins, TakesSteering, LoopEnds, LoopBreaks, TurnFails,
              ChatCancelled, TurnEnds
<1>5. ASSUME NEW m \in Msgs, ChatEnds(m)
      PROVE  Goal
  <2>1. wire' = Append(wire, m)
    BY <1>5 DEF ChatEnds
  <2> QED BY <1>5, <2>1
<1>6. ASSUME NEW m \in Msgs, Asks(m) \/ AnswerHeard(m) \/ Expires(m) \/ TimedOut(m)
      PROVE  Goal
  BY <1>6 DEF Asks, AnswerHeard, Expires, TimedOut, gateway
<1>7. ASSUME NEW m \in Msgs, Emitted(m)
      PROVE  Goal
  <2>1. wire' = Append(wire, <<m, ask[m].via>>)
    BY <1>7 DEF Emitted
  <2> QED BY <1>7, <2>1
<1>8. ASSUME NEW m \in Msgs, QuestionHeard(m)
      PROVE  Goal
  <2>1. Arrives(<<m, ask[m].via>>)
    BY <1>8 DEF QuestionHeard
  <2> QED BY <1>8, <2>1
<1>9. ASSUME GatewayRestarts
      PROVE  Goal
  <2>1. wire' = <<>>
    BY <1>9 DEF GatewayRestarts
  <2> QED BY <1>9, <2>1
<1>10. ASSUME UNCHANGED vars
       PROVE  Goal
  BY <1>10 DEF vars, gateway
<1> HIDE DEF Goal
<1>11. Goal
  BY <1>1, <1>2, <1>3, <1>4, <1>5, <1>6, <1>7, <1>8, <1>9, <1>10 DEF Next
<1> QED BY <1>11 DEF Goal

\* Every step: what is answered is a tab's, a chat's or a question; what comes to
\* be there is so by its own step, and a question is there till it is heard.
LEMMA WireStep ==
  ASSUME WireType, AskType, [Next]_vars
  PROVE  /\ WireType'
         /\ \A m \in Msgs : Contains(wire', m) => Contains(wire, m) \/ ChatEnds(m)
         /\ \A x \in Msgs \X (Msgs \cup {NoMsg}) :
              Contains(wire, x) => \/ Contains(wire', x)
                                   \/ GatewayRestarts
                                   \/ \E m \in Msgs : QuestionHeard(m) /\ x = <<m, ask[m].via>>
<1> DEFINE Questions == Msgs \X (Msgs \cup {NoMsg})
<1> DEFINE Comes == \A m \in Msgs : Contains(wire', m) => Contains(wire, m) \/ ChatEnds(m)
           Stays == \A x \in Questions :
              Contains(wire, x) => \/ Contains(wire', x)
                                   \/ GatewayRestarts
                                   \/ \E m \in Msgs : QuestionHeard(m) /\ x = <<m, ask[m].via>>
<1> DEFINE Goal == WireType' /\ Comes /\ Stays
<1>0. /\ Tabs \cap Msgs = {} /\ Tabs \cap Questions = {} /\ Msgs \cap Questions = {}
      /\ Tabs \subseteq Wired /\ Msgs \subseteq Wired /\ Questions \subseteq Wired
  BY WireAssumption DEF Wired
<1>1. \A m \in Msgs : <<m, ask[m].via>> \in Questions
  BY DEF AskType
<1> HIDE DEF Questions
<1>2. wire \in Seq(Wired)
  BY DEF WireType
<1>3. ASSUME NEW a \in Wired, wire' = Append(wire, a)
      PROVE  WireType' /\ \A x : Contains(wire', x) <=> Contains(wire, x) \/ x = a
  <2>1. wire' \in Seq(Wired)
    BY <1>2, <1>3
  <2>2. \A x : Contains(Append(wire, a), x) <=> Contains(wire, x) \/ x = a
    BY <1>2, ContainsFacts
  <2> QED BY <1>3, <2>1, <2>2 DEF WireType
<1>4. ASSUME NEW a, Arrives(a)
      PROVE  /\ WireType' /\ \A x : Contains(wire', x) => Contains(wire, x)
             /\ \A x : Contains(wire, x) => x = a \/ Contains(wire', x)
  <2>1. wire # <<>> /\ Head(wire) = a /\ wire' = Tail(wire)
    BY <1>4 DEF Arrives
  <2>2. wire' \in Seq(Wired) /\ a \in Wired
    BY <1>2, <2>1
  <2>3. /\ \A x : Contains(Tail(wire), x) => Contains(wire, x)
        /\ \A x : Contains(wire, x) => x = Head(wire) \/ Contains(Tail(wire), x)
    BY <1>2, <2>1, <2>2, ContainsFacts
  <2> QED BY <2>1, <2>2, <2>3 DEF WireType
<1>5. ASSUME NEW t \in Tabs, wire' = Append(wire, t) \/ Arrives(t) \/ wire' = Without(wire, t)
      PROVE  Goal
  <2>1. CASE wire' = Append(wire, t)
    BY <1>0, <1>3, <1>5, <2>1
  <2>2. CASE Arrives(t)
    BY <1>0, <1>4, <1>5, <2>2
  <2>3. CASE wire' = Without(wire, t)
    <3>1. /\ Without(wire, t) \in Seq(Wired)
          /\ \A x : Contains(Without(wire, t), x) => Contains(wire, x)
          /\ \A x : x # t /\ Contains(wire, x) => Contains(Without(wire, t), x)
      BY <1>2, WithoutFacts
    <3> QED BY <1>0, <1>5, <2>3, <3>1 DEF WireType
  <2> QED BY <1>5, <2>1, <2>2, <2>3
<1>6. ASSUME NEW m \in Msgs, Arrives(m)
      PROVE  Goal
  BY <1>0, <1>4, <1>6
<1>7. ASSUME NEW m \in Msgs, ChatEnds(m) /\ wire' = Append(wire, m)
      PROVE  Goal
  BY <1>0, <1>3, <1>7
<1>8. ASSUME NEW m \in Msgs, Emitted(m) /\ wire' = Append(wire, <<m, ask[m].via>>)
      PROVE  Goal
  BY <1>0, <1>1, <1>3, <1>8
<1>9. ASSUME NEW m \in Msgs, QuestionHeard(m) /\ Arrives(<<m, ask[m].via>>)
      PROVE  Goal
  BY <1>4, <1>9
<1>10. ASSUME GatewayRestarts /\ wire' = <<>>
       PROVE  Goal
  <2>1. <<>> \in Seq(Wired)
    OBVIOUS
  <2> QED BY <1>10, <2>1, NothingIn DEF WireType
<1>11. ASSUME UNCHANGED wire
       PROVE  Goal
  BY <1>2, <1>11 DEF WireType
<1> HIDE DEF Goal
<1>12. Goal
  BY WireSteps, <1>5, <1>6, <1>7, <1>8, <1>9, <1>10, <1>11
<1> QED BY <1>12 DEF Goal, Questions

\* Every step but the questions' own leaves them alone.
LEMMA SameAsks ==
  ASSUME [Next]_vars
  PROVE  \/ UNCHANGED <<ask, hub>>
         \/ \E m \in Msgs : Asks(m) \/ Emitted(m) \/ AnswerHeard(m) \/ Expires(m) \/ TimedOut(m)
                            \/ ChatCancelled(m)
         \/ \E t \in Tabs : Resolves(t)
         \/ GatewayRestarts
<1> DEFINE Goal ==
         \/ UNCHANGED <<ask, hub>>
         \/ \E m \in Msgs : Asks(m) \/ Emitted(m) \/ AnswerHeard(m) \/ Expires(m) \/ TimedOut(m)
                            \/ ChatCancelled(m)
         \/ \E t \in Tabs : Resolves(t)
         \/ GatewayRestarts
<1>1. ASSUME NEW t \in Tabs,
             \/ \E m \in Msgs : Sends(t, m) \/ Replies(t, m)
             \/ MakesJob(t) \/ Injects(t) \/ AnswerLost(t) \/ Acknowledges(t) \/ Queues(t) \/ Stop(t)
             \/ IsTold(t)
      PROVE  UNCHANGED <<ask, hub>>
  BY <1>1 DEF Sends, Replies, MakesJob, Injects, AnswerLost, Acknowledges, Queues, Stop, IsTold, asks
<1>2. ASSUME NEW m \in Msgs,
             JobStarts(m) \/ JobNeverStarts(m) \/ JobHears(m) \/ JobEnds(m) \/ QuestionHeard(m)
      PROVE  UNCHANGED <<ask, hub>>
  BY <1>2 DEF JobStarts, JobNeverStarts, JobHears, JobEnds, QuestionHeard, asks
<1>3. ASSUME NEW m \in Msgs,
              \/ ChatBegins(m) \/ TurnBegins(m) \/ LoopBegins(m) \/ TakesSteering(m) \/ LoopEnds(m)
              \/ LoopBreaks(m) \/ TurnFails(m) \/ TurnEnds(m) \/ ChatEnds(m)
      PROVE  UNCHANGED <<ask, hub>>
  BY <1>3 DEF ChatBegins, TurnBegins, LoopBegins, TakesSteering, LoopEnds, LoopBreaks, TurnFails,
              TurnEnds, ChatEnds, asks
<1>4. ASSUME UNCHANGED vars
      PROVE  UNCHANGED <<ask, hub>>
  BY <1>4 DEF vars, asks
<1>5. ASSUME UNCHANGED <<ask, hub>>
      PROVE  Goal
  BY <1>5
<1>6. ASSUME NEW m \in Msgs, Asks(m) \/ Emitted(m) \/ AnswerHeard(m) \/ Expires(m) \/ TimedOut(m)
                             \/ ChatCancelled(m)
      PROVE  Goal
  BY <1>6
<1>7. ASSUME NEW t \in Tabs, Resolves(t)
      PROVE  Goal
  BY <1>7
<1>8. ASSUME GatewayRestarts
      PROVE  Goal
  BY <1>8
<1> HIDE DEF Goal
<1>9. Goal
  BY <1>1, <1>2, <1>3, <1>4, <1>5, <1>6, <1>7, <1>8 DEF Next
<1> QED BY <1>9 DEF Goal

\* Every step: types.
LEMMA AskTypeStep ==
  ASSUME AskType, TabType, [Next]_vars
  PROVE  AskType'
<1>1. emitter' \in Msgs \cup {NoMsg}
  <2>1. ASSUME NEW t \in Tabs,
               \/ \E m \in Msgs : Sends(t, m) \/ Replies(t, m)
               \/ MakesJob(t) \/ Injects(t) \/ AnswerLost(t) \/ Acknowledges(t) \/ Queues(t) \/ Stop(t)
               \/ Resolves(t) \/ IsTold(t)
        PROVE  UNCHANGED emitter
    BY <2>1 DEF Sends, Replies, MakesJob, Injects, AnswerLost, Acknowledges, Queues, Stop, Resolves,
                IsTold, gateway
  <2>2. ASSUME NEW m \in Msgs,
               JobStarts(m) \/ JobNeverStarts(m) \/ JobHears(m) \/ JobEnds(m) \/ QuestionHeard(m)
               \/ Asks(m) \/ Emitted(m) \/ AnswerHeard(m) \/ Expires(m) \/ TimedOut(m)
        PROVE  UNCHANGED emitter
    BY <2>2 DEF JobStarts, JobNeverStarts, JobHears, JobEnds, QuestionHeard, Asks, Emitted,
                AnswerHeard, Expires, TimedOut, gateway
  <2>3. ASSUME NEW m \in Msgs,
               \/ ChatBegins(m) \/ TurnBegins(m) \/ LoopBegins(m) \/ TakesSteering(m) \/ LoopEnds(m)
               \/ LoopBreaks(m) \/ TurnFails(m) \/ ChatCancelled(m) \/ TurnEnds(m) \/ ChatEnds(m)
        PROVE  emitter' \in {emitter, m, NoMsg}
    BY <2>3 DEF ChatBegins, TurnBegins, LoopBegins, TakesSteering, LoopEnds, LoopBreaks, TurnFails,
                ChatCancelled, TurnEnds, ChatEnds
  <2>4. GatewayRestarts => emitter' = NoMsg
    BY DEF GatewayRestarts
  <2>5. UNCHANGED vars => UNCHANGED emitter
    BY DEF vars, gateway
  <2>6. emitter \in Msgs \cup {NoMsg}
    BY DEF AskType
  <2> QED BY <2>1, <2>2, <2>3, <2>4, <2>5, <2>6 DEF Next
<1>2. ASSUME NEW m \in Msgs, Asks(m) \/ Emitted(m) \/ AnswerHeard(m) \/ Expires(m) \/ TimedOut(m)
                             \/ ChatCancelled(m)
      PROVE  AskType'
  <2>1. CASE Asks(m)
    <3>1. emitter \in Msgs \cup {NoMsg}
      BY DEF AskType
    <3>2. CASE emitter = NoMsg
      <4>1. ask' = [ask EXCEPT ![m] = [@ EXCEPT !.pc = "noUI"]] /\ UNCHANGED hub
        BY <2>1, <3>2 DEF Asks
      <4> QED BY <1>1, <4>1 DEF AskType, AskPcs
    <3>3. CASE emitter # NoMsg
      <4>1. /\ ask' = [ask EXCEPT ![m] = [@ EXCEPT !.pc = "emitting", !.via = emitter]]
            /\ hub' = [hub EXCEPT !.pending = @ \cup {m}]
        BY <2>1, <3>3 DEF Asks
      <4> QED BY <1>1, <3>1, <4>1 DEF AskType, AskPcs
    <3> QED BY <3>2, <3>3
  <2>2. CASE Emitted(m) \/ Expires(m)
    BY <1>1, <2>2 DEF Emitted, Expires, AskType, AskPcs
  <2>3. CASE AnswerHeard(m)
    BY <1>1, <2>3 DEF AnswerHeard, AskType, AskPcs, Forgotten
  <2>4. CASE TimedOut(m)
    BY <1>1, <2>4 DEF TimedOut, AskType, AskPcs, Forgotten
  <2>5. CASE ChatCancelled(m)
    BY <1>1, <2>5 DEF ChatCancelled, AskType, AskPcs, Forgotten
  <2> QED BY <1>2, <2>1, <2>2, <2>3, <2>4, <2>5
<1>3. ASSUME NEW t \in Tabs, Resolves(t)
      PROVE  AskType'
  <2>1. tab[t].msg \in Msgs
    BY <1>3 DEF Resolves, TabType
  <2>2. hub' \in {hub, [hub EXCEPT !.answer[tab[t].msg] = t]} /\ UNCHANGED ask
    BY <1>3 DEF Resolves
  <2> QED BY <1>1, <2>1, <2>2 DEF AskType
<1>4. ASSUME GatewayRestarts
      PROVE  AskType'
  <2>1. hub' = [pending |-> {}, answer |-> [m \in Msgs |-> NoTab]]
    BY <1>4 DEF GatewayRestarts
  <2>2. ask' = [m \in Msgs |-> IF Asking(m) THEN [ask[m] EXCEPT !.pc = "cancelled"] ELSE ask[m]]
    BY <1>4 DEF GatewayRestarts
  <2> QED BY <1>1, <2>1, <2>2 DEF AskType, AskPcs
<1>5. ASSUME UNCHANGED <<ask, hub>>
      PROVE  AskType'
  BY <1>1, <1>5 DEF AskType
<1> QED BY SameAsks, <1>2, <1>3, <1>4, <1>5

\* What may become of a question.
LEMMA AskSteps ==
  ASSUME AskType, [Next]_vars, NEW m \in Msgs
  PROVE  \/ ask'[m] = ask[m]
         \/ Asks(m) /\ emitter = NoMsg /\ ask'[m] = [ask[m] EXCEPT !.pc = "noUI"]
         \/ Asks(m) /\ emitter # NoMsg /\ ask'[m] = [ask[m] EXCEPT !.pc = "emitting", !.via = emitter]
         \/ Emitted(m) /\ ask'[m] = [ask[m] EXCEPT !.pc = "waiting"]
         \/ AnswerHeard(m) /\ ask'[m] = [ask[m] EXCEPT !.pc = "answered", !.got = hub.answer[m]]
         \/ Expires(m) /\ ask'[m] = [ask[m] EXCEPT !.pc = "expired"]
         \/ TimedOut(m) /\ ask'[m] = [ask[m] EXCEPT !.pc = "timeout"]
         \/ /\ ChatCancelled(m) \/ GatewayRestarts
            /\ Asking(m) /\ ask'[m] = [ask[m] EXCEPT !.pc = "cancelled"]
<1> DEFINE Goal ==
         \/ ask'[m] = ask[m]
         \/ Asks(m) /\ emitter = NoMsg /\ ask'[m] = [ask[m] EXCEPT !.pc = "noUI"]
         \/ Asks(m) /\ emitter # NoMsg /\ ask'[m] = [ask[m] EXCEPT !.pc = "emitting", !.via = emitter]
         \/ Emitted(m) /\ ask'[m] = [ask[m] EXCEPT !.pc = "waiting"]
         \/ AnswerHeard(m) /\ ask'[m] = [ask[m] EXCEPT !.pc = "answered", !.got = hub.answer[m]]
         \/ Expires(m) /\ ask'[m] = [ask[m] EXCEPT !.pc = "expired"]
         \/ TimedOut(m) /\ ask'[m] = [ask[m] EXCEPT !.pc = "timeout"]
         \/ /\ ChatCancelled(m) \/ GatewayRestarts
            /\ Asking(m) /\ ask'[m] = [ask[m] EXCEPT !.pc = "cancelled"]
<1>0. DOMAIN ask = Msgs
  BY DEF AskType
<1>1. ASSUME NEW n \in Msgs, Asks(n)
      PROVE  Goal
  <2>1. CASE emitter = NoMsg
    <3>1. ask' = [ask EXCEPT ![n] = [@ EXCEPT !.pc = "noUI"]]
      BY <1>1, <2>1 DEF Asks
    <3> QED BY <1>0, <1>1, <2>1, <3>1
  <2>2. CASE emitter # NoMsg
    <3>1. ask' = [ask EXCEPT ![n] = [@ EXCEPT !.pc = "emitting", !.via = emitter]]
      BY <1>1, <2>2 DEF Asks
    <3> QED BY <1>0, <1>1, <2>2, <3>1
  <2> QED BY <2>1, <2>2
<1>2. ASSUME NEW n \in Msgs, Emitted(n)
      PROVE  Goal
  <2>1. ask' = [ask EXCEPT ![n].pc = "waiting"]
    BY <1>2 DEF Emitted
  <2> QED BY <1>0, <1>2, <2>1
<1>3. ASSUME NEW n \in Msgs, AnswerHeard(n)
      PROVE  Goal
  <2>1. ask' = [ask EXCEPT ![n] = [@ EXCEPT !.pc = "answered", !.got = hub.answer[n]]]
    BY <1>3 DEF AnswerHeard
  <2> QED BY <1>0, <1>3, <2>1
<1>4. ASSUME NEW n \in Msgs, Expires(n)
      PROVE  Goal
  <2>1. ask' = [ask EXCEPT ![n].pc = "expired"]
    BY <1>4 DEF Expires
  <2> QED BY <1>0, <1>4, <2>1
<1>5. ASSUME NEW n \in Msgs, TimedOut(n)
      PROVE  Goal
  <2>1. ask' = [ask EXCEPT ![n].pc = "timeout"]
    BY <1>5 DEF TimedOut
  <2> QED BY <1>0, <1>5, <2>1
<1>6. ASSUME NEW n \in Msgs, ChatCancelled(n)
      PROVE  Goal
  <2>1. ask' = IF Asking(n) THEN [ask EXCEPT ![n].pc = "cancelled"] ELSE ask
    BY <1>6 DEF ChatCancelled
  <2> QED BY <1>0, <1>6, <2>1
<1>7. ASSUME NEW t \in Tabs, Resolves(t)
      PROVE  Goal
  BY <1>7 DEF Resolves
<1>8. ASSUME GatewayRestarts
      PROVE  Goal
  <2>1. ask'[m] = IF Asking(m) THEN [ask[m] EXCEPT !.pc = "cancelled"] ELSE ask[m]
    BY <1>8 DEF GatewayRestarts
  <2> QED BY <1>8, <2>1
<1>9. ASSUME UNCHANGED <<ask, hub>>
      PROVE  Goal
  BY <1>9
<1> HIDE DEF Goal
<1>10. Goal
  BY SameAsks, <1>1, <1>2, <1>3, <1>4, <1>5, <1>6, <1>7, <1>8, <1>9
<1> QED BY <1>10 DEF Goal

-----------------------------------------------------------------------------
(* The question of a turn is its chat's, and gets to the tabs.             *)

\* A chat that has answered is over.
Answered ==
  \A m \in Msgs : Contains(wire, m) \/ job[m].pc = "answered" => chat[m] \in {"done", "lost"}

\* A question is a looping turn's ...
AskLoop == \A m \in Msgs : Asking(m) => chat[m] = "looping"

\* ... and goes by the chat it is asked in.
ViaOwn ==
  odd \cap {"abandoned", "gap"} = {} => \A m \in Msgs : Asking(m) => ask[m].via = m

SeenInv == OneChatInv /\ PlaceInv /\ WireType /\ AskType /\ Answered /\ AskLoop /\ ViaOwn /\ QuestionSeen

\* A chat that is over stays so.
LEMMA ChatStaysOver ==
  ASSUME PlaceInv, [Next]_vars, NEW m \in Msgs, chat[m] \in {"done", "lost"}
  PROVE  chat'[m] \in {"done", "lost"}
<1>0. ChatType /\ InJob
  BY DEF PlaceInv, ChatsType, OnePlace
<1>1. ASSUME NEW t \in Tabs,
             \/ \E n \in Msgs : Sends(t, n) \/ Replies(t, n)
             \/ MakesJob(t) \/ Injects(t) \/ AnswerLost(t) \/ Acknowledges(t) \/ Queues(t) \/ Stop(t)
             \/ Resolves(t) \/ IsTold(t)
      PROVE  UNCHANGED chat
  BY <1>1 DEF Sends, Replies, MakesJob, Injects, AnswerLost, Acknowledges, Queues, Stop, Resolves,
              IsTold, gateway
<1>2. ASSUME NEW n \in Msgs,
             JobNeverStarts(n) \/ JobHears(n) \/ JobEnds(n) \/ QuestionHeard(n)
             \/ Asks(n) \/ Emitted(n) \/ AnswerHeard(n) \/ Expires(n) \/ TimedOut(n)
      PROVE  UNCHANGED chat
  BY <1>2 DEF JobNeverStarts, JobHears, JobEnds, QuestionHeard, Asks, Emitted,
              AnswerHeard, Expires, TimedOut, gateway
<1>3. ASSUME NEW n \in Msgs, JobStarts(n)
      PROVE  chat'[m] = chat[m]
  <2>1. chat[n] = "none" /\ chat' = [chat EXCEPT ![n] = "sent"]
    BY <1>0, <1>3 DEF JobStarts, InJob
  <2> QED BY <1>0, <2>1 DEF ChatType
<1>4. ASSUME NEW n \in Msgs,
              \/ ChatBegins(n) \/ TurnBegins(n) \/ LoopBegins(n) \/ TakesSteering(n) \/ LoopEnds(n)
              \/ LoopBreaks(n) \/ TurnFails(n) \/ ChatCancelled(n) \/ TurnEnds(n) \/ ChatEnds(n)
      PROVE  chat'[m] = chat[m]
  <2>1. TakesSteering(n) => UNCHANGED chat
    BY DEF TakesSteering
  <2>2. ~TakesSteering(n) =>
          chat[n] \notin {"done", "lost"} /\ \E p \in ChatPcs : chat' = [chat EXCEPT ![n] = p]
    BY <1>4 DEF ChatBegins, TurnBegins, LoopBegins, LoopEnds, LoopBreaks, TurnFails, ChatCancelled,
                TurnEnds, ChatEnds, Thinks, ChatPcs
  <2> QED BY <1>0, <2>1, <2>2 DEF ChatType
<1>5. GatewayRestarts => chat'[m] \in {"done", "lost"}
  BY <1>0 DEF GatewayRestarts, ChatType
<1>6. UNCHANGED vars => UNCHANGED chat
  BY DEF vars, gateway
<1> QED BY <1>1, <1>2, <1>3, <1>4, <1>5, <1>6 DEF Next

\* A job has its answer from the gateway.
LEMMA JobAnswers ==
  ASSUME ChatsType, WireType, [Next]_vars, NEW m \in Msgs, job'[m].pc = "answered"
  PROVE  job[m].pc = "answered" \/ Contains(wire, m)
<1>0. JobType /\ TabType
  BY DEF ChatsType
<1>1. ASSUME NEW t \in Tabs,
             \/ \E n \in Msgs : Sends(t, n) \/ Replies(t, n)
             \/ Injects(t) \/ AnswerLost(t) \/ Acknowledges(t) \/ Queues(t)
             \/ Resolves(t) \/ IsTold(t)
      PROVE  UNCHANGED job
  BY <1>1 DEF Sends, Replies, Injects, AnswerLost, Acknowledges, Queues, Resolves, IsTold, webui
<1>2. ASSUME NEW t \in Tabs, MakesJob(t)
      PROVE  job[m].pc = "answered"
  BY <1>0, <1>2 DEF MakesJob, JobType
<1>3. ASSUME NEW t \in Tabs, Stop(t)
      PROVE  job[m].pc = "answered"
  BY <1>0, <1>3 DEF Stop, JobType
<1>4. ASSUME NEW n \in Msgs, JobStarts(n) \/ JobNeverStarts(n)
      PROVE  job[m].pc = "answered"
  BY <1>0, <1>4 DEF JobStarts, JobNeverStarts, JobType
<1>5. ASSUME NEW n \in Msgs, JobHears(n)
      PROVE  job[m].pc = "answered" \/ Contains(wire, m)
  <2>1. Arrives(n) /\ job' \in {job, [job EXCEPT ![n].pc = "answered"]}
    BY <1>5 DEF JobHears
  <2>2. CASE m = n
    <3>1. wire # <<>> /\ Head(wire) = m
      BY <2>1, <2>2 DEF Arrives
    <3>2. wire \in Seq(Wired) /\ m \in Wired
      BY DEF WireType, Wired
    <3>3. Contains(wire, Head(wire))
      BY <3>1, <3>2, ContainsFacts
    <3> QED BY <3>1, <3>3
  <2>3. CASE m # n
    <3>1. job'[m] = job[m]
      BY <1>0, <2>1, <2>3 DEF JobType
    <3> QED BY <3>1
  <2> QED BY <2>2, <2>3
<1>6. ASSUME NEW n \in Msgs, JobEnds(n)
      PROVE  job[m].pc = "answered"
  <2>1. Finally(n)
    BY <1>6 DEF JobEnds
  <2>2. job' \in {[job EXCEPT ![n].pc = "ended"], [job EXCEPT ![n].pc = "ended", ![Head(queue)].pc = "created"]}
    BY <2>1 DEF Finally
  <2>3. CASE job' = [job EXCEPT ![n].pc = "ended"]
    BY <1>0, <2>3 DEF JobType
  <2>4. CASE job' = [job EXCEPT ![n].pc = "ended", ![Head(queue)].pc = "created"]
    BY <1>0, <2>4 DEF JobType
  <2> QED BY <2>2, <2>3, <2>4
<1>7. ASSUME NEW n \in Msgs,
              \/ ChatBegins(n) \/ TurnBegins(n) \/ LoopBegins(n) \/ TakesSteering(n) \/ LoopEnds(n)
              \/ LoopBreaks(n) \/ TurnFails(n) \/ ChatCancelled(n) \/ TurnEnds(n) \/ ChatEnds(n)
      PROVE  UNCHANGED job
  BY <1>7 DEF ChatBegins, TurnBegins, LoopBegins, TakesSteering, LoopEnds, LoopBreaks, TurnFails,
              ChatCancelled, TurnEnds, ChatEnds, webui
<1>8. ASSUME NEW n \in Msgs,
             QuestionHeard(n) \/ Asks(n) \/ Emitted(n) \/ AnswerHeard(n) \/ Expires(n) \/ TimedOut(n)
      PROVE  UNCHANGED job
  BY <1>8 DEF QuestionHeard, Asks, Emitted, AnswerHeard, Expires, TimedOut, webui
<1>9. GatewayRestarts => UNCHANGED job
  BY DEF GatewayRestarts, webui
<1>10. UNCHANGED vars => UNCHANGED job
  BY DEF vars, webui
<1> QED BY <1>1, <1>2, <1>3, <1>4, <1>5, <1>6, <1>7, <1>8, <1>9, <1>10 DEF Next

\* Every step: who has answered is over.
LEMMA AnsweredStep ==
  ASSUME PlaceInv, WireType, AskType, Answered, [Next]_vars
  PROVE  Answered'
<1> SUFFICES ASSUME NEW m \in Msgs, Contains(wire, m)' \/ job'[m].pc = "answered"
             PROVE  chat'[m] \in {"done", "lost"}
  BY DEF Answered
<1>0. ChatsType /\ ChatType
  BY DEF PlaceInv, ChatsType
<1>1. job'[m].pc = "answered" => job[m].pc = "answered" \/ Contains(wire, m)
  BY <1>0, JobAnswers
<1>2. Contains(wire', m) => Contains(wire, m) \/ ChatEnds(m)
  BY WireStep
<1>3. CASE ChatEnds(m)
  BY <1>0, <1>3 DEF ChatEnds, ChatType
<1>4. CASE Contains(wire, m) \/ job[m].pc = "answered"
  <2>1. chat[m] \in {"done", "lost"}
    BY <1>4 DEF Answered
  <2> QED BY <2>1, ChatStaysOver
<1> QED BY <1>1, <1>2, <1>3, <1>4

\* A turn that goes on asking goes on looping.
LEMMA LoopGoesOn ==
  ASSUME PlaceInv, AskType, [Next]_vars, NEW m \in Msgs, chat[m] = "looping",
         Asking(m), Asking(m)'
  PROVE  chat'[m] = "looping"
<1>0. ChatType /\ InJob
  BY DEF PlaceInv, ChatsType, OnePlace
<1>1. ASSUME NEW t \in Tabs,
             \/ \E n \in Msgs : Sends(t, n) \/ Replies(t, n)
             \/ MakesJob(t) \/ Injects(t) \/ AnswerLost(t) \/ Acknowledges(t) \/ Queues(t) \/ Stop(t)
             \/ Resolves(t) \/ IsTold(t)
      PROVE  UNCHANGED chat
  BY <1>1 DEF Sends, Replies, MakesJob, Injects, AnswerLost, Acknowledges, Queues, Stop, Resolves,
              IsTold, gateway
<1>2. ASSUME NEW n \in Msgs,
             JobNeverStarts(n) \/ JobHears(n) \/ JobEnds(n) \/ QuestionHeard(n)
             \/ Asks(n) \/ Emitted(n) \/ AnswerHeard(n) \/ Expires(n) \/ TimedOut(n)
      PROVE  UNCHANGED chat
  BY <1>2 DEF JobNeverStarts, JobHears, JobEnds, QuestionHeard, Asks, Emitted,
              AnswerHeard, Expires, TimedOut, gateway
<1>3. ASSUME NEW n \in Msgs, JobStarts(n)
      PROVE  chat'[m] = chat[m]
  <2>1. chat[n] = "none" /\ chat' = [chat EXCEPT ![n] = "sent"]
    BY <1>0, <1>3 DEF JobStarts, InJob
  <2> QED BY <1>0, <2>1 DEF ChatType
<1>4. ASSUME NEW n \in Msgs, n # m,
              \/ ChatBegins(n) \/ TurnBegins(n) \/ LoopBegins(n) \/ TakesSteering(n) \/ LoopEnds(n)
              \/ LoopBreaks(n) \/ TurnFails(n) \/ ChatCancelled(n) \/ TurnEnds(n) \/ ChatEnds(n)
      PROVE  chat'[m] = chat[m]
  <2>1. UNCHANGED chat \/ \E p \in ChatPcs : chat' = [chat EXCEPT ![n] = p]
    BY <1>4 DEF ChatBegins, TurnBegins, LoopBegins, TakesSteering, LoopEnds, LoopBreaks, TurnFails,
                ChatCancelled, TurnEnds, ChatEnds, ChatPcs
  <2> QED BY <1>0, <1>4, <2>1 DEF ChatType
<1>5. /\ ~ChatBegins(m) /\ ~TurnBegins(m) /\ ~LoopBegins(m) /\ ~TakesSteering(m) /\ ~LoopEnds(m)
      /\ ~LoopBreaks(m) /\ ~TurnFails(m) /\ ~TurnEnds(m) /\ ~ChatEnds(m)
  BY DEF ChatBegins, TurnBegins, LoopBegins, TakesSteering, LoopEnds, LoopBreaks, TurnFails,
         TurnEnds, ChatEnds, Thinks
<1>6. ~ChatCancelled(m)
  <2> SUFFICES ASSUME ChatCancelled(m) PROVE FALSE
    OBVIOUS
  <2>1. ask' = [ask EXCEPT ![m].pc = "cancelled"]
    BY DEF ChatCancelled
  <2>2. ask'[m].pc = "cancelled"
    BY <2>1 DEF AskType
  <2> QED BY <2>2 DEF Asking
<1>7. ~GatewayRestarts
  <2> SUFFICES ASSUME GatewayRestarts PROVE FALSE
    OBVIOUS
  <2>1. ask'[m] = [ask[m] EXCEPT !.pc = "cancelled"]
    BY DEF GatewayRestarts
  <2>2. ask'[m].pc = "cancelled"
    BY <2>1 DEF AskType
  <2> QED BY <2>2 DEF Asking
<1>8. UNCHANGED vars => UNCHANGED chat
  BY DEF vars, gateway
<1> QED BY <1>1, <1>2, <1>3, <1>4, <1>5, <1>6, <1>7, <1>8 DEF Next

\* Every step: who asks is looping.
LEMMA AskLoopStep ==
  ASSUME PlaceInv, AskType, AskLoop, [Next]_vars
  PROVE  AskLoop'
<1> SUFFICES ASSUME NEW m \in Msgs, Asking(m)'
             PROVE  chat'[m] = "looping"
  BY DEF AskLoop
<1>1. Asking(m) \/ Asks(m)
  <2>1. ask[m] \in [pc : AskPcs, via : Msgs \cup {NoMsg}, got : Tabs \cup {NoTab}]
    BY DEF AskType
  <2>2. ask'[m].pc \in {"emitting", "waiting", "expired"}
    BY DEF Asking
  <2> QED BY <2>1, <2>2, AskSteps DEF Asking, Emitted, Expires
<1>2. CASE Asks(m)
  BY <1>2 DEF Asks, Thinks, gateway
<1>3. CASE Asking(m)
  <2>1. chat[m] = "looping"
    BY <1>3 DEF AskLoop
  <2> QED BY <1>3, <2>1, LoopGoesOn
<1> QED BY <1>1, <1>2, <1>3

\* Every step: a question goes by its own chat.
LEMMA ViaOwnStep ==
  ASSUME OneChatInv, AskType, AskLoop, ViaOwn, [Next]_vars
  PROVE  ViaOwn'
<1> SUFFICES ASSUME odd' \cap {"abandoned", "gap"} = {}, NEW m \in Msgs, Asking(m)'
             PROVE  ask'[m].via = m
  BY DEF ViaOwn
<1>1. odd \cap {"abandoned", "gap"} = {}
  BY OddStays
<1>2. ask[m] \in [pc : AskPcs, via : Msgs \cup {NoMsg}, got : Tabs \cup {NoTab}]
  BY DEF AskType
<1>3. ask'[m].pc \in {"emitting", "waiting", "expired"}
  BY DEF Asking
<1>4. \/ Asking(m) /\ ask'[m].via = ask[m].via
      \/ Asks(m) /\ emitter # NoMsg /\ ask'[m] = [ask[m] EXCEPT !.pc = "emitting", !.via = emitter]
  <2>1. \/ ask'[m] = ask[m]
        \/ Asks(m) /\ emitter # NoMsg /\ ask'[m] = [ask[m] EXCEPT !.pc = "emitting", !.via = emitter]
        \/ Emitted(m) /\ ask'[m] = [ask[m] EXCEPT !.pc = "waiting"]
        \/ Expires(m) /\ ask'[m] = [ask[m] EXCEPT !.pc = "expired"]
    <3>1. /\ [ask[m] EXCEPT !.pc = "noUI"].pc = "noUI"
          /\ [ask[m] EXCEPT !.pc = "answered", !.got = hub.answer[m]].pc = "answered"
          /\ [ask[m] EXCEPT !.pc = "timeout"].pc = "timeout"
          /\ [ask[m] EXCEPT !.pc = "cancelled"].pc = "cancelled"
      BY <1>2
    <3> QED BY <1>3, <3>1, AskSteps, Zenon
  <2>2. Emitted(m) \/ Expires(m) => Asking(m)
    BY DEF Emitted, Expires, Asking
  <2>3. ask'[m] = ask[m] => Asking(m)
    BY <1>3 DEF Asking
  <2> QED BY <1>2, <2>1, <2>2, <2>3
<1>5. CASE Asking(m) /\ ask'[m].via = ask[m].via
  BY <1>1, <1>5 DEF ViaOwn
<1>6. CASE Asks(m) /\ ask'[m] = [ask[m] EXCEPT !.pc = "emitting", !.via = emitter]
  <2>1. Live(m) /\ chat[m] # "sent"
    BY <1>6 DEF Asks, Thinks, Live
  <2>2. emitter = m
    BY <1>1, <2>1 DEF OneChatInv, OwnChat
  <2> QED BY <1>2, <1>6, <2>2
<1> QED BY <1>4, <1>5, <1>6

\* Every step: a question waited for is shown or on its way.
LEMMA QuestionSeenStep ==
  ASSUME SeenInv, [Next]_vars
  PROVE  QuestionSeen'
<1> SUFFICES ASSUME odd' \cap {"abandoned", "gap", "restart"} = {}, NEW m \in Msgs
             PROVE  /\ ask'[m].pc # "noUI"
                    /\ ask'[m].pc = "waiting" => m \in shown' \/ Contains(wire', <<m, ask'[m].via>>)
  BY DEF QuestionSeen
<1>1. odd \cap {"abandoned", "gap", "restart"} = {}
  BY OddStays
<1>2. ask[m] \in [pc : AskPcs, via : Msgs \cup {NoMsg}, got : Tabs \cup {NoTab}]
  BY DEF SeenInv, AskType
<1>3. OwnChat /\ AskType /\ WireType
  BY <1>1 DEF SeenInv, OneChatInv
<1>4. /\ ask[m].pc # "noUI"
      /\ ask[m].pc = "waiting" => m \in shown \/ Contains(wire, <<m, ask[m].via>>)
  BY <1>1 DEF SeenInv, QuestionSeen
<1>5. ask'[m].pc # "noUI"
  <2> SUFFICES ASSUME ask'[m].pc = "noUI" PROVE FALSE
    OBVIOUS
  <2>1. Asks(m) /\ emitter = NoMsg
    BY <1>2, <1>3, <1>4, AskSteps
  <2>2. Live(m) /\ chat[m] # "sent"
    BY <2>1 DEF Asks, Thinks, Live
  <2> QED BY <1>3, <2>1, <2>2, NothingAssumption DEF OwnChat
<1>6. ASSUME ask'[m].pc = "waiting"
      PROVE  m \in shown' \/ Contains(wire', <<m, ask'[m].via>>)
  <2>1. \/ Emitted(m) /\ ask'[m] = [ask[m] EXCEPT !.pc = "waiting"]
        \/ ask'[m] = ask[m]
    BY <1>2, <1>3, <1>6, AskSteps
  <2> DEFINE question == <<m, ask[m].via>>
  <2>2. question \in Msgs \X (Msgs \cup {NoMsg}) /\ question \in Wired
    BY <1>2 DEF Wired
  <2>3. ask'[m].via = ask[m].via
    BY <1>2, <2>1
  <2> HIDE DEF question
  <2>4. CASE Emitted(m)
    <3>1. wire' = Append(wire, question)
      BY <2>4 DEF Emitted, question
    <3>2. wire \in Seq(Wired)
      BY <1>3 DEF WireType
    <3>3. Contains(Append(wire, question), question)
      BY <2>2, <3>2, ContainsFacts
    <3> QED BY <2>3, <3>1, <3>3 DEF question
  <2>5. CASE ask'[m] = ask[m]
    <3>1. ask[m].pc = "waiting" /\ Asking(m)
      BY <1>6, <2>5 DEF Asking
    <3>2. CASE m \in shown
      <4>1. ASSUME NEW t \in Tabs,
                   \/ \E n \in Msgs : Sends(t, n) \/ Replies(t, n)
                   \/ MakesJob(t) \/ Injects(t) \/ AnswerLost(t) \/ Acknowledges(t) \/ Queues(t)
                   \/ Stop(t) \/ Resolves(t) \/ IsTold(t)
            PROVE  UNCHANGED shown
        BY <4>1 DEF Sends, Replies, MakesJob, Injects, AnswerLost, Acknowledges, Queues, Stop, Resolves,
                    IsTold, asks
      <4>2. ASSUME NEW n \in Msgs,
                   JobStarts(n) \/ JobNeverStarts(n) \/ JobHears(n) \/ JobEnds(n)
                   \/ Asks(n) \/ Emitted(n) \/ AnswerHeard(n) \/ Expires(n) \/ TimedOut(n)
            PROVE  UNCHANGED shown
        BY <4>2 DEF JobStarts, JobNeverStarts, JobHears, JobEnds, Asks, Emitted, AnswerHeard, Expires,
                    TimedOut, asks
      <4>3. ASSUME NEW n \in Msgs,
                   \/ ChatBegins(n) \/ TurnBegins(n) \/ LoopBegins(n) \/ TakesSteering(n) \/ LoopEnds(n)
                   \/ LoopBreaks(n) \/ TurnFails(n) \/ ChatCancelled(n) \/ TurnEnds(n) \/ ChatEnds(n)
            PROVE  UNCHANGED shown
        BY <4>3 DEF ChatBegins, TurnBegins, LoopBegins, TakesSteering, LoopEnds, LoopBreaks, TurnFails,
                    ChatCancelled, TurnEnds, ChatEnds, asks
      <4>4. ASSUME NEW n \in Msgs, QuestionHeard(n)
            PROVE  shown \subseteq shown'
        BY <4>4 DEF QuestionHeard
      <4>5. GatewayRestarts => UNCHANGED shown
        BY DEF GatewayRestarts
      <4>6. UNCHANGED vars => UNCHANGED shown
        BY DEF vars, asks
      <4>7. shown \subseteq shown'
        BY <4>1, <4>2, <4>3, <4>4, <4>5, <4>6 DEF Next
      <4> QED BY <3>2, <4>7
    <3>3. CASE Contains(wire, question)
      <4>1. ~GatewayRestarts
        <5> SUFFICES ASSUME GatewayRestarts PROVE FALSE
          OBVIOUS
        <5>1. "restart" \in odd'
          BY DEF GatewayRestarts
        <5> QED BY <5>1
      <4>2. \/ Contains(wire', question)
            \/ \E n \in Msgs : QuestionHeard(n) /\ question = <<n, ask[n].via>>
        BY <1>3, <2>2, <3>3, <4>1, WireStep
      <4>3. ASSUME NEW n \in Msgs, QuestionHeard(n), question = <<n, ask[n].via>>
            PROVE  m \in shown'
        <5>1. n = m
          BY <4>3 DEF question
        <5>2. ask[m].via = m /\ chat[m] = "looping"
          BY <1>1, <3>1 DEF SeenInv, ViaOwn, AskLoop
        <5>3. job[m].pc \in {"streaming", "answered"}
          BY <1>3, <5>2 DEF OwnChat, Live
        <5>4. job[m].pc # "answered"
          BY <5>2 DEF SeenInv, Answered
        <5> QED BY <4>3, <5>1, <5>2, <5>3, <5>4 DEF QuestionHeard
      <4> QED BY <2>3, <4>2, <4>3 DEF question
    <3> QED BY <1>4, <3>1, <3>2, <3>3 DEF question
  <2> QED BY <2>1, <2>4, <2>5
<1> QED BY <1>5, <1>6

-----------------------------------------------------------------------------
(* One answer is taken, and who is told what.                              *)

\* A tab that answers: its answer is on its way, taken, or its fate not yet told.
ReplyPcs == {"replying", "taken", "denied", "untold"}
Replying(m, t) == tab[t].pc \in ReplyPcs /\ tab[t].msg = m

\* The hub took the answer of this tab; it has been told so, or will be.
Took(m, t) == <<m, t, TRUE>> \in told \/ (tab[t].pc = "taken" /\ tab[t].msg = m)

\* What may become of a tab's answer.
LEMMA ReplySteps ==
  ASSUME TabType, [Next]_vars, NEW t \in Tabs
  PROVE  \/ tab'[t] = tab[t]
         \/ tab[t].pc \notin ReplyPcs /\ tab'[t].pc \notin ReplyPcs
         \/ \E m \in Msgs : Replies(t, m) /\ tab'[t] = [pc |-> "replying", msg |-> m]
         \/ /\ Resolves(t) /\ tab[t].pc = "replying" /\ tab'[t].msg = tab[t].msg
            /\ tab'[t].pc \in {"taken", "denied"}
         \/ /\ tab'[t].pc = "untold" /\ tab'[t].msg = tab[t].msg /\ tab[t].pc \in ReplyPcs
            /\ tab[t].pc = "taken" => "answerLost" \in odd'
         \/ IsTold(t) /\ tab'[t] = Idle
<1> DEFINE Goal ==
         \/ tab'[t] = tab[t]
         \/ tab[t].pc \notin ReplyPcs /\ tab'[t].pc \notin ReplyPcs
         \/ \E m \in Msgs : Replies(t, m) /\ tab'[t] = [pc |-> "replying", msg |-> m]
         \/ /\ Resolves(t) /\ tab[t].pc = "replying" /\ tab'[t].msg = tab[t].msg
            /\ tab'[t].pc \in {"taken", "denied"}
         \/ /\ tab'[t].pc = "untold" /\ tab'[t].msg = tab[t].msg /\ tab[t].pc \in ReplyPcs
            /\ tab[t].pc = "taken" => "answerLost" \in odd'
         \/ IsTold(t) /\ tab'[t] = Idle
<1>0. /\ DOMAIN tab = Tabs /\ tab[t] \in [pc : TabPcs, msg : Msgs \cup {NoMsg}]
  BY DEF TabType
<1>1. ASSUME NEW u \in Tabs, NEW m \in Msgs, Sends(u, m)
      PROVE  Goal
  <2>1. tab[u].pc = "idle" /\ \E p \in {"steering", "acking"} : tab' = [tab EXCEPT ![u] = [pc |-> p, msg |-> m]]
    BY <1>1 DEF Sends
  <2> QED BY <1>0, <2>1 DEF ReplyPcs
<1>2. ASSUME NEW u \in Tabs, NEW m \in Msgs, Replies(u, m)
      PROVE  Goal
  <2>1. tab' = [tab EXCEPT ![u] = [pc |-> "replying", msg |-> m]]
    BY <1>2 DEF Replies
  <2> QED BY <1>0, <1>2, <2>1
<1>3. ASSUME NEW u \in Tabs, MakesJob(u) \/ Acknowledges(u) \/ Queues(u)
      PROVE  Goal
  <2>1. tab[u].pc \in {"acking", "injected", "refused", "unanswered"} /\ tab' = [tab EXCEPT ![u] = Idle]
    BY <1>3 DEF MakesJob, Acknowledges, Queues
  <2> QED BY <1>0, <2>1 DEF ReplyPcs, Idle
<1>4. ASSUME NEW u \in Tabs, Injects(u)
      PROVE  Goal
  <2>1. tab[u].pc = "steering" /\ \E p \in {"injected", "refused"} : tab' = [tab EXCEPT ![u].pc = p]
    BY <1>4 DEF Injects
  <2> QED BY <1>0, <2>1 DEF ReplyPcs
<1>5. ASSUME NEW u \in Tabs, AnswerLost(u)
      PROVE  Goal
  <2>1. /\ tab[u].pc \in {"steering", "injected", "replying", "taken"}
        /\ tab' = [tab EXCEPT ![u].pc = Unanswered(tab[u].pc)]
        /\ tab[u].pc = "taken" => "answerLost" \in odd'
    BY <1>5 DEF AnswerLost
  <2>2. CASE tab[u].pc \in {"steering", "injected"}
    <3>1. Unanswered(tab[u].pc) = "unanswered"
      BY <2>2 DEF Unanswered
    <3> QED BY <1>0, <2>1, <2>2, <3>1 DEF ReplyPcs
  <2>3. CASE tab[u].pc \in {"replying", "taken"}
    <3>1. Unanswered(tab[u].pc) = "untold"
      BY <2>3 DEF Unanswered
    <3> QED BY <1>0, <2>1, <2>3, <3>1 DEF ReplyPcs
  <2> QED BY <2>1, <2>2, <2>3
<1>6. ASSUME NEW u \in Tabs, Stop(u)
      PROVE  Goal
  BY <1>6 DEF Stop
<1>7. ASSUME NEW u \in Tabs, Resolves(u)
      PROVE  Goal
  <2>1. tab[u].pc = "replying" /\ \E p \in {"taken", "denied"} : tab' = [tab EXCEPT ![u].pc = p]
    BY <1>7 DEF Resolves
  <2> QED BY <1>0, <1>7, <2>1
<1>8. ASSUME NEW u \in Tabs, IsTold(u)
      PROVE  Goal
  <2>1. tab' = [tab EXCEPT ![u] = Idle]
    BY <1>8 DEF IsTold
  <2> QED BY <1>0, <1>8, <2>1
<1>9. ASSUME NEW m \in Msgs,
             JobStarts(m) \/ JobNeverStarts(m) \/ JobHears(m) \/ JobEnds(m) \/ QuestionHeard(m)
             \/ Asks(m) \/ Emitted(m) \/ AnswerHeard(m) \/ Expires(m) \/ TimedOut(m)
      PROVE  Goal
  BY <1>9 DEF JobStarts, JobNeverStarts, JobHears, JobEnds, QuestionHeard, Asks, Emitted, AnswerHeard,
              Expires, TimedOut
<1>10. ASSUME NEW m \in Msgs,
              \/ ChatBegins(m) \/ TurnBegins(m) \/ LoopBegins(m) \/ TakesSteering(m) \/ LoopEnds(m)
              \/ LoopBreaks(m) \/ TurnFails(m) \/ ChatCancelled(m) \/ TurnEnds(m) \/ ChatEnds(m)
       PROVE  Goal
  BY <1>10 DEF ChatBegins, TurnBegins, LoopBegins, TakesSteering, LoopEnds, LoopBreaks, TurnFails,
               ChatCancelled, TurnEnds, ChatEnds
<1>11. ASSUME GatewayRestarts
       PROVE  Goal
  <2>1. tab'[t] = IF tab[t].pc \in {"steering", "injected", "refused", "replying", "taken", "denied"}
                  THEN [tab[t] EXCEPT !.pc = Unanswered(tab[t].pc)] ELSE tab[t]
    BY <1>11 DEF GatewayRestarts
  <2>2. tab[t].pc = "taken" => "answerLost" \in odd'
    BY <1>11 DEF GatewayRestarts
  <2>3. CASE tab[t].pc \in {"steering", "injected", "refused"}
    <3>1. Unanswered(tab[t].pc) = "unanswered"
      BY <2>3 DEF Unanswered
    <3> QED BY <1>0, <2>1, <2>3, <3>1 DEF ReplyPcs
  <2>4. CASE tab[t].pc \in {"replying", "taken", "denied"}
    <3>1. Unanswered(tab[t].pc) = "untold"
      BY <2>4 DEF Unanswered
    <3> QED BY <1>0, <2>1, <2>2, <2>4, <3>1 DEF ReplyPcs
  <2> QED BY <2>1, <2>3, <2>4
<1>12. ASSUME UNCHANGED vars
       PROVE  Goal
  BY <1>12 DEF vars
<1> HIDE DEF Goal
<1>13. Goal
  BY <1>1, <1>2, <1>3, <1>4, <1>5, <1>6, <1>7, <1>8, <1>9, <1>10, <1>11, <1>12 DEF Next
<1> QED BY <1>13 DEF Goal

\* What the tabs were told changes by telling one.
LEMMA ToldSteps ==
  ASSUME [Next]_vars
  PROVE  UNCHANGED told \/ \E t \in Tabs : IsTold(t)
<1>1. ASSUME NEW t \in Tabs,
             \/ \E n \in Msgs : Sends(t, n) \/ Replies(t, n)
             \/ MakesJob(t) \/ Injects(t) \/ AnswerLost(t) \/ Acknowledges(t) \/ Queues(t) \/ Stop(t)
             \/ Resolves(t)
      PROVE  UNCHANGED told
  BY <1>1 DEF Sends, Replies, MakesJob, Injects, AnswerLost, Acknowledges, Queues, Stop, Resolves, asks
<1>2. ASSUME NEW n \in Msgs,
             JobStarts(n) \/ JobNeverStarts(n) \/ JobHears(n) \/ JobEnds(n) \/ QuestionHeard(n)
             \/ Asks(n) \/ Emitted(n) \/ AnswerHeard(n) \/ Expires(n) \/ TimedOut(n)
      PROVE  UNCHANGED told
  BY <1>2 DEF JobStarts, JobNeverStarts, JobHears, JobEnds, QuestionHeard, Asks, Emitted,
              AnswerHeard, Expires, TimedOut, asks
<1>3. ASSUME NEW n \in Msgs,
              \/ ChatBegins(n) \/ TurnBegins(n) \/ LoopBegins(n) \/ TakesSteering(n) \/ LoopEnds(n)
              \/ LoopBreaks(n) \/ TurnFails(n) \/ ChatCancelled(n) \/ TurnEnds(n) \/ ChatEnds(n)
      PROVE  UNCHANGED told
  BY <1>3 DEF ChatBegins, TurnBegins, LoopBegins, TakesSteering, LoopEnds, LoopBreaks, TurnFails,
              ChatCancelled, TurnEnds, ChatEnds, asks
<1>4. GatewayRestarts \/ UNCHANGED vars => UNCHANGED told
  BY DEF GatewayRestarts, vars, asks
<1> QED BY <1>1, <1>2, <1>3, <1>4 DEF Next

\* The telling.
LEMMA Telling ==
  ASSUME TabType, NEW u \in Tabs, IsTold(u), NEW m \in Msgs, NEW t \in Tabs
  PROVE  /\ Replying(tab[u].msg, u)
         /\ <<m, t, TRUE>> \in told' <=>
              <<m, t, TRUE>> \in told \/ (t = u /\ tab[u].msg = m /\ tab[u].pc = "taken")
         /\ <<m, t, FALSE>> \in told' <=>
              <<m, t, FALSE>> \in told \/ (t = u /\ tab[u].msg = m /\ tab[u].pc # "taken")
<1>1. Replying(tab[u].msg, u)
  BY DEF IsTold, Replying, ReplyPcs
<1>2. CASE tab[u].pc = "taken"
  <2>1. (tab[u].pc = "taken") = TRUE
    BY <1>2
  <2>2. told' = told \cup {<<tab[u].msg, u, TRUE>>}
    BY <2>1 DEF IsTold
  <2> QED BY <1>1, <1>2, <2>2
<1>3. CASE tab[u].pc # "taken"
  <2>1. (tab[u].pc = "taken") = FALSE
    BY <1>3
  <2>2. told' = told \cup {<<tab[u].msg, u, FALSE>>}
    BY <2>1 DEF IsTold
  <2> QED BY <1>1, <1>3, <2>2
<1> QED BY <1>2, <1>3

\* A question that is waited for is in the table; one in the table is, or its
\* turn was cancelled while it was being sent.
InTable(m) ==
  /\ Asking(m) => m \in hub.pending
  /\ m \in hub.pending => Asking(m) \/ ask[m].pc = "cancelled"

\* The answer in the table, and the tool's, is one that was taken ...
AnswerIsTaken(m) ==
  "answerLost" \notin odd =>
    \A t \in Tabs : hub.answer[m] = t \/ ask[m].got = t => Took(m, t)

\* ... of which there is one: it is in the table, unless the gateway was killed,
\* and the tool gets it, unless its wait was over.
TakenIsAnswer(m) ==
  \A t \in Tabs : Took(m, t) =>
    /\ ask[m].pc # "none"
    /\ hub.answer[m] = t \/ (hub.answer[m] = NoTab /\ m \notin hub.pending)
    /\ \A u \in Tabs : Took(m, u) => t = u
    /\ ask[m].pc = "answered" => ask[m].got = t
    /\ ask[m].pc = "timeout" => "late" \in odd

\* A tab is told of its answer once.
ToldOnce(m) ==
  \A t \in Tabs :
    /\ Replying(m, t) => <<m, t, TRUE>> \notin told /\ <<m, t, FALSE>> \notin told
    /\ <<m, t, TRUE>> \notin told \/ <<m, t, FALSE>> \notin told

TakenInv ==
  /\ TabType /\ AskType
  /\ \A m \in Msgs : InTable(m) /\ AnswerIsTaken(m) /\ TakenIsAnswer(m) /\ ToldOnce(m)

\* Every step: what was taken of a question, but for the hub's own step.
LEMMA TookSteps ==
  ASSUME TabType, [Next]_vars, NEW m \in Msgs, NEW t \in Tabs
  PROVE  /\ Took(m, t)' => Took(m, t) \/ (Resolves(t) /\ tab[t].msg = m /\ tab'[t].pc = "taken")
         /\ Took(m, t) => Took(m, t)' \/ "answerLost" \in odd'
<1>1. <<m, t, TRUE>> \in told => <<m, t, TRUE>> \in told'
  BY ToldSteps, Telling
<1>2. <<m, t, TRUE>> \in told' => <<m, t, TRUE>> \in told \/ (tab[t].msg = m /\ tab[t].pc = "taken")
  BY ToldSteps, Telling
<1>3. tab'[t].pc = "taken" /\ tab'[t].msg = m =>
        \/ tab[t].pc = "taken" /\ tab[t].msg = m
        \/ Resolves(t) /\ tab[t].msg = m
  <2> SUFFICES ASSUME tab'[t].pc = "taken", tab'[t].msg = m
               PROVE  \/ tab[t].pc = "taken" /\ tab[t].msg = m
                      \/ Resolves(t) /\ tab[t].msg = m
    OBVIOUS
  <2>1. tab'[t] # Idle /\ \A n \in Msgs : tab'[t] # [pc |-> "replying", msg |-> n]
    BY DEF Idle
  <2>2. tab'[t] = tab[t] \/ (Resolves(t) /\ tab'[t].msg = tab[t].msg)
    BY <2>1, ReplySteps DEF ReplyPcs
  <2> QED BY <2>2
<1>4. ASSUME tab[t].pc = "taken", tab[t].msg = m
      PROVE  Took(m, t)' \/ "answerLost" \in odd'
  <2>1. CASE IsTold(t)
    <3>1. <<m, t, TRUE>> \in told'
      BY <1>4, <2>1, Telling
    <3> QED BY <3>1 DEF Took
  <2>2. CASE ~IsTold(t)
    <3>1. tab'[t] = tab[t] \/ "answerLost" \in odd'
      BY <1>4, <2>2, ReplySteps DEF ReplyPcs, Replies
    <3> QED BY <1>4, <3>1 DEF Took
  <2> QED BY <2>1, <2>2
<1> QED BY <1>1, <1>2, <1>3, <1>4 DEF Took

\* Every step: who is told.
LEMMA ToldOnceStep ==
  ASSUME TakenInv, [Next]_vars, NEW m \in Msgs
  PROVE  ToldOnce(m)'
<1> SUFFICES ASSUME NEW t \in Tabs
             PROVE  /\ Replying(m, t)' => <<m, t, TRUE>> \notin told' /\ <<m, t, FALSE>> \notin told'
                    /\ <<m, t, TRUE>> \notin told' \/ <<m, t, FALSE>> \notin told'
  BY DEF ToldOnce
<1>0. TabType /\ ToldOnce(m)
  BY DEF TakenInv
<1>1. /\ Replying(m, t) => <<m, t, TRUE>> \notin told /\ <<m, t, FALSE>> \notin told
      /\ <<m, t, TRUE>> \notin told \/ <<m, t, FALSE>> \notin told
  BY <1>0 DEF ToldOnce
<1>2. CASE IsTold(t)
  <2>1. tab' = [tab EXCEPT ![t] = Idle] /\ tab[t].pc \in ReplyPcs
    BY <1>2 DEF IsTold, ReplyPcs
  <2>2. ~Replying(m, t)'
    BY <1>0, <2>1 DEF TabType, Replying, ReplyPcs, Idle
  <2>3. /\ <<m, t, TRUE>> \in told' => <<m, t, TRUE>> \in told \/ (Replying(m, t) /\ tab[t].pc = "taken")
        /\ <<m, t, FALSE>> \in told' => <<m, t, FALSE>> \in told \/ (Replying(m, t) /\ tab[t].pc # "taken")
    BY <1>0, <1>2, <2>1, Telling DEF Replying
  <2> QED BY <1>1, <2>2, <2>3
<1>3. CASE ~IsTold(t)
  <2>1. /\ <<m, t, TRUE>> \in told' => <<m, t, TRUE>> \in told
        /\ <<m, t, FALSE>> \in told' => <<m, t, FALSE>> \in told
    BY <1>0, <1>3, ToldSteps, Telling
  <2>2. CASE \E n \in Msgs : Replies(t, n) /\ tab'[t] = [pc |-> "replying", msg |-> n]
    <3>1. PICK n \in Msgs : Replies(t, n) /\ tab'[t] = [pc |-> "replying", msg |-> n]
      BY <2>2
    <3>2. <<n, t, TRUE>> \notin told /\ <<n, t, FALSE>> \notin told
      BY <3>1 DEF Replies
    <3>3. Replying(m, t)' => m = n
      BY <3>1 DEF Replying
    <3> QED BY <1>1, <2>1, <3>2, <3>3
  <2>3. CASE ~\E n \in Msgs : Replies(t, n) /\ tab'[t] = [pc |-> "replying", msg |-> n]
    <3>1. Replying(m, t)' => Replying(m, t)
      BY <1>0, <1>3, <2>3, ReplySteps DEF Replying, ReplyPcs
    <3> QED BY <1>1, <2>1, <3>1
  <2> QED BY <2>2, <2>3
<1> QED BY <1>2, <1>3

Answers(m) == InTable(m) /\ AnswerIsTaken(m) /\ TakenIsAnswer(m)

\* A step that leaves a question as it is, and takes no answer to it.
LEMMA SameAnswers ==
  ASSUME TakenInv, [Next]_vars, NEW m \in Msgs,
         ask'[m] = ask[m], hub'.answer[m] = hub.answer[m], m \in hub'.pending <=> m \in hub.pending,
         \A t \in Tabs : Resolves(t) /\ tab[t].msg = m => tab'[t].pc # "taken"
  PROVE  Answers(m)'
<1>1. TabType /\ InTable(m) /\ AnswerIsTaken(m) /\ TakenIsAnswer(m) /\ odd \subseteq odd'
  BY OddStays DEF TakenInv
<1>2. \A t \in Tabs : /\ Took(m, t)' => Took(m, t)
                      /\ Took(m, t) => Took(m, t)' \/ "answerLost" \in odd'
  BY <1>1, TookSteps
<1>3. InTable(m)'
  BY <1>1 DEF InTable, Asking
<1>4. AnswerIsTaken(m)'
  BY <1>1, <1>2 DEF AnswerIsTaken
<1>5. TakenIsAnswer(m)'
  BY <1>1, <1>2 DEF TakenIsAnswer
<1> QED BY <1>3, <1>4, <1>5 DEF Answers

\* A step of a question itself, with the tabs and what they were told left alone.
LEMMA AskAnswers ==
  ASSUME TakenInv, [Next]_vars, NEW n \in Msgs, NEW m \in Msgs,
         Asks(n) \/ Emitted(n) \/ AnswerHeard(n) \/ Expires(n) \/ TimedOut(n) \/ ChatCancelled(n)
  PROVE  Answers(m)'
<1>0. /\ ask \in [Msgs -> [pc : AskPcs, via : Msgs \cup {NoMsg}, got : Tabs \cup {NoTab}]]
      /\ hub \in [pending : SUBSET Msgs, answer : [Msgs -> Tabs \cup {NoTab}]]
  BY DEF TakenInv, AskType
<1>1. InTable(m) /\ AnswerIsTaken(m) /\ TakenIsAnswer(m) /\ odd \subseteq odd'
  BY OddStays DEF TakenInv
<1>2. UNCHANGED <<tab, told>> /\ hub'.answer = hub.answer
  BY <1>0 DEF Asks, Emitted, AnswerHeard, Expires, TimedOut, ChatCancelled, Forgotten, asks
<1>3. \A t \in Tabs : Took(m, t)' <=> Took(m, t)
  BY <1>2 DEF Took
<1>4. CASE m # n
  <2>1. ask'[m] = ask[m] /\ (m \in hub'.pending <=> m \in hub.pending)
    BY <1>0, <1>4 DEF Asks, Emitted, AnswerHeard, Expires, TimedOut, ChatCancelled, Forgotten
  <2>2. InTable(m)'
    BY <1>1, <2>1 DEF InTable, Asking
  <2>3. AnswerIsTaken(m)'
    BY <1>1, <1>2, <1>3, <2>1 DEF AnswerIsTaken
  <2>4. TakenIsAnswer(m)'
    BY <1>1, <1>2, <1>3, <2>1 DEF TakenIsAnswer
  <2> QED BY <2>2, <2>3, <2>4 DEF Answers
<1>5. CASE m = n /\ Asks(n)
  <2>1. /\ ask[m].pc = "none"
        /\ ask'[m].got = ask[m].got
        /\ \/ ask'[m].pc = "noUI" /\ hub' = hub
           \/ ask'[m].pc = "emitting" /\ hub'.pending = hub.pending \cup {m}
    <3>1. CASE emitter = NoMsg
      <4>1. ask' = [ask EXCEPT ![n] = [@ EXCEPT !.pc = "noUI"]] /\ UNCHANGED hub /\ ask[n].pc = "none"
        BY <1>5, <3>1 DEF Asks
      <4> QED BY <1>0, <1>5, <4>1
    <3>2. CASE emitter # NoMsg
      <4>1. /\ ask' = [ask EXCEPT ![n] = [@ EXCEPT !.pc = "emitting", !.via = emitter]]
            /\ hub' = [hub EXCEPT !.pending = @ \cup {n}] /\ ask[n].pc = "none"
        BY <1>5, <3>2 DEF Asks
      <4> QED BY <1>0, <1>5, <4>1
    <3> QED BY <3>1, <3>2
  <2>2. \A t \in Tabs : ~Took(m, t)
    BY <1>1, <2>1 DEF TakenIsAnswer
  <2>3. InTable(m)'
    BY <1>1, <2>1 DEF InTable, Asking
  <2>4. AnswerIsTaken(m)'
    BY <1>1, <1>2, <1>3, <2>1 DEF AnswerIsTaken
  <2>5. TakenIsAnswer(m)'
    BY <1>3, <2>2 DEF TakenIsAnswer
  <2> QED BY <2>3, <2>4, <2>5 DEF Answers
<1>6. CASE m = n /\ (Emitted(n) \/ Expires(n))
  <2>1. UNCHANGED hub /\ Asking(m) /\ ask'[m].pc \in {"waiting", "expired"} /\ ask'[m].got = ask[m].got
    BY <1>0, <1>6 DEF Emitted, Expires, Asking
  <2>2. InTable(m)'
    BY <1>1, <2>1 DEF InTable, Asking
  <2>3. AnswerIsTaken(m)'
    BY <1>1, <1>2, <1>3, <2>1 DEF AnswerIsTaken
  <2>4. TakenIsAnswer(m)'
    BY <1>1, <1>2, <1>3, <2>1 DEF TakenIsAnswer
  <2> QED BY <2>2, <2>3, <2>4 DEF Answers
<1>7. CASE m = n /\ AnswerHeard(n)
  <2>1. /\ m \notin hub'.pending /\ ask'[m].pc = "answered" /\ ask'[m].got = hub.answer[m]
        /\ hub.answer[m] # NoTab
    BY <1>0, <1>7 DEF AnswerHeard, Forgotten
  <2>2. InTable(m)'
    BY <2>1 DEF InTable, Asking
  <2>3. AnswerIsTaken(m)'
    BY <1>1, <1>2, <1>3, <2>1 DEF AnswerIsTaken
  <2>4. TakenIsAnswer(m)'
    BY <1>1, <1>2, <1>3, <2>1 DEF TakenIsAnswer
  <2> QED BY <2>2, <2>3, <2>4 DEF Answers
<1>8. CASE m = n /\ TimedOut(n)
  <2>1. /\ m \notin hub'.pending /\ ask'[m].pc = "timeout" /\ ask'[m].got = ask[m].got /\ Asking(m)
        /\ hub.answer[m] # NoTab => "late" \in odd'
    BY <1>0, <1>8 DEF TimedOut, Forgotten, Asking
  <2>2. InTable(m)'
    BY <2>1 DEF InTable, Asking
  <2>3. AnswerIsTaken(m)'
    BY <1>1, <1>2, <1>3, <2>1 DEF AnswerIsTaken
  <2>4. m \in hub.pending
    BY <1>1, <2>1 DEF InTable
  <2>5. \A t \in Tabs : Took(m, t) => hub.answer[m] = t
    BY <1>1, <2>4 DEF TakenIsAnswer
  <2>6. NoTab \notin Tabs
    BY NothingAssumption
  <2>7. TakenIsAnswer(m)'
    BY <1>1, <1>2, <1>3, <2>1, <2>5, <2>6 DEF TakenIsAnswer
  <2> QED BY <2>2, <2>3, <2>7 DEF Answers
<1>9. CASE m = n /\ ChatCancelled(n)
  <2>1. CASE Asking(m)
    <3>1. /\ ask'[m].pc = "cancelled" /\ ask'[m].got = ask[m].got
          /\ hub'.pending \in {hub.pending, hub.pending \ {m}}
      BY <1>0, <1>9, <2>1 DEF ChatCancelled, Forgotten
    <3>2. InTable(m)'
      BY <3>1 DEF InTable, Asking
    <3>3. AnswerIsTaken(m)'
      BY <1>1, <1>2, <1>3, <3>1 DEF AnswerIsTaken
    <3>4. TakenIsAnswer(m)'
      BY <1>1, <1>2, <1>3, <3>1 DEF TakenIsAnswer
    <3> QED BY <3>2, <3>3, <3>4 DEF Answers
  <2>2. CASE ~Asking(m)
    <3>1. UNCHANGED <<ask, hub>>
      BY <1>9, <2>2 DEF ChatCancelled
    <3>2. InTable(m)'
      BY <1>1, <3>1 DEF InTable, Asking
    <3>3. AnswerIsTaken(m)'
      BY <1>1, <1>2, <1>3, <3>1 DEF AnswerIsTaken
    <3>4. TakenIsAnswer(m)'
      BY <1>1, <1>2, <1>3, <3>1 DEF TakenIsAnswer
    <3> QED BY <3>2, <3>3, <3>4 DEF Answers
  <2> QED BY <2>1, <2>2
<1> QED BY <1>4, <1>5, <1>6, <1>7, <1>8, <1>9

\* The hub's own step takes one answer.
LEMMA ResolveAnswers ==
  ASSUME TakenInv, [Next]_vars, NEW u \in Tabs, Resolves(u), NEW m \in Msgs
  PROVE  Answers(m)'
<1>0. /\ TabType /\ hub \in [pending : SUBSET Msgs, answer : [Msgs -> Tabs \cup {NoTab}]]
      /\ tab[u].msg \in Msgs
  BY DEF TakenInv, AskType, TabType, Resolves
<1>1. InTable(m) /\ AnswerIsTaken(m) /\ TakenIsAnswer(m) /\ odd \subseteq odd' /\ UNCHANGED <<ask, told>>
  BY OddStays DEF TakenInv, Resolves
<1> DEFINE taken == tab[u].msg \in hub.pending /\ hub.answer[tab[u].msg] = NoTab
<1>2. CASE taken /\ tab[u].msg = m
  <2>1. hub' = [hub EXCEPT !.answer[m] = u] /\ tab' = [tab EXCEPT ![u].pc = "taken"]
    BY <1>2 DEF Resolves
  <2>2. hub'.pending = hub.pending /\ hub'.answer[m] = u /\ m \in hub.pending /\ hub.answer[m] = NoTab
    BY <1>0, <1>2, <2>1
  <2>3. \A t \in Tabs : ~Took(m, t)
    BY <1>1, <2>2, NothingAssumption DEF TakenIsAnswer
  <2>4. \A t \in Tabs : Took(m, t)' <=> t = u
    <3>1. Took(m, u)'
      BY <1>0, <1>2, <2>1 DEF Took, TabType
    <3>2. \A t \in Tabs : t # u => (Took(m, t)' <=> Took(m, t))
      BY <1>0, <1>1, <2>1 DEF Took, TabType
    <3> QED BY <2>3, <3>1, <3>2
  <2>5. InTable(m)'
    BY <1>1, <2>2 DEF InTable, Asking
  <2>6. AnswerIsTaken(m)'
    BY <1>1, <2>2, <2>3, <2>4 DEF AnswerIsTaken
  <2>7. Asking(m) \/ ask[m].pc = "cancelled"
    BY <1>1, <2>2 DEF InTable
  <2>8. TakenIsAnswer(m)'
    BY <1>1, <2>2, <2>4, <2>7 DEF TakenIsAnswer, Asking
  <2> QED BY <2>5, <2>6, <2>8 DEF Answers
<1>3. CASE ~taken
  <2>1. UNCHANGED hub /\ tab' = [tab EXCEPT ![u].pc = "denied"]
    BY <1>3 DEF Resolves
  <2>2. \A t \in Tabs : Resolves(t) /\ tab[t].msg = m => tab'[t].pc # "taken"
    BY <1>0, <2>1 DEF Resolves, TabType
  <2> QED BY <1>1, <2>1, <2>2, SameAnswers
<1>4. CASE taken /\ tab[u].msg # m
  <2>1. hub' = [hub EXCEPT !.answer[tab[u].msg] = u] /\ tab' = [tab EXCEPT ![u].pc = "taken"]
    BY <1>4 DEF Resolves
  <2>2. hub'.pending = hub.pending /\ hub'.answer[m] = hub.answer[m]
    BY <1>0, <1>4, <2>1
  <2>3. \A t \in Tabs : Resolves(t) /\ tab[t].msg = m => tab'[t].pc # "taken"
    BY <1>0, <1>4, <2>1 DEF Resolves, TabType
  <2> QED BY <1>1, <2>2, <2>3, SameAnswers
<1> QED BY <1>2, <1>3, <1>4

\* The gateway's end takes the table with it.
LEMMA RestartAnswers ==
  ASSUME TakenInv, [Next]_vars, GatewayRestarts, NEW m \in Msgs
  PROVE  Answers(m)'
<1>0. /\ TabType /\ ask \in [Msgs -> [pc : AskPcs, via : Msgs \cup {NoMsg}, got : Tabs \cup {NoTab}]]
  BY DEF TakenInv, AskType
<1>1. InTable(m) /\ AnswerIsTaken(m) /\ TakenIsAnswer(m) /\ odd \subseteq odd' /\ UNCHANGED told
  BY OddStays DEF TakenInv, GatewayRestarts
<1>2. hub'.pending = {} /\ hub'.answer[m] = NoTab
  BY DEF GatewayRestarts
<1>3. /\ ask'[m].got = ask[m].got
      /\ Asking(m) => ask'[m].pc = "cancelled"
      /\ ~Asking(m) => ask'[m].pc = ask[m].pc
  BY <1>0 DEF GatewayRestarts
<1>4. \A t \in Tabs : tab'[t].pc # "taken"
  BY <1>0 DEF GatewayRestarts, TabType, Unanswered
<1>5. \A t \in Tabs : Took(m, t)' => Took(m, t)
  BY <1>1, <1>4 DEF Took
<1>6. \A t \in Tabs : Took(m, t) => Took(m, t)' \/ "answerLost" \in odd'
  BY <1>0, TookSteps
<1>7. InTable(m)'
  BY <1>2, <1>3 DEF InTable, Asking
<1>8. AnswerIsTaken(m)'
  BY <1>1, <1>2, <1>3, <1>6, NothingAssumption DEF AnswerIsTaken
<1>9. TakenIsAnswer(m)'
  BY <1>1, <1>2, <1>3, <1>5 DEF TakenIsAnswer, Asking
<1> QED BY <1>7, <1>8, <1>9 DEF Answers

\* Every step.
LEMMA TakenStep ==
  ASSUME TakenInv, [Next]_vars
  PROVE  TakenInv'
<1>1. TabType' /\ AskType'
  BY TabTypeStep, AskTypeStep DEF TakenInv
<1>2. ASSUME NEW m \in Msgs
      PROVE  Answers(m)'
  <2>1. ASSUME NEW n \in Msgs, Asks(n) \/ Emitted(n) \/ AnswerHeard(n) \/ Expires(n) \/ TimedOut(n)
                               \/ ChatCancelled(n)
        PROVE  Answers(m)'
    BY <1>2, <2>1, AskAnswers
  <2>2. ASSUME NEW u \in Tabs, Resolves(u)
        PROVE  Answers(m)'
    BY <1>2, <2>2, ResolveAnswers
  <2>3. ASSUME GatewayRestarts
        PROVE  Answers(m)'
    BY <1>2, <2>3, RestartAnswers
  <2>4. ASSUME UNCHANGED <<ask, hub>>, ~\E u \in Tabs : Resolves(u)
        PROVE  Answers(m)'
    BY <1>2, <2>4, SameAnswers
  <2> QED BY <2>1, <2>2, <2>3, <2>4, SameAsks
<1>3. \A m \in Msgs : ToldOnce(m)'
  BY ToldOnceStep
<1> QED BY <1>1, <1>2, <1>3 DEF TakenInv, Answers

AnswersInv == SeenInv /\ TakenInv

\* A turn's question reaches the tabs, and what a tab is told of its answer is
\* true, for any messages, tabs and bounds (InteractiveHub.request and resolve, the
\* emitter of _run_chat), with the exceptions the two properties name.
THEOREM AnswersCount == Spec => []AnswerCounts
<1>1. Init => AnswersInv
  <2> SUFFICES ASSUME Init PROVE AnswersInv
    OBVIOUS
  <2>1. /\ ask = [m \in Msgs |-> [pc |-> "none", via |-> NoMsg, got |-> NoTab]]
        /\ hub = [pending |-> {}, answer |-> [m \in Msgs |-> NoTab]]
        /\ wire = <<>> /\ told = {} /\ emitter = NoMsg /\ odd = {}
    BY DEF Init
  <2>2. AskType
    BY <2>1 DEF AskType, AskPcs
  <2>3. wire \in Seq(Wired)
    <3>1. <<>> \in Seq(Wired)
      OBVIOUS
    <3> QED BY <2>1, <3>1
  <2>4. OneChatInv
    BY OneChatInit
  <2>5. \A m \in Msgs : ~Contains(wire, m) /\ job[m].pc = "none" /\ ask[m].pc = "none" /\ ~Asking(m)
    <3>1. \A m \in Msgs : job[m].pc = "none" /\ ask[m].pc = "none"
      BY <2>1 DEF Init
    <3> QED BY <2>1, <3>1, NothingIn DEF Asking
  <2>6. SeenInv
    BY <2>2, <2>3, <2>4, <2>5, PlaceInit
    DEF SeenInv, WireType, Answered, AskLoop, ViaOwn, QuestionSeen
  <2>7. \A m \in Msgs, t \in Tabs : ~Took(m, t) /\ ~Replying(m, t)
    BY <2>1 DEF Init, Took, Replying, ReplyPcs
  <2>8. \A m \in Msgs : m \notin hub.pending /\ hub.answer[m] = NoTab /\ ask[m].got = NoTab
    BY <2>1
  <2>9. \A m \in Msgs : InTable(m) /\ AnswerIsTaken(m) /\ TakenIsAnswer(m) /\ ToldOnce(m)
    BY <2>1, <2>5, <2>7, <2>8, NothingAssumption DEF InTable, AnswerIsTaken, TakenIsAnswer, ToldOnce
  <2>10. TabType
    BY TypeInit DEF ChatsType
  <2> QED BY <2>2, <2>6, <2>9, <2>10 DEF AnswersInv, TakenInv
<1>2. AnswersInv /\ [Next]_vars => AnswersInv'
  <2> SUFFICES ASSUME AnswersInv, [Next]_vars PROVE AnswersInv'
    OBVIOUS
  <2>1. /\ OneChatInv /\ PlaceInv /\ WireType /\ AskType /\ Answered /\ AskLoop /\ ViaOwn /\ QuestionSeen
        /\ SeenInv /\ TakenInv /\ TabType
    BY DEF AnswersInv, SeenInv, TakenInv
  <2>2. OneChatInv' /\ PlaceInv'
    BY <2>1, OneChatInvStep, PlaceStep
  <2>3. WireType' /\ AskType'
    BY <2>1, WireStep, AskTypeStep
  <2>4. Answered' /\ AskLoop' /\ ViaOwn' /\ QuestionSeen'
    BY <2>1, AnsweredStep, AskLoopStep, ViaOwnStep, QuestionSeenStep
  <2>5. TakenInv'
    BY <2>1, TakenStep
  <2> QED BY <2>2, <2>3, <2>4, <2>5 DEF AnswersInv, SeenInv
<1>3. AnswersInv => AnswerCounts
  <2> SUFFICES ASSUME AnswersInv PROVE AnswerCounts
    OBVIOUS
  <2>1. QuestionSeen
    BY DEF AnswersInv, SeenInv
  <2>2. \A m \in Msgs : AnswerIsTaken(m) /\ TakenIsAnswer(m) /\ ToldOnce(m)
    BY DEF AnswersInv, TakenInv
  <2>3. \A m \in Msgs, t \in Tabs : <<m, t, TRUE>> \in told => Took(m, t)
    BY DEF Took
  <2>4. ASSUME NEW m \in Msgs, NEW t \in Tabs, NEW u \in Tabs,
               <<m, t, TRUE>> \in told, <<m, u, TRUE>> \in told
        PROVE  t = u
    BY <2>2, <2>3, <2>4 DEF TakenIsAnswer
  <2>5. ASSUME NEW m \in Msgs, NEW t \in Tabs, <<m, t, TRUE>> \in told,
               ask[m].pc \in {"answered", "timeout"}, "late" \notin odd
        PROVE  ask[m].got = t
    BY <2>2, <2>3, <2>5 DEF TakenIsAnswer
  <2>6. ASSUME NEW m \in Msgs, NEW t \in Tabs, <<m, t, FALSE>> \in told, "answerLost" \notin odd
        PROVE  ask[m].got # t
    <3> SUFFICES ASSUME ask[m].got = t PROVE FALSE
      OBVIOUS
    <3>1. Took(m, t)
      BY <2>2, <2>6 DEF AnswerIsTaken
    <3>2. CASE <<m, t, TRUE>> \in told
      BY <2>2, <2>6, <3>2 DEF ToldOnce
    <3>3. CASE tab[t].pc = "taken" /\ tab[t].msg = m
      <4>1. Replying(m, t)
        BY <3>3 DEF Replying, ReplyPcs
      <4> QED BY <2>2, <2>6, <4>1 DEF ToldOnce
    <3> QED BY <3>1, <3>2, <3>3 DEF Took
  <2>7. AnswerTaken
    BY <2>4, <2>5, <2>6 DEF AnswerTaken
  <2> QED BY <2>1, <2>7 DEF AnswerCounts
<1> QED BY <1>1, <1>2, <1>3, PTL DEF Spec
=============================================================================
