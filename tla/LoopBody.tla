------------------------------ MODULE LoopBody ------------------------------
(***************************************************************************)
(* What the agent loop of one session reads and leaves behind              *)
(* (agent/loop.py, brain/manager.py, agent/checkpoint_manager.py,          *)
(* agent/context_overflow_guard.py).  A turn takes the session's history,  *)
(* or the messages of a checkpoint an earlier turn left, and adds what the *)
(* model and the tools say, within its caps.  When the loop is left the    *)
(* turn's part of the list, the messages from an index on that was counted *)
(* in the history, goes into the session, and the checkpoint is kept or    *)
(* deleted.  Turns also end by an exception, a stop or a crash; /new and   *)
(* a consolidation change the session meanwhile, the WebUI rewinds it.     *)
(* Turns of one session come one at a time (SessionLocks); how the session *)
(* object is shared and written is SessionStore, the rows of the journal   *)
(* are TurnJournal.  A list of messages is kept without the system message *)
(* at its front, which every iteration replaces.                           *)
(***************************************************************************)
EXTENDS Integers, SequencesExt

CONSTANTS
  MaxUsers,        \* user messages sent
  MaxMade,         \* messages of the model
  MaxBatch,        \* tool calls in one of them
  Limits,          \* max_iterations, 0 for none
  HardCap,         \* HardStepCap.hard_limit
  MaxTroubles      \* stops, crashes, failures, rewinds, reports and /new together

ASSUME CapsAssumption ==
  /\ {MaxUsers, MaxMade, MaxTroubles} \subseteq Nat
  /\ HardCap \in Nat \ {0} /\ MaxBatch \in 1..9
  /\ Limits # {} /\ Limits \subseteq Nat

VARIABLES
  config,      \* private (no checkpoint file) or not, and max_iterations
  transcript,  \* session.messages
  disk,        \* the session's file
  cursor,      \* session.last_consolidated
  checkpoint,  \* the messages in the checkpoint file, <<>> without one
  at,          \* idle, starting, loop, asking, tools or saving
  messages,    \* the list the turn works on
  skip,        \* how many of them are in the session already, by its count
  iteration,
  answered,    \* final_content is set though the loop goes on
  batch,       \* the tool calls of the response that have no result yet
  running,     \* the first of them is claimed and runs
  steering,    \* _steering_queues[key]: is it there, its messages
  stopIdle,    \* the journal holds a stop when idle
  openOp,      \* the open turn's journal has a call without an end
  turn,        \* the turn's input, is it open in the journal, and made before it
  again,       \* the input a crash interrupted and the channel delivers again
  clearing,    \* /new waits for the turn it cancelled
  users, made, troubles,
  past          \* what happened to this session: see the properties

session == <<transcript, disk, cursor>>
loop == <<at, messages, skip, iteration, answered, batch, running>>
journal == <<stopIdle, openOp, turn, again>>
counts == <<users, made, troubles>>
loopVars == <<config, session, checkpoint, loop, steering, journal, clearing, counts, past>>

User(u) == [role |-> "user", id |-> u, calls |-> {}]
Note == [role |-> "user", id |-> 0, calls |-> {}]
Report(r) == [role |-> "assistant", id |-> 0 - r, calls |-> {}]
Assistant(a, calls) == [role |-> "assistant", id |-> a, calls |-> calls]
Result(c) == [role |-> "tool", id |-> c, calls |-> {}]
Pivot == [role |-> "system", id |-> 0, calls |-> {}]
CallsOf(a, n) == [i \in 1..n |-> 10 * a + i]

Results(calls) == [i \in DOMAIN calls |-> Result(calls[i])]
CallIds(seq) == UNION {seq[i].calls : i \in DOMAIN seq}
Closed == [there |-> FALSE, msgs |-> <<>>]

\* Session._find_legal_start: the first index from which every tool result has
\* the call it answers before it.
LegalPart(seq) ==
  LET legal(n) == \A i \in n + 1 .. Len(seq) :
        seq[i].role = "tool" => \E j \in n + 1 .. i - 1 : seq[i].id \in seq[j].calls
      start == CHOOSE n \in 0 .. Len(seq) : legal(n) /\ \A k \in 0 .. n - 1 : ~legal(k)
  IN SubSeq(seq, start + 1, Len(seq))

\* get_history(max_messages=0): from the cursor, from the first user message.
History(seq, from) ==
  LET tail == SubSeq(seq, from + 1, Len(seq))
      starts == {i \in DOMAIN tail : tail[i].role = "user"}
      first == CHOOSE i \in starts : \A j \in starts : i <= j
  IN LegalPart(IF starts = {} THEN tail ELSE SubSeq(tail, first, Len(tail)))

\* Mutant: a call without a result gets no stub.
EnforcedUnstubbed(seq) == SelectSeq(seq, LAMBDA m : m.role # "tool" \/ m.id \in CallIds(seq))

\* enforce_schema_invariants: no result without a call, a stub for each call
\* without a result.
Enforced(seq) ==
  LET kept == SelectSeq(seq, LAMBDA m : m.role # "tool" \/ m.id \in CallIds(seq))
      there == {kept[i].id : i \in {j \in DOMAIN kept : kept[j].role = "tool"}}
      Stubs(acc, m) ==
        [out |-> acc.out \o <<m>> \o Results(SetToSeq(m.calls \ acc.there)),
         there |-> acc.there \cup m.calls]
  IN FoldLeft(Stubs, [out |-> <<>>, there |-> there], kept).out

\* budget_context's groups: an assistant's calls with the results behind it.
Groups(seq) ==
  LET Add(acc, m) ==
        IF m.role = "tool" /\ acc # <<>> /\ Head(Last(acc)).calls # {}
        THEN Append(Front(acc), Append(Last(acc), m))
        ELSE Append(acc, <<m>>)
  IN FoldLeft(Add, <<>>, seq)

\* What budget_context may leave of a list: each group that reaches into the
\* last three messages, of the others those that fit.
Prompts(seq) ==
  LET groups == Groups(seq)
      upto(g) == Len(FlattenSeq(SubSeq(groups, 1, g)))
      kept == {g \in DOMAIN groups : upto(g) > Len(seq) - 3}
      Chosen(set) == FlattenSeq([g \in DOMAIN groups |->
                                   IF g \in set \cup kept THEN groups[g] ELSE <<>>])
  IN {Enforced(Chosen(set)) : set \in SUBSET (DOMAIN groups \ kept)}

-----------------------------------------------------------------------------
LoopInit ==
  /\ config \in [private : BOOLEAN, limit : Limits]
  /\ transcript = <<>> /\ disk = <<>> /\ cursor = 0 /\ checkpoint = <<>>
  /\ at = "idle" /\ messages = <<>> /\ skip = 0 /\ iteration = 0
  /\ answered = FALSE /\ batch = <<>> /\ running = FALSE
  /\ steering = Closed /\ stopIdle = FALSE /\ openOp = FALSE /\ again = 0
  /\ turn = [user |-> 0, open |-> FALSE, made |-> 0]
  /\ clearing = FALSE
  /\ users = 0 /\ made = 0 /\ troubles = 0
  /\ past = [shifted |-> FALSE, overlapped |-> FALSE, users |-> 0, made |-> 0]

Trouble == troubles < MaxTroubles /\ troubles' = troubles + 1

NoTurn ==
  /\ at' = "idle" /\ messages' = <<>> /\ skip' = 0 /\ iteration' = 0
  /\ answered' = FALSE /\ batch' = <<>> /\ running' = FALSE

-----------------------------------------------------------------------------
(* A turn begins: _process_message up to the loop, and the loop's start.   *)

\* load_checkpoint's messages, and the newest user message of the list the
\* turn came with unless they end with it.
Resumed(saved, initial) ==
  LET mine == {i \in DOMAIN initial : initial[i].role = "user"}
      fresh == initial[CHOOSE i \in mine : \A j \in mine : j <= i]
  IN IF mine = {} \/ Last(saved) = fresh THEN saved ELSE Append(saved, fresh)

Begins(input, presaved, note) ==
  LET history == History(transcript, cursor)
      initial == history \o (IF note THEN <<Note>> ELSE <<>>) \o <<input>>
      resumes == checkpoint # <<>>
  IN /\ at = "idle"
     /\ transcript' = IF presaved = 1 THEN Append(transcript, input) ELSE transcript
     /\ disk' = IF config.private THEN disk ELSE transcript'
     /\ at' = "starting"
     /\ messages' = IF resumes THEN Resumed(checkpoint, initial) ELSE initial
     /\ skip' = Len(history) + presaved
     /\ turn' = [user |-> IF presaved = 1 THEN input.id ELSE 0, open |-> TRUE, made |-> made]
     /\ openOp' = FALSE /\ again' = 0
     /\ past' = [past EXCEPT !.shifted = @ \/ resumes \/ note, !.overlapped = @ \/ clearing]
     /\ UNCHANGED <<config, cursor, checkpoint, iteration, answered, batch, running, steering,
                    stopIdle, clearing, made>>

\* A user's message.
Receives ==
  /\ users < MaxUsers /\ users' = users + 1
  /\ Begins(User(users + 1), 1, FALSE)
  /\ UNCHANGED troubles

\* The input a crash interrupted, delivered again while its turn is open.
Redelivers ==
  /\ again # 0
  /\ Begins(User(again), 1, openOp)
  /\ UNCHANGED <<users, troubles>>

\* A delegated worker's report: a system message, not saved beforehand.
Reports ==
  /\ Trouble
  /\ Begins(Report(troubles + 1), 0, FALSE)
  /\ UNCHANGED users

\* Mutant: the index is one too far.
GoesPartlyIntoSession(list) ==
  /\ transcript' = transcript \o SubSeq(list, skip + 2, Len(list))
  /\ messages' = list /\ at' = "saving"
  /\ iteration' = 0 /\ answered' = FALSE /\ batch' = <<>> /\ running' = FALSE
  /\ stopIdle' = FALSE

\* The loop leaves the session what is behind the index.
GoesIntoSession(list) ==
  /\ transcript' = transcript \o SubSeq(list, skip + 1, Len(list))
  /\ messages' = list /\ at' = "saving"
  /\ iteration' = 0 /\ answered' = FALSE /\ batch' = <<>> /\ running' = FALSE
  /\ stopIdle' = FALSE

\* No provider, or a model the profile does not allow.
Refuses ==
  /\ at = "starting"
  /\ GoesIntoSession(messages)
  /\ UNCHANGED <<config, disk, cursor, checkpoint, skip, steering, openOp, turn, again,
                 clearing, counts, past>>

EntersLoop ==
  /\ at = "starting" /\ at' = "loop"
  /\ steering' = [steering EXCEPT !.there = TRUE]
  /\ UNCHANGED <<config, session, checkpoint, messages, skip, iteration, answered, batch, running,
                 journal, clearing, counts, past>>
-----------------------------------------------------------------------------
(* One iteration.                                                          *)

\* The end of _run_agent_loop_inner, and _save_turn.
Leaves(list, keep) ==
  /\ GoesIntoSession(list)
  /\ checkpoint' = IF config.private THEN checkpoint ELSE IF keep THEN list ELSE <<>>
  /\ steering' = Closed
  /\ UNCHANGED <<config, disk, cursor, skip, openOp, turn, again, clearing, users,
                 troubles, past>>

IterationsLeft == config.limit = 0 \/ iteration < config.limit

MaxIterations ==
  /\ at = "loop" /\ ~IterationsLeft
  /\ Leaves(messages, ~answered)
  /\ UNCHANGED made

HardStepCap ==
  /\ at = "loop" /\ IterationsLeft /\ iteration >= HardCap
  /\ Leaves(messages, TRUE)
  /\ UNCHANGED made

MayIterate == at = "loop" /\ IterationsLeft /\ iteration < HardCap

\* Steering messages are taken before the time is looked at.
WallTimeout ==
  /\ MayIterate
  /\ Leaves(messages \o steering.msgs, TRUE)
  /\ UNCHANGED made

\* The checkpoint is saved, the provider asked.
Iterates ==
  /\ MayIterate
  /\ messages' = messages \o steering.msgs
  /\ steering' = [steering EXCEPT !.msgs = <<>>]
  /\ iteration' = iteration + 1
  /\ checkpoint' = IF config.private THEN checkpoint ELSE messages'
  /\ at' = "asking"
  /\ UNCHANGED <<config, session, skip, answered, batch, running, journal, clearing, counts, past>>

\* The context or the cost is over its limit: the response is dropped.
OverLimit ==
  /\ at = "asking"
  /\ Leaves(messages, TRUE)
  /\ UNCHANGED made

ErrorReply ==
  /\ at = "asking"
  /\ Leaves(messages, FALSE)
  /\ UNCHANGED made

\* Without tool calls the loop ends, unless the user has steered meanwhile.
Replies ==
  LET list == Append(messages, Assistant(made + 1, {}))
  IN /\ at = "asking" /\ made < MaxMade /\ made' = made + 1
     /\ \/ /\ steering.msgs = <<>>
           /\ Leaves(list, FALSE)
        \/ /\ steering.msgs # <<>>
           /\ messages' = list /\ answered' = TRUE /\ at' = "loop"
           /\ UNCHANGED <<config, session, checkpoint, skip, iteration, batch, running, steering,
                          journal, clearing, users, troubles, past>>

CallsTools(n) ==
  LET calls == CallsOf(made + 1, n)
  IN /\ at = "asking" /\ made < MaxMade /\ made' = made + 1
     /\ messages' = Append(messages, Assistant(made + 1, ToSet(calls)))
     /\ batch' = calls /\ at' = "tools"
     /\ UNCHANGED <<config, session, checkpoint, skip, iteration, answered, running, steering,
                    journal, clearing, users, troubles, past>>
-----------------------------------------------------------------------------
(* The tool calls of a response, in their order.                           *)

\* Recovery pivots and reassessments follow the results of the batch (the note on
\* a response said three times stands before it, and is left out).
Pivots == {<<>>, <<Pivot>>}

Answers ==
  /\ batch' = Tail(batch) /\ running' = FALSE
  /\ \E pivots \in Pivots :
       messages' = messages \o <<Result(Head(batch))>> \o (IF Len(batch) = 1 THEN pivots ELSE <<>>)
  /\ at' = IF Len(batch) = 1 THEN "loop" ELSE "tools"
  /\ UNCHANGED <<config, session, checkpoint, skip, iteration, answered, steering, stopIdle, turn,
                 again, clearing, counts, past>>

\* A call that may not run is answered all the same: the same call a third
\* time, a tool the profile or the sender may not use, bad arguments.
AnswersUnrun ==
  /\ at = "tools" /\ ~running
  /\ Answers
  /\ UNCHANGED openOp

StartsTool ==
  /\ at = "tools" /\ ~running /\ ~stopIdle
  /\ running' = TRUE /\ openOp' = TRUE
  /\ UNCHANGED <<config, session, checkpoint, at, messages, skip, iteration, answered, batch,
                 steering, stopIdle, turn, again, clearing, counts, past>>

\* Up to three tries, for a transient error of a tool that is safe to call again;
\* a timeout or an exception of the tool is a result too.
EndsTool ==
  /\ at = "tools" /\ running /\ openOp' = FALSE
  /\ Answers

\* Mutant: only the call that met the stop is answered.
HaltsUnanswered ==
  /\ at = "tools" /\ ~running /\ stopIdle
  /\ \E pivots \in Pivots : Leaves(messages \o <<Result(Head(batch))>> \o pivots, FALSE)
  /\ UNCHANGED made

\* The stop when idle halts the turn: the calls that are left get a result.
HaltsWhenIdle ==
  /\ at = "tools" /\ ~running /\ stopIdle
  /\ \E pivots \in Pivots : Leaves(messages \o Results(batch) \o pivots, FALSE)
  /\ UNCHANGED made

\* The journal cannot be read or written.
JournalFails ==
  /\ Trouble
  /\ at = "tools"
  /\ \E pivots \in Pivots :
       /\ GoesIntoSession(messages \o Results(batch) \o pivots)
       /\ checkpoint' = IF config.private THEN checkpoint ELSE <<>>
  /\ steering' = Closed
  /\ UNCHANGED <<config, disk, cursor, skip, openOp, turn, again, clearing, users, made, past>>

\* asave is done: the turn is committed.
Saved ==
  /\ at = "saving" /\ NoTurn
  /\ disk' = IF config.private THEN disk ELSE transcript
  /\ turn' = [turn EXCEPT !.open = FALSE] /\ openOp' = FALSE
  /\ UNCHANGED <<config, transcript, cursor, checkpoint, steering, stopIdle, again, clearing,
                 counts, past>>
-----------------------------------------------------------------------------
(* What comes from outside.                                                *)

Steers ==
  /\ steering.there /\ users < MaxUsers /\ users' = users + 1
  /\ steering' = [steering EXCEPT !.msgs = Append(@, User(users'))]
  /\ UNCHANGED <<config, session, checkpoint, loop, journal, clearing, made, troubles, past>>

\* /stop idle; as any message it opens a journal turn of its own.
StopsWhenIdle ==
  /\ Trouble
  /\ at # "idle" /\ stopIdle' = TRUE
  /\ turn' = [turn EXCEPT !.open = FALSE]
  /\ UNCHANGED <<config, session, checkpoint, loop, steering, openOp, again, clearing, users, made, past>>

\* The turn's task is cancelled: the checkpoint and the steering queue stay.
Cancelled ==
  /\ NoTurn
  /\ disk' \in IF at = "saving" /\ ~config.private THEN {disk, transcript} ELSE {disk}
  /\ turn' = [turn EXCEPT !.open = FALSE]
  /\ openOp' = FALSE /\ stopIdle' = FALSE /\ again' = 0

Stops ==
  /\ Trouble
  /\ at # "idle" /\ Cancelled
  /\ UNCHANGED <<config, transcript, cursor, checkpoint, steering, clearing, users, made, past>>

\* The provider, or something else in the turn, raises.
TurnFails ==
  /\ Trouble
  /\ at \in {"starting", "asking", "tools"} /\ NoTurn
  /\ stopIdle' = FALSE
  /\ UNCHANGED <<config, session, checkpoint, steering, openOp, turn, again, clearing, users, made, past>>

\* /new cancels the turn and waits for it ...
NewStops ==
  /\ Trouble
  /\ ~clearing /\ clearing' = TRUE
  /\ Cancelled
  /\ UNCHANGED <<config, transcript, cursor, checkpoint, steering, users, made, past>>

\* Mutant: /new leaves the checkpoint.
NewKeepsCheckpoint ==
  /\ clearing /\ clearing' = FALSE
  /\ steering' = Closed
  /\ transcript' = <<>> /\ disk' = <<>> /\ cursor' = 0
  /\ past' = [past EXCEPT !.users = users, !.made = made]
  /\ UNCHANGED <<config, checkpoint, loop, journal, counts>>

\* Mutant: /new leaves the consolidation cursor.
NewKeepsCursor ==
  /\ clearing /\ clearing' = FALSE
  /\ checkpoint' = <<>> /\ steering' = Closed
  /\ transcript' = <<>> /\ disk' = <<>>
  /\ past' = [past EXCEPT !.users = users, !.made = made]
  /\ UNCHANGED <<config, cursor, loop, journal, counts>>

\* ... then clears what there is of the session, a turn that has begun
\* meanwhile (a direct /new holds no lock) or not.
NewClears ==
  /\ clearing /\ clearing' = FALSE
  /\ checkpoint' = <<>> /\ steering' = Closed
  /\ transcript' = <<>> /\ disk' = <<>> /\ cursor' = 0
  /\ past' = [past EXCEPT !.users = users, !.made = made]
  /\ UNCHANGED <<config, loop, journal, counts>>

Crashes ==
  /\ Trouble
  /\ NoTurn
  /\ transcript' = disk /\ cursor' = IF config.private THEN 0 ELSE cursor
  /\ steering' = Closed /\ clearing' = FALSE
  /\ stopIdle' = (stopIdle /\ ~config.private)
  /\ openOp' = (openOp /\ ~config.private)
  /\ again' = IF at # "idle" /\ turn.open THEN turn.user ELSE 0
  /\ UNCHANGED <<config, disk, checkpoint, turn, users, made, past>>

\* maybe_consolidate_by_tokens: up to a later user message.
Consolidates ==
  /\ Trouble
  /\ ~config.private
  /\ \E i \in cursor + 1 .. Len(transcript) - 1 :
       transcript[i + 1].role = "user" /\ cursor' = i
  /\ disk' = transcript
  /\ UNCHANGED <<config, transcript, checkpoint, loop, steering, journal, clearing, users, made, past>>

\* The WebUI truncates the session; it does not know of the checkpoint.
Rewinds ==
  /\ Trouble
  /\ at = "idle" /\ ~clearing /\ ~config.private /\ disk = transcript
  /\ \E k \in 0 .. Len(transcript) - 1 : transcript' = LegalPart(SubSeq(transcript, 1, k))
  /\ disk' = transcript'
  /\ cursor' = IF cursor > Len(transcript') THEN Len(transcript') ELSE cursor
  /\ UNCHANGED <<config, checkpoint, loop, steering, journal, clearing, users, made, past>>
-----------------------------------------------------------------------------
Runs ==
  \/ Refuses \/ EntersLoop
  \/ MaxIterations \/ HardStepCap \/ WallTimeout \/ Iterates
  \/ OverLimit \/ ErrorReply \/ Replies \/ (\E n \in 1..MaxBatch : CallsTools(n))
  \/ AnswersUnrun \/ StartsTool \/ EndsTool \/ HaltsWhenIdle
  \/ Saved

LoopNext ==
  \/ Receives \/ Redelivers \/ Reports
  \/ Runs
  \/ JournalFails \/ TurnFails
  \/ Steers \/ StopsWhenIdle \/ Stops \/ NewStops \/ NewClears
  \/ Crashes \/ Consolidates \/ Rewinds

LoopSpec == LoopInit /\ [][LoopNext]_loopVars
-----------------------------------------------------------------------------
Roles == {"user", "assistant", "tool", "system"}
MessageType == [role : Roles, id : Int, calls : SUBSET Nat]
Lists == Seq(MessageType)

\* Types; the cursor points into the session and into its file, and a private
\* session leaves neither a checkpoint nor a file.
LoopTypeOK ==
  /\ config \in [private : BOOLEAN, limit : Limits]
  /\ transcript \in Lists /\ disk \in Lists /\ checkpoint \in Lists /\ messages \in Lists
  /\ cursor \in 0..Len(transcript) /\ (~config.private => cursor <= Len(disk))
  /\ at \in {"idle", "starting", "loop", "asking", "tools", "saving"}
  /\ skip \in Nat /\ iteration \in 0..HardCap /\ answered \in BOOLEAN /\ running \in BOOLEAN
  /\ batch \in Seq(Nat) /\ (at = "tools" <=> batch # <<>>)
  /\ steering \in [there : BOOLEAN, msgs : Lists]
  /\ stopIdle \in BOOLEAN /\ openOp \in BOOLEAN /\ clearing \in BOOLEAN
  /\ turn \in [user : Nat, open : BOOLEAN, made : Nat] /\ again \in Nat
  /\ {users, made, troubles} \subseteq Nat
  /\ past \in [shifted : BOOLEAN, overlapped : BOOLEAN, users : Nat, made : Nat]
  /\ config.private => checkpoint = <<>> /\ disk = <<>>

\* Each assistant's calls stand with their results right behind, once each.
Legal(seq) ==
  LET groups == Groups(seq)
  IN \A g \in DOMAIN groups :
       LET results == Tail(groups[g])
       IN /\ Head(groups[g]).role # "tool"
          /\ {results[i].id : i \in DOMAIN results} = Head(groups[g]).calls
          /\ \A i, j \in DOMAIN results : results[i].id = results[j].id => i = j

\* However a batch of tool calls ends, run, refused, halted or cut off by the
\* journal, each call of the turn has its result right behind the calls when the
\* provider is asked next and when the turn goes into the session.
BatchesComplete ==
  LET mine(i) == messages[i].role = "assistant" /\ messages[i].id > turn.made
  IN at \in {"loop", "asking", "saving"} =>
       \A i \in DOMAIN messages : mine(i) =>
         \A c \in messages[i].calls :
           \E j \in i + 1 .. Len(messages) :
             messages[j] = Result(c) /\ \A k \in i + 1 .. j : messages[k].role = "tool"

\* Whatever is pruned, the provider gets each call with its results right behind
\* it and no result without its call, over stops, crashes, failures, steering,
\* consolidations and rewinds that cut a batch in two, as long as no turn of the
\* session has begun from a checkpoint or with an interruption note: those turns
\* are saved from an index that was counted in another list.
PromptIsLegal ==
  (at = "asking" /\ ~past.shifted) => \A p \in Prompts(messages) : Legal(p)

\* With the same exception, and but for a turn that began while /new was waiting,
\* the session has all a turn said when the turn ends, and has it once.
TurnsKeptOnce ==
  past.shifted \/ past.overlapped \/
    /\ at = "saving" => ToSet(messages) \subseteq ToSet(transcript)
    /\ \A i, j \in DOMAIN transcript :
         transcript[i] = transcript[j] /\ transcript[i].role \in {"assistant", "tool"} => i = j

\* No prompt after /new shows what was said before it, by the session, a
\* checkpoint or a steering queue; the exception is a turn that begins while /new
\* waits for the turn it cancelled, which a direct /new lets in.
NewForgets ==
  (at = "asking" /\ ~past.overlapped) =>
    \A i \in DOMAIN messages :
      /\ messages[i].role = "user" /\ messages[i].id > 0 => messages[i].id > past.users
      /\ messages[i].role = "assistant" /\ messages[i].id > 0 => messages[i].id > past.made
=============================================================================
