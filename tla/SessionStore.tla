---------------------------- MODULE SessionStore ----------------------------
(***************************************************************************)
(* One session and its file (brain/manager.py: PackManager), written by    *)
(* the turns of the gateway in executor threads (asave), by its background *)
(* consolidation and learning on the event loop (agent/memory.py), and by  *)
(* the WebUI process, which has a PackManager of its own.                  *)
(*                                                                         *)
(* Session objects are shared by reference: a turn or a background task    *)
(* keeps the object it got while the cache may go on to another one.  A    *)
(* save decides, writes the file, and notes what it wrote; another thread  *)
(* or process may act between any two of these.  A file's mtime matters    *)
(* only by being the one a cache remembers, so a stamp is "current", "old" *)
(* or "none" (no file then).  Messages are numbered as they are added.     *)
(***************************************************************************)
EXTENDS Naturals, Sequences, FiniteSets, SequencesExt

CONSTANTS
  Objs,            \* identities of Session objects: the bound on those alive at once
  Consolidators,   \* background runs of maybe_consolidate_by_tokens
  Learners,        \* background runs of maybe_proactive_learn
  NoObj,           \* no object
  MaxMsgs,         \* bound: messages ever added
  MaxTroubles      \* bound: edits in the WebUI, /new commands, cancelled turns,
                   \* saves that raise and restarts of the gateway, in all

ASSUME ObjsAssumption == NoObj \notin Objs
ASSUME LimitsAssumption == MaxMsgs \in Nat /\ MaxTroubles \in Nat
ASSUME TasksAssumption == Consolidators \cap Learners = {}

Procs == {"gateway", "webui"}
Bgs == Consolidators \cup Learners

\* The threads of the gateway that save: the turn's executor thread, that of a
\* turn cancelled meanwhile, the event loop itself; and the WebUI.
GatewaySavers == {"turn", "late", "loop"}
Savers == GatewaySavers \cup {"webui"}
ProcOf(s) == IF s = "webui" THEN "webui" ELSE "gateway"

VARIABLES
  obj,        \* the Session objects
  cache,      \* _cache[key] of each process
  stamp,      \* _cache_mtime_ns[key]: "current", "old" or "none"
  known,      \* _cache_persisted_*[key]: what the file held, as far as known
  file,       \* the session's file
  saver,      \* the saves in progress
  turn,       \* the turn in progress: where it is and its session object
  bg,         \* background tasks: where, their object, and the chunk's end or length
  left,       \* what is left of each bound
  said,       \* history: the messages of the conversation, in order
  saved,      \* history: the messages some save has reported as written
  rev,        \* history: the newest metadata edit
  hazards     \* history: the disturbances that have happened

sessionVars == <<obj, cache, stamp, known, file, saver, turn, bg, left, said, saved, rev, hazards>>

-----------------------------------------------------------------------------
EmptySession == [msgs |-> <<>>, cons |-> 0, learned |-> 0, rev |-> 0, private |-> FALSE]
NoFile == [exists |-> FALSE, torn |-> FALSE, msgs |-> <<>>, cons |-> 0, learned |-> 0, rev |-> 0]
Unknown == [known |-> FALSE, count |-> 0, cons |-> 0, learned |-> 0, rev |-> 0]
Idle == [pc |-> "idle", obj |-> NoObj, append |-> FALSE, now |-> EmptySession, lines |-> <<>>]
NoTask == [pc |-> "none", obj |-> NoObj, n |-> 0]

SessionInit ==
  /\ obj = [o \in Objs |-> EmptySession]
  /\ cache = [p \in Procs |-> NoObj]
  /\ stamp = [p \in Procs |-> "none"]
  /\ known = [p \in Procs |-> Unknown]
  /\ file = NoFile
  /\ saver = [s \in Savers |-> Idle]
  /\ turn = [pc |-> "idle", obj |-> NoObj]
  /\ bg = [b \in Bgs |-> NoTask]
  /\ left = [msgs |-> MaxMsgs, troubles |-> MaxTroubles]
  /\ said = <<>>
  /\ saved = {}
  /\ rev = 0
  /\ hazards = {}

-----------------------------------------------------------------------------
(* Loading *)

\* The cached mtime is the one the file has now (None when there is none).
Fresh(p) == stamp[p] = IF file.exists THEN "current" ELSE "none"

Hit(p) == cache[p] # NoObj /\ Fresh(p)

Held(p) == {turn.obj} \cup {bg[b].obj : b \in Bgs} \cup {saver[s].obj : s \in Savers}
             \cup {cache[q] : q \in Procs \ {p}}

NewObj(p) == CHOOSE o \in Objs : o \notin Held(p)

\* o is the object of the lookup: the cached one, or one that nobody refers to.
IsLookup(p, o) == IF Hit(p) THEN o = cache[p] ELSE o = NewObj(p) /\ o \notin Held(p)

\* What _load makes of the file; one it cannot parse gives an empty session.
Loaded == IF file.exists /\ ~file.torn
          THEN [msgs |-> file.msgs, cons |-> file.cons, learned |-> file.learned,
                rev |-> file.rev, private |-> FALSE]
          ELSE EmptySession

\* get_or_create: the cached object while the file's mtime is the cached one,
\* else a new object read from the file, or an empty session.  o is the result.
GetOrCreate(p, o) ==
  /\ IsLookup(p, o)
  /\ IF Hit(p)
     THEN UNCHANGED <<cache, stamp, known>>
     ELSE
       /\ cache' = [cache EXCEPT ![p] = o]
       /\ stamp' = [stamp EXCEPT ![p] = IF file.exists THEN "current" ELSE "none"]
       /\ known' = [known EXCEPT ![p] =
            [known |-> TRUE, count |-> Len(Loaded.msgs), cons |-> Loaded.cons,
             learned |-> Loaded.learned, rev |-> Loaded.rev]]

\* The content of the object GetOrCreate returned.
Content(p) == IF Hit(p) THEN obj[cache[p]] ELSE Loaded

-----------------------------------------------------------------------------
(* Saving *)

\* Mutant: a session that has become shorter is appended to as well.
CanAppendShorter(k, s) ==
  file.exists /\ k.known /\ s.cons = k.cons /\ s.learned = k.learned /\ s.rev = k.rev

\* can_append, with what the caller's process knows of the file.
CanAppend(k, s) ==
  /\ file.exists
  /\ k.known
  /\ Len(s.msgs) >= k.count
  /\ s.cons = k.cons /\ s.learned = k.learned /\ s.rev = k.rev

\* The save of session s (object o) as decided at its start: the new lines to
\* append, or the whole session to put in the place of the file.
Decided(k, o, s) ==
  LET app == CanAppend(k, s) IN
  [pc |-> IF app /\ Len(s.msgs) = k.count THEN "note" ELSE "write",
   obj |-> o, append |-> app, now |-> s,
   lines |-> IF app THEN SubSeq(s.msgs, k.count + 1, Len(s.msgs)) ELSE s.msgs]

\* A write changes the mtime for every cache.
Aged == [p \in Procs |-> IF stamp[p] = "current" THEN "old" ELSE stamp[p]]

\* An append to a file that was deleted meanwhile makes one without metadata.
Appended(lines) ==
  [file EXCEPT !.exists = TRUE, !.msgs = @ \o lines]

SaveWrites(s) ==
  /\ saver[s].pc = "write"
  /\ IF saver[s].append
     THEN file' = Appended(saver[s].lines)
     ELSE \E now \in {saver[s].now, obj[saver[s].obj]} :
            file' = [exists |-> TRUE, torn |-> FALSE, msgs |-> now.msgs, cons |-> now.cons,
                     learned |-> now.learned, rev |-> now.rev]
  /\ stamp' = Aged
  /\ saver' = [saver EXCEPT ![s].pc = "note"]
  /\ UNCHANGED <<obj, cache, known, turn, bg, left, said, saved, rev, hazards>>

\* What save() remembers of the file it wrote: the object's length as it is now.
Noted(s) ==
  LET p == ProcOf(s)
      now == obj[saver[s].obj] IN
  IF saver[s].append
  THEN [known[p] EXCEPT !.known = TRUE, !.count = Len(now.msgs)]
  ELSE [known |-> TRUE, count |-> Len(now.msgs), cons |-> now.cons,
        learned |-> now.learned, rev |-> now.rev]

SaveNotes(s) ==
  LET p == ProcOf(s) IN
  /\ saver[s].pc = "note"
  /\ known' = [known EXCEPT ![p] = Noted(s)]
  /\ cache' = [cache EXCEPT ![p] = saver[s].obj]
  /\ stamp' = [stamp EXCEPT ![p] = IF file.exists THEN "current" ELSE "none"]
  /\ saver' = [saver EXCEPT ![s] = Idle]
  /\ saved' = saved \cup Range(saver[s].now.msgs)
  /\ UNCHANGED <<obj, file, turn, bg, left, said, rev, hazards>>

\* Mutant: the count is moved on before the lines are written.
SaveFailsCounted(s) ==
  /\ left.troubles > 0
  /\ saver[s].pc = "write"
  /\ \/ UNCHANGED <<file, stamp>> /\ hazards' = hazards \cup {"failed"}
     \/ /\ saver[s].append
        /\ \E n \in 1..Len(saver[s].lines), torn \in BOOLEAN :
             /\ file' = [Appended(SubSeq(saver[s].lines, 1, n)) EXCEPT !.torn = @ \/ torn]
             /\ hazards' = hazards \cup {IF torn THEN "torn" ELSE "failed"}
        /\ stamp' = Aged
  /\ saver' = [saver EXCEPT ![s] = Idle]
  /\ left' = [left EXCEPT !.troubles = @ - 1]
  /\ known' = [known EXCEPT ![ProcOf(s)] = Noted(s)]
  /\ UNCHANGED <<obj, cache, turn, bg, said, saved, rev>>

\* save() raises, having appended some of the lines, the last perhaps in part:
\* it is logged, and no more.
SaveFails(s) ==
  /\ left.troubles > 0
  /\ saver[s].pc = "write"
  /\ \/ UNCHANGED <<file, stamp>> /\ hazards' = hazards \cup {"failed"}
     \/ /\ saver[s].append
        /\ \E n \in 1..Len(saver[s].lines), torn \in BOOLEAN :
             /\ file' = [Appended(SubSeq(saver[s].lines, 1, n)) EXCEPT !.torn = @ \/ torn]
             /\ hazards' = hazards \cup {IF torn THEN "torn" ELSE "failed"}
        /\ stamp' = Aged
  /\ saver' = [saver EXCEPT ![s] = Idle]
  /\ left' = [left EXCEPT !.troubles = @ - 1]
  /\ UNCHANGED <<obj, cache, known, turn, bg, said, saved, rev>>

LoopFree == saver["loop"].pc = "idle"
Saving(S) == \E s \in S : saver[s].pc # "idle"
Overlap == IF Saving(GatewaySavers) THEN {"overlap"} ELSE {}

-----------------------------------------------------------------------------
(* The turns of the gateway, one at a time (the session's lock) *)

GatewayBusy == turn.pc # "idle" \/ Saving(GatewaySavers) \/ \E b \in Bgs : bg[b].pc # "none"

\* The lookup makes another object of a session somebody still works on.
Split == IF ~Hit("gateway") /\ GatewayBusy THEN {"split"} ELSE {}

TurnOpens ==
  /\ turn.pc = "idle" /\ LoopFree
  /\ \E o \in Objs :
       /\ GetOrCreate("gateway", o)
       /\ obj' = [obj EXCEPT ![o] = Content("gateway")]
       /\ turn' = [pc |-> "open", obj |-> o]
  /\ hazards' = hazards \cup Split \cup (IF Saving({"webui"}) THEN {"foreign"} ELSE {})
  /\ UNCHANGED <<file, saver, bg, left, said, saved, rev>>

\* session.messages.append, then asave.
Adds(o) ==
  /\ left.msgs > 0
  /\ LET m == MaxMsgs - left.msgs + 1
         s == [obj[o] EXCEPT !.msgs = Append(@, m)] IN
       /\ obj' = [obj EXCEPT ![o] = s]
       /\ said' = Append(said, m)
       /\ saver' = [saver EXCEPT !["turn"] = Decided(known["gateway"], o, s)]
  /\ left' = [left EXCEPT !.msgs = @ - 1]
  /\ hazards' = hazards \cup Overlap
  /\ UNCHANGED <<cache, stamp, known, file, bg, saved, rev>>

\* The user's entry is saved before the model is asked.
TurnSays ==
  /\ turn.pc = "open" /\ LoopFree
  /\ turn' = [turn EXCEPT !.pc = "asking"]
  /\ Adds(turn.obj)

\* An iteration of _run_agent_loop looks the session up again, for its
\* settings only: the turn keeps its object.
TurnLooksUp ==
  /\ turn.pc = "asking" /\ saver["turn"].pc = "idle" /\ LoopFree
  /\ ~Hit("gateway")
  /\ \E o \in Objs :
       /\ GetOrCreate("gateway", o)
       /\ obj' = [obj EXCEPT ![o] = Content("gateway")]
  /\ hazards' = hazards \cup Split
  /\ UNCHANGED <<file, saver, turn, bg, left, said, saved, rev>>

\* _save_turn and asave.
TurnAnswers ==
  /\ turn.pc = "asking" /\ saver["turn"].pc = "idle" /\ LoopFree
  /\ turn' = [turn EXCEPT !.pc = "saving"]
  /\ Adds(turn.obj)

\* The turn is committed; consolidation and learning are scheduled, and those
\* that find enough to do go on.
TurnEnds ==
  /\ turn.pc = "saving" /\ saver["turn"].pc = "idle" /\ LoopFree
  /\ turn' = [pc |-> "idle", obj |-> NoObj]
  /\ \E S \in SUBSET {b \in Bgs : bg[b].pc = "none"} :
       /\ Cardinality(S \cap Consolidators) <= 1 /\ Cardinality(S \cap Learners) <= 1
       /\ bg' = [b \in Bgs |-> IF b \in S THEN [pc |-> "due", obj |-> turn.obj, n |-> 0]
                                          ELSE bg[b]]
  /\ UNCHANGED <<obj, cache, stamp, known, file, saver, left, said, saved, rev, hazards>>

\* A stop cancels the turn; a save in its thread goes on.
TurnCancelled ==
  /\ turn.pc \in {"open", "asking", "saving"} /\ LoopFree /\ left.troubles > 0
  /\ left' = [left EXCEPT !.troubles = @ - 1]
  /\ turn' = [pc |-> "idle", obj |-> NoObj]
  /\ IF saver["turn"].pc = "idle" THEN UNCHANGED saver
     ELSE /\ saver["late"].pc = "idle"
          /\ saver' = [saver EXCEPT !["late"] = saver["turn"], !["turn"] = Idle]
  /\ UNCHANGED <<obj, cache, stamp, known, file, bg, said, saved, rev, hazards>>

\* /new: clear() empties the object (and leaves last_learned), asave.
NewClears ==
  /\ turn.pc = "open" /\ LoopFree /\ left.troubles > 0
  /\ LET s == [obj[turn.obj] EXCEPT !.msgs = <<>>, !.cons = 0] IN
       /\ obj' = [obj EXCEPT ![turn.obj] = s]
       /\ saver' = [saver EXCEPT !["turn"] = Decided(known["gateway"], turn.obj, s)]
  /\ turn' = [turn EXCEPT !.pc = "clearing"]
  /\ said' = <<>>
  /\ saved' = {}
  /\ left' = [left EXCEPT !.troubles = @ - 1]
  /\ hazards' = hazards \cup Overlap
                  \cup (IF \E b \in Bgs : bg[b].pc # "none" THEN {"cleared"} ELSE {})
  /\ UNCHANGED <<cache, stamp, known, file, bg, rev>>

\* ... then invalidate.
NewEnds ==
  /\ turn.pc = "clearing" /\ saver["turn"].pc = "idle" /\ LoopFree
  /\ turn' = [pc |-> "idle", obj |-> NoObj]
  /\ cache' = [cache EXCEPT !["gateway"] = NoObj]
  /\ stamp' = [stamp EXCEPT !["gateway"] = "none"]
  /\ UNCHANGED <<obj, known, file, saver, bg, left, said, saved, rev, hazards>>

-----------------------------------------------------------------------------
(* Consolidation and learning, on the event loop under the memory lock *)

MemoryLocked == \E b \in Bgs : bg[b].pc = "calling"

\* pick_consolidation_boundary and the call of the provider.
Summarises(c) ==
  /\ bg[c].pc = "due" /\ LoopFree /\ ~MemoryLocked
  /\ \/ \E n \in obj[bg[c].obj].cons + 1 .. Len(obj[bg[c].obj].msgs) :
          bg' = [bg EXCEPT ![c].pc = "calling", ![c].n = n]
     \/ bg' = [bg EXCEPT ![c] = NoTask]        \* no boundary, or no messages
  /\ UNCHANGED <<obj, cache, stamp, known, file, saver, turn, left, said, saved, rev, hazards>>

\* The chunk to learn is taken before the lock is waited for.
Chunks(l) ==
  /\ bg[l].pc = "due" /\ LoopFree
  /\ LET s == obj[bg[l].obj] IN
       bg' = IF Len(s.msgs) > s.learned
             THEN [bg EXCEPT ![l].pc = "waiting", ![l].n = Len(s.msgs) - s.learned]
             ELSE [bg EXCEPT ![l] = NoTask]
  /\ UNCHANGED <<obj, cache, stamp, known, file, saver, turn, left, said, saved, rev, hazards>>

Learns(l) ==
  /\ bg[l].pc = "waiting" /\ LoopFree /\ ~MemoryLocked
  /\ bg' = [bg EXCEPT ![l].pc = "calling"]
  /\ UNCHANGED <<obj, cache, stamp, known, file, saver, turn, left, said, saved, rev, hazards>>

\* Mutant: the cursor is moved by the chunk's end, not to it.
AdvancedBy(b, s) ==
  IF b \in Consolidators THEN [s EXCEPT !.cons = @ + bg[b].n]
                         ELSE [s EXCEPT !.learned = @ + bg[b].n]

Advanced(b, s) ==
  IF b \in Consolidators THEN [s EXCEPT !.cons = bg[b].n]
                         ELSE [s EXCEPT !.learned = @ + bg[b].n]

\* The provider answered: move the cursor of the object and save it, here.  A
\* consolidation may go for another round.
BgSaves(b) ==
  /\ bg[b].pc = "calling" /\ LoopFree
  /\ LET o == bg[b].obj
         s == Advanced(b, obj[o]) IN
       /\ obj' = [obj EXCEPT ![o] = s]
       /\ saver' = [saver EXCEPT !["loop"] = Decided(known["gateway"], o, s)]
  /\ \/ bg' = [bg EXCEPT ![b] = NoTask]
     \/ b \in Consolidators /\ bg' = [bg EXCEPT ![b].pc = "due"]
  /\ hazards' = hazards \cup Overlap
  /\ UNCHANGED <<cache, stamp, known, file, turn, left, said, saved, rev>>

\* The provider failed.
BgGivesUp(b) ==
  /\ bg[b].pc = "calling" /\ LoopFree
  /\ bg' = [bg EXCEPT ![b] = NoTask]
  /\ UNCHANGED <<obj, cache, stamp, known, file, saver, turn, left, said, saved, rev, hazards>>

-----------------------------------------------------------------------------
(* The WebUI: look the session up, change it and save it, in one go *)

\* Looks the session up, makes s of it and starts to save it; a private
\* session is kept in the cache, and its file deleted.
WebSaves(s) ==
  /\ left.troubles > 0 /\ saver["webui"].pc = "idle"
  /\ \E o \in Objs :
       /\ obj' = [obj EXCEPT ![o] = s]
       /\ IF s.private
          THEN /\ IsLookup("webui", o)
               /\ cache' = [cache EXCEPT !["webui"] = o]
               /\ stamp' = [Aged EXCEPT !["webui"] = "none"]
               /\ known' = [known EXCEPT !["webui"] = Unknown]
               /\ file' = NoFile
               /\ UNCHANGED saver
          ELSE /\ GetOrCreate("webui", o)
               /\ saver' = [saver EXCEPT !["webui"] = Decided(known'["webui"], o, s)]
               /\ UNCHANGED file
  /\ hazards' = hazards \cup (IF GatewayBusy THEN {"foreign"} ELSE {})
                        \cup (IF s.private THEN {"hidden"} ELSE {})
  /\ UNCHANGED <<turn, bg>>

\* PATCH: a nickname, a model, a permission mode.
WebEdits ==
  /\ WebSaves([Content("webui") EXCEPT !.rev = rev + 1])
  /\ left' = [left EXCEPT !.troubles = @ - 1]
  /\ rev' = rev + 1
  /\ UNCHANGED <<said, saved>>

\* deliver_background_notification: a message that the gateway did not write.
WebNotifies ==
  /\ left.msgs > 0
  /\ WebSaves([Content("webui") EXCEPT !.msgs = Append(@, MaxMsgs - left.msgs + 1)])
  /\ left' = [left EXCEPT !.troubles = @ - 1, !.msgs = @ - 1]
  /\ said' = Append(said, MaxMsgs - left.msgs + 1)
  /\ UNCHANGED <<saved, rev>>

\* PATCH: from here on the session is incognito.
WebHides ==
  /\ ~Content("webui").private
  /\ WebSaves([Content("webui") EXCEPT !.private = TRUE])
  /\ left' = [left EXCEPT !.troubles = @ - 1]
  /\ UNCHANGED <<said, saved, rev>>

\* Rewind: the session is cut off after a message; the save is made a rewrite.
RewoundTo(n) ==
  [Content("webui") EXCEPT !.msgs = SubSeq(@, 1, n), !.cons = IF @ < n THEN @ ELSE n,
                           !.learned = IF @ < n THEN @ ELSE n]

WebRewrites(s) ==
  /\ left.troubles > 0 /\ saver["webui"].pc = "idle"
  /\ \E o \in Objs :
       /\ IsLookup("webui", o)
       /\ obj' = [obj EXCEPT ![o] = s]
       /\ cache' = [cache EXCEPT !["webui"] = o]
       /\ saver' = [saver EXCEPT !["webui"] = Decided(Unknown, o, s)]
  /\ stamp' = [stamp EXCEPT !["webui"] = IF file.exists THEN "current" ELSE "none"]
  /\ known' = [known EXCEPT !["webui"] = Unknown]
  /\ hazards' = hazards \cup (IF GatewayBusy THEN {"foreign"} ELSE {})
  /\ UNCHANGED <<file, turn, bg>>

WebRewinds ==
  \E n \in 0 .. Len(Content("webui").msgs) - 1 :
    LET s == RewoundTo(n) IN
    /\ IF s.private THEN WebSaves(s) ELSE WebRewrites(s)
    /\ said' = s.msgs
    /\ saved' = saved \cap Range(s.msgs)
    /\ left' = [left EXCEPT !.troubles = @ - 1]
    /\ UNCHANGED rev

\* DELETE, and archive (whose snapshot goes to memory): the file goes, and with
\* it the conversation.
WebDeletes ==
  /\ left.troubles > 0 /\ saver["webui"].pc = "idle" /\ file.exists
  /\ file' = NoFile
  /\ cache' = [cache EXCEPT !["webui"] = NoObj]
  /\ stamp' = [Aged EXCEPT !["webui"] = "none"]
  /\ said' = <<>> /\ saved' = {} /\ rev' = 0
  /\ left' = [left EXCEPT !.troubles = @ - 1]
  /\ hazards' = hazards \cup (IF GatewayBusy THEN {"foreign"} ELSE {})
  /\ UNCHANGED <<obj, known, saver, turn, bg>>

-----------------------------------------------------------------------------
\* The gateway is killed and started again: of the conversation the file is what
\* is left, or what the WebUI is about to make of it.
GatewayRestarts ==
  /\ left.troubles > 0
  /\ left' = [left EXCEPT !.troubles = @ - 1]
  /\ cache' = [cache EXCEPT !["gateway"] = NoObj]
  /\ stamp' = [stamp EXCEPT !["gateway"] = "none"]
  /\ known' = [known EXCEPT !["gateway"] = Unknown]
  /\ saver' = [s \in Savers |-> IF s = "webui" THEN saver[s] ELSE Idle]
  /\ turn' = [pc |-> "idle", obj |-> NoObj]
  /\ bg' = [b \in Bgs |-> NoTask]
  /\ said' = IF Saving({"webui"}) THEN said ELSE file.msgs
  /\ UNCHANGED <<obj, file, saved, rev, hazards>>

SessionNext ==
  \/ TurnOpens \/ TurnSays \/ TurnLooksUp \/ TurnAnswers \/ TurnEnds \/ TurnCancelled
  \/ NewClears \/ NewEnds
  \/ \E c \in Consolidators : Summarises(c)
  \/ \E l \in Learners : Chunks(l) \/ Learns(l)
  \/ \E b \in Bgs : BgSaves(b) \/ BgGivesUp(b)
  \/ WebEdits \/ WebNotifies \/ WebHides \/ WebRewinds \/ WebDeletes
  \/ \E s \in Savers : SaveWrites(s) \/ SaveNotes(s) \/ SaveFails(s)
  \/ GatewayRestarts

SessionSpec == SessionInit /\ [][SessionNext]_sessionVars

-----------------------------------------------------------------------------
AtRest == turn.pc = "idle" /\ ~Saving(Savers)

SessionType == [msgs : Seq(1..MaxMsgs), cons : Nat, learned : Nat, rev : Nat,
                private : BOOLEAN]

FileType == [exists : BOOLEAN, torn : BOOLEAN, msgs : Seq(1..MaxMsgs), cons : Nat,
             learned : Nat, rev : Nat]

KnownType == [known : BOOLEAN, count : Nat, cons : Nat, learned : Nat, rev : Nat]

SaverType == [pc : {"idle", "write", "note"}, obj : Objs \cup {NoObj}, append : BOOLEAN,
              now : SessionType, lines : Seq(1..MaxMsgs)]

TurnType == [pc : {"idle", "open", "asking", "saving", "clearing"}, obj : Objs \cup {NoObj}]

TaskType == [pc : {"none", "due", "waiting", "calling"}, obj : Objs \cup {NoObj}, n : Nat]

SessionTypes ==
  /\ obj \in [Objs -> SessionType]
  /\ cache \in [Procs -> Objs \cup {NoObj}]
  /\ stamp \in [Procs -> {"current", "old", "none"}]
  /\ known \in [Procs -> KnownType]
  /\ file \in FileType
  /\ saver \in [Savers -> SaverType]
  /\ turn \in TurnType
  /\ bg \in [Bgs -> TaskType]
  /\ left \in [msgs : 0..MaxMsgs, troubles : 0..MaxTroubles]
  /\ said \in Seq(1..MaxMsgs) /\ saved \subseteq 1..MaxMsgs /\ rev \in Nat
  /\ hazards \subseteq {"overlap", "split", "foreign", "cleared", "hidden", "failed", "torn"}

\* Types; and the cursor of what has been summarised points into the session, as
\* past its end it would hide from the model what is said next.
SessionTypeOK ==
  /\ SessionTypes
  /\ "cleared" \notin hazards =>
       /\ file.cons <= Len(file.msgs)
       /\ \A p \in Procs : cache[p] # NoObj => obj[cache[p]].cons <= Len(obj[cache[p]].msgs)

\* Once a save has succeeded, what the session held at its start is in the file
\* at every later moment, across failed saves, cancelled turns and restarts, as
\* long as no two savers worked on the session at once; and it is there once,
\* unless two savers met or a save failed.
SavedOnce ==
  /\ hazards \subseteq {"failed"} => saved \subseteq Range(file.msgs)
  /\ hazards \subseteq {"cleared", "hidden"} => IsInjective(file.msgs)

\* With nothing going on and no disturbance so far, the file is the conversation,
\* in order, with the newest metadata: appends, rewrites, reloads, /new, deletions
\* and edits in the other process between turns add up.
FileIsTheConversation ==
  AtRest /\ hazards = {} => file.msgs = said /\ (file.exists => file.rev = rev)
=============================================================================
