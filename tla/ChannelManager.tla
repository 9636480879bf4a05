--------------------------- MODULE ChannelManager ---------------------------
(***************************************************************************)
(* The chat channels (integrations/manager.py, bus/queue.py): a table of   *)
(* channel objects, a table of the tasks that poll for them, and one       *)
(* dispatcher that takes outbound messages to them.  A reload stops the    *)
(* channels whose section has changed and starts the new ones; two reloads *)
(* take no notice of each other.  An object is the number under which it   *)
(* was made, 0 for none; a section is a version, 0 for off.                *)
(***************************************************************************)
EXTENDS Naturals, SequencesExt

CONSTANTS
  Channels,    \* names of channels
  Jobs,        \* tasks of _do_reload
  MaxOut       \* bound: outbound messages, without reports

ASSUME ChannelAssumption ==
  IsFiniteSet(Channels) /\ "none" \notin Channels /\ MaxOut \in Nat

VARIABLES
  made,        \* the channel objects made so far: channel and version
  channels,    \* self.channels
  tasks,       \* self._channel_tasks, by the object each polls for
  polling,     \* the objects whose task runs and which were not stopped
  missing,     \* channels that could not be made
  stop,        \* per reload: the channel it stops, what it awaits, and the others to stop
  dispatching, \* self._dispatch_task runs
  outbound,    \* the bus's outbound queue: where to, and where from
  published,   \* outbound messages so far, without reports
  dropped      \* how many of them met no channel though theirs was on

tables == <<made, channels, tasks, polling, missing>>
delivery == <<dispatching, outbound, published, dropped>>
channelVars == <<tables, stop, delivery>>

Enabled(cfg) == {c \in Channels : cfg[c] # 0}
Nothing == [at |-> "none", awaits |-> "nothing", rest |-> {}]

\* Channels are made and their tasks created; one whose class raises is left out.
Starts(cfg, table, task, polls) ==
  \E failed \in SUBSET {c \in Enabled(cfg) : table[c] = 0} :
    LET new == SetToSeq({c \in Enabled(cfg) : table[c] = 0} \ failed)
        number(c) == Len(made) + (CHOOSE i \in DOMAIN new : new[i] = c)
    IN /\ made' = made \o [i \in DOMAIN new |-> [channel |-> new[i], version |-> cfg[new[i]]]]
       /\ channels' = [c \in Channels |-> IF c \in Range(new) THEN number(c) ELSE table[c]]
       /\ tasks' = [c \in Channels |-> IF c \in Range(new) THEN number(c) ELSE task[c]]
       /\ polling' = polls \cup {number(c) : c \in Range(new)}
       /\ missing' = failed

\* start_all: the dispatcher is started with the channels, if there are any.
ChannelInit(cfg) ==
  LET on == SetToSeq(Enabled(cfg))
      number(c) == IF cfg[c] = 0 THEN 0 ELSE CHOOSE i \in DOMAIN on : on[i] = c
  IN /\ made = [i \in DOMAIN on |-> [channel |-> on[i], version |-> cfg[on[i]]]]
     /\ channels = [c \in Channels |-> number(c)] /\ tasks = channels
     /\ polling = DOMAIN on /\ missing = {}
     /\ stop = [r \in Jobs |-> Nothing]
     /\ dispatching = (on # <<>>)
     /\ outbound = <<>> /\ published = 0 /\ dropped = 0

\* reconfigure goes on to the next channel it has to stop, or starts the new ones.
\* What another reload has taken out of both tables meanwhile is passed over.
NextChannel(r, cfg, rest) ==
  LET left == {c \in rest : channels[c] # 0 \/ tasks[c] # 0}
  IN \/ /\ left = {}
        /\ stop' = [stop EXCEPT ![r] = Nothing]
        /\ Starts(cfg, channels, tasks, polling)
     \/ \E c \in left :
          /\ stop' = [stop EXCEPT ![r] = [at |-> c, rest |-> left \ {c},
                        awaits |-> IF channels[c] # 0 THEN "stop" ELSE "task"]]
          /\ IF channels[c] # 0
             THEN /\ channels' = [channels EXCEPT ![c] = 0] /\ polling' = polling \ {channels[c]}
                  /\ UNCHANGED tasks
             ELSE /\ tasks' = [tasks EXCEPT ![c] = 0] /\ polling' = polling \ {tasks[c]}
                  /\ UNCHANGED channels
          /\ UNCHANGED <<made, missing>>

\* reconfigure: the channels removed or changed, and the first of them.
Differ(r, cfg) ==
  NextChannel(r, cfg, {c \in Channels : channels[c] # 0 /\ made[channels[c]].version # cfg[c]})

\* channel.stop() is over: the task of that name is cancelled and awaited.
Stopped(r, cfg) ==
  LET c == stop[r].at
  IN /\ stop[r].awaits = "stop"
     /\ \/ tasks[c] = 0 /\ NextChannel(r, cfg, stop[r].rest)
        \/ /\ tasks[c] # 0
           /\ tasks' = [tasks EXCEPT ![c] = 0] /\ polling' = polling \ {tasks[c]}
           /\ stop' = [stop EXCEPT ![r].awaits = "task"]
           /\ UNCHANGED <<made, channels, missing>>

TaskEnded(r, cfg) ==
  /\ stop[r].awaits = "task"
  /\ NextChannel(r, cfg, stop[r].rest)

Publishes(c, origin) ==
  /\ published < MaxOut /\ published' = published + 1
  /\ outbound' = Append(outbound, [channel |-> c, origin |-> origin])
  /\ UNCHANGED <<dispatching, dropped>>

\* _dispatch_outbound: to the channel's object, if there is one; a failed delivery
\* is reported to the channel the message came from, if that is another one.
Dispatches(expected) ==
  LET msg == Head(outbound)
      c == msg.channel
  IN /\ dispatching /\ outbound # <<>>
     /\ \/ outbound' = Tail(outbound)
        \/ /\ channels[c] # 0 /\ msg.origin # c
           /\ outbound' = Append(Tail(outbound), [channel |-> msg.origin, origin |-> msg.origin])
     /\ dropped' = IF channels[c] = 0 /\ c \in expected THEN dropped + 1 ELSE dropped
     /\ UNCHANGED <<dispatching, published>>

ChannelTypeOK ==
  /\ made \in Seq([channel : Channels, version : Nat])
  /\ \A c \in Channels : {channels[c], tasks[c]} \subseteq 0..Len(made)
  /\ polling \subseteq DOMAIN made /\ missing \subseteq Channels
  /\ \A r \in Jobs : (stop[r].at \in Channels) = (stop[r].awaits \in {"stop", "task"})
  /\ outbound \in Seq([channel : Channels, origin : Channels])
  /\ published \in 0..MaxOut /\ dropped \in Nat
=============================================================================
