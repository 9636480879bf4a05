-------------------------- MODULE AutomationTimer --------------------------
(* The timer of shibaclaw/automation/service.py.  One gateway's service    *)
(* sleeps until the next run of a job, takes the due jobs, saves, and      *)
(* starts a task for each; a run that ends asks for a save and arms the    *)
(* timer again.  Meanwhile users enable, remove, approve and trigger jobs, *)
(* an evolve command adds one to the file, and the gateway may stop or     *)
(* crash and start again from the file.                                    *)
(*                                                                         *)
(* Everything runs on one event loop, so what lies between two awaits is   *)
(* one step; saves run in an executor.  Of time only what the timer tells  *)
(* apart is kept: a next run is none, later or due.  Approvals and merging *)
(* are AutomationStore's: here a job is held or not, and the command only  *)
(* adds jobs.                                                              *)
EXTENDS Naturals, Bags

CONSTANTS
    OneShots,     \* ids with an "at" schedule
    Recurring,    \* ids with an "every" or "cron" schedule
    Late,         \* recurring ids that an evolve command adds
    Held,         \* ids whose approval is missing or stale
    Vanishing,    \* one-shots with delete_after_run
    MaxRuns,      \* bound: run tasks at a time
    MaxEdits,     \* bound: calls that users make
    MaxEnds       \* bound: stops and crashes

Jobs == OneShots \cup Recurring

ASSUME TimerAssumption ==
    /\ OneShots \cap Recurring = {}
    /\ Late \subseteq Recurring /\ Held \subseteq Jobs /\ Vanishing \subseteq OneShots
    /\ MaxRuns \in Nat /\ MaxEdits \in Nat /\ MaxEnds \in Nat

VARIABLES
    saved,      \* automation.json: a function on the ids of its jobs
    jobs,       \* _jobs, the same in memory
    unread,     \* ids in the file that the service has not read
    service,    \* down, in start() awaiting overdue runs, or started
    timer,      \* _timer_task: none, asleep, in _on_timer's save, or past it
    batch,      \* what it sleeps for, then the due jobs it is to run
    runs,       \* the bag of run tasks
    asked,      \* _save_requested
    flush,      \* _save_task: none, created, saving, or past the save
    stray,      \* a write in the executor whose task has been cancelled
    passed,     \* one-shots whose time has come
    begun,      \* history: one-shots that have ever begun to run
    life,       \* history: <<one-shot, why>> begun since start(), unforced
    edited,     \* history: jobs that users enabled, disabled or removed
    edits, ends \* numbers of user calls, and of stops and crashes

file == <<saved, unread>>
tick == <<timer, batch, stray>>
saving == <<asked, flush>>
history == <<begun, life, edited>>
counters == <<edits, ends>>
vars == <<file, jobs, service, tick, runs, saving, passed, history, counters>>

Job == [enabled : BOOLEAN, next : {"none", "later", "due"}, ran : BOOLEAN]
Why == {"start", "timer", "force"}
Run == [job : Jobs, why : Why, at : {"created", "working", "ended"}]

-----------------------------------------------------------------------------
(* Helpers.                                                                *)

(* _compute_next_run.                                                      *)
NextRun(j) == IF j \in passed THEN "none" ELSE "later"

NewJob == [enabled |-> TRUE, next |-> "later", ran |-> FALSE]

(* Jobs that _get_next_wake_ms takes into account.                         *)
Waiting(js) == {j \in DOMAIN js : js[j].enabled /\ js[j].next # "none"}
Due(js) == {j \in Waiting(js) : js[j].next = "due"}

(* A new timer task, if there is anything to sleep for.                    *)
Arm(js) ==
    /\ batch' = Waiting(js)
    /\ timer' = IF Waiting(js) = {} THEN "off" ELSE "armed"

(* _rearm cancels the old task wherever it is, due jobs and all; the write *)
(* it awaits may already be on its way.                                    *)
Rearm(js) ==
    /\ Arm(js)
    /\ stray' \in {stray, stray \/ timer = "saving"}

(* sync_from_disk takes in what the command added.                         *)
WithUnread(js) ==
    [j \in DOMAIN js \cup unread |-> IF j \in DOMAIN js THEN js[j] ELSE saved[j]]
Synced == WithUnread(jobs)

(* _save_unlocked reads first and then writes every job.                   *)
WriteAll(js) == saved' = js /\ jobs' = js /\ unread' = {}

(* The tasks of the given jobs, on top of the others.                      *)
Tasks(js, why) == SetToBag({[job |-> j, why |-> why, at |-> "created"] : j \in js})

WithTasks(js, why) ==
    /\ runs' = runs (+) Tasks(js, why)
    /\ BagCardinality(runs') <= MaxRuns

MoveRun(r, at) == runs' = (runs (-) SetToBag({r})) (+) SetToBag({[r EXCEPT !.at = at]})

(* _request_save.                                                          *)
RequestSave ==
    /\ asked' = TRUE
    /\ flush' = IF flush = "none" THEN "created" ELSE flush

-----------------------------------------------------------------------------
(* The service starts and ends.                                            *)

(* start() moves past times of recurring jobs on.                          *)
Restarted(js) ==
    [j \in DOMAIN js |-> IF j \in Recurring /\ j \in Due(js)
                         THEN [js[j] EXCEPT !.next = NextRun(j)]
                         ELSE js[j]]

(* _fire_overdue_at_jobs: one-shots whose time has come and that never ran. *)
Overdue(js) == {j \in DOMAIN js \cap OneShots \cap passed : js[j].enabled /\ ~js[j].ran}

(* The gateway loads the file and starts: with overdue jobs it runs them   *)
(* first, though _rearm already works meanwhile.                           *)
Start ==
    /\ service = "down"
    /\ jobs' = Restarted(saved)
    /\ WithTasks(Overdue(saved), "start")
    /\ IF Overdue(saved) = {}
       THEN service' = "started" /\ Arm(Restarted(saved))
       ELSE service' = "starting" /\ UNCHANGED <<timer, batch>>
    /\ life' = {}
    /\ UNCHANGED <<file, stray, saving, passed, begun, edited, counters>>

(* The overdue runs are over.                                              *)
EndStart ==
    /\ service = "starting"
    /\ \A r \in BagToSet(runs) : r.why # "start"
    /\ service' = "started"
    /\ Rearm(jobs)
    /\ UNCHANGED <<file, jobs, runs, saving, passed, history, counters>>

(* A crash, or stop() and the end of the process: a requested save is made, *)
(* one under way may be, and a run task just ends.                         *)
End ==
    /\ service # "down" /\ ends < MaxEnds
    /\ ends' = ends + 1
    /\ saved' \in {saved} \cup
           (IF asked \/ stray \/ flush = "saving" \/ timer = "saving" THEN {Synced} ELSE {})
    /\ service' = "down"
    /\ jobs' = << >> /\ unread' = {}
    /\ timer' = "off" /\ batch' = {} /\ stray' = FALSE
    /\ runs' = EmptyBag
    /\ asked' = FALSE /\ flush' = "none"
    /\ UNCHANGED <<passed, history, edits>>

-----------------------------------------------------------------------------
(* Time and the timer.                                                     *)

Elapsed(js, j) ==
    IF j \in DOMAIN js /\ js[j].next = "later" THEN [js EXCEPT ![j].next = "due"] ELSE js

(* The next run of j is reached.                                           *)
Elapse(j) ==
    /\ passed' = passed \cup ({j} \cap OneShots)
    /\ jobs' = Elapsed(jobs, j)
    /\ saved' = Elapsed(saved, j)
    /\ UNCHANGED <<unread, service, tick, runs, saving, history, counters>>

(* Mutant: only recurring jobs get a next run.                             *)
AdvancedRecurring(js) ==
    [j \in DOMAIN js |-> IF j \in Due(js) \cap Recurring
                         THEN [js[j] EXCEPT !.next = NextRun(j)]
                         ELSE js[j]]

(* What _on_timer makes of the jobs: due ones get their next run.          *)
Advanced(js) ==
    [j \in DOMAIN js |-> IF j \in Due(js) THEN [js[j] EXCEPT !.next = NextRun(j)] ELSE js[j]]

(* The task wakes: _on_timer reads the file and takes the due jobs.        *)
Tick ==
    /\ timer = "armed" /\ batch \cap Due(jobs) # {}
    /\ jobs' = Advanced(Synced)
    /\ batch' = Due(Synced)
    /\ timer' = "saving"
    /\ unread' = {}
    /\ UNCHANGED <<saved, service, stray, runs, saving, passed, history, counters>>

(* Its save.                                                               *)
TickSaves ==
    /\ timer = "saving"
    /\ WriteAll(Synced)
    /\ timer' = "wrote"
    /\ UNCHANGED <<service, batch, stray, runs, saving, passed, history, counters>>

(* Mutant: nobody arms the timer again.                                    *)
TickRunsUnarmed ==
    /\ timer = "wrote"
    /\ timer' = "off" /\ batch' = {}
    /\ WithTasks(batch, "timer")
    /\ UNCHANGED <<file, jobs, service, stray, saving, passed, history, counters>>

(* After the save: the timer is armed again and the due jobs get a task,   *)
(* those that have been removed or disabled since too.                     *)
TickRuns ==
    /\ timer = "wrote"
    /\ Arm(jobs)
    /\ WithTasks(batch, "timer")
    /\ UNCHANGED <<file, jobs, service, stray, saving, passed, history, counters>>

-----------------------------------------------------------------------------
(* Run tasks.                                                              *)

(* The bookkeeping of a run, on a job that may have been removed since.    *)
Over(j, why) ==
    IF j \notin DOMAIN jobs THEN jobs
    ELSE [jobs EXCEPT ![j] =
             [enabled |-> @.enabled /\ j \notin OneShots,
              next |-> IF j \in OneShots THEN "none"
                       ELSE IF why = "force" THEN NextRun(j) ELSE @.next,
              ran |-> TRUE]]

(* _execute of a held job: it counts as run, and all is saved at once.     *)
BlockRun(r) ==
    /\ r.at = "created" /\ r.why # "force" /\ r.job \in Held
    /\ WriteAll(WithUnread(Over(r.job, r.why)))
    /\ MoveRun(r, "ended")
    /\ RequestSave
    /\ UNCHANGED <<service, tick, passed, history, counters>>

(* _execute begins: the agent's turn is under way.                         *)
BeginRun(r) ==
    /\ r.at = "created" /\ (r.why = "force" \/ r.job \notin Held)
    /\ MoveRun(r, "working")
    /\ begun' = begun \cup ({r.job} \cap OneShots)
    /\ life' = life \cup ({<<r.job, r.why>>} \cap (OneShots \X {"start", "timer"}))
    /\ UNCHANGED <<file, jobs, service, tick, saving, passed, edited, counters>>

(* The turn is over, in whatever way, and a save asked for.                *)
EndRun(r) ==
    /\ r.at = "working"
    /\ jobs' = IF r.job \in Vanishing
               THEN [j \in DOMAIN jobs \ {r.job} |-> jobs[j]]
               ELSE Over(r.job, r.why)
    /\ MoveRun(r, "ended")
    /\ RequestSave
    /\ UNCHANGED <<file, service, tick, passed, history, counters>>

(* The task arms the timer and ends.                                       *)
LeaveRun(r) ==
    /\ r.at = "ended"
    /\ runs' = runs (-) SetToBag({r})
    /\ Rearm(jobs)
    /\ UNCHANGED <<file, jobs, service, saving, passed, history, counters>>

-----------------------------------------------------------------------------
(* Requested saves.                                                        *)

(* _flush_requested_save takes the request.                                *)
FlushBegins ==
    /\ flush = "created"
    /\ asked' = FALSE
    /\ flush' = IF asked THEN "saving" ELSE "wrote"
    /\ UNCHANGED <<file, jobs, service, tick, runs, passed, history, counters>>

FlushSaves ==
    /\ flush = "saving"
    /\ WriteAll(Synced)
    /\ flush' = "wrote"
    /\ UNCHANGED <<service, tick, runs, asked, passed, history, counters>>

(* Mutant: the task ends without a look at the flag.                       *)
FlushEndsForGood ==
    /\ flush = "wrote"
    /\ flush' = "none"
    /\ UNCHANGED <<file, jobs, service, tick, runs, asked, passed, history, counters>>

(* Mutant: the flag is cleared after the save and not before.              *)
FlushEndsForgetful ==
    /\ flush = "wrote"
    /\ flush' = "none" /\ asked' = FALSE
    /\ UNCHANGED <<file, jobs, service, tick, runs, passed, history, counters>>

(* It ends, and starts over if another save has been asked for meanwhile.  *)
FlushEnds ==
    /\ flush = "wrote"
    /\ flush' = IF asked THEN "created" ELSE "none"
    /\ UNCHANGED <<file, jobs, service, tick, runs, asked, passed, history, counters>>

(* The executor makes the write that nobody awaits any more.               *)
StrayWrite ==
    /\ stray
    /\ WriteAll(Synced)
    /\ stray' = FALSE
    /\ UNCHANGED <<service, timer, batch, runs, saving, passed, history, counters>>

-----------------------------------------------------------------------------
(* Users and commands.                                                     *)

Call == service # "down" /\ edits < MaxEdits /\ edits' = edits + 1 /\ UNCHANGED ends

(* enable_job.                                                             *)
EnableJob(j, enabled) ==
    /\ Call /\ j \in DOMAIN Synced
    /\ WriteAll([Synced EXCEPT ![j].enabled = enabled,
                               ![j].next = IF enabled THEN NextRun(j) ELSE "none"])
    /\ Rearm(jobs')
    /\ edited' = edited \cup {j}
    /\ UNCHANGED <<service, runs, saving, passed, begun, life>>

(* remove_job.                                                             *)
RemoveJob(j) ==
    /\ Call /\ j \in DOMAIN Synced
    /\ WriteAll([i \in DOMAIN Synced \ {j} |-> Synced[i]])
    /\ Rearm(jobs')
    /\ edited' = edited \cup {j}
    /\ UNCHANGED <<service, runs, saving, passed, begun, life>>

(* approve_job and revoke_job_approval read and write, and arm nothing.    *)
ApproveJob ==
    /\ Call
    /\ WriteAll(Synced)
    /\ UNCHANGED <<service, tick, runs, saving, passed, history>>

(* run_job.                                                                *)
TriggerJob(j) ==
    /\ Call /\ j \in DOMAIN Synced
    /\ jobs' = Synced /\ unread' = {}
    /\ WithTasks({j}, "force")
    /\ UNCHANGED <<saved, service, tick, saving, passed, history>>

(* An evolve command adds its job to the file.                             *)
AddLate(j) ==
    /\ j \notin DOMAIN saved \cup DOMAIN jobs \cup edited
    /\ saved' = [i \in DOMAIN saved \cup {j} |-> IF i = j THEN NewJob ELSE saved[i]]
    /\ unread' = IF service = "down" THEN {} ELSE unread \cup {j}
    /\ UNCHANGED <<jobs, service, tick, runs, saving, passed, history, counters>>

(* _watch_store.                                                           *)
WatchStore ==
    /\ service = "started" /\ unread # {}
    /\ jobs' = Synced /\ unread' = {}
    /\ Rearm(jobs')
    /\ UNCHANGED <<saved, service, runs, saving, passed, history, counters>>

-----------------------------------------------------------------------------
(* The file an earlier gateway left, with its jobs' times still to come.   *)
Init ==
    /\ saved = [j \in Jobs \ Late |-> NewJob]
    /\ jobs = << >> /\ unread = {}
    /\ service = "down"
    /\ timer = "off" /\ batch = {} /\ stray = FALSE
    /\ runs = EmptyBag
    /\ asked = FALSE /\ flush = "none"
    /\ passed = {} /\ begun = {} /\ life = {} /\ edited = {}
    /\ edits = 0 /\ ends = 0

Flush == FlushBegins \/ FlushSaves \/ FlushEnds

Next ==
    \/ Start \/ EndStart \/ End
    \/ \E j \in Jobs : Elapse(j)
    \/ Tick \/ TickSaves \/ TickRuns
    \/ \E r \in BagToSet(runs) : BlockRun(r) \/ BeginRun(r) \/ EndRun(r) \/ LeaveRun(r)
    \/ Flush \/ StrayWrite
    \/ \E j \in Jobs, enabled \in BOOLEAN : EnableJob(j, enabled)
    \/ \E j \in Jobs : RemoveJob(j) \/ TriggerJob(j)
    \/ ApproveJob
    \/ \E j \in Late : AddLate(j)
    \/ WatchStore

(* The event loop goes on with a flush that can go on.                     *)
Spec == Init /\ [][Next]_vars /\ WF_vars(Flush)

-----------------------------------------------------------------------------
(* Every variable keeps to its values; a service that is down holds        *)
(* nothing, and what is unread is in the file and not in memory.           *)
TypeOK ==
    /\ \A js \in {saved, jobs} : DOMAIN js \subseteq Jobs /\ \A j \in DOMAIN js : js[j] \in Job
    /\ unread \subseteq DOMAIN saved \ DOMAIN jobs
    /\ service \in {"down", "starting", "started"}
    /\ timer \in {"off", "armed", "saving", "wrote"} /\ batch \subseteq Jobs
    /\ IsABag(runs) /\ BagToSet(runs) \subseteq Run
    /\ asked \in BOOLEAN /\ stray \in BOOLEAN
    /\ flush \in {"none", "created", "saving", "wrote"} /\ (flush = "none" => ~asked)
    /\ passed \subseteq OneShots /\ begun \subseteq OneShots /\ edited \subseteq Jobs
    /\ life \subseteq OneShots \X {"start", "timer"}
    /\ edits \in 0 .. MaxEdits /\ ends \in 0 .. MaxEnds
    /\ service = "down" =>
           /\ jobs = << >> /\ timer = "off" /\ runs = EmptyBag
           /\ flush = "none" /\ ~stray

(* Until it has begun to run, a one-shot that nobody edits or holds back   *)
(* stays in the file enabled and not run, whatever is saved, cancelled or  *)
(* lost in a crash, so that the next start() fires it                      *)
(* (service.py:883-904).                                                   *)
UnrunStaysDue ==
    \A j \in OneShots \ (begun \cup edited \cup Held) :
        j \in DOMAIN saved /\ saved[j].enabled /\ ~saved[j].ran

(* A started service has a timer asleep for every job that waits for a     *)
(* next run, or is about to arm one; only a job added to the file behind   *)
(* its back is excepted (service.py:853-870).                              *)
TimerIsSet ==
    service = "started" =>
        \/ timer \in {"saving", "wrote"}
        \/ \E r \in BagToSet(runs) : r.at = "ended"
        \/ Waiting(jobs) \ Late \subseteq batch

(* No job is forgotten: neither by the file, a crash at any time included, *)
(* nor by the timers of a service that goes on.                            *)
NoneForgotten == UnrunStaysDue /\ TimerIsSet

Begins(r) == BagIn(r, runs) /\ r.at = "created" /\ BeginRun(r)

(* Between two starts the timer runs a one-shot at most once, and so does  *)
(* the search for overdue ones (service.py:883, :906).                     *)
OncePerCause ==
    [][\A r \in BagToSet(runs) : Begins(r) /\ r.why # "force" => <<r.job, r.why>> \notin life]_vars

IsOver(js, j) == j \notin DOMAIN js \/ js[j].ran

(* The end of a one-shot's run reaches the file unless the service ends    *)
(* first, however many saves are asked for while one is under way          *)
(* (service.py:486-507).                                                   *)
EndsAreSaved ==
    \A j \in OneShots :
        (service # "down" /\ IsOver(jobs, j)) ~> (service = "down" \/ IsOver(saved, j))
=============================================================================
