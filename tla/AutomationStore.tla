-------------------------- MODULE AutomationStore --------------------------
(* The job store of shibaclaw/automation/service.py: automation.json,      *)
(* shared by the gateway, whose one AutomationService serves the WebUI,    *)
(* the agent's tool and the timer, and by the `shibaclaw evolve' commands, *)
(* each with a service of its own (evolve/switch.py, cli/commands.py).     *)
(*                                                                         *)
(* A service works on its own copy of the jobs and remembers the file as   *)
(* it last read or wrote it.  Reading a file that changed merges it with   *)
(* the copy, field by field against what is remembered; writing reads      *)
(* first.  Reads and writes hold a lock on the file, but a mutator lets go *)
(* of it between the read it starts with and the write it ends with, so    *)
(* another process may write in between; reads and writes may fail, which  *)
(* the code only logs.                                                     *)
(*                                                                         *)
(* Left out: next_run_at_ms and the timer (AutomationTimer), names, the    *)
(* delivery fields, timestamps, and the one-time migration of jobs.json.   *)
EXTENDS Naturals

CONSTANTS
    Services,     \* gateways: every operation
    Commands,     \* evolve commands: they add and update jobs
    Jobs,         \* job ids (uuid4, so never used twice)
    Schedules,    \* what the schedule of a job can be
    Messages,     \* what its payload can be
    OneShots,     \* the ids whose jobs have an "at" schedule
    Vanishing,    \* the ids whose jobs have delete_after_run
    NoGrant,      \* approved_fingerprint is None
    MaxEdits,     \* bound: mutators called
    MaxRuns       \* bound: runs of one job

Procs == Services \cup Commands

ASSUME StoreAssumption ==
    /\ MaxEdits \in Nat /\ MaxRuns \in Nat
    /\ NoGrant \notin Schedules \X Messages

VARIABLES
    disk,      \* automation.json: a function on the ids of its jobs
    local,     \* _jobs of each service
    base,      \* _store_snapshot: the file as last read or written
    fresh,     \* _store_stamp is the file's: nobody wrote since
    busy,      \* a mutator has changed _jobs and is about to save
    asked,     \* _save_requested: a run has ended, a save is to follow
    used,      \* ids given out
    gone,      \* history: ids that have been in the file and left it
    granted,   \* history: <<id, operation>> pairs that somebody approved
    edits      \* number of mutators called

vars == <<disk, local, base, fresh, busy, asked, used, gone, granted, edits>>

Fields == {"enabled", "require", "approved", "schedule", "message", "runs"}

(* What operation_fingerprint hashes, and two jobs' hashes tell apart.     *)
Operation(job) == <<job.schedule, job.message>>
Operations == Schedules \X Messages

Job == [enabled : BOOLEAN, require : BOOLEAN, approved : Operations \cup {NoGrant},
        schedule : Schedules, message : Messages, runs : Nat]

IsStore(jobs) == DOMAIN jobs \subseteq Jobs /\ jobs \in [DOMAIN jobs -> Job]

(* A job as add_job makes it: approved as it is when it needs no approval.  *)
NewJob(require, op) ==
    [enabled |-> TRUE, require |-> require,
     approved |-> IF require THEN NoGrant ELSE op,
     schedule |-> op[1], message |-> op[2], runs |-> 0]

(* Mutant: an approval is a flag, not a fingerprint.                       *)
IsApprovedOnce(job) == job.require => job.approved # NoGrant

(* job_is_approved: no approval asked for, or given for this operation.    *)
IsApproved(job) == job.require => job.approved = Operation(job)

-----------------------------------------------------------------------------
(* Reading and merging.                                                    *)

(* Mutant: jobs are merged whole.                                          *)
MergeWholeJob(b, l, x) == IF l # b THEN l ELSE x

(* _merge_changed_fields: the file's job with the fields changed here.     *)
MergeChangedFields(b, l, x) ==
    [f \in Fields |-> IF l[f] # b[f] THEN l[f] ELSE x[f]]

(* Mutant: a job that is gone from the file is kept when it is still here. *)
MergedIdsKept(b, l, x) == (DOMAIN x \ (DOMAIN b \ DOMAIN l)) \cup DOMAIN l

(* The jobs a read leaves: those of the file but the ones removed here,    *)
(* and the ones added here.  One removed from the file stays removed.      *)
MergedIds(b, l, x) ==
    (DOMAIN x \ (DOMAIN b \ DOMAIN l)) \cup (DOMAIN l \ DOMAIN b)

Merge(b, l, x) ==
    [j \in MergedIds(b, l, x) |->
        IF j \in DOMAIN l \cap DOMAIN b \cap DOMAIN x
        THEN MergeChangedFields(b[j], l[j], x[j])
        ELSE IF j \in DOMAIN l THEN l[j] ELSE x[j]]

(* The copy after a read, which does nothing when the stamp is the file's. *)
Synced(p) == IF fresh[p] THEN local[p] ELSE Merge(base[p], local[p], disk)

(* What a read remembers of the file.                                      *)
Remembered(p) == IF fresh[p] THEN base[p] ELSE disk

(* The read of p, and the step makes its copy the given jobs.              *)
ReadInto(p, jobs) ==
    /\ local' = [local EXCEPT ![p] = jobs]
    /\ base' = [base EXCEPT ![p] = Remembered(p)]
    /\ fresh' = [fresh EXCEPT ![p] = TRUE]

(* The copy a mutator starts from: a read that fails is logged and the     *)
(* mutator goes on with what it has.                                       *)
Starting(p, readable) == IF readable THEN Synced(p) ELSE local[p]

(* A mutator of p leaves the given jobs, to be saved with _io_lock held.   *)
Mutate(p, readable, jobs) ==
    /\ ~busy[p] /\ edits < MaxEdits
    /\ IF readable
       THEN ReadInto(p, jobs)
       ELSE local' = [local EXCEPT ![p] = jobs] /\ UNCHANGED <<base, fresh>>
    /\ busy' = [busy EXCEPT ![p] = TRUE]
    /\ edits' = edits + 1
    /\ UNCHANGED <<disk, asked, gone>>

-----------------------------------------------------------------------------
(* Mutators.                                                               *)

(* The jobs with job as the one of id j.                                   *)
WithJob(jobs, j, job) ==
    [i \in DOMAIN jobs \cup {j} |-> IF i = j THEN job ELSE jobs[i]]

(* add_job.                                                                *)
AddJob(p, j, readable, require, op) ==
    /\ j \notin used
    /\ used' = used \cup {j}
    /\ granted' = IF require THEN granted ELSE granted \cup {<<j, op>>}
    /\ Mutate(p, readable, WithJob(Starting(p, readable), j, NewJob(require, op)))

(* approve_job approves the operation the job has now.                     *)
ApproveJob(p, j, readable) ==
    LET jobs == Starting(p, readable) IN
    /\ j \in DOMAIN jobs
    /\ granted' = granted \cup {<<j, Operation(jobs[j])>>}
    /\ Mutate(p, readable, [jobs EXCEPT ![j].approved = Operation(jobs[j]),
                                        ![j].require = TRUE])
    /\ UNCHANGED used

(* revoke_job_approval.                                                    *)
RevokeJobApproval(p, j, readable) ==
    LET jobs == Starting(p, readable) IN
    /\ j \in DOMAIN jobs
    /\ Mutate(p, readable, [jobs EXCEPT ![j].approved = NoGrant])
    /\ UNCHANGED <<used, granted>>

(* remove_job.                                                             *)
RemoveJob(p, j, readable) ==
    LET jobs == Starting(p, readable) IN
    /\ j \in DOMAIN jobs
    /\ Mutate(p, readable, [i \in DOMAIN jobs \ {j} |-> jobs[i]])
    /\ UNCHANGED <<used, granted>>

(* enable_job.                                                             *)
EnableJob(p, j, readable, enabled) ==
    LET jobs == Starting(p, readable) IN
    /\ j \in DOMAIN jobs
    /\ Mutate(p, readable, [jobs EXCEPT ![j].enabled = enabled])
    /\ UNCHANGED <<used, granted>>

(* What update_job makes of a job: a changed operation loses its approval. *)
Patched(job, enabled, require, op) ==
    [job EXCEPT !.enabled = enabled, !.require = require,
                !.schedule = op[1], !.message = op[2],
                !.approved = IF require /\ op # Operation(job) THEN NoGrant ELSE @]

(* update_job; an evolve command patches all but requireApproval.          *)
UpdateJob(p, j, readable, enabled, require, op) ==
    LET jobs == Starting(p, readable) IN
    /\ j \in DOMAIN jobs
    /\ p \in Commands => require = jobs[j].require
    /\ Mutate(p, readable, [jobs EXCEPT ![j] = Patched(@, enabled, require, op)])
    /\ UNCHANGED <<used, granted>>

-----------------------------------------------------------------------------
(* Runs, as far as they change the store.                                  *)

AfterRun(job, j) == [job EXCEPT !.runs = @ + 1, !.enabled = @ /\ j \notin OneShots]

(* _execute of a job whose approval is missing or stale: counted, and saved *)
(* at once with no read before.                                            *)
BlockRun(p, j) ==
    /\ ~busy[p]
    /\ j \in DOMAIN local[p] /\ local[p][j].runs < MaxRuns
    /\ ~IsApproved(local[p][j])
    /\ local' = [local EXCEPT ![p][j] = AfterRun(@, j)]
    /\ busy' = [busy EXCEPT ![p] = TRUE]
    /\ UNCHANGED <<disk, base, fresh, asked, used, gone, granted, edits>>

(* The end of _execute: counted or deleted, and a save asked for.  A forced *)
(* run needs no approval, so any job may have run.                         *)
EndRun(p, j) ==
    /\ ~busy[p]
    /\ j \in DOMAIN local[p] /\ local[p][j].runs < MaxRuns
    /\ local' = [local EXCEPT ![p] =
                    IF j \in Vanishing
                    THEN [i \in DOMAIN local[p] \ {j} |-> local[p][i]]
                    ELSE [local[p] EXCEPT ![j] = AfterRun(@, j)]]
    /\ asked' = [asked EXCEPT ![p] = TRUE]
    /\ UNCHANGED <<disk, base, fresh, busy, used, gone, granted, edits>>

-----------------------------------------------------------------------------
(* The file.                                                               *)

(* _watch_store and _on_timer read the file.                               *)
SyncFromDisk(p) ==
    /\ ~busy[p] /\ ~fresh[p]
    /\ ReadInto(p, Synced(p))
    /\ UNCHANGED <<disk, busy, asked, used, gone, granted, edits>>

(* _save_unlocked: read, then write every job.                             *)
Save(p) ==
    LET jobs == Synced(p) IN
    /\ busy[p] \/ asked[p]
    /\ disk' = jobs
    /\ local' = [local EXCEPT ![p] = jobs]
    /\ base' = [base EXCEPT ![p] = jobs]
    /\ fresh' = [q \in Procs |-> q = p]
    /\ gone' = gone \cup (DOMAIN disk \ DOMAIN jobs)
    /\ busy' = [busy EXCEPT ![p] = FALSE]
    /\ asked' = [asked EXCEPT ![p] = @ /\ busy[p]]
    /\ UNCHANGED <<used, granted, edits>>

(* A save that fails, in its read or in its write, is logged and not tried  *)
(* again.                                                                  *)
FailSave(p) ==
    /\ busy[p] \/ asked[p]
    /\ \/ UNCHANGED <<local, base, fresh>>
       \/ ReadInto(p, Synced(p))
    /\ busy' = [busy EXCEPT ![p] = FALSE]
    /\ asked' = [asked EXCEPT ![p] = @ /\ busy[p]]
    /\ UNCHANGED <<disk, used, gone, granted, edits>>

(* A command ends, or the gateway stops or crashes; the next one loads the *)
(* file.                                                                   *)
Load(p) ==
    /\ local' = [local EXCEPT ![p] = disk]
    /\ base' = [base EXCEPT ![p] = disk]
    /\ fresh' = [fresh EXCEPT ![p] = TRUE]
    /\ busy' = [busy EXCEPT ![p] = FALSE]
    /\ asked' = [asked EXCEPT ![p] = FALSE]
    /\ UNCHANGED <<disk, used, gone, granted, edits>>

-----------------------------------------------------------------------------
(* The file some earlier processes left: jobs as they were added.          *)
Init ==
    /\ used \in SUBSET Jobs
    /\ disk \in [used -> {NewJob(require, op) : require \in BOOLEAN, op \in Operations}]
    /\ local = [p \in Procs |-> disk]
    /\ base = [p \in Procs |-> disk]
    /\ fresh = [p \in Procs |-> TRUE]
    /\ busy = [p \in Procs |-> FALSE]
    /\ asked = [p \in Procs |-> FALSE]
    /\ gone = {}
    /\ granted = {<<j, Operation(disk[j])>> : j \in {i \in used : ~disk[i].require}}
    /\ edits = 0

Edit(p, j, readable) ==
    \/ \E require \in BOOLEAN, op \in Operations : AddJob(p, j, readable, require, op)
    \/ \E enabled, require \in BOOLEAN, op \in Operations :
           UpdateJob(p, j, readable, enabled, require, op)
    \/ /\ p \in Services
       /\ \/ ApproveJob(p, j, readable)
          \/ RevokeJobApproval(p, j, readable)
          \/ RemoveJob(p, j, readable)
          \/ \E enabled \in BOOLEAN : EnableJob(p, j, readable, enabled)

Next ==
    \/ \E p \in Procs, j \in Jobs, readable \in BOOLEAN : Edit(p, j, readable)
    \/ \E p \in Services, j \in Jobs : BlockRun(p, j) \/ EndRun(p, j)
    \/ \E p \in Procs : Save(p) \/ FailSave(p) \/ Load(p)
    \/ \E p \in Services : SyncFromDisk(p)

Spec == Init /\ [][Next]_vars

-----------------------------------------------------------------------------
(* Every variable keeps to its values, a process that has read the latest  *)
(* file remembers it, and every job's id has been given out.               *)
TypeOK ==
    /\ IsStore(disk)
    /\ DOMAIN local = Procs /\ DOMAIN base = Procs
    /\ \A p \in Procs : IsStore(local[p]) /\ IsStore(base[p])
    /\ fresh \in [Procs -> BOOLEAN] /\ busy \in [Procs -> BOOLEAN]
    /\ asked \in [Procs -> BOOLEAN]
    /\ used \in SUBSET Jobs /\ gone \in SUBSET Jobs
    /\ granted \in SUBSET (Jobs \X Operations)
    /\ edits \in 0 .. MaxEdits
    /\ DOMAIN disk \subseteq used /\ gone \subseteq used
    /\ \A p \in Procs :
           /\ DOMAIN local[p] \cup DOMAIN base[p] \subseteq used
           /\ fresh[p] => base[p] = disk

(* A job that has left the file never comes back to it: no process that    *)
(* still holds a copy, changed or not, writes it again                     *)
(* (test_automation_store_sync.py; service.py:435).                        *)
RemovedStaysGone == DOMAIN disk \cap gone = {}

(* Whatever processes change at once and however their changes are merged, *)
(* a job that needs approval counts as approved only for an operation that *)
(* somebody approved (automation/grants.py, types.py:77).                  *)
ApprovalWasGiven ==
    \A p \in Procs : \A j \in DOMAIN local[p] :
        IsApproved(local[p][j]) /\ local[p][j].require
            => <<j, Operation(local[p][j])>> \in granted

(* The edits a process has not written, read off its copy and the file it  *)
(* remembers.                                                              *)
Unwritten(p) ==
    LET both == DOMAIN base[p] \cap DOMAIN local[p] IN
    [set |-> {e \in both \X Fields : local[p][e[1]][e[2]] # base[p][e[1]][e[2]]},
     added |-> DOMAIN local[p] \ DOMAIN base[p],
     dropped |-> DOMAIN base[p] \ DOMAIN local[p]]

Edits == INSTANCE StoreEdits WITH
    seen <- base, view <- local, mine <- [p \in Procs |-> Unwritten(p)]

(* Merging against the remembered file loses no process's edit, writes no  *)
(* field it did not set and revives no job another removed: the store is   *)
(* the one of StoreEdits, where each process keeps a list of its edits.    *)
ImplementsEdits == Edits!Spec
=============================================================================
