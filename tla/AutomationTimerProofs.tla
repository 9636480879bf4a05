----------------------- MODULE AutomationTimerProofs -----------------------
(***************************************************************************)
(* One automation service, for any jobs and bounds: a one-shot that has    *)
(* not run stays due in the file and in memory, and no cause runs it twice *)
(* in the life of a service.                                               *)
(*                                                                         *)
(* Neither is inductive.  That no job is forgotten rests on a run at work  *)
(* having begun, so that the file may advance its job; that a cause runs a *)
(* job once rests on the job being advanced before its task exists, and on *)
(* what the next life of the service reads having been advanced in the     *)
(* file too.                                                               *)
(***************************************************************************)
EXTENDS AutomationTimer, TLAPS

-----------------------------------------------------------------------------
(* The inductive invariant.                                                *)
IsTable(js) == DOMAIN js \subseteq Jobs /\ js \in [DOMAIN js -> Job]

(* What is unread is in the file and has come from a command; a service    *)
(* that is down does and holds nothing.                                    *)
Shape ==
    /\ IsTable(saved) /\ IsTable(jobs)
    /\ unread \subseteq Late \cap DOMAIN saved /\ batch \subseteq Jobs
    /\ IsABag(runs) /\ BagToSet(runs) \subseteq Run
    /\ service = "down" => /\ timer = "off" /\ ~stray /\ ~asked /\ flush = "none"
                           /\ runs = EmptyBag

(* A run at work has begun.                                                *)
WorkingHasBegun ==
    \A r \in BagToSet(runs) : r.at = "working" /\ r.job \in OneShots => r.job \in begun

Unrun == OneShots \ (begun \cup edited \cup Held)
StillDue(js) == \A j \in Unrun : j \in DOMAIN js /\ js[j].enabled /\ ~js[j].ran

(* The file and the memory have what has not run.                          *)
BothStayDue == StillDue(saved) /\ (service # "down" => StillDue(jobs))

ForgetInv == Shape /\ WorkingHasBegun /\ BothStayDue /\ TimerIsSet

-----------------------------------------------------------------------------
(* Operators.                                                              *)

(* Reading adds jobs of the command and nothing else.                      *)
LEMMA ReadInto ==
    ASSUME Shape, NEW js, IsTable(js)
    PROVE  /\ IsTable(WithUnread(js))
           /\ DOMAIN WithUnread(js) = DOMAIN js \cup unread
           /\ \A j \in DOMAIN js : WithUnread(js)[j] = js[j]
           /\ Waiting(WithUnread(js)) \ Late = Waiting(js) \ Late
           /\ StillDue(js) => StillDue(WithUnread(js))
<1>1. DOMAIN WithUnread(js) = DOMAIN js \cup unread
  BY DEF WithUnread
<1>2. \A j \in DOMAIN js : WithUnread(js)[j] = js[j]
  BY DEF WithUnread
<1>3. IsTable(WithUnread(js))
  BY DEF Shape, IsTable, WithUnread
<1>4. Waiting(WithUnread(js)) \ Late = Waiting(js) \ Late
  BY <1>1, <1>2 DEF Waiting, Shape
<1>5. StillDue(js) => StillDue(WithUnread(js))
  BY <1>1, <1>2 DEF StillDue
<1> QED BY <1>1, <1>2, <1>3, <1>4, <1>5

(* Bags of runs.                                                           *)
LEMMA TasksAdded ==
    ASSUME Shape, NEW js \in SUBSET Jobs, NEW why \in Why, WithTasks(js, why)
    PROVE  /\ IsABag(runs')
           /\ BagToSet(runs') =
                BagToSet(runs) \cup {[job |-> j, why |-> why, at |-> "created"] : j \in js}
           /\ BagToSet(runs') \subseteq Run
           /\ \A j \in js : LET r == [job |-> j, why |-> why, at |-> "created"]
                            IN  r \notin BagToSet(runs) => runs'[r] = 1
           /\ \A r \in BagToSet(runs) :
                  (\A j \in js : r # [job |-> j, why |-> why, at |-> "created"]) =>
                      runs'[r] = runs[r]
<1> DEFINE new == {[job |-> j, why |-> why, at |-> "created"] : j \in js}
<1>1. runs' = [r \in DOMAIN runs \cup new |-> (IF r \in DOMAIN runs THEN runs[r] ELSE 0)
                                              + (IF r \in new THEN 1 ELSE 0)]
  BY DEF WithTasks, Tasks, (+), SetToBag
<1>2. IsABag(runs')
  BY <1>1 DEF Shape, IsABag
<1>3. new \subseteq Run
  BY DEF Run
<1>4. ASSUME NEW j \in js, [job |-> j, why |-> why, at |-> "created"] \notin BagToSet(runs)
      PROVE  runs'[[job |-> j, why |-> why, at |-> "created"]] = 1
  BY <1>1, <1>4 DEF BagToSet
<1>5. ASSUME NEW r \in BagToSet(runs),
             \A j \in js : r # [job |-> j, why |-> why, at |-> "created"]
      PROVE  runs'[r] = runs[r]
  <2>1. r \notin new /\ runs[r] \in Nat
    BY <1>5 DEF BagToSet, Shape, IsABag
  <2> QED BY <1>1, <2>1 DEF BagToSet
<1> QED BY <1>1, <1>2, <1>3, <1>4, <1>5 DEF Shape, BagToSet

LEMMA RunMoved ==
    ASSUME Shape, NEW r \in BagToSet(runs), NEW at \in {"working", "ended"}, MoveRun(r, at)
    PROVE  /\ IsABag(runs')
           /\ BagToSet(runs') \subseteq BagToSet(runs) \cup {[r EXCEPT !.at = at]}
           /\ [r EXCEPT !.at = at] \in BagToSet(runs') \cap Run
           /\ BagToSet(runs) \ {r} \subseteq BagToSet(runs')
           /\ \A q \in BagToSet(runs') : q.at = "created" =>
                  /\ q \in BagToSet(runs)
                  /\ IF q = r THEN runs[r] > 1 ELSE runs'[q] = runs[q]
<1> DEFINE moved == [r EXCEPT !.at = at]
           rest == runs (-) SetToBag({r})
<1>1. r \in DOMAIN runs /\ runs[r] \in Nat \ {0} /\ \A q \in DOMAIN runs : runs[q] \in Nat \ {0}
  BY DEF Shape, IsABag, BagToSet
<1>2. rest = [q \in {d \in DOMAIN runs : (IF d = r THEN runs[d] - 1 ELSE runs[d]) > 0} |->
                 IF q = r THEN runs[q] - 1 ELSE runs[q]]
  BY <1>1 DEF (-), SetToBag
<1>3. runs' = [q \in DOMAIN rest \cup {moved} |-> (IF q \in DOMAIN rest THEN rest[q] ELSE 0)
                                                  + (IF q = moved THEN 1 ELSE 0)]
  BY DEF MoveRun, (+), SetToBag
<1>4. DOMAIN rest \subseteq DOMAIN runs /\ DOMAIN runs \ {r} \subseteq DOMAIN rest
  BY <1>1, <1>2
<1>5. \A q \in DOMAIN rest : rest[q] \in Nat \ {0}
  BY <1>1, <1>2
<1>6. IsABag(runs')
  <2>1. runs' = [q \in DOMAIN runs' |-> runs'[q]]
    BY <1>3
  <2> DEFINE n(q) == IF q \in DOMAIN rest THEN rest[q] ELSE 0
  <2>2. \A q : n(q) \in Nat /\ (q \in DOMAIN rest => n(q) > 0)
    BY <1>5
  <2>3. \A q \in DOMAIN runs' : runs'[q] = n(q) + (IF q = moved THEN 1 ELSE 0)
                                /\ (q \in DOMAIN rest \/ q = moved)
    BY <1>3
  <2> HIDE DEF n, rest
  <2>4. \A q \in DOMAIN runs' : runs'[q] \in Nat /\ runs'[q] > 0
    BY <2>2, <2>3
  <2> QED BY <2>1, <2>4 DEF IsABag
<1>7. moved \in Run
  BY DEF Shape, Run, BagToSet
<1>8. moved.at # "created"
  BY DEF Shape, Run, BagToSet
<1>9. ASSUME NEW q \in DOMAIN runs', q.at = "created"
      PROVE  q \in DOMAIN runs /\ IF q = r THEN runs[r] > 1 ELSE runs'[q] = runs[q]
  <2>1. q \in DOMAIN rest /\ q # moved
    BY <1>3, <1>8, <1>9
  <2>2. q \in DOMAIN runs /\ IF q = r THEN runs[r] - 1 > 0 ELSE rest[q] = runs[q]
    BY <1>2, <2>1
  <2>3. runs'[q] = rest[q]
    BY <1>3, <1>5, <2>1
  <2> QED BY <1>1, <2>2, <2>3
<1> QED BY <1>3, <1>4, <1>6, <1>7, <1>9 DEF BagToSet

LEMMA RunLeft ==
    ASSUME Shape, NEW r \in BagToSet(runs), runs' = runs (-) SetToBag({r})
    PROVE  /\ IsABag(runs') /\ BagToSet(runs') \subseteq BagToSet(runs)
           /\ \A q \in BagToSet(runs') \ {r} : runs'[q] = runs[q]
<1>1. \A q \in DOMAIN runs : runs[q] \in Nat \ {0}
  BY DEF Shape, IsABag
<1>2. runs' = [q \in {d \in DOMAIN runs : (IF d = r THEN runs[d] - 1 ELSE runs[d]) > 0} |->
                 IF q = r THEN runs[q] - 1 ELSE runs[q]]
  BY <1>1 DEF (-), SetToBag
<1>3. runs' = [q \in DOMAIN runs' |-> runs'[q]]
  BY <1>2
<1>4. \A q \in DOMAIN runs' : runs'[q] \in Nat /\ runs'[q] > 0
  BY <1>1, <1>2
<1>5. IsABag(runs')
  BY <1>3, <1>4 DEF IsABag
<1> QED BY <1>2, <1>5 DEF BagToSet

LEMMA NoRuns == IsABag(EmptyBag) /\ BagToSet(EmptyBag) = {}
BY DEF EmptyBag, SetToBag, IsABag, BagToSet
(* Nothing that makes up the time of a job touches what StillDue says.     *)
Alike(js, ks) ==
    /\ IsTable(ks) /\ DOMAIN ks = DOMAIN js
    /\ \A j \in DOMAIN js : ks[j].enabled = js[j].enabled /\ ks[j].ran = js[j].ran

LEMMA NextRunIs == \A j \in Jobs : NextRun(j) \in {"none", "later", "due"}
BY DEF NextRun

LEMMA ElapsedIs ==
    ASSUME NEW js, IsTable(js), NEW j \in Jobs
    PROVE  Alike(js, Elapsed(js, j)) /\ Waiting(Elapsed(js, j)) = Waiting(js)
<1> DEFINE ks == Elapsed(js, j)
<1>1. CASE j \in DOMAIN js /\ js[j].next = "later"
  <2>1. ks = [i \in DOMAIN js |-> IF i = j THEN [js[j] EXCEPT !.next = "due"] ELSE js[i]]
    BY <1>1 DEF Elapsed, IsTable
  <2>2. \A i \in DOMAIN js : /\ ks[i] \in Job
                             /\ ks[i].enabled = js[i].enabled /\ ks[i].ran = js[i].ran
                             /\ (ks[i].next # "none" <=> js[i].next # "none")
    BY <1>1, <2>1 DEF IsTable, Job
  <2> QED BY <2>1, <2>2 DEF Alike, IsTable, Waiting
<1>2. CASE ~(j \in DOMAIN js /\ js[j].next = "later")
  BY <1>2 DEF Elapsed, Alike
<1> QED BY <1>1, <1>2

LEMMA RestartedIs ==
    ASSUME NEW js, IsTable(js)
    PROVE  Alike(js, Restarted(js)) /\ Alike(js, Advanced(js))
<1>1. ASSUME NEW j \in DOMAIN js
      PROVE  LET k == [js[j] EXCEPT !.next = NextRun(j)]
             IN  k \in Job /\ k.enabled = js[j].enabled /\ k.ran = js[j].ran
  BY NextRunIs DEF IsTable, Job
<1> QED BY <1>1 DEF Alike, Restarted, Advanced, IsTable

LEMMA OverIs ==
    ASSUME Shape, NEW j \in Jobs, NEW why \in Why
    PROVE  /\ IsTable(Over(j, why)) /\ DOMAIN Over(j, why) = DOMAIN jobs
           /\ \A i \in DOMAIN jobs \ {j} : Over(j, why)[i] = jobs[i]
<1>1. CASE j \in DOMAIN jobs
  <2> DEFINE k == [enabled |-> jobs[j].enabled /\ j \notin OneShots,
                   next |-> IF j \in OneShots THEN "none"
                            ELSE IF why = "force" THEN NextRun(j) ELSE jobs[j].next,
                   ran |-> TRUE]
  <2>1. Over(j, why) = [i \in DOMAIN jobs |-> IF i = j THEN k ELSE jobs[i]]
    BY <1>1 DEF Over, Shape, IsTable
  <2>2. k \in Job
    BY <1>1, NextRunIs DEF Shape, IsTable, Job
  <2> HIDE DEF k
  <2> QED BY <2>1, <2>2 DEF Shape, IsTable
<1>2. CASE j \notin DOMAIN jobs
  BY <1>2 DEF Over, Shape
<1> QED BY <1>1, <1>2

-----------------------------------------------------------------------------
(* No job is forgotten: one lemma per kind of step.                        *)

LEMMA ArmedIs ==
    ASSUME NEW js, IsTable(js), Arm(js)
    PROVE  batch' = Waiting(js) /\ batch' \subseteq Jobs
BY DEF Arm, IsTable, Waiting

(* A step that keeps the tables.                                           *)
LEMMA TablesKept ==
    ASSUME ForgetInv, UNCHANGED <<saved, jobs, service, edited>>, begun \subseteq begun'
    PROVE  IsTable(saved)' /\ IsTable(jobs)' /\ BothStayDue'
<1>1. Unrun' \subseteq Unrun
  BY DEF Unrun
<1> QED BY <1>1 DEF ForgetInv, Shape, IsTable, BothStayDue, StillDue

(* A write of the whole table, here or in the executor.                    *)
LEMMA WriteKeeps ==
    ASSUME ForgetInv, service # "down", NEW js, IsTable(js), WriteAll(js),
           UNCHANGED service, Unrun' \subseteq Unrun,
           \A j \in Unrun' : j \in DOMAIN js /\ js[j].enabled /\ ~js[j].ran
    PROVE  IsTable(saved)' /\ IsTable(jobs)' /\ unread' = {} /\ BothStayDue'
BY DEF ForgetInv, IsTable, BothStayDue, StillDue, WriteAll

LEMMA InitForgets == Init => ForgetInv
<1> SUFFICES ASSUME Init PROVE ForgetInv
  OBVIOUS
<1>1. IsTable(saved) /\ IsTable(jobs)
  BY DEF Init, IsTable, NewJob, Job, Jobs
<1>2. Shape
  BY <1>1, NoRuns DEF Init, Shape
<1>3. StillDue(saved)
  BY TimerAssumption DEF Init, StillDue, Unrun, NewJob, Jobs
<1> QED BY <1>2, <1>3, NoRuns
        DEF Init, ForgetInv, WorkingHasBegun, BothStayDue, TimerIsSet

LEMMA StartForgets ==
    ASSUME ForgetInv, Start
    PROVE  ForgetInv'
<1>1. Alike(saved, jobs')
  BY RestartedIs DEF Start, ForgetInv, Shape
<1>2. Overdue(saved) \in SUBSET Jobs /\ "start" \in Why
  BY DEF Overdue, Jobs, Why
<1>3. /\ IsABag(runs') /\ BagToSet(runs') \subseteq Run
      /\ \A r \in BagToSet(runs') : r.at # "working"
  <2>1. runs = EmptyBag
    BY DEF Start, ForgetInv, Shape
  <2>2. Shape /\ WithTasks(Overdue(saved), "start")
    BY DEF Start, ForgetInv
  <2>3. BagToSet(runs) = {}
    BY <2>1, NoRuns
  <2> DEFINE new == {[job |-> j, why |-> "start", at |-> "created"] : j \in Overdue(saved)}
  <2>4. IsABag(runs') /\ BagToSet(runs') = BagToSet(runs) \cup new /\ BagToSet(runs') \subseteq Run
    BY <1>2, <2>2, TasksAdded
  <2> QED BY <2>3, <2>4
<1>7. batch' \subseteq Jobs
  BY <1>1, ArmedIs DEF Start, Alike, ForgetInv, Shape
<1>4. Shape'
  BY <1>1, <1>3, <1>7 DEF Start, file, saving, counters, ForgetInv, Shape, Alike, IsTable
<1>5. BothStayDue'
  BY <1>1 DEF Start, file, ForgetInv, BothStayDue, StillDue, Unrun, Alike
<1>6. TimerIsSet'
  BY DEF Start, Arm, TimerIsSet, Waiting
<1> QED BY <1>3, <1>4, <1>5, <1>6 DEF ForgetInv, WorkingHasBegun

LEMMA EndStartForgets ==
    ASSUME ForgetInv, EndStart
    PROVE  ForgetInv'
<1>1. UNCHANGED <<saved, unread, jobs, runs, asked, flush, begun, edited>>
  BY DEF EndStart, file, saving, history
<1>2. TimerIsSet'
  BY DEF EndStart, Rearm, Arm, TimerIsSet, Waiting
<1>4. batch' \subseteq Jobs
  BY ArmedIs DEF EndStart, Rearm, ForgetInv, Shape
<1>3. Shape'
  BY <1>1, <1>4 DEF EndStart, ForgetInv, Shape, IsTable
<1> QED BY <1>1, <1>2, <1>3
        DEF EndStart, ForgetInv, WorkingHasBegun, BothStayDue, StillDue, Unrun

(* The process ends: what the file has now, or gets yet, is still due.     *)
LEMMA EndForgets ==
    ASSUME ForgetInv, End
    PROVE  ForgetInv'
<1>1. IsTable(saved') /\ Unrun' = Unrun /\ StillDue(saved')
  <2>1. saved' \in {saved, Synced}
    BY DEF End
  <2>2. IsTable(Synced) /\ StillDue(Synced)
    BY ReadInto DEF End, ForgetInv, BothStayDue, Synced, Shape
  <2>3. Unrun' = Unrun
    BY DEF End, history, Unrun
  <2> QED BY <2>1, <2>2, <2>3 DEF ForgetInv, Shape, BothStayDue
<1>2. Shape'
  BY <1>1, NoRuns DEF End, Shape, IsTable
<1>3. WorkingHasBegun' /\ TimerIsSet'
  BY NoRuns DEF End, WorkingHasBegun, TimerIsSet
<1>4. BothStayDue'
  BY <1>1 DEF End, BothStayDue, StillDue
<1> QED BY <1>2, <1>3, <1>4 DEF ForgetInv

LEMMA ElapseForgets ==
    ASSUME ForgetInv, NEW j \in Jobs, Elapse(j)
    PROVE  ForgetInv'
<1>1. /\ Alike(saved, saved') /\ Alike(jobs, jobs') /\ Waiting(jobs') = Waiting(jobs)
      /\ UNCHANGED <<unread, service, timer, batch, stray, runs, asked, flush, begun, edited>>
  BY ElapsedIs DEF Elapse, ForgetInv, Shape, tick, saving, history
<1>2. Shape'
  BY <1>1 DEF ForgetInv, Shape, Alike, IsTable
<1>3. BothStayDue'
  BY <1>1 DEF ForgetInv, BothStayDue, StillDue, Unrun, Alike
<1>4. TimerIsSet'
  BY <1>1 DEF ForgetInv, TimerIsSet, Waiting
<1> QED BY <1>1, <1>2, <1>3, <1>4 DEF ForgetInv, WorkingHasBegun

LEMMA TickForgets ==
    ASSUME ForgetInv, Tick
    PROVE  ForgetInv'
<1>1. UNCHANGED <<saved, service, stray, runs, asked, flush, begun, edited>> /\ service # "down"
  BY DEF Tick, saving, history, ForgetInv, Shape
<1>2. IsTable(Synced) /\ (StillDue(jobs) => StillDue(Synced))
  BY ReadInto DEF ForgetInv, Shape, Synced
<1>3. Alike(Synced, jobs')
  BY <1>2, RestartedIs DEF Tick
<1>4. Shape'
  <2>1. batch' \subseteq Jobs
    BY <1>2 DEF Tick, Due, Waiting, IsTable
  <2> QED BY <1>1, <1>3, <2>1 DEF Tick, ForgetInv, Shape, Alike, IsTable
<1>5. BothStayDue'
  BY <1>1, <1>2, <1>3 DEF ForgetInv, BothStayDue, StillDue, Unrun, Alike
<1>6. TimerIsSet'
  BY DEF Tick, TimerIsSet
<1> QED BY <1>1, <1>4, <1>5, <1>6 DEF ForgetInv, WorkingHasBegun

LEMMA TickRunsForgets ==
    ASSUME ForgetInv, TickRuns
    PROVE  ForgetInv'
<1>1. UNCHANGED <<saved, unread, jobs, service, stray, asked, flush, begun, edited>>
      /\ service # "down"
  BY DEF TickRuns, file, saving, history, ForgetInv, Shape
<1> DEFINE new == {[job |-> j, why |-> "timer", at |-> "created"] : j \in batch}
<1>2. Shape /\ WithTasks(batch, "timer") /\ "timer" \in Why /\ batch \in SUBSET Jobs
  BY DEF TickRuns, ForgetInv, Shape, Why
<1>3. IsABag(runs') /\ BagToSet(runs') = BagToSet(runs) \cup new /\ BagToSet(runs') \subseteq Run
  BY <1>2, TasksAdded
<1>4. \A r \in BagToSet(runs') : r.at = "working" => r \in BagToSet(runs)
  BY <1>3
<1>7. batch' \subseteq Jobs
  BY ArmedIs DEF TickRuns, ForgetInv, Shape
<1>5. Shape'
  BY <1>1, <1>3, <1>7 DEF ForgetInv, Shape, IsTable
<1>6. TimerIsSet'
  BY DEF TickRuns, Arm, TimerIsSet, Waiting
<1> QED BY <1>1, <1>4, <1>5, <1>6 
        DEF ForgetInv, WorkingHasBegun, BothStayDue, StillDue, Unrun
(* What is written is what the service has, with what the command added.   *)
LEMMA SyncWrites ==
    ASSUME ForgetInv, service # "down", WriteAll(Synced),
           UNCHANGED <<service, begun, edited>>
    PROVE  /\ IsTable(saved)' /\ IsTable(jobs)' /\ unread' = {} /\ BothStayDue'
           /\ Waiting(jobs') \ Late = Waiting(jobs) \ Late
<1>1. /\ IsTable(Synced) /\ (StillDue(jobs) => StillDue(Synced))
      /\ Waiting(Synced) \ Late = Waiting(jobs) \ Late
  BY ReadInto DEF ForgetInv, Shape, Synced
<1>2. Unrun' = Unrun /\ StillDue(Synced)
  BY <1>1 DEF ForgetInv, BothStayDue, Unrun
<1>3. saved' = Synced /\ jobs' = Synced /\ unread' = {}
  BY DEF WriteAll
<1> HIDE DEF Synced
<1> QED BY <1>1, <1>2, <1>3 DEF IsTable, BothStayDue, StillDue

LEMMA SavesForget ==
    ASSUME ForgetInv, TickSaves \/ FlushSaves \/ StrayWrite \/ ApproveJob
    PROVE  ForgetInv'
<1>1. /\ service # "down" /\ WriteAll(Synced)
      /\ UNCHANGED <<service, begun, edited, runs, batch>>
      /\ timer' = timer \/ timer' = "wrote"
  BY DEF TickSaves, FlushSaves, StrayWrite, ApproveJob, Call, ForgetInv, Shape, history, tick
<1>2. /\ IsTable(saved)' /\ IsTable(jobs)' /\ unread' = {} /\ BothStayDue'
      /\ Waiting(jobs') \ Late = Waiting(jobs) \ Late
  BY <1>1, SyncWrites
<1>3. Shape'
  BY <1>1, <1>2 DEF ForgetInv, Shape
<1>4. TimerIsSet'
  BY <1>1, <1>2 DEF ForgetInv, TimerIsSet, Waiting
<1> QED BY <1>1, <1>2, <1>3, <1>4 DEF ForgetInv, WorkingHasBegun

(* A user's edit of job j: the others are written as they are.             *)
LEMMA EditForgets ==
    ASSUME ForgetInv, service # "down", NEW j, NEW js, IsTable(js),
           DOMAIN Synced \ {j} \subseteq DOMAIN js,
           \A i \in DOMAIN Synced \ {j} : js[i] = Synced[i],
           WriteAll(js), Rearm(js), edited' = edited \cup {j},
           UNCHANGED <<service, begun, runs, asked, flush>>
    PROVE  ForgetInv'
<1>1. IsTable(Synced) /\ StillDue(Synced)
  BY ReadInto DEF ForgetInv, Shape, Synced, BothStayDue
<1>2. Unrun' \subseteq Unrun \ {j}
  BY DEF Unrun
<1>3. saved' = js /\ jobs' = js /\ unread' = {}
  BY DEF WriteAll
<1>4. IsTable(saved)' /\ IsTable(jobs)' /\ BothStayDue'
  <2>1. \A i \in Unrun' : i \in DOMAIN js /\ js[i].enabled /\ ~js[i].ran
    BY <1>1, <1>2 DEF StillDue
  <2> QED BY <1>3, <2>1 DEF IsTable, BothStayDue, StillDue
<1>5. batch' = Waiting(js) /\ batch' \subseteq Jobs
  BY ArmedIs DEF Rearm
<1>6. Shape'
  BY <1>3, <1>4, <1>5 DEF ForgetInv, Shape
<1>7. TimerIsSet'
  BY <1>3, <1>5 DEF TimerIsSet, Waiting
<1> QED BY <1>4, <1>6, <1>7 DEF ForgetInv, WorkingHasBegun

LEMMA EnableForgets ==
    ASSUME ForgetInv, NEW j \in Jobs, NEW enabled \in BOOLEAN, EnableJob(j, enabled)
    PROVE  ForgetInv'
<1> DEFINE js == [Synced EXCEPT ![j].enabled = enabled,
                                ![j].next = IF enabled THEN NextRun(j) ELSE "none"]
<1>1. /\ service # "down" /\ WriteAll(js) /\ j \in DOMAIN Synced /\ Rearm(js)
      /\ UNCHANGED <<service, begun, runs, asked, flush>> /\ edited' = edited \cup {j}
  BY DEF EnableJob, Call, saving, WriteAll
<1>2. IsTable(Synced)
  BY ReadInto DEF ForgetInv, Shape, Synced
<1>3. /\ DOMAIN js = DOMAIN Synced /\ IsTable(js)
      /\ \A i \in DOMAIN Synced \ {j} : js[i] = Synced[i]
  <2>1. [Synced[j] EXCEPT !.enabled = enabled,
                          !.next = IF enabled THEN NextRun(j) ELSE "none"] \in Job
    BY <1>1, <1>2, NextRunIs DEF IsTable, Job
  <2> QED BY <1>2, <2>1 DEF IsTable
<1> HIDE DEF js
<1> QED BY <1>1, <1>3, EditForgets

LEMMA RemoveForgets ==
    ASSUME ForgetInv, NEW j \in Jobs, RemoveJob(j)
    PROVE  ForgetInv'
<1> DEFINE js == [i \in DOMAIN Synced \ {j} |-> Synced[i]]
<1>1. /\ service # "down" /\ WriteAll(js) /\ Rearm(js)
      /\ UNCHANGED <<service, begun, runs, asked, flush>> /\ edited' = edited \cup {j}
  BY DEF RemoveJob, Call, saving, WriteAll
<1>2. /\ DOMAIN js = DOMAIN Synced \ {j} /\ IsTable(js)
      /\ \A i \in DOMAIN Synced \ {j} : js[i] = Synced[i]
  BY ReadInto DEF ForgetInv, Shape, Synced, IsTable
<1> HIDE DEF js
<1> QED BY <1>1, <1>2, EditForgets

LEMMA TriggerForgets ==
    ASSUME ForgetInv, NEW j \in Jobs, TriggerJob(j)
    PROVE  ForgetInv'
<1>1. /\ service # "down" /\ WithTasks({j}, "force") /\ jobs' = Synced /\ unread' = {}
      /\ UNCHANGED <<saved, service, timer, batch, stray, asked, flush, begun, edited>>
  BY DEF TriggerJob, Call, tick, saving, history
<1>2. /\ IsTable(Synced) /\ (StillDue(jobs) => StillDue(Synced))
      /\ Waiting(Synced) \ Late = Waiting(jobs) \ Late
  BY ReadInto DEF ForgetInv, Shape, Synced
<1> HIDE DEF Synced
<1> DEFINE new == {[job |-> i, why |-> "force", at |-> "created"] : i \in {j}}
<1>3. IsABag(runs') /\ BagToSet(runs') = BagToSet(runs) \cup new /\ BagToSet(runs') \subseteq Run
  <2>1. {j} \in SUBSET Jobs /\ "force" \in Why
    BY DEF Why
  <2> QED BY <1>1, <2>1, TasksAdded DEF ForgetInv
<1>4. Shape'
  BY <1>1, <1>2, <1>3 DEF ForgetInv, Shape, IsTable
<1>5. BothStayDue'
  BY <1>1, <1>2 DEF ForgetInv, BothStayDue, StillDue, Unrun
<1>6. TimerIsSet'
  BY <1>1, <1>2, <1>3 DEF ForgetInv, TimerIsSet, Waiting
<1>7. \A r \in BagToSet(runs') : r.at = "working" => r \in BagToSet(runs)
  BY <1>3
<1> QED BY <1>1, <1>4, <1>5, <1>6, <1>7 DEF ForgetInv, WorkingHasBegun

LEMMA AddForgets ==
    ASSUME ForgetInv, NEW j \in Late, AddLate(j)
    PROVE  ForgetInv'
<1>1. UNCHANGED <<jobs, service, timer, batch, stray, runs, asked, flush, begun, edited>>
  BY DEF AddLate, tick, saving, history
<1>2. /\ DOMAIN saved' = DOMAIN saved \cup {j} /\ IsTable(saved)'
      /\ \A i \in DOMAIN saved : saved'[i] = saved[i]
  <2>1. NewJob \in Job
    BY DEF NewJob, Job
  <2>2. j \in Jobs
    BY TimerAssumption DEF Jobs
  <2> QED BY <2>1, <2>2 DEF AddLate, ForgetInv, Shape, IsTable
<1>3. unread' \subseteq Late \cap DOMAIN saved'
  BY <1>2 DEF AddLate, ForgetInv, Shape
<1>4. Shape'
  BY <1>1, <1>2, <1>3 DEF ForgetInv, Shape, IsTable
<1>5. BothStayDue'
  BY <1>1, <1>2 DEF ForgetInv, BothStayDue, StillDue, Unrun
<1> QED BY <1>1, <1>4, <1>5 DEF ForgetInv, WorkingHasBegun, TimerIsSet, Waiting

LEMMA WatchForgets ==
    ASSUME ForgetInv, WatchStore
    PROVE  ForgetInv'
<1>1. /\ service # "down" /\ jobs' = Synced /\ unread' = {} /\ Rearm(Synced)
      /\ UNCHANGED <<saved, service, runs, asked, flush, begun, edited>>
  BY DEF WatchStore, saving, history
<1>2. IsTable(Synced) /\ (StillDue(jobs) => StillDue(Synced))
  BY ReadInto DEF ForgetInv, Shape, Synced
<1>3. batch' = Waiting(Synced) /\ batch' \subseteq Jobs
  BY <1>1, <1>2, ArmedIs DEF Rearm
<1> HIDE DEF Synced
<1>4. Shape'
  BY <1>1, <1>2, <1>3 DEF ForgetInv, Shape, IsTable
<1>5. BothStayDue'
  BY <1>1, <1>2 DEF ForgetInv, BothStayDue, StillDue, Unrun
<1>6. TimerIsSet'
  BY <1>1, <1>3 DEF TimerIsSet, Waiting
<1> QED BY <1>1, <1>4, <1>5, <1>6 DEF ForgetInv, WorkingHasBegun

LEMMA BlockForgets ==
    ASSUME ForgetInv, NEW r \in BagToSet(runs), BlockRun(r)
    PROVE  ForgetInv'
<1> DEFINE over == Over(r.job, r.why)
           js == WithUnread(over)
<1>1. /\ r \in Run /\ service # "down" /\ r.job \in Held
      /\ WriteAll(js) /\ MoveRun(r, "ended")
      /\ asked' = TRUE /\ (flush' # "none" \/ UNCHANGED flush)
      /\ UNCHANGED <<service, batch, stray, timer, begun, edited>>
  BY NoRuns DEF BlockRun, RequestSave, tick, history, ForgetInv, Shape
<1>2. /\ IsTable(over) /\ DOMAIN over = DOMAIN jobs
      /\ \A i \in DOMAIN jobs \ {r.job} : over[i] = jobs[i]
  BY <1>1, OverIs DEF ForgetInv, Run
<1>3. /\ IsTable(js) /\ DOMAIN jobs \subseteq DOMAIN js
      /\ \A i \in DOMAIN jobs \ {r.job} : js[i] = jobs[i]
  BY <1>2, ReadInto DEF ForgetInv
<1> HIDE DEF js, over
<1>4. Unrun' = Unrun /\ r.job \notin Unrun
  BY <1>1 DEF Unrun
<1>5. saved' = js /\ jobs' = js /\ unread' = {}
  BY <1>1 DEF WriteAll
<1>6. BothStayDue'
  BY <1>1, <1>3, <1>4, <1>5 DEF ForgetInv, BothStayDue, StillDue
<1>7. /\ IsABag(runs') /\ BagToSet(runs') \subseteq BagToSet(runs) \cup {[r EXCEPT !.at = "ended"]}
      /\ [r EXCEPT !.at = "ended"] \in BagToSet(runs') \cap Run
  BY <1>1, RunMoved DEF ForgetInv
<1>8. [r EXCEPT !.at = "ended"].at = "ended"
  BY <1>1 DEF Run
<1>9. Shape'
  BY <1>1, <1>3, <1>5, <1>7 DEF ForgetInv, Shape, IsTable
<1>10. TimerIsSet'
  BY <1>7, <1>8 DEF TimerIsSet
<1>11. WorkingHasBegun'
  BY <1>1, <1>7, <1>8 DEF ForgetInv, WorkingHasBegun
<1> QED BY <1>6, <1>9, <1>10, <1>11 DEF ForgetInv

LEMMA BeginForgets ==
    ASSUME ForgetInv, NEW r \in BagToSet(runs), BeginRun(r)
    PROVE  ForgetInv'
<1>1. /\ r \in Run /\ r.at = "created" /\ service # "down" /\ MoveRun(r, "working")
      /\ begun' = begun \cup ({r.job} \cap OneShots)
      /\ UNCHANGED <<saved, unread, jobs, service, timer, batch, stray, asked, flush, edited>>
  BY NoRuns DEF BeginRun, file, tick, saving, ForgetInv, Shape
<1>2. /\ IsABag(runs') /\ BagToSet(runs') \subseteq BagToSet(runs) \cup {[r EXCEPT !.at = "working"]}
      /\ [r EXCEPT !.at = "working"] \in BagToSet(runs') \cap Run
      /\ BagToSet(runs) \ {r} \subseteq BagToSet(runs')
  BY <1>1, RunMoved DEF ForgetInv
<1>3. [r EXCEPT !.at = "working"].job = r.job
  BY <1>1 DEF Run
<1>4. Shape'
  BY <1>1, <1>2 DEF ForgetInv, Shape, IsTable
<1>5. BothStayDue'
  BY <1>1, TablesKept
<1>6. WorkingHasBegun'
  BY <1>1, <1>2, <1>3 DEF ForgetInv, WorkingHasBegun
<1>7. TimerIsSet'
  BY <1>1, <1>2 DEF ForgetInv, TimerIsSet, Waiting
<1> QED BY <1>4, <1>5, <1>6, <1>7 DEF ForgetInv

LEMMA EndRunForgets ==
    ASSUME ForgetInv, NEW r \in BagToSet(runs), EndRun(r)
    PROVE  ForgetInv'
<1>1. /\ r \in Run /\ r.at = "working" /\ service # "down" /\ MoveRun(r, "ended")
      /\ asked' = TRUE /\ (flush' # "none" \/ UNCHANGED flush)
      /\ UNCHANGED <<saved, unread, service, timer, batch, stray, begun, edited>>
  BY NoRuns DEF EndRun, RequestSave, file, tick, history, ForgetInv, Shape
<1>2. /\ IsTable(jobs') /\ DOMAIN jobs \ {r.job} \subseteq DOMAIN jobs'
      /\ \A i \in DOMAIN jobs \ {r.job} : jobs'[i] = jobs[i]
  <2>1. CASE r.job \in Vanishing
    BY <2>1 DEF EndRun, ForgetInv, Shape, IsTable
  <2>2. CASE r.job \notin Vanishing
    BY <1>1, <2>2, OverIs DEF EndRun, ForgetInv, Run
  <2> QED BY <2>1, <2>2
<1>3. Unrun' = Unrun /\ r.job \notin Unrun
  BY <1>1 DEF Unrun, ForgetInv, WorkingHasBegun
<1>4. /\ IsABag(runs') /\ BagToSet(runs') \subseteq BagToSet(runs) \cup {[r EXCEPT !.at = "ended"]}
      /\ [r EXCEPT !.at = "ended"] \in BagToSet(runs') \cap Run
  BY <1>1, RunMoved DEF ForgetInv
<1>5. [r EXCEPT !.at = "ended"].at = "ended"
  BY <1>1 DEF Run
<1>6. Shape'
  BY <1>1, <1>2, <1>4 DEF ForgetInv, Shape, IsTable
<1>7. BothStayDue'
  BY <1>1, <1>2, <1>3 DEF ForgetInv, BothStayDue, StillDue
<1>8. TimerIsSet'
  BY <1>4, <1>5 DEF TimerIsSet
<1>9. WorkingHasBegun'
  BY <1>1, <1>4, <1>5 DEF ForgetInv, WorkingHasBegun
<1> QED BY <1>6, <1>7, <1>8, <1>9 DEF ForgetInv

LEMMA LeaveForgets ==
    ASSUME ForgetInv, NEW r \in BagToSet(runs), LeaveRun(r)
    PROVE  ForgetInv'
<1>1. /\ Rearm(jobs) /\ service # "down"
      /\ UNCHANGED <<saved, unread, jobs, service, asked, flush, begun, edited>>
  BY NoRuns DEF LeaveRun, file, saving, history, ForgetInv, Shape
<1>2. IsABag(runs') /\ BagToSet(runs') \subseteq BagToSet(runs)
  BY RunLeft DEF LeaveRun, ForgetInv
<1>3. batch' = Waiting(jobs) /\ batch' \subseteq Jobs
  BY <1>1, ArmedIs DEF Rearm, ForgetInv, Shape
<1>4. Shape'
  BY <1>1, <1>2, <1>3 DEF ForgetInv, Shape, IsTable
<1>5. BothStayDue'
  BY <1>1, TablesKept
<1>6. TimerIsSet'
  BY <1>1, <1>3 DEF TimerIsSet, Waiting
<1> QED BY <1>1, <1>2, <1>4, <1>5, <1>6 DEF ForgetInv, WorkingHasBegun

LEMMA IdleForgets ==
    ASSUME ForgetInv, FlushBegins \/ FlushEnds \/ UNCHANGED vars
    PROVE  ForgetInv'
<1>1. /\ UNCHANGED <<saved, unread, jobs, service, timer, batch, stray, runs, begun, edited>>
      /\ service = "down" => UNCHANGED <<asked, flush>>
  BY DEF FlushBegins, FlushEnds, vars, file, tick, saving, history, ForgetInv, Shape
<1>2. Shape'
  BY <1>1 DEF ForgetInv, Shape, IsTable
<1> QED BY <1>1, <1>2, TablesKept
        DEF ForgetInv, WorkingHasBegun, TimerIsSet, Waiting

LEMMA StepForgets == ForgetInv /\ [Next]_vars => ForgetInv'
<1> SUFFICES ASSUME ForgetInv, [Next]_vars PROVE ForgetInv'
  OBVIOUS
<1>1. CASE Start \/ EndStart \/ End
  BY <1>1, StartForgets, EndStartForgets, EndForgets
<1>2. CASE \E j \in Jobs : Elapse(j)
  BY <1>2, ElapseForgets
<1>3. CASE Tick \/ TickSaves \/ TickRuns
  BY <1>3, TickForgets, SavesForget, TickRunsForgets
<1>4. CASE \E r \in BagToSet(runs) : BlockRun(r) \/ BeginRun(r) \/ EndRun(r) \/ LeaveRun(r)
  BY <1>4, BlockForgets, BeginForgets, EndRunForgets, LeaveForgets
<1>5. CASE Flush \/ StrayWrite \/ UNCHANGED vars
  BY <1>5, IdleForgets, SavesForget DEF Flush
<1>6. CASE \E j \in Jobs, enabled \in BOOLEAN : EnableJob(j, enabled)
  BY <1>6, EnableForgets
<1>7. CASE \E j \in Jobs : RemoveJob(j) \/ TriggerJob(j)
  BY <1>7, RemoveForgets, TriggerForgets
<1>8. CASE ApproveJob \/ (\E j \in Late : AddLate(j)) \/ WatchStore
  BY <1>8, SavesForget, AddForgets, WatchForgets
<1> QED BY <1>1, <1>2, <1>3, <1>4, <1>5, <1>6, <1>7, <1>8 DEF Next

LEMMA AlwaysForgets == Spec => []ForgetInv
<1> QED BY InitForgets, StepForgets, PTL DEF Spec

(* No job is forgotten, by the file or by the timers of a service that     *)
(* goes on (service.py:853-904).                                           *)
THEOREM NoJobForgotten == Spec => []NoneForgotten
<1>1. ForgetInv => NoneForgotten
  BY DEF ForgetInv, BothStayDue, StillDue, Unrun, NoneForgotten, UnrunStaysDue
<1> QED BY <1>1, AlwaysForgets, PTL

-----------------------------------------------------------------------------
(* Types.  Shape has those of the tables and of the runs; these are the    *)
(* others, and that a service that is down has read all there is.          *)
Values ==
    /\ service \in {"down", "starting", "started"} /\ timer \in {"off", "armed", "saving", "wrote"}
    /\ asked \in BOOLEAN /\ stray \in BOOLEAN
    /\ flush \in {"none", "created", "saving", "wrote"} /\ (flush = "none" => ~asked)
    /\ passed \subseteq OneShots /\ begun \subseteq OneShots /\ edited \subseteq Jobs
    /\ life \subseteq OneShots \X {"start", "timer"}
    /\ edits \in 0 .. MaxEdits /\ ends \in 0 .. MaxEnds

NothingTwice ==
    /\ unread \cap DOMAIN jobs = {}
    /\ service = "down" => unread = {} /\ jobs = << >>

LEMMA InitValues == Init => Values /\ NothingTwice
<1> SUFFICES ASSUME Init PROVE Values /\ NothingTwice
  OBVIOUS
<1>1. edits \in 0 .. MaxEdits /\ ends \in 0 .. MaxEnds
  BY TimerAssumption DEF Init
<1>2. asked \in BOOLEAN /\ stray \in BOOLEAN
  BY Zenon DEF Init
<1> QED BY <1>1, <1>2 DEF Init, Values, NothingTwice

LEMMA RearmValues ==
    ASSUME NEW js, Rearm(js), Values
    PROVE  timer' \in {"off", "armed"} /\ stray' \in BOOLEAN
<1>1. timer' \in {"off", "armed"}
  BY DEF Rearm, Arm
<1>2. stray' \in BOOLEAN
  BY Zenon DEF Rearm, Values
<1> QED BY <1>1, <1>2

LEMMA StepValues == Shape /\ Values /\ [Next]_vars => Values'
<1> SUFFICES ASSUME Shape, Values, [Next]_vars PROVE Values'
  OBVIOUS
<1> USE DEF Values, file, tick, saving, history, counters
<1>1. CASE Start \/ EndStart
  <2>1. CASE Start
    <3>1. timer' \in {"off", "armed", timer}
      BY <2>1 DEF Start, Arm
    <3>2. /\ service' \in {"starting", "started"} /\ life' = {}
          /\ UNCHANGED <<stray, asked, flush, passed, begun, edited, edits, ends>>
      BY <2>1 DEF Start
    <3> QED BY <3>1, <3>2
  <2>2. CASE EndStart
    <3>1. timer' \in {"off", "armed"} /\ stray' \in BOOLEAN
      BY <2>2, RearmValues DEF EndStart
    <3>2. /\ service' = "started"
          /\ UNCHANGED <<asked, flush, passed, begun, life, edited, edits, ends>>
      BY <2>2 DEF EndStart
    <3> QED BY <3>1, <3>2
  <2> QED BY <1>1, <2>1, <2>2
<1>2. CASE End
  <2>1. ends' \in 0 .. MaxEnds
    BY <1>2, TimerAssumption DEF End
  <2> QED BY <1>2, <2>1 DEF End
<1>3. CASE \E j \in Jobs : Elapse(j)
  BY <1>3 DEF Elapse
<1>4. CASE Tick \/ TickSaves \/ TickRuns
  BY <1>4 DEF Tick, TickSaves, TickRuns, Arm
<1>5. ASSUME NEW r \in BagToSet(runs), BlockRun(r) \/ EndRun(r) PROVE Values'
  BY <1>5 DEF BlockRun, EndRun, RequestSave
<1>6. ASSUME NEW r \in BagToSet(runs), BeginRun(r) PROVE Values'
  BY <1>6 DEF BeginRun
<1>7. ASSUME NEW r \in BagToSet(runs), LeaveRun(r) PROVE Values'
  BY <1>7 DEF LeaveRun, Rearm, Arm
<1>8. CASE Flush \/ StrayWrite
  <2>1. CASE Flush
    <3>1. /\ UNCHANGED <<service, timer, stray, passed, begun, life, edited, edits, ends>>
          /\ asked' = FALSE \/ asked' = asked
          /\ flush' \in {"none", "created", "saving", "wrote"}
      BY <2>1 DEF Flush, FlushBegins, FlushSaves, FlushEnds
    <3>2. flush' = "none" => ~asked'
      BY <2>1 DEF Flush, FlushBegins, FlushSaves, FlushEnds
    <3>3. asked' \in BOOLEAN
      BY <3>1, Zenon
    <3> QED BY <3>1, <3>2, <3>3
  <2>2. CASE StrayWrite
    <3>1. stray' \in BOOLEAN
      BY <2>2, Zenon DEF StrayWrite
    <3> QED BY <2>2, <3>1 DEF StrayWrite
  <2> QED BY <1>8, <2>1, <2>2
<1>9. ASSUME Call PROVE edits' \in 0 .. MaxEdits /\ ends' \in 0 .. MaxEnds
  BY <1>9, TimerAssumption DEF Call
<1>10. ASSUME NEW j \in Jobs, NEW enabled \in BOOLEAN, EnableJob(j, enabled) \/ RemoveJob(j) PROVE Values'
  <2>1. timer' \in {"off", "armed"} /\ stray' \in BOOLEAN
    BY <1>10, RearmValues DEF EnableJob, RemoveJob
  <2>2. /\ edited' = edited \cup {j}
        /\ UNCHANGED <<service, asked, flush, passed, begun, life>>
    BY <1>10 DEF EnableJob, RemoveJob
  <2>3. edits' \in 0 .. MaxEdits /\ ends' \in 0 .. MaxEnds
    BY <1>9, <1>10 DEF EnableJob, RemoveJob
  <2> QED BY <2>1, <2>2, <2>3
<1>11. ASSUME NEW j \in Jobs, TriggerJob(j) PROVE Values'
  BY <1>9, <1>11 DEF TriggerJob
<1>12. CASE ApproveJob
  BY <1>9, <1>12 DEF ApproveJob
<1>13. CASE WatchStore \/ \E j \in Late : AddLate(j)
  <2>1. CASE WatchStore
    <3>1. timer' \in {"off", "armed"} /\ stray' \in BOOLEAN
      BY <2>1, RearmValues DEF WatchStore
    <3>2. UNCHANGED <<service, asked, flush, passed, begun, life, edited, edits, ends>>
      BY <2>1 DEF WatchStore
    <3> QED BY <3>1, <3>2
  <2>2. CASE \E j \in Late : AddLate(j)
    BY <2>2 DEF AddLate
  <2> QED BY <1>13, <2>1, <2>2
<1>14. CASE UNCHANGED vars
  BY <1>14 DEF vars
<1> QED BY <1>1, <1>2, <1>3, <1>4, <1>5, <1>6, <1>7, <1>8, <1>10, <1>11, <1>12, <1>13, <1>14 DEF Next

LEMMA StepReads == Shape /\ NothingTwice /\ [Next]_vars => NothingTwice'
<1> SUFFICES ASSUME Shape, NothingTwice, [Next]_vars PROVE NothingTwice'
  OBVIOUS
<1> USE DEF NothingTwice, file, tick, saving
<1>1. BagToSet(runs) # {} \/ timer # "off" \/ flush # "none" \/ stray => service # "down"
  BY NoRuns DEF Shape
<1>2. CASE Start
  BY <1>2 DEF Start
<1>3. CASE End
  BY <1>3 DEF End
<1>4. CASE \E j \in Jobs : Elapse(j)
  <2>1. PICK j \in Jobs : Elapse(j)
    BY <1>4
  <2>2. DOMAIN jobs' = DOMAIN jobs /\ (jobs = << >> => jobs' = jobs) /\ UNCHANGED <<unread, service>>
    BY <2>1 DEF Elapse, Elapsed
  <2> QED BY <2>2
<1>5. CASE Tick \/ TickSaves \/ StrayWrite \/ FlushSaves
  <2>1. unread' = {} /\ service' = service /\ service # "down"
    BY <1>1, <1>5 DEF Tick, TickSaves, StrayWrite, FlushSaves, WriteAll
  <2> QED BY <2>1
<1>6. CASE EndStart \/ TickRuns \/ FlushBegins \/ FlushEnds
  <2>1. UNCHANGED <<unread, jobs>> /\ (service' = service \/ service' = "started")
    BY <1>6 DEF EndStart, TickRuns, FlushBegins, FlushEnds
  <2> QED BY <2>1
<1>7. ASSUME NEW r \in BagToSet(runs), BlockRun(r) PROVE NothingTwice'
  <2>1. unread' = {} /\ service' = service /\ service # "down"
    BY <1>1, <1>7 DEF BlockRun, WriteAll
  <2> QED BY <2>1
<1>8. ASSUME NEW r \in BagToSet(runs), BeginRun(r) \/ LeaveRun(r) PROVE NothingTwice'
  <2>1. UNCHANGED <<unread, jobs, service>>
    BY <1>8 DEF BeginRun, LeaveRun
  <2> QED BY <2>1
<1>9. ASSUME NEW r \in BagToSet(runs), EndRun(r) PROVE NothingTwice'
  <2>1. DOMAIN jobs' \subseteq DOMAIN jobs /\ UNCHANGED <<unread, service>> /\ service # "down"
    BY <1>1, <1>9 DEF EndRun, Over
  <2> QED BY <2>1
<1>10. ASSUME NEW j \in Jobs, NEW enabled \in BOOLEAN,
              EnableJob(j, enabled) \/ RemoveJob(j) \/ TriggerJob(j)
       PROVE  NothingTwice'
  <2>1. unread' = {} /\ service' = service /\ service # "down"
    BY <1>10 DEF EnableJob, RemoveJob, TriggerJob, WriteAll, Call
  <2> QED BY <2>1
<1>11. CASE ApproveJob \/ WatchStore
  <2>1. unread' = {} /\ service' = service /\ service # "down"
    BY <1>11 DEF ApproveJob, WatchStore, WriteAll, Call
  <2> QED BY <2>1
<1>12. CASE \E j \in Late : AddLate(j)
  BY <1>12 DEF AddLate
<1>13. CASE UNCHANGED vars
  BY <1>13 DEF vars
<1> QED BY <1>2, <1>3, <1>4, <1>5, <1>6, <1>7, <1>8, <1>9, <1>10, <1>11, <1>12, <1>13 DEF Next, Flush

(* In every state every variable has its type, a service that is down      *)
(* holds nothing, and what is unread is in the file and not in memory.     *)
THEOREM TimerType == Spec => []TypeOK
<1>1. ForgetInv /\ Values /\ [Next]_vars => Values'
  BY StepValues DEF ForgetInv
<1>2. ForgetInv /\ NothingTwice /\ [Next]_vars => NothingTwice'
  BY StepReads DEF ForgetInv
<1>3. ForgetInv /\ Values /\ NothingTwice => TypeOK
  <2> SUFFICES ASSUME Shape, Values, NothingTwice PROVE TypeOK
    BY DEF ForgetInv
  <2>1. \A js \in {saved, jobs} : DOMAIN js \subseteq Jobs /\ \A j \in DOMAIN js : js[j] \in Job
    BY DEF Shape, IsTable
  <2>2. unread \subseteq DOMAIN saved \ DOMAIN jobs
    BY DEF Shape, NothingTwice
  <2> QED BY <2>1, <2>2 DEF Shape, Values, NothingTwice, TypeOK
<1> QED BY <1>1, <1>2, <1>3, InitValues, AlwaysForgets, PTL DEF Spec

-----------------------------------------------------------------------------
(* Once per cause.  A one-shot's time is taken off the job when it is given *)
(* to the timer's batch, and can only be set again while it lies ahead; so *)
(* there is never a second run to come of a cause that has one or had one. *)
Causes == {"start", "timer"}
ToRun(j, w) == [job |-> j, why |-> w, at |-> "created"]

InBatch(j) == timer \in {"saving", "wrote"} /\ j \in batch

(* The timer has had the time of j.                                        *)
Taken(j) == InBatch(j) \/ ToRun(j, "timer") \in BagToSet(runs) \/ <<j, "timer">> \in life

Single ==
    \A j \in OneShots, w \in Causes :
        ToRun(j, w) \in BagToSet(runs) => runs[ToRun(j, w)] = 1 /\ <<j, w>> \notin life

TakenForGood ==
    \A j \in OneShots :
        Taken(j) => j \in passed /\ (j \in DOMAIN jobs => jobs[j].next = "none")

TakenAlone ==
    \A j \in OneShots :
        InBatch(j) => ToRun(j, "timer") \notin BagToSet(runs) /\ <<j, "timer">> \notin life

(* What is due has come, what comes later has not.                         *)
Timely(js, done) ==
    \A j \in OneShots \cap DOMAIN js :
        (js[j].next = "due" => j \in done) /\ (js[j].next = "later" => j \notin done)

OnceInv ==
    /\ Single /\ TakenForGood /\ TakenAlone
    /\ Timely(saved, passed) /\ Timely(jobs, passed)
    /\ life \subseteq OneShots \X Causes

(* Steps that give nothing to the timer and start nothing.                 *)
LEMMA NothingTaken ==
    ASSUME OnceInv, passed \subseteq passed', UNCHANGED life,
           \A j \in OneShots, w \in Causes :
               ToRun(j, w) \in BagToSet(runs') => /\ ToRun(j, w) \in BagToSet(runs)
                                                  /\ runs'[ToRun(j, w)] = 1,
           \A j \in OneShots : InBatch(j)' => InBatch(j),
           \A j \in OneShots \cap DOMAIN jobs' : Taken(j) => jobs'[j].next = "none"
    PROVE  Single' /\ TakenForGood' /\ TakenAlone'
<1>1. Single'
  BY DEF OnceInv, Single
<1>3. \A j \in OneShots : Taken(j)' => Taken(j)
  BY DEF Taken, Causes
<1>4. TakenForGood'
  BY <1>3 DEF OnceInv, TakenForGood
<1>5. TakenAlone'
  BY DEF OnceInv, TakenAlone, Causes
<1> QED BY <1>1, <1>4, <1>5

(* The same of a step that leaves the run tasks alone.                     *)
LEMMA NothingRuns ==
    ASSUME OnceInv, UNCHANGED <<runs, life, passed>>,
           \A j \in OneShots : InBatch(j)' => InBatch(j),
           \A j \in OneShots \cap DOMAIN jobs' :
               Taken(j) => jobs'[j].next = "none"
    PROVE  Single' /\ TakenForGood' /\ TakenAlone'
<1>1. \A j \in OneShots, w \in Causes :
        ToRun(j, w) \in BagToSet(runs') => ToRun(j, w) \in BagToSet(runs) /\ runs'[ToRun(j, w)] = 1
  BY DEF OnceInv, Single
<1> QED BY <1>1, NothingTaken

(* Reading brings no one-shots and no times of them.                       *)
LEMMA ReadTimes ==
    ASSUME ForgetInv, OnceInv
    PROVE  /\ OneShots \cap DOMAIN Synced = OneShots \cap DOMAIN jobs
           /\ \A j \in OneShots \cap DOMAIN jobs : Synced[j] = jobs[j]
           /\ Timely(Synced, passed)
           /\ \A j \in OneShots \cap DOMAIN Synced : Taken(j) => Synced[j].next = "none"
<1>1. /\ DOMAIN Synced = DOMAIN jobs \cup unread
      /\ \A j \in DOMAIN jobs : Synced[j] = jobs[j]
  BY ReadInto DEF ForgetInv, Shape, Synced
<1>2. OneShots \cap unread = {}
  BY TimerAssumption DEF ForgetInv, Shape
<1>3. /\ OneShots \cap DOMAIN Synced = OneShots \cap DOMAIN jobs
      /\ \A j \in OneShots \cap DOMAIN jobs : Synced[j] = jobs[j]
  BY <1>1, <1>2
<1> QED BY <1>3 DEF OnceInv, Timely, TakenForGood

LEMMA InitOnce == Init => OnceInv
BY NoRuns DEF Init, OnceInv, Single, TakenForGood, TakenAlone, Taken, InBatch, Timely, NewJob

LEMMA SavesOnce ==
    ASSUME ForgetInv, OnceInv, TickSaves \/ FlushSaves \/ StrayWrite \/ ApproveJob \/ WatchStore
    PROVE  OnceInv'
<1>1. /\ jobs' = Synced /\ saved' \in {Synced, saved}
      /\ UNCHANGED <<runs, life, passed>>
  BY DEF TickSaves, FlushSaves, StrayWrite, ApproveJob, WatchStore, WriteAll, history
<1>2. \A j \in OneShots : InBatch(j)' => InBatch(j)
  BY DEF TickSaves, FlushSaves, StrayWrite, ApproveJob, WatchStore, Rearm, Arm, tick, InBatch
<1> HIDE DEF Synced
<1>3. Timely(saved', passed) /\ Timely(jobs', passed)
  BY <1>1, ReadTimes DEF OnceInv
<1>4. Single' /\ TakenForGood' /\ TakenAlone'
  BY <1>1, <1>2, ReadTimes, NothingRuns
<1> QED BY <1>1, <1>3, <1>4 DEF OnceInv

(* A user's edit takes the job's time off, or sets one still ahead.        *)
LEMMA EditOnce ==
    ASSUME ForgetInv, OnceInv, NEW j \in Jobs, NEW js,
           DOMAIN js \subseteq DOMAIN Synced,
           \A i \in DOMAIN js \ {j} : js[i] = Synced[i],
           j \in DOMAIN js => js[j].next \in {"none", NextRun(j)},
           WriteAll(js), Rearm(js), UNCHANGED <<runs, life, passed>>
    PROVE  OnceInv'
<1>1. \A i \in OneShots \cap DOMAIN js :
        /\ js[i].next = "due" => i \in passed
        /\ js[i].next = "later" => i \notin passed
        /\ Taken(i) => js[i].next = "none"
  <2> TAKE i \in OneShots \cap DOMAIN js
  <2>1. CASE i # j
    BY <2>1, ReadTimes DEF Timely
  <2>2. CASE i = j
    <3>1. Taken(j) => j \in passed
      BY <2>2 DEF OnceInv, TakenForGood
    <3> QED BY <2>2, <3>1 DEF NextRun
  <2> QED BY <2>1, <2>2
<1>2. saved' = js /\ jobs' = js
  BY DEF WriteAll
<1>3. Timely(saved', passed) /\ Timely(jobs', passed)
  BY <1>1, <1>2 DEF Timely
<1>4. \A i \in OneShots : InBatch(i)' => InBatch(i)
  BY DEF Rearm, Arm, InBatch
<1>5. Single' /\ TakenForGood' /\ TakenAlone'
  BY <1>1, <1>2, <1>4, NothingRuns
<1> QED BY <1>3, <1>5 DEF OnceInv

LEMMA EditsOnce ==
    ASSUME ForgetInv, OnceInv, NEW j \in Jobs,
           RemoveJob(j) \/ \E enabled \in BOOLEAN : EnableJob(j, enabled)
    PROVE  OnceInv'
<1>1. IsTable(Synced)
  BY ReadInto DEF ForgetInv, Shape, Synced
<1>2. CASE RemoveJob(j)
  <2> DEFINE js == [i \in DOMAIN Synced \ {j} |-> Synced[i]]
  <2>1. WriteAll(js) /\ Rearm(js) /\ UNCHANGED <<runs, life, passed>>
    BY <1>2 DEF RemoveJob, WriteAll
  <2>2. DOMAIN js = DOMAIN Synced \ {j} /\ \A i \in DOMAIN js : js[i] = Synced[i]
    OBVIOUS
  <2> HIDE DEF js
  <2> QED BY <2>1, <2>2, EditOnce
<1>3. ASSUME NEW enabled \in BOOLEAN, EnableJob(j, enabled)
      PROVE  OnceInv'
  <2> DEFINE js == [Synced EXCEPT ![j].enabled = enabled,
                                  ![j].next = IF enabled THEN NextRun(j) ELSE "none"]
  <2>1. WriteAll(js) /\ Rearm(js) /\ UNCHANGED <<runs, life, passed>> /\ j \in DOMAIN Synced
    BY <1>3 DEF EnableJob, WriteAll
  <2>2. /\ DOMAIN js = DOMAIN Synced /\ \A i \in DOMAIN js \ {j} : js[i] = Synced[i]
        /\ js[j].next \in {"none", NextRun(j)}
    BY <1>1, <2>1 DEF IsTable, Job
  <2> HIDE DEF js
  <2> QED BY <2>1, <2>2, EditOnce
<1> QED BY <1>2, <1>3

LEMMA AddOnce ==
    ASSUME ForgetInv, OnceInv, NEW j \in Late, AddLate(j)
    PROVE  OnceInv'
<1>1. UNCHANGED <<jobs, timer, batch, runs, passed, life>>
  BY DEF AddLate, tick, history
<1>2. Timely(saved', passed)
  BY TimerAssumption DEF AddLate, OnceInv, Timely
<1>3. Single' /\ TakenForGood' /\ TakenAlone'
  BY <1>1, NothingRuns DEF InBatch, OnceInv, TakenForGood
<1> QED BY <1>1, <1>2, <1>3 DEF OnceInv, Timely

LEMMA IdleOnce ==
    ASSUME ForgetInv, OnceInv, FlushBegins \/ FlushEnds \/ EndStart \/ UNCHANGED vars
    PROVE  OnceInv'
<1>1. UNCHANGED <<saved, jobs, runs, passed, life>>
  BY DEF FlushBegins, FlushEnds, EndStart, vars, file, history
<1>2. \A i \in OneShots : InBatch(i)' => InBatch(i)
  BY DEF FlushBegins, FlushEnds, EndStart, vars, tick, Rearm, Arm, InBatch
<1>3. Single' /\ TakenForGood' /\ TakenAlone'
  BY <1>1, <1>2, NothingRuns DEF OnceInv, TakenForGood
<1> QED BY <1>1, <1>3 DEF OnceInv, Timely

LEMMA EndOnce ==
    ASSUME ForgetInv, OnceInv, End
    PROVE  OnceInv'
<1>1. /\ saved' \in {saved, Synced} /\ DOMAIN jobs' = {} /\ runs' = EmptyBag
      /\ UNCHANGED <<passed, life>> /\ timer' = "off"
  BY DEF End, history
<1>2. Timely(saved', passed) /\ Timely(jobs', passed)
  BY <1>1, ReadTimes DEF OnceInv, Timely
<1>3. Single' /\ TakenForGood' /\ TakenAlone'
  <2>1. BagToSet(runs') = {}
    BY <1>1, NoRuns
  <2> QED BY <1>1, <2>1, NothingTaken DEF InBatch
<1> QED BY <1>1, <1>2, <1>3 DEF OnceInv

LEMMA ElapseOnce ==
    ASSUME ForgetInv, OnceInv, NEW j \in Jobs, Elapse(j)
    PROVE  OnceInv'
<1>1. /\ passed' = passed \cup ({j} \cap OneShots)
      /\ jobs' = Elapsed(jobs, j) /\ saved' = Elapsed(saved, j)
      /\ UNCHANGED <<timer, batch, runs, life>>
  BY DEF Elapse, tick, history
<1>2. ASSUME NEW js, IsTable(js), Timely(js, passed)
      PROVE  /\ Timely(Elapsed(js, j), passed')
             /\ DOMAIN Elapsed(js, j) = DOMAIN js
             /\ \A i \in DOMAIN js : js[i].next = "none" => Elapsed(js, j)[i].next = "none"
  <2>1. CASE j \in DOMAIN js /\ js[j].next = "later"
    <3>1. Elapsed(js, j) = [i \in DOMAIN js |-> IF i = j THEN [js[j] EXCEPT !.next = "due"] ELSE js[i]]
      BY <1>2, <2>1 DEF Elapsed, IsTable
    <3>2. [js[j] EXCEPT !.next = "due"].next = "due"
      BY <1>2, <2>1 DEF IsTable, Job
    <3> QED BY <1>1, <1>2, <2>1, <3>1, <3>2 DEF Timely
  <2>2. CASE ~(j \in DOMAIN js /\ js[j].next = "later")
    BY <1>1, <1>2, <2>2 DEF Elapsed, Timely
  <2> QED BY <2>1, <2>2
<1>3. /\ Timely(jobs', passed') /\ Timely(saved', passed')
      /\ \A i \in OneShots \cap DOMAIN jobs' : Taken(i) => jobs'[i].next = "none"
  BY <1>1, <1>2 DEF ForgetInv, Shape, OnceInv, TakenForGood
<1>4. \A i \in OneShots : InBatch(i)' => InBatch(i)
  BY <1>1 DEF InBatch
<1>5. \A i \in OneShots, w \in Causes :
        ToRun(i, w) \in BagToSet(runs') => ToRun(i, w) \in BagToSet(runs) /\ runs'[ToRun(i, w)] = 1
  BY <1>1 DEF OnceInv, Single
<1>6. Single' /\ TakenForGood' /\ TakenAlone'
  BY <1>1, <1>3, <1>4, <1>5, NothingTaken
<1> QED BY <1>1, <1>3, <1>6 DEF OnceInv

LEMMA TriggerOnce ==
    ASSUME ForgetInv, OnceInv, NEW j \in Jobs, TriggerJob(j)
    PROVE  OnceInv'
<1>1. /\ jobs' = Synced /\ WithTasks({j}, "force") /\ UNCHANGED <<saved, passed, life, timer, batch>>
  BY DEF TriggerJob, tick, history
<1>2. \A i \in OneShots, w \in Causes :
        ToRun(i, w) \in BagToSet(runs') => ToRun(i, w) \in BagToSet(runs) /\ runs'[ToRun(i, w)] = 1
  <2> TAKE i \in OneShots, w \in Causes
  <2> HAVE ToRun(i, w) \in BagToSet(runs')
  <2>1. ToRun(i, w) # [job |-> j, why |-> "force", at |-> "created"]
    BY DEF ToRun, Causes
  <2>2. {j} \in SUBSET Jobs /\ "force" \in Why
    BY DEF Why
  <2> DEFINE new == {[job |-> n, why |-> "force", at |-> "created"] : n \in {j}}
  <2>4. /\ BagToSet(runs') = BagToSet(runs) \cup new
        /\ \A q \in BagToSet(runs) :
              (\A n \in {j} : q # [job |-> n, why |-> "force", at |-> "created"]) => runs'[q] = runs[q]
    BY <1>1, <2>2, TasksAdded DEF ForgetInv
  <2>3. ToRun(i, w) \in BagToSet(runs) /\ runs'[ToRun(i, w)] = runs[ToRun(i, w)]
    BY <2>1, <2>4
  <2> QED BY <2>3 DEF OnceInv, Single
<1>3. Timely(saved', passed) /\ Timely(jobs', passed)
  BY <1>1, ReadTimes DEF OnceInv
<1>4. Single' /\ TakenForGood' /\ TakenAlone'
  BY <1>1, <1>2, ReadTimes, NothingTaken DEF InBatch
<1> QED BY <1>1, <1>3, <1>4 DEF OnceInv

(* Run tasks that go on: none more that is to run.                         *)
LEMMA MovedOnce ==
    ASSUME ForgetInv, OnceInv, NEW r \in BagToSet(runs), NEW at \in {"working", "ended"},
           MoveRun(r, at)
    PROVE  \A i \in OneShots, w \in Causes :
              ToRun(i, w) \in BagToSet(runs') =>
                  ToRun(i, w) \in BagToSet(runs) /\ runs'[ToRun(i, w)] = 1 /\ ToRun(i, w) # r
<1> TAKE i \in OneShots, w \in Causes
<1> HAVE ToRun(i, w) \in BagToSet(runs')
<1>1. ToRun(i, w).at = "created"
  BY DEF ToRun
<1>2. /\ ToRun(i, w) \in BagToSet(runs)
      /\ IF ToRun(i, w) = r THEN runs[r] > 1 ELSE runs'[ToRun(i, w)] = runs[ToRun(i, w)]
  BY <1>1, RunMoved DEF ForgetInv
<1>3. runs[ToRun(i, w)] = 1
  BY <1>2 DEF OnceInv, Single
<1> QED BY <1>2, <1>3

LEMMA OverTimes ==
    ASSUME ForgetInv, OnceInv, NEW j \in Jobs, NEW why \in Why, NEW i \in OneShots \cap DOMAIN jobs
    PROVE  Over(j, why)[i].next \in {"none", jobs[i].next}
<1>1. CASE i = j
  <2>1. Over(j, why)[j].next = "none"
    BY <1>1 DEF Over, ForgetInv, Shape, IsTable
  <2> QED BY <1>1, <2>1
<1>2. CASE i # j
  BY <1>2, OverIs DEF ForgetInv
<1> QED BY <1>1, <1>2

LEMMA BlockOnce ==
    ASSUME ForgetInv, OnceInv, NEW r \in BagToSet(runs), BlockRun(r)
    PROVE  OnceInv'
<1> DEFINE over == Over(r.job, r.why)
           js == WithUnread(over)
<1>1. /\ r.job \in Jobs /\ r.why \in Why /\ WriteAll(js) /\ MoveRun(r, "ended")
      /\ UNCHANGED <<passed, life, timer, batch>>
  BY DEF BlockRun, tick, history, ForgetInv, Shape, Run
<1>2. /\ IsTable(over) /\ DOMAIN over = DOMAIN jobs
      /\ \A i \in OneShots \cap DOMAIN jobs : over[i].next \in {"none", jobs[i].next}
  BY <1>1, OverIs, OverTimes DEF ForgetInv
<1>3. OneShots \cap unread = {}
  BY TimerAssumption DEF ForgetInv, Shape
<1>4. /\ OneShots \cap DOMAIN js = OneShots \cap DOMAIN jobs
      /\ \A i \in OneShots \cap DOMAIN jobs : js[i].next \in {"none", jobs[i].next}
  BY <1>2, <1>3, ReadInto DEF ForgetInv
<1> HIDE DEF js, over
<1>5. saved' = js /\ jobs' = js
  BY <1>1 DEF WriteAll
<1>6. Timely(saved', passed) /\ Timely(jobs', passed)
  BY <1>4, <1>5 DEF OnceInv, Timely
<1>7. \A i \in OneShots \cap DOMAIN jobs' : Taken(i) => jobs'[i].next = "none"
  BY <1>4, <1>5 DEF OnceInv, TakenForGood
<1>8. Single' /\ TakenForGood' /\ TakenAlone'
  BY <1>1, <1>7, MovedOnce, NothingTaken DEF InBatch
<1> QED BY <1>1, <1>6, <1>8 DEF OnceInv

LEMMA EndRunOnce ==
    ASSUME ForgetInv, OnceInv, NEW r \in BagToSet(runs), EndRun(r)
    PROVE  OnceInv'
<1>1. /\ r.job \in Jobs /\ r.why \in Why /\ MoveRun(r, "ended")
      /\ UNCHANGED <<saved, passed, life, timer, batch>>
  BY DEF EndRun, file, tick, history, ForgetInv, Shape, Run
<1>2. /\ DOMAIN jobs' \subseteq DOMAIN jobs
      /\ \A i \in OneShots \cap DOMAIN jobs' : jobs'[i].next \in {"none", jobs[i].next}
  <2>1. CASE r.job \in Vanishing
    BY <2>1 DEF EndRun
  <2>2. CASE r.job \notin Vanishing
    BY <1>1, <2>2, OverIs, OverTimes DEF EndRun, ForgetInv
  <2> QED BY <2>1, <2>2
<1>3. Timely(saved', passed) /\ Timely(jobs', passed)
  BY <1>1, <1>2 DEF OnceInv, Timely
<1>4. \A i \in OneShots \cap DOMAIN jobs' : Taken(i) => jobs'[i].next = "none"
  BY <1>2 DEF OnceInv, TakenForGood
<1>5. Single' /\ TakenForGood' /\ TakenAlone'
  BY <1>1, <1>4, MovedOnce, NothingTaken DEF InBatch
<1> QED BY <1>1, <1>3, <1>5 DEF OnceInv

LEMMA LeaveOnce ==
    ASSUME ForgetInv, OnceInv, NEW r \in BagToSet(runs), LeaveRun(r)
    PROVE  OnceInv'
<1>1. /\ r.at = "ended" /\ runs' = runs (-) SetToBag({r})
      /\ UNCHANGED <<saved, jobs, passed, life>> /\ timer' \in {"off", "armed"}
  BY DEF LeaveRun, Rearm, Arm, file, history
<1>2. \A i \in OneShots, w \in Causes :
        ToRun(i, w) \in BagToSet(runs') => ToRun(i, w) \in BagToSet(runs) /\ runs'[ToRun(i, w)] = 1
  <2> TAKE i \in OneShots, w \in Causes
  <2> HAVE ToRun(i, w) \in BagToSet(runs')
  <2>1. ToRun(i, w) # r
    BY <1>1 DEF ToRun
  <2>2. ToRun(i, w) \in BagToSet(runs) /\ runs'[ToRun(i, w)] = runs[ToRun(i, w)]
    BY <1>1, <2>1, RunLeft DEF ForgetInv
  <2> QED BY <2>2 DEF OnceInv, Single
<1>3. Single' /\ TakenForGood' /\ TakenAlone'
  BY <1>1, <1>2, NothingTaken DEF InBatch, OnceInv, TakenForGood
<1> QED BY <1>1, <1>3 DEF OnceInv

LEMMA StartOnce ==
    ASSUME ForgetInv, OnceInv, Start
    PROVE  OnceInv'
<1>1. /\ runs = EmptyBag /\ timer = "off" /\ jobs' = Restarted(saved)
      /\ WithTasks(Overdue(saved), "start") /\ life' = {}
      /\ UNCHANGED <<saved, passed>> /\ timer' \in {"off", "armed"}
  BY DEF Start, Arm, file, ForgetInv, Shape
<1> DEFINE new == {[job |-> n, why |-> "start", at |-> "created"] : n \in Overdue(saved)}
<1>2. Overdue(saved) \in SUBSET Jobs /\ "start" \in Why
  BY DEF Overdue, Jobs, Why
<1>3. BagToSet(runs') = new /\ \A n \in Overdue(saved) :
                                   runs'[[job |-> n, why |-> "start", at |-> "created"]] = 1
  BY <1>1, <1>2, TasksAdded, NoRuns DEF ForgetInv
<1>4. Single'
  BY <1>1, <1>3 DEF Single, ToRun, Causes
<1>5. TakenForGood' /\ TakenAlone'
  <2>1. \A j \in OneShots : ~InBatch(j)' /\ ToRun(j, "timer") \notin BagToSet(runs')
    BY <1>1, <1>3 DEF InBatch, ToRun
  <2> QED BY <1>1, <2>1 DEF TakenForGood, TakenAlone, Taken
<1>6. \A j \in OneShots \cap DOMAIN jobs' : j \in DOMAIN saved /\ jobs'[j] = saved[j]
  BY <1>1, TimerAssumption DEF Restarted
<1> QED BY <1>1, <1>4, <1>5, <1>6 DEF OnceInv, Timely

LEMMA TickOnce ==
    ASSUME ForgetInv, OnceInv, Tick
    PROVE  OnceInv'
<1>1. /\ timer = "armed" /\ jobs' = Advanced(Synced) /\ batch' = Due(Synced)
      /\ UNCHANGED <<saved, runs, passed, life>>
  BY DEF Tick, history
<1>2. IsTable(Synced)
  BY ReadInto DEF ForgetInv, Shape, Synced
<1>3. \A j \in OneShots \cap DOMAIN Synced :
        /\ j \in Due(Synced) => ~Taken(j) /\ j \in passed
        /\ Advanced(Synced)[j].next = IF j \in Due(Synced) THEN "none" ELSE Synced[j].next
  <2> TAKE j \in OneShots \cap DOMAIN Synced
  <2>1. j \in Due(Synced) => Synced[j].next = "due"
    BY DEF Due
  <2>2. j \in Due(Synced) => ~Taken(j) /\ j \in passed
    BY <2>1, ReadTimes DEF Timely
  <2>3. Advanced(Synced)[j] = IF j \in Due(Synced) THEN [Synced[j] EXCEPT !.next = NextRun(j)]
                              ELSE Synced[j]
    BY DEF Advanced
  <2>4. Synced[j] \in Job
    BY <1>2 DEF IsTable
  <2> QED BY <2>2, <2>3, <2>4 DEF NextRun, Job
<1>4. OneShots \cap DOMAIN jobs' = OneShots \cap DOMAIN Synced
  BY <1>1 DEF Advanced
<1>5. Due(Synced) \subseteq DOMAIN Synced
  BY DEF Due, Waiting
<1> HIDE DEF Synced
<1>6. Timely(jobs', passed)
  BY <1>1, <1>3, <1>4, ReadTimes DEF Timely
<1>7. \A j \in OneShots : Taken(j)' => Taken(j) \/ j \in Due(Synced)
  BY <1>1 DEF Taken, InBatch
<1>8. TakenForGood'
  <2> SUFFICES ASSUME NEW j \in OneShots, Taken(j)'
               PROVE  j \in passed /\ (j \in DOMAIN jobs' => jobs'[j].next = "none")
    BY <1>1 DEF TakenForGood
  <2>1. CASE j \in Due(Synced)
    BY <1>1, <1>3, <1>5, <2>1
  <2>2. CASE j \notin Due(Synced)
    <3>1. Taken(j)
      BY <1>7, <2>2
    <3> QED BY <1>1, <1>3, <1>4, <2>2, <3>1, ReadTimes DEF OnceInv, TakenForGood
  <2> QED BY <2>1, <2>2
<1>9. TakenAlone'
  <2> SUFFICES ASSUME NEW j \in OneShots, InBatch(j)'
               PROVE  ToRun(j, "timer") \notin BagToSet(runs) /\ <<j, "timer">> \notin life
    BY <1>1 DEF TakenAlone
  <2>1. j \in Due(Synced)
    BY <1>1 DEF InBatch
  <2> QED BY <1>3, <1>5, <2>1 DEF Taken
<1> QED BY <1>1, <1>6, <1>8, <1>9 DEF OnceInv, Single

LEMMA TickRunsOnce ==
    ASSUME ForgetInv, OnceInv, TickRuns
    PROVE  OnceInv'
<1>1. /\ timer = "wrote" /\ timer' \in {"off", "armed"} /\ WithTasks(batch, "timer")
      /\ UNCHANGED <<saved, jobs, passed, life>>
  BY DEF TickRuns, Arm, file, history
<1> DEFINE new == {[job |-> n, why |-> "timer", at |-> "created"] : n \in batch}
<1>2. batch \in SUBSET Jobs /\ "timer" \in Why
  BY DEF ForgetInv, Shape, Why
<1>3. /\ BagToSet(runs') = BagToSet(runs) \cup new
      /\ \A n \in batch : LET r == [job |-> n, why |-> "timer", at |-> "created"]
                           IN  r \notin BagToSet(runs) => runs'[r] = 1
      /\ \A r \in BagToSet(runs) :
            (\A n \in batch : r # [job |-> n, why |-> "timer", at |-> "created"]) => runs'[r] = runs[r]
  BY <1>1, <1>2, TasksAdded DEF ForgetInv
<1>4. ASSUME NEW j \in OneShots, NEW w \in Causes, ToRun(j, w) \in BagToSet(runs')
      PROVE  /\ runs'[ToRun(j, w)] = 1 /\ <<j, w>> \notin life
             /\ ToRun(j, w) \in BagToSet(runs) \/ (w = "timer" /\ InBatch(j))
  <2>1. CASE w = "timer" /\ j \in batch
    <3>1. InBatch(j)
      BY <1>1, <2>1 DEF InBatch
    <3>2. ToRun(j, w) \notin BagToSet(runs) /\ <<j, w>> \notin life
      BY <2>1, <3>1 DEF OnceInv, TakenAlone
    <3> QED BY <1>3, <2>1, <3>1, <3>2 DEF ToRun
  <2>2. CASE ~(w = "timer" /\ j \in batch)
    <3>1. \A n \in batch : ToRun(j, w) # [job |-> n, why |-> "timer", at |-> "created"]
      BY <2>2 DEF ToRun
    <3>2. ToRun(j, w) \in BagToSet(runs) /\ runs'[ToRun(j, w)] = runs[ToRun(j, w)]
      BY <1>3, <1>4, <3>1
    <3> QED BY <3>2 DEF OnceInv, Single
  <2> QED BY <2>1, <2>2
<1>5. Single'
  BY <1>1, <1>4 DEF Single
<1>6. \A j \in OneShots : ~InBatch(j)' /\ (Taken(j)' => Taken(j))
  BY <1>1, <1>4 DEF InBatch, Taken, Causes
<1>7. TakenForGood' /\ TakenAlone'
  BY <1>1, <1>6 DEF OnceInv, TakenForGood, TakenAlone
<1> QED BY <1>1, <1>5, <1>7 DEF OnceInv, Timely

LEMMA BeginOnce ==
    ASSUME ForgetInv, OnceInv, NEW r \in BagToSet(runs), BeginRun(r)
    PROVE  OnceInv'
<1>1. /\ r \in Run /\ r.at = "created" /\ MoveRun(r, "working")
      /\ life' = life \cup ({<<r.job, r.why>>} \cap (OneShots \X Causes))
      /\ UNCHANGED <<saved, jobs, passed, timer, batch>>
  BY DEF BeginRun, file, tick, ForgetInv, Shape, Causes
<1>2. \A i \in OneShots, w \in Causes :
        ToRun(i, w) \in BagToSet(runs') =>
            ToRun(i, w) \in BagToSet(runs) /\ runs'[ToRun(i, w)] = 1 /\ ToRun(i, w) # r
  BY <1>1, MovedOnce
<1>3. \A i \in OneShots, w \in Causes :
        <<i, w>> \in life' => <<i, w>> \in life \/ r = ToRun(i, w)
  BY <1>1 DEF Run, ToRun
<1>4. Single'
  BY <1>2, <1>3 DEF OnceInv, Single
<1>5. \A j \in OneShots : (InBatch(j)' <=> InBatch(j)) /\ (Taken(j)' => Taken(j))
  BY <1>1, <1>2, <1>3 DEF InBatch, Taken, Causes
<1>6. TakenForGood'
  BY <1>1, <1>5 DEF OnceInv, TakenForGood
<1>7. TakenAlone'
  BY <1>2, <1>3, <1>5 DEF OnceInv, TakenAlone, Causes
<1> QED BY <1>1, <1>4, <1>6, <1>7 DEF OnceInv, Timely

LEMMA StepOnce == ForgetInv /\ OnceInv /\ [Next]_vars => OnceInv'
<1> SUFFICES ASSUME ForgetInv, OnceInv, [Next]_vars PROVE OnceInv'
  OBVIOUS
<1>1. CASE Start \/ EndStart \/ End
  BY <1>1, StartOnce, IdleOnce, EndOnce
<1>2. CASE \E j \in Jobs : Elapse(j)
  BY <1>2, ElapseOnce
<1>3. CASE Tick \/ TickSaves \/ TickRuns
  BY <1>3, TickOnce, SavesOnce, TickRunsOnce
<1>4. CASE \E r \in BagToSet(runs) : BlockRun(r) \/ BeginRun(r) \/ EndRun(r) \/ LeaveRun(r)
  BY <1>4, BlockOnce, BeginOnce, EndRunOnce, LeaveOnce
<1>5. CASE Flush \/ StrayWrite \/ UNCHANGED vars
  BY <1>5, IdleOnce, SavesOnce DEF Flush
<1>6. CASE \E j \in Jobs, enabled \in BOOLEAN : EnableJob(j, enabled)
  BY <1>6, EditsOnce
<1>7. CASE \E j \in Jobs : RemoveJob(j) \/ TriggerJob(j)
  BY <1>7, EditsOnce, TriggerOnce
<1>8. CASE ApproveJob \/ (\E j \in Late : AddLate(j)) \/ WatchStore
  BY <1>8, SavesOnce, AddOnce
<1> QED BY <1>1, <1>2, <1>3, <1>4, <1>5, <1>6, <1>7, <1>8 DEF Next

(* Between two starts the timer begins a one-shot at most once, and so does *)
(* the search for overdue ones (service.py:883, :906).                     *)
THEOREM OnePerCause == Spec => OncePerCause
<1>1. ASSUME ForgetInv, OnceInv, [Next]_vars
      PROVE  [\A r \in BagToSet(runs) : Begins(r) /\ r.why # "force" => <<r.job, r.why>> \notin life]_vars
  <2> SUFFICES ASSUME NEW r \in BagToSet(runs), r.at = "created", r.why # "force"
               PROVE  <<r.job, r.why>> \notin life
    BY DEF Begins
  <2>1. r \in Run /\ r.why \in Causes
    BY <1>1 DEF ForgetInv, Shape, Run, Why, Causes
  <2>2. CASE r.job \in OneShots
    <3>1. ToRun(r.job, r.why) = r
      BY <2>1 DEF ToRun, Run
    <3>2. ToRun(r.job, r.why) \in BagToSet(runs)
      BY <3>1
    <3> QED BY <1>1, <2>1, <2>2, <3>2, Zenon DEF OnceInv, Single
  <2>3. CASE r.job \notin OneShots
    BY <1>1, <2>3 DEF OnceInv
  <2> QED BY <2>2, <2>3
<1> QED BY <1>1, InitForgets, InitOnce, StepForgets, StepOnce, PTL DEF Spec, OncePerCause
=============================================================================
