----------------------- MODULE AutomationStoreProofs -----------------------
(* AutomationStore, for any processes, jobs and bounds: its safety         *)
(* invariants, and that it implements StoreEdits.                          *)
EXTENDS AutomationStore, TLAPS

-----------------------------------------------------------------------------
(* The inductive invariant.  An id that is only in one process's copy has  *)
(* never been in the file and is in no other copy, so that writing it      *)
(* revives nothing; and every approval in the file or in a copy was given. *)
Pending(p) == DOMAIN local[p] \ DOMAIN base[p]

PendingIsNew ==
    /\ \A p \in Procs : Pending(p) \cap (DOMAIN disk \cup gone) = {}
    /\ \A p, q \in Procs : p # q => Pending(p) \cap Pending(q) = {}

Recorded(jobs) ==
    \A j \in DOMAIN jobs :
        jobs[j].approved # NoGrant => <<j, jobs[j].approved>> \in granted

GrantsRecorded == Recorded(disk) /\ \A p \in Procs : Recorded(local[p])

IInv == TypeOK /\ PendingIsNew /\ RemovedStaysGone /\ GrantsRecorded

-----------------------------------------------------------------------------
(* Reading.                                                                *)

(* After a read a process remembers the file as it is.                     *)
LEMMA RememberedIsDisk ==
    ASSUME TypeOK, NEW p \in Procs
    PROVE  Remembered(p) = disk
BY DEF TypeOK, Remembered

(* Each field of a merged job is the copy's or the file's.                 *)
LEMMA MergedJob ==
    ASSUME NEW b \in Job, NEW l \in Job, NEW x \in Job
    PROVE  /\ MergeChangedFields(b, l, x) \in Job
           /\ MergeChangedFields(b, l, x).approved \in {l.approved, x.approved}
BY DEF Job, Fields, MergeChangedFields

(* A read leaves jobs of the file and the process's own pending ones, with *)
(* approvals that were given.                                              *)
LEMMA SyncedFacts ==
    ASSUME IInv, NEW p \in Procs
    PROVE  /\ IsStore(Synced(p)) /\ Recorded(Synced(p))
           /\ DOMAIN Synced(p) \subseteq DOMAIN disk \cup Pending(p)
           /\ DOMAIN Synced(p) \subseteq used
<1> USE DEF IInv, TypeOK, GrantsRecorded
<1>1. CASE fresh[p]
  BY <1>1 DEF Synced, Pending
<1>2. CASE ~fresh[p]
  <2> DEFINE b == base[p]
             l == local[p]
  <2>0. IsStore(b) /\ IsStore(l) /\ IsStore(disk) /\ Recorded(l) /\ Recorded(disk)
    OBVIOUS
  <2>1. Synced(p) = Merge(b, l, disk)
    BY <1>2 DEF Synced
  <2>2. /\ DOMAIN Synced(p) = MergedIds(b, l, disk)
        /\ Synced(p) = [j \in DOMAIN Synced(p) |-> Synced(p)[j]]
    BY <2>1 DEF Merge
  <2>3. /\ DOMAIN Synced(p) \subseteq DOMAIN disk \cup Pending(p)
        /\ DOMAIN Synced(p) \subseteq used
        /\ DOMAIN Synced(p) \subseteq Jobs
    BY <2>2 DEF MergedIds, Pending
  <2>4. ASSUME NEW j \in DOMAIN Synced(p)
        PROVE  /\ Synced(p)[j] \in Job
               /\ Synced(p)[j].approved # NoGrant
                    => <<j, Synced(p)[j].approved>> \in granted
    <3> DEFINE merged == MergeChangedFields(b[j], l[j], disk[j])
    <3>1. CASE j \in DOMAIN l \cap DOMAIN b \cap DOMAIN disk
      <4>1. Synced(p)[j] = merged
        BY <2>1, <2>2, <3>1 DEF Merge
      <4>2. b[j] \in Job /\ l[j] \in Job /\ disk[j] \in Job
        BY <2>0, <3>1 DEF IsStore
      <4>3. merged \in Job /\ merged.approved \in {l[j].approved, disk[j].approved}
        BY <4>2, MergedJob
      <4>4. /\ l[j].approved # NoGrant => <<j, l[j].approved>> \in granted
            /\ disk[j].approved # NoGrant => <<j, disk[j].approved>> \in granted
        BY <2>0, <3>1 DEF Recorded
      <4> HIDE DEF merged
      <4> QED BY <4>1, <4>3, <4>4, Zenon
    <3>2. CASE j \notin DOMAIN l \cap DOMAIN b \cap DOMAIN disk /\ j \in DOMAIN l
      <4>1. Synced(p)[j] = l[j]
        BY <2>1, <2>2, <3>2 DEF Merge
      <4> QED BY <2>0, <3>2, <4>1 DEF IsStore, Recorded
    <3>3. CASE j \notin DOMAIN l
      <4>1. Synced(p)[j] = disk[j] /\ j \in DOMAIN disk
        BY <2>1, <2>2, <3>3 DEF Merge, MergedIds
      <4> QED BY <2>0, <4>1 DEF IsStore, Recorded
    <3> QED BY <3>1, <3>2, <3>3
  <2> QED BY <2>2, <2>3, <2>4 DEF IsStore, Recorded
<1> QED BY <1>1, <1>2

-----------------------------------------------------------------------------
(* Steps that do not write the file.                                       *)

(* What a step may do to the ids and to the approvals.                     *)
Granting ==
    /\ used' \in SUBSET Jobs /\ used \subseteq used'
    /\ granted' \in SUBSET (Jobs \X Operations) /\ granted \subseteq granted'

(* A step that changes one copy, whether or not it reads first, and adds   *)
(* no id but a new one.                                                    *)
CopyStep(p) ==
    /\ DOMAIN local' = Procs
    /\ \A q \in Procs : q # p => local'[q] = local[q]
    /\ IsStore(local'[p]) /\ DOMAIN local'[p] \subseteq used' /\ Recorded(local[p])'
    /\ \/ /\ UNCHANGED <<base, fresh>>
          /\ DOMAIN local'[p] \subseteq DOMAIN local[p] \cup (used' \ used)
       \/ /\ base' = [base EXCEPT ![p] = Remembered(p)]
          /\ fresh' = [fresh EXCEPT ![p] = TRUE]
          /\ DOMAIN local'[p] \subseteq DOMAIN Synced(p) \cup (used' \ used)
    /\ UNCHANGED <<disk, gone>>
    /\ edits' \in 0 .. MaxEdits
    /\ busy' \in [Procs -> BOOLEAN] /\ asked' \in [Procs -> BOOLEAN]

LEMMA CopyKeeps ==
    ASSUME IInv, Granting, NEW p \in Procs, CopyStep(p)
    PROVE  IInv'
<1> USE DEF Granting
<1>a. TypeOK /\ PendingIsNew /\ RemovedStaysGone /\ GrantsRecorded
  BY DEF IInv
<1>b. /\ DOMAIN base' = Procs
      /\ \A q \in Procs : q # p => base'[q] = base[q] /\ fresh'[q] = fresh[q]
      /\ base'[p] \in {base[p], disk}
      /\ fresh'[p] => base'[p] = disk
      /\ fresh' \in [Procs -> BOOLEAN]
  <2>1. CASE UNCHANGED <<base, fresh>>
    BY <1>a, <2>1 DEF TypeOK
  <2>2. CASE /\ base' = [base EXCEPT ![p] = Remembered(p)]
             /\ fresh' = [fresh EXCEPT ![p] = TRUE]
    BY <1>a, <2>2, RememberedIsDisk DEF TypeOK
  <2> QED BY <2>1, <2>2 DEF CopyStep
<1>c. Pending(p)' \subseteq Pending(p) \cup (used' \ used)
  <2>1. CASE /\ UNCHANGED <<base, fresh>>
             /\ DOMAIN local'[p] \subseteq DOMAIN local[p] \cup (used' \ used)
    BY <2>1 DEF Pending
  <2>2. CASE /\ base' = [base EXCEPT ![p] = Remembered(p)]
             /\ DOMAIN local'[p] \subseteq DOMAIN Synced(p) \cup (used' \ used)
    <3>1. base'[p] = disk
      BY <1>a, <2>2, RememberedIsDisk DEF TypeOK
    <3>2. DOMAIN Synced(p) \subseteq DOMAIN disk \cup Pending(p)
      BY SyncedFacts
    <3> QED BY <2>2, <3>1, <3>2 DEF Pending
  <2> QED BY <2>1, <2>2 DEF CopyStep
<1>d. \A q \in Procs : q # p => Pending(q)' = Pending(q)
  BY <1>b DEF CopyStep, Pending
<1>1. TypeOK'
  <2>1. \A q \in Procs : IsStore(local'[q]) /\ IsStore(base'[q])
    BY <1>a, <1>b DEF CopyStep, TypeOK
  <2>2. \A q \in Procs : DOMAIN local'[q] \cup DOMAIN base'[q] \subseteq used'
    BY <1>a, <1>b DEF CopyStep, TypeOK
  <2>3. \A q \in Procs : fresh'[q] => base'[q] = disk'
    BY <1>a, <1>b DEF CopyStep, TypeOK
  <2>4. /\ IsStore(disk') /\ DOMAIN disk' \subseteq used'
        /\ gone' \in SUBSET Jobs /\ gone' \subseteq used'
    BY <1>a DEF CopyStep, TypeOK
  <2> QED BY <1>b, <2>1, <2>2, <2>3, <2>4 DEF CopyStep, TypeOK, IsStore
<1>2. PendingIsNew'
  <2>1. DOMAIN disk' = DOMAIN disk /\ gone' = gone
    BY DEF CopyStep
  <2>2. DOMAIN disk \cup gone \subseteq used
    BY <1>a DEF TypeOK
  <2>3. \A q \in Procs : Pending(q) \subseteq used
    BY <1>a DEF TypeOK, Pending
  <2> QED BY <1>a, <1>c, <1>d, <2>1, <2>2, <2>3 DEF PendingIsNew
<1>3. RemovedStaysGone'
  BY <1>a DEF CopyStep, RemovedStaysGone
<1>4. GrantsRecorded'
  <2>1. Recorded(disk)'
    BY <1>a DEF CopyStep, GrantsRecorded, Recorded
  <2>2. ASSUME NEW q \in Procs PROVE Recorded(local[q])'
    BY <1>a DEF CopyStep, GrantsRecorded, Recorded
  <2> QED BY <2>1, <2>2 DEF GrantsRecorded
<1> QED BY <1>1, <1>2, <1>3, <1>4 DEF IInv

-----------------------------------------------------------------------------
(* Mutators.                                                               *)

LEMMA StartingFacts ==
    ASSUME IInv, NEW p \in Procs, NEW readable \in BOOLEAN
    PROVE  /\ IsStore(Starting(p, readable)) /\ Recorded(Starting(p, readable))
           /\ DOMAIN Starting(p, readable) \subseteq used
BY SyncedFacts DEF Starting, IInv, TypeOK, GrantsRecorded

(* A mutator keeps the invariant when the jobs it leaves are jobs, are the *)
(* ones it started from or new ones, and have approvals that were given.   *)
LEMMA MutateKeeps ==
    ASSUME IInv, Granting, NEW p \in Procs, NEW readable \in BOOLEAN, NEW jobs,
           Mutate(p, readable, jobs), IsStore(jobs),
           DOMAIN jobs \subseteq DOMAIN Starting(p, readable) \cup (used' \ used),
           \A j \in DOMAIN jobs :
               jobs[j].approved # NoGrant => <<j, jobs[j].approved>> \in granted'
    PROVE  IInv'
<1>0. TypeOK
  BY DEF IInv
<1>1. local' = [local EXCEPT ![p] = jobs]
  BY DEF Mutate, ReadInto
<1>2. /\ DOMAIN local' = Procs /\ local'[p] = jobs
      /\ \A q \in Procs : q # p => local'[q] = local[q]
  BY <1>0, <1>1 DEF TypeOK
<1>3. \/ /\ UNCHANGED <<base, fresh>>
         /\ DOMAIN local'[p] \subseteq DOMAIN local[p] \cup (used' \ used)
      \/ /\ base' = [base EXCEPT ![p] = Remembered(p)]
         /\ fresh' = [fresh EXCEPT ![p] = TRUE]
         /\ DOMAIN local'[p] \subseteq DOMAIN Synced(p) \cup (used' \ used)
  BY <1>2 DEF Mutate, ReadInto, Starting
<1>4. DOMAIN jobs \subseteq used'
  BY StartingFacts DEF Granting
<1>5. Recorded(local[p])'
  BY <1>2 DEF Recorded
<1>6. edits' \in 0 .. MaxEdits
  BY <1>0, StoreAssumption DEF TypeOK, Mutate
<1>7. busy' \in [Procs -> BOOLEAN] /\ asked' \in [Procs -> BOOLEAN]
  BY <1>0 DEF TypeOK, Mutate
<1>8. CopyStep(p)
  BY <1>2, <1>3, <1>4, <1>5, <1>6, <1>7 DEF CopyStep, Mutate
<1> QED BY <1>8, CopyKeeps

LEMMA AddJobKeeps ==
    ASSUME IInv, NEW p \in Procs, NEW j \in Jobs, NEW readable \in BOOLEAN,
           NEW require \in BOOLEAN, NEW op \in Operations,
           AddJob(p, j, readable, require, op)
    PROVE  IInv'
<1> DEFINE from == Starting(p, readable)
           new == NewJob(require, op)
           jobs == WithJob(from, j, new)
<1>1. IsStore(from) /\ Recorded(from) /\ DOMAIN from \subseteq used
  BY StartingFacts
<1>2. new \in Job /\ new.approved = IF require THEN NoGrant ELSE op
  BY DEF NewJob, Job, Operations
<1>3. /\ j \in used' \ used
      /\ used' = used \cup {j}
      /\ granted' = IF require THEN granted ELSE granted \cup {<<j, op>>}
  BY DEF AddJob
<1>4. Granting
  BY <1>3 DEF Granting, IInv, TypeOK
<1>5. /\ DOMAIN jobs = DOMAIN from \cup {j}
      /\ jobs[j] = new
      /\ \A i \in DOMAIN from : i # j => jobs[i] = from[i]
      /\ jobs = [i \in DOMAIN jobs |-> jobs[i]]
  BY DEF WithJob
<1>6. IsStore(jobs)
  BY <1>1, <1>2, <1>5 DEF IsStore
<1>7. \A i \in DOMAIN jobs :
          jobs[i].approved # NoGrant => <<i, jobs[i].approved>> \in granted'
  BY <1>1, <1>2, <1>3, <1>5 DEF Recorded
<1>8. Mutate(p, readable, jobs)
  BY DEF AddJob
<1> HIDE DEF jobs
<1> QED BY <1>3, <1>4, <1>5, <1>6, <1>7, <1>8, MutateKeeps

(* A mutator that changes job j to job and gives out no id.                *)
LEMMA ChangeKeeps ==
    ASSUME IInv, NEW p \in Procs, NEW j \in Jobs, NEW readable \in BOOLEAN, NEW job,
           j \in DOMAIN Starting(p, readable), job \in Job,
           Mutate(p, readable, [Starting(p, readable) EXCEPT ![j] = job]),
           UNCHANGED used,
           granted \subseteq granted', granted' \in SUBSET (Jobs \X Operations),
           job.approved # NoGrant => <<j, job.approved>> \in granted'
    PROVE  IInv'
<1> DEFINE from == Starting(p, readable)
           jobs == [from EXCEPT ![j] = job]
<1>1. IsStore(from) /\ Recorded(from)
  BY StartingFacts
<1>2. Granting
  BY DEF Granting, IInv, TypeOK
<1>3. /\ DOMAIN jobs = DOMAIN from
      /\ \A i \in DOMAIN from : jobs[i] = IF i = j THEN job ELSE from[i]
  OBVIOUS
<1>4. IsStore(jobs)
  BY <1>1, <1>3 DEF IsStore
<1>5. \A i \in DOMAIN jobs :
          jobs[i].approved # NoGrant => <<i, jobs[i].approved>> \in granted'
  BY <1>1, <1>3 DEF Recorded
<1>6. Mutate(p, readable, jobs)
  OBVIOUS
<1> HIDE DEF jobs
<1> QED BY <1>2, <1>3, <1>4, <1>5, <1>6, MutateKeeps

LEMMA ApproveJobKeeps ==
    ASSUME IInv, NEW p \in Procs, NEW j \in Jobs, NEW readable \in BOOLEAN,
           ApproveJob(p, j, readable)
    PROVE  IInv'
<1> DEFINE from == Starting(p, readable)
           job == [from[j] EXCEPT !.approved = Operation(from[j]), !.require = TRUE]
<1>1. j \in DOMAIN from /\ from[j] \in Job
  BY StartingFacts DEF ApproveJob, IsStore
<1>2. Operation(from[j]) \in Operations
  BY <1>1 DEF Operation, Operations, Job
<1>3. job \in Job /\ job.approved = Operation(from[j])
  BY <1>1, <1>2 DEF Job
<1>4. granted' = granted \cup {<<j, Operation(from[j])>>} /\ UNCHANGED used
  BY DEF ApproveJob
<1>5. /\ granted \subseteq granted' /\ granted' \in SUBSET (Jobs \X Operations)
      /\ <<j, job.approved>> \in granted'
  BY <1>2, <1>3, <1>4 DEF IInv, TypeOK
<1>6. [from EXCEPT ![j].approved = Operation(from[j]), ![j].require = TRUE]
          = [from EXCEPT ![j] = job]
  BY <1>1
<1>7. Mutate(p, readable, [from EXCEPT ![j] = job])
  BY <1>6 DEF ApproveJob
<1> HIDE DEF job
<1> QED BY <1>1, <1>3, <1>4, <1>5, <1>7, ChangeKeeps

(* A change of a job's other fields leaves it the approval it had, or none. *)
LEMMA OtherEditKeeps ==
    ASSUME IInv, NEW p \in Procs, NEW j \in Jobs, NEW readable \in BOOLEAN, NEW job,
           j \in DOMAIN Starting(p, readable), job \in Job,
           job.approved \in {Starting(p, readable)[j].approved, NoGrant},
           Mutate(p, readable, [Starting(p, readable) EXCEPT ![j] = job]),
           UNCHANGED <<used, granted>>
    PROVE  IInv'
<1> DEFINE from == Starting(p, readable)
<1>1. from[j].approved # NoGrant => <<j, from[j].approved>> \in granted
  BY StartingFacts DEF Recorded
<1>2. job.approved # NoGrant => <<j, job.approved>> \in granted'
  BY <1>1
<1>3. granted \subseteq granted' /\ granted' \in SUBSET (Jobs \X Operations)
  BY DEF IInv, TypeOK
<1> QED BY <1>2, <1>3, ChangeKeeps

LEMMA RevokeJobApprovalKeeps ==
    ASSUME IInv, NEW p \in Procs, NEW j \in Jobs, NEW readable \in BOOLEAN,
           RevokeJobApproval(p, j, readable)
    PROVE  IInv'
<1> DEFINE from == Starting(p, readable)
           job == [from[j] EXCEPT !.approved = NoGrant]
<1>1. j \in DOMAIN from /\ from[j] \in Job
  BY StartingFacts DEF RevokeJobApproval, IsStore
<1>2. job \in Job /\ job.approved = NoGrant
  BY <1>1 DEF Job
<1>3. Mutate(p, readable, [from EXCEPT ![j] = job]) /\ UNCHANGED <<used, granted>>
  BY DEF RevokeJobApproval
<1> HIDE DEF job
<1> QED BY <1>1, <1>2, <1>3, OtherEditKeeps

LEMMA EnableJobKeeps ==
    ASSUME IInv, NEW p \in Procs, NEW j \in Jobs, NEW readable \in BOOLEAN,
           NEW enabled \in BOOLEAN, EnableJob(p, j, readable, enabled)
    PROVE  IInv'
<1> DEFINE from == Starting(p, readable)
           job == [from[j] EXCEPT !.enabled = enabled]
<1>1. j \in DOMAIN from /\ from[j] \in Job
  BY StartingFacts DEF EnableJob, IsStore
<1>2. job \in Job /\ job.approved = from[j].approved
  BY <1>1 DEF Job
<1>3. Mutate(p, readable, [from EXCEPT ![j] = job]) /\ UNCHANGED <<used, granted>>
  BY DEF EnableJob
<1> HIDE DEF job
<1> QED BY <1>1, <1>2, <1>3, OtherEditKeeps

LEMMA UpdateJobKeeps ==
    ASSUME IInv, NEW p \in Procs, NEW j \in Jobs, NEW readable \in BOOLEAN,
           NEW enabled \in BOOLEAN, NEW require \in BOOLEAN, NEW op \in Operations,
           UpdateJob(p, j, readable, enabled, require, op)
    PROVE  IInv'
<1> DEFINE from == Starting(p, readable)
           job == Patched(from[j], enabled, require, op)
<1>1. j \in DOMAIN from /\ from[j] \in Job
  BY StartingFacts DEF UpdateJob, IsStore
<1>2. op[1] \in Schedules /\ op[2] \in Messages
  BY DEF Operations
<1>3. job \in Job /\ job.approved \in {from[j].approved, NoGrant}
  BY <1>1, <1>2 DEF Patched, Job
<1>4. Mutate(p, readable, [from EXCEPT ![j] = job]) /\ UNCHANGED <<used, granted>>
  BY DEF UpdateJob
<1> HIDE DEF job
<1> QED BY <1>1, <1>3, <1>4, OtherEditKeeps

LEMMA RemoveJobKeeps ==
    ASSUME IInv, NEW p \in Procs, NEW j \in Jobs, NEW readable \in BOOLEAN,
           RemoveJob(p, j, readable)
    PROVE  IInv'
<1> DEFINE from == Starting(p, readable)
           jobs == [i \in DOMAIN from \ {j} |-> from[i]]
<1>1. IsStore(from) /\ Recorded(from)
  BY StartingFacts
<1>2. Mutate(p, readable, jobs) /\ UNCHANGED <<used, granted>>
  BY DEF RemoveJob
<1>3. Granting
  BY <1>2 DEF Granting, IInv, TypeOK
<1>4. IsStore(jobs) /\ DOMAIN jobs \subseteq DOMAIN from
  BY <1>1 DEF IsStore
<1>5. \A i \in DOMAIN jobs :
          jobs[i].approved # NoGrant => <<i, jobs[i].approved>> \in granted'
  BY <1>1, <1>2 DEF Recorded
<1> HIDE DEF jobs
<1> QED BY <1>2, <1>3, <1>4, <1>5, MutateKeeps

LEMMA EditKeeps ==
    ASSUME IInv, NEW p \in Procs, NEW j \in Jobs, NEW readable \in BOOLEAN,
           Edit(p, j, readable)
    PROVE  IInv'
<1>1. CASE \E require \in BOOLEAN, op \in Operations :
               AddJob(p, j, readable, require, op)
  BY <1>1, AddJobKeeps
<1>2. CASE \E enabled, require \in BOOLEAN, op \in Operations :
               UpdateJob(p, j, readable, enabled, require, op)
  BY <1>2, UpdateJobKeeps
<1>3. CASE ApproveJob(p, j, readable)
  BY <1>3, ApproveJobKeeps
<1>4. CASE RevokeJobApproval(p, j, readable)
  BY <1>4, RevokeJobApprovalKeeps
<1>5. CASE RemoveJob(p, j, readable)
  BY <1>5, RemoveJobKeeps
<1>6. CASE \E enabled \in BOOLEAN : EnableJob(p, j, readable, enabled)
  BY <1>6, EnableJobKeeps
<1> QED BY <1>1, <1>2, <1>3, <1>4, <1>5, <1>6 DEF Edit

-----------------------------------------------------------------------------
(* Runs.                                                                   *)

LEMMA AfterRunFacts ==
    ASSUME NEW job \in Job, NEW j
    PROVE  AfterRun(job, j) \in Job /\ AfterRun(job, j).approved = job.approved
<1>1. job.runs + 1 \in Nat
  BY DEF Job
<1>2. (job.enabled /\ j \notin OneShots) \in BOOLEAN
  OBVIOUS
<1> QED BY <1>1, <1>2 DEF Job, AfterRun

(* A run's end leaves the copy's jobs with the approvals they had.         *)
LEMMA RunKeeps ==
    ASSUME IInv, NEW p \in Procs,
           DOMAIN local' = Procs, \A q \in Procs : q # p => local'[q] = local[q],
           IsStore(local'[p]), DOMAIN local'[p] \subseteq DOMAIN local[p],
           \A i \in DOMAIN local'[p] : local'[p][i].approved = local[p][i].approved,
           UNCHANGED <<disk, base, fresh, used, gone, granted, edits>>,
           busy' \in [Procs -> BOOLEAN], asked' \in [Procs -> BOOLEAN]
    PROVE  IInv'
<1>1. Granting
  BY DEF Granting, IInv, TypeOK
<1>2. DOMAIN local'[p] \subseteq used'
  BY DEF IInv, TypeOK
<1>3. Recorded(local[p])'
  BY DEF IInv, GrantsRecorded, Recorded
<1>4. edits' \in 0 .. MaxEdits
  BY DEF IInv, TypeOK
<1>5. CopyStep(p)
  BY <1>2, <1>3, <1>4 DEF CopyStep
<1> QED BY <1>1, <1>5, CopyKeeps

LEMMA BlockRunKeeps ==
    ASSUME IInv, NEW p \in Procs, NEW j \in Jobs, BlockRun(p, j)
    PROVE  IInv'
<1> DEFINE job == AfterRun(local[p][j], j)
<1>0. TypeOK /\ j \in DOMAIN local[p]
  BY DEF IInv, BlockRun
<1>1. job \in Job /\ job.approved = local[p][j].approved
  BY <1>0, AfterRunFacts DEF TypeOK, IsStore
<1>2. local' = [local EXCEPT ![p] = [local[p] EXCEPT ![j] = job]]
  BY <1>0 DEF BlockRun, TypeOK
<1> HIDE DEF job
<1>3. /\ DOMAIN local' = Procs /\ \A q \in Procs : q # p => local'[q] = local[q]
      /\ local'[p] = [local[p] EXCEPT ![j] = job]
  BY <1>0, <1>2 DEF TypeOK
<1>4. /\ IsStore(local'[p]) /\ DOMAIN local'[p] \subseteq DOMAIN local[p]
      /\ \A i \in DOMAIN local'[p] : local'[p][i].approved = local[p][i].approved
  BY <1>0, <1>1, <1>3 DEF TypeOK, IsStore
<1>5. busy' \in [Procs -> BOOLEAN] /\ asked' \in [Procs -> BOOLEAN]
  BY <1>0 DEF BlockRun, TypeOK
<1> QED BY <1>3, <1>4, <1>5, RunKeeps DEF BlockRun

LEMMA EndRunKeeps ==
    ASSUME IInv, NEW p \in Procs, NEW j \in Jobs, EndRun(p, j)
    PROVE  IInv'
<1> DEFINE job == AfterRun(local[p][j], j)
           jobs == IF j \in Vanishing
                   THEN [i \in DOMAIN local[p] \ {j} |-> local[p][i]]
                   ELSE [local[p] EXCEPT ![j] = job]
<1>0. TypeOK /\ j \in DOMAIN local[p]
  BY DEF IInv, EndRun
<1>1. job \in Job /\ job.approved = local[p][j].approved
  BY <1>0, AfterRunFacts DEF TypeOK, IsStore
<1>2. local' = [local EXCEPT ![p] = jobs]
  BY <1>0 DEF EndRun, TypeOK
<1> HIDE DEF job
<1>3. /\ IsStore(jobs) /\ DOMAIN jobs \subseteq DOMAIN local[p]
      /\ \A i \in DOMAIN jobs : jobs[i].approved = local[p][i].approved
  BY <1>0, <1>1 DEF TypeOK, IsStore
<1> HIDE DEF jobs
<1>4. /\ DOMAIN local' = Procs /\ \A q \in Procs : q # p => local'[q] = local[q]
      /\ local'[p] = jobs
  BY <1>0, <1>2 DEF TypeOK
<1>5. busy' \in [Procs -> BOOLEAN] /\ asked' \in [Procs -> BOOLEAN]
  BY <1>0 DEF EndRun, TypeOK
<1> QED BY <1>3, <1>4, <1>5, RunKeeps DEF EndRun

-----------------------------------------------------------------------------
(* The file.                                                               *)

(* A read, with or without the failure of the save it was for.             *)
LEMMA ReadKeeps ==
    ASSUME IInv, NEW p \in Procs, ReadInto(p, Synced(p)),
           UNCHANGED <<disk, used, gone, granted, edits>>,
           busy' \in [Procs -> BOOLEAN], asked' \in [Procs -> BOOLEAN]
    PROVE  IInv'
<1>1. TypeOK /\ Granting
  BY DEF IInv, TypeOK, Granting
<1>2. /\ DOMAIN local' = Procs /\ \A q \in Procs : q # p => local'[q] = local[q]
      /\ local'[p] = Synced(p)
  BY <1>1 DEF ReadInto, TypeOK
<1>3. /\ IsStore(local'[p]) /\ DOMAIN local'[p] \subseteq used'
      /\ Recorded(local[p])'
  BY <1>2, SyncedFacts DEF Recorded
<1>4. CopyStep(p)
  BY <1>1, <1>2, <1>3 DEF CopyStep, ReadInto, TypeOK
<1> QED BY <1>1, <1>4, CopyKeeps

LEMMA SyncFromDiskKeeps ==
    ASSUME IInv, NEW p \in Procs, SyncFromDisk(p)
    PROVE  IInv'
<1>1. busy' \in [Procs -> BOOLEAN] /\ asked' \in [Procs -> BOOLEAN]
  BY DEF IInv, TypeOK, SyncFromDisk
<1> QED BY <1>1, ReadKeeps DEF SyncFromDisk

LEMMA FailSaveKeeps ==
    ASSUME IInv, NEW p \in Procs, FailSave(p)
    PROVE  IInv'
<1>1. busy' \in [Procs -> BOOLEAN] /\ asked' \in [Procs -> BOOLEAN]
  BY DEF IInv, TypeOK, FailSave
<1>2. CASE ReadInto(p, Synced(p))
  BY <1>1, <1>2, ReadKeeps DEF FailSave
<1>3. CASE UNCHANGED <<local, base, fresh>>
  <2>1. UNCHANGED <<disk, used, gone, granted, edits>>
    BY DEF FailSave
  <2>2. TypeOK'
    BY <1>1, <1>3, <2>1 DEF IInv, TypeOK
  <2>3. PendingIsNew'
    BY <1>3, <2>1 DEF IInv, PendingIsNew, Pending
  <2>4. RemovedStaysGone' /\ GrantsRecorded'
    BY <1>3, <2>1 DEF IInv, RemovedStaysGone, GrantsRecorded, Recorded
  <2> QED BY <2>2, <2>3, <2>4 DEF IInv
<1> QED BY <1>2, <1>3 DEF FailSave

(* A process that writes or loads the file has nothing pending, and the    *)
(* others have what they had.                                              *)
LEMMA SaveKeeps ==
    ASSUME IInv, NEW p \in Procs, Save(p)
    PROVE  IInv'
<1> DEFINE jobs == Synced(p)
<1>0. TypeOK /\ PendingIsNew /\ RemovedStaysGone /\ GrantsRecorded
  BY DEF IInv
<1>1. /\ IsStore(jobs) /\ Recorded(jobs)
      /\ DOMAIN jobs \subseteq DOMAIN disk \cup Pending(p)
      /\ DOMAIN jobs \subseteq used
  BY SyncedFacts
<1>2. /\ disk' = jobs
      /\ local' = [local EXCEPT ![p] = jobs]
      /\ base' = [base EXCEPT ![p] = jobs]
      /\ fresh' = [q \in Procs |-> q = p]
      /\ gone' = gone \cup (DOMAIN disk \ DOMAIN jobs)
      /\ UNCHANGED <<used, granted, edits>>
      /\ busy' \in [Procs -> BOOLEAN] /\ asked' \in [Procs -> BOOLEAN]
  BY <1>0 DEF Save, TypeOK
<1> HIDE DEF jobs
<1>3. /\ DOMAIN local' = Procs /\ DOMAIN base' = Procs
      /\ local'[p] = jobs /\ base'[p] = jobs
      /\ \A q \in Procs : q # p => local'[q] = local[q] /\ base'[q] = base[q]
  BY <1>0, <1>2 DEF TypeOK
<1>4. Pending(p)' = {} /\ \A q \in Procs : q # p => Pending(q)' = Pending(q)
  BY <1>3 DEF Pending
<1>5. TypeOK'
  <2>1. IsStore(disk') /\ DOMAIN disk' \subseteq used'
    BY <1>1, <1>2 DEF IsStore
  <2>2. \A q \in Procs : IsStore(local'[q]) /\ IsStore(base'[q])
    BY <1>0, <1>1, <1>3 DEF TypeOK
  <2>3. \A q \in Procs :
            /\ DOMAIN local'[q] \cup DOMAIN base'[q] \subseteq used'
            /\ fresh'[q] => base'[q] = disk'
    BY <1>0, <1>1, <1>2, <1>3 DEF TypeOK
  <2>4. gone' \in SUBSET Jobs /\ gone' \subseteq used'
    BY <1>0, <1>2 DEF TypeOK
  <2> QED BY <1>0, <1>2, <1>3, <2>1, <2>2, <2>3, <2>4 DEF TypeOK, IsStore
<1>6. PendingIsNew'
  <2>1. ASSUME NEW q \in Procs PROVE Pending(q)' \cap (DOMAIN disk' \cup gone') = {}
    BY <1>0, <1>1, <1>2, <1>4 DEF PendingIsNew
  <2>2. ASSUME NEW q \in Procs, NEW r \in Procs, q # r
        PROVE  Pending(q)' \cap Pending(r)' = {}
    BY <1>0, <1>4, <2>2 DEF PendingIsNew
  <2> QED BY <2>1, <2>2 DEF PendingIsNew
<1>7. RemovedStaysGone'
  BY <1>0, <1>1, <1>2 DEF RemovedStaysGone, PendingIsNew
<1>8. GrantsRecorded'
  <2>1. Recorded(disk)'
    BY <1>1, <1>2 DEF Recorded
  <2>2. ASSUME NEW q \in Procs PROVE Recorded(local[q])'
    BY <1>0, <1>1, <1>2, <1>3 DEF GrantsRecorded, Recorded
  <2> QED BY <2>1, <2>2 DEF GrantsRecorded
<1> QED BY <1>5, <1>6, <1>7, <1>8 DEF IInv

LEMMA LoadKeeps ==
    ASSUME IInv, NEW p \in Procs, Load(p)
    PROVE  IInv'
<1>0. TypeOK /\ PendingIsNew /\ RemovedStaysGone /\ GrantsRecorded
  BY DEF IInv
<1>1. /\ DOMAIN local' = Procs /\ DOMAIN base' = Procs
      /\ local'[p] = disk /\ base'[p] = disk
      /\ \A q \in Procs : q # p => local'[q] = local[q] /\ base'[q] = base[q]
  BY <1>0 DEF Load, TypeOK
<1>2. Pending(p)' = {} /\ \A q \in Procs : q # p => Pending(q)' = Pending(q)
  BY <1>1 DEF Pending
<1>3. TypeOK'
  <2>1. \A q \in Procs : IsStore(local'[q]) /\ IsStore(base'[q])
    BY <1>0, <1>1 DEF TypeOK
  <2>2. \A q \in Procs :
            /\ DOMAIN local'[q] \cup DOMAIN base'[q] \subseteq used'
            /\ fresh'[q] => base'[q] = disk'
    BY <1>0, <1>1 DEF TypeOK, Load
  <2> QED BY <1>0, <1>1, <2>1, <2>2 DEF TypeOK, Load, IsStore
<1>4. PendingIsNew'
  BY <1>0, <1>2 DEF PendingIsNew, Load
<1>5. RemovedStaysGone'
  BY <1>0 DEF RemovedStaysGone, Load
<1>6. GrantsRecorded'
  BY <1>0, <1>1 DEF GrantsRecorded, Recorded, Load
<1> QED BY <1>3, <1>4, <1>5, <1>6 DEF IInv

-----------------------------------------------------------------------------
(* The theorems.                                                           *)

LEMMA InitHolds == Init => IInv
<1> SUFFICES ASSUME Init PROVE IInv
  OBVIOUS
<1>1. ASSUME NEW require \in BOOLEAN, NEW op \in Operations
      PROVE  LET job == NewJob(require, op) IN
             /\ job \in Job
             /\ job.approved # NoGrant
                  => ~job.require /\ job.approved = Operation(job)
  BY DEF NewJob, Job, Operations, Operation
<1>2. /\ DOMAIN disk = used /\ used \subseteq Jobs
      /\ disk = [j \in used |-> disk[j]]
      /\ \A j \in used :
             /\ disk[j] \in Job
             /\ disk[j].approved # NoGrant
                  => ~disk[j].require /\ disk[j].approved = Operation(disk[j])
  BY <1>1 DEF Init
<1>3. granted = {<<j, Operation(disk[j])>> : j \in {i \in used : ~disk[i].require}}
  BY DEF Init
<1>4. IsStore(disk) /\ Recorded(disk)
  BY <1>2, <1>3 DEF IsStore, Recorded
<1>5. granted \in SUBSET (Jobs \X Operations)
  BY <1>2, <1>3 DEF Job, Operation, Operations
<1>6. /\ DOMAIN local = Procs /\ DOMAIN base = Procs
      /\ \A p \in Procs : local[p] = disk /\ base[p] = disk
  BY DEF Init
<1>7. TypeOK
  BY <1>2, <1>4, <1>5, <1>6, StoreAssumption DEF Init, TypeOK
<1>8. PendingIsNew /\ RemovedStaysGone
  BY <1>6 DEF Init, PendingIsNew, Pending, RemovedStaysGone
<1>9. GrantsRecorded
  BY <1>4, <1>6 DEF GrantsRecorded
<1> QED BY <1>7, <1>8, <1>9 DEF IInv

LEMMA StepHolds == IInv /\ [Next]_vars => IInv'
<1> SUFFICES ASSUME IInv, [Next]_vars PROVE IInv'
  OBVIOUS
<1>1. CASE \E p \in Procs, j \in Jobs, readable \in BOOLEAN : Edit(p, j, readable)
  BY <1>1, EditKeeps
<1>2. CASE \E p \in Services, j \in Jobs : BlockRun(p, j) \/ EndRun(p, j)
  BY <1>2, BlockRunKeeps, EndRunKeeps DEF Procs
<1>3. CASE \E p \in Procs : Save(p) \/ FailSave(p) \/ Load(p)
  BY <1>3, SaveKeeps, FailSaveKeeps, LoadKeeps
<1>4. CASE \E p \in Services : SyncFromDisk(p)
  BY <1>4, SyncFromDiskKeeps DEF Procs
<1>5. CASE UNCHANGED vars
  BY <1>5 DEF vars, IInv, TypeOK, IsStore, PendingIsNew, Pending,
              RemovedStaysGone, GrantsRecorded, Recorded
<1> QED BY <1>1, <1>2, <1>3, <1>4, <1>5 DEF Next

LEMMA Inductive == Spec => []IInv
BY InitHolds, StepHolds, PTL DEF Spec

(* The store keeps to its types: above all a process whose stamp is the    *)
(* file's remembers the file, on which the merge relies (service.py:400).  *)
THEOREM StoreType == Spec => []TypeOK
BY Inductive, PTL DEF IInv

(* A job that left the file is never written again, however many processes *)
(* hold copies of it (service.py:435).                                     *)
THEOREM RemovedForGood == Spec => []RemovedStaysGone
BY Inductive, PTL DEF IInv

(* An approval that is recorded for a job's operation was given for it.    *)
LEMMA RecordedApproval ==
    ASSUME IInv
    PROVE  ApprovalWasGiven
<1> SUFFICES ASSUME NEW p \in Procs, NEW j \in DOMAIN local[p],
                    IsApproved(local[p][j]), local[p][j].require
             PROVE  <<j, Operation(local[p][j])>> \in granted
  BY DEF ApprovalWasGiven
<1>1. local[p][j] \in Job
  BY DEF IInv, TypeOK, IsStore
<1>2. local[p][j].approved = Operation(local[p][j])
  BY DEF IsApproved
<1>3. Operation(local[p][j]) # NoGrant
  BY <1>1, StoreAssumption DEF Operation, Job
<1> QED BY <1>2, <1>3 DEF IInv, GrantsRecorded, Recorded

(* A job that needs approval counts as approved, in any process's copy,    *)
(* only for an operation somebody approved (types.py:77).                  *)
THEOREM ApprovalsGiven == Spec => []ApprovalWasGiven
BY Inductive, RecordedApproval, PTL

-----------------------------------------------------------------------------
(* The store keeps edits without a list of them.                           *)

(* The edits that turn one store into another, as Unwritten reads them off. *)
Between(b, l) ==
    [set |-> {e \in (DOMAIN b \cap DOMAIN l) \X Fields : l[e[1]][e[2]] # b[e[1]][e[2]]},
     added |-> DOMAIN l \ DOMAIN b,
     dropped |-> DOMAIN b \ DOMAIN l]

LEMMA UnwrittenIs == \A p \in Procs : Unwritten(p) = Between(base[p], local[p])
BY DEF Unwritten, Between

LEMMA BetweenSame == \A l : Between(l, l) = Edits!NoEdits
BY DEF Between, Edits!NoEdits

(* A job is a function on its fields.                                      *)
LEMMA JobIsFields ==
    ASSUME NEW job \in Job
    PROVE  job = [f \in Fields |-> job[f]]
BY DEF Job, Fields

(* A read that merges is the latest file with the process's edits.         *)
LEMMA SyncedIsCombined ==
    ASSUME IInv, NEW p \in Procs
    PROVE  Synced(p) = Edits!Combined(p)
<1> DEFINE b == base[p]
           l == local[p]
           mine == Between(b, l)
           combined == [j \in (DOMAIN disk \ mine.dropped) \cup mine.added |->
                           IF j \in mine.added
                           THEN l[j]
                           ELSE [f \in Fields |-> IF <<j, f>> \in mine.set
                                                  THEN l[j][f] ELSE disk[j][f]]]
<1>0. /\ TypeOK /\ PendingIsNew
      /\ IsStore(b) /\ IsStore(l) /\ IsStore(disk)
  BY DEF IInv, TypeOK
<1>1. Edits!Combined(p) = combined
  BY UnwrittenIs DEF Edits!Combined
<1>2. DOMAIN Synced(p) = MergedIds(b, l, disk)
  <2>1. CASE fresh[p]
    BY <1>0, <2>1 DEF Synced, MergedIds, TypeOK
  <2>2. CASE ~fresh[p]
    BY <2>2 DEF Synced, Merge
  <2> QED BY <2>1, <2>2
<1>3. DOMAIN combined = MergedIds(b, l, disk)
  BY DEF Between, MergedIds
<1>4. ASSUME NEW j \in MergedIds(b, l, disk)
      PROVE  Synced(p)[j] = combined[j]
  <2>1. CASE j \in DOMAIN l \ DOMAIN b
    <3>1. combined[j] = l[j]
      BY <2>1 DEF Between
    <3>2. Synced(p)[j] = l[j]
      BY <2>1 DEF Synced, Merge
    <3> QED BY <3>1, <3>2
  <2>2. CASE j \in DOMAIN l \cap DOMAIN b \cap DOMAIN disk
    <3>1. combined[j] = [f \in Fields |-> IF l[j][f] # b[j][f] THEN l[j][f] ELSE disk[j][f]]
      BY <2>2 DEF Between
    <3>2. CASE fresh[p]
      <4>1. b = disk /\ Synced(p) = l
        BY <1>0, <3>2 DEF TypeOK, Synced
      <4>2. l[j] = [f \in Fields |-> l[j][f]]
        BY <1>0, <2>2, JobIsFields DEF IsStore
      <4> QED BY <3>1, <4>1, <4>2
    <3>3. CASE ~fresh[p]
      BY <2>2, <3>1, <3>3 DEF Synced, Merge, MergeChangedFields
    <3> QED BY <3>2, <3>3
  <2>3. CASE j \in DOMAIN disk /\ j \notin DOMAIN l \cup DOMAIN b
    <3>1. ~fresh[p]
      BY <1>0, <2>3 DEF TypeOK
    <3>2. Synced(p)[j] = disk[j]
      BY <2>3, <3>1 DEF Synced, Merge
    <3>3. combined[j] = [f \in Fields |-> disk[j][f]]
      BY <2>3 DEF Between
    <3> QED BY <1>0, <2>3, <3>2, <3>3, JobIsFields DEF IsStore
  <2> QED BY <2>1, <2>2, <2>3 DEF MergedIds
<1>5. /\ Synced(p) = [j \in DOMAIN Synced(p) |-> Synced(p)[j]]
      /\ combined = [j \in DOMAIN combined |-> combined[j]]
  BY <1>0 DEF Synced, Merge, IsStore
<1> QED BY <1>1, <1>2, <1>3, <1>4, <1>5

(* What a read leaves unwritten is what the file does not show yet.        *)
LEMMA OutstandingIs ==
    ASSUME IInv, NEW p \in Procs
    PROVE  Edits!Outstanding(p) = Between(disk, Synced(p))
<1> DEFINE b == base[p]
           l == local[p]
           s == Synced(p)
<1>0. Pending(p) \cap DOMAIN disk = {}
  BY DEF IInv, PendingIsNew
<1>1. Edits!Outstanding(p) =
          [set |-> {e \in Between(b, l).set : /\ e[1] \in DOMAIN disk
                                              /\ l[e[1]][e[2]] # disk[e[1]][e[2]]},
           added |-> Between(b, l).added,
           dropped |-> Between(b, l).dropped \cap DOMAIN disk]
  BY UnwrittenIs DEF Edits!Outstanding
<1>2. s = Edits!Combined(p)
  BY SyncedIsCombined
<1>3. /\ DOMAIN s = (DOMAIN disk \ (DOMAIN b \ DOMAIN l)) \cup (DOMAIN l \ DOMAIN b)
      /\ \A j \in DOMAIN s \cap DOMAIN disk : \A f \in Fields :
             s[j][f] = IF j \in DOMAIN b \cap DOMAIN l /\ l[j][f] # b[j][f]
                       THEN l[j][f] ELSE disk[j][f]
  BY <1>0, <1>2, UnwrittenIs DEF Edits!Combined, Between, Pending
<1> HIDE DEF s
<1>4. /\ DOMAIN s \ DOMAIN disk = DOMAIN l \ DOMAIN b
      /\ DOMAIN disk \ DOMAIN s = (DOMAIN b \ DOMAIN l) \cap DOMAIN disk
  BY <1>0, <1>3 DEF Pending
<1>5. {e \in (DOMAIN disk \cap DOMAIN s) \X Fields : s[e[1]][e[2]] # disk[e[1]][e[2]]}
        = {e \in (DOMAIN b \cap DOMAIN l) \X Fields :
               /\ l[e[1]][e[2]] # b[e[1]][e[2]]
               /\ e[1] \in DOMAIN disk
               /\ l[e[1]][e[2]] # disk[e[1]][e[2]]}
  BY <1>3
<1>6. Between(disk, s) = Edits!Outstanding(p)
  BY <1>1, <1>4, <1>5 DEF Between
<1> QED BY <1>6 DEF s

(* A step that leaves the other processes alone changes only p's edits.    *)
LEMMA EditsChange ==
    ASSUME NEW p \in Procs, \A q \in Procs : q # p => local'[q] = local[q] /\ base'[q] = base[q]
    PROVE  LET mine == [q \in Procs |-> Unwritten(q)]
           IN  mine' = [mine EXCEPT ![p] = Between(base'[p], local'[p])]
<1>1. \A q \in Procs : q # p => Unwritten(q)' = Unwritten(q)
  BY DEF Unwritten
<1>2. Unwritten(p)' = Between(base'[p], local'[p])
  BY DEF Unwritten, Between
<1> QED BY <1>1, <1>2

(* Reading is taking in what others wrote.                                 *)
LEMMA ReadRefreshes ==
    ASSUME IInv, NEW p \in Procs, ReadInto(p, Synced(p)), UNCHANGED disk
    PROVE  Edits!Refresh(p)
<1>0. TypeOK
  BY DEF IInv
<1>1. /\ local' = [local EXCEPT ![p] = Synced(p)]
      /\ base' = [base EXCEPT ![p] = disk]
  BY <1>0, RememberedIsDisk DEF ReadInto
<1>2. \A q \in Procs : q # p => local'[q] = local[q] /\ base'[q] = base[q]
  BY <1>0, <1>1 DEF TypeOK
<1>3. local'[p] = Synced(p) /\ base'[p] = disk
  BY <1>0, <1>1 DEF TypeOK
<1> QED BY <1>1, <1>2, <1>3, EditsChange, SyncedIsCombined, OutstandingIs DEF Edits!Refresh

(* What a process sets, adds and drops in a step joins its edits.          *)
LEMMA EditsJoin ==
    ASSUME NEW p \in Procs, NEW v,
           \A q \in Procs : q # p => local'[q] = local[q] /\ base'[q] = base[q],
           (DOMAIN local'[p] \ DOMAIN v) \cap DOMAIN base'[p] = {}
    PROVE  Edits!EditFrom(p, v, Between(base'[p], v))
<1> DEFINE a == local'[p]
           b == base'[p]
           known == Between(b, v)
           touched == {e \in (DOMAIN v \cap DOMAIN a) \X Fields :
                           v[e[1]][e[2]] # a[e[1]][e[2]]}
           joined == [set |-> {e \in known.set \cup touched :
                                   /\ e[1] \in DOMAIN a \ known.added
                                   /\ a[e[1]][e[2]] # b[e[1]][e[2]]},
                      added |-> (known.added \cap DOMAIN a) \cup (DOMAIN a \ DOMAIN v),
                      dropped |-> known.dropped \cup ((DOMAIN v \ DOMAIN a) \ known.added)]
           mine == [q \in Procs |-> Unwritten(q)]
<1> HIDE DEF a, b
<1>1. Between(b, a) = joined
  <2>1. (DOMAIN a \ DOMAIN v) \cap DOMAIN b = {}
    BY DEF a, b
  <2> QED BY <2>1 DEF Between
<1>2. mine' = [mine EXCEPT ![p] = Between(b, a)]
  BY EditsChange DEF a, b
<1>3. mine' = [mine EXCEPT ![p] = joined]
  BY <1>1, <1>2, Zenon
<1> QED BY <1>3, Zenon DEF Edits!EditFrom, a, b

(* A changed copy is an edit, of the view as it was or as the read left it. *)
LEMMA ChangeEdits ==
    ASSUME IInv, NEW p \in Procs, NEW jobs, UNCHANGED disk,
           local' = [local EXCEPT ![p] = jobs],
           \/ UNCHANGED base /\ (DOMAIN jobs \ DOMAIN local[p]) \cap used = {}
           \/ /\ base' = [base EXCEPT ![p] = disk]
              /\ (DOMAIN jobs \ DOMAIN Synced(p)) \cap used = {}
    PROVE  Edits!Edit(p)
<1>0. /\ TypeOK
      /\ DOMAIN base[p] \subseteq used /\ DOMAIN disk \subseteq used
  BY DEF IInv, TypeOK
<1>1. /\ \A q \in Procs : q # p => local'[q] = local[q] /\ base'[q] = base[q]
      /\ local'[p] = jobs /\ local' = [local EXCEPT ![p] = local'[p]]
  BY <1>0 DEF TypeOK
<1>2. CASE UNCHANGED base /\ (DOMAIN jobs \ DOMAIN local[p]) \cap used = {}
  <2>1. (DOMAIN jobs \ DOMAIN local[p]) \cap DOMAIN base[p] = {}
    BY <1>0, <1>2
  <2>2. Edits!EditFrom(p, local[p], Between(base[p], local[p]))
    BY <1>1, <1>2, <2>1, EditsJoin
  <2> QED BY <1>1, <1>2, <2>2, UnwrittenIs DEF Edits!Edit
<1>3. CASE /\ base' = [base EXCEPT ![p] = disk]
           /\ (DOMAIN jobs \ DOMAIN Synced(p)) \cap used = {}
  <2>1. (DOMAIN jobs \ DOMAIN Synced(p)) \cap DOMAIN disk = {}
    BY <1>0, <1>3
  <2>2. base'[p] = disk
    BY <1>0, <1>3 DEF TypeOK
  <2>3. Edits!EditFrom(p, Synced(p), Between(disk, Synced(p)))
    BY <1>1, <2>1, <2>2, EditsJoin
  <2> QED BY <1>1, <1>3, <2>3, SyncedIsCombined, OutstandingIs DEF Edits!Edit
<1> QED BY <1>2, <1>3

(* A mutator's copy has the ids it started from and new ones.              *)
LEMMA MutateEdits ==
    ASSUME IInv, NEW p \in Procs, NEW readable \in BOOLEAN, NEW jobs,
           Mutate(p, readable, jobs),
           (DOMAIN jobs \ DOMAIN Starting(p, readable)) \cap used = {}
    PROVE  Edits!Edit(p)
<1>1. /\ UNCHANGED disk /\ local' = [local EXCEPT ![p] = jobs]
      /\ IF readable THEN base' = [base EXCEPT ![p] = Remembered(p)] ELSE UNCHANGED base
  BY DEF Mutate, ReadInto
<1>2. CASE readable
  BY <1>1, <1>2, ChangeEdits, RememberedIsDisk DEF Starting, IInv
<1>3. CASE ~readable
  BY <1>1, <1>3, ChangeEdits DEF Starting
<1> QED BY <1>2, <1>3

LEMMA EditRefines ==
    ASSUME IInv, NEW p \in Procs, NEW j \in Jobs, NEW readable \in BOOLEAN,
           Edit(p, j, readable)
    PROVE  Edits!Edit(p)
<1> DEFINE from == Starting(p, readable)
<1>1. ASSUME NEW require \in BOOLEAN, NEW op \in Operations,
             AddJob(p, j, readable, require, op)
      PROVE  Edits!Edit(p)
  <2> DEFINE jobs == WithJob(from, j, NewJob(require, op))
  <2>1. Mutate(p, readable, jobs) /\ j \notin used
    BY <1>1 DEF AddJob
  <2>2. DOMAIN jobs = DOMAIN from \cup {j}
    BY DEF WithJob
  <2> HIDE DEF jobs
  <2> QED BY <2>1, <2>2, MutateEdits
<1>2. ASSUME NEW jobs, Mutate(p, readable, jobs), DOMAIN jobs \subseteq DOMAIN from
      PROVE  Edits!Edit(p)
  BY <1>2, MutateEdits
<1>3. ASSUME NEW enabled \in BOOLEAN, NEW require \in BOOLEAN, NEW op \in Operations,
             UpdateJob(p, j, readable, enabled, require, op)
      PROVE  Edits!Edit(p)
  BY <1>2, <1>3 DEF UpdateJob
<1>4. CASE ApproveJob(p, j, readable)
  BY <1>2, <1>4 DEF ApproveJob
<1>5. CASE RevokeJobApproval(p, j, readable)
  BY <1>2, <1>5 DEF RevokeJobApproval
<1>6. CASE RemoveJob(p, j, readable)
  BY <1>2, <1>6 DEF RemoveJob
<1>7. ASSUME NEW enabled \in BOOLEAN, EnableJob(p, j, readable, enabled)
      PROVE  Edits!Edit(p)
  BY <1>2, <1>7 DEF EnableJob
<1> QED BY <1>1, <1>3, <1>4, <1>5, <1>6, <1>7 DEF Edit

(* A run's end edits the job it counts or deletes.                         *)
LEMMA RunRefines ==
    ASSUME IInv, NEW p \in Procs, NEW j \in Jobs, BlockRun(p, j) \/ EndRun(p, j)
    PROVE  Edits!Edit(p)
<1>0. TypeOK
  BY DEF IInv
<1>1. ASSUME NEW jobs, local' = [local EXCEPT ![p] = jobs], DOMAIN jobs \subseteq DOMAIN local[p]
      PROVE  Edits!Edit(p)
  BY <1>1, ChangeEdits DEF BlockRun, EndRun
<1>2. CASE BlockRun(p, j)
  <2> DEFINE jobs == [local[p] EXCEPT ![j] = AfterRun(local[p][j], j)]
  <2>1. local' = [local EXCEPT ![p] = jobs]
    BY <1>0, <1>2 DEF BlockRun, TypeOK
  <2>2. DOMAIN jobs = DOMAIN local[p]
    OBVIOUS
  <2> HIDE DEF jobs
  <2> QED BY <1>1, <2>1, <2>2
<1>3. CASE EndRun(p, j)
  <2> DEFINE jobs == IF j \in Vanishing
                     THEN [i \in DOMAIN local[p] \ {j} |-> local[p][i]]
                     ELSE [local[p] EXCEPT ![j] = AfterRun(local[p][j], j)]
  <2>1. local' = [local EXCEPT ![p] = jobs]
    BY <1>0, <1>3 DEF EndRun, TypeOK
  <2>2. DOMAIN jobs \subseteq DOMAIN local[p]
    OBVIOUS
  <2> HIDE DEF jobs
  <2> QED BY <1>1, <2>1, <2>2
<1> QED BY <1>2, <1>3

LEMMA SaveRefines ==
    ASSUME IInv, NEW p \in Procs, Save(p)
    PROVE  Edits!Write(p)
<1> DEFINE jobs == Synced(p)
<1>0. TypeOK
  BY DEF IInv
<1>1. /\ disk' = jobs
      /\ local' = [local EXCEPT ![p] = jobs]
      /\ base' = [base EXCEPT ![p] = jobs]
  BY DEF Save
<1>2. jobs = Edits!Combined(p)
  BY SyncedIsCombined
<1> HIDE DEF jobs
<1>3. /\ \A q \in Procs : q # p => local'[q] = local[q] /\ base'[q] = base[q]
      /\ local'[p] = jobs /\ base'[p] = jobs
  BY <1>0, <1>1 DEF TypeOK
<1> QED BY <1>1, <1>2, <1>3, EditsChange, BetweenSame DEF Edits!Write

(* A failed save has read, or has done nothing.                            *)
LEMMA FailSaveRefines ==
    ASSUME IInv, NEW p \in Procs, FailSave(p)
    PROVE  Edits!Refresh(p) \/ UNCHANGED Edits!vars
<1>1. CASE ReadInto(p, Synced(p))
  BY <1>1, ReadRefreshes DEF FailSave
<1>2. CASE UNCHANGED <<local, base, fresh>>
  BY <1>2 DEF FailSave, Edits!vars, Unwritten
<1> QED BY <1>1, <1>2 DEF FailSave

LEMMA LoadRefines ==
    ASSUME IInv, NEW p \in Procs, Load(p)
    PROVE  Edits!Restart(p)
<1>0. TypeOK
  BY DEF IInv
<1>1. /\ local' = [local EXCEPT ![p] = disk] /\ base' = [base EXCEPT ![p] = disk]
      /\ UNCHANGED disk
  BY DEF Load
<1>2. /\ \A q \in Procs : q # p => local'[q] = local[q] /\ base'[q] = base[q]
      /\ local'[p] = disk /\ base'[p] = disk
  BY <1>0, <1>1 DEF TypeOK
<1> QED BY <1>1, <1>2, EditsChange, BetweenSame DEF Edits!Restart

LEMMA InitRefines == Init => Edits!Init
<1> SUFFICES ASSUME Init PROVE Edits!Init
  OBVIOUS
<1>1. \A p \in Procs : Unwritten(p) = Edits!NoEdits
  BY UnwrittenIs, BetweenSame DEF Init
<1> QED BY <1>1 DEF Init, Edits!Init

LEMMA StepRefines == IInv /\ [Next]_vars => [Edits!Next]_Edits!vars
<1> SUFFICES ASSUME IInv, [Next]_vars PROVE [Edits!Next]_Edits!vars
  OBVIOUS
<1> USE DEF Edits!Next
<1>1. CASE \E p \in Procs, j \in Jobs, readable \in BOOLEAN : Edit(p, j, readable)
  BY <1>1, EditRefines
<1>2. CASE \E p \in Services, j \in Jobs : BlockRun(p, j) \/ EndRun(p, j)
  BY <1>2, RunRefines DEF Procs
<1>3. CASE \E p \in Procs : Save(p) \/ FailSave(p) \/ Load(p)
  BY <1>3, SaveRefines, FailSaveRefines, LoadRefines
<1>4. CASE \E p \in Services : SyncFromDisk(p)
  BY <1>4, ReadRefreshes DEF SyncFromDisk, Procs
<1>5. CASE UNCHANGED vars
  BY <1>5 DEF vars, Edits!vars, Unwritten
<1> QED BY <1>1, <1>2, <1>3, <1>4, <1>5 DEF Next

(* The merge implements a store in which each process keeps a list of its  *)
(* edits: no process's edit is lost, none writes a field it did not set,   *)
(* and none brings back what another removed (service.py:435).             *)
THEOREM StoreImplementsEdits == Spec => ImplementsEdits
BY InitRefines, StepRefines, Inductive, PTL DEF Spec, ImplementsEdits, Edits!Spec
=============================================================================
