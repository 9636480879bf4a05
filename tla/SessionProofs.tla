---------------------------- MODULE SessionProofs ----------------------------
(***************************************************************************)
(* What is proved of one session, for any number of messages, tasks and    *)
(* objects: of the locks that serialise its turns (SessionLocks), and of   *)
(* its objects, its file and those who save it (SessionStore).             *)
(*                                                                         *)
(* One turn at a time: the invariant says why the lock object may be       *)
(* dropped while tasks still end: whoever is not cancelled is registered,  *)
(* whoever runs holds the lock object of the table, and only the first     *)
(* waiter of a free lock has been woken.  Turns run in arrival order       *)
(* because every queue is in that order: a new waiter has arrived last,    *)
(* the one that goes on is the first.                                      *)
(*                                                                         *)
(* The file: the structural invariant Shape says who may hold which        *)
(* object, and what each disturbance still leaves true of that; on it rest *)
(* three more, each for the disturbances it bears.  Kept: every session    *)
(* that may yet be saved holds what has been saved, and what a process     *)
(* takes for written is written.  Exact: it begins with what the file      *)
(* holds, so appends add up and nothing is written twice.  Talk: it is the *)
(* conversation.                                                           *)
(***************************************************************************)
EXTENDS SessionLocks, SessionStore, FiniteSetTheorems, SequenceTheorems, TLAPS

-----------------------------------------------------------------------------
(* The locks                                                               *)

ReadyIsCreated ==
  /\ ready \in Seq(Msgs) /\ IsInjective(ready)
  /\ Range(ready) = {m \in Msgs : pc[m] = "created"}

QueuesAreSeqs == waiters \in [Locks -> Seq(Msgs)]

HoldersHaveLock ==
  \A m \in Msgs : pc[m] \in {"inside", "waiting"} =>
    lockOf[m] \in Locks /\ (pc[m] = "inside" => locked[lockOf[m]])

OneInside == \A m, n \in Msgs : pc[m] = "inside" /\ pc[n] = "inside" => m = n

WokenIsFirst ==
  \A m \in woken : ~locked[lockOf[m]] /\ m = Head(waiters[lockOf[m]])

LiveIsActive ==
  \A m \in Msgs : pc[m] \in {"created", "waiting", "inside"} /\ m \notin cancel => m \in active

IInv ==
  /\ TypeOK /\ ReadyIsCreated /\ QueuesAreSeqs /\ HoldersHaveLock
  /\ OneInside /\ WokenIsFirst /\ LiveIsActive /\ SameLock

-----------------------------------------------------------------------------
(* Queues.                                                                 *)

LEMMA LocksArePositive == 0 \notin Locks /\ Locks \subseteq Nat
<1>1. Cardinality(Msgs) \in Nat
  BY ActorsAssumption, FS_CardinalityType
<1> QED BY <1>1 DEF Locks

\* Joining a queue adds the message at its end.
LEMMA AppendFacts ==
  ASSUME NEW S, NEW ws \in Seq(S), IsInjective(ws), NEW m \in S, m \notin Range(ws)
  PROVE  /\ Append(ws, m) \in Seq(S) /\ IsInjective(Append(ws, m))
         /\ Range(Append(ws, m)) = Range(ws) \cup {m}
         /\ ws # <<>> => Head(Append(ws, m)) = Head(ws)
<1>1. /\ Append(ws, m) \in Seq(S) /\ Len(Append(ws, m)) = Len(ws) + 1
      /\ \A i \in 1..Len(ws) : Append(ws, m)[i] = ws[i]
      /\ Append(ws, m)[Len(ws) + 1] = m
      /\ DOMAIN Append(ws, m) = 1..(Len(ws) + 1) /\ DOMAIN ws = 1..Len(ws) /\ Len(ws) \in Nat
  OBVIOUS
<1>2. \A i \in 1..(Len(ws) + 1) : i \in 1..Len(ws) \/ i = Len(ws) + 1
  BY <1>1
<1>3. IsInjective(Append(ws, m))
  BY <1>1, <1>2 DEF IsInjective, Range
<1>4. Range(Append(ws, m)) = Range(ws) \cup {m}
  BY <1>1, <1>2 DEF Range
<1>5. ws # <<>> => Head(Append(ws, m)) = Head(ws)
  OBVIOUS
<1> QED BY <1>1, <1>3, <1>4, <1>5

\* The head of a queue is in it, and taken off it leaves the others.
LEMMA TailFacts ==
  ASSUME NEW S, NEW ws \in Seq(S), ws # <<>>, IsInjective(ws)
  PROVE  /\ Head(ws) \in Range(ws) /\ Head(ws) \in S
         /\ Tail(ws) \in Seq(S) /\ IsInjective(Tail(ws))
         /\ Range(Tail(ws)) = Range(ws) \ {Head(ws)}
<1>1. /\ Len(ws) \in Nat \ {0} /\ DOMAIN ws = 1..Len(ws) /\ Head(ws) = ws[1] /\ Head(ws) \in S
      /\ Tail(ws) \in Seq(S) /\ Len(Tail(ws)) = Len(ws) - 1 /\ DOMAIN Tail(ws) = 1..(Len(ws) - 1)
      /\ \A i \in 1..(Len(ws) - 1) : Tail(ws)[i] = ws[i + 1]
  OBVIOUS
<1>2. IsInjective(Tail(ws))
  BY <1>1 DEF IsInjective
<1>3. \A x \in Range(Tail(ws)) : x \in Range(ws) /\ x # Head(ws)
  BY <1>1 DEF IsInjective, Range
<1>4. ASSUME NEW x \in Range(ws), x # Head(ws)
      PROVE  x \in Range(Tail(ws))
  <2>1. PICK i \in 1..Len(ws) : ws[i] = x
    BY <1>1 DEF Range
  <2>2. i - 1 \in 1..(Len(ws) - 1) /\ Tail(ws)[i - 1] = x
    BY <1>1, <1>4, <2>1
  <2> QED BY <1>1, <2>2 DEF Range
<1>5. Head(ws) \in Range(ws)
  BY <1>1 DEF Range
<1> QED BY <1>1, <1>2, <1>3, <1>4, <1>5

\* A waiter that leaves leaves the others, in their order.
LEMMA WithoutFacts ==
  ASSUME NEW S, NEW ws \in Seq(S), IsInjective(ws), NEW m \in Range(ws)
  PROVE  /\ Without(ws, m) \in Seq(S) /\ IsInjective(Without(ws, m))
         /\ Range(Without(ws, m)) = Range(ws) \ {m}
         /\ ws # <<>>
         /\ Head(ws) # m => Head(Without(ws, m)) = Head(ws)
<1> DEFINE i == CHOOSE i \in DOMAIN ws : ws[i] = m
           out == Without(ws, m)
<1>1. i \in 1..Len(ws) /\ ws[i] = m /\ DOMAIN ws = 1..Len(ws) /\ Len(ws) \in Nat \ {0}
  BY DEF Range
<1>2. out = [j \in 1..(Len(ws) - 1) |-> IF j < i THEN ws[j] ELSE ws[j + 1]]
  BY DEF Without
<1> HIDE DEF i, out
<1>3. \A j \in 1..(Len(ws) - 1) :
        /\ j \in DOMAIN ws /\ j + 1 \in DOMAIN ws /\ ws[j] \in S /\ ws[j + 1] \in S
  BY <1>1
<1>4. out \in Seq(S) /\ Len(out) = Len(ws) - 1 /\ DOMAIN out = 1..(Len(ws) - 1)
  <2>1. Len(ws) - 1 \in Nat /\ \A j \in 1..(Len(ws) - 1) : out[j] \in S
    BY <1>1, <1>2, <1>3
  <2> QED BY <1>2, <2>1
<1>5. IsInjective(out)
  <2> SUFFICES ASSUME NEW a \in 1..(Len(ws) - 1), NEW b \in 1..(Len(ws) - 1), out[a] = out[b]
               PROVE  a = b
    BY <1>4 DEF IsInjective
  <2> DEFINE at(j) == IF j < i THEN j ELSE j + 1
  <2>1. at(a) \in DOMAIN ws /\ at(b) \in DOMAIN ws /\ ws[at(a)] = ws[at(b)]
    BY <1>2, <1>3
  <2>2. at(a) = at(b)
    BY <2>1 DEF IsInjective
  <2> QED BY <1>1, <2>2
<1>6. \A x \in Range(out) : x \in Range(ws) /\ x # m
  BY <1>1, <1>2, <1>3, <1>4 DEF IsInjective, Range
<1>7. ASSUME NEW x \in Range(ws), x # m
      PROVE  x \in Range(out)
  <2>1. PICK k \in 1..Len(ws) : ws[k] = x
    BY <1>1 DEF Range
  <2>2. CASE k < i
    <3>1. k \in 1..(Len(ws) - 1) /\ out[k] = x
      BY <1>1, <1>2, <2>1, <2>2
    <3> QED BY <1>4, <3>1 DEF Range
  <2>3. CASE k > i
    <3>1. k - 1 \in 1..(Len(ws) - 1) /\ out[k - 1] = x
      BY <1>1, <1>2, <2>1, <2>3
    <3> QED BY <1>4, <3>1 DEF Range
  <2> QED BY <1>1, <1>7, <2>1, <2>2, <2>3
<1>8. Head(ws) # m => Head(out) = Head(ws)
  <2> SUFFICES ASSUME Head(ws) # m PROVE Head(out) = Head(ws)
    OBVIOUS
  <2>1. i > 1 /\ 1 \in 1..(Len(ws) - 1)
    BY <1>1
  <2>2. out[1] = ws[1]
    BY <1>2, <2>1
  <2>3. out # <<>> /\ Head(out) = out[1]
    BY <1>4, <2>1
  <2> QED BY <1>1, <2>2, <2>3
<1> QED BY <1>1, <1>4, <1>5, <1>6, <1>7, <1>8 DEF out

-----------------------------------------------------------------------------
(* The end of a task, and the table.                                       *)

\* End() touches the task that ends, and may drop the lock object.
LEMMA EndFacts ==
  ASSUME TypeOK, NEW m \in Msgs, NEW lks, End(m, lks) \/ (Forget(m) /\ RemoveActive(m, lks))
  PROVE  /\ pc' \in [Actors -> {"new", "created", "waiting", "inside", "ended", "draining", "done"}]
         /\ pc'[m] \in {"ended", "done"}
         /\ \A a \in Actors \ {m} : pc'[a] = pc[a]
         /\ via' \in [Actors -> {"bus", "direct"}]
         /\ lockOf' \in [Msgs -> {0} \cup Locks]
         /\ \A n \in Msgs \ {m} : lockOf'[n] = lockOf[n]
         /\ cancel' \in {cancel, cancel \ {m}} /\ active' \in {active, active \ {m}}
         /\ \/ table' = table
            \/ table' = 0 /\ active' = {} /\ table # 0 /\ ~lks[table]
<1>1. m \in Actors
  BY DEF Actors
<1>2. CASE Forget(m) /\ RemoveActive(m, lks)
  BY <1>1, <1>2 DEF Forget, RemoveActive, TypeOK
<1>3. CASE pc' = [pc EXCEPT ![m] = "ended"] /\ UNCHANGED <<active, table, via, lockOf, cancel>>
  BY <1>1, <1>3 DEF TypeOK
<1> QED BY <1>2, <1>3 DEF End

\* The table keeps the lock object of whoever runs or will run: it is dropped
\* only when no task is registered and nobody holds it.
LEMMA SameLockKept ==
  ASSUME SameLock, HoldersHaveLock', LiveIsActive',
         \A m \in Msgs :
           pc'[m] = "inside" \/ (pc'[m] = "waiting" /\ m \notin cancel') =>
             /\ lockOf'[m] = lockOf[m]
             /\ pc[m] = "inside" \/ (pc[m] = "waiting" /\ m \notin cancel),
         \/ table' = table
         \/ table' = 0 /\ active' = {} /\ ~locked'[table]
  PROVE  SameLock'
<1> SUFFICES ASSUME NEW m \in Msgs,
                    pc'[m] = "inside" \/ (pc'[m] = "waiting" /\ m \notin cancel')
             PROVE  lockOf'[m] = table'
  BY DEF SameLock
<1>1. lockOf'[m] = table
  BY DEF SameLock
<1>2. CASE table' = table
  BY <1>1, <1>2
<1>3. CASE table' = 0 /\ active' = {} /\ ~locked'[table]
  <2>1. pc'[m] # "inside"
    BY <1>1, <1>3 DEF HoldersHaveLock
  <2>2. m \in active'
    BY <2>1 DEF LiveIsActive
  <2> QED BY <1>3, <2>2
<1> QED BY <1>2, <1>3

-----------------------------------------------------------------------------
(* The steps.                                                              *)

LEMMA InitInv == Init => IInv
<1> SUFFICES ASSUME Init PROVE IInv
  OBVIOUS
<1>1. Range(<<>>) = {} /\ IsInjective(<<>>)
  BY DEF Range, IsInjective
<1>2. TypeOK
  BY <1>1 DEF Init, TypeOK, Actors
<1>3. ReadyIsCreated /\ QueuesAreSeqs
  BY <1>1 DEF Init, ReadyIsCreated, QueuesAreSeqs, Actors
<1>4. HoldersHaveLock /\ OneInside /\ WokenIsFirst /\ LiveIsActive /\ SameLock
  BY DEF Init, HoldersHaveLock, OneInside, WokenIsFirst, LiveIsActive, SameLock, Actors
<1> QED BY <1>2, <1>3, <1>4 DEF IInv

\* asyncio.Lock.acquire by a message that is created or new, and registered.
LEMMA AcquireKeeps ==
  ASSUME IInv, NEW m \in Msgs, Acquire(m), pc[m] \in {"new", "created"},
         \/ pc[m] = "created" /\ m \notin cancel
         \/ m \in active',
         ready' \in Seq(Msgs), IsInjective(ready'), Range(ready') = Range(ready) \ {m},
         via' \in [Actors -> {"bus", "direct"}], active' \in {active, active \cup {m}},
         UNCHANGED <<cancel, woken, drain>>
  PROVE  IInv'
<1>0. /\ TypeOK /\ ReadyIsCreated /\ QueuesAreSeqs /\ HoldersHaveLock
      /\ OneInside /\ WokenIsFirst /\ LiveIsActive /\ SameLock
      /\ m \in Actors /\ Msgs \subseteq Actors
  BY DEF IInv, Actors
<1>1. PICK l \in Locks :
        /\ Lookup(l) /\ table' = l /\ lockOf' = [lockOf EXCEPT ![m] = l]
        /\ \/ /\ ~locked[l] /\ \A w \in Range(waiters[l]) : w \in cancel /\ w \notin woken
              /\ pc' = [pc EXCEPT ![m] = "inside"]
              /\ locked' = [locked EXCEPT ![l] = TRUE]
              /\ UNCHANGED waiters
           \/ /\ pc' = [pc EXCEPT ![m] = "waiting"]
              /\ waiters' = [waiters EXCEPT ![l] = Append(@, m)]
              /\ UNCHANGED locked
  BY DEF Acquire
<1>2. \A n \in Msgs : pc[n] = "inside" \/ (pc[n] = "waiting" /\ n \notin cancel) => lockOf[n] = l
  BY <1>0, <1>1, LocksArePositive DEF SameLock, Lookup, HoldersHaveLock
<1>3. /\ lockOf' \in [Msgs -> {0} \cup Locks] /\ lockOf'[m] = l
      /\ \A n \in Msgs \ {m} : lockOf'[n] = lockOf[n] /\ pc'[n] = pc[n]
      /\ \A a \in Actors \ {m} : pc'[a] = pc[a]
      /\ pc'[m] \in {"inside", "waiting"}
      /\ pc' \in [Actors -> {"new", "created", "waiting", "inside", "ended", "draining", "done"}]
  BY <1>0, <1>1 DEF TypeOK
<1>4. ReadyIsCreated'
  BY <1>0, <1>3 DEF ReadyIsCreated
<1>5. LiveIsActive'
  BY <1>0, <1>3 DEF LiveIsActive
<1>6. /\ waiters[l] \in Seq(Msgs) /\ IsInjective(waiters[l]) /\ m \notin Range(waiters[l])
      /\ \A k \in Locks : /\ IsInjective(waiters[k])
                          /\ Range(waiters[k]) = {n \in Msgs : pc[n] = "waiting" /\ lockOf[n] = k}
      /\ woken \subseteq {n \in Msgs : pc[n] = "waiting"}
  BY <1>0 DEF TypeOK, QueuesAreSeqs
<1>7. /\ active' \subseteq Actors /\ cancel' \subseteq Actors /\ drain' \in [Stops -> SUBSET Actors]
      /\ Range(ready') \subseteq Msgs /\ table' \in {0} \cup Locks
      /\ woken' \subseteq {n \in Msgs : pc'[n] = "waiting"}
  BY <1>0, <1>1, <1>3, <1>6 DEF TypeOK
<1>8. CASE /\ ~locked[l] /\ \A w \in Range(waiters[l]) : w \in cancel /\ w \notin woken
           /\ pc' = [pc EXCEPT ![m] = "inside"]
           /\ locked' = [locked EXCEPT ![l] = TRUE]
           /\ UNCHANGED waiters
  <2>1. pc'[m] = "inside"
    BY <1>0, <1>8 DEF TypeOK
  <2>2. \A k \in Locks : Range(waiters'[k]) = {n \in Msgs : pc'[n] = "waiting" /\ lockOf'[n] = k}
    BY <1>3, <1>6, <1>8, <2>1
  <2>3. TypeOK'
    BY <1>0, <1>3, <1>6, <1>7, <1>8, <2>2 DEF TypeOK
  <2>4. QueuesAreSeqs'
    BY <1>0, <1>8 DEF QueuesAreSeqs
  <2>5. \A n \in Msgs : pc[n] # "inside"
    BY <1>0, <1>2, <1>8 DEF HoldersHaveLock
  <2>6. HoldersHaveLock' /\ OneInside' /\ SameLock'
    BY <1>0, <1>1, <1>2, <1>3, <1>8, <2>1, <2>5 DEF HoldersHaveLock, OneInside, SameLock, TypeOK
  <2>7. WokenIsFirst'
    <3> SUFFICES ASSUME NEW n \in woken PROVE ~locked'[lockOf'[n]] /\ n = Head(waiters'[lockOf'[n]])
      BY DEF WokenIsFirst
    <3>1. n \in Msgs /\ pc[n] = "waiting" /\ n # m /\ lockOf'[n] = lockOf[n] /\ lockOf[n] \in Locks
      BY <1>0, <1>3, <1>6 DEF HoldersHaveLock
    <3>2. lockOf[n] # l
      BY <1>6, <1>8, <3>1
    <3> QED BY <1>0, <1>8, <3>1, <3>2 DEF WokenIsFirst, TypeOK
  <2> QED BY <1>4, <1>5, <2>3, <2>4, <2>6, <2>7 DEF IInv
<1>9. CASE /\ pc' = [pc EXCEPT ![m] = "waiting"]
           /\ waiters' = [waiters EXCEPT ![l] = Append(@, m)]
           /\ UNCHANGED locked
  <2>1. pc'[m] = "waiting"
    BY <1>0, <1>9 DEF TypeOK
  <2>2. /\ Append(waiters[l], m) \in Seq(Msgs) /\ IsInjective(Append(waiters[l], m))
        /\ Range(Append(waiters[l], m)) = Range(waiters[l]) \cup {m}
        /\ waiters[l] # <<>> => Head(Append(waiters[l], m)) = Head(waiters[l])
    BY <1>6, AppendFacts
  <2>3. QueuesAreSeqs' /\ \A k \in Locks : waiters'[k] = IF k = l THEN Append(waiters[l], m) ELSE waiters[k]
    BY <1>0, <1>9, <2>2 DEF QueuesAreSeqs
  <2>4. \A k \in Locks : /\ IsInjective(waiters'[k])
                         /\ Range(waiters'[k]) = {n \in Msgs : pc'[n] = "waiting" /\ lockOf'[n] = k}
    BY <1>3, <1>6, <2>1, <2>2, <2>3
  <2>5. TypeOK'
    BY <1>0, <1>3, <1>7, <1>9, <2>4 DEF TypeOK
  <2>6. HoldersHaveLock' /\ OneInside' /\ SameLock'
    BY <1>0, <1>1, <1>2, <1>3, <1>9, <2>1 DEF HoldersHaveLock, OneInside, SameLock, TypeOK
  <2>7. WokenIsFirst'
    <3> SUFFICES ASSUME NEW n \in woken PROVE ~locked'[lockOf'[n]] /\ n = Head(waiters'[lockOf'[n]])
      BY DEF WokenIsFirst
    <3>1. n \in Msgs /\ pc[n] = "waiting" /\ n # m /\ lockOf'[n] = lockOf[n] /\ lockOf[n] \in Locks
      BY <1>0, <1>3, <1>6 DEF HoldersHaveLock
    <3>2. n \in Range(waiters[lockOf[n]]) /\ waiters[lockOf[n]] # <<>>
      BY <1>6, <3>1 DEF Range
    <3> QED BY <1>0, <1>9, <2>2, <2>3, <3>1, <3>2 DEF WokenIsFirst
  <2> QED BY <1>4, <1>5, <2>3, <2>5, <2>6, <2>7 DEF IInv
<1> QED BY <1>1, <1>8, <1>9

\* Facts of the invariant the steps below use.
LEMMA InvFacts ==
  ASSUME IInv
  PROVE  /\ TypeOK /\ ReadyIsCreated /\ QueuesAreSeqs /\ HoldersHaveLock
         /\ OneInside /\ WokenIsFirst /\ LiveIsActive /\ SameLock
         /\ Msgs \subseteq Actors /\ Stops \subseteq Actors /\ Msgs \cap Stops = {}
         /\ pc \in [Actors -> {"new", "created", "waiting", "inside", "ended", "draining", "done"}]
         /\ \A l \in Locks : /\ waiters[l] \in Seq(Msgs) /\ IsInjective(waiters[l])
                             /\ Range(waiters[l]) = {m \in Msgs : pc[m] = "waiting" /\ lockOf[m] = l}
         /\ woken \subseteq {m \in Msgs : pc[m] = "waiting"}
BY ActorsAssumption DEF IInv, TypeOK, QueuesAreSeqs, Actors

LEMMA DeliverKeeps ==
  ASSUME IInv, NEW m \in Msgs, Deliver(m)
  PROVE  IInv'
<1>0. /\ pc' \in [Actors -> {"new", "created", "waiting", "inside", "ended", "draining", "done"}]
      /\ pc[m] = "new" /\ pc'[m] = "created" /\ \A a \in Actors \ {m} : pc'[a] = pc[a]
      /\ ready' = Append(ready, m) /\ active' = active \cup {m} /\ m \in Actors
      /\ UNCHANGED <<via, cancel, table, lockOf, locked, waiters, woken, drain>>
  BY InvFacts DEF Deliver
<1>1. ReadyIsCreated'
  <2>1. ready \in Seq(Msgs) /\ IsInjective(ready) /\ m \notin Range(ready)
    BY <1>0, InvFacts DEF ReadyIsCreated
  <2>2. ready' \in Seq(Msgs) /\ IsInjective(ready') /\ Range(ready') = Range(ready) \cup {m}
    BY <1>0, <2>1, AppendFacts
  <2> QED BY <1>0, <2>2, InvFacts DEF ReadyIsCreated
<1>2. TypeOK'
  BY <1>0, <1>1, InvFacts DEF TypeOK, ReadyIsCreated
<1>3. HoldersHaveLock' /\ OneInside' /\ LiveIsActive' /\ SameLock'
  BY <1>0, InvFacts DEF HoldersHaveLock, OneInside, LiveIsActive, SameLock
<1>4. QueuesAreSeqs' /\ WokenIsFirst'
  BY <1>0, InvFacts DEF QueuesAreSeqs, WokenIsFirst
<1> QED BY <1>1, <1>2, <1>3, <1>4 DEF IInv

LEMMA DirectArriveKeeps ==
  ASSUME IInv, NEW m \in Msgs, DirectArrive(m)
  PROVE  IInv'
<1>1. pc[m] = "new" /\ m \in active' /\ active' = active \cup {m} /\ Acquire(m)
      /\ via' \in [Actors -> {"bus", "direct"}] /\ UNCHANGED <<ready, cancel, woken, drain>>
  BY InvFacts DEF DirectArrive, TypeOK
<1>2. /\ ready' \in Seq(Msgs) /\ IsInjective(ready')
      /\ Range(ready') = Range(ready) \ {m}
  BY <1>1, InvFacts DEF ReadyIsCreated
<1> QED BY <1>1, <1>2, AcquireKeeps

LEMMA BeginKeeps ==
  ASSUME IInv, Begin
  PROVE  IInv'
<1> DEFINE m == Head(ready)
<1>1. /\ m \in Msgs /\ m \in Range(ready) /\ m \in Actors
      /\ ready' \in Seq(Msgs) /\ IsInjective(ready') /\ Range(ready') = Range(ready) \ {m}
  BY TailFacts, InvFacts DEF Begin, ReadyIsCreated
<1>2. pc[m] = "created" /\ UNCHANGED <<via, active, cancel, woken, drain>>
  BY <1>1, InvFacts DEF Begin, ReadyIsCreated
<1>3. CASE m \notin cancel
  <2>1. Acquire(m)
    BY <1>3 DEF Begin
  <2>2. via' \in [Actors -> {"bus", "direct"}] /\ active' \in {active, active \cup {m}}
    BY <1>2, InvFacts DEF TypeOK
  <2> HIDE DEF m
  <2> QED BY <1>1, <1>2, <1>3, <2>1, <2>2, AcquireKeeps
<1>4. CASE m \in cancel
  <2>0. pc' = [pc EXCEPT ![m] = "ended"] /\ UNCHANGED <<table, lockOf, locked, waiters>>
    BY <1>4 DEF Begin
  <2> HIDE DEF m
  <2>1. /\ pc' \in [Actors -> {"new", "created", "waiting", "inside", "ended", "draining", "done"}]
        /\ pc'[m] = "ended" /\ \A a \in Actors \ {m} : pc'[a] = pc[a]
    BY <1>1, <2>0, InvFacts
  <2>2. ReadyIsCreated'
    BY <1>1, <2>1, InvFacts DEF ReadyIsCreated
  <2>3. TypeOK'
    BY <1>1, <1>2, <2>0, <2>1, <2>2, InvFacts DEF TypeOK, ReadyIsCreated
  <2>4. HoldersHaveLock' /\ OneInside' /\ LiveIsActive' /\ SameLock'
    BY <1>2, <2>0, <2>1, InvFacts DEF HoldersHaveLock, OneInside, LiveIsActive, SameLock
  <2>5. QueuesAreSeqs' /\ WokenIsFirst'
    BY <1>2, <2>0, InvFacts DEF QueuesAreSeqs, WokenIsFirst
  <2> QED BY <2>2, <2>3, <2>4, <2>5 DEF IInv
<1> QED BY <1>3, <1>4

\* A waiter leaves its queue: what the others' queues look like then.
LEMMA QueueLeft ==
  ASSUME IInv, NEW m \in Msgs, pc[m] = "waiting",
         waiters' = [waiters EXCEPT ![lockOf[m]] = Without(@, m)],
         \A n \in Msgs \ {m} : pc'[n] = pc[n] /\ lockOf'[n] = lockOf[n],
         pc'[m] # "waiting"
  PROVE  /\ lockOf[m] \in Locks
         /\ QueuesAreSeqs'
         /\ \A l \in Locks : /\ IsInjective(waiters'[l])
                             /\ Range(waiters'[l]) = {n \in Msgs : pc'[n] = "waiting" /\ lockOf'[n] = l}
         /\ \A l \in Locks \ {lockOf[m]} : waiters'[l] = waiters[l]
         /\ \A l \in Locks : waiters[l] # <<>> /\ Head(waiters[l]) # m =>
              Head(waiters'[l]) = Head(waiters[l])
<1> DEFINE l == lockOf[m]
<1>1. l \in Locks /\ m \in Range(waiters[l])
  BY InvFacts DEF HoldersHaveLock
<1>2. /\ Without(waiters[l], m) \in Seq(Msgs) /\ IsInjective(Without(waiters[l], m))
      /\ Range(Without(waiters[l], m)) = Range(waiters[l]) \ {m}
      /\ Head(waiters[l]) # m => Head(Without(waiters[l], m)) = Head(waiters[l])
  BY <1>1, WithoutFacts, InvFacts
<1>3. \A k \in Locks : waiters'[k] = IF k = l THEN Without(waiters[l], m) ELSE waiters[k]
  BY <1>1, InvFacts DEF QueuesAreSeqs
<1>4. QueuesAreSeqs'
  BY <1>1, <1>2, InvFacts DEF QueuesAreSeqs
<1>5. \A k \in Locks : /\ IsInjective(waiters'[k])
                       /\ Range(waiters'[k]) = {n \in Msgs : pc'[n] = "waiting" /\ lockOf'[n] = k}
  BY <1>1, <1>2, <1>3, InvFacts
<1> QED BY <1>1, <1>2, <1>3, <1>4, <1>5

\* A woken waiter takes a lock that nobody holds.
LEMMA ResumeKeeps ==
  ASSUME IInv, NEW m \in Msgs, Resume(m)
  PROVE  IInv'
<1>0. /\ pc' \in [Actors -> {"new", "created", "waiting", "inside", "ended", "draining", "done"}]
      /\ pc[m] = "waiting" /\ pc'[m] = "inside" /\ \A a \in Actors \ {m} : pc'[a] = pc[a]
      /\ m \in woken /\ m \notin cancel /\ woken' = woken \ {m}
      /\ locked' = [locked EXCEPT ![lockOf[m]] = TRUE]
      /\ waiters' = [waiters EXCEPT ![lockOf[m]] = Without(@, m)]
      /\ UNCHANGED <<via, ready, active, cancel, table, lockOf, drain>>
  BY InvFacts DEF Resume
<1>1. /\ lockOf[m] \in Locks /\ QueuesAreSeqs'
      /\ \A l \in Locks : /\ IsInjective(waiters'[l])
                          /\ Range(waiters'[l]) = {n \in Msgs : pc'[n] = "waiting" /\ lockOf'[n] = l}
      /\ \A l \in Locks \ {lockOf[m]} : waiters'[l] = waiters[l]
  BY <1>0, QueueLeft, InvFacts
<1>2. lockOf[m] = table /\ ~locked[table] /\ m = Head(waiters[table])
  BY <1>0, InvFacts DEF SameLock, WokenIsFirst
<1>3. \A n \in Msgs : pc[n] # "inside"
  BY <1>2, InvFacts DEF SameLock, HoldersHaveLock
<1>4. ReadyIsCreated'
  BY <1>0, InvFacts DEF ReadyIsCreated
<1>5. TypeOK'
  BY <1>0, <1>1, <1>4, InvFacts DEF TypeOK, ReadyIsCreated
<1>6. HoldersHaveLock' /\ OneInside' /\ LiveIsActive' /\ SameLock'
  BY <1>0, <1>1, <1>2, <1>3, InvFacts DEF HoldersHaveLock, OneInside, LiveIsActive, SameLock, TypeOK
<1>7. WokenIsFirst'
  <2> SUFFICES ASSUME NEW n \in woken, n # m
               PROVE  ~locked'[lockOf[n]] /\ n = Head(waiters'[lockOf[n]])
    BY <1>0 DEF WokenIsFirst
  <2>1. n \in Msgs /\ lockOf[n] \in Locks /\ n = Head(waiters[lockOf[n]]) /\ ~locked[lockOf[n]]
    BY InvFacts DEF HoldersHaveLock, WokenIsFirst
  <2>2. lockOf[n] # lockOf[m]
    BY <1>2, <2>1
  <2> QED BY <1>0, <1>1, <2>1, <2>2, InvFacts DEF TypeOK
<1> QED BY <1>1, <1>4, <1>5, <1>6, <1>7 DEF IInv

\* A cancelled waiter leaves and hands the wake-up to the new first in line.
LEMMA CancelWaitingKeeps ==
  ASSUME IInv, NEW m \in Msgs, CancelWaiting(m)
  PROVE  IInv'
<1> DEFINE l == lockOf[m]
<1>0. /\ pc[m] = "waiting" /\ m \in cancel /\ End(m, locked)
      /\ waiters' = [waiters EXCEPT ![lockOf[m]] = Without(@, m)]
      /\ woken' = (woken \ {m}) \cup (IF locked[lockOf[m]] THEN {} ELSE WakeFirst(waiters'[lockOf[m]]))
      /\ UNCHANGED <<ready, locked, drain>>
  BY DEF CancelWaiting
<1>1. /\ pc' \in [Actors -> {"new", "created", "waiting", "inside", "ended", "draining", "done"}]
      /\ pc'[m] \in {"ended", "done"} /\ \A a \in Actors \ {m} : pc'[a] = pc[a]
      /\ via' \in [Actors -> {"bus", "direct"}] /\ lockOf' \in [Msgs -> {0} \cup Locks]
      /\ \A n \in Msgs \ {m} : lockOf'[n] = lockOf[n]
      /\ cancel' \in {cancel, cancel \ {m}} /\ active' \in {active, active \ {m}}
      /\ \/ table' = table
         \/ table' = 0 /\ active' = {} /\ table # 0 /\ ~locked[table]
  BY <1>0, EndFacts, InvFacts
<1>2. /\ l \in Locks /\ QueuesAreSeqs'
      /\ \A k \in Locks : /\ IsInjective(waiters'[k])
                          /\ Range(waiters'[k]) = {n \in Msgs : pc'[n] = "waiting" /\ lockOf'[n] = k}
      /\ \A k \in Locks \ {l} : waiters'[k] = waiters[k]
      /\ \A k \in Locks : waiters[k] # <<>> /\ Head(waiters[k]) # m =>
           Head(waiters'[k]) = Head(waiters[k])
  <2>1. /\ pc[m] = "waiting" /\ waiters' = [waiters EXCEPT ![lockOf[m]] = Without(@, m)]
        /\ \A n \in Msgs \ {m} : pc'[n] = pc[n] /\ lockOf'[n] = lockOf[n]
        /\ pc'[m] # "waiting"
    BY <1>0, <1>1, InvFacts
  <2> QED BY <2>1, QueueLeft
<1> HIDE DEF l
<1>3. \A n \in woken' :
        /\ n \in Msgs /\ n # m /\ pc'[n] = "waiting"
        /\ \/ n \in woken
           \/ lockOf'[n] = l /\ ~locked[l] /\ n = Head(waiters'[l])
  <2> SUFFICES ASSUME NEW n \in woken'
               PROVE  /\ n \in Msgs /\ n # m /\ pc'[n] = "waiting"
                      /\ \/ n \in woken
                         \/ lockOf'[n] = l /\ ~locked[l] /\ n = Head(waiters'[l])
    OBVIOUS
  <2>1. CASE n \in woken \ {m}
    BY <1>1, <2>1, InvFacts
  <2>2. CASE ~locked[l] /\ n \in WakeFirst(waiters'[l])
    <3>1. waiters'[l] # <<>> /\ n = Head(waiters'[l])
      BY <2>2 DEF WakeFirst
    <3>2. waiters'[l] \in Seq(Msgs)
      BY <1>2 DEF QueuesAreSeqs
    <3>3. n \in Range(waiters'[l])
      BY <1>2, <3>1, <3>2, TailFacts
    <3> QED BY <1>1, <1>2, <2>2, <3>1, <3>3
  <2> QED BY <1>0, <2>1, <2>2 DEF l
<1>4. ReadyIsCreated'
  BY <1>0, <1>1, InvFacts DEF ReadyIsCreated
<1>5. TypeOK'
  BY <1>0, <1>1, <1>2, <1>3, <1>4, InvFacts DEF TypeOK, ReadyIsCreated
<1>6. HoldersHaveLock' /\ OneInside' /\ LiveIsActive'
  BY <1>0, <1>1, InvFacts DEF HoldersHaveLock, OneInside, LiveIsActive
<1>7. SameLock'
  BY <1>0, <1>1, <1>6, InvFacts, SameLockKept
<1>8. WokenIsFirst'
  <2> SUFFICES ASSUME NEW n \in woken' PROVE ~locked'[lockOf'[n]] /\ n = Head(waiters'[lockOf'[n]])
    BY DEF WokenIsFirst
  <2>1. CASE n \in woken
    <3>1. /\ n \in Msgs /\ n # m /\ lockOf'[n] = lockOf[n] /\ lockOf[n] \in Locks /\ pc[n] = "waiting"
          /\ n = Head(waiters[lockOf[n]]) /\ ~locked[lockOf[n]]
      BY <1>1, <1>3, <2>1, InvFacts DEF HoldersHaveLock, WokenIsFirst
    <3>2. waiters[lockOf[n]] # <<>>
      BY <3>1, InvFacts DEF Range
    <3> QED BY <1>0, <1>2, <3>1, <3>2
  <2>2. CASE n \notin woken
    BY <1>0, <1>3, <2>2
  <2> QED BY <2>1, <2>2
<1> QED BY <1>2, <1>4, <1>5, <1>6, <1>7, <1>8 DEF IInv

\* The turn ends: the lock is free, and the first in line is woken.
LEMMA LeaveKeeps ==
  ASSUME IInv, NEW m \in Msgs, Leave(m)
  PROVE  IInv'
<1> DEFINE l == lockOf[m]
<1>0. /\ pc[m] = "inside" /\ End(m, locked')
      /\ locked' = [locked EXCEPT ![lockOf[m]] = FALSE]
      /\ woken' = woken \cup WakeFirst(waiters[lockOf[m]])
      /\ UNCHANGED <<ready, waiters, drain>>
  BY DEF Leave
<1>1. /\ pc' \in [Actors -> {"new", "created", "waiting", "inside", "ended", "draining", "done"}]
      /\ pc'[m] \in {"ended", "done"} /\ \A a \in Actors \ {m} : pc'[a] = pc[a]
      /\ via' \in [Actors -> {"bus", "direct"}] /\ lockOf' \in [Msgs -> {0} \cup Locks]
      /\ \A n \in Msgs \ {m} : lockOf'[n] = lockOf[n]
      /\ cancel' \in {cancel, cancel \ {m}} /\ active' \in {active, active \ {m}}
      /\ \/ table' = table
         \/ table' = 0 /\ active' = {} /\ table # 0 /\ ~locked'[table]
  BY <1>0, EndFacts, InvFacts
<1>2. /\ l \in Locks /\ locked[l] /\ l = table /\ ~locked'[l]
      /\ \A n \in Msgs \ {m} : pc[n] # "inside"
  BY <1>0, InvFacts DEF HoldersHaveLock, SameLock, OneInside, TypeOK
<1> HIDE DEF l
<1>3. \A n \in WakeFirst(waiters[l]) : n \in Msgs /\ n # m /\ pc[n] = "waiting" /\ lockOf[n] = l
                                        /\ n = Head(waiters[l])
  <2> SUFFICES ASSUME NEW n \in WakeFirst(waiters[l])
               PROVE  n \in Msgs /\ n # m /\ pc[n] = "waiting" /\ lockOf[n] = l /\ n = Head(waiters[l])
    OBVIOUS
  <2>1. waiters[l] # <<>> /\ n = Head(waiters[l])
    BY DEF WakeFirst
  <2>2. n \in Range(waiters[l])
    BY <1>2, <2>1, InvFacts, TailFacts
  <2> QED BY <1>0, <1>2, <2>1, <2>2, InvFacts
<1>4. \A n \in woken : n \in Msgs /\ pc[n] = "waiting" /\ n # m /\ lockOf[n] \in Locks /\ lockOf[n] # l
  BY <1>0, <1>2, InvFacts DEF WokenIsFirst, HoldersHaveLock
<1>5. ReadyIsCreated'
  BY <1>0, <1>1, InvFacts DEF ReadyIsCreated
<1>6. TypeOK'
  <2>1. woken' \subseteq {n \in Msgs : pc'[n] = "waiting"}
    BY <1>0, <1>1, <1>3, <1>4, InvFacts DEF l
  <2>2. \A k \in Locks : Range(waiters'[k]) = {n \in Msgs : pc'[n] = "waiting" /\ lockOf'[n] = k}
    BY <1>0, <1>1, InvFacts
  <2> QED BY <1>0, <1>1, <1>5, <2>1, <2>2, InvFacts DEF TypeOK, ReadyIsCreated
<1>7. HoldersHaveLock' /\ OneInside' /\ LiveIsActive'
  BY <1>0, <1>1, <1>2, InvFacts DEF HoldersHaveLock, OneInside, LiveIsActive
<1>8. SameLock'
  BY <1>1, <1>7, InvFacts, SameLockKept
<1>9. WokenIsFirst'
  <2> SUFFICES ASSUME NEW n \in woken' PROVE ~locked'[lockOf'[n]] /\ n = Head(waiters'[lockOf'[n]])
    BY DEF WokenIsFirst
  <2>1. CASE n \in woken
    BY <1>0, <1>1, <1>4, <2>1, InvFacts DEF WokenIsFirst, TypeOK, l
  <2>2. CASE n \in WakeFirst(waiters[l])
    BY <1>0, <1>1, <1>2, <1>3, <2>2
  <2> QED BY <1>0, <2>1, <2>2 DEF l
<1>10. QueuesAreSeqs'
  BY <1>0, InvFacts DEF QueuesAreSeqs
<1> QED BY <1>5, <1>6, <1>7, <1>8, <1>9, <1>10 DEF IInv

LEMMA DoneCallbackKeeps ==
  ASSUME IInv, NEW m \in Msgs, DoneCallback(m)
  PROVE  IInv'
<1>0. /\ pc[m] = "ended" /\ Forget(m) /\ RemoveActive(m, locked)
      /\ UNCHANGED <<ready, locked, waiters, woken, drain>>
  BY DEF DoneCallback
<1>1. /\ pc' \in [Actors -> {"new", "created", "waiting", "inside", "ended", "draining", "done"}]
      /\ pc'[m] \in {"ended", "done"} /\ \A a \in Actors \ {m} : pc'[a] = pc[a]
      /\ via' \in [Actors -> {"bus", "direct"}] /\ lockOf' \in [Msgs -> {0} \cup Locks]
      /\ \A n \in Msgs \ {m} : lockOf'[n] = lockOf[n]
      /\ cancel' \in {cancel, cancel \ {m}} /\ active' \in {active, active \ {m}}
      /\ \/ table' = table
         \/ table' = 0 /\ active' = {} /\ table # 0 /\ ~locked[table]
  BY <1>0, EndFacts, InvFacts
<1>2. ReadyIsCreated' /\ QueuesAreSeqs'
  BY <1>0, <1>1, InvFacts DEF ReadyIsCreated, QueuesAreSeqs
<1>3. TypeOK'
  BY <1>0, <1>1, <1>2, InvFacts DEF TypeOK, ReadyIsCreated
<1>4. HoldersHaveLock' /\ OneInside' /\ LiveIsActive'
  BY <1>0, <1>1, InvFacts DEF HoldersHaveLock, OneInside, LiveIsActive
<1>5. SameLock'
  BY <1>0, <1>1, <1>4, InvFacts, SameLockKept
<1>6. WokenIsFirst'
  BY <1>0, <1>1, InvFacts DEF WokenIsFirst
<1> QED BY <1>2, <1>3, <1>4, <1>5, <1>6 DEF IInv

\* Stop commands start, skip and end: they move no message.
LEMMA StopKeeps ==
  ASSUME IInv, NEW s \in Stops,
         \/ \E how \in {"bus", "direct"} : Stop(s, how)
         \/ SkipOne(s) \/ StopEnds(s)
  PROVE  IInv'
<1>0. /\ UNCHANGED <<ready, lockOf, locked, waiters, woken>>
      /\ pc' \in [Actors -> {"new", "created", "waiting", "inside", "ended", "draining", "done"}]
      /\ \A m \in Msgs : pc'[m] = pc[m]
      /\ via' \in [Actors -> {"bus", "direct"}]
  BY InvFacts DEF Stop, SkipOne, StopEnds, TypeOK
<1>1. /\ active' \subseteq Actors /\ cancel' \subseteq Actors /\ drain' \in [Stops -> SUBSET Actors]
      /\ table' \in {0} \cup Locks
  <2>1. ASSUME NEW how \in {"bus", "direct"}, Stop(s, how)
        PROVE  /\ active' \subseteq Actors /\ cancel' \subseteq Actors
               /\ drain' \in [Stops -> SUBSET Actors] /\ table' \in {0} \cup Locks
    BY <2>1, InvFacts DEF Stop, TypeOK
  <2>2. CASE SkipOne(s)
    BY <2>2, InvFacts DEF SkipOne, TypeOK
  <2>3. CASE StopEnds(s)
    BY <2>3, InvFacts DEF StopEnds, RemoveActive, TypeOK
  <2> QED BY <2>1, <2>2, <2>3
<1>2. /\ \A m \in Msgs : m \in cancel => m \in cancel'
      /\ \A m \in Msgs : m \in active => \/ m \in active'
                                         \/ m \in cancel' \/ pc[m] \in {"ended", "done"}
      /\ \/ table' = table
         \/ table' = 0 /\ active' = {} /\ ~locked[table]
  <2>1. ASSUME NEW how \in {"bus", "direct"}, Stop(s, how)
        PROVE  /\ \A m \in Msgs : m \in cancel => m \in cancel'
               /\ \A m \in Msgs : m \in active => m \in cancel' \/ pc[m] \in {"ended", "done"}
               /\ table' = table
    BY <2>1, InvFacts DEF Stop, Over
  <2>2. CASE SkipOne(s)
    BY <2>2, InvFacts DEF SkipOne
  <2>3. CASE StopEnds(s)
    BY <2>3, InvFacts DEF StopEnds, RemoveActive
  <2> QED BY <2>1, <2>2, <2>3
<1>3. ReadyIsCreated' /\ QueuesAreSeqs'
  BY <1>0, InvFacts DEF ReadyIsCreated, QueuesAreSeqs
<1>4. TypeOK'
  BY <1>0, <1>1, <1>3, InvFacts DEF TypeOK, ReadyIsCreated
<1>5. HoldersHaveLock' /\ OneInside' /\ LiveIsActive'
  BY <1>0, <1>2, InvFacts DEF HoldersHaveLock, OneInside, LiveIsActive
<1>6. SameLock'
  BY <1>0, <1>2, <1>5, InvFacts, SameLockKept
<1>7. WokenIsFirst'
  BY <1>0, InvFacts DEF WokenIsFirst
<1> QED BY <1>3, <1>4, <1>5, <1>6, <1>7 DEF IInv

LEMMA StepInv == IInv /\ [Next]_vars => IInv'
<1> SUFFICES ASSUME IInv, [Next]_vars PROVE IInv'
  OBVIOUS
<1>1. CASE UNCHANGED vars
  BY <1>1 DEF IInv, TypeOK, ReadyIsCreated, QueuesAreSeqs, HoldersHaveLock, OneInside,
              WokenIsFirst, LiveIsActive, SameLock, vars
<1>2. CASE Begin
  BY <1>2, BeginKeeps
<1>3. ASSUME NEW m \in Msgs,
             \/ Deliver(m) \/ DirectArrive(m) \/ Resume(m)
             \/ CancelWaiting(m) \/ Leave(m) \/ DoneCallback(m)
      PROVE  IInv'
  BY <1>3, DeliverKeeps, DirectArriveKeeps, ResumeKeeps, CancelWaitingKeeps, LeaveKeeps,
     DoneCallbackKeeps
<1>4. ASSUME NEW s \in Stops,
             \/ \E how \in {"bus", "direct"} : Stop(s, how)
             \/ SkipOne(s) \/ StopEnds(s)
      PROVE  IInv'
  BY <1>4, StopKeeps
<1> QED BY <1>1, <1>2, <1>3, <1>4 DEF Next

LEMMA Invariant == Spec => []IInv
BY InitInv, StepInv, PTL DEF Spec, SafeSpec

-----------------------------------------------------------------------------
\* Registry, queues and lock objects keep their types (TypeOK): in particular
\* the queue of a lock object holds its waiting messages, each once.
THEOREM LocksType == Spec => []TypeOK
<1>1. IInv => TypeOK
  BY DEF IInv
<1> QED BY <1>1, Invariant, PTL

\* Whoever runs, or will run, holds the lock object a newcomer finds in the
\* table (SameLock), whatever stops, cancellations and ends came between.
THEOREM OneLockObject == Spec => []SameLock
<1>1. IInv => SameLock
  BY DEF IInv
<1> QED BY <1>1, Invariant, PTL

\* No two messages of a session key run at once (OneTurnAtATime).
THEOREM MutualExclusion == Spec => []OneTurnAtATime
<1>1. ASSUME OneInside
      PROVE  OneTurnAtATime
  <2> DEFINE S == {m \in Msgs : pc[m] = "inside"}
  <2>1. CASE S = {}
    BY <2>1, FS_EmptySet DEF OneTurnAtATime
  <2>2. CASE S # {}
    <3>1. PICK m \in S : S = {m}
      BY <1>1, <2>2 DEF OneInside
    <3>2. Cardinality({m}) = 1
      BY FS_Singleton
    <3> QED BY <3>1, <3>2 DEF OneTurnAtATime
  <2> QED BY <2>1, <2>2
<1>2. IInv => OneTurnAtATime
  BY <1>1 DEF IInv
<1> QED BY <1>2, Invariant, PTL

-----------------------------------------------------------------------------
(* Arrival order.                                                          *)

\* Who waits or runs has asked for the lock, once.
Asked ==
  /\ arrived \in Seq(Msgs) /\ IsInjective(arrived)
  /\ \A m \in Range(arrived) : pc[m] \notin {"new", "created"}
  /\ \A m \in Msgs : pc[m] \in {"waiting", "inside"} => m \in Range(arrived)

\* Each lock object's queue is in arrival order.
QueuesInOrder ==
  \A l \in Locks : \A i, j \in DOMAIN waiters[l] :
    i < j => Earlier(arrived, waiters[l][i], waiters[l][j])

OrderInv ==
  /\ Asked /\ QueuesInOrder /\ InOrder
  /\ entered \in Seq(Msgs) /\ Range(entered) \subseteq Range(arrived)

\* Who has asked has so in a step by which nobody asks or starts to.
LEMMA AskedStays ==
  ASSUME Asked, UNCHANGED arrived,
         \A n \in Msgs : /\ pc'[n] \in {"waiting", "inside"} => pc[n] \in {"waiting", "inside"}
                         /\ pc'[n] \in {"new", "created"} => pc[n] \in {"new", "created"}
  PROVE  Asked'
<1>1. Range(arrived') = Range(arrived) /\ Range(arrived) \subseteq Msgs /\ IsInjective(arrived')
  BY DEF Asked, Range
<1>2. arrived' \in Seq(Msgs)
  BY DEF Asked
<1>3. \A n \in Range(arrived') : pc'[n] \notin {"new", "created"}
  BY <1>1 DEF Asked
<1>4. \A n \in Msgs : pc'[n] \in {"waiting", "inside"} => n \in Range(arrived')
  BY <1>1 DEF Asked
<1> QED BY <1>1, <1>2, <1>3, <1>4 DEF Asked

\* Arriving later changes nothing for those who have arrived, who are all
\* earlier.
LEMMA EarlierAppend ==
  ASSUME NEW S, NEW s \in Seq(S), NEW m \in S
  PROVE  /\ \A n, w : Earlier(s, n, w) => Earlier(Append(s, m), n, w)
         /\ \A n \in Range(s) : Earlier(Append(s, m), n, m)
<1>1. /\ Len(Append(s, m)) = Len(s) + 1 /\ DOMAIN Append(s, m) = 1..(Len(s) + 1)
      /\ \A i \in 1..Len(s) : Append(s, m)[i] = s[i]
      /\ Append(s, m)[Len(s) + 1] = m
      /\ DOMAIN s = 1..Len(s) /\ Len(s) \in Nat
  OBVIOUS
<1>2. ASSUME NEW n, NEW w, Earlier(s, n, w)
      PROVE  Earlier(Append(s, m), n, w)
  BY <1>1, <1>2 DEF Earlier
<1>3. ASSUME NEW n \in Range(s)
      PROVE  Earlier(Append(s, m), n, m)
  <2>1. PICK i \in 1..Len(s) : s[i] = n
    BY <1>1 DEF Range
  <2>2. /\ i \in DOMAIN Append(s, m) /\ Len(s) + 1 \in DOMAIN Append(s, m) /\ i < Len(s) + 1
        /\ Append(s, m)[i] = n
    BY <1>1, <2>1
  <2> QED BY <1>1, <2>2 DEF Earlier
<1> QED BY <1>2, <1>3

\* A queue that somebody joins stays in order, if all in it are earlier.
LEMMA OrderedAppend ==
  ASSUME NEW ws \in Seq(Msgs), NEW s \in Seq(Msgs), NEW m \in Msgs, Range(ws) \subseteq Range(s),
         \A i, j \in DOMAIN ws : i < j => Earlier(s, ws[i], ws[j])
  PROVE  \A i, j \in DOMAIN Append(ws, m) :
           i < j => Earlier(Append(s, m), Append(ws, m)[i], Append(ws, m)[j])
<1> SUFFICES ASSUME NEW i \in DOMAIN Append(ws, m), NEW j \in DOMAIN Append(ws, m), i < j
             PROVE  Earlier(Append(s, m), Append(ws, m)[i], Append(ws, m)[j])
  OBVIOUS
<1>1. /\ i \in 1..Len(ws) /\ Append(ws, m)[i] = ws[i] /\ DOMAIN ws = 1..Len(ws)
      /\ \/ j \in 1..Len(ws) /\ Append(ws, m)[j] = ws[j]
         \/ Append(ws, m)[j] = m
  OBVIOUS
<1>2. ws[i] \in Range(s)
  BY <1>1 DEF Range
<1> QED BY <1>1, <1>2, EarlierAppend

\* Who leaves a queue leaves the others in their order.
LEMMA OrderedWithout ==
  ASSUME NEW ws \in Seq(Msgs), NEW s, NEW m \in Range(ws),
         \A i, j \in DOMAIN ws : i < j => Earlier(s, ws[i], ws[j])
  PROVE  \A i, j \in DOMAIN Without(ws, m) :
           i < j => Earlier(s, Without(ws, m)[i], Without(ws, m)[j])
<1> DEFINE k == CHOOSE k \in DOMAIN ws : ws[k] = m
           out == Without(ws, m)
<1>1. k \in 1..Len(ws) /\ DOMAIN ws = 1..Len(ws) /\ Len(ws) \in Nat \ {0}
  BY DEF Range
<1>2. out = [j \in 1..(Len(ws) - 1) |-> IF j < k THEN ws[j] ELSE ws[j + 1]]
  BY DEF Without
<1> HIDE DEF k, out
<1> SUFFICES ASSUME NEW i \in DOMAIN out, NEW j \in DOMAIN out, i < j
             PROVE  Earlier(s, out[i], out[j])
  BY DEF out
<1> DEFINE at(x) == IF x < k THEN x ELSE x + 1
<1>3. /\ out[i] = ws[at(i)] /\ out[j] = ws[at(j)]
      /\ at(i) \in DOMAIN ws /\ at(j) \in DOMAIN ws /\ at(i) < at(j)
  BY <1>1, <1>2
<1> QED BY <1>3

\* The first in a queue that is in order is earlier than the others.
LEMMA HeadIsFirst ==
  ASSUME NEW ws \in Seq(Msgs), NEW s, NEW w \in Range(ws), w # Head(ws),
         \A i, j \in DOMAIN ws : i < j => Earlier(s, ws[i], ws[j])
  PROVE  Earlier(s, Head(ws), w)
<1>1. PICK j \in DOMAIN ws : ws[j] = w
  BY DEF Range
<1>2. 1 \in DOMAIN ws /\ 1 < j /\ Head(ws) = ws[1]
  BY <1>1
<1> QED BY <1>1, <1>2

\* Asking for the lock: the newcomer is the last in arrival order, and gets the
\* lock at once only when nobody waits but the cancelled.
LEMMA AcquireOrdered ==
  ASSUME IInv, OrderInv, NEW m \in Msgs, Acquire(m), pc[m] \in {"new", "created"}, UNCHANGED cancel
  PROVE  OrderInv'
<1>0. /\ Asked /\ QueuesInOrder /\ InOrder
      /\ arrived \in Seq(Msgs) /\ IsInjective(arrived) /\ m \notin Range(arrived)
      /\ entered \in Seq(Msgs) /\ Range(entered) \subseteq Range(arrived)
      /\ m \in Actors /\ Msgs \subseteq Actors
  BY InvFacts DEF OrderInv, Asked
<1>1. PICK l \in Locks :
        /\ Lookup(l) /\ lockOf' = [lockOf EXCEPT ![m] = l]
        /\ \/ /\ ~locked[l] /\ \A w \in Range(waiters[l]) : w \in cancel /\ w \notin woken
              /\ pc' = [pc EXCEPT ![m] = "inside"]
              /\ entered' = Append(entered, m)
              /\ UNCHANGED waiters
           \/ /\ pc' = [pc EXCEPT ![m] = "waiting"]
              /\ waiters' = [waiters EXCEPT ![l] = Append(@, m)]
              /\ UNCHANGED entered
  BY DEF Acquire
<1>2. /\ arrived' = Append(arrived, m)
      /\ arrived' \in Seq(Msgs) /\ IsInjective(arrived') /\ Range(arrived') = Range(arrived) \cup {m}
      /\ \A n, w : Earlier(arrived, n, w) => Earlier(arrived', n, w)
      /\ \A n \in Range(arrived) : Earlier(arrived', n, m)
  BY <1>0, AppendFacts, EarlierAppend DEF Acquire
<1>3. /\ pc'[m] \in {"waiting", "inside"} /\ \A n \in Msgs \ {m} : pc'[n] = pc[n]
  BY <1>0, <1>1, InvFacts
<1>4. Asked'
  <2>1. \A n \in Range(arrived') : n \in Msgs /\ pc'[n] \notin {"new", "created"}
    BY <1>0, <1>2, <1>3 DEF Asked, Range
  <2> QED BY <1>0, <1>2, <1>3, <2>1 DEF Asked
<1>5. CASE /\ ~locked[l] /\ \A w \in Range(waiters[l]) : w \in cancel /\ w \notin woken
           /\ pc' = [pc EXCEPT ![m] = "inside"]
           /\ entered' = Append(entered, m)
           /\ UNCHANGED waiters
  <2>1. QueuesInOrder'
    BY <1>0, <1>2, <1>5 DEF QueuesInOrder
  <2>2. \A w \in Msgs : ~(pc'[w] = "waiting" /\ w \notin cancel')
    <3> SUFFICES ASSUME NEW w \in Msgs, pc'[w] = "waiting", w \notin cancel
                 PROVE  FALSE
      OBVIOUS
    <3>1. w # m /\ pc[w] = "waiting"
      BY <1>0, <1>3, <1>5, InvFacts
    <3>2. lockOf[w] = table /\ lockOf[w] \in Locks
      BY <3>1, InvFacts DEF SameLock, HoldersHaveLock
    <3>3. lockOf[w] = l
      BY <1>1, <3>2, LocksArePositive DEF Lookup
    <3> QED BY <1>5, <3>1, <3>3, InvFacts
  <2>3. /\ entered' \in Seq(Msgs) /\ Range(entered') \subseteq Range(arrived')
        /\ \A i, j \in DOMAIN entered' : i < j => Earlier(arrived', entered'[i], entered'[j])
    <3>1. \A i, j \in DOMAIN entered : i < j => Earlier(arrived, entered[i], entered[j])
      BY <1>0 DEF InOrder
    <3>2. \A i, j \in DOMAIN entered' : i < j => Earlier(arrived', entered'[i], entered'[j])
      BY <1>0, <1>2, <1>5, <3>1, OrderedAppend
    <3>3. \A n \in Range(entered') : n \in Range(entered) \/ n = m
      BY <1>0, <1>5 DEF Range
    <3> QED BY <1>0, <1>2, <1>5, <3>2, <3>3
  <2> QED BY <1>2, <1>4, <2>1, <2>2, <2>3 DEF OrderInv, InOrder
<1>6. CASE /\ pc' = [pc EXCEPT ![m] = "waiting"]
           /\ waiters' = [waiters EXCEPT ![l] = Append(@, m)]
           /\ UNCHANGED entered
  <2>1. QueuesInOrder'
    <3> SUFFICES ASSUME NEW k \in Locks
                 PROVE  \A i, j \in DOMAIN waiters'[k] :
                          i < j => Earlier(arrived', waiters'[k][i], waiters'[k][j])
      BY DEF QueuesInOrder
    <3>1. \A i, j \in DOMAIN waiters[k] : i < j => Earlier(arrived, waiters[k][i], waiters[k][j])
      BY <1>0 DEF QueuesInOrder
    <3>2. CASE k # l
      BY <1>2, <1>6, <3>1, <3>2, InvFacts DEF QueuesAreSeqs
    <3>3. CASE k = l
      <4>1. waiters'[k] = Append(waiters[k], m) /\ waiters[k] \in Seq(Msgs)
        BY <1>6, <3>3, InvFacts DEF QueuesAreSeqs
      <4>2. Range(waiters[k]) \subseteq Range(arrived)
        BY <1>0, InvFacts DEF Asked
      <4> QED BY <1>0, <1>2, <3>1, <4>1, <4>2, OrderedAppend
    <3> QED BY <3>2, <3>3
  <2>2. InOrder'
    <3>1. ASSUME NEW w \in Msgs, pc'[w] = "waiting", w \notin cancel', NEW n \in Range(entered')
          PROVE  Earlier(arrived', n, w)
      <4>1. CASE w = m
        BY <1>0, <1>2, <1>6, <3>1, <4>1
      <4>2. CASE w # m
        BY <1>0, <1>2, <1>3, <1>6, <3>1, <4>2 DEF InOrder
      <4> QED BY <4>1, <4>2
    <3>2. \A i, j \in DOMAIN entered' : i < j => Earlier(arrived', entered'[i], entered'[j])
      BY <1>0, <1>2, <1>6 DEF InOrder
    <3> QED BY <1>2, <3>1, <3>2 DEF InOrder
  <2> QED BY <1>0, <1>2, <1>4, <1>6, <2>1, <2>2 DEF OrderInv
<1> QED BY <1>1, <1>5, <1>6

\* The waiter that takes the lock is the first of the queue all the others wait
\* in, and later than all who had it.
LEMMA ResumeOrdered ==
  ASSUME IInv, OrderInv, NEW m \in Msgs, Resume(m)
  PROVE  OrderInv'
<1>0. /\ Asked /\ QueuesInOrder /\ InOrder
      /\ entered \in Seq(Msgs) /\ Range(entered) \subseteq Range(arrived)
      /\ pc[m] = "waiting" /\ m \in woken /\ m \notin cancel
      /\ pc'[m] = "inside" /\ \A n \in Msgs \ {m} : pc'[n] = pc[n]
      /\ waiters' = [waiters EXCEPT ![lockOf[m]] = Without(@, m)]
      /\ entered' = Append(entered, m)
      /\ UNCHANGED <<cancel, arrived>>
  BY InvFacts DEF OrderInv, Resume
<1>1. /\ lockOf[m] = table /\ lockOf[m] \in Locks
      /\ m = Head(waiters[table]) /\ m \in Range(waiters[table])
  BY <1>0, InvFacts DEF SameLock, HoldersHaveLock, WokenIsFirst
<1>2. m \in Range(arrived)
  BY <1>0 DEF Asked
<1>3. Asked'
  <2>1. \A n \in Msgs : /\ pc'[n] \in {"waiting", "inside"} => pc[n] \in {"waiting", "inside"}
                        /\ pc'[n] \in {"new", "created"} => pc[n] \in {"new", "created"}
    BY <1>0
  <2> QED BY <1>0, <2>1, AskedStays
<1>4. QueuesInOrder'
  <2> SUFFICES ASSUME NEW k \in Locks
               PROVE  \A i, j \in DOMAIN waiters'[k] :
                        i < j => Earlier(arrived, waiters'[k][i], waiters'[k][j])
    BY <1>0 DEF QueuesInOrder
  <2>1. waiters'[k] = IF k = table THEN Without(waiters[k], m) ELSE waiters[k]
    BY <1>0, <1>1, InvFacts DEF QueuesAreSeqs
  <2>2. \A i, j \in DOMAIN waiters[k] : i < j => Earlier(arrived, waiters[k][i], waiters[k][j])
    BY <1>0 DEF QueuesInOrder
  <2> QED BY <1>1, <2>1, <2>2, InvFacts, OrderedWithout
<1>5. ASSUME NEW w \in Msgs, pc'[w] = "waiting", w \notin cancel
      PROVE  /\ Earlier(arrived, m, w)
             /\ \A n \in Range(entered) : Earlier(arrived, n, w)
  <2>1. w # m /\ pc[w] = "waiting" /\ lockOf[w] = table
    BY <1>0, <1>5, InvFacts DEF SameLock
  <2>2. w \in Range(waiters[table])
    BY <1>1, <2>1, InvFacts
  <2>3. Earlier(arrived, m, w)
    <3>1. \A i, j \in DOMAIN waiters[table] :
            i < j => Earlier(arrived, waiters[table][i], waiters[table][j])
      BY <1>0, <1>1 DEF QueuesInOrder
    <3>2. waiters[table] \in Seq(Msgs)
      BY <1>1, InvFacts
    <3>3. Earlier(arrived, Head(waiters[table]), w)
      BY <1>1, <2>1, <2>2, <3>1, <3>2, HeadIsFirst
    <3> QED BY <1>1, <3>3
  <2> QED BY <1>0, <1>5, <2>1, <2>3 DEF InOrder
<1>6. \A n \in Range(entered') : n \in Range(entered) \/ n = m
  BY <1>0 DEF Range
<1>7. \A i, j \in DOMAIN entered' : i < j => Earlier(arrived, entered'[i], entered'[j])
  <2> SUFFICES ASSUME NEW i \in DOMAIN entered', NEW j \in DOMAIN entered', i < j
               PROVE  Earlier(arrived, entered'[i], entered'[j])
    OBVIOUS
  <2>1. /\ i \in DOMAIN entered /\ entered'[i] = entered[i]
        /\ \/ j \in DOMAIN entered /\ entered'[j] = entered[j]
           \/ entered'[j] = m
    BY <1>0
  <2>2. entered[i] \in Range(entered)
    BY <2>1 DEF Range
  <2> QED BY <1>0, <2>1, <2>2 DEF InOrder
<1>8. InOrder'
  BY <1>0, <1>3, <1>5, <1>6, <1>7 DEF InOrder, Asked
<1> QED BY <1>0, <1>2, <1>3, <1>4, <1>6, <1>8 DEF OrderInv

\* Nobody else moves up: the other steps take messages out of the queues and
\* cancel them, but bring none back.
LEMMA OthersOrdered ==
  ASSUME IInv, OrderInv, UNCHANGED <<arrived, entered>>,
         \A m \in Msgs : /\ pc'[m] \in {"waiting", "inside"} => pc'[m] = pc[m]
                         /\ pc'[m] \in {"new", "created"} => pc[m] \in {"new", "created"}
                         /\ pc'[m] = "waiting" /\ m \notin cancel' => m \notin cancel,
         \/ UNCHANGED waiters
         \/ \E m \in Msgs : /\ pc[m] = "waiting"
                            /\ waiters' = [waiters EXCEPT ![lockOf[m]] = Without(@, m)]
  PROVE  OrderInv'
<1>0. /\ Asked /\ QueuesInOrder /\ InOrder
      /\ entered \in Seq(Msgs) /\ Range(entered) \subseteq Range(arrived)
  BY DEF OrderInv
<1>1. Asked'
  BY <1>0, AskedStays
<1>2. QueuesInOrder'
  <2>1. CASE UNCHANGED waiters
    BY <1>0, <2>1 DEF QueuesInOrder
  <2>2. ASSUME NEW m \in Msgs, pc[m] = "waiting",
               waiters' = [waiters EXCEPT ![lockOf[m]] = Without(@, m)]
        PROVE  QueuesInOrder'
    <3> SUFFICES ASSUME NEW k \in Locks
                 PROVE  \A i, j \in DOMAIN waiters'[k] :
                          i < j => Earlier(arrived, waiters'[k][i], waiters'[k][j])
      BY DEF QueuesInOrder
    <3>1. waiters'[k] = IF k = lockOf[m] THEN Without(waiters[k], m) ELSE waiters[k]
      BY <2>2, InvFacts DEF QueuesAreSeqs
    <3>2. /\ \A i, j \in DOMAIN waiters[k] : i < j => Earlier(arrived, waiters[k][i], waiters[k][j])
          /\ k = lockOf[m] => m \in Range(waiters[k])
      BY <1>0, <2>2, InvFacts DEF QueuesInOrder
    <3> QED BY <3>1, <3>2, InvFacts, OrderedWithout
  <2> QED BY <2>1, <2>2
<1>3. InOrder'
  BY <1>0 DEF InOrder
<1> QED BY <1>0, <1>1, <1>2, <1>3 DEF OrderInv

LEMMA InitOrdered == Init => OrderInv
<1> SUFFICES ASSUME Init PROVE OrderInv
  OBVIOUS
<1>1. Range(<<>>) = {} /\ IsInjective(<<>>) /\ DOMAIN <<>> = {}
  BY DEF Range, IsInjective
<1> QED BY <1>1 DEF Init, OrderInv, Asked, QueuesInOrder, InOrder, Actors

LEMMA StepOrdered == IInv /\ OrderInv /\ [Next]_vars => OrderInv'
<1> SUFFICES ASSUME IInv, OrderInv, [Next]_vars PROVE OrderInv'
  OBVIOUS
<1>1. CASE Begin
  <2> DEFINE m == Head(ready)
  <2>1. m \in Msgs /\ pc[m] = "created"
    BY <1>1, InvFacts, TailFacts DEF Begin, ReadyIsCreated
  <2>2. CASE m \in cancel
    <3>1. /\ pc'[m] = "ended" /\ \A n \in Msgs \ {m} : pc'[n] = pc[n]
          /\ UNCHANGED <<cancel, waiters, arrived, entered>>
      BY <1>1, <2>1, <2>2, InvFacts DEF Begin
    <3> QED BY <3>1, OthersOrdered
  <2>3. CASE m \notin cancel
    BY <1>1, <2>1, <2>3, AcquireOrdered DEF Begin
  <2> QED BY <2>2, <2>3
<1>2. ASSUME NEW m \in Msgs, DirectArrive(m)
      PROVE  OrderInv'
  BY <1>2, AcquireOrdered DEF DirectArrive
<1>3. ASSUME NEW m \in Msgs, Resume(m)
      PROVE  OrderInv'
  BY <1>3, ResumeOrdered
<1>4. ASSUME NEW m \in Msgs, Deliver(m)
      PROVE  OrderInv'
  <2>1. /\ pc[m] = "new" /\ pc'[m] = "created" /\ \A n \in Msgs \ {m} : pc'[n] = pc[n]
        /\ UNCHANGED <<cancel, waiters, arrived, entered>>
    BY <1>4, InvFacts DEF Deliver
  <2> QED BY <2>1, OthersOrdered
<1>5. ASSUME NEW m \in Msgs, NEW lks, End(m, lks) \/ (Forget(m) /\ RemoveActive(m, lks)),
             UNCHANGED <<arrived, entered>>,
             \/ UNCHANGED waiters
             \/ /\ pc[m] = "waiting"
                /\ waiters' = [waiters EXCEPT ![lockOf[m]] = Without(@, m)]
      PROVE  OrderInv'
  <2>1. /\ pc'[m] \in {"ended", "done"} /\ \A n \in Msgs \ {m} : pc'[n] = pc[n]
        /\ cancel' \in {cancel, cancel \ {m}}
    BY <1>5, EndFacts, InvFacts
  <2> QED BY <1>5, <2>1, OthersOrdered
<1>6. ASSUME NEW m \in Msgs, CancelWaiting(m) \/ Leave(m) \/ DoneCallback(m)
      PROVE  OrderInv'
  BY <1>5, <1>6 DEF CancelWaiting, Leave, DoneCallback
<1>7. ASSUME NEW s \in Stops,
             \/ \E how \in {"bus", "direct"} : Stop(s, how)
             \/ SkipOne(s) \/ StopEnds(s)
      PROVE  OrderInv'
  <2>1. /\ UNCHANGED <<waiters, arrived, entered>>
        /\ \A m \in Msgs : pc'[m] = pc[m] /\ (m \in cancel => m \in cancel')
    BY <1>7, InvFacts DEF Stop, SkipOne, StopEnds
  <2> QED BY <2>1, OthersOrdered
<1>8. CASE UNCHANGED vars
  BY <1>8, OthersOrdered DEF vars
<1> QED BY <1>1, <1>2, <1>3, <1>4, <1>6, <1>7, <1>8 DEF Next

\* The messages of a session run in the order they asked for the lock, whoever is
\* cancelled while waiting and however often the lock object is replaced: no
\* later message overtakes a waiting one (_dispatch, process_direct).
THEOREM ArrivalOrder == Spec => []InOrder
<1>1. OrderInv => InOrder
  BY DEF OrderInv
<1> QED BY <1>1, InitOrdered, StepOrdered, Invariant, PTL DEF Spec, SafeSpec

-----------------------------------------------------------------------------
(* The objects of a session and their file                                 *)

\* An object the gateway works on.
Works(o) ==
  \/ o = turn.obj
  \/ \E b \in Bgs : bg[b].obj = o
  \/ \E s \in GatewaySavers : saver[s].obj = o

\* One that may yet be saved: he works on it, or his next lookup finds it.
Live(o) == o # NoObj /\ (Works(o) \/ (Hit("gateway") /\ o = cache["gateway"]))

\* The objects each process refers to, current or not.
OfGateway(o) == o # NoObj /\ (Works(o) \/ o = cache["gateway"])
OfWeb(o) == o # NoObj /\ (o = cache["webui"] \/ o = saver["webui"].obj)

\* Who is idle refers to no object; a file that is not there is empty.
Records ==
  /\ turn.pc = "idle" <=> turn.obj = NoObj
  /\ \A b \in Bgs : bg[b].pc = "none" <=> bg[b].obj = NoObj
  /\ \A s \in Savers : saver[s].pc = "idle" <=> saver[s].obj = NoObj
  /\ ~file.exists => file = NoFile
  /\ "torn" \notin hazards => ~file.torn

\* The two processes never share an object: each has its own PackManager.
Apart == \A o \in Objs : ~(OfGateway(o) /\ OfWeb(o))

\* What each disturbance that has not happened rules out: a save of the WebUI during
\* work of the gateway, two saves of the gateway at once, two objects in the gateway.
Alone ==
  /\ "foreign" \notin hazards => saver["webui"].pc = "idle" \/ ~GatewayBusy
  /\ "overlap" \notin hazards =>
       \A s, t \in GatewaySavers : saver[s].pc # "idle" /\ saver[t].pc # "idle" => s = t
  /\ "split" \notin hazards => \A o, q \in Objs : OfGateway(o) /\ OfGateway(q) => o = q

\* The session a save decided on is still the object's, so save() may write it twice.
Snapshots ==
  \A s \in Savers : saver[s].pc # "idle" /\ (s = "webui" \/ "overlap" \notin hazards) =>
    obj[saver[s].obj] = saver[s].now

\* One background task calls the model at a time, and for something there is to do;
\* an undisturbed /new runs beside no background task.
Tasks ==
  /\ \A b, d \in Bgs : bg[b].pc = "calling" /\ bg[d].pc = "calling" => b = d
  /\ \A c \in Consolidators : bg[c].pc = "calling" => obj[bg[c].obj].cons < bg[c].n
  /\ \A l \in Learners : bg[l].pc \in {"waiting", "calling"} => bg[l].n > 0
  /\ turn.pc = "clearing" /\ "cleared" \notin hazards => \A b \in Bgs : bg[b].pc = "none"
  /\ turn.pc = "clearing" /\ "overlap" \notin hazards /\ "cleared" \notin hazards =>
       saver["late"].pc = "idle" /\ saver["loop"].pc = "idle"

\* No cursor of what has been summarised is past the end, wherever a session is held.
Cursors ==
  "cleared" \notin hazards =>
    /\ file.cons <= Len(file.msgs)
    /\ \A o \in Objs : obj[o].cons <= Len(obj[o].msgs)
    /\ \A s \in Savers : saver[s].now.cons <= Len(saver[s].now.msgs)
    /\ \A c \in Consolidators : bg[c].pc = "calling" => bg[c].n <= Len(obj[bg[c].obj].msgs)

\* A session is private only once the WebUI has hidden it.
Open == "hidden" \notin hazards => \A o \in Objs : ~obj[o].private

\* No file is deleted under a save that appends to it or notes its mtime.
Written ==
  \A s \in Savers :
    /\ "foreign" \notin hazards \/ s = "webui" =>
        (saver[s].pc = "note" \/ (saver[s].pc = "write" /\ saver[s].append) => file.exists)

-----------------------------------------------------------------------------
(* Types                                                                   *)

LEMMA EmptyTypes ==
  /\ EmptySession \in SessionType /\ NoFile \in FileType /\ Unknown \in KnownType
  /\ Idle \in SaverType
<1>1. <<>> \in Seq(1..MaxMsgs)
  OBVIOUS
<1>2. EmptySession \in SessionType
  BY <1>1 DEF EmptySession, SessionType
<1> QED BY <1>1, <1>2 DEF NoFile, FileType, Unknown, KnownType, Idle, SaverType

LEMMA LoadedType ==
  ASSUME SessionTypes
  PROVE  Loaded \in SessionType
<1>1. file \in FileType
  BY DEF SessionTypes
<1> QED BY <1>1, EmptyTypes DEF Loaded, FileType, SessionType

LEMMA ContentType ==
  ASSUME SessionTypes, NEW p \in Procs
  PROVE  Content(p) \in SessionType
<1>1. obj \in [Objs -> SessionType] /\ cache[p] \in Objs \cup {NoObj}
  BY DEF SessionTypes
<1> QED BY <1>1, LoadedType DEF Content, Hit

LEMMA SubSeqType ==
  ASSUME NEW S, NEW q \in Seq(S), NEW m \in Nat \ {0}
  PROVE  SubSeq(q, m, Len(q)) \in Seq(S)
<1>1. \A i \in m..Len(q) : q[i] \in S
  OBVIOUS
<1>2. m \in Int /\ Len(q) \in Int
  OBVIOUS
<1> QED BY <1>1, <1>2, SubSeqProperties

LEMMA PrefixType ==
  ASSUME NEW S, NEW q \in Seq(S), NEW n \in 0..Len(q)
  PROVE  /\ SubSeq(q, 1, n) \in Seq(S) /\ Len(SubSeq(q, 1, n)) = n
         /\ \A i \in 1..n : SubSeq(q, 1, n)[i] = q[i]
<1>1. \A i \in 1..n : q[i] \in S
  OBVIOUS
<1>2. 1 \in Int /\ n \in Int
  OBVIOUS
<1>3. /\ SubSeq(q, 1, n) \in Seq(S)
      /\ Len(SubSeq(q, 1, n)) = IF 1 <= n THEN n - 1 + 1 ELSE 0
      /\ \A i \in 1 .. n - 1 + 1 : SubSeq(q, 1, n)[i] = q[1 + i - 1]
  BY <1>1, <1>2, SubSeqProperties
<1> QED BY <1>3

LEMMA DecidedType ==
  ASSUME NEW k \in KnownType, NEW o \in Objs, NEW s \in SessionType
  PROVE  Decided(k, o, s) \in SaverType
<1>1. s.msgs \in Seq(1..MaxMsgs) /\ k.count + 1 \in Nat \ {0} /\ Len(s.msgs) \in Nat
  BY DEF SessionType, KnownType
<1>2. SubSeq(s.msgs, k.count + 1, Len(s.msgs)) \in Seq(1..MaxMsgs)
  BY <1>1, SubSeqType
<1>3. CanAppend(k, s) \in BOOLEAN
  BY DEF CanAppend
<1> DEFINE app == CanAppend(k, s)
           lines == IF app THEN SubSeq(s.msgs, k.count + 1, Len(s.msgs)) ELSE s.msgs
           at == IF app /\ Len(s.msgs) = k.count THEN "note" ELSE "write"
<1>4. lines \in Seq(1..MaxMsgs) /\ at \in {"idle", "write", "note"} /\ app \in BOOLEAN
  BY <1>1, <1>2, <1>3
<1>5. Decided(k, o, s) = [pc |-> at, obj |-> o, append |-> app, now |-> s, lines |-> lines]
  BY Zenon DEF Decided
<1> HIDE DEF app, lines, at
<1> QED BY <1>4, <1>5 DEF SaverType

LEMMA AppendedType ==
  ASSUME SessionTypes, NEW q \in Seq(1..MaxMsgs)
  PROVE  Appended(q) \in FileType
<1>1. file \in FileType /\ file.msgs \in Seq(1..MaxMsgs)
  BY DEF SessionTypes, FileType
<1>2. file.msgs \o q \in Seq(1..MaxMsgs)
  BY <1>1, ConcatProperties
<1> QED BY <1>1, <1>2 DEF Appended, FileType

LEMMA AgedType ==
  ASSUME SessionTypes
  PROVE  Aged \in [Procs -> {"current", "old", "none"}]
BY DEF SessionTypes, Aged

\* The number of the next message.
LEMMA NextMessage ==
  ASSUME SessionTypes, left.msgs > 0
  PROVE  MaxMsgs - left.msgs + 1 \in 1..MaxMsgs /\ left.msgs - 1 \in 0..MaxMsgs
BY LimitsAssumption DEF SessionTypes

LEMMA FewerTroubles ==
  ASSUME SessionTypes, left.troubles > 0
  PROVE  [left EXCEPT !.troubles = @ - 1] \in [msgs : 0..MaxMsgs, troubles : 0..MaxTroubles]
<1>1. left.troubles - 1 \in 0..MaxTroubles
  BY LimitsAssumption DEF SessionTypes
<1> QED BY <1>1 DEF SessionTypes

LEMMA NewObjIsObj ==
  ASSUME SessionTypes, NEW p \in Procs, NEW o \in Objs, IsLookup(p, o)
  PROVE  Hit(p) => o = cache[p]
BY DEF IsLookup

LEMMA GetTypes ==
  ASSUME SessionTypes, NEW p \in Procs, NEW o \in Objs, GetOrCreate(p, o)
  PROVE  /\ cache' \in [Procs -> Objs \cup {NoObj}]
         /\ stamp' \in [Procs -> {"current", "old", "none"}]
         /\ known' \in [Procs -> KnownType]
<1>1. /\ cache \in [Procs -> Objs \cup {NoObj}]
      /\ stamp \in [Procs -> {"current", "old", "none"}]
      /\ known \in [Procs -> KnownType]
  BY DEF SessionTypes
<1>2. CASE Hit(p)
  BY <1>1, <1>2 DEF GetOrCreate
<1>3. CASE ~Hit(p)
  <2>1. Loaded \in SessionType
    BY LoadedType
  <2>2. [known |-> TRUE, count |-> Len(Loaded.msgs), cons |-> Loaded.cons,
             learned |-> Loaded.learned, rev |-> Loaded.rev] \in KnownType
    BY <2>1 DEF SessionType, KnownType
  <2> QED BY <1>1, <1>3, <2>2 DEF GetOrCreate
<1> QED BY <1>2, <1>3

LEMMA TypesTurnOpens ==
  ASSUME SessionTypes, TurnOpens
  PROVE  SessionTypes'
<1>1. PICK o \in Objs : /\ GetOrCreate("gateway", o)
                        /\ obj' = [obj EXCEPT ![o] = Content("gateway")]
                        /\ turn' = [pc |-> "open", obj |-> o]
  BY DEF TurnOpens
<1>2. Content("gateway") \in SessionType
  BY ContentType DEF Procs
<1>3. obj' \in [Objs -> SessionType]
  BY <1>1, <1>2 DEF SessionTypes
<1>4. /\ cache' \in [Procs -> Objs \cup {NoObj}]
      /\ stamp' \in [Procs -> {"current", "old", "none"}]
      /\ known' \in [Procs -> KnownType]
  BY <1>1, GetTypes DEF Procs
<1>5. hazards' \subseteq {"overlap", "split", "foreign", "cleared", "hidden", "failed", "torn"}
  BY DEF TurnOpens, SessionTypes, Split
<1>6. turn' \in TurnType
  BY <1>1 DEF TurnType
<1> QED BY <1>3, <1>4, <1>5, <1>6 DEF TurnOpens, SessionTypes

LEMMA TypesTurnLooksUp ==
  ASSUME SessionTypes, TurnLooksUp
  PROVE  SessionTypes'
<1>1. PICK o \in Objs : /\ GetOrCreate("gateway", o)
                        /\ obj' = [obj EXCEPT ![o] = Content("gateway")]
  BY DEF TurnLooksUp
<1>2. Content("gateway") \in SessionType
  BY ContentType DEF Procs
<1>3. obj' \in [Objs -> SessionType]
  BY <1>1, <1>2 DEF SessionTypes
<1>4. /\ cache' \in [Procs -> Objs \cup {NoObj}]
      /\ stamp' \in [Procs -> {"current", "old", "none"}]
      /\ known' \in [Procs -> KnownType]
  BY <1>1, GetTypes DEF Procs
<1>5. hazards' \subseteq {"overlap", "split", "foreign", "cleared", "hidden", "failed", "torn"}
  BY DEF TurnLooksUp, SessionTypes, Split
<1> QED BY <1>3, <1>4, <1>5 DEF TurnLooksUp, SessionTypes

LEMMA TurnObjects ==
  ASSUME SessionTypes, Records
  PROVE  /\ turn.pc # "idle" => turn.obj \in Objs
         /\ \A b \in Bgs : bg[b].pc # "none" => bg[b].obj \in Objs
         /\ \A s \in Savers : saver[s].pc # "idle" => saver[s].obj \in Objs
<1>1. turn.pc # "idle" => turn.obj \in Objs
  BY DEF SessionTypes, Records, TurnType
<1>2. \A b \in Bgs : bg[b].pc # "none" => bg[b].obj \in Objs
  BY DEF SessionTypes, Records, TaskType
<1>3. \A s \in Savers : saver[s].pc # "idle" => saver[s].obj \in Objs
  BY DEF SessionTypes, Records, SaverType
<1> QED BY <1>1, <1>2, <1>3

\* A step of a background task.
LEMMA TaskStepTypes ==
  ASSUME SessionTypes, NEW b \in Bgs,
         \/ bg' = [bg EXCEPT ![b] = NoTask]
         \/ \E x \in {"due", "waiting", "calling"} : bg' = [bg EXCEPT ![b].pc = x]
         \/ \E x \in {"due", "waiting", "calling"}, n \in Nat :
               bg' = [bg EXCEPT ![b].pc = x, ![b].n = n]
  PROVE  bg' \in [Bgs -> TaskType]
<1>1. bg \in [Bgs -> TaskType] /\ bg[b] \in TaskType
  BY DEF SessionTypes
<1>2. CASE bg' = [bg EXCEPT ![b] = NoTask]
  <2>1. NoTask \in TaskType
    BY DEF NoTask, TaskType
  <2> QED BY <1>1, <1>2, <2>1
<1>3. ASSUME NEW x \in {"due", "waiting", "calling"}, bg' = [bg EXCEPT ![b].pc = x]
      PROVE  bg' \in [Bgs -> TaskType]
  <2>1. [bg[b] EXCEPT !.pc = x] \in TaskType
    BY <1>1 DEF TaskType
  <2> QED BY <1>1, <1>3, <2>1
<1>4. ASSUME NEW x \in {"due", "waiting", "calling"}, NEW n \in Nat,
             bg' = [bg EXCEPT ![b].pc = x, ![b].n = n]
      PROVE  bg' \in [Bgs -> TaskType]
  <2>1. [bg[b] EXCEPT !.pc = x, !.n = n] \in TaskType
    BY <1>1 DEF TaskType
  <2> QED BY <1>1, <1>4, <2>1
<1> QED BY <1>2, <1>3, <1>4

\* A save is started.
LEMMA SaveStartTypes ==
  ASSUME SessionTypes, NEW t \in Savers, NEW p \in Procs, NEW o \in Objs, NEW s \in SessionType,
         NEW k \in KnownType,
         obj' = [obj EXCEPT ![o] = s],
         saver' = [saver EXCEPT ![t] = Decided(k, o, s)]
  PROVE  obj' \in [Objs -> SessionType] /\ saver' \in [Savers -> SaverType]
<1>1. Decided(k, o, s) \in SaverType
  BY DecidedType
<1> QED BY <1>1 DEF SessionTypes

\* Adds and its parts.
LEMMA AddsFacts ==
  ASSUME SessionTypes, NEW o \in Objs, Adds(o)
  PROVE  LET m == MaxMsgs - left.msgs + 1
             s == [obj[o] EXCEPT !.msgs = Append(@, m)] IN
         /\ m \in 1..MaxMsgs /\ s \in SessionType
         /\ s.msgs = Append(obj[o].msgs, m) /\ s.cons = obj[o].cons
         /\ s.learned = obj[o].learned /\ s.rev = obj[o].rev /\ s.private = obj[o].private
         /\ obj' = [obj EXCEPT ![o] = s]
         /\ saver' = [saver EXCEPT !["turn"] = Decided(known["gateway"], o, s)]
         /\ said' = Append(said, m)
         /\ left' = [left EXCEPT !.msgs = @ - 1] /\ left.msgs > 0
         /\ hazards' = hazards \cup Overlap
         /\ UNCHANGED <<cache, stamp, known, file, bg, saved, rev>>
<1> DEFINE m == MaxMsgs - left.msgs + 1
           s == [obj[o] EXCEPT !.msgs = Append(@, m)]
<1>1. left.msgs > 0
  BY DEF Adds
<1>2. m \in 1..MaxMsgs
  BY <1>1, NextMessage
<1>3. obj[o] \in SessionType
  BY DEF SessionTypes
<1> HIDE DEF m
<1>4. /\ s \in SessionType /\ s.msgs = Append(obj[o].msgs, m) /\ s.cons = obj[o].cons
      /\ s.learned = obj[o].learned /\ s.rev = obj[o].rev /\ s.private = obj[o].private
  <2>1. Append(obj[o].msgs, m) \in Seq(1..MaxMsgs)
    BY <1>2, <1>3 DEF SessionType
  <2> QED BY <1>3, <2>1 DEF SessionType
<1> HIDE DEF s
<1>5. /\ obj' = [obj EXCEPT ![o] = s]
      /\ saver' = [saver EXCEPT !["turn"] = Decided(known["gateway"], o, s)]
      /\ said' = Append(said, m)
      /\ left' = [left EXCEPT !.msgs = @ - 1]
      /\ hazards' = hazards \cup Overlap
      /\ UNCHANGED <<cache, stamp, known, file, bg, saved, rev>>
  BY DEF Adds, m, s
<1> QED BY <1>1, <1>2, <1>4, <1>5 DEF m, s

LEMMA TypesAdds ==
  ASSUME SessionTypes, NEW o \in Objs, Adds(o),
         turn' \in TurnType
  PROVE  SessionTypes'
<1> DEFINE m == MaxMsgs - left.msgs + 1
           s == [obj[o] EXCEPT !.msgs = Append(@, m)]
<1>1. /\ m \in 1..MaxMsgs /\ s \in SessionType
      /\ obj' = [obj EXCEPT ![o] = s]
      /\ saver' = [saver EXCEPT !["turn"] = Decided(known["gateway"], o, s)]
      /\ said' = Append(said, m)
      /\ left' = [left EXCEPT !.msgs = @ - 1] /\ left.msgs > 0
      /\ hazards' = hazards \cup Overlap
      /\ UNCHANGED <<cache, stamp, known, file, bg, saved, rev>>
  BY AddsFacts
<1> HIDE DEF m, s
<1>2. known["gateway"] \in KnownType /\ "turn" \in Savers /\ "gateway" \in Procs
  BY DEF SessionTypes, Procs, Savers, GatewaySavers
<1>3. obj' \in [Objs -> SessionType] /\ saver' \in [Savers -> SaverType]
  BY <1>1, <1>2, SaveStartTypes
<1>4. said' \in Seq(1..MaxMsgs) 
  BY <1>1 DEF SessionTypes
<1>6. left' \in [msgs : 0..MaxMsgs, troubles : 0..MaxTroubles]
  BY <1>1, NextMessage DEF SessionTypes
<1>5. hazards' \subseteq {"overlap", "split", "foreign", "cleared", "hidden", "failed", "torn"}
  BY <1>1 DEF SessionTypes, Overlap
<1> QED BY <1>1, <1>3, <1>4, <1>5, <1>6 DEF SessionTypes

LEMMA TypesTurnSays ==
  ASSUME SessionTypes, Records, TurnSays \/ TurnAnswers
  PROVE  SessionTypes'
<1>1. turn.obj \in Objs /\ Adds(turn.obj)
  BY TurnObjects DEF TurnSays, TurnAnswers
<1>2. turn' \in TurnType
  BY DEF TurnSays, TurnAnswers, SessionTypes, TurnType
<1> QED BY <1>1, <1>2, TypesAdds

LEMMA TypesTurnEnds ==
  ASSUME SessionTypes, TurnEnds
  PROVE  SessionTypes'
<1>1. PICK S : bg' = [b \in Bgs |-> IF b \in S THEN [pc |-> "due", obj |-> turn.obj, n |-> 0]
                                    ELSE bg[b]]
  BY DEF TurnEnds
<1>2. turn.obj \in Objs \cup {NoObj} /\ turn' = [pc |-> "idle", obj |-> NoObj]
  BY DEF SessionTypes, TurnEnds, TurnType
<1>3. bg' \in [Bgs -> TaskType]
  <2>1. [pc |-> "due", obj |-> turn.obj, n |-> 0] \in TaskType
    BY <1>2 DEF TaskType
  <2> QED BY <1>1, <2>1 DEF SessionTypes
<1>4. turn' \in TurnType
  BY <1>2 DEF TurnType
<1> QED BY <1>3, <1>4 DEF TurnEnds, SessionTypes

LEMMA TypesTurnCancelled ==
  ASSUME SessionTypes, TurnCancelled
  PROVE  SessionTypes'
<1>1. saver' \in [Savers -> SaverType]
  BY EmptyTypes DEF SessionTypes, TurnCancelled, Savers, GatewaySavers
<1>2. left' \in [msgs : 0..MaxMsgs, troubles : 0..MaxTroubles]
  BY FewerTroubles DEF TurnCancelled
<1>3. turn' \in TurnType
  BY DEF TurnCancelled, TurnType
<1> QED BY <1>1, <1>2, <1>3 DEF TurnCancelled, SessionTypes

LEMMA ClearedFacts ==
  ASSUME SessionTypes, Records, NewClears
  PROVE  LET s == [obj[turn.obj] EXCEPT !.msgs = <<>>, !.cons = 0] IN
         /\ turn.obj \in Objs /\ s \in SessionType
         /\ s.msgs = <<>> /\ s.cons = 0 /\ s.learned = obj[turn.obj].learned
         /\ s.rev = obj[turn.obj].rev /\ s.private = obj[turn.obj].private
<1>1. turn.obj \in Objs
  BY TurnObjects DEF NewClears
<1>2. obj[turn.obj] \in SessionType /\ <<>> \in Seq(1..MaxMsgs)
  BY <1>1 DEF SessionTypes
<1> QED BY <1>1, <1>2 DEF SessionType

LEMMA TypesNewClears ==
  ASSUME SessionTypes, Records, NewClears
  PROVE  SessionTypes'
<1> DEFINE s == [obj[turn.obj] EXCEPT !.msgs = <<>>, !.cons = 0]
<1>1. turn.obj \in Objs /\ s \in SessionType
  BY ClearedFacts
<1> HIDE DEF s
<1>2. known["gateway"] \in KnownType /\ "turn" \in Savers /\ "gateway" \in Procs
  BY DEF SessionTypes, Procs, Savers, GatewaySavers
<1>3. /\ obj' = [obj EXCEPT ![turn.obj] = s]
      /\ saver' = [saver EXCEPT !["turn"] = Decided(known["gateway"], turn.obj, s)]
  BY DEF NewClears, s
<1>4. obj' \in [Objs -> SessionType] /\ saver' \in [Savers -> SaverType]
  BY <1>1, <1>2, <1>3, SaveStartTypes
<1>5. left' \in [msgs : 0..MaxMsgs, troubles : 0..MaxTroubles]
  BY FewerTroubles DEF NewClears
<1>6. hazards' \subseteq {"overlap", "split", "foreign", "cleared", "hidden", "failed", "torn"}
  BY DEF SessionTypes, Overlap, NewClears
<1>7. turn' \in TurnType
  BY DEF NewClears, SessionTypes, TurnType
<1>8. said' = <<>> /\ saved' = {} /\ UNCHANGED <<cache, stamp, known, file, bg, rev>>
  BY DEF NewClears
<1>9. said' \in Seq(1..MaxMsgs)
  BY <1>8
<1> QED BY <1>4, <1>5, <1>6, <1>7, <1>8, <1>9 DEF SessionTypes

LEMMA TypesNewEnds ==
  ASSUME SessionTypes, NewEnds
  PROVE  SessionTypes'
BY DEF SessionTypes, NewEnds, TurnType

LEMMA TypesSummarises ==
  ASSUME SessionTypes, Records, NEW c \in Consolidators, Summarises(c)
  PROVE  SessionTypes'
<1>1. bg[c].obj \in Objs
  BY TurnObjects DEF Summarises, Bgs
<1>2. \A n \in obj[bg[c].obj].cons + 1 .. Len(obj[bg[c].obj].msgs) : n \in Nat
  BY <1>1 DEF SessionTypes, SessionType
<1>4. PICK n \in Nat : \/ bg' = [bg EXCEPT ![c].pc = "calling", ![c].n = n]
                       \/ bg' = [bg EXCEPT ![c] = NoTask]
  BY <1>2 DEF Summarises
<1>3. bg' \in [Bgs -> TaskType]
  BY <1>4, TaskStepTypes DEF Bgs
<1> QED BY <1>3 DEF Summarises, SessionTypes

LEMMA TypesChunks ==
  ASSUME SessionTypes, Records, NEW l \in Learners, Chunks(l)
  PROVE  SessionTypes'
<1>1. bg[l].obj \in Objs
  BY TurnObjects DEF Chunks, Bgs
<1>2. LET s == obj[bg[l].obj] IN Len(s.msgs) > s.learned => Len(s.msgs) - s.learned \in Nat
  BY <1>1 DEF SessionTypes, SessionType
<1>4. PICK n \in Nat : \/ bg' = [bg EXCEPT ![l].pc = "waiting", ![l].n = n]
                       \/ bg' = [bg EXCEPT ![l] = NoTask]
  BY <1>2 DEF Chunks
<1>3. bg' \in [Bgs -> TaskType]
  BY <1>4, TaskStepTypes DEF Bgs
<1> QED BY <1>3 DEF Chunks, SessionTypes

LEMMA TypesBgSteps ==
  ASSUME SessionTypes, NEW b \in Bgs, Learns(b) \/ BgGivesUp(b)
  PROVE  SessionTypes'
<1>1. bg' \in [Bgs -> TaskType]
  BY TaskStepTypes DEF Learns, BgGivesUp
<1> QED BY <1>1 DEF Learns, BgGivesUp, SessionTypes

LEMMA AdvancedFacts ==
  ASSUME SessionTypes, Records, NEW b \in Bgs, bg[b].pc = "calling"
  PROVE  LET o == bg[b].obj
             s == Advanced(b, obj[o]) IN
         /\ o \in Objs /\ s \in SessionType
         /\ s.msgs = obj[o].msgs /\ s.rev = obj[o].rev /\ s.private = obj[o].private
         /\ s.cons = IF b \in Consolidators THEN bg[b].n ELSE obj[o].cons
         /\ s.learned = IF b \in Consolidators THEN obj[o].learned ELSE obj[o].learned + bg[b].n
<1>1. bg[b].obj \in Objs
  BY TurnObjects
<1>2. obj[bg[b].obj] \in SessionType /\ bg[b].n \in Nat
  BY <1>1 DEF SessionTypes, TaskType
<1> QED BY <1>1, <1>2 DEF Advanced, SessionType

LEMMA TypesBgSaves ==
  ASSUME SessionTypes, Records, NEW b \in Bgs, BgSaves(b)
  PROVE  SessionTypes'
<1> DEFINE o == bg[b].obj
           s == Advanced(b, obj[o])
<1>1. o \in Objs /\ s \in SessionType
  BY AdvancedFacts DEF BgSaves
<1> HIDE DEF s
<1>2. known["gateway"] \in KnownType /\ "loop" \in Savers /\ "gateway" \in Procs
  BY DEF SessionTypes, Procs, Savers, GatewaySavers
<1>3. /\ obj' = [obj EXCEPT ![o] = s]
      /\ saver' = [saver EXCEPT !["loop"] = Decided(known["gateway"], o, s)]
  BY DEF BgSaves, s
<1>4. obj' \in [Objs -> SessionType] /\ saver' \in [Savers -> SaverType]
  BY <1>1, <1>2, <1>3, SaveStartTypes
<1>5. bg' \in [Bgs -> TaskType]
  BY TaskStepTypes DEF BgSaves
<1>6. hazards' \subseteq {"overlap", "split", "foreign", "cleared", "hidden", "failed", "torn"}
  BY DEF SessionTypes, Overlap, BgSaves
<1>7. UNCHANGED <<cache, stamp, known, file, turn, left, said, saved, rev>>
  BY DEF BgSaves
<1> QED BY <1>4, <1>5, <1>6, <1>7 DEF SessionTypes

HazardTypes == {"overlap", "split", "foreign", "cleared", "hidden", "failed", "torn"}

\* Names of the processes and threads.
LEMMA Names ==
  /\ "gateway" \in Procs /\ "webui" \in Procs /\ "webui" \in Savers /\ "webui" \notin GatewaySavers
  /\ "turn" \in GatewaySavers /\ "late" \in GatewaySavers /\ "loop" \in GatewaySavers
  /\ GatewaySavers \subseteq Savers /\ \A s \in Savers : s = "webui" \/ s \in GatewaySavers
  /\ \A s \in GatewaySavers : s \in {"turn", "late", "loop"} /\ ProcOf(s) = "gateway"
  /\ ProcOf("webui") = "webui" /\ \A p \in Procs : p = "gateway" \/ p = "webui"
  /\ \A s \in Savers : ProcOf(s) \in Procs
BY DEF Procs, Savers, GatewaySavers, ProcOf

LEMMA TypesWebSaves ==
  ASSUME SessionTypes, NEW s \in SessionType, WebSaves(s)
  PROVE  /\ obj' \in [Objs -> SessionType]
         /\ cache' \in [Procs -> Objs \cup {NoObj}]
         /\ stamp' \in [Procs -> {"current", "old", "none"}]
         /\ known' \in [Procs -> KnownType]
         /\ file' \in FileType
         /\ saver' \in [Savers -> SaverType]
         /\ hazards' \subseteq HazardTypes
         /\ UNCHANGED <<turn, bg>>
<1>1. PICK o \in Objs :
       /\ obj' = [obj EXCEPT ![o] = s]
       /\ s.private => /\ cache' = [cache EXCEPT !["webui"] = o]
                       /\ stamp' = [Aged EXCEPT !["webui"] = "none"]
                       /\ known' = [known EXCEPT !["webui"] = Unknown]
                       /\ file' = NoFile /\ UNCHANGED saver
       /\ ~s.private => /\ GetOrCreate("webui", o)
                        /\ saver' = [saver EXCEPT !["webui"] = Decided(known'["webui"], o, s)]
                        /\ UNCHANGED file
  BY DEF WebSaves
<1>2. /\ cache' \in [Procs -> Objs \cup {NoObj}]
      /\ stamp' \in [Procs -> {"current", "old", "none"}]
      /\ known' \in [Procs -> KnownType]
      /\ file' \in FileType
  <2>1. CASE s.private
    BY <1>1, <2>1, EmptyTypes, AgedType DEF SessionTypes
  <2>2. CASE ~s.private
    <3>1. GetOrCreate("webui", o) /\ file' = file
      BY <1>1, <2>2
    <3> QED BY <3>1, GetTypes, Names DEF SessionTypes
  <2> QED BY <2>1, <2>2
<1>3. saver' \in [Savers -> SaverType]
  <2>1. Decided(known'["webui"], o, s) \in SaverType
    BY <1>2, DecidedType, Names
  <2> QED BY <1>1, <2>1 DEF SessionTypes
<1>4. obj' \in [Objs -> SessionType]
  BY <1>1 DEF SessionTypes
<1>5. hazards' \subseteq HazardTypes
  BY DEF WebSaves, SessionTypes, HazardTypes
<1>6. UNCHANGED <<turn, bg>>
  BY DEF WebSaves
<1> QED BY <1>2, <1>3, <1>4, <1>5, <1>6

LEMMA EditedFacts ==
  ASSUME SessionTypes
  PROVE  LET s == [Content("webui") EXCEPT !.rev = rev + 1] IN
         /\ s \in SessionType /\ s.rev = rev + 1 /\ s.msgs = Content("webui").msgs
         /\ s.cons = Content("webui").cons /\ s.learned = Content("webui").learned
         /\ s.private = Content("webui").private
<1>1. Content("webui") \in SessionType /\ rev + 1 \in Nat
  BY ContentType, Names DEF SessionTypes
<1> QED BY <1>1 DEF SessionType

LEMMA TypesWebEdits ==
  ASSUME SessionTypes, WebEdits
  PROVE  SessionTypes'
<1> DEFINE s == [Content("webui") EXCEPT !.rev = rev + 1]
<1>1. s \in SessionType
  BY EditedFacts
<1>2. WebSaves(s) /\ rev' = rev + 1 /\ UNCHANGED <<said, saved>>
      /\ left' = [left EXCEPT !.troubles = @ - 1]
  BY DEF WebEdits
<1>3. left.troubles > 0
  BY <1>2 DEF WebSaves
<1>4. left' \in [msgs : 0..MaxMsgs, troubles : 0..MaxTroubles]
  BY <1>2, <1>3, FewerTroubles
<1> HIDE DEF s
<1>5. rev' \in Nat /\ said' \in Seq(1..MaxMsgs) /\ saved' \subseteq 1..MaxMsgs
  BY <1>2 DEF SessionTypes
<1>6. turn' \in TurnType /\ bg' \in [Bgs -> TaskType]
  BY <1>1, <1>2, TypesWebSaves DEF SessionTypes
<1> QED BY <1>1, <1>2, <1>4, <1>5, <1>6, TypesWebSaves DEF SessionTypes, HazardTypes

LEMMA NotifiedFacts ==
  ASSUME SessionTypes, left.msgs > 0
  PROVE  LET m == MaxMsgs - left.msgs + 1
             s == [Content("webui") EXCEPT !.msgs = Append(@, m)] IN
         /\ m \in 1..MaxMsgs
         /\ s \in SessionType /\ s.rev = Content("webui").rev
         /\ s.msgs = Append(Content("webui").msgs, m)
         /\ s.cons = Content("webui").cons /\ s.learned = Content("webui").learned
         /\ s.private = Content("webui").private
<1> DEFINE m == MaxMsgs - left.msgs + 1
<1>1. Content("webui") \in SessionType /\ m \in 1..MaxMsgs
  BY ContentType, Names, NextMessage
<1> HIDE DEF m
<1>2. Append(Content("webui").msgs, m) \in Seq(1..MaxMsgs)
  BY <1>1 DEF SessionType
<1>3. LET s == [Content("webui") EXCEPT !.msgs = Append(@, m)] IN
         /\ m \in 1..MaxMsgs
         /\ s \in SessionType /\ s.rev = Content("webui").rev
         /\ s.msgs = Append(Content("webui").msgs, m)
         /\ s.cons = Content("webui").cons /\ s.learned = Content("webui").learned
         /\ s.private = Content("webui").private
  BY <1>1, <1>2 DEF SessionType
<1> QED BY <1>3 DEF m

LEMMA TypesWebNotifies ==
  ASSUME SessionTypes, WebNotifies
  PROVE  SessionTypes'
<1> DEFINE m == MaxMsgs - left.msgs + 1
           s == [Content("webui") EXCEPT !.msgs = Append(@, m)]
<1>1. s \in SessionType /\ m \in 1..MaxMsgs
  BY NotifiedFacts DEF WebNotifies
<1>2. WebSaves(s) /\ said' = Append(said, m) /\ UNCHANGED <<saved, rev>> /\ left.msgs > 0
      /\ left' = [left EXCEPT !.troubles = @ - 1, !.msgs = @ - 1]
  BY DEF WebNotifies
<1> HIDE DEF s
<1>3. left.troubles > 0
  BY <1>2 DEF WebSaves
<1>4. left' \in [msgs : 0..MaxMsgs, troubles : 0..MaxTroubles]
  <2>1. left.msgs - 1 \in 0..MaxMsgs
    BY <1>2, NextMessage
  <2>2. left.troubles - 1 \in 0..MaxTroubles
    BY <1>3, LimitsAssumption DEF SessionTypes
  <2> QED BY <1>2, <2>1, <2>2 DEF SessionTypes
<1>5. rev' \in Nat /\ said' \in Seq(1..MaxMsgs) /\ saved' \subseteq 1..MaxMsgs
  <2> HIDE DEF m
  <2> QED BY <1>1, <1>2 DEF SessionTypes
<1>6. turn' \in TurnType /\ bg' \in [Bgs -> TaskType]
  BY <1>1, <1>2, TypesWebSaves DEF SessionTypes
<1> QED BY <1>1, <1>2, <1>4, <1>5, <1>6, TypesWebSaves DEF SessionTypes, HazardTypes

LEMMA HiddenFacts ==
  ASSUME SessionTypes
  PROVE  LET s == [Content("webui") EXCEPT !.private = TRUE] IN
         /\ s \in SessionType /\ s.rev = Content("webui").rev /\ s.msgs = Content("webui").msgs
         /\ s.cons = Content("webui").cons /\ s.learned = Content("webui").learned
         /\ s.private
<1>1. Content("webui") \in SessionType
  BY ContentType, Names
<1> QED BY <1>1 DEF SessionType

LEMMA TypesWebHides ==
  ASSUME SessionTypes, WebHides
  PROVE  SessionTypes'
<1> DEFINE s == [Content("webui") EXCEPT !.private = TRUE]
<1>1. s \in SessionType
  BY HiddenFacts
<1>2. WebSaves(s) /\ UNCHANGED <<said, saved, rev>>
      /\ left' = [left EXCEPT !.troubles = @ - 1]
  BY DEF WebHides
<1>3. left.troubles > 0
  BY <1>2 DEF WebSaves
<1>4. left' \in [msgs : 0..MaxMsgs, troubles : 0..MaxTroubles]
  BY <1>2, <1>3, FewerTroubles
<1> HIDE DEF s
<1>5. rev' \in Nat /\ said' \in Seq(1..MaxMsgs) /\ saved' \subseteq 1..MaxMsgs
  BY <1>2 DEF SessionTypes
<1>6. turn' \in TurnType /\ bg' \in [Bgs -> TaskType]
  BY <1>1, <1>2, TypesWebSaves DEF SessionTypes
<1> QED BY <1>1, <1>2, <1>4, <1>5, <1>6, TypesWebSaves DEF SessionTypes, HazardTypes

LEMMA RewoundFacts ==
  ASSUME SessionTypes, NEW n \in 0 .. Len(Content("webui").msgs) - 1
  PROVE  LET s == RewoundTo(n) IN
         /\ s \in SessionType /\ s.rev = Content("webui").rev
         /\ s.msgs = SubSeq(Content("webui").msgs, 1, n)
         /\ s.cons = IF Content("webui").cons < n THEN Content("webui").cons ELSE n
         /\ s.private = Content("webui").private
         /\ n \in Nat
<1>1. Content("webui") \in SessionType
  BY ContentType, Names
<1>2. n \in 0 .. Len(Content("webui").msgs) /\ n \in Nat
  BY <1>1 DEF SessionType
<1>3. SubSeq(Content("webui").msgs, 1, n) \in Seq(1..MaxMsgs)
  BY <1>1, <1>2, PrefixType DEF SessionType
<1> QED BY <1>1, <1>2, <1>3 DEF SessionType, RewoundTo

LEMMA TypesWebRewrites ==
  ASSUME SessionTypes, NEW s \in SessionType, WebRewrites(s)
  PROVE  /\ obj' \in [Objs -> SessionType]
         /\ cache' \in [Procs -> Objs \cup {NoObj}]
         /\ stamp' \in [Procs -> {"current", "old", "none"}]
         /\ known' \in [Procs -> KnownType]
         /\ file' \in FileType
         /\ saver' \in [Savers -> SaverType]
         /\ hazards' \subseteq HazardTypes
         /\ UNCHANGED <<turn, bg>>
<1>1. PICK o \in Objs :
       /\ obj' = [obj EXCEPT ![o] = s]
       /\ cache' = [cache EXCEPT !["webui"] = o]
       /\ saver' = [saver EXCEPT !["webui"] = Decided(Unknown, o, s)]
  BY DEF WebRewrites
<1>2. Decided(Unknown, o, s) \in SaverType
  BY DecidedType, EmptyTypes
<1>3. /\ obj' \in [Objs -> SessionType]
      /\ cache' \in [Procs -> Objs \cup {NoObj}]
      /\ saver' \in [Savers -> SaverType]
  BY <1>1, <1>2 DEF SessionTypes
<1>4. /\ stamp' \in [Procs -> {"current", "old", "none"}]
      /\ known' \in [Procs -> KnownType]
      /\ file' \in FileType
      /\ hazards' \subseteq HazardTypes
      /\ UNCHANGED <<turn, bg>>
  BY EmptyTypes DEF WebRewrites, SessionTypes, HazardTypes
<1> QED BY <1>3, <1>4

LEMMA TypesWebRewinds ==
  ASSUME SessionTypes, WebRewinds
  PROVE  SessionTypes'
<1>1. PICK n \in 0 .. Len(Content("webui").msgs) - 1 :
    LET s == RewoundTo(n) IN
    /\ IF s.private THEN WebSaves(s) ELSE WebRewrites(s)
    /\ said' = s.msgs
    /\ saved' = saved \cap Range(s.msgs)
    /\ left' = [left EXCEPT !.troubles = @ - 1]
    /\ UNCHANGED rev
  BY DEF WebRewinds
<1> DEFINE s == RewoundTo(n)
<1>2. s \in SessionType
  BY RewoundFacts
<1> HIDE DEF s
<1>3. (WebSaves(s) \/ WebRewrites(s)) /\ said' = s.msgs /\ saved' = saved \cap Range(s.msgs)
      /\ left' = [left EXCEPT !.troubles = @ - 1] /\ rev' = rev
  BY <1>1 DEF s
<1>4. left.troubles > 0
  BY <1>3 DEF WebSaves, WebRewrites
<1>5. left' \in [msgs : 0..MaxMsgs, troubles : 0..MaxTroubles]
  BY <1>3, <1>4, FewerTroubles
<1>6. rev' \in Nat /\ said' \in Seq(1..MaxMsgs) /\ saved' \subseteq 1..MaxMsgs
  BY <1>2, <1>3 DEF SessionTypes, SessionType
<1>7. turn' \in TurnType /\ bg' \in [Bgs -> TaskType]
  BY <1>2, <1>3, TypesWebSaves, TypesWebRewrites DEF SessionTypes
<1> QED BY <1>2, <1>3, <1>5, <1>6, <1>7, TypesWebSaves, TypesWebRewrites DEF SessionTypes, HazardTypes

LEMMA TypesWebDeletes ==
  ASSUME SessionTypes, WebDeletes
  PROVE  SessionTypes'
<1>1. left' \in [msgs : 0..MaxMsgs, troubles : 0..MaxTroubles]
  BY FewerTroubles DEF WebDeletes
<1>2. stamp' \in [Procs -> {"current", "old", "none"}]
  BY AgedType DEF WebDeletes
<1>3. file' \in FileType /\ said' \in Seq(1..MaxMsgs) /\ saved' \subseteq 1..MaxMsgs /\ rev' \in Nat
  BY EmptyTypes DEF WebDeletes
<1> QED BY <1>1, <1>2, <1>3 DEF WebDeletes, SessionTypes

LEMMA TypesRestarts ==
  ASSUME SessionTypes, GatewayRestarts
  PROVE  SessionTypes'
<1>1. left' \in [msgs : 0..MaxMsgs, troubles : 0..MaxTroubles]
  BY FewerTroubles DEF GatewayRestarts
<1>2. saver' \in [Savers -> SaverType]
  BY EmptyTypes DEF GatewayRestarts, SessionTypes
<1>3. turn' \in TurnType /\ bg' \in [Bgs -> TaskType]
  BY DEF GatewayRestarts, TurnType, TaskType, NoTask
<1>4. known' \in [Procs -> KnownType] /\ cache' \in [Procs -> Objs \cup {NoObj}]
      /\ stamp' \in [Procs -> {"current", "old", "none"}]
  BY EmptyTypes DEF GatewayRestarts, SessionTypes
<1>5. said' \in Seq(1..MaxMsgs)
  BY DEF GatewayRestarts, SessionTypes, FileType
<1> QED BY <1>1, <1>2, <1>3, <1>4, <1>5 DEF GatewayRestarts, SessionTypes

\* What a save writes: its lines, or the session as decided or as it is by now.
LEMMA WrittenFacts ==
  ASSUME SessionTypes, Records, NEW s \in Savers, SaveWrites(s)
  PROVE  /\ saver[s].obj \in Objs /\ saver[s] \in SaverType
         /\ saver[s].append => file' = Appended(saver[s].lines)
         /\ ~saver[s].append => \E now \in {saver[s].now, obj[saver[s].obj]} :
              /\ now \in SessionType
              /\ file' = [exists |-> TRUE, torn |-> FALSE, msgs |-> now.msgs, cons |-> now.cons,
                          learned |-> now.learned, rev |-> now.rev]
         /\ file' \in FileType
<1>1. saver[s] \in SaverType /\ saver[s].obj \in Objs
  BY TurnObjects DEF SaveWrites, SessionTypes
<1>2. saver[s].now \in SessionType /\ obj[saver[s].obj] \in SessionType
      /\ saver[s].lines \in Seq(1..MaxMsgs)
  BY <1>1 DEF SessionTypes, SaverType
<1>3. CASE saver[s].append
  BY <1>1, <1>2, <1>3, AppendedType DEF SaveWrites
<1>4. CASE ~saver[s].append
  <2>1. PICK now \in {saver[s].now, obj[saver[s].obj]} :
          file' = [exists |-> TRUE, torn |-> FALSE, msgs |-> now.msgs, cons |-> now.cons,
                   learned |-> now.learned, rev |-> now.rev]
    BY <1>4 DEF SaveWrites
  <2>2. now \in SessionType
    BY <1>2
  <2>3. file' \in FileType
    BY <2>1, <2>2 DEF SessionType, FileType
  <2> QED BY <1>1, <1>4, <2>1, <2>2, <2>3
<1> QED BY <1>3, <1>4

LEMMA TypesSaveWrites ==
  ASSUME SessionTypes, Records, NEW s \in Savers, SaveWrites(s)
  PROVE  SessionTypes'
<1>1. file' \in FileType
  BY WrittenFacts
<1>2. saver' \in [Savers -> SaverType]
  <2>1. saver[s] \in SaverType
    BY DEF SessionTypes
  <2>2. [saver[s] EXCEPT !.pc = "note"] \in SaverType
    BY <2>1 DEF SaverType
  <2> QED BY <2>2 DEF SaveWrites, SessionTypes
<1>3. stamp' \in [Procs -> {"current", "old", "none"}]
  BY AgedType DEF SaveWrites
<1> QED BY <1>1, <1>2, <1>3 DEF SaveWrites, SessionTypes

LEMMA NotedType ==
  ASSUME SessionTypes, Records, NEW s \in Savers, saver[s].pc # "idle"
  PROVE  Noted(s) \in KnownType
<1>1. saver[s].obj \in Objs /\ known[ProcOf(s)] \in KnownType
  BY TurnObjects, Names DEF SessionTypes
<1>2. obj[saver[s].obj] \in SessionType /\ Len(obj[saver[s].obj].msgs) \in Nat
  BY <1>1 DEF SessionTypes, SessionType
<1> QED BY <1>1, <1>2 DEF Noted, KnownType, SessionType

LEMMA TypesSaveNotes ==
  ASSUME SessionTypes, Records, NEW s \in Savers, SaveNotes(s)
  PROVE  SessionTypes'
<1>1. Noted(s) \in KnownType /\ saver[s].obj \in Objs /\ ProcOf(s) \in Procs
  BY NotedType, TurnObjects, Names DEF SaveNotes
<1>2. saver' \in [Savers -> SaverType]
  BY EmptyTypes DEF SaveNotes, SessionTypes
<1>3. /\ known' \in [Procs -> KnownType]
      /\ cache' \in [Procs -> Objs \cup {NoObj}]
      /\ stamp' \in [Procs -> {"current", "old", "none"}]
  BY <1>1 DEF SaveNotes, SessionTypes
<1>4. saved' \subseteq 1..MaxMsgs
  <2>1. saver[s].now.msgs \in Seq(1..MaxMsgs)
    BY DEF SessionTypes, SaverType, SessionType
  <2>2. Range(saver[s].now.msgs) \subseteq 1..MaxMsgs
    BY <2>1, RangeOfSeq
  <2> QED BY <2>2 DEF SaveNotes, SessionTypes
<1> QED BY <1>2, <1>3, <1>4 DEF SaveNotes, SessionTypes

LEMMA FailedFacts ==
  ASSUME SessionTypes, NEW s \in Savers, SaveFails(s)
  PROVE  \/ /\ file' = file /\ stamp' = stamp /\ hazards' = hazards \cup {"failed"}
         \/ /\ saver[s].append /\ stamp' = Aged
            /\ \E n \in 1..Len(saver[s].lines), torn \in BOOLEAN :
                 /\ SubSeq(saver[s].lines, 1, n) \in Seq(1..MaxMsgs)
                 /\ file' = [Appended(SubSeq(saver[s].lines, 1, n)) EXCEPT !.torn = @ \/ torn]
                 /\ file' \in FileType
                 /\ hazards' = hazards \cup {IF torn THEN "torn" ELSE "failed"}
<1>1. CASE file' = file /\ stamp' = stamp /\ hazards' = hazards \cup {"failed"}
  BY <1>1
<1>2. CASE /\ saver[s].append
           /\ \E n \in 1..Len(saver[s].lines), torn \in BOOLEAN :
                /\ file' = [Appended(SubSeq(saver[s].lines, 1, n)) EXCEPT !.torn = @ \/ torn]
                /\ hazards' = hazards \cup {IF torn THEN "torn" ELSE "failed"}
           /\ stamp' = Aged
  <2>1. PICK n \in 1..Len(saver[s].lines), torn \in BOOLEAN :
                /\ file' = [Appended(SubSeq(saver[s].lines, 1, n)) EXCEPT !.torn = @ \/ torn]
                /\ hazards' = hazards \cup {IF torn THEN "torn" ELSE "failed"}
    BY <1>2
  <2>2. saver[s].lines \in Seq(1..MaxMsgs)
    BY DEF SessionTypes, SaverType
  <2>3. n \in 0..Len(saver[s].lines)
    BY <2>2
  <2>4. SubSeq(saver[s].lines, 1, n) \in Seq(1..MaxMsgs)
    BY <2>2, <2>3, PrefixType
  <2>5. Appended(SubSeq(saver[s].lines, 1, n)) \in FileType
    BY <2>4, AppendedType
  <2>6. file' \in FileType
    BY <2>1, <2>5 DEF FileType
  <2> QED BY <1>2, <2>1, <2>4, <2>6
<1> QED BY <1>1, <1>2 DEF SaveFails

LEMMA TypesSaveFails ==
  ASSUME SessionTypes, NEW s \in Savers, SaveFails(s)
  PROVE  SessionTypes'
<1>1. file' \in FileType /\ stamp' \in [Procs -> {"current", "old", "none"}]
      /\ hazards' \subseteq HazardTypes
  <2>1. stamp' = stamp \/ stamp' = Aged
    BY FailedFacts
  <2>2. file' \in FileType
    BY FailedFacts DEF SessionTypes
  <2>3. hazards' \subseteq HazardTypes
    BY FailedFacts DEF SessionTypes, HazardTypes
  <2> QED BY <2>1, <2>2, <2>3, AgedType DEF SessionTypes
<1>2. left' \in [msgs : 0..MaxMsgs, troubles : 0..MaxTroubles]
  BY FewerTroubles DEF SaveFails
<1>3. saver' \in [Savers -> SaverType]
  BY EmptyTypes DEF SaveFails, SessionTypes
<1>4. UNCHANGED <<obj, cache, known, turn, bg, said, saved, rev>>
  BY DEF SaveFails
<1> QED BY <1>1, <1>2, <1>3, <1>4 DEF SessionTypes, HazardTypes

LEMMA TypesInit == SessionInit => SessionTypes
<1>1. <<>> \in Seq(1..MaxMsgs) /\ [msgs |-> MaxMsgs, troubles |-> MaxTroubles] \in
        [msgs : 0..MaxMsgs, troubles : 0..MaxTroubles]
  BY LimitsAssumption
<1>2. NoTask \in TaskType /\ [pc |-> "idle", obj |-> NoObj] \in TurnType
  BY DEF NoTask, TaskType, TurnType
<1> QED BY <1>1, <1>2, EmptyTypes DEF SessionInit, SessionTypes

LEMMA TypesStep ==
  ASSUME SessionTypes, Records, [SessionNext]_sessionVars
  PROVE  SessionTypes'
<1>1. CASE UNCHANGED sessionVars
  BY <1>1 DEF sessionVars, SessionTypes
<1>2. CASE SessionNext
  BY <1>2, TypesTurnOpens, TypesTurnLooksUp, TypesTurnSays, TypesTurnEnds, TypesTurnCancelled,
     TypesNewClears, TypesNewEnds, TypesSummarises, TypesChunks, TypesBgSteps, TypesBgSaves,
     TypesWebEdits, TypesWebNotifies, TypesWebHides, TypesWebRewinds, TypesWebDeletes,
     TypesRestarts, TypesSaveWrites, TypesSaveNotes, TypesSaveFails, Zenon
     DEF SessionNext, Bgs
<1> QED BY <1>1, <1>2

-----------------------------------------------------------------------------
(* Records                                                                 *)

LEMMA DecidedIsActive ==
  ASSUME NEW k, NEW o, NEW s
  PROVE  /\ Decided(k, o, s).pc \in {"write", "note"} /\ Decided(k, o, s).obj = o
         /\ Decided(k, o, s).now = s
         /\ Decided(k, o, s).append = CanAppend(k, s)
         /\ Decided(k, o, s).lines =
              IF CanAppend(k, s) THEN SubSeq(s.msgs, k.count + 1, Len(s.msgs)) ELSE s.msgs
         /\ Decided(k, o, s).pc = "note" <=> CanAppend(k, s) /\ Len(s.msgs) = k.count
BY DEF Decided

\* A step of a background task changes it, and of the others nothing.
LEMMA TaskStep ==
  ASSUME SessionTypes, NEW b \in Bgs,
         Summarises(b) \/ Chunks(b) \/ Learns(b) \/ BgGivesUp(b) \/ BgSaves(b)
  PROVE  /\ \A d \in Bgs \ {b} : bg'[d] = bg[d]
         /\ bg[b].pc # "none"
         /\ \/ bg'[b] = NoTask
            \/ bg'[b].obj = bg[b].obj /\ bg'[b].pc \in {"due", "waiting", "calling"}
<1>1. bg \in [Bgs -> TaskType] /\ bg[b] \in TaskType
  BY DEF SessionTypes
<1>2. bg[b].pc # "none"
  BY DEF Summarises, Chunks, Learns, BgGivesUp, BgSaves
<1>3. \/ bg' = [bg EXCEPT ![b] = NoTask]
      \/ \E x \in {"due", "calling"} : bg' = [bg EXCEPT ![b].pc = x]
      \/ \E x \in {"waiting", "calling"} : \E n : bg' = [bg EXCEPT ![b].pc = x, ![b].n = n]
  BY DEF Summarises, Chunks, Learns, BgGivesUp, BgSaves
<1>4. CASE bg' = [bg EXCEPT ![b] = NoTask]
  BY <1>1, <1>2, <1>4
<1>5. ASSUME NEW x \in {"due", "calling"}, bg' = [bg EXCEPT ![b].pc = x]
      PROVE  /\ \A d \in Bgs \ {b} : bg'[d] = bg[d]
             /\ bg'[b].obj = bg[b].obj /\ bg'[b].pc \in {"due", "waiting", "calling"}
  BY <1>1, <1>5 DEF TaskType
<1>6. ASSUME NEW x \in {"waiting", "calling"}, NEW n, bg' = [bg EXCEPT ![b].pc = x, ![b].n = n]
      PROVE  /\ \A d \in Bgs \ {b} : bg'[d] = bg[d]
             /\ bg'[b].obj = bg[b].obj /\ bg'[b].pc \in {"due", "waiting", "calling"}
  BY <1>1, <1>6 DEF TaskType
<1> QED BY <1>2, <1>3, <1>4, <1>5, <1>6

LEMMA RecordsStep ==
  ASSUME SessionTypes, Records, [SessionNext]_sessionVars
  PROVE  Records'
<1>0. Idle.pc = "idle" /\ Idle.obj = NoObj /\ NoTask.pc = "none" /\ NoTask.obj = NoObj
  BY DEF Idle, NoTask
<1>1. CASE UNCHANGED sessionVars
  BY <1>1 DEF sessionVars, Records
<1>2. CASE TurnOpens
  BY <1>2, ObjsAssumption DEF TurnOpens, Records
<1>3. CASE TurnSays \/ TurnAnswers
  <2>1. turn.obj \in Objs /\ Adds(turn.obj)
    BY <1>3, TurnObjects DEF TurnSays, TurnAnswers
  <2> DEFINE s == [obj[turn.obj] EXCEPT !.msgs = Append(@, MaxMsgs - left.msgs + 1)]
  <2>2. /\ saver' = [saver EXCEPT !["turn"] = Decided(known["gateway"], turn.obj, s)]
        /\ hazards' = hazards \cup Overlap /\ file' = file /\ bg' = bg
    BY <2>1 DEF Adds
  <2> HIDE DEF s
  <2>3. turn'.obj = turn.obj /\ turn'.pc # "idle" /\ turn.pc # "idle"
    BY <1>3 DEF TurnSays, TurnAnswers, SessionTypes, TurnType
  <2>4. \A x \in Savers : saver'[x].pc = "idle" <=> saver'[x].obj = NoObj
    BY <2>1, <2>2, DecidedIsActive, ObjsAssumption DEF Records, SessionTypes
  <2> QED BY <2>1, <2>2, <2>3, <2>4, ObjsAssumption DEF Records
<1>4. CASE TurnLooksUp
  BY <1>4 DEF TurnLooksUp, Records
<1>5. CASE TurnEnds
  <2>1. turn.obj # NoObj
    BY <1>5 DEF TurnEnds, Records
  <2>2. \A b \in Bgs : bg'[b].pc = "none" <=> bg'[b].obj = NoObj
    BY <1>5, <2>1 DEF TurnEnds, Records
  <2> QED BY <1>5, <2>2 DEF TurnEnds, Records
<1>6. CASE TurnCancelled
  <2>1. \A x \in Savers : saver'[x].pc = "idle" <=> saver'[x].obj = NoObj
    BY <1>0, <1>6, Names DEF TurnCancelled, Records, SessionTypes
  <2> QED BY <1>6, <2>1 DEF TurnCancelled, Records
<1>7. CASE NewClears
  <2> DEFINE s == [obj[turn.obj] EXCEPT !.msgs = <<>>, !.cons = 0]
  <2>1. /\ saver' = [saver EXCEPT !["turn"] = Decided(known["gateway"], turn.obj, s)]
        /\ file' = file /\ bg' = bg /\ turn' = [turn EXCEPT !.pc = "clearing"]
        /\ "torn" \in hazards' <=> "torn" \in hazards
    BY <1>7 DEF NewClears, Overlap
  <2> HIDE DEF s
  <2>2. turn.obj \in Objs /\ turn'.pc # "idle" /\ turn'.obj = turn.obj
    BY <1>7, <2>1, TurnObjects DEF NewClears, SessionTypes, TurnType
  <2>4. \A x \in Savers : saver'[x].pc = "idle" <=> saver'[x].obj = NoObj
    BY <2>1, <2>2, DecidedIsActive, ObjsAssumption DEF Records, SessionTypes
  <2> QED BY <2>1, <2>2, <2>4, ObjsAssumption DEF Records
<1>8. CASE NewEnds
  BY <1>8 DEF NewEnds, Records
<1>9. ASSUME NEW b \in Bgs, Summarises(b) \/ Chunks(b) \/ Learns(b) \/ BgGivesUp(b)
      PROVE  Records'
  <2>1. \A d \in Bgs : bg'[d].pc = "none" <=> bg'[d].obj = NoObj
    BY <1>0, <1>9, TaskStep DEF Records
  <2> QED BY <1>9, <2>1 DEF Summarises, Chunks, Learns, BgGivesUp, Records
<1>10. ASSUME NEW b \in Bgs, BgSaves(b)
       PROVE  Records'
  <2> DEFINE s == Advanced(b, obj[bg[b].obj])
  <2>1. bg[b].obj \in Objs
    BY <1>10, TurnObjects DEF BgSaves
  <2>2. /\ saver' = [saver EXCEPT !["loop"] = Decided(known["gateway"], bg[b].obj, s)]
        /\ file' = file /\ turn' = turn
        /\ "torn" \in hazards' <=> "torn" \in hazards
    BY <1>10 DEF BgSaves, Overlap
  <2> HIDE DEF s
  <2>3. \A d \in Bgs : bg'[d].pc = "none" <=> bg'[d].obj = NoObj
    BY <1>0, <1>10, TaskStep DEF Records
  <2>4. \A x \in Savers : saver'[x].pc = "idle" <=> saver'[x].obj = NoObj
    BY <2>1, <2>2, DecidedIsActive, ObjsAssumption DEF Records, SessionTypes
  <2> QED BY <2>2, <2>3, <2>4 DEF Records
<1>11. ASSUME NEW s, WebSaves(s)
       PROVE  Records'
  <2>1. PICK o \in Objs :
       /\ s.private => file' = NoFile /\ UNCHANGED saver
       /\ ~s.private => /\ saver' = [saver EXCEPT !["webui"] = Decided(known'["webui"], o, s)]
                        /\ UNCHANGED file
    BY <1>11 DEF WebSaves
  <2>2. /\ "torn" \in hazards' <=> "torn" \in hazards
        /\ UNCHANGED <<turn, bg>>
    BY <1>11 DEF WebSaves
  <2>4. \A x \in Savers : saver'[x].pc = "idle" <=> saver'[x].obj = NoObj
    BY <2>1, DecidedIsActive, ObjsAssumption DEF Records, SessionTypes
  <2> QED BY <2>1, <2>2, <2>4 DEF Records, NoFile
<1>12. CASE WebEdits \/ WebNotifies \/ WebHides
  BY <1>11, <1>12 DEF WebEdits, WebNotifies, WebHides
<1>13. ASSUME NEW s, WebRewrites(s)
       PROVE  Records'
  <2>1. PICK o \in Objs : saver' = [saver EXCEPT !["webui"] = Decided(Unknown, o, s)]
    BY <1>13 DEF WebRewrites
  <2>2. /\ "torn" \in hazards' <=> "torn" \in hazards
        /\ UNCHANGED <<turn, bg, file>>
    BY <1>13 DEF WebRewrites
  <2>4. \A x \in Savers : saver'[x].pc = "idle" <=> saver'[x].obj = NoObj
    BY <2>1, DecidedIsActive, ObjsAssumption DEF Records, SessionTypes
  <2> QED BY <2>1, <2>2, <2>4 DEF Records
<1>14. CASE WebRewinds
  BY <1>11, <1>13, <1>14 DEF WebRewinds
<1>15. CASE WebDeletes
  BY <1>15 DEF WebDeletes, Records, NoFile
<1>16. CASE GatewayRestarts
  <2>1. \A x \in Savers : saver'[x].pc = "idle" <=> saver'[x].obj = NoObj
    BY <1>0, <1>16 DEF GatewayRestarts, Records, SessionTypes
  <2> QED BY <1>0, <1>16, <2>1 DEF GatewayRestarts, Records
<1>17. ASSUME NEW s \in Savers, SaveWrites(s)
       PROVE  Records'
  <2>1. saver' = [saver EXCEPT ![s].pc = "note"] /\ saver[s].pc = "write"
        /\ UNCHANGED <<turn, bg, hazards>>
    BY <1>17 DEF SaveWrites
  <2>2. \A x \in Savers : saver'[x].pc = "idle" <=> saver'[x].obj = NoObj
    BY <2>1 DEF Records, SessionTypes, SaverType
  <2>3. file'.exists /\ ("torn" \notin hazards => ~file'.torn)
    <3>1. saver[s].append => file' = Appended(saver[s].lines)
      BY <1>17 DEF SaveWrites
    <3>2. ~saver[s].append => file'.exists /\ ~file'.torn
      BY <1>17 DEF SaveWrites
    <3>3. Appended(saver[s].lines).exists /\ Appended(saver[s].lines).torn = file.torn
      BY DEF Appended, SessionTypes, FileType
    <3> QED BY <3>1, <3>2, <3>3 DEF Records
  <2> QED BY <2>1, <2>2, <2>3 DEF Records
<1>18. ASSUME NEW s \in Savers, SaveNotes(s)
       PROVE  Records'
  <2>1. \A x \in Savers : saver'[x].pc = "idle" <=> saver'[x].obj = NoObj
    BY <1>0, <1>18 DEF SaveNotes, Records, SessionTypes
  <2> QED BY <1>18, <2>1 DEF SaveNotes, Records
<1>19. ASSUME NEW s \in Savers, SaveFails(s)
       PROVE  Records'
  <2>1. \A x \in Savers : saver'[x].pc = "idle" <=> saver'[x].obj = NoObj
    BY <1>0, <1>19 DEF SaveFails, Records, SessionTypes
  <2>2. file' = file /\ hazards' = hazards \cup {"failed"} => ("torn" \notin hazards' => ~file'.torn)
    BY DEF Records
  <2>3. ASSUME NEW q \in Seq(1..MaxMsgs), NEW torn \in BOOLEAN,
               file' = [Appended(q) EXCEPT !.torn = @ \/ torn],
               hazards' = hazards \cup {IF torn THEN "torn" ELSE "failed"}
        PROVE  file'.exists /\ ("torn" \notin hazards' => ~file'.torn)
    <3>1. Appended(q) \in FileType /\ Appended(q).exists /\ Appended(q).torn = file.torn
      BY AppendedType DEF Appended, SessionTypes, FileType
    <3>2. file'.exists /\ file'.torn = (file.torn \/ torn)
      BY <2>3, <3>1 DEF FileType
    <3>3. CASE torn
      BY <2>3, <3>2, <3>3
    <3>4. CASE ~torn
      <4>1. hazards' = hazards \cup {"failed"} /\ file'.torn = file.torn
        BY <2>3, <3>2, <3>4 DEF SessionTypes, FileType
      <4> QED BY <3>2, <4>1 DEF Records
    <3> QED BY <3>3, <3>4
  <2>4. /\ ~file'.exists => file' = NoFile
        /\ "torn" \notin hazards' => ~file'.torn
    BY <1>19, <2>2, <2>3, FailedFacts DEF Records
  <2>5. UNCHANGED <<turn, bg>>
    BY <1>19 DEF SaveFails
  <2> QED BY <2>1, <2>4, <2>5 DEF Records
<1> QED
  BY <1>1, <1>2, <1>3, <1>4, <1>5, <1>6, <1>7, <1>8, <1>9, <1>10, <1>12, <1>14, <1>15, <1>16,
     <1>17, <1>18, <1>19, Zenon DEF SessionNext, Bgs

-----------------------------------------------------------------------------
(* Who refers to which object                                              *)

\* A step after which nobody refers to an object he did not refer to before.
Narrows ==
  \A q \in Objs : /\ Works(q)' => Works(q)
                  /\ OfGateway(q)' => OfGateway(q)
                  /\ OfWeb(q)' => OfWeb(q)

\* The gateway's lookup of o.
LEMMA GatewayLookup ==
  ASSUME SessionTypes, NEW o \in Objs, GetOrCreate("gateway", o),
         obj' = [obj EXCEPT ![o] = Content("gateway")]
  PROVE  /\ cache'["gateway"] = o /\ cache'["webui"] = cache["webui"]
         /\ Hit("gateway") => o = cache["gateway"] /\ obj' = obj /\ UNCHANGED <<cache, stamp, known>>
         /\ ~Hit("gateway") =>
              /\ ~Works(o) /\ o # cache["webui"] /\ o # saver["webui"].obj
              /\ obj'[o] = Loaded
              /\ stamp'["gateway"] = IF file.exists THEN "current" ELSE "none"
              /\ known'["gateway"] = [known |-> TRUE, count |-> Len(Loaded.msgs), cons |-> Loaded.cons,
                                      learned |-> Loaded.learned, rev |-> Loaded.rev]
         /\ \A q \in Objs \ {o} : obj'[q] = obj[q]
         /\ stamp'["webui"] = stamp["webui"] /\ known'["webui"] = known["webui"]
<1>1. /\ obj \in [Objs -> SessionType] /\ cache \in [Procs -> Objs \cup {NoObj}]
      /\ stamp \in [Procs -> {"current", "old", "none"}] /\ known \in [Procs -> KnownType]
  BY DEF SessionTypes
<1>2. CASE Hit("gateway")
  <2>1. o = cache["gateway"] /\ UNCHANGED <<cache, stamp, known>>
    BY <1>2 DEF GetOrCreate, IsLookup
  <2>2. obj' = obj
    BY <1>1, <1>2, <2>1 DEF Content
  <2> QED BY <1>2, <2>1, <2>2
<1>3. CASE ~Hit("gateway")
  <2>1. /\ o \notin Held("gateway")
        /\ cache' = [cache EXCEPT !["gateway"] = o]
        /\ stamp' = [stamp EXCEPT !["gateway"] = IF file.exists THEN "current" ELSE "none"]
        /\ known' = [known EXCEPT !["gateway"] =
             [known |-> TRUE, count |-> Len(Loaded.msgs), cons |-> Loaded.cons,
              learned |-> Loaded.learned, rev |-> Loaded.rev]]
    BY <1>3 DEF GetOrCreate, IsLookup
  <2>2. ~Works(o) /\ o # cache["webui"] /\ o # saver["webui"].obj
    BY <2>1, Names DEF Held, Works
  <2>3. obj' = [obj EXCEPT ![o] = Loaded]
    BY <1>3 DEF Content
  <2>4. /\ cache'["gateway"] = o /\ cache'["webui"] = cache["webui"]
        /\ stamp'["gateway"] = IF file.exists THEN "current" ELSE "none"
        /\ stamp'["webui"] = stamp["webui"] /\ known'["webui"] = known["webui"]
        /\ known'["gateway"] = [known |-> TRUE, count |-> Len(Loaded.msgs), cons |-> Loaded.cons,
                                      learned |-> Loaded.learned, rev |-> Loaded.rev]
    BY <1>1, <2>1, Names
  <2> QED BY <1>1, <1>3, <2>2, <2>3, <2>4
<1> QED BY <1>2, <1>3

LEMMA GatewayLookupApart ==
  ASSUME SessionTypes, Apart, NEW o \in Objs, GetOrCreate("gateway", o),
         obj' = [obj EXCEPT ![o] = Content("gateway")]
  PROVE  ~OfWeb(o)
<1>1. CASE Hit("gateway")
  BY <1>1, GatewayLookup, ObjsAssumption DEF Apart, OfGateway
<1>2. CASE ~Hit("gateway")
  BY <1>2, GatewayLookup DEF OfWeb
<1> QED BY <1>1, <1>2

\* The WebUI's lookup of o.
LEMMA WebLookup ==
  ASSUME SessionTypes, Records, Apart, NEW o \in Objs, IsLookup("webui", o)
  PROVE  /\ ~OfGateway(o)
         /\ Hit("webui") => o = cache["webui"]
         /\ ~Hit("webui") => o # saver["webui"].obj
<1>1. CASE Hit("webui")
  BY <1>1, ObjsAssumption DEF Apart, OfWeb, IsLookup
<1>2. CASE ~Hit("webui")
  <2>1. o \notin Held("webui")
    BY <1>2 DEF IsLookup
  <2>2. ~Works(o) /\ o # cache["gateway"] /\ o # saver["webui"].obj
    BY <2>1, Names DEF Held, Works
  <2> QED BY <1>2, <2>2 DEF OfGateway
<1> QED BY <1>1, <1>2

LEMMA Busy ==
  ASSUME SessionTypes, Records
  PROVE  GatewayBusy <=> \E q \in Objs : Works(q)
<1>1. ASSUME NEW q \in Objs, Works(q) PROVE GatewayBusy
  BY <1>1, ObjsAssumption, Names DEF Works, GatewayBusy, Saving, Records
<1>2. ASSUME GatewayBusy PROVE \E q \in Objs : Works(q)
  BY <1>2, TurnObjects, Names DEF Works, GatewayBusy, Saving
<1> QED BY <1>1, <1>2

LEMMA TurnObjectsAfter ==
  ASSUME SessionTypes', Records'
  PROVE  /\ turn'.pc # "idle" => turn'.obj \in Objs
         /\ \A b \in Bgs : bg'[b].pc # "none" => bg'[b].obj \in Objs
         /\ \A s \in Savers : saver'[s].pc # "idle" => saver'[s].obj \in Objs
<1>1. turn'.pc # "idle" => turn'.obj \in Objs
  BY DEF SessionTypes, Records, TurnType
<1>2. \A b \in Bgs : bg'[b].pc # "none" => bg'[b].obj \in Objs
  BY DEF SessionTypes, Records, TaskType
<1>3. \A s \in Savers : saver'[s].pc # "idle" => saver'[s].obj \in Objs
  BY DEF SessionTypes, Records, SaverType
<1> QED BY <1>1, <1>2, <1>3

LEMMA BusyAfter ==
  ASSUME SessionTypes', Records'
  PROVE  GatewayBusy' <=> \E q \in Objs : Works(q)'
<1>1. ASSUME NEW q \in Objs, Works(q)' PROVE GatewayBusy'
  BY <1>1, ObjsAssumption, Names DEF Works, GatewayBusy, Saving, Records
<1>2. ASSUME GatewayBusy' PROVE \E q \in Objs : Works(q)'
  BY <1>2, TurnObjectsAfter, Names DEF Works, GatewayBusy, Saving
<1> QED BY <1>1, <1>2

\* A save of the gateway is started, for an object it works on.
Starts(t, o, s) ==
  /\ t \in {"turn", "loop"} /\ o \in Objs /\ s \in SessionType /\ Works(o)
  /\ obj' = [obj EXCEPT ![o] = s]
  /\ saver' = [saver EXCEPT ![t] = Decided(known["gateway"], o, s)]
  /\ UNCHANGED <<cache, stamp, known, file>>
  /\ hazards \cup Overlap \subseteq hazards'

LEMMA StartFacts ==
  ASSUME SessionTypes, NEW t, NEW o, NEW s, Starts(t, o, s)
  PROVE  /\ t \in Savers /\ obj'[o] = s /\ \A q \in Objs \ {o} : obj'[q] = obj[q]
         /\ saver'[t] = Decided(known["gateway"], o, s)
         /\ \A x \in Savers \ {t} : saver'[x] = saver[x]
         /\ saver'["webui"] = saver["webui"]
         /\ "overlap" \notin hazards' => \A x \in GatewaySavers : saver[x].pc = "idle"
         /\ t \in GatewaySavers
BY DEF SessionTypes, Starts, Savers, GatewaySavers, Overlap, Saving

LEMMA TurnStarts ==
  ASSUME SessionTypes, Records, TurnSays \/ TurnAnswers
  PROVE  Starts("turn", turn.obj, [obj[turn.obj] EXCEPT !.msgs = Append(@, MaxMsgs - left.msgs + 1)])
<1> DEFINE m == MaxMsgs - left.msgs + 1
           s == [obj[turn.obj] EXCEPT !.msgs = Append(@, m)]
<1>1. turn.obj \in Objs /\ Adds(turn.obj)
  BY TurnObjects DEF TurnSays, TurnAnswers
<1>2. /\ s \in SessionType
      /\ obj' = [obj EXCEPT ![turn.obj] = s]
      /\ saver' = [saver EXCEPT !["turn"] = Decided(known["gateway"], turn.obj, s)]
      /\ hazards' = hazards \cup Overlap
      /\ UNCHANGED <<cache, stamp, known, file>>
  BY <1>1, AddsFacts
<1> HIDE DEF s, m
<1>3. Starts("turn", turn.obj, s)
  BY <1>1, <1>2 DEF Starts, Works
<1> QED BY <1>3 DEF s, m

LEMMA ClearStarts ==
  ASSUME SessionTypes, Records, NewClears
  PROVE  Starts("turn", turn.obj, [obj[turn.obj] EXCEPT !.msgs = <<>>, !.cons = 0])
<1> DEFINE s == [obj[turn.obj] EXCEPT !.msgs = <<>>, !.cons = 0]
<1>1. s \in SessionType /\ turn.obj \in Objs
  BY ClearedFacts
<1>2. /\ obj' = [obj EXCEPT ![turn.obj] = s]
      /\ saver' = [saver EXCEPT !["turn"] = Decided(known["gateway"], turn.obj, s)]
      /\ hazards \cup Overlap \subseteq hazards'
      /\ UNCHANGED <<cache, stamp, known, file>>
  BY DEF NewClears
<1> HIDE DEF s
<1>3. Starts("turn", turn.obj, s)
  BY <1>1, <1>2 DEF Starts, Works
<1> QED BY <1>3 DEF s

LEMMA BgStarts ==
  ASSUME SessionTypes, Records, NEW b \in Bgs, BgSaves(b)
  PROVE  Starts("loop", bg[b].obj, Advanced(b, obj[bg[b].obj]))
<1> DEFINE s == Advanced(b, obj[bg[b].obj])
<1>1. s \in SessionType /\ bg[b].obj \in Objs
  BY AdvancedFacts DEF BgSaves
<1>2. /\ obj' = [obj EXCEPT ![bg[b].obj] = s]
      /\ saver' = [saver EXCEPT !["loop"] = Decided(known["gateway"], bg[b].obj, s)]
      /\ hazards \cup Overlap \subseteq hazards'
      /\ UNCHANGED <<cache, stamp, known, file>>
  BY DEF BgSaves
<1> HIDE DEF s
<1>3. Starts("loop", bg[b].obj, s)
  BY <1>1, <1>2 DEF Starts, Works
<1> QED BY <1>3 DEF s

\* What the gateway does but to look the session up.
GatewayWorks ==
  \/ TurnSays \/ TurnAnswers \/ NewClears \/ \E b \in Bgs : BgSaves(b)
  \/ TurnEnds \/ TurnCancelled \/ NewEnds
  \/ \E b \in Bgs : Summarises(b) \/ Chunks(b) \/ Learns(b) \/ BgGivesUp(b)
  \/ GatewayRestarts

LEMMA NarrowsStart ==
  ASSUME SessionTypes, NEW t, NEW o, NEW s, Starts(t, o, s),
         \A q \in Objs : q = turn'.obj \/ (\E b \in Bgs : bg'[b].obj = q) => Works(q)
  PROVE  Narrows
<1>1. ASSUME NEW q \in Objs, NEW x \in GatewaySavers, saver'[x].obj = q
      PROVE  Works(q)
  <2>1. CASE x = t
    <3>1. saver'[t].obj = o
      BY StartFacts, DecidedIsActive
    <3> QED BY <1>1, <2>1, <3>1 DEF Starts
  <2>2. CASE x # t
    BY <1>1, <2>2, StartFacts, Names DEF Works
  <2> QED BY <2>1, <2>2
<1>2. \A q \in Objs : Works(q)' => Works(q)
  BY <1>1 DEF Works
<1>3. cache' = cache /\ saver'["webui"] = saver["webui"]
  BY StartFacts DEF Starts
<1> QED BY <1>2, <1>3, ObjsAssumption DEF Narrows, OfGateway, OfWeb

LEMMA NarrowsGateway ==
  ASSUME SessionTypes, Records, GatewayWorks
  PROVE  Narrows
<1>1. CASE TurnSays \/ TurnAnswers
  <2>1. turn'.obj = turn.obj /\ bg' = bg
    BY <1>1 DEF TurnSays, TurnAnswers, Adds, SessionTypes, TurnType
  <2> QED BY <1>1, <2>1, TurnStarts, NarrowsStart DEF Works
<1>2. CASE NewClears
  <2>1. turn'.obj = turn.obj /\ bg' = bg
    BY <1>2 DEF NewClears, SessionTypes, TurnType
  <2> QED BY <1>2, <2>1, ClearStarts, NarrowsStart DEF Works
<1>3. ASSUME NEW b \in Bgs, BgSaves(b) PROVE Narrows
  <2>1. turn' = turn
    BY <1>3 DEF BgSaves
  <2>2. \A q \in Objs : (\E d \in Bgs : bg'[d].obj = q) => Works(q)
    BY <1>3, TaskStep, ObjsAssumption DEF Works, NoTask
  <2> QED BY <1>3, <2>1, <2>2, BgStarts, NarrowsStart DEF Works
<1>4. CASE TurnEnds
  <2>1. \A q \in Objs, d \in Bgs : bg'[d].obj = q => Works(q)
    BY <1>4 DEF TurnEnds, Works
  <2>2. \A q \in Objs : Works(q)' => Works(q)
    BY <1>4, <2>1, ObjsAssumption DEF TurnEnds, Works
  <2>3. cache' = cache /\ saver' = saver
    BY <1>4 DEF TurnEnds
  <2> QED BY <2>2, <2>3 DEF Narrows, OfGateway, OfWeb
<1>5. CASE TurnCancelled
  <2>1. \A q \in Objs, x \in GatewaySavers : saver'[x].obj = q => Works(q)
    BY <1>5, ObjsAssumption, Names DEF TurnCancelled, Works, SessionTypes, Idle
  <2>2. \A q \in Objs : Works(q)' => Works(q)
    BY <1>5, <2>1, ObjsAssumption DEF TurnCancelled, Works
  <2>3. cache' = cache /\ saver'["webui"] = saver["webui"]
    BY <1>5, Names DEF TurnCancelled, SessionTypes
  <2> QED BY <2>2, <2>3 DEF Narrows, OfGateway, OfWeb
<1>6. CASE NewEnds
  <2>1. \A q \in Objs : Works(q)' => Works(q)
    BY <1>6, ObjsAssumption DEF NewEnds, Works
  <2>2. cache' = [cache EXCEPT !["gateway"] = NoObj] /\ saver' = saver
    BY <1>6 DEF NewEnds
  <2>3. cache'["gateway"] = NoObj /\ cache'["webui"] = cache["webui"]
    BY <2>2, Names DEF SessionTypes
  <2> QED BY <2>1, <2>2, <2>3, ObjsAssumption DEF Narrows, OfGateway, OfWeb
<1>7. ASSUME NEW b \in Bgs, Summarises(b) \/ Chunks(b) \/ Learns(b) \/ BgGivesUp(b)
      PROVE  Narrows
  <2>1. UNCHANGED <<obj, cache, saver, turn>>
    BY <1>7 DEF Summarises, Chunks, Learns, BgGivesUp
  <2>2. \A q \in Objs : (\E d \in Bgs : bg'[d].obj = q) => (\E d \in Bgs : bg[d].obj = q)
    BY <1>7, TaskStep, ObjsAssumption DEF NoTask
  <2>3. \A q \in Objs : Works(q)' => Works(q)
    BY <2>1, <2>2 DEF Works
  <2> QED BY <2>1, <2>3 DEF Narrows, OfGateway, OfWeb
<1>8. CASE GatewayRestarts
  <2>1. \A x \in GatewaySavers : saver'[x] = Idle
    BY <1>8, Names DEF GatewayRestarts
  <2>2. saver'["webui"] = saver["webui"] /\ cache'["webui"] = cache["webui"]
        /\ cache'["gateway"] = NoObj
    BY <1>8, Names DEF GatewayRestarts, SessionTypes
  <2>4. turn'.obj = NoObj /\ (\A b \in Bgs : bg'[b].obj = NoObj)
        /\ \A x \in GatewaySavers : saver'[x].obj = NoObj
    <3>1. turn' = [pc |-> "idle", obj |-> NoObj] /\ bg' = [b \in Bgs |-> NoTask]
      BY <1>8 DEF GatewayRestarts
    <3>2. Idle.obj = NoObj /\ NoTask.obj = NoObj
      BY DEF Idle, NoTask
    <3> QED BY <2>1, <3>1, <3>2
  <2>3. \A q \in Objs : ~Works(q)'
    BY <2>4, ObjsAssumption DEF Works
  <2> QED BY <2>2, <2>3, ObjsAssumption DEF Narrows, OfGateway, OfWeb
<1> QED BY <1>1, <1>2, <1>3, <1>4, <1>5, <1>6, <1>7, <1>8 DEF GatewayWorks

\* The steps of a save.
SaveGoesOn(s) == SaveWrites(s) \/ SaveNotes(s) \/ SaveFails(s)

LEMMA SaveStep ==
  ASSUME SessionTypes, NEW s \in Savers, SaveGoesOn(s)
  PROVE  /\ UNCHANGED <<obj, turn, bg>>
         /\ \A x \in Savers \ {s} : saver'[x] = saver[x]
         /\ saver[s].pc # "idle"
         /\ \/ saver'[s] = Idle
            \/ saver'[s] = [saver[s] EXCEPT !.pc = "note"]
         /\ hazards \subseteq hazards'
<1>1. UNCHANGED <<obj, turn, bg>> /\ saver[s].pc # "idle"
  BY DEF SaveGoesOn, SaveWrites, SaveNotes, SaveFails
<1>2. \/ saver' = [saver EXCEPT ![s] = Idle]
      \/ saver' = [saver EXCEPT ![s].pc = "note"]
  BY DEF SaveGoesOn, SaveWrites, SaveNotes, SaveFails
<1>3. hazards \subseteq hazards'
  BY DEF SaveGoesOn, SaveWrites, SaveNotes, SaveFails
<1> QED BY <1>1, <1>2, <1>3 DEF SessionTypes

LEMMA NarrowsSave ==
  ASSUME SessionTypes, Records, NEW s \in Savers, SaveGoesOn(s)
  PROVE  Narrows
<1>1. \A x \in Savers : saver'[x].obj = NoObj \/ saver'[x].obj = saver[x].obj
  <2>2. Idle.obj = NoObj
    BY DEF Idle
  <2>3. saver[s] \in SaverType
    BY DEF SessionTypes
  <2>4. [saver[s] EXCEPT !.pc = "note"].obj = saver[s].obj
    BY <2>3 DEF SaverType
  <2>1. saver'[s].obj = NoObj \/ saver'[s].obj = saver[s].obj
    BY <2>2, <2>4, SaveStep
  <2> QED BY <2>1, SaveStep
<1>2. \A q \in Objs : Works(q)' => Works(q)
  <2>1. UNCHANGED <<turn, bg>>
    BY SaveStep
  <2>2. \A x \in GatewaySavers : saver'[x].obj = NoObj \/ saver'[x].obj = saver[x].obj
    BY <1>1, Names
  <2> QED BY <2>1, <2>2, ObjsAssumption DEF Works
<1>3. \/ cache' = cache
      \/ cache' = [cache EXCEPT ![ProcOf(s)] = saver[s].obj]
  BY DEF SaveGoesOn, SaveWrites, SaveNotes, SaveFails
<1>4. \A q \in Objs : (q = cache'["gateway"] => OfGateway(q)) /\ (q = cache'["webui"] => OfWeb(q))
  <2>1. CASE cache' = cache
    BY <2>1, ObjsAssumption DEF OfGateway, OfWeb
  <2>2. CASE cache' = [cache EXCEPT ![ProcOf(s)] = saver[s].obj]
    <3>1. CASE s = "webui"
      <4>1. cache'["webui"] = saver["webui"].obj /\ cache'["gateway"] = cache["gateway"]
        BY <2>2, <3>1, Names DEF SessionTypes
      <4> QED BY <4>1, ObjsAssumption DEF OfGateway, OfWeb
    <3>2. CASE s # "webui"
      <4>1. cache'["gateway"] = saver[s].obj /\ cache'["webui"] = cache["webui"] /\ s \in GatewaySavers
        BY <2>2, <3>2, Names DEF SessionTypes
      <4> QED BY <4>1, ObjsAssumption DEF OfGateway, OfWeb, Works
    <3> QED BY <3>1, <3>2
  <2> QED BY <1>3, <2>1, <2>2
<1>5. \A q \in Objs : q = saver'["webui"].obj => OfWeb(q)
  BY <1>1, ObjsAssumption, Names DEF OfWeb
<1> QED BY <1>2, <1>4, <1>5 DEF Narrows, OfGateway, OfWeb

LEMMA NarrowsDelete ==
  ASSUME SessionTypes, WebDeletes
  PROVE  Narrows
<1>1. UNCHANGED <<saver, turn, bg>> /\ cache' = [cache EXCEPT !["webui"] = NoObj]
  BY DEF WebDeletes
<1>2. cache'["webui"] = NoObj /\ cache'["gateway"] = cache["gateway"]
  BY <1>1, Names DEF SessionTypes
<1> QED BY <1>1, <1>2, ObjsAssumption DEF Narrows, OfGateway, OfWeb, Works

\* The WebUI takes object o, makes s of it, and starts to save it unless it is private.
Takes(o, s) ==
  /\ o \in Objs /\ s \in SessionType /\ IsLookup("webui", o)
  /\ obj' = [obj EXCEPT ![o] = s]
  /\ cache' = [cache EXCEPT !["webui"] = o]
  /\ saver["webui"].pc = "idle"
  /\ \/ s.private /\ "hidden" \in hazards' /\ file' = NoFile /\ UNCHANGED saver
     \/ ~s.private /\ file' = file
          /\ \E k \in KnownType : saver' = [saver EXCEPT !["webui"] = Decided(k, o, s)]
  /\ UNCHANGED <<turn, bg>>
  /\ hazards \cup (IF GatewayBusy THEN {"foreign"} ELSE {}) \subseteq hazards'

LEMMA SavesTake ==
  ASSUME SessionTypes, NEW s \in SessionType, WebSaves(s)
  PROVE  \E o \in Objs : Takes(o, s)
<1>1. PICK o \in Objs :
       /\ obj' = [obj EXCEPT ![o] = s]
       /\ s.private => /\ IsLookup("webui", o)
                       /\ cache' = [cache EXCEPT !["webui"] = o]
                       /\ UNCHANGED saver /\ file' = NoFile /\ "hidden" \in hazards'
       /\ ~s.private => /\ GetOrCreate("webui", o) /\ file' = file
                        /\ saver' = [saver EXCEPT !["webui"] = Decided(known'["webui"], o, s)]
  BY DEF WebSaves
<1>2. IsLookup("webui", o) /\ cache' = [cache EXCEPT !["webui"] = o]
  <2>1. CASE s.private
    BY <1>1, <2>1
  <2>2. CASE ~s.private
    BY <1>1, <2>2, Names DEF GetOrCreate, IsLookup, SessionTypes
  <2> QED BY <2>1, <2>2
<1>3. known'["webui"] \in KnownType
  BY TypesWebSaves, Names
<1>4. \/ s.private /\ "hidden" \in hazards' /\ file' = NoFile /\ UNCHANGED saver
      \/ ~s.private /\ file' = file
           /\ \E k \in KnownType : saver' = [saver EXCEPT !["webui"] = Decided(k, o, s)]
  BY <1>1, <1>3
<1>5. saver["webui"].pc = "idle" /\ UNCHANGED <<turn, bg>>
      /\ hazards \cup (IF GatewayBusy THEN {"foreign"} ELSE {}) \subseteq hazards'
  BY DEF WebSaves
<1> QED BY <1>1, <1>2, <1>4, <1>5 DEF Takes

LEMMA RewritesTake ==
  ASSUME SessionTypes, NEW s \in SessionType, ~s.private, WebRewrites(s)
  PROVE  \E o \in Objs : Takes(o, s)
<1>1. PICK o \in Objs :
       /\ IsLookup("webui", o)
       /\ obj' = [obj EXCEPT ![o] = s]
       /\ cache' = [cache EXCEPT !["webui"] = o]
       /\ saver' = [saver EXCEPT !["webui"] = Decided(Unknown, o, s)]
  BY DEF WebRewrites
<1>2. saver["webui"].pc = "idle" /\ UNCHANGED <<turn, bg, file>>
      /\ hazards \cup (IF GatewayBusy THEN {"foreign"} ELSE {}) \subseteq hazards'
  BY DEF WebRewrites
<1> QED BY <1>1, <1>2, EmptyTypes DEF Takes

\* What the WebUI makes of the session.
WebMakes(s) ==
  \/ WebEdits /\ s = [Content("webui") EXCEPT !.rev = rev + 1]
  \/ WebNotifies /\ s = [Content("webui") EXCEPT !.msgs = Append(@, MaxMsgs - left.msgs + 1)]
  \/ WebHides /\ s = [Content("webui") EXCEPT !.private = TRUE]
  \/ WebRewinds /\ \E n \in 0 .. Len(Content("webui").msgs) - 1 : s = RewoundTo(n)

WebTakes == WebEdits \/ WebNotifies \/ WebHides \/ WebRewinds

LEMMA WebMakesTakes ==
  ASSUME SessionTypes, WebTakes
  PROVE  \E o \in Objs, s \in SessionType : Takes(o, s) /\ WebMakes(s)
<1>1. CASE WebEdits
  <2> DEFINE s == [Content("webui") EXCEPT !.rev = rev + 1]
  <2>1. s \in SessionType /\ WebSaves(s) /\ WebMakes(s)
    BY <1>1, EditedFacts DEF WebEdits, WebMakes
  <2> HIDE DEF s
  <2> QED BY <2>1, SavesTake
<1>2. CASE WebNotifies
  <2> DEFINE s == [Content("webui") EXCEPT !.msgs = Append(@, MaxMsgs - left.msgs + 1)]
  <2>1. s \in SessionType /\ WebSaves(s) /\ WebMakes(s)
    BY <1>2, NotifiedFacts DEF WebNotifies, WebMakes
  <2> HIDE DEF s
  <2> QED BY <2>1, SavesTake
<1>3. CASE WebHides
  <2> DEFINE s == [Content("webui") EXCEPT !.private = TRUE]
  <2>1. s \in SessionType /\ WebSaves(s) /\ WebMakes(s)
    BY <1>3, HiddenFacts DEF WebHides, WebMakes
  <2> HIDE DEF s
  <2> QED BY <2>1, SavesTake
<1>4. CASE WebRewinds
  <2>1. PICK n \in 0 .. Len(Content("webui").msgs) - 1 :
          WebSaves(RewoundTo(n)) \/ (~RewoundTo(n).private /\ WebRewrites(RewoundTo(n)))
    BY <1>4 DEF WebRewinds
  <2>2. RewoundTo(n) \in SessionType
    BY RewoundFacts
  <2>3. WebMakes(RewoundTo(n))
    BY <1>4 DEF WebMakes
  <2> QED BY <2>1, <2>2, <2>3, SavesTake, RewritesTake
<1> QED BY <1>1, <1>2, <1>3, <1>4 DEF WebTakes

LEMMA TakeFacts ==
  ASSUME SessionTypes, Records, Apart, NEW o, NEW s, Takes(o, s)
  PROVE  /\ ~OfGateway(o)
         /\ obj'[o] = s /\ \A q \in Objs \ {o} : obj'[q] = obj[q]
         /\ cache'["webui"] = o /\ cache'["gateway"] = cache["gateway"]
         /\ \A x \in GatewaySavers : saver'[x] = saver[x]
         /\ \A q \in Objs : (Works(q)' <=> Works(q)) /\ (OfGateway(q)' <=> OfGateway(q))
         /\ \A q \in Objs : OfWeb(q)' => q = o
<1>1. ~OfGateway(o)
  BY WebLookup DEF Takes
<1>2. obj'[o] = s /\ \A q \in Objs \ {o} : obj'[q] = obj[q]
  BY DEF Takes, SessionTypes
<1>3. cache'["webui"] = o /\ cache'["gateway"] = cache["gateway"]
  BY Names DEF Takes, SessionTypes
<1>4. \A x \in GatewaySavers : saver'[x] = saver[x]
  BY Names DEF Takes, SessionTypes
<1>5. \A q \in Objs : Works(q)' <=> Works(q)
  BY <1>4 DEF Takes, Works
<1>6. saver'["webui"].obj = NoObj \/ saver'["webui"].obj = o
  <2>1. CASE saver' = saver
    BY <2>1, Names DEF Takes, Records
  <2>2. ASSUME NEW k \in KnownType, saver' = [saver EXCEPT !["webui"] = Decided(k, o, s)]
        PROVE  saver'["webui"].obj = o
    BY <2>2, Names, DecidedIsActive DEF SessionTypes
  <2> QED BY <2>1, <2>2 DEF Takes
<1>7. \A q \in Objs : OfWeb(q)' => q = o
  BY <1>3, <1>6, ObjsAssumption DEF OfWeb
<1>8. \A q \in Objs : OfGateway(q)' <=> OfGateway(q)
  BY <1>3, <1>5 DEF OfGateway
<1> QED BY <1>1, <1>2, <1>3, <1>4, <1>5, <1>7, <1>8

GatewayLooks == TurnOpens \/ TurnLooksUp

LEMMA LookFacts ==
  ASSUME SessionTypes, Records, Apart, GatewayLooks
  PROVE  \E o \in Objs :
         /\ GetOrCreate("gateway", o) /\ obj' = [obj EXCEPT ![o] = Content("gateway")]
         /\ ~OfWeb(o)
         /\ \A q \in Objs : /\ Works(q)' => q = o \/ Works(q)
                            /\ OfGateway(q)' => q = o \/ Works(q)
                            /\ OfWeb(q)' <=> OfWeb(q)
<1>1. PICK o \in Objs : /\ GetOrCreate("gateway", o) /\ obj' = [obj EXCEPT ![o] = Content("gateway")]
                        /\ turn' = turn \/ turn' = [pc |-> "open", obj |-> o]
  BY DEF GatewayLooks, TurnOpens, TurnLooksUp
<1>2. UNCHANGED <<saver, bg>>
  BY DEF GatewayLooks, TurnOpens, TurnLooksUp
<1>3. ~OfWeb(o)
  BY <1>1, GatewayLookupApart
<1>4. cache'["gateway"] = o /\ cache'["webui"] = cache["webui"]
  BY <1>1, GatewayLookup
<1>5. \A q \in Objs : Works(q)' => q = o \/ Works(q)
  BY <1>1, <1>2 DEF Works
<1>6. \A q \in Objs : OfGateway(q)' => q = o \/ Works(q)
  BY <1>4, <1>5 DEF OfGateway
<1>7. \A q \in Objs : OfWeb(q)' <=> OfWeb(q)
  BY <1>2, <1>4 DEF OfWeb
<1> QED BY <1>1, <1>3, <1>5, <1>6, <1>7

\* Every step is of one of these kinds.
LEMMA Steps ==
  ASSUME [SessionNext]_sessionVars
  PROVE  \/ UNCHANGED sessionVars
         \/ GatewayLooks
         \/ GatewayWorks
         \/ WebTakes
         \/ WebDeletes
         \/ \E s \in Savers : SaveGoesOn(s)
BY Zenon DEF SessionNext, GatewayLooks, GatewayWorks, WebTakes, SaveGoesOn, Bgs

LEMMA ApartStep ==
  ASSUME SessionTypes, Records, Apart, [SessionNext]_sessionVars
  PROVE  Apart'
<1>1. CASE UNCHANGED sessionVars
  BY <1>1 DEF sessionVars, Apart, OfGateway, OfWeb, Works
<1>2. CASE Narrows
  BY <1>2 DEF Narrows, Apart
<1>3. CASE GatewayLooks
  <2>1. PICK o \in Objs :
         /\ ~OfWeb(o)
         /\ \A q \in Objs : /\ OfGateway(q)' => q = o \/ Works(q)
                            /\ OfWeb(q)' <=> OfWeb(q)
    BY <1>3, LookFacts
  <2> QED BY <2>1, ObjsAssumption DEF Apart, OfGateway
<1>4. CASE WebTakes
  <2>1. PICK o \in Objs, s \in SessionType : Takes(o, s)
    BY <1>4, WebMakesTakes
  <2> QED BY <2>1, TakeFacts DEF Apart
<1> QED BY <1>1, <1>2, <1>3, <1>4, Steps, NarrowsGateway, NarrowsSave, NarrowsDelete

-----------------------------------------------------------------------------
(* Who works alone                                                         *)

LEMMA HazardsStay ==
  ASSUME SessionTypes, [SessionNext]_sessionVars
  PROVE  hazards \subseteq hazards'
<1>1. CASE UNCHANGED sessionVars
  BY <1>1 DEF sessionVars
<1>2. CASE GatewayLooks
  BY <1>2 DEF GatewayLooks, TurnOpens, TurnLooksUp
<1>3. CASE GatewayWorks
  <2>1. CASE TurnSays \/ TurnAnswers
    BY <2>1 DEF TurnSays, TurnAnswers, Adds
  <2>2. CASE NewClears \/ NewEnds \/ TurnEnds \/ TurnCancelled \/ GatewayRestarts
    BY <2>2 DEF NewClears, NewEnds, TurnEnds, TurnCancelled, GatewayRestarts
  <2>3. ASSUME NEW b \in Bgs, BgSaves(b) \/ Summarises(b) \/ Chunks(b) \/ Learns(b) \/ BgGivesUp(b)
        PROVE  hazards \subseteq hazards'
    BY <2>3 DEF BgSaves, Summarises, Chunks, Learns, BgGivesUp
  <2> QED BY <1>3, <2>1, <2>2, <2>3 DEF GatewayWorks
<1>4. CASE WebTakes
  <2>1. PICK o \in Objs, s \in SessionType : Takes(o, s)
    BY <1>4, WebMakesTakes
  <2> QED BY <2>1 DEF Takes
<1>5. CASE WebDeletes
  BY <1>5 DEF WebDeletes
<1>6. ASSUME NEW s \in Savers, SaveGoesOn(s) PROVE hazards \subseteq hazards'
  BY <1>6, SaveStep
<1> QED BY <1>1, <1>2, <1>3, <1>4, <1>5, <1>6, Steps

\* The gateway's work: a save is started, or none, and the turn's may become that
\* of a cancelled turn.
LEMMA WorkSavers ==
  ASSUME SessionTypes, Records, GatewayWorks
  PROVE  \/ \E t, o, s : Starts(t, o, s)
         \/ /\ obj' = obj
            /\ \A s \in GatewaySavers : saver'[s] = Idle \/ saver'[s] = saver[s]
                 \/ (s = "late" /\ saver'["late"] = saver["turn"] /\ saver'["turn"] = Idle)
            /\ saver'["webui"] = saver["webui"]
            /\ \A s \in GatewaySavers : saver'[s].pc # "idle" /\ saver'[s] # saver[s] =>
                 saver["late"].pc = "idle"
<1>1. CASE TurnSays \/ TurnAnswers
  BY <1>1, TurnStarts
<1>2. CASE NewClears
  BY <1>2, ClearStarts
<1>3. ASSUME NEW b \in Bgs, BgSaves(b) PROVE \E t, o, s : Starts(t, o, s)
  BY <1>3, BgStarts
<1>4. CASE TurnEnds \/ NewEnds
  <2>1. obj' = obj /\ saver' = saver
    BY <1>4 DEF TurnEnds, NewEnds
  <2> QED BY <2>1
<1>5. CASE TurnCancelled
  <2>1. obj' = obj
    BY <1>5 DEF TurnCancelled
  <2>2. CASE saver["turn"].pc = "idle"
    <3>1. saver' = saver
      BY <1>5, <2>2 DEF TurnCancelled
    <3> QED BY <2>1, <3>1
  <2>3. CASE saver["turn"].pc # "idle"
    <3>1. /\ saver["late"].pc = "idle"
          /\ saver' = [saver EXCEPT !["late"] = saver["turn"], !["turn"] = Idle]
      BY <1>5, <2>3 DEF TurnCancelled
    <3>2. /\ saver'["late"] = saver["turn"] /\ saver'["turn"] = Idle
          /\ saver'["loop"] = saver["loop"] /\ saver'["webui"] = saver["webui"]
      BY <3>1, Names DEF SessionTypes
    <3> QED BY <2>1, <3>1, <3>2, Names
  <2> QED BY <2>2, <2>3
<1>6. ASSUME NEW b \in Bgs, Summarises(b) \/ Chunks(b) \/ Learns(b) \/ BgGivesUp(b)
      PROVE  obj' = obj /\ saver' = saver
  BY <1>6 DEF Summarises, Chunks, Learns, BgGivesUp
<1>7. CASE GatewayRestarts
  <2>1. obj' = obj /\ saver' = [s \in Savers |-> IF s = "webui" THEN saver[s] ELSE Idle]
    BY <1>7 DEF GatewayRestarts
  <2>2. (\A s \in GatewaySavers : saver'[s] = Idle) /\ saver'["webui"] = saver["webui"]
    BY <2>1, Names
  <2>3. Idle.pc = "idle"
    BY DEF Idle
  <2> QED BY <2>1, <2>2, <2>3
<1> QED BY <1>1, <1>2, <1>3, <1>4, <1>5, <1>6, <1>7 DEF GatewayWorks

LEMMA NoForeign ==
  ASSUME SessionTypes, SessionTypes', Records, Records', Apart, Alone,
         [SessionNext]_sessionVars, "foreign" \notin hazards'
  PROVE  saver'["webui"].pc = "idle" \/ ~GatewayBusy'
<1>0. "foreign" \notin hazards
  BY HazardsStay
<1>1. saver["webui"].pc = "idle" \/ ~GatewayBusy
  BY <1>0 DEF Alone
<1>2. Narrows => (GatewayBusy' => GatewayBusy)
  BY Busy, BusyAfter DEF Narrows
<1>3. CASE UNCHANGED sessionVars
  BY <1>1, <1>3 DEF sessionVars, GatewayBusy, Saving
<1>4. CASE TurnOpens
  BY <1>4 DEF TurnOpens, Saving
<1>5. CASE TurnLooksUp
  BY <1>1, <1>5 DEF TurnLooksUp, GatewayBusy
<1>6. CASE GatewayWorks
  <2>1. saver'["webui"] = saver["webui"]
    BY <1>6, WorkSavers, StartFacts
  <2> QED BY <1>1, <1>2, <1>6, <2>1, NarrowsGateway
<1>7. CASE WebTakes
  <2>1. PICK o \in Objs, s \in SessionType : Takes(o, s)
    BY <1>7, WebMakesTakes
  <2>2. ~GatewayBusy
    BY <2>1 DEF Takes
  <2>3. \A q \in Objs : Works(q)' => Works(q)
    BY <2>1, TakeFacts
  <2> QED BY <2>2, <2>3, Busy, BusyAfter
<1>8. CASE WebDeletes
  <2>1. saver' = saver
    BY <1>8 DEF WebDeletes
  <2> QED BY <1>1, <1>2, <1>8, <2>1, NarrowsDelete
<1>9. ASSUME NEW s \in Savers, SaveGoesOn(s)
      PROVE  saver'["webui"].pc = "idle" \/ ~GatewayBusy'
  <2>1. saver["webui"].pc = "idle" => saver'["webui"].pc = "idle"
    BY <1>9, SaveStep, Names
  <2> QED BY <1>1, <1>2, <1>9, <2>1, NarrowsSave
<1> QED BY <1>3, <1>4, <1>5, <1>6, <1>7, <1>8, <1>9, Steps DEF GatewayLooks

LEMMA NoOverlap ==
  ASSUME SessionTypes, Records, Apart, Alone, [SessionNext]_sessionVars, "overlap" \notin hazards',
         NEW x \in GatewaySavers, NEW y \in GatewaySavers, saver'[x].pc # "idle", saver'[y].pc # "idle"
  PROVE  x = y
<1>0. "overlap" \notin hazards
  BY HazardsStay
<1>1. \A s, t \in GatewaySavers : saver[s].pc # "idle" /\ saver[t].pc # "idle" => s = t
  BY <1>0 DEF Alone
<1>2. CASE saver' = saver
  BY <1>1, <1>2
<1>3. CASE \E t, o, s : Starts(t, o, s)
  <2>1. PICK t, o, s : Starts(t, o, s)
    BY <1>3
  <2>2. \A z \in GatewaySavers \ {t} : saver'[z].pc = "idle"
    BY <2>1, StartFacts, Names
  <2> QED BY <2>2
<1>4. CASE /\ \A s \in GatewaySavers : saver'[s] = Idle \/ saver'[s] = saver[s]
                \/ (s = "late" /\ saver'["late"] = saver["turn"] /\ saver'["turn"] = Idle)
           /\ \A s \in GatewaySavers : saver'[s].pc # "idle" /\ saver'[s] # saver[s] =>
                 saver["late"].pc = "idle"
  <2>0. Idle.pc = "idle"
    BY DEF Idle
  <2>1. CASE \A s \in GatewaySavers : saver'[s] = Idle \/ saver'[s] = saver[s]
    BY <1>1, <2>0, <2>1
  <2>2. CASE saver'["late"] = saver["turn"] /\ saver'["turn"] = Idle
    <3>1. x # "turn" /\ y # "turn"
      BY <2>0, <2>2
    <3>2. \A s \in GatewaySavers \ {"late"} : saver'[s].pc # "idle" => saver[s].pc # "idle"
      BY <1>4, <2>0
    <3>3. saver'["late"].pc # "idle" => saver["turn"].pc # "idle"
      BY <2>2
    <3> QED BY <1>1, <3>1, <3>2, <3>3, Names
  <2> QED BY <1>4, <2>1, <2>2
<1>5. CASE WebTakes
  <2>1. PICK o \in Objs, s \in SessionType : Takes(o, s)
    BY <1>5, WebMakesTakes
  <2> QED BY <1>1, <2>1, TakeFacts
<1>6. ASSUME NEW s \in Savers, SaveGoesOn(s)
      PROVE  x = y
  <2>1. \A z \in GatewaySavers : saver'[z].pc # "idle" => saver[z].pc # "idle"
    BY <1>6, SaveStep, Names
  <2> QED BY <1>1, <2>1
<1>7. GatewayLooks \/ WebDeletes \/ UNCHANGED sessionVars => saver' = saver
  BY DEF GatewayLooks, TurnOpens, TurnLooksUp, WebDeletes, sessionVars
<1> QED BY <1>2, <1>3, <1>4, <1>5, <1>6, <1>7, WorkSavers, Steps

LEMMA NoSplit ==
  ASSUME SessionTypes, Records, Apart, Alone, [SessionNext]_sessionVars, "split" \notin hazards',
         NEW o \in Objs, NEW q \in Objs, OfGateway(o)', OfGateway(q)'
  PROVE  o = q
<1>0. "split" \notin hazards
  BY HazardsStay
<1>1. \A x, y \in Objs : OfGateway(x) /\ OfGateway(y) => x = y
  BY <1>0 DEF Alone
<1>2. CASE Narrows
  BY <1>1, <1>2 DEF Narrows
<1>3. CASE UNCHANGED sessionVars
  BY <1>1, <1>3 DEF sessionVars, OfGateway, Works
<1>4. CASE GatewayLooks
  <2>1. PICK z \in Objs :
         /\ GetOrCreate("gateway", z) /\ obj' = [obj EXCEPT ![z] = Content("gateway")]
         /\ \A x \in Objs : OfGateway(x)' => x = z \/ Works(x)
    BY <1>4, LookFacts
  <2>2. TurnLooksUp => "split" \in hazards'
    BY DEF TurnLooksUp, Split, GatewayBusy
  <2>3. Hit("gateway") \/ ~GatewayBusy
    BY <1>4, <2>2 DEF GatewayLooks, TurnOpens, Split
  <2>4. CASE Hit("gateway")
    <3>1. z = cache["gateway"]
      BY <2>1, <2>4, GatewayLookup
    <3>2. \A x \in Objs : Works(x) => OfGateway(x)
      BY ObjsAssumption DEF OfGateway
    <3>3. OfGateway(z)
      BY <3>1, ObjsAssumption DEF OfGateway
    <3> QED BY <1>1, <2>1, <3>2, <3>3
  <2>5. CASE ~GatewayBusy
    BY <2>1, <2>5, Busy
  <2> QED BY <2>3, <2>4, <2>5
<1>5. CASE WebTakes
  <2>1. PICK z \in Objs, s \in SessionType : Takes(z, s)
    BY <1>5, WebMakesTakes
  <2> QED BY <1>1, <2>1, TakeFacts
<1> QED BY <1>2, <1>3, <1>4, <1>5, Steps, NarrowsGateway, NarrowsSave, NarrowsDelete

LEMMA AloneStep ==
  ASSUME SessionTypes, SessionTypes', Records, Records', Apart, Alone, [SessionNext]_sessionVars
  PROVE  Alone'
BY NoForeign, NoOverlap, NoSplit DEF Alone

LEMMA SnapshotsStep ==
  ASSUME SessionTypes, Records, Apart, Alone, Snapshots, [SessionNext]_sessionVars,
         NEW x \in Savers, saver'[x].pc # "idle", x = "webui" \/ "overlap" \notin hazards'
  PROVE  obj'[saver'[x].obj] = saver'[x].now
<1>0. x = "webui" \/ "overlap" \notin hazards
  BY HazardsStay
<1>1. /\ saver[x].pc # "idle" => obj[saver[x].obj] = saver[x].now /\ saver[x].obj \in Objs
      /\ x # "webui" /\ saver["turn"].pc # "idle" => obj[saver["turn"].obj] = saver["turn"].now
  BY <1>0, TurnObjects, Names DEF Snapshots
<1>2. CASE obj' = obj /\ saver' = saver
  BY <1>1, <1>2
<1>3. ASSUME NEW t, NEW o, NEW s, Starts(t, o, s)
      PROVE  obj'[saver'[x].obj] = saver'[x].now
  <2>1. CASE x = t
    <3>1. saver'[x].obj = o /\ saver'[x].now = s /\ obj'[o] = s
      BY <1>3, <2>1, StartFacts, DecidedIsActive
    <3> QED BY <3>1
  <2>2. CASE x # t
    <3>1. saver'[x] = saver[x] /\ x = "webui"
      BY <1>3, <2>2, StartFacts, Names
    <3>2. OfGateway(o) /\ OfWeb(saver[x].obj) /\ saver[x].obj \in Objs
      BY <1>1, <1>3, <3>1, ObjsAssumption DEF Starts, OfGateway, OfWeb
    <3>3. saver[x].obj # o
      BY <3>2 DEF Apart
    <3> QED BY <1>1, <1>3, <3>1, <3>2, <3>3, StartFacts
  <2> QED BY <2>1, <2>2
<1>4. CASE /\ obj' = obj /\ saver'["webui"] = saver["webui"]
           /\ \A s \in GatewaySavers : saver'[s] = Idle \/ saver'[s] = saver[s]
                \/ (s = "late" /\ saver'["late"] = saver["turn"] /\ saver'["turn"] = Idle)
  BY <1>1, <1>4, Names DEF Idle
<1>5. CASE WebTakes
  <2>1. PICK o \in Objs, s \in SessionType : Takes(o, s)
    BY <1>5, WebMakesTakes
  <2>2. CASE x = "webui"
    <3>1. PICK k : saver' = [saver EXCEPT !["webui"] = Decided(k, o, s)]
      BY <2>1, <2>2 DEF Takes
    <3>2. saver'[x] = Decided(k, o, s)
      BY <2>2, <3>1, Names DEF SessionTypes
    <3>3. saver'[x].obj = o /\ saver'[x].now = s
      BY <3>2, DecidedIsActive
    <3> QED BY <2>1, <3>3, TakeFacts
  <2>3. CASE x # "webui"
    <3>1. saver'[x] = saver[x] /\ ~OfGateway(o)
      BY <2>1, <2>3, TakeFacts, Names
    <3>2. OfGateway(saver[x].obj) /\ saver[x].obj \in Objs
      BY <1>1, <2>3, <3>1, ObjsAssumption, Names DEF OfGateway, Works
    <3> QED BY <1>1, <2>1, <3>1, <3>2, TakeFacts
  <2> QED BY <2>2, <2>3
<1>6. ASSUME NEW s \in Savers, SaveGoesOn(s)
      PROVE  obj'[saver'[x].obj] = saver'[x].now
  <2>1. saver[x] \in SaverType
    BY DEF SessionTypes
  <2>2. saver'[x] = saver[x] \/ saver'[x] = Idle \/ saver'[x] = [saver[x] EXCEPT !.pc = "note"]
    BY <1>6, SaveStep
  <2>3. saver[x].pc # "idle" /\ saver'[x].obj = saver[x].obj /\ saver'[x].now = saver[x].now
    <3>1. Idle.pc = "idle"
      BY DEF Idle
    <3>2. saver'[x] = saver[x] => saver[x].pc # "idle"
      OBVIOUS
    <3>3. saver'[x] # saver[x] => saver[x].pc # "idle"
      BY <1>6, SaveStep
    <3>4. LET r == [saver[x] EXCEPT !.pc = "note"] IN r.obj = saver[x].obj /\ r.now = saver[x].now
      BY <2>1 DEF SaverType
    <3> QED BY <2>2, <3>1, <3>2, <3>3, <3>4
  <2> QED BY <1>1, <1>6, <2>3, SaveStep
<1>7. CASE GatewayLooks
  <2>1. PICK o \in Objs : GetOrCreate("gateway", o) /\ obj' = [obj EXCEPT ![o] = Content("gateway")]
    BY <1>7, LookFacts
  <2>2. saver' = saver
    BY <1>7 DEF GatewayLooks, TurnOpens, TurnLooksUp
  <2>3. CASE Hit("gateway")
    BY <1>1, <2>1, <2>2, <2>3, GatewayLookup
  <2>4. CASE ~Hit("gateway")
    <3>1. ~Works(o) /\ o # saver["webui"].obj
      BY <2>1, <2>4, GatewayLookup
    <3>2. saver[x].obj # o
      BY <3>1, Names DEF Works
    <3> QED BY <1>1, <2>1, <2>2, <3>2, GatewayLookup
  <2> QED BY <2>3, <2>4
<1>8. WebDeletes \/ UNCHANGED sessionVars => obj' = obj /\ saver' = saver
  BY DEF WebDeletes, sessionVars
<1> QED BY <1>2, <1>3, <1>4, <1>5, <1>6, <1>7, <1>8, WorkSavers, Steps

-----------------------------------------------------------------------------
(* Background tasks                                                        *)

\* What a step does to the tasks.
LEMMA TasksChange ==
  ASSUME SessionTypes, [SessionNext]_sessionVars
  PROVE  \/ bg' = bg
         \/ \E b \in Bgs : Summarises(b) \/ Chunks(b) \/ Learns(b) \/ BgGivesUp(b) \/ BgSaves(b)
         \/ TurnEnds \/ GatewayRestarts
<1>1. CASE UNCHANGED sessionVars
  BY <1>1 DEF sessionVars
<1>2. CASE GatewayLooks
  BY <1>2 DEF GatewayLooks, TurnOpens, TurnLooksUp
<1>3. CASE WebTakes
  BY <1>3, WebMakesTakes DEF Takes
<1>4. CASE WebDeletes
  BY <1>4 DEF WebDeletes
<1>5. ASSUME NEW s \in Savers, SaveGoesOn(s) PROVE bg' = bg
  BY <1>5, SaveStep
<1>6. TurnSays \/ TurnAnswers \/ NewClears \/ TurnCancelled \/ NewEnds => bg' = bg
  BY DEF TurnSays, TurnAnswers, Adds, NewClears, TurnCancelled, NewEnds
<1> QED BY <1>1, <1>2, <1>3, <1>4, <1>5, <1>6, Steps DEF GatewayWorks

\* A task that is busy after a step was busy before it, or is due now.
LEMMA TaskAfter ==
  ASSUME SessionTypes, Records, [SessionNext]_sessionVars, NEW d \in Bgs,
         bg'[d].pc \in {"waiting", "calling"}
  PROVE  \/ bg'[d] = bg[d]
         \/ d \in Consolidators /\ Summarises(d) /\ bg[d].pc = "due" /\ bg'[d].obj = bg[d].obj
              /\ bg'[d].n \in obj[bg[d].obj].cons + 1 .. Len(obj[bg[d].obj].msgs)
         \/ d \in Learners /\ Chunks(d) /\ bg'[d].n > 0 /\ bg'[d].pc = "waiting"
         \/ d \in Learners /\ Learns(d) /\ bg'[d].n = bg[d].n /\ bg[d].pc = "waiting"
<1>0. bg \in [Bgs -> TaskType] /\ bg[d] \in TaskType /\ NoTask.pc = "none"
  BY DEF SessionTypes, NoTask
<1>1. \/ bg' = bg
      \/ \E b \in Bgs : BgGivesUp(b) \/ BgSaves(b)
      \/ \E c \in Consolidators : Summarises(c)
      \/ \E l \in Learners : Chunks(l) \/ Learns(l)
      \/ TurnEnds \/ GatewayRestarts
  <2>1. CASE UNCHANGED sessionVars
    BY <2>1 DEF sessionVars
  <2>2. CASE SessionNext
    <3>1. \/ TurnOpens \/ TurnSays \/ TurnLooksUp \/ TurnAnswers \/ TurnCancelled
          \/ NewClears \/ NewEnds \/ WebTakes \/ WebDeletes \/ \E s \in Savers : SaveGoesOn(s)
          => bg' = bg
      BY WebMakesTakes, SaveStep DEF TurnOpens, TurnSays, TurnLooksUp, TurnAnswers, TurnCancelled,
         NewClears, NewEnds, WebDeletes, Takes, Adds
    <3> QED BY <2>2, <3>1 DEF SessionNext, WebTakes, SaveGoesOn
  <2> QED BY <2>1, <2>2
<1>2. ASSUME NEW b \in Bgs, BgGivesUp(b) \/ BgSaves(b) PROVE bg'[d] = bg[d]
  BY <1>0, <1>2 DEF BgGivesUp, BgSaves, TaskType
<1>3. ASSUME NEW c \in Consolidators, Summarises(c)
      PROVE  \/ bg'[d] = bg[d]
             \/ d \in Consolidators /\ Summarises(d) /\ bg[d].pc = "due" /\ bg'[d].obj = bg[d].obj
                  /\ bg'[d].n \in obj[bg[d].obj].cons + 1 .. Len(obj[bg[d].obj].msgs)
  <2>1. CASE d # c
    BY <1>0, <1>3, <2>1, TaskStep DEF Bgs
  <2>2. CASE d = c
    <3>1. PICK n \in obj[bg[c].obj].cons + 1 .. Len(obj[bg[c].obj].msgs) :
            bg' = [bg EXCEPT ![c].pc = "calling", ![c].n = n]
      BY <1>0, <1>3, <2>2 DEF Summarises
    <3>2. bg'[d] = [bg[d] EXCEPT !.pc = "calling", !.n = n]
      BY <1>0, <2>2, <3>1
    <3>3. bg'[d].obj = bg[d].obj /\ bg'[d].n = n
      BY <1>0, <3>2 DEF TaskType
    <3>4. bg[d].pc = "due"
      BY <1>3, <2>2 DEF Summarises
    <3> QED BY <1>3, <2>2, <3>1, <3>3, <3>4
  <2> QED BY <2>1, <2>2
<1>4. ASSUME NEW l \in Learners, Chunks(l)
      PROVE  \/ bg'[d] = bg[d]
             \/ d \in Learners /\ Chunks(d) /\ bg'[d].n > 0 /\ bg'[d].pc = "waiting"
  <2>1. CASE d # l
    BY <1>0, <1>4, <2>1, TaskStep DEF Bgs
  <2>2. CASE d = l
    <3> DEFINE n == Len(obj[bg[l].obj].msgs) - obj[bg[l].obj].learned
    <3>1. /\ Len(obj[bg[l].obj].msgs) > obj[bg[l].obj].learned
          /\ bg' = [bg EXCEPT ![l].pc = "waiting", ![l].n = n]
      BY <1>0, <1>4, <2>2 DEF Chunks
    <3>2. bg'[d] = [bg[d] EXCEPT !.pc = "waiting", !.n = n]
      BY <1>0, <2>2, <3>1
    <3>3. bg'[d].pc = "waiting" /\ bg'[d].n = n
      BY <1>0, <3>2 DEF TaskType
    <3>4. bg[l].obj \in Objs
      BY <1>4, TurnObjects DEF Chunks, Bgs
    <3>5. n > 0
      BY <3>1, <3>4 DEF SessionTypes, SessionType
    <3> QED BY <1>4, <2>2, <3>3, <3>5
  <2> QED BY <2>1, <2>2
<1>5. ASSUME NEW l \in Learners, Learns(l)
      PROVE  \/ bg'[d] = bg[d]
             \/ d \in Learners /\ Learns(d) /\ bg'[d].n = bg[d].n /\ bg[d].pc = "waiting"
  BY <1>0, <1>5 DEF Learns, TaskType
<1>6. CASE TurnEnds
  BY <1>0, <1>6 DEF TurnEnds
<1>7. CASE GatewayRestarts
  BY <1>0, <1>7 DEF GatewayRestarts
<1> QED BY <1>1, <1>2, <1>3, <1>4, <1>5, <1>6, <1>7

\* The task's object keeps its messages and cursors, but for the save of the one
\* task that calls.
LEMMA TaskObject ==
  ASSUME SessionTypes, Records, Apart, [SessionNext]_sessionVars, NEW d \in Bgs, bg[d].pc # "none"
  PROVE  \/ obj'[bg[d].obj] = obj[bg[d].obj]
         \/ obj'[bg[d].obj].cons = obj[bg[d].obj].cons
              /\ Len(obj'[bg[d].obj].msgs) >= Len(obj[bg[d].obj].msgs)
         \/ NewClears /\ bg[d].obj = turn.obj /\ obj'[bg[d].obj].cons = 0
         \/ \E b \in Bgs : BgSaves(b)
<1>0. bg[d].obj \in Objs /\ Works(bg[d].obj) /\ OfGateway(bg[d].obj)
  BY TurnObjects, ObjsAssumption DEF Works, OfGateway
<1>1. CASE TurnSays \/ TurnAnswers
  <2>1. turn.obj \in Objs /\ Adds(turn.obj)
    BY <1>1, TurnObjects DEF TurnSays, TurnAnswers
  <2> DEFINE m == MaxMsgs - left.msgs + 1
             s == [obj[turn.obj] EXCEPT !.msgs = Append(@, m)]
  <2>2. /\ m \in 1..MaxMsgs /\ s.msgs = Append(obj[turn.obj].msgs, m)
        /\ s.cons = obj[turn.obj].cons /\ obj' = [obj EXCEPT ![turn.obj] = s]
    BY <2>1, AddsFacts
  <2> HIDE DEF m, s
  <2>3. obj[turn.obj].msgs \in Seq(1..MaxMsgs)
    BY <2>1 DEF SessionTypes, SessionType
  <2>4. Len(s.msgs) >= Len(obj[turn.obj].msgs)
    BY <2>2, <2>3
  <2> QED BY <1>0, <2>1, <2>2, <2>4 DEF SessionTypes
<1>2. CASE NewClears
  <2> DEFINE s == [obj[turn.obj] EXCEPT !.msgs = <<>>, !.cons = 0]
  <2>1. turn.obj \in Objs /\ s.cons = 0 /\ obj' = [obj EXCEPT ![turn.obj] = s]
    BY <1>2, ClearedFacts DEF NewClears
  <2> HIDE DEF s
  <2> QED BY <1>0, <1>2, <2>1 DEF SessionTypes
<1>3. CASE GatewayLooks
  <2>1. PICK o \in Objs : GetOrCreate("gateway", o) /\ obj' = [obj EXCEPT ![o] = Content("gateway")]
    BY <1>3, LookFacts
  <2>2. CASE Hit("gateway")
    BY <2>1, <2>2, GatewayLookup
  <2>3. CASE ~Hit("gateway")
    BY <1>0, <2>1, <2>3, GatewayLookup
  <2> QED BY <2>2, <2>3
<1>4. CASE WebTakes
  <2>1. PICK o \in Objs, s \in SessionType : Takes(o, s)
    BY <1>4, WebMakesTakes
  <2> QED BY <1>0, <2>1, TakeFacts
<1>5. TurnEnds \/ TurnCancelled \/ NewEnds \/ GatewayRestarts \/ WebDeletes => obj' = obj
  BY DEF TurnEnds, TurnCancelled, NewEnds, GatewayRestarts, WebDeletes
<1>6. ASSUME NEW b \in Bgs, Summarises(b) \/ Chunks(b) \/ Learns(b) \/ BgGivesUp(b)
      PROVE  obj' = obj
  BY <1>6 DEF Summarises, Chunks, Learns, BgGivesUp
<1>7. ASSUME NEW s \in Savers, SaveGoesOn(s) PROVE obj' = obj
  BY <1>7, SaveStep
<1>8. UNCHANGED sessionVars => obj' = obj
  BY DEF sessionVars
<1> QED BY <1>1, <1>2, <1>3, <1>4, <1>5, <1>6, <1>7, <1>8, Steps DEF GatewayWorks

LEMMA OneCalls ==
  ASSUME SessionTypes, Records, Tasks, [SessionNext]_sessionVars,
         NEW b \in Bgs, NEW d \in Bgs, bg'[b].pc = "calling", bg'[d].pc = "calling"
  PROVE  b = d
<1>0. \A x, y \in Bgs : bg[x].pc = "calling" /\ bg[y].pc = "calling" => x = y
  BY DEF Tasks
<1>1. \A x \in Bgs : bg'[x].pc = "calling" =>
        \/ bg'[x] = bg[x]
        \/ (Summarises(x) \/ Learns(x))
  BY TaskAfter
<1>2. ASSUME NEW x \in Bgs, Summarises(x) \/ Learns(x)
      PROVE  \A y \in Bgs \ {x} : bg'[y].pc # "calling"
  <2>1. \A y \in Bgs : bg[y].pc # "calling"
    BY <1>2 DEF Summarises, Learns, MemoryLocked
  <2> QED BY <1>2, <2>1, TaskStep
<1> QED BY <1>0, <1>1, <1>2

\* The save of a task is that of the one that calls.
LEMMA CallerSaves ==
  ASSUME SessionTypes, Tasks, NEW b \in Bgs, BgSaves(b), NEW d \in Bgs
  PROVE  bg'[d].pc # "calling"
<1>1. CASE d = b
  BY <1>1 DEF BgSaves, SessionTypes, TaskType, NoTask
<1>2. CASE d # b
  <2>1. bg[d].pc # "calling"
    BY <1>2 DEF BgSaves, Tasks
  <2> QED BY <1>2, <2>1, TaskStep
<1> QED BY <1>1, <1>2

LEMMA ClearingBefore ==
  ASSUME SessionTypes, [SessionNext]_sessionVars, turn'.pc = "clearing"
  PROVE  NewClears \/ turn.pc = "clearing"
<1>1. TurnOpens \/ TurnSays \/ TurnAnswers \/ TurnEnds \/ TurnCancelled \/ NewEnds \/ GatewayRestarts
        => turn'.pc # "clearing"
  BY DEF TurnOpens, TurnSays, TurnAnswers, TurnEnds, TurnCancelled, NewEnds, GatewayRestarts,
     SessionTypes, TurnType
<1>2. TurnLooksUp \/ WebDeletes \/ UNCHANGED sessionVars => turn' = turn
  BY DEF TurnLooksUp, WebDeletes, sessionVars
<1>3. WebTakes => turn' = turn
  BY WebMakesTakes DEF Takes
<1>4. \A s \in Savers : SaveGoesOn(s) => turn' = turn
  BY SaveStep
<1>5. \A d \in Bgs : Summarises(d) \/ Chunks(d) \/ Learns(d) \/ BgGivesUp(d) \/ BgSaves(d) =>
        turn' = turn
  BY DEF Summarises, Chunks, Learns, BgGivesUp, BgSaves
<1> QED BY <1>1, <1>2, <1>3, <1>4, <1>5, Steps DEF GatewayWorks, GatewayLooks

LEMMA TasksStep ==
  ASSUME SessionTypes, SessionTypes', Records, Apart, Tasks, [SessionNext]_sessionVars
  PROVE  Tasks'
<1>1. ASSUME NEW c \in Consolidators, bg'[c].pc = "calling"
      PROVE  obj'[bg'[c].obj].cons < bg'[c].n
  <2>0. c \in Bgs /\ c \notin Learners
    BY TasksAssumption DEF Bgs
  <2>1. CASE bg'[c] = bg[c]
    <3>1. bg[c].obj \in Objs /\ bg[c].pc = "calling" /\ obj[bg[c].obj].cons < bg[c].n
      BY <1>1, <2>0, <2>1, TurnObjects DEF Tasks
    <3>2. obj[bg[c].obj].cons \in Nat /\ bg[c].n \in Nat
      BY <2>0, <3>1 DEF SessionTypes, SessionType, TaskType
    <3>3. \A b \in Bgs : ~BgSaves(b)
      BY <1>1, <2>0, CallerSaves
    <3>4. obj'[bg[c].obj].cons = obj[bg[c].obj].cons \/ obj'[bg[c].obj].cons = 0
      BY <2>0, <3>1, <3>3, TaskObject
    <3> QED BY <2>1, <3>1, <3>2, <3>4
  <2>2. CASE /\ Summarises(c) /\ bg[c].pc = "due" /\ bg'[c].obj = bg[c].obj
             /\ bg'[c].n \in obj[bg[c].obj].cons + 1 .. Len(obj[bg[c].obj].msgs)
    <3>1. obj' = obj
      BY <2>2 DEF Summarises
    <3>2. bg[c].obj \in Objs
      BY <2>0, <2>2, TurnObjects
    <3> QED BY <2>2, <3>1, <3>2 DEF SessionTypes, SessionType
  <2> QED BY <1>1, <2>0, <2>1, <2>2, TaskAfter
<1>2. ASSUME NEW l \in Learners, bg'[l].pc \in {"waiting", "calling"}
      PROVE  bg'[l].n > 0
  <2>0. l \in Bgs /\ l \notin Consolidators
    BY TasksAssumption DEF Bgs
  <2> QED BY <1>2, <2>0, TaskAfter DEF Tasks
<1>3. ASSUME turn'.pc = "clearing", "cleared" \notin hazards', NEW b \in Bgs
      PROVE  bg'[b].pc = "none"
  <2>0. "cleared" \notin hazards
    BY <1>3, HazardsStay
  <2>1. CASE NewClears
    BY <1>3, <2>1 DEF NewClears
  <2>2. CASE turn.pc = "clearing"
    <3>1. \A d \in Bgs : bg[d].pc = "none"
      BY <2>0, <2>2 DEF Tasks
    <3>2. ~TurnEnds
      BY <2>2 DEF TurnEnds
    <3>3. GatewayRestarts => bg'[b].pc = "none"
      BY DEF GatewayRestarts, NoTask
    <3> QED BY <3>1, <3>2, <3>3, TasksChange, TaskStep
  <2> QED BY <1>3, <2>1, <2>2, ClearingBefore
<1>4. ASSUME turn'.pc = "clearing", "overlap" \notin hazards', "cleared" \notin hazards'
      PROVE  saver'["late"].pc = "idle" /\ saver'["loop"].pc = "idle"
  <2>0. "overlap" \notin hazards /\ "cleared" \notin hazards
    BY <1>4, HazardsStay
  <2>1. CASE NewClears
    <3>1. /\ \A x \in GatewaySavers : saver[x].pc = "idle"
          /\ \A x \in Savers \ {"turn"} : saver'[x] = saver[x]
      BY <1>4, <2>1, ClearStarts, StartFacts
    <3> QED BY <3>1, Names
  <2>2. CASE turn.pc = "clearing"
    <3>1. /\ saver["late"].pc = "idle" /\ saver["loop"].pc = "idle"
          /\ \A d \in Bgs : bg[d].pc = "none"
      BY <2>0, <2>2 DEF Tasks
    <3>2. CASE GatewayWorks
      <4>1. ~(TurnSays \/ TurnAnswers \/ TurnEnds \/ TurnCancelled \/ NewClears)
        BY <2>2 DEF TurnSays, TurnAnswers, TurnEnds, TurnCancelled, NewClears
      <4>2. \A d \in Bgs : ~(Summarises(d) \/ Chunks(d) \/ Learns(d) \/ BgGivesUp(d) \/ BgSaves(d))
        BY <3>1 DEF Summarises, Chunks, Learns, BgGivesUp, BgSaves
      <4>3. NewEnds => saver' = saver
        BY DEF NewEnds
      <4>4. GatewayRestarts => turn'.pc # "clearing"
        BY DEF GatewayRestarts
      <4> QED BY <1>4, <3>1, <3>2, <4>1, <4>2, <4>3, <4>4 DEF GatewayWorks
    <3>3. GatewayLooks \/ WebDeletes \/ UNCHANGED sessionVars => saver' = saver
      BY DEF GatewayLooks, TurnOpens, TurnLooksUp, WebDeletes, sessionVars
    <3>4. CASE WebTakes
      <4>1. PICK o \in Objs, s \in SessionType : Takes(o, s)
        BY <3>4, WebMakesTakes
      <4> QED BY <3>1, <4>1, TakeFacts, Names
    <3>5. ASSUME NEW s \in Savers, SaveGoesOn(s)
          PROVE  saver'["late"].pc = "idle" /\ saver'["loop"].pc = "idle"
      BY <3>1, <3>5, SaveStep, Names
    <3> QED BY <3>1, <3>2, <3>3, <3>4, <3>5, Steps
  <2> QED BY <1>4, <2>1, <2>2, ClearingBefore
<1> QED BY <1>1, <1>2, <1>3, <1>4, OneCalls DEF Tasks

-----------------------------------------------------------------------------
(* Cursors, privacy, and the file under a save                             *)

Fits(s) == s.cons <= Len(s.msgs)

LEMMA LoadedFits ==
  ASSUME SessionTypes, Cursors, "cleared" \notin hazards
  PROVE  /\ Fits(Loaded)
         /\ \A p \in Procs : Fits(Content(p))
<1>1. Fits(EmptySession)
  BY DEF Fits, EmptySession
<1>2. Fits(Loaded)
  BY <1>1 DEF Fits, Loaded, Cursors
<1>3. \A p \in Procs : Hit(p) => cache[p] \in Objs
  BY DEF Hit, SessionTypes
<1> QED BY <1>2, <1>3 DEF Fits, Content, Cursors

\* What the gateway starts to save.
LEMMA StartFits ==
  ASSUME SessionTypes, Records, Cursors, "cleared" \notin hazards, GatewayWorks, obj' # obj
  PROVE  \E t, o, s : Starts(t, o, s) /\ Fits(s) /\ s.private = obj[o].private
<1>1. CASE TurnSays \/ TurnAnswers
  <2>1. turn.obj \in Objs /\ Adds(turn.obj)
    BY <1>1, TurnObjects DEF TurnSays, TurnAnswers
  <2> DEFINE m == MaxMsgs - left.msgs + 1
             s == [obj[turn.obj] EXCEPT !.msgs = Append(@, m)]
  <2>2. /\ m \in 1..MaxMsgs /\ s.msgs = Append(obj[turn.obj].msgs, m)
        /\ s.cons = obj[turn.obj].cons /\ s.private = obj[turn.obj].private
    BY <2>1, AddsFacts
  <2>3. Starts("turn", turn.obj, s)
    BY <1>1, TurnStarts
  <2> HIDE DEF m, s
  <2>4. /\ obj[turn.obj].msgs \in Seq(1..MaxMsgs) /\ obj[turn.obj].cons \in Nat
        /\ obj[turn.obj].cons <= Len(obj[turn.obj].msgs)
    BY <2>1 DEF SessionTypes, SessionType, Cursors
  <2>5. Fits(s)
    BY <2>2, <2>4 DEF Fits
  <2> QED BY <2>2, <2>3, <2>5
<1>2. CASE NewClears
  <2> DEFINE s == [obj[turn.obj] EXCEPT !.msgs = <<>>, !.cons = 0]
  <2>1. s.cons = 0 /\ s.msgs = <<>> /\ s.private = obj[turn.obj].private
    BY <1>2, ClearedFacts
  <2>2. Starts("turn", turn.obj, s)
    BY <1>2, ClearStarts
  <2>3. Fits(s)
    BY <2>1 DEF Fits
  <2> QED BY <2>1, <2>2, <2>3
<1>3. ASSUME NEW b \in Bgs, BgSaves(b)
      PROVE  \E t, o, s : Starts(t, o, s) /\ Fits(s) /\ s.private = obj[o].private
  <2> DEFINE o == bg[b].obj
             s == Advanced(b, obj[o])
  <2>1. /\ o \in Objs /\ s.msgs = obj[o].msgs /\ s.private = obj[o].private
        /\ s.cons = IF b \in Consolidators THEN bg[b].n ELSE obj[o].cons
    BY <1>3, AdvancedFacts DEF BgSaves
  <2>2. Starts("loop", o, s)
    BY <1>3, BgStarts
  <2>3. bg[b].pc = "calling"
    BY <1>3 DEF BgSaves
  <2> HIDE DEF s
  <2>4. Fits(s)
    BY <2>1, <2>3 DEF Fits, Cursors
  <2> QED BY <2>1, <2>2, <2>4
<1>4. TurnEnds \/ TurnCancelled \/ NewEnds \/ GatewayRestarts => obj' = obj
  BY DEF TurnEnds, TurnCancelled, NewEnds, GatewayRestarts
<1>5. ASSUME NEW b \in Bgs, Summarises(b) \/ Chunks(b) \/ Learns(b) \/ BgGivesUp(b)
      PROVE  obj' = obj
  BY <1>5 DEF Summarises, Chunks, Learns, BgGivesUp
<1> QED BY <1>1, <1>2, <1>3, <1>4, <1>5 DEF GatewayWorks

LEMMA WebFits ==
  ASSUME SessionTypes, NEW s, WebMakes(s), WebTakes,
         Fits(Content("webui"))
  PROVE  Fits(s)
<1>0. Content("webui") \in SessionType
  BY ContentType, Names
<1>1. CASE WebEdits /\ s = [Content("webui") EXCEPT !.rev = rev + 1]
  BY <1>1, EditedFacts DEF Fits
<1>2. CASE WebNotifies /\ s = [Content("webui") EXCEPT !.msgs = Append(@, MaxMsgs - left.msgs + 1)]
  <2>1. s.cons = Content("webui").cons /\ \E m : m \in 1..MaxMsgs /\ s.msgs = Append(Content("webui").msgs, m)
    BY <1>2, NotifiedFacts DEF WebNotifies
  <2>2. Content("webui").msgs \in Seq(1..MaxMsgs) /\ Content("webui").cons \in Nat
    BY <1>0 DEF SessionType
  <2>3. Len(s.msgs) >= Len(Content("webui").msgs)
    BY <2>1, <2>2
  <2>4. Len(s.msgs) \in Nat
    BY <2>1, <2>2
  <2> QED BY <2>1, <2>2, <2>3, <2>4 DEF Fits
<1>3. CASE WebHides /\ s = [Content("webui") EXCEPT !.private = TRUE]
  BY <1>3, HiddenFacts DEF Fits
<1>4. CASE \E n \in 0 .. Len(Content("webui").msgs) - 1 : s = RewoundTo(n)
  <2>1. PICK n \in 0 .. Len(Content("webui").msgs) - 1 : s = RewoundTo(n)
    BY <1>4
  <2>2. /\ s.msgs = SubSeq(Content("webui").msgs, 1, n)
        /\ s.cons = IF Content("webui").cons < n THEN Content("webui").cons ELSE n
        /\ n \in Nat
    BY <2>1, RewoundFacts
  <2>3. Content("webui").msgs \in Seq(1..MaxMsgs) /\ Content("webui").cons \in Nat
    BY <1>0 DEF SessionType
  <2>4. n \in 0..Len(Content("webui").msgs)
    BY <2>3
  <2>5. Len(s.msgs) = n
    BY <2>2, <2>3, <2>4, PrefixType
  <2> QED BY <2>2, <2>3, <2>5 DEF Fits
<1> QED BY <1>1, <1>2, <1>3, <1>4 DEF WebMakes

\* What the file becomes.
LEMMA FileChange ==
  ASSUME SessionTypes, [SessionNext]_sessionVars
  PROVE  \/ file' = file
         \/ WebTakes /\ file' = NoFile
         \/ WebDeletes /\ file' = NoFile
         \/ \E s \in Savers : SaveWrites(s) \/ SaveFails(s)
<1>1. TurnSays \/ TurnAnswers \/ TurnOpens \/ TurnLooksUp \/ TurnEnds \/ TurnCancelled
      \/ NewClears \/ NewEnds \/ GatewayRestarts => file' = file
  BY DEF TurnSays, TurnAnswers, TurnOpens, TurnLooksUp, TurnEnds, TurnCancelled, NewClears, NewEnds,
     GatewayRestarts, Adds
<1>2. ASSUME NEW b \in Bgs, Summarises(b) \/ Chunks(b) \/ Learns(b) \/ BgGivesUp(b) \/ BgSaves(b)
      PROVE  file' = file
  BY <1>2 DEF Summarises, Chunks, Learns, BgGivesUp, BgSaves
<1>3. WebTakes => file' = file \/ file' = NoFile
  BY WebMakesTakes DEF Takes
<1>4. WebDeletes => file' = NoFile
  BY DEF WebDeletes
<1>5. \A s \in Savers : SaveNotes(s) => file' = file
  BY DEF SaveNotes
<1>6. UNCHANGED sessionVars => file' = file
  BY DEF sessionVars
<1> QED BY <1>1, <1>2, <1>3, <1>4, <1>5, <1>6, Steps DEF GatewayWorks, GatewayLooks, SaveGoesOn

LEMMA AppendedFacts ==
  ASSUME SessionTypes, NEW q \in Seq(1..MaxMsgs)
  PROVE  /\ Appended(q).exists /\ Appended(q).torn = file.torn
         /\ Appended(q).msgs = file.msgs \o q
         /\ Appended(q).cons = file.cons /\ Appended(q).rev = file.rev
         /\ Appended(q).learned = file.learned
BY DEF SessionTypes, FileType, Appended

LEMMA FailedFile ==
  ASSUME SessionTypes, NEW s \in Savers, SaveFails(s)
  PROVE  \/ file' = file /\ stamp' = stamp /\ hazards' = hazards \cup {"failed"}
         \/ /\ saver[s].append /\ stamp' = Aged /\ file'.exists
            /\ file'.cons = file.cons /\ file'.rev = file.rev
            /\ \E n \in 1..Len(saver[s].lines) :
                 /\ SubSeq(saver[s].lines, 1, n) \in Seq(1..MaxMsgs)
                 /\ file'.msgs = file.msgs \o SubSeq(saver[s].lines, 1, n)
            /\ hazards' = hazards \cup {"failed"} \/ hazards' = hazards \cup {"torn"}
<1>1. CASE file' = file /\ stamp' = stamp /\ hazards' = hazards \cup {"failed"}
  BY <1>1
<1>2. ASSUME saver[s].append, stamp' = Aged, NEW n \in 1..Len(saver[s].lines), NEW torn \in BOOLEAN,
             SubSeq(saver[s].lines, 1, n) \in Seq(1..MaxMsgs),
             file' = [Appended(SubSeq(saver[s].lines, 1, n)) EXCEPT !.torn = @ \/ torn],
             hazards' = hazards \cup {IF torn THEN "torn" ELSE "failed"}
      PROVE /\ saver[s].append /\ stamp' = Aged /\ file'.exists
            /\ file'.cons = file.cons /\ file'.rev = file.rev
            /\ \E i \in 1..Len(saver[s].lines) :
                 /\ SubSeq(saver[s].lines, 1, i) \in Seq(1..MaxMsgs)
                 /\ file'.msgs = file.msgs \o SubSeq(saver[s].lines, 1, i)
            /\ hazards' = hazards \cup {"failed"} \/ hazards' = hazards \cup {"torn"}
  <2> DEFINE q == SubSeq(saver[s].lines, 1, n)
  <2>1. Appended(q) \in FileType
    BY <1>2, AppendedType
  <2>2. /\ file'.exists = Appended(q).exists /\ file'.msgs = Appended(q).msgs
        /\ file'.cons = Appended(q).cons /\ file'.rev = Appended(q).rev
    BY <1>2, <2>1 DEF FileType
  <2>3. hazards' = hazards \cup {"failed"} \/ hazards' = hazards \cup {"torn"}
    BY <1>2
  <2> QED BY <1>2, <2>2, <2>3, AppendedFacts
<1> QED
  <2>1. CASE file' = file /\ stamp' = stamp /\ hazards' = hazards \cup {"failed"}
    BY <1>1, <2>1
  <2>2. CASE /\ saver[s].append /\ stamp' = Aged
             /\ \E n \in 1..Len(saver[s].lines), torn \in BOOLEAN :
                  /\ SubSeq(saver[s].lines, 1, n) \in Seq(1..MaxMsgs)
                  /\ file' = [Appended(SubSeq(saver[s].lines, 1, n)) EXCEPT !.torn = @ \/ torn]
                  /\ hazards' = hazards \cup {IF torn THEN "torn" ELSE "failed"}
    <3>1. PICK n \in 1..Len(saver[s].lines), torn \in BOOLEAN :
                  /\ SubSeq(saver[s].lines, 1, n) \in Seq(1..MaxMsgs)
                  /\ file' = [Appended(SubSeq(saver[s].lines, 1, n)) EXCEPT !.torn = @ \/ torn]
                  /\ hazards' = hazards \cup {IF torn THEN "torn" ELSE "failed"}
      BY <2>2
    <3> QED BY <1>2, <2>2, <3>1, Zenon
  <2> QED BY <2>1, <2>2, FailedFacts

LEMMA ConcatLen ==
  ASSUME NEW S, NEW a \in Seq(S), NEW b \in Seq(S)
  PROVE  Len(a \o b) >= Len(a) /\ Len(a \o b) \in Nat /\ Len(a) \in Nat
BY ConcatProperties

LEMMA CursorFile ==
  ASSUME SessionTypes, Records, Cursors, "cleared" \notin hazards, [SessionNext]_sessionVars
  PROVE  file'.cons <= Len(file'.msgs)
<1>0. /\ file.cons <= Len(file.msgs) /\ file.msgs \in Seq(1..MaxMsgs) /\ file.cons \in Nat
  BY DEF Cursors, SessionTypes, FileType
<1>1. NoFile.cons <= Len(NoFile.msgs)
  BY DEF NoFile
<1>2. ASSUME NEW s \in Savers, SaveWrites(s) PROVE file'.cons <= Len(file'.msgs)
  <2>1. saver[s].obj \in Objs /\ saver[s] \in SaverType
    BY <1>2, WrittenFacts
  <2>2. CASE saver[s].append
    <3>1. saver[s].lines \in Seq(1..MaxMsgs) /\ file' = Appended(saver[s].lines)
      BY <1>2, <2>1, <2>2 DEF SaverType, SaveWrites
    <3>2. file'.msgs = file.msgs \o saver[s].lines /\ file'.cons = file.cons
      BY <3>1, AppendedFacts
    <3>3. Len(file'.msgs) >= Len(file.msgs) /\ Len(file'.msgs) \in Nat /\ Len(file.msgs) \in Nat
      BY <1>0, <3>1, <3>2, ConcatLen
    <3>4. file'.cons = file.cons /\ file.cons <= Len(file.msgs) /\ file.cons \in Nat
      BY <1>0, <3>2
    <3> QED BY <3>3, <3>4
  <2>3. CASE ~saver[s].append
    BY <1>2, <2>1, <2>3 DEF SaveWrites, Cursors
  <2> QED BY <2>2, <2>3
<1>3. ASSUME NEW s \in Savers, SaveFails(s) PROVE file'.cons <= Len(file'.msgs)
  BY <1>0, <1>3, FailedFile, ConcatLen
<1> QED BY <1>0, <1>1, <1>2, <1>3, FileChange

\* Where an object that is not the one before comes from.
LEMMA ObjectAfter ==
  ASSUME SessionTypes, Records, Apart, [SessionNext]_sessionVars
  PROVE  \/ obj' = obj
         \/ GatewayWorks /\ obj' # obj
         \/ \E o \in Objs : obj'[o] = Loaded /\ ~Hit("gateway") /\ \A q \in Objs \ {o} : obj'[q] = obj[q]
         \/ \E o \in Objs, s \in SessionType :
              WebTakes /\ Takes(o, s) /\ WebMakes(s) /\ obj'[o] = s
              /\ \A q \in Objs \ {o} : obj'[q] = obj[q]
<1>1. CASE GatewayLooks
  <2>1. PICK o \in Objs : GetOrCreate("gateway", o) /\ obj' = [obj EXCEPT ![o] = Content("gateway")]
    BY <1>1, LookFacts
  <2> QED BY <2>1, GatewayLookup
<1>2. CASE WebTakes
  <2>1. PICK o \in Objs, s \in SessionType : Takes(o, s) /\ WebMakes(s)
    BY <1>2, WebMakesTakes
  <2> QED BY <1>2, <2>1, TakeFacts
<1>3. WebDeletes \/ UNCHANGED sessionVars => obj' = obj
  BY DEF WebDeletes, sessionVars
<1>4. \A s \in Savers : SaveGoesOn(s) => obj' = obj
  BY SaveStep
<1> QED BY <1>1, <1>2, <1>3, <1>4, Steps

LEMMA CursorObjects ==
  ASSUME SessionTypes, Records, Apart, Cursors, "cleared" \notin hazards, [SessionNext]_sessionVars,
         NEW q \in Objs
  PROVE  Fits(obj'[q])
<1>1. \A o \in Objs : Fits(obj[o])
  BY DEF Fits, Cursors
<1>2. CASE obj' = obj
  BY <1>1, <1>2
<1>3. CASE GatewayWorks /\ obj' # obj
  <2>1. PICK t, o, s : Starts(t, o, s) /\ Fits(s)
    BY <1>3, StartFits
  <2> QED BY <1>1, <2>1, StartFacts
<1>4. CASE \E o \in Objs : obj'[o] = Loaded /\ \A x \in Objs \ {o} : obj'[x] = obj[x]
  BY <1>1, <1>4, LoadedFits
<1>5. ASSUME NEW o \in Objs, NEW s \in SessionType, WebTakes, WebMakes(s), obj'[o] = s,
             \A x \in Objs \ {o} : obj'[x] = obj[x]
      PROVE  Fits(obj'[q])
  BY <1>1, <1>5, WebFits, LoadedFits, Names
<1> QED BY <1>2, <1>3, <1>4, <1>5, ObjectAfter

\* The session of a save is that of one before, or the object's.
LEMMA NowAfter ==
  ASSUME SessionTypes, Records, Apart, [SessionNext]_sessionVars, NEW x \in Savers
  PROVE  \/ \E y \in Savers : saver'[x].now = saver[y].now
         \/ saver'[x].now = EmptySession
         \/ \E o \in Objs : saver'[x].now = obj'[o]
<1>1. Idle.now = EmptySession
  BY DEF Idle
<1>2. CASE saver' = saver
  BY <1>2
<1>3. ASSUME NEW t, NEW o, NEW s, Starts(t, o, s)
      PROVE  \/ \E y \in Savers : saver'[x].now = saver[y].now
             \/ \E q \in Objs : saver'[x].now = obj'[q]
  <2>1. CASE x = t
    <3>1. saver'[x] = Decided(known["gateway"], o, s) /\ obj'[o] = s
      BY <1>3, <2>1, StartFacts
    <3>2. Decided(known["gateway"], o, s).now = s
      BY DecidedIsActive
    <3>3. o \in Objs
      BY <1>3 DEF Starts
    <3> QED BY <3>1, <3>2, <3>3
  <2>2. CASE x # t
    BY <1>3, <2>2, StartFacts
  <2> QED BY <2>1, <2>2
<1>4. CASE /\ \A s \in GatewaySavers : saver'[s] = Idle \/ saver'[s] = saver[s]
                 \/ (s = "late" /\ saver'["late"] = saver["turn"] /\ saver'["turn"] = Idle)
           /\ saver'["webui"] = saver["webui"]
  BY <1>1, <1>4, Names
<1>5. CASE WebTakes
  <2>1. PICK o \in Objs, s \in SessionType : Takes(o, s)
    BY <1>5, WebMakesTakes
  <2>2. CASE x = "webui" /\ saver' # saver
    <3>1. PICK k : saver' = [saver EXCEPT !["webui"] = Decided(k, o, s)]
      BY <2>1, <2>2 DEF Takes
    <3>2. saver'[x] = Decided(k, o, s)
      BY <2>2, <3>1, Names DEF SessionTypes
    <3>3. saver'[x].now = s
      BY <3>2, DecidedIsActive
    <3> QED BY <2>1, <3>3, TakeFacts
  <2> QED BY <2>1, <2>2, TakeFacts, Names
<1>6. ASSUME NEW s \in Savers, SaveGoesOn(s)
      PROVE  saver'[x].now = saver[x].now \/ saver'[x].now = EmptySession
  <2>1. saver[x] \in SaverType
    BY DEF SessionTypes
  <2>2. [saver[x] EXCEPT !.pc = "note"].now = saver[x].now
    BY <2>1 DEF SaverType
  <2> QED BY <1>1, <1>6, <2>2, SaveStep
<1>7. GatewayLooks \/ WebDeletes \/ UNCHANGED sessionVars => saver' = saver
  BY DEF GatewayLooks, TurnOpens, TurnLooksUp, WebDeletes, sessionVars
<1> QED BY <1>2, <1>3, <1>4, <1>5, <1>6, <1>7, WorkSavers, Steps

LEMMA CursorTasks ==
  ASSUME SessionTypes, Records, Apart, Tasks, Cursors, "cleared" \notin hazards',
         [SessionNext]_sessionVars, NEW c \in Consolidators, bg'[c].pc = "calling"
  PROVE  bg'[c].n <= Len(obj'[bg'[c].obj].msgs)
<1>0. c \in Bgs /\ c \notin Learners /\ "cleared" \notin hazards
  BY TasksAssumption, HazardsStay DEF Bgs
<1>1. CASE bg'[c] = bg[c]
  <2>1. bg[c].obj \in Objs /\ bg[c].n <= Len(obj[bg[c].obj].msgs) /\ bg[c].pc # "none"
    BY <1>0, <1>1, TurnObjects DEF Cursors
  <2>2. bg[c].n \in Nat /\ Len(obj[bg[c].obj].msgs) \in Nat
    BY <1>0, <2>1 DEF SessionTypes, SessionType, TaskType
  <2>3. \A b \in Bgs : ~BgSaves(b)
    BY <1>0, CallerSaves
  <2>4. ~NewClears
    BY <1>0, <2>1 DEF NewClears
  <2>5. obj'[bg[c].obj] = obj[bg[c].obj] \/ Len(obj'[bg[c].obj].msgs) >= Len(obj[bg[c].obj].msgs)
    BY <1>0, <2>1, <2>3, <2>4, TaskObject
  <2>6. CASE obj'[bg[c].obj] = obj[bg[c].obj]
    BY <1>1, <2>1, <2>6
  <2>7. CASE /\ Len(obj'[bg[c].obj].msgs) >= Len(obj[bg[c].obj].msgs)
             /\ obj'[bg[c].obj] # obj[bg[c].obj]
    <3>1. obj' \in [Objs -> SessionType]
      BY TypesStep DEF SessionTypes
    <3>2. Len(obj'[bg[c].obj].msgs) \in Nat
      BY <2>1, <3>1 DEF SessionType
    <3>3. bg[c].n <= Len(obj'[bg[c].obj].msgs)
      <4> DEFINE n == bg[c].n
                 a == Len(obj[bg[c].obj].msgs)
                 z == Len(obj'[bg[c].obj].msgs)
      <4>1. n \in Nat /\ a \in Nat /\ z \in Nat /\ n <= a /\ z >= a
        BY <2>1, <2>2, <2>7, <3>2
      <4> HIDE DEF n, a, z
      <4>2. n <= z
        BY <4>1
      <4> QED BY <4>2 DEF n, z
    <3> QED BY <1>1, <3>3
  <2> QED BY <2>5, <2>6, <2>7
<1>2. CASE /\ Summarises(c) /\ bg[c].pc = "due" /\ bg'[c].obj = bg[c].obj
           /\ bg'[c].n \in obj[bg[c].obj].cons + 1 .. Len(obj[bg[c].obj].msgs)
  <2>1. obj' = obj
    BY <1>2 DEF Summarises
  <2>2. bg[c].obj \in Objs
    BY <1>0, <1>2, TurnObjects
  <2> QED BY <1>2, <2>1, <2>2 DEF SessionTypes, SessionType
<1> QED BY <1>0, <1>1, <1>2, TaskAfter

LEMMA CursorsStep ==
  ASSUME SessionTypes, Records, Apart, Tasks, Cursors, [SessionNext]_sessionVars
  PROVE  Cursors'
<1> SUFFICES ASSUME "cleared" \notin hazards'
             PROVE  /\ file'.cons <= Len(file'.msgs)
                    /\ \A o \in Objs : Fits(obj'[o])
                    /\ \A s \in Savers : Fits(saver'[s].now)
                    /\ \A c \in Consolidators : bg'[c].pc = "calling" =>
                         bg'[c].n <= Len(obj'[bg'[c].obj].msgs)
  BY DEF Cursors, Fits
<1>1. "cleared" \notin hazards
  BY HazardsStay
<1>2. Fits(EmptySession) /\ \A s \in Savers : Fits(saver[s].now)
  BY <1>1 DEF Fits, EmptySession, Cursors
<1>3. \A o \in Objs : Fits(obj'[o])
  BY <1>1, CursorObjects
<1>4. \A s \in Savers : Fits(saver'[s].now)
  BY <1>2, <1>3, NowAfter
<1> QED BY <1>1, <1>3, <1>4, CursorFile, CursorTasks

LEMMA OpenStep ==
  ASSUME SessionTypes, Records, Apart, Cursors, Open, [SessionNext]_sessionVars,
         "hidden" \notin hazards', NEW q \in Objs
  PROVE  ~obj'[q].private
<1>0. "hidden" \notin hazards
  BY HazardsStay
<1>1. \A o \in Objs : ~obj[o].private
  BY <1>0 DEF Open
<1>2. CASE obj' = obj
  BY <1>1, <1>2
<1>3. CASE GatewayWorks /\ obj' # obj
  <2>1. PICK t, o, s : Starts(t, o, s) /\ s.private = obj[o].private
    <3>1. CASE TurnSays \/ TurnAnswers
      <4>1. turn.obj \in Objs /\ Adds(turn.obj)
        BY <3>1, TurnObjects DEF TurnSays, TurnAnswers
      <4> DEFINE s == [obj[turn.obj] EXCEPT !.msgs = Append(@, MaxMsgs - left.msgs + 1)]
      <4>2. s.private = obj[turn.obj].private
        BY <4>1, AddsFacts
      <4>3. Starts("turn", turn.obj, s)
        BY <3>1, TurnStarts
      <4> HIDE DEF s
      <4> QED BY <4>2, <4>3
    <3>2. CASE NewClears
      <4> DEFINE s == [obj[turn.obj] EXCEPT !.msgs = <<>>, !.cons = 0]
      <4>1. s.private = obj[turn.obj].private
        BY <3>2, ClearedFacts
      <4>2. Starts("turn", turn.obj, s)
        BY <3>2, ClearStarts
      <4> HIDE DEF s
      <4> QED BY <4>1, <4>2
    <3>3. ASSUME NEW b \in Bgs, BgSaves(b)
          PROVE  \E t, o, s : Starts(t, o, s) /\ s.private = obj[o].private
      <4> DEFINE s == Advanced(b, obj[bg[b].obj])
      <4>1. s.private = obj[bg[b].obj].private
        BY <3>3, AdvancedFacts DEF BgSaves
      <4>2. Starts("loop", bg[b].obj, s)
        BY <3>3, BgStarts
      <4> HIDE DEF s
      <4> QED BY <4>1, <4>2
    <3>4. TurnEnds \/ TurnCancelled \/ NewEnds \/ GatewayRestarts => obj' = obj
      BY DEF TurnEnds, TurnCancelled, NewEnds, GatewayRestarts
    <3>5. ASSUME NEW b \in Bgs, Summarises(b) \/ Chunks(b) \/ Learns(b) \/ BgGivesUp(b)
          PROVE  obj' = obj
      BY <3>5 DEF Summarises, Chunks, Learns, BgGivesUp
    <3> QED BY <1>3, <3>1, <3>2, <3>3, <3>4, <3>5 DEF GatewayWorks
  <2> QED BY <1>1, <2>1, StartFacts DEF Starts
<1>4. ASSUME NEW o \in Objs, obj'[o] = Loaded, \A x \in Objs \ {o} : obj'[x] = obj[x]
      PROVE  ~obj'[q].private
  <2>1. ~Loaded.private
    BY DEF Loaded, EmptySession
  <2> QED BY <1>1, <1>4, <2>1
<1>5. ASSUME NEW o \in Objs, NEW s \in SessionType, Takes(o, s), obj'[o] = s,
             \A x \in Objs \ {o} : obj'[x] = obj[x]
      PROVE  ~obj'[q].private
  BY <1>1, <1>5 DEF Takes
<1> QED BY <1>2, <1>3, <1>4, <1>5, ObjectAfter

LEMMA WrittenStep ==
  ASSUME SessionTypes, Records, Apart, Alone, Written, [SessionNext]_sessionVars,
         NEW x \in Savers, "foreign" \notin hazards' \/ x = "webui",
         saver'[x].pc = "note" \/ (saver'[x].pc = "write" /\ saver'[x].append)
  PROVE  file'.exists
<1>0. "foreign" \notin hazards \/ x = "webui"
  BY HazardsStay
<1>1. Idle.pc = "idle"
  BY DEF Idle
<1>2. \A y \in Savers : (y = "webui" \/ "foreign" \notin hazards)
        /\ (saver[y].pc = "note" \/ (saver[y].pc = "write" /\ saver[y].append)) => file.exists
  BY DEF Written
<1>3. CASE file' = file /\ saver' = saver
  BY <1>0, <1>2, <1>3
<1>4. ASSUME NEW t, NEW o, NEW s, Starts(t, o, s)
      PROVE  file'.exists
  <2>1. CASE x = t
    <3>1. saver'[x].append = CanAppend(known["gateway"], s)
          /\ (saver'[x].pc = "note" => CanAppend(known["gateway"], s))
      BY <1>4, <2>1, StartFacts, DecidedIsActive
    <3>2. file.exists
      BY <3>1 DEF CanAppend
    <3> QED BY <1>4, <3>2 DEF Starts
  <2>2. CASE x # t
    <3>1. saver'[x] = saver[x] /\ file' = file
      BY <1>4, <2>2, StartFacts DEF Starts
    <3> QED BY <1>0, <1>2, <3>1
  <2> QED BY <2>1, <2>2
<1>5. CASE /\ \A s \in GatewaySavers : saver'[s] = Idle \/ saver'[s] = saver[s]
                 \/ (s = "late" /\ saver'["late"] = saver["turn"] /\ saver'["turn"] = Idle)
           /\ saver'["webui"] = saver["webui"] /\ file' = file
  BY <1>0, <1>1, <1>2, <1>5, Names
<1>6. CASE WebTakes
  <2>1. PICK o \in Objs, s \in SessionType : Takes(o, s)
    BY <1>6, WebMakesTakes
  <2>2. CASE x = "webui"
    <3>1. saver' # saver
      BY <2>1, <2>2 DEF Takes
    <3>2. PICK k : saver' = [saver EXCEPT !["webui"] = Decided(k, o, s)] /\ file' = file
      BY <2>1, <3>1 DEF Takes
    <3>3. saver'[x] = Decided(k, o, s)
      BY <2>2, <3>2, Names DEF SessionTypes
    <3>4. CanAppend(k, s)
      BY <3>3, DecidedIsActive
    <3> QED BY <3>2, <3>4 DEF CanAppend
  <2>3. CASE x # "webui"
    <3>1. ~GatewayBusy
      BY <2>1, <2>3 DEF Takes
    <3>2. saver[x].pc = "idle" /\ saver'[x] = saver[x]
      BY <2>1, <2>3, <3>1, TakeFacts, Names DEF GatewayBusy, Saving
    <3> QED BY <3>2
  <2> QED BY <2>2, <2>3
<1>7. CASE WebDeletes
  <2>1. saver' = saver /\ saver["webui"].pc = "idle"
    BY <1>7 DEF WebDeletes
  <2>2. x # "webui" => ~GatewayBusy
    BY <1>7 DEF WebDeletes
  <2>3. saver[x].pc = "idle"
    BY <2>1, <2>2, Names DEF GatewayBusy, Saving
  <2> QED BY <2>1, <2>3
<1>8. ASSUME NEW s \in Savers, SaveWrites(s) PROVE file'.exists
  <2>1. saver[s].append => file' = Appended(saver[s].lines)
    BY <1>8 DEF SaveWrites
  <2>2. ~saver[s].append => file'.exists
    BY <1>8 DEF SaveWrites
  <2>3. saver[s].lines \in Seq(1..MaxMsgs)
    BY DEF SessionTypes, SaverType
  <2> QED BY <2>1, <2>2, <2>3, AppendedFacts
<1>9. ASSUME NEW s \in Savers, SaveNotes(s) \/ SaveFails(s), file' = file PROVE file'.exists
  <2>1. saver' = [saver EXCEPT ![s] = Idle]
    BY <1>9 DEF SaveNotes, SaveFails
  <2>2. saver'[x] = saver[x]
    BY <1>1, <2>1 DEF SessionTypes
  <2> QED BY <1>0, <1>2, <1>9, <2>2
<1>10. ASSUME NEW s \in Savers, SaveNotes(s) \/ SaveFails(s), file' # file PROVE file'.exists
  <2>1. SaveFails(s)
    BY <1>10 DEF SaveNotes
  <2> QED BY <1>10, <2>1, FailedFile
<1>11. GatewayLooks \/ UNCHANGED sessionVars => saver' = saver /\ file' = file
  BY DEF GatewayLooks, TurnOpens, TurnLooksUp, sessionVars
<1>12. GatewayWorks => file' = file
  <2>1. TurnSays \/ TurnAnswers \/ TurnEnds \/ TurnCancelled \/ NewClears \/ NewEnds
        \/ GatewayRestarts => file' = file
    BY DEF TurnSays, TurnAnswers, TurnEnds, TurnCancelled, NewClears, NewEnds, GatewayRestarts, Adds
  <2>2. ASSUME NEW b \in Bgs, Summarises(b) \/ Chunks(b) \/ Learns(b) \/ BgGivesUp(b) \/ BgSaves(b)
        PROVE  file' = file
    BY <2>2 DEF Summarises, Chunks, Learns, BgGivesUp, BgSaves
  <2> QED BY <2>1, <2>2 DEF GatewayWorks
<1> QED BY <1>3, <1>4, <1>5, <1>6, <1>7, <1>8, <1>9, <1>10, <1>11, <1>12, WorkSavers, Steps
        DEF SaveGoesOn

-----------------------------------------------------------------------------
(* The structure of a state                                                *)

\* Who holds which object, and what every disturbance leaves true of that: the
\* invariant on which the others rest.
Shape ==
  /\ SessionTypes /\ Records /\ Apart /\ Alone /\ Snapshots /\ Tasks /\ Cursors /\ Open /\ Written

LEMMA ShapeInit == SessionInit => Shape
<1> SUFFICES ASSUME SessionInit PROVE Shape
  OBVIOUS
<1>0. SessionTypes
  BY TypesInit
<1>1. /\ \A s \in Savers : saver[s].pc = "idle" /\ saver[s].obj = NoObj /\ saver[s].now = EmptySession
      /\ \A b \in Bgs : bg[b].pc = "none" /\ bg[b].obj = NoObj
      /\ turn.pc = "idle" /\ turn.obj = NoObj /\ file = NoFile
      /\ \A o \in Objs : obj[o] = EmptySession
      /\ cache["gateway"] = NoObj /\ cache["webui"] = NoObj
  BY Names DEF SessionInit, Idle, NoTask
<1>2. Records
  BY <1>1 DEF Records, NoFile
<1>3. \A o \in Objs : ~OfGateway(o) /\ ~OfWeb(o)
  BY <1>1, ObjsAssumption, Names DEF OfGateway, OfWeb, Works
<1>4. Apart /\ Alone
  BY <1>1, <1>3, Names DEF Apart, Alone
<1>5. Snapshots /\ Tasks /\ Written
  BY <1>1, Names DEF Snapshots, Tasks, Written, Bgs
<1>6. Cursors /\ Open
  BY <1>1 DEF Cursors, Open, EmptySession, NoFile, Bgs
<1> QED BY <1>0, <1>2, <1>4, <1>5, <1>6 DEF Shape

LEMMA ShapeStep ==
  ASSUME Shape, [SessionNext]_sessionVars
  PROVE  Shape'
<1>0. /\ SessionTypes /\ Records /\ Apart /\ Alone /\ Snapshots /\ Tasks /\ Cursors /\ Open
      /\ Written
  BY DEF Shape
<1>1. SessionTypes' /\ Records'
  BY <1>0, TypesStep, RecordsStep
<1>2. Apart'
  BY <1>0, ApartStep
<1>3. Alone'
  BY <1>0, <1>1, AloneStep
<1>4. Snapshots'
  BY <1>0, SnapshotsStep DEF Snapshots
<1>5. Tasks'
  BY <1>0, <1>1, TasksStep
<1>6. Cursors'
  BY <1>0, CursorsStep
<1>7. Open'
  BY <1>0, OpenStep DEF Open
<1>8. Written'
  BY <1>0, WrittenStep DEF Written
<1> QED BY <1>1, <1>2, <1>3, <1>4, <1>5, <1>6, <1>7, <1>8 DEF Shape

\* The sessions and savers are of their types, and the cursor of what has been
\* summarised, in the file and in every cached session, points into the session
\* (maybe_consolidate_by_tokens): a consolidation that ends after turns, edits, saves and
\* restarts never leaves a cursor past the end, unless /new emptied the session while
\* a background task was under way.
THEOREM SessionIsTyped == SessionSpec => []SessionTypeOK
<1>1. Shape => SessionTypeOK
  BY DEF Shape, SessionTypeOK, SessionTypes, Cursors
<1>2. Shape /\ [SessionNext]_sessionVars => Shape'
  BY ShapeStep
<1> QED BY <1>1, <1>2, ShapeInit, PTL DEF SessionSpec

-----------------------------------------------------------------------------
(* Sequences of messages                                                   *)

LEMMA RangeOfPrefix ==
  ASSUME NEW S, NEW q \in Seq(S), NEW n \in 0..Len(q)
  PROVE  Range(SubSeq(q, 1, n)) \subseteq Range(q)
<1>1. SubSeq(q, 1, n) \in Seq(S) /\ Len(SubSeq(q, 1, n)) = n
      /\ \A i \in 1..n : SubSeq(q, 1, n)[i] = q[i]
  BY PrefixType
<1>2. Range(SubSeq(q, 1, n)) = {SubSeq(q, 1, n)[i] : i \in 1..n}
  BY <1>1, RangeEquality
<1>3. Range(q) = {q[i] : i \in 1..Len(q)}
  BY RangeEquality
<1>4. \A i \in 1..n : i \in 1..Len(q)
  OBVIOUS
<1> QED BY <1>1, <1>2, <1>3, <1>4

\* A sequence cut in two.
LEMMA CutInTwo ==
  ASSUME NEW S, NEW q \in Seq(S), NEW n \in 0..Len(q)
  PROVE  /\ SubSeq(q, 1, n) \in Seq(S) /\ SubSeq(q, n + 1, Len(q)) \in Seq(S)
         /\ SubSeq(q, 1, n) \o SubSeq(q, n + 1, Len(q)) = q
         /\ Range(q) = Range(SubSeq(q, 1, n)) \cup Range(SubSeq(q, n + 1, Len(q)))
<1>1. Len(q) \in Nat /\ n \in Nat /\ n + 1 \in Nat \ {0}
  OBVIOUS
<1>2. SubSeq(q, 1, n) \in Seq(S) /\ SubSeq(q, n + 1, Len(q)) \in Seq(S)
  BY <1>1, PrefixType, SubSeqType
<1>3. 1 \in 1..Len(q) + 1 /\ n \in 1 - 1..Len(q) /\ Len(q) \in n..Len(q)
  BY <1>1
<1>4. SubSeq(q, 1, n) \o SubSeq(q, n + 1, Len(q)) = SubSeq(q, 1, Len(q))
  BY <1>3, ConcatAdjacentSubSeq
<1>5. SubSeq(q, 1, Len(q)) = q
  BY SubSeqFull
<1>6. SubSeq(q, 1, n) \o SubSeq(q, n + 1, Len(q)) = q
  BY <1>4, <1>5
<1>7. Range(SubSeq(q, 1, n) \o SubSeq(q, n + 1, Len(q)))
        = Range(SubSeq(q, 1, n)) \cup Range(SubSeq(q, n + 1, Len(q)))
  BY <1>2, RangeConcatenation
<1> QED BY <1>2, <1>6, <1>7

\* One message more.
LEMMA OneMore ==
  ASSUME NEW S, NEW q \in Seq(S), NEW m \in S
  PROVE  /\ Append(q, m) \in Seq(S) /\ Len(Append(q, m)) = Len(q) + 1
         /\ Range(Append(q, m)) = Range(q) \cup {m}
         /\ \A n \in 0..Len(q) : SubSeq(Append(q, m), 1, n) = SubSeq(q, 1, n)
<1> DEFINE z == Append(q, m)
<1>1. /\ z \in Seq(S) /\ Len(z) = Len(q) + 1
      /\ \A i \in 1..Len(q) : z[i] = q[i]
      /\ z[Len(q) + 1] = m
  BY AppendProperties
<1>2. z = q \o <<m>> /\ <<m>> \in Seq(S)
  BY AppendIsConcat
<1>3. Range(<<m>>) = {m}
  BY DEF Range
<1>6. Range(q \o <<m>>) = Range(q) \cup Range(<<m>>)
  BY <1>2, RangeConcatenation
<1>4. Range(z) = Range(q) \cup {m}
  BY <1>2, <1>3, <1>6
<1> HIDE DEF z
<1>5. ASSUME NEW n \in 0..Len(q) PROVE SubSeq(z, 1, n) = SubSeq(q, 1, n)
  <2>1. n \in 0..Len(z)
    BY <1>1
  <2>2. /\ SubSeq(z, 1, n) \in Seq(S) /\ Len(SubSeq(z, 1, n)) = n
        /\ \A i \in 1..n : SubSeq(z, 1, n)[i] = z[i]
    BY <1>1, <2>1, PrefixType
  <2>3. /\ SubSeq(q, 1, n) \in Seq(S) /\ Len(SubSeq(q, 1, n)) = n
        /\ \A i \in 1..n : SubSeq(q, 1, n)[i] = q[i]
    BY PrefixType
  <2>4. \A i \in 1..n : z[i] = q[i]
    BY <1>1
  <2>5. \A i \in 1..n : SubSeq(z, 1, n)[i] = SubSeq(q, 1, n)[i]
    BY <2>2, <2>3, <2>4
  <2> QED BY <2>2, <2>3, <2>5, SeqEqual
<1> QED BY <1>1, <1>4, <1>5 DEF z

LEMMA NoMessages ==
  ASSUME NEW q
  PROVE  Range(SubSeq(q, 1, 0)) = {} /\ Range(<<>>) = {} /\ SubSeq(q, 1, 0) = <<>>
<1>1. SubSeq(q, 1, 0) = <<>>
  BY SubSeqEmpty
<1>2. Range(<<>>) = {}
  BY DEF Range
<1> QED BY <1>1, <1>2

-----------------------------------------------------------------------------
(* One saver at a time                                                     *)

\* Nobody met anybody else.
Orderly == hazards \cap {"overlap", "split", "foreign"} = {}

\* What a structured state is like then.
LEMMA OrderlyShape ==
  ASSUME Shape, Orderly
  PROVE  /\ \A s, t \in GatewaySavers : saver[s].pc # "idle" /\ saver[t].pc # "idle" => s = t
         /\ saver["webui"].pc = "idle" \/ ~GatewayBusy
         /\ saver["webui"].pc # "idle" =>
              /\ \A s \in GatewaySavers : saver[s].pc = "idle"
              /\ \A o \in Objs : ~Works(o)
         /\ \A o, q \in Objs : OfGateway(o) /\ OfGateway(q) => o = q
         /\ \A s \in Savers : saver[s].pc # "idle" =>
              saver[s].obj \in Objs /\ obj[saver[s].obj] = saver[s].now
         /\ \A s \in Savers : saver[s].pc = "note" \/ (saver[s].pc = "write" /\ saver[s].append) =>
              file.exists
         /\ \A s, t \in Savers : saver[s].pc # "idle" /\ saver[t].pc # "idle" => s = t
<1>0. /\ SessionTypes /\ Records /\ Apart /\ Alone /\ Snapshots /\ Written
  BY DEF Shape
<1>1. "overlap" \notin hazards /\ "split" \notin hazards /\ "foreign" \notin hazards
  BY DEF Orderly
<1>2. /\ \A s, t \in GatewaySavers : saver[s].pc # "idle" /\ saver[t].pc # "idle" => s = t
      /\ saver["webui"].pc = "idle" \/ ~GatewayBusy
      /\ \A o, q \in Objs : OfGateway(o) /\ OfGateway(q) => o = q
  BY <1>0, <1>1 DEF Alone
<1>3. saver["webui"].pc # "idle" =>
        /\ \A s \in GatewaySavers : saver[s].pc = "idle"
        /\ \A o \in Objs : ~Works(o)
  BY <1>0, <1>2, Busy DEF GatewayBusy, Saving
<1>4. \A s \in Savers : saver[s].pc # "idle" =>
        saver[s].obj \in Objs /\ obj[saver[s].obj] = saver[s].now
  BY <1>0, <1>1, TurnObjects DEF Snapshots
<1>5. \A s \in Savers : saver[s].pc = "note" \/ (saver[s].pc = "write" /\ saver[s].append) =>
        file.exists
  BY <1>0, <1>1 DEF Written
<1>6. \A s, t \in Savers : saver[s].pc # "idle" /\ saver[t].pc # "idle" => s = t
  BY <1>2, <1>3, Names
<1> QED BY <1>2, <1>3, <1>4, <1>5, <1>6

\* What a process reads is what the file has.
LEMMA LoadedWhole ==
  ASSUME Shape, "torn" \notin hazards
  PROVE  /\ Loaded.msgs = file.msgs /\ Loaded.cons = file.cons /\ Loaded.learned = file.learned
         /\ Loaded.rev = file.rev /\ Loaded.private = FALSE
         /\ file \in FileType /\ Loaded \in SessionType
         /\ ~file.exists => file = NoFile /\ Loaded = EmptySession
<1>1. SessionTypes /\ Records
  BY DEF Shape
<1>2. file \in FileType /\ Loaded \in SessionType
  BY <1>1, LoadedType DEF SessionTypes
<1>3. CASE file.exists
  <2>1. ~file.torn
    BY <1>1 DEF Records
  <2> QED BY <1>2, <1>3, <2>1 DEF Loaded
<1>4. CASE ~file.exists
  BY <1>1, <1>2, <1>4 DEF Loaded, Records, NoFile, EmptySession
<1> QED BY <1>2, <1>3, <1>4

-----------------------------------------------------------------------------
(* What has been saved stays in the file                                   *)

\* No two savers met, and nothing but saves that raised whole lines disturbed.
Calm == hazards \subseteq {"failed"}

\* What a process takes to be in the file at the start of session s is there.
Sound(k, s) ==
  k.count <= Len(s.msgs) /\ Range(SubSeq(s.msgs, 1, k.count)) \subseteq Range(file.msgs)

\* The session holds what has been saved, and no edit that is yet to come.
Holds(s) == saved \subseteq Range(s.msgs) /\ s.rev <= rev

GatewayKeeps ==
  \A o \in Objs : Live(o) =>
    /\ Holds(obj[o])
    /\ turn.pc # "clearing" =>
         /\ Sound(known["gateway"], obj[o])
         /\ known["gateway"].cons <= obj[o].cons /\ known["gateway"].learned <= obj[o].learned

\* A cached session without a file comes back when the file is deleted.
GatewayNone ==
  stamp["gateway"] = "none" /\ cache["gateway"] # NoObj =>
    /\ known["gateway"].count = 0 /\ known["gateway"].cons = 0 /\ known["gateway"].learned = 0
    /\ obj[cache["gateway"]].rev = 0

WebKeeps ==
  /\ Hit("webui") => Holds(obj[cache["webui"]]) /\ Sound(known["webui"], obj[cache["webui"]])
  /\ Hit("webui") \/ saver["webui"].pc # "idle" => known["webui"].rev <= rev

SaverKeeps(s) ==
  saver[s].pc # "idle" =>
    /\ Holds(saver[s].now)
    /\ saver[s].pc = "write" /\ saver[s].append =>
         Range(saver[s].now.msgs) \subseteq Range(file.msgs) \cup Range(saver[s].lines)
    /\ saver[s].pc = "note" =>
         /\ Range(saver[s].now.msgs) \subseteq Range(file.msgs)
         /\ saver[s].now.msgs = <<>> \/ \A q \in Procs \ {ProcOf(s)} : stamp[q] # "current"

FileKeeps == saved \subseteq Range(file.msgs) /\ file.rev <= rev

Kept ==
  FileKeeps /\ GatewayKeeps /\ GatewayNone /\ WebKeeps /\ \A s \in Savers : SaverKeeps(s)

LEMMA CalmIsOrderly ==
  Calm => /\ Orderly
          /\ \A h \in {"overlap", "split", "foreign", "cleared", "hidden", "torn"} : h \notin hazards
BY DEF Calm, Orderly

LEMMA HitMeans ==
  ASSUME SessionTypes, NEW p \in Procs, Hit(p)
  PROVE  cache[p] \in Objs /\ stamp[p] = IF file.exists THEN "current" ELSE "none"
BY DEF SessionTypes, Hit, Fresh

LEMMA NumbersOf ==
  ASSUME SessionTypes
  PROVE  /\ \A o \in Objs : obj[o] \in SessionType
         /\ \A s \in Savers : saver[s] \in SaverType /\ saver[s].now \in SessionType
         /\ \A p \in Procs : known[p] \in KnownType
         /\ rev \in Nat /\ file \in FileType
BY DEF SessionTypes, SaverType

\* A save of the gateway is started.
LEMMA KeptStart ==
  ASSUME Shape, Shape', Kept, Calm, Calm', NEW t, NEW o, NEW s, Starts(t, o, s), Narrows,
         rev' = rev, saved' \subseteq saved, saved' \subseteq Range(s.msgs), s.rev = obj[o].rev,
         turn'.pc # "clearing" =>
           /\ Sound(known["gateway"], s)
           /\ known["gateway"].cons <= s.cons /\ known["gateway"].learned <= s.learned,
         CanAppend(known["gateway"], s) =>
           /\ Range(s.msgs) \subseteq
                Range(file.msgs) \cup Range(SubSeq(s.msgs, known["gateway"].count + 1, Len(s.msgs)))
           /\ Len(s.msgs) = known["gateway"].count => s.msgs = <<>>
  PROVE  Kept'
<1>0. SessionTypes /\ Records /\ Apart /\ SessionTypes' /\ Records'
  BY DEF Shape
<1>1. /\ o \in Objs /\ Works(o) /\ UNCHANGED <<cache, stamp, known, file>>
      /\ t \in GatewaySavers /\ t \in Savers
  BY <1>0, StartFacts DEF Starts
<1>2. /\ obj'[o] = s /\ \A q \in Objs \ {o} : obj'[q] = obj[q]
      /\ saver'[t] = Decided(known["gateway"], o, s)
      /\ \A x \in Savers \ {t} : saver'[x] = saver[x]
  BY <1>0, StartFacts
<1>3. OfGateway(o)
  BY <1>1, ObjsAssumption DEF OfGateway
<1>4. Orderly /\ Orderly'
  BY CalmIsOrderly DEF Orderly, Calm
<1>5. saver["webui"].pc = "idle" /\ \A x \in GatewaySavers : saver[x].pc = "idle"
  <2>1. \A x \in GatewaySavers : saver[x].pc = "idle"
    BY <1>0, <1>4, StartFacts DEF Orderly
  <2>2. saver["webui"].pc = "idle"
    BY <1>1, <1>4, OrderlyShape
  <2> QED BY <2>1, <2>2
<1>6. \A x \in Savers \ {t} : saver'[x].pc = "idle"
  BY <1>2, <1>5, Names
<1>7. \A q \in Objs : Live(q)' => q = o
  <2>1. \A q \in Objs : Live(q)' => OfGateway(q)
    BY DEF Live, OfGateway, Narrows
  <2>2. \A q, z \in Objs : OfGateway(q) /\ OfGateway(z) => q = z
    BY <1>4, OrderlyShape
  <2> QED BY <1>1, <1>3, <2>1, <2>2
<1>8. cache["webui"] # o
  BY <1>1, <1>3 DEF Shape, Apart, OfWeb, OfGateway
<1>9. GatewayKeeps'
  <2>1. s.rev <= rev
    BY <1>1, <1>7, ObjsAssumption DEF Kept, GatewayKeeps, Live, Holds
  <2> QED BY <1>1, <1>2, <1>7, <2>1 DEF GatewayKeeps, Holds, Sound
<1>10. GatewayNone'
  <2>1. stamp["gateway"] = "none" /\ cache["gateway"] # NoObj =>
           /\ known["gateway"].count = 0 /\ known["gateway"].cons = 0 /\ known["gateway"].learned = 0
    BY DEF Kept, GatewayNone
  <2>2. stamp["gateway"] = "none" /\ cache["gateway"] # NoObj => obj'[cache["gateway"]].rev = 0
    <3>1. CASE cache["gateway"] = o
      BY <1>2, <3>1 DEF Kept, GatewayNone
    <3>2. CASE cache["gateway"] # o
      <4>1. cache["gateway"] # NoObj => cache["gateway"] \in Objs \ {o}
        BY <1>0, <3>2, Names DEF SessionTypes
      <4> QED BY <1>2, <4>1 DEF Kept, GatewayNone
    <3> QED BY <3>1, <3>2
  <2> QED BY <1>1, <2>1, <2>2 DEF GatewayNone
<1>11. WebKeeps'
  <2>1. Hit("webui") => cache["webui"] \in Objs /\ obj'[cache["webui"]] = obj[cache["webui"]]
    BY <1>0, <1>2, <1>8, HitMeans, Names
  <2>2. Hit("webui")' = Hit("webui")
    BY <1>1 DEF Hit, Fresh
  <2>3. saver'["webui"].pc = "idle"
    BY <1>1, <1>6, Names
  <2> QED BY <1>1, <2>1, <2>2, <2>3 DEF Kept, WebKeeps, Holds, Sound
<1>12. \A x \in Savers : SaverKeeps(x)'
  <2>0. s.rev <= rev
    BY <1>1, ObjsAssumption DEF Kept, GatewayKeeps, Live, Holds
  <2>1. \A x \in Savers \ {t} : SaverKeeps(x)'
    BY <1>6 DEF SaverKeeps
  <2>2. SaverKeeps(t)'
    <3>1. saver'[t].now = s /\ saver'[t].append = CanAppend(known["gateway"], s)
      BY <1>2, DecidedIsActive
    <3>0. Decided(known["gateway"], o, s).lines =
            IF CanAppend(known["gateway"], s)
            THEN SubSeq(s.msgs, known["gateway"].count + 1, Len(s.msgs)) ELSE s.msgs
      BY DecidedIsActive
    <3>2. saver'[t].append => saver'[t].lines = SubSeq(s.msgs, known["gateway"].count + 1, Len(s.msgs))
      BY <1>2, <3>0, <3>1
    <3>3. saver'[t].pc = "note" =>
            CanAppend(known["gateway"], s) /\ Len(s.msgs) = known["gateway"].count
      BY <1>2, DecidedIsActive
    <3>4. saver'[t].pc = "note" => s.msgs = <<>> /\ Range(s.msgs) = {}
      BY <3>3, NoMessages
    <3> QED BY <1>1, <2>0, <3>1, <3>2, <3>3, <3>4 DEF SaverKeeps, Holds
  <2> QED BY <2>1, <2>2
<1>13. FileKeeps'
  BY <1>1 DEF Kept, FileKeeps
<1> QED BY <1>9, <1>10, <1>11, <1>12, <1>13 DEF Kept

LEMMA LiveKeeps ==
  ASSUME Kept, NEW o \in Objs, Works(o)
  PROVE  /\ Holds(obj[o])
         /\ turn.pc # "clearing" =>
              /\ Sound(known["gateway"], obj[o])
              /\ known["gateway"].cons <= obj[o].cons /\ known["gateway"].learned <= obj[o].learned
BY ObjsAssumption DEF Kept, GatewayKeeps, Live

\* Session s with one message more.
LEMMA SoundMore ==
  ASSUME SessionTypes, NEW k \in KnownType, NEW s \in SessionType, NEW z \in SessionType,
         NEW m \in 1..MaxMsgs, z.msgs = Append(s.msgs, m), Sound(k, s)
  PROVE  /\ Sound(k, z) /\ Len(z.msgs) # k.count
         /\ Range(z.msgs) = Range(s.msgs) \cup {m}
         /\ Range(z.msgs) \subseteq Range(file.msgs) \cup Range(SubSeq(z.msgs, k.count + 1, Len(z.msgs)))
<1>1. k.count \in 0..Len(s.msgs) /\ s.msgs \in Seq(1..MaxMsgs) /\ k.count \in Nat /\ Len(s.msgs) \in Nat
  BY DEF Sound, KnownType, SessionType
<1>2. /\ Len(z.msgs) = Len(s.msgs) + 1 /\ Range(z.msgs) = Range(s.msgs) \cup {m}
      /\ SubSeq(z.msgs, 1, k.count) = SubSeq(s.msgs, 1, k.count)
  <2>1. /\ Len(Append(s.msgs, m)) = Len(s.msgs) + 1
        /\ Range(Append(s.msgs, m)) = Range(s.msgs) \cup {m}
        /\ \A n \in 0..Len(s.msgs) : SubSeq(Append(s.msgs, m), 1, n) = SubSeq(s.msgs, 1, n)
    <3> DEFINE S == 1..MaxMsgs
               q == s.msgs
    <3>1. q \in Seq(S) /\ m \in S
      BY <1>1
    <3> HIDE DEF S, q
    <3>2. /\ Len(Append(q, m)) = Len(q) + 1
          /\ Range(Append(q, m)) = Range(q) \cup {m}
          /\ \A n \in 0..Len(q) : SubSeq(Append(q, m), 1, n) = SubSeq(q, 1, n)
      BY <3>1, OneMore
    <3> QED BY <3>2 DEF q
  <2> QED BY <1>1, <2>1
<1>3. k.count \in 0..Len(z.msgs) /\ z.msgs \in Seq(1..MaxMsgs) /\ Len(z.msgs) # k.count
        /\ k.count <= Len(z.msgs)
  BY <1>1, <1>2 DEF SessionType
<1>4. Range(SubSeq(z.msgs, 1, k.count)) \subseteq Range(file.msgs)
  BY <1>2 DEF Sound
<1>5. Range(z.msgs) = Range(SubSeq(z.msgs, 1, k.count))
                        \cup Range(SubSeq(z.msgs, k.count + 1, Len(z.msgs)))
  BY <1>3, CutInTwo
<1> QED BY <1>2, <1>3, <1>4, <1>5 DEF Sound

LEMMA KeptTurn ==
  ASSUME Shape, Shape', Kept, Calm, Calm', TurnSays \/ TurnAnswers
  PROVE  Kept'
<1> DEFINE m == MaxMsgs - left.msgs + 1
           s == [obj[turn.obj] EXCEPT !.msgs = Append(@, m)]
<1>0. SessionTypes /\ Records /\ turn.obj \in Objs /\ Adds(turn.obj)
  BY TurnObjects DEF Shape, TurnSays, TurnAnswers
<1>1. Starts("turn", turn.obj, s)
  BY <1>0, TurnStarts
<1>2. /\ m \in 1..MaxMsgs /\ s \in SessionType
      /\ s.msgs = Append(obj[turn.obj].msgs, m) /\ s.cons = obj[turn.obj].cons
      /\ s.learned = obj[turn.obj].learned /\ s.rev = obj[turn.obj].rev
      /\ UNCHANGED <<saved, rev>>
  BY <1>0, AddsFacts
<1> HIDE DEF s, m
<1>3. Narrows
  BY <1>0, NarrowsGateway DEF GatewayWorks
<1>4. turn.pc # "clearing" /\ Works(turn.obj)
  BY DEF TurnSays, TurnAnswers, Works
<1>5. /\ Holds(obj[turn.obj]) /\ Sound(known["gateway"], obj[turn.obj])
      /\ known["gateway"].cons <= obj[turn.obj].cons
      /\ known["gateway"].learned <= obj[turn.obj].learned
  BY <1>0, <1>4, LiveKeeps
<1>6. /\ Sound(known["gateway"], s) /\ Len(s.msgs) # known["gateway"].count
      /\ Range(s.msgs) = Range(obj[turn.obj].msgs) \cup {m}
      /\ Range(s.msgs) \subseteq
           Range(file.msgs) \cup Range(SubSeq(s.msgs, known["gateway"].count + 1, Len(s.msgs)))
  BY <1>0, <1>2, <1>5, SoundMore, NumbersOf, Names
<1>7. saved \subseteq Range(s.msgs)
  BY <1>5, <1>6 DEF Holds
<1>8. known["gateway"].cons <= s.cons /\ known["gateway"].learned <= s.learned
  BY <1>2, <1>5
<1> QED BY <1>1, <1>2, <1>3, <1>6, <1>7, <1>8, KeptStart

\* A cursor was moved: the save is a rewrite.
LEMMA KeptCursor ==
  ASSUME Shape, Shape', Kept, Calm, Calm', NEW b \in Bgs, BgSaves(b)
  PROVE  Kept'
<1> DEFINE o == bg[b].obj
           s == Advanced(b, obj[o])
           k == known["gateway"]
<1>0. SessionTypes /\ Records /\ Tasks /\ bg[b].pc = "calling"
  BY DEF Shape, BgSaves
<1>1. Starts("loop", o, s)
  BY <1>0, BgStarts
<1>2. /\ o \in Objs /\ s \in SessionType
      /\ s.msgs = obj[o].msgs /\ s.rev = obj[o].rev
      /\ s.cons = IF b \in Consolidators THEN bg[b].n ELSE obj[o].cons
      /\ s.learned = IF b \in Consolidators THEN obj[o].learned ELSE obj[o].learned + bg[b].n
  BY <1>0, AdvancedFacts
<1>3. UNCHANGED <<saved, rev, turn>>
  BY DEF BgSaves
<1>4. Narrows
  BY <1>0, NarrowsGateway DEF GatewayWorks
<1>5. turn.pc # "clearing"
  BY <1>0, CalmIsOrderly DEF Tasks
<1> HIDE DEF s
<1>6. Works(o)
  BY <1>1 DEF Starts
<1>7. Holds(obj[o]) /\ Sound(k, obj[o]) /\ k.cons <= obj[o].cons /\ k.learned <= obj[o].learned
  BY <1>2, <1>5, <1>6, LiveKeeps
<1>8. Sound(k, s) /\ saved \subseteq Range(s.msgs)
  BY <1>2, <1>7 DEF Sound, Holds
<1>9. k.cons \in Nat /\ k.learned \in Nat /\ obj[o].cons \in Nat /\ obj[o].learned \in Nat
      /\ bg[b].n \in Nat
  BY <1>0, <1>2, Names DEF SessionTypes, KnownType, SessionType, TaskType
<1>10. k.cons <= s.cons /\ k.learned <= s.learned /\ ~(s.cons = k.cons /\ s.learned = k.learned)
  <2>1. CASE b \in Consolidators
    <3>1. obj[o].cons < bg[b].n /\ s.cons = bg[b].n /\ s.learned = obj[o].learned
      BY <1>0, <1>2, <2>1 DEF Tasks
    <3> QED
      <4> DEFINE c == obj[o].cons
                 d == bg[b].n
                 e == k.cons
      <4>1. e <= c /\ c < d /\ s.cons = d /\ e \in Nat /\ c \in Nat /\ d \in Nat
        BY <1>7, <1>9, <3>1
      <4>2. k.learned <= s.learned
        BY <1>7, <3>1
      <4> HIDE DEF c, d, e
      <4>3. e < d
        BY <4>1
      <4>4. e <= s.cons /\ s.cons # e
        BY <4>1, <4>3
      <4> QED BY <4>2, <4>4 DEF e
  <2>2. CASE b \notin Consolidators
    <3>1. b \in Learners
      BY <2>2 DEF Bgs
    <3>2. bg[b].n > 0 /\ s.cons = obj[o].cons /\ s.learned = obj[o].learned + bg[b].n
      BY <1>0, <1>2, <2>2, <3>1 DEF Tasks
    <3> QED
      <4> DEFINE c == obj[o].learned
                 d == bg[b].n
                 e == k.learned
      <4>1. e <= c /\ d > 0 /\ s.learned = c + d /\ e \in Nat /\ c \in Nat /\ d \in Nat
        BY <1>7, <1>9, <3>2
      <4>2. k.cons <= s.cons
        BY <1>7, <3>2
      <4> HIDE DEF c, d, e
      <4>3. e < c + d
        BY <4>1
      <4>4. e <= s.learned /\ s.learned # e
        BY <4>1, <4>3
      <4> QED BY <4>2, <4>4 DEF e
  <2> QED BY <2>1, <2>2
<1>11. ~CanAppend(k, s)
  BY <1>10 DEF CanAppend
<1> QED BY <1>1, <1>2, <1>3, <1>4, <1>8, <1>10, <1>11, KeptStart

\* /new empties the session.
LEMMA KeptClears ==
  ASSUME Shape, Shape', Kept, Calm, Calm', NewClears
  PROVE  Kept'
<1> DEFINE s == [obj[turn.obj] EXCEPT !.msgs = <<>>, !.cons = 0]
           k == known["gateway"]
<1>0. SessionTypes /\ Records
  BY DEF Shape
<1>1. Starts("turn", turn.obj, s)
  BY <1>0, ClearStarts
<1>2. turn.obj \in Objs /\ s \in SessionType /\ s.msgs = <<>> /\ s.rev = obj[turn.obj].rev
  BY <1>0, ClearedFacts
<1>3. saved' = {} /\ rev' = rev
  BY DEF NewClears
<1>4. turn'.pc = "clearing"
  BY <1>0 DEF NewClears, SessionTypes, TurnType
<1>5. Narrows
  BY <1>0, NarrowsGateway DEF GatewayWorks
<1> HIDE DEF s
<1>6. Range(s.msgs) = {}
  BY <1>2, NoMessages
<1> QED BY <1>1, <1>2, <1>3, <1>4, <1>5, <1>6, KeptStart

\* The gateway's steps that leave the sessions alone.
LEMMA KeptIdle ==
  ASSUME Shape, Shape', Kept, Calm, Calm', GatewayWorks, obj' = obj,
         UNCHANGED <<known, file, saved, rev>>, cache' = cache, stamp' = stamp,
         turn.pc # "clearing" \/ turn'.pc = "clearing",
         \A s \in Savers : saver'[s].pc = "idle" \/ saver'[s] = saver[s]
                            \/ (s = "late" /\ saver'[s] = saver["turn"]),
         saver'["webui"] = saver["webui"]
  PROVE  Kept'
<1>0. SessionTypes /\ Records
  BY DEF Shape
<1>1. \A p \in Procs : Hit(p)' = Hit(p)
  BY DEF Hit, Fresh
<1>2. \A o \in Objs : Live(o)' => Live(o)
  BY <1>0, <1>1, NarrowsGateway, Names DEF Live, Narrows
<1>3. GatewayKeeps'
  BY <1>2 DEF Kept, GatewayKeeps, Holds, Sound
<1>4. GatewayNone' /\ FileKeeps'
  BY DEF Kept, GatewayNone, FileKeeps
<1>5. WebKeeps'
  BY <1>1, Names DEF Kept, WebKeeps, Holds, Sound
<1>6. \A s \in Savers : SaverKeeps(s)'
  <2>1. ASSUME NEW s \in Savers, NEW z \in Savers, saver'[s] = saver[z], ProcOf(s) = ProcOf(z)
        PROVE  SaverKeeps(s)'
    BY <2>1 DEF Kept, SaverKeeps, Holds
  <2>2. ASSUME NEW s \in Savers, saver'[s].pc = "idle" PROVE SaverKeeps(s)'
    BY <2>2 DEF SaverKeeps
  <2> QED BY <2>1, <2>2, Names
<1> QED BY <1>3, <1>4, <1>5, <1>6 DEF Kept

\* The gateway lets go of the session.
LEMMA KeptGone ==
  ASSUME Shape, Shape', Kept, Calm, Calm', obj' = obj, UNCHANGED <<file, saved, rev>>,
         cache'["gateway"] = NoObj, cache'["webui"] = cache["webui"],
         stamp'["gateway"] = "none", stamp'["webui"] = stamp["webui"],
         known'["webui"] = known["webui"],
         saver'["webui"] = saver["webui"],
         \A s \in GatewaySavers : saver'[s].pc = "idle",
         turn'.pc = "idle", \A b \in Bgs : bg'[b].pc = "none"
  PROVE  Kept'
<1>1. \A o \in Objs : ~Works(o)'
  <2>1. SessionTypes' /\ Records'
    BY DEF Shape
  <2> QED BY <2>1, BusyAfter DEF GatewayBusy, Saving
<1>2. \A o \in Objs : ~Live(o)'
  BY <1>1 DEF Live, Hit
<1>3. GatewayKeeps' /\ GatewayNone' /\ FileKeeps'
  BY <1>2 DEF Kept, GatewayKeeps, GatewayNone, FileKeeps
<1>4. Hit("webui")' = Hit("webui")
  BY DEF Hit, Fresh
<1>5. WebKeeps'
  BY <1>4 DEF Kept, WebKeeps, Holds, Sound
<1>6. \A s \in Savers : SaverKeeps(s)'
  <2>1. \A s \in GatewaySavers : SaverKeeps(s)'
    BY DEF SaverKeeps
  <2>2. \A q \in Procs \ {ProcOf("webui")} : stamp'[q] # "current"
    BY Names
  <2>3. SaverKeeps("webui")'
    BY <2>2, Names DEF Kept, SaverKeeps, Holds
  <2> QED BY <2>1, <2>3, Names
<1> QED BY <1>3, <1>5, <1>6 DEF Kept

LEMMA KeptWorks ==
  ASSUME Shape, Shape', Kept, Calm, Calm', GatewayWorks
  PROVE  Kept'
<1>0. SessionTypes /\ SessionTypes' /\ Records /\ Tasks
  BY DEF Shape
<1>1. CASE TurnEnds
  <2>1. obj' = obj /\ UNCHANGED <<known, file, saved, rev, cache, stamp, saver>>
        /\ turn.pc # "clearing"
    BY <1>1 DEF TurnEnds
  <2> QED BY <2>1, KeptIdle
<1>2. CASE TurnCancelled
  <2>1. obj' = obj /\ UNCHANGED <<known, file, saved, rev, cache, stamp>> /\ turn.pc # "clearing"
    BY <1>2 DEF TurnCancelled
  <2>2. CASE saver' = saver
    BY <2>1, <2>2, KeptIdle
  <2>3. CASE saver' = [saver EXCEPT !["late"] = saver["turn"], !["turn"] = Idle]
    <3>1. \A s \in Savers : s = "late" \/ s = "turn" \/ saver'[s] = saver[s]
      BY <1>0, <2>3 DEF SessionTypes
    <3>2. saver'["late"] = saver["turn"] /\ saver'["turn"] = Idle
      BY <1>0, <2>3, Names DEF SessionTypes
    <3>3. Idle.pc = "idle"
      BY DEF Idle
    <3>4. \A s \in Savers : saver'[s].pc = "idle" \/ saver'[s] = saver[s]
                              \/ (s = "late" /\ saver'[s] = saver["turn"])
      BY <3>1, <3>2, <3>3
    <3>5. saver'["webui"] = saver["webui"]
      BY <3>1, Names
    <3> QED BY <2>1, <3>4, <3>5, KeptIdle
  <2> QED BY <1>2, <2>2, <2>3 DEF TurnCancelled
<1>3. ASSUME NEW b \in Bgs, Summarises(b) \/ Chunks(b) \/ Learns(b) \/ BgGivesUp(b)
      PROVE  Kept'
  <2>1. obj' = obj /\ UNCHANGED <<known, file, saved, rev, cache, stamp, saver, turn>>
    BY <1>3 DEF Summarises, Chunks, Learns, BgGivesUp
  <2> QED BY <2>1, KeptIdle
<1>4. CASE NewEnds
  <2>1. /\ obj' = obj /\ UNCHANGED <<known, file, saved, rev, saver, bg>>
        /\ turn'.pc = "idle"
        /\ cache' = [cache EXCEPT !["gateway"] = NoObj]
        /\ stamp' = [stamp EXCEPT !["gateway"] = "none"]
    BY <1>4 DEF NewEnds
  <2>2. \A b \in Bgs : bg[b].pc = "none"
    BY <1>0, <1>4, CalmIsOrderly DEF Tasks, NewEnds
  <2>3. saver["turn"].pc = "idle" /\ saver["loop"].pc = "idle" /\ saver["late"].pc = "idle"
    BY <1>0, <1>4, CalmIsOrderly DEF Tasks, NewEnds
  <2>4. \A s \in GatewaySavers : saver'[s].pc = "idle"
    BY <2>1, <2>3, Names
  <2>5. /\ cache'["gateway"] = NoObj /\ cache'["webui"] = cache["webui"]
        /\ stamp'["gateway"] = "none" /\ stamp'["webui"] = stamp["webui"]
    BY <1>0, <2>1, Names DEF SessionTypes
  <2> QED BY <2>1, <2>2, <2>4, <2>5, KeptGone
<1>5. CASE GatewayRestarts
  <2>1. /\ obj' = obj /\ UNCHANGED <<file, saved, rev>>
        /\ turn'.pc = "idle" /\ \A b \in Bgs : bg'[b].pc = "none"
    BY <1>5 DEF GatewayRestarts, NoTask
  <2>2. /\ cache'["gateway"] = NoObj /\ cache'["webui"] = cache["webui"]
        /\ stamp'["gateway"] = "none" /\ stamp'["webui"] = stamp["webui"]
        /\ known'["webui"] = known["webui"]
    BY <1>0, <1>5, Names DEF SessionTypes, GatewayRestarts
  <2>3. saver'["webui"] = saver["webui"] /\ \A s \in GatewaySavers : saver'[s].pc = "idle"
    BY <1>5, Names DEF GatewayRestarts, Idle
  <2> QED BY <2>1, <2>2, <2>3, KeptGone
<1> QED BY <1>1, <1>2, <1>3, <1>4, <1>5, KeptTurn, KeptCursor, KeptClears DEF GatewayWorks

-----------------------------------------------------------------------------
\* What has been read is all there.
LEMMA LoadedKeeps ==
  ASSUME Shape, Kept, Calm
  PROVE  /\ Holds(Loaded) /\ Len(Loaded.msgs) = Len(file.msgs)
         /\ \A k : k.count = Len(Loaded.msgs) => Sound(k, Loaded)
         /\ ~file.exists => Loaded = EmptySession
<1>1. /\ Loaded.msgs = file.msgs /\ Loaded.rev = file.rev /\ Loaded \in SessionType
      /\ ~file.exists => Loaded = EmptySession
  BY CalmIsOrderly, LoadedWhole
<1>2. Holds(Loaded)
  BY <1>1 DEF Kept, FileKeeps, Holds
<1>3. Loaded.msgs \in Seq(1..MaxMsgs) /\ Len(Loaded.msgs) \in Nat
  BY <1>1 DEF SessionType
<1>4. SubSeq(Loaded.msgs, 1, Len(Loaded.msgs)) = Loaded.msgs
  BY <1>3, SubSeqFull
<1>5. ASSUME NEW k, k.count = Len(Loaded.msgs) PROVE Sound(k, Loaded)
  <2>1. SubSeq(Loaded.msgs, 1, k.count) = file.msgs
    BY <1>1, <1>4, <1>5
  <2>2. k.count <= Len(Loaded.msgs)
    BY <1>3, <1>5
  <2> QED BY <2>1, <2>2 DEF Sound
<1> QED BY <1>1, <1>2, <1>5

LEMMA KeptLooks ==
  ASSUME Shape, Shape', Kept, Calm, Calm', GatewayLooks
  PROVE  Kept'
<1>0. SessionTypes /\ Records /\ Apart /\ SessionTypes' /\ Records'
  BY DEF Shape
<1>1. PICK o \in Objs :
         /\ GetOrCreate("gateway", o) /\ obj' = [obj EXCEPT ![o] = Content("gateway")]
         /\ ~OfWeb(o)
         /\ \A q \in Objs : /\ Works(q)' => q = o \/ Works(q)
                            /\ OfGateway(q)' => q = o \/ Works(q)
                            /\ OfWeb(q)' <=> OfWeb(q)
  BY <1>0, LookFacts
<1>2. UNCHANGED <<file, saver, saved, rev>>
  BY DEF GatewayLooks, TurnOpens, TurnLooksUp
<1>3. /\ cache'["gateway"] = o /\ cache'["webui"] = cache["webui"]
      /\ Hit("gateway") => o = cache["gateway"] /\ obj' = obj /\ UNCHANGED <<cache, stamp, known>>
      /\ ~Hit("gateway") =>
           /\ ~Works(o) /\ obj'[o] = Loaded
           /\ stamp'["gateway"] = IF file.exists THEN "current" ELSE "none"
           /\ known'["gateway"] = [known |-> TRUE, count |-> Len(Loaded.msgs), cons |-> Loaded.cons,
                                   learned |-> Loaded.learned, rev |-> Loaded.rev]
      /\ \A q \in Objs \ {o} : obj'[q] = obj[q]
      /\ stamp'["webui"] = stamp["webui"] /\ known'["webui"] = known["webui"]
  BY <1>0, <1>1, GatewayLookup
<1>4. turn.pc # "clearing"
  BY DEF GatewayLooks, TurnOpens, TurnLooksUp
<1>5. saver["webui"].pc = "idle"
  <2>1. CASE TurnOpens
    BY <2>1, CalmIsOrderly DEF TurnOpens, Saving, Calm
  <2>2. CASE TurnLooksUp
    BY <2>2, CalmIsOrderly, OrderlyShape DEF TurnLooksUp, GatewayBusy
  <2> QED BY <2>1, <2>2 DEF GatewayLooks
<1>6. ~Hit("gateway") => \A q \in Objs : ~Works(q)
  <2>1. ~Hit("gateway") => "split" \in hazards' \/ ~GatewayBusy
    BY DEF GatewayLooks, TurnOpens, TurnLooksUp, Split
  <2>2. "split" \notin hazards'
    BY DEF Calm
  <2> QED BY <1>0, <2>1, <2>2, Busy
<1>7. GatewayKeeps'
  <2>1. CASE Hit("gateway")
    <3>1. \A q \in Objs : Live(q)' => Live(q)
      BY <1>1, <1>2, <1>3, <2>1, ObjsAssumption DEF Live, Hit, Fresh
    <3>2. UNCHANGED <<obj, known, file, saved, rev>>
      BY <1>2, <1>3, <2>1
    <3> QED BY <1>4, <3>1, <3>2 DEF Kept, GatewayKeeps, Holds, Sound
  <2>2. CASE ~Hit("gateway")
    <3>1. \A q \in Objs : Live(q)' => q = o
      BY <1>1, <1>3, <1>6, <2>2 DEF Live
    <3>2. Holds(Loaded) /\ Sound(known'["gateway"], Loaded)
      BY <1>3, <2>2, LoadedKeeps
    <3>3. known'["gateway"].cons = Loaded.cons /\ known'["gateway"].learned = Loaded.learned
      BY <1>3, <2>2
    <3>4. Loaded.cons \in Nat /\ Loaded.learned \in Nat
      BY <1>0, LoadedType DEF SessionType
    <3>5. known'["gateway"].cons <= Loaded.cons /\ known'["gateway"].learned <= Loaded.learned
      BY <3>3, <3>4
    <3> QED BY <1>2, <1>3, <2>2, <3>1, <3>2, <3>5 DEF GatewayKeeps, Holds, Sound
  <2> QED BY <2>1, <2>2
<1>8. GatewayNone'
  <2>1. CASE Hit("gateway")
    BY <1>3, <2>1 DEF Kept, GatewayNone
  <2>2. CASE ~Hit("gateway")
    <3>1. stamp'["gateway"] = "none" => Loaded = EmptySession
      BY <1>3, <2>2, LoadedKeeps
    <3> QED BY <1>3, <2>2, <3>1 DEF GatewayNone, EmptySession
  <2> QED BY <2>1, <2>2
<1>9. WebKeeps'
  <2>1. Hit("webui")' = Hit("webui")
    BY <1>2, <1>3 DEF Hit, Fresh
  <2>2. Hit("webui") => cache["webui"] \in Objs /\ cache["webui"] # o
    BY <1>0, <1>1, HitMeans, Names, ObjsAssumption DEF OfWeb
  <2>3. Hit("webui") => obj'[cache["webui"]] = obj[cache["webui"]]
    BY <1>3, <2>2
  <2> QED BY <1>2, <1>3, <2>1, <2>3 DEF Kept, WebKeeps, Holds, Sound
<1>10. \A s \in Savers : SaverKeeps(s)'
  <2>1. ASSUME NEW s \in GatewaySavers, saver[s].pc # "idle" PROVE SaverKeeps(s)'
    <3>1. s \in Savers /\ ProcOf(s) = "gateway"
      BY Names
    <3>2. \A q \in Procs \ {ProcOf(s)} : stamp'[q] = stamp[q]
      BY <1>3, <3>1, Names
    <3> QED BY <1>2, <3>1, <3>2 DEF Kept, SaverKeeps, Holds
  <2>2. \A s \in Savers : saver[s].pc = "idle" => SaverKeeps(s)'
    BY <1>2 DEF SaverKeeps
  <2> QED BY <1>5, <2>1, <2>2, Names
<1>11. FileKeeps'
  BY <1>2 DEF Kept, FileKeeps
<1> QED BY <1>7, <1>8, <1>9, <1>10, <1>11 DEF Kept

-----------------------------------------------------------------------------
\* A save of the WebUI goes by what the WebUI knows of the file then.
WebStarts(o, s) ==
  /\ Takes(o, s) /\ ~s.private
  /\ saver' = [saver EXCEPT !["webui"] = Decided(known'["webui"], o, s)]
  /\ stamp'["gateway"] = stamp["gateway"] /\ known'["gateway"] = known["gateway"]

LEMMA SavesKnow ==
  ASSUME SessionTypes, NEW s \in SessionType, ~s.private, WebSaves(s)
  PROVE  \E o \in Objs : GetOrCreate("webui", o) /\ WebStarts(o, s)
<1>1. PICK o \in Objs :
         /\ obj' = [obj EXCEPT ![o] = s]
         /\ GetOrCreate("webui", o) /\ file' = file
         /\ saver' = [saver EXCEPT !["webui"] = Decided(known'["webui"], o, s)]
  BY DEF WebSaves
<1>2. IsLookup("webui", o) /\ cache' = [cache EXCEPT !["webui"] = o]
  BY <1>1, Names DEF GetOrCreate, IsLookup, SessionTypes
<1>3. known'["webui"] \in KnownType
  BY TypesWebSaves, Names
<1>4. saver["webui"].pc = "idle" /\ UNCHANGED <<turn, bg>>
      /\ hazards \cup (IF GatewayBusy THEN {"foreign"} ELSE {}) \subseteq hazards'
  BY DEF WebSaves
<1>5. Takes(o, s)
  BY <1>1, <1>2, <1>3, <1>4 DEF Takes
<1>6. stamp'["gateway"] = stamp["gateway"] /\ known'["gateway"] = known["gateway"]
  BY <1>1, Names DEF GetOrCreate, SessionTypes
<1> QED BY <1>1, <1>5, <1>6 DEF WebStarts

LEMMA RewritesKnow ==
  ASSUME SessionTypes, NEW s \in SessionType, ~s.private, WebRewrites(s)
  PROVE  \E o \in Objs : WebStarts(o, s) /\ known'["webui"] = Unknown
<1>1. PICK o \in Objs :
       /\ IsLookup("webui", o)
       /\ obj' = [obj EXCEPT ![o] = s]
       /\ cache' = [cache EXCEPT !["webui"] = o]
       /\ saver' = [saver EXCEPT !["webui"] = Decided(Unknown, o, s)]
  BY DEF WebRewrites
<1>2. saver["webui"].pc = "idle" /\ UNCHANGED <<turn, bg, file>>
      /\ hazards \cup (IF GatewayBusy THEN {"foreign"} ELSE {}) \subseteq hazards'
  BY DEF WebRewrites
<1>3. Takes(o, s)
  BY <1>1, <1>2, EmptyTypes DEF Takes
<1>4. /\ stamp'["gateway"] = stamp["gateway"] /\ known'["gateway"] = known["gateway"]
      /\ known'["webui"] = Unknown
  BY Names DEF WebRewrites, SessionTypes
<1> QED BY <1>1, <1>3, <1>4 DEF WebStarts

LEMMA KeptTake ==
  ASSUME Shape, Shape', Kept, Calm, Calm', NEW o, NEW s, WebStarts(o, s),
         saved' \subseteq saved, rev' \in Nat, rev' >= rev, saved' \subseteq Range(s.msgs), s.rev <= rev',
         known'["webui"].rev <= rev', Sound(known'["webui"], s),
         CanAppend(known'["webui"], s) =>
           /\ Range(s.msgs) \subseteq
                Range(file.msgs) \cup Range(SubSeq(s.msgs, known'["webui"].count + 1, Len(s.msgs)))
           /\ Len(s.msgs) # known'["webui"].count
  PROVE  Kept'
<1>0. SessionTypes /\ Records /\ Apart /\ SessionTypes' /\ Records' /\ Takes(o, s) /\ ~s.private
  BY DEF Shape, WebStarts
<1>1. /\ ~OfGateway(o) /\ o \in Objs
      /\ obj'[o] = s /\ \A q \in Objs \ {o} : obj'[q] = obj[q]
      /\ cache'["webui"] = o /\ cache'["gateway"] = cache["gateway"]
      /\ \A x \in GatewaySavers : saver'[x] = saver[x]
      /\ \A q \in Objs : (Works(q)' <=> Works(q)) /\ (OfGateway(q)' <=> OfGateway(q))
  BY <1>0, TakeFacts DEF Takes
<1>2. file' = file /\ saver'["webui"] = Decided(known'["webui"], o, s)
      /\ stamp'["gateway"] = stamp["gateway"] /\ known'["gateway"] = known["gateway"]
  BY <1>0, Names DEF Takes, WebStarts, SessionTypes
<1>3. ~GatewayBusy
  BY <1>0 DEF Takes, Calm
<1>4. \A x \in GatewaySavers : saver'[x].pc = "idle"
  BY <1>1, <1>3 DEF GatewayBusy, Saving
<1>5. \A q \in Objs : Live(q)' => Live(q) /\ obj'[q] = obj[q]
  <2>1. Hit("gateway")' = Hit("gateway")
    BY <1>1, <1>2 DEF Hit, Fresh
  <2>2. \A q \in Objs : Live(q) => OfGateway(q)
    BY DEF Live, OfGateway
  <2>3. \A q \in Objs : Live(q)' => Live(q)
    BY <1>1, <2>1 DEF Live
  <2> QED BY <1>1, <2>2, <2>3
<1>6. rev \in Nat /\ file.rev \in Nat /\ \A q \in Objs : obj[q].rev \in Nat
  BY <1>0 DEF SessionTypes, FileType, SessionType
<1>7. \A n \in Nat : n <= rev => n <= rev'
  BY <1>6
<1>8. turn' = turn
  BY <1>0 DEF Takes
<1>9. GatewayKeeps'
  BY <1>2, <1>5, <1>6, <1>7, <1>8 DEF Kept, GatewayKeeps, Holds, Sound
<1>10. GatewayNone'
  <2>1. cache["gateway"] # NoObj => cache["gateway"] \in Objs /\ cache["gateway"] # o
    BY <1>0, <1>1, Names DEF SessionTypes, OfGateway
  <2> QED BY <1>1, <1>2, <2>1 DEF Kept, GatewayNone
<1>11. WebKeeps'
  BY <1>1, <1>2 DEF WebKeeps, Holds, Sound
<1>12. \A x \in Savers : SaverKeeps(x)'
  <2>1. \A x \in GatewaySavers : SaverKeeps(x)'
    BY <1>4 DEF SaverKeeps
  <2>2. SaverKeeps("webui")'
    <3> DEFINE k == known'["webui"]
    <3>1. Decided(k, o, s).now = s /\ Decided(k, o, s).append = CanAppend(k, s)
      BY DecidedIsActive
    <3>4. Decided(k, o, s).lines =
            IF CanAppend(k, s) THEN SubSeq(s.msgs, k.count + 1, Len(s.msgs)) ELSE s.msgs
      BY DecidedIsActive
    <3>2. CanAppend(k, s) => Decided(k, o, s).lines = SubSeq(s.msgs, k.count + 1, Len(s.msgs))
      BY <3>4
    <3>3. Decided(k, o, s).pc # "note"
      BY DecidedIsActive
    <3> QED BY <1>2, <3>1, <3>2, <3>3 DEF SaverKeeps, Holds
  <2> QED BY <2>1, <2>2, Names
<1>13. FileKeeps'
  BY <1>2, <1>6, <1>7 DEF Kept, FileKeeps
<1> QED BY <1>9, <1>10, <1>11, <1>12, <1>13 DEF Kept

\* What the WebUI finds when it looks the session up.
LEMMA ContentKeeps ==
  ASSUME Shape, Kept, Calm
  PROVE  /\ Holds(Content("webui"))
         /\ \A o \in Objs : GetOrCreate("webui", o) =>
              Sound(known'["webui"], Content("webui")) /\ known'["webui"].rev <= rev
<1>0. SessionTypes
  BY DEF Shape
<1>1. CASE Hit("webui")
  <2>1. Content("webui") = obj[cache["webui"]]
    BY <1>1 DEF Content
  <2>2. \A o \in Objs : GetOrCreate("webui", o) => known' = known
    BY <1>1 DEF GetOrCreate
  <2> QED BY <1>1, <2>1, <2>2 DEF Kept, WebKeeps
<1>2. CASE ~Hit("webui")
  <2>1. Content("webui") = Loaded
    BY <1>2 DEF Content
  <2>2. ASSUME NEW o \in Objs, GetOrCreate("webui", o)
        PROVE  known'["webui"].count = Len(Loaded.msgs) /\ known'["webui"].rev = Loaded.rev
    BY <1>0, <1>2, <2>2, Names DEF GetOrCreate, SessionTypes
  <2> QED BY <2>1, <2>2, LoadedKeeps DEF Holds
<1> QED BY <1>1, <1>2

LEMMA KeptEdits ==
  ASSUME Shape, Shape', Kept, Calm, Calm', WebEdits
  PROVE  Kept'
<1> DEFINE s == [Content("webui") EXCEPT !.rev = rev + 1]
<1>0. SessionTypes
  BY DEF Shape
<1>1. s \in SessionType /\ s.rev = rev + 1 /\ s.msgs = Content("webui").msgs
  BY <1>0, EditedFacts
<1>2. WebSaves(s) /\ rev' = rev + 1 /\ saved' = saved /\ rev \in Nat
  BY <1>0 DEF WebEdits, SessionTypes
<1> HIDE DEF s
<1>3. ~s.private
  BY <1>2 DEF WebSaves, Calm
<1>4. PICK o \in Objs : GetOrCreate("webui", o) /\ WebStarts(o, s)
  BY <1>0, <1>1, <1>2, <1>3, SavesKnow
<1>5. Holds(Content("webui")) /\ Sound(known'["webui"], Content("webui")) /\ known'["webui"].rev <= rev
  BY <1>4, ContentKeeps
<1>6. Sound(known'["webui"], s) /\ saved' \subseteq Range(s.msgs)
  BY <1>1, <1>2, <1>5 DEF Sound, Holds
<1>7. known'["webui"].rev \in Nat
  BY Names DEF Shape, SessionTypes, KnownType
<1>8. ~CanAppend(known'["webui"], s)
  BY <1>1, <1>2, <1>5, <1>7 DEF CanAppend
<1>9. known'["webui"].rev <= rev' /\ s.rev <= rev' /\ rev' \in Nat /\ rev' >= rev
  BY <1>1, <1>2, <1>5, <1>7
<1> QED BY <1>2, <1>4, <1>6, <1>8, <1>9, KeptTake

\* A session that is hidden is not one of these.
LEMMA KeptHides ==
  ASSUME SessionTypes, Calm', WebHides
  PROVE  FALSE
<1>1. [Content("webui") EXCEPT !.private = TRUE].private
  BY HiddenFacts
<1>2. WebSaves([Content("webui") EXCEPT !.private = TRUE])
  BY DEF WebHides
<1> QED BY <1>1, <1>2 DEF WebSaves, Calm

LEMMA KeptNotifies ==
  ASSUME Shape, Shape', Kept, Calm, Calm', WebNotifies
  PROVE  Kept'
<1> DEFINE m == MaxMsgs - left.msgs + 1
           c == Content("webui")
           s == [Content("webui") EXCEPT !.msgs = Append(@, m)]
           k == known'["webui"]
<1>0. SessionTypes /\ left.msgs > 0 /\ c \in SessionType
  BY ContentType, Names DEF Shape, WebNotifies
<1>1. m \in 1..MaxMsgs /\ s \in SessionType /\ s.rev = c.rev /\ s.msgs = Append(c.msgs, m)
  BY <1>0, NotifiedFacts
<1>2. WebSaves(s) /\ rev' = rev /\ saved' = saved /\ rev \in Nat
  BY <1>0 DEF WebNotifies, SessionTypes
<1> HIDE DEF s, m, c
<1>3. ~s.private
  BY <1>2 DEF WebSaves, Calm
<1>4. PICK o \in Objs : GetOrCreate("webui", o) /\ WebStarts(o, s)
  BY <1>0, <1>1, <1>2, <1>3, SavesKnow
<1>5. Holds(c) /\ Sound(k, c) /\ k.rev <= rev
  BY <1>4, ContentKeeps DEF c
<1>6. k \in KnownType
  BY Names DEF Shape, SessionTypes
<1> HIDE DEF k
<1>7. /\ Sound(k, s) /\ Len(s.msgs) # k.count
      /\ Range(s.msgs) = Range(c.msgs) \cup {m}
      /\ Range(s.msgs) \subseteq Range(file.msgs) \cup Range(SubSeq(s.msgs, k.count + 1, Len(s.msgs)))
  BY <1>0, <1>1, <1>5, <1>6, SoundMore
<1>8. saved' \subseteq Range(s.msgs) /\ s.rev <= rev' /\ k.rev <= rev' /\ rev' >= rev /\ rev' \in Nat
  BY <1>1, <1>2, <1>5, <1>7 DEF Holds
<1> QED BY <1>2, <1>4, <1>7, <1>8, KeptTake DEF k

LEMMA KeptRewinds ==
  ASSUME Shape, Shape', Kept, Calm, Calm', WebRewinds
  PROVE  Kept'
<1>0. SessionTypes
  BY DEF Shape
<1>1. PICK n \in 0 .. Len(Content("webui").msgs) - 1 :
        /\ IF RewoundTo(n).private THEN WebSaves(RewoundTo(n)) ELSE WebRewrites(RewoundTo(n))
        /\ saved' = saved \cap Range(RewoundTo(n).msgs) /\ rev' = rev
  BY DEF WebRewinds
<1> DEFINE s == RewoundTo(n)
<1>2. s \in SessionType /\ s.rev = Content("webui").rev
  BY <1>0, RewoundFacts
<1>3. ~s.private /\ WebRewrites(s)
  BY <1>1 DEF WebSaves, Calm
<1>4. saved' \subseteq saved /\ saved' \subseteq Range(s.msgs) /\ rev' = rev /\ rev \in Nat
  BY <1>0, <1>1 DEF SessionTypes
<1> HIDE DEF s
<1>5. PICK o \in Objs : WebStarts(o, s) /\ known'["webui"] = Unknown
  BY <1>0, <1>2, <1>3, RewritesKnow
<1>6. s.rev <= rev
  BY <1>2, ContentKeeps DEF Holds
<1>7. ~CanAppend(Unknown, s) /\ Unknown.rev = 0 /\ Unknown.count = 0
  BY DEF CanAppend, Unknown
<1>8. Sound(Unknown, s)
  BY <1>2, <1>7, NoMessages DEF Sound, SessionType
<1>9. known'["webui"].rev <= rev'
  BY <1>4, <1>5, <1>7
<1>10. rev' \in Nat /\ rev' >= rev /\ s.rev <= rev'
  BY <1>4, <1>6
<1> QED BY <1>4, <1>5, <1>7, <1>8, <1>9, <1>10, KeptTake

LEMMA KeptDeletes ==
  ASSUME Shape, Shape', Kept, Calm, Calm', WebDeletes
  PROVE  Kept'
<1>0. SessionTypes /\ Records
  BY DEF Shape
<1>1. /\ UNCHANGED <<obj, known, saver, turn, bg>> /\ file' = NoFile /\ saved' = {} /\ rev' = 0
      /\ cache' = [cache EXCEPT !["webui"] = NoObj] /\ saver["webui"].pc = "idle"
      /\ stamp' = [Aged EXCEPT !["webui"] = "none"]
  BY DEF WebDeletes
<1>2. ~GatewayBusy
  BY DEF WebDeletes, Calm
<1>3. /\ cache'["webui"] = NoObj /\ cache'["gateway"] = cache["gateway"]
      /\ stamp'["gateway"] = IF stamp["gateway"] = "current" THEN "old" ELSE stamp["gateway"]
  BY <1>0, <1>1, Names DEF SessionTypes, Aged
<1>4. ~file'.exists /\ file'.rev = 0
  BY <1>1 DEF NoFile
<1>5. \A o \in Objs : Live(o)' => o = cache["gateway"] /\ stamp["gateway"] = "none"
  <2>1. \A o \in Objs : ~Works(o)'
    BY <1>0, <1>1, <1>2, Busy DEF Works
  <2>2. Hit("gateway")' => stamp'["gateway"] = "none"
    BY <1>4 DEF Hit, Fresh
  <2>3. stamp'["gateway"] = "none" => stamp["gateway"] = "none"
    BY <1>3
  <2> QED BY <1>3, <2>1, <2>2, <2>3 DEF Live
<1>6. GatewayNone'
  BY <1>1, <1>3 DEF Kept, GatewayNone
<1>7. GatewayKeeps'
  <2> SUFFICES ASSUME NEW o \in Objs, Live(o)'
               PROVE  /\ Holds(obj[o])'
                      /\ Sound(known["gateway"], obj[o])'
                      /\ known["gateway"].cons <= obj'[o].cons
                      /\ known["gateway"].learned <= obj'[o].learned
    BY <1>1 DEF GatewayKeeps
  <2>1. /\ known["gateway"].count = 0 /\ known["gateway"].cons = 0 /\ known["gateway"].learned = 0
        /\ obj[o].rev = 0
    BY <1>5, ObjsAssumption DEF Kept, GatewayNone
  <2>2. obj[o] \in SessionType /\ Len(obj[o].msgs) \in Nat /\ obj[o].cons \in Nat /\ obj[o].learned \in Nat
    BY <1>0 DEF SessionTypes, SessionType
  <2>3. Sound(known["gateway"], obj[o])'
    BY <1>1, <2>1, <2>2, NoMessages DEF Sound
  <2> QED BY <1>1, <2>1, <2>2, <2>3 DEF Holds
<1>8. WebKeeps'
  BY <1>1, <1>3 DEF WebKeeps, Hit
<1>9. \A s \in Savers : SaverKeeps(s)'
  BY <1>1, <1>2, Names DEF GatewayBusy, Saving, SaverKeeps
<1>10. FileKeeps'
  BY <1>1, <1>4 DEF FileKeeps
<1> QED BY <1>6, <1>7, <1>8, <1>9, <1>10 DEF Kept

\* The file's mtime moves on: no cache is current.
LEMMA AgedMisses ==
  ASSUME SessionTypes, stamp' = Aged, file'.exists, NEW p \in Procs
  PROVE  /\ ~Hit(p)' /\ stamp'[p] # "current" /\ (stamp'[p] = "none" => stamp[p] = "none")
BY DEF SessionTypes, Aged, Hit, Fresh

\* A save writes the file, or a part of what it has to write.
LEMMA KeptFile ==
  ASSUME Shape, Shape', Kept, Calm, Calm', NEW s \in Savers, SaveGoesOn(s), stamp' = Aged, file'.exists,
         UNCHANGED <<cache, known, saved, rev>>,
         saved \subseteq Range(file'.msgs), file'.rev <= rev,
         \A o \in Objs : Works(o) => Range(file.msgs) \subseteq Range(file'.msgs)
                                     \/ Range(obj[o].msgs) \subseteq Range(file'.msgs),
         saver'[s] = Idle \/ (/\ saver'[s] = [saver[s] EXCEPT !.pc = "note"]
                             /\ Range(saver[s].now.msgs) \subseteq Range(file'.msgs))
  PROVE  Kept'
<1>0. SessionTypes /\ Records
  BY DEF Shape
<1>1. UNCHANGED <<obj, turn, bg>> /\ saver[s].pc # "idle"
      /\ \A x \in Savers \ {s} : saver'[x] = saver[x]
  BY <1>0, SaveStep
<1>2. \A x \in Savers \ {s} : saver'[x].pc = "idle"
  BY <1>1, CalmIsOrderly, OrderlyShape
<1>3. \A p \in Procs : ~Hit(p)' /\ stamp'[p] # "current" /\ (stamp'[p] = "none" => stamp[p] = "none")
  BY <1>0, AgedMisses
<1>4. \A o \in Objs : Live(o)' => Works(o)
  BY <1>0, <1>3, NarrowsSave, Names DEF Live, Narrows
<1>5. GatewayKeeps'
  <2> SUFFICES ASSUME NEW o \in Objs, Works(o)
               PROVE  /\ Holds(obj[o])
                      /\ turn.pc # "clearing" =>
                           /\ Sound(known["gateway"], obj[o])'
                           /\ known["gateway"].cons <= obj[o].cons
                           /\ known["gateway"].learned <= obj[o].learned
    BY <1>1, <1>4 DEF GatewayKeeps, Holds
  <2>1. /\ Holds(obj[o])
        /\ turn.pc # "clearing" =>
             /\ Sound(known["gateway"], obj[o])
             /\ known["gateway"].cons <= obj[o].cons /\ known["gateway"].learned <= obj[o].learned
    BY LiveKeeps
  <2>2. Sound(known["gateway"], obj[o]) => Sound(known["gateway"], obj[o])'
    <3> SUFFICES ASSUME Sound(known["gateway"], obj[o])
                 PROVE  Range(SubSeq(obj[o].msgs, 1, known["gateway"].count)) \subseteq Range(file'.msgs)
      BY <1>1 DEF Sound
    <3> DEFINE q == obj[o].msgs
               n == known["gateway"].count
    <3>1. q \in Seq(1..MaxMsgs) /\ n \in 0..Len(q)
      BY <1>0, Names DEF Sound, SessionTypes, SessionType, KnownType
    <3>2. Range(SubSeq(q, 1, n)) \subseteq Range(file.msgs)
      BY DEF Sound
    <3> HIDE DEF q, n
    <3>3. Range(SubSeq(q, 1, n)) \subseteq Range(q)
      BY <3>1, RangeOfPrefix
    <3>4. Range(file.msgs) \subseteq Range(file'.msgs) \/ Range(q) \subseteq Range(file'.msgs)
      BY DEF q
    <3>5. Range(SubSeq(q, 1, n)) \subseteq Range(file'.msgs)
      BY <3>2, <3>3, <3>4
    <3> QED BY <3>5 DEF q, n
  <2> QED BY <2>1, <2>2
<1>6. GatewayNone'
  BY <1>1, <1>3, Names DEF Kept, GatewayNone
<1>7. WebKeeps'
  <2>1. saver'["webui"].pc # "idle" => saver["webui"].pc # "idle"
    BY <1>1, <1>2, Names
  <2> QED BY <1>3, <2>1, Names DEF Kept, WebKeeps
<1>8. \A x \in Savers : SaverKeeps(x)'
  <2>1. \A x \in Savers \ {s} : SaverKeeps(x)'
    BY <1>2 DEF SaverKeeps
  <2>2. CASE saver'[s] = Idle
    <3>1. saver'[s].pc = "idle"
      BY <2>2 DEF Idle
    <3> QED BY <2>1, <3>1 DEF SaverKeeps
  <2>3. CASE /\ saver'[s] = [saver[s] EXCEPT !.pc = "note"]
             /\ Range(saver[s].now.msgs) \subseteq Range(file'.msgs)
    <3>1. saver[s] \in SaverType
      BY <1>0, NumbersOf
    <3>2. saver'[s].pc = "note" /\ saver'[s].now = saver[s].now
      BY <2>3, <3>1 DEF SaverType
    <3>3. Holds(saver[s].now)
      BY <1>1 DEF Kept, SaverKeeps
    <3> QED BY <1>3, <2>1, <2>3, <3>2, <3>3 DEF SaverKeeps, Holds
  <2> QED BY <2>2, <2>3
<1>9. FileKeeps'
  BY DEF FileKeeps
<1> QED BY <1>5, <1>6, <1>7, <1>8, <1>9 DEF Kept

LEMMA KeptWrites ==
  ASSUME Shape, Shape', Kept, Calm, Calm', NEW s \in Savers, SaveWrites(s)
  PROVE  Kept'
<1>0. SessionTypes /\ Records
  BY DEF Shape
<1>1. /\ saver[s].pc = "write" /\ stamp' = Aged /\ saver' = [saver EXCEPT ![s].pc = "note"]
      /\ UNCHANGED <<cache, known, saved, rev>> /\ SaveGoesOn(s)
  BY DEF SaveWrites, SaveGoesOn
<1>2. saver'[s] = [saver[s] EXCEPT !.pc = "note"]
  BY <1>0, <1>1 DEF SessionTypes
<1>3. saver[s] \in SaverType /\ obj[saver[s].obj] = saver[s].now /\ saver[s].obj \in Objs
  BY <1>0, <1>1, NumbersOf, CalmIsOrderly, OrderlyShape
<1>4. Holds(saver[s].now) /\ file.rev <= rev /\ saved \subseteq Range(file.msgs)
      /\ (saver[s].append =>
            Range(saver[s].now.msgs) \subseteq Range(file.msgs) \cup Range(saver[s].lines))
  BY <1>1 DEF Kept, SaverKeeps, FileKeeps
<1>5. CASE saver[s].append
  <2>1. saver[s].lines \in Seq(1..MaxMsgs) /\ file.msgs \in Seq(1..MaxMsgs)
    BY <1>0, <1>3 DEF SaverType, SessionTypes, FileType
  <2>2. file' = Appended(saver[s].lines)
    BY <1>5 DEF SaveWrites
  <2>3. file'.exists /\ file'.msgs = file.msgs \o saver[s].lines /\ file'.rev = file.rev
    BY <1>0, <2>1, <2>2, AppendedFacts
  <2>4. Range(file'.msgs) = Range(file.msgs) \cup Range(saver[s].lines)
    BY <2>1, <2>3, RangeConcatenation
  <2>5. saved \subseteq Range(file'.msgs) /\ Range(file.msgs) \subseteq Range(file'.msgs)
        /\ Range(saver[s].now.msgs) \subseteq Range(file'.msgs) /\ file'.rev <= rev
    BY <1>4, <1>5, <2>3, <2>4
  <2> QED BY <1>1, <1>2, <2>3, <2>5, KeptFile
<1>6. CASE ~saver[s].append
  <2>1. file'.exists /\ file'.msgs = saver[s].now.msgs /\ file'.rev = saver[s].now.rev
    BY <1>3, <1>6 DEF SaveWrites
  <2>2. \A o \in Objs : Works(o) => obj[o] = saver[s].now
    <3>1. CASE s = "webui"
      BY <1>1, <3>1, CalmIsOrderly, OrderlyShape
    <3>2. CASE s # "webui"
      <4>1. OfGateway(saver[s].obj)
        BY <1>3, <3>2, Names, ObjsAssumption DEF OfGateway, Works
      <4>2. \A o \in Objs : Works(o) => OfGateway(o)
        BY ObjsAssumption DEF OfGateway
      <4>3. \A o \in Objs : Works(o) => o = saver[s].obj
        BY <1>3, <4>1, <4>2, CalmIsOrderly, OrderlyShape
      <4> QED BY <1>3, <4>3
    <3> QED BY <3>1, <3>2
  <2>3. saved \subseteq Range(file'.msgs) /\ file'.rev <= rev
        /\ Range(saver[s].now.msgs) \subseteq Range(file'.msgs)
        /\ \A o \in Objs : Works(o) => Range(obj[o].msgs) \subseteq Range(file'.msgs)
    BY <1>4, <2>1, <2>2 DEF Holds
  <2> QED BY <1>1, <1>2, <2>1, <2>3, KeptFile
<1> QED BY <1>5, <1>6

LEMMA KeptFails ==
  ASSUME Shape, Shape', Kept, Calm, Calm', NEW s \in Savers, SaveFails(s)
  PROVE  Kept'
<1>0. SessionTypes /\ Records
  BY DEF Shape
<1>1. /\ saver[s].pc = "write" /\ saver' = [saver EXCEPT ![s] = Idle]
      /\ UNCHANGED <<obj, cache, known, turn, bg, saved, rev>> /\ SaveGoesOn(s)
  BY DEF SaveFails, SaveGoesOn
<1>2. saver'[s] = Idle /\ saver'[s].pc = "idle" /\ \A x \in Savers \ {s} : saver'[x] = saver[x]
  BY <1>0, <1>1 DEF SessionTypes, Idle
<1>3. CASE file' = file /\ stamp' = stamp
  <2>1. \A p \in Procs : Hit(p)' = Hit(p)
    BY <1>1, <1>3 DEF Hit, Fresh
  <2>2. \A o \in Objs : Live(o)' => Live(o)
    BY <1>0, <1>1, <2>1, NarrowsSave, Names DEF Live, Narrows
  <2>3. GatewayKeeps' /\ GatewayNone' /\ FileKeeps'
    BY <1>1, <1>3, <2>2 DEF Kept, GatewayKeeps, GatewayNone, FileKeeps, Holds, Sound
  <2>4. saver'["webui"].pc # "idle" => saver["webui"].pc # "idle"
    BY <1>2, Names
  <2>5. WebKeeps'
    BY <1>1, <1>3, <2>1, <2>4, Names DEF Kept, WebKeeps, Holds, Sound
  <2>6. \A x \in Savers : SaverKeeps(x)'
    BY <1>1, <1>2, <1>3 DEF Kept, SaverKeeps, Holds
  <2> QED BY <2>3, <2>5, <2>6 DEF Kept
<1>4. ASSUME stamp' = Aged, file'.exists, file'.rev = file.rev, NEW n \in 1..Len(saver[s].lines),
             SubSeq(saver[s].lines, 1, n) \in Seq(1..MaxMsgs),
             file'.msgs = file.msgs \o SubSeq(saver[s].lines, 1, n)
      PROVE  Kept'
  <2>1. file.msgs \in Seq(1..MaxMsgs)
    BY <1>0 DEF SessionTypes, FileType
  <2>2. Range(file'.msgs) = Range(file.msgs) \cup Range(SubSeq(saver[s].lines, 1, n))
    <3> DEFINE q == SubSeq(saver[s].lines, 1, n)
    <3>1. q \in Seq(1..MaxMsgs) /\ file'.msgs = file.msgs \o q
      BY <1>4
    <3> HIDE DEF q
    <3>2. Range(file'.msgs) = Range(file.msgs) \cup Range(q)
      BY <2>1, <3>1, RangeConcatenation
    <3> QED BY <3>2 DEF q
  <2>3. Range(file.msgs) \subseteq Range(file'.msgs)
    BY <2>2
  <2>4. saved \subseteq Range(file'.msgs) /\ file'.rev <= rev
    BY <1>4, <2>3 DEF Kept, FileKeeps
  <2> QED BY <1>1, <1>2, <1>4, <2>3, <2>4, KeptFile
<1> QED BY <1>0, <1>3, <1>4, FailedFile

\* What save() remembers is what the file has.
LEMMA NotedSound ==
  ASSUME Shape, Kept, Calm, NEW s \in Savers, SaveNotes(s)
  PROVE  /\ saver[s].obj \in Objs /\ obj[saver[s].obj] = saver[s].now /\ file.exists
         /\ Noted(s).count = Len(saver[s].now.msgs)
         /\ Sound(Noted(s), saver[s].now)
         /\ saver[s].append => /\ Noted(s).cons = known[ProcOf(s)].cons
                               /\ Noted(s).learned = known[ProcOf(s)].learned
                               /\ Noted(s).rev = known[ProcOf(s)].rev
         /\ ~saver[s].append => /\ Noted(s).cons = saver[s].now.cons
                                /\ Noted(s).learned = saver[s].now.learned
                                /\ Noted(s).rev = saver[s].now.rev
         /\ Range(saver[s].now.msgs) \subseteq Range(file.msgs)
<1>0. SessionTypes /\ saver[s].pc = "note"
  BY DEF Shape, SaveNotes
<1>1. saver[s].obj \in Objs /\ obj[saver[s].obj] = saver[s].now /\ file.exists
  BY <1>0, CalmIsOrderly, OrderlyShape
<1>2. known[ProcOf(s)] \in KnownType
  BY <1>0, Names, NumbersOf
<1>3. /\ Noted(s).count = Len(saver[s].now.msgs)
      /\ saver[s].append => /\ Noted(s).cons = known[ProcOf(s)].cons
                            /\ Noted(s).learned = known[ProcOf(s)].learned
                            /\ Noted(s).rev = known[ProcOf(s)].rev
      /\ ~saver[s].append => /\ Noted(s).cons = saver[s].now.cons
                             /\ Noted(s).learned = saver[s].now.learned
                             /\ Noted(s).rev = saver[s].now.rev
  BY <1>1, <1>2 DEF Noted, KnownType
<1>4. Range(saver[s].now.msgs) \subseteq Range(file.msgs)
  BY <1>0 DEF Kept, SaverKeeps
<1>5. saver[s].now.msgs \in Seq(1..MaxMsgs)
  BY <1>0, NumbersOf DEF SessionType
<1>6. Sound(Noted(s), saver[s].now)
  <2>1. SubSeq(saver[s].now.msgs, 1, Noted(s).count) = saver[s].now.msgs
    BY <1>3, <1>5, SubSeqFull
  <2>2. Noted(s).count <= Len(saver[s].now.msgs)
    BY <1>3, <1>5
  <2> QED BY <1>4, <2>1, <2>2 DEF Sound
<1> QED BY <1>1, <1>3, <1>4, <1>6

LEMMA KeptNotes ==
  ASSUME Shape, Shape', Kept, Calm, Calm', NEW s \in Savers, SaveNotes(s)
  PROVE  Kept'
<1> DEFINE now == saver[s].now
           o == saver[s].obj
           p == ProcOf(s)
           k == Noted(s)
<1>0. SessionTypes /\ Records /\ SaveGoesOn(s) /\ saver[s].pc = "note" /\ now \in SessionType
  BY NumbersOf DEF Shape, SaveNotes, SaveGoesOn
<1>1. /\ o \in Objs /\ obj[o] = now /\ file.exists /\ k.count = Len(now.msgs) /\ Sound(k, now)
      /\ saver[s].append => k.cons = known[p].cons /\ k.learned = known[p].learned
                            /\ k.rev = known[p].rev
      /\ ~saver[s].append => k.cons = now.cons /\ k.learned = now.learned /\ k.rev = now.rev
      /\ Range(now.msgs) \subseteq Range(file.msgs)
  BY NotedSound
<1>2. /\ UNCHANGED <<obj, file, turn, bg, rev>> /\ saved' = saved \cup Range(now.msgs)
      /\ known' = [known EXCEPT ![p] = k]
      /\ cache' = [cache EXCEPT ![p] = o]
      /\ stamp' = [stamp EXCEPT ![p] = "current"]
      /\ saver' = [saver EXCEPT ![s] = Idle]
  BY <1>1 DEF SaveNotes
<1> HIDE DEF k
<1>3. p \in Procs
  BY Names
<1> HIDE DEF p
<1>4. /\ known'[p] = k /\ cache'[p] = o /\ stamp'[p] = "current" /\ saver'[s].pc = "idle"
      /\ \A q \in Procs \ {p} : known'[q] = known[q] /\ cache'[q] = cache[q] /\ stamp'[q] = stamp[q]
      /\ \A x \in Savers \ {s} : saver'[x] = saver[x]
  BY <1>0, <1>2, <1>3 DEF SessionTypes, Idle
<1>5. \A x \in Savers : saver'[x].pc = "idle"
  BY <1>0, <1>4, CalmIsOrderly, OrderlyShape
<1>6. Holds(now) /\ (now.msgs = <<>> \/ \A q \in Procs \ {p} : stamp[q] # "current")
  BY <1>0 DEF Kept, SaverKeeps, p
<1>7. saved \cup Range(now.msgs) \subseteq Range(now.msgs) /\ now.rev <= rev
  BY <1>6 DEF Holds
<1>8. \A q \in Procs \ {p} : Hit(q)' => Hit(q) /\ saved' = saved
  <2>1. ASSUME NEW q \in Procs \ {p}, Hit(q)' PROVE Hit(q) /\ saved' = saved
    <3>1. Hit(q)
      BY <1>2, <1>4, <2>1 DEF Hit, Fresh
    <3>2. stamp[q] = "current"
      BY <1>1, <3>1 DEF Hit, Fresh
    <3>3. now.msgs = <<>>
      BY <1>6, <3>2
    <3> QED BY <1>2, <3>1, <3>3, NoMessages
  <2> QED BY <2>1
<1>9. \A q \in Objs : Works(q)' => Works(q)
  BY <1>0, NarrowsSave DEF Narrows
<1>10. FileKeeps'
  BY <1>1, <1>2 DEF Kept, FileKeeps
<1>11. \A x \in Savers : SaverKeeps(x)'
  BY <1>5 DEF SaverKeeps
<1>12. CASE s = "webui"
  <2>1. p = "webui"
    BY <1>12, Names DEF p
  <2>2. \A q \in Objs : ~Works(q)
    BY <1>0, <1>12, CalmIsOrderly, OrderlyShape
  <2>3. \A q \in Objs : Live(q)' => Live(q) /\ saved' = saved
    BY <1>4, <1>8, <1>9, <2>1, <2>2, Names DEF Live
  <2>4. known'["gateway"] = known["gateway"] /\ stamp'["gateway"] = stamp["gateway"]
        /\ cache'["gateway"] = cache["gateway"]
    BY <1>4, <2>1, Names
  <2>5. GatewayKeeps'
    BY <1>2, <2>3, <2>4 DEF Kept, GatewayKeeps, Holds, Sound
  <2>6. GatewayNone'
    BY <1>2, <2>4 DEF Kept, GatewayNone
  <2>7. k.rev <= rev
    <3>1. known["webui"].rev <= rev
      BY <1>0, <1>12 DEF Kept, WebKeeps
    <3> QED BY <1>1, <1>7, <2>1, <3>1
  <2>8. WebKeeps'
    BY <1>1, <1>2, <1>4, <1>7, <2>1, <2>7 DEF WebKeeps, Holds, Sound
  <2> QED BY <1>10, <1>11, <2>5, <2>6, <2>8 DEF Kept
<1>13. CASE s # "webui"
  <2>1. p = "gateway" /\ s \in GatewaySavers
    BY <1>13, Names DEF p
  <2>2. OfGateway(o) /\ Works(o)
    BY <1>1, <2>1, ObjsAssumption DEF OfGateway, Works
  <2>3. \A q \in Objs : Live(q)' => q = o
    <3>1. \A q \in Objs : Works(q) => q = o
      BY <1>1, <2>2, CalmIsOrderly, OrderlyShape, ObjsAssumption DEF OfGateway
    <3> QED BY <1>4, <1>9, <2>1, <3>1 DEF Live
  <2>4. turn.pc # "clearing" => k.cons <= now.cons /\ k.learned <= now.learned
    <3>1. turn.pc # "clearing" => known[p].cons <= now.cons /\ known[p].learned <= now.learned
      BY <1>1, <2>1, <2>2, LiveKeeps
    <3>2. now.cons \in Nat /\ now.learned \in Nat
      BY <1>0 DEF SessionType
    <3> QED BY <1>1, <3>1, <3>2
  <2>5. GatewayKeeps'
    BY <1>1, <1>2, <1>4, <1>7, <2>1, <2>3, <2>4 DEF GatewayKeeps, Holds, Sound
  <2>6. GatewayNone'
    BY <1>4, <2>1 DEF GatewayNone
  <2>7. Hit("webui")' => Hit("webui") /\ saved' = saved
    BY <1>8, <2>1, Names
  <2>8. known'["webui"] = known["webui"] /\ cache'["webui"] = cache["webui"]
    BY <1>4, <2>1, Names
  <2>9. WebKeeps'
    BY <1>2, <1>5, <2>7, <2>8, Names DEF Kept, WebKeeps, Holds, Sound
  <2> QED BY <1>10, <1>11, <2>5, <2>6, <2>9 DEF Kept
<1> QED BY <1>12, <1>13

LEMMA KeptInit == SessionInit => Kept
<1> SUFFICES ASSUME SessionInit PROVE Kept
  OBVIOUS
<1>1. /\ \A s \in Savers : saver[s].pc = "idle" /\ saver[s].obj = NoObj
      /\ \A b \in Bgs : bg[b].obj = NoObj
      /\ turn.obj = NoObj /\ file = NoFile /\ saved = {} /\ rev = 0
      /\ cache["gateway"] = NoObj /\ cache["webui"] = NoObj
  BY Names DEF SessionInit, Idle, NoTask
<1>2. \A o \in Objs : ~Live(o)
  BY <1>1, ObjsAssumption, Names DEF Live, Works, Hit
<1>3. GatewayKeeps /\ GatewayNone
  BY <1>1, <1>2 DEF GatewayKeeps, GatewayNone
<1>4. WebKeeps /\ \A s \in Savers : SaverKeeps(s)
  BY <1>1, Names DEF WebKeeps, SaverKeeps, Hit
<1>5. FileKeeps
  BY <1>1 DEF FileKeeps, NoFile
<1> QED BY <1>3, <1>4, <1>5 DEF Kept

LEMMA KeptStep ==
  ASSUME Shape, Shape', Calm => Kept, Calm', [SessionNext]_sessionVars
  PROVE  Kept'
<1>0. SessionTypes
  BY DEF Shape
<1>1. Calm /\ Kept
  BY <1>0, HazardsStay DEF Calm
<1>2. CASE UNCHANGED sessionVars
  BY <1>1, <1>2 DEF sessionVars, Kept, FileKeeps, GatewayKeeps, GatewayNone, WebKeeps, SaverKeeps,
                    Holds, Sound, Live, Works, Hit, Fresh
<1>3. CASE WebTakes
  BY <1>0, <1>1, <1>3, KeptEdits, KeptNotifies, KeptRewinds, KeptHides DEF WebTakes
<1>4. ASSUME NEW s \in Savers, SaveGoesOn(s) PROVE Kept'
  BY <1>1, <1>4, KeptWrites, KeptNotes, KeptFails DEF SaveGoesOn
<1> QED BY <1>1, <1>2, <1>3, <1>4, Steps, KeptLooks, KeptWorks, KeptDeletes

-----------------------------------------------------------------------------
(* What is saved is saved once                                             *)

\* No two savers met, and no save failed.
Whole == hazards \subseteq {"cleared", "hidden"}

\* The session is what the file holds, and the process knows how long that is.
Same(s, k) == s.msgs = file.msgs /\ k.count = Len(file.msgs)

GatewayExact ==
  ~Saving(GatewaySavers) =>
    /\ \A o \in Objs : Live(o) => Same(obj[o], known["gateway"])
    /\ stamp["gateway"] = "none" /\ cache["gateway"] # NoObj =>
         obj[cache["gateway"]].msgs = <<>> /\ known["gateway"].count = 0

WebExact ==
  saver["webui"].pc = "idle" =>
    /\ Hit("webui") /\ ~obj[cache["webui"]].private => Same(obj[cache["webui"]], known["webui"])
    /\ cache["webui"] # NoObj /\ stamp["webui"] = "none" => obj[cache["webui"]].private

SaverExact(s) ==
  /\ saver[s].pc = "write" /\ saver[s].append => file.msgs \o saver[s].lines = saver[s].now.msgs
  /\ saver[s].pc = "note" => file.msgs = saver[s].now.msgs

Exact == GatewayExact /\ WebExact /\ \A s \in Savers : SaverExact(s)

LEMMA WholeIsOrderly ==
  Whole => /\ Orderly
           /\ \A h \in {"overlap", "split", "foreign", "failed", "torn"} : h \notin hazards
BY DEF Whole, Orderly

\* The session that is to be saved begins with what the file holds.
Continues(k, s) ==
  k.count = Len(file.msgs) /\ (k.count <= Len(s.msgs) => SubSeq(s.msgs, 1, k.count) = file.msgs)

LEMMA DecidedExact ==
  ASSUME NEW k \in KnownType, NEW o, NEW s \in SessionType, Continues(k, s)
  PROVE  /\ Decided(k, o, s).append => file.msgs \o Decided(k, o, s).lines = s.msgs
         /\ Decided(k, o, s).pc = "note" => file.msgs = s.msgs
<1> DEFINE q == s.msgs
           n == k.count
<1>1. q \in Seq(1..MaxMsgs) /\ n \in Nat /\ Len(q) \in Nat
  BY DEF SessionType, KnownType
<1>2. /\ Decided(k, o, s).append = CanAppend(k, s)
      /\ Decided(k, o, s).lines =
           IF CanAppend(k, s) THEN SubSeq(q, n + 1, Len(q)) ELSE q
      /\ Decided(k, o, s).pc = "note" => CanAppend(k, s) /\ Len(q) = n
  BY DecidedIsActive
<1>3. n <= Len(q) => SubSeq(q, 1, n) = file.msgs
  BY DEF Continues
<1>4. CanAppend(k, s) => n <= Len(q)
  BY <1>1 DEF CanAppend
<1> HIDE DEF q, n
<1>5. n <= Len(q) => SubSeq(q, 1, n) \o SubSeq(q, n + 1, Len(q)) = q
  <2>1. n <= Len(q) => n \in 0..Len(q)
    BY <1>1
  <2> QED BY <1>1, <2>1, CutInTwo
<1>6. Len(q) = n => SubSeq(q, 1, n) = q /\ n <= Len(q)
  BY <1>1, SubSeqFull
<1>7. Decided(k, o, s).append => file.msgs \o Decided(k, o, s).lines = q
  BY <1>2, <1>3, <1>4, <1>5
<1>8. Decided(k, o, s).pc = "note" => file.msgs = q
  BY <1>2, <1>3, <1>6
<1> QED BY <1>7, <1>8 DEF q

LEMMA ContinuesMore ==
  ASSUME SessionTypes, NEW k \in KnownType, NEW s \in SessionType,
         k.count = Len(file.msgs),
         \/ s.msgs = file.msgs \/ s.msgs = <<>>
         \/ \E m \in 1..MaxMsgs : s.msgs = Append(file.msgs, m)
  PROVE  Continues(k, s)
<1> DEFINE S == 1..MaxMsgs
           q == file.msgs
<1>1. q \in Seq(S) /\ Len(q) \in Nat
  BY DEF SessionTypes, FileType
<1> HIDE DEF S, q
<1>2. SubSeq(q, 1, Len(q)) = q
  BY <1>1, SubSeqFull
<1>3. \A m \in S : SubSeq(Append(q, m), 1, Len(q)) = SubSeq(q, 1, Len(q))
  <2>1. \A m \in S, n \in 0..Len(q) : SubSeq(Append(q, m), 1, n) = SubSeq(q, 1, n)
    BY <1>1, OneMore
  <2>2. Len(q) \in 0..Len(q)
    BY <1>1
  <2> QED BY <2>1, <2>2
<1>4. Len(<<>>) = 0 /\ (Len(q) <= 0 => q = <<>> /\ Len(q) = 0)
  BY <1>1, EmptySeq
<1>5. SubSeq(<<>>, 1, 0) = <<>>
  BY NoMessages
<1>6. CASE s.msgs = <<>>
  BY <1>4, <1>5, <1>6 DEF Continues, q
<1>7. CASE s.msgs = file.msgs
  BY <1>2, <1>7 DEF Continues, q
<1>8. ASSUME NEW m \in 1..MaxMsgs, s.msgs = Append(file.msgs, m) PROVE Continues(k, s)
  BY <1>2, <1>3, <1>8 DEF Continues, q, S
<1> QED BY <1>6, <1>7, <1>8

\* A save of the gateway is started.
LEMMA ExactStart ==
  ASSUME Shape, Shape', Exact, Whole, Whole', NEW t, NEW o, NEW s, Starts(t, o, s), Narrows,
         Continues(known["gateway"], s)
  PROVE  Exact'
<1>0. SessionTypes /\ Records /\ Apart
  BY DEF Shape
<1>1. /\ o \in Objs /\ s \in SessionType /\ Works(o) /\ UNCHANGED <<cache, stamp, known, file>>
      /\ t \in GatewaySavers /\ t \in Savers
  BY <1>0, StartFacts DEF Starts
<1>2. /\ obj'[o] = s /\ \A q \in Objs \ {o} : obj'[q] = obj[q]
      /\ saver'[t] = Decided(known["gateway"], o, s)
      /\ \A x \in Savers \ {t} : saver'[x] = saver[x]
      /\ \A x \in GatewaySavers : saver[x].pc = "idle"
  BY <1>0, WholeIsOrderly, StartFacts DEF Whole
<1>3. saver["webui"].pc = "idle" /\ cache["webui"] # o
  <2>1. saver["webui"].pc = "idle"
    BY <1>1, WholeIsOrderly, OrderlyShape
  <2>2. cache["webui"] # o
    BY <1>0, <1>1, ObjsAssumption DEF Apart, OfWeb, OfGateway
  <2> QED BY <2>1, <2>2
<1>4. \A x \in Savers \ {t} : saver'[x].pc = "idle"
  BY <1>2, <1>3, Names
<1>5. saver'[t].pc # "idle"
  BY <1>2, DecidedIsActive
<1>6. GatewayExact'
  BY <1>1, <1>5 DEF GatewayExact, Saving
<1>7. WebExact'
  <2>1. cache["webui"] # NoObj => obj'[cache["webui"]] = obj[cache["webui"]]
    BY <1>0, <1>2, <1>3, Names DEF SessionTypes
  <2>2. Hit("webui")' = Hit("webui") /\ (Hit("webui") => cache["webui"] # NoObj)
    BY <1>1 DEF Hit, Fresh
  <2> QED BY <1>1, <1>3, <2>1, <2>2 DEF Exact, WebExact, Same
<1>8. SaverExact(t)'
  <2>1. known["gateway"] \in KnownType
    BY <1>0, NumbersOf, Names
  <2>2. Decided(known["gateway"], o, s).now = s
    BY DecidedIsActive
  <2>3. /\ saver'[t].now = s /\ file' = file
        /\ saver'[t].append => file.msgs \o saver'[t].lines = s.msgs
        /\ saver'[t].pc = "note" => file.msgs = s.msgs
    <3> DEFINE d == Decided(known["gateway"], o, s)
    <3>1. /\ d.append => file.msgs \o d.lines = s.msgs
          /\ d.pc = "note" => file.msgs = s.msgs
          /\ d.now = s
      BY <1>1, <2>1, <2>2, DecidedExact
    <3>2. saver'[t] = d /\ file' = file
      BY <1>1, <1>2
    <3> HIDE DEF d
    <3> QED BY <3>1, <3>2
  <2> QED BY <2>3 DEF SaverExact
<1> QED BY <1>4, <1>6, <1>7, <1>8 DEF Exact, SaverExact

LEMMA LiveExact ==
  ASSUME Exact, NEW o \in Objs, Works(o), ~Saving(GatewaySavers)
  PROVE  Same(obj[o], known["gateway"])
BY ObjsAssumption DEF Exact, GatewayExact, Live

LEMMA ExactStarts ==
  ASSUME Shape, Shape', Exact, Whole, Whole',
         TurnSays \/ TurnAnswers \/ NewClears \/ \E b \in Bgs : BgSaves(b)
  PROVE  Exact'
<1>0. SessionTypes /\ Records /\ known["gateway"] \in KnownType
  BY Names, NumbersOf DEF Shape
<1>1. Narrows
  BY <1>0, NarrowsGateway DEF GatewayWorks
<1>2. ASSUME NEW t, NEW o, NEW s, Starts(t, o, s),
             \/ s.msgs = obj[o].msgs \/ s.msgs = <<>>
             \/ \E m \in 1..MaxMsgs : s.msgs = Append(obj[o].msgs, m)
      PROVE  Exact'
  <2>1. o \in Objs /\ s \in SessionType /\ Works(o)
    BY <1>2 DEF Starts
  <2>2. ~Saving(GatewaySavers)
    BY <1>0, <1>2, WholeIsOrderly, StartFacts DEF Saving, Whole
  <2>3. obj[o].msgs = file.msgs /\ known["gateway"].count = Len(file.msgs)
    BY <2>1, <2>2, LiveExact DEF Same
  <2>4. Continues(known["gateway"], s)
    BY <1>0, <1>2, <2>1, <2>3, ContinuesMore
  <2> QED BY <1>1, <1>2, <2>4, ExactStart
<1>3. CASE TurnSays \/ TurnAnswers
  <2> DEFINE m == MaxMsgs - left.msgs + 1
             s == [obj[turn.obj] EXCEPT !.msgs = Append(@, m)]
  <2>1. turn.obj \in Objs /\ Adds(turn.obj)
    BY <1>0, <1>3, TurnObjects DEF TurnSays, TurnAnswers
  <2>2. m \in 1..MaxMsgs /\ s.msgs = Append(obj[turn.obj].msgs, m)
    BY <1>0, <2>1, AddsFacts
  <2>3. Starts("turn", turn.obj, s)
    BY <1>0, <1>3, TurnStarts
  <2> HIDE DEF m, s
  <2> QED BY <1>2, <2>2, <2>3
<1>4. CASE NewClears
  <2> DEFINE s == [obj[turn.obj] EXCEPT !.msgs = <<>>, !.cons = 0]
  <2>1. s.msgs = <<>>
    BY <1>0, <1>4, ClearedFacts
  <2>2. Starts("turn", turn.obj, s)
    BY <1>0, <1>4, ClearStarts
  <2> HIDE DEF s
  <2> QED BY <1>2, <1>4, <2>1, <2>2
<1>5. ASSUME NEW b \in Bgs, BgSaves(b) PROVE Exact'
  <2> DEFINE s == Advanced(b, obj[bg[b].obj])
  <2>1. s.msgs = obj[bg[b].obj].msgs
    BY <1>0, <1>5, AdvancedFacts DEF BgSaves
  <2>2. Starts("loop", bg[b].obj, s)
    BY <1>0, <1>5, BgStarts
  <2> HIDE DEF s
  <2> QED BY <1>2, <1>5, <2>1, <2>2
<1> QED BY <1>3, <1>4, <1>5

LEMMA ExactIdle ==
  ASSUME Shape, Shape', Exact, Whole, Whole', GatewayWorks,
         UNCHANGED <<obj, cache, stamp, known, file>>,
         Saving(GatewaySavers) => Saving(GatewaySavers)',
         \A s \in Savers : saver'[s].pc = "idle" \/ saver'[s] = saver[s]
                            \/ (s = "late" /\ saver'[s] = saver["turn"]),
         saver'["webui"] = saver["webui"]
  PROVE  Exact'
<1>0. SessionTypes /\ Records
  BY DEF Shape
<1>1. \A p \in Procs : Hit(p)' = Hit(p)
  BY DEF Hit, Fresh
<1>2. \A o \in Objs : Live(o)' => Live(o)
  BY <1>0, <1>1, NarrowsGateway, Names DEF Live, Narrows
<1>3. GatewayExact'
  BY <1>2 DEF Exact, GatewayExact, Same
<1>4. WebExact'
  BY <1>1, Names DEF Exact, WebExact, Same
<1>5. \A s \in Savers : SaverExact(s)'
  <2>1. ASSUME NEW s \in Savers, NEW z \in Savers, saver'[s] = saver[z] PROVE SaverExact(s)'
    BY <2>1 DEF Exact, SaverExact
  <2>2. ASSUME NEW s \in Savers, saver'[s].pc = "idle" PROVE SaverExact(s)'
    BY <2>2 DEF SaverExact
  <2> QED BY <2>1, <2>2, Names
<1> QED BY <1>3, <1>4, <1>5 DEF Exact

\* The gateway drops the session from its cache, or dies.
LEMMA ExactGone ==
  ASSUME Shape, Shape', Exact, Whole, Whole', obj' = obj, file' = file,
         cache'["gateway"] = NoObj, cache'["webui"] = cache["webui"],
         stamp'["webui"] = stamp["webui"], known'["webui"] = known["webui"],
         saver'["webui"] = saver["webui"],
         \A s \in GatewaySavers : saver'[s].pc = "idle" \/ saver'[s] = saver[s],
         \/ \A o \in Objs : ~Works(o)'
         \/ /\ \A o \in Objs : Works(o)' => Works(o)
            /\ saver' = saver /\ known' = known
  PROVE  Exact'
<1>1. GatewayExact'
  <2>1. ~Hit("gateway")'
    BY DEF Hit
  <2>2. \A o \in Objs : Live(o)' => Works(o)'
    BY <2>1 DEF Live
  <2>3. CASE \A o \in Objs : ~Works(o)'
    BY <2>2, <2>3 DEF GatewayExact
  <2>4. CASE /\ \A o \in Objs : Works(o)' => Works(o)
             /\ saver' = saver /\ known' = known
    BY <2>2, <2>4, LiveExact DEF GatewayExact, Saving, Same
  <2> QED BY <2>3, <2>4
<1>2. Hit("webui")' = Hit("webui")
  BY DEF Hit, Fresh
<1>3. WebExact'
  BY <1>2 DEF Exact, WebExact, Same
<1>4. \A s \in Savers : SaverExact(s)'
  <2>1. ASSUME NEW s \in Savers, NEW z \in Savers, saver'[s] = saver[z] PROVE SaverExact(s)'
    BY <2>1 DEF Exact, SaverExact
  <2>2. ASSUME NEW s \in Savers, saver'[s].pc = "idle" PROVE SaverExact(s)'
    BY <2>2 DEF SaverExact
  <2> QED BY <2>1, <2>2, Names
<1> QED BY <1>1, <1>3, <1>4 DEF Exact

LEMMA ExactWorks ==
  ASSUME Shape, Shape', Exact, Whole, Whole', GatewayWorks
  PROVE  Exact'
<1>0. SessionTypes /\ SessionTypes' /\ Records /\ Records'
  BY DEF Shape
<1>1. CASE TurnEnds
  <2>1. UNCHANGED <<obj, known, file, cache, stamp, saver>>
    BY <1>1 DEF TurnEnds
  <2> QED BY <2>1, ExactIdle DEF Saving
<1>2. CASE TurnCancelled
  <2>1. UNCHANGED <<obj, known, file, cache, stamp>>
    BY <1>2 DEF TurnCancelled
  <2>2. CASE saver' = saver
    BY <2>1, <2>2, ExactIdle DEF Saving
  <2>3. CASE saver["turn"].pc # "idle" /\ saver' = [saver EXCEPT !["late"] = saver["turn"], !["turn"] = Idle]
    <3>1. \A s \in Savers : s = "late" \/ s = "turn" \/ saver'[s] = saver[s]
      BY <1>0, <2>3 DEF SessionTypes
    <3>2. saver'["late"] = saver["turn"] /\ saver'["turn"] = Idle
      BY <1>0, <2>3, Names DEF SessionTypes
    <3>3. Idle.pc = "idle"
      BY DEF Idle
    <3>4. \A s \in Savers : saver'[s].pc = "idle" \/ saver'[s] = saver[s]
                              \/ (s = "late" /\ saver'[s] = saver["turn"])
      BY <3>1, <3>2, <3>3
    <3>5. saver'["webui"] = saver["webui"]
      BY <3>1, Names
    <3>6. Saving(GatewaySavers)'
      BY <2>3, <3>2, Names DEF Saving
    <3> QED BY <2>1, <3>4, <3>5, <3>6, ExactIdle
  <2> QED BY <1>2, <2>2, <2>3 DEF TurnCancelled
<1>3. ASSUME NEW b \in Bgs, Summarises(b) \/ Chunks(b) \/ Learns(b) \/ BgGivesUp(b)
      PROVE  Exact'
  <2>1. UNCHANGED <<obj, known, file, cache, stamp, saver>>
    BY <1>3 DEF Summarises, Chunks, Learns, BgGivesUp
  <2> QED BY <2>1, ExactIdle DEF Saving
<1>4. CASE NewEnds
  <2>1. /\ UNCHANGED <<obj, known, file, saver>>
        /\ cache' = [cache EXCEPT !["gateway"] = NoObj]
        /\ stamp' = [stamp EXCEPT !["gateway"] = "none"]
    BY <1>4 DEF NewEnds
  <2>2. /\ cache'["gateway"] = NoObj /\ cache'["webui"] = cache["webui"]
        /\ stamp'["webui"] = stamp["webui"]
    BY <1>0, <2>1, Names DEF SessionTypes
  <2>3. \A o \in Objs : Works(o)' => Works(o)
    BY <1>0, NarrowsGateway DEF Narrows
  <2> QED BY <2>1, <2>2, <2>3, ExactGone
<1>5. CASE GatewayRestarts
  <2>1. /\ obj' = obj /\ UNCHANGED file
        /\ turn'.pc = "idle" /\ \A b \in Bgs : bg'[b].pc = "none"
    BY <1>5 DEF GatewayRestarts, NoTask
  <2>2. /\ cache'["gateway"] = NoObj /\ cache'["webui"] = cache["webui"]
        /\ stamp'["webui"] = stamp["webui"] /\ known'["webui"] = known["webui"]
    BY <1>0, <1>5, Names DEF SessionTypes, GatewayRestarts
  <2>3. saver'["webui"] = saver["webui"] /\ \A s \in GatewaySavers : saver'[s].pc = "idle"
    BY <1>5, Names DEF GatewayRestarts, Idle
  <2>4. \A o \in Objs : ~Works(o)'
    BY <1>0, <2>1, <2>3, BusyAfter DEF GatewayBusy, Saving
  <2> QED BY <2>1, <2>2, <2>3, <2>4, ExactGone
<1> QED BY <1>1, <1>2, <1>3, <1>4, <1>5, ExactStarts DEF GatewayWorks

LEMMA ExactLooks ==
  ASSUME Shape, Shape', Exact, Whole, Whole', GatewayLooks
  PROVE  Exact'
<1>0. SessionTypes /\ Records /\ Apart /\ SessionTypes' /\ Records'
  BY DEF Shape
<1>1. PICK o \in Objs :
         /\ GetOrCreate("gateway", o) /\ obj' = [obj EXCEPT ![o] = Content("gateway")]
         /\ ~OfWeb(o)
         /\ \A q \in Objs : /\ Works(q)' => q = o \/ Works(q)
                            /\ OfGateway(q)' => q = o \/ Works(q)
                            /\ OfWeb(q)' <=> OfWeb(q)
  BY <1>0, LookFacts
<1>2. UNCHANGED <<file, saver>>
  BY DEF GatewayLooks, TurnOpens, TurnLooksUp
<1>3. /\ cache'["gateway"] = o /\ cache'["webui"] = cache["webui"]
      /\ Hit("gateway") => o = cache["gateway"] /\ obj' = obj /\ UNCHANGED <<cache, stamp, known>>
      /\ ~Hit("gateway") =>
           /\ obj'[o] = Loaded
           /\ stamp'["gateway"] = IF file.exists THEN "current" ELSE "none"
           /\ known'["gateway"] = [known |-> TRUE, count |-> Len(Loaded.msgs), cons |-> Loaded.cons,
                                   learned |-> Loaded.learned, rev |-> Loaded.rev]
      /\ \A q \in Objs \ {o} : obj'[q] = obj[q]
      /\ stamp'["webui"] = stamp["webui"] /\ known'["webui"] = known["webui"]
  BY <1>0, <1>1, GatewayLookup
<1>6. ~Hit("gateway") => \A q \in Objs : ~Works(q)
  <2>1. ~Hit("gateway") => "split" \in hazards' \/ ~GatewayBusy
    BY DEF GatewayLooks, TurnOpens, TurnLooksUp, Split
  <2>2. "split" \notin hazards'
    BY DEF Whole
  <2> QED BY <1>0, <2>1, <2>2, Busy
<1>7. GatewayExact'
  <2>1. CASE Hit("gateway")
    <3>1. \A q \in Objs : Live(q)' => Live(q)
      BY <1>1, <1>2, <1>3, <2>1, ObjsAssumption DEF Live, Hit, Fresh
    <3>2. UNCHANGED <<obj, known, file, cache, stamp, saver>>
      BY <1>2, <1>3, <2>1
    <3> QED BY <3>1, <3>2 DEF Exact, GatewayExact, Saving, Same
  <2>2. CASE ~Hit("gateway")
    <3>1. \A q \in Objs : Live(q)' => q = o
      BY <1>1, <1>3, <1>6, <2>2 DEF Live
    <3>2. Loaded.msgs = file.msgs /\ (~file.exists => Loaded = EmptySession)
      BY WholeIsOrderly, LoadedWhole
    <3>3. known'["gateway"].count = Len(file.msgs)
      BY <1>3, <2>2, <3>2
    <3>4. Len(<<>>) = 0
      OBVIOUS
    <3>5. stamp'["gateway"] = "none" => Loaded.msgs = <<>> /\ Len(file.msgs) = 0
      BY <1>3, <2>2, <3>2, <3>4 DEF EmptySession
    <3> QED BY <1>2, <1>3, <2>2, <3>1, <3>2, <3>3, <3>5 DEF GatewayExact, Same
  <2> QED BY <2>1, <2>2
<1>9. WebExact'
  <2>1. Hit("webui")' = Hit("webui")
    BY <1>2, <1>3 DEF Hit, Fresh
  <2>2. cache["webui"] # NoObj => cache["webui"] \in Objs /\ cache["webui"] # o
    BY <1>0, <1>1, Names, ObjsAssumption DEF OfWeb, SessionTypes
  <2>3. cache["webui"] # NoObj => obj'[cache["webui"]] = obj[cache["webui"]]
    BY <1>3, <2>2
  <2>4. Hit("webui") => cache["webui"] # NoObj
    BY DEF Hit
  <2> QED BY <1>2, <1>3, <2>1, <2>3, <2>4 DEF Exact, WebExact, Same
<1>10. \A s \in Savers : SaverExact(s)'
  BY <1>2 DEF Exact, SaverExact
<1> QED BY <1>7, <1>9, <1>10 DEF Exact

\* What the WebUI finds is what the file has.
LEMMA ContentExact ==
  ASSUME Shape, Exact, Whole, saver["webui"].pc = "idle"
  PROVE  ~Content("webui").private =>
           /\ Content("webui").msgs = file.msgs
           /\ \A o \in Objs : GetOrCreate("webui", o) => known'["webui"].count = Len(file.msgs)
<1>0. SessionTypes
  BY DEF Shape
<1>1. CASE Hit("webui")
  <2>1. Content("webui") = obj[cache["webui"]]
    BY <1>1 DEF Content
  <2>2. \A o \in Objs : GetOrCreate("webui", o) => known' = known
    BY <1>1 DEF GetOrCreate
  <2> QED BY <1>1, <2>1, <2>2 DEF Exact, WebExact, Same
<1>2. CASE ~Hit("webui")
  <2>1. Content("webui") = Loaded /\ Loaded.msgs = file.msgs
    BY <1>2, WholeIsOrderly, LoadedWhole DEF Content
  <2>2. ASSUME NEW o \in Objs, GetOrCreate("webui", o)
        PROVE  known'["webui"].count = Len(Loaded.msgs)
    BY <1>0, <1>2, <2>2, Names DEF GetOrCreate, SessionTypes
  <2> QED BY <2>1, <2>2
<1> QED BY <1>1, <1>2

\* A save of the WebUI is started.
LEMMA ExactTake ==
  ASSUME Shape, Shape', Exact, Whole, Whole', NEW o, NEW s, WebStarts(o, s),
         Continues(known'["webui"], s) \/ ~CanAppend(known'["webui"], s)
  PROVE  Exact'
<1>0. SessionTypes /\ Records /\ Apart /\ Takes(o, s) /\ ~s.private /\ known'["webui"] \in KnownType
      /\ s \in SessionType
  BY Names DEF Shape, SessionTypes, WebStarts, Takes
<1>1. /\ ~OfGateway(o) /\ o \in Objs
      /\ obj'[o] = s /\ \A q \in Objs \ {o} : obj'[q] = obj[q]
      /\ cache'["webui"] = o /\ cache'["gateway"] = cache["gateway"]
      /\ \A x \in GatewaySavers : saver'[x] = saver[x]
      /\ \A q \in Objs : (Works(q)' <=> Works(q)) /\ (OfGateway(q)' <=> OfGateway(q))
  BY <1>0, TakeFacts DEF Takes
<1>2. file' = file /\ saver'["webui"] = Decided(known'["webui"], o, s)
      /\ stamp'["gateway"] = stamp["gateway"] /\ known'["gateway"] = known["gateway"]
  BY <1>0, Names DEF Takes, WebStarts, SessionTypes
<1>3. ~GatewayBusy
  BY <1>0 DEF Takes, Whole
<1>4. \A x \in GatewaySavers : saver'[x].pc = "idle" /\ saver[x].pc = "idle"
  BY <1>1, <1>3 DEF GatewayBusy, Saving
<1>5. \A q \in Objs : Live(q)' => Live(q) /\ obj'[q] = obj[q]
  <2>1. Hit("gateway")' = Hit("gateway")
    BY <1>1, <1>2 DEF Hit, Fresh
  <2>2. \A q \in Objs : Live(q) => OfGateway(q)
    BY DEF Live, OfGateway
  <2>3. \A q \in Objs : Live(q)' => Live(q)
    BY <1>1, <2>1 DEF Live
  <2> QED BY <1>1, <2>2, <2>3
<1>6. GatewayExact'
  <2>1. cache["gateway"] # NoObj => cache["gateway"] \in Objs /\ cache["gateway"] # o
    BY <1>0, <1>1, Names DEF SessionTypes, OfGateway
  <2>2. ~Saving(GatewaySavers)
    BY <1>4 DEF Saving
  <2>3. \A q \in Objs : Live(q)' => Same(obj[q], known["gateway"])'
    BY <1>2, <1>5, <2>2 DEF Exact, GatewayExact, Same
  <2>4. stamp["gateway"] = "none" /\ cache["gateway"] # NoObj =>
          obj'[cache["gateway"]].msgs = <<>> /\ known["gateway"].count = 0
    BY <1>1, <2>1, <2>2 DEF Exact, GatewayExact
  <2> QED BY <1>1, <1>2, <2>3, <2>4 DEF GatewayExact
<1>7. saver'["webui"].pc # "idle"
  BY <1>2, DecidedIsActive
<1>8. WebExact'
  BY <1>7 DEF WebExact
<1>9. \A x \in Savers : SaverExact(x)'
  <2>1. \A x \in GatewaySavers : SaverExact(x)'
    BY <1>4 DEF SaverExact
  <2>2. SaverExact("webui")'
    <3> DEFINE d == Decided(known'["webui"], o, s)
    <3>1. d.now = s
      BY DecidedIsActive
    <3>2. d.append => file.msgs \o d.lines = s.msgs
      <4>1. CASE Continues(known'["webui"], s)
        BY <1>0, <4>1, DecidedExact
      <4>2. CASE ~CanAppend(known'["webui"], s)
        BY <4>2, DecidedIsActive
      <4> QED BY <4>1, <4>2
    <3>3. d.pc = "note" => file.msgs = s.msgs
      <4>1. CASE Continues(known'["webui"], s)
        BY <1>0, <4>1, DecidedExact
      <4>2. CASE ~CanAppend(known'["webui"], s)
        BY <4>2, DecidedIsActive
      <4> QED BY <4>1, <4>2
    <3>4. saver'["webui"] = d
      BY <1>2
    <3> HIDE DEF d
    <3> QED BY <1>2, <3>1, <3>2, <3>3, <3>4 DEF SaverExact
  <2> QED BY <2>1, <2>2, Names
<1> QED BY <1>6, <1>8, <1>9 DEF Exact

\* A session is made private, or stays it: its file goes.
PrivateSave(o, s) ==
  /\ Takes(o, s) /\ s.private /\ file' = NoFile
  /\ stamp' = [Aged EXCEPT !["webui"] = "none"] /\ known'["gateway"] = known["gateway"]

LEMMA SavesHide ==
  ASSUME SessionTypes, NEW s \in SessionType, s.private, WebSaves(s)
  PROVE  \E o \in Objs : PrivateSave(o, s)
<1>1. PICK o \in Objs :
         /\ obj' = [obj EXCEPT ![o] = s]
         /\ IsLookup("webui", o) /\ cache' = [cache EXCEPT !["webui"] = o]
         /\ stamp' = [Aged EXCEPT !["webui"] = "none"]
         /\ known' = [known EXCEPT !["webui"] = Unknown]
         /\ file' = NoFile /\ UNCHANGED saver
  BY DEF WebSaves
<1>2. saver["webui"].pc = "idle" /\ UNCHANGED <<turn, bg>> /\ "hidden" \in hazards'
      /\ hazards \cup (IF GatewayBusy THEN {"foreign"} ELSE {}) \subseteq hazards'
  BY DEF WebSaves
<1>3. Takes(o, s)
  BY <1>1, <1>2 DEF Takes
<1>4. known'["gateway"] = known["gateway"]
  BY <1>1, Names DEF SessionTypes
<1> QED BY <1>1, <1>3, <1>4 DEF PrivateSave

\* The file goes while nobody is at work: of the gateway's session what it has
\* read of a file is not looked at again.
LEMMA ExactNoFile ==
  ASSUME Shape, Shape', Exact, Whole, Whole', ~GatewayBusy, file' = NoFile,
         \A q \in Objs : (Works(q)' <=> Works(q)),
         cache'["gateway"] = cache["gateway"], known'["gateway"] = known["gateway"],
         stamp'["gateway"] = IF stamp["gateway"] = "current" THEN "old" ELSE stamp["gateway"],
         cache["gateway"] # NoObj => obj'[cache["gateway"]] = obj[cache["gateway"]],
         \A x \in GatewaySavers : saver'[x] = saver[x]
  PROVE  GatewayExact' /\ \A x \in GatewaySavers : SaverExact(x)'
<1>0. SessionTypes /\ Records
  BY DEF Shape
<1>1. \A x \in GatewaySavers : saver'[x].pc = "idle" /\ saver[x].pc = "idle"
  BY DEF GatewayBusy, Saving
<1>2. ~file'.exists /\ file'.msgs = <<>> /\ Len(<<>>) = 0
  BY DEF NoFile
<1>3. \A o \in Objs : Live(o)' => o = cache["gateway"] /\ stamp["gateway"] = "none"
  <2>1. \A o \in Objs : ~Works(o)'
    BY <1>0, Busy
  <2>2. Hit("gateway")' => stamp'["gateway"] = "none"
    BY <1>2 DEF Hit, Fresh
  <2>3. stamp'["gateway"] = "none" => stamp["gateway"] = "none"
    OBVIOUS
  <2> QED BY <2>1, <2>2, <2>3 DEF Live
<1>4. stamp["gateway"] = "none" /\ cache["gateway"] # NoObj =>
        obj[cache["gateway"]].msgs = <<>> /\ known["gateway"].count = 0
  BY <1>1 DEF Exact, GatewayExact, Saving
<1>5. \A o \in Objs : Live(o)' => Same(obj[o], known["gateway"])'
  BY <1>2, <1>3, <1>4, ObjsAssumption DEF Same
<1>6. GatewayExact'
  BY <1>4, <1>5 DEF GatewayExact
<1>7. \A x \in GatewaySavers : SaverExact(x)'
  BY <1>1 DEF SaverExact
<1> QED BY <1>6, <1>7

LEMMA ExactHide ==
  ASSUME Shape, Shape', Exact, Whole, Whole', NEW o, NEW s, PrivateSave(o, s)
  PROVE  Exact'
<1>0. SessionTypes /\ Records /\ Apart /\ Takes(o, s) /\ s.private /\ SessionTypes'
  BY DEF Shape, PrivateSave
<1>1. /\ ~OfGateway(o) /\ o \in Objs
      /\ obj'[o] = s /\ \A q \in Objs \ {o} : obj'[q] = obj[q]
      /\ cache'["webui"] = o /\ cache'["gateway"] = cache["gateway"]
      /\ \A x \in GatewaySavers : saver'[x] = saver[x]
      /\ \A q \in Objs : (Works(q)' <=> Works(q))
      /\ saver["webui"].pc = "idle"
  BY <1>0, TakeFacts DEF Takes
<1>2. file' = NoFile /\ known'["gateway"] = known["gateway"] /\ saver' = saver
      /\ stamp'["gateway"] = IF stamp["gateway"] = "current" THEN "old" ELSE stamp["gateway"]
  BY <1>0, Names DEF PrivateSave, Aged, Takes, SessionTypes
<1>3. ~GatewayBusy
  BY <1>0 DEF Takes, Whole
<1>4. cache["gateway"] # NoObj => obj'[cache["gateway"]] = obj[cache["gateway"]]
  BY <1>0, <1>1, Names DEF SessionTypes, OfGateway
<1>5. GatewayExact' /\ \A x \in GatewaySavers : SaverExact(x)'
  BY <1>1, <1>2, <1>3, <1>4, ExactNoFile
<1>6. WebExact'
  BY <1>0, <1>1 DEF WebExact
<1>7. SaverExact("webui")'
  BY <1>1, <1>2 DEF SaverExact
<1> QED BY <1>5, <1>6, <1>7, Names DEF Exact

LEMMA ExactDeletes ==
  ASSUME Shape, Shape', Exact, Whole, Whole', WebDeletes
  PROVE  Exact'
<1>0. SessionTypes /\ Records
  BY DEF Shape
<1>1. /\ UNCHANGED <<obj, known, saver, turn, bg>> /\ file' = NoFile
      /\ cache' = [cache EXCEPT !["webui"] = NoObj] /\ saver["webui"].pc = "idle"
      /\ stamp' = [Aged EXCEPT !["webui"] = "none"]
  BY DEF WebDeletes
<1>2. ~GatewayBusy
  BY DEF WebDeletes, Whole
<1>3. /\ cache'["webui"] = NoObj /\ cache'["gateway"] = cache["gateway"]
      /\ stamp'["gateway"] = IF stamp["gateway"] = "current" THEN "old" ELSE stamp["gateway"]
  BY <1>0, <1>1, Names DEF SessionTypes, Aged
<1>4. \A q \in Objs : Works(q)' <=> Works(q)
  BY <1>1 DEF Works
<1>5. GatewayExact' /\ \A x \in GatewaySavers : SaverExact(x)'
  BY <1>1, <1>2, <1>3, <1>4, ExactNoFile
<1>6. WebExact'
  BY <1>3 DEF WebExact, Hit
<1>7. SaverExact("webui")'
  BY <1>1 DEF SaverExact
<1> QED BY <1>5, <1>6, <1>7, Names DEF Exact

\* Edits, notifications: the session is looked up, and perhaps made longer.
LEMMA ExactSaves ==
  ASSUME Shape, Shape', Exact, Whole, Whole', NEW s \in SessionType, WebSaves(s),
         s.private = Content("webui").private,
         \/ s.msgs = Content("webui").msgs
         \/ \E m \in 1..MaxMsgs : s.msgs = Append(Content("webui").msgs, m)
  PROVE  Exact'
<1>0. SessionTypes /\ saver["webui"].pc = "idle" /\ known'["webui"] \in KnownType
  BY Names DEF Shape, SessionTypes, WebSaves
<1>1. CASE s.private
  BY <1>0, <1>1, SavesHide, ExactHide
<1>2. CASE ~s.private
  <2>1. PICK o \in Objs : GetOrCreate("webui", o) /\ WebStarts(o, s)
    BY <1>0, <1>2, SavesKnow
  <2>2. Content("webui").msgs = file.msgs /\ known'["webui"].count = Len(file.msgs)
    BY <1>0, <1>2, <2>1, ContentExact
  <2>3. Continues(known'["webui"], s)
    BY <1>0, <2>2, ContinuesMore
  <2> QED BY <2>1, <2>3, ExactTake
<1> QED BY <1>1, <1>2

LEMMA ExactTakes ==
  ASSUME Shape, Shape', Exact, Whole, Whole', WebTakes
  PROVE  Exact'
<1>0. SessionTypes
  BY DEF Shape
<1>1. CASE WebEdits
  <2> DEFINE s == [Content("webui") EXCEPT !.rev = rev + 1]
  <2>1. s \in SessionType /\ s.msgs = Content("webui").msgs /\ s.private = Content("webui").private
    BY <1>0, EditedFacts
  <2>2. WebSaves(s)
    BY <1>1 DEF WebEdits
  <2> HIDE DEF s
  <2> QED BY <2>1, <2>2, ExactSaves
<1>2. CASE WebNotifies
  <2> DEFINE m == MaxMsgs - left.msgs + 1
             s == [Content("webui") EXCEPT !.msgs = Append(@, m)]
  <2>1. m \in 1..MaxMsgs /\ s \in SessionType /\ s.msgs = Append(Content("webui").msgs, m)
        /\ s.private = Content("webui").private
    BY <1>0, <1>2, NotifiedFacts DEF WebNotifies
  <2>2. WebSaves(s)
    BY <1>2 DEF WebNotifies
  <2> HIDE DEF s, m
  <2> QED BY <2>1, <2>2, ExactSaves
<1>3. CASE WebHides
  <2> DEFINE s == [Content("webui") EXCEPT !.private = TRUE]
  <2>1. s \in SessionType /\ s.private
    BY <1>0, HiddenFacts
  <2>2. WebSaves(s)
    BY <1>3 DEF WebHides
  <2> HIDE DEF s
  <2> QED BY <1>0, <2>1, <2>2, SavesHide, ExactHide
<1>4. CASE WebRewinds
  <2>1. PICK n \in 0 .. Len(Content("webui").msgs) - 1 :
          IF RewoundTo(n).private THEN WebSaves(RewoundTo(n)) ELSE WebRewrites(RewoundTo(n))
    BY <1>4 DEF WebRewinds
  <2> DEFINE s == RewoundTo(n)
  <2>2. s \in SessionType
    BY <1>0, RewoundFacts
  <2>3. IF s.private THEN WebSaves(s) ELSE WebRewrites(s)
    BY <2>1
  <2> HIDE DEF s
  <2>4. CASE s.private
    BY <1>0, <2>2, <2>3, <2>4, SavesHide, ExactHide
  <2>5. CASE ~s.private
    <3>1. PICK o \in Objs : WebStarts(o, s) /\ known'["webui"] = Unknown
      BY <1>0, <2>2, <2>3, <2>5, RewritesKnow
    <3>2. ~CanAppend(known'["webui"], s)
      BY <3>1 DEF CanAppend, Unknown
    <3> QED BY <3>1, <3>2, ExactTake
  <2> QED BY <2>4, <2>5
<1> QED BY <1>1, <1>2, <1>3, <1>4 DEF WebTakes

\* The file is written: whose save it is has the session as the file has it then.
LEMMA WrittenExact ==
  ASSUME Shape, Exact, Whole, NEW s \in Savers, SaveWrites(s)
  PROVE  file'.msgs = saver[s].now.msgs /\ file'.exists
<1>0. SessionTypes /\ Records /\ saver[s].pc = "write" /\ saver[s] \in SaverType
  BY NumbersOf DEF Shape, SaveWrites
<1>1. saver[s].obj \in Objs /\ obj[saver[s].obj] = saver[s].now
  BY <1>0, WholeIsOrderly, OrderlyShape
<1>2. CASE saver[s].append
  <2>1. file' = Appended(saver[s].lines) /\ saver[s].lines \in Seq(1..MaxMsgs)
    BY <1>0, <1>2 DEF SaveWrites, SaverType
  <2>2. file'.msgs = file.msgs \o saver[s].lines /\ file'.exists
    BY <1>0, <2>1, AppendedFacts
  <2> QED BY <1>0, <1>2, <2>2 DEF Exact, SaverExact
<1>3. CASE ~saver[s].append
  BY <1>1, <1>3 DEF SaveWrites
<1> QED BY <1>2, <1>3

LEMMA ExactWrites ==
  ASSUME Shape, Shape', Exact, Whole, Whole', NEW s \in Savers, SaveWrites(s)
  PROVE  Exact'
<1>0. SessionTypes /\ Records /\ SessionTypes' /\ Records' /\ SaveGoesOn(s)
  BY DEF Shape, SaveGoesOn
<1>1. /\ saver[s].pc = "write" /\ stamp' = Aged /\ saver' = [saver EXCEPT ![s].pc = "note"]
      /\ UNCHANGED <<obj, cache, known>>
  BY DEF SaveWrites
<1>2. /\ \A x \in Savers \ {s} : saver'[x] = saver[x]
      /\ saver'[s] = [saver[s] EXCEPT !.pc = "note"]
  BY <1>0, <1>1 DEF SessionTypes
<1>3. \A x \in Savers \ {s} : saver'[x].pc = "idle" /\ saver[x].pc = "idle"
  BY <1>1, <1>2, WholeIsOrderly, OrderlyShape
<1>4. saver'[s].pc = "note" /\ saver'[s].now = saver[s].now
  <2>1. saver[s] \in SaverType
    BY <1>0, NumbersOf
  <2> QED BY <1>2, <2>1 DEF SaverType
<1>5. file'.msgs = saver[s].now.msgs /\ file'.exists
  BY WrittenExact
<1>6. \A p \in Procs : ~Hit(p)' /\ (stamp'[p] = "none" => stamp[p] = "none")
  BY <1>0, <1>1, <1>5, AgedMisses
<1>7. GatewayExact'
  <2>1. CASE s = "webui"
    <3>1. ~Saving(GatewaySavers) /\ \A o \in Objs : ~Works(o)
      BY <1>1, <2>1, WholeIsOrderly, OrderlyShape DEF Saving
    <3>2. \A o \in Objs : ~Live(o)'
      BY <1>0, <1>6, <3>1, NarrowsSave, Names DEF Live, Narrows
    <3>3. stamp["gateway"] = "none" /\ cache["gateway"] # NoObj =>
            obj[cache["gateway"]].msgs = <<>> /\ known["gateway"].count = 0
      BY <3>1 DEF Exact, GatewayExact
    <3> QED BY <1>1, <1>6, <3>2, <3>3, Names DEF GatewayExact
  <2>2. CASE s # "webui"
    <3>1. s \in GatewaySavers
      BY <2>2, Names
    <3> QED BY <1>4, <3>1 DEF GatewayExact, Saving
  <2> QED BY <2>1, <2>2
<1>8. WebExact'
  <2>1. CASE s = "webui"
    BY <1>4, <2>1 DEF WebExact
  <2>2. CASE s # "webui"
    <3>1. saver["webui"].pc = "idle"
      BY <1>3, <2>2, Names
    <3> QED BY <1>1, <1>6, <3>1, Names DEF Exact, WebExact
  <2> QED BY <2>1, <2>2
<1>9. \A x \in Savers : SaverExact(x)'
  <2>1. SaverExact(s)'
    BY <1>4, <1>5 DEF SaverExact
  <2>2. \A x \in Savers \ {s} : SaverExact(x)'
    BY <1>3 DEF SaverExact
  <2> QED BY <2>1, <2>2
<1> QED BY <1>7, <1>8, <1>9 DEF Exact

LEMMA ExactNotes ==
  ASSUME Shape, Shape', Exact, Whole, Whole', NEW s \in Savers, SaveNotes(s)
  PROVE  Exact'
<1> DEFINE now == saver[s].now
           o == saver[s].obj
           p == ProcOf(s)
<1>0. SessionTypes /\ Records /\ SaveGoesOn(s) /\ saver[s].pc = "note"
  BY DEF Shape, SaveNotes, SaveGoesOn
<1>1. o \in Objs /\ obj[o] = now /\ file.exists /\ file.msgs = now.msgs
  BY <1>0, WholeIsOrderly, OrderlyShape DEF Exact, SaverExact
<1>2. Noted(s).count = Len(file.msgs)
  <2>1. known[ProcOf(s)] \in KnownType
    BY <1>0, Names, NumbersOf
  <2> QED BY <1>1, <2>1 DEF Noted, KnownType
<1>3. /\ UNCHANGED <<obj, file>>
      /\ known' = [known EXCEPT ![p] = Noted(s)] /\ cache' = [cache EXCEPT ![p] = o]
      /\ stamp' = [stamp EXCEPT ![p] = "current"] /\ saver' = [saver EXCEPT ![s] = Idle]
  BY <1>1 DEF SaveNotes
<1>4. p \in Procs
  BY Names
<1> HIDE DEF p
<1>5. /\ known'[p] = Noted(s) /\ cache'[p] = o /\ stamp'[p] = "current" /\ saver'[s].pc = "idle"
      /\ \A q \in Procs \ {p} : known'[q] = known[q] /\ cache'[q] = cache[q] /\ stamp'[q] = stamp[q]
      /\ \A x \in Savers \ {s} : saver'[x] = saver[x]
  BY <1>0, <1>3, <1>4 DEF SessionTypes, Idle
<1>6. \A x \in Savers \ {s} : saver[x].pc = "idle"
  BY <1>0, WholeIsOrderly, OrderlyShape
<1>7. \A x \in Savers : saver'[x].pc = "idle"
  BY <1>5, <1>6
<1>8. \A q \in Procs \ {p} : Hit(q)' = Hit(q)
  BY <1>3, <1>5 DEF Hit, Fresh
<1>9. \A q \in Objs : Works(q)' => Works(q)
  BY <1>0, NarrowsSave DEF Narrows
<1>10. \A x \in Savers : SaverExact(x)'
  BY <1>7 DEF SaverExact
<1>11. Same(obj[o], Noted(s))
  BY <1>1, <1>2 DEF Same
<1>12. CASE s = "webui"
  <2>1. p = "webui"
    BY <1>12, Names DEF p
  <2>2. (\A q \in Objs : ~Works(q)) /\ ~Saving(GatewaySavers)
    BY <1>0, <1>12, WholeIsOrderly, OrderlyShape DEF Saving
  <2>3. known'["gateway"] = known["gateway"] /\ stamp'["gateway"] = stamp["gateway"]
        /\ cache'["gateway"] = cache["gateway"] /\ Hit("gateway")' = Hit("gateway")
    BY <1>5, <1>8, <2>1, Names
  <2>4. \A q \in Objs : Live(q)' => Live(q)
    BY <1>9, <2>2, <2>3 DEF Live
  <2>5. GatewayExact'
    BY <1>3, <2>2, <2>3, <2>4 DEF Exact, GatewayExact, Same
  <2>6. WebExact'
    BY <1>3, <1>5, <1>11, <2>1 DEF WebExact, Same
  <2> QED BY <1>10, <2>5, <2>6 DEF Exact
<1>13. CASE s # "webui"
  <2>1. p = "gateway" /\ s \in GatewaySavers
    BY <1>13, Names DEF p
  <2>2. OfGateway(o) /\ Works(o)
    BY <1>1, <2>1, ObjsAssumption DEF OfGateway, Works
  <2>3. \A q \in Objs : Live(q)' => q = o
    <3>1. \A q \in Objs : Works(q) => q = o
      BY <1>1, <2>2, WholeIsOrderly, OrderlyShape, ObjsAssumption DEF OfGateway
    <3> QED BY <1>5, <1>9, <2>1, <3>1 DEF Live
  <2>4. GatewayExact'
    BY <1>3, <1>5, <1>11, <2>1, <2>3 DEF GatewayExact, Same
  <2>5. known'["webui"] = known["webui"] /\ cache'["webui"] = cache["webui"]
        /\ stamp'["webui"] = stamp["webui"] /\ Hit("webui")' = Hit("webui")
    BY <1>5, <1>8, <2>1, Names
  <2>6. saver["webui"].pc = "idle"
    BY <1>6, <1>13, Names
  <2>7. WebExact'
    BY <1>3, <2>5, <2>6 DEF Exact, WebExact, Same
  <2> QED BY <1>10, <2>4, <2>7 DEF Exact
<1> QED BY <1>12, <1>13

LEMMA ExactInit == SessionInit => Exact
<1> SUFFICES ASSUME SessionInit PROVE Exact
  OBVIOUS
<1>1. /\ \A s \in Savers : saver[s].pc = "idle" /\ saver[s].obj = NoObj
      /\ \A b \in Bgs : bg[b].obj = NoObj
      /\ turn.obj = NoObj /\ cache["gateway"] = NoObj /\ cache["webui"] = NoObj
  BY Names DEF SessionInit, Idle, NoTask
<1>2. \A o \in Objs : ~Live(o)
  BY <1>1, ObjsAssumption, Names DEF Live, Works, Hit
<1>3. GatewayExact
  BY <1>1, <1>2 DEF GatewayExact
<1>4. WebExact /\ \A s \in Savers : SaverExact(s)
  BY <1>1, Names DEF WebExact, SaverExact, Hit
<1> QED BY <1>3, <1>4 DEF Exact

LEMMA ExactStep ==
  ASSUME Shape, Shape', Whole => Exact, Whole', [SessionNext]_sessionVars
  PROVE  Exact'
<1>0. SessionTypes
  BY DEF Shape
<1>1. Whole /\ Exact
  BY <1>0, HazardsStay DEF Whole
<1>2. CASE UNCHANGED sessionVars
  BY <1>1, <1>2 DEF sessionVars, Exact, GatewayExact, WebExact, SaverExact, Same, Live, Works, Hit,
                    Fresh, Saving
<1>3. ASSUME NEW s \in Savers, SaveGoesOn(s) PROVE Exact'
  <2>1. ~SaveFails(s)
    <3>1. SaveFails(s) => \E h \in {"failed", "torn"} : h \in hazards'
      BY <1>0, FailedFile
    <3>2. \A h \in {"failed", "torn"} : h \notin hazards'
      BY DEF Whole
    <3> QED BY <3>1, <3>2
  <2> QED BY <1>1, <1>3, <2>1, ExactWrites, ExactNotes DEF SaveGoesOn
<1> QED BY <1>1, <1>2, <1>3, Steps, ExactLooks, ExactWorks, ExactDeletes, ExactTakes

-----------------------------------------------------------------------------
(* No message is in a session twice                                        *)

\* Different messages, of the first n.
Numbered(q, n) == IsInjective(q) /\ \A m \in Range(q) : m <= n

\* The number of messages there have been.
Spoken == MaxMsgs - left.msgs

Once ==
  /\ Numbered(file.msgs, Spoken)
  /\ \A o \in Objs : Numbered(obj[o].msgs, Spoken)
  /\ \A s \in Savers : Numbered(saver[s].now.msgs, Spoken)

LEMMA NumberedNone ==
  ASSUME NEW n
  PROVE  Numbered(<<>>, n)
BY NoMessages DEF Numbered, IsInjective

LEMMA NumberedUpTo ==
  ASSUME NEW q \in Seq(1..MaxMsgs), NEW n \in Nat, NEW z \in Nat, n <= z, Numbered(q, n)
  PROVE  Numbered(q, z)
<1>1. Range(q) \subseteq Nat
  <2>1. Range(q) = {q[i] : i \in 1..Len(q)}
    BY RangeEquality
  <2>2. \A i \in 1..Len(q) : q[i] \in 1..MaxMsgs
    BY ElementOfSeq
  <2> QED BY <2>1, <2>2
<1> QED BY <1>1 DEF Numbered

LEMMA NumberedMore ==
  ASSUME NEW q \in Seq(1..MaxMsgs), NEW n \in Nat, n + 1 \in 1..MaxMsgs, Numbered(q, n)
  PROVE  Numbered(Append(q, n + 1), n + 1)
<1> DEFINE S == 1..MaxMsgs
           m == n + 1
           z == Append(q, m)
<1>1. m \in S /\ m \in Nat /\ n \in Nat /\ n < m
  OBVIOUS
<1>2. q \in Seq(S) /\ Len(q) \in Nat
  OBVIOUS
<1>3. Range(q) \subseteq Nat /\ \A i \in 1..Len(q) : q[i] \in Range(q)
  <2>1. Range(q) = {q[i] : i \in 1..Len(q)}
    BY RangeEquality
  <2>2. \A i \in 1..Len(q) : q[i] \in S
    BY ElementOfSeq
  <2> QED BY <2>1, <2>2
<1> HIDE DEF S, m
<1>4. /\ z \in Seq(S) /\ Len(z) = Len(q) + 1
      /\ \A i \in 1..Len(q) : z[i] = q[i]
      /\ z[Len(q) + 1] = m
  BY <1>1, <1>2, AppendProperties
<1>5. Range(z) = Range(q) \cup {m}
  BY <1>1, <1>2, OneMore
<1>6. DOMAIN z = 1..Len(q) + 1 /\ DOMAIN q = 1..Len(q)
  <2>1. DOMAIN z = 1..Len(z)
    BY <1>4
  <2> QED BY <1>2, <1>4, <2>1
<1> HIDE DEF z
<1>7. \A i, j \in 1..Len(q) : q[i] = q[j] => i = j
  BY <1>6 DEF Numbered, IsInjective
<1>8. \A i \in 1..Len(q) : q[i] \in Nat /\ q[i] <= n
  BY <1>3 DEF Numbered
<1>9. \A i \in 1..Len(q) : q[i] # m
  BY <1>1, <1>8
<1>10. ASSUME NEW i \in 1..Len(q) + 1, NEW j \in 1..Len(q) + 1, z[i] = z[j] PROVE i = j
  <2>1. i \in 1..Len(q) \/ i = Len(q) + 1
    BY <1>2
  <2>2. j \in 1..Len(q) \/ j = Len(q) + 1
    BY <1>2
  <2> QED BY <1>4, <1>7, <1>9, <1>10, <2>1, <2>2
<1>11. IsInjective(z)
  BY <1>6, <1>10 DEF IsInjective
<1>12. \A k \in Range(z) : k <= m
  BY <1>1, <1>3, <1>5 DEF Numbered
<1> QED BY <1>11, <1>12 DEF Numbered, z, m

LEMMA NumberedPrefix ==
  ASSUME NEW q \in Seq(1..MaxMsgs), NEW i \in 0..Len(q), NEW n, Numbered(q, n)
  PROVE  Numbered(SubSeq(q, 1, i), n)
<1> DEFINE S == 1..MaxMsgs
           z == SubSeq(q, 1, i)
<1>1. q \in Seq(S) /\ Len(q) \in Nat /\ i \in Nat
  OBVIOUS
<1> HIDE DEF S
<1>2. /\ z \in Seq(S) /\ Len(z) = i
      /\ \A j \in 1..i : z[j] = q[j]
      /\ Range(z) \subseteq Range(q)
  BY <1>1, PrefixType, RangeOfPrefix
<1> HIDE DEF z
<1>3. DOMAIN z = 1..i /\ DOMAIN q = 1..Len(q) /\ \A j \in 1..i : j \in 1..Len(q)
  BY <1>1, <1>2
<1>4. \A j, k \in 1..Len(q) : q[j] = q[k] => j = k
  BY <1>3 DEF Numbered, IsInjective
<1>5. IsInjective(z)
  BY <1>2, <1>3, <1>4 DEF IsInjective
<1> QED BY <1>2, <1>5 DEF Numbered, z

\* Messages are only ever added.
LEMMA SpokenGrows ==
  ASSUME SessionTypes, SessionTypes', [SessionNext]_sessionVars
  PROVE  Spoken \in Nat /\ Spoken' \in Nat /\ Spoken <= Spoken'
<1>1. left.msgs \in 0..MaxMsgs /\ left'.msgs \in 0..MaxMsgs /\ MaxMsgs \in Nat
  BY LimitsAssumption DEF SessionTypes
<1>2. left'.msgs = left.msgs \/ left'.msgs = left.msgs - 1
  <2>1. left \in [msgs : 0..MaxMsgs, troubles : 0..MaxTroubles]
    BY DEF SessionTypes
  <2>2. \/ left' = left
        \/ left' = [left EXCEPT !.msgs = @ - 1]
        \/ left' = [left EXCEPT !.troubles = @ - 1]
        \/ left' = [left EXCEPT !.troubles = @ - 1, !.msgs = @ - 1]
    <3>1. GatewayLooks \/ UNCHANGED sessionVars => left' = left
      BY DEF GatewayLooks, TurnOpens, TurnLooksUp, sessionVars
    <3>2. TurnSays \/ TurnAnswers => left' = [left EXCEPT !.msgs = @ - 1]
      BY DEF TurnSays, TurnAnswers, Adds
    <3>3. TurnEnds \/ NewEnds => left' = left
      BY DEF TurnEnds, NewEnds
    <3>4. TurnCancelled \/ NewClears \/ GatewayRestarts \/ WebDeletes =>
            left' = [left EXCEPT !.troubles = @ - 1]
      BY DEF TurnCancelled, NewClears, GatewayRestarts, WebDeletes
    <3>5. ASSUME NEW b \in Bgs, Summarises(b) \/ Chunks(b) \/ Learns(b) \/ BgGivesUp(b) \/ BgSaves(b)
          PROVE  left' = left
      BY <3>5 DEF Summarises, Chunks, Learns, BgGivesUp, BgSaves
    <3>6. WebEdits \/ WebHides \/ WebRewinds => left' = [left EXCEPT !.troubles = @ - 1]
      BY DEF WebEdits, WebHides, WebRewinds
    <3>7. WebNotifies => left' = [left EXCEPT !.troubles = @ - 1, !.msgs = @ - 1]
      BY DEF WebNotifies
    <3>8. ASSUME NEW s \in Savers, SaveGoesOn(s)
          PROVE  left' = left \/ left' = [left EXCEPT !.troubles = @ - 1]
      BY <3>8 DEF SaveGoesOn, SaveWrites, SaveNotes, SaveFails
    <3> QED BY <3>1, <3>2, <3>3, <3>4, <3>5, <3>6, <3>7, <3>8, Steps DEF GatewayWorks, WebTakes
  <2> QED BY <2>1, <2>2
<1> QED BY <1>1, <1>2 DEF Spoken

LEMMA SpokenNext ==
  ASSUME SessionTypes, left.msgs > 0, left'.msgs = left.msgs - 1
  PROVE  /\ MaxMsgs - left.msgs + 1 = Spoken + 1 /\ Spoken + 1 \in 1..MaxMsgs
         /\ Spoken' = Spoken + 1 /\ Spoken \in Nat
<1>1. left.msgs \in 0..MaxMsgs /\ MaxMsgs \in Nat
  BY LimitsAssumption DEF SessionTypes
<1> QED BY <1>1 DEF Spoken

\* What the gateway makes of its sessions.
LEMMA OnceWorks ==
  ASSUME Shape, Shape', Once, [SessionNext]_sessionVars, GatewayWorks, obj' # obj, NEW q \in Objs
  PROVE  Numbered(obj'[q].msgs, Spoken')
<1>0. SessionTypes /\ Records /\ SessionTypes' /\ Spoken \in Nat /\ Spoken' \in Nat /\ Spoken <= Spoken'
  BY SpokenGrows DEF Shape
<1>1. \A o \in Objs : obj[o].msgs \in Seq(1..MaxMsgs) /\ Numbered(obj[o].msgs, Spoken)
  BY <1>0 DEF Once, SessionTypes, SessionType
<1>2. \A o \in Objs : Numbered(obj[o].msgs, Spoken')
  BY <1>0, <1>1, NumberedUpTo
<1>3. ASSUME NEW t, NEW o, NEW s, Starts(t, o, s), Numbered(s.msgs, Spoken')
      PROVE  Numbered(obj'[q].msgs, Spoken')
  <2>1. o \in Objs /\ obj'[o] = s /\ \A x \in Objs \ {o} : obj'[x] = obj[x]
    <3>1. o \in Objs
      BY <1>3 DEF Starts
    <3>2. obj'[o] = s /\ \A x \in Objs \ {o} : obj'[x] = obj[x]
      BY <1>0, <1>3, StartFacts
    <3> QED BY <3>1, <3>2
  <2> QED BY <1>2, <1>3, <2>1
<1>4. CASE TurnSays \/ TurnAnswers
  <2> DEFINE m == MaxMsgs - left.msgs + 1
             s == [obj[turn.obj] EXCEPT !.msgs = Append(@, m)]
  <2>1. turn.obj \in Objs /\ Adds(turn.obj)
    BY <1>0, <1>4, TurnObjects DEF TurnSays, TurnAnswers
  <2>2. s.msgs = Append(obj[turn.obj].msgs, m)
    BY <1>0, <2>1, AddsFacts
  <2>3. Starts("turn", turn.obj, s)
    BY <1>0, <1>4, TurnStarts
  <2>4. left.msgs > 0 /\ left'.msgs = left.msgs - 1
    BY <1>0, <2>1 DEF Adds, SessionTypes
  <2>5. m = Spoken + 1 /\ Spoken + 1 \in 1..MaxMsgs /\ Spoken' = Spoken + 1
    BY <1>0, <2>4, SpokenNext
  <2> HIDE DEF m, s
  <2>6. Numbered(Append(obj[turn.obj].msgs, Spoken + 1), Spoken + 1)
    BY <1>0, <1>1, <2>1, <2>5, NumberedMore
  <2>7. Numbered(s.msgs, Spoken')
    BY <2>2, <2>5, <2>6
  <2> QED BY <1>3, <2>3, <2>7
<1>5. CASE NewClears
  <2> DEFINE s == [obj[turn.obj] EXCEPT !.msgs = <<>>, !.cons = 0]
  <2>1. s.msgs = <<>>
    BY <1>0, <1>5, ClearedFacts
  <2>2. Starts("turn", turn.obj, s)
    BY <1>0, <1>5, ClearStarts
  <2> HIDE DEF s
  <2> QED BY <1>3, <2>1, <2>2, NumberedNone
<1>6. ASSUME NEW b \in Bgs, BgSaves(b) PROVE Numbered(obj'[q].msgs, Spoken')
  <2> DEFINE s == Advanced(b, obj[bg[b].obj])
  <2>1. s.msgs = obj[bg[b].obj].msgs /\ bg[b].obj \in Objs
    BY <1>0, <1>6, AdvancedFacts DEF BgSaves
  <2>2. Starts("loop", bg[b].obj, s)
    BY <1>0, <1>6, BgStarts
  <2> HIDE DEF s
  <2> QED BY <1>2, <1>3, <2>1, <2>2
<1>7. TurnEnds \/ TurnCancelled \/ NewEnds \/ GatewayRestarts => obj' = obj
  BY DEF TurnEnds, TurnCancelled, NewEnds, GatewayRestarts
<1>8. ASSUME NEW b \in Bgs, Summarises(b) \/ Chunks(b) \/ Learns(b) \/ BgGivesUp(b)
      PROVE  obj' = obj
  BY <1>8 DEF Summarises, Chunks, Learns, BgGivesUp
<1> QED BY <1>4, <1>5, <1>6, <1>7, <1>8 DEF GatewayWorks

\* What the WebUI makes of the session.
LEMMA OnceMakes ==
  ASSUME Shape, Shape', Once, Whole, [SessionNext]_sessionVars, NEW s, WebMakes(s)
  PROVE  Numbered(s.msgs, Spoken')
<1> DEFINE c == Content("webui")
<1>0. SessionTypes /\ Spoken \in Nat /\ Spoken' \in Nat /\ Spoken <= Spoken'
  BY SpokenGrows DEF Shape
<1>1. c \in SessionType /\ c.msgs \in Seq(1..MaxMsgs)
  BY <1>0, ContentType, Names DEF SessionType
<1>2. Numbered(c.msgs, Spoken)
  <2>1. CASE Hit("webui")
    BY <1>0, <2>1, HitMeans, Names DEF Once, Content
  <2>2. CASE ~Hit("webui")
    BY <2>2, WholeIsOrderly, LoadedWhole DEF Once, Content
  <2> QED BY <2>1, <2>2
<1>3. Numbered(c.msgs, Spoken')
  BY <1>0, <1>1, <1>2, NumberedUpTo
<1>4. CASE WebEdits /\ s = [Content("webui") EXCEPT !.rev = rev + 1]
  BY <1>0, <1>3, <1>4, EditedFacts
<1>5. CASE WebNotifies /\ s = [Content("webui") EXCEPT !.msgs = Append(@, MaxMsgs - left.msgs + 1)]
  <2>1. left.msgs > 0 /\ left'.msgs = left.msgs - 1
    BY <1>0, <1>5 DEF WebNotifies, SessionTypes
  <2>2. s.msgs = Append(c.msgs, MaxMsgs - left.msgs + 1)
    BY <1>0, <1>5, <2>1, NotifiedFacts
  <2>3. MaxMsgs - left.msgs + 1 = Spoken + 1 /\ Spoken + 1 \in 1..MaxMsgs /\ Spoken' = Spoken + 1
    BY <1>0, <2>1, SpokenNext
  <2> HIDE DEF c
  <2>4. Numbered(Append(c.msgs, Spoken + 1), Spoken + 1)
    BY <1>0, <1>1, <1>2, <2>3, NumberedMore
  <2> QED BY <2>2, <2>3, <2>4
<1>6. CASE WebHides /\ s = [Content("webui") EXCEPT !.private = TRUE]
  BY <1>0, <1>3, <1>6, HiddenFacts
<1>7. ASSUME NEW n \in 0 .. Len(Content("webui").msgs) - 1, s = RewoundTo(n)
      PROVE  Numbered(s.msgs, Spoken')
  <2>1. s.msgs = SubSeq(c.msgs, 1, n)
    BY <1>0, <1>7, RewoundFacts
  <2>2. n \in 0 .. Len(c.msgs)
    BY <1>1
  <2> HIDE DEF c
  <2>3. Numbered(SubSeq(c.msgs, 1, n), Spoken')
    BY <1>1, <1>3, <2>2, NumberedPrefix
  <2> QED BY <2>1, <2>3
<1> QED BY <1>4, <1>5, <1>6, <1>7 DEF WebMakes

LEMMA OnceStep ==
  ASSUME Shape, Shape', Whole => Exact /\ Once, Whole', [SessionNext]_sessionVars
  PROVE  Once'
<1>0. SessionTypes /\ SessionTypes' /\ Records /\ Apart
  BY DEF Shape
<1>1. Whole /\ Exact /\ Once
  BY <1>0, HazardsStay DEF Whole
<1>2. Spoken \in Nat /\ Spoken' \in Nat /\ Spoken <= Spoken'
  BY <1>0, SpokenGrows
<1>3. \A o \in Objs : Numbered(obj[o].msgs, Spoken')
  BY <1>0, <1>1, <1>2, NumberedUpTo DEF Once, SessionTypes, SessionType
<1>4. Numbered(file.msgs, Spoken')
  BY <1>0, <1>1, <1>2, NumberedUpTo DEF Once, SessionTypes, FileType
<1>5. \A s \in Savers : Numbered(saver[s].now.msgs, Spoken')
  <2>1. \A s \in Savers : saver[s].now.msgs \in Seq(1..MaxMsgs) /\ Numbered(saver[s].now.msgs, Spoken)
    BY <1>0, <1>1, NumbersOf DEF Once, SessionType
  <2> QED BY <1>2, <2>1, NumberedUpTo
<1>6. ASSUME NEW q \in Objs PROVE Numbered(obj'[q].msgs, Spoken')
  <2>1. CASE obj' = obj
    BY <1>3, <2>1
  <2>2. CASE GatewayWorks /\ obj' # obj
    BY <1>1, <2>2, OnceWorks
  <2>3. ASSUME NEW o \in Objs, obj'[o] = Loaded, \A x \in Objs \ {o} : obj'[x] = obj[x]
        PROVE  Numbered(obj'[q].msgs, Spoken')
    <3>1. Loaded.msgs = file.msgs
      BY <1>1, WholeIsOrderly, LoadedWhole
    <3> QED BY <1>3, <1>4, <2>3, <3>1
  <2>4. ASSUME NEW o \in Objs, NEW s \in SessionType, WebMakes(s), obj'[o] = s,
               \A x \in Objs \ {o} : obj'[x] = obj[x]
        PROVE  Numbered(obj'[q].msgs, Spoken')
    BY <1>1, <1>3, <2>4, OnceMakes
  <2> QED BY <1>0, <2>1, <2>2, <2>3, <2>4, ObjectAfter
<1>7. ASSUME NEW x \in Savers PROVE Numbered(saver'[x].now.msgs, Spoken')
  <2>1. EmptySession.msgs = <<>>
    BY DEF EmptySession
  <2> QED BY <1>0, <1>5, <1>6, <2>1, NowAfter, NumberedNone
<1>8. Numbered(file'.msgs, Spoken')
  <2>1. NoFile.msgs = <<>>
    BY DEF NoFile
  <2>2. \A s \in Savers : SaveWrites(s) => file'.msgs = saver[s].now.msgs
    BY <1>1, WrittenExact
  <2>3. \A s \in Savers : ~SaveFails(s)
    <3>1. \A s \in Savers : SaveFails(s) => \E h \in {"failed", "torn"} : h \in hazards'
      BY <1>0, FailedFile
    <3>2. \A h \in {"failed", "torn"} : h \notin hazards'
      BY DEF Whole
    <3> QED BY <3>1, <3>2
  <2> QED BY <1>0, <1>4, <1>5, <2>1, <2>2, <2>3, FileChange, NumberedNone
<1> QED BY <1>6, <1>7, <1>8 DEF Once

LEMMA OnceInit == SessionInit => Once
<1> SUFFICES ASSUME SessionInit PROVE Once
  OBVIOUS
<1>1. /\ file.msgs = <<>> /\ \A o \in Objs : obj[o].msgs = <<>>
      /\ \A s \in Savers : saver[s].now.msgs = <<>>
  BY DEF SessionInit, NoFile, EmptySession, Idle
<1> QED BY <1>1, NumberedNone DEF Once

-----------------------------------------------------------------------------
\* Once save() or asave() has succeeded, what the session held at its start stays in
\* the file, through appends (can_append), rewrites, reloads by mtime (get_or_create),
\* failed saves, cancelled turns and restarts, as long as no two savers met; and it
\* is there once, unless two met or a save failed.
THEOREM SavedOnceHolds == SessionSpec => []SavedOnce
<1> DEFINE Inv == Shape /\ (Calm => Kept) /\ (Whole => Exact /\ Once)
<1>1. SessionInit => Inv
  BY ShapeInit, KeptInit, ExactInit, OnceInit
<1>2. Inv /\ [SessionNext]_sessionVars => Inv'
  <2> SUFFICES ASSUME Inv, [SessionNext]_sessionVars PROVE Inv'
    OBVIOUS
  <2>1. Shape'
    BY ShapeStep
  <2>2. Calm' => Kept'
    BY <2>1, KeptStep
  <2>3. Whole' => Exact' /\ Once'
    BY <2>1, ExactStep, OnceStep
  <2> QED BY <2>1, <2>2, <2>3
<1>3. Inv => SavedOnce
  BY DEF Calm, Kept, FileKeeps, Whole, Once, Numbered, SavedOnce
<1> QED BY <1>1, <1>2, <1>3, PTL DEF SessionSpec

-----------------------------------------------------------------------------
(* Undisturbed, the file is the conversation                               *)

Plain == hazards = {}

\* Whoever saves the session saves all of the conversation, and the newest metadata.
SaverTells(s) == saver[s].pc # "idle" => saver[s].now.msgs = said /\ saver[s].now.rev = rev

Told == ~Saving(Savers) => file.msgs = said

\* Only a rewrite of the WebUI is ever about to bring newer metadata.
Newest ==
  /\ saver["webui"].pc # "write" \/ saver["webui"].append => file.rev = rev
  /\ \A o \in Objs : Live(o) => obj[o].rev = file.rev

WebNewest ==
  /\ Hit("webui") /\ saver["webui"].pc = "idle" =>
       obj[cache["webui"]].rev = file.rev /\ known["webui"].rev = file.rev
  /\ saver["webui"].pc # "idle" /\ saver["webui"].append => known["webui"].rev = rev

Talk == Told /\ Newest /\ WebNewest /\ \A s \in Savers : SaverTells(s)

\* All that is known while nothing disturbs.
Calmly == Shape /\ Kept /\ Exact /\ Talk /\ Plain

LEMMA PlainIs ==
  Plain => /\ Calm /\ Whole /\ Orderly
           /\ \A h \in HazardTypes : h \notin hazards
BY DEF Plain, Calm, Whole, Orderly

\* A save of the gateway is started.
LEMMA TalkStart ==
  ASSUME Calmly, Shape', Plain', Narrows, NEW t, NEW o, NEW s, Starts(t, o, s),
         rev' = rev, s.rev = obj[o].rev,
         obj[o].msgs = said => s.msgs = said'
  PROVE  Talk'
<1>0. SessionTypes /\ Records /\ Apart /\ Exact /\ Talk /\ Orderly
  BY PlainIs DEF Calmly, Shape
<1>1. /\ o \in Objs /\ Works(o) /\ UNCHANGED <<cache, stamp, known, file>>
      /\ t \in GatewaySavers /\ t \in Savers
  BY <1>0, StartFacts DEF Starts
<1>2. /\ obj'[o] = s /\ \A q \in Objs \ {o} : obj'[q] = obj[q]
      /\ saver'[t] = Decided(known["gateway"], o, s)
      /\ \A x \in Savers \ {t} : saver'[x] = saver[x]
      /\ \A x \in GatewaySavers : saver[x].pc = "idle"
  BY <1>0, StartFacts DEF Plain
<1>3. saver["webui"].pc = "idle" /\ cache["webui"] # o /\ saver'["webui"] = saver["webui"]
  <2>1. saver["webui"].pc = "idle"
    BY <1>0, <1>1, OrderlyShape DEF Calmly
  <2>2. cache["webui"] # o
    BY <1>0, <1>1, ObjsAssumption DEF Apart, OfWeb, OfGateway
  <2>3. saver'["webui"] = saver["webui"]
    BY <1>1, <1>2, Names
  <2> QED BY <2>1, <2>2, <2>3
<1>4. \A x \in Savers \ {t} : saver'[x].pc = "idle"
  BY <1>2, <1>3, Names
<1>5. saver'[t].pc # "idle" /\ saver'[t].now = s
  BY <1>2, DecidedIsActive
<1>6. file.msgs = said /\ file.rev = rev
  <2>1. ~Saving(Savers)
    BY <1>2, <1>3, Names DEF Saving
  <2> QED BY <1>0, <1>3, <2>1 DEF Talk, Told, Newest
<1>7. obj[o].msgs = file.msgs /\ obj[o].rev = file.rev
  <2>1. ~Saving(GatewaySavers)
    BY <1>2 DEF Saving
  <2>2. obj[o].msgs = file.msgs
    BY <1>0, <1>1, <2>1, LiveExact DEF Same
  <2>3. obj[o].rev = file.rev
    BY <1>0, <1>1, ObjsAssumption DEF Talk, Newest, Live
  <2> QED BY <2>2, <2>3
<1>8. \A x \in Savers : SaverTells(x)'
  BY <1>4, <1>5, <1>6, <1>7 DEF SaverTells
<1>9. Told'
  BY <1>1, <1>5 DEF Told, Saving
<1>10. Newest'
  <2>1. \A q \in Objs : Live(q)' => q = o
    <3>1. \A q \in Objs : Live(q)' => OfGateway(q)
      BY DEF Live, OfGateway, Narrows
    <3>2. \A q, z \in Objs : OfGateway(q) /\ OfGateway(z) => q = z
      BY <1>0, OrderlyShape DEF Calmly
    <3>3. OfGateway(o)
      BY <1>1, ObjsAssumption DEF OfGateway
    <3> QED BY <1>1, <3>1, <3>2, <3>3
  <2> QED BY <1>1, <1>2, <1>6, <1>7, <2>1 DEF Newest
<1>11. WebNewest'
  <2>1. cache["webui"] # NoObj => obj'[cache["webui"]] = obj[cache["webui"]]
    BY <1>0, <1>2, <1>3, Names DEF SessionTypes
  <2>2. Hit("webui")' = Hit("webui") /\ (Hit("webui") => cache["webui"] # NoObj)
    BY <1>1 DEF Hit, Fresh
  <2> QED BY <1>0, <1>1, <1>3, <2>1, <2>2 DEF Talk, WebNewest
<1> QED BY <1>8, <1>9, <1>10, <1>11 DEF Talk

LEMMA TalkStarts ==
  ASSUME Calmly, Shape', Plain', TurnSays \/ TurnAnswers \/ NewClears \/ \E b \in Bgs : BgSaves(b)
  PROVE  Talk'
<1>0. SessionTypes /\ Records
  BY DEF Calmly, Shape
<1>1. Narrows
  BY <1>0, NarrowsGateway DEF GatewayWorks
<1>2. CASE TurnSays \/ TurnAnswers
  <2> DEFINE m == MaxMsgs - left.msgs + 1
             s == [obj[turn.obj] EXCEPT !.msgs = Append(@, m)]
  <2>1. turn.obj \in Objs /\ Adds(turn.obj)
    BY <1>0, <1>2, TurnObjects DEF TurnSays, TurnAnswers
  <2>2. s.msgs = Append(obj[turn.obj].msgs, m) /\ s.rev = obj[turn.obj].rev
        /\ said' = Append(said, m) /\ rev' = rev
    BY <1>0, <2>1, AddsFacts
  <2>3. Starts("turn", turn.obj, s)
    BY <1>0, <1>2, TurnStarts
  <2> HIDE DEF m, s
  <2> QED BY <1>1, <2>2, <2>3, TalkStart
<1>3. CASE NewClears
  <2> DEFINE s == [obj[turn.obj] EXCEPT !.msgs = <<>>, !.cons = 0]
  <2>1. s.msgs = <<>> /\ s.rev = obj[turn.obj].rev
    BY <1>0, <1>3, ClearedFacts
  <2>2. Starts("turn", turn.obj, s)
    BY <1>0, <1>3, ClearStarts
  <2>3. said' = <<>> /\ rev' = rev
    BY <1>3 DEF NewClears
  <2> HIDE DEF s
  <2> QED BY <1>1, <2>1, <2>2, <2>3, TalkStart
<1>4. ASSUME NEW b \in Bgs, BgSaves(b) PROVE Talk'
  <2> DEFINE s == Advanced(b, obj[bg[b].obj])
  <2>1. s.msgs = obj[bg[b].obj].msgs /\ s.rev = obj[bg[b].obj].rev
    BY <1>0, <1>4, AdvancedFacts DEF BgSaves
  <2>2. Starts("loop", bg[b].obj, s)
    BY <1>0, <1>4, BgStarts
  <2>3. said' = said /\ rev' = rev
    BY <1>4 DEF BgSaves
  <2> HIDE DEF s
  <2> QED BY <1>1, <2>1, <2>2, <2>3, TalkStart
<1> QED BY <1>2, <1>3, <1>4

LEMMA TalkIdle ==
  ASSUME Calmly, Shape', GatewayWorks, UNCHANGED <<obj, cache, stamp, known, file, said, rev>>,
         Saving(Savers) => Saving(Savers)',
         \A s \in Savers : saver'[s].pc = "idle" \/ saver'[s] = saver[s]
                            \/ (s = "late" /\ saver'[s] = saver["turn"]),
         saver'["webui"] = saver["webui"]
  PROVE  Talk'
<1>0. SessionTypes /\ Records /\ Talk
  BY DEF Calmly, Shape
<1>1. \A p \in Procs : Hit(p)' = Hit(p)
  BY DEF Hit, Fresh
<1>2. \A o \in Objs : Live(o)' => Live(o)
  BY <1>0, <1>1, NarrowsGateway, Names DEF Live, Narrows
<1>3. Newest'
  BY <1>0, <1>2 DEF Talk, Newest
<1>4. WebNewest'
  BY <1>0, <1>1, Names DEF Talk, WebNewest
<1>5. Told'
  BY <1>0 DEF Talk, Told
<1>6. \A s \in Savers : SaverTells(s)'
  <2>1. ASSUME NEW s \in Savers, NEW z \in Savers, saver'[s] = saver[z] PROVE SaverTells(s)'
    BY <1>0, <2>1 DEF Talk, SaverTells
  <2>2. ASSUME NEW s \in Savers, saver'[s].pc = "idle" PROVE SaverTells(s)'
    BY <2>2 DEF SaverTells
  <2> QED BY <2>1, <2>2, Names
<1> QED BY <1>3, <1>4, <1>5, <1>6 DEF Talk

LEMMA TalkWorks ==
  ASSUME Calmly, Shape', Plain', GatewayWorks
  PROVE  Talk'
<1>0. SessionTypes /\ SessionTypes' /\ Records /\ Records' /\ Talk
  BY DEF Calmly, Shape
<1>1. CASE TurnEnds
  <2>1. UNCHANGED <<obj, known, file, cache, stamp, saver, said, rev>>
    BY <1>1 DEF TurnEnds
  <2> QED BY <2>1, TalkIdle DEF Saving
<1>2. CASE TurnCancelled
  <2>1. UNCHANGED <<obj, known, file, cache, stamp, said, rev>>
    BY <1>2 DEF TurnCancelled
  <2>2. CASE saver' = saver
    BY <2>1, <2>2, TalkIdle DEF Saving
  <2>3. CASE saver["turn"].pc # "idle" /\ saver' = [saver EXCEPT !["late"] = saver["turn"], !["turn"] = Idle]
    <3>1. \A s \in Savers : s = "late" \/ s = "turn" \/ saver'[s] = saver[s]
      BY <1>0, <2>3 DEF SessionTypes
    <3>2. saver'["late"] = saver["turn"] /\ saver'["turn"] = Idle
      BY <1>0, <2>3, Names DEF SessionTypes
    <3>3. Idle.pc = "idle"
      BY DEF Idle
    <3>4. \A s \in Savers : saver'[s].pc = "idle" \/ saver'[s] = saver[s]
                              \/ (s = "late" /\ saver'[s] = saver["turn"])
      BY <3>1, <3>2, <3>3
    <3>5. saver'["webui"] = saver["webui"]
      BY <3>1, Names
    <3>6. Saving(Savers)'
      BY <2>3, <3>2, Names DEF Saving
    <3> QED BY <2>1, <3>4, <3>5, <3>6, TalkIdle
  <2> QED BY <1>2, <2>2, <2>3 DEF TurnCancelled
<1>3. ASSUME NEW b \in Bgs, Summarises(b) \/ Chunks(b) \/ Learns(b) \/ BgGivesUp(b)
      PROVE  Talk'
  <2>1. UNCHANGED <<obj, known, file, cache, stamp, saver, said, rev>>
    BY <1>3 DEF Summarises, Chunks, Learns, BgGivesUp
  <2> QED BY <2>1, TalkIdle DEF Saving
<1>4. CASE NewEnds
  <2>1. /\ UNCHANGED <<obj, known, file, saver, said, rev>>
        /\ cache' = [cache EXCEPT !["gateway"] = NoObj]
        /\ stamp' = [stamp EXCEPT !["gateway"] = "none"]
    BY <1>4 DEF NewEnds
  <2>2. /\ cache'["gateway"] = NoObj /\ cache'["webui"] = cache["webui"]
        /\ stamp'["webui"] = stamp["webui"]
    BY <1>0, <2>1, Names DEF SessionTypes
  <2>3. \A o \in Objs : Live(o)' => Live(o)
    BY <1>0, <2>2, NarrowsGateway DEF Narrows, Live, Hit
  <2>4. Newest'
    BY <1>0, <2>1, <2>3 DEF Talk, Newest
  <2>5. Hit("webui")' = Hit("webui")
    BY <2>1, <2>2 DEF Hit, Fresh
  <2>6. WebNewest'
    BY <1>0, <2>1, <2>2, <2>5 DEF Talk, WebNewest
  <2> QED BY <1>0, <2>1, <2>4, <2>6 DEF Talk, Told, SaverTells, Saving
<1>5. CASE GatewayRestarts
  <2>1. UNCHANGED <<obj, file, rev>> /\ turn'.pc = "idle" /\ \A b \in Bgs : bg'[b].pc = "none"
    BY <1>5 DEF GatewayRestarts, NoTask
  <2>2. /\ cache'["gateway"] = NoObj /\ cache'["webui"] = cache["webui"]
        /\ stamp'["webui"] = stamp["webui"] /\ known'["webui"] = known["webui"]
    BY <1>0, <1>5, Names DEF SessionTypes, GatewayRestarts
  <2>3. saver'["webui"] = saver["webui"] /\ \A s \in GatewaySavers : saver'[s].pc = "idle"
    BY <1>5, Names DEF GatewayRestarts, Idle
  <2>4. \A o \in Objs : ~Live(o)'
    <3>1. \A o \in Objs : ~Works(o)'
      BY <1>0, <2>1, <2>3, BusyAfter DEF GatewayBusy, Saving
    <3> QED BY <2>2, <3>1 DEF Live, Hit
  <2>5. Newest'
    BY <1>0, <2>1, <2>3, <2>4 DEF Talk, Newest
  <2>6. Hit("webui")' = Hit("webui")
    BY <2>1, <2>2 DEF Hit, Fresh
  <2>7. WebNewest'
    BY <1>0, <2>1, <2>2, <2>3, <2>6 DEF Talk, WebNewest
  <2>8. IF saver["webui"].pc # "idle" THEN said' = said ELSE said' = file.msgs
    BY <1>5 DEF GatewayRestarts, Saving
  <2>9. Told'
    <3>1. ~Saving(Savers)' => saver["webui"].pc = "idle"
      BY <2>3, Names DEF Saving
    <3> QED BY <2>1, <2>8, <3>1 DEF Told
  <2>10. \A s \in Savers : SaverTells(s)'
    <3>1. SaverTells("webui")'
      BY <1>0, <2>1, <2>3, <2>8, Names DEF Talk, SaverTells
    <3>2. \A s \in GatewaySavers : SaverTells(s)'
      BY <2>3 DEF SaverTells
    <3> QED BY <3>1, <3>2, Names
  <2> QED BY <2>5, <2>7, <2>9, <2>10 DEF Talk
<1> QED BY <1>1, <1>2, <1>3, <1>4, <1>5, TalkStarts DEF GatewayWorks

LEMMA TalkLooks ==
  ASSUME Calmly, Shape', Plain', GatewayLooks
  PROVE  Talk'
<1>0. SessionTypes /\ Records /\ Apart /\ SessionTypes' /\ Records' /\ Talk
  BY DEF Calmly, Shape
<1>1. PICK o \in Objs :
         /\ GetOrCreate("gateway", o) /\ obj' = [obj EXCEPT ![o] = Content("gateway")]
         /\ ~OfWeb(o)
         /\ \A q \in Objs : /\ Works(q)' => q = o \/ Works(q)
                            /\ OfGateway(q)' => q = o \/ Works(q)
                            /\ OfWeb(q)' <=> OfWeb(q)
  BY <1>0, LookFacts
<1>2. UNCHANGED <<file, saver, said, rev>>
  BY DEF GatewayLooks, TurnOpens, TurnLooksUp
<1>3. /\ cache'["gateway"] = o /\ cache'["webui"] = cache["webui"]
      /\ Hit("gateway") => o = cache["gateway"] /\ obj' = obj /\ UNCHANGED <<cache, stamp, known>>
      /\ ~Hit("gateway") => obj'[o] = Loaded
      /\ \A q \in Objs \ {o} : obj'[q] = obj[q]
      /\ stamp'["webui"] = stamp["webui"] /\ known'["webui"] = known["webui"]
  BY <1>0, <1>1, GatewayLookup
<1>4. ~Hit("gateway") => \A q \in Objs : ~Works(q)
  <2>1. ~Hit("gateway") => "split" \in hazards' \/ ~GatewayBusy
    BY DEF GatewayLooks, TurnOpens, TurnLooksUp, Split
  <2>2. "split" \notin hazards'
    BY DEF Plain
  <2> QED BY <1>0, <2>1, <2>2, Busy
<1>5. \A q \in Objs : Live(q)' => obj'[q].rev = file.rev
  <2>1. CASE Hit("gateway")
    <3>1. \A q \in Objs : Live(q)' => Live(q)
      BY <1>1, <1>2, <1>3, <2>1, ObjsAssumption DEF Live, Hit, Fresh
    <3> QED BY <1>0, <1>3, <2>1, <3>1 DEF Talk, Newest
  <2>2. CASE ~Hit("gateway")
    <3>1. \A q \in Objs : Live(q)' => q = o
      BY <1>1, <1>3, <1>4, <2>2 DEF Live
    <3>2. Loaded.rev = file.rev
      BY PlainIs, WholeIsOrderly, LoadedWhole DEF Calmly
    <3> QED BY <1>3, <2>2, <3>1, <3>2
  <2> QED BY <2>1, <2>2
<1>6. Newest'
  BY <1>0, <1>2, <1>5 DEF Talk, Newest
<1>7. WebNewest'
  <2>1. Hit("webui")' = Hit("webui")
    BY <1>2, <1>3 DEF Hit, Fresh
  <2>2. cache["webui"] # NoObj => cache["webui"] \in Objs /\ cache["webui"] # o
    BY <1>0, <1>1, Names, ObjsAssumption DEF OfWeb, SessionTypes
  <2>3. cache["webui"] # NoObj => obj'[cache["webui"]] = obj[cache["webui"]]
    BY <1>3, <2>2
  <2>4. Hit("webui") => cache["webui"] # NoObj
    BY DEF Hit
  <2> QED BY <1>0, <1>2, <1>3, <2>1, <2>3, <2>4 DEF Talk, WebNewest
<1> QED BY <1>0, <1>2, <1>6, <1>7 DEF Talk, Told, SaverTells, Saving

\* A save of the WebUI is started.
LEMMA TalkTake ==
  ASSUME Calmly, Shape', Plain', NEW o, NEW s, WebStarts(o, s), s.rev = rev', s.msgs = said',
         ~CanAppend(known'["webui"], s) \/ (file.rev = rev' /\ known'["webui"].rev = rev')
  PROVE  Talk'
<1>0. SessionTypes /\ Records /\ Apart /\ Takes(o, s) /\ ~s.private /\ Talk
  BY DEF Calmly, Shape, WebStarts
<1>1. /\ ~OfGateway(o) /\ o \in Objs
      /\ obj'[o] = s /\ \A q \in Objs \ {o} : obj'[q] = obj[q]
      /\ cache'["webui"] = o /\ cache'["gateway"] = cache["gateway"]
      /\ \A x \in GatewaySavers : saver'[x] = saver[x]
      /\ \A q \in Objs : (Works(q)' <=> Works(q)) /\ (OfGateway(q)' <=> OfGateway(q))
  BY <1>0, TakeFacts DEF Takes
<1>2. file' = file /\ saver'["webui"] = Decided(known'["webui"], o, s)
      /\ stamp'["gateway"] = stamp["gateway"] /\ known'["gateway"] = known["gateway"]
  BY <1>0, Names DEF Takes, WebStarts, SessionTypes
<1>3. ~GatewayBusy
  BY <1>0 DEF Takes, Plain
<1>4. \A x \in GatewaySavers : saver'[x].pc = "idle"
  BY <1>1, <1>3 DEF GatewayBusy, Saving
<1>5. \A q \in Objs : Live(q)' => Live(q) /\ obj'[q] = obj[q]
  <2>1. Hit("gateway")' = Hit("gateway")
    BY <1>1, <1>2 DEF Hit, Fresh
  <2>2. \A q \in Objs : Live(q) => OfGateway(q)
    BY DEF Live, OfGateway
  <2>3. \A q \in Objs : Live(q)' => Live(q)
    BY <1>1, <2>1 DEF Live
  <2> QED BY <1>1, <2>2, <2>3
<1>6. /\ saver'["webui"].pc # "idle" /\ saver'["webui"].now = s
      /\ saver'["webui"].append = CanAppend(known'["webui"], s)
      /\ saver'["webui"].pc = "note" => CanAppend(known'["webui"], s)
      /\ saver'["webui"].pc \in {"write", "note"}
  BY <1>2, DecidedIsActive
<1>7. Newest'
  <2>1. saver'["webui"].pc # "write" \/ saver'["webui"].append => file.rev = rev'
    BY <1>6
  <2> QED BY <1>0, <1>2, <1>5, <2>1 DEF Talk, Newest
<1>8. WebNewest'
  BY <1>6 DEF WebNewest
<1>9. Told'
  BY <1>6, Names DEF Told, Saving
<1>10. \A x \in Savers : SaverTells(x)'
  <2>1. SaverTells("webui")'
    BY <1>6 DEF SaverTells
  <2>2. \A x \in GatewaySavers : SaverTells(x)'
    BY <1>4 DEF SaverTells
  <2> QED BY <2>1, <2>2, Names
<1> QED BY <1>7, <1>8, <1>9, <1>10 DEF Talk

\* What the WebUI finds is the conversation, while nobody saves.
LEMMA ContentTalk ==
  ASSUME Calmly, Shape', Plain', NEW o, NEW s, Takes(o, s)
  PROVE  /\ Content("webui").msgs = said /\ Content("webui").rev = rev /\ file.rev = rev
         /\ ~Content("webui").private
         /\ \A q \in Objs : GetOrCreate("webui", q) => known'["webui"].rev = rev
<1>0. SessionTypes /\ Exact /\ Talk /\ Open /\ saver["webui"].pc = "idle"
  BY DEF Calmly, Shape, Takes
<1>1. ~GatewayBusy
  BY DEF Takes, Plain
<1>2. ~Saving(Savers)
  BY <1>0, <1>1, Names DEF GatewayBusy, Saving
<1>3. file.msgs = said /\ file.rev = rev
  BY <1>0, <1>2 DEF Talk, Told, Newest
<1>4. ~Content("webui").private
  <2>1. \A q \in Objs : ~obj[q].private
    BY <1>0 DEF Open, Calmly, Plain
  <2>2. CASE Hit("webui")
    BY <1>0, <2>1, <2>2, HitMeans, Names DEF Content
  <2>3. CASE ~Hit("webui")
    BY <2>3 DEF Content, Loaded, EmptySession
  <2> QED BY <2>2, <2>3
<1>5. Content("webui").msgs = said
  BY <1>0, <1>3, <1>4, PlainIs, ContentExact DEF Calmly
<1>6. CASE Hit("webui")
  <2>1. Content("webui") = obj[cache["webui"]]
    BY <1>6 DEF Content
  <2>2. \A q \in Objs : GetOrCreate("webui", q) => known' = known
    BY <1>6 DEF GetOrCreate
  <2> QED BY <1>0, <1>3, <1>4, <1>5, <1>6, <2>1, <2>2 DEF Talk, WebNewest
<1>7. CASE ~Hit("webui")
  <2>1. Content("webui") = Loaded /\ Loaded.rev = file.rev
    BY <1>7, PlainIs, WholeIsOrderly, LoadedWhole DEF Content, Calmly
  <2>2. ASSUME NEW q \in Objs, GetOrCreate("webui", q)
        PROVE  known'["webui"].rev = Loaded.rev
    BY <1>0, <1>7, <2>2, Names DEF GetOrCreate, SessionTypes
  <2> QED BY <1>3, <1>4, <1>5, <2>1, <2>2
<1> QED BY <1>6, <1>7

LEMMA TalkTakes ==
  ASSUME Calmly, Shape', Plain', WebTakes
  PROVE  Talk'
<1>0. SessionTypes /\ rev \in Nat /\ Kept /\ Calm /\ Shape
  BY PlainIs DEF Calmly, Shape, SessionTypes
<1>1. PICK q \in Objs, z \in SessionType : Takes(q, z)
  BY <1>0, WebMakesTakes
<1>2. /\ Content("webui").msgs = said /\ Content("webui").rev = rev /\ file.rev = rev
      /\ ~Content("webui").private
      /\ \A x \in Objs : GetOrCreate("webui", x) => known'["webui"].rev = rev
  BY <1>1, ContentTalk
<1>3. CASE WebEdits
  <2> DEFINE s == [Content("webui") EXCEPT !.rev = rev + 1]
  <2>1. s \in SessionType /\ s.msgs = said /\ s.rev = rev + 1 /\ ~s.private
    BY <1>0, <1>2, EditedFacts
  <2>2. WebSaves(s) /\ said' = said /\ rev' = rev + 1
    BY <1>3 DEF WebEdits
  <2> HIDE DEF s
  <2>3. PICK o \in Objs : GetOrCreate("webui", o) /\ WebStarts(o, s)
    BY <1>0, <2>1, <2>2, SavesKnow
  <2>4. ~CanAppend(known'["webui"], s)
    <3>1. known'["webui"].rev = rev /\ s.rev # rev
      BY <1>0, <1>2, <2>1, <2>3
    <3> QED BY <3>1 DEF CanAppend
  <2> QED BY <2>1, <2>2, <2>3, <2>4, TalkTake
<1>4. CASE WebNotifies
  <2> DEFINE m == MaxMsgs - left.msgs + 1
             s == [Content("webui") EXCEPT !.msgs = Append(@, m)]
  <2>1. s \in SessionType /\ s.msgs = Append(said, m) /\ s.rev = rev /\ ~s.private
    BY <1>0, <1>2, <1>4, NotifiedFacts DEF WebNotifies
  <2>2. WebSaves(s) /\ said' = Append(said, m) /\ rev' = rev
    BY <1>4 DEF WebNotifies
  <2> HIDE DEF s, m
  <2>3. PICK o \in Objs : GetOrCreate("webui", o) /\ WebStarts(o, s)
    BY <1>0, <2>1, <2>2, SavesKnow
  <2>4. file.rev = rev' /\ known'["webui"].rev = rev'
    BY <1>2, <2>2, <2>3
  <2> QED BY <2>1, <2>2, <2>3, <2>4, TalkTake
<1>5. ~WebHides
  BY <1>0, KeptHides DEF Plain, Calm
<1>6. CASE WebRewinds
  <2>1. PICK n \in 0 .. Len(Content("webui").msgs) - 1 :
          /\ IF RewoundTo(n).private THEN WebSaves(RewoundTo(n)) ELSE WebRewrites(RewoundTo(n))
          /\ said' = RewoundTo(n).msgs /\ rev' = rev
    BY <1>6 DEF WebRewinds
  <2> DEFINE s == RewoundTo(n)
  <2>2. s \in SessionType /\ s.rev = rev /\ ~s.private
    BY <1>0, <1>2, RewoundFacts
  <2>3. WebRewrites(s) /\ s.msgs = said' /\ rev' = rev
    BY <2>1, <2>2
  <2> HIDE DEF s
  <2>4. PICK o \in Objs : WebStarts(o, s) /\ known'["webui"] = Unknown
    BY <1>0, <2>2, <2>3, RewritesKnow
  <2>5. ~CanAppend(known'["webui"], s)
    BY <2>4 DEF CanAppend, Unknown
  <2> QED BY <2>2, <2>3, <2>4, <2>5, TalkTake
<1> QED BY <1>3, <1>4, <1>5, <1>6 DEF WebTakes

LEMMA TalkDeletes ==
  ASSUME Calmly, Shape', Plain', WebDeletes
  PROVE  Talk'
<1>0. SessionTypes /\ Records /\ Kept
  BY DEF Calmly, Shape
<1>1. /\ UNCHANGED <<obj, known, saver, turn, bg>> /\ file' = NoFile /\ said' = <<>> /\ rev' = 0
      /\ cache' = [cache EXCEPT !["webui"] = NoObj] /\ saver["webui"].pc = "idle"
      /\ stamp' = [Aged EXCEPT !["webui"] = "none"]
  BY DEF WebDeletes
<1>2. ~GatewayBusy
  BY DEF WebDeletes, Plain
<1>3. /\ cache'["webui"] = NoObj /\ cache'["gateway"] = cache["gateway"]
      /\ stamp'["gateway"] = IF stamp["gateway"] = "current" THEN "old" ELSE stamp["gateway"]
  BY <1>0, <1>1, Names DEF SessionTypes, Aged
<1>4. ~file'.exists /\ file'.rev = 0 /\ file'.msgs = <<>>
  BY <1>1 DEF NoFile
<1>5. \A o \in Objs : Live(o)' => o = cache["gateway"] /\ stamp["gateway"] = "none"
  <2>1. \A o \in Objs : ~Works(o)'
    BY <1>0, <1>1, <1>2, Busy DEF Works
  <2>2. Hit("gateway")' => stamp'["gateway"] = "none"
    BY <1>4 DEF Hit, Fresh
  <2>3. stamp'["gateway"] = "none" => stamp["gateway"] = "none"
    BY <1>3
  <2> QED BY <1>3, <2>1, <2>2, <2>3 DEF Live
<1>6. \A o \in Objs : Live(o)' => obj[o].rev = 0
  BY <1>0, <1>5, ObjsAssumption DEF Kept, GatewayNone
<1>7. Newest'
  BY <1>1, <1>4, <1>6 DEF Newest
<1>8. WebNewest'
  BY <1>1, <1>3 DEF WebNewest, Hit
<1>9. \A s \in Savers : saver'[s].pc = "idle"
  BY <1>1, <1>2, Names DEF GatewayBusy, Saving
<1> QED BY <1>1, <1>4, <1>7, <1>8, <1>9 DEF Talk, Told, SaverTells

\* The object of a save of the gateway is the only one the gateway works on.
LEMMA SavedAlone ==
  ASSUME Calmly, NEW s \in Savers, saver[s].pc # "idle", NEW o \in Objs, Works(o)
  PROVE  o = saver[s].obj
<1>0. SessionTypes /\ Records /\ Orderly /\ Shape
  BY PlainIs DEF Calmly, Shape
<1>1. CASE s = "webui"
  BY <1>0, <1>1, OrderlyShape
<1>2. CASE s # "webui"
  <2>1. saver[s].obj \in Objs /\ s \in GatewaySavers
    BY <1>0, <1>2, OrderlyShape, Names
  <2>2. OfGateway(saver[s].obj) /\ OfGateway(o)
    BY <2>1, ObjsAssumption DEF OfGateway, Works
  <2> QED BY <1>0, <2>1, <2>2, OrderlyShape
<1> QED BY <1>1, <1>2

LEMMA TalkWrites ==
  ASSUME Calmly, Shape', Plain', NEW s \in Savers, SaveWrites(s)
  PROVE  Talk'
<1>0. SessionTypes /\ Records /\ Exact /\ Talk /\ Whole /\ SaveGoesOn(s) /\ Orderly /\ Shape
  BY PlainIs DEF Calmly, Shape, SaveGoesOn
<1>1. /\ saver[s].pc = "write" /\ stamp' = Aged /\ saver' = [saver EXCEPT ![s].pc = "note"]
      /\ UNCHANGED <<obj, cache, known, said, rev>>
  BY DEF SaveWrites
<1>2. /\ \A x \in Savers \ {s} : saver'[x] = saver[x]
      /\ saver'[s] = [saver[s] EXCEPT !.pc = "note"]
  BY <1>0, <1>1 DEF SessionTypes
<1>3. \A x \in Savers \ {s} : saver'[x].pc = "idle" /\ saver[x].pc = "idle"
  BY <1>0, <1>1, <1>2, OrderlyShape
<1>4. /\ saver[s] \in SaverType
      /\ saver'[s].pc = "note" /\ saver'[s].now = saver[s].now /\ saver'[s].append = saver[s].append
  <2>1. saver[s] \in SaverType
    BY <1>0, NumbersOf
  <2> QED BY <1>2, <2>1 DEF SaverType
<1>5. saver[s].now.msgs = said /\ saver[s].now.rev = rev
  BY <1>0, <1>1 DEF Talk, SaverTells
<1>6. saver[s].obj \in Objs /\ obj[saver[s].obj] = saver[s].now
  BY <1>0, <1>1, OrderlyShape
<1>7. file'.rev = rev /\ file'.exists
  <2>1. CASE saver[s].append
    <3>1. file' = Appended(saver[s].lines) /\ saver[s].lines \in Seq(1..MaxMsgs)
      BY <1>4, <2>1 DEF SaveWrites, SaverType
    <3>2. file'.rev = file.rev /\ file'.exists
      BY <1>0, <3>1, AppendedFacts
    <3>3. file.rev = rev
      <4>1. CASE s = "webui"
        BY <1>0, <2>1, <4>1 DEF Talk, Newest
      <4>2. CASE s # "webui"
        <5>1. saver["webui"].pc = "idle"
          BY <1>3, <4>2, Names
        <5> QED BY <1>0, <5>1 DEF Talk, Newest
      <4> QED BY <4>1, <4>2
    <3> QED BY <3>2, <3>3
  <2>2. CASE ~saver[s].append
    BY <1>5, <1>6, <2>2 DEF SaveWrites
  <2> QED BY <2>1, <2>2
<1>8. \A p \in Procs : ~Hit(p)'
  BY <1>0, <1>1, <1>7, AgedMisses
<1>9. Newest'
  <2>1. \A o \in Objs : Live(o)' => o = saver[s].obj
    <3>1. \A o \in Objs : Live(o)' => Works(o)
      BY <1>0, <1>8, NarrowsSave, Names DEF Live, Narrows
    <3> QED BY <1>1, <3>1, SavedAlone
  <2> QED BY <1>1, <1>5, <1>6, <1>7, <2>1 DEF Newest
<1>10. WebNewest'
  <2>1. saver'["webui"].pc # "idle" => saver["webui"].pc # "idle" /\ saver'["webui"].append = saver["webui"].append
    BY <1>1, <1>3, <1>4, Names
  <2> QED BY <1>0, <1>1, <1>8, <2>1, Names DEF Talk, WebNewest
<1>11. \A x \in Savers : SaverTells(x)'
  BY <1>1, <1>3, <1>4, <1>5 DEF SaverTells
<1>12. Told'
  BY <1>4 DEF Told, Saving
<1> QED BY <1>9, <1>10, <1>11, <1>12 DEF Talk

LEMMA TalkNotes ==
  ASSUME Calmly, Shape', Plain', NEW s \in Savers, SaveNotes(s)
  PROVE  Talk'
<1> DEFINE now == saver[s].now
           o == saver[s].obj
           p == ProcOf(s)
<1>0. SessionTypes /\ Records /\ SaveGoesOn(s) /\ saver[s].pc = "note" /\ Exact /\ Talk /\ Orderly
      /\ Shape
  BY PlainIs DEF Calmly, Shape, SaveNotes, SaveGoesOn
<1>1. o \in Objs /\ obj[o] = now /\ file.exists /\ file.msgs = now.msgs
      /\ now.msgs = said /\ now.rev = rev
  BY <1>0, OrderlyShape DEF Exact, SaverExact, Talk, SaverTells
<1>2. /\ UNCHANGED <<obj, file, said, rev>>
      /\ known' = [known EXCEPT ![p] = Noted(s)] /\ cache' = [cache EXCEPT ![p] = o]
      /\ stamp' = [stamp EXCEPT ![p] = "current"] /\ saver' = [saver EXCEPT ![s] = Idle]
  BY <1>1 DEF SaveNotes
<1>3. Noted(s).rev = IF saver[s].append THEN known[p].rev ELSE rev
  <2>1. known[p] \in KnownType
    BY <1>0, Names, NumbersOf
  <2> QED BY <1>1, <2>1 DEF Noted, KnownType
<1>4. p \in Procs
  BY Names
<1> HIDE DEF p
<1>5. /\ known'[p] = Noted(s) /\ cache'[p] = o /\ stamp'[p] = "current" /\ saver'[s].pc = "idle"
      /\ \A q \in Procs \ {p} : known'[q] = known[q] /\ cache'[q] = cache[q] /\ stamp'[q] = stamp[q]
      /\ \A x \in Savers \ {s} : saver'[x] = saver[x]
  BY <1>0, <1>2, <1>4 DEF SessionTypes, Idle
<1>6. \A x \in Savers \ {s} : saver[x].pc = "idle"
  BY <1>0, OrderlyShape
<1>7. \A x \in Savers : saver'[x].pc = "idle"
  BY <1>5, <1>6
<1>8. \A q \in Procs \ {p} : Hit(q)' = Hit(q)
  BY <1>2, <1>5 DEF Hit, Fresh
<1>9. \A q \in Objs : Works(q)' => Works(q)
  BY <1>0, NarrowsSave DEF Narrows
<1>10. Told' /\ \A x \in Savers : SaverTells(x)'
  BY <1>1, <1>2, <1>7 DEF Told, SaverTells
<1>11. file.rev = rev
  <2>1. CASE s = "webui"
    BY <1>0, <2>1 DEF Talk, Newest
  <2>2. CASE s # "webui"
    <3>1. saver["webui"].pc = "idle"
      BY <1>6, <2>2, Names
    <3> QED BY <1>0, <3>1 DEF Talk, Newest
  <2> QED BY <2>1, <2>2
<1>12. CASE s = "webui"
  <2>1. p = "webui"
    BY <1>12, Names DEF p
  <2>2. \A q \in Objs : ~Works(q)
    BY <1>0, <1>12, OrderlyShape
  <2>3. cache'["gateway"] = cache["gateway"] /\ Hit("gateway")' = Hit("gateway")
    BY <1>5, <1>8, <2>1, Names
  <2>4. \A q \in Objs : Live(q)' => Live(q)
    BY <1>9, <2>2, <2>3 DEF Live
  <2>5. Newest'
    BY <1>0, <1>2, <1>11, <2>4 DEF Talk, Newest
  <2>6. Noted(s).rev = rev
    BY <1>0, <1>3, <1>12, <2>1 DEF Talk, WebNewest
  <2>7. WebNewest'
    BY <1>1, <1>2, <1>5, <1>7, <1>11, <2>1, <2>6, Names DEF WebNewest
  <2> QED BY <1>10, <2>5, <2>7 DEF Talk
<1>13. CASE s # "webui"
  <2>1. p = "gateway"
    BY <1>13, Names DEF p
  <2>2. \A q \in Objs : Live(q)' => q = o
    <3>1. \A q \in Objs : Works(q) => q = o
      BY <1>0, SavedAlone
    <3> QED BY <1>5, <1>9, <2>1, <3>1 DEF Live
  <2>3. Newest'
    BY <1>1, <1>2, <1>11, <2>2 DEF Newest
  <2>4. known'["webui"] = known["webui"] /\ cache'["webui"] = cache["webui"]
        /\ Hit("webui")' = Hit("webui")
    BY <1>5, <1>8, <2>1, Names
  <2>5. saver["webui"].pc = "idle" /\ saver'["webui"].pc = "idle"
    BY <1>6, <1>7, <1>13, Names
  <2>6. WebNewest'
    BY <1>0, <1>2, <2>4, <2>5 DEF Talk, WebNewest
  <2> QED BY <1>10, <2>3, <2>6 DEF Talk
<1> QED BY <1>12, <1>13

LEMMA TalkInit == SessionInit => Talk
<1> SUFFICES ASSUME SessionInit PROVE Talk
  OBVIOUS
<1>1. /\ \A s \in Savers : saver[s].pc = "idle" /\ saver[s].obj = NoObj
      /\ \A b \in Bgs : bg[b].obj = NoObj
      /\ turn.obj = NoObj /\ cache["gateway"] = NoObj /\ cache["webui"] = NoObj
      /\ file.msgs = said /\ file.rev = rev
  BY Names DEF SessionInit, Idle, NoTask, NoFile
<1>2. \A o \in Objs : ~Live(o)
  BY <1>1, ObjsAssumption, Names DEF Live, Works, Hit
<1> QED BY <1>1, <1>2, Names DEF Talk, Told, Newest, WebNewest, SaverTells, Hit

LEMMA TalkStep ==
  ASSUME Shape, Shape', Plain => Kept /\ Exact /\ Talk, Plain', [SessionNext]_sessionVars
  PROVE  Talk'
<1>0. SessionTypes
  BY DEF Shape
<1>1. Calmly
  BY <1>0, HazardsStay DEF Plain, Calmly
<1>2. CASE UNCHANGED sessionVars
  BY <1>1, <1>2 DEF Calmly, sessionVars, Talk, Told, Newest, WebNewest, SaverTells, Live, Works, Hit,
                    Fresh, Saving
<1>3. ASSUME NEW s \in Savers, SaveGoesOn(s) PROVE Talk'
  <2>1. ~SaveFails(s)
    <3>1. SaveFails(s) => \E h \in {"failed", "torn"} : h \in hazards'
      BY <1>0, FailedFile
    <3> QED BY <3>1 DEF Plain
  <2> QED BY <1>1, <1>3, <2>1, TalkWrites, TalkNotes DEF SaveGoesOn
<1> QED BY <1>1, <1>2, <1>3, Steps, TalkLooks, TalkWorks, TalkDeletes, TalkTakes

-----------------------------------------------------------------------------
\* Undisturbed, the file of a session at rest is the conversation, in order, with
\* its newest metadata: the gateway's appends and rewrites, the WebUI's edits, /new
\* and deletions, and the reloads between them add up (PackManager.save, get_or_create).
THEOREM FileIsTheConversationHolds == SessionSpec => []FileIsTheConversation
<1> DEFINE Inv == Shape /\ (Calm => Kept) /\ (Whole => Exact) /\ (Plain => Talk)
<1>1. SessionInit => Inv
  BY ShapeInit, KeptInit, ExactInit, TalkInit
<1>2. Inv /\ [SessionNext]_sessionVars => Inv'
  <2> SUFFICES ASSUME Inv, [SessionNext]_sessionVars PROVE Inv'
    OBVIOUS
  <2>1. Shape'
    BY ShapeStep
  <2>2. Calm' => Kept'
    BY <2>1, KeptStep
  <2>3. Whole' => Exact'
    BY <2>1, ExactStep
  <2>4. Plain' => Talk'
    BY <2>1, PlainIs, TalkStep
  <2> QED BY <2>1, <2>2, <2>3, <2>4
<1>3. Inv => FileIsTheConversation
  <2> SUFFICES ASSUME Inv, AtRest, Plain PROVE file.msgs = said /\ file.rev = rev
    BY DEF FileIsTheConversation, Plain
  <2>1. Talk /\ ~Saving(Savers) /\ saver["webui"].pc = "idle"
    BY Names DEF AtRest, Saving
  <2> QED BY <2>1 DEF Talk, Told, Newest
<1> QED BY <1>1, <1>2, <1>3, PTL DEF SessionSpec
=============================================================================
