---------------------------- MODULE StoreEdits ----------------------------
(* What sharing automation.json between processes promises, said without a *)
(* merge: every process works on its own view of the file and keeps a list *)
(* of its edits, the fields it set, the jobs it added and those it dropped *)
(* since it last wrote.  Reading or writing combines the latest file with  *)
(* exactly those edits, so nobody's edit is lost, nobody rewrites what he  *)
(* did not touch and nobody brings back a job that another removed.        *)
(* AutomationStore implements this with no list of edits, from the file as *)
(* last read (shibaclaw/automation/service.py).                            *)
CONSTANTS
    Procs,     \* the processes that share the file
    Fields     \* the fields of a job that are merged one by one

VARIABLES
    disk,      \* the file: the jobs in it, each a function on Fields
    seen,      \* the file as each process last read or wrote it
    view,      \* each process's copy
    mine       \* each process's edits since it last wrote

vars == <<disk, seen, view, mine>>

NoEdits == [set |-> {}, added |-> {}, dropped |-> {}]

(* The latest file with p's edits made to it.                              *)
Combined(p) ==
    [j \in (DOMAIN disk \ mine[p].dropped) \cup mine[p].added |->
        IF j \in mine[p].added
        THEN view[p][j]
        ELSE [f \in Fields |-> IF <<j, f>> \in mine[p].set
                               THEN view[p][j][f]
                               ELSE disk[j][f]]]

(* The edits of p that the latest file does not show yet.                  *)
Outstanding(p) ==
    [set |-> {e \in mine[p].set : e[1] \in DOMAIN disk
                                  /\ view[p][e[1]][e[2]] # disk[e[1]][e[2]]},
     added |-> mine[p].added,
     dropped |-> mine[p].dropped \cap DOMAIN disk]

(* A process takes in what others wrote, with its own edits on top.        *)
Refresh(p) ==
    /\ seen' = [seen EXCEPT ![p] = disk]
    /\ view' = [view EXCEPT ![p] = Combined(p)]
    /\ mine' = [mine EXCEPT ![p] = Outstanding(p)]
    /\ UNCHANGED disk

(* A process changes the view it has, `before', to another: the fields the *)
(* step sets join its edits unless it puts back what the file said.        *)
EditFrom(p, before, known) ==
    LET after == view'[p]
        said == seen'[p]
        touched == {e \in (DOMAIN before \cap DOMAIN after) \X Fields :
                        before[e[1]][e[2]] # after[e[1]][e[2]]}
    IN mine' = [mine EXCEPT ![p] =
          [set |-> {e \in known.set \cup touched :
                        /\ e[1] \in DOMAIN after \ known.added
                        /\ after[e[1]][e[2]] # said[e[1]][e[2]]},
           added |-> (known.added \cap DOMAIN after)
                         \cup (DOMAIN after \ DOMAIN before),
           dropped |-> known.dropped
                         \cup ((DOMAIN before \ DOMAIN after) \ known.added)]]

(* An edit of the view as it is, or of the view just refreshed.            *)
Edit(p) ==
    /\ view' = [view EXCEPT ![p] = view'[p]]
    /\ UNCHANGED disk
    /\ \/ /\ UNCHANGED seen
          /\ EditFrom(p, view[p], mine[p])
       \/ /\ seen' = [seen EXCEPT ![p] = disk]
          /\ EditFrom(p, Combined(p), Outstanding(p))

(* A process writes the latest file with its own edits.                    *)
Write(p) ==
    /\ disk' = Combined(p)
    /\ seen' = [seen EXCEPT ![p] = Combined(p)]
    /\ view' = [view EXCEPT ![p] = Combined(p)]
    /\ mine' = [mine EXCEPT ![p] = NoEdits]

(* A process ends, and the one that follows it starts from the file.       *)
Restart(p) ==
    /\ seen' = [seen EXCEPT ![p] = disk]
    /\ view' = [view EXCEPT ![p] = disk]
    /\ mine' = [mine EXCEPT ![p] = NoEdits]
    /\ UNCHANGED disk

Init ==
    /\ seen = [p \in Procs |-> disk]
    /\ view = [p \in Procs |-> disk]
    /\ mine = [p \in Procs |-> NoEdits]

Next == \E p \in Procs : Refresh(p) \/ Edit(p) \/ Write(p) \/ Restart(p)

Spec == Init /\ [][Next]_vars
=============================================================================
