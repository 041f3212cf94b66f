------------------------------ MODULE RingAbstract -----------------------------
(***************************************************************************)
(* What the ring buffer of one stream promises its users (pblk-rb.c): a    *)
(* bounded FIFO of cells.  Admission reserves empty cells at the tail,     *)
(* a writer fills a reserved cell exactly once, and the media retires a    *)
(* prefix of filled cells, oldest first.  At most Cap cells are in use.    *)
(***************************************************************************)
EXTENDS Naturals, Sequences

CONSTANTS
    Cap,        \* cells in use at once (nr_entries - 1)
    Vals,       \* data a cell can hold
    Hole        \* a reserved cell not filled yet

ASSUME Cap \in Nat /\ Hole \notin Vals

VARIABLE queue  \* the cells from the oldest unsynced one to the newest

Init == queue = <<>>

(* Admission: k empty cells are reserved at the tail.                      *)
Reserve(k) ==
    /\ Len(queue) + k <= Cap
    /\ queue' = queue \o [i \in 1..k |-> Hole]

(* A writer copies v into a reserved cell that is still empty.             *)
Fill(i, v) ==
    /\ queue[i] = Hole
    /\ queue' = [queue EXCEPT ![i] = v]

(* The oldest k cells, all filled, are retired to the media.               *)
Retire(k) ==
    /\ \A i \in 1..k : queue[i] # Hole
    /\ queue' = SubSeq(queue, k + 1, Len(queue))

Next ==
    \/ \E k \in 1..Cap : Reserve(k)
    \/ \E i \in 1..Len(queue), v \in Vals : Fill(i, v)
    \/ \E k \in 1..Len(queue) : Retire(k)

Spec == Init /\ [][Next]_queue

================================================================================
