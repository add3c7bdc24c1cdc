------------------------------ MODULE CallQueue ------------------------------
(***************************************************************************)
(* What one queue of the QDMA driver promises its callers, for as long as  *)
(* no timer runs out: calls wait in the order they came, their pages are   *)
(* moved one by one in that order, and whoever is told of success is told  *)
(* in that order and after all of his pages have been moved.  There is no  *)
(* ring, no credit and no lock here; QdmaXfer has them.                    *)
(***************************************************************************)
EXTENDS Naturals, Sequences

CONSTANTS Reqs, PageCounts

VARIABLES
  queue, \* the calls not yet answered, each with its number of pages
  moved, \* pages moved for each call
  told   \* the calls told of success

Init ==
  /\ queue = <<>>
  /\ moved = [r \in Reqs |-> 0]
  /\ told = {}

\* All pages of the first n calls in the queue have been moved.
Complete(n) == \A k \in 1..n : moved[queue[k].call] = queue[k].pages

\* A new call goes to the end of the queue.
Ask ==
  \E r \in Reqs, n \in PageCounts :
    /\ moved[r] = 0
    /\ \A k \in 1..Len(queue) : queue[k].call # r
    /\ queue' = Append(queue, [call |-> r, pages |-> n])
    /\ UNCHANGED <<moved, told>>

\* One page is moved for the first call that has some left.
Move ==
  \E k \in 1..Len(queue) :
    /\ Complete(k - 1)
    /\ moved[queue[k].call] < queue[k].pages
    /\ moved' = [moved EXCEPT ![queue[k].call] = @ + 1]
    /\ UNCHANGED <<queue, told>>

\* Some calls at the head of the queue are answered.
Answer ==
  \E n \in 1..Len(queue) :
    /\ Complete(n)
    /\ told' = told \cup {queue[k].call : k \in 1..n}
    /\ queue' = SubSeq(queue, n + 1, Len(queue))
    /\ UNCHANGED moved

\* The queue is stopped: whoever waits is sent away.
TurnAway ==
  /\ queue' = <<>>
  /\ UNCHANGED <<moved, told>>

Next == Ask \/ Move \/ Answer \/ TurnAway

===============================================================================
