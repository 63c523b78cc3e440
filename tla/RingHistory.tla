---------------------------- MODULE RingHistory -----------------------------
(***************************************************************************)
(* What the history of freed pointers promises: the Reference ring of the     *)
(* unit test in runtime/src/hooks/pending_frees.rs.                           *)
(***************************************************************************)
EXTENDS Naturals

CONSTANTS Addresses, Capacity, NoAddress

VARIABLES
  ring,         \* [0..Capacity-1 -> Addresses or NoAddress]
  next_index,
  answer        \* what the last operation answered

ringVars == <<ring, next_index, answer>>

Contains(a) == \E i \in DOMAIN ring : ring[i] = a
NewRing == [i \in 0..(Capacity - 1) |-> NoAddress]

RingInit == ring = NewRing /\ next_index = 0 /\ answer = FALSE

RingSeenOrMark(a) ==
  /\ answer' = Contains(a)
  /\ \/ Contains(a) /\ UNCHANGED <<ring, next_index>>
     \/ /\ ~Contains(a)
        /\ ring' = [ring EXCEPT ![next_index] = a]
        /\ next_index' = (next_index + 1) % Capacity

RingConsume(a) ==
  /\ answer' = Contains(a)
  /\ ring' = [i \in DOMAIN ring |-> IF ring[i] = a THEN NoAddress ELSE ring[i]]
  /\ UNCHANGED next_index

(* A forked child starts with an empty history. *)
RingForget == ring' = NewRing /\ next_index' = 0 /\ UNCHANGED answer

RingNext ==
  \/ RingForget
  \/ \E a \in Addresses : RingSeenOrMark(a) \/ RingConsume(a)

RingSpec == RingInit /\ [][RingNext]_ringVars
=============================================================================
