------------------------------ MODULE RunImage ------------------------------
(***************************************************************************)
(* What the import of a run promises: a map from addresses to values with  *)
(* no ids and no caches, written first and then read to sort the states of *)
(* the trace.  An address that was skipped reads as the first value of     *)
(* all.                                                                    *)
(***************************************************************************)
EXTENDS Integers, Sequences

CONSTANTS
  Lists,           \* the lists of states
  ListsOf(_, _)    \* the lists that a state may go to, given the image

VARIABLES
  image,    \* the value at each address from 0 to the largest one
  first,    \* the first value stored, a set because there may be none
  sorted    \* the states in each list

rvars == <<image, first, sorted>>

RInit == /\ image = [a \in {} |-> a]
         /\ first = {}
         /\ sorted = [l \in Lists |-> << >>]

(* The image with v at address a, what it skips filled with hole.          *)
Filled(a, v, hole) ==
  [b \in DOMAIN image \cup 0 .. a |->
     IF b = a THEN v ELSE IF b \in DOMAIN image THEN image[b] ELSE hole]

Store == /\ \A l \in Lists : sorted[l] = << >>
         /\ \E a \in DOMAIN image' : \E hole \in first' :
              /\ first' = IF first = {} THEN {image'[a]} ELSE first
              /\ image' = Filled(a, image'[a], hole)
         /\ UNCHANGED sorted

Sort == /\ \E l \in Lists :
             /\ sorted[l] # sorted'[l]
             /\ \E s \in {sorted'[l][Len(sorted'[l])]} :
                  /\ l \in ListsOf(image, s)
                  /\ sorted' = [sorted EXCEPT ![l] = Append(sorted[l], s)]
        /\ UNCHANGED <<image, first>>

RNext == Store \/ Sort

RSpec == RInit /\ [][RNext]_rvars
=============================================================================
