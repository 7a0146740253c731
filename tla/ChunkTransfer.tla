---------------------------- MODULE ChunkTransfer ----------------------------
(***************************************************************************)
(* What a job that moves independent chunks promises: every place gets one *)
(* chunk, once, no chunk goes to two places, and the job finishes when     *)
(* every place has got its chunk.  Which chunk goes where is left open:    *)
(* the code does not settle it.                                            *)
(***************************************************************************)
EXTENDS Integers

CONSTANTS MAX_PLACES,  \* as many places as a job may have
          NoChunk

VARIABLES placed,  \* the chunk in each place of the job
          finished

Places == DOMAIN placed

Init == /\ \E n \in 0 .. MAX_PLACES : placed = [p \in 0 .. n - 1 |-> NoChunk]
        /\ finished = FALSE

Place(p, c) ==
  /\ ~finished /\ placed[p] = NoChunk
  /\ \A q \in Places : placed[q] # c
  /\ placed' = [placed EXCEPT ![p] = c]
  /\ UNCHANGED finished

Finish ==
  /\ ~finished /\ \A p \in Places : placed[p] # NoChunk
  /\ finished' = TRUE
  /\ UNCHANGED placed

Next == Finish \/ \E p \in Places, c \in 0 .. MAX_PLACES - 1 : Place(p, c)

Spec == Init /\ [][Next]_<<placed, finished>>
==============================================================================
