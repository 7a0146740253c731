------------------------------ MODULE DcbcChain ------------------------------
(***************************************************************************)
(* What an encryption job promises, whatever runs it: every chunk gets one *)
(* salt, published after its predecessor's and never changed; every chunk  *)
(* is encrypted once, from the contents its salt was computed from and     *)
(* with that salt; the job finishes when every chunk has been encrypted.   *)
(***************************************************************************)
EXTENDS DcbcSalts

CONSTANTS chunkCount,  \* number of chunks of the file
          Contents     \* Contents[i]: the file chunks that may be read as chunk i

VARIABLES salts, output, finished

Chunks == 0 .. chunkCount - 1
NoOutput == [chunk |-> -1, salt |-> NoSalt]

Init == /\ salts = [i \in Chunks |-> NoSalt]
        /\ output = [i \in Chunks |-> NoOutput]
        /\ finished = FALSE

Publish(i, c) ==
  /\ salts[i] = NoSalt
  /\ i > 0 => salts[i - 1] # NoSalt
  /\ salts' = [salts EXCEPT ![i] = Combine(c, IF i = 0 THEN IV ELSE salts[i - 1])]
  /\ UNCHANGED <<output, finished>>

Encrypt(i, c) ==
  /\ salts[i] # NoSalt
  /\ salts[i][Len(salts[i])] = c
  /\ output[i] = NoOutput
  /\ output' = [output EXCEPT ![i] = [chunk |-> c, salt |-> salts[i]]]
  /\ UNCHANGED <<salts, finished>>

Finish == /\ \A i \in Chunks : output[i] # NoOutput
          /\ ~finished /\ finished' = TRUE
          /\ UNCHANGED <<salts, output>>

Next == \/ \E i \in Chunks : \E c \in Contents[i] : Publish(i, c) \/ Encrypt(i, c)
        \/ Finish

Spec == Init /\ [][Next]_<<salts, output, finished>>
==============================================================================
