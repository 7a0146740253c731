-------------------------------- MODULE MCWire --------------------------------
(***************************************************************************)
(* The connection of a WorkerHandler: its own thread sends the output      *)
(* directory and a chunk whose length has two digits, the handler of the   *)
(* chunk before it sends a salt; and, to have SendMany among them, the     *)
(* main thread sends an id and a salt as DecryptChunk does on its own.     *)
(***************************************************************************)
EXTENDS Wire

Chunk == [flag |-> 21, parts |-> <<<<2, 3, 2, 3, 2, 3, 2, 3, 2, 3>>>>]
MCToSend ==
  [own  |-> <<[flag |-> 29, parts |-> <<<<1>>>>], Chunk>>,
   next |-> <<[flag |-> 26, parts |-> <<<<4, 15>>>>]>>,
   main |-> <<[flag |-> 20, parts |-> <<<<16>>, <<7, 8>>>>]>>]
==============================================================================
