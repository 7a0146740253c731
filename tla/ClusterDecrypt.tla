---------------------------- MODULE ClusterDecrypt ----------------------------
(***************************************************************************)
(* distributed/parallel, decryption.  JobManager::Decrypt reads the count  *)
(* of chunks from the salts file, sends every chunk's id and salt to the   *)
(* worker in the .maps file, and the workers send clear text back, which   *)
(* the WorkerHandlers write into one file under a mutex.                   *)
(*                                                                         *)
(* It starts from what an encryption may have left: a cipher file holds    *)
(* the chunk, encrypted with the salt, of any handler that may have        *)
(* accepted its chunk handler (ClusterEncrypt, CorrectFiles).              *)
(*                                                                         *)
(* A chunk is as large as the 128 MiB that workers read, decrypt and send. *)
(* Every chunk has a cipher file of its own (SeqCluster has the names):    *)
(* files of more chunks than a char has values are left out.               *)
(***************************************************************************)
EXTENDS ClusterJob

VARIABLES
  savedCount,   \* chunks in the salts file
  cipher,       \* the cipher files: the chunk in each, encrypted with that chunk's salt
  salts,        \* the salt each chunk was sent to its worker with: the chunk it is of
  position,     \* where the output file is written next
  outputFile,   \* what it has in each place
  outputFileMutex  \* its holder

fileVars == <<position, outputFile, outputFileMutex>>
vars == <<jobVars, savedCount, cipher, salts, fileVars>>

Nothing == [chunk |-> -1, intact |-> FALSE]

\* Every worker had the byte 0 after its id when the file was encrypted.
Init ==
  /\ savedCount \in 0 .. MAX_CHUNKS
  /\ JobInit(LoadedCount(SavedCount(savedCount)))
  /\ maps = [c \in 0 .. savedCount - 1 |-> [worker |-> c % min_workers, junk |-> 0]]
  /\ fault = "none"
  /\ cipher \in {f \in [0 .. savedCount - 1 -> 0 .. savedCount - 1] :
                   \A c, d \in 0 .. savedCount - 1 : f[c] = f[d] => c = d}
  /\ salts = [c \in Chunks |-> NoOne]
  /\ position = 0
  /\ outputFile = [c \in Chunks |-> Nothing]
  /\ outputFileMutex = NoOne

-----------------------------------------------------------------------------
\* JobManager

UnknownWorker ==
  /\ Main("loop") /\ main.i < main.chunkCount /\ ~Registered(Line(main.i))
  /\ Fault("unknownWorker")

\* Mutant: the salts are read from the second one on.
DecryptChunkNextSalt ==
  /\ ConstructAndSend(Line(main.i))
  /\ salts' = [salts EXCEPT ![main.i] = (main.i + 1) % savedCount]

\* DecryptChunk sends the chunk's id and the salt read for it in one message.
DecryptChunk ==
  /\ ConstructAndSend(Line(main.i))
  /\ salts' = [salts EXCEPT ![main.i] = main.i]

EndLoop ==
  /\ LoopEnds
  /\ main' = [main EXCEPT !.pc = "test"]
  /\ UNCHANGED <<ids, maps, progress, wh, ch, net, fault>>

CloseOutput ==
  /\ Main("test") /\ AllDone
  /\ main' = [main EXCEPT !.pc = "closed"]
  /\ UNCHANGED <<ids, maps, progress, wh, ch, net, fault>>

\* `delete this->fullClearText`, which nothing has set: a null pointer or any other.
DeleteClearText ==
  /\ Main("closed")
  /\ \/ fault' = "badDelete" /\ UNCHANGED main
     \/ main' = [main EXCEPT !.pc = "done"] /\ UNCHANGED fault
  /\ UNCHANGED <<ids, maps, progress, wh, ch, net>>

-----------------------------------------------------------------------------
\* WorkerHandler::handleWorker, SET_CHUNK

\* Mutant: outputFileMutex is not taken.
SeekUnlocked(h) ==
  /\ Gets(h, "SET_CHUNK")
  /\ position' = h
  /\ Goto(h, "write")
  /\ UNCHANGED <<main, ids, maps, progress, ch, net, fault, outputFile, outputFileMutex>>

Seek(h) ==
  /\ Gets(h, "SET_CHUNK") /\ outputFileMutex = NoOne
  /\ outputFileMutex' = h
  /\ position' = h
  /\ Goto(h, "write")
  /\ UNCHANGED <<main, ids, maps, progress, ch, net, fault, outputFile>>

\* Mutants: the message stays where it was; outputFileMutex is not given back.
WriteUnread(h) ==
  /\ At(h, "write")
  /\ outputFile' = [outputFile EXCEPT ![position] = Message(h).data]
  /\ position' = position + 1
  /\ outputFileMutex' = NoOne
  /\ Goto(h, "count")
  /\ UNCHANGED <<main, ids, maps, progress, ch, net, fault>>
WriteLocked(h) ==
  /\ At(h, "write")
  /\ outputFile' = [outputFile EXCEPT ![position] = Message(h).data]
  /\ position' = position + 1
  /\ Read(h) /\ Goto(h, "count")
  /\ UNCHANGED <<main, ids, maps, progress, ch, backlog, toWorker, fault, outputFileMutex>>

Write(h) ==
  /\ At(h, "write")
  /\ outputFile' = [outputFile EXCEPT ![position] = Message(h).data]
  /\ position' = position + 1
  /\ outputFileMutex' = NoOne
  /\ Read(h) /\ Goto(h, "count")
  /\ UNCHANGED <<main, ids, maps, progress, ch, backlog, toWorker, fault>>

-----------------------------------------------------------------------------
\* The worker's ChunkHandler: the clear text of the file named after its chunk is
\* intact when the salt is the one the file's chunk was encrypted with.
Decrypted(c) == [chunk |-> cipher[c], intact |-> salts[c] = cipher[c]]

SendClearText(c) ==
  /\ HasReceived(c, "outputDir")
  /\ Reply(c, "finished", "SET_CHUNK", Decrypted(c))

-----------------------------------------------------------------------------
JobManager ==
  /\ \/ DecryptChunk
     \/ /\ \/ \E w \in Workers, junk \in Junk : ConnectWorker(w, junk)
           \/ CreateHandler /\ Registered(Line(main.i))
           \/ UnknownWorker \/ EndLoop \/ JobManagerWait \/ CloseOutput \/ DeleteClearText
        /\ UNCHANGED salts
  /\ UNCHANGED <<savedCount, cipher, fileVars>>

WorkerHandler(h) ==
  /\ \/ HandlerStep(h) /\ UNCHANGED fileVars
     \/ Seek(h) \/ Write(h)
  /\ UNCHANGED <<savedCount, cipher, salts>>

ChunkHandler(c) ==
  /\ Connect(c) \/ SendClearText(c)
  /\ UNCHANGED <<savedCount, cipher, salts, fileVars>>

Next == JobManager \/ \E c \in Chunks : WorkerHandler(c) \/ ChunkHandler(c)

Spec == Init /\ [][Next]_vars
FairSpec == /\ Spec /\ WF_vars(JobManager)
            /\ \A c \in Chunks : WF_vars(WorkerHandler(c)) /\ WF_vars(ChunkHandler(c))

-----------------------------------------------------------------------------
\* Properties

\* Every variable has its type; no counter passes what it counts.
TypeOK ==
  /\ JobTypeOK({"write"}, {})
  /\ savedCount \in 0 .. MAX_CHUNKS
  /\ salts \in [Chunks -> Chunks \cup {NoOne}]
  /\ position \in 0 .. MAX_CHUNKS
  /\ outputFile \in [Chunks -> [chunk : Chunks \cup {-1}, intact : BOOLEAN]]
  /\ outputFileMutex \in Chunks \cup {NoOne}
  /\ fault \in {"none", "nullConnection", "unknownWorker", "badDelete"}

\* Although handlers accept each other's connections and share one position in the
\* output file, no place of it is written twice, no chunk is written to two, and
\* the file is complete when it is closed.
Transfer == INSTANCE ChunkTransfer WITH
              MAX_PLACES <- MAX_CHUNKS, NoChunk <- Nothing.chunk,
              placed <- [p \in 0 .. main.chunkCount - 1 |-> outputFile[p].chunk],
              finished <- main.pc \in {"closed", "done"}
ImplementsTransfer == Transfer!Spec

\* When neither the encryption nor this decryption has mixed up a chunk's handlers,
\* the chunk is written intact in its own place.
OwnPlaceIntact ==
  \A h \in Chunks : wh[h].peer = h /\ outputFile[h] # Nothing /\ cipher[h] = h
                      => outputFile[h] = [chunk |-> h, intact |-> TRUE]

\* The count is read through three signed chars of four: it comes back as it was
\* when it fits in half a char, and never as more than it was.
CountLoaded == /\ main.chunkCount <= savedCount
               /\ savedCount < CHAR \div 2 => main.chunkCount = savedCount

\* A worker is not found only because the byte after its id differs from the one
\* that was saved with it.
LookupFails == fault = "unknownWorker" => main.i < savedCount /\ JunkDiffers(main.i)

\* A main thread that has blocked with chunks still to count is woken, though
\* handlers wait for each other's connections and for the output file.
WaiterWoken == main.pc = "blocked" /\ progress < main.chunkCount
                 ~> main.pc # "blocked" \/ fault # "none"
==============================================================================
