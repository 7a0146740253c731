------------------------------ MODULE SeqCluster ------------------------------
(***************************************************************************)
(* distributed/sequential.  The master encrypts the whole file by itself   *)
(* and hands the cipher text out in pieces, which workers save in files    *)
(* (JobManager::Encrypt); later a new master, with the workers connecting  *)
(* anew, fetches the pieces by the ids in the .maps file and decrypts them *)
(* as one (JobManager::Decrypt).  A behaviour is the two jobs after each   *)
(* other, with the restart between them.                                   *)
(***************************************************************************)
EXTENDS ClusterJob

CONSTANT FETCH_CHUNKS  \* how many chunks Decrypt takes every file to have: 16

ASSUME FetchAssumption == FETCH_CHUNKS \in 0 .. MAX_CHUNKS

VARIABLES
  op,               \* "E" or "D"
  fileChunks,       \* whole chunks of the file
  files,            \* the cipher files: the piece in each, by worker and name
  fullClearText,    \* Decrypt's buffer: the piece in each place
  fullClearTextSize, seen  \* the size, in chunks, and as handlers have read it

dataVars == <<fullClearText, fullClearTextSize, seen>>
vars == <<jobVars, op, fileChunks, files, dataVars>>

Nothing == -1
Names == {ChunkId(c) : c \in Chunks}

Init ==
  /\ op = "E"
  /\ fileChunks \in 0 .. MAX_CHUNKS
  /\ JobInit(fileChunks)
  /\ maps = NoMaps /\ fault = "none"
  /\ files = [f \in Workers \X Names |-> Nothing]
  /\ fullClearText = [c \in Chunks |-> Nothing]
  /\ fullClearTextSize = 0
  /\ seen = [c \in Chunks |-> 0]

\* The second job: only files outlive the first.
Restart ==
  /\ op = "E" /\ Main("done")
  /\ op' = "D"
  /\ JobRestart(FETCH_CHUNKS)
  /\ UNCHANGED <<maps, fault, fileChunks, files, dataVars>>

-----------------------------------------------------------------------------
\* JobManager

\* Mutant: chunks are fetched where they would be saved now.
TargetRoundRobin == RoundRobin(main.i)

Target == IF op = "E" THEN RoundRobin(main.i) ELSE Line(main.i)

\* workersIds.find() returns end(), which is dereferenced.
UnknownWorker ==
  /\ Main("loop") /\ main.i < main.chunkCount /\ ~Registered(Target)
  /\ Fault("unknownWorker")

\* Mutant: the last line is left out.
EndLoopShort ==
  /\ LoopEnds
  /\ main' = [main EXCEPT !.pc = "test"]
  /\ maps' = IF op = "E" THEN [c \in 0 .. fileChunks - 2 |-> RoundRobin(c)] ELSE maps
  /\ UNCHANGED <<ids, progress, wh, ch, net, fault>>

EndLoop ==
  /\ LoopEnds
  /\ main' = [main EXCEPT !.pc = "test"]
  /\ maps' = IF op = "E" THEN [c \in 0 .. fileChunks - 1 |-> RoundRobin(c)] ELSE maps
  /\ UNCHANGED <<ids, progress, wh, ch, net, fault>>

Finish ==
  /\ Main("test") /\ AllDone
  /\ main' = [main EXCEPT !.pc = "done"]
  /\ UNCHANGED <<ids, maps, progress, wh, ch, net, fault>>

-----------------------------------------------------------------------------
\* WorkerHandler::handleWorker

\* Mutant: the piece main is dispatching.
SendPieceShared(h) ==
  /\ Gets(h, "GET_CHUNK") /\ wh[h].conn
  /\ Read(h)
  /\ UNCHANGED <<main, ids, maps, progress, wh, ch, backlog, fault>>
  /\ Answer(h, "ENCRYPT_CHUNK", main.i - 1)

\* GET_CHUNK: the handler's own place in the cipher text.
SendPiece(h) ==
  /\ Gets(h, "GET_CHUNK") /\ wh[h].conn
  /\ Read(h)
  /\ UNCHANGED <<main, ids, maps, progress, wh, ch, backlog, fault>>
  /\ Answer(h, "ENCRYPT_CHUNK", h)

PieceSaved(h) ==
  /\ Gets(h, "SIGNAL_DONE")
  /\ Read(h) /\ Goto(h, "count")
  /\ UNCHANGED <<main, ids, maps, progress, ch, backlog, toWorker, fault>>

\* SET_CHUNK: fullClearTextSize += dataLength is a read and a write, under no
\* lock; then the piece is copied to the handler's place.
ReadSize(h) ==
  /\ Gets(h, "SET_CHUNK")
  /\ seen' = [seen EXCEPT ![h] = fullClearTextSize]
  /\ Goto(h, "store")
  /\ UNCHANGED <<main, ids, maps, progress, ch, net, fault, fullClearText, fullClearTextSize>>

\* Mutant: the size is not added.
StorePieceOnly(h) ==
  /\ At(h, "store")
  /\ fullClearText' = [fullClearText EXCEPT ![h] = Message(h).data]
  /\ Read(h) /\ Goto(h, "count")
  /\ UNCHANGED <<main, ids, maps, progress, ch, backlog, toWorker, fault, fullClearTextSize, seen>>

StorePiece(h) ==
  /\ At(h, "store")
  /\ fullClearTextSize' = seen[h] + 1
  /\ fullClearText' = [fullClearText EXCEPT ![h] = Message(h).data]
  /\ seen' = [seen EXCEPT ![h] = 0]
  /\ Read(h) /\ Goto(h, "count")
  /\ UNCHANGED <<main, ids, maps, progress, ch, backlog, toWorker, fault>>

-----------------------------------------------------------------------------
\* The worker's ChunkHandler.  A file is named after the chunk id it was given.

File(c) == <<ch[c].worker, ChunkId(c)>>

RequestPiece(c) ==
  /\ op = "E" /\ HasReceived(c, "outputDir")
  /\ Reply(c, "piece", "GET_CHUNK", Nothing)
  /\ UNCHANGED files

SavePiece(c) ==
  /\ HasReceived(c, "piece")
  /\ files' = [files EXCEPT ![File(c)] = Received(c).data]
  /\ Reply(c, "finished", "SIGNAL_DONE", Nothing)

SendFile(c) ==
  /\ op = "D" /\ HasReceived(c, "outputDir")
  /\ Reply(c, "finished", "SET_CHUNK", files[File(c)])
  /\ UNCHANGED files

-----------------------------------------------------------------------------
JobManager ==
  /\ \/ \E w \in Workers, junk \in Junk : ConnectWorker(w, junk)
     \/ Registered(Target) /\ CreateHandler
     \/ ConstructAndSend(Target)
     \/ UnknownWorker \/ EndLoop \/ JobManagerWait \/ Finish
  /\ UNCHANGED <<op, fileChunks, files, dataVars>>

WorkerHandler(h) ==
  /\ \/ (HandlerStep(h) \/ SendPiece(h) \/ PieceSaved(h)) /\ UNCHANGED dataVars
     \/ ReadSize(h) \/ StorePiece(h)
  /\ UNCHANGED <<op, fileChunks, files>>

ChunkHandler(c) ==
  /\ \/ Connect(c) /\ UNCHANGED files
     \/ RequestPiece(c) \/ SavePiece(c) \/ SendFile(c)
  /\ UNCHANGED <<op, fileChunks, dataVars>>

Next == \/ JobManager \/ Restart
        \/ \E c \in Chunks : WorkerHandler(c) \/ ChunkHandler(c)

Spec == Init /\ [][Next]_vars
FairSpec == /\ Spec /\ WF_vars(JobManager)
            /\ \A c \in Chunks : WF_vars(WorkerHandler(c)) /\ WF_vars(ChunkHandler(c))

-----------------------------------------------------------------------------
\* Properties

\* Every variable has its type; no counter passes what it counts.
TypeOK ==
  /\ JobTypeOK({"store"}, {"piece"})
  /\ op \in {"E", "D"}
  /\ fileChunks \in 0 .. MAX_CHUNKS
  /\ files \in [Workers \X Names -> Chunks \cup {Nothing}]
  /\ fullClearText \in [Chunks -> Chunks \cup {Nothing}]
  /\ fullClearTextSize \in 0 .. MAX_CHUNKS
  /\ seen \in [Chunks -> 0 .. MAX_CHUNKS]
  /\ fault \in {"none", "nullConnection", "unknownWorker"}

\* The piece in the file that is named after chunk c, on whatever worker.
SavedAs(c) == IF \E w \in Workers : files[w, ChunkId(c)] # Nothing
              THEN files[CHOOSE w \in Workers : files[w, ChunkId(c)] # Nothing, ChunkId(c)]
              ELSE Nothing

\* Encrypt: although handlers accept each other's connections, every piece is in
\* one file and every file has one piece when the job is done, and it stays there.
Save == INSTANCE ChunkTransfer WITH
          MAX_PLACES <- MAX_CHUNKS, NoChunk <- Nothing,
          placed <- [c \in 0 .. fileChunks - 1 |-> SavedAs(c)],
          finished <- op = "D" \/ main.pc = "done"
ImplementsSave == Save!Spec

\* Decrypt, after a restart: the pieces are found although workers connect in
\* another order, no place of the buffer gets two and no two places get the same,
\* and every place has one when the job is done.
Fetch == INSTANCE ChunkTransfer WITH
           MAX_PLACES <- MAX_CHUNKS, NoChunk <- Nothing,
           placed <- [c \in 0 .. FETCH_CHUNKS - 1 |-> fullClearText[c]],
           finished <- op = "D" /\ main.pc = "done"
ImplementsFetch == Fetch!Spec

\* The unlocked sum of sizes may lose chunks; it never loses all of them, nor
\* counts one that is not there.
SizeInRange == op = "D" /\ main.pc = "done" /\ FETCH_CHUNKS > 0
                 => fullClearTextSize \in 1 .. FETCH_CHUNKS

\* A worker is not found only for a chunk the file does not have, or because the
\* byte after its id differs from the one that was saved with it.
LookupFails == fault = "unknownWorker" => main.i >= fileChunks \/ JunkDiffers(main.i)

\* A main thread that has blocked with chunks still to count is woken (one that was
\* about to block when the last was counted is not).
WaiterWoken == main.pc = "blocked" /\ ~AllDone ~> main.pc # "blocked" \/ fault # "none"
==============================================================================
