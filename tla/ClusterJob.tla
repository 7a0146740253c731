------------------------------ MODULE ClusterJob ------------------------------
(***************************************************************************)
(* What the masters of distributed/sequential and distributed/parallel do  *)
(* alike when a job's chunks do not depend on each other: workers register *)
(* under an id, the main thread (JobManager) creates a WorkerHandler       *)
(* thread for every chunk and tells a worker to start a ChunkHandler       *)
(* thread, the two talk over a connection that any waiting WorkerHandler   *)
(* may accept, and the main thread waits until every chunk is counted.     *)
(* What is said over the connection is up to the module that extends this. *)
(*                                                                         *)
(* Connections are reliable and ordered (module Wire says how they are     *)
(* made of bytes).  A send and the local work before it are one step with  *)
(* the receive they answer, except where another thread of the process can *)
(* see the state in between.                                               *)
(***************************************************************************)
EXTENDS DcbcBytes, Sequences

CONSTANTS
  min_workers,  \* workers that must connect before the job starts
  MAX_CHUNKS,   \* as many chunks as a job may have
  Junk          \* what the byte after a received id may hold (but a newline,
                \* which would split a line of .maps)

ASSUME JobAssumption ==
  /\ min_workers \in Nat \ {0}
  /\ MAX_CHUNKS \in Nat
  /\ Junk # {}

VARIABLES
  main,       \* main thread: step, chunk i of its loop, chunkCount
  ids,        \* ids of the connected workers, in the order they connected
  maps,       \* the .maps file: the id of each chunk's worker
  progress,
  wh,         \* WorkerHandlers: step, whConn # NULL, the ChunkHandler accepted
  ch,         \* ChunkHandlers: step, and the worker they run on
  backlog,    \* connections waiting in accept()
  toMaster, toWorker,  \* the two directions of each ChunkHandler's connection
  fault       \* "none", or what went wrong with the master's memory

net == <<backlog, toMaster, toWorker>>
jobVars == <<main, ids, maps, progress, wh, ch, net, fault>>

Chunks == 0 .. MAX_CHUNKS - 1
Workers == 0 .. min_workers - 1
NoOne == -1
NoMaps == <<>>

Main(label) == fault = "none" /\ main.pc = label
At(h, label) == fault = "none" /\ wh[h].pc = label
ChunkAt(c, label) == fault = "none" /\ ch[c].pc = label
Goto(h, label) == wh' = [wh EXCEPT ![h].pc = label]

Fault(what) == fault' = what /\ UNCHANGED <<main, ids, maps, progress, wh, ch, net>>

\* A master and workers that have just been started.
Started(main1, ids1, progress1, wh1, ch1, backlog1, toMaster1, toWorker1, chunkCount) ==
  /\ main1 = [pc |-> "connect", i |-> 0, chunkCount |-> chunkCount]
  /\ ids1 = <<>>
  /\ progress1 = 0
  /\ wh1 = [c \in Chunks |-> [pc |-> "none", conn |-> FALSE, peer |-> NoOne]]
  /\ ch1 = [c \in Chunks |-> [pc |-> "none", worker |-> NoOne]]
  /\ backlog1 = <<>>
  /\ toMaster1 = [c \in Chunks |-> <<>>]
  /\ toWorker1 = [c \in Chunks |-> <<>>]

JobInit(chunkCount) ==
  Started(main, ids, progress, wh, ch, backlog, toMaster, toWorker, chunkCount)
JobRestart(chunkCount) ==
  Started(main', ids', progress', wh', ch', backlog', toMaster', toWorker', chunkCount)

-----------------------------------------------------------------------------
\* JobManager

\* HandleConnection: the id is built with one byte more than was received.
ConnectWorker(w, junk) ==
  /\ Main("connect")
  /\ \A k \in DOMAIN ids : ids[k].worker # w
  /\ ids' = Append(ids, [worker |-> w, junk |-> junk])
  /\ main' = [main EXCEPT !.pc = IF Len(ids') = min_workers THEN "loop" ELSE "connect"]
  /\ UNCHANGED <<maps, progress, wh, ch, net, fault>>

\* The line of the .maps file for chunk c; past the end of the file it is empty.
Line(c) == IF c \in DOMAIN maps THEN maps[c] ELSE [worker |-> NoOne, junk |-> NoOne]

\* workersIds.find() finds the id; the worker that gets chunk c of a new file.
Registered(id) == \E k \in DOMAIN ids : ids[k] = id
RoundRobin(c) == ids[(c % Len(ids)) + 1]

\* Mutant: the loop runs once too often.
CreateHandlerOneMore ==
  /\ Main("loop") /\ main.i <= main.chunkCount
  /\ Goto(main.i, "accept")
  /\ main' = [main EXCEPT !.pc = "construct"]
  /\ UNCHANGED <<ids, maps, progress, ch, net, fault>>

\* The WorkerHandler constructor starts the thread before it sets whConn.
CreateHandler ==
  /\ Main("loop") /\ main.i < main.chunkCount
  /\ Goto(main.i, "accept")
  /\ main' = [main EXCEPT !.pc = "construct"]
  /\ UNCHANGED <<ids, maps, progress, ch, net, fault>>

\* The rest of the constructor, and the message for which the worker's main
\* loop starts a ChunkHandler.
ConstructAndSend(id) ==
  /\ Main("construct")
  /\ wh' = [wh EXCEPT ![main.i].conn = FALSE]
  /\ ch' = [ch EXCEPT ![main.i] = [pc |-> "connect", worker |-> id.worker]]
  /\ main' = [main EXCEPT !.pc = "loop", !.i = @ + 1]
  /\ UNCHANGED <<ids, maps, progress, net, fault>>

\* A negative count ends the loop at once as well.
LoopEnds == Main("loop") /\ main.i >= main.chunkCount

AllDone == progress = main.chunkCount

\* allDone.wait(lock, predicate): tests, blocks, and tests again when notified.  A
\* notification between the test and blocking is lost: notify_all() is called
\* without the mutex the main thread holds.
TestFails ==
  /\ Main("test") /\ ~AllDone
  /\ main' = [main EXCEPT !.pc = "block"]
  /\ UNCHANGED <<ids, maps, progress, wh, ch, net, fault>>

Block ==
  /\ Main("block")
  /\ main' = [main EXCEPT !.pc = "blocked"]
  /\ UNCHANGED <<ids, maps, progress, wh, ch, net, fault>>

-----------------------------------------------------------------------------
\* WorkerHandler

Answer(h, flag, data) ==
  toWorker' = [toWorker EXCEPT ![wh'[h].peer] = Append(@, [flag |-> flag, data |-> data])]

\* Any handler that has got socketMutex accepts the oldest connection, and sends
\* the output directory.
Accept(h) ==
  /\ At(h, "accept") /\ backlog # <<>>
  /\ wh' = [wh EXCEPT ![h] = [pc |-> "recv", conn |-> TRUE, peer |-> Head(backlog)]]
  /\ backlog' = Tail(backlog)
  /\ Answer(h, "SET_OUTPUT_DIR", NoOne)
  /\ UNCHANGED <<main, ids, maps, progress, ch, toMaster, fault>>

\* The constructor has overwritten whConn with NULL.
NullConnection(h) ==
  /\ At(h, "recv") /\ ~wh[h].conn
  /\ Fault("nullConnection")

\* The next message h reads has the given flag; it is read.
Message(h) == Head(toMaster[wh[h].peer])
Gets(h, flag) ==
  /\ At(h, "recv")
  /\ toMaster[wh[h].peer] # <<>> /\ Message(h).flag = flag
Read(h) == toMaster' = [toMaster EXCEPT ![wh[h].peer] = Tail(@)]

\* onChunkHandled: counts under chunkCountMutex, tests the count after it is
\* unlocked.
CountChunk(h) ==
  /\ At(h, "count")
  /\ progress' = progress + 1
  /\ Goto(h, "notify")
  /\ UNCHANGED <<main, ids, maps, ch, net, fault>>

\* Mutant: the last chunk does not notify.
NotifyAllButLast(h) ==
  /\ At(h, "notify")
  /\ main' = IF progress = main.chunkCount - 1 /\ main.pc = "blocked"
             THEN [main EXCEPT !.pc = "test"] ELSE main
  /\ Goto(h, "recv")
  /\ UNCHANGED <<ids, maps, progress, ch, net, fault>>

NotifyAll(h) ==
  /\ At(h, "notify")
  /\ main' = IF AllDone /\ main.pc = "blocked" THEN [main EXCEPT !.pc = "test"] ELSE main
  /\ Goto(h, "recv")
  /\ UNCHANGED <<ids, maps, progress, ch, net, fault>>

-----------------------------------------------------------------------------
\* ChunkHandler

HasReceived(c, label) == ChunkAt(c, label) /\ toWorker[c] # <<>>
Received(c) == Head(toWorker[c])
Send(c, flag, data) ==
  toMaster' = [toMaster EXCEPT ![c] = Append(@, [flag |-> flag, data |-> data])]
ChunkGoto(c, label) == ch' = [ch EXCEPT ![c].pc = label]

\* connectToWorkerHandler, up to waiting for the output directory.
Connect(c) ==
  /\ ChunkAt(c, "connect")
  /\ backlog' = Append(backlog, c)
  /\ ChunkGoto(c, "outputDir")
  /\ UNCHANGED <<main, ids, maps, progress, wh, toMaster, toWorker, fault>>

\* A message is read, and answered in the same step.
Reply(c, label, flag, data) ==
  /\ toWorker' = [toWorker EXCEPT ![c] = Tail(@)]
  /\ Send(c, flag, data)
  /\ ChunkGoto(c, label)
  /\ UNCHANGED <<main, ids, maps, progress, wh, backlog, fault>>

-----------------------------------------------------------------------------
\* Everything the extending modules leave alone is one of these.
JobManagerWait == TestFails \/ Block
HandlerStep(h) == Accept(h) \/ NullConnection(h) \/ CountChunk(h) \/ NotifyAll(h)

JobTypeOK(whLabels, chLabels) ==
  /\ main \in [pc : {"connect", "loop", "construct", "test", "block", "blocked", "closed", "done"},
               i : 0 .. MAX_CHUNKS, chunkCount : Int]
  /\ ids \in Seq([worker : Workers, junk : Junk]) /\ Len(ids) <= min_workers
  /\ progress \in 0 .. MAX_CHUNKS
  /\ wh \in [Chunks -> [pc : {"none", "accept", "recv", "count", "notify"} \cup whLabels,
                        conn : BOOLEAN, peer : Chunks \cup {NoOne}]]
  /\ ch \in [Chunks -> [pc : {"none", "connect", "outputDir", "finished"} \cup chLabels,
                        worker : Workers \cup {NoOne}]]
  /\ backlog \in Seq(Chunks)

\* The worker of chunk c is connected, but not under the id in the .maps file.
JunkDiffers(c) ==
  \E k \in DOMAIN ids : ids[k].worker = Line(c).worker /\ ids[k].junk # Line(c).junk
==============================================================================
