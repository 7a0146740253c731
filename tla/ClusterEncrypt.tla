---------------------------- MODULE ClusterEncrypt ----------------------------
(***************************************************************************)
(* distributed/parallel, encryption.  The master's main thread             *)
(* (JobManager) maps the file page by page and creates, for every chunk, a *)
(* WorkerHandler thread in the master and, by a message to a worker, a     *)
(* ChunkHandler thread in that worker.  The two talk over a connection of  *)
(* their own, which the ChunkHandler opens and which any WorkerHandler     *)
(* that waits in accept() may get.  Salts pass from a chunk to the next    *)
(* through the master's SaltsIndex.                                        *)
(*                                                                         *)
(* Connections are reliable and ordered.  A send and the local work before *)
(* it are one step with the receive they answer, except where another      *)
(* thread of the same process can see the state in between.                *)
(***************************************************************************)
EXTENDS DcbcSalts, DcbcBytes, FiniteSets

CONSTANTS
  MAX_WORKERS,  \* as many workers as a master may wait for
  pageSize,     \* chunks per page
  chunkCount    \* whole chunks of the file

ASSUME ClusterAssumption ==
  /\ MAX_WORKERS \in Nat \ {0}
  /\ pageSize \in Nat \ {0}
  /\ chunkCount \in Nat

VARIABLES
  min_workers,           \* workers that must connect before the job starts
  mPc, mWait, i,         \* JobManager: phase, condition variable wait, chunk to dispatch
  workers, next,         \* connected workers, and the worker after each
  base,                  \* the page that is mapped
  pageProgress, progress,
  workerHandlers,        \* chunks whose handler is in its WorkerManager's map
  value, isRequested,    \* the SaltsIndex
  saltsFile,
  whPc, whConn, peer,    \* WorkerHandlers: step, whConn # NULL, the ChunkHandler accepted
  seenProgress,          \* pageProgress as a WorkerHandler read it
  pageCountMutex,        \* its holder
  chPc, chunkRead, chSalt,  \* ChunkHandlers
  cipher,                \* the file that has the name of the chunk's
  backlog,               \* connections waiting in accept()
  toMaster, toWorker,    \* the two directions of each ChunkHandler's connection
  fault                  \* "none", or what went wrong with the master's memory

mainVars == <<mPc, mWait, i, workers, next, saltsFile>>
countVars == <<pageProgress, progress, seenProgress, pageCountMutex>>
indexVars == <<value, isRequested>>
chVars == <<chPc, chunkRead, chSalt, cipher>>
netVars == <<backlog, toMaster, toWorker>>
vars == <<min_workers, mainVars, base, countVars, workerHandlers, indexVars, whPc, whConn, peer, chVars,
          netVars, fault>>

Chunks == 0 .. chunkCount - 1
Workers == 0 .. min_workers - 1
NoOne == -1
Unmapped == -1
NoOutput == [chunk |-> -1, salt |-> NoSalt]

Main(phase) == fault = "none" /\ mPc = phase
At(h, label) == fault = "none" /\ whPc[h] = label
ChunkAt(c, label) == fault = "none" /\ chPc[c] = label
Goto(h, label) == whPc' = [whPc EXCEPT ![h] = label]

\* connection_rrc: the worker that gets chunk c.
WorkerOf(c) == c % min_workers

\* One key in a worker's map, and one file on it: the id is a char.
SameId(c, d) == WorkerOf(c) = WorkerOf(d) /\ ChunkId(c) = ChunkId(d)

Fault(what) ==
  /\ fault' = what
  /\ UNCHANGED <<mainVars, base, countVars, workerHandlers, indexVars, whPc, whConn, peer,
                 chVars, netVars>>

-----------------------------------------------------------------------------
\* JobManager

Init ==
  /\ min_workers \in 1 .. MAX_WORKERS
  /\ mPc = "connect" /\ mWait = "no" /\ i = 0
  /\ workers = 0 /\ next = [w \in Workers |-> NoOne]
  /\ base = 0
  /\ pageProgress = 0 /\ progress = 0
  /\ workerHandlers = {}
  /\ value = [c \in Chunks |-> NoSalt]
  /\ isRequested = [c \in Chunks |-> FALSE]
  /\ saltsFile = <<>>
  /\ whPc = [c \in Chunks |-> "none"]
  /\ whConn = [c \in Chunks |-> FALSE]
  /\ peer = [c \in Chunks |-> NoOne]
  /\ seenProgress = [c \in Chunks |-> 0]
  /\ pageCountMutex = NoOne
  /\ chPc = [c \in Chunks |-> "none"]
  /\ chunkRead = [c \in Chunks |-> -1]
  /\ chSalt = [c \in Chunks |-> NoSalt]
  /\ cipher = [c \in Chunks |-> NoOutput]
  /\ backlog = <<>>
  /\ toMaster = [c \in Chunks |-> <<>>]
  /\ toWorker = [c \in Chunks |-> <<>>]
  /\ fault = "none"

\* Mutant: the last worker is not followed by the first one.
ConnectWorkerUnlinked ==
  /\ Main("connect") /\ workers < min_workers
  /\ next' = [w \in Workers |-> IF w = workers - 1 THEN workers ELSE next[w]]
  /\ workers' = workers + 1
  /\ mPc' = IF workers' = min_workers THEN "loop" ELSE "connect"
  /\ UNCHANGED <<mWait, i, saltsFile, base, countVars, workerHandlers, indexVars, whPc, whConn,
                 peer, chVars, netVars, fault>>

\* HandleConnection: the new worker is followed by the first one and follows
\* the one before it.
ConnectWorker ==
  /\ Main("connect") /\ workers < min_workers
  /\ next' = [w \in Workers |-> CASE w = workers -> 0
                                  [] w = workers - 1 -> workers
                                  [] OTHER -> next[w]]
  /\ workers' = workers + 1
  /\ mPc' = IF workers' = min_workers THEN "loop" ELSE "connect"
  /\ UNCHANGED <<mWait, i, saltsFile, base, countVars, workerHandlers, indexVars, whPc, whConn,
                 peer, chVars, netVars, fault>>

\* Mutant: the loop runs once too often.
StartIterationOneMore ==
  /\ Main("loop") /\ i <= chunkCount
  /\ pageProgress' = 0
  /\ mPc' = "create"
  /\ UNCHANGED <<mWait, i, workers, next, saltsFile, base, progress, seenProgress,
                 pageCountMutex, workerHandlers, indexVars, whPc, whConn, peer, chVars, netVars,
                 fault>>

\* Every iteration starts with resetting pageProgress, under no lock.
StartIteration ==
  /\ Main("loop") /\ i < chunkCount
  /\ pageProgress' = 0
  /\ IF i > 0 /\ i % pageSize = 0
     THEN mPc' = "page" /\ mWait' = "test"
     ELSE mPc' = "create" /\ UNCHANGED mWait
  /\ UNCHANGED <<i, workers, next, saltsFile, base, progress, seenProgress, pageCountMutex,
                 workerHandlers, indexVars, whPc, whConn, peer, chVars, netVars, fault>>

EndLoop ==
  /\ Main("loop") /\ i = chunkCount
  /\ mPc' = "final" /\ mWait' = "test"
  /\ UNCHANGED <<i, workers, next, saltsFile, base, countVars, workerHandlers, indexVars, whPc,
                 whConn, peer, chVars, netVars, fault>>

\* Mutants: a page is not waited for; one chunk is not waited for.
PredicateNoWait == mPc = "all" => progress = chunkCount
PredicateOneShort == CASE mPc \in {"page", "final"} -> pageProgress = pageSize
                       [] mPc = "all" -> progress >= chunkCount - 1
                       [] OTHER -> FALSE

\* wait(lock, predicate): tests the predicate, blocks when it is false, tests
\* again when notified.  A notification between the test and blocking is lost:
\* notify_all() is called without the mutex the waiter holds.
Predicate == CASE mPc \in {"page", "final"} -> pageProgress = pageSize
               [] mPc = "all" -> progress = chunkCount
               [] OTHER -> FALSE

TestFails ==
  /\ fault = "none" /\ mWait = "test" /\ ~Predicate
  /\ mWait' = "block"
  /\ UNCHANGED <<mPc, i, workers, next, saltsFile, base, countVars, workerHandlers, indexVars,
                 whPc, whConn, peer, chVars, netVars, fault>>

Block ==
  /\ fault = "none" /\ mWait = "block"
  /\ mWait' = "wait"
  /\ UNCHANGED <<mPc, i, workers, next, saltsFile, base, countVars, workerHandlers, indexVars,
                 whPc, whConn, peer, chVars, netVars, fault>>

\* notify_all on the condition variable of the given phases.
Notify(phases) == mWait' = IF mPc \in phases /\ mWait = "wait" THEN "test" ELSE mWait

\* Replaces the mapped page by the one of chunk i.
MapPage ==
  /\ Main("page") /\ mWait = "test" /\ Predicate
  /\ base' = i \div pageSize
  /\ mPc' = "create" /\ mWait' = "no"
  /\ UNCHANGED <<i, workers, next, saltsFile, countVars, workerHandlers, indexVars, whPc,
                 whConn, peer, chVars, netVars, fault>>

UnmapFinalPage ==
  /\ Main("final") /\ mWait = "test" /\ Predicate
  /\ base' = Unmapped
  /\ mPc' = "all"
  /\ UNCHANGED <<mWait, i, workers, next, saltsFile, countVars, workerHandlers, indexVars, whPc,
                 whConn, peer, chVars, netVars, fault>>

\* The salts that are NULL are skipped.
PersistSalts ==
  /\ Main("all") /\ mWait = "test" /\ Predicate
  /\ saltsFile' = [c \in {d \in Chunks : value[d] # NoSalt} |-> value[c]]
  /\ mPc' = "done" /\ mWait' = "no"
  /\ UNCHANGED <<i, workers, next, base, countVars, workerHandlers, indexVars, whPc, whConn,
                 peer, chVars, netVars, fault>>

-----------------------------------------------------------------------------
\* WorkerManager::EncryptChunk and the WorkerHandler constructor

\* Mutant: the worker is told before the handler is constructed.
CreateHandlerSent ==
  /\ Main("create")
  /\ Goto(i, "accept")
  /\ chPc' = [chPc EXCEPT ![i] = "connect"]
  /\ mPc' = "construct"
  /\ UNCHANGED <<mWait, i, workers, next, saltsFile, base, countVars, workerHandlers, indexVars,
                 whConn, peer, chunkRead, chSalt, cipher, netVars, fault>>

\* The constructor starts the thread before it has set next and whConn.
CreateHandler ==
  /\ Main("create")
  /\ Goto(i, "accept")
  /\ mPc' = "construct"
  /\ UNCHANGED <<mWait, i, workers, next, saltsFile, base, countVars, workerHandlers, indexVars,
                 whConn, peer, chVars, netVars, fault>>

ConstructHandler ==
  /\ Main("construct")
  /\ whConn' = [whConn EXCEPT ![i] = FALSE]
  /\ mPc' = "insert"
  /\ UNCHANGED <<mWait, i, workers, next, saltsFile, base, countVars, workerHandlers, indexVars,
                 whPc, peer, chVars, netVars, fault>>

\* insert() does nothing when the id is in the map.
InsertHandler ==
  /\ Main("insert")
  /\ workerHandlers' = workerHandlers \cup {c \in {i} : \A d \in workerHandlers : ~SameId(c, d)}
  /\ mPc' = "send"
  /\ UNCHANGED <<mWait, i, workers, next, saltsFile, base, countVars, indexVars, whPc, whConn,
                 peer, chVars, netVars, fault>>

\* The worker starts a ChunkHandler thread for every message it gets, so only
\* whether the message was sent matters.
SendEncryptChunk ==
  /\ Main("send")
  /\ chPc' = [chPc EXCEPT ![i] = "connect"]
  /\ i' = i + 1
  /\ mPc' = "loop"
  /\ UNCHANGED <<mWait, workers, next, saltsFile, base, countVars, workerHandlers, indexVars,
                 whPc, whConn, peer, chunkRead, chSalt, cipher, netVars, fault>>

-----------------------------------------------------------------------------
\* ChunkHandler::encrypt.  It reads messages without looking at their flag.

Received(c) == Head(toWorker[c])
HasReceived(c) == toWorker[c] # <<>>
Consume(c) == toWorker' = [toWorker EXCEPT ![c] = Tail(@)]
Send(c, flag, data) ==
  toMaster' = [toMaster EXCEPT ![c] = Append(@, [flag |-> flag, data |-> data])]
ChunkGoto(c, label) == chPc' = [chPc EXCEPT ![c] = label]

Connect(c) ==
  /\ ChunkAt(c, "connect")
  /\ backlog' = Append(backlog, c)
  /\ ChunkGoto(c, "outputDir")
  /\ UNCHANGED <<mainVars, base, countVars, workerHandlers, indexVars, whPc, whConn, peer,
                 chunkRead, chSalt, cipher, toMaster, toWorker, fault>>

RequestChunk(c) ==
  /\ ChunkAt(c, "outputDir") /\ HasReceived(c)
  /\ Consume(c) /\ Send(c, "GET_CHUNK", <<>>)
  /\ ChunkGoto(c, "chunk")
  /\ UNCHANGED <<mainVars, base, countVars, workerHandlers, indexVars, whPc, whConn, peer,
                 chunkRead, chSalt, cipher, backlog, fault>>

RequestPreviousSalt(c) ==
  /\ ChunkAt(c, "chunk") /\ HasReceived(c)
  /\ chunkRead' = [chunkRead EXCEPT ![c] = Received(c).data]
  /\ Consume(c) /\ Send(c, "GET_PREV_SALT", <<>>)
  /\ ChunkGoto(c, "prevSalt")
  /\ UNCHANGED <<mainVars, base, countVars, workerHandlers, indexVars, whPc, whConn, peer,
                 chSalt, cipher, backlog, fault>>

CombineSalt(c) ==
  /\ ChunkAt(c, "prevSalt") /\ HasReceived(c)
  /\ chSalt' = [chSalt EXCEPT ![c] = Combine(chunkRead[c], Received(c).data)]
  /\ Consume(c) /\ Send(c, "SET_SALT", chSalt'[c])
  /\ ChunkGoto(c, "encrypt")
  /\ UNCHANGED <<mainVars, base, countVars, workerHandlers, indexVars, whPc, whConn, peer,
                 chunkRead, cipher, backlog, fault>>

\* The cipher file is named by the chunk id the worker was given, and replaces the
\* one another chunk of that id has written.
EncryptAndWrite(c) ==
  /\ ChunkAt(c, "encrypt")
  /\ cipher' = [d \in Chunks |-> IF SameId(c, d) THEN [chunk |-> chunkRead[c], salt |-> chSalt[c]]
                                ELSE cipher[d]]
  /\ Send(c, "SIGNAL_DONE", <<>>)
  /\ ChunkGoto(c, "finished")
  /\ UNCHANGED <<mainVars, base, countVars, workerHandlers, indexVars, whPc, whConn, peer,
                 chunkRead, chSalt, backlog, toWorker, fault>>

-----------------------------------------------------------------------------
\* WorkerHandler::handleWorker

Answer(h, flag, data) ==
  toWorker' = [toWorker EXCEPT ![peer'[h]] = Append(@, [flag |-> flag, data |-> data])]

\* Any handler that has got socketMutex accepts the oldest connection.
Accept(h) ==
  /\ At(h, "accept") /\ backlog # <<>>
  /\ peer' = [peer EXCEPT ![h] = Head(backlog)]
  /\ whConn' = [whConn EXCEPT ![h] = TRUE]
  /\ backlog' = Tail(backlog)
  /\ Answer(h, "SET_OUTPUT_DIR", <<>>)
  /\ Goto(h, "recv")
  /\ UNCHANGED <<mainVars, base, countVars, workerHandlers, indexVars, chVars, toMaster, fault>>

\* The constructor has overwritten whConn with NULL.
NullConnection(h) ==
  /\ At(h, "recv") /\ ~whConn[h]
  /\ Fault("nullConnection")

\* The next message h reads has the given flag.
Gets(h, flag) ==
  /\ At(h, "recv")
  /\ toMaster[peer[h]] # <<>> /\ Head(toMaster[peer[h]]).flag = flag
  /\ toMaster' = [toMaster EXCEPT ![peer[h]] = Tail(@)]

\* GET_CHUNK: the chunk's place in whatever page is mapped.
SendChunk(h) ==
  /\ Gets(h, "GET_CHUNK") /\ whConn[h] /\ base # Unmapped
  /\ UNCHANGED <<mainVars, base, countVars, workerHandlers, indexVars, whConn, peer, chVars,
                 backlog, fault>>
  /\ Answer(h, "ENCRYPT_CHUNK", base * pageSize + (h % pageSize))
  /\ Goto(h, "readProgress")

\* The send reads a page that is no longer mapped.
SendUnmapped(h) ==
  /\ At(h, "recv") /\ whConn[h] /\ base = Unmapped
  /\ toMaster[peer[h]] # <<>> /\ Head(toMaster[peer[h]]).flag = "GET_CHUNK"
  /\ Fault("unmapped")

\* onChunkSent: *pageProgress += 1 is a read and a write; then it is read again.
ReadPageProgress(h) ==
  /\ At(h, "readProgress") /\ pageCountMutex = NoOne
  /\ pageCountMutex' = h
  /\ seenProgress' = [seenProgress EXCEPT ![h] = pageProgress]
  /\ Goto(h, "writeProgress")
  /\ UNCHANGED <<mainVars, base, pageProgress, progress, workerHandlers, indexVars, whConn,
                 peer, chVars, netVars, fault>>

\* Mutant: pageCountMutex is not unlocked.
WritePageProgressLocked(h) ==
  /\ At(h, "writeProgress")
  /\ pageProgress' = seenProgress[h] + 1
  /\ Goto(h, "testPage")
  /\ UNCHANGED <<mainVars, base, progress, seenProgress, pageCountMutex, workerHandlers,
                 indexVars, whConn, peer, chVars, netVars, fault>>

WritePageProgress(h) ==
  /\ At(h, "writeProgress")
  /\ pageProgress' = seenProgress[h] + 1
  /\ pageCountMutex' = NoOne
  /\ Goto(h, "testPage")
  /\ UNCHANGED <<mainVars, base, progress, seenProgress, workerHandlers, indexVars, whConn,
                 peer, chVars, netVars, fault>>

NotifyPage(h) ==
  /\ At(h, "testPage")
  /\ IF pageProgress = pageSize THEN Notify({"page", "final"}) ELSE UNCHANGED mWait
  /\ Goto(h, "recv")
  /\ UNCHANGED <<mPc, i, workers, next, saltsFile, base, countVars, workerHandlers, indexVars,
                 whConn, peer, chVars, netVars, fault>>

\* Mutants: a salt that is not set is sent; a salt that was sent is requested too.
AnswerPreviousSaltUnset(h) ==
  /\ Gets(h, "GET_PREV_SALT") /\ whConn[h]
  /\ UNCHANGED <<mainVars, base, countVars, workerHandlers, indexVars, whPc, whConn, peer,
                 chVars, backlog, fault>>
  /\ Answer(h, "GET_PREV_SALT_RESP", IF h = 0 THEN IV ELSE value[h - 1])
AnswerPreviousSaltTwice(h) ==
  /\ Gets(h, "GET_PREV_SALT") /\ whConn[h]
  /\ h > 0 => value[h - 1] # NoSalt
  /\ UNCHANGED <<mainVars, base, countVars, workerHandlers, value, whPc, whConn, peer,
                 chVars, backlog, fault>>
  /\ isRequested' = [c \in Chunks |-> isRequested[c] \/ c = h - 1]
  /\ Answer(h, "GET_PREV_SALT_RESP", IF h = 0 THEN IV ELSE value[h - 1])

\* onGetPreviousSalt: the first chunk gets the IV, the others the salt before
\* theirs, if it is there.
AnswerPreviousSalt(h) ==
  /\ Gets(h, "GET_PREV_SALT") /\ whConn[h]
  /\ h > 0 => value[h - 1] # NoSalt
  /\ UNCHANGED <<mainVars, base, countVars, workerHandlers, indexVars, whPc, whConn, peer,
                 chVars, backlog, fault>>
  /\ Answer(h, "GET_PREV_SALT_RESP", IF h = 0 THEN IV ELSE value[h - 1])

MissPreviousSalt(h) ==
  /\ Gets(h, "GET_PREV_SALT")
  /\ h > 0 /\ value[h - 1] = NoSalt
  /\ Goto(h, "request")
  /\ UNCHANGED <<mainVars, base, countVars, workerHandlers, indexVars, whConn, peer, chVars,
                 backlog, toWorker, fault>>

Request(h) ==
  /\ At(h, "request")
  /\ isRequested' = [isRequested EXCEPT ![h - 1] = TRUE]
  /\ Goto(h, "recv")
  /\ UNCHANGED <<mainVars, base, countVars, workerHandlers, value, whConn, peer, chVars,
                 netVars, fault>>

\* onSetSalt
SetSalt(h) ==
  /\ Gets(h, "SET_SALT")
  /\ value' = [value EXCEPT ![h] = Head(toMaster[peer[h]]).data]
  /\ Goto(h, "isRequested")
  /\ UNCHANGED <<mainVars, base, countVars, workerHandlers, isRequested, whConn, peer, chVars,
                 backlog, toWorker, fault>>

NotRequested(h) ==
  /\ At(h, "isRequested") /\ ~isRequested[h]
  /\ Goto(h, "recv")
  /\ UNCHANGED <<mainVars, base, countVars, workerHandlers, indexVars, whConn, peer, chVars,
                 netVars, fault>>

\* The handlers that the next worker has under the id after that of h.  The id goes
\* through c_str(): a char 0 is cut off, and no key is that short.
Found(h) == {g \in workerHandlers : /\ WorkerOf(g) = next[WorkerOf(h)]
                                    /\ ChunkId(g) = ChunkId(h + 1) /\ ChunkId(g) # 0}

\* Whether this->next is set: the constructor of h is past it.
Constructed(h) == ~(mPc = "construct" /\ i = h)

\* next->SetPreviousSalt(): find() in a map, then a send on another handler's
\* connection.
AnswerNext(h) ==
  /\ At(h, "isRequested") /\ isRequested[h] /\ Constructed(h)
  /\ UNCHANGED <<mainVars, base, countVars, workerHandlers, indexVars, whConn, peer, chVars,
                 backlog, toMaster, fault>>
  /\ \E g \in Found(h) : whConn[g] /\ Answer(g, "GET_PREV_SALT_RESP", value[h])
  /\ Goto(h, "recv")

AnswerNullNext(h) ==
  /\ At(h, "isRequested") /\ isRequested[h] /\ Constructed(h)
  /\ \E g \in Found(h) : ~whConn[g]
  /\ Fault("nullConnection")

\* next is not set yet, or find() has returned end(): neither is tested.
AnswerNoNext(h) ==
  /\ At(h, "isRequested") /\ isRequested[h]
  /\ Constructed(h) => Found(h) = {}
  /\ Fault("noNext")

\* The map is looked up while the main thread inserts into it.
MapRace(h) ==
  /\ At(h, "isRequested") /\ isRequested[h]
  /\ mPc = "insert" /\ WorkerOf(i) = next[WorkerOf(h)]
  /\ Fault("mapRace")

\* onChunkHandled: counts under chunkCountMutex, tests the count after it is
\* unlocked.
CountChunk(h) ==
  /\ Gets(h, "SIGNAL_DONE")
  /\ progress' = progress + 1
  /\ Goto(h, "testAll")
  /\ UNCHANGED <<mainVars, base, pageProgress, seenProgress, pageCountMutex, workerHandlers,
                 indexVars, whConn, peer, chVars, backlog, toWorker, fault>>

NotifyAll(h) ==
  /\ At(h, "testAll")
  /\ IF progress = chunkCount THEN Notify({"all"}) ELSE UNCHANGED mWait
  /\ Goto(h, "recv")
  /\ UNCHANGED <<mPc, i, workers, next, saltsFile, base, countVars, workerHandlers, indexVars,
                 whConn, peer, chVars, netVars, fault>>

-----------------------------------------------------------------------------
JobManager ==
  /\ \/ ConnectWorker \/ StartIteration \/ EndLoop \/ TestFails \/ Block
     \/ MapPage \/ UnmapFinalPage \/ PersistSalts
     \/ CreateHandler \/ ConstructHandler \/ InsertHandler \/ SendEncryptChunk
  /\ UNCHANGED min_workers
WorkerHandler(h) ==
  /\ \/ Accept(h) \/ NullConnection(h) \/ SendChunk(h) \/ SendUnmapped(h)
     \/ ReadPageProgress(h) \/ WritePageProgress(h) \/ NotifyPage(h)
     \/ AnswerPreviousSalt(h) \/ MissPreviousSalt(h) \/ Request(h)
     \/ SetSalt(h) \/ NotRequested(h) \/ AnswerNext(h) \/ AnswerNullNext(h)
     \/ AnswerNoNext(h) \/ MapRace(h) \/ CountChunk(h) \/ NotifyAll(h)
  /\ UNCHANGED min_workers
ChunkHandler(c) ==
  /\ \/ Connect(c) \/ RequestChunk(c) \/ RequestPreviousSalt(c)
     \/ CombineSalt(c) \/ EncryptAndWrite(c)
  /\ UNCHANGED min_workers

Next == JobManager \/ \E c \in Chunks : WorkerHandler(c) \/ ChunkHandler(c)

Spec == Init /\ [][Next]_vars
Fairness == /\ WF_vars(JobManager)
            /\ \A c \in Chunks : WF_vars(WorkerHandler(c)) /\ WF_vars(ChunkHandler(c))
FairSpec == Spec /\ Fairness

-----------------------------------------------------------------------------
\* Properties

Labels == {"none", "accept", "recv", "readProgress", "writeProgress", "testPage", "request",
           "isRequested", "testAll"}
ChunkLabels == {"none", "connect", "outputDir", "chunk", "prevSalt", "encrypt", "finished"}

\* Every variable has its type; no counter passes what it counts.
TypeOK ==
  /\ mPc \in {"connect", "loop", "page", "create", "construct", "insert", "send", "final",
              "all", "done"}
  /\ mWait \in {"no", "test", "block", "wait"}
  /\ i \in 0 .. chunkCount
  /\ min_workers \in 1 .. MAX_WORKERS /\ workers \in 0 .. min_workers
  /\ next \in [Workers -> Workers \cup {NoOne}]
  /\ base \in 0 .. chunkCount \/ base = Unmapped
  /\ pageProgress \in Nat
  /\ progress \in 0 .. chunkCount
  /\ workerHandlers \subseteq Chunks
  /\ value \in [Chunks -> Seq(Int)]
  /\ isRequested \in [Chunks -> BOOLEAN]
  /\ whPc \in [Chunks -> Labels]
  /\ whConn \in [Chunks -> BOOLEAN]
  /\ peer \in [Chunks -> Chunks \cup {NoOne}]
  /\ chPc \in [Chunks -> ChunkLabels]
  /\ chunkRead \in [Chunks -> Int]
  /\ chSalt \in [Chunks -> Seq(Int)]
  /\ cipher \in [Chunks -> [chunk : Int, salt : Seq(Int)]]
  /\ backlog \in Seq(Chunks)
  /\ pageCountMutex \in Chunks \cup {NoOne}
  /\ fault \in {"none", "nullConnection", "noNext", "mapRace", "unmapped"}

\* The chunk of h has not been read from the mapped page yet.
Unsent(h) == \/ whPc[h] = "accept"
             \/ whPc[h] = "recv" /\ chPc[peer[h]] \in {"outputDir", "chunk"}
                                 /\ \A k \in 1 .. Len(toWorker[peer[h]]) :
                                      toWorker[peer[h]][k].flag # "ENCRYPT_CHUNK"

\* A page is not replaced by another before every chunk of it has been sent to a
\* worker, although the count that main waits for is reset, under no lock, while
\* chunks are being sent and counted.
PageStaysMapped == \A h \in Chunks : Unsent(h) => base \in {h \div pageSize, Unmapped}

\* A chunk handler looks at no flag, so every message must be the one it waits for.
Awaited == [outputDir |-> "SET_OUTPUT_DIR", chunk |-> "ENCRYPT_CHUNK",
            prevSalt |-> "GET_PREV_SALT_RESP"]
MessagesMatch ==
  \A c \in Chunks : HasReceived(c) => /\ chPc[c] \in DOMAIN Awaited
                                      /\ Received(c).flag = Awaited[chPc[c]]
                                      /\ Len(toWorker[c]) = 1

\* "next woker is alreading running (as he is the one who made the request) so we
\* know that this->next exists" (WorkerHandler.cpp:131).  What the code keeps of it: a
\* requested salt has a registered handler to go to, the one of the chunk after and no
\* other, although handlers accept each other's connections; but the handler whose id
\* has the char 0 (the one of chunk 254) is never found.
NextExists ==
  \A h \in Chunks : whPc[h] = "isRequested" /\ isRequested[h] =>
                       Constructed(h) /\ Found(h) = {g \in {h + 1} : ChunkId(g) # 0}

\* The salts file is written with the salt of every chunk, each chained to the
\* one before it.
SaltsComplete == mPc = "done" => saltsFile = [c \in Chunks |-> ReferenceSalt(c)]

\* Whatever chunk handler serves it, every chunk's salt is chained in order and
\* the chunk is encrypted with it before the job finishes.
OfChunk(f, none) == [h \in Chunks |-> IF peer[h] = NoOne THEN none ELSE f[peer[h]]]
Chain == INSTANCE DcbcChain WITH Contents <- [c \in Chunks |-> {c}],
                                 salts <- OfChunk(chSalt, NoSalt),
                                 output <- OfChunk(cipher, NoOutput),
                                 finished <- mPc = "done"
ImplementsChain == Chain!Spec

\* Each cipher file holds the chunk it is named after.
CorrectFiles ==
  \A c \in Chunks : cipher[c] # NoOutput =>
                      cipher[c] = [chunk |-> c, salt |-> ReferenceSalt(c)]

\* A handler may lose its connection to its own constructor, which runs on after it
\* has started the handler's thread, but only the connection of another chunk: its
\* own chunk handler does not exist before the constructor has ended.
KeepsOwnConnection == \A h \in Chunks : peer[h] = h => whConn[h]

\* In the end every chunk that was dispatched has been sent to a chunk handler, and
\* counted, though handlers wait for each other's connections and counts.
DispatchedIsSent ==
  <>[](\/ fault # "none"
       \/ \A h \in Chunks : ~Unsent(h) /\ whPc[h] \notin {"readProgress", "writeProgress"})

\* "Respond to a GET_PREV_SALT_FLAG request" (comm-flags.h:7): a request is answered.
RequestIsAnswered == \A c \in Chunks : chPc[c] = "prevSalt" ~> (chPc[c] = "encrypt" \/ fault # "none")

\* "Wait for & unmap the final page" (JobManager.cpp:123): the final page is not
\* unmapped before every chunk of it has been sent.
FinalPageSent == \A h \in Chunks : Unsent(h) => base # Unmapped
==============================================================================
