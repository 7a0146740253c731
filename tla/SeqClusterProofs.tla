--------------------------- MODULE SeqClusterProofs ---------------------------
(***************************************************************************)
(* Theorems about SeqCluster, for every number of workers, size of a file, *)
(* number of fetched chunks and width of a char.                           *)
(***************************************************************************)
EXTENDS SeqCluster, DcbcBytesProofs, FiniteSetTheorems

N == main.chunkCount

-----------------------------------------------------------------------------
\* The inductive invariant.

MainLabels == {"connect", "loop", "construct", "test", "block", "blocked", "closed", "done"}
Labels == {"none", "accept", "recv", "count", "notify", "store"}
ChunkLabels == {"none", "connect", "outputDir", "piece", "finished"}
MainState == [pc : MainLabels, i : Nat, chunkCount : Nat]
HandlerState == [pc : Labels, conn : BOOLEAN, peer : Chunks \cup {NoOne}]
ChunkState == [pc : ChunkLabels, worker : Workers \cup {NoOne}]
Id == [worker : Workers, junk : Junk]
Faults == {"none", "nullConnection", "unknownWorker"}

\* TypeOK without the bounds on what is counted.
Types ==
  /\ main \in MainState
  /\ ids \in Seq(Id)
  /\ wh \in [Chunks -> HandlerState]
  /\ ch \in [Chunks -> ChunkState]
  /\ backlog \in Seq(Chunks)
  /\ toMaster \in [Chunks -> {toMaster[c] : c \in Chunks}]
  /\ toWorker \in [Chunks -> {toWorker[c] : c \in Chunks}]
  /\ progress \in Nat
  /\ op \in {"E", "D"}
  /\ fileChunks \in 0 .. MAX_CHUNKS
  /\ files \in [Workers \X Names -> Chunks \cup {Nothing}]
  /\ fullClearText \in [Chunks -> Chunks \cup {Nothing}]
  /\ fullClearTextSize \in Nat
  /\ seen \in [Chunks -> Nat]
  /\ fault \in Faults

\* Where main is tells who has started, and where.
AfterLoop == {"test", "block", "blocked", "closed", "done"}
Assigned(c) == (IF op = "E" THEN RoundRobin(c) ELSE Line(c)).worker
MainInv ==
  /\ N = IF op = "E" THEN fileChunks ELSE FETCH_CHUNKS
  /\ main.i <= N
  /\ main.pc = "connect" => main.i = 0 /\ Len(ids) < min_workers
  /\ main.pc # "connect" => Len(ids) = min_workers
  /\ \A j, k \in 1 .. Len(ids) : ids[j].worker = ids[k].worker => j = k
  /\ main.pc = "construct" => main.i < N /\ Assigned(main.i) \in Workers
  /\ main.pc \in AfterLoop => main.i = N
  /\ \A h \in Chunks : wh[h].pc # "none" => h < main.i \/ (h = main.i /\ main.pc = "construct")
  /\ \A c \in Chunks : ch[c].pc # "none" => c < main.i
  /\ \A c \in Chunks : c < main.i => ch[c].worker = Assigned(c) /\ ch[c].worker \in Workers
  /\ fault = "unknownWorker" => main.pc = "loop" /\ main.i < N /\ ~Registered(Target)

\* The .maps file has a line for every chunk of the file, once it is written.
MapsInv ==
  op = "D" \/ main.pc \in AfterLoop => /\ maps \in [0 .. fileChunks - 1 -> Id]
                                       /\ op = "E" => \A c \in DOMAIN maps : maps[c] = RoundRobin(c)

\* What a handler and the chunk handler it has accepted are at.
Msg(flag, data) == [flag |-> flag, data |-> data]
Piece(c) == files[File(c)]
Done(c) == ch[c].pc = "finished" /\ toMaster[c] = <<>>
Talk(h, c) ==
  \/ /\ wh[h].pc = "recv" /\ ch[c].pc = "outputDir"
     /\ toMaster[c] = <<>> /\ toWorker[c] = <<Msg("SET_OUTPUT_DIR", NoOne)>>
  \/ /\ op = "E" /\ wh[h].pc = "recv" /\ ch[c].pc = "piece"
     /\ toMaster[c] = <<Msg("GET_CHUNK", Nothing)>> /\ toWorker[c] = <<>>
  \/ /\ op = "E" /\ wh[h].pc = "recv" /\ ch[c].pc = "piece"
     /\ toMaster[c] = <<>> /\ toWorker[c] = <<Msg("ENCRYPT_CHUNK", h)>>
  \/ /\ op = "E" /\ wh[h].pc = "recv" /\ ch[c].pc = "finished" /\ Piece(c) \in Chunks
     /\ toMaster[c] = <<Msg("SIGNAL_DONE", Nothing)>> /\ toWorker[c] = <<>>
  \/ /\ op = "D" /\ wh[h].pc \in {"recv", "store"} /\ ch[c].pc = "finished" /\ Piece(c) \in Chunks
     /\ toMaster[c] = <<Msg("SET_CHUNK", Piece(c))>> /\ toWorker[c] = <<>>
  \/ /\ wh[h].pc \in {"recv", "count", "notify"} /\ ch[c].pc = "finished" /\ Piece(c) \in Chunks
     /\ toMaster[c] = <<>> /\ toWorker[c] = <<>>

\* Every chunk handler waits in the backlog, or has been accepted, by one handler.
Connections ==
  /\ \A h \in Chunks : wh[h].peer = NoOne <=> wh[h].pc \in {"none", "accept"}
  /\ \A g, h \in Chunks : wh[g].peer = wh[h].peer /\ wh[g].peer # NoOne => g = h
  /\ \A j, k \in 1 .. Len(backlog) : backlog[j] = backlog[k] => j = k
  /\ \A k \in 1 .. Len(backlog) : /\ ch[backlog[k]].pc = "outputDir"
                                  /\ \A h \in Chunks : wh[h].peer # backlog[k]
  /\ \A c \in Chunks : (\A h \in Chunks : wh[h].peer # c) =>
       /\ ch[c].pc \in {"none", "connect", "outputDir"}
       /\ toMaster[c] = <<>> /\ toWorker[c] = <<>>
  /\ \A h, c \in Chunks : wh[h].peer = c => Talk(h, c)

\* A handler's place in the buffer has what its chunk handler has sent.
Buffer ==
  /\ \A h \in Chunks : wh[h].peer = NoOne => fullClearText[h] = Nothing
  /\ \A h, c \in Chunks : wh[h].peer = c =>
       fullClearText[h] = IF op = "D" /\ Done(c) THEN Piece(c) ELSE Nothing
  /\ op = "D" => \A c \in 0 .. fileChunks - 1 : files[<<maps[c].worker, ChunkId(c)>>] \in Chunks

\* progress counts the handlers that are done, but for those about to be counted.
Counted == {h \in Chunks : wh[h].pc # "count" /\ \E c \in Chunks : wh[h].peer = c /\ Done(c)}
Counts == /\ progress = Cardinality(Counted)
          /\ main.pc = "done" => AllDone

\* No sum of sizes is larger than the pieces that are in the buffer.
Stored == {h \in Chunks : fullClearText[h] # Nothing}
Sizes ==
  /\ fullClearTextSize <= Cardinality(Stored)
  /\ \A h \in Chunks : seen[h] <= Cardinality(Stored)
  /\ Stored # {} => fullClearTextSize > 0

IInv == Types /\ MainInv /\ MapsInv /\ Connections /\ Buffer /\ Counts /\ Sizes

\* When no two chunks have the same id: a file named after a chunk is on the worker
\* the chunk was assigned to, and has the piece of the handler that was accepted.
FileOf(w, c) == files[<<w, ChunkId(c)>>]
Named ==
  /\ op = "E" => /\ \A w \in Workers, c \in Chunks : FileOf(w, c) # Nothing => ch[c].pc = "finished" /\ w = ch[c].worker
                 /\ \A h, c \in Chunks : wh[h].peer = c /\ ch[c].pc = "finished" => Piece(c) = h
  /\ op = "D" => /\ \A w \in Workers, c \in Chunks : FileOf(w, c) # Nothing => c < fileChunks /\ w = maps[c].worker
                 /\ \A c, d \in 0 .. fileChunks - 1 :
                      FileOf(maps[c].worker, c) = FileOf(maps[d].worker, d) => c = d

-----------------------------------------------------------------------------
\* What each kind of step leaves alone.

ownVars == <<op, fileChunks, files, dataVars>>

LEMMA Steps ==
  ASSUME Next
  PROVE  \/ \E w \in Workers, junk \in Junk : ConnectWorker(w, junk) /\ UNCHANGED ownVars
         \/ CreateHandler /\ Registered(Target) /\ UNCHANGED ownVars
         \/ ConstructAndSend(Target) /\ UNCHANGED ownVars
         \/ (EndLoop \/ TestFails \/ Block \/ Finish) /\ UNCHANGED ownVars
         \/ UnknownWorker /\ UNCHANGED ownVars
         \/ Restart
         \/ \E h \in Chunks :
              \/ NullConnection(h) /\ UNCHANGED ownVars
              \/ (Accept(h) \/ CountChunk(h) \/ NotifyAll(h)) /\ UNCHANGED ownVars
              \/ (SendPiece(h) \/ PieceSaved(h)) /\ UNCHANGED ownVars
              \/ (ReadSize(h) \/ StorePiece(h)) /\ UNCHANGED <<op, fileChunks, files>>
              \/ Connect(h) /\ UNCHANGED ownVars
              \/ (RequestPiece(h) \/ SavePiece(h) \/ SendFile(h)) /\ UNCHANGED <<op, fileChunks, dataVars>>
BY DEF Next, JobManager, WorkerHandler, ChunkHandler, JobManagerWait, HandlerStep, ownVars

\* A handler, a chunk handler, or main, goes to another label.
Moves(h, label) ==
  /\ wh' \in [Chunks -> HandlerState]
  /\ wh'[h].pc = label /\ wh'[h].peer = wh[h].peer
  /\ \A g \in Chunks \ {h} : wh'[g] = wh[g]
ChunkMoves(c, label) ==
  /\ ch' \in [Chunks -> ChunkState]
  /\ ch'[c].pc = label /\ ch'[c].worker = ch[c].worker
  /\ \A d \in Chunks \ {c} : ch'[d] = ch[d]
MainMoves(label) ==
  main' \in MainState /\ main'.pc = label /\ main'.i = main.i /\ N' = N

LEMMA GotoMoves ==
  ASSUME Types, NEW h \in Chunks, NEW label \in Labels, Goto(h, label)
  PROVE  Moves(h, label)
BY DEF Types, Goto, Moves, HandlerState

LEMMA ChunkGotoMoves ==
  ASSUME Types, NEW c \in Chunks, NEW label \in ChunkLabels, ChunkGoto(c, label)
  PROVE  ChunkMoves(c, label)
BY DEF Types, ChunkGoto, ChunkMoves, ChunkState

LEMMA MainGoto ==
  ASSUME Types, NEW label \in MainLabels, main' = [main EXCEPT !.pc = label]
  PROVE  MainMoves(label)
BY DEF Types, MainMoves, MainState, N

LEMMA Bounds ==
  ASSUME Types, MainInv
  PROVE  /\ N \in Nat /\ N <= MAX_CHUNKS /\ MAX_CHUNKS \in Nat /\ min_workers \in Nat \ {0}
         /\ main.i \in Nat /\ main.i <= N /\ fileChunks \in Nat /\ fileChunks <= MAX_CHUNKS
         /\ main.i < N => main.i \in Chunks
         /\ \A c \in Chunks : c \in Nat
<1>1. /\ MAX_CHUNKS \in Nat /\ min_workers \in Nat \ {0} /\ FETCH_CHUNKS \in 0 .. MAX_CHUNKS
      /\ fileChunks \in 0 .. MAX_CHUNKS /\ main.i \in Nat /\ N \in Nat /\ main.i <= N
      /\ N = IF op = "E" THEN fileChunks ELSE FETCH_CHUNKS
  BY JobAssumption, FetchAssumption DEF Types, MainInv, MainState, N
<1>2. N <= MAX_CHUNKS
  BY <1>1
<1> QED
  BY <1>1, <1>2 DEF Chunks

LEMMA Elements ==
  ASSUME NEW S, NEW s \in Seq(S)
  PROVE  DOMAIN s = 1 .. Len(s) /\ Len(s) \in Nat /\ \A k \in 1 .. Len(s) : s[k] \in S
OBVIOUS

\* Where chunks are assigned and their files are does not change with the rest.
LEMMA SameAssigned ==
  ASSUME UNCHANGED <<op, ids, maps>>
  PROVE  /\ \A c \in Chunks : Assigned(c)' = Assigned(c)
         /\ \A c \in Chunks : Line(c)' = Line(c)
         /\ \A c \in Nat : RoundRobin(c)' = RoundRobin(c)
BY DEF Assigned, RoundRobin, Line

LEMMA SameTalk ==
  ASSUME NEW h \in Chunks, NEW c \in Chunks, UNCHANGED <<op, files>>, wh'[h].pc = wh[h].pc,
         ch'[c] = ch[c], toMaster'[c] = toMaster[c], toWorker'[c] = toWorker[c], Talk(h, c)
  PROVE  Talk(h, c)'
BY DEF Talk, Piece, File, Msg

\* A handler that is past accept() has accepted a chunk handler.
LEMMA HasPeer ==
  ASSUME Types, Connections, NEW h \in Chunks
  PROVE  /\ wh[h].peer \in Chunks \cup {NoOne}
         /\ wh[h].pc \in {"recv", "count", "notify", "store"} =>
              /\ wh[h].peer \in Chunks /\ Talk(h, wh[h].peer)
              /\ \A g \in Chunks : wh[g].peer = wh[h].peer => g = h
         /\ NoOne \notin Chunks
<1>1. wh[h].peer \in Chunks \cup {NoOne} /\ NoOne \notin Chunks
  BY DEF Types, HandlerState, NoOne, Chunks
<1> QED
  BY <1>1 DEF Connections

-----------------------------------------------------------------------------
\* The main thread's steps preserve the invariant.

handlerVars == <<wh, ch, backlog, toMaster, toWorker>>

LEMMA HandlersRest ==
  ASSUME IInv, UNCHANGED <<handlerVars, ownVars>>, op = "D" => UNCHANGED maps
  PROVE  Connections' /\ Buffer' /\ Sizes' /\ Counted' = Counted
<1> USE DEF handlerVars, ownVars, dataVars
<1>1. \A c \in Chunks : Piece(c)' = Piece(c) /\ Done(c)' = Done(c)
  BY DEF Piece, File, Done
<1>2. Connections'
  <2>1. \A h, c \in Chunks : wh[h].peer = c => Talk(h, c)'
    BY SameTalk DEF IInv, Connections
  <2> QED
    BY <2>1 DEF IInv, Connections
<1>3. Buffer'
  BY <1>1 DEF IInv, Buffer
<1>4. Sizes'
  BY DEF IInv, Sizes, Stored
<1>5. Counted' = Counted
  BY <1>1 DEF Counted
<1> QED
  BY <1>2, <1>3, <1>4, <1>5

\* Main goes to another label, and nothing else changes.
LEMMA MainStep ==
  ASSUME IInv, NEW label \in MainLabels, MainMoves(label),
         UNCHANGED <<ids, maps, progress, handlerVars, ownVars, fault>>, fault = "none",
         main.pc \notin {"connect", "construct", "loop"}, label \notin {"connect", "construct", "loop"},
         label = "done" => AllDone
  PROVE  IInv'
<1>1. UNCHANGED <<ids, maps, progress, wh, ch, backlog, toMaster, toWorker, op, fileChunks, files,
                  fullClearText, fullClearTextSize, seen, fault>>
  BY DEF handlerVars, ownVars, dataVars
<1>2. Connections' /\ Buffer' /\ Sizes' /\ Counted' = Counted
  BY HandlersRest
<1>3. Types'
  BY <1>1 DEF IInv, Types, MainMoves
<1>4. main.pc \in AfterLoop
  BY DEF IInv, Types, MainState, MainLabels, AfterLoop
<1>5. MainInv'
  BY <1>1, <1>4, SameAssigned DEF IInv, MainInv, MainMoves
<1>6. MapsInv'
  BY <1>1, <1>4 DEF IInv, MapsInv, RoundRobin
<1>7. Counts'
  BY <1>1, <1>2 DEF IInv, Counts, MainMoves, AllDone, N
<1> QED
  BY <1>2, <1>3, <1>5, <1>6, <1>7 DEF IInv

LEMMA EndLoopStep ==
  ASSUME IInv, EndLoop, UNCHANGED ownVars
  PROVE  IInv'
<1>1. UNCHANGED <<ids, progress, wh, ch, backlog, toMaster, toWorker, op, fileChunks, files,
                  fullClearText, fullClearTextSize, seen, fault, handlerVars>>
  BY DEF EndLoop, net, handlerVars, ownVars, dataVars
<1>2. /\ main.pc = "loop" /\ fault = "none" /\ main.i >= N /\ MainMoves("test")
      /\ maps' = IF op = "E" THEN [c \in 0 .. fileChunks - 1 |-> RoundRobin(c)] ELSE maps
  BY MainGoto DEF IInv, EndLoop, LoopEnds, Main, MainLabels, N
<1>3. Connections' /\ Buffer' /\ Sizes' /\ Counted' = Counted
  BY <1>1, <1>2, HandlersRest
<1>4. Types'
  BY <1>1, <1>2 DEF IInv, Types, MainMoves
<1>5. \A c \in Chunks : Assigned(c)' = Assigned(c)
  BY <1>1, <1>2 DEF Assigned, RoundRobin, Line
<1>6. MainInv'
  <2>1. main.i = N
    BY <1>2, Bounds DEF IInv
  <2> QED
    BY <1>1, <1>2, <1>5, <2>1 DEF IInv, MainInv, MainMoves
<1>7. MapsInv'
  <2>1. CASE op = "E"
    <3>1. ASSUME NEW c \in 0 .. fileChunks - 1
          PROVE  RoundRobin(c) \in Id
      <4>1. /\ c \in Nat /\ Len(ids) = min_workers /\ min_workers \in Nat \ {0}
            /\ \A k \in 1 .. Len(ids) : ids[k] \in Id
        BY <1>2, Bounds, Elements DEF IInv, MainInv, Types
      <4>2. c % min_workers \in 0 .. min_workers - 1
        BY <4>1
      <4>3. (c % min_workers) + 1 \in 1 .. min_workers
        BY <4>1, <4>2
      <4> QED
        BY <4>1, <4>3 DEF RoundRobin
    <3>2. maps' \in [0 .. fileChunks - 1 -> Id] /\ \A c \in 0 .. fileChunks - 1 : maps'[c] = RoundRobin(c)
      BY <1>2, <2>1, <3>1
    <3>3. \A c \in 0 .. fileChunks - 1 : RoundRobin(c)' = RoundRobin(c)
      BY <1>1 DEF RoundRobin
    <3> QED
      BY <1>1, <3>2, <3>3 DEF MapsInv
  <2>2. CASE op = "D"
    BY <1>1, <1>2, <2>2 DEF IInv, MapsInv
  <2> QED
    BY <2>1, <2>2 DEF IInv, Types
<1>8. Counts'
  BY <1>1, <1>2, <1>3 DEF IInv, Counts, MainMoves
<1> QED
  BY <1>3, <1>4, <1>6, <1>7, <1>8 DEF IInv

LEMMA ConnectWorkerStep ==
  ASSUME IInv, NEW w \in Workers, NEW junk \in Junk, ConnectWorker(w, junk), UNCHANGED ownVars
  PROVE  IInv'
<1>1. UNCHANGED <<maps, progress, wh, ch, backlog, toMaster, toWorker, op, fileChunks, files,
                  fullClearText, fullClearTextSize, seen, fault, handlerVars>>
  BY DEF ConnectWorker, net, handlerVars, ownVars, dataVars
<1>2. /\ ids' \in Seq(Id) /\ Len(ids') = Len(ids) + 1 /\ Len(ids) \in Nat
      /\ ids'[Len(ids) + 1].worker = w
      /\ \A k \in 1 .. Len(ids) : ids'[k] = ids[k] /\ ids[k].worker # w
  <2>1. ids \in Seq(Id) /\ [worker |-> w, junk |-> junk] \in Id
    BY DEF IInv, Types, Id
  <2>2. ids' = Append(ids, [worker |-> w, junk |-> junk]) /\ \A k \in DOMAIN ids : ids[k].worker # w
    BY DEF ConnectWorker
  <2> QED
    BY <2>1, <2>2, Elements
<1>3. /\ main.pc = "connect" /\ main.i = 0 /\ Len(ids) < min_workers /\ fault = "none"
      /\ main' \in MainState /\ main'.i = main.i /\ N' = N
      /\ main'.pc = IF Len(ids') = min_workers THEN "loop" ELSE "connect"
  BY DEF IInv, Types, MainInv, ConnectWorker, Main, MainState, MainLabels, N
<1>4. Connections' /\ Buffer' /\ Sizes' /\ Counted' = Counted
  BY <1>1, HandlersRest
<1>5. Types'
  BY <1>1, <1>2, <1>3 DEF IInv, Types
<1>6. MainInv'
  <2>1. \A j, k \in 1 .. Len(ids') : ids'[j].worker = ids'[k].worker => j = k
    BY <1>2 DEF IInv, MainInv
  <2>2. \A c \in Chunks : ~(c < main.i)
    BY <1>3 DEF Chunks
  <2>3. Len(ids') < min_workers \/ Len(ids') = min_workers
    BY <1>2, <1>3, Bounds DEF IInv
  <2> QED
    BY <1>1, <1>3, <2>1, <2>2, <2>3 DEF IInv, MainInv, AfterLoop
<1>7. MapsInv'
  BY <1>1, <1>3 DEF IInv, MapsInv, AfterLoop
<1>8. Counts'
  BY <1>1, <1>3, <1>4 DEF IInv, Counts
<1> QED
  BY <1>4, <1>5, <1>6, <1>7, <1>8 DEF IInv

LEMMA FaultStep ==
  ASSUME IInv, fault' \in Faults, UNCHANGED <<main, ids, maps, progress, handlerVars, ownVars>>,
         fault' = "unknownWorker" => main.pc = "loop" /\ main.i < N /\ ~Registered(Target)
  PROVE  IInv'
<1>1. UNCHANGED <<wh, ch, backlog, toMaster, toWorker, op, fileChunks, files,
                  fullClearText, fullClearTextSize, seen, Target>>
  BY DEF handlerVars, ownVars, dataVars, Target, RoundRobin, Line
<1>2. Connections' /\ Buffer' /\ Sizes' /\ Counted' = Counted
  BY HandlersRest
<1>3. Types'
  BY <1>1 DEF IInv, Types
<1>4. \A c \in Chunks : Assigned(c)' = Assigned(c)
  BY <1>1, SameAssigned
<1>5. MainInv'
  <2>1. main.pc = "construct" => main.i \in Chunks
    BY Bounds DEF IInv, MainInv
  <2>2. N' = N /\ (Registered(Target)' <=> Registered(Target))
    BY <1>1 DEF N, Registered
  <2> QED
    BY <1>1, <1>4, <2>1, <2>2 DEF IInv, MainInv
<1>6. MapsInv'
  BY <1>1 DEF IInv, MapsInv, RoundRobin
<1>7. Counts'
  BY <1>1, <1>2 DEF IInv, Counts, AllDone
<1> QED
  BY <1>2, <1>3, <1>5, <1>6, <1>7 DEF IInv

\* The new handler has accepted nobody yet.
LEMMA CreateHandlerStep ==
  ASSUME IInv, CreateHandler, Registered(Target), UNCHANGED ownVars
  PROVE  IInv'
<1>1. UNCHANGED <<ids, maps, progress, ch, backlog, toMaster, toWorker, op, fileChunks, files,
                  fullClearText, fullClearTextSize, seen, fault>>
  BY DEF CreateHandler, net, ownVars, dataVars
<1>2. main.pc = "loop" /\ fault = "none" /\ main.i < N /\ main.i \in Chunks /\ MainMoves("construct")
  BY MainGoto, Bounds DEF IInv, CreateHandler, Main, MainLabels, N
<1>3. Moves(main.i, "accept")
  BY <1>2, GotoMoves DEF IInv, CreateHandler, Labels
<1>4. wh[main.i].pc = "none" /\ wh[main.i].peer = NoOne
  <2>1. wh[main.i].pc = "none"
    BY <1>2, Bounds DEF IInv, MainInv
  <2> QED
    BY <1>2, <2>1 DEF IInv, Connections
<1>5. \A h \in Chunks : wh'[h].peer = wh[h].peer
  BY <1>2, <1>3 DEF Moves
<1>6. \A h \in Chunks : wh[h].peer # NoOne => wh'[h] = wh[h] /\ h # main.i
  BY <1>3, <1>4 DEF Moves
<1>7. Types'
  BY <1>1, <1>2, <1>3 DEF IInv, Types, Moves, MainMoves
<1>8. \A c \in Chunks : Assigned(c)' = Assigned(c)
  BY <1>1, SameAssigned
<1>9. MainInv'
  <2>1. Assigned(main.i) \in Workers
    <3>1. ids \in Seq(Id)
      BY DEF IInv, Types
    <3>2. PICK k \in 1 .. Len(ids) : ids[k] = Target
      BY <3>1, Elements DEF Registered
    <3>3. ids[k] \in Id
      BY <3>1, Elements
    <3>4. Target.worker \in Workers
      BY <3>2, <3>3 DEF Id
    <3> QED
      BY <3>4 DEF Target, Assigned
  <2>2. \A h \in Chunks : wh'[h].pc # "none" => h < main.i \/ h = main.i
    BY <1>2, <1>3 DEF IInv, MainInv, Moves
  <2> QED
    BY <1>1, <1>2, <1>8, <2>1, <2>2 DEF IInv, MainInv, MainMoves, AfterLoop
<1>10. MapsInv'
  BY <1>1, <1>2 DEF IInv, MapsInv, MainMoves, AfterLoop, RoundRobin
<1>11. Connections'
  <2>1. \A h, c \in Chunks : wh'[h].peer = c => Talk(h, c)'
    BY <1>1, <1>5, <1>6, SameTalk, HasPeer DEF IInv, Connections
  <2>2. \A h \in Chunks : wh'[h].peer = NoOne <=> wh'[h].pc \in {"none", "accept"}
    BY <1>3, <1>4 DEF IInv, Connections, Moves
  <2> QED
    BY <1>1, <1>5, <2>1, <2>2 DEF IInv, Connections
<1>12. \A c \in Chunks : Piece(c)' = Piece(c) /\ Done(c)' = Done(c)
  BY <1>1 DEF Piece, File, Done
<1>13. Buffer'
  BY <1>1, <1>5, <1>12 DEF IInv, Buffer
<1>14. Sizes'
  BY <1>1 DEF IInv, Sizes, Stored
<1>15. Counted' = Counted
  BY <1>3, <1>4, <1>12, HasPeer DEF IInv, Counted, Moves
<1>16. Counts'
  BY <1>1, <1>2, <1>15 DEF IInv, Counts, MainMoves
<1> QED
  BY <1>7, <1>9, <1>10, <1>11, <1>13, <1>14, <1>16 DEF IInv

\* Nobody has accepted the new chunk handler yet.
LEMMA ConstructAndSendStep ==
  ASSUME IInv, ConstructAndSend(Target), UNCHANGED ownVars
  PROVE  IInv'
<1>1. UNCHANGED <<ids, maps, progress, backlog, toMaster, toWorker, op, fileChunks, files,
                  fullClearText, fullClearTextSize, seen, fault>>
  BY DEF ConstructAndSend, net, ownVars, dataVars
<1>2. /\ main.pc = "construct" /\ fault = "none" /\ main.i < N /\ main.i \in Chunks
      /\ main.i \in Nat /\ Assigned(main.i) \in Workers
  BY Bounds DEF IInv, ConstructAndSend, Main, MainInv
<1>3. main' \in MainState /\ main'.pc = "loop" /\ main'.i = main.i + 1 /\ N' = N
  <2> DEFINE m == [main EXCEPT !.pc = "loop"]
  <2>1. m \in MainState /\ m.pc = "loop" /\ m.i = main.i /\ m.chunkCount = N
    BY DEF IInv, Types, MainState, MainLabels, N
  <2>2. main' = [m EXCEPT !.i = main.i + 1]
    BY DEF ConstructAndSend
  <2> HIDE DEF m
  <2> QED
    BY <1>2, <2>1, <2>2 DEF MainState, N
<1>4. Moves(main.i, wh[main.i].pc)
  <2>1. wh \in [Chunks -> HandlerState] /\ wh' = [wh EXCEPT ![main.i].conn = FALSE]
    BY DEF IInv, Types, ConstructAndSend
  <2>2. [wh[main.i] EXCEPT !.conn = FALSE] \in HandlerState
    BY <1>2, <2>1 DEF HandlerState
  <2> QED
    BY <1>2, <2>1, <2>2 DEF HandlerState, Moves
<1>5. /\ ch' \in [Chunks -> ChunkState] /\ ch'[main.i].pc = "connect"
      /\ ch'[main.i].worker = Assigned(main.i)
      /\ \A c \in Chunks \ {main.i} : ch'[c] = ch[c]
  <2>1. ch' = [ch EXCEPT ![main.i] = [pc |-> "connect", worker |-> Assigned(main.i)]]
    BY DEF ConstructAndSend, Assigned, Target
  <2> QED
    BY <1>2, <2>1 DEF IInv, Types, ChunkState, ChunkLabels
<1>6. \A h \in Chunks : wh[h].peer # main.i
  <2>1. ch[main.i].pc = "none"
    BY <1>2 DEF IInv, MainInv
  <2>2. \A h \in Chunks : ~Talk(h, main.i)
    BY <2>1 DEF Talk
  <2> QED
    BY <1>2, <2>2 DEF IInv, Connections
<1>7. toMaster[main.i] = <<>> /\ toWorker[main.i] = <<>>
  BY <1>2, <1>6 DEF IInv, Connections
<1>8. \A h \in Chunks : wh'[h].pc = wh[h].pc /\ wh'[h].peer = wh[h].peer
  BY <1>2, <1>4 DEF Moves
<1>9. Types'
  BY <1>1, <1>3, <1>4, <1>5 DEF IInv, Types, Moves
<1>10. \A c \in Chunks : Assigned(c)' = Assigned(c)
  BY <1>1, SameAssigned
<1>11. MainInv'
  <2>1. \A c \in Chunks : c \in Nat
    BY Bounds DEF IInv
  <2>2. \A h \in Chunks : wh'[h].pc # "none" => h < main'.i
    BY <1>2, <1>3, <1>8, <2>1 DEF IInv, MainInv
  <2>3. \A c \in Chunks : ch'[c].pc # "none" => c < main'.i
    BY <1>2, <1>3, <1>5, <2>1 DEF IInv, MainInv
  <2>4. \A c \in Chunks : c < main'.i => ch'[c].worker = Assigned(c) /\ ch'[c].worker \in Workers
    <3>1. \A c \in Chunks : c < main'.i => c < main.i \/ c = main.i
      BY <1>2, <1>3, <2>1
    <3> QED
      BY <1>2, <1>5, <2>1, <3>1 DEF IInv, MainInv
  <2>5. main'.i <= N
    BY <1>2, <1>3, Bounds DEF IInv
  <2> QED
    BY <1>1, <1>2, <1>3, <1>10, <2>2, <2>3, <2>4, <2>5 DEF IInv, MainInv, AfterLoop
<1>12. MapsInv'
  BY <1>1, <1>3 DEF IInv, MapsInv, AfterLoop, RoundRobin
<1>13. \A c \in Chunks \ {main.i} : Piece(c)' = Piece(c) /\ Done(c)' = Done(c)
  BY <1>1, <1>5 DEF Piece, File, Done
<1>14. Connections'
  <2>1. ASSUME NEW h \in Chunks, NEW c \in Chunks, wh[h].peer = c
        PROVE  Talk(h, c)'
    BY <1>1, <1>5, <1>6, <1>8, <2>1, SameTalk DEF IInv, Connections
  <2>2. \A h, c \in Chunks : wh'[h].peer = c => Talk(h, c)'
    BY <1>8, <2>1
  <2>3. \A k \in 1 .. Len(backlog) : backlog[k] \in Chunks \ {main.i}
    <3>1. \A k \in 1 .. Len(backlog) : backlog[k] \in Chunks /\ ch[backlog[k]].pc = "outputDir"
      BY Elements DEF IInv, Types, Connections
    <3>2. ch[main.i].pc = "none"
      BY <1>2 DEF IInv, MainInv
    <3> QED
      BY <3>1, <3>2
  <2>4. \A k \in 1 .. Len(backlog) : /\ ch'[backlog[k]].pc = "outputDir"
                                     /\ \A h \in Chunks : wh'[h].peer # backlog[k]
    BY <1>5, <1>8, <2>3 DEF IInv, Connections
  <2>5. \A c \in Chunks : (\A h \in Chunks : wh'[h].peer # c) =>
          /\ ch'[c].pc \in {"none", "connect", "outputDir"}
          /\ toMaster[c] = <<>> /\ toWorker[c] = <<>>
    BY <1>5, <1>8 DEF IInv, Connections
  <2>6. \A h \in Chunks : wh'[h].peer = NoOne <=> wh'[h].pc \in {"none", "accept"}
    BY <1>8 DEF IInv, Connections
  <2>7. \A g, h \in Chunks : wh'[g].peer = wh'[h].peer /\ wh'[g].peer # NoOne => g = h
    BY <1>8 DEF IInv, Connections
  <2>8. \A j, k \in 1 .. Len(backlog) : backlog[j] = backlog[k] => j = k
    BY DEF IInv, Connections
  <2> QED
    BY <1>1, <2>2, <2>4, <2>5, <2>6, <2>7, <2>8 DEF Connections
<1>15. \A h, c \in Chunks : wh[h].peer = c => Piece(c)' = Piece(c) /\ Done(c)' = Done(c)
  BY <1>6, <1>13
<1>16. Buffer'
  BY <1>1, <1>8, <1>15 DEF IInv, Buffer
<1>17. Sizes'
  BY <1>1 DEF IInv, Sizes, Stored
<1>18. Counted' = Counted
  BY <1>8, <1>15 DEF Counted
<1>19. Counts'
  BY <1>1, <1>3, <1>18 DEF IInv, Counts
<1> QED
  BY <1>9, <1>11, <1>12, <1>14, <1>16, <1>17, <1>19 DEF IInv

-----------------------------------------------------------------------------
\* The counting argument, and the second job.

\* Only handlers of the job's chunks are counted; when main finds the job done, all of
\* them, and every chunk handler has been accepted by one of them.
LEMMA CountedChunks ==
  ASSUME IInv
  PROVE  /\ Counted \subseteq 0 .. N - 1 /\ IsFiniteSet(Counted)
         /\ progress \in 0 .. MAX_CHUNKS
         /\ AllDone => /\ Counted = 0 .. N - 1
                       /\ \A c \in 0 .. N - 1 : \E h \in Counted : wh[h].peer = c /\ Done(c)
<1> DEFINE T == 0 .. N - 1
           f == [h \in Counted |-> wh[h].peer]
<1>1. N \in Nat /\ N <= MAX_CHUNKS /\ MAX_CHUNKS \in Nat /\ main.i \in Nat /\ main.i <= N
  BY Bounds DEF IInv
<1>2. ASSUME NEW c \in Chunks, c < main.i \/ (c = main.i /\ main.i < N)
      PROVE  c \in T
  BY <1>1, <1>2 DEF Chunks
<1>3. ASSUME NEW h \in Counted
      PROVE  h \in T /\ f[h] \in T /\ wh[h].peer \in Chunks /\ Done(wh[h].peer)
  <2>1. h \in Chunks /\ wh[h].peer \in Chunks /\ Done(wh[h].peer)
    BY DEF Counted
  <2>2. wh[h].pc # "none" /\ ch[wh[h].peer].pc # "none"
    BY <2>1, HasPeer DEF IInv, Connections, Done
  <2>3. main.pc = "construct" => main.i < N
    BY DEF IInv, MainInv
  <2> QED
    BY <1>2, <2>1, <2>2, <2>3 DEF IInv, MainInv
<1>4. IsFiniteSet(T) /\ Cardinality(T) = N
  <2>1. 0 \in Int /\ N - 1 \in Int
    BY <1>1
  <2>2. IsFiniteSet(T) /\ Cardinality(T) = IF 0 > N - 1 THEN 0 ELSE (N - 1) - 0 + 1
    BY <2>1, FS_Interval
  <2> QED
    BY <1>1, <2>2
<1>5. /\ Counted \subseteq T /\ IsFiniteSet(Counted) /\ Cardinality(Counted) <= Cardinality(T)
      /\ Cardinality(T) = Cardinality(Counted) => T = Counted
  BY <1>3, <1>4, FS_Subset
<1>6. f \in Injection(Counted, T)
  <2>1. \A g, h \in Counted : wh[g].peer = wh[h].peer => g = h
    <3>1. Counted \subseteq Chunks
      BY DEF Counted
    <3> QED
      BY <1>3, <3>1, HasPeer DEF IInv, Connections
  <2> QED
    BY <1>3, <2>1 DEF Injection, IsInjective
<1>7. progress = Cardinality(Counted) /\ Cardinality(Counted) \in Nat
  BY <1>5, FS_CardinalityType DEF IInv, Counts
<1>8. ASSUME AllDone, NEW c \in T
      PROVE  \E h \in Counted : wh[h].peer = c /\ Done(c)
  <2>1. Cardinality(Counted) = Cardinality(T)
    BY <1>4, <1>7, <1>8 DEF AllDone, N
  <2>2. f \in Surjection(Counted, T)
    BY <1>4, <1>6, <2>1, FS_Injection
  <2>3. PICK h \in Counted : f[h] = c
    BY <2>2 DEF Surjection
  <2> QED
    BY <1>3, <2>3
<1> QED
  BY <1>1, <1>4, <1>5, <1>7, <1>8 DEF AllDone, N

\* A handler that is not counted yet keeps the job from being done.
LEMMA NotAllDone ==
  ASSUME IInv, NEW h \in Chunks, wh[h].pc # "none", h \notin Counted
  PROVE  ~AllDone
<1>1. h < main.i \/ (h = main.i /\ main.i < N)
  BY DEF IInv, MainInv
<1>2. h \in 0 .. N - 1
  BY <1>1, Bounds DEF IInv, Chunks
<1> QED
  BY <1>2, CountedChunks

\* What the first job leaves: every chunk of the file has a piece in the file that
\* its line in .maps tells.
LEMMA FirstJobDone ==
  ASSUME IInv, op = "E", AllDone, main.pc \in AfterLoop, NEW c \in 0 .. fileChunks - 1
  PROVE  /\ c \in Chunks /\ maps[c].worker = ch[c].worker
         /\ File(c) = <<maps[c].worker, ChunkId(c)>>
         /\ \E h \in Chunks : wh[h].peer = c /\ Done(c) /\ Piece(c) \in Chunks
<1>1. N = fileChunks /\ c \in Chunks
  BY Bounds DEF IInv, MainInv, Chunks
<1>2. PICK h \in Chunks : wh[h].peer = c /\ Done(c)
  BY <1>1, CountedChunks DEF Counted
<1>3. Piece(c) \in Chunks
  BY <1>1, <1>2, HasPeer DEF IInv, Connections, Talk, Done
<1>4. c < main.i /\ maps[c] = RoundRobin(c)
  BY <1>1, Bounds DEF IInv, MainInv, MapsInv
<1>5. ch[c].worker = maps[c].worker
  BY <1>1, <1>4 DEF IInv, MainInv, Assigned
<1> QED
  BY <1>1, <1>2, <1>3, <1>5 DEF File

LEMMA RestartStep ==
  ASSUME IInv, Restart
  PROVE  IInv'
<1>1. /\ op = "E" /\ op' = "D" /\ main.pc = "done" /\ AllDone
      /\ UNCHANGED <<maps, fault, fileChunks, files, fullClearText, fullClearTextSize, seen>>
      /\ fault = "none"
  BY DEF Restart, Main, IInv, Counts, dataVars
<1>2. /\ main' = [pc |-> "connect", i |-> 0, chunkCount |-> FETCH_CHUNKS]
      /\ ids' = <<>> /\ progress' = 0 /\ backlog' = <<>>
      /\ wh' = [c \in Chunks |-> [pc |-> "none", conn |-> FALSE, peer |-> NoOne]]
      /\ ch' = [c \in Chunks |-> [pc |-> "none", worker |-> NoOne]]
      /\ toMaster' = [c \in Chunks |-> <<>>] /\ toWorker' = [c \in Chunks |-> <<>>]
  BY DEF Restart, JobRestart, Started
<1>3. /\ FETCH_CHUNKS \in Nat /\ FETCH_CHUNKS <= MAX_CHUNKS /\ NoOne \notin Chunks
      /\ min_workers \in Nat \ {0}
  BY FetchAssumption, JobAssumption DEF NoOne, Chunks
<1>4. main' \in MainState /\ main'.pc = "connect" /\ main'.i = 0 /\ N' = FETCH_CHUNKS
  BY <1>2, <1>3 DEF MainState, MainLabels, N
<1>5. /\ \A h \in Chunks : wh'[h].pc = "none" /\ wh'[h].peer = NoOne
      /\ \A c \in Chunks : ch'[c].pc = "none" /\ toMaster'[c] = <<>> /\ toWorker'[c] = <<>>
  BY <1>2
<1>6. \A h \in Chunks : fullClearText[h] = Nothing
  BY <1>1, HasPeer DEF IInv, Buffer
<1>7. Types'
  <2>1. wh' \in [Chunks -> HandlerState] /\ ch' \in [Chunks -> ChunkState]
    BY <1>2 DEF HandlerState, ChunkState, Labels, ChunkLabels
  <2>2. /\ toMaster' \in [Chunks -> {toMaster'[c] : c \in Chunks}]
        /\ toWorker' \in [Chunks -> {toWorker'[c] : c \in Chunks}]
    BY <1>2
  <2>3. ids' \in Seq(Id) /\ backlog' \in Seq(Chunks) /\ progress' \in Nat
    BY <1>2
  <2> QED
    BY <1>1, <1>4, <2>1, <2>2, <2>3 DEF IInv, Types
<1>8. MainInv'
  BY <1>1, <1>2, <1>3, <1>4, <1>5, Bounds DEF IInv, MainInv, AfterLoop
<1>9. MapsInv'
  BY <1>1 DEF IInv, MapsInv, AfterLoop
<1>10. Connections'
  BY <1>2, <1>3, <1>5 DEF Connections
<1>11. Buffer'
  <2>1. \A c \in 0 .. fileChunks - 1 : files[<<maps[c].worker, ChunkId(c)>>] \in Chunks
    BY <1>1, FirstJobDone DEF AfterLoop, Piece
  <2> QED
    BY <1>1, <1>3, <1>5, <1>6, <2>1 DEF Buffer
<1>12. Counted' = {}
  BY <1>3, <1>5 DEF Counted
<1>13. Counts'
  BY <1>2, <1>4, <1>12, FS_EmptySet DEF Counts
<1>14. Sizes'
  BY <1>1 DEF IInv, Sizes, Stored
<1> QED
  BY <1>7, <1>8, <1>9, <1>10, <1>11, <1>13, <1>14 DEF IInv

-----------------------------------------------------------------------------
\* So do the steps of the handlers.

\* What main knows stays as it is when no handler starts.
LEMMA MainRests ==
  ASSUME IInv, UNCHANGED <<main, ids, maps, op, fileChunks, fault>>, fault = "none",
         wh' \in [Chunks -> HandlerState],
         ch' \in [Chunks -> ChunkState], \A c \in Chunks : ch'[c].worker = ch[c].worker,
         \A h \in Chunks : wh[h].pc = "none" => wh'[h].pc = "none",
         \A c \in Chunks : ch[c].pc = "none" => ch'[c].pc = "none"
  PROVE  MainInv' /\ MapsInv'
<1>1. \A c \in Chunks : Assigned(c)' = Assigned(c)
  BY SameAssigned
<1>2. main.pc = "construct" => main.i \in Chunks
  BY Bounds DEF IInv, MainInv
<1>3. N' = N
  BY DEF N
<1>4. MainInv'
  BY <1>1, <1>2, <1>3 DEF IInv, MainInv
<1>5. MapsInv'
  BY DEF IInv, MapsInv, RoundRobin
<1> QED
  BY <1>4, <1>5

\* The accepted chunk handler leaves the backlog, where it was only once.
LEMMA AcceptStep ==
  ASSUME IInv, NEW h \in Chunks, Accept(h), UNCHANGED ownVars
  PROVE  IInv'
<1>1. UNCHANGED <<main, ids, maps, progress, ch, toMaster, op, fileChunks, files,
                  fullClearText, fullClearTextSize, seen, fault>>
  BY DEF Accept, ownVars, dataVars
<1>2. PICK p \in Chunks :
        /\ p = backlog[1] /\ p = Head(backlog)
        /\ Len(backlog) \in Nat \ {0}
        /\ backlog' \in Seq(Chunks) /\ Len(backlog') = Len(backlog) - 1
        /\ \A j \in 1 .. Len(backlog') : backlog'[j] = backlog[j + 1]
  <2>1. backlog \in Seq(Chunks) /\ backlog # <<>> /\ backlog' = Tail(backlog)
    BY DEF IInv, Types, Accept
  <2>2. Len(backlog) \in Nat \ {0} /\ Head(backlog) = backlog[1] /\ backlog[1] \in Chunks
    BY <2>1
  <2>3. /\ Tail(backlog) \in Seq(Chunks) /\ Len(Tail(backlog)) = Len(backlog) - 1
        /\ \A j \in 1 .. Len(backlog) - 1 : Tail(backlog)[j] = backlog[j + 1]
    BY <2>1, <2>2
  <2> QED
    BY <2>1, <2>2, <2>3
<1>3. /\ wh[h].pc = "accept" /\ wh[h].peer = NoOne /\ fault = "none"
      /\ wh' \in [Chunks -> HandlerState] /\ wh'[h].pc = "recv" /\ wh'[h].peer = p
      /\ \A g \in Chunks \ {h} : wh'[g] = wh[g]
  <2>1. wh[h].pc = "accept" /\ fault = "none"
    BY DEF Accept, At
  <2>2. wh[h].peer = NoOne
    BY <2>1 DEF IInv, Connections
  <2>3. wh' = [wh EXCEPT ![h] = [pc |-> "recv", conn |-> TRUE, peer |-> p]] /\ wh \in [Chunks -> HandlerState]
    BY <1>2 DEF Accept, IInv, Types
  <2>4. [pc |-> "recv", conn |-> TRUE, peer |-> p] \in HandlerState
    BY DEF HandlerState, Labels
  <2> QED
    BY <2>1, <2>2, <2>3, <2>4
<1>4. /\ ch[p].pc = "outputDir" /\ \A g \in Chunks : wh[g].peer # p
      /\ toMaster[p] = <<>> /\ toWorker[p] = <<>>
  BY <1>2 DEF IInv, Connections
<1>5. /\ toWorker' \in [Chunks -> {toWorker'[c] : c \in Chunks}]
      /\ toWorker'[p] = <<Msg("SET_OUTPUT_DIR", NoOne)>>
      /\ \A c \in Chunks \ {p} : toWorker'[c] = toWorker[c]
  <2>1. toWorker' = [toWorker EXCEPT ![p] = Append(@, Msg("SET_OUTPUT_DIR", NoOne))]
    BY <1>3 DEF Accept, Answer, Msg
  <2>2. Append(<<>>, Msg("SET_OUTPUT_DIR", NoOne)) = <<Msg("SET_OUTPUT_DIR", NoOne)>>
    OBVIOUS
  <2> QED
    BY <1>4, <2>1, <2>2 DEF IInv, Types
<1>6. \A j \in 1 .. Len(backlog') : backlog'[j] # p /\ backlog'[j] \in Chunks
  BY <1>2 DEF IInv, Connections
<1>7. Types'
  BY <1>1, <1>2, <1>3, <1>5 DEF IInv, Types
<1>8. MainInv' /\ MapsInv'
  BY <1>1, <1>3, MainRests DEF IInv, Types
<1>9. Connections'
  <2>1. \A j, k \in 1 .. Len(backlog') : backlog'[j] = backlog'[k] => j = k
    BY <1>2 DEF IInv, Connections
  <2>2. \A j \in 1 .. Len(backlog') : ch[backlog'[j]].pc = "outputDir" /\ \A g \in Chunks : wh[g].peer # backlog'[j]
    BY <1>2 DEF IInv, Connections
  <2>3. \A j \in 1 .. Len(backlog') : ch'[backlog'[j]].pc = "outputDir" /\ \A g \in Chunks : wh'[g].peer # backlog'[j]
    BY <1>1, <1>3, <1>6, <2>2
  <2>4. \A g \in Chunks : wh'[g].peer = NoOne <=> wh'[g].pc \in {"none", "accept"}
    BY <1>2, <1>3 DEF IInv, Connections, NoOne, Chunks
  <2>5. \A g, k \in Chunks : wh'[g].peer = wh'[k].peer /\ wh'[g].peer # NoOne => g = k
    BY <1>3, <1>4 DEF IInv, Connections
  <2>6. \A c \in Chunks : (\A g \in Chunks : wh'[g].peer # c) =>
          /\ ch'[c].pc \in {"none", "connect", "outputDir"}
          /\ toMaster'[c] = <<>> /\ toWorker'[c] = <<>>
    <3> SUFFICES ASSUME NEW c \in Chunks, \A g \in Chunks : wh'[g].peer # c
                 PROVE  /\ ch[c].pc \in {"none", "connect", "outputDir"}
                        /\ toMaster[c] = <<>> /\ toWorker[c] = <<>> /\ c # p
      BY <1>1, <1>5
    <3>1. c # p
      BY <1>3
    <3>2. \A g \in Chunks : wh[g].peer # c
      BY <1>3, HasPeer DEF IInv
    <3> QED
      BY <3>1, <3>2 DEF IInv, Connections
  <2>7. ASSUME NEW g \in Chunks, NEW c \in Chunks, wh'[g].peer = c
        PROVE  Talk(g, c)'
    <3>1. CASE g = h
      <4>1. c = p
        BY <1>3, <2>7, <3>1
      <4>2. Talk(h, p)'
        BY <1>1, <1>3, <1>4, <1>5 DEF Talk, Msg
      <4> QED
        BY <3>1, <4>1, <4>2
    <3>2. CASE g # h
      <4>1. Talk(g, c) /\ c # p /\ wh'[g] = wh[g]
        BY <1>3, <1>4, <2>7, <3>2 DEF IInv, Connections
      <4> QED
        BY <1>1, <1>5, <4>1, SameTalk
    <3> QED
      BY <3>1, <3>2
  <2> QED
    BY <2>1, <2>3, <2>4, <2>5, <2>6, <2>7 DEF Connections
<1>10. \A c \in Chunks : Piece(c)' = Piece(c) /\ Done(c)' = Done(c)
  BY <1>1 DEF Piece, File, Done
<1>11. ~Done(p)
  BY <1>4 DEF Done
<1>12. Buffer'
  <2>1. \A g \in Chunks : wh'[g].peer = NoOne => fullClearText[g] = Nothing
    BY <1>3 DEF IInv, Buffer
  <2>2. \A g, c \in Chunks : wh'[g].peer = c =>
          fullClearText[g] = IF op = "D" /\ Done(c) THEN Piece(c) ELSE Nothing
    BY <1>3, <1>11 DEF IInv, Buffer
  <2> QED
    BY <1>1, <1>10, <2>1, <2>2 DEF IInv, Buffer
<1>13. Sizes'
  BY <1>1 DEF IInv, Sizes, Stored
<1>14. Counted' = Counted
  <2>1. \A g \in Chunks : g \in Counted' <=> g \in Counted
    BY <1>3, <1>10, <1>11, HasPeer DEF IInv, Counted
  <2> QED
    BY <2>1 DEF Counted
<1>15. Counts'
  BY <1>1, <1>14 DEF IInv, Counts, AllDone
<1> QED
  BY <1>7, <1>8, <1>9, <1>12, <1>13, <1>15 DEF IInv

\* A handler and the chunk handler it has accepted go on; the others do not notice,
\* but for a file that is written again.
PairMoves(h, c) ==
  /\ wh' \in [Chunks -> HandlerState] /\ wh'[h].peer = c
  /\ wh[h].pc \notin {"none", "accept"} /\ wh'[h].pc \notin {"none", "accept"}
  /\ \A g \in Chunks \ {h} : wh'[g] = wh[g]
  /\ ch' \in [Chunks -> ChunkState] /\ ch'[c].worker = ch[c].worker
  /\ ch[c].pc # "none"
  /\ \A d \in Chunks \ {c} : ch'[d] = ch[d]
  /\ toMaster' \in [Chunks -> {toMaster'[d] : d \in Chunks}]
  /\ toWorker' \in [Chunks -> {toWorker'[d] : d \in Chunks}]
  /\ \A d \in Chunks \ {c} : toMaster'[d] = toMaster[d] /\ toWorker'[d] = toWorker[d]
  /\ \A d \in Chunks \ {c} : ch[d].pc # "none" /\ Piece(d) \in Chunks => Piece(d)' \in Chunks
  /\ op = "D" => UNCHANGED files
  /\ UNCHANGED <<backlog, op, fileChunks, ids, maps, fault>> /\ fault = "none"
  /\ Talk(h, c)'

LEMMA OnlyPeer ==
  ASSUME Connections, NEW h \in Chunks, NEW c \in Chunks, wh[h].peer = c
  PROVE  (\A g \in Chunks \ {h} : wh[g].peer # c) /\ c # NoOne
<1>1. c # NoOne
  BY DEF NoOne, Chunks
<1>2. \A g \in Chunks : wh[g].peer = wh[h].peer /\ wh[g].peer # NoOne => g = h
  BY DEF Connections
<1> QED
  BY <1>1, <1>2

LEMMA PairConnections ==
  ASSUME IInv, NEW h \in Chunks, NEW c \in Chunks, wh[h].peer = c, PairMoves(h, c)
  PROVE  Connections'
<1>1. /\ wh'[h].peer = c /\ wh[h].pc \notin {"none", "accept"} /\ wh'[h].pc \notin {"none", "accept"}
      /\ \A g \in Chunks \ {h} : wh'[g] = wh[g]
      /\ \A d \in Chunks \ {c} : ch'[d] = ch[d] /\ toMaster'[d] = toMaster[d] /\ toWorker'[d] = toWorker[d]
      /\ backlog' = backlog
  BY DEF PairMoves
<1>2. (\A g \in Chunks \ {h} : wh[g].peer # c) /\ c # NoOne
  BY OnlyPeer DEF IInv
<1>3. \A g \in Chunks : wh'[g].peer = wh[g].peer
  BY <1>1
<1>4. \A k \in 1 .. Len(backlog) : backlog[k] \in Chunks \ {c} /\ ch[backlog[k]].pc = "outputDir"
  <2>1. \A k \in 1 .. Len(backlog) : backlog[k] \in Chunks
    BY Elements DEF IInv, Types
  <2>2. \A k \in 1 .. Len(backlog) : ch[backlog[k]].pc = "outputDir" /\ wh[h].peer # backlog[k]
    BY DEF IInv, Connections
  <2> QED
    BY <2>1, <2>2
<1>5. \A g \in Chunks : wh'[g].peer = NoOne <=> wh'[g].pc \in {"none", "accept"}
  <2>1. \A g \in Chunks : wh[g].peer = NoOne <=> wh[g].pc \in {"none", "accept"}
    BY DEF IInv, Connections
  <2> QED
    BY <1>1, <1>2, <2>1
<1>6. \A g, k \in Chunks : wh'[g].peer = wh'[k].peer /\ wh'[g].peer # NoOne => g = k
  <2>1. \A g, k \in Chunks : wh[g].peer = wh[k].peer /\ wh[g].peer # NoOne => g = k
    BY DEF IInv, Connections
  <2> QED
    BY <1>3, <2>1
<1>7. \A k \in 1 .. Len(backlog) : ch'[backlog[k]].pc = "outputDir" /\ \A g \in Chunks : wh'[g].peer # backlog[k]
  <2>1. \A k \in 1 .. Len(backlog) : \A g \in Chunks : wh[g].peer # backlog[k]
    BY DEF IInv, Connections
  <2> QED
    BY <1>1, <1>3, <1>4, <2>1
<1>8. \A d \in Chunks : (\A g \in Chunks : wh'[g].peer # d) =>
        /\ ch'[d].pc \in {"none", "connect", "outputDir"}
        /\ toMaster'[d] = <<>> /\ toWorker'[d] = <<>>
  <2>1. \A d \in Chunks : (\A g \in Chunks : wh[g].peer # d) =>
          /\ ch[d].pc \in {"none", "connect", "outputDir"} /\ toMaster[d] = <<>> /\ toWorker[d] = <<>>
    BY DEF IInv, Connections
  <2> QED
    BY <1>1, <1>3, <2>1
<1>9. ASSUME NEW g \in Chunks, NEW d \in Chunks, wh'[g].peer = d
      PROVE  Talk(g, d)'
  <2>1. CASE g = h
    <3>1. d = c
      BY <1>1, <1>9, <2>1
    <3>2. Talk(h, c)'
      BY DEF PairMoves
    <3> QED
      BY <2>1, <3>1, <3>2
  <2>2. CASE g # h
    <3>1. d # c /\ wh'[g] = wh[g] /\ wh[g].peer = d
      BY <1>1, <1>2, <1>9, <2>2
    <3>2. ch'[d] = ch[d] /\ toMaster'[d] = toMaster[d] /\ toWorker'[d] = toWorker[d]
      BY <1>1, <3>1
    <3>3. Talk(g, d)
      BY <3>1 DEF IInv, Connections
    <3>4. CASE op = "D"
      <4>1. UNCHANGED <<op, files>>
        BY <3>4 DEF PairMoves
      <4> QED
        BY <3>1, <3>2, <3>3, <4>1, SameTalk
    <3>5. CASE op = "E"
      <4>1. ch[d].pc # "none"
        BY <3>3 DEF Talk
      <4>2. op' = op /\ (Piece(d) \in Chunks => Piece(d)' \in Chunks)
        BY <3>1, <4>1 DEF PairMoves
      <4> QED
        BY <3>1, <3>2, <3>3, <3>5, <4>2 DEF Talk, Msg
    <3> QED
      BY <3>4, <3>5 DEF IInv, Types
  <2> QED
    BY <2>1, <2>2
<1>10. \A j, k \in 1 .. Len(backlog') : backlog'[j] = backlog'[k] => j = k
  BY <1>1 DEF IInv, Connections
<1> QED
  BY <1>1, <1>5, <1>6, <1>7, <1>8, <1>9, <1>10 DEF Connections

\* A pair goes on without being counted.
LEMMA PairUncounted ==
  ASSUME IInv, NEW h \in Chunks, NEW c \in Chunks, wh[h].peer = c, PairMoves(h, c),
         (Done(c) /\ wh[h].pc # "count") <=> (Done(c)' /\ wh'[h].pc # "count"),
         UNCHANGED <<main, progress>>
  PROVE  Counted' = Counted /\ Counts' /\ MainInv' /\ MapsInv'
<1>1. /\ \A g \in Chunks \ {h}, d \in Chunks : wh[g].peer = d => Done(d)' = Done(d)
      /\ \A g \in Chunks \ {h} : wh'[g] = wh[g]
  <2>1. \A g \in Chunks \ {h} : wh[g].peer # c
    BY OnlyPeer DEF IInv
  <2>2. /\ \A g \in Chunks \ {h} : wh'[g] = wh[g]
        /\ \A d \in Chunks \ {c} : ch'[d] = ch[d] /\ toMaster'[d] = toMaster[d]
    BY DEF PairMoves
  <2> QED
    BY <2>1, <2>2 DEF Done
<1>2. \A g \in Chunks : g \in Counted' <=> g \in Counted
  <2>1. wh'[h].peer = c
    BY DEF PairMoves
  <2>2. h \in Counted <=> Done(c) /\ wh[h].pc # "count"
    BY DEF Counted
  <2>3. h \in Counted' <=> Done(c)' /\ wh'[h].pc # "count"
    BY <2>1 DEF Counted
  <2>4. \A g \in Chunks \ {h} : g \in Counted' <=> g \in Counted
    BY <1>1 DEF Counted
  <2> QED
    BY <2>2, <2>3, <2>4
<1>3. Counted' = Counted
  BY <1>2 DEF Counted
<1>4. Counts'
  BY <1>3 DEF IInv, Counts, AllDone
<1>5. MainInv' /\ MapsInv'
  BY MainRests DEF PairMoves
<1> QED
  BY <1>3, <1>4, <1>5

LEMMA OneMessage ==
  ASSUME NEW m
  PROVE  <<m>> # <<>> /\ Head(<<m>>) = m /\ Tail(<<m>>) = <<>> /\ Append(<<>>, m) = <<m>>
OBVIOUS

\* The pieces and the messages of the pair only, when a handler goes on.
HandlerMoves(h, c, label) ==
  /\ Moves(h, label) /\ wh[h].peer = c /\ Talk(h, c) /\ wh[h].pc \notin {"none", "accept"}
  /\ fault = "none"
  /\ UNCHANGED <<ids, maps, ch, backlog, op, fileChunks, files, fault>>
  /\ toMaster' \in [Chunks -> {toMaster'[d] : d \in Chunks}]
  /\ toWorker' \in [Chunks -> {toWorker'[d] : d \in Chunks}]
  /\ \A d \in Chunks \ {c} : toMaster'[d] = toMaster[d] /\ toWorker'[d] = toWorker[d]

LEMMA HandlerPair ==
  ASSUME IInv, NEW h \in Chunks, NEW c \in Chunks, NEW label \in Labels \ {"none", "accept"},
         HandlerMoves(h, c, label), Talk(h, c)'
  PROVE  PairMoves(h, c)
<1>1. \A d \in Chunks : Piece(d)' = Piece(d)
  BY DEF HandlerMoves, Piece, File
<1>2. ch[c].pc # "none"
  BY DEF HandlerMoves, Talk
<1> QED
  BY <1>1, <1>2 DEF HandlerMoves, Moves, PairMoves, IInv, Types

\* The piece of the chunk handler h has accepted is in h's place once it is done.
LEMMA PairBuffer ==
  ASSUME IInv, NEW h \in Chunks, NEW c \in Chunks, wh[h].peer = c, PairMoves(h, c),
         \A g \in Chunks \ {h} : fullClearText'[g] = fullClearText[g],
         op = "E" => fullClearText'[h] = fullClearText[h],
         op = "D" => fullClearText'[h] = IF Done(c)' THEN Piece(c) ELSE Nothing
  PROVE  Buffer'
<1>1. /\ \A g \in Chunks : wh'[g].peer = wh[g].peer
      /\ \A g \in Chunks \ {h} : wh[g].peer # c
      /\ wh[h].peer # NoOne
  BY OnlyPeer DEF IInv, PairMoves
<1>2. \A d \in Chunks \ {c} : Done(d)' = Done(d)
  BY DEF PairMoves, Done
<1>3. CASE op = "E"
  <2>1. fullClearText'[h] = fullClearText[h]
    BY <1>3
  <2>2. \A g \in Chunks : fullClearText[g] = Nothing
    BY <1>3, HasPeer DEF IInv, Buffer
  <2> QED
    BY <1>3, <2>1, <2>2 DEF Buffer, PairMoves
<1>4. CASE op = "D"
  <2>1. \A d \in Chunks : Piece(d)' = Piece(d)
    BY <1>4 DEF PairMoves, Piece, File
  <2>2. \A g, d \in Chunks : wh'[g].peer = d =>
          fullClearText'[g] = IF Done(d)' THEN Piece(d)' ELSE Nothing
    BY <1>1, <1>2, <1>4, <2>1 DEF IInv, Buffer
  <2>3. \A g \in Chunks : wh'[g].peer = NoOne => fullClearText'[g] = Nothing
    BY <1>1 DEF IInv, Buffer
  <2>4. op' = "D" /\ UNCHANGED <<maps, fileChunks, files>>
    BY <1>4 DEF PairMoves
  <2> QED
    BY <1>4, <2>2, <2>3, <2>4 DEF IInv, Buffer
<1> QED
  BY <1>3, <1>4 DEF IInv, Types

LEMMA CountChunkStep ==
  ASSUME IInv, NEW h \in Chunks, CountChunk(h), UNCHANGED ownVars
  PROVE  IInv'
<1>1. /\ UNCHANGED <<main, ids, maps, ch, backlog, toMaster, toWorker, op, fileChunks, files,
                     fullClearText, fullClearTextSize, seen, fault>>
      /\ wh[h].pc = "count" /\ progress' = progress + 1 /\ fault = "none"
  BY DEF CountChunk, At, net, ownVars, dataVars
<1>2. Moves(h, "notify")
  BY GotoMoves DEF IInv, CountChunk, Labels
<1>3. PICK c \in Chunks : c = wh[h].peer /\ Talk(h, c)
  BY <1>1, HasPeer DEF IInv
<1>4. Done(c) /\ Done(c)' /\ Talk(h, c)'
  BY <1>1, <1>2, <1>3 DEF Moves, Done, Talk, Msg, Piece, File
<1>5. HandlerMoves(h, c, "notify")
  BY <1>1, <1>2, <1>3 DEF HandlerMoves, IInv, Types
<1>6. PairMoves(h, c)
  BY <1>4, <1>5, HandlerPair DEF Labels
<1>7. Connections'
  BY <1>3, <1>6, PairConnections
<1>8. Types'
  <2>1. progress' \in Nat
    <3>1. progress \in Nat
      BY DEF IInv, Types
    <3> QED
      BY <1>1, <3>1
  <2> QED
    BY <1>1, <1>2, <2>1 DEF IInv, Types, Moves
<1>9. MainInv' /\ MapsInv'
  BY <1>1, <1>6, MainRests DEF PairMoves
<1>10. fullClearText[h] = IF op = "D" /\ Done(c) THEN Piece(c) ELSE Nothing
  BY <1>3 DEF IInv, Buffer
<1>11. Buffer'
  BY <1>1, <1>3, <1>4, <1>6, <1>10, PairBuffer
<1>12. h \notin Counted /\ Counted' = Counted \cup {h}
  <2>1. /\ wh'[h].pc = "notify" /\ wh'[h].peer = c
        /\ \A g \in Chunks \ {h} : wh'[g] = wh[g]
    BY <1>2, <1>3 DEF Moves
  <2>2. \A d \in Chunks : Done(d)' = Done(d)
    BY <1>1 DEF Done
  <2>3. h \notin Counted /\ h \in Counted'
    BY <1>1, <1>4, <2>1 DEF Counted
  <2>4. \A g \in Chunks \ {h} : g \in Counted' <=> g \in Counted
    BY <2>1, <2>2 DEF Counted
  <2> QED
    BY <2>3, <2>4 DEF Counted
<1>13. ~AllDone
  BY <1>1, <1>12, NotAllDone
<1>14. Counts'
  <2>1. progress' = Cardinality(Counted')
    BY <1>1, <1>12, CountedChunks, FS_AddElement DEF IInv, Counts
  <2> QED
    BY <1>1, <1>13, <2>1 DEF IInv, Counts
<1>15. Sizes'
  BY <1>1 DEF IInv, Sizes, Stored
<1> QED
  BY <1>7, <1>8, <1>9, <1>11, <1>14, <1>15 DEF IInv

LEMMA NotifyAllStep ==
  ASSUME IInv, NEW h \in Chunks, NotifyAll(h), UNCHANGED ownVars
  PROVE  IInv'
<1>1. /\ UNCHANGED <<ids, maps, progress, ch, backlog, toMaster, toWorker, op, fileChunks, files,
                     fullClearText, fullClearTextSize, seen, fault>>
      /\ wh[h].pc = "notify" /\ fault = "none"
  BY DEF NotifyAll, At, net, ownVars, dataVars
<1>2. Moves(h, "recv")
  BY GotoMoves DEF IInv, NotifyAll, Labels
<1>3. main' = main \/ (main.pc = "blocked" /\ MainMoves("test"))
  BY MainGoto DEF IInv, NotifyAll, MainLabels
<1>4. PICK c \in Chunks : c = wh[h].peer /\ Talk(h, c)
  BY <1>1, HasPeer DEF IInv
<1>5. Done(c) /\ Done(c)' /\ Talk(h, c)'
  BY <1>1, <1>2, <1>4 DEF Moves, Done, Talk, Msg, Piece, File
<1>6. HandlerMoves(h, c, "recv")
  BY <1>1, <1>2, <1>4 DEF HandlerMoves, IInv, Types
<1>7. PairMoves(h, c)
  BY <1>5, <1>6, HandlerPair DEF Labels
<1>8. Connections'
  BY <1>4, <1>7, PairConnections
<1>9. Types'
  BY <1>1, <1>2, <1>3 DEF IInv, Types, Moves, MainMoves
<1>10. Counted' = Counted
  <2>1. /\ wh'[h].pc = "recv" /\ wh'[h].peer = wh[h].peer
        /\ \A g \in Chunks \ {h} : wh'[g] = wh[g]
    BY <1>2 DEF Moves
  <2>2. \A d \in Chunks : Done(d)' = Done(d)
    BY <1>1 DEF Done
  <2>3. \A g \in Chunks : g \in Counted' <=> g \in Counted
    BY <1>1, <2>1, <2>2 DEF Counted
  <2> QED
    BY <2>3 DEF Counted
<1>11. N' = N /\ main'.i = main.i
  BY <1>3 DEF MainMoves, N
<1>12. Counts'
  BY <1>1, <1>3, <1>10, <1>11 DEF IInv, Counts, AllDone, MainMoves, N
<1>13. MainInv'
  <2>1. \A d \in Chunks : Assigned(d)' = Assigned(d)
    BY <1>1, SameAssigned
  <2>2. \A g \in Chunks : wh'[g].pc # "none" => wh[g].pc # "none"
    BY <1>1, <1>2 DEF Moves
  <2>3. CASE main' = main
    BY <1>1, <1>7, <2>3, MainRests DEF PairMoves
  <2>4. CASE main.pc = "blocked" /\ MainMoves("test")
    BY <1>1, <1>11, <2>1, <2>2, <2>4 DEF IInv, MainInv, MainMoves, AfterLoop
  <2> QED
    BY <1>3, <2>3, <2>4
<1>14. MapsInv'
  BY <1>1, <1>3 DEF IInv, MapsInv, MainMoves, AfterLoop, RoundRobin
<1>15. fullClearText[h] = IF op = "D" /\ Done(c) THEN Piece(c) ELSE Nothing
  BY <1>4 DEF IInv, Buffer
<1>16. Buffer'
  BY <1>1, <1>4, <1>5, <1>7, <1>15, PairBuffer
<1>17. Sizes'
  BY <1>1 DEF IInv, Sizes, Stored
<1> QED
  BY <1>8, <1>9, <1>12, <1>13, <1>14, <1>16, <1>17 DEF IInv

\* What a handler reads, and from whom.
LEMMA Receives ==
  ASSUME IInv, NEW h \in Chunks, wh[h].pc \in {"recv", "store"}
  PROVE  \E c \in Chunks : wh[h].peer = c /\ Talk(h, c) /\ Message(h) = Head(toMaster[c])
BY HasPeer DEF IInv, Message

\* GET_CHUNK is answered with the handler's own piece.
LEMMA SendPieceStep ==
  ASSUME IInv, NEW h \in Chunks, SendPiece(h), UNCHANGED ownVars
  PROVE  IInv'
<1>1. /\ UNCHANGED <<main, ids, maps, progress, wh, ch, backlog, op, fileChunks, files,
                     fullClearText, fullClearTextSize, seen, fault>>
      /\ wh[h].pc = "recv" /\ fault = "none" /\ toMaster[wh[h].peer] # <<>>
      /\ Message(h).flag = "GET_CHUNK"
  BY DEF SendPiece, Gets, At, ownVars, dataVars
<1>2. PICK c \in Chunks : wh[h].peer = c /\ Talk(h, c) /\ Message(h) = Head(toMaster[c])
  BY <1>1, Receives
<1>3. /\ op = "E" /\ ch[c].pc = "piece" /\ toMaster[c] = <<Msg("GET_CHUNK", Nothing)>>
      /\ toWorker[c] = <<>>
  BY <1>1, <1>2, OneMessage DEF Talk, Msg
<1>4. /\ toMaster' = [toMaster EXCEPT ![c] = <<>>]
      /\ toWorker' = [toWorker EXCEPT ![c] = <<Msg("ENCRYPT_CHUNK", h)>>]
  BY <1>1, <1>2, <1>3, OneMessage DEF SendPiece, Read, Answer, Msg, IInv, Types
<1>5. /\ toMaster' \in [Chunks -> {toMaster'[d] : d \in Chunks}] /\ toMaster'[c] = <<>>
      /\ toWorker' \in [Chunks -> {toWorker'[d] : d \in Chunks}]
      /\ toWorker'[c] = <<Msg("ENCRYPT_CHUNK", h)>>
      /\ \A d \in Chunks \ {c} : toMaster'[d] = toMaster[d] /\ toWorker'[d] = toWorker[d]
  BY <1>4 DEF IInv, Types
<1>6. Talk(h, c)'
  BY <1>1, <1>3, <1>5 DEF Talk, Msg
<1>7. PairMoves(h, c)
  <2>1. Moves(h, "recv")
    BY <1>1 DEF Moves, IInv, Types
  <2>2. HandlerMoves(h, c, "recv")
    BY <1>1, <1>2, <1>5, <2>1 DEF HandlerMoves
  <2> QED
    BY <1>6, <2>2, HandlerPair DEF Labels
<1>8. Connections'
  BY <1>2, <1>7, PairConnections
<1>9. Types'
  BY <1>1, <1>5 DEF IInv, Types
<1>10. ~Done(c) /\ ~Done(c)'
  BY <1>1, <1>3 DEF Done
<1>11. Counts' /\ MainInv' /\ MapsInv'
  BY <1>1, <1>2, <1>7, <1>10, PairUncounted
<1>12. Buffer'
  BY <1>1, <1>2, <1>3, <1>7, PairBuffer
<1>13. Sizes'
  BY <1>1 DEF IInv, Sizes, Stored
<1> QED
  BY <1>8, <1>9, <1>11, <1>12, <1>13 DEF IInv

LEMMA PieceSavedStep ==
  ASSUME IInv, NEW h \in Chunks, PieceSaved(h), UNCHANGED ownVars
  PROVE  IInv'
<1>1. /\ UNCHANGED <<main, ids, maps, progress, ch, backlog, toWorker, op, fileChunks, files,
                     fullClearText, fullClearTextSize, seen, fault>>
      /\ wh[h].pc = "recv" /\ fault = "none" /\ toMaster[wh[h].peer] # <<>>
      /\ Message(h).flag = "SIGNAL_DONE"
  BY DEF PieceSaved, Gets, At, ownVars, dataVars
<1>2. PICK c \in Chunks : wh[h].peer = c /\ Talk(h, c) /\ Message(h) = Head(toMaster[c])
  BY <1>1, Receives
<1>3. /\ op = "E" /\ ch[c].pc = "finished" /\ toMaster[c] = <<Msg("SIGNAL_DONE", Nothing)>>
      /\ toWorker[c] = <<>> /\ Piece(c) \in Chunks
  BY <1>1, <1>2, OneMessage DEF Talk, Msg
<1>4. toMaster' = [toMaster EXCEPT ![c] = <<>>]
  BY <1>1, <1>2, <1>3, OneMessage DEF PieceSaved, Read, Msg, IInv, Types
<1>5. /\ toMaster' \in [Chunks -> {toMaster'[d] : d \in Chunks}] /\ toMaster'[c] = <<>>
      /\ \A d \in Chunks \ {c} : toMaster'[d] = toMaster[d]
  BY <1>4 DEF IInv, Types
<1>6. Moves(h, "count")
  BY GotoMoves DEF IInv, PieceSaved, Labels
<1>7. Talk(h, c)'
  BY <1>1, <1>3, <1>5, <1>6 DEF Talk, Msg, Moves, Piece, File
<1>8. PairMoves(h, c)
  <2>1. HandlerMoves(h, c, "count")
    BY <1>1, <1>2, <1>5, <1>6 DEF HandlerMoves, IInv, Types
  <2> QED
    BY <1>7, <2>1, HandlerPair DEF Labels
<1>9. Connections'
  BY <1>2, <1>8, PairConnections
<1>10. Types'
  BY <1>1, <1>5, <1>6 DEF IInv, Types, Moves
<1>11. ~Done(c) /\ wh'[h].pc = "count"
  BY <1>3, <1>6 DEF Done, Moves
<1>12. Counts' /\ MainInv' /\ MapsInv'
  BY <1>1, <1>2, <1>8, <1>11, PairUncounted
<1>13. Buffer'
  BY <1>1, <1>2, <1>3, <1>8, PairBuffer
<1>14. Sizes'
  BY <1>1 DEF IInv, Sizes, Stored
<1> QED
  BY <1>9, <1>10, <1>12, <1>13, <1>14 DEF IInv

LEMMA StoredFinite ==
  ASSUME Types
  PROVE  IsFiniteSet(Stored) /\ Cardinality(Stored) \in Nat
<1>1. IsFiniteSet(Chunks) /\ Stored \subseteq Chunks
  BY JobAssumption, FS_Interval DEF Chunks, Stored
<1> QED
  BY <1>1, FS_Subset, FS_CardinalityType

\* The size is read before the piece is stored.
LEMMA ReadSizeStep ==
  ASSUME IInv, NEW h \in Chunks, ReadSize(h), UNCHANGED <<op, fileChunks, files>>
  PROVE  IInv'
<1>1. /\ UNCHANGED <<main, ids, maps, progress, ch, backlog, toMaster, toWorker, op, fileChunks, files,
                     fullClearText, fullClearTextSize, fault>>
      /\ wh[h].pc = "recv" /\ fault = "none" /\ toMaster[wh[h].peer] # <<>>
      /\ Message(h).flag = "SET_CHUNK"
      /\ seen' = [seen EXCEPT ![h] = fullClearTextSize]
  BY DEF ReadSize, Gets, At, net
<1>2. PICK c \in Chunks : wh[h].peer = c /\ Talk(h, c) /\ Message(h) = Head(toMaster[c])
  BY <1>1, Receives
<1>3. /\ op = "D" /\ ch[c].pc = "finished" /\ toMaster[c] = <<Msg("SET_CHUNK", Piece(c))>>
      /\ toWorker[c] = <<>> /\ Piece(c) \in Chunks
  BY <1>1, <1>2, OneMessage DEF Talk, Msg
<1>4. Moves(h, "store")
  BY GotoMoves DEF IInv, ReadSize, Labels
<1>5. Talk(h, c)'
  BY <1>1, <1>3, <1>4 DEF Talk, Msg, Moves, Piece, File
<1>6. PairMoves(h, c)
  <2>1. HandlerMoves(h, c, "store")
    BY <1>1, <1>2, <1>4 DEF HandlerMoves, IInv, Types
  <2> QED
    BY <1>5, <2>1, HandlerPair DEF Labels
<1>7. Connections'
  BY <1>2, <1>6, PairConnections
<1>8. Types'
  <2>1. seen' \in [Chunks -> Nat]
    BY <1>1 DEF IInv, Types
  <2> QED
    BY <1>1, <1>4, <2>1 DEF IInv, Types, Moves
<1>9. ~Done(c) /\ ~Done(c)'
  BY <1>1, <1>3 DEF Done
<1>10. Counts' /\ MainInv' /\ MapsInv'
  BY <1>1, <1>2, <1>6, <1>9, PairUncounted
<1>11. Buffer'
  <2>1. fullClearText[h] = Nothing
    BY <1>2, <1>9 DEF IInv, Buffer
  <2> QED
    BY <1>1, <1>2, <1>6, <1>9, <2>1, PairBuffer
<1>12. Sizes'
  <2>1. Stored' = Stored
    BY <1>1 DEF Stored
  <2>2. \A g \in Chunks : seen'[g] <= Cardinality(Stored)
    BY <1>1 DEF IInv, Types, Sizes
  <2> QED
    BY <1>1, <2>1, <2>2 DEF IInv, Sizes
<1> QED
  BY <1>7, <1>8, <1>10, <1>11, <1>12 DEF IInv

\* What a handler stores: the piece its chunk handler has sent, at its own place,
\* which was empty.
LEMMA Stores ==
  ASSUME IInv, NEW h \in Chunks, StorePiece(h), UNCHANGED <<op, fileChunks, files>>
  PROVE  \E c \in Chunks :
           /\ wh[h].peer = c /\ Talk(h, c) /\ op = "D" /\ ch[c].pc = "finished"
           /\ toMaster[c] = <<Msg("SET_CHUNK", Piece(c))>> /\ toWorker[c] = <<>>
           /\ Piece(c) \in Chunks
           /\ toMaster' = [toMaster EXCEPT ![c] = <<>>]
           /\ fullClearText' = [fullClearText EXCEPT ![h] = Piece(c)]
           /\ fullClearText[h] = Nothing
<1>1. wh[h].pc = "store"
  BY DEF StorePiece, At
<1>2. PICK c \in Chunks : wh[h].peer = c /\ Talk(h, c) /\ Message(h) = Head(toMaster[c])
  BY <1>1, Receives
<1>3. /\ op = "D" /\ ch[c].pc = "finished" /\ toMaster[c] = <<Msg("SET_CHUNK", Piece(c))>>
      /\ toWorker[c] = <<>> /\ Piece(c) \in Chunks
  BY <1>1, <1>2 DEF Talk
<1>4. Message(h).data = Piece(c) /\ Tail(toMaster[c]) = <<>>
  BY <1>2, <1>3, OneMessage DEF Msg
<1>5. toMaster' = [toMaster EXCEPT ![c] = <<>>]
  BY <1>2, <1>4 DEF StorePiece, Read, IInv, Types
<1>6. fullClearText' = [fullClearText EXCEPT ![h] = Piece(c)]
  BY <1>4 DEF StorePiece
<1>7. fullClearText[h] = Nothing
  <2>1. ~Done(c)
    BY <1>3 DEF Done
  <2> QED
    BY <1>2, <2>1 DEF IInv, Buffer
<1> QED
  BY <1>2, <1>3, <1>5, <1>6, <1>7

LEMMA StorePieceStep ==
  ASSUME IInv, NEW h \in Chunks, StorePiece(h), UNCHANGED <<op, fileChunks, files>>
  PROVE  IInv'
<1>1. /\ UNCHANGED <<main, ids, maps, progress, ch, backlog, toWorker, op, fileChunks, files, fault>>
      /\ wh[h].pc = "store" /\ fault = "none"
      /\ fullClearTextSize' = seen[h] + 1
      /\ seen' = [seen EXCEPT ![h] = 0]
  BY DEF StorePiece, At
<1>2. PICK c \in Chunks :
        /\ wh[h].peer = c /\ Talk(h, c) /\ op = "D" /\ ch[c].pc = "finished"
        /\ toMaster[c] = <<Msg("SET_CHUNK", Piece(c))>> /\ toWorker[c] = <<>>
        /\ Piece(c) \in Chunks
        /\ toMaster' = [toMaster EXCEPT ![c] = <<>>]
        /\ fullClearText' = [fullClearText EXCEPT ![h] = Piece(c)]
        /\ fullClearText[h] = Nothing
  BY Stores
<1>3. /\ toMaster' \in [Chunks -> {toMaster'[d] : d \in Chunks}] /\ toMaster'[c] = <<>>
      /\ \A d \in Chunks \ {c} : toMaster'[d] = toMaster[d]
  BY <1>2 DEF IInv, Types
<1>4. Moves(h, "count")
  BY GotoMoves DEF IInv, StorePiece, Labels
<1>5. Talk(h, c)'
  BY <1>1, <1>2, <1>3, <1>4 DEF Talk, Moves, Piece, File
<1>6. PairMoves(h, c)
  <2>1. HandlerMoves(h, c, "count")
    <3>1. toWorker' \in [Chunks -> {toWorker'[d] : d \in Chunks}] /\ toWorker' = toWorker
      BY <1>1 DEF IInv, Types
    <3>2. wh[h].peer = c /\ Talk(h, c)
      BY <1>2
    <3> QED
      BY <1>1, <1>3, <1>4, <3>1, <3>2 DEF HandlerMoves
  <2> QED
    BY <1>5, <2>1, HandlerPair DEF Labels
<1>7. Connections'
  BY <1>2, <1>6, PairConnections
<1>8. /\ fullClearText' \in [Chunks -> Chunks \cup {Nothing}] /\ fullClearText'[h] = Piece(c)
      /\ \A g \in Chunks \ {h} : fullClearText'[g] = fullClearText[g]
  BY <1>2 DEF IInv, Types
<1>9. Types'
  <2>1. seen' \in [Chunks -> Nat] /\ fullClearTextSize' \in Nat
    <3>1. seen \in [Chunks -> Nat]
      BY DEF IInv, Types
    <3> QED
      BY <1>1, <3>1
  <2> QED
    BY <1>1, <1>3, <1>4, <1>8, <2>1 DEF IInv, Types, Moves
<1>10. ~Done(c) /\ Done(c)' /\ wh'[h].pc = "count"
  BY <1>1, <1>2, <1>3, <1>4 DEF Done, Moves
<1>11. Counts' /\ MainInv' /\ MapsInv'
  BY <1>1, <1>2, <1>6, <1>10, PairUncounted
<1>12. Buffer'
  BY <1>2, <1>6, <1>8, <1>10, PairBuffer
<1>13. Sizes'
  <2>1. Piece(c) # Nothing
    BY <1>2 DEF Nothing, Chunks
  <2>2. h \notin Stored /\ Stored' = Stored \cup {h}
    BY <1>2, <1>8, <2>1 DEF Stored
  <2>3. Cardinality(Stored') = Cardinality(Stored) + 1 /\ Cardinality(Stored) \in Nat
    BY <2>2, StoredFinite, FS_AddElement DEF IInv
  <2>4. seen \in [Chunks -> Nat] /\ \A g \in Chunks : seen[g] <= Cardinality(Stored)
    BY DEF IInv, Types, Sizes
  <2>5. fullClearTextSize' <= Cardinality(Stored') /\ fullClearTextSize' > 0
    BY <1>1, <2>3, <2>4
  <2>6. \A g \in Chunks : seen'[g] \in Nat /\ seen'[g] <= Cardinality(Stored)
    BY <1>1, <2>3, <2>4
  <2>7. \A g \in Chunks : seen'[g] <= Cardinality(Stored')
    BY <2>3, <2>6
  <2> QED
    BY <2>5, <2>7 DEF Sizes
<1> QED
  BY <1>7, <1>9, <1>11, <1>12, <1>13 DEF IInv

-----------------------------------------------------------------------------
\* And the steps of the chunk handlers.

LEMMA ConnectStep ==
  ASSUME IInv, NEW c \in Chunks, Connect(c), UNCHANGED ownVars
  PROVE  IInv'
<1>1. /\ UNCHANGED <<main, ids, maps, progress, wh, toMaster, toWorker, op, fileChunks, files,
                     fullClearText, fullClearTextSize, seen, fault>>
      /\ fault = "none" /\ ch[c].pc = "connect"
  BY DEF Connect, ChunkAt, ownVars, dataVars
<1>2. ChunkMoves(c, "outputDir")
  BY ChunkGotoMoves DEF IInv, Connect, ChunkLabels
<1>3. /\ ch' \in [Chunks -> ChunkState] /\ ch'[c].pc = "outputDir" /\ ch'[c].worker = ch[c].worker
      /\ \A d \in Chunks \ {c} : ch'[d] = ch[d]
  BY <1>2 DEF ChunkMoves
<1>4. /\ backlog' \in Seq(Chunks) /\ Len(backlog') = Len(backlog) + 1 /\ Len(backlog) \in Nat
      /\ backlog'[Len(backlog) + 1] = c
      /\ \A j \in 1 .. Len(backlog) : backlog'[j] = backlog[j]
  <2>1. backlog \in Seq(Chunks) /\ backlog' = Append(backlog, c)
    BY DEF IInv, Types, Connect
  <2> QED
    BY <2>1
<1>5. \A h \in Chunks : wh[h].peer # c
  <2>1. \A h \in Chunks : ~Talk(h, c)
    BY <1>1 DEF Talk
  <2> QED
    BY <2>1 DEF IInv, Connections
<1>6. \A k \in 1 .. Len(backlog) : backlog[k] \in Chunks \ {c}
  <2>1. \A k \in 1 .. Len(backlog) : backlog[k] \in Chunks /\ ch[backlog[k]].pc = "outputDir"
    BY Elements DEF IInv, Types, Connections
  <2> QED
    BY <1>1, <2>1
<1>7. Types'
  BY <1>1, <1>3, <1>4 DEF IInv, Types
<1>8. MainInv' /\ MapsInv'
  <2>1. \A d \in Chunks : ch'[d].worker = ch[d].worker
    BY <1>3
  <2>2. \A d \in Chunks : ch[d].pc = "none" => ch'[d].pc = "none"
    BY <1>1, <1>3
  <2> QED
    BY <1>1, <1>3, <2>1, <2>2, MainRests DEF IInv, Types
<1>9. \A d \in Chunks : Piece(d)' = Piece(d) /\ Done(d)' = Done(d)
  <2>1. \A d \in Chunks : ch'[d].worker = ch[d].worker
    BY <1>3
  <2>2. \A d \in Chunks : ch'[d].pc = "finished" <=> ch[d].pc = "finished"
    BY <1>1, <1>3
  <2> QED
    BY <1>1, <2>1, <2>2 DEF Piece, File, Done
<1>10. Connections'
  <2>1. \A j, k \in 1 .. Len(backlog') : backlog'[j] = backlog'[k] => j = k
    BY <1>4, <1>6 DEF IInv, Connections
  <2>2. \A k \in 1 .. Len(backlog') : ch'[backlog'[k]].pc = "outputDir" /\ \A h \in Chunks : wh[h].peer # backlog'[k]
    <3>1. \A k \in 1 .. Len(backlog) : ch[backlog[k]].pc = "outputDir" /\ \A h \in Chunks : wh[h].peer # backlog[k]
      BY DEF IInv, Connections
    <3>2. \A k \in 1 .. Len(backlog') : k \in 1 .. Len(backlog) \/ backlog'[k] = c
      BY <1>4
    <3> QED
      BY <1>3, <1>4, <1>5, <1>6, <3>1, <3>2
  <2>3. \A d \in Chunks : (\A h \in Chunks : wh[h].peer # d) =>
          /\ ch'[d].pc \in {"none", "connect", "outputDir"}
          /\ toMaster[d] = <<>> /\ toWorker[d] = <<>>
    BY <1>3 DEF IInv, Connections
  <2>4. ASSUME NEW h \in Chunks, NEW d \in Chunks, wh[h].peer = d
        PROVE  Talk(h, d)'
    <3>1. d # c /\ Talk(h, d)
      BY <1>5, <2>4 DEF IInv, Connections
    <3> QED
      BY <1>1, <1>3, <3>1, SameTalk
  <2> QED
    BY <1>1, <2>1, <2>2, <2>3, <2>4 DEF IInv, Connections
<1>11. Buffer'
  BY <1>1, <1>9 DEF IInv, Buffer
<1>12. Sizes'
  BY <1>1 DEF IInv, Sizes, Stored
<1>13. Counted' = Counted
  BY <1>1, <1>9 DEF Counted
<1>14. Counts'
  BY <1>1, <1>13 DEF IInv, Counts, AllDone
<1> QED
  BY <1>7, <1>8, <1>10, <1>11, <1>12, <1>14 DEF IInv

\* Who has accepted a chunk handler that has received a message.
LEMMA Replies ==
  ASSUME IInv, NEW c \in Chunks, ch[c].pc \in {"outputDir", "piece"}, toWorker[c] # <<>>
  PROVE  /\ \E h \in Chunks : wh[h].peer = c /\ Talk(h, c) /\ wh[h].pc = "recv"
         /\ toMaster[c] = <<>> /\ c < main.i /\ ch[c].worker \in Workers
         /\ ch[c].worker = Assigned(c) /\ File(c) \in Workers \X Names
<1>1. PICK h \in Chunks : wh[h].peer = c
  BY DEF IInv, Connections
<1>2. Talk(h, c)
  BY <1>1 DEF IInv, Connections
<1>3. wh[h].pc = "recv" /\ toMaster[c] = <<>>
  BY <1>2, OneMessage DEF Talk
<1>4. c < main.i /\ ch[c].worker = Assigned(c) /\ ch[c].worker \in Workers
  BY DEF IInv, MainInv
<1>5. File(c) \in Workers \X Names
  BY <1>4 DEF File, Names
<1> QED
  BY <1>1, <1>2, <1>3, <1>4, <1>5

\* What every reply does.
LEMMA ReplyMoves ==
  ASSUME IInv, NEW c \in Chunks, NEW label \in ChunkLabels, NEW flag, NEW data,
         Reply(c, label, flag, data), toMaster[c] = <<>>, NEW m, toWorker[c] = <<m>>
  PROVE  /\ UNCHANGED <<main, ids, maps, progress, wh, backlog, fault>>
         /\ ChunkMoves(c, label)
         /\ toMaster' \in [Chunks -> {toMaster'[d] : d \in Chunks}]
         /\ toMaster'[c] = <<Msg(flag, data)>>
         /\ toWorker' \in [Chunks -> {toWorker'[d] : d \in Chunks}]
         /\ toWorker'[c] = <<>>
         /\ \A d \in Chunks \ {c} : toMaster'[d] = toMaster[d] /\ toWorker'[d] = toWorker[d]
<1>1. ChunkMoves(c, label)
  BY ChunkGotoMoves DEF IInv, Reply
<1>2. /\ toMaster' = [toMaster EXCEPT ![c] = Append(@, Msg(flag, data))]
      /\ toWorker' = [toWorker EXCEPT ![c] = Tail(@)]
      /\ UNCHANGED <<main, ids, maps, progress, wh, backlog, fault>>
  BY DEF Reply, Send, Msg
<1>3. Append(toMaster[c], Msg(flag, data)) = <<Msg(flag, data)>> /\ Tail(toWorker[c]) = <<>>
  BY OneMessage
<1>4. toMaster' = [toMaster EXCEPT ![c] = <<Msg(flag, data)>>] /\ toWorker' = [toWorker EXCEPT ![c] = <<>>]
  BY <1>2, <1>3
<1> QED
  BY <1>1, <1>2, <1>4 DEF IInv, Types

\* The invariant after a reply that keeps the talk going.
LEMMA ReplyStep ==
  ASSUME IInv, NEW c \in Chunks, NEW label \in {"piece", "finished"}, NEW flag, NEW data,
         Reply(c, label, flag, data), toMaster[c] = <<>>, NEW m, toWorker[c] = <<m>>,
         NEW h \in Chunks, wh[h].peer = c, wh[h].pc = "recv", ch[c].pc # "none", fault = "none",
         UNCHANGED <<op, fileChunks, dataVars>>, op = "D" => UNCHANGED files,
         files' \in [Workers \X Names -> Chunks \cup {Nothing}],
         \A d \in Chunks \ {c} : ch[d].pc # "none" /\ Piece(d) \in Chunks => Piece(d)' \in Chunks,
         Talk(h, c)'
  PROVE  IInv'
<1>1. /\ UNCHANGED <<main, ids, maps, progress, wh, backlog, fault, fullClearText, fullClearTextSize, seen>>
      /\ ChunkMoves(c, label)
      /\ toMaster' \in [Chunks -> {toMaster'[d] : d \in Chunks}]
      /\ toMaster'[c] = <<Msg(flag, data)>>
      /\ toWorker' \in [Chunks -> {toWorker'[d] : d \in Chunks}]
      /\ toWorker'[c] = <<>>
      /\ \A d \in Chunks \ {c} : toMaster'[d] = toMaster[d] /\ toWorker'[d] = toWorker[d]
  BY ReplyMoves DEF dataVars, ChunkLabels
<1>2. PairMoves(h, c)
  BY <1>1 DEF PairMoves, ChunkMoves, IInv, Types
<1>3. Types'
  BY <1>1 DEF IInv, Types, ChunkMoves
<1>4. Connections'
  BY <1>2, PairConnections
<1>5. ~Done(c)'
  BY <1>1, OneMessage DEF Done
<1>6. ~Done(c)
  <2>1. toWorker[c] # <<>> /\ Talk(h, c)
    BY OneMessage DEF IInv, Connections
  <2> QED
    BY <2>1 DEF Talk, Done
<1>7. Counts' /\ MainInv' /\ MapsInv'
  BY <1>1, <1>2, <1>5, <1>6, PairUncounted
<1>8. Buffer'
  <2>1. fullClearText[h] = Nothing
    BY <1>6 DEF IInv, Buffer
  <2> QED
    BY <1>1, <1>2, <1>5, <2>1, PairBuffer
<1>9. Sizes'
  BY <1>1 DEF IInv, Sizes, Stored
<1> QED
  BY <1>3, <1>4, <1>7, <1>8, <1>9 DEF IInv

LEMMA RequestPieceStep ==
  ASSUME IInv, NEW c \in Chunks, RequestPiece(c), UNCHANGED <<op, fileChunks, dataVars>>
  PROVE  IInv'
<1>1. /\ op = "E" /\ ch[c].pc = "outputDir" /\ toWorker[c] # <<>> /\ fault = "none" /\ files' = files
      /\ Reply(c, "piece", "GET_CHUNK", Nothing)
  BY DEF RequestPiece, HasReceived, ChunkAt
<1>2. PICK h \in Chunks : wh[h].peer = c /\ Talk(h, c) /\ wh[h].pc = "recv"
  BY <1>1, Replies
<1>3. toMaster[c] = <<>> /\ toWorker[c] = <<Msg("SET_OUTPUT_DIR", NoOne)>>
  BY <1>1, <1>2 DEF Talk
<1>4. /\ ChunkMoves(c, "piece") /\ wh' = wh
      /\ toMaster'[c] = <<Msg("GET_CHUNK", Nothing)>> /\ toWorker'[c] = <<>>
  BY <1>1, <1>3, ReplyMoves DEF ChunkLabels
<1>5. Talk(h, c)'
  BY <1>1, <1>2, <1>4 DEF Talk, Msg, ChunkMoves
<1>6. \A d \in Chunks \ {c} : Piece(d)' = Piece(d)
  BY <1>1, <1>4 DEF Piece, File, ChunkMoves
<1>7. files' \in [Workers \X Names -> Chunks \cup {Nothing}]
  BY <1>1 DEF IInv, Types
<1> QED
  BY <1>1, <1>2, <1>3, <1>5, <1>6, <1>7, ReplyStep

\* A file is written with the piece of the handler that was accepted; when another
\* chunk has the same name, it is written again.
LEMMA SavePieceStep ==
  ASSUME IInv, NEW c \in Chunks, SavePiece(c), UNCHANGED <<op, fileChunks, dataVars>>
  PROVE  /\ IInv'
         /\ op = "E" /\ ch[c].pc = "piece" /\ ChunkMoves(c, "finished") /\ c < main.i
         /\ UNCHANGED <<main, ids, maps, wh>>
         /\ \E h \in Chunks : /\ wh[h].peer = c /\ wh[h].pc = "recv"
                              /\ files' = [files EXCEPT ![File(c)] = h]
<1>1. /\ ch[c].pc = "piece" /\ toWorker[c] # <<>> /\ fault = "none"
      /\ files' = [files EXCEPT ![File(c)] = Received(c).data]
      /\ Reply(c, "finished", "SIGNAL_DONE", Nothing)
  BY DEF SavePiece, HasReceived, ChunkAt
<1>2. PICK h \in Chunks : wh[h].peer = c /\ Talk(h, c) /\ wh[h].pc = "recv"
  BY <1>1, Replies
<1>3. op = "E" /\ toMaster[c] = <<>> /\ toWorker[c] = <<Msg("ENCRYPT_CHUNK", h)>>
  BY <1>1, <1>2 DEF Talk
<1>4. /\ ChunkMoves(c, "finished") /\ UNCHANGED <<main, ids, maps, wh>>
      /\ toMaster'[c] = <<Msg("SIGNAL_DONE", Nothing)>> /\ toWorker'[c] = <<>>
  BY <1>1, <1>3, ReplyMoves DEF ChunkLabels
<1>5. files' = [files EXCEPT ![File(c)] = h]
  <2>1. Received(c) = Msg("ENCRYPT_CHUNK", h)
    BY <1>3, OneMessage DEF Received
  <2>2. Received(c).data = h
    BY <2>1 DEF Msg
  <2> QED
    BY <1>1, <2>2
<1>6. File(c) \in Workers \X Names /\ c < main.i
  BY <1>1, Replies
<1>7. /\ files' \in [Workers \X Names -> Chunks \cup {Nothing}] /\ files'[File(c)] = h
      /\ \A f \in Workers \X Names : files'[f] = files[f] \/ files'[f] = h
  BY <1>5, <1>6 DEF IInv, Types
<1>8. \A d \in Chunks : File(d)' = File(d)
  BY <1>4 DEF File, ChunkMoves
<1>9. Piece(c)' = h
  BY <1>7, <1>8 DEF Piece
<1>10. \A d \in Chunks \ {c} : ch[d].pc # "none" /\ Piece(d) \in Chunks => Piece(d)' \in Chunks
  <2> SUFFICES ASSUME NEW d \in Chunks \ {c}, ch[d].pc # "none", Piece(d) \in Chunks
               PROVE  Piece(d)' \in Chunks
    OBVIOUS
  <2>1. File(d)' = File(d) /\ File(d) \in Workers \X Names
    BY <1>8 DEF File, Names, IInv, MainInv
  <2>2. files'[File(d)] = files[File(d)] \/ files'[File(d)] = h
    BY <1>7, <2>1
  <2> QED
    BY <2>1, <2>2 DEF Piece
<1>11. Talk(h, c)'
  BY <1>2, <1>3, <1>4, <1>9 DEF Talk, Msg, ChunkMoves
<1>12. IInv'
  BY <1>1, <1>2, <1>3, <1>7, <1>10, <1>11, ReplyStep
<1> QED
  BY <1>1, <1>2, <1>3, <1>4, <1>5, <1>6, <1>12

LEMMA SendFileStep ==
  ASSUME IInv, NEW c \in Chunks, SendFile(c), UNCHANGED <<op, fileChunks, dataVars>>
  PROVE  IInv'
<1>1. /\ op = "D" /\ ch[c].pc = "outputDir" /\ toWorker[c] # <<>> /\ fault = "none" /\ files' = files
      /\ Reply(c, "finished", "SET_CHUNK", Piece(c))
  BY DEF SendFile, HasReceived, ChunkAt, Piece
<1>2. PICK h \in Chunks : wh[h].peer = c /\ Talk(h, c) /\ wh[h].pc = "recv"
  BY <1>1, Replies
<1>3. toMaster[c] = <<>> /\ toWorker[c] = <<Msg("SET_OUTPUT_DIR", NoOne)>>
  BY <1>1, <1>2 DEF Talk
<1>4. PICK data : data = Piece(c)
  OBVIOUS
<1>5. Reply(c, "finished", "SET_CHUNK", data)
  BY <1>1, <1>4
<1>6. /\ ChunkMoves(c, "finished") /\ wh' = wh
      /\ toMaster'[c] = <<Msg("SET_CHUNK", data)>> /\ toWorker'[c] = <<>>
  BY <1>3, <1>5, ReplyMoves DEF ChunkLabels
<1>7. \A d \in Chunks : Piece(d)' = Piece(d)
  BY <1>1, <1>6 DEF Piece, File, ChunkMoves
<1>8. data \in Chunks
  <2>1. ch[c].worker = Line(c).worker /\ ch[c].worker \in Workers
    BY <1>1, Replies DEF Assigned
  <2>2. NoOne \notin Workers
    BY DEF NoOne, Workers
  <2>3. c \in DOMAIN maps /\ Line(c) = maps[c]
    BY <2>1, <2>2 DEF Line
  <2>4. DOMAIN maps = 0 .. fileChunks - 1
    BY <1>1 DEF IInv, MapsInv
  <2> QED
    BY <1>1, <1>4, <2>1, <2>3, <2>4 DEF IInv, Buffer, Piece, File
<1>9. Talk(h, c)'
  <2>1. Piece(c)' = data
    BY <1>4, <1>7
  <2> QED
    BY <1>1, <1>2, <1>6, <1>8, <2>1 DEF Talk, Msg, ChunkMoves
<1>10. files' \in [Workers \X Names -> Chunks \cup {Nothing}]
  BY <1>1 DEF IInv, Types
<1> QED
  BY <1>1, <1>2, <1>3, <1>5, <1>7, <1>9, <1>10, ReplyStep

-----------------------------------------------------------------------------
\* The invariant holds.

LEMMA InitIInv == Init => IInv
<1> SUFFICES ASSUME Init PROVE IInv
  OBVIOUS
<1>1. /\ main = [pc |-> "connect", i |-> 0, chunkCount |-> fileChunks]
      /\ ids = <<>> /\ progress = 0 /\ backlog = <<>>
      /\ wh = [c \in Chunks |-> [pc |-> "none", conn |-> FALSE, peer |-> NoOne]]
      /\ ch = [c \in Chunks |-> [pc |-> "none", worker |-> NoOne]]
      /\ toMaster = [c \in Chunks |-> <<>>] /\ toWorker = [c \in Chunks |-> <<>>]
      /\ op = "E" /\ fileChunks \in 0 .. MAX_CHUNKS /\ maps = NoMaps /\ fault = "none"
      /\ files = [f \in Workers \X Names |-> Nothing]
      /\ fullClearText = [c \in Chunks |-> Nothing] /\ fullClearTextSize = 0
      /\ seen = [c \in Chunks |-> 0]
  BY DEF Init, JobInit, Started
<1>2. /\ fileChunks \in Nat /\ fileChunks <= MAX_CHUNKS /\ NoOne \notin Chunks
      /\ min_workers \in Nat \ {0}
  BY <1>1, JobAssumption DEF NoOne, Chunks
<1>3. main \in MainState /\ main.pc = "connect" /\ main.i = 0 /\ N = fileChunks
  BY <1>1, <1>2 DEF MainState, MainLabels, N
<1>4. /\ \A h \in Chunks : wh[h].pc = "none" /\ wh[h].peer = NoOne
      /\ \A c \in Chunks : ch[c].pc = "none" /\ toMaster[c] = <<>> /\ toWorker[c] = <<>>
  BY <1>1
<1>5. Types
  <2>1. wh \in [Chunks -> HandlerState] /\ ch \in [Chunks -> ChunkState]
    BY <1>1 DEF HandlerState, ChunkState, Labels, ChunkLabels
  <2>2. toMaster \in [Chunks -> {toMaster[c] : c \in Chunks}] /\ toWorker \in [Chunks -> {toWorker[c] : c \in Chunks}]
    BY <1>1
  <2>3. ids \in Seq(Id) /\ backlog \in Seq(Chunks) /\ progress \in Nat
    BY <1>1
  <2>4. /\ files \in [Workers \X Names -> Chunks \cup {Nothing}]
        /\ fullClearText \in [Chunks -> Chunks \cup {Nothing}]
        /\ fullClearTextSize \in Nat /\ seen \in [Chunks -> Nat]
    BY <1>1
  <2> QED
    BY <1>1, <1>3, <2>1, <2>2, <2>3, <2>4 DEF Types, Faults
<1>6. MainInv
  <2>1. \A c \in Chunks : ~(c < main.i)
    BY <1>3 DEF Chunks
  <2>2. Len(ids) = 0 /\ 1 .. Len(ids) = {}
    BY <1>1
  <2> QED
    BY <1>1, <1>2, <1>3, <1>4, <2>1, <2>2 DEF MainInv, AfterLoop
<1>7. MapsInv
  BY <1>1, <1>3 DEF MapsInv, AfterLoop
<1>8. Connections
  BY <1>1, <1>2, <1>4 DEF Connections
<1>9. Buffer
  BY <1>1, <1>2, <1>4 DEF Buffer
<1>10. Counted = {}
  BY <1>2, <1>4 DEF Counted
<1>11. Counts
  BY <1>1, <1>3, <1>10, FS_EmptySet DEF Counts
<1>12. Sizes
  <2>1. Stored = {}
    BY <1>1 DEF Stored
  <2> QED
    BY <1>1, <2>1, FS_EmptySet DEF Sizes
<1> QED
  BY <1>5, <1>6, <1>7, <1>8, <1>9, <1>11, <1>12 DEF IInv

LEMMA StutterIInv ==
  ASSUME IInv, UNCHANGED vars
  PROVE  IInv'
<1>1. /\ UNCHANGED <<main, ids, maps, progress, handlerVars, ownVars, fault>>
      /\ fault' \in Faults /\ Target' = Target
  BY DEF vars, jobVars, net, handlerVars, ownVars, IInv, Types, Target, RoundRobin, Line
<1>2. fault' = "unknownWorker" => main.pc = "loop" /\ main.i < N /\ ~Registered(Target)
  BY <1>1 DEF IInv, MainInv
<1> QED
  BY <1>1, <1>2, FaultStep

LEMMA NextIInv == IInv /\ [Next]_vars => IInv'
<1> SUFFICES ASSUME IInv, [Next]_vars PROVE IInv'
  OBVIOUS
<1>1. CASE UNCHANGED vars
  BY <1>1, StutterIInv
<1>2. CASE Next
  <2>1. ASSUME NEW w \in Workers, NEW junk \in Junk, ConnectWorker(w, junk), UNCHANGED ownVars
        PROVE  IInv'
    BY <2>1, ConnectWorkerStep
  <2>2. CASE CreateHandler /\ Registered(Target) /\ UNCHANGED ownVars
    BY <2>2, CreateHandlerStep
  <2>3. CASE ConstructAndSend(Target) /\ UNCHANGED ownVars
    BY <2>3, ConstructAndSendStep
  <2>4. CASE EndLoop /\ UNCHANGED ownVars
    BY <2>4, EndLoopStep
  <2>5. CASE (TestFails \/ Block \/ Finish) /\ UNCHANGED ownVars
    <3>1. /\ main.pc \in {"test", "block"} /\ fault = "none"
          /\ UNCHANGED <<ids, maps, progress, handlerVars, fault>>
      BY <2>5 DEF TestFails, Block, Finish, Main, net, handlerVars
    <3>2. MainMoves("block") \/ MainMoves("blocked") \/ (MainMoves("done") /\ AllDone)
      BY <2>5, MainGoto DEF TestFails, Block, Finish, MainLabels, IInv
    <3> QED
      BY <2>5, <3>1, <3>2, MainStep DEF MainLabels
  <2>6. CASE UnknownWorker /\ UNCHANGED ownVars
    BY <2>6, FaultStep DEF UnknownWorker, Fault, Faults, Main, N, net, handlerVars
  <2>7. CASE Restart
    BY <2>7, RestartStep
  <2>8. ASSUME NEW h \in Chunks, NullConnection(h), UNCHANGED ownVars
        PROVE  IInv'
    BY <2>8, FaultStep DEF NullConnection, Fault, Faults, net, handlerVars
  <2>9. ASSUME NEW h \in Chunks,
               \/ (Accept(h) \/ CountChunk(h) \/ NotifyAll(h)) /\ UNCHANGED ownVars
               \/ (SendPiece(h) \/ PieceSaved(h)) /\ UNCHANGED ownVars
               \/ (ReadSize(h) \/ StorePiece(h)) /\ UNCHANGED <<op, fileChunks, files>>
        PROVE  IInv'
    BY <2>9, AcceptStep, CountChunkStep, NotifyAllStep, SendPieceStep, PieceSavedStep, ReadSizeStep,
       StorePieceStep
  <2>10. ASSUME NEW c \in Chunks,
                \/ Connect(c) /\ UNCHANGED ownVars
                \/ (RequestPiece(c) \/ SavePiece(c) \/ SendFile(c)) /\ UNCHANGED <<op, fileChunks, dataVars>>
         PROVE  IInv'
    BY <2>10, ConnectStep, RequestPieceStep, SavePieceStep, SendFileStep
  <2> QED
    BY <1>2, <2>1, <2>2, <2>3, <2>4, <2>5, <2>6, <2>7, <2>8, <2>9, <2>10, Steps
<1> QED
  BY <1>1, <1>2

LEMMA Invariance == Spec => []IInv
BY InitIInv, NextIInv, PTL DEF Spec

-----------------------------------------------------------------------------
\* Theorems

\* No more pieces are in the buffer than were fetched.
LEMMA StoredBounds ==
  ASSUME IInv
  PROVE  /\ Cardinality(Stored) \in Nat /\ Cardinality(Stored) <= MAX_CHUNKS
         /\ op = "D" => Cardinality(Stored) <= FETCH_CHUNKS
<1>1. N \in Nat /\ N <= MAX_CHUNKS
  BY Bounds DEF IInv
<1>2. ASSUME NEW h \in Stored PROVE h \in 0 .. N - 1
  <2>1. h \in Chunks /\ wh[h].pc # "none"
    BY HasPeer DEF Stored, IInv, Buffer, Connections
  <2>2. h < main.i \/ (h = main.i /\ main.i < N)
    BY <2>1 DEF IInv, MainInv
  <2> QED
    BY <2>1, <2>2, Bounds DEF IInv, Chunks
<1>3. IsFiniteSet(0 .. N - 1) /\ Cardinality(0 .. N - 1) = N
  <2>1. 0 \in Int /\ N - 1 \in Int
    BY <1>1
  <2>2. /\ IsFiniteSet(0 .. N - 1)
        /\ Cardinality(0 .. N - 1) = IF 0 > N - 1 THEN 0 ELSE (N - 1) - 0 + 1
    BY <2>1, FS_Interval
  <2> QED
    BY <1>1, <2>2
<1>4. Cardinality(Stored) \in Nat /\ Cardinality(Stored) <= N
  BY <1>2, <1>3, StoredFinite, FS_Subset DEF IInv
<1>5. op = "D" => N = FETCH_CHUNKS
  BY DEF IInv, MainInv
<1> QED
  BY <1>1, <1>4, <1>5, JobAssumption

\* Every variable keeps its type; the place where main's loop stands, the count of
\* pieces done, the size of the clear text and the ids of the workers stay within their
\* bounds (JobManager::Encrypt and Decrypt, WorkerHandler::handleWorker).
THEOREM TypeCorrect == Spec => []TypeOK
<1>1. IInv => TypeOK
  <2> SUFFICES ASSUME IInv PROVE TypeOK
    OBVIOUS
  <2>1. main \in [pc : MainLabels, i : 0 .. MAX_CHUNKS, chunkCount : Int]
    <3>1. main.i \in 0 .. MAX_CHUNKS
      BY Bounds DEF IInv
    <3> QED
      BY <3>1 DEF IInv, Types, MainState
  <2>2. ids \in Seq([worker : Workers, junk : Junk]) /\ Len(ids) <= min_workers
    <3>1. ids \in Seq(Id)
      BY DEF IInv, Types
    <3>2. Len(ids) <= min_workers
      BY <3>1, Bounds, Elements DEF IInv, MainInv
    <3> QED
      BY <3>1, <3>2 DEF Id
  <2>3. progress \in 0 .. MAX_CHUNKS
    BY CountedChunks
  <2>4. /\ wh \in [Chunks -> [pc : {"none", "accept", "recv", "count", "notify"} \cup {"store"},
                             conn : BOOLEAN, peer : Chunks \cup {NoOne}]]
        /\ ch \in [Chunks -> [pc : {"none", "connect", "outputDir", "finished"} \cup {"piece"},
                             worker : Workers \cup {NoOne}]]
    <3>1. /\ Labels = {"none", "accept", "recv", "count", "notify"} \cup {"store"}
          /\ ChunkLabels = {"none", "connect", "outputDir", "finished"} \cup {"piece"}
      BY DEF Labels, ChunkLabels
    <3> QED
      BY <3>1 DEF IInv, Types, HandlerState, ChunkState
  <2>5. backlog \in Seq(Chunks)
    BY DEF IInv, Types
  <2>6. JobTypeOK({"store"}, {"piece"})
    BY <2>1, <2>2, <2>3, <2>4, <2>5 DEF JobTypeOK, MainLabels
  <2>7. fullClearTextSize \in 0 .. MAX_CHUNKS /\ seen \in [Chunks -> 0 .. MAX_CHUNKS]
    <3>1. MAX_CHUNKS \in Nat /\ fullClearTextSize \in Nat /\ seen \in [Chunks -> Nat]
      BY JobAssumption DEF IInv, Types
    <3>2. /\ fullClearTextSize <= Cardinality(Stored)
          /\ \A h \in Chunks : seen[h] <= Cardinality(Stored)
      BY DEF IInv, Sizes
    <3> QED
      BY <3>1, <3>2, StoredBounds
  <2> QED
    BY <2>6, <2>7 DEF IInv, Types, TypeOK, Faults
<1> QED
  BY <1>1, Invariance, PTL

\* When the second job is done, the size of the clear text, which the handlers add up
\* without a lock, is that of at least one piece and of no more than were fetched
\* (WorkerHandler::handleWorker, SET_CHUNK).
THEOREM SizeStaysInRange == Spec => []SizeInRange
<1>1. IInv => SizeInRange
  <2> SUFFICES ASSUME IInv, op = "D", main.pc = "done", FETCH_CHUNKS > 0
               PROVE  fullClearTextSize \in 1 .. FETCH_CHUNKS
    BY DEF SizeInRange
  <2>1. AllDone /\ N = FETCH_CHUNKS /\ FETCH_CHUNKS \in Nat
    BY FetchAssumption, JobAssumption DEF IInv, Counts, MainInv
  <2>2. 0 \in 0 .. N - 1
    BY <2>1
  <2>3. PICK h \in Counted : wh[h].peer = 0 /\ Done(0)
    BY <2>1, <2>2, CountedChunks
  <2>4. h \in Chunks /\ 0 \in Chunks
    BY <2>2, Bounds DEF IInv, Counted, Chunks
  <2>5. Talk(h, 0) /\ fullClearText[h] = Piece(0)
    BY <2>3, <2>4 DEF IInv, Connections, Buffer
  <2>6. Piece(0) \in Chunks
    BY <2>3, <2>5 DEF Talk, Done
  <2>7. h \in Stored
    BY <2>4, <2>5, <2>6 DEF Stored, Nothing, Chunks
  <2> QED
    BY <2>1, <2>7, StoredBounds DEF IInv, Types, Sizes
<1> QED
  BY <1>1, Invariance, PTL

\* Main fails to find a worker only for a chunk that the file does not have, or when the
\* byte that follows the worker's id is not the one that was saved with it: each of the
\* workers has connected (JobManager::Encrypt and Decrypt).
THEOREM LookupFailsOnJunk == Spec => []LookupFails
<1>1. IInv => LookupFails
  <2> SUFFICES ASSUME IInv, fault = "unknownWorker", main.i < fileChunks
               PROVE  JunkDiffers(main.i)
    BY Bounds DEF LookupFails, IInv
  <2>1. /\ ~Registered(Target) /\ Len(ids) = min_workers /\ main.i \in Nat /\ main.i < N
        /\ min_workers \in Nat \ {0} /\ fileChunks \in Nat
    BY Bounds DEF IInv, MainInv
  <2>2. /\ DOMAIN ids = 1 .. min_workers
        /\ \A k \in 1 .. min_workers : ids[k] \in Id
    BY <2>1, Elements DEF IInv, Types
  <2>3. op = "D"
    <3>1. (main.i % min_workers) + 1 \in 1 .. min_workers
      BY <2>1
    <3>2. RoundRobin(main.i) = ids[(main.i % min_workers) + 1]
      BY <2>1 DEF RoundRobin
    <3>3. Registered(RoundRobin(main.i))
      BY <2>2, <3>1, <3>2 DEF Registered
    <3> QED
      BY <2>1, <3>3 DEF Target, IInv, Types
  <2>4. main.i \in DOMAIN maps /\ maps[main.i] \in Id /\ Line(main.i) = maps[main.i]
    BY <2>1, <2>3 DEF IInv, MapsInv, Line
  <2> DEFINE w == Line(main.i).worker
  <2>5. w \in Workers
    BY <2>4 DEF Id
  <2> HIDE DEF w
  <2>6. \E k \in 1 .. min_workers : ids[k].worker = w
    <3> SUFFICES ASSUME \A k \in 1 .. min_workers : ids[k].worker # w
                 PROVE  FALSE
      OBVIOUS
    <3> DEFINE S == 1 .. min_workers
               T == Workers \ {w}
               f == [k \in S |-> ids[k].worker]
    <3>1. f \in [S -> T]
      <4>1. \A k \in S : ids[k].worker \in Workers
        BY <2>2 DEF Id
      <4> QED
        BY <4>1
    <3>2. IsFiniteSet(S) /\ Cardinality(S) = min_workers
      BY <2>1, FS_Interval
    <3>3. IsFiniteSet(Workers) /\ Cardinality(Workers) = min_workers
      <4>1. min_workers \in Int /\ min_workers > 0 /\ 0 \in Int /\ min_workers - 1 \in Int
        BY <2>1
      <4>2. /\ IsFiniteSet(Workers)
            /\ Cardinality(Workers) = IF 0 > min_workers - 1 THEN 0 ELSE (min_workers - 1) - 0 + 1
        BY <4>1, FS_Interval DEF Workers
      <4> QED
        BY <4>1, <4>2
    <3>4. IsFiniteSet(T) /\ Cardinality(T) = min_workers - 1
      BY <2>5, <3>3, FS_RemoveElement
    <3>5. Cardinality(T) < Cardinality(S)
      BY <2>1, <3>2, <3>4
    <3> HIDE DEF S, T, f
    <3>6. PICK j \in S, k \in S : j # k /\ f[j] = f[k]
      BY <3>1, <3>2, <3>4, <3>5, FS_PigeonHole
    <3> QED
      BY <2>1, <3>6 DEF S, f, IInv, MainInv
  <2>7. PICK k \in 1 .. min_workers : ids[k].worker = w
    BY <2>6
  <2>8. ids[k] # maps[main.i]
    BY <2>1, <2>2, <2>3, <2>4 DEF Registered, Target
  <2>9. ids[k].junk # maps[main.i].junk
    <3>1. ids[k] = [worker |-> ids[k].worker, junk |-> ids[k].junk]
      BY <2>2 DEF Id
    <3>2. maps[main.i] = [worker |-> maps[main.i].worker, junk |-> maps[main.i].junk]
      BY <2>4 DEF Id
    <3>3. maps[main.i].worker = ids[k].worker
      BY <2>4, <2>7 DEF w
    <3> QED
      BY <2>8, <3>1, <3>2, <3>3
  <2> QED
    BY <2>2, <2>4, <2>7, <2>9 DEF JunkDiffers, w
<1> QED
  BY <1>1, Invariance, PTL

-----------------------------------------------------------------------------
\* The refinements.

\* A char tells so many chunks apart.
LEMMA NamesDiffer ==
  ASSUME MAX_CHUNKS <= CHAR, NEW c \in Chunks, NEW d \in Chunks, ChunkId(c) = ChunkId(d)
  PROVE  c = d
<1>1. c \in Nat /\ d \in Nat /\ c - d < CHAR /\ d - c < CHAR
  BY JobAssumption, CharAssumption DEF Chunks
<1>2. ~(c < d) /\ ~(d < c)
  BY <1>1, IdsDistinct
<1> QED
  BY <1>1, <1>2

\* What every step but those that save, restart or end a job leaves as it is.
LEMMA Others ==
  ASSUME IInv, Next, ~Restart,
         \A c \in Chunks : ~(SavePiece(c) /\ UNCHANGED <<op, fileChunks, dataVars>>)
  PROVE  /\ UNCHANGED <<op, fileChunks, files>>
         /\ op = "D" => UNCHANGED maps
         /\ op = "E" => /\ \A c \in Chunks : ch'[c].pc = "finished" <=> ch[c].pc = "finished"
                        /\ \A c \in Chunks : ch[c].pc = "finished" => ch'[c].worker = ch[c].worker
                        /\ \A h, c \in Chunks : wh'[h].peer = c /\ ch[c].pc = "finished" => wh[h].peer = c
<1> DEFINE Kept == /\ \A c \in Chunks : ch'[c].pc = "finished" <=> ch[c].pc = "finished"
                   /\ \A c \in Chunks : ch[c].pc = "finished" => ch'[c].worker = ch[c].worker
                   /\ \A h, c \in Chunks : wh'[h].peer = c /\ ch[c].pc = "finished" => wh[h].peer = c
<1>1. UNCHANGED <<op, fileChunks, files>>
  BY Steps DEF ownVars, RequestPiece, SendFile
<1>2. op = "D" => UNCHANGED maps
  BY Steps DEF ConnectWorker, CreateHandler, ConstructAndSend, EndLoop, TestFails, Block, Finish,
     UnknownWorker, Fault, NullConnection, Accept, CountChunk, NotifyAll, SendPiece, PieceSaved,
     ReadSize, StorePiece, Connect, RequestPiece, SendFile, Reply
<1>3. CASE UNCHANGED <<wh, ch>>
  BY <1>1, <1>2, <1>3
<1>4. ASSUME NEW h \in Chunks, NEW label \in Labels, Goto(h, label), ch' = ch
      PROVE  Kept
  BY <1>4, GotoMoves DEF IInv, Moves
<1>5. CASE CreateHandler
  <2>1. main.i \in Chunks
    BY <1>5, Bounds DEF CreateHandler, IInv, N
  <2> QED
    BY <1>1, <1>2, <1>4, <1>5, <2>1 DEF CreateHandler, Labels
<1>6. CASE ConstructAndSend(Target)
  <2>1. main.i \in Chunks /\ ch[main.i].pc = "none"
    BY <1>6, Bounds DEF ConstructAndSend, Main, IInv, MainInv
  <2>2. /\ ch'[main.i].pc = "connect" /\ \A c \in Chunks \ {main.i} : ch'[c] = ch[c]
        /\ \A h \in Chunks : wh'[h].peer = wh[h].peer
    BY <1>6, <2>1 DEF ConstructAndSend, IInv, Types, HandlerState
  <2>3. Kept
    BY <2>1, <2>2
  <2> QED
    BY <1>1, <1>2, <2>3
<1>7. ASSUME NEW h \in Chunks, Accept(h)
      PROVE  Kept
  <2>1. PICK p \in Chunks : p = Head(backlog) /\ ch[p].pc = "outputDir"
    <3>1. backlog \in Seq(Chunks) /\ backlog # <<>>
      BY <1>7 DEF Accept, IInv, Types
    <3>2. Head(backlog) = backlog[1] /\ 1 \in 1 .. Len(backlog) /\ Head(backlog) \in Chunks
      BY <3>1
    <3> QED
      BY <3>2 DEF IInv, Connections
  <2>2. /\ wh'[h].peer = p /\ \A g \in Chunks \ {h} : wh'[g] = wh[g]
        /\ ch' = ch
    BY <1>7, <2>1 DEF Accept, IInv, Types
  <2> QED
    BY <2>1, <2>2
<1>8. ASSUME NEW h \in Chunks,
             \/ CountChunk(h) \/ NotifyAll(h) \/ SendPiece(h) \/ PieceSaved(h)
             \/ ReadSize(h) \/ StorePiece(h)
      PROVE  Kept
  <2>1. ch' = ch
    BY <1>8 DEF CountChunk, NotifyAll, SendPiece, PieceSaved, ReadSize, StorePiece
  <2>2. wh' = wh \/ \E label \in Labels : Goto(h, label)
    BY <1>8 DEF CountChunk, NotifyAll, SendPiece, PieceSaved, ReadSize, StorePiece, Labels
  <2> QED
    BY <1>4, <2>1, <2>2
<1>9. ASSUME NEW c \in Chunks, Connect(c) \/ RequestPiece(c)
      PROVE  Kept
  <2>1. wh' = wh /\ ch[c].pc # "finished"
    BY <1>9 DEF Connect, RequestPiece, Reply, HasReceived, ChunkAt
  <2>2. ChunkMoves(c, "outputDir") \/ ChunkMoves(c, "piece")
    BY <1>9, ChunkGotoMoves DEF Connect, RequestPiece, Reply, ChunkLabels, IInv
  <2> QED
    BY <2>1, <2>2 DEF ChunkMoves
<1>10. ASSUME NEW c \in Chunks, SendFile(c)
       PROVE  op = "D"
  BY <1>10 DEF SendFile
<1>11. ASSUME \/ EndLoop \/ TestFails \/ Block \/ Finish \/ UnknownWorker
              \/ \E w \in Workers, junk \in Junk : ConnectWorker(w, junk)
              \/ \E h \in Chunks : NullConnection(h)
       PROVE  UNCHANGED <<wh, ch>>
  BY <1>11 DEF EndLoop, TestFails, Block, Finish, UnknownWorker, Fault, NullConnection, ConnectWorker
<1> HIDE DEF Kept
<1>12. op = "E" => Kept
  BY <1>3, <1>5, <1>6, <1>7, <1>8, <1>9, <1>10, <1>11, Steps DEF Kept
<1> QED
  BY <1>1, <1>2, <1>12 DEF Kept

\* Then a file keeps the name and the worker of one chunk, through both jobs.
LEMMA SaveNamed ==
  ASSUME MAX_CHUNKS <= CHAR, IInv, Named, NEW c \in Chunks, SavePiece(c),
         UNCHANGED <<op, fileChunks, dataVars>>
  PROVE  Named'
<1>1. PICK h \in Chunks : /\ wh[h].peer = c /\ wh[h].pc = "recv"
                          /\ files' = [files EXCEPT ![File(c)] = h]
  BY SavePieceStep
<1>2. /\ op = "E" /\ op' = "E" /\ ch[c].pc = "piece" /\ wh' = wh
      /\ ch'[c].pc = "finished" /\ ch'[c].worker = ch[c].worker
      /\ \A d \in Chunks \ {c} : ch'[d] = ch[d]
  BY SavePieceStep DEF ChunkMoves
<1>3. File(c) \in Workers \X Names
  BY Replies DEF SavePiece, HasReceived, ChunkAt
<1>4. /\ files'[File(c)] = h
      /\ \A f \in Workers \X Names : f # File(c) => files'[f] = files[f]
  BY <1>1, <1>3 DEF IInv, Types
<1>5. \A w \in Workers, d \in Chunks : <<w, ChunkId(d)>> \in Workers \X Names
  BY DEF Names
<1>6. \A w \in Workers, d \in Chunks : <<w, ChunkId(d)>> = File(c) => d = c /\ w = ch[c].worker
  BY NamesDiffer DEF File
<1>7. ASSUME NEW w \in Workers, NEW d \in Chunks, FileOf(w, d)' # Nothing
      PROVE  ch'[d].pc = "finished" /\ w = ch'[d].worker
  <2>1. CASE <<w, ChunkId(d)>> = File(c)
    BY <1>2, <1>6, <2>1
  <2>2. CASE <<w, ChunkId(d)>> # File(c)
    <3>1. FileOf(w, d) # Nothing
      BY <1>4, <1>5, <1>7, <2>2 DEF FileOf
    <3>2. ch[d].pc = "finished" /\ w = ch[d].worker /\ d # c
      BY <1>2, <3>1 DEF Named
    <3> QED
      BY <1>2, <3>2
  <2> QED
    BY <2>1, <2>2
<1>8. ASSUME NEW g \in Chunks, NEW d \in Chunks, wh[g].peer = d, ch'[d].pc = "finished"
      PROVE  Piece(d)' = g
  <2>1. File(d)' = File(d)
    BY <1>2 DEF File
  <2>2. CASE d = c
    <3>1. g = h
      BY <1>1, <1>8, <2>2, OnlyPeer DEF IInv
    <3> QED
      BY <1>4, <2>1, <2>2, <3>1 DEF Piece
  <2>3. CASE d # c
    <3>1. ch[d].pc = "finished" /\ Piece(d) = g
      BY <1>2, <1>8, <2>3 DEF Named
    <3>2. ch[d].worker \in Workers
      BY <3>1 DEF IInv, MainInv
    <3>3. File(d) \in Workers \X Names /\ File(d) # File(c)
      BY <1>5, <1>6, <2>3, <3>2 DEF File
    <3> QED
      BY <1>4, <2>1, <3>1, <3>3 DEF Piece
  <2> QED
    BY <2>2, <2>3
<1> QED
  BY <1>2, <1>7, <1>8 DEF Named

LEMMA RestartNamed ==
  ASSUME IInv, Named, Restart
  PROVE  Named'
<1>1. /\ op = "E" /\ op' = "D" /\ main.pc = "done" /\ AllDone /\ UNCHANGED <<maps, fileChunks, files>>
  BY DEF Restart, Main, IInv, Counts
<1>2. ASSUME NEW w \in Workers, NEW c \in Chunks, FileOf(w, c) # Nothing
      PROVE  c < fileChunks /\ w = maps[c].worker
  <2>1. ch[c].pc = "finished" /\ w = ch[c].worker
    BY <1>1, <1>2 DEF Named
  <2>2. c < fileChunks
    BY <1>1, <2>1, Bounds DEF IInv, MainInv, AfterLoop
  <2>3. c \in 0 .. fileChunks - 1
    BY <2>2, Bounds DEF IInv, Chunks
  <2> QED
    BY <1>1, <2>1, <2>2, <2>3, FirstJobDone DEF AfterLoop
<1>3. ASSUME NEW c \in 0 .. fileChunks - 1, NEW d \in 0 .. fileChunks - 1,
             FileOf(maps[c].worker, c) = FileOf(maps[d].worker, d)
      PROVE  c = d
  <2>1. /\ c \in Chunks /\ FileOf(maps[c].worker, c) = Piece(c)
        /\ \E h \in Chunks : wh[h].peer = c /\ Done(c)
    BY <1>1, FirstJobDone DEF AfterLoop, FileOf, Piece
  <2>2. /\ d \in Chunks /\ FileOf(maps[d].worker, d) = Piece(d)
        /\ \E h \in Chunks : wh[h].peer = d /\ Done(d)
    BY <1>1, FirstJobDone DEF AfterLoop, FileOf, Piece
  <2>3. PICK g \in Chunks : wh[g].peer = c /\ Done(c)
    BY <2>1
  <2>4. PICK h \in Chunks : wh[h].peer = d /\ Done(d)
    BY <2>2
  <2>5. Piece(c) = g /\ Piece(d) = h
    BY <1>1, <2>1, <2>2, <2>3, <2>4 DEF Named, Done
  <2> QED
    BY <1>3, <2>1, <2>2, <2>3, <2>4, <2>5
<1> QED
  BY <1>1, <1>2, <1>3 DEF Named, FileOf

LEMMA StepNamed ==
  ASSUME MAX_CHUNKS <= CHAR, IInv, Named, [Next]_vars
  PROVE  Named'
<1>1. CASE UNCHANGED vars
  BY <1>1 DEF vars, jobVars, dataVars, Named, FileOf, Piece, File
<1>2. CASE Next
  <2>1. CASE Restart
    BY <2>1, RestartNamed
  <2>2. ASSUME NEW c \in Chunks, SavePiece(c), UNCHANGED <<op, fileChunks, dataVars>>
        PROVE  Named'
    BY <2>2, SaveNamed
  <2>3. CASE ~Restart /\ \A c \in Chunks : ~(SavePiece(c) /\ UNCHANGED <<op, fileChunks, dataVars>>)
    <3>1. UNCHANGED <<op, fileChunks, files>> /\ (op = "D" => UNCHANGED maps)
      BY <1>2, <2>3, Others
    <3>2. CASE op = "D"
      BY <3>1, <3>2 DEF Named, FileOf
    <3>3. CASE op = "E"
      <4>1. /\ \A c \in Chunks : ch'[c].pc = "finished" <=> ch[c].pc = "finished"
            /\ \A c \in Chunks : ch[c].pc = "finished" => ch'[c].worker = ch[c].worker
            /\ \A h, c \in Chunks : wh'[h].peer = c /\ ch[c].pc = "finished" => wh[h].peer = c
        BY <1>2, <2>3, <3>3, Others
      <4>2. \A c \in Chunks : ch[c].pc = "finished" => Piece(c)' = Piece(c)
        BY <3>1, <4>1 DEF Piece, File
      <4> QED
        BY <3>1, <3>3, <4>1, <4>2 DEF Named, FileOf
    <3> QED
      BY <3>2, <3>3 DEF IInv, Types
  <2> QED
    BY <2>1, <2>2, <2>3
<1> QED
  BY <1>1, <1>2

LEMMA InvarianceNamed ==
  ASSUME MAX_CHUNKS <= CHAR
  PROVE  Spec => [](IInv /\ Named)
<1>1. Init => Named
  <2> SUFFICES ASSUME Init PROVE Named
    OBVIOUS
  <2>1. /\ op = "E" /\ files = [f \in Workers \X Names |-> Nothing]
        /\ \A h \in Chunks : wh[h].peer = NoOne
    BY DEF Init, JobInit, Started
  <2>2. \A w \in Workers, c \in Chunks : <<w, ChunkId(c)>> \in Workers \X Names
    BY DEF Names
  <2>3. NoOne \notin Chunks
    BY DEF NoOne, Chunks
  <2> QED
    BY <2>1, <2>2, <2>3 DEF Named, FileOf
<1>2. IInv /\ Named /\ [Next]_vars => (IInv /\ Named)'
  BY NextIInv, StepNamed
<1> QED
  BY <1>1, <1>2, InitIInv, PTL DEF Spec

\* A step ends a job, or does not.
LEMMA Ends ==
  ASSUME IInv, Next, ~Restart, ~(Finish /\ UNCHANGED ownVars)
  PROVE  main'.pc = "done" <=> main.pc = "done"
<1>1. CASE \E h \in Chunks : NotifyAll(h)
  BY <1>1, MainGoto DEF NotifyAll, MainMoves, MainLabels, IInv
<1>2. CASE main' = main
  BY <1>2
<1>3. CASE CreateHandler \/ ConstructAndSend(Target) \/ EndLoop \/ TestFails \/ Block
  BY <1>3 DEF CreateHandler, ConstructAndSend, EndLoop, LoopEnds, TestFails, Block, Main, IInv, Types, MainState
<1>4. ASSUME NEW w \in Workers, NEW junk \in Junk, ConnectWorker(w, junk)
      PROVE  main'.pc # "done" /\ main.pc # "done"
  BY <1>4 DEF ConnectWorker, Main, IInv, Types, MainState
<1>5. \/ main' = main
      \/ \E h \in Chunks : NotifyAll(h)
      \/ CreateHandler \/ ConstructAndSend(Target) \/ EndLoop \/ TestFails \/ Block
      \/ \E w \in Workers, junk \in Junk : ConnectWorker(w, junk)
  BY Steps DEF UnknownWorker, Fault, NullConnection, Accept, CountChunk, SendPiece, PieceSaved,
     ReadSize, StorePiece, Connect, RequestPiece, SavePiece, SendFile, Reply
<1> QED
  BY <1>1, <1>2, <1>3, <1>4, <1>5

LEMMA Saved ==
  ASSUME MAX_CHUNKS <= CHAR, IInv, Named, op = "E", NEW c \in Chunks
  PROVE  /\ SavedAs(c) = IF ch[c].pc = "finished" THEN Piece(c) ELSE Nothing
         /\ ch[c].pc = "finished" => Piece(c) \in Chunks
<1>1. \A w \in Workers : FileOf(w, c) # Nothing => ch[c].pc = "finished" /\ w = ch[c].worker
  BY DEF Named
<1>2. CASE ch[c].pc # "finished"
  <2>1. \A w \in Workers : files[w, ChunkId(c)] = Nothing
    BY <1>1, <1>2 DEF FileOf
  <2> QED
    BY <1>2, <2>1 DEF SavedAs
<1>3. CASE ch[c].pc = "finished"
  <2>1. PICK h \in Chunks : wh[h].peer = c
    BY <1>3 DEF IInv, Connections
  <2>2. Piece(c) \in Chunks
    BY <1>3, <2>1 DEF IInv, Connections, Talk
  <2>3. ch[c].worker \in Workers
    BY <1>3 DEF IInv, MainInv
  <2>4. files[ch[c].worker, ChunkId(c)] = Piece(c) /\ Piece(c) # Nothing
    <3>1. files[ch[c].worker, ChunkId(c)] = Piece(c)
      BY DEF Piece, File
    <3>2. Piece(c) # Nothing
      BY <2>2 DEF Nothing, Chunks
    <3> QED
      BY <3>1, <3>2
  <2>5. \A w \in Workers : files[w, ChunkId(c)] # Nothing => w = ch[c].worker
    BY <1>1 DEF FileOf
  <2>6. \E w \in Workers : files[w, ChunkId(c)] # Nothing
    BY <2>3, <2>4
  <2>7. (CHOOSE w \in Workers : files[w, ChunkId(c)] # Nothing) = ch[c].worker
    BY <2>5, <2>6
  <2> QED
    BY <1>3, <2>2, <2>4, <2>6, <2>7 DEF SavedAs
<1> QED
  BY <1>2, <1>3

\* When no two chunks of a job can have the same id, the first job moves every piece
\* into one file of its own, on the worker the .maps file tells, and ends when all are
\* there (JobManager::Encrypt, WorkerHandler::handleWorker, ChunkHandler::Encrypt):
\* it implements ChunkTransfer.  With more chunks than a char has values this is not so.
THEOREM SaveImplementsTransfer ==
  ASSUME MAX_CHUNKS <= CHAR
  PROVE  Spec => ImplementsSave
<1> DEFINE placed == [c \in 0 .. fileChunks - 1 |-> SavedAs(c)]
           finished == op = "D" \/ main.pc = "done"
<1>1. Init => Save!Init
  <2> SUFFICES ASSUME Init PROVE Save!Init
    OBVIOUS
  <2>1. /\ op = "E" /\ main.pc = "connect" /\ fileChunks \in 0 .. MAX_CHUNKS
        /\ files = [f \in Workers \X Names |-> Nothing]
    BY DEF Init, JobInit, Started
  <2>2. \A c \in 0 .. fileChunks - 1 : c \in Chunks
    BY <2>1, JobAssumption DEF Chunks
  <2>3. ASSUME NEW c \in 0 .. fileChunks - 1 PROVE SavedAs(c) = Nothing
    <3>1. \A w \in Workers : <<w, ChunkId(c)>> \in Workers \X Names
      BY <2>2 DEF Names
    <3> QED
      BY <2>1, <3>1 DEF SavedAs
  <2>4. placed = [c \in 0 .. fileChunks - 1 |-> Nothing]
    BY <2>3
  <2> QED
    BY <2>1, <2>4 DEF Save!Init
<1>2. IInv /\ Named /\ [Next]_vars => [Save!Next]_<<placed, finished>>
  <2> SUFFICES ASSUME IInv, Named, [Next]_vars PROVE [Save!Next]_<<placed, finished>>
    OBVIOUS
  <2>1. \A c \in 0 .. fileChunks - 1 : c \in Chunks /\ c \in Int
    BY Bounds DEF IInv, Chunks
  <2>2. ASSUME UNCHANGED <<files, fileChunks>>
        PROVE  placed' = placed
    BY <2>2 DEF SavedAs
  <2>3. CASE UNCHANGED vars
    BY <2>2, <2>3 DEF vars, jobVars
  <2>4. CASE Restart
    <3>1. placed' = placed /\ finished /\ finished'
      BY <2>2, <2>4 DEF Restart, Main
    <3> QED
      BY <3>1
  <2>5. CASE Finish /\ UNCHANGED ownVars
    <3>1. /\ main.pc = "test" /\ AllDone /\ main'.pc = "done"
          /\ UNCHANGED <<files, fileChunks, op>>
      BY <2>5 DEF Finish, Main, ownVars, IInv, Types, MainState
    <3>2. placed' = placed
      BY <2>2, <3>1
    <3>3. CASE op = "D"
      BY <3>1, <3>2, <3>3
    <3>4. CASE op = "E"
      <4>1. ASSUME NEW c \in 0 .. fileChunks - 1 PROVE placed[c] # Nothing
        <5>1. ch[c].pc = "finished" /\ c \in Chunks
          BY <3>1, <3>4, FirstJobDone DEF AfterLoop, Done
        <5>2. SavedAs(c) \in Chunks
          BY <3>4, <5>1, Saved
        <5> QED
          BY <5>2 DEF Nothing, Chunks
      <4>2. ~finished /\ finished'
        BY <3>1, <3>4
      <4>3. DOMAIN placed = 0 .. fileChunks - 1
        OBVIOUS
      <4> HIDE DEF placed, finished
      <4>4. Save!Finish
        BY <3>2, <4>1, <4>2, <4>3 DEF Save!Finish, Save!Places, placed, finished
      <4> QED
        BY <4>4 DEF Save!Next
    <3> QED
      BY <3>3, <3>4 DEF IInv, Types
  <2>6. ASSUME NEW c \in Chunks, SavePiece(c), UNCHANGED <<op, fileChunks, dataVars>>
        PROVE  Save!Next
    <3>1. PICK h \in Chunks : /\ wh[h].peer = c /\ wh[h].pc = "recv"
                              /\ files' = [files EXCEPT ![File(c)] = h]
      BY <2>6, SavePieceStep
    <3>2. /\ op = "E" /\ op' = "E" /\ ch[c].pc = "piece" /\ ch'[c].pc = "finished"
          /\ ch'[c].worker = ch[c].worker /\ \A d \in Chunks \ {c} : ch'[d] = ch[d]
          /\ main' = main /\ wh' = wh /\ fileChunks' = fileChunks /\ c < main.i /\ IInv'
      BY <2>6, SavePieceStep DEF ChunkMoves
    <3>3. Named'
      BY <2>6, SaveNamed
    <3>4. ~finished /\ ~finished'
      <4>1. h \notin Counted
        BY <3>1, <3>2 DEF Counted, Done
      <4>2. ~AllDone
        BY <3>1, <4>1, NotAllDone
      <4> QED
        BY <3>2, <4>2 DEF IInv, Counts
    <3>5. c \in 0 .. fileChunks - 1 /\ h \in 0 .. MAX_CHUNKS - 1
      <4>1. c < fileChunks
        BY <3>2, Bounds DEF IInv, MainInv
      <4> QED
        BY <4>1, Bounds DEF IInv, Chunks
    <3>6. placed[c] = Nothing
      BY <3>2, <3>5, Saved
    <3>7. SavedAs(c)' = h
      <4>1. File(c) \in Workers \X Names /\ ch[c].worker \in Workers
        BY <2>6, Replies DEF SavePiece, HasReceived, ChunkAt
      <4>2. files'[ch[c].worker, ChunkId(c)] = h
        BY <3>1, <4>1 DEF File, IInv, Types
      <4>3. \A w \in Workers : files'[w, ChunkId(c)] # Nothing => w = ch[c].worker
        BY <3>2, <3>3 DEF Named, FileOf
      <4>4. h # Nothing
        BY DEF Nothing, Chunks
      <4>5. \E w \in Workers : files'[w, ChunkId(c)] # Nothing
        BY <4>1, <4>2, <4>4
      <4>6. (CHOOSE w \in Workers : files'[w, ChunkId(c)] # Nothing) = ch[c].worker
        BY <4>3, <4>5
      <4> QED
        BY <4>2, <4>5, <4>6 DEF SavedAs
    <3>8. ASSUME NEW d \in Chunks, d # c
          PROVE  SavedAs(d)' = SavedAs(d) /\ SavedAs(d) # h
      <4>1. \A w \in Workers : <<w, ChunkId(d)>> # File(c)
        BY <3>8, NamesDiffer DEF File
      <4>2. \A w \in Workers : files'[w, ChunkId(d)] = files[w, ChunkId(d)]
        <5>1. \A w \in Workers : <<w, ChunkId(d)>> \in Workers \X Names
          BY DEF Names
        <5> QED
          BY <3>1, <4>1, <5>1 DEF IInv, Types
      <4>3. SavedAs(d)' = SavedAs(d)
        BY <4>2 DEF SavedAs
      <4>4. ASSUME SavedAs(d) = h PROVE FALSE
        <5>1. ch[d].pc = "finished" /\ Piece(d) = h
          BY <3>2, <4>4, Saved DEF Nothing, Chunks
        <5>2. PICK g \in Chunks : wh[g].peer = d
          BY <5>1 DEF IInv, Connections
        <5>3. g = h
          BY <3>2, <5>1, <5>2 DEF Named
        <5> QED
          BY <3>1, <3>8, <5>2, <5>3
      <4> QED
        BY <4>3, <4>4
    <3>9. placed' = [placed EXCEPT ![c] = h]
      BY <2>1, <3>2, <3>5, <3>7, <3>8
    <3>10. \A q \in 0 .. fileChunks - 1 : placed[q] # h
      <4>1. h # Nothing
        BY DEF Nothing, Chunks
      <4> QED
        BY <2>1, <3>6, <3>8, <4>1
    <3>11. DOMAIN placed = 0 .. fileChunks - 1
      OBVIOUS
    <3> HIDE DEF placed, finished
    <3>12. Save!Place(c, h)
      BY <3>4, <3>6, <3>9, <3>10, <3>11 DEF Save!Place, Save!Places, placed, finished
    <3> QED
      BY <3>5, <3>11, <3>12 DEF Save!Next, Save!Places, placed
  <2>7. CASE /\ Next /\ ~Restart /\ ~(Finish /\ UNCHANGED ownVars)
             /\ \A c \in Chunks : ~(SavePiece(c) /\ UNCHANGED <<op, fileChunks, dataVars>>)
    <3>1. UNCHANGED <<op, fileChunks, files>> /\ (main'.pc = "done" <=> main.pc = "done")
      BY <2>7, Others, Ends
    <3>2. placed' = placed /\ finished' = finished
      BY <2>2, <3>1
    <3> QED
      BY <3>2
  <2> QED
    BY <2>3, <2>4, <2>5, <2>6, <2>7
<1> QED
  BY <1>1, <1>2, InvarianceNamed, PTL DEF Spec, ImplementsSave, Save!Spec

\* What a chunk handler of the second job sends is the piece the .maps file tells.
LEMMA Fetched ==
  ASSUME IInv, op = "D", NEW c \in Chunks, ch[c].pc = "finished"
  PROVE  c \in 0 .. fileChunks - 1 /\ Piece(c) = FileOf(maps[c].worker, c)
<1>1. ch[c].worker = Line(c).worker /\ ch[c].worker \in Workers
  BY DEF IInv, MainInv, Assigned
<1>2. NoOne \notin Workers
  BY DEF NoOne, Workers
<1>3. c \in DOMAIN maps /\ Line(c) = maps[c]
  BY <1>1, <1>2 DEF Line
<1>4. DOMAIN maps = 0 .. fileChunks - 1
  BY DEF IInv, MapsInv
<1> QED
  BY <1>1, <1>3, <1>4 DEF Piece, File, FileOf

\* Likewise, the second job moves every piece it fetches into one place of its own in
\* the buffer, though workers come back in another order and handlers accept each
\* other's connections, and ends when every place has one (JobManager::Decrypt,
\* WorkerHandler::handleWorker, ChunkHandler::Decrypt): it implements ChunkTransfer.
THEOREM FetchImplementsTransfer ==
  ASSUME MAX_CHUNKS <= CHAR
  PROVE  Spec => ImplementsFetch
<1> DEFINE placed == [c \in 0 .. FETCH_CHUNKS - 1 |-> fullClearText[c]]
           finished == op = "D" /\ main.pc = "done"
<1> DEFINE P == 0 .. FETCH_CHUNKS - 1
<1>0. /\ FETCH_CHUNKS \in 0 .. MAX_CHUNKS /\ MAX_CHUNKS \in Nat
      /\ \A p \in P : p \in Chunks
  BY FetchAssumption, JobAssumption DEF Chunks
<1>1. Init => Fetch!Init
  <2> SUFFICES ASSUME Init PROVE Fetch!Init
    OBVIOUS
  <2>1. op = "E" /\ fullClearText = [c \in Chunks |-> Nothing]
    BY DEF Init
  <2>2. placed = [c \in 0 .. FETCH_CHUNKS - 1 |-> Nothing]
    BY <1>0, <2>1
  <2> QED
    BY <1>0, <2>1, <2>2 DEF Fetch!Init
<1>2. IInv /\ Named /\ [Next]_vars => [Fetch!Next]_<<placed, finished>>
  <2> SUFFICES ASSUME IInv, Named, [Next]_vars PROVE [Fetch!Next]_<<placed, finished>>
    OBVIOUS
  <2>1. DOMAIN placed = P
    OBVIOUS
  <2>2. ASSUME fullClearText' = fullClearText
        PROVE  placed' = placed
    BY <2>2
  <2>3. CASE UNCHANGED vars
    BY <2>2, <2>3 DEF vars, jobVars, dataVars
  <2>4. CASE Restart
    <3>1. placed' = placed /\ ~finished /\ ~finished'
      BY <2>2, <2>4 DEF Restart, JobRestart, Started, dataVars
    <3> QED
      BY <3>1
  <2>5. CASE Finish /\ UNCHANGED ownVars
    <3>1. /\ main.pc = "test" /\ AllDone /\ main'.pc = "done" /\ UNCHANGED <<fullClearText, op>>
      BY <2>5 DEF Finish, Main, ownVars, dataVars, IInv, Types, MainState
    <3>2. placed' = placed
      BY <2>2, <3>1
    <3>3. CASE op = "E"
      BY <3>1, <3>2, <3>3
    <3>4. CASE op = "D"
      <4>1. ASSUME NEW p \in P PROVE placed[p] # Nothing
        <5>1. p \in Chunks /\ p \in Counted
          BY <1>0, <3>1, <3>4, CountedChunks DEF IInv, MainInv
        <5>2. PICK c \in Chunks : wh[p].peer = c /\ Done(c)
          BY <5>1 DEF Counted
        <5>3. fullClearText[p] = Piece(c) /\ Piece(c) \in Chunks
          BY <3>4, <5>1, <5>2 DEF IInv, Buffer, Connections, Talk, Done
        <5> QED
          BY <5>3 DEF Nothing, Chunks
      <4>2. ~finished /\ finished'
        BY <3>1, <3>4
      <4> HIDE DEF placed, finished
      <4>3. Fetch!Finish
        BY <2>1, <3>2, <4>1, <4>2 DEF Fetch!Finish, Fetch!Places, placed, finished
      <4> QED
        BY <4>3 DEF Fetch!Next
    <3> QED
      BY <3>3, <3>4 DEF IInv, Types
  <2>6. ASSUME NEW h \in Chunks, StorePiece(h), UNCHANGED <<op, fileChunks, files>>
        PROVE  Fetch!Next
    <3>1. PICK c \in Chunks :
            /\ wh[h].peer = c /\ op = "D" /\ ch[c].pc = "finished" /\ ~Done(c)
            /\ Piece(c) \in Chunks
            /\ fullClearText' = [fullClearText EXCEPT ![h] = Piece(c)]
            /\ fullClearText[h] = Nothing
      BY <2>6, Stores DEF Done
    <3>2. wh[h].pc = "store" /\ main' = main
      BY <2>6 DEF StorePiece, At
    <3>3. ~finished /\ ~finished'
      <4>1. h \notin Counted
        BY <3>1 DEF Counted
      <4>2. ~AllDone
        BY <3>2, <4>1, NotAllDone
      <4> QED
        BY <3>2, <4>2 DEF IInv, Counts
    <3>4. h \in P
      <4>1. h < main.i \/ (h = main.i /\ main.i < N)
        BY <3>2 DEF IInv, MainInv
      <4>2. N = FETCH_CHUNKS
        BY <3>1 DEF IInv, MainInv
      <4> QED
        BY <4>1, <4>2, Bounds DEF IInv, Chunks
    <3>5. placed[h] = Nothing
      BY <3>1, <3>4
    <3>6. ASSUME NEW q \in P, placed[q] = Piece(c)
          PROVE  FALSE
      <4>1. q \in Chunks /\ fullClearText[q] \in Chunks
        BY <1>0, <3>1, <3>6
      <4>2. fullClearText[q] # Nothing
        BY <4>1 DEF Nothing, Chunks
      <4>3. PICK d \in Chunks : wh[q].peer = d
        BY <4>1, <4>2, HasPeer DEF IInv, Buffer
      <4>4. Done(d) /\ Piece(d) = Piece(c)
        BY <3>1, <3>6, <4>1, <4>2, <4>3 DEF IInv, Buffer
      <4>5. /\ d \in 0 .. fileChunks - 1 /\ Piece(d) = FileOf(maps[d].worker, d)
            /\ c \in 0 .. fileChunks - 1 /\ Piece(c) = FileOf(maps[c].worker, c)
        BY <3>1, <4>4, Fetched DEF Done
      <4>6. c = d
        BY <3>1, <4>4, <4>5 DEF Named
      <4> QED
        BY <3>1, <4>4, <4>6
    <3>7. placed' = [placed EXCEPT ![h] = Piece(c)]
      BY <1>0, <3>1, <3>4 DEF IInv, Types
    <3>8. Piece(c) \in 0 .. MAX_CHUNKS - 1
      BY <3>1 DEF Chunks
    <3>9. PICK piece : piece = Piece(c)
      OBVIOUS
    <3>10. \A q \in P : placed[q] # piece
      BY <3>6, <3>9
    <3>11. placed' = [placed EXCEPT ![h] = piece] /\ piece \in 0 .. MAX_CHUNKS - 1
      BY <3>7, <3>8, <3>9
    <3> HIDE DEF placed, finished
    <3>12. Fetch!Place(h, piece)
      BY <2>1, <3>3, <3>5, <3>10, <3>11 DEF Fetch!Place, Fetch!Places, placed, finished
    <3> QED
      BY <2>1, <3>4, <3>11, <3>12 DEF Fetch!Next, Fetch!Places, placed
  <2>7. CASE /\ Next /\ ~Restart /\ ~(Finish /\ UNCHANGED ownVars)
             /\ \A h \in Chunks : ~(StorePiece(h) /\ UNCHANGED <<op, fileChunks, files>>)
    <3>1. main'.pc = "done" <=> main.pc = "done"
      BY <2>7, Ends
    <3>2. UNCHANGED <<op, fullClearText>>
      BY <2>7, Steps DEF ownVars, dataVars, ReadSize
    <3>3. placed' = placed /\ finished' = finished
      BY <2>2, <3>1, <3>2
    <3> QED
      BY <3>3
  <2> QED
    BY <2>3, <2>4, <2>5, <2>6, <2>7
<1> QED
  BY <1>1, <1>2, InvarianceNamed, PTL DEF Spec, ImplementsFetch, Fetch!Spec
=============================================================================
