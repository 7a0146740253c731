--------------------------------- MODULE Wire ---------------------------------
(***************************************************************************)
(* Connection (the same file in both distributed programs): a message is a *)
(* length in decimal digits, a flag and data, written to a TCP stream by   *)
(* several writes under a mutex, because threads share connections; Recv   *)
(* reads the length once and the rest until it has it all.                 *)
(*                                                                         *)
(* A cell stands for a byte: 0 .. 9 for the digits, the next three for the *)
(* other characters that std::atoi knows, and the rest for any other byte. *)
(* The stream is reliable; how many of its cells have arrived when read()  *)
(* is called is open.  Lengths fit in an int.                              *)
(***************************************************************************)
EXTENDS Integers, Sequences, SequencesExt

CONSTANTS
  Senders,   \* the threads that send on the connection
  ToSend,    \* the messages each sends
  DIGITS,    \* cells of a length: 10
  Junk,      \* what a new buffer may hold
  MAX_RECEIVED  \* bound: Recv is not called again after so many messages
                \* when a length was cut

VARIABLES
  todo,        \* what each sender has to send, the current message first
  next,        \* the write each is about to make
  writeMutex,  \* its holder
  stream,      \* cells written and not yet read
  open,        \* the sending process lives
  rPc,         \* Recv: "length" or "body"; or, for good, "badLength" or "spin"
  cut,         \* a length was used of which not all had arrived
  length, dst, \* Recv's variables
  sent,        \* messages whose sending has begun, in order
  received     \* messages Recv has returned

sendVars == <<todo, next, writeMutex, sent>>
recvVars == <<rPc, cut, length, dst, received>>
vars == <<sendVars, stream, open, recvVars>>

NoOne == "nobody"

Message == [flag : Nat, parts : Seq(Seq(Nat))]

\* What Recv returns of a message: its flag and its data.
Body(m) == <<m.flag>> \o FlattenSeq(m.parts)

\* What is left of n without its last k digits.
Leading(n) == LET leading[k \in 0 .. DIGITS] == IF k = 0 THEN n ELSE leading[k - 1] \div 10
              IN  leading

\* The length with zeros before it.
lengthStr(n) == [k \in 1 .. DIGITS |-> Leading(n)[DIGITS - k] % 10]

Digits == 0 .. 9
Minus == 10
Plus == 11
Blank == 12

\* Where the cells of S that follow the first n cells end.
Run(cells, S, n) == CHOOSE k \in n .. Len(cells) :
                      /\ \A j \in n + 1 .. k : cells[j] \in S
                      /\ k < Len(cells) => cells[k + 1] \notin S

Decimal(digits) == LET value[k \in 0 .. Len(digits)] ==
                         IF k = 0 THEN 0 ELSE 10 * value[k - 1] + digits[k]
                   IN  value[Len(digits)]

\* std::atoi: skips blanks, and reads a sign and digits up to anything else.
atoi(cells) ==
  LET blanks == Run(cells, {Blank}, 0)
      signed == blanks < Len(cells) /\ cells[blanks + 1] \in {Minus, Plus}
      start == IF signed THEN blanks + 1 ELSE blanks
      value == Decimal(SubSeq(cells, start + 1, Run(cells, Digits, start)))
  IN  IF signed /\ cells[start] = Minus THEN -value ELSE value

\* Every length has digits enough.
ASSUME WireAssumption ==
  /\ DIGITS \in Nat \ {0}
  /\ NoOne \notin Senders
  /\ Junk \subseteq Nat /\ MAX_RECEIVED \in Nat
  /\ ToSend \in [Senders -> Seq(Message)]
  /\ \A s \in Senders : \A k \in DOMAIN ToSend[s] : Leading(Len(Body(ToSend[s][k])))[DIGITS] = 0

\* Mutant: the flag is not counted.
WritesUnflagged(m) == <<lengthStr(Len(Body(m)) - 1), <<m.flag>>>> \o m.parts

\* What Send, with one part, and SendMany write.
Writes(m) == <<lengthStr(Len(Body(m))), <<m.flag>>>> \o m.parts

Init ==
  /\ todo = ToSend
  /\ next = [s \in Senders |-> 1]
  /\ writeMutex = NoOne
  /\ stream = <<>>
  /\ open = TRUE
  /\ rPc = "length" /\ cut = FALSE /\ length = 0 /\ dst = <<>>
  /\ sent = <<>> /\ received = <<>>

-----------------------------------------------------------------------------
\* Send and SendMany

Current(s) == Head(todo[s])
Sending(s) == open /\ todo[s] # <<>>
Write(s) == stream' = stream \o Writes(Current(s))[next[s]]

\* Mutant: the mutex is not taken.
WriteLengthUnlocked(s) ==
  /\ Sending(s) /\ next[s] = 1
  /\ Write(s)
  /\ next' = [next EXCEPT ![s] = 2]
  /\ sent' = Append(sent, Body(Current(s)))
  /\ UNCHANGED <<todo, writeMutex, open, recvVars>>

WriteLength(s) ==
  /\ Sending(s) /\ next[s] = 1 /\ writeMutex = NoOne
  /\ writeMutex' = s
  /\ Write(s)
  /\ next' = [next EXCEPT ![s] = 2]
  /\ sent' = Append(sent, Body(Current(s)))
  /\ UNCHANGED <<todo, open, recvVars>>

WriteMore(s) ==
  /\ Sending(s) /\ next[s] \in 2 .. Len(Writes(Current(s))) - 1
  /\ Write(s)
  /\ next' = [next EXCEPT ![s] = @ + 1]
  /\ UNCHANGED <<todo, writeMutex, sent, open, recvVars>>

\* Mutant: the mutex is not given back.
WriteLastLocked(s) ==
  /\ Sending(s) /\ next[s] = Len(Writes(Current(s)))
  /\ Write(s)
  /\ todo' = [todo EXCEPT ![s] = Tail(@)]
  /\ next' = [next EXCEPT ![s] = 1]
  /\ UNCHANGED <<writeMutex, sent, open, recvVars>>

WriteLast(s) ==
  /\ Sending(s) /\ next[s] = Len(Writes(Current(s)))
  /\ Write(s)
  /\ writeMutex' = NoOne
  /\ todo' = [todo EXCEPT ![s] = Tail(@)]
  /\ next' = [next EXCEPT ![s] = 1]
  /\ UNCHANGED <<sent, open, recvVars>>

\* The process ends, whatever its threads are doing; what it wrote still arrives.
Exit ==
  /\ open
  /\ open' = FALSE
  /\ UNCHANGED <<sendVars, stream, recvVars>>

-----------------------------------------------------------------------------
\* Recv

\* read(fd, buffer, n): at least one cell if there are any, and n at most.
AtMost(n) == 1 .. IF n < Len(stream) THEN n ELSE Len(stream)
Take(k) == stream' = SubSeq(stream, k + 1, Len(stream))
EndOfFile == ~open /\ stream = <<>>

\* Recv ends, and is called again.
Return(message) == received' = Append(received, message) /\ rPc' = "length"

\* The length is read once, and whatever that brings is used: the rest of the buffer
\* is as it was allocated.  A buffer of negative length cannot be.
ReadLength ==
  /\ rPc = "length" /\ (cut => Len(received) < MAX_RECEIVED)
  /\ \E k \in AtMost(DIGITS) \cup {n \in {0} : EndOfFile} : \E rest \in [1 .. DIGITS - k -> Junk] :
       /\ Take(k)
       /\ length' = atoi(SubSeq(stream, 1, k) \o rest)
       /\ cut' = (cut \/ k < DIGITS)
  /\ dst' = <<>>
  /\ \/ length' < 0 /\ rPc' = "badLength" /\ UNCHANGED received
     \/ length' = 0 /\ Return(<<>>)
     \/ length' > 0 /\ rPc' = "body" /\ UNCHANGED received
  /\ UNCHANGED <<sendVars, open>>

\* Mutants: every read asks for the whole length; a read that brings less than was
\* asked for ends the message.
ReadBodyWhole ==
  /\ rPc = "body"
  /\ \E k \in AtMost(length) :
       /\ Take(k)
       /\ dst' = dst \o SubSeq(stream, 1, k)
  /\ IF Len(dst') < length THEN UNCHANGED <<rPc, received>>
     ELSE Return(dst')
  /\ UNCHANGED <<length, cut, sendVars, open>>
ReadBodyOnce ==
  /\ rPc = "body"
  /\ \E k \in AtMost(length - Len(dst)) :
       /\ Take(k)
       /\ dst' = dst \o SubSeq(stream, 1, k)
  /\ Return(dst')
  /\ UNCHANGED <<length, cut, sendVars, open>>

ReadBody ==
  /\ rPc = "body"
  /\ \E k \in AtMost(length - Len(dst)) :
       /\ Take(k)
       /\ dst' = dst \o SubSeq(stream, 1, k)
  /\ IF Len(dst') < length THEN UNCHANGED <<rPc, received>>
     ELSE Return(dst')
  /\ UNCHANGED <<length, cut, sendVars, open>>

\* read() returns 0, and the loop on the rest of a message never ends.
Spin ==
  /\ EndOfFile /\ rPc = "body"
  /\ rPc' = "spin"
  /\ UNCHANGED <<cut, length, dst, received, stream, sendVars, open>>

-----------------------------------------------------------------------------
Send(s) == WriteLength(s) \/ WriteMore(s) \/ WriteLast(s)
Recv == ReadLength \/ ReadBody \/ Spin

Next == Exit \/ Recv \/ \E s \in Senders : Send(s)

Spec == Init /\ [][Next]_vars
FairSpec == Spec /\ WF_vars(Recv) /\ \A s \in Senders : WF_vars(Send(s))

-----------------------------------------------------------------------------
\* Properties

AllMessages == UNION {{Body(ToSend[s][k]) : k \in DOMAIN ToSend[s]} : s \in Senders}

\* Every variable has its type; Recv holds no more than the length it has read, and,
\* while no length is cut, returns what was sent.
TypeOK ==
  /\ \A s \in Senders : IsSuffix(todo[s], ToSend[s])
  /\ writeMutex \in Senders \cup {NoOne}
  /\ rPc \in {"length", "body", "badLength", "spin"}
  /\ length \in Int
  /\ rPc = "body" => Len(dst) < length
  /\ ~cut => \A k \in DOMAIN received : received[k] \in AllMessages
  /\ open \in BOOLEAN /\ cut \in BOOLEAN

\* Threads that share a connection do not mix up their messages: until a length is
\* used of which not all had arrived, Recv returns whole messages, in the order in
\* which their senders got the mutex, however the stream is cut up elsewhere and
\* whenever the sending process ends.
Queue == INSTANCE MessageQueue WITH Messages <- AllMessages, broken <- cut
ImplementsQueue == Queue!Spec

\* Recv hangs in the middle of a message only when its sender ended there, or after a
\* length was cut.
SpinsOnTruncated == rPc = "spin" => cut \/ (Len(received) < Len(sent) /\ writeMutex # NoOne)

\* Every message arrives, unless the sending process ended or a length was cut.
AllDelivered == <>[](~open \/ cut \/ (received = sent /\ \A s \in Senders : todo[s] = <<>>))
==============================================================================
