----------------------------- MODULE UdsIngest -----------------------------
(***************************************************************************)
(* UdsIngest of src/vhp_consumer.cpp: the thread that accepts a producer,  *)
(* reads its byte stream, cuts it into frames and pushes them to the frame *)
(* ring, and stop(), by which main takes that thread down.                 *)
(*                                                                         *)
(* A stream is a sequence of cells, a few bytes each: two for the length   *)
(* prefix, one for the header, one per unit of payload.  A cell knows the  *)
(* message it is from, so the model can tell what bytes would only garble. *)
(*                                                                         *)
(* conn_fd_ is a plain int that stop() reads while the thread writes it.   *)
(* The language defines no outcome for that race; what is modelled is the  *)
(* one that builds have, as system calls lie between the accesses of each  *)
(* side: a read of it returns the value last written.                      *)
(***************************************************************************)
EXTENDS Integers, FiniteSetsExt, SequencesExt

CONSTANTS
  Lengths,            \* payload lengths that producers announce
  kMaxWirePayload,    \* pipeline.hpp
  kBufferCells,       \* size of the read buffer
  Capacity,           \* of the frame ring
  MaxConnections,     \* bound of the model: producers, one after the other
  MaxMessages         \* bound of the model: messages they write in all

PrefixCells == 2
Size(len) == PrefixCells + 1 + len

ASSUME UdsAssumption ==
  /\ Lengths \subseteq Nat /\ kMaxWirePayload \in Nat
  /\ kBufferCells \in Nat /\ kBufferCells >= Size(kMaxWirePayload)
  /\ Capacity \in Nat /\ Capacity >= 1
  /\ MaxConnections \in Nat /\ MaxMessages \in Nat

VARIABLES
  g_running,
  listening,   \* listen_fd_ is open
  main_pc,     \* where main stands
  sockets,     \* the connections made: what the kernel holds of each
  sent,        \* history: messages begun on each connection
  pc,          \* where the ingest thread stands
  conn_fd_,    \* the connection it holds, or None
  buf,         \* the read buffer up to `filled'
  offset,
  queue,       \* the frame ring
  ring_full_drops,
  parsed       \* history: frames cut from the stream, accepted or shed

process == <<g_running, listening, main_pc>>
environment == <<sockets, sent>>
buffer == <<buf, offset>>
ring == <<queue, ring_full_drops, parsed>>
vars == <<process, environment, pc, conn_fd_, buffer, ring>>

None == 0
Connections == 1 .. Len(sockets)

NewSocket == [cells |-> <<>>, state |-> "pending", shut |-> FALSE, ended |-> FALSE]

Init ==
  /\ g_running = TRUE /\ listening = FALSE /\ main_pc = "start"
  /\ sockets = <<>> /\ sent = <<>>
  /\ pc = "none" /\ conn_fd_ = None /\ buf = <<>> /\ offset = 0
  /\ queue = <<>> /\ ring_full_drops = 0 /\ parsed = <<>>

-----------------------------------------------------------------------------
(* Producers.  Each connects, writes messages, and ends after a message or *)
(* in the middle of one.                                                   *)

Connect ==
  /\ listening /\ Len(sockets) < MaxConnections
  /\ sockets' = Append(sockets, NewSocket) /\ sent' = Append(sent, <<>>)
  /\ UNCHANGED <<process, pc, conn_fd_, buffer, ring>>

\* write_all: the message, or what of it was written before the producer died.
\* One that announces too much writes no more than its header.
Write(c, len, cells) ==
  LET size    == IF len > kMaxWirePayload THEN Size(0) ELSE Size(len)
      message == [conn |-> c, number |-> Len(sent[c]) + 1, len |-> len, whole |-> cells = size]
  IN  /\ ~ sockets[c].ended /\ sockets[c].state # "closed"
      /\ Len(FlattenSeq(sent)) < MaxMessages /\ cells <= size
      /\ sockets' = [sockets EXCEPT
           ![c].cells = @ \o [k \in 1 .. cells |-> [message |-> message, k |-> k]],
           ![c].ended = cells < size]
      /\ sent' = [sent EXCEPT ![c] = Append(@, message)]
      /\ UNCHANGED <<process, pc, conn_fd_, buffer, ring>>

Disconnect(c) ==
  /\ ~ sockets[c].ended
  /\ sockets' = [sockets EXCEPT ![c].ended = TRUE]
  /\ UNCHANGED <<process, sent, pc, conn_fd_, buffer, ring>>

-----------------------------------------------------------------------------
(* The ingest thread.                                                      *)

Goto(from, to) == pc = from /\ pc' = to

Pending == {c \in Connections : sockets[c].state = "pending"}

\* run(): the loop condition.
Run ==
  /\ Goto("run", IF g_running THEN "accept" ELSE "returned")
  /\ UNCHANGED <<process, environment, conn_fd_, buffer, ring>>

\* accept() returns a connection.
Accept ==
  /\ Goto("accept", "accepted") /\ listening /\ Pending # {}
  /\ sockets' = [sockets EXCEPT ![Min(Pending)].state = "accepted"]
  /\ UNCHANGED <<process, sent, conn_fd_, buffer, ring>>

AcceptReturnsError ==
  /\ Goto("accept", "returned")
  /\ UNCHANGED <<process, environment, conn_fd_, buffer, ring>>

\* It fails once the listening socket is gone.
AcceptEnds == ~ listening /\ AcceptReturnsError

\* It fails for another reason (an aborted connection, too many open files): the
\* thread returns for good.
AcceptFails == listening /\ main_pc # "terminated" /\ AcceptReturnsError

Accepted == CHOOSE c \in Connections : sockets[c].state = "accepted"

\* Its result goes to conn_fd_, which main may have read before; pump() starts
\* with an empty buffer.
AssignFd ==
  /\ Goto("accepted", "pump")
  /\ conn_fd_' = Accepted
  /\ buf' = <<>> /\ offset' = 0
  /\ UNCHANGED <<process, environment, ring>>

\* pump(): the loop condition.
Pump ==
  /\ Goto("pump", IF g_running THEN "read" ELSE "close")
  /\ UNCHANGED <<process, environment, conn_fd_, buffer, ring>>

\* read() takes some of what is there, as much as the buffer has room for, or
\* says that nothing will follow.
Read ==
  LET s    == sockets[conn_fd_]
      room == kBufferCells - Len(buf)
  IN  /\ pc = "read"
      /\ \/ \E n \in 1 .. Min({room, Len(s.cells)}) :
              /\ pc' = "parse"
              /\ buf' = buf \o SubSeq(s.cells, 1, n)
              /\ sockets' = [sockets EXCEPT ![conn_fd_].cells = SubSeq(@, n + 1, Len(@))]
         \/ /\ pc' = "close"
            /\ room = 0 \/ (s.cells = <<>> /\ (s.ended \/ s.shut))
            /\ UNCHANGED <<buf, sockets>>
      /\ offset' = 0
      /\ UNCHANGED <<process, sent, conn_fd_, ring>>

\* It fails, whatever there is to read: pump() returns as at the end of the stream.
ReadFails ==
  /\ Goto("read", "failed") /\ main_pc # "terminated"
  /\ UNCHANGED <<process, environment, conn_fd_, buffer, ring>>

Rest == Len(buf) - offset

\* The length in the four bytes at `offset'; in the wrong place they are
\* samples of silence.
Announced == IF buf[offset + 1].k = 1 THEN buf[offset + 1].message.len ELSE 0

\* Slip: any length is believed.
Oversized_Never == FALSE

Oversized == Rest >= PrefixCells /\ Announced > kMaxWirePayload

Whole == Rest >= PrefixCells /\ Rest >= Size(Announced)

DropConnection ==
  /\ Oversized /\ Goto("parse", "close")
  /\ UNCHANGED <<process, environment, conn_fd_, buffer, ring>>

\* The next frame: push it, or count it as shed, and go on at `next'.
FrameThen(next) ==
  LET frame == SubSeq(buf, offset + 1, offset + Size(Announced))
      room  == Len(queue) < Capacity
  IN  /\ ~ Oversized /\ Whole /\ Goto("parse", next)
      /\ parsed' = Append(parsed, frame)
      /\ queue' = IF room THEN Append(queue, frame) ELSE queue
      /\ ring_full_drops' = IF room THEN ring_full_drops ELSE ring_full_drops + 1
      /\ UNCHANGED <<process, environment, conn_fd_>>

\* Slip: `if' where the code has `while', one frame for each read.
Frame_OnePerRead ==
  /\ FrameThen("pump")
  /\ buf' = SubSeq(buf, offset + Size(Announced) + 1, Len(buf)) /\ offset' = 0

Frame == FrameThen("parse") /\ offset' = offset + Size(Announced) /\ UNCHANGED buf

CompactTo(rest) ==
  /\ ~ Oversized /\ ~ Whole /\ Goto("parse", "pump")
  /\ buf' = rest /\ offset' = 0
  /\ UNCHANGED <<process, environment, conn_fd_, ring>>

\* Slip: the whole buffer is discarded, with the start of the next frame.
Compact_All == CompactTo(IF offset > 0 THEN <<>> ELSE buf)

\* No whole frame is left: memmove of the rest, and the desync guard.
Compact == CompactTo(IF Rest = kBufferCells THEN <<>> ELSE SubSeq(buf, offset + 1, Len(buf)))

\* pump() has returned: close(conn_fd_), and then conn_fd_ = -1.
Close ==
  /\ pc \in {"close", "failed"} /\ pc' = "closed"
  /\ sockets' = [sockets EXCEPT ![conn_fd_].state = "closed", ![conn_fd_].cells = <<>>]
  /\ UNCHANGED <<process, sent, conn_fd_, buffer, ring>>

ForgetFd ==
  /\ Goto("closed", "run")
  /\ conn_fd_' = None
  /\ UNCHANGED <<process, environment, buffer, ring>>

-----------------------------------------------------------------------------
(* main and the hot loop.                                                  *)

MainGoes(from, to) == main_pc = from /\ main_pc' = to

\* start(): the socket listens, and the thread is made.
Start ==
  /\ MainGoes("start", "setup")
  /\ listening' = TRUE /\ pc' = "run"
  /\ UNCHANGED <<g_running, environment, conn_fd_, buffer, ring>>

\* socket, bind or listen fails: main goes through a hot loop that ends at once.
StartFails ==
  /\ MainGoes("start", "setup")
  /\ g_running' = FALSE
  /\ UNCHANGED <<listening, environment, pc, conn_fd_, buffer, ring>>

\* hot_loop makes the session table.
Setup ==
  /\ MainGoes("setup", "hot_loop")
  /\ UNCHANGED <<g_running, listening, environment, pc, conn_fd_, buffer, ring>>

\* Or it cannot, and throws.  On its way to the handler the exception destroys
\* the UdsIngest object: with a thread that was not joined that ends the process
\* there, and the kernel closes its sockets; without one the handler is reached.
SetupThrows ==
  /\ MainGoes("setup", IF pc = "none" THEN "fatal" ELSE "terminated")
  /\ listening' = FALSE
  /\ sockets' = [c \in Connections |-> [sockets[c] EXCEPT !.state = "closed", !.cells = <<>>]]
  /\ UNCHANGED <<g_running, sent, pc, conn_fd_, buffer, ring>>

\* The hot loop takes a frame.
Pop ==
  /\ main_pc = "hot_loop" /\ queue # <<>>
  /\ queue' = Tail(queue)
  /\ UNCHANGED <<process, environment, pc, conn_fd_, buffer, ring_full_drops, parsed>>

\* SIGINT or SIGTERM: the handler clears g_running, wherever main and the thread are.
Signal ==
  /\ g_running /\ main_pc \in {"start", "setup", "hot_loop"}
  /\ g_running' = FALSE
  /\ UNCHANGED <<listening, main_pc, environment, pc, conn_fd_, buffer, ring>>

\* hot_loop returns, after a signal or at its deadline, and main clears g_running.
Ends ==
  /\ MainGoes("hot_loop", "stop")
  /\ g_running' = FALSE
  /\ UNCHANGED <<listening, environment, pc, conn_fd_, buffer, ring>>

\* stop(): the listening socket first.
StopListening ==
  /\ MainGoes("stop", "stop_conn")
  /\ listening' = FALSE
  /\ UNCHANGED <<g_running, environment, pc, conn_fd_, buffer, ring>>

\* Slip: only the listening socket is shut down.
StopConnection_Not ==
  /\ MainGoes("stop_conn", "join")
  /\ UNCHANGED <<g_running, listening, environment, pc, conn_fd_, buffer, ring>>

\* Then the connection, if conn_fd_ has one now; a closed one is left alone.
StopConnection ==
  /\ MainGoes("stop_conn", "join")
  /\ sockets' = [c \in Connections |->
                   IF c = conn_fd_ /\ sockets[c].state = "accepted"
                     THEN [sockets[c] EXCEPT !.shut = TRUE] ELSE sockets[c]]
  /\ UNCHANGED <<g_running, listening, sent, pc, conn_fd_, buffer, ring>>

JoinThread ==
  /\ MainGoes("join", "stopped") /\ pc \in {"none", "returned"}
  /\ UNCHANGED <<g_running, listening, environment, pc, conn_fd_, buffer, ring>>

-----------------------------------------------------------------------------
IngestThread ==
  /\ main_pc # "terminated"
  /\ \/ Run \/ Accept \/ AcceptEnds \/ AssignFd \/ Pump \/ Read \/ DropConnection
     \/ Frame \/ Compact \/ Close \/ ForgetFd

Main == Start \/ StartFails \/ Setup \/ SetupThrows \/ Pop \/ Signal \/ Ends

Stop == StopListening \/ StopConnection \/ JoinThread

Producers == \/ Connect
             \/ \E c \in Connections :
                  \/ Disconnect(c)
                  \/ \E len \in Lengths : \E cells \in 1 .. Size(len) : Write(c, len, cells)

Next == IngestThread \/ AcceptFails \/ ReadFails \/ Producers \/ Main \/ Stop

Spec == Init /\ [][Next]_vars

\* The ingest thread and a main that has left the hot loop keep running.  An
\* accept() that finds nothing to accept waits: it need not fail, nor need a read().
FairSpec == Spec /\ WF_vars(IngestThread) /\ WF_vars(Stop)

-----------------------------------------------------------------------------
(* Properties.                                                             *)

Messages == [conn : 1 .. MaxConnections, number : Nat \ {0}, len : Lengths,
             whole : BOOLEAN]

TypeOK ==
  /\ g_running \in BOOLEAN /\ listening \in BOOLEAN
  /\ conn_fd_ \in {None} \cup Connections
  /\ buf \in Seq([message : Messages, k : 1 .. Size(kMaxWirePayload)])
  /\ Len(buf) <= kBufferCells /\ offset \in 0 .. Len(buf)
  /\ Len(queue) <= Capacity /\ ring_full_drops \in 0 .. Len(parsed)

\* A frame is one whole message as it was sent, and its payload fits the slot it
\* is copied to.
FramesWhole ==
  \A i \in 1 .. Len(parsed) :
    LET message == parsed[i][1].message
    IN  /\ message.len <= kMaxWirePayload
        /\ parsed[i] = [k \in 1 .. Size(message.len) |-> [message |-> message, k |-> k]]

\* Where the frames of a connection are in parsed.
FramesOf(c) == {i \in 1 .. Len(parsed) : parsed[i][1].message.conn = c}

\* The frames of a connection are the first messages it sent.
NoneSkipped ==
  \A c \in Connections :
    \A i \in FramesOf(c) :
      LET number == Cardinality({j \in FramesOf(c) : j <= i})
      IN  /\ number <= Len(sent[c])
          /\ parsed[i][1].message = sent[c][number]

\* However the stream is cut into reads, the frames are the messages sent: none is
\* garbled, skipped, repeated or reordered, also when the connection before it was
\* dropped or died in the middle of a message (vhp_consumer.cpp:181-216).
FramesAreMessages == FramesWhole /\ NoneSkipped

\* Without a whole frame in it the buffer has room: read() is never asked for
\* zero bytes, whose answer would be taken for the end of the stream, and the
\* guard against it never throws data away.
GuardIdle == pc = "parse" /\ ~ Oversized /\ ~ Whole => Rest < kBufferCells

\* The types, and the bounds of the read buffer of pump(): it never overflows and
\* always has room when a frame is incomplete (vhp_consumer.cpp:187-216).
BufferInv == TypeOK /\ GuardIdle

\* Messages that arrived whole, behind others that were in order, and that are
\* not yet handed to the ring or shed.
Waiting(c) ==
  /\ c \in Connections
  /\ \E i \in DOMAIN sent[c] :
       /\ i > Cardinality(FramesOf(c))
       /\ \A j \in 1 .. i : sent[c][j].whole /\ sent[c][j].len <= kMaxWirePayload

\* The thread catches up with what a connection has written: no whole message
\* waits in the buffer for bytes that may never come, unless the program stops or
\* read() fails on that connection.
AllParsed ==
  \A c \in 1 .. MaxConnections :
    (Waiting(c) /\ sockets[c].state = "accepted")
      ~> \/ ~ Waiting(c)
         \/ ~ g_running \/ main_pc = "terminated"
         \/ pc = "failed" /\ conn_fd_ = c

\* stop() returns, wherever the thread was: about to block, blocked in
\* accept() or read(), between accept() and the assignment of its result.
StopReturns == main_pc = "stop" ~> main_pc = "stopped"
=============================================================================
