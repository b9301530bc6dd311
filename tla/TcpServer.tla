----------------------------- MODULE TcpServer -----------------------------
(***************************************************************************)
(* The epoll TCP server (src/src/common/net/v1/tcp_server_nonblock_epoll   *)
(* .hpp): the thread that calls start_server and stop_server, the io       *)
(* thread (run_server_loop) with its fd-indexed connections, the clients   *)
(* (tcp_client_block.hpp), and whoever empties the pool.                   *)
(*                                                                         *)
(* A byte is <<connection, position in its stream>>.  recvmmsg on a stream *)
(* reads chunks that the loop handles one by one, so one chunk is one step *)
(* and BATCH does not show.  A ring call is atomic (RingRefinesFifo); one  *)
(* iteration of consume_frames pops `free' and pushes `ready' in one step, *)
(* since what the pool's user does in between commutes with both.          *)
(***************************************************************************)
EXTENDS Integers, Sequences, FiniteSets

CONSTANTS Conns,              \* client connections
          Fds, MAX_FD,        \* descriptors they get; size of the conns array
          kWireSize, BUF_SIZE,
          Capacity,           \* slots of the pool and capacity of both rings
          MaxBytes,           \* bound: bytes sent by each client
          MaxStarts           \* bound: calls of start_server

ASSUME TcpServerAssumption ==
    /\ "none" \notin Conns
    /\ Fds \subseteq Nat \ {0} /\ MAX_FD \in Nat
    /\ kWireSize \in Nat \ {0} /\ BUF_SIZE \in Nat \ {0}
    /\ Capacity \in Nat /\ Capacity > 1
    /\ MaxBytes \in [Conns -> Nat] /\ MaxStarts \in Nat

VARIABLES
    running,                              \* handle.running
    mainPc, starts,
    ioPc, listenFd, wakeFd,               \* handle's descriptors: open or not
    events, hups, cur, chunk,             \* the io thread's locals
    conns,                                \* fd -> in use, bytes of its frame
    state, sent, read, fin,               \* the connections, in the kernel
    backlog, fdConn, watched, edge,       \* accept queue, fd table, epoll set
    free, ready, slots, drops, consumed   \* the pool and its user

handle == <<running, listenFd, wakeFd>>
main == <<mainPc, starts>>
locals == <<events, hups, cur, chunk>>
peers == <<state, sent, fin>>
kernel == <<backlog, fdConn, watched, edge, read>>
pool == <<free, ready, slots, drops, consumed>>
vars == <<handle, main, ioPc, locals, conns, peers, kernel, pool>>

\* listen_fd and wake_fd among the descriptors epoll reports.
Listen == 0
Wake == -1

NoConn == [used |-> FALSE, frame |-> <<>>]
Unread(c) == sent[c] - read[c]
Readable(c) == Unread(c) > 0 \/ fin[c]

Init ==
    /\ running = FALSE /\ listenFd = FALSE /\ wakeFd = FALSE
    /\ mainPc = "down" /\ starts = 0 /\ ioPc = "off"
    /\ events = {} /\ hups = {} /\ cur = 0 /\ chunk = <<>>
    /\ conns = [f \in Fds |-> NoConn]
    /\ state = [c \in Conns |-> "new"] /\ fin = [c \in Conns |-> FALSE]
    /\ sent = [c \in Conns |-> 0] /\ read = [c \in Conns |-> 0]
    /\ backlog = <<>> /\ fdConn = [f \in Fds |-> "none"]
    /\ watched = {} /\ edge = {}
    /\ free = [i \in 1..Capacity |-> i] /\ ready = <<>>
    /\ slots = [i \in 1..Capacity |-> <<>>]
    /\ drops = 0 /\ consumed = 0

\* The io thread moves on and changes nothing else.
Goto(pc) ==
    /\ ioPc' = pc
    /\ UNCHANGED <<handle, locals, conns, state, kernel, pool>>

-----------------------------------------------------------------------------
(* run_server_loop: setting up and cleaning up                             *)

\* Closing listen_fd resets the connections not yet accepted.  The accepted
\* ones stay open, and in conns, whatever happens to the server.
CloseAll ==
    /\ listenFd' = FALSE /\ wakeFd' = FALSE
    /\ backlog' = <<>> /\ watched' = {} /\ edge' = {}
    /\ state' = [c \in Conns |-> IF state[c] = "backlog" THEN "gone" ELSE state[c]]

\* A failing call closes what was opened and clears handle.running.
IoSetupFails ==
    /\ ioPc \in {"listen", "wakeFd"}
    /\ CloseAll
    /\ running' = FALSE
    /\ ioPc' = "done"
    /\ UNCHANGED <<locals, conns, fdConn, read, pool>>

\* The listening socket and the epoll set ...
IoListen ==
    /\ ioPc = "listen"
    /\ listenFd' = TRUE /\ ioPc' = "wakeFd"
    /\ UNCHANGED <<running, wakeFd, locals, conns, state, kernel, pool>>

\* ... then the eventfd.  Adding the two to the epoll set reports what has
\* happened to them before, so this can be one step.
IoWakeFd ==
    /\ ioPc = "wakeFd"
    /\ wakeFd' = TRUE /\ ioPc' = "while"
    /\ edge' = {e \in {Listen} : backlog # <<>>}
    /\ UNCHANGED <<running, listenFd, locals, conns, state, backlog,
                   fdConn, watched, read, pool>>

IoCleanup ==
    /\ ioPc = "cleanup"
    /\ CloseAll
    /\ ioPc' = "done"
    /\ UNCHANGED <<running, locals, conns, fdConn, read, pool>>

-----------------------------------------------------------------------------
(* run_server_loop: waiting and the events                                 *)

\* Fault: for (;;).
KeepWaitingAlways == TRUE

KeepWaiting == running

\* while (handle.running)
IoWhile == ioPc = "while" /\ Goto(IF KeepWaiting THEN "wait" ELSE "cleanup")

\* epoll_wait: every edge since the last call, with what the descriptor's
\* flags are now, or nothing after 500 ms.
IoWait ==
    /\ ioPc = "wait" /\ ioPc' = IF edge = {} THEN "while" ELSE "event"
    /\ events' = edge /\ edge' = {}
    /\ hups' = {f \in edge \cap Fds : fin[fdConn[f]]}
    /\ UNCHANGED <<handle, cur, chunk, conns, state, backlog, fdConn,
                   watched, read, pool>>

\* An error leaves the loop and handle.running set.
IoWaitFails == ioPc = "wait" /\ Goto("cleanup")

IoEventsDone ==
    /\ ioPc = "event" /\ events = {}
    /\ ioPc' = "while" /\ hups' = {} /\ cur' = 0
    /\ UNCHANGED <<handle, events, chunk, conns, state, kernel, pool>>

IoEventWake ==
    /\ ioPc = "event" /\ Wake \in events
    /\ events' = events \ {Wake}
    /\ running' = FALSE
    /\ UNCHANGED <<listenFd, wakeFd, ioPc, hups, cur, chunk, conns,
                   state, kernel, pool>>

\* listen_fd, or a client's descriptor without EPOLLRDHUP, EPOLLHUP, EPOLLERR.
IoEventRead(e) ==
    /\ ioPc = "event" /\ e \in events \ (hups \cup {Wake})
    /\ events' = events \ {e}
    /\ IF e = Listen THEN ioPc' = "accept" /\ UNCHANGED cur
                       ELSE ioPc' = "recv" /\ cur' = e
    /\ UNCHANGED <<handle, hups, chunk, conns, state, kernel, pool>>

\* close(fd) and reset_conn(fd); what the client sent and was not read is lost.
CloseConn(f) ==
    /\ state' = [state EXCEPT ![fdConn[f]] = "gone"]
    /\ fdConn' = [fdConn EXCEPT ![f] = "none"]
    /\ conns' = [conns EXCEPT ![f] = NoConn]
    /\ watched' = watched \ {f} /\ edge' = edge \ {f}

IoEventHup(f) ==
    /\ ioPc = "event" /\ f \in events \cap hups
    /\ events' = events \ {f}
    /\ CloseConn(f)
    /\ UNCHANGED <<handle, ioPc, hups, cur, chunk, backlog,
                   read, pool>>

-----------------------------------------------------------------------------
(* The accept loop                                                         *)

\* accept4 takes the lowest free descriptor.
NextFd(f) == fdConn[f] = "none" /\ \A g \in Fds : fdConn[g] = "none" => f <= g

\* init_conn refuses a descriptor outside the array, and epoll_ctl may fail:
\* the connection is closed again.
IoAccept(fd, added) ==
    /\ ioPc = "accept" /\ backlog # <<>> /\ NextFd(fd)
    /\ LET c == Head(backlog)
       IN  IF added /\ fd < MAX_FD
           THEN /\ state' = [state EXCEPT ![c] = "open"]
                /\ fdConn' = [fdConn EXCEPT ![fd] = c]
                /\ conns' = [conns EXCEPT ![fd] = [used |-> TRUE, frame |-> <<>>]]
                /\ watched' = watched \cup {fd}
                /\ edge' = edge \cup {f \in {fd} : Readable(c)}
           ELSE /\ state' = [state EXCEPT ![c] = "gone"]
                /\ UNCHANGED <<fdConn, conns, watched, edge>>
    /\ backlog' = Tail(backlog)
    /\ UNCHANGED <<handle, ioPc, locals, read, pool>>

\* EAGAIN ends the loop.  So does an error, when no descriptor is free or for
\* another reason: what is still in the backlog waits for the next client.
IoAccepted == ioPc = "accept" /\ Goto("event")

-----------------------------------------------------------------------------
(* The recv loop and consume_frames                                        *)

\* Fault: one recvmmsg per event, on an edge-triggered descriptor.
RecvAgainOnce == "event"

\* `continue' until EAGAIN.
RecvAgain == "recv"

Lesser(m, n) == IF m <= n THEN m ELSE n
Stream(c, from, n) == [i \in 1..n |-> <<c, from + i>>]

IoRecv ==
    /\ ioPc = "recv"
    /\ LET c == fdConn[cur]
           n == Lesser(Unread(c), BUF_SIZE)
       IN  /\ n > 0
           /\ chunk' = IF conns[cur].used THEN Stream(c, read[c], n) ELSE <<>>
           /\ read' = [read EXCEPT ![c] = @ + n]
    /\ ioPc' = "consume"
    /\ UNCHANGED <<handle, events, hups, cur, conns, state, backlog,
                   fdConn, watched, edge, pool>>

IoRecvDrained ==
    /\ ioPc = "recv" /\ ~Readable(fdConn[cur])
    /\ Goto("event")

\* The end of the stream.  The code expects n == 0; recvmmsg may instead
\* return messages of length 0, and does so again at every call of the loop,
\* which has no way out then.
IoRecvEof ==
    /\ ioPc = "recv" /\ Unread(fdConn[cur]) = 0 /\ fin[fdConn[cur]]
    /\ \/ ioPc' = "event" /\ CloseConn(cur)
       \/ ioPc' = "spin" /\ UNCHANGED <<state, fdConn, conns, watched, edge>>
    /\ UNCHANGED <<handle, locals, backlog, read, pool>>

IoRecvFails ==
    /\ ioPc = "recv"
    /\ ioPc' = "event"
    /\ CloseConn(cur)
    /\ UNCHANGED <<handle, locals, backlog, read, pool>>

IoConsumed == ioPc = "consume" /\ chunk = <<>> /\ Goto(RecvAgain)

\* Fault: memcpy to the start of the frame.
FillFromStart(have, bytes) == bytes \o have

\* The bytes go behind the ones the frame has.
Fill(have, bytes) == have \o bytes

\* Fault: the index is not popped.
PeekFree == UNCHANGED free

PopFree == free' = Tail(free)

\* Fault: a frame that finds no slot is not counted.
DropSilently == UNCHANGED <<free, ready, slots, drops>>

DropFrame == drops' = drops + 1 /\ UNCHANGED <<free, ready, slots>>

\* A complete frame goes to a free slot and its index to `ready', which has
\* room for every index.
Enqueue(frame) ==
    IF free = <<>> THEN DropFrame
    ELSE /\ PopFree
         /\ slots' = [slots EXCEPT ![Head(free)] = frame]
         /\ ready' = Append(ready, Head(free))
         /\ UNCHANGED drops

IoConsume ==
    /\ ioPc = "consume" /\ chunk # <<>>
    /\ LET have == conns[cur].frame
           take == Lesser(Len(chunk), kWireSize - Len(have))
           frame == Fill(have, SubSeq(chunk, 1, take))
       IN  /\ chunk' = SubSeq(chunk, take + 1, Len(chunk))
           /\ IF Len(frame) = kWireSize
              THEN Enqueue(frame) /\ conns' = [conns EXCEPT ![cur].frame = <<>>]
              ELSE /\ conns' = [conns EXCEPT ![cur].frame = frame]
                   /\ UNCHANGED <<free, ready, slots, drops>>
    /\ UNCHANGED <<handle, ioPc, events, hups, cur, state, kernel, consumed>>

\* The user of the pool takes a frame and gives its slot back.
Consume ==
    /\ ready # <<>>
    /\ ready' = Tail(ready) /\ free' = Append(free, Head(ready))
    /\ consumed' = consumed + 1
    /\ UNCHANGED <<handle, main, ioPc, locals, conns, peers, kernel, slots, drops>>

-----------------------------------------------------------------------------
(* start_server and stop_server, called by one thread                      *)

\* It returns false while handle.running is set.  Assigning to a std::thread
\* that was not joined ends the program.
Start ==
    /\ mainPc \in {"down", "up"} /\ ~running
    /\ starts < MaxStarts
    /\ starts' = starts + 1
    /\ IF ioPc = "off"
       THEN running' = TRUE /\ ioPc' = "listen" /\ mainPc' = "up"
       ELSE mainPc' = "terminated" /\ ioPc' = "off" /\ UNCHANGED running
    /\ UNCHANGED <<listenFd, wakeFd, locals, conns, peers, kernel, pool>>

\* Returns at once when handle.running was already false.
Stop ==
    /\ mainPc = "up"
    /\ mainPc' = IF running THEN "wake?" ELSE "down"
    /\ running' = FALSE
    /\ UNCHANGED <<listenFd, wakeFd, starts, ioPc, locals, conns, peers,
                   kernel, pool>>

\* handle.wake_fd is a plain int that the io thread also writes.
StopReadWake ==
    /\ mainPc = "wake?"
    /\ mainPc' = IF wakeFd THEN "write" ELSE "join"
    /\ UNCHANGED <<handle, starts, ioPc, locals, conns, peers, kernel, pool>>

StopWrite ==
    /\ mainPc = "write"
    /\ mainPc' = "join"
    /\ edge' = IF wakeFd THEN edge \cup {Wake} ELSE edge
    /\ UNCHANGED <<handle, starts, ioPc, locals, conns, peers, backlog, fdConn,
                   watched, read, pool>>

StopJoin ==
    /\ mainPc = "join" /\ ioPc = "done"
    /\ mainPc' = "down" /\ ioPc' = "off"
    /\ UNCHANGED <<handle, starts, locals, conns, peers, kernel, pool>>

-----------------------------------------------------------------------------
(* The clients                                                             *)

ClientConnect(c) ==
    /\ state[c] = "new" /\ listenFd
    /\ state' = [state EXCEPT ![c] = "backlog"]
    /\ backlog' = Append(backlog, c)
    /\ edge' = edge \cup {e \in {Listen} : ioPc # "wakeFd"}
    /\ UNCHANGED <<handle, main, ioPc, locals, conns, sent, fin, fdConn,
                   watched, read, pool>>

EdgeOf(c) == {f \in watched : fdConn[f] = c}

\* send_all hands its bytes to the kernel in any number of parts ...
ClientSend(c) ==
    /\ state[c] \in {"backlog", "open"} /\ ~fin[c]
    /\ sent[c] < MaxBytes[c]
    /\ sent' = [sent EXCEPT ![c] = @ + 1]
    /\ edge' = edge \cup EdgeOf(c)
    /\ UNCHANGED <<handle, main, ioPc, locals, conns, state, fin, backlog,
                   fdConn, watched, read, pool>>

\* ... and a client may end anywhere, also inside a frame.
ClientClose(c) ==
    /\ state[c] \in {"backlog", "open"} /\ ~fin[c]
    /\ fin' = [fin EXCEPT ![c] = TRUE]
    /\ edge' = edge \cup EdgeOf(c)
    /\ UNCHANGED <<handle, main, ioPc, locals, conns, state, sent, backlog,
                   fdConn, watched, read, pool>>

-----------------------------------------------------------------------------
Io ==
    /\ \/ IoListen \/ IoWakeFd \/ IoCleanup
       \/ IoWhile \/ IoWait \/ IoEventsDone \/ IoEventWake
       \/ \E e \in Fds \cup {Listen} : IoEventRead(e)
       \/ \E f \in Fds : IoEventHup(f)
       \/ \E fd \in Fds, added \in BOOLEAN : IoAccept(fd, added)
       \/ IoAccepted
       \/ IoRecv \/ IoRecvDrained \/ IoRecvEof
       \/ IoConsumed \/ IoConsume
    /\ UNCHANGED <<main, sent, fin>>

IoFails == (IoSetupFails \/ IoWaitFails \/ IoRecvFails) /\ UNCHANGED <<main, sent, fin>>

Stopping == StopReadWake \/ StopWrite \/ StopJoin

Client == \E c \in Conns : ClientConnect(c) \/ ClientSend(c) \/ ClientClose(c)

Next == Io \/ IoFails \/ Start \/ Stop \/ Stopping \/ Consume \/ Client

\* The operating system runs both threads; no call has to fail.  Nobody is
\* obliged to call start_server or stop_server, to empty the pool, or to send.
Spec == Init /\ [][Next]_vars /\ WF_vars(Io) /\ WF_vars(Stopping)

-----------------------------------------------------------------------------
Whole(frame) ==
    \E c \in Conns : \E k \in 0..MaxBytes[c] : frame = Stream(c, k * kWireSize, kWireSize)

\* However the kernel cuts the streams into chunks, and whatever descriptor a
\* connection inherits from another, a frame handed on is kWireSize
\* consecutive bytes of one connection, cut at a frame boundary, and the
\* frames of a connection are in order.
FramesWhole ==
    /\ \A i \in 1..Len(ready) : Whole(slots[ready[i]])
    /\ \A i, j \in 1..Len(ready) :
         LET a == slots[ready[i]][1]
             b == slots[ready[j]][1]
         IN  i < j /\ a[1] = b[1] => a[2] < b[2]

\* Bytes of c that were read and not yet looked at.
Pending(c) == IF ioPc = "consume" /\ fdConn[cur] = c THEN Len(chunk) ELSE 0

\* The complete frames read from the connections, each as its connection and
\* its number there.
FramesRead ==
    UNION {{c} \X (1..((read[c] - Pending(c)) \div kWireSize)) : c \in Conns}

\* Every complete frame read from any connection was handed on or counted as
\* a drop, once.  (Bytes that do not complete a frame go with their
\* connection.)
FramesAccounted == Cardinality(FramesRead) = Len(ready) + consumed + drops

\* Over starts and stops of the server, every slot is either free or ready.
SlotsConserved ==
    LET all == free \o ready
    IN  Len(all) = Capacity /\ {all[i] : i \in 1..Len(all)} = 1..Capacity

\* Descriptors are edge-triggered: a connection with something to read is
\* never left without an edge when the server goes back to waiting, also when
\* the bytes came before it was accepted.
NoConnForgotten ==
    ioPc \in {"while", "wait"} =>
        \A f \in watched : Readable(fdConn[f]) => f \in edge

\* The loops that empty a descriptor end at EAGAIN and do not look at
\* handle.running: the one that reads a connection whose client keeps sending,
\* and the one that accepts while clients keep connecting.
DrainsForEver == <>[](ioPc \in {"recv", "consume"}) \/ <>[](ioPc = "accept")

\* stop_server returns, whether it meets the io thread before its descriptors
\* exist, waiting, or cleaning up, and however many clients come and send.
\* Only these keep it in join() for ever: a connection or the backlog that is
\* never found empty once the io thread began to drain it (DrainsForEver), and
\* the end of a stream reported as messages of length 0 (IoRecvEof).
StopReturns ==
    \/ (mainPc \in {"wake?", "write", "join"}) ~> (mainPc = "down" \/ ioPc = "spin")
    \/ DrainsForEver

\* stop_server stops the server and joins its thread.
StopJoins == mainPc = "down" => ioPc = "off"
=============================================================================
