-------------------------- MODULE TcpServerProofs --------------------------
(***************************************************************************)
(* Proofs about TcpServer, for every set of clients, frame size, buffer    *)
(* size, pool and number of bytes.  The invariant of the whole server is   *)
(* ServerInv: what the threads can be doing (Threads), what the descriptor *)
(* table, epoll and the conns array say of each other (Table), where the   *)
(* edges are (EdgeKept), what of each stream has been looked at (Streams)  *)
(* and where the frames handed on come from (Handed).                      *)
(***************************************************************************)
EXTENDS TcpServer, Basics

Bytes == Conns \X Nat
Slot == 1..Capacity
Places == {"listen", "wakeFd", "while", "wait", "event", "accept", "recv", "consume",
           "spin", "cleanup", "done", "off"}
\* Where the io thread has events in hand, and where it has one of a connection.
Handling == {"event", "accept", "recv", "consume", "spin"}
Reading == {"recv", "consume", "spin"}

ServerType ==
    /\ state \in [Conns -> {"new", "backlog", "open", "gone"}]
    /\ sent \in [Conns -> Nat] /\ read \in [Conns -> Nat] /\ fin \in [Conns -> BOOLEAN]
    /\ backlog \in Seq(Conns) /\ fdConn \in [Fds -> Conns \cup {"none"}]
    /\ conns \in [Fds -> [used : BOOLEAN, frame : Seq(Bytes)]]
    /\ watched \subseteq Fds
    /\ edge \subseteq Fds \cup {Listen, Wake} /\ events \subseteq Fds \cup {Listen, Wake}
    /\ chunk \in Seq(Bytes)
    /\ free \in Seq(Slot) /\ ready \in Seq(Slot) /\ slots \in [Slot -> Seq(Bytes)]
    /\ drops \in Nat /\ consumed \in Nat
    /\ ioPc \in Places

\* The threads.  A wake-up is only ever seen by an io thread that stop_server
\* joins, and one that nobody will join has cleaned up.
Threads ==
    /\ mainPc \in {"down", "up", "wake?", "write", "join", "terminated"}
    /\ running => mainPc = "up"
    /\ (mainPc \in {"down", "up"} /\ ~running) => ioPc \in {"off", "done"}
    /\ mainPc = "terminated" => ioPc = "off"
    /\ Wake \in edge \cup events => mainPc = "join"
    /\ ioPc \notin Handling => events = {}
    /\ ioPc # "consume" => chunk = <<>>
    /\ ioPc \in {"off", "listen", "wakeFd", "done"} => watched = {} /\ ~wakeFd
    /\ ioPc \in {"off", "done"} => Wake \notin edge

\* The descriptor table, epoll's set and the server's own array.
Table ==
    /\ \A f, g \in Fds : fdConn[f] = fdConn[g] /\ fdConn[f] # "none" => f = g
    /\ \A f \in Fds : fdConn[f] # "none" => state[fdConn[f]] = "open" /\ conns[f].used
    /\ \A f \in Fds : fdConn[f] = "none" => f \notin watched
    /\ (edge \cup events) \cap Fds \subseteq watched
    /\ ioPc \in Reading => cur \in watched /\ cur \notin events
    /\ \A i \in 1..Len(backlog) : state[backlog[i]] = "backlog"
    /\ \A i, j \in 1..Len(backlog) : backlog[i] = backlog[j] => i = j
    /\ \A c \in Conns : state[c] \in {"new", "backlog"} => read[c] = 0

\* NoConnForgotten, also while events are being handled.
EdgeKept ==
    \A f \in watched :
        Readable(fdConn[f]) =>
            f \in edge \/ f \in events \/ (ioPc \in Reading /\ f = cur)

\* The bytes of c that consume_frames has looked at, and those of them that
\* belong to complete frames.
Done(c) == read[c] - Pending(c)
Complete(c) == Done(c) \div kWireSize
Cut(c) == kWireSize * Complete(c)

\* What is put together and what is still to be looked at continue the stream.
Streams ==
    /\ \A c \in Conns : read[c] <= sent[c] /\ sent[c] <= MaxBytes[c] /\ Done(c) \in Nat
    /\ \A f \in Fds : fdConn[f] # "none" =>
         conns[f].frame = Stream(fdConn[f], Cut(fdConn[f]), Done(fdConn[f]) - Cut(fdConn[f]))
    /\ ioPc = "consume" => chunk = Stream(fdConn[cur], Done(fdConn[cur]), Len(chunk))

\* Frames handed on are complete ones, and older than the one put together.
Handed ==
    /\ FramesWhole
    /\ \A i \in 1..Len(ready) :
         slots[ready[i]][1][2] <= Cut(slots[ready[i]][1][1])

\* No slot is in two places.
Apart ==
    /\ \A i, j \in 1..Len(free) : free[i] = free[j] => i = j
    /\ \A i, j \in 1..Len(ready) : ready[i] = ready[j] => i = j
    /\ \A i \in 1..Len(free), j \in 1..Len(ready) : free[i] # ready[j]

ServerInv ==
    /\ ServerType /\ Threads /\ Table /\ EdgeKept /\ Streams /\ Handed
    /\ Apart /\ SlotsConserved /\ IsFiniteSet(FramesRead) /\ FramesAccounted

\* The lesser of two numbers.
LEMMA LesserOf ==
    ASSUME NEW a \in Int, NEW b \in Int
    PROVE  Lesser(a, b) \in Int /\ Lesser(a, b) = IF a <= b THEN a ELSE b
  BY DEF Lesser

LEMMA Constants ==
    /\ "none" \notin Conns
    /\ kWireSize \in Nat \ {0} /\ BUF_SIZE \in Nat \ {0} /\ Capacity \in Nat \ {0}
    /\ Fds \subseteq Nat \ {0} /\ Listen \notin Fds /\ Wake \notin Fds /\ Listen # Wake
    /\ MaxBytes \in [Conns -> Nat]
<1>1. Fds \subseteq Nat \ {0} /\ Listen \notin Fds /\ Wake \notin Fds /\ Listen # Wake
  BY TcpServerAssumption DEF Listen, Wake
<1> QED BY <1>1, TcpServerAssumption

\* A piece of a stream, two that follow each other, and one cut in two.
LEMMA StreamFacts ==
    ASSUME NEW c \in Conns, NEW a \in Nat, NEW n \in Nat
    PROVE  /\ Stream(c, a, n) \in Seq(Bytes) /\ Len(Stream(c, a, n)) = n
           /\ \A i \in 1..n : Stream(c, a, n)[i] = <<c, a + i>>
<1>1. \A i \in 1..n : <<c, a + i>> \in Bytes
  BY DEF Bytes
<1> QED BY <1>1 DEF Stream

LEMMA StreamJoin ==
    ASSUME NEW c \in Conns, NEW a \in Nat, NEW m \in Nat, NEW n \in Nat
    PROVE  Stream(c, a, m) \o Stream(c, a + m, n) = Stream(c, a, m + n)
<1> DEFINE s == Stream(c, a, m)
           t == Stream(c, a + m, n)
           u == Stream(c, a, m + n)
<1>1. s \in Seq(Bytes) /\ Len(s) = m /\ \A i \in 1..m : s[i] = <<c, a + i>>
  BY StreamFacts, Zenon
<1>2. t \in Seq(Bytes) /\ Len(t) = n /\ \A i \in 1..n : t[i] = <<c, (a + m) + i>>
  <2>1. a + m \in Nat
    OBVIOUS
  <2> QED BY <2>1, StreamFacts, Zenon
<1>3. u \in Seq(Bytes) /\ Len(u) = m + n /\ \A i \in 1..(m + n) : u[i] = <<c, a + i>>
  <2>1. m + n \in Nat
    OBVIOUS
  <2> QED BY <2>1, StreamFacts, Zenon
<1> HIDE DEF s, t, u
<1>4. /\ s \o t \in Seq(Bytes) /\ Len(s \o t) = m + n
      /\ \A i \in 1..(m + n) : (s \o t)[i] = IF i <= m THEN s[i] ELSE t[i - m]
  BY <1>1, <1>2, ConcatPlaces, Zenon
<1>5. ASSUME NEW i \in 1..(m + n) PROVE (s \o t)[i] = u[i]
  <2>1. CASE i <= m
    <3>1. i \in 1..m
      BY <2>1
    <3> QED BY <1>1, <1>3, <1>4, <2>1, <3>1, Zenon
  <2>2. CASE ~(i <= m)
    <3>1. i - m \in 1..n /\ (a + m) + (i - m) = a + i
      BY <2>2
    <3>2. t[i - m] = <<c, a + i>>
      BY <1>2, <3>1
    <3> QED BY <1>3, <1>4, <2>2, <3>2, Zenon
  <2> QED BY <2>1, <2>2, Zenon
<1>6. s \o t = u
  BY <1>3, <1>4, <1>5, SameSeq, Zenon
<1> QED BY <1>6 DEF s, t, u

LEMMA StreamCut ==
    ASSUME NEW c \in Conns, NEW a \in Nat, NEW n \in Nat, NEW k \in 0..n
    PROVE  /\ SubSeq(Stream(c, a, n), 1, k) = Stream(c, a, k)
           /\ SubSeq(Stream(c, a, n), k + 1, n) = Stream(c, a + k, n - k)
<1> DEFINE s == Stream(c, a, n)
           t == Stream(c, a, k)
           u == Stream(c, a + k, n - k)
<1>1. s \in Seq(Bytes) /\ Len(s) = n /\ \A i \in 1..n : s[i] = <<c, a + i>>
  BY StreamFacts, Zenon
<1>2. t \in Seq(Bytes) /\ Len(t) = k /\ \A i \in 1..k : t[i] = <<c, a + i>>
  <2>1. k \in Nat
    OBVIOUS
  <2> QED BY <2>1, StreamFacts, Zenon
<1>3. u \in Seq(Bytes) /\ Len(u) = n - k /\ \A i \in 1..(n - k) : u[i] = <<c, (a + k) + i>>
  <2>1. a + k \in Nat /\ n - k \in Nat
    OBVIOUS
  <2> QED BY <2>1, StreamFacts, Zenon
<1> HIDE DEF s, t, u
<1>4. /\ SubSeq(s, 1, k) \in Seq(Bytes) /\ Len(SubSeq(s, 1, k)) = k
      /\ \A i \in 1..k : SubSeq(s, 1, k)[i] = s[i]
  BY <1>1
<1>5. /\ SubSeq(s, k + 1, n) \in Seq(Bytes) /\ Len(SubSeq(s, k + 1, n)) = n - k
      /\ \A i \in 1..(n - k) : SubSeq(s, k + 1, n)[i] = s[k + i]
  BY <1>1
<1>6. SubSeq(s, 1, k) = t
  <2>1. \A i \in 1..k : SubSeq(s, 1, k)[i] = t[i]
    <3> TAKE i \in 1..k
    <3>1. i \in 1..n
      OBVIOUS
    <3> QED BY <1>1, <1>2, <1>4, <3>1, Zenon
  <2> QED BY <1>2, <1>4, <2>1, SameSeq
<1>7. SubSeq(s, k + 1, n) = u
  <2>1. ASSUME NEW i \in 1..(n - k) PROVE SubSeq(s, k + 1, n)[i] = u[i]
    <3>1. k + i \in 1..n /\ a + (k + i) = (a + k) + i
      OBVIOUS
    <3> QED BY <1>1, <1>3, <1>5, <3>1, Zenon
  <2> QED BY <1>3, <1>5, <2>1, SameSeq
<1> QED BY <1>6, <1>7 DEF s, t, u

\* A sequence as long as none.
LEMMA StreamNone == \A c \in Conns, a \in Nat : Stream(c, a, 0) = <<>>
<1> TAKE c \in Conns, a \in Nat
<1>1. Stream(c, a, 0) \in Seq(Bytes) /\ Len(Stream(c, a, 0)) = 0
  BY StreamFacts
<1> QED BY <1>1

Quiet == UNCHANGED <<main, sent, fin>>

\* The steps of the server, its clients and its user, one by one.
LEMMA ServerSteps ==
    ASSUME [Next]_vars
    PROVE  \/ /\ \/ IoSetupFails \/ IoListen \/ IoWakeFd \/ IoCleanup \/ IoWhile \/ IoWait
                 \/ IoWaitFails \/ IoEventsDone \/ IoEventWake
                 \/ \E e \in Fds \cup {Listen} : IoEventRead(e)
                 \/ \E f \in Fds : IoEventHup(f)
                 \/ \E fd \in Fds, added \in BOOLEAN : IoAccept(fd, added)
                 \/ IoAccepted \/ IoRecv \/ IoRecvDrained \/ IoRecvEof \/ IoRecvFails
                 \/ IoConsumed \/ IoConsume
              /\ Quiet
           \/ Start \/ Stop \/ StopReadWake \/ StopWrite \/ StopJoin \/ Consume
           \/ (\E c \in Conns : ClientConnect(c))
           \/ (\E c \in Conns : ClientSend(c))
           \/ (\E c \in Conns : ClientClose(c))
           \/ UNCHANGED vars
  BY DEF Next, Io, IoFails, Stopping, Client, Quiet

\* What a connection's counts are.
LEMMA CountFacts ==
    ASSUME ServerType, Streams, NEW c \in Conns
    PROVE  /\ Done(c) \in Nat /\ Complete(c) \in Nat /\ Cut(c) \in Nat
           /\ Cut(c) <= Done(c) /\ Done(c) < Cut(c) + kWireSize
           /\ read[c] \in Nat /\ Done(c) + Pending(c) = read[c] /\ Pending(c) \in Nat
<1>1. Done(c) \in Nat
  BY DEF Streams
<1>2. read[c] \in Nat /\ Pending(c) \in Nat
  BY DEF ServerType, Pending
<1>3. Done(c) + Pending(c) = read[c]
  BY <1>2 DEF Done
<1> QED BY <1>1, <1>2, <1>3, Constants, DivFacts DEF Complete, Cut

\* The connection that the io thread reads.
LEMMA CurFacts ==
    ASSUME ServerType, Table, ioPc \in Reading
    PROVE  /\ cur \in Fds /\ fdConn[cur] \in Conns
           /\ conns[cur].used /\ state[fdConn[cur]] = "open"
           /\ \A f \in Fds : fdConn[f] = fdConn[cur] => f = cur
<1>1. cur \in Fds /\ fdConn[cur] # "none"
  BY DEF ServerType, Table
<1>2. fdConn[cur] \in Conns
  BY <1>1 DEF ServerType
<1> QED BY <1>1, <1>2 DEF Table

\* What one round of consume_frames takes: cut is where the frame begins in
\* the stream of c, d where the n bytes at hand begin.
LEMMA TakeFacts ==
    ASSUME NEW c \in Conns, NEW cut \in Nat, NEW d \in Nat, NEW n \in Nat \ {0},
           cut <= d, d < cut + kWireSize,
           NEW take \in Int, take = Lesser(n, kWireSize - (d - cut))
    PROVE  /\ take \in 1..n /\ d - cut + take <= kWireSize
           /\ Fill(Stream(c, cut, d - cut), SubSeq(Stream(c, d, n), 1, take))
                = Stream(c, cut, d - cut + take)
           /\ SubSeq(Stream(c, d, n), take + 1, n) = Stream(c, d + take, n - take)
           /\ Len(Stream(c, cut, d - cut + take)) = d - cut + take
           /\ Stream(c, cut, d - cut + take) \in Seq(Bytes)
<1>1. PICK L \in Nat : L = d - cut
  OBVIOUS
<1>2. kWireSize \in Nat /\ L < kWireSize /\ cut + L = d
  BY <1>1, Constants
<1>3. take = IF n <= kWireSize - L THEN n ELSE kWireSize - L
  <2>1. kWireSize - L \in Int /\ n \in Int
    BY <1>2
  <2> QED BY <1>1, <2>1, LesserOf, Zenon
<1>4. take \in 1..n /\ take \in 0..n /\ take \in Nat /\ L + take <= kWireSize
      /\ L + take \in Nat
  BY <1>2, <1>3
<1>5. /\ SubSeq(Stream(c, d, n), 1, take) = Stream(c, d, take)
      /\ SubSeq(Stream(c, d, n), take + 1, n) = Stream(c, d + take, n - take)
  <2>1. \A m \in Nat : \A k \in 0..m :
           /\ SubSeq(Stream(c, d, m), 1, k) = Stream(c, d, k)
           /\ SubSeq(Stream(c, d, m), k + 1, m) = Stream(c, d + k, m - k)
    BY StreamCut, Zenon
  <2>2. n \in Nat
    OBVIOUS
  <2> QED BY <1>4, <2>1, <2>2, Zenon
<1>6. Stream(c, cut, L) \o Stream(c, d, take) = Stream(c, cut, L + take)
  <2>1. \A k \in Nat : Stream(c, cut, L) \o Stream(c, cut + L, k) = Stream(c, cut, L + k)
    BY StreamJoin, Zenon
  <2> QED BY <1>2, <1>4, <2>1, Zenon
<1>7. Stream(c, cut, L + take) \in Seq(Bytes) /\ Len(Stream(c, cut, L + take)) = L + take
  BY <1>4, StreamFacts
<1> QED BY <1>1, <1>4, <1>5, <1>6, <1>7, Zenon DEF Fill

\* What it does to the server's state.
LEMMA ConsumeFacts ==
    ASSUME ServerType, Table, Streams, IoConsume
    PROVE  \E c \in Conns, take \in 1..Len(chunk), frame \in Seq(Bytes) :
             /\ c = fdConn[cur] /\ cur \in Fds
             /\ frame = Stream(c, Cut(c), Done(c) - Cut(c) + take)
             /\ Done(c) - Cut(c) + take <= kWireSize
             /\ Len(frame) = Done(c) - Cut(c) + take
             /\ chunk' = Stream(c, Done(c) + take, Len(chunk) - take)
             /\ IF Len(frame) = kWireSize
                THEN Enqueue(frame) /\ conns' = [conns EXCEPT ![cur].frame = <<>>]
                ELSE /\ conns' = [conns EXCEPT ![cur].frame = frame]
                     /\ UNCHANGED <<free, ready, slots, drops>>
<1>1. fdConn[cur] \in Conns /\ cur \in Fds /\ ioPc = "consume"
  BY CurFacts DEF IoConsume, Reading
<1>2. PICK c \in Conns : c = fdConn[cur]
  BY <1>1
<1>3. PICK d \in Nat : d = Done(c)
  BY CountFacts
<1>4. PICK cut \in Nat : cut = Cut(c)
  BY CountFacts
<1>5. cut <= d /\ d < cut + kWireSize
  BY <1>3, <1>4, CountFacts
<1>6. PICK n \in Nat \ {0} : n = Len(chunk)
  <2>1. chunk \in Seq(Bytes) /\ chunk # <<>>
    BY DEF ServerType, IoConsume
  <2> QED BY <2>1
<1>7. PICK have : have = conns[cur].frame
  OBVIOUS
<1>8. have = Stream(c, cut, d - cut) /\ chunk = Stream(c, d, n)
  BY <1>1, <1>2, <1>3, <1>4, <1>6, <1>7, Constants DEF Streams
<1>9. Len(have) = d - cut
  <2>1. d - cut \in Nat
    BY <1>5
  <2> QED BY <1>8, <2>1, StreamFacts, Zenon
<1>10. PICK take \in Int : take = Lesser(n, kWireSize - (d - cut))
  <2>1. n \in Int /\ kWireSize - (d - cut) \in Int
    BY Constants
  <2> QED BY <2>1, LesserOf
<1>11. PICK frame : frame = Stream(c, cut, d - cut + take)
  OBVIOUS
<1>12. /\ take \in 1..n /\ d - cut + take <= kWireSize
       /\ Fill(have, SubSeq(chunk, 1, take)) = frame
       /\ SubSeq(chunk, take + 1, n) = Stream(c, d + take, n - take)
       /\ Len(frame) = d - cut + take /\ frame \in Seq(Bytes)
  <2>1. /\ take \in 1..n /\ d - cut + take <= kWireSize
        /\ Fill(Stream(c, cut, d - cut), SubSeq(Stream(c, d, n), 1, take))
             = Stream(c, cut, d - cut + take)
        /\ SubSeq(Stream(c, d, n), take + 1, n) = Stream(c, d + take, n - take)
        /\ Len(Stream(c, cut, d - cut + take)) = d - cut + take
        /\ Stream(c, cut, d - cut + take) \in Seq(Bytes)
    <3>1. \A x \in Int : x = Lesser(n, kWireSize - (d - cut)) =>
            /\ x \in 1..n /\ d - cut + x <= kWireSize
            /\ Fill(Stream(c, cut, d - cut), SubSeq(Stream(c, d, n), 1, x))
                 = Stream(c, cut, d - cut + x)
            /\ SubSeq(Stream(c, d, n), x + 1, n) = Stream(c, d + x, n - x)
            /\ Len(Stream(c, cut, d - cut + x)) = d - cut + x
            /\ Stream(c, cut, d - cut + x) \in Seq(Bytes)
      BY <1>5, TakeFacts, Zenon
    <3> QED BY <1>10, <3>1, Zenon
  <2> QED BY <1>8, <1>11, <2>1, Zenon
<1>13. /\ chunk' = SubSeq(chunk, take + 1, n)
       /\ IF Len(frame) = kWireSize
          THEN Enqueue(frame) /\ conns' = [conns EXCEPT ![cur].frame = <<>>]
          ELSE /\ conns' = [conns EXCEPT ![cur].frame = frame]
               /\ UNCHANGED <<free, ready, slots, drops>>
  <2>1. take = Lesser(Len(chunk), kWireSize - Len(conns[cur].frame))
    BY <1>6, <1>7, <1>9, <1>10
  <2>2. frame = Fill(conns[cur].frame, SubSeq(chunk, 1, take))
    BY <1>7, <1>12
  <2> QED BY <1>6, <2>1, <2>2, Zenon DEF IoConsume
<1> QED BY <1>1, <1>2, <1>3, <1>4, <1>6, <1>11, <1>12, <1>13, Zenon

ConnType == [used : BOOLEAN, frame : Seq(Bytes)]

\* Closing a connection, and accepting one.
LEMMA CloseConnType ==
    ASSUME ServerType, Table, NEW f \in watched, CloseConn(f)
    PROVE  /\ f \in Fds /\ fdConn[f] \in Conns
           /\ state' \in [Conns -> {"new", "backlog", "open", "gone"}]
           /\ fdConn' \in [Fds -> Conns \cup {"none"}]
           /\ conns' \in [Fds -> ConnType]
           /\ watched' \subseteq Fds /\ edge' \subseteq Fds \cup {Listen, Wake}
<1>1. f \in Fds /\ fdConn[f] \in Conns
  BY DEF ServerType, Table
<1>2. NoConn \in ConnType
  BY DEF NoConn, ConnType
<1>3. state' \in [Conns -> {"new", "backlog", "open", "gone"}]
  BY <1>1 DEF ServerType, CloseConn
<1>4. fdConn' \in [Fds -> Conns \cup {"none"}]
  BY <1>1 DEF ServerType, CloseConn
<1>5. conns' \in [Fds -> ConnType]
  BY <1>1, <1>2 DEF ServerType, CloseConn, ConnType
<1> QED BY <1>1, <1>3, <1>4, <1>5 DEF ServerType, CloseConn

Accepted(c, fd) ==
    /\ state' = [state EXCEPT ![c] = "open"]
    /\ fdConn' = [fdConn EXCEPT ![fd] = c]
    /\ conns' = [conns EXCEPT ![fd] = [used |-> TRUE, frame |-> <<>>]]
    /\ watched' = watched \cup {fd}
    /\ edge' = edge \cup {f \in {fd} : Readable(c)}
Refused(c) == state' = [state EXCEPT ![c] = "gone"] /\ UNCHANGED <<fdConn, conns, watched, edge>>

LEMMA AcceptFacts ==
    ASSUME ServerType, Table, NEW fd \in Fds, NEW added \in BOOLEAN, IoAccept(fd, added)
    PROVE  \E c \in Conns :
             /\ c = Head(backlog) /\ state[c] = "backlog" /\ read[c] = 0
             /\ backlog # <<>> /\ backlog' = Tail(backlog) /\ backlog' \in Seq(Conns)
             /\ Accepted(c, fd) \/ Refused(c)
             /\ fdConn[fd] = "none"
<1>1. /\ backlog \in Seq(Conns) /\ backlog # <<>> /\ Head(backlog) \in Conns
      /\ Tail(backlog) \in Seq(Conns) /\ Head(backlog) = backlog[1] /\ 1 \in 1..Len(backlog)
  BY DEF ServerType, IoAccept
<1>2. PICK c \in Conns : c = Head(backlog)
  BY <1>1
<1>3. state[c] = "backlog" /\ read[c] = 0
  BY <1>1, <1>2 DEF Table
<1>4. Accepted(c, fd) \/ Refused(c)
  BY <1>2 DEF IoAccept, Accepted, Refused
<1>5. fdConn[fd] = "none"
  BY DEF IoAccept, NextFd
<1>6. backlog' = Tail(backlog)
  BY DEF IoAccept
<1> QED BY <1>1, <1>2, <1>3, <1>4, <1>5, <1>6

LEMMA AcceptType ==
    ASSUME ServerType, NEW c \in Conns, NEW fd \in Fds, Accepted(c, fd) \/ Refused(c)
    PROVE  /\ state' \in [Conns -> {"new", "backlog", "open", "gone"}]
           /\ fdConn' \in [Fds -> Conns \cup {"none"}]
           /\ conns' \in [Fds -> ConnType]
           /\ watched' \subseteq Fds /\ edge' \subseteq Fds \cup {Listen, Wake}
<1>1. [used |-> TRUE, frame |-> <<>>] \in ConnType
  <2>1. <<>> \in Seq(Bytes)
    OBVIOUS
  <2> QED BY <2>1, Zenon DEF ConnType
<1>2. state' \in [Conns -> {"new", "backlog", "open", "gone"}]
  BY Zenon DEF ServerType, Accepted, Refused
<1>3. fdConn' \in [Fds -> Conns \cup {"none"}]
  BY Zenon DEF ServerType, Accepted, Refused
<1>4. conns' \in [Fds -> ConnType]
  <2>1. conns \in [Fds -> ConnType]
    BY DEF ServerType, ConnType
  <2> QED BY <1>1, <2>1, Zenon DEF Accepted, Refused
<1>5. watched' \subseteq Fds /\ edge' \subseteq Fds \cup {Listen, Wake}
  BY DEF ServerType, Accepted, Refused
<1> QED BY <1>2, <1>3, <1>4, <1>5

LEMMA TypeStep ==
    ASSUME ServerInv, [Next]_vars
    PROVE  ServerType'
<1> USE DEF handle, main, locals, peers, kernel, pool, Places, Quiet, ConnType
<1>0. ServerType /\ Threads /\ Table /\ Streams
  BY DEF ServerInv
<1>1. CASE IoSetupFails /\ Quiet BY <1>0, <1>1 DEF IoSetupFails, CloseAll, ServerType
<1>2. CASE IoListen /\ Quiet BY <1>0, <1>2 DEF IoListen, ServerType
<1>3. CASE IoWakeFd /\ Quiet BY <1>0, <1>3 DEF IoWakeFd, ServerType
<1>4. CASE IoCleanup /\ Quiet BY <1>0, <1>4 DEF IoCleanup, CloseAll, ServerType
<1>5. CASE (IoWhile \/ IoWaitFails \/ IoAccepted \/ IoRecvDrained) /\ Quiet
  BY <1>0, <1>5 DEF IoWhile, IoWaitFails, IoAccepted, IoRecvDrained, Goto, ServerType
<1>6. CASE IoWait /\ Quiet BY <1>0, <1>6 DEF IoWait, ServerType
<1>7. CASE IoEventsDone /\ Quiet BY <1>0, <1>7 DEF IoEventsDone, ServerType
<1>8. CASE IoEventWake /\ Quiet BY <1>0, <1>8 DEF IoEventWake, ServerType
<1>9. ASSUME NEW e \in Fds \cup {Listen}, IoEventRead(e), Quiet PROVE ServerType'
  BY <1>0, <1>9 DEF IoEventRead, ServerType
<1>10. ASSUME NEW f \in Fds, IoEventHup(f), Quiet PROVE ServerType'
  <2>1. f \in watched /\ CloseConn(f)
    BY <1>0, <1>10 DEF IoEventHup, Table
  <2>2. /\ state' \in [Conns -> {"new", "backlog", "open", "gone"}]
        /\ fdConn' \in [Fds -> Conns \cup {"none"}] /\ conns' \in [Fds -> ConnType]
        /\ watched' \subseteq Fds /\ edge' \subseteq Fds \cup {Listen, Wake}
    BY <1>0, <2>1, CloseConnType
  <2> QED BY <1>0, <1>10, <2>2 DEF IoEventHup, ServerType
<1>11. ASSUME NEW fd \in Fds, NEW added \in BOOLEAN, IoAccept(fd, added), Quiet PROVE ServerType'
  <2>1. PICK c \in Conns : (Accepted(c, fd) \/ Refused(c)) /\ backlog' \in Seq(Conns)
    BY <1>0, <1>11, AcceptFacts
  <2>2. /\ state' \in [Conns -> {"new", "backlog", "open", "gone"}]
        /\ fdConn' \in [Fds -> Conns \cup {"none"}] /\ conns' \in [Fds -> ConnType]
        /\ watched' \subseteq Fds /\ edge' \subseteq Fds \cup {Listen, Wake}
    BY <1>0, <2>1, AcceptType
  <2> QED BY <1>0, <1>11, <2>1, <2>2, Zenon DEF IoAccept, ServerType
<1>12. CASE IoRecv /\ Quiet
  <2>1. PICK c \in Conns : c = fdConn[cur] /\ conns[cur].used
    BY <1>0, <1>12, CurFacts DEF IoRecv, Reading
  <2>2. PICK n \in Int : n = Lesser(Unread(c), BUF_SIZE)
    <3>1. Unread(c) \in Int /\ BUF_SIZE \in Int
      BY <1>0, Constants DEF ServerType, Unread
    <3> QED BY <3>1, LesserOf
  <2>3. /\ n > 0 /\ chunk' = Stream(c, read[c], n) /\ read' = [read EXCEPT ![c] = @ + n]
    BY <1>12, <2>1, <2>2 DEF IoRecv
  <2>4. read[c] \in Nat /\ n \in Nat
    BY <1>0, <2>3 DEF ServerType
  <2>5. chunk' \in Seq(Bytes)
    BY <2>3, <2>4, StreamFacts, Zenon
  <2>6. read' \in [Conns -> Nat]
    BY <1>0, <2>3, <2>4 DEF ServerType
  <2> QED BY <1>0, <1>12, <2>5, <2>6 DEF IoRecv, ServerType
<1>13. CASE (IoRecvEof \/ IoRecvFails) /\ Quiet
  <2>1. CASE UNCHANGED <<state, fdConn, conns, watched, edge>>
    BY <1>0, <1>13, <2>1 DEF IoRecvEof, IoRecvFails, ServerType
  <2>2. CASE CloseConn(cur)
    <3>1. cur \in watched
      BY <1>0, <1>13, Zenon DEF IoRecvEof, IoRecvFails, Table, Reading
    <3>2. /\ state' \in [Conns -> {"new", "backlog", "open", "gone"}]
          /\ fdConn' \in [Fds -> Conns \cup {"none"}] /\ conns' \in [Fds -> ConnType]
          /\ watched' \subseteq Fds /\ edge' \subseteq Fds \cup {Listen, Wake}
      BY <1>0, <2>2, <3>1, CloseConnType
    <3> QED BY <1>0, <1>13, <3>2 DEF IoRecvEof, IoRecvFails, ServerType
  <2> QED BY <1>13, <2>1, <2>2 DEF IoRecvEof, IoRecvFails
<1>14. CASE IoConsumed /\ Quiet
  BY <1>0, <1>14 DEF IoConsumed, RecvAgain, Goto, ServerType
<1>15. CASE IoConsume /\ Quiet
  <2>1. PICK c \in Conns, take \in 1..Len(chunk), frame \in Seq(Bytes) :
           /\ c = fdConn[cur] /\ cur \in Fds
           /\ chunk' = Stream(c, Done(c) + take, Len(chunk) - take)
           /\ IF Len(frame) = kWireSize
              THEN Enqueue(frame) /\ conns' = [conns EXCEPT ![cur].frame = <<>>]
              ELSE /\ conns' = [conns EXCEPT ![cur].frame = frame]
                   /\ UNCHANGED <<free, ready, slots, drops>>
    BY <1>0, <1>15, ConsumeFacts
  <2>2. chunk' \in Seq(Bytes)
    <3>1. Done(c) \in Nat
      BY <1>0, CountFacts
    <3>2. Len(chunk) \in Nat
      BY <1>0 DEF ServerType
    <3>3. Done(c) + take \in Nat /\ Len(chunk) - take \in Nat
      BY <3>1, <3>2
    <3> QED BY <2>1, <3>3, StreamFacts
  <2>3. conns' \in [Fds -> ConnType]
    <3>1. PICK held \in Seq(Bytes) : conns' = [conns EXCEPT ![cur].frame = held]
      <4>1. <<>> \in Seq(Bytes)
        OBVIOUS
      <4> QED BY <2>1, <4>1, Zenon
    <3>2. conns \in [Fds -> ConnType] /\ cur \in Fds
      BY <1>0, <2>1, Zenon DEF ServerType, ConnType
    <3>3. [conns[cur] EXCEPT !.frame = held] \in ConnType
      BY <3>2, Zenon DEF ConnType
    <3>4. conns' = [conns EXCEPT ![cur] = [conns[cur] EXCEPT !.frame = held]]
      BY <3>1
    <3> QED BY <3>2, <3>3, <3>4, Zenon
  <2>4. /\ free' \in Seq(Slot) /\ ready' \in Seq(Slot)
        /\ slots' \in [Slot -> Seq(Bytes)] /\ drops' \in Nat
    <3>1. CASE UNCHANGED <<free, ready, slots, drops>>
      BY <1>0, <3>1 DEF ServerType
    <3>2. CASE Enqueue(frame)
      <4>1. CASE free = <<>>
        BY <1>0, <3>2, <4>1 DEF Enqueue, DropFrame, ServerType
      <4>2. CASE free # <<>>
        <5>1. Head(free) \in Slot /\ Tail(free) \in Seq(Slot)
          BY <1>0, <4>2 DEF ServerType
        <5>2. free' = Tail(free) /\ slots' = [slots EXCEPT ![Head(free)] = frame]
              /\ ready' = Append(ready, Head(free)) /\ drops' = drops
          BY <3>2, <4>2 DEF Enqueue, PopFree
        <5> QED BY <1>0, <5>1, <5>2 DEF ServerType
      <4> QED BY <4>1, <4>2
    <3> QED BY <2>1, <3>1, <3>2
  <2> QED BY <1>0, <1>15, <2>2, <2>3, <2>4, Zenon DEF IoConsume, ServerType
<1>16. CASE Start BY <1>0, <1>16 DEF Start, ServerType
<1>17. CASE Stop BY <1>0, <1>17 DEF Stop, ServerType
<1>18. CASE StopReadWake BY <1>0, <1>18 DEF StopReadWake, ServerType
<1>19. CASE StopWrite BY <1>0, <1>19 DEF StopWrite, ServerType
<1>20. CASE StopJoin BY <1>0, <1>20 DEF StopJoin, ServerType
<1>21. CASE Consume
  <2>1. Head(ready) \in Slot /\ Tail(ready) \in Seq(Slot)
    BY <1>0, <1>21 DEF Consume, ServerType
  <2>2. free' \in Seq(Slot) /\ ready' \in Seq(Slot) /\ consumed' \in Nat
    BY <1>0, <1>21, <2>1 DEF Consume, ServerType
  <2> QED BY <1>0, <1>21, <2>2 DEF Consume, ServerType
<1>22. ASSUME NEW c \in Conns, ClientConnect(c) PROVE ServerType'
  BY <1>0, <1>22 DEF ClientConnect, ServerType
<1>23. ASSUME NEW c \in Conns, ClientSend(c) PROVE ServerType'
  BY <1>0, <1>23 DEF ClientSend, EdgeOf, ServerType
<1>24. ASSUME NEW c \in Conns, ClientClose(c) PROVE ServerType'
  BY <1>0, <1>24 DEF ClientClose, EdgeOf, ServerType
<1>25. CASE UNCHANGED vars BY <1>0, <1>25 DEF vars, ServerType
<1> HIDE DEF Quiet
<1> QED BY ServerSteps, <1>1, <1>2, <1>3, <1>4, <1>5, <1>6, <1>7, <1>8, <1>9, <1>10, <1>11, <1>12,
           <1>13, <1>14, <1>15, <1>16, <1>17, <1>18, <1>19, <1>20, <1>21, <1>22, <1>23, <1>24, <1>25

LEMMA ThreadsStep ==
    ASSUME ServerInv, [Next]_vars
    PROVE  Threads'
<1> USE DEF handle, main, locals, kernel, pool, Quiet, Handling
<1>0. ServerType /\ Threads /\ Table /\ Listen # Wake /\ Wake \notin Fds
  BY Constants DEF ServerInv
<1>1. CASE (IoSetupFails \/ IoCleanup) /\ Quiet
  BY <1>0, <1>1 DEF IoSetupFails, IoCleanup, CloseAll, Threads
<1>2. CASE (IoListen \/ IoWakeFd) /\ Quiet BY <1>0, <1>2 DEF IoListen, IoWakeFd, Threads
<1>3. CASE (IoWhile \/ IoWaitFails \/ IoAccepted \/ IoRecvDrained) /\ Quiet
  BY <1>0, <1>3 DEF IoWhile, IoWaitFails, IoAccepted, IoRecvDrained, Goto, Threads
<1>4. CASE IoWait /\ Quiet BY <1>0, <1>4, Zenon DEF IoWait, Threads
<1>5. CASE (IoEventsDone \/ IoEventWake) /\ Quiet
  BY <1>0, <1>5 DEF IoEventsDone, IoEventWake, Threads
<1>6. ASSUME NEW e \in Fds \cup {Listen}, IoEventRead(e), Quiet PROVE Threads'
  BY <1>0, <1>6 DEF IoEventRead, Threads
<1>7. ASSUME NEW f \in Fds, IoEventHup(f), Quiet PROVE Threads'
  BY <1>0, <1>7 DEF IoEventHup, CloseConn, Threads
<1>8. ASSUME NEW fd \in Fds, NEW added \in BOOLEAN, IoAccept(fd, added), Quiet PROVE Threads'
  <2>1. Wake \in edge' => Wake \in edge
    <3>1. PICK c \in Conns : (Accepted(c, fd) \/ Refused(c))
      BY <1>0, <1>8, AcceptFacts
    <3> QED BY <1>0, <3>1 DEF Accepted, Refused
  <2> QED BY <1>0, <1>8, <2>1 DEF IoAccept, Threads
<1>9. CASE IoRecv /\ Quiet BY <1>0, <1>9 DEF IoRecv, Threads
<1>10. CASE (IoRecvEof \/ IoRecvFails) /\ Quiet
  BY <1>0, <1>10 DEF IoRecvEof, IoRecvFails, CloseConn, Threads
<1>11. CASE (IoConsumed \/ IoConsume) /\ Quiet
  BY <1>0, <1>11 DEF IoConsumed, IoConsume, Goto, RecvAgain, Threads
<1>12. CASE Start \/ Stop \/ StopReadWake \/ StopWrite \/ StopJoin
  <2>1. CASE Start BY <1>0, <2>1 DEF Start, Threads
  <2>2. CASE Stop \/ StopReadWake BY <1>0, <2>2 DEF Stop, StopReadWake, Threads
  <2>3. CASE StopWrite BY <1>0, <2>3 DEF StopWrite, Threads
  <2>4. CASE StopJoin BY <1>0, <2>4 DEF StopJoin, Threads
  <2> QED BY <1>12, <2>1, <2>2, <2>3, <2>4
<1>13. CASE Consume BY <1>0, <1>13 DEF Consume, Threads
<1>14. ASSUME NEW c \in Conns, ClientConnect(c) PROVE Threads'
  BY <1>0, <1>14 DEF ClientConnect, Threads
<1>15. ASSUME NEW c \in Conns, ClientSend(c) \/ ClientClose(c) PROVE Threads'
  BY <1>0, <1>15 DEF ClientSend, ClientClose, EdgeOf, ServerType, Threads
<1>16. CASE UNCHANGED vars BY <1>0, <1>16 DEF vars, Threads
<1> HIDE DEF Quiet
<1> QED BY ServerSteps, <1>1, <1>2, <1>3, <1>4, <1>5, <1>6, <1>7, <1>8, <1>9, <1>10, <1>11, <1>12,
           <1>13, <1>14, <1>15, <1>16

\* What is left of the table's invariant for a step that leaves the table alone.
LEMMA TableKept ==
    ASSUME Table, UNCHANGED <<fdConn, conns, state, backlog, read, watched>>,
           (edge' \cup events') \cap Fds \subseteq watched,
           ioPc' \in Reading => cur' \in watched /\ cur' \notin events'
    PROVE  Table'
BY Zenon DEF Table

\* The parts that say where reported and read descriptors are.
LEMMA TableUse ==
    ASSUME Table
    PROVE  /\ (edge \cup events) \cap Fds \subseteq watched
           /\ ioPc \in Reading => cur \in watched /\ cur \notin events
BY Zenon DEF Table

\* A closed connection leaves the table.
LEMMA CloseConnTable ==
    ASSUME ServerType, Table, NEW f \in watched, CloseConn(f),
           UNCHANGED <<backlog, read>>, events' \subseteq events, f \notin events',
           ioPc' \notin Reading
    PROVE  Table'
<1>1. f \in Fds /\ fdConn[f] \in Conns /\ state[fdConn[f]] = "open"
  BY DEF ServerType, Table
<1>2. \A g \in Fds : fdConn'[g] = IF g = f THEN "none" ELSE fdConn[g]
  BY <1>1 DEF ServerType, CloseConn
<1>3. \A c \in Conns : state'[c] = IF c = fdConn[f] THEN "gone" ELSE state[c]
  BY <1>1 DEF ServerType, CloseConn
<1>4. \A g \in Fds : g # f => conns'[g] = conns[g]
  BY <1>1 DEF ServerType, CloseConn
<1>5. \A g, h \in Fds : fdConn'[g] = fdConn'[h] /\ fdConn'[g] # "none" => g = h
  BY <1>2 DEF Table
<1>6. ASSUME NEW g \in Fds, fdConn'[g] # "none"
      PROVE  state'[fdConn'[g]] = "open" /\ conns'[g].used
  <2>1. g # f /\ fdConn'[g] = fdConn[g] /\ fdConn[g] # "none"
    BY <1>2, <1>6
  <2>2. fdConn[g] \in Conns /\ fdConn[g] # fdConn[f]
    BY <1>1, <2>1 DEF ServerType, Table
  <2>3. state[fdConn[g]] = "open" /\ conns[g].used
    BY <2>1 DEF Table
  <2> QED BY <1>3, <1>4, <2>1, <2>2, <2>3
<1>7. \A g \in Fds : fdConn'[g] = "none" => g \notin watched'
  BY <1>2 DEF Table, CloseConn
<1>8. (edge' \cup events') \cap Fds \subseteq watched'
  BY DEF Table, CloseConn
<1>9. ASSUME NEW i \in 1..Len(backlog) PROVE state'[backlog[i]] = "backlog"
  <2>1. state[backlog[i]] = "backlog" /\ backlog[i] \in Conns
    BY DEF Table, ServerType
  <2> QED BY <1>1, <1>3, <2>1
<1>10. ASSUME NEW c \in Conns, state'[c] \in {"new", "backlog"} PROVE read[c] = 0
  BY <1>3, <1>10 DEF Table
<1>11. \A i, j \in 1..Len(backlog) : backlog[i] = backlog[j] => i = j
  BY DEF Table
<1> QED BY <1>5, <1>6, <1>7, <1>8, <1>9, <1>10, <1>11 DEF Table

\* So do the ones that were not accepted when the server ends.
LEMMA CloseAllTable ==
    ASSUME ServerType, Threads, Table, CloseAll, UNCHANGED <<conns, fdConn, read, events>>,
           ioPc \notin Handling, ioPc' \notin Reading
    PROVE  Table'
<1>1. /\ backlog' = <<>> /\ edge' = {} /\ watched' = {} /\ events = {} /\ events' = {}
      /\ Len(backlog') = 0
  BY DEF CloseAll, Threads
<1>2. \A c \in Conns : state'[c] = IF state[c] = "backlog" THEN "gone" ELSE state[c]
  BY DEF CloseAll
<1>3. ASSUME NEW f \in Fds, fdConn[f] # "none" PROVE state'[fdConn[f]] = "open" /\ conns[f].used
  <2>1. fdConn[f] \in Conns /\ state[fdConn[f]] = "open" /\ conns[f].used
    BY <1>3 DEF ServerType, Table
  <2> QED BY <1>2, <2>1
<1>4. ASSUME NEW c \in Conns, state'[c] \in {"new", "backlog"} PROVE read[c] = 0
  BY <1>2, <1>4 DEF Table
<1>5. \A f, g \in Fds : fdConn[f] = fdConn[g] /\ fdConn[f] # "none" => f = g
  BY DEF Table
<1>6. (\A i \in 1..Len(backlog') : FALSE) /\ (\A f \in Fds : f \notin watched')
  BY <1>1
<1>7. (edge' \cup events') \cap Fds \subseteq watched'
  BY <1>1
<1> QED BY <1>3, <1>4, <1>5, <1>6, <1>7, Zenon DEF Table

\* An accepted connection takes a descriptor that nobody has.
LEMMA AcceptTable ==
    ASSUME ServerType, Table, NEW c \in Conns, c = Head(backlog), state[c] = "backlog",
           read[c] = 0, backlog # <<>>, backlog' = Tail(backlog), NEW n \in Fds, fdConn[n] = "none",
           Accepted(c, n) \/ Refused(c), UNCHANGED <<read, events>>, ioPc' \notin Reading
    PROVE  Table'
<1>2. fdConn[n] = "none" /\ n \notin watched
  BY DEF Table
<1>3. /\ \A i \in 1..Len(backlog') : backlog'[i] = backlog[i + 1] /\ i + 1 \in 1..Len(backlog)
      /\ backlog[1] = c /\ 1 \in 1..Len(backlog) /\ Len(backlog) \in Nat
  BY DEF ServerType
<1>4. \A i \in 1..Len(backlog') : backlog'[i] \in Conns /\ backlog'[i] # c
                                  /\ state[backlog'[i]] = "backlog"
  <2> TAKE i \in 1..Len(backlog')
  <2>1. backlog'[i] = backlog[i + 1] /\ i + 1 \in 1..Len(backlog) /\ i + 1 # 1
    BY <1>3
  <2>2. backlog[i + 1] # backlog[1]
    BY <1>3, <2>1 DEF Table
  <2> QED BY <1>3, <2>1, <2>2 DEF Table, ServerType
<1>5. \A i, j \in 1..Len(backlog') : backlog'[i] = backlog'[j] => i = j
  <2> TAKE i, j \in 1..Len(backlog')
  <2>1. /\ backlog'[i] = backlog[i + 1] /\ i + 1 \in 1..Len(backlog)
        /\ backlog'[j] = backlog[j + 1] /\ j + 1 \in 1..Len(backlog)
    BY <1>3
  <2>2. backlog[i + 1] = backlog[j + 1] => i + 1 = j + 1
    BY <2>1, Zenon DEF Table
  <2>3. i + 1 = j + 1 => i = j
    OBVIOUS
  <2> QED BY <2>1, <2>2, <2>3, Zenon
<1>6. CASE Accepted(c, n)
  <2>1. \A g \in Fds : fdConn'[g] = IF g = n THEN c ELSE fdConn[g]
    BY <1>6, Zenon DEF ServerType, Accepted
  <2>2. \A d \in Conns : state'[d] = IF d = c THEN "open" ELSE state[d]
    BY <1>6 DEF ServerType, Accepted
  <2>3. \A g \in Fds : conns'[g] = IF g = n THEN [used |-> TRUE, frame |-> <<>>] ELSE conns[g]
    BY <1>6 DEF ServerType, Accepted
  <2>4. \A g \in Fds : fdConn[g] # c
    <3>1. c # "none"
      BY Constants
    <3>2. \A g \in Fds : fdConn[g] # "none" => state[fdConn[g]] = "open"
      BY DEF Table
    <3> QED BY <3>1, <3>2
  <2>5. \A g, h \in Fds : fdConn'[g] = fdConn'[h] /\ fdConn'[g] # "none" => g = h
    <3>1. \A g, h \in Fds : fdConn[g] = fdConn[h] /\ fdConn[g] # "none" => g = h
      BY Zenon DEF Table
    <3> QED BY <2>1, <2>4, <3>1, Zenon
  <2>6. ASSUME NEW g \in Fds, fdConn'[g] # "none"
        PROVE  state'[fdConn'[g]] = "open" /\ conns'[g].used
    <3>1. CASE g = n
      BY <2>1, <2>2, <2>3, <3>1
    <3>2. CASE g # n
      <4>1. fdConn'[g] = fdConn[g] /\ fdConn[g] \in Conns /\ conns'[g] = conns[g]
        BY <2>1, <2>3, <2>6, <3>2 DEF ServerType
      <4>2. state[fdConn[g]] = "open" /\ conns[g].used
        BY <2>6, <4>1, Zenon DEF Table
      <4> QED BY <2>2, <4>1, <4>2, Zenon
    <3> QED BY <3>1, <3>2
  <2>7. \A g \in Fds : fdConn'[g] = "none" => g \notin watched'
    BY <1>6, <2>1, Constants DEF Table, Accepted
  <2>8. (edge' \cup events') \cap Fds \subseteq watched'
    BY <1>6 DEF Table, Accepted
  <2>9. \A i \in 1..Len(backlog') : state'[backlog'[i]] = "backlog"
    BY <1>4, <2>2, Zenon
  <2>10. \A d \in Conns : state'[d] \in {"new", "backlog"} => read[d] = 0
    BY <2>2 DEF Table
  <2> QED BY <1>5, <2>5, <2>6, <2>7, <2>8, <2>9, <2>10 DEF Table
<1>7. CASE Refused(c)
  <2>1. \A d \in Conns : state'[d] = IF d = c THEN "gone" ELSE state[d]
    BY <1>7 DEF ServerType, Refused
  <2>2. ASSUME NEW g \in Fds, fdConn[g] # "none"
        PROVE  state'[fdConn[g]] = "open" /\ conns[g].used
    <3>1. fdConn[g] \in Conns /\ state[fdConn[g]] = "open" /\ conns[g].used
      BY <2>2 DEF ServerType, Table
    <3> QED BY <2>1, <3>1
  <2>3. \A i \in 1..Len(backlog') : state'[backlog'[i]] = "backlog"
    BY <1>4, <2>1
  <2>4. \A d \in Conns : state'[d] \in {"new", "backlog"} => read[d] = 0
    BY <2>1 DEF Table
  <2>5. UNCHANGED <<fdConn, conns, watched>>
    BY <1>7, Zenon DEF Refused
  <2>6. (edge' \cup events') \cap Fds \subseteq watched
    <3>1. edge' = edge /\ events' = events
      BY <1>7, Zenon DEF Refused
    <3> QED BY <3>1, TableUse, Zenon
  <2> QED BY <1>5, <2>2, <2>3, <2>4, <2>5, <2>6, Zenon DEF Table
<1> QED BY <1>6, <1>7

LEMMA TableStep ==
    ASSUME ServerInv, [Next]_vars
    PROVE  Table'
<1> USE DEF handle, main, locals, peers, kernel, pool, Quiet
<1>0. ServerType /\ Threads /\ Table /\ Streams /\ Listen \notin Fds /\ Wake \notin Fds
  BY Constants DEF ServerInv
<1>a. /\ (edge \cup events) \cap Fds \subseteq watched
      /\ ioPc \in Reading => cur \in watched /\ cur \notin events
  BY <1>0, TableUse, Zenon
<1>1. CASE (IoSetupFails \/ IoCleanup) /\ Quiet
  <2>1. CloseAll /\ UNCHANGED <<conns, fdConn, read, events>>
        /\ ioPc \notin Handling /\ ioPc' \notin Reading
    BY <1>1 DEF IoSetupFails, IoCleanup, Handling, Reading
  <2> QED BY <1>0, <2>1, CloseAllTable
<1>2. CASE (IoListen \/ IoWakeFd) /\ Quiet
  <2>1. UNCHANGED <<fdConn, conns, state, backlog, read, watched, events>>
    BY <1>2, Zenon DEF IoListen, IoWakeFd
  <2>2. ioPc' \notin Reading /\ edge' \subseteq edge \cup {Listen}
    BY <1>2 DEF IoListen, IoWakeFd, Reading
  <2>3. (edge' \cup events') \cap Fds \subseteq watched
    BY <1>0, <1>a, <2>1, <2>2
  <2> QED BY <1>0, <2>1, <2>2, <2>3, TableKept, Zenon
<1>3. CASE (IoWhile \/ IoWaitFails \/ IoAccepted \/ IoRecvDrained) /\ Quiet
  <2>1. UNCHANGED <<fdConn, conns, state, backlog, read, watched, edge, events>>
    BY <1>3, Zenon DEF IoWhile, IoWaitFails, IoAccepted, IoRecvDrained, Goto
  <2>2. ioPc' \notin Reading
    BY <1>3 DEF IoWhile, IoWaitFails, IoAccepted, IoRecvDrained, Goto, Reading
  <2> QED BY <1>0, <1>a, <2>1, <2>2, TableKept, Zenon
<1>4. CASE IoWait /\ Quiet BY <1>0, <1>4, Zenon DEF IoWait, Table, Reading
<1>5. CASE (IoEventsDone \/ IoEventWake) /\ Quiet
  <2>1. UNCHANGED <<fdConn, conns, state, backlog, read, watched, edge>>
    BY <1>5, Zenon DEF IoEventsDone, IoEventWake
  <2>2. ioPc' \notin Reading /\ events' \subseteq events
    BY <1>5 DEF IoEventsDone, IoEventWake, Reading
  <2> QED BY <1>0, <1>a, <2>1, <2>2, TableKept, Zenon
<1>6. ASSUME NEW e \in Fds \cup {Listen}, IoEventRead(e), Quiet PROVE Table'
  <2>1. UNCHANGED <<fdConn, conns, state, backlog, read, watched, edge>>
    BY <1>6, Zenon DEF IoEventRead
  <2>2. /\ events' \subseteq events
        /\ ioPc' \in Reading => cur' \in Fds /\ cur' \in events /\ cur' \notin events'
    BY <1>6 DEF IoEventRead, Reading
  <2> QED BY <1>0, <1>a, <2>1, <2>2, TableKept, Zenon
<1>7. ASSUME NEW f \in Fds, IoEventHup(f), Quiet PROVE Table'
  <2>1. f \in watched /\ CloseConn(f) /\ UNCHANGED <<backlog, read>>
        /\ events' \subseteq events /\ f \notin events' /\ ioPc' \notin Reading
    BY <1>0, <1>7 DEF IoEventHup, Table, Reading
  <2> QED BY <1>0, <2>1, CloseConnTable
<1>8. ASSUME NEW fd \in Fds, NEW added \in BOOLEAN, IoAccept(fd, added), Quiet PROVE Table'
  <2>1. PICK c \in Conns :
           /\ c = Head(backlog) /\ state[c] = "backlog" /\ read[c] = 0
           /\ backlog # <<>> /\ backlog' = Tail(backlog)
           /\ Accepted(c, fd) \/ Refused(c)
           /\ fdConn[fd] = "none"
    BY <1>0, <1>8, AcceptFacts
  <2>2. UNCHANGED <<read, events>> /\ ioPc' \notin Reading
    BY <1>8 DEF IoAccept, Reading
  <2> QED BY <1>0, <2>1, <2>2, AcceptTable, Zenon
<1>9. CASE IoRecv /\ Quiet
  <2>1. PICK c \in Conns : c = fdConn[cur] /\ state[c] = "open"
    BY <1>0, <1>9, CurFacts DEF IoRecv, Reading
  <2>2. PICK n : read' = [read EXCEPT ![c] = @ + n]
    BY <1>9, <2>1, Zenon DEF IoRecv
  <2>3. \A d \in Conns : d # c => read'[d] = read[d]
    BY <1>0, <2>2 DEF ServerType
  <2>4. \A d \in Conns : state[d] \in {"new", "backlog"} => read'[d] = 0
    BY <1>0, <2>1, <2>3 DEF Table
  <2> QED BY <1>0, <1>9, <2>4, Zenon DEF IoRecv, Table, Reading
<1>10. CASE (IoRecvEof \/ IoRecvFails) /\ Quiet
  <2>1. CASE ioPc' = "spin" /\ UNCHANGED <<state, fdConn, conns, watched, edge>>
    <3>1. ioPc \in Reading /\ UNCHANGED <<backlog, read, events, cur>>
      BY <1>10 DEF IoRecvEof, IoRecvFails, Reading
    <3> QED BY <1>0, <1>a, <2>1, <3>1, TableKept, Zenon
  <2>2. CASE ioPc' = "event" /\ CloseConn(cur)
    <3>1. cur \in watched /\ UNCHANGED <<backlog, read>> /\ events' \subseteq events
          /\ cur \notin events' /\ ioPc' \notin Reading
      BY <1>0, <1>10, <2>2 DEF IoRecvEof, IoRecvFails, Table, Reading
    <3> QED BY <1>0, <2>2, <3>1, CloseConnTable
  <2> QED BY <1>10, <2>1, <2>2 DEF IoRecvEof, IoRecvFails
<1>11. CASE IoConsumed /\ Quiet
  BY <1>0, <1>11 DEF IoConsumed, Goto, RecvAgain, Table, Reading
<1>12. CASE IoConsume /\ Quiet
  <2>1. PICK held : conns' = [conns EXCEPT ![cur].frame = held]
    BY <1>12 DEF IoConsume
  <2>2. \A f \in Fds : conns[f].used => conns'[f].used
    BY <1>0, <2>1 DEF ServerType
  <2>3. /\ ioPc = "consume" /\ ioPc' = "consume"
        /\ UNCHANGED <<fdConn, state, watched, edge, events, backlog, read, cur>>
    BY <1>12 DEF IoConsume
  <2> QED BY <1>0, <2>2, <2>3 DEF Table, Reading
<1>13. CASE Start \/ Stop \/ StopReadWake \/ StopWrite \/ StopJoin
  <2>1. UNCHANGED <<fdConn, conns, state, backlog, read, watched, events, cur>>
    BY <1>13, Zenon DEF Start, Stop, StopReadWake, StopWrite, StopJoin
  <2>2. edge' \subseteq edge \cup {Wake}
    <3>1. CASE StopWrite BY <3>1 DEF StopWrite
    <3>2. CASE ~StopWrite
      <4>1. edge' = edge
        BY <1>13, <3>2, Zenon DEF Start, Stop, StopReadWake, StopJoin
      <4> QED BY <4>1
    <3> QED BY <3>1, <3>2
  <2>3. ioPc' = ioPc \/ ioPc' \notin Reading
    <3>1. CASE Start \/ StopJoin BY <3>1 DEF Start, StopJoin, Reading
    <3>2. CASE Stop \/ StopReadWake \/ StopWrite
      BY <3>2, Zenon DEF Stop, StopReadWake, StopWrite
    <3> QED BY <1>13, <3>1, <3>2
  <2>4. (edge' \cup events') \cap Fds \subseteq watched
    BY <1>0, <1>a, <2>1, <2>2
  <2> QED BY <1>0, <1>a, <2>1, <2>3, <2>4, TableKept, Zenon
<1>14. CASE Consume BY <1>0, <1>14, Zenon DEF Consume, Table
<1>15. ASSUME NEW c \in Conns, ClientConnect(c) PROVE Table'
  <2>1. /\ Len(backlog') = Len(backlog) + 1 /\ Len(backlog) \in Nat
        /\ \A i \in 1..Len(backlog) : backlog'[i] = backlog[i] /\ backlog[i] \in Conns
        /\ backlog'[Len(backlog) + 1] = c
    BY <1>0, <1>15 DEF ClientConnect, ServerType
  <2>2. \A d \in Conns : state'[d] = IF d = c THEN "backlog" ELSE state[d]
    BY <1>0, <1>15 DEF ClientConnect, ServerType
  <2>3. \A i \in 1..Len(backlog) : backlog[i] # c
    BY <1>0, <1>15 DEF ClientConnect, Table
  <2>4. ASSUME NEW f \in Fds, fdConn[f] # "none" PROVE state'[fdConn[f]] = "open"
    <3>1. fdConn[f] \in Conns /\ state[fdConn[f]] = "open" /\ state[c] = "new"
      <4>1. state[fdConn[f]] = "open" /\ state[c] = "new"
        BY <1>0, <1>15, <2>4, Zenon DEF Table, ClientConnect
      <4>2. fdConn[f] \in Conns
        BY <1>0, <2>4 DEF ServerType
      <4> QED BY <4>1, <4>2
    <3> QED BY <2>2, <3>1
  <2>5. \A i \in 1..Len(backlog') : state'[backlog'[i]] = "backlog"
    <3> TAKE i \in 1..Len(backlog')
    <3>1. i \in 1..Len(backlog) \/ i = Len(backlog) + 1
      BY <2>1
    <3>2. CASE i = Len(backlog) + 1
      BY <2>1, <2>2, <3>2, Zenon
    <3>3. CASE i \in 1..Len(backlog)
      <4>1. state[backlog[i]] = "backlog" /\ backlog'[i] = backlog[i] /\ backlog[i] \in Conns
        BY <1>0, <2>1, <3>3, Zenon DEF Table
      <4> QED BY <2>2, <4>1, Zenon
    <3> QED BY <3>1, <3>2, <3>3
  <2>6. \A i, j \in 1..Len(backlog') : backlog'[i] = backlog'[j] => i = j
    <3> TAKE i, j \in 1..Len(backlog')
    <3>1. i \in 1..Len(backlog) \/ i = Len(backlog) + 1
      BY <2>1
    <3>2. j \in 1..Len(backlog) \/ j = Len(backlog) + 1
      BY <2>1
    <3>3. CASE i \in 1..Len(backlog) /\ j \in 1..Len(backlog)
      BY <1>0, <2>1, <3>3, Zenon DEF Table
    <3> QED BY <2>1, <2>3, <3>1, <3>2, <3>3, Zenon
  <2>7. \A d \in Conns : state'[d] \in {"new", "backlog"} => read[d] = 0
    BY <1>0, <1>15, <2>2 DEF Table, ClientConnect
  <2>8. UNCHANGED <<fdConn, conns, read, watched, events, cur, ioPc>>
    BY <1>15, Zenon DEF ClientConnect
  <2>9. (edge' \cup events') \cap Fds \subseteq watched
    <3>1. edge' \subseteq edge \cup {Listen}
      BY <1>15 DEF ClientConnect
    <3> QED BY <1>0, <1>a, <2>8, <3>1
  <2> QED BY <1>0, <2>4, <2>5, <2>6, <2>7, <2>8, <2>9, Zenon DEF Table
<1>16. ASSUME NEW c \in Conns, ClientSend(c) \/ ClientClose(c) PROVE Table'
  <2>1. UNCHANGED <<fdConn, conns, state, backlog, read, watched, events, cur, ioPc>>
    BY <1>16, Zenon DEF ClientSend, ClientClose
  <2>2. edge' \subseteq edge \cup watched
    BY <1>16 DEF ClientSend, ClientClose, EdgeOf
  <2> QED BY <1>0, <1>a, <2>1, <2>2, TableKept, Zenon
<1>17. CASE UNCHANGED vars BY <1>0, <1>17, Zenon DEF vars, Table
<1> HIDE DEF Quiet
<1> QED BY ServerSteps, <1>1, <1>2, <1>3, <1>4, <1>5, <1>6, <1>7, <1>8, <1>9, <1>10, <1>11, <1>12,
           <1>13, <1>14, <1>15, <1>16, <1>17

\* Closing a connection takes nobody else's edge.
LEMMA CloseConnEdge ==
    ASSUME ServerType, Table, EdgeKept, NEW f \in watched, CloseConn(f),
           UNCHANGED <<sent, read, fin>>,
           \A g \in watched :
             g # f /\ (g \in events \/ (ioPc \in Reading /\ g = cur)) => g \in events'
    PROVE  EdgeKept'
<1> SUFFICES ASSUME NEW g \in watched', Readable(fdConn[g])'
             PROVE  g \in edge' \/ g \in events'
  BY Zenon DEF EdgeKept
<1>1. g \in watched /\ g # f /\ f \in Fds /\ g \in Fds
  BY DEF CloseConn, ServerType
<1>2. fdConn'[g] = fdConn[g]
  BY <1>1 DEF CloseConn, ServerType
<1>3. Readable(fdConn[g])
  BY <1>2 DEF Readable, Unread
<1>4. g \in edge \/ g \in events \/ (ioPc \in Reading /\ g = cur)
  BY <1>1, <1>3 DEF EdgeKept
<1> QED BY <1>1, <1>4 DEF CloseConn

LEMMA EdgeStep ==
    ASSUME ServerInv, [Next]_vars
    PROVE  EdgeKept'
<1> USE DEF handle, main, locals, peers, kernel, pool, Quiet
<1>0. ServerType /\ Threads /\ Table /\ Streams /\ EdgeKept /\ Listen \notin Fds /\ Wake \notin Fds
  BY Constants DEF ServerInv
<1>1. CASE (IoSetupFails \/ IoCleanup) /\ Quiet
  BY <1>1 DEF IoSetupFails, IoCleanup, CloseAll, EdgeKept
<1>2. CASE (IoListen \/ IoWakeFd) /\ Quiet
  BY <1>0, <1>2 DEF IoListen, IoWakeFd, EdgeKept, Threads
<1>3. CASE (IoWhile \/ IoWaitFails \/ IoAccepted \/ IoConsumed) /\ Quiet
  BY <1>0, <1>3 DEF IoWhile, IoWaitFails, IoAccepted, IoConsumed, RecvAgain, Goto, EdgeKept,
                    Reading, Readable, Unread
<1>4. CASE IoWait /\ Quiet
  BY <1>0, <1>4, Zenon DEF IoWait, EdgeKept, Reading, Readable, Unread, Threads, Handling
<1>5. CASE (IoEventsDone \/ IoEventWake) /\ Quiet
  BY <1>0, <1>5, Zenon DEF IoEventsDone, IoEventWake, EdgeKept, Reading, Readable, Unread, ServerType
<1>6. ASSUME NEW e \in Fds \cup {Listen}, IoEventRead(e), Quiet PROVE EdgeKept'
  <2>1. UNCHANGED <<fdConn, watched, edge, sent, read, fin>>
    BY <1>6, Zenon DEF IoEventRead
  <2>2. ioPc \notin Reading /\ \A g \in events : g \in events' \/ g = e
    BY <1>6 DEF IoEventRead, Reading
  <2>3. e \in watched => ioPc' \in Reading /\ cur' = e
    <3>1. e \in watched => e # Listen
      BY <1>0 DEF ServerType
    <3> QED BY <1>6, <3>1 DEF IoEventRead, Reading
  <2> QED BY <1>0, <2>1, <2>2, <2>3, Zenon DEF EdgeKept, Readable, Unread
<1>7. ASSUME NEW f \in Fds, IoEventHup(f), Quiet PROVE EdgeKept'
  <2>1. f \in watched /\ CloseConn(f) /\ UNCHANGED <<sent, read, fin>>
    BY <1>0, <1>7, Zenon DEF IoEventHup, Table
  <2>2. \A g \in watched : g # f /\ (g \in events \/ (ioPc \in Reading /\ g = cur)) => g \in events'
    BY <1>7 DEF IoEventHup, Reading
  <2> QED BY <1>0, <2>1, <2>2, CloseConnEdge
<1>8. ASSUME NEW fd \in Fds, NEW added \in BOOLEAN, IoAccept(fd, added), Quiet PROVE EdgeKept'
  <2>1. PICK c \in Conns : (Accepted(c, fd) \/ Refused(c)) /\ fdConn[fd] = "none"
    BY <1>0, <1>8, AcceptFacts
  <2>2. UNCHANGED <<sent, read, fin, events, ioPc, cur>>
    BY <1>8 DEF IoAccept
  <2>3. CASE Refused(c)
    BY <1>0, <2>2, <2>3 DEF Refused, EdgeKept, Readable, Unread
  <2>4. CASE Accepted(c, fd)
    <3> SUFFICES ASSUME NEW g \in watched', Readable(fdConn[g])'
                 PROVE  g \in edge' \/ g \in events' \/ (ioPc' \in Reading /\ g = cur')
      BY DEF EdgeKept
    <3>1. CASE g = fd
      <4>1. fdConn'[g] = c
        BY <1>0, <2>1, <2>4, <3>1, Zenon DEF Accepted, ServerType
      <4>2. Readable(c)
        BY <2>2, <4>1, Zenon DEF Readable, Unread
      <4> QED BY <2>4, <3>1, <4>2 DEF Accepted
    <3>2. CASE g # fd
      <4>1. g \in watched /\ g \in Fds
        BY <1>0, <2>4, <3>2 DEF Accepted, ServerType
      <4>2. fdConn'[g] = fdConn[g]
        BY <1>0, <2>1, <2>4, <3>2, <4>1 DEF Accepted, ServerType
      <4>3. Readable(fdConn[g])
        BY <2>2, <4>2 DEF Readable, Unread
      <4> QED BY <1>0, <2>2, <2>4, <4>1, <4>3, Zenon DEF Accepted, EdgeKept
    <3> QED BY <3>1, <3>2
  <2> QED BY <2>1, <2>3, <2>4
<1>9. CASE IoRecv /\ Quiet
  <2> SUFFICES ASSUME NEW g \in watched', Readable(fdConn[g])', g # cur
               PROVE  g \in edge' \/ g \in events'
    BY <1>9 DEF IoRecv, EdgeKept, Reading
  <2>1. cur \in Fds /\ fdConn[cur] \in Conns /\ \A f \in Fds : fdConn[f] = fdConn[cur] => f = cur
    BY <1>0, <1>9, CurFacts, Zenon DEF IoRecv, Reading
  <2>2. g \in watched /\ g \in Fds /\ fdConn[g] # fdConn[cur] /\ fdConn'[g] = fdConn[g]
    BY <1>0, <1>9, <2>1 DEF IoRecv, ServerType
  <2>3. PICK n : read' = [read EXCEPT ![fdConn[cur]] = @ + n]
    BY <1>9, Zenon DEF IoRecv
  <2>4. fdConn[g] \in Conns
    BY <1>0, <2>2 DEF ServerType, Table
  <2>5. read'[fdConn[g]] = read[fdConn[g]]
    BY <1>0, <2>1, <2>2, <2>3, <2>4 DEF ServerType
  <2>6. Readable(fdConn[g])
    BY <1>9, <2>2, <2>5, Zenon DEF Readable, Unread
  <2> QED BY <1>0, <1>9, <2>2, <2>6, Zenon DEF IoRecv, EdgeKept
<1>10. CASE IoRecvDrained /\ Quiet
  BY <1>0, <1>10, Zenon DEF IoRecvDrained, Goto, EdgeKept, Reading, Readable, Unread
<1>11. CASE (IoRecvEof \/ IoRecvFails) /\ Quiet
  <2>1. CASE ioPc' = "spin" /\ UNCHANGED <<state, fdConn, conns, watched, edge>>
    BY <1>0, <1>11, <2>1 DEF IoRecvEof, IoRecvFails, EdgeKept, Reading, Readable, Unread
  <2>2. CASE ioPc' = "event" /\ CloseConn(cur)
    <3>1. cur \in watched /\ UNCHANGED <<sent, read, fin>>
      BY <1>0, <1>11 DEF IoRecvEof, IoRecvFails, Table, Reading
    <3>2. \A g \in watched :
             g # cur /\ (g \in events \/ (ioPc \in Reading /\ g = cur)) => g \in events'
      BY <1>11, Zenon DEF IoRecvEof, IoRecvFails
    <3> QED BY <1>0, <2>2, <3>1, <3>2, CloseConnEdge
  <2> QED BY <1>11, <2>1, <2>2 DEF IoRecvEof, IoRecvFails
<1>12. CASE IoConsume /\ Quiet
  BY <1>0, <1>12 DEF IoConsume, EdgeKept, Reading, Readable, Unread
<1>13. CASE Start \/ Stop \/ StopReadWake \/ StopWrite \/ StopJoin
  BY <1>0, <1>13, Zenon DEF Start, Stop, StopReadWake, StopWrite, StopJoin, EdgeKept, Reading,
                     Readable, Unread, Threads
<1>14. CASE Consume BY <1>0, <1>14, Zenon DEF Consume, EdgeKept, Readable, Unread
<1>15. ASSUME NEW c \in Conns, ClientConnect(c) PROVE EdgeKept'
  BY <1>0, <1>15, Zenon DEF ClientConnect, EdgeKept, Readable, Unread
<1>16. ASSUME NEW c \in Conns, ClientSend(c) \/ ClientClose(c) PROVE EdgeKept'
  <2> SUFFICES ASSUME NEW g \in watched', Readable(fdConn[g])'
               PROVE  g \in edge' \/ g \in events' \/ (ioPc' \in Reading /\ g = cur')
    BY DEF EdgeKept
  <2>1. g \in watched /\ g \in Fds /\ fdConn'[g] = fdConn[g] /\ edge' = edge \cup EdgeOf(c)
        /\ UNCHANGED <<read, events, ioPc, cur>>
    BY <1>0, <1>16 DEF ClientSend, ClientClose, ServerType
  <2>2. CASE fdConn[g] = c
    BY <2>1, <2>2 DEF EdgeOf
  <2>3. CASE fdConn[g] # c
    <3>1. fdConn[g] \in Conns
      BY <1>0, <2>1 DEF ServerType, Table
    <3>2. sent'[fdConn[g]] = sent[fdConn[g]] /\ fin'[fdConn[g]] = fin[fdConn[g]]
      BY <1>0, <1>16, <2>3, <3>1 DEF ClientSend, ClientClose, ServerType
    <3>3. Readable(fdConn[g])
      BY <2>1, <3>2, Zenon DEF Readable, Unread
    <3> QED BY <1>0, <2>1, <3>3, Zenon DEF EdgeKept
  <2> QED BY <2>2, <2>3
<1>17. CASE UNCHANGED vars BY <1>0, <1>17, Zenon DEF vars, EdgeKept, Readable, Unread
<1> HIDE DEF Quiet
<1> QED BY ServerSteps, <1>1, <1>2, <1>3, <1>4, <1>5, <1>6, <1>7, <1>8, <1>9, <1>10, <1>11, <1>12,
           <1>13, <1>14, <1>15, <1>16, <1>17

\* What has been looked at changes only in consume_frames.
LEMMA DoneStep ==
    ASSUME ServerInv, [Next]_vars
    PROVE  (IoConsume /\ Quiet) \/ (\A c \in Conns : Done(c)' = Done(c))
<1> USE DEF handle, main, locals, peers, kernel, pool, Quiet
<1>0. ServerType /\ Threads /\ Table /\ Streams
  BY DEF ServerInv
<1>1. CASE UNCHANGED <<read, ioPc, fdConn, cur, chunk>>
  BY <1>1 DEF Done, Pending
<1>2. CASE ioPc # "consume" /\ ioPc' # "consume" /\ UNCHANGED read
  BY <1>2 DEF Done, Pending
<1>3. CASE IoRecv
  <2>1. PICK c \in Conns : c = fdConn[cur] /\ conns[cur].used
    BY <1>0, <1>3, CurFacts DEF IoRecv, Reading
  <2>2. PICK n \in Int : n = Lesser(Unread(c), BUF_SIZE)
    <3>1. Unread(c) \in Int /\ BUF_SIZE \in Int
      BY <1>0, <2>1, Constants DEF ServerType, Unread
    <3> QED BY <3>1, LesserOf
  <2>3. /\ n > 0 /\ chunk' = Stream(c, read[c], n) /\ read' = [read EXCEPT ![c] = @ + n]
    BY <1>3, <2>1, <2>2, Zenon DEF IoRecv
  <2>4. read[c] \in Nat /\ n \in Nat
    BY <1>0, <2>1, <2>3 DEF ServerType
  <2>5. Len(chunk') = n
    BY <2>3, <2>4, StreamFacts, Zenon
  <2>6. /\ ioPc = "recv" /\ ioPc' = "consume" /\ fdConn'[cur'] = c
    BY <1>3, <2>1 DEF IoRecv
  <2> SUFFICES ASSUME NEW d \in Conns PROVE Done(d)' = Done(d)
    OBVIOUS
  <2>7. Done(d) = read[d] /\ read[d] \in Nat
    BY <1>0, <2>6 DEF Done, Pending, ServerType
  <2>8. CASE d = c
    <3>1. Pending(d)' = n /\ read'[d] = read[d] + n
      BY <1>0, <2>3, <2>5, <2>6, <2>8 DEF Pending, ServerType
    <3> QED BY <2>4, <2>7, <3>1 DEF Done
  <2>9. CASE d # c
    <3>1. Pending(d)' = 0 /\ read'[d] = read[d]
      BY <1>0, <2>3, <2>6, <2>9 DEF Pending, ServerType
    <3> QED BY <2>7, <3>1 DEF Done
  <2> QED BY <2>8, <2>9
<1>4. CASE IoConsumed
  <2>1. \A c \in Conns : Pending(c) = 0 /\ Pending(c)' = 0
    BY <1>4 DEF IoConsumed, Goto, RecvAgain, Pending
  <2> QED BY <1>4, <2>1 DEF IoConsumed, Goto, Done
<1>5. (IoSetupFails \/ IoListen \/ IoWakeFd \/ IoCleanup \/ IoWhile \/ IoWait \/ IoWaitFails
        \/ IoEventsDone \/ IoEventWake \/ (\E e \in Fds \cup {Listen} : IoEventRead(e))
        \/ (\E f \in Fds : IoEventHup(f))
        \/ (\E fd \in Fds, added \in BOOLEAN : IoAccept(fd, added))
        \/ IoAccepted \/ IoRecvDrained \/ IoRecvEof \/ IoRecvFails) =>
      ioPc # "consume" /\ ioPc' # "consume" /\ UNCHANGED read
  BY Zenon DEF IoSetupFails, IoListen, IoWakeFd, IoCleanup, IoWhile, IoWait, IoWaitFails,
         IoEventsDone, IoEventWake, IoEventRead, IoEventHup, IoAccept, IoAccepted, IoRecvDrained,
         IoRecvEof, IoRecvFails, Goto
<1>6. (Start \/ StopJoin) => ioPc # "consume" /\ ioPc' # "consume" /\ UNCHANGED read
  BY <1>0 DEF Start, StopJoin, Threads
<1>7. (Stop \/ StopReadWake \/ StopWrite \/ Consume
        \/ (\E c \in Conns : ClientConnect(c)) \/ (\E c \in Conns : ClientSend(c))
        \/ (\E c \in Conns : ClientClose(c)) \/ UNCHANGED vars) =>
      UNCHANGED <<read, ioPc, fdConn, cur, chunk>>
  BY Zenon DEF Stop, StopReadWake, StopWrite, Consume, ClientConnect, ClientSend, ClientClose, vars
<1> HIDE DEF Quiet
<1> QED BY ServerSteps, <1>1, <1>2, <1>3, <1>4, <1>5, <1>6, <1>7

\* In consume_frames it grows by what is taken, for one connection.
LEMMA ConsumeDone ==
    ASSUME ServerInv, IoConsume, NEW c \in Conns, NEW take \in 1..Len(chunk),
           c = fdConn[cur], chunk' = Stream(c, Done(c) + take, Len(chunk) - take)
    PROVE  /\ Done(c)' = Done(c) + take
           /\ \A d \in Conns : d # c => Done(d)' = Done(d)
           /\ Len(chunk') = Len(chunk) - take
<1>0. ServerType /\ Streams
  BY DEF ServerInv
<1>1. UNCHANGED <<ioPc, cur, fdConn, read>> /\ ioPc = "consume"
  BY DEF IoConsume, kernel
<1>2. Len(chunk) \in Nat /\ read[c] \in Nat /\ Done(c) \in Nat
  <2>1. Len(chunk) \in Nat
    BY <1>0 DEF ServerType
  <2>2. read[c] \in Nat /\ Done(c) \in Nat
    BY <1>0, CountFacts, Zenon
  <2> QED BY <2>1, <2>2
<1>3. Len(chunk') = Len(chunk) - take
  <2>1. ASSUME NEW l \in Nat, NEW d \in Nat, NEW t \in 1..l PROVE d + t \in Nat /\ l - t \in Nat
    OBVIOUS
  <2>2. Done(c) + take \in Nat /\ Len(chunk) - take \in Nat
    BY <1>2, <2>1, Zenon
  <2> QED BY <2>2, StreamFacts, Zenon
<1>4. Pending(c) = Len(chunk) /\ Pending(c)' = Len(chunk) - take
  BY <1>1, <1>3 DEF Pending
<1>5. Done(c)' = Done(c) + take
  <2>1. Done(c) = read[c] - Len(chunk)
    BY <1>4 DEF Done
  <2>2. Done(c)' = read[c] - (Len(chunk) - take)
    BY <1>1, <1>4 DEF Done
  <2> QED BY <1>2, <2>1, <2>2
<1>6. ASSUME NEW d \in Conns, d # c PROVE Done(d)' = Done(d)
  BY <1>1, <1>6 DEF Done, Pending
<1> QED BY <1>3, <1>5, <1>6

\* So the boundary of the frame moves when the frame is complete.
LEMMA ConsumeCut ==
    ASSUME ServerInv, NEW c \in Conns, NEW take \in Nat \ {0}, Done(c)' = Done(c) + take,
           Done(c) - Cut(c) + take <= kWireSize
    PROVE  /\ Done(c) - Cut(c) + take < kWireSize =>
                Complete(c)' = Complete(c) /\ Cut(c)' = Cut(c)
           /\ Done(c) - Cut(c) + take = kWireSize =>
                /\ Complete(c)' = Complete(c) + 1
                /\ Cut(c)' = Cut(c) + kWireSize /\ Cut(c)' = Done(c)'
<1>1. PICK d \in Nat : d = Done(c)
  BY CountFacts DEF ServerInv
<1>2. PICK q \in Nat : q = Complete(c)
  BY CountFacts DEF ServerInv
<1>3. q = d \div kWireSize /\ Cut(c) = kWireSize * q /\ kWireSize * q \in Nat
      /\ Complete(c)' = (d + take) \div kWireSize /\ Cut(c)' = kWireSize * Complete(c)'
      /\ kWireSize \in Nat \ {0} /\ take \in Nat
  BY <1>1, <1>2, CountFacts, Constants DEF Complete, Cut, ServerInv
<1>4. CASE Done(c) - Cut(c) + take < kWireSize
  <2>1. d + take < kWireSize * (d \div kWireSize) + kWireSize
    BY <1>1, <1>3, <1>4
  <2>2. (d + take) \div kWireSize = d \div kWireSize
    BY <1>3, <2>1, DivSame
  <2> QED BY <1>2, <1>3, <1>4, <2>2
<1>5. CASE Done(c) - Cut(c) + take = kWireSize
  <2>1. d + take = kWireSize * (d \div kWireSize) + kWireSize
    BY <1>1, <1>3, <1>5
  <2>2. (d + take) \div kWireSize = (d \div kWireSize) + 1
        /\ kWireSize * ((d + take) \div kWireSize) = d + take
    <3>1. kWireSize \in Nat \ {0} /\ take \in Nat
      BY <1>3, Zenon
    <3> QED BY <2>1, <3>1, DivNext, Zenon
  <2> QED BY <1>1, <1>2, <1>3, <1>5, <2>1, <2>2
<1> QED BY <1>4, <1>5

\* What a step does to the frame that is put together for a descriptor, when it
\* is not the next round of consume_frames.
LEMMA FrameStep ==
    ASSUME ServerInv, [Next]_vars, ~(IoConsume /\ Quiet), NEW f \in Fds, fdConn'[f] # "none"
    PROVE  \/ fdConn'[f] = fdConn[f] /\ conns'[f].frame = conns[f].frame
           \/ /\ fdConn'[f] \in Conns /\ conns'[f].frame = <<>>
              /\ ioPc # "consume" /\ read[fdConn'[f]] = 0
<1> USE DEF handle, main, locals, peers, kernel, pool, Quiet
<1>0. ServerType /\ Table
  BY DEF ServerInv
<1>1. ASSUME UNCHANGED <<fdConn, conns>>
      PROVE  fdConn'[f] = fdConn[f] /\ conns'[f].frame = conns[f].frame
  BY <1>1
<1>2. ASSUME NEW g \in watched, CloseConn(g)
      PROVE  fdConn'[f] = fdConn[f] /\ conns'[f].frame = conns[f].frame
  BY <1>0, <1>2 DEF CloseConn, ServerType
<1>3. ASSUME NEW fd \in Fds, NEW added \in BOOLEAN, IoAccept(fd, added)
      PROVE  \/ fdConn'[f] = fdConn[f] /\ conns'[f].frame = conns[f].frame
             \/ /\ fdConn'[f] \in Conns /\ conns'[f].frame = <<>>
                /\ ioPc # "consume" /\ read[fdConn'[f]] = 0
  <2>1. PICK c \in Conns : /\ read[c] = 0 /\ (Accepted(c, fd) \/ Refused(c))
                           /\ fdConn[fd] = "none"
    BY <1>0, <1>3, AcceptFacts, Zenon
  <2>2. CASE Refused(c)
    BY <2>2 DEF Refused
  <2>3. CASE Accepted(c, fd)
    <3>1. CASE f = fd
      <4>1. fdConn'[f] = c /\ conns'[f] = [used |-> TRUE, frame |-> <<>>]
        BY <1>0, <2>1, <2>3, <3>1, Zenon DEF Accepted, ServerType
      <4>2. ioPc # "consume"
        BY <1>3 DEF IoAccept
      <4>3. conns'[f].frame = <<>>
        <5>1. [used |-> TRUE, frame |-> <<>>].frame = <<>>
          OBVIOUS
        <5> QED BY <4>1, <5>1, Zenon
      <4> QED BY <2>1, <4>1, <4>2, <4>3, Zenon
    <3>2. CASE f # fd
      BY <1>0, <2>1, <2>3, <3>2 DEF Accepted, ServerType
    <3> QED BY <3>1, <3>2
  <2> QED BY <2>1, <2>2, <2>3, Zenon
<1>4. (IoSetupFails \/ IoListen \/ IoWakeFd \/ IoCleanup \/ IoWhile \/ IoWait \/ IoWaitFails
        \/ IoEventsDone \/ IoEventWake \/ (\E e \in Fds \cup {Listen} : IoEventRead(e))
        \/ IoAccepted \/ IoRecv \/ IoRecvDrained \/ IoConsumed
        \/ Start \/ Stop \/ StopReadWake \/ StopWrite \/ StopJoin \/ Consume
        \/ (\E c \in Conns : ClientConnect(c)) \/ (\E c \in Conns : ClientSend(c))
        \/ (\E c \in Conns : ClientClose(c)) \/ UNCHANGED vars) =>
      UNCHANGED <<fdConn, conns>>
  BY Zenon DEF IoSetupFails, IoListen, IoWakeFd, IoCleanup, IoWhile, IoWait, IoWaitFails,
         IoEventsDone, IoEventWake, IoEventRead, IoAccepted, IoRecv, IoRecvDrained, IoConsumed,
         Goto, Start, Stop, StopReadWake, StopWrite, StopJoin, Consume, ClientConnect,
         ClientSend, ClientClose, vars
<1>5. ASSUME NEW g \in Fds, IoEventHup(g) PROVE g \in watched /\ CloseConn(g)
  BY <1>0, <1>5 DEF IoEventHup, Table
<1>6. (IoRecvEof \/ IoRecvFails) =>
      UNCHANGED <<fdConn, conns>> \/ (cur \in watched /\ CloseConn(cur))
  BY <1>0, Zenon DEF IoRecvEof, IoRecvFails, Table, Reading
<1> HIDE DEF Quiet
<1> QED BY ServerSteps, <1>1, <1>2, <1>3, <1>4, <1>5, <1>6, Zenon

\* What is read comes from the client.
LEMMA BoundStep ==
    ASSUME ServerInv, [Next]_vars
    PROVE  \A c \in Conns : read'[c] <= sent'[c] /\ sent'[c] <= MaxBytes[c]
<1> USE DEF handle, main, locals, peers, kernel, pool, Quiet
<1>0. /\ ServerType /\ Table
      /\ \A c \in Conns : /\ read[c] <= sent[c] /\ sent[c] <= MaxBytes[c]
                          /\ read[c] \in Nat /\ sent[c] \in Nat /\ MaxBytes[c] \in Nat
  BY Constants DEF ServerInv, Streams, ServerType
<1>1. CASE UNCHANGED <<read, sent>>
  BY <1>0, <1>1
<1>2. CASE IoRecv /\ Quiet
  <2>1. PICK c \in Conns : c = fdConn[cur]
    BY <1>0, <1>2, CurFacts, Zenon DEF IoRecv, Reading
  <2>2. Unread(c) \in Int /\ BUF_SIZE \in Int
    BY <1>0, Constants DEF Unread
  <2>3. PICK n \in Int : n = Lesser(Unread(c), BUF_SIZE)
    BY <2>2, LesserOf, Zenon
  <2>4. n <= Unread(c)
    <3>1. Lesser(Unread(c), BUF_SIZE) = IF Unread(c) <= BUF_SIZE THEN Unread(c) ELSE BUF_SIZE
      BY <2>2, LesserOf, Zenon
    <3> QED BY <2>2, <2>3, <3>1
  <2>5. read' = [read EXCEPT ![c] = @ + n] /\ sent' = sent
    BY <1>2, <2>1, <2>3, Zenon DEF IoRecv
  <2>6. read[c] + n <= sent[c]
    BY <1>0, <2>4 DEF Unread
  <2> QED BY <1>0, <2>5, <2>6 DEF ServerType
<1>3. ASSUME NEW c \in Conns, ClientSend(c)
      PROVE  \A d \in Conns : read'[d] <= sent'[d] /\ sent'[d] <= MaxBytes[d]
  <2>1. read' = read /\ sent[c] < MaxBytes[c] /\ sent' = [sent EXCEPT ![c] = @ + 1]
    BY <1>3, Zenon DEF ClientSend
  <2>2. sent \in [Conns -> Nat] /\ read \in [Conns -> Nat]
    BY <1>0, Zenon DEF ServerType
  <2> QED BY <1>0, <2>1, <2>2
<1>4. ((IoSetupFails \/ IoListen \/ IoWakeFd \/ IoCleanup \/ IoWhile \/ IoWait \/ IoWaitFails
        \/ IoEventsDone \/ IoEventWake \/ (\E e \in Fds \cup {Listen} : IoEventRead(e))
        \/ (\E f \in Fds : IoEventHup(f))
        \/ (\E fd \in Fds, added \in BOOLEAN : IoAccept(fd, added))
        \/ IoAccepted \/ IoRecvDrained \/ IoRecvEof \/ IoRecvFails \/ IoConsumed \/ IoConsume)
         /\ Quiet)
      \/ Start \/ Stop \/ StopReadWake \/ StopWrite \/ StopJoin \/ Consume
      \/ (\E c \in Conns : ClientConnect(c)) \/ (\E c \in Conns : ClientClose(c))
      \/ UNCHANGED vars => UNCHANGED <<read, sent>>
  BY Zenon DEF IoSetupFails, IoListen, IoWakeFd, IoCleanup, IoWhile, IoWait, IoWaitFails, IoEventsDone,
         IoEventWake, IoEventRead, IoEventHup, IoAccept, IoAccepted, IoRecvDrained, IoRecvEof,
         IoRecvFails, IoConsumed, IoConsume, Goto, Start, Stop, StopReadWake, StopWrite, StopJoin,
         Consume, ClientConnect, ClientClose, vars
<1> HIDE DEF Quiet
<1> QED BY ServerSteps, <1>1, <1>2, <1>3, <1>4, Zenon

\* Until the next round, the bytes at hand stay what they are.
LEMMA ChunkStep ==
    ASSUME ServerInv, [Next]_vars, ~(IoConsume /\ Quiet), ioPc' = "consume"
    PROVE  \/ UNCHANGED <<ioPc, fdConn, cur, chunk>>
           \/ \E c \in Conns, n \in Nat :
                /\ fdConn'[cur'] = c /\ ioPc # "consume"
                /\ chunk' = Stream(c, read[c], n) /\ Len(chunk') = n
<1> USE DEF handle, main, locals, peers, kernel, pool, Quiet
<1>0. ServerType /\ Table /\ Threads
  BY DEF ServerInv
<1>1. ASSUME IoRecv
      PROVE  \E c \in Conns, n \in Nat :
                /\ fdConn'[cur'] = c /\ ioPc # "consume"
                /\ chunk' = Stream(c, read[c], n) /\ Len(chunk') = n
  <2>1. PICK c \in Conns : c = fdConn[cur] /\ conns[cur].used
    BY <1>0, <1>1, CurFacts, Zenon DEF IoRecv, Reading
  <2>2. PICK n \in Int : n = Lesser(Unread(c), BUF_SIZE)
    <3>1. Unread(c) \in Int /\ BUF_SIZE \in Int
      BY <1>0, <2>1, Constants DEF ServerType, Unread
    <3> QED BY <3>1, LesserOf
  <2>3. n > 0 /\ chunk' = Stream(c, read[c], n)
    BY <1>1, <2>1, <2>2 DEF IoRecv
  <2>4. read[c] \in Nat /\ n \in Nat
    BY <1>0, <2>1, <2>3 DEF ServerType
  <2>5. Len(chunk') = n
    BY <2>3, <2>4, StreamFacts, Zenon
  <2>6. fdConn'[cur'] = c /\ ioPc # "consume"
    BY <1>1, <2>1 DEF IoRecv
  <2> QED BY <2>1, <2>3, <2>4, <2>5, <2>6
<1>2. (IoSetupFails \/ IoListen \/ IoWakeFd \/ IoCleanup \/ IoWhile \/ IoWait \/ IoWaitFails
        \/ IoEventsDone \/ IoEventWake \/ (\E e \in Fds \cup {Listen} : IoEventRead(e))
        \/ (\E f \in Fds : IoEventHup(f))
        \/ (\E fd \in Fds, added \in BOOLEAN : IoAccept(fd, added))
        \/ IoAccepted \/ IoRecvDrained \/ IoRecvEof \/ IoRecvFails \/ IoConsumed
        \/ Start \/ StopJoin) => ioPc' # "consume"
  BY <1>0, Zenon DEF IoSetupFails, IoListen, IoWakeFd, IoCleanup, IoWhile, IoWait, IoWaitFails,
         IoEventsDone, IoEventWake, IoEventRead, IoEventHup, IoAccept, IoAccepted, IoRecvDrained,
         IoRecvEof, IoRecvFails, IoConsumed, RecvAgain, Goto, Start, StopJoin, Threads
<1>3. (Stop \/ StopReadWake \/ StopWrite \/ Consume
        \/ (\E c \in Conns : ClientConnect(c)) \/ (\E c \in Conns : ClientSend(c))
        \/ (\E c \in Conns : ClientClose(c)) \/ UNCHANGED vars) =>
      UNCHANGED <<ioPc, fdConn, cur, chunk>>
  BY Zenon DEF Stop, StopReadWake, StopWrite, Consume, ClientConnect, ClientSend, ClientClose, vars
<1> HIDE DEF Quiet
<1> QED BY ServerSteps, <1>1, <1>2, <1>3, Zenon

LEMMA StreamsStep ==
    ASSUME ServerInv, [Next]_vars
    PROVE  Streams'
<1>0. ServerType /\ Table /\ Streams
  BY DEF ServerInv
<1>1. \A c \in Conns : read'[c] <= sent'[c] /\ sent'[c] <= MaxBytes[c]
  BY BoundStep
<1>2. CASE ~(IoConsume /\ Quiet)
  <2>1. \A c \in Conns : Done(c)' = Done(c) /\ Done(c) \in Nat
    BY <1>0, <1>2, DoneStep, CountFacts
  <2>2. \A c \in Conns : Cut(c)' = Cut(c)
    BY <2>1 DEF Cut, Complete
  <2>3. ASSUME NEW f \in Fds, fdConn'[f] # "none"
        PROVE  conns'[f].frame =
                 Stream(fdConn'[f], Cut(fdConn[f])', Done(fdConn[f])' - Cut(fdConn[f])')
    <3>1. PICK c \in Conns : c = fdConn'[f]
      BY <2>3, TypeStep DEF ServerType
    <3>2. Cut(fdConn[f])' = Cut(c) /\ Done(fdConn[f])' = Done(c)
      <4>1. Cut(fdConn[f])' = Cut(c)'
        BY <3>1 DEF Cut, Complete, Done, Pending
      <4>2. Done(fdConn[f])' = Done(c)'
        BY <3>1 DEF Done, Pending
      <4> QED BY <2>1, <2>2, <4>1, <4>2
    <3>3. CASE fdConn'[f] = fdConn[f] /\ conns'[f].frame = conns[f].frame
      <4>1. conns[f].frame = Stream(c, Cut(c), Done(c) - Cut(c))
        BY <1>0, <2>3, <3>1, <3>3 DEF Streams
      <4> QED BY <3>1, <3>2, <3>3, <4>1, Zenon
    <3>4. CASE /\ fdConn'[f] \in Conns /\ conns'[f].frame = <<>>
               /\ ioPc # "consume" /\ read[fdConn'[f]] = 0
      <4>1. Done(c) = 0
        <5>1. read[c] = 0 /\ Pending(c) = 0
          BY <3>1, <3>4 DEF Pending
        <5> QED BY <5>1 DEF Done
      <4>2. Cut(c) = 0
        BY <1>0, <4>1, CountFacts
      <4>3. Stream(c, 0, 0) = <<>> /\ 0 - 0 = 0
        BY StreamNone
      <4> QED BY <3>1, <3>2, <3>4, <4>1, <4>2, <4>3
    <3> QED BY <1>2, <2>3, <3>3, <3>4, FrameStep, Zenon
  <2>4. ASSUME ioPc' = "consume"
        PROVE  chunk' = Stream(fdConn'[cur'], Done(fdConn[cur])', Len(chunk'))
    <3>1. CASE UNCHANGED <<ioPc, fdConn, cur, chunk>>
      <4>1. ioPc \in Reading
        BY <2>4, <3>1 DEF Reading
      <4>2. PICK c \in Conns : c = fdConn[cur]
        BY <1>0, <4>1, CurFacts
      <4>3. Done(fdConn[cur])' = Done(c)'
        BY <3>1, <4>2 DEF Done, Pending
      <4>4. chunk = Stream(c, Done(c), Len(chunk))
        BY <1>0, <2>4, <3>1, <4>2 DEF Streams
      <4> QED BY <2>1, <3>1, <4>2, <4>3, <4>4
    <3>2. ASSUME NEW c \in Conns, NEW n \in Nat, fdConn'[cur'] = c, ioPc # "consume",
                 chunk' = Stream(c, read[c], n), Len(chunk') = n
          PROVE  chunk' = Stream(fdConn'[cur'], Done(fdConn[cur])', Len(chunk'))
      <4>1. Done(fdConn[cur])' = Done(c)'
        BY <3>2 DEF Done, Pending
      <4>2. Done(c) = read[c]
        BY <1>0, <3>2 DEF Done, Pending, ServerType
      <4> QED BY <2>1, <3>2, <4>1, <4>2
    <3> QED BY <1>2, <2>4, <3>1, <3>2, ChunkStep
  <2> QED BY <1>1, <2>1, <2>3, <2>4, Zenon DEF Streams
<1>3. CASE IoConsume /\ Quiet
  <2>1. PICK c \in Conns, take \in 1..Len(chunk), frame \in Seq(Bytes) :
           /\ c = fdConn[cur] /\ cur \in Fds
           /\ frame = Stream(c, Cut(c), Done(c) - Cut(c) + take)
           /\ Done(c) - Cut(c) + take <= kWireSize
           /\ Len(frame) = Done(c) - Cut(c) + take
           /\ chunk' = Stream(c, Done(c) + take, Len(chunk) - take)
           /\ IF Len(frame) = kWireSize
              THEN Enqueue(frame) /\ conns' = [conns EXCEPT ![cur].frame = <<>>]
              ELSE /\ conns' = [conns EXCEPT ![cur].frame = frame]
                   /\ UNCHANGED <<free, ready, slots, drops>>
    BY <1>0, <1>3, ConsumeFacts
  <2>2. /\ Done(c)' = Done(c) + take /\ \A d \in Conns : d # c => Done(d)' = Done(d)
        /\ Len(chunk') = Len(chunk) - take
    BY <1>3, <2>1, ConsumeDone
  <2>3. \A d \in Conns : Done(d) \in Nat
    BY <1>0, CountFacts
  <2>4. take \in Nat \ {0}
    OBVIOUS
  <2>5. \A d \in Conns : Done(d)' \in Nat
    BY <2>2, <2>3, <2>4
  <2>6. UNCHANGED <<fdConn, cur, ioPc>>
    BY <1>3 DEF IoConsume, kernel
  <2>7. \A d \in Conns : d # c => Cut(d)' = Cut(d)
    BY <2>2 DEF Cut, Complete
  <2>8. \A f \in Fds : fdConn[f] = c => f = cur
    BY <1>0, <1>3, <2>1, CurFacts DEF IoConsume, Reading
  <2>9. conns'[cur].frame = Stream(c, Cut(c)', Done(c)' - Cut(c)')
    <3>1. PICK cut \in Nat : cut = Cut(c)
      BY <1>0, CountFacts
    <3>2. PICK d \in Nat : d = Done(c)
      BY <2>3
    <3>3. CASE Done(c) - Cut(c) + take = kWireSize
      <4>1. conns' = [conns EXCEPT ![cur].frame = <<>>]
        BY <2>1, <3>3
      <4>2. conns'[cur].frame = <<>>
        BY <1>0, <2>1, <4>1 DEF ServerType
      <4>3. Cut(c)' = Done(c)' /\ Done(c)' = d + take
        BY <2>1, <2>2, <2>4, <3>2, <3>3, ConsumeCut
      <4>4. Stream(c, d + take, 0) = <<>> /\ (d + take) - (d + take) = 0
        BY <2>4, StreamNone
      <4> QED BY <4>2, <4>3, <4>4
    <3>4. CASE Done(c) - Cut(c) + take # kWireSize
      <4>1. conns' = [conns EXCEPT ![cur].frame = frame]
        BY <2>1, <3>4
      <4>2. conns'[cur].frame = frame
        BY <1>0, <2>1, <4>1 DEF ServerType
      <4>3. d - cut + take < kWireSize
        BY <2>1, <3>1, <3>2, <3>4, Constants
      <4>4. Cut(c)' = cut /\ Done(c)' = d + take
        BY <2>1, <2>2, <2>4, <3>1, <3>2, <4>3, ConsumeCut
      <4>5. d - cut + take = (d + take) - cut
        BY <2>4
      <4> QED BY <2>1, <3>1, <3>2, <4>2, <4>4, <4>5
    <3> QED BY <3>3, <3>4
  <2>10. ASSUME NEW f \in Fds, fdConn'[f] # "none"
         PROVE  conns'[f].frame =
                  Stream(fdConn'[f], Cut(fdConn[f])', Done(fdConn[f])' - Cut(fdConn[f])')
    <3>1. PICK d \in Conns : d = fdConn[f]
      BY <1>0, <2>6, <2>10 DEF ServerType
    <3>2. Cut(fdConn[f])' = Cut(d)' /\ Done(fdConn[f])' = Done(d)'
      BY <2>6, <3>1 DEF Cut, Complete, Done, Pending
    <3>3. CASE f = cur
      BY <2>1, <2>6, <2>9, <3>1, <3>2, <3>3
    <3>4. CASE f # cur
      <4>1. d # c
        BY <2>8, <3>1, <3>4
      <4>2. conns'[f].frame = conns[f].frame
        BY <1>0, <2>1, <3>4 DEF ServerType
      <4>3. conns[f].frame = Stream(d, Cut(d), Done(d) - Cut(d))
        BY <1>0, <2>6, <2>10, <3>1 DEF Streams
      <4> QED BY <2>2, <2>6, <2>7, <3>1, <3>2, <4>1, <4>2, <4>3, Zenon
    <3> QED BY <3>3, <3>4
  <2>11. chunk' = Stream(fdConn'[cur'], Done(fdConn[cur])', Len(chunk'))
    <3>1. Done(fdConn[cur])' = Done(c)'
      BY <2>1, <2>6 DEF Done, Pending
    <3> QED BY <2>1, <2>2, <2>6, <3>1
  <2> QED BY <1>1, <2>5, <2>10, <2>11 DEF Streams
<1> QED BY <1>2, <1>3
=============================================================================
