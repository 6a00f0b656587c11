---------------------------- MODULE WakeListener ----------------------------
(***************************************************************************)
(* The wake listener (wake.py) in the sleep loop of _wait_for_wake: UDP    *)
(* sockets that the kernel fills at any time, a loop that reads one packet *)
(* of a ready socket after the other and counts them by source, and a      *)
(* periodic update during which nobody reads.                              *)
(*                                                                         *)
(* Time is a coarse monotonic clock: reading takes no time, updates do.    *)
(***************************************************************************)
EXTENDS Integers, Sequences, FiniteSets

CONSTANTS
  Ports,            \* the listener's ports
  Sources,          \* source addresses
  Allowed,          \* those that _allowed accepts under the source policy
  PacketCount,      \* packet_count
  Window,           \* packet_window_seconds
  MaxTracked,       \* MAX_TRACKED_SOURCES
  IgnoreEmpty,      \* ignore_empty_packets
  BufferSize,       \* packets the kernel keeps for one socket
  MaxTime, MaxPackets  \* bounds: the clock, and the packets that are ever sent

ASSUME AllowedAssumption == Allowed \subseteq Sources
ASSUME CountAssumption   == PacketCount \in Nat \ {0} /\ Window \in Nat
ASSUME TrackedAssumption == MaxTracked \in Nat \ {0}
ASSUME BufferAssumption  == BufferSize \in Nat \ {0} /\ IgnoreEmpty \in BOOLEAN
ASSUME BoundAssumption   == MaxTime \in Nat /\ MaxPackets \in Nat

VARIABLES
  now,              \* time.monotonic()
  phase,            \* of the sleep loop; in "woken" the sockets are closed again
  buffer,           \* for each socket what its kernel buffer holds
  history,          \* self._history: for each tracked source the times of its packets
  log,              \* history: all packets counted since the sockets were opened
  evicted,          \* history: a source has been dropped for want of room
  source,           \* the source of the last packet counted
  sent              \* packets sent so far

vars == <<now, phase, buffer, history, log, evicted, source, sent>>

Time == 0 .. MaxTime
Packet == [source : Sources, empty : BOOLEAN, arrived : Time]
NoPackets == [p \in Ports |-> <<>>]
NoReads == [s \in Sources |-> <<>>]
Open == phase \in {"listening", "updating"}

TypeOK ==
  /\ now \in Time
  /\ phase \in {"closed", "listening", "updating", "woken"}
  /\ buffer \in [Ports -> Seq(Packet)]
  /\ \A p \in Ports : Len(buffer[p]) <= BufferSize /\ (~Open => buffer[p] = <<>>)
  /\ DOMAIN history \subseteq Allowed
  /\ \A s \in DOMAIN history : history[s] \in Seq(Time) \ {<<>>}
  /\ log \in [Sources -> Seq([read : Time, arrived : Time])]
  /\ evicted \in BOOLEAN
  /\ source \in Sources
  /\ sent \in 0 .. MaxPackets

Init ==
  /\ now = 0 /\ phase = "closed" /\ buffer = NoPackets
  /\ history = [s \in {} |-> <<>>] /\ log = NoReads /\ evicted = FALSE
  /\ source \in Sources /\ sent = 0

-----------------------------------------------------------------------------
(* The packet history *)

\* Mutant of FirstFresh: nothing is ever forgotten.
FirstOfAll(times) == 1
\* Mutant of FirstFresh: a packet exactly as old as the window is dropped.
FirstFreshExclusive(times) ==
  CHOOSE n \in 1 .. Len(times) + 1 :
    /\ \A i \in 1 .. n - 1 : times[i] <= now - Window
    /\ n <= Len(times) => times[n] > now - Window

\* Where popleft stops: at the first time that is in the window.
FirstFresh(times) ==
  CHOOSE n \in 1 .. Len(times) + 1 :
    /\ \A i \in 1 .. n - 1 : times[i] < now - Window
    /\ n <= Len(times) => times[n] >= now - Window

Fresh(times) == SubSeq(times, FirstFresh(times), Len(times))

\* _prune_history: sources without a packet in the window are forgotten.
Pruned == [s \in {x \in DOMAIN history : Fresh(history[x]) # <<>>} |-> Fresh(history[s])]

Latest(h, s) == h[s][Len(h[s])]

\* The source heard from least recently, the first of the OrderedDict; sources
\* that differ by less than the clock's unit are taken in either order.
Oldest(h) == {s \in DOMAIN h : \A x \in DOMAIN h : Latest(h, s) <= Latest(h, x)}

\* Mutant of RoomFor: the number of sources is not limited.
UnlimitedRoomFor(s) == {Pruned}

\* The pruned history with room for source s.
RoomFor(s) ==
  IF s \in DOMAIN Pruned \/ Cardinality(DOMAIN Pruned) < MaxTracked
  THEN {Pruned}
  ELSE {[x \in DOMAIN Pruned \ {o} |-> Pruned[x]] : o \in Oldest(Pruned)}

\* History h after one more packet of source s, which moves it to the end.
Counted(h, s) ==
  [x \in DOMAIN h \cup {s} |->
     IF x # s THEN h[x] ELSE Append(IF s \in DOMAIN h THEN h[s] ELSE <<>>, now)]

-----------------------------------------------------------------------------
(* The sleep loop *)

\* A new WakeListener binds its sockets.
OpenSockets ==
  /\ ~Open
  /\ phase' = "listening"
  /\ history' = [s \in {} |-> <<>>] /\ log' = NoReads /\ evicted' = FALSE
  /\ UNCHANGED <<now, buffer, source, sent>>

Ignored(packet) == (IgnoreEmpty /\ packet.empty) \/ packet.source \notin Allowed

\* A packet of a ready socket that does not count.
Ignore(p) ==
  /\ phase = "listening" /\ buffer[p] # <<>> /\ Ignored(Head(buffer[p]))
  /\ buffer' = [buffer EXCEPT ![p] = Tail(@)]
  /\ UNCHANGED <<now, phase, history, log, evicted, source, sent>>

\* A packet that counts: _record_packet, and when it completes the number the
\* listener closes its sockets, with whatever they still hold.
Accept(p) ==
  /\ phase = "listening" /\ buffer[p] # <<>> /\ ~Ignored(Head(buffer[p]))
  /\ LET packet == Head(buffer[p]) IN
       /\ source' = packet.source
       /\ log' = [log EXCEPT ![packet.source] =
                   Append(@, [read |-> now, arrived |-> packet.arrived])]
       /\ \E h \in RoomFor(packet.source) :
            /\ history' = Counted(h, packet.source)
            /\ evicted' = (evicted \/ h # Pruned)
       /\ IF Len(history'[packet.source]) >= PacketCount
          THEN phase' = "woken" /\ buffer' = NoPackets
          ELSE phase' = phase /\ buffer' = [buffer EXCEPT ![p] = Tail(@)]
  /\ UNCHANGED <<now, sent>>

\* The periodic update; the sockets stay bound and nobody reads them.
UpdateBegins ==
  /\ phase = "listening" /\ phase' = "updating"
  /\ UNCHANGED <<now, buffer, history, log, evicted, source, sent>>

UpdateEnds ==
  /\ phase = "updating" /\ phase' = "listening"
  /\ UNCHANGED <<now, buffer, history, log, evicted, source, sent>>

\* A manual wake, a shutdown, or an exception: finally listener.close().
Close ==
  /\ Open
  /\ phase' = "closed" /\ buffer' = NoPackets
  /\ UNCHANGED <<now, history, log, evicted, source, sent>>

-----------------------------------------------------------------------------
(* The network and the clock *)

\* A packet for a bound port; the kernel drops it when the buffer is full.
Arrive(p) ==
  /\ Open /\ sent < MaxPackets /\ Len(buffer[p]) < BufferSize
  /\ \E s \in Sources, e \in BOOLEAN :
       buffer' = [buffer EXCEPT ![p] = Append(@, [source |-> s, empty |-> e, arrived |-> now])]
  /\ sent' = sent + 1
  /\ UNCHANGED <<now, phase, history, log, evicted, source>>

\* select returns at once while a socket is ready.
Tick ==
  /\ now < MaxTime
  /\ phase = "listening" => buffer = NoPackets
  /\ now' = now + 1
  /\ UNCHANGED <<phase, buffer, history, log, evicted, source, sent>>

Next ==
  \/ OpenSockets \/ UpdateBegins \/ UpdateEnds \/ Close \/ Tick
  \/ \E p \in Ports : Ignore(p) \/ Accept(p) \/ Arrive(p)

Spec == Init /\ [][Next]_vars

-----------------------------------------------------------------------------
(* Properties *)

\* The last PacketCount packets counted of a source s.
LastOf(s) == SubSeq(log[s], Len(log[s]) - PacketCount + 1, Len(log[s]))

\* A wake means that one source, and an allowed one, had its last PacketCount
\* packets read within the window (wake.py:105-125, 150-153), whatever other
\* sources sent in between and whichever were dropped for want of room.
WakeJustified ==
  phase = "woken" =>
    /\ source \in Allowed /\ Len(log[source]) >= PacketCount
    /\ LastOf(source)[PacketCount].read - LastOf(source)[1].read <= Window

\* While the listener goes on listening and has dropped no source, no source
\* has had PacketCount packets read within the window (wake.py:105-125): pruning
\* on behalf of one source, the change of port or an update in between makes it
\* miss no wake.
NoWakeMissed ==
  Open /\ ~evicted =>
    \A s \in Allowed : \A i \in 1 .. Len(log[s]) - PacketCount + 1 :
      log[s][i + PacketCount - 1].read - log[s][i].read > Window

\* The history is "time-pruned and capped" (docs/CONFIGURATION.md:55): never more
\* sources than the limit nor, while it listens, PacketCount times of one source.
HistoryBounded ==
  /\ Cardinality(DOMAIN history) <= MaxTracked
  /\ Open => \A s \in DOMAIN history : Len(history[s]) < PacketCount

\* "Number of packets from one source IP required inside the packet window"
\* (docs/CONFIGURATION.md:50): the packets that wake were received within it.
WindowByArrival ==
  phase = "woken" =>
    \A i, j \in 1 .. PacketCount :
      LastOf(source)[i].arrived - LastOf(source)[j].arrived <= Window
=============================================================================
