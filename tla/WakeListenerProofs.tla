------------------------- MODULE WakeListenerProofs -------------------------
(***************************************************************************)
(* Theorems about WakeListener, for any sources, ports, threshold, window  *)
(* and limits: a wake has its packets within the window, none is missed    *)
(* unless a source was dropped, and the history stays within its limits.   *)
(***************************************************************************)
EXTENDS WakeListener, FiniteSetTheorems, SequenceTheorems, WellFoundedInduction, TLAPS

\* The times of a source are in order, and none lies in the future.
SortedInv ==
  \A s \in DOMAIN history : \A i, j \in 1 .. Len(history[s]) :
    history[s][i] <= now /\ (i <= j => history[s][i] <= history[s][j])

\* They are the times of the last packets counted of the source.
SuffixInv ==
  \A s \in DOMAIN history :
    /\ Len(history[s]) <= Len(log[s])
    /\ \A k \in 1 .. Len(history[s]) :
         history[s][k] = log[s][Len(log[s]) - Len(history[s]) + k].read

Kept(s) == IF s \in DOMAIN history THEN Len(history[s]) ELSE 0

\* Without this NoWakeMissed is not inductive: a packet that has left the
\* history for another reason than the room is older than the window.
StaleInv ==
  Open /\ ~evicted =>
    \A s \in Allowed : \A k \in 1 .. Len(log[s]) - Kept(s) : log[s][k].read < now - Window

IInv == /\ TypeOK /\ SortedInv /\ SuffixInv /\ StaleInv
        /\ IsFiniteSet(DOMAIN history) /\ HistoryBounded /\ NoWakeMissed /\ WakeJustified

-----------------------------------------------------------------------------
(* The packet history *)

\* The loop of _prune_history stops where FirstFresh says.
LEMMA FirstFreshFound ==
  ASSUME NEW times \in Seq(Int), now \in Int
  PROVE  /\ FirstFresh(times) \in 1 .. Len(times) + 1
         /\ \A i \in 1 .. FirstFresh(times) - 1 : times[i] < now - Window
         /\ FirstFresh(times) <= Len(times) => times[FirstFresh(times)] >= now - Window
<1> DEFINE T == {n \in 1 .. Len(times) + 1 : n <= Len(times) => times[n] >= now - Window}
<1>1. T \subseteq Nat /\ Len(times) + 1 \in T
  OBVIOUS
<1>2. PICK n \in T : \A m \in T : ~(<<m, n>> \in OpToRel(<, Nat))
  <2>1. IsWellFoundedOn(OpToRel(<, Nat), Nat)
    BY NatLessThanWellFounded
  <2> HIDE DEF T
  <2> QED BY <1>1, <2>1, WFMin
<1>3. \A m \in T : ~(m < n)
  BY <1>1, <1>2 DEF OpToRel
<1>4. \A i \in 1 .. n - 1 : times[i] < now - Window
  <2> SUFFICES ASSUME NEW i \in 1 .. n - 1 PROVE times[i] < now - Window
    OBVIOUS
  <2>1. i \notin T
    BY <1>1, <1>3
  <2> QED BY <2>1, CountAssumption
<1> QED BY <1>2, <1>4 DEF FirstFresh

\* What pruning keeps of sorted times: the last of them, all in the window.
LEMMA FreshFacts ==
  ASSUME now \in Time, NEW times \in Seq(Time),
         \A i, j \in 1 .. Len(times) : i <= j => times[i] <= times[j]
  PROVE  /\ Fresh(times) \in Seq(Time) /\ Len(Fresh(times)) <= Len(times)
         /\ \A k \in 1 .. Len(Fresh(times)) :
              /\ Fresh(times)[k] = times[Len(times) - Len(Fresh(times)) + k]
              /\ Fresh(times)[k] >= now - Window
         /\ \A k \in 1 .. Len(times) - Len(Fresh(times)) : times[k] < now - Window
<1> DEFINE n == FirstFresh(times)
<1>1. times \in Seq(Int) /\ now \in Int /\ Time \subseteq Int
  BY BoundAssumption DEF Time
<1>2. /\ n \in 1 .. Len(times) + 1
      /\ \A i \in 1 .. n - 1 : times[i] < now - Window
      /\ n <= Len(times) => times[n] >= now - Window
  BY <1>1, FirstFreshFound
<1> HIDE DEF n
<1>3. /\ Fresh(times) \in Seq(Time) /\ Len(Fresh(times)) = Len(times) - n + 1
      /\ \A k \in 1 .. Len(Fresh(times)) : Fresh(times)[k] = times[n - 1 + k]
  <2>1. Fresh(times) = SubSeq(times, n, Len(times))
    BY DEF Fresh, n
  <2> QED BY <1>2, <2>1
<1>4. ASSUME NEW k \in 1 .. Len(Fresh(times))
      PROVE  times[n - 1 + k] >= now - Window
  <2>1. n <= Len(times) /\ n - 1 + k \in 1 .. Len(times) /\ n \in 1 .. Len(times) /\ n <= n - 1 + k
    BY <1>2, <1>3
  <2>2. times[n] <= times[n - 1 + k] /\ times[n] >= now - Window
    BY <1>2, <2>1
  <2>3. times[n] \in Int /\ times[n - 1 + k] \in Int /\ now - Window \in Int
    BY <1>1, <2>1, CountAssumption
  <2> QED BY <2>2, <2>3
<1>5. Len(times) - Len(Fresh(times)) = n - 1 /\ Len(Fresh(times)) <= Len(times)
  BY <1>2, <1>3
<1> QED BY <1>2, <1>3, <1>4, <1>5

\* Positions counted from the end of one sequence and of another.
LEMMA OffsetOfOffset == \A a, b, c, k \in Int : a - b + (b - c + k) = a - c + k
  OBVIOUS
\* The same the other way round.
LEMMA OffsetAndBack == \A a, b, k \in Int : a - b + (k - (a - b)) = k
  OBVIOUS

\* What the history holds of source s when it is pruned now.
Recent(s) == IF s \in DOMAIN history THEN Fresh(history[s]) ELSE <<>>

\* It is the end of the source's log, sorted and in the window, and while the
\* listener has dropped no source everything before it is older than the window.
LEMMA RecentFacts ==
  ASSUME IInv, NEW s \in Allowed
  PROVE  /\ Recent(s) \in Seq(Time) /\ Len(Recent(s)) <= Len(log[s])
         /\ \A k \in 1 .. Len(Recent(s)) :
              /\ Recent(s)[k] = log[s][Len(log[s]) - Len(Recent(s)) + k].read
              /\ now - Window <= Recent(s)[k] /\ Recent(s)[k] <= now
         /\ \A i, j \in 1 .. Len(Recent(s)) : i <= j => Recent(s)[i] <= Recent(s)[j]
         /\ Open => Len(Recent(s)) < PacketCount
         /\ Open /\ ~evicted =>
              \A k \in 1 .. Len(log[s]) - Len(Recent(s)) : log[s][k].read < now - Window
<1> USE DEF IInv
<1>1. log[s] \in Seq([read : Time, arrived : Time]) /\ now \in Time
  BY AllowedAssumption DEF TypeOK
<1>2. CASE s \notin DOMAIN history
  <2>1. Recent(s) = <<>> /\ Kept(s) = 0
    BY <1>2 DEF Recent, Kept
  <2> QED BY <1>1, <2>1, CountAssumption DEF StaleInv
<1>3. CASE s \in DOMAIN history
  <2> DEFINE h == history[s]  r == Recent(s)
  <2>1. /\ h \in Seq(Time) /\ Kept(s) = Len(h)
        /\ \A i, j \in 1 .. Len(h) : h[i] <= now /\ (i <= j => h[i] <= h[j])
        /\ Open => Len(h) < PacketCount
    BY <1>3 DEF TypeOK, SortedInv, HistoryBounded, Kept
  <2>2. /\ Len(h) <= Len(log[s])
        /\ \A k \in 1 .. Len(h) : h[k] = log[s][Len(log[s]) - Len(h) + k].read
    BY <1>3 DEF SuffixInv
  <2>3. Open /\ ~evicted => \A k \in 1 .. Len(log[s]) - Len(h) : log[s][k].read < now - Window
    BY <2>1 DEF StaleInv
  <2>4. r = Fresh(h)
    BY <1>3 DEF Recent
  <2> HIDE DEF h, r
  <2>5. /\ r \in Seq(Time) /\ Len(r) <= Len(h)
        /\ \A k \in 1 .. Len(r) : r[k] = h[Len(h) - Len(r) + k] /\ r[k] >= now - Window
        /\ \A k \in 1 .. Len(h) - Len(r) : h[k] < now - Window
    BY <1>1, <2>1, <2>4, FreshFacts
  <2>6. Len(h) \in Nat /\ Len(r) \in Nat /\ Len(log[s]) \in Nat
    BY <1>1, <2>1, <2>5
  <2>7. \A k \in 1 .. Len(r) : Len(h) - Len(r) + k \in 1 .. Len(h)
    BY <2>5, <2>6
  <2>8. \A k \in 1 .. Len(r) : r[k] = log[s][Len(log[s]) - Len(r) + k].read
    <3> TAKE k \in 1 .. Len(r)
    <3>1. Len(log[s]) - Len(h) + (Len(h) - Len(r) + k) = Len(log[s]) - Len(r) + k
      <4>1. k \in Int /\ Len(log[s]) \in Int /\ Len(h) \in Int /\ Len(r) \in Int
        BY <2>6
      <4>2. \A c, d \in Int :
              Len(log[s]) - Len(h) + (Len(h) - c + d) = Len(log[s]) - c + d
        BY <4>1, OffsetOfOffset, Zenon
      <4> QED BY <4>1, <4>2, Zenon
    <3> QED BY <2>2, <2>5, <2>7, <3>1
  <2>9. /\ \A k \in 1 .. Len(r) : now - Window <= r[k] /\ r[k] <= now
        /\ \A i, j \in 1 .. Len(r) : i <= j => r[i] <= r[j]
    <3>1. \A k \in 1 .. Len(r) : now - Window <= r[k]
      <4> TAKE k \in 1 .. Len(r)
      <4>1. r[k] >= now - Window  BY <2>5
      <4> QED BY <4>1
    <3>2. \A k \in 1 .. Len(r) : r[k] <= now
      BY <2>1, <2>5, <2>7
    <3>3. ASSUME NEW i \in 1 .. Len(r), NEW j \in 1 .. Len(r), i <= j
          PROVE  r[i] <= r[j]
      <4>1. Len(h) - Len(r) + i <= Len(h) - Len(r) + j
        BY <2>6, <3>3
      <4>2. h[Len(h) - Len(r) + i] <= h[Len(h) - Len(r) + j]
        BY <2>1, <2>7, <4>1
      <4> QED BY <2>5, <4>2
    <3> QED BY <3>1, <3>2, <3>3
  <2>10. ASSUME Open, ~evicted, NEW k \in 1 .. Len(log[s]) - Len(r)
         PROVE  log[s][k].read < now - Window
    <3>1. CASE k <= Len(log[s]) - Len(h)
      BY <2>3, <2>6, <2>10, <3>1
    <3>2. CASE k > Len(log[s]) - Len(h)
      <4>1. k - (Len(log[s]) - Len(h)) \in 1 .. Len(h) - Len(r)
        BY <2>2, <2>6, <3>2
      <4>2. Len(log[s]) - Len(h) + (k - (Len(log[s]) - Len(h))) = k
        <5>1. k \in Int /\ Len(log[s]) \in Int /\ Len(h) \in Int
          BY <2>6
        <5> QED BY <5>1, OffsetAndBack, Zenon
      <4>3. k - (Len(log[s]) - Len(h)) \in 1 .. Len(h)
        BY <2>5, <2>6, <4>1
      <4>4. h[k - (Len(log[s]) - Len(h))] = log[s][k].read
        BY <2>2, <4>2, <4>3
      <4> QED BY <2>5, <4>1, <4>4
    <3> QED BY <2>6, <3>1, <3>2
  <2> QED BY <2>1, <2>2, <2>5, <2>6, <2>8, <2>9, <2>10, CountAssumption DEF r
<1> QED BY <1>2, <1>3

\* What _record_packet makes of the pruned history.
LEMMA RoomFacts ==
  ASSUME IInv, NEW s \in Allowed, NEW h \in RoomFor(s)
  PROVE  /\ DOMAIN h \subseteq DOMAIN history
         /\ \A x \in DOMAIN h : h[x] = Recent(x) /\ Recent(x) # <<>>
         /\ s \notin DOMAIN h => Recent(s) = <<>>
         /\ h = Pruned => \A x \in Allowed \ DOMAIN h : Recent(x) = <<>>
         /\ IsFiniteSet(DOMAIN h \cup {s}) /\ Cardinality(DOMAIN h \cup {s}) <= MaxTracked
<1> DEFINE D == {x \in DOMAIN history : Fresh(history[x]) # <<>>}
<1>1. /\ DOMAIN Pruned = D
      /\ \A x \in D : Pruned[x] = Recent(x) /\ Recent(x) # <<>>
      /\ \A x \in Allowed \ D : Recent(x) = <<>>
  BY DEF Pruned, Recent
<1>2. IsFiniteSet(D) /\ Cardinality(D) \in Nat /\ Cardinality(D) <= MaxTracked
  <2>1. D \subseteq DOMAIN history
    OBVIOUS
  <2>2. IsFiniteSet(DOMAIN history) /\ Cardinality(DOMAIN history) <= MaxTracked
    BY DEF IInv, HistoryBounded
  <2>3. /\ IsFiniteSet(D) /\ Cardinality(D) <= Cardinality(DOMAIN history)
    BY <2>1, <2>2, FS_Subset
  <2>4. Cardinality(D) \in Nat /\ Cardinality(DOMAIN history) \in Nat
    BY <2>2, <2>3, FS_CardinalityType
  <2> QED BY <2>2, <2>3, <2>4, TrackedAssumption
<1>3. D \subseteq DOMAIN history
  OBVIOUS
<1> HIDE DEF D
<1>4. CASE s \in D /\ h = Pruned
  <2>1. D \cup {s} = D
    BY <1>4
  <2> QED BY <1>1, <1>2, <1>3, <1>4, <2>1
<1>5. CASE s \notin D /\ Cardinality(D) < MaxTracked /\ h = Pruned
  <2>1. IsFiniteSet(D \cup {s}) /\ Cardinality(D \cup {s}) = Cardinality(D) + 1
    BY <1>2, <1>5, FS_AddElement
  <2>2. Cardinality(D \cup {s}) <= MaxTracked
    BY <1>2, <1>5, <2>1, TrackedAssumption
  <2> QED BY <1>1, <1>3, <1>5, <2>1, <2>2
<1>6. ASSUME s \notin D, NEW o \in D, h = [x \in D \ {o} |-> Pruned[x]]
      PROVE  /\ DOMAIN h = D \ {o} /\ h # Pruned /\ \A x \in DOMAIN h : h[x] = Pruned[x]
             /\ IsFiniteSet(DOMAIN h \cup {s}) /\ Cardinality(DOMAIN h \cup {s}) <= MaxTracked
  <2>1. DOMAIN h = D \ {o} /\ \A x \in DOMAIN h : h[x] = Pruned[x]
    BY <1>6
  <2>2. h # Pruned
    BY <1>1, <2>1
  <2>3. IsFiniteSet(D \ {o}) /\ Cardinality(D \ {o}) = Cardinality(D) - 1
    BY <1>2, FS_RemoveElement
  <2>4. /\ IsFiniteSet((D \ {o}) \cup {s})
        /\ Cardinality((D \ {o}) \cup {s}) = Cardinality(D \ {o}) + 1
    BY <1>6, <2>3, FS_AddElement
  <2>5. Cardinality((D \ {o}) \cup {s}) <= MaxTracked
    BY <1>2, <2>3, <2>4
  <2> QED BY <2>1, <2>2, <2>4, <2>5
<1>7. CASE s \notin D /\ \E o \in D : h = [x \in D \ {o} |-> Pruned[x]]
  <2>1. s \notin D /\ \E o \in D : h = [x \in D \ {o} |-> Pruned[x]]
    BY <1>7
  <2>2. PICK o \in D : h = [x \in D \ {o} |-> Pruned[x]]
    BY <2>1
  <2>3. /\ DOMAIN h = D \ {o} /\ h # Pruned /\ \A x \in DOMAIN h : h[x] = Pruned[x]
        /\ IsFiniteSet(DOMAIN h \cup {s}) /\ Cardinality(DOMAIN h \cup {s}) <= MaxTracked
    BY <1>6, <2>1, <2>2
  <2>4. DOMAIN h \subseteq DOMAIN history
    BY <1>3, <2>3
  <2>5. \A x \in DOMAIN h : h[x] = Recent(x) /\ Recent(x) # <<>>
    BY <1>1, <2>3
  <2>6. Recent(s) = <<>>
    BY <1>1, <2>1
  <2> QED BY <2>3, <2>4, <2>5, <2>6
<1>8. Oldest(Pruned) \subseteq D
  BY <1>1 DEF Oldest
<1> QED BY <1>1, <1>4, <1>5, <1>7, <1>8 DEF RoomFor

\* A packet that counts: the whole effect of Accept.
LEMMA AcceptFacts ==
  ASSUME IInv, NEW p \in Ports, Accept(p)
  PROVE  /\ source' \in Allowed /\ phase = "listening" /\ now' = now /\ sent' = sent
         /\ DOMAIN history' \subseteq Allowed /\ source' \in DOMAIN history'
         /\ history'[source'] = Append(Recent(source'), now)
         /\ \A x \in DOMAIN history' \ {source'} : history'[x] = Recent(x) /\ Recent(x) # <<>>
         /\ evicted' \in BOOLEAN
         /\ ~evicted' => ~evicted /\ \A x \in Allowed \ DOMAIN history' : Recent(x) = <<>>
         /\ IsFiniteSet(DOMAIN history') /\ Cardinality(DOMAIN history') <= MaxTracked
         /\ \E t \in Time :
              log' = [log EXCEPT ![source'] = Append(@, [read |-> now, arrived |-> t])]
         /\ IF Len(history'[source']) >= PacketCount
            THEN phase' = "woken" /\ buffer' = NoPackets
            ELSE phase' = "listening" /\ buffer' = [buffer EXCEPT ![p] = Tail(@)]
<1> DEFINE packet == Head(buffer[p])
<1>1. packet \in Packet /\ phase = "listening" /\ ~Ignored(packet)
  BY DEF Accept, IInv, TypeOK
<1>2. packet.source \in Allowed /\ packet.arrived \in Time /\ source' = packet.source
  BY <1>1 DEF Ignored, Packet, Accept
<1>3. PICK h \in RoomFor(source') :
        history' = Counted(h, source') /\ evicted' = (evicted \/ h # Pruned)
  BY <1>2 DEF Accept
<1>4. /\ DOMAIN h \subseteq DOMAIN history
      /\ \A x \in DOMAIN h : h[x] = Recent(x) /\ Recent(x) # <<>>
      /\ source' \notin DOMAIN h => Recent(source') = <<>>
      /\ h = Pruned => \A x \in Allowed \ DOMAIN h : Recent(x) = <<>>
      /\ IsFiniteSet(DOMAIN h \cup {source'}) /\ Cardinality(DOMAIN h \cup {source'}) <= MaxTracked
  BY <1>2, <1>3, RoomFacts
<1>5. DOMAIN history' = DOMAIN h \cup {source'}
  BY <1>3 DEF Counted
<1>6. history'[source'] = Append(Recent(source'), now)
  BY <1>3, <1>4 DEF Counted
<1>7. \A x \in DOMAIN history' \ {source'} : history'[x] = Recent(x) /\ Recent(x) # <<>>
  BY <1>3, <1>4, <1>5 DEF Counted
<1>8. DOMAIN history' \subseteq Allowed
  BY <1>2, <1>4, <1>5 DEF IInv, TypeOK
<1>9. /\ evicted' \in BOOLEAN
      /\ ~evicted' => ~evicted /\ \A x \in Allowed \ DOMAIN history' : Recent(x) = <<>>
  BY <1>3, <1>4, <1>5
<1>10. log' = [log EXCEPT ![source'] = Append(@, [read |-> now, arrived |-> packet.arrived])]
  BY <1>2 DEF Accept
<1>11. IF Len(history'[source']) >= PacketCount
       THEN phase' = "woken" /\ buffer' = NoPackets
       ELSE phase' = "listening" /\ buffer' = [buffer EXCEPT ![p] = Tail(@)]
  BY <1>1, <1>2 DEF Accept
<1>12. now' = now /\ sent' = sent
  BY DEF Accept
<1> HIDE DEF packet
<1> QED BY <1>1, <1>2, <1>4, <1>5, <1>6, <1>7, <1>8, <1>9, <1>10, <1>11, <1>12

-----------------------------------------------------------------------------
(* The invariant *)

\* The types of the parts that the other conjuncts compare.
LEMMA Types ==
  ASSUME TypeOK
  PROVE  /\ now \in Int
         /\ \A s \in Allowed : log[s] \in Seq([read : Time, arrived : Time]) /\ Kept(s) \in Nat
         /\ \A s \in Allowed : \A k \in 1 .. Len(log[s]) : log[s][k].read \in Int
         /\ \A s \in DOMAIN history : history[s] \in Seq(Int)
<1>1. Time \subseteq Int
  BY BoundAssumption DEF Time
<1>2. now \in Int /\ \A s \in DOMAIN history : history[s] \in Seq(Time)
  BY <1>1 DEF TypeOK
<1>3. ASSUME NEW s \in DOMAIN history
      PROVE  history[s] \in Seq(Int)
  BY <1>1, <1>2, SeqMonotonic
<1>4. ASSUME NEW s \in Allowed
      PROVE  log[s] \in Seq([read : Time, arrived : Time])
  BY AllowedAssumption DEF TypeOK
<1>5. ASSUME NEW s \in Allowed
      PROVE  Kept(s) \in Nat
  <2>1. s \in DOMAIN history => Len(history[s]) \in Nat
    BY <1>3
  <2> QED BY <2>1 DEF Kept
<1>6. ASSUME NEW s \in Allowed, NEW k \in 1 .. Len(log[s])
      PROVE  log[s][k].read \in Int
  <2> DEFINE R == [read : Time, arrived : Time]
  <2>1. \A x \in R : x.read \in Int
    BY <1>1
  <2>2. log[s] \in Seq(R)
    BY <1>4
  <2> HIDE DEF R
  <2>3. log[s][k] \in R
    BY <2>2
  <2> QED BY <2>1, <2>3
<1> QED BY <1>2, <1>3, <1>4, <1>5, <1>6

\* The invariant holds before the first listener opens.
LEMMA InvInit == Init => IInv
<1> SUFFICES ASSUME Init PROVE IInv
  OBVIOUS
<1>1. DOMAIN history = {} /\ ~Open /\ phase = "closed"
  BY DEF Init, Open
<1>2. TypeOK
  <2>1. now \in Time /\ sent \in 0 .. MaxPackets
    BY BoundAssumption DEF Init, Time
  <2>2. /\ buffer \in [Ports -> Seq(Packet)]
        /\ \A p \in Ports : buffer[p] = <<>> /\ Len(buffer[p]) <= BufferSize
    BY BufferAssumption DEF Init, NoPackets
  <2>3. log \in [Sources -> Seq([read : Time, arrived : Time])]
    BY DEF Init, NoReads
  <2> QED BY <1>1, <2>1, <2>2, <2>3 DEF Init, TypeOK
<1>3. IsFiniteSet(DOMAIN history) /\ Cardinality(DOMAIN history) <= MaxTracked
  BY <1>1, FS_EmptySet, TrackedAssumption
<1> QED
  BY <1>1, <1>2, <1>3
  DEF IInv, SortedInv, SuffixInv, StaleInv, HistoryBounded, NoWakeMissed, WakeJustified

\* Every step but Accept and OpenSockets leaves the counted packets alone.
LEMMA QuietStep ==
  ASSUME IInv, UNCHANGED <<history, log, evicted, source>>, TypeOK', now <= now',
         Open' => Open, phase' = "woken" => phase = "woken"
  PROVE  IInv'
<1>1. now \in Int /\ now' \in Int /\ Window \in Int
  BY BoundAssumption, CountAssumption DEF IInv, TypeOK, Time
<1>2. SortedInv'
  <2> SUFFICES ASSUME NEW s \in DOMAIN history, NEW i \in 1 .. Len(history[s])
               PROVE  history[s][i] <= now'
    BY DEF IInv, SortedInv
  <2>1. history[s][i] <= now
    BY DEF IInv, SortedInv
  <2>2. history[s][i] \in Int
    BY Types DEF IInv
  <2> QED BY <1>1, <2>1, <2>2
<1>3. SuffixInv'
  BY DEF IInv, SuffixInv
<1>4. StaleInv'
  <2> SUFFICES ASSUME Open, ~evicted, NEW s \in Allowed, NEW k \in 1 .. Len(log[s]) - Kept(s)
               PROVE  log[s][k].read < now' - Window
    BY DEF StaleInv, Kept
  <2>1. log[s][k].read < now - Window
    BY DEF IInv, StaleInv
  <2>2. log[s] \in Seq([read : Time, arrived : Time]) /\ Kept(s) \in Nat
    BY Types DEF IInv
  <2>3. k \in 1 .. Len(log[s])
    BY <2>2
  <2>4. log[s][k].read \in Int
    BY <2>3, Types DEF IInv
  <2> QED BY <1>1, <2>1, <2>4
<1>5. IsFiniteSet(DOMAIN history') /\ HistoryBounded' /\ NoWakeMissed'
  BY DEF IInv, HistoryBounded, NoWakeMissed
<1>6. WakeJustified'
  BY DEF IInv, WakeJustified, LastOf
<1> QED BY <1>2, <1>3, <1>4, <1>5, <1>6 DEF IInv

\* A new listener starts with an empty history.
LEMMA OpenStep ==
  ASSUME IInv, OpenSockets
  PROVE  IInv'
<1>1. DOMAIN history' = {} /\ phase' = "listening"
      /\ \A s \in Allowed : log'[s] = <<>> /\ Len(log'[s]) = 0
  BY AllowedAssumption DEF OpenSockets, NoReads
<1>2. TypeOK'
  <2>1. log' \in [Sources -> Seq([read : Time, arrived : Time])]'
    BY DEF OpenSockets, NoReads, Time
  <2>2. now' = now /\ buffer' = buffer /\ source' = source /\ sent' = sent /\ evicted' = FALSE
    BY DEF OpenSockets
  <2>3. Open'
    BY <1>1 DEF Open
  <2> QED BY <1>1, <2>1, <2>2, <2>3 DEF IInv, TypeOK
<1>3. IsFiniteSet(DOMAIN history') /\ Cardinality(DOMAIN history') <= MaxTracked
  BY <1>1, FS_EmptySet, TrackedAssumption
<1>4. StaleInv' /\ NoWakeMissed'
  BY <1>1, CountAssumption DEF StaleInv, NoWakeMissed, Kept
<1> QED
  BY <1>1, <1>2, <1>3, <1>4
  DEF IInv, SortedInv, SuffixInv, HistoryBounded, WakeJustified

\* An entry of the log, and that the times r are those of the last entries of l.
Reads == [read : Time, arrived : Time]

TailAt(r, n, l, m) == n <= m /\ \A k \in 1 .. n : r[k] = l[m - n + k].read
IsTail(r, l) == TailAt(r, Len(r), l, Len(l))

\* The times at which packets were read can be compared.
LEMMA ReadsAreInts ==
  ASSUME NEW l \in Seq(Reads), NEW k \in 1 .. Len(l)
  PROVE  l[k].read \in Int
<1>1. l[k] \in Reads
  OBVIOUS
<1>2. l[k].read \in Time
  BY <1>1 DEF Reads
<1> QED BY <1>2, BoundAssumption DEF Time

\* One packet more for a source whose log is l and whose history is r: both
\* grow at the end, and the history stays the end of the log.
LEMMA CountedInBoth ==
  ASSUME NEW l \in Seq(Reads), NEW r \in Seq(Time), NEW e \in Reads, IsTail(r, l)
  PROVE  IsTail(Append(r, e.read), Append(l, e))
<1> DEFINE l2 == Append(l, e)  r2 == Append(r, e.read)
<1>1. PICK m \in Nat, n \in Nat : m = Len(l) /\ n = Len(r) /\ n <= m
  BY DEF IsTail, TailAt
<1>2. /\ Len(l2) = m + 1 /\ l2[m + 1] = e /\ \A k \in 1 .. m : l2[k] = l[k]
      /\ Len(r2) = n + 1 /\ r2[n + 1] = e.read /\ \A k \in 1 .. n : r2[k] = r[k]
  BY <1>1 DEF Reads
<1> HIDE DEF l2, r2
<1>3. ASSUME NEW k \in 1 .. n + 1
      PROVE  r2[k] = l2[m + 1 - (n + 1) + k].read
  <2>1. CASE k \in 1 .. n
    <3>1. m - n + k \in 1 .. m /\ m + 1 - (n + 1) + k = m - n + k
      BY <1>1, <2>1
    <3>2. TailAt(r, n, l, m)
      BY <1>1 DEF IsTail
    <3>3. r[k] = l[m - n + k].read
      BY <2>1, <3>2 DEF TailAt
    <3>4. r2[k] = r[k] /\ l2[m - n + k] = l[m - n + k]
      BY <1>2, <2>1, <3>1
    <3> QED BY <3>1, <3>3, <3>4
  <2>2. CASE k = n + 1
    <3>1. m + 1 - (n + 1) + k = m + 1
      BY <2>2
    <3> QED BY <1>2, <2>2, <3>1
  <2> QED BY <2>1, <2>2
<1>4. n + 1 <= m + 1
  BY <1>1
<1>5. TailAt(r2, n + 1, l2, m + 1)
  BY <1>3, <1>4 DEF TailAt
<1>6. Len(r2) = n + 1 /\ Len(l2) = m + 1
  BY <1>2
<1> QED BY <1>5, <1>6 DEF r2, l2, IsTail

\* No PacketCount packets of l were read within the window.
NoRunAt(l, m, c) == \A i \in 1 .. m - c + 1 : l[i + c - 1].read - l[i].read > Window
NoRun(l) == NoRunAt(l, Len(l), PacketCount)

\* A packet completes no run when all older than the last n are too old for it.
LEMMA NoRunCounted ==
  ASSUME now \in Int, NEW l \in Seq(Reads), NEW e \in Reads, e.read = now, NoRun(l),
         NEW n \in Nat, n <= Len(l), n + 1 < PacketCount,
         \A k \in 1 .. Len(l) - n : l[k].read < now - Window
  PROVE  NoRun(Append(l, e))
<1> DEFINE l2 == Append(l, e)
<1>1. PICK m \in Nat, c \in Nat : m = Len(l) /\ c = PacketCount
  BY CountAssumption
<1>2. /\ Len(l2) = m + 1 /\ l2[m + 1] = e /\ \A k \in 1 .. m : l2[k] = l[k]
  BY <1>1
<1> HIDE DEF l2
<1>3. n <= m /\ n + 1 < c
  BY <1>1
<1>4. ASSUME NEW i \in 1 .. m + 1 - c + 1
      PROVE  l2[i + c - 1].read - l2[i].read > Window
  <2>1. CASE i <= m - c + 1
    <3>1. i \in 1 .. m - c + 1 /\ i \in 1 .. m /\ i + c - 1 \in 1 .. m
      BY <1>3, <2>1
    <3> QED BY <1>1, <1>2, <3>1 DEF NoRun, NoRunAt
  <2>2. CASE i > m - c + 1
    <3>1. i + c - 1 = m + 1 /\ i \in 1 .. m - n /\ i \in 1 .. m
      BY <1>3, <2>2
    <3>2. l[i].read < now - Window
      BY <1>1, <3>1
    <3>3. l[i].read \in Int
      BY <1>1, <3>1, ReadsAreInts
    <3>4. now - l[i].read > Window
      BY <3>2, <3>3, CountAssumption
    <3> QED BY <1>2, <3>1, <3>4
  <2> QED BY <2>1, <2>2
<1>5. NoRunAt(l2, m + 1, c)
  BY <1>4 DEF NoRunAt
<1>6. Len(l2) = m + 1 /\ PacketCount = c
  BY <1>1, <1>2
<1> QED BY <1>5, <1>6 DEF NoRun, l2

\* The last PacketCount entries of a log l, and which entries of it they are.
Last(l) == SubSeq(l, Len(l) - PacketCount + 1, Len(l))

LEMMA LastElements ==
  ASSUME NEW l \in Seq(Reads), Len(l) >= PacketCount
  PROVE  /\ Last(l)[PacketCount] = l[Len(l)]
         /\ Last(l)[1] = l[Len(l) - PacketCount + 1]
<1> DEFINE f == Len(l) - PacketCount + 1  n == Len(l)
<1>1. f \in Int /\ n \in Int /\ \A i \in f .. n : l[i] \in Reads
  BY CountAssumption
<1>2. /\ PacketCount \in 1 .. n - f + 1 /\ 1 \in 1 .. n - f + 1
      /\ f + PacketCount - 1 = n /\ f + 1 - 1 = f
  BY CountAssumption
<1>3. Last(l) = SubSeq(l, f, n)
  BY DEF Last
<1> HIDE DEF f, n
<1>4. \A i \in 1 .. n - f + 1 : SubSeq(l, f, n)[i] = l[f + i - 1]
  BY <1>1, SubSeqProperties
<1>5. Last(l)[PacketCount] = l[n] /\ Last(l)[1] = l[f]
  BY <1>2, <1>3, <1>4
<1> QED BY <1>5 DEF f, n

\* The packet that completes the number is within the window of all that count.
LEMMA RunCounted ==
  ASSUME now \in Int, NEW l \in Seq(Reads), NEW e \in Reads, e.read = now,
         NEW r \in Seq(Time), IsTail(r, l), Len(r) + 1 >= PacketCount,
         \A k \in 1 .. Len(r) : now - Window <= r[k],
         NEW l2, l2 = Append(l, e)
  PROVE  /\ Len(l2) >= PacketCount
         /\ Last(l2)[PacketCount].read - Last(l2)[1].read <= Window
<1> DEFINE last == Last(l2)
<1>1. PICK m \in Nat, n \in Nat, c \in Nat :
        m = Len(l) /\ n = Len(r) /\ c = PacketCount /\ n <= m /\ n + 1 >= c /\ c >= 1
  BY CountAssumption DEF IsTail, TailAt
<1>2. /\ l2 \in Seq(Reads)
      /\ Len(l2) = m + 1 /\ l2[m + 1] = e /\ \A k \in 1 .. m : l2[k] = l[k]
  BY <1>1
<1>3. PICK f \in Int : f = m + 2 - c
  <2>1. m + 2 - c \in Int
    BY <1>1
  <2> QED BY <2>1, Zenon
<1>4. f \in 1 .. m + 1 /\ m + 1 - c + 1 = f /\ m + 1 >= c
  BY <1>1, <1>3
<1>5. Len(l2) >= PacketCount /\ last[c] = l2[m + 1] /\ last[1] = l2[f]
  <2>1. Len(l2) = m + 1 /\ PacketCount = c /\ m + 1 - c + 1 = f /\ m + 1 >= c
    BY <1>1, <1>2, <1>4
  <2>2. Len(l2) >= PacketCount
    BY <2>1
  <2>3. last[PacketCount] = l2[Len(l2)] /\ last[1] = l2[Len(l2) - PacketCount + 1]
    BY <1>2, <2>2, LastElements
  <2>4. Len(l2) - PacketCount + 1 = f
    BY <2>1
  <2> QED BY <2>1, <2>2, <2>3, <2>4
<1> HIDE DEF last
<1>6. last[c].read - last[1].read <= Window
  <2>1. l2[m + 1].read = now
    BY <1>2
  <2>2. CASE c = 1
    <3>1. f = m + 1
      BY <1>3, <2>2
    <3>2. last[c].read = now /\ last[1].read = now
      BY <1>5, <2>1, <2>2, <3>1
    <3> QED BY <3>2, CountAssumption
  <2>3. CASE c # 1
    <3>1. n + 2 - c \in 1 .. n /\ m - n + (n + 2 - c) = f /\ f \in 1 .. m
      BY <1>1, <1>3, <2>3
    <3>2. r[n + 2 - c] = l[f].read /\ now - Window <= r[n + 2 - c]
      BY <1>1, <3>1 DEF IsTail, TailAt
    <3>3. l[f].read \in Int
      BY <1>1, <3>1, ReadsAreInts
    <3>4. now - l[f].read <= Window
      BY <3>2, <3>3, CountAssumption
    <3>5. last[c].read = now /\ last[1].read = l[f].read
      BY <1>2, <1>5, <2>1, <3>1
    <3> QED BY <3>4, <3>5
  <2> QED BY <2>2, <2>3
<1>7. PacketCount = c
  BY <1>1
<1> QED BY <1>5, <1>6, <1>7 DEF last

\* A packet that counts.
LEMMA AcceptStep ==
  ASSUME IInv, NEW p \in Ports, Accept(p)
  PROVE  IInv'
<1> DEFINE s == source'
<1>1. PICK t \in Time :
        log' = [log EXCEPT ![s] = Append(@, [read |-> now, arrived |-> t])]
  BY AcceptFacts
<1>2. /\ s \in Allowed /\ phase = "listening" /\ now' = now /\ sent' = sent
      /\ DOMAIN history' \subseteq Allowed /\ s \in DOMAIN history'
      /\ history'[s] = Append(Recent(s), now)
      /\ \A x \in DOMAIN history' \ {s} : history'[x] = Recent(x) /\ Recent(x) # <<>>
      /\ evicted' \in BOOLEAN
      /\ ~evicted' => ~evicted /\ \A x \in Allowed \ DOMAIN history' : Recent(x) = <<>>
      /\ IsFiniteSet(DOMAIN history') /\ Cardinality(DOMAIN history') <= MaxTracked
      /\ IF Len(history'[s]) >= PacketCount
         THEN phase' = "woken" /\ buffer' = NoPackets
         ELSE phase' = "listening" /\ buffer' = [buffer EXCEPT ![p] = Tail(@)]
  BY AcceptFacts
<1>3. \A x \in Allowed :
         /\ Recent(x) \in Seq(Time) /\ Len(Recent(x)) <= Len(log[x])
         /\ \A k \in 1 .. Len(Recent(x)) :
              /\ Recent(x)[k] = log[x][Len(log[x]) - Len(Recent(x)) + k].read
              /\ now - Window <= Recent(x)[k] /\ Recent(x)[k] <= now
         /\ \A i, j \in 1 .. Len(Recent(x)) : i <= j => Recent(x)[i] <= Recent(x)[j]
         /\ Open => Len(Recent(x)) < PacketCount
         /\ Open /\ ~evicted =>
              \A k \in 1 .. Len(log[x]) - Len(Recent(x)) : log[x][k].read < now - Window
  BY RecentFacts
<1>4. Open /\ TypeOK /\ now \in Int /\ Window \in Nat /\ PacketCount \in Nat \ {0}
  BY <1>2, Types, CountAssumption DEF Open, IInv
<1>5. \A x \in Allowed : log[x] \in Seq([read : Time, arrived : Time])
  BY <1>4, Types
<1> DEFINE new == [read |-> now, arrived |-> t]
<1>6. new \in [read : Time, arrived : Time] /\ new.read = now
  BY DEF IInv, TypeOK
<1> HIDE DEF s, new
<1>7. /\ s \in Sources
      /\ log'[s] = Append(log[s], new) /\ \A x \in Allowed \ {s} : log'[x] = log[x]
      /\ log' \in [Sources -> Seq([read : Time, arrived : Time])]
  <2>1. /\ s \in Sources /\ Allowed \subseteq Sources
        /\ log \in [Sources -> Seq([read : Time, arrived : Time])]
    BY <1>2, AllowedAssumption DEF IInv, TypeOK
  <2>2. log' = [log EXCEPT ![s] = Append(log[s], new)]
    BY <1>1, <2>1 DEF new
  <2>3. log[s] \in Seq([read : Time, arrived : Time])
    BY <2>1
  <2>4. Append(log[s], new) \in Seq([read : Time, arrived : Time])
    BY <1>6, <2>3
  <2> QED BY <2>1, <2>2, <2>4
<1>8. /\ Len(log'[s]) = Len(log[s]) + 1 /\ log'[s][Len(log[s]) + 1].read = now
      /\ \A k \in 1 .. Len(log[s]) : log'[s][k] = log[s][k]
  BY <1>2, <1>5, <1>6, <1>7
<1>9. /\ history'[s] \in Seq(Time) \ {<<>>} /\ Len(history'[s]) = Len(Recent(s)) + 1
      /\ history'[s][Len(Recent(s)) + 1] = now
      /\ \A k \in 1 .. Len(Recent(s)) : history'[s][k] = Recent(s)[k]
  BY <1>2, <1>3 DEF IInv, TypeOK
<1>10. /\ Len(Recent(s)) \in Nat /\ Len(log[s]) \in Nat
       /\ Len(Recent(s)) <= Len(log[s])
  BY <1>2, <1>3, <1>5
<1>11. TypeOK'
  <2>1. \A x \in DOMAIN history' : history'[x] \in Seq(Time) \ {<<>>}
    <3> TAKE x \in DOMAIN history'
    <3>1. CASE x = s
      BY <1>9, <3>1
    <3>2. CASE x # s
      <4>1. x \in Allowed /\ history'[x] = Recent(x) /\ Recent(x) # <<>>
        BY <1>2, <3>2
      <4>2. Recent(x) \in Seq(Time)
        BY <1>3, <4>1
      <4> QED BY <4>1, <4>2
    <3> QED BY <3>1, <3>2
  <2>2. /\ buffer' \in [Ports -> Seq(Packet)]
        /\ \A q \in Ports : Len(buffer'[q]) <= BufferSize /\ (~Open' => buffer'[q] = <<>>)
    <3>1. CASE phase' = "woken" /\ buffer' = NoPackets
      BY <3>1, BufferAssumption DEF NoPackets
    <3>2. CASE phase' = "listening" /\ buffer' = [buffer EXCEPT ![p] = Tail(@)]
      <4>1. buffer[p] # <<>> /\ buffer \in [Ports -> Seq(Packet)]
        BY DEF Accept, IInv, TypeOK
      <4>2. Tail(buffer[p]) \in Seq(Packet) /\ Len(Tail(buffer[p])) <= Len(buffer[p])
        BY <4>1
      <4>3. Len(buffer[p]) <= BufferSize /\ Len(buffer[p]) \in Nat /\ Len(Tail(buffer[p])) \in Nat
        BY <4>1, <4>2 DEF IInv, TypeOK
      <4>4. Len(Tail(buffer[p])) <= BufferSize
        BY <4>2, <4>3, BufferAssumption
      <4>5. Open'
        BY <3>2 DEF Open
      <4> QED BY <3>2, <4>1, <4>2, <4>4, <4>5 DEF IInv, TypeOK
    <3> QED BY <1>2, <3>1, <3>2
  <2>3. now' \in Time /\ source' \in Sources /\ sent' \in 0 .. MaxPackets
    BY <1>2, <1>7 DEF IInv, TypeOK, s
  <2> QED BY <1>2, <1>7, <2>1, <2>2, <2>3 DEF TypeOK, Time, Packet
<1>12. SortedInv'
  <2> SUFFICES ASSUME NEW x \in DOMAIN history',
                      NEW i \in 1 .. Len(history'[x]), NEW j \in 1 .. Len(history'[x])
               PROVE  history'[x][i] <= now /\ (i <= j => history'[x][i] <= history'[x][j])
    BY <1>2 DEF SortedInv
  <2>1. CASE x # s
    BY <1>2, <1>3, <2>1
  <2>2. CASE x = s
    <3>1. i \in 1 .. Len(Recent(s)) \/ i = Len(Recent(s)) + 1
      BY <1>9, <1>10, <2>2
    <3>2. j \in 1 .. Len(Recent(s)) \/ j = Len(Recent(s)) + 1
      BY <1>9, <1>10, <2>2
    <3>3. history'[s][i] <= now
      BY <1>2, <1>3, <1>4, <1>9, <3>1
    <3>4. CASE j = Len(Recent(s)) + 1
      BY <1>9, <2>2, <3>3, <3>4
    <3>5. CASE j \in 1 .. Len(Recent(s))
      <4>1. i <= j => i \in 1 .. Len(Recent(s))
        BY <1>10, <3>1, <3>5
      <4> QED BY <1>2, <1>3, <1>9, <2>2, <3>3, <3>5, <4>1
    <3> QED BY <3>2, <3>4, <3>5
  <2> QED BY <2>1, <2>2
<1>13. SuffixInv'
  <2> SUFFICES ASSUME NEW x \in DOMAIN history'
               PROVE  IsTail(history'[x], log'[x])
    BY DEF SuffixInv, IsTail, TailAt
  <2>1. x \in Allowed
    BY <1>2
  <2>2. IsTail(Recent(x), log[x])
    BY <1>3, <2>1 DEF IsTail, TailAt
  <2>3. CASE x # s
    <3>1. history'[x] = Recent(x) /\ log'[x] = log[x]
      BY <1>2, <1>7, <2>1, <2>3
    <3> QED BY <2>2, <3>1
  <2>4. CASE x = s
    <3>1. IsTail(Append(Recent(s), new.read), Append(log[s], new))
      <4>1. log[s] \in Seq(Reads) /\ new \in Reads /\ Recent(s) \in Seq(Time)
        BY <1>2, <1>3, <1>5, <1>6 DEF Reads
      <4> QED BY <2>2, <2>4, <4>1, CountedInBoth
    <3> QED BY <1>2, <1>6, <1>7, <2>4, <3>1
  <2> QED BY <2>3, <2>4
<1>14. StaleInv'
  <2> SUFFICES ASSUME ~evicted', NEW x \in Allowed, NEW k \in 1 .. Len(log'[x]) - Kept(x)'
               PROVE  log'[x][k].read < now - Window
    BY <1>2 DEF StaleInv
  <2>1. \A m \in 1 .. Len(log[x]) - Len(Recent(x)) : log[x][m].read < now - Window
    BY <1>2, <1>3, <1>4
  <2>2. CASE x = s
    <3>1. Kept(x)' = Len(Recent(s)) + 1
      BY <1>2, <1>9, <2>2 DEF Kept
    <3>2. k \in 1 .. Len(log[s]) - Len(Recent(s)) /\ k \in 1 .. Len(log[s])
      BY <1>8, <1>10, <2>2, <3>1
    <3> QED BY <1>8, <2>1, <2>2, <3>2
  <2>3. CASE x # s
    <3>1. Kept(x)' = Len(Recent(x))
      BY <1>2, <2>3 DEF Kept
    <3> QED BY <1>7, <2>1, <2>3, <3>1
  <2> QED BY <2>2, <2>3
<1>15. HistoryBounded'
  <2> SUFFICES ASSUME Open', NEW x \in DOMAIN history'
               PROVE  Len(history'[x]) < PacketCount
    BY <1>2 DEF HistoryBounded
  <2>1. CASE x = s
    <3>1. ~(Len(history'[s]) >= PacketCount)
      BY <1>2 DEF Open
    <3> QED BY <1>4, <1>9, <1>10, <2>1, <3>1
  <2>2. CASE x # s
    BY <1>2, <1>3, <1>4, <2>2
  <2> QED BY <2>1, <2>2
<1>16. NoWakeMissed'
  <2> SUFFICES ASSUME Open', ~evicted', NEW x \in Allowed
               PROVE  NoRun(log'[x])
    BY DEF NoWakeMissed, NoRun, NoRunAt
  <2>1. NoRun(log[x])
    BY <1>2, <1>4 DEF IInv, NoWakeMissed, NoRun, NoRunAt
  <2>2. CASE x # s
    BY <1>7, <2>1, <2>2
  <2>3. CASE x = s
    <3>1. Len(Recent(s)) + 1 < PacketCount
      <4>1. ~(Len(history'[s]) >= PacketCount)
        BY <1>2 DEF Open
      <4> QED BY <1>4, <1>9, <1>10, <4>1
    <3>2. \A k \in 1 .. Len(log[s]) - Len(Recent(s)) : log[s][k].read < now - Window
      BY <1>2, <1>3, <1>4
    <3>3. log[s] \in Seq(Reads) /\ new \in Reads
      BY <1>2, <1>5, <1>6 DEF Reads
    <3>4. NoRun(Append(log[s], new))
      BY <1>4, <1>6, <1>10, <2>1, <2>3, <3>1, <3>2, <3>3, NoRunCounted
    <3> QED BY <1>7, <2>3, <3>4
  <2> QED BY <2>2, <2>3
<1>17. WakeJustified'
  <2> SUFFICES ASSUME phase' = "woken"
               PROVE  /\ Len(log'[s]) >= PacketCount
                      /\ Last(log'[s])[PacketCount].read - Last(log'[s])[1].read <= Window
    BY <1>2 DEF WakeJustified, LastOf, Last, s
  <2>1. Len(Recent(s)) + 1 >= PacketCount
    BY <1>2, <1>9
  <2>2. IsTail(Recent(s), log[s])
    BY <1>2, <1>3 DEF IsTail, TailAt
  <2>3. \A k \in 1 .. Len(Recent(s)) : now - Window <= Recent(s)[k]
    BY <1>2, <1>3
  <2>4. log[s] \in Seq(Reads) /\ new \in Reads /\ Recent(s) \in Seq(Time)
    BY <1>2, <1>3, <1>5, <1>6 DEF Reads
  <2>5. log'[s] = Append(log[s], new)
    BY <1>7
  <2> QED BY <1>4, <1>6, <2>1, <2>2, <2>3, <2>4, <2>5, RunCounted
<1> QED BY <1>2, <1>11, <1>12, <1>13, <1>14, <1>15, <1>16, <1>17 DEF IInv

\* The buffers of the kernel, which only some of the steps touch.
BuffersOK ==
  /\ buffer \in [Ports -> Seq(Packet)]
  /\ \A p \in Ports : Len(buffer[p]) <= BufferSize /\ (~Open => buffer[p] = <<>>)

\* The types after a step that leaves the counted packets alone.
LEMMA QuietTypes ==
  ASSUME TypeOK, UNCHANGED <<history, log, evicted, source>>, BuffersOK',
         phase' \in {"closed", "listening", "updating", "woken"}, now' \in Time, sent' \in 0 .. MaxPackets
  PROVE  TypeOK'
  BY DEF TypeOK, BuffersOK, Time, Packet

\* Reading a packet that does not count.
LEMMA IgnoreStep ==
  ASSUME IInv, NEW p \in Ports, Ignore(p)
  PROVE  IInv'
<1>1. /\ UNCHANGED <<now, phase, history, log, evicted, source, sent>>
      /\ phase = "listening" /\ buffer[p] # <<>> /\ buffer' = [buffer EXCEPT ![p] = Tail(@)]
  BY DEF Ignore
<1>2. /\ buffer \in [Ports -> Seq(Packet)] /\ now \in Time /\ sent \in 0 .. MaxPackets
      /\ \A q \in Ports : Len(buffer[q]) <= BufferSize
  BY DEF IInv, TypeOK
<1>3. Tail(buffer[p]) \in Seq(Packet) /\ Len(Tail(buffer[p])) <= BufferSize
  <2>1. buffer[p] \in Seq(Packet) /\ buffer[p] # <<>>
    BY <1>1, <1>2
  <2>2. /\ Tail(buffer[p]) \in Seq(Packet) /\ Len(Tail(buffer[p])) = Len(buffer[p]) - 1
        /\ Len(buffer[p]) \in Nat
    BY <2>1
  <2> QED BY <1>2, <2>2, BufferAssumption
<1>4. Open'
  BY <1>1 DEF Open
<1>5. BuffersOK'
  BY <1>1, <1>2, <1>3, <1>4 DEF BuffersOK, Packet, Time
<1>6. TypeOK'
  BY <1>1, <1>2, <1>5, QuietTypes DEF IInv
<1>7. now <= now' /\ (Open' => Open)
  BY <1>1, Types DEF Open, IInv
<1> QED BY <1>1, <1>6, <1>7, QuietStep

\* A packet reaches a socket.
LEMMA ArriveStep ==
  ASSUME IInv, NEW p \in Ports, Arrive(p)
  PROVE  IInv'
<1>1. /\ UNCHANGED <<now, phase, history, log, evicted, source>>
      /\ Open /\ sent < MaxPackets /\ sent' = sent + 1 /\ Len(buffer[p]) < BufferSize
  BY DEF Arrive
<1>2. /\ buffer \in [Ports -> Seq(Packet)] /\ now \in Time /\ sent \in 0 .. MaxPackets
      /\ \A q \in Ports : Len(buffer[q]) <= BufferSize
  BY DEF IInv, TypeOK
<1>3. PICK e \in Packet : buffer' = [buffer EXCEPT ![p] = Append(@, e)]
  BY <1>2 DEF Arrive, Packet
<1>4. Append(buffer[p], e) \in Seq(Packet) /\ Len(Append(buffer[p], e)) <= BufferSize
  <2>1. buffer[p] \in Seq(Packet) /\ Len(buffer[p]) \in Nat
    BY <1>2
  <2>2. Append(buffer[p], e) \in Seq(Packet) /\ Len(Append(buffer[p], e)) = Len(buffer[p]) + 1
    BY <2>1
  <2> QED BY <1>1, <2>1, <2>2, BufferAssumption
<1>5. Open'
  BY <1>1 DEF Open
<1>6. BuffersOK'
  BY <1>1, <1>2, <1>3, <1>4, <1>5 DEF BuffersOK, Packet, Time
<1>7. TypeOK'
  <2>1. sent' \in 0 .. MaxPackets
    BY <1>1, <1>2, BoundAssumption
  <2>2. phase' \in {"closed", "listening", "updating", "woken"}
    BY <1>1 DEF Open
  <2> QED BY <1>1, <1>2, <1>6, <2>1, <2>2, QuietTypes DEF IInv
<1>8. now <= now'
  BY <1>1, Types DEF IInv
<1> QED BY <1>1, <1>7, <1>8, QuietStep

\* The update, the close and the clock.
LEMMA LoopStep ==
  ASSUME IInv, UpdateBegins \/ UpdateEnds \/ Close \/ Tick
  PROVE  IInv'
<1>1. UNCHANGED <<history, log, evicted, source, sent>>
  BY DEF UpdateBegins, UpdateEnds, Close, Tick
<1>2. TypeOK /\ now \in Time /\ sent \in 0 .. MaxPackets /\ now \in Int
  <2>1. now \in Time /\ sent \in 0 .. MaxPackets
    BY DEF IInv, TypeOK
  <2> QED BY <2>1, Types DEF IInv
<1>3. now <= now' /\ now' \in Time
  BY <1>2, BoundAssumption DEF UpdateBegins, UpdateEnds, Close, Tick, Time
<1>4. (Open' => Open) /\ (phase' = "woken" => phase = "woken")
  BY DEF UpdateBegins, UpdateEnds, Close, Tick, Open
<1>5. phase' \in {"closed", "listening", "updating", "woken"}
  BY DEF UpdateBegins, UpdateEnds, Close, Tick, IInv, TypeOK
<1>6. BuffersOK'
  <2>1. CASE Close
    BY <2>1, BufferAssumption DEF Close, BuffersOK, NoPackets
  <2>2. CASE UpdateBegins \/ UpdateEnds \/ Tick
    <3>1. buffer' = buffer /\ Open' = Open
      BY <2>2 DEF UpdateBegins, UpdateEnds, Tick, Open
    <3> QED BY <3>1 DEF IInv, TypeOK, BuffersOK, Packet, Time
  <2> QED BY <2>1, <2>2
<1>7. TypeOK'
  BY <1>1, <1>2, <1>3, <1>5, <1>6, QuietTypes
<1> QED BY <1>1, <1>3, <1>4, <1>7, QuietStep

\* Every step preserves the invariant.
LEMMA InvStep == IInv /\ [Next]_vars => IInv'
<1> SUFFICES ASSUME IInv, [Next]_vars PROVE IInv'
  OBVIOUS
<1>1. CASE OpenSockets
  BY <1>1, OpenStep
<1>2. CASE UpdateBegins \/ UpdateEnds \/ Close \/ Tick
  BY <1>2, LoopStep
<1>3. ASSUME NEW p \in Ports, Ignore(p) \/ Accept(p) \/ Arrive(p)
      PROVE  IInv'
  BY <1>3, IgnoreStep, AcceptStep, ArriveStep
<1>4. CASE UNCHANGED vars
  <2>1. UNCHANGED <<history, log, evicted, source>> /\ now' = now /\ phase' = phase
    BY <1>4 DEF vars
  <2>2. TypeOK'
    BY <1>4 DEF IInv, TypeOK, vars, Open, Packet, Time
  <2>3. now <= now' /\ (Open' => Open)
    BY <2>1, Types DEF IInv, Open
  <2> QED BY <2>1, <2>2, <2>3, QuietStep
<1> QED BY <1>1, <1>2, <1>3, <1>4 DEF Next

\* It holds in every reachable state.
LEMMA Invariance == Spec => []IInv
  BY InvInit, InvStep, PTL DEF Spec

-----------------------------------------------------------------------------
(* The theorems *)

\* Every variable keeps its type: no buffer grows beyond its size, only allowed
\* sources are tracked, and none without a time (wake.py:105-125).
THEOREM TypeCorrect == Spec => []TypeOK
  BY Invariance, PTL DEF IInv

\* A wake has its PacketCount packets of one allowed source within the window
\* (wake.py:105-125, 150-153), whatever has been dropped for want of room.
THEOREM WakesJustified == Spec => []WakeJustified
  BY Invariance, PTL DEF IInv

\* A listener that has dropped no source misses no wake (wake.py:105-125).
THEOREM WakesNotMissed == Spec => []NoWakeMissed
  BY Invariance, PTL DEF IInv

\* The history never tracks more sources than MAX_TRACKED_SOURCES nor, while it
\* listens, PacketCount packets of one (wake.py:110-118).
THEOREM HistoryLimited == Spec => []HistoryBounded
  BY Invariance, PTL DEF IInv

=============================================================================
