---------------------------- MODULE A2SInfoProofs ----------------------------
(***************************************************************************)
(* Theorems about A2SInfo as MCWatching instantiates it, for any set of    *)
(* packets of any length, and any answers that a server may send.          *)
(***************************************************************************)
EXTENDS MCWatching, TLAPS

\* Without the second conjunct OnlyCaught is not inductive: the byte that
\* Protocol skips without a look is there, because the header asked for two.
IInv ==
  /\ Q!TypeOK
  /\ queryPc = "protocol" => offset < Q!Size
  /\ queryPc \in {"send", "challenge", "header"} => offset = 0
  /\ OnlyCaught

Labels == {"send", "challenge"} \cup Q!Fields \cup Q!Ended

-----------------------------------------------------------------------------
\* A walk step to another field, never beyond the end and never to the byte
\* that is read without a look.
LEMMA WalkStep ==
  ASSUME IInv, packet' = packet, offset' \in Nat, offset' <= Q!Size, flags' \in Q!Byte,
         players' \in Q!Byte \cup {-1}, gameId' \in Q!Byte \cup {-1},
         queryPc' \in Labels \ {"send", "challenge", "header", "protocol", "uncaught"}
  PROVE  IInv'
BY DEF IInv, Q!TypeOK, OnlyCaught, Q!OnlyCaught, Labels, Q!Size

LEMMA Sizes ==
  ASSUME IInv
  PROVE  /\ Q!Size \in Nat /\ offset \in Nat /\ offset <= Q!Size
         /\ \A i \in 0 .. Q!Size - 1 : Q!At(i) \in Q!Byte
BY DEF IInv, Q!TypeOK, Q!Packet, Q!Size, Q!At

LEMMA StringStep ==
  ASSUME IInv, NEW from \in Labels, NEW to \in Labels \ {"send", "challenge", "header", "protocol", "uncaught"},
         Q!CString(from, to)
  PROVE  IInv'
<1>1. Q!Size \in Nat /\ offset \in Nat /\ offset <= Q!Size
  BY Sizes
<1>2. offset' \in Nat /\ offset' <= Q!Size
  <2>1. CASE Q!Fails(from)
    BY <1>1, <2>1 DEF Q!Fails
  <2>2. ASSUME NEW i \in offset .. Q!Size - 1, offset' = i + 1 PROVE offset' \in Nat /\ offset' <= Q!Size
    BY <1>1, <2>2
  <2> QED BY <2>1, <2>2 DEF Q!CString
<1>3. packet' = packet /\ flags' = flags /\ players' = players /\ gameId' = gameId
  BY DEF Q!CString, Q!Fails
<1>4. queryPc' \in {to, "A2SError"}
  BY DEF Q!CString, Q!Fails, Q!Step
<1> QED BY <1>2, <1>3, <1>4, WalkStep DEF Labels, Q!Ended, IInv, Q!TypeOK

LEMMA ExtraStep ==
  ASSUME IInv, NEW from \in Labels, NEW flag \in Nat, NEW size \in Nat,
         NEW to \in Labels \ {"send", "challenge", "header", "protocol", "uncaught"},
         Q!Extra(from, flag, size, to)
  PROVE  IInv'
<1>1. Q!Size \in Nat /\ offset \in Nat /\ offset <= Q!Size
  BY Sizes
<1>2. offset' \in Nat /\ offset' <= Q!Size
  <2>1. CASE UNCHANGED <<packet, offset, flags, players, gameId>>
    BY <1>1, <2>1
  <2>2. CASE Q!Size >= offset + size /\ offset' = offset + size
    BY <1>1, <2>2
  <2> QED BY <2>1, <2>2 DEF Q!Extra, Q!Fails
<1>3. packet' = packet /\ flags' = flags /\ players' = players /\ gameId' = gameId
  BY DEF Q!Extra, Q!Fails
<1>4. queryPc' \in {to, "A2SError"}
  BY DEF Q!Extra, Q!Fails, Q!Step
<1> QED BY <1>2, <1>3, <1>4, WalkStep DEF Labels, Q!Ended, IInv, Q!TypeOK

LEMMA ExtraStringStep ==
  ASSUME IInv, NEW from \in Labels, NEW flag \in Nat,
         NEW to \in Labels \ {"send", "challenge", "header", "protocol", "uncaught"},
         Q!ExtraString(from, flag, to)
  PROVE  IInv'
<1>1. CASE Q!CString(from, to)
  BY <1>1, StringStep
<1>2. CASE Q!Step(from, to) /\ UNCHANGED <<packet, offset, flags, players, gameId>>
  BY <1>2, Sizes, WalkStep DEF Q!Step, IInv, Q!TypeOK
<1> QED BY <1>1, <1>2 DEF Q!ExtraString

-----------------------------------------------------------------------------
LEMMA InitInv == Q!Init => IInv
BY DEF Q!Init, IInv, Q!TypeOK, OnlyCaught, Q!OnlyCaught, Q!Empty, Q!Packet, Q!Byte, Q!Ended

LEMMA NextInv ==
  ASSUME IInv, [Q!Next]_Q!vars
  PROVE  IInv'
<1>s. Q!Size \in Nat /\ offset \in Nat /\ offset <= Q!Size /\ \A i \in 0 .. Q!Size - 1 : Q!At(i) \in Q!Byte
  BY Sizes
<1>l. /\ Labels = {"send", "challenge"} \cup Q!Fields \cup Q!Ended
      /\ Q!Fields = {"header", "protocol", "counters", "skip", "version", "edf", "port", "steamid",
                   "tv", "tvname", "keywords", "gameid", "name", "map", "folder", "game"}
  BY DEF Labels, Q!Fields, Q!Extras, Q!Strings
<1>1. CASE Q!NoAnswer
  BY <1>1 DEF Q!NoAnswer, IInv, Q!TypeOK, OnlyCaught, Q!OnlyCaught, Q!Ended, Q!Size
<1>2. CASE Q!Receive("send") \/ Q!Receive("challenge")
  <2>1. packet' \in Q!Packet /\ offset' = offset /\ offset = 0
    BY <1>2, PacketsAssumption DEF Q!Receive, Q!Step, IInv
  <2>2. queryPc' \in {"challenge", "header"} /\ UNCHANGED <<flags, players, gameId>>
    BY <1>2 DEF Q!Receive, Q!Step
  <2> QED BY <2>1, <2>2, <1>l DEF IInv, Q!TypeOK, OnlyCaught, Q!OnlyCaught, Q!Ended, Q!Size
<1>3. CASE Q!Header
  <2>1. CASE Q!Informative /\ Q!Step("header", "protocol") /\ offset' = 1 /\ UNCHANGED <<packet, flags, players, gameId>>
    BY <1>s, <1>l, <2>1 DEF Q!Informative, Q!Step, IInv, Q!TypeOK, OnlyCaught, Q!OnlyCaught, Q!Ended, Q!Size
  <2>2. CASE Q!Fails("header")
    BY <1>s, <2>2, WalkStep DEF Q!Fails, Q!Step, IInv, Q!TypeOK, Labels, Q!Ended
  <2> QED BY <1>3, <2>1, <2>2 DEF Q!Header
<1>4. CASE Q!Protocol
  <2>1. ~Q!Crashes("protocol") \/ offset < Q!Size
    BY DEF Q!Crashes, Q!Step, IInv
  <2>2. offset < Q!Size /\ Q!Step("protocol", "name") /\ offset' = offset + 1 /\ UNCHANGED <<packet, flags, players, gameId>>
    BY <1>4, <1>s, <2>1 DEF Q!Protocol, Q!Crashes, Q!Step, IInv
  <2> QED BY <1>s, <1>l, <2>2, WalkStep DEF Q!Step, IInv, Q!TypeOK, Q!Ended
<1>5. CASE Q!CString("name", "map") \/ Q!CString("map", "folder") \/ Q!CString("folder", "game")
           \/ Q!CString("game", "counters") \/ Q!CString("version", "edf")
  BY <1>5, <1>l, StringStep
<1>6. CASE Q!Counts
  <2>1. CASE Q!Fails("counters")
    BY <1>s, <2>1, WalkStep DEF Q!Fails, Q!Step, IInv, Q!TypeOK, Labels, Q!Ended
  <2>2. CASE /\ Q!Size >= offset + 5 /\ players' = Q!At(offset + 2) /\ offset' = offset + 5
             /\ Q!Step("counters", "skip") /\ UNCHANGED <<packet, flags, gameId>>
    <3>1. Q!At(offset + 2) \in Q!Byte
      BY <1>s, <2>2
    <3> QED BY <1>s, <1>l, <2>2, <3>1, WalkStep DEF Q!Step, IInv, Q!TypeOK, Q!Ended
  <2> QED BY <1>6, <1>s, <2>1, <2>2 DEF Q!Counts, Q!Room
<1>7. CASE Q!Skip
  BY <1>7, <1>s, <1>l, WalkStep DEF Q!Skip, Q!Step, IInv, Q!TypeOK, Q!Ended
<1>8. CASE Q!Edf
  <2>1. offset < Q!Size => Q!At(offset) \in Q!Byte
    BY <1>s
  <2> QED BY <1>8, <1>s, <1>l, <2>1, WalkStep DEF Q!Edf, Q!Step, IInv, Q!TypeOK, Q!Ended
<1>9. CASE Q!Extra("port", 128, 2, "steamid") \/ Q!Extra("steamid", 16, 8, "tv") \/ Q!Extra("tv", 64, 2, "tvname")
  BY <1>9, <1>l, ExtraStep
<1>10. CASE Q!ExtraString("tvname", 64, "keywords") \/ Q!ExtraString("keywords", 32, "gameid")
  BY <1>10, <1>l, ExtraStringStep
<1>11. CASE Q!GameId
  <2>1. Q!Size >= offset + 8 => Q!At(offset) \in Q!Byte
    BY <1>s
  <2> QED BY <1>11, <1>s, <1>l, <2>1, WalkStep DEF Q!GameId, Q!Fails, Q!Step, IInv, Q!TypeOK, Q!Ended
<1>12. CASE UNCHANGED Q!vars
  BY <1>12 DEF Q!vars, IInv, Q!TypeOK, OnlyCaught, Q!OnlyCaught, Q!Size
<1> QED BY <1>1, <1>2, <1>3, <1>4, <1>5, <1>6, <1>7, <1>8, <1>9, <1>10, <1>11, <1>12
        DEF Q!Next, Q!Parse, Q!FixedExtras

LEMMA Invariance == Q!Spec => []IInv
<1>1. IInv /\ [Q!Next]_Q!vars => IInv'
  BY NextInv
<1> QED BY InitInv, <1>1, PTL DEF Q!Spec

-----------------------------------------------------------------------------
\* Every variable of a query keeps its type; in particular the offset never
\* goes beyond the packet.
THEOREM TypeCorrect == Q!Spec => []Q!TypeOK
<1>1. IInv => Q!TypeOK
  BY DEF IInv
<1> QED BY Invariance, <1>1, PTL

\* Whatever packets of whatever length arrive, the query ends with an answer or
\* with an exception that monitor_server catches (supervisor.py:401).
THEOREM OnlyCaughtEnds == Q!Spec => []OnlyCaught
<1>1. IInv => OnlyCaught
  BY DEF IInv
<1> QED BY Invariance, <1>1, PTL

-----------------------------------------------------------------------------
(* Reading what was sent *)

\* The packet goes on, or ends, with these bytes from an offset on.
Follows(p, o, r) ==
  /\ p \in Seq(Q!Byte) /\ r \in Seq(Q!Byte) /\ o \in Nat /\ o <= Len(p) /\ Len(p) <= o + Len(r)
  /\ \A j \in 1 .. Len(p) - o : p[o + j] = r[j]
Ends(p, o, r) == Follows(p, o, r) /\ Len(p) = o + Len(r)

\* What is left of an answer where a field is read.
On(i) ==
  [header |-> Q!Whole(i), protocol |-> Q!ProtocolOn(i), name |-> Q!NameOn(i), map |-> Q!MapOn(i),
   folder |-> Q!FolderOn(i), game |-> Q!GameOn(i), counters |-> Q!CountersOn(i), skip |-> Q!KindsOn(i),
   version |-> Q!VersionOn(i), edf |-> Q!EdfOn(i), port |-> Q!PortOn(i), steamid |-> Q!SteamIdOn(i),
   tv |-> Q!TvOn(i), tvname |-> Q!TvNameOn(i), keywords |-> Q!KeywordsOn(i), gameid |-> Q!GameIdOn(i)]

LEMMA Joined ==
  ASSUME NEW S, NEW f \in Seq(S), NEW r \in Seq(S)
  PROVE  /\ f \o r \in Seq(S) /\ Len(f \o r) = Len(f) + Len(r)
         /\ \A j \in 1 .. Len(f) : (f \o r)[j] = f[j]
         /\ \A j \in 1 .. Len(r) : (f \o r)[Len(f) + j] = r[j]
OBVIOUS

LEMMA Elements ==
  ASSUME NEW S, NEW T, S \subseteq T, NEW s \in Seq(S)
  PROVE  s \in Seq(T) /\ Len(s) \in Nat /\ \A j \in 1 .. Len(s) : s[j] \in S
OBVIOUS

LEMMA One ==
  ASSUME NEW S, NEW b \in S
  PROVE  <<b>> \in Seq(S) /\ Len(<<b>>) = 1 /\ <<b>>[1] = b
OBVIOUS

LEMMA Nothing ==
  ASSUME NEW S
  PROVE  <<>> \in Seq(S) /\ Len(<<>>) = 0
OBVIOUS

\* A string is bytes, of which the last one is the first zero.
LEMMA TextBytes ==
  ASSUME NEW s \in Q!Letters
  PROVE  /\ Q!Text(s) \in Seq(Q!Byte) /\ Len(Q!Text(s)) = Len(s) + 1 /\ Len(s) \in Nat
         /\ Q!Text(s)[Len(s) + 1] = 0 /\ \A j \in 1 .. Len(s) : Q!Text(s)[j] # 0
<1>1. PICK S : S = 1 .. 255
  OBVIOUS
<1>2. S \subseteq Q!Byte /\ 0 \in Q!Byte /\ \A b \in S : b # 0
  BY <1>1 DEF Q!Byte
<1>3. s \in Seq(S)
  BY <1>1 DEF Q!Letters
<1>4. s \in Seq(Q!Byte) /\ Len(s) \in Nat /\ \A j \in 1 .. Len(s) : s[j] # 0
  BY <1>2, <1>3, Elements
<1>5. <<0>> \in Seq(Q!Byte) /\ Len(<<0>>) = 1 /\ <<0>>[1] = 0
  BY <1>2, One
<1>6. /\ s \o <<0>> \in Seq(Q!Byte) /\ Len(s \o <<0>>) = Len(s) + Len(<<0>>)
      /\ \A j \in 1 .. Len(s) : (s \o <<0>>)[j] = s[j]
      /\ \A j \in 1 .. Len(<<0>>) : (s \o <<0>>)[Len(s) + j] = <<0>>[j]
  BY <1>4, <1>5, Joined
<1> QED BY <1>4, <1>5, <1>6 DEF Q!Text

\* Past a field, the packet goes on with the next one.
LEMMA FollowsOn ==
  ASSUME NEW p, NEW o, NEW f \in Seq(Q!Byte), NEW r \in Seq(Q!Byte), Follows(p, o, f \o r), o + Len(f) <= Len(p)
  PROVE  /\ Follows(p, o + Len(f), r) /\ (Ends(p, o, f \o r) => Ends(p, o + Len(f), r))
         /\ \A j \in 1 .. Len(f) : p[o + j] = f[j]
<1>1. PICK s \in Seq(Q!Byte) : s = f \o r
  BY Joined
<1>2. /\ Len(s) = Len(f) + Len(r) /\ \A j \in 1 .. Len(f) : s[j] = f[j]
      /\ \A j \in 1 .. Len(r) : s[Len(f) + j] = r[j]
  BY <1>1, Joined
<1>3. p \in Seq(Q!Byte) /\ o \in Nat /\ Len(p) <= o + Len(s) /\ \A j \in 1 .. Len(p) - o : p[o + j] = s[j]
  BY <1>1 DEF Follows
<1>4. Len(p) \in Nat /\ Len(f) \in Nat /\ Len(r) \in Nat
  BY <1>3
<1>5. \A j \in 1 .. Len(f) : p[o + j] = f[j]
  <2> TAKE j \in 1 .. Len(f)
  <2>1. j \in 1 .. Len(p) - o
    BY <1>3, <1>4
  <2> QED BY <1>2, <1>3, <2>1
<1>6. \A j \in 1 .. Len(p) - (o + Len(f)) : p[o + Len(f) + j] = r[j]
  <2> TAKE j \in 1 .. Len(p) - (o + Len(f))
  <2>1. Len(f) + j \in 1 .. Len(p) - o /\ j \in 1 .. Len(r) /\ o + Len(f) + j = o + (Len(f) + j)
    BY <1>2, <1>3, <1>4
  <2> QED BY <1>2, <1>3, <2>1
<1>7. Follows(p, o + Len(f), r)
  BY <1>2, <1>3, <1>4, <1>6 DEF Follows
<1> QED BY <1>1, <1>2, <1>3, <1>4, <1>5, <1>7 DEF Ends

FirstZero(p, o, i) == i \in o .. Len(p) - 1 /\ p[i + 1] = 0 /\ \A j \in o .. i - 1 : p[j + 1] # 0

\* A string is found whole, and no other, for its letters are not zero.
LEMMA TextFollows ==
  ASSUME NEW p, NEW o, NEW s \in Q!Letters, NEW r \in Seq(Q!Byte), Follows(p, o, Q!Text(s) \o r)
  PROVE  /\ \A i : FirstZero(p, o, i) => i = o + Len(s)
         /\ Ends(p, o, Q!Text(s) \o r) => o + Len(s) \in o .. Len(p) - 1 /\ p[o + Len(s) + 1] = 0
<1>2. PICK t \in Seq(Q!Byte) : t = Q!Text(s)
  BY TextBytes
<1>3. Len(t) = Len(s) + 1 /\ t[Len(s) + 1] = 0 /\ \A j \in 1 .. Len(s) : t[j] # 0
  BY <1>2, TextBytes
<1>4. PICK w \in Seq(Q!Byte) : w = t \o r
  BY Joined
<1>5. Len(w) = Len(t) + Len(r) /\ \A j \in 1 .. Len(t) : w[j] = t[j]
  BY <1>4, Joined
<1>6. p \in Seq(Q!Byte) /\ o \in Nat /\ o <= Len(p) /\ Len(p) <= o + Len(w) /\ \A j \in 1 .. Len(p) - o : p[o + j] = w[j]
  BY <1>2, <1>4 DEF Follows
<1>7. Len(p) \in Nat /\ Len(s) \in Nat /\ Len(r) \in Nat
  BY <1>6, TextBytes
<1>8. \A j \in 1 .. Len(s) : o + j <= Len(p) => p[o + j] # 0
  <2> SUFFICES ASSUME NEW j \in 1 .. Len(s), o + j <= Len(p) PROVE p[o + j] # 0
    OBVIOUS
  <2>1. j \in 1 .. Len(p) - o /\ j \in 1 .. Len(t)
    BY <1>3, <1>6, <1>7
  <2> QED BY <1>3, <1>5, <1>6, <2>1
<1>9. o + Len(s) + 1 <= Len(p) => p[o + Len(s) + 1] = 0
  <2> SUFFICES ASSUME o + Len(s) + 1 <= Len(p) PROVE p[o + Len(s) + 1] = 0
    OBVIOUS
  <2>1. o \in Nat /\ Len(t) = Len(s) + 1
    BY <1>3, <1>6
  <2>2. Len(s) + 1 \in 1 .. Len(p) - o /\ Len(s) + 1 \in 1 .. Len(t) /\ o + Len(s) + 1 = o + (Len(s) + 1)
    BY <1>7, <2>1
  <2> QED BY <1>3, <1>5, <1>6, <2>2
<1>10. ASSUME NEW i, FirstZero(p, o, i) PROVE i = o + Len(s)
  <2>1. i \in o .. Len(p) - 1 /\ p[i + 1] = 0 /\ \A j \in o .. i - 1 : p[j + 1] # 0
    BY <1>10 DEF FirstZero
  <2>2. ~(i < o + Len(s))
    <3> SUFFICES ASSUME i < o + Len(s) PROVE FALSE
      OBVIOUS
    <3>1. i + 1 - o \in 1 .. Len(s) /\ o + (i + 1 - o) = i + 1 /\ i + 1 <= Len(p)
      BY <1>6, <1>7, <2>1
    <3> QED BY <1>8, <2>1, <3>1
  <2>3. ~(i > o + Len(s))
    <3> SUFFICES ASSUME i > o + Len(s) PROVE FALSE
      OBVIOUS
    <3>1. o + Len(s) \in o .. i - 1 /\ o + Len(s) + 1 <= Len(p)
      BY <1>6, <1>7, <2>1
    <3> QED BY <1>9, <2>1, <3>1
  <2> QED BY <1>6, <1>7, <2>1, <2>2, <2>3
<1>11. Ends(p, o, w) => o + Len(s) + 1 <= Len(p)
  BY <1>3, <1>5, <1>6, <1>7 DEF Ends
<1> QED BY <1>2, <1>4, <1>6, <1>7, <1>9, <1>10, <1>11

-----------------------------------------------------------------------------
(* The bytes of an answer *)

LEMMA FixedBytes ==
  ASSUME NEW n \in Nat, NEW f \in Q!Bytes(n)
  PROVE  f \in Seq(Q!Byte) /\ Len(f) = n /\ \A j \in 1 .. n : f[j] \in Q!Byte
BY DEF Q!Bytes

LEMMA OptionalBytes ==
  ASSUME NEW i, NEW b, NEW bytes \in Seq(Q!Byte)
  PROVE  Q!Optional(i, b, bytes) \in Seq(Q!Byte)
BY DEF Q!Optional

\* What comes before the next field, and what is left, are bytes.
LEMMA FieldBytes ==
  ASSUME NEW i \in Q!Answer
  PROVE  /\ \A s \in {i.name, i.map, i.folder, i.game, i.version, i.tvname, i.keywords} : s \in Q!Letters
         /\ i.protocol \in Q!Byte /\ i.players \in Q!Byte /\ i.edf \in Q!Byte
         /\ i.appid \in Q!Bytes(2) /\ i.limits \in Q!Bytes(2) /\ i.kinds \in Q!Bytes(4)
         /\ i.port \in Q!Bytes(2) /\ i.steamid \in Q!Bytes(8) /\ i.tv \in Q!Bytes(2) /\ i.gameid \in Q!Bytes(8)
BY DEF Q!Answer

LEMMA Middle ==
  ASSUME NEW S, NEW f \in Seq(S), NEW m \in Seq(S), NEW r \in Seq(S)
  PROVE  /\ (f \o m) \o r \in Seq(S) /\ Len((f \o m) \o r) = Len(f) + Len(m) + Len(r)
         /\ \A j \in 1 .. Len(m) : ((f \o m) \o r)[Len(f) + j] = m[j]
<1>1. PICK g \in Seq(S) : g = f \o m
  BY Joined
<1>2. Len(g) = Len(f) + Len(m) /\ \A j \in 1 .. Len(m) : g[Len(f) + j] = m[j]
  BY <1>1, Joined
<1>3. PICK h \in Seq(S) : h = g \o r
  BY Joined
<1>4. Len(h) = Len(g) + Len(r) /\ \A j \in 1 .. Len(g) : h[j] = g[j]
  BY <1>3, Joined
<1>5. \A j \in 1 .. Len(m) : h[Len(f) + j] = m[j]
  BY <1>2, <1>4
<1> QED BY <1>1, <1>2, <1>3, <1>4, <1>5

LEMMA CountersBytes ==
  ASSUME NEW i \in Q!Answer
  PROVE  Q!Counters(i) \in Seq(Q!Byte) /\ Len(Q!Counters(i)) = 5 /\ Q!Counters(i)[3] = i.players
<1>1. PICK f \in Seq(Q!Byte), r \in Seq(Q!Byte) : f = i.appid /\ r = i.limits
  BY FieldBytes, FixedBytes
<1>2. PICK m \in Seq(Q!Byte) : m = <<i.players>> /\ Len(m) = 1 /\ m[1] = i.players
  BY FieldBytes, One
<1>3. PICK g \in Seq(Q!Byte) : g = (f \o m) \o r
  BY Middle
<1>4. Len(g) = Len(f) + Len(m) + Len(r) /\ \A j \in 1 .. Len(m) : g[Len(f) + j] = m[j]
  BY <1>3, Middle
<1>5. Len(f) = 2 /\ Len(r) = 2
  BY <1>1, FieldBytes, FixedBytes
<1>6. 1 \in 1 .. Len(m)
  BY <1>2
<1>7. g[Len(f) + 1] = m[1]
  BY <1>4, <1>6
<1>8. Len(g) = 5 /\ g[3] = i.players
  BY <1>2, <1>4, <1>5, <1>7
<1>9. g = Q!Counters(i)
  BY <1>1, <1>2, <1>3 DEF Q!Counters
<1> QED BY <1>8, <1>9

LEMMA OnBytes ==
  ASSUME NEW i \in Q!Answer
  PROVE  \A at \in DOMAIN On(i) : On(i)[at] \in Seq(Q!Byte)
<1>1. Q!GameIdOn(i) \in Seq(Q!Byte)
  BY FieldBytes, FixedBytes, OptionalBytes DEF Q!GameIdOn
<1>2. Q!KeywordsOn(i) \in Seq(Q!Byte)
  BY <1>1, FieldBytes, TextBytes, OptionalBytes, Joined DEF Q!KeywordsOn
<1>3. Q!TvNameOn(i) \in Seq(Q!Byte)
  BY <1>2, FieldBytes, TextBytes, OptionalBytes, Joined DEF Q!TvNameOn
<1>4. Q!TvOn(i) \in Seq(Q!Byte)
  BY <1>3, FieldBytes, FixedBytes, OptionalBytes, Joined DEF Q!TvOn
<1>5. Q!SteamIdOn(i) \in Seq(Q!Byte)
  BY <1>4, FieldBytes, FixedBytes, OptionalBytes, Joined DEF Q!SteamIdOn
<1>6. Q!PortOn(i) \in Seq(Q!Byte)
  BY <1>5, FieldBytes, FixedBytes, OptionalBytes, Joined DEF Q!PortOn
<1>7. Q!EdfOn(i) \in Seq(Q!Byte)
  BY <1>6, FieldBytes, One, Joined DEF Q!EdfOn
<1>8. Q!VersionOn(i) \in Seq(Q!Byte)
  BY <1>7, FieldBytes, TextBytes, Joined DEF Q!VersionOn
<1>9. Q!KindsOn(i) \in Seq(Q!Byte)
  BY <1>8, FieldBytes, FixedBytes, Joined DEF Q!KindsOn
<1>10. Q!CountersOn(i) \in Seq(Q!Byte)
  BY <1>9, CountersBytes, Joined DEF Q!CountersOn
<1>11. Q!GameOn(i) \in Seq(Q!Byte)
  BY <1>10, FieldBytes, TextBytes, Joined DEF Q!GameOn
<1>12. Q!FolderOn(i) \in Seq(Q!Byte)
  BY <1>11, FieldBytes, TextBytes, Joined DEF Q!FolderOn
<1>13. Q!MapOn(i) \in Seq(Q!Byte)
  BY <1>12, FieldBytes, TextBytes, Joined DEF Q!MapOn
<1>14. Q!NameOn(i) \in Seq(Q!Byte)
  BY <1>13, FieldBytes, TextBytes, Joined DEF Q!NameOn
<1>15. Q!ProtocolOn(i) \in Seq(Q!Byte)
  BY <1>14, FieldBytes, One, Joined DEF Q!ProtocolOn
<1>16. Q!Whole(i) \in Seq(Q!Byte)
  <2>1. <<73>> \in Seq(Q!Byte)
    BY One DEF Q!Byte
  <2> QED BY <1>15, <2>1, Joined DEF Q!Whole
<1> QED BY <1>1, <1>2, <1>3, <1>4, <1>5, <1>6, <1>7, <1>8, <1>9, <1>10, <1>11, <1>12, <1>13, <1>14, <1>15, <1>16
        DEF On

-----------------------------------------------------------------------------
(* The inductive invariant of ReadTruly *)

Begun(i) == Q!Begins(i, packet.payload)
Full(i)  == packet.header = "single" /\ packet.payload = Q!Whole(i)

\* Where an answer goes on like one that was sent, the walk is at its fields,
\* and has read what they hold.
Reads(i) ==
  /\ queryPc \in Q!Fields => Follows(packet.payload, offset, On(i)[queryPc])
  /\ queryPc \in {"skip", "version", "edf", "info"} \cup Q!Extras => players = i.players
  /\ queryPc \in Q!Extras => flags = i.edf

\* Of a whole answer, it gets to the last field.
Accepts(i) ==
  /\ queryPc \in Q!Fields \cup {"info"}
  /\ queryPc \in Q!Fields => Ends(packet.payload, offset, On(i)[queryPc])
  /\ queryPc = "info" => gameId = IF Q!Has(i.edf, 1) THEN i.gameid[1] ELSE -1

ReadsOf(i) == (Begun(i) => Reads(i)) /\ (Full(i) => Accepts(i))

\* Before the walk there is no answer; only its last step reads a game id.
ReadInv ==
  /\ IInv
  /\ queryPc \in {"send", "challenge", "OSError"} => packet.header = "other" \/ Q!IsChallenge(packet)
  /\ queryPc # "info" => gameId = -1
  /\ \A i \in Sent : ReadsOf(i)

LEMMA FieldNames ==
  Q!Fields = {"header", "protocol", "counters", "skip", "version", "edf", "port", "steamid",
              "tv", "tvname", "keywords", "gameid", "name", "map", "folder", "game"}
BY DEF Q!Fields, Q!Extras, Q!Strings

LEMMA PayloadType ==
  ASSUME IInv
  PROVE  packet.payload \in Seq(Q!Byte) /\ Q!Size = Len(packet.payload) /\ offset \in Nat /\ offset <= Q!Size
BY Sizes DEF IInv, Q!TypeOK, Q!Packet, Q!Size

LEMMA Prefix ==
  ASSUME NEW S, NEW w \in Seq(S), NEW p \in Seq(S), Len(p) <= Len(w), SubSeq(w, 1, Len(p)) = p
  PROVE  \A j \in 1 .. Len(p) : p[j] = w[j]
OBVIOUS

LEMMA WholePrefix ==
  ASSUME NEW S, NEW w \in Seq(S)
  PROVE  SubSeq(w, 1, Len(w)) = w
OBVIOUS

LEMMA BeginsFollows ==
  ASSUME NEW p \in Seq(Q!Byte), NEW i \in Q!Answer
  PROVE  /\ Q!Begins(i, p) => Follows(p, 0, Q!Whole(i))
         /\ p = Q!Whole(i) => Q!Begins(i, p)
<1>1. PICK w \in Seq(Q!Byte) : w = Q!Whole(i)
  BY OnBytes DEF On
<1>2. Len(w) \in Nat /\ Len(p) \in Nat
  OBVIOUS
<1>3. Q!Begins(i, p) => Follows(p, 0, w)
  <2> SUFFICES ASSUME Q!Begins(i, p) PROVE Follows(p, 0, w)
    OBVIOUS
  <2>1. Len(p) <= Len(w) /\ \A j \in 1 .. Len(p) : p[j] = w[j]
    BY <1>1, Prefix DEF Q!Begins
  <2> QED BY <1>2, <2>1 DEF Follows
<1>4. p = w => Q!Begins(i, p)
  BY <1>1, <1>2, WholePrefix DEF Q!Begins
<1> QED BY <1>1, <1>3, <1>4

LEMMA BegunFollows ==
  ASSUME IInv, NEW i \in Q!Answer
  PROVE  /\ Begun(i) => Follows(packet.payload, 0, Q!Whole(i))
         /\ Full(i) => Begun(i)
BY PayloadType, BeginsFollows DEF Begun, Full

LEMMA BegunNext ==
  ASSUME IInv', NEW i \in Q!Answer
  PROVE  /\ Begun(i)' => Follows(packet'.payload, 0, Q!Whole(i))
         /\ Full(i)' => Begun(i)'
<1>1. packet'.payload \in Seq(Q!Byte)
  BY DEF IInv, Q!TypeOK, Q!Packet
<1> QED BY <1>1, BeginsFollows DEF Begun, Full

-----------------------------------------------------------------------------
(* What a step leaves of it *)

LEMMA OnField ==
  ASSUME NEW i \in Q!Answer, NEW at \in Q!Fields
  PROVE  On(i)[at] \in Seq(Q!Byte)
BY OnBytes, FieldNames DEF On

\* A field is passed: in an answer that goes on like i, f are its bytes.
LEMMA ReadMoves ==
  ASSUME IInv, IInv', NEW i \in Q!Answer, ReadsOf(i),
         NEW from \in Q!Fields, NEW to \in Q!Fields, NEW f \in Seq(Q!Byte), On(i)[from] = f \o On(i)[to],
         queryPc = from, queryPc' = to, packet' = packet,
         Begun(i) => /\ offset' = offset + Len(f)
                     /\ to \in {"skip", "version", "edf"} \cup Q!Extras => players' = i.players
                     /\ to \in Q!Extras => flags' = i.edf
  PROVE  ReadsOf(i)'
<1>1. Begun(i)' = Begun(i) /\ Full(i)' = Full(i) /\ to # "info" /\ (Full(i) => Begun(i))
  BY BegunFollows, FieldNames DEF Begun, Full
<1>2. ASSUME Begun(i)
      PROVE  /\ Follows(packet.payload, offset', On(i)[to])
             /\ Ends(packet.payload, offset, On(i)[from]) => Ends(packet.payload, offset', On(i)[to])
  <2>1. Follows(packet.payload, offset, f \o On(i)[to])
    BY <1>2 DEF ReadsOf, Reads
  <2>2. offset + Len(f) <= Len(packet.payload)
    <3>1. offset' <= Len(packet'.payload)
      BY PayloadType DEF IInv, Q!TypeOK, Q!Packet, Q!Size
    <3> QED BY <1>2, <3>1
  <2> QED BY <1>2, <2>1, <2>2, OnField, FollowsOn
<1>3. Begun(i) => Reads(i)'
  BY <1>1, <1>2 DEF Reads
<1>4. Full(i) => Accepts(i)'
  BY <1>1, <1>2 DEF Accepts, ReadsOf
<1> QED BY <1>1, <1>3, <1>4 DEF ReadsOf

\* The query fails, where no whole answer was.
LEMMA ReadFails ==
  ASSUME NEW i \in Q!Answer, queryPc' = "A2SError", packet' = packet, ~Full(i)
  PROVE  ReadsOf(i)'
<1>1. queryPc' \notin Q!Fields \cup {"info"} \cup Q!Extras
  BY FieldNames DEF Q!Extras
<1>2. ~Full(i)'
  BY DEF Full
<1> QED BY <1>1, <1>2 DEF ReadsOf, Reads

\* The query succeeds.
LEMMA ReadEnds ==
  ASSUME IInv, NEW i \in Q!Answer, queryPc' = "info", packet' = packet,
         Begun(i) => players' = i.players,
         Full(i) => gameId' = IF Q!Has(i.edf, 1) THEN i.gameid[1] ELSE -1
  PROVE  ReadsOf(i)'
<1>1. queryPc' \notin Q!Fields \cup Q!Extras
  BY FieldNames DEF Q!Extras
<1>2. Begun(i)' = Begun(i) /\ Full(i)' = Full(i)
  BY DEF Begun, Full
<1> QED BY <1>1, <1>2 DEF ReadsOf, Reads, Accepts

LEMMA StringReads ==
  ASSUME IInv, IInv', NEW i \in Q!Answer, ReadsOf(i),
         NEW from \in Q!Fields, NEW to \in Q!Fields, NEW s \in Q!Letters, On(i)[from] = Q!Text(s) \o On(i)[to],
         queryPc = from, Q!CString(from, to),
         Begun(i) => /\ to \in {"skip", "version", "edf"} \cup Q!Extras => players = i.players
                     /\ to \in Q!Extras => flags = i.edf
  PROVE  ReadsOf(i)'
<1>1. PICK r \in Seq(Q!Byte) : r = On(i)[to]
  BY OnField
<1>2. PICK p : p = packet.payload /\ Q!Size = Len(p)
  BY DEF Q!Size
<1>3. Begun(i) => Follows(p, offset, Q!Text(s) \o r)
  BY <1>1, <1>2 DEF ReadsOf, Reads
<1>4. Full(i) => Begun(i) /\ Ends(p, offset, Q!Text(s) \o r)
  BY <1>1, <1>2, BegunFollows DEF ReadsOf, Accepts
<1>5. CASE Q!Fails(from)
  <2>1. CASE Full(i)
    <3>1. offset + Len(s) \in offset .. Q!Size - 1 /\ Q!At(offset + Len(s)) = 0
      BY <1>2, <1>3, <1>4, <2>1, TextFollows DEF Q!At
    <3>2. PICK k \in offset .. Q!Size - 1 : Q!Terminator(k) /\ offset' = k + 1 /\ Q!Step(from, to)
                                      /\ UNCHANGED <<packet, flags, players, gameId>>
      BY <3>1 DEF Q!CString
    <3>3. queryPc' = to /\ queryPc' = "A2SError"
      BY <1>5, <3>2 DEF Q!Step, Q!Fails
    <3> QED BY <3>3, FieldNames
  <2> QED BY <1>5, <2>1, ReadFails DEF Q!Fails, Q!Step
<1>6. ASSUME NEW k \in offset .. Q!Size - 1, Q!Terminator(k), offset' = k + 1, Q!Step(from, to),
             UNCHANGED <<packet, flags, players, gameId>>
      PROVE  ReadsOf(i)'
  <2>1. FirstZero(p, offset, k)
    BY <1>2, <1>6 DEF FirstZero, Q!Terminator, Q!At
  <2>2. Begun(i) => k = offset + Len(s)
    BY <1>3, <2>1, TextFollows
  <2>3. Q!Text(s) \in Seq(Q!Byte) /\ Len(Q!Text(s)) = Len(s) + 1 /\ Len(s) \in Nat /\ offset \in Nat
    BY TextBytes, PayloadType
  <2>4. Begun(i) => offset' = offset + Len(Q!Text(s))
    BY <1>6, <2>2, <2>3
  <2> QED BY <1>6, <2>3, <2>4, ReadMoves DEF Q!Step
<1> QED BY <1>5, <1>6 DEF Q!CString

\* The next field of a whole answer is there.
LEMMA FullSize ==
  ASSUME IInv, NEW i \in Q!Answer, ReadsOf(i), NEW from \in Q!Fields, NEW to \in Q!Fields,
         NEW f \in Seq(Q!Byte), On(i)[from] = f \o On(i)[to], queryPc = from, Q!Size < offset + Len(f)
  PROVE  ~Full(i)
<1> SUFFICES ASSUME Full(i) PROVE FALSE
  OBVIOUS
<1>1. Ends(packet.payload, offset, f \o On(i)[to])
  BY DEF ReadsOf, Accepts
<1>2. Len(f \o On(i)[to]) = Len(f) + Len(On(i)[to]) /\ Len(On(i)[to]) \in Nat /\ Len(f) \in Nat
  BY OnField, Joined
<1>3. Len(packet.payload) = offset + (Len(f) + Len(On(i)[to]))
  BY <1>1, <1>2 DEF Ends
<1> QED BY <1>2, <1>3, PayloadType

\* What a flag announces is there, or nothing is.
LEMMA ExtraReads ==
  ASSUME IInv, IInv', NEW i \in Q!Answer, ReadsOf(i),
         NEW from \in Q!Extras, NEW to \in Q!Extras, NEW flag, NEW size \in Nat, NEW bytes \in Q!Bytes(size),
         On(i)[from] = Q!Optional(i, flag, bytes) \o On(i)[to],
         queryPc = from, Q!Extra(from, flag, size, to)
  PROVE  ReadsOf(i)'
<1>1. from \in Q!Fields /\ to \in Q!Fields
  BY DEF Q!Fields
<1>2. PICK f \in Seq(Q!Byte) : f = Q!Optional(i, flag, bytes)
  BY FixedBytes, OptionalBytes
<1>3. Begun(i) => /\ players = i.players /\ flags = i.edf
                  /\ Follows(packet.payload, offset, f \o On(i)[to])
  BY <1>1, <1>2 DEF ReadsOf, Reads
<1>4. Begun(i) => Len(f) = IF Q!Flag(flag) THEN size ELSE 0
  BY <1>2, <1>3, FixedBytes DEF Q!Optional, Q!Flag
<1>5. packet' = packet /\ players' = players /\ flags' = flags
  BY DEF Q!Extra, Q!Fails
<1>6. CASE Q!Flag(flag) /\ Q!Size < offset + size /\ Q!Fails(from)
  <2>1. ~Full(i)
    <3>1. CASE Full(i)
      <4>1. Q!Size < offset + Len(f)
        BY <1>4, <1>6, <3>1, BegunFollows
      <4> QED BY <1>1, <1>2, <4>1, FullSize
    <3> QED BY <3>1
  <2> QED BY <1>6, <2>1, ReadFails DEF Q!Fails, Q!Step
<1>7. CASE queryPc' = to /\ offset' = offset + IF Q!Flag(flag) THEN size ELSE 0
  <2>1. Begun(i) => offset' = offset + Len(f)
    BY <1>4, <1>7
  <2> QED BY <1>1, <1>2, <1>3, <1>5, <1>7, <2>1, ReadMoves
<1> QED
  <2>1. offset + 0 = offset
    BY PayloadType
  <2> QED BY <1>6, <1>7, <2>1 DEF Q!Extra, Q!Step

LEMMA ExtraStringReads ==
  ASSUME IInv, IInv', NEW i \in Q!Answer, ReadsOf(i),
         NEW from \in Q!Extras, NEW to \in Q!Extras, NEW flag, NEW s \in Q!Letters,
         On(i)[from] = Q!Optional(i, flag, Q!Text(s)) \o On(i)[to],
         queryPc = from, Q!ExtraString(from, flag, to)
  PROVE  ReadsOf(i)'
<1>1. from \in Q!Fields /\ to \in Q!Fields /\ On(i)[to] \in Seq(Q!Byte)
  BY OnField DEF Q!Fields
<1>2. (Begun(i) => players = i.players /\ flags = i.edf) /\ (Full(i) => Begun(i))
  BY BegunFollows DEF ReadsOf, Reads
<1>3. CASE ~Begun(i)
  <2>1. packet' = packet /\ queryPc' \in {to, "A2SError"}
    BY DEF Q!ExtraString, Q!CString, Q!Fails, Q!Step
  <2>2. ~Begun(i)' /\ ~Full(i)'
    BY <1>2, <1>3, <2>1 DEF Begun, Full
  <2> QED BY <2>2 DEF ReadsOf
<1>4. CASE Begun(i) /\ ~Q!Flag(flag)
  <2>1. queryPc' = to /\ UNCHANGED <<packet, offset, flags, players>>
    BY <1>4 DEF Q!ExtraString, Q!Step
  <2>2. PICK f \in Seq(Q!Byte) : f = <<>> /\ Len(f) = 0
    BY Nothing
  <2>3. On(i)[from] = f \o On(i)[to]
    BY <1>2, <1>4, <2>2 DEF Q!Optional, Q!Flag
  <2>4. offset' = offset + Len(f)
    BY <2>1, <2>2, PayloadType
  <2> QED BY <1>1, <1>2, <2>1, <2>3, <2>4, ReadMoves
<1>5. CASE Begun(i) /\ Q!Flag(flag)
  <2>1. Q!CString(from, to)
    BY <1>5 DEF Q!ExtraString
  <2>2. On(i)[from] = Q!Text(s) \o On(i)[to]
    BY <1>2, <1>5 DEF Q!Optional, Q!Flag
  <2> QED BY <1>1, <1>2, <2>1, <2>2, StringReads
<1> QED BY <1>3, <1>4, <1>5

LEMMA WholeBegins ==
  ASSUME NEW i \in Q!Answer
  PROVE  Q!Whole(i) \in Seq(Q!Byte) /\ Len(Q!Whole(i)) >= 2 /\ Q!Whole(i)[1] = 73
<1>1. PICK k \in Seq(Q!Byte) : k = <<73>> /\ Len(k) = 1 /\ k[1] = 73
  <2>1. 73 \in Q!Byte
    BY DEF Q!Byte
  <2> QED BY <2>1, One
<1>2. PICK t \in Seq(Q!Byte) : t = <<i.protocol>> /\ Len(t) = 1
  BY FieldBytes, One
<1>3. PICK n \in Seq(Q!Byte) : n = Q!NameOn(i)
  BY OnBytes DEF On
<1>4. PICK r \in Seq(Q!Byte) : r = t \o n
  BY Joined
<1>5. Len(r) = Len(t) + Len(n) /\ Len(n) \in Nat
  BY <1>4, Joined
<1>6. PICK w \in Seq(Q!Byte) : w = k \o r
  BY Joined
<1>7. Len(w) = Len(k) + Len(r) /\ \A j \in 1 .. Len(k) : w[j] = k[j]
  BY <1>6, Joined
<1>8. Len(w) >= 2 /\ w[1] = 73
  BY <1>1, <1>2, <1>5, <1>7
<1>9. w = Q!Whole(i)
  BY <1>1, <1>2, <1>3, <1>4, <1>6 DEF Q!Whole, Q!ProtocolOn
<1> QED BY <1>8, <1>9

LEMMA HeaderReads ==
  ASSUME IInv, IInv', NEW i \in Q!Answer, ReadsOf(i), Q!Header
  PROVE  ReadsOf(i)'
<1>1. queryPc = "header" /\ offset = 0 /\ packet' = packet
  BY DEF Q!Header, Q!Step, Q!Fails, IInv
<1>2. CASE Q!Informative /\ Q!Step("header", "protocol") /\ offset' = 1
  <2>1. PICK f \in Seq(Q!Byte) : f = <<73>> /\ Len(f) = 1
    <3>1. 73 \in Q!Byte
      BY DEF Q!Byte
    <3> QED BY <3>1, One
  <2>2. On(i)["header"] = f \o On(i)["protocol"]
    BY <2>1 DEF On, Q!Whole
  <2>3. offset' = offset + Len(f) /\ queryPc' = "protocol"
    BY <1>1, <1>2, <2>1 DEF Q!Step
  <2>4. "protocol" \notin {"skip", "version", "edf"} \cup Q!Extras /\ {"header", "protocol"} \subseteq Q!Fields
    BY FieldNames DEF Q!Extras
  <2> QED BY <1>1, <2>2, <2>3, <2>4, ReadMoves
<1>3. CASE ~Q!Informative /\ Q!Fails("header")
  <2>1. ~Full(i)
    BY <1>3, WholeBegins, PayloadType DEF Full, Q!Informative, Q!At
  <2> QED BY <1>1, <1>3, <2>1, ReadFails DEF Q!Fails, Q!Step
<1> QED BY <1>2, <1>3 DEF Q!Header

LEMMA ProtocolReads ==
  ASSUME IInv, IInv', NEW i \in Q!Answer, ReadsOf(i), Q!Protocol
  PROVE  ReadsOf(i)'
<1>1. PICK f \in Seq(Q!Byte) : f = <<i.protocol>> /\ Len(f) = 1
  BY FieldBytes, One
<1>2. On(i)["protocol"] = f \o On(i)["name"]
  BY <1>1 DEF On, Q!ProtocolOn
<1>3. queryPc = "protocol" /\ queryPc' = "name" /\ packet' = packet /\ offset' = offset + Len(f)
  <2>1. ~Q!Crashes("protocol")
    BY DEF Q!Crashes, Q!Step, IInv, OnlyCaught, Q!OnlyCaught
  <2> QED BY <1>1, <2>1 DEF Q!Protocol, Q!Step
<1>4. "name" \notin {"skip", "version", "edf"} \cup Q!Extras /\ {"protocol", "name"} \subseteq Q!Fields
  BY FieldNames DEF Q!Extras
<1> QED BY <1>2, <1>3, <1>4, ReadMoves

LEMMA NamesRead ==
  ASSUME IInv, IInv', NEW i \in Q!Answer, ReadsOf(i),
         Q!CString("name", "map") \/ Q!CString("map", "folder") \/ Q!CString("folder", "game")
           \/ Q!CString("game", "counters") \/ Q!CString("version", "edf")
  PROVE  ReadsOf(i)'
<1>1. /\ On(i)["name"] = Q!Text(i.name) \o On(i)["map"] /\ On(i)["map"] = Q!Text(i.map) \o On(i)["folder"]
      /\ On(i)["folder"] = Q!Text(i.folder) \o On(i)["game"] /\ On(i)["game"] = Q!Text(i.game) \o On(i)["counters"]
      /\ On(i)["version"] = Q!Text(i.version) \o On(i)["edf"]
  BY DEF On, Q!NameOn, Q!MapOn, Q!FolderOn, Q!GameOn, Q!VersionOn
<1>2. i.name \in Q!Letters /\ i.map \in Q!Letters /\ i.folder \in Q!Letters /\ i.game \in Q!Letters /\ i.version \in Q!Letters
  BY FieldBytes
<1>3. /\ {"name", "map", "folder", "game", "counters", "version", "edf"} \subseteq Q!Fields
      /\ {"map", "folder", "game", "counters"} \cap ({"skip", "version", "edf"} \cup Q!Extras) = {}
      /\ "edf" \notin Q!Extras
  BY FieldNames DEF Q!Extras
<1>4. CASE Q!CString("name", "map")
  BY <1>1, <1>2, <1>3, <1>4, StringReads DEF Q!CString, Q!Step, Q!Fails
<1>5. CASE Q!CString("map", "folder")
  BY <1>1, <1>2, <1>3, <1>5, StringReads DEF Q!CString, Q!Step, Q!Fails
<1>6. CASE Q!CString("folder", "game")
  BY <1>1, <1>2, <1>3, <1>6, StringReads DEF Q!CString, Q!Step, Q!Fails
<1>7. CASE Q!CString("game", "counters")
  BY <1>1, <1>2, <1>3, <1>7, StringReads DEF Q!CString, Q!Step, Q!Fails
<1>8. CASE Q!CString("version", "edf")
  <2>1. queryPc = "version" /\ (Begun(i) => players = i.players)
    BY <1>8 DEF Q!CString, Q!Step, Q!Fails, ReadsOf, Reads
  <2> QED BY <1>1, <1>2, <1>3, <1>8, <2>1, StringReads
<1> QED BY <1>4, <1>5, <1>6, <1>7, <1>8


LEMMA CountsRead ==
  ASSUME IInv, IInv', NEW i \in Q!Answer, ReadsOf(i), Q!Counts
  PROVE  ReadsOf(i)'
<1>1. PICK f \in Seq(Q!Byte) : f = Q!Counters(i) /\ Len(f) = 5 /\ f[3] = i.players
  BY CountersBytes
<1>2. On(i)["counters"] = f \o On(i)["skip"]
  BY <1>1 DEF On, Q!CountersOn
<1>3. queryPc = "counters" /\ packet' = packet
  BY DEF Q!Counts, Q!Fails, Q!Crashes, Q!Step
<1>4. {"counters", "skip"} \subseteq Q!Fields /\ "skip" \notin Q!Extras
  BY FieldNames DEF Q!Extras
<1>5. Begun(i) => Follows(packet.payload, offset, f \o On(i)["skip"])
  BY <1>2, <1>3, <1>4 DEF ReadsOf, Reads
<1>6. CASE Q!Size < offset + 5 /\ Q!Fails("counters")
  <2>1. ~Full(i)
    BY <1>1, <1>2, <1>3, <1>4, <1>6, FullSize
  <2> QED BY <1>3, <1>6, <2>1, ReadFails DEF Q!Fails, Q!Step
<1>7. CASE Q!Size >= offset + 5 /\ players' = Q!At(offset + 2) /\ offset' = offset + 5 /\ Q!Step("counters", "skip")
  <2>1. Begun(i) => players' = i.players
    <3> SUFFICES ASSUME Begun(i) PROVE Q!At(offset + 2) = i.players
      BY <1>7
    <3>1. offset + Len(f) <= Len(packet.payload)
      BY <1>1, <1>7, PayloadType
    <3>2. PICK r \in Seq(Q!Byte) : r = On(i)["skip"] /\ Follows(packet.payload, offset, f \o r)
      BY <1>4, <1>5, OnField
    <3>3. \A j \in 1 .. Len(f) : packet.payload[offset + j] = f[j]
      BY <3>1, <3>2, FollowsOn
    <3>4. packet.payload[offset + 3] = f[3]
      BY <1>1, <3>3
    <3>5. offset + 2 + 1 = offset + 3
      BY PayloadType
    <3> QED BY <1>1, <3>4, <3>5 DEF Q!At
  <2>2. queryPc' = "skip" /\ offset' = offset + Len(f)
    BY <1>1, <1>7 DEF Q!Step
  <2> QED BY <1>2, <1>3, <1>4, <2>1, <2>2, ReadMoves
<1> QED
  <2>1. ~Q!Room <=> Q!Size < offset + 5
    BY PayloadType DEF Q!Room
  <2> QED BY <1>6, <1>7, <2>1 DEF Q!Counts, Q!Room

LEMMA SkipReads ==
  ASSUME IInv, IInv', NEW i \in Q!Answer, ReadsOf(i), Q!Skip
  PROVE  ReadsOf(i)'
<1>1. PICK f \in Seq(Q!Byte) : f = i.kinds /\ Len(f) = 4
  BY FieldBytes, FixedBytes
<1>2. On(i)["skip"] = f \o On(i)["version"]
  BY <1>1 DEF On, Q!KindsOn
<1>3. queryPc = "skip" /\ UNCHANGED <<packet, players>>
  BY DEF Q!Skip, Q!Step
<1>4. {"skip", "version"} \subseteq Q!Fields /\ "version" \notin Q!Extras
  BY FieldNames DEF Q!Extras
<1>5. Begun(i) => players = i.players
  BY <1>3 DEF ReadsOf, Reads
<1>6. CASE queryPc' = "version" /\ offset' = offset + 4
  BY <1>1, <1>2, <1>3, <1>4, <1>5, <1>6, ReadMoves
<1>7. CASE queryPc' = "info" /\ Q!Size < offset + 4
  <2>1. ~Full(i)
    BY <1>1, <1>2, <1>3, <1>4, <1>7, FullSize
  <2> QED BY <1>3, <1>5, <1>7, <2>1, ReadEnds
<1> QED BY <1>6, <1>7 DEF Q!Skip, Q!Step

LEMMA EdfReads ==
  ASSUME IInv, IInv', NEW i \in Q!Answer, ReadsOf(i), Q!Edf
  PROVE  ReadsOf(i)'
<1>1. PICK f \in Seq(Q!Byte) : f = <<i.edf>> /\ Len(f) = 1 /\ f[1] = i.edf
  BY FieldBytes, One
<1>2. On(i)["edf"] = f \o On(i)["port"]
  BY <1>1 DEF On, Q!EdfOn
<1>3. queryPc = "edf" /\ UNCHANGED <<packet, players>>
  BY DEF Q!Edf, Q!Step
<1>4. {"edf", "port"} \subseteq Q!Fields
  BY FieldNames
<1>5. Begun(i) => players = i.players /\ Follows(packet.payload, offset, f \o On(i)["port"])
  BY <1>2, <1>3, <1>4 DEF ReadsOf, Reads
<1>6. CASE offset < Q!Size /\ queryPc' = "port" /\ offset' = offset + 1 /\ flags' = Q!At(offset)
  <2>1. Begun(i) => flags' = i.edf
    <3> SUFFICES ASSUME Begun(i) PROVE Q!At(offset) = i.edf
      BY <1>6
    <3>1. offset + Len(f) <= Len(packet.payload) /\ 1 \in 1 .. Len(f)
      BY <1>1, <1>6, PayloadType
    <3>2. On(i)["port"] \in Seq(Q!Byte)
      BY <1>4, OnField
    <3>3. packet.payload[offset + 1] = f[1]
      BY <1>5, <3>1, <3>2, FollowsOn
    <3> QED BY <1>1, <3>3 DEF Q!At
  <2> QED BY <1>1, <1>2, <1>3, <1>4, <1>5, <1>6, <2>1, ReadMoves
<1>7. CASE queryPc' = "info" /\ offset >= Q!Size
  <2>1. ~Full(i)
    <3>1. Q!Size < offset + 1
      BY <1>7, PayloadType
    <3> QED BY <1>1, <1>2, <1>3, <1>4, <3>1, FullSize
  <2> QED BY <1>3, <1>5, <1>7, <2>1, ReadEnds
<1> QED BY <1>6, <1>7 DEF Q!Edf, Q!Step

LEMMA ExtrasRead ==
  ASSUME IInv, IInv', NEW i \in Q!Answer, ReadsOf(i),
         Q!Extra("port", 128, 2, "steamid") \/ Q!Extra("steamid", 16, 8, "tv") \/ Q!Extra("tv", 64, 2, "tvname")
           \/ Q!ExtraString("tvname", 64, "keywords") \/ Q!ExtraString("keywords", 32, "gameid")
  PROVE  ReadsOf(i)'
<1>1. /\ On(i)["port"] = Q!Optional(i, 128, i.port) \o On(i)["steamid"]
      /\ On(i)["steamid"] = Q!Optional(i, 16, i.steamid) \o On(i)["tv"]
      /\ On(i)["tv"] = Q!Optional(i, 64, i.tv) \o On(i)["tvname"]
      /\ On(i)["tvname"] = Q!Optional(i, 64, Q!Text(i.tvname)) \o On(i)["keywords"]
      /\ On(i)["keywords"] = Q!Optional(i, 32, Q!Text(i.keywords)) \o On(i)["gameid"]
  BY DEF On, Q!PortOn, Q!SteamIdOn, Q!TvOn, Q!TvNameOn, Q!KeywordsOn
<1>2. /\ i.port \in Q!Bytes(2) /\ i.steamid \in Q!Bytes(8) /\ i.tv \in Q!Bytes(2)
      /\ i.tvname \in Q!Letters /\ i.keywords \in Q!Letters
  BY FieldBytes
<1>3. {"port", "steamid", "tv", "tvname", "keywords", "gameid"} \subseteq Q!Extras
  BY DEF Q!Extras
<1>4. CASE Q!Extra("port", 128, 2, "steamid")
  <2>1. queryPc = "port"
    BY <1>4 DEF Q!Extra, Q!Step, Q!Fails
  <2>2. 2 \in Nat /\ 8 \in Nat
    OBVIOUS
  <2> QED BY <1>1, <1>2, <1>3, <1>4, <2>1, <2>2, ExtraReads
<1>5. CASE Q!Extra("steamid", 16, 8, "tv")
  <2>1. queryPc = "steamid"
    BY <1>5 DEF Q!Extra, Q!Step, Q!Fails
  <2>2. 2 \in Nat /\ 8 \in Nat
    OBVIOUS
  <2> QED BY <1>1, <1>2, <1>3, <1>5, <2>1, <2>2, ExtraReads
<1>6. CASE Q!Extra("tv", 64, 2, "tvname")
  <2>1. queryPc = "tv"
    BY <1>6 DEF Q!Extra, Q!Step, Q!Fails
  <2>2. 2 \in Nat /\ 8 \in Nat
    OBVIOUS
  <2> QED BY <1>1, <1>2, <1>3, <1>6, <2>1, <2>2, ExtraReads
<1>7. CASE Q!ExtraString("tvname", 64, "keywords")
  <2>1. queryPc = "tvname"
    BY <1>7 DEF Q!ExtraString, Q!CString, Q!Step, Q!Fails
  <2> QED BY <1>1, <1>2, <1>3, <1>7, <2>1, ExtraStringReads
<1>8. CASE Q!ExtraString("keywords", 32, "gameid")
  <2>1. queryPc = "keywords"
    BY <1>8 DEF Q!ExtraString, Q!CString, Q!Step, Q!Fails
  <2> QED BY <1>1, <1>2, <1>3, <1>8, <2>1, ExtraStringReads
<1> QED BY <1>4, <1>5, <1>6, <1>7, <1>8

LEMMA GameIdReads ==
  ASSUME ReadInv, IInv, IInv', NEW i \in Q!Answer, ReadsOf(i), Q!GameId
  PROVE  ReadsOf(i)'
<1>1. queryPc = "gameid" /\ UNCHANGED <<packet, offset, flags, players>>
  BY DEF Q!GameId, Q!Step, Q!Fails
<1>2. "gameid" \in Q!Fields /\ "gameid" \in Q!Extras
  BY FieldNames DEF Q!Extras
<1>3. PICK f \in Seq(Q!Byte) : f = i.gameid /\ Len(f) = 8
  BY FieldBytes, FixedBytes
<1>4. Begun(i) => players = i.players /\ flags = i.edf
  BY <1>1, <1>2 DEF ReadsOf, Reads
<1>5. Full(i) => /\ flags = i.edf
                 /\ Ends(packet.payload, offset, On(i)["gameid"])
  BY <1>1, <1>2, <1>4, BegunFollows DEF ReadsOf, Accepts
<1>6. On(i)["gameid"] = IF Q!Has(i.edf, 1) THEN f ELSE <<>>
  BY <1>3 DEF On, Q!GameIdOn, Q!Optional
<1>7. CASE ~Q!Flag(1) /\ Q!Step("gameid", "info") /\ gameId' = gameId
  <2>1. gameId = -1
    BY <1>1 DEF ReadInv
  <2>2. Full(i) => gameId' = IF Q!Has(i.edf, 1) THEN i.gameid[1] ELSE -1
    BY <1>5, <1>7, <2>1 DEF Q!Flag
  <2> QED BY <1>1, <1>4, <1>7, <2>2, ReadEnds DEF Q!Step
<1>8. CASE Q!Flag(1) /\ Q!Size < offset + 8 /\ Q!Fails("gameid")
  <2>1. ~Full(i)
    <3> SUFFICES ASSUME Full(i) PROVE FALSE
      OBVIOUS
    <3>1. Ends(packet.payload, offset, f)
      BY <1>5, <1>6, <1>8 DEF Q!Flag
    <3> QED BY <1>3, <1>8, <3>1, PayloadType DEF Ends
  <2> QED BY <1>1, <1>8, <2>1, ReadFails DEF Q!Fails, Q!Step
<1>9. CASE Q!Flag(1) /\ Q!Size >= offset + 8 /\ Q!Step("gameid", "info") /\ gameId' = Q!At(offset)
  <2>1. Full(i) => gameId' = IF Q!Has(i.edf, 1) THEN i.gameid[1] ELSE -1
    <3> SUFFICES ASSUME Full(i) PROVE Q!Has(i.edf, 1) /\ Q!At(offset) = f[1]
      BY <1>3, <1>9
    <3>1. Q!Has(i.edf, 1)
      BY <1>5, <1>9 DEF Q!Flag
    <3>2. Ends(packet.payload, offset, f)
      BY <1>5, <1>6, <3>1
    <3>3. \A j \in 1 .. Len(packet.payload) - offset : packet.payload[offset + j] = f[j]
      BY <3>2 DEF Ends, Follows
    <3>4. 1 \in 1 .. Len(packet.payload) - offset
      BY <1>9, PayloadType
    <3> QED BY <3>1, <3>3, <3>4 DEF Q!At
  <2> QED BY <1>1, <1>4, <1>9, <2>1, ReadEnds DEF Q!Step
<1> QED BY <1>7, <1>8, <1>9 DEF Q!GameId

LEMMA SentAnswers == \A i \in Sent : i \in Q!Answer
BY PacketsAssumption

\* Nothing but the question leads to a failed socket, nothing but the last field
\* to a game id.
LEMMA AskStep ==
  ASSUME ReadInv, Q!Next
  PROVE  /\ queryPc' \in {"send", "challenge", "OSError"} => (packet.header = "other" \/ Q!IsChallenge(packet))'
         /\ queryPc' # "info" => gameId' = -1
<1>1. CASE Q!NoAnswer
  BY <1>1 DEF Q!NoAnswer, ReadInv
<1>2. ASSUME NEW from \in {"send", "challenge"}, Q!Receive(from)
      PROVE  /\ queryPc' \in {"send", "challenge", "OSError"} => Q!IsChallenge(packet')
             /\ gameId' = -1
  BY <1>2 DEF Q!Receive, Q!Step, ReadInv
<1>3. CASE Q!Parse
  <2>1. /\ queryPc # "info" /\ (queryPc' # "info" => gameId' = gameId)
        /\ queryPc' \in Q!Fields \cup {"info", "A2SError", "uncaught"} /\ queryPc' # "header"
    BY <1>3, FieldNames DEF Q!Parse, Q!FixedExtras, Q!Header, Q!Protocol, Q!CString, Q!Counts, Q!Skip, Q!Edf, Q!Extra,
      Q!ExtraString, Q!GameId, Q!Step, Q!Fails, Q!Crashes
  <2>2. queryPc' \notin {"send", "challenge", "OSError"}
    BY <2>1, FieldNames
  <2> QED BY <2>1, <2>2 DEF ReadInv
<1> QED BY <1>1, <1>2, <1>3 DEF Q!Next, Q!IsChallenge

\* One step of the query, for one answer.
LEMMA ReadStep ==
  ASSUME ReadInv, IInv', NEW i \in Sent, Q!Next
  PROVE  ReadsOf(i)'
<1>0. IInv /\ i \in Q!Answer /\ ReadsOf(i)
  BY SentAnswers DEF ReadInv
<1>1. CASE Q!NoAnswer
  <2>1. queryPc' = "OSError" /\ packet' = packet /\ queryPc \in {"send", "challenge"}
    BY <1>1 DEF Q!NoAnswer
  <2>2. ~Full(i)
    <3>1. packet.header = "other" \/ (packet.header = "single" /\ packet.payload[1] = 65)
      BY <2>1 DEF ReadInv, Q!IsChallenge
    <3>2. Q!Whole(i)[1] = 73
      BY <1>0, WholeBegins
    <3> QED BY <3>1, <3>2 DEF Full
  <2>3. queryPc' \notin Q!Fields \cup {"info"} \cup Q!Extras
    BY <2>1, FieldNames DEF Q!Extras
  <2> QED BY <2>1, <2>2, <2>3 DEF ReadsOf, Reads, Full
<1>2. ASSUME NEW from \in {"send", "challenge"}, Q!Receive(from) PROVE ReadsOf(i)'
  <2>1. queryPc' \in {"header", "challenge"} /\ (queryPc' = "challenge" => Q!IsChallenge(packet'))
    BY <1>2 DEF Q!Receive, Q!Step
  <2>2. offset' = 0
    BY <1>0, <1>2 DEF Q!Receive, Q!Step, IInv
  <2>3. /\ Begun(i)' => Follows(packet'.payload, 0, Q!Whole(i))
        /\ Full(i)' => Begun(i)'
    BY <1>0, BegunNext
  <2>4. CASE queryPc' = "challenge"
    <3>1. ~Full(i)'
      <4>1. packet'.payload[1] = 65 /\ Q!Whole(i)[1] = 73
        BY <1>0, <2>1, <2>4, WholeBegins DEF Q!IsChallenge
      <4> QED BY <4>1 DEF Full
    <3>2. queryPc' \notin Q!Fields \cup {"info", "skip", "version", "edf"} \cup Q!Extras
      BY <2>4, FieldNames DEF Q!Extras
    <3> QED BY <3>1, <3>2 DEF ReadsOf, Reads
  <2>5. CASE queryPc' = "header"
    <3>1. On(i)["header"] = Q!Whole(i)
      BY DEF On
    <3>2. queryPc' \notin {"info", "skip", "version", "edf"} \cup Q!Extras /\ queryPc' \in Q!Fields
      BY <2>5, FieldNames DEF Q!Extras
    <3>3. Begun(i)' => Reads(i)'
      BY <2>2, <2>3, <2>5, <3>1, <3>2 DEF Reads
    <3>4. Full(i)' => Accepts(i)'
      <4> SUFFICES ASSUME Full(i)' PROVE Ends(packet'.payload, offset', On(i)[queryPc'])
        BY <3>2 DEF Accepts
      <4>1. Q!Whole(i) \in Seq(Q!Byte)
        BY <1>0, <3>1, OnField, FieldNames
      <4>2. Len(Q!Whole(i)) = 0 + Len(Q!Whole(i))
        BY <4>1
      <4> QED BY <2>2, <2>3, <2>5, <3>1, <4>2 DEF Ends, Full
    <3> QED BY <3>3, <3>4 DEF ReadsOf
  <2> QED BY <2>1, <2>4, <2>5
<1>3. CASE Q!Header
  BY <1>0, <1>3, HeaderReads
<1>4. CASE Q!Protocol
  BY <1>0, <1>4, ProtocolReads
<1>5. CASE Q!CString("name", "map") \/ Q!CString("map", "folder") \/ Q!CString("folder", "game")
           \/ Q!CString("game", "counters") \/ Q!CString("version", "edf")
  BY <1>0, <1>5, NamesRead
<1>6. CASE Q!Counts
  BY <1>0, <1>6, CountsRead
<1>7. CASE Q!Skip
  BY <1>0, <1>7, SkipReads DEF ReadInv
<1>8. CASE Q!Edf
  BY <1>0, <1>8, EdfReads DEF ReadInv
<1>9. CASE Q!Extra("port", 128, 2, "steamid") \/ Q!Extra("steamid", 16, 8, "tv") \/ Q!Extra("tv", 64, 2, "tvname")
           \/ Q!ExtraString("tvname", 64, "keywords") \/ Q!ExtraString("keywords", 32, "gameid")
  BY <1>0, <1>9, ExtrasRead
<1>10. CASE Q!GameId
  BY <1>0, <1>10, GameIdReads DEF ReadInv
<1> QED BY <1>1, <1>2, <1>3, <1>4, <1>5, <1>6, <1>7, <1>8, <1>9, <1>10 DEF Q!Next, Q!Parse, Q!FixedExtras

LEMMA ReadInvariance == Q!Spec => []ReadInv
<1>1. Q!Init => ReadInv
  <2> SUFFICES ASSUME Q!Init PROVE ReadInv
    OBVIOUS
  <2>1. IInv /\ queryPc = "send" /\ packet.header = "other" /\ gameId = -1
    BY InitInv DEF Q!Init, Q!Empty
  <2>2. queryPc \notin Q!Fields \cup Q!Extras \cup {"skip", "version", "edf", "info"}
    BY <2>1, FieldNames DEF Q!Extras
  <2>3. \A i \in Sent : ReadsOf(i)
    BY <2>1, <2>2 DEF ReadsOf, Reads, Full
  <2> QED BY <2>1, <2>3 DEF ReadInv
<1>2. ReadInv /\ [Q!Next]_Q!vars => ReadInv'
  <2> SUFFICES ASSUME ReadInv, [Q!Next]_Q!vars PROVE ReadInv'
    OBVIOUS
  <2>1. IInv /\ IInv'
    BY NextInv DEF ReadInv
  <2>2. CASE Q!Next
    <3>1. \A i \in Sent : ReadsOf(i)'
      BY <2>1, <2>2, ReadStep
    <3> QED BY <2>1, <2>2, <3>1, AskStep DEF ReadInv
  <2>3. CASE UNCHANGED Q!vars
    BY <2>1, <2>3 DEF Q!vars, ReadInv, ReadsOf, Reads, Accepts, Begun, Full
  <2> QED BY <2>2, <2>3
<1> QED BY <1>1, <1>2, PTL DEF Q!Spec

\* Of an answer that is cut off anywhere no wrong player count is read, and a
\* whole one is accepted, with its game id: for every answer of any length that
\* a server may send, whatever other packets come.
THEOREM AnswersReadTruly == Q!Spec => []ReadTruly
<1>1. ReadInv => ReadTruly
  <2> SUFFICES ASSUME ReadInv, queryPc \in Q!Ended, NEW i \in Sent
               PROVE  /\ queryPc = "info" /\ Begun(i) => players = i.players
                      /\ Full(i) => queryPc = "info" /\ gameId = IF Q!Has(i.edf, 1) THEN i.gameid[1] ELSE -1
    BY DEF ReadTruly, Q!ReadTruly, Begun, Full
  <2>1. ReadsOf(i)
    BY DEF ReadInv
  <2>2. queryPc \notin Q!Fields
    BY FieldNames DEF Q!Ended
  <2> QED BY <2>1, <2>2 DEF ReadsOf, Reads, Accepts
<1> QED BY ReadInvariance, <1>1, PTL
=============================================================================
