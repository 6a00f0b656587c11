------------------------------- MODULE A2SInfo -------------------------------
(***************************************************************************)
(* query_info and parse_info_response (a2s.py): one request, at most one   *)
(* challenge, and a walk over the bytes of the answer.  monitor_server     *)
(* catches A2SError and OSError; any other exception of this walk would    *)
(* end the supervisor, and the game with it.                               *)
(*                                                                         *)
(* A packet is its four header bytes, named, and its payload.  Offsets     *)
(* count from 0, as in the code.                                           *)
(***************************************************************************)
EXTENDS A2SAnswer

CONSTANTS
  Packets,    \* the packets that the socket may receive
  Sent        \* the answers that a server may have meant by them

Packet == [header : {"single", "split", "other"}, payload : Seq(Byte)]

VARIABLES
  pc,             \* the step that is next: a field of the packet, once it is there
  packet,         \* the packet received last
  offset,
  flags,          \* edf, the byte which says what follows
  players, gameId \* what was read, of the game id the first byte; -1 until it was

vars == <<pc, packet, offset, flags, players, gameId>>

Strings == <<"name", "map", "folder", "game">>
Extras  == {"port", "steamid", "tv", "tvname", "keywords", "gameid"}
Fields  == {"header", "protocol", "counters", "skip", "version", "edf"} \cup Extras
             \cup {Strings[i] : i \in 1 .. 4}
Ended   == {"info", "A2SError", "OSError", "uncaught"}

TypeOK ==
  /\ pc \in {"send", "challenge"} \cup Fields \cup Ended
  /\ packet \in Packet
  /\ offset \in Nat /\ flags \in Byte /\ players \in Byte \cup {-1} /\ gameId \in Byte \cup {-1}
  /\ offset # 0 => offset <= Len(packet.payload)

Empty == [header |-> "other", payload |-> <<>>]

Init ==
  /\ pc = "send" /\ packet = Empty /\ offset = 0 /\ flags = 0 /\ players = -1 /\ gameId = -1

Size    == Len(packet.payload)
At(i)   == packet.payload[i + 1]
Flag(b) == Has(flags, b)

-----------------------------------------------------------------------------
(* query_info: a connected socket, whose answers are the server's *)

Step(from, to) == pc = from /\ pc' = to

\* recv times out, or the port is unreachable.
NoAnswer ==
  /\ pc \in {"send", "challenge"} /\ pc' = "OSError"
  /\ UNCHANGED <<packet, offset, flags, players, gameId>>

IsChallenge(p) == p.header = "single" /\ Len(p.payload) >= 5 /\ p.payload[1] = 65

Receive(from) ==
  \E p \in Packets :
    /\ packet' = p
    /\ Step(from, IF from = "send" /\ IsChallenge(p) THEN "challenge" ELSE "header")
    /\ UNCHANGED <<offset, flags, players, gameId>>

-----------------------------------------------------------------------------
(* parse_info_response *)

Fails(from) == Step(from, "A2SError") /\ UNCHANGED <<packet, offset, flags, players, gameId>>
Crashes(from) == Step(from, "uncaught") /\ UNCHANGED <<packet, offset, flags, players, gameId>>

\* Mutant of Informative: a header and a type are enough.
InformativeShort == packet.header = "single" /\ Size >= 1 /\ At(0) = 73

Informative == packet.header = "single" /\ Size >= 2 /\ At(0) = 73

Header ==
  \/ Informative /\ Step("header", "protocol") /\ offset' = 1
       /\ UNCHANGED <<packet, flags, players, gameId>>
  \/ ~Informative /\ Fails("header")

\* A byte that is not there is an IndexError.
Protocol ==
  \/ offset < Size /\ Step("protocol", "name") /\ offset' = offset + 1
       /\ UNCHANGED <<packet, flags, players, gameId>>
  \/ offset >= Size /\ Crashes("protocol")

\* _cstring: find looks for the terminator from the offset on.
Terminator(i) == i \in offset .. Size - 1 /\ At(i) = 0 /\ \A j \in offset .. i - 1 : At(j) # 0

CString(from, to) ==
  \/ \E i \in offset .. Size - 1 : Terminator(i) /\ offset' = i + 1
       /\ Step(from, to) /\ UNCHANGED <<packet, flags, players, gameId>>
  \/ (\A i \in offset .. Size - 1 : At(i) # 0) /\ Fails(from)

\* Mutant of Room: the app id, two bytes, is forgotten.
RoomForCounters == Size >= offset + 3

Room == Size >= offset + 5

\* The app id and the three counters: an unpack that falls short is a
\* struct.error or a ValueError.
Counts ==
  \/ ~Room /\ Fails("counters")
  \/ Room /\ Size < offset + 5 /\ Crashes("counters")
  \/ /\ Room /\ Size >= offset + 5
     /\ players' = At(offset + 2) /\ offset' = offset + 5
     /\ Step("counters", "skip") /\ UNCHANGED <<packet, flags, gameId>>

\* Older answers end with the counters.
Skip ==
  \/ Size >= offset + 4 /\ Step("skip", "version") /\ offset' = offset + 4
       /\ UNCHANGED <<packet, flags, players, gameId>>
  \/ Size < offset + 4 /\ Step("skip", "info") /\ UNCHANGED <<packet, offset, flags, players, gameId>>

Edf ==
  \/ offset < Size /\ Step("edf", "port") /\ flags' = At(offset) /\ offset' = offset + 1
       /\ UNCHANGED <<packet, players, gameId>>
  \/ offset >= Size /\ Step("edf", "info") /\ UNCHANGED <<packet, offset, flags, players, gameId>>

\* Mutant of Extra: what the flag says is skipped without a look at the size.
ExtraUnchecked(from, flag, size, to) ==
  /\ Step(from, to) /\ offset' = (IF Flag(flag) THEN offset + size ELSE offset)
  /\ UNCHANGED <<packet, flags, players, gameId>>

\* require(size), and the field is skipped.
Extra(from, flag, size, to) ==
  \/ ~Flag(flag) /\ Step(from, to) /\ UNCHANGED <<packet, offset, flags, players, gameId>>
  \/ Flag(flag) /\ Size < offset + size /\ Fails(from)
  \/ Flag(flag) /\ Size >= offset + size /\ Step(from, to) /\ offset' = offset + size
       /\ UNCHANGED <<packet, flags, players, gameId>>

ExtraString(from, flag, to) ==
  \/ ~Flag(flag) /\ Step(from, to) /\ UNCHANGED <<packet, offset, flags, players, gameId>>
  \/ Flag(flag) /\ CString(from, to)

GameId ==
  \/ ~Flag(1) /\ Step("gameid", "info") /\ UNCHANGED <<packet, offset, flags, players, gameId>>
  \/ Flag(1) /\ Size < offset + 8 /\ Fails("gameid")
  \/ Flag(1) /\ Size >= offset + 8 /\ Step("gameid", "info") /\ gameId' = At(offset)
       /\ UNCHANGED <<packet, offset, flags, players>>

\* Mutant of FixedExtras: the flags of the steam id and of SourceTV are swapped.
SwappedExtras ==
  \/ Extra("port", 128, 2, "steamid") \/ Extra("steamid", 64, 8, "tv")
  \/ Extra("tv", 16, 2, "tvname") \/ ExtraString("tvname", 16, "keywords")

FixedExtras ==
  \/ Extra("port", 128, 2, "steamid") \/ Extra("steamid", 16, 8, "tv")
  \/ Extra("tv", 64, 2, "tvname") \/ ExtraString("tvname", 64, "keywords")

Parse ==
  \/ Header \/ Protocol
  \/ CString("name", "map") \/ CString("map", "folder") \/ CString("folder", "game") \/ CString("game", "counters")
  \/ Counts \/ Skip \/ CString("version", "edf") \/ Edf
  \/ FixedExtras \/ ExtraString("keywords", 32, "gameid") \/ GameId

Next == NoAnswer \/ Receive("send") \/ Receive("challenge") \/ Parse

Spec == Init /\ [][Next]_vars

-----------------------------------------------------------------------------
(* Properties *)

\* Whatever bytes arrive, the query ends with an answer or with an exception
\* that monitor_server catches (supervisor.py:401): nothing is read beyond the
\* end of the packet.
OnlyCaught == pc # "uncaught"

\* A server that is asked is not taken for an empty one because its answer was
\* cut off: the players are those of every answer that begins like this, and a
\* whole answer is accepted, with its game id (docs/WAKE-AND-SLEEP.md: a failing
\* query clears the idle timer; only an answer may let it run).
Begins(i, p) == Len(p) <= Len(Whole(i)) /\ SubSeq(Whole(i), 1, Len(p)) = p
ReadTruly ==
  pc \in Ended => \A i \in Sent :
    /\ pc = "info" /\ Begins(i, packet.payload) => players = i.players
    /\ packet.header = "single" /\ packet.payload = Whole(i)
         => pc = "info" /\ gameId = IF Has(i.edf, 1) THEN i.gameid[1] ELSE -1
=============================================================================
