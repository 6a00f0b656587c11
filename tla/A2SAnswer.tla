------------------------------ MODULE A2SAnswer ------------------------------
(***************************************************************************)
(* The answers to A2S_INFO as a server writes them, which the parser is    *)
(* compared with: an answer is what its fields hold, and its bytes are     *)
(* stated from the last field to the first.                                *)
(***************************************************************************)
EXTENDS Integers, Sequences

Byte     == 0 .. 255
Bytes(n) == [1 .. n -> Byte]
Letters  == Seq(1 .. 255)       \* of a string, which ends with a zero

Answer ==
  [protocol : Byte, name : Letters, map : Letters, folder : Letters, game : Letters,
   appid : Bytes(2), players : Byte, limits : Bytes(2), kinds : Bytes(4), version : Letters,
   edf : Byte, port : Bytes(2), steamid : Bytes(8), tv : Bytes(2), tvname : Letters,
   keywords : Letters, gameid : Bytes(8)]

Text(letters) == letters \o <<0>>

\* The last fields are there if a bit of edf says so.
Has(edf, b) == (edf \div b) % 2 = 1
Optional(i, b, bytes) == IF Has(i.edf, b) THEN bytes ELSE <<>>

GameIdOn(i)   == Optional(i, 1, i.gameid)
KeywordsOn(i) == Optional(i, 32, Text(i.keywords)) \o GameIdOn(i)
TvNameOn(i)   == Optional(i, 64, Text(i.tvname)) \o KeywordsOn(i)
TvOn(i)       == Optional(i, 64, i.tv) \o TvNameOn(i)
SteamIdOn(i)  == Optional(i, 16, i.steamid) \o TvOn(i)
PortOn(i)     == Optional(i, 128, i.port) \o SteamIdOn(i)
EdfOn(i)      == <<i.edf>> \o PortOn(i)
VersionOn(i)  == Text(i.version) \o EdfOn(i)
KindsOn(i)    == i.kinds \o VersionOn(i)
Counters(i)   == i.appid \o <<i.players>> \o i.limits
CountersOn(i) == Counters(i) \o KindsOn(i)
GameOn(i)     == Text(i.game) \o CountersOn(i)
FolderOn(i)   == Text(i.folder) \o GameOn(i)
MapOn(i)      == Text(i.map) \o FolderOn(i)
NameOn(i)     == Text(i.name) \o MapOn(i)
ProtocolOn(i) == <<i.protocol>> \o NameOn(i)
Whole(i)      == <<73>> \o ProtocolOn(i)
=============================================================================
