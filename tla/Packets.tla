------------------------------- MODULE Packets -------------------------------
(***************************************************************************)
(* The packets LoginFlow and CharFlow send: the to_packet functions of     *)
(* src/interface/ragnarok/mappers, over protocol/Codec.hpp, Coords.hpp and *)
(* model/SpawnTable.hpp.  One action per handler of the flows that sends;  *)
(* which handler runs when is in LoginFlow and CharFlow.                   *)
(*                                                                         *)
(* A client cuts the stream of bytes it reads into packets by the opcode   *)
(* alone: some opcodes are followed by a length, the others it knows the   *)
(* size of.  So a packet is its opcode, the two bytes of its length if it  *)
(* has one, the number of bytes written, and the place it puts the         *)
(* character at; what else is in it is left out.  A string is its length.  *)
(***************************************************************************)
EXTENDS Integers, Sequences

CONSTANTS
  NameLengths, (* what a build may have as names of its server and its map *)
  Coordinates, (* the bytes a client's entry request holds for a position  *)
  TokenLength  (* of a login token: 16                                     *)

ASSUME PacketsAssumption ==
  /\ NameLengths \subseteq Nat /\ NameLengths # {}
  /\ Coordinates \subseteq 0..255
  /\ TokenLength \in Nat /\ 29 + TokenLength < 256 * 256

VARIABLES
  serverName,  (* cfg_.serverName of the build that runs                   *)
  initialMap,  (* cfg_.initialMap                                          *)
  sent,        (* the packets of the handler that ran last                 *)
  place,       (* what onEnter decided on, if that is the handler          *)
  sizes        (* history: <<opcode, size>> of packets without a length    *)

packetVars == <<serverName, initialMap, sent, place, sizes>>

-------------------------------------------------------------------------------
(* bytes *)

Put16(n) == <<n % 256, (n \div 256) % 256>>
Rd16le(p) == p[1] + 256 * p[2]

\* Mutant: a string that is shorter than its field is not padded.
PutZUnpadded(length, max) == IF length < max THEN length ELSE max

\* The bytes of the string that fit, and zeros for the others.
PutZ(length, max) == max

Id == 4   \* AccountID, SessionID and IPAddress
C == 1    \* the widths of the fields
V2 == 2
V4 == 4
V8 == 8

\* Mutant: y is moved by eight bits.
PutCoordsA3Overlaps(at) ==
  LET enc == (at.x % 1024) + 256 * ((at.y % 1024) + 4096 * (at.dir % 16))
  IN  <<enc % 256, (enc \div 256) % 256, ((enc \div 256) \div 256) % 256>>

\* Ten bits, ten bits and four, the lowest byte first.
PutCoordsA3(at) ==
  LET enc == (at.x % 1024) + 1024 * ((at.y % 1024) + 1024 * (at.dir % 16))
  IN  <<enc % 256, (enc \div 256) % 256, ((enc \div 256) \div 256) % 256>>

DecodeA3(p) ==
  LET enc == p[1] + 256 * (p[2] + 256 * p[3])
  IN  [x |-> enc % 1024, y |-> (enc \div 1024) % 1024, dir |-> ((enc \div 1024) \div 1024) % 16]

Clamp1023(a) ==
  [x |-> IF a.x > 1023 THEN 1023 ELSE a.x,
   y |-> IF a.y > 1023 THEN 1023 ELSE a.y,
   dir |-> a.dir % 16]

-------------------------------------------------------------------------------
(* packets *)

Nowhere == [x |-> -1, y |-> -1, dir |-> -1]
NoDir == -1

\* A packet whose size the client knows, and one that says how long it is.
Plain(op, written) ==
  [op |-> op, length |-> <<>>, size |-> V2 + written, at |-> Nowhere]

Counted(op, length, written) ==
  [op |-> op, length |-> Put16(length), size |-> V2 + V2 + written, at |-> Nowhere]

SecureLoginKey == Counted("SecureLoginKey", 20, 16)

LoginToken(token) ==
  Counted("LoginToken", 4 + 4 + 20 + token + 1, V4 + PutZ(5, 20) + token + C)

Triplet == 3 * Id

\* Written up to the server's users, and filled up to the length it declares.
AccountServerInfoV2(name) ==
  LET written == V2 + V2 + Triplet + 4 + 26 + C + 17 + Id + V2
                   + PutZ(IF name > 20 THEN 20 ELSE name, 20) + V4
  IN  [Counted("AccountServerInfoV2", 224, 0) EXCEPT
         !.size = IF written < 224 THEN 224 ELSE written]

\* The length is written when the rest has been.
AccountServerInfo(name) ==
  LET written == Triplet + 30 + C + Id + V2
                   + PutZ(IF name > 20 THEN 20 ELSE name, 20) + V4 + 2
  IN  Counted("AccountServerInfo", V2 + V2 + written, written)

\* The account id comes without an opcode: a packet of four bytes.
PreambleAccountID == [Plain("PreambleAccountID", 0) EXCEPT !.size = Id]
Preamble082D == Counted("Preamble082D", 29, 5 + 20)
Preamble09A0 == Plain("Preamble09A0", V4)

CharacterName == 8   \* kProjectName

\* The fields in their order; the block is made exactly 155 bytes long.
CharListBlock(map) ==
  LET block ==
        V4 + V8 + V4 + V8 + 6 * V4 + V2 + 2 * V4 + 4 * V2 + V4 + 9 * V2
          + PutZ(CharacterName, 24) + 8 * C + V2 + PutZ(map, 16) + 4 * V4 + C
  IN  Counted("CharListBlock", 4 + 155,
              IF block < 155 THEN block + (155 - block) ELSE 155)

RedirectShort(map) == Plain("RedirectShort", Id + PutZ(map, 16) + Id + V2)
RedirectFull(map) == Plain("RedirectFull", 4 * Id + C + Id + V2 + PutZ(map, 16))

AttackRange == Plain("AttackRange", V2)
HpSpUpdate == Plain("HpSpUpdate", 4 * V2)
StatsInfo == Plain("StatsInfo", V2 + 12 + 22 * V2)

\* What the client reads back from the coordinates of each packet.
Read16(n) == Rd16le(Put16(n))

MapLoaded(at) ==
  [Plain("MapLoaded", V4 + 3 + C + C + V2) EXCEPT !.at = DecodeA3(PutCoordsA3(at))]
AcceptEnter(at) ==
  [Plain("AcceptEnter", V2 + V2 + C + V2 + V2) EXCEPT
     !.at = [x |-> Read16(at.x), y |-> Read16(at.y), dir |-> at.dir % 256]]
Warp(map, at) ==
  [Plain("Warp", PutZ(IF map > 16 THEN 16 ELSE map, 16) + V2 + V2) EXCEPT
     !.at = [x |-> Read16(at.x), y |-> Read16(at.y), dir |-> NoDir]]
LoadConfirm == Plain("LoadConfirm", 0)

SyncAccount == Plain("SyncAccount", Id)
LookTo == Plain("LookTo", Id + C + C + C)
ActorNameSelf(name) == Plain("ActorNameSelf", Id + PutZ(name, 24))
ActorInfoSelf(name) ==
  Plain("ActorInfoSelf", Id + PutZ(name, 24) + 3 * PutZ(0, 24) + V4)

SystemChat(message) == Counted("SystemChat", 4 + message + 1, message + C)

-------------------------------------------------------------------------------
(* the flows *)

PacketsInit ==
  /\ serverName \in NameLengths
  /\ initialMap \in NameLengths
  /\ sent = <<>>
  /\ place = Nowhere
  /\ sizes = {}

\* What a handler sends, and the place it puts the character at.
Send(packets, at) ==
  /\ sent' = packets
  /\ place' = at
  /\ sizes' = sizes \cup
       { <<packets[i].op, packets[i].size>> :
           i \in { j \in DOMAIN packets : packets[j].length = <<>> } }
  /\ UNCHANGED <<serverName, initialMap>>

SecureHandshake == Send(<<SecureLoginKey>>, Nowhere)

TokenRequest == Send(<<LoginToken(TokenLength)>>, Nowhere)

\* By the opcode of the request, or cfg_.prefer0069.
MasterLogin ==
  \/ Send(<<AccountServerInfoV2(serverName)>>, Nowhere)
  \/ Send(<<AccountServerInfo(serverName)>>, Nowhere)

ServerSelected ==
  Send(<<PreambleAccountID, Preamble082D, Preamble09A0, CharListBlock(initialMap)>>,
       Nowhere)

CharListReq == Send(<<CharListBlock(initialMap)>>, Nowhere)

CharSelected ==
  Send(<<RedirectShort(initialMap), RedirectFull(initialMap)>>, Nowhere)

\* setFixedSpawn's spot, and safeSpawnFor.
FixedSpawn == [x |-> 49, y |-> 113, dir |-> 0]
SafeSpawns ==
  {FixedSpawn, [x |-> 100, y |-> 87, dir |-> 0], [x |-> 263, y |-> 139, dir |-> 0]}

\* The client's own position, unless it is the origin; the table's then.
ClientSpawns ==
  { a3 \in { Clamp1023(DecodeA3(p)) : p \in [1..3 -> Coordinates] } :
      a3.x # 0 \/ a3.y # 0 }

EnterAt(at) ==
  Send(<<SyncAccount, MapLoaded(at), AcceptEnter(at), Warp(initialMap, at),
         AttackRange, StatsInfo, HpSpUpdate, LoadConfirm, LookTo, SystemChat(20),
         ActorInfoSelf(CharacterName), ActorNameSelf(CharacterName)>>, at)

\* The fixed spot; else that of a request long enough to hold one; else that of
\* the map.
Enter == \E at \in {FixedSpawn} \cup ClientSpawns \cup SafeSpawns : EnterAt(at)

\* The server is replaced by a build with other names; its clients are not.
Deploy ==
  /\ serverName' \in NameLengths
  /\ initialMap' \in NameLengths
  /\ sent' = <<>>
  /\ place' = Nowhere
  /\ UNCHANGED sizes

PacketsNext ==
  \/ SecureHandshake \/ TokenRequest \/ MasterLogin
  \/ ServerSelected \/ CharListReq \/ CharSelected
  \/ Enter
  \/ Deploy

PacketsSpec == PacketsInit /\ [][PacketsNext]_packetVars

-------------------------------------------------------------------------------
\* A client never loses its place in the stream: a length that a packet declares
\* is the number of bytes written, whatever strings are in it, and an opcode
\* without one comes in one size only, in every build.
ClientKeepsItsPlace ==
  /\ \A i \in DOMAIN sent :
       sent[i].length # <<>> => Rd16le(sent[i].length) = sent[i].size
  /\ \A a, b \in sizes : a[1] = b[1] => a = b

\* Three packets of the entry sequence say where the character stands, packed in
\* two ways: the client reads the same place from each of them, the one onEnter
\* decided on.
OnePlace ==
  \A i \in DOMAIN sent : sent[i].at # Nowhere =>
    sent[i].at \in {place, [place EXCEPT !.dir = NoDir]}
===============================================================================
