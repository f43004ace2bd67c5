----------------------------- MODULE BusProtocol -----------------------------
(***************************************************************************)
(* encode and decode of src/interface/query/bus/BusProtocol.hpp: the       *)
(* frames the query port and OpenKore exchange.  A message is encoded, or  *)
(* arbitrary bytes arrive; decode is given a buffer of n bytes that starts *)
(* with a frame.  Both go through a frame entry by entry.                  *)
(*                                                                         *)
(* Bytes are digits to a base (256), so that every length fits a small     *)
(* instance; the widths of the fields are those of the code.  An offset    *)
(* counts from 0, as in the code, and a sequence from 1.                   *)
(***************************************************************************)
EXTENDS Naturals, Sequences

CONSTANTS
  Base,     (* 256                                                         *)
  Word,     (* bytes of a uint64_t: 8                                      *)
  Messages, (* the messages that are encoded                               *)
  Tails,    (* what follows a frame in its buffer                          *)
  Garbage   (* buffers nobody encoded                                      *)

Byte   == 0..(Base - 1)
Binary == 0
String == 1
UInt   == 2

Limit24 == Base * Base * Base
Limit32 == Base * Limit24

Power[n \in 0..Word] == IF n = 0 THEN 1 ELSE Base * Power[n - 1]

Values == [type : {Binary, String, UInt}, bin : Seq(Byte), u : 0..(Power[Word] - 1)]

IsMessage(msg) ==
  /\ msg = [options    |-> msg.options,  messageID  |-> msg.messageID,
            args_map   |-> [k \in DOMAIN msg.args_map |-> msg.args_map[k]],
            args_array |-> msg.args_array]
  /\ msg.options \in Byte
  /\ msg.messageID \in Seq(Byte)
  /\ \A k \in DOMAIN msg.args_map : k \in Seq(Byte) /\ msg.args_map[k] \in Values
  /\ msg.args_array \in Seq(Values)

ASSUME BusAssumption ==
  /\ Base \in Nat /\ Base > UInt
  /\ Word \in Nat \ {0} /\ Word < Limit24
  /\ \A msg \in Messages : IsMessage(msg)
  /\ \A b \in Tails \cup Garbage : b \in Seq(Byte)

VARIABLES
  phase,   (* "given", "writing" (encode); "header", "entries" (decode);   *)
           (* or, at the end, "done", "refused" (encode threw) or          *)
           (* "rejected" (decode threw)                                    *)
  m,       (* the message that is encoded                                  *)
  out,     (* what encode has written                                      *)
  order,   (* the keys, or indexes, of the entries written                 *)
  data,    (* the buffer that is decoded                                   *)
  off,     (* the offset decode has come to                                *)
  m_out,   (* what it has decoded                                          *)
  seen     (* history: how many bytes of the buffer it has looked at       *)

codecVars == <<phase, m, out, order, data, off, m_out, seen>>

\* Message{}
Blank ==
  [options |-> 0, messageID |-> <<>>, args_map |-> [k \in {} |-> k], args_array |-> <<>>]

-------------------------------------------------------------------------------
(* numbers *)

wr_be24(x) == <<((x \div Base) \div Base) % Base, (x \div Base) % Base, x % Base>>
wr_be32(x) == <<(((x \div Base) \div Base) \div Base) % Base>> \o wr_be24(x)

rd_be24(b0, b1, b2)     == (b0 * Base + b1) * Base + b2
rd_be32(b0, b1, b2, b3) == rd_be24(b0, b1, b2) * Base + b3

\* x after each turn of the loop that takes its bytes off, the last one first.
Turns(x) == LET q[n \in 0..Word] == IF n = 0 THEN x ELSE q[n - 1] \div Base IN q

\* Mutant: the loop ends a turn early for the powers of the base.
MinimalShort(x) ==
  LET q == Turns(x)
      n == CHOOSE n \in 1..Word : /\ q[n] <= 1 \/ n = Word
                                  /\ \A k \in 1..(n - 1) : q[k] > 1
  IN  [i \in 1..n |-> q[n - i] % Base]

\* No leading zeros, one byte at least.
Minimal(x) ==
  LET q == Turns(x)
      n == CHOOSE n \in 1..Word : /\ q[n] = 0 \/ n = Word
                                  /\ \A k \in 1..(n - 1) : q[k] # 0
  IN  [i \in 1..n |-> q[n - i] % Base]

\* What does not fit in a word is shifted out of it.
Unsigned(bytes) ==
  LET x[i \in 0..Len(bytes)] ==
        IF i = 0 THEN 0 ELSE (x[i - 1] * Base + bytes[i]) % Power[Word]
  IN  x[Len(bytes)]

-------------------------------------------------------------------------------
(* encode *)

Payload(v) == IF v.type = UInt THEN Minimal(v.u) ELSE v.bin

EncodedValue(v) == <<v.type>> \o wr_be24(Len(Payload(v))) \o Payload(v)

Args == IF m.options = 0 THEN m.args_map ELSE m.args_array

EncodedEntry(k) ==
  IF m.options = 0 THEN <<Len(k)>> \o k \o EncodedValue(Args[k]) ELSE EncodedValue(Args[k])

\* A key that does not fit its length byte, or bytes that do not fit three.
TooLong(k) ==
  \/ m.options = 0 /\ Len(k) >= Base
  \/ Args[k].type # UInt /\ Len(Args[k].bin) >= Limit24

\* An unordered map comes in any order, an array in its own.
Upcoming ==
  IF m.options = 0 THEN DOMAIN Args \ {order[j] : j \in DOMAIN order}
                   ELSE DOMAIN Args \cap {Len(order) + 1}

EncodeHead ==
  /\ phase = "given"
  /\ \/ /\ Len(m.messageID) >= Base \/ m.options \notin {0, 1}
        /\ phase' = "refused"
        /\ UNCHANGED out
     \/ /\ Len(m.messageID) < Base /\ m.options \in {0, 1}
        /\ out' = <<0, 0, 0, 0, m.options, Len(m.messageID)>> \o m.messageID
        /\ phase' = "writing"
  /\ UNCHANGED <<m, order, data, off, m_out, seen>>

EncodeEntry ==
  /\ phase = "writing"
  /\ \E k \in Upcoming :
       \/ /\ TooLong(k)
          /\ phase' = "refused"
          /\ UNCHANGED <<out, order>>
       \/ /\ ~TooLong(k)
          /\ out' = out \o EncodedEntry(k)
          /\ order' = Append(order, k)
          /\ UNCHANGED phase
  /\ UNCHANGED <<m, data, off, m_out, seen>>

\* The total length is written last, over four bytes kept for it, and cut to them.
EncodeLength ==
  /\ phase = "writing" /\ Upcoming = {}
  /\ out' = LET len == wr_be32(Len(out))
            IN  [out EXCEPT ![1] = len[1], ![2] = len[2], ![3] = len[3], ![4] = len[4]]
  /\ \E tail \in Tails : data' = out' \o tail
  /\ phase' = "header"
  /\ UNCHANGED <<m, order, off, m_out, seen>>

-------------------------------------------------------------------------------
(* decode *)

\* What lies behind the buffer may be anything.
At(i)       == IF i < Len(data) THEN data[i + 1] ELSE 1
Bytes(i, k) == [j \in 1..k |-> At(i + j - 1)]
Size        == rd_be32(At(0), At(1), At(2), At(3))

Looked(i) == seen' = IF i > seen THEN i ELSE seen

\* decode threw; what it has left in m_out is gone with the caller's try block.
Reject ==
  /\ phase' = "rejected"
  /\ UNCHANGED <<m, out, order, data, off, m_out>>

Header ==
  /\ phase = "header"
  /\ \/ Len(data) < 6 /\ Reject /\ UNCHANGED seen
     \/ /\ Len(data) >= 6
        /\ Looked(6)
        /\ \/ (Size > Len(data) \/ 6 + At(5) > Size \/ At(4) \notin {0, 1}) /\ Reject
           \/ /\ Size <= Len(data) /\ 6 + At(5) <= Size /\ At(4) \in {0, 1}
              /\ m_out' = [Blank EXCEPT !.options = At(4), !.messageID = Bytes(6, At(5))]
              /\ off' = 6 + At(5)
              /\ phase' = "entries"
              /\ UNCHANGED <<m, out, order, data>>

\* The length of the value whose type tag is at i, and the offset behind it.
ValueLen(i) == rd_be24(At(i + 1), At(i + 2), At(i + 3))
After(i)    == i + 4 + ValueLen(i)

Value(i) ==
  LET bytes  == Bytes(i + 4, ValueLen(i))
      string == At(i) \in {Binary, String}
  IN  [type |-> At(i),
       bin  |-> IF string THEN bytes ELSE <<>>,
       u    |-> IF string THEN 0 ELSE Unsigned(bytes)]

\* Mutant: the length of a value is not compared with the frame's.
FitsHead(i) == i + 4 <= Size

\* The value whose type tag is at i lies within the frame.
Fits(i) == i + 4 <= Size /\ After(i) <= Size

\* emplace: a key that comes twice keeps its first value.
Emplace(args, k, v) ==
  [x \in DOMAIN args \cup {k} |-> IF x \in DOMAIN args THEN args[x] ELSE v]

\* Where the type tag of the entry at off is, and what has been looked at by then.
Tag   == IF m_out.options = 0 THEN off + 1 + At(off) ELSE off
Ahead == IF m_out.options = 0 THEN off + 1 ELSE off

Entry ==
  /\ phase = "entries" /\ off < Size
  /\ \/ /\ ~Fits(Tag)
        /\ Reject
        /\ Looked(IF Tag + 4 <= Size THEN Tag + 4 ELSE Ahead)
     \/ /\ Fits(Tag)
        /\ m_out' = IF m_out.options = 0
                    THEN [m_out EXCEPT !.args_map = Emplace(@, Bytes(off + 1, At(off)), Value(Tag))]
                    ELSE [m_out EXCEPT !.args_array = Append(@, Value(Tag))]
        /\ off' = After(Tag)
        /\ Looked(After(Tag))
        /\ UNCHANGED <<phase, m, out, order, data>>

Finish ==
  /\ phase = "entries" /\ off >= Size
  /\ phase' = "done"
  /\ UNCHANGED <<m, out, order, data, off, m_out, seen>>

-------------------------------------------------------------------------------
CodecInit ==
  /\ out = <<>> /\ order = <<>> /\ off = 0 /\ seen = 0 /\ m_out = Blank
  /\ \/ phase = "given"  /\ m \in Messages /\ data = <<>>
     \/ phase = "header" /\ m = Blank      /\ data \in Garbage

CodecNext ==
  \/ EncodeHead \/ EncodeEntry \/ EncodeLength
  \/ Header \/ Entry \/ Finish

CodecSpec == CodecInit /\ [][CodecNext]_codecVars

-------------------------------------------------------------------------------
\* What of a message is in its frame: the field its type tag names of each value,
\* and the arguments its options name.
OnWire(v) ==
  [type |-> v.type,
   bin  |-> IF v.type = UInt THEN <<>> ELSE v.bin,
   u    |-> IF v.type = UInt THEN v.u ELSE 0]

Framed(msg) ==
  [options    |-> msg.options,
   messageID  |-> msg.messageID,
   args_map   |-> [k \in IF msg.options = 0 THEN DOMAIN msg.args_map ELSE {} |-> OnWire(msg.args_map[k])],
   args_array |-> [j \in 1..(IF msg.options = 0 THEN 0 ELSE Len(msg.args_array)) |-> OnWire(msg.args_array[j])]]

\* decode takes every frame encode makes, whatever follows the frame and in whatever
\* order the map was written, gives the message back and consumes the frame, no
\* more and no less.  (A frame has to be shorter than its length can say.)
RoundTrip ==
  out # <<>> /\ phase \notin {"writing", "refused"} /\ Len(out) < Limit32 =>
    /\ phase # "rejected"
    /\ phase = "done" => m_out = Framed(m) /\ off = Len(out)

\* The grammar of a frame, apart from decode: bytes i + 1 to j of b are an entry.
IsEntry(options, b, i, j) ==
  LET t == IF options = 0 THEN i + 1 + b[i + 1] ELSE i
  IN  t + 4 <= j /\ j = t + 4 + rd_be24(b[t + 2], b[t + 3], b[t + 4])

\* The bytes from the end of the header to offset n are entries, end to end.
CutsUp(cuts, b, n) ==
  /\ cuts \subseteq (6 + b[6])..n
  /\ {6 + b[6], n} \subseteq cuts
  /\ \A i \in cuts \ {n} : \E j \in cuts : IsEntry(b[5], b, i, j)

IsFrame(b) ==
  /\ Len(b) >= 6
  /\ LET n == rd_be32(b[1], b[2], b[3], b[4])
     IN  /\ n <= Len(b) /\ 6 + b[6] <= n /\ b[5] \in {0, 1}
         /\ \E cuts \in SUBSET ((6 + b[6])..n) : CutsUp(cuts, b, n)

\* Whatever bytes come in, decode looks at no byte outside the buffer and accepts
\* just what can be cut into entries that fill the frame exactly.
DecodesFramesOnly ==
  /\ seen <= Len(data)
  /\ phase = "done" => IsFrame(data) /\ off = Size
  /\ phase = "rejected" => ~IsFrame(data)
===============================================================================
