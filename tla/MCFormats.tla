------------------------------ MODULE MCFormats ------------------------------
(* Instances of BusProtocol and Packets for TLC, one after the other: what     *)
(* goes over the two wires.  They share nothing.                               *)
EXTENDS BusProtocol, Packets

\* For BusProtocol: bytes of three values.

Strings(n) == UNION { [1..k -> 0..2] : k \in 0..n }

\* The last two hold something in the field their type does not name.
SomeValues ==
  { [type |-> t, bin |-> b, u |-> 0] : t \in {Binary, String}, b \in {<<>>, <<0, 2>>} }
    \cup { [type |-> UInt, bin |-> <<>>, u |-> u] : u \in {0, 2, 3, 8} }
    \cup { [type |-> String, bin |-> <<1>>, u |-> 1], [type |-> UInt, bin |-> <<1>>, u |-> 1] }

Maps ==
  UNION { [K -> SomeValues] : K \in { {}, {<<>>}, {<<>>, <<1>>}, {<<1, 2>>}, {<<1, 2, 0>>} } }

Arrays == UNION { [1..k -> SomeValues] : k \in 0..2 }

SomeMessages ==
  { [options |-> 0, messageID |-> id, args_map |-> f, args_array |-> <<>>] :
      id \in {<<>>, <<0, 1>>}, f \in Maps }
  \cup
  { [options |-> o, messageID |-> id, args_map |-> [k \in {} |-> k], args_array |-> s] :
      o \in {1, 2}, id \in {<<>>, <<2>>, <<0, 0, 0>>}, s \in Arrays }

SomeTails == {<<>>, <<0, 0>>, <<0, 0, 0, 2, 1, 1>>}

SomeGarbage ==
  { wr_be32(size) \o <<options, mid_len>> \o body :
      size \in 0..12, options \in 0..2, mid_len \in 0..2, body \in Strings(5) }
  \cup Strings(6)
  \* two entries with the same key or array element
  \cup { wr_be32(18) \o <<options, 0>> \o <<0, t, 0, 0, 1, 2>> \o <<k, u, 0, 0, 1, 1>> :
           options \in {0, 1}, t \in 0..2, k \in 0..1, u \in 0..2 }

-------------------------------------------------------------------------------
\* For Packets: names shorter than every field, and longer than those of 16, and
\* of 20 and 24 bytes.
SomeNames == {14, 17, 25}

\* Each bit of a byte that is next to a field's end: x ends with bit 1 of the
\* second byte, y with bit 3 of the third.
SomeBytes == {0, 1, 3, 4, 16, 252, 255}

-------------------------------------------------------------------------------
\* The packets are looked at when no bytes are left to decode.
BusIsDone == phase = "rejected" /\ data = <<>>

\* The names are chosen by Deploy.
FormatsInit ==
  /\ CodecInit /\ PacketsInit
  /\ \A n \in SomeNames : n >= serverName /\ n >= initialMap

FormatsNext ==
  \/ CodecNext /\ UNCHANGED packetVars
  \/ BusIsDone /\ PacketsNext /\ UNCHANGED codecVars

FormatsSpec == FormatsInit /\ [][FormatsNext]_<<codecVars, packetVars>>
===============================================================================
