------------------------- MODULE PacketHeaderProofs -------------------------
(***************************************************************************)
(* What build_header packs, get_separated_header unpacks, up to the width  *)
(* of the fields.                                                          *)
(***************************************************************************)
EXTENDS PacketHeader, TLAPS

(* Fields within their width come back from the four bytes as they were:   *)
(* nothing of one field spills into another, also of the destination and   *)
(* the fragment id, that lie across two bytes.                             *)
LEMMA PackedFields ==
    ASSUME NEW s \in 0 .. 7, NEW n \in 0 .. 7, NEW d \in 0 .. 7, NEW m \in 0 .. 1,
           NEW i \in 0 .. 7, NEW f \in FragmentIds, NEW t \in 0 .. 7, NEW l \in 0 .. 31,
           NEW w, w = [source_address |-> s, next_hop_address |-> n,
                       dest_address |-> d, more_fragments |-> m, message_id |-> i,
                       fragment_id |-> f, type |-> t, payload_length |-> l]
    PROVE  /\ Packed(w) \in [1 .. 4 -> Byte]
           /\ get_separated_header(Packed(w)) = w
<1>1. f \in 0 .. 2047
  BY DEF FragmentIds
<1>2. PICK b1 \in Nat, b2 \in Nat, b3 \in Nat, b4 \in Nat :
        /\ b1 = s * 32 + n * 4 + d \div 2
        /\ b2 = (d % 2) * 128 + m * 64 + i * 8 + f \div 256
        /\ b3 = f % 256
        /\ b4 = t * 32 + l
  <2>1. d \div 2 \in Nat /\ d % 2 \in Nat
    OBVIOUS
  <2>2. f \div 256 \in Nat /\ f % 256 \in Nat
    BY <1>1
  <2>3. s * 32 + n * 4 + d \div 2 \in Nat
    BY <2>1
  <2>4. (d % 2) * 128 + m * 64 + i * 8 + f \div 256 \in Nat
    BY <2>1, <2>2
  <2>5. t * 32 + l \in Nat
    OBVIOUS
  <2>6. QED BY <2>2, <2>3, <2>4, <2>5, Zenon
<1>3. Packed(w) = <<b1, b2, b3, b4>>
  BY <1>2 DEF Packed
<1>4. /\ b1 \in 0 .. 255 /\ b2 \in 0 .. 255 /\ b3 \in 0 .. 255 /\ b4 \in 0 .. 255
      /\ b1 \div 32 = s /\ (b1 \div 4) % 8 = n /\ (b1 % 4) * 2 + b2 \div 128 = d
      /\ (b2 \div 64) % 2 = m /\ (b2 \div 8) % 8 = i /\ (b2 % 8) * 256 + b3 = f
      /\ b4 \div 32 = t /\ b4 % 32 = l
  <2>1. PICK q \in 0 .. 3, r \in 0 .. 1 : d \div 2 = q /\ d % 2 = r /\ q * 2 + r = d
    OBVIOUS
  <2>2. PICK u \in 0 .. 7, v \in 0 .. 255 : f \div 256 = u /\ f % 256 = v /\ u * 256 + v = f
    <3>1. f \div 256 \in 0 .. 7
      BY <1>1, SMTT(30)
    <3>2. f % 256 \in 0 .. 255
      BY <1>1, SMTT(30)
    <3>3. (f \div 256) * 256 + (f % 256) = f
      BY <1>1, SMTT(30)
    <3>4. QED BY <3>1, <3>2, <3>3
  <2>3. b1 = s * 32 + n * 4 + q /\ b2 = r * 128 + m * 64 + i * 8 + u /\ b3 = v
    BY <1>2, <2>1, <2>2
  <2>4. b1 \div 32 = s
    BY <2>3
  <2>5. (b1 \div 4) % 8 = n
    BY <2>3
  <2>6. b1 % 4 = q
    BY <2>3
  <2>7. b2 \div 128 = r
    BY <2>3
  <2>8. (b2 \div 64) % 2 = m
    BY <2>3
  <2>9. (b2 \div 8) % 8 = i
    BY <2>3
  <2>10. b2 % 8 = u
    BY <2>3
  <2>11. b4 \div 32 = t /\ b4 % 32 = l
    BY <1>2
  <2>12. b1 \in 0 .. 255 /\ b2 \in 0 .. 255 /\ b3 \in 0 .. 255 /\ b4 \in 0 .. 255
    BY <1>2, <2>3
  <2>13. (b1 % 4) * 2 + b2 \div 128 = d
    BY <2>1, <2>6, <2>7
  <2>14. (b2 % 8) * 256 + b3 = f
    BY <2>2, <2>3, <2>10
  <2>15. QED BY <2>4, <2>5, <2>8, <2>9, <2>11, <2>12, <2>13, <2>14
<1>5. <<b1, b2, b3, b4>> \in [1 .. 4 -> Byte]
  BY <1>4 DEF Byte
<1>6. get_separated_header(<<b1, b2, b3, b4>>) = w
  BY <1>4 DEF get_separated_header
<1>7. QED BY <1>3, <1>5, <1>6

(* build_header writes four bytes, and get_separated_header gives back     *)
(* what was packed, each field modulo its width, as a wire header holds it.*)
THEOREM RoundTrip ==
    \A h \in Header : /\ Truncated(h) \in WireHeader
                      /\ build_header(h) \in [1 .. 4 -> Byte]
                      /\ get_separated_header(build_header(h)) = Truncated(h)
<1> SUFFICES ASSUME NEW h \in Header
             PROVE  /\ Truncated(h) \in WireHeader
                    /\ Packed(Truncated(h)) \in [1 .. 4 -> Byte]
                    /\ get_separated_header(Packed(Truncated(h))) = Truncated(h)
  BY DEF build_header
<1>1. PICK s0 \in Nat, n0 \in Nat, d0 \in Nat, m0 \in Nat :
        /\ s0 = h.source_address /\ n0 = h.next_hop_address
        /\ d0 = h.dest_address /\ m0 = h.more_fragments
  BY DEF Header
<1>2. PICK i0 \in Nat, f0 \in Nat, t0 \in Nat, l0 \in Nat :
        /\ i0 = h.message_id /\ f0 = h.fragment_id
        /\ t0 = h.type /\ l0 = h.payload_length
  BY DEF Header
<1> DEFINE s == s0 % 8
           n == n0 % 8
           d == d0 % 8
           m == m0 % 2
           i == i0 % 8
           f == f0 % 2048
           t == t0 % 8
           l == l0 % 32
<1>3. Truncated(h) = [source_address |-> s, next_hop_address |-> n,
                      dest_address |-> d, more_fragments |-> m, message_id |-> i,
                      fragment_id |-> f, type |-> t, payload_length |-> l]
  <2>1. /\ s = h.source_address % 8 /\ n = h.next_hop_address % 8
        /\ d = h.dest_address % 8 /\ m = h.more_fragments % 2
    BY <1>1
  <2>2. /\ i = h.message_id % 8 /\ f = h.fragment_id % 2048
        /\ t = h.type % 8 /\ l = h.payload_length % 32
    BY <1>2
  <2> HIDE DEF s, n, d, m, i, f, t, l
  <2>3. QED BY <2>1, <2>2 DEF Truncated
<1>4. s \in 0 .. 7 /\ n \in 0 .. 7 /\ d \in 0 .. 7 /\ m \in 0 .. 1
  OBVIOUS
<1>5. i \in 0 .. 7 /\ f \in FragmentIds /\ t \in 0 .. 7 /\ l \in 0 .. 31
  BY DEF FragmentIds
<1> HIDE DEF s, n, d, m, i, f, t, l
<1>6. PICK w : w = Truncated(h)
  OBVIOUS
<1>7. w = [source_address |-> s, next_hop_address |-> n, dest_address |-> d,
           more_fragments |-> m, message_id |-> i, fragment_id |-> f,
           type |-> t, payload_length |-> l]
  BY <1>3, <1>6
<1>8. Packed(w) \in [1 .. 4 -> Byte] /\ get_separated_header(Packed(w)) = w
  BY <1>4, <1>5, <1>7, PackedFields
<1>9. w \in WireHeader
  BY <1>4, <1>5, <1>7 DEF WireHeader
<1>10. QED BY <1>6, <1>8, <1>9
=============================================================================
