---------------------------- MODULE PacketHeader ----------------------------
(***************************************************************************)
(* The four bytes in front of every packet (src/src/utils/packet_header):  *)
(* eight fields packed into 32 bits.  A shift to the left followed by a    *)
(* mask keeps the low bits of a field, a shift to the right of the masked  *)
(* word brings them back; the word is kept as its four bytes.              *)
(***************************************************************************)
EXTENDS Naturals, Sequences

Byte == 0 .. 255

(* The fields as the program holds them, in 8 and 16 bits: wider than the  *)
(* wire, so that no bound of theirs matters here.                          *)
Header == [source_address : Nat, next_hop_address : Nat, dest_address : Nat,
           more_fragments : Nat, message_id : Nat, fragment_id : Nat,
           type : Nat, payload_length : Nat]

(* The fields as the wire holds them, in 1, 3, 5 and 11 bits.              *)
FragmentIds == 0 .. 2047
WireHeader == [source_address : 0 .. 7, next_hop_address : 0 .. 7, dest_address : 0 .. 7,
               more_fragments : 0 .. 1, message_id : 0 .. 7, fragment_id : FragmentIds,
               type : 0 .. 7, payload_length : 0 .. 31]

Truncated(h) ==
    [source_address   |-> h.source_address % 8,
     next_hop_address |-> h.next_hop_address % 8,
     dest_address     |-> h.dest_address % 8,
     more_fragments   |-> h.more_fragments % 2,
     message_id       |-> h.message_id % 8,
     fragment_id      |-> h.fragment_id % 2048,
     type             |-> h.type % 8,
     payload_length   |-> h.payload_length % 32]

(* The destination and the fragment id lie across two bytes.               *)
Packed(w) ==
    <<w.source_address * 32 + w.next_hop_address * 4 + w.dest_address \div 2,
      (w.dest_address % 2) * 128 + w.more_fragments * 64 + w.message_id * 8
          + w.fragment_id \div 256,
      w.fragment_id % 256,
      w.type * 32 + w.payload_length>>
build_header(h) == Packed(Truncated(h))

(* bytes_vector_to_header_int and get_separated_header, of the first four  *)
(* bytes of a packet.                                                      *)
BugMessageIdMask(b) ==
    [source_address   |-> b[1] \div 32,
     next_hop_address |-> (b[1] \div 4) % 8,
     dest_address     |-> (b[1] % 4) * 2 + b[2] \div 128,
     more_fragments   |-> (b[2] \div 64) % 2,
     message_id       |-> b[2] \div 8,
     fragment_id      |-> (b[2] % 8) * 256 + b[3],
     type             |-> b[4] \div 32,
     payload_length   |-> b[4] % 32]
get_separated_header(b) ==
    [source_address   |-> b[1] \div 32,
     next_hop_address |-> (b[1] \div 4) % 8,
     dest_address     |-> (b[1] % 4) * 2 + b[2] \div 128,
     more_fragments   |-> (b[2] \div 64) % 2,
     message_id       |-> (b[2] \div 8) % 8,
     fragment_id      |-> (b[2] % 8) * 256 + b[3],
     type             |-> b[4] \div 32,
     payload_length   |-> b[4] % 32]

add_header_to_payload(h, payload) == build_header(h) \o payload
=============================================================================
