---------------------------- MODULE MCRadioNode ----------------------------
(***************************************************************************)
(* Instances of RadioNode for TLC.                                         *)
(***************************************************************************)
EXTENDS RadioNode

(* An echo.  Its destination and its fragment id, both 0 in the code, use  *)
(* both bytes of the field here; most of the bytes of the packet are       *)
(* messages of the server when they are not taken for data.  The table of  *)
(* an echo has 8 bytes in the code: one is enough here, where each byte is *)
(* a step (RadioNodeProofs is about any number).                           *)
EchoHeader == [source_address |-> 2, next_hop_address |-> 0, dest_address |-> 1,
               more_fragments |-> 0, message_id |-> 9, fragment_id |-> 261,
               type |-> echo, payload_length |-> 1]
OneEcho == << [h |-> EchoHeader, payload |-> <<1>>] >>
=============================================================================
