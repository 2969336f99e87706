-------------------------------- MODULE Line --------------------------------
(***************************************************************************)
(* What a node is told of the line, seen from outside: the messages of the *)
(* server, and the packets of the other nodes, come one after the other,   *)
(* none lost, none twice, none taken for another; the main loop takes      *)
(* them one at a time and draws its conclusions.                           *)
(***************************************************************************)
EXTENDS Naturals, Sequences

CONSTANTS Packet,    \* what the other nodes send
          NoPacket   \* in a message that brings none

VARIABLES sending, other,       \* this node sends; another one does
          coming,               \* what was told and is not taken yet
          heard,                \* packets the server passed on
          is_line_busy, dispatched

vars == <<sending, other, coming, heard, is_line_busy, dispatched>>

Told(type)   == [type |-> type, packet |-> NoPacket]
Delivered(p) == [type |-> "DATA", packet |-> p]
Item == {Told(type) : type \in {"SENDING", "DONE_SENDING", "BUSY", "FREE"}}
        \cup {Delivered(p) : p \in Packet}

Init ==
    /\ sending = FALSE /\ other = FALSE
    /\ coming = <<>> /\ heard = <<>>
    /\ is_line_busy = FALSE /\ dispatched = <<>>

Begins ==
    /\ ~sending /\ sending' = TRUE
    /\ coming' = Append(coming, Told("SENDING"))
    /\ UNCHANGED <<other, heard, is_line_busy, dispatched>>
Ends ==
    /\ sending /\ sending' = FALSE
    /\ coming' = Append(coming, Told("DONE_SENDING"))
    /\ UNCHANGED <<other, heard, is_line_busy, dispatched>>

OtherBegins ==
    /\ ~other /\ other' = TRUE
    /\ coming' = Append(coming, Told("BUSY"))
    /\ UNCHANGED <<sending, heard, is_line_busy, dispatched>>
OtherIsLost ==
    /\ other /\ sending /\ other' = FALSE
    /\ coming' = Append(coming, Told("FREE"))
    /\ UNCHANGED <<sending, heard, is_line_busy, dispatched>>
OtherArrives(p) ==
    /\ other /\ other' = FALSE
    /\ heard' = Append(heard, p)
    /\ coming' = Append(Append(coming, Delivered(p)), Told("FREE"))
    /\ UNCHANGED <<sending, is_line_busy, dispatched>>

(* The state of the line follows the last message; a packet says nothing   *)
(* of it.                                                                  *)
Take ==
    /\ coming # <<>>
    /\ coming' = Tail(coming)
    /\ LET m == Head(coming)
       IN /\ is_line_busy' = IF m.type = "DATA" THEN is_line_busy
                             ELSE m.type \in {"BUSY", "SENDING"}
          /\ dispatched' = IF m.type = "DATA" THEN Append(dispatched, m.packet)
                           ELSE dispatched
    /\ UNCHANGED <<sending, other, heard>>

Next == \/ Begins \/ Ends \/ OtherBegins \/ OtherIsLost
        \/ \E p \in Packet : OtherArrives(p)
        \/ Take

Spec == Init /\ [][Next]_vars

----------------------------------------------------------------------------
TypeOK ==
    /\ sending \in BOOLEAN /\ other \in BOOLEAN /\ is_line_busy \in BOOLEAN
    /\ coming \in Seq(Item)
    /\ heard \in Seq(Packet) /\ dispatched \in Seq(Packet)

(* The packets are taken in the order the server passed them on.           *)
DispatchedInOrder ==
    /\ Len(dispatched) <= Len(heard)
    /\ \A i \in 1 .. Len(dispatched) : dispatched[i] = heard[i]

(* The line is taken for busy only while somebody sends, or the message    *)
(* that will correct it is on its way.                                     *)
Reason(k) ==
    other \/ sending \/ \E j \in k .. Len(coming) : coming[j].type \in {"FREE", "DONE_SENDING"}
BusyHasReason == is_line_busy => Reason(1)
=============================================================================
