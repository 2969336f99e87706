---------------------------- MODULE DataReceiver ----------------------------
(***************************************************************************)
(* What the program and the server of the radio say to each other over the *)
(* socket: the frames Client::listener writes, and the bytes               *)
(* DataReceiver::receiveData takes apart, one at a time.                   *)
(***************************************************************************)
EXTENDS PacketHeader, Integers

(* Client::listener: the kind of frame, its length in one byte, the data.  *)
DATA_FRAME       == 3
DATA_SHORT_FRAME == 6
Framed(data) == <<DATA_FRAME, Len(data) % 256>> \o data

(* The bytes that stand for a message of their own, between two frames.    *)
Signal == [b \in {1, 2, 4, 5, 8, 9, 10, 11} |->
    CASE b = 1 -> "FREE"            [] b = 2  -> "BUSY"
      [] b = 4 -> "SENDING"         [] b = 5  -> "DONE_SENDING"
      [] b = 8 -> "END"             [] b = 9  -> "HELLO"
      [] b = 10 -> "TOKEN_ACCEPTED" [] b = 11 -> "TOKEN_REJECTED"]
SignalByte(type) == CHOOSE b \in DOMAIN Signal : Signal[b] = type

Message == [type : {"DATA", "DATA_SHORT"} \cup {Signal[b] : b \in DOMAIN Signal},
            data : Seq(Byte)]

(* message: inside a frame; message_len: -1 before the length byte has     *)
(* come; message_buff: the data that came.                                 *)
NoLength == -1
Parser == [message : BOOLEAN, shortData : BOOLEAN,
           message_len : Byte \cup {NoLength}, message_buff : Seq(Byte)]
Outside == [message |-> FALSE, shortData |-> FALSE,
            message_len |-> NoLength, message_buff |-> <<>>]

(* One byte b: the state of the parser after it, and the message that is   *)
(* complete with it, if one is.                                            *)
Extended(p, b) == IF p.message_len = NoLength
                  THEN [p EXCEPT !.message_len = b]
                  ELSE [p EXCEPT !.message_buff = Append(@, b)]
BugComplete(p) == p.message_len = Len(p.message_buff) + 1
Complete(p)    == p.message_len = Len(p.message_buff)

Parsed(p, b) ==
    CASE ~p.message /\ b \in {DATA_FRAME, DATA_SHORT_FRAME} ->
             [Outside EXCEPT !.message = TRUE, !.shortData = (b = DATA_SHORT_FRAME)]
      [] p.message /\ ~Complete(Extended(p, b)) -> Extended(p, b)
      [] p.message /\ Complete(Extended(p, b)) -> [Extended(p, b) EXCEPT !.message = FALSE]
      [] OTHER -> p
BugPushed(p, b) ==
    {[type |-> Signal[s], data |-> <<>>] : s \in {b} \cap DOMAIN Signal}
    \cup {[type |-> "DATA", data |-> q.message_buff] :
            q \in {r \in {Extended(p, b)} : p.message /\ Complete(r)}}
Pushed(p, b) ==
    IF p.message
    THEN {[type |-> IF p.shortData THEN "DATA_SHORT" ELSE "DATA",
           data |-> q.message_buff] : q \in {r \in {Extended(p, b)} : Complete(r)}}
    ELSE {[type |-> Signal[s], data |-> <<>>] : s \in {b} \cap DOMAIN Signal}
=============================================================================
