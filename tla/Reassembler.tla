---------------------------- MODULE Reassembler ----------------------------
(***************************************************************************)
(* Fragmentation and reassembly (src/src/backend/fragmentation): the       *)
(* operators, shared by the modules that receive fragments.                *)
(*                                                                         *)
(* A payload chunk is abstracted to the identity <<message, index>> of the *)
(* chunk.  In the code a chunk is never empty: Fragmenter cuts a nonempty  *)
(* text into chunks of 1 to 28 bytes, and both chat windows refuse to send *)
(* an empty text.                                                          *)
(***************************************************************************)
EXTENDS Naturals

CONSTANTS Message,     \* the messages of the system
          Size,        \* Size[m]: the number of fragments Fragmenter cuts m into
          FRAG_IDS,    \* fragment numbers insertFragment tells apart (uint8_t: 256)
          WIRE_IDS     \* message ids the 3-bit header field tells apart (8)

ASSUME SizeAssumption  == Size \in [Message -> Nat \ {0}]
ASSUME WidthAssumption == FRAG_IDS \in Nat \ {0} /\ WIRE_IDS \in Nat \ {0}

FragId == 0 .. FRAG_IDS - 1
WireId == 0 .. WIRE_IDS - 1

(* The fragment numbers of message m, and the text cut into its chunks.    *)
Index(m)  == 0 .. Size[m] - 1
Chunk     == Message \X Nat
Whole(m)  == [i \in 1 .. Size[m] |-> <<m, i - 1>>]

(* more_fragments is cleared on the last fragment only.                    *)
MoreFragments(m, i) == i < Size[m] - 1

(* An entry of FragmentSet::fragments that is missing, or that operator[]  *)
(* created empty while the handler printed the buffer: the completeness    *)
(* test treats the two alike.                                              *)
NoChunk == <<>>

FragmentSet == [fragments : [FragId -> Chunk \cup {NoChunk}],
                total_fragments : 0 .. FRAG_IDS,
                MF_recv : BOOLEAN]

(* What buffers[msg_id] is before its first fragment and after erase.      *)
EmptySet == [fragments |-> [i \in FragId |-> NoChunk],
             total_fragments |-> 0,
             MF_recv |-> FALSE]

BugStoredFirst(fs, f, mf, c) ==
    [fragments |-> [fs.fragments EXCEPT ![f] = c],
     total_fragments |-> IF mf THEN fs.total_fragments ELSE f,
     MF_recv |-> fs.MF_recv \/ ~mf]

(* A fragment set with fragment number f stored, overwriting a duplicate.  *)
Stored(fs, f, mf, c) ==
    [fragments |-> [fs.fragments EXCEPT ![f] = c],
     total_fragments |-> IF mf THEN fs.total_fragments ELSE f + 1,
     MF_recv |-> fs.MF_recv \/ ~mf]

BugComplete(fs) == fs.MF_recv

(* is_complete && MF_recv: a last fragment came and nothing before it is   *)
(* missing.                                                                *)
Complete(fs) ==
    /\ fs.MF_recv
    /\ \A i \in 0 .. fs.total_fragments - 1 : fs.fragments[i] # NoChunk

(* The text handed to onMessageReady.                                      *)
Joined(fs) == [i \in 1 .. fs.total_fragments |-> fs.fragments[i - 1]]

(* Reassembler::insertFragment: buffers afterwards.  The parameter type    *)
(* uint8_t of fragment_id truncates the 11-bit number of the header.       *)
BufferAfter(fs, f, mf, c) ==
    LET stored == Stored(fs, f % FRAG_IDS, mf, c)
    IN  IF Complete(stored) THEN EmptySet ELSE stored

(* Reassembler::insertFragment: whether it returns a text, and which.      *)
Completes(fs, f, mf, c) == Complete(Stored(fs, f % FRAG_IDS, mf, c))
Result(fs, f, mf, c)    == Joined(Stored(fs, f % FRAG_IDS, mf, c))
=============================================================================
