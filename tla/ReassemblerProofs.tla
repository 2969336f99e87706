------------------------- MODULE ReassemblerProofs -------------------------
(***************************************************************************)
(* What insertFragment keeps, for every number of fragments.               *)
(***************************************************************************)
EXTENDS Reassembler, Sequences, TLAPS

(* Reducing a number below the modulus leaves it alone.                    *)
LEMMA SmallMod ==
    ASSUME NEW x \in Nat, NEW y \in Nat \ {0}, x < y
    PROVE  x % y = x
OBVIOUS

(* A buffer never written is well formed.                                  *)
LEMMA EmptySetType == EmptySet \in FragmentSet
BY WidthAssumption DEF EmptySet, FragmentSet, FragId

(* Storing a fragment keeps the buffer well formed: the number that        *)
(* indexes it is below FRAG_IDS, and so is the total it announces.         *)
LEMMA StoredType ==
    ASSUME NEW fs \in FragmentSet, NEW f \in FragId, NEW mf \in BOOLEAN,
           NEW c \in Chunk
    PROVE  Stored(fs, f, mf, c) \in FragmentSet
BY WidthAssumption DEF Stored, FragmentSet, FragId

(* insertFragment leaves a well formed buffer, whatever the 11-bit number  *)
(* of the fragment.                                                        *)
LEMMA BufferAfterType ==
    ASSUME NEW fs \in FragmentSet, NEW f \in Nat, NEW mf \in BOOLEAN,
           NEW c \in Chunk
    PROVE  BufferAfter(fs, f, mf, c) \in FragmentSet
<1>1. f % FRAG_IDS \in FragId
  BY WidthAssumption DEF FragId
<1>2. QED
  BY <1>1, EmptySetType, StoredType DEF BufferAfter

(* The text it returns is a sequence of chunks.                            *)
LEMMA ResultType ==
    ASSUME NEW fs \in FragmentSet, NEW f \in Nat, NEW mf \in BOOLEAN,
           NEW c \in Chunk
    PROVE  Result(fs, f, mf, c) \in Seq(Chunk \cup {NoChunk})
<1> DEFINE st == Stored(fs, f % FRAG_IDS, mf, c)
<1>1. f % FRAG_IDS \in FragId
  BY WidthAssumption DEF FragId
<1>2. st \in FragmentSet
  BY <1>1, StoredType
<1> HIDE DEF st
<1>3. /\ st.total_fragments \in Nat
      /\ \A i \in 1 .. st.total_fragments :
             st.fragments[i - 1] \in Chunk \cup {NoChunk}
  BY <1>2, WidthAssumption DEF FragmentSet, FragId
<1>4. Joined(st) \in Seq(Chunk \cup {NoChunk})
  BY <1>3 DEF Joined
<1>5. QED
  BY <1>4 DEF Result, st
=============================================================================
