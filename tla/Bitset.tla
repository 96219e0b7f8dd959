------------------------------- MODULE Bitset -------------------------------
(***************************************************************************)
(* DynamicBitset (src/src/core/Bitset.hpp): bits in an array of words, the *)
(* last of which may have room to spare.  A word is the set of the         *)
(* positions of its ones, so that | is a union, and word & (word - 1) is   *)
(* the word without its lowest one.  An index beyond the size is undefined *)
(* behaviour in the code, and an error here unless it is in the padding.   *)
(***************************************************************************)
EXTENDS Integers, Sequences, FiniteSetsExt, SequencesExt, Rows

CONSTANT BITS_PER_WORD          \* 64

ASSUME WordAssumption == BITS_PER_WORD \in Nat \ {0}

Word == SUBSET (0 .. BITS_PER_WORD - 1)

wordCount(b) == Cardinality(DOMAIN b.mData)

DynamicBitset(bitCount) ==
    [mBitSize |-> bitCount,
     mData |-> [w \in 0 .. (bitCount + BITS_PER_WORD - 1) \div BITS_PER_WORD - 1 |-> {}]]

set(b, idx)   == [b EXCEPT !.mData[idx \div BITS_PER_WORD] = @ \cup {idx % BITS_PER_WORD}]
reset(b, idx) == [b EXCEPT !.mData[idx \div BITS_PER_WORD] = @ \ {idx % BITS_PER_WORD}]
test(b, idx)  == idx % BITS_PER_WORD \in b.mData[idx \div BITS_PER_WORD]

\* Mutant: the length of the memset is taken for words and is bytes.
resetFirst(b) == [b EXCEPT !.mData[0] = {}]

resetAll(b) == [b EXCEPT !.mData = [w \in DOMAIN @ |-> {}]]

clearPaddingBits(b) ==
    LET remaining == b.mBitSize % BITS_PER_WORD
    IN  IF remaining = 0 \/ wordCount(b) = 0 THEN b
        ELSE [b EXCEPT !.mData[wordCount(b) - 1] = {bit \in @ : bit < remaining}]

setAll(b) ==
    clearPaddingBits([b EXCEPT !.mData = [w \in DOMAIN @ |-> 0 .. BITS_PER_WORD - 1]])

\* Nothing is copied between bitsets of different lengths.
copyFrom(b, src) ==
    IF wordCount(b) # wordCount(src) THEN b ELSE [b EXCEPT !.mData = src.mData]

\* The lowest one is taken off a word until none is left.
Peel[word \in Word] == IF word = {} THEN <<>> ELSE <<Min(word)>> \o Peel[word \ {Min(word)}]

\* The calls forEachSet makes of its argument.
forEachSet(b) ==
    Joined([w \in 1 .. wordCount(b) |->
              [i \in DOMAIN Peel[b.mData[w - 1]] |->
                 (w - 1) * BITS_PER_WORD + Peel[b.mData[w - 1]][i]]])
=============================================================================
