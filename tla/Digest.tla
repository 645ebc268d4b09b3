---------------------------------- MODULE Digest ----------------------------------
(***************************************************************************)
(* The MD5 context (src/src/md5.cpp): a message is taken in chunks of any  *)
(* size, cut into blocks, and padded when it ends.  What transform makes   *)
(* of a block is left uninterpreted: the digest is the sequence of the     *)
(* blocks that it was given.                                               *)
(***************************************************************************)
EXTENDS Integers, Sequences

CONSTANTS
  Message,    \* the bytes that clients pass to update, whichever way they cut them
  BlockSize,  \* 64
  WordBytes   \* 4: the message's length is counted in two words

Byte == 256
LengthSize == 2 * WordBytes

\* The powers of a byte
Power[k \in 0..LengthSize] == IF k = 0 THEN 1 ELSE Byte * Power[k - 1]

Word == Power[WordBytes]

ASSUME DigestAssumption ==
  /\ Message \in Seq(Nat)
  /\ WordBytes \in Nat \ {0}
  /\ BlockSize \in Nat /\ BlockSize > LengthSize
  /\ Word % (8 * BlockSize) = 0

VARIABLES
  count,      \* the number of bits, the low word first
  buffer,     \* the bytes of the last block that are there, and what was there before
  blocks,     \* state, as the blocks that were transformed
  taken,      \* the number of bytes of Message that were passed
  finalized

digestVars == <<count, buffer, blocks, taken, finalized>>

context == [count |-> count, buffer |-> buffer, blocks |-> blocks]

DigestTypeOK ==
  /\ count \in [1..2 -> 0..(Word - 1)]
  /\ buffer \in [1..BlockSize -> Nat]
  /\ blocks \in Seq([1..BlockSize -> Nat])
  /\ taken \in 0..Len(Message)
  /\ finalized \in BOOLEAN

DigestInit ==
  /\ count = <<0, 0>>
  /\ buffer = [i \in 1..BlockSize |-> 0]
  /\ blocks = <<>>
  /\ taken = 0
  /\ finalized = FALSE

-----------------------------------------------------------------------------
(***************************************************************************)
(* update                                                                  *)
(***************************************************************************)
\* the number of bytes that are in the buffer
Filled(c) == (c[1] \div 8) % BlockSize

\* count[0] is added to modulo the word, and carries.
Counted(c, n) ==
  LET bits == (8 * n) % Word
      low  == (c[1] + bits) % Word
  IN  <<low, (c[2] + (IF low < bits THEN 1 ELSE 0) + (8 * n) \div Word) % Word>>

\* memcpy to the buffer
Copied(buf, at, input) ==
  [i \in 1..BlockSize |-> IF i - at \in 1..Len(input) THEN input[i - at] ELSE buf[i]]

\* The whole blocks of the input from a byte on
Whole(input, from) ==
  [b \in 1..((Len(input) - from) \div BlockSize) |->
     SubSeq(input, from + (b - 1) * BlockSize + 1, from + b * BlockSize)]

\* Mutant of Updated: a chunk that just fills the buffer is left in it.
Updated_Late(md, input) ==
  LET index == Filled(md.count)
      space == BlockSize - index
      rest  == space + BlockSize * ((Len(input) - space) \div BlockSize)
  IN  [count  |-> Counted(md.count, Len(input)),
       buffer |-> IF Len(input) > space
                  THEN Copied(Copied(md.buffer, index, SubSeq(input, 1, space)), 0,
                              SubSeq(input, rest + 1, Len(input)))
                  ELSE Copied(md.buffer, index, input),
       blocks |-> IF Len(input) > space
                  THEN md.blocks
                         \o <<Copied(md.buffer, index, SubSeq(input, 1, space))>>
                         \o Whole(input, space)
                  ELSE md.blocks]

Updated(md, input) ==
  LET index == Filled(md.count)
      space == BlockSize - index
      first == Copied(md.buffer, index, input)
      later == Whole(input, space)
  IN  IF Len(input) >= space
      THEN [count  |-> Counted(md.count, Len(input)),
            buffer |-> Copied(first, 0, SubSeq(input, space + BlockSize * Len(later) + 1,
                                               Len(input))),
            blocks |-> Append(md.blocks, first) \o later]
      ELSE [count  |-> Counted(md.count, Len(input)),
            buffer |-> first,
            blocks |-> md.blocks]

Becomes(md) == count' = md.count /\ buffer' = md.buffer /\ blocks' = md.blocks

\* update, with the next bytes of the message, as many as a word can say; from a file
\* or a stream 1024 at most, and perhaps none
Pass(n) ==
  /\ ~finalized /\ n <= Len(Message) - taken /\ n < Word
  /\ Becomes(Updated(context, SubSeq(Message, taken + 1, taken + n)))
  /\ taken' = taken + n
  /\ UNCHANGED finalized

-----------------------------------------------------------------------------
(***************************************************************************)
(* finalize                                                                *)
(***************************************************************************)
\* PADDING
Padding(n) == [i \in 1..n |-> IF i = 1 THEN 128 ELSE 0]

\* encode: the bytes of two words, the low ones first
Encoded(c) ==
  [i \in 1..LengthSize |->
     LET w == IF i <= WordBytes THEN 1 ELSE 2
     IN  (c[w] \div Power[(i - 1) % WordBytes]) % Byte]

PadLength(index) ==
  IF index < BlockSize - LengthSize
  THEN BlockSize - LengthSize - index
  ELSE 2 * BlockSize - LengthSize - index

\* sizeof(*buffer) is one: just the first byte is zeroed.
Finalize ==
  /\ ~finalized
  /\ LET bits   == Encoded(count)
         padded == Updated(context, Padding(PadLength(Filled(count))))
         ended  == Updated(padded, bits)
     IN  Becomes([ended EXCEPT !.buffer[1] = 0])
  /\ finalized' = TRUE
  /\ UNCHANGED taken

\* Updating or finalizing a finalized context is refused.
DigestNext == Finalize \/ \E n \in 0..Len(Message) : Pass(n)

DigestSpec == DigestInit /\ [][DigestNext]_digestVars

-----------------------------------------------------------------------------
(***************************************************************************)
(* What MD5 defines                                                        *)
(***************************************************************************)
\* the number of bits modulo 2^64, the low bytes first
LengthBytes(n) == [i \in 1..LengthSize |-> ((8 * n) \div Power[i - 1]) % Byte]

\* The message, a one bit, as few zeros as make the whole a number of blocks, and
\* the length.
Padded(n) ==
  LET zeros == CHOOSE z \in 0..(BlockSize - 1) : (n + 1 + z + LengthSize) % BlockSize = 0
  IN  SubSeq(Message, 1, n) \o <<128>> \o [i \in 1..zeros |-> 0] \o LengthBytes(n)

\* Whichever way a message is cut into chunks, its digest is that of its padded
\* blocks, in order: none is left out, taken twice or mixed with an earlier one,
\* at the chunks that just fill a block and when the count of bits overflows its
\* low word.  (md5.cpp:72-205)
DigestsThePadded ==
  /\ DigestTypeOK
  /\ finalized => blocks = Whole(Padded(taken), 0)
===================================================================================
