-------------------------------- MODULE XOut --------------------------------
(***************************************************************************)
(* The x.out object format (xout.h) as the linker, the program loader and  *)
(* the utilities see it.  A file is a record of its kind, its executable   *)
(* bit, its segments, the words of its initialized part, its relocations   *)
(* and its symbols.                                                        *)
(*                                                                         *)
(* A word has the three parts that a relocation can tell apart: the        *)
(* segment number and the offset it holds, and a mark, which says where    *)
(* the word was written (module, segment, offset) and which no tool can    *)
(* see.  Lengths and offsets are in bytes; words lie at even offsets.      *)
(***************************************************************************)
EXTENDS Integers, Sequences, FiniteSetsExt, SequencesExt

CONSTANTS SegLimit,     \* 65536, the bytes of a segment
          XHSIZ, SGSIZ  \* bytes of a header and of a segment descriptor: 16 and 4

ASSUME XOutAssumption == /\ SegLimit \in Nat \ {0}
                         /\ XHSIZ \in Nat /\ SGSIZ \in Nat

\* Segment types.
UND == 0
BSS == 1
STK == 2
COD == 3
CON == 4
DAT == 5
MXU == 6
MXP == 7

\* Types with words in the file.
idata == {COD, CON, DAT, MXU, MXP}

NoSeg == 127            \* the segment of an external or absolute symbol, or "any segment"

Wrap(n)  == n % SegLimit
round(n) == n + (n % 2)

Unwritten == [mark |-> <<>>, seg |-> 0, val |-> 0]

SumLen(segs) == FoldLeft(LAMBDA n, s : n + s.len, 0, segs)

\* Bytes of the initialized part in front of segment k.
InitBefore(segs, k) ==
  SumLen(SelectSeq(SubSeq(segs, 1, k - 1), LAMBDA s : s.typ \in idata))

\* The words of segment k.
WordsOf(file, k) ==
  LET from == InitBefore(file.segs, k) \div 2
  IN  IF file.segs[k].typ \in idata
      THEN SubSeq(file.init, from + 1, from + file.segs[k].len \div 2)
      ELSE <<>>
=============================================================================
