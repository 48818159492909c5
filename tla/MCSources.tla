------------------------------ MODULE MCSources ------------------------------
(* Source texts for the assembler.                                         *)
EXTENDS Assembler

APrim(k, n) == [k |-> k, n |-> n]
ANum(n) == [op |-> "id", l |-> APrim("num", n), r |-> APrim("num", 0)]
ARef(n) == [op |-> "id", l |-> APrim("sym", n), r |-> APrim("num", 0)]
ABin(op, l, r) == [op |-> op, l |-> l, r |-> r]
ASt(op, lab, args) == [op |-> op, lab |-> lab, args |-> args, form |-> "none", short |-> FALSE, name |-> 0]
AIns(lab, form, x) == [ASt("ins", lab, <<x>>) EXCEPT !.form = form]
AShort(lab, x) == [AIns(lab, "x", x) EXCEPT !.short = TRUE]
CallOf(n) == [ASt("call", 0, <<>>) EXCEPT !.name = n]
InputOf(n) == [ASt("input", 0, <<>>) EXCEPT !.name = n]

\* Symbols: LabA and LabB are labels or constants, SectS a section, MacM a macro, 50 a label of its own
\* in every expansion.
LabA == 1
LabB == 2
SectS == 11
MacM == 21
LocL == 50
Before == ABin("-", APrim("here", 0), APrim("num", 1))
ABad == [op |-> "id", l |-> APrim("bad", 0), r |-> APrim("num", 0)]

Opening == {ASt("byte", 0, <<ANum(1)>>), ASt("block", 0, <<ARef(LabB)>>), AIns(0, "x", ARef(LabA)), ASt("if", 0, <<ARef(LabB)>>),
            ASt("equ", LabB, <<ARef(LabA)>>), ASt("org", 0, <<ANum(3)>>)}
Middle  == {ASt("label", LabA, <<>>), ASt("label", LabB, <<>>), ASt("word", LabA, <<ARef(LabA), ARef(LabB)>>), AIns(LabA, "ra8", ARef(LabA)), ASt("sect", SectS, <<>>),
            ASt("else", 0, <<>>), ASt("align", LabA, <<ARef(LabB)>>), ASt("set", LabB, <<ANum(4)>>)}
Ending  == {AIns(LabA, "imm16", ARef(LabA)), ASt("endif", 0, <<>>), ASt("equ", LabB, <<ANum(2)>>), ASt("equ", LabB, <<ABin("-", APrim("here", 0), APrim("sym", LabA))>>),
            ASt("label", LabA, <<>>), ASt("org", LabA, <<ARef(LabA)>>)}

Short3 == {<<x>> \o ys \o <<w>> : x \in Opening, ys \in Middle \X Middle, w \in Ending}

\* Macros, repeats, files and nested conditionals.
Longer == {
  << ASt("macro", MacM, <<>>), AIns(LocL, "ra8", ARef(LocL)), ASt("word", 0, <<ARef(LabA), ARef(LocL)>>), ASt("endm", 0, <<>>),
     CallOf(MacM), ASt("repeat", 0, <<ANum(3)>>), CallOf(MacM), ASt("endr", 0, <<>>), ASt("label", LabA, <<>>),
     AIns(0, "ra16", ARef(LabA)), ASt("end", 0, <<ARef(LabA)>>) >>,
  \* The macro is called before it is defined; with -u the call is the same in both passes.
  << CallOf(MacM), ASt("macro", MacM, <<>>), ASt("byte", 0, <<ANum(1)>>), ASt("repeat", 0, <<ANum(-1)>>), ASt("word", 0, <<ARef(LabB)>>),
     ASt("endr", 0, <<>>), ASt("endm", 0, <<>>), CallOf(MacM), ASt("label", LabA, <<>>), ASt("long", LabB, <<ARef(LabA), ANum(5)>>) >>,
  \* A macro that leaves by .exit, one that calls itself, and one inside a repeat.
  << ASt("macro", MacM, <<>>), ASt("if", 0, <<ARef(LabA)>>), ASt("exit", 0, <<>>), ASt("endif", 0, <<>>), ASt("set", LabA, <<ANum(1)>>),
     CallOf(MacM), ASt("byte", LocL, <<ANum(2)>>), ASt("endm", 0, <<>>), ASt("set", LabA, <<ANum(0)>>), CallOf(MacM), ASt("exit", 0, <<>>) >>,
  << ASt("macro", MacM, <<>>), CallOf(MacM), ASt("endm", 0, <<>>), CallOf(MacM) >>,
  << ASt("repeat", 0, <<ANum(2)>>), ASt("repeat", 0, <<ANum(2)>>), ASt("byte", 0, <<ANum(3)>>), ASt("endr", 0, <<>>),
     ASt("word", 0, <<Before>>), ASt("endr", 0, <<>>), InputOf(31), InputOf(32), ASt("byte", LabB, <<ANum(1)>>) >>,
  << ASt("if", 0, <<ANum(0)>>), ASt("if", 0, <<ANum(1)>>), ASt("else", 0, <<>>), ASt("endif", 0, <<>>), ASt("byte", LabA, <<ANum(1)>>),
     ASt("else", 0, <<>>), ASt("word", LabA, <<ARef(LabA)>>), ASt("if", 0, <<ABin("=", APrim("sym", LabA), APrim("sym", LabB))>>), ASt("long", LabB, <<ARef(LabA)>>),
     ASt("endif", 0, <<>>), ASt("endif", 0, <<>>), ASt("endif", 0, <<>>), ASt("endr", LabA, <<>>), ASt("undefined", 3, <<>>) >>,
  \* Sections: one that is left and entered again, a common one, absolute code; and one too many.
  << ASt("word", LabA, <<ARef(LabB)>>), ASt("sect", SectS, <<>>), ASt("within", 0, <<ANum(8)>>), ASt("long", LabB, <<ARef(LabA), ARef(5)>>), ASt("sect", TEXT, <<>>),
     AIns(0, "imm32", ARef(LabB)), ASt("common", SectS, <<>>), ASt("block", 4, <<ANum(3)>>), ASt("word", 0, <<ARef(4)>>), ASt("abs", 3, <<>>),
     ASt("global", 0, <<ARef(4)>>), ASt("org", 0, <<ANum(1)>>), ASt("byte", 0, <<ARef(3), ARef(LabA), ARef(LabB)>>), ASt("within", 0, <<ARef(LabA)>>) >>,
  << ASt("sect", SectS, <<>>), ASt("sect", 12, <<>>), ASt("byte", 0, <<ANum(1)>>) >>,
  \* Every form of operand, with externals of which there are too many.
  << AIns(0, "x", ARef(LabA)), AShort(0, ARef(LabA)), AIns(LabA, "ba", ANum(300)), AIns(0, "imm8", ANum(1)), AIns(0, "byt1", ARef(LabA)),
     AIns(0, "ra7", ARef(LabA)), AIns(0, "ra12", ARef(LabA)), AIns(0, "nomatch", ANum(1)), AIns(0, "x", ABin("+", APrim("sym", LabA), APrim("sym", 5))),
     AIns(0, "none", ANum(0)), ASt("sect", 0, <<>>), ASt("macro", 0, <<>>), ASt("equ", 0, <<ANum(1)>>), ASt("equ", 6, <<ABad>>),
     ASt("word", 0, <<ABad, ABin("*", APrim("num", 2), APrim("num", 3)), ABin("neg", APrim("sym", LabA), APrim("num", 0))>>), ASt("end", 0, <<>>) >>,
  << ASt("word", 0, <<ARef(LabA), ARef(LabB)>>), ASt("global", 0, <<ARef(4)>>), ASt("global", 0, <<ARef(5)>>), ASt("repeat", 0, <<ARef(TEXT)>>),
     ASt("byte", 0, <<ABin("not", APrim("num", 1), APrim("num", 0)), ABin("<", APrim("num", 1), APrim("here", 0))>>), ASt("endr", 0, <<>>) >> }

MCSources == Short3 \cup Longer
MCFiles == [f \in {31} |-> << ASt("word", LabB, <<ANum(7)>>) >>]
=============================================================================
