----------------------------- MODULE Assembler -----------------------------
(***************************************************************************)
(* The two passes of asz8k (asm8k/): how statements are read, which are    *)
(* assembled, where labels lie, and the object blocks that pass 2 writes.  *)
(* A statement is a record, an operand an expression of at most one        *)
(* operator; lexical scanning, the listing and the instruction skeletons   *)
(* are left out.  The symbol table's virtual memory is in AsmMemory.       *)
(***************************************************************************)
EXTENDS Integers, SequencesExt, FiniteSets

CONSTANTS
  Sources,    \* source texts: sequences of statements
  Files,      \* the files that .input can name, each a text
  OBJSIZ,     \* size of an object block
  SECSIZ,     \* number of sections, with the absolute one
  RBMSK,      \* limit of the relocation bases
  INSIZ,      \* size of the input stack, in frames
  SegFlags, UFlags  \* switches -s and -u

SYMSIZ == 8

\* A primary is a number, $, a symbol or what is none of them.
IsPrimary(p) ==
  {"k", "n"} \subseteq DOMAIN p /\ p.k \in {"num", "here", "sym", "bad"} /\ (p.k = "num" => p.n \in Int)
IsArgument(x) == {"op", "l", "r"} \subseteq DOMAIN x /\ IsPrimary(x.l) /\ IsPrimary(x.r)

\* What always has an operand; "bad" is in the place of one that is missing.
WithOperand == {"ins", "equ", "set", "align", "within", "block", "org", "global", "if", "repeat"}

\* A text is a sequence of statements, each with a sequence of arguments.
IsTextOf(text) ==
  /\ text \in Seq(ToSet(text))
  /\ \A st \in ToSet(text) :
       /\ {"op", "args"} \subseteq DOMAIN st
       /\ st.args \in Seq(ToSet(st.args)) /\ \A x \in ToSet(st.args) : IsArgument(x)
       /\ st.op \in WithOperand => st.args # <<>>

ASSUME SourcesAssumption ==
  /\ \A src \in Sources : IsTextOf(src)
  /\ \A f \in DOMAIN Files : IsTextOf(Files[f])

ASSUME AssemblerAssumption ==
  /\ {OBJSIZ, SECSIZ, RBMSK, INSIZ} \subseteq Nat \ {0}
  /\ OBJSIZ > 6 + 7 /\ OBJSIZ >= SYMSIZ + 7
  /\ SECSIZ <= 255                              \* no section has the number RBUND
  /\ SegFlags \subseteq BOOLEAN /\ UFlags \subseteq BOOLEAN

VARIABLES
  asm,    \* source, -s and -u
  pass,   \* 1, 2; 3 when the assembler has ended
  inp,    \* input stack, conditionals, macros and repeats
  z       \* location, sections, symbols, errors and object file

avars == <<asm, pass, inp, z>>

RBABS == 0
RBUND == 255
RBEXT == 256
TEXT  == 1000     \* the symbol "__text"
MINALN == 1

-----------------------------------------------------------------------------
(* Symbols.                                                                *)

\* err(): errors count in pass 2 only.
ErrsIn(p, s, cs) == IF p = 2 THEN [s EXCEPT !.errs = @ \cup cs] ELSE s
Errs(s, cs) == ErrsIn(pass, s, cs)
err(s, c) == Errs(s, {c})

Fresh == [typ |-> "und", val |-> 0, rel |-> 0, p2 |-> FALSE, glo |-> FALSE, mud |-> FALSE]
Entered(s, ns) == [s EXCEPT !.sym = [n \in DOMAIN s.sym \cup ns |-> IF n \in DOMAIN s.sym THEN s.sym[n] ELSE Fresh]]

Moved_Section(e, val, rel) == e.rel # rel
Moved(e, val, rel) == e.val # val \/ e.rel # rel

\* assign(): a label gets its type and value in pass 1; pass 2 must find the same.
assignIn(p, s, n, typ, val, rel) ==
  LET t     == [s EXCEPT !.placed = IF p = 2 /\ typ = "lab" THEN @ \cup {[name |-> n, val |-> val, rel |-> rel]} ELSE @]
      e     == s.sym[n]
      again == e.typ # "var" /\ (IF p = 2 THEN e.p2 ELSE e.typ # "und")
      new   == IF e.typ = "und" THEN [e EXCEPT !.typ = typ, !.rel = RBUND] ELSE e
      open  == new.rel = RBUND \/ new.typ = "var"
      set   == IF open THEN [new EXCEPT !.val = val, !.rel = rel] ELSE new
  IN  IF n = 0 THEN s
      ELSE IF again THEN ErrsIn(p, [t EXCEPT !.sym[n].mud = TRUE], {"M"})
      ELSE IF new.typ # typ \/ (~ open /\ Moved(new, val, rel)) THEN ErrsIn(p, t, {"P"})
      ELSE [t EXCEPT !.sym[n] = [set EXCEPT !.p2 = @ \/ p = 2]]
assign(s, n, typ, val, rel) == assignIn(pass, s, n, typ, val, rel)

LabelHere(s, n) == assign(s, n, "lab", s.cur.loc, s.cur.sec)

-----------------------------------------------------------------------------
(* Expressions (sem01).                                                    *)

Value(v, r)  == [val |-> v, rel |-> r, errs |-> {}]
NoValue(c)   == [val |-> 0, rel |-> 0, errs |-> {c}]
Unvalued(e) == e.typ = "und" \/ e.rel = RBUND \/ (e.typ = "var" /\ pass = 2 /\ ~ e.p2)

Symbols(x) == {p.n : p \in {q \in {x.l, x.r} : q.k = "sym"}}

Primary(s, p) ==
  CASE p.k = "num"  -> Value(p.n, 0)
    [] p.k = "here" -> Value(s.cur.loc, s.cur.sec)
    [] p.k = "bad"  -> [val |-> 0, rel |-> RBUND, errs |-> {"S"}]
    [] OTHER        -> LET e == s.sym[p.n]         \* a symbol
                       IN  IF e.typ = "sec" THEN NoValue("E")
                           ELSE IF Unvalued(e) THEN NoValue("U")
                           ELSE Value(e.val, e.rel)

\* What the operators do with relocations: a result has one at most.
SumRel(a, b)  == IF a # 0 THEN a ELSE b
Apply(op, a, b) ==
  CASE op = "id"  -> a
    [] op = "neg" -> IF a.rel # 0 THEN NoValue("E") ELSE Value(- a.val, 0)
    [] op = "not" -> IF a.rel # 0 THEN NoValue("E") ELSE Value(- a.val - 1, 0)
    [] op = "+"   -> IF a.rel # 0 /\ b.rel # 0 THEN NoValue("E") ELSE Value(a.val + b.val, SumRel(a.rel, b.rel))
    [] op = "-"   -> IF a.rel = b.rel THEN Value(a.val - b.val, 0)
                     ELSE IF b.rel # 0 THEN NoValue("E") ELSE Value(a.val - b.val, a.rel)
    [] op = "*"   -> IF a.rel # 0 \/ b.rel # 0 THEN NoValue("E") ELSE Value(a.val * b.val, 0)
    [] op = "="   -> Value(IF a.val = b.val /\ a.rel = b.rel THEN -1 ELSE 0, 0)
    [] OTHER      -> IF a.rel # b.rel THEN NoValue("E") ELSE Value(IF a.val < b.val THEN -1 ELSE 0, 0)

Syntax(x) == x.l.k = "bad" \/ x.r.k = "bad"

\* expression(): the operand, with the error letters on the way; an error leaves 0, and a
\* syntax error an undefined relocation.
Eval(s, x) ==
  LET a == Primary(s, x.l)
      b == Primary(s, x.r)
      r == Apply(x.op, a, b)
      e == a.errs \cup b.errs \cup r.errs
  IN  IF Syntax(x) THEN [val |-> 0, rel |-> RBUND, errs |-> {"S"}]
      ELSE IF "E" \in e THEN [val |-> 0, rel |-> 0, errs |-> e]
      ELSE [r EXCEPT !.errs = e]

\* The symbols of an expression are entered in the table; "used" notes what pass 2 reads.
Mention(s, x) ==
  LET t == Entered(s, Symbols(x))
  IN  [t EXCEPT !.used = IF pass # 2 THEN @ ELSE @ \cup
         {[name |-> n, val |-> t.sym[n].val, rel |-> t.sym[n].rel]
            : n \in {y \in Symbols(x) : t.sym[y].typ = "lab" /\ ~ Unvalued(t.sym[y])}}]

-----------------------------------------------------------------------------
(* The object file.                                                        *)

NoReloc == [act |-> "nop", base |-> 0]
Reloc(act, base) == IF base = RBABS THEN NoReloc ELSE [act |-> act, base |-> base]

\* Bytes of a relocatable item.
Width(act) == CASE act = "A8" -> 1 [] act \in {"A16M", "ZOF", "ZSS"} -> 2 [] act \in {"A32M", "ZLS"} -> 4

\* oflush(): the block built so far goes to the file.
oflush(s) ==
  LET o == s.obj
      b == [typ |-> o.typ, sec |-> o.sec, loc |-> o.loc, text |-> o.text, rels |-> o.rels]
  IN  [s EXCEPT !.obj = [o EXCEPT !.out = IF o.typ = "none" THEN o.out ELSE Append(o.out, b),
                                  !.typ = "none", !.bytes = 0, !.text = <<>>, !.rels = <<>>]]

Free(o) == OBJSIZ - (o.bytes + 3 * Len(o.rels))

\* setorg(): text continues where the block ends, or a new block begins.
SetOrg(s, sec, loc) ==
  LET o == s.obj
      n == oflush(s)
  IN  IF o.typ = "text" /\ o.nxtloc = loc /\ o.nxtsec = sec THEN s
      ELSE [n EXCEPT !.obj.typ = "text", !.obj.bytes = 6, !.obj.sec = sec, !.obj.loc = loc,
                     !.obj.nxtloc = loc, !.obj.nxtsec = sec]
setorg(s) == IF pass = 2 THEN SetOrg(s, s.cur.sec, s.cur.loc) ELSE s

\* Room for a byte, or for a relocation and all the bytes of its item.
Room_One(rl) == 1
Room(rl) == IF rl = NoReloc THEN 1 ELSE 7

\* emitb(): "without breaking up a relocatable item".
emitb(s, byte, rl) ==
  LET a == setorg(IF Free(s.obj) < Room(rl) THEN oflush(s) ELSE s)
      at == [off |-> a.obj.bytes, rl |-> rl]
      b == [a EXCEPT !.obj.text = Append(@, byte), !.obj.bytes = @ + 1,
                     !.obj.rels = IF rl = NoReloc THEN @ ELSE Append(@, at),
                     !.image = [p \in DOMAIN @ \cup {<<s.cur.sec, s.cur.loc>>} |->
                                  IF p = <<s.cur.sec, s.cur.loc>> THEN <<byte, rl>> ELSE @[p]]]
      t == IF pass = 2 THEN b ELSE s
  IN  [t EXCEPT !.cur.loc = s.cur.loc + 1, !.obj.nxtloc = s.cur.loc + 1]

\* emitwm(), emitlm(), emitls() and emitss(): the first byte carries the relocation.
Emit(s, item) ==
  FoldLeft(LAMBDA t, i : emitb(t, <<item.val, i>>, IF i = 1 THEN item.rl ELSE NoReloc),
           s, [i \in 1..item.len |-> i])
Item(len, val, rl) == [len |-> len, val |-> val, rl |-> rl]

Word(r) == Item(2, r.val, Reloc(IF asm.seg THEN "ZOF" ELSE "A16M", r.rel))
Long(r) == Item(4, r.val, Reloc(IF asm.seg THEN "ZLS" ELSE "A32M", r.rel))
Byte(r) == Item(1, r.val, Reloc("A8", r.rel))

\* The address of a segmented program is long, unless it is forced to be short.
Address(r, short) ==
  IF ~ asm.seg THEN Item(2, r.val, Reloc("A16M", r.rel))
  ELSE IF short THEN Item(2, r.val % 256, Reloc("ZSS", r.rel))
  ELSE Item(4, r.val, Reloc("ZLS", r.rel))

-----------------------------------------------------------------------------
(* Sections.                                                               *)

setsec(s, n) ==
  LET c == s.cur
      t == [s.sectab EXCEPT ![c.sec] = [sym |-> @.sym, loc |-> c.loc, aln |-> c.aln, ext |-> c.ext, atr |-> c.atr]]
  IN  [s EXCEPT !.sectab = t, !.cur = [sec |-> n, loc |-> t[n].loc, aln |-> t[n].aln, ext |-> t[n].ext, atr |-> t[n].atr]]

NewCur(n) == [sec |-> n, loc |-> 0, aln |-> MINALN, ext |-> 32, atr |-> {}]

\* newsec(): in pass 2 the number must be the one of pass 1.
newsecIn(p, s, n) ==
  LET a == assignIn(p, s, n, "sec", 0, s.secct)
      b == setsec([a EXCEPT !.sectab[s.secct].sym = n, !.secct = @ + 1], s.secct)
  IN  IF s.secct >= SECSIZ THEN [s EXCEPT !.fatal = TRUE] ELSE [b EXCEPT !.cur = NewCur(s.secct)]
newsec(s, n) == newsecIn(pass, s, n)

Section(s, n) ==
  LET e == s.sym[n]
  IN  IF e.typ = "sec" /\ (pass = 1 \/ e.p2) THEN setsec(s, e.rel) ELSE newsec(s, n)

-----------------------------------------------------------------------------
(* Reading statements.                                                     *)

Frame(typ, text, pos, rpt, ct) == [typ |-> typ, text |-> text, pos |-> pos, rpt |-> rpt, ct |-> ct]
Top == Last(inp.stack)
Under == Front(inp.stack)
AtEnd == Top.pos > Len(Top.text)

\* Symbols from 50 on are written with ?#, the count of the macro's expansion.
Named(n) == IF n >= 50 /\ n < TEXT THEN 100 * n + Top.ct ELSE n
NamedP(p) == IF p.k = "sym" THEN [p EXCEPT !.n = Named(p.n)] ELSE p
NamedArg(x) == [x EXCEPT !.l = NamedP(@), !.r = NamedP(@)]
Line ==
  LET st == Top.text[Top.pos]
  IN  [st EXCEPT !.lab = Named(@), !.args = [i \in DOMAIN @ |-> NamedArg(@[i])]]

Advance == Append(Under, [Top EXCEPT !.pos = @ + 1])
Reading == pass < 3 /\ inp.reading /\ ~ z.fatal /\ inp.stack # <<>>

\* fillin(): the end of a file, of a macro or of one round of a repeat.
fillin ==
  /\ Reading /\ AtEnd
  /\ inp' = [inp EXCEPT !.stack =
               IF Top.typ = "rpt" /\ Top.rpt # 0
               THEN Append(Under, [Top EXCEPT !.pos = 1, !.rpt = @ - 1]) ELSE Under]
  /\ UNCHANGED <<asm, pass, z>>

\* pushin(): a frame more, until the input stack is full.
Push(stack, f) == IF Len(stack) < INSIZ THEN Append(stack, f) ELSE stack
Full == [z EXCEPT !.fatal = Len(inp.stack) >= INSIZ]

HasStatement == Reading /\ ~ AtEnd
Mode == IF inp.def > 0 THEN "def" ELSE IF inp.rpt > 0 THEN "rpt"
        ELSE IF inp.cond > inp.true THEN "skip" ELSE "assemble"

\* def1() and rpt1(): a line is kept, and the line that ends the text acts.
Deeper(st, open, close) == IF st.op = open THEN 1 ELSE IF st.op = close THEN -1 ELSE 0

def1 ==
  LET lev == inp.def + Deeper(Line, "macro", "endm")
  IN  /\ HasStatement /\ Mode = "def"
      /\ inp' = [inp EXCEPT !.stack = Advance, !.def = lev,
                            !.macros[inp.curdef] = IF lev > 0 THEN Append(@, Line) ELSE @]
      /\ UNCHANGED <<asm, pass, z>>

rpt1 ==
  LET lev == inp.rpt + Deeper(Line, "repeat", "endr")
      t   == inp.rpttext
  IN  /\ HasStatement /\ Mode = "rpt"
      /\ IF lev > 0
         THEN inp' = [inp EXCEPT !.stack = Advance, !.rpt = lev, !.rpttext = Append(t, Line)] /\ UNCHANGED z
         ELSE /\ inp' = [inp EXCEPT !.stack = Push(Advance, Frame("rpt", t, Len(t) + 1, inp.rptct, Top.ct)),
                                    !.rpt = 0]
              /\ z' = Full
      /\ UNCHANGED <<asm, pass>>

\* skip1(): only the conditionals count in skipped code.
SkipElse(i) == IF i.true = i.cond - 1 THEN [i EXCEPT !.true = @ + 1] ELSE i

skip1 ==
  LET i == [inp EXCEPT !.stack = Advance]
  IN  /\ HasStatement /\ Mode = "skip"
      /\ inp' = CASE Line.op = "if"    -> [i EXCEPT !.cond = @ + 1]
                  [] Line.op = "else"  -> SkipElse(i)
                  [] Line.op = "endif" -> [i EXCEPT !.cond = @ - 1]
                  [] OTHER             -> i
      /\ UNCHANGED <<asm, pass, z>>

-----------------------------------------------------------------------------
(* Assembling a statement (assem1).                                        *)

Assemble(ops) == HasStatement /\ Mode = "assemble" /\ Line.op \in ops
Arg == Line.args[1]
\* The label is in the table before the operands are; 0: there is none.
Labelled == Entered(z, {Line.lab} \ {0})
Same == UNCHANGED <<asm, pass>>
Read  == inp' = [inp EXCEPT !.stack = Advance]

\* A label on a line of its own.
LoneLabel ==
  /\ Assemble({"label"}) /\ Read /\ Same
  /\ z' = LabelHere(Labelled, Line.lab)

Even(s) == [s EXCEPT !.cur.loc = @ + (@ % 2)]

\* .byte, .word and .long: words begin at even addresses.  A later operand may use $.
Data ==
  LET s0 == IF Line.op = "byte" THEN Labelled ELSE Even(Labelled)
      put(s, x) == LET t == Mention(s, x)
                       r == Eval(t, x)
                   IN  Emit(Errs(t, r.errs), CASE Line.op = "byte" -> Byte(r) [] Line.op = "word" -> Word(r)
                                               [] Line.op = "long" -> Long(r))
  IN  /\ Assemble({"byte", "word", "long"}) /\ Read /\ Same
      /\ z' = FoldLeft(put, LabelHere(s0, Line.lab), Line.args)

\* Distances of the relative forms, and the operand's place in the instruction.
Near(form, v, loc) ==
  LET d == IF form \in {"ra7", "ra12"} THEN loc + 2 - v ELSE IF form = "ra8" THEN v - (loc + 2) ELSE v - (loc + 4)
  IN  /\ d % 2 = 0
      /\ CASE form = "ra7" -> d >= 0 /\ d < 256 [] form = "ra8" -> d >= -256 /\ d < 256
           [] form = "ra12" -> d >= -4096 /\ d < 4096 [] form = "ra16" -> TRUE

Relative == {"ra7", "ra8", "ra12", "ra16"}

\* What follows the first word of an instruction.
Operand(form, r, short) ==
  CASE form = "x"     -> <<Address(r, short)>>
    [] form = "ba"    -> <<Address(r, TRUE)>>
    [] form = "imm8"  -> <<Byte(r), Byte(r)>>
    [] form = "imm16" -> <<Word(r)>>
    [] form = "imm32" -> <<Long(r)>>
    [] form = "ra16"  -> <<Item(2, r.val, NoReloc)>>
    [] OTHER          -> <<>>

\* instr(): "byt1" has a relocatable byte in the first word.
instr ==
  LET s == LabelHere(Even(Labelled), Line.lab)
      t == Mention(s, Arg)
      r == Eval(t, Arg)
      f == Line.form
      far == f \in Relative /\ (r.rel # t.cur.sec \/ ~ Near(f, r.val, t.cur.loc))
      u == Errs(t, r.errs \cup (IF far THEN {"E"} ELSE {}))
      first == <<Item(1, f, NoReloc), IF f = "byt1" THEN Byte(r) ELSE Item(1, f, NoReloc)>>
  IN  /\ Assemble({"ins"}) /\ Read /\ Same
      /\ z' = IF f = "nomatch" \/ Syntax(Arg) THEN Errs(u, {"O"})
              ELSE FoldLeft(Emit, u, first \o Operand(f, r, Line.short))

\* An operation that does not exist, or a directive that does not belong here.
Unknown ==
  /\ Assemble({"endm", "endr", "undefined"}) /\ Read /\ Same
  /\ z' = err(IF Line.op = "undefined" THEN z ELSE Labelled, "O")

-----------------------------------------------------------------------------
(* Directives (dircom and direc).                                          *)

\* .equ and .set: in pass 1 a value that depends on an undefined symbol is left for pass 2.
equ ==
  LET t   == Mention(Labelled, Arg)
      r   == Eval(t, Arg)
      typ == IF Line.op = "equ" THEN "lab" ELSE "var"
      l   == IF Line.lab = 0 THEN {"L"} ELSE {}
      u   == Errs(t, r.errs \cup l)
  IN  /\ Assemble({"equ", "set"}) /\ Read /\ Same
      /\ z' = IF Syntax(Arg) \/ (pass = 1 /\ r.errs # {}) THEN u ELSE assign(u, Line.lab, typ, r.val, r.rel)

Absolute(r, lo, hi) == r.rel = RBABS /\ lo <= r.val /\ r.val <= hi

\* .align: the next multiple of 1 << i.
Shifted(i) == FoldLeft(LAMBDA m, k : 2 * m, 1, [k \in 1..i |-> k])
Aligned(loc, i) == LET m == Shifted(i) IN ((loc + m - 1) \div m) * m

ADALIGN ==
  LET t == Mention(Labelled, Arg)
      r == Eval(t, Arg)
      i == r.val
      u == Errs(t, r.errs)
      a == [u EXCEPT !.cur.aln = IF i > @ THEN i ELSE @, !.cur.loc = Aligned(@, i)]
  IN  /\ Assemble({"align"}) /\ Read /\ Same
      /\ z' = LabelHere(IF Absolute(r, 0, 32) THEN setorg(a) ELSE err(u, "E"), Line.lab)

ADWITHN ==
  LET t == Mention(Labelled, Arg)
      r == Eval(t, Arg)
      u == Errs(t, r.errs)
  IN  /\ Assemble({"within"}) /\ Read /\ Same
      /\ z' = LabelHere(IF Absolute(r, 0, 32) THEN [u EXCEPT !.cur.ext = IF r.val < @ THEN r.val ELSE @]
                        ELSE err(u, "E"), Line.lab)

ADBLOCK ==
  LET t == Mention(LabelHere(Labelled, Line.lab), Arg)
      r == Eval(t, Arg)
      u == Errs(t, r.errs)
  IN  /\ Assemble({"block"}) /\ Read /\ Same
      /\ z' = IF r.rel = RBABS THEN setorg([u EXCEPT !.cur.loc = @ + r.val]) ELSE err(u, "E")

ADORG ==
  LET t == Mention(Labelled, Arg)
      r == Eval(t, Arg)
      u == Errs(t, r.errs)
  IN  /\ Assemble({"org"}) /\ Read /\ Same
      /\ z' = IF r.rel = u.cur.sec
              THEN setorg(assign([u EXCEPT !.cur.loc = r.val], Line.lab, "lab", r.val, r.rel))
              ELSE err(u, "E")

ADABS ==
  /\ Assemble({"abs"}) /\ Read /\ Same
  /\ z' = LabelHere(setsec(Labelled, 0), Line.lab)

ADSECT ==
  LET s == Section(Labelled, Line.lab)
  IN  /\ Assemble({"sect", "common"}) /\ Read /\ Same
      /\ z' = IF Line.lab = 0 THEN err(z, "L")
              ELSE IF Line.op = "common" THEN [s EXCEPT !.cur.atr = @ \cup {"com"}] ELSE s

ADGLOB ==
  LET n == Arg.l.n
      s == Entered(Labelled, {n})
  IN  /\ Assemble({"global"}) /\ Read /\ Same
      /\ z' = [s EXCEPT !.sym[n].glo = TRUE]

\* .end, with the address of the entry or without.
ADEND ==
  LET t == IF Line.args = <<>> THEN Labelled ELSE Mention(Labelled, Arg)
      r == Eval(t, Arg)
      f == oflush(Errs(t, r.errs))
  IN  /\ Assemble({"end"}) /\ Same
      /\ inp' = [inp EXCEPT !.stack = Advance, !.reading = FALSE]
      /\ z' = IF pass = 1 \/ Line.args = <<>> THEN t
              ELSE [f EXCEPT !.obj.typ = "tra", !.obj.bytes = 6, !.obj.text = <<r.val, r.rel>>]

\* .if, .else and .endif where code is assembled.
ADIF ==
  LET t == Mention(Labelled, Arg)
      r == Eval(t, Arg)
      holds == r.rel = 0 /\ r.val # 0
  IN  /\ Assemble({"if"}) /\ Same
      /\ inp' = [inp EXCEPT !.stack = Advance, !.cond = @ + 1, !.true = @ + (IF holds THEN 1 ELSE 0)]
      /\ z' = Errs(t, r.errs \cup (IF r.rel # 0 THEN {"E"} ELSE {}))

ADELSE ==
  /\ Assemble({"else"}) /\ Same
  /\ inp' = [inp EXCEPT !.stack = Advance, !.true = IF @ > 0 THEN @ - 1 ELSE @]
  /\ z' = IF inp.true > 0 THEN Labelled ELSE err(Labelled, "C")

ADENDIF ==
  LET in == inp.cond > 0
  IN  /\ Assemble({"endif"}) /\ Same
      /\ inp' = [inp EXCEPT !.stack = Advance, !.cond = IF in THEN @ - 1 ELSE @, !.true = IF in THEN @ - 1 ELSE @]
      /\ z' = IF in THEN Labelled ELSE err(Labelled, "C")

\* .macro: the text that follows is kept under the label.
ADMAC ==
  /\ Assemble({"macro"}) /\ Same
  /\ inp' = IF Line.lab = 0 THEN [inp EXCEPT !.stack = Advance]
            ELSE [inp EXCEPT !.stack = Advance, !.def = 1, !.curdef = Line.lab,
                             !.macros = [n \in DOMAIN @ \cup {Line.lab} |-> IF n = Line.lab THEN <<>> ELSE @[n]]]
  /\ z' = IF Line.lab = 0 THEN err(z, "L") ELSE z

\* A macro call, of a macro that this pass or the last one has seen.
macro ==
  LET n == Line.name
  IN  /\ Assemble({"call"}) /\ Same
      /\ IF n \in DOMAIN inp.macros
         THEN /\ inp' = [inp EXCEPT !.stack = Push(Advance, Frame("mac", inp.macros[n], 1, 0, inp.mexct + 1)),
                                    !.mexct = @ + 1]
              /\ z' = Full
         ELSE Read /\ z' = err(z, "O")

ADREPT ==
  LET t == Mention(Labelled, Arg)
      r == Eval(t, Arg)
      ok == r.rel = RBABS /\ r.val <= 255
  IN  /\ Assemble({"repeat"}) /\ Same
      /\ inp' = [inp EXCEPT !.stack = Advance, !.rpt = 1, !.rpttext = <<>>,
                            !.rptct = IF ~ ok THEN 1 ELSE IF r.val >= 0 THEN r.val ELSE 0]
      /\ z' = Errs(t, r.errs \cup (IF ok THEN {} ELSE {"E"}))

ADEXIT ==
  LET in == Top.typ \in {"mac", "rpt"}
  IN  /\ Assemble({"exit"}) /\ Same
      /\ inp' = [inp EXCEPT !.stack = IF in THEN Under ELSE Advance]
      /\ z' = IF in THEN Labelled ELSE err(Labelled, "O")

ADINPUT ==
  LET found == Line.name \in DOMAIN Files
  IN  /\ Assemble({"input"}) /\ Same
      /\ inp' = [inp EXCEPT !.stack = IF found THEN Push(Advance, Frame("file", Files[Line.name], 1, 0, 0)) ELSE Advance]
      /\ z' = IF found THEN [Labelled EXCEPT !.fatal = Len(inp.stack) >= INSIZ] ELSE err(Labelled, "E")

-----------------------------------------------------------------------------
(* Passes.                                                                 *)

\* What dopass() resets; macros and their texts stay.
dopass(macros, text) ==
  [stack |-> <<Frame("file", text, 1, 0, 0)>>, reading |-> TRUE, cond |-> 0, true |-> 0, def |-> 0,
   rpt |-> 0, rpttext |-> <<>>, rptct |-> 1, mexct |-> 0, macros |-> macros, curdef |-> 0]

\* The default section begins pass p.
Begin(p, s) ==
  LET t == Entered([s EXCEPT !.cur = NewCur(0), !.sectab[0].loc = 0, !.secct = 1], {TEXT})
  IN  newsecIn(p, t, TEXT)

\* One entry of a sections or symbols block.
PutEntry(s, typ, size, entry) ==
  LET f == IF s.obj.typ # typ \/ Free(s.obj) < SYMSIZ + 7 THEN [oflush(s) EXCEPT !.obj.typ = typ] ELSE s
  IN  [f EXCEPT !.obj.bytes = @ + size, !.obj.text = Append(@, entry)]

\* One symbol of interlude(): what is undefined becomes external, if it is global or -u says so.
PutSymbol(s, n) ==
  LET e   == s.sym[n]
      glo == e.glo \/ (asm.uext /\ e.typ = "und")
      typ == IF glo THEN "glo" ELSE "loc"
      row == [name |-> n, val |-> IF e.typ = "und" THEN 0 ELSE e.val, rel |-> IF e.typ = "und" THEN RBUND ELSE e.rel]
      p   == PutEntry(s, typ, 5 + SYMSIZ + 1, row)
      x   == [p EXCEPT !.sym[n] = [e EXCEPT !.typ = "lab", !.glo = TRUE, !.val = 0, !.rel = s.nextext],
                       !.nextext = @ + 1]
  IN  IF e.typ = "sec" \/ s.fatal THEN s
      ELSE IF e.typ = "und" /\ glo THEN (IF s.nextext >= RBMSK THEN [s EXCEPT !.fatal = TRUE] ELSE x)
      ELSE p

\* The symbols are output chain by chain of the hash table, which is any order.
InterludeBlocks(s) ==
  LET start == [s EXCEPT !.obj.out = Append(@, [typ |-> "start", sec |-> 0, loc |-> 0, text |-> <<>>, rels |-> <<>>])]
      secs  == FoldLeft(LAMBDA t, n : PutEntry(t, "sec", 3 + SYMSIZ + 1, t.sectab[n]), start,
                        [i \in 1..(s.secct - 1) |-> i])
  IN  FoldSet(LAMBDA n, t : PutSymbol(t, n), secs, DOMAIN s.sym)

\* The end of a pass: of the input or by .end.
EndOfPass == pass < 3 /\ ~ z.fatal /\ (~ inp.reading \/ inp.stack = <<>>)

interlude ==
  /\ EndOfPass /\ pass = 1
  /\ LET s == InterludeBlocks(setsec(z, 0))
     IN  IF s.fatal THEN z' = s /\ UNCHANGED <<inp, pass>>
         ELSE /\ pass' = 2
              /\ z' = Begin(2, s)
              /\ inp' = dopass(inp.macros, asm.src)
  /\ UNCHANGED asm

finish ==
  /\ EndOfPass /\ pass = 2
  /\ LET f == oflush(setsec(z, 0))
     IN  z' = [f EXCEPT !.obj.out = Append(@, [typ |-> "end", sec |-> 0, loc |-> 0, text |-> <<>>, rels |-> <<>>])]
  /\ pass' = 3
  /\ UNCHANGED <<asm, inp>>

NoObject == [typ |-> "none", sec |-> 0, loc |-> 0, bytes |-> 0, text |-> <<>>, rels |-> <<>>, out |-> <<>>,
             nxtloc |-> 0, nxtsec |-> 0]
Start ==
  [cur |-> NewCur(0), secct |-> 1, sectab |-> [n \in 0..SECSIZ |-> [sym |-> 0, loc |-> 0, aln |-> 0, ext |-> 0, atr |-> {}]],
   sym |-> [n \in {} |-> Fresh], errs |-> {}, obj |-> NoObject, fatal |-> FALSE, nextext |-> RBEXT,
   placed |-> {}, used |-> {}, image |-> [p \in {} |-> 0]]

AssemblerInit ==
  /\ asm \in [src : Sources, seg : SegFlags, uext : UFlags]
  /\ pass = 1
  /\ inp = dopass([n \in {} |-> <<>>], asm.src)
  /\ z = Begin(1, Start)

AssemblerNext ==
  \/ fillin \/ def1 \/ rpt1 \/ skip1
  \/ LoneLabel \/ Data \/ instr \/ Unknown
  \/ equ \/ ADALIGN \/ ADWITHN \/ ADBLOCK \/ ADORG \/ ADABS \/ ADSECT \/ ADGLOB \/ ADEND
  \/ ADIF \/ ADELSE \/ ADENDIF \/ ADMAC \/ macro \/ ADREPT \/ ADEXIT \/ ADINPUT
  \/ interlude \/ finish

-----------------------------------------------------------------------------
(* Properties.                                                             *)

Exported == UNION {ToSet(z.obj.out[i].text) : i \in {j \in DOMAIN z.obj.out : z.obj.out[j].typ \in {"glo", "loc"}}}

\* When the assembler reports no error, every label means one place in the whole source:
\* where pass 2 put it is what pass 1 exported for the linker and what pass 2 used wherever
\* the label is referred to, before or behind it (assign's phase and multiple definition
\* errors; conditionals, macros, repeats and alignment may all shift code between passes).
AddressesAgree ==
  pass = 3 /\ z.errs = {} =>
    \A p \in z.placed : \A u \in z.used \cup {e \in Exported : e.rel # RBUND} :
      u.name = p.name /\ z.sym[p.name].typ = "lab" => u.val = p.val /\ u.rel = p.rel

\* The text blocks, read in their order, are what was emitted: every byte at the place and
\* in the section where the location counter was, its relocation with it, and every
\* relocatable item in one block (emitb: "without breaking up a relocatable item").
Places(b) == {<<b.sec, b.loc + i - 1>> : i \in DOMAIN b.text}
RelocsAt(b, i) == {r \in ToSet(b.rels) : r.off = 6 + i - 1}
ByteOf(b, i) == <<b.text[i], IF RelocsAt(b, i) = {} THEN NoReloc ELSE (CHOOSE r \in RelocsAt(b, i) : TRUE).rl>>

\* What the reader of an object file has when it has read one block more.
Laid(img, b) ==
  IF b.typ # "text" THEN img
  ELSE [p \in Places(b) \cup DOMAIN img |-> IF p \in Places(b) THEN ByteOf(b, p[2] - b.loc + 1) ELSE img[p]]

ObjectIsTheImage ==
  pass = 3 =>
    /\ FoldLeft(Laid, [p \in {} |-> 0], z.obj.out) = z.image
    /\ \A b \in ToSet(z.obj.out) : b.typ = "text" =>
         /\ \A r \in ToSet(b.rels) : r.off + Width(r.rl.act) <= 6 + Len(b.text)
         /\ 6 + Len(b.text) + 3 * Len(b.rels) <= OBJSIZ
=============================================================================
