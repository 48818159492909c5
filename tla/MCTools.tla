------------------------------- MODULE MCTools -------------------------------
(* A library of small modules and the commands that link them.             *)
EXTENDS ToolChain

R(ext, bas, target, sgn, loc) == [ext |-> ext, bas |-> bas, target |-> target, sgn |-> sgn, loc |-> loc]
Sym(name, fl, sg, val) == [name |-> name, fl |-> fl, sg |-> sg, val |-> val]
Undefined(name) == Sym(name, "UNX", 255, 0)
Common(name, size) == Sym(name, "UNX", 255, size)

\* A module; "adds" are the addends that are not 0: <<segment, offset, addend>>.
Module(name, magic, segs, adds, rels, syms) ==
  LET sg == [k \in DOMAIN segs |-> [no |-> 255, typ |-> segs[k][1], len |-> segs[k][2]]]
      val(k, o) == LET a == {x \in adds : x[1] = k /\ x[2] = o}
                   IN  IF a = {} THEN 0 ELSE (CHOOSE x \in a : TRUE)[3]
      words(k) == IF sg[k].typ \in idata
                  THEN [n \in 1..(sg[k].len \div 2) |->
                          [mark |-> <<name, k - 1, 2 * (n - 1)>>, seg |-> 0, val |-> val(k - 1, 2 * (n - 1))]]
                  ELSE <<>>
  IN  [name |-> name, magic |-> magic, exec |-> FALSE, segs |-> sg,
       init |-> FlattenSeq([k \in DOMAIN sg |-> words(k)]), rels |-> rels, syms |-> syms]

\* A program with all four segments that calls f and uses the common symbols c and d.
Prog == Module("prog", "nonseg", << <<COD, 8>>, <<CON, 2>>, <<DAT, 4>>, <<BSS, 3>> >>,
  {<<0, 4, 2>>, <<2, 0, 1>>},
  << R(TRUE, 0, "OFF", 0, 0), R(FALSE, 2, "OFF", 0, 4), R(TRUE, 1, "OFF", 0, 6),
     R(FALSE, 3, "OFF", 2, 0), R(TRUE, 2, "OFF", 2, 2) >>,
  << Undefined("f"), Common("c", 1), Common("d", 2), Sym("main", "GLB", 0, 2), Sym("l", "LOC", 2, 2) >>)

\* f, that uses a longer c, the variable v of another module and calls g.
SubF == Module("f", "nonseg", << <<COD, 6>>, <<CON, 0>>, <<DAT, 2>>, <<BSS, 2>> >>,
  {<<0, 0, 1>>},
  << R(TRUE, 1, "OFF", 0, 0), R(TRUE, 2, "OFF", 0, 2), R(TRUE, 3, "OFF", 0, 4), R(FALSE, 3, "OFF", 2, 0) >>,
  << Sym("f", "GLB", 0, 2), Common("c", 3), Undefined("v"), Undefined("g") >>)

\* v in data, g in code, segments in an order of their own; refers to the program's main.
SubG == Module("g", "nonseg", << <<DAT, 4>>, <<COD, 2>>, <<BSS, 4>> >>,
  {},
  << R(TRUE, 2, "OFF", 0, 0), R(FALSE, 1, "OFF", 0, 2) >>,
  << Sym("v", "GLB", 0, 2), Sym("g", "GLB", 1, 0), Undefined("main") >>)

\* Nobody needs this one.
Other == Module("other", "nonseg", << <<COD, 2>> >>, {}, <<>>, << Sym("other", "GLB", 0, 0) >>)

\* Segmented modules.
SegA == Module("sa", "seg", << <<COD, 10>>, <<CON, 0>>, <<DAT, 2>> >>, {<<0, 8, 0>>},
  << R(FALSE, 2, "LSG", 0, 2), R(TRUE, 0, "LSG", 0, 6), R(FALSE, 2, "SSG", 0, 0) >>, << Undefined("b") >>)
SegB == Module("sb", "seg", << <<COD, 4>>, <<CON, 2>>, <<DAT, 4>> >>, {<<2, 2, 2>>},
  << R(FALSE, 0, "OFF", 2, 2), R(FALSE, 1, "SSG", 0, 0) >>, << Sym("b", "GLB", 2, 2) >>)

\* Asks for a module of an archive behind it, when all was defined before.
Head1 == Module("head", "nonseg", << <<COD, 4>> >>, {}, << R(TRUE, 0, "OFF", 0, 0) >>,
  << Undefined("g"), Sym("main", "GLB", 0, 2) >>)
TailT == Module("tail", "nonseg", << <<COD, 2>> >>, {}, << R(TRUE, 0, "OFF", 0, 0) >>, << Undefined("t") >>)
SubT  == Module("t", "nonseg", << <<COD, 4>> >>, {}, <<>>, << Sym("t", "GLB", 0, 2) >>)

MCLibrary ==
  [prog |-> Prog, f |-> SubF, g |-> SubG, other |-> Other, sa |-> SegA, sb |-> SegB,
   libfg |-> [members |-> <<SubF, Other, SubG>>],
   libgf |-> [members |-> <<SubG, SubF>>],
   libf  |-> [members |-> <<SubF, Other>>],
   libg  |-> [members |-> <<Other, SubG>>],
   head |-> Head1, tail |-> TailT,
   libt  |-> [members |-> <<SubT>>],
   libo  |-> [members |-> <<Other>>]]

Plain == [files |-> <<>>, w |-> FALSE, d |-> <<>>, u |-> <<>>, r |-> FALSE, i |-> FALSE, s |-> FALSE,
          t |-> 0, x |-> FALSE]

\* Archives come last: see OrderJobs.
FileLists == {<<"prog", "f", "g">>, <<"g", "f", "prog">>, <<"f", "prog", "g">>, <<"prog", "libfg">>,
              <<"prog", "libgf">>, <<"prog", "f", "libg">>, <<"prog", "g", "libo", "libfg">>,
              <<"prog", "libf", "libo", "libg">>, <<"g", "libo">>}

Final(files) == {[Plain EXCEPT !.files = files, !.w = w, !.i = i, !.x = x, !.t = t, !.s = x]
                   : w \in BOOLEAN, i \in BOOLEAN, x \in BOOLEAN, t \in {0, 4}}

Placed == {[Plain EXCEPT !.files = <<"prog", "f", "g">>, !.d = d, !.u = u, !.i = i]
             : i \in BOOLEAN, u \in {<<>>, <<"v">>},
               d \in {<< [seg |-> 2, typ |-> COD, names |-> <<"__text">>] >>,
                      << [seg |-> 3, typ |-> BSS, names |-> <<>>], [seg |-> 1, typ |-> COD, names |-> <<"a", "b">>] >>}}

Segmented == {[Plain EXCEPT !.files = files, !.r = r, !.x = r]
                : r \in BOOLEAN, files \in {<<"sa", "sb">>, <<"sb", "sa">>, <<"sa", "prog">>}}

Relocatable(files, x, w) == [Plain EXCEPT !.files = files, !.r = TRUE, !.x = x, !.w = w]

Twice == {<<Relocatable(first, x, w), [Plain EXCEPT !.files = then, !.i = i]>>
            : first \in {<<"prog", "f">>, <<"f", "prog">>, <<"prog">>}, x \in BOOLEAN, w \in BOOLEAN,
              then \in {<<"made", "g">>, <<"g", "made">>, <<"made", "libfg">>}, i \in BOOLEAN}

MCJobs == {<<c>> : c \in UNION {Final(fs) : fs \in FileLists}} \cup {<<c>> : c \in Placed \cup Segmented} \cup Twice

\* Between two archives, an object file asks for what the second one has; the first one has
\* defined everything so far.
OrderJobs == {<<[Plain EXCEPT !.files = <<"head", "libg", "tail", "libt">>]>>}

=============================================================================
