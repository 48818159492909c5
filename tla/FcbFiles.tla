------------------------------ MODULE FcbFiles ------------------------------
(***************************************************************************)
(* What the guest programs are promised about files: the FCB is the file's *)
(* state.  A call acts on the file the FCB names; there is no table behind *)
(* it that could close a file, lose a record or send it elsewhere.  The    *)
(* table shows in two places only: a call may be refused, and F_SIZE may   *)
(* lag behind the writes to a file that is open.                           *)
(***************************************************************************)
EXTENDS Naturals, Sequences

CONSTANTS Fcb, Names, Val, Zero, MaxRec

VARIABLES name,      \* the path each FCB names
          content,   \* a function from the paths that exist to their records
          res        \* the last call and its answer: [op, fcb, arg, ret, val]

fvars == <<name, content, res>>

\* "arg" is the record of a transfer, the new name of a rename, and 0 otherwise.
ReplyTo(op, f, arg, ret, val) ==
  [op |-> op, fcb |-> f, arg |-> arg, ret |-> ret, val |-> val]
Reply(op, f, ret, val) == ReplyTo(op, f, 0, ret, val)

FInit ==
  /\ name \in [Fcb -> Names]
  /\ content = <<>>
  /\ \E f \in Fcb : res = Reply("guest", f, 0, Zero)

Exists(f) == name[f] \in DOMAIN content

Put(fn, x, y) == [z \in DOMAIN fn \cup {x} |-> IF z = x THEN y ELSE fn[z]]
Drop(fn, x)   == [z \in DOMAIN fn \ {x} |-> fn[z]]

\* The records of a file after v was written to record r.
Written(c, r, v) ==
  [k \in 1 .. (IF r < Len(c) THEN Len(c) ELSE r + 1) |->
     IF k = r + 1 THEN v ELSE IF k <= Len(c) THEN c[k] ELSE Zero]

Same == UNCHANGED <<name, content>>

FName(f, n) == /\ name' = [name EXCEPT ![f] = n]
               /\ \E g \in Fcb : res' = Reply("guest", g, 0, Zero)
               /\ UNCHANGED content

FCopy(f, g) == FName(g, name[f])

FRefuse(f, op, arg) == res' = ReplyTo(op, f, arg, 255, Zero) /\ Same
FClose(f, ret) == res' = Reply("CLOSE", f, ret, Zero) /\ Same
FOpen(f)       == Exists(f) /\ res' = Reply("OPEN", f, 0, Zero) /\ Same
FWarmBoot(f)   == res' = Reply("WBOOT", f, 0, Zero) /\ Same

FMake(f) == /\ content' = Put(content, name[f], <<>>)
            /\ res' = Reply("MAKE", f, 0, Zero)
            /\ UNCHANGED name

FDelete(f) == /\ content' = Drop(content, name[f])
              /\ res' = Reply("DELETE", f, IF Exists(f) THEN 0 ELSE 255, Zero)
              /\ UNCHANGED name

FRename(f, n) == /\ Exists(f)
                 /\ content' = Put(Drop(content, name[f]), n, content[name[f]])
                 /\ res' = ReplyTo("RENAME", f, n, 0, Zero)
                 /\ UNCHANGED name

FRead(f, r) == /\ Exists(f)
               /\ res' = IF r < Len(content[name[f]])
                         THEN ReplyTo("READ", f, r, 0, content[name[f]][r + 1])
                         ELSE ReplyTo("READ", f, r, 1, Zero)
               /\ Same

FWrite(f, r, v) == /\ Exists(f)
                   /\ content' = Put(content, name[f], Written(content[name[f]], r, v))
                   /\ res' = ReplyTo("WRITE", f, r, 0, v)
                   /\ UNCHANGED name

FSize(f) == /\ Exists(f)
            /\ \E n \in 0 .. Len(content[name[f]]) : res' = Reply("SIZE", f, 0, n)
            /\ Same

FNext ==
  \E f \in Fcb :
    \/ \E n \in Names : FName(f, n) \/ FRename(f, n)
    \/ \E g \in Fcb : FCopy(f, g)
    \/ \E op \in {"OPEN", "MAKE"} : FRefuse(f, op, 0)
    \/ \E op \in {"READ", "WRITE"}, r \in 0 .. MaxRec : FRefuse(f, op, r)
    \/ ~Exists(f) /\ (FRefuse(f, "SIZE", 0) \/ \E n \in Names : FRefuse(f, "RENAME", n))
    \/ FClose(f, 0) \/ FClose(f, 255) \/ FOpen(f) \/ FMake(f) \/ FDelete(f) \/ FSize(f)
    \/ FWarmBoot(f)
    \/ \E r \in 0 .. MaxRec : FRead(f, r) \/ \E v \in Val : FWrite(f, r, v)

FcbSpec == FInit /\ [][FNext]_fvars
=============================================================================
