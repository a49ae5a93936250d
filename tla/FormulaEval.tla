----------------------------- MODULE FormulaEval -----------------------------
(***************************************************************************)
(* The engine that evaluates the formulas of a report on the page          *)
(* (formula-eval.js): the grammar, the values and their conversions, and   *)
(* the functions.  A formula is a sequence of tokens; a token is the text  *)
(* of an operator or a leaf of the tree.  page.tree is a formula as its    *)
(* author means it, srv the values its cells have, wire what the engine    *)
(* made of it.                                                             *)
(***************************************************************************)
EXTENDS Integers, Sequences, FiniteSets, FiniteSetsExt, SequencesExt

CONSTANTS Binary,           \* the binary operators that formulas use
          Functions2,       \* the functions of two arguments that they use
          Numbers,          \* the numbers that cells hold
          Periods           \* the calendar, in order

VARIABLES page, wire, srv

vars == <<page, wire, srv>>

-----------------------------------------------------------------------------
(* Values.                                                                 *)

Num(x) == [t |-> "num", v |-> x]
Bool(b) == [t |-> "bool", v |-> IF b THEN 1 ELSE 0]
Text == [t |-> "str", v |-> 0]
Null == [t |-> "null", v |-> 0]
Err == [t |-> "err", v |-> 0]
IsErr(v) == v.t = "err"

AsNum(v) == IF v.t \in {"num", "bool"} THEN v.v ELSE 0

AsBool(v) == IF v.t \in {"num", "bool"} THEN v.v # 0 ELSE v.t = "str"

IsEmpty(v) == v.t \in {"null", "err"}

ValuesEq(a, b) == IF a.t = b.t /\ a.t \in {"str", "null", "bool"} THEN a = b ELSE AsNum(a) = AsNum(b)

-----------------------------------------------------------------------------
(* The grammar: binary operators by precedence, all of them left           *)
(* associative; a tree is made of uniform nodes.                           *)

Precedence == <<{"||"}, {"&&"}, {">", "<", ">=", "<=", "==", "!="}, {"+", "-"}, {"*", "/"}>>
Unary == {"-", "!"}
Marks == UNION {Precedence[k] : k \in 1..5} \union Unary \union {"(", ")", ","}

Node(n, op, args) == [n |-> n, op |-> op, args |-> args, v |-> Null, at |-> << >>]
Value(v) == [Node("value", "", << >>) EXCEPT !.v = v]
Cell(c) == [Node("cell", "", << >>) EXCEPT !.at = <<c>>]
Range2(a, b) == [Node("range", "", << >>) EXCEPT !.at = <<a, b>>]
Bad == Node("bad", "", << >>)

IsMark(toks, i, marks) == i <= Len(toks) /\ toks[i].n = "mark" /\ toks[i].op \in marks

RECURSIVE ParseLevel(_, _, _), ParseRest(_, _, _), ParseUnary(_, _), ParseArgs(_, _, _)

(* Each returns the tree read and the place after it.                      *)
ParseRest(toks, k, left) ==
    IF ~IsMark(toks, left.i, Precedence[k]) THEN left
    ELSE LET right == ParseLevel(toks, k + 1, left.i + 1)
         IN  ParseRest(toks, k, [e |-> Node("bin", toks[left.i].op, <<left.e, right.e>>), i |-> right.i])

ParseLevel(toks, k, i) ==
    IF k > 5 THEN ParseUnary(toks, i) ELSE ParseRest(toks, k, ParseLevel(toks, k + 1, i))

ParseArgs(toks, i, args) ==
    LET a == ParseLevel(toks, 1, i)
    IN  IF IsMark(toks, a.i, {","}) THEN ParseArgs(toks, a.i + 1, Append(args, a.e))
        ELSE [e |-> Append(args, a.e), i |-> IF IsMark(toks, a.i, {")"}) THEN a.i + 1 ELSE Len(toks) + 2]

ParsePrimary(toks, i) ==
    IF i > Len(toks) THEN [e |-> Bad, i |-> i]
    ELSE IF IsMark(toks, i, {"("}) THEN
         LET inner == ParseLevel(toks, 1, i + 1)
         IN  IF IsMark(toks, inner.i, {")"}) THEN [inner EXCEPT !.i = @ + 1] ELSE [e |-> Bad, i |-> inner.i]
    ELSE IF toks[i].n = "name" THEN
         LET args == IF IsMark(toks, i + 2, {")"}) THEN [e |-> << >>, i |-> i + 3] ELSE ParseArgs(toks, i + 2, << >>)
         IN  [e |-> Node("call", toks[i].op, args.e), i |-> args.i]
    ELSE [e |-> toks[i], i |-> i + 1]

ParseUnary(toks, i) ==
    IF IsMark(toks, i, Unary)
    THEN LET x == ParseUnary(toks, i + 1) IN [e |-> Node("un", toks[i].op, <<x.e>>), i |-> x.i]
    ELSE ParsePrimary(toks, i)

Parse(toks) == LET all == ParseLevel(toks, 1, 1) IN IF all.i = Len(toks) + 1 THEN all.e ELSE Bad

-----------------------------------------------------------------------------
(* Evaluation.                                                             *)

\* Mutant: the corners are taken in the order they are written.
ExpandRangeAsWritten(a, b) == {<<r, c>> : r \in a[1]..b[1], c \in a[2]..b[2]}

(* A range by its two corners, whichever they are: rows first.             *)
ExpandRange(a, b) ==
    {<<r, c>> : r \in Min({a[1], b[1]})..Max({a[1], b[1]}), c \in Min({a[2], b[2]})..Max({a[2], b[2]})}

(* A period relative to the current one; the current one when there is     *)
(* none.                                                                   *)
ResolvePeriodOffset(period, offset) ==
    LET at == CHOOSE i \in 1..Len(Periods) : Periods[i] = period
    IN  IF at + offset \in 1..Len(Periods) THEN Periods[at + offset] ELSE period

Arithmetic(op, l, r) ==
    CASE op = "+" -> IF "str" \in {l.t, r.t} THEN Text ELSE Num(AsNum(l) + AsNum(r))
      [] op = "-" -> Num(AsNum(l) - AsNum(r))
      [] op = "*" -> Num(AsNum(l) * AsNum(r))
      [] op = "/" -> IF AsNum(r) = 0 THEN Num(0) ELSE Num(AsNum(l) \div AsNum(r))
      [] op = ">" -> Bool(AsNum(l) > AsNum(r))
      [] op = "<" -> Bool(AsNum(l) < AsNum(r))
      [] op = ">=" -> Bool(AsNum(l) >= AsNum(r))
      [] op = "<=" -> Bool(AsNum(l) <= AsNum(r))
      [] op = "==" -> Bool(ValuesEq(l, r))
      [] op = "!=" -> Bool(~ValuesEq(l, r))

RECURSIVE EvalNode(_, _), FirstThat(_, _, _, _)

(* AND, OR and COALESCE: the first argument that decides, or the last word.*)
FirstThat(args, cells, decides(_), last) ==
    IF args = << >> THEN last
    ELSE LET v == EvalNode(Head(args), cells)
         IN  IF IsErr(v) \/ decides(v) THEN v ELSE FirstThat(Tail(args), cells, decides, last)

AsTruth(v, is) == IF IsErr(v) THEN v ELSE Bool(is)

EvalBinary(op, l, right, cells) ==
    CASE IsErr(l) -> l
      [] ~IsErr(l) /\ op = "&&" /\ ~AsBool(l) -> Bool(FALSE)
      [] ~IsErr(l) /\ op = "||" /\ AsBool(l) -> Bool(TRUE)
      [] OTHER -> LET r == EvalNode(right, cells)
                  IN  IF IsErr(r) THEN r ELSE IF op \in {"&&", "||"} THEN Bool(AsBool(r)) ELSE Arithmetic(op, l, r)

(* A range gives the numbers of its cells, anything else its own.          *)
ArgNums(arg, cells) ==
    IF arg.n = "range" THEN SetToSeq({<<c, Num(AsNum(cells[c]))>> : c \in ExpandRange(arg.at[1], arg.at[2])})
    ELSE <<<<0, EvalNode(arg, cells)>>>>

AllNums(args, cells) == FlattenSeq([i \in DOMAIN args |-> ArgNums(args[i], cells)])

Aggregate(name, nums) ==
    LET bad == SelectSeq(nums, LAMBDA x : IsErr(x[2]))
        of == [i \in DOMAIN nums |-> AsNum(nums[i][2])]
    IN  IF bad # << >> THEN Head(bad)[2]
        ELSE CASE name = "SUM" \/ of = << >> -> Num(FoldSeq(LAMBDA x, y : x + y, 0, of))
               [] name = "MIN" /\ of # << >> -> Num(Min({of[i] : i \in DOMAIN of}))
               [] name = "MAX" /\ of # << >> -> Num(Max({of[i] : i \in DOMAIN of}))

(* The balance of a period: of the current one when the argument is empty, *)
(* and nought for a text or an error, a period nobody has.                 *)
Balance(arg) ==
    IF arg.t = "num" THEN Num(CHOOSE i \in 1..Len(Periods) : Periods[i] = ResolvePeriodOffset(Periods[1], arg.v))
    ELSE IF arg = Null THEN Num(1) ELSE Num(0)

EvalCall(name, args, cells) ==
    LET v == IF args = << >> THEN Null ELSE EvalNode(args[1], cells)
    IN  CASE name = "QM" -> Balance(v)
          [] name \in {"SUM", "MIN", "MAX"} -> Aggregate(name, AllNums(args, cells))
          [] name = "ABS" -> IF IsErr(v) THEN v ELSE Num(IF AsNum(v) < 0 THEN -AsNum(v) ELSE AsNum(v))
          [] name = "ROUND" -> IF IsErr(v) THEN v ELSE Num(AsNum(v))
          [] name = "IF" -> IF Len(args) < 2 THEN Err ELSE IF IsErr(v) THEN v
                            ELSE IF AsBool(v) THEN EvalNode(args[2], cells)
                            ELSE IF Len(args) > 2 THEN EvalNode(args[3], cells) ELSE Null
          [] name = "AND" -> LET d == FirstThat(args, cells, LAMBDA x : ~AsBool(x), Bool(TRUE)) IN AsTruth(d, AsBool(d))
          [] name = "OR" -> LET d == FirstThat(args, cells, AsBool, Bool(FALSE)) IN AsTruth(d, AsBool(d))
          [] name = "NOT" -> AsTruth(v, ~AsBool(v))
          [] name = "ISEMPTY" -> Bool(IsEmpty(v))
          [] name = "COALESCE" -> FirstThat(args, cells, LAMBDA x : ~IsEmpty(x), Null)
          [] OTHER -> Err

EvalNode(e, cells) ==
    CASE e.n = "value" -> e.v
      [] e.n = "cell" -> IF cells[e.at[1]] = Null THEN Num(0) ELSE cells[e.at[1]]
      [] e.n = "range" -> Err
      [] e.n = "un" -> LET x == EvalNode(e.args[1], cells)
                       IN  IF IsErr(x) THEN x ELSE IF e.op = "-" THEN Num(-AsNum(x)) ELSE Bool(~AsBool(x))
      [] e.n = "bin" -> EvalBinary(e.op, EvalNode(e.args[1], cells), e.args[2], cells)
      [] e.n = "call" -> EvalCall(e.op, e.args, cells)
      [] OTHER -> Err

-----------------------------------------------------------------------------
(* Formulas an author writes: the trees, and their tokens with no more     *)
(* brackets than the rules of precedence ask for.                          *)

Cell1 == <<1, 1>>
Cell2 == <<2, 2>>
Leaves == {Value(Num(2)), Value(Text), Cell(Cell1), Cell(Cell2), Node("call", "NOPE", << >>)}
Small == Leaves \union {Node("bin", op, <<l, r>>) : op \in Binary, l \in Leaves, r \in Leaves}
Trees == Small \union {Node("bin", op, <<l, r>>) : op \in Binary, l \in Small, r \in Leaves}
               \union {Node("bin", op, <<l, r>>) : op \in Binary, l \in Leaves, r \in Small}
               \union {Node("un", op, <<x>>) : op \in Unary, x \in Small}
               \union {Node("call", f, <<l, r>>) : f \in Functions2, l \in Small, r \in Leaves}

Mark(m) == Node("mark", m, << >>)
Level(e) == IF e.n = "bin" THEN CHOOSE k \in 1..5 : e.op \in Precedence[k] ELSE 6

RECURSIVE Written(_, _)
Written(e, level) ==
    LET plain ==
          CASE e.n = "bin" -> Written(e.args[1], Level(e)) \o <<Mark(e.op)>> \o Written(e.args[2], Level(e) + 1)
            [] e.n = "un" -> <<Mark(e.op)>> \o Written(e.args[1], 6)
            [] e.n = "call" -> <<Node("name", e.op, << >>), Mark("(")>>
                 \o FlattenSeq([i \in DOMAIN e.args |->
                        Written(e.args[i], 1) \o IF i < Len(e.args) THEN <<Mark(",")>> ELSE << >>]) \o <<Mark(")")>>
            [] OTHER -> <<e>>
    IN  IF Level(e) < level THEN <<Mark("(")>> \o plain \o <<Mark(")")>> ELSE plain

Grid == (1..2) \X (1..2)
Cells == {[g \in Grid |-> IF g = Cell1 THEN v ELSE Num(g[1] - 2 * g[2])] : v \in {Null} \union {Num(x) : x \in Numbers}}

Init ==
    /\ page \in [tree : Trees, value : {Null}]
    /\ srv \in Cells
    /\ wire = << >>

(* A preview: the formula is read, then evaluated.                         *)
ParseFormula == wire = << >> /\ wire' = <<Parse(Written(page.tree, 1))>> /\ UNCHANGED <<page, srv>>

EvalFormula ==
    /\ wire # << >> /\ page.value = Null
    /\ page' = [page EXCEPT !.value = EvalNode(Head(wire), srv)]
    /\ UNCHANGED <<wire, srv>>

Next == ParseFormula \/ EvalFormula

Spec == Init /\ [][Next]_vars

-----------------------------------------------------------------------------

(* The engine reads a formula the way its author means it: precedence,     *)
(* associativity and brackets.                                             *)
ReadAsMeant == wire # << >> => Head(wire) = page.tree

(* The laws a user of the functions relies on, errors included: De Morgan  *)
(* for AND, OR and NOT; AND and && agree; a range is the same from any of  *)
(* its corners.                                                            *)
Law(l, r) == EvalNode(l, srv) = EvalNode(r, srv)
Call(f, args) == Node("call", f, args)
Laws ==
    LET a == page.tree
        b == Cell(Cell1)
        corner(x, y) == Range2(x, y)
    IN  /\ Law(Call("NOT", <<Call("AND", <<a, b>>)>>), Call("OR", <<Call("NOT", <<a>>), Call("NOT", <<b>>)>>))
        /\ Law(Call("AND", <<a, b>>), Node("bin", "&&", <<a, b>>))
        /\ Law(Call("OR", <<a, b>>), Node("bin", "||", <<a, b>>))
        /\ Law(Call("IF", <<a, b, b>>), Call("IF", <<Call("NOT", <<a>>), b, b>>))
        /\ \A f \in {"SUM", "MIN", "MAX"} :
             /\ Law(Call(f, <<corner(Cell1, Cell2)>>), Call(f, <<corner(Cell2, Cell1)>>))
             /\ Law(Call(f, <<corner(Cell1, Cell2)>>), Call(f, <<corner(<<1, 2>>, <<2, 1>>)>>))

-----------------------------------------------------------------------------
(* Wanted of the page, and not met by the code: README.md, section 7.      *)

(* A call whose first argument is an error is that error.                  *)
ErrorsPropagate ==
    (page.value # Null /\ page.tree.n = "call" /\ IsErr(EvalNode(page.tree.args[1], srv))) => IsErr(page.value)
=============================================================================
