------------------------------- MODULE Parser -------------------------------
(***************************************************************************)
(* The recursive descent parser (src/src/parser.c) over the tokens of      *)
(* Lexer.  The tokenizer hears nothing back from the parser, and a copy of *)
(* it is all that look-ahead restores, so the tokens are made first and    *)
(* the parser's place is an index into them.                               *)
(*                                                                         *)
(* A parser state s is [at, prev, tg, errs]: the indices of `current' and  *)
(* `previous', pending_targets, and the diagnostics.  A parse function     *)
(* maps a state to [s, e]: the state after it and the tree it built.  A    *)
(* tree is [n, w, of]: node type, the indices of the words it keeps, and   *)
(* its children.  Names, line numbers and texts are the token's.           *)
(***************************************************************************)
EXTENDS Lexer, SequencesExt

VARIABLES
    parser,     \* the Parser
    decls       \* the Program: what parser_parse has pushed

vars == <<lexVars, parser, decls>>

Tok(s) == out[s.at].t
Word1(s) == out[s.at].v
R(s, e) == [s |-> s, e |-> e]
Leaf(n, i) == [n |-> n, w |-> <<i>>, of |-> <<>>]
Node(n, of) == [n |-> n, w |-> <<>>, of |-> of]
Nothing == Node("null", <<>>)

(* diag_error; `why' tells the messages apart that a property tells apart. *)
Error(s, why) == [s EXCEPT !.errs = Append(@, [ln |-> out[s.at].ln, why |-> why])]
ErrorAtPrevious(s, why) == [s EXCEPT !.errs = Append(@, [ln |-> out[s.prev].ln, why |-> why])]
-----------------------------------------------------------------------------
(* parser_advance: comments are skipped, their @targets kept for later. *)
Advance(s) ==
    LET next == IF s.at = Len(out) THEN s.at
                ELSE CHOOSE j \in (s.at + 1) .. Len(out) :
                        /\ out[j].t # "comment"
                        /\ \A k \in (s.at + 1) .. (j - 1) : out[k].t = "comment"
    IN [s EXCEPT !.prev = s.at, !.at = next,
                 !.tg = @ \o FlattenSeq([k \in 1 .. (next - s.at - 1) |-> Comments[out[s.at + k].v]])]

Match(s, t) == IF Tok(s) = t THEN Advance(s) ELSE s
MatchAny(s, T) == IF Tok(s) \in T THEN Advance(s) ELSE s
Expect(s, t) == IF Tok(s) = t THEN Advance(s) ELSE Error(s, "expected")

RECURSIVE SkipNewlines(_)
SkipNewlines(s) == IF Tok(s) = "NEWLINE" THEN SkipNewlines(Advance(s)) ELSE s

RECURSIVE SkipToNewline(_)
SkipToNewline(s) == IF Tok(s) \in {"NEWLINE", "EOF"} THEN s ELSE SkipToNewline(Advance(s))

(* Look-ahead restores the tokens and the tokenizer, but not pending_targets. *)
Restore(s, ahead) == [s EXCEPT !.tg = ahead.tg]
PeekIsEnumSep(s) == Tok(Advance(s)) \in {"|", "NEWLINE", "EOF", "DEDENT", "->"}
-----------------------------------------------------------------------------
(* Expressions. *)

PREC == [none |-> 0, enum |-> 1, arrow |-> 2, pipe |-> 3, coalesce |-> 4, or |-> 5,
         and |-> 6, equality |-> 7, compare |-> 8, add |-> 9, mul |-> 10, power |-> 11,
         cross |-> 12]

InfixPrec(t) ==
    CASE t = "|" -> PREC.enum
      [] t = "->" -> PREC.arrow
      [] t = "|>" -> PREC.pipe
      [] t = "??" -> PREC.coalesce
      [] t = "||" -> PREC.or
      [] t = "&&" -> PREC.and
      [] t \in {"==", "!="} -> PREC.equality
      [] t \in {"<", ">", "<=", ">="} -> PREC.compare
      [] t \in {"+", "-"} -> PREC.add
      [] t \in {"*", "/", "%"} -> PREC.mul
      [] t = "^" -> PREC.power
      [] t = "cross" -> PREC.cross
      [] OTHER -> PREC.none

(* Every keyword is a name inside an expression. *)
NameLike == {"identifier", "x"} \cup Keywords
KindSigils == Sigils \ {"x"}
BlockEnd == {"DEDENT", "EOF"}
BraceEnd == {"}", "EOF"}

(* What the parse functions call one another for: an expression whose operators
   bind at least as tightly as `min', a prefix expression, a declaration. *)
RECURSIVE Parse(_, _, _)
Prec(s, min) == Parse("expression", s, min)
Prefix(s) == Parse("prefix", s, PREC.none)
Expr(s) == Prec(s, PREC.none + 1)

RECURSIVE Primary(_), Infix(_, _, _), Dotted(_, _), EnumItems(_, _), Stages(_, _)
RECURSIVE CommaList(_, _), ListItems(_, _), CompoundItems(_, _), BraceArms(_, _), Block(_, _)

(* do parse_expr while match(,): the arguments of a call, a tuple. *)
CommaListShort(s, acc) ==   \* the last one is forgotten
    LET r == Expr(s) IN
    IF Tok(r.s) = "," THEN CommaList(Advance(r.s), Append(acc, r.e)) ELSE R(r.s, acc)

CommaList(s, acc) ==
    LET r == Expr(s) IN
    IF Tok(r.s) = "," THEN CommaList(Advance(r.s), Append(acc, r.e))
    ELSE R(r.s, Append(acc, r.e))

ListItems(s, acc) ==
    LET s1 == SkipNewlines(s) IN
    IF Tok(s1) = "]" THEN R(s1, acc)
    ELSE LET r == Expr(s1)
             s2 == SkipNewlines(r.s)
         IN IF Tok(s2) = "," THEN ListItems(Advance(s2), Append(acc, r.e))
            ELSE R(s2, Append(acc, r.e))

CompoundItems(s, acc) ==
    LET s1 == IF Tok(s) \in BraceEnd THEN s ELSE SkipNewlines(s) IN
    IF Tok(s) \in BraceEnd \/ Tok(s1) = "}" THEN R(s1, acc)
    ELSE IF Tok(s1) \notin {"identifier", "x"} THEN R(Error(s1, "expected"), acc)
    ELSE LET key == Advance(s1)
             val == IF Tok(key) \in {":", "="} THEN Expr(Advance(key)) ELSE R(key, Nothing)
             item == [n |-> "field", w |-> <<s1.at>>, of |-> <<val.e>>]
         IN CompoundItems(Match(Match(SkipNewlines(val.s), ","), ";"), Append(acc, item))

(* match d { arm, ... }: a missing brace is not an error. *)
BraceArms(s, acc) ==
    LET s1 == IF Tok(s) \in BraceEnd THEN s ELSE SkipNewlines(s) IN
    IF Tok(s1) \in BraceEnd THEN R(s1, acc)
    ELSE LET r == Expr(s1) IN BraceArms(SkipNewlines(Match(r.s, ",")), Append(acc, r.e))

(* The expressions of a block: the arms of a match or of a projection, the
   statements of an execution layer.  An arm is its arrow. *)
Block(s, acc) ==
    LET s1 == IF Tok(s) \in BlockEnd THEN s ELSE SkipNewlines(s) IN
    IF Tok(s1) \in BlockEnd THEN R(Match(s1, "DEDENT"), acc)
    ELSE LET r == Expr(s1) IN Block(SkipNewlines(r.s), Append(acc, r.e))

Dotted(s, w) ==
    IF Tok(s) # "." THEN R(s, w)
    ELSE LET s1 == Advance(s) IN
         IF Tok(s1) \notin {"identifier", "x"} THEN R(s1, w)
         ELSE Dotted(Advance(s1), Append(w, s1.at))

NameOrCall(s) ==
    LET d == Dotted(Advance(s), <<s.at>>) IN
    IF Tok(d.s) # "(" THEN R(d.s, [n |-> "ident", w |-> d.e, of |-> <<>>])
    ELSE LET s1 == Advance(d.s)
             args == IF Tok(s1) = ")" THEN R(s1, <<>>) ELSE CommaList(s1, <<>>)
         IN R(Expect(args.s, ")"), [n |-> "call", w |-> d.e, of |-> args.e])

Paren(s) ==
    LET inner == Expr(Advance(s)) IN
    IF Tok(inner.s) # "," THEN R(Expect(inner.s, ")"), inner.e)
    ELSE LET rest == CommaList(Advance(inner.s), <<inner.e>>)
         IN R(Expect(rest.s, ")"), Node("list", rest.e))

Bracketed(s, close, items, n) == R(Expect(items.s, close), Node(n, items.e))

(* `match d' before the end of the line or a brace; otherwise match is a name. *)
IsMatch(s) == Tok(s) = "identifier" /\ Word1(s) = "match"
MatchHead(s) == LET s1 == Advance(s) IN MatchAny(s1, {"identifier", "x"})
MatchFollows(s) ==
    /\ Tok(Advance(s)) \in {"identifier", "x"}
    /\ Tok(MatchHead(s)) \in {"NEWLINE", "EOF", "DEDENT", "INDENT", "{"}
MatchExpr(s) ==
    LET head == MatchHead(s)
        disc == Leaf("ident", head.prev)
        s1 == SkipNewlines(head)
        arms == IF Tok(head) = "{"
                THEN LET r == BraceArms(Advance(head), <<>>) IN R(Match(r.s, "}"), r.e)
                ELSE IF Tok(s1) = "INDENT" THEN Block(Advance(s1), <<>>) ELSE R(s1, <<>>)
    IN R(arms.s, Node("match", <<disc>> \o arms.e))

(* An unexpected token is reported and consumed, a NEWLINE or DEDENT too. *)
NoExpression(s) == R(Advance(Error(s, "expression")), Leaf("ident", s.at))

Primary(s) ==
    CASE Tok(s) \in {"number", "string"} -> R(Advance(s), Leaf(Tok(s), s.at))
      [] Tok(s) = "_" -> R(Advance(s), Leaf("wildcard", s.at))
      [] Tok(s) \in {"decidable", "undecidable"} ->
            LET s1 == Restore(s, Advance(s)) IN
            IF PeekIsEnumSep(s) THEN NameOrCall(s1)
            ELSE LET r == Primary(Advance(s1)) IN R(r.s, Node("decidability", <<r.e>>))
      [] Tok(s) = "[" -> Bracketed(s, "]", ListItems(Advance(s), <<>>), "list")
      [] Tok(s) = "{" -> Bracketed(s, "}", CompoundItems(SkipNewlines(Advance(s)), <<>>), "compound")
      [] Tok(s) = "(" -> Paren(s)
      [] IsMatch(s) ->
            IF MatchFollows(s) THEN MatchExpr(s) ELSE NameOrCall(Restore(s, MatchHead(s)))
      [] Tok(s) \in NameLike \ {"decidable", "undecidable"} /\ ~IsMatch(s) -> NameOrCall(s)
      [] Tok(s) \in KindSigils -> R(Advance(s), Leaf("ident", s.at))
      [] OTHER -> NoExpression(s)

Keyword(s, t) == IF Tok(s) = t THEN Advance(s) ELSE Error(s, "expected")

(* if c then a else b; unary - and ! bind like the power operator. *)
PrefixExpr(s) ==
    CASE Tok(s) \in {"-", "!"} ->
            LET r == Prec(Advance(s), PREC.power) IN R(r.s, Node("unary", <<r.e>>))
      [] Tok(s) = "if" /\ ~PeekIsEnumSep(s) ->
            LET c == Expr(Advance(Restore(s, Advance(s))))
                a == Expr(Keyword(c.s, "then"))
                b == Expr(Keyword(a.s, "else"))
            IN R(b.s, Node("if", <<c.e, a.e, b.e>>))
      [] OTHER -> Primary(IF Tok(s) = "if" THEN Restore(s, Advance(s)) ELSE s)

(* Only names are members of an enumeration; anything else is dropped. *)
Member(e) == IF e.n = "ident" THEN <<e>> ELSE <<>>
EnumItems(s, acc) ==
    IF Tok(s) # "|" THEN R(s, acc)
    ELSE LET r == Prefix(Advance(s)) IN EnumItems(r.s, acc \o Member(r.e))

Stages(s, acc) ==
    IF Tok(s) # "|>" THEN R(s, acc)
    ELSE LET r == Prefix(Advance(s)) IN Stages(r.s, Append(acc, r.e))

Operator(t) ==
    CASE t = "->" -> "arrow" [] t = "??" -> "coalesce" [] t = "cross" -> "cross" [] OTHER -> "binary"

RightPrecSame(t) == InfixPrec(t)   \* every operator associates to the right

(* How tightly the right operand must bind: ^ associates to the right. *)
RightPrec(t) == IF t = "^" THEN InfixPrec(t) ELSE InfixPrec(t) + 1

Infix(s, left, min) ==
    LET t == Tok(s) IN
    IF InfixPrec(t) < min THEN R(s, left)
    ELSE IF t = "|" THEN LET r == EnumItems(s, Member(left)) IN Infix(r.s, Node("enum", r.e), min)
    ELSE IF t = "|>" THEN LET r == Stages(s, <<left>>) IN Infix(r.s, Node("pipe_chain", r.e), min)
    ELSE LET right == Prec(Advance(s), RightPrec(t))
         IN Infix(right.s, [n |-> Operator(t), w |-> <<s.at>>, of |-> <<left, right.e>>], min)

PrecExpr(s, min) == LET left == Prefix(s) IN Infix(left.s, left.e, min)
-----------------------------------------------------------------------------
(* Bodies of declarations. *)

FieldStarts == {"identifier", "carries", "structure", "preserves", "changes", "opens",
    "governed_by", "invariant", "context", "data", "operator", "output", "cast", "yields",
    "terminus", "failure_modes", "prescribes", "composition", "applies_to",
    "foreground_vector", "background_vector", "min_contrast", "failure_mode",
    "R.k", "xi", "zeta", "omega"}

Field(s) ==
    LET s1 == Advance(s)
        val == IF Tok(s1) \in {":", "="} THEN Expr(Advance(s1)) ELSE R(s1, Nothing)
    IN R(val.s, [n |-> "field", w |-> <<s.at>>, of |-> <<val.e>>])

(* Inside a block a token that starts no field is skipped without a word, and
   an inner block's DEDENT ends the body. *)
RECURSIVE Fields(_, _)
Fields(s, acc) ==
    LET s1 == IF Tok(s) \in BlockEnd THEN s ELSE SkipNewlines(s) IN
    IF Tok(s1) \in BlockEnd THEN R(Match(s1, "DEDENT"), acc)
    ELSE IF Tok(s1) \in FieldStarts
         THEN LET r == Field(s1) IN Fields(SkipNewlines(r.s), Append(acc, r.e))
    ELSE Fields(SkipNewlines(Advance(s1)), acc)

BodyFields(s) == IF Tok(s) = "INDENT" THEN Fields(Advance(s), <<>>) ELSE R(s, <<>>)

ProjectionCases(s) == IF Tok(s) = "INDENT" THEN Block(Advance(s), <<>>) ELSE R(s, <<>>)

ProjectionField(s) ==
    LET s1 == Match(MatchAny(Advance(s), Sigils), ":")
        val == IF Tok(s1) \in {"NEWLINE", "DEDENT", "EOF"} THEN R(s1, Nothing) ELSE Expr(s1)
    IN R(val.s, [n |-> "field", w |-> <<s.at>>, of |-> <<val.e>>])

RECURSIVE ProjectionBody(_, _)
ProjectionBody(s, acc) ==
    LET s1 == IF Tok(s) \in BlockEnd THEN s ELSE SkipNewlines(s)
        More(r, items) == ProjectionBody(SkipNewlines(r.s), acc \o items)
    IN
    IF Tok(s1) \in BlockEnd THEN R(Match(s1, "DEDENT"), acc)
    ELSE IF Tok(s1) = "cases"
         THEN LET r == ProjectionCases(SkipNewlines(Match(Advance(s1), ":")))
              IN More(r, <<Node("arms", r.e)>>)
    ELSE IF Tok(s1) \in {"invariant", "context", "yields"}
         THEN LET r == ProjectionField(s1) IN More(r, <<r.e>>)
    ELSE IF Tok(s1) \in {"identifier", "data", "operator", "output", "cast"}
         THEN LET r == Field(s1) IN More(r, <<r.e>>)
    ELSE More(R(Advance(s1), Nothing), <<>>)

SectionStarts == {"identity", "context", "data", "operator", "output", "cast"}

(* |> at the start of a line continues the statement before it. *)
Chain(prev, stages) == IF prev.n = "pipe_chain" THEN Node("pipe_chain", prev.of \o stages)
                       ELSE Node("pipe_chain", <<prev>> \o stages)

(* The block of a section: inner blocks are counted and flattened into it. *)
RECURSIVE SectionBlock(_, _, _)
SectionBlockDeep(s, depth, acc) ==   \* an inner block is opened and never closed
    LET s1 == IF Tok(s) = "EOF" THEN s ELSE SkipNewlines(s) IN
    CASE Tok(s) = "EOF" -> R(s, acc)
      [] Tok(s) # "EOF" /\ Tok(s1) = "INDENT" -> SectionBlock(Advance(s1), depth + 1, acc)
      [] Tok(s) # "EOF" /\ Tok(s1) = "DEDENT" /\ depth > 1 -> SectionBlock(Advance(s1), depth, acc)
      [] Tok(s) # "EOF" /\ Tok(s1) = "DEDENT" /\ depth = 1 -> R(Advance(s1), acc)
      [] OTHER -> LET r == Expr(s1) IN SectionBlock(SkipNewlines(r.s), depth, Append(acc, r.e))
SectionBlock(s, depth, acc) ==
    LET s1 == IF Tok(s) = "EOF" THEN s ELSE SkipNewlines(s) IN
    CASE Tok(s) = "EOF" -> R(s, acc)
      [] Tok(s) # "EOF" /\ Tok(s1) = "INDENT" -> SectionBlock(Advance(s1), depth + 1, acc)
      [] Tok(s) # "EOF" /\ Tok(s1) = "DEDENT" /\ depth > 1 -> SectionBlock(Advance(s1), depth - 1, acc)
      [] Tok(s) # "EOF" /\ Tok(s1) = "DEDENT" /\ depth = 1 -> R(Advance(s1), acc)
      [] Tok(s1) = "|>" /\ acc # <<>> ->
            LET r == Stages(s1, <<>>) IN
            SectionBlock(SkipNewlines(r.s), depth, Append(Front(acc), Chain(Last(acc), r.e)))
      [] OTHER -> LET r == Expr(s1) IN SectionBlock(SkipNewlines(r.s), depth, Append(acc, r.e))

(* An expression before the end of the line, if there is one. *)
Inline(s, block) ==
    IF Tok(s) \in block THEN R(s, <<>>) ELSE LET r == Expr(s) IN R(r.s, <<r.e>>)

SectionName(s) == MatchAny(MatchAny(Advance(s), Sigils), {"identifier", "x"})
SectionRest(s) == IF Tok(s) = "INDENT" THEN SectionBlock(Advance(s), 1, <<>>) ELSE R(s, <<>>)
Section(s) ==
    LET named == SectionName(s)
        inline == Inline(Match(named, ":"), {"NEWLINE", "INDENT"})
        block == SectionRest(SkipNewlines(inline.s))
    IN R(block.s, [n |-> "section", w |-> <<named.prev>>, of |-> inline.e \o block.e])

RECURSIVE Sections(_, _)
Sections(s, acc) ==
    LET s1 == IF Tok(s) \in BlockEnd THEN s ELSE SkipNewlines(s) IN
    IF Tok(s1) \in BlockEnd THEN R(Match(s1, "DEDENT"), acc)
    ELSE IF Tok(s1) \in SectionStarts
         THEN LET r == Section(s1) IN Sections(r.s, Append(acc, r.e))
    ELSE Sections(SkipNewlines(Advance(s1)), acc)
-----------------------------------------------------------------------------
(* Declarations.  A handler maps the state after the keyword to [s, e]; NULL is
   the answer of one that found no name. *)

NULL == Node("NULL", <<>>)

(* A declaration: its type, its name (0: none), its parts. *)
Declaration(type, name, parts) == [n |-> type, w |-> <<name>>, of |-> parts]
Declared(r, name, type) == R(r.s, Declaration(type, name, r.e))

(* Tokens at which synchronize stops: not every declaration starts with one. *)
Starters == (Sigils \cup Declarers) \
    {"magnitude", "vector", "zero", "import", "journey", "program", "graphics_rule"}

RECURSIVE Synchronize(_)
SynchronizeToLine(s) ==   \* only the end of a line or block is looked for
    IF Tok(s) \in {"NEWLINE", "DEDENT"} THEN Advance(s)
    ELSE IF Tok(s) = "EOF" THEN s ELSE Synchronize(Advance(s))
Synchronize(s) ==
    CASE Tok(s) \in {"NEWLINE", "DEDENT"} -> Advance(s)
      [] Tok(s) \in Starters \cup {"EOF"} -> s
      [] OTHER -> Synchronize(Advance(s))

NoName(s) == R(Synchronize(Error(s, "name")), NULL)
Value(s) == IF Tok(s) = ":" THEN LET r == Expr(Advance(s)) IN R(r.s, <<r.e>>) ELSE R(s, <<>>)

(* unit, magnitude, vector, import, zero: a name and no more. *)
Named(s, type) == R(Advance(s), Declaration(type, s.at, <<>>))

(* dimension, containment, and the values with a kind. *)
Valued(s, type) == Declared(Value(Advance(s)), s.at, type)

(* dependency, morphism: a value, then a block of fields. *)
ValuedBody(s, type) ==
    LET v == Value(Advance(s))
        b == BodyFields(SkipNewlines(v.s))
    IN R(b.s, Declaration(type, s.at, v.e \o b.e))

(* journey, program, graphics_rule: a block of fields. *)
Bodied(s, type) == Declared(BodyFields(SkipNewlines(Match(Advance(s), ":"))), s.at, type)

(* projection, traversal: what follows the colon is skipped. *)
Header(s) == SkipNewlines(IF Tok(s) = ":" THEN SkipToNewline(Advance(s)) ELSE s)
ProjectionBlock(s) == IF Tok(s) = "INDENT" THEN ProjectionBody(Advance(s), <<>>) ELSE R(s, <<>>)
TraversalBlock(s) == IF Tok(s) = "INDENT" THEN Sections(Advance(s), <<>>) ELSE R(s, <<>>)
Projection(s, type) == Declared(ProjectionBlock(Header(Advance(s))), s.at, type)
Traversal(s, type) == Declared(TraversalBlock(Header(Advance(s))), s.at, type)

TypeNames == {"identifier", "unit", "magnitude", "vector", "dimension"}
RECURSIVE Params(_, _)
Params(s, acc) ==
    LET s1 == SkipNewlines(s) IN
    IF Tok(s1) \notin {"identifier", "x"} THEN R(s1, acc)
    ELSE LET s2 == Advance(s1)
             ty == SkipNewlines(Match(s2, ":"))
             typed == IF Tok(s2) # ":" THEN s2
                      ELSE IF Tok(ty) \in TypeNames THEN Advance(ty) ELSE Error(ty, "expected")
             acc1 == Append(acc, [Leaf("param", s1.at) EXCEPT !.w = IF Tok(s2) = ":" THEN <<s1.at, ty.at>> ELSE @])
         IN IF Tok(typed) = "," THEN Params(Advance(typed), acc1) ELSE R(typed, acc1)

(* meihua, zhulin, songqiao: an indented body replaces one on the line. *)
ExecParams(s) ==
    IF Tok(s) # "(" THEN R(s, <<>>)
    ELSE LET r == Params(Advance(s), <<>>) IN R(Expect(r.s, ")"), r.e)
ExecLine(s) == IF Tok(s) = ":" THEN Inline(Advance(s), {"NEWLINE"}) ELSE R(s, <<>>)
ExecBody(s, inline) == IF Tok(s) = "INDENT" THEN Block(Advance(s), <<>>) ELSE R(s, inline)
ExecRest(params) ==
    LET inline == ExecLine(params.s)
        body == ExecBody(SkipNewlines(inline.s), inline.e)
    IN R(body.s, params.e \o body.e)
ExecLayer(s, type) == Declared(ExecRest(ExecParams(Advance(s))), s.at, type)

RECURSIVE NameList(_, _)
NameList(s, acc) ==
    LET s1 == SkipNewlines(s) IN
    IF Tok(s1) \notin {"identifier", "x"} THEN R(s1, acc)
    ELSE LET s2 == Advance(s1)
             acc1 == Append(acc, Leaf("name", s1.at))
         IN IF Tok(s2) = "," THEN NameList(Advance(s2), acc1) ELSE R(s2, acc1)

(* A relation of fewer than two names is reported and still declared. *)
Relation(s, type) ==
    LET names == NameList(s, <<>>)
        s1 == IF Len(names.e) < 2 THEN ErrorAtPrevious(names.s, "expected") ELSE names.s
    IN R(s1, Declaration(type, IF names.e = <<>> THEN 0 ELSE names.e[1].w[1], names.e))

Relations == {"incommensurable", "commensurable", "perpendicular"}

(* keyword_dispatch: NULL for anything that declares nothing. *)
Dispatch(s, kw) ==
    CASE kw \notin Declarers -> R(s, NULL)
      [] kw \in Relations -> Relation(s, kw)
      [] kw \in Declarers \ Relations /\ Tok(s) # "identifier" -> NoName(s)
      [] OTHER ->
           CASE kw \in {"unit", "magnitude", "vector", "import", "zero"} -> Named(s, kw)
             [] kw \in {"dimension", "containment"} -> Valued(s, kw)
             [] kw \in {"dependency", "morphism"} -> ValuedBody(s, kw)
             [] kw \in {"journey", "program", "graphics_rule"} -> Bodied(s, kw)
             [] kw = "projection" -> Projection(s, kw)
             [] kw = "traversal" -> Traversal(s, kw)
             [] OTHER -> ExecLayer(s, kw)

KindedValue(s) == IF Tok(s) = "identifier" THEN Valued(s, "kinded") ELSE NoName(s)

(* Keywords whose handler has already reported the failure. *)
AlreadyReported == Declarers \ {"journey", "program", "graphics_rule"}

Dispatched(r, kw) ==
    IF r.e # NULL \/ kw \in AlreadyReported THEN r
    ELSE R(Synchronize(ErrorAtPrevious(r.s, "top level")), NULL)

(* parse_declaration, when the text has not ended. *)
ParseDeclaration(s) ==
    IF Tok(s) \in Sigils THEN KindedValue(Advance(s))
    ELSE Dispatched(Dispatch(Advance(s), Tok(s)), Tok(s))

Parse(what, s, min) ==
    CASE what = "declaration" -> ParseDeclaration(s)
      [] what = "expression" -> PrecExpr(s, min)
      [] what = "prefix" -> PrefixExpr(s)
-----------------------------------------------------------------------------
ParserInit == Init /\ parser = [at |-> 0, prev |-> 0, tg |-> <<>>, errs |-> <<>>] /\ decls = <<>>

Read == LexerNext /\ UNCHANGED <<parser, decls>>

(* parser_init: the first token that is not a comment. *)
Prime == Done /\ parser.at = 0 /\ parser' = Advance(parser) /\ UNCHANGED <<lexVars, decls>>

Parsing == Done /\ parser.at # 0 /\ Tok(parser) # "EOF"
Parsed == Done /\ parser.at # 0 /\ Tok(parser) = "EOF"

(* What parser_parse does with the answer r to the keyword at kw. *)
Push(r, kw) ==
    IF r.e = NULL THEN parser' = r.s /\ UNCHANGED decls
    ELSE /\ parser' = [r.s EXCEPT !.tg = <<>>]
         /\ decls' = Append(decls, [n |-> r.e.n, name |-> r.e.w[1], of |-> r.e.of,
                                    kw |-> kw, targets |-> r.s.tg])

(* One turn of the loop of parser_parse. *)
Declare ==
    /\ Parsing
    /\ LET s == SkipNewlines(parser) IN
       IF Tok(s) = "EOF" THEN parser' = s /\ UNCHANGED decls
       ELSE Push(Parse("declaration", s, PREC.none), s.at)
    /\ UNCHANGED lexVars

Next == Read \/ Prime \/ Declare

Spec == ParserInit /\ [][Next]_vars
-----------------------------------------------------------------------------
Words == UNION {ToSet(Lines[i].words) : i \in DOMAIN Lines}

(* The lines that look like a declaration at the outer level. *)
DeclarationLines ==
    {i \in DOMAIN Lines :
        LET ws == Lines[i].words IN
        /\ MeasureIndent(Lines[i]) = 0 /\ Len(ws) >= 2
        /\ Type(ws[1]) \in Sigils \cup Declarers /\ Type(ws[2]) = "identifier"}
FirstToken(i) == CHOOSE k \in DOMAIN out : out[k].ln = i /\ out[k].v # "" /\
                    \A j \in 1 .. (k - 1) : out[j].ln # i \/ out[j].v = ""
DeclaredOnce(i) == Cardinality({d \in DOMAIN decls : decls[d].kw = FirstToken(i)}) = 1

Accepted == Parsed /\ parser.errs = <<>> /\ over = 0

(* A text without diagnostics says what it seems to say: each line that looks
   like a declaration is one, once; none was read as part of the one before it.
   It takes for granted that the brace of a match is closed: the code does not
   report one that is not, and reads the rest of the text as its arms
   (parser_parse, the handlers, parse_primary). *)
MatchBracesClosed ==
    LET Count(c) == Cardinality({k \in DOMAIN out : out[k].t = c})
    IN "match" \in Words => Count("{") = Count("}")
AcceptedIsComplete ==
    Accepted /\ MatchBracesClosed => \A i \in DeclarationLines : DeclaredOnce(i)

(* After any error, wherever it leaves the parser (inside an expression, at a
   line's end, in a block whose DEDENT it has consumed), a later line that
   begins with a declaration keyword synchronize knows is still declared.
   Brackets, conditionals and lists left open read on into the next lines. *)
StartersSurvive ==
    Parsed /\ over = 0 /\ Words \cap {"(", "[", "{", "if", ","} = {} =>
        \A i \in DeclarationLines : Type(Lines[i].words[1]) \in Starters => DeclaredOnce(i)

RECURSIVE WordsOf(_)
WordsOf(e) == ToSet(e.w) \cup UNION {WordsOf(e.of[i]) : i \in DOMAIN e.of}
KeptBy(d) == {d.kw, d.name} \cup UNION {WordsOf(d.of[i]) : i \in DOMAIN d.of}

(* No operand of an accepted declaration is lost on the way into its tree.
   Headers of projections and traversals are skipped on purpose, an execution
   layer's block replaces its line, and a member of an enumeration that is not
   a name is dropped (parse_prec, parse_primary, parse_name_list). *)
NothingDropped ==
    Accepted /\ MatchBracesClosed =>
        \A i \in DeclarationLines, k \in DOMAIN out :
            (/\ Type(Lines[i].words[1]) \notin {"projection", "traversal", "journey", "program",
                                               "graphics_rule", "meihua", "zhulin", "songqiao"}
             /\ "|" \notin ToSet(Lines[i].words)
             /\ out[k].ln = i /\ out[k].t \in {"identifier", "number", "string"}
             /\ out[k].v # "match")
            => \E d \in DOMAIN decls : k \in KeptBy(decls[d])

Infixes == {"binary", "arrow", "coalesce", "cross"}
Tightness(e) == IF e.n \in Infixes THEN InfixPrec(out[e.w[1]].t) ELSE PREC.cross + 1
RECURSIVE WellBound(_)
WellBound(e) ==
    /\ \A i \in DOMAIN e.of : WellBound(e.of[i])
    /\ e.n \in Infixes =>
          LET p == Tightness(e) IN
          IF out[e.w[1]].t = "^" THEN Tightness(e.of[1]) > p /\ Tightness(e.of[2]) >= p
          ELSE Tightness(e.of[1]) >= p /\ Tightness(e.of[2]) > p

(* Operators bind as their levels say, equals to the left and ^ to the right,
   in every tree of a text without parentheses.  The left operand of an
   operator may also be a whole enumeration or pipe chain, whose members the
   code reads without regard to precedence (parse_prec, ordbok/compiler). *)
PrecedenceRespected ==
    Parsed /\ "(" \notin Words => \A d \in DOMAIN decls :
        \A i \in DOMAIN decls[d].of : WellBound(decls[d].of[i])

(* parser.h: an @targets annotation is attached to the next declaration.  Not
   true of the code, so in no run: a handler that looks for a body reads past
   the comment and its declaration takes the annotation. *)
TargetsGoToTheNext ==
    Accepted => \A d \in DOMAIN decls : decls[d].targets = FlattenSeq(
        [k \in DOMAIN out |->
            IF /\ out[k].t = "comment" /\ k < decls[d].kw
               /\ \A e \in 1 .. (d - 1) : decls[e].kw < k
               /\ ~\E e \in 1 .. (d - 1) : decls[e].kw > k
               /\ \A j \in (k + 1) .. (decls[d].kw - 1) : out[j].t \in {"NEWLINE", "comment"}
            THEN Comments[out[k].v] ELSE <<>>])
=============================================================================
