------------------------------- MODULE Lexer -------------------------------
(***************************************************************************)
(* The tokenizer of .szh text (src/src/lexer.c).  A text is a sequence of  *)
(* lines; a line has the blanks it begins with and its lexemes.  What a    *)
(* lexeme is made of is left out: `Type' is the table that gives it its    *)
(* token type.  What is kept is everything that decides which tokens the   *)
(* parser sees and in which order: the stack of indentations, the INDENT   *)
(* and DEDENT tokens it gives rise to, blank and comment lines, and the    *)
(* DEDENTs owed at the end.  One step is one call of lexer_next.           *)
(***************************************************************************)
EXTENDS Integers, Sequences

CONSTANTS
    Texts,      \* the texts to read: [lines, newline]; a line: [spaces, tabs, words]
    Comments,   \* a function: the comments, each with the targets it announces
    MaxDepth    \* the room in indent_stack beyond its base: 127

TextLine == [spaces : Nat, tabs : Nat, words : Seq(STRING)]

ASSUME LexerAssumption ==
    /\ MaxDepth \in Nat
    /\ \A x \in Texts : x.lines \in Seq(TextLine) /\ x.newline \in BOOLEAN

VARIABLES
    text,       \* source
    line, pos,  \* current: the line, and the lexeme of it that is next
    atStart,    \* at_line_start
    indents,    \* indent_stack[1 .. indent_depth]; indent_stack[0] is 0
    pending,    \* pending_dedents
    out,        \* the tokens given so far
    opened, closed,  \* how many of them are INDENTs and DEDENTs
    over        \* how many INDENTs found the stack full

lexVars == <<text, line, pos, atStart, indents, pending, out, opened, closed, over>>

Sigils == {"xi", "zeta", "omega", "R.k", "dR.k", "x"}
Declarers == {"unit", "zero", "magnitude", "vector", "dimension", "dependency",
    "containment", "morphism", "projection", "traversal", "incommensurable",
    "commensurable", "perpendicular", "meihua", "zhulin", "songqiao", "import",
    "journey", "program", "graphics_rule"}
Keywords == Declarers \cup {"invariant", "context", "data", "operator", "output",
    "cast", "identity", "yields", "cases", "from", "through", "yield", "carries",
    "structure", "opens", "governed_by", "preserves", "changes", "decidable",
    "undecidable", "terminus", "failure_modes", "prescribes", "composition",
    "applies_to", "foreground_vector", "background_vector", "min_contrast",
    "failure_mode", "if", "then", "else"}
Punctuation == {":", ",", ".", "(", ")", "[", "]", "{", "}", ";", "*", "+", "-",
    "/", "%", "^", "!", "!=", "<", "<=", ">", ">=", "=", "==", "=>", "->", "|",
    "|>", "||", "&&", "?", "??", "_", "cross"}
Numbers == {"0", "1", "2"}
Strings == {"'s'", "'t'"}
Illegal == {"&", "'open", "@"}     \* a lone &, a string without its end, any other character

Reserved == Sigils \cup Keywords \cup Punctuation

(* check_keyword, the kind sigils, and the switch on the first character. *)
Type(w) ==
    IF w \in Reserved THEN w
    ELSE IF w \in Numbers THEN "number"
    ELSE IF w \in Strings THEN "string"
    ELSE IF w \in Illegal THEN "error"
    ELSE IF w \in DOMAIN Comments THEN "comment"
    ELSE "identifier"

Lines == text.lines
AtEnd == \/ line > Len(Lines)
         \/ line = Len(Lines) /\ ~text.newline /\ pos > Len(Lines[line].words)

(* Spaces, then tabs of four; spaces after a tab do not count. *)
MeasureIndent(l) == l.spaces + 4 * l.tabs

(* A blank or comment-only line leaves the indentation alone. *)
Blank(l) == l.words = <<>> \/ l.words[1] \in DOMAIN Comments

Top == IF indents = <<>> THEN 0 ELSE indents[Len(indents)]

(* How much of the stack survives a line indented by n. *)
Kept(n) ==
    CHOOSE d \in 0 .. Len(indents) :
        /\ d = 0 \/ indents[d] <= n
        /\ \A e \in (d + 1) .. Len(indents) : indents[e] > n

NoText == ""      \* what INDENT, DEDENT, NEWLINE and EOF are spelled
Classes == {"number", "string", "error", "comment", "identifier"}
Layout == {"INDENT", "DEDENT", "NEWLINE", "EOF"}
Token == [t : Reserved \cup Classes \cup Layout, v : STRING \cup {NoText}, ln : Nat]
Give(t, v) == out' = Append(out, [t |-> t, v |-> v, ln |-> line'])
GiveIndent == Give("INDENT", NoText) /\ opened' = opened + 1 /\ UNCHANGED closed
GiveDedent == Give("DEDENT", NoText) /\ closed' = closed + 1 /\ UNCHANGED opened
GiveOther(t, v) == Give(t, v) /\ UNCHANGED <<opened, closed>>

Init ==
    /\ text \in Texts
    /\ line = 1 /\ pos = 1 /\ atStart = TRUE
    /\ indents = <<>> /\ pending = 0
    /\ out = <<>> /\ opened = 0 /\ closed = 0 /\ over = 0

Done == out # <<>> /\ out[Len(out)].t = "EOF"

(* A DEDENT that is still owed comes before anything else. *)
PendingDedent ==
    /\ ~Done /\ pending > 0
    /\ pending' = pending - 1
    /\ UNCHANGED <<text, line, pos, atStart, indents, over>>
    /\ GiveDedent

Measured == pending = 0 /\ atStart /\ ~AtEnd /\ ~Blank(Lines[line])

(* A deeper line opens a block, noted while the stack has room for it. *)
Open ==
    /\ ~Done /\ Measured
    /\ LET n == MeasureIndent(Lines[line]) IN
       /\ n > Top
       /\ IF Len(indents) < MaxDepth
          THEN indents' = Append(indents, n) /\ UNCHANGED over
          ELSE over' = over + 1 /\ UNCHANGED indents
    /\ atStart' = FALSE
    /\ UNCHANGED <<text, line, pos, pending>>
    /\ GiveIndent

(* A shallower line closes every block deeper than itself, whether or not it
   meets one of the indentations on the stack. *)
Close ==
    /\ ~Done /\ Measured
    /\ LET n == MeasureIndent(Lines[line]) IN
       /\ n < Top
       /\ indents' = SubSeq(indents, 1, Kept(n))
       /\ pending' = Len(indents) - Kept(n) - 1
    /\ atStart' = FALSE
    /\ UNCHANGED <<text, line, pos, over>>
    /\ GiveDedent

Scanning ==
    /\ ~Done /\ pending = 0
    /\ Measured => MeasureIndent(Lines[line]) = Top

CloseAllTwice ==   \* the DEDENT given is counted as pending too
    /\ Scanning /\ AtEnd /\ indents # <<>>
    /\ pending' = Len(indents)
    /\ indents' = <<>>
    /\ UNCHANGED <<text, line, pos, atStart, over>>
    /\ GiveDedent

(* At the end every open block is closed: one DEDENT now, the rest pending. *)
CloseAll ==
    /\ Scanning /\ AtEnd /\ indents # <<>>
    /\ pending' = Len(indents) - 1
    /\ indents' = <<>>
    /\ UNCHANGED <<text, line, pos, atStart, over>>
    /\ GiveDedent

EndOfFile ==
    /\ Scanning /\ AtEnd /\ indents = <<>>
    /\ UNCHANGED <<text, line, pos, atStart, indents, pending, over>>
    /\ GiveOther("EOF", NoText)

(* The line noted in a NEWLINE token is already the next one. *)
Newline ==
    /\ Scanning /\ ~AtEnd /\ pos > Len(Lines[line].words)
    /\ atStart' = TRUE /\ line' = line + 1 /\ pos' = 1
    /\ GiveOther("NEWLINE", NoText)
    /\ UNCHANGED <<text, indents, pending, over>>

Word ==
    /\ Scanning /\ ~AtEnd /\ pos <= Len(Lines[line].words)
    /\ atStart' = FALSE /\ pos' = pos + 1
    /\ UNCHANGED <<text, line, indents, pending, over>>
    /\ LET w == Lines[line].words[pos] IN GiveOther(Type(w), w)

LexerNext == PendingDedent \/ Open \/ Close \/ CloseAll \/ EndOfFile \/ Newline \/ Word

LexerSpec == Init /\ [][LexerNext]_lexVars
-----------------------------------------------------------------------------
TypeOK ==
    /\ text \in Texts
    /\ line \in Nat \ {0} /\ pos \in Nat \ {0}
    /\ indents \in Seq(Nat)
    /\ pending \in Nat /\ opened \in Nat /\ closed \in Nat /\ over \in Nat
    /\ out \in Seq(Token)

(* The parser ends a block at each DEDENT, so a DEDENT too many or too few
   puts everything that follows into the wrong block.  No DEDENT comes before
   its INDENT, and when the text ends every block has been closed, except
   those the stack had no room for (lexer_next, pending_dedents). *)
BlocksBalance ==
    /\ closed <= opened
    /\ Done => opened = closed + over

(* The stack holds growing, positive indentations: what it means for a line to
   be in the block of another (indent_stack in lexer_next). *)
IndentsGrow ==
    \A d \in 1 .. Len(indents) :
        /\ indents[d] > 0
        /\ d > 1 => indents[d] > indents[d - 1]
=============================================================================
