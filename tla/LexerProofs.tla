---------------------------- MODULE LexerProofs ----------------------------
(***************************************************************************)
(* What the tokenizer promises of its INDENT and DEDENT tokens, for every  *)
(* text and every size of the stack.  The inductive invariant counts: every *)
(* INDENT given is a DEDENT given, a DEDENT owed (pending), a block still  *)
(* on the stack, or one the stack had no room for.                         *)
(***************************************************************************)
EXTENDS Lexer, FiniteSetTheorems, SequenceTheorems, WellFoundedInduction, TLAPS

Accounted == opened = closed + pending + Len(indents) + over
ClosedAtEnd == Done => pending = 0 /\ indents = <<>>
LexInv == TypeOK /\ IndentsGrow /\ Accounted /\ ClosedAtEnd

(* A set of numbers up to n that is not empty has a greatest one. *)
LEMMA Greatest ==
  ASSUME NEW n \in Nat, NEW S \in SUBSET (0 .. n), S # {}
  PROVE  \E k \in S : \A j \in S : j <= k
<1> DEFINE T == {n - k : k \in S}
<1>1. T \subseteq Nat /\ T # {}
  <2>1. \A k \in S : k \in 0 .. n
    OBVIOUS
  <2>2. \A k \in S : n - k \in Nat
    BY <2>1
  <2> QED BY <2>2
<1>2. PICK t \in T : \A j \in T : ~(<<j, t>> \in OpToRel(<, Nat))
  <2> HIDE DEF T
  <2> QED BY <1>1, NatLessThanWellFounded, WFMin
<1>3. PICK k \in S : t = n - k
  BY <1>2
<1>4. \A j \in T : ~(j < t)
  BY <1>1, <1>2 DEF OpToRel
<1>5. \A j \in S : ~(n - j < n - k)
  BY <1>3, <1>4
<1>6. \A j \in S : j \in 0 .. n
  OBVIOUS
<1>7. ASSUME NEW j \in S PROVE j <= k
  <2>1. j \in Nat /\ k \in Nat /\ ~(n - j < n - k)
    BY <1>5, <1>6
  <2> QED BY <2>1
<1> QED BY <1>7

(* What survives of the stack is a part of it, and what goes is deeper. *)
LEMMA KeptFacts ==
  ASSUME indents \in Seq(Nat), NEW n \in Nat
  PROVE  /\ Kept(n) \in 0 .. Len(indents)
         /\ Kept(n) = 0 \/ indents[Kept(n)] <= n
<1> DEFINE S == {d \in 0 .. Len(indents) : d = 0 \/ indents[d] <= n}
<1>0. Len(indents) \in Nat
  OBVIOUS
<1>1. S \in SUBSET (0 .. Len(indents)) /\ 0 \in S
  BY <1>0
<1>2. PICK k \in S : \A j \in S : j <= k
  <2> HIDE DEF S
  <2> QED BY <1>0, <1>1, Greatest
<1>3. ASSUME NEW e \in (k + 1) .. Len(indents) PROVE indents[e] > n
  <2>1. e \in 1 .. Len(indents) /\ e > k /\ k \in Nat
    BY <1>0, <1>1, <1>2
  <2>2. indents[e] \in Nat
    BY <2>1
  <2>3. e \notin S
    <3>1. \A j \in S : j <= k
      BY <1>2
    <3> HIDE DEF S
    <3> QED BY <2>1, <3>1
  <2> QED BY <2>1, <2>2, <2>3
<1>4. k \in 0 .. Len(indents) /\ (k = 0 \/ indents[k] <= n)
  BY <1>2
<1> HIDE DEF S
<1> QED BY <1>3, <1>4 DEF Kept

(* A line that is measured is a line of the text, with an indentation. *)
LEMMA MeasuredFacts ==
  ASSUME TypeOK, Measured
  PROVE  MeasureIndent(Lines[line]) \in Nat
<1>1. Lines \in Seq(TextLine)
  BY LexerAssumption DEF TypeOK, Lines
<1>2. line \in 1 .. Len(Lines)
  BY <1>1 DEF TypeOK, Measured, AtEnd
<1>3. Lines[line] \in TextLine
  BY <1>1, <1>2
<1>4. Lines[line].spaces \in Nat /\ Lines[line].tabs \in Nat
  BY <1>3 DEF TextLine
<1> QED BY <1>4 DEF MeasureIndent

LEMMA TopFacts ==
  ASSUME indents \in Seq(Nat)
  PROVE  /\ Top \in Nat
         /\ \A n \in Nat : n < Top => Len(indents) > 0 /\ Top = indents[Len(indents)]
BY DEF Top

(* Giving a token other than EOF does not end the text. *)
LEMMA GiveFacts ==
  ASSUME TypeOK, NEW tok \in Token, tok.t # "EOF", out' = Append(out, tok)
  PROVE  out' \in Seq(Token) /\ ~Done'
<1>1. out \in Seq(Token)
  BY DEF TypeOK
<1> HIDE DEF Token
<1>2. out' \in Seq(Token) /\ out' # <<>> /\ out'[Len(out')] = tok
  BY <1>1
<1> QED BY <1>2 DEF Done

(* No word is the end of the text. *)
LEMMA ReservedFacts == "EOF" \notin Reserved
<1>1. "EOF" \notin Sigils
  BY DEF Sigils
<1>2. "EOF" \notin Declarers
  BY DEF Declarers
<1>3. "EOF" \notin Keywords
  BY <1>2 DEF Keywords
<1>4. "EOF" \notin Punctuation
  BY DEF Punctuation
<1> QED BY <1>1, <1>3, <1>4 DEF Reserved

LEMMA TypeFacts ==
  ASSUME NEW w
  PROVE  Type(w) \in Reserved \cup Classes /\ Type(w) # "EOF"
<1>1. CASE w \in Reserved
  <2>1. Type(w) = w
    BY <1>1 DEF Type
  <2> QED BY <1>1, <2>1, ReservedFacts
<1>2. CASE w \notin Reserved
  <2>1. Type(w) \in Classes
    BY <1>2 DEF Type, Classes
  <2>2. "EOF" \notin Classes
    BY DEF Classes
  <2> QED BY <2>1, <2>2
<1> QED BY <1>1, <1>2

(* The invariant holds at the beginning. *)
LEMMA LexInvInit == Init => LexInv
BY DEF Init, LexInv, TypeOK, IndentsGrow, Accounted, ClosedAtEnd, Done

LEMMA LexInvPendingDedent == LexInv /\ PendingDedent => LexInv'
<1> SUFFICES ASSUME LexInv, PendingDedent PROVE LexInv'
  OBVIOUS
<1> USE DEF LexInv
<1> DEFINE tok == [t |-> "DEDENT", v |-> NoText, ln |-> line']
<1>0. line' \in Nat
  BY DEF PendingDedent, TypeOK
<1>1. out' = Append(out, tok)
  BY DEF PendingDedent, GiveDedent, Give
<1>2. out' \in Seq(Token) /\ ~Done'
  <2>1. tok \in Token /\ tok.t # "EOF"
    BY <1>0 DEF Token, Layout
  <2> HIDE DEF tok
  <2> QED BY <1>1, <2>1, GiveFacts
<1>3. TypeOK' /\ Accounted'
  <2>1. /\ pending > 0 /\ pending' = pending - 1 /\ closed' = closed + 1
        /\ UNCHANGED <<text, line, pos, indents, over, opened>>
    BY DEF PendingDedent, GiveDedent
  <2> QED BY <1>2, <2>1 DEF TypeOK, Accounted
<1>4. IndentsGrow'
  BY DEF PendingDedent, IndentsGrow
<1> QED BY <1>2, <1>3, <1>4 DEF ClosedAtEnd

LEMMA LexInvOpen == LexInv /\ Open => LexInv'
<1> SUFFICES ASSUME LexInv, Open PROVE LexInv'
  OBVIOUS
<1> USE DEF LexInv
<1> DEFINE n == MeasureIndent(Lines[line])
<1>0. n \in Nat /\ n > Top
  BY MeasuredFacts DEF Open
<1> DEFINE tok == [t |-> "INDENT", v |-> NoText, ln |-> line']
<1>11. line' \in Nat
  BY DEF Open, TypeOK
<1>1. out' = Append(out, tok)
  BY DEF Open, GiveIndent, Give
<1>2. out' \in Seq(Token) /\ ~Done'
  <2>1. tok \in Token /\ tok.t # "EOF"
    BY <1>11 DEF Token, Layout
  <2> HIDE DEF tok
  <2> QED BY <1>1, <2>1, GiveFacts
<1>3. CASE Len(indents) < MaxDepth
  <2>1. indents' = Append(indents, n) /\ over' = over
    BY <1>3 DEF Open
  <2> HIDE DEF n
  <2>2. indents' \in Seq(Nat) /\ Len(indents') = Len(indents) + 1
    BY <1>0, <2>1 DEF TypeOK
  <2>3. TypeOK' /\ Accounted'
    <3>1. opened' = opened + 1 /\ UNCHANGED <<text, line, pos, pending, closed>>
      BY DEF Open, GiveIndent
    <3> QED BY <1>2, <2>1, <2>2, <3>1 DEF TypeOK, Accounted
  <2>4. IndentsGrow'
    <3> SUFFICES ASSUME NEW d \in DOMAIN indents'
                 PROVE  indents'[d] > 0 /\ (d > 1 => indents'[d] > indents'[d - 1])
      BY DEF IndentsGrow
    <3>1. indents \in Seq(Nat) /\ Len(indents) \in Nat /\ d \in 1 .. Len(indents) + 1
      BY <2>2 DEF TypeOK
    <3>2. CASE d <= Len(indents)
      <4>1. d \in DOMAIN indents /\ indents'[d] = indents[d]
        BY <2>1, <3>1, <3>2
      <4>2. d > 1 => d - 1 \in DOMAIN indents /\ indents'[d - 1] = indents[d - 1]
        BY <2>1, <3>1, <3>2
      <4> QED BY <4>1, <4>2 DEF IndentsGrow
    <3>3. CASE d = Len(indents) + 1
      <4>1. indents'[d] = n
        BY <2>1, <3>1, <3>3
      <4>2. d > 1 => indents'[d - 1] = indents[Len(indents)] /\ indents # <<>>
        BY <2>1, <3>1, <3>3
      <4>3. Top \in Nat /\ (indents # <<>> => Top = indents[Len(indents)])
        BY <3>1 DEF Top
      <4> QED BY <1>0, <4>1, <4>2, <4>3
    <3> QED BY <3>1, <3>2, <3>3
  <2> QED BY <1>2, <2>3, <2>4 DEF ClosedAtEnd
<1>4. CASE ~(Len(indents) < MaxDepth)
  <2>1. indents' = indents /\ over' = over + 1
    BY <1>4 DEF Open
  <2>2. TypeOK' /\ Accounted'
    <3>1. opened' = opened + 1 /\ UNCHANGED <<text, line, pos, pending, closed>>
      BY DEF Open, GiveIndent
    <3> QED BY <1>2, <2>1, <3>1 DEF TypeOK, Accounted
  <2>3. IndentsGrow'
    BY <2>1 DEF IndentsGrow
  <2> QED BY <1>2, <2>2, <2>3 DEF ClosedAtEnd
<1> QED BY <1>3, <1>4

LEMMA LexInvClose == LexInv /\ Close => LexInv'
<1> SUFFICES ASSUME LexInv, Close PROVE LexInv'
  OBVIOUS
<1> USE DEF LexInv
<1> DEFINE n == MeasureIndent(Lines[line])
           k == Kept(n)
<1>0. n \in Nat /\ n < Top
  BY MeasuredFacts DEF Close
<1> DEFINE tok == [t |-> "DEDENT", v |-> NoText, ln |-> line']
<1>11. line' \in Nat
  BY DEF Close, TypeOK
<1>1. out' = Append(out, tok)
  BY DEF Close, GiveDedent, Give
<1>2. out' \in Seq(Token) /\ ~Done'
  <2>1. tok \in Token /\ tok.t # "EOF"
    BY <1>11 DEF Token, Layout
  <2> HIDE DEF tok
  <2> QED BY <1>1, <2>1, GiveFacts
<1>3. indents \in Seq(Nat) /\ Len(indents) \in Nat
  BY DEF TypeOK
<1>4. Len(indents) > 0 /\ indents[Len(indents)] > n
  BY <1>0, <1>3, TopFacts
<1>5. k \in 0 .. Len(indents) /\ (k = 0 \/ indents[k] <= n)
  BY <1>0, <1>3, KeptFacts
<1>6. indents' = SubSeq(indents, 1, k) /\ pending' = Len(indents) - k - 1
  BY DEF Close
<1> HIDE DEF n, k
<1>7. k \in 0 .. (Len(indents) - 1)
  <2>1. indents[Len(indents)] \in Nat
    BY <1>3, <1>4
  <2> QED BY <1>0, <1>3, <1>4, <1>5, <2>1
<1>8. /\ indents' \in Seq(Nat) /\ Len(indents') = k
      /\ \A d \in 1 .. k : indents'[d] = indents[d]
  BY <1>3, <1>6, <1>7
<1>9. TypeOK' /\ Accounted'
  <2>1. pending = 0
    BY DEF Close, Measured
  <2>2. closed' = closed + 1 /\ UNCHANGED <<text, line, pos, over, opened>>
    BY DEF Close, GiveDedent
  <2>3. pending' \in Nat /\ pending' + Len(indents') = Len(indents) - 1
    <3>1. pending' = Len(indents) - k - 1
      BY <1>6
    <3>2. Len(indents') = k
      BY <1>8
    <3>3. Len(indents) \in Nat
      BY <1>3
    <3> QED BY <1>7, <3>1, <3>2, <3>3
  <2>4. TypeOK'
    BY <1>2, <1>8, <2>2, <2>3 DEF TypeOK
  <2>5. Accounted'
    <3>1. opened \in Nat /\ closed \in Nat /\ over \in Nat
      BY DEF TypeOK
    <3>2. opened = closed + pending + Len(indents) + over
      BY DEF Accounted
    <3>3. Len(indents') \in Nat
      BY <1>7, <1>8
    <3>4. opened' = opened /\ over' = over /\ closed' = closed + 1
      BY <2>2
    <3>5. Len(indents) \in Nat
      BY <1>3
    <3>6. opened = closed + Len(indents) + over
      BY <2>1, <3>1, <3>2, <3>5
    <3>7. Len(indents) = 1 + pending' + Len(indents')
      BY <2>3, <3>3, <3>5
    <3>8. opened = (closed + 1) + pending' + Len(indents') + over
      BY <2>3, <3>1, <3>3, <3>6, <3>7
    <3> QED BY <3>4, <3>8 DEF Accounted
  <2> QED BY <2>4, <2>5
<1>10. IndentsGrow'
  <2> SUFFICES ASSUME NEW d \in DOMAIN indents'
               PROVE  indents'[d] > 0 /\ (d > 1 => indents'[d] > indents'[d - 1])
    BY DEF IndentsGrow
  <2>1. d \in 1 .. k /\ d \in DOMAIN indents
    BY <1>3, <1>7, <1>8
  <2>2. d > 1 => d - 1 \in 1 .. k
    BY <1>3, <1>7, <2>1
  <2> QED BY <1>8, <2>1, <2>2 DEF IndentsGrow
<1> QED BY <1>2, <1>9, <1>10 DEF ClosedAtEnd

LEMMA LexInvCloseAll == LexInv /\ CloseAll => LexInv'
<1> SUFFICES ASSUME LexInv, CloseAll PROVE LexInv'
  OBVIOUS
<1> USE DEF LexInv
<1> DEFINE tok == [t |-> "DEDENT", v |-> NoText, ln |-> line']
<1>0. line' \in Nat
  BY DEF CloseAll, TypeOK
<1>1. out' = Append(out, tok)
  BY DEF CloseAll, GiveDedent, Give
<1>2. out' \in Seq(Token) /\ ~Done'
  <2>1. tok \in Token /\ tok.t # "EOF"
    BY <1>0 DEF Token, Layout
  <2> HIDE DEF tok
  <2> QED BY <1>1, <2>1, GiveFacts
<1>3. Len(indents) \in Nat \ {0} /\ pending = 0
  BY DEF CloseAll, Scanning, TypeOK
<1>4. TypeOK' /\ Accounted'
  <2>1. /\ pending' = Len(indents) - 1 /\ indents' = <<>> /\ closed' = closed + 1
        /\ UNCHANGED <<text, line, pos, over, opened>>
    BY DEF CloseAll, GiveDedent
  <2> QED BY <1>2, <1>3, <2>1 DEF TypeOK, Accounted
<1>5. IndentsGrow'
  BY DEF CloseAll, IndentsGrow
<1> QED BY <1>2, <1>4, <1>5 DEF ClosedAtEnd

LEMMA LexInvEndOfFile == LexInv /\ EndOfFile => LexInv'
<1> SUFFICES ASSUME LexInv, EndOfFile PROVE LexInv'
  OBVIOUS
<1> USE DEF LexInv
<1> DEFINE tok == [t |-> "EOF", v |-> NoText, ln |-> line']
<1>0. line' \in Nat
  BY DEF EndOfFile, TypeOK
<1>1. out' = Append(out, tok)
  BY DEF EndOfFile, GiveOther, Give
<1>2. out' \in Seq(Token)
  <2>1. tok \in Token
    BY <1>0 DEF Token, Layout
  <2>2. out \in Seq(Token)
    BY DEF TypeOK
  <2> HIDE DEF tok, Token
  <2> QED BY <1>1, <2>1, <2>2
<1>3. TypeOK' /\ Accounted' /\ IndentsGrow'
  BY <1>2 DEF EndOfFile, GiveOther, TypeOK, Accounted, IndentsGrow
<1> QED BY <1>3 DEF ClosedAtEnd, EndOfFile, Scanning

LEMMA LexInvNewline == LexInv /\ Newline => LexInv'
<1> SUFFICES ASSUME LexInv, Newline PROVE LexInv'
  OBVIOUS
<1> USE DEF LexInv
<1> DEFINE tok == [t |-> "NEWLINE", v |-> NoText, ln |-> line']
<1>0. line' \in Nat \ {0}
  <2>1. line \in Nat \ {0} /\ line' = line + 1
    BY DEF Newline, TypeOK
  <2> QED BY <2>1
<1>1. out' = Append(out, tok)
  BY DEF Newline, GiveOther, Give
<1>2. out' \in Seq(Token) /\ ~Done'
  <2>1. tok \in Token /\ tok.t # "EOF"
    BY <1>0 DEF Token, Layout
  <2> HIDE DEF tok
  <2> QED BY <1>1, <2>1, GiveFacts
<1>3. TypeOK' /\ Accounted' /\ IndentsGrow'
  <2>1. pos' = 1 /\ UNCHANGED <<text, indents, pending, over, opened, closed>>
    BY DEF Newline, GiveOther
  <2> QED BY <1>0, <1>2, <2>1 DEF TypeOK, Accounted, IndentsGrow
<1> QED BY <1>2, <1>3 DEF ClosedAtEnd

LEMMA LexInvWord == LexInv /\ Word => LexInv'
<1> SUFFICES ASSUME LexInv, Word PROVE LexInv'
  OBVIOUS
<1> USE DEF LexInv
<1> DEFINE w == Lines[line].words[pos]
<1>1. w \in STRING
  <2>1. Lines \in Seq(TextLine)
    BY LexerAssumption DEF TypeOK, Lines
  <2>2. line \in 1 .. Len(Lines)
    BY <2>1 DEF Word, TypeOK, AtEnd
  <2>3. Lines[line] \in TextLine
    BY <2>1, <2>2
  <2>4. Lines[line].words \in Seq(STRING)
    BY <2>3 DEF TextLine
  <2>5. pos \in 1 .. Len(Lines[line].words)
    BY <2>4 DEF Word, TypeOK
  <2> QED BY <2>4, <2>5
<1> DEFINE tok == [t |-> Type(w), v |-> w, ln |-> line']
<1>2. line' \in Nat /\ out' = Append(out, tok)
  BY DEF Word, GiveOther, Give, TypeOK
<1> HIDE DEF w
<1>3. out' \in Seq(Token) /\ ~Done'
  <2>1. tok \in Token /\ tok.t # "EOF"
    BY <1>1, <1>2, TypeFacts DEF Token
  <2> HIDE DEF tok
  <2> QED BY <1>2, <2>1, GiveFacts
<1>4. TypeOK' /\ Accounted' /\ IndentsGrow'
  BY <1>3 DEF Word, GiveOther, TypeOK, Accounted, IndentsGrow
<1> QED BY <1>3, <1>4 DEF ClosedAtEnd

LEMMA LexInvNext == LexInv /\ [LexerNext]_lexVars => LexInv'
<1> SUFFICES ASSUME LexInv, [LexerNext]_lexVars PROVE LexInv'
  OBVIOUS
<1>1. CASE UNCHANGED lexVars
  BY <1>1 DEF lexVars, LexInv, TypeOK, IndentsGrow, Accounted, ClosedAtEnd, Done
<1> QED BY <1>1, LexInvPendingDedent, LexInvOpen, LexInvClose, LexInvCloseAll,
           LexInvEndOfFile, LexInvNewline, LexInvWord DEF LexerNext

(* The tokenizer keeps the account of its blocks (lexer_next). *)
THEOREM LexInvCorrect == LexerSpec => []LexInv
<1>1. Init => LexInv
  BY LexInvInit
<1>2. LexInv /\ [LexerNext]_lexVars => LexInv'
  BY LexInvNext
<1> QED BY <1>1, <1>2, PTL DEF LexerSpec

(* No DEDENT comes before its INDENT, and at the end every block that the
   stack had room for has been closed: whatever the text. *)
THEOREM BlocksBalanceCorrect == LexerSpec => []BlocksBalance
<1>1. LexInv => BlocksBalance
  <2> SUFFICES ASSUME LexInv PROVE BlocksBalance
    OBVIOUS
  <2>1. closed \in Nat /\ pending \in Nat /\ over \in Nat /\ Len(indents) \in Nat
    BY DEF LexInv, TypeOK
  <2>2. opened = closed + pending + Len(indents) + over
    BY DEF LexInv, Accounted
  <2>3. Done => pending = 0 /\ Len(indents) = 0
    BY DEF LexInv, ClosedAtEnd
  <2> QED BY <2>1, <2>2, <2>3 DEF BlocksBalance
<1> QED BY <1>1, LexInvCorrect, PTL

(* The stack of indentations always grows: a block is deeper than the block
   it is in, also after blocks that close half way. *)
THEOREM IndentsGrowCorrect == LexerSpec => []IndentsGrow
<1>1. LexInv => IndentsGrow
  BY DEF LexInv
<1> QED BY <1>1, LexInvCorrect, PTL
=============================================================================
