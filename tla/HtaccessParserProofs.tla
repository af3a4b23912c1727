------------------------- MODULE HtaccessParserProofs -------------------------
(***************************************************************************)
(* Theorems about HtaccessParser, for every text, every MaxDepth and every *)
(* point at which memory may run out.                                      *)
(***************************************************************************)
EXTENDS HtaccessParser, SequenceTheorems, FiniteSetTheorems, WellFoundedInduction, TLAPS

-----------------------------------------------------------------------------
(* Positions in the text. *)

\* A set of numbers has its least element.
LEMMA MinIsLeast ==
    ASSUME NEW S \in SUBSET Nat, S # {}
    PROVE  Min(S) \in S /\ \A y \in S : Min(S) =< y
<1> DEFINE R == OpToRel(<, Nat)
<1>1. IsWellFoundedOn(R, Nat)
  BY NatLessThanWellFounded
<1> HIDE DEF R
<1>2. PICK x \in S : \A y \in S : ~(<<y, x>> \in R)
  BY <1>1, WFMin
<1>3. \A y \in S : x =< y
  <2> TAKE y \in S
  <2>1. x \in Nat /\ y \in Nat
    OBVIOUS
  <2>2. ~(y < x)
    BY <1>2, <2>1, Zenon DEF R, OpToRel
  <2> QED
    BY <2>1, <2>2
<1> QED
  BY <1>3 DEF Min

\* A search that starts within the text ends within it, or at its end.
LEMMA SearchesStayInText ==
    ASSUME text \in Text, NEW i \in 1 .. End, NEW S
    PROVE  /\ End \in Nat \ {0}
           /\ Find(i, S) \in i .. End
           /\ FindNot(i, S) \in i .. End
           /\ FindUnescaped(i, S) \in i .. End
<1>1. End \in Nat \ {0} /\ Len(text) \in Nat
  BY LenProperties DEF End, Text
<1>2. ASSUME NEW T, T \subseteq i .. Len(text)
      PROVE  Min(T \cup {End}) \in i .. End
  <2>1. T \cup {End} \subseteq i .. End
    <3>1. i \in Nat /\ i <= End /\ Len(text) <= End
      BY <1>1 DEF End
    <3>2. \A t \in T : t \in Nat /\ i <= t /\ t <= Len(text)
      BY <1>1, <1>2, <3>1
    <3> QED
      BY <1>1, <3>1, <3>2
  <2>2. T \cup {End} \in SUBSET Nat /\ T \cup {End} # {}
    BY <1>1, <2>1
  <2> QED
    BY <2>1, <2>2, MinIsLeast
<1>3. Find(i, S) \in i .. End
  BY <1>2 DEF Find
<1>4. FindNot(i, S) \in i .. End
  BY <1>2 DEF FindNot
<1>5. FindUnescaped(i, S) \in i .. End
  BY <1>2 DEF FindUnescaped
<1> QED
  BY <1>1, <1>3, <1>4, <1>5

\* The next token starts and ends within the text.
LEMMA TokenInText ==
    ASSUME text \in Text, p \in 1 .. End
    PROVE  /\ End \in Nat \ {0}
           /\ Start \in p .. End
           /\ SkipLine(Start) \in 1 .. End
           /\ ~LineEnds => Start < End /\ TokenEnd \in Start .. End
<1>1. End \in Nat \ {0} /\ Start \in p .. End /\ Start \in 1 .. End
  BY SearchesStayInText DEF Start
<1>2. SkipLine(Start) \in 1 .. End
  <2>1. Find(Start, {"newline"}) \in 1 .. End
    BY <1>1, SearchesStayInText
  <2> QED
    BY <1>1, <2>1, SearchesStayInText DEF SkipLine
<1>3. ASSUME ~LineEnds PROVE Start < End /\ TokenEnd \in Start .. End
  <2>1. Start < End /\ Start + 1 \in 1 .. End
    BY <1>1, <1>3 DEF LineEnds
  <2>2. FindUnescaped(Start + 1, {"quote"}) \in Start + 1 .. End
    BY <2>1, SearchesStayInText
  <2>3. Find(Start, {"greater"}) \in Start .. End
    BY <1>1, SearchesStayInText
  <2>4. FindUnescaped(Start, {"blank", "newline", "hash"}) \in Start .. End
    BY <1>1, SearchesStayInText
  <2> QED
    BY <1>1, <2>1, <2>2, <2>3, <2>4 DEF TokenEnd
<1> QED
  BY <1>1, <1>2, <1>3

\* A piece of the text is one.
LEMMA PieceOfText ==
    ASSUME text \in Text, NEW i \in 1 .. End, NEW j \in 0 .. Len(text)
    PROVE  SubSeq(text, i, j) \in Text
<1>1. Len(text) \in Nat /\ i \in Int /\ j \in Int
  BY LenProperties DEF Text, End
<1>2. \A k \in i .. j : text[k] \in STRING
  BY <1>1, ElementOfSeq DEF Text
<1> QED
  BY <1>1, <1>2, SubSeqProperties DEF Text

-----------------------------------------------------------------------------
(* What is made of a line. *)

\* The pattern of a tag is a piece of it.
LEMMA PatternIsText ==
    ASSUME NEW line \in Seq(Text), line # <<>>, Opens(line)
    PROVE  FilesMatch(line[1]) \in Text
<1> DEFINE t == line[1]
           nonblank == {i \in 3 .. Len(t) : t[i] # "blank"}
           start == Min(nonblank)
           quotes == {i \in start + 1 .. Len(t) : t[i] = "quote"} \cup {Len(t)}
           end == Min(quotes)
<1>1. t \in Text /\ Len(t) \in Nat
  <2>1. 1 \in 1 .. Len(line)
    BY EmptySeq, LenProperties
  <2> QED
    BY <2>1, ElementOfSeq, LenProperties DEF Text
<1>2. CASE Len(t) >= 3
  <2>1. Len(t) \in nonblank
    BY <1>1, <1>2 DEF Opens, IsBlock
  <2>2. nonblank \in SUBSET Nat /\ nonblank # {}
    BY <1>1, <2>1
  <2>3. start \in nonblank
    BY <2>2, MinIsLeast
  <2> HIDE DEF start
  <2>4. start \in 3 .. Len(t)
    BY <2>3
  <2> HIDE DEF nonblank
  <2>5. quotes \in SUBSET Nat /\ quotes # {} /\ quotes \subseteq start .. Len(t)
    BY <1>1, <2>4
  <2>6. end \in quotes
    BY <2>5, MinIsLeast
  <2> HIDE DEF quotes, end
  <2>7. end \in start .. Len(t)
    BY <2>5, <2>6
  <2>8. \A k \in start + 1 .. end - 1 : t[k] \in STRING
    BY <1>1, <2>4, <2>7, ElementOfSeq DEF Text
  <2>9. SubSeq(t, start + 1, end - 1) \in Text
    BY <1>1, <2>4, <2>7, <2>8, SubSeqProperties DEF Text
  <2>10. <<>> \in Text
    BY EmptySeq DEF Text
  <2> QED
    BY <2>9, <2>10 DEF FilesMatch, start, end, quotes, nonblank
<1>3. CASE ~(Len(t) >= 3)
  BY <1>3, EmptySeq DEF FilesMatch, Text
<1> QED
  BY <1>2, <1>3

\* Arguments, conditions and directives are such.
LEMMA LineGivesRecords ==
    ASSUME NEW line \in Seq(Text), line # <<>>, NEW n \in Nat
    PROVE  /\ CondOf(line, n) \in Conditions
           /\ \A pattern \in Text, conds \in Seq(Conditions) :
                IsDirective(line) => DirectiveOf(line, n, pattern, conds) \in Directives
<1>1. Args(line) \in Arguments
  <2>1. Tail(line) \in Seq(Text)
    BY HeadTailProperties
  <2>2. Tail(line) \in Seq(Text \cup {Garbage})
    BY <2>1, SeqMonotonic
  <2>3. <<Garbage>> \in Seq(Text \cup {Garbage})
    OBVIOUS
  <2> QED
    BY <2>2, <2>3 DEF Args, Arguments
<1>2. ASSUME IsDirective(line) PROVE line[1][1] \in STRING
  <2>1. 1 \in 1 .. Len(line)
    BY EmptySeq, LenProperties
  <2>2. line[1] \in Seq(STRING)
    BY <2>1, ElementOfSeq DEF Text
  <2>3. 1 \in 1 .. Len(line[1])
    BY <1>2 DEF IsDirective, Named
  <2> QED
    BY <2>2, <2>3, ElementOfSeq
<1> QED
  BY <1>1, <1>2 DEF CondOf, DirectiveOf, Conditions, Directives

-----------------------------------------------------------------------------
(* Types. *)

LEMMA TypesHoldAtFirst == Init => ParserTypeOK
<1> SUFFICES ASSUME Init PROVE ParserTypeOK
  OBVIOUS
<1>1. text \in Text
  BY DocumentsAssumption DEF Init, text
<1>2. End \in Nat \ {0} /\ p \in 1 .. End
  BY <1>1, LenProperties DEF Init, End, Text
<1>3. <<>> \in Text
  BY EmptySeq DEF Text
<1> QED
  BY <1>1, <1>2, <1>3, EmptySeq, DepthAssumption DEF Init, ParserTypeOK

\* The lexer puts a piece of the text into tokens, and goes on behind it.
LEMMA PushKeepsTypes ==
    ASSUME ParserTypeOK, NEW token \in Text, NEW next \in 1 .. End, Push(token, next)
    PROVE  ParserTypeOK'
<1>1. text' = text /\ End' = End
  BY DEF Push, text, End
<1>2. tokens' \in Seq(Text) /\ p' \in 1 .. End
  BY DEF Push, ParserTypeOK
<1> QED
  BY <1>1, <1>2 DEF Push, ParserTypeOK, parser

LEMMA LexerKeepsTypes ==
    ASSUME ParserTypeOK, Quoted \/ Tag \/ Word \/ EndLine \/ Unterminated
    PROVE  ParserTypeOK'
<1>1. /\ text \in Text /\ p \in 1 .. End /\ Len(text) \in Nat /\ End = Len(text) + 1
      /\ End \in Nat \ {0} /\ Start \in p .. End /\ SkipLine(Start) \in 1 .. End
      /\ ~LineEnds => Start < End /\ TokenEnd \in Start .. End
  BY TokenInText, LenProperties DEF ParserTypeOK, End, Text
<1>2. CASE Quoted
  <2>1. Start + 1 \in 1 .. End /\ TokenEnd - 1 \in 0 .. Len(text) /\ TokenEnd + 1 \in 1 .. End
    BY <1>1, <1>2 DEF Quoted
  <2> QED
    BY <1>1, <1>2, <2>1, PieceOfText, PushKeepsTypes DEF Quoted
<1>3. CASE Tag
  <2>1. Start \in 1 .. End /\ TokenEnd \in 0 .. Len(text) /\ TokenEnd + 1 \in 1 .. End
    BY <1>1, <1>3 DEF Tag
  <2> QED
    BY <1>1, <1>3, <2>1, PieceOfText, PushKeepsTypes DEF Tag
<1>4. CASE Word
  <2>1. Start \in 1 .. End /\ TokenEnd - 1 \in 0 .. Len(text) /\ TokenEnd \in 1 .. End
    BY <1>1, <1>4 DEF Word
  <2> QED
    BY <1>1, <1>4, <2>1, PieceOfText, PushKeepsTypes DEF Word
<1>5. CASE EndLine
  <2>1. text' = text /\ End' = End
    BY <1>5 DEF EndLine, text, End
  <2> QED
    BY <1>1, <1>5, <2>1 DEF EndLine, ParserTypeOK, parser
<1>6. CASE Unterminated
  <2>1. text' = text /\ End' = End
    BY <1>6 DEF Unterminated, Refuse, text, End
  <2> QED
    BY <1>6, <2>1 DEF Unterminated, Refuse, ParserTypeOK, parser
<1> QED
  BY <1>2, <1>3, <1>4, <1>5, <1>6

\* A line that has been parsed is added to the history; the rest is up to what
\* it says.
LEMMA ParseLineTypes ==
    ASSUME ParserTypeOK, ParseLine
    PROVE  /\ text' = text /\ End' = End /\ p' = p /\ pc' = pc /\ result' = result
           /\ tokens # <<>> /\ tokens \in Seq(Text) /\ tokens' \in Seq(Text)
           /\ lines' \in Seq(Seq(Text)) /\ lines' = Append(lines, tokens)
           /\ Len(lines) \in Nat /\ Len(lines') = Len(lines) + 1
           /\ lines'[Len(lines')] = tokens
           /\ \A k \in 1 .. Len(lines) : lines'[k] = lines[k]
<1>1. text' = text /\ End' = End
  BY DEF ParseLine, text, End
<1>2. tokens' \in Seq(Text)
  BY EmptySeq DEF ParseLine
<1>3. Len(lines) \in Nat
  BY LenProperties DEF ParserTypeOK
<1> QED
  BY <1>1, <1>2, <1>3 DEF ParseLine, ParserTypeOK

\* The element of files_match that htaccess_parse takes the pattern from is there.
LEMMA PatternInUse == ParserTypeOK => files_match[depth] \in Text
  BY DEF ParserTypeOK

LEMMA ParserKeepsTypes ==
    ASSUME ParserTypeOK,
           CloseBlock \/ OpenBlock \/ OpenTooDeep \/ Unknown \/ PushCond \/ PushDirective
    PROVE  ParserTypeOK'
<1>1. ParseLine
  BY DEF CloseBlock, OpenBlock, OpenTooDeep, Unknown, PushCond, PushDirective
<1>2. /\ text' = text /\ End' = End /\ p' = p /\ pc' = pc /\ result' = result
      /\ tokens # <<>> /\ tokens \in Seq(Text) /\ tokens' \in Seq(Text)
      /\ lines' \in Seq(Seq(Text)) /\ Len(lines') \in Nat
  BY <1>1, ParseLineTypes
<1>3. CASE CloseBlock
  <2>1. depth' \in 0 .. MaxDepth
    BY <1>3, DepthAssumption DEF CloseBlock, ParserTypeOK
  <2> QED
    BY <1>2, <1>3, <2>1 DEF CloseBlock, ParserTypeOK
<1>4. CASE OpenBlock
  <2>1. FilesMatch(tokens[1]) \in Text
    BY <1>2, <1>4, PatternIsText DEF OpenBlock
  <2>2. depth' \in 0 .. MaxDepth /\ depth + 1 # 0
    BY <1>4, DepthAssumption DEF OpenBlock, ParserTypeOK
  <2>3. files_match' \in [0 .. MaxDepth -> Text] /\ files_match'[0] = <<>>
    BY <1>4, <2>1, <2>2, DepthAssumption DEF OpenBlock, ParserTypeOK
  <2> QED
    BY <1>2, <1>4, <2>2, <2>3 DEF OpenBlock, ParserTypeOK
<1>5. CASE OpenTooDeep \/ Unknown
  BY <1>2, <1>5 DEF OpenTooDeep, Unknown, ParserTypeOK, parser
<1>6. CASE PushCond
  <2>1. pending' \in Seq(Conditions)
    BY <1>2, <1>6, LineGivesRecords DEF PushCond, ParserTypeOK
  <2> QED
    BY <1>2, <1>6, <2>1 DEF PushCond, ParserTypeOK
<1>7. CASE PushDirective
  <2> DEFINE conds == IF IsRule(tokens) THEN pending ELSE <<>>
             d == DirectiveOf(tokens, Len(lines'), files_match[depth], conds)
  <2>1. conds \in Seq(Conditions)
    BY EmptySeq DEF ParserTypeOK
  <2> HIDE DEF conds
  <2>2. d \in Directives
    BY <1>2, <1>7, <2>1, PatternInUse, LineGivesRecords DEF PushDirective
  <2> HIDE DEF d
  <2>3. directives' = Append(directives, d)
    BY <1>7 DEF PushDirective, d, conds
  <2>4. directives' \in Seq(Directives) /\ pending' \in Seq(Conditions)
    BY <1>7, <2>2, <2>3, EmptySeq DEF PushDirective, ParserTypeOK
  <2> QED
    BY <1>2, <1>7, <2>4 DEF PushDirective, ParserTypeOK
<1> QED
  BY <1>3, <1>4, <1>5, <1>6, <1>7

LEMMA TypesKept == ParserTypeOK /\ [Next]_vars => ParserTypeOK'
<1> SUFFICES ASSUME ParserTypeOK, [Next]_vars PROVE ParserTypeOK'
  OBVIOUS
<1>1. CASE NextLine
  <2>1. text' = text /\ End' = End
    BY <1>1 DEF NextLine, text, End
  <2> QED
    BY <1>1, <2>1 DEF NextLine, ParserTypeOK, parser
<1>2. CASE PushFails \/ OutOfMemory
  <2>1. text' = text /\ End' = End
    BY <1>2 DEF PushFails, OutOfMemory, Refuse, text, End
  <2> QED
    BY <1>2, <2>1 DEF PushFails, OutOfMemory, Refuse, ParserTypeOK, parser
<1>3. CASE UNCHANGED vars
  BY <1>3 DEF ParserTypeOK, vars, lexer, parser, text, End
<1> QED
  BY <1>1, <1>2, <1>3, LexerKeepsTypes, ParserKeepsTypes DEF Next

\* No step of htaccess_parse goes beyond the text, or beyond the arrays enabled
\* and files_match, and every argument is a piece of the text or the element
\* that nothing was stored in.
THEOREM AlwaysTyped == Spec => []ParserTypeOK
  BY TypesHoldAtFirst, TypesKept, PTL DEF Spec

-----------------------------------------------------------------------------
(* Refinement: the array and its index are a stack. *)

Stack == [i \in 1 .. depth |-> files_match[i]]

\* The top of the stack is the element that depth points to.
LEMMA StackTop ==
    ASSUME ParserTypeOK
    PROVE  /\ Stack \in Seq(Text) /\ Len(Stack) = depth
           /\ (Stack = <<>>) <=> (depth = 0)
           /\ files_match[depth] = IF Stack = <<>> THEN <<>> ELSE Stack[Len(Stack)]
<1>1. depth \in Nat /\ \A i \in 1 .. depth : files_match[i] \in Text
  BY DepthAssumption DEF ParserTypeOK
<1>2. Stack \in [1 .. depth -> Text]
  BY <1>1 DEF Stack
<1>3. Stack \in Seq(Text)
  BY <1>1, <1>2, SeqDef
<1>4. Len(Stack) = depth
  BY <1>1, <1>2, <1>3
<1>5. (Stack = <<>>) <=> (depth = 0)
  BY <1>3, <1>4, EmptySeq
<1>6. files_match[0] = <<>>
  BY DEF ParserTypeOK
<1>7. depth # 0 => Stack[depth] = files_match[depth]
  BY <1>1 DEF Stack
<1> QED
  BY <1>3, <1>4, <1>5, <1>6, <1>7

\* depth-- pops.
LEMMA ClosingPops ==
    ASSUME ParserTypeOK, CloseBlock
    PROVE  Stack' = IF Stack = <<>> THEN Stack ELSE SubSeq(Stack, 1, Len(Stack) - 1)
<1>1. /\ Stack \in Seq(Text) /\ Len(Stack) = depth
      /\ (Stack = <<>>) <=> (depth = 0)
  BY StackTop
<1>2. CASE depth = 0
  BY <1>1, <1>2 DEF CloseBlock, Stack
<1>3. CASE depth # 0
  <2>1. depth \in Nat /\ depth > 0 /\ depth' = depth - 1 /\ files_match' = files_match
    BY <1>3, DepthAssumption DEF CloseBlock, ParserTypeOK
  <2>2. SubSeq(Stack, 1, depth - 1) = [i \in 1 .. depth - 1 |-> Stack[i]]
    BY <1>1, <2>1
  <2>3. \A i \in 1 .. depth - 1 : Stack[i] = files_match[i]
    BY <2>1 DEF Stack
  <2>4. Stack' = [i \in 1 .. depth - 1 |-> files_match[i]]
    BY <2>1 DEF Stack
  <2> QED
    BY <1>1, <1>3, <2>2, <2>3, <2>4
<1> QED
  BY <1>2, <1>3

\* depth++ and the store in files_match[depth] push, whatever was there.
LEMMA OpeningPushes ==
    ASSUME ParserTypeOK, OpenBlock
    PROVE  Stack' = Append(Stack, FilesMatch(tokens[1]))
<1> DEFINE e == FilesMatch(tokens[1])
<1>1. /\ Stack \in Seq(Text) /\ Len(Stack) = depth
  BY StackTop
<1>2. e \in Text
  BY PatternIsText DEF OpenBlock, ParseLine, ParserTypeOK
<1> HIDE DEF e
<1>3. /\ depth \in Nat /\ depth' = depth + 1 /\ depth + 1 \in 0 .. MaxDepth
      /\ files_match' = [files_match EXCEPT ![depth + 1] = e]
      /\ DOMAIN files_match = 0 .. MaxDepth
  BY DepthAssumption DEF OpenBlock, ParserTypeOK, e
<1>4. \A i \in 1 .. depth + 1 : files_match'[i] = IF i = depth + 1 THEN e ELSE Stack[i]
  BY <1>3 DEF Stack
<1>5. /\ Append(Stack, e) \in Seq(Text) /\ Len(Append(Stack, e)) = depth + 1
      /\ \A i \in 1 .. depth + 1 :
           Append(Stack, e)[i] = IF i = depth + 1 THEN e ELSE Stack[i]
  BY <1>1, <1>2, <1>3
<1>6. Stack' = [i \in 1 .. depth + 1 |-> files_match'[i]]
  BY <1>3 DEF Stack
<1>7. Stack' \in Seq(Text) /\ Len(Stack') = depth + 1
  <2>1. \A i \in 1 .. depth + 1 : files_match'[i] \in Text
    BY <1>1, <1>2, <1>3, <1>4, ElementOfSeq
  <2>2. Stack' \in [1 .. depth + 1 -> Text]
    BY <1>6, <2>1
  <2> QED
    BY <1>3, <2>2, SeqDef
<1>8. \A i \in 1 .. depth + 1 : Stack'[i] = Append(Stack, e)[i]
  BY <1>4, <1>5, <1>6
<1>9. Stack' = Append(Stack, e)
  BY <1>5, <1>7, <1>8, SeqEqual
<1> QED
  BY <1>9 DEF e

\* The two specifications read a line in the same way.
LEMMA SameReading ==
    /\ \A line : Sections!Closes(line) = Closes(line) /\ Sections!Opens(line) = Opens(line)
    /\ \A line : Sections!IsBlock(line) = IsBlock(line) /\ Sections!Named(line) = Named(line)
    /\ \A line : Sections!IsCond(line) = IsCond(line) /\ Sections!IsRule(line) = IsRule(line)
    /\ \A line : Sections!IsDirective(line) = IsDirective(line)
    /\ \A line : Sections!Fails(line) = Fails(line)
    /\ \A t : Sections!FilesMatch(t) = FilesMatch(t)
    /\ \A line, n : Sections!CondOf(line, n) = CondOf(line, n)
    /\ \A line, n, pattern, conds :
         Sections!DirectiveOf(line, n, pattern, conds) = DirectiveOf(line, n, pattern, conds)
<1> USE DEF Closes, Opens, IsBlock, Named, Names, ArgumentNeeded, ArgumentTaken
<1> USE DEF Sections!Closes, Sections!Opens, Sections!IsBlock, Sections!Named,
            Sections!Names, Sections!ArgumentNeeded, Sections!ArgumentTaken
<1>1. \A line : Sections!Closes(line) = Closes(line) /\ Sections!Opens(line) = Opens(line)
  BY Zenon
<1>2. \A line : Sections!IsBlock(line) = IsBlock(line) /\ Sections!Named(line) = Named(line)
  BY Zenon
<1>3. \A line : Sections!IsCond(line) = IsCond(line) /\ Sections!IsRule(line) = IsRule(line)
  BY Zenon DEF IsCond, IsRule, Sections!IsCond, Sections!IsRule
<1>4. \A line : Sections!IsDirective(line) = IsDirective(line)
  BY Zenon DEF IsDirective, Sections!IsDirective
<1>5. \A line : Sections!Fails(line) = Fails(line)
  BY Zenon DEF Fails, IsCond, IsDirective, Needed,
               Sections!Fails, Sections!IsCond, Sections!IsDirective, Sections!Needed
<1>6. \A t : Sections!FilesMatch(t) = FilesMatch(t)
  BY Zenon DEF FilesMatch, Sections!FilesMatch, Min, Sections!Min
<1>7. \A line : Sections!Args(line) = Args(line)
  BY Zenon DEF Args, Sections!Args
<1>8. \A line, n : Sections!CondOf(line, n) = CondOf(line, n)
  BY <1>7, Zenon DEF CondOf, Sections!CondOf
<1>9. \A line, n, pattern, conds :
        Sections!DirectiveOf(line, n, pattern, conds) = DirectiveOf(line, n, pattern, conds)
  BY <1>7, Zenon DEF DirectiveOf, Sections!DirectiveOf
<1> QED
  BY <1>1, <1>2, <1>3, <1>4, <1>5, <1>6, <1>8, <1>9

\* What one line does to the stack, to the conditions that wait and to the directives
\* is what HtaccessSections says.
LEMMA LineRefines ==
    ASSUME ParserTypeOK,
           CloseBlock \/ OpenBlock \/ OpenTooDeep \/ Unknown \/ PushCond \/ PushDirective
    PROVE  Sections!Line
<1>1. ParseLine /\ pc = "parse"
  BY DEF CloseBlock, OpenBlock, OpenTooDeep, Unknown, PushCond, PushDirective, ParseLine
<1>2. /\ lines' = Append(lines, tokens) /\ Len(lines) \in Nat
      /\ Len(lines') = Len(lines) + 1 /\ lines'[Len(lines')] = tokens
      /\ result' = result /\ result = "none"
  BY <1>1, ParseLineTypes DEF ParserTypeOK
<1> DEFINE line == lines'[Len(lines')]
<1>3. SUFFICES Sections!Step(line)
  BY <1>2 DEF Sections!Line
<1>4. CASE CloseBlock
  <2>1. Sections!CloseBlock(line)
    BY <1>2, <1>4, ClosingPops, SameReading DEF CloseBlock, Sections!CloseBlock, Stack
  <2> QED
    BY <2>1 DEF Sections!Step
<1>5. CASE OpenBlock
  <2>1. Len(Stack) = depth /\ depth < MaxDepth
    BY <1>5, StackTop DEF OpenBlock
  <2>2. Sections!OpenBlock(line)
    BY <1>2, <1>5, <2>1, OpeningPushes, SameReading DEF OpenBlock, Sections!OpenBlock, Stack
  <2> QED
    BY <2>2 DEF Sections!Step
<1>6. CASE OpenTooDeep
  <2>1. Len(Stack) = depth /\ depth = MaxDepth /\ ~(depth < MaxDepth) /\ Stack' = Stack
    BY <1>6, StackTop, DepthAssumption DEF OpenTooDeep, parser, Stack
  <2>2. Sections!OpenBlock(line)
    BY <1>2, <1>6, <2>1, SameReading DEF OpenTooDeep, parser, Sections!OpenBlock, Stack
  <2> QED
    BY <2>2 DEF Sections!Step
<1>7. CASE Unknown
  <2>1. Sections!Skip(line)
    BY <1>2, <1>7, SameReading DEF Unknown, parser, Sections!Skip
  <2> QED
    BY <2>1 DEF Sections!Step
<1>8. CASE PushCond
  <2>1. Sections!Condition(line)
    BY <1>2, <1>8, SameReading DEF PushCond, Sections!Condition
  <2> QED
    BY <2>1 DEF Sections!Step
<1>9. CASE PushDirective
  <2>1. files_match[depth] = Sections!Innermost
    BY StackTop DEF Sections!Innermost, Stack
  <2>2. CASE IsRule(tokens)
    <3>1. Sections!Rule(line)
      BY <1>2, <1>9, <2>1, <2>2, SameReading DEF PushDirective, Sections!Rule
    <3> QED
      BY <3>1 DEF Sections!Step
  <2>3. CASE ~IsRule(tokens)
    <3>1. Sections!Plain(line)
      BY <1>2, <1>9, <2>1, <2>3, SameReading DEF PushDirective, Sections!Plain
    <3> QED
      BY <3>1 DEF Sections!Step
  <2> QED
    BY <2>2, <2>3
<1> QED
  BY <1>4, <1>5, <1>6, <1>7, <1>8, <1>9

LEMMA StepRefines ==
    ParserTypeOK /\ [Next]_vars => [Sections!Line \/ Sections!End]_(Sections!vars)
<1> SUFFICES ASSUME ParserTypeOK, [Next]_vars
             PROVE  [Sections!Line \/ Sections!End]_(Sections!vars)
  OBVIOUS
<1>1. CASE CloseBlock \/ OpenBlock \/ OpenTooDeep \/ Unknown \/ PushCond \/ PushDirective
  BY <1>1, LineRefines
<1>2. CASE Quoted \/ Tag \/ Word \/ EndLine
  <2>1. UNCHANGED <<parser, result, lines>>
    BY <1>2 DEF Quoted, Tag, Word, EndLine, Push
  <2> QED
    BY <2>1 DEF parser, Sections!vars
<1>3. CASE Unterminated \/ PushFails \/ OutOfMemory
  <2>1. /\ result = "none" /\ result' \in {"malformed", "memory"}
        /\ UNCHANGED <<parser, lines>>
    BY <1>3 DEF Unterminated, PushFails, OutOfMemory, Refuse, ParserTypeOK
  <2> QED
    BY <2>1 DEF parser, Sections!End
<1>4. CASE NextLine
  <2>1. /\ result = "none" /\ result' \in {"none", "file"}
        /\ UNCHANGED <<parser, lines>>
    BY <1>4 DEF NextLine, ParserTypeOK
  <2> QED
    BY <2>1 DEF parser, Sections!End, Sections!vars
<1>5. CASE UNCHANGED vars
  BY <1>5 DEF vars, parser, Sections!vars
<1> QED
  BY <1>1, <1>2, <1>3, <1>4, <1>5 DEF Next

LEMMA InitRefines == Init => Sections!Init
<1> SUFFICES ASSUME Init PROVE Sections!Init
  OBVIOUS
<1>1. Stack = <<>>
  BY TypesHoldAtFirst, StackTop DEF Init
<1> QED
  BY <1>1 DEF Init, Stack, Sections!Init

\* htaccess_parse implements HtaccessSections: with an array of a fixed size and an
\* index it gives each directive the pattern of the block it stands in, and each
\* RewriteRule the conditions that wait for it; and it refuses a file whole.
THEOREM ParserReadsSections == Spec => ReadsSections
  BY InitRefines, StepRefines, AlwaysTyped, PTL DEF Spec, ReadsSections, Sections!Spec

-----------------------------------------------------------------------------
(* The conditions of a rule. *)

\* The lines that pending holds: the conditions since the last rule.
Waiting == {k \in 1 .. Len(lines) :
              IsCond(lines[k]) /\ \A m \in k .. Len(lines) : ~IsRule(lines[m])}

InOrder(conds) == \A i, j \in DOMAIN conds : i < j => conds[i].line < conds[j].line

LinesOf(conds) == {c.line : c \in ToSet(conds)}

DirectivesAreOfLines == \A d \in ToSet(directives) : d.line \in 1 .. Len(lines)

\* The inductive invariant: pending is what the next rule is to get.
ConditionsInv ==
    /\ LinesOf(pending) = Waiting
    /\ InOrder(pending)
    /\ DirectivesAreOfLines
    /\ ConditionsBelong

LEMMA ElementsOfAppend ==
    ASSUME NEW S, NEW s \in Seq(S), NEW e \in S
    PROVE  ToSet(Append(s, e)) = ToSet(s) \cup {e}
<1>1. Len(s) \in Nat /\ DOMAIN s = 1 .. Len(s)
  BY LenProperties
<1>2. /\ DOMAIN Append(s, e) = 1 .. Len(s) + 1
      /\ \A i \in 1 .. Len(s) : Append(s, e)[i] = s[i]
      /\ Append(s, e)[Len(s) + 1] = e
  BY <1>1
<1>3. ToSet(Append(s, e)) \subseteq ToSet(s) \cup {e}
  <2>1. ASSUME NEW i \in 1 .. Len(s) + 1 PROVE Append(s, e)[i] \in ToSet(s) \cup {e}
    <3>1. i \in 1 .. Len(s) \/ i = Len(s) + 1
      BY <1>1
    <3> QED
      BY <1>1, <1>2, <3>1 DEF ToSet
  <2> QED
    BY <1>2, <2>1 DEF ToSet
<1>4. ToSet(s) \cup {e} \subseteq ToSet(Append(s, e))
  <2>1. \A i \in 1 .. Len(s) : i \in 1 .. Len(s) + 1
    BY <1>1
  <2>2. Len(s) + 1 \in 1 .. Len(s) + 1
    BY <1>1
  <2> QED
    BY <1>1, <1>2, <2>1, <2>2, Zenon DEF ToSet
<1> QED
  BY <1>3, <1>4

\* No line is a condition and a rule.
LEMMA KindsDiffer == \A line : ~(IsCond(line) /\ IsRule(line))
  BY DEF IsCond, IsRule

\* What the next line makes of the conditions that wait.
LEMMA WaitingStep ==
    ASSUME ParserTypeOK, ParseLine
    PROVE  /\ IsRule(tokens) => Waiting' = {}
           /\ IsCond(tokens) => Waiting' = Waiting \cup {Len(lines) + 1}
           /\ ~IsRule(tokens) /\ ~IsCond(tokens) => Waiting' = Waiting
<1>1. /\ Len(lines) \in Nat /\ Len(lines') = Len(lines) + 1
      /\ lines'[Len(lines) + 1] = tokens
      /\ \A k \in 1 .. Len(lines) : lines'[k] = lines[k]
  BY ParseLineTypes
<1>2. Waiting' = {k \in 1 .. Len(lines) + 1 :
                    IsCond(lines'[k]) /\ \A m \in k .. Len(lines) + 1 : ~IsRule(lines'[m])}
  BY <1>1 DEF Waiting
<1>3. CASE IsRule(tokens)
  <2>1. \A k \in 1 .. Len(lines) + 1 : Len(lines) + 1 \in k .. Len(lines) + 1
    BY <1>1
  <2> QED
    BY <1>1, <1>2, <1>3, <2>1, KindsDiffer
<1>4. ASSUME ~IsRule(tokens), NEW k \in 1 .. Len(lines)
      PROVE  k \in Waiting' <=> k \in Waiting
  <2>1. /\ k \in 1 .. Len(lines) + 1
        /\ k .. Len(lines) + 1 = (k .. Len(lines)) \cup {Len(lines) + 1}
        /\ \A m \in k .. Len(lines) : lines'[m] = lines[m]
    BY <1>1
  <2> QED
    BY <1>1, <1>2, <1>4, <2>1 DEF Waiting
<1>5. ASSUME ~IsRule(tokens) PROVE Len(lines) + 1 \in Waiting' <=> IsCond(tokens)
  <2>1. Len(lines) + 1 .. Len(lines) + 1 = {Len(lines) + 1}
    BY <1>1
  <2> QED
    BY <1>1, <1>2, <1>5, <2>1
<1>6. 1 .. Len(lines) + 1 = (1 .. Len(lines)) \cup {Len(lines) + 1}
      /\ Len(lines) + 1 \notin 1 .. Len(lines)
  BY <1>1
<1>7. Waiting' \subseteq 1 .. Len(lines) + 1 /\ Waiting \subseteq 1 .. Len(lines)
  BY <1>2 DEF Waiting
<1> QED
  BY <1>3, <1>4, <1>5, <1>6, <1>7, KindsDiffer

\* What a directive of an earlier line says of the lines before it stays true.
LEMMA EarlierKept ==
    ASSUME ParserTypeOK, ParseLine, ConditionsInv
    PROVE  \A d \in ToSet(directives) :
             /\ d.line \in 1 .. Len(lines')
             /\ LinesOf(d.conditions) =
                  IF d.id # "RewriteRule" THEN {}
                  ELSE {k \in 1 .. d.line - 1 :
                          IsCond(lines'[k]) /\ \A m \in k .. d.line - 1 : ~IsRule(lines'[m])}
             /\ InOrder(d.conditions)
<1>1. /\ Len(lines) \in Nat /\ Len(lines') = Len(lines) + 1
      /\ \A k \in 1 .. Len(lines) : lines'[k] = lines[k]
  BY ParseLineTypes
<1> TAKE d \in ToSet(directives)
<1>2. d.line \in 1 .. Len(lines)
  BY DEF ConditionsInv, DirectivesAreOfLines
<1>3. LinesOf(d.conditions) =
        IF d.id # "RewriteRule" THEN {}
        ELSE {k \in 1 .. d.line - 1 :
                IsCond(lines[k]) /\ \A m \in k .. d.line - 1 : ~IsRule(lines[m])}
  BY DEF ConditionsInv, ConditionsBelong, LinesOf
<1>4. InOrder(d.conditions)
  BY DEF ConditionsInv, ConditionsBelong, InOrder
<1>5. \A k \in 1 .. d.line - 1 : lines'[k] = lines[k]
  BY <1>1, <1>2
<1>6. \A k \in 1 .. d.line - 1 : \A m \in k .. d.line - 1 : lines'[m] = lines[m]
  BY <1>1, <1>2
<1>7. {k \in 1 .. d.line - 1 :
         IsCond(lines[k]) /\ \A m \in k .. d.line - 1 : ~IsRule(lines[m])}
      = {k \in 1 .. d.line - 1 :
         IsCond(lines'[k]) /\ \A m \in k .. d.line - 1 : ~IsRule(lines'[m])}
  BY <1>5, <1>6
<1>8. d.line \in 1 .. Len(lines')
  BY <1>1, <1>2
<1> QED
  BY <1>3, <1>4, <1>7, <1>8, Zenon

\* The properties of the directives so far, and of one more, make ConditionsBelong.
LEMMA ConditionsTakenPart ==
    ASSUME ParserTypeOK, ParseLine, ConditionsInv,
           CloseBlock \/ OpenBlock \/ OpenTooDeep \/ Unknown \/ PushCond
    PROVE  DirectivesAreOfLines' /\ ConditionsBelong'
<1>1. directives' = directives
  BY DEF CloseBlock, OpenBlock, OpenTooDeep, Unknown, PushCond, parser
<1> QED
  BY <1>1, EarlierKept, Zenon DEF DirectivesAreOfLines, ConditionsBelong, LinesOf, InOrder

LEMMA CondKeepsConditions ==
    ASSUME ParserTypeOK, ConditionsInv, PushCond
    PROVE  ConditionsInv'
<1> DEFINE n == Len(lines) + 1
           c == CondOf(tokens, n)
<1>1. ParseLine /\ IsCond(tokens) /\ tokens \in Seq(Text) /\ tokens # <<>>
  BY DEF PushCond, ParseLine, ParserTypeOK
<1>2. Len(lines) \in Nat /\ Len(lines') = n
  BY <1>1, ParseLineTypes
<1>3. c \in Conditions /\ c.line = n
  BY <1>1, <1>2, LineGivesRecords DEF CondOf
<1>4. pending \in Seq(Conditions) /\ pending' = Append(pending, c)
  BY <1>2 DEF PushCond, ParserTypeOK
<1> HIDE DEF c
<1>5. ToSet(pending') = ToSet(pending) \cup {c}
  BY <1>3, <1>4, ElementsOfAppend
<1>6. LinesOf(pending') = LinesOf(pending) \cup {n}
  BY <1>3, <1>5 DEF LinesOf
<1>7. LinesOf(pending') = Waiting'
  BY <1>1, <1>6, WaitingStep DEF ConditionsInv
<1>8. InOrder(pending')
  <2>1. DOMAIN pending = 1 .. Len(pending) /\ Len(pending) \in Nat
    BY <1>4, LenProperties
  <2>2. /\ DOMAIN pending' = 1 .. Len(pending) + 1
        /\ \A i \in 1 .. Len(pending) : pending'[i] = pending[i]
        /\ pending'[Len(pending) + 1] = c
    BY <1>3, <1>4, <2>1
  <2>3. \A i \in 1 .. Len(pending) : pending[i].line < n
    <3> TAKE i \in 1 .. Len(pending)
    <3>1. pending[i].line \in LinesOf(pending)
      BY <2>1 DEF LinesOf, ToSet
    <3>2. pending[i].line \in 1 .. Len(lines)
      BY <3>1 DEF ConditionsInv, Waiting
    <3> QED
      BY <1>2, <3>2
  <2>4. \A i, j \in 1 .. Len(pending) : i < j => pending[i].line < pending[j].line
    BY <2>1 DEF ConditionsInv, InOrder
  <2>5. ASSUME NEW i \in 1 .. Len(pending) + 1, NEW j \in 1 .. Len(pending) + 1, i < j
        PROVE  pending'[i].line < pending'[j].line
    <3>1. i \in 1 .. Len(pending)
      BY <2>1, <2>5
    <3>2. CASE j \in 1 .. Len(pending)
      BY <2>2, <2>4, <2>5, <3>1, <3>2
    <3>3. CASE j = Len(pending) + 1
      BY <1>3, <2>2, <2>3, <3>1, <3>3
    <3> QED
      BY <2>1, <3>2, <3>3
  <2> QED
    BY <2>2, <2>5 DEF InOrder
<1> QED
  BY <1>1, <1>7, <1>8, ConditionsTakenPart DEF ConditionsInv

LEMMA DirectiveKeepsConditions ==
    ASSUME ParserTypeOK, ConditionsInv, PushDirective
    PROVE  ConditionsInv'
<1> DEFINE n == Len(lines) + 1
           conds == IF IsRule(tokens) THEN pending ELSE <<>>
           d == DirectiveOf(tokens, n, files_match[depth], conds)
<1>1. ParseLine /\ IsDirective(tokens) /\ tokens \in Seq(Text) /\ tokens # <<>>
  BY DEF PushDirective, ParseLine, ParserTypeOK
<1>2. /\ Len(lines) \in Nat /\ Len(lines') = n /\ n \in Nat
      /\ \A k \in 1 .. Len(lines) : lines'[k] = lines[k]
  BY <1>1, ParseLineTypes
<1>3. conds \in Seq(Conditions)
  BY EmptySeq DEF ParserTypeOK
<1>4. /\ LinesOf(conds) = IF IsRule(tokens) THEN Waiting ELSE {}
      /\ InOrder(conds)
  <2>1. LinesOf(<<>>) = {} /\ InOrder(<<>>)
    BY DEF LinesOf, ToSet, InOrder
  <2> QED
    BY <2>1 DEF ConditionsInv
<1>5. directives \in Seq(Directives) /\ directives' = Append(directives, d)
  BY <1>2 DEF PushDirective, ParserTypeOK
<1>6. pending' = IF IsRule(tokens) THEN <<>> ELSE pending
  BY DEF PushDirective
<1> HIDE DEF conds
<1>7. d \in Directives
  BY <1>1, <1>2, <1>3, PatternInUse, LineGivesRecords
<1>8. d.line = n /\ d.conditions = conds /\ (d.id # "RewriteRule" <=> ~IsRule(tokens))
  BY <1>1 DEF DirectiveOf, IsRule, IsDirective
<1> HIDE DEF d
<1>9. ToSet(directives') = ToSet(directives) \cup {d}
  BY <1>5, <1>7, ElementsOfAppend
<1>10. n \in 1 .. Len(lines')
  BY <1>2
<1>11. n - 1 = Len(lines)
  BY <1>2
<1> HIDE DEF n
<1>12. Waiting = {k \in 1 .. n - 1 :
                   IsCond(lines'[k]) /\ \A m \in k .. n - 1 : ~IsRule(lines'[m])}
  <2>1. \A k \in 1 .. n - 1 : \A m \in k .. n - 1 : lines'[m] = lines[m]
    BY <1>2, <1>11
  <2> QED
    BY <1>2, <1>11, <2>1 DEF Waiting
<1>13. DirectivesAreOfLines'
  BY <1>1, <1>8, <1>9, <1>10, EarlierKept DEF DirectivesAreOfLines
<1>14. ConditionsBelong'
  <2>1. ASSUME NEW e \in ToSet(directives')
        PROVE  /\ LinesOf(e.conditions) =
                    IF e.id # "RewriteRule" THEN {}
                    ELSE {k \in 1 .. e.line - 1 :
                          IsCond(lines'[k]) /\ \A m \in k .. e.line - 1 : ~IsRule(lines'[m])}
               /\ InOrder(e.conditions)
    <3>1. CASE e \in ToSet(directives)
      BY <1>1, <3>1, EarlierKept
    <3>2. CASE e = d
      BY <1>4, <1>8, <1>12, <3>2
    <3> QED
      BY <1>9, <3>1, <3>2
  <2> QED
    BY <2>1, Zenon DEF ConditionsBelong, LinesOf, InOrder
<1>15. LinesOf(pending') = Waiting' /\ InOrder(pending')
  <2>1. LinesOf(<<>>) = {} /\ InOrder(<<>>)
    BY DEF LinesOf, ToSet, InOrder
  <2>2. ~IsCond(tokens)
    BY <1>1 DEF IsDirective, IsCond
  <2> QED
    BY <1>1, <1>6, <2>1, <2>2, WaitingStep DEF ConditionsInv
<1> QED
  BY <1>13, <1>14, <1>15 DEF ConditionsInv

LEMMA ConditionsKept == ParserTypeOK /\ ConditionsInv /\ [Next]_vars => ConditionsInv'
<1> SUFFICES ASSUME ParserTypeOK, ConditionsInv, [Next]_vars PROVE ConditionsInv'
  OBVIOUS
<1>1. CASE UNCHANGED <<parser, lines>>
  BY <1>1 DEF parser, ConditionsInv, Waiting, DirectivesAreOfLines, ConditionsBelong
<1>2. CASE CloseBlock \/ OpenBlock \/ OpenTooDeep \/ Unknown
  <2>1. ParseLine /\ pending' = pending
    BY <1>2 DEF CloseBlock, OpenBlock, OpenTooDeep, Unknown, parser
  <2>2. ~IsRule(tokens) /\ ~IsCond(tokens)
    BY <1>2 DEF CloseBlock, OpenBlock, OpenTooDeep, Unknown, Closes, Opens,
                IsRule, IsCond, Named
  <2>3. Waiting' = Waiting
    BY <2>1, <2>2, WaitingStep
  <2> QED
    BY <1>2, <2>1, <2>3, ConditionsTakenPart DEF ConditionsInv
<1>3. CASE Quoted \/ Tag \/ Word \/ EndLine \/ Unterminated \/ NextLine \/ PushFails
            \/ OutOfMemory \/ UNCHANGED vars
  BY <1>1, <1>3 DEF Quoted, Tag, Word, EndLine, Unterminated, NextLine, PushFails,
                    OutOfMemory, Push, Refuse, vars
<1> QED
  BY <1>2, <1>3, CondKeepsConditions, DirectiveKeepsConditions DEF Next

LEMMA ConditionsAtFirst == Init => ConditionsInv
<1> SUFFICES ASSUME Init PROVE ConditionsInv
  OBVIOUS
<1>1. Len(lines) = 0 /\ ToSet(pending) = {} /\ ToSet(directives) = {}
  BY DEF Init, ToSet
<1>2. Waiting = {}
  BY <1>1 DEF Waiting
<1>3. LinesOf(pending) = {}
  BY <1>1 DEF LinesOf
<1>4. InOrder(pending)
  BY DEF Init, InOrder
<1> QED
  BY <1>1, <1>2, <1>3, <1>4 DEF ConditionsInv, DirectivesAreOfLines, ConditionsBelong

\* pending_conds, which no line but a rule empties, is what that rule is to get: the
\* conditions written since the rule before it, all of them and in order.
THEOREM AlwaysConditionsBelong == Spec => []ConditionsBelong
<1>1. ConditionsInv => ConditionsBelong
  BY DEF ConditionsInv
<1> QED
  BY <1>1, ConditionsAtFirst, ConditionsKept, AlwaysTyped, PTL DEF Spec

-----------------------------------------------------------------------------
(* Blocks: the stack is made of the blocks that enclose the next line. *)

OpensIn(s, i, j) == Cardinality({m \in i + 1 .. j : Opens(s[m])})
ClosesIn(s, i, j) == Cardinality({m \in i + 1 .. j : Closes(s[m])})

\* Enclosing, for any sequence of lines.
EnclosingIn(s, k) ==
    {i \in 1 .. k - 1 :
       Opens(s[i]) /\ \A j \in i + 1 .. k - 1 : ClosesIn(s, i, j) <= OpensIn(s, i, j)}

LEMMA EnclosingIsIn == \A k : Enclosing(k) = EnclosingIn(lines, k)
  BY DEF Enclosing, EnclosingIn, OpensIn, ClosesIn, Quantify

\* Counting up to one line more.
LEMMA CountStep ==
    ASSUME NEW s, NEW i \in Nat, NEW j \in Nat, i <= j
    PROVE  /\ OpensIn(s, i, j) \in Nat /\ ClosesIn(s, i, j) \in Nat
           /\ OpensIn(s, i, i) = 0 /\ ClosesIn(s, i, i) = 0
           /\ OpensIn(s, i, j + 1) = OpensIn(s, i, j) + IF Opens(s[j + 1]) THEN 1 ELSE 0
           /\ ClosesIn(s, i, j + 1) = ClosesIn(s, i, j) + IF Closes(s[j + 1]) THEN 1 ELSE 0
<1> DEFINE O == {m \in i + 1 .. j : Opens(s[m])}
           C == {m \in i + 1 .. j : Closes(s[m])}
<1>1. IsFiniteSet(i + 1 .. j)
  BY FS_Interval
<1>2. O \in SUBSET (i + 1 .. j) /\ C \in SUBSET (i + 1 .. j)
  OBVIOUS
<1>3. IsFiniteSet(O) /\ IsFiniteSet(C)
  BY <1>1, <1>2, FS_Subset
<1>4. Cardinality(O) \in Nat /\ Cardinality(C) \in Nat
  BY <1>3, FS_CardinalityType
<1>5. i + 1 .. i = {}
  OBVIOUS
<1>6. i + 1 .. j + 1 = (i + 1 .. j) \cup {j + 1} /\ j + 1 \notin i + 1 .. j
  OBVIOUS
<1>7. {m \in i + 1 .. j + 1 : Opens(s[m])} = IF Opens(s[j + 1]) THEN O \cup {j + 1} ELSE O
  BY <1>6
<1>8. {m \in i + 1 .. j + 1 : Closes(s[m])} = IF Closes(s[j + 1]) THEN C \cup {j + 1} ELSE C
  BY <1>6
<1>9. j + 1 \notin O /\ j + 1 \notin C
  BY <1>6
<1>10. OpensIn(s, i, i) = 0 /\ ClosesIn(s, i, i) = 0
  <2>1. {m \in i + 1 .. i : Opens(s[m])} = {} /\ {m \in i + 1 .. i : Closes(s[m])} = {}
    BY <1>5
  <2> QED
    BY <2>1, FS_EmptySet DEF OpensIn, ClosesIn
<1>11. OpensIn(s, i, j) = Cardinality(O) /\ ClosesIn(s, i, j) = Cardinality(C)
  BY DEF OpensIn, ClosesIn
<1> HIDE DEF O, C
<1>12. Cardinality(O \cup {j + 1}) = Cardinality(O) + 1
       /\ Cardinality(C \cup {j + 1}) = Cardinality(C) + 1
  BY <1>3, <1>9, FS_AddElement
<1>13. OpensIn(s, i, j + 1) = OpensIn(s, i, j) + IF Opens(s[j + 1]) THEN 1 ELSE 0
  BY <1>4, <1>7, <1>11, <1>12 DEF OpensIn
<1>14. ClosesIn(s, i, j + 1) = ClosesIn(s, i, j) + IF Closes(s[j + 1]) THEN 1 ELSE 0
  BY <1>4, <1>8, <1>11, <1>12 DEF ClosesIn
<1> QED
  BY <1>4, <1>10, <1>11, <1>13, <1>14

\* Only the lines in question matter.
LEMMA EnclosingOfSame ==
    ASSUME NEW s, NEW t, NEW k \in Nat, \A i \in 1 .. k - 1 : s[i] = t[i]
    PROVE  EnclosingIn(s, k) = EnclosingIn(t, k)
<1>1. \A i \in 1 .. k - 1 : \A j \in i + 1 .. k - 1 : \A m \in i + 1 .. j : s[m] = t[m]
  OBVIOUS
<1>2. \A i \in 1 .. k - 1 : \A j \in i + 1 .. k - 1 :
         OpensIn(s, i, j) = OpensIn(t, i, j) /\ ClosesIn(s, i, j) = ClosesIn(t, i, j)
  <2> TAKE i \in 1 .. k - 1
  <2> TAKE j \in i + 1 .. k - 1
  <2>1. /\ {m \in i + 1 .. j : Opens(s[m])} = {m \in i + 1 .. j : Opens(t[m])}
        /\ {m \in i + 1 .. j : Closes(s[m])} = {m \in i + 1 .. j : Closes(t[m])}
    BY <1>1
  <2> QED
    BY <2>1 DEF OpensIn, ClosesIn
<1> QED
  BY <1>2 DEF EnclosingIn

\* The blocks around the line after line n + 1.
LEMMA EnclosingStep ==
    ASSUME NEW s, NEW n \in Nat
    PROVE  /\ EnclosingIn(s, n + 1) \subseteq 1 .. n
           /\ EnclosingIn(s, (n + 1) + 1) \subseteq 1 .. n + 1
           /\ n + 1 \in EnclosingIn(s, (n + 1) + 1) <=> Opens(s[n + 1])
           /\ \A i \in 1 .. n : i \in EnclosingIn(s, (n + 1) + 1) <=>
                /\ i \in EnclosingIn(s, n + 1)
                /\ ClosesIn(s, i, n + 1) <= OpensIn(s, i, n + 1)
<1>1. (n + 1) - 1 = n /\ ((n + 1) + 1) - 1 = n + 1
  OBVIOUS
<1>2. EnclosingIn(s, n + 1) =
        {i \in 1 .. n : Opens(s[i]) /\
           \A j \in i + 1 .. n : ClosesIn(s, i, j) <= OpensIn(s, i, j)}
  BY <1>1 DEF EnclosingIn
<1>3. EnclosingIn(s, (n + 1) + 1) =
        {i \in 1 .. n + 1 : Opens(s[i]) /\
           \A j \in i + 1 .. n + 1 : ClosesIn(s, i, j) <= OpensIn(s, i, j)}
  BY <1>1 DEF EnclosingIn
<1>4. (n + 1) + 1 .. n + 1 = {} /\ n + 1 \in 1 .. n + 1
  OBVIOUS
<1>5. ASSUME NEW i \in 1 .. n
      PROVE  i \in 1 .. n + 1 /\ i + 1 .. n + 1 = (i + 1 .. n) \cup {n + 1}
  OBVIOUS
<1> QED
  BY <1>2, <1>3, <1>4, <1>5

\* at holds the lines that opened the d blocks around line n + 1, the innermost
\* last; within block i, d - i more blocks have been opened than ended.
IsStack(s, n, d, at) ==
    /\ at \in [1 .. d -> 1 .. n]
    /\ \A i, j \in 1 .. d : i < j => at[i] < at[j]
    /\ EnclosingIn(s, n + 1) = {at[i] : i \in 1 .. d}
    /\ \A i \in 1 .. d : OpensIn(s, at[i], n) = ClosesIn(s, at[i], n) + (d - i)

LEMMA StackOfSame ==
    ASSUME NEW s, NEW t, NEW n \in Nat, NEW d \in Nat, NEW at,
           \A i \in 1 .. n : s[i] = t[i], IsStack(s, n, d, at)
    PROVE  IsStack(t, n, d, at)
<1>1. EnclosingIn(s, n + 1) = EnclosingIn(t, n + 1)
  BY EnclosingOfSame
<1>2. at \in [1 .. d -> 1 .. n]
  BY DEF IsStack
<1>3. ASSUME NEW i \in 1 .. d
      PROVE  OpensIn(s, at[i], n) = OpensIn(t, at[i], n)
             /\ ClosesIn(s, at[i], n) = ClosesIn(t, at[i], n)
  <2>1. \A m \in at[i] + 1 .. n : s[m] = t[m]
    BY <1>2
  <2>2. /\ {m \in at[i] + 1 .. n : Opens(s[m])} = {m \in at[i] + 1 .. n : Opens(t[m])}
        /\ {m \in at[i] + 1 .. n : Closes(s[m])} = {m \in at[i] + 1 .. n : Closes(t[m])}
    BY <2>1
  <2> QED
    BY <2>2 DEF OpensIn, ClosesIn
<1> QED
  BY <1>1, <1>3 DEF IsStack

\* How the counts of the open blocks change with the next line.
LEMMA StackCounts ==
    ASSUME NEW s, NEW n \in Nat, NEW d \in Nat, NEW at, IsStack(s, n, d, at)
    PROVE  \A i \in 1 .. d :
             /\ at[i] \in 1 .. n
             /\ OpensIn(s, at[i], n + 1) \in Nat /\ ClosesIn(s, at[i], n + 1) \in Nat
             /\ OpensIn(s, at[i], n + 1) + (IF Closes(s[n + 1]) THEN 1 ELSE 0) =
                  ClosesIn(s, at[i], n + 1) + (d - i) + (IF Opens(s[n + 1]) THEN 1 ELSE 0)
<1> TAKE i \in 1 .. d
<1>1. at[i] \in 1 .. n /\ at[i] \in Nat /\ at[i] <= n
  BY DEF IsStack
<1>2. OpensIn(s, at[i], n) = ClosesIn(s, at[i], n) + (d - i)
  BY DEF IsStack
<1>3. /\ OpensIn(s, at[i], n) \in Nat /\ ClosesIn(s, at[i], n) \in Nat
      /\ OpensIn(s, at[i], n + 1) = OpensIn(s, at[i], n) + IF Opens(s[n + 1]) THEN 1 ELSE 0
      /\ ClosesIn(s, at[i], n + 1) = ClosesIn(s, at[i], n) + IF Closes(s[n + 1]) THEN 1 ELSE 0
  BY <1>1, CountStep
<1> QED
  BY <1>1, <1>2, <1>3

LEMMA KindsOfTags == \A line : ~(Opens(line) /\ Closes(line))
  BY DEF Opens

\* A line that is no tag leaves the stack alone.
LEMMA StackStays ==
    ASSUME NEW s, NEW n \in Nat, NEW d \in Nat, NEW at, IsStack(s, n, d, at),
           ~Opens(s[n + 1]), ~Closes(s[n + 1])
    PROVE  IsStack(s, n + 1, d, at)
<1>1. \A i \in 1 .. d :
        /\ at[i] \in 1 .. n
        /\ OpensIn(s, at[i], n + 1) \in Nat /\ ClosesIn(s, at[i], n + 1) \in Nat
        /\ OpensIn(s, at[i], n + 1) = ClosesIn(s, at[i], n + 1) + (d - i)
  BY StackCounts
<1>2. \A i \in 1 .. d : ClosesIn(s, at[i], n + 1) <= OpensIn(s, at[i], n + 1)
  BY <1>1
<1>3. EnclosingIn(s, n + 1) = {at[i] : i \in 1 .. d}
  BY DEF IsStack
<1>4. EnclosingIn(s, (n + 1) + 1) = {at[i] : i \in 1 .. d}
  <2>1. 1 .. n + 1 = (1 .. n) \cup {n + 1}
    OBVIOUS
  <2>2. \A i \in 1 .. n : i \in EnclosingIn(s, (n + 1) + 1) <=> i \in {at[k] : k \in 1 .. d}
    BY <1>2, <1>3, EnclosingStep
  <2>3. EnclosingIn(s, (n + 1) + 1) \subseteq 1 .. n + 1 /\ n + 1 \notin EnclosingIn(s, (n + 1) + 1)
    BY EnclosingStep
  <2>4. {at[i] : i \in 1 .. d} \subseteq 1 .. n
    BY <1>1
  <2> QED
    BY <2>1, <2>2, <2>3, <2>4
<1>5. at \in [1 .. d -> 1 .. n + 1]
  BY DEF IsStack
<1> QED
  BY <1>1, <1>4, <1>5 DEF IsStack

\* The begin of a block is the new top.
LEMMA StackGrows ==
    ASSUME NEW s, NEW n \in Nat, NEW d \in Nat, NEW at, IsStack(s, n, d, at),
           Opens(s[n + 1])
    PROVE  IsStack(s, n + 1, d + 1, [i \in 1 .. d + 1 |-> IF i = d + 1 THEN n + 1 ELSE at[i]])
<1> DEFINE new == [i \in 1 .. d + 1 |-> IF i = d + 1 THEN n + 1 ELSE at[i]]
<1>1. \A i \in 1 .. d :
        /\ at[i] \in 1 .. n
        /\ OpensIn(s, at[i], n + 1) \in Nat /\ ClosesIn(s, at[i], n + 1) \in Nat
        /\ OpensIn(s, at[i], n + 1) = ClosesIn(s, at[i], n + 1) + (d - i) + 1
  BY StackCounts, KindsOfTags
<1>2. \A i \in 1 .. d : ClosesIn(s, at[i], n + 1) <= OpensIn(s, at[i], n + 1)
  BY <1>1
<1>3. EnclosingIn(s, n + 1) = {at[i] : i \in 1 .. d}
  BY DEF IsStack
<1>4. /\ new[d + 1] = n + 1 /\ \A i \in 1 .. d : new[i] = at[i]
      /\ 1 .. d + 1 = (1 .. d) \cup {d + 1}
  OBVIOUS
<1>5. new \in [1 .. d + 1 -> 1 .. n + 1]
  BY <1>1
<1> HIDE DEF new
<1>6. {new[i] : i \in 1 .. d + 1} = {at[i] : i \in 1 .. d} \cup {n + 1}
  BY <1>4
<1>7. EnclosingIn(s, (n + 1) + 1) = {new[i] : i \in 1 .. d + 1}
  <2>1. 1 .. n + 1 = (1 .. n) \cup {n + 1} /\ {at[i] : i \in 1 .. d} \subseteq 1 .. n
    BY <1>1
  <2>2. \A i \in 1 .. n : i \in EnclosingIn(s, (n + 1) + 1) <=> i \in {at[k] : k \in 1 .. d}
    BY <1>2, <1>3, EnclosingStep
  <2>3. EnclosingIn(s, (n + 1) + 1) \subseteq 1 .. n + 1 /\ n + 1 \in EnclosingIn(s, (n + 1) + 1)
    BY EnclosingStep
  <2> QED
    BY <1>6, <2>1, <2>2, <2>3
<1>8. ASSUME NEW i \in 1 .. d + 1, NEW j \in 1 .. d + 1, i < j PROVE new[i] < new[j]
  <2>1. i \in 1 .. d
    BY <1>8
  <2>2. CASE j = d + 1
    BY <1>1, <1>4, <2>1, <2>2
  <2>3. CASE j \in 1 .. d
    BY <1>4, <1>8, <2>1, <2>3 DEF IsStack
  <2> QED
    BY <1>4, <2>2, <2>3
<1>9. ASSUME NEW i \in 1 .. d + 1
      PROVE  OpensIn(s, new[i], n + 1) = ClosesIn(s, new[i], n + 1) + ((d + 1) - i)
  <2>1. CASE i = d + 1
    BY <1>4, <2>1, CountStep
  <2>2. CASE i \in 1 .. d
    BY <1>1, <1>4, <2>2
  <2> QED
    BY <1>4, <2>1, <2>2
<1>10. IsStack(s, n + 1, d + 1, new)
  BY <1>5, <1>7, <1>8, <1>9 DEF IsStack
<1> QED
  BY <1>10 DEF new

\* The end of a block takes the top away, if there is one.
LEMMA StackShrinks ==
    ASSUME NEW s, NEW n \in Nat, NEW d \in Nat, NEW at, IsStack(s, n, d, at),
           Closes(s[n + 1]), NEW e \in Nat, e = IF d > 0 THEN d - 1 ELSE d
    PROVE  IsStack(s, n + 1, e, [i \in 1 .. e |-> at[i]])
<1> DEFINE new == [i \in 1 .. e |-> at[i]]
<1>1. \A i \in 1 .. d :
        /\ at[i] \in 1 .. n
        /\ OpensIn(s, at[i], n + 1) \in Nat /\ ClosesIn(s, at[i], n + 1) \in Nat
        /\ OpensIn(s, at[i], n + 1) + 1 = ClosesIn(s, at[i], n + 1) + (d - i)
  BY StackCounts, KindsOfTags
<1>2. \A i \in 1 .. d : i \in 1 .. e <=> ClosesIn(s, at[i], n + 1) <= OpensIn(s, at[i], n + 1)
  BY <1>1
<1>3. EnclosingIn(s, n + 1) = {at[i] : i \in 1 .. d}
  BY DEF IsStack
<1>4. 1 .. e \subseteq 1 .. d
  OBVIOUS
<1>5. new \in [1 .. e -> 1 .. n + 1] /\ \A i \in 1 .. e : new[i] = at[i]
  <2>1. \A i \in 1 .. e : at[i] \in 1 .. n + 1
    BY <1>1, <1>4
  <2> QED
    BY <2>1
<1> HIDE DEF new
<1>6. {new[i] : i \in 1 .. e} = {at[i] : i \in 1 .. e}
  BY <1>5
<1>7. EnclosingIn(s, (n + 1) + 1) = {new[i] : i \in 1 .. e}
  <2>1. 1 .. n + 1 = (1 .. n) \cup {n + 1} /\ {at[i] : i \in 1 .. d} \subseteq 1 .. n
    BY <1>1
  <2>2. \A i \in 1 .. n : i \in EnclosingIn(s, (n + 1) + 1) <=> i \in {at[k] : k \in 1 .. e}
    <3> TAKE i \in 1 .. n
    <3>1. i \in EnclosingIn(s, (n + 1) + 1) <=>
            /\ \E k \in 1 .. d : i = at[k]
            /\ ClosesIn(s, i, n + 1) <= OpensIn(s, i, n + 1)
      BY <1>3, EnclosingStep
    <3> QED
      BY <1>2, <1>4, <3>1
  <2>3. {at[i] : i \in 1 .. e} \subseteq 1 .. n
    BY <1>1, <1>4
  <2>4. EnclosingIn(s, (n + 1) + 1) \subseteq 1 .. n + 1 /\ n + 1 \notin EnclosingIn(s, (n + 1) + 1)
    BY KindsOfTags, EnclosingStep
  <2> QED
    BY <1>6, <2>1, <2>2, <2>3, <2>4
<1>8. \A i, j \in 1 .. e : i < j => new[i] < new[j]
  BY <1>4, <1>5 DEF IsStack
<1>9. \A i \in 1 .. e : OpensIn(s, new[i], n + 1) = ClosesIn(s, new[i], n + 1) + (e - i)
  <2> TAKE i \in 1 .. e
  <2>1. i \in 1 .. d /\ new[i] = at[i] /\ e = d - 1
    BY <1>4, <1>5
  <2>2. /\ OpensIn(s, at[i], n + 1) \in Nat /\ ClosesIn(s, at[i], n + 1) \in Nat
        /\ OpensIn(s, at[i], n + 1) + 1 = ClosesIn(s, at[i], n + 1) + (d - i)
    BY <1>1, <2>1
  <2>3. i \in Int /\ \A a, b \in Nat : a + 1 = b + (d - i) => a = b + (e - i)
    BY <2>1
  <2>4. OpensIn(s, at[i], n + 1) = ClosesIn(s, at[i], n + 1) + (e - i)
    BY <2>2, <2>3, Zenon
  <2> QED
    BY <2>1, <2>4
<1>10. IsStack(s, n + 1, e, new)
  BY <1>5, <1>7, <1>8, <1>9 DEF IsStack
<1> QED
  BY <1>10 DEF new

\* The stack is as high as there are blocks around the line, and its top is
\* the innermost.
LEMMA StackIsEnclosing ==
    ASSUME NEW s, NEW n \in Nat, NEW d \in Nat, NEW at, IsStack(s, n, d, at)
    PROVE  /\ Cardinality(EnclosingIn(s, n + 1)) = d
           /\ EnclosingIn(s, n + 1) = {} <=> d = 0
           /\ d # 0 => Max(EnclosingIn(s, n + 1)) = at[d]
<1> DEFINE E == EnclosingIn(s, n + 1)
<1>1. at \in [1 .. d -> 1 .. n] /\ E = {at[i] : i \in 1 .. d}
  BY DEF IsStack
<1>2. \A i, j \in 1 .. d : i < j => at[i] < at[j]
  BY DEF IsStack
<1>3. Cardinality(E) = d
  <2>1. \A i, j \in 1 .. d : at[i] = at[j] => i = j
    BY <1>1, <1>2
  <2>2. at \in [1 .. d -> E] /\ \A x \in E : \E i \in 1 .. d : at[i] = x
    BY <1>1
  <2>3. ExistsBijection(1 .. d, E)
    BY <2>1, <2>2 DEF ExistsBijection, Bijection, Injection, Surjection, IsInjective
  <2> QED
    BY <2>3, FS_CountingElements
<1>4. E = {} <=> d = 0
  <2>1. d # 0 => 1 \in 1 .. d
    OBVIOUS
  <2> QED
    BY <1>1, <2>1
<1>5. ASSUME d # 0 PROVE Max(E) = at[d]
  <2>1. d \in 1 .. d /\ at[d] \in E /\ E \subseteq Nat
    BY <1>1, <1>5
  <2>2. \A x \in E : at[d] >= x
    BY <1>1, <1>2, <2>1
  <2>3. \A x \in E : (\A y \in E : x >= y) => x = at[d]
    BY <2>1, <2>2
  <2> QED
    BY <2>1, <2>2, <2>3 DEF Max
<1> QED
  BY <1>3, <1>4, <1>5

\* The stack of patterns is that of the blocks around the next line.
PatternsOfStack(at) ==
    /\ IsStack(lines, Len(lines), depth, at)
    /\ \A i \in 1 .. depth : files_match[i] = FilesMatch(lines[at[i]][1])

\* The inductive invariant: while there is room for the blocks, the stack is theirs.
ScopeInv ==
    /\ DirectivesAreOfLines
    /\ PatternsAreScoped
    /\ RoomForBlocks => \E at \in [1 .. depth -> 1 .. Len(lines)] : PatternsOfStack(at)

\* Room for the blocks of more lines is room for those of fewer.
LEMMA RoomBefore ==
    ASSUME ParserTypeOK, ParseLine
    PROVE  /\ \A k \in 1 .. Len(lines) + 1 : Enclosing(k)' = Enclosing(k)
           /\ RoomForBlocks' => RoomForBlocks
           /\ RoomForBlocks' => Cardinality(EnclosingIn(lines', (Len(lines) + 1) + 1)) <= MaxDepth
<1>1. /\ Len(lines) \in Nat /\ Len(lines') = Len(lines) + 1
      /\ \A k \in 1 .. Len(lines) : lines'[k] = lines[k]
  BY ParseLineTypes
<1>2. \A k : Enclosing(k)' = EnclosingIn(lines', k)
  BY DEF Enclosing, EnclosingIn, OpensIn, ClosesIn, Quantify
<1>3. ASSUME NEW k \in 1 .. Len(lines) + 1 PROVE Enclosing(k)' = Enclosing(k)
  <2>1. k \in Nat /\ \A i \in 1 .. k - 1 : lines[i] = lines'[i]
    BY <1>1
  <2>2. EnclosingIn(lines, k) = EnclosingIn(lines', k)
    BY <2>1, EnclosingOfSame
  <2> QED
    BY <1>2, <2>2, EnclosingIsIn
<1>4. RoomForBlocks' => \A k \in 1 .. (Len(lines) + 1) + 1 : Cardinality(Enclosing(k)') <= MaxDepth
  BY <1>1 DEF RoomForBlocks
<1>5. RoomForBlocks' => RoomForBlocks
  <2>1. \A k \in 1 .. Len(lines) + 1 : k \in 1 .. (Len(lines) + 1) + 1
    BY <1>1
  <2> QED
    BY <1>3, <1>4, <2>1 DEF RoomForBlocks
<1>6. (Len(lines) + 1) + 1 \in 1 .. (Len(lines) + 1) + 1
  BY <1>1
<1> QED
  BY <1>2, <1>3, <1>4, <1>5, <1>6

\* PatternsAreScoped after a step.
LEMMA ScopedNext ==
    PatternsAreScoped' <=>
      (RoomForBlocks' => \A d \in ToSet(directives') :
         d.files_match = IF EnclosingIn(lines', d.line) = {} THEN <<>>
                         ELSE FilesMatch(lines'[Max(EnclosingIn(lines', d.line))][1]))
<1>1. \A k : Enclosing(k)' = EnclosingIn(lines', k)
  BY DEF Enclosing, EnclosingIn, OpensIn, ClosesIn, Quantify
<1>2. PatternsAreScoped' <=>
        (RoomForBlocks' => \A d \in ToSet(directives') :
           d.files_match = IF Enclosing(d.line)' = {} THEN <<>>
                           ELSE FilesMatch(lines'[Max(Enclosing(d.line)')][1]))
  BY DEF PatternsAreScoped
<1> QED
  BY <1>1, <1>2, Zenon

\* What a directive of an earlier line has been given stays right.
LEMMA EarlierPatternsKept ==
    ASSUME ParserTypeOK, ParseLine, ScopeInv, RoomForBlocks'
    PROVE  \A d \in ToSet(directives) :
             /\ d.line \in 1 .. Len(lines')
             /\ d.files_match = IF EnclosingIn(lines', d.line) = {} THEN <<>>
                                ELSE FilesMatch(lines'[Max(EnclosingIn(lines', d.line))][1])
<1>1. /\ Len(lines) \in Nat /\ Len(lines') = Len(lines) + 1
      /\ \A k \in 1 .. Len(lines) : lines'[k] = lines[k]
  BY ParseLineTypes
<1> TAKE d \in ToSet(directives)
<1>2. d.line \in 1 .. Len(lines)
  BY DEF ScopeInv, DirectivesAreOfLines
<1>3. d.line \in 1 .. Len(lines') /\ d.line \in 1 .. Len(lines) + 1
  BY <1>1, <1>2
<1>4. RoomForBlocks
  BY RoomBefore
<1>5. d.files_match = IF Enclosing(d.line) = {} THEN <<>>
                      ELSE FilesMatch(lines[Max(Enclosing(d.line))][1])
  BY <1>4 DEF ScopeInv, PatternsAreScoped
<1>6. EnclosingIn(lines', d.line) = Enclosing(d.line)
  <2>1. d.line \in Nat /\ \A i \in 1 .. d.line - 1 : lines[i] = lines'[i]
    BY <1>1, <1>2
  <2> QED
    BY <2>1, EnclosingOfSame, EnclosingIsIn
<1>7. ASSUME Enclosing(d.line) # {} PROVE Max(Enclosing(d.line)) \in 1 .. Len(lines)
  <2>1. Enclosing(d.line) \subseteq 1 .. d.line - 1
    BY DEF Enclosing
  <2>2. \E x \in Enclosing(d.line) : \A y \in Enclosing(d.line) : x >= y
    <3> DEFINE S == {d.line - y : y \in Enclosing(d.line)}
    <3>1. S \in SUBSET Nat /\ S # {}
      BY <1>2, <1>7, <2>1
    <3>2. Min(S) \in S
      BY <3>1, MinIsLeast
    <3>3. \A y \in S : Min(S) =< y
      BY <3>1, MinIsLeast
    <3>4. PICK x \in Enclosing(d.line) : Min(S) = d.line - x
      BY <3>2
    <3>5. \A y \in Enclosing(d.line) : d.line - x =< d.line - y
      BY <3>3, <3>4
    <3> QED
      BY <1>2, <2>1, <3>5
  <2>3. Max(Enclosing(d.line)) \in Enclosing(d.line)
    BY <2>2 DEF Max
  <2> QED
    BY <1>2, <2>1, <2>3
<1>8. Enclosing(d.line) # {} => lines'[Max(Enclosing(d.line))] = lines[Max(Enclosing(d.line))]
  BY <1>1, <1>7
<1> QED
  BY <1>3, <1>5, <1>6, <1>8

\* Lines that have no directive keep the patterns right.
LEMMA NoDirectiveKeepsPatterns ==
    ASSUME ParserTypeOK, ParseLine, ScopeInv, directives' = directives
    PROVE  DirectivesAreOfLines' /\ PatternsAreScoped'
<1>1. DirectivesAreOfLines'
  <2>1. \A d \in ToSet(directives) : d.line \in 1 .. Len(lines')
    BY ParseLineTypes DEF ScopeInv, DirectivesAreOfLines
  <2> QED
    BY <2>1 DEF DirectivesAreOfLines
<1>2. PatternsAreScoped'
  BY EarlierPatternsKept, ScopedNext
<1> QED
  BY <1>1, <1>2

\* A line that is a tag, or nothing to the parser.
LEMMA TagKeepsScopes ==
    ASSUME ParserTypeOK, ScopeInv, CloseBlock \/ OpenBlock \/ OpenTooDeep \/ Unknown \/ PushCond
    PROVE  ScopeInv'
<1> DEFINE n == Len(lines)
<1>1. ParseLine /\ directives' = directives
  BY DEF CloseBlock, OpenBlock, OpenTooDeep, Unknown, PushCond, parser
<1>2. /\ n \in Nat /\ Len(lines') = n + 1 /\ lines'[n + 1] = tokens
      /\ \A k \in 1 .. n : lines'[k] = lines[k]
  BY <1>1, ParseLineTypes
<1>3. SUFFICES ASSUME RoomForBlocks'
               PROVE  \E at \in [1 .. depth' -> 1 .. n + 1] : PatternsOfStack(at)'
  BY <1>1, <1>2, NoDirectiveKeepsPatterns DEF ScopeInv
<1>4. PICK at \in [1 .. depth -> 1 .. n] : PatternsOfStack(at)
  BY <1>1, <1>3, RoomBefore DEF ScopeInv
<1>5. depth \in Nat
  BY DepthAssumption DEF ParserTypeOK
<1>6. IsStack(lines', n, depth, at)
  BY <1>2, <1>4, <1>5, StackOfSame DEF PatternsOfStack
<1>7. \A i \in 1 .. depth : files_match[i] = FilesMatch(lines'[at[i]][1]) /\ at[i] \in 1 .. n
  BY <1>2, <1>4 DEF PatternsOfStack
<1>8. CASE CloseBlock
  <2> DEFINE e == IF depth > 0 THEN depth - 1 ELSE depth
             new == [i \in 1 .. e |-> at[i]]
  <2>1. depth' = e /\ files_match' = files_match /\ Closes(lines'[n + 1]) /\ e \in Nat
        /\ 1 .. e \subseteq 1 .. depth
    BY <1>2, <1>5, <1>8 DEF CloseBlock
  <2> HIDE DEF e
  <2>2. IsStack(lines', n + 1, e, new)
    BY <1>2, <1>5, <1>6, <2>1, StackShrinks DEF e
  <2>3. \A i \in 1 .. e : files_match'[i] = FilesMatch(lines'[new[i]][1])
    BY <1>7, <2>1
  <2> HIDE DEF new
  <2>4. PICK w : w = new
    OBVIOUS
  <2>5. w \in [1 .. depth' -> 1 .. n + 1]
    BY <2>1, <2>2, <2>4 DEF IsStack
  <2>6. PatternsOfStack(w)'
    BY <1>2, <2>1, <2>2, <2>3, <2>4 DEF PatternsOfStack
  <2> QED
    BY <2>5, <2>6
<1>9. CASE OpenBlock
  <2> DEFINE new == [i \in 1 .. depth + 1 |-> IF i = depth + 1 THEN n + 1 ELSE at[i]]
  <2>1. /\ depth' = depth + 1 /\ Opens(lines'[n + 1]) /\ depth + 1 \in 0 .. MaxDepth
        /\ files_match' = [files_match EXCEPT ![depth + 1] = FilesMatch(tokens[1])]
        /\ DOMAIN files_match = 0 .. MaxDepth
    BY <1>2, <1>5, <1>9, DepthAssumption DEF OpenBlock, ParserTypeOK
  <2>2. IsStack(lines', n + 1, depth + 1, new)
    BY <1>2, <1>5, <1>6, <2>1, StackGrows
  <2>3. \A i \in 1 .. depth + 1 : files_match'[i] = FilesMatch(lines'[new[i]][1])
    <3> TAKE i \in 1 .. depth + 1
    <3>1. CASE i = depth + 1
      BY <1>2, <2>1, <3>1
    <3>2. CASE i # depth + 1
      <4>1. i \in 1 .. depth /\ new[i] = at[i] /\ files_match'[i] = files_match[i]
        BY <1>5, <2>1, <3>2
      <4> QED
        BY <1>7, <4>1
    <3> QED
      BY <3>1, <3>2
  <2> HIDE DEF new
  <2>4. PICK w : w = new
    OBVIOUS
  <2>5. w \in [1 .. depth' -> 1 .. n + 1]
    BY <2>1, <2>2, <2>4 DEF IsStack
  <2>6. PatternsOfStack(w)'
    BY <1>2, <2>1, <2>2, <2>3, <2>4 DEF PatternsOfStack
  <2> QED
    BY <2>5, <2>6
<1>10. CASE OpenTooDeep
  <2> DEFINE new == [i \in 1 .. depth + 1 |-> IF i = depth + 1 THEN n + 1 ELSE at[i]]
  <2>1. IsStack(lines', n + 1, depth + 1, new)
    BY <1>2, <1>5, <1>6, <1>10, StackGrows DEF OpenTooDeep
  <2>2. Cardinality(EnclosingIn(lines', (n + 1) + 1)) = depth + 1
    BY <1>2, <1>5, <2>1, StackIsEnclosing
  <2>3. Cardinality(EnclosingIn(lines', (n + 1) + 1)) <= MaxDepth
    BY <1>1, <1>3, RoomBefore
  <2> QED
    BY <1>5, <1>10, <2>2, <2>3 DEF OpenTooDeep
<1>11. CASE Unknown \/ PushCond
  <2>1. depth' = depth /\ files_match' = files_match
    BY <1>11 DEF Unknown, PushCond, parser
  <2>2. ~Opens(lines'[n + 1]) /\ ~Closes(lines'[n + 1])
    BY <1>2, <1>11 DEF Unknown, PushCond, IsCond, Named, Opens, Closes
  <2>3. IsStack(lines', n + 1, depth, at)
    BY <1>2, <1>5, <1>6, <2>2, StackStays
  <2>4. at \in [1 .. depth' -> 1 .. n + 1]
    BY <2>1, <2>3 DEF IsStack
  <2>5. PatternsOfStack(at)'
    BY <1>2, <1>7, <2>1, <2>3 DEF PatternsOfStack
  <2> QED
    BY <2>4, <2>5
<1> QED
  BY <1>8, <1>9, <1>10, <1>11

\* A directive gets the top of the stack.
LEMMA DirectiveKeepsScopes ==
    ASSUME ParserTypeOK, ScopeInv, PushDirective
    PROVE  ScopeInv'
<1> DEFINE n == Len(lines)
           conds == IF IsRule(tokens) THEN pending ELSE <<>>
           d == DirectiveOf(tokens, n + 1, files_match[depth], conds)
<1>1. ParseLine /\ IsDirective(tokens) /\ tokens \in Seq(Text) /\ tokens # <<>>
  BY DEF PushDirective, ParseLine, ParserTypeOK
<1>2. /\ n \in Nat /\ n + 1 \in Nat /\ Len(lines') = n + 1 /\ lines'[n + 1] = tokens
      /\ \A k \in 1 .. n : lines'[k] = lines[k]
  BY <1>1, ParseLineTypes
<1>3. conds \in Seq(Conditions)
  BY EmptySeq DEF ParserTypeOK
<1>4. directives \in Seq(Directives) /\ directives' = Append(directives, d)
      /\ depth' = depth /\ files_match' = files_match
  BY <1>2 DEF PushDirective, ParserTypeOK
<1> HIDE DEF conds
<1>5. d \in Directives /\ d.line = n + 1 /\ d.files_match = files_match[depth]
  BY <1>1, <1>2, <1>3, PatternInUse, LineGivesRecords DEF DirectiveOf
<1> HIDE DEF d
<1>6. ToSet(directives') = ToSet(directives) \cup {d}
  BY <1>4, <1>5, ElementsOfAppend
<1>7. DirectivesAreOfLines'
  <2>1. \A e \in ToSet(directives) : e.line \in 1 .. n
    BY DEF ScopeInv, DirectivesAreOfLines
  <2>2. \A e \in ToSet(directives') : e.line \in 1 .. n + 1
    BY <1>2, <1>5, <1>6, <2>1
  <2> QED
    BY <1>2, <2>2 DEF DirectivesAreOfLines
<1>8. SUFFICES ASSUME RoomForBlocks'
               PROVE  /\ PatternsAreScoped'
                      /\ \E at \in [1 .. depth' -> 1 .. n + 1] : PatternsOfStack(at)'
  <2>1. ~RoomForBlocks' => PatternsAreScoped'
    BY DEF PatternsAreScoped
  <2> QED
    BY <1>2, <1>7, <2>1 DEF ScopeInv
<1>9. PICK at \in [1 .. depth -> 1 .. n] : PatternsOfStack(at)
  BY <1>1, <1>8, RoomBefore DEF ScopeInv
<1>10. depth \in Nat /\ files_match[0] = <<>>
  BY DepthAssumption DEF ParserTypeOK
<1>11. IsStack(lines, n, depth, at) /\ IsStack(lines', n, depth, at)
  BY <1>2, <1>9, <1>10, StackOfSame DEF PatternsOfStack
<1>12. \A i \in 1 .. depth : files_match[i] = FilesMatch(lines'[at[i]][1]) /\ at[i] \in 1 .. n
  BY <1>2, <1>9 DEF PatternsOfStack
<1>13. PatternsOfStack(at)' /\ at \in [1 .. depth' -> 1 .. n + 1]
  <2>1. ~Opens(lines'[n + 1]) /\ ~Closes(lines'[n + 1])
    BY <1>1, <1>2 DEF IsDirective, Named, Opens, Closes
  <2>2. IsStack(lines', n + 1, depth, at)
    BY <1>2, <1>10, <1>11, <2>1, StackStays
  <2> QED
    BY <1>2, <1>4, <1>12, <2>2 DEF PatternsOfStack, IsStack
<1>15. d.files_match = IF EnclosingIn(lines', d.line) = {} THEN <<>>
                       ELSE FilesMatch(lines'[Max(EnclosingIn(lines', d.line))][1])
  <2>1. /\ EnclosingIn(lines', n + 1) = {} <=> depth = 0
        /\ depth # 0 => Max(EnclosingIn(lines', n + 1)) = at[depth]
    BY <1>2, <1>10, <1>11, StackIsEnclosing
  <2>2. depth # 0 => files_match[depth] = FilesMatch(lines'[at[depth]][1])
    BY <1>10, <1>12
  <2> QED
    BY <1>5, <1>10, <2>1, <2>2
<1>16. PatternsAreScoped'
  <2>1. ASSUME NEW e \in ToSet(directives')
        PROVE  e.files_match = IF EnclosingIn(lines', e.line) = {} THEN <<>>
                               ELSE FilesMatch(lines'[Max(EnclosingIn(lines', e.line))][1])
    <3>1. CASE e \in ToSet(directives)
      BY <1>1, <1>8, <3>1, EarlierPatternsKept
    <3>2. CASE e = d
      BY <1>15, <3>2
    <3> QED
      BY <1>6, <3>1, <3>2
  <2> QED
    BY <2>1, ScopedNext
<1> QED
  BY <1>13, <1>16

LEMMA ScopesKept == ParserTypeOK /\ ScopeInv /\ [Next]_vars => ScopeInv'
<1> SUFFICES ASSUME ParserTypeOK, ScopeInv, [Next]_vars PROVE ScopeInv'
  OBVIOUS
<1>1. CASE UNCHANGED <<parser, lines>>
  <2>1. RoomForBlocks' = RoomForBlocks
    BY <1>1 DEF parser, RoomForBlocks, Enclosing, Quantify
  <2>3. PatternsAreScoped'
    <3>1. \A k : Enclosing(k) = EnclosingIn(lines', k)
      BY <1>1, EnclosingIsIn
    <3> QED
      BY <1>1, <2>1, <3>1, ScopedNext DEF parser, ScopeInv, PatternsAreScoped
  <2>2. \A at : PatternsOfStack(at)' = PatternsOfStack(at)
    BY <1>1 DEF parser, PatternsOfStack
  <2> QED
    BY <1>1, <2>1, <2>2, <2>3 DEF parser, ScopeInv, DirectivesAreOfLines
<1>2. CASE Quoted \/ Tag \/ Word \/ EndLine \/ Unterminated \/ NextLine \/ PushFails
            \/ OutOfMemory \/ UNCHANGED vars
  BY <1>1, <1>2 DEF Quoted, Tag, Word, EndLine, Unterminated, NextLine, PushFails,
                    OutOfMemory, Push, Refuse, vars
<1> QED
  BY <1>2, TagKeepsScopes, DirectiveKeepsScopes DEF Next

LEMMA ScopesAtFirst == Init => ScopeInv
<1> SUFFICES ASSUME Init PROVE ScopeInv
  OBVIOUS
<1>1. Len(lines) = 0 /\ ToSet(directives) = {} /\ depth = 0
  BY DEF Init, ToSet
<1> DEFINE at == [i \in 1 .. 0 |-> 0]
<1>2. EnclosingIn(lines, 0 + 1) = {}
  BY DEF EnclosingIn
<1>3. 1 .. 0 = {}
  OBVIOUS
<1>4. at \in [1 .. depth -> 1 .. Len(lines)] /\ PatternsOfStack(at)
  BY <1>1, <1>2, <1>3 DEF PatternsOfStack, IsStack
<1> QED
  BY <1>1, <1>4 DEF ScopeInv, DirectivesAreOfLines, PatternsAreScoped

\* While blocks are not nested deeper than the arrays of htaccess_parse have room
\* for, a directive has the pattern of the innermost block around it, whatever
\* has been opened and closed before: the invariant says that the array holds, by
\* depth, the blocks that enclose the next line, and how many more blocks have
\* been opened than ended in each.
THEOREM AlwaysScoped == Spec => []PatternsAreScoped
<1>1. ScopeInv => PatternsAreScoped
  BY DEF ScopeInv
<1> QED
  BY <1>1, ScopesAtFirst, ScopesKept, AlwaysTyped, PTL DEF Spec

-----------------------------------------------------------------------------
(* Progress. *)

\* A search from a place that does not hold what is looked for ends behind it.
LEMMA SearchesGoOn ==
    ASSUME text \in Text, NEW i \in 1 .. Len(text), NEW S
    PROVE  /\ text[i] \notin S => Find(i, S) \in i + 1 .. End
           /\ text[i] \in S => FindNot(i, S) \in i + 1 .. End
           /\ text[i] \notin S => FindUnescaped(i, S) \in i + 1 .. End
<1>1. Len(text) \in Nat /\ End = Len(text) + 1 /\ i \in 1 .. End /\ i # End
  BY LenProperties DEF Text, End
<1>2. ASSUME NEW T, T \subseteq i .. Len(text), i \notin T
      PROVE  Min(T \cup {End}) # i
  <2>1. T \cup {End} \in SUBSET Nat /\ T \cup {End} # {}
    <3>1. End \in Nat /\ \A t \in T : t \in Nat
      BY <1>1, <1>2
    <3> QED
      BY <3>1
  <2>2. Min(T \cup {End}) \in T \cup {End}
    BY <2>1, MinIsLeast
  <2> QED
    BY <1>1, <1>2, <2>2
<1>3. text[i] \notin S => Find(i, S) # i
  BY <1>2 DEF Find
<1>4. text[i] \in S => FindNot(i, S) # i
  BY <1>2 DEF FindNot
<1>5. text[i] \notin S => FindUnescaped(i, S) # i
  BY <1>2 DEF FindUnescaped
<1> QED
  BY <1>1, <1>3, <1>4, <1>5, SearchesStayInText

\* htaccess_lex_line never stays where it is, unless it is at the end.
LEMMA LexerGoesOn ==
    ASSUME ParserTypeOK, Quoted \/ Tag \/ Word \/ EndLine
    PROVE  /\ p < p' \/ (EndLine /\ p = End /\ p' = End)
           /\ p' \in 1 .. End /\ text' = text
<1>1. /\ text \in Text /\ p \in 1 .. End /\ Len(text) \in Nat /\ End = Len(text) + 1
      /\ Start \in p .. End
      /\ ~LineEnds => Start < End /\ TokenEnd \in Start .. End
  BY TokenInText, LenProperties DEF ParserTypeOK, End, Text
<1>2. text' = text
  BY DEF Quoted, Tag, Word, EndLine, Push, text
<1>3. CASE Quoted \/ Tag
  <2>1. p' = TokenEnd + 1 /\ TokenEnd # End /\ ~LineEnds
    BY <1>3 DEF Quoted, Tag, Push
  <2> QED
    BY <1>1, <1>2, <2>1
<1>4. CASE Word
  <2>1. p' = TokenEnd /\ ~LineEnds /\ ~Delimited
    BY <1>4 DEF Word, Push
  <2>2. Start \in 1 .. Len(text) /\ Start # End
    BY <1>1, <2>1
  <2>3. text[Start] # "quote" /\ text[Start] # "less" /\ text[Start] # "hash" /\ text[Start] # "newline"
    BY <2>1, <2>2 DEF Delimited, LineEnds
  <2>4. text[Start] # "blank"
    <3>1. Start \in {j \in p .. Len(text) : text[j] \notin {"blank"}} \cup {End}
      <4> DEFINE T == {j \in p .. Len(text) : text[j] \notin {"blank"}} \cup {End}
      <4>1. T \in SUBSET Nat /\ T # {}
        BY <1>1
      <4>2. Min(T) \in T
        BY <4>1, MinIsLeast
      <4> QED
        BY <4>2 DEF Start, FindNot
    <3> QED
      BY <2>2, <3>1
  <2>5. TokenEnd = FindUnescaped(Start, {"blank", "newline", "hash"})
    BY <2>3 DEF TokenEnd
  <2>6. TokenEnd \in Start + 1 .. End
    BY <1>1, <2>2, <2>3, <2>4, <2>5, SearchesGoOn
  <2> QED
    BY <1>1, <1>2, <2>1, <2>6
<1>5. CASE EndLine
  <2>1. p' = SkipLine(Start) /\ LineEnds
    BY <1>5 DEF EndLine
  <2> DEFINE eol == Find(Start, {"newline"})
  <2>2. eol \in Start .. End /\ eol \in 1 .. End
    BY <1>1, SearchesStayInText
  <2> HIDE DEF eol
  <2>3. SkipLine(Start) = FindNot(eol, {"newline"})
    BY DEF SkipLine, eol
  <2>4. SkipLine(Start) \in eol .. End
    BY <1>1, <2>2, <2>3, SearchesStayInText
  <2>5. CASE p = End
    BY <1>1, <1>2, <1>5, <2>1, <2>2, <2>4, <2>5
  <2>6. CASE p # End /\ Start = End
    BY <1>1, <1>2, <2>1, <2>2, <2>4, <2>6
  <2>7. CASE Start # End
    <3>1. Start \in 1 .. Len(text)
      BY <1>1, <2>7
    <3>2. CASE text[Start] = "newline"
      <4>1. eol = Start
        <5> DEFINE T == {j \in Start .. Len(text) : text[j] \in {"newline"}} \cup {End}
        <5>1. T \in SUBSET Nat /\ T # {} /\ Start \in T
          BY <1>1, <3>1, <3>2
        <5>2. Min(T) <= Start
          BY <5>1, MinIsLeast
        <5>3. eol = Min(T)
          BY DEF eol, Find
        <5> QED
          BY <1>1, <2>2, <5>2, <5>3
      <4>2. FindNot(Start, {"newline"}) \in Start + 1 .. End
        BY <1>1, <3>1, <3>2, SearchesGoOn
      <4> QED
        BY <1>1, <1>2, <2>1, <2>3, <4>1, <4>2
    <3>3. CASE text[Start] # "newline"
      <4>1. eol \in Start + 1 .. End
        BY <1>1, <3>1, <3>3, SearchesGoOn DEF eol
      <4> QED
        BY <1>1, <1>2, <2>1, <2>4, <4>1
    <3> QED
      BY <3>2, <3>3
  <2> QED
    BY <2>5, <2>6, <2>7
<1> QED
  BY <1>3, <1>4, <1>5

\* A place further on is worth four steps.
LEMMA FurtherOn ==
    ASSUME NEW a \in Nat, NEW b \in Nat, NEW e \in Nat, a < b, b <= e, NEW x \in 0 .. 3
    PROVE  4 * (e - b) + x < 4 * (e - a) + 0
  OBVIOUS

LEMMA ConsumeStep ==
    ASSUME ParserTypeOK, Next
    PROVE  StepsLeft' < StepsLeft \/ (pc # "done" /\ pc' = "done")
<1>1. p \in 1 .. End /\ End \in Nat
  BY TokenInText DEF ParserTypeOK
<1>2. CASE Quoted \/ Tag \/ Word \/ EndLine
  <2>1. /\ p < p' \/ (EndLine /\ p = End /\ p' = End)
        /\ p' \in 1 .. End /\ End' = End
    BY <1>2, LexerGoesOn DEF End
  <2>2. pc = "line" /\ (EndLine => pc' # "line")
    BY <1>2 DEF Quoted, Tag, Word, EndLine
  <2>3. CASE p < p'
    <3>1. p \in Nat /\ p' \in Nat /\ End \in Nat /\ p # End /\ p' <= End
      BY <1>1, <2>1, <2>3
    <3>2. StageSteps' \in 0 .. 3 /\ StageSteps = 0
      BY <2>2, <3>1 DEF StageSteps
    <3>3. 4 * (End - p') + StageSteps' < 4 * (End - p) + StageSteps
      BY <2>3, <3>1, <3>2, FurtherOn
    <3> QED
      BY <2>1, <3>3 DEF StepsLeft
  <2>4. CASE EndLine /\ p = End /\ p' = End
    BY <1>1, <2>1, <2>2, <2>4 DEF StepsLeft, StageSteps
  <2> QED
    BY <2>1, <2>3, <2>4
<1>3. CASE CloseBlock \/ OpenBlock \/ OpenTooDeep \/ Unknown \/ PushCond \/ PushDirective
  <2>1. ParseLine
    BY <1>3 DEF CloseBlock, OpenBlock, OpenTooDeep, Unknown, PushCond, PushDirective
  <2>2. /\ p' = p /\ End' = End /\ pc = "parse" /\ pc' = "parse"
        /\ tokens # <<>> /\ tokens' = <<>>
    BY <2>1 DEF ParseLine, End, text
  <2> QED
    BY <1>1, <2>2 DEF StepsLeft, StageSteps
<1>4. CASE NextLine
  <2>1. CASE p = End
    BY <1>4, <2>1 DEF NextLine
  <2>2. CASE p # End
    <3>1. p' = p /\ End' = End /\ pc = "parse" /\ pc' = "line" /\ tokens = <<>>
      BY <1>4, <2>2 DEF NextLine, End, text
    <3> QED
      BY <1>1, <2>2, <3>1 DEF StepsLeft, StageSteps
  <2> QED
    BY <2>1, <2>2
<1>5. CASE Unterminated \/ PushFails \/ OutOfMemory
  BY <1>5 DEF Unterminated, PushFails, OutOfMemory, Refuse
<1> QED
  BY <1>2, <1>3, <1>4, <1>5 DEF Next

\* Whatever the text, htaccess_parse returns after at most four steps for each of
\* its characters and a few more: no round of its loop, or of the lexer's, finds as
\* much to do as the one before, be it on an escape, a comment or a tag.
THEOREM ParserConsumes == Spec => EachStepConsumes
<1>1. ParserTypeOK /\ [Next]_vars =>
        [StepsLeft' < StepsLeft \/ (pc # "done" /\ pc' = "done")]_vars
  BY ConsumeStep
<1> QED
  BY <1>1, AlwaysTyped, PTL DEF Spec, EachStepConsumes

=============================================================================
