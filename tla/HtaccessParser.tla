---------------------------- MODULE HtaccessParser ----------------------------
(***************************************************************************)
(* htaccess_parse (htaccess_parser.c) and htaccess_lex_line                *)
(* (htaccess_lexer.c): from the text of an .htaccess file to its           *)
(* directives.  There is one step per token, and one per line.             *)
(*                                                                         *)
(* htaccess_block_enabled returns 1 on every path, so that enabled[] holds *)
(* nothing but ones; it is left out.                                       *)
(***************************************************************************)
EXTENDS HtaccessLine, SequencesExt

CONSTANTS
    Documents,  \* files: records of a text, and of the lines that its author means by
                \* it, each the sequence of its tokens, or Broken
    Broken,     \* a line that leaves a quote or a tag open
    MaxDepth,   \* blocks that the arrays of htaccess_parse have room for: 15
    AllocFails  \* TRUE when an allocation may return NULL

ASSUME DepthAssumption == MaxDepth \in Nat

Text == Seq(STRING)

ASSUME DocumentsAssumption == \A d \in Documents : d.text \in Text

VARIABLES
    doc,          \* the file
    p,            \* the position in it
    pc,           \* "line" (in htaccess_lex_line), "parse" or "done"
    tokens,       \* the tokens of the line so far
    depth,        \* the number of open blocks
    files_match,  \* by depth, the pattern of the block
    pending,      \* pending_conds
    directives,   \* file->directives
    result,       \* "none"; "file", or why htaccess_parse returned NULL
    lines         \* (history) the lines parsed

lexer == <<p, pc, tokens>>
parser == <<depth, files_match, pending, directives>>
vars == <<doc, lexer, parser, result, lines>>

-----------------------------------------------------------------------------
(* The lexer. *)

text == doc.text
End == Len(text) + 1

\* The first position from i on that holds one of S, or the end.
Find(i, S) == Min({j \in i .. Len(text) : text[j] \in S} \cup {End})
FindNot(i, S) == Min({j \in i .. Len(text) : text[j] \notin S} \cup {End})

\* Going from i on, the backslash before j takes it along: an odd number of
\* them stands there.
Escaped(i, j) ==
    \E k \in i .. j - 1 :
        /\ (j - k) % 2 = 1
        /\ \A m \in k .. j - 1 : text[m] = "backslash"
        /\ k = i \/ text[k - 1] # "backslash"

\* Seeded fault: a backslash takes nothing along.
FindUnescapedPlainly(i, S) == Find(i, S)

FindUnescaped(i, S) ==
    Min({j \in i .. Len(text) : text[j] \in S /\ ~Escaped(i, j)} \cup {End})

\* Seeded fault: the end of the line is not skipped.
SkipLineShort(i) == Find(i, {"newline"})

\* htaccess_skip_line: the rest of the line, its end and the empty lines after.
SkipLine(i) == FindNot(Find(i, {"newline"}), {"newline"})

\* htaccess_skip_space
Start == FindNot(p, {"blank"})

LineEnds == Start # End => text[Start] \in {"hash", "newline"}

\* Where the token ends that begins at Start.
TokenEnd ==
    CASE text[Start] = "quote" -> FindUnescaped(Start + 1, {"quote"})
      [] text[Start] = "less"  -> Find(Start, {"greater"})
      [] OTHER                 -> FindUnescaped(Start, {"blank", "newline", "hash"})

Delimited == text[Start] \in {"quote", "less"}

Push(token, next) ==
    /\ tokens' = Append(tokens, token)
    /\ p' = next
    /\ UNCHANGED <<doc, pc, parser, result, lines>>

\* htaccess_read_quoted: the quotes are not part of the token.
Quoted ==
    /\ pc = "line" /\ ~LineEnds
    /\ text[Start] = "quote" /\ TokenEnd # End
    /\ Push(SubSeq(text, Start + 1, TokenEnd - 1), TokenEnd + 1)

\* A tag goes on to the next >, over quotes and lines.
Tag ==
    /\ pc = "line" /\ ~LineEnds
    /\ text[Start] = "less" /\ TokenEnd # End
    /\ Push(SubSeq(text, Start, TokenEnd), TokenEnd + 1)

Word ==
    /\ pc = "line" /\ ~LineEnds
    /\ ~Delimited
    /\ Push(SubSeq(text, Start, TokenEnd - 1), TokenEnd)

EndLine ==
    /\ pc = "line" /\ LineEnds
    /\ pc' = "parse"
    /\ p' = SkipLine(Start)
    /\ UNCHANGED <<doc, tokens, parser, result, lines>>

\* htaccess_parse returns NULL: the file is refused as a whole.
Refuse(why) ==
    /\ pc' = "done" /\ result' = why
    /\ UNCHANGED <<doc, p, tokens, parser, lines>>

Unterminated ==
    /\ pc = "line" /\ ~LineEnds
    /\ Delimited /\ TokenEnd = End
    /\ Refuse("malformed")

-----------------------------------------------------------------------------
(* The parser. *)

\* The head of the loop.
NextLine ==
    /\ pc = "parse" /\ tokens = <<>>
    /\ IF p = End THEN pc' = "done" /\ result' = "file"
                  ELSE pc' = "line" /\ UNCHANGED result
    /\ UNCHANGED <<doc, p, tokens, parser, lines>>

ParseLine ==
    /\ pc = "parse" /\ tokens # <<>>
    /\ lines' = Append(lines, tokens)
    /\ tokens' = <<>>
    /\ UNCHANGED <<doc, p, pc, result>>

\* Seeded fault: only tags that have a pattern are counted.
CloseBlockOfFiles ==
    /\ ParseLine
    /\ Closes(tokens)
    /\ depth' = IF depth > 0 /\ files_match[depth] # <<>> THEN depth - 1 ELSE depth
    /\ UNCHANGED <<files_match, pending, directives>>

CloseBlock ==
    /\ ParseLine
    /\ Closes(tokens)
    /\ depth' = IF depth > 0 THEN depth - 1 ELSE depth
    /\ UNCHANGED <<files_match, pending, directives>>

\* Seeded fault: a tag without a pattern leaves what an earlier block of the
\* same depth has stored (no ngx_memzero in htaccess_parse_files_match).
OpenBlockStale ==
    /\ ParseLine
    /\ Opens(tokens) /\ depth < MaxDepth
    /\ depth' = depth + 1
    /\ files_match' = [files_match EXCEPT ![depth + 1] =
                          IF FilesMatch(tokens[1]) = <<>> THEN @ ELSE FilesMatch(tokens[1])]
    /\ UNCHANGED <<pending, directives>>

\* Seeded fault: the arrays are one element short for the bound.
OpenBlockUnbounded ==
    /\ ParseLine
    /\ Opens(tokens) /\ depth <= MaxDepth
    /\ depth' = depth + 1
    /\ files_match' = [files_match EXCEPT ![depth + 1] = FilesMatch(tokens[1])]
    /\ UNCHANGED <<pending, directives>>

OpenBlock ==
    /\ ParseLine
    /\ Opens(tokens) /\ depth < MaxDepth
    /\ depth' = depth + 1
    /\ files_match' = [files_match EXCEPT ![depth + 1] = FilesMatch(tokens[1])]
    /\ UNCHANGED <<pending, directives>>

\* No room: the block is not opened, though its end will be taken for one.
OpenTooDeep ==
    /\ ParseLine
    /\ Opens(tokens) /\ depth = MaxDepth
    /\ UNCHANGED parser

\* A name that htaccess_directive_id does not know.
Unknown ==
    /\ ParseLine
    /\ ~IsBlock(tokens) /\ ~Named(tokens)
    /\ UNCHANGED parser

PushCond ==
    /\ ParseLine
    /\ IsCond(tokens) /\ ~Fails(tokens)
    /\ pending' = Append(pending, CondOf(tokens, Len(lines')))
    /\ UNCHANGED <<depth, files_match, directives>>

\* Seeded fault: any directive takes the conditions along.
PushDirectiveGreedy ==
    /\ ParseLine
    /\ IsDirective(tokens) /\ ~Fails(tokens)
    /\ directives' = Append(directives,
           DirectiveOf(tokens, Len(lines'), files_match[depth],
                       IF IsRule(tokens) THEN pending ELSE <<>>))
    /\ pending' = <<>>
    /\ UNCHANGED <<depth, files_match>>

PushDirective ==
    /\ ParseLine
    /\ IsDirective(tokens) /\ ~Fails(tokens)
    /\ directives' = Append(directives,
           DirectiveOf(tokens, Len(lines'), files_match[depth],
                       IF IsRule(tokens) THEN pending ELSE <<>>))
    /\ pending' = IF IsRule(tokens) THEN <<>> ELSE pending
    /\ UNCHANGED <<depth, files_match>>

\* Seeded fault: the directive that cannot be read is left out, the file kept.
PushFailsSkipped ==
    /\ ParseLine
    /\ Fails(tokens)
    /\ UNCHANGED parser

PushFails ==
    /\ pc = "parse" /\ tokens # <<>>
    /\ Fails(tokens)
    /\ Refuse("malformed")

\* ngx_array_create, ngx_array_push or ngx_pnalloc returns NULL.
OutOfMemory ==
    /\ AllocFails
    /\ pc \in {"line", "parse"}
    /\ Refuse("memory")

-----------------------------------------------------------------------------

Init ==
    /\ doc \in Documents
    /\ p = 1 /\ tokens = <<>>
    /\ pc = "parse" /\ result = "none"
    /\ depth = 0 /\ files_match = [i \in 0 .. MaxDepth |-> <<>>]
    /\ pending = <<>> /\ directives = <<>> /\ lines = <<>>

Next ==
    \/ Quoted \/ Tag \/ Word \/ EndLine \/ Unterminated
    \/ NextLine \/ CloseBlock \/ OpenBlock \/ OpenTooDeep \/ Unknown
    \/ PushCond \/ PushDirective \/ PushFails \/ OutOfMemory

\* The parser is one function call: it goes on.
Spec == Init /\ [][Next]_vars /\ WF_vars(Next)

-----------------------------------------------------------------------------
(* Properties. *)

Arguments == Seq(Text \cup {Garbage})
Conditions == [line : Nat, args : Arguments]
Directives == [line : Nat, id : STRING, args : Arguments, files_match : Text,
               conditions : Seq(Conditions)]

ParserTypeOK ==
    /\ text \in Text /\ p \in 1 .. End
    /\ tokens \in Seq(Text) /\ lines \in Seq(Seq(Text))
    /\ depth \in 0 .. MaxDepth
    /\ files_match \in [0 .. MaxDepth -> Text] /\ files_match[0] = <<>>
    /\ pending \in Seq(Conditions) /\ directives \in Seq(Directives)
    /\ pc \in {"line", "parse", "done"}
    /\ result \in {"none", "file", "malformed", "memory"}
    /\ pc = "done" <=> result # "none"

\* However a line is laid out - quotes, escapes, comments, indentation, empty
\* lines - what comes out of the lexer is what its author means by it, no line
\* is lost or joined with the next; and a file is refused for want of memory,
\* for a quote or a tag left open, for a directive without its arguments, and for
\* nothing else.
LinesAsWritten ==
    /\ IsPrefix(lines, doc.meant)
    /\ result = "file" => lines = doc.meant
    /\ result = "malformed" =>
         LET next == doc.meant[Len(lines) + 1] IN next = Broken \/ Fails(next)

\* The blocks open before line k: none of their ends has come yet.
Enclosing(k) ==
    {i \in 1 .. k - 1 : Opens(lines[i]) /\
        \A j \in i + 1 .. k - 1 :
            Quantify(i + 1 .. j, LAMBDA m : Closes(lines[m]))
              <= Quantify(i + 1 .. j, LAMBDA m : Opens(lines[m]))}

RoomForBlocks == \A k \in 1 .. Len(lines) + 1 : Cardinality(Enclosing(k)) <= MaxDepth

\* As long as blocks are not nested deeper than there is room for, a directive has
\* the pattern of the innermost block around it, whatever blocks have been
\* opened and closed before it, and none outside.
PatternsAreScoped ==
    RoomForBlocks =>
        \A d \in ToSet(directives) :
            d.files_match = IF Enclosing(d.line) = {} THEN <<>>
                            ELSE FilesMatch(lines[Max(Enclosing(d.line))][1])

\* A RewriteRule has the conditions written between the rule before it and
\* itself, in their order and all of them, across block tags and other
\* directives; no other directive has any.
ConditionsBelong ==
    \A d \in ToSet(directives) :
        /\ {c.line : c \in ToSet(d.conditions)} =
             IF d.id # "RewriteRule" THEN {}
             ELSE {k \in 1 .. d.line - 1 :
                     IsCond(lines[k]) /\ \A m \in k .. d.line - 1 : ~IsRule(lines[m])}
        /\ \A i, j \in DOMAIN d.conditions :
             i < j => d.conditions[i].line < d.conditions[j].line

\* The array with its index is a stack; what the parser returns is what
\* HtaccessSections says of the lines.
Sections == INSTANCE HtaccessSections
    WITH open <- [i \in 1 .. depth |-> files_match[i]]

ReadsSections == Sections!Spec

\* An upper bound of the steps that are left: at most four for a character - a token
\* that ends there, the end of the line, the line parsed, the loop's head - and
\* some for the last line.
StageSteps ==
    CASE pc = "line"                  -> IF p = End THEN 3 ELSE 0
      [] pc # "line" /\ tokens = <<>> -> 1
      [] pc # "line" /\ tokens # <<>> -> 2

StepsLeft == 4 * (End - p) + StageSteps

\* Whatever the text is, no round of the loop in htaccess_parse, nor of the one in
\* htaccess_lex_line, leaves as much to do as it found.
EachStepConsumes == [][StepsLeft' < StepsLeft \/ (pc # "done" /\ pc' = "done")]_vars

\* The parser comes to the end of every text.
ParseEnds == <>(pc = "done")

=============================================================================
