--------------------------- MODULE HtaccessSections ---------------------------
(***************************************************************************)
(* What htaccess_parse promises of the lines that it gets from the lexer:  *)
(* each directive has the pattern of the block it stands in, each          *)
(* RewriteRule the conditions that wait for it, and a file that is refused *)
(* at any line is refused as a whole.                                      *)
(***************************************************************************)
EXTENDS HtaccessLine

CONSTANT MaxDepth  \* how many blocks may be open

VARIABLES
    lines,       \* the lines seen so far, the empty ones aside
    open,        \* the patterns of the blocks that are open, the innermost last
    pending,     \* conditions that no rule has taken
    directives,  \* the directives read
    result       \* "none", "file", "malformed" or "memory"

vars == <<lines, open, pending, directives, result>>

Init == lines = <<>> /\ open = <<>> /\ pending = <<>> /\ directives = <<>> /\ result = "none"

Innermost == IF open = <<>> THEN <<>> ELSE open[Len(open)]

OpenBlock(line) ==
    /\ Opens(line)
    /\ open' = IF Len(open) < MaxDepth THEN Append(open, FilesMatch(line[1])) ELSE open
    /\ UNCHANGED <<pending, directives>>

CloseBlock(line) ==
    /\ Closes(line)
    /\ open' = IF open = <<>> THEN open ELSE SubSeq(open, 1, Len(open) - 1)
    /\ UNCHANGED <<pending, directives>>

Skip(line) ==
    /\ ~IsBlock(line) /\ ~Named(line)
    /\ UNCHANGED <<open, pending, directives>>

Condition(line) ==
    /\ IsCond(line) /\ ~Fails(line)
    /\ pending' = Append(pending, CondOf(line, Len(lines) + 1))
    /\ UNCHANGED <<open, directives>>

Rule(line) ==
    /\ IsRule(line) /\ ~Fails(line)
    /\ directives' = Append(directives, DirectiveOf(line, Len(lines) + 1, Innermost, pending))
    /\ pending' = <<>>
    /\ UNCHANGED open

Plain(line) ==
    /\ IsDirective(line) /\ ~IsRule(line) /\ ~Fails(line)
    /\ directives' = Append(directives, DirectiveOf(line, Len(lines) + 1, Innermost, <<>>))
    /\ UNCHANGED <<open, pending>>

Step(line) ==
    \/ OpenBlock(line) \/ CloseBlock(line) \/ Skip(line)
    \/ Condition(line) \/ Rule(line) \/ Plain(line)

\* The next line, whatever it is.
Line ==
    /\ result = "none" /\ UNCHANGED result
    /\ Len(lines') = Len(lines) + 1
    /\ LET line == lines'[Len(lines')] IN lines' = Append(lines, line) /\ Step(line)

\* The text ends, or something in it, or the want of memory, ends the parsing.
End ==
    /\ result = "none"
    /\ result' \in {"file", "malformed", "memory"}
    /\ UNCHANGED <<lines, open, pending, directives>>

Spec == Init /\ [][Line \/ End]_vars

=============================================================================
