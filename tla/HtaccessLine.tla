----------------------------- MODULE HtaccessLine -----------------------------
(***************************************************************************)
(* What htaccess_parse (htaccess_parser.c) makes of one line, as functions *)
(* of the line's tokens.                                                   *)
(*                                                                         *)
(* A text is a sequence of pieces: each character that the lexer or the    *)
(* parser looks for is a piece, and so is each run of other characters, a  *)
(* word.  Words that differ only in case are the same word.  A token is a  *)
(* sequence of pieces, a line is a sequence of tokens.                     *)
(***************************************************************************)
EXTENDS Naturals, Sequences, FiniteSetsExt

CONSTANTS
    Unclosed,  \* words %{NAME with no brace at the end
    Garbage    \* what an element of an array holds that nothing was stored in

\* htaccess_directive_id: the names it finds.
ArgumentNeeded ==   \* too few tokens make htaccess_push_directive fail
    {"RewriteRule", "Redirect", "RedirectMatch", "RedirectPermanent",
     "RedirectTemp", "Header", "ExpiresByType", "ErrorDocument"}

ArgumentTaken ==    \* the element after the name is taken, whether it is there or not
    {"RewriteEngine", "RewriteBase", "AuthType", "AuthName", "AuthUserFile",
     "Require", "Order", "Allow", "Deny", "ExpiresActive", "ExpiresDefault",
     "Options", "DirectoryIndex"}

Names == {"RewriteCond"} \cup ArgumentNeeded \cup ArgumentTaken

IsBlock(line) == LET t == line[1] IN
    Len(t) >= 2 /\ t[1] = "less" /\ t[Len(t)] = "greater"

Closes(line) == IsBlock(line) /\ Len(line[1]) >= 3 /\ line[1][2] = "slash"
Opens(line) == IsBlock(line) /\ ~Closes(line)

Named(line) == ~IsBlock(line) /\ Len(line[1]) = 1 /\ line[1][1] \in Names
IsCond(line) == Named(line) /\ line[1][1] = "RewriteCond"
IsDirective(line) == Named(line) /\ line[1][1] # "RewriteCond"
IsRule(line) == Named(line) /\ line[1][1] = "RewriteRule"

\* htaccess_parse_files_match: what a tag <FilesMatch "..."> has between its first
\* two quotes; nothing for any other tag, <Files> among them.
FilesMatch(t) ==
    LET start == Min({i \in 3 .. Len(t) : t[i] # "blank"})
        end   == Min({i \in start + 1 .. Len(t) : t[i] = "quote"} \cup {Len(t)})
    IN  IF Len(t) >= 3 /\ t[2] = "FilesMatch" /\ t[start] = "quote"
        THEN SubSeq(t, start + 1, end - 1)
        ELSE <<>>

\* A Header whose first argument is "always" needs one more.
Needed(line) == IF line[1] = <<"Header">> /\ Len(line) >= 2 /\ line[2] = <<"always">>
                THEN 4 ELSE 3

\* htaccess_push_directive or htaccess_parse_rewrite_cond returns NGX_ERROR.
Fails(line) ==
    \/ IsCond(line) /\ (Len(line) < 2 \/ (line[2] # <<>> /\ line[2][1] \in Unclosed))
    \/ IsDirective(line) /\ line[1][1] \in ArgumentNeeded /\ Len(line) < Needed(line)

Args(line) == IF Len(line) = 1 THEN <<Garbage>> ELSE Tail(line)

\* A condition, and the number of its line.
CondOf(line, n) == [line |-> n, args |-> Args(line)]

\* htaccess_directive_t: its arguments, the pattern of the block it is in, and, for
\* a RewriteRule, its conditions.
DirectiveOf(line, n, pattern, conds) ==
    [line        |-> n,
     id          |-> line[1][1],
     args        |-> Args(line),
     files_match |-> pattern,
     conditions  |-> conds]

=============================================================================
