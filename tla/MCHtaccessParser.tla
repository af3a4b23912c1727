--------------------------- MODULE MCHtaccessParser ---------------------------
(***************************************************************************)
(* Instances of HtaccessParser for TLC: lines in several layouts, and the  *)
(* files that can be put together from them.                               *)
(***************************************************************************)
EXTENDS HtaccessParser, TLC

Written(pieces, args) == [pieces |-> pieces, args |-> args]

\* Words with blanks between them, and the line's end.
Simply(words) ==
    Written(Append(FlattenSeq([i \in DOMAIN words |->
                IF i = 1 THEN <<words[i]>> ELSE <<"blank", words[i]>>]), "newline"),
            [i \in DOMAIN words |-> <<words[i]>>])

\* The same indented, with a comment that has a quote in it, and empty lines.
Loosely(words) ==
    Written(<<"blank">> \o SubSeq(Simply(words).pieces, 1, Len(Simply(words).pieces) - 1)
              \o <<"hash", "c", "quote", "newline", "newline">>,
            Simply(words).args)

Tag1(pieces) == Written(<<"less">> \o pieces \o <<"greater", "newline">>,
                        <<<<"less">> \o pieces \o <<"greater">>>>)

Files == Tag1(<<"FilesMatch", "blank", "quote", "x", "quote">>)
Module == Tag1(<<"IfModule", "blank", "m">>)
Ended == Tag1(<<"slash", "m">>)

Require == Written(<<"Require", "blank", "quote", "all", "hash", "blank", "backslash", "quote",
                     "quote", "newline">>,
                   <<<<"Require">>, <<"all", "hash", "blank", "backslash", "quote">>>>)

Cond == Loosely(<<"RewriteCond", "%1", "-f">>)

\* a\ b is one argument; a backslash that is escaped itself takes nothing along.
RuleEscaped == Written(<<"RewriteRule", "blank", "a", "backslash", "blank", "b", "blank", "/c",
                         "backslash", "backslash", "newline">>,
                       <<<<"RewriteRule">>, <<"a", "backslash", "blank", "b">>,
                         <<"/c", "backslash", "backslash">>>>)

\* A backslash before the end of the line takes that along, as an argument of
\* its own: this is no continuation as Apache knows it.
Continued == Written(<<"Order", "blank", "deny", "blank", "backslash", "newline", "blank", "x",
                       "newline">>,
                     <<<<"Order">>, <<"deny">>, <<"backslash", "newline">>, <<"x">>>>)

TagOnOneLine == Written(<<"less", "FilesMatch", "blank", "quote", "y", "quote", "greater",
                          "Require", "blank", "no", "newline">>,
                        <<<<"less", "FilesMatch", "blank", "quote", "y", "quote", "greater">>,
                          <<"Require">>, <<"no">>>>)

TooFew == {Simply(<<"RewriteRule", "a">>), Simply(<<"RewriteCond", "%{X", "b">>),
           Simply(<<"Header", "always", "set">>)}

Others == {Simply(<<"Header", "always", "set", "h">>), Simply(<<"php_value", "x">>),
           Simply(<<"Options">>), Written(<<"hash", "less", "newline">>, <<>>),
           Tag1(<<"Files", "blank", "quote", "x", "quote">>)}

\* Whatever comes last may lack its line end; or a quote or a tag is left open.
Last1 == {Written(<<"Deny", "blank", "all">>, <<<<"Deny">>, <<"all">>>>),
          Written(<<"Deny", "blank", "quote", "all", "newline">>, Broken),
          Written(<<"less", "IfModule", "quote">>, Broken)}

Structure == {Files, Module, Ended, Require, Cond, RuleEscaped}

\* Blocks of three kinds, two and three deep, with a directive at each place.
Nested ==
    {<<a, b, Require, Ended, Require, Ended, Require>> : a, b \in {Files, Module}}
    \cup {<<a, Ended, b, Require>> : a, b \in {Files, Module}}
    \cup {<<Files, Module, Files, Require, Ended, Cond, RuleEscaped, Ended, Require>>}

Document(d) ==
    [text  |-> FlattenSeq([i \in DOMAIN d |-> d[i].pieces]),
     meant |-> SelectSeq([i \in DOMAIN d |-> d[i].args], LAMBDA a : a # <<>>)]

Layouts ==
    SeqOf(Structure, 4)
    \cup SeqOf(Structure \cup TooFew \cup Others \cup {Continued, TagOnOneLine}, 2)
    \cup {Append(d, l) : d \in SeqOf(Structure, 1), l \in Last1}
    \cup Nested

TheDocuments == {Document(d) : d \in Layouts}

TheUnclosed == {"%{X"}

=============================================================================
