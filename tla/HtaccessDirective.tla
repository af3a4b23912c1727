--------------------------- MODULE HtaccessDirective ---------------------------
(***************************************************************************)
(* What the arguments of a directive make of it: the values that           *)
(* htaccess_push_directive (htaccess_parser.c) stores in the types of      *)
(* htaccess_directives.h.  Which lines it is called for, and that a        *)
(* directive without its arguments refuses the file, is HtaccessParser's.  *)
(*                                                                         *)
(* A URI, a query string and every other value that a condition or a       *)
(* template may look at is a sequence of words: /a/b.tpl is                *)
(* <<"a", "b.tpl">> and /a/ is <<"a", "">>.  A pattern is the set of       *)
(* values it matches, and a template is a sequence of pieces.              *)
(***************************************************************************)
EXTENDS Naturals, Sequences, SequencesExt

\* ngx_str_t.  data is the keyword that the string begins with.
Str(data, len) == [data |-> data, len |-> len]
Empty == Str("", 0)

\* strncasecmp(s, word, ...) after the test that s is at least n bytes long.
Begins(s, word, n) == s.data = word /\ s.len >= n

\* A string with more than its keyword that matters: the name in %{HTTP:name}, the
\* number in R=number (<<>> where there is none), what a pattern matches.
Naming(data, len, arg) == [data |-> data, len |-> len, arg |-> arg]

AliasIds == {"Redirect", "RedirectMatch", "RedirectPermanent", "RedirectTemp"}

\* htaccess_directive_t with each member of its union that the directive's id
\* selects, and zeroes (ngx_memzero) for the others.
Directive(id) ==
    [id         |-> id,     \* the directive
     inFiles    |-> FALSE,  \* whether files_match is set, and then
                            \* uris is what its pattern matches
     str        |-> Empty,  \* u.str; the action of a Header
     flag       |-> FALSE,  \* u.flag
     uris       |-> {},     \* the URIs that a RewriteRule or a Redirect matches
     to         |-> <<>>,   \* where a Redirect leads; a RewriteBase; the URI of an
                            \* ErrorDocument
     substitution |-> <<>>, \* of a RewriteRule, a template
     code       |-> 0,      \* redirect_code; the status of an ErrorDocument
     flags      |-> {},     \* of a RewriteRule: last, end, redirect, chain and qsa;
                            \* "dash" for the substitution -, "relative" for one that
                            \* begins with neither a slash nor a scheme;
                            \* of a Redirect: permanent
     conditions |-> <<>>,   \* of a RewriteRule
     env_vars   |-> <<>>,
     name       |-> ""]     \* the name of a Header

-----------------------------------------------------------------------------
(* The types. *)

Uri == Seq(STRING)

\* A piece of a template, see HtaccessVars.
Piece == [kind : STRING, name : STRING]

Condition ==
    [test : STRING, name : STRING, path : Seq(Piece), op : STRING, value : SUBSET Uri,
     or_next : BOOLEAN]

EnvFlag == [name : STRING, colon : BOOLEAN, value : Seq(Piece)]

Directives ==
    [id : STRING, inFiles : BOOLEAN, str : [data : STRING, len : Nat], flag : BOOLEAN,
     uris : SUBSET Uri, to : Uri, substitution : Seq(Piece), code : Nat, flags : SUBSET STRING,
     conditions : Seq(Condition), env_vars : Seq(EnvFlag), name : STRING]

-----------------------------------------------------------------------------
(* RewriteCond. *)

\* htaccess_parse_rewrite_cond on %{word}: the length asked for of a name without
\* an argument is one more than the name has, but for HTTP_HOST.
CondTests ==
    [FILENAME |-> Str("REQUEST_FILENAME", 17), URI |-> Str("REQUEST_URI", 12),
     QUERY_STRING |-> Str("QUERY_STRING", 13), HTTP_HOST |-> Str("HTTP_HOST", 9),
     HTTP |-> Str("HTTP:", 5), ENV |-> Str("ENV:", 4)]

\* test.data is "" for a string without %, "%" for one without a brace.
CondTest(test) ==
    LET known == {t \in DOMAIN CondTests : Begins(test, CondTests[t].data, CondTests[t].len)}
    IN  CASE test.data = ""  -> "FILENAME"
          [] test.data = "%" -> "FSPATH"
          [] known # {}      -> CHOOSE t \in known : TRUE
          [] OTHER           -> "OTHER"

\* Of the file tests only -f has the length that is asked for: the code wants one
\* character more for the others, which are patterns then like all the rest.
FileTests ==
    [file |-> Str("-f", 2), dir |-> Str("-d", 3), symlink |-> Str("-l", 3),
     exists |-> Str("-s", 3), notfile |-> Str("!-f", 4), notdir |-> Str("!-d", 4),
     notsymlink |-> Str("!-l", 4), notexists |-> Str("!-s", 4)]

CondOp(value) ==
    LET tests == {op \in DOMAIN FileTests : FileTests[op] = Str(value.data, value.len)}
    IN  IF tests # {} THEN CHOOSE op \in tests : TRUE ELSE "regex"

\* What stands for a value that is not there.
NoValue == Naming("", 0, {})

\* htaccess_rewrite_cond_t, from the test %{...}, the value with what it matches as
\* a pattern, and the flag.  Without a value the test is for equality with nothing.
RewriteCond(test, value, flag) ==
    [test    |-> CondTest(test),
     name    |-> IF test.data = "%" THEN "" ELSE test.arg,    \* of %{HTTP:name}
     path    |-> IF test.data = "%" THEN test.arg ELSE <<>>,  \* of %path
     op      |-> IF value = NoValue THEN "eq" ELSE CondOp(value),
     value   |-> value.arg,
     or_next |-> Begins(flag, "OR", 2)]

-----------------------------------------------------------------------------
(* RewriteRule. *)

\* htaccess_parse_rule_flags: parts is what stands between the commas.  Only
\* L and C mind their case, and R alone is too short.
RedirectParts(parts) == SelectSeq(parts, LAMBDA p : p.data = "R" /\ p.len >= 2)

RuleFlags(parts) ==
    LET Has(data, len) == \E p \in ToSet(parts) : p.data = data /\ p.len = len
    IN  {flag \in {"last", "end", "nocase", "redirect", "chain", "qsa"} :
            CASE flag = "last"     -> Has("L", 1)
              [] flag = "end"      -> Has("END", 3)
              [] flag = "nocase"   -> Has("NC", 2)
              [] flag = "redirect" -> RedirectParts(parts) # <<>>
              [] flag = "chain"    -> Has("C", 1)
              [] flag = "qsa"      -> Has("QSA", 3)}

\* The last R counts; without a number, as in R=permanent, it is 302.
RuleCode(parts) ==
    LET code == Last(RedirectParts(parts)).arg
    IN  CASE RedirectParts(parts) = <<>> -> 0
          [] RedirectParts(parts) # <<>> -> IF code = <<>> THEN 302 ELSE code[1]

EnvVars(parts) ==
    LET env == SelectSeq(parts, LAMBDA p : p.data = "E=")
    IN  [i \in DOMAIN env |-> env[i].arg]

RewriteRuleOf(uris, substitution, form, parts, conds) ==
    [Directive("RewriteRule") EXCEPT
        !.uris = uris, !.substitution = substitution, !.flags = RuleFlags(parts) \cup form,
        !.code = RuleCode(parts), !.conditions = conds, !.env_vars = EnvVars(parts)]

-----------------------------------------------------------------------------
(* The other directives. *)

FlagOf(id, arg) == [Directive(id) EXCEPT !.flag = arg = Str("on", 2)]

\* A RedirectMatch is always permanent; a Redirect looks for its status at the end.
Permanent(id, status) ==
    \/ id \in {"RedirectPermanent", "RedirectMatch"}
    \/ id = "Redirect" /\ Begins(status, "301", 3)

RedirectOf(id, uris, to, status) ==
    [Directive(id) EXCEPT !.uris = uris, !.to = to,
        !.flags = IF Permanent(id, status) THEN {"permanent"} ELSE {}]

\* The directives that take their first argument.
StrOf(id, arg) == [Directive(id) EXCEPT !.str = arg]

\* A Require takes all of its arguments, of the lengths lens, joined with blanks
\* (htaccess_join_args): word is what the whole begins with.
RequireOf(word, lens) ==
    StrOf("Require", Str(word, FoldLeft(LAMBDA n, len : n + 1 + len, Head(lens), Tail(lens))))

HeaderOf(action, name) == [Directive("Header") EXCEPT !.str = action, !.name = name]

ErrorDocumentOf(status, uri) ==
    [Directive("ErrorDocument") EXCEPT !.code = status, !.to = uri]

OptionsOf(arg) == [Directive("Options") EXCEPT !.flag = Begins(arg, "-Indexes", 8)]

\* The block a directive is in: what its pattern matches.
InFiles(d, uris) == [d EXCEPT !.inFiles = TRUE, !.uris = uris]

=============================================================================
