------------------------------ MODULE HtaccessVars ------------------------------
(***************************************************************************)
(* Variables and templates: htaccess_expand (htaccess_vars.c), and         *)
(* htaccess_env_set and htaccess_env_get (htaccess_rewrite.c).             *)
(*                                                                         *)
(* q is what both look at: [uri, filename, query_string, env] of           *)
(* htaccess_request_state_t with the headers of the request and the        *)
(* server's name.                                                          *)
(***************************************************************************)
EXTENDS HtaccessDirective

CONSTANT Spare  \* room in a buffer beside four times its template: 256 bytes

ASSUME SpareAssumption == Spare \in Nat

\* Op(v), for which v is evaluated once.
With(v, Op(_)) == CHOOSE y \in {Op(x) : x \in {v}} : TRUE

\* A piece of a template: a word that stands for itself; $n, of a pattern whose
\* groups are around all of it; %{name}, with what follows its colon; and %{
\* without a brace to close it.
Lit(word) == [kind |-> "lit", name |-> word]
Match == [kind |-> "match", name |-> ""]
Var(name) == [kind |-> name, name |-> ""]
EnvVar(name) == [kind |-> "ENV", name |-> name]
HttpVar(name) == [kind |-> "HTTP", name |-> name]
Unclosed == [kind |-> "unclosed", name |-> ""]

\* Seeded fault: a variable that is set again takes the new value.
EnvSetAgain(env, name, value) == <<[name |-> name, value |-> value]>> \o env

\* htaccess_env_set appends, and htaccess_env_get takes the first of the name.
EnvSet(env, name, value) == Append(env, [name |-> name, value |-> value])

EnvGet(env, name) ==
    LET at == SelectInSeq(env, LAMBDA v : v.name = name)
    IN  IF at = 0 THEN <<>> ELSE env[at].value

\* The loop over headers_in: the header of that name, if the client sent it.
HeaderSent(q, name) == IF name \in DOMAIN q.headers THEN q.headers[name] ELSE <<>>

\* htaccess_get_http_header
HttpHeader(q, name) ==
    IF name = "Host" /\ name \notin DOMAIN q.headers THEN q.server ELSE HeaderSent(q, name)

\* What is copied for one piece.  A variable that is not known is left out.
Value(q, match, piece) ==
    CASE piece.kind = "lit"              -> <<piece.name>>
      [] piece.kind = "match"            -> match
      [] piece.kind = "ENV"              -> EnvGet(q.env, piece.name)
      [] piece.kind = "HTTP"             -> HttpHeader(q, piece.name)
      [] piece.kind = "HTTP_HOST"        -> q.server
      [] piece.kind = "QUERY_STRING"     -> q.query_string
      [] piece.kind = "REQUEST_FILENAME" -> q.filename
      [] piece.kind = "REQUEST_URI"      -> q.uri
      [] OTHER                           -> <<>>

\* htaccess_expand: what the pieces yield, if the buffer holds it.
Expand(q, match, template) ==
    LET yield[k \in 0 .. Len(template)] ==
          IF k = 0 THEN <<>> ELSE yield[k - 1] \o Value(q, match, template[k])
        out == yield[Len(template)]
    IN  [ok |-> /\ \A i \in DOMAIN template : template[i] # Unclosed
                /\ Len(out) <= 4 * Len(template) + Spare,
         out |-> out]

=============================================================================
