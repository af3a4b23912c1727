---------------------------- MODULE HtaccessRewrite ----------------------------
(***************************************************************************)
(* Where a request is sent: htaccess_apply_alias (htaccess_alias.c) and    *)
(* the rounds of htaccess_apply_rewrite (htaccess_rewrite.c), as functions *)
(* of the merged context and of the request's state.                       *)
(***************************************************************************)
EXTENDS HtaccessMerge, HtaccessVars

CONSTANTS
    Files,       \* the files under the root, as the URIs that name them
    Directories  \* its directories, written alike

\* The places of the directives of all directories, the loops' i and j; and the first
\* of some places, if there is any.
Places(dirs) == UNION {{i} \X DOMAIN dirs[i].directives : i \in DOMAIN dirs}

Before(p, q) == p[1] < q[1] \/ (p[1] = q[1] /\ p[2] < q[2])

Earliest(places) == {p \in places : \A q \in places : ~Before(q, p)}

At(dirs, p) == dirs[p[1]].directives[p[2]]

AliasCode(d) == IF "permanent" \in d.flags THEN 301 ELSE 302

\* htaccess_apply_alias: the first Redirect of the outermost directory whose
\* pattern the URI matches, whether the rewrite engine is on or off.
ApplyAlias(merged, uri) ==
    LET matching == {p \in Places(merged.dirs) :
                       /\ At(merged.dirs, p).id \in AliasIds
                       /\ uri \in At(merged.dirs, p).uris}
    IN  {At(merged.dirs, p) : p \in Earliest(matching)}

-----------------------------------------------------------------------------
(* Conditions. *)

\* htaccess_file_test: stat(2) follows links, so nothing is one.
FileTest(path, op) ==
    CASE op = "file"       -> path \in Files
      [] op = "notfile"    -> path \notin Files
      [] op = "dir"        -> path \in Directories
      [] op = "notdir"     -> path \notin Directories
      [] op = "symlink"    -> FALSE
      [] op = "notsymlink" -> TRUE
      [] op = "exists"     -> path \in Files \cup Directories
      [] op = "notexists"  -> path \notin Files \cup Directories

\* A file test returns 1 for true, and its caller takes 0 for NGX_OK.
FileTestOk(path, op) == ~FileTest(path, op)

\* What a condition compares with its pattern.
Tested(c, q) ==
    CASE c.test = "FILENAME"     -> q.filename
      [] c.test = "URI"          -> q.uri
      [] c.test = "QUERY_STRING" -> q.query_string
      [] c.test = "HTTP_HOST"    -> HeaderSent(q, "Host")
      [] c.test = "HTTP"         -> HeaderSent(q, c.name)
      [] c.test = "ENV"          -> EnvGet(q.env, c.name)

\* htaccess_test_cond returns NGX_OK.  A path is expanded for nothing unless the
\* operator is a file test, and a test that is not known never succeeds.
TestCond(c, q) ==
    LET path == Expand(q, <<>>, c.path) IN
    CASE c.test = "OTHER"  -> FALSE
      [] c.test = "FSPATH" -> c.op \in DOMAIN FileTests /\ path.ok /\ FileTestOk(path.out, c.op)
      [] c.test \notin {"OTHER", "FSPATH"} ->
           CASE c.test = "FILENAME" /\ c.op \in DOMAIN FileTests -> FileTestOk(q.filename, c.op)
             [] c.op = "eq"    -> TRUE
             [] c.op = "regex" -> Tested(c, q) \in c.value
             [] OTHER          -> FALSE

\* htaccess_match_conditions: one with OR that succeeds, or without that fails, is
\* the last that is looked at.
MatchConditions(conds, q) ==
    LET decides == SelectInSeq(conds, LAMBDA c : c.or_next = TestCond(c, q))
    IN  decides = 0 \/ conds[decides].or_next

-----------------------------------------------------------------------------
(* Rules. *)

\* Seeded fault: only a rule right after the one with flag C is marked.
ChainInNext(ds, k) ==
    k > 1 /\ ds[k - 1].id = "RewriteRule" /\ "chain" \in ds[k - 1].flags

\* htaccess_mark_rewrite_chains, run anew whenever a rule is pushed: chain_in for the
\* first RewriteRule that follows one with flag C.
ChainIn(ds, k) ==
    \E j \in 1 .. k - 1 : /\ ds[j].id = "RewriteRule" /\ "chain" \in ds[j].flags
                         /\ \A m \in j + 1 .. k - 1 : ds[m].id # "RewriteRule"

\* The places of the rules that a walk meets: those of the directories whose engine
\* is on.
Rules(dirs) ==
    {p \in Places(dirs) : dirs[p[1]].rewrite_engine /\ At(dirs, p).id = "RewriteRule"}

\* The place of the first rule after at, if there is one.
NextRule(dirs, at) == Earliest({p \in Rules(dirs) : Before(at, p)})

Final(d) == "last" \in d.flags \/ "end" \in d.flags

RedirectCode(d) == IF d.code # 0 THEN d.code ELSE 302

\* htaccess_relative_uri: as many segments are cut off as the prefix has, whether the
\* URI, once rewritten, still begins with them or not.
RelativeUri(uri, prefix) ==
    IF Len(uri) <= Len(prefix) THEN uri ELSE SubSeq(uri, Len(prefix) + 1, Len(uri))

\* htaccess_apply_env_flags, for each E of the rule; one without a colon, or whose
\* value does not fit, is left out.
ApplyEnvFlags(q, match, d) ==
    LET Set(env, e) ==
            LET value == Expand([q EXCEPT !.env = env], match, e.value)
            IN  IF e.colon /\ value.ok THEN EnvSet(env, e.name, value.out) ELSE env
        env[k \in 0 .. Len(d.env_vars)] ==
          IF k = 0 THEN q.env ELSE Set(env[k - 1], d.env_vars[k])
    IN  [q EXCEPT !.env = env[Len(d.env_vars)]]

\* Seeded fault: QSA gives way to a query string of the target's own.
TargetArgsOwn(args, query_string, qsa) ==
    IF qsa /\ args = <<>> THEN query_string ELSE args

\* The query string that htaccess_apply_target_uri leaves.
TargetArgs(args, query_string, qsa) == IF qsa THEN args \o query_string ELSE args

\* htaccess_apply_target_uri: what follows the first ? is the query string.  r->args
\* is always set with state->query_string, and to the same.
ApplyTargetUri(w, out, qsa) ==
    LET mark == SelectInSeq(out, LAMBDA word : word = "?")
        uri  == IF mark = 0 THEN out ELSE SubSeq(out, 1, mark - 1)
        args == TargetArgs(IF mark = 0 THEN <<>> ELSE SubSeq(out, mark + 1, Len(out)),
                           w.state.query_string, qsa)
    IN  [w EXCEPT !.uri = uri, !.state.uri = uri, !.state.query_string = args]

\* The RewriteBase is put before a relative target, unless that has a query string.
Target(base, d, out) ==
    IF "relative" \in d.flags /\ "?" \notin ToSet(out) THEN base \o out ELSE out

\* A rule whose conditions and pattern match.  The substitution of a rule with
\* flag C that is not also the last is expanded and dropped.
RuleMatched(w, match, dir, d) ==
    LET To(sub) ==
        LET out == Target(dir.rewrite_base, d, sub.out) IN
        CASE "dash" \in d.flags -> IF Final(d) THEN [w EXCEPT !.result = "declined"] ELSE w
          [] "dash" \notin d.flags /\ ~sub.ok -> [w EXCEPT !.result = "error"]
          [] "dash" \notin d.flags /\ sub.ok /\ "chain" \in d.flags /\ ~Final(d) -> w
          [] OTHER ->
               IF "redirect" \in d.flags
               THEN [w EXCEPT !.state.uri = out, !.code = RedirectCode(d), !.result = "redirect"]
               ELSE [ApplyTargetUri(w, out, "qsa" \in d.flags) EXCEPT
                        !.chain_active = FALSE, !.result = IF Final(d) THEN "ok" ELSE @]
    IN  With(Expand(w.state, match, d.substitution), To)

\* One round of the loop of htaccess_apply_rewrite, for the rule at p.  w is r->uri,
\* the request's state, chain_active and applied (history), the places of the
\* rules that matched; its result is "none" while the loop goes on.
RewriteRule(w, dirs, p) ==
    LET dir      == dirs[p[1]]
        d        == dir.directives[p[2]]
        chain_in == ChainIn(dir.directives, p[2])
        match    == RelativeUri(w.state.uri, dir.url_prefix)
        applies  == MatchConditions(d.conditions, w.state) /\ w.state.uri \in d.uris
        chained  == [w EXCEPT !.at = p,
                              !.chain_active = IF "chain" \in d.flags THEN applies ELSE @]
        Applied(v) == RuleMatched(v, match, dir, d)
    IN  CASE chain_in /\ ~w.chain_active -> [w EXCEPT !.at = p]
          [] ~chain_in \/ w.chain_active ->
               IF applies
               THEN With([chained EXCEPT !.state = ApplyEnvFlags(@, match, d),
                                         !.applied = @ \cup {p}], Applied)
               ELSE chained

=============================================================================
