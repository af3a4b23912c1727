---------------------------- MODULE HtaccessExecute ----------------------------
(***************************************************************************)
(* htaccess_execute (htaccess_execute.c): the loop of passes over which a  *)
(* request is refused, redirected, rewritten or let through.               *)
(*                                                                         *)
(* A pass reads the .htaccess files of the directories of r->uri one by    *)
(* one, and other processes edit them meanwhile; then it asks each engine  *)
(* in turn.  Each engine is a step.  How a file is read, and what becomes  *)
(* of the memory its rules are in, is the matter of HtaccessCache and      *)
(* HtaccessWorker.                                                         *)
(***************************************************************************)
EXTENDS HtaccessAuth, HtaccessRewrite

CONSTANTS
    Requested,     \* what clients ask for: [uri, query, headers, server]
    Sites,         \* the states of the file system at the start
    Edits,         \* pairs <<dir, file>>: what an edit may put where
    NoFile,        \* a directory whose .htaccess is missing, or not well formed
    MaxRedirects,  \* conf->max_redirects
    MaxEdits,      \* bound: edits during the life of a request
    AllocFails     \* TRUE when ngx_pnalloc or ngx_array_push may return NULL

ASSUME ExecuteAssumption ==
    MaxRedirects \in Nat /\ MaxEdits \in Nat /\ AllocFails \in BOOLEAN

ASSUME RequestsAssumption ==
    \A q \in Requested : /\ q.uri \in Uri /\ q.query \in Uri /\ q.server \in Uri
                         /\ \A name \in DOMAIN q.headers : q.headers[name] \in Uri

\* What the parser makes of a file, if it makes anything of it.
Parsed == {NoFile} \cup Seq(Directives)

ASSUME SitesAssumption ==
    /\ \A s \in Sites : s \in [DOMAIN s -> Parsed]
    /\ \A e \in Edits : e[2] \in Parsed

VARIABLES
    site,    \* site[dir]: the directives of the directory's .htaccess
    edits,   \* edits made since the request arrived
    pc,      \* where htaccess_execute is
    pass,    \* its loop counter
    walked,  \* r->uri when the pass began, whose directories it reads
    pos,     \* the next of its directories
    merged,  \* the context merged so far in this pass
    loop,    \* htaccess_apply_rewrite: its last round, chain_active, the rules applied
    r,       \* the request: what was asked, by whom, r->uri, the headers set
    state,   \* htaccess_request_state_t, with r->headers_in
    answer   \* what htaccess_execute returned

vars == <<site, edits, pc, pass, walked, pos, merged, loop, r, state, answer>>

NoAnswer == [rc |-> "none", status |-> 0, location |-> <<>>]
NoRequest == [asked |-> <<>>, query |-> <<>>, login |-> NoLogin,
              uri |-> <<>>, headers |-> <<>>, challenges |-> 0]
NoState == [uri |-> <<>>, filename |-> <<>>, query_string |-> <<>>, env |-> <<>>,
            headers |-> <<>>, server |-> <<>>]

NoLoop == [at |-> <<0, 0>>, chain_active |-> FALSE, applied |-> {}]

Answers(rc) == [NoAnswer EXCEPT !.rc = rc]

-----------------------------------------------------------------------------
(* The file system. *)

\* What the walk makes of the next directory's file.
ReadFile(m, dir, file) == IF file = NoFile THEN m ELSE MergeParsed(m, dir, file)

EditFile ==
    /\ pc # "idle" /\ edits < MaxEdits
    /\ \E e \in Edits : site' = [site EXCEPT ![e[1]] = e[2]]
    /\ site' # site
    /\ edits' = edits + 1
    /\ UNCHANGED <<pc, pass, walked, pos, merged, loop, r, state, answer>>

\* A directory that does not exist has no .htaccess.
FileOf(files, dir) == IF dir \in DOMAIN files THEN files[dir] ELSE NoFile

\* The context m with the file of the URI's k-th directory.
ReadDir(files, m, uri, k) == ReadFile(m, Chain(uri)[k], FileOf(files, Chain(uri)[k]))

-----------------------------------------------------------------------------
(* The loop. *)

Done(a) == pc' = "done" /\ answer' = a

\* Seeded fault: one pass too many.
PassHeadOffByOne(n, uri) ==
    /\ pass' = n
    /\ walked' = uri
    /\ pos' = 1 /\ merged' = NoMerged /\ loop' = NoLoop
    /\ IF n <= MaxRedirects THEN pc' = "walk" /\ UNCHANGED answer ELSE Done(Answers("declined"))

\* Seeded fault: the context of the last pass is not emptied (ngx_memzero).
PassHeadKeepsMerged(n, uri) ==
    /\ pass' = n
    /\ walked' = uri
    /\ pos' = 1 /\ merged' = merged /\ loop' = NoLoop
    /\ IF n < MaxRedirects THEN pc' = "walk" /\ UNCHANGED answer ELSE Done(Answers("declined"))

\* The head of the loop, for pass n; after the last pass the request is let through.
PassHead(n, uri) ==
    /\ pass' = n
    /\ walked' = uri
    /\ pos' = 1 /\ merged' = NoMerged /\ loop' = NoLoop
    /\ IF n < MaxRedirects THEN pc' = "walk" /\ UNCHANGED answer ELSE Done(Answers("declined"))

\* htaccess_resolve_filename: the file under the root that the URI names.
Resolve(s) == [s EXCEPT !.filename = s.uri]

Arrive ==
    /\ pc = "idle"
    /\ \E q \in Requested, l \in Logins \cup {NoLogin} :
         /\ r' = [asked |-> q.uri, query |-> q.query, login |-> l, uri |-> q.uri,
                  headers |-> <<>>, challenges |-> 0]
         /\ state' = Resolve([uri |-> q.uri, filename |-> <<>>, query_string |-> q.query,
                              env |-> <<>>, headers |-> q.headers, server |-> q.server])
         /\ PassHead(0, q.uri)
    /\ UNCHANGED <<site, edits>>

\* htaccess_build_merged_ctx reads the next directory of r->uri ...
LoadDir ==
    /\ pc = "walk"
    /\ pos <= Len(walked)
    /\ merged' = ReadDir(site, merged, walked, pos)
    /\ pos' = pos + 1
    /\ UNCHANGED <<site, edits, pc, pass, walked, loop, r, state, answer>>

\* Seeded fault: redirects come before the rules on files.
LoadedToAlias ==
    /\ pc = "walk"
    /\ pos > Len(walked)
    /\ pc' = "alias"
    /\ UNCHANGED <<site, edits, pass, walked, pos, merged, loop, r, state, answer>>

\* ... until there is none.
Loaded ==
    /\ pc = "walk"
    /\ pos > Len(walked)
    /\ pc' = IF pass = 0 THEN "files" ELSE "alias"
    /\ UNCHANGED <<site, edits, pass, walked, pos, merged, loop, r, state, answer>>

\* In the first pass the rules on files come before everything else.
ApplyFilesDeny ==
    /\ pc = "files"
    /\ IF FilesDeny(merged, r.asked)
       THEN Done(Answers("forbidden"))
       ELSE pc' = "alias" /\ UNCHANGED answer
    /\ UNCHANGED <<site, edits, pass, walked, pos, merged, loop, r, state>>

\* htaccess_send_redirect
Redirect(status, location) ==
    Done([rc |-> "redirect", status |-> status, location |-> location])

Alias ==
    /\ pc = "alias"
    /\ LET found == ApplyAlias(merged, state.uri) IN
         \/ \E d \in found : /\ Redirect(AliasCode(d), d.to)
                             /\ state' = [state EXCEPT !.uri = d.to]
         \/ found = {} /\ pc' = "rewrite" /\ UNCHANGED <<state, answer>>
    /\ UNCHANGED <<site, edits, pass, walked, pos, merged, loop, r>>

\* The next round of the loop over the rules, unless they are through.  r->uri and
\* the state stay changed even where the walk returns no result.
Rounds ==
    LET w == [at |-> loop.at, chain_active |-> loop.chain_active, applied |-> loop.applied,
              uri |-> r.uri, state |-> state, code |-> 0, result |-> "none"]
    IN  {RewriteRule(w, merged.dirs, p) : p \in NextRule(merged.dirs, loop.at)}

\* Seeded fault: once a rule has replaced the URI the walk over the rules starts anew.
RewriteGoesOnAnew ==
    /\ pc = "rewrite"
    /\ \E w \in Rounds :
         /\ w.result = "none"
         /\ loop' = [at |-> IF w.uri = r.uri THEN w.at ELSE <<0, 0>>,
                     chain_active |-> w.chain_active, applied |-> w.applied]
         /\ r' = [r EXCEPT !.uri = w.uri]
         /\ state' = w.state
    /\ UNCHANGED <<site, edits, pc, pass, walked, pos, merged, answer>>

RewriteGoesOn ==
    /\ pc = "rewrite"
    /\ \E w \in Rounds :
         /\ w.result = "none"
         /\ loop' = [at |-> w.at, chain_active |-> w.chain_active, applied |-> w.applied]
         /\ r' = [r EXCEPT !.uri = w.uri]
         /\ state' = w.state
    /\ UNCHANGED <<site, edits, pc, pass, walked, pos, merged, answer>>

RewriteRedirects ==
    /\ pc = "rewrite"
    /\ \E w \in Rounds :
         /\ w.result = "redirect"
         /\ state' = w.state
         /\ Redirect(w.code, w.state.uri)
    /\ UNCHANGED <<site, edits, pass, walked, pos, merged, loop, r>>

\* Seeded fault: the loop goes on without htaccess_resolve_filename.
RewritesUnresolved ==
    /\ pc = "rewrite"
    /\ \E w \in Rounds :
         /\ w.result = "ok"
         /\ r' = [r EXCEPT !.uri = w.state.uri]
         /\ state' = w.state
         /\ PassHead(pass + 1, w.state.uri)
    /\ UNCHANGED <<site, edits>>

\* Seeded fault: the loop goes on without counting the pass.
RewritesUncounted ==
    /\ pc = "rewrite"
    /\ \E w \in Rounds :
         /\ w.result = "ok"
         /\ r' = [r EXCEPT !.uri = w.state.uri]
         /\ state' = Resolve(w.state)
         /\ PassHead(pass, w.state.uri)
    /\ UNCHANGED <<site, edits>>

\* Seeded fault: the URI was changed, but the loop is not taken again.
RewritesOnce ==
    /\ pc = "rewrite"
    /\ \E w \in Rounds :
         /\ w.result = "ok"
         /\ r' = [r EXCEPT !.uri = w.state.uri]
         /\ state' = Resolve(w.state)
         /\ walked' = w.state.uri
    /\ pc' = "auth"
    /\ UNCHANGED <<site, edits, pass, pos, merged, loop, answer>>

\* A rule with L or END: htaccess_apply_uri, and another pass for the new URI.
Rewrites ==
    /\ pc = "rewrite"
    /\ \E w \in Rounds :
         /\ w.result = "ok"
         /\ r' = [r EXCEPT !.uri = w.state.uri]
         /\ state' = Resolve(w.state)
         /\ PassHead(pass + 1, w.state.uri)
    /\ UNCHANGED <<site, edits>>

\* A rule with - and L or END applied, or its target could not be expanded.
RewriteStops ==
    /\ pc = "rewrite"
    /\ \E w \in Rounds :
         /\ w.result \in {"declined", "error"}
         /\ state' = w.state
    /\ pc' = "auth"
    /\ UNCHANGED <<site, edits, pass, walked, pos, merged, loop, r, answer>>

\* No rule with L or END has applied.
RewriteEnds ==
    /\ pc = "rewrite" /\ Rounds = {}
    /\ pc' = "auth"
    /\ UNCHANGED <<site, edits, pass, walked, pos, merged, loop, r, state, answer>>

\* NGX_ERROR: a context, a Location header or a new r->uri cannot be allocated.
OutOfMemory ==
    /\ AllocFails
    /\ \/ pc = "walk"
       \/ pc = "alias" /\ ApplyAlias(merged, state.uri) # {}
       \/ pc = "rewrite" /\ \E w \in Rounds : w.result \in {"ok", "redirect"}
    /\ Done(Answers("error"))
    /\ UNCHANGED <<site, edits, pass, walked, pos, merged, loop, r, state>>

\* Seeded fault: it is the URI of the first pass that is looked for among the files
\* that are denied.
VerdictOnAsked == ApplyAuth(merged, r.asked, r.login)

Verdict == ApplyAuth(merged, r.uri, r.login)

AuthPasses ==
    /\ pc = "auth"
    /\ Verdict = "declined"
    /\ pc' = "headers"
    /\ UNCHANGED <<site, edits, pass, walked, pos, merged, loop, r, state, answer>>

Status(verdict) == IF verdict = "forbidden" THEN 403 ELSE 401

\* htaccess_error_uri: the URI of the first ErrorDocument for the status, if there
\* is one.
ErrorUri(m, verdict) ==
    LET at == SelectInSeq(m.error_documents, LAMBDA e : e.code = Status(verdict))
    IN  IF at = 0 THEN {} ELSE {m.error_documents[at].uri}

ErrorDocuments == ErrorUri(merged, Verdict)

\* A 401 adds a WWW-Authenticate header, ErrorDocument or not.
Challenge ==
    IF Verdict = "unauthorized" /\ merged.auth_name.len > 0 THEN 1 ELSE 0

\* Refused with no ErrorDocument, or with one but no memory for its URI.
AuthRefuses ==
    /\ pc = "auth"
    /\ Verdict # "declined"
    /\ \/ ErrorDocuments = {} /\ UNCHANGED state
       \/ /\ AllocFails
          /\ \E doc \in ErrorDocuments : state' = [state EXCEPT !.uri = doc]
    /\ r' = [r EXCEPT !.challenges = @ + Challenge]
    /\ Done(Answers(Verdict))
    /\ UNCHANGED <<site, edits, pass, walked, pos, merged, loop>>

\* Refused with an ErrorDocument: another pass for its URI; the filename stays.
ErrorDocument ==
    /\ pc = "auth"
    /\ Verdict # "declined"
    /\ \E doc \in ErrorDocuments :
         /\ r' = [r EXCEPT !.challenges = @ + Challenge, !.uri = doc]
         /\ state' = [state EXCEPT !.uri = doc]
         /\ PassHead(pass + 1, doc)
    /\ UNCHANGED <<site, edits>>

\* htaccess_apply_headers: Header set is obeyed, unset, append and merge are not.
\* ExpiresByType compares with a content type that is not known this early.
HeadersSet(m) ==
    LET Set(names, h) ==
            IF Begins(h.action, "set", 3) /\ h.name # "" THEN Append(names, h.name) ELSE names
        set[k \in 0 .. Len(m.headers)] ==
          IF k = 0 THEN <<>> ELSE Set(set[k - 1], m.headers[k])
    IN  set[Len(m.headers)]

\* htaccess_apply_headers and htaccess_apply_options, whose result is not used.
Headers ==
    /\ pc = "headers"
    /\ r' = [r EXCEPT !.headers = @ \o HeadersSet(merged)]
    /\ Done(Answers("declined"))
    /\ UNCHANGED <<site, edits, pass, walked, pos, merged, loop, state>>

\* nginx has what it needs; the worker is ready for the next request.
Return ==
    /\ pc = "done"
    /\ pc' = "idle" /\ pass' = 0 /\ edits' = 0
    /\ walked' = <<>> /\ pos' = 1
    /\ merged' = NoMerged /\ loop' = NoLoop /\ r' = NoRequest /\ state' = NoState /\ answer' = NoAnswer
    /\ UNCHANGED site

-----------------------------------------------------------------------------

Init ==
    /\ site \in Sites
    /\ edits = 0 /\ pc = "idle" /\ pass = 0
    /\ walked = <<>> /\ pos = 1
    /\ merged = NoMerged /\ loop = NoLoop /\ r = NoRequest /\ state = NoState /\ answer = NoAnswer

Execute ==
    \/ LoadDir \/ Loaded \/ ApplyFilesDeny \/ Alias
    \/ RewriteGoesOn \/ RewriteRedirects \/ Rewrites \/ RewriteStops \/ RewriteEnds \/ OutOfMemory
    \/ AuthPasses \/ AuthRefuses \/ ErrorDocument \/ Headers \/ Return

Next == Arrive \/ Execute \/ EditFile

\* htaccess_execute is one call on the worker's thread: it goes on.
Spec == Init /\ [][Next]_vars /\ WF_vars(Execute)

-----------------------------------------------------------------------------
(* Properties. *)

\* The directories that a context keeps, and the rules of each, are lists.
ListsKept ==
    /\ DOMAIN merged.dirs \subseteq Nat \ {0}
    /\ \A i \in DOMAIN merged.dirs : DOMAIN merged.dirs[i].directives \subseteq Nat \ {0}

ExecuteTypeOK ==
    /\ edits \in 0 .. MaxEdits
    /\ pc \in {"idle", "walk", "files", "alias", "rewrite", "auth", "headers", "done"}
    /\ pass \in 0 .. MaxRedirects
    /\ r.uri \in Uri /\ walked \in Uri
    /\ pos \in 1 .. Len(walked) + 1
    /\ r.login \in Logins \cup {NoLogin}
    /\ r.challenges \in 0 .. pass + 1
    /\ answer.rc \in {"none", "declined", "forbidden", "unauthorized", "redirect", "error"}
    /\ pc = "done" <=> answer.rc # "none"
    /\ ListsKept

\* What the files of a URI's first k directories say, read all at once; and those
\* of all of them.
MergedDirs(files, uri) ==
    LET m[k \in Nat] == IF k = 0 THEN NoMerged ELSE ReadDir(files, m[k - 1], uri, k)
    IN  m

MergedAt(files, uri) == MergedDirs(files, uri)[Len(uri)]

MergedOf(uri) == MergedAt(site, uri)

AtRest == edits = 0

\* The request was let through by a pass, not for want of another one.
LetThrough == pc = "done" /\ answer.rc = "declined" /\ pass < MaxRedirects

\* No rule without L or END has changed r->uri behind the back of the pass.
SameUri == r.uri = walked

RulesOfSite ==
    {d \in UNION {ToSet(site[dir]) : dir \in {e \in DOMAIN site : site[e] # NoFile}} :
        d.id = "RewriteRule"}

\* The walk and the verdict go by r->uri, Redirect and RewriteRule by state->uri,
\* file tests by state->filename, and no one function sets the three.  Every pass
\* starts with the first two equal, and unless an ErrorDocument took the place
\* of a refused URI the third is their file.
LoopHeadInStep ==
    [][pc # pc' /\ pc' = "walk" =>
          /\ r'.uri = state'.uri
          /\ pc # "auth" => state'.filename = state'.uri]_vars

\* opencart.sh:75 asks for a file that <FilesMatch> denies and wants a 403 although
\* a RewriteRule matches it too.  Whatever the site's rules make of such a URI,
\* it is neither redirected nor rewritten into something that is let through.
DeniedFilesStayDenied ==
    pc = "done" /\ AtRest /\ MaxRedirects > 0 /\ FilesDeny(MergedOf(r.asked), r.asked)
        => answer.rc \in {"forbidden", "error"}

\* However often the URI was replaced on the way, the one that a pass lets
\* through is one that the files of its own directories do not refuse.
NothingRefusedIsServed ==
    LetThrough /\ AtRest /\ SameUri
        => ApplyAuth(MergedOf(r.uri), r.uri, r.login) = "declined"

\* What the files of the upper directories settle, no deeper file reopens: who is let
\* through is not denied by a rule on files of theirs, and if one of their Requires
\* decides, then by that one - with the password file of the deepest that names one.
NothingReopened ==
    LetThrough /\ AtRest =>
        \A k \in 0 .. Len(walked) :
            LET m     == MergedDirs(site, walked)[k]
                first == m.requires[FirstDecisive(m)].data
            IN  /\ ~FilesDeny(m, r.uri)
                /\ FirstDecisive(m) # 0 =>
                      \/ first = "all granted"
                      \/ first = "valid-user" /\ ValidUser(MergedAt(site, walked), r.login)

\* The reply bears the headers of the URI that is served, once, and none of the
\* URIs that were left behind; and what is not served bears none.
HeadersAreOfTheServed ==
    pc = "done" /\ AtRest /\ SameUri =>
        r.headers = IF LetThrough THEN HeadersSet(MergedOf(r.uri)) ELSE <<>>

\* Where every rule that rewrites has QSA, what the client asked comes through all
\* passes, last in the query string, whatever the rules put before it.
ClientQueryKept ==
    pc # "idle" /\ AtRest /\ (\A d \in RulesOfSite : {"dash", "qsa"} \cap d.flags # {})
        => IsSuffix(r.query, state.query_string)

\* A rule applies only if the whole chain before it has: wherever the rules of a
\* directory stand among its redirects, and whatever chain was walked before.
ChainsHold ==
    pc = "rewrite" =>
        \A w \in Rounds, i \in DOMAIN merged.dirs :
            LET ds == merged.dirs[i].directives
                Follows(j, k) == /\ j < k /\ ds[j].id = "RewriteRule"
                                 /\ \A m \in j + 1 .. k - 1 : ds[m].id # "RewriteRule"
            IN  \A j, k \in DOMAIN ds :
                    Follows(j, k) /\ "chain" \in ds[j].flags /\ <<i, k>> \in w.applied
                        => <<i, j>> \in w.applied

\* tests/fixtures/opencart/.htaccess:14 sets REWRITE_PATH from the URI, in every pass
\* again, and line 16 hands it to the page as what was asked for: a variable keeps
\* the value it got first, till the request is decided.
EnvSettled ==
    [][pc # "idle" /\ pc' # "idle" =>
          \A v \in ToSet(state.env) : EnvGet(state'.env, v.name) = EnvGet(state.env, v.name)]_vars

Stage == [walk |-> 1, files |-> 2, alias |-> 3, rewrite |-> 4, auth |-> 5, headers |-> 6, done |-> 7]

\* Within a pass the handler goes from engine to engine, from one directory to the
\* next and from one rule to a later one, in a context that the rules do not change;
\* and only with a pass the fewer left does it start again.
RequestGetsOn ==
    [][pc \notin {"idle", "done"} /\ edits' = edits =>
          \/ pass < pass' /\ pass' <= MaxRedirects
          \/ pass = pass' /\ Stage[pc] < Stage[pc']
          \/ /\ <<pass, pc, walked>> = <<pass', pc', walked'>>
             /\ \/ pc = "walk" /\ pos < pos' /\ pos' <= Len(walked) + 1
                \/ /\ pc = "rewrite" /\ merged' = merged
                   /\ Before(loop.at, loop'.at) /\ loop'.at \in Rules(merged.dirs)]_vars

\* Rules that send a request in circles do not keep it for ever.
RequestDecided == pc # "idle" ~> pc = "idle"

\* Not so: README.md:42, "Require", with README.md:36, "Internal rewrite loop
\* guard": a URI that a Require refuses is not let through.  When the passes run
\* out, the last URI has been asked for nothing.
RefusedIsNeverServed ==
    pc = "done" /\ answer.rc = "declined" /\ AtRest /\ SameUri
        => ApplyAuth(MergedOf(r.uri), r.uri, r.login) = "declined"

\* Not so: htaccess_examples/wordpress:14-16, "RewriteCond %{REQUEST_FILENAME} -f [OR]",
\* "RewriteCond %{REQUEST_FILENAME} -d", "RewriteRule ^ - [L]": a file that exists is
\* served as it is.
ExistingFilesAreServed ==
    LetThrough /\ r.asked \in Files => r.uri = r.asked

\* Not so: tests/fixtures/auth/.htaccess:4, "Require valid-user": without valid
\* credentials nobody is let through.
ValidUserRequired ==
    LetThrough /\ AtRest /\ MergedOf(r.uri).requires # <<>>
      /\ (\A q \in ToSet(MergedOf(r.uri).requires) : q.data = "valid-user")
        => ValidUser(MergedOf(r.uri), r.login)

-----------------------------------------------------------------------------
(***************************************************************************)
(* htaccess_execute carries out the policy of HtaccessPolicy.  What the    *)
(* rules of u's directories may lead to is here what htaccess_merge_parsed *)
(* makes of them on a site at rest.                                        *)
(***************************************************************************)
HidesBar(s, u) == FilesDeny(MergedAt(s, u), u)

VerdictBar(s, u, v, login) == ApplyAuth(MergedAt(s, u), v, login)

HeadersBar(s, u) == HeadersSet(MergedAt(s, u))

\* The rules of a context that replace the URI; they let the loop over the rules go on
\* or end with them.
Replacing(m) ==
    {d \in {At(m.dirs, p) : p \in Rules(m.dirs)} : {"dash", "redirect"} \cap d.flags = {}}

CarriesBar(s, u) ==
    \E d \in Replacing(MergedAt(s, u)) : ~Final(d) /\ "chain" \notin d.flags

RewritesBar(s, u) == \E d \in Replacing(MergedAt(s, u)) : Final(d)

\* The statuses of its Redirects, and of its rules with flag R.
CodesSent(m) ==
    {AliasCode(d) : d \in {e \in {At(m.dirs, p) : p \in Places(m.dirs)} : e.id \in AliasIds}}
    \cup {RedirectCode(d) : d \in {e \in {At(m.dirs, p) : p \in Rules(m.dirs)} :
                                      "redirect" \in e.flags /\ "dash" \notin e.flags}}

CodesBar(s, u) == CodesSent(MergedAt(s, u))

DocumentsBar(s, u, verdict) == ErrorUri(MergedAt(s, u), verdict)

ReplyBar ==
    CASE pc = "idle" -> "none"
      [] pc = "done" -> IF answer.rc # "declined" THEN answer.rc
                        ELSE IF pass < MaxRedirects THEN "served" ELSE "unasked"
      [] OTHER       -> "pending"

Policy == INSTANCE HtaccessPolicy WITH
              request <- [asked |-> r.asked, login |-> r.login],
              base <- walked, uri <- r.uri, moves <- pass,
              reply <- ReplyBar, status <- answer.status, headers <- r.headers,
              MayFail <- AllocFails,
              Hides <- HidesBar, Verdict <- VerdictBar, HeadersOf <- HeadersBar,
              Carries <- CarriesBar, Rewrites <- RewritesBar, Codes <- CodesBar,
              Documents <- DocumentsBar

\* Every decision has its ground in the rules of the URI it is made for, in the order
\* that the policy gives them, however the engines come to it.
KeepsToPolicy == Policy!PolicySpec

=============================================================================
