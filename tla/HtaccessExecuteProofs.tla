------------------------- MODULE HtaccessExecuteProofs -------------------------
(***************************************************************************)
(* Theorems about HtaccessExecute, for every site, every set of requests,  *)
(* any number of passes and edits, and whatever the rules are.             *)
(***************************************************************************)
EXTENDS HtaccessExecute, HtaccessRewriteProofs

-----------------------------------------------------------------------------
(* MergedDirs is a recursive function: that it exists, and what it returns. *)

\* g is what the first n directories of uri say, step by step.
Walked(g, files, uri, n) ==
    /\ DOMAIN g = 0 .. n
    /\ g[0] = NoMerged
    /\ \A k \in 1 .. n : g[k] = ReadDir(files, g[k - 1], uri, k)

\* There is one such g for every number of directories.
LEMMA WalkExists ==
    ASSUME NEW files, NEW uri, NEW n \in Nat
    PROVE  \E g : Walked(g, files, uri, n)
<1> DEFINE Bad == {m \in Nat : ~\E g : Walked(g, files, uri, m)}
<1>1. SUFFICES ASSUME Bad # {} PROVE FALSE
  OBVIOUS
<1>2. PICK m \in Bad : \A y \in Bad : m =< y
  BY <1>1, LeastNumber
<1>3. CASE m = 0
  <2>1. Walked([k \in 0 .. 0 |-> NoMerged], files, uri, 0)
    BY DEF Walked
  <2> QED
    BY <1>3, <2>1
<1>4. CASE m # 0
  <2>1. m - 1 \in Nat /\ m - 1 \notin Bad
    BY <1>2, <1>4
  <2>2. PICK g : Walked(g, files, uri, m - 1)
    BY <2>1
  <2> DEFINE h == [k \in 0 .. m |-> IF k = m THEN ReadDir(files, g[m - 1], uri, m) ELSE g[k]]
  <2>3. Walked(h, files, uri, m)
    <3>1. DOMAIN h = 0 .. m /\ h[0] = NoMerged
      BY <1>4, <2>2 DEF Walked
    <3>2. ASSUME NEW k \in 1 .. m
          PROVE  h[k] = ReadDir(files, h[k - 1], uri, k)
      <4>1. k - 1 \in 0 .. m - 1 /\ h[k - 1] = g[k - 1]
        OBVIOUS
      <4>2. CASE k = m
        BY <4>1, <4>2
      <4>3. CASE k # m
        <5>1. k \in 1 .. m - 1 /\ h[k] = g[k]
          BY <4>3
        <5> QED
          BY <4>1, <5>1, <2>2 DEF Walked
      <4> QED
        BY <4>2, <4>3
    <3> HIDE DEF h
    <3> QED
      BY <3>1, <3>2 DEF Walked
  <2> QED
    BY <2>3
<1> QED
  BY <1>3, <1>4

\* Any two of them agree where both say something.
LEMMA WalksAgree ==
    ASSUME NEW files, NEW uri, NEW n \in Nat, NEW m \in Nat, NEW g, NEW h,
           Walked(g, files, uri, n), Walked(h, files, uri, m),
           NEW k \in Nat, k =< n, k =< m
    PROVE  g[k] = h[k]
<1> DEFINE Bad == {j \in Nat : j =< n /\ j =< m /\ g[j] # h[j]}
<1>1. SUFFICES ASSUME Bad # {} PROVE FALSE
  OBVIOUS
<1>2. PICK j \in Bad : \A y \in Bad : j =< y
  BY <1>1, LeastNumber
<1>3. j # 0
  BY <1>2 DEF Walked
<1>4. j - 1 \in Nat /\ g[j - 1] = h[j - 1]
  BY <1>2, <1>3
<1>5. g[j] = ReadDir(files, g[j - 1], uri, j) /\ h[j] = ReadDir(files, h[j - 1], uri, j)
  <2>1. j \in 1 .. n /\ j \in 1 .. m
    BY <1>2, <1>3
  <2> QED
    BY <2>1 DEF Walked
<1> QED
  BY <1>2, <1>4, <1>5

\* What the files of no directory say is nothing, and each further directory is
\* read on top of those before it: LoadDir and MergedDirs do the same.
LEMMA MergedDirsStep ==
    ASSUME NEW files, NEW uri
    PROVE  /\ MergedDirs(files, uri)[0] = NoMerged
           /\ \A k \in Nat \ {0} :
                 MergedDirs(files, uri)[k] = ReadDir(files, MergedDirs(files, uri)[k - 1], uri, k)
<1> DEFINE Of(k) == CHOOSE g : Walked(g, files, uri, k)
           f == [k \in Nat |-> Of(k)[k]]
           Is(m) == m = [k \in Nat |-> IF k = 0 THEN NoMerged
                                       ELSE ReadDir(files, m[k - 1], uri, k)]
<1>1. \A k \in Nat : Walked(Of(k), files, uri, k)
  BY WalkExists
<1> HIDE DEF Of
<1>2. f[0] = NoMerged
  BY <1>1 DEF Walked
<1>3. ASSUME NEW k \in Nat \ {0}
      PROVE  f[k] = ReadDir(files, f[k - 1], uri, k)
  <2>1. k - 1 \in Nat /\ k \in 1 .. k
    OBVIOUS
  <2>2. Of(k)[k] = ReadDir(files, Of(k)[k - 1], uri, k)
    BY <1>1, <2>1 DEF Walked
  <2>3. Of(k)[k - 1] = Of(k - 1)[k - 1]
    BY <1>1, <2>1, WalksAgree
  <2> QED
    BY <2>1, <2>2, <2>3
<1>4. \E m : Is(m)
  <2>1. Is(f)
    BY <1>2, <1>3
  <2> QED
    BY <2>1
<1>5. MergedDirs(files, uri) = CHOOSE m : Is(m)
  BY DEF MergedDirs
<1>6. Is(MergedDirs(files, uri))
  BY <1>4, <1>5
<1> HIDE DEF f
<1> DEFINE m == MergedDirs(files, uri)
<1>7. m = [k \in Nat |-> IF k = 0 THEN NoMerged ELSE ReadDir(files, m[k - 1], uri, k)]
  BY <1>6
<1> HIDE DEF m
<1>8. m[0] = NoMerged /\ \A k \in Nat \ {0} : m[k] = ReadDir(files, m[k - 1], uri, k)
  BY <1>7
<1> QED
  BY <1>8 DEF m

-----------------------------------------------------------------------------
(* The members of the request and of its state. *)

IsRequest(q) ==
    q = [asked |-> q.asked, query |-> q.query, login |-> q.login, uri |-> q.uri,
         headers |-> q.headers, challenges |-> q.challenges]

Shape == IsRequest(r) /\ IsState(state)

LEMMA RequestMembers ==
    ASSUME NEW q, IsRequest(q), NEW x, NEW y
    PROVE  /\ IsRequest([q EXCEPT !.uri = x])
           /\ [q EXCEPT !.uri = x].uri = x /\ [q EXCEPT !.uri = x].asked = q.asked
           /\ [q EXCEPT !.uri = x].login = q.login
           /\ IsRequest([q EXCEPT !.headers = y])
           /\ [q EXCEPT !.headers = y].uri = q.uri /\ [q EXCEPT !.headers = y].asked = q.asked
           /\ [q EXCEPT !.headers = y].login = q.login
           /\ IsRequest([q EXCEPT !.challenges = y])
           /\ [q EXCEPT !.challenges = y].uri = q.uri
           /\ [q EXCEPT !.challenges = y].asked = q.asked
           /\ [q EXCEPT !.challenges = y].login = q.login
BY DEF IsRequest

LEMMA RoundsAreRounds ==
    ASSUME Shape, NEW w \in Rounds
    PROVE  IsRound(w)
<1> DEFINE v == [at |-> loop.at, chain_active |-> loop.chain_active, applied |-> loop.applied,
                 uri |-> r.uri, state |-> state, code |-> 0, result |-> "none"]
<1>1. IsRound(v)
  BY DEF Shape, IsRound
<1>2. \E p : w = RewriteRule(v, merged.dirs, p)
  BY DEF Rounds
<1> HIDE DEF v
<1> QED
  BY <1>1, <1>2, RoundKeepsRound

\* After htaccess_resolve_filename the file is the one that the URI names.
LEMMA Resolved ==
    ASSUME NEW q, IsState(q)
    PROVE  IsState(Resolve(q)) /\ Resolve(q).filename = Resolve(q).uri /\ Resolve(q).uri = q.uri
BY DEF IsState, Resolve

\* In every state, and after every edit, the request, the state and the verdicts of
\* htaccess_execute are such as its code builds them.
THEOREM ShapeKept == Spec => []Shape
<1>1. Init => Shape
  BY DEF Init, Shape, IsRequest, IsState, NoRequest, NoState
<1>2. ASSUME Shape, [Next]_vars PROVE Shape'
  <2>1. CASE Arrive
    <3>1. PICK q \in Requested, l \in Logins \cup {NoLogin} :
            /\ r' = [asked |-> q.uri, query |-> q.query, login |-> l, uri |-> q.uri,
                     headers |-> <<>>, challenges |-> 0]
            /\ state' = Resolve([uri |-> q.uri, filename |-> <<>>, query_string |-> q.query,
                                 env |-> <<>>, headers |-> q.headers, server |-> q.server])
      BY <2>1 DEF Arrive
    <3>2. IsRequest(r')
      BY <3>1 DEF IsRequest
    <3>3. IsState([uri |-> q.uri, filename |-> <<>>, query_string |-> q.query,
                   env |-> <<>>, headers |-> q.headers, server |-> q.server])
      BY DEF IsState
    <3> QED
      BY <3>1, <3>2, <3>3, Resolved DEF Shape
  <2>2. CASE RewriteGoesOn \/ RewriteRedirects \/ Rewrites \/ RewriteStops
    <3>1. PICK w \in Rounds :
            /\ r' \in {r, [r EXCEPT !.uri = w.uri], [r EXCEPT !.uri = w.state.uri]}
            /\ state' \in {w.state, Resolve(w.state)}
      BY <2>2 DEF RewriteGoesOn, RewriteRedirects, Rewrites, RewriteStops
    <3>2. IsState(w.state)
      BY <1>2, RoundsAreRounds DEF IsRound
    <3>3. IsState(state')
      BY <3>1, <3>2, Resolved
    <3>4. IsRequest(r')
      <4>1. /\ IsRequest(r) /\ IsRequest([r EXCEPT !.uri = w.uri])
            /\ IsRequest([r EXCEPT !.uri = w.state.uri])
        BY <1>2, RequestMembers DEF Shape
      <4> QED
        BY <3>1, <4>1
    <3> QED
      BY <3>3, <3>4 DEF Shape
  <2>3. CASE Alias \/ AuthRefuses \/ ErrorDocument \/ Headers
    <3>1. \E x : state' = state \/ state' = [state EXCEPT !.uri = x]
      BY <2>3 DEF Alias, AuthRefuses, ErrorDocument, Headers
    <3>2. PICK x, y : \/ r' = r
                      \/ r' = [r EXCEPT !.headers = x]
                      \/ r' = [r EXCEPT !.challenges = x]
                      \/ r' = [r EXCEPT !.challenges = x, !.uri = y]
      BY <2>3 DEF Alias, AuthRefuses, ErrorDocument, Headers
    <3>3. IsState(state')
      <4>1. IsState(state) /\ \A u : IsState([state EXCEPT !.uri = u])
        BY <1>2, OneMember DEF Shape
      <4> QED
        BY <3>1, <4>1
    <3>4. IsRequest(r')
      <4>1. IsRequest(r) /\ IsRequest([r EXCEPT !.headers = x]) /\ IsRequest([r EXCEPT !.challenges = x])
        BY <1>2, RequestMembers DEF Shape
      <4>2. IsRequest([r EXCEPT !.challenges = x, !.uri = y])
        BY <4>1, RequestMembers
      <4> QED
        BY <3>2, <4>1, <4>2
    <3> QED
      BY <3>3, <3>4 DEF Shape
  <2>4. CASE Return
    BY <2>4 DEF Return, Shape, IsRequest, IsState, NoRequest, NoState
  <2>5. CASE UNCHANGED <<r, state>>
    BY <1>2, <2>5 DEF Shape
  <2>6. CASE \/ LoadDir \/ Loaded \/ ApplyFilesDeny \/ RewriteEnds \/ OutOfMemory \/ AuthPasses
             \/ EditFile \/ UNCHANGED vars
    BY <2>5, <2>6
       DEF LoadDir, Loaded, ApplyFilesDeny, RewriteEnds, OutOfMemory, AuthPasses, EditFile, vars
  <2> QED
    BY <1>2, <2>1, <2>2, <2>3, <2>4, <2>6 DEF Next, Execute
<1> QED
  BY <1>1, <1>2, PTL DEF Spec

\* Whatever the rules and the documents are, every pass starts with r->uri and
\* state->uri equal, and with the file that they name unless a document is next.
THEOREM LoopHeads == Spec => LoopHeadInStep
<1> DEFINE InStep == /\ r'.uri = state'.uri
                     /\ pc # "auth" => state'.filename = state'.uri
<1>1. ASSUME Shape, Next, pc # pc', pc' = "walk"
      PROVE  InStep
  <2>1. CASE Arrive
    <3>1. PICK q \in Requested, l \in Logins \cup {NoLogin} :
            /\ r' = [asked |-> q.uri, query |-> q.query, login |-> l, uri |-> q.uri,
                     headers |-> <<>>, challenges |-> 0]
            /\ state' = Resolve([uri |-> q.uri, filename |-> <<>>, query_string |-> q.query,
                                 env |-> <<>>, headers |-> q.headers, server |-> q.server])
      BY <2>1 DEF Arrive
    <3>2. IsState([uri |-> q.uri, filename |-> <<>>, query_string |-> q.query,
                   env |-> <<>>, headers |-> q.headers, server |-> q.server])
      BY DEF IsState
    <3>3. state'.filename = state'.uri /\ state'.uri = q.uri
      BY <3>1, <3>2, Resolved
    <3> QED
      BY <3>1, <3>3
  <2>2. CASE Rewrites
    <3>1. PICK w \in Rounds : /\ r' = [r EXCEPT !.uri = w.state.uri]
                              /\ state' = Resolve(w.state)
      BY <2>2 DEF Rewrites
    <3>2. state'.filename = state'.uri /\ state'.uri = w.state.uri
      BY <1>1, <3>1, RoundsAreRounds, Resolved DEF IsRound
    <3>3. r'.uri = w.state.uri
      BY <1>1, <3>1, RequestMembers DEF Shape
    <3> QED
      BY <3>2, <3>3
  <2>3. CASE ErrorDocument
    <3>1. PICK doc, n : /\ r' = [r EXCEPT !.challenges = n, !.uri = doc]
                        /\ state' = [state EXCEPT !.uri = doc]
                        /\ pc = "auth"
      BY <2>3 DEF ErrorDocument
    <3>2. state'.uri = doc
      BY <1>1, <3>1 DEF Shape, IsState
    <3>3. IsRequest([r EXCEPT !.challenges = n])
      BY <1>1, RequestMembers DEF Shape
    <3>4. r'.uri = doc
      BY <3>1, <3>3, RequestMembers
    <3> QED
      BY <3>1, <3>2, <3>4
  <2>4. CASE \/ LoadDir \/ Loaded \/ ApplyFilesDeny \/ Alias \/ RewriteGoesOn \/ RewriteRedirects
             \/ RewriteStops \/ RewriteEnds \/ OutOfMemory \/ AuthPasses \/ AuthRefuses
             \/ Headers \/ Return \/ EditFile
    BY <1>1, <2>4
       DEF LoadDir, Loaded, ApplyFilesDeny, Alias, RewriteGoesOn, RewriteRedirects, RewriteStops,
           RewriteEnds, OutOfMemory, AuthPasses, AuthRefuses, Headers, Return, EditFile, Redirect, Done
  <2> QED
    BY <1>1, <2>1, <2>2, <2>3, <2>4 DEF Next, Execute
<1>2. ASSUME Shape, [Next]_vars
      PROVE  [pc # pc' /\ pc' = "walk" => InStep]_vars
  BY <1>1, <1>2
<1> QED
  BY <1>2, ShapeKept, PTL DEF Spec, LoopHeadInStep

-----------------------------------------------------------------------------
(* Types. *)

LEMMA ReadDirType ==
    ASSUME NEW D \in SUBSET Directives, NEW m \in Merged(D),
           NEW files, files \in [DOMAIN files -> {NoFile} \cup Seq(D)],
           NEW uri \in Uri, NEW k \in 1 .. Len(uri)
    PROVE  ReadDir(files, m, uri, k) \in Merged(D)
<1> DEFINE dir == Chain(uri)[k]
           file == FileOf(files, dir)
<1>1. dir \in Uri
  <2>1. uri \in Seq(STRING) /\ Len(uri) \in Nat /\ k - 1 \in Nat /\ k - 1 =< Len(uri)
    BY DEF Uri
  <2>2. SubSeq(uri, 1, k - 1) \in Seq(STRING)
    BY <2>1, PartOf
  <2> QED
    BY <2>2 DEF Chain, Uri
<1>2. file \in {NoFile} \cup Seq(D)
  BY DEF FileOf
<1>3. ReadDir(files, m, uri, k) = ReadFile(m, dir, file)
  BY DEF ReadDir
<1> HIDE DEF dir, file
<1> QED
  BY <1>1, <1>2, <1>3, MergeParsedType DEF ReadFile

LEMMA ReadDirGrows ==
    ASSUME NEW D \in SUBSET Directives, NEW m \in Merged(D),
           NEW files, files \in [DOMAIN files -> {NoFile} \cup Seq(D)],
           NEW uri \in Uri, NEW k \in 1 .. Len(uri)
    PROVE  AccessGrows(m, ReadDir(files, m, uri, k))
<1> DEFINE dir == Chain(uri)[k]
           file == FileOf(files, dir)
<1>1. dir \in Uri
  <2>1. uri \in Seq(STRING) /\ Len(uri) \in Nat /\ k - 1 \in Nat /\ k - 1 =< Len(uri)
    BY DEF Uri
  <2>2. SubSeq(uri, 1, k - 1) \in Seq(STRING)
    BY <2>1, PartOf
  <2> QED
    BY <2>2 DEF Chain, Uri
<1>2. file \in {NoFile} \cup Seq(D)
  BY DEF FileOf
<1>3. ReadDir(files, m, uri, k) = ReadFile(m, dir, file)
  BY DEF ReadDir
<1>4. AccessGrows(m, m)
  BY ExtendedBy DEF AccessGrows, Merged
<1> HIDE DEF dir, file
<1> QED
  BY <1>1, <1>2, <1>3, <1>4, MergeParsedGrows DEF ReadFile

\* htaccess_apply_alias finds one of the site's directives.
LEMMA AliasType ==
    ASSUME NEW m \in Merged(Directives), NEW uri, NEW d \in ApplyAlias(m, uri)
    PROVE  d.to \in Uri
<1>1. PICK p \in Places(m.dirs) : d = m.dirs[p[1]].directives[p[2]]
  BY DEF ApplyAlias, Earliest, At
<1>2. PICK i \in DOMAIN m.dirs : p \in {i} \X DOMAIN m.dirs[i].directives
  BY DEF Places
<1>3. p[1] = i /\ p[2] \in DOMAIN m.dirs[i].directives
  BY <1>2
<1>4. m.dirs \in Seq(Dirs(Directives))
  BY DEF Merged
<1>5. m.dirs[i] \in Dirs(Directives)
  BY <1>2, <1>4, ElementOf
<1>6. m.dirs[i].directives \in Seq(Directives)
  BY <1>5 DEF Dirs
<1>7. d \in Directives
  BY <1>1, <1>3, <1>6, ElementOf
<1> QED
  BY <1>7 DEF Directives

\* htaccess_error_uri finds one of the site's documents.
LEMMA DocumentType ==
    ASSUME merged \in Merged(Directives), NEW doc \in ErrorDocuments
    PROVE  doc \in Uri
<1> DEFINE docs == merged.error_documents
           I == {i \in 1 .. Len(docs) : docs[i].code = Status(Verdict)}
           at == IF I = {} THEN 0 ELSE CHOOSE x \in I : \A y \in I : x =< y
<1>1. docs \in Seq([code : Nat, uri : Uri])
  BY DEF Merged
<1>2. at # 0 /\ doc = docs[at].uri
  BY DEF ErrorDocuments, ErrorUri, SelectInSeq, Min
<1>3. Len(docs) \in Nat /\ DOMAIN docs = 1 .. Len(docs)
  BY <1>1
<1>4. at \in DOMAIN docs
  <2>1. I \in SUBSET (1 .. Len(docs))
    OBVIOUS
  <2> HIDE DEF I
  <2>2. I # {} => (CHOOSE x \in I : \A y \in I : x =< y) \in I
    BY <1>3, <2>1, FirstPlace
  <2> QED
    BY <1>2, <1>3, <2>1, <2>2
<1> HIDE DEF at
<1>5. docs[at] \in [code : Nat, uri : Uri]
  BY <1>1, <1>4, ElementOf
<1> QED
  BY <1>2, <1>5

LEMMA AuthType ==
    ASSUME NEW m, NEW uri, NEW login
    PROVE  ApplyAuth(m, uri, login) \in {"declined", "forbidden", "unauthorized"}
<1>1. RequireSatisfied(m, login) \in {"ok", "declined", "forbidden", "unauthorized"}
  BY DEF RequireSatisfied
<1> QED
  BY <1>1 DEF ApplyAuth

\* One round, for the pass that the request is in.
LEMMA RoundsType ==
    ASSUME Shape, TypedState(state), r.uri \in Uri,
           NEW D \in SUBSET Directives, merged \in Merged(D), NEW w \in Rounds
    PROVE  /\ TypedState(w.state) /\ w.state.uri \in Uri /\ w.uri \in Uri
           /\ Extends(state.env, w.state.env)
           /\ Keeps(D) => EndsIn(w.state.query_string, state.query_string)
<1> DEFINE v == [at |-> loop.at, chain_active |-> loop.chain_active, applied |-> loop.applied,
                 uri |-> r.uri, state |-> state, code |-> 0, result |-> "none"]
<1>1. TypedRound(v) /\ v.state = state
  BY DEF Shape, IsRound, TypedRound
<1>2. PICK p \in NextRule(merged.dirs, loop.at) : w = RewriteRule(v, merged.dirs, p)
  BY DEF Rounds
<1>3. p \in Rules(merged.dirs) /\ merged.dirs \in Seq(Dirs(D))
  BY <1>2 DEF NextRule, Earliest, Merged
<1> HIDE DEF v
<1>4. /\ TypedRound(w) /\ Extends(v.state.env, w.state.env)
      /\ Keeps(D) => EndsIn(w.state.query_string, v.state.query_string)
  BY <1>1, <1>2, <1>3, RoundType
<1> QED
  BY <1>1, <1>4 DEF TypedRound, TypedState

\* The request and its state are made of words, and the context of the directives of
\* the site; a pass that is under way is one of those allowed, and has added one
\* challenge at most.
Typed ==
    /\ site \in [DOMAIN site -> Parsed]
    /\ edits \in 0 .. MaxEdits
    /\ pc \in {"idle", "walk", "files", "alias", "rewrite", "auth", "headers", "done"}
    /\ pass \in 0 .. MaxRedirects
    /\ pc \notin {"idle", "done"} => pass < MaxRedirects
    /\ walked \in Uri
    /\ pos \in 1 .. Len(walked) + 1
    /\ merged \in Merged(Directives)
    /\ r.uri \in Uri /\ r.query \in Uri
    /\ r.login \in Logins \cup {NoLogin}
    /\ r.challenges \in 0 .. pass + 1
    /\ pc # "done" => r.challenges =< pass
    /\ TypedState(state)
    /\ answer.rc \in {"none", "declined", "forbidden", "unauthorized", "redirect", "error"}
    /\ pc = "done" <=> answer.rc # "none"

LEMMA NothingTyped ==
    /\ <<>> \in Uri /\ <<>> \in Env /\ Len(<<>>) = 0
    /\ NoMerged \in Merged(Directives)
    /\ TypedState(NoState)
<1>1. <<>> \in Uri /\ <<>> \in Env /\ Len(<<>>) = 0
  BY DEF Uri, Env
<1>2. DOMAIN <<>> = {}
  OBVIOUS
<1>3. TypedState(NoState)
  BY <1>1, <1>2 DEF TypedState, NoState
<1> QED
  BY <1>1, <1>3, NothingMerged

LEMMA ResolvedType ==
    ASSUME NEW q, IsState(q), TypedState(q)
    PROVE  /\ TypedState(Resolve(q)) /\ Resolve(q).env = q.env
           /\ Resolve(q).query_string = q.query_string
<1> DEFINE u == Resolve(q)
<1>1. /\ u.uri = q.uri /\ u.filename = q.uri /\ u.query_string = q.query_string
      /\ u.env = q.env /\ u.headers = q.headers /\ u.server = q.server
  BY DEF Resolve, IsState
<1> HIDE DEF u
<1>2. TypedState(u)
  BY <1>1 DEF TypedState
<1> QED
  BY <1>1, <1>2 DEF u

LEMMA RequestRest ==
    ASSUME NEW q, IsRequest(q), NEW x
    PROVE  /\ [q EXCEPT !.uri = x].query = q.query
           /\ [q EXCEPT !.uri = x].challenges = q.challenges
           /\ [q EXCEPT !.uri = x].headers = q.headers
           /\ [q EXCEPT !.headers = x].query = q.query
           /\ [q EXCEPT !.headers = x].challenges = q.challenges
           /\ [q EXCEPT !.headers = x].headers = x
           /\ [q EXCEPT !.challenges = x].query = q.query
           /\ [q EXCEPT !.challenges = x].challenges = x
           /\ [q EXCEPT !.challenges = x].headers = q.headers
BY DEF IsRequest

\* A pass that begins, or is one too many.
LEMMA PassHeadTyped ==
    ASSUME Typed, UNCHANGED <<site, edits>>,
           NEW n \in 0 .. MaxRedirects, NEW uri \in Uri, PassHead(n, uri),
           pc # "done", r'.uri \in Uri /\ r'.query \in Uri, r'.login \in Logins \cup {NoLogin},
           r'.challenges \in 0 .. n, TypedState(state')
    PROVE  Typed'
<1>1. MaxRedirects \in Nat /\ n \in Nat /\ Len(uri) \in Nat
  BY ExecuteAssumption DEF Uri
<1>2. pass' = n /\ walked' = uri /\ pos' = 1 /\ merged' = NoMerged
  BY DEF PassHead
<1>3. \/ pc' = "walk" /\ n < MaxRedirects /\ UNCHANGED answer
      \/ pc' = "done" /\ answer'.rc = "declined"
  BY DEF PassHead, Done, Answers, NoAnswer
<1>4. pos' \in 1 .. Len(walked') + 1 /\ r'.challenges \in 0 .. pass' + 1 /\ r'.challenges =< pass'
  BY <1>1, <1>2
<1> QED
  BY <1>1, <1>2, <1>3, <1>4, NothingTyped DEF Typed

\* Steps that change no more than the request and where its pass is.
LEMMA StepTyped ==
    ASSUME Typed, UNCHANGED <<site, edits, pass, walked, pos, merged>>,
           pc \notin {"idle", "done"},
           \/ pc' \in {"files", "alias", "rewrite", "auth", "headers"} /\ UNCHANGED answer
           \/ /\ pc' = "done"
              /\ answer'.rc \in {"declined", "forbidden", "unauthorized", "redirect", "error"},
           r'.uri \in Uri /\ r'.query = r.query /\ r'.login = r.login,
           \/ r'.challenges = r.challenges
           \/ pc' = "done" /\ r'.challenges \in {r.challenges, r.challenges + 1},
           TypedState(state')
    PROVE  Typed'
<1>1. MaxRedirects \in Nat /\ pass \in Nat /\ pass < MaxRedirects
  BY ExecuteAssumption DEF Typed
<1>2. r'.challenges \in 0 .. pass + 1 /\ (pc' # "done" => r'.challenges =< pass)
  BY <1>1 DEF Typed
<1>3. /\ answer'.rc \in {"none", "declined", "forbidden", "unauthorized", "redirect", "error"}
      /\ pc' = "done" <=> answer'.rc # "none"
  BY DEF Typed
<1> QED
  BY <1>1, <1>2, <1>3 DEF Typed

LEMMA TypedKept == Spec => []Typed
<1>1. Init => Typed
  <2>1. SUFFICES ASSUME Init PROVE Typed
    OBVIOUS
  <2>2. MaxRedirects \in Nat /\ MaxEdits \in Nat /\ site \in [DOMAIN site -> Parsed]
    BY <2>1, ExecuteAssumption, SitesAssumption DEF Init
  <2>3. r = NoRequest /\ r.uri = <<>> /\ r.query = <<>> /\ r.login = NoLogin /\ r.challenges = 0
    BY <2>1 DEF Init, NoRequest
  <2>4. answer.rc = "none"
    BY <2>1 DEF Init, NoAnswer
  <2> QED
    BY <2>1, <2>2, <2>3, <2>4, NothingTyped DEF Init, Typed
<1>2. ASSUME Shape, Typed, [Next]_vars PROVE Typed'
  <2>0. /\ MaxRedirects \in Nat /\ pass \in Nat
        /\ TypedState(state) /\ r.uri \in Uri /\ r.query \in Uri /\ merged \in Merged(Directives)
    BY <1>2, ExecuteAssumption DEF Typed
  <2>a. \A x \in Uri : TypedState([state EXCEPT !.uri = x])
    BY <1>2, <2>0, TypedMember DEF Shape
  <2>1. CASE Arrive
    <3>1. PICK q \in Requested, l \in Logins \cup {NoLogin} :
            /\ r' = [asked |-> q.uri, query |-> q.query, login |-> l, uri |-> q.uri,
                     headers |-> <<>>, challenges |-> 0]
            /\ state' = Resolve([uri |-> q.uri, filename |-> <<>>, query_string |-> q.query,
                                 env |-> <<>>, headers |-> q.headers, server |-> q.server])
            /\ PassHead(0, q.uri)
      BY <2>1 DEF Arrive
    <3>2. /\ q.uri \in Uri /\ q.query \in Uri /\ q.server \in Uri
          /\ \A name \in DOMAIN q.headers : q.headers[name] \in Uri
      BY RequestsAssumption
    <3> DEFINE u == [uri |-> q.uri, filename |-> <<>>, query_string |-> q.query,
                     env |-> <<>>, headers |-> q.headers, server |-> q.server]
    <3>3. IsState(u) /\ TypedState(u)
      BY <3>2, NothingTyped DEF IsState, TypedState
    <3> HIDE DEF u
    <3>4. TypedState(state')
      BY <3>1, <3>3, ResolvedType DEF u
    <3>5. /\ r'.uri \in Uri /\ r'.query \in Uri /\ r'.login \in Logins \cup {NoLogin}
          /\ r'.challenges \in 0 .. 0 /\ 0 \in 0 .. MaxRedirects
      BY <2>0, <3>1, <3>2
    <3>6. pc # "done" /\ UNCHANGED <<site, edits>>
      BY <2>1 DEF Arrive
    <3> QED
      BY <1>2, <3>1, <3>2, <3>4, <3>5, <3>6, PassHeadTyped
  <2>2. CASE LoadDir
    <3>1. pos \in 1 .. Len(walked) /\ walked \in Uri /\ Len(walked) \in Nat
      <4>1. walked \in Uri /\ pos \in 1 .. Len(walked) + 1 /\ pos =< Len(walked)
        BY <1>2, <2>2 DEF Typed, LoadDir
      <4>2. Len(walked) \in Nat
        BY <4>1 DEF Uri
      <4> QED
        BY <4>1, <4>2
    <3>2. merged' \in Merged(Directives)
      <4>1. site \in [DOMAIN site -> {NoFile} \cup Seq(Directives)]
        BY <1>2 DEF Typed, Parsed
      <4>2. ReadDir(site, merged, walked, pos) \in Merged(Directives)
        BY <2>0, <3>1, <4>1, ReadDirType
      <4> QED
        BY <2>2, <4>2 DEF LoadDir
    <3>3. pos + 1 \in 1 .. Len(walked) + 1
      BY <3>1
    <3> QED
      BY <1>2, <2>2, <3>2, <3>3 DEF LoadDir, Typed
  <2>3. CASE Loaded \/ ApplyFilesDeny \/ RewriteEnds \/ AuthPasses \/ OutOfMemory
    <3>1. /\ UNCHANGED <<site, edits, pass, walked, pos, merged, r, state>>
          /\ pc \in {"walk", "files", "alias", "rewrite", "auth"}
          /\ \/ pc' \in {"files", "alias", "auth", "headers"} /\ UNCHANGED answer
             \/ pc' = "done" /\ answer'.rc \in {"forbidden", "error"}
      BY <2>3 DEF Loaded, ApplyFilesDeny, RewriteEnds, AuthPasses, OutOfMemory, Done, Answers, NoAnswer
    <3> QED
      BY <1>2, <2>0, <3>1, StepTyped
  <2>4. CASE Alias
    <3>1. TypedState(state')
      <4>1. CASE UNCHANGED state
        BY <2>0, <4>1
      <4>2. CASE \E d \in ApplyAlias(merged, state.uri) : state' = [state EXCEPT !.uri = d.to]
        BY <2>0, <2>a, <4>2, AliasType
      <4> QED
        BY <2>4, <4>1, <4>2 DEF Alias
    <3>2. /\ UNCHANGED <<site, edits, pass, walked, pos, merged, r>> /\ pc = "alias"
          /\ \/ pc' = "rewrite" /\ UNCHANGED answer
             \/ pc' = "done" /\ answer'.rc = "redirect"
      BY <2>4 DEF Alias, Redirect, Done
    <3> QED
      BY <1>2, <2>0, <3>1, <3>2, StepTyped
  <2>5. CASE RewriteGoesOn
    <3>1. PICK w \in Rounds : r' = [r EXCEPT !.uri = w.uri] /\ state' = w.state
      BY <2>5 DEF RewriteGoesOn
    <3>2. TypedState(w.state) /\ w.uri \in Uri
      BY <1>2, <2>0, RoundsType
    <3>3. /\ r'.uri = w.uri /\ r'.login = r.login /\ r'.query = r.query
          /\ r'.challenges = r.challenges
      BY <1>2, <3>1, RequestMembers, RequestRest DEF Shape
    <3>4. /\ UNCHANGED <<site, edits, pc, pass, walked, pos, merged, answer>> /\ pc = "rewrite"
      BY <2>5 DEF RewriteGoesOn
    <3> QED
      BY <1>2, <3>1, <3>2, <3>3, <3>4, StepTyped
  <2>6. CASE RewriteRedirects \/ RewriteStops
    <3>1. PICK w \in Rounds : state' = w.state
      BY <2>6 DEF RewriteRedirects, RewriteStops
    <3>2. TypedState(w.state)
      BY <1>2, <2>0, RoundsType
    <3>3. /\ UNCHANGED <<site, edits, pass, walked, pos, merged, r>> /\ pc = "rewrite"
          /\ \/ pc' = "auth" /\ UNCHANGED answer
             \/ pc' = "done" /\ answer'.rc = "redirect"
      BY <2>6 DEF RewriteRedirects, RewriteStops, Redirect, Done
    <3> QED
      BY <1>2, <2>0, <3>1, <3>2, <3>3, StepTyped
  <2>7. CASE Rewrites
    <3>1. PICK w \in Rounds : /\ r' = [r EXCEPT !.uri = w.state.uri]
                              /\ state' = Resolve(w.state)
                              /\ PassHead(pass + 1, w.state.uri)
      BY <2>7 DEF Rewrites
    <3>2. TypedState(w.state) /\ w.state.uri \in Uri /\ IsState(w.state)
      BY <1>2, <2>0, RoundsType, RoundsAreRounds DEF IsRound
    <3>3. TypedState(state')
      BY <3>1, <3>2, ResolvedType
    <3>4. /\ r'.uri = w.state.uri /\ r'.login = r.login /\ r'.query = r.query
          /\ r'.challenges = r.challenges
      BY <1>2, <3>1, RequestMembers, RequestRest DEF Shape
    <3>5. /\ UNCHANGED <<site, edits>> /\ pc # "done" /\ pass + 1 \in 0 .. MaxRedirects
          /\ r.challenges \in 0 .. pass + 1 /\ r.login \in Logins \cup {NoLogin}
      BY <1>2, <2>0, <2>7 DEF Rewrites, Typed
    <3> QED
      BY <1>2, <2>0, <3>1, <3>2, <3>3, <3>4, <3>5, PassHeadTyped
  <2>8. CASE AuthRefuses \/ ErrorDocument
    <3>1. /\ Challenge \in {0, 1} /\ Verdict \in {"declined", "forbidden", "unauthorized"}
          /\ pc = "auth" /\ Verdict # "declined" /\ UNCHANGED <<site, edits>>
      BY <2>8, AuthType DEF Challenge, Verdict, AuthRefuses, ErrorDocument
    <3>2. /\ r.challenges \in 0 .. pass /\ pass + 1 \in 0 .. MaxRedirects
          /\ r.login \in Logins \cup {NoLogin}
      BY <1>2, <2>0, <3>1 DEF Typed
    <3>3. PICK n : n = r.challenges + Challenge
      OBVIOUS
    <3>4. n \in {r.challenges, r.challenges + 1} /\ n \in 0 .. pass + 1
      BY <2>0, <3>1, <3>2, <3>3
    <3>5. LET q == [r EXCEPT !.challenges = n]
          IN  /\ IsRequest(q) /\ q.uri = r.uri /\ q.login = r.login /\ q.query = r.query
              /\ q.challenges = n
      BY <1>2, RequestMembers, RequestRest DEF Shape
    <3>6. CASE AuthRefuses
      <4>1. r' = [r EXCEPT !.challenges = n]
        BY <3>3, <3>6 DEF AuthRefuses
      <4>2. TypedState(state')
        <5>1. CASE UNCHANGED state
          BY <2>0, <5>1
        <5>2. CASE \E doc \in ErrorDocuments : state' = [state EXCEPT !.uri = doc]
          BY <2>0, <2>a, <5>2, DocumentType
        <5> QED
          BY <3>6, <5>1, <5>2 DEF AuthRefuses
      <4>3. /\ UNCHANGED <<pass, walked, pos, merged>>
            /\ pc' = "done" /\ answer'.rc = Verdict
        BY <3>6 DEF AuthRefuses, Done, Answers, NoAnswer
      <4> QED
        BY <1>2, <2>0, <3>1, <3>4, <3>5, <4>1, <4>2, <4>3, StepTyped
    <3>7. CASE ErrorDocument
      <4>1. PICK doc \in ErrorDocuments :
              /\ r' = [r EXCEPT !.challenges = n, !.uri = doc]
              /\ state' = [state EXCEPT !.uri = doc]
              /\ PassHead(pass + 1, doc)
        BY <3>3, <3>7 DEF ErrorDocument
      <4>2. doc \in Uri
        BY <2>0, DocumentType
      <4>3. TypedState(state')
        BY <1>2, <2>0, <4>1, <4>2, TypedMember DEF Shape
      <4>4. /\ r'.uri = doc /\ r'.login = r.login /\ r'.query = r.query /\ r'.challenges = n
        BY <3>5, <4>1, RequestMembers, RequestRest
      <4> QED
        BY <1>2, <2>0, <3>1, <3>2, <3>4, <4>1, <4>2, <4>3, <4>4, PassHeadTyped
    <3> QED
      BY <2>8, <3>6, <3>7
  <2>9. CASE Headers
    <3>1. PICK h : r' = [r EXCEPT !.headers = h]
      BY <2>9 DEF Headers
    <3>2. /\ r'.uri = r.uri /\ r'.login = r.login /\ r'.query = r.query
          /\ r'.challenges = r.challenges
      BY <1>2, <3>1, RequestMembers, RequestRest DEF Shape
    <3>3. /\ UNCHANGED <<site, edits, pass, walked, pos, merged, state>>
          /\ pc = "headers" /\ pc' = "done" /\ answer'.rc = "declined"
      BY <2>9 DEF Headers, Done, Answers, NoAnswer
    <3> QED
      BY <1>2, <2>0, <3>2, <3>3, StepTyped
  <2>10. CASE Return
    <3>1. /\ r'.uri = <<>> /\ r'.query = <<>> /\ r'.login = NoLogin /\ r'.challenges = 0
          /\ answer'.rc = "none" /\ pc' = "idle" /\ pass' = 0 /\ edits' = 0
          /\ walked' = <<>> /\ pos' = 1 /\ merged' = NoMerged /\ state' = NoState
          /\ UNCHANGED site
      BY <2>10 DEF Return, NoRequest, NoAnswer
    <3> QED
      BY <1>2, <2>0, <3>1, ExecuteAssumption, NothingTyped DEF Typed
  <2>11. CASE EditFile
    <3>1. PICK e \in Edits : site' = [site EXCEPT ![e[1]] = e[2]]
      BY <2>11 DEF EditFile
    <3>2. e[2] \in Parsed
      BY SitesAssumption
    <3>3. site' \in [DOMAIN site' -> Parsed]
      BY <1>2, <3>1, <3>2 DEF Typed
    <3>4. edits + 1 \in 0 .. MaxEdits
      BY <1>2, <2>11, ExecuteAssumption DEF Typed, EditFile
    <3> QED
      BY <1>2, <2>11, <3>3, <3>4 DEF EditFile, Typed
  <2>12. CASE UNCHANGED vars
    BY <1>2, <2>12 DEF vars, Typed
  <2> QED
    BY <1>2, <2>1, <2>2, <2>3, <2>4, <2>5, <2>6, <2>7, <2>8, <2>9, <2>10, <2>11, <2>12 DEF Next, Execute
<1> QED
  BY <1>1, <1>2, ShapeKept, PTL DEF Spec

\* A context is made of lists.
LEMMA MergedLists ==
    ASSUME NEW m \in Merged(Directives) PROVE Lists(m.dirs)
<1>1. m.dirs \in Seq(Dirs(Directives))
  BY DEF Merged
<1>2. ASSUME NEW i \in DOMAIN m.dirs PROVE DOMAIN m.dirs[i].directives \subseteq Nat \ {0}
  <2>1. m.dirs[i] \in Dirs(Directives)
    BY <1>1, ElementOf
  <2>2. m.dirs[i].directives \in Seq(Directives)
    BY <2>1 DEF Dirs
  <2> QED
    BY <2>2
<1> QED
  BY <1>1, <1>2 DEF Lists

\* However templates, documents and redirects replace the URI, it stays one; no more
\* passes are begun than max_redirects allows, and each adds one challenge at most.
THEOREM ExecuteTypesHold == Spec => []ExecuteTypeOK
<1>1. Typed => ExecuteTypeOK
  <2>1. Typed => ListsKept
    BY MergedLists DEF Typed, ListsKept, Lists
  <2> QED
    BY <2>1 DEF Typed, ExecuteTypeOK
<1> QED
  BY <1>1, TypedKept, PTL

-----------------------------------------------------------------------------
(* What a pass has read, while nobody edits. *)

\* merged is what the directories that the pass has been through say: those before
\* pos in the walk, and all of them after it.
Reading ==
    edits = 0 =>
          /\ pc = "walk" => merged = MergedDirs(site, walked)[pos - 1]
          /\ pc \in {"files", "alias", "rewrite", "auth", "headers"} =>
                merged = MergedDirs(site, walked)[Len(walked)]

LEMMA PassHeadReads ==
    ASSUME NEW n, NEW uri, PassHead(n, uri)
    PROVE  Reading'
<1>1. pos' = 1 /\ merged' = NoMerged /\ pc' \in {"walk", "done"}
  BY DEF PassHead, Done
<1>2. MergedDirs(site', walked')[0] = NoMerged
  BY MergedDirsStep
<1> QED
  BY <1>1, <1>2 DEF Reading

\* While no file is edited, the context that a pass has merged is what the files of
\* the directories read so far say.
THEOREM ReadingKept == Spec => []Reading
<1>1. Init => Reading
  BY DEF Init, Reading
<1>2. ASSUME Typed, Reading, [Next]_vars PROVE Reading'
  <2>0. Len(walked) \in Nat /\ pos \in 1 .. Len(walked) + 1
    BY <1>2 DEF Typed, Uri
  <2>1. CASE Arrive \/ Rewrites \/ ErrorDocument
    <3>1. \E n, uri : PassHead(n, uri)
      BY <2>1 DEF Arrive, Rewrites, ErrorDocument
    <3> QED
      BY <3>1, PassHeadReads
  <2>2. CASE LoadDir
    <3>1. /\ pc = "walk" /\ pos' = pos + 1
          /\ merged' = ReadDir(site, merged, walked, pos)
          /\ UNCHANGED <<site, edits, pc, walked>>
      BY <2>2 DEF LoadDir
    <3>2. edits = 0 => merged' = MergedDirs(site, walked)[pos]
      BY <1>2, <2>0, <3>1, MergedDirsStep DEF Reading
    <3>3. pos' - 1 = pos
      BY <2>0, <3>1
    <3> QED
      BY <3>1, <3>2, <3>3 DEF Reading
  <2>3. CASE Loaded
    <3>1. /\ pc = "walk" /\ pos > Len(walked)
          /\ UNCHANGED <<site, edits, walked, merged>> /\ pc' # "walk"
      BY <2>3 DEF Loaded
    <3>2. pos - 1 = Len(walked)
      BY <2>0, <3>1
    <3> QED
      BY <1>2, <3>1, <3>2 DEF Reading
  <2>4. CASE \/ ApplyFilesDeny \/ Alias \/ RewriteGoesOn \/ RewriteRedirects \/ RewriteStops
             \/ RewriteEnds \/ OutOfMemory \/ AuthPasses \/ AuthRefuses \/ Headers
    <3>1. UNCHANGED <<site, edits, walked, pos, merged>>
      BY <2>4
         DEF ApplyFilesDeny, Alias, RewriteGoesOn, RewriteRedirects, RewriteStops, RewriteEnds,
             OutOfMemory, AuthPasses, AuthRefuses, Headers
    <3>2. \/ pc' = "done"
          \/ /\ pc \in {"files", "alias", "rewrite", "auth"}
             /\ pc' \in {"alias", "rewrite", "auth", "headers"}
      BY <2>4
         DEF ApplyFilesDeny, Alias, RewriteGoesOn, RewriteRedirects, RewriteStops, RewriteEnds,
             OutOfMemory, AuthPasses, AuthRefuses, Headers, Redirect, Done
    <3> QED
      BY <1>2, <3>1, <3>2 DEF Reading
  <2>5. CASE Return
    BY <2>5 DEF Return, Reading
  <2>6. CASE EditFile
    <3>1. edits' # 0
      BY <1>2, <2>6 DEF EditFile, Typed
    <3> QED
      BY <3>1 DEF Reading
  <2>7. CASE UNCHANGED vars
    BY <1>2, <2>7 DEF vars, Reading
  <2> QED
    BY <1>2, <2>1, <2>2, <2>3, <2>4, <2>5, <2>6, <2>7 DEF Next, Execute
<1> QED
  BY <1>1, <1>2, TypedKept, PTL DEF Spec

-----------------------------------------------------------------------------
(* What is refused stays refused. *)

\* The verdict was that of the headers' own pass; and nothing happens after it.
Checked ==
    /\ pc = "headers" => Verdict = "declined"
    /\ LetThrough /\ AtRest =>
          ApplyAuth(MergedAt(site, walked), r.uri, r.login) = "declined"

\* Steps that end a request otherwise than by letting it through, or do not end it.
LEMMA NotLetThrough ==
    ASSUME Checked,
           \/ pc' \notin {"headers", "done"}
           \/ pc' = "done" /\ answer'.rc # "declined"
           \/ pc' = "done" /\ ~(pass' < MaxRedirects)
           \/ pc' = "done" /\ edits' # 0
           \/ pc' = "headers" /\ UNCHANGED <<pc, merged, r>>
    PROVE  Checked'
<1>1. pc' = "headers" => Verdict' = "declined"
  BY DEF Checked, Verdict
<1>2. ~(LetThrough /\ AtRest)'
  BY DEF LetThrough, AtRest
<1> QED
  BY <1>1, <1>2 DEF Checked

LEMMA CheckedKept == Spec => []Checked
<1>1. Init => Checked
  BY DEF Init, Checked, LetThrough
<1>2. ASSUME Shape, Typed, Reading, Checked, [Next]_vars PROVE Checked'
  <2>1. CASE Arrive \/ Rewrites \/ ErrorDocument
    <3>1. PICK n, uri : PassHead(n, uri)
      BY <2>1 DEF Arrive, Rewrites, ErrorDocument
    <3>2. pc' = "walk" \/ (pc' = "done" /\ ~(pass' < MaxRedirects))
      BY <3>1 DEF PassHead, Done
    <3> QED
      BY <1>2, <3>2, NotLetThrough
  <2>2. CASE Headers
    <3>1. /\ pc = "headers" /\ pc' = "done"
          /\ \E y : r' = [r EXCEPT !.headers = y]
          /\ UNCHANGED <<site, edits, walked, merged>>
      BY <2>2 DEF Headers, Done
    <3>2. r'.uri = r.uri /\ r'.login = r.login
      BY <1>2, <3>1, RequestMembers DEF Shape
    <3>3. ASSUME AtRest'
          PROVE  ApplyAuth(MergedAt(site, walked), r.uri, r.login)' = "declined"
      <4>1. edits = 0
        BY <3>1, <3>3 DEF AtRest
      <4>2. merged = MergedDirs(site, walked)[Len(walked)]
        BY <1>2, <3>1, <4>1 DEF Reading
      <4>3. ApplyAuth(merged, r.uri, r.login) = "declined"
        BY <1>2, <3>1 DEF Checked, Verdict
      <4>4. MergedAt(site, walked)' = merged
        BY <3>1, <4>2 DEF MergedAt
      <4> QED
        BY <3>2, <4>3, <4>4
    <3> QED
      BY <3>1, <3>3 DEF Checked
  <2>3. CASE AuthPasses
    <3>1. pc' = "headers" /\ Verdict = "declined" /\ UNCHANGED <<merged, r>>
      BY <2>3 DEF AuthPasses
    <3> QED
      BY <3>1 DEF Checked, LetThrough, Verdict
  <2>4. CASE \/ LoadDir \/ Loaded \/ ApplyFilesDeny \/ Alias \/ RewriteGoesOn \/ RewriteRedirects
             \/ RewriteStops \/ RewriteEnds \/ OutOfMemory \/ Return
    <3>1. pc' \notin {"headers", "done"} \/ (pc' = "done" /\ answer'.rc # "declined")
      BY <2>4
         DEF LoadDir, Loaded, ApplyFilesDeny, Alias, RewriteGoesOn, RewriteRedirects, RewriteStops,
             RewriteEnds, OutOfMemory, Return, Redirect, Done, Answers, NoAnswer
    <3> QED
      BY <1>2, <3>1, NotLetThrough
  <2>5. CASE AuthRefuses
    <3>1. pc' = "done" /\ answer' = Answers(Verdict) /\ Verdict # "declined"
      BY <2>5 DEF AuthRefuses, Done
    <3>2. answer'.rc # "declined"
      BY <3>1 DEF Answers, NoAnswer
    <3> QED
      BY <1>2, <3>1, <3>2, NotLetThrough
  <2>6. CASE EditFile
    <3>1. edits' # 0 /\ UNCHANGED <<pc, merged, r>>
      BY <1>2, <2>6 DEF EditFile, Typed
    <3> QED
      BY <1>2, <3>1, NotLetThrough
  <2>7. CASE UNCHANGED vars
    BY <1>2, <2>7
       DEF vars, Checked, Verdict, LetThrough, AtRest, MergedAt
  <2> QED
    BY <1>2, <2>1, <2>2, <2>3, <2>4, <2>5, <2>6, <2>7 DEF Next, Execute
<1> QED
  BY <1>1, <1>2, ShapeKept, TypedKept, ReadingKept, PTL DEF Spec

\* However often rules and documents replace the URI, the one that a pass lets
\* through is not refused by the files of its own directories.
THEOREM NothingRefused == Spec => []NothingRefusedIsServed
<1>1. Checked => NothingRefusedIsServed
  BY DEF Checked, NothingRefusedIsServed, SameUri, MergedOf
<1> QED
  BY <1>1, CheckedKept, PTL

\* Where the loop over the Requires of a longer list returns, if it returns within the
\* shorter one.
LEMMA FirstStaysFirst ==
    ASSUME NEW a, NEW b, Extends(a.requires, b.requires), FirstDecisive(a) # 0
    PROVE  /\ FirstDecisive(b) = FirstDecisive(a)
           /\ FirstDecisive(a) \in 1 .. Len(a.requires)
           /\ Decisive(a.requires[FirstDecisive(a)])
<1> DEFINE I(s) == {i \in 1 .. Len(s) : Decisive(s[i])}
           Least(J) == CHOOSE x \in J : \A y \in J : x =< y
           s == a.requires
           t == b.requires
<1>1. /\ FirstDecisive(a) = IF I(s) = {} THEN 0 ELSE Least(I(s))
      /\ FirstDecisive(b) = IF I(t) = {} THEN 0 ELSE Least(I(t))
  BY DEF FirstDecisive, SelectInSeq, Min
<1>2. /\ Len(s) \in Nat /\ Len(t) \in Nat /\ Len(s) =< Len(t)
      /\ \A i \in 1 .. Len(s) : t[i] = s[i]
  BY DEF Extends
<1> DEFINE x == Least(I(s))
           y == Least(I(t))
<1>3. I(s) # {} /\ I(s) \subseteq I(t) /\ I(t) # {}
  BY <1>1, <1>2
<1>4. I(s) \in SUBSET (1 .. Len(s)) /\ I(t) \in SUBSET (1 .. Len(t))
  OBVIOUS
<1>5. x \in I(s) /\ y \in I(t) /\ (\A z \in I(s) : x =< z) /\ (\A z \in I(t) : y =< z)
  <2> HIDE DEF I
  <2> QED
    BY <1>2, <1>3, <1>4, FirstPlace
<1>6. FirstDecisive(a) = x /\ FirstDecisive(b) = y
  BY <1>1, <1>3
<1> HIDE DEF x, y
<1>7. y =< x /\ y \in Nat /\ x \in Nat /\ x =< Len(s)
  BY <1>2, <1>3, <1>5
<1>8. y \in I(s)
  BY <1>2, <1>5, <1>7
<1>9. x = y
  BY <1>5, <1>7, <1>8
<1> QED
  BY <1>5, <1>6, <1>9

\* What the files of the first k directories say of access is there when all are read.
LEMMA AccessBelow ==
    ASSUME NEW files, files \in [DOMAIN files -> Parsed], NEW uri \in Uri, NEW k \in 0 .. Len(uri)
    PROVE  /\ MergedDirs(files, uri)[k] \in Merged(Directives)
           /\ AccessGrows(MergedDirs(files, uri)[k], MergedAt(files, uri))
<1> DEFINE n == Len(uri)
           m == MergedDirs(files, uri)
           T == {j \in 0 .. n : m[j] \in Merged(Directives)}
<1>0. n \in Nat /\ Directives \in SUBSET Directives
  BY DEF Uri
<1>1. m[0] = NoMerged /\ \A j \in 1 .. n : m[j] = ReadDir(files, m[j - 1], uri, j)
  BY <1>0, MergedDirsStep
<1>2. 0 .. n \subseteq T
  <2>1. 0 \in T
    BY <1>0, <1>1, NothingTyped
  <2>2. ASSUME NEW j \in 1 .. n, j - 1 \in T PROVE j \in T
    BY <1>0, <1>1, <2>2, ReadDirType DEF Parsed
  <2>3. \A j \in 1 .. n : j - 1 \in T => j \in T
    BY <2>2
  <2> HIDE DEF T
  <2> QED
    BY <1>0, <2>1, <2>3, InductionUpTo
<1>3. \A j \in 0 .. n : m[j] \in Merged(Directives)
  BY <1>2
<1>4. ASSUME NEW j \in 1 .. n PROVE AccessGrows(m[j - 1], m[j])
  <2>1. m[j - 1] \in Merged(Directives)
    BY <1>0, <1>3
  <2> QED
    BY <1>0, <1>1, <2>1, ReadDirGrows DEF Parsed
<1> DEFINE S == {j \in 0 .. n - k : AccessGrows(m[k], m[k + j])}
<1>5. 0 .. n - k \subseteq S
  <2>1. 0 \in S
    <3>1. AccessGrows(m[k], m[k])
      BY <1>3, ExtendedBy DEF AccessGrows, Merged
    <3> QED
      BY <1>0, <3>1
  <2>2. ASSUME NEW j \in 1 .. n - k, j - 1 \in S PROVE j \in S
    <3>1. k + j \in 1 .. n /\ k + (j - 1) = (k + j) - 1 /\ j \in 0 .. n - k
      BY <1>0
    <3>2. AccessGrows(m[k], m[(k + j) - 1]) /\ AccessGrows(m[(k + j) - 1], m[k + j])
      BY <1>4, <2>2, <3>1
    <3>3. AccessGrows(m[k], m[k + j])
      BY <3>2, GrowsOn
    <3> QED
      BY <3>1, <3>3
  <2>3. \A j \in 1 .. n - k : j - 1 \in S => j \in S
    BY <2>2
  <2>4. n - k \in Nat
    BY <1>0
  <2> HIDE DEF S
  <2> QED
    BY <2>1, <2>3, <2>4, InductionUpTo
<1>6. n - k \in S /\ k + (n - k) = n
  <2>1. n - k \in 0 .. n - k
    BY <1>0
  <2> QED
    BY <1>0, <1>5, <2>1
<1> QED
  BY <1>3, <1>6 DEF MergedAt

\* What the files of the upper directories settle of access, no deeper file reopens.
THEOREM NothingIsReopened == Spec => []NothingReopened
<1>1. ASSUME Typed, Checked PROVE NothingReopened
  <2> SUFFICES ASSUME LetThrough, AtRest, NEW k \in 0 .. Len(walked)
               PROVE  LET m     == MergedDirs(site, walked)[k]
                          first == m.requires[FirstDecisive(m)].data
                      IN  /\ ~FilesDeny(m, r.uri)
                          /\ FirstDecisive(m) # 0 =>
                                \/ first = "all granted"
                                \/ first = "valid-user"
                                     /\ ValidUser(MergedAt(site, walked), r.login)
    BY DEF NothingReopened
  <2> DEFINE m == MergedDirs(site, walked)[k]
             all == MergedAt(site, walked)
             at == FirstDecisive(m)
  <2>1. m \in Merged(Directives) /\ AccessGrows(m, all)
    BY <1>1, AccessBelow DEF Typed
  <2>2. ApplyAuth(all, r.uri, r.login) = "declined"
    BY <1>1 DEF Checked
  <2> HIDE DEF m, all
  <2>3. ~FilesDeny(all, r.uri) /\ RequireSatisfied(all, r.login) \in {"ok", "declined"}
    BY <2>2 DEF ApplyAuth
  <2>4. ~FilesDeny(m, r.uri)
    BY <2>1, <2>3 DEF AccessGrows, Extends, FilesDeny, ToSet
  <2>5. ASSUME at # 0
        PROVE  \/ m.requires[at].data = "all granted"
               \/ m.requires[at].data = "valid-user" /\ ValidUser(all, r.login)
    <3>1. /\ FirstDecisive(all) = at /\ at \in 1 .. Len(m.requires)
          /\ Decisive(m.requires[at])
      BY <2>1, <2>5, FirstStaysFirst DEF AccessGrows
    <3>2. all.requires # <<>> /\ all.requires[at] = m.requires[at]
      BY <2>1, <3>1 DEF AccessGrows, Extends
    <3>3. m.requires[at].data \in {"all granted", "all denied", "valid-user"}
      BY <3>1 DEF Decisive, Begins
    <3>4. RequireSatisfied(all, r.login) =
            IF m.requires[at].data = "all granted" THEN "ok"
            ELSE IF m.requires[at].data = "all denied" THEN "forbidden"
            ELSE IF ValidUser(all, r.login) THEN "ok" ELSE "unauthorized"
      BY <2>5, <3>1, <3>2, <3>3 DEF RequireSatisfied
    <3> QED
      BY <2>3, <3>3, <3>4
  <2> QED
    BY <2>4, <2>5 DEF m, all
<1> QED
  BY <1>1, TypedKept, CheckedKept, PTL

\* The files of the directories of the URI that was asked for deny it.
AskedIsDenied == FilesDeny(MergedDirs(site, r.asked)[Len(r.asked)], r.asked)

\* The first pass reads for the URI that was asked for, and a denied one does not get
\* past the rules on files.
FirstPass ==
    /\ pc # "idle" /\ pass = 0 => walked = r.asked
    /\ pc = "files" => pass = 0
    /\ pc # "idle" /\ edits = 0 /\ MaxRedirects > 0 /\ AskedIsDenied =>
          \/ pass = 0 /\ pc \in {"walk", "files"}
          \/ pc = "done" /\ answer.rc \in {"forbidden", "error"}

\* Beyond the rules on files nobody is denied, so steps from there have nothing to
\* keep but whose request it is.
LEMMA PastTheFiles ==
    ASSUME Typed, FirstPass, UNCHANGED <<site, edits>>, r'.asked = r.asked,
           pc \notin {"idle", "walk", "files", "done"}, pc' \notin {"idle", "files"},
           \/ UNCHANGED <<pass, walked>>
           \/ pass' = pass + 1
    PROVE  FirstPass'
<1>1. ~(edits' = 0 /\ MaxRedirects > 0 /\ AskedIsDenied')
  BY DEF FirstPass, AskedIsDenied
<1>2. pass \in Nat
  BY ExecuteAssumption DEF Typed
<1> QED
  BY <1>1, <1>2 DEF FirstPass

LEMMA FirstPassKept == Spec => []FirstPass
<1>1. Init => FirstPass
  BY DEF Init, FirstPass
<1>2. ASSUME Shape, Typed, Reading, FirstPass, [Next]_vars PROVE FirstPass'
  <2>1. CASE Arrive
    <3>1. PICK q \in Requested : /\ r'.asked = q.uri /\ PassHead(0, q.uri)
      BY <2>1 DEF Arrive
    <3>2. pass' = 0 /\ walked' = r'.asked /\ (MaxRedirects > 0 => pc' = "walk") /\ pc' # "files"
      BY <3>1, ExecuteAssumption DEF PassHead, Done
    <3> QED
      BY <3>1, <3>2 DEF FirstPass
  <2>2. CASE LoadDir
    BY <1>2, <2>2 DEF LoadDir, FirstPass, AskedIsDenied
  <2>3. CASE Loaded
    BY <1>2, <2>3 DEF Loaded, FirstPass, AskedIsDenied
  <2>4. CASE ApplyFilesDeny
    <3>1. /\ pc = "files" /\ UNCHANGED <<site, edits, pass, walked, r>>
          /\ IF FilesDeny(merged, r.asked) THEN Done(Answers("forbidden")) ELSE pc' = "alias"
      BY <2>4 DEF ApplyFilesDeny
    <3>2. edits = 0 => merged = MergedDirs(site, r.asked)[Len(r.asked)]
      BY <1>2, <3>1 DEF FirstPass, Reading
    <3>3. FilesDeny(merged, r.asked) => pc' = "done" /\ answer'.rc = "forbidden"
      BY <3>1 DEF Done, Answers, NoAnswer
    <3>4. pc' \in {"alias", "done"}
      BY <3>1, <3>3
    <3> QED
      BY <1>2, <3>1, <3>2, <3>3, <3>4 DEF FirstPass, AskedIsDenied
  <2>5. CASE OutOfMemory
    BY <1>2, <2>5 DEF OutOfMemory, Done, Answers, NoAnswer, FirstPass, AskedIsDenied
  <2>6. CASE Alias \/ RewriteRedirects \/ RewriteStops \/ RewriteEnds \/ AuthPasses
    BY <1>2, <2>6, PastTheFiles
       DEF Alias, RewriteRedirects, RewriteStops, RewriteEnds, AuthPasses, Redirect, Done
  <2>7. CASE RewriteGoesOn \/ Rewrites \/ AuthRefuses \/ ErrorDocument \/ Headers
    <3>1. /\ UNCHANGED <<site, edits>>
          /\ pc \in {"rewrite", "auth", "headers"} /\ pc' \in {pc, "walk", "done"}
          /\ \/ UNCHANGED <<pass, walked>>
             \/ pass' = pass + 1
      BY <2>7 DEF RewriteGoesOn, Rewrites, AuthRefuses, ErrorDocument, Headers, PassHead, Done
    <3>2. PICK x, y : \/ r' = [r EXCEPT !.uri = x]
                      \/ r' = [r EXCEPT !.headers = x]
                      \/ r' = [r EXCEPT !.challenges = x]
                      \/ r' = [r EXCEPT !.challenges = x, !.uri = y]
      BY <2>7 DEF RewriteGoesOn, Rewrites, AuthRefuses, ErrorDocument, Headers
    <3>3. r'.asked = r.asked
      BY <1>2, <3>2 DEF Shape, IsRequest
    <3> QED
      BY <1>2, <3>1, <3>3, PastTheFiles
  <2>8. CASE Return
    BY <1>2, <2>8 DEF Return, FirstPass
  <2>9. CASE EditFile
    BY <1>2, <2>9 DEF EditFile, Typed, FirstPass
  <2>10. CASE UNCHANGED vars
    BY <1>2, <2>10 DEF vars, FirstPass, AskedIsDenied
  <2> QED
    BY <1>2, <2>1, <2>2, <2>3, <2>4, <2>5, <2>6, <2>7, <2>8, <2>9, <2>10 DEF Next, Execute
<1> QED
  BY <1>1, <1>2, ShapeKept, TypedKept, ReadingKept, PTL DEF Spec

\* A URI that a <FilesMatch> denies gets its 403, whatever Redirect, RewriteRule and
\* ErrorDocument would make of it.
THEOREM DeniedStayDenied == Spec => []DeniedFilesStayDenied
<1>1. FirstPass => DeniedFilesStayDenied
  BY DEF FirstPass, DeniedFilesStayDenied, AskedIsDenied, MergedOf, MergedAt, AtRest
<1> QED
  BY <1>1, FirstPassKept, PTL

-----------------------------------------------------------------------------
(* Chains of rules. *)

\* The loop begins at the start of the context, with nothing applied.
Chaining ==
    /\ pc \in {"walk", "files", "alias"} => loop = NoLoop
    /\ pc = "rewrite" => AtRule(merged.dirs, loop) /\ Chained(merged.dirs, loop.applied)

LEMMA RoundsKeepChains ==
    ASSUME Shape, Typed, Chaining, pc = "rewrite", NEW w \in Rounds
    PROVE  AtRule(merged.dirs, w) /\ Chained(merged.dirs, w.applied)
<1> DEFINE v == [at |-> loop.at, chain_active |-> loop.chain_active, applied |-> loop.applied,
                 uri |-> r.uri, state |-> state, code |-> 0, result |-> "none"]
<1>1. IsRound(v)
  BY DEF Shape, IsRound
<1>2. PICK p \in NextRule(merged.dirs, loop.at) : w = RewriteRule(v, merged.dirs, p)
  BY DEF Rounds
<1>3. AtRule(merged.dirs, v) /\ Chained(merged.dirs, v.applied) /\ v.at = loop.at
  BY DEF Chaining, AtRule
<1>4. Lists(merged.dirs)
  BY MergedLists DEF Typed
<1> HIDE DEF v
<1> QED
  BY <1>1, <1>2, <1>3, <1>4, RoundKeepsChains

\* A rule applies only if the whole chain before it has, however the rules of all
\* directories are mixed and whatever their conditions read.
THEOREM ChainsKept == Spec => []ChainsHold
<1>1. Init => Chaining
  BY DEF Init, Chaining
<1>2. ASSUME Shape, Typed, Chaining, [Next]_vars PROVE Chaining'
  <2>1. CASE Arrive \/ Rewrites \/ ErrorDocument
    <3>1. PICK n, uri : PassHead(n, uri)
      BY <2>1 DEF Arrive, Rewrites, ErrorDocument
    <3>2. loop' = NoLoop /\ pc' \in {"walk", "done"}
      BY <3>1 DEF PassHead, Done
    <3> QED
      BY <3>2 DEF Chaining
  <2>2. CASE LoadDir \/ Loaded \/ ApplyFilesDeny
    <3>1. pc \in {"walk", "files"} /\ pc' # "rewrite" /\ UNCHANGED loop
      BY <2>2 DEF LoadDir, Loaded, ApplyFilesDeny, Done
    <3> QED
      BY <1>2, <3>1 DEF Chaining
  <2>3. CASE Alias
    <3>1. loop' = NoLoop
      BY <1>2, <2>3 DEF Alias, Chaining
    <3>2. AtRule(merged'.dirs, NoLoop) /\ Chained(merged'.dirs, NoLoop.applied)
      BY DEF AtRule, Chained, NoLoop
    <3> QED
      BY <3>1, <3>2 DEF Chaining
  <2>4. CASE RewriteGoesOn
    <3>1. PICK w \in Rounds :
            loop' = [at |-> w.at, chain_active |-> w.chain_active, applied |-> w.applied]
      BY <2>4 DEF RewriteGoesOn
    <3>2. pc = "rewrite" /\ pc' = "rewrite" /\ merged' = merged
      BY <2>4 DEF RewriteGoesOn
    <3>3. AtRule(merged.dirs, w) /\ Chained(merged.dirs, w.applied)
      BY <1>2, <3>2, RoundsKeepChains
    <3>4. loop'.at = w.at /\ loop'.chain_active = w.chain_active /\ loop'.applied = w.applied
      BY <3>1
    <3>5. AtRule(merged.dirs, w) => AtRule(merged.dirs, loop')
      BY <3>4 DEF AtRule
    <3> QED
      BY <3>2, <3>3, <3>4, <3>5 DEF Chaining
  <2>5. CASE \/ RewriteRedirects \/ RewriteStops \/ RewriteEnds \/ OutOfMemory
             \/ AuthPasses \/ AuthRefuses \/ Headers \/ Return
    <3>1. pc' \notin {"walk", "files", "alias", "rewrite"}
      BY <2>5 DEF RewriteRedirects, RewriteStops, RewriteEnds, OutOfMemory, AuthPasses, AuthRefuses,
                  Headers, Return, Redirect, Done
    <3> QED
      BY <3>1 DEF Chaining
  <2>6. CASE EditFile \/ UNCHANGED vars
    <3>1. UNCHANGED <<pc, loop, merged>>
      BY <2>6 DEF EditFile, vars
    <3> QED
      BY <1>2, <3>1 DEF Chaining
  <2> QED
    BY <1>2, <2>1, <2>2, <2>3, <2>4, <2>5, <2>6 DEF Next, Execute
<1>3. Shape /\ Typed /\ Chaining => ChainsHold
  <2>1. SUFFICES ASSUME Shape, Typed, Chaining, pc = "rewrite",
                        NEW w \in Rounds, NEW i \in DOMAIN merged.dirs
                 PROVE  \A j, k \in DOMAIN merged.dirs[i].directives :
                            /\ NextInList(merged.dirs[i].directives, j, k)
                            /\ "chain" \in merged.dirs[i].directives[j].flags
                            /\ <<i, k>> \in w.applied
                            => <<i, j>> \in w.applied
    BY DEF ChainsHold, NextInList
  <2>2. Chained(merged.dirs, w.applied)
    BY <2>1, RoundsKeepChains
  <2> QED
    BY <2>2 DEF Chained
<1> QED
  BY <1>1, <1>2, <1>3, ShapeKept, TypedKept, PTL DEF Spec

-----------------------------------------------------------------------------
(* Variables that are set, and the query string that was asked. *)

\* What a pass replaces is the URI.
LEMMA UriReplaced ==
    ASSUME Shape, TypedState(state), NEW x \in Uri
    PROVE  /\ TypedState([state EXCEPT !.uri = x])
           /\ [state EXCEPT !.uri = x].env = state.env
           /\ [state EXCEPT !.uri = x].query_string = state.query_string
BY TypedMember DEF Shape

\* Every step of a request that has arrived leaves the variables that are set in their
\* places, and where no rule drops it the query string before another.
LEMMA StepsExtend ==
    ASSUME Shape, Typed, Execute \/ EditFile, pc' # "idle",
           NEW D \in SUBSET Directives, merged \in Merged(D)
    PROVE  /\ Extends(state.env, state'.env)
           /\ Keeps(D) => EndsIn(state'.query_string, state.query_string)
<1> DEFINE Fine(q) == /\ Extends(state.env, q.env)
                      /\ Keeps(D) => EndsIn(q.query_string, state.query_string)
<1>1. /\ TypedState(state) /\ r.uri \in Uri /\ merged \in Merged(Directives)
      /\ state.query_string \in Uri /\ state.env \in Env
  BY DEF Typed, TypedState
<1>2. ASSUME NEW q, q.env = state.env, q.query_string = state.query_string PROVE Fine(q)
  <2>1. EndsIn(state.query_string, state.query_string)
    BY <1>1, NothingBefore
  <2>2. Extends(state.env, state.env)
    BY <1>1 DEF Env, Extends
  <2> QED
    BY <1>2, <2>1, <2>2
<1>3. CASE RewriteGoesOn \/ RewriteRedirects \/ Rewrites \/ RewriteStops
  <2>1. PICK w \in Rounds : state' \in {w.state, Resolve(w.state)}
    BY <1>3 DEF RewriteGoesOn, RewriteRedirects, Rewrites, RewriteStops
  <2>2. TypedState(w.state) /\ IsState(w.state) /\ Fine(w.state)
    BY <1>1, RoundsType, RoundsAreRounds DEF IsRound
  <2>3. /\ Resolve(w.state).env = w.state.env
        /\ Resolve(w.state).query_string = w.state.query_string
    BY <2>2, ResolvedType
  <2> QED
    BY <2>1, <2>2, <2>3
<1>4. CASE Alias \/ AuthRefuses \/ ErrorDocument
  <2>1. UNCHANGED state \/ \E x \in Uri : state' = [state EXCEPT !.uri = x]
    BY <1>1, <1>4, AliasType, DocumentType DEF Alias, AuthRefuses, ErrorDocument
  <2>2. state'.env = state.env /\ state'.query_string = state.query_string
    <3>1. \A x \in Uri : /\ [state EXCEPT !.uri = x].env = state.env
                         /\ [state EXCEPT !.uri = x].query_string = state.query_string
      BY <1>1, UriReplaced
    <3>2. CASE UNCHANGED state
      BY <3>2
    <3>3. CASE \E x \in Uri : state' = [state EXCEPT !.uri = x]
      <4>1. PICK x \in Uri : state' = [state EXCEPT !.uri = x]
        BY <3>3
      <4> QED
        BY <3>1, <4>1
    <3> QED
      BY <2>1, <3>2, <3>3
  <2>3. Fine(state')
    BY <1>2, <2>2
  <2> QED
    BY <2>3
<1>5. CASE \/ LoadDir \/ Loaded \/ ApplyFilesDeny \/ RewriteEnds \/ OutOfMemory
           \/ AuthPasses \/ Headers \/ EditFile
  <2>1. state' = state
    BY <1>5 DEF LoadDir, Loaded, ApplyFilesDeny, RewriteEnds, OutOfMemory, AuthPasses, Headers, EditFile
  <2>2. Fine(state')
    BY <1>2, <2>1
  <2> QED
    BY <2>2
<1>6. CASE Return
  BY <1>6 DEF Return
<1> QED
  BY <1>3, <1>4, <1>5, <1>6 DEF Execute

\* A variable keeps the value that it got first, through all rules and passes, till the
\* request is decided.
THEOREM VariablesSettled == Spec => EnvSettled
<1> DEFINE Settled == pc # "idle" /\ pc' # "idle" =>
             \A v \in ToSet(state.env) : EnvGet(state'.env, v.name) = EnvGet(state.env, v.name)
<1>1. ASSUME Shape, Typed, Typed', Next PROVE Settled
  <2>1. SUFFICES ASSUME pc # "idle", pc' # "idle"
                 PROVE  \A v \in ToSet(state.env) :
                          EnvGet(state'.env, v.name) = EnvGet(state.env, v.name)
    OBVIOUS
  <2>2. Execute \/ EditFile
    BY <1>1, <2>1 DEF Next, Arrive
  <2>3. Extends(state.env, state'.env)
    BY <1>1, <2>1, <2>2, StepsExtend DEF Typed
  <2>4. /\ state.env \in Seq([name : STRING, value : Uri])
        /\ state'.env \in Seq([name : STRING, value : Uri])
    BY <1>1 DEF Typed, TypedState, Env
  <2> QED
    BY <2>3, <2>4, SetStaysSet
<1>2. ASSUME Shape, Typed, Typed', [Next]_vars PROVE [Settled]_vars
  BY <1>1, <1>2
<1> QED
  BY <1>2, ShapeKept, TypedKept, PTL DEF Spec, EnvSettled

LEMMA SuffixOf ==
    ASSUME NEW s \in Uri, NEW t \in Uri, EndsIn(t, s) PROVE IsSuffix(s, t)
<1>1. PICK x \in Uri : t = x \o s
  BY DEF EndsIn
<1>2. /\ s \in Seq(STRING) /\ x \in Seq(STRING) /\ t \in Seq(STRING)
      /\ Len(s) \in Nat /\ Len(x) \in Nat /\ Len(t) = Len(x) + Len(s)
  BY <1>1 DEF Uri
<1>3. ASSUME NEW i \in 1 .. Len(s) PROVE Reverse(s)[i] = Reverse(t)[i]
  <2> DEFINE j == Len(s) - i + 1
  <2>1. j \in 1 .. Len(s) /\ Len(t) - i + 1 = Len(x) + j /\ i \in 1 .. Len(t)
    BY <1>2
  <2>2. t[Len(x) + j] = s[j]
    BY <1>1, <1>2, <2>1
  <2> QED
    BY <1>2, <2>1, <2>2 DEF Reverse
<1>4. Len(Reverse(s)) = Len(s) /\ Len(Reverse(t)) = Len(t)
  BY <1>2 DEF Reverse
<1>5. SubSeq(Reverse(s), 1, Len(s)) = SubSeq(Reverse(t), 1, Len(s))
  BY <1>2, <1>3
<1> QED
  BY <1>2, <1>4, <1>5 DEF IsSuffix, IsPrefix

\* The directives that drop no query string; and a site of no others.
Keeping == {d \in Directives : d.id = "RewriteRule" => {"dash", "qsa"} \cap d.flags # {}}

SiteKeeps == site \in [DOMAIN site -> {NoFile} \cup Seq(Keeping)]

\* The pass reads such a site, and what was asked is still there.
QueryThere ==
    pc # "idle" /\ edits = 0 /\ SiteKeeps =>
        merged \in Merged(Keeping) /\ EndsIn(state.query_string, r.query)

\* Where every rule that rewrites has QSA, what the client asked comes through all
\* passes, last in the query string.
THEOREM QueryKept == Spec => []ClientQueryKept
<1>1. Init => QueryThere
  BY DEF Init, QueryThere
<1>2. Keeping \in SUBSET Directives /\ Keeps(Keeping)
  BY DEF Keeping, Keeps
<1>3. ASSUME Shape, Typed, Typed', QueryThere, [Next]_vars PROVE QueryThere'
  <2>1. CASE Arrive
    <3>1. PICK q \in Requested :
            /\ r'.query = q.query
            /\ state' = Resolve([uri |-> q.uri, filename |-> <<>>, query_string |-> q.query,
                                 env |-> <<>>, headers |-> q.headers, server |-> q.server])
            /\ PassHead(0, q.uri)
      BY <2>1 DEF Arrive
    <3>2. state'.query_string = q.query /\ q.query \in Uri
      BY <3>1, RequestsAssumption DEF Resolve
    <3>3. merged' \in Merged(Keeping)
      BY <3>1, NothingMerged DEF PassHead
    <3> QED
      BY <3>1, <3>2, <3>3, NothingBefore DEF QueryThere
  <2>2. CASE Execute \/ EditFile \/ UNCHANGED vars
    <3>1. SUFFICES ASSUME pc' # "idle", edits' = 0, SiteKeeps'
                   PROVE  merged' \in Merged(Keeping) /\ EndsIn(state'.query_string, r'.query)
      BY DEF QueryThere
    <3>2. ~EditFile /\ ~Return
      BY <1>3, <3>1 DEF EditFile, Return, Typed
    <3>3. UNCHANGED <<site, edits>> /\ pc # "idle"
      BY <2>2, <3>1, <3>2
         DEF Execute, LoadDir, Loaded, ApplyFilesDeny, Alias, RewriteGoesOn, RewriteRedirects,
             Rewrites, RewriteStops, RewriteEnds, OutOfMemory, AuthPasses, AuthRefuses,
             ErrorDocument, Headers, vars
    <3>4. SiteKeeps /\ merged \in Merged(Keeping) /\ EndsIn(state.query_string, r.query)
      BY <1>3, <3>1, <3>3 DEF QueryThere, SiteKeeps
    <3>5. r'.query = r.query
      <4>1. PICK x, y : \/ r' = r
                        \/ r' = [r EXCEPT !.uri = x]
                        \/ r' = [r EXCEPT !.headers = x]
                        \/ r' = [r EXCEPT !.challenges = x]
                        \/ r' = [r EXCEPT !.challenges = x, !.uri = y]
        BY <2>2, <3>2
           DEF Execute, LoadDir, Loaded, ApplyFilesDeny, Alias, RewriteGoesOn, RewriteRedirects,
               Rewrites, RewriteStops, RewriteEnds, OutOfMemory, AuthPasses, AuthRefuses,
               ErrorDocument, Headers, vars
      <4> QED
        BY <1>3, <4>1 DEF Shape, IsRequest
    <3>6. EndsIn(state'.query_string, state.query_string)
      <4>1. state.query_string \in Uri
        BY <1>3 DEF Typed, TypedState
      <4>2. CASE UNCHANGED vars
        BY <4>1, <4>2, NothingBefore DEF vars
      <4>3. CASE Execute \/ EditFile
        BY <1>2, <1>3, <3>1, <3>4, <4>3, StepsExtend
      <4> QED
        BY <2>2, <4>2, <4>3
    <3>7. EndsIn(state'.query_string, r'.query)
      <4>1. state.query_string \in Uri /\ state'.query_string \in Uri /\ r.query \in Uri
        BY <1>3 DEF Typed, TypedState
      <4> QED
        BY <3>4, <3>5, <3>6, <4>1, EndsTransitively
    <3>8. merged' \in Merged(Keeping)
      <4>1. CASE LoadDir
        <5>1. pos \in 1 .. Len(walked) /\ walked \in Uri
          <6>1. walked \in Uri /\ pos \in 1 .. Len(walked) + 1 /\ pos =< Len(walked)
            BY <1>3, <4>1 DEF Typed, LoadDir
          <6>2. Len(walked) \in Nat
            BY <6>1 DEF Uri
          <6> QED
            BY <6>1, <6>2
        <5>2. ReadDir(site, merged, walked, pos) \in Merged(Keeping)
          BY <1>2, <3>4, <5>1, ReadDirType DEF SiteKeeps
        <5> QED
          BY <4>1, <5>2 DEF LoadDir
      <4>2. CASE Rewrites \/ ErrorDocument
        <5>1. merged' = NoMerged
          BY <4>2 DEF Rewrites, ErrorDocument, PassHead
        <5> QED
          BY <5>1, NothingMerged
      <4>3. CASE \/ Loaded \/ ApplyFilesDeny \/ Alias \/ RewriteGoesOn \/ RewriteRedirects
                 \/ RewriteStops \/ RewriteEnds \/ OutOfMemory \/ AuthPasses \/ AuthRefuses
                 \/ Headers \/ UNCHANGED vars
        <5>1. merged' = merged
          BY <4>3 DEF Loaded, ApplyFilesDeny, Alias, RewriteGoesOn, RewriteRedirects, RewriteStops,
                      RewriteEnds, OutOfMemory, AuthPasses, AuthRefuses, Headers, vars
        <5> QED
          BY <3>4, <5>1
      <4> QED
        BY <2>2, <3>2, <4>1, <4>2, <4>3 DEF Execute
    <3> QED
      BY <3>7, <3>8
  <2> QED
    BY <1>3, <2>1, <2>2 DEF Next
<1>4. Typed /\ QueryThere => ClientQueryKept
  <2>1. SUFFICES ASSUME Typed, QueryThere, pc # "idle", AtRest,
                        \A d \in RulesOfSite : {"dash", "qsa"} \cap d.flags # {}
                 PROVE  IsSuffix(r.query, state.query_string)
    BY DEF ClientQueryKept
  <2>2. ASSUME NEW dir \in DOMAIN site PROVE site[dir] \in {NoFile} \cup Seq(Keeping)
    <3>1. SUFFICES ASSUME site[dir] # NoFile PROVE site[dir] \in Seq(Keeping)
      OBVIOUS
    <3>2. PICK ds \in Seq(Directives) : ds = site[dir]
      BY <2>1, <3>1 DEF Typed, Parsed
    <3>3. ASSUME NEW i \in DOMAIN ds PROVE ds[i] \in Keeping
      <4>1. ds[i] \in Directives
        BY ElementOf
      <4>2. ASSUME ds[i].id = "RewriteRule" PROVE ds[i] \in RulesOfSite
        <5>1. ds[i] \in ToSet(site[dir])
          BY <3>2, <3>3 DEF ToSet
        <5> QED
          BY <3>1, <4>2, <5>1 DEF RulesOfSite
      <4> QED
        BY <2>1, <4>1, <4>2 DEF Keeping
    <3>4. ds \in Seq(Keeping)
      <4>1. DOMAIN ds = 1 .. Len(ds) /\ Len(ds) \in Nat /\ ds = [i \in 1 .. Len(ds) |-> ds[i]]
        OBVIOUS
      <4> HIDE DEF Keeping
      <4>2. \A i \in 1 .. Len(ds) : ds[i] \in Keeping
        BY <3>3, <4>1
      <4> QED
        BY <4>1, <4>2
    <3> QED
      BY <3>2, <3>4
  <2>3. SiteKeeps
    <3>1. site = [dir \in DOMAIN site |-> site[dir]]
      BY <2>1 DEF Typed
    <3> QED
      BY <2>2, <3>1 DEF SiteKeeps
  <2>4. EndsIn(state.query_string, r.query)
    BY <2>1, <2>3 DEF QueryThere, AtRest
  <2>5. r.query \in Uri /\ state.query_string \in Uri
    BY <2>1 DEF Typed, TypedState
  <2> QED
    BY <2>4, <2>5, SuffixOf
<1> QED
  BY <1>1, <1>3, <1>4, ShapeKept, TypedKept, PTL DEF Spec

-----------------------------------------------------------------------------
(* The headers of the reply. *)

LEMMA HeadersType ==
    ASSUME NEW m \in Merged(Directives)
    PROVE  HeadersSet(m) \in Seq(STRING)
<1> DEFINE n == Len(m.headers)
           Set(names, h) ==
             IF Begins(h.action, "set", 3) /\ h.name # "" THEN Append(names, h.name) ELSE names
           Is(c) == c = [k \in 0 .. n |-> IF k = 0 THEN <<>> ELSE Set(c[k - 1], m.headers[k])]
           step == [k \in 1 .. n |-> [c \in Seq(STRING) |-> Set(c, m.headers[k])]]
<1>1. n \in Nat /\ \A k \in 1 .. n : m.headers[k].name \in STRING
  <2>1. PICK hs \in Seq([action : Strings, name : STRING]) : hs = m.headers
    BY DEF Merged
  <2>2. ASSUME NEW k \in DOMAIN hs PROVE hs[k].name \in STRING
    <3>1. hs[k] \in [action : Strings, name : STRING]
      BY ElementOf
    <3> QED
      BY <3>1
  <2> QED
    BY <2>1, <2>2
<1>2. ASSUME NEW k \in 1 .. n, NEW c \in Seq(STRING)
      PROVE  Set(c, m.headers[k]) \in Seq(STRING)
  <2>1. PICK name \in STRING : name = m.headers[k].name
    BY <1>1
  <2>2. Append(c, name) \in Seq(STRING)
    OBVIOUS
  <2> QED
    BY <2>1, <2>2
<1> HIDE DEF Set
<1>3. step \in Stepping(n, Seq(STRING))
  BY <1>2 DEF Stepping
<1>4. \A k \in 1 .. n, c \in Seq(STRING) : step[k][c] = Set(c, m.headers[k])
  OBVIOUS
<1>5. <<>> \in Seq(STRING)
  OBVIOUS
<1> HIDE DEF step, n
<1>6. PICK f : Follows(f, step, n, Seq(STRING), <<>>)
  BY <1>1, <1>3, <1>5, Recursion
<1>7. Is(f)
  <2>1. ASSUME NEW k \in 0 .. n
        PROVE  f[k] = IF k = 0 THEN <<>> ELSE Set(f[k - 1], m.headers[k])
    <3>1. CASE k = 0
      BY <1>6, <3>1 DEF Follows
    <3>2. CASE k # 0
      <4>1. k \in 1 .. n /\ k - 1 \in 0 .. n
        BY <1>1, <3>2
      <4> QED
        BY <1>4, <1>6, <3>2, <4>1 DEF Follows
    <3> QED
      BY <3>1, <3>2
  <2> QED
    BY <1>6, <2>1 DEF Follows
<1> DEFINE g == CHOOSE c : Is(c)
<1>8. Is(g)
  BY <1>7
<1>9. HeadersSet(m) = g[n]
  BY DEF HeadersSet, n, Set
<1> HIDE DEF g
<1> DEFINE S == {k \in 0 .. n : g[k] \in Seq(STRING)}
<1>10. 0 \in S
  BY <1>1, <1>5, <1>8
<1>11. ASSUME NEW k \in 1 .. n, k - 1 \in S PROVE k \in S
  <2>1. g[k - 1] \in Seq(STRING) /\ k \in 0 .. n /\ k # 0
    BY <1>1, <1>11
  <2>2. g[k] = Set(g[k - 1], m.headers[k])
    BY <1>8, <2>1
  <2> QED
    BY <1>2, <2>1, <2>2
<1>12. \A k \in 1 .. n : k - 1 \in S => k \in S
  BY <1>11
<1> HIDE DEF S
<1>13. 0 .. n \subseteq S
  BY <1>1, <1>10, <1>12, InductionUpTo
<1> QED
  BY <1>1, <1>9, <1>13 DEF S

\* The reply has no headers before the last step, and then those of the pass that lets
\* it through.
Replying == (pc # "done" => r.headers = <<>>) /\ HeadersAreOfTheServed

\* Steps that leave the headers alone, and do not let a request through.
LEMMA NoHeaders ==
    ASSUME Replying, pc # "done", r'.headers = <<>>,
           \/ pc' # "done"
           \/ pc' = "done" /\ answer'.rc # "declined"
           \/ pc' = "done" /\ ~(pass' < MaxRedirects)
    PROVE  Replying'
BY DEF Replying, HeadersAreOfTheServed, LetThrough

LEMMA ReplyingKept == Spec => []Replying
<1>1. Init => Replying
  BY DEF Init, NoRequest, Replying, HeadersAreOfTheServed
<1>2. ASSUME Shape, Typed, Reading, Replying, [Next]_vars PROVE Replying'
  <2>1. CASE Arrive
    <3>1. pc # "done" /\ r'.headers = <<>> /\ \E n, uri : PassHead(n, uri)
      BY <2>1 DEF Arrive
    <3>2. pc' = "walk" \/ (pc' = "done" /\ ~(pass' < MaxRedirects))
      BY <3>1 DEF PassHead, Done
    <3> QED
      BY <1>2, <3>1, <3>2, NoHeaders
  <2>2. CASE Headers
    <3>1. /\ pc = "headers" /\ pc' = "done" /\ answer'.rc = "declined"
          /\ r' = [r EXCEPT !.headers = r.headers \o HeadersSet(merged)]
          /\ UNCHANGED <<site, edits, pass, walked, merged>>
      BY <2>2 DEF Headers, Done, Answers, NoAnswer
    <3>2. pass < MaxRedirects /\ HeadersSet(merged) \in Seq(STRING)
      BY <1>2, <3>1, HeadersType DEF Typed
    <3>3. r.headers \o HeadersSet(merged) = HeadersSet(merged)
      <4>1. r.headers = <<>>
        BY <1>2, <3>1 DEF Replying
      <4>2. PICK hs \in Seq(STRING) : hs = HeadersSet(merged)
        BY <3>2
      <4>3. <<>> \o hs = hs
        OBVIOUS
      <4> QED
        BY <4>1, <4>2, <4>3
    <3>4. r'.headers = HeadersSet(merged) /\ r'.uri = r.uri
      BY <1>2, <3>1, <3>3, RequestMembers, RequestRest DEF Shape
    <3>5. ASSUME (AtRest /\ SameUri)' PROVE MergedOf(r.uri)' = merged
      <4>1. edits = 0 /\ r.uri = walked
        BY <3>1, <3>4, <3>5 DEF AtRest, SameUri
      <4>2. merged = MergedDirs(site, r.uri)[Len(r.uri)]
        BY <1>2, <3>1, <4>1 DEF Reading
      <4> QED
        BY <3>1, <3>4, <4>2 DEF MergedOf, MergedAt
    <3>6. LetThrough'
      BY <3>1, <3>2 DEF LetThrough
    <3> QED
      BY <3>1, <3>4, <3>5, <3>6 DEF Replying, HeadersAreOfTheServed
  <2>3. CASE Rewrites \/ ErrorDocument
    <3>1. /\ pc # "done" /\ \E n, uri : PassHead(n, uri)
          /\ \E x, y : \/ r' = [r EXCEPT !.uri = x]
                       \/ r' = [r EXCEPT !.challenges = x, !.uri = y]
      BY <2>3 DEF Rewrites, ErrorDocument
    <3>2. r'.headers = <<>>
      BY <1>2, <3>1 DEF Shape, IsRequest, Replying
    <3>3. pc' = "walk" \/ (pc' = "done" /\ ~(pass' < MaxRedirects))
      BY <3>1 DEF PassHead, Done
    <3> QED
      BY <1>2, <3>1, <3>2, <3>3, NoHeaders
  <2>4. CASE \/ LoadDir \/ Loaded \/ ApplyFilesDeny \/ Alias \/ RewriteGoesOn \/ RewriteRedirects
             \/ RewriteStops \/ RewriteEnds \/ OutOfMemory \/ AuthPasses \/ AuthRefuses
    <3>1. /\ pc # "done"
          /\ \E x : r' = r \/ r' = [r EXCEPT !.uri = x] \/ r' = [r EXCEPT !.challenges = x]
      BY <2>4
         DEF LoadDir, Loaded, ApplyFilesDeny, Alias, RewriteGoesOn, RewriteRedirects, RewriteStops,
             RewriteEnds, OutOfMemory, AuthPasses, AuthRefuses
    <3>2. r'.headers = <<>>
      BY <1>2, <3>1 DEF Shape, IsRequest, Replying
    <3>3. pc' # "done" \/ (pc' = "done" /\ answer'.rc # "declined")
      BY <2>4
         DEF LoadDir, Loaded, ApplyFilesDeny, Alias, RewriteGoesOn, RewriteRedirects, RewriteStops,
             RewriteEnds, OutOfMemory, AuthPasses, AuthRefuses, Redirect, Done, Answers, NoAnswer
    <3> QED
      BY <1>2, <3>1, <3>2, <3>3, NoHeaders
  <2>5. CASE Return
    BY <2>5 DEF Return, NoRequest, Replying, HeadersAreOfTheServed
  <2>6. CASE EditFile
    <3>1. edits' # 0 /\ UNCHANGED <<pc, r>>
      BY <1>2, <2>6 DEF EditFile, Typed
    <3> QED
      BY <1>2, <3>1 DEF Replying, HeadersAreOfTheServed, AtRest
  <2>7. CASE UNCHANGED vars
    BY <1>2, <2>7 DEF vars, Replying, HeadersAreOfTheServed, LetThrough, AtRest, SameUri, MergedOf, MergedAt
  <2> QED
    BY <1>2, <2>1, <2>2, <2>3, <2>4, <2>5, <2>6, <2>7 DEF Next, Execute
<1> QED
  BY <1>1, <1>2, ShapeKept, TypedKept, ReadingKept, PTL DEF Spec

\* The reply bears the headers of the URI that is served, once, and none of the URIs
\* that were left behind; and what is not served bears none.
THEOREM HeadersOfTheServed == Spec => []HeadersAreOfTheServed
<1>1. Replying => HeadersAreOfTheServed
  BY DEF Replying
<1> QED
  BY <1>1, ReplyingKept, PTL

-----------------------------------------------------------------------------
(* Progress. *)

\* A round is made for a rule that comes after the last.
LEMMA RoundsGoOn ==
    ASSUME Shape, NEW w \in Rounds
    PROVE  Before(loop.at, w.at) /\ w.at \in Rules(merged.dirs)
<1> DEFINE v == [at |-> loop.at, chain_active |-> loop.chain_active, applied |-> loop.applied,
                 uri |-> r.uri, state |-> state, code |-> 0, result |-> "none"]
<1>1. IsRound(v)
  BY DEF Shape, IsRound
<1>2. PICK p \in NextRule(merged.dirs, loop.at) : w = RewriteRule(v, merged.dirs, p)
  BY DEF Rounds
<1> HIDE DEF v
<1>3. w.at = p
  BY <1>1, <1>2, RoundOfChain
<1> QED
  BY <1>2, <1>3 DEF NextRule, Earliest

LEMMA GetsOnStep ==
    ASSUME Shape, Typed, Next, pc \notin {"idle", "done"}, edits' = edits
    PROVE  \/ pass < pass' /\ pass' <= MaxRedirects
           \/ pass = pass' /\ Stage[pc] < Stage[pc']
           \/ /\ <<pass, pc, walked>> = <<pass', pc', walked'>>
              /\ \/ pc = "walk" /\ pos < pos' /\ pos' <= Len(walked) + 1
                 \/ /\ pc = "rewrite" /\ merged' = merged
                    /\ Before(loop.at, loop'.at) /\ loop'.at \in Rules(merged.dirs)
<1>1. /\ MaxRedirects \in Nat /\ pass \in Nat /\ pass < MaxRedirects
      /\ pos \in Nat /\ edits \in Nat /\ Len(walked) \in Nat
  BY ExecuteAssumption DEF Typed, Uri
<1>2. ~Arrive /\ ~Return /\ ~EditFile
  BY <1>1 DEF Arrive, Return, EditFile
<1>3. CASE LoadDir
  BY <1>1, <1>3 DEF LoadDir
<1>4. CASE Loaded \/ ApplyFilesDeny \/ Alias
  <2>1. /\ pass' = pass
        /\ \/ pc = "walk" /\ pc' \in {"files", "alias"}
           \/ pc = "files" /\ pc' \in {"alias", "done"}
           \/ pc = "alias" /\ pc' \in {"rewrite", "done"}
    BY <1>4 DEF Loaded, ApplyFilesDeny, Alias, Redirect, Done
  <2> QED
    BY <2>1 DEF Stage
<1>5. CASE RewriteGoesOn
  <2>1. PICK w \in Rounds :
          loop' = [at |-> w.at, chain_active |-> w.chain_active, applied |-> w.applied]
    BY <1>5 DEF RewriteGoesOn
  <2>2. Before(loop.at, loop'.at) /\ loop'.at \in Rules(merged.dirs)
    BY <2>1, RoundsGoOn
  <2> QED
    BY <1>5, <2>2 DEF RewriteGoesOn
<1>6. CASE RewriteRedirects \/ RewriteStops \/ RewriteEnds
  <2>1. pass' = pass /\ pc = "rewrite" /\ pc' \in {"auth", "done"}
    BY <1>6 DEF RewriteRedirects, RewriteStops, RewriteEnds, Redirect, Done
  <2> QED
    BY <2>1 DEF Stage
<1>7. CASE OutOfMemory
  <2>1. pass' = pass /\ pc \in {"walk", "alias", "rewrite"} /\ pc' = "done"
    BY <1>7 DEF OutOfMemory, Done
  <2> QED
    BY <2>1 DEF Stage
<1>8. CASE AuthPasses \/ AuthRefuses \/ Headers
  <2>1. /\ pass' = pass
        /\ \/ pc = "auth" /\ pc' \in {"headers", "done"}
           \/ pc = "headers" /\ pc' = "done"
    BY <1>8 DEF AuthPasses, AuthRefuses, Headers, Done
  <2> QED
    BY <2>1 DEF Stage
<1>9. CASE Rewrites \/ ErrorDocument
  <2>1. pass' = pass + 1
    BY <1>9 DEF Rewrites, ErrorDocument, PassHead
  <2> QED
    BY <1>1, <2>1
<1> QED
  BY <1>2, <1>3, <1>4, <1>5, <1>6, <1>7, <1>8, <1>9 DEF Next, Execute

\* htaccess_execute cannot go round for ever, whatever the rules: between two passes
\* it goes through its engines, the directories and the rules in one direction, and
\* there are MaxRedirects passes at most.
THEOREM RequestsGetOn == Spec => RequestGetsOn
<1>1. Shape /\ Typed /\ [Next]_vars =>
        [pc \notin {"idle", "done"} /\ edits' = edits =>
           \/ pass < pass' /\ pass' <= MaxRedirects
           \/ pass = pass' /\ Stage[pc] < Stage[pc']
           \/ /\ <<pass, pc, walked>> = <<pass', pc', walked'>>
              /\ \/ pc = "walk" /\ pos < pos' /\ pos' <= Len(walked) + 1
                 \/ /\ pc = "rewrite" /\ merged' = merged
                    /\ Before(loop.at, loop'.at) /\ loop'.at \in Rules(merged.dirs)]_vars
  BY GetsOnStep
<1> QED
  BY <1>1, ShapeKept, TypedKept, PTL DEF Spec, RequestGetsOn

-----------------------------------------------------------------------------
(* The policy: each step of htaccess_execute is one of HtaccessPolicy's or     *)
(* none of its concern.                                                        *)

\* What the policy does not see of a request is where the pass is in its engines.
Undecided == pc \notin {"idle", "done"}

\* No redirect is sent before the end.
NoStatusYet == pc # "done" => answer.status = 0

LEMMA NoStatusKept == Spec => []NoStatusYet
<1>1. Init => NoStatusYet
  BY DEF Init, NoStatusYet, NoAnswer
<1>2. NoStatusYet /\ [Next]_vars => NoStatusYet'
  <2>1. ASSUME NoStatusYet, [Next]_vars, pc' # "done" PROVE answer'.status = 0
    <3>1. CASE Return
      BY <3>1 DEF Return, NoAnswer
    <3>2. CASE EditFile \/ UNCHANGED vars
      BY <2>1, <3>2 DEF EditFile, vars, NoStatusYet
    <3>3. CASE \/ Arrive \/ LoadDir \/ Loaded \/ ApplyFilesDeny \/ Alias
               \/ RewriteGoesOn \/ RewriteRedirects \/ Rewrites \/ RewriteStops \/ RewriteEnds
               \/ OutOfMemory \/ AuthPasses \/ AuthRefuses \/ ErrorDocument \/ Headers
      <4>1. UNCHANGED answer /\ pc # "done"
        BY <2>1, <3>3
           DEF Arrive, LoadDir, Loaded, ApplyFilesDeny, Alias, RewriteGoesOn, RewriteRedirects,
               Rewrites, RewriteStops, RewriteEnds, OutOfMemory, AuthPasses, AuthRefuses,
               ErrorDocument, Headers, Redirect, PassHead, Done
      <4> QED
        BY <2>1, <4>1 DEF NoStatusYet
    <3> QED
      BY <2>1, <3>1, <3>2, <3>3 DEF Next, Execute
  <2> QED
    BY <2>1 DEF NoStatusYet
<1> QED
  BY <1>1, <1>2, PTL DEF Spec

\* What the passes are known to keep.
Executing == Shape /\ Typed /\ Reading /\ FirstPass /\ Checked /\ Replying /\ NoStatusYet

\* While nobody edits, an engine has all that the files of the pass's directories say.
LEMMA HasRead ==
    ASSUME Executing, pc \in {"files", "alias", "rewrite", "auth", "headers"}, edits = 0
    PROVE  merged = MergedAt(site, walked)
BY DEF Executing, Reading, MergedAt

\* Whoever gets past the rules on files has not asked for what they hide.
LEMMA PastIsOpen ==
    ASSUME Executing, pc \in {"alias", "rewrite", "auth", "headers"}
    PROVE  Policy!Open
<1>1. MaxRedirects > 0
  BY ExecuteAssumption DEF Executing, Typed
<1>2. edits = 0 => ~FilesDeny(MergedAt(site, r.asked), r.asked)
  BY <1>1 DEF Executing, FirstPass, AskedIsDenied, MergedAt
<1>3. ReplyBar = "pending"
  BY DEF ReplyBar
<1> QED
  BY <1>2, <1>3 DEF Policy!Open, Policy!AtRest, HidesBar

\* A rule of theirs has made the round what it is.
LEMMA RoundsAsTold ==
    ASSUME Shape, NEW w \in Rounds
    PROVE  \E p \in Rules(merged.dirs) : AsTold(w, r.uri, At(merged.dirs, p))
<1> DEFINE v == [at |-> loop.at, chain_active |-> loop.chain_active, applied |-> loop.applied,
                 uri |-> r.uri, state |-> state, code |-> 0, result |-> "none"]
<1>1. IsRound(v) /\ v.result = "none" /\ v.uri = r.uri
  BY DEF Shape, IsRound
<1>2. PICK p \in NextRule(merged.dirs, loop.at) : w = RewriteRule(v, merged.dirs, p)
  BY DEF Rounds
<1> HIDE DEF v
<1>3. p \in Rules(merged.dirs)
  BY <1>2 DEF NextRule, Earliest
<1> QED
  BY <1>1, <1>2, <1>3, RoundAsTold

\* A step from engine to engine decides nothing.
LEMMA EngineToEngine ==
    ASSUME UNCHANGED <<site, edits, pass, walked, r, answer>>, Undecided, Undecided'
    PROVE  UNCHANGED Policy!policyVars
<1>1. ReplyBar' = ReplyBar
  BY DEF ReplyBar, Undecided
<1> QED
  BY <1>1 DEF Policy!policyVars, Policy!where, Policy!decision

\* A step that ends a request other than by letting it through.
LEMMA Decided ==
    ASSUME UNCHANGED <<site, edits, pass, walked>>, Undecided, NEW what,
           r'.asked = r.asked, r'.login = r.login, r'.uri = r.uri,
           pc' = "done", answer'.rc = what, what # "declined"
    PROVE  ReplyBar = "pending" /\ Policy!Decide(what)
<1>1. ReplyBar = "pending" /\ ReplyBar' = what
  BY DEF ReplyBar, Undecided
<1> QED
  BY <1>1 DEF Policy!Decide, Policy!where

\* The head of the loop.
LEMMA PassEnters ==
    ASSUME NoStatusYet, pc # "done", NEW n \in 0 .. MaxRedirects, NEW uri, PassHead(n, uri),
           r'.uri = uri, r'.headers = r.headers
    PROVE  Policy!Enter(n)
<1>1. walked' = r'.uri /\ pass' = n
  BY DEF PassHead
<1>2. CASE n < MaxRedirects
  <2>1. pc' = "walk" /\ answer' = answer
    BY <1>2 DEF PassHead
  <2>2. ReplyBar' = "pending"
    BY <2>1 DEF ReplyBar
  <2> QED
    BY <1>1, <1>2, <2>1, <2>2 DEF Policy!Enter
<1>3. CASE ~(n < MaxRedirects)
  <2>1. pc' = "done" /\ answer' = Answers("declined")
    BY <1>3 DEF PassHead, Done
  <2>2. answer'.rc = "declined" /\ answer'.status = 0 /\ answer.status = 0
    BY <2>1 DEF Answers, NoAnswer, NoStatusYet
  <2>3. ReplyBar' = "unasked"
    BY <1>1, <1>3, <2>1, <2>2 DEF ReplyBar
  <2> QED
    BY <1>1, <1>3, <2>2, <2>3 DEF Policy!Enter
<1> QED
  BY <1>2, <1>3

LEMMA PolicyStep ==
    ASSUME Executing, [Next]_vars
    PROVE  [Policy!PolicyNext]_(Policy!policyVars)
<1>0. /\ Shape /\ Typed /\ Reading /\ FirstPass /\ Checked /\ Replying /\ NoStatusYet
      /\ MaxRedirects \in Nat /\ pass \in Nat /\ edits \in Nat
      /\ Undecided => pass + 1 \in 0 .. MaxRedirects
  BY ExecuteAssumption DEF Executing, Typed, Undecided
<1>1. CASE Arrive
  <2>1. PICK q \in Requested, l \in Logins \cup {NoLogin} :
          /\ r' = [asked |-> q.uri, query |-> q.query, login |-> l, uri |-> q.uri,
                   headers |-> <<>>, challenges |-> 0]
          /\ PassHead(0, q.uri)
    BY <1>1 DEF Arrive
  <2>2. pc = "idle" /\ UNCHANGED <<site, edits>>
    BY <1>1 DEF Arrive
  <2>3. ReplyBar = "none" /\ r.headers = <<>>
    BY <1>0, <2>2 DEF ReplyBar, Replying
  <2>4. /\ r'.asked = q.uri /\ r'.login = l /\ r'.uri = q.uri /\ r'.headers = r.headers
    BY <2>1, <2>3
  <2>5. 0 \in 0 .. MaxRedirects
    BY <1>0
  <2>6. Policy!Enter(0)
    BY <1>0, <2>1, <2>2, <2>4, <2>5, PassEnters
  <2>7. Policy!Arrive
    BY <2>2, <2>3, <2>4, <2>6 DEF Policy!Arrive
  <2> QED
    BY <2>7 DEF Policy!PolicyNext
<1>2. CASE LoadDir \/ Loaded \/ RewriteStops \/ RewriteEnds \/ AuthPasses
  <2>1. UNCHANGED <<site, edits, pass, walked, r, answer>> /\ Undecided /\ Undecided'
    BY <1>2 DEF LoadDir, Loaded, RewriteStops, RewriteEnds, AuthPasses, Undecided
  <2> QED
    BY <2>1, EngineToEngine
<1>3. CASE ApplyFilesDeny
  <2>1. pc = "files" /\ pass = 0 /\ UNCHANGED <<site, edits, pass, walked, r>> /\ Undecided
    BY <1>0, <1>3 DEF ApplyFilesDeny, FirstPass, Undecided
  <2>2. CASE FilesDeny(merged, r.asked)
    <3>1. pc' = "done" /\ answer' = Answers("forbidden")
      BY <1>3, <2>2 DEF ApplyFilesDeny, Done
    <3>2. answer'.rc = "forbidden" /\ answer'.status = 0 /\ answer.status = 0
      BY <1>0, <2>1, <3>1 DEF Answers, NoAnswer, NoStatusYet
    <3>3. ReplyBar = "pending" /\ Policy!Decide("forbidden")
      BY <2>1, <3>1, <3>2, Decided
    <3>4. edits = 0 => HidesBar(site, r.asked)
      <4>1. edits = 0 => merged = MergedAt(site, walked) /\ walked = r.asked
        BY <1>0, <2>1, HasRead DEF FirstPass
      <4> QED
        BY <2>2, <4>1 DEF HidesBar
    <3>5. Policy!Hide
      BY <2>1, <3>2, <3>3, <3>4 DEF Policy!Hide, Policy!AtRest
    <3> QED
      BY <3>5 DEF Policy!PolicyNext
  <2>3. CASE ~FilesDeny(merged, r.asked)
    <3>1. pc' = "alias" /\ UNCHANGED answer
      BY <1>3, <2>3 DEF ApplyFilesDeny
    <3> QED
      BY <2>1, <3>1, EngineToEngine DEF Undecided
  <2> QED
    BY <2>2, <2>3
<1>4. CASE Alias
  <2>1. pc = "alias" /\ UNCHANGED <<site, edits, pass, walked, merged, r>> /\ Undecided
    BY <1>4 DEF Alias, Undecided
  <2>2. CASE pc' = "rewrite" /\ UNCHANGED answer
    BY <2>1, <2>2, EngineToEngine DEF Undecided
  <2>3. CASE \E d \in ApplyAlias(merged, state.uri) : Redirect(AliasCode(d), d.to)
    <3>1. PICK d \in ApplyAlias(merged, state.uri) : Redirect(AliasCode(d), d.to)
      BY <2>3
    <3>2. pc' = "done" /\ answer'.rc = "redirect" /\ answer'.status = AliasCode(d)
      BY <3>1 DEF Redirect, Done
    <3>3. AliasCode(d) \in CodesSent(merged)
      BY DEF ApplyAlias, Earliest, CodesSent
    <3>4. edits = 0 => answer'.status \in CodesBar(site, walked)
      BY <2>1, <3>2, <3>3, HasRead DEF CodesBar
    <3>5. ReplyBar = "pending" /\ Policy!Decide("redirect") /\ Policy!Open
      BY <2>1, <3>2, Decided, PastIsOpen
    <3>6. Policy!Redirect
      BY <2>1, <3>4, <3>5 DEF Policy!Redirect, Policy!AtRest
    <3> QED
      BY <3>6 DEF Policy!PolicyNext
  <2> QED
    BY <1>4, <2>2, <2>3 DEF Alias
<1>5. CASE RewriteGoesOn
  <2>1. PICK w \in Rounds : w.result = "none" /\ r' = [r EXCEPT !.uri = w.uri]
    BY <1>5 DEF RewriteGoesOn
  <2>2. /\ pc = "rewrite" /\ UNCHANGED <<site, edits, pc, pass, walked, merged, answer>>
        /\ Undecided /\ Undecided'
    BY <1>5 DEF RewriteGoesOn, Undecided
  <2>3. /\ r'.asked = r.asked /\ r'.login = r.login /\ r'.headers = r.headers /\ r'.uri = w.uri
    BY <1>0, <2>1, RequestMembers, RequestRest DEF Shape
  <2>4. ReplyBar = "pending" /\ ReplyBar' = ReplyBar
    BY <2>2 DEF ReplyBar, Undecided
  <2>5. CASE w.uri = r.uri
    BY <2>2, <2>3, <2>4, <2>5 DEF Policy!policyVars, Policy!where, Policy!decision
  <2>6. CASE w.uri # r.uri
    <3>1. PICK p \in Rules(merged.dirs) : AsTold(w, r.uri, At(merged.dirs, p))
      BY <1>0, RoundsAsTold
    <3> DEFINE d == At(merged.dirs, p)
    <3>2. d \in Replacing(merged) /\ ~Final(d) /\ "chain" \notin d.flags
      BY <2>1, <2>6, <3>1 DEF AsTold, Replacing
    <3>3. edits = 0 => CarriesBar(site, walked)
      BY <2>2, <3>2, HasRead DEF CarriesBar
    <3>4. Policy!Open
      BY <2>2, PastIsOpen
    <3>5. Policy!Carry
      BY <2>2, <2>3, <2>4, <3>3, <3>4 DEF Policy!Carry, Policy!AtRest, Policy!decision
    <3> QED
      BY <3>5 DEF Policy!PolicyNext
  <2> QED
    BY <2>5, <2>6
<1>6. CASE RewriteRedirects
  <2>1. PICK w \in Rounds : w.result = "redirect" /\ Redirect(w.code, w.state.uri)
    BY <1>6 DEF RewriteRedirects
  <2>2. pc = "rewrite" /\ UNCHANGED <<site, edits, pass, walked, merged, r>> /\ Undecided
    BY <1>6 DEF RewriteRedirects, Undecided
  <2>3. pc' = "done" /\ answer'.rc = "redirect" /\ answer'.status = w.code
    BY <2>1 DEF Redirect, Done
  <2>4. PICK p \in Rules(merged.dirs) : AsTold(w, r.uri, At(merged.dirs, p))
    BY <1>0, RoundsAsTold
  <2>5. w.code \in CodesSent(merged)
    BY <2>1, <2>4 DEF AsTold, CodesSent
  <2>6. edits = 0 => answer'.status \in CodesBar(site, walked)
    BY <2>2, <2>3, <2>5, HasRead DEF CodesBar
  <2>7. ReplyBar = "pending" /\ Policy!Decide("redirect") /\ Policy!Open
    BY <2>2, <2>3, Decided, PastIsOpen
  <2>8. Policy!Redirect
    BY <2>2, <2>6, <2>7 DEF Policy!Redirect, Policy!AtRest
  <2> QED
    BY <2>8 DEF Policy!PolicyNext
<1>7. CASE Rewrites
  <2>1. PICK w \in Rounds : /\ w.result = "ok"
                            /\ r' = [r EXCEPT !.uri = w.state.uri]
                            /\ PassHead(pass + 1, w.state.uri)
    BY <1>7 DEF Rewrites
  <2>2. pc = "rewrite" /\ UNCHANGED <<site, edits>> /\ Undecided
    BY <1>7 DEF Rewrites, Undecided
  <2>3. /\ r'.asked = r.asked /\ r'.login = r.login /\ r'.headers = r.headers
        /\ r'.uri = w.state.uri
    BY <1>0, <2>1, RequestMembers, RequestRest DEF Shape
  <2>4. PICK p \in Rules(merged.dirs) : AsTold(w, r.uri, At(merged.dirs, p))
    BY <1>0, RoundsAsTold
  <2>5. At(merged.dirs, p) \in Replacing(merged) /\ Final(At(merged.dirs, p))
    BY <2>1, <2>4 DEF AsTold, Replacing
  <2>6. edits = 0 => RewritesBar(site, walked)
    BY <2>2, <2>5, HasRead DEF RewritesBar
  <2>7. Policy!Enter(pass + 1) /\ Policy!Open
    BY <1>0, <2>1, <2>2, <2>3, PassEnters, PastIsOpen
  <2>8. Policy!Move
    BY <2>2, <2>3, <2>6, <2>7 DEF Policy!Move, Policy!AtRest
  <2> QED
    BY <2>8 DEF Policy!PolicyNext
<1>8. CASE OutOfMemory
  <2>1. /\ AllocFails /\ pc' = "done" /\ answer' = Answers("error")
        /\ UNCHANGED <<site, edits, pass, walked, r>> /\ Undecided
    BY <1>8 DEF OutOfMemory, Done, Undecided
  <2>2. answer'.rc = "error" /\ answer'.status = 0 /\ answer.status = 0
    BY <1>0, <2>1 DEF Answers, NoAnswer, NoStatusYet, Undecided
  <2>3. ReplyBar = "pending" /\ Policy!Decide("error")
    BY <2>1, <2>2, Decided
  <2>4. Policy!Fail
    BY <2>1, <2>2, <2>3 DEF Policy!Fail
  <2> QED
    BY <2>4 DEF Policy!PolicyNext
<1>9. ASSUME pc = "auth", edits = 0
      PROVE  /\ VerdictBar(site, walked, r.uri, r.login) = Verdict
             /\ DocumentsBar(site, walked, Verdict) = ErrorDocuments
  BY <1>9, HasRead DEF VerdictBar, DocumentsBar, Verdict, ErrorDocuments
<1>10. Verdict # "declined" => Verdict \in {"forbidden", "unauthorized"}
  BY AuthType DEF Verdict
<1>11. CASE AuthRefuses
  <2>1. /\ pc = "auth" /\ Verdict # "declined" /\ Undecided
        /\ pc' = "done" /\ answer' = Answers(Verdict)
        /\ UNCHANGED <<site, edits, pass, walked>>
        /\ ErrorDocuments = {} \/ AllocFails
    BY <1>11 DEF AuthRefuses, Done, Undecided
  <2>2. PICK n : r' = [r EXCEPT !.challenges = n]
    BY <1>11 DEF AuthRefuses
  <2>3. /\ r'.asked = r.asked /\ r'.login = r.login /\ r'.headers = r.headers /\ r'.uri = r.uri
    BY <1>0, <2>2, RequestMembers, RequestRest DEF Shape
  <2>4. answer'.rc = Verdict /\ answer'.status = 0 /\ answer.status = 0
    BY <1>0, <2>1 DEF Answers, NoAnswer, NoStatusYet
  <2>5. Policy!Decide(Verdict) /\ Policy!Open
    BY <2>1, <2>3, <2>4, Decided, PastIsOpen
  <2>6. Policy!Refuse(Verdict)
    BY <1>9, <2>1, <2>3, <2>4, <2>5 DEF Policy!Refuse, Policy!AtRest
  <2> QED
    BY <1>10, <2>1, <2>6 DEF Policy!PolicyNext
<1>12. CASE ErrorDocument
  <2> DEFINE n == r.challenges + Challenge
  <2>1. PICK doc \in ErrorDocuments : /\ r' = [r EXCEPT !.challenges = n, !.uri = doc]
                                      /\ PassHead(pass + 1, doc)
    BY <1>12 DEF ErrorDocument
  <2> HIDE DEF n
  <2>2. pc = "auth" /\ Verdict # "declined" /\ UNCHANGED <<site, edits>> /\ Undecided
    BY <1>12 DEF ErrorDocument, Undecided
  <2>3. /\ r'.asked = r.asked /\ r'.login = r.login /\ r'.headers = r.headers /\ r'.uri = doc
    <3> DEFINE q == [r EXCEPT !.challenges = n]
    <3>1. /\ IsRequest(q) /\ q.asked = r.asked /\ q.login = r.login /\ q.headers = r.headers
      BY <1>0, RequestMembers, RequestRest DEF Shape
    <3>2. r' = [q EXCEPT !.uri = doc]
      BY <2>1
    <3> HIDE DEF q
    <3> QED
      BY <3>1, <3>2, RequestMembers, RequestRest
  <2>4. Policy!Enter(pass + 1) /\ Policy!Open
    BY <1>0, <2>1, <2>2, <2>3, PassEnters, PastIsOpen
  <2>5. Policy!Move
    BY <1>9, <1>10, <2>1, <2>2, <2>3, <2>4 DEF Policy!Move, Policy!AtRest
  <2> QED
    BY <2>5 DEF Policy!PolicyNext
<1>13. CASE Headers
  <2>1. /\ pc = "headers" /\ pc' = "done" /\ answer' = Answers("declined")
        /\ r' = [r EXCEPT !.headers = r.headers \o HeadersSet(merged)]
        /\ UNCHANGED <<site, edits, pass, walked, merged>> /\ Undecided
    BY <1>13 DEF Headers, Done, Undecided
  <2>2. answer'.rc = "declined" /\ answer'.status = 0 /\ answer.status = 0
    BY <1>0, <2>1 DEF Answers, NoAnswer, NoStatusYet
  <2>3. r.headers \o HeadersSet(merged) = HeadersSet(merged)
    <3>1. r.headers = <<>>
      BY <1>0, <2>1 DEF Replying
    <3>2. PICK hs \in Seq(STRING) : hs = HeadersSet(merged)
      BY <1>0, HeadersType DEF Typed
    <3>3. <<>> \o hs = hs
      OBVIOUS
    <3> QED
      BY <3>1, <3>2, <3>3
  <2>4. /\ r'.asked = r.asked /\ r'.login = r.login /\ r'.uri = r.uri
        /\ r'.headers = HeadersSet(merged)
    BY <1>0, <2>1, <2>3, RequestMembers, RequestRest DEF Shape
  <2>5. pass < MaxRedirects /\ ReplyBar = "pending" /\ ReplyBar' = "served"
    BY <1>0, <2>1, <2>2 DEF Typed, ReplyBar
  <2>6. Policy!Decide("served")
    BY <2>1, <2>4, <2>5 DEF Policy!Decide, Policy!where
  <2>7. edits = 0 => /\ VerdictBar(site, walked, r.uri, r.login) = "declined"
                     /\ r'.headers = HeadersBar(site, walked)
    BY <1>0, <2>1, <2>4, HasRead DEF VerdictBar, HeadersBar, Checked, Verdict
  <2>8. Policy!Open
    BY <2>1, PastIsOpen
  <2>9. Policy!Serve
    BY <2>2, <2>6, <2>7, <2>8 DEF Policy!Serve, Policy!AtRest
  <2> QED
    BY <2>9 DEF Policy!PolicyNext
<1>14. CASE Return
  <2>1. /\ pc = "done" /\ pc' = "idle" /\ pass' = 0 /\ edits' = 0 /\ walked' = <<>>
        /\ r' = NoRequest /\ answer' = NoAnswer /\ UNCHANGED site
    BY <1>14 DEF Return
  <2>2. /\ r'.asked = <<>> /\ r'.login = NoLogin /\ r'.uri = <<>> /\ r'.headers = <<>>
        /\ answer'.status = 0
    BY <2>1 DEF NoRequest, NoAnswer
  <2>3. ReplyBar \notin {"none", "pending"} /\ ReplyBar' = "none"
    BY <1>0, <2>1 DEF Typed, ReplyBar
  <2>4. Policy!Return
    BY <2>1, <2>2, <2>3 DEF Policy!Return, Policy!Nobody
  <2> QED
    BY <2>4 DEF Policy!PolicyNext
<1>15. CASE EditFile
  <2>1. pc # "idle" /\ edits' = edits + 1 /\ UNCHANGED <<pc, pass, walked, r, answer>>
    BY <1>15 DEF EditFile
  <2>2. ReplyBar # "none" /\ ReplyBar' = ReplyBar
    BY <1>0, <2>1 DEF Typed, ReplyBar
  <2>3. Policy!Edit
    BY <2>1, <2>2 DEF Policy!Edit, Policy!where, Policy!decision
  <2> QED
    BY <2>3 DEF Policy!PolicyNext
<1>16. CASE UNCHANGED vars
  BY <1>16 DEF vars, ReplyBar, Policy!policyVars, Policy!where, Policy!decision
<1> QED
  BY <1>1, <1>2, <1>3, <1>4, <1>5, <1>6, <1>7, <1>8, <1>11, <1>12, <1>13, <1>14, <1>15, <1>16
     DEF Next, Execute

\* htaccess_execute does nothing that the policy does not allow, for every site, any
\* rules and any requests: what is decided has its ground in the rules of the URI that
\* it is decided for, and what a <FilesMatch> hides is touched by no other rule.
THEOREM PolicyIsKept == Spec => KeepsToPolicy
<1>1. Init => Policy!PolicyInit
  <2>1. SUFFICES ASSUME Init PROVE Policy!PolicyInit
    OBVIOUS
  <2>2. /\ r.asked = <<>> /\ r.login = NoLogin /\ r.uri = <<>> /\ r.headers = <<>>
        /\ answer.status = 0 /\ ReplyBar = "none"
    BY <2>1 DEF Init, NoRequest, NoAnswer, ReplyBar
  <2> QED
    BY <2>1, <2>2 DEF Init, Policy!PolicyInit, Policy!Nobody
<1>2. Executing /\ [Next]_vars => [Policy!PolicyNext]_(Policy!policyVars)
  BY PolicyStep
<1>3. Spec => []Executing
  BY ShapeKept, TypedKept, ReadingKept, FirstPassKept, CheckedKept, ReplyingKept, NoStatusKept,
     PTL DEF Executing
<1> QED
  BY <1>1, <1>2, <1>3, PTL DEF Spec, KeepsToPolicy, Policy!PolicySpec

=============================================================================
