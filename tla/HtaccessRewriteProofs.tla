------------------------- MODULE HtaccessRewriteProofs -------------------------
(***************************************************************************)
(* Lemmas about the operators that HtaccessExecute is built from: what a   *)
(* file adds to a context, what a template yields, and what one round of   *)
(* the rules does, whatever the rules and the request are.                 *)
(***************************************************************************)
EXTENDS HtaccessRewrite, HtaccessInduction, SequenceTheorems, TLAPS

-----------------------------------------------------------------------------
(* What a file adds to a context. *)

\* A string, or the one that ngx_memzero leaves.
Strings == {Empty} \cup [data : STRING, len : Nat]

\* Contexts whose directories have directives of D.
Dirs(D) == [url_prefix : Uri, rewrite_engine : BOOLEAN, rewrite_base : Uri, directives : Seq(D)]

Merged(D) ==
    [dirs            : Seq(Dirs(D)),
     auth_type       : Strings,
     auth_name       : Strings,
     auth_user_file  : Strings,
     requires        : Seq(Strings),
     order           : Strings,
     allows          : Seq(Strings),
     denies          : Seq(Strings),
     headers         : Seq([action : Strings, name : STRING]),
     expires_active  : BOOLEAN,
     expires_by_type : Seq(STRING),
     error_documents : Seq([code : Nat, uri : Uri]),
     options         : BOOLEAN,
     files_rules     : Seq([uris : SUBSET Uri, deny : BOOLEAN])]

Contexts(D) == [merged : Merged(D), dir : Dirs(D)]

LEMMA NothingMerged == ASSUME NEW D PROVE NoMerged \in Merged(D)
  <1>1. \A S : <<>> \in Seq(S)
    OBVIOUS
  <1>2. Empty \in Strings
    BY DEF Strings
  <1> QED
    BY <1>1, <1>2 DEF NoMerged, Merged

\* Changing one member of a context leaves a context.
LEMMA MergedMember ==
    ASSUME NEW D, NEW m \in Merged(D)
    PROVE  /\ \A x \in Strings : /\ [m EXCEPT !.auth_type = x] \in Merged(D)
                                 /\ [m EXCEPT !.auth_name = x] \in Merged(D)
                                 /\ [m EXCEPT !.auth_user_file = x] \in Merged(D)
                                 /\ [m EXCEPT !.order = x] \in Merged(D)
           /\ \A x \in Seq(Strings) : /\ [m EXCEPT !.requires = x] \in Merged(D)
                                      /\ [m EXCEPT !.allows = x] \in Merged(D)
                                      /\ [m EXCEPT !.denies = x] \in Merged(D)
           /\ \A x \in BOOLEAN : /\ [m EXCEPT !.expires_active = x] \in Merged(D)
                                 /\ [m EXCEPT !.options = x] \in Merged(D)
           /\ \A x \in Seq([action : Strings, name : STRING]) :
                [m EXCEPT !.headers = x] \in Merged(D)
           /\ \A x \in Seq(STRING) : [m EXCEPT !.expires_by_type = x] \in Merged(D)
           /\ \A x \in Seq([code : Nat, uri : Uri]) : [m EXCEPT !.error_documents = x] \in Merged(D)
           /\ \A x \in Seq([uris : SUBSET Uri, deny : BOOLEAN]) :
                [m EXCEPT !.files_rules = x] \in Merged(D)
           /\ \A x \in Seq(Dirs(D)) : [m EXCEPT !.dirs = x] \in Merged(D)
  BY DEF Merged

LEMMA DirMember ==
    ASSUME NEW D, NEW dir \in Dirs(D)
    PROVE  /\ \A x \in BOOLEAN : [dir EXCEPT !.rewrite_engine = x] \in Dirs(D)
           /\ \A x \in Uri : [dir EXCEPT !.rewrite_base = x] \in Dirs(D)
           /\ \A x \in Seq(D) : [dir EXCEPT !.directives = x] \in Dirs(D)
  BY DEF Dirs

LEMMA ContextMember ==
    ASSUME NEW D, NEW c \in Contexts(D)
    PROVE  /\ c.merged \in Merged(D) /\ c.dir \in Dirs(D)
           /\ \A x \in Merged(D) : [c EXCEPT !.merged = x] \in Contexts(D)
           /\ \A x \in Dirs(D) : [c EXCEPT !.dir = x] \in Contexts(D)
  BY DEF Contexts

\* htaccess_merge_directive adds nothing to a directory but the directive it is given.
LEMMA MergeDirectiveType ==
    ASSUME NEW D \in SUBSET Directives, NEW c \in Contexts(D), NEW d \in D
    PROVE  MergeDirective(c, d) \in Contexts(D)
  <1> DEFINE m == c.merged
             dir == c.dir
  <1>1. m \in Merged(D) /\ dir \in Dirs(D)
    BY ContextMember
  <1>2. /\ m.requires \in Seq(Strings) /\ m.allows \in Seq(Strings) /\ m.denies \in Seq(Strings)
        /\ m.headers \in Seq([action : Strings, name : STRING])
        /\ m.expires_by_type \in Seq(STRING) /\ m.error_documents \in Seq([code : Nat, uri : Uri])
        /\ m.files_rules \in Seq([uris : SUBSET Uri, deny : BOOLEAN]) /\ m.options \in BOOLEAN
        /\ dir.directives \in Seq(D)
    BY <1>1 DEF Merged, Dirs
  <1>3. /\ d.str \in Strings /\ d.flag \in BOOLEAN /\ d.to \in Uri /\ d.name \in STRING
        /\ d.code \in Nat /\ d.uris \in SUBSET Uri /\ d.inFiles \in BOOLEAN
    BY DEF Directives, Strings
  <1>4. FilesRule(d) \in [uris : SUBSET Uri, deny : BOOLEAN]
    BY <1>3 DEF FilesRule, Begins
  <1>5. /\ [action |-> d.str, name |-> d.name] \in [action : Strings, name : STRING]
        /\ [code |-> d.code, uri |-> d.to] \in [code : Nat, uri : Uri]
    BY <1>3
  <1> DEFINE setM(x) == [c EXCEPT !.merged = x]
             setD(x) == [c EXCEPT !.dir = x]
  <1>6. (\A x \in Merged(D) : setM(x) \in Contexts(D)) /\ (\A x \in Dirs(D) : setD(x) \in Contexts(D))
    BY ContextMember
  <1>7. CASE d.id = "RewriteEngine"
    <2>1. MergeDirective(c, d) = setD([dir EXCEPT !.rewrite_engine = d.flag])
      BY <1>7 DEF MergeDirective, AliasIds
    <2>2. d.flag \in BOOLEAN
      BY <1>3
    <2>3. [dir EXCEPT !.rewrite_engine = d.flag] \in Dirs(D)
      BY <1>1, <2>2, DirMember
    <2> QED
      BY <1>6, <2>1, <2>3
  <1>8. CASE d.id = "RewriteBase"
    <2>1. MergeDirective(c, d) = setD([dir EXCEPT !.rewrite_base = d.to])
      BY <1>8 DEF MergeDirective, AliasIds
    <2>2. d.to \in Uri
      BY <1>3
    <2>3. [dir EXCEPT !.rewrite_base = d.to] \in Dirs(D)
      BY <1>1, <2>2, DirMember
    <2> QED
      BY <1>6, <2>1, <2>3
  <1>9. CASE d.id = "RewriteRule" \/ d.id \in AliasIds
    <2>1. MergeDirective(c, d) = setD([dir EXCEPT !.directives = Append(dir.directives, d)])
      BY <1>9 DEF MergeDirective, AliasIds
    <2>2. Append(dir.directives, d) \in Seq(D)
      BY <1>2
    <2>3. [dir EXCEPT !.directives = Append(dir.directives, d)] \in Dirs(D)
      BY <1>1, <2>2, DirMember
    <2> QED
      BY <1>6, <2>1, <2>3
  <1>10. CASE d.id = "AuthType"
    BY <1>1, <1>3, <1>6, <1>10, MergedMember DEF MergeDirective, AliasIds
  <1>11. CASE d.id = "AuthName"
    BY <1>1, <1>3, <1>6, <1>11, MergedMember DEF MergeDirective, AliasIds
  <1>12. CASE d.id = "AuthUserFile"
    BY <1>1, <1>3, <1>6, <1>12, MergedMember DEF MergeDirective, AliasIds
  <1>13. CASE d.id = "Require" /\ d.inFiles
    <2>1. MergeDirective(c, d) = setM([m EXCEPT !.files_rules = Append(m.files_rules, FilesRule(d))])
      BY <1>13 DEF MergeDirective, AliasIds
    <2>2. Append(m.files_rules, FilesRule(d)) \in Seq([uris : SUBSET Uri, deny : BOOLEAN])
      BY <1>2, <1>4
    <2>3. [m EXCEPT !.files_rules = Append(m.files_rules, FilesRule(d))] \in Merged(D)
      BY <1>1, <2>2, MergedMember
    <2> QED
      BY <1>6, <2>1, <2>3
  <1>14. CASE d.id = "Require" /\ ~d.inFiles
    <2>1. MergeDirective(c, d) = setM([m EXCEPT !.requires = Append(m.requires, d.str)])
      BY <1>14 DEF MergeDirective, AliasIds
    <2>2. Append(m.requires, d.str) \in Seq(Strings)
      BY <1>2, <1>3
    <2>3. [m EXCEPT !.requires = Append(m.requires, d.str)] \in Merged(D)
      BY <1>1, <2>2, MergedMember
    <2> QED
      BY <1>6, <2>1, <2>3
  <1>15. CASE d.id = "Order"
    BY <1>1, <1>3, <1>6, <1>15, MergedMember DEF MergeDirective, AliasIds
  <1>16. CASE d.id = "Allow"
    <2>1. MergeDirective(c, d) = setM([m EXCEPT !.allows = Append(m.allows, d.str)])
      BY <1>16 DEF MergeDirective, AliasIds
    <2>2. Append(m.allows, d.str) \in Seq(Strings)
      BY <1>2, <1>3
    <2>3. [m EXCEPT !.allows = Append(m.allows, d.str)] \in Merged(D)
      BY <1>1, <2>2, MergedMember
    <2> QED
      BY <1>6, <2>1, <2>3
  <1>17. CASE d.id = "Deny"
    <2>1. MergeDirective(c, d) = setM([m EXCEPT !.denies = Append(m.denies, d.str)])
      BY <1>17 DEF MergeDirective, AliasIds
    <2>2. Append(m.denies, d.str) \in Seq(Strings)
      BY <1>2, <1>3
    <2>3. [m EXCEPT !.denies = Append(m.denies, d.str)] \in Merged(D)
      BY <1>1, <2>2, MergedMember
    <2> QED
      BY <1>6, <2>1, <2>3
  <1>18. CASE d.id = "Header"
    <2>1. MergeDirective(c, d) = setM([m EXCEPT !.headers = Append(m.headers, [action |-> d.str, name |-> d.name])])
      BY <1>18 DEF MergeDirective, AliasIds
    <2>2. Append(m.headers, [action |-> d.str, name |-> d.name]) \in Seq([action : Strings, name : STRING])
      BY <1>2, <1>5
    <2>3. [m EXCEPT !.headers = Append(m.headers, [action |-> d.str, name |-> d.name])] \in Merged(D)
      BY <1>1, <2>2, MergedMember
    <2> QED
      BY <1>6, <2>1, <2>3
  <1>19. CASE d.id = "ExpiresActive"
    BY <1>1, <1>3, <1>6, <1>19, MergedMember DEF MergeDirective, AliasIds
  <1>20. CASE d.id = "ExpiresByType"
    <2>1. MergeDirective(c, d) = setM([m EXCEPT !.expires_by_type = Append(m.expires_by_type, d.name)])
      BY <1>20 DEF MergeDirective, AliasIds
    <2>2. Append(m.expires_by_type, d.name) \in Seq(STRING)
      BY <1>2, <1>3
    <2>3. [m EXCEPT !.expires_by_type = Append(m.expires_by_type, d.name)] \in Merged(D)
      BY <1>1, <2>2, MergedMember
    <2> QED
      BY <1>6, <2>1, <2>3
  <1>21. CASE d.id = "ErrorDocument"
    <2>1. MergeDirective(c, d) = setM([m EXCEPT !.error_documents = Append(m.error_documents, [code |-> d.code, uri |-> d.to])])
      BY <1>21 DEF MergeDirective, AliasIds
    <2>2. Append(m.error_documents, [code |-> d.code, uri |-> d.to]) \in Seq([code : Nat, uri : Uri])
      BY <1>2, <1>5
    <2>3. [m EXCEPT !.error_documents = Append(m.error_documents, [code |-> d.code, uri |-> d.to])] \in Merged(D)
      BY <1>1, <2>2, MergedMember
    <2> QED
      BY <1>6, <2>1, <2>3
  <1>22. CASE d.id = "Options"
    <2>1. MergeDirective(c, d) = setM([m EXCEPT !.options = m.options \/ d.flag])
      BY <1>22 DEF MergeDirective, AliasIds
    <2>2. (m.options \/ d.flag) \in BOOLEAN
      BY <1>2, <1>3
    <2> QED
      BY <1>1, <1>6, <2>1, <2>2, MergedMember
  <1>23. CASE d.id \notin {"RewriteEngine", "RewriteBase", "RewriteRule", "AuthType", "AuthName",
                          "AuthUserFile", "Require", "Order", "Allow", "Deny", "Header",
                          "ExpiresActive", "ExpiresByType", "ErrorDocument", "Options"}
                /\ d.id \notin AliasIds
    BY <1>23 DEF MergeDirective
  <1> QED
    BY <1>7, <1>8, <1>9, <1>10, <1>11, <1>12, <1>13, <1>14, <1>15, <1>16, <1>17, <1>18, <1>19,
       <1>20, <1>21, <1>22, <1>23

\* The loop over a file's directives: f is what it has after each of them.
Merging(D, m, prefix, ds, f) ==
    /\ f \in [0 .. Len(ds) -> Contexts(D)]
    /\ f[0] = [merged |-> m, dir |-> NewDir(prefix)]
    /\ \A k \in 1 .. Len(ds) : f[k] = MergeDirective(f[k - 1], ds[k])
    /\ MergeParsed(m, prefix, ds) =
          [f[Len(ds)].merged EXCEPT !.dirs = Append(f[Len(ds)].merged.dirs, f[Len(ds)].dir)]

LEMMA MergeParsedIs ==
    ASSUME NEW D \in SUBSET Directives, NEW m \in Merged(D), NEW prefix \in Uri, NEW ds \in Seq(D)
    PROVE  \E f : Merging(D, m, prefix, ds, f)
  <1> DEFINE n == Len(ds)
             a == [merged |-> m, dir |-> NewDir(prefix)]
             Is(c) == c = [k \in 0 .. n |-> IF k = 0 THEN a ELSE MergeDirective(c[k - 1], ds[k])]
             step == [k \in 1 .. n |-> [c \in Contexts(D) |-> MergeDirective(c, ds[k])]]
  <1>1. n \in Nat /\ \A k \in 1 .. n : ds[k] \in D
    OBVIOUS
  <1>2. a \in Contexts(D)
    <2>1. <<>> \in Uri /\ <<>> \in Seq(D)
      BY DEF Uri
    <2>2. NewDir(prefix) \in Dirs(D)
      BY <2>1 DEF NewDir, Dirs
    <2> QED
      BY <2>2 DEF Contexts
  <1>3. step \in Stepping(n, Contexts(D))
    BY <1>1, MergeDirectiveType DEF Stepping
  <1>4. \A k \in 1 .. n, c \in Contexts(D) : step[k][c] = MergeDirective(c, ds[k])
    OBVIOUS
  <1> HIDE DEF step, n, a
  <1>5. PICK f : Follows(f, step, n, Contexts(D), a)
    BY <1>1, <1>2, <1>3, Recursion
  <1>6. Is(f)
    <2>1. ASSUME NEW k \in 0 .. n
          PROVE  f[k] = IF k = 0 THEN a ELSE MergeDirective(f[k - 1], ds[k])
      <3>1. CASE k = 0
        BY <1>5, <3>1 DEF Follows
      <3>2. CASE k # 0
        <4>1. k \in 1 .. n /\ k - 1 \in 0 .. n
          BY <1>1, <3>2
        <4> QED
          BY <1>4, <1>5, <3>2, <4>1 DEF Follows
      <3> QED
        BY <3>1, <3>2
    <2> QED
      BY <1>5, <2>1 DEF Follows
  <1> DEFINE g == CHOOSE c : Is(c)
             all == g[n]
  <1>7. Is(g)
    BY <1>6
  <1>8. MergeParsed(m, prefix, ds) = [all.merged EXCEPT !.dirs = Append(all.merged.dirs, all.dir)]
    BY DEF MergeParsed, n, a
  <1> HIDE DEF g
  <1>9. g[0] = a /\ \A k \in 1 .. n : g[k] = MergeDirective(g[k - 1], ds[k])
    <2>1. g[0] = a
      BY <1>1, <1>7
    <2>2. ASSUME NEW k \in 1 .. n PROVE g[k] = MergeDirective(g[k - 1], ds[k])
      <3>1. k \in 0 .. n /\ k # 0
        BY <1>1
      <3> QED
        BY <1>7, <3>1
    <2> QED
      BY <2>1, <2>2
  <1>10. \A k \in 0 .. n : g[k] \in Contexts(D)
    <2> DEFINE S == {k \in 0 .. n : g[k] \in Contexts(D)}
    <2>1. 0 \in S
      BY <1>1, <1>2, <1>9
    <2>2. ASSUME NEW k \in 1 .. n, k - 1 \in S PROVE k \in S
      BY <1>1, <1>9, <2>2, MergeDirectiveType
    <2>3. \A k \in 1 .. n : k - 1 \in S => k \in S
      BY <2>2
    <2> HIDE DEF S
    <2>4. 0 .. n \subseteq S
      BY <1>1, <2>1, <2>3, InductionUpTo
    <2> QED
      BY <2>4 DEF S
  <1>11. g \in [0 .. n -> Contexts(D)]
    BY <1>7, <1>10
  <1>12. Merging(D, m, prefix, ds, g)
    BY <1>8, <1>9, <1>11 DEF Merging, n, a
  <1> QED
    BY <1>12

\* htaccess_merge_parsed: a file adds a directory with directives of its own.
LEMMA MergeParsedType ==
    ASSUME NEW D \in SUBSET Directives, NEW m \in Merged(D), NEW prefix \in Uri, NEW ds \in Seq(D)
    PROVE  MergeParsed(m, prefix, ds) \in Merged(D)
  <1>1. PICK f : Merging(D, m, prefix, ds, f)
    BY MergeParsedIs
  <1> DEFINE all == f[Len(ds)]
  <1>2. all \in Contexts(D)
    BY <1>1 DEF Merging
  <1>3. MergeParsed(m, prefix, ds) = [all.merged EXCEPT !.dirs = Append(all.merged.dirs, all.dir)]
    BY <1>1 DEF Merging
  <1> HIDE DEF all
  <1>4. all.merged \in Merged(D) /\ all.dir \in Dirs(D)
    BY <1>2, ContextMember
  <1>5. Append(all.merged.dirs, all.dir) \in Seq(Dirs(D))
    BY <1>4 DEF Merged
  <1>6. PICK grown \in Seq(Dirs(D)) : grown = Append(all.merged.dirs, all.dir)
    BY <1>5
  <1>7. [all.merged EXCEPT !.dirs = grown] \in Merged(D)
    BY <1>4, MergedMember
  <1> QED
    BY <1>3, <1>6, <1>7

-----------------------------------------------------------------------------
(* What directives say of access is added to what there is, never taken from it. *)

\* b is a with more behind it.
Extends(a, b) ==
    /\ Len(a) \in Nat /\ Len(b) \in Nat /\ DOMAIN a = 1 .. Len(a) /\ DOMAIN b = 1 .. Len(b)
    /\ Len(a) <= Len(b)
    /\ \A i \in 1 .. Len(a) : b[i] = a[i]

AccessGrows(a, b) ==
    Extends(a.requires, b.requires) /\ Extends(a.files_rules, b.files_rules)

LEMMA ExtendedBy ==
    ASSUME NEW S, NEW a \in Seq(S), NEW x
    PROVE  Extends(a, a) /\ (x \in S => Extends(a, Append(a, x)))
  BY DEF Extends

LEMMA GrowsOn ==
    ASSUME NEW a, NEW b, NEW c, AccessGrows(a, b), AccessGrows(b, c)
    PROVE  AccessGrows(a, c)
  BY DEF AccessGrows, Extends

LEMMA MergeDirectiveGrows ==
    ASSUME NEW D \in SUBSET Directives, NEW c \in Contexts(D), NEW d \in D
    PROVE  AccessGrows(c.merged, MergeDirective(c, d).merged)
  <1> DEFINE m == c.merged
             e == MergeDirective(c, d).merged
  <1>1. /\ m.requires \in Seq(Strings)
        /\ m.files_rules \in Seq([uris : SUBSET Uri, deny : BOOLEAN])
        /\ d.str \in Strings
        /\ FilesRule(d) \in [uris : SUBSET Uri, deny : BOOLEAN]
        /\ d.inFiles \in BOOLEAN
    <2>1. m \in Merged(D)
      BY ContextMember
    <2> QED
      BY <2>1 DEF Merged, Directives, Strings, FilesRule, Begins
  <1>2. m = [m EXCEPT !.requires = m.requires] /\ c = [c EXCEPT !.merged = m]
    BY DEF Contexts, Merged
  <1>3. e.requires \in {m.requires, Append(m.requires, d.str)}
    BY <1>2 DEF MergeDirective
  <1>4. e.files_rules \in {m.files_rules, Append(m.files_rules, FilesRule(d))}
    BY <1>2 DEF MergeDirective
  <1> HIDE DEF m, e
  <1>5. Extends(m.requires, e.requires) /\ Extends(m.files_rules, e.files_rules)
    <2>1. /\ Extends(m.requires, m.requires)
          /\ Extends(m.requires, Append(m.requires, d.str))
      BY <1>1, ExtendedBy
    <2>2. /\ Extends(m.files_rules, m.files_rules)
          /\ Extends(m.files_rules, Append(m.files_rules, FilesRule(d)))
      BY <1>1, ExtendedBy
    <2> QED
      BY <1>3, <1>4, <2>1, <2>2
  <1> QED
    BY <1>5 DEF AccessGrows, m, e

\* htaccess_merge_parsed: so does a file.
LEMMA MergeParsedGrows ==
    ASSUME NEW D \in SUBSET Directives, NEW m \in Merged(D), NEW prefix \in Uri, NEW ds \in Seq(D)
    PROVE  AccessGrows(m, MergeParsed(m, prefix, ds))
  <1>1. PICK f : Merging(D, m, prefix, ds, f)
    BY MergeParsedIs
  <1>2. Len(ds) \in Nat /\ \A k \in 1 .. Len(ds) : ds[k] \in D
    OBVIOUS
  <1> DEFINE n == Len(ds)
             S == {k \in 0 .. n : AccessGrows(m, f[k].merged)}
  <1>3. 0 \in S
    <2>1. f[0].merged = m
      BY <1>1 DEF Merging
    <2>2. AccessGrows(m, m)
      BY ExtendedBy DEF AccessGrows, Merged
    <2> QED
      BY <1>2, <2>1, <2>2
  <1>4. ASSUME NEW k \in 1 .. n, k - 1 \in S PROVE k \in S
    <2>1. f[k - 1] \in Contexts(D) /\ f[k] = MergeDirective(f[k - 1], ds[k]) /\ ds[k] \in D
      BY <1>1, <1>2 DEF Merging
    <2>2. AccessGrows(f[k - 1].merged, f[k].merged)
      BY <2>1, MergeDirectiveGrows
    <2>3. AccessGrows(m, f[k].merged)
      BY <1>4, <2>2, GrowsOn
    <2> QED
      BY <1>2, <2>3
  <1>5. \A k \in 1 .. n : k - 1 \in S => k \in S
    BY <1>4
  <1>6. n \in S
    <2> HIDE DEF S
    <2>1. 0 .. n \subseteq S
      BY <1>2, <1>3, <1>5, InductionUpTo
    <2> QED
      BY <1>2, <2>1
  <1>7. f[n].merged \in Merged(D)
    <2>1. f[n] \in Contexts(D)
      BY <1>1, <1>2 DEF Merging
    <2> QED
      BY <2>1, ContextMember
  <1>8. /\ MergeParsed(m, prefix, ds).requires = f[n].merged.requires
        /\ MergeParsed(m, prefix, ds).files_rules = f[n].merged.files_rules
    BY <1>1, <1>7 DEF Merging, Merged
  <1> QED
    BY <1>6, <1>8 DEF AccessGrows

-----------------------------------------------------------------------------
(* Variables and templates. *)

Env == Seq([name : STRING, value : Uri])

\* What a request's state holds, as far as a template or a condition may look.
TypedState(q) ==
    /\ q.uri \in Uri /\ q.filename \in Uri /\ q.query_string \in Uri /\ q.server \in Uri
    /\ q.env \in Env
    /\ \A name \in DOMAIN q.headers : q.headers[name] \in Uri

\* SelectInSeq returns the first place, and 0 for none.
LEMMA FirstPlace ==
    ASSUME NEW n \in Nat, NEW I \in SUBSET (1 .. n), I # {}
    PROVE  /\ (CHOOSE x \in I : \A y \in I : x =< y) \in I
           /\ \A y \in I : (CHOOSE x \in I : \A z \in I : x =< z) =< y
  <1>1. \E x \in I : \A y \in I : x =< y
    BY LeastNumber
  <1> QED
    BY <1>1

\* htaccess_env_get: the value of the first of that name.
LEMMA EnvGetIs ==
    ASSUME NEW V, NEW env \in Seq(V), NEW name
    PROVE  /\ (\A i \in DOMAIN env : env[i].name # name) => EnvGet(env, name) = <<>>
           /\ \A i \in DOMAIN env :
                env[i].name = name /\ (\A j \in 1 .. i - 1 : env[j].name # name)
                  => EnvGet(env, name) = env[i].value
           /\ EnvGet(env, name) = <<>>
                \/ \E i \in DOMAIN env : EnvGet(env, name) = env[i].value
  <1> DEFINE I == {i \in 1 .. Len(env) : env[i].name = name}
             at == CHOOSE x \in I : \A y \in I : x =< y
  <1>1. DOMAIN env = 1 .. Len(env) /\ Len(env) \in Nat
    OBVIOUS
  <1>2. EnvGet(env, name) = IF I = {} THEN <<>> ELSE IF at = 0 THEN <<>> ELSE env[at].value
    BY DEF EnvGet, SelectInSeq, Min
  <1>3. I # {} => at \in I /\ \A y \in I : at =< y
    <2> HIDE DEF I
    <2>1. I \in SUBSET (1 .. Len(env))
      BY DEF I
    <2> QED
      BY <1>1, <2>1, FirstPlace
  <1> HIDE DEF at
  <1>4. I # {} => at # 0
    BY <1>3
  <1>5. ASSUME NEW i \in DOMAIN env, env[i].name = name, \A j \in 1 .. i - 1 : env[j].name # name
        PROVE  EnvGet(env, name) = env[i].value
    <2>1. i \in I
      BY <1>1, <1>5
    <2>2. at \in I /\ at =< i
      BY <1>3, <2>1
    <2>3. ~(at \in 1 .. i - 1)
      BY <1>5, <2>2
    <2>4. at = i
      BY <2>2, <2>3, <2>1
    <2> QED
      BY <1>2, <1>4, <2>1, <2>4
  <1> QED
    BY <1>1, <1>2, <1>3, <1>4, <1>5

\* What was set before is found before.
LEMMA SetStaysSet ==
    ASSUME NEW V, NEW a \in Seq(V), NEW b \in Seq(V), Extends(a, b), NEW v \in ToSet(a)
    PROVE  EnvGet(b, v.name) = EnvGet(a, v.name)
  <1> DEFINE I == {i \in 1 .. Len(a) : a[i].name = v.name}
  <1>1. I # {} /\ I \in SUBSET Nat
    BY DEF ToSet
  <1>2. PICK i \in I : \A y \in I : i =< y
    <2> HIDE DEF I
    <2> QED
      BY <1>1, LeastNumber
  <1>3. i \in DOMAIN a /\ i \in DOMAIN b /\ a[i].name = v.name /\ b[i] = a[i]
    BY <1>2 DEF Extends
  <1>4. ASSUME NEW j \in 1 .. i - 1 PROVE a[j].name # v.name /\ b[j] = a[j]
    <2>1. j \in 1 .. Len(a) /\ ~(i =< j)
      BY <1>2
    <2> QED
      BY <1>2, <2>1 DEF Extends
  <1>5. EnvGet(a, v.name) = a[i].value
    BY <1>3, <1>4, EnvGetIs
  <1>6. EnvGet(b, v.name) = b[i].value
    BY <1>3, <1>4, EnvGetIs
  <1> QED
    BY <1>3, <1>5, <1>6

LEMMA ElementOf == ASSUME NEW S, NEW s \in Seq(S), NEW i \in DOMAIN s PROVE s[i] \in S
  OBVIOUS

LEMMA ValueType ==
    ASSUME NEW q, TypedState(q), NEW match \in Uri, NEW piece \in Piece
    PROVE  Value(q, match, piece) \in Uri
  <1>0. piece.kind \in STRING /\ piece.name \in STRING /\ <<>> \in Uri
    BY DEF Piece, Uri
  <1>1. EnvGet(q.env, piece.name) \in Uri
    <2>1. q.env \in Seq([name : STRING, value : Uri])
      BY DEF TypedState, Env
    <2>2. PICK env \in Seq([name : STRING, value : Uri]) : env = q.env
      BY <2>1
    <2>3. ASSUME NEW i \in DOMAIN env PROVE env[i].value \in Uri
      <3>1. env[i] \in [name : STRING, value : Uri]
        BY ElementOf
      <3> QED
        BY <3>1
    <2>4. \/ EnvGet(env, piece.name) = <<>>
          \/ \E i \in DOMAIN env : EnvGet(env, piece.name) = env[i].value
      BY EnvGetIs
    <2> QED
      BY <1>0, <2>2, <2>3, <2>4
  <1>2. HttpHeader(q, piece.name) \in Uri
    BY <1>0 DEF HttpHeader, HeaderSent, TypedState
  <1>3. <<piece.name>> \in Uri
    BY <1>0 DEF Uri
  <1>4. q.server \in Uri /\ q.query_string \in Uri /\ q.filename \in Uri /\ q.uri \in Uri
    BY DEF TypedState
  <1> QED
    BY <1>0, <1>1, <1>2, <1>3, <1>4 DEF Value

\* htaccess_expand: what comes of a template is made of words.
LEMMA ExpandType ==
    ASSUME NEW q, TypedState(q), NEW match \in Uri, NEW template \in Seq(Piece)
    PROVE  Expand(q, match, template).out \in Uri
  <1> DEFINE n == Len(template)
             Is(c) == c = [k \in 0 .. n |->
                             IF k = 0 THEN <<>> ELSE c[k - 1] \o Value(q, match, template[k])]
             step == [k \in 1 .. n |-> [c \in Uri |-> c \o Value(q, match, template[k])]]
  <1>1. n \in Nat /\ (\A k \in 1 .. n : Value(q, match, template[k]) \in Uri) /\ <<>> \in Uri
    <2>1. n \in Nat /\ \A k \in 1 .. n : template[k] \in Piece
      OBVIOUS
    <2>2. <<>> \in Uri
      BY DEF Uri
    <2> QED
      BY <2>1, <2>2, ValueType
  <1>2. \A c \in Uri, v \in Uri : c \o v \in Uri
    BY DEF Uri
  <1>3. step \in Stepping(n, Uri)
    BY <1>1, <1>2 DEF Stepping
  <1>4. \A k \in 1 .. n, c \in Uri : step[k][c] = c \o Value(q, match, template[k])
    OBVIOUS
  <1> HIDE DEF step, n
  <1>5. PICK f : Follows(f, step, n, Uri, <<>>)
    BY <1>1, <1>3, Recursion
  <1>6. Is(f)
    <2>1. ASSUME NEW k \in 0 .. n
          PROVE  f[k] = IF k = 0 THEN <<>> ELSE f[k - 1] \o Value(q, match, template[k])
      <3>1. CASE k = 0
        BY <1>5, <3>1 DEF Follows
      <3>2. CASE k # 0
        <4>1. k \in 1 .. n /\ k - 1 \in 0 .. n
          BY <1>1, <3>2
        <4> QED
          BY <1>4, <1>5, <3>2, <4>1 DEF Follows
      <3> QED
        BY <3>1, <3>2
    <2> QED
      BY <1>5, <2>1 DEF Follows
  <1> DEFINE g == CHOOSE c : Is(c)
  <1>7. Is(g)
    BY <1>6
  <1>8. Expand(q, match, template).out = g[n]
    BY DEF Expand, n
  <1> HIDE DEF g
  <1> DEFINE S == {k \in 0 .. n : g[k] \in Uri}
  <1>9. 0 \in S
    BY <1>1, <1>7
  <1>10. ASSUME NEW k \in 1 .. n, k - 1 \in S PROVE k \in S
    <2>1. g[k - 1] \in Uri /\ k \in 0 .. n /\ k # 0
      BY <1>1, <1>10
    <2>2. g[k] = g[k - 1] \o Value(q, match, template[k])
      BY <1>7, <2>1
    <2> QED
      BY <1>1, <1>2, <2>1, <2>2
  <1>11. \A k \in 1 .. n : k - 1 \in S => k \in S
    BY <1>10
  <1> HIDE DEF S
  <1>12. 0 .. n \subseteq S
    BY <1>1, <1>9, <1>11, InductionUpTo
  <1> QED
    BY <1>1, <1>8, <1>12 DEF S

-----------------------------------------------------------------------------
(* A round of the rules changes members of the records it is given, and adds none. *)

IsState(q) ==
    q = [uri |-> q.uri, filename |-> q.filename, query_string |-> q.query_string,
         env |-> q.env, headers |-> q.headers, server |-> q.server]

IsRound(w) ==
    /\ w = [at |-> w.at, chain_active |-> w.chain_active, applied |-> w.applied, uri |-> w.uri,
            state |-> w.state, code |-> w.code, result |-> w.result]
    /\ IsState(w.state)

LEMMA OneMember ==
    /\ \A q, x : IsState(q) => /\ IsState([q EXCEPT !.uri = x])
                              /\ IsState([q EXCEPT !.query_string = x])
    /\ \A w, x : IsRound(w) =>
          /\ IsRound([w EXCEPT !.uri = x]) /\ [w EXCEPT !.uri = x].state = w.state
          /\ IsRound([w EXCEPT !.code = x]) /\ IsRound([w EXCEPT !.result = x])
          /\ IsRound([w EXCEPT !.chain_active = x]) /\ IsRound([w EXCEPT !.applied = x])
          /\ IsRound([w EXCEPT !.at = x])
    /\ \A w, x : IsRound(w) /\ IsState(x) =>
          IsRound([w EXCEPT !.state = x]) /\ [w EXCEPT !.state = x].state = x
<1>1. ASSUME NEW q, NEW x, IsState(q)
      PROVE  IsState([q EXCEPT !.uri = x]) /\ IsState([q EXCEPT !.query_string = x])
  BY <1>1 DEF IsState
<1>2. ASSUME NEW w, NEW x, IsRound(w)
      PROVE  /\ IsRound([w EXCEPT !.uri = x]) /\ [w EXCEPT !.uri = x].state = w.state
             /\ IsRound([w EXCEPT !.code = x]) /\ IsRound([w EXCEPT !.result = x])
             /\ IsRound([w EXCEPT !.chain_active = x]) /\ IsRound([w EXCEPT !.applied = x])
             /\ IsRound([w EXCEPT !.at = x])
  BY <1>2 DEF IsRound
<1>3. ASSUME NEW w, NEW x, IsRound(w), IsState(x)
      PROVE  IsRound([w EXCEPT !.state = x]) /\ [w EXCEPT !.state = x].state = x
  BY <1>3 DEF IsRound
<1> QED
  BY <1>1, <1>2, <1>3

LEMMA EnvKeepsState ==
    ASSUME NEW q, IsState(q), NEW match, NEW d
    PROVE  IsState(ApplyEnvFlags(q, match, d))
<1>1. \A x : IsState([q EXCEPT !.env = x])
  BY DEF IsState
<1> QED
  BY <1>1 DEF ApplyEnvFlags

LEMMA TargetKeepsRound ==
    ASSUME NEW w, IsRound(w), NEW out, NEW qsa
    PROVE  IsRound(ApplyTargetUri(w, out, qsa))
<1>1. ASSUME NEW x, NEW y
      PROVE  IsRound([w EXCEPT !.uri = x, !.state.uri = x, !.state.query_string = y])
  <2> DEFINE v == [w EXCEPT !.uri = x]
             u == [v EXCEPT !.state = [v.state EXCEPT !.uri = x]]
  <2>1. IsRound(v)
    BY OneMember
  <2> HIDE DEF v
  <2>2. IsState(v.state) /\ IsState([v.state EXCEPT !.uri = x])
    BY <2>1, OneMember DEF IsRound
  <2>3. IsRound(u)
    BY <2>1, <2>2, OneMember
  <2> HIDE DEF u
  <2>4. IsState([u.state EXCEPT !.query_string = y])
    BY <2>3, OneMember DEF IsRound
  <2>5. IsRound([u EXCEPT !.state = [u.state EXCEPT !.query_string = y]])
    BY <2>3, <2>4, OneMember
  <2> QED
    BY <2>5 DEF u, v
<1> QED
  BY <1>1 DEF ApplyTargetUri

LEMMA MatchedKeepsRound ==
    ASSUME NEW w, IsRound(w), NEW match, NEW dir, NEW d
    PROVE  IsRound(RuleMatched(w, match, dir, d))
<1> DEFINE To(sub) ==
        LET out == Target(dir.rewrite_base, d, sub.out) IN
        CASE "dash" \in d.flags -> IF Final(d) THEN [w EXCEPT !.result = "declined"] ELSE w
          [] "dash" \notin d.flags /\ ~sub.ok -> [w EXCEPT !.result = "error"]
          [] "dash" \notin d.flags /\ sub.ok /\ "chain" \in d.flags /\ ~Final(d) -> w
          [] OTHER ->
               IF "redirect" \in d.flags
               THEN [w EXCEPT !.state.uri = out, !.code = RedirectCode(d), !.result = "redirect"]
               ELSE [ApplyTargetUri(w, out, "qsa" \in d.flags) EXCEPT
                        !.chain_active = FALSE, !.result = IF Final(d) THEN "ok" ELSE @]
           out(sub) == Target(dir.rewrite_base, d, sub.out)
<1>1. ASSUME NEW sub PROVE IsRound(To(sub))
  <2>1. \A x : IsRound([w EXCEPT !.result = x])
    BY OneMember
  <2>2. ASSUME NEW x, NEW y
        PROVE  IsRound([w EXCEPT !.state.uri = x, !.code = y, !.result = "redirect"])
    <3>1. IsState([w.state EXCEPT !.uri = x])
      BY OneMember DEF IsRound
    <3>2. IsRound([w EXCEPT !.state = [w.state EXCEPT !.uri = x]])
      BY <3>1, OneMember
    <3> QED
      BY <3>2, OneMember
  <2>3. ASSUME NEW v, NEW x, IsRound(v)
        PROVE  IsRound([v EXCEPT !.chain_active = FALSE, !.result = x])
    BY <2>3, OneMember
  <2>4. IsRound(ApplyTargetUri(w, out(sub), "qsa" \in d.flags))
    BY TargetKeepsRound
  <2>5. CASE "dash" \in d.flags
    BY <2>1, <2>5
  <2>6. CASE "dash" \notin d.flags /\ ~sub.ok
    BY <2>1, <2>6
  <2>7. CASE "dash" \notin d.flags /\ sub.ok /\ "chain" \in d.flags /\ ~Final(d)
    BY <2>7
  <2>8. CASE "dash" \notin d.flags /\ sub.ok /\ ~("chain" \in d.flags /\ ~Final(d))
    BY <2>2, <2>3, <2>4, <2>8
  <2> QED
    BY <2>5, <2>6, <2>7, <2>8
<1> DEFINE sub == Expand(w.state, match, d.substitution)
<1>2. RuleMatched(w, match, dir, d) = CHOOSE y \in {To(x) : x \in {sub}} : TRUE
  BY DEF RuleMatched, With
<1> HIDE DEF To, sub
<1>3. RuleMatched(w, match, dir, d) \in {To(x) : x \in {sub}}
  BY <1>2
<1> QED
  BY <1>1, <1>3

LEMMA RoundKeepsRound ==
    ASSUME NEW w, IsRound(w), NEW dirs, NEW p
    PROVE  IsRound(RewriteRule(w, dirs, p))
<1> DEFINE dir == dirs[p[1]]
           d == dir.directives[p[2]]
           match == RelativeUri(w.state.uri, dir.url_prefix)
           applies == MatchConditions(d.conditions, w.state) /\ w.state.uri \in d.uris
           chained == [w EXCEPT !.at = p,
                                !.chain_active = IF "chain" \in d.flags THEN applies ELSE @]
           next == [chained EXCEPT !.state = ApplyEnvFlags(@, match, d), !.applied = @ \cup {p}]
           Applied(v) == RuleMatched(v, match, dir, d)
           chain_in == ChainIn(dir.directives, p[2])
<1>1. IsRound([w EXCEPT !.at = p])
  BY OneMember
<1>2. IsRound(chained)
  BY <1>1, OneMember
<1> HIDE DEF chained
<1>3. IsState(ApplyEnvFlags(chained.state, match, d))
  BY <1>2, EnvKeepsState DEF IsRound
<1>4. IsRound(next)
  BY <1>2, <1>3, OneMember
<1> HIDE DEF next
<1>5. IsRound(Applied(next))
  BY <1>4, MatchedKeepsRound
<1>6. ASSUME ~(chain_in /\ ~w.chain_active)
      PROVE  RewriteRule(w, dirs, p) \in {Applied(x) : x \in {next}} \cup {chained}
  <2>1. (CHOOSE y \in {Applied(x) : x \in {next}} : TRUE) \in {Applied(x) : x \in {next}}
    OBVIOUS
  <2> QED
    BY <1>6, <2>1 DEF RewriteRule, With, next, chained
<1>7. ASSUME chain_in /\ ~w.chain_active
      PROVE  RewriteRule(w, dirs, p) = [w EXCEPT !.at = p]
  BY <1>7 DEF RewriteRule
<1> QED
  BY <1>1, <1>2, <1>5, <1>6, <1>7

-----------------------------------------------------------------------------
(* What a round makes of the request's state is made of words, the variables   *)
(* that were set are left in their places, and a query string is put before    *)
(* the one that there was or in its place.                                     *)

TypedRound(w) == IsRound(w) /\ TypedState(w.state) /\ w.uri \in Uri

\* s ends in t.
EndsIn(s, t) == \E x \in Uri : s = x \o t

LEMMA NothingBefore == ASSUME NEW s \in Uri PROVE EndsIn(s, s)
  <1>1. <<>> \in Uri /\ s = <<>> \o s
    BY DEF Uri
  <1> QED
    BY <1>1 DEF EndsIn

LEMMA EndsTransitively ==
    ASSUME NEW s \in Uri, NEW t \in Uri, NEW u \in Uri, EndsIn(s, t), EndsIn(t, u)
    PROVE  EndsIn(s, u)
  <1>1. PICK x \in Uri, y \in Uri : s = x \o t /\ t = y \o u
    BY DEF EndsIn
  <1>2. x \o y \in Uri /\ s = (x \o y) \o u
    BY <1>1 DEF Uri
  <1> QED
    BY <1>2 DEF EndsIn

LEMMA TypedMember ==
    ASSUME NEW q, IsState(q), TypedState(q)
    PROVE  /\ \A x \in Uri : /\ TypedState([q EXCEPT !.uri = x])
                             /\ TypedState([q EXCEPT !.query_string = x])
                             /\ [q EXCEPT !.uri = x].uri = x
                             /\ [q EXCEPT !.query_string = x].query_string = x
                             /\ [q EXCEPT !.uri = x].env = q.env
                             /\ [q EXCEPT !.query_string = x].env = q.env
                             /\ [q EXCEPT !.uri = x].query_string = q.query_string
           /\ \A x \in Env : /\ TypedState([q EXCEPT !.env = x])
                             /\ [q EXCEPT !.env = x].env = x
                             /\ [q EXCEPT !.env = x].uri = q.uri
                             /\ [q EXCEPT !.env = x].query_string = q.query_string
  <1>1. ASSUME NEW x \in Uri
        PROVE  /\ TypedState([q EXCEPT !.uri = x]) /\ [q EXCEPT !.uri = x].uri = x
               /\ [q EXCEPT !.uri = x].env = q.env
               /\ [q EXCEPT !.uri = x].query_string = q.query_string
    <2> DEFINE u == [q EXCEPT !.uri = x]
    <2>1. /\ u.uri = x /\ u.filename = q.filename /\ u.query_string = q.query_string
          /\ u.env = q.env /\ u.headers = q.headers /\ u.server = q.server
      BY DEF IsState
    <2> HIDE DEF u
    <2>2. TypedState(u)
      BY <2>1 DEF TypedState
    <2> QED
      BY <2>1, <2>2 DEF u
  <1>2. ASSUME NEW x \in Uri
        PROVE  /\ TypedState([q EXCEPT !.query_string = x])
               /\ [q EXCEPT !.query_string = x].query_string = x
               /\ [q EXCEPT !.query_string = x].env = q.env
    <2> DEFINE u == [q EXCEPT !.query_string = x]
    <2>1. /\ u.uri = q.uri /\ u.filename = q.filename /\ u.query_string = x
          /\ u.env = q.env /\ u.headers = q.headers /\ u.server = q.server
      BY DEF IsState
    <2> HIDE DEF u
    <2>2. TypedState(u)
      BY <2>1 DEF TypedState
    <2> QED
      BY <2>1, <2>2 DEF u
  <1>3. ASSUME NEW x \in Env
        PROVE  /\ TypedState([q EXCEPT !.env = x]) /\ [q EXCEPT !.env = x].env = x
               /\ [q EXCEPT !.env = x].uri = q.uri
               /\ [q EXCEPT !.env = x].query_string = q.query_string
    <2> DEFINE u == [q EXCEPT !.env = x]
    <2>1. /\ u.uri = q.uri /\ u.filename = q.filename /\ u.query_string = q.query_string
          /\ u.env = x /\ u.headers = q.headers /\ u.server = q.server
      BY DEF IsState
    <2> HIDE DEF u
    <2>2. TypedState(u)
      BY <2>1 DEF TypedState
    <2> QED
      BY <2>1, <2>2 DEF u
  <1> QED
    BY <1>1, <1>2, <1>3

\* htaccess_env_set puts a variable after those there are.
LEMMA EnvSetExtends ==
    ASSUME NEW a \in Env, NEW b \in Env, Extends(a, b), NEW name \in STRING, NEW value \in Uri
    PROVE  EnvSet(b, name, value) \in Env /\ Extends(a, EnvSet(b, name, value))
  <1> DEFINE V == [name : STRING, value : Uri]
  <1>1. PICK v \in V : v = [name |-> name, value |-> value]
    OBVIOUS
  <1>2. a \in Seq(V) /\ b \in Seq(V)
    BY DEF Env
  <1> HIDE DEF V
  <1>3. /\ Append(b, v) \in Seq(V) /\ Len(Append(b, v)) = Len(b) + 1
        /\ \A i \in 1 .. Len(b) : Append(b, v)[i] = b[i]
    BY <1>2
  <1> DEFINE c == Append(b, v)
  <1>4. DOMAIN c = 1 .. Len(c) /\ Len(c) \in Nat
    BY <1>3
  <1> HIDE DEF c
  <1>5. Extends(a, c)
    BY <1>3, <1>4 DEF Extends, c
  <1> QED
    BY <1>1, <1>3, <1>5 DEF EnvSet, Env, V, c

\* htaccess_apply_env_flags
LEMMA EnvFlagsType ==
    ASSUME NEW q, IsState(q), TypedState(q), NEW match \in Uri, NEW d \in Directives
    PROVE  LET e == ApplyEnvFlags(q, match, d)
           IN  /\ TypedState(e) /\ Extends(q.env, e.env)
               /\ e.uri = q.uri /\ e.query_string = q.query_string
  <1> DEFINE flags == d.env_vars
             n == Len(flags)
             a == q.env
             Set(env, e) ==
               LET value == Expand([q EXCEPT !.env = env], match, e.value)
               IN  IF e.colon /\ value.ok THEN EnvSet(env, e.name, value.out) ELSE env
             Is(c) == c = [k \in 0 .. n |-> IF k = 0 THEN a ELSE Set(c[k - 1], flags[k])]
             Envs == {c \in Env : Extends(a, c)}
             step == [k \in 1 .. n |-> [c \in Envs |-> Set(c, flags[k])]]
  <1>1. n \in Nat /\ \A k \in 1 .. n : flags[k] \in EnvFlag
    <2>1. flags \in Seq(EnvFlag)
      BY DEF Directives
    <2> QED
      BY <2>1
  <1>2. a \in Envs
    <2>1. a \in Env
      BY DEF TypedState
    <2>2. Extends(a, a)
      BY <2>1 DEF Env, Extends
    <2> QED
      BY <2>1, <2>2
  <1>3. ASSUME NEW c \in Envs, NEW e \in EnvFlag PROVE Set(c, e) \in Envs
    <2> DEFINE value == Expand([q EXCEPT !.env = c], match, e.value)
    <2>1. TypedState([q EXCEPT !.env = c])
      BY <1>3, TypedMember
    <2>2. e.value \in Seq(Piece) /\ e.name \in STRING
      BY <1>3 DEF EnvFlag
    <2>3. value.out \in Uri
      BY <2>1, <2>2, ExpandType
    <2> HIDE DEF value
    <2>4. EnvSet(c, e.name, value.out) \in Envs
      BY <1>2, <1>3, <2>2, <2>3, EnvSetExtends
    <2> QED
      BY <1>3, <2>4 DEF value
  <1> HIDE DEF Set
  <1>4. step \in Stepping(n, Envs)
    BY <1>1, <1>3 DEF Stepping
  <1>5. \A k \in 1 .. n, c \in Envs : step[k][c] = Set(c, flags[k])
    OBVIOUS
  <1> HIDE DEF step, n, a, Envs
  <1>6. PICK f : Follows(f, step, n, Envs, a)
    BY <1>1, <1>2, <1>4, Recursion
  <1>7. Is(f)
    <2>1. ASSUME NEW k \in 0 .. n
          PROVE  f[k] = IF k = 0 THEN a ELSE Set(f[k - 1], flags[k])
      <3>1. CASE k = 0
        BY <1>6, <3>1 DEF Follows
      <3>2. CASE k # 0
        <4>1. k \in 1 .. n /\ k - 1 \in 0 .. n
          BY <1>1, <3>2
        <4> QED
          BY <1>5, <1>6, <3>2, <4>1 DEF Follows
      <3> QED
        BY <3>1, <3>2
    <2> QED
      BY <1>6, <2>1 DEF Follows
  <1> DEFINE g == CHOOSE c : Is(c)
             last == g[n]
  <1>8. Is(g)
    BY <1>7
  <1>9. ApplyEnvFlags(q, match, d) = [q EXCEPT !.env = last]
    BY DEF ApplyEnvFlags, n, a, Set
  <1> HIDE DEF g
  <1>10. last \in Envs
    <2> DEFINE S == {k \in 0 .. n : g[k] \in Envs}
    <2>1. 0 \in S
      BY <1>1, <1>2, <1>8
    <2>2. ASSUME NEW k \in 1 .. n, k - 1 \in S PROVE k \in S
      <3>1. g[k - 1] \in Envs /\ flags[k] \in EnvFlag /\ k \in 0 .. n /\ k # 0
        BY <1>1, <2>2
      <3>2. g[k] = Set(g[k - 1], flags[k])
        BY <1>8, <3>1
      <3> QED
        BY <1>3, <3>1, <3>2
    <2>3. \A k \in 1 .. n : k - 1 \in S => k \in S
      BY <2>2
    <2> HIDE DEF S
    <2>4. 0 .. n \subseteq S
      BY <1>1, <2>1, <2>3, InductionUpTo
    <2> QED
      BY <1>1, <2>4 DEF S
  <1> HIDE DEF last
  <1>11. last \in Env /\ Extends(q.env, last)
    BY <1>10 DEF Envs, a
  <1> QED
    BY <1>9, <1>11, TypedMember

-----------------------------------------------------------------------------
(* Chains of rules. *)

\* What a rule that applies does leaves the rules that have applied alone.
LEMMA MatchedKeepsRules ==
    ASSUME NEW w, IsRound(w), NEW match, NEW dir, NEW d
    PROVE  /\ RuleMatched(w, match, dir, d).at = w.at
           /\ RuleMatched(w, match, dir, d).applied = w.applied
<1> DEFINE Kept(v) == v.at = w.at /\ v.applied = w.applied
           To(sub) ==
        LET out == Target(dir.rewrite_base, d, sub.out) IN
        CASE "dash" \in d.flags -> IF Final(d) THEN [w EXCEPT !.result = "declined"] ELSE w
          [] "dash" \notin d.flags /\ ~sub.ok -> [w EXCEPT !.result = "error"]
          [] "dash" \notin d.flags /\ sub.ok /\ "chain" \in d.flags /\ ~Final(d) -> w
          [] OTHER ->
               IF "redirect" \in d.flags
               THEN [w EXCEPT !.state.uri = out, !.code = RedirectCode(d), !.result = "redirect"]
               ELSE [ApplyTargetUri(w, out, "qsa" \in d.flags) EXCEPT
                        !.chain_active = FALSE, !.result = IF Final(d) THEN "ok" ELSE @]
           out(sub) == Target(dir.rewrite_base, d, sub.out)
<1>1. ASSUME NEW sub PROVE Kept(To(sub))
  <2>1. \A x : Kept([w EXCEPT !.result = x])
    BY DEF IsRound
  <2>2. \A x, y : Kept([w EXCEPT !.state.uri = x, !.code = y, !.result = "redirect"])
    BY DEF IsRound
  <2>3. ASSUME NEW v, NEW x, IsRound(v), Kept(v)
        PROVE  Kept([v EXCEPT !.chain_active = FALSE, !.result = x])
    BY <2>3 DEF IsRound
  <2>4. \A x, qsa : Kept(ApplyTargetUri(w, x, qsa))
    BY DEF IsRound, ApplyTargetUri
  <2>5. \A x, qsa : IsRound(ApplyTargetUri(w, x, qsa))
    BY TargetKeepsRound
  <2>6. CASE "dash" \in d.flags
    BY <2>1, <2>6
  <2>7. CASE "dash" \notin d.flags /\ ~sub.ok
    BY <2>1, <2>7
  <2>8. CASE "dash" \notin d.flags /\ sub.ok /\ "chain" \in d.flags /\ ~Final(d)
    BY <2>8
  <2>9. CASE "dash" \notin d.flags /\ sub.ok /\ ~("chain" \in d.flags /\ ~Final(d))
    BY <2>2, <2>3, <2>4, <2>5, <2>9
  <2> QED
    BY <2>6, <2>7, <2>8, <2>9
<1> DEFINE sub == Expand(w.state, match, d.substitution)
<1>2. RuleMatched(w, match, dir, d) = CHOOSE y \in {To(x) : x \in {sub}} : TRUE
  BY DEF RuleMatched, With
<1> HIDE DEF To, sub
<1>3. RuleMatched(w, match, dir, d) \in {To(x) : x \in {sub}}
  BY <1>2
<1> QED
  BY <1>1, <1>3

\* What each of a round's changes leaves as it was.
LEMMA RoundMembers ==
    ASSUME NEW w, IsRound(w), NEW x
    PROVE  /\ [w EXCEPT !.at = x].at = x /\ [w EXCEPT !.at = x].applied = w.applied
           /\ [w EXCEPT !.at = x].chain_active = w.chain_active
           /\ [w EXCEPT !.chain_active = x].at = w.at
           /\ [w EXCEPT !.chain_active = x].applied = w.applied
           /\ [w EXCEPT !.chain_active = x].chain_active = x
           /\ [w EXCEPT !.state = x].at = w.at /\ [w EXCEPT !.state = x].applied = w.applied
           /\ [w EXCEPT !.applied = x].at = w.at /\ [w EXCEPT !.applied = x].applied = x
BY DEF IsRound

\* A rule that applies is not in a chain, or the chain holds; one with flag C that does
\* not apply leaves no chain that holds.
LEMMA RoundOfChain ==
    ASSUME NEW w, IsRound(w), NEW dirs, NEW p
    PROVE  LET v == RewriteRule(w, dirs, p)
               ds == dirs[p[1]].directives
           IN  /\ v.at = p
               /\ \/ /\ v.applied = w.applied \cup {p}
                     /\ ChainIn(ds, p[2]) => w.chain_active
                  \/ /\ v.applied = w.applied
                     /\ "chain" \in ds[p[2]].flags => ~v.chain_active
<1> DEFINE dir == dirs[p[1]]
           d == dir.directives[p[2]]
           match == RelativeUri(w.state.uri, dir.url_prefix)
           applies == MatchConditions(d.conditions, w.state) /\ w.state.uri \in d.uris
           chained == [w EXCEPT !.at = p,
                                !.chain_active = IF "chain" \in d.flags THEN applies ELSE @]
           next == [chained EXCEPT !.state = ApplyEnvFlags(@, match, d), !.applied = @ \cup {p}]
           Applied(v) == RuleMatched(v, match, dir, d)
           chain_in == ChainIn(dir.directives, p[2])
<1>1. /\ IsRound(chained) /\ chained.at = p /\ chained.applied = w.applied
      /\ "chain" \in d.flags /\ ~applies => ~chained.chain_active
  <2> DEFINE at == [w EXCEPT !.at = p]
  <2>1. IsRound(at) /\ at.at = p /\ at.applied = w.applied
    BY OneMember, RoundMembers
  <2> HIDE DEF at
  <2>2. ASSUME NEW x
        PROVE  LET v == [at EXCEPT !.chain_active = x]
               IN  IsRound(v) /\ v.at = p /\ v.applied = w.applied /\ v.chain_active = x
    <3>1. IsRound([at EXCEPT !.chain_active = x])
      BY <2>1, OneMember
    <3> QED
      BY <2>1, <3>1, RoundMembers
  <2> QED
    BY <2>2 DEF at
<1>2. CASE chain_in /\ ~w.chain_active
  <2>1. RewriteRule(w, dirs, p) = [w EXCEPT !.at = p]
    BY <1>2 DEF RewriteRule
  <2> QED
    BY <1>2, <2>1 DEF IsRound
<1>3. CASE ~(chain_in /\ ~w.chain_active) /\ applies
  <2> HIDE DEF chained
  <2>1. IsState(ApplyEnvFlags(chained.state, match, d))
    BY <1>1, EnvKeepsState DEF IsRound
  <2>2. IsRound(next) /\ next.at = p /\ next.applied = w.applied \cup {p}
    <3> DEFINE u == [chained EXCEPT !.state = ApplyEnvFlags(@, match, d)]
    <3>1. IsRound(u) /\ u.at = p /\ u.applied = w.applied
      BY <1>1, <2>1, OneMember, RoundMembers
    <3> HIDE DEF u
    <3>2. LET v == [u EXCEPT !.applied = @ \cup {p}]
          IN  IsRound(v) /\ v.at = p /\ v.applied = w.applied \cup {p}
      <4>1. IsRound([u EXCEPT !.applied = @ \cup {p}])
        BY <3>1, OneMember
      <4> QED
        BY <3>1, <4>1, RoundMembers
    <3> QED
      BY <3>2 DEF u
  <2> HIDE DEF next
  <2>3. RewriteRule(w, dirs, p) \in {Applied(x) : x \in {next}}
    <3>1. (CHOOSE y \in {Applied(x) : x \in {next}} : TRUE) \in {Applied(x) : x \in {next}}
      OBVIOUS
    <3> QED
      BY <1>3, <3>1 DEF RewriteRule, With, next, chained
  <2>4. Applied(next).at = p /\ Applied(next).applied = w.applied \cup {p}
    BY <2>2, MatchedKeepsRules
  <2> QED
    BY <1>3, <2>3, <2>4
<1>4. CASE ~(chain_in /\ ~w.chain_active) /\ ~applies
  <2>1. RewriteRule(w, dirs, p) = chained
    BY <1>4 DEF RewriteRule
  <2> QED
    BY <1>1, <1>4, <2>1
<1> QED
  BY <1>2, <1>3, <1>4

\* The rule at place k of a list is the next one after the rule at j.
NextInList(ds, j, k) ==
    /\ j < k /\ ds[j].id = "RewriteRule"
    /\ \A m \in j + 1 .. k - 1 : ds[m].id # "RewriteRule"

\* No rule among those that have applied follows one with flag C that has not.
Chained(dirs, applied) ==
    \A i \in DOMAIN dirs : \A j, k \in DOMAIN dirs[i].directives :
        /\ NextInList(dirs[i].directives, j, k)
        /\ "chain" \in dirs[i].directives[j].flags
        /\ <<i, k>> \in applied
        => <<i, j>> \in applied

\* Between two rounds the walk is at the start or at a rule; and if that one has
\* flag C, chain_active says whether it has applied.
AtRule(dirs, w) ==
    /\ w.at = <<0, 0>> \/ w.at \in Rules(dirs)
    /\ \A i \in DOMAIN dirs : \A j \in DOMAIN dirs[i].directives :
          /\ w.at = <<i, j>> /\ w.chain_active /\ "chain" \in dirs[i].directives[j].flags
          => <<i, j>> \in w.applied

Lists(dirs) ==
    /\ DOMAIN dirs \subseteq Nat \ {0}
    /\ \A i \in DOMAIN dirs : DOMAIN dirs[i].directives \subseteq Nat \ {0}

LEMMA PlacesOfRules ==
    ASSUME NEW dirs, NEW p \in Rules(dirs)
    PROVE  /\ p = <<p[1], p[2]>> /\ p[1] \in DOMAIN dirs /\ p[2] \in DOMAIN dirs[p[1]].directives
           /\ dirs[p[1]].rewrite_engine
           /\ dirs[p[1]].directives[p[2]].id = "RewriteRule"
<1>1. PICK i \in DOMAIN dirs : p \in {i} \X DOMAIN dirs[i].directives
  BY DEF Rules, Places, At
<1>2. dirs[p[1]].rewrite_engine /\ dirs[p[1]].directives[p[2]].id = "RewriteRule"
  BY DEF Rules, Places, At
<1>3. p[1] = i /\ p[2] \in DOMAIN dirs[i].directives /\ p = <<p[1], p[2]>>
  BY <1>1
<1> QED
  BY <1>1, <1>2, <1>3

\* When the walk comes to a rule, it comes from the one before it in the directory,
\* if there is one there.
LEMMA ComesFromHead ==
    ASSUME NEW dirs, Lists(dirs), NEW at, at = <<0, 0>> \/ at \in Rules(dirs),
           NEW p \in NextRule(dirs, at),
           NEW j \in DOMAIN dirs[p[1]].directives,
           NextInList(dirs[p[1]].directives, j, p[2])
    PROVE  at = <<p[1], j>>
<1> DEFINE i == p[1]
           k == p[2]
           ds == dirs[i].directives
           h == <<i, j>>
<1>1. p \in Rules(dirs) /\ Before(at, p) /\ \A q \in Rules(dirs) : Before(at, q) => ~Before(q, p)
  BY DEF NextRule, Earliest
<1>2. p = <<i, k>> /\ i \in DOMAIN dirs /\ k \in DOMAIN ds /\ dirs[i].rewrite_engine
  BY <1>1, PlacesOfRules
<1>3. i \in Nat \ {0} /\ j \in Nat \ {0} /\ k \in Nat \ {0}
  BY <1>2 DEF Lists
<1>4. h \in Rules(dirs)
  <2>1. h \in {i} \X DOMAIN ds
    OBVIOUS
  <2>2. h \in UNION {{x} \X DOMAIN dirs[x].directives : x \in DOMAIN dirs}
    BY <1>2, <2>1
  <2>3. h[1] = i /\ h[2] = j /\ ds[j].id = "RewriteRule"
    BY DEF NextInList
  <2> QED
    BY <1>2, <2>2, <2>3 DEF Rules, Places, At
<1>5. ~Before(at, h)
  <2>1. Before(h, p)
    BY <1>3 DEF Before, NextInList
  <2> QED
    BY <1>1, <1>4, <2>1
<1>6. at[1] = i /\ at[2] \in Nat /\ j =< at[2] /\ at[2] < k /\ at = <<i, at[2]>>
  <2>1. CASE at = <<0, 0>>
    <3>1. Before(at, h)
      BY <1>3, <2>1 DEF Before
    <3> QED
      BY <1>5, <3>1
  <2>2. CASE at \in Rules(dirs)
    <3>1. /\ at = <<at[1], at[2]>> /\ at[1] \in DOMAIN dirs
          /\ at[2] \in DOMAIN dirs[at[1]].directives
      BY <2>2, PlacesOfRules
    <3>2. at[1] \in Nat /\ at[2] \in Nat
      BY <3>1 DEF Lists
    <3>3. /\ at[1] < i \/ (at[1] = i /\ at[2] < k)
          /\ ~(at[1] < i \/ (at[1] = i /\ at[2] < j))
      BY <1>1, <1>5 DEF Before
    <3>4. at[1] = i /\ at[2] < k /\ j =< at[2]
      BY <1>3, <3>2, <3>3
    <3> QED
      BY <3>1, <3>2, <3>4
  <2> QED
    BY <1>1, <2>1, <2>2
<1>7. at[2] = j
  <2>1. SUFFICES ASSUME at[2] # j PROVE FALSE
    OBVIOUS
  <2>2. at[2] \in j + 1 .. k - 1
    BY <1>3, <1>6, <2>1
  <2>3. at \in Rules(dirs)
    BY <1>3, <1>6
  <2>4. ds[at[2]].id = "RewriteRule"
    BY <1>6, <2>3, PlacesOfRules
  <2> QED
    BY <2>2, <2>4 DEF NextInList
<1> QED
  BY <1>6, <1>7

\* A round keeps all this.
LEMMA RoundKeepsChains ==
    ASSUME NEW dirs, Lists(dirs), NEW w, IsRound(w), AtRule(dirs, w), Chained(dirs, w.applied),
           NEW p \in NextRule(dirs, w.at)
    PROVE  LET v == RewriteRule(w, dirs, p)
           IN  AtRule(dirs, v) /\ Chained(dirs, v.applied)
<1> DEFINE v == RewriteRule(w, dirs, p)
           ds == dirs[p[1]].directives
<1>1. p \in Rules(dirs)
  BY DEF NextRule, Earliest
<1>2. /\ p = <<p[1], p[2]>> /\ p[1] \in DOMAIN dirs /\ p[2] \in DOMAIN ds
  BY <1>1, PlacesOfRules
<1>3. /\ v.at = p
      /\ \/ /\ v.applied = w.applied \cup {p}
            /\ ChainIn(ds, p[2]) => w.chain_active
         \/ /\ v.applied = w.applied
            /\ "chain" \in ds[p[2]].flags => ~v.chain_active
  BY RoundOfChain
<1> HIDE DEF v
<1>4. AtRule(dirs, v)
  <2>1. ASSUME NEW i \in DOMAIN dirs, NEW j \in DOMAIN dirs[i].directives,
               v.at = <<i, j>>, v.chain_active, "chain" \in dirs[i].directives[j].flags
        PROVE  <<i, j>> \in v.applied
    <3>1. i = p[1] /\ j = p[2]
      BY <1>2, <1>3, <2>1
    <3> QED
      BY <1>2, <1>3, <2>1, <3>1
  <2> QED
    BY <1>1, <1>3, <2>1 DEF AtRule
<1>5. Chained(dirs, v.applied)
  <2>1. SUFFICES ASSUME NEW i \in DOMAIN dirs,
                        NEW j \in DOMAIN dirs[i].directives, NEW k \in DOMAIN dirs[i].directives,
                        NextInList(dirs[i].directives, j, k),
                        "chain" \in dirs[i].directives[j].flags,
                        <<i, k>> \in v.applied
                 PROVE  <<i, j>> \in v.applied
    BY DEF Chained
  <2>2. CASE <<i, k>> \in w.applied
    <3>1. <<i, j>> \in w.applied
      BY <2>1, <2>2 DEF Chained
    <3> QED
      BY <1>3, <3>1
  <2>3. CASE <<i, k>> \notin w.applied
    <3>1. <<i, k>> = p /\ v.applied = w.applied \cup {p} /\ (ChainIn(ds, p[2]) => w.chain_active)
      BY <1>3, <2>1, <2>3
    <3>2. i = p[1] /\ k = p[2]
      BY <1>2, <3>1
    <3>3. j \in Nat \ {0} /\ k \in Nat \ {0}
      BY DEF Lists
    <3>4. j \in 1 .. k - 1
      BY <2>1, <3>3 DEF NextInList
    <3>5. ChainIn(ds, p[2])
      BY <2>1, <3>2, <3>4 DEF ChainIn, NextInList
    <3>6. w.at = <<i, j>>
      BY <2>1, <3>2, ComesFromHead DEF AtRule
    <3>7. <<i, j>> \in w.applied
      BY <2>1, <3>1, <3>5, <3>6 DEF AtRule
    <3> QED
      BY <3>1, <3>7
  <2> QED
    BY <2>2, <2>3
<1> QED
  BY <1>4, <1>5 DEF v

-----------------------------------------------------------------------------
(* What a round makes of the request's state. *)

\* The parts of a sequence are sequences.
LEMMA PartOf ==
    ASSUME NEW S, NEW s \in Seq(S), NEW i \in Nat \ {0}, NEW j \in Nat, j =< Len(s)
    PROVE  SubSeq(s, i, j) \in Seq(S)
  <1>1. \A k \in i .. j : s[k] \in S
    OBVIOUS
  <1> QED
    BY <1>1, SubSeqProperties

\* Where the walk is, which rules have applied and what comes of them are apart from
\* the request.
Same(v, w) == IsRound(v) /\ v.state = w.state /\ v.uri = w.uri

LEMMA RestOfRound ==
    ASSUME NEW w, IsRound(w), NEW x
    PROVE  /\ Same([w EXCEPT !.at = x], w) /\ Same([w EXCEPT !.chain_active = x], w)
           /\ Same([w EXCEPT !.code = x], w) /\ Same([w EXCEPT !.result = x], w)
           /\ [w EXCEPT !.state = x].uri = w.uri
  <1>1. /\ [w EXCEPT !.at = x].state = w.state /\ [w EXCEPT !.at = x].uri = w.uri
        /\ [w EXCEPT !.chain_active = x].state = w.state
        /\ [w EXCEPT !.chain_active = x].uri = w.uri
        /\ [w EXCEPT !.code = x].state = w.state /\ [w EXCEPT !.code = x].uri = w.uri
        /\ [w EXCEPT !.result = x].state = w.state /\ [w EXCEPT !.result = x].uri = w.uri
        /\ [w EXCEPT !.state = x].uri = w.uri
    BY DEF IsRound
  <1>2. /\ IsRound([w EXCEPT !.at = x]) /\ IsRound([w EXCEPT !.chain_active = x])
        /\ IsRound([w EXCEPT !.code = x]) /\ IsRound([w EXCEPT !.result = x])
    BY OneMember
  <1> QED
    BY <1>1, <1>2 DEF Same

LEMMA RestOfTwo ==
    ASSUME NEW w, IsRound(w), NEW x, NEW y
    PROVE  /\ Same([w EXCEPT !.at = x, !.chain_active = y], w)
           /\ Same([w EXCEPT !.chain_active = x, !.result = y], w)
           /\ Same([w EXCEPT !.code = x, !.result = y], w)
  <1>1. PICK a, b, c : /\ a = [w EXCEPT !.at = x] /\ b = [w EXCEPT !.chain_active = x]
                       /\ c = [w EXCEPT !.code = x]
    OBVIOUS
  <1>2. Same(a, w) /\ Same(b, w) /\ Same(c, w)
    BY <1>1, RestOfRound
  <1>3. IsRound(a) /\ IsRound(b) /\ IsRound(c)
    BY <1>2 DEF Same
  <1>4. /\ Same([a EXCEPT !.chain_active = y], a) /\ Same([b EXCEPT !.result = y], b)
        /\ Same([c EXCEPT !.result = y], c)
    BY <1>3, RestOfRound
  <1>5. \A u, v : Same(u, v) /\ Same(v, w) => Same(u, w)
    BY DEF Same
  <1>6. /\ Same([a EXCEPT !.chain_active = y], w) /\ Same([b EXCEPT !.result = y], w)
        /\ Same([c EXCEPT !.result = y], w)
    BY <1>2, <1>4, <1>5
  <1> QED
    BY <1>1, <1>6

LEMMA TargetType ==
    ASSUME NEW base \in Uri, NEW d, NEW out \in Uri
    PROVE  Target(base, d, out) \in Uri
  <1>1. base \o out \in Uri
    BY DEF Uri
  <1> QED
    BY <1>1 DEF Target

\* htaccess_apply_target_uri; with QSA the query string ends in the one before.
LEMMA TargetUriType ==
    ASSUME NEW w, TypedRound(w), NEW out \in Uri, NEW qsa
    PROVE  LET v == ApplyTargetUri(w, out, qsa)
           IN  /\ TypedRound(v) /\ v.state.env = w.state.env
               /\ qsa => EndsIn(v.state.query_string, w.state.query_string)
  <1> DEFINE I == {i \in 1 .. Len(out) : out[i] = "?"}
             mark == SelectInSeq(out, LAMBDA word : word = "?")
             uri == IF mark = 0 THEN out ELSE SubSeq(out, 1, mark - 1)
             own == IF mark = 0 THEN <<>> ELSE SubSeq(out, mark + 1, Len(out))
             args == TargetArgs(own, w.state.query_string, qsa)
  <1>1. Len(out) \in Nat /\ out \in Seq(STRING) /\ w.state.query_string \in Uri
    BY DEF Uri, TypedRound, TypedState
  <1>2. mark \in 0 .. Len(out)
    <2>1. mark = IF I = {} THEN 0 ELSE CHOOSE x \in I : \A y \in I : x =< y
      BY DEF SelectInSeq, Min
    <2> HIDE DEF mark
    <2>2. I \in SUBSET (1 .. Len(out))
      OBVIOUS
    <2> HIDE DEF I
    <2>3. I # {} => (CHOOSE x \in I : \A y \in I : x =< y) \in 1 .. Len(out)
      BY <1>1, <2>2, FirstPlace
    <2>4. CASE I = {}
      BY <1>1, <2>1, <2>4
    <2>5. CASE I # {}
      <3>1. mark \in 1 .. Len(out)
        BY <2>1, <2>3, <2>5
      <3> QED
        BY <1>1, <3>1
    <2> QED
      BY <2>4, <2>5
  <1>3. ApplyTargetUri(w, out, qsa)
          = [w EXCEPT !.uri = uri, !.state.uri = uri, !.state.query_string = args]
    BY DEF ApplyTargetUri
  <1> HIDE DEF mark
  <1>4. uri \in Uri /\ own \in Uri
    <2>1. CASE mark = 0
      BY <2>1 DEF Uri
    <2>2. CASE mark # 0
      <3>1. mark - 1 \in Nat /\ mark - 1 =< Len(out) /\ mark + 1 \in Nat \ {0}
        BY <1>1, <1>2, <2>2
      <3> QED
        BY <1>1, <2>2, <3>1, PartOf DEF Uri
    <2> QED
      BY <2>1, <2>2
  <1> HIDE DEF own, uri
  <1>5. args \in Uri /\ (qsa => EndsIn(args, w.state.query_string))
    <2>1. own \o w.state.query_string \in Uri
      BY <1>1, <1>4 DEF Uri
    <2>2. EndsIn(own \o w.state.query_string, w.state.query_string)
      BY <1>4 DEF EndsIn
    <2> QED
      BY <1>4, <2>1, <2>2 DEF TargetArgs
  <1> HIDE DEF args
  <1> DEFINE q == [w.state EXCEPT !.uri = uri]
             u == [q EXCEPT !.query_string = args]
             v == ApplyTargetUri(w, out, qsa)
  <1>6. IsState(q) /\ TypedState(q) /\ q.env = w.state.env
    BY <1>4, OneMember, TypedMember DEF TypedRound, IsRound
  <1>7. TypedState(u) /\ u.env = w.state.env /\ u.query_string = args
    <2> HIDE DEF q
    <2> QED
      BY <1>5, <1>6, TypedMember
  <1>8. v.state = u /\ v.uri = uri
    <2> HIDE DEF args
    <2>1. w = [at |-> w.at, chain_active |-> w.chain_active, applied |-> w.applied, uri |-> w.uri,
               state |-> w.state, code |-> w.code, result |-> w.result]
      BY DEF TypedRound, IsRound
    <2>2. w.state = [uri |-> w.state.uri, filename |-> w.state.filename,
                     query_string |-> w.state.query_string, env |-> w.state.env,
                     headers |-> w.state.headers, server |-> w.state.server]
      BY DEF TypedRound, IsRound, IsState
    <2> QED
      BY <1>3, <2>1, <2>2
  <1>9. IsRound(v)
    BY TargetKeepsRound DEF TypedRound
  <1> HIDE DEF u, v
  <1> QED
    BY <1>4, <1>5, <1>7, <1>8, <1>9 DEF TypedRound, v

\* A rule that applies, when its variables are set.
LEMMA MatchedType ==
    ASSUME NEW D \in SUBSET Directives, NEW dir \in Dirs(D), NEW d \in D, NEW match \in Uri,
           NEW w, TypedRound(w)
    PROVE  LET v == RuleMatched(w, match, dir, d)
           IN  /\ TypedRound(v) /\ v.state.env = w.state.env
               /\ {"dash", "qsa"} \cap d.flags # {}
                    => EndsIn(v.state.query_string, w.state.query_string)
  <1> DEFINE To(sub) ==
        LET out == Target(dir.rewrite_base, d, sub.out) IN
        CASE "dash" \in d.flags -> IF Final(d) THEN [w EXCEPT !.result = "declined"] ELSE w
          [] "dash" \notin d.flags /\ ~sub.ok -> [w EXCEPT !.result = "error"]
          [] "dash" \notin d.flags /\ sub.ok /\ "chain" \in d.flags /\ ~Final(d) -> w
          [] OTHER ->
               IF "redirect" \in d.flags
               THEN [w EXCEPT !.state.uri = out, !.code = RedirectCode(d), !.result = "redirect"]
               ELSE [ApplyTargetUri(w, out, "qsa" \in d.flags) EXCEPT
                        !.chain_active = FALSE, !.result = IF Final(d) THEN "ok" ELSE @]
             sub == Expand(w.state, match, d.substitution)
             out == Target(dir.rewrite_base, d, sub.out)
             qsa == "qsa" \in d.flags
             Fine(v) == /\ TypedRound(v) /\ v.state.env = w.state.env
                        /\ {"dash", "qsa"} \cap d.flags # {}
                             => EndsIn(v.state.query_string, w.state.query_string)
  <1>1. RuleMatched(w, match, dir, d) \in {To(x) : x \in {sub}}
    <2>1. RuleMatched(w, match, dir, d) = CHOOSE y \in {To(x) : x \in {sub}} : TRUE
      BY DEF RuleMatched, With
    <2> HIDE DEF To, sub
    <2> QED
      BY <2>1
  <1>2. IsRound(w) /\ IsState(w.state) /\ TypedState(w.state) /\ w.uri \in Uri
        /\ w.state.query_string \in Uri
    BY DEF TypedRound, IsRound, TypedState
  <1>3. out \in Uri
    <2>1. d.substitution \in Seq(Piece) /\ dir.rewrite_base \in Uri
      BY DEF Directives, Dirs
    <2>2. sub.out \in Uri
      BY <1>2, <2>1, ExpandType
    <2> HIDE DEF sub
    <2> QED
      BY <2>1, <2>2, TargetType
  <1>4. Fine(w) /\ \A x : Fine([w EXCEPT !.result = x])
    <2>1. EndsIn(w.state.query_string, w.state.query_string)
      BY <1>2, NothingBefore
    <2>2. ASSUME NEW x PROVE Fine([w EXCEPT !.result = x])
      <3> DEFINE v == [w EXCEPT !.result = x]
      <3>1. IsRound(v) /\ v.state = w.state /\ v.uri = w.uri
        BY <1>2, RestOfRound DEF Same
      <3> HIDE DEF v
      <3> QED
        BY <1>2, <2>1, <3>1 DEF TypedRound, v
    <2> QED
      BY <1>2, <2>1, <2>2 DEF TypedRound
  <1>5. \A y : Fine([w EXCEPT !.state.uri = out, !.code = y, !.result = "redirect"])
    <2> HIDE DEF out
    <2> DEFINE q == [w.state EXCEPT !.uri = out]
    <2>1. TypedState(q) /\ IsState(q) /\ q.env = w.state.env
          /\ q.query_string = w.state.query_string
      BY <1>2, <1>3, OneMember, TypedMember
    <2>2. EndsIn(w.state.query_string, w.state.query_string)
      BY <1>2, NothingBefore
    <2> HIDE DEF q
    <2>3. ASSUME NEW y
          PROVE  Fine([w EXCEPT !.state = q, !.code = y, !.result = "redirect"])
      <3> DEFINE u == [w EXCEPT !.state = q]
                 v == [u EXCEPT !.code = y, !.result = "redirect"]
      <3>0. IsRound(u) /\ u.state = q /\ u.uri = w.uri
        BY <1>2, <2>1, OneMember, RestOfRound
      <3> HIDE DEF u
      <3>1. IsRound(v) /\ v.state = q /\ v.uri = w.uri
        <4>1. Same([u EXCEPT !.code = y, !.result = "redirect"], u)
          BY <3>0, RestOfTwo
        <4> QED
          BY <3>0, <4>1 DEF Same
      <3> HIDE DEF v
      <3> QED
        BY <1>2, <2>1, <2>2, <3>1 DEF TypedRound, u, v
    <2> HIDE DEF Fine
    <2> QED
      BY <2>3 DEF q
  <1>6. ASSUME "dash" \notin d.flags
        PROVE  \A x : Fine([ApplyTargetUri(w, out, qsa) EXCEPT !.chain_active = FALSE, !.result = x])
    <2> HIDE DEF out
    <2> DEFINE t == ApplyTargetUri(w, out, qsa)
    <2>1. /\ TypedRound(t) /\ t.state.env = w.state.env
          /\ qsa => EndsIn(t.state.query_string, w.state.query_string)
      BY <1>3, TargetUriType
    <2> HIDE DEF t
    <2>2. ASSUME NEW x PROVE Fine([t EXCEPT !.chain_active = FALSE, !.result = x])
      <3> DEFINE v == [t EXCEPT !.chain_active = FALSE, !.result = x]
      <3>1. IsRound(v) /\ v.state = t.state /\ v.uri = t.uri
        <4>1. IsRound(t)
          BY <2>1 DEF TypedRound
        <4>2. Same([t EXCEPT !.chain_active = FALSE, !.result = x], t)
          BY <4>1, RestOfTwo
        <4> QED
          BY <4>2 DEF Same
      <3> HIDE DEF v
      <3>2. {"dash", "qsa"} \cap d.flags # {} => qsa
        BY <1>6
      <3> QED
        BY <2>1, <3>1, <3>2 DEF TypedRound, v
    <2> HIDE DEF Fine
    <2> QED
      BY <2>2 DEF t
  <1> HIDE DEF Fine, out
  <1>7. Fine(To(sub))
    <2>1. CASE "dash" \in d.flags
      BY <1>4, <2>1
    <2>2. CASE "dash" \notin d.flags /\ ~sub.ok
      BY <1>4, <2>2
    <2>3. CASE "dash" \notin d.flags /\ sub.ok /\ "chain" \in d.flags /\ ~Final(d)
      BY <1>4, <2>3
    <2>4. CASE "dash" \notin d.flags /\ sub.ok /\ ~("chain" \in d.flags /\ ~Final(d))
      BY <1>5, <1>6, <2>4 DEF out
    <2> QED
      BY <2>1, <2>2, <2>3, <2>4
  <1> HIDE DEF To, sub
  <1>8. Fine(RuleMatched(w, match, dir, d))
    BY <1>1, <1>7
  <1> QED
    BY <1>8 DEF Fine

LEMMA RelativeType ==
    ASSUME NEW uri \in Uri, NEW prefix \in Uri
    PROVE  RelativeUri(uri, prefix) \in Uri
  <1>1. uri \in Seq(STRING) /\ Len(uri) \in Nat /\ Len(prefix) \in Nat
    BY DEF Uri
  <1>2. Len(prefix) + 1 \in Nat \ {0}
    BY <1>1
  <1> QED
    <2>1. CASE Len(uri) <= Len(prefix)
      BY <2>1 DEF RelativeUri
    <2>2. CASE ~(Len(uri) <= Len(prefix))
      <3>1. SubSeq(uri, Len(prefix) + 1, Len(uri)) \in Seq(STRING)
        BY <1>1, <1>2, PartOf
      <3> QED
        BY <2>2, <3>1 DEF RelativeUri, Uri
    <2> QED
      BY <2>1, <2>2

\* Only a rule with neither QSA nor a dash drops the query string that there was.
Keeps(D) == \A d \in D : d.id = "RewriteRule" => {"dash", "qsa"} \cap d.flags # {}

\* One round of the rules.
LEMMA RoundType ==
    ASSUME NEW D \in SUBSET Directives, NEW dirs \in Seq(Dirs(D)), NEW p \in Rules(dirs),
           NEW w, TypedRound(w)
    PROVE  LET v == RewriteRule(w, dirs, p)
           IN  /\ TypedRound(v) /\ Extends(w.state.env, v.state.env)
               /\ Keeps(D) => EndsIn(v.state.query_string, w.state.query_string)
  <1> DEFINE dir == dirs[p[1]]
             d == dir.directives[p[2]]
             match == RelativeUri(w.state.uri, dir.url_prefix)
             applies == MatchConditions(d.conditions, w.state) /\ w.state.uri \in d.uris
             chained == [w EXCEPT !.at = p,
                                  !.chain_active = IF "chain" \in d.flags THEN applies ELSE @]
             next == [chained EXCEPT !.state = ApplyEnvFlags(@, match, d), !.applied = @ \cup {p}]
             Applied(v) == RuleMatched(v, match, dir, d)
             chain_in == ChainIn(dir.directives, p[2])
             Fine(v) == /\ TypedRound(v) /\ Extends(w.state.env, v.state.env)
                        /\ Keeps(D) => EndsIn(v.state.query_string, w.state.query_string)
  <1>1. dir \in Dirs(D) /\ d \in D /\ d \in Directives /\ d.id = "RewriteRule"
    <2>1. p[1] \in DOMAIN dirs /\ p[2] \in DOMAIN dirs[p[1]].directives
          /\ dirs[p[1]].directives[p[2]].id = "RewriteRule"
      BY PlacesOfRules
    <2>2. dir \in Dirs(D)
      BY <2>1, ElementOf
    <2> HIDE DEF dir
    <2>3. dir.directives \in Seq(D) /\ p[2] \in DOMAIN dir.directives
      BY <2>1, <2>2 DEF Dirs, dir
    <2>4. d \in D
      BY <2>3, ElementOf
    <2> QED
      BY <2>1, <2>2, <2>4 DEF dir
  <1>2. /\ IsRound(w) /\ IsState(w.state) /\ TypedState(w.state) /\ w.uri \in Uri
        /\ w.state.query_string \in Uri /\ w.state.uri \in Uri /\ w.state.env \in Env
    BY DEF TypedRound, IsRound, TypedState
  <1>3. match \in Uri
    <2>1. dir.url_prefix \in Uri
      BY <1>1 DEF Dirs
    <2> QED
      BY <1>2, <2>1, RelativeType
  <1> HIDE DEF dir, d, match, applies
  <1>4. \A v : IsRound(v) /\ v.state = w.state /\ v.uri = w.uri => Fine(v)
    <2>1. EndsIn(w.state.query_string, w.state.query_string)
      BY <1>2, NothingBefore
    <2>2. Extends(w.state.env, w.state.env)
      BY <1>2 DEF Env, Extends
    <2> QED
      BY <1>2, <2>1, <2>2 DEF TypedRound
  <1>5. Fine([w EXCEPT !.at = p])
    <2> DEFINE v == [w EXCEPT !.at = p]
    <2>1. IsRound(v) /\ v.state = w.state /\ v.uri = w.uri
      BY <1>2, RestOfRound DEF Same
    <2> QED
      BY <1>4, <2>1
  <1>6. IsRound(chained) /\ chained.state = w.state /\ chained.uri = w.uri
    <2>1. \A x : Same([w EXCEPT !.at = p, !.chain_active = x], w)
      BY <1>2, RestOfTwo
    <2>2. Same(chained, w)
      BY <2>1
    <2> QED
      BY <2>2 DEF Same
  <1>7. Fine(chained)
    BY <1>4, <1>6
  <1> HIDE DEF chained
  <1> DEFINE e == ApplyEnvFlags(w.state, match, d)
  <1>8. /\ TypedState(e) /\ IsState(e) /\ Extends(w.state.env, e.env)
        /\ e.query_string = w.state.query_string
    BY <1>1, <1>2, <1>3, EnvFlagsType, EnvKeepsState
  <1>9. TypedRound(next) /\ next.state = e
    <2>1. IsRound([chained EXCEPT !.state = e])
      BY <1>6, <1>8, OneMember
    <2>2. next = [chained EXCEPT !.state = e, !.applied = @ \cup {p}]
      BY <1>6
    <2> HIDE DEF e, next
    <2>3. next.state = e /\ next.uri = w.uri
      BY <1>6, <2>2 DEF IsRound
    <2>4. IsRound(next)
      BY <1>6, <1>8, <2>2 DEF IsRound
    <2> QED
      BY <1>2, <1>8, <2>3, <2>4 DEF TypedRound
  <1> HIDE DEF e, next
  <1>10. Fine(Applied(next))
    <2>1. LET v == Applied(next)
          IN  /\ TypedRound(v) /\ v.state.env = next.state.env
              /\ {"dash", "qsa"} \cap d.flags # {}
                   => EndsIn(v.state.query_string, next.state.query_string)
      BY <1>1, <1>3, <1>9, MatchedType
    <2>2. Keeps(D) => {"dash", "qsa"} \cap d.flags # {}
      BY <1>1 DEF Keeps
    <2> HIDE DEF Applied
    <2> QED
      BY <1>8, <1>9, <2>1, <2>2
  <1> HIDE DEF Fine
  <1>11. ASSUME ~(chain_in /\ ~w.chain_active)
         PROVE  RewriteRule(w, dirs, p) \in {Applied(x) : x \in {next}} \cup {chained}
    <2>1. (CHOOSE y \in {Applied(x) : x \in {next}} : TRUE) \in {Applied(x) : x \in {next}}
      OBVIOUS
    <2> QED
      BY <1>11, <2>1 DEF RewriteRule, With, next, chained, applies, match, d, dir
  <1>12. ASSUME chain_in /\ ~w.chain_active
         PROVE  RewriteRule(w, dirs, p) = [w EXCEPT !.at = p]
    BY <1>12 DEF RewriteRule, dir
  <1>13. Fine(RewriteRule(w, dirs, p))
    BY <1>5, <1>7, <1>10, <1>11, <1>12
  <1> QED
    BY <1>13 DEF Fine

-----------------------------------------------------------------------------
(* What a round may decide is what the flags of its rule say. *)

\* v is what the rule d has made of a round for uri.
AsTold(v, uri, d) ==
    /\ v.result = "none" /\ v.uri # uri =>
          {"dash", "redirect", "chain"} \cap d.flags = {} /\ ~Final(d)
    /\ v.result = "ok" => {"dash", "redirect"} \cap d.flags = {} /\ Final(d)
    /\ v.result = "redirect" =>
          "redirect" \in d.flags /\ "dash" \notin d.flags /\ v.code = RedirectCode(d)

LEMMA MatchedAsTold ==
    ASSUME NEW w, IsRound(w), w.result = "none", NEW match, NEW dir, NEW d
    PROVE  AsTold(RuleMatched(w, match, dir, d), w.uri, d)
<1> DEFINE To(sub) ==
        LET out == Target(dir.rewrite_base, d, sub.out) IN
        CASE "dash" \in d.flags -> IF Final(d) THEN [w EXCEPT !.result = "declined"] ELSE w
          [] "dash" \notin d.flags /\ ~sub.ok -> [w EXCEPT !.result = "error"]
          [] "dash" \notin d.flags /\ sub.ok /\ "chain" \in d.flags /\ ~Final(d) -> w
          [] OTHER ->
               IF "redirect" \in d.flags
               THEN [w EXCEPT !.state.uri = out, !.code = RedirectCode(d), !.result = "redirect"]
               ELSE [ApplyTargetUri(w, out, "qsa" \in d.flags) EXCEPT
                        !.chain_active = FALSE, !.result = IF Final(d) THEN "ok" ELSE @]
           out(sub) == Target(dir.rewrite_base, d, sub.out)
<1>1. ASSUME NEW sub PROVE AsTold(To(sub), w.uri, d)
  <2>1. AsTold(w, w.uri, d) /\ \A x \in {"declined", "error"} : AsTold([w EXCEPT !.result = x], w.uri, d)
    BY DEF IsRound, AsTold
  <2>2. CASE "dash" \in d.flags
    BY <2>1, <2>2
  <2>3. CASE "dash" \notin d.flags /\ ~sub.ok
    BY <2>1, <2>3
  <2>4. CASE "dash" \notin d.flags /\ sub.ok /\ "chain" \in d.flags /\ ~Final(d)
    BY <2>1, <2>4
  <2>5. CASE /\ "dash" \notin d.flags /\ sub.ok /\ ~("chain" \in d.flags /\ ~Final(d))
             /\ "redirect" \in d.flags
    <3> DEFINE v == [w EXCEPT !.state.uri = out(sub), !.code = RedirectCode(d), !.result = "redirect"]
    <3>1. v.result = "redirect" /\ v.code = RedirectCode(d)
      BY DEF IsRound
    <3>2. To(sub) = v
      BY <2>5
    <3> HIDE DEF v, To
    <3> QED
      BY <2>5, <3>1, <3>2 DEF AsTold
  <2>6. CASE /\ "dash" \notin d.flags /\ sub.ok /\ ~("chain" \in d.flags /\ ~Final(d))
             /\ "redirect" \notin d.flags
    <3> DEFINE u == ApplyTargetUri(w, out(sub), "qsa" \in d.flags)
               v == [u EXCEPT !.chain_active = FALSE, !.result = IF Final(d) THEN "ok" ELSE @]
    <3>1. IsRound(u) /\ u.result = "none"
      <4>1. IsRound(u)
        BY TargetKeepsRound
      <4>2. u.result = "none"
        BY DEF IsRound, ApplyTargetUri
      <4> QED
        BY <4>1, <4>2
    <3>2. To(sub) = v
      BY <2>6
    <3> HIDE DEF u
    <3>3. v.result = IF Final(d) THEN "ok" ELSE "none"
      BY <3>1 DEF IsRound
    <3> HIDE DEF v, To
    <3> QED
      BY <2>6, <3>2, <3>3 DEF AsTold
  <2> QED
    BY <2>2, <2>3, <2>4, <2>5, <2>6
<1> DEFINE sub == Expand(w.state, match, d.substitution)
<1>2. RuleMatched(w, match, dir, d) = CHOOSE y \in {To(x) : x \in {sub}} : TRUE
  BY DEF RuleMatched, With
<1> HIDE DEF To, sub
<1>3. RuleMatched(w, match, dir, d) \in {To(x) : x \in {sub}}
  BY <1>2
<1> QED
  BY <1>1, <1>3

\* A round replaces the URI, ends the loop or redirects only as its rule's flags say,
\* whether the rule applied or not.
LEMMA RoundAsTold ==
    ASSUME NEW w, IsRound(w), w.result = "none", NEW dirs, NEW p
    PROVE  AsTold(RewriteRule(w, dirs, p), w.uri, At(dirs, p))
<1> DEFINE dir == dirs[p[1]]
           d == dir.directives[p[2]]
           match == RelativeUri(w.state.uri, dir.url_prefix)
           applies == MatchConditions(d.conditions, w.state) /\ w.state.uri \in d.uris
           chained == [w EXCEPT !.at = p,
                                !.chain_active = IF "chain" \in d.flags THEN applies ELSE @]
           next == [chained EXCEPT !.state = ApplyEnvFlags(@, match, d), !.applied = @ \cup {p}]
           Applied(v) == RuleMatched(v, match, dir, d)
           chain_in == ChainIn(dir.directives, p[2])
           Quiet(v) == v.result = "none" /\ v.uri = w.uri
<1>0. At(dirs, p) = d
  BY DEF At
<1>1. \A v : Quiet(v) => AsTold(v, w.uri, d)
  BY DEF AsTold
<1>2. IsRound([w EXCEPT !.at = p]) /\ Quiet([w EXCEPT !.at = p])
  <2>1. Quiet([w EXCEPT !.at = p])
    BY DEF IsRound
  <2> QED
    BY <2>1, OneMember
<1>3. IsRound(chained) /\ Quiet(chained)
  <2>1. Quiet(chained)
    BY DEF IsRound
  <2>2. IsRound(chained)
    BY <1>2, OneMember
  <2> QED
    BY <2>1, <2>2
<1>4. CASE chain_in /\ ~w.chain_active
  <2>1. RewriteRule(w, dirs, p) = [w EXCEPT !.at = p]
    BY <1>4 DEF RewriteRule
  <2> QED
    BY <1>0, <1>1, <1>2, <2>1
<1>5. CASE ~(chain_in /\ ~w.chain_active) /\ applies
  <2> HIDE DEF chained
  <2>1. IsState(ApplyEnvFlags(chained.state, match, d))
    BY <1>3, EnvKeepsState DEF IsRound
  <2>2. IsRound(next) /\ Quiet(next)
    <3>1. Quiet(next)
      BY <1>3 DEF IsRound
    <3>2. IsRound(next)
      BY <1>3, <2>1, OneMember
    <3> QED
      BY <3>1, <3>2
  <2> HIDE DEF next
  <2>3. RewriteRule(w, dirs, p) \in {Applied(x) : x \in {next}}
    <3>1. (CHOOSE y \in {Applied(x) : x \in {next}} : TRUE) \in {Applied(x) : x \in {next}}
      OBVIOUS
    <3> QED
      BY <1>5, <3>1 DEF RewriteRule, With, next, chained
  <2>4. AsTold(Applied(next), w.uri, d)
    BY <2>2, MatchedAsTold
  <2> QED
    BY <1>0, <2>3, <2>4
<1>6. CASE ~(chain_in /\ ~w.chain_active) /\ ~applies
  <2>1. RewriteRule(w, dirs, p) = chained
    BY <1>6 DEF RewriteRule
  <2> QED
    BY <1>0, <1>1, <1>3, <2>1
<1> QED
  BY <1>4, <1>5, <1>6

=============================================================================
