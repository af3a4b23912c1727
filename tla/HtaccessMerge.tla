----------------------------- MODULE HtaccessMerge -----------------------------
(***************************************************************************)
(* How the directives of a request's .htaccess files become one context    *)
(* (htaccess_merge_parsed in htaccess_walk.c; the types are those of       *)
(* htaccess_directives.h).  A directory is a proper prefix of a URI.       *)
(***************************************************************************)
EXTENDS HtaccessDirective

NoMerged ==
    [dirs            |-> <<>>,
     auth_type       |-> Empty,
     auth_name       |-> Empty,
     auth_user_file  |-> Empty,
     requires        |-> <<>>,
     order           |-> Empty,
     allows          |-> <<>>,
     denies          |-> <<>>,
     headers         |-> <<>>,
     expires_active  |-> FALSE,
     expires_by_type |-> <<>>,
     error_documents |-> <<>>,
     options         |-> FALSE,
     files_rules     |-> <<>>]

\* htaccess_dir_ctx_t; the RewriteBase of every directory is / at first.
NewDir(prefix) ==
    [url_prefix |-> prefix, rewrite_engine |-> FALSE, rewrite_base |-> <<>>, directives |-> <<>>]

\* A Require inside <FilesMatch> becomes a rule on files, which only ever denies.
FilesRule(d) == [uris |-> d.uris, deny |-> Begins(d.str, "all denied", 10)]

\* htaccess_merge_directive on c = [merged, dir]: the last of several values
\* stands, lists grow, and the rules that rewrite or redirect stay with their
\* directory.  Only Require looks at the <FilesMatch> around it.  DirectoryIndex
\* and ExpiresDefault are kept by the code and read by nothing.
MergeDirective(c, d) ==
    CASE d.id = "RewriteEngine"   -> [c EXCEPT !.dir.rewrite_engine = d.flag]
      [] d.id = "RewriteBase"     -> [c EXCEPT !.dir.rewrite_base = d.to]
      [] d.id = "RewriteRule"     -> [c EXCEPT !.dir.directives = Append(@, d)]
      [] d.id \in AliasIds        -> [c EXCEPT !.dir.directives = Append(@, d)]
      [] d.id = "AuthType"        -> [c EXCEPT !.merged.auth_type = d.str]
      [] d.id = "AuthName"        -> [c EXCEPT !.merged.auth_name = d.str]
      [] d.id = "AuthUserFile"    -> [c EXCEPT !.merged.auth_user_file = d.str]
      [] d.id = "Require" /\ d.inFiles
                                  -> [c EXCEPT !.merged.files_rules = Append(@, FilesRule(d))]
      [] d.id = "Require" /\ ~d.inFiles
                                  -> [c EXCEPT !.merged.requires = Append(@, d.str)]
      [] d.id = "Order"           -> [c EXCEPT !.merged.order = d.str]
      [] d.id = "Allow"           -> [c EXCEPT !.merged.allows = Append(@, d.str)]
      [] d.id = "Deny"            -> [c EXCEPT !.merged.denies = Append(@, d.str)]
      [] d.id = "Header"          -> [c EXCEPT !.merged.headers =
                                        Append(@, [action |-> d.str, name |-> d.name])]
      [] d.id = "ExpiresActive"   -> [c EXCEPT !.merged.expires_active = d.flag]
      [] d.id = "ExpiresByType"   -> [c EXCEPT !.merged.expires_by_type = Append(@, d.name)]
      [] d.id = "ErrorDocument"   -> [c EXCEPT !.merged.error_documents =
                                        Append(@, [code |-> d.code, uri |-> d.to])]
      [] d.id = "Options"         -> [c EXCEPT !.merged.options = @ \/ d.flag]
      [] OTHER                    -> c

\* A file's directives are merged in their order, under a directory of its own.
MergeParsed(merged, prefix, directives) ==
    LET c[k \in 0 .. Len(directives)] ==
          IF k = 0 THEN [merged |-> merged, dir |-> NewDir(prefix)]
                   ELSE MergeDirective(c[k - 1], directives[k])
        all == c[Len(directives)]
    IN  [all.merged EXCEPT !.dirs = Append(@, all.dir)]

\* The directories of a URI, the root first: it ends one at every further slash.
Chain(uri) == [k \in 1 .. Len(uri) |-> SubSeq(uri, 1, k - 1)]

=============================================================================
