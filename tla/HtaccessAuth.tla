----------------------------- MODULE HtaccessAuth -----------------------------
(***************************************************************************)
(* Who may have a URI (htaccess_auth.c), as a function of the merged       *)
(* context, the URI and the credentials that the client sent.              *)
(***************************************************************************)
EXTENDS HtaccessMerge

CONSTANTS
    Logins,    \* what headers_in.user and headers_in.passwd may hold
    NoLogin,   \* none sent
    Passwords  \* Passwords[f]: the credentials that the file named f accepts

ASSUME LoginsAssumption == NoLogin \notin Logins

\* htaccess_files_deny, htaccess_apply_files_deny
FilesDeny(merged, uri) ==
    \E rule \in ToSet(merged.files_rules) : rule.deny /\ uri \in rule.uris

\* htaccess_check_htpasswd: a file that cannot be opened accepts nobody.
CheckHtpasswd(file, login) ==
    file.data \in DOMAIN Passwords /\ login \in Passwords[file.data]

ValidUser(merged, login) ==
    login # NoLogin /\ merged.auth_user_file.len > 0
      /\ CheckHtpasswd(merged.auth_user_file, login)

\* "valid-user" has ten letters; the code asks for eleven before it compares.
Decisive(q) ==
    Begins(q, "all granted", 11) \/ Begins(q, "all denied", 10) \/ Begins(q, "valid-user", 11)

All(s) == s = Str("all", 3)

\* Seeded fault: the loop does not return at a Require that decides.
LastDecisive(merged) == SelectLastInSeq(merged.requires, Decisive)

\* Where the loop over the Requires returns: 0 when none of them decides.
FirstDecisive(merged) == SelectInSeq(merged.requires, Decisive)

\* htaccess_require_satisfied: the first decisive Require decides; Order, Deny and
\* Allow are looked at only after Requires of which none was.
RequireSatisfied(merged, login) ==
    LET at == FirstDecisive(merged) IN
    IF merged.requires = <<>> THEN "declined"
    ELSE IF at # 0
    THEN CASE merged.requires[at].data = "all granted" -> "ok"
           [] merged.requires[at].data = "all denied"  -> "forbidden"
           [] OTHER -> IF ValidUser(merged, login) THEN "ok" ELSE "unauthorized"
    ELSE IF /\ Begins(merged.order, "deny", 4)
            /\ \E s \in ToSet(merged.denies) : All(s)
            /\ \A s \in ToSet(merged.allows) : ~All(s)
         THEN "forbidden" ELSE "declined"

\* htaccess_apply_auth; "declined" lets the request pass.  The code's early
\* return when there is neither a Require nor an AuthType, Allow or Deny changes
\* nothing: without a Require the answer is the same.
ApplyAuth(merged, uri, login) ==
    LET rc == RequireSatisfied(merged, login) IN
    CASE FilesDeny(merged, uri)  -> "forbidden"
      [] ~FilesDeny(merged, uri) -> IF rc = "ok" THEN "declined" ELSE rc

=============================================================================
