-------------------------- MODULE MCHtaccessExecute --------------------------
(***************************************************************************)
(* Instances of HtaccessExecute for TLC: sites of two directories, / and   *)
(* /a/, made of the groups of directives below.                            *)
(***************************************************************************)
EXTENDS HtaccessExecute, TLC

CONSTANTS user, mallory

X == <<"x">>
E == <<"e">>
AY == <<"a", "y">>
AE == <<"a", "e">>
AllUris == {X, E, AY, AE}

TheLogins == {user, mallory}
ThePasswords == [htpasswd |-> {user}]
TheFiles == {X, E}
TheDirectories == {<<"a">>}

EngineOn == FlagOf("RewriteEngine", Str("on", 2))

Flag(word) == Naming(word, Len(word), <<>>)
L == Flag("L")
C == Flag("C")
QSA == Flag("QSA")
SetsTo(name, value) == Naming("E=", 9, [name |-> name, colon |-> TRUE, value |-> value])

\* A rule with a target of its own, one that leads to a template, and one with -.
Rule(uris, to, parts) ==
    RewriteRuleOf(uris, [i \in DOMAIN to |-> Lit(to[i])], {}, parts, <<>>)
RuleTo(uris, template, parts) == RewriteRuleOf(uris, template, {"relative"}, parts, <<>>)
Dash(uris, parts) == RewriteRuleOf(uris, <<>>, {"dash"}, parts, <<>>)

If(conds, d) == [d EXCEPT !.conditions = conds]

Variable(word) == Naming(word, Len(word), "")
Env(name) == Naming("ENV:", 6, name)
Path(template) == Naming("%", 9, template)
Is(values) == Naming("", 3, values)
IsFile == Naming("-f", 2, {})
IsDir == Naming("-d", 2, {})
OR == Str("OR", 2)

FilesMatch(uris) == <<InFiles(RequireOf("all denied", <<3, 6>>), uris)>>
Granted == <<RequireOf("all granted", <<3, 7>>)>>
Denied == <<RequireOf("all denied", <<3, 6>>)>>

Login(id, data, len) == StrOf(id, Str(data, len))

Staff == <<Login("AuthName", "Staff", 5), Login("AuthUserFile", "htpasswd", 8),
           RequireOf("valid-user", <<10, 5>>)>>

\* tests/fixtures/auth/.htaccess
Fixture == <<Login("AuthType", "Basic", 5), Login("AuthName", "Restricted", 10),
             Login("AuthUserFile", "htpasswd", 8), RequireOf("valid-user", <<10>>)>>

\* "Deny all"; "Deny from all" would be parsed to "from".
DenyAll == <<StrOf("Order", Str("deny", 10)), StrOf("Deny", Str("all", 3)),
             RequireOf("ip", <<2, 6>>)>>

Moved == <<RedirectOf("Redirect", {X, AY}, E, Str("301", 3))>>

Documents == <<ErrorDocumentOf(403, E), ErrorDocumentOf(401, X)>>

\* tests/fixtures/opencart/.htaccess:14-16, with QSA for both targets
Shop == <<EngineOn, Dash(AllUris, <<SetsTo("path", <<Match>>), C>>),
          Rule({AY}, E, <<L, QSA>>),
          RuleTo({X, AY}, <<Lit("e"), Lit("?"), Lit("route"), EnvVar("path")>>, <<L, QSA>>)>>

\* Two chains whose heads differ, the second with a redirect in it.
Chains == <<EngineOn, Dash({X, E}, <<C>>), Rule({AY}, X, <<L>>),
            Dash({AY}, <<C>>), RedirectOf("RedirectTemp", {}, E, Empty), Rule({X}, E, <<L>>)>>

Conditions == <<EngineOn, [Directive("RewriteBase") EXCEPT !.to = <<"a">>],
           If(<<RewriteCond(Path(<<Lit("x")>>), IsFile, OR),
                RewriteCond(Variable("HTTP_HOST"), Is({<<"h:80">>}), Empty)>>,
              Dash({X}, <<L>>)),
           If(<<RewriteCond(Env("path"), Is({<<>>}), Empty)>>,
              RuleTo({X}, <<Lit("e"), Var("REQUEST_URI")>>, <<L, QSA>>))>>

\* A variable whose value is longer than the template that asks for it allows.
Query == Var("QUERY_STRING")
Long == <<EngineOn, RuleTo({X}, <<Lit("e"), Lit("?"), Query, Query, Query, Match>>, <<QSA>>),
          RuleTo({E}, <<Query>>, <<L>>)>>

Groups ==
    {<<EngineOn, Rule({X}, AY, <<L>>)>>, <<EngineOn, Rule({X}, AY, <<>>)>>,
     <<EngineOn, Rule({X}, X, <<Flag("END")>>)>>,
     <<EngineOn, Rule({X}, E, <<Naming("R", 5, <<301>>), L>>)>>,
     Shop, Chains, Conditions, Long,
     FilesMatch({AY}), Granted, Denied, Staff, DenyAll, Moved, Documents,
     <<HeaderOf(Str("set", 3), "h"), HeaderOf(Str("unset", 5), "u")>>}

SubFiles == {NoFile, Denied, <<EngineOn, Rule({AY}, X, <<L>>)>>,
             FilesMatch({AY}) \o <<HeaderOf(Str("set", 3), "h2")>>}

SitesOf(rootFiles, subFiles) == {<<>> :> f @@ <<"a">> :> g : f \in rootFiles, g \in subFiles}

\* Every two groups in the root's file, in both orders, and no file at all; and a root
\* that refuses above a subdirectory that grants.
TheSites ==
    SitesOf({NoFile} \cup {f \o g : f, g \in Groups}, SubFiles)
      \cup SitesOf({f \o g : f \in {Denied, Staff}, g \in Groups}, {Granted})

TheEdits == {<<<<>>, <<EngineOn, Rule({X, E, AY}, X, <<L>>)>>>>, <<<<"a">>, NoFile>>}

NoEdits == {}

LoopingSites == SitesOf({<<EngineOn, Rule({X}, X, <<L>>)>> \o Denied, NoFile}, {NoFile})
FixtureSites == SitesOf({NoFile, Fixture}, {NoFile})

\* htaccess_examples/wordpress:14-16 and 19
WordPress == <<EngineOn,
               If(<<RewriteCond(Variable("REQUEST_FILENAME"), IsFile, OR),
                    RewriteCond(Variable("REQUEST_FILENAME"), IsDir, Empty)>>,
                  Dash(AllUris, <<L>>)),
               RuleTo(AllUris \ {E}, <<Lit("e")>>, <<L>>)>>

WordPressSites == SitesOf({WordPress}, {NoFile})

Asked(uri, query) == [uri |-> uri, query |-> query, headers |-> [Host |-> <<"h:80">>], server |-> <<"h">>]

FileRequests == {Asked(X, <<>>)}

TheRequests == {Asked(X, <<>>), Asked(X, <<"q">>), Asked(AY, <<"q">>)}

=============================================================================
