---------------------------- MODULE HtaccessPolicy ----------------------------
(***************************************************************************)
(* What becomes of a request, and why: the policy that htaccess_execute    *)
(* carries out, without the engines, their order and the rules themselves. *)
(* Only what the rules of a URI's directories may lead to is a parameter.  *)
(*                                                                         *)
(* While nobody edits, every decision has its ground in the rules of the   *)
(* URI that the pass is for, as they all stand at once: a URI is served if *)
(* they grant it and refused if they do not, a redirect or another URI is  *)
(* what some rule of theirs asks for, and a URI that they hide is not      *)
(* touched by any of their other rules.  While files are edited the course *)
(* of a request is the same, and the number of URIs it is taken to has the *)
(* same bound.  HtaccessExecute shows that the code keeps to this.         *)
(***************************************************************************)
EXTENDS Naturals

CONSTANTS
    Requested,           \* what clients ask for: records with a uri
    Logins, NoLogin,     \* the credentials they may send, or none
    Sites,               \* the states of the file system at the start
    MaxRedirects,        \* conf->max_redirects
    MayFail,             \* TRUE when memory may run out
    Hides(_, _),         \* Hides(s, u): on the site s the rules of u's directories deny the file u
    Verdict(_, _, _, _)  \* Verdict(s, u, v, l): what they say of v asked for with credentials l

CONSTANTS
    HeadersOf(_, _),     \* HeadersOf(s, u): the headers that they set
    Carries(_, _),       \* Carries(s, u): some rule of theirs may put another URI in u's place
    Rewrites(_, _),      \* Rewrites(s, u): one may, and has the rules of that URI asked next
    Codes(_, _),         \* Codes(s, u): the statuses of the redirects that they may send
    Documents(_, _, _)   \* Documents(s, u, rc): their ErrorDocument for a refusal

VARIABLES
    site,     \* the directives in the .htaccess files
    edits,    \* edits made since the request arrived
    request,  \* the URI asked for, and the credentials
    base,     \* the URI whose directories' rules are asked now
    uri,      \* the URI that the request is for by now
    moves,    \* how often the rules of another URI have been asked
    reply,    \* "none", "pending", or what was decided
    status,   \* of a redirect
    headers   \* that the reply bears

where == <<base, uri, moves>>
decision == <<reply, status, headers>>
policyVars == <<site, edits, request, where, decision>>

AtRest == edits = 0

Nobody == [asked |-> <<>>, login |-> NoLogin]

PolicyInit ==
    /\ site \in Sites /\ edits = 0
    /\ request = Nobody
    /\ base = <<>> /\ uri = <<>> /\ moves = 0
    /\ reply = "none" /\ status = 0 /\ headers = <<>>

\* The rules of base' are asked; but after the last pass the URI goes through unasked.
Enter(n) ==
    /\ base' = uri'
    /\ moves' = n
    /\ reply' = IF n < MaxRedirects THEN "pending" ELSE "unasked"
    /\ UNCHANGED <<status, headers>>

Arrive ==
    /\ reply = "none"
    /\ \E q \in Requested, l \in Logins \cup {NoLogin} :
         /\ request' = [asked |-> q.uri, login |-> l]
         /\ uri' = q.uri
    /\ Enter(0)
    /\ UNCHANGED <<site, edits>>

\* Nothing but a refusal comes of a URI that is hidden from the one who asked for it.
Open == reply = "pending" /\ (AtRest /\ moves = 0 => ~Hides(site, request.asked))

Decide(what) == reply' = what /\ UNCHANGED <<site, edits, request, where>>

\* <FilesMatch> with a Require all denied
Hide ==
    /\ reply = "pending" /\ moves = 0
    /\ AtRest => Hides(site, request.asked)
    /\ Decide("forbidden")
    /\ UNCHANGED <<status, headers>>

\* A rule without L puts another URI in the place of the one asked for, and the rules
\* of the old one's directories go on to judge it.
Carry ==
    /\ Open
    /\ AtRest => Carries(site, base)
    /\ UNCHANGED <<site, edits, request, base, moves, decision>>

Move ==
    /\ Open
    /\ AtRest => \/ Rewrites(site, base)
                 \/ \E rc \in {"forbidden", "unauthorized"} :
                       /\ Verdict(site, base, uri, request.login) = rc
                       /\ uri' \in Documents(site, base, rc)
    /\ Enter(moves + 1)
    /\ UNCHANGED <<site, edits, request>>

Redirect ==
    /\ Open
    /\ AtRest => status' \in Codes(site, base)
    /\ Decide("redirect")
    /\ UNCHANGED headers

Refuse(rc) ==
    /\ Open
    /\ AtRest => /\ Verdict(site, base, uri, request.login) = rc
                 /\ MayFail \/ Documents(site, base, rc) = {}
    /\ Decide(rc)
    /\ UNCHANGED <<status, headers>>

Serve ==
    /\ Open
    /\ AtRest => /\ Verdict(site, base, uri, request.login) = "declined"
                 /\ headers' = HeadersOf(site, base)
    /\ Decide("served")
    /\ UNCHANGED status

Fail ==
    /\ reply = "pending" /\ MayFail
    /\ Decide("error")
    /\ UNCHANGED <<status, headers>>

\* Somebody edits a file.
Edit ==
    /\ reply # "none"
    /\ edits' = edits + 1
    /\ UNCHANGED <<request, where, decision>>

Return ==
    /\ reply \notin {"none", "pending"}
    /\ edits' = 0
    /\ request' = Nobody
    /\ base' = <<>> /\ uri' = <<>> /\ moves' = 0
    /\ reply' = "none" /\ status' = 0 /\ headers' = <<>>
    /\ UNCHANGED site

PolicyNext ==
    \/ Arrive \/ Hide \/ Carry \/ Move \/ Redirect \/ Serve \/ Fail \/ Edit \/ Return
    \/ \E rc \in {"forbidden", "unauthorized"} : Refuse(rc)

PolicySpec == PolicyInit /\ [][PolicyNext]_policyVars

=============================================================================
