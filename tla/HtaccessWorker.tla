---------------------------- MODULE HtaccessWorker ----------------------------
(***************************************************************************)
(* One worker serving requests: htaccess_build_merged_ctx walks the        *)
(* .htaccess files of a request's directories through the cache of         *)
(* HtaccessCache, and what it merges is applied by htaccess_execute.       *)
(*                                                                         *)
(* The merge copies structs, not strings: patterns, conditions, header     *)
(* names and values stay in the pool of the parsed file, which belongs to  *)
(* the cache entry.  This module asks whether that pool outlives its use.  *)
(*                                                                         *)
(* The handler runs to its end before the worker turns to another request, *)
(* but a reply that an upstream still has to complete is sent later, with  *)
(* other requests in between.                                              *)
(***************************************************************************)
EXTENDS HtaccessCache, FiniteSets

CONSTANTS
    Chains,        \* the .htaccess paths of a URI's directories, the root's first
    MaxRedirects,  \* conf->max_redirects
    MaxReplies     \* bound: replies waiting for their content at any time

ASSUME ChainsAssumption == Chains \subseteq Seq(Paths) \ {<<>>}

ASSUME BoundsAssumption == MaxRedirects \in Nat /\ MaxReplies \in Nat

VARIABLES
    req,     \* the request in the handler
    replies  \* the replies the handler has let through and nginx has yet to send

handler == <<req, replies>>
workerVars == <<vars, handler>>

\* Merged rules: whose they are, the pool they stay in, and (a ghost, for the
\* properties) what they said when they were merged.
Merged == [path : Paths, pool : Pools, rules : Rules]

NoRequest == [pc |-> "none", chain |-> <<>>, next |-> 1, pass |-> 0, merged |-> <<>>]

-----------------------------------------------------------------------------
(* The handler. *)

\* A pass of htaccess_execute starts with an empty merged context.
Walk(c, n) == [pc |-> "walk", chain |-> c, next |-> 1, pass |-> n, merged |-> <<>>]

\* With htaccess_max_redirects 0 there is no pass at all and nothing to see.
Arrive ==
    /\ req.pc = "none"
    /\ MaxRedirects > 0
    /\ \E c \in Chains : req' = Walk(c, 0)
    /\ UNCHANGED <<vars, replies>>

\* htaccess_build_merged_ctx calls htaccess_load_file for the next directory.
Ask ==
    /\ req.pc = "walk"
    /\ req.next <= Len(req.chain)
    /\ Begin(req.chain[req.next])
    /\ UNCHANGED handler

\* Seeded fault: the deeper directory's rules are put before its parent's.
TakeDeepestFirst ==
    /\ req.pc = "walk"
    /\ Return
    /\ req' = [req EXCEPT !.next = @ + 1,
                          !.merged = IF load.rc = "ok"
                                     THEN <<[path |-> load.path, pool |-> load.pool,
                                             rules |-> heap[load.pool]]>> \o @
                                     ELSE @]
    /\ UNCHANGED replies

\* The call returns: its rules are merged after those of the parent directory;
\* a file that is absent, or that could not be parsed, is skipped.
Take ==
    /\ req.pc = "walk"
    /\ Return
    /\ req' = [req EXCEPT !.next = @ + 1,
                          !.merged = IF load.rc = "ok"
                                     THEN Append(@, [path |-> load.path, pool |-> load.pool,
                                                     rules |-> heap[load.pool]])
                                     ELSE @]
    /\ UNCHANGED replies

\* Seeded fault: the loop ends before the last directory.
WalkedEarly ==
    /\ req.pc = "walk" /\ load.pc = "idle"
    /\ req.next >= Len(req.chain)
    /\ req' = [req EXCEPT !.pc = "apply"]
    /\ UNCHANGED <<vars, replies>>

Walked ==
    /\ req.pc = "walk"
    /\ req.next > Len(req.chain)
    /\ req' = [req EXCEPT !.pc = "apply"]
    /\ UNCHANGED <<vars, replies>>

\* Seeded fault: a rewrite starts the loop over instead of continuing it.
RewrittenAnew ==
    /\ req.pc = "apply"
    /\ \E c \in Chains : req' = Walk(c, 0)
    /\ UNCHANGED <<vars, replies>>

\* The merged rules rewrite the URI, or an ErrorDocument takes its place: the
\* next pass walks the chain of the new URI.
Rewritten ==
    /\ req.pc = "apply"
    /\ req.pass + 1 < MaxRedirects
    /\ \E c \in Chains : req' = Walk(c, req.pass + 1)
    /\ UNCHANGED <<vars, replies>>

\* The merged rules let the request through; headers_out gets its headers by
\* reference.  nginx goes on to produce the content.
LetThrough ==
    /\ req.pc = "apply"
    /\ \E kept \in {req.merged, <<>>} :
         /\ Cardinality(replies \cup {kept}) <= MaxReplies
         /\ replies' = replies \cup {kept}
    /\ req' = NoRequest
    /\ UNCHANGED vars

\* A redirect or a refusal is sent at once; and a request that runs out of
\* passes is let through with no header of .htaccess on it.
Answered ==
    /\ req.pc = "apply"
    /\ req' = NoRequest
    /\ UNCHANGED <<vars, replies>>

\* The content is there: the response header is written out.
SendReply ==
    /\ req.pc = "none"
    /\ \E y \in replies : replies' = replies \ {y}
    /\ UNCHANGED <<vars, req>>

-----------------------------------------------------------------------------

WorkerInit == Init /\ req = NoRequest /\ replies = {}

Handler ==
    \/ Ask \/ Take \/ Walked \/ Rewritten \/ LetThrough \/ Answered
    \/ Run /\ UNCHANGED handler

Serve == Arrive \/ Handler \/ SendReply

WorkerNext == Serve \/ (Environment /\ UNCHANGED handler)

\* The handler is one function call: it goes on until it returns.
WorkerSpec == WorkerInit /\ [][WorkerNext]_workerVars /\ WF_workerVars(Handler)

\* A site at rest: nobody edits, and the worker may read what there is.
QuietInit == WorkerInit /\ \A p \in Paths : file[p].readable

QuietSpec == QuietInit /\ [][Serve]_workerVars /\ WF_workerVars(Handler)

-----------------------------------------------------------------------------
(* Properties. *)

LongestChain == \A c \in Chains : Len(c) <= MaxEntries

WorkerTypeOK ==
    /\ TypeOK
    /\ req \in [pc : {"none", "walk", "apply"}, chain : Chains \cup {<<>>},
                next : Nat \ {0}, pass : Nat, merged : Seq(Merged)]
    /\ replies \subseteq Seq(Merged)
    /\ load.pc # "idle" => req.pc = "walk" /\ load.path = req.chain[req.next]

Live(m) == \A i \in DOMAIN m : heap[m[i].pool] = m[i].rules

\* Rules that a request has merged are still where it merged them from until
\* it is done with them: no entry evicted by a later load of the same walk was
\* theirs.  On a site at rest this takes a cache that holds the files of one
\* walk, and no more; it rests on every hit moving its entry to the front.
MergedRulesLive == LongestChain => Live(req.merged)

\* The directories of the request's chain whose file is there and well formed.
SitesFiles == {k \in DOMAIN req.chain : file[req.chain[k]].rules \in Rules}

\* On a site at rest the rules applied are those of the files that are there
\* and well formed, all of them, the root's first.
AppliedAreTheSites ==
    req.pc = "apply" /\ LongestChain =>
        \E at \in [DOMAIN req.merged -> SitesFiles] :
            /\ Range(at) = SitesFiles
            /\ \A i, j \in DOMAIN at : i < j => at[i] < at[j]
            /\ \A i \in DOMAIN at : heap[req.merged[i].pool] = file[req.chain[at[i]]].rules

\* However files are edited, what destroys rules that a request has merged is the
\* lookup of another file that is found stale, never the loop that makes room:
\* a file walked is moved to the front and may leave a stale duplicate behind
\* it, and a cache with room for as many as a walk can leave keeps them all.
RoomForWalk == \A c \in Chains : 2 * Len(c) <= MaxEntries + 2

OnlyStaleLookupsDestroy ==
    [][RoomForWalk /\ req.merged # <<>> /\ req.merged' = req.merged
         /\ Live(req.merged) /\ ~Live(req.merged)' => LookupStale]_workerVars

\* The handler goes one way, however files are edited and rules rewrite: to one of the
\* passes left, on to the next directory, a step further in the load that it waits
\* for, or back to nginx; so a request has as many steps as these allow, and no more.
HandlerGetsOn ==
    [][req.pc # "none" /\ <<req, worker>>' # <<req, worker>> =>
          \/ req'.pc = "none"
          \/ req'.pass = req.pass + 1 /\ req'.pass < MaxRedirects
          \/ req.pc = "walk" /\ req' = [req EXCEPT !.pc = "apply"]
          \/ /\ <<req.pc, req.chain, req.pass>>' = <<req.pc, req.chain, req.pass>>
             /\ req'.next = req.next + 1 /\ req'.next <= Len(req.chain) + 1
          \/ /\ req' = req
             /\ \/ Stage[load'.pc] > Stage[load.pc]
                \/ load.pc = "store" /\ load' = load /\ count' < count]_workerVars

\* The handler returns from every request, however its rules rewrite.
RequestEnds == req.pc # "none" ~> req.pc = "none"

\* Not so while files are edited: README.md:52, "Entries are invalidated when
\* mtime or size changes", where htaccess_cache_lookup evicts whatever is last:
\* the rules a request is being served by are those it read.
ServedByTheRulesRead == Live(req.merged)

\* Not so for a cache smaller than the site: README.md:43, "Header set": the
\* header written out is the one the .htaccess file set.
HeadersSentAsSet == \A y \in replies : Live(y)

-----------------------------------------------------------------------------
(***************************************************************************)
(* The cache is invisible to a whole walk, not to one load alone: what a   *)
(* pass applies is what reading the files of the URI's directories one     *)
(* after the other would have given it.  Of the rules merged, this is what *)
(* they said when they were read; whether they still do is the question of *)
(* the properties above.                                                   *)
(***************************************************************************)
WalkBar ==
    [pc    |-> req.pc,   chain |-> req.chain,   next |-> req.next,   pass |-> req.pass,
     rules |-> [i \in DOMAIN req.merged |-> req.merged[i].rules]]

TheWalk == INSTANCE HtaccessWalk WITH
               disk <- DiskBar, read <- ReadBar, walk <- WalkBar,
               MayFail <- Faults # {}

\* Each pass reads the files of its URI's directories, every one once and in order, and
\* applies what they said, whatever of that came from the cache.
WalksTheFiles == TheWalk!WalkSpec

=============================================================================
