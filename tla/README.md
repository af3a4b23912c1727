# ngx_htaccess in TLA+

This directory holds a formal model of `ngx_htaccess`, an nginx module that
reads Apache `.htaccess` files at request time: TLA+ modules, the TLC
configurations that check them on small instances, and theorems checked by
TLAPS. Paths such as `src/htaccess_walk.c` are relative to the repository;
`map` in `PROJECT.json` gives, for each definition, the lines it stands for,
and `hazards` the places in the code that the properties are aimed at.

## 1. The system

nginx runs a number of worker processes, each a single thread around an event
loop. The module adds a handler (`ngx_http_htaccess_handler`) to the rewrite phase,
before the content is produced. The handler runs to its end without yielding: nothing
else happens *in the worker* meanwhile. Two things do happen around it:

* other processes create, rewrite, remove and chmod files between any two
  system calls of the handler;
* a request that was let through may wait for its content (an upstream, say)
  while the same worker handles other requests. It then still refers to memory
  that the handler left it.

| Component | State it keeps | Operations | Talks to |
|---|---|---|---|
| Lexer (`htaccess_lexer.c`) | none; a position in the text | the tokens of the next line | called by the parser |
| Parser (`htaccess_parser.c`) | block stack, pending `RewriteCond`s; only during a parse | parse a file into an array of directives in a pool, or refuse it | called by `htaccess_load_file` |
| Cache (`htaccess_cache.c`, `htaccess_load_file` in `htaccess_walk.c`) | per worker: an LRU list of entries, `count`, one pool per parsed file | lookup (find, move to the head, stat), store (make room, insert), evict | the file system; owned by the main configuration, used by the walk |
| Directory walk (`htaccess_build_merged_ctx`) | the merged context of one pass | load every directory's file, root first; merge | cache, merge |
| Merge (`htaccess_merge_parsed`, `htaccess_merge_directive`) | none of its own | append, override, mark chains of rules | reads the parsed file, writes the context by reference |
| Access control (`htaccess_auth.c`) | none | rules on files, Require, Order/Allow/Deny, password files | reads the context and the request |
| Redirects (`htaccess_alias.c`) | none | first match of `Redirect` and `RedirectMatch` | |
| Rewrite engine (`htaccess_rewrite.c`) | `chain_active`; URI, arguments, variables in the request's state | walk over the rules | expansion |
| Variable expansion (`htaccess_vars.c`) | none; reads the request's state and headers | copy a template with its `$n` and `%{...}` replaced into a buffer of `4 * len + 256` bytes, or fail | rewrite engine |
| Execution (`htaccess_execute.c`, `htaccess_headers.c`) | `r->uri`, `htaccess_request_state_t`, the pass counter, `headers_out` | the loop of passes over the engines | all of the above |
| nginx glue (`ngx_http_htaccess_module.c`) | the configuration of a cycle; a static pointer to its main part | create, set, merge, postconfiguration, start a worker, handle a request | called by nginx; gives the cache its size and the handler its settings |

**What is hard here.** There are no locks, so no races between threads. What is
hard is time and ownership: a file is looked at three times in one load (stat
to validate, stat for the stamp, open and read); parsed strings live in a pool
that belongs to a cache entry, while the merged context and the response refer
to them with no reference count; the loop of passes replaces the URI while
three variables (`r->uri`, `state->uri`, `state->filename`) and the response's
headers should move with it; `cache->count` is kept by hand beside the list; the
parser keeps the open blocks in arrays with an index and conditions in a list
that waits; and the master keeps a pointer into the pool of a configuration that
may be refused a moment later.

**What makes each component correct.**

* *Cache*: it is invisible - a load answers as some read of the file during the
  call would; it is bounded; each pool has one owner and is destroyed once,
  never while owned; every load ends.
* *Walk*: the rules applied are those of the directories' files, the root's
  first, and they outlive their use.
* *Merge*: the order of files and directives, and of chained rules, is kept.
* *Access control*: what is refused is not served, whatever rewrites happen.
* *Rewrite, redirects, execution*: every request is decided; every pass is made
  for the URI it decides on; the reply's headers are those of the URI served; a
  chain of rules applies as a whole; what the client asked is not lost on the way.
* *Lexer*: a line is what its author wrote, however it is laid out.
* *Parser*: a directive belongs to the block it is written in, a condition to
  the rule it precedes; a file with a faulty line is refused as a whole.
* *Configuration*: a location has the value written nearest to it; what was
  refused leaves no trace.

## 2. The modules

| Module | Models |
|---|---|
| `HtaccessRead` | the abstract specification of one read: ask, sample the file once, return |
| `HtaccessCache` | the LRU cache and `htaccess_load_file`, one step per system call; file edits |
| `HtaccessCacheProofs` | theorems about `HtaccessCache`, and that it implements `HtaccessRead` |
| `HtaccessWalk` | EXTENDS `HtaccessRead`: the abstract specification of a walk: every file of the chain read once, in order |
| `HtaccessWorker` | EXTENDS `HtaccessCache`: requests walking chains of files through the cache, merged rules held by reference, replies sent later |
| `HtaccessWorkerProofs` | EXTENDS `HtaccessWorker`, `HtaccessCacheProofs`: theorems about the walk, and that it implements `HtaccessWalk` |
| `HtaccessLine` | what the parser makes of one line of tokens, as operators |
| `HtaccessSections` | the abstract specification of the parser: a stack of blocks, waiting conditions, refusal as a whole |
| `HtaccessParser` | EXTENDS `HtaccessLine`: lexer and parser, one step per token and per line |
| `HtaccessParserProofs` | theorems about `HtaccessParser`, and that it implements `HtaccessSections` |
| `HtaccessDirective` | the directives that arguments give: flags, codes, conditions |
| `HtaccessVars` | EXTENDS `HtaccessDirective`: variables, templates and their expansion |
| `HtaccessMerge` | EXTENDS `HtaccessDirective`: the merge, as operators |
| `HtaccessAuth` | EXTENDS `HtaccessMerge`: access control, as operators |
| `HtaccessRewrite` | EXTENDS `HtaccessMerge`, `HtaccessVars`: redirects, conditions and one rule, as operators |
| `HtaccessPolicy` | the abstract specification of a request's treatment: which decisions are right on which ground |
| `HtaccessExecute` | EXTENDS `HtaccessAuth`, `HtaccessRewrite`: the loop of passes as a state machine |
| `HtaccessInduction` | induction and recursion over numbers, for the proofs |
| `HtaccessRewriteProofs` | lemmas about `HtaccessMerge`, `HtaccessVars` and `HtaccessRewrite`: what a file adds to a context, a template yields, a round of the rules does |
| `HtaccessExecuteProofs` | EXTENDS `HtaccessRewriteProofs`: theorems about `HtaccessExecute`, and that it implements `HtaccessPolicy` |
| `HtaccessConfig` | a master that reads configurations, and the workers it forks |
| `HtaccessConfigProofs` | theorems about `HtaccessConfig` |
| `MCHtaccessCache`, `MCHtaccessWorker`, `MCHtaccessParser`, `MCHtaccessExecute`, `MCHtaccessConfig` | instances for TLC |

Definitions introduced by a comment "Seeded fault" are mutations: plausible
slips in the code that the property listed beside them in `mutants` must
notice. No specification uses them.

### HtaccessCache

| Variable | In the code |
|---|---|
| `file` | the file system: stamp (`st_mtime`, `st_size`), content, whether `open` succeeds |
| `lru`, `count` | `cache->lru` (head first) and `cache->count` |
| `heap` | the pools that parsed files live in: free, empty, or holding rules |
| `load` | the locals of `htaccess_load_file`, and its program counter |

The stages are `lookup` (`htaccess_cache_lookup`: find, move to the head, stat),
`stat` (the second stat, and `ngx_create_pool`), `parse` (open, read, parse),
`store` (`htaccess_cache_store`, one action per round of its loop) and `done`.
Each step makes at most one system call that looks at the file, so an edit can
come between any two. A load in a location with `htaccess_cache off` skips
`lookup` and `store`. Content is a model value: what the rules say is of no
concern here. `fstat`, `malloc`, `read` and `ngx_alloc` failures are the members
of `Faults`.

*One assumption about the environment*: `FreshStamps`. The code compares mtime
(in seconds) and size, so two versions that share both cannot be told apart,
and no property of the cache survives that. The model assumes that a new
version of a file differs in mtime or size from the current version, from those
in the cache, and from the one being loaded. It does *not* assume that the stamp
identifies the content for ever: stamps are reused once the worker has
forgotten them.

### HtaccessWorker

`req` is the request in the handler: the chain of paths it walks, the next one,
the pass, and the rules merged so far as (path, pool, ghost copy of the rules at
merge time). `replies` are the merged contexts whose strings a reply that is
not yet written out still refers to. `Ask` and `Take` are the call to
`htaccess_load_file` and its return. `Run` is the load of `HtaccessCache`, taken
over unchanged. What rules do to a URI is not looked into: a pass may end in any
way and lead to any chain.

`HtaccessWalk` is what that comes to without a cache. Its `walk` is `req` with the
rules in the place of the pools that hold them (`WalkBar`); `AskNext` and `TakeAnswer`
are `Ask` and `Take`, and between them a file is read at one instant, as in
`HtaccessRead`. It says that the answers are right and complete; that rules *stay*
what they were when merged is more than it says, and not true while files are edited
(`ServedByTheRulesRead`).

### HtaccessParser

| Variable | In the code |
|---|---|
| `doc`, `p` | the buffer between `start` and `end`, and the position in it |
| `pc` | in `htaccess_lex_line`, in the loop of `htaccess_parse`, or returned |
| `tokens` | the array of the line's tokens |
| `depth`, `files_match` | the index and the array of 16 patterns, one per open block |
| `pending` | `pending_conds` |
| `directives`, `result` | `file->directives`, and whether the file or NULL is returned |
| `lines` | a history, for the properties: the lines parsed so far |

A text is a sequence of pieces: the characters that lexer and parser look for
(blank, newline, hash, backslash, quote, less, greater, slash), and the words
between them. `Quoted`, `Tag` and `Word` are the three kinds of token,
`EndLine` and `Unterminated` the two ways in which `htaccess_lex_line` returns;
the parser's actions are the branches of its loop: a block's end, a block's
start with and without room for it, an unknown name, a condition, a directive, a
directive without its arguments. `htaccess_block_enabled` returns 1 on every path,
so `enabled[]` is left out. `MaxDepth` is 15 in the code. An argument that is
taken although it is not there (`Options` alone on its line) is an element of an
array that nothing was stored in: `Garbage`.

`HtaccessDirective` takes over where `HtaccessLine` stops: what the arguments
mean. An `ngx_str_t` is its keyword with its length where the code compares
lengths (`Begins`), which is where several of the findings come from.

### HtaccessExecute

| Variable | In the code |
|---|---|
| `site` | the `.htaccess` files; one that is malformed counts as missing, as the walk skips both |
| `edits` | bounds the edits during one request |
| `pc`, `pass` | where `htaccess_execute` is, and its loop counter |
| `walked`, `pos`, `merged` | the URI whose directories the pass reads, the next of them, the context so far |
| `loop` | `htaccess_apply_rewrite`: the rule it is at, `chain_active`, and (a history) the rules that applied |
| `r` | `r->uri` and `headers_out`, with what was asked and by whom |
| `state` | `htaccess_request_state_t`: `uri`, `filename`, `query_string`, `env`; and the request's headers |
| `answer` | what the handler returned |

A directory's file is read in one step, which is what `HtaccessCache` is proved
to provide (`CacheIsInvisible`); a rule is one step, every other engine one.
Patterns are the set of values they match, a URI the sequence of its segments, a
template the sequence of its pieces, a value the sequence of its words.
`HtaccessVars`, `HtaccessMerge`, `HtaccessAuth` and `HtaccessRewrite` are
functions of that data, with no state. `Spare` stands for the 256 bytes that an
expansion may take beside four times its template: the run has it 0, so that
templates of a few pieces can be too small.

`HtaccessPolicy` has none of that: no directory, no engine, no rule. Its parameters
are what the files of a URI's directories say when read all at once (`Hides`, `Verdict`,
`HeadersOf`, `Carries`, `Rewrites`, `Codes`, `Documents`), and its actions the
decisions, each with its ground: `Serve` needs a verdict that grants, `Refuse` one
that does not and no ErrorDocument, `Redirect` a status that some rule there may send,
`Move` a rule with L or END, or an ErrorDocument. `HtaccessExecute` gives the parameters
what its merge makes of the same files (`HidesBar` to `DocumentsBar`). `Carry` is a
deliberate part of it: a rule without L replaces the URI and the verdict on the new one is
given by the files of the old. After the last pass the URI goes through
unasked; that is `Enter` with no pass left, and `RefusedIsNeverServed` is about it.

### HtaccessConfig

| Variable | In the code |
|---|---|
| `memory` | the pools of the cycles, with the main and location configurations in them and (a ghost) the file's text |
| `last`, `live` | nginx's cycles: the latest read, and the one that runs |
| `reading` | where nginx is in a configuration file, and what is left of it |
| `htaccess_main_conf` | the static pointer, in the master |
| `workers` | the worker processes, each with `htaccess_worker_cache.max_entries` |

`Reload`, `SetDirective`, `MergeConf`, `Postconfiguration` and `Spawn` are the
module's callbacks (the first calls the two `create` functions; `SetDirective`
is nginx's slot setters on the module's command table). `Refuse` and `Accept` are
nginx: a refusal can come at any time, for reasons that lie elsewhere, and after
`http { }` too - an unknown directive behind it, a log file, a port in use. The
master destroys the pool of what it refuses, and of what it replaces; a worker
is forked with the master's memory as it is. Reading a destroyed pool may give
any number (`FoundSizes`).

## 3. What the runs show

| Run | Expectation | Question |
|---|---|---|
| `cache` | holds | With edits at every instant: bookkeeping (`CacheBounded`), ownership (`PoolsOwnedOnce`), truth of stamps (`StampFaithful`), the result at the head (`ResultIsMostRecent`), and refinement of `HtaccessRead` (`ReadsCorrectly`) |
| `cache_faults` | holds | With failing allocations and reads and locations without cache: ownership (`PoolsOwnedOnce`), pools destroyed before they are forgotten (`PoolsNotLost`); no load goes back to what it has done (`LoadGetsOn`), and every load returns (`LoadReturns`) |
| `worker_quiet` | holds | On a site at rest, with a cache as large as the longest walk but smaller than the site: merged rules stay live, those applied are the site's in order, requests end |
| `worker_edits` | holds | With files edited at any instant: is it only ever a lookup that finds another file stale, and never the loop that makes room, that destroys rules in use; does a walk apply what reading its files one by one would have told it (refinement of `HtaccessWalk`); does the handler only move on (`HandlerGetsOn`)? |
| `worker_edited` | violated | Does that hold while files are edited? |
| `worker_replies` | violated | Do the strings of a reply outlive the reply? |
| `parser` | holds | Over files in several layouts: is each line what its author means; do directives get the pattern of their block and rules their conditions; is a file refused as a whole, and for nothing but a fault; refinement of `HtaccessSections`; does each step consume something (`EachStepConsumes`), and does the parser end? |
| `execute` | holds | Over sites of any two groups of directives: a file denied is not reached by rewriting it away, what is let through is not refused by its own directories, what upper directories settle no deeper one reopens (`NothingReopened`), headers are those of the URI served, every decision has its ground (refinement of `HtaccessPolicy`), the client's query string survives (`ClientQueryKept`), chains apply as a whole (`ChainsHold`), variables keep their first value (`EnvSettled`), the three copies of the URI stay in step, no step goes back within a pass (`RequestGetsOn`), every request is decided |
| `execute_looping` | violated | Is a refused URI ever let through? |
| `execute_front` | violated | Does the front controller of the WordPress example leave existing files alone? |
| `execute_valid_user` | violated | Does `Require valid-user` ask for credentials? |
| `config` | holds | Over configurations refused or accepted at every stage: what do locations inherit; when is the static pointer left dangling; what number of entries do workers get? |

**Bounds and why they are enough.**

* `cache`: two paths, a cache of two, three stamps, three pools (one per entry
  and one for the load). Two entries let one be a stale duplicate of the other's
  path, a hit be below the head, and the evicted tail be another path's entry.
  Three stamps are what a path can need at once (current, cached, being loaded).
  Paths, contents, stamps and pools are interchangeable: symmetry is used, as
  the run checks no liveness.
* `cache_faults`: a cache of one and two pools, which faults can use up, so
  that `ngx_create_pool` fails for want of memory as well as by choice. Checks
  liveness, so uses no symmetry.
* `worker_quiet`: three files (root, two subdirectories), cache of two, chains
  of at most two, any file missing or malformed, two passes, one waiting reply.
  Since the cache is smaller than the site, entries are evicted all the time.
  `MaxReplies` bounds the waiting replies in the guard of `LetThrough`; when it
  is reached the request ends in another way or a reply is sent.
* `worker_edits`: a root and a subdirectory, a cache of two - no more room than
  `RoomForWalk` asks for - and two stamps, so a walk meets hits, misses, absent
  and stale entries and the duplicates that stale ones leave. The condition is
  `2 * Len(c) <= MaxEntries + 2`: each file walked can leave its new entry and a
  stale duplicate. One entry per file, which suffices on a site at rest, is not
  enough for chains of three.
* `parser`: all files of up to four lines from tags, conditions and rules; of up
  to two lines from 16 kinds of line, with faulty ones; a last line without
  its end or with a quote or tag left open; and nests two and three deep of up to
  nine lines, with a directive at each place. `MaxDepth` is 2, so blocks do get
  too deep. Indentation, comments with quotes in them, empty lines, escapes, a
  tag and a directive on one line and `\` at the end of a line all occur.
* `execute`: a root and one subdirectory; the root's file holds any two of 16
  groups of directives in either order or is missing, the subdirectory's is one of
  four, or grants what a root with a `Require` refuses; three requests (`/x` with and without a query, `/a/y`) by anybody, and
  `/e` and `/a/e` as targets; up to three passes; one edit during a request
  (`MaxEdits`), drawn from two. Three passes are enough for a rewrite whose
  target is rewritten again or refused with an ErrorDocument. Properties that
  compare with the site as a whole are stated for requests during which it did
  not change (`AtRest`); `LoopHeadInStep`, `EnvSettled`, `ChainsHold` and
  `RequestDecided` for all.
* `config`: a server with one location; all files of up to two directives out of
  15, with one that is on and one that is off by default at any level, and three
  of one name at any levels, so that inheritance skips a level, duplicates occur
  and directives stand after the blocks that inherit them; a file without
  `http { }`; three configurations (`MaxCycles`), which is one to run, one to
  fail and one to follow; one worker slot, forked at any time and as often. After
  the third there is no further reload: hence no check for deadlock.

**Fairness.** Each specification has one assumption: weak fairness of the
worker's running call (`Run \/ Return`, `Handler`, `Execute`, and `Next` of the
parser, which is one call). It says that a
thread inside a function goes on; the code has no wait inside the handler. No
fairness is assumed of arrivals, edits, replies, or of any one action: liveness
never relies on a particular outcome. `RequestEnds` and `RequestDecided` hold
even if every pass rewrites, because `pass` is counted; `LoadReturns` even if
files change for ever, because a load has no retry. `HtaccessConfig` states no
liveness: when nginx reloads and forks is nginx's.

**What the violated properties say.** Each is a disagreement between the code
and what the repository says; the lines are quoted under `findings`.

1. *`ServedByTheRulesRead`*: `htaccess_cache_find` moves the entry it finds to the
   head; if it is stale, `htaccess_cache_lookup` calls `htaccess_cache_evict`, which
   removes the tail. With two entries or more the stale one stays and another
   goes. To answers that is harmless (`PoolsOwnedOnce`, `ReadsCorrectly`): the
   fresh entry is put before it and found first. To the walk it is not: the tail
   may hold the rules of a directory merged a moment before, by reference.
2. *`HeadersSentAsSet`*: a reply waiting for its content refers to header
   strings in the pool of an entry that later requests evict.
3. *`RefusedIsNeverServed`*: when `htaccess_max_redirects` passes have all ended
   in a rewrite the handler declines, as if the request had been allowed.
4. *`ExistingFilesAreServed`*: the parser asks for one letter more than
   `REQUEST_FILENAME` has, so conditions on it never succeed.
5. *`ValidUserRequired`*: `Require valid-user` is compared only if at least 11
   bytes long; it has 10.

**What else the models say of the code.** Things a reader of the README or of
Apache's documentation would not expect, and which the modules have as the
code does them:

* `htaccess_cache_max_entries` cannot be set. `create_main_conf` puts 1024 where
  `ngx_conf_set_num_slot` wants `NGX_CONF_UNSET`, so the directive is refused as a
  duplicate, and nginx does not start with the example of README.md:13
  (`OnlyTheDefaultSize`, proved). So `max_entries` is 1024 in every worker that
  reads a sound pointer, and the caches smaller than a walk, for which
  `MergedRulesLive` makes an exception, do not occur as yet.
* A reload that is refused after `http { }` leaves the master with a pointer into
  the pool it destroys; the next worker to be forked takes its cache's size from
  there. `OnlyLateFailuresDangle` says that this, and a configuration without
  `http { }`, are the only ways.
* The first decisive `Require` counts, and the root's come first: `Require all
  granted` there annuls `Require all denied` below.
* One faulty line refuses the whole file, and a file that is refused is skipped
  like one that is missing: its refusals vanish with it.
* `<IfModule>` inside `<FilesMatch>` hides the pattern from the directives in it.
* Conditions on `%{REQUEST_URI}` and `%{QUERY_STRING}` have the same letter too
  many, and the file tests have their sense inverted.
* `[R]` alone is no redirect; `R=permanent` is 302; `Redirect 301 /a /b` takes
  `301` for the path.
* `htaccess_max_redirects 0` lets every request through unseen.
* Rules that rewrite a URI to itself, as the catch-all of the OpenCart fixture
  does, use up all passes; such a reply has no headers of `.htaccess` on it.

## 4. What is proved

`HtaccessCacheProofs` proves, for every set of paths, contents, stamps and
pools, every `max_entries` above 0 and every choice of faults and locations:

| Theorem | Statement |
|---|---|
| `TypeCorrect` | `Spec => []TypeOK` |
| `CacheStaysBounded` | `Spec => []CacheBounded` |
| `PoolsHaveOneOwner` | `Spec => []PoolsOwnedOnce` |
| `EntriesAreFaithful` | `Spec => []StampFaithful` |
| `HitsAndStoresComeFirst` | `Spec => []ResultIsMostRecent` |
| `OnlyUnstoredPoolsAreLost` | `Spec => PoolsNotLost` |
| `LoadsGetOn` | `Spec => LoadGetsOn` |
| `CacheIsInvisible` | `Spec => ReadsCorrectly`, that is, `HtaccessCache` implements `HtaccessRead` |

*Assumptions used*: the named ASSUMEs of `HtaccessCache` (`max_entries` is
positive, `Nil`, `Malformed` and `Free` are not among the values they stand
beside), which every run of the module evaluates, and `FreshStamps` as part of
the specification's `WriteFile`.

*The argument.* The inductive invariant is the conjunction of the four
invariants that TLC checks: none is inductive alone. `CacheBounded` needs the
list's type; ownership needs the shape of the call (`LoadShape`), because the
pool that is stored must be one that the load has created and no entry has;
faithfulness needs ownership, since an entry remains faithful only if nobody
else writes or destroys its pool. For the proof the invariant is regrouped
(`Parts`) into `Sound(s, h, f)`, what it says of a list given pools and files,
`Unowned`, that no entry has the pool being built, and `LoadSound`, what it says
of the call. Lemmas show that the list operations - moving to the head
(`ToHeadSound`), dropping the tail and its pool (`FrontSound`), a new head
(`ConsSound`) - preserve `Sound`; there is then one lemma per action, or per
group of actions alike. The faithfulness of `Insert` is the interesting case:
the entry bears the stamp of a stat made *before* the read, and `WriteFile`
chooses a stamp the load does not hold, so a file that changed in between no
longer has the entry's stamp. `ResultIsMostRecent` is inductive relative to the invariant
(`ResultStep`), and gives `PoolsNotLost` its last case: when a load that cached
returns, the pool it forgets is the one the head of the list owns. The other
cases are that a move to the head loses no element (`ToHeadKeeps`) and that what
leaves the list with the tail is destroyed (`EvictTailDestroys`). The refinement
(`ReadStep`) maps the steps that
decide a load's answer - the valid hit, the failed stat, the read, an
allocation that fails - to `Sample`, `Begin` to `Ask`, `Return` to `Return`,
edits to `Change`, the others to stuttering. It needs the invariant: that a hit
answers what the file holds is `StampFaithful`, and that eviction between
`parse` and `done` does not change the answer is `PoolsOwnedOnce`. `LoadsGetOn` is what
can be proved of `LoadReturns`, here and for any bound: a load only moves on,
and the one loop in it takes in each round an entry off the list and off `count`. The
loop asks `count` and takes from the list, so that needs `CacheBounded`.

`HtaccessWorkerProofs`, for every site, chain, `max_entries` and choice of faults:

| Theorem | Statement |
|---|---|
| `WorkerTypeCorrect` | `WorkerSpec => []WorkerTypeOK` |
| `QuietRulesLive` | `QuietSpec => []MergedRulesLive` |
| `SitesRulesApply` | `Faults = {}` implies `QuietSpec => []AppliedAreTheSites` |
| `RoomIsMadeOfOthers` | `WorkerSpec => OnlyStaleLookupsDestroy` |
| `CacheIsInvisibleToWalks` | `WorkerSpec => WalksTheFiles`, that is, `HtaccessWorker` implements `HtaccessWalk` |
| `WorkersCacheIsSound` | of `WorkerSpec`, what `HtaccessCacheProofs` has of `Spec`: `CacheBounded`, `PoolsOwnedOnce`, `StampFaithful`, `ResultIsMostRecent`, `PoolsNotLost`, `ReadsCorrectly` |
| `HandlersGetOn` | `WorkerSpec => HandlerGetsOn` |

It extends the cache's proofs: every step of the worker is a step of its cache or
leaves that alone (`StepOfTheCache`), so the cache's invariant `Parts` is at hand.
`QuietRulesLive` is the interesting one. On a site at rest no entry is ever stale
(`Fresh`), so that only the loop that makes room evicts, and from the tail. The
invariant `Held` gives each merged file its place: the pool of the i-th file
merged is within the first `Pushed(load, req.next - i)` positions of
the list, or (when its entry could not be stored) nowhere in it. Each later load
moves it down by one at most - that a hit only shifts what was before it is
`HitSpares`, that an insertion shifts all by one `InsertSpares` - and a list that
is full has as many entries as the longest chain has files, so what
`EvictForRoom` takes is beyond all of those places (`EvictionSpares`). `AtHead`
says where the place counts from: the load's answer is the head when it returns.

`SitesRulesApply` adds what the rules are. `Told` says that the answer of a load that
is over is what the file holds, `Reflects` that the rules merged are, in
order, those of the well-formed files among the directories walked so far; that they
are still in their pools at the end is `QuietRulesLive`'s `Held`. Its premise is
`Faults = {}`: a directory whose file could not be read for want of memory
is skipped, so without it the statement is false. The run has the same value.

`RoomIsMadeOfOthers` is the counterpart while files are edited and anything may
fail. `Spares` says where rules that are still there can be: of the file walked `d` loads
ago they are within the first `2 * d + 1` entries when a load is over, or nowhere in
the list. A later load can push them down twice, once when its lookup moves a stale
duplicate to the head and once when it stores; but then the lookup has evicted, and
there is room (`StaleSpares`, `StorePushes`). A pool that was destroyed can be taken
again and by chance be given rules like the old ones; then it belongs to a
load (`ParsePushesNot`). With `2 * n <= MaxEntries + 2` the tail of a full list is
below all those places, and so what destroys merged rules is a `LookupStale`.

`CacheIsInvisibleToWalks` is the refinement of one read carried to a whole walk, for
every way of editing and failing. A step of the cache is one of `HtaccessRead` or
none (`ReadStep`), and that read is the one the walk has asked for (`ReqShape`, which
also says that an answer that comes is for the next directory); `Take` keeps of the
answer what `TakeAnswer` does (`WalkTakes`): a hit or a parsed file has a pool and its
rules are the answer, a missing or faulty one has none (`NoRules`). `HtaccessExecute`,
which reads a directory in one step, rests on this theorem.

`HandlersGetOn` is what can be proved of `RequestEnds`: `LoadsGetOn` for the load the
request waits for, and around it the directories and the passes, each gone through in
one direction and bounded.

`HtaccessParserProofs`, for every text, every `MaxDepth`, and memory running out
at any point:

| Theorem | Statement |
|---|---|
| `AlwaysTyped` | `Spec => []ParserTypeOK` |
| `ParserReadsSections` | `Spec => ReadsSections`: `HtaccessParser` implements `HtaccessSections` |
| `AlwaysConditionsBelong` | `Spec => []ConditionsBelong` |
| `AlwaysScoped` | `Spec => []PatternsAreScoped` |
| `ParserConsumes` | `Spec => EachStepConsumes` |

That positions stay in the text (`SearchesStayInText`, `TokenInText`) and the index
within the arrays is most of `AlwaysTyped`. The refinement maps the array and its
index to the stack `[i \in 1 .. depth |-> files_match[i]]`; lexer steps stutter.
`ConditionsInv` adds to `ConditionsBelong` what waits: the conditions since the last
rule, in order. `ScopeInv` relates the stack to the lines seen: as long as there was
room, its i-th element is the pattern of the i-th block still open
(`StackIsEnclosing`), which needs a count of openings and closings (`CountStep`).
`ParserConsumes` bounds the steps that are left by four for each character and
a few more: that a token ends behind its first character, and the skipping
of a line behind its end, is `LexerGoesOn`.

`HtaccessExecuteProofs`, for every site, every set of requests, any number of
passes and edits, and whatever the rules are:

| Theorem | Statement |
|---|---|
| `ShapeKept` | `Spec => []Shape`: the records, the pass and the answer |
| `ExecuteTypesHold` | `Spec => []ExecuteTypeOK` |
| `LoopHeads` | `Spec => LoopHeadInStep` |
| `ReadingKept` | `Spec => []Reading`: `merged` is what the directories read so far say |
| `NothingRefused` | `Spec => []NothingRefusedIsServed` |
| `NothingIsReopened` | `Spec => []NothingReopened` |
| `DeniedStayDenied` | `Spec => []DeniedFilesStayDenied` |
| `ChainsKept` | `Spec => []ChainsHold` |
| `VariablesSettled` | `Spec => EnvSettled` |
| `QueryKept` | `Spec => []ClientQueryKept` |
| `HeadersOfTheServed` | `Spec => []HeadersAreOfTheServed` |
| `RequestsGetOn` | `Spec => RequestGetsOn` |
| `PolicyIsKept` | `Spec => KeepsToPolicy`: `HtaccessExecute` implements `HtaccessPolicy` |

They rest on lemmas about the operators, most of them in `HtaccessRewriteProofs`: that
merging a file into a context gives a context with the directives of both
(`MergeParsedType`), that a template yields words (`ExpandType`), that a variable
that is set stays what it is (`SetStaysSet`), and what one round of the rules
makes of the request (`RoundType`), of `chain_active` (`RoundOfChain`) and of the
query string (`TargetUriType`). The loops of the code are recursive functions in
the model; `HtaccessInduction` says that such a function exists (`Recursion`) and
that what holds at 0 and is handed on holds up to `n` (`InductionUpTo`).

`Typed` is the inductive invariant for the types: it says more than
`ExecuteTypeOK` of what the rules build - URIs, query string, variables, the merged
context - and of the counters, so that `challenges` never outruns `pass`.

`Reading` is the invariant that matters: while nothing has been edited, `merged` is
the context that the first `pos - 1` directories of `walked` give, and past the walk
that of all of them. `MergedDirs`, the definition it is compared with, is a
recursive function; that it exists and what it returns step by step is
`WalkExists`, `WalksAgree` and `MergedDirsStep`. `FirstPass` and `Checked` carry it to
the verdict: a pass that is not the first has left the rules on files behind it
(`PastTheFiles`), and what is let through has been asked for (`NotLetThrough`).
`Replying` carries it to the headers: none are set before the last step, which
takes them from `merged`.

`NothingIsReopened` is about the merge as much as about the verdict. What the verdict
reads, the Requires and the rules on files, only ever grows at its end: by a
directive (`MergeDirectiveGrows`, all the cases of `htaccess_merge_directive`), by a
file (`MergeParsedGrows`, by induction over its directives), and so from any
directory to the last (`AccessBelow`, by induction over those). The first Require
that decides stays where it is (`FirstStaysFirst`), and `Checked` says that the
verdict let the request through. `Order`, `Allow` and `Deny` are not of this kind: a
deeper file may reopen what they close, and may name another password file.

`PolicyIsKept` puts the invariants together. `Executing` is their conjunction, with
`NoStatusYet` (no redirect is sent before the end). An engine has the context that the
policy's parameters are taken from (`HasRead`, from `Reading`); beyond the rules on
files the request is `Open` (`PastIsOpen`, from `FirstPass`); a round of the rules that
replaces the URI, ends the pass or redirects does so by a rule whose flags say so
(`AsTold`, proved of one rule in `MatchedAsTold` and `RoundAsTold`, of the walk over the
rules in `RoundsAsTold`). `PolicyStep` then has one case per action: reading a directory
and going from engine to engine are stutters, the rest decisions with their ground.

`StepsExtend` is about any step of a request: variables that are set stay in their
places, and a context of rules that all have QSA or a `-` for a target
leaves what it finds of the query string at its end. `VariablesSettled` is the first half;
`QueryThere` makes an invariant of the second, since on such a site no
pass can merge any other rule.

`Chaining` carries `ChainsKept`: no rule has applied that follows one with flag C
which has not (`Chained`), and where the walk stands at a rule with flag C,
`chain_active` says whether that one has applied (`AtRule`). The second is needed for
the first: the walk comes to a rule from the one before it in its directory
(`ComesFromHead`), so `chain_active` cannot be that of another chain.

`RequestsGetOn` is the part of `RequestDecided` that can be proved, for any number of
passes, directories and rules: within a pass the handler only moves on, through
its engines, the directories of a URI that stays, and the rules of a context that
stays (`RoundsGoOn`), and it begins again at most `MaxRedirects` times.

`HtaccessConfigProofs`, for every set of configuration files, levels and workers,
and any number of reloads:

| Theorem | Statement |
|---|---|
| `ConfigTypesHold` | `Spec => []ConfigTypeOK` |
| `NearestValueWins` | `Spec => []NearestWins` |
| `PointerIsLeftLate` | `Spec => OnlyLateFailuresDangle` |
| `SizeCannotBeSet` | `Spec => OnlyTheDefaultSize` |

The invariant says of the configuration being read that it is not the one that
runs and that the pointer leads to it if and only if its `http { }` is done
(`Underway`), and of every one that is there that its number is 1024 (`Whole`):
no directive sets it, because none is accepted.

`NearestValueWins` takes three steps. While a file is read, what the levels hold is
what its directives up to some place say (`Holds`, `SetRead`); duplicates are refused, so
that there is one value at most for a name and a level. Merging goes from the
outermost level inwards, and hands on what is nearest (`NearbyNext`; `MergedIsRight` by
induction over the levels). What was merged stays until it is destroyed, whatever
happens to other cycles (`RightInv`, `RightStep`).

*Assumptions used* are the named ASSUMEs of the modules, all of which TLC
evaluates, and `Faults = {}` in `SitesRulesApply`. Those of `HtaccessExecute` say what
requests and files are made of: `RequestsAssumption` that URI, query string and headers
are sequences of words, `SitesAssumption` that a file is missing or a list of
`Directives`, the record that `htaccess_directive_t` is. `HtaccessConfig`
assumes that a default is one of the values that can be written (`ValuesAssumption`),
and that none of those is the mark of an unset member (`UnsetAssumption`).

*Only model-checked*: liveness (`LoadReturns`, `RequestEnds`, `RequestDecided`, `ParseEnds`),
which is beyond the prover: that a call which moves on and cannot do so for ever comes
to its end also takes that one of its steps is always enabled. Of each of the four the
part that needs no `ENABLED` is proved: `LoadsGetOn`, `HandlersGetOn`, `RequestsGetOn`,
`ParserConsumes`. And `LinesAsWritten`, which
compares the lexer with what the instance's documents are said to mean; a
definition of what a text means for all texts would be a second lexer.

## 5. What is not modelled, and why

* Failing allocations inside the merge, which drop a directive silently: each
  array would double the states, and what is lost is any one directive.
  Failures that end a pass, a parse or a load are modelled.
* Regular expressions: a pattern is the set of values it matches, with a group
  around all of it. Patterns that do not compile match nothing.
* Byte layout: the formatting of headers, crypt(3), the scan of a password file.
  `Passwords` says whom a file accepts, `Logins` who may come.
* Where a template's length counts, the pieces are counted and not the bytes.
* Several workers sharing a site: they share nothing but the file system, so each
  is one instance of the model, and the others' effect is that of the environment.
* Where nginx puts the handler among the phases, `nginx -t`, binary upgrades, a
  single process without a master; configurations that do not load the module.
* Packaging and test scripts: read for what they say of the program only.

## 6. Plan

Every component that keeps state, and every algorithm the requests depend on, has
its module. What would add to them:

1. Allocation failures in the merge, one array at a time: what a dropped directive
   may change, and which policy is left.
2. The environment variables in `HtaccessWorker`, whose names point into pools that a
   later pass may evict, as the rules and headers do.
3. `HtaccessPolicy` and `HtaccessWalk` together: a request decided on files that change
   between the reads of one walk, with the ground of each decision in what was read.
