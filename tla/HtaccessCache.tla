---------------------------- MODULE HtaccessCache ----------------------------
(***************************************************************************)
(* One nginx worker's LRU cache of parsed .htaccess files                  *)
(* (htaccess_cache.c) and htaccess_load_file (htaccess_walk.c), which      *)
(* reads one file through it.                                              *)
(*                                                                         *)
(* The worker is a single thread, so nothing else runs in it during a      *)
(* load.  Other processes do edit the file system meanwhile: a load is cut *)
(* into one step per system call that looks at the file (the stat of       *)
(* htaccess_cache_lookup, the stat of htaccess_load_file, the open and     *)
(* read of htaccess_parse_file), and edits happen between any two.         *)
(*                                                                         *)
(* A parsed file lives in a memory pool of its own, which the cache entry  *)
(* owns and destroys when it is evicted.                                   *)
(***************************************************************************)
EXTENDS Naturals, Sequences, SequencesExt

CONSTANTS
    Paths,       \* the .htaccess paths of the worker's directories
    Rules,       \* the possible parsed contents of a well-formed file
    Stamps,      \* the (st_mtime, st_size) pairs of existing files
    Pools,       \* memory pools ngx_create_pool can hand out
    MaxEntries,  \* cache->max_entries: htaccess_cache_max_entries, or 1024 for 0
    CacheFlags,  \* the values of htaccess_cache in the worker's locations
    Faults,      \* which of "pool", "entry", "io" may fail for want of resources
    Nil,         \* NULL, "no such file", and the stamp (0, 0) of an absent entry
    Malformed,   \* content htaccess_parse rejects
    Free         \* the state of a pool that is not allocated

ASSUME MaxEntriesAssumption == MaxEntries \in Nat \ {0}

ASSUME FlagsAssumption ==
    CacheFlags \subseteq BOOLEAN /\ Faults \subseteq {"pool", "entry", "io"}

\* A load whose rules are not stored abandons their pool, so memory runs out.
ASSUME MemoryAssumption ==
    FALSE \in CacheFlags \/ "entry" \in Faults => "pool" \in Faults

ASSUME NilAssumption == Nil \notin Paths \cup Rules \cup Stamps \cup Pools

ASSUME ContentsAssumption ==
    /\ Malformed \notin Rules \cup {Nil}
    /\ Free \notin Rules \cup {Nil, Malformed}

VARIABLES
    file,   \* file[p]: the file at path p, as stat, open and read show it
    lru,    \* cache->lru, the head (most recently used) first
    count,  \* cache->count
    heap,   \* heap[q]: Free, Nil (allocated, still empty) or the rules in pool q
    load    \* the htaccess_load_file call in progress

vars == <<file, lru, count, heap, load>>
worker == <<lru, count, heap, load>>

-----------------------------------------------------------------------------
(* The file system. *)

Missing == [stamp |-> Nil, rules |-> Nil, readable |-> TRUE]

\* A file that is there.  readable is what open(2) says; stat(2) ignores it.
Present == [stamp : Stamps, rules : Rules \cup {Malformed}, readable : BOOLEAN]

\* A stamp that a new version of the file at p can bear: none that the worker
\* still remembers for p.  This assumes that no two versions of a file that
\* are alive in the worker's memory have the same mtime and the same size.
FreshStamps(p) ==
    Stamps \ ({file[p].stamp} \cup {e.stamp : e \in {x \in ToSet(lru) : x.path = p}}
                \cup (IF load.path = p THEN {load.stamp} ELSE {}))

\* A process creates or rewrites the file.
WriteFile(p) ==
    /\ \E f \in Present :
         /\ f.stamp \in FreshStamps(p)
         /\ file' = [file EXCEPT ![p] = f]
    /\ UNCHANGED worker

\* A process removes the file, or renames it or a directory above it away.
RemoveFile(p) ==
    /\ file[p] # Missing
    /\ file' = [file EXCEPT ![p] = Missing]
    /\ UNCHANGED worker

\* chmod or chown: neither mtime nor size changes.
ChmodFile(p) ==
    /\ file[p] # Missing
    /\ file' = [file EXCEPT ![p].readable = ~@]
    /\ UNCHANGED worker

-----------------------------------------------------------------------------
(* The cache's list (htaccess_cache.c). *)

\* An absent entry has no rules; one with rules has the pool that holds them.
Entry == {e \in [path : Paths, stamp : Stamps \cup {Nil}, absent : BOOLEAN,
                 pool : Pools \cup {Nil}] :
            IF e.absent THEN e.pool = Nil ELSE e.stamp \in Stamps /\ e.pool \in Pools}

\* htaccess_cache_find walks from the head: of several entries for a path it
\* returns the one nearest to it.
FoundAt(i) ==
    /\ lru[i].path = load.path
    /\ \A j \in 1 .. i - 1 : lru[j].path # load.path

\* Seeded faults: the entry found is not moved; it is linked in twice.
ToHeadNotMoved(s, i) == s
ToHeadNotUnlinked(s, i) == Cons(s[i], s)

\* ... and moves that entry to the head.
ToHead(s, i) == Cons(s[i], RemoveAt(s, i))

\* Seeded fault: any file that is still there will do.
ValidIfPresent(e) == e.absent <=> file[e.path].stamp = Nil

\* The test of htaccess_cache_lookup: an absent entry stands while stat fails,
\* any other while stat gives the mtime and size it was stored with.
Valid(e) ==
    LET f == file[e.path] IN
    IF e.absent THEN f.stamp = Nil ELSE f.stamp = e.stamp

\* Seeded fault: cache->count is not decremented.
EvictTailUncounted(s) ==
    IF s = <<>>
    THEN lru' = s /\ UNCHANGED <<count, heap>>
    ELSE /\ lru' = Front(s)
         /\ UNCHANGED count
         /\ heap' = IF Last(s).pool = Nil THEN heap
                    ELSE [heap EXCEPT ![Last(s).pool] = Free]

\* htaccess_cache_evict on the list s: whatever the caller looked at, it is the
\* tail that goes, and with it the pool of the rules it holds.
EvictTail(s) ==
    IF s = <<>>
    THEN lru' = s /\ UNCHANGED <<count, heap>>
    ELSE /\ lru' = Front(s)
         /\ count' = count - 1
         /\ heap' = IF Last(s).pool = Nil THEN heap
                    ELSE [heap EXCEPT ![Last(s).pool] = Free]

-----------------------------------------------------------------------------
(* htaccess_load_file. *)

Idle == [pc |-> "idle", path |-> Nil, cached |-> TRUE, stamp |-> Nil,
         pool |-> Nil, rc |-> "none"]

\* Where a load goes when it has its result: into htaccess_cache_store when the
\* location caches, else out.
Finish(rc, pool) ==
    load' = [load EXCEPT !.pc = IF load.cached /\ rc # "error" THEN "store" ELSE "done",
                         !.rc = rc, !.pool = pool]

\* conf->cache_enable is TRUE or FALSE by the location that serves the request.
Begin(p) ==
    /\ load.pc = "idle"
    /\ \E c \in CacheFlags :
         load' = [Idle EXCEPT !.pc = IF c THEN "lookup" ELSE "stat",
                              !.path = p, !.cached = c]
    /\ UNCHANGED <<file, lru, count, heap>>

LookupMiss ==
    /\ load.pc = "lookup"
    /\ \A e \in ToSet(lru) : e.path # load.path
    /\ load' = [load EXCEPT !.pc = "stat"]
    /\ UNCHANGED <<file, lru, count, heap>>

LookupHit ==
    /\ load.pc = "lookup"
    /\ \E i \in DOMAIN lru :
         /\ FoundAt(i)
         /\ Valid(lru[i])
         /\ lru' = ToHead(lru, i)
         /\ load' = [load EXCEPT !.pc = "done", !.pool = lru[i].pool,
                                 !.rc = IF lru[i].absent THEN "declined" ELSE "ok"]
    /\ UNCHANGED <<file, count, heap>>

LookupStale ==
    /\ load.pc = "lookup"
    /\ \E i \in DOMAIN lru :
         /\ FoundAt(i)
         /\ ~Valid(lru[i])
         /\ EvictTail(ToHead(lru, i))
    /\ load' = [load EXCEPT !.pc = "stat"]
    /\ UNCHANGED file

\* stat finds no file: an absent entry with stamp (0, 0) is stored.
StatMissing ==
    /\ load.pc = "stat"
    /\ file[load.path] = Missing
    /\ Finish("declined", Nil)
    /\ UNCHANGED <<file, lru, count, heap>>

FreePools == {q \in Pools : heap[q] = Free}

\* stat finds the file, whose stamp is kept, and a pool is created for it.
StatPresent ==
    /\ load.pc = "stat"
    /\ file[load.path] # Missing
    /\ \E q \in FreePools :
         /\ heap' = [heap EXCEPT ![q] = Nil]
         /\ load' = [load EXCEPT !.pc = "parse", !.pool = q,
                                 !.stamp = file[load.path].stamp]
    /\ UNCHANGED <<file, lru, count>>

PoolFails ==
    /\ load.pc = "stat"
    /\ file[load.path] # Missing
    /\ "pool" \in Faults
    /\ load' = [load EXCEPT !.pc = "done", !.rc = "error"]
    /\ UNCHANGED <<file, lru, count, heap>>

\* htaccess_parse_file opens, reads and parses the file as it is now.
ParseOk ==
    /\ load.pc = "parse"
    /\ file[load.path].readable
    /\ file[load.path].rules \in Rules
    /\ heap' = [heap EXCEPT ![load.pool] = file[load.path].rules]
    /\ Finish("ok", load.pool)
    /\ UNCHANGED <<file, lru, count>>

\* Seeded fault: the pool of a file that could not be opened is kept.
ParseDeclinedKeepsPool ==
    /\ load.pc = "parse"
    /\ file[load.path] = Missing \/ ~file[load.path].readable
    /\ Finish("declined", Nil)
    /\ UNCHANGED <<file, lru, count, heap>>

\* The file was removed since the stat, or this process may not open it: the
\* pool is destroyed and an absent entry with the file's stamp is stored.
ParseDeclined ==
    /\ load.pc = "parse"
    /\ file[load.path] = Missing \/ ~file[load.path].readable
    /\ heap' = [heap EXCEPT ![load.pool] = Free]
    /\ Finish("declined", Nil)
    /\ UNCHANGED <<file, lru, count>>

\* htaccess_parse gives up, or fstat, malloc or read fails: nothing is stored.
ParseError ==
    /\ load.pc = "parse"
    /\ file[load.path] # Missing /\ file[load.path].readable
    /\ file[load.path].rules = Malformed \/ "io" \in Faults
    /\ heap' = [heap EXCEPT ![load.pool] = Free]
    /\ Finish("error", Nil)
    /\ UNCHANGED <<file, lru, count>>

\* Seeded fault: room is made one entry too late.
FullOffByOne == count > MaxEntries

Full == count >= MaxEntries

\* htaccess_cache_store: one round of its loop ...
EvictForRoom ==
    /\ load.pc = "store"
    /\ Full
    /\ EvictTail(lru)
    /\ UNCHANGED <<file, load>>

\* Seeded fault: the entry bears the stamp of a stat made after the read.
InsertStampedLate ==
    /\ load.pc = "store"
    /\ ~Full
    /\ lru' = Cons([path |-> load.path, stamp |-> file[load.path].stamp,
                    absent |-> load.rc = "declined", pool |-> load.pool], lru)
    /\ count' = count + 1
    /\ load' = [load EXCEPT !.pc = "done"]
    /\ UNCHANGED <<file, heap>>

\* Seeded fault: ngx_queue_insert_tail for ngx_queue_insert_head.
InsertAtTail ==
    /\ load.pc = "store"
    /\ ~Full
    /\ lru' = Append(lru, [path |-> load.path, stamp |-> load.stamp,
                          absent |-> load.rc = "declined", pool |-> load.pool])
    /\ count' = count + 1
    /\ load' = [load EXCEPT !.pc = "done"]
    /\ UNCHANGED <<file, heap>>

\* ... and, once there is room, the new entry.
Insert ==
    /\ load.pc = "store"
    /\ ~Full
    /\ lru' = Cons([path |-> load.path, stamp |-> load.stamp,
                    absent |-> load.rc = "declined", pool |-> load.pool], lru)
    /\ count' = count + 1
    /\ load' = [load EXCEPT !.pc = "done"]
    /\ UNCHANGED <<file, heap>>

\* ngx_alloc fails; htaccess_load_file ignores that nothing was stored.
InsertFails ==
    /\ load.pc = "store"
    /\ ~Full
    /\ "entry" \in Faults
    /\ load' = [load EXCEPT !.pc = "done"]
    /\ UNCHANGED <<file, lru, count, heap>>

\* Seeded fault: the last call's result is left for the next (*parsed = NULL).
ReturnUnreset ==
    /\ load.pc = "done"
    /\ load' = [load EXCEPT !.pc = "idle"]
    /\ UNCHANGED <<file, lru, count, heap>>

Return ==
    /\ load.pc = "done"
    /\ load' = Idle
    /\ UNCHANGED <<file, lru, count, heap>>

-----------------------------------------------------------------------------
(* A worker starts with an empty cache (htaccess_cache_init). *)

Init ==
    /\ file \in [Paths -> Present \cup {Missing}]
    /\ lru = <<>>
    /\ count = 0
    /\ heap = [q \in Pools |-> Free]
    /\ load = Idle

\* What the call does once made, up to the return.
Run ==
    \/ LookupMiss \/ LookupHit \/ LookupStale
    \/ StatMissing \/ StatPresent \/ PoolFails
    \/ ParseOk \/ ParseDeclined \/ ParseError
    \/ EvictForRoom \/ Insert \/ InsertFails

Environment == \E p \in Paths : WriteFile(p) \/ RemoveFile(p) \/ ChmodFile(p)

Next ==
    \/ Run \/ Return \/ Environment
    \/ \E p \in Paths : Begin(p)

\* The worker is a running thread: a call it has made goes on.
Spec == Init /\ [][Next]_vars /\ WF_vars(Run \/ Return)

-----------------------------------------------------------------------------
(* Properties. *)

\* The call's local variables, stage by stage.
LoadShape ==
    /\ load.pc = "idle" => load = Idle
    /\ load.pc # "idle" => load.path \in Paths
    /\ load.pc \in {"lookup", "stat"} => load.pool = Nil /\ load.rc = "none"
    /\ load.pc = "parse" => load.pool \in Pools /\ load.stamp \in Stamps
    /\ load.pc = "store" => /\ load.cached /\ load.rc \in {"ok", "declined"}
                            /\ load.rc = "ok" => load.stamp \in Stamps
    /\ load.pc \in {"store", "done"} => load.rc # "none" /\ (load.rc = "ok" <=> load.pool # Nil)

TypeOK ==
    /\ file \in [Paths -> Present \cup {Missing}]
    /\ lru \in Seq(Entry)
    /\ count \in Nat
    /\ heap \in [Pools -> Rules \cup {Nil, Free}]
    /\ load \in [pc     : {"idle", "lookup", "stat", "parse", "store", "done"},
                 path   : Paths \cup {Nil},
                 cached : BOOLEAN,
                 stamp  : Stamps \cup {Nil},
                 pool   : Pools \cup {Nil},
                 rc     : {"none", "ok", "declined", "error"}]
    /\ LoadShape

\* cache->count is kept by hand beside the list, on every path through evict
\* and store, and it is what stops the loop that makes room: it must be the
\* length of the list, and the list never longer than max_entries.
CacheBounded == count = Len(lru) /\ count <= MaxEntries

\* The pool that the load in progress has created and not yet handed on.
Building == load.pc \in {"parse", "store"} /\ load.pool # Nil

\* Every entry with rules owns a live pool that holds them, and owns it alone;
\* so no eviction destroys a pool twice, or the pool of another entry, or the
\* one a load is about to store; and the rules a load answers with are still
\* there when its caller gets them, whatever was evicted on the way.
PoolsOwnedOnce ==
    /\ \A i \in DOMAIN lru :
         ~lru[i].absent => /\ heap[lru[i].pool] \in Rules
                           /\ Building => lru[i].pool # load.pool
    /\ \A i, j \in DOMAIN lru :
         i # j /\ ~lru[i].absent => lru[i].pool # lru[j].pool
    /\ load.pc = "parse" => heap[load.pool] = Nil
    /\ load.pc \in {"store", "done"} /\ load.rc = "ok" => heap[load.pool] \in Rules

\* While a file bears the stamp an entry was stored with, the entry's rules are
\* that file's.  The stamp comes from a stat made before the file is read, so
\* rules newer than their stamp do enter the cache; what saves them is that
\* the stamp is then no longer the file's.
StampFaithful ==
    /\ \A e \in ToSet(lru) :
         ~e.absent /\ e.stamp = file[e.path].stamp => heap[e.pool] = file[e.path].rules
    /\ load.pc = "store" /\ load.rc = "ok" /\ load.stamp = file[load.path].stamp
         => heap[load.pool] = file[load.path].rules

\* A load that caches leaves its answer at the head of the list, whether it
\* found it there, had to throw out a stale entry, or had to make room.
ResultIsMostRecent ==
    load.pc = "done" /\ load.cached /\ load.rc # "error" /\ "entry" \notin Faults =>
        /\ lru # <<>>
        /\ Head(lru).path = load.path
        /\ Head(lru).pool = load.pool
        /\ Head(lru).absent <=> load.rc = "declined"

Owned(q) == (\E e \in ToSet(lru) : e.pool = q) \/ (load.pc # "idle" /\ load.pool = q)

\* A pool is destroyed before its last owner forgets it, except that a load
\* that does not cache abandons the pool of its rules when it returns, and a
\* load whose entry could not be allocated does too.
PoolsNotLost ==
    [][\A q \in Pools : Owned(q) /\ ~Owned(q)' /\ heap'[q] # Free
           => Return /\ (~load.cached \/ "entry" \in Faults)]_vars

Stage == [idle |-> 0, lookup |-> 1, stat |-> 2, parse |-> 3, store |-> 4, done |-> 5]

\* A call never goes back, whatever happens to the files and whatever fails, and each
\* round of the loop that makes room takes one entry of those that count says are
\* there: a load has at most MaxEntries + 5 steps.
LoadGetsOn ==
    [][worker' # worker /\ load.pc # "done" =>
          \/ Stage[load'.pc] > Stage[load.pc]
          \/ load.pc = "store" /\ load' = load /\ count' < count /\ Len(lru') < Len(lru)]_vars

\* A call that was made returns: the loop that makes room ends.
LoadReturns == load.pc # "idle" ~> load.pc = "idle"

-----------------------------------------------------------------------------
(***************************************************************************)
(* The cache is invisible: a load answers as one read of the file would    *)
(* that happens at some instant of the call.  That instant is the stat of  *)
(* a hit, the stat that finds no file, or the read.                        *)
(***************************************************************************)
Answer == CASE load.rc = "ok"       -> heap[load.pool]
            [] load.rc = "declined" -> Nil
            [] OTHER                -> Malformed

ReadBar ==
    [pc     |-> CASE load.pc = "idle"                        -> "idle"
                  [] load.pc \in {"lookup", "stat", "parse"} -> "asked"
                  [] OTHER                                   -> "answered",
     path   |-> load.path,
     answer |-> IF load.pc \in {"store", "done"} THEN Answer ELSE Nil]

DiskBar ==
    [p \in Paths |-> [rules |-> file[p].rules, readable |-> file[p].readable]]

Read == INSTANCE HtaccessRead WITH
            disk <- DiskBar, read <- ReadBar,
            MayFail <- Faults # {}

ReadsCorrectly == Read!Spec

=============================================================================
