------------------------- MODULE HtaccessWorkerProofs -------------------------
(***************************************************************************)
(* Theorems about HtaccessWorker, for every site, every max_entries and    *)
(* every choice of faults.                                                 *)
(***************************************************************************)
EXTENDS HtaccessWorker, HtaccessCacheProofs

-----------------------------------------------------------------------------
(* The types, and what the call in progress has to do with the request. *)

Requests ==
    [pc : {"none", "walk", "apply"}, chain : Chains \cup {<<>>},
     next : Nat \ {0}, pass : Nat, merged : Seq(Merged)]

ReqShape ==
    /\ req \in Requests
    /\ replies \subseteq Seq(Merged)
    /\ req.pc # "none" => req.chain \in Chains
    /\ load.pc # "idle" => /\ req.pc = "walk" /\ req.next =< Len(req.chain)
                           /\ load.path = req.chain[req.next]

LEMMA ChainTypes ==
    ASSUME NEW c \in Chains
    PROVE  c \in Seq(Paths) /\ Len(c) \in Nat /\ \A k \in 1 .. Len(c) : c[k] \in Paths
BY ChainsAssumption

LEMMA AskBegins ==
    ASSUME ReqShape, Ask
    PROVE  \E p \in Paths : p = req.chain[req.next] /\ Begin(p)
<1>1. req.chain \in Chains /\ req.next \in 1 .. Len(req.chain)
  BY ChainTypes DEF Ask, ReqShape, Requests
<1> QED
  BY <1>1, ChainTypes DEF Ask

\* A step of the worker is a step of its cache, or leaves it alone.
LEMMA StepOfTheCache ==
    ASSUME ReqShape, [WorkerNext]_workerVars
    PROVE  [Next]_vars
<1>1. CASE Ask
  BY <1>1, AskBegins DEF Next
<1>2. CASE Arrive \/ Walked \/ Rewritten \/ LetThrough \/ Answered \/ SendReply \/ UNCHANGED workerVars
  BY <1>2 DEF Arrive, Walked, Rewritten, LetThrough, Answered, SendReply, workerVars
<1>3. CASE Take \/ Run \/ Environment
  BY <1>3 DEF Take, Next
<1> QED
  BY <1>1, <1>2, <1>3 DEF WorkerNext, Serve, Handler

LEMMA EmptyRequest ==
    /\ \A c \in Chains, n \in Nat : /\ Walk(c, n) \in Requests
                                    /\ Walk(c, n).pc = "walk" /\ Walk(c, n).chain = c
                                    /\ Walk(c, n).merged = <<>> /\ Walk(c, n).next = 1
    /\ NoRequest \in Requests /\ NoRequest.pc = "none" /\ NoRequest.merged = <<>>
<1>1. <<>> \in Seq(Merged)
  OBVIOUS
<1> QED
  BY <1>1 DEF Walk, NoRequest, Requests

\* The rules that Take adds are there and in a pool.
LEMMA TakenIsMerged ==
    ASSUME Parts, load.pc = "done", load.rc = "ok"
    PROVE  [path |-> load.path, pool |-> load.pool, rules |-> heap[load.pool]] \in Merged
<1>1. load.path \in Paths
  BY DEF Parts, TypeOK, LoadShape
<1>2. load.pool \in Pools
  BY DEF Parts, TypeOK, LoadShape
<1>3. heap[load.pool] \in Rules
  BY DEF Parts, LoadSound
<1> QED
  BY <1>1, <1>2, <1>3 DEF Merged

\* What Take makes of the request.
LEMMA Taken ==
    ASSUME Parts, ReqShape, Take
    PROVE  LET e == [path |-> load.path, pool |-> load.pool, rules |-> heap[load.pool]]
           IN  /\ req' \in Requests
               /\ req'.pc = "walk" /\ req'.chain = req.chain /\ req'.next = req.next + 1
               /\ req'.merged = IF load.rc = "ok" THEN Append(req.merged, e) ELSE req.merged
<1> DEFINE e == [path |-> load.path, pool |-> load.pool, rules |-> heap[load.pool]]
           m == IF load.rc = "ok" THEN Append(req.merged, e) ELSE req.merged
<1>1. req.pc = "walk" /\ load.pc = "done" /\ req' = [req EXCEPT !.next = @ + 1, !.merged = m]
  BY DEF Take, Return
<1>2. m \in Seq(Merged)
  BY <1>1, TakenIsMerged DEF ReqShape, Requests
<1> HIDE DEF m
<1>3. /\ req' \in Requests /\ req'.pc = "walk" /\ req'.chain = req.chain
      /\ req'.next = req.next + 1 /\ req'.merged = m
  <2> DEFINE z == [req EXCEPT !.next = req.next + 1]
  <2>1. z \in Requests /\ z.pc = req.pc /\ z.chain = req.chain /\ z.next = req.next + 1
    BY DEF ReqShape, Requests
  <2>2. req' = [z EXCEPT !.merged = m]
    BY <1>1
  <2> HIDE DEF z
  <2> QED
    BY <1>1, <1>2, <2>1, <2>2 DEF Requests
<1> QED
  BY <1>3 DEF m

LEMMA ReqShapeStep ==
    ASSUME Parts, ReqShape, [WorkerNext]_workerVars
    PROVE  ReqShape'
<1>1. CASE Arrive \/ Rewritten
  <2>1. PICK c \in Chains, n \in Nat : req' = Walk(c, n) /\ UNCHANGED <<vars, replies>>
    BY <1>1 DEF Arrive, Rewritten, ReqShape, Requests
  <2>2. load.pc = "idle"
    BY <1>1 DEF Arrive, Rewritten, ReqShape
  <2> QED
    BY <2>1, <2>2, EmptyRequest DEF ReqShape, vars
<1>2. CASE Ask
  <2>1. load.pc = "idle" /\ load'.path = req.chain[req.next] /\ UNCHANGED handler
    BY <1>2 DEF Ask, Begin, Idle
  <2> QED
    BY <1>2, <2>1 DEF Ask, ReqShape, handler
<1>3. CASE Take
  <2>1. load'.pc = "idle" /\ replies' = replies
    BY <1>3 DEF Take, Return, Idle
  <2> QED
    BY <1>3, <2>1, Taken DEF ReqShape, Take, Return
<1>4. CASE Walked
  BY <1>4 DEF Walked, ReqShape, Requests, vars
<1>5. CASE LetThrough
  <2>1. req' = NoRequest /\ replies' \subseteq Seq(Merged) /\ UNCHANGED vars /\ load.pc = "idle"
    <3>1. <<>> \in Seq(Merged) /\ req.merged \in Seq(Merged)
      BY DEF ReqShape, Requests
    <3>2. load.pc = "idle"
      BY <1>5 DEF LetThrough, ReqShape
    <3> QED
      BY <1>5, <3>1, <3>2 DEF LetThrough, ReqShape
  <2> QED
    BY <2>1, EmptyRequest DEF ReqShape, vars
<1>6. CASE Answered
  <2>1. req' = NoRequest /\ UNCHANGED <<vars, replies>> /\ load.pc = "idle"
    BY <1>6 DEF Answered, ReqShape
  <2> QED
    BY <2>1, EmptyRequest DEF ReqShape, vars
<1>7. CASE SendReply
  BY <1>7 DEF SendReply, ReqShape, vars
<1>8. CASE (Run \/ Environment) /\ UNCHANGED handler
  <2>1. load.pc # "idle" \/ load' = load
    BY <1>8 DEF Run, LookupMiss, LookupHit, LookupStale, StatMissing, StatPresent, PoolFails,
                ParseOk, ParseDeclined, ParseError, EvictForRoom, Insert, InsertFails,
                Environment, WriteFile, RemoveFile, ChmodFile, worker
  <2>2. load'.path = load.path
    BY <1>8 DEF Parts, TypeOK, Run, LookupMiss, LookupHit, LookupStale, StatMissing, StatPresent,
                PoolFails, ParseOk, ParseDeclined, ParseError, EvictForRoom, Insert, InsertFails,
                Environment, WriteFile, RemoveFile, ChmodFile, worker, Finish
  <2> QED
    BY <1>8, <2>1, <2>2 DEF ReqShape, handler
<1>9. CASE UNCHANGED workerVars
  BY <1>9 DEF workerVars, handler, vars, ReqShape
<1> QED
  BY <1>1, <1>2, <1>3, <1>4, <1>5, <1>6, <1>7, <1>8, <1>9 DEF WorkerNext, Serve, Handler

LEMMA AlwaysShaped == WorkerSpec => [](Parts /\ ReqShape)
<1>1. WorkerInit => Parts /\ ReqShape
  BY InitParts, EmptyRequest DEF WorkerInit, ReqShape, Init, Idle
<1>2. Parts /\ ReqShape /\ [WorkerNext]_workerVars => (Parts /\ ReqShape)'
  BY StepOfTheCache, NextParts, ReqShapeStep
<1> QED
  BY <1>1, <1>2, PTL DEF WorkerSpec

\* The request, the replies and the cache are always well formed, and a load that is
\* in progress is for the directory that the walk is at.
THEOREM WorkerTypeCorrect == WorkerSpec => []WorkerTypeOK
<1>1. Parts /\ ReqShape => WorkerTypeOK
  BY DEF Parts, ReqShape, Requests, WorkerTypeOK
<1> QED
  BY <1>1, AlwaysShaped, PTL

-----------------------------------------------------------------------------
(* On a site at rest no lookup is stale. *)

Fresh ==
    /\ \A p \in Paths : file[p].readable
    /\ \A i \in 1 .. Len(lru) : Valid(lru[i])
    /\ load.pc = "parse" => /\ file[load.path] # Missing
                            /\ load.stamp = file[load.path].stamp
    /\ load.pc = "store" => IF load.rc = "declined" THEN file[load.path].stamp = Nil
                            ELSE load.stamp = file[load.path].stamp

\* The tail of the list goes; of a list that is not empty, as it is when room is made.
LEMMA Evicted ==
    ASSUME Parts, EvictForRoom
    PROVE  /\ Len(lru) \in Nat \ {0} /\ Len(lru) >= MaxEntries
           /\ Len(lru') = Len(lru) - 1
           /\ \A k \in 1 .. Len(lru) - 1 : lru'[k] = lru[k]
           /\ heap' = IF lru[Len(lru)].pool = Nil THEN heap
                      ELSE [heap EXCEPT ![lru[Len(lru)].pool] = Free]
<1>1. lru \in Seq(Entry) /\ Len(lru) \in Nat /\ Len(lru) >= MaxEntries
  BY LenProperties DEF Parts, TypeOK, CacheBounded, EvictForRoom, Full
<1>2. lru # <<>>
  BY <1>1, MaxEntriesAssumption, EmptySeq
<1>3. /\ Len(Front(lru)) = Len(lru) - 1
      /\ \A k \in 1 .. Len(lru) - 1 : Front(lru)[k] = lru[k]
      /\ Last(lru) = lru[Len(lru)]
  BY <1>1, <1>2, FrontProperties
<1> QED
  BY <1>1, <1>2, <1>3, MaxEntriesAssumption DEF EvictForRoom, EvictTail

\* What a hit does to the list.
LEMMA Hit ==
    ASSUME Parts, LookupHit
    PROVE  \E i \in 1 .. Len(lru) :
              /\ lru' = ToHead(lru, i) /\ lru' \in Seq(Entry) /\ Len(lru') = Len(lru)
              /\ \A j \in 1 .. Len(lru) : /\ Origin(i, j) \in 1 .. Len(lru)
                                          /\ lru'[j] = lru[Origin(i, j)]
              /\ load'.pc = "done" /\ load'.pool = lru[i].pool
              /\ heap' = heap
<1>1. lru \in Seq(Entry) /\ DOMAIN lru = 1 .. Len(lru)
  BY DEF Parts, TypeOK
<1>2. PICK i \in 1 .. Len(lru) :
        /\ lru' = ToHead(lru, i)
        /\ load' = [load EXCEPT !.pc = "done", !.pool = lru[i].pool,
                                !.rc = IF lru[i].absent THEN "declined" ELSE "ok"]
        /\ heap' = heap
  BY <1>1 DEF LookupHit
<1>3. load'.pc = "done" /\ load'.pool = lru[i].pool
  BY <1>2 DEF Parts, TypeOK
<1>4. /\ ToHead(lru, i) \in Seq(Entry) /\ Len(ToHead(lru, i)) = Len(lru)
      /\ \A j \in 1 .. Len(lru) : /\ Origin(i, j) \in 1 .. Len(lru)
                                  /\ ToHead(lru, i)[j] = lru[Origin(i, j)]
  BY <1>1, ToHeadProperties
<1> QED
  BY <1>2, <1>3, <1>4

\* What storing does to it.
LEMMA Inserted ==
    ASSUME Parts, Insert
    PROVE  LET e == [path |-> load.path, stamp |-> load.stamp,
                     absent |-> load.rc = "declined", pool |-> load.pool]
           IN  /\ Len(lru) \in Nat /\ Len(lru') = Len(lru) + 1
               /\ lru'[1] = e
               /\ \A k \in 2 .. Len(lru) + 1 : lru'[k] = lru[k - 1]
<1> DEFINE e == [path |-> load.path, stamp |-> load.stamp,
                 absent |-> load.rc = "declined", pool |-> load.pool]
<1>1. lru \in Seq(Entry) /\ Len(lru) \in Nat /\ lru' = Cons(e, lru)
  BY LenProperties DEF Parts, TypeOK, Insert
<1> HIDE DEF e
<1>2. lru \in Seq(Entry \cup {e}) /\ e \in Entry \cup {e}
  BY <1>1
<1>3. /\ Len(Cons(e, lru)) = Len(lru) + 1
      /\ Cons(e, lru)[1] = e
      /\ \A k \in 2 .. Len(lru) + 1 : Cons(e, lru)[k] = lru[k - 1]
  BY <1>2, SMT DEF Cons
<1> QED
  BY <1>1, <1>3 DEF e

LEMMA NoStaleLookup ==
    ASSUME Parts, Fresh
    PROVE  ~LookupStale
BY DEF LookupStale, Fresh, Parts, TypeOK

LEMMA FreshRun ==
    ASSUME Parts, Fresh, Run
    PROVE  Fresh'
<1>1. file' = file
  BY DEF Run, LookupMiss, LookupHit, LookupStale, StatMissing, StatPresent, PoolFails,
         ParseOk, ParseDeclined, ParseError, EvictForRoom, Insert, InsertFails
<1>2. \A e : Valid(e)' <=> Valid(e)
  BY <1>1 DEF Valid
<1>3. CASE LookupMiss \/ PoolFails \/ InsertFails
  BY <1>1, <1>2, <1>3 DEF Fresh, LookupMiss, PoolFails, InsertFails, Parts, TypeOK
<1>4. CASE LookupHit
  BY <1>1, <1>2, <1>4, Hit DEF Fresh
<1>5. CASE StatMissing
  BY <1>1, <1>2, <1>5 DEF Fresh, StatMissing, Missing, Finish, Parts, TypeOK
<1>6. CASE StatPresent
  BY <1>1, <1>2, <1>6 DEF Fresh, StatPresent, Parts, TypeOK
<1>7. CASE ParseOk
  BY <1>1, <1>2, <1>7 DEF Fresh, ParseOk, Finish, Parts, TypeOK
<1>8. CASE ParseDeclined
  <2>1. load.path \in Paths
    BY <1>8 DEF ParseDeclined, Parts, TypeOK, LoadShape
  <2> QED
    BY <1>8, <2>1 DEF Fresh, ParseDeclined
<1>9. CASE ParseError
  BY <1>1, <1>2, <1>9 DEF Fresh, ParseError, Finish, Parts, TypeOK
<1>10. CASE EvictForRoom
  BY <1>1, <1>2, <1>10, Evicted DEF Fresh, EvictForRoom
<1>11. CASE Insert
  <2>1. \A k \in 1 .. Len(lru') : Valid(lru'[k])
    <3>1. SUFFICES ASSUME NEW k \in 1 .. Len(lru') PROVE Valid(lru'[k])
      OBVIOUS
    <3>2. CASE k = 1
      <4> DEFINE e == lru'[1]
      <4>1. e = [path |-> load.path, stamp |-> load.stamp,
                 absent |-> load.rc = "declined", pool |-> load.pool]
        BY <1>11, Inserted
      <4> HIDE DEF e
      <4>2. IF load.rc = "declined" THEN file[load.path].stamp = Nil
            ELSE load.stamp = file[load.path].stamp
        BY <1>11 DEF Fresh, Insert
      <4>3. Valid(e)
        <5>1. CASE load.rc = "declined"
          <6>1. (load.rc = "declined") = TRUE
            BY <5>1
          <6>2. e = [path |-> load.path, stamp |-> load.stamp,
                     absent |-> TRUE, pool |-> load.pool]
            BY <4>1, <6>1, Zenon
          <6> QED
            BY <4>2, <5>1, <6>2 DEF Valid
        <5>2. CASE load.rc # "declined"
          <6>1. (load.rc = "declined") = FALSE
            BY <5>2
          <6>2. e = [path |-> load.path, stamp |-> load.stamp,
                     absent |-> FALSE, pool |-> load.pool]
            BY <4>1, <6>1, Zenon
          <6> QED
            BY <4>2, <5>2, <6>2 DEF Valid
        <5> QED
          BY <5>1, <5>2
      <4> QED
        BY <3>2, <4>3 DEF e
    <3>3. CASE k # 1
      <4>1. k - 1 \in 1 .. Len(lru) /\ lru'[k] = lru[k - 1]
        BY <1>11, <3>3, Inserted
      <4> QED
        BY <4>1 DEF Fresh
    <3> QED
      BY <3>2, <3>3
  <2>2. load'.pc = "done"
    BY <1>11 DEF Insert, Parts, TypeOK
  <2> QED
    BY <1>1, <1>2, <2>1, <2>2 DEF Fresh
<1> QED
  BY <1>3, <1>4, <1>5, <1>6, <1>7, <1>8, <1>9, <1>10, <1>11, NoStaleLookup DEF Run

-----------------------------------------------------------------------------
(***************************************************************************)
(* The rules merged on a site at rest are kept.  The i-th file merged is   *)
(* no deeper in the list than the loads since then can have pushed it,     *)
(* which is less than max_entries, and room is made at the tail; or else   *)
(* it was never stored, and nothing can destroy it.                        *)
(***************************************************************************)
Within(s, q, b) == \E k \in 1 .. Len(s) : k <= b /\ s[k].pool = q

Nowhere(s, q) == \A k \in 1 .. Len(s) : s[k].pool # q

Kept(e, h, s, l, b) ==
    /\ h[e.pool] = e.rules
    /\ \/ Within(s, e.pool, b)
       \/ Nowhere(s, e.pool) /\ (l.pc # "idle" => l.pool # e.pool)

Pushed(l, b) == IF l.pc = "done" THEN b + 1 ELSE b

Held == \A i \in 1 .. Len(req.merged) :
           i < req.next /\ Kept(req.merged[i], heap, lru, load, Pushed(load, req.next - i))

\* A load that answers with rules leaves their entry at the head, or never had one.
AtHead ==
    load.pc = "done" /\ load.rc = "ok" =>
        (Len(lru) # 0 /\ lru[1].pool = load.pool) \/ Nowhere(lru, load.pool)

\* A pool that the load is filling is nowhere in the list.
LEMMA BuildingIsNowhere ==
    ASSUME Parts, Building
    PROVE  Nowhere(lru, load.pool)
<1>1. lru \in Seq(Entry)
  BY DEF Parts, TypeOK
<1>2. SUFFICES ASSUME NEW k \in 1 .. Len(lru) PROVE lru[k].pool # load.pool
  BY DEF Nowhere
<1>3. lru[k] \in Entry
  BY <1>1, ElementOfSeq
<1> QED
  BY <1>3 DEF Parts, Unowned, Building, Entry

\* Entries with a pool have one each.
LEMMA PoolsApart ==
    ASSUME Parts, NEW k \in 1 .. Len(lru), NEW j \in 1 .. Len(lru), k # j, lru[k].pool \in Pools
    PROVE  lru[k].pool # lru[j].pool
<1>1. lru[k] \in Entry
  BY ElementOfSeq DEF Parts, TypeOK
<1>2. ~lru[k].absent
  BY <1>1, NilAssumption DEF Entry
<1> QED
  BY <1>2 DEF Parts, Sound

\* What the load destroys or fills while it parses is not what was merged.
LEMMA ParseSpares ==
    ASSUME Parts, NEW e \in Merged, NEW b \in Nat, Kept(e, heap, lru, load, b), load.pc = "parse"
    PROVE  load.pool # e.pool
<1>1. Nowhere(lru, load.pool)
  BY BuildingIsNowhere, NilAssumption DEF Building, Parts, TypeOK, LoadShape
<1> QED
  BY <1>1 DEF Kept, Within, Nowhere

LEMMA EvictionSpares ==
    ASSUME Parts, NEW e \in Merged, NEW b \in Nat, b < MaxEntries,
           Kept(e, heap, lru, load, b), EvictForRoom
    PROVE  Kept(e, heap', lru', load', b)
<1> DEFINE n == Len(lru)
<1>1. /\ n \in Nat \ {0} /\ n >= MaxEntries /\ Len(lru') = n - 1
      /\ \A k \in 1 .. n - 1 : lru'[k] = lru[k]
      /\ heap' = IF lru[n].pool = Nil THEN heap ELSE [heap EXCEPT ![lru[n].pool] = Free]
      /\ load' = load
  BY Evicted DEF EvictForRoom
<1>2. e.pool \in Pools
  BY DEF Merged
<1>3. CASE Within(lru, e.pool, b)
  <2>1. PICK k \in 1 .. n : k <= b /\ lru[k].pool = e.pool
    BY <1>3 DEF Within
  <2>2. k \in 1 .. n - 1 /\ k # n /\ n \in 1 .. n
    BY <1>1, <2>1, MaxEntriesAssumption
  <2>3. lru[n].pool # e.pool
    BY <1>2, <2>1, <2>2, PoolsApart
  <2>4. heap'[e.pool] = heap[e.pool]
    BY <1>1, <1>2, <2>3 DEF Parts, TypeOK
  <2> QED
    BY <1>1, <2>1, <2>2, <2>4 DEF Kept, Within
<1>4. CASE Nowhere(lru, e.pool) /\ load.pool # e.pool
  <2>1. lru[n].pool # e.pool
    BY <1>1, <1>4 DEF Nowhere
  <2>2. heap'[e.pool] = heap[e.pool]
    BY <1>1, <1>2, <2>1 DEF Parts, TypeOK
  <2> QED
    BY <1>1, <1>4, <2>2 DEF Kept, Nowhere
<1> QED
  BY <1>3, <1>4 DEF Kept, EvictForRoom

LEMMA HitSpares ==
    ASSUME Parts, NEW e \in Merged, NEW b \in Nat, Kept(e, heap, lru, load, b), LookupHit
    PROVE  Kept(e, heap', lru', load', b + 1)
<1>0. Len(lru) \in Nat
  BY LenProperties DEF Parts, TypeOK
<1>1. PICK i \in 1 .. Len(lru) :
        /\ lru' = ToHead(lru, i) /\ lru' \in Seq(Entry) /\ Len(lru') = Len(lru)
        /\ \A j \in 1 .. Len(lru) : /\ Origin(i, j) \in 1 .. Len(lru)
                                    /\ lru'[j] = lru[Origin(i, j)]
        /\ load'.pc = "done" /\ load'.pool = lru[i].pool
        /\ heap' = heap
  BY Hit
<1>2. CASE Within(lru, e.pool, b)
  <2>1. PICK k \in 1 .. Len(lru) : k <= b /\ lru[k].pool = e.pool
    BY <1>2 DEF Within
  <2>2. \E j \in 1 .. Len(lru) : Origin(i, j) = k /\ j <= k + 1
    <3>1. CASE k = i
      <4>1. 1 \in 1 .. Len(lru) /\ Origin(i, 1) = k /\ 1 <= k + 1
        BY <1>0, <3>1 DEF Origin
      <4> QED
        BY <4>1
    <3>2. CASE k < i
      <4>1. k + 1 \in 1 .. Len(lru) /\ Origin(i, k + 1) = k
        BY <1>0, <3>2 DEF Origin
      <4> QED
        BY <4>1
    <3>3. CASE k > i
      <4>1. Origin(i, k) = k
        BY <1>0, <3>3 DEF Origin
      <4> QED
        BY <4>1, <1>0
    <3> QED
      BY <3>1, <3>2, <3>3, <1>0
  <2>3. PICK j \in 1 .. Len(lru) : Origin(i, j) = k /\ j <= k + 1
    BY <2>2
  <2>4. j <= b + 1 /\ lru'[j].pool = e.pool /\ j \in 1 .. Len(lru')
    BY <1>0, <1>1, <2>1, <2>3
  <2> QED
    BY <1>1, <2>4 DEF Kept, Within
<1>3. CASE Nowhere(lru, e.pool)
  BY <1>1, <1>3 DEF Kept, Nowhere
<1> QED
  BY <1>2, <1>3 DEF Kept

LEMMA InsertSpares ==
    ASSUME Parts, NEW e \in Merged, NEW b \in Nat, Kept(e, heap, lru, load, b), Insert
    PROVE  Kept(e, heap', lru', load', b + 1)
<1>1. /\ Len(lru) \in Nat /\ Len(lru') = Len(lru) + 1
      /\ lru'[1].pool = load.pool
      /\ \A k \in 2 .. Len(lru) + 1 : lru'[k] = lru[k - 1]
      /\ heap' = heap /\ load.pc = "store" /\ load'.pool = load.pool
  BY Inserted DEF Insert, Parts, TypeOK
<1>2. CASE Within(lru, e.pool, b)
  <2>1. PICK k \in 1 .. Len(lru) : k <= b /\ lru[k].pool = e.pool
    BY <1>2 DEF Within
  <2>2. k + 1 \in 1 .. Len(lru') /\ k + 1 <= b + 1 /\ lru'[k + 1].pool = e.pool
    BY <1>1, <2>1
  <2> QED
    BY <1>1, <2>2 DEF Kept, Within
<1>3. CASE Nowhere(lru, e.pool) /\ load.pool # e.pool
  <2>1. ASSUME NEW k \in 1 .. Len(lru') PROVE lru'[k].pool # e.pool
    <3>1. CASE k = 1
      BY <1>1, <1>3, <3>1
    <3>2. CASE k # 1
      <4>1. k \in 2 .. Len(lru) + 1 /\ k - 1 \in 1 .. Len(lru)
        BY <1>1, <3>2
      <4> QED
        BY <1>1, <1>3, <4>1 DEF Nowhere
    <3> QED
      BY <3>1, <3>2
  <2> QED
    BY <1>1, <1>3, <2>1 DEF Kept, Nowhere
<1> QED
  BY <1>1, <1>2, <1>3 DEF Kept

LEMMA WithinMore ==
    ASSUME NEW e, NEW h, NEW s, NEW l, NEW b \in Nat, Kept(e, h, s, l, b)
    PROVE  Kept(e, h, s, l, b + 1)
<1>1. ASSUME NEW k \in 1 .. Len(s), k <= b PROVE k <= b + 1
  BY <1>1
<1> QED
  BY <1>1 DEF Kept, Within

\* Every step of a load keeps what was merged, and pushes it down once at most.
LEMMA RunKeeps ==
    ASSUME Parts, Fresh, Run, NEW e \in Merged, NEW b \in Nat, b < MaxEntries,
           Kept(e, heap, lru, load, b)
    PROVE  Kept(e, heap', lru', load', Pushed(load', b))
<1>0. e.pool \in Pools /\ e.rules \in Rules
  BY DEF Merged
<1>1. ASSUME Kept(e, heap', lru', load', b) PROVE Kept(e, heap', lru', load', Pushed(load', b))
  BY <1>1, WithinMore DEF Pushed
<1>2. CASE LookupMiss \/ StatMissing \/ PoolFails \/ InsertFails
  <2>1. lru' = lru /\ heap' = heap /\ load.pc # "idle"
    BY <1>2 DEF LookupMiss, StatMissing, PoolFails, InsertFails
  <2>2. load'.pool = load.pool \/ load'.pool = Nil
    BY <1>2 DEF LookupMiss, StatMissing, PoolFails, InsertFails, Finish, Parts, TypeOK
  <2>3. Kept(e, heap', lru', load', b)
    BY <1>0, <2>1, <2>2, NilAssumption DEF Kept, Within, Nowhere
  <2> QED
    BY <1>1, <2>3
<1>3. CASE StatPresent
  <2>1. PICK q \in Pools : /\ heap[q] = Free /\ heap' = [heap EXCEPT ![q] = Nil]
                           /\ load'.pool = q /\ lru' = lru
    BY <1>3 DEF StatPresent, FreePools, Parts, TypeOK
  <2>2. q # e.pool
    BY <1>0, <2>1, ContentsAssumption DEF Kept
  <2>3. heap'[e.pool] = heap[e.pool]
    BY <1>0, <2>1, <2>2 DEF Parts, TypeOK
  <2>4. Kept(e, heap', lru', load', b)
    BY <2>1, <2>2, <2>3 DEF Kept, Within, Nowhere
  <2> QED
    BY <1>1, <2>4
<1>4. CASE ParseOk \/ ParseDeclined \/ ParseError
  <2>1. load.pc = "parse" /\ lru' = lru
    BY <1>4 DEF ParseOk, ParseDeclined, ParseError
  <2>2. load.pool # e.pool
    BY <2>1, ParseSpares
  <2>3. heap'[e.pool] = heap[e.pool]
    BY <1>0, <1>4, <2>2 DEF ParseOk, ParseDeclined, ParseError, Parts, TypeOK
  <2>4. load'.pool = load.pool \/ load'.pool = Nil
    BY <1>4 DEF ParseOk, ParseDeclined, ParseError, Finish, Parts, TypeOK
  <2>5. Kept(e, heap', lru', load', b)
    BY <1>0, <2>1, <2>2, <2>3, <2>4, NilAssumption DEF Kept, Within, Nowhere
  <2> QED
    BY <1>1, <2>5
<1>5. CASE EvictForRoom
  BY <1>1, <1>5, EvictionSpares
<1>6. CASE LookupHit
  <2>1. load'.pc = "done"
    BY <1>6, Hit
  <2> QED
    BY <1>6, <2>1, HitSpares DEF Pushed
<1>7. CASE Insert
  <2>1. load'.pc = "done"
    BY <1>7 DEF Insert, Parts, TypeOK
  <2> QED
    BY <1>7, <2>1, InsertSpares DEF Pushed
<1> QED
  BY <1>2, <1>3, <1>4, <1>5, <1>6, <1>7, NoStaleLookup DEF Run

\* What a stale lookup does to the list: the entry found goes to the head, the tail goes.
LEMMA Staled ==
    ASSUME Parts, LookupStale
    PROVE  \E i \in 1 .. Len(lru) :
              LET n == Len(lru)
                  q == lru[Origin(i, n)].pool
              IN  /\ n \in Nat \ {0} /\ Len(lru') = n - 1
                  /\ \A j \in 1 .. n : Origin(i, j) \in 1 .. n
                  /\ \A j \in 1 .. n - 1 : lru'[j] = lru[Origin(i, j)]
                  /\ heap' = IF q = Nil THEN heap ELSE [heap EXCEPT ![q] = Free]
                  /\ load'.pc = "stat"
<1>1. lru \in Seq(Entry) /\ DOMAIN lru = 1 .. Len(lru) /\ Len(lru) \in Nat
  BY LenProperties DEF Parts, TypeOK
<1>2. PICK i \in 1 .. Len(lru) : EvictTail(ToHead(lru, i))
  BY <1>1 DEF LookupStale
<1> DEFINE t == ToHead(lru, i)
<1>3. /\ t \in Seq(Entry) /\ Len(t) = Len(lru) /\ t # <<>>
      /\ \A j \in 1 .. Len(lru) : /\ Origin(i, j) \in 1 .. Len(lru)
                                  /\ t[j] = lru[Origin(i, j)]
  BY <1>1, ToHeadProperties
<1>4. load'.pc = "stat"
  BY DEF LookupStale, Parts, TypeOK
<1>5. /\ lru' = Front(t)
      /\ heap' = IF Last(t).pool = Nil THEN heap ELSE [heap EXCEPT ![Last(t).pool] = Free]
  BY <1>2, <1>3 DEF EvictTail
<1> HIDE DEF t
<1>6. /\ Len(Front(t)) = Len(t) - 1
      /\ \A j \in 1 .. Len(t) - 1 : Front(t)[j] = t[j]
      /\ Last(t) = t[Len(t)] /\ Len(t) \in 1 .. Len(t)
  BY <1>3, FrontProperties
<1>7. Len(lru) \in Nat \ {0} /\ Len(lru') = Len(lru) - 1 /\ Len(t) = Len(lru)
  BY <1>1, <1>3, <1>5, <1>6
<1>8. ASSUME NEW j \in 1 .. Len(lru) - 1 PROVE lru'[j] = lru[Origin(i, j)]
  <2>1. j \in 1 .. Len(lru)
    BY <1>7
  <2>2. Front(t)[j] = t[j]
    BY <1>6, <1>7
  <2> QED
    BY <1>3, <1>5, <2>1, <2>2
<1>9. Last(t).pool = lru[Origin(i, Len(lru))].pool
  BY <1>3, <1>6, <1>7
<1>10. /\ \A j \in 1 .. Len(lru) : Origin(i, j) \in 1 .. Len(lru)
       /\ heap' = IF lru[Origin(i, Len(lru))].pool = Nil THEN heap
                  ELSE [heap EXCEPT ![lru[Origin(i, Len(lru))].pool] = Free]
  BY <1>3, <1>5, <1>9
<1> QED
  BY <1>4, <1>7, <1>8, <1>10

LEMMA AtHeadRun ==
    ASSUME Parts, Run
    PROVE  AtHead'
<1>0. CASE LookupStale
  BY <1>0, Staled DEF AtHead
<1>1. CASE LookupMiss \/ StatMissing \/ PoolFails \/ StatPresent \/ ParseDeclined \/ ParseError
  BY <1>1 DEF AtHead, LookupMiss, StatMissing, PoolFails, StatPresent, ParseDeclined,
              ParseError, Finish, Parts, TypeOK, LoadShape
<1>2. CASE LookupHit
  <2>1. PICK i \in 1 .. Len(lru) :
          /\ Len(lru') = Len(lru)
          /\ \A j \in 1 .. Len(lru) : lru'[j] = lru[Origin(i, j)]
          /\ load'.pool = lru[i].pool
    BY <1>2, Hit
  <2>2. Len(lru) \in Nat
    BY LenProperties DEF Parts, TypeOK
  <2>3. 1 \in 1 .. Len(lru) /\ Origin(i, 1) = i
    BY <2>2 DEF Origin
  <2> QED
    BY <2>1, <2>2, <2>3 DEF AtHead
<1>3. CASE Insert
  <2>1. Len(lru') # 0 /\ lru'[1].pool = load.pool /\ load'.pool = load.pool
    BY <1>3, Inserted DEF Insert, Parts, TypeOK
  <2> QED
    BY <2>1 DEF AtHead
<1>4. CASE ParseOk \/ InsertFails
  <2>1. lru' = lru /\ load'.pool = load.pool
    BY <1>4 DEF ParseOk, InsertFails, Finish, Parts, TypeOK
  <2>2. CASE load'.rc = "ok"
    <3>1. Building
      BY <1>4, <2>2, NilAssumption DEF ParseOk, InsertFails, Building, Parts, TypeOK, LoadShape
    <3> QED
      BY <2>1, <3>1, BuildingIsNowhere DEF AtHead, Nowhere
  <2> QED
    BY <2>2 DEF AtHead
<1>5. CASE EvictForRoom
  BY <1>5 DEF EvictForRoom, AtHead
<1> QED
  BY <1>0, <1>1, <1>2, <1>3, <1>4, <1>5 DEF Run

Quiet == Parts /\ ReqShape /\ Fresh /\ AtHead /\ (LongestChain => Held)

LEMMA ServeKeepsFresh ==
    ASSUME Parts, ReqShape, Fresh, AtHead, [Serve]_workerVars
    PROVE  Fresh' /\ AtHead'
<1>1. CASE Run
  BY <1>1, FreshRun, AtHeadRun
<1>2. CASE Ask
  <2>1. PICK p \in Paths : Begin(p)
    BY <1>2, AskBegins
  <2>2. UNCHANGED <<file, lru>> /\ load'.pc \in {"lookup", "stat"}
    BY <2>1 DEF Begin, Idle
  <2> QED
    BY <2>2 DEF Fresh, AtHead, Valid
<1>3. CASE Take
  <2>1. UNCHANGED <<file, lru>> /\ load'.pc = "idle"
    BY <1>3 DEF Take, Return, Idle
  <2> QED
    BY <2>1 DEF Fresh, AtHead, Valid
<1>4. CASE Arrive \/ Walked \/ Rewritten \/ LetThrough \/ Answered \/ SendReply
           \/ UNCHANGED workerVars
  <2>1. UNCHANGED vars
    BY <1>4 DEF Arrive, Walked, Rewritten, LetThrough, Answered, SendReply, workerVars
  <2> QED
    BY <2>1 DEF vars, Fresh, AtHead, Valid
<1> QED
  BY <1>1, <1>2, <1>3, <1>4 DEF Serve, Handler

\* The rules just returned are merged at position 1 of the list, or were never stored.
LEMMA TakeHolds ==
    ASSUME Parts, ReqShape, AtHead, Held, Take
    PROVE  Held'
<1> DEFINE e == [path |-> load.path, pool |-> load.pool, rules |-> heap[load.pool]]
<1>1. /\ req'.next = req.next + 1
      /\ req'.merged = IF load.rc = "ok" THEN Append(req.merged, e) ELSE req.merged
  BY Taken
<1>2. load.pc = "done" /\ load'.pc = "idle" /\ heap' = heap /\ lru' = lru
  BY DEF Take, Return, Idle
<1>3. req.next \in Nat \ {0} /\ req.merged \in Seq(Merged) /\ Len(req.merged) \in Nat
  BY LenProperties DEF ReqShape, Requests
<1>4. ASSUME NEW i \in 1 .. Len(req.merged)
      PROVE  /\ i < req.next + 1
             /\ Kept(req.merged[i], heap, lru, load', Pushed(load', req.next + 1 - i))
  <2>1. i < req.next /\ Kept(req.merged[i], heap, lru, load, req.next - i + 1)
    BY <1>2 DEF Held, Pushed
  <2>2. Pushed(load', req.next + 1 - i) = req.next - i + 1
    BY <1>2, <1>3 DEF Pushed
  <2>3. Kept(req.merged[i], heap, lru, load', req.next - i + 1)
    BY <1>2, <2>1 DEF Kept
  <2> QED
    BY <1>3, <2>1, <2>2, <2>3
<1>5. CASE load.rc # "ok"
  <2>1. ASSUME NEW i \in 1 .. Len(req'.merged)
        PROVE  /\ i < req'.next
               /\ Kept(req'.merged[i], heap', lru', load', Pushed(load', req'.next - i))
    <3>1. req'.merged[i] = req.merged[i] /\ req'.next = req.next + 1
      BY <1>1, <1>5
    <3>2. /\ i < req.next + 1
          /\ Kept(req.merged[i], heap, lru, load', Pushed(load', req.next + 1 - i))
      BY <1>1, <1>4, <1>5
    <3>3. Kept(req'.merged[i], heap', lru', load', Pushed(load', req'.next - i))
      BY <1>2, <1>3, <3>1, <3>2
    <3> QED
      BY <3>1, <3>2, <3>3
  <2> QED
    BY <2>1 DEF Held
<1>6. CASE load.rc = "ok"
  <2>1. e \in Merged /\ e.pool = load.pool /\ e.rules = heap[load.pool]
    BY <1>2, <1>6, TakenIsMerged
  <2> HIDE DEF e
  <2>2. /\ Len(req'.merged) = Len(req.merged) + 1
        /\ req'.merged[Len(req.merged) + 1] = e
        /\ \A i \in 1 .. Len(req.merged) : req'.merged[i] = req.merged[i]
    BY <1>1, <1>3, <1>6, <2>1
  <2>3. Len(req.merged) < req.next
    <3>1. CASE Len(req.merged) = 0
      BY <1>3, <3>1
    <3>2. CASE Len(req.merged) # 0
      <4>1. Len(req.merged) \in 1 .. Len(req.merged)
        BY <1>3, <3>2
      <4> QED
        BY <4>1 DEF Held
    <3> QED
      BY <3>1, <3>2
  <2>4. Within(lru, e.pool, req.next - Len(req.merged)) \/ Nowhere(lru, e.pool)
    <3>1. CASE Len(lru) # 0 /\ lru[1].pool = load.pool
      <4>1. Len(lru) \in Nat
        BY LenProperties DEF Parts, TypeOK
      <4>2. 1 \in 1 .. Len(lru) /\ 1 <= req.next - Len(req.merged)
        BY <1>3, <2>3, <3>1, <4>1
      <4> QED
        BY <2>1, <3>1, <4>2 DEF Within
    <3>2. CASE Nowhere(lru, load.pool)
      BY <2>1, <3>2
    <3> QED
      BY <1>2, <1>6, <3>1, <3>2 DEF AtHead
  <2>5. Pushed(load', req.next + 1 - (Len(req.merged) + 1)) = req.next - Len(req.merged)
    BY <1>2, <1>3 DEF Pushed
  <2>6. Kept(e, heap, lru, load', Pushed(load', req.next + 1 - (Len(req.merged) + 1)))
    BY <1>2, <2>1, <2>4, <2>5 DEF Kept
  <2>7. ASSUME NEW i \in 1 .. Len(req'.merged)
        PROVE  /\ i < req'.next
               /\ Kept(req'.merged[i], heap', lru', load', Pushed(load', req'.next - i))
    <3>1. CASE i = Len(req.merged) + 1
      BY <1>1, <1>2, <1>3, <2>2, <2>3, <2>6, <3>1
    <3>2. CASE i # Len(req.merged) + 1
      <4>1. i \in 1 .. Len(req.merged)
        BY <1>3, <2>2, <3>2
      <4> QED
        <5>1. req'.merged[i] = req.merged[i] /\ req'.next = req.next + 1
          BY <1>1, <2>2, <4>1
        <5>2. /\ i < req.next + 1
              /\ Kept(req.merged[i], heap, lru, load', Pushed(load', req.next + 1 - i))
          BY <1>4, <4>1
        <5>3. Kept(req'.merged[i], heap', lru', load', Pushed(load', req'.next - i))
          BY <1>2, <1>3, <5>1, <5>2
        <5> QED
          BY <5>1, <5>2, <5>3
    <3> QED
      BY <3>1, <3>2
  <2> QED
    BY <2>7 DEF Held
<1> QED
  BY <1>5, <1>6

LEMMA ServeHolds ==
    ASSUME Parts, ReqShape, Fresh, AtHead, LongestChain, Held, [Serve]_workerVars
    PROVE  Held'
<1>0. req.next \in Nat \ {0} /\ req.merged \in Seq(Merged) /\ Len(req.merged) \in Nat
  BY LenProperties DEF ReqShape, Requests
<1>1. CASE Run /\ UNCHANGED handler
  <2>1. load.pc \notin {"idle", "done"}
    BY <1>1 DEF Run, LookupMiss, LookupHit, LookupStale, StatMissing, StatPresent, PoolFails,
                ParseOk, ParseDeclined, ParseError, EvictForRoom, Insert, InsertFails
  <2>2. req.next <= Len(req.chain) /\ Len(req.chain) <= MaxEntries /\ Len(req.chain) \in Nat
    BY <2>1, ChainTypes DEF ReqShape, LongestChain
  <2>3. ASSUME NEW i \in 1 .. Len(req.merged)
        PROVE  /\ i < req.next
               /\ Kept(req.merged[i], heap', lru', load', Pushed(load', req.next - i))
    <3>1. i < req.next /\ Kept(req.merged[i], heap, lru, load, req.next - i)
      BY <2>1 DEF Held, Pushed
    <3>2. req.merged[i] \in Merged
      BY <1>0, ElementOfSeq
    <3>3. req.next - i \in Nat /\ req.next - i < MaxEntries
      BY <1>0, <2>2, <3>1, MaxEntriesAssumption
    <3> QED
      BY <1>1, <3>1, <3>2, <3>3, RunKeeps
  <2> QED
    BY <1>1, <2>3 DEF Held, handler
<1>2. CASE Ask
  <2>1. PICK p \in Paths : Begin(p)
    BY <1>2, AskBegins
  <2>2. /\ UNCHANGED <<lru, heap, handler>> /\ load.pc = "idle"
        /\ load'.pc # "done" /\ load'.pool = Nil
    BY <1>2, <2>1 DEF Ask, Begin, Idle
  <2>3. ASSUME NEW i \in 1 .. Len(req.merged)
        PROVE  /\ i < req.next
               /\ Kept(req.merged[i], heap, lru, load', Pushed(load', req.next - i))
    <3>1. i < req.next /\ Kept(req.merged[i], heap, lru, load, req.next - i)
      BY <2>2 DEF Held, Pushed
    <3>2. req.merged[i] \in Merged
      BY <1>0, ElementOfSeq
    <3>3. req.merged[i].pool # Nil
      BY <3>2, NilAssumption DEF Merged
    <3> QED
      BY <2>2, <3>1, <3>3 DEF Kept, Pushed
  <2> QED
    BY <2>2, <2>3 DEF Held, handler
<1>3. CASE Take
  BY <1>3, TakeHolds
<1>4. CASE Walked \/ SendReply \/ UNCHANGED workerVars
  <2>1. UNCHANGED vars /\ req'.merged = req.merged /\ req'.next = req.next
    BY <1>4 DEF Walked, SendReply, workerVars, handler, ReqShape, Requests
  <2> QED
    <3>1. ASSUME NEW i \in 1 .. Len(req'.merged)
          PROVE  /\ i < req'.next
                 /\ Kept(req'.merged[i], heap', lru', load', Pushed(load', req'.next - i))
      BY <2>1 DEF Held, vars
    <3> QED
      BY <3>1 DEF Held
<1>5. CASE Arrive \/ Rewritten \/ LetThrough \/ Answered
  <2>1. CASE Arrive \/ Rewritten
    <3>1. PICK c \in Chains, n \in Nat : req' = Walk(c, n)
      BY <2>1 DEF Arrive, Rewritten, ReqShape, Requests
    <3> QED
      BY <3>1, EmptyRequest DEF Held
  <2>2. CASE LetThrough \/ Answered
    <3>1. req' = NoRequest
      BY <2>2 DEF LetThrough, Answered
    <3> QED
      BY <3>1, EmptyRequest DEF Held
  <2> QED
    BY <1>5, <2>1, <2>2
<1> QED
  BY <1>1, <1>2, <1>3, <1>4, <1>5 DEF Serve, Handler

LEMMA AlwaysQuiet == QuietSpec => []Quiet
<1>1. QuietInit => Quiet
  <2> SUFFICES ASSUME QuietInit PROVE Quiet
    OBVIOUS
  <2>1. Parts /\ ReqShape
    BY InitParts, EmptyRequest DEF QuietInit, WorkerInit, ReqShape, Init, Idle
  <2>2. Fresh /\ AtHead /\ Held
    BY EmptyRequest DEF QuietInit, WorkerInit, Init, Idle, Fresh, AtHead, Held
  <2> QED
    BY <2>1, <2>2 DEF Quiet
<1>2. Quiet /\ [Serve]_workerVars => Quiet'
  <2> SUFFICES ASSUME Quiet, [Serve]_workerVars PROVE Quiet'
    OBVIOUS
  <2>1. (Parts /\ ReqShape)'
    BY StepOfTheCache, NextParts, ReqShapeStep DEF Quiet, WorkerNext
  <2>2. Fresh' /\ AtHead'
    BY ServeKeepsFresh DEF Quiet
  <2>3. LongestChain => Held'
    BY ServeHolds DEF Quiet
  <2> QED
    BY <2>1, <2>2, <2>3 DEF Quiet, LongestChain
<1> QED
  BY <1>1, <1>2, PTL DEF QuietSpec

\* On a site at rest, a cache that has room for the files of one walk never destroys
\* the rules that a request has merged before the request is done with them.
THEOREM QuietRulesLive == QuietSpec => []MergedRulesLive
<1>1. Quiet => MergedRulesLive
  <2> SUFFICES ASSUME Quiet, LongestChain PROVE Live(req.merged)
    BY DEF MergedRulesLive
  <2>1. req.merged \in Seq(Merged) /\ DOMAIN req.merged = 1 .. Len(req.merged)
    BY DEF Quiet, ReqShape, Requests
  <2> QED
    BY <2>1 DEF Quiet, Held, Kept, Live
<1> QED
  BY <1>1, AlwaysQuiet, PTL

-----------------------------------------------------------------------------
(***************************************************************************)
(* While files are edited, a file walked is pushed down twice at most by   *)
(* each later one: once by its lookup and once by its store.  A lookup     *)
(* that pushes without hitting is stale and evicts, so that there is room  *)
(* for the store.  Of rules that are there, then, those in the list are    *)
(* above the tail of a full one.  A pool that was destroyed may come back  *)
(* with rules like those it held: it is then that of a load being built,   *)
(* which is nowhere in the list.                                           *)
(***************************************************************************)
Spared(e, h, s, l, d) ==
    h[e.pool] = e.rules =>
        \/ Nowhere(s, e.pool)
        \/ Within(s, e.pool, IF l.pc = "done" THEN 2 * d + 1 ELSE 2 * d - 1)
        \/ /\ l.pc \in {"stat", "parse", "store"} /\ Len(s) < MaxEntries
           /\ Within(s, e.pool, 2 * d)

Spares == \A i \in 1 .. Len(req.merged) :
             i < req.next /\ Spared(req.merged[i], heap, lru, load, req.next - i)

LEMMA WithinLarger ==
    ASSUME NEW s, NEW q, NEW b \in Int, NEW c \in Int, b <= c, Within(s, q, b)
    PROVE  Within(s, q, c)
<1>1. PICK k \in 1 .. Len(s) : k <= b /\ s[k].pool = q
  BY DEF Within
<1>2. k <= c
  BY <1>1
<1> QED
  BY <1>1, <1>2 DEF Within

\* Making room at the tail of a full list does not reach a file of the walk.
LEMMA RoomSpares ==
    ASSUME Parts, NEW e \in Merged, NEW d \in Nat \ {0}, 2 * d <= MaxEntries,
           Spared(e, heap, lru, load, d), EvictForRoom
    PROVE  /\ heap[e.pool] = e.rules => heap'[e.pool] = e.rules
           /\ Spared(e, heap', lru', load', d)
<1> DEFINE n == Len(lru)
<1>1. /\ n \in Nat \ {0} /\ n >= MaxEntries /\ Len(lru') = n - 1
      /\ \A k \in 1 .. n - 1 : lru'[k] = lru[k]
      /\ heap' = IF lru[n].pool = Nil THEN heap ELSE [heap EXCEPT ![lru[n].pool] = Free]
      /\ load' = load /\ load.pc = "store" /\ MaxEntries \in Nat
  BY Evicted, MaxEntriesAssumption DEF EvictForRoom
<1>2. e.pool \in Pools /\ e.rules \in Rules /\ heap \in [Pools -> Rules \cup {Nil, Free}]
  BY DEF Merged, Parts, TypeOK
<1>3. ASSUME heap[e.pool] # e.rules
      PROVE  Spared(e, heap', lru', load', d)
  <2>1. heap'[e.pool] = heap[e.pool] \/ heap'[e.pool] = Free
    BY <1>1, <1>2
  <2> QED
    BY <1>2, <1>3, <2>1, ContentsAssumption DEF Spared
<1>4. CASE heap[e.pool] = e.rules /\ Nowhere(lru, e.pool)
  <2>1. lru[n].pool # e.pool
    BY <1>1, <1>4 DEF Nowhere
  <2>2. heap'[e.pool] = heap[e.pool] /\ Nowhere(lru', e.pool)
    BY <1>1, <1>2, <1>4, <2>1 DEF Nowhere
  <2> QED
    BY <1>4, <2>2 DEF Spared
<1>5. CASE heap[e.pool] = e.rules /\ Within(lru, e.pool, 2 * d - 1)
  <2>1. PICK k \in 1 .. n : k <= 2 * d - 1 /\ lru[k].pool = e.pool
    BY <1>5 DEF Within
  <2>2. k \in 1 .. n - 1 /\ k # n /\ n \in 1 .. n
    BY <1>1, <2>1
  <2>3. lru[n].pool # e.pool
    BY <1>2, <2>1, <2>2, PoolsApart
  <2>4. heap'[e.pool] = heap[e.pool]
    BY <1>1, <1>2, <2>3
  <2>5. Within(lru', e.pool, 2 * d - 1)
    BY <1>1, <2>1, <2>2 DEF Within
  <2> QED
    BY <1>1, <1>5, <2>4, <2>5 DEF Spared
<1> QED
  BY <1>1, <1>3, <1>4, <1>5 DEF Spared

\* The element at position k of a list of which the i-th was moved to the head is now
\* at k or just below it.
LEMMA MovedDown ==
    ASSUME NEW n \in Nat, NEW i \in 1 .. n, NEW k \in 1 .. n
    PROVE  \E j \in 1 .. n : Origin(i, j) = k /\ j <= k + 1
<1>1. CASE k = i
  <2>1. 1 \in 1 .. n /\ Origin(i, 1) = k /\ 1 <= k + 1
    BY <1>1 DEF Origin
  <2> QED
    BY <2>1
<1>2. CASE k < i
  <2>1. k + 1 \in 1 .. n /\ Origin(i, k + 1) = k
    BY <1>2 DEF Origin
  <2> QED
    BY <2>1
<1>3. CASE k > i
  <2>1. Origin(i, k) = k
    BY <1>3 DEF Origin
  <2> QED
    BY <2>1
<1> QED
  BY <1>1, <1>2, <1>3

\* A stale lookup destroys rules, or pushes them down by one and leaves room.
LEMMA StaleSpares ==
    ASSUME Parts, NEW e \in Merged, NEW d \in Nat \ {0},
           Spared(e, heap, lru, load, d), LookupStale
    PROVE  Spared(e, heap', lru', load', d)
<1> DEFINE n == Len(lru)
<1>1. PICK i \in 1 .. n :
        LET q == lru[Origin(i, n)].pool
        IN  /\ n \in Nat \ {0} /\ Len(lru') = n - 1
            /\ \A j \in 1 .. n : Origin(i, j) \in 1 .. n
            /\ \A j \in 1 .. n - 1 : lru'[j] = lru[Origin(i, j)]
            /\ heap' = IF q = Nil THEN heap ELSE [heap EXCEPT ![q] = Free]
            /\ load'.pc = "stat"
  BY Staled
<1>2. e.pool \in Pools /\ e.rules \in Rules /\ heap \in [Pools -> Rules \cup {Nil, Free}]
  BY DEF Merged, Parts, TypeOK
<1>3. n <= MaxEntries /\ MaxEntries \in Nat
  BY MaxEntriesAssumption DEF Parts, CacheBounded
<1>4. load.pc = "lookup"
  BY DEF LookupStale
<1>5. SUFFICES ASSUME heap'[e.pool] = e.rules
               PROVE  \/ Nowhere(lru', e.pool)
                      \/ Within(lru', e.pool, 2 * d)
  BY <1>1, <1>3 DEF Spared
<1>6. heap[e.pool] = e.rules /\ lru[Origin(i, n)].pool # e.pool
  BY <1>1, <1>2, <1>5, NilAssumption, ContentsAssumption
<1>7. /\ n \in Nat \ {0} /\ Len(lru') = n - 1
      /\ \A j \in 1 .. n : Origin(i, j) \in 1 .. n
      /\ \A j \in 1 .. n - 1 : lru'[j] = lru[Origin(i, j)]
  BY <1>1
<1>8. CASE Nowhere(lru, e.pool)
  <2>1. SUFFICES ASSUME NEW j \in 1 .. Len(lru') PROVE lru'[j].pool # e.pool
    BY DEF Nowhere
  <2>2. j \in 1 .. n /\ j \in 1 .. n - 1
    BY <1>7
  <2> QED
    BY <1>8, <1>7, <2>2 DEF Nowhere
<1>9. CASE Within(lru, e.pool, 2 * d - 1)
  <2>1. PICK k \in 1 .. n : k <= 2 * d - 1 /\ lru[k].pool = e.pool
    BY <1>9 DEF Within
  <2>2. PICK j \in 1 .. n : Origin(i, j) = k /\ j <= k + 1
    BY <1>1, MovedDown
  <2>3. j # n
    BY <1>6, <2>1, <2>2
  <2>4. j \in 1 .. n - 1 /\ j <= 2 * d
    BY <1>7, <2>1, <2>2, <2>3
  <2>5. j \in 1 .. Len(lru') /\ lru'[j].pool = e.pool
    BY <1>7, <2>1, <2>2, <2>4
  <2> QED
    BY <2>4, <2>5 DEF Within
<1> QED
  BY <1>4, <1>6, <1>8, <1>9 DEF Spared

LEMMA HitPushes ==
    ASSUME Parts, NEW e \in Merged, NEW d \in Nat \ {0},
           Spared(e, heap, lru, load, d), LookupHit
    PROVE  Spared(e, heap', lru', load', d)
<1> DEFINE n == Len(lru)
<1>1. n \in Nat /\ load.pc = "lookup"
  BY LenProperties DEF Parts, TypeOK, LookupHit
<1>2. PICK i \in 1 .. n :
        /\ Len(lru') = n
        /\ \A j \in 1 .. n : Origin(i, j) \in 1 .. n /\ lru'[j] = lru[Origin(i, j)]
        /\ load'.pc = "done" /\ heap' = heap
  BY Hit
<1>3. CASE Nowhere(lru, e.pool)
  BY <1>2, <1>3 DEF Nowhere, Spared
<1>4. CASE Within(lru, e.pool, 2 * d - 1)
  <2>1. PICK k \in 1 .. n : k <= 2 * d - 1 /\ lru[k].pool = e.pool
    BY <1>4 DEF Within
  <2>2. PICK j \in 1 .. n : Origin(i, j) = k /\ j <= k + 1
    BY <1>1, MovedDown
  <2>3. j \in 1 .. Len(lru') /\ j <= 2 * d + 1 /\ lru'[j].pool = e.pool
    BY <1>2, <2>1, <2>2
  <2> QED
    BY <1>2, <2>3 DEF Within, Spared
<1> QED
  BY <1>1, <1>2, <1>3, <1>4 DEF Spared

LEMMA StorePushes ==
    ASSUME Parts, NEW e \in Merged, NEW d \in Nat \ {0},
           Spared(e, heap, lru, load, d), Insert
    PROVE  Spared(e, heap', lru', load', d)
<1>1. /\ Len(lru) \in Nat /\ Len(lru') = Len(lru) + 1
      /\ lru'[1].pool = load.pool
      /\ \A k \in 2 .. Len(lru) + 1 : lru'[k] = lru[k - 1]
      /\ heap' = heap /\ load.pc = "store" /\ load'.pc = "done"
  BY Inserted DEF Insert, Parts, TypeOK
<1>2. ASSUME NEW b \in Nat, b <= 2 * d, Within(lru, e.pool, b)
      PROVE  Spared(e, heap', lru', load', d)
  <2>1. PICK k \in 1 .. Len(lru) : k <= b /\ lru[k].pool = e.pool
    BY <1>2 DEF Within
  <2>2. k + 1 \in 1 .. Len(lru') /\ k + 1 <= 2 * d + 1 /\ lru'[k + 1].pool = e.pool
    BY <1>1, <1>2, <2>1
  <2> QED
    BY <1>1, <2>2 DEF Within, Spared
<1>3. CASE load.pool = e.pool
  <2>1. 1 \in 1 .. Len(lru') /\ 1 <= 2 * d + 1 /\ lru'[1].pool = e.pool
    BY <1>1, <1>3
  <2> QED
    BY <1>1, <2>1 DEF Within, Spared
<1>4. CASE load.pool # e.pool /\ Nowhere(lru, e.pool)
  <2>1. ASSUME NEW k \in 1 .. Len(lru') PROVE lru'[k].pool # e.pool
    <3>1. CASE k = 1
      BY <1>1, <1>4, <3>1
    <3>2. CASE k # 1
      <4>1. k \in 2 .. Len(lru) + 1 /\ k - 1 \in 1 .. Len(lru)
        BY <1>1, <3>2
      <4> QED
        BY <1>1, <1>4, <4>1 DEF Nowhere
    <3> QED
      BY <3>1, <3>2
  <2> QED
    BY <2>1 DEF Spared, Nowhere
<1>5. 2 * d - 1 \in Nat /\ 2 * d - 1 <= 2 * d /\ 2 * d \in Nat
  OBVIOUS
<1> QED
  BY <1>1, <1>2, <1>3, <1>4, <1>5 DEF Spared

\* A load that fills a pool or gives it up has it out of the list.
LEMMA ParsePushesNot ==
    ASSUME Parts, NEW e \in Merged, NEW d \in Nat \ {0},
           Spared(e, heap, lru, load, d), ParseOk \/ ParseDeclined \/ ParseError
    PROVE  /\ heap[e.pool] = e.rules => heap'[e.pool] = e.rules
           /\ Spared(e, heap', lru', load', d)
<1>1. load.pc = "parse" /\ lru' = lru /\ load.pool \in Pools
  BY DEF ParseOk, ParseDeclined, ParseError, Parts, TypeOK, LoadShape
<1>2. e.pool \in Pools /\ e.rules \in Rules /\ heap \in [Pools -> Rules \cup {Nil, Free}]
  BY DEF Merged, Parts, TypeOK
<1>3. Nowhere(lru, load.pool)
  BY <1>1, BuildingIsNowhere, NilAssumption DEF Building
<1>4. heap[load.pool] = Nil
  BY <1>1 DEF Parts, LoadSound
<1>5. load'.pc \in {"store", "done"}
  BY DEF ParseOk, ParseDeclined, ParseError, Finish, Parts, TypeOK
<1>6. CASE load.pool = e.pool
  BY <1>1, <1>2, <1>3, <1>4, <1>6, NilAssumption DEF Spared
<1>7. CASE load.pool # e.pool
  <2>1. heap'[e.pool] = heap[e.pool]
    BY <1>2, <1>7 DEF ParseOk, ParseDeclined, ParseError
  <2>2. ASSUME Within(lru, e.pool, 2 * d - 1) \/ Within(lru, e.pool, 2 * d)
        PROVE  Within(lru, e.pool, 2 * d + 1)
    <3>1. 2 * d - 1 \in Int /\ 2 * d \in Int /\ 2 * d + 1 \in Int
          /\ 2 * d - 1 <= 2 * d + 1 /\ 2 * d <= 2 * d + 1
      OBVIOUS
    <3> QED
      BY <2>2, <3>1, WithinLarger
  <2> QED
    BY <1>1, <1>5, <2>1, <2>2 DEF Spared
<1> QED
  BY <1>6, <1>7

\* Every step of a load but a stale lookup leaves the merged rules that are there.
LEMMA RunSpares ==
    ASSUME Parts, Run, NEW e \in Merged, NEW d \in Nat \ {0}, 2 * d <= MaxEntries,
           Spared(e, heap, lru, load, d)
    PROVE  /\ Spared(e, heap', lru', load', d)
           /\ heap[e.pool] = e.rules /\ ~LookupStale => heap'[e.pool] = e.rules
<1>0. e.pool \in Pools /\ e.rules \in Rules /\ heap \in [Pools -> Rules \cup {Nil, Free}]
  BY DEF Merged, Parts, TypeOK
<1>1. CASE LookupMiss
  <2>1. lru' = lru /\ heap' = heap /\ load'.pc = "stat" /\ load.pc = "lookup"
    BY <1>1 DEF LookupMiss, Parts, TypeOK
  <2> QED
    BY <2>1 DEF Spared
<1>2. CASE StatMissing \/ PoolFails \/ InsertFails
  <2>1. lru' = lru /\ heap' = heap /\ load'.pc \in {"store", "done"} /\ load.pc \in {"stat", "store"}
        /\ (load.pc = "store" => load'.pc = "done")
    BY <1>2 DEF StatMissing, PoolFails, InsertFails, Finish, Parts, TypeOK
  <2>2. ASSUME Within(lru, e.pool, 2 * d - 1) \/ Within(lru, e.pool, 2 * d)
        PROVE  Within(lru, e.pool, 2 * d + 1)
    <3>1. 2 * d - 1 \in Int /\ 2 * d \in Int /\ 2 * d + 1 \in Int
          /\ 2 * d - 1 <= 2 * d + 1 /\ 2 * d <= 2 * d + 1
      OBVIOUS
    <3> QED
      BY <2>2, <3>1, WithinLarger
  <2> QED
    BY <2>1, <2>2 DEF Spared
<1>3. CASE StatPresent
  <2>1. PICK q \in Pools : /\ heap[q] = Free /\ heap' = [heap EXCEPT ![q] = Nil] /\ lru' = lru
    BY <1>3 DEF StatPresent, FreePools
  <2>2. load.pc = "stat" /\ load'.pc = "parse"
    BY <1>3 DEF StatPresent, Parts, TypeOK
  <2>3. CASE q = e.pool
    <3>1. heap[e.pool] # e.rules /\ heap'[e.pool] # e.rules
      BY <1>0, <2>1, <2>3, NilAssumption, ContentsAssumption
    <3> QED
      BY <3>1 DEF Spared
  <2>4. CASE q # e.pool
    <3>1. heap'[e.pool] = heap[e.pool]
      BY <1>0, <2>1, <2>4
    <3> QED
      BY <2>1, <2>2, <3>1 DEF Spared
  <2> QED
    BY <2>3, <2>4
<1>4. CASE ParseOk \/ ParseDeclined \/ ParseError
  BY <1>4, ParsePushesNot
<1>5. CASE EvictForRoom
  BY <1>5, RoomSpares
<1>6. CASE LookupHit
  <2>1. heap' = heap
    BY <1>6 DEF LookupHit
  <2> QED
    BY <1>6, <2>1, HitPushes
<1>7. CASE Insert
  <2>1. heap' = heap
    BY <1>7 DEF Insert
  <2> QED
    BY <1>7, <2>1, StorePushes
<1>8. CASE LookupStale
  BY <1>8, StaleSpares
<1> QED
  BY <1>1, <1>2, <1>3, <1>4, <1>5, <1>6, <1>7, <1>8 DEF Run

\* The rules just returned are at position 1 of the list, or nowhere.
LEMMA TakeSpares ==
    ASSUME Parts, ReqShape, AtHead, Spares, Take
    PROVE  Spares'
<1> DEFINE e == [path |-> load.path, pool |-> load.pool, rules |-> heap[load.pool]]
           m == Len(req.merged)
<1>1. /\ req'.next = req.next + 1
      /\ req'.merged = IF load.rc = "ok" THEN Append(req.merged, e) ELSE req.merged
  BY Taken
<1>2. load.pc = "done" /\ load'.pc = "idle" /\ heap' = heap /\ lru' = lru
  BY DEF Take, Return, Idle
<1>3. req.next \in Nat \ {0} /\ req.merged \in Seq(Merged) /\ m \in Nat
  BY LenProperties DEF ReqShape, Requests
<1>4. ASSUME NEW i \in 1 .. m
      PROVE  i < req.next + 1 /\ Spared(req.merged[i], heap, lru, load', req.next + 1 - i)
  <2>1. i < req.next /\ Spared(req.merged[i], heap, lru, load, req.next - i)
    BY DEF Spares
  <2>2. 2 * (req.next - i) + 1 = 2 * (req.next + 1 - i) - 1
    BY <1>3
  <2>3. Spared(req.merged[i], heap, lru, load', req.next + 1 - i)
    BY <1>2, <2>1, <2>2 DEF Spared
  <2> QED
    BY <1>3, <2>1, <2>3
<1>5. CASE load.rc # "ok"
  <2>1. req'.merged = req.merged
    BY <1>1, <1>5
  <2>2. ASSUME NEW i \in 1 .. Len(req'.merged)
        PROVE  i < req'.next /\ Spared(req'.merged[i], heap', lru', load', req'.next - i)
    <3>1. i \in 1 .. m
      BY <2>1
    <3>2. i < req.next + 1 /\ Spared(req.merged[i], heap, lru, load', req.next + 1 - i)
      BY <1>4, <3>1
    <3>3. req'.next = req.next + 1 /\ req'.merged[i] = req.merged[i]
      BY <1>1, <2>1
    <3>4. Spared(req'.merged[i], heap', lru', load', req'.next - i)
      BY <1>2, <1>3, <3>2, <3>3
    <3> QED
      BY <3>2, <3>3, <3>4
  <2> QED
    BY <2>2 DEF Spares
<1>6. CASE load.rc = "ok"
  <2>1. e \in Merged /\ e.pool = load.pool
    BY <1>2, <1>6, TakenIsMerged
  <2> HIDE DEF e
  <2>2. /\ Len(req'.merged) = m + 1
        /\ req'.merged[m + 1] = e
        /\ \A i \in 1 .. m : req'.merged[i] = req.merged[i]
    BY <1>1, <1>3, <1>6, <2>1
  <2>3. m < req.next
    <3>1. CASE m = 0
      BY <1>3, <3>1
    <3>2. CASE m # 0
      <4>1. m \in 1 .. m
        BY <1>3, <3>2
      <4> QED
        BY <4>1 DEF Spares
    <3> QED
      BY <3>1, <3>2
  <2>4. Within(lru, e.pool, 2 * (req.next + 1 - (m + 1)) - 1) \/ Nowhere(lru, e.pool)
    <3>1. CASE Len(lru) # 0 /\ lru[1].pool = load.pool
      <4>1. Len(lru) \in Nat
        BY LenProperties DEF Parts, TypeOK
      <4>2. 1 \in 1 .. Len(lru) /\ 1 <= 2 * (req.next + 1 - (m + 1)) - 1
        BY <1>3, <2>3, <3>1, <4>1
      <4> QED
        BY <2>1, <3>1, <4>2 DEF Within
    <3>2. CASE Nowhere(lru, load.pool)
      BY <2>1, <3>2
    <3> QED
      BY <1>2, <1>6, <3>1, <3>2 DEF AtHead
  <2>5. Spared(e, heap', lru', load', req.next + 1 - (m + 1))
    BY <1>2, <2>4 DEF Spared
  <2>6. ASSUME NEW i \in 1 .. Len(req'.merged)
        PROVE  i < req'.next /\ Spared(req'.merged[i], heap', lru', load', req'.next - i)
    <3>1. CASE i = m + 1
      BY <1>1, <1>3, <2>2, <2>3, <2>5, <3>1
    <3>2. CASE i # m + 1
      <4>1. i \in 1 .. m
        BY <1>3, <2>2, <3>2
      <4>2. req'.merged[i] = req.merged[i]
        BY <2>2, <4>1
      <4>3. i < req.next + 1 /\ Spared(req.merged[i], heap, lru, load', req.next + 1 - i)
        BY <1>4, <4>1
      <4>4. req'.next = req.next + 1
        BY <1>1
      <4>5. Spared(req'.merged[i], heap', lru', load', req'.next - i)
        BY <1>2, <1>3, <4>2, <4>3, <4>4
      <4> QED
        BY <4>3, <4>4, <4>5
    <3> QED
      BY <3>1, <3>2
  <2> QED
    BY <2>6 DEF Spares
<1> QED
  BY <1>5, <1>6

\* While a load is in progress the walk has not reached the end of its chain.
LEMMA RoomLeft ==
    ASSUME ReqShape, RoomForWalk, load.pc # "idle", NEW i \in Nat \ {0}, i < req.next
    PROVE  req.next - i \in Nat \ {0} /\ 2 * (req.next - i) <= MaxEntries
<1>1. req.next <= Len(req.chain) /\ 2 * Len(req.chain) <= MaxEntries + 2 /\ Len(req.chain) \in Nat
  BY ChainTypes DEF ReqShape, RoomForWalk
<1>2. req.next \in Nat
  BY DEF ReqShape, Requests
<1> QED
  BY <1>1, <1>2, MaxEntriesAssumption

LEMMA SparesStep ==
    ASSUME Parts, ReqShape, AtHead, RoomForWalk, Spares, [WorkerNext]_workerVars
    PROVE  Spares'
<1>0. req.next \in Nat \ {0} /\ req.merged \in Seq(Merged) /\ Len(req.merged) \in Nat
  BY LenProperties DEF ReqShape, Requests
<1>1. CASE Run /\ UNCHANGED handler
  <2>1. load.pc # "idle"
    BY <1>1 DEF Run, LookupMiss, LookupHit, LookupStale, StatMissing, StatPresent, PoolFails,
                ParseOk, ParseDeclined, ParseError, EvictForRoom, Insert, InsertFails
  <2>2. ASSUME NEW i \in 1 .. Len(req.merged)
        PROVE  i < req.next /\ Spared(req.merged[i], heap', lru', load', req.next - i)
    <3>1. i < req.next /\ Spared(req.merged[i], heap, lru, load, req.next - i)
      BY DEF Spares
    <3>2. req.merged[i] \in Merged
      BY <1>0, ElementOfSeq
    <3>3. req.next - i \in Nat \ {0} /\ 2 * (req.next - i) <= MaxEntries
      BY <1>0, <2>1, <3>1, RoomLeft
    <3> QED
      BY <1>1, <3>1, <3>2, <3>3, RunSpares
  <2> QED
    BY <1>1, <2>2 DEF Spares, handler
<1>2. CASE Take
  BY <1>2, TakeSpares
<1>3. CASE \/ Ask \/ Walked \/ SendReply \/ UNCHANGED workerVars
           \/ Environment /\ UNCHANGED handler
  <2>1. /\ lru' = lru /\ heap' = heap /\ req'.merged = req.merged /\ req'.next = req.next
        /\ load' = load \/ (load.pc = "idle" /\ load'.pc # "done")
    <3>1. CASE Ask
      <4>1. PICK p \in Paths : Begin(p)
        BY <3>1, AskBegins
      <4> QED
        BY <3>1, <4>1 DEF Ask, Begin, Idle, handler
    <3>2. CASE Walked \/ SendReply \/ UNCHANGED workerVars
      BY <3>2 DEF Walked, SendReply, workerVars, handler, vars, ReqShape, Requests
    <3>3. CASE Environment /\ UNCHANGED handler
      BY <3>3 DEF Environment, WriteFile, RemoveFile, ChmodFile, worker, handler
    <3> QED
      BY <1>3, <3>1, <3>2, <3>3
  <2>2. ASSUME NEW i \in 1 .. Len(req'.merged)
        PROVE  i < req'.next /\ Spared(req'.merged[i], heap', lru', load', req'.next - i)
    <3>1. i < req.next /\ Spared(req.merged[i], heap, lru, load, req.next - i)
      BY <2>1 DEF Spares
    <3> QED
      BY <2>1, <3>1 DEF Spared
  <2> QED
    BY <2>2 DEF Spares
<1>4. CASE Arrive \/ Rewritten \/ LetThrough \/ Answered
  <2>1. CASE Arrive \/ Rewritten
    <3>1. PICK c \in Chains, n \in Nat : req' = Walk(c, n)
      BY <2>1 DEF Arrive, Rewritten, ReqShape, Requests
    <3> QED
      BY <3>1, EmptyRequest DEF Spares
  <2>2. CASE LetThrough \/ Answered
    <3>1. req' = NoRequest
      BY <2>2 DEF LetThrough, Answered
    <3> QED
      BY <3>1, EmptyRequest DEF Spares
  <2> QED
    BY <1>4, <2>1, <2>2
<1> QED
  BY <1>1, <1>2, <1>3, <1>4 DEF WorkerNext, Serve, Handler

LEMMA AtHeadStep ==
    ASSUME Parts, ReqShape, AtHead, [WorkerNext]_workerVars
    PROVE  AtHead'
<1>1. CASE Run
  BY <1>1, AtHeadRun
<1>2. CASE Ask \/ Take
  <2>1. load'.pc # "done"
    <3>1. CASE Ask
      <4>1. PICK p \in Paths : Begin(p)
        BY <3>1, AskBegins
      <4> QED
        BY <4>1 DEF Begin, Idle
    <3>2. CASE Take
      BY <3>2 DEF Take, Return, Idle
    <3> QED
      BY <1>2, <3>1, <3>2
  <2> QED
    BY <2>1 DEF AtHead
<1>3. CASE \/ Arrive \/ Walked \/ Rewritten \/ LetThrough \/ Answered \/ SendReply
           \/ UNCHANGED workerVars \/ Environment
  <2>1. lru' = lru /\ load' = load
    BY <1>3 DEF Arrive, Walked, Rewritten, LetThrough, Answered, SendReply, workerVars, vars,
                Environment, WriteFile, RemoveFile, ChmodFile, worker
  <2> QED
    BY <2>1 DEF AtHead, Nowhere
<1> QED
  BY <1>1, <1>2, <1>3 DEF WorkerNext, Serve, Handler

Edited == Parts /\ ReqShape /\ AtHead /\ (RoomForWalk => Spares)

LEMMA AlwaysEdited == WorkerSpec => []Edited
<1>1. WorkerInit => Edited
  <2> SUFFICES ASSUME WorkerInit PROVE Edited
    OBVIOUS
  <2>1. Parts /\ ReqShape
    BY InitParts, EmptyRequest DEF WorkerInit, ReqShape, Init, Idle
  <2>2. AtHead /\ Spares
    BY EmptyRequest DEF WorkerInit, Init, Idle, AtHead, Spares
  <2> QED
    BY <2>1, <2>2 DEF Edited
<1>2. Edited /\ [WorkerNext]_workerVars => Edited'
  <2> SUFFICES ASSUME Edited, [WorkerNext]_workerVars PROVE Edited'
    OBVIOUS
  <2>1. (Parts /\ ReqShape)'
    BY StepOfTheCache, NextParts, ReqShapeStep DEF Edited
  <2>2. AtHead'
    BY AtHeadStep DEF Edited
  <2>3. RoomForWalk => Spares'
    BY SparesStep DEF Edited
  <2> QED
    BY <2>1, <2>2, <2>3 DEF Edited, RoomForWalk
<1> QED
  BY <1>1, <1>2, PTL DEF WorkerSpec

\* However files are edited and whatever fails, the loop that makes room never destroys
\* rules that a request has merged, if the cache has room for as many entries as a walk
\* can leave: what destroys them is the lookup of another file that is found stale.
THEOREM RoomIsMadeOfOthers == WorkerSpec => OnlyStaleLookupsDestroy
<1> DEFINE Step == RoomForWalk /\ req.merged # <<>> /\ req.merged' = req.merged
                     /\ Live(req.merged) /\ ~Live(req.merged)' => LookupStale
<1>1. Edited /\ [WorkerNext]_workerVars => Step
  <2> SUFFICES ASSUME Edited, [WorkerNext]_workerVars, RoomForWalk, req.merged' = req.merged,
                      Live(req.merged), ~LookupStale
               PROVE  Live(req.merged)'
    OBVIOUS
  <2>1. req.merged \in Seq(Merged) /\ DOMAIN req.merged = 1 .. Len(req.merged)
        /\ req.next \in Nat /\ Len(req.merged) \in Nat
    BY LenProperties DEF Edited, ReqShape, Requests
  <2>2. CASE Run
    <3>1. load.pc # "idle"
      BY <2>2 DEF Run, LookupMiss, LookupHit, LookupStale, StatMissing, StatPresent, PoolFails,
                  ParseOk, ParseDeclined, ParseError, EvictForRoom, Insert, InsertFails
    <3>2. ASSUME NEW i \in 1 .. Len(req.merged)
          PROVE  heap'[req.merged[i].pool] = req.merged[i].rules
      <4>1. i < req.next /\ Spared(req.merged[i], heap, lru, load, req.next - i)
        BY DEF Edited, Spares
      <4>2. req.merged[i] \in Merged
        BY <2>1, ElementOfSeq
      <4>3. req.next - i \in Nat \ {0} /\ 2 * (req.next - i) <= MaxEntries
        BY <3>1, <4>1, RoomLeft DEF Edited
      <4>4. heap[req.merged[i].pool] = req.merged[i].rules
        BY <2>1 DEF Live
      <4> QED
        BY <2>2, <4>1, <4>2, <4>3, <4>4, RunSpares DEF Edited
    <3> QED
      BY <2>1, <3>2 DEF Live
  <2>3. CASE ~Run
    <3>1. heap' = heap
      <4>1. CASE Ask
        BY <4>1, AskBegins DEF Begin, Edited
      <4>2. CASE ~Ask
        BY <2>3, <4>2 DEF WorkerNext, Serve, Handler, Arrive, Take, Return, Walked, Rewritten,
             LetThrough, Answered, SendReply, Environment, WriteFile, RemoveFile, ChmodFile,
             workerVars, vars, worker
      <4> QED
        BY <4>1, <4>2
    <3> QED
      BY <3>1 DEF Live
  <2> QED
    BY <2>2, <2>3
<1> QED
  BY <1>1, AlwaysEdited, PTL DEF WorkerSpec, OnlyStaleLookupsDestroy

-----------------------------------------------------------------------------
(***************************************************************************)
(* What is merged on a site at rest.  When nothing fails for want of       *)
(* resources, what a load answers is what the file says.                   *)
(***************************************************************************)
Told ==
    load.pc \in {"store", "done"} =>
        IF load.rc = "ok" THEN /\ file[load.path].rules \in Rules
                               /\ heap[load.pool] = file[load.path].rules
        ELSE file[load.path].rules \notin Rules

\* The merged rules are those of the directories walked, the at[i]-th for the i-th.
Reflects(at) ==
    /\ at \in [1 .. Len(req.merged) -> 1 .. req.next - 1]
    /\ \A k \in 1 .. req.next - 1 :
         file[req.chain[k]].rules \in Rules => \E i \in 1 .. Len(req.merged) : at[i] = k
    /\ \A i, j \in 1 .. Len(req.merged) : i < j => at[i] < at[j]
    /\ \A i \in 1 .. Len(req.merged) :
         /\ file[req.chain[at[i]]].rules \in Rules
         /\ req.merged[i].rules = file[req.chain[at[i]]].rules

Walking ==
    req.pc # "none" =>
        /\ req.next <= Len(req.chain) + 1
        /\ req.pc = "apply" => req.next = Len(req.chain) + 1
        /\ \E at : Reflects(at)

\* A file that is not there has no rules, nor has one that is malformed.
LEMMA NoRules ==
    ASSUME Parts, NEW p \in Paths
    PROVE  /\ file[p].stamp = Nil => file[p].rules \notin Rules
           /\ file[p] = Missing => file[p].rules \notin Rules
           /\ file[p].rules = Malformed => file[p].rules \notin Rules
<1>1. file[p] \in Present \cup {Missing}
  BY DEF Parts, TypeOK
<1>2. Missing.rules = Nil
  BY DEF Missing
<1>3. file[p] \in Present => file[p].stamp \in Stamps
  BY DEF Present
<1> QED
  BY <1>1, <1>2, <1>3, NilAssumption, ContentsAssumption

LEMMA ToldRun ==
    ASSUME Faults = {}, Parts, Fresh, Told, Run
    PROVE  Told'
<1>0. load.path \in Paths /\ load'.path = load.path /\ file' = file
  BY DEF Parts, TypeOK, LoadShape, Run, LookupMiss, LookupHit, LookupStale, StatMissing, StatPresent,
         PoolFails, ParseOk, ParseDeclined, ParseError, EvictForRoom, Insert, InsertFails, Finish
<1>1. CASE LookupMiss \/ StatPresent
  <2>1. load'.pc \notin {"store", "done"}
    BY <1>1 DEF LookupMiss, StatPresent, Parts, TypeOK
  <2> QED
    BY <2>1 DEF Told
<1>2. CASE LookupHit
  <2>1. lru \in Seq(Entry) /\ DOMAIN lru = 1 .. Len(lru)
    BY DEF Parts, TypeOK
  <2>2. PICK i \in 1 .. Len(lru) :
          /\ FoundAt(i) /\ Valid(lru[i]) /\ heap' = heap
          /\ load' = [load EXCEPT !.pc = "done", !.pool = lru[i].pool,
                                  !.rc = IF lru[i].absent THEN "declined" ELSE "ok"]
    BY <1>2, <2>1 DEF LookupHit
  <2>3. load'.pool = lru[i].pool /\ load'.rc = (IF lru[i].absent THEN "declined" ELSE "ok")
    BY <2>2 DEF Parts, TypeOK
  <2>4. lru[i].path = load.path
    BY <2>2 DEF FoundAt
  <2>5. CASE lru[i].absent
    <3>1. file[load.path].stamp = Nil
      BY <2>2, <2>4, <2>5 DEF Valid
    <3> QED
      BY <1>0, <2>3, <2>5, <3>1, NoRules DEF Told
  <2>6. CASE ~lru[i].absent
    <3>1. file[load.path].stamp = lru[i].stamp
      BY <2>2, <2>4, <2>6 DEF Valid
    <3>2. heap[lru[i].pool] \in Rules /\ heap[lru[i].pool] = file[load.path].rules
      BY <2>4, <2>6, <3>1 DEF Parts, Sound
    <3> QED
      BY <1>0, <2>2, <2>3, <2>6, <3>2 DEF Told
  <2> QED
    BY <2>5, <2>6
<1>3. CASE StatMissing
  <2>1. load'.rc = "declined" /\ file[load.path] = Missing
    BY <1>3 DEF StatMissing, Finish, Parts, TypeOK
  <2> QED
    BY <1>0, <2>1, NoRules DEF Told
<1>4. CASE ParseOk
  <2>1. /\ load'.rc = "ok" /\ load'.pool = load.pool /\ file[load.path].rules \in Rules
        /\ heap' = [heap EXCEPT ![load.pool] = file[load.path].rules]
        /\ load.pool \in Pools
    BY <1>4 DEF ParseOk, Finish, Parts, TypeOK, LoadShape
  <2>2. heap'[load.pool] = file[load.path].rules
    BY <2>1 DEF Parts, TypeOK
  <2> QED
    BY <1>0, <2>1, <2>2 DEF Told
<1>5. CASE ParseDeclined
  BY <1>0, <1>5 DEF ParseDeclined, Fresh
<1>6. CASE ParseError
  <2>1. load'.rc = "error" /\ file[load.path].rules = Malformed
    BY <1>6 DEF ParseError, Finish, Parts, TypeOK
  <2> QED
    BY <1>0, <2>1, NoRules DEF Told
<1>7. CASE EvictForRoom
  <2>1. load' = load /\ load.pc = "store"
    BY <1>7 DEF EvictForRoom
  <2>2. CASE load.rc = "ok"
    <3> DEFINE n == Len(lru)
    <3>1. /\ n \in Nat \ {0}
          /\ heap' = IF lru[n].pool = Nil THEN heap ELSE [heap EXCEPT ![lru[n].pool] = Free]
      BY <1>7, Evicted
    <3>2. load.pool \in Pools /\ Nowhere(lru, load.pool)
      BY <2>1, <2>2, BuildingIsNowhere, NilAssumption DEF Building, Parts, TypeOK, LoadShape
    <3>3. lru[n].pool # load.pool
      BY <3>1, <3>2 DEF Nowhere
    <3>4. heap'[load.pool] = heap[load.pool]
      BY <3>1, <3>2, <3>3 DEF Parts, TypeOK
    <3> QED
      BY <1>0, <2>1, <2>2, <3>4 DEF Told
  <2>3. CASE load.rc # "ok"
    BY <1>0, <2>1, <2>3 DEF Told
  <2> QED
    BY <2>2, <2>3
<1>8. CASE Insert
  <2>1. heap' = heap /\ load'.pool = load.pool /\ load'.rc = load.rc /\ load.pc = "store"
    BY <1>8 DEF Insert, Parts, TypeOK
  <2> QED
    BY <1>0, <2>1 DEF Told
<1> QED
  BY <1>1, <1>2, <1>3, <1>4, <1>5, <1>6, <1>7, <1>8, NoStaleLookup
     DEF Run, PoolFails, InsertFails

LEMMA ToldStep ==
    ASSUME Faults = {}, Parts, ReqShape, Fresh, Told, [Serve]_workerVars
    PROVE  Told' /\ file' = file
<1>1. CASE Run
  <2>1. file' = file
    BY <1>1 DEF Run, LookupMiss, LookupHit, LookupStale, StatMissing, StatPresent, PoolFails,
                ParseOk, ParseDeclined, ParseError, EvictForRoom, Insert, InsertFails
  <2> QED
    BY <1>1, <2>1, ToldRun
<1>2. CASE Ask
  <2>1. PICK p \in Paths : Begin(p)
    BY <1>2, AskBegins
  <2> QED
    BY <2>1 DEF Begin, Idle, Told
<1>3. CASE Take
  BY <1>3 DEF Take, Return, Idle, Told
<1>4. CASE Arrive \/ Walked \/ Rewritten \/ LetThrough \/ Answered \/ SendReply
           \/ UNCHANGED workerVars
  BY <1>4 DEF Arrive, Walked, Rewritten, LetThrough, Answered, SendReply, workerVars, vars, Told
<1> QED
  BY <1>1, <1>2, <1>3, <1>4 DEF Serve, Handler

\* Take extends what is merged by the directory it has loaded, or rightly skips it.
LEMMA TakeWalks ==
    ASSUME Faults = {}, Parts, ReqShape, Told, Walking, Take
    PROVE  Walking'
<1> DEFINE e == [path |-> load.path, pool |-> load.pool, rules |-> heap[load.pool]]
           m == Len(req.merged)
           k == req.next
<1>1. /\ req'.pc = "walk" /\ req'.chain = req.chain /\ req'.next = k + 1
      /\ req'.merged = IF load.rc = "ok" THEN Append(req.merged, e) ELSE req.merged
  BY Taken
<1>2. load.pc = "done" /\ file' = file /\ req.pc = "walk"
  BY DEF Take, Return
<1>3. k \in Nat \ {0} /\ req.merged \in Seq(Merged) /\ m \in Nat
  BY LenProperties DEF ReqShape, Requests
<1>4. k <= Len(req.chain) /\ load.path = req.chain[k] /\ Len(req.chain) \in Nat
  BY <1>2, ChainTypes DEF ReqShape
<1>5. PICK at : Reflects(at)
  BY <1>2 DEF Walking
<1>6. CASE load.rc # "ok"
  <2>1. file[req.chain[k]].rules \notin Rules
    BY <1>2, <1>4, <1>6 DEF Told
  <2>2. req'.merged = req.merged
    BY <1>1, <1>6
  <2>3. at \in [1 .. m -> 1 .. k]
    BY <1>3, <1>5 DEF Reflects
  <2>4. ASSUME NEW j \in 1 .. k, file[req.chain[j]].rules \in Rules
        PROVE  \E i \in 1 .. m : at[i] = j
    <3>1. j \in 1 .. k - 1
      BY <1>3, <2>1, <2>4
    <3> QED
      BY <1>5, <2>4, <3>1 DEF Reflects
  <2>5. (k + 1) - 1 = k
    BY <1>3
  <2>6. Reflects(at)'
    BY <1>1, <1>2, <1>5, <2>2, <2>3, <2>4, <2>5 DEF Reflects
  <2> QED
    BY <1>1, <1>3, <1>4, <2>6 DEF Walking
<1>7. CASE load.rc = "ok"
  <2>1. file[req.chain[k]].rules \in Rules /\ heap[load.pool] = file[req.chain[k]].rules
    BY <1>2, <1>4, <1>7 DEF Told
  <2>2. e \in Merged /\ e.rules = heap[load.pool]
    BY <1>2, <1>7, TakenIsMerged
  <2> HIDE DEF e
  <2>3. /\ Len(req'.merged) = m + 1
        /\ req'.merged[m + 1] = e
        /\ \A i \in 1 .. m : req'.merged[i] = req.merged[i]
    BY <1>1, <1>3, <1>7, <2>2
  <2>4. PICK on : on = [i \in 1 .. m + 1 |-> IF i = m + 1 THEN k ELSE at[i]]
    OBVIOUS
  <2>5. /\ on[m + 1] = k
        /\ \A i \in 1 .. m : on[i] = at[i] /\ at[i] \in 1 .. k - 1 /\ i \in 1 .. m + 1
        /\ m + 1 \in 1 .. m + 1
    BY <1>3, <1>5, <2>4 DEF Reflects
  <2>6. on \in [1 .. m + 1 -> 1 .. k]
    <3>1. ASSUME NEW i \in 1 .. m + 1 PROVE on[i] \in 1 .. k
      <4>1. CASE i = m + 1
        BY <1>3, <2>5, <4>1
      <4>2. CASE i # m + 1
        BY <1>3, <2>5, <4>2
      <4> QED
        BY <4>1, <4>2
    <3> QED
      BY <2>4, <3>1
  <2>7. ASSUME NEW j \in 1 .. k, file[req.chain[j]].rules \in Rules
        PROVE  \E i \in 1 .. m + 1 : on[i] = j
    <3>1. CASE j = k
      BY <2>5, <3>1
    <3>2. CASE j # k
      <4>1. j \in 1 .. k - 1
        BY <1>3, <3>2
      <4>2. PICK i \in 1 .. m : at[i] = j
        BY <1>5, <2>7, <4>1 DEF Reflects
      <4> QED
        BY <2>5, <4>2
    <3> QED
      BY <3>1, <3>2
  <2>8. ASSUME NEW i \in 1 .. m + 1, NEW j \in 1 .. m + 1, i < j
        PROVE  on[i] < on[j]
    <3>1. i \in 1 .. m
      BY <1>3, <2>8
    <3>2. CASE j = m + 1
      BY <1>3, <2>5, <3>1, <3>2
    <3>3. CASE j # m + 1
      <4>1. j \in 1 .. m
        BY <1>3, <3>3
      <4> QED
        BY <1>5, <2>5, <2>8, <3>1, <4>1 DEF Reflects
    <3> QED
      BY <3>2, <3>3
  <2>9. ASSUME NEW i \in 1 .. m + 1
        PROVE  /\ file[req.chain[on[i]]].rules \in Rules
               /\ req'.merged[i].rules = file[req.chain[on[i]]].rules
    <3>1. CASE i = m + 1
      BY <2>1, <2>2, <2>3, <2>5, <3>1
    <3>2. CASE i # m + 1
      <4>1. i \in 1 .. m
        BY <1>3, <3>2
      <4> QED
        BY <1>5, <2>3, <2>5, <4>1 DEF Reflects
    <3> QED
      BY <3>1, <3>2
  <2>10. (k + 1) - 1 = k
    BY <1>3
  <2>11. Reflects(on)'
    BY <1>1, <1>2, <2>3, <2>6, <2>7, <2>8, <2>9, <2>10 DEF Reflects
  <2> QED
    BY <1>1, <1>3, <1>4, <2>11 DEF Walking
<1> QED
  BY <1>6, <1>7

LEMMA WalkingStep ==
    ASSUME Faults = {}, Parts, ReqShape, Fresh, Told, Walking, [Serve]_workerVars
    PROVE  Walking'
<1>0. file' = file
  BY ToldStep
<1>1. CASE Take
  BY <1>1, TakeWalks
<1>2. CASE Arrive \/ Rewritten
  <2>1. PICK c \in Chains, n \in Nat : req' = Walk(c, n)
    BY <1>2 DEF Arrive, Rewritten, ReqShape, Requests
  <2>2. /\ req'.pc = "walk" /\ req'.chain = c /\ req'.next = 1 /\ req'.merged = <<>>
        /\ Len(c) \in Nat
    BY <2>1, EmptyRequest, ChainTypes
  <2>3. Reflects(<<>>)'
    <3>1. 1 .. 1 - 1 = {} /\ 1 .. Len(req'.merged) = {}
      BY <2>2
    <3>2. <<>> \in [{} -> {}]
      OBVIOUS
    <3> QED
      BY <2>2, <3>1, <3>2 DEF Reflects
  <2> QED
    BY <2>2, <2>3 DEF Walking
<1>3. CASE LetThrough \/ Answered
  <2>1. req'.pc = "none"
    BY <1>3, EmptyRequest DEF LetThrough, Answered
  <2> QED
    BY <2>1 DEF Walking
<1>4. CASE Walked
  <2>1. req.pc = "walk" /\ req.next > Len(req.chain) /\ req' = [req EXCEPT !.pc = "apply"]
    BY <1>4 DEF Walked
  <2>2. /\ req'.chain = req.chain /\ req'.next = req.next /\ req'.merged = req.merged
    BY <2>1 DEF ReqShape, Requests
  <2>3. PICK at : Reflects(at)
    BY <2>1 DEF Walking
  <2>4. Reflects(at)'
    BY <1>0, <2>2, <2>3 DEF Reflects
  <2>5. req.next = Len(req.chain) + 1
    <3>1. Len(req.chain) \in Nat /\ req.next \in Nat /\ req.next <= Len(req.chain) + 1
      BY <2>1, ChainTypes DEF ReqShape, Requests, Walking
    <3> QED
      BY <2>1, <3>1
  <2> QED
    BY <2>2, <2>4, <2>5 DEF Walking
<1>5. CASE \/ Ask \/ SendReply \/ UNCHANGED workerVars
           \/ Run /\ UNCHANGED handler
  <2>1. req' = req
    BY <1>5 DEF Ask, SendReply, workerVars, handler
  <2> QED
    BY <1>0, <2>1 DEF Walking, Reflects
<1> QED
  BY <1>1, <1>2, <1>3, <1>4, <1>5 DEF Serve, Handler

LEMMA AlwaysWalking ==
    ASSUME Faults = {}
    PROVE  QuietSpec => [](Told /\ Walking)
<1>1. QuietInit => Told /\ Walking
  BY EmptyRequest DEF QuietInit, WorkerInit, Init, Idle, Told, Walking
<1>2. Quiet /\ Told /\ Walking /\ [Serve]_workerVars => (Told /\ Walking)'
  BY ToldStep, WalkingStep DEF Quiet
<1> QED
  BY <1>1, <1>2, AlwaysQuiet, PTL DEF QuietSpec

\* On a site at rest where nothing fails for want of resources, the rules applied to a
\* request are those of all the files of its directories that are there and well formed,
\* in the order of the directories, if the cache has room for the files of one walk.
THEOREM SitesRulesApply ==
    ASSUME Faults = {}
    PROVE  QuietSpec => []AppliedAreTheSites
<1>1. Quiet /\ Walking => AppliedAreTheSites
  <2> SUFFICES ASSUME Quiet, Walking, req.pc = "apply", LongestChain
               PROVE  \E at \in [DOMAIN req.merged -> SitesFiles] :
                        /\ Range(at) = SitesFiles
                        /\ \A i, j \in DOMAIN at : i < j => at[i] < at[j]
                        /\ \A i \in DOMAIN at :
                             heap[req.merged[i].pool] = file[req.chain[at[i]]].rules
    BY DEF AppliedAreTheSites
  <2>1. /\ req.merged \in Seq(Merged) /\ DOMAIN req.merged = 1 .. Len(req.merged)
        /\ Len(req.chain) \in Nat /\ DOMAIN req.chain = 1 .. Len(req.chain)
    BY ChainTypes DEF Quiet, ReqShape, Requests
  <2>2. PICK at : Reflects(at)
    BY DEF Walking
  <2>3. req.next - 1 = Len(req.chain)
    BY <2>1 DEF Walking
  <2>4. at \in [DOMAIN req.merged -> SitesFiles]
    BY <2>1, <2>2, <2>3 DEF Reflects, SitesFiles
  <2>5. Range(at) = SitesFiles
    <3>1. ASSUME NEW k \in SitesFiles PROVE k \in Range(at)
      BY <2>1, <2>2, <2>3, <2>4 DEF Reflects, SitesFiles, Range
    <3>2. ASSUME NEW k \in Range(at) PROVE k \in SitesFiles
      BY <2>4 DEF Range
    <3> QED
      BY <3>1, <3>2
  <2>6. \A i \in DOMAIN at : heap[req.merged[i].pool] = file[req.chain[at[i]]].rules
    <3>1. ASSUME NEW i \in 1 .. Len(req.merged)
          PROVE  heap[req.merged[i].pool] = file[req.chain[at[i]]].rules
      <4>1. heap[req.merged[i].pool] = req.merged[i].rules
        BY DEF Quiet, Held, Kept
      <4> QED
        BY <2>2, <4>1 DEF Reflects
    <3> QED
      BY <2>1, <2>4, <3>1
  <2>7. \A i, j \in DOMAIN at : i < j => at[i] < at[j]
    BY <2>1, <2>2, <2>4 DEF Reflects
  <2> QED
    BY <2>4, <2>5, <2>6, <2>7
<1> QED
  BY <1>1, AlwaysQuiet, AlwaysWalking, PTL

-----------------------------------------------------------------------------
(***************************************************************************)
(* The walk through the cache implements HtaccessWalk.  A step of the      *)
(* cache is a step of the read, or none (ReadStep); what is new is which   *)
(* read the walk asks for and what it makes of the answer.                 *)
(***************************************************************************)
Said(m) == [i \in DOMAIN m |-> m[i].rules]

LEMMA SameSample == Read!Sample => TheWalk!Sample
BY DEF Read!Sample, TheWalk!Sample, Read!RightAnswers, TheWalk!RightAnswers,
       Read!Contents, TheWalk!Contents

LEMMA SameChange == ASSUME NEW p \in Paths, Read!Change(p) PROVE TheWalk!Change(p)
BY DEF Read!Change, TheWalk!Change, Read!Disk, TheWalk!Disk, Read!Contents, TheWalk!Contents

LEMMA SameInit == Read!Init => TheWalk!Init
BY DEF Read!Init, TheWalk!Init, Read!Disk, TheWalk!Disk, Read!Contents, TheWalk!Contents,
       Read!Idle, TheWalk!Idle

\* What the rules merged said, and what one more makes of them.
LEMMA SaidAppend ==
    ASSUME NEW m \in Seq(Merged), NEW e \in Merged
    PROVE  Said(Append(m, e)) = Append(Said(m), e.rules)
<1>1. /\ Len(m) \in Nat /\ DOMAIN m = 1 .. Len(m)
      /\ DOMAIN Append(m, e) = 1 .. Len(m) + 1 /\ Len(Append(m, e)) = Len(m) + 1
      /\ \A i \in 1 .. Len(m) : Append(m, e)[i] = m[i]
      /\ Append(m, e)[Len(m) + 1] = e
  OBVIOUS
<1>2. \A i \in 1 .. Len(m) : m[i].rules \in Rules
  <2>1. SUFFICES ASSUME NEW i \in 1 .. Len(m) PROVE m[i].rules \in Rules
    OBVIOUS
  <2>2. m[i] \in Merged
    BY ElementOfSeq
  <2> QED
    BY <2>2 DEF Merged
<1>3. Said(m) \in Seq(Rules) /\ Len(Said(m)) = Len(m)
  BY <1>1, <1>2 DEF Said
<1>4. e.rules \in Rules
  BY DEF Merged
<1>5. Said(Append(m, e)) = [i \in 1 .. Len(m) + 1 |-> IF i = Len(m) + 1 THEN e.rules ELSE m[i].rules]
  BY <1>1 DEF Said
<1>6. Append(Said(m), e.rules) = [i \in 1 .. Len(m) + 1 |-> IF i = Len(m) + 1 THEN e.rules ELSE m[i].rules]
  BY <1>1, <1>3, <1>4 DEF Said
<1> QED
  BY <1>5, <1>6

\* Updating the record a walk is mapped to.
LEMMA BarHanded ==
    ASSUME NEW w, NEW pc, NEW c, NEW n, NEW q, NEW r, NEW d,
           w = [pc |-> pc, chain |-> c, next |-> n, pass |-> q, rules |-> r]
    PROVE  [w EXCEPT !.pc = d]
           = [pc |-> d, chain |-> c, next |-> n, pass |-> q, rules |-> r]
OBVIOUS

LEMMA WalkInits == WorkerInit => TheWalk!WalkInit
<1> SUFFICES ASSUME WorkerInit PROVE TheWalk!WalkInit
  OBVIOUS
<1>1. TheWalk!Init
  BY ReadInit, SameInit DEF WorkerInit
<1>2. WalkBar = TheWalk!NoWalk
  BY DEF WorkerInit, NoRequest, WalkBar, TheWalk!NoWalk
<1> QED
  BY <1>1, <1>2 DEF TheWalk!WalkInit

\* A pass starts the same way in both.
LEMMA SamePass ==
    ASSUME NEW c, NEW n, req' = Walk(c, n)
    PROVE  WalkBar' = TheWalk!Pass(c, n)
BY DEF Walk, WalkBar, TheWalk!Pass

LEMMA CacheAlone ==
    ASSUME UNCHANGED vars
    PROVE  UNCHANGED <<DiskBar, ReadBar>>
BY DEF vars, DiskBar, ReadBar, Answer

LEMMA WalkAsks ==
    ASSUME Parts, ReqShape, Ask
    PROVE  TheWalk!AskNext
<1>1. PICK p \in Paths : p = req.chain[req.next] /\ Begin(p)
  BY AskBegins
<1>2. load = Idle /\ load'.pc \in {"lookup", "stat"} /\ load'.path = p /\ UNCHANGED file
  BY <1>1 DEF Begin, Idle, Parts, TypeOK, LoadShape
<1>3. ReadBar.pc = "idle" /\ ReadBar' = [pc |-> "asked", path |-> p, answer |-> Nil]
  BY <1>2 DEF ReadBar, Idle
<1>4. TheWalk!Ask(p)
  BY <1>2, <1>3 DEF TheWalk!Ask, DiskBar
<1>5. UNCHANGED WalkBar
  BY DEF Ask, handler, WalkBar
<1>6. WalkBar.pc = "walk" /\ WalkBar.next <= Len(WalkBar.chain) /\ WalkBar.chain[WalkBar.next] = p
  BY <1>1 DEF Ask, WalkBar
<1> QED
  BY <1>4, <1>5, <1>6 DEF TheWalk!AskNext

\* What the cache answers is kept when, and only when, it is rules.
LEMMA WalkTakes ==
    ASSUME Parts, ReqShape, Take
    PROVE  TheWalk!TakeAnswer
<1> DEFINE e == [path |-> load.path, pool |-> load.pool, rules |-> heap[load.pool]]
<1>1. load.pc = "done" /\ load' = Idle /\ UNCHANGED file /\ req.pc = "walk"
  BY DEF Take, Return
<1>2. ReadBar.pc = "answered" /\ ReadBar.answer = Answer /\ ReadBar' = TheWalk!Idle
  BY <1>1 DEF ReadBar, Idle, TheWalk!Idle
<1>3. TheWalk!Return
  BY <1>1, <1>2 DEF TheWalk!Return, DiskBar
<1>4. /\ req'.pc = "walk" /\ req'.chain = req.chain /\ req'.next = req.next + 1
      /\ req'.merged = IF load.rc = "ok" THEN Append(req.merged, e) ELSE req.merged
      /\ req'.pass = req.pass
  <2>1. req'.pass = req.pass
    BY DEF Take, ReqShape, Requests
  <2> QED
    BY <2>1, Taken
<1>5. /\ load.rc = "ok" => Answer = heap[load.pool] /\ Answer \in Rules
      /\ load.rc # "ok" => Answer \notin Rules
  <2>1. load.rc = "ok" => heap[load.pool] \in Rules
    BY <1>1 DEF Parts, LoadSound
  <2>2. Nil \notin Rules /\ Malformed \notin Rules
    BY NilAssumption, ContentsAssumption
  <2> QED
    BY <2>1, <2>2 DEF Answer
<1>6. Said(req'.merged) = IF Answer \in Rules THEN Append(Said(req.merged), Answer)
                                              ELSE Said(req.merged)
  <2>1. CASE load.rc = "ok"
    <3>1. e \in Merged /\ e.rules = Answer
      BY <1>1, <1>5, <2>1, TakenIsMerged
    <3>2. req.merged \in Seq(Merged)
      BY DEF ReqShape, Requests
    <3> HIDE DEF e
    <3> QED
      BY <1>4, <1>5, <2>1, <3>1, <3>2, SaidAppend
  <2>2. CASE load.rc # "ok"
    BY <1>4, <1>5, <2>2
  <2> QED
    BY <2>1, <2>2
<1>7. /\ WalkBar = [pc |-> "walk", chain |-> req.chain, next |-> req.next,
                    pass |-> req.pass, rules |-> Said(req.merged)]
      /\ WalkBar' = [pc |-> "walk", chain |-> req.chain, next |-> req.next + 1,
                     pass |-> req.pass, rules |-> Said(req'.merged)]
  BY <1>1, <1>4 DEF WalkBar, Said
<1>8. WalkBar' = [WalkBar EXCEPT !.next = @ + 1,
                                 !.rules = IF ReadBar.answer \in Rules
                                           THEN Append(@, ReadBar.answer) ELSE @]
  <2> DEFINE y == IF ReadBar.answer \in Rules THEN Append(WalkBar.rules, ReadBar.answer)
                                              ELSE WalkBar.rules
  <2>1. WalkBar.next = req.next /\ WalkBar.rules = Said(req.merged)
    BY <1>7
  <2>2. y = Said(req'.merged)
    BY <1>2, <1>6, <2>1
  <2> HIDE DEF y
  <2>3. WalkBar' = [WalkBar EXCEPT !.next = req.next + 1, !.rules = y]
    <3> DEFINE z == [WalkBar EXCEPT !.next = req.next + 1]
    <3>1. z = [pc |-> "walk", chain |-> req.chain, next |-> req.next + 1,
               pass |-> req.pass, rules |-> Said(req.merged)]
      BY <1>7
    <3> HIDE DEF z
    <3>2. [z EXCEPT !.rules = y] = [pc |-> "walk", chain |-> req.chain, next |-> req.next + 1,
                                    pass |-> req.pass, rules |-> y]
      BY <3>1
    <3>3. WalkBar' = [z EXCEPT !.rules = y]
      BY <1>7, <2>2, <3>2
    <3> QED
      BY <3>3 DEF z
  <2> QED
    BY <2>1, <2>3 DEF y
<1> QED
  BY <1>1, <1>3, <1>7, <1>8 DEF TheWalk!TakeAnswer

LEMMA WalkStep ==
    Parts /\ ReqShape /\ [WorkerNext]_workerVars => [TheWalk!WalkNext]_TheWalk!walkVars
<1> SUFFICES ASSUME Parts, ReqShape, [WorkerNext]_workerVars
             PROVE  TheWalk!WalkNext \/ UNCHANGED TheWalk!walkVars
  OBVIOUS
<1>1. CASE Ask
  BY <1>1, WalkAsks DEF TheWalk!WalkNext
<1>2. CASE Take
  BY <1>2, WalkTakes DEF TheWalk!WalkNext
<1>3. CASE Arrive
  <2>1. PICK c \in Chains : req' = Walk(c, 0)
    BY <1>3 DEF Arrive
  <2>2. WalkBar.pc = "none" /\ WalkBar' = TheWalk!Pass(c, 0) /\ UNCHANGED TheWalk!vars
    BY <1>3, <2>1, SamePass, CacheAlone DEF Arrive, WalkBar, TheWalk!vars
  <2> QED
    BY <1>3, <2>2 DEF Arrive, TheWalk!Arrive, TheWalk!WalkNext
<1>4. CASE Rewritten
  <2>1. PICK c \in Chains : req' = Walk(c, req.pass + 1)
    BY <1>4 DEF Rewritten
  <2>2. /\ WalkBar.pc = "apply" /\ WalkBar.pass = req.pass
        /\ WalkBar' = TheWalk!Pass(c, req.pass + 1) /\ UNCHANGED TheWalk!vars
    BY <1>4, <2>1, SamePass, CacheAlone DEF Rewritten, WalkBar, TheWalk!vars
  <2> QED
    BY <1>4, <2>2 DEF Rewritten, TheWalk!Again, TheWalk!WalkNext
<1>5. CASE Walked
  <2>1. req' = [req EXCEPT !.pc = "apply"] /\ req \in Requests
    BY <1>5 DEF Walked, ReqShape
  <2>2. WalkBar' = [WalkBar EXCEPT !.pc = "apply"]
    <3>1. req'.pc = "apply" /\ req'.chain = req.chain /\ req'.next = req.next
          /\ req'.pass = req.pass /\ req'.merged = req.merged
      BY <2>1 DEF Requests
    <3>2. WalkBar' = [pc |-> "apply", chain |-> req.chain, next |-> req.next, pass |-> req.pass,
                      rules |-> Said(req.merged)]
      BY <3>1 DEF WalkBar, Said
    <3>3. WalkBar = [pc |-> req.pc, chain |-> req.chain, next |-> req.next, pass |-> req.pass,
                     rules |-> Said(req.merged)]
      BY DEF WalkBar, Said
    <3> QED
      BY <3>2, <3>3, BarHanded
  <2>3. WalkBar.pc = "walk" /\ WalkBar.next > Len(WalkBar.chain) /\ UNCHANGED TheWalk!vars
    BY <1>5, CacheAlone DEF Walked, WalkBar, TheWalk!vars
  <2> QED
    BY <2>2, <2>3 DEF TheWalk!HandOver, TheWalk!WalkNext
<1>6. CASE LetThrough \/ Answered
  <2>1. req' = NoRequest /\ UNCHANGED vars /\ req.pc = "apply"
    BY <1>6 DEF LetThrough, Answered
  <2>2. WalkBar.pc = "apply" /\ WalkBar' = TheWalk!NoWalk /\ UNCHANGED TheWalk!vars
    BY <2>1, CacheAlone DEF NoRequest, WalkBar, TheWalk!NoWalk, TheWalk!vars
  <2> QED
    BY <2>2 DEF TheWalk!Decided, TheWalk!WalkNext
<1>7. CASE SendReply \/ UNCHANGED workerVars
  BY <1>7, CacheAlone DEF SendReply, workerVars, handler, WalkBar, TheWalk!walkVars, TheWalk!vars
<1>8. CASE (Run \/ Environment) /\ UNCHANGED handler
  <2>1. UNCHANGED WalkBar
    BY <1>8 DEF handler, WalkBar
  <2>2. CASE Environment
    <3>1. PICK p \in Paths : WriteFile(p) \/ RemoveFile(p) \/ ChmodFile(p)
      BY <2>2 DEF Environment
    <3> QED
      BY <2>1, <3>1, ReadEnvironment, SameChange DEF TheWalk!WalkNext
  <2>3. CASE LookupMiss \/ LookupStale \/ StatPresent \/ EvictForRoom \/ Insert \/ InsertFails
    BY <2>1, <2>3, ReadStutters DEF TheWalk!walkVars, TheWalk!vars, Read!vars
  <2>4. CASE LookupHit \/ StatMissing \/ PoolFails \/ ParseOk \/ ParseDeclined \/ ParseError
    BY <2>1, <2>4, ReadSamples, SameSample DEF TheWalk!WalkNext
  <2> QED
    BY <1>8, <2>2, <2>3, <2>4 DEF Run
<1> QED
  BY <1>1, <1>2, <1>3, <1>4, <1>5, <1>6, <1>7, <1>8 DEF WorkerNext, Serve, Handler

\* A walk through the cache of htaccess_build_merged_ctx reads the files of the URI's
\* directories, all of them and in order, each as it is at some instant while the
\* walk is at it, and hands over the rules it read and nothing else: however files
\* are edited meanwhile, whatever is evicted, and in every pass.
THEOREM CacheIsInvisibleToWalks == WorkerSpec => WalksTheFiles
<1>1. WorkerInit => TheWalk!WalkInit
  BY WalkInits
<1>2. Parts /\ ReqShape /\ [WorkerNext]_workerVars => [TheWalk!WalkNext]_TheWalk!walkVars
  BY WalkStep
<1> QED
  BY <1>1, <1>2, AlwaysShaped, PTL DEF WorkerSpec, WalksTheFiles, TheWalk!WalkSpec

-----------------------------------------------------------------------------
(* The worker's cache, and the way of a request through the handler. *)

\* What is proved of any caller of htaccess_load_file holds for the one that there
\* is: through all walks and passes the count is the list's length and within
\* max_entries, every pool has one owner and is destroyed before that forgets it,
\* no stamp lies, and each load answers as one read of its file.
THEOREM WorkersCacheIsSound ==
    WorkerSpec => /\ [](CacheBounded /\ PoolsOwnedOnce /\ StampFaithful /\ ResultIsMostRecent)
                  /\ PoolsNotLost
                  /\ ReadsCorrectly
<1>1. WorkerInit => /\ Parts /\ ReqShape /\ ResultIsMostRecent
                    /\ Read!Init
  BY InitParts, EmptyRequest, ReadInit DEF WorkerInit, ReqShape, ResultIsMostRecent, Init, Idle
<1>2. Parts /\ ReqShape /\ ResultIsMostRecent /\ [WorkerNext]_workerVars
        => (Parts /\ ReqShape /\ ResultIsMostRecent)'
  BY StepOfTheCache, NextParts, ReqShapeStep, ResultStep
<1>3. Parts => CacheBounded /\ PoolsOwnedOnce /\ StampFaithful
  BY InvIsParts DEF Inv
<1>4. Parts /\ Parts' /\ ReqShape /\ ResultIsMostRecent /\ [WorkerNext]_workerVars =>
        [\A q \in Pools : Owned(q) /\ ~Owned(q)' /\ heap'[q] # Free
           => Return /\ (~load.cached \/ "entry" \in Faults)]_vars
  BY StepOfTheCache, PoolsStep
<1>5. Parts /\ ReqShape /\ [WorkerNext]_workerVars => [Read!Next]_Read!vars
  BY StepOfTheCache, ReadStep
<1> QED
  BY <1>1, <1>2, <1>3, <1>4, <1>5, PTL DEF WorkerSpec, PoolsNotLost, ReadsCorrectly, Read!Spec

LEMMA HandlerStep ==
    ASSUME Parts, ReqShape, WorkerNext, req.pc # "none", <<req, worker>>' # <<req, worker>>
    PROVE  \/ req'.pc = "none"
           \/ req'.pass = req.pass + 1 /\ req'.pass < MaxRedirects
           \/ req.pc = "walk" /\ req' = [req EXCEPT !.pc = "apply"]
           \/ /\ <<req.pc, req.chain, req.pass>>' = <<req.pc, req.chain, req.pass>>
              /\ req'.next = req.next + 1 /\ req'.next <= Len(req.chain) + 1
           \/ /\ req' = req
              /\ \/ Stage[load'.pc] > Stage[load.pc]
                 \/ load.pc = "store" /\ load' = load /\ count' < count
<1>1. /\ req \in Requests /\ req.chain \in Chains
      /\ load.pc # "idle" => req.next \in Nat /\ req.next =< Len(req.chain)
  BY DEF ReqShape, Requests
<1>2. CASE Arrive \/ SendReply
  BY <1>2 DEF Arrive, SendReply
<1>3. CASE Walked
  BY <1>3 DEF Walked
<1>4. CASE Rewritten
  BY <1>4 DEF Rewritten, Walk
<1>5. CASE LetThrough \/ Answered
  BY <1>5 DEF LetThrough, Answered, NoRequest
<1>6. CASE Take
  <2>1. PICK m : req' = [req EXCEPT !.next = req.next + 1, !.merged = m]
    BY <1>6 DEF Take
  <2>2. load.pc = "done" /\ Len(req.chain) \in Nat
    BY <1>1, <1>6, ChainTypes DEF Take, Return
  <2>3. /\ req'.pc = req.pc /\ req'.chain = req.chain /\ req'.pass = req.pass
        /\ req'.next = req.next + 1
    BY <1>1, <2>1 DEF Requests
  <2> QED
    BY <1>1, <2>2, <2>3
<1>7. CASE Ask
  <2>1. load.pc = "idle" /\ req' = req
    BY <1>7 DEF Ask, Begin, handler
  <2>2. load'.pc \in {"lookup", "stat"}
    BY <1>7 DEF Ask, Begin, Idle
  <2> QED
    BY <2>1, <2>2 DEF Stage
<1>8. CASE Run /\ UNCHANGED handler
  <2>1. req' = req /\ worker' # worker
    BY <1>8 DEF handler
  <2>2. load.pc # "done"
    BY <1>8 DEF Run, LookupMiss, LookupHit, LookupStale, StatMissing, StatPresent, PoolFails,
                ParseOk, ParseDeclined, ParseError, EvictForRoom, Insert, InsertFails
  <2> QED
    BY <1>8, <2>1, <2>2, ProgressStep DEF Next
<1>9. CASE Environment /\ UNCHANGED handler
  BY <1>9 DEF Environment, WriteFile, RemoveFile, ChmodFile, handler
<1> QED
  BY <1>2, <1>3, <1>4, <1>5, <1>6, <1>7, <1>8, <1>9 DEF WorkerNext, Serve, Handler

\* The handler cannot go round for ever, whatever is edited under it: passes, the
\* directories of a pass, the stages of a load and the entries to make room from are
\* gone through in one direction, and of each there are so many and no more.
THEOREM HandlersGetOn == WorkerSpec => HandlerGetsOn
<1>1. Parts /\ ReqShape /\ [WorkerNext]_workerVars =>
        [req.pc # "none" /\ <<req, worker>>' # <<req, worker>> =>
           \/ req'.pc = "none"
           \/ req'.pass = req.pass + 1 /\ req'.pass < MaxRedirects
           \/ req.pc = "walk" /\ req' = [req EXCEPT !.pc = "apply"]
           \/ /\ <<req.pc, req.chain, req.pass>>' = <<req.pc, req.chain, req.pass>>
              /\ req'.next = req.next + 1 /\ req'.next <= Len(req.chain) + 1
           \/ /\ req' = req
              /\ \/ Stage[load'.pc] > Stage[load.pc]
                 \/ load.pc = "store" /\ load' = load /\ count' < count]_workerVars
  BY HandlerStep
<1> QED
  BY <1>1, AlwaysShaped, PTL DEF WorkerSpec, HandlerGetsOn

=============================================================================
