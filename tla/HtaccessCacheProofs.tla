------------------------ MODULE HtaccessCacheProofs ------------------------
(***************************************************************************)
(* Theorems about HtaccessCache, for every set of paths, contents, stamps  *)
(* and pools, every max_entries and every choice of faults.                *)
(***************************************************************************)
EXTENDS HtaccessCache, SequenceTheorems, TLAPS

-----------------------------------------------------------------------------
(* The list operations. *)

\* A part of a list is a list, and keeps its elements in order.
LEMMA PartOfList ==
    ASSUME NEW S, NEW s \in Seq(S), NEW m \in 1 .. Len(s) + 1, NEW n \in m - 1 .. Len(s)
    PROVE  /\ SubSeq(s, m, n) \in Seq(S)
           /\ Len(SubSeq(s, m, n)) = n - m + 1
           /\ \A j \in 1 .. n - m + 1 : SubSeq(s, m, n)[j] = s[m + j - 1]
<1>1. Len(s) \in Nat
  BY LenProperties
<1>2. m \in Int /\ n \in Int /\ m - 1 <= n /\ m \in Nat \ {0} /\ n <= Len(s)
  BY <1>1
<1>3. \A j \in m .. n : s[j] \in S
  BY <1>1, <1>2, ElementOfSeq
<1>4. /\ SubSeq(s, m, n) \in Seq(S)
      /\ Len(SubSeq(s, m, n)) = IF m <= n THEN n - m + 1 ELSE 0
      /\ \A j \in 1 .. n - m + 1 : SubSeq(s, m, n)[j] = s[m + j - 1]
  BY <1>2, <1>3, SubSeqProperties
<1> QED
  BY <1>2, <1>4

\* Dropping the tail shortens a list by one and changes no other position.
LEMMA FrontProperties ==
    ASSUME NEW S, NEW s \in Seq(S), s # <<>>
    PROVE  /\ Front(s) \in Seq(S)
           /\ Len(Front(s)) = Len(s) - 1
           /\ \A i \in 1 .. Len(s) - 1 : Front(s)[i] = s[i]
           /\ Last(s) = s[Len(s)] /\ Len(s) \in 1 .. Len(s)
<1>1. Len(s) \in Nat /\ Len(s) # 0
  BY EmptySeq, LenProperties
<1>2. /\ SubSeq(s, 1, Len(s) - 1) \in Seq(S)
      /\ Len(SubSeq(s, 1, Len(s) - 1)) = (Len(s) - 1) - 1 + 1
      /\ \A j \in 1 .. (Len(s) - 1) - 1 + 1 : SubSeq(s, 1, Len(s) - 1)[j] = s[1 + j - 1]
  <2>1. 1 \in 1 .. Len(s) + 1 /\ Len(s) - 1 \in 1 - 1 .. Len(s)
    BY <1>1
  <2> QED
    BY <2>1, PartOfList
<1> QED
  BY <1>1, <1>2 DEF Front, Last

\* A new head pushes every element one position down.
LEMMA ConsIndexes ==
    ASSUME NEW S, NEW s \in Seq(S), NEW e \in S
    PROVE  /\ Cons(e, s) \in Seq(S)
           /\ Len(Cons(e, s)) = Len(s) + 1
           /\ Cons(e, s)[1] = e
           /\ \A i \in 2 .. Len(s) + 1 : Cons(e, s)[i] = s[i - 1]
  BY SMT DEF Cons

\* The position in s of the element at position j of ToHead(s, i).
Origin(i, j) == IF j = 1 THEN i ELSE IF j <= i THEN j - 1 ELSE j

\* Moving an element to the head permutes the list.
LEMMA ToHeadProperties ==
    ASSUME NEW S, NEW s \in Seq(S), NEW i \in 1 .. Len(s)
    PROVE  /\ ToHead(s, i) \in Seq(S)
           /\ Len(ToHead(s, i)) = Len(s)
           /\ ToHead(s, i) # <<>>
           /\ \A j \in 1 .. Len(s) :
                /\ Origin(i, j) \in 1 .. Len(s)
                /\ ToHead(s, i)[j] = s[Origin(i, j)]
           /\ \A j, k \in 1 .. Len(s) : j # k => Origin(i, j) # Origin(i, k)
<1>0. Len(s) \in Nat
  BY LenProperties
<1> DEFINE A == SubSeq(s, 1, i - 1)
           B == SubSeq(s, i + 1, Len(s))
           R == A \o B
<1>1. A \in Seq(S) /\ Len(A) = i - 1 /\ \A j \in 1 .. i - 1 : A[j] = s[j]
  <2>1. 1 \in 1 .. Len(s) + 1 /\ i - 1 \in 1 - 1 .. Len(s)
    BY <1>0
  <2>2. /\ A \in Seq(S) /\ Len(A) = (i - 1) - 1 + 1
        /\ \A j \in 1 .. (i - 1) - 1 + 1 : A[j] = s[1 + j - 1]
    BY <2>1, PartOfList
  <2> QED
    BY <1>0, <2>2
<1>2. B \in Seq(S) /\ Len(B) = Len(s) - i /\ \A j \in 1 .. Len(s) - i : B[j] = s[i + j]
  <2>1. i + 1 \in 1 .. Len(s) + 1 /\ Len(s) \in (i + 1) - 1 .. Len(s)
    BY <1>0
  <2>2. /\ B \in Seq(S) /\ Len(B) = Len(s) - (i + 1) + 1
        /\ \A j \in 1 .. Len(s) - (i + 1) + 1 : B[j] = s[(i + 1) + j - 1]
    BY <2>1, PartOfList
  <2> QED
    BY <1>0, <2>2
<1>3. ToHead(s, i) = Cons(s[i], R)
  BY DEF ToHead, RemoveAt
<1> HIDE DEF A, B
<1>4. /\ R \in Seq(S) /\ Len(R) = Len(A) + Len(B)
      /\ \A j \in 1 .. Len(A) + Len(B) : R[j] = IF j <= Len(A) THEN A[j] ELSE B[j - Len(A)]
  BY <1>1, <1>2, ConcatProperties DEF R
<1> HIDE DEF R
<1>5. /\ Len(R) = Len(s) - 1
      /\ \A j \in 1 .. Len(s) - 1 : R[j] = IF j < i THEN s[j] ELSE s[j + 1]
  BY <1>0, <1>1, <1>2, <1>4
<1>6. s[i] \in S
  BY ElementOfSeq
<1>7. /\ ToHead(s, i) \in Seq(S) /\ Len(ToHead(s, i)) = Len(s)
      /\ ToHead(s, i)[1] = s[i]
      /\ \A j \in 2 .. Len(s) : ToHead(s, i)[j] = R[j - 1]
  <2>1. /\ Cons(s[i], R) \in Seq(S)
        /\ Len(Cons(s[i], R)) = Len(R) + 1
        /\ Cons(s[i], R)[1] = s[i]
        /\ \A j \in 2 .. Len(R) + 1 : Cons(s[i], R)[j] = R[j - 1]
    <3>1. R \in Seq(S)
      BY <1>4
    <3>2. \A t \in Seq(S), e \in S :
            /\ Cons(e, t) \in Seq(S) /\ Len(Cons(e, t)) = Len(t) + 1 /\ Cons(e, t)[1] = e
            /\ \A j \in 2 .. Len(t) + 1 : Cons(e, t)[j] = t[j - 1]
      BY ConsIndexes
    <3> QED
      BY <3>1, <3>2, <1>6
  <2> QED
    BY <1>0, <1>3, <1>5, <2>1
<1>8. ToHead(s, i) # <<>>
  BY <1>0, <1>7, EmptySeq, SMT
<1>9. \A j \in 1 .. Len(s) : Origin(i, j) \in 1 .. Len(s)
  BY <1>0, SMT DEF Origin
<1>10. \A j \in 1 .. Len(s) : ToHead(s, i)[j] = s[Origin(i, j)]
  BY <1>0, <1>5, <1>7, SMT DEF Origin
<1>11. \A j, k \in 1 .. Len(s) : j # k => Origin(i, j) # Origin(i, k)
  BY <1>0, SMT DEF Origin
<1> QED
  BY <1>7, <1>8, <1>9, <1>10, <1>11

-----------------------------------------------------------------------------
(***************************************************************************)
(* The inductive invariant: the four invariants that TLC checks.  For the  *)
(* proofs it is cut into what it says of a list s, given the pools h and   *)
(* the files f, and what it says of the call in progress.                  *)
(***************************************************************************)
Inv == TypeOK /\ CacheBounded /\ PoolsOwnedOnce /\ StampFaithful

Sound(s, h, f) ==
    /\ s \in Seq(Entry)
    /\ \A i \in 1 .. Len(s) : ~s[i].absent =>
         /\ h[s[i].pool] \in Rules
         /\ s[i].stamp = f[s[i].path].stamp => h[s[i].pool] = f[s[i].path].rules
    /\ \A i, j \in 1 .. Len(s) : i # j /\ ~s[i].absent => s[i].pool # s[j].pool

Unowned(s, q) == \A i \in 1 .. Len(s) : ~s[i].absent => s[i].pool # q

LoadSound ==
    /\ load.pc = "parse" => heap[load.pool] = Nil
    /\ load.pc \in {"store", "done"} /\ load.rc = "ok" => heap[load.pool] \in Rules
    /\ load.pc = "store" /\ load.rc = "ok" /\ load.stamp = file[load.path].stamp
         => heap[load.pool] = file[load.path].rules

LEMMA InvParts ==
    Inv <=> /\ TypeOK
            /\ CacheBounded
            /\ Sound(lru, heap, file)
            /\ Building => Unowned(lru, load.pool)
            /\ LoadSound
<1>1. ASSUME TypeOK
      PROVE  (PoolsOwnedOnce /\ StampFaithful) <=>
                /\ Sound(lru, heap, file)
                /\ Building => Unowned(lru, load.pool)
                /\ LoadSound
  <2>1. lru \in Seq(Entry) /\ DOMAIN lru = 1 .. Len(lru)
    BY <1>1 DEF TypeOK
  <2>2. ToSet(lru) = {lru[i] : i \in 1 .. Len(lru)}
    BY <2>1 DEF ToSet
  <2> QED
    BY <2>1, <2>2 DEF PoolsOwnedOnce, StampFaithful, Sound, Unowned, LoadSound
<1> QED
  BY <1>1 DEF Inv

\* What the invariant says of a list survives a move to the head ...
LEMMA ToHeadSound ==
    ASSUME NEW s, NEW h, NEW f, Sound(s, h, f), NEW i \in 1 .. Len(s)
    PROVE  /\ Sound(ToHead(s, i), h, f)
           /\ \A q : Unowned(s, q) => Unowned(ToHead(s, i), q)
<1>1. s \in Seq(Entry)
  BY DEF Sound
<1>2. /\ ToHead(s, i) \in Seq(Entry)
      /\ Len(ToHead(s, i)) = Len(s)
      /\ \A j \in 1 .. Len(s) :
           /\ Origin(i, j) \in 1 .. Len(s)
           /\ ToHead(s, i)[j] = s[Origin(i, j)]
      /\ \A j, k \in 1 .. Len(s) : j # k => Origin(i, j) # Origin(i, k)
  BY <1>1, ToHeadProperties
<1> DEFINE t == ToHead(s, i)
<1> HIDE DEF t
<1>3. /\ t \in Seq(Entry) /\ Len(t) = Len(s)
      /\ \A j \in 1 .. Len(s) : Origin(i, j) \in 1 .. Len(s) /\ t[j] = s[Origin(i, j)]
  BY <1>2 DEF t
<1>4. \A j \in 1 .. Len(t) : ~t[j].absent =>
         /\ h[t[j].pool] \in Rules
         /\ t[j].stamp = f[t[j].path].stamp => h[t[j].pool] = f[t[j].path].rules
  <2> TAKE j \in 1 .. Len(t)
  <2>1. PICK m \in 1 .. Len(s) : t[j] = s[m]
    BY <1>3
  <2> QED
    BY <2>1 DEF Sound
<1>5. \A j, k \in 1 .. Len(t) : j # k /\ ~t[j].absent => t[j].pool # t[k].pool
  <2> TAKE j, k \in 1 .. Len(t)
  <2> HAVE j # k /\ ~t[j].absent
  <2>1. PICK m \in 1 .. Len(s), n \in 1 .. Len(s) : m # n /\ t[j] = s[m] /\ t[k] = s[n]
    BY <1>2, <1>3
  <2> QED
    BY <2>1 DEF Sound
<1>6. \A q : Unowned(s, q) => Unowned(t, q)
  BY <1>3 DEF Unowned
<1>7. Sound(t, h, f)
  BY <1>3, <1>4, <1>5 DEF Sound
<1> QED
  BY <1>6, <1>7 DEF t

\* The pools once the tail's, if it has one, is destroyed.
WithoutTail(s, h) == IF Last(s).pool = Nil THEN h ELSE [h EXCEPT ![Last(s).pool] = Free]

\* ... the loss of the tail with its pool ...
LEMMA FrontSound ==
    ASSUME NEW s, NEW h, NEW f, Sound(s, h, f), s # <<>>,
           h \in [Pools -> Rules \cup {Nil, Free}]
    PROVE  /\ Sound(Front(s), WithoutTail(s, h), f)
           /\ WithoutTail(s, h) \in [Pools -> Rules \cup {Nil, Free}]
           /\ \A q \in Pools : Unowned(s, q) =>
                Unowned(Front(s), q) /\ WithoutTail(s, h)[q] = h[q]
<1> DEFINE h1 == WithoutTail(s, h)
<1> HIDE DEF h1
<1>1. s \in Seq(Entry)
  BY DEF Sound
<1>2. /\ Front(s) \in Seq(Entry)
      /\ Len(Front(s)) = Len(s) - 1
      /\ \A i \in 1 .. Len(s) - 1 : Front(s)[i] = s[i]
      /\ Last(s) = s[Len(s)] /\ Len(s) \in 1 .. Len(s)
  BY <1>1, FrontProperties
<1>3. \A i \in 1 .. Len(s) : s[i] \in Entry
  BY <1>1, ElementOfSeq
<1>4. Len(s) \in Nat
  BY <1>1, LenProperties
<1>5. \A i \in 1 .. Len(s) - 1 :
        /\ i \in 1 .. Len(s) /\ i # Len(s)
        /\ ~s[i].absent => s[i].pool \in Pools /\ s[i].pool # Last(s).pool
  BY <1>2, <1>3, <1>4 DEF Sound, Entry
<1>6. \A i \in 1 .. Len(s) - 1 : ~s[i].absent => h1[s[i].pool] = h[s[i].pool]
  BY <1>5 DEF h1, WithoutTail
<1>7. Sound(Front(s), h1, f)
  <2> DEFINE t == Front(s)
  <2> HIDE DEF t
  <2>1. t \in Seq(Entry) /\ Len(t) = Len(s) - 1 /\ \A i \in 1 .. Len(s) - 1 : t[i] = s[i]
    BY <1>2 DEF t
  <2>2. ASSUME NEW i \in 1 .. Len(t), ~t[i].absent
        PROVE  /\ h1[t[i].pool] \in Rules
               /\ t[i].stamp = f[t[i].path].stamp => h1[t[i].pool] = f[t[i].path].rules
    <3>1. i \in 1 .. Len(s) - 1 /\ i \in 1 .. Len(s) /\ t[i] = s[i]
      BY <1>5, <2>1
    <3>2. h1[s[i].pool] = h[s[i].pool]
      BY <1>6, <2>2, <3>1
    <3> QED
      BY <2>2, <3>1, <3>2 DEF Sound
  <2>3. ASSUME NEW i \in 1 .. Len(t), NEW j \in 1 .. Len(t), i # j, ~t[i].absent
        PROVE  t[i].pool # t[j].pool
    <3>1. i \in 1 .. Len(s) /\ j \in 1 .. Len(s) /\ t[i] = s[i] /\ t[j] = s[j]
      BY <1>5, <2>1
    <3> QED
      BY <2>3, <3>1 DEF Sound
  <2>4. Sound(t, h1, f)
    BY <2>1, <2>2, <2>3 DEF Sound
  <2> QED
    BY <2>4 DEF t
<1>8. h1 \in [Pools -> Rules \cup {Nil, Free}]
  BY DEF h1, WithoutTail
<1>9. ASSUME NEW q \in Pools, Unowned(s, q)
      PROVE  Unowned(Front(s), q) /\ h1[q] = h[q]
  <2>1. Unowned(Front(s), q)
    BY <1>2, <1>5, <1>9 DEF Unowned
  <2>2. Last(s).pool # q
    BY <1>2, <1>3, <1>9, NilAssumption DEF Unowned, Entry
  <2> QED
    BY <2>1, <2>2 DEF h1, WithoutTail
<1> QED
  BY <1>7, <1>8, <1>9 DEF h1

\* ... a new head whose pool no other entry owns ...
LEMMA ConsSound ==
    ASSUME NEW s, NEW h, NEW f, Sound(s, h, f), NEW e \in Entry,
           ~e.absent => /\ Unowned(s, e.pool)
                        /\ h[e.pool] \in Rules
                        /\ e.stamp = f[e.path].stamp => h[e.pool] = f[e.path].rules
    PROVE  Sound(Cons(e, s), h, f)
<1>1. s \in Seq(Entry)
  BY DEF Sound
<1> DEFINE t == Cons(e, s)
<1>2. /\ t \in Seq(Entry) /\ Len(t) = Len(s) + 1 /\ t[1] = e
      /\ \A i \in 2 .. Len(s) + 1 : t[i] = s[i - 1]
  BY <1>1, ConsIndexes
<1> HIDE DEF t
<1>3. Len(s) \in Nat /\ \A i \in 1 .. Len(s) : s[i] \in Entry
  BY <1>1, LenProperties, ElementOfSeq
<1>4. \A i \in 1 .. Len(s) :
         /\ ~e.absent => s[i].pool # e.pool
         /\ ~s[i].absent => s[i].pool # e.pool
  BY <1>3, NilAssumption DEF Unowned, Entry
<1>5. ASSUME NEW i \in 1 .. Len(t), i # 1
      PROVE  i - 1 \in 1 .. Len(s) /\ t[i] = s[i - 1]
  BY <1>2, <1>3, <1>5
<1>6. ASSUME NEW i \in 1 .. Len(t), ~t[i].absent
      PROVE  /\ h[t[i].pool] \in Rules
             /\ t[i].stamp = f[t[i].path].stamp => h[t[i].pool] = f[t[i].path].rules
  <2>1. CASE i = 1
    BY <1>2, <1>6, <2>1
  <2>2. CASE i # 1
    BY <1>5, <1>6, <2>2 DEF Sound
  <2> QED
    BY <2>1, <2>2
<1>7. ASSUME NEW i \in 1 .. Len(t), NEW j \in 1 .. Len(t), i # j, ~t[i].absent
      PROVE  t[i].pool # t[j].pool
  <2>1. CASE i = 1
    <3>1. j # 1
      BY <1>7, <2>1
    <3>2. j - 1 \in 1 .. Len(s) /\ t[j] = s[j - 1]
      BY <1>5, <3>1
    <3> QED
      <4>1. t[i] = e
        BY <1>2, <2>1
      <4>2. ~e.absent
        BY <1>7, <4>1
      <4>3. s[j - 1].pool # e.pool
        BY <1>4, <3>2, <4>2
      <4> QED
        BY <3>2, <4>1, <4>3
  <2>2. CASE j = 1
    <3>1. i # 1
      BY <1>7, <2>2
    <3>2. i - 1 \in 1 .. Len(s) /\ t[i] = s[i - 1]
      BY <1>5, <3>1
    <3> QED
      <4>1. t[j] = e
        BY <1>2, <2>2
      <4>2. ~s[i - 1].absent
        BY <1>7, <3>2
      <4>3. s[i - 1].pool # e.pool
        BY <1>4, <3>2, <4>2
      <4> QED
        BY <3>2, <4>1, <4>3
  <2>3. CASE i # 1 /\ j # 1
    <3>1. i - 1 \in 1 .. Len(s) /\ j - 1 \in 1 .. Len(s) /\ i - 1 # j - 1
      BY <1>2, <1>3, <1>7, <2>3
    <3>2. t[i] = s[i - 1] /\ t[j] = s[j - 1]
      BY <1>5, <2>3
    <3> QED
      BY <1>7, <3>1, <3>2 DEF Sound
  <2> QED
    BY <2>1, <2>2, <2>3
<1>8. Sound(t, h, f)
  BY <1>2, <1>6, <1>7 DEF Sound
<1> QED
  BY <1>8 DEF t

\* ... a change to a pool that no entry owns ...
LEMMA HeapSound ==
    ASSUME NEW s, NEW h, NEW f, Sound(s, h, f), NEW q \in Pools, Unowned(s, q), NEW x,
           h \in [Pools -> Rules \cup {Nil, Free}]
    PROVE  Sound(s, [h EXCEPT ![q] = x], f)
<1>1. \A i \in 1 .. Len(s) : s[i] \in Entry
  BY ElementOfSeq DEF Sound
<1>2. \A i \in 1 .. Len(s) : ~s[i].absent => s[i].pool \in Pools /\ s[i].pool # q
  BY <1>1 DEF Unowned, Entry
<1> QED
  BY <1>2 DEF Sound

\* ... and a change of one file to a version whose stamp no entry bears, or
\* that differs only in who may read it.
LEMMA FileSound ==
    ASSUME NEW s, NEW h, NEW f \in [Paths -> Present \cup {Missing}], Sound(s, h, f),
           NEW p \in Paths, NEW g \in Present \cup {Missing},
           \/ \A i \in 1 .. Len(s) : ~s[i].absent /\ s[i].path = p => s[i].stamp # g.stamp
           \/ g.stamp = f[p].stamp /\ g.rules = f[p].rules
    PROVE  Sound(s, h, [f EXCEPT ![p] = g])
<1>1. \A i \in 1 .. Len(s) : s[i] \in Entry
  BY ElementOfSeq DEF Sound
<1>2. \A i \in 1 .. Len(s) : s[i].path \in Paths
  BY <1>1 DEF Entry
<1> QED
  BY <1>2 DEF Sound

-----------------------------------------------------------------------------
(* The invariant holds initially and every step preserves it. *)

Parts ==
    /\ TypeOK
    /\ CacheBounded
    /\ Sound(lru, heap, file)
    /\ Building => Unowned(lru, load.pool)
    /\ LoadSound

LEMMA InvIsParts == Inv <=> Parts
  BY InvParts DEF Parts

LEMMA InitParts == Init => Parts
<1> SUFFICES ASSUME Init
             PROVE  Parts
  OBVIOUS
<1>1. lru \in Seq(Entry) /\ Len(lru) = 0
  BY EmptySeq DEF Init
<1>2. TypeOK
  BY <1>1, NilAssumption DEF Init, TypeOK, LoadShape, Idle
<1>3. CacheBounded
  BY <1>1, MaxEntriesAssumption DEF Init, CacheBounded
<1>4. Sound(lru, heap, file)
  BY <1>1 DEF Sound
<1>5. (Building => Unowned(lru, load.pool)) /\ LoadSound
  BY DEF Init, Idle, Building, LoadSound
<1> QED
  BY <1>2, <1>3, <1>4, <1>5 DEF Parts

\* Steps of the file system: the worker's own state stays.
LEMMA EnvironmentParts ==
    ASSUME Parts, NEW p \in Paths, WriteFile(p) \/ RemoveFile(p) \/ ChmodFile(p)
    PROVE  Parts'
<1>1. UNCHANGED worker
  BY DEF WriteFile, RemoveFile, ChmodFile
<1>2. lru \in Seq(Entry) /\ file \in [Paths -> Present \cup {Missing}]
  BY DEF Parts, TypeOK
<1>3. \A i \in 1 .. Len(lru) : lru[i] \in Entry /\ lru[i] \in ToSet(lru)
  BY <1>2, ElementOfSeq DEF ToSet
<1>4. PICK g \in Present \cup {Missing} :
         /\ file' = [file EXCEPT ![p] = g]
         /\ \/ /\ \A i \in 1 .. Len(lru) : ~lru[i].absent /\ lru[i].path = p
                                             => lru[i].stamp # g.stamp
               /\ load.path = p /\ load.stamp \in Stamps => load.stamp # g.stamp
            \/ g.stamp = file[p].stamp /\ g.rules = file[p].rules
  <2>1. CASE WriteFile(p)
    BY <1>3, <2>1 DEF WriteFile, FreshStamps
  <2>2. CASE RemoveFile(p)
    <3>1. Missing \in Present \cup {Missing} /\ Missing.stamp = Nil
      BY DEF Missing
    <3>2. file' = [file EXCEPT ![p] = Missing]
      BY <2>2 DEF RemoveFile
    <3>3. \A i \in 1 .. Len(lru) : ~lru[i].absent => lru[i].stamp # Nil
      BY <1>3, NilAssumption DEF Entry
    <3>4. load.stamp \in Stamps => load.stamp # Nil
      BY NilAssumption
    <3> HIDE DEF Missing
    <3> QED
      BY <3>1, <3>2, <3>3, <3>4
  <2>3. CASE ChmodFile(p)
    <3> DEFINE g == [file[p] EXCEPT !.readable = ~@]
    <3>1. file[p] \in Present
      BY <1>2, <2>3 DEF ChmodFile
    <3>2. g \in Present /\ g.stamp = file[p].stamp /\ g.rules = file[p].rules
      BY <3>1 DEF Present
    <3>3. file' = [file EXCEPT ![p] = g]
      BY <2>3 DEF ChmodFile
    <3> QED
      BY <3>2, <3>3
  <2> QED
    BY <2>1, <2>2, <2>3
<1>5. TypeOK'
  BY <1>1, <1>2, <1>4 DEF Parts, TypeOK, LoadShape, worker
<1>6. CacheBounded'
  BY <1>1 DEF Parts, CacheBounded, worker
<1>7. Sound(lru', heap', file')
  BY <1>1, <1>2, <1>4, FileSound DEF Parts, worker
<1>8. (Building => Unowned(lru, load.pool))'
  BY <1>1 DEF Parts, Building, Unowned, worker
<1>9. LoadSound'
  BY <1>1, <1>2, <1>4 DEF Parts, LoadSound, TypeOK, LoadShape, worker
<1> QED
  BY <1>5, <1>6, <1>7, <1>8, <1>9 DEF Parts

\* Steps of a load that touch neither the cache nor the pools.
LEMMA QuietParts ==
    ASSUME Parts,
           \/ \E p \in Paths : Begin(p)
           \/ LookupMiss \/ StatMissing \/ PoolFails \/ InsertFails \/ Return
    PROVE  Parts'
<1>1. UNCHANGED <<file, lru, count, heap>>
  BY DEF Begin, LookupMiss, StatMissing, PoolFails, InsertFails, Return
<1>2. load \in [pc     : {"idle", "lookup", "stat", "parse", "store", "done"},
                path   : Paths \cup {Nil},
                cached : BOOLEAN,
                stamp  : Stamps \cup {Nil},
                pool   : Pools \cup {Nil},
                rc     : {"none", "ok", "declined", "error"}]
      /\ LoadShape
  BY DEF Parts, TypeOK
<1>3. /\ load' \in [pc     : {"idle", "lookup", "stat", "parse", "store", "done"},
                    path   : Paths \cup {Nil},
                    cached : BOOLEAN,
                    stamp  : Stamps \cup {Nil},
                    pool   : Pools \cup {Nil},
                    rc     : {"none", "ok", "declined", "error"}]
      /\ LoadShape'
      /\ load'.pc # "parse" /\ load'.pool \in {Nil, load.pool}
      /\ load'.rc = "ok" => load'.pc = "done" /\ load.pc = "store" /\ load.rc = "ok"
                            /\ load'.pool = load.pool
      /\ ~Building'
  <2>1. CASE \E p \in Paths : Begin(p)
    <3>1. PICK p \in Paths, c \in BOOLEAN :
             load' = [Idle EXCEPT !.pc = IF c THEN "lookup" ELSE "stat",
                                  !.path = p, !.cached = c]
      BY <2>1, FlagsAssumption DEF Begin
    <3>2. load'.pc \in {"lookup", "stat"} /\ load'.path = p /\ load'.cached = c
          /\ load'.stamp = Nil /\ load'.pool = Nil /\ load'.rc = "none"
      BY <3>1 DEF Idle
    <3>3. load' = [pc |-> load'.pc, path |-> p, cached |-> c, stamp |-> Nil,
                   pool |-> Nil, rc |-> "none"]
      BY <3>1 DEF Idle
    <3> QED
      BY <3>2, <3>3 DEF LoadShape, Building
  <2>2. CASE LookupMiss
    BY <1>2, <2>2 DEF LookupMiss, LoadShape, Building
  <2>3. CASE StatMissing
    <3>1. load.pc = "stat" /\ load.path \in Paths /\ load.pool = Nil
      BY <1>2, <2>3 DEF StatMissing, LoadShape
    <3>2. load' = [load EXCEPT !.pc = IF load.cached THEN "store" ELSE "done",
                               !.rc = "declined", !.pool = Nil]
      BY <2>3 DEF StatMissing, Finish
    <3>3. CASE load.cached
      BY <1>2, <3>1, <3>2, <3>3 DEF LoadShape, Building
    <3>4. CASE ~load.cached
      BY <1>2, <3>1, <3>2, <3>4 DEF LoadShape, Building
    <3> QED
      BY <3>3, <3>4
  <2>4. CASE PoolFails
    BY <1>2, <2>4 DEF PoolFails, LoadShape, Building
  <2>5. CASE InsertFails
    BY <1>2, <2>5 DEF InsertFails, LoadShape, Building
  <2>6. CASE Return
    BY <1>2, <2>6 DEF Return, Idle, LoadShape, Building
  <2> QED
    BY <2>1, <2>2, <2>3, <2>4, <2>5, <2>6
<1>4. TypeOK'
  BY <1>1, <1>3 DEF Parts, TypeOK
<1>5. CacheBounded' /\ Sound(lru', heap', file')
  BY <1>1 DEF Parts, CacheBounded
<1>6. LoadSound'
  BY <1>1, <1>3 DEF Parts, LoadSound
<1> QED
  BY <1>3, <1>4, <1>5, <1>6 DEF Parts

LEMMA LookupHitParts == ASSUME Parts, LookupHit PROVE Parts'
<1>1. PICK i \in 1 .. Len(lru) :
         /\ lru' = ToHead(lru, i)
         /\ load' = [load EXCEPT !.pc = "done", !.pool = lru[i].pool,
                                 !.rc = IF lru[i].absent THEN "declined" ELSE "ok"]
  <2>1. DOMAIN lru = 1 .. Len(lru)
    BY DEF Parts, TypeOK
  <2> QED
    BY <2>1 DEF LookupHit
<1>2. load.pc = "lookup" /\ UNCHANGED <<file, count, heap>>
  BY DEF LookupHit
<1>3. lru \in Seq(Entry) /\ lru[i] \in Entry /\ TypeOK /\ CacheBounded
  BY ElementOfSeq DEF Parts, TypeOK
<1>4. Sound(lru', heap', file')
  BY <1>1, <1>2, ToHeadSound DEF Parts
<1>5. lru' \in Seq(Entry) /\ Len(lru') = Len(lru)
  BY <1>1, <1>3, ToHeadProperties
<1>6. CacheBounded'
  BY <1>2, <1>3, <1>5 DEF CacheBounded
<1>7. TypeOK' /\ LoadSound' /\ ~Building'
  <2>1. CASE lru[i].absent
    <3>1. load' = [load EXCEPT !.pc = "done", !.pool = Nil, !.rc = "declined"]
      BY <1>1, <1>3, <2>1 DEF Entry
    <3> QED
      BY <1>2, <1>3, <1>5, <3>1 DEF TypeOK, LoadShape, LoadSound, Building
  <2>2. CASE ~lru[i].absent
    <3>1. load' = [load EXCEPT !.pc = "done", !.pool = lru[i].pool, !.rc = "ok"]
      BY <1>1, <2>2
    <3>2. lru[i].pool \in Pools /\ lru[i].pool # Nil /\ heap[lru[i].pool] \in Rules
      BY <1>3, <2>2, NilAssumption DEF Parts, Sound, Entry
    <3> QED
      BY <1>2, <1>3, <1>5, <3>1, <3>2 DEF TypeOK, LoadShape, LoadSound, Building
  <2> QED
    BY <2>1, <2>2
<1> QED
  BY <1>4, <1>6, <1>7 DEF Parts

\* An eviction from a list that the invariant holds for.
LEMMA EvictTailSound ==
    ASSUME Parts, NEW s, Sound(s, heap, file), Len(s) = Len(lru), s # <<>>,
           EvictTail(s), UNCHANGED file,
           \A q : Unowned(lru, q) => Unowned(s, q)
    PROVE  /\ Sound(lru', heap', file')
           /\ lru' \in Seq(Entry)
           /\ CacheBounded' /\ count' \in Nat
           /\ heap' \in [Pools -> Rules \cup {Nil, Free}]
           /\ \A q \in Pools : Unowned(lru, q) => Unowned(lru', q) /\ heap'[q] = heap[q]
<1>1. /\ lru' = Front(s) /\ count' = count - 1
      /\ heap' = WithoutTail(s, heap)
  BY DEF EvictTail, WithoutTail
<1>2. heap \in [Pools -> Rules \cup {Nil, Free}] /\ s \in Seq(Entry)
  BY DEF Parts, TypeOK, Sound
<1>3. /\ Sound(Front(s), heap', file)
      /\ heap' \in [Pools -> Rules \cup {Nil, Free}]
      /\ \A q \in Pools : Unowned(s, q) => Unowned(Front(s), q) /\ heap'[q] = heap[q]
  BY <1>1, <1>2, FrontSound
<1>4. Front(s) \in Seq(Entry) /\ Len(Front(s)) = Len(s) - 1 /\ Len(s) \in 1 .. Len(s)
  BY <1>2, FrontProperties
<1>5. CacheBounded' /\ count' \in Nat
  BY <1>1, <1>2, <1>4, MaxEntriesAssumption, LenProperties DEF Parts, CacheBounded, TypeOK
<1> QED
  BY <1>1, <1>3, <1>4, <1>5

LEMMA LookupStaleParts == ASSUME Parts, LookupStale PROVE Parts'
<1>1. PICK i \in 1 .. Len(lru) : EvictTail(ToHead(lru, i))
  BY DEF LookupStale, Parts, TypeOK
<1>2. /\ load.pc = "lookup" /\ UNCHANGED file
      /\ load' = [load EXCEPT !.pc = "stat"]
  BY DEF LookupStale
<1>3. lru \in Seq(Entry) /\ TypeOK
  BY DEF Parts, TypeOK
<1>4. Len(ToHead(lru, i)) = Len(lru) /\ ToHead(lru, i) # <<>>
  BY <1>3, ToHeadProperties
<1>5. /\ Sound(ToHead(lru, i), heap, file)
      /\ \A q : Unowned(lru, q) => Unowned(ToHead(lru, i), q)
  BY ToHeadSound DEF Parts
<1>6. /\ Sound(lru', heap', file')
      /\ lru' \in Seq(Entry)
      /\ CacheBounded' /\ count' \in Nat
      /\ heap' \in [Pools -> Rules \cup {Nil, Free}]
  BY <1>1, <1>2, <1>4, <1>5, EvictTailSound
<1>7. TypeOK' /\ LoadSound' /\ ~Building'
  BY <1>2, <1>3, <1>6 DEF TypeOK, LoadShape, LoadSound, Building
<1> QED
  BY <1>6, <1>7 DEF Parts

LEMMA EvictForRoomParts == ASSUME Parts, EvictForRoom PROVE Parts'
<1>1. EvictTail(lru) /\ load.pc = "store" /\ count >= MaxEntries /\ UNCHANGED <<file, load>>
  BY DEF EvictForRoom, Full
<1>2. TypeOK /\ CacheBounded /\ Sound(lru, heap, file)
  BY DEF Parts
<1>3. lru # <<>>
  BY <1>1, <1>2, MaxEntriesAssumption, EmptySeq DEF CacheBounded
<1>4. /\ Sound(lru', heap', file')
      /\ lru' \in Seq(Entry)
      /\ CacheBounded' /\ count' \in Nat
      /\ heap' \in [Pools -> Rules \cup {Nil, Free}]
      /\ \A q \in Pools : Unowned(lru, q) => Unowned(lru', q) /\ heap'[q] = heap[q]
  BY <1>1, <1>2, <1>3, EvictTailSound
<1>5. TypeOK'
  BY <1>1, <1>2, <1>4 DEF TypeOK, LoadShape
<1>6. load.pool # Nil => load.pool \in Pools /\ Unowned(lru, load.pool)
  BY <1>1, <1>2 DEF Parts, Building, TypeOK
<1>7. (Building => Unowned(lru, load.pool))'
  BY <1>1, <1>4, <1>6 DEF Building
<1>8. LoadSound'
  <2>1. load.rc = "ok" => load.pool # Nil
    BY <1>1, <1>2 DEF TypeOK, LoadShape
  <2> QED
    BY <1>1, <1>4, <1>6, <2>1 DEF Parts, LoadSound
<1> QED
  BY <1>4, <1>5, <1>7, <1>8 DEF Parts

LEMMA StatPresentParts == ASSUME Parts, StatPresent PROVE Parts'
<1>1. PICK q \in Pools :
         /\ heap[q] = Free
         /\ heap' = [heap EXCEPT ![q] = Nil]
         /\ load' = [load EXCEPT !.pc = "parse", !.pool = q, !.stamp = file[load.path].stamp]
  BY DEF StatPresent, FreePools
<1>2. load.pc = "stat" /\ file[load.path] # Missing /\ UNCHANGED <<file, lru, count>>
  BY DEF StatPresent
<1>3. TypeOK /\ CacheBounded /\ Sound(lru, heap, file)
  BY DEF Parts
<1>4. load.path \in Paths /\ file[load.path].stamp \in Stamps
  BY <1>2, <1>3 DEF TypeOK, LoadShape, Present
<1>5. Unowned(lru, q)
  BY <1>1, <1>3, ContentsAssumption DEF Sound, Unowned
<1>6. Sound(lru', heap', file')
  BY <1>1, <1>2, <1>3, <1>5, HeapSound DEF TypeOK
<1>7. TypeOK'
  BY <1>1, <1>2, <1>3, <1>4 DEF TypeOK, LoadShape
<1>8. CacheBounded' /\ (Building => Unowned(lru, load.pool))' /\ LoadSound'
  BY <1>1, <1>2, <1>3, <1>5 DEF CacheBounded, Building, Unowned, LoadSound, TypeOK
<1> QED
  BY <1>6, <1>7, <1>8 DEF Parts

\* The end of htaccess_parse_file: the pool it was given holds the rules, or is
\* destroyed.
LEMMA ParseParts == ASSUME Parts, ParseOk \/ ParseDeclined \/ ParseError PROVE Parts'
<1>1. load.pc = "parse" /\ UNCHANGED <<file, lru, count>>
  BY DEF ParseOk, ParseDeclined, ParseError
<1>2. TypeOK /\ CacheBounded /\ Sound(lru, heap, file)
  BY DEF Parts
<1>3. load.pool \in Pools /\ load.pool # Nil /\ load.path \in Paths /\ load.stamp \in Stamps
  BY <1>1, <1>2, NilAssumption DEF TypeOK, LoadShape
<1>4. Unowned(lru, load.pool)
  BY <1>1, <1>3 DEF Parts, Building
<1>5. PICK x \in Rules \cup {Free} : heap' = [heap EXCEPT ![load.pool] = x]
  BY DEF ParseOk, ParseDeclined, ParseError
<1>6. Sound(lru', heap', file')
  BY <1>1, <1>2, <1>3, <1>4, <1>5, HeapSound DEF TypeOK
<1>7. CacheBounded'
  BY <1>1, <1>2 DEF CacheBounded
<1>8. heap' \in [Pools -> Rules \cup {Nil, Free}]
  BY <1>2, <1>5 DEF TypeOK
<1>9. TypeOK' /\ (Building => Unowned(lru, load.pool))' /\ LoadSound'
  <2>1. CASE ParseOk
    <3>1. load' = [load EXCEPT !.pc = IF load.cached THEN "store" ELSE "done",
                               !.rc = "ok", !.pool = load.pool]
      BY <2>1 DEF ParseOk, Finish
    <3>2. heap'[load.pool] = file[load.path].rules /\ file[load.path].rules \in Rules
      BY <1>2, <1>3, <2>1 DEF ParseOk, TypeOK
    <3>3. TypeOK'
      BY <1>1, <1>2, <1>3, <1>8, <3>1 DEF TypeOK, LoadShape
    <3>4. (Building => Unowned(lru, load.pool))'
      BY <1>1, <1>2, <1>4, <3>1 DEF TypeOK, Building
    <3>5. LoadSound'
      BY <1>1, <1>2, <3>1, <3>2 DEF TypeOK, LoadSound
    <3> QED
      BY <3>3, <3>4, <3>5
  <2>2. CASE ParseDeclined
    <3>1. load' = [load EXCEPT !.pc = IF load.cached THEN "store" ELSE "done",
                               !.rc = "declined", !.pool = Nil]
      BY <2>2 DEF ParseDeclined, Finish
    <3> QED
      BY <1>1, <1>2, <1>3, <1>8, <3>1 DEF TypeOK, LoadShape, Building, LoadSound
  <2>3. CASE ParseError
    <3>1. load' = [load EXCEPT !.pc = "done", !.rc = "error", !.pool = Nil]
      BY <2>3 DEF ParseError, Finish
    <3> QED
      BY <1>1, <1>2, <1>3, <1>8, <3>1 DEF TypeOK, LoadShape, Building, LoadSound
  <2> QED
    BY <2>1, <2>2, <2>3
<1> QED
  BY <1>6, <1>7, <1>9 DEF Parts

LEMMA InsertParts == ASSUME Parts, Insert PROVE Parts'
<1> DEFINE e == [path |-> load.path, stamp |-> load.stamp,
                 absent |-> load.rc = "declined", pool |-> load.pool]
<1>1. /\ load.pc = "store" /\ ~(count >= MaxEntries) /\ UNCHANGED <<file, heap>>
      /\ lru' = Cons(e, lru) /\ count' = count + 1
      /\ load' = [load EXCEPT !.pc = "done"]
  BY DEF Insert, Full
<1>2. TypeOK /\ CacheBounded /\ Sound(lru, heap, file) /\ LoadSound
  BY DEF Parts
<1>3. /\ load.path \in Paths
      /\ load.rc \in {"ok", "declined"} /\ (load.rc = "ok" <=> load.pool # Nil)
      /\ load.rc = "ok" => load.stamp \in Stamps /\ load.pool \in Pools
      /\ load.stamp \in Stamps \cup {Nil} /\ load.pool \in Pools \cup {Nil}
  BY <1>1, <1>2 DEF TypeOK, LoadShape
<1>4. e \in Entry
  BY <1>3 DEF Entry
<1>5. ~e.absent => /\ Unowned(lru, e.pool)
                   /\ heap[e.pool] \in Rules
                   /\ e.stamp = file[e.path].stamp => heap[e.pool] = file[e.path].rules
  BY <1>1, <1>2, <1>3 DEF Parts, Building, LoadSound
<1>6. Sound(Cons(e, lru), heap, file)
  BY <1>2, <1>4, <1>5, ConsSound
<1>7. Cons(e, lru) \in Seq(Entry) /\ Len(Cons(e, lru)) = Len(lru) + 1
  BY <1>2, <1>4, ConsIndexes DEF TypeOK
<1> HIDE DEF e
<1>8. CacheBounded' /\ TypeOK'
  BY <1>1, <1>2, <1>7, MaxEntriesAssumption DEF CacheBounded, TypeOK, LoadShape
<1>9. LoadSound' /\ ~Building'
  BY <1>1, <1>2 DEF LoadSound, TypeOK, Building
<1> QED
  BY <1>1, <1>6, <1>8, <1>9 DEF Parts

LEMMA NextParts == Parts /\ [Next]_vars => Parts'
<1> SUFFICES ASSUME Parts, [Next]_vars
             PROVE  Parts'
  OBVIOUS
<1>1. CASE \E p \in Paths : WriteFile(p) \/ RemoveFile(p) \/ ChmodFile(p)
  BY <1>1, EnvironmentParts
<1>2. CASE \/ \E p \in Paths : Begin(p)
           \/ LookupMiss \/ StatMissing \/ PoolFails \/ InsertFails \/ Return
  BY <1>2, QuietParts
<1>3. CASE LookupHit
  BY <1>3, LookupHitParts
<1>4. CASE LookupStale
  BY <1>4, LookupStaleParts
<1>5. CASE EvictForRoom
  BY <1>5, EvictForRoomParts
<1>6. CASE StatPresent
  BY <1>6, StatPresentParts
<1>7. CASE ParseOk \/ ParseDeclined \/ ParseError
  BY <1>7, ParseParts
<1>8. CASE Insert
  BY <1>8, InsertParts
<1>9. CASE UNCHANGED vars
  BY <1>9 DEF vars, Parts, TypeOK, LoadShape, CacheBounded, Sound, Building, Unowned, LoadSound
<1> QED
  BY <1>1, <1>2, <1>3, <1>4, <1>5, <1>6, <1>7, <1>8, <1>9 DEF Next, Run, Environment

-----------------------------------------------------------------------------
(* The theorems. *)

LEMMA AlwaysParts == Spec => []Parts
<1>1. Init => Parts
  BY InitParts
<1>2. Parts /\ [Next]_vars => Parts'
  BY NextParts
<1> QED
  BY <1>1, <1>2, PTL DEF Spec

LEMMA AlwaysInv == Spec => []Inv
  BY AlwaysParts, InvIsParts, PTL

\* Every reachable state is well formed, and the local variables of the load in
\* progress are, at each of its stages, what the code leaves in them.
THEOREM TypeCorrect == Spec => []TypeOK
<1>1. Inv => TypeOK
  BY DEF Inv
<1> QED
  BY <1>1, AlwaysInv, PTL

\* cache->count is always the length of the list, and never above max_entries.
THEOREM CacheStaysBounded == Spec => []CacheBounded
<1>1. Inv => CacheBounded
  BY DEF Inv
<1> QED
  BY <1>1, AlwaysInv, PTL

\* No pool is ever destroyed twice or under a live entry, and the answer of a
\* load is live when it returns.
THEOREM PoolsHaveOneOwner == Spec => []PoolsOwnedOnce
<1>1. Inv => PoolsOwnedOnce
  BY DEF Inv
<1> QED
  BY <1>1, AlwaysInv, PTL

\* An entry whose stamp is the file's holds the file's rules, although the stat
\* and the read of the file it comes from are two separate system calls.
THEOREM EntriesAreFaithful == Spec => []StampFaithful
<1>1. Inv => StampFaithful
  BY DEF Inv
<1> QED
  BY <1>1, AlwaysInv, PTL

-----------------------------------------------------------------------------
(* The answer at the head of the list, and the fate of the pools. *)

\* A step that ends a load which caches either found the entry, and moved it to
\* the head, or stored a new one there; nothing happens to it until the return.
LEMMA ResultStep ==
    ASSUME Parts, ResultIsMostRecent, [Next]_vars
    PROVE  ResultIsMostRecent'
<1>1. TypeOK /\ lru \in Seq(Entry)
  BY DEF Parts, TypeOK
<1>2. CASE UNCHANGED <<lru, load>>
  BY <1>2 DEF ResultIsMostRecent
<1>3. CASE load'.pc # "done" \/ ~load'.cached \/ load'.rc = "error" \/ "entry" \in Faults
  BY <1>3 DEF ResultIsMostRecent
<1>4. CASE LookupHit
  <2>1. PICK i \in 1 .. Len(lru) :
           /\ lru[i].path = load.path
           /\ lru' = ToHead(lru, i)
           /\ load' = [load EXCEPT !.pc = "done", !.pool = lru[i].pool,
                                   !.rc = IF lru[i].absent THEN "declined" ELSE "ok"]
    <3>1. DOMAIN lru = 1 .. Len(lru)
      BY <1>1
    <3>2. \A i \in DOMAIN lru : FoundAt(i) => lru[i].path = load.path
      BY DEF FoundAt
    <3> QED
      BY <1>4, <3>1, <3>2 DEF LookupHit
  <2>2. ToHead(lru, i) # <<>> /\ ToHead(lru, i) \in Seq(Entry)
        /\ Len(ToHead(lru, i)) = Len(lru)
        /\ ToHead(lru, i)[1] = lru[i]
    BY <1>1, LenProperties, ToHeadProperties DEF Origin
  <2>3. lru[i] \in Entry /\ Head(lru') = lru[i]
    BY <1>1, <2>1, <2>2, ElementOfSeq, HeadTailProperties
  <2>4. lru[i].absent \in BOOLEAN
    BY <2>3 DEF Entry
  <2>5. /\ load'.path = load.path /\ load'.pool = lru[i].pool
        /\ load'.rc = IF lru[i].absent THEN "declined" ELSE "ok"
    BY <1>1, <2>1 DEF TypeOK
  <2> QED
    BY <2>1, <2>2, <2>3, <2>4, <2>5 DEF ResultIsMostRecent
<1>5. CASE Insert
  <2> DEFINE e == [path |-> load.path, stamp |-> load.stamp,
                   absent |-> load.rc = "declined", pool |-> load.pool]
  <2>1. lru' = Cons(e, lru) /\ load' = [load EXCEPT !.pc = "done"]
    BY <1>5 DEF Insert
  <2>2. Cons(e, lru) = <<e>> \o lru
    BY DEF Cons
  <2>3. lru' # <<>> /\ Head(lru') = e
    BY <1>1, <2>1, <2>2
  <2>4. /\ load'.path = load.path /\ load'.pool = load.pool /\ load'.rc = load.rc
    BY <1>1, <2>1 DEF TypeOK
  <2>5. Head(lru').path = load'.path /\ Head(lru').pool = load'.pool
    BY <2>3, <2>4
  <2>6. Head(lru').absent <=> load'.rc = "declined"
    <3>1. CASE load.rc = "declined"
      <4>1. e = [path |-> load.path, stamp |-> load.stamp, absent |-> TRUE, pool |-> load.pool]
        BY <3>1
      <4> QED
        BY <2>3, <2>4, <3>1, <4>1
    <3>2. CASE load.rc # "declined"
      <4>1. e = [path |-> load.path, stamp |-> load.stamp, absent |-> FALSE, pool |-> load.pool]
        BY <3>2
      <4> QED
        BY <2>3, <2>4, <3>2, <4>1
    <3> QED
      BY <3>1, <3>2
  <2> QED
    BY <2>3, <2>5, <2>6 DEF ResultIsMostRecent
<1>6. CASE \E p \in Paths : WriteFile(p) \/ RemoveFile(p) \/ ChmodFile(p)
  BY <1>2, <1>6 DEF WriteFile, RemoveFile, ChmodFile, worker
<1>7. CASE UNCHANGED vars
  BY <1>2, <1>7 DEF vars
<1>8. CASE \/ \E p \in Paths : Begin(p)
           \/ LookupMiss \/ LookupStale \/ StatPresent \/ Return
  <2>1. CASE \E p \in Paths : Begin(p)
    <3>1. PICK p, c : load' = [Idle EXCEPT !.pc = IF c THEN "lookup" ELSE "stat",
                                           !.path = p, !.cached = c]
      BY <2>1 DEF Begin
    <3>2. load'.pc = IF c THEN "lookup" ELSE "stat"
      BY <3>1 DEF Idle
    <3> QED
      BY <1>3, <3>2
  <2>2. CASE LookupMiss \/ LookupStale
    <3>1. load' = [load EXCEPT !.pc = "stat"]
      BY <2>2 DEF LookupMiss, LookupStale
    <3> QED
      BY <1>1, <1>3, <3>1 DEF TypeOK
  <2>3. CASE StatPresent
    BY <1>1, <1>3, <2>3 DEF TypeOK, StatPresent
  <2>4. CASE Return
    BY <1>3, <2>4 DEF Return, Idle
  <2> QED
    BY <1>8, <2>1, <2>2, <2>3, <2>4
<1>9. CASE PoolFails \/ InsertFails
  <2>1. load'.rc = "error" \/ "entry" \in Faults
    BY <1>1, <1>9 DEF TypeOK, PoolFails, InsertFails
  <2> QED
    BY <1>3, <2>1
<1>10. CASE StatMissing \/ ParseOk \/ ParseDeclined \/ ParseError
  <2>1. PICK rc, pool :
          load' = [load EXCEPT !.pc = IF load.cached /\ rc # "error" THEN "store" ELSE "done",
                               !.rc = rc, !.pool = pool]
    <3>1. \E rc, pool : Finish(rc, pool)
      BY <1>10 DEF StatMissing, ParseOk, ParseDeclined, ParseError
    <3> QED
      BY <3>1 DEF Finish
  <2>2. load'.cached = load.cached /\ load'.rc = rc
        /\ load'.pc = IF load.cached /\ rc # "error" THEN "store" ELSE "done"
    BY <1>1, <2>1 DEF TypeOK
  <2> QED
    BY <1>3, <2>2
<1>11. CASE EvictForRoom
  <2>1. load' = load /\ load.pc = "store"
    BY <1>11 DEF EvictForRoom
  <2> QED
    BY <1>3, <2>1
<1> QED
  BY <1>4, <1>5, <1>6, <1>7, <1>8, <1>9, <1>10, <1>11 DEF Next, Run, Environment

LEMMA AlwaysResult == Spec => [](Parts /\ ResultIsMostRecent)
<1>1. Init => Parts /\ ResultIsMostRecent
  BY InitParts DEF Init, Idle, ResultIsMostRecent
<1>2. (Parts /\ ResultIsMostRecent) /\ [Next]_vars => (Parts /\ ResultIsMostRecent)'
  BY NextParts, ResultStep
<1> QED
  BY <1>1, <1>2, PTL DEF Spec

\* A load that caches leaves its answer at the head of the list, on every path
\* through lookup and store.
THEOREM HitsAndStoresComeFirst == Spec => []ResultIsMostRecent
  BY AlwaysResult, PTL

\* Moving an element to the head loses none.
LEMMA ToHeadKeeps ==
    ASSUME NEW S, NEW s \in Seq(S), NEW i \in 1 .. Len(s), NEW k \in 1 .. Len(s)
    PROVE  \E j \in 1 .. Len(s) : ToHead(s, i)[j] = s[k]
<1> DEFINE j == IF k = i THEN 1 ELSE IF k < i THEN k + 1 ELSE k
<1>1. Len(s) \in Nat
  BY LenProperties
<1>2. j \in 1 .. Len(s) /\ Origin(i, j) = k
  BY <1>1 DEF Origin
<1> QED
  BY <1>2, ToHeadProperties

HasPool(s, q) == \E i \in 1 .. Len(s) : s[i].pool = q

\* What leaves the list with the tail is destroyed.
LEMMA EvictTailDestroys ==
    ASSUME Parts, NEW s \in Seq(Entry), EvictTail(s), NEW q \in Pools, HasPool(s, q)
    PROVE  HasPool(lru', q) \/ heap'[q] = Free
<1>1. PICK i \in 1 .. Len(s) : s[i].pool = q
  BY DEF HasPool
<1>2. Len(s) \in Nat
  BY LenProperties
<1>3. s # <<>>
  BY <1>1, <1>2, EmptySeq
<1>4. /\ lru' = Front(s)
      /\ heap' = IF Last(s).pool = Nil THEN heap ELSE [heap EXCEPT ![Last(s).pool] = Free]
  BY <1>3 DEF EvictTail
<1>5. /\ Len(Front(s)) = Len(s) - 1
      /\ \A k \in 1 .. Len(s) - 1 : Front(s)[k] = s[k]
      /\ Last(s) = s[Len(s)]
  BY <1>3, FrontProperties
<1>6. CASE i = Len(s)
  <2>1. Last(s).pool = q /\ q # Nil
    BY <1>1, <1>5, <1>6, NilAssumption
  <2>2. heap \in [Pools -> Rules \cup {Nil, Free}]
    BY DEF Parts, TypeOK
  <2> QED
    BY <1>4, <2>1, <2>2
<1>7. CASE i # Len(s)
  BY <1>1, <1>2, <1>4, <1>5, <1>7 DEF HasPool
<1> QED
  BY <1>6, <1>7

\* The owners of a pool, by position.
LEMMA OwnedParts ==
    ASSUME lru \in Seq(Entry), NEW q
    PROVE  Owned(q) <=> HasPool(lru, q) \/ (load.pc # "idle" /\ load.pool = q)
<1>1. ToSet(lru) = {lru[i] : i \in 1 .. Len(lru)}
  BY DEF ToSet
<1> QED
  BY <1>1 DEF Owned, HasPool

LEMMA PoolsStep ==
    ASSUME Parts, Parts', ResultIsMostRecent, Next, NEW q \in Pools,
           Owned(q), ~Owned(q)', heap'[q] # Free
    PROVE  Return /\ (~load.cached \/ "entry" \in Faults)
<1>1. TypeOK /\ lru \in Seq(Entry) /\ lru' \in Seq(Entry) /\ q # Nil
  BY NilAssumption DEF Parts, TypeOK
<1>2. HasPool(lru, q) \/ (load.pc # "idle" /\ load.pool = q)
  BY <1>1, OwnedParts
<1>3. ~HasPool(lru', q) /\ ~(load'.pc # "idle" /\ load'.pool = q)
  <2>1. ToSet(lru') = {lru'[i] : i \in 1 .. Len(lru')}
    BY <1>1 DEF ToSet
  <2> QED
    BY <2>1 DEF Owned, HasPool
<1>4. ~\E p \in Paths : WriteFile(p) \/ RemoveFile(p) \/ ChmodFile(p)
  BY <1>2, <1>3 DEF WriteFile, RemoveFile, ChmodFile, worker
<1>5. load.pc \in {"idle", "lookup", "stat"} => load.pool = Nil
  BY <1>1 DEF TypeOK, LoadShape, Idle
<1>6. ASSUME \/ \E p \in Paths : Begin(p)
             \/ LookupMiss \/ StatMissing \/ StatPresent \/ PoolFails
      PROVE  FALSE
  <2>1. CASE \E p \in Paths : Begin(p)
    BY <1>1, <1>2, <1>3, <1>5, <2>1 DEF Begin
  <2>2. CASE LookupMiss
    BY <1>1, <1>2, <1>3, <1>5, <2>2 DEF LookupMiss
  <2>3. CASE StatMissing
    BY <1>1, <1>2, <1>3, <1>5, <2>3 DEF StatMissing
  <2>4. CASE StatPresent
    BY <1>1, <1>2, <1>3, <1>5, <2>4 DEF StatPresent
  <2>5. CASE PoolFails
    BY <1>1, <1>2, <1>3, <1>5, <2>5 DEF PoolFails
  <2> QED
    BY <1>6, <2>1, <2>2, <2>3, <2>4, <2>5
<1>7. ASSUME ParseOk \/ InsertFails
      PROVE  FALSE
  <2>1. lru' = lru /\ load'.pc # "idle" /\ load'.pool = load.pool
    BY <1>1, <1>7 DEF TypeOK, ParseOk, InsertFails, Finish
  <2> QED
    BY <1>2, <1>3, <2>1
<1>8. ~(ParseDeclined \/ ParseError)
  <2>1. ASSUME ParseDeclined \/ ParseError
        PROVE  lru' = lru /\ heap' = [heap EXCEPT ![load.pool] = Free]
    BY <2>1 DEF ParseDeclined, ParseError
  <2>2. heap \in [Pools -> Rules \cup {Nil, Free}]
    BY <1>1 DEF TypeOK
  <2> QED
    BY <1>2, <1>3, <2>1, <2>2
<1>9. ~LookupHit
  <2>1. SUFFICES ASSUME LookupHit
                 PROVE  FALSE
    OBVIOUS
  <2>2. PICK i \in 1 .. Len(lru) : lru' = ToHead(lru, i)
    BY <1>1, <2>1 DEF LookupHit
  <2>3. PICK k \in 1 .. Len(lru) : lru[k].pool = q
    BY <1>1, <1>2, <1>5, <2>1 DEF LookupHit, HasPool
  <2>4. PICK j \in 1 .. Len(lru) : ToHead(lru, i)[j] = lru[k]
    BY <1>1, ToHeadKeeps
  <2>5. Len(lru') = Len(lru)
    BY <1>1, <2>2, ToHeadProperties
  <2> QED
    BY <1>3, <2>2, <2>3, <2>4, <2>5 DEF HasPool
<1>10. ~LookupStale
  <2>1. SUFFICES ASSUME LookupStale
                 PROVE  FALSE
    OBVIOUS
  <2>2. PICK i \in 1 .. Len(lru) : EvictTail(ToHead(lru, i))
    BY <1>1, <2>1 DEF LookupStale
  <2>3. PICK k \in 1 .. Len(lru) : lru[k].pool = q
    BY <1>1, <1>2, <1>5, <2>1 DEF LookupStale, HasPool
  <2>4. PICK j \in 1 .. Len(lru) : ToHead(lru, i)[j] = lru[k]
    BY <1>1, ToHeadKeeps
  <2>5. ToHead(lru, i) \in Seq(Entry) /\ Len(ToHead(lru, i)) = Len(lru)
    BY <1>1, ToHeadProperties
  <2>6. HasPool(ToHead(lru, i), q)
    BY <2>3, <2>4, <2>5 DEF HasPool
  <2> QED
    BY <1>3, <2>2, <2>5, <2>6, EvictTailDestroys
<1>11. ~EvictForRoom
  <2>1. ASSUME EvictForRoom
        PROVE  EvictTail(lru) /\ load' = load
    BY <2>1 DEF EvictForRoom
  <2> QED
    BY <1>1, <1>2, <1>3, <2>1, EvictTailDestroys
<1>12. ~Insert
  <2> DEFINE e == [path |-> load.path, stamp |-> load.stamp,
                   absent |-> load.rc = "declined", pool |-> load.pool]
  <2>1. SUFFICES ASSUME Insert
                 PROVE  FALSE
    OBVIOUS
  <2>2. lru' = <<e>> \o lru /\ load' = [load EXCEPT !.pc = "done"]
    BY <2>1 DEF Insert, Cons
  <2>3. load'.pc # "idle" /\ load'.pool = load.pool
    BY <1>1, <2>2 DEF TypeOK
  <2>4. PICK k \in 1 .. Len(lru) : lru[k].pool = q
    BY <1>2, <1>3, <2>3 DEF HasPool
  <2>5. Len(lru') = Len(lru) + 1 /\ lru'[k + 1] = lru[k]
    <3> HIDE DEF e
    <3> QED
      BY <1>1, <2>2
  <2>6. Len(lru) \in Nat
    BY <1>1, LenProperties
  <2> QED
    BY <1>3, <2>4, <2>5, <2>6 DEF HasPool
<1>13. Return
  BY <1>4, <1>6, <1>7, <1>8, <1>9, <1>10, <1>11, <1>12 DEF Next, Run, Environment
<1>14. load.pc = "done" /\ lru' = lru /\ load.pool = q /\ ~HasPool(lru, q)
  BY <1>2, <1>3, <1>13 DEF Return
<1>15. load.rc # "error"
  BY <1>1, <1>14 DEF TypeOK, LoadShape
<1>16. ASSUME load.cached, "entry" \notin Faults
       PROVE  FALSE
  <2>1. lru # <<>> /\ Head(lru).pool = load.pool
    BY <1>14, <1>15, <1>16 DEF ResultIsMostRecent
  <2>2. Head(lru) = lru[1] /\ 1 \in 1 .. Len(lru)
    BY <1>1, <2>1, EmptySeq, HeadTailProperties, LenProperties
  <2> QED
    BY <1>14, <2>1, <2>2 DEF HasPool
<1> QED
  BY <1>13, <1>16

\* No pool of rules is forgotten by its last owner and still allocated, but for
\* loads whose rules are not stored: memory for them is lost to the worker.
THEOREM OnlyUnstoredPoolsAreLost == Spec => PoolsNotLost
<1>1. Parts /\ Parts' /\ ResultIsMostRecent /\ [Next]_vars =>
        [\A q \in Pools : Owned(q) /\ ~Owned(q)' /\ heap'[q] # Free
            => Return /\ (~load.cached \/ "entry" \in Faults)]_vars
  BY PoolsStep
<1> QED
  BY <1>1, AlwaysResult, PTL DEF Spec, PoolsNotLost

-----------------------------------------------------------------------------
(* Every load answers as one read of the file at one instant would. *)

LEMMA DiskBarType ==
    ASSUME NEW f \in [Paths -> Present \cup {Missing}]
    PROVE  [p \in Paths |-> [rules |-> f[p].rules, readable |-> f[p].readable]]
              \in [Paths -> Read!Disk]
<1> SUFFICES ASSUME NEW p \in Paths
             PROVE  [rules |-> f[p].rules, readable |-> f[p].readable] \in Read!Disk
  OBVIOUS
<1>1. f[p] \in Present \cup {Missing}
  OBVIOUS
<1>2. f[p].rules \in Read!Contents /\ f[p].readable \in BOOLEAN
  <2>1. CASE f[p] \in Present
    BY <2>1 DEF Present, Read!Contents
  <2>2. CASE f[p] = Missing
    BY <2>2 DEF Missing, Read!Contents
  <2> QED
    BY <1>1, <2>1, <2>2
<1>3. f[p].rules = Nil => f[p].readable
  BY <1>1, NilAssumption, ContentsAssumption DEF Present, Missing
<1> DEFINE g == [rules |-> f[p].rules, readable |-> f[p].readable]
<1>4. g \in [rules : Read!Contents, readable : BOOLEAN] /\ (g.rules = Nil => g.readable)
  BY <1>2, <1>3
<1> HIDE DEF g
<1>5. g \in Read!Disk
  BY <1>4 DEF Read!Disk
<1> QED
  BY <1>5 DEF g

LEMMA ReadInit == Init => Read!Init
<1> SUFFICES ASSUME Init
             PROVE  Read!Init
  OBVIOUS
<1>1. DiskBar \in [Paths -> Read!Disk]
  BY DiskBarType DEF Init, DiskBar
<1>2. ReadBar = Read!Idle
  BY DEF Init, Idle, ReadBar, Read!Idle
<1> QED
  BY <1>1, <1>2 DEF Read!Init

\* A change of a file is a change the abstract environment can make.
LEMMA ReadEnvironment ==
    ASSUME Parts, NEW p \in Paths, WriteFile(p) \/ RemoveFile(p) \/ ChmodFile(p)
    PROVE  Read!Change(p)
<1>1. UNCHANGED worker /\ TypeOK
  BY DEF WriteFile, RemoveFile, ChmodFile, Parts
<1>2. DiskBar \in [Paths -> Read!Disk] /\ DiskBar' \in [Paths -> Read!Disk]
  <2>1. TypeOK'
    BY EnvironmentParts DEF Parts
  <2> QED
    BY <1>1, <2>1, DiskBarType DEF TypeOK, DiskBar
<1>3. \A o \in Paths : o # p => file'[o] = file[o]
  BY <1>1 DEF WriteFile, RemoveFile, ChmodFile, TypeOK
<1>4. DiskBar' = [DiskBar EXCEPT ![p] = DiskBar'[p]]
  BY <1>3 DEF DiskBar
<1>5. DiskBar'[p] \in Read!Disk
  BY <1>2
<1>6. UNCHANGED ReadBar
  BY <1>1 DEF ReadBar, Answer, worker
<1> QED
  BY <1>4, <1>5, <1>6 DEF Read!Change

\* Steps between the sampling instants are invisible.
LEMMA ReadStutters ==
    ASSUME Parts,
           LookupMiss \/ LookupStale \/ StatPresent \/ EvictForRoom \/ Insert \/ InsertFails
    PROVE  UNCHANGED Read!vars
<1>1. UNCHANGED file /\ TypeOK /\ LoadSound
  BY DEF LookupMiss, LookupStale, StatPresent, EvictForRoom, Insert, InsertFails, Parts
<1>2. UNCHANGED DiskBar
  BY <1>1 DEF DiskBar
<1>3. CASE LookupMiss \/ LookupStale \/ StatPresent
  <2>1. /\ load.pc \in {"lookup", "stat"} /\ load'.pc \in {"stat", "parse"}
        /\ load'.path = load.path
    BY <1>1, <1>3 DEF LookupMiss, LookupStale, StatPresent, TypeOK
  <2>2. UNCHANGED ReadBar
    BY <2>1 DEF ReadBar
  <2> QED
    BY <1>2, <2>2 DEF Read!vars
<1>4. CASE EvictForRoom \/ Insert \/ InsertFails
  <2>1. /\ load.pc = "store" /\ load'.pc \in {"store", "done"}
        /\ load'.path = load.path /\ load'.rc = load.rc /\ load'.pool = load.pool
    BY <1>1, <1>4 DEF EvictForRoom, Insert, InsertFails, TypeOK
  <2>2. load.rc = "ok" => heap'[load.pool] = heap[load.pool]
    <3>1. CASE EvictForRoom
      <4>1. load.rc = "ok" => heap[load.pool] \in Rules /\ load.pool \in Pools
        BY <1>1, <2>1 DEF LoadSound, TypeOK, LoadShape
      <4>2. load.rc = "ok" => Unowned(lru, load.pool)
        BY <1>1, <2>1 DEF Parts, Building, TypeOK, LoadShape
      <4>3. EvictTail(lru) /\ lru # <<>>
        BY <3>1, <1>1, MaxEntriesAssumption, EmptySeq
           DEF EvictForRoom, Full, Parts, CacheBounded
      <4>4. \A q \in Pools : Unowned(lru, q) => heap'[q] = heap[q]
        BY <1>1, <4>3, EvictTailSound DEF Parts
      <4> QED
        BY <4>1, <4>2, <4>4
    <3>2. CASE Insert \/ InsertFails
      BY <3>2 DEF Insert, InsertFails
    <3> QED
      BY <1>4, <3>1, <3>2
  <2>3. UNCHANGED Answer
    BY <2>1, <2>2 DEF Answer
  <2>4. UNCHANGED ReadBar
    BY <2>1, <2>3 DEF ReadBar
  <2> QED
    BY <1>2, <2>4 DEF Read!vars
<1> QED
  BY <1>3, <1>4

\* The instant of a load: the stat of a hit, the stat that finds no file, the
\* read.  The answer is right for the file as it then is.
LEMMA ReadSamples ==
    ASSUME Parts,
           LookupHit \/ StatMissing \/ PoolFails \/ ParseOk \/ ParseDeclined \/ ParseError
    PROVE  Read!Sample
<1>1. UNCHANGED file /\ TypeOK
  BY DEF LookupHit, StatMissing, PoolFails, ParseOk, ParseDeclined, ParseError, Parts
<1>2. UNCHANGED DiskBar
  BY <1>1 DEF DiskBar
<1>3. load.pc \in {"lookup", "stat", "parse"} /\ load.path \in Paths
  BY <1>1 DEF LookupHit, StatMissing, PoolFails, ParseOk, ParseDeclined, ParseError,
              TypeOK, LoadShape
<1>4. load'.pc \in {"store", "done"} /\ load'.path = load.path
  BY <1>1 DEF LookupHit, StatMissing, PoolFails, ParseOk, ParseDeclined, ParseError,
              TypeOK, Finish
<1> DEFINE g == file[load.path]
           d == DiskBar[load.path]
<1>5. d.rules = g.rules /\ d.readable = g.readable /\ g \in Present \cup {Missing}
  BY <1>1, <1>3 DEF DiskBar, TypeOK
<1>6. g.rules \in Read!Contents /\ Nil \in Read!Contents /\ Malformed \in Read!Contents
  BY <1>5 DEF Read!Contents, Present, Missing
<1> HIDE DEF d
<1>7. Answer' \in Read!RightAnswers(d)
  <2>1. CASE LookupHit
    <3>1. PICK i \in 1 .. Len(lru) :
             /\ lru[i].path = load.path /\ Valid(lru[i])
             /\ load' = [load EXCEPT !.pc = "done", !.pool = lru[i].pool,
                                     !.rc = IF lru[i].absent THEN "declined" ELSE "ok"]
      <4>1. DOMAIN lru = 1 .. Len(lru)
        BY <1>1 DEF TypeOK
      <4> QED
        BY <2>1, <4>1 DEF LookupHit, FoundAt
    <3>2. CASE lru[i].absent
      <4>1. g.stamp = Nil
        BY <3>1, <3>2 DEF Valid
      <4>2. g = Missing
        BY <1>5, <4>1, NilAssumption DEF Present
      <4>3. Answer' = Nil
        BY <1>1, <3>1, <3>2 DEF Answer, TypeOK
      <4> QED
        BY <1>5, <1>6, <4>2, <4>3 DEF Missing, Read!RightAnswers
    <3>3. CASE ~lru[i].absent
      <4>1. lru[i].stamp = g.stamp
        BY <3>1, <3>3 DEF Valid
      <4>2. heap[lru[i].pool] \in Rules /\ heap[lru[i].pool] = g.rules
        BY <3>1, <3>3, <4>1 DEF Parts, Sound
      <4>3. Answer' = g.rules
        BY <1>1, <2>1, <3>1, <3>3, <4>2 DEF Answer, TypeOK, LookupHit
      <4> QED
        BY <1>5, <1>6, <4>2, <4>3 DEF Read!RightAnswers
    <3> QED
      BY <3>2, <3>3
  <2>2. CASE StatMissing
    <3>1. Answer' = Nil /\ g = Missing
      BY <1>1, <2>2 DEF StatMissing, Finish, Answer, TypeOK
    <3> QED
      BY <1>5, <1>6, <3>1 DEF Missing, Read!RightAnswers
  <2>3. CASE PoolFails
    <3>1. Answer' = Malformed
      BY <1>1, <2>3 DEF PoolFails, Answer, TypeOK
    <3>2. Faults # {}
      BY <2>3 DEF PoolFails
    <3> QED
      BY <1>6, <3>1, <3>2 DEF Read!RightAnswers
  <2>4. CASE ParseOk
    <3>1. Answer' = g.rules
      BY <1>1, <2>4 DEF ParseOk, Finish, Answer, TypeOK, LoadShape
    <3>2. g.rules \in Rules
      BY <2>4 DEF ParseOk
    <3> QED
      BY <1>5, <1>6, <3>1, <3>2 DEF Read!RightAnswers
  <2>5. CASE ParseDeclined
    <3>1. Answer' = Nil /\ (g = Missing \/ ~g.readable)
      BY <1>1, <2>5 DEF ParseDeclined, Finish, Answer, TypeOK
    <3>2. g = Missing => d.rules = Nil /\ d.readable
      BY <1>5 DEF Missing
    <3>3. (Nil = d.rules /\ d.readable) \/ ~d.readable
      BY <1>5, <3>1, <3>2
    <3> QED
      BY <1>6, <3>1, <3>3 DEF Read!RightAnswers
  <2>6. CASE ParseError
    <3>1. Answer' = Malformed /\ g.readable /\ (g.rules = Malformed \/ Faults # {})
      BY <1>1, <2>6 DEF ParseError, Finish, Answer, TypeOK
    <3> QED
      BY <1>5, <1>6, <3>1 DEF Read!RightAnswers
  <2> QED
    BY <2>1, <2>2, <2>3, <2>4, <2>5, <2>6
<1>8. ReadBar = [pc |-> "asked", path |-> load.path, answer |-> Nil]
  BY <1>3 DEF ReadBar
<1>9. ReadBar' = [pc |-> "answered", path |-> load.path, answer |-> Answer']
  BY <1>4 DEF ReadBar
<1>10. ReadBar.pc = "asked" /\ ReadBar.path = load.path
  BY <1>8
<1>11. ReadBar' = [pc |-> "answered", path |-> ReadBar.path, answer |-> Answer']
  BY <1>9, <1>10
<1> QED
  BY <1>2, <1>7, <1>10, <1>11 DEF Read!Sample, d

LEMMA ReadStep == Parts /\ [Next]_vars => [Read!Next]_Read!vars
<1> SUFFICES ASSUME Parts, [Next]_vars
             PROVE  Read!Next \/ UNCHANGED Read!vars
  OBVIOUS
<1>1. CASE \E p \in Paths : WriteFile(p) \/ RemoveFile(p) \/ ChmodFile(p)
  BY <1>1, ReadEnvironment DEF Read!Next
<1>2. CASE LookupMiss \/ LookupStale \/ StatPresent \/ EvictForRoom \/ Insert \/ InsertFails
  BY <1>2, ReadStutters
<1>3. CASE LookupHit \/ StatMissing \/ PoolFails \/ ParseOk \/ ParseDeclined \/ ParseError
  BY <1>3, ReadSamples DEF Read!Next
<1>4. CASE \E p \in Paths : Begin(p)
  <2>1. PICK p \in Paths : Begin(p)
    BY <1>4
  <2>2. load.pc = "idle" /\ load'.pc \in {"lookup", "stat"} /\ load'.path = p
        /\ UNCHANGED file /\ load = Idle
    BY <2>1 DEF Begin, Idle, Parts, TypeOK, LoadShape
  <2>3. ReadBar = [pc |-> "idle", path |-> Nil, answer |-> Nil]
          /\ ReadBar' = [pc |-> "asked", path |-> p, answer |-> Nil]
    BY <2>2 DEF ReadBar, Idle
  <2>4. Read!Ask(p)
    BY <2>2, <2>3 DEF Read!Ask, DiskBar
  <2> QED
    BY <2>4 DEF Read!Next
<1>5. CASE Return
  <2>1. load.pc = "done" /\ load' = Idle /\ UNCHANGED file
    BY <1>5 DEF Return
  <2>2. ReadBar.pc = "answered" /\ ReadBar' = Read!Idle
    BY <2>1 DEF ReadBar, Idle, Read!Idle
  <2>3. Read!Return
    BY <2>1, <2>2 DEF Read!Return, DiskBar
  <2> QED
    BY <2>3 DEF Read!Next
<1>6. CASE UNCHANGED vars
  BY <1>6 DEF vars, Read!vars, ReadBar, DiskBar, Answer
<1> QED
  BY <1>1, <1>2, <1>3, <1>4, <1>5, <1>6 DEF Next, Run, Environment

\* htaccess_load_file with its cache implements HtaccessRead: nothing but speed
\* tells a caller whether an answer came from the cache or from the file.
THEOREM CacheIsInvisible == Spec => ReadsCorrectly
<1>1. Init => Read!Init
  BY ReadInit
<1>2. Parts /\ [Next]_vars => [Read!Next]_Read!vars
  BY ReadStep
<1> QED
  BY <1>1, <1>2, AlwaysParts, PTL DEF Spec, Read!Spec, ReadsCorrectly

-----------------------------------------------------------------------------
(* Progress. *)

\* Making room takes an entry off the list and off the count.
LEMMA RoomIsMade ==
    ASSUME Parts, EvictForRoom
    PROVE  count' < count /\ Len(lru') < Len(lru)
<1>1. /\ lru \in Seq(Entry) /\ Len(lru) \in Nat /\ count = Len(lru)
      /\ MaxEntries \in Nat \ {0} /\ count >= MaxEntries
  BY MaxEntriesAssumption, LenProperties DEF Parts, TypeOK, CacheBounded, EvictForRoom, Full
<1>2. lru # <<>> /\ EvictTail(lru)
  BY <1>1 DEF EvictForRoom
<1>3. lru' = Front(lru) /\ count' = count - 1
  BY <1>2 DEF EvictTail
<1> QED
  BY <1>1, <1>2, <1>3, FrontProperties

LEMMA ProgressStep ==
    ASSUME Parts, Next, worker' # worker, load.pc # "done"
    PROVE  \/ Stage[load'.pc] > Stage[load.pc]
           \/ load.pc = "store" /\ load' = load /\ count' < count /\ Len(lru') < Len(lru)
<1>1. load.pc \in {"idle", "lookup", "stat", "parse", "store", "done"} /\ DOMAIN load =
        {"pc", "path", "cached", "stamp", "pool", "rc"}
  BY DEF Parts, TypeOK
<1>2. ~Environment /\ ~Return
  BY DEF Environment, WriteFile, RemoveFile, ChmodFile, Return
<1>3. CASE \E p \in Paths : Begin(p)
  <2>1. load.pc = "idle" /\ load'.pc \in {"lookup", "stat"}
    BY <1>3 DEF Begin, Idle
  <2> QED
    BY <2>1 DEF Stage
<1>4. CASE LookupMiss \/ LookupHit \/ LookupStale
  <2>1. load.pc = "lookup" /\ load'.pc \in {"stat", "done"}
    BY <1>1, <1>4 DEF LookupMiss, LookupHit, LookupStale
  <2> QED
    BY <2>1 DEF Stage
<1>5. CASE StatMissing \/ StatPresent \/ PoolFails
  <2>1. load.pc = "stat" /\ load'.pc \in {"parse", "store", "done"}
    BY <1>1, <1>5 DEF StatMissing, StatPresent, PoolFails, Finish
  <2> QED
    BY <2>1 DEF Stage
<1>6. CASE ParseOk \/ ParseDeclined \/ ParseError
  <2>1. load.pc = "parse" /\ load'.pc \in {"store", "done"}
    BY <1>1, <1>6 DEF ParseOk, ParseDeclined, ParseError, Finish
  <2> QED
    BY <2>1 DEF Stage
<1>7. CASE Insert \/ InsertFails
  <2>1. load.pc = "store" /\ load'.pc = "done"
    BY <1>1, <1>7 DEF Insert, InsertFails
  <2> QED
    BY <2>1 DEF Stage
<1>8. CASE EvictForRoom
  BY <1>8, RoomIsMade DEF EvictForRoom
<1> QED
  BY <1>2, <1>3, <1>4, <1>5, <1>6, <1>7, <1>8 DEF Next, Run

\* htaccess_load_file never goes back to an earlier stage, and the loop of
\* htaccess_cache_store that makes room runs at most count times: cache->count is
\* the length of the list whenever the loop looks at it, so there is an entry to take.
THEOREM LoadsGetOn == Spec => LoadGetsOn
<1>1. Parts /\ [Next]_vars =>
        [worker' # worker /\ load.pc # "done" =>
           \/ Stage[load'.pc] > Stage[load.pc]
           \/ load.pc = "store" /\ load' = load /\ count' < count /\ Len(lru') < Len(lru)]_vars
  BY ProgressStep
<1> QED
  BY <1>1, AlwaysParts, PTL DEF Spec, LoadGetsOn

=============================================================================
