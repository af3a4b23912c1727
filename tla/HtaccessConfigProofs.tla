------------------------- MODULE HtaccessConfigProofs -------------------------
(***************************************************************************)
(* Theorems about HtaccessConfig: where the static pointer leads, and what *)
(* a worker finds there, for any number of configurations, levels and      *)
(* workers.                                                                *)
(***************************************************************************)
EXTENDS HtaccessConfig, HtaccessInduction, SequenceTheorems, TLAPS

Fields == {"pool", "text", "cache_max_entries", "loc"}

\* A configuration that is there, with the number that no directive can change.
Whole(m) ==
    /\ DOMAIN m = Fields
    /\ m.pool = "created"
    /\ m.cache_max_entries = "1024"

\* The configuration being read is there, is not the one that runs, and has the
\* pointer if and only if its http { } is done.
Underway ==
    /\ last \in Cycles
    /\ live # last
    /\ Whole(memory[last])
    /\ reading.pc \in {"parse", "merged"} =>
         memory[last].text.http /\ htaccess_main_conf # last
    /\ reading.pc = "rest" => (memory[last].text.http <=> htaccess_main_conf = last)

Numbers ==
    /\ last \in 0 .. MaxCycles
    /\ live \in 0 .. last
    /\ htaccess_main_conf \in (1 .. last) \cup {Nil}

Memory ==
    /\ memory \in [Cycles -> {memory[c] : c \in Cycles}]
    /\ \A c \in Cycles : memory[c] = Released \/ Whole(memory[c])

Inv ==
    /\ Numbers
    /\ Memory
    /\ reading.pc \in {"idle", "parse", "merged", "rest"}
    /\ DOMAIN reading = {"pc", "todo"}
    /\ reading.pc # "idle" => Underway

-----------------------------------------------------------------------------

LEMMA Apart == Released.pool = "released" /\ \A m : Whole(m) => m.pool # "released"
  BY DEF Released, Whole

\* Setting or merging what is kept per location leaves the rest alone.
LEMMA LocOnly ==
    ASSUME NEW m, NEW x, Whole(m)
    PROVE  LET n == [m EXCEPT !.loc = x] IN Whole(n) /\ n.text = m.text
  BY DEF Whole, Fields

LEMMA InitInv == Init => Inv
  <1> SUFFICES ASSUME Init PROVE Inv
    OBVIOUS
  <1>1. Numbers
    BY LevelsAssumption DEF Init, Numbers
  <1>2. Memory
    BY DEF Init, Memory
  <1> QED
    BY <1>1, <1>2 DEF Init, Inv, NotReading

LEMMA ReloadInv == Inv /\ Reload => Inv'
  <1> SUFFICES ASSUME Inv, Reload PROVE Inv'
    OBVIOUS
  <1> DEFINE conf(t) == [pool |-> "created", text |-> t, cache_max_entries |-> CreateMainConf,
                         loc |-> [l \in 1 .. Levels |-> CreateLocConf]]
  <1>1. PICK t \in Texts :
          /\ memory' = [memory EXCEPT ![last + 1] = conf(t)]
          /\ reading' = IF t.http THEN [pc |-> "parse", todo |-> t.directives]
                                  ELSE [pc |-> "rest", todo |-> <<>>]
    BY DEF Reload
  <1>2. Whole(conf(t)) /\ conf(t).text = t
    BY DEF Whole, Fields, CreateMainConf
  <1> HIDE DEF conf
  <1>3. last \in Nat /\ last' = last + 1 /\ last + 1 \in Cycles
    BY LevelsAssumption DEF Inv, Numbers, Reload, Cycles
  <1>4. Numbers'
    BY <1>3, LevelsAssumption DEF Inv, Numbers, Reload
  <1>5. memory'[last + 1] = conf(t) /\ \A c \in Cycles \ {last + 1} : memory'[c] = memory[c]
    BY <1>1, <1>3 DEF Inv, Memory
  <1>6. Memory'
    BY <1>1, <1>2, <1>3, <1>5 DEF Inv, Memory
  <1>7. htaccess_main_conf' # last' /\ live' # last'
    BY <1>3, NilAssumption DEF Inv, Numbers, Reload
  <1>8. Underway'
    <2>1. CASE t.http
      <3>1. reading'.pc = "parse"
        BY <1>1, <2>1
      <3> QED
        BY <1>2, <1>3, <1>5, <1>7, <2>1, <3>1 DEF Underway
    <2>2. CASE ~t.http
      <3>1. reading'.pc = "rest"
        BY <1>1, <2>2
      <3> QED
        BY <1>2, <1>3, <1>5, <1>7, <2>2, <3>1 DEF Underway
    <2> QED
      BY <2>1, <2>2
  <1> QED
    BY <1>1, <1>4, <1>6, <1>8 DEF Inv

LEMMA SetInv == Inv /\ SetDirective => Inv'
  <1> SUFFICES ASSUME Inv, SetDirective PROVE Inv'
    OBVIOUS
  <1> DEFINE d == Head(reading.todo)
  <1>1. Underway
    BY DEF Inv, SetDirective
  <1>2. d.name \in LocNames
    <2>1. memory[last].cache_max_entries = "1024" /\ "1024" # Unset
      BY <1>1, SizesAssumption, UnsetAssumption DEF Underway, Whole
    <2> QED
      BY <2>1 DEF SetDirective, Accepted
  <1>3. PICK x : memory' = [memory EXCEPT ![last] = [memory[last] EXCEPT !.loc = x]]
    <2>1. memory' = [memory EXCEPT ![last].loc[d.level][d.name] = d.value]
      BY <1>2 DEF SetDirective
    <2> QED
      BY <2>1
  <1>4. Whole(memory'[last]) /\ memory'[last].text = memory[last].text
    BY <1>1, <1>3, LocOnly DEF Underway, Inv, Memory
  <1>5. Memory'
    BY <1>1, <1>3, <1>4 DEF Inv, Memory, Underway
  <1>6. reading' = [reading EXCEPT !.todo = Tail(@)] /\ reading.pc = "parse"
    BY DEF SetDirective
  <1>7. DOMAIN reading' = {"pc", "todo"} /\ reading'.pc = "parse"
    BY <1>6 DEF Inv
  <1>8. UNCHANGED <<last, live, htaccess_main_conf>>
    BY DEF SetDirective
  <1>9. Underway'
    BY <1>1, <1>4, <1>6, <1>7, <1>8 DEF Underway
  <1> QED
    BY <1>5, <1>7, <1>8, <1>9 DEF Inv, Numbers

LEMMA MergeInv == Inv /\ MergeConf => Inv'
  <1> SUFFICES ASSUME Inv, MergeConf PROVE Inv'
    OBVIOUS
  <1>1. Underway
    BY DEF Inv, MergeConf
  <1>2. PICK x : memory' = [memory EXCEPT ![last] = [memory[last] EXCEPT !.loc = x]]
    BY DEF MergeConf
  <1>3. Whole(memory'[last]) /\ memory'[last].text = memory[last].text
    BY <1>1, <1>2, LocOnly DEF Underway, Inv, Memory
  <1>4. Memory'
    BY <1>1, <1>2, <1>3 DEF Inv, Memory, Underway
  <1>5. reading.pc = "parse" /\ reading' = [reading EXCEPT !.pc = "merged"]
    BY DEF MergeConf
  <1>6. DOMAIN reading' = {"pc", "todo"} /\ reading'.pc = "merged"
    BY <1>5 DEF Inv
  <1>7. UNCHANGED <<last, live, htaccess_main_conf>>
    BY DEF MergeConf
  <1>8. Underway'
    BY <1>1, <1>3, <1>5, <1>6, <1>7 DEF Underway
  <1> QED
    BY <1>4, <1>6, <1>7, <1>8 DEF Inv, Numbers

LEMMA PostconfigurationInv == Inv /\ Postconfiguration => Inv'
  <1> SUFFICES ASSUME Inv, Postconfiguration PROVE Inv'
    OBVIOUS
  <1>1. Underway /\ reading.pc = "merged" /\ reading' = [reading EXCEPT !.pc = "rest"]
    BY DEF Inv, Postconfiguration
  <1>2. DOMAIN reading' = {"pc", "todo"} /\ reading'.pc = "rest"
    BY <1>1 DEF Inv
  <1>3. UNCHANGED <<memory, last, live>> /\ htaccess_main_conf' = last
    BY DEF Postconfiguration
  <1>4. Memory'
    BY <1>3 DEF Inv, Memory
  <1>5. Numbers'
    BY <1>1, <1>3 DEF Inv, Numbers, Underway, Cycles
  <1>6. Underway'
    BY <1>1, <1>2, <1>3 DEF Underway
  <1> QED
    BY <1>2, <1>4, <1>5, <1>6 DEF Inv

LEMMA RefuseInv == Inv /\ Refuse => Inv'
  <1> SUFFICES ASSUME Inv, Refuse PROVE Inv'
    OBVIOUS
  <1>1. Memory'
    BY DEF Inv, Memory, Refuse
  <1>2. Numbers'
    BY DEF Inv, Numbers, Refuse
  <1> QED
    BY <1>1, <1>2 DEF Inv, Refuse, NotReading

LEMMA AcceptInv == Inv /\ Accept => Inv'
  <1> SUFFICES ASSUME Inv, Accept PROVE Inv'
    OBVIOUS
  <1>1. Memory'
    BY DEF Inv, Memory, Accept
  <1>2. Numbers'
    BY DEF Inv, Numbers, Accept
  <1> QED
    BY <1>1, <1>2 DEF Inv, Accept, NotReading

\* Workers read the master's memory and change nothing of it.
LEMMA WorkersInv == Inv /\ UNCHANGED <<memory, last, live, reading, htaccess_main_conf>> => Inv'
  BY DEF Inv, Numbers, Memory, Underway

LEMMA StepInv == Inv /\ [Next]_vars => Inv'
  <1> SUFFICES ASSUME Inv, [Next]_vars PROVE Inv'
    OBVIOUS
  <1>1. CASE \E w \in Workers : Spawn(w) \/ Exit(w)
    BY <1>1, WorkersInv DEF Spawn, Exit
  <1>2. CASE UNCHANGED vars
    BY <1>2, WorkersInv DEF vars
  <1> QED
    BY <1>1, <1>2, ReloadInv, SetInv, MergeInv, PostconfigurationInv, RefuseInv, AcceptInv DEF Next

-----------------------------------------------------------------------------

\* The pointer comes to lead to a destroyed pool in two ways only.
LEMMA DanglingStep ==
    Inv /\ [Next]_vars /\ ~Dangling /\ Dangling'
      => \/ Refuse /\ reading.pc = "rest" /\ memory[last].text.http
         \/ Accept /\ ~memory[last].text.http
  <1> SUFFICES ASSUME Inv, [Next]_vars, ~Dangling, Dangling'
               PROVE  \/ Refuse /\ reading.pc = "rest" /\ memory[last].text.http
                      \/ Accept /\ ~memory[last].text.http
    OBVIOUS
  <1> DEFINE p == htaccess_main_conf'
  <1>1. Inv'
    BY StepInv
  <1>2. p # Nil /\ memory'[p].pool = "released"
    BY DEF Dangling
  <1>3. p \in Cycles
    BY <1>1, <1>2, LevelsAssumption DEF Inv, Numbers, Cycles
  <1>4. memory'[p] = Released
    BY <1>1, <1>2, <1>3, Apart DEF Inv, Memory
  <1>5. p = htaccess_main_conf => Whole(memory[p]) /\ memory[p] # memory'[p]
    BY <1>2, <1>3, Apart DEF Dangling, Inv, Memory
  <1>6. CASE Refuse
    <2>1. p = htaccess_main_conf
      BY <1>2, <1>6 DEF Refuse
    <2>2. p = last
      BY <1>3, <1>5, <1>6, <2>1 DEF Refuse, Inv, Memory
    <2>3. Underway /\ reading.pc # "idle"
      BY <1>6 DEF Refuse, Inv
    <2> QED
      BY <1>6, <2>1, <2>2, <2>3 DEF Underway, Inv
  <1>7. CASE Accept
    <2>1. p = htaccess_main_conf
      BY <1>7 DEF Accept
    <2>2. p = live
      BY <1>3, <1>5, <1>7, <2>1 DEF Accept, Inv, Memory
    <2>3. Underway /\ reading.pc = "rest"
      BY <1>7 DEF Accept, Inv
    <2> QED
      BY <1>7, <2>1, <2>2, <2>3 DEF Underway
  <1>8. CASE Reload
    <2>1. p = htaccess_main_conf /\ p # last + 1
      BY <1>1, <1>2, <1>8, NilAssumption DEF Reload, Inv, Numbers
    <2> QED
      BY <1>3, <1>5, <1>8, <2>1 DEF Reload, Inv, Memory
  <1>9. CASE SetDirective \/ MergeConf \/ Postconfiguration
    <2>1. Underway' /\ last' = last
      BY <1>1, <1>9 DEF Inv, SetDirective, MergeConf, Postconfiguration
    <2>2. p # last
      BY <1>4, <2>1, Apart DEF Underway
    <2>3. p = htaccess_main_conf /\ memory'[p] = memory[p]
      BY <1>3, <1>9, <2>2 DEF SetDirective, MergeConf, Postconfiguration, Inv, Memory
    <2> QED
      BY <1>5, <2>3
  <1>10. CASE UNCHANGED <<memory, htaccess_main_conf>>
    BY <1>5, <1>10
  <1> QED
    BY <1>6, <1>7, <1>8, <1>9, <1>10 DEF Next, Spawn, Exit, vars

\* ngx_http_htaccess_init: whatever is read, refused and accepted, the static
\* pointer is left in a destroyed pool only by a reload that is refused after
\* http { } was done, or accepted without one.
THEOREM PointerIsLeftLate == Spec => OnlyLateFailuresDangle
  <1>1. Inv /\ [Next]_vars =>
          [~Dangling /\ Dangling' =>
             \/ Refuse /\ reading.pc = "rest" /\ memory[last].text.http
             \/ Accept /\ ~memory[last].text.http]_vars
    BY DanglingStep
  <1> QED
    BY <1>1, InitInv, StepInv, PTL DEF Spec, OnlyLateFailuresDangle

\* Only forking gives a slot a worker, and it reads what the pointer leads to.
LEMMA SizeStep ==
    ASSUME Inv, [Next]_vars, NEW w \in Workers, workers[w] = Nil, workers'[w] # Nil, ~Dangling
    PROVE  workers'[w].max_entries = "1024"
  <1>1. PICK v \in Workers : Spawn(v) \/ Exit(v)
    BY DEF Next, vars, Reload, SetDirective, MergeConf, Postconfiguration, Refuse, Accept
  <1>2. CASE Exit(v)
    BY <1>2 DEF Exit
  <1>3. CASE Spawn(v)
    <2>1. PICK n \in FoundSizes :
            workers' = [workers EXCEPT ![v] = [cycle |-> live, max_entries |-> CacheSize(n)]]
      BY <1>3 DEF Spawn
    <2>2. n = "1024"
      <3>1. CASE htaccess_main_conf = Nil
        BY <2>1, <3>1 DEF FoundSizes
      <3>2. CASE htaccess_main_conf # Nil
        <4>1. htaccess_main_conf \in Cycles
          BY <3>2, LevelsAssumption DEF Inv, Numbers, Cycles
        <4>2. Whole(memory[htaccess_main_conf])
          BY <3>2, <4>1, Apart DEF Dangling, Inv, Memory
        <4> QED
          BY <2>1, <3>2, <4>2 DEF FoundSizes, Whole
      <3> QED
        BY <3>1, <3>2
    <2>3. CacheSize(n) = "1024"
      BY <2>2 DEF CacheSize
    <2>4. w = v
      BY <2>1
    <2> QED
      BY <2>1, <2>3, <2>4
  <1> QED
    BY <1>1, <1>2, <1>3

\* ngx_http_htaccess_create_main_conf: no configuration that nginx accepts gives
\* a worker another cache than one of 1024 entries.
THEOREM SizeCannotBeSet == Spec => OnlyTheDefaultSize
  <1>1. Inv /\ [Next]_vars =>
          [\A w \in Workers :
             workers[w] = Nil /\ workers'[w] # Nil /\ ~Dangling
               => workers'[w].max_entries = "1024"]_vars
    BY SizeStep
  <1> QED
    BY <1>1, InitInv, StepInv, PTL DEF Spec, OnlyTheDefaultSize

-----------------------------------------------------------------------------
(* The types. *)

\* What the directives of one level say.
LocConf == [LocNames -> Values \cup {Unset}]

LEMMA MergedType ==
    ASSUME NEW prev \in LocConf, NEW conf \in LocConf
    PROVE  MergeLocConf(prev, conf) \in LocConf
  BY ValuesAssumption DEF MergeLocConf, LocConf

\* MergedLocs is a recursive function: that it exists, and what it is.
LEMMA MergedLocsIs ==
    ASSUME NEW loc \in [1 .. Levels -> LocConf]
    PROVE  LET m == MergedLocs(loc)
           IN  /\ m \in [1 .. Levels -> LocConf]
               /\ m[1] = loc[1]
               /\ \A l \in 2 .. Levels : m[l] = MergeLocConf(m[l - 1], loc[l])
  <1> DEFINE Is(m) == m = [l \in 1 .. Levels |->
                             IF l = 1 THEN loc[1] ELSE MergeLocConf(m[l - 1], loc[l])]
             n == Levels - 1
             step == [k \in 1 .. n |-> [c \in LocConf |-> MergeLocConf(c, loc[k + 1])]]
  <1>1. n \in Nat /\ loc[1] \in LocConf
    BY LevelsAssumption
  <1>2. step \in Stepping(n, LocConf)
    <2>1. ASSUME NEW k \in 1 .. n PROVE loc[k + 1] \in LocConf
      <3>1. k + 1 \in 1 .. Levels
        BY LevelsAssumption
      <3> QED
        BY <3>1
    <2> QED
      BY <2>1, MergedType DEF Stepping
  <1>3. \A k \in 1 .. n, c \in LocConf : step[k][c] = MergeLocConf(c, loc[k + 1])
    OBVIOUS
  <1> HIDE DEF step, n
  <1>4. PICK f : Follows(f, step, n, LocConf, loc[1])
    BY <1>1, <1>2, Recursion
  <1>5. ASSUME NEW k \in 1 .. n
        PROVE  f[k] = MergeLocConf(f[k - 1], loc[k + 1]) /\ f[k - 1] \in LocConf
    <2>1. k - 1 \in 0 .. n
      BY <1>1
    <2> QED
      BY <1>3, <1>4, <2>1 DEF Follows
  <1> DEFINE g == [l \in 1 .. Levels |-> f[l - 1]]
  <1>6. Is(g)
    <2>1. ASSUME NEW l \in 1 .. Levels
          PROVE  g[l] = IF l = 1 THEN loc[1] ELSE MergeLocConf(g[l - 1], loc[l])
      <3>1. CASE l = 1
        BY <1>4, <3>1 DEF Follows
      <3>2. CASE l # 1
        <4>1. l - 1 \in 1 .. n /\ l - 1 \in 1 .. Levels /\ (l - 1) + 1 = l
          BY <3>2, LevelsAssumption DEF n
        <4> QED
          BY <1>5, <3>2, <4>1
      <3> QED
        BY <3>1, <3>2
    <2> QED
      BY <2>1
  <1> HIDE DEF g
  <1>7. MergedLocs(loc) = CHOOSE m : Is(m)
    BY DEF MergedLocs
  <1> DEFINE m == MergedLocs(loc)
  <1>8. Is(m)
    BY <1>6, <1>7
  <1> HIDE DEF m
  <1>9. /\ m[1] = loc[1]
        /\ \A l \in 2 .. Levels : m[l] = MergeLocConf(m[l - 1], loc[l])
    BY <1>8, LevelsAssumption
  <1>10. \A l \in 1 .. Levels : m[l] \in LocConf
    <2> DEFINE S == {k \in 0 .. n : m[k + 1] \in LocConf}
    <2>1. 0 \in S
      BY <1>1, <1>9
    <2>2. ASSUME NEW k \in 1 .. n, k - 1 \in S PROVE k \in S
      <3>1. k + 1 \in 2 .. Levels /\ (k + 1) - 1 = (k - 1) + 1 /\ k \in 0 .. n /\ k + 1 \in 1 .. Levels
        BY LevelsAssumption DEF n
      <3>2. m[(k - 1) + 1] \in LocConf /\ loc[k + 1] \in LocConf
        BY <2>2, <3>1
      <3>3. m[k + 1] = MergeLocConf(m[(k - 1) + 1], loc[k + 1])
        BY <1>9, <3>1
      <3> QED
        BY <3>1, <3>2, <3>3, MergedType
    <2>3. \A k \in 1 .. n : k - 1 \in S => k \in S
      BY <2>2
    <2> HIDE DEF S
    <2>4. 0 .. n \subseteq S
      BY <1>1, <2>1, <2>3, InductionUpTo
    <2>5. ASSUME NEW l \in 1 .. Levels PROVE m[l] \in LocConf
      <3>1. l - 1 \in 0 .. n /\ (l - 1) + 1 = l
        BY LevelsAssumption DEF n
      <3> QED
        BY <2>4, <3>1 DEF S
    <2> QED
      BY <2>5
  <1>11. m \in [1 .. Levels -> LocConf]
    BY <1>8, <1>10
  <1> QED
    BY <1>9, <1>11 DEF m

\* While one is read it is there, and is no worker's.
LEMMA ReadIsConf ==
    ASSUME Inv, ConfigTypeOK, reading.pc # "idle"
    PROVE  /\ memory[last] \in Conf /\ last \in Cycles
           /\ memory[last].loc \in [1 .. Levels -> LocConf]
  BY Apart DEF Inv, Underway, ConfigTypeOK, Conf, LocConf, Whole

LEMMA SetType ==
    ASSUME Inv, ConfigTypeOK, SetDirective
    PROVE  LET d == Head(reading.todo)
               m == memory[last]
           IN  /\ d \in Directive /\ d.name \in LocNames /\ reading.todo # <<>>
               /\ m.loc[d.level][d.name] = Unset
               /\ memory' = [memory EXCEPT ![last].loc[d.level][d.name] = d.value]
               /\ memory'[last] \in Conf
               /\ d.value \in Values /\ d.level \in 1 .. Levels
  <1> DEFINE d == Head(reading.todo)
  <1>1. reading.todo \in Seq(Directive) /\ reading.todo # <<>> /\ reading.pc = "parse"
    BY DEF ConfigTypeOK, SetDirective
  <1>2. d \in Directive
    BY <1>1
  <1> HIDE DEF d
  <1>3. d.name \in LocNames
    <2>1. memory[last].cache_max_entries = "1024" /\ "1024" # Unset
      BY <1>1, SizesAssumption, UnsetAssumption DEF Inv, Underway, Whole
    <2> QED
      BY <2>1 DEF d, SetDirective, Accepted
  <1>4. d.value \in Values /\ d.level \in 1 .. Levels
    BY <1>2, <1>3 DEF Directive, LocNames, Default
  <1>5. memory' = [memory EXCEPT ![last].loc[d.level][d.name] = d.value]
        /\ memory[last].loc[d.level][d.name] = Unset
    BY <1>3 DEF d, SetDirective, Accepted
  <1>6. memory[last] \in Conf /\ last \in Cycles
    BY <1>1, ReadIsConf
  <1>7. memory'[last] = [memory[last] EXCEPT !.loc[d.level][d.name] = d.value]
    BY <1>5, <1>6 DEF ConfigTypeOK
  <1>8. memory'[last] \in Conf
    <2> DEFINE loc == memory[last].loc
    <2>1. loc \in [1 .. Levels -> [LocNames -> Values \cup {Unset}]]
      BY <1>6 DEF Conf
    <2>2. [loc EXCEPT ![d.level][d.name] = d.value]
            \in [1 .. Levels -> [LocNames -> Values \cup {Unset}]]
      BY <1>3, <1>4, <2>1
    <2>3. memory'[last] = [memory[last] EXCEPT !.loc = [loc EXCEPT ![d.level][d.name] = d.value]]
      BY <1>6, <1>7 DEF Conf
    <2> HIDE DEF loc
    <2> QED
      BY <1>6, <2>2, <2>3 DEF Conf
  <1> QED
    BY <1>1, <1>2, <1>3, <1>4, <1>5, <1>8 DEF d

LEMMA TypeStep ==
    ASSUME Inv, ConfigTypeOK, [Next]_vars
    PROVE  ConfigTypeOK'
  <1>0. Inv' /\ MaxCycles \in Nat /\ <<>> \in Seq(Directive)
    BY StepInv, LevelsAssumption
  <1>1. last' \in 0 .. MaxCycles /\ live' \in 0 .. last' /\ htaccess_main_conf' \in Cycles \cup {Nil}
    BY <1>0 DEF Inv, Numbers, Cycles
  <1>2. CASE Reload
    <2> DEFINE conf(t) == [pool |-> "created", text |-> t, cache_max_entries |-> CreateMainConf,
                           loc |-> [l \in 1 .. Levels |-> CreateLocConf]]
    <2>1. PICK t \in Texts :
            /\ memory' = [memory EXCEPT ![last + 1] = conf(t)]
            /\ reading' = IF t.http THEN [pc |-> "parse", todo |-> t.directives]
                                    ELSE [pc |-> "rest", todo |-> <<>>]
      BY <1>2 DEF Reload
    <2>2. conf(t) \in Conf
      BY SizesAssumption DEF Conf, CreateMainConf, CreateLocConf
    <2>3. t.directives \in Seq(Directive)
      BY TextsAssumption
    <2> HIDE DEF conf
    <2>4. memory' \in [Cycles -> Conf \cup {Released}]
      BY <2>1, <2>2 DEF ConfigTypeOK
    <2>5. reading' \in [pc : {"idle", "parse", "merged", "rest"}, todo : Seq(Directive)]
      BY <1>0, <2>1, <2>3
    <2> QED
      BY <1>1, <1>2, <2>4, <2>5 DEF ConfigTypeOK, Reload
  <1>3. CASE SetDirective
    <2>1. memory'[last] \in Conf /\ last \in Cycles
      BY <1>3, SetType, ReadIsConf DEF SetDirective
    <2>2. PICK x : memory' = [memory EXCEPT ![last] = x]
      <3>1. \E x : memory' = [memory EXCEPT ![last] = x]
        BY <1>3, SetType
      <3> QED
        BY <3>1
    <2>3. memory' \in [Cycles -> Conf \cup {Released}]
      BY <2>1, <2>2 DEF ConfigTypeOK
    <2>4. reading.todo \in Seq(Directive) /\ reading.todo # <<>>
      BY <1>3 DEF ConfigTypeOK, SetDirective
    <2>5. Tail(reading.todo) \in Seq(Directive)
      BY <2>4
    <2>6. reading' \in [pc : {"idle", "parse", "merged", "rest"}, todo : Seq(Directive)]
      BY <1>3, <2>5 DEF ConfigTypeOK, SetDirective
    <2> QED
      BY <1>1, <1>3, <2>3, <2>6 DEF ConfigTypeOK, SetDirective
  <1>4. CASE MergeConf
    <2>1. memory[last] \in Conf /\ last \in Cycles /\ memory[last].loc \in [1 .. Levels -> LocConf]
      BY <1>4, ReadIsConf DEF MergeConf
    <2>2. MergedLocs(memory[last].loc) \in [1 .. Levels -> LocConf]
      BY <2>1, MergedLocsIs
    <2>3. memory' = [memory EXCEPT ![last] = [memory[last] EXCEPT !.loc = MergedLocs(memory[last].loc)]]
      BY <1>4 DEF MergeConf
    <2>4. [memory[last] EXCEPT !.loc = MergedLocs(memory[last].loc)] \in Conf
      BY <2>1, <2>2 DEF Conf, LocConf
    <2>5. memory' \in [Cycles -> Conf \cup {Released}]
      BY <2>3, <2>4 DEF ConfigTypeOK
    <2>6. reading' \in [pc : {"idle", "parse", "merged", "rest"}, todo : Seq(Directive)]
      BY <1>4 DEF ConfigTypeOK, MergeConf
    <2> QED
      BY <1>1, <1>4, <2>5, <2>6 DEF ConfigTypeOK, MergeConf
  <1>5. CASE Postconfiguration
    BY <1>1, <1>5 DEF ConfigTypeOK, Postconfiguration
  <1>6. CASE Refuse \/ Accept
    <2>1. NotReading \in [pc : {"idle", "parse", "merged", "rest"}, todo : Seq(Directive)]
      BY <1>0 DEF NotReading
    <2>2. memory' \in [Cycles -> Conf \cup {Released}]
      BY <1>6 DEF ConfigTypeOK, Refuse, Accept
    <2>3. reading' = NotReading /\ workers' = workers
      BY <1>6 DEF Refuse, Accept
    <2> QED
      BY <1>1, <2>1, <2>2, <2>3 DEF ConfigTypeOK
  <1>7. CASE \E w \in Workers : Spawn(w)
    <2>1. PICK w \in Workers, n \in FoundSizes :
            workers' = [workers EXCEPT ![w] = [cycle |-> live, max_entries |-> CacheSize(n)]]
            /\ live # 0 /\ UNCHANGED <<memory, last, live, reading, htaccess_main_conf>>
      BY <1>7 DEF Spawn
    <2>2. live \in Cycles
      BY <1>0, <2>1 DEF ConfigTypeOK, Cycles
    <2>3. n \in Sizes
      <3>1. CASE htaccess_main_conf = Nil
        BY <2>1, <3>1, SizesAssumption DEF FoundSizes
      <3>2. CASE htaccess_main_conf # Nil /\ ~Dangling
        <4>1. htaccess_main_conf \in Cycles
          BY <3>2 DEF ConfigTypeOK
        <4>2. Whole(memory[htaccess_main_conf])
          BY <3>2, <4>1, Apart DEF Dangling, Inv, Memory
        <4> QED
          BY <2>1, <3>2, <4>2, SizesAssumption DEF FoundSizes, Whole
      <3> QED
        BY <2>1, <3>1, <3>2 DEF FoundSizes
    <2>4. CacheSize(n) \in Sizes
      BY <2>3, SizesAssumption DEF CacheSize
    <2> QED
      BY <2>1, <2>2, <2>4 DEF ConfigTypeOK
  <1>8. CASE (\E w \in Workers : Exit(w)) \/ UNCHANGED vars
    BY <1>8 DEF ConfigTypeOK, Exit, vars
  <1> QED
    BY <1>2, <1>3, <1>4, <1>5, <1>6, <1>7, <1>8 DEF Next

LEMMA AlwaysTypedConfig == Spec => [](Inv /\ ConfigTypeOK)
  <1>1. Init => Inv /\ ConfigTypeOK
    <2>1. Init => ConfigTypeOK
      BY LevelsAssumption DEF Init, ConfigTypeOK, NotReading
    <2> QED
      BY <2>1, InitInv
  <1>2. Inv /\ ConfigTypeOK /\ [Next]_vars => (Inv /\ ConfigTypeOK)'
    BY StepInv, TypeStep
  <1> QED
    BY <1>1, <1>2, PTL DEF Spec

\* The types of the configurations, of what is left to read of one, of the pointer and
\* of the workers, for any number of levels and reloads: merging keeps every level's
\* values, and a worker has a size whatever it reads through the pointer.
THEOREM ConfigTypesHold == Spec => []ConfigTypeOK
  BY AlwaysTypedConfig, PTL

-----------------------------------------------------------------------------
(* What is written nearest. *)

\* The first k directives of ds are what loc holds: each is there, and nothing else.
Holds(loc, ds, k) ==
    /\ \A i \in 1 .. k : ds[i].name \in LocNames /\ loc[ds[i].level][ds[i].name] = ds[i].value
    /\ \A l \in 1 .. Levels, n \in LocNames :
         loc[l][n] # Unset => \E i \in 1 .. k : ds[i].name = n /\ ds[i].level = l

Written(ds, n, l) == {i \in DOMAIN ds : ds[i].name = n /\ ds[i].level <= l}

NearestIn(ds, n, l) ==
    {i \in Written(ds, n, l) : \A j \in Written(ds, n, l) : ds[j].level <= ds[i].level}

\* conf is what level l has after it was merged with those it is in.  http { } itself
\* is merged with nothing, and is not given the defaults.
Nearby(conf, ds, l) ==
    \A n \in LocNames :
      \/ Written(ds, n, l) = {} /\ conf[n] = IF l = 1 THEN Unset ELSE Default[n]
      \/ \E i \in NearestIn(ds, n, l) : conf[n] = ds[i].value

LEMMA NearbyFirst ==
    ASSUME NEW ds \in Seq(Directive), NEW loc \in [1 .. Levels -> LocConf], Holds(loc, ds, Len(ds))
    PROVE  Nearby(loc[1], ds, 1)
  <1> SUFFICES ASSUME NEW n \in LocNames
               PROVE  \/ Written(ds, n, 1) = {} /\ loc[1][n] = Unset
                      \/ \E i \in NearestIn(ds, n, 1) : loc[1][n] = ds[i].value
    BY DEF Nearby
  <1>0. \A i \in DOMAIN ds : i \in 1 .. Len(ds) /\ ds[i].level \in 1 .. Levels
    <2>1. \A d \in Directive : d.level \in 1 .. Levels
      BY DEF Directive
    <2> QED
      BY <2>1
  <1>1. CASE Written(ds, n, 1) = {}
    <2>1. 1 \in 1 .. Levels
      BY LevelsAssumption
    <2>2. ASSUME loc[1][n] # Unset PROVE FALSE
      <3>1. PICK i \in 1 .. Len(ds) : ds[i].name = n /\ ds[i].level = 1
        BY <2>1, <2>2 DEF Holds
      <3> QED
        BY <1>1, <3>1 DEF Written
    <2> QED
      BY <1>1, <2>2
  <1>2. CASE Written(ds, n, 1) # {}
    <2>1. PICK i : i \in Written(ds, n, 1)
      BY <1>2
    <2>2. \A j \in Written(ds, n, 1) : ds[j].level = 1
      BY <1>0, LevelsAssumption DEF Written
    <2>3. i \in NearestIn(ds, n, 1)
      BY <2>1, <2>2 DEF NearestIn
    <2>4. loc[1][n] = ds[i].value
      BY <1>0, <2>1, <2>2 DEF Holds, Written
    <2> QED
      BY <2>3, <2>4
  <1> QED
    BY <1>1, <1>2

LEMMA NearbyNext ==
    ASSUME NEW ds \in Seq(Directive), NEW loc \in [1 .. Levels -> LocConf], Holds(loc, ds, Len(ds)),
           NEW l \in 2 .. Levels, NEW prev \in LocConf, Nearby(prev, ds, l - 1)
    PROVE  Nearby(MergeLocConf(prev, loc[l]), ds, l)
  <1> DEFINE conf == MergeLocConf(prev, loc[l])
  <1> SUFFICES ASSUME NEW n \in LocNames
               PROVE  \/ Written(ds, n, l) = {} /\ conf[n] = Default[n]
                      \/ \E i \in NearestIn(ds, n, l) : conf[n] = ds[i].value
    BY LevelsAssumption DEF Nearby
  <1>1. l \in 1 .. Levels /\ l - 1 \in 1 .. Levels /\ l \in Nat /\ Levels \in Nat
    BY LevelsAssumption
  <1>2. conf[n] = IF loc[l][n] # Unset THEN loc[l][n]
                  ELSE IF prev[n] # Unset THEN prev[n] ELSE Default[n]
    BY DEF MergeLocConf
  <1>3. \A i \in DOMAIN ds : i \in 1 .. Len(ds) /\ ds[i].level \in 1 .. Levels
                             /\ (ds[i].name \in LocNames => ds[i].value # Unset)
    <2>1. \A d \in Directive : d.level \in 1 .. Levels /\ d.value # Unset
      BY UnsetAssumption DEF Directive
    <2> QED
      BY <2>1
  <1> HIDE DEF conf
  <1>4. CASE loc[l][n] # Unset
    <2>1. PICK i \in 1 .. Len(ds) : ds[i].name = n /\ ds[i].level = l
      BY <1>1, <1>4 DEF Holds
    <2>2. i \in Written(ds, n, l)
      BY <1>1, <2>1 DEF Written
    <2>3. \A j \in Written(ds, n, l) : ds[j].level <= ds[i].level
      BY <2>1 DEF Written
    <2>4. loc[l][n] = ds[i].value
      BY <2>1 DEF Holds
    <2>5. i \in NearestIn(ds, n, l)
      BY <2>2, <2>3 DEF NearestIn
    <2>6. conf[n] = loc[l][n]
      BY <1>2, <1>4
    <2> QED
      BY <2>4, <2>5, <2>6
  <1>5. CASE loc[l][n] = Unset
    <2>1. ASSUME NEW i \in DOMAIN ds, ds[i].name = n PROVE ds[i].level # l
      BY <1>3, <1>5, <2>1 DEF Holds
    <2>2. Written(ds, n, l) = Written(ds, n, l - 1)
      BY <1>1, <1>3, <2>1 DEF Written
    <2>3. NearestIn(ds, n, l) = NearestIn(ds, n, l - 1)
      BY <2>2 DEF NearestIn
    <2>4. CASE Written(ds, n, l - 1) = {}
      <3>1. NearestIn(ds, n, l - 1) = {}
        BY <2>4 DEF NearestIn
      <3>2. prev[n] = Unset \/ prev[n] = Default[n]
        BY <3>1 DEF Nearby
      <3> QED
        BY <1>2, <1>5, <2>2, <2>4, <3>2
    <2>5. CASE Written(ds, n, l - 1) # {}
      <3>1. PICK i \in NearestIn(ds, n, l - 1) : prev[n] = ds[i].value
        BY <2>5 DEF Nearby
      <3>2. i \in DOMAIN ds /\ ds[i].name = n
        BY <3>1 DEF NearestIn, Written
      <3>3. prev[n] # Unset
        BY <1>3, <3>1, <3>2
      <3> QED
        BY <1>2, <1>5, <2>3, <3>1, <3>3
    <2> QED
      BY <2>4, <2>5
  <1> QED
    BY <1>4, <1>5

\* What NearestWins says of one configuration.
Right(m) ==
    m.text.http =>
      \A l \in 2 .. Levels, n \in LocNames :
        LET given == Nearest(m.text, n, l) IN
        IF given = {} THEN m.loc[l][n] = Default[n] ELSE given = {m.loc[l][n]}

\* ngx_http_htaccess_merge_loc_conf, level by level: the value written nearest comes
\* through to every level below it.
LEMMA MergedIsRight ==
    ASSUME NEW m \in Conf, NEW ds \in Seq(Directive), m.text.directives = ds,
           NEW loc \in [1 .. Levels -> LocConf], Holds(loc, ds, Len(ds)), m.loc = MergedLocs(loc)
    PROVE  Right(m)
  <1> DEFINE n == Levels - 1
             S == {k \in 0 .. n : Nearby(m.loc[k + 1], ds, k + 1)}
  <1>1. /\ m.loc \in [1 .. Levels -> LocConf]
        /\ m.loc[1] = loc[1]
        /\ \A l \in 2 .. Levels : m.loc[l] = MergeLocConf(m.loc[l - 1], loc[l])
    <2> HIDE DEF n, S
    <2>1. PICK x : x = MergedLocs(loc)
      OBVIOUS
    <2>2. /\ x \in [1 .. Levels -> LocConf]
          /\ x[1] = loc[1]
          /\ \A l \in 2 .. Levels : x[l] = MergeLocConf(x[l - 1], loc[l])
      BY <2>1, MergedLocsIs
    <2>3. m.loc = x
      BY <2>1
    <2> QED
      BY <2>2, <2>3
  <1>2. n \in Nat
    BY LevelsAssumption
  <1>3. 0 \in S
    <2>1. Nearby(m.loc[1], ds, 1)
      BY <1>1, NearbyFirst
    <2>2. 0 + 1 = 1 /\ 0 \in 0 .. n
      BY <1>2
    <2> QED
      BY <2>1, <2>2
  <1>4. ASSUME NEW k \in 1 .. n, k - 1 \in S PROVE k \in S
    <2>1. k + 1 \in 2 .. Levels /\ (k + 1) - 1 = (k - 1) + 1 /\ (k - 1) + 1 \in 1 .. Levels /\ k \in 0 .. n
      BY LevelsAssumption
    <2>2. m.loc[(k - 1) + 1] \in LocConf /\ Nearby(m.loc[(k - 1) + 1], ds, (k - 1) + 1)
      BY <1>1, <1>4, <2>1
    <2>3. m.loc[k + 1] = MergeLocConf(m.loc[(k - 1) + 1], loc[k + 1])
      BY <1>1, <2>1
    <2>4. Nearby(m.loc[k + 1], ds, k + 1)
      BY <2>1, <2>2, <2>3, NearbyNext
    <2> QED
      BY <2>1, <2>4
  <1>5. \A k \in 1 .. n : k - 1 \in S => k \in S
    BY <1>4
  <1>6. 0 .. n \subseteq S
    <2> HIDE DEF S, n
    <2> QED
      BY <1>2, <1>3, <1>5, InductionUpTo
  <1>7. ASSUME NEW l \in 2 .. Levels, NEW a \in LocNames
        PROVE  LET given == Nearest(m.text, a, l) IN
               IF given = {} THEN m.loc[l][a] = Default[a] ELSE given = {m.loc[l][a]}
    <2>1. l - 1 \in 0 .. n /\ (l - 1) + 1 = l /\ l # 1
      BY LevelsAssumption
    <2>2. Nearby(m.loc[l], ds, l)
      BY <1>6, <2>1
    <2>3. Nearest(m.text, a, l) = {ds[i].value : i \in NearestIn(ds, a, l)}
      BY DEF Nearest, NearestIn, Written
    <2>4. CASE \E i \in NearestIn(ds, a, l) : m.loc[l][a] = ds[i].value
      <3>1. PICK i \in NearestIn(ds, a, l) : m.loc[l][a] = ds[i].value
        BY <2>4
      <3>2. ASSUME NEW j \in NearestIn(ds, a, l) PROVE ds[j].value = ds[i].value
        <4>1. /\ i \in 1 .. Len(ds) /\ j \in 1 .. Len(ds)
              /\ ds[i].name = a /\ ds[j].name = a
              /\ ds[i].level <= ds[j].level /\ ds[j].level <= ds[i].level
          BY DEF NearestIn, Written
        <4>2. ds[i].level = ds[j].level
          <5>1. \A d \in Directive : d.level \in 1 .. Levels
            BY DEF Directive
          <5>2. ds[i] \in Directive /\ ds[j] \in Directive
            BY <4>1
          <5> QED
            BY <4>1, <5>1, <5>2, LevelsAssumption
        <4> QED
          BY <4>1, <4>2 DEF Holds
      <3>3. {ds[j].value : j \in NearestIn(ds, a, l)} = {m.loc[l][a]}
        BY <3>1, <3>2
      <3> QED
        BY <2>3, <3>3
    <2>5. CASE Written(ds, a, l) = {} /\ m.loc[l][a] = Default[a]
      BY <2>3, <2>5 DEF NearestIn
    <2> QED
      BY <2>1, <2>2, <2>4, <2>5 DEF Nearby
  <1> QED
    BY <1>7 DEF Right

\* A directive is taken once: what loc held of the first k, it holds of one more.
LEMMA HoldsOneMore ==
    ASSUME NEW ds \in Seq(Directive), NEW k \in Nat, k + 1 \in 1 .. Len(ds),
           NEW loc \in [1 .. Levels -> LocConf], Holds(loc, ds, k),
           ds[k + 1].name \in LocNames, ds[k + 1].value \in Values,
           loc[ds[k + 1].level][ds[k + 1].name] = Unset
    PROVE  Holds([loc EXCEPT ![ds[k + 1].level][ds[k + 1].name] = ds[k + 1].value], ds, k + 1)
  <1> DEFINE d == ds[k + 1]
             new == [loc EXCEPT ![d.level][d.name] = d.value]
  <1>1. d.level \in 1 .. Levels /\ d.value # Unset
    <2>1. \A e \in Directive : e.level \in 1 .. Levels
      BY DEF Directive
    <2> QED
      BY <2>1, UnsetAssumption
  <1>2. /\ new[d.level][d.name] = d.value
        /\ \A l \in 1 .. Levels, n \in LocNames :
             ~(l = d.level /\ n = d.name) => new[l][n] = loc[l][n]
    BY <1>1 DEF LocConf
  <1>3. ASSUME NEW i \in 1 .. k PROVE ds[i].level \in 1 .. Levels /\ ds[i].value # Unset
    <2>1. \A e \in Directive : e.level \in 1 .. Levels /\ e.value # Unset
      BY UnsetAssumption DEF Directive
    <2>2. i \in 1 .. Len(ds)
      OBVIOUS
    <2> QED
      BY <2>1, <2>2
  <1>4. ASSUME NEW i \in 1 .. k PROVE ~(ds[i].level = d.level /\ ds[i].name = d.name)
    <2>1. loc[ds[i].level][ds[i].name] = ds[i].value
      BY DEF Holds
    <2> QED
      BY <1>3, <2>1
  <1> HIDE DEF new
  <1>5. ASSUME NEW i \in 1 .. k + 1
        PROVE  ds[i].name \in LocNames /\ new[ds[i].level][ds[i].name] = ds[i].value
    <2>1. CASE i = k + 1
      BY <1>2, <2>1
    <2>2. CASE i # k + 1
      <3>1. i \in 1 .. k
        BY <2>2
      <3>2. ds[i].name \in LocNames /\ loc[ds[i].level][ds[i].name] = ds[i].value
        BY <3>1 DEF Holds
      <3> QED
        BY <1>2, <1>3, <1>4, <3>1, <3>2
    <2> QED
      BY <2>1, <2>2
  <1>6. ASSUME NEW l \in 1 .. Levels, NEW n \in LocNames, new[l][n] # Unset
        PROVE  \E i \in 1 .. k + 1 : ds[i].name = n /\ ds[i].level = l
    <2>1. CASE l = d.level /\ n = d.name
      BY <2>1
    <2>2. CASE ~(l = d.level /\ n = d.name)
      <3>0. new[l][n] = loc[l][n]
        BY <1>2, <2>2
      <3>1. PICK i \in 1 .. k : ds[i].name = n /\ ds[i].level = l
        <4>1. \A a \in 1 .. Levels, b \in LocNames :
                loc[a][b] # Unset => \E i \in 1 .. k : ds[i].name = b /\ ds[i].level = a
          BY DEF Holds
        <4> HIDE DEF d
        <4> QED
          BY <1>6, <3>0, <4>1
      <3> QED
        BY <3>1
    <2> QED
      BY <2>1, <2>2
  <1> QED
    BY <1>5, <1>6 DEF Holds, new

-----------------------------------------------------------------------------

\* The directives of the configuration being read, but for those still to come.
Read ==
    LET m == memory[last]
        ds == m.text.directives
    IN  \E k \in 0 .. Len(ds) :
          /\ Holds(m.loc, ds, k)
          /\ Len(reading.todo) = Len(ds) - k
          /\ \A j \in 1 .. Len(reading.todo) : reading.todo[j] = ds[k + j]

\* What is read so far is held; what has been merged, and what runs, is right.
RightInv ==
    /\ reading.pc = "parse" => Read
    /\ reading.pc \in {"merged", "rest"} => Right(memory[last])
    /\ live # 0 => Right(memory[live])


\* A directive that is set: one more is held, and one less is to come.
LEMMA SetRead ==
    ASSUME Inv, ConfigTypeOK, Read, SetDirective
    PROVE  Read'
  <1> DEFINE m == memory[last]
             ds == m.text.directives
             d == Head(reading.todo)
  <1>1. /\ d.name \in LocNames /\ d.value \in Values /\ d.level \in 1 .. Levels
        /\ m.loc[d.level][d.name] = Unset
        /\ memory' = [memory EXCEPT ![last].loc[d.level][d.name] = d.value]
        /\ reading.todo # <<>>
    BY SetType
  <1>2. /\ m \in Conf /\ last \in Cycles /\ m.loc \in [1 .. Levels -> LocConf]
        /\ ds \in Seq(Directive) /\ reading.todo \in Seq(Directive)
    BY ReadIsConf, TextsAssumption DEF SetDirective, ConfigTypeOK, Conf
  <1>3. PICK k \in 0 .. Len(ds) :
          /\ Holds(m.loc, ds, k)
          /\ Len(reading.todo) = Len(ds) - k
          /\ \A j \in 1 .. Len(reading.todo) : reading.todo[j] = ds[k + j]
    BY DEF Read
  <1>4. Len(reading.todo) \in Nat /\ Len(reading.todo) >= 1 /\ d = reading.todo[1]
    BY <1>1, <1>2
  <1>5. k \in Nat /\ k + 1 \in 1 .. Len(ds) /\ d = ds[k + 1]
    <2>1. Len(ds) \in Nat
      BY <1>2
    <2>2. 1 \in 1 .. Len(reading.todo)
      BY <1>4
    <2>3. d = ds[k + 1]
      BY <1>3, <1>4, <2>2
    <2> HIDE DEF ds, d
    <2> QED
      BY <1>3, <1>4, <2>1, <2>3
  <1>6. PICK loc : loc = [m.loc EXCEPT ![d.level][d.name] = d.value]
    OBVIOUS
  <1>7. Holds(loc, ds, k + 1)
    <2> HIDE DEF m, ds, d
    <2> QED
      BY <1>1, <1>2, <1>3, <1>5, <1>6, HoldsOneMore
  <1>8. memory'[last] = [m EXCEPT !.loc = loc]
    BY <1>1, <1>2, <1>6 DEF ConfigTypeOK, Conf
  <1>9. memory'[last].loc = loc /\ memory'[last].text.directives = ds
    BY <1>2, <1>8 DEF Conf
  <1>10. reading'.todo = Tail(reading.todo) /\ last' = last
    BY DEF SetDirective, ConfigTypeOK
  <1>11. /\ Len(reading'.todo) = Len(ds) - (k + 1)
         /\ \A j \in 1 .. Len(reading'.todo) : reading'.todo[j] = ds[(k + 1) + j]
    <2>1. PICK todo : todo = reading.todo
      OBVIOUS
    <2>2. todo \in Seq(Directive) /\ todo # <<>> /\ reading'.todo = Tail(todo)
      BY <1>1, <1>2, <1>10, <2>1
    <2>3. Len(Tail(todo)) = Len(todo) - 1
          /\ \A j \in 1 .. Len(todo) - 1 : Tail(todo)[j] = todo[j + 1]
      BY <2>2
    <2>4. Len(todo) = Len(ds) - k /\ \A j \in 1 .. Len(todo) : todo[j] = ds[k + j]
      BY <1>3, <2>1
    <2>5. Len(ds) \in Nat /\ Len(todo) \in Nat
      BY <1>2, <2>2
    <2> HIDE DEF ds
    <2>6. ASSUME NEW j \in 1 .. Len(todo) - 1 PROVE Tail(todo)[j] = ds[(k + 1) + j]
      <3>1. j + 1 \in 1 .. Len(todo) /\ k + (j + 1) = (k + 1) + j
        BY <1>5, <2>5
      <3> QED
        BY <2>3, <2>4, <3>1
    <2> QED
      BY <1>5, <2>2, <2>3, <2>4, <2>5, <2>6
  <1>12. k + 1 \in 0 .. Len(ds)
    BY <1>5
  <1> HIDE DEF m, ds, d
  <1> QED
    BY <1>7, <1>9, <1>10, <1>11, <1>12 DEF Read

LEMMA RightStep ==
    ASSUME Inv, ConfigTypeOK, ConfigTypeOK', RightInv, [Next]_vars
    PROVE  RightInv'
  <1>0. live # 0 => live \in Cycles
    BY LevelsAssumption DEF ConfigTypeOK, Cycles
  \* What runs is left alone until another takes its place.
  <1>1. CASE Reload
    <2>1. PICK t \in Texts :
            /\ memory' = [memory EXCEPT ![last + 1] =
                 [pool |-> "created", text |-> t, cache_max_entries |-> CreateMainConf,
                  loc |-> [l \in 1 .. Levels |-> CreateLocConf]]]
            /\ reading' = IF t.http THEN [pc |-> "parse", todo |-> t.directives]
                                    ELSE [pc |-> "rest", todo |-> <<>>]
      BY <1>1 DEF Reload
    <2>2. last' = last + 1 /\ live' = live /\ last + 1 \in Cycles /\ live # last + 1
      BY <1>1, LevelsAssumption DEF Reload, ConfigTypeOK, Cycles
    <2> DEFINE c == [pool |-> "created", text |-> t, cache_max_entries |-> CreateMainConf,
                     loc |-> [l \in 1 .. Levels |-> CreateLocConf]]
    <2>3. memory'[last'] = c /\ (live # 0 => memory'[live] = memory[live])
      BY <1>0, <2>1, <2>2 DEF ConfigTypeOK
    <2>4. reading'.pc # "merged" /\ (reading'.pc = "rest" => ~t.http)
      BY <2>1
    <2>5. ASSUME reading'.pc = "parse" PROVE Read'
      <3>1. t.http /\ reading'.todo = t.directives
        BY <2>1, <2>5
      <3>2. t.directives \in Seq(Directive)
        BY TextsAssumption
      <3>3. Holds(c.loc, t.directives, 0)
        BY DEF Holds, CreateLocConf
      <3>4. c.text = t /\ c.text.directives = t.directives
        OBVIOUS
      <3> HIDE DEF c
      <3>5. 0 \in 0 .. Len(t.directives)
            /\ Len(t.directives) = Len(t.directives) - 0
            /\ \A j \in 1 .. Len(t.directives) : t.directives[j] = t.directives[0 + j]
        BY <3>2
      <3> QED
        BY <2>3, <3>1, <3>3, <3>4, <3>5 DEF Read
    <2>6. reading'.pc \in {"merged", "rest"} => Right(memory'[last'])
      <3>1. c.text = t
        OBVIOUS
      <3> HIDE DEF c
      <3> QED
        BY <2>3, <2>4, <3>1 DEF Right
    <2>7. live' # 0 => Right(memory'[live'])
      BY <2>2, <2>3 DEF RightInv
    <2> QED
      BY <2>5, <2>6, <2>7 DEF RightInv
  <1>2. CASE SetDirective
    <2>1. reading.pc = "parse" /\ reading'.pc = "parse" /\ UNCHANGED <<last, live>>
      BY <1>2 DEF SetDirective, ConfigTypeOK
    <2>2. Read'
      BY <1>2, <2>1, SetRead DEF RightInv
    <2>3. live # last
      BY <2>1 DEF Inv, Underway
    <2>4. PICK x : memory' = [memory EXCEPT ![last] = x]
      <3>1. \E x : memory' = [memory EXCEPT ![last] = x]
        BY <1>2, SetType
      <3> QED
        BY <3>1
    <2>5. live # 0 => memory'[live] = memory[live]
      BY <1>0, <2>3, <2>4 DEF ConfigTypeOK
    <2> QED
      BY <2>1, <2>2, <2>5 DEF RightInv
  <1>3. CASE MergeConf
    <2> DEFINE m == memory[last]
    <2>1. /\ reading.pc = "parse" /\ reading.todo = <<>> /\ reading'.pc = "merged"
          /\ UNCHANGED <<last, live>>
      BY <1>3 DEF MergeConf, ConfigTypeOK
    <2>2. /\ m \in Conf /\ last \in Cycles /\ m.loc \in [1 .. Levels -> LocConf]
          /\ m.text.directives \in Seq(Directive) /\ live # last
      BY <2>1, ReadIsConf, TextsAssumption DEF Conf, Inv, Underway
    <2>3. memory' = [memory EXCEPT ![last] = [m EXCEPT !.loc = MergedLocs(m.loc)]]
      BY <1>3 DEF MergeConf
    <2>4. memory'[last] = [m EXCEPT !.loc = MergedLocs(m.loc)]
          /\ (live # 0 => memory'[live] = memory[live])
      BY <1>0, <2>2, <2>3 DEF ConfigTypeOK
    <2>5. Holds(m.loc, m.text.directives, Len(m.text.directives))
      <3>1. PICK k \in 0 .. Len(m.text.directives) :
              /\ Holds(m.loc, m.text.directives, k)
              /\ Len(reading.todo) = Len(m.text.directives) - k
        BY <2>1 DEF RightInv, Read
      <3>2. Len(reading.todo) = 0 /\ Len(m.text.directives) \in Nat
        BY <2>1, <2>2
      <3>3. k = Len(m.text.directives)
        BY <3>1, <3>2
      <3> QED
        BY <3>1, <3>3
    <2>6. PICK n : n = memory'[last]
      OBVIOUS
    <2>7. n.text.directives = m.text.directives /\ n.loc = MergedLocs(m.loc)
      BY <2>2, <2>4, <2>6 DEF Conf
    <2>8. n \in Conf
      <3>1. MergedLocs(m.loc) \in [1 .. Levels -> [LocNames -> Values \cup {Unset}]]
        BY <2>2, MergedLocsIs DEF LocConf
      <3> HIDE DEF m
      <3> QED
        BY <2>2, <2>4, <2>6, <3>1 DEF Conf
    <2>9. Right(n)
      <3> HIDE DEF m
      <3> QED
        BY <2>2, <2>5, <2>7, <2>8, MergedIsRight
    <2> QED
      BY <2>1, <2>4, <2>6, <2>9 DEF RightInv
  <1>4. CASE Postconfiguration
    BY <1>4 DEF Postconfiguration, RightInv, ConfigTypeOK
  <1>5. CASE Refuse
    <2>1. UNCHANGED <<last, live>> /\ reading'.pc = "idle" /\ last \in Cycles /\ live # last
      BY <1>5 DEF Refuse, NotReading, Inv, Underway
    <2>2. live # 0 => memory'[live] = memory[live]
      BY <1>0, <1>5, <2>1 DEF Refuse, ConfigTypeOK
    <2> QED
      BY <2>1, <2>2 DEF RightInv
  <1>6. CASE Accept
    <2>1. live' = last /\ reading'.pc = "idle" /\ reading.pc = "rest" /\ last \in Cycles /\ live # last
      BY <1>6 DEF Accept, NotReading, Inv, Underway
    <2>2. memory'[last] = memory[last]
      BY <1>6, <2>1 DEF Accept
    <2> QED
      BY <2>1, <2>2 DEF RightInv
  <1>7. CASE UNCHANGED <<memory, last, live, reading>>
    BY <1>7 DEF RightInv, Read
  <1> QED
    BY <1>1, <1>2, <1>3, <1>4, <1>5, <1>6, <1>7 DEF Next, Spawn, Exit, vars

\* ngx_http_htaccess_merge_loc_conf: whatever order the blocks and the directives of a
\* file follow each other in, a configuration that runs has at each server and location
\* the value written nearest, else the default; for any number of levels.
THEOREM NearestValueWins == Spec => []NearestWins
  <1>1. Init => RightInv
    BY DEF Init, RightInv, NotReading
  <1>2. Inv /\ ConfigTypeOK /\ (Inv /\ ConfigTypeOK)' /\ RightInv /\ [Next]_vars => RightInv'
    BY RightStep
  <1>3. RightInv => NearestWins
    BY DEF RightInv, Right, NearestWins
  <1> QED
    BY <1>1, <1>2, <1>3, AlwaysTypedConfig, PTL DEF Spec

=============================================================================
