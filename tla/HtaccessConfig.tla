---------------------------- MODULE HtaccessConfig ----------------------------
(***************************************************************************)
(* The life of the module's configuration                                  *)
(* (ngx_http_htaccess_module.c): an nginx master reads a configuration,    *)
(* now and then another, and forks workers.                                *)
(*                                                                         *)
(* Each configuration lives in the pool of its cycle.  nginx calls the     *)
(* module back while it reads one; it destroys the pool of a configuration *)
(* that it refuses, and that of the previous one when it accepts.  The     *)
(* module also keeps a static pointer to its main configuration, which     *)
(* init_process reads in each new worker.                                  *)
(***************************************************************************)
EXTENDS Naturals, Sequences

CONSTANTS
    Texts,      \* the configuration files: whether they have http { }, and what is in it
    Levels,     \* http { } is 1, server { } 2, location { } 3, ...: each inside the one before
    Values,     \* what the directives of a location may be given
    Sizes,      \* the numbers htaccess_cache_max_entries may be given
    MaxCycles,  \* bound: the configurations that one master reads
    Workers,    \* worker processes
    Unset,      \* NGX_CONF_UNSET, and an ngx_str_t without data
    Nil         \* no process, no pointer

ASSUME LevelsAssumption == Levels \in Nat \ {0} /\ MaxCycles \in Nat

ASSUME SizesAssumption == {"0", "1024"} \subseteq Sizes

\* What is written has data.
ASSUME UnsetAssumption == Unset \notin Values \cup Sizes

ASSUME NilAssumption == Nil \notin Nat

\* What the directives of a location say when nobody wrote them.
Default == [htaccess |-> "off", htaccess_file |-> ".htaccess",
            htaccess_cache |-> "on", htaccess_max_redirects |-> "10"]

\* ngx_http_htaccess_commands: all but htaccess_cache_max_entries are kept per
\* location.
LocNames == DOMAIN Default

ASSUME ValuesAssumption == \A n \in LocNames : Default[n] \in Values

Directive ==
    [name : LocNames, level : 1 .. Levels, value : Values]
      \cup [name : {"htaccess_cache_max_entries"}, level : 1 .. Levels, value : Sizes]

ASSUME TextsAssumption == Texts \subseteq [http : BOOLEAN, directives : Seq(Directive)]

Cycles == 1 .. MaxCycles

VARIABLES
    memory,   \* memory[c]: the configuration in the pool of cycle c
    last,     \* the number of configurations read so far
    live,     \* the cycle that the master runs, or 0
    reading,  \* the configuration being read: where nginx is, and what is left
    htaccess_main_conf,  \* the static pointer, in the master
    workers   \* the worker processes

vars == <<memory, last, live, reading, htaccess_main_conf, workers>>

\* Nothing there: not yet created, or destroyed.
Released == [pool |-> "released"]

\* text is a ghost: what was written in it.
Conf ==
    [pool : {"created"}, text : Texts, cache_max_entries : Sizes \cup {Unset},
     loc : [1 .. Levels -> [LocNames -> Values \cup {Unset}]]]

NotReading == [pc |-> "idle", todo |-> <<>>]

-----------------------------------------------------------------------------
(* A configuration is read. *)

\* Seeded fault: the number is left for the directive to set, as others are.
CreateMainConfUnset == Unset

\* ngx_http_htaccess_create_main_conf
CreateMainConf == "1024"

\* ngx_http_htaccess_create_loc_conf, for each level
CreateLocConf == [n \in LocNames |-> Unset]

\* Seeded fault: the pointer is taken as soon as there is something to point to.
ReloadPointing ==
    /\ reading.pc = "idle"
    /\ last < MaxCycles
    /\ last' = last + 1
    /\ \E t \in Texts :
         /\ memory' = [memory EXCEPT ![last + 1] =
              [pool |-> "created", text |-> t, cache_max_entries |-> CreateMainConf,
               loc |-> [l \in 1 .. Levels |-> CreateLocConf]]]
         /\ reading' = IF t.http THEN [pc |-> "parse", todo |-> t.directives]
                                 ELSE [pc |-> "rest", todo |-> <<>>]
         /\ htaccess_main_conf' = IF t.http THEN last + 1 ELSE htaccess_main_conf
    /\ UNCHANGED <<live, workers>>

\* The master starts, or is told to reload, and opens a configuration file.
Reload ==
    /\ reading.pc = "idle"
    /\ last < MaxCycles
    /\ last' = last + 1
    /\ \E t \in Texts :
         /\ memory' = [memory EXCEPT ![last + 1] =
              [pool |-> "created", text |-> t, cache_max_entries |-> CreateMainConf,
               loc |-> [l \in 1 .. Levels |-> CreateLocConf]]]
         /\ reading' = IF t.http THEN [pc |-> "parse", todo |-> t.directives]
                                 ELSE [pc |-> "rest", todo |-> <<>>]
    /\ UNCHANGED <<live, htaccess_main_conf, workers>>

\* ngx_conf_set_flag_slot, _str_slot and _num_slot take a value only once.
Accepted(d) ==
    IF d.name \in LocNames
    THEN memory[last].loc[d.level][d.name] = Unset
    ELSE d.level = 1 /\ memory[last].cache_max_entries = Unset

SetDirective ==
    /\ reading.pc = "parse"
    /\ reading.todo # <<>>
    /\ LET d == Head(reading.todo) IN
         /\ Accepted(d)
         /\ memory' = IF d.name \in LocNames
                      THEN [memory EXCEPT ![last].loc[d.level][d.name] = d.value]
                      ELSE [memory EXCEPT ![last].cache_max_entries = d.value]
    /\ reading' = [reading EXCEPT !.todo = Tail(@)]
    /\ UNCHANGED <<last, live, htaccess_main_conf, workers>>

\* Seeded fault: the value of the outer block goes before that of the inner.
MergeOuterFirst(prev, conf) ==
    [n \in LocNames |-> IF prev[n] # Unset THEN prev[n]
                        ELSE IF conf[n] # Unset THEN conf[n] ELSE Default[n]]

\* ngx_http_htaccess_merge_loc_conf
MergeLocConf(prev, conf) ==
    [n \in LocNames |-> IF conf[n] # Unset THEN conf[n]
                        ELSE IF prev[n] # Unset THEN prev[n] ELSE Default[n]]

\* At the end of http { } nginx merges each level with the one it is in, from
\* the outside in.
MergedLocs(loc) ==
    LET merged[l \in 1 .. Levels] ==
          IF l = 1 THEN loc[1] ELSE MergeLocConf(merged[l - 1], loc[l])
    IN  merged

MergeConf ==
    /\ reading.pc = "parse"
    /\ reading.todo = <<>>
    /\ memory' = [memory EXCEPT ![last].loc = MergedLocs(@)]
    /\ reading' = [reading EXCEPT !.pc = "merged"]
    /\ UNCHANGED <<last, live, htaccess_main_conf, workers>>

\* ngx_http_htaccess_init, called when the whole of http { } is done.
Postconfiguration ==
    /\ reading.pc = "merged"
    /\ htaccess_main_conf' = last
    /\ reading' = [reading EXCEPT !.pc = "rest"]
    /\ UNCHANGED <<memory, last, live, workers>>

\* nginx refuses the configuration: a directive of this module, at any time one
\* of another, or memory; and after http { }, what may still follow it, the log
\* files and the sockets.  Its pool is destroyed.  If it was the first, the
\* process ends, and the next starts with nothing.
Refuse ==
    /\ reading.pc # "idle"
    /\ memory' = [memory EXCEPT ![last] = Released]
    /\ reading' = NotReading
    /\ htaccess_main_conf' = IF live = 0 THEN Nil ELSE htaccess_main_conf
    /\ UNCHANGED <<last, live, workers>>

\* The configuration is the one to run; the pool of the previous is destroyed.
Accept ==
    /\ reading.pc = "rest"
    /\ live' = last
    /\ memory' = [c \in Cycles |-> IF c = live THEN Released ELSE memory[c]]
    /\ reading' = NotReading
    /\ UNCHANGED <<last, htaccess_main_conf, workers>>

-----------------------------------------------------------------------------
(* Workers. *)

\* The static pointer leads to a pool that was destroyed.
Dangling == htaccess_main_conf # Nil /\ memory[htaccess_main_conf].pool = "released"

\* What is read there: anything, if it is gone.
FoundSizes ==
    IF htaccess_main_conf = Nil THEN {"1024"}
    ELSE IF Dangling THEN Sizes
    ELSE {memory[htaccess_main_conf].cache_max_entries}

\* htaccess_cache_init
CacheSize(n) == IF n = "0" THEN "1024" ELSE n

\* The master forks a worker with its memory as it is, to begin with or because
\* another has died: ngx_http_htaccess_init_process.
Spawn(w) ==
    /\ reading.pc = "idle"
    /\ live # 0
    /\ workers[w] = Nil
    /\ \E n \in FoundSizes :
         workers' = [workers EXCEPT ![w] = [cycle |-> live, max_entries |-> CacheSize(n)]]
    /\ UNCHANGED <<memory, last, live, reading, htaccess_main_conf>>

\* A worker is done with its configuration, or dies.
Exit(w) ==
    /\ workers[w] # Nil
    /\ workers' = [workers EXCEPT ![w] = Nil]
    /\ UNCHANGED <<memory, last, live, reading, htaccess_main_conf>>

-----------------------------------------------------------------------------

Init ==
    /\ memory = [c \in Cycles |-> Released]
    /\ last = 0
    /\ live = 0
    /\ reading = NotReading
    /\ htaccess_main_conf = Nil
    /\ workers = [w \in Workers |-> Nil]

Next ==
    \/ Reload \/ SetDirective \/ MergeConf \/ Postconfiguration \/ Refuse \/ Accept
    \/ \E w \in Workers : Spawn(w) \/ Exit(w)

Spec == Init /\ [][Next]_vars

-----------------------------------------------------------------------------
(* Properties. *)

ConfigTypeOK ==
    /\ memory \in [Cycles -> Conf \cup {Released}]
    /\ last \in 0 .. MaxCycles
    /\ live \in 0 .. last
    /\ reading \in [pc : {"idle", "parse", "merged", "rest"}, todo : Seq(Directive)]
    /\ htaccess_main_conf \in Cycles \cup {Nil}
    /\ workers \in [Workers -> [cycle : Cycles, max_entries : Sizes] \cup {Nil}]

\* The directive for n that is written nearest to level l, if there is any.
Nearest(t, n, l) ==
    LET written == {i \in DOMAIN t.directives :
                      t.directives[i].name = n /\ t.directives[i].level <= l}
        nearest == {i \in written :
                      \A j \in written : t.directives[j].level <= t.directives[i].level}
    IN  {t.directives[i].value : i \in nearest}

\* In a configuration that runs, each server and location has for each
\* directive the value written nearest to it, else the default, in whatever
\* order blocks and directives follow each other in the file.
NearestWins ==
    live # 0 /\ memory[live].text.http =>
      \A l \in 2 .. Levels, n \in LocNames :
        LET given == Nearest(memory[live].text, n, l) IN
        IF given = {} THEN memory[live].loc[l][n] = Default[n]
                      ELSE given = {memory[live].loc[l][n]}

\* The static pointer survives refused reloads as long as they are refused
\* before http { } is done.  What leaves it in a destroyed pool is a reload
\* refused later, or one that is accepted and has no http { }.
OnlyLateFailuresDangle ==
    [][~Dangling /\ Dangling' =>
         \/ Refuse /\ reading.pc = "rest" /\ memory[last].text.http
         \/ Accept /\ ~memory[last].text.http]_vars

\* Whatever is written, a worker forked while the pointer leads somewhere has a
\* cache of 1024 entries: nginx takes htaccess_cache_max_entries for a duplicate
\* of the value create_main_conf has put there, and refuses the file.
\* README.md:13 and :35 have it that the number can be set.
OnlyTheDefaultSize ==
    [][\A w \in Workers :
         workers[w] = Nil /\ workers'[w] # Nil /\ ~Dangling
           => workers'[w].max_entries = "1024"]_vars

=============================================================================
