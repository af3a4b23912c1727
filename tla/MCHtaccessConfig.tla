--------------------------- MODULE MCHtaccessConfig ---------------------------
(***************************************************************************)
(* An instance of HtaccessConfig for TLC.                                  *)
(***************************************************************************)
EXTENDS HtaccessConfig

\* A directive whose default is off and one whose default is on, at any level,
\* and the number of cache entries in the only block that may have it.
Written ==
    [name : {"htaccess", "htaccess_cache"}, level : 1 .. 3, value : {"on", "off"}]
      \cup [name : {"htaccess_cache_max_entries"}, level : {1}, value : {"0", "512"}]
      \cup [name : {"htaccess_cache_max_entries"}, level : {2}, value : {"512"}]

\* All of up to two directives, three of one name in any order of the levels,
\* and a file without http { }.
SomeTexts ==
    LET Files(ds) == {[http |-> TRUE, directives |-> d] : d \in ds}
        Nested == [i \in 1 .. 3 |-> [name : {"htaccess"}, level : 1 .. 3, value : {"on", "off"}]]
    IN  Files({<<>>}) \cup Files({<<d>> : d \in Written})
          \cup Files({<<d, e>> : d, e \in Written})
          \cup Files({<<d, e, f>> : d \in Nested[1], e \in Nested[2], f \in Nested[3]})
          \cup {[http |-> FALSE, directives |-> <<>>]}

=============================================================================
