---------------------------- MODULE HtaccessRead ----------------------------
(***************************************************************************)
(* What one read of an .htaccess file promises the directory walk.  A read *)
(* is given a path and comes back with an answer that was right at some    *)
(* instant between the call and the return, whatever other processes do to *)
(* the files meanwhile.  Nothing is said of how: no cache, no stat, no     *)
(* pool.  HtaccessCache shows that htaccess_load_file keeps this promise.  *)
(***************************************************************************)

CONSTANTS
    Paths,      \* the .htaccess paths a walk may ask for
    Rules,      \* the possible parsed contents of a well-formed file
    Nil,        \* not among Rules: "no such file"; also the answer NGX_DECLINED
    Malformed,  \* nor this: content htaccess_parse rejects; also NGX_ERROR
    MayFail     \* TRUE when an allocation or a read may fail

VARIABLES
    disk,  \* disk[p]: what a process opening p right now would find
    read   \* the read in progress: its stage, its path and its answer

vars == <<disk, read>>

Contents == Rules \cup {Nil, Malformed}

\* A missing file is always "readable", so that it has one representation.
Disk == {f \in [rules : Contents, readable : BOOLEAN] :
            f.rules = Nil => f.readable}

TypeOK ==
    /\ disk \in [Paths -> Disk]
    /\ read \in [pc     : {"idle", "asked", "answered"},
                 path   : Paths \cup {Nil},
                 answer : Contents]

(***************************************************************************)
(* The answers that are right for a file in state f.  A file that may not  *)
(* be opened reads as missing, but rules the worker read while it still    *)
(* was readable remain right for as long as the content is what it was.    *)
(***************************************************************************)
RightAnswers(f) ==
    {a \in Contents : \/ a = f.rules /\ (f.readable \/ a \in Rules)
                      \/ a = Nil /\ ~f.readable
                      \/ a = Malformed /\ MayFail}

Idle == [pc |-> "idle", path |-> Nil, answer |-> Nil]

Init ==
    /\ disk \in [Paths -> Disk]
    /\ read = Idle

Ask(p) ==
    /\ read.pc = "idle"
    /\ read' = [pc |-> "asked", path |-> p, answer |-> Nil]
    /\ UNCHANGED disk

\* The instant at which the answer is taken from the file.
Sample ==
    /\ read.pc = "asked"
    /\ \E a \in RightAnswers(disk[read.path]) :
           read' = [pc |-> "answered", path |-> read.path, answer |-> a]
    /\ UNCHANGED disk

Return ==
    /\ read.pc = "answered"
    /\ read' = Idle
    /\ UNCHANGED disk

\* Some other process writes, creates, removes or chmods the file at p.
Change(p) ==
    /\ \E f \in Disk : disk' = [disk EXCEPT ![p] = f]
    /\ UNCHANGED read

Next ==
    \/ Sample \/ Return
    \/ \E p \in Paths : Ask(p) \/ Change(p)

Spec == Init /\ [][Next]_vars

=============================================================================
