----------------------------- MODULE HtaccessWalk -----------------------------
(***************************************************************************)
(* What htaccess_build_merged_ctx promises htaccess_execute.  Each pass    *)
(* over a request reads the .htaccess file of every directory of its URI   *)
(* once, the root's first, and one after the other: files may change       *)
(* between two reads, so the rules handed over need not be those of any    *)
(* one instant, but each is right for its file at an instant at which the  *)
(* walk was at it.  There are at most max_redirects passes.                *)
(*                                                                         *)
(* Nothing is said of how a file is read (HtaccessRead says what one read  *)
(* promises) nor of what the rules do.  HtaccessWorker shows that the walk *)
(* through the cache keeps this promise.                                   *)
(***************************************************************************)
EXTENDS HtaccessRead, Naturals, Sequences

CONSTANTS
    Chains,       \* the .htaccess paths of a URI's directories, the root's first
    MaxRedirects  \* conf->max_redirects

VARIABLE walk  \* the pass of the request in the handler, and the rules it has read

walkVars == <<vars, walk>>

NoWalk == [pc |-> "none", chain |-> <<>>, next |-> 1, pass |-> 0, rules |-> <<>>]

Pass(c, n) == [pc |-> "walk", chain |-> c, next |-> 1, pass |-> n, rules |-> <<>>]

WalkInit == Init /\ walk = NoWalk

Arrive ==
    /\ walk.pc = "none"
    /\ MaxRedirects > 0
    /\ \E c \in Chains : walk' = Pass(c, 0)
    /\ UNCHANGED vars

\* The next directory's file is asked for, and no other.
AskNext ==
    /\ walk.pc = "walk"
    /\ walk.next <= Len(walk.chain)
    /\ Ask(walk.chain[walk.next])
    /\ UNCHANGED walk

\* Only rules are kept of the answers, behind those of the parent directories.
TakeAnswer ==
    /\ walk.pc = "walk"
    /\ Return
    /\ walk' = [walk EXCEPT !.next = @ + 1,
                            !.rules = IF read.answer \in Rules THEN Append(@, read.answer) ELSE @]

\* No directory is left out.
HandOver ==
    /\ walk.pc = "walk"
    /\ walk.next > Len(walk.chain)
    /\ walk' = [walk EXCEPT !.pc = "apply"]
    /\ UNCHANGED vars

\* The rules send the request to another URI, or are done with it.
Again ==
    /\ walk.pc = "apply"
    /\ walk.pass + 1 < MaxRedirects
    /\ \E c \in Chains : walk' = Pass(c, walk.pass + 1)
    /\ UNCHANGED vars

Decided ==
    /\ walk.pc = "apply"
    /\ walk' = NoWalk
    /\ UNCHANGED vars

WalkNext ==
    \/ Arrive \/ AskNext \/ TakeAnswer \/ HandOver \/ Again \/ Decided
    \/ (Sample \/ \E p \in Paths : Change(p)) /\ UNCHANGED walk

WalkSpec == WalkInit /\ [][WalkNext]_walkVars

=============================================================================
