----------------------------- MODULE SnapshotLog -----------------------------
(***************************************************************************)
(* What a queued signal promises to those who read it: accepted operations *)
(* form a log, publishing makes the whole log visible at once, and a       *)
(* reader's view is some published prefix that never moves backwards.      *)
(***************************************************************************)
EXTENDS Naturals, Sequences

CONSTANTS Readers, None

VARIABLES
    log,        \* the operations accepted so far
    published,  \* the prefix of log that readers can obtain
    view        \* view[r]: the prefix that r keeps, None when it keeps nothing

snapshotVars == <<log, published, view>>

Init ==
    /\ log = <<>> /\ published = <<>>
    /\ view = [r \in Readers |-> None]

\* Operations are only ever added at the end.
Commit ==
    /\ Len(log') > Len(log)
    /\ SubSeq(log', 1, Len(log)) = log
    /\ UNCHANGED <<published, view>>

Publish ==
    /\ published' = log
    /\ UNCHANGED <<log, view>>

\* A reader may be late, and obtain less than what is published by now, but
\* not less than what it obtained before.
Observe(r) ==
    \E n \in 0..Len(published) :
        /\ view[r] # None => Len(view[r]) <= n
        /\ view' = [view EXCEPT ![r] = SubSeq(published, 1, n)]
        /\ UNCHANGED <<log, published>>

Forget(r) ==
    /\ view' = [view EXCEPT ![r] = None]
    /\ UNCHANGED <<log, published>>

Next == Commit \/ Publish \/ \E r \in Readers : Observe(r) \/ Forget(r)

Spec == Init /\ [][Next]_snapshotVars
=============================================================================
