--------------------------- MODULE MCSourcesStale ---------------------------
(* One install after another with a network that never fails, and what        *)
(* upstream was at when each of them began.                                   *)
EXTENDS MCSources

VARIABLE begun  \* upstream at the moment an install began

StaleInit == SourcesInit /\ begun = [p \in Procs |-> tip]

StaleNext ==
    /\ SourcesNext
    /\ begun' = [p \in Procs |-> IF spot[p] = "idle" /\ spot'[p] # "idle" THEN tip ELSE begun[p]]

StaleSpec == StaleInit /\ [][StaleNext]_<<vars, begun>>

\* A clean is to "force a fresh install (branch-pinned git deps that may have
\* advanced upstream, ...)" (clean.rs:3-4), and it leaves MOVE_HOME alone: what an
\* install copies for a branch is no older than the branch was when it began.
FreshInstall == \A p \in Procs : \A x \in copied[p] :
    LET ref == CheckoutRef(x.source)
    IN ref \in Branches => x.commit[3] >= begun[p][x.commit[1]][ref]
=============================================================================
