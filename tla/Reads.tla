------------------------------- MODULE Reads --------------------------------
(* What a program does after one of its transactions executed: it waits until *)
(* the indexer shows the effects (wait_for_effects, wait_for_object), then    *)
(* looks up and decodes the objects the effects name (created_decoded,        *)
(* mutated_decoded, changed_decoded, get_objects).  Other programs keep using *)
(* and deleting the same objects meanwhile.  `flavour` is the runtime: iota   *)
(* asks a GraphQL service page by page, sui a gRPC node in batches.           *)
EXTENDS FiniteSets, Naturals, Sequences, SequencesExt

CONSTANTS
    Objects,    \* object ids, packages included
    Packages,   \* the package ids among them
    Gas,        \* the coin that pays for the program's transaction
    Wanted,     \* the ids whose Move type is the T of the program
    Flavours,   \* runtimes
    OldEffects, \* whether sui nodes may hand over effects of the first format
    PageSize,   \* objects in a page of the GraphQL service
    Timeout,    \* WaitOptions::timeout
    Interval,   \* WaitOptions::interval
    MaxNow,     \* bound: the clock stops here
    MaxLog,     \* bound: transactions in the log, with the past and the program's own
    MaxFaults   \* bound: failing queries

ASSUME ObjectsAssumption ==
    /\ IsFiniteSet(Objects)
    /\ Packages \subseteq Objects
    /\ Gas \in Objects \ (Packages \cup Wanted)
    /\ Wanted \subseteq Objects \ Packages
    /\ Flavours \subseteq {"iota", "sui"}
    /\ OldEffects \in BOOLEAN

ASSUME BoundsAssumption ==
    /\ PageSize \in Nat \ {0} /\ Interval \in Nat \ {0}
    /\ Timeout \in Nat /\ MaxNow \in Nat /\ MaxNow >= Timeout + Interval
    /\ MaxLog \in Nat \ {0, 1} /\ MaxFaults \in Nat

VARIABLES
    log,        \* what was executed, in order: a sequence of Tx
    ingested,   \* how much of the log the indexer shows
    flavour,
    pc,         \* where the program is
    mine,       \* index of its transaction in the log, 0 before it
    todo,       \* targets of the wait still to be polled: <<id, version>>
    single,     \* wait_for_object was called, not wait_for_effects
    now, wake,  \* clock since the wait began; end of the sleep
    polls,      \* polls so far (history)
    refs,       \* ids get_objects is to return
    got,        \* what the pages brought: [id, version]
    kind,       \* ChangeKind of the lookup; "ids" for a direct get_objects
    waited,     \* how the wait ended: "none", "ok" or "error" (history)
    outcome,    \* how the last call ended
    faults

env == <<log, ingested>>
clock == <<now, wake, polls>>
reading == <<refs, got, kind>>
vars == <<env, flavour, pc, mine, todo, single, clock, reading, waited, outcome, faults>>

-----------------------------------------------------------------------------
(* The chain.  An index of the log serves as the lamport version of what the  *)
(* transaction at that index wrote; a package is at a version of its own.     *)

Tx == [wrote : SUBSET Objects, gone : SUBSET Objects, ok : BOOLEAN, v1 : BOOLEAN]

PackageVersion == 0

VersionAt(i, id) == IF id \in Packages THEN PackageVersion ELSE i

Live(n) == {id \in Objects : \E i \in 1 .. n :
               /\ id \in log[i].wrote
               /\ \A j \in (i + 1) .. n : id \notin log[j].gone}

LastWrite(n, id) == Max({i \in 1 .. n : id \in log[i].wrote})

\* mutant of Served: the query names no version and takes what is there
AnyVersion(id, version) == id \in Live(ingested)

\* The answer to a query for an object at a version.
Served(id, version) == \E i \in 1 .. ingested :
    id \in log[i].wrote /\ VersionAt(i, id) = version

-----------------------------------------------------------------------------
(* What the runtimes read from effects.                                       *)

Effects == log[mine]

\* sui: effects of the first format carry no per-object states, and the runtime
\* reads them as if nothing had changed.
Unreadable == flavour = "sui" /\ Effects.v1

Created == {id \in Effects.wrote : \A i \in 1 .. mine - 1 : id \notin log[i].wrote}

\* iota counts every output that is not a deletion, sui only object writes.
Counted == IF Unreadable THEN {}
           ELSE IF flavour = "iota" THEN Effects.wrote ELSE Effects.wrote \ Packages

\* mutant of ChangedIds: takes every written object for a created one
EveryWrite(k) == IF k = "mutated" THEN Counted \ Created ELSE Counted

ChangedIds(k) == CASE k = "created" -> Counted \cap Created
                   [] k = "mutated" -> Counted \ Created
                   [] k = "any" -> Counted

TargetVersions ==
    LET ids == SetToSeq(IF Unreadable THEN {} ELSE Effects.wrote)
    IN [i \in DOMAIN ids |-> <<ids[i], VersionAt(mine, ids[i])>>]

\* A page of the objects in ids: all of them on sui, which asks in one batch.
PageLimit == IF flavour = "iota" THEN PageSize ELSE Cardinality(Objects)

Pages(ids) == {page \in SUBSET ids :
    Cardinality(page) = (IF Cardinality(ids) > PageLimit THEN PageLimit ELSE Cardinality(ids))}

-----------------------------------------------------------------------------
NoTx == [wrote |-> {}, gone |-> {}, ok |-> TRUE, v1 |-> FALSE]

\* The past: the coin and any of the objects exist.
Init == /\ \E old \in SUBSET (Objects \ Packages) :
              log = <<[NoTx EXCEPT !.wrote = old \cup {Gas}]>>
        /\ ingested = 1
        /\ flavour \in Flavours
        /\ pc = "idle" /\ mine = 0 /\ todo = <<>> /\ single = FALSE
        /\ now = 0 /\ wake = 0 /\ polls = 0
        /\ refs = {} /\ got = {} /\ kind = "ids"
        /\ waited = "none" /\ outcome = "none" /\ faults = 0

End(how) == pc' = "done" /\ outcome' = how

WaitOver(answer, how) == waited' = answer /\ End(how)

\* The program's transaction executes: it writes its coin, and when it succeeds
\* also what it created, mutated or unwrapped, and removes some objects.
Execute ==
    /\ pc = "idle"
    /\ \E ok \in BOOLEAN, v1 \in BOOLEAN, w \in SUBSET (Objects \ {Gas}) :
       \E g \in SUBSET (Live(1) \ (w \cup {Gas})) :
          /\ ok \/ w \cup g = {}
          /\ v1 => flavour = "sui" /\ OldEffects
          /\ log' = Append(log, [wrote |-> w \cup {Gas}, gone |-> g, ok |-> ok, v1 |-> v1])
    /\ mine' = Len(log) + 1
    /\ pc' = "sent"
    /\ UNCHANGED <<ingested, flavour, todo, single, clock, reading, waited, outcome, faults>>

\* require_success, in both waits.
TxFailed == /\ pc = "sent" /\ ~Effects.ok
            /\ WaitOver("error", "TxFailed")
            /\ UNCHANGED <<env, flavour, mine, todo, single, clock, reading, faults>>

WaitForEffects ==
    /\ pc = "sent" /\ Effects.ok
    /\ todo' = TargetVersions
    /\ pc' = "poll"
    /\ UNCHANGED <<env, flavour, mine, single, clock, reading, waited, outcome, faults>>

WaitForObject ==
    /\ pc = "sent" /\ Effects.ok
    /\ \E i \in DOMAIN TargetVersions : todo' = <<TargetVersions[i]>>
    /\ single' = TRUE
    /\ pc' = "poll"
    /\ UNCHANGED <<env, flavour, mine, clock, reading, waited, outcome, faults>>

\* wait_for_object of an id the effects do not write.
NotInEffects ==
    /\ pc = "sent" /\ Effects.ok
    /\ \E id \in Objects : \A i \in DOMAIN TargetVersions : TargetVersions[i][1] # id
    /\ WaitOver("error", "NotInEffects")
    /\ UNCHANGED <<env, flavour, mine, todo, single, clock, reading, faults>>

-----------------------------------------------------------------------------
(* poll_for_version: the same deadline for all targets, and each of them is   *)
(* polled at least once.                                                      *)

Polling == pc = "poll" /\ todo # <<>> /\ polls' = polls + 1

\* mutant of Found: a deadline per target
FoundRestarts == now' = 0 /\ wake' = 0

Found == UNCHANGED <<now, wake>>

\* One target of wait_for_effects is there: on to the next.
PollFound ==
    /\ Polling /\ Served(todo[1][1], todo[1][2]) /\ ~single
    /\ todo' = Tail(todo)
    /\ Found
    /\ UNCHANGED <<env, flavour, pc, mine, single, reading, waited, outcome, faults>>

\* The object of wait_for_object is there; decode_object_as refuses packages
\* and other types.
PollFoundObject ==
    /\ Polling /\ Served(todo[1][1], todo[1][2]) /\ single
    /\ todo' = Tail(todo)
    /\ IF todo[1][1] \in Wanted
       THEN /\ got' = {[id |-> todo[1][1], version |-> todo[1][2]]}
            /\ WaitOver("ok", "ok")
       ELSE /\ got' = {}
            /\ WaitOver("ok", "Decode")
    /\ UNCHANGED <<env, flavour, mine, single, now, wake, refs, kind, faults>>

Indexed == /\ pc = "poll" /\ todo = <<>>
           /\ pc' = "indexed" /\ waited' = "ok"
           /\ UNCHANGED <<env, flavour, mine, todo, single, clock, reading, outcome, faults>>

\* mutant of Pause: looks at the deadline only after the sleep
PauseUnchecked == wake' = now + Interval /\ pc' = "sleep" /\ UNCHANGED <<waited, outcome>>

\* What follows a poll that found nothing.
Pause == IF now >= Timeout
         THEN WaitOver("error", "Timeout") /\ UNCHANGED wake
         ELSE wake' = now + Interval /\ pc' = "sleep" /\ UNCHANGED <<waited, outcome>>

PollMissing ==
    /\ Polling /\ ~Served(todo[1][1], todo[1][2])
    /\ Pause
    /\ UNCHANGED <<env, flavour, mine, todo, single, now, reading, faults>>

\* iota gives up at an error of the service, sui takes it for a missing object.
PollError ==
    /\ Polling /\ faults < MaxFaults /\ faults' = faults + 1
    /\ IF flavour = "iota" THEN WaitOver("error", "Backend") /\ UNCHANGED wake ELSE Pause
    /\ UNCHANGED <<env, flavour, mine, todo, single, now, reading>>

Wake == /\ pc = "sleep" /\ now >= wake
        /\ pc' = "poll"
        /\ UNCHANGED <<env, flavour, mine, todo, single, clock, reading, waited, outcome, faults>>

Tick == /\ pc \in {"poll", "sleep"} /\ now < MaxNow
        /\ now' = now + 1
        /\ UNCHANGED <<env, flavour, pc, mine, todo, single, wake, polls, reading>>
        /\ UNCHANGED <<waited, outcome, faults>>

-----------------------------------------------------------------------------
(* Lookups.                                                                   *)

\* decoded_for: find_by_type keeps the live objects of the type, then
\* get_objects fetches them unless there are none.
Find ==
    /\ pc = "indexed"
    /\ \E k \in {"created", "mutated", "any"} :
          /\ kind' = k
          /\ refs' \in Pages(ChangedIds(k) \cap Wanted \cap Live(ingested))
    /\ IF refs' = {} THEN End("ok") ELSE pc' = "get" /\ UNCHANGED outcome
    /\ UNCHANGED <<env, flavour, mine, todo, single, clock, got, waited, faults>>

\* get_objects called with ids of the program's choice among those changed.
GetObjects ==
    /\ pc = "indexed"
    /\ refs' \in SUBSET (ChangedIds("any") \ Packages)
    /\ IF refs' = {} THEN End("ok") ELSE pc' = "get" /\ UNCHANGED outcome
    /\ UNCHANGED <<env, flavour, mine, todo, single, clock, got, kind, waited, faults>>

Ids(objs) == {o.id : o \in objs}

\* mutant of Unserved: the cursor is not passed on
FirstPage == refs \cap Live(ingested)

Unserved == (refs \cap Live(ingested)) \ Ids(got)

\* The last page has come: an id without an object is an error, and so is an
\* object of another type.
Decoded(objs) == CASE refs \ Ids(objs) # {} -> "NotFound"
                   [] refs \subseteq Ids(objs) /\ refs \ Wanted # {} -> "Decode"
                   [] OTHER -> "ok"

\* One page of get_objects.
GetPage ==
    /\ pc = "get"
    /\ \E page \in Pages(Unserved) :
          /\ got' = got \cup {[id |-> id, version |-> LastWrite(ingested, id)] : id \in page}
          /\ IF page = Unserved THEN End(Decoded(got')) ELSE UNCHANGED <<pc, outcome>>
    /\ UNCHANGED <<env, flavour, mine, todo, single, clock, refs, kind, waited, faults>>

LookupError ==
    /\ pc \in {"indexed", "get"} /\ faults < MaxFaults /\ faults' = faults + 1
    /\ End("Backend")
    /\ UNCHANGED <<env, flavour, mine, todo, single, clock, reading, waited>>

-----------------------------------------------------------------------------
(* The rest of the world.                                                     *)

\* Another program mutates, deletes or wraps a shared object.
Others ==
    /\ mine # 0 /\ Len(log) < MaxLog /\ pc # "done"
    /\ \E id \in Live(Len(log)) \ (Packages \cup {Gas}) :
          \/ log' = Append(log, [NoTx EXCEPT !.wrote = {id}])
          \/ log' = Append(log, [NoTx EXCEPT !.gone = {id}])
    /\ UNCHANGED <<ingested, flavour, pc, mine, todo, single, clock, reading, waited, outcome, faults>>

Ingest ==
    /\ ingested < Len(log) /\ pc # "done"
    /\ ingested' = ingested + 1
    /\ UNCHANGED <<log, flavour, pc, mine, todo, single, clock, reading, waited, outcome, faults>>

Poll == PollFound \/ PollFoundObject \/ PollMissing
Lookup == Find \/ GetObjects \/ GetPage
Call == TxFailed \/ WaitForEffects \/ WaitForObject \/ NotInEffects
Program == Execute \/ Call \/ Poll \/ Indexed \/ Wake \/ Lookup
Fault == PollError \/ LookupError
Next == Program \/ Tick \/ Fault \/ Others \/ Ingest

\* The program is scheduled and time passes; the indexer may stop for good, and
\* nothing relies on a fault.
Spec == Init /\ [][Next]_vars /\ WF_vars(Program) /\ WF_vars(Tick)

-----------------------------------------------------------------------------
ReadsTypeOK ==
    /\ log \in Seq(Tx) /\ Len(log) \in 1 .. MaxLog
    /\ ingested \in 1 .. Len(log)
    /\ flavour \in Flavours
    /\ pc \in {"idle", "sent", "poll", "sleep", "indexed", "get", "done"}
    /\ mine \in 0 .. Len(log)
    /\ todo \in Seq(Objects \X (0 .. MaxLog))
    /\ single \in BOOLEAN
    /\ now \in 0 .. MaxNow
    /\ wake \in 0 .. (Timeout + Interval)
    /\ polls \in Nat
    /\ refs \in SUBSET Objects
    /\ got \in SUBSET [id : Objects, version : 0 .. MaxLog]
    /\ kind \in {"created", "mutated", "any", "ids"}
    /\ waited \in {"none", "ok", "error"}
    /\ outcome \in {"none", "ok", "TxFailed", "NotInEffects", "Timeout", "Backend", "Decode", "NotFound"}
    /\ faults \in 0 .. MaxFaults

Await == INSTANCE AwaitIndexed WITH sent <- mine, shown <- ingested, answer <- waited

\* wait_for_effects and wait_for_object say Ok only when the indexer shows the
\* transaction, whatever lags, fails or is deleted meanwhile.  It is so only
\* without OldEffects: for those sui has no target and says Ok at once.
KeepsAwait == Await!Spec

\* All targets share one deadline: however many objects a transaction wrote, the
\* polls are one for each of them and one for each interval of the timeout.
PollsBounded ==
    mine # 0 => polls <= Cardinality(Effects.wrote) + (Timeout + Interval - 1) \div Interval

Untouched(id) == \A i \in mine + 1 .. Len(log) : id \notin log[i].gone

\* The lookups after a wait.  On success: objects of the type asked for, changed
\* by the transaction in the way asked for, none older than it, and all of them
\* that are not removed since, unless the GraphQL service had more than a page.
\* A changed object is missed only when somebody removed it.  With OldEffects the
\* lookups of sui find nothing and succeed.
ReadIsExact ==
    pc = "done" /\ waited = "ok" /\ ~single =>
      /\ outcome = "ok" => Ids(got) \subseteq Wanted
      /\ outcome = "ok" => \A o \in got : o.version >= mine
      /\ outcome = "ok" /\ kind = "created" => Ids(got) \subseteq Created
      /\ outcome = "ok" /\ kind = "mutated" => Ids(got) \cap Created = {}
      /\ outcome = "ok" /\ kind # "ids" =>
            \/ {id \in ChangedIds(kind) \cap Wanted : Untouched(id)} \subseteq Ids(got)
            \/ flavour = "iota" /\ Cardinality(got) = PageSize
      /\ outcome = "NotFound" => \E id \in refs : ~Untouched(id)

\* Whatever the indexer does, the wait comes to an end, and after it the lookup
\* with its walk through pages.
ReadEnds == (pc = "sent") ~> (pc = "done")
=============================================================================
